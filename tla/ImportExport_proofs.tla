-------------------------- MODULE ImportExport_proofs --------------------------
(***************************************************************************)
(* Theorems about ImportExport: for any topics, resources, options and     *)
(* files.                                                                  *)
(***************************************************************************)
EXTENDS ImportExport, TLAPS

ImportChanged == changed["import"]

(***************************************************************************)
(* What an import works on comes from its file, and resources wait for the *)
(* topics.                                                                 *)
(***************************************************************************)
WorkInv ==
    import # NoJob =>
        /\ import.topics \subseteq ImportedTopics
        /\ import.permissions \subseteq ImportedPermissions
        /\ At("set topic") => import.item \in ImportedTopics
        /\ At("set permission") => import.item \in ImportedPermissions /\ import.topics = {}

(***************************************************************************)
(* An element the loop has left behind is stored, or somebody else has     *)
(* changed it.                                                             *)
(***************************************************************************)
TopicSettled(t) ==
    \/ t \in ImportChanged.topics
    \/ t \in Registered /\ [id |-> t, config |-> topics[t]] \in ImportedTopics

ResourceSettled(k) ==
    \/ k \in ImportChanged.keys
    \/ k \in DOMAIN entries /\ [key |-> k, perms |-> entries[k]] \in ImportedPermissions

TopicsInv ==
    import # NoJob =>
        \A rec \in ImportedTopics :
            rec \in import.topics \/ (At("set topic") /\ rec = import.item) \/ TopicSettled(rec.id)

ResourcesInv ==
    import # NoJob =>
        \A rec \in ImportedPermissions :
            \/ rec \in import.permissions
            \/ At("set permission") /\ rec = import.item
            \/ ResourceSettled(rec.key)

(***************************************************************************)
(* A topic in the cache is registered, or somebody else has changed it.    *)
(***************************************************************************)
CacheInv ==
    import # NoJob =>
        /\ import.topicCache \subseteq Registered \cup ImportChanged.topics
        /\ At("set permission") => TopicOf(import.item.key) \in import.topicCache

ImportInv == WorkInv /\ TopicsInv /\ ResourcesInv /\ CacheInv /\ RefusedForTheFile

(***************************************************************************)
(* An export without topic filter looks for entries of the topics in the   *)
(* file only.                                                              *)
(***************************************************************************)
ExportInv ==
    export # NoJob =>
        (export.options.includeTopicConfig /\ export.options.filterTopics = NoFilter =>
            /\ \A k \in export.todo : \E topic \in export.file.topics : topic.id = TopicOf(k)
            /\ \A rec \in export.file.permissions :
                 \E topic \in export.file.topics : topic.id = TopicOf(rec.key))

(***************************************************************************)
(* What nobody has changed since an export began is in its file as it is   *)
(* stored: a topic from the start, an entry when the cursor has passed.    *)
(***************************************************************************)
ExportChanged == changed["export"]
Asked == Received(export.options)

Wanted(k) ==
    Selects(Asked, k) /\ (Asked.filterTopics = NoFilter => TopicOf(k) \in Registered)

TopicIsExact(t) ==
    \A config \in Configs :
        [id |-> t, config |-> config] \in export.file.topics <=>
            t \in Registered /\ SelectsTopic(Asked, t) /\ topics[t] = config

EntryIsExact(k) ==
    /\ k \in export.todo => Wanted(k)
    /\ \A perms \in Contents :
         [key |-> k, perms |-> perms] \in export.file.permissions <=>
             k \notin export.todo /\ Wanted(k) /\ k \in DOMAIN entries /\ entries[k] = perms

ExactInv ==
    export # NoJob =>
        /\ \A t \in Topics \ ExportChanged.topics : TopicIsExact(t)
        /\ \A k \in Keys \ ExportChanged.keys :
             TopicOf(k) \notin ExportChanged.topics => EntryIsExact(k)

IInv == TypeOK /\ ImportInv /\ ExportInv /\ ExactInv

-----------------------------------------------------------------------------
(* Collections, options and files                                          *)

LEMMA WithTopic ==
    ASSUME TypeOK, NEW rec \in TopicRecord
    PROVE  LET new == With(topics, rec.id, rec.config) IN
           DOMAIN new \subseteq Topics /\ new \in [DOMAIN new -> Configs]
BY DEF TypeOK, With, TopicRecord

LEMMA WithEntry ==
    ASSUME TypeOK, NEW rec \in ResourceRecord
    PROVE  LET new == With(entries, rec.key, rec.perms) IN
           DOMAIN new \subseteq Keys /\ new \in [DOMAIN new -> Contents]
BY DEF TypeOK, With, ResourceRecord

LEMMA WithoutTopics ==
    ASSUME TypeOK, NEW S
    PROVE  LET new == Without(topics, S) IN
           DOMAIN new \subseteq Topics /\ new \in [DOMAIN new -> Configs]
BY DEF TypeOK, Without

LEMMA WithoutEntries ==
    ASSUME TypeOK, NEW S
    PROVE  LET new == Without(entries, S) IN
           DOMAIN new \subseteq Keys /\ new \in [DOMAIN new -> Contents]
BY DEF TypeOK, Without

LEMMA SelectedOfFile ==
    ASSUME NEW file \in File, NEW options
    PROVE  /\ SelectedTopics(file, options) \subseteq TopicRecord
           /\ SelectedPermissions(file, options) \subseteq ResourceRecord
BY DEF File, SelectedTopics, SelectedPermissions

LEMMA ImportedTypes ==
    ASSUME TypeOK, import # NoJob
    PROVE  ImportedTopics \subseteq TopicRecord /\ ImportedPermissions \subseteq ResourceRecord
<1>1. import.file \in File
  BY DEF TypeOK, ImportJob
<1> QED
  BY <1>1, SelectedOfFile DEF ImportedTopics, ImportedPermissions

-----------------------------------------------------------------------------
(* The history                                                             *)

Changes == [topics : SUBSET Topics, keys : SUBSET Keys]

LEMMA ChangeType ==
    ASSUME TypeOK, NEW ts \in SUBSET Topics, NEW ks \in SUBSET Keys, NEW js, Change(ts, ks, js)
    PROVE  /\ changed' \in [{"export", "import"} -> Changes]
           /\ ImportChanged'.topics = IF "import" \in js THEN ImportChanged.topics
                                      ELSE ImportChanged.topics \cup ts
           /\ ImportChanged'.keys = IF "import" \in js THEN ImportChanged.keys
                                    ELSE ImportChanged.keys \cup ks
BY DEF TypeOK, Change, ImportChanged, Changes

LEMMA StartsType ==
    ASSUME TypeOK, NEW job \in {"export", "import"}, Starts(job)
    PROVE  /\ changed' \in [{"export", "import"} -> Changes]
           /\ job = "export" => ImportChanged' = ImportChanged
BY DEF TypeOK, Starts, ImportChanged, Nothing, Changes

-----------------------------------------------------------------------------
(* Types                                                                   *)

LEMMA InitInv == Init => IInv
<1> SUFFICES ASSUME Init PROVE IInv
  OBVIOUS
<1>1. TypeOK
  BY DEF Init, TypeOK, Nothing
<1>2. ImportInv /\ ExportInv
  BY DEF Init, ImportInv, WorkInv, TopicsInv, ResourcesInv, CacheInv, RefusedForTheFile, At,
         ExportInv
<1>3. ExactInv
  BY DEF Init, ExactInv
<1> QED
  BY <1>1, <1>2, <1>3 DEF IInv

LEMMA ExportType ==
    ASSUME TypeOK, NEW asked \in ExportOptions, Export(asked)
    PROVE  TypeOK'
<1> DEFINE options == Received(asked)
           ts == {[id |-> t, config |-> topics[t]] :
                    t \in {u \in Registered : SelectsTopic(options, u)}}
           ks == {k \in Keys : /\ Selects(options, k)
                               /\ options.filterTopics = NoFilter => TopicOf(k) \in Registered}
<1>1. ts \in SUBSET TopicRecord
  BY DEF TypeOK, TopicRecord, Registered
<1>2. export' = [options |-> asked, file |-> [topics |-> ts, permissions |-> {}], todo |-> ks]
  BY DEF Export, EmptyFile
<1>3. export' \in ExportJob
  <2> HIDE DEF ts, ks
  <2>1. ks \in SUBSET Keys
    BY DEF ks
  <2> QED
    BY <1>1, <1>2, <2>1, OptionsAssumption DEF ExportJob, File
<1> QED
  BY <1>3, StartsType DEF TypeOK, Export, Changes

LEMMA ExportEntryType ==
    ASSUME TypeOK, NEW k \in Keys, ExportEntry(k)
    PROVE  TypeOK'
<1>1. export \in ExportJob
  BY DEF TypeOK, ExportEntry
<1> DEFINE ps == IF k \in DOMAIN entries
                   THEN export.file.permissions \cup {[key |-> k, perms |-> entries[k]]}
                   ELSE export.file.permissions
<1>2. ps \in SUBSET ResourceRecord
  BY <1>1 DEF TypeOK, ResourceRecord, ExportJob, File
<1>3. export' = [export EXCEPT !.todo = @ \ {k}, !.file.permissions = ps]
  BY DEF ExportEntry
<1>4. export' \in ExportJob
  BY <1>1, <1>2, <1>3 DEF ExportJob, File
<1> QED
  BY <1>4 DEF TypeOK, ExportEntry

LEMMA ImportType ==
    ASSUME TypeOK, NEW file \in File, NEW asked \in ImportOptions, Import(file, asked)
    PROVE  TypeOK'
<1> DEFINE ts == SelectedTopics(file, Received(asked))
           ps == SelectedPermissions(file, Received(asked))
<1>1. ts \in SUBSET TopicRecord /\ ps \in SUBSET ResourceRecord
  BY SelectedOfFile
<1>2. import' = [options |-> asked, file |-> file, pc |-> "loop", topics |-> ts,
                 permissions |-> ps, item |-> NoJob, topicCache |-> {}]
  BY DEF Import
<1>3. import' \in ImportJob
  <2> HIDE DEF ts, ps
  <2> QED
    BY <1>1, <1>2, OptionsAssumption DEF ImportJob
<1> QED
  BY <1>3, StartsType DEF TypeOK, Import, Changes

LEMMA ImportTopicType ==
    ASSUME TypeOK, NEW rec \in TopicRecord, ImportTopic(rec)
    PROVE  TypeOK'
<1>1. import \in ImportJob
  BY DEF TypeOK, ImportTopic, At
<1>2. import' \in ImportJob
  BY <1>1 DEF ImportTopic, ImportJob
<1> QED
  BY <1>2 DEF TypeOK, ImportTopic, ImportStep

LEMMA ImportResourceType ==
    ASSUME TypeOK, NEW rec \in ResourceRecord, ImportResource(rec)
    PROVE  TypeOK'
<1>1. import \in ImportJob
  BY DEF TypeOK, ImportResource, At
<1>2. TopicOf(rec.key) \in Topics
  BY DEF ResourceRecord, Keys, TopicOf
<1>3. import' \in ImportJob
  BY <1>1, <1>2 DEF ImportResource, ImportJob
<1> QED
  BY <1>3 DEF TypeOK, ImportResource, ImportStep

\* The two writes, and what they leave of the state's types.
LEMMA ImportedItem ==
    ASSUME TypeOK, WorkInv
    PROVE  /\ At("set topic") => import \in ImportJob /\ import.item \in TopicRecord
           /\ At("set permission") => import \in ImportJob /\ import.item \in ResourceRecord
BY ImportedTypes DEF TypeOK, WorkInv, At

LEMMA TopicWriteType ==
    ASSUME TypeOK, NEW rec \in TopicRecord, topics' = With(topics, rec.id, rec.config),
           UNCHANGED <<entries, export>>, Change({rec.id}, {}, {"import"}),
           import' \in {NoJob} \cup ImportJob
    PROVE  TypeOK'
<1>1. rec.id \in Topics
  BY DEF TopicRecord
<1>2. changed' \in [{"export", "import"} -> Changes]
  BY <1>1, ChangeType
<1> QED
  BY <1>2, WithTopic DEF TypeOK, Changes

LEMMA EntryWriteType ==
    ASSUME TypeOK, NEW rec \in ResourceRecord, entries' = With(entries, rec.key, rec.perms),
           UNCHANGED <<topics, export>>, Change({}, {rec.key}, {"import"}),
           import' \in {NoJob} \cup ImportJob
    PROVE  TypeOK'
<1>1. rec.key \in Keys
  BY DEF ResourceRecord
<1>2. changed' \in [{"export", "import"} -> Changes]
  BY <1>1, ChangeType
<1> QED
  BY <1>2, WithEntry DEF TypeOK, Changes

LEMMA BackInLoop ==
    ASSUME import \in ImportJob, import' = [import EXCEPT !.pc = "loop", !.item = NoJob]
    PROVE  import' \in ImportJob
BY DEF ImportJob

LEMMA ImportWriteType ==
    ASSUME TypeOK, WorkInv, ImportSetTopic \/ ImportSetPermission \/ ImportFails
    PROVE  TypeOK'
<1>1. CASE ImportSetTopic
  <2>1. import.item \in TopicRecord /\ import \in ImportJob
    BY <1>1, ImportedItem DEF ImportSetTopic
  <2> QED
    BY <1>1, <2>1, BackInLoop, TopicWriteType DEF ImportSetTopic
<1>2. CASE ImportSetPermission
  <2>1. import.item \in ResourceRecord /\ import \in ImportJob
    BY <1>2, ImportedItem DEF ImportSetPermission
  <2> QED
    BY <1>2, <2>1, BackInLoop, EntryWriteType DEF ImportSetPermission
<1>3. CASE ImportFails
  <2>1. CASE UNCHANGED <<topics, entries, changed>>
    BY <1>3, <2>1 DEF TypeOK, ImportFails
  <2>2. CASE At("set topic") /\ topics' = With(topics, import.item.id, import.item.config)
             /\ Change({import.item.id}, {}, {"import"}) /\ UNCHANGED entries
    BY <1>3, <2>2, ImportedItem, TopicWriteType DEF ImportFails
  <2>3. CASE At("set permission") /\ entries' = With(entries, import.item.key, import.item.perms)
             /\ Change({}, {import.item.key}, {"import"}) /\ UNCHANGED topics
    BY <1>3, <2>3, ImportedItem, EntryWriteType DEF ImportFails
  <2> QED
    BY <1>3, <2>1, <2>2, <2>3 DEF ImportFails
<1> QED
  BY <1>1, <1>2, <1>3

\* A step of another request.
OtherStep ==
    \/ \E k \in Keys, perms \in Contents : SetPermission(k, perms)
    \/ \E k \in Keys : RemoveResource(k)
    \/ \E t \in Topics, config \in Configs : SetTopic(t, config)
    \/ \E t \in Topics : RemoveTopic(t)

SameBut(ts, ks) ==
    /\ \A t \in Topics \ ts : /\ t \in Registered <=> t \in Registered'
                              /\ t \in Registered => topics'[t] = topics[t]
    /\ \A k \in Keys \ ks : /\ k \in DOMAIN entries <=> k \in DOMAIN entries'
                            /\ k \in DOMAIN entries => entries'[k] = entries[k]

(***************************************************************************)
(* A step beside the import leaves it alone, and whatever it changes is    *)
(* recorded.                                                               *)
(***************************************************************************)
Recorded ==
    /\ UNCHANGED import
    /\ ImportChanged.topics \subseteq ImportChanged'.topics
    /\ ImportChanged.keys \subseteq ImportChanged'.keys
    /\ SameBut(ImportChanged'.topics, ImportChanged'.keys)

(***************************************************************************)
(* The same for a step beside the export, an import's write among them.    *)
(***************************************************************************)
ExportRecorded ==
    /\ UNCHANGED export
    /\ ExportChanged.topics \subseteq ExportChanged'.topics
    /\ ExportChanged.keys \subseteq ExportChanged'.keys
    /\ SameBut(ExportChanged'.topics, ExportChanged'.keys)

LEMMA ChangeIsExportRecorded ==
    ASSUME TypeOK, NEW ts \in SUBSET Topics, NEW ks \in SUBSET Keys, NEW js,
           "export" \notin js, Change(ts, ks, js), SameBut(ts, ks), UNCHANGED export
    PROVE  ExportRecorded
<1>1. /\ ExportChanged'.topics = ExportChanged.topics \cup ts
      /\ ExportChanged'.keys = ExportChanged.keys \cup ks
  BY DEF TypeOK, Change, ExportChanged, Changes
<1>2. SameBut(ExportChanged'.topics, ExportChanged'.keys)
  <2>1. ts \subseteq ExportChanged'.topics /\ ks \subseteq ExportChanged'.keys
    BY <1>1
  <2> QED
    BY <2>1 DEF SameBut
<1> QED
  BY <1>1, <1>2 DEF ExportRecorded

LEMMA ChangeIsRecorded ==
    ASSUME TypeOK, NEW ts \in SUBSET Topics, NEW ks \in SUBSET Keys, Change(ts, ks, {}),
           SameBut(ts, ks), UNCHANGED <<export, import>>,
           DOMAIN topics' \subseteq Topics /\ topics' \in [DOMAIN topics' -> Configs],
           DOMAIN entries' \subseteq Keys /\ entries' \in [DOMAIN entries' -> Contents]
    PROVE  TypeOK' /\ Recorded /\ ExportRecorded
<1>1. /\ changed' \in [{"export", "import"} -> Changes]
      /\ ImportChanged'.topics = ImportChanged.topics \cup ts
      /\ ImportChanged'.keys = ImportChanged.keys \cup ks
  <2> DEFINE js == {}
  <2>1. "import" \notin js
    OBVIOUS
  <2>2. Change(ts, ks, js)
    OBVIOUS
  <2> HIDE DEF js
  <2> QED
    BY <2>1, <2>2, ChangeType
<1>2. TypeOK'
  BY <1>1 DEF TypeOK, Changes
<1>3. SameBut(ImportChanged'.topics, ImportChanged'.keys)
  <2>1. ts \subseteq ImportChanged'.topics /\ ks \subseteq ImportChanged'.keys
    BY <1>1
  <2> QED
    BY <2>1 DEF SameBut
<1>4. ExportRecorded
  <2> DEFINE js == {}
  <2>1. "export" \notin js
    OBVIOUS
  <2>2. Change(ts, ks, js)
    OBVIOUS
  <2> HIDE DEF js
  <2> QED
    BY <2>1, <2>2, ChangeIsExportRecorded
<1> QED
  BY <1>1, <1>2, <1>3, <1>4 DEF Recorded

LEMMA OtherStepFacts ==
    ASSUME TypeOK, OtherStep
    PROVE  TypeOK' /\ Recorded /\ ExportRecorded /\ UNCHANGED export
<1>0. /\ DOMAIN topics \subseteq Topics /\ topics \in [DOMAIN topics -> Configs]
      /\ DOMAIN entries \subseteq Keys /\ entries \in [DOMAIN entries -> Contents]
  BY DEF TypeOK
<1>1. ASSUME NEW k \in Keys, NEW perms \in Contents, SetPermission(k, perms)
      PROVE  TypeOK' /\ Recorded /\ ExportRecorded /\ UNCHANGED export
  <2>1. [key |-> k, perms |-> perms] \in ResourceRecord
    BY DEF ResourceRecord
  <2>2. DOMAIN entries' \subseteq Keys /\ entries' \in [DOMAIN entries' -> Contents]
    BY <1>1, <2>1, WithEntry DEF SetPermission
  <2>3. SameBut({}, {k})
    BY <1>1 DEF SetPermission, With, Registered, SameBut
  <2> QED
    BY <1>0, <1>1, <2>2, <2>3, ChangeIsRecorded DEF SetPermission
<1>2. ASSUME NEW k \in Keys, RemoveResource(k)
      PROVE  TypeOK' /\ Recorded /\ ExportRecorded /\ UNCHANGED export
  <2>1. SameBut({}, {k})
    BY <1>2 DEF RemoveResource, Without, Registered, SameBut
  <2>2. DOMAIN entries' \subseteq Keys /\ entries' \in [DOMAIN entries' -> Contents]
    BY <1>2, WithoutEntries DEF RemoveResource
  <2> QED
    BY <1>0, <1>2, <2>1, <2>2, ChangeIsRecorded DEF RemoveResource
<1>3. ASSUME NEW t \in Topics, NEW config \in Configs, SetTopic(t, config)
      PROVE  TypeOK' /\ Recorded /\ ExportRecorded /\ UNCHANGED export
  <2>1. [id |-> t, config |-> config] \in TopicRecord
    BY DEF TopicRecord
  <2>2. DOMAIN topics' \subseteq Topics /\ topics' \in [DOMAIN topics' -> Configs]
    BY <1>3, <2>1, WithTopic DEF SetTopic
  <2>3. SameBut({t}, {})
    BY <1>3 DEF SetTopic, With, Registered, SameBut
  <2> QED
    BY <1>0, <1>3, <2>2, <2>3, ChangeIsRecorded DEF SetTopic
<1>4. ASSUME NEW t \in Topics, RemoveTopic(t)
      PROVE  TypeOK' /\ Recorded /\ ExportRecorded /\ UNCHANGED export
  <2>1. PICK ks \in SUBSET {k \in DOMAIN entries : TopicOf(k) = t} :
          /\ topics' = Without(topics, {t})
          /\ entries' = Without(entries, ks)
          /\ Change({t}, ks, {})
          /\ UNCHANGED <<export, import>>
    BY <1>4 DEF RemoveTopic
  <2>2. ks \in SUBSET Keys
    BY <1>0
  <2>3. SameBut({t}, ks)
    BY <2>1 DEF Without, Registered, SameBut
  <2>4. /\ DOMAIN topics' \subseteq Topics /\ topics' \in [DOMAIN topics' -> Configs]
        /\ DOMAIN entries' \subseteq Keys /\ entries' \in [DOMAIN entries' -> Contents]
    BY <2>1, WithoutTopics, WithoutEntries
  <2> QED
    BY <2>1, <2>2, <2>3, <2>4, ChangeIsRecorded
<1> QED
  BY <1>1, <1>2, <1>3, <1>4 DEF OtherStep

LEMMA TypeStep == TypeOK /\ WorkInv /\ [Next]_vars => TypeOK'
<1> SUFFICES ASSUME TypeOK, WorkInv, [Next]_vars PROVE TypeOK'
  OBVIOUS
<1>1. ASSUME NEW asked \in ExportOptions, Export(asked) PROVE TypeOK'
  BY <1>1, ExportType
<1>2. ASSUME NEW k \in Keys, ExportEntry(k) PROVE TypeOK'
  BY <1>2, ExportEntryType
<1>3. CASE ExportFails
  BY <1>3 DEF TypeOK, ExportFails
<1>4. ASSUME NEW file \in Files, NEW asked \in ImportOptions, Import(file, asked) PROVE TypeOK'
  BY <1>4, FilesAssumption, ImportType
<1>5. ASSUME ExportDone, NEW asked \in ImportOptions, Import(export.file, asked) PROVE TypeOK'
  <2>1. export.file \in File
    BY <1>5 DEF TypeOK, ExportDone, ExportJob
  <2> QED
    BY <1>5, <2>1, ImportType
<1>6. ASSUME NEW rec \in TopicRecord, ImportTopic(rec) PROVE TypeOK'
  BY <1>6, ImportTopicType
<1>7. ASSUME NEW rec \in ResourceRecord, ImportResource(rec) PROVE TypeOK'
  BY <1>7, ImportResourceType
<1>8. CASE ImportSetTopic \/ ImportSetPermission \/ ImportFails
  BY <1>8, ImportWriteType
<1>9. CASE OtherStep
  BY <1>9, OtherStepFacts
<1>10. CASE UNCHANGED vars
  BY <1>10 DEF TypeOK, vars
<1> QED
  BY <1>1, <1>2, <1>3, <1>4, <1>5, <1>6, <1>7, <1>8, <1>9, <1>10 DEF Next, OtherStep

-----------------------------------------------------------------------------
(* Steps beside the import                                                 *)

LEMMA SameImport ==
    ASSUME UNCHANGED import
    PROVE  /\ ImportedTopics' = ImportedTopics
           /\ ImportedPermissions' = ImportedPermissions
           /\ \A pc : At(pc)' <=> At(pc)
BY DEF ImportedTopics, ImportedPermissions, At

LEMMA RecordedKeeps ==
    ASSUME TypeOK, ImportInv, Recorded
    PROVE  ImportInv'
<1> SUFFICES ASSUME import # NoJob PROVE ImportInv'
  BY SameImport DEF Recorded, ImportInv, WorkInv, TopicsInv, ResourcesInv, CacheInv,
       RefusedForTheFile, At
<1>1. ImportedTopics \subseteq TopicRecord /\ ImportedPermissions \subseteq ResourceRecord
  BY ImportedTypes
<1>2. \A rec \in TopicRecord : rec.id \in Topics
  BY DEF TopicRecord
<1>3. \A rec \in ResourceRecord : rec.key \in Keys /\ TopicOf(rec.key) \in Topics
  BY DEF ResourceRecord, Keys, TopicOf
<1>4. UNCHANGED import
  BY DEF Recorded
<1>5. WorkInv'
  BY <1>4, SameImport DEF ImportInv, WorkInv
<1>6. \A t \in Topics : TopicSettled(t) => TopicSettled(t)'
  BY <1>4, SameImport DEF Recorded, SameBut, TopicSettled
<1>7. \A k \in Keys : ResourceSettled(k) => ResourceSettled(k)'
  BY <1>4, SameImport DEF Recorded, SameBut, ResourceSettled
<1>8. TopicsInv'
  BY <1>1, <1>2, <1>4, <1>6, SameImport DEF ImportInv, TopicsInv
<1>9. ResourcesInv'
  BY <1>1, <1>3, <1>4, <1>7, SameImport DEF ImportInv, ResourcesInv
<1>10. CacheInv'
  <2>1. import.topicCache \subseteq Topics
    BY DEF TypeOK, ImportJob
  <2> QED
    BY <1>4, <2>1, SameImport DEF ImportInv, CacheInv, Recorded, SameBut
<1>11. RefusedForTheFile'
  BY <1>1, <1>3, <1>4, SameImport
     DEF ImportInv, RefusedForTheFile, Recorded, SameBut, ImportChanged
<1> QED
  BY <1>5, <1>8, <1>9, <1>10, <1>11 DEF ImportInv

-----------------------------------------------------------------------------
(* Steps of the import                                                     *)

LEMMA ImportStarts ==
    ASSUME NEW file, NEW asked, Import(file, asked)
    PROVE  ImportInv'
<1>1. import' = [options |-> asked, file |-> file, pc |-> "loop",
                 topics |-> SelectedTopics(file, Received(asked)),
                 permissions |-> SelectedPermissions(file, Received(asked)),
                 item |-> NoJob, topicCache |-> {}]
  BY DEF Import
<1>2. ImportedTopics' = import'.topics /\ ImportedPermissions' = import'.permissions
  BY <1>1 DEF ImportedTopics, ImportedPermissions
<1>3. import'.pc = "loop" /\ import'.topicCache = {}
  BY <1>1
<1> QED
  BY <1>2, <1>3 DEF ImportInv, WorkInv, TopicsInv, ResourcesInv, CacheInv, RefusedForTheFile, At

LEMMA ImportTopicKeeps ==
    ASSUME TypeOK, ImportInv, NEW rec \in TopicRecord, ImportTopic(rec)
    PROVE  ImportInv'
<1>1. import \in ImportJob /\ import.pc = "loop" /\ rec \in import.topics
  BY DEF TypeOK, ImportTopic, At
<1>2. import # NoJob /\ rec \in ImportedTopics
  BY <1>1, JobAssumption DEF ImportInv, WorkInv
<1>3. UNCHANGED <<topics, entries, changed>>
  BY DEF ImportTopic, ImportStep
<1>4. CASE rec.config \notin ValidConfigs
  <2>1. import' = [import EXCEPT !.pc = "refused"]
    BY <1>4 DEF ImportTopic
  <2>2. /\ import' \in ImportJob /\ import'.pc = "refused"
        /\ import'.topics = import.topics /\ import'.permissions = import.permissions
        /\ import'.item = import.item /\ import'.topicCache = import.topicCache
        /\ import'.file = import.file /\ import'.options = import.options
    BY <1>1, <2>1 DEF ImportJob
  <2>3. ImportedTopics' = ImportedTopics /\ ImportedPermissions' = ImportedPermissions
    BY <2>2 DEF ImportedTopics, ImportedPermissions
  <2>4. RefusedForTheFile'
    BY <1>2, <1>4, <2>3 DEF RefusedForTheFile
  <2> QED
    BY <1>1, <1>2, <1>3, <2>2, <2>3, <2>4
       DEF ImportInv, WorkInv, TopicsInv, ResourcesInv, CacheInv, At,
           TopicSettled, ResourceSettled, ImportChanged, Registered
<1>5. CASE rec.config \in ValidConfigs /\ rec.id \in Registered /\ topics[rec.id] = rec.config
  <2>1. import' = [import EXCEPT !.topics = @ \ {rec}]
    BY <1>5 DEF ImportTopic
  <2>2. /\ import' \in ImportJob /\ import'.pc = "loop"
        /\ import'.topics = import.topics \ {rec} /\ import'.permissions = import.permissions
        /\ import'.item = import.item /\ import'.topicCache = import.topicCache
        /\ import'.file = import.file /\ import'.options = import.options
    BY <1>1, <2>1 DEF ImportJob
  <2>3. ImportedTopics' = ImportedTopics /\ ImportedPermissions' = ImportedPermissions
    BY <2>2 DEF ImportedTopics, ImportedPermissions
  <2>4. rec = [id |-> rec.id, config |-> rec.config]
    BY DEF TopicRecord
  <2>5. TopicSettled(rec.id)'
    BY <1>2, <1>3, <1>5, <2>3, <2>4 DEF TopicSettled, Registered
  <2> QED
    BY <1>1, <1>2, <1>3, <2>2, <2>3, <2>5
       DEF ImportInv, WorkInv, TopicsInv, ResourcesInv, CacheInv, At, RefusedForTheFile,
           TopicSettled, ResourceSettled, ImportChanged, Registered
<1>6. CASE rec.config \in ValidConfigs /\ ~(rec.id \in Registered /\ topics[rec.id] = rec.config)
  <2>1. import' = [import EXCEPT !.topics = @ \ {rec}, !.pc = "set topic", !.item = rec]
    BY <1>6 DEF ImportTopic
  <2>2. /\ import' \in ImportJob /\ import'.pc = "set topic"
        /\ import'.topics = import.topics \ {rec} /\ import'.permissions = import.permissions
        /\ import'.item = rec /\ import'.topicCache = import.topicCache
        /\ import'.file = import.file /\ import'.options = import.options
    BY <1>1, <2>1 DEF ImportJob
  <2>3. ImportedTopics' = ImportedTopics /\ ImportedPermissions' = ImportedPermissions
    BY <2>2 DEF ImportedTopics, ImportedPermissions
  <2> QED
    BY <1>1, <1>2, <1>3, <2>2, <2>3
       DEF ImportInv, WorkInv, TopicsInv, ResourcesInv, CacheInv, At, RefusedForTheFile,
           TopicSettled, ResourceSettled, ImportChanged, Registered
<1> QED
  BY <1>4, <1>5, <1>6

LEMMA ImportResourceKeeps ==
    ASSUME TypeOK, ImportInv, NEW rec \in ResourceRecord, ImportResource(rec)
    PROVE  ImportInv'
<1>1. import \in ImportJob /\ import.pc = "loop" /\ import.topics = {}
      /\ rec \in import.permissions
  BY DEF TypeOK, ImportResource, At
<1>2. import # NoJob /\ rec \in ImportedPermissions
  BY <1>1, JobAssumption DEF ImportInv, WorkInv
<1>3. UNCHANGED <<topics, entries, changed>>
  BY DEF ImportResource, ImportStep
<1> DEFINE t == TopicOf(rec.key)
           Refuses == rec.perms \notin ValidContents \/ t \notin import.topicCache \cup Registered
<1>4. CASE Refuses
  <2>1. import' = [import EXCEPT !.pc = "refused"]
    BY <1>4 DEF ImportResource
  <2>2. /\ import' \in ImportJob /\ import'.pc = "refused"
        /\ import'.topics = import.topics /\ import'.permissions = import.permissions
        /\ import'.item = import.item /\ import'.topicCache = import.topicCache
        /\ import'.file = import.file /\ import'.options = import.options
    BY <1>1, <2>1 DEF ImportJob
  <2>3. ImportedTopics' = ImportedTopics /\ ImportedPermissions' = ImportedPermissions
    BY <2>2 DEF ImportedTopics, ImportedPermissions
  <2>4. ASSUME t \notin Registered, t \notin ImportChanged.topics
        PROVE  \A topic \in ImportedTopics : topic.id # t
    \* A topic of the file is settled by now: no topic is left in the loop.
    <3>1. \A topic \in ImportedTopics : TopicSettled(topic.id)
      BY <1>1, <1>2 DEF ImportInv, TopicsInv, At
    <3> QED
      BY <2>4, <3>1 DEF TopicSettled
  <2>5. RefusedForTheFile'
    BY <1>2, <1>3, <1>4, <2>3, <2>4 DEF RefusedForTheFile, ImportChanged, Registered
  <2> QED
    BY <1>1, <1>2, <1>3, <2>2, <2>3, <2>5
       DEF ImportInv, WorkInv, TopicsInv, ResourcesInv, CacheInv, At,
           TopicSettled, ResourceSettled, ImportChanged, Registered
<1>5. CASE ~Refuses
  <2>1. import' = [import EXCEPT !.permissions = @ \ {rec}, !.pc = "set permission",
                     !.item = rec, !.topicCache = @ \cup {t}]
    BY <1>5 DEF ImportResource
  <2>2. /\ import'.pc = "set permission"
        /\ import'.topics = {} /\ import'.permissions = import.permissions \ {rec}
        /\ import'.item = rec /\ import'.topicCache = import.topicCache \cup {t}
        /\ import'.file = import.file /\ import'.options = import.options
    BY <1>1, <2>1 DEF ImportJob
  <2>3. ImportedTopics' = ImportedTopics /\ ImportedPermissions' = ImportedPermissions
    BY <2>2 DEF ImportedTopics, ImportedPermissions
  <2>4. CacheInv'
    BY <1>2, <1>3, <1>5, <2>2 DEF ImportInv, CacheInv, ImportChanged, Registered
  <2> QED
    BY <1>1, <1>2, <1>3, <2>2, <2>3, <2>4
       DEF ImportInv, WorkInv, TopicsInv, ResourcesInv, At, RefusedForTheFile,
           TopicSettled, ResourceSettled, ImportChanged, Registered
<1> QED
  BY <1>4, <1>5

LEMMA ImportSetTopicKeeps ==
    ASSUME TypeOK, ImportInv, ImportSetTopic
    PROVE  ImportInv'
<1>1. import \in ImportJob /\ import # NoJob /\ import.pc = "set topic"
  BY DEF TypeOK, ImportSetTopic, At
<1>2. PICK rec \in ImportedTopics : rec = import.item /\ rec \in TopicRecord
  BY <1>1, ImportedTypes DEF ImportInv, WorkInv, At
<1>3. /\ import'.pc = "loop"
      /\ import'.topics = import.topics /\ import'.permissions = import.permissions
      /\ import'.topicCache = import.topicCache
      /\ import'.file = import.file /\ import'.options = import.options
  BY <1>1 DEF ImportSetTopic, ImportJob
<1>4. ImportedTopics' = ImportedTopics /\ ImportedPermissions' = ImportedPermissions
  BY <1>3 DEF ImportedTopics, ImportedPermissions
<1>5. ImportChanged'.topics = ImportChanged.topics /\ ImportChanged'.keys = ImportChanged.keys
  <2>1. rec.id \in Topics
    BY <1>2 DEF TopicRecord
  <2> QED
    BY <1>2, <2>1, ChangeType DEF ImportSetTopic
<1>6. topics' = With(topics, rec.id, rec.config) /\ entries' = entries
  BY <1>2 DEF ImportSetTopic
<1>7. Registered' = Registered \cup {rec.id}
  BY <1>6 DEF With, Registered
<1>8. \A t : TopicSettled(t) => TopicSettled(t)'
  <2>1. rec = [id |-> rec.id, config |-> rec.config]
    BY <1>2 DEF TopicRecord
  <2> QED
    BY <1>2, <1>4, <1>5, <1>6, <1>7, <2>1 DEF TopicSettled, With, Registered
<1>9. TopicSettled(rec.id)'
  <2>1. rec = [id |-> rec.id, config |-> rec.config]
    BY <1>2 DEF TopicRecord
  <2>2. topics'[rec.id] = rec.config
    BY <1>6 DEF With
  <2> QED
    BY <1>2, <1>4, <1>7, <2>1, <2>2 DEF TopicSettled
<1>10. TopicsInv'
  BY <1>1, <1>2, <1>3, <1>4, <1>8, <1>9 DEF ImportInv, TopicsInv, At
<1>11. ResourcesInv'
  BY <1>1, <1>3, <1>4, <1>5, <1>6 DEF ImportInv, ResourcesInv, At, ResourceSettled
<1>12. WorkInv' /\ RefusedForTheFile'
  BY <1>1, <1>3, <1>4 DEF ImportInv, WorkInv, RefusedForTheFile, At
<1>13. CacheInv'
  BY <1>1, <1>3, <1>5, <1>7 DEF ImportInv, CacheInv, At
<1> QED
  BY <1>10, <1>11, <1>12, <1>13 DEF ImportInv

LEMMA ImportSetPermissionKeeps ==
    ASSUME TypeOK, ImportInv, ImportSetPermission
    PROVE  ImportInv'
<1>1. import \in ImportJob /\ import # NoJob /\ import.pc = "set permission"
  BY DEF TypeOK, ImportSetPermission, At
<1>2. PICK rec \in ImportedPermissions : rec = import.item /\ rec \in ResourceRecord
  BY <1>1, ImportedTypes DEF ImportInv, WorkInv, At
<1>3. /\ import'.pc = "loop"
      /\ import'.topics = import.topics /\ import'.permissions = import.permissions
      /\ import'.topicCache = import.topicCache
      /\ import'.file = import.file /\ import'.options = import.options
  BY <1>1 DEF ImportSetPermission, ImportJob
<1>4. ImportedTopics' = ImportedTopics /\ ImportedPermissions' = ImportedPermissions
  BY <1>3 DEF ImportedTopics, ImportedPermissions
<1>5. ImportChanged'.topics = ImportChanged.topics /\ ImportChanged'.keys = ImportChanged.keys
  <2>1. rec.key \in Keys
    BY <1>2 DEF ResourceRecord
  <2> QED
    BY <1>2, <2>1, ChangeType DEF ImportSetPermission
<1>6. entries' = With(entries, rec.key, rec.perms) /\ topics' = topics
  BY <1>2 DEF ImportSetPermission
<1>7. rec = [key |-> rec.key, perms |-> rec.perms]
  BY <1>2 DEF ResourceRecord
<1>8. \A k : ResourceSettled(k) => ResourceSettled(k)'
  BY <1>2, <1>4, <1>5, <1>6, <1>7 DEF ResourceSettled, With
<1>9. ResourceSettled(rec.key)'
  <2>1. entries'[rec.key] = rec.perms /\ rec.key \in DOMAIN entries'
    BY <1>6 DEF With
  <2> QED
    BY <1>2, <1>4, <1>7, <2>1 DEF ResourceSettled
<1>10. ResourcesInv'
  BY <1>1, <1>2, <1>3, <1>4, <1>8, <1>9 DEF ImportInv, ResourcesInv, At
<1>11. TopicsInv'
  BY <1>1, <1>3, <1>4, <1>5, <1>6 DEF ImportInv, TopicsInv, At, TopicSettled, Registered
<1>12. WorkInv' /\ RefusedForTheFile'
  BY <1>1, <1>3, <1>4 DEF ImportInv, WorkInv, RefusedForTheFile, At
<1>13. CacheInv'
  BY <1>1, <1>3, <1>5, <1>6 DEF ImportInv, CacheInv, At, Registered
<1> QED
  BY <1>10, <1>11, <1>12, <1>13 DEF ImportInv

LEMMA NoImport == ASSUME import' = NoJob PROVE ImportInv'
BY DEF ImportInv, WorkInv, TopicsInv, ResourcesInv, CacheInv, RefusedForTheFile, At

(***************************************************************************)
(* The steps of an export, and a step that changes nothing, are recorded   *)
(* for the import as well.                                                 *)
(***************************************************************************)
LEMMA QuietStepIsRecorded ==
    ASSUME TypeOK,
           \/ \E asked \in ExportOptions : Export(asked)
           \/ \E k \in Keys : ExportEntry(k)
           \/ ExportFails
           \/ UNCHANGED vars
    PROVE  Recorded
<1>1. UNCHANGED <<topics, entries, import>>
  BY DEF Export, ExportEntry, ExportFails, vars
<1>2. ImportChanged' = ImportChanged
  BY StartsType DEF Export, ExportEntry, ExportFails, vars, ImportChanged
<1> QED
  BY <1>1, <1>2 DEF Recorded, SameBut, Registered

LEMMA ImportStepKeeps == TypeOK /\ ImportInv /\ [Next]_vars => ImportInv'
<1> SUFFICES ASSUME TypeOK, ImportInv, [Next]_vars PROVE ImportInv'
  OBVIOUS
<1>1. CASE \/ \E asked \in ExportOptions : Export(asked)
           \/ \E k \in Keys : ExportEntry(k)
           \/ ExportFails
           \/ UNCHANGED vars
  BY <1>1, QuietStepIsRecorded, RecordedKeeps
<1>2. CASE OtherStep
  BY <1>2, OtherStepFacts, RecordedKeeps
<1>3. ASSUME NEW file \in Files, NEW asked \in ImportOptions, Import(file, asked) PROVE ImportInv'
  BY <1>3, ImportStarts
<1>4. ASSUME NEW asked \in ImportOptions, Import(export.file, asked) PROVE ImportInv'
  BY <1>4, ImportStarts
<1>5. ASSUME NEW rec \in TopicRecord, ImportTopic(rec) PROVE ImportInv'
  BY <1>5, ImportTopicKeeps
<1>6. ASSUME NEW rec \in ResourceRecord, ImportResource(rec) PROVE ImportInv'
  BY <1>6, ImportResourceKeeps
<1>7. CASE ImportSetTopic
  BY <1>7, ImportSetTopicKeeps
<1>8. CASE ImportSetPermission
  BY <1>8, ImportSetPermissionKeeps
<1>9. CASE ImportFails
  BY <1>9, NoImport DEF ImportFails
<1> QED
  BY <1>1, <1>2, <1>3, <1>4, <1>5, <1>6, <1>7, <1>8, <1>9 DEF Next, OtherStep

-----------------------------------------------------------------------------
(* Steps of the export                                                     *)

LEMMA ExportStarts ==
    ASSUME TypeOK, NEW asked \in ExportOptions, Export(asked)
    PROVE  ExportInv'
<1> DEFINE options == Received(asked)
           ts == {[id |-> t, config |-> topics[t]] :
                    t \in {u \in Registered : SelectsTopic(options, u)}}
           ks == {k \in Keys : /\ Selects(options, k)
                               /\ options.filterTopics = NoFilter => TopicOf(k) \in Registered}
<1>1. export' = [options |-> asked, file |-> [topics |-> ts, permissions |-> {}], todo |-> ks]
  BY DEF Export, EmptyFile
<1>2. SUFFICES ASSUME asked.includeTopicConfig, asked.filterTopics = NoFilter
               PROVE  \A k \in ks : \E topic \in ts : topic.id = TopicOf(k)
  <2> HIDE DEF ts, ks
  <2>1. /\ export'.options = asked /\ export'.todo = ks
        /\ export'.file.topics = ts /\ export'.file.permissions = {}
    BY <1>1
  <2> QED
    BY <2>1 DEF ExportInv
<1>3. /\ options.filterTopics = NoFilter
      /\ options.includeTopicConfig
  BY <1>2, OptionsAssumption DEF Received, Wire, Options
<1>4. \A k \in ks : TopicOf(k) \in Registered
  BY <1>3
<1>5. \A t \in Registered : [id |-> t, config |-> topics[t]] \in ts
  BY <1>3 DEF SelectsTopic, Passes
<1> QED
  <2> TAKE k \in ks
  <2>1. [id |-> TopicOf(k), config |-> topics[TopicOf(k)]] \in ts
    BY <1>4, <1>5
  <2> HIDE DEF ts
  <2> QED
    BY <2>1

LEMMA ExportEntryKeeps ==
    ASSUME TypeOK, ExportInv, NEW k \in Keys, ExportEntry(k)
    PROVE  ExportInv'
<1>1. export \in ExportJob /\ k \in export.todo
  BY DEF TypeOK, ExportEntry
<1> DEFINE ps == IF k \in DOMAIN entries
                   THEN export.file.permissions \cup {[key |-> k, perms |-> entries[k]]}
                   ELSE export.file.permissions
<1>2. /\ export'.todo = export.todo \ {k} /\ export'.options = export.options
      /\ export'.file.topics = export.file.topics /\ export'.file.permissions = ps
  BY <1>1 DEF ExportEntry, ExportJob, File
<1> SUFFICES ASSUME export.options.includeTopicConfig, export.options.filterTopics = NoFilter
             PROVE  /\ \A j \in export'.todo :
                         \E topic \in export'.file.topics : topic.id = TopicOf(j)
                    /\ \A rec \in export'.file.permissions :
                         \E topic \in export'.file.topics : topic.id = TopicOf(rec.key)
  BY <1>2 DEF ExportInv
<1>3. \A j \in export.todo : \E topic \in export.file.topics : topic.id = TopicOf(j)
  BY DEF ExportInv, ExportEntry
<1>4. \A rec \in export.file.permissions :
        \E topic \in export.file.topics : topic.id = TopicOf(rec.key)
  BY DEF ExportInv, ExportEntry
<1>5. \A rec \in ps : rec \in export.file.permissions \/ rec.key = k
  OBVIOUS
<1> QED
  BY <1>1, <1>2, <1>3, <1>4, <1>5

LEMMA SameExport == ASSUME ExportInv, UNCHANGED export PROVE ExportInv'
BY DEF ExportInv

LEMMA ExportStepKeeps == TypeOK /\ ImportInv /\ ExportInv /\ [Next]_vars => ExportInv'
<1> SUFFICES ASSUME TypeOK, ImportInv, ExportInv, [Next]_vars PROVE ExportInv'
  OBVIOUS
<1>1. ASSUME NEW asked \in ExportOptions, Export(asked) PROVE ExportInv'
  BY <1>1, ExportStarts
<1>2. ASSUME NEW k \in Keys, ExportEntry(k) PROVE ExportInv'
  BY <1>2, ExportEntryKeeps
<1>3. CASE ExportFails
  BY <1>3 DEF ExportFails, ExportInv
<1>4. ASSUME NEW file, NEW asked, Import(file, asked) PROVE ExportInv'
  BY <1>4, SameExport DEF Import
<1>5. ASSUME NEW rec, ImportTopic(rec) \/ ImportResource(rec) PROVE ExportInv'
  BY <1>5, SameExport DEF ImportTopic, ImportResource, ImportStep
<1>6. CASE ImportSetTopic \/ ImportSetPermission \/ ImportFails
  BY <1>6, SameExport DEF ImportSetTopic, ImportSetPermission, ImportFails
<1>7. CASE OtherStep
  BY <1>7, SameExport, OtherStepFacts
<1>8. CASE UNCHANGED vars
  BY <1>8, SameExport DEF vars
<1> QED
  BY <1>1, <1>2, <1>3, <1>4, <1>5, <1>6, <1>7, <1>8 DEF Next, OtherStep

-----------------------------------------------------------------------------
(* The file of an export                                                   *)

LEMMA ExactStarts ==
    ASSUME TypeOK, NEW asked \in ExportOptions, Export(asked)
    PROVE  ExactInv'
<1> DEFINE options == Received(asked)
           ts == {[id |-> t, config |-> topics[t]] :
                    t \in {u \in Registered : SelectsTopic(options, u)}}
           ks == {k \in Keys : /\ Selects(options, k)
                               /\ options.filterTopics = NoFilter => TopicOf(k) \in Registered}
<1>1. /\ export' = [options |-> asked, file |-> [topics |-> ts, permissions |-> {}], todo |-> ks]
      /\ topics' = topics /\ entries' = entries
  BY DEF Export, EmptyFile
<1>2. Registered' = Registered
  BY <1>1 DEF Registered
<1>3. ASSUME NEW t \in Topics, NEW config \in Configs
      PROVE  [id |-> t, config |-> config] \in ts <=>
                 t \in Registered /\ SelectsTopic(options, t) /\ topics[t] = config
  OBVIOUS
<1>4. \A k \in Keys :
        k \in ks <=> /\ Selects(options, k)
                     /\ options.filterTopics = NoFilter => TopicOf(k) \in Registered
  OBVIOUS
<1> HIDE DEF ts, ks
<1>5. /\ Asked' = options /\ export'.todo = ks
      /\ export'.file.topics = ts /\ export'.file.permissions = {}
  BY <1>1 DEF Asked
<1>6. \A t \in Topics : TopicIsExact(t)'
  BY <1>1, <1>2, <1>3, <1>5 DEF TopicIsExact
<1>7. \A k \in Keys : k \in ks <=> Wanted(k)'
  BY <1>2, <1>4, <1>5 DEF Wanted
<1>8. \A k \in Keys : EntryIsExact(k)'
  BY <1>5, <1>7 DEF EntryIsExact
<1> QED
  BY <1>6, <1>8 DEF ExactInv

LEMMA ExactEntry ==
    ASSUME TypeOK, ExactInv, NEW k \in Keys, ExportEntry(k)
    PROVE  ExactInv'
<1>1. export \in ExportJob /\ export # NoJob /\ k \in export.todo
  BY DEF TypeOK, ExportEntry
<1> DEFINE ps == IF k \in DOMAIN entries
                   THEN export.file.permissions \cup {[key |-> k, perms |-> entries[k]]}
                   ELSE export.file.permissions
<1>2. /\ export'.todo = export.todo \ {k} /\ export'.options = export.options
      /\ export'.file.topics = export.file.topics /\ export'.file.permissions = ps
      /\ UNCHANGED <<topics, entries, changed>>
  BY <1>1 DEF ExportEntry, ExportJob, File
<1>3. /\ Asked' = Asked /\ Registered' = Registered /\ ExportChanged' = ExportChanged
      /\ \A j : Wanted(j)' <=> Wanted(j)
  BY <1>2 DEF Asked, Registered, Wanted, ExportChanged
<1>4. \A t : TopicIsExact(t) => TopicIsExact(t)'
  BY <1>2, <1>3 DEF TopicIsExact
<1>5. ASSUME NEW j \in Keys, EntryIsExact(j)
      PROVE  EntryIsExact(j)'
  <2>1. \A perms : [key |-> j, perms |-> perms] \in ps <=>
          \/ [key |-> j, perms |-> perms] \in export.file.permissions
          \/ j = k /\ k \in DOMAIN entries /\ perms = entries[k]
    OBVIOUS
  <2> HIDE DEF ps
  <2>2. CASE j = k
    BY <1>1, <1>2, <1>3, <1>5, <2>1, <2>2 DEF EntryIsExact
  <2>3. CASE j # k
    BY <1>2, <1>3, <1>5, <2>1, <2>3 DEF EntryIsExact
  <2> QED
    BY <2>2, <2>3
<1> QED
  BY <1>1, <1>3, <1>4, <1>5 DEF ExactInv

LEMMA ExactKept ==
    ASSUME ExactInv, ExportRecorded
    PROVE  ExactInv'
<1> SUFFICES ASSUME export # NoJob PROVE ExactInv'
  BY DEF ExportRecorded, ExactInv
<1>1. export' = export /\ Asked' = Asked
  BY DEF ExportRecorded, Asked
<1>2. ASSUME NEW t \in Topics \ ExportChanged'.topics
      PROVE  /\ t \in Registered <=> t \in Registered'
             /\ t \in Registered => topics'[t] = topics[t]
             /\ TopicIsExact(t)
  BY DEF ExportRecorded, SameBut, ExactInv
<1>3. \A t \in Topics \ ExportChanged'.topics : TopicIsExact(t)'
  BY <1>1, <1>2 DEF TopicIsExact
<1>4. ASSUME NEW k \in Keys \ ExportChanged'.keys, TopicOf(k) \notin ExportChanged'.topics
      PROVE  EntryIsExact(k)'
  <2>1. TopicOf(k) \in Topics
    BY DEF Keys, TopicOf
  <2>2. Wanted(k)' <=> Wanted(k)
    BY <1>1, <1>2, <1>4, <2>1 DEF Wanted
  <2>3. /\ k \in DOMAIN entries <=> k \in DOMAIN entries'
        /\ k \in DOMAIN entries => entries'[k] = entries[k]
    BY DEF ExportRecorded, SameBut
  <2>4. EntryIsExact(k)
    BY <1>4 DEF ExportRecorded, ExactInv
  <2> QED
    BY <1>1, <2>2, <2>3, <2>4 DEF EntryIsExact
<1> QED
  BY <1>3, <1>4 DEF ExactInv

\* A step of an import that writes nothing.
LEMMA QuietImport ==
    ASSUME UNCHANGED <<topics, entries, export>>, ExportChanged' = ExportChanged
    PROVE  ExportRecorded
BY DEF ExportRecorded, SameBut, Registered

LEMMA ImportIsExportRecorded ==
    ASSUME TypeOK, WorkInv, ImportSetTopic \/ ImportSetPermission \/ ImportFails
    PROVE  ExportRecorded
<1>1. ASSUME At("set topic"), topics' = With(topics, import.item.id, import.item.config),
             Change({import.item.id}, {}, {"import"}), UNCHANGED <<entries, export>>
      PROVE  ExportRecorded
  <2>1. import.item.id \in Topics
    BY <1>1, ImportedItem DEF TopicRecord
  <2>2. SameBut({import.item.id}, {})
    BY <1>1 DEF SameBut, With, Registered
  <2>3. "export" \notin {"import"}
    OBVIOUS
  <2> QED
    BY <1>1, <2>1, <2>2, <2>3, ChangeIsExportRecorded
<1>2. ASSUME At("set permission"), entries' = With(entries, import.item.key, import.item.perms),
             Change({}, {import.item.key}, {"import"}), UNCHANGED <<topics, export>>
      PROVE  ExportRecorded
  <2>1. import.item.key \in Keys
    BY <1>2, ImportedItem DEF ResourceRecord
  <2>2. SameBut({}, {import.item.key})
    BY <1>2 DEF SameBut, With, Registered
  <2>3. "export" \notin {"import"}
    OBVIOUS
  <2> QED
    BY <1>2, <2>1, <2>2, <2>3, ChangeIsExportRecorded
<1>3. CASE ImportSetTopic
  BY <1>1, <1>3 DEF ImportSetTopic
<1>4. CASE ImportSetPermission
  BY <1>2, <1>4 DEF ImportSetPermission
<1>5. CASE ImportFails
  <2>1. CASE UNCHANGED <<topics, entries, changed>>
    BY <1>5, <2>1, QuietImport DEF ImportFails, ExportChanged
  <2> QED
    BY <1>1, <1>2, <1>5, <2>1 DEF ImportFails
<1> QED
  BY <1>3, <1>4, <1>5

LEMMA ExactStepKeeps == TypeOK /\ WorkInv /\ ExactInv /\ [Next]_vars => ExactInv'
<1> SUFFICES ASSUME TypeOK, WorkInv, ExactInv, [Next]_vars PROVE ExactInv'
  OBVIOUS
<1>1. ASSUME NEW asked \in ExportOptions, Export(asked) PROVE ExactInv'
  BY <1>1, ExactStarts
<1>2. ASSUME NEW k \in Keys, ExportEntry(k) PROVE ExactInv'
  BY <1>2, ExactEntry
<1>3. CASE ExportFails
  BY <1>3 DEF ExportFails, ExactInv
<1>4. ASSUME NEW file, NEW asked, Import(file, asked) PROVE ExactInv'
  <2>1. ExportChanged' = ExportChanged
    BY <1>4 DEF Import, Starts, ExportChanged, TypeOK
  <2> QED
    BY <1>4, <2>1, QuietImport, ExactKept DEF Import
<1>5. ASSUME NEW rec, ImportTopic(rec) \/ ImportResource(rec) PROVE ExactInv'
  BY <1>5, QuietImport, ExactKept DEF ImportTopic, ImportResource, ImportStep, ExportChanged
<1>6. CASE ImportSetTopic \/ ImportSetPermission \/ ImportFails
  BY <1>6, ImportIsExportRecorded, ExactKept
<1>7. CASE OtherStep
  BY <1>7, OtherStepFacts, ExactKept
<1>8. CASE UNCHANGED vars
  BY <1>8, QuietImport, ExactKept DEF vars, ExportChanged
<1> QED
  BY <1>1, <1>2, <1>3, <1>4, <1>5, <1>6, <1>7, <1>8 DEF Next, OtherStep

-----------------------------------------------------------------------------
(* What an import may change                                               *)

\* What passes a filter as it arrives is given by the filter as it was sent.
LEMMA PassedIsGiven ==
    ASSUME NEW S, NEW parts \in [S -> SUBSET S], \A ids \in SUBSET S : ids # NoFilter,
           NEW filter \in {NoFilter} \cup SUBSET S, NEW x, Passes(x, Wire(filter, parts))
    PROVE  Given(x, filter, parts)
<1> SUFFICES ASSUME filter # NoFilter, ~(filter \subseteq {NoId})
             PROVE  \E y \in filter : x \in parts[y]
  BY DEF Given
<1>1. Wire(filter, parts) = UNION {parts[y] : y \in filter}
  BY DEF Wire
<1>2. UNION {parts[y] : y \in filter} \in SUBSET S
  OBVIOUS
<1>3. x \in UNION {parts[y] : y \in filter}
  BY <1>1, <1>2 DEF Passes
<1> QED BY <1>3

\* An element that is not skipped passes the filters as they were given.
LEMMA SelectedIsGiven ==
    ASSUME TypeOK, import # NoJob
    PROVE  LET options == import.options
           IN /\ \A rec \in ImportedTopics :
                   options.includeTopicConfig /\ Given(rec.id, options.filterTopics, TopicParts)
              /\ \A rec \in ImportedPermissions :
                   /\ options.includePermissions
                   /\ Given(TopicOf(rec.key), options.filterTopics, TopicParts)
                   /\ Given(rec.key[2], options.filterResourceId, ResourceParts)
<1>1. import.options \in Options
  BY DEF TypeOK, ImportJob
<1>2. LET options == Received(import.options) IN
      /\ options.includeTopicConfig = import.options.includeTopicConfig
      /\ options.includePermissions = import.options.includePermissions
      /\ options.filterTopics = Wire(import.options.filterTopics, TopicParts)
      /\ options.filterResourceId = Wire(import.options.filterResourceId, ResourceParts)
  BY <1>1 DEF Received, Options
<1>3. ASSUME NEW x
      PROVE  /\ Passes(x, Wire(import.options.filterTopics, TopicParts))
                => Given(x, import.options.filterTopics, TopicParts)
             /\ Passes(x, Wire(import.options.filterResourceId, ResourceParts))
                => Given(x, import.options.filterResourceId, ResourceParts)
  <2>1. /\ import.options.filterTopics \in {NoFilter} \cup SUBSET (Topics \cup {NoId})
        /\ import.options.filterResourceId
             \in {NoFilter} \cup SUBSET (Resources \cup {NoId})
    BY <1>1 DEF Options
  <2> QED BY <2>1, PassedIsGiven, PartsAssumption, NoFilterAssumption
<1>4. \A rec \in ImportedTopics : SelectsTopic(Received(import.options), rec.id)
  BY DEF ImportedTopics, SelectedTopics
<1>5. \A rec \in ImportedPermissions : Selects(Received(import.options), rec.key)
  BY DEF ImportedPermissions, SelectedPermissions
<1> QED
  BY <1>2, <1>3, <1>4, <1>5 DEF SelectsTopic, Selects

\* A step that changes the import writes the element it is about to write, if
\* anything.
LEMMA WritesItem ==
    ASSUME [Next]_vars, import # NoJob, import' # import
    PROVE  /\ \A t \in Topics : Kept(topics, t) \/ (At("set topic") /\ t = import.item.id)
           /\ \A k \in Keys : Kept(entries, k) \/ (At("set permission") /\ k = import.item.key)
<1>1. CASE UNCHANGED <<topics, entries>>
  BY <1>1 DEF Kept
<1>2. CASE /\ At("set topic") /\ UNCHANGED entries
           /\ topics' = With(topics, import.item.id, import.item.config)
  BY <1>2 DEF Kept, With
<1>3. CASE /\ At("set permission") /\ UNCHANGED topics
           /\ entries' = With(entries, import.item.key, import.item.perms)
  BY <1>3 DEF Kept, With
<1>4. \/ UNCHANGED <<topics, entries>>
      \/ /\ At("set topic") /\ UNCHANGED entries
         /\ topics' = With(topics, import.item.id, import.item.config)
      \/ /\ At("set permission") /\ UNCHANGED topics
         /\ entries' = With(entries, import.item.key, import.item.perms)
  BY DEF Next, vars, Export, ExportEntry, ExportFails, Import, ImportTopic, ImportResource,
         ImportSetTopic, ImportSetPermission, ImportFails, SetPermission, RemoveResource,
         SetTopic, RemoveTopic
<1> QED
  BY <1>1, <1>2, <1>3, <1>4

-----------------------------------------------------------------------------
LEMMA Invariant == Spec => []IInv
<1>1. IInv /\ [Next]_vars => IInv'
  BY TypeStep, ImportStepKeeps, ExportStepKeeps, ExactStepKeeps DEF IInv, ImportInv
<1> QED
  BY InitInv, <1>1, PTL DEF Spec

(***************************************************************************)
(* The collections, the file of an export and the state of an import stay  *)
(* well-typed: in particular the cursor writes topics and entries of the   *)
(* given file only.                                                        *)
(***************************************************************************)
THEOREM TypeCorrect == Spec => []TypeOK
<1>1. IInv => TypeOK
  BY DEF IInv
<1> QED
  BY Invariant, <1>1, PTL

(***************************************************************************)
(* An import that answered 200 has stored every element its options select *)
(* unless another request changed it: WorkInv accounts for what is left in *)
(* the loop, TopicsInv and ResourcesInv for what it has left behind.       *)
(***************************************************************************)
THEOREM ImportComplete == Spec => []ImportIsComplete
<1>1. IInv => ImportIsComplete
  <2> SUFFICES ASSUME IInv, ImportDone PROVE ImportIsComplete
    BY DEF ImportIsComplete
  <2>1. import # NoJob /\ import.topics = {} /\ import.permissions = {}
    BY DEF ImportDone, At
  <2>2. ~At("set topic") /\ ~At("set permission")
    BY DEF ImportDone, At
  <2>3. \A rec \in ImportedTopics : TopicSettled(rec.id)
    BY <2>1, <2>2 DEF IInv, ImportInv, TopicsInv
  <2>4. \A rec \in ImportedPermissions : ResourceSettled(rec.key)
    BY <2>1, <2>2 DEF IInv, ImportInv, ResourcesInv
  <2> QED
    BY <2>3, <2>4 DEF ImportIsComplete, TopicSettled, ResourceSettled, ImportChanged
<1> QED
  BY Invariant, <1>1, PTL

(***************************************************************************)
(* Permissions are written only for a topic that is registered, or that    *)
(* another request has removed after the import looked: by CacheInv the    *)
(* topic cache tells no more than that.                                    *)
(***************************************************************************)
THEOREM ImportHasTopic == Spec => []ImportedHasTopic
<1>1. IInv => ImportedHasTopic
  BY DEF IInv, ImportInv, CacheInv, ImportedHasTopic, ImportChanged, At
<1> QED
  BY Invariant, <1>1, PTL

(***************************************************************************)
(* An import answers 400 for a reason in its file.  Topics come before     *)
(* resources, so a topic of the file is settled when it is looked for.     *)
(***************************************************************************)
THEOREM RefusalIsForTheFile == Spec => []RefusedForTheFile
<1>1. IInv => RefusedForTheFile
  BY DEF IInv, ImportInv
<1> QED
  BY Invariant, <1>1, PTL

(***************************************************************************)
(* An export with the topics and without a topic filter is self-contained: *)
(* the list of topics is read once, for both parts of the file.            *)
(***************************************************************************)
THEOREM ExportSelfContained == Spec => []ExportIsSelfContained
<1>1. IInv => ExportIsSelfContained
  BY DEF IInv, ExportInv, ExportIsSelfContained, ExportDone
<1> QED
  BY Invariant, <1>1, PTL

(***************************************************************************)
(* A finished export has exactly the selected topics and entries nobody    *)
(* has changed since it began, each as it is stored.                       *)
(***************************************************************************)
THEOREM ExportExact == Spec => []ExportIsExact
<1>1. IInv => ExportIsExact
  <2> SUFFICES ASSUME IInv, ExportDone PROVE ExportIsExact
    BY DEF ExportIsExact
  <2>1. export \in ExportJob /\ export # NoJob /\ export.todo = {}
    BY DEF IInv, TypeOK, ExportDone
  <2>2. export.file.topics \subseteq TopicRecord /\ export.file.permissions \subseteq ResourceRecord
    BY <2>1 DEF ExportJob, File
  <2>3. ASSUME NEW t \in Topics \ ExportChanged.topics
        PROVE  {rec \in export.file.topics : rec.id = t} =
                 IF t \in Registered /\ SelectsTopic(Asked, t)
                   THEN {[id |-> t, config |-> topics[t]]} ELSE {}
    <3>1. TopicIsExact(t)
      BY <2>1 DEF IInv, ExactInv
    <3>2. \A rec \in export.file.topics :
            rec.config \in Configs /\ rec = [id |-> rec.id, config |-> rec.config]
      BY <2>2 DEF TopicRecord
    <3>3. t \in Registered => topics[t] \in Configs
      BY DEF IInv, TypeOK, Registered
    <3>4. \A rec \in export.file.topics :
            rec.id = t => /\ t \in Registered /\ SelectsTopic(Asked, t)
                          /\ rec = [id |-> t, config |-> topics[t]]
      BY <3>1, <3>2 DEF TopicIsExact
    <3>5. t \in Registered /\ SelectsTopic(Asked, t) =>
            [id |-> t, config |-> topics[t]] \in export.file.topics
      BY <3>1, <3>3 DEF TopicIsExact
    <3> QED
      BY <3>4, <3>5
  <2>4. ASSUME NEW k \in Keys \ ExportChanged.keys, TopicOf(k) \notin ExportChanged.topics
        PROVE  {rec \in export.file.permissions : rec.key = k} =
                 IF k \in DOMAIN entries /\ Wanted(k)
                   THEN {[key |-> k, perms |-> entries[k]]} ELSE {}
    <3>1. EntryIsExact(k)
      BY <2>1, <2>4 DEF IInv, ExactInv
    <3>2. \A rec \in export.file.permissions :
            rec.perms \in Contents /\ rec = [key |-> rec.key, perms |-> rec.perms]
      BY <2>2 DEF ResourceRecord
    <3>3. k \in DOMAIN entries => entries[k] \in Contents
      BY DEF IInv, TypeOK
    <3>4. \A rec \in export.file.permissions :
            rec.key = k => /\ k \in DOMAIN entries /\ Wanted(k)
                           /\ rec = [key |-> k, perms |-> entries[k]]
      BY <3>1, <3>2 DEF EntryIsExact
    <3>5. k \in DOMAIN entries /\ Wanted(k) =>
            [key |-> k, perms |-> entries[k]] \in export.file.permissions
      BY <2>1, <3>1, <3>3 DEF EntryIsExact
    <3> QED
      BY <3>4, <3>5
  <2>5. ASSUME NEW k \in Keys
        PROVE  Wanted(k) <=>
                 /\ Asked.includePermissions
                 /\ IF Asked.filterTopics = NoFilter THEN TopicOf(k) \in Registered
                    ELSE TopicOf(k) \in Asked.filterTopics
                 /\ Passes(k[2], Asked.filterResourceId)
    BY DEF Wanted, Selects, Passes
  <2> QED
    BY <2>3, <2>4, <2>5 DEF ExportIsExact, ExportChanged, Asked
<1> QED
  BY Invariant, <1>1, PTL


(***************************************************************************)
(* No step of an import changes a topic or an entry that its options leave *)
(* out, as far as their filters name something.                            *)
(***************************************************************************)
THEOREM ImportSparesTheRest == Spec => OnlySelectedChanges
<1>1. IInv /\ [Next]_vars =>
        (import # NoJob /\ import' # import =>
         LET options == import.options IN
         /\ \A t \in Topics :
              \/ options.includeTopicConfig /\ Given(t, options.filterTopics, TopicParts)
              \/ Kept(topics, t)
         /\ \A k \in Keys :
              \/ /\ options.includePermissions
                 /\ Given(TopicOf(k), options.filterTopics, TopicParts)
                 /\ Given(k[2], options.filterResourceId, ResourceParts)
              \/ Kept(entries, k))
  <2> SUFFICES ASSUME IInv, [Next]_vars, import # NoJob, import' # import
               PROVE  LET options == import.options IN
                      /\ \A t \in Topics :
                           \/ options.includeTopicConfig /\ Given(t, options.filterTopics, TopicParts)
                           \/ Kept(topics, t)
                      /\ \A k \in Keys :
                           \/ /\ options.includePermissions
                              /\ Given(TopicOf(k), options.filterTopics, TopicParts)
                              /\ Given(k[2], options.filterResourceId, ResourceParts)
                           \/ Kept(entries, k)
    OBVIOUS
  <2>1. /\ At("set topic") => import.item \in ImportedTopics
        /\ At("set permission") => import.item \in ImportedPermissions
    BY DEF IInv, ImportInv, WorkInv
  <2> QED
    BY <2>1, SelectedIsGiven, WritesItem DEF IInv
<1> QED
  BY Invariant, <1>1, PTL DEF Spec, OnlySelectedChanges
===============================================================================
