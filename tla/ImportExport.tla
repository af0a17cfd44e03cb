----------------------------- MODULE ImportExport -----------------------------
(***************************************************************************)
(* Export and Import of topics and permissions                             *)
(* (pkg/controller/import_export.go), with the options as pkg/client sends *)
(* them and pkg/api receives them, while other requests change the same    *)
(* collections.                                                            *)
(*                                                                         *)
(* Both are loops of separate database calls.  A call may fail, which ends *)
(* the loop with an error; a write that failed may have taken effect.      *)
(***************************************************************************)
EXTENDS FiniteSets

CONSTANTS
    Topics, Resources,
    Configs,         \* the rest of a model.Topic
    ValidConfigs,    \* those that pass Topic.Validate
    Contents,        \* values of model.ResourcePermissions
    ValidContents,   \* those that pass ResourcePermissions.Valid
    NoFilter,        \* a filter that is nil
    NoId,            \* ""
    TopicParts, ResourceParts,      \* what an id arrives as from a list joined with ","
    ExportOptions, ImportOptions,   \* the options callers use
    Files,           \* the files callers import, other than an export
    NoJob

Keys == Topics \X Resources
TopicOf(k) == k[1]

\* model.ImportExportOptions; a filter is nil or a list, of which only the
\* elements matter.
Options == [includeTopicConfig : BOOLEAN, includePermissions : BOOLEAN,
            filterTopics : {NoFilter} \cup SUBSET (Topics \cup {NoId}),
            filterResourceId : {NoFilter} \cup SUBSET (Resources \cup {NoId})]

\* model.ImportExport: an import may meet the elements in any order.
TopicRecord == [id : Topics, config : Configs]
ResourceRecord == [key : Keys, perms : Contents]
File == [topics : SUBSET TopicRecord, permissions : SUBSET ResourceRecord]
EmptyFile == [topics |-> {}, permissions |-> {}]

ASSUME ValidAssumption == ValidConfigs \subseteq Configs /\ ValidContents \subseteq Contents
ASSUME OptionsAssumption == ExportOptions \subseteq Options /\ ImportOptions \subseteq Options
ASSUME FilesAssumption == Files \subseteq File
ASSUME NoFilterAssumption ==
    \A filter \in (SUBSET (Topics \cup {NoId})) \cup (SUBSET (Resources \cup {NoId})) :
        filter # NoFilter
ASSUME PartsAssumption ==
    /\ TopicParts \in [Topics \cup {NoId} -> SUBSET (Topics \cup {NoId})]
    /\ ResourceParts \in [Resources \cup {NoId} -> SUBSET (Resources \cup {NoId})]

ExportJob == [options : Options, file : File, todo : SUBSET Keys]
\* An import between two elements, before the write of an element, or answered
\* with 400; topics and permissions are the elements still to come.
ImportJob ==
    [options : Options, file : File, pc : {"loop", "set topic", "set permission", "refused"},
     topics : SUBSET TopicRecord, permissions : SUBSET ResourceRecord,
     item : {NoJob} \cup TopicRecord \cup ResourceRecord, topicCache : SUBSET Topics]
ASSUME JobAssumption == NoJob \notin ExportJob /\ NoJob \notin ImportJob

VARIABLES
    topics,     \* the topics collection, by id
    entries,    \* the permissions collection, by topic and id
    export,     \* the export in progress, or the last one
    import,     \* the import in progress, or the last one
    changed     \* history: what others have changed since the job started

vars == <<topics, entries, export, import, changed>>

TypeOK ==
    /\ DOMAIN topics \subseteq Topics /\ topics \in [DOMAIN topics -> Configs]
    /\ DOMAIN entries \subseteq Keys /\ entries \in [DOMAIN entries -> Contents]
    /\ export \in {NoJob} \cup ExportJob
    /\ import \in {NoJob} \cup ImportJob
    /\ changed \in [{"export", "import"} -> [topics : SUBSET Topics, keys : SUBSET Keys]]

Nothing == [topics |-> {}, keys |-> {}]

Init ==
    /\ topics = [t \in {} |-> {}]
    /\ entries = [k \in {} |-> {}]
    /\ export = NoJob
    /\ import = NoJob
    /\ changed = [j \in {"export", "import"} |-> Nothing]

Registered == DOMAIN topics
With(map, i, value) == [j \in DOMAIN map \cup {i} |-> IF j = i THEN value ELSE map[j]]
Without(map, S) == [j \in DOMAIN map \ S |-> map[j]]

\* History: topics ts and entries ks are changed by somebody but the jobs js.
Change(ts, ks, js) ==
    changed' = [j \in {"export", "import"} |->
                  IF j \in js THEN changed[j]
                  ELSE [topics |-> changed[j].topics \cup ts, keys |-> changed[j].keys \cup ks]]
Starts(job) == changed' = [changed EXCEPT ![job] = Nothing]

-----------------------------------------------------------------------------
(* Options and filters                                                     *)

\* The client joins a filter with "," and sends it if it is not nil; the API
\* splits what is not "": [] and [""] arrive as nil, and an id with a comma as
\* the ids between its commas.
Wire(filter, parts) ==
    IF filter = NoFilter \/ filter \subseteq {NoId} THEN NoFilter
    ELSE UNION {parts[x] : x \in filter}

Received(options) ==
    [options EXCEPT !.filterTopics = Wire(@, TopicParts),
                    !.filterResourceId = Wire(@, ResourceParts)]

\* nil -> all
Passes(x, filter) == IF filter = NoFilter THEN TRUE ELSE x \in filter

\* Mutant: the filter of the topics is not applied to the permissions.
SelectsIgnoringTopic(options, k) ==
    options.includePermissions /\ Passes(k[2], options.filterResourceId)

Selects(options, k) ==
    /\ options.includePermissions
    /\ Passes(TopicOf(k), options.filterTopics)
    /\ Passes(k[2], options.filterResourceId)

SelectsTopic(options, t) == options.includeTopicConfig /\ Passes(t, options.filterTopics)

\* What the loops of an import do not skip.
SelectedTopics(file, options) ==
    {rec \in file.topics : SelectsTopic(options, rec.id)}
SelectedPermissions(file, options) ==
    {rec \in file.permissions : Selects(options, rec.key)}

-----------------------------------------------------------------------------
(* Export                                                                  *)

\* Mutant: entries are looked for in topics that are not registered.
ExportOfAnyTopic(asked) ==
    LET options == Received(asked) IN
    /\ export' = [options |-> asked,
                  file |-> [EmptyFile EXCEPT !.topics =
                              {[id |-> t, config |-> topics[t]] :
                                 t \in {u \in Registered : SelectsTopic(options, u)}}],
                  todo |-> {k \in Keys : Selects(options, k)}]
    /\ Starts("export")
    /\ UNCHANGED <<topics, entries, import>>

\* ListTopics, once: for the topics of the file, for the topics whose entries
\* are listed, or for both.  A topic filter is taken as it is for the entries.
Export(asked) ==
    LET options == Received(asked) IN
    /\ export' = [options |-> asked,
                  file |-> [EmptyFile EXCEPT !.topics =
                              {[id |-> t, config |-> topics[t]] :
                                 t \in {u \in Registered : SelectsTopic(options, u)}}],
                  todo |-> {k \in Keys :
                              /\ Selects(options, k)
                              /\ options.filterTopics = NoFilter => TopicOf(k) \in Registered}]
    /\ Starts("export")
    /\ UNCHANGED <<topics, entries, import>>

\* The cursor of AdminListResources passes k.
ExportEntry(k) ==
    /\ export # NoJob
    /\ k \in export.todo
    /\ export' = [export EXCEPT
         !.todo = @ \ {k},
         !.file.permissions = IF k \in DOMAIN entries
                                THEN @ \cup {[key |-> k, perms |-> entries[k]]} ELSE @]
    /\ UNCHANGED <<topics, entries, import, changed>>

ExportFails ==
    /\ export # NoJob
    /\ export' = NoJob
    /\ UNCHANGED <<topics, entries, import, changed>>

ExportDone == IF export = NoJob THEN FALSE ELSE export.todo = {}

-----------------------------------------------------------------------------
(* Import                                                                  *)

At(pc) == IF import = NoJob THEN FALSE ELSE import.pc = pc
ImportDone == At("loop") /\ import.topics = {} /\ import.permissions = {}
ImportStep == UNCHANGED <<export, changed>>

Import(file, asked) ==
    LET options == Received(asked) IN
    /\ import = NoJob \/ ImportDone \/ At("refused")
    /\ import' = [options |-> asked, file |-> file, pc |-> "loop",
                  topics |-> SelectedTopics(file, options),
                  permissions |-> SelectedPermissions(file, options),
                  item |-> NoJob, topicCache |-> {}]
    /\ Starts("import")
    /\ UNCHANGED <<topics, entries, export>>

\* SetTopic up to its write: an invalid topic is refused, an equal one kept.
ImportTopic(rec) ==
    /\ At("loop")
    /\ rec \in import.topics
    /\ import' = IF rec.config \notin ValidConfigs THEN [import EXCEPT !.pc = "refused"]
                 ELSE IF rec.id \in Registered /\ topics[rec.id] = rec.config
                   THEN [import EXCEPT !.topics = @ \ {rec}]
                 ELSE [import EXCEPT !.topics = @ \ {rec}, !.pc = "set topic", !.item = rec]
    /\ UNCHANGED <<topics, entries>> /\ ImportStep

ImportSetTopic ==
    /\ At("set topic")
    /\ topics' = With(topics, import.item.id, import.item.config)
    /\ import' = [import EXCEPT !.pc = "loop", !.item = NoJob]
    /\ UNCHANGED <<entries, export>>
    /\ Change({import.item.id}, {}, {"import"})

\* Mutant: the permissions do not wait for the topics of the file.
ImportResourceFirst(rec) ==
    /\ At("loop")
    /\ rec \in import.permissions
    /\ import' = IF rec.perms \notin ValidContents \/ TopicOf(rec.key) \notin Registered
                   THEN [import EXCEPT !.pc = "refused"]
                   ELSE [import EXCEPT !.permissions = @ \ {rec}, !.pc = "set permission",
                           !.item = rec]
    /\ UNCHANGED <<topics, entries>> /\ ImportStep

\* Mutant: "exists" of GetTopic is not looked at.
ImportResourceOfAnyTopic(rec) ==
    /\ At("loop") /\ import.topics = {}
    /\ rec \in import.permissions
    /\ import' = IF rec.perms \notin ValidContents THEN [import EXCEPT !.pc = "refused"]
                 ELSE [import EXCEPT !.permissions = @ \ {rec}, !.pc = "set permission",
                         !.item = rec, !.topicCache = @ \cup {TopicOf(rec.key)}]
    /\ UNCHANGED <<topics, entries>> /\ ImportStep

\* Mutant: the cache is filled under the id of the resource.
ImportResourceCachedById(rec) ==
    /\ At("loop") /\ import.topics = {}
    /\ rec \in import.permissions
    /\ import' = [import EXCEPT !.permissions = @ \ {rec}, !.pc = "set permission",
                     !.item = rec, !.topicCache = @ \cup {rec.key[2]}]
    /\ UNCHANGED <<topics, entries>> /\ ImportStep

\* Valid, and GetTopic unless the topic is in the cache.
ImportResource(rec) ==
    LET t == TopicOf(rec.key) IN
    /\ At("loop") /\ import.topics = {}
    /\ rec \in import.permissions
    /\ import' = IF \/ rec.perms \notin ValidContents
                    \/ t \notin import.topicCache \cup Registered
                   THEN [import EXCEPT !.pc = "refused"]
                   ELSE [import EXCEPT !.permissions = @ \ {rec}, !.pc = "set permission",
                           !.item = rec, !.topicCache = @ \cup {t}]
    /\ UNCHANGED <<topics, entries>> /\ ImportStep

\* Mutant: an error of setPermission is taken for success.
ImportSetPermissionErrorIgnored ==
    /\ At("set permission")
    /\ import' = [import EXCEPT !.pc = "loop", !.item = NoJob]
    /\ \/ entries' = With(entries, import.item.key, import.item.perms)
       \/ UNCHANGED entries
    /\ UNCHANGED <<topics, export>>
    /\ Change({}, {import.item.key}, {"import"})

\* setPermission without the announcement, which PermissionSync models.
ImportSetPermission ==
    /\ At("set permission")
    /\ entries' = With(entries, import.item.key, import.item.perms)
    /\ import' = [import EXCEPT !.pc = "loop", !.item = NoJob]
    /\ UNCHANGED <<topics, export>>
    /\ Change({}, {import.item.key}, {"import"})

\* An error ends the import wherever it is; a write may have taken effect.
ImportFails ==
    /\ At("loop") \/ At("set topic") \/ At("set permission")
    /\ import' = NoJob
    /\ \/ UNCHANGED <<topics, entries, changed>>
       \/ /\ At("set topic")
          /\ topics' = With(topics, import.item.id, import.item.config)
          /\ Change({import.item.id}, {}, {"import"})
          /\ UNCHANGED entries
       \/ /\ At("set permission")
          /\ entries' = With(entries, import.item.key, import.item.perms)
          /\ Change({}, {import.item.key}, {"import"})
          /\ UNCHANGED topics
    /\ UNCHANGED export

-----------------------------------------------------------------------------
(* Other requests, each as a whole                                         *)

\* SetPermission stores valid permissions only, the load from
\* permission-search any.
SetPermission(k, perms) ==
    /\ TopicOf(k) \in Registered
    /\ entries' = With(entries, k, perms)
    /\ Change({}, {k}, {})
    /\ UNCHANGED <<topics, export, import>>

RemoveResource(k) ==
    /\ k \in DOMAIN entries
    /\ entries' = Without(entries, {k})
    /\ Change({}, {k}, {})
    /\ UNCHANGED <<topics, export, import>>

SetTopic(t, config) ==
    /\ config \in ValidConfigs
    /\ topics' = With(topics, t, config)
    /\ Change({t}, {}, {})
    /\ UNCHANGED <<entries, export, import>>

\* DeleteTopic may end with an error when some entries are left.
RemoveTopic(t) ==
    LET ks == {k \in DOMAIN entries : TopicOf(k) = t} IN
    \E removed \in SUBSET ks :
        /\ topics' = Without(topics, {t})
        /\ entries' = Without(entries, removed)
        /\ Change({t}, removed, {})
        /\ UNCHANGED <<export, import>>

Next ==
    \/ \E asked \in ExportOptions : Export(asked)
    \/ \E k \in Keys : ExportEntry(k)
    \/ ExportFails
    \/ \E file \in Files, asked \in ImportOptions : Import(file, asked)
    \/ ExportDone /\ \E asked \in ImportOptions : Import(export.file, asked)
    \/ \E rec \in TopicRecord : ImportTopic(rec)
    \/ \E rec \in ResourceRecord : ImportResource(rec)
    \/ ImportSetTopic
    \/ ImportSetPermission
    \/ ImportFails
    \/ \E k \in Keys, perms \in Contents : SetPermission(k, perms)
    \/ \E k \in Keys : RemoveResource(k)
    \/ \E t \in Topics, config \in Configs : SetTopic(t, config)
    \/ \E t \in Topics : RemoveTopic(t)

Spec == Init /\ [][Next]_vars

-----------------------------------------------------------------------------
\* The selected elements of the last import's file.
ImportedTopics == SelectedTopics(import.file, Received(import.options))
ImportedPermissions == SelectedPermissions(import.file, Received(import.options))

(***************************************************************************)
(* A finished export shows the collections: whatever nobody has touched    *)
(* since it began is in the file as it is stored if the options select it, *)
(* and not otherwise, although topics and entries are read one by one.     *)
(***************************************************************************)
ExportIsExact ==
    ExportDone =>
        LET options == Received(export.options) IN
        /\ \A t \in Topics \ changed["export"].topics :
             {rec \in export.file.topics : rec.id = t} =
               IF t \in Registered /\ SelectsTopic(options, t)
                 THEN {[id |-> t, config |-> topics[t]]} ELSE {}
        /\ \A k \in Keys \ changed["export"].keys :
             TopicOf(k) \notin changed["export"].topics =>
             {rec \in export.file.permissions : rec.key = k} =
               IF /\ k \in DOMAIN entries
                  /\ options.includePermissions
                  /\ IF options.filterTopics = NoFilter THEN TopicOf(k) \in Registered
                     ELSE TopicOf(k) \in options.filterTopics
                  /\ Passes(k[2], options.filterResourceId)
                 THEN {[key |-> k, perms |-> entries[k]]} ELSE {}

(***************************************************************************)
(* An export of topics and permissions without a topic filter can stand    *)
(* alone: it has the topic of every resource in it, whatever is removed or *)
(* left over while it runs.                                                *)
(***************************************************************************)
ExportIsSelfContained ==
    ExportDone /\ export.options.includeTopicConfig /\ export.options.filterTopics = NoFilter =>
        \A rec \in export.file.permissions :
            \E topic \in export.file.topics : topic.id = TopicOf(rec.key)

(***************************************************************************)
(* When an import has answered 200, every element of the file that the     *)
(* options select is stored, unless another request has changed it since   *)
(* the import began.  (If the file names it twice: one of the two.)        *)
(***************************************************************************)
ImportIsComplete ==
    ImportDone =>
        /\ \A rec \in ImportedTopics :
             \/ rec.id \in changed["import"].topics
             \/ /\ rec.id \in Registered
                /\ [id |-> rec.id, config |-> topics[rec.id]] \in ImportedTopics
        /\ \A rec \in ImportedPermissions :
             \/ rec.key \in changed["import"].keys
             \/ /\ rec.key \in DOMAIN entries
                /\ [key |-> rec.key, perms |-> entries[rec.key]] \in ImportedPermissions

\* x is stored in map as it was.
Kept(map, x) == /\ x \in DOMAIN map <=> x \in DOMAIN map'
                /\ x \in DOMAIN map => map'[x] = map[x]

\* The filter lets x pass as its caller has written it: an id with a comma stands
\* for those it is cut into.  Nothing is said of an empty filter.
Given(x, filter, parts) ==
    \/ filter = NoFilter \/ filter \subseteq {NoId}
    \/ \E y \in filter : x \in parts[y]

(***************************************************************************)
(* An import changes nothing its options leave out: "import handles only   *)
(* the given topics", "only the given resource-permissions ids".  This is  *)
(* about filters that name something.  An empty list is documented to      *)
(* select nothing, but the API receives it as no filter, so that it        *)
(* selects everything; the property excludes it.                           *)
(***************************************************************************)
OnlySelectedChanges ==
    [][import # NoJob /\ import' # import =>
         LET options == import.options IN
         /\ \A t \in Topics :
              \/ options.includeTopicConfig /\ Given(t, options.filterTopics, TopicParts)
              \/ Kept(topics, t)
         /\ \A k \in Keys :
              \/ /\ options.includePermissions
                 /\ Given(TopicOf(k), options.filterTopics, TopicParts)
                 /\ Given(k[2], options.filterResourceId, ResourceParts)
              \/ Kept(entries, k)]_vars

(***************************************************************************)
(* 400 is an answer to the file: some selected element of it is invalid,   *)
(* or the topic of a resource is neither there nor among the topics        *)
(* imported before.  A file that brings its topics along is refused for a  *)
(* missing topic only if another request has changed it since.             *)
(***************************************************************************)
RefusedForTheFile ==
    At("refused") =>
        \/ \E rec \in ImportedTopics : rec.config \notin ValidConfigs
        \/ \E rec \in ImportedPermissions :
             \/ rec.perms \notin ValidContents
             \/ TopicOf(rec.key) \in changed["import"].topics
             \/ /\ TopicOf(rec.key) \notin Registered
                /\ \A topic \in ImportedTopics : topic.id # TopicOf(rec.key)

(***************************************************************************)
(* Permissions an import is about to store have a topic, or another        *)
(* request has removed it since the import began: the topic cache is the   *)
(* only way past the check.                                                *)
(***************************************************************************)
ImportedHasTopic ==
    At("set permission") =>
        TopicOf(import.item.key) \in Registered \cup changed["import"].topics
===============================================================================
