------------------------ MODULE PermissionSync_proofs ------------------------
(***************************************************************************)
(* Proofs about PermissionSync, for every set of topics, resources,        *)
(* permission values, channels and requests.                               *)
(***************************************************************************)
EXTENDS PermissionSync, TLAPS

(***************************************************************************)
(* The type of a request and of the retry pass, by the value of pc.        *)
(***************************************************************************)
LEMMA RequestType ==
    ASSUME NEW q \in Request
    PROVE  /\ q.pc \in {"checked", "stored", "published", "notifying"} => q \in Setting
           /\ q.pc = "configuring" => q \in Configuring
           /\ q.pc \in {"scanning", "removing"} => q \in Removing
           /\ q.pc = "idle" => q = Idle
BY DEF Request, Idle, Setting, Configuring, Removing

LEMMA RetryType ==
    ASSUME retry \in Retry
    PROVE  /\ retry.pc = "idle" => retry = Idle
           /\ retry.pc = "next" => retry \in [pc : {"next"}, todo : SUBSET Item]
           /\ retry.pc \in {"publish", "mark"} =>
                retry \in [pc : {"publish", "mark"}, todo : SUBSET Item,
                           item : Item, chan : Configs]
BY DEF Retry, Idle

LEMMA RetryItemsType ==
    ASSUME retry \in Retry
    PROVE  RetryItems \subseteq Item
<1>1. CASE retry.pc = "idle"
  BY <1>1 DEF RetryItems
<1>2. CASE retry.pc = "next"
  <2>1. retry.todo \subseteq Item
    BY <1>2, RetryType
  <2> QED BY <1>2, <2>1 DEF RetryItems
<1>3. CASE retry.pc \in {"publish", "mark"}
  <2>1. retry.todo \subseteq Item /\ retry.item \in Item
    BY <1>3, RetryType
  <2> QED BY <1>3, <2>1 DEF RetryItems
<1> QED BY <1>1, <1>2, <1>3 DEF Retry, Idle

\* Callers send permissions.
LEMMA InputType == \A k \in Keys : \A p \in Inputs[TopicOf(k)] : p \in Perms
BY InputsAssumption DEF Keys, TopicOf

(***************************************************************************)
(* SendPermissions and SetResource keep the types of what they write.      *)
(***************************************************************************)
LEMMA SendPermissionsType ==
    ASSUME TypeOK, NEW k \in Keys, NEW chan \in Configs, NEW perm \in Perms,
           SendPermissions(k, chan, perm)
    PROVE  /\ topics' = topics /\ entries' = entries
           /\ written' = written /\ given' = given
           /\ latest' \in [Channels \X Resources -> Perms \cup {NoRecord}]
           /\ isolated' \in [Keys -> BOOLEAN]
<1>1. isolated' \in [Keys -> BOOLEAN]
  BY DEF SendPermissions, TypeOK
<1>2. latest' \in [Channels \X Resources -> Perms \cup {NoRecord}]
  BY DEF SendPermissions, TypeOK
<1> QED BY <1>1, <1>2 DEF SendPermissions

LEMMA SetResourceType ==
    ASSUME TypeOK, NEW h \in Requests, requests[h] \in Setting, SetResource(h)
    PROVE  /\ topics' = topics /\ given' = given
           /\ entries' \in [Keys -> Entry \cup {NoEntry}]
           /\ written' \in [Keys -> SUBSET Perms]
           /\ isolated' \in [Keys -> BOOLEAN]
<1>1. requests[h].key \in Keys /\ requests[h].perm \in Perms
  BY DEF Setting
<1>2. entries' \in [Keys -> Entry \cup {NoEntry}]
  BY <1>1 DEF SetResource, TypeOK, Entry
<1>3. written' \in [Keys -> SUBSET Perms]
  BY <1>1 DEF SetResource, TypeOK
<1>4. isolated' \in [Keys -> BOOLEAN]
  BY <1>1 DEF SetResource, TypeOK
<1> QED BY <1>2, <1>3, <1>4 DEF SetResource

LEMMA MarkType ==
    ASSUME TypeOK, NEW k \in Keys, MarkResourceAsSynced(k)
    PROVE  entries' \in [Keys -> Entry \cup {NoEntry}]
BY DEF MarkResourceAsSynced, TypeOK, Entry

LEMMA WriteTopicType ==
    ASSUME TypeOK, NEW t \in Topics, NEW config \in Configs \cup {Unregistered},
           WriteTopic(t, config)
    PROVE  /\ topics' \in [Topics -> Configs \cup {Unregistered}]
           /\ given' \in [Topics -> SUBSET Channels]
           /\ isolated' \in [Keys -> BOOLEAN]
           /\ entries' = entries /\ written' = written
<1>1. isolated' \in [Keys -> BOOLEAN]
  BY DEF WriteTopic, TypeOK
<1>2. given' \in [Topics -> SUBSET Channels]
  BY DEF WriteTopic, TypeOK
<1> QED BY <1>1, <1>2 DEF WriteTopic, TypeOK

(***************************************************************************)
(* Every step keeps every variable within its type: no request or pass is  *)
(* ever at a step whose data it has not read, and every stored, announced  *)
(* or remembered value is one the callers gave.                            *)
(***************************************************************************)
LEMMA RequestStepType ==
    ASSUME TypeOK, NEW h \in Requests, RequestStep(h)
    PROVE  TypeOK'
<1> USE DEF db, history
<1>1. ASSUME NEW k \in Keys, NEW p \in Perms, SetPermission(h, k, p)
      PROVE TypeOK'
  <2>1. topics[TopicOf(k)] \in Configs
    BY <1>1 DEF SetPermission, TypeOK, Keys, TopicOf
  <2> QED BY <1>1, <2>1 DEF SetPermission, TypeOK, Request, Setting
<1>2. CASE Store(h) \/ StoreFails(h)
  <2>1. requests[h] \in Setting
    BY <1>2, RequestType DEF Store, StoreFails, TypeOK
  <2>2. requests' \in [Requests -> Request]
    BY <1>2, <2>1 DEF Store, StoreFails, Answer, Goto, TypeOK, Request, Setting
  <2> QED BY <1>2, <2>1, <2>2, SetResourceType DEF Store, StoreFails, TypeOK
<1>3. CASE Publish(h) \/ PublishFails(h)
  <2>1. requests[h] \in Setting
    BY <1>3, RequestType DEF Publish, PublishFails, TypeOK
  <2>2. requests' \in [Requests -> Request]
    BY <1>3, <2>1 DEF Publish, PublishFails, Goto, TypeOK, Request, Setting
  <2>3. /\ requests[h].key \in Keys /\ requests[h].chan \in Configs
        /\ requests[h].perm \in Perms
    BY <2>1 DEF Setting
  <2> QED BY <1>3, <2>2, <2>3, SendPermissionsType DEF Publish, PublishFails, TypeOK
<1>4. CASE NotifyError(h)
  BY <1>4 DEF NotifyError, Answer, TypeOK, Request
<1>5. CASE Mark(h)
  <2>1. requests[h].key \in Keys
    BY <1>5, RequestType DEF Mark, TypeOK, Setting
  <2>2. requests' \in [Requests -> Request]
    BY <1>5 DEF Mark, Answer, TypeOK, Request
  <2> QED BY <1>5, <2>1, <2>2, MarkType DEF Mark, MarkResourceAsSynced, TypeOK
<1>6. ASSUME NEW t \in Topics, NEW config \in Settings[t], SetTopic(h, t, config)
      PROVE TypeOK'
  BY <1>6, SettingsAssumption DEF SetTopic, TypeOK, Request, Configuring
<1>7. CASE WriteSetTopic(h)
  <2>1. requests[h].topic \in Topics /\ requests[h].chan \in Configs
    BY <1>7, RequestType DEF WriteSetTopic, TypeOK, Configuring
  <2>2. requests' \in [Requests -> Request]
    BY <1>7 DEF WriteSetTopic, Answer, TypeOK, Request
  <2> QED BY <1>7, <2>1, <2>2, WriteTopicType DEF WriteSetTopic, TypeOK
<1>8. ASSUME NEW t \in Topics, RemoveTopic(h, t)
      PROVE TypeOK'
  <2>1. requests' \in [Requests -> Request]
    BY <1>8 DEF RemoveTopic, TypeOK, Request, Removing
  <2> QED BY <1>8, <2>1, WriteTopicType DEF RemoveTopic, TypeOK
<1>9. CASE ScanEntries(h)
  <2>1. requests[h].topic \in Topics
    BY <1>9, RequestType DEF ScanEntries, TypeOK, Removing
  <2> QED BY <1>9, <2>1 DEF ScanEntries, TypeOK, Request, Removing
<1>10. ASSUME NEW r \in Resources, RemoveEntry(h, r)
       PROVE TypeOK'
  <2>1. requests[h] \in Removing
    BY <1>10, RequestType DEF RemoveEntry, TypeOK
  <2>2. requests' \in [Requests -> Request]
    BY <1>10, <2>1 DEF RemoveEntry, TypeOK, Request, Removing
  <2> QED BY <1>10, <2>1, <2>2 DEF RemoveEntry, TypeOK, Removing, Keys
<1>11. CASE RemoveTopicEnds(h)
  BY <1>11 DEF RemoveTopicEnds, Answer, TypeOK, Request
<1> QED
  BY <1>1, <1>2, <1>3, <1>4, <1>5, <1>6, <1>7, <1>8, <1>9, <1>10, <1>11,
     InputType
     DEF RequestStep

LEMMA RetryStepType ==
    ASSUME TypeOK, RetryStep
    PROVE  TypeOK'
<1> USE DEF db, history
<1>1. CASE RetryList
  BY <1>1 DEF RetryList, TypeOK, Retry, Item, Unsynced, Entry
<1>2. ASSUME NEW i \in Item, RetryGetTopic(i)
      PROVE TypeOK'
  <2>1. topics[TopicOf(i.key)] \in Configs
    BY <1>2 DEF RetryGetTopic, TypeOK, Item, Keys, TopicOf
  <2>2. retry.todo \in SUBSET Item
    BY <1>2, RetryType DEF RetryGetTopic, TypeOK
  <2> QED BY <1>2, <2>1, <2>2 DEF RetryGetTopic, TypeOK, Retry
<1>3. ASSUME NEW i \in Item, RetrySkip(i)
      PROVE TypeOK'
  <2>1. retry \in [pc : {"next"}, todo : SUBSET Item]
    BY <1>3, RetryType DEF RetrySkip, TypeOK
  <2>2. retry' \in Retry
    BY <1>3, <2>1 DEF RetrySkip, Retry
  <2> QED BY <1>3, <2>2 DEF RetrySkip, TypeOK
<1>4. CASE RetryPublish \/ RetryPublishFails
  <2>1. retry \in [pc : {"publish", "mark"}, todo : SUBSET Item,
                   item : Item, chan : Configs]
    BY <1>4, RetryType DEF RetryPublish, RetryPublishFails, TypeOK
  <2>2. retry' \in Retry
    BY <1>4, <2>1 DEF RetryPublish, RetryPublishFails, RetryNext, Retry
  <2>3. /\ retry.item.key \in Keys /\ retry.item.perm \in Perms
        /\ retry.chan \in Configs
    BY <2>1 DEF Item
  <2> QED BY <1>4, <2>2, <2>3, SendPermissionsType
          DEF RetryPublish, RetryPublishFails, TypeOK
<1>5. CASE RetryMark \/ RetryMarkFails
  <2>1. retry \in [pc : {"publish", "mark"}, todo : SUBSET Item,
                   item : Item, chan : Configs]
    BY <1>5, RetryType DEF RetryMark, RetryMarkFails, TypeOK
  <2>2. retry' \in Retry
    BY <1>5, <2>1 DEF RetryMark, RetryMarkFails, RetryNext, Retry
  <2>3. retry.item.key \in Keys
    BY <2>1 DEF Item
  <2> QED BY <1>5, <2>2, <2>3, MarkType
          DEF RetryMark, RetryMarkFails, MarkResourceAsSynced, TypeOK
<1>6. CASE RetryEnds
  BY <1>6 DEF RetryEnds, TypeOK, Retry
<1> QED BY <1>1, <1>2, <1>3, <1>4, <1>5, <1>6 DEF RetryStep

LEMMA NextType == TypeOK /\ [Next]_vars => TypeOK'
<1> SUFFICES ASSUME TypeOK, [Next]_vars PROVE TypeOK'
  OBVIOUS
<1> USE DEF db, history
<1>1. ASSUME NEW h \in Requests, RequestStep(h) PROVE TypeOK'
  BY <1>1, RequestStepType
<1>2. CASE RetryStep
  BY <1>2, RetryStepType
<1>3. ASSUME NEW k \in Keys, RemoveResource(k) PROVE TypeOK'
  BY <1>3 DEF RemoveResource, TypeOK
<1>4. ASSUME NEW k \in Keys, Age(k) PROVE TypeOK'
  BY <1>4 DEF Age, TypeOK, Entry
<1>5. ASSUME NEW t \in Topics, RemoveTopicFails(t) PROVE TypeOK'
  BY <1>5, WriteTopicType DEF RemoveTopicFails, TypeOK
<1>6. CASE Crash
  BY <1>6 DEF Crash, TypeOK, Request, Retry
<1>7. CASE UNCHANGED vars
  BY <1>7 DEF vars, TypeOK
<1> QED BY <1>1, <1>2, <1>3, <1>4, <1>5, <1>6, <1>7 DEF Next

THEOREM TypeCorrect == Spec => []TypeOK
<1>1. Init => TypeOK
  BY DEF Init, TypeOK, Request, Retry, Idle
<1> QED BY <1>1, NextType, PTL DEF Spec

-----------------------------------------------------------------------------
(***************************************************************************)
(* Consumers of a channel see only what was stored.                        *)
(***************************************************************************)

\* What is sent has been stored, so the records of the channels have been.
LEMMA SendWritten ==
    ASSUME TypeOK, AnnouncedWasStored,
           NEW k \in Keys, NEW chan \in Configs, NEW perm \in written[k],
           SendPermissions(k, chan, perm)
    PROVE  AnnouncedWasStored'
<1> SUFFICES ASSUME NEW c \in Channels, NEW r \in Resources,
                    latest'[<<c, r>>] # NoRecord
             PROVE  \E t \in Topics : latest'[<<c, r>>] \in written'[<<t, r>>]
  BY DEF AnnouncedWasStored
<1>1. written' = written
  BY DEF SendPermissions
<1>2. CASE <<c, r>> = <<chan, ResourceOf(k)>>
  <2>1. latest'[<<c, r>>] = perm
    BY <1>2 DEF SendPermissions, TypeOK
  <2>2. TopicOf(k) \in Topics /\ k = <<TopicOf(k), r>>
    BY <1>2 DEF Keys, TopicOf, ResourceOf
  <2> QED BY <1>1, <2>1, <2>2
<1>3. CASE <<c, r>> # <<chan, ResourceOf(k)>>
  <2>1. latest'[<<c, r>>] = latest[<<c, r>>]
    BY <1>3 DEF SendPermissions, TypeOK
  <2> QED BY <1>1, <2>1 DEF AnnouncedWasStored
<1> QED BY <1>2, <1>3

\* A stored value is remembered, and nothing is forgotten.
LEMMA SetResourceWritten ==
    ASSUME TypeOK, WrittenInv, NEW h \in Requests, requests[h] \in Setting,
           SetResource(h), latest' = latest
    PROVE  /\ \A k \in Keys : written[k] \subseteq written'[k]
           /\ requests[h].perm \in written'[requests[h].key]
           /\ \A k \in Keys : entries'[k] # NoEntry => entries'[k].perm \in written'[k]
           /\ AnnouncedWasStored'
<1>1. requests[h].key \in Keys
  BY DEF Setting
<1>2. \A k \in Keys : written[k] \subseteq written'[k]
  BY <1>1 DEF SetResource, TypeOK
<1>3. requests[h].perm \in written'[requests[h].key]
  BY <1>1 DEF SetResource, TypeOK
<1>4. ASSUME NEW k \in Keys, entries'[k] # NoEntry
      PROVE  entries'[k].perm \in written'[k]
  <2>1. CASE k = requests[h].key
    <3>1. entries'[k].perm = requests[h].perm
      BY <1>1, <2>1 DEF SetResource, TypeOK
    <3> QED BY <1>3, <2>1, <3>1
  <2>2. CASE k # requests[h].key
    <3>1. entries'[k] = entries[k]
      BY <1>1, <2>2 DEF SetResource, TypeOK
    <3> QED BY <1>2, <1>4, <3>1 DEF WrittenInv
  <2> QED BY <2>1, <2>2
<1>5. AnnouncedWasStored'
  BY <1>2 DEF WrittenInv, AnnouncedWasStored, Keys
<1> QED BY <1>2, <1>3, <1>4, <1>5

\* A mark does not change the content of an entry.
LEMMA MarkKeepsPerm ==
    ASSUME TypeOK, NEW k \in Keys, MarkResourceAsSynced(k), NEW j \in Keys
    PROVE  /\ (entries'[j] = NoEntry) <=> (entries[j] = NoEntry)
           /\ entries[j] # NoEntry => entries'[j].perm = entries[j].perm
<1>1. CASE entries[k] = NoEntry
  BY <1>1 DEF MarkResourceAsSynced
<1>2. CASE entries[k] # NoEntry
  <2>1. entries[k] \in Entry
    BY <1>2 DEF TypeOK
  <2>2. [entries[k] EXCEPT !.synced = TRUE] \in Entry
    BY <2>1 DEF Entry
  <2>3. [entries[k] EXCEPT !.synced = TRUE].perm = entries[k].perm
    BY <2>1 DEF Entry
  <2>4. entries' = [entries EXCEPT ![k] = [entries[k] EXCEPT !.synced = TRUE]]
    BY <1>2 DEF MarkResourceAsSynced
  <2>5. CASE j = k
    <3>1. entries'[j] = [entries[k] EXCEPT !.synced = TRUE]
      BY <2>4, <2>5 DEF TypeOK
    <3> QED BY <1>2, <2>2, <2>3, <2>5, <3>1, EntryAssumption
  <2>6. CASE j # k
    BY <2>4, <2>6 DEF TypeOK
  <2> QED BY <2>5, <2>6
<1> QED BY <1>1, <1>2

LEMMA RequestStepWritten ==
    ASSUME TypeOK, WrittenInv, NEW h \in Requests, RequestStep(h)
    PROVE  WrittenInv'
<1> USE DEF db, history
<1>i. UNCHANGED retry /\ RetryItems' = RetryItems
  BY DEF RequestStep, SetPermission, Store, StoreFails, Publish, PublishFails,
         NotifyError, Mark, SetTopic, WriteSetTopic, RemoveTopic, ScanEntries,
         RemoveEntry, RemoveTopicEnds, RetryItems
<1>k. \A i \in RetryItems : i.key \in Keys
  BY RetryItemsType DEF TypeOK, Item
<1>1. ASSUME NEW k \in Keys, NEW p \in Perms, SetPermission(h, k, p)
      PROVE WrittenInv'
  BY <1>1, <1>i DEF SetPermission, WrittenInv, AnnouncedWasStored, TypeOK
<1>2. CASE Store(h) \/ StoreFails(h)
  <2>1. requests[h] \in Setting
    BY <1>2, RequestType DEF Store, StoreFails, TypeOK
  <2>2. CASE SetResource(h)
    <3>1. latest' = latest
      BY <1>2 DEF Store, StoreFails
    <3>2. \A g \in Requests : requests'[g].pc = "stored" =>
            requests'[g].key \in Keys /\ requests'[g].perm \in written'[requests'[g].key]
      <4> TAKE g \in Requests
      <4>1. CASE g = h
        <5>1. requests'[h].pc = "stored" => /\ requests'[h].key = requests[h].key
                                            /\ requests'[h].perm = requests[h].perm
          BY <1>2, <2>1 DEF Store, StoreFails, Goto, Answer, Idle, TypeOK, Setting
        <5> QED BY <2>1, <2>2, <3>1, <4>1, <5>1, SetResourceWritten DEF Setting
      <4>2. CASE g # h
        <5>1. requests'[g] = requests[g]
          BY <1>2, <4>2 DEF Store, StoreFails, Goto, Answer, TypeOK
        <5>2. requests[g].pc = "stored" => requests[g].key \in Keys
          BY RequestType DEF TypeOK, Setting
        <5> QED BY <2>1, <2>2, <3>1, <5>1, <5>2, SetResourceWritten DEF WrittenInv
      <4> QED BY <4>1, <4>2
    <3> QED BY <1>i, <1>k, <2>1, <2>2, <3>1, <3>2, SetResourceWritten DEF WrittenInv
  <2>3. CASE UNCHANGED <<db, history>>
    <3>1. StoreFails(h) \/ SetResource(h)
      BY <1>2 DEF Store
    <3>2. CASE StoreFails(h)
      BY <1>i, <2>3, <3>2
         DEF StoreFails, Answer, Idle, WrittenInv, AnnouncedWasStored, TypeOK
    <3> QED BY <2>2, <3>1, <3>2
  <2> QED BY <1>2, <2>2, <2>3 DEF Store, StoreFails
<1>3. CASE Publish(h) \/ PublishFails(h)
  <2>1. requests[h] \in Setting /\ requests[h].perm \in written[requests[h].key]
    BY <1>3, RequestType DEF Publish, PublishFails, TypeOK, WrittenInv
  <2>2. \A g \in Requests : requests'[g].pc = "stored" => requests'[g] = requests[g]
    BY <1>3, <2>1 DEF Publish, PublishFails, Goto, TypeOK, Setting
  <2>3. AnnouncedWasStored'
    BY <1>3, <2>1, SendWritten
       DEF Publish, PublishFails, WrittenInv, AnnouncedWasStored, Setting
  <2>4. UNCHANGED <<entries, written>>
    BY <1>3 DEF Publish, PublishFails, SendPermissions
  <2> QED BY <1>i, <2>2, <2>3, <2>4 DEF WrittenInv
<1>4. CASE NotifyError(h)
  BY <1>4, <1>i DEF NotifyError, Answer, Idle, WrittenInv, AnnouncedWasStored, TypeOK
<1>5. CASE Mark(h)
  <2>1. requests[h].key \in Keys
    BY <1>5, RequestType DEF Mark, TypeOK, Setting
  <2>2. \A k \in Keys : entries'[k] # NoEntry => entries'[k].perm \in written[k]
    BY <1>5, <2>1, MarkKeepsPerm DEF Mark, WrittenInv
  <2>3. UNCHANGED <<latest, written>>
    BY <1>5 DEF Mark, MarkResourceAsSynced
  <2>4. \A g \in Requests : requests'[g].pc = "stored" => requests'[g] = requests[g]
    BY <1>5 DEF Mark, Answer, Idle, TypeOK
  <2> QED BY <1>i, <2>2, <2>3, <2>4 DEF WrittenInv, AnnouncedWasStored
<1>6. ASSUME NEW t \in Topics, NEW config \in Settings[t], SetTopic(h, t, config)
      PROVE WrittenInv'
  BY <1>6, <1>i DEF SetTopic, WrittenInv, AnnouncedWasStored, TypeOK
<1>7. CASE WriteSetTopic(h)
  BY <1>7, <1>i
     DEF WriteSetTopic, WriteTopic, Answer, Idle, WrittenInv, AnnouncedWasStored, TypeOK
<1>8. ASSUME NEW t \in Topics, RemoveTopic(h, t)
      PROVE WrittenInv'
  BY <1>8, <1>i DEF RemoveTopic, WriteTopic, WrittenInv, AnnouncedWasStored, TypeOK
<1>9. CASE ScanEntries(h)
  BY <1>9, <1>i DEF ScanEntries, WrittenInv, AnnouncedWasStored, TypeOK
<1>10. ASSUME NEW r \in Resources, RemoveEntry(h, r)
       PROVE WrittenInv'
  <2>1. requests[h] \in Removing
    BY <1>10, RequestType DEF RemoveEntry, TypeOK
  <2>2. \A g \in Requests : requests'[g].pc = "stored" => requests'[g] = requests[g]
    BY <1>10, <2>1 DEF RemoveEntry, TypeOK, Removing
  <2>3. \A k \in Keys : entries'[k] # NoEntry => entries'[k] = entries[k]
    BY <1>10 DEF RemoveEntry, TypeOK
  <2> QED BY <1>10, <1>i, <2>2, <2>3 DEF RemoveEntry, WrittenInv, AnnouncedWasStored
<1>11. CASE RemoveTopicEnds(h)
  BY <1>11, <1>i DEF RemoveTopicEnds, Answer, Idle, WrittenInv, AnnouncedWasStored, TypeOK
<1> QED
  BY <1>1, <1>2, <1>3, <1>4, <1>5, <1>6, <1>7, <1>8, <1>9, <1>10, <1>11,
     InputType
     DEF RequestStep

\* The pass goes on with a part of the items it had.
LEMMA RetryNextItems ==
    ASSUME retry \in Retry, retry.pc \in {"publish", "mark"}, RetryNext
    PROVE  RetryItems' \subseteq RetryItems
BY DEF RetryNext, RetryItems

LEMMA RetryStepWritten ==
    ASSUME TypeOK, WrittenInv, RetryStep
    PROVE  WrittenInv'
<1> USE DEF db, history
<1>r. UNCHANGED requests
  BY DEF RetryStep, RetryList, RetryGetTopic, RetrySkip, RetryPublish,
         RetryPublishFails, RetryMark, RetryMarkFails, RetryEnds
<1>1. CASE RetryList
  <2>1. \A i \in RetryItems' : i.perm \in written[i.key]
    BY <1>1 DEF RetryList, RetryItems, WrittenInv, Unsynced
  <2> QED BY <1>1, <1>r, <2>1 DEF RetryList, WrittenInv, AnnouncedWasStored
<1>2. ASSUME NEW i \in Item, RetryGetTopic(i) \/ RetrySkip(i)
      PROVE WrittenInv'
  <2>1. retry \in [pc : {"next"}, todo : SUBSET Item]
    BY <1>2, RetryType DEF RetryGetTopic, RetrySkip, TypeOK
  <2>2. RetryItems' \subseteq RetryItems
    BY <1>2, <2>1 DEF RetryGetTopic, RetrySkip, RetryItems
  <2> QED BY <1>2, <1>r, <2>2
          DEF RetryGetTopic, RetrySkip, WrittenInv, AnnouncedWasStored
<1>3. CASE RetryPublish \/ RetryPublishFails
  <2>1. retry \in [pc : {"publish", "mark"}, todo : SUBSET Item,
                   item : Item, chan : Configs]
    BY <1>3, RetryType DEF RetryPublish, RetryPublishFails, TypeOK
  <2>2. RetryItems' \subseteq RetryItems
    BY <1>3, <2>1 DEF RetryPublish, RetryPublishFails, RetryNext, RetryItems
  <2>3. /\ retry.item.key \in Keys /\ retry.chan \in Configs
        /\ retry.item.perm \in written[retry.item.key]
    <3>1. retry.item \in RetryItems
      BY <1>3 DEF RetryPublish, RetryPublishFails, RetryItems
    <3> QED BY <2>1, <3>1 DEF Item, WrittenInv
  <2>4. AnnouncedWasStored'
    BY <1>3, <2>3, SendWritten
       DEF RetryPublish, RetryPublishFails, WrittenInv, AnnouncedWasStored
  <2>5. UNCHANGED <<entries, written>>
    BY <1>3 DEF RetryPublish, RetryPublishFails, SendPermissions
  <2> QED BY <1>r, <2>2, <2>4, <2>5 DEF WrittenInv
<1>4. CASE RetryMark \/ RetryMarkFails
  <2>1. retry \in [pc : {"publish", "mark"}, todo : SUBSET Item,
                   item : Item, chan : Configs]
    BY <1>4, RetryType DEF RetryMark, RetryMarkFails, TypeOK
  <2>2. RetryItems' \subseteq RetryItems
    BY <1>4, RetryNextItems DEF RetryMark, RetryMarkFails, TypeOK
  <2>3. \A k \in Keys : entries'[k] # NoEntry => entries'[k].perm \in written[k]
    BY <1>4, <2>1, MarkKeepsPerm DEF RetryMark, RetryMarkFails, WrittenInv, Item
  <2>4. UNCHANGED <<latest, written>>
    BY <1>4 DEF RetryMark, RetryMarkFails, MarkResourceAsSynced
  <2> QED BY <1>r, <2>2, <2>3, <2>4 DEF WrittenInv, AnnouncedWasStored
<1>5. CASE RetryEnds
  <2>1. RetryItems' = {}
    BY <1>5 DEF RetryEnds, RetryItems, Idle
  <2> QED BY <1>5, <1>r, <2>1 DEF RetryEnds, WrittenInv, AnnouncedWasStored
<1> QED BY <1>1, <1>2, <1>3, <1>4, <1>5 DEF RetryStep

LEMMA NextWritten == TypeOK /\ WrittenInv /\ [Next]_vars => WrittenInv'
<1> SUFFICES ASSUME TypeOK, WrittenInv, [Next]_vars PROVE WrittenInv'
  OBVIOUS
<1> USE DEF db, history
<1>1. ASSUME NEW h \in Requests, RequestStep(h) PROVE WrittenInv'
  BY <1>1, RequestStepWritten
<1>2. CASE RetryStep
  BY <1>2, RetryStepWritten
<1>3. ASSUME NEW k \in Keys, RemoveResource(k) PROVE WrittenInv'
  <2>1. \A j \in Keys : entries'[j] # NoEntry => entries'[j] = entries[j]
    BY <1>3 DEF RemoveResource, TypeOK
  <2> QED BY <1>3, <2>1 DEF RemoveResource, WrittenInv, AnnouncedWasStored, RetryItems
<1>4. ASSUME NEW k \in Keys, Age(k) PROVE WrittenInv'
  <2>1. \A j \in Keys : entries'[j] # NoEntry =>
          entries[j] # NoEntry /\ entries'[j].perm = entries[j].perm
    BY <1>4 DEF Age, TypeOK, Entry
  <2> QED BY <1>4, <2>1 DEF Age, WrittenInv, AnnouncedWasStored, RetryItems
<1>5. ASSUME NEW t \in Topics, RemoveTopicFails(t) PROVE WrittenInv'
  BY <1>5 DEF RemoveTopicFails, WriteTopic, WrittenInv, AnnouncedWasStored, RetryItems
<1>6. CASE Crash
  BY <1>6 DEF Crash, Idle, WrittenInv, AnnouncedWasStored, RetryItems, TypeOK
<1>7. CASE UNCHANGED vars
  BY <1>7 DEF vars, WrittenInv, AnnouncedWasStored, RetryItems
<1> QED BY <1>1, <1>2, <1>3, <1>4, <1>5, <1>6, <1>7 DEF Next

(***************************************************************************)
(* Every record of every channel was stored before it was announced,       *)
(* whatever fails or restarts: publishing comes after SetResource in       *)
(* setPermission, and the retry pass publishes what it read from the       *)
(* store.  WrittenInv is the strengthening: it speaks of what requests and *)
(* the pass still hold, which survives the removal of the entry.           *)
(***************************************************************************)
THEOREM AnnouncedIsStored == Spec => []AnnouncedWasStored
<1>1. Init => TypeOK
  BY DEF Init, TypeOK, Request, Retry, Idle
<1>2. Init => WrittenInv
  BY DEF Init, WrittenInv, AnnouncedWasStored, RetryItems, Idle
<1>3. WrittenInv => AnnouncedWasStored
  BY DEF WrittenInv
<1> QED BY <1>1, <1>2, <1>3, NextType, NextWritten, PTL DEF Spec

-----------------------------------------------------------------------------
(***************************************************************************)
(* A synced entry whose last write has not raced is the channel's last     *)
(* word.                                                                   *)
(***************************************************************************)

\* SetPermission publishes only for a topic with a channel.
LEMMA NextChannel == TypeOK /\ ChannelInv /\ [Next]_vars => ChannelInv'
<1> SUFFICES ASSUME TypeOK, ChannelInv, [Next]_vars, NEW g \in Requests,
                    requests'[g].pc \in {"stored", "published"}
             PROVE  requests'[g].chan \in Channels
  BY DEF ChannelInv
<1>1. CASE requests'[g] = requests[g]
  BY <1>1 DEF ChannelInv
<1>2. ASSUME requests'[g] # requests[g], RequestStep(g)
      PROVE  requests'[g].chan \in Channels
  <2>1. Store(g) \/ Publish(g)
    <3>1. ~PublishFails(g)
      BY RequestType DEF PublishFails, Goto, TypeOK, Setting
    <3>2. ASSUME NEW r \in Resources PROVE ~RemoveEntry(g, r)
      BY RequestType DEF RemoveEntry, TypeOK, Removing
    <3>3. ~(StoreFails(g) \/ NotifyError(g) \/ Mark(g) \/ WriteSetTopic(g)
             \/ RemoveTopicEnds(g))
      BY DEF StoreFails, NotifyError, Mark, WriteSetTopic, RemoveTopicEnds,
             Answer, Idle, TypeOK
    <3>4. /\ ~\E k \in Keys, p \in Perms : SetPermission(g, k, p)
          /\ ~\E t \in Topics : \E config \in Settings[t] : SetTopic(g, t, config)
          /\ ~\E t \in Topics : RemoveTopic(g, t)
          /\ ~ScanEntries(g)
      BY DEF SetPermission, SetTopic, RemoveTopic, ScanEntries, TypeOK
    <3> QED BY <1>2, <3>1, <3>2, <3>3, <3>4, InputType DEF RequestStep
  <2>2. requests[g] \in Setting
    BY <2>1, RequestType DEF Store, Publish, TypeOK
  <2>3. CASE Store(g)
    <3>1. requests[g].chan # NoPublish
      BY <2>3 DEF Store, Answer, Idle, TypeOK
    <3>2. requests'[g].chan = requests[g].chan
      BY <2>2, <2>3, <3>1 DEF Store, Goto, TypeOK, Setting
    <3> QED BY <2>2, <3>1, <3>2 DEF Setting, Configs
  <2>4. CASE Publish(g)
    <3>1. requests'[g].chan = requests[g].chan
      BY <2>2, <2>4 DEF Publish, Goto, TypeOK, Setting
    <3> QED BY <2>4, <3>1 DEF Publish, ChannelInv
  <2> QED BY <2>1, <2>3, <2>4
<1>3. ASSUME NEW h \in Requests, h # g, RequestStep(h)
      PROVE  requests'[g] = requests[g]
  BY <1>3 DEF RequestStep, SetPermission, Store, StoreFails, Publish, PublishFails,
       NotifyError, Mark, SetTopic, WriteSetTopic, RemoveTopic, ScanEntries,
       RemoveEntry, RemoveTopicEnds, Goto, Answer, TypeOK
<1>4. CASE RetryStep
  BY <1>1, <1>4 DEF RetryStep, RetryList, RetryGetTopic, RetrySkip, RetryPublish,
         RetryPublishFails, RetryMark, RetryMarkFails, RetryEnds
<1>5. ASSUME NEW k \in Keys, RemoveResource(k) \/ Age(k) PROVE requests' = requests
  BY <1>5 DEF RemoveResource, Age
<1>6. ASSUME NEW t \in Topics, RemoveTopicFails(t) PROVE requests' = requests
  BY <1>6 DEF RemoveTopicFails
<1>7. ~Crash
  BY DEF Crash, Idle
<1>8. CASE UNCHANGED vars
  BY <1>1, <1>8 DEF vars
<1> QED BY <1>1, <1>2, <1>3, <1>4, <1>5, <1>6, <1>7, <1>8 DEF Next

\* The step does not rewrite the entry, and what it does to the channel and to
\* the requests is on behalf of the entry's content.
Keeps(k) ==
    /\ isolated[k] /\ entries[k] # NoEntry
    /\ entries'[k] # NoEntry
    /\ entries'[k].perm = entries[k].perm
    /\ topics'[TopicOf(k)] = topics[TopicOf(k)]
    /\ topics[TopicOf(k)] \in Channels =>
         LatestOf(k)' = LatestOf(k) \/ LatestOf(k)' = entries[k].perm
    /\ entries'[k].synced /\ topics[TopicOf(k)] \in Channels =>
         entries[k].synced \/ LatestOf(k)' = entries[k].perm
    /\ \A h \in Requests : InFlight(h, k)' =>
         /\ InFlight(h, k)
         /\ requests'[h].perm = requests[h].perm
         /\ requests'[h].chan = requests[h].chan
         /\ \/ requests'[h].pc = requests[h].pc
            \/ LatestOf(k)' = entries[k].perm

LEMMA KeepsRetry ==
    ASSUME TypeOK, IsolationInv, NEW k \in Keys, Keeps(k),
           \/ retry' = retry
           \/ RetryItems' \subseteq RetryItems /\ retry'.pc \in {"idle", "next"}
    PROVE  RetryAgrees(k)'
<1>1. RetryAgrees(k)
  BY DEF IsolationInv, EntryAgrees, Keeps
<1>2. CASE retry' = retry
  <2>1. RetryItems' = RetryItems
    BY <1>2 DEF RetryItems
  <2> QED BY <1>1, <1>2, <2>1 DEF RetryAgrees, Keeps, Published
<1>3. CASE RetryItems' \subseteq RetryItems /\ retry'.pc \in {"idle", "next"}
  BY <1>1, <1>3 DEF RetryAgrees, Keeps
<1> QED BY <1>2, <1>3

LEMMA KeepsEntry ==
    ASSUME TypeOK, ChannelInv, IsolationInv, NEW k \in Keys, Keeps(k), RetryAgrees(k)'
    PROVE  EntryAgrees(k)'
<1>1. EntryAgrees(k)
  BY DEF IsolationInv, Keeps
<1>2. ASSUME NEW h \in Requests PROVE RequestAgrees(h, k)'
  <2> SUFFICES ASSUME InFlight(h, k)'
               PROVE  /\ requests'[h].perm = entries'[k].perm
                      /\ requests'[h].chan = topics'[TopicOf(k)]
                      /\ requests'[h].pc = "published" => LatestOf(k)' = entries'[k].perm
    BY DEF RequestAgrees
  <2>1. InFlight(h, k) /\ RequestAgrees(h, k)
    BY <1>1 DEF Keeps, EntryAgrees
  <2>2. topics[TopicOf(k)] \in Channels
    BY <2>1 DEF RequestAgrees, InFlight, ChannelInv
  <2> QED BY <2>1, <2>2 DEF Keeps, RequestAgrees
<1>3. Published(k)' /\ entries'[k].synced => LatestOf(k)' = entries'[k].perm
  BY <1>1 DEF Keeps, EntryAgrees, Published
<1> QED BY <1>2, <1>3 DEF EntryAgrees

\* A record of another entry is not this entry's last word, unless it is one of
\* another topic on the same channel: then the entry is not isolated any more.
LEMMA SendLatest ==
    ASSUME TypeOK, NEW j \in Keys, NEW k \in Keys, NEW chan \in Channels,
           NEW perm \in Perms, SendPermissions(j, chan, perm),
           isolated'[k], topics[TopicOf(k)] \in Channels
    PROVE  \/ LatestOf(k)' = LatestOf(k)
           \/ j = k /\ chan = topics[TopicOf(k)] /\ LatestOf(k)' = perm
<1>1. ResourceOf(k) \in Resources /\ ResourceOf(j) \in Resources
  BY DEF Keys, ResourceOf
<1>2. CASE <<topics[TopicOf(k)], ResourceOf(k)>> = <<chan, ResourceOf(j)>>
  <2>1. TopicOf(j) = TopicOf(k)
    BY <1>2 DEF SendPermissions
  <2>2. j = k
    BY <1>2, <2>1 DEF Keys, TopicOf, ResourceOf
  <2>3. LatestOf(k)' = perm
    BY <1>1, <1>2 DEF SendPermissions, LatestOf, TypeOK
  <2> QED BY <1>2, <2>2, <2>3
<1>3. CASE <<topics[TopicOf(k)], ResourceOf(k)>> # <<chan, ResourceOf(j)>>
  BY <1>1, <1>3 DEF SendPermissions, LatestOf, TypeOK
<1> QED BY <1>2, <1>3

\* What a send leaves as it is, for an entry that stays isolated.
LEMMA SendKeeps ==
    ASSUME TypeOK, NEW j \in Keys, NEW k \in Keys, NEW chan \in Configs,
           NEW perm \in Perms, SendPermissions(j, chan, perm), isolated'[k]
    PROVE  isolated[k] /\ UNCHANGED <<topics, entries>>
BY DEF SendPermissions, TypeOK

\* SetResource makes the entry's state by itself.
LEMMA SetResourceIsolation ==
    ASSUME TypeOK, ChannelInv, IsolationInv, NEW h \in Requests,
           requests[h] \in Setting, SetResource(h), latest' = latest, retry' = retry,
           \A g \in Requests \ {h} : requests'[g] = requests[g],
           \/ requests'[h].pc = "idle"
           \/ /\ requests'[h].pc = "stored"
              /\ requests'[h].key = requests[h].key
              /\ requests'[h].perm = requests[h].perm
              /\ requests'[h].chan = requests[h].chan,
           requests[h].pc = "checked"
    PROVE  IsolationInv'
<1> SUFFICES ASSUME NEW k \in Keys, isolated'[k], entries'[k] # NoEntry
             PROVE  EntryAgrees(k)'
  BY DEF IsolationInv
<1>1. requests[h].key \in Keys
  BY DEF Setting
<1>2. topics' = topics /\ RetryItems' = RetryItems
  BY DEF SetResource, RetryItems
<1>3. CASE k = requests[h].key
  <2>1. /\ entries'[k] = [perm |-> requests[h].perm,
                          synced |-> requests[h].chan = NoPublish, aged |-> FALSE]
        /\ \A g \in Requests \ {h} : ~InFlight(g, k)
        /\ ~RetryHolds(k)
        /\ topics[TopicOf(k)] = requests[h].chan
    BY <1>1, <1>3 DEF SetResource, TypeOK
  <2>2. ASSUME NEW g \in Requests PROVE RequestAgrees(g, k)'
    <3>1. CASE g = h
      BY <1>2, <1>3, <2>1, <3>1 DEF RequestAgrees, InFlight
    <3>2. CASE g # h
      BY <2>1, <3>2 DEF RequestAgrees, InFlight
    <3> QED BY <3>1, <3>2
  <2>3. RetryAgrees(k)'
    <3>1. \A i \in RetryItems' : i.key # k
      BY <1>2, <2>1 DEF RetryHolds
    <3>2. retry.pc \in {"publish", "mark"} => retry.item \in RetryItems
      BY DEF RetryItems
    <3> QED BY <1>2, <3>1, <3>2 DEF RetryAgrees
  <2>4. ~(Published(k)' /\ entries'[k].synced)
    <3>1. entries'[k].synced = (requests[h].chan = NoPublish)
      BY <2>1
    <3>2. Published(k)' => requests[h].chan \in Channels
      BY <1>2, <2>1 DEF Published
    <3> QED BY <3>1, <3>2, ConfigAssumption
  <2> QED BY <2>2, <2>3, <2>4 DEF EntryAgrees
<1>4. CASE k # requests[h].key
  <2>1. /\ entries'[k] = entries[k] /\ isolated[k]
        /\ LatestOf(k)' = LatestOf(k)
    BY <1>1, <1>2, <1>4 DEF SetResource, TypeOK, LatestOf
  <2>2. ASSUME NEW g \in Requests, InFlight(g, k)'
        PROVE  requests'[g] = requests[g] /\ InFlight(g, k)
    BY <1>4, <2>2 DEF InFlight
  <2>3. Keeps(k)
    BY <1>2, <2>1, <2>2 DEF Keeps
  <2> QED BY <2>3, KeepsRetry, KeepsEntry
<1> QED BY <1>3, <1>4

\* A request that sends its record before it marks or gives up.
LEMMA SendIsolation ==
    ASSUME TypeOK, ChannelInv, IsolationInv, NEW h \in Requests,
           requests[h] \in Setting, requests[h].pc = "stored", retry' = retry,
           SendPermissions(requests[h].key, requests[h].chan, requests[h].perm),
           \E pc \in {"published", "notifying"} : Goto(h, pc)
    PROVE  IsolationInv'
<1> SUFFICES ASSUME NEW k \in Keys, isolated'[k], entries'[k] # NoEntry
             PROVE  EntryAgrees(k)'
  BY DEF IsolationInv
<1>1. /\ requests[h].key \in Keys /\ requests[h].perm \in Perms
      /\ requests[h].chan \in Channels
  BY DEF Setting, ChannelInv
<1>2. isolated[k] /\ topics' = topics /\ entries' = entries
  BY <1>1, SendKeeps DEF Configs
<1>3. /\ requests'[h].key = requests[h].key
      /\ requests'[h].perm = requests[h].perm
      /\ requests'[h].chan = requests[h].chan
      /\ \A g \in Requests \ {h} : requests'[g] = requests[g]
  BY DEF Goto, TypeOK, Setting
<1>4. EntryAgrees(k)
  BY <1>2 DEF IsolationInv
<1>5. InFlight(h, k) => LatestOf(k)' = entries[k].perm
  <2> SUFFICES ASSUME InFlight(h, k) PROVE LatestOf(k)' = entries[k].perm
    OBVIOUS
  <2>1. /\ requests[h].key = k /\ requests[h].perm = entries[k].perm
        /\ requests[h].chan = topics[TopicOf(k)]
    BY <1>4 DEF EntryAgrees, RequestAgrees, InFlight
  <2>2. LatestOf(k)' = requests[h].perm
    BY <1>1, <1>2, <2>1 DEF SendPermissions, LatestOf, TypeOK, Keys, ResourceOf
  <2> QED BY <2>1, <2>2
<1>6. topics[TopicOf(k)] \in Channels =>
        LatestOf(k)' = LatestOf(k) \/ LatestOf(k)' = entries[k].perm
  BY <1>1, <1>5, SendLatest DEF InFlight
<1>7. ASSUME NEW g \in Requests, InFlight(g, k)'
      PROVE  /\ InFlight(g, k)
             /\ requests'[g].perm = requests[g].perm
             /\ requests'[g].chan = requests[g].chan
             /\ requests'[g].pc = requests[g].pc \/ LatestOf(k)' = entries[k].perm
  BY <1>3, <1>5, <1>7 DEF InFlight
<1>8. Keeps(k)
  BY <1>2, <1>6, <1>7 DEF Keeps
<1> QED BY <1>8, KeepsRetry, KeepsEntry

\* A mark makes an entry synced that its worker has announced.
LEMMA MarkIsolation ==
    ASSUME TypeOK, NEW j \in Keys, MarkResourceAsSynced(j), latest' = latest,
           NEW k \in Keys, entries'[k] # NoEntry
    PROVE  /\ entries[k] # NoEntry /\ entries'[k].perm = entries[k].perm
           /\ isolated' = isolated /\ topics' = topics
           /\ LatestOf(k)' = LatestOf(k)
           /\ j # k => entries'[k] = entries[k]
<1>1. entries[k] # NoEntry /\ entries'[k].perm = entries[k].perm
  BY MarkKeepsPerm
<1>2. isolated' = isolated /\ topics' = topics /\ LatestOf(k)' = LatestOf(k)
  BY DEF MarkResourceAsSynced, LatestOf, history
<1>3. j # k => entries'[k] = entries[k]
  BY DEF MarkResourceAsSynced, TypeOK
<1> QED BY <1>1, <1>2, <1>3

\* Steps that only move requests that have nothing in flight afterwards.
LEMMA QuietIsolation ==
    ASSUME TypeOK, ChannelInv, IsolationInv, latest' = latest,
           \/ retry' = retry
           \/ RetryItems' \subseteq RetryItems /\ retry'.pc \in {"idle", "next"},
           \A g \in Requests : \/ requests'[g] = requests[g]
                               \/ requests'[g].pc \notin {"stored", "published"},
           \A k \in Keys : isolated'[k] /\ entries'[k] # NoEntry =>
               /\ isolated[k] /\ entries[k] # NoEntry
               /\ entries'[k].perm = entries[k].perm
               /\ entries'[k].synced => entries[k].synced
               /\ topics'[TopicOf(k)] = topics[TopicOf(k)]
    PROVE  IsolationInv'
<1> SUFFICES ASSUME NEW k \in Keys, isolated'[k], entries'[k] # NoEntry
             PROVE  EntryAgrees(k)'
  BY DEF IsolationInv
<1>1. LatestOf(k)' = LatestOf(k)
  BY DEF LatestOf
<1>2. Keeps(k)
  BY <1>1 DEF Keeps, InFlight
<1> QED BY <1>2, KeepsRetry, KeepsEntry

LEMMA WriteTopicKeeps ==
    ASSUME TypeOK, NEW t, NEW config, WriteTopic(t, config),
           NEW k \in Keys, isolated'[k]
    PROVE  /\ isolated[k] /\ entries' = entries
           /\ topics'[TopicOf(k)] = topics[TopicOf(k)]
<1>1. isolated'[k] = (isolated[k] /\ TopicOf(k) # t)
  BY DEF WriteTopic
<1>2. TopicOf(k) \in Topics
  BY DEF Keys, TopicOf
<1> QED BY <1>1, <1>2 DEF WriteTopic, TypeOK

LEMMA RequestStepIsolation ==
    ASSUME TypeOK, ChannelInv, IsolationInv, NEW h \in Requests, RequestStep(h)
    PROVE  IsolationInv'
<1> USE DEF db, history
<1>1. ASSUME NEW k \in Keys, NEW p \in Perms, SetPermission(h, k, p)
      PROVE IsolationInv'
  <2>1. \A g \in Requests : \/ requests'[g] = requests[g]
                            \/ requests'[g].pc \notin {"stored", "published"}
    BY <1>1 DEF SetPermission, TypeOK
  <2> QED BY <1>1, <2>1, QuietIsolation DEF SetPermission
<1>2. CASE Store(h) \/ StoreFails(h)
  <2>1. requests[h] \in Setting /\ requests[h].pc = "checked"
    BY <1>2, RequestType DEF Store, StoreFails, TypeOK
  <2>2. /\ \A g \in Requests \ {h} : requests'[g] = requests[g]
        /\ UNCHANGED <<latest, retry>>
    BY <1>2 DEF Store, StoreFails, Answer, Goto, TypeOK
  <2>3. \/ requests'[h].pc = "idle"
        \/ /\ requests'[h].pc = "stored"
           /\ requests'[h].key = requests[h].key
           /\ requests'[h].perm = requests[h].perm
           /\ requests'[h].chan = requests[h].chan
    BY <1>2, <2>1 DEF Store, StoreFails, Answer, Goto, Idle, TypeOK, Setting
  <2>4. CASE SetResource(h)
    BY <2>1, <2>2, <2>3, <2>4, SetResourceIsolation
  <2>5. CASE StoreFails(h) /\ UNCHANGED <<db, history>>
    <3>1. requests'[h].pc = "idle"
      BY <2>5 DEF StoreFails, Answer, Idle, TypeOK
    <3> QED BY <2>2, <2>5, <3>1, QuietIsolation
  <2> QED BY <1>2, <2>4, <2>5 DEF Store, StoreFails
<1>3. CASE Publish(h) \/ PublishFails(h)
  <2>1. requests[h] \in Setting /\ requests[h].pc = "stored" /\ retry' = retry
    BY <1>3, RequestType DEF Publish, PublishFails, TypeOK
  <2>2. \E pc \in {"published", "notifying"} : Goto(h, pc)
    BY <1>3 DEF Publish, PublishFails
  <2>3. CASE SendPermissions(requests[h].key, requests[h].chan, requests[h].perm)
    BY <2>1, <2>2, <2>3, SendIsolation
  <2>4. CASE PublishFails(h) /\ UNCHANGED <<db, latest, history>>
    <3>1. requests'[h].pc = "notifying"
      BY <2>1, <2>4 DEF PublishFails, Goto, TypeOK, Setting
    <3>2. \A g \in Requests \ {h} : requests'[g] = requests[g]
      BY <2>4 DEF PublishFails, Goto, TypeOK
    <3> QED BY <2>1, <2>4, <3>1, <3>2, QuietIsolation
  <2> QED BY <1>3, <2>3, <2>4 DEF Publish, PublishFails
<1>4. CASE NotifyError(h) \/ RemoveTopicEnds(h)
  <2>1. \A g \in Requests : \/ requests'[g] = requests[g]
                            \/ requests'[g].pc \notin {"stored", "published"}
    BY <1>4 DEF NotifyError, RemoveTopicEnds, Answer, Idle, TypeOK
  <2> QED BY <1>4, <2>1, QuietIsolation DEF NotifyError, RemoveTopicEnds
<1>5. CASE Mark(h)
  <2>1. requests[h] \in Setting /\ requests[h].key \in Keys
    BY <1>5, RequestType DEF Mark, TypeOK, Setting
  <2>2. /\ requests'[h].pc = "idle"
        /\ \A g \in Requests \ {h} : requests'[g] = requests[g]
        /\ UNCHANGED <<latest, retry>>
    BY <1>5 DEF Mark, Answer, Idle, TypeOK
  <2>3. CASE UNCHANGED <<db, history>>
    BY <2>2, <2>3, QuietIsolation
  <2>4. CASE MarkResourceAsSynced(requests[h].key)
    <3> SUFFICES ASSUME NEW k \in Keys, isolated'[k], entries'[k] # NoEntry
                 PROVE  EntryAgrees(k)'
      BY DEF IsolationInv
    <3>1. /\ isolated[k] /\ entries[k] # NoEntry
          /\ entries'[k].perm = entries[k].perm
          /\ topics' = topics /\ LatestOf(k)' = LatestOf(k)
          /\ requests[h].key # k => entries'[k] = entries[k]
      BY <2>1, <2>2, <2>4, MarkIsolation
    <3>2. requests[h].key = k => LatestOf(k) = entries[k].perm
      BY <1>5, <3>1 DEF Mark, IsolationInv, EntryAgrees, RequestAgrees, InFlight
    <3>3. ASSUME NEW g \in Requests, InFlight(g, k)'
          PROVE  requests'[g] = requests[g] /\ InFlight(g, k)
      BY <2>2, <3>3 DEF InFlight
    <3>4. Keeps(k)
      BY <3>1, <3>2, <3>3 DEF Keeps
    <3> QED BY <2>2, <3>4, KeepsRetry, KeepsEntry
  <2> QED BY <1>5, <2>3, <2>4 DEF Mark
<1>6. ASSUME NEW t \in Topics, NEW config \in Settings[t], SetTopic(h, t, config)
      PROVE IsolationInv'
  <2>1. \A g \in Requests : \/ requests'[g] = requests[g]
                            \/ requests'[g].pc \notin {"stored", "published"}
    BY <1>6 DEF SetTopic, TypeOK
  <2> QED BY <1>6, <2>1, QuietIsolation DEF SetTopic
<1>7. CASE WriteSetTopic(h)
  <2>1. \A g \in Requests : \/ requests'[g] = requests[g]
                            \/ requests'[g].pc \notin {"stored", "published"}
    BY <1>7 DEF WriteSetTopic, Answer, Idle, TypeOK
  <2>2. \A k \in Keys : isolated'[k] /\ entries'[k] # NoEntry =>
          isolated[k] /\ entries'[k] = entries[k] /\ topics'[TopicOf(k)] = topics[TopicOf(k)]
    BY <1>7, WriteTopicKeeps DEF WriteSetTopic
  <2> QED BY <1>7, <2>1, <2>2, QuietIsolation DEF WriteSetTopic
<1>8. ASSUME NEW t \in Topics, RemoveTopic(h, t)
      PROVE IsolationInv'
  <2>1. \A g \in Requests : \/ requests'[g] = requests[g]
                            \/ requests'[g].pc \notin {"stored", "published"}
    BY <1>8 DEF RemoveTopic, TypeOK
  <2>2. \A k \in Keys : isolated'[k] /\ entries'[k] # NoEntry =>
          isolated[k] /\ entries'[k] = entries[k] /\ topics'[TopicOf(k)] = topics[TopicOf(k)]
    BY <1>8, WriteTopicKeeps DEF RemoveTopic
  <2> QED BY <1>8, <2>1, <2>2, QuietIsolation DEF RemoveTopic
<1>9. CASE ScanEntries(h)
  <2>1. \A g \in Requests : \/ requests'[g] = requests[g]
                            \/ requests'[g].pc \notin {"stored", "published"}
    BY <1>9 DEF ScanEntries, TypeOK
  <2> QED BY <1>9, <2>1, QuietIsolation DEF ScanEntries
<1>10. ASSUME NEW r \in Resources, RemoveEntry(h, r)
       PROVE IsolationInv'
  <2>1. \A g \in Requests : \/ requests'[g] = requests[g]
                            \/ requests'[g].pc \notin {"stored", "published"}
    <3>1. requests[h] \in Removing
      BY <1>10, RequestType DEF RemoveEntry, TypeOK
    <3>2. requests'[h].pc = "removing"
      BY <1>10, <3>1 DEF RemoveEntry, TypeOK, Removing
    <3>3. \A g \in Requests \ {h} : requests'[g] = requests[g]
      BY <1>10 DEF RemoveEntry, TypeOK
    <3> QED BY <3>2, <3>3
  <2>2. \A k \in Keys : entries'[k] # NoEntry => entries'[k] = entries[k]
    BY <1>10 DEF RemoveEntry, TypeOK
  <2> QED BY <1>10, <2>1, <2>2, QuietIsolation DEF RemoveEntry
<1> QED
  BY <1>1, <1>2, <1>3, <1>4, <1>5, <1>6, <1>7, <1>8, <1>9, <1>10, InputType
     DEF RequestStep

\* The retry pass sends the entry's content to the entry's channel.
LEMMA RetrySendLatest ==
    ASSUME TypeOK, IsolationInv, retry.pc = "publish", retry.chan # NoPublish,
           SendPermissions(retry.item.key, retry.chan, retry.item.perm),
           NEW k \in Keys, isolated'[k], entries'[k] # NoEntry
    PROVE  /\ isolated[k] /\ UNCHANGED <<topics, entries>>
           /\ topics[TopicOf(k)] \in Channels =>
                LatestOf(k)' = LatestOf(k) \/ LatestOf(k)' = entries[k].perm
           /\ retry.item.key = k /\ topics[TopicOf(k)] \in Channels =>
                LatestOf(k)' = entries[k].perm
<1>1. /\ retry.item.key \in Keys /\ retry.item.perm \in Perms
      /\ retry.chan \in Channels
  BY RetryType DEF TypeOK, Item, Configs
<1>2. isolated[k] /\ topics' = topics /\ entries' = entries
  BY <1>1, SendKeeps DEF Configs
<1>3. RetryAgrees(k)
  BY <1>2 DEF IsolationInv, EntryAgrees
<1>4. ASSUME retry.item.key = k
      PROVE  LatestOf(k)' = entries[k].perm
  <2>1. retry.item \in RetryItems
    BY DEF RetryItems
  <2>2. retry.item.perm = entries[k].perm /\ retry.chan = topics[TopicOf(k)]
    BY <1>3, <1>4, <2>1 DEF RetryAgrees
  <2> QED BY <1>1, <1>2, <1>4, <2>2
          DEF SendPermissions, LatestOf, TypeOK, Keys, ResourceOf
<1>5. topics[TopicOf(k)] \in Channels =>
        LatestOf(k)' = LatestOf(k) \/ LatestOf(k)' = entries[k].perm
  BY <1>1, <1>4, SendLatest
<1> QED BY <1>2, <1>4, <1>5

LEMMA RetryStepIsolation ==
    ASSUME TypeOK, ChannelInv, IsolationInv, RetryStep
    PROVE  IsolationInv'
<1> USE DEF db, history
<1>r. UNCHANGED requests
  BY DEF RetryStep, RetryList, RetryGetTopic, RetrySkip, RetryPublish,
         RetryPublishFails, RetryMark, RetryMarkFails, RetryEnds
<1>1. CASE RetryList
  <2> SUFFICES ASSUME NEW k \in Keys, isolated'[k], entries'[k] # NoEntry
               PROVE  EntryAgrees(k)'
    BY DEF IsolationInv
  <2>1. Keeps(k)
    BY <1>1, <1>r DEF RetryList, Keeps, InFlight, LatestOf
  <2>2. RetryAgrees(k)'
    BY <1>1 DEF RetryList, RetryAgrees, RetryItems
  <2> QED BY <2>1, <2>2, KeepsEntry
<1>2. ASSUME NEW i \in Item, RetryGetTopic(i)
      PROVE IsolationInv'
  <2> SUFFICES ASSUME NEW k \in Keys, isolated'[k], entries'[k] # NoEntry
               PROVE  EntryAgrees(k)'
    BY DEF IsolationInv
  <2>1. Keeps(k)
    BY <1>2, <1>r DEF RetryGetTopic, Keeps, InFlight, LatestOf
  <2>2. RetryItems' = RetryItems
    BY <1>2 DEF RetryGetTopic, RetryItems
  <2>3. RetryAgrees(k)
    BY <2>1 DEF IsolationInv, EntryAgrees, Keeps
  <2>4. RetryAgrees(k)'
    BY <1>2, <2>2, <2>3 DEF RetryGetTopic, RetryAgrees
  <2> QED BY <2>1, <2>4, KeepsEntry
<1>3. ASSUME NEW i \in Item, RetrySkip(i)
      PROVE IsolationInv'
  <2>1. retry \in [pc : {"next"}, todo : SUBSET Item]
    BY <1>3, RetryType DEF RetrySkip, TypeOK
  <2>2. RetryItems' \subseteq RetryItems /\ retry'.pc = "next"
    BY <1>3, <2>1 DEF RetrySkip, RetryItems
  <2> QED BY <1>3, <1>r, <2>2, QuietIsolation DEF RetrySkip
<1>4. CASE RetryPublish
  <2> SUFFICES ASSUME NEW k \in Keys, isolated'[k], entries'[k] # NoEntry
               PROVE  EntryAgrees(k)'
    BY DEF IsolationInv
  <2>1. retry \in [pc : {"publish", "mark"}, todo : SUBSET Item,
                   item : Item, chan : Configs]
    BY <1>4, RetryType DEF RetryPublish, TypeOK
  <2>2. /\ RetryItems' = RetryItems /\ retry'.pc = "mark"
        /\ retry'.item = retry.item /\ retry'.chan = retry.chan
    BY <1>4, <2>1 DEF RetryPublish, RetryItems
  <2>3. CASE retry.chan = NoPublish
    <3>1. Keeps(k)
      BY <1>4, <1>r, <2>3 DEF RetryPublish, Keeps, InFlight, LatestOf
    <3>2. RetryAgrees(k)
      BY <3>1 DEF IsolationInv, EntryAgrees, Keeps
    <3>3. RetryAgrees(k)'
      BY <1>4, <2>2, <2>3, <3>1, <3>2, ConfigAssumption
         DEF RetryPublish, RetryAgrees, Published, Keeps
    <3> QED BY <3>1, <3>3, KeepsEntry
  <2>4. CASE retry.chan # NoPublish
    <3>1. /\ isolated[k] /\ UNCHANGED <<topics, entries>>
          /\ topics[TopicOf(k)] \in Channels =>
               LatestOf(k)' = LatestOf(k) \/ LatestOf(k)' = entries[k].perm
          /\ retry.item.key = k /\ topics[TopicOf(k)] \in Channels =>
               LatestOf(k)' = entries[k].perm
      BY <1>4, <2>4, RetrySendLatest DEF RetryPublish
    <3>2. Keeps(k)
      BY <1>r, <3>1 DEF Keeps, InFlight
    <3>3. RetryAgrees(k)
      BY <3>1 DEF IsolationInv, EntryAgrees
    <3>4. RetryAgrees(k)'
      BY <1>4, <2>2, <3>1, <3>3 DEF RetryPublish, RetryAgrees, Published
    <3> QED BY <3>2, <3>4, KeepsEntry
  <2> QED BY <2>3, <2>4
<1>5. CASE RetryPublishFails
  <2>1. RetryItems' \subseteq RetryItems /\ retry'.pc = "next"
    BY <1>5, RetryNextItems DEF RetryPublishFails, RetryNext, TypeOK
  <2>2. CASE UNCHANGED <<db, latest, history>>
    BY <1>r, <2>1, <2>2, QuietIsolation
  <2>3. CASE SendPermissions(retry.item.key, retry.chan, retry.item.perm)
    <3> SUFFICES ASSUME NEW k \in Keys, isolated'[k], entries'[k] # NoEntry
                 PROVE  EntryAgrees(k)'
      BY DEF IsolationInv
    <3>1. /\ isolated[k] /\ UNCHANGED <<topics, entries>>
          /\ topics[TopicOf(k)] \in Channels =>
               LatestOf(k)' = LatestOf(k) \/ LatestOf(k)' = entries[k].perm
      BY <1>5, <2>3, RetrySendLatest DEF RetryPublishFails
    <3>2. Keeps(k)
      BY <1>r, <3>1 DEF Keeps, InFlight
    <3> QED BY <2>1, <3>2, KeepsRetry, KeepsEntry
  <2> QED BY <1>5, <2>2, <2>3 DEF RetryPublishFails
<1>6. CASE RetryMark
  <2> SUFFICES ASSUME NEW k \in Keys, isolated'[k], entries'[k] # NoEntry
               PROVE  EntryAgrees(k)'
    BY DEF IsolationInv
  <2>1. RetryItems' \subseteq RetryItems /\ retry'.pc = "next"
    BY <1>6, RetryNextItems DEF RetryMark, RetryNext, TypeOK
  <2>2. retry.item.key \in Keys
    BY <1>6, RetryType DEF RetryMark, TypeOK, Item
  <2>3. /\ isolated[k] /\ entries[k] # NoEntry
        /\ entries'[k].perm = entries[k].perm
        /\ topics' = topics /\ LatestOf(k)' = LatestOf(k)
        /\ retry.item.key # k => entries'[k] = entries[k]
    BY <1>6, <2>2, MarkIsolation DEF RetryMark
  <2>4. retry.item.key = k /\ topics[TopicOf(k)] \in Channels =>
          LatestOf(k) = entries[k].perm
    BY <1>6, <2>3 DEF RetryMark, IsolationInv, EntryAgrees, RetryAgrees, Published
  <2>5. Keeps(k)
    BY <1>r, <2>3, <2>4 DEF Keeps, InFlight
  <2> QED BY <2>1, <2>5, KeepsRetry, KeepsEntry
<1>7. CASE RetryMarkFails
  <2>1. RetryItems' \subseteq RetryItems /\ retry'.pc = "next"
    BY <1>7, RetryNextItems DEF RetryMarkFails, RetryNext, TypeOK
  <2> QED BY <1>7, <1>r, <2>1, QuietIsolation DEF RetryMarkFails
<1>8. CASE RetryEnds
  <2>1. RetryItems' \subseteq RetryItems /\ retry'.pc = "idle"
    BY <1>8 DEF RetryEnds, RetryItems, Idle
  <2> QED BY <1>8, <1>r, <2>1, QuietIsolation DEF RetryEnds
<1> QED BY <1>1, <1>2, <1>3, <1>4, <1>5, <1>6, <1>7, <1>8 DEF RetryStep

LEMMA NextIsolation ==
    TypeOK /\ ChannelInv /\ IsolationInv /\ [Next]_vars => IsolationInv'
<1> SUFFICES ASSUME TypeOK, ChannelInv, IsolationInv, [Next]_vars PROVE IsolationInv'
  OBVIOUS
<1> USE DEF db, history
<1>1. ASSUME NEW h \in Requests, RequestStep(h) PROVE IsolationInv'
  BY <1>1, RequestStepIsolation
<1>2. CASE RetryStep
  BY <1>2, RetryStepIsolation
<1>3. ASSUME NEW k \in Keys, RemoveResource(k) PROVE IsolationInv'
  <2>1. \A j \in Keys : entries'[j] # NoEntry => entries'[j] = entries[j]
    BY <1>3 DEF RemoveResource, TypeOK
  <2> QED BY <1>3, <2>1, QuietIsolation DEF RemoveResource
<1>4. ASSUME NEW k \in Keys, Age(k) PROVE IsolationInv'
  <2>1. entries[k] \in Entry
    BY <1>4 DEF Age, TypeOK
  <2>2. \A j \in Keys : entries'[j] # NoEntry =>
          /\ entries[j] # NoEntry
          /\ entries'[j].perm = entries[j].perm /\ entries'[j].synced = entries[j].synced
    BY <1>4, <2>1 DEF Age, TypeOK, Entry
  <2> QED BY <1>4, <2>2, QuietIsolation DEF Age
<1>5. ASSUME NEW t \in Topics, RemoveTopicFails(t) PROVE IsolationInv'
  <2>1. \A k \in Keys : isolated'[k] /\ entries'[k] # NoEntry =>
          isolated[k] /\ entries'[k] = entries[k] /\ topics'[TopicOf(k)] = topics[TopicOf(k)]
    BY <1>5, WriteTopicKeeps DEF RemoveTopicFails
  <2> QED BY <1>5, <2>1, QuietIsolation DEF RemoveTopicFails
<1>6. CASE Crash
  <2>1. RetryItems' \subseteq RetryItems /\ retry'.pc = "idle"
    BY <1>6 DEF Crash, RetryItems, Idle
  <2>2. \A g \in Requests : requests'[g].pc = "idle"
    BY <1>6 DEF Crash, Idle
  <2> QED BY <1>6, <2>1, <2>2, QuietIsolation DEF Crash
<1>7. CASE UNCHANGED vars
  BY <1>7, QuietIsolation DEF vars
<1> QED BY <1>1, <1>2, <1>3, <1>4, <1>5, <1>6, <1>7 DEF Next

(***************************************************************************)
(* synced can be trusted for every entry whose last write has not raced:   *)
(* the last record of its channel is its content.  IsolationInv is the     *)
(* strengthening: on such an entry whoever is still at work, request or    *)
(* retry pass, carries the entry's content and channel, and has sent it    *)
(* when it is about to mark the entry.                                     *)
(***************************************************************************)
THEOREM SyncedIsAnnounced == Spec => []SyncedMatchesFeed
<1>1. Init => TypeOK
  BY DEF Init, TypeOK, Request, Retry, Idle
<1>2. Init => ChannelInv /\ IsolationInv
  BY DEF Init, ChannelInv, IsolationInv, Idle
<1>3. IsolationInv => SyncedMatchesFeed
  BY DEF IsolationInv, EntryAgrees, SyncedMatchesFeed, Published
<1> QED BY <1>1, <1>2, <1>3, NextType, NextChannel, NextIsolation, PTL DEF Spec

\* Only a send changes a channel, and only a write of the topic its config.
LEMMA StaysAnnounced ==
    ASSUME TypeOK, ChannelInv, IsolationInv, Next, NEW k \in Keys,
           isolated[k], Published(k), LatestOf(k) = entries[k].perm, isolated'[k],
           Published(k)'
    PROVE  LatestOf(k)' = entries[k].perm
<1> USE DEF db, history
<1>1. CASE latest' = latest /\ topics'[TopicOf(k)] = topics[TopicOf(k)]
  BY <1>1 DEF LatestOf
<1>2. ASSUME NEW h \in Requests, Publish(h) \/ PublishFails(h)
      PROVE  LatestOf(k)' = entries[k].perm
  <2>1. CASE UNCHANGED <<db, latest, history>>
    BY <1>1, <2>1
  <2>2. CASE SendPermissions(requests[h].key, requests[h].chan, requests[h].perm)
    <3>1. /\ requests[h].key \in Keys /\ requests[h].perm \in Perms
          /\ requests[h].chan \in Channels
      BY <1>2, RequestType DEF Publish, PublishFails, TypeOK, Setting, ChannelInv
    <3>2. requests[h].key = k => requests[h].perm = entries[k].perm
      BY <1>2 DEF Publish, PublishFails, IsolationInv, EntryAgrees, RequestAgrees,
                  InFlight, Published
    <3> QED BY <2>2, <3>1, <3>2, SendLatest DEF Published
  <2> QED BY <1>2, <2>1, <2>2 DEF Publish, PublishFails
<1>3. CASE RetryPublish \/ RetryPublishFails
  <2>1. CASE UNCHANGED <<db, latest, history>>
    BY <1>1, <2>1
  <2>2. CASE /\ retry.pc = "publish" /\ retry.chan # NoPublish
             /\ SendPermissions(retry.item.key, retry.chan, retry.item.perm)
    BY <2>2, RetrySendLatest DEF Published
  <2> QED BY <1>3, <2>1, <2>2 DEF RetryPublish, RetryPublishFails
<1>4. ASSUME NEW h \in Requests, RequestStep(h), ~Publish(h), ~PublishFails(h)
      PROVE  LatestOf(k)' = entries[k].perm
  <2>1. latest' = latest
    BY <1>4 DEF RequestStep, SetPermission, Store, StoreFails, NotifyError, Mark,
         SetTopic, WriteSetTopic, RemoveTopic, ScanEntries, RemoveEntry, RemoveTopicEnds
  <2>2. topics'[TopicOf(k)] = topics[TopicOf(k)]
    <3>1. CASE WriteSetTopic(h)
      BY <3>1, WriteTopicKeeps DEF WriteSetTopic
    <3>2. ASSUME NEW t \in Topics, RemoveTopic(h, t)
          PROVE  topics'[TopicOf(k)] = topics[TopicOf(k)]
      BY <3>2, WriteTopicKeeps DEF RemoveTopic
    <3>3. CASE topics' = topics
      BY <3>3
    <3> QED BY <1>4, <3>1, <3>2, <3>3
         DEF RequestStep, SetPermission, Store, StoreFails, SetResource, NotifyError,
             Mark, MarkResourceAsSynced, SetTopic, ScanEntries, RemoveEntry,
             RemoveTopicEnds
  <2> QED BY <1>1, <2>1, <2>2
<1>5. CASE RetryStep /\ ~RetryPublish /\ ~RetryPublishFails
  BY <1>1, <1>5 DEF RetryStep, RetryList, RetryGetTopic, RetrySkip, RetryMark,
       RetryMarkFails, RetryEnds, MarkResourceAsSynced
<1>6. ASSUME NEW j \in Keys, RemoveResource(j) \/ Age(j)
      PROVE  LatestOf(k)' = entries[k].perm
  BY <1>1, <1>6 DEF RemoveResource, Age
<1>7. ASSUME NEW t \in Topics, RemoveTopicFails(t)
      PROVE  LatestOf(k)' = entries[k].perm
  BY <1>1, <1>7, WriteTopicKeeps DEF RemoveTopicFails
<1>8. CASE Crash
  BY <1>1, <1>8 DEF Crash
<1> QED BY <1>2, <1>3, <1>4, <1>5, <1>6, <1>7, <1>8 DEF Next

(***************************************************************************)
(* What has been announced of an entry stays the last word on it until the *)
(* entry is written with another content, for every entry whose last write *)
(* has not raced: neither a late publish nor a retry replaces it.          *)
(***************************************************************************)
THEOREM AnnouncedStays == Spec => AnnouncedStaysAnnounced
<1> DEFINE Inv == TypeOK /\ ChannelInv /\ IsolationInv
           Stays == \A k \in Keys :
             /\ isolated[k] /\ Published(k) /\ LatestOf(k) = entries[k].perm
             /\ isolated'[k] /\ Published(k)' /\ entries'[k].perm = entries[k].perm
             => LatestOf(k)' = entries[k].perm
<1>1. Init => Inv
  <2>1. Init => TypeOK
    BY DEF Init, TypeOK, Request, Retry, Idle
  <2>2. Init => ChannelInv /\ IsolationInv
    BY DEF Init, ChannelInv, IsolationInv, Idle
  <2> QED BY <2>1, <2>2
<1>2. Inv /\ [Next]_vars => Inv'
  BY NextType, NextChannel, NextIsolation
<1>3. Inv /\ [Next]_vars => [Stays]_vars
  BY StaysAnnounced
<1> QED BY <1>1, <1>2, <1>3, PTL DEF Spec, AnnouncedStaysAnnounced
=============================================================================
