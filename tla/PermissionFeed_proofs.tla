------------------------ MODULE PermissionFeed_proofs ------------------------
(***************************************************************************)
(* PermissionSync implements PermissionFeed, for every set of topics,      *)
(* resources, permission values, channels and requests.                    *)
(***************************************************************************)
EXTENDS PermissionSync_proofs

(***************************************************************************)
(* GivenInv is kept: requests and the retry pass take their channel from a *)
(* copy of the topic, and what a topic has been given is not forgotten.    *)
(***************************************************************************)
LEMMA WriteTopicGiven ==
    ASSUME TypeOK, GivenInv, NEW t \in Topics, NEW config \in Configs \cup {Unregistered},
           WriteTopic(t, config)
    PROVE  /\ \A u \in Topics : given[u] \subseteq given'[u]
           /\ \A u \in Topics : topics'[u] \in Channels => topics'[u] \in given'[u]
<1>1. \A u \in Topics : given[u] \subseteq given'[u]
  BY DEF WriteTopic, TypeOK
<1>2. config \in Channels => config \in given'[t]
  BY DEF WriteTopic, TypeOK
<1> QED BY <1>1, <1>2 DEF WriteTopic, TypeOK, GivenInv

\* Requests and the pass as they were, nothing a topic was given forgotten.
LEMMA GivenKept ==
    ASSUME TypeOK, GivenInv, retry' = retry, topics' = topics, given' = given,
           \A h \in Requests : requests'[h].pc \in {"checked", "stored"}
                                 => /\ requests[h].pc \in {"checked", "stored"}
                                    /\ requests'[h].chan = requests[h].chan
                                    /\ requests'[h].key = requests[h].key
    PROVE  GivenInv'
BY DEF GivenInv

LEMMA TopicGiven ==
    ASSUME TypeOK, GivenInv, NEW t \in Topics, NEW config \in Configs \cup {Unregistered},
           WriteTopic(t, config), retry' = retry,
           \A h \in Requests : requests'[h].pc \in {"checked", "stored"} => requests'[h] = requests[h]
    PROVE  GivenInv'
<1>1. \A h \in Requests : requests[h].pc \in {"checked", "stored"} =>
        TopicOf(requests[h].key) \in Topics
  BY RequestType DEF TypeOK, Setting, Keys, TopicOf
<1>2. retry.pc = "publish" => TopicOf(retry.item.key) \in Topics
  BY RetryType DEF TypeOK, Item, Keys, TopicOf
<1> QED BY <1>1, <1>2, WriteTopicGiven DEF GivenInv

LEMMA NextGiven == TypeOK /\ GivenInv /\ [Next]_vars => GivenInv'
<1> SUFFICES ASSUME TypeOK, GivenInv, [Next]_vars PROVE GivenInv'
  OBVIOUS
<1> USE DEF db, history
<1>1. ASSUME NEW h \in Requests, NEW k \in Keys, NEW p \in Perms, SetPermission(h, k, p)
      PROVE  GivenInv'
  <2>1. requests' = [requests EXCEPT ![h] =
          [pc |-> "checked", key |-> k, perm |-> p, chan |-> topics[TopicOf(k)]]]
    BY <1>1 DEF SetPermission
  <2>2. TopicOf(k) \in Topics
    BY DEF Keys, TopicOf
  <2>3. \A g \in Requests :
          requests'[g].pc \in {"checked", "stored"} /\ requests'[g].chan \in Channels
            => requests'[g].chan \in given[TopicOf(requests'[g].key)]
    BY <2>1, <2>2 DEF GivenInv, TypeOK
  <2> QED BY <1>1, <2>3 DEF SetPermission, GivenInv
<1>2. ASSUME NEW h \in Requests, Store(h) \/ StoreFails(h)
      PROVE  GivenInv'
  <2>1. requests[h] \in Setting
    BY <1>2, RequestType DEF Store, StoreFails, TypeOK
  <2>2. \A g \in Requests : requests'[g].pc \in {"checked", "stored"}
          => /\ requests[g].pc \in {"checked", "stored"}
             /\ requests'[g].chan = requests[g].chan
             /\ requests'[g].key = requests[g].key
    BY <1>2, <2>1 DEF Store, StoreFails, Goto, Answer, Idle, TypeOK, Setting
  <2>3. UNCHANGED <<topics, given, retry>>
    BY <1>2 DEF Store, StoreFails, SetResource
  <2> QED BY <2>2, <2>3, GivenKept
<1>3. ASSUME NEW h \in Requests, Publish(h) \/ PublishFails(h)
      PROVE  GivenInv'
  <2>1. requests[h] \in Setting
    BY <1>3, RequestType DEF Publish, PublishFails, TypeOK
  <2>2. \A g \in Requests : requests'[g].pc \in {"checked", "stored"} => requests'[g] = requests[g]
    BY <1>3, <2>1 DEF Publish, PublishFails, Goto, TypeOK, Setting
  <2>3. UNCHANGED <<topics, given, retry>>
    BY <1>3 DEF Publish, PublishFails, SendPermissions
  <2> QED BY <2>2, <2>3, GivenKept
<1>4. ASSUME NEW h \in Requests, NotifyError(h) \/ Mark(h) \/ RemoveTopicEnds(h)
      PROVE  GivenInv'
  <2>1. \A g \in Requests : requests'[g].pc \in {"checked", "stored"} => requests'[g] = requests[g]
    BY <1>4 DEF NotifyError, Mark, RemoveTopicEnds, Answer, Idle, TypeOK
  <2>2. UNCHANGED <<topics, given, retry>>
    BY <1>4 DEF NotifyError, Mark, RemoveTopicEnds, MarkResourceAsSynced
  <2> QED BY <2>1, <2>2, GivenKept
<1>5. ASSUME NEW h \in Requests, NEW t \in Topics, NEW config \in Settings[t],
             SetTopic(h, t, config)
      PROVE  GivenInv'
  <2>1. \A g \in Requests : requests'[g].pc \in {"checked", "stored"} => requests'[g] = requests[g]
    BY <1>5 DEF SetTopic, TypeOK
  <2> QED BY <1>5, <2>1, GivenKept DEF SetTopic
<1>6. ASSUME NEW h \in Requests, WriteSetTopic(h)
      PROVE  GivenInv'
  <2>1. requests[h].topic \in Topics /\ requests[h].chan \in Configs
    BY <1>6, RequestType DEF WriteSetTopic, TypeOK, Configuring
  <2>2. \A g \in Requests : requests'[g].pc \in {"checked", "stored"} => requests'[g] = requests[g]
    BY <1>6 DEF WriteSetTopic, Answer, Idle, TypeOK
  <2> QED BY <1>6, <2>1, <2>2, TopicGiven, GivenKept DEF WriteSetTopic
<1>7. ASSUME NEW h \in Requests, NEW t \in Topics, RemoveTopic(h, t)
      PROVE  GivenInv'
  <2>1. \A g \in Requests : requests'[g].pc \in {"checked", "stored"} => requests'[g] = requests[g]
    BY <1>7 DEF RemoveTopic, TypeOK
  <2> QED BY <1>7, <2>1, TopicGiven DEF RemoveTopic
<1>8. ASSUME NEW t \in Topics, RemoveTopicFails(t)
      PROVE  GivenInv'
  BY <1>8, TopicGiven DEF RemoveTopicFails
<1>9. ASSUME NEW h \in Requests, ScanEntries(h) \/ \E r \in Resources : RemoveEntry(h, r)
      PROVE  GivenInv'
  <2>1. ASSUME ScanEntries(h)
        PROVE  \A g \in Requests : requests'[g].pc \in {"checked", "stored"}
                                      => requests'[g] = requests[g]
    BY <2>1 DEF ScanEntries, TypeOK
  <2>2. ASSUME NEW r \in Resources, RemoveEntry(h, r)
        PROVE  \A g \in Requests : requests'[g].pc \in {"checked", "stored"}
                                      => requests'[g] = requests[g]
    <3>1. requests[h] \in Removing
      BY <2>2, RequestType DEF RemoveEntry, TypeOK
    <3> QED BY <2>2, <3>1 DEF RemoveEntry, TypeOK, Removing
  <2>3. UNCHANGED <<topics, given, retry>>
    BY <1>9 DEF ScanEntries, RemoveEntry
  <2> QED BY <1>9, <2>1, <2>2, <2>3, GivenKept
<1>10. ASSUME NEW i \in Item, RetryGetTopic(i)
       PROVE  GivenInv'
  <2>1. TopicOf(i.key) \in Topics
    BY DEF Item, Keys, TopicOf
  <2> QED BY <1>10, <2>1 DEF RetryGetTopic, GivenInv
<1>11. ASSUME NEW i \in Item, RetrySkip(i)
       PROVE  GivenInv'
  <2>1. retry \in [pc : {"next"}, todo : SUBSET Item]
    BY <1>11, RetryType DEF RetrySkip, TypeOK
  <2>2. retry'.pc = "next"
    BY <1>11, <2>1 DEF RetrySkip
  <2> QED BY <1>11, <2>2 DEF RetrySkip, GivenInv
<1>12. CASE RetryList \/ RetryEnds
  <2>1. retry'.pc # "publish"
    BY <1>12 DEF RetryList, RetryEnds, Idle
  <2> QED BY <1>12, <2>1 DEF RetryList, RetryEnds, GivenInv
<1>13. CASE RetryPublish \/ RetryPublishFails \/ RetryMark \/ RetryMarkFails
  <2>1. retry \in [pc : {"publish", "mark"}, todo : SUBSET Item,
                   item : Item, chan : Configs]
    BY <1>13, RetryType DEF RetryPublish, RetryPublishFails, RetryMark, RetryMarkFails, TypeOK
  <2>2. retry'.pc # "publish"
    BY <1>13, <2>1
       DEF RetryPublish, RetryPublishFails, RetryMark, RetryMarkFails, RetryNext
  <2>3. UNCHANGED <<topics, given, requests>>
    BY <1>13 DEF RetryPublish, RetryPublishFails, RetryMark, RetryMarkFails,
                 SendPermissions, MarkResourceAsSynced
  <2> QED BY <2>2, <2>3 DEF GivenInv
<1>14. ASSUME NEW k \in Keys, RemoveResource(k) \/ Age(k)
       PROVE  GivenInv'
  BY <1>14 DEF RemoveResource, Age, GivenInv
<1>15. CASE Crash
  BY <1>15 DEF Crash, Idle, GivenInv
<1>16. CASE UNCHANGED vars
  BY <1>16 DEF vars, GivenInv
<1> QED
  BY <1>1, <1>2, <1>3, <1>4, <1>5, <1>6, <1>7, <1>8, <1>9, <1>10, <1>11, <1>12, <1>13,
     <1>14, <1>15, <1>16, InputType
     DEF Next, RequestStep, RetryStep

-----------------------------------------------------------------------------
(***************************************************************************)
(* What each call is in PermissionFeed.                                    *)
(***************************************************************************)
LEMMA QuietStep ==
    ASSUME UNCHANGED <<db, latest, history>>
    PROVE  UNCHANGED Feed!vars
BY DEF db, history, Content, Feed!vars

LEMMA WriteStep ==
    ASSUME TypeOK, NEW h \in Requests, requests[h] \in Setting, SetResource(h),
           latest' = latest
    PROVE  Feed!Write(requests[h].key, requests[h].perm)
<1> DEFINE k == requests[h].key
<1>1. k \in Keys /\ requests[h].perm \in Perms
  BY DEF Setting
<1>2. entries'[k] \in Entry /\ entries'[k].perm = requests[h].perm
  BY <1>1 DEF SetResource, TypeOK, Entry
<1>3. \A j \in Keys : j # k => entries'[j] = entries[j]
  BY <1>1 DEF SetResource, TypeOK
<1>4. Content' = [Content EXCEPT ![k] = requests[h].perm]
  BY <1>1, <1>2, <1>3, EntryAssumption DEF Content
<1> QED BY <1>4 DEF SetResource, Feed!Write

LEMMA MarkStep ==
    ASSUME TypeOK, NEW k \in Keys, MarkResourceAsSynced(k), latest' = latest
    PROVE  UNCHANGED Feed!vars
<1>1. Content' = Content
  BY MarkKeepsPerm DEF Content
<1> QED BY <1>1 DEF MarkResourceAsSynced, history, Feed!vars

LEMMA RemoveStep ==
    ASSUME TypeOK, NEW k \in Keys, entries' = [entries EXCEPT ![k] = NoEntry],
           UNCHANGED <<written, given, latest>>
    PROVE  Feed!Remove(k)
<1>1. Content' = [Content EXCEPT ![k] = NoEntry]
  BY DEF Content, TypeOK
<1> QED BY <1>1 DEF Feed!Remove

LEMMA AnnounceStep ==
    ASSUME TypeOK, NEW k \in Keys, NEW chan \in Channels, NEW perm \in Perms,
           chan \in given[TopicOf(k)], perm \in written[k], SendPermissions(k, chan, perm)
    PROVE  Feed!Announce(k, chan, perm)
BY DEF SendPermissions, Content, TopicOf, ResourceOf, Feed!Announce

LEMMA GiveStep ==
    ASSUME TypeOK, NEW t \in Topics, NEW config \in Configs \cup {Unregistered},
           WriteTopic(t, config), latest' = latest
    PROVE  [Feed!Next]_(Feed!vars)
<1>1. Content' = Content /\ written' = written
  BY DEF WriteTopic, Content
<1>2. CASE config \in Channels
  <2>1. Feed!Give(t, config)
    BY <1>1, <1>2 DEF WriteTopic, Feed!Give, TypeOK
  <2> QED BY <1>2, <2>1 DEF Feed!Next
<1>3. CASE config \notin Channels
  <2>1. given' = given
    BY <1>3 DEF WriteTopic, TypeOK
  <2> QED BY <1>1, <2>1 DEF Feed!vars
<1> QED BY <1>2, <1>3

(***************************************************************************)
(* Every step is a step of PermissionFeed or changes nothing there:        *)
(* WrittenInv and GivenInv supply the guard of Announce.                   *)
(***************************************************************************)
LEMMA NextFeed ==
    TypeOK /\ WrittenInv /\ ChannelInv /\ GivenInv /\ [Next]_vars => [Feed!Next]_(Feed!vars)
<1> SUFFICES ASSUME TypeOK, WrittenInv, ChannelInv, GivenInv, [Next]_vars
             PROVE  [Feed!Next]_(Feed!vars)
  OBVIOUS
<1>0. Feed!Keys = Keys
  BY DEF Feed!Keys, Keys
<1>q. UNCHANGED <<db, latest, history>> => [Feed!Next]_(Feed!vars)
  BY QuietStep
<1>1. ASSUME NEW h \in Requests, Store(h) \/ StoreFails(h)
      PROVE  [Feed!Next]_(Feed!vars)
  <2>1. requests[h] \in Setting
    BY <1>1, RequestType DEF Store, StoreFails, TypeOK
  <2>2. requests[h].key \in Keys /\ requests[h].perm \in Perms
    BY <2>1 DEF Setting
  <2>3. ASSUME SetResource(h) PROVE [Feed!Next]_(Feed!vars)
    BY <1>0, <1>1, <2>1, <2>2, <2>3, WriteStep DEF Store, StoreFails, Feed!Next
  <2> QED BY <1>1, <1>q, <2>3 DEF Store, StoreFails
<1>2. ASSUME NEW h \in Requests, Publish(h) \/ PublishFails(h)
      PROVE  [Feed!Next]_(Feed!vars)
  <2>1. requests[h] \in Setting /\ requests[h].pc = "stored"
    BY <1>2, RequestType DEF Publish, PublishFails, TypeOK
  <2>2. /\ requests[h].key \in Keys /\ requests[h].perm \in Perms
        /\ requests[h].chan \in Channels
        /\ requests[h].chan \in given[TopicOf(requests[h].key)]
        /\ requests[h].perm \in written[requests[h].key]
    BY <2>1 DEF Setting, ChannelInv, GivenInv, WrittenInv
  <2>3. ASSUME SendPermissions(requests[h].key, requests[h].chan, requests[h].perm)
        PROVE  [Feed!Next]_(Feed!vars)
    BY <1>0, <2>2, <2>3, AnnounceStep DEF Feed!Next
  <2> QED BY <1>2, <1>q, <2>3 DEF Publish, PublishFails
<1>3. ASSUME NEW h \in Requests, Mark(h)
      PROVE  [Feed!Next]_(Feed!vars)
  <2>1. requests[h].key \in Keys
    BY <1>3, RequestType DEF Mark, TypeOK, Setting
  <2> QED BY <1>3, <1>q, <2>1, MarkStep DEF Mark
<1>4. ASSUME NEW h \in Requests, WriteSetTopic(h)
      PROVE  [Feed!Next]_(Feed!vars)
  <2>1. requests[h].topic \in Topics /\ requests[h].chan \in Configs
    BY <1>4, RequestType DEF WriteSetTopic, TypeOK, Configuring
  <2> QED BY <1>4, <1>q, <2>1, GiveStep DEF WriteSetTopic
<1>5. ASSUME NEW h \in Requests, NEW t \in Topics, RemoveTopic(h, t)
      PROVE  [Feed!Next]_(Feed!vars)
  BY <1>5, GiveStep DEF RemoveTopic
<1>6. ASSUME NEW t \in Topics, RemoveTopicFails(t)
      PROVE  [Feed!Next]_(Feed!vars)
  BY <1>6, GiveStep DEF RemoveTopicFails
<1>7. ASSUME NEW h \in Requests, NEW r \in Resources, RemoveEntry(h, r)
      PROVE  [Feed!Next]_(Feed!vars)
  <2>1. requests[h].topic \in Topics
    BY <1>7, RequestType DEF RemoveEntry, TypeOK, Removing
  <2>2. <<requests[h].topic, r>> \in Keys
    BY <2>1 DEF Keys
  <2> QED BY <1>0, <1>7, <2>2, RemoveStep DEF RemoveEntry, history, Feed!Next
<1>8. ASSUME NEW k \in Keys, RemoveResource(k)
      PROVE  [Feed!Next]_(Feed!vars)
  BY <1>0, <1>8, RemoveStep DEF RemoveResource, history, Feed!Next
<1>9. CASE RetryPublish \/ RetryPublishFails
  <2>1. /\ retry \in [pc : {"publish", "mark"}, todo : SUBSET Item,
                      item : Item, chan : Configs]
        /\ retry.pc = "publish"
    BY <1>9, RetryType DEF RetryPublish, RetryPublishFails, TypeOK
  <2>2. retry.item.key \in Keys /\ retry.item.perm \in Perms /\ retry.chan \in Configs
    BY <2>1 DEF Item
  <2>3. retry.item \in RetryItems
    BY <2>1 DEF RetryItems
  <2>4. ASSUME retry.chan \in Channels,
               SendPermissions(retry.item.key, retry.chan, retry.item.perm)
        PROVE  [Feed!Next]_(Feed!vars)
    <3>1. retry.item.perm \in written[retry.item.key]
      BY <2>3 DEF WrittenInv
    <3>2. retry.chan \in given[TopicOf(retry.item.key)]
      BY <2>1, <2>4 DEF GivenInv
    <3> QED BY <1>0, <2>2, <2>4, <3>1, <3>2, AnnounceStep DEF Feed!Next
  <2> QED BY <1>9, <1>q, <2>2, <2>4 DEF RetryPublish, RetryPublishFails, Configs
<1>10. CASE RetryMark
  <2>1. retry.item.key \in Keys
    BY <1>10, RetryType DEF RetryMark, TypeOK, Item
  <2> QED BY <1>10, <2>1, MarkStep DEF RetryMark
<1>11. ASSUME NEW k \in Keys, Age(k)
       PROVE  [Feed!Next]_(Feed!vars)
  <2>1. ASSUME NEW j \in Keys
        PROVE  /\ (entries'[j] = NoEntry) <=> (entries[j] = NoEntry)
               /\ entries[j] # NoEntry => entries'[j].perm = entries[j].perm
    <3>1. entries[k] \in Entry
      BY <1>11 DEF Age, TypeOK
    <3>2. [entries[k] EXCEPT !.aged = TRUE] \in Entry
      BY <3>1 DEF Entry
    <3>3. [entries[k] EXCEPT !.aged = TRUE].perm = entries[k].perm
      BY <3>1 DEF Entry
    <3>4. entries' = [entries EXCEPT ![k] = [entries[k] EXCEPT !.aged = TRUE]]
      BY <1>11 DEF Age
    <3>5. CASE j = k
      <4>1. entries'[k] = [entries[k] EXCEPT !.aged = TRUE]
        BY <3>4 DEF TypeOK
      <4> QED BY <3>1, <3>2, <3>3, <3>5, <4>1, EntryAssumption
    <3>6. CASE j # k
      BY <3>4, <3>6 DEF TypeOK
    <3> QED BY <3>5, <3>6
  <2>2. Content' = Content
    BY <2>1 DEF Content
  <2> QED BY <1>11, <2>2 DEF Age, history, Feed!vars
<1>12. ASSUME \/ UNCHANGED vars
              \/ Crash \/ RetryList \/ RetryMarkFails \/ RetryEnds
              \/ \E i \in Item : RetryGetTopic(i) \/ RetrySkip(i)
       PROVE  [Feed!Next]_(Feed!vars)
  BY <1>12, <1>q
     DEF vars, db, history, Crash, RetryList, RetryMarkFails, RetryEnds, RetryGetTopic, RetrySkip
<1>13. ASSUME NEW h \in Requests,
              \/ NotifyError(h) \/ ScanEntries(h) \/ RemoveTopicEnds(h)
              \/ \E k \in Keys, p \in Perms : SetPermission(h, k, p)
              \/ \E t \in Topics : \E config \in Settings[t] : SetTopic(h, t, config)
       PROVE  [Feed!Next]_(Feed!vars)
  BY <1>13, <1>q DEF NotifyError, ScanEntries, RemoveTopicEnds, SetPermission, SetTopic
<1> QED
  BY <1>1, <1>2, <1>3, <1>4, <1>5, <1>6, <1>7, <1>8, <1>9, <1>10, <1>11, <1>12, <1>13,
     InputType
     DEF Next, RequestStep, RetryStep

(***************************************************************************)
(* The service keeps what PermissionFeed promises to the consumers of a    *)
(* channel, whatever is interleaved, fails or restarts.                    *)
(***************************************************************************)
THEOREM ImplementsFeed == Spec => FeedIsKept
<1>1. Init => TypeOK /\ WrittenInv /\ ChannelInv /\ GivenInv
  <2>1. Init => TypeOK
    BY DEF Init, TypeOK, Request, Retry, Idle
  <2>2. Init => WrittenInv
    BY DEF Init, WrittenInv, AnnouncedWasStored, RetryItems, Idle
  <2>3. Init => ChannelInv /\ GivenInv
    BY ConfigAssumption DEF Init, ChannelInv, GivenInv, Idle, Configs
  <2> QED BY <2>1, <2>2, <2>3
<1>2. Init => Feed!Init
  BY DEF Init, Content, Keys, Feed!Init, Feed!Keys
<1> QED
  BY <1>1, <1>2, NextType, NextWritten, NextChannel, NextGiven, NextFeed, PTL
     DEF Spec, FeedIsKept, Feed!Spec
=============================================================================
