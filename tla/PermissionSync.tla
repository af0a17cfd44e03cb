--------------------------- MODULE PermissionSync ---------------------------
(***************************************************************************)
(* The write path of the permission store: requests that set and remove    *)
(* permissions and topics (pkg/controller/resource.go, topics.go), the     *)
(* MongoDB collections they share (pkg/database/mongo), the compacted      *)
(* Kafka topics ("channels") the permissions are announced on              *)
(* (pkg/controller/kafka), and the loop that publishes again what could    *)
(* not be published (pkg/controller/controller.go).                        *)
(*                                                                         *)
(* A request is a sequence of separate database and Kafka calls with no    *)
(* lock and no transaction around them; every call is a step here.  Every  *)
(* call may fail, and a write that is reported as failed may have taken    *)
(* effect (a timeout after the server applied it).                         *)
(***************************************************************************)
EXTENDS Naturals, FiniteSets

CONSTANTS
    Topics,        \* model.Topic.Id
    Resources,     \* model.Resource.Id, without modifier
    Perms,         \* values of model.ResourcePermissions
    Channels,      \* Kafka topics, the values of Topic.PublishToKafkaTopic
    NoPublish,     \* PublishToKafkaTopic is "" or "-"
    Settings,      \* the values SetTopic is called with, per topic
    Inputs,        \* the values SetPermission is called with, per topic
    Requests,      \* requests served at the same time
    Unregistered,  \* there is no document for the topic
    NoEntry,       \* there is no document for the resource
    NoRecord       \* nothing was published for the key

Configs == Channels \cup {NoPublish}

ASSUME SettingsAssumption == Settings \in [Topics -> SUBSET Configs]
ASSUME InputsAssumption == Inputs \in [Topics -> SUBSET Perms]
ASSUME ConfigAssumption ==
    /\ NoPublish \notin Channels
    /\ Unregistered \notin Configs
ASSUME RecordAssumption == NoRecord \notin Perms

\* The permissions collection has a unique index on (topic_id, id).
Keys == Topics \X Resources
TopicOf(k) == k[1]
ResourceOf(k) == k[2]

\* mongo.PermissionsEntry: "aged" tells whether timestamp < now-SyncAgeLimit.
Entry == [perm : Perms, synced : BOOLEAN, aged : BOOLEAN]
ASSUME EntryAssumption == NoEntry \notin Entry

VARIABLES
    topics,    \* the topics collection: PublishToKafkaTopic of each topic
    entries,   \* the permissions collection
    latest,    \* last record of each key of each channel (cleanup.policy=compact)
    requests,  \* the requests in flight: where each one is, what it has read
    retry,     \* the retry pass: where it is and the snapshot it works from
    serving,   \* the start-up pass has ended and the API is served
    written,   \* history: the values ever stored under a key
    given,     \* history: the channels a topic has ever been given
    isolated   \* history: the entry's last write has not raced, see SyncedMatchesFeed

db == <<topics, entries>>
history == <<written, given, isolated>>
vars == <<topics, entries, latest, requests, retry, serving, written, given,
          isolated>>

-----------------------------------------------------------------------------
(* State of the workers                                                    *)

Idle == [pc |-> "idle"]

\* SetPermission between its GetTopic and its answer.
Setting == [pc : {"checked", "stored", "published", "notifying"},
            key : Keys, perm : Perms, chan : Configs]
\* SetTopic between its comparison with the old topic and its write.
Configuring == [pc : {"configuring"}, topic : Topics, chan : Configs]
\* RemoveTopic after the topic's document is deleted.
Removing == [pc : {"scanning", "removing"}, topic : Topics, todo : SUBSET Resources]

Request == {Idle} \cup Setting \cup Configuring \cup Removing

\* An element of the list ListUnsyncedResources returned.
Item == [key : Keys, perm : Perms]

Retry == {Idle}
    \cup [pc : {"next"}, todo : SUBSET Item]
    \cup [pc : {"publish", "mark"}, todo : SUBSET Item, item : Item, chan : Configs]

TypeOK ==
    /\ topics \in [Topics -> Configs \cup {Unregistered}]
    /\ entries \in [Keys -> Entry \cup {NoEntry}]
    /\ latest \in [Channels \X Resources -> Perms \cup {NoRecord}]
    /\ requests \in [Requests -> Request]
    /\ retry \in Retry
    /\ serving \in BOOLEAN
    /\ written \in [Keys -> SUBSET Perms]
    /\ given \in [Topics -> SUBSET Channels]
    /\ isolated \in [Keys -> BOOLEAN]

\* The request has stored an entry it has not finished to publish and to mark.
InFlight(h, k) == /\ requests[h].pc \in {"stored", "published"}
                  /\ requests[h].key = k

\* The items the retry pass has listed and not finished.
RetryItems == IF retry.pc = "idle" THEN {}
              ELSE IF retry.pc = "next" THEN retry.todo
              ELSE retry.todo \cup {retry.item}

RetryHolds(k) == \E i \in RetryItems : i.key = k

Init ==
    /\ topics = [t \in Topics |-> Unregistered]
    /\ entries = [k \in Keys |-> NoEntry]
    /\ latest = [p \in Channels \X Resources |-> NoRecord]
    /\ requests = [h \in Requests |-> Idle]
    /\ retry = Idle
    /\ serving = FALSE
    /\ written = [k \in Keys |-> {}]
    /\ given = [t \in Topics |-> {}]
    /\ isolated = [k \in Keys |-> FALSE]

-----------------------------------------------------------------------------
(* Calls to the database and to Kafka                                      *)

Goto(h, pc) == requests' = [requests EXCEPT ![h].pc = pc]
Answer(h) == requests' = [requests EXCEPT ![h] = Idle]

\* db.SetResource of request h: ReplaceOne with upsert; synced = !publish.
SetResource(h) ==
    LET q == requests[h] IN
    /\ entries' = [entries EXCEPT ![q.key] =
         [perm |-> q.perm, synced |-> q.chan = NoPublish, aged |-> FALSE]]
    /\ written' = [written EXCEPT ![q.key] = @ \cup {q.perm}]
    /\ isolated' = [isolated EXCEPT ![q.key] =
         /\ \A g \in Requests \ {h} : ~InFlight(g, q.key)
         /\ ~RetryHolds(q.key)
         /\ topics[TopicOf(q.key)] = q.chan]
    /\ UNCHANGED <<topics, given>>

\* Mutant: the filter of the update has the resource id only.
MarkResourceAsSyncedOfAnyTopic(k) ==
    /\ entries' = [j \in Keys |->
         IF entries[j] # NoEntry /\ ResourceOf(j) = ResourceOf(k)
           THEN [entries[j] EXCEPT !.synced = TRUE] ELSE entries[j]]
    /\ UNCHANGED <<topics, history>>

\* db.MarkResourceAsSynced: no condition on the content or the timestamp of
\* the entry; no error when there is none.
MarkResourceAsSynced(k) ==
    /\ entries' = IF entries[k] = NoEntry THEN entries
                  ELSE [entries EXCEPT ![k].synced = TRUE]
    /\ UNCHANGED <<topics, history>>

\* producer.SendPermissions: the key is the resource id, without the topic id.
\* A record of another topic on the same channel replaces this topic's.
SendPermissions(k, chan, perm) ==
    /\ latest' = [latest EXCEPT ![<<chan, ResourceOf(k)>>] = perm]
    /\ isolated' = [j \in Keys |->
         /\ isolated[j]
         /\ ~(/\ TopicOf(j) # TopicOf(k)
              /\ ResourceOf(j) = ResourceOf(k)
              /\ topics[TopicOf(j)] = chan)]
    /\ UNCHANGED <<topics, entries, written, given>>

\* A write to topic t's document.
WriteTopic(t, config) ==
    /\ topics' = [topics EXCEPT ![t] = config]
    /\ given' = [given EXCEPT ![t] = @ \cup ({config} \cap Channels)]
    /\ isolated' = [k \in Keys |-> isolated[k] /\ TopicOf(k) # t]
    /\ UNCHANGED <<entries, written>>

-----------------------------------------------------------------------------
(* SetPermission                                                           *)

\* Mutant: "exists" of GetTopic is not looked at.
SetPermissionOfUnknownTopic(h, k, perm) ==
    /\ serving
    /\ requests[h] = Idle
    /\ requests' = [requests EXCEPT ![h] =
         [pc |-> "checked", key |-> k, perm |-> perm, chan |-> topics[TopicOf(k)]]]
    /\ UNCHANGED <<db, latest, retry, serving, history>>

\* GetTopic, the access checks and Valid() have passed; an unknown topic is
\* answered with 404.  The request works with this copy of the topic.
SetPermission(h, k, perm) ==
    /\ serving
    /\ requests[h] = Idle
    /\ topics[TopicOf(k)] # Unregistered
    /\ requests' = [requests EXCEPT ![h] =
         [pc |-> "checked", key |-> k, perm |-> perm, chan |-> topics[TopicOf(k)]]]
    /\ UNCHANGED <<db, latest, retry, serving, history>>

Store(h) ==
    /\ requests[h].pc = "checked"
    /\ SetResource(h)
    /\ IF requests[h].chan = NoPublish THEN Answer(h) ELSE Goto(h, "stored")
    /\ UNCHANGED <<latest, retry, serving>>

\* Mutant: the error of SetResource is not returned; the request goes on.
StoreErrorIgnored(h) ==
    /\ requests[h].pc = "checked"
    /\ requests[h].chan # NoPublish
    /\ SetResource(h) \/ UNCHANGED <<db, history>>
    /\ Goto(h, "stored")
    /\ UNCHANGED <<latest, retry, serving>>

\* SetResource returns an error and the request is answered with 500.
StoreFails(h) ==
    /\ requests[h].pc = "checked"
    /\ SetResource(h) \/ UNCHANGED <<db, history>>
    /\ Answer(h)
    /\ UNCHANGED <<latest, retry, serving>>

\* Mutant: a cached producer is used whatever channel it was made for.
PublishToAnyChannel(h) ==
    /\ requests[h].pc = "stored"
    /\ \E chan \in Channels : SendPermissions(requests[h].key, chan, requests[h].perm)
    /\ Goto(h, "published")
    /\ UNCHANGED <<retry, serving>>

Publish(h) ==
    /\ requests[h].pc = "stored"
    /\ SendPermissions(requests[h].key, requests[h].chan, requests[h].perm)
    /\ Goto(h, "published")
    /\ UNCHANGED <<retry, serving>>

\* Mutant: the error of publishPermission is ignored and the entry is marked.
PublishErrorIgnored(h) ==
    /\ requests[h].pc = "stored"
    /\ Goto(h, "published")
    /\ UNCHANGED <<db, latest, retry, serving, history>>

\* The record may have reached the channel although the call failed.
PublishFails(h) ==
    /\ requests[h].pc = "stored"
    /\ \/ SendPermissions(requests[h].key, requests[h].chan, requests[h].perm)
       \/ UNCHANGED <<db, latest, history>>
    /\ Goto(h, "notifying")
    /\ UNCHANGED <<retry, serving>>

\* notifyError "publish will be retried"; the request is answered with 200.
NotifyError(h) ==
    /\ requests[h].pc = "notifying"
    /\ Answer(h)
    /\ UNCHANGED <<db, latest, retry, serving, history>>

\* An error of MarkResourceAsSynced is answered with 500.
Mark(h) ==
    /\ requests[h].pc = "published"
    /\ MarkResourceAsSynced(requests[h].key) \/ UNCHANGED <<db, history>>
    /\ Answer(h)
    /\ UNCHANGED <<latest, retry, serving>>

-----------------------------------------------------------------------------
(* RemoveResource, SetTopic and RemoveTopic                                *)

\* One DeleteMany of at most one document; no tombstone is published.
RemoveResource(k) ==
    /\ serving
    /\ entries' = [entries EXCEPT ![k] = NoEntry]
    /\ UNCHANGED <<topics, latest, requests, retry, serving, history>>

\* GetTopic and the comparison: an equal topic is answered with 202, unwritten.
SetTopic(h, t, config) ==
    /\ serving
    /\ requests[h] = Idle
    /\ topics[t] # config
    /\ requests' = [requests EXCEPT ![h] =
         [pc |-> "configuring", topic |-> t, chan |-> config]]
    /\ UNCHANGED <<db, latest, retry, serving, history>>

WriteSetTopic(h) ==
    /\ requests[h].pc = "configuring"
    /\ \/ WriteTopic(requests[h].topic, requests[h].chan)
       \/ UNCHANGED <<db, history>>
    /\ Answer(h)
    /\ UNCHANGED <<latest, retry, serving>>

\* db.DeleteTopic deletes the topic's document first ...
RemoveTopic(h, t) ==
    /\ serving
    /\ requests[h] = Idle
    /\ WriteTopic(t, Unregistered)
    /\ requests' = [requests EXCEPT ![h] =
         [pc |-> "scanning", topic |-> t, todo |-> {}]]
    /\ UNCHANGED <<latest, retry, serving>>

\* ... and answers 500 if the error of that call hides that it took effect ...
RemoveTopicFails(t) ==
    /\ serving
    /\ WriteTopic(t, Unregistered)
    /\ UNCHANGED <<latest, requests, retry, serving>>

\* ... and then scans the permissions collection for the topic's entries ...
ScanEntries(h) ==
    LET t == requests[h].topic IN
    /\ requests[h].pc = "scanning"
    /\ requests' = [requests EXCEPT ![h] =
         [pc |-> "removing", topic |-> t,
          todo |-> {r \in Resources : entries[<<t, r>>] # NoEntry}]]
    /\ UNCHANGED <<db, latest, retry, serving, history>>

\* ... and deletes them one by one (DeleteMany is not atomic).
RemoveEntry(h, r) ==
    /\ requests[h].pc = "removing"
    /\ r \in requests[h].todo
    /\ entries' = [entries EXCEPT ![<<requests[h].topic, r>>] = NoEntry]
    /\ requests' = [requests EXCEPT ![h].todo = @ \ {r}]
    /\ UNCHANGED <<topics, latest, retry, serving, history>>

\* The scan is over (200) or an error ends it before (500).
RemoveTopicEnds(h) ==
    /\ requests[h].pc \in {"scanning", "removing"}
    /\ Answer(h)
    /\ UNCHANGED <<db, latest, retry, serving, history>>

-----------------------------------------------------------------------------
(* RetryPublishOfUnsyncedResources, at start-up and at every tick          *)

\* SyncAgeLimit passes.
Age(k) ==
    /\ entries[k] # NoEntry
    /\ ~entries[k].synced /\ ~entries[k].aged
    /\ entries' = [entries EXCEPT ![k].aged = TRUE]
    /\ UNCHANGED <<topics, latest, requests, retry, serving, history>>

Unsynced(k) == entries[k] # NoEntry /\ ~entries[k].synced /\ entries[k].aged

\* Mutant: "$gt" for "$lt"; the list holds the entries that are not aged.
RetryListOfFreshEntries ==
    /\ retry = Idle
    /\ retry' = [pc |-> "next",
                 todo |-> {[key |-> k, perm |-> entries[k].perm] :
                             k \in {j \in Keys : /\ entries[j] # NoEntry
                                                 /\ ~entries[j].synced
                                                 /\ ~entries[j].aged}}]
    /\ UNCHANGED <<db, latest, requests, serving, history>>

\* ListUnsyncedResources; when it fails the pass (or the start-up) ends with it.
RetryList ==
    /\ retry = Idle
    /\ retry' = [pc |-> "next",
                 todo |-> {[key |-> k, perm |-> entries[k].perm] :
                             k \in {j \in Keys : Unsynced(j)}}]
    /\ UNCHANGED <<db, latest, requests, serving, history>>

\* GetTopic of the next element.
RetryGetTopic(i) ==
    /\ retry.pc = "next"
    /\ i \in retry.todo
    /\ topics[TopicOf(i.key)] # Unregistered
    /\ retry' = [pc |-> "publish", todo |-> retry.todo \ {i}, item |-> i,
                 chan |-> topics[TopicOf(i.key)]]
    /\ UNCHANGED <<db, latest, requests, serving, history>>

\* GetTopic fails or finds nothing: continue.
RetrySkip(i) ==
    /\ retry.pc = "next"
    /\ i \in retry.todo
    /\ retry' = [retry EXCEPT !.todo = @ \ {i}]
    /\ UNCHANGED <<db, latest, requests, serving, history>>

RetryNext == retry' = [pc |-> "next", todo |-> retry.todo]

\* publishPermission has nothing to send for a topic without a channel.
RetryPublish ==
    /\ retry.pc = "publish"
    /\ IF retry.chan = NoPublish
         THEN UNCHANGED <<db, latest, history>>
         ELSE SendPermissions(retry.item.key, retry.chan, retry.item.perm)
    /\ retry' = [retry EXCEPT !.pc = "mark"]
    /\ UNCHANGED <<requests, serving>>

\* Mutant: no "continue" after a failed publish; the entry is marked.
RetryPublishErrorIgnored ==
    /\ retry.pc = "publish"
    /\ retry.chan # NoPublish
    /\ retry' = [retry EXCEPT !.pc = "mark"]
    /\ UNCHANGED <<db, latest, requests, serving, history>>

RetryPublishFails ==
    /\ retry.pc = "publish"
    /\ retry.chan # NoPublish
    /\ \/ SendPermissions(retry.item.key, retry.chan, retry.item.perm)
       \/ UNCHANGED <<db, latest, history>>
    /\ RetryNext
    /\ UNCHANGED <<requests, serving>>

RetryMark ==
    /\ retry.pc = "mark"
    /\ MarkResourceAsSynced(retry.item.key)
    /\ RetryNext
    /\ UNCHANGED <<latest, requests, serving>>

\* The error is logged.
RetryMarkFails ==
    /\ retry.pc = "mark"
    /\ RetryNext
    /\ UNCHANGED <<db, latest, requests, serving, history>>

\* Mutant: the API is not served before everything is announced.
RetryEndsUnserved ==
    /\ retry.pc = "next"
    /\ retry.todo = {}
    /\ retry' = Idle
    /\ serving' = \A k \in Keys : entries[k] # NoEntry => entries[k].synced
    /\ UNCHANGED <<db, latest, requests, history>>

\* The first pass is part of NewWithDependencies; the API is served after it.
RetryEnds ==
    /\ retry.pc = "next"
    /\ retry.todo = {}
    /\ retry' = Idle
    /\ serving' = TRUE
    /\ UNCHANGED <<db, latest, requests, history>>

\* The process stops and is started again; collections and channels remain.
Crash ==
    /\ requests' = [h \in Requests |-> Idle]
    /\ retry' = Idle
    /\ serving' = FALSE
    /\ UNCHANGED <<db, latest, history>>

-----------------------------------------------------------------------------
RequestStep(h) ==
    \/ \E k \in Keys : \E p \in Inputs[TopicOf(k)] : SetPermission(h, k, p)
    \/ Store(h) \/ StoreFails(h)
    \/ Publish(h) \/ PublishFails(h) \/ NotifyError(h)
    \/ Mark(h)
    \/ \E t \in Topics : \E config \in Settings[t] : SetTopic(h, t, config)
    \/ WriteSetTopic(h)
    \/ \E t \in Topics : RemoveTopic(h, t)
    \/ ScanEntries(h)
    \/ \E r \in Resources : RemoveEntry(h, r)
    \/ RemoveTopicEnds(h)

RetryStep ==
    \/ RetryList
    \/ \E i \in Item : RetryGetTopic(i) \/ RetrySkip(i)
    \/ RetryPublish \/ RetryPublishFails
    \/ RetryMark \/ RetryMarkFails
    \/ RetryEnds

Next ==
    \/ \E h \in Requests : RequestStep(h)
    \/ RetryStep
    \/ \E k \in Keys : RemoveResource(k) \/ Age(k)
    \/ \E t \in Topics : RemoveTopicFails(t)
    \/ Crash

Spec == Init /\ [][Next]_vars

(***************************************************************************)
(* Fairness.  The ticker runs as long as the process does, and a pass goes *)
(* on with its next element whatever the last one did: weak fairness of    *)
(* the pass.  A call that is made again at every tick does not fail every  *)
(* time, and the process does not stop in every pass before it reaches a   *)
(* given element: strong fairness of the successful outcomes, per entry.   *)
(* Time passes, and a request in flight goes on to its answer.  Nothing is *)
(* assumed of the callers, of the outcome of a request or of crashes.      *)
(***************************************************************************)
Fairness ==
    /\ WF_vars(RetryStep)
    /\ \A k \in Keys : WF_vars(Age(k))
    /\ \A k \in Keys :
         /\ SF_vars(\E p \in Perms : RetryGetTopic([key |-> k, perm |-> p]))
         /\ SF_vars(retry.pc = "publish" /\ retry.item.key = k /\ RetryPublish)
         /\ SF_vars(retry.pc = "mark" /\ retry.item.key = k /\ RetryMark)
    /\ \A h \in Requests :
         /\ WF_vars(Store(h) \/ StoreFails(h))
         /\ WF_vars(Publish(h) \/ PublishFails(h))
         /\ WF_vars(NotifyError(h))
         /\ WF_vars(Mark(h))

FairSpec == Spec /\ Fairness

-----------------------------------------------------------------------------
(* Safety                                                                  *)

Published(k) == entries[k] # NoEntry /\ topics[TopicOf(k)] \in Channels
LatestOf(k) == latest[<<topics[TopicOf(k)], ResourceOf(k)>>]

(***************************************************************************)
(* Consumers of a channel never see permissions that were not in effect: a *)
(* record is sent only after SetResource stored it (setPermission stores,  *)
(* then publishes; the retry pass publishes what it read from the store),  *)
(* whatever fails, restarts or is removed in between.                      *)
(***************************************************************************)
AnnouncedWasStored ==
    \A c \in Channels, r \in Resources :
        latest[<<c, r>>] # NoRecord =>
            \E t \in Topics : latest[<<c, r>>] \in written[<<t, r>>]

(***************************************************************************)
(* "synced" can be trusted where no race has touched the entry: if the     *)
(* last write of an entry was stored while no other request and no retry   *)
(* pass was working on the same entry, with the channel the topic still    *)
(* has, and no other topic has sent a record with the same key on that     *)
(* channel since, then synced = TRUE means that the last record of the     *)
(* channel is the entry's content.  The order store - publish - mark, the  *)
(* reset of synced by every write, and every failure and crash in between  *)
(* are what this is about.                                                 *)
(***************************************************************************)
SyncedMatchesFeed ==
    \A k \in Keys :
        isolated[k] /\ Published(k) /\ entries[k].synced =>
            LatestOf(k) = entries[k].perm

(***************************************************************************)
(* What has been announced of an entry stays the last word on it until the *)
(* entry is written again: no late publish of a request and no retry of an *)
(* older content replaces the record of an entry whose last write has not  *)
(* raced.                                                                  *)
(***************************************************************************)
AnnouncedStaysAnnounced ==
    [][\A k \in Keys :
         /\ isolated[k] /\ Published(k) /\ LatestOf(k) = entries[k].perm
         /\ isolated'[k] /\ Published(k)' /\ entries'[k].perm = entries[k].perm
         => LatestOf(k)' = entries[k].perm]_vars

(***************************************************************************)
(* All of this is an implementation of PermissionFeed: whatever is         *)
(* interleaved, fails, is retried or restarted, every step is one write,   *)
(* one removal, one topic given a channel, one record of something stored  *)
(* before on a channel its topic was given before, or none of that.  No    *)
(* permissions of a topic are seen on a channel meant for another.         *)
(***************************************************************************)
Content == [k \in Keys |-> IF entries[k] = NoEntry THEN NoEntry ELSE entries[k].perm]

Feed == INSTANCE PermissionFeed WITH
    content <- Content,
    ever <- written,
    feed <- latest

FeedIsKept == Feed!Spec

(***************************************************************************)
(* AnnouncedStaysAnnounced without the isolation, for an entry that is     *)
(* marked: consumers who have been notified of the new permissions are not *)
(* sent older ones afterwards.  A record of another topic does not count.  *)
(* The code does not keep this; see the run stale_announcement.            *)
(***************************************************************************)
SyncedStaysCurrent ==
    [][\A k \in Keys :
         /\ Published(k) /\ entries[k].synced /\ LatestOf(k) = entries[k].perm
         /\ entries'[k] = entries[k] /\ topics' = topics
         /\ \A t \in Topics \ {TopicOf(k)} : topics[t] # topics[TopicOf(k)]
         => LatestOf(k)' = entries[k].perm]_vars

-----------------------------------------------------------------------------
(* Inductive invariants                                                    *)

\* Whatever a request or the retry pass may still announce has been stored.
WrittenInv ==
    /\ \A k \in Keys : entries[k] # NoEntry => entries[k].perm \in written[k]
    /\ \A h \in Requests :
         requests[h].pc = "stored" => requests[h].perm \in written[requests[h].key]
    /\ \A i \in RetryItems : i.perm \in written[i.key]
    /\ AnnouncedWasStored

\* Whatever may still be announced goes to a channel its topic has been given.
GivenInv ==
    /\ \A t \in Topics : topics[t] \in Channels => topics[t] \in given[t]
    /\ \A h \in Requests :
         requests[h].pc \in {"checked", "stored"} /\ requests[h].chan \in Channels
           => requests[h].chan \in given[TopicOf(requests[h].key)]
    /\ retry.pc = "publish" /\ retry.chan \in Channels
         => retry.chan \in given[TopicOf(retry.item.key)]

\* Only a request with a channel has something to publish.
ChannelInv ==
    \A h \in Requests :
        requests[h].pc \in {"stored", "published"} => requests[h].chan \in Channels

\* Those who work on an entry whose last write has not raced have its content
\* and its channel, and have announced it when they are about to mark it.
RequestAgrees(h, k) ==
    InFlight(h, k) =>
        /\ requests[h].perm = entries[k].perm
        /\ requests[h].chan = topics[TopicOf(k)]
        /\ requests[h].pc = "published" => LatestOf(k) = entries[k].perm

RetryAgrees(k) ==
    /\ \A i \in RetryItems : i.key = k => i.perm = entries[k].perm
    /\ retry.pc \in {"publish", "mark"} /\ retry.item.key = k
         => retry.chan = topics[TopicOf(k)]
    /\ retry.pc = "mark" /\ retry.item.key = k /\ Published(k)
         => LatestOf(k) = entries[k].perm

EntryAgrees(k) ==
    /\ \A h \in Requests : RequestAgrees(h, k)
    /\ RetryAgrees(k)
    /\ Published(k) /\ entries[k].synced => LatestOf(k) = entries[k].perm

IsolationInv ==
    \A k \in Keys : isolated[k] /\ entries[k] # NoEntry => EntryAgrees(k)

-----------------------------------------------------------------------------
(* Liveness                                                                *)

(***************************************************************************)
(* An entry that stays unsynced is published: no failed call, no restart   *)
(* and no other entry of a pass keeps an aged, unsynced entry of a topic   *)
(* with a channel from being marked, rewritten or removed in the end       *)
(* (RetryPublishOfUnsyncedResources continues after every error).          *)
(***************************************************************************)
UnsyncedIsRetried ==
    \A k \in Keys : (Published(k) /\ Unsynced(k)) ~> ~(Published(k) /\ Unsynced(k))

(***************************************************************************)
(* Publish errors never keep the service from starting: the pass that      *)
(* NewWithDependencies runs before the API is served ends, however many of *)
(* its calls fail, once the process is no longer stopped.                  *)
(***************************************************************************)
StartUpEnds == <>[][~Crash]_vars => []<>serving

(***************************************************************************)
(* What notifyError tells the operator, "publish will be retried": the     *)
(* permissions whose publish failed are the channel's last record one day, *)
(* unless they are removed, replaced or about to be, or the topic has no   *)
(* channel any more.  The code does not keep this; see the run lost_retry. *)
(***************************************************************************)
PublishFailed(k, p) ==
    /\ Published(k) /\ entries[k].perm = p
    /\ \E h \in Requests : /\ requests[h].pc = "notifying"
                           /\ requests[h].key = k
                           /\ requests[h].perm = p

PublishWillBeRetried ==
    \A k \in Keys, p \in Perms :
        PublishFailed(k, p) ~> \/ ~Published(k)
                               \/ entries[k].perm # p
                               \/ \E h \in Requests : /\ requests[h].pc = "checked"
                                                      /\ requests[h].key = k
                               \/ LatestOf(k) = p
=============================================================================
