------------------------------- MODULE Migration -------------------------------
(***************************************************************************)
(* The start of the service with a database to migrate from                *)
(* (pkg/database/mongo/mongo.go): when no topic is there, topics and then  *)
(* permissions are copied one by one, and after that the API is served.    *)
(* The copy may end anywhere: with an error, at the timeout of the context *)
(* all of it shares, or because the process is stopped.                    *)
(***************************************************************************)
CONSTANTS
    Topics, Resources,
    Configs,        \* the values of a model.Topic
    Contents,       \* the values of a PermissionsEntry
    OldTopics,      \* the collections to migrate from; nobody changes them
    OldEntries

Keys == Topics \X Resources
TopicOf(k) == k[1]

IsTopics(map) == DOMAIN map \subseteq Topics /\ map \in [DOMAIN map -> Configs]
IsEntries(map) == DOMAIN map \subseteq Keys /\ map \in [DOMAIN map -> Contents]

ASSUME OldAssumption == IsTopics(OldTopics) /\ IsEntries(OldEntries)

VARIABLES
    topics,      \* the topics collection, by id
    entries,     \* the permissions collection, by topic and id
    phase,       \* what the process is doing
    todo,        \* the ids of the documents the cursor has not passed
    edited       \* history: what the API has changed in topics that are there

vars == <<topics, entries, phase, todo, edited>>

\* edited holds ids of topics and keys of resources.
TypeOK ==
    /\ IsTopics(topics)
    /\ IsEntries(entries)
    /\ \/ phase \in {"down", "serving"} /\ todo = {}
       \/ phase = "topics" /\ todo \subseteq DOMAIN OldTopics
       \/ phase = "entries" /\ todo \subseteq DOMAIN OldEntries
    /\ edited \in [topics : SUBSET Topics, keys : SUBSET Keys]

Nothing == [topics |-> {}, keys |-> {}]

Init ==
    /\ topics = [t \in {} |-> {}]
    /\ entries = [k \in {} |-> {}]
    /\ phase = "down"
    /\ todo = {}
    /\ edited = Nothing

With(map, i, value) == [j \in DOMAIN map \cup {i} |-> IF j = i THEN value ELSE map[j]]
Without(map, S) == [j \in DOMAIN map \ S |-> map[j]]
Migrating == phase \in {"topics", "entries"}

-----------------------------------------------------------------------------
(* New and MigrateDb                                                       *)

\* Mutant: the topics that are there do not matter.
StartAlwaysMigrating ==
    /\ phase = "down"
    /\ phase' = "topics" /\ todo' = DOMAIN OldTopics
    /\ UNCHANGED <<topics, entries, edited>>

\* A database with a topic in it is not migrated (again).
Start ==
    /\ phase = "down"
    /\ IF DOMAIN topics = {}
         THEN phase' = "topics" /\ todo' = DOMAIN OldTopics
         ELSE phase' = "serving" /\ UNCHANGED todo
    /\ UNCHANGED <<topics, entries, edited>>

MigrateTopic(t) ==
    /\ phase = "topics" /\ t \in todo
    /\ topics' = With(topics, t, OldTopics[t])
    /\ todo' = todo \ {t}
    /\ UNCHANGED <<entries, phase, edited>>

\* The cursor over the permissions to migrate is opened.
MigrateEntries ==
    /\ phase = "topics" /\ todo = {}
    /\ phase' = "entries" /\ todo' = DOMAIN OldEntries
    /\ UNCHANGED <<topics, entries, edited>>

\* Mutant: ReplaceOne without upsert.
MigrateEntryWithoutUpsert(k) ==
    /\ phase = "entries" /\ k \in todo
    /\ entries' = [j \in DOMAIN entries |-> IF j = k THEN OldEntries[k] ELSE entries[j]]
    /\ todo' = todo \ {k}
    /\ UNCHANGED <<topics, phase, edited>>

\* Replaces what is left of a topic that was removed.
MigrateEntry(k) ==
    /\ phase = "entries" /\ k \in todo
    /\ entries' = With(entries, k, OldEntries[k])
    /\ todo' = todo \ {k}
    /\ UNCHANGED <<topics, phase, edited>>

MigrationEnds ==
    /\ phase = "entries" /\ todo = {}
    /\ phase' = "serving"
    /\ UNCHANGED <<topics, entries, todo, edited>>

\* Mutant: the next start goes on where this one was.
StopKeepingTodo ==
    /\ phase # "down"
    /\ phase' = "down"
    /\ UNCHANGED <<topics, entries, todo, edited>>

\* An error of a call of the migration, or a stop of the process.  A write
\* that took effect although its call failed is a write and a stop.
Stop ==
    /\ phase # "down"
    /\ phase' = "down" /\ todo' = {}
    /\ UNCHANGED <<topics, entries, edited>>

-----------------------------------------------------------------------------
(* The API, each request as a whole                                        *)

SetTopic(t, config) ==
    /\ phase = "serving"
    /\ topics' = With(topics, t, config)
    /\ edited' = [edited EXCEPT !.topics = @ \cup {t}]
    /\ UNCHANGED <<entries, phase, todo>>

\* DeleteTopic may end with an error when some entries are left.
RemoveTopic(t) ==
    /\ phase = "serving"
    /\ topics' = Without(topics, {t})
    /\ \E removed \in SUBSET {k \in DOMAIN entries : TopicOf(k) = t} :
         entries' = Without(entries, removed)
    /\ edited' = [topics |-> edited.topics \ {t},
                  keys |-> {k \in edited.keys : TopicOf(k) # t}]
    /\ UNCHANGED <<phase, todo>>

SetPermission(k, content) ==
    /\ phase = "serving"
    /\ TopicOf(k) \in DOMAIN topics
    /\ entries' = With(entries, k, content)
    /\ edited' = [edited EXCEPT !.keys = @ \cup {k}]
    /\ UNCHANGED <<topics, phase, todo>>

\* Admins may remove what is left of a topic that is gone.
RemoveResource(k) ==
    /\ phase = "serving"
    /\ entries' = Without(entries, {k})
    /\ edited' = [edited EXCEPT !.keys =
                    IF TopicOf(k) \in DOMAIN topics THEN @ \cup {k} ELSE @]
    /\ UNCHANGED <<topics, phase, todo>>

Next ==
    \/ Start
    \/ \E t \in Topics : MigrateTopic(t)
    \/ MigrateEntries
    \/ \E k \in Keys : MigrateEntry(k)
    \/ MigrationEnds
    \/ Stop
    \/ \E t \in Topics, config \in Configs : SetTopic(t, config)
    \/ \E t \in Topics : RemoveTopic(t)
    \/ \E k \in Keys, content \in Contents : SetPermission(k, content)
    \/ \E k \in Keys : RemoveResource(k)

Spec == Init /\ [][Next]_vars

-----------------------------------------------------------------------------
(***************************************************************************)
(* What the API has changed in a topic survives every restart: as long as  *)
(* that topic is there, no later migration puts the old data back, neither *)
(* of this topic nor of its resources, whatever has been removed beside    *)
(* it.  (After the last topic is removed, a start migrates again.)         *)
(***************************************************************************)
ChangesSurviveRestart ==
    [][Migrating =>
         /\ \A t \in edited.topics : t \in DOMAIN topics' /\ topics'[t] = topics[t]
         /\ \A k \in edited.keys : /\ k \in DOMAIN entries <=> k \in DOMAIN entries'
                                   /\ k \in DOMAIN entries => entries'[k] = entries[k]]_vars

(***************************************************************************)
(* A migration that ends without error has copied everything: the API is   *)
(* not served for the first time with a part of the old topics and         *)
(* permissions, however often earlier starts were stopped before their     *)
(* first topic was written.  A start after one that was stopped later does *)
(* not migrate and is not meant.                                           *)
(***************************************************************************)
MigrationIsComplete ==
    phase = "entries" /\ todo = {} =>
        /\ \A t \in DOMAIN OldTopics : t \in DOMAIN topics /\ topics[t] = OldTopics[t]
        /\ \A k \in DOMAIN OldEntries : k \in DOMAIN entries /\ entries[k] = OldEntries[k]
================================================================================
