--------------------------- MODULE Migration_proofs ---------------------------
(***************************************************************************)
(* Theorems about Migration: for any collections to migrate from.          *)
(***************************************************************************)
EXTENDS Migration, TLAPS

(***************************************************************************)
(* What the cursor has passed is copied; the cursor over the permissions   *)
(* is opened when all topics are.                                          *)
(***************************************************************************)
TopicCopied(t) == t \in DOMAIN topics /\ topics[t] = OldTopics[t]
EntryCopied(k) == k \in DOMAIN entries /\ entries[k] = OldEntries[k]

CopyInv ==
    /\ phase = "topics" => \A t \in DOMAIN OldTopics \ todo : TopicCopied(t)
    /\ phase = "entries" => /\ \A t \in DOMAIN OldTopics : TopicCopied(t)
                            /\ \A k \in DOMAIN OldEntries \ todo : EntryCopied(k)

(***************************************************************************)
(* Whatever counts as edited belongs to a topic that is there, so that no  *)
(* migration begins; and while one goes on nothing is edited.              *)
(***************************************************************************)
EditedInv ==
    /\ edited.topics \subseteq DOMAIN topics
    /\ \A k \in edited.keys : TopicOf(k) \in DOMAIN topics
    /\ Migrating => edited.topics = {} /\ edited.keys = {}

IInv == TypeOK /\ CopyInv /\ EditedInv

-----------------------------------------------------------------------------
(* What With and Without make of a collection                              *)

LEMMA WithTopic ==
    ASSUME IsTopics(topics), NEW t \in Topics, NEW config \in Configs
    PROVE  IsTopics(With(topics, t, config))
BY DEF IsTopics, With

LEMMA WithEntry ==
    ASSUME IsEntries(entries), NEW k \in Keys, NEW content \in Contents
    PROVE  IsEntries(With(entries, k, content))
BY DEF IsEntries, With

LEMMA WithoutTopics ==
    ASSUME IsTopics(topics), NEW S
    PROVE  IsTopics(Without(topics, S))
BY DEF IsTopics, Without

LEMMA WithoutEntries ==
    ASSUME IsEntries(entries), NEW S
    PROVE  IsEntries(Without(entries, S))
BY DEF IsEntries, Without

-----------------------------------------------------------------------------
(* The invariant                                                           *)

LEMMA InitInv == Init => IInv
<1> SUFFICES ASSUME Init PROVE IInv
  OBVIOUS
<1>1. TypeOK
  BY DEF Init, TypeOK, IsTopics, IsEntries, Nothing
<1>2. CopyInv /\ EditedInv
  BY DEF Init, CopyInv, EditedInv, Nothing, Migrating
<1> QED
  BY <1>1, <1>2 DEF IInv

LEMMA TypeStep == TypeOK /\ [Next]_vars => TypeOK'
<1> SUFFICES ASSUME TypeOK, [Next]_vars PROVE TypeOK'
  OBVIOUS
<1> USE OldAssumption
<1>1. CASE Start
  BY <1>1 DEF TypeOK, Start
<1>2. ASSUME NEW t \in Topics, MigrateTopic(t) PROVE TypeOK'
  <2>1. OldTopics[t] \in Configs
    BY <1>2 DEF TypeOK, MigrateTopic, IsTopics
  <2>2. IsTopics(With(topics, t, OldTopics[t]))
    BY <2>1, WithTopic DEF TypeOK
  <2> QED
    BY <1>2, <2>2 DEF TypeOK, MigrateTopic
<1>3. CASE MigrateEntries
  BY <1>3 DEF TypeOK, MigrateEntries
<1>4. ASSUME NEW k \in Keys, MigrateEntry(k) PROVE TypeOK'
  <2>1. OldEntries[k] \in Contents
    BY <1>4 DEF TypeOK, MigrateEntry, IsEntries
  <2>2. IsEntries(With(entries, k, OldEntries[k]))
    BY <2>1, WithEntry DEF TypeOK
  <2> QED
    BY <1>4, <2>2 DEF TypeOK, MigrateEntry
<1>5. CASE MigrationEnds
  BY <1>5 DEF TypeOK, MigrationEnds
<1>6. CASE Stop
  BY <1>6 DEF TypeOK, Stop
<1>7. ASSUME NEW t \in Topics, NEW config \in Configs, SetTopic(t, config) PROVE TypeOK'
  BY <1>7, WithTopic DEF TypeOK, SetTopic
<1>8. ASSUME NEW t \in Topics, RemoveTopic(t) PROVE TypeOK'
  BY <1>8, WithoutTopics, WithoutEntries DEF TypeOK, RemoveTopic
<1>9. ASSUME NEW k \in Keys, NEW content \in Contents, SetPermission(k, content)
      PROVE TypeOK'
  BY <1>9, WithEntry DEF TypeOK, SetPermission
<1>10. ASSUME NEW k \in Keys, RemoveResource(k) PROVE TypeOK'
  BY <1>10, WithoutEntries DEF TypeOK, RemoveResource
<1>11. CASE UNCHANGED vars
  BY <1>11 DEF TypeOK, vars
<1> QED
  BY <1>1, <1>2, <1>3, <1>4, <1>5, <1>6, <1>7, <1>8, <1>9, <1>10, <1>11 DEF Next

LEMMA CopyStep == CopyInv /\ [Next]_vars => CopyInv'
<1> SUFFICES ASSUME CopyInv, [Next]_vars PROVE CopyInv'
  OBVIOUS
<1> USE DEF CopyInv, TopicCopied, EntryCopied
<1>1. CASE Start
  BY <1>1 DEF Start
<1>2. ASSUME NEW t \in Topics, MigrateTopic(t) PROVE CopyInv'
  BY <1>2 DEF MigrateTopic, With
<1>3. CASE MigrateEntries
  BY <1>3 DEF MigrateEntries
<1>4. ASSUME NEW k \in Keys, MigrateEntry(k) PROVE CopyInv'
  BY <1>4 DEF MigrateEntry, With
<1>5. CASE MigrationEnds \/ Stop
  BY <1>5 DEF MigrationEnds, Stop
<1>6. ASSUME phase = "serving", phase' = phase PROVE CopyInv'
  BY <1>6
<1>7. CASE UNCHANGED vars
  BY <1>7 DEF vars
<1> QED
  BY <1>1, <1>2, <1>3, <1>4, <1>5, <1>6, <1>7
     DEF Next, SetTopic, RemoveTopic, SetPermission, RemoveResource

LEMMA EditedStep == TypeOK /\ EditedInv /\ [Next]_vars => EditedInv'
<1> SUFFICES ASSUME TypeOK, EditedInv, [Next]_vars PROVE EditedInv'
  OBVIOUS
<1> USE DEF EditedInv, Migrating
<1>1. CASE Start
  BY <1>1 DEF Start
<1>2. ASSUME NEW t \in Topics, MigrateTopic(t) PROVE EditedInv'
  BY <1>2 DEF MigrateTopic, With
<1>3. ASSUME UNCHANGED <<topics, edited>>, Migrating' => Migrating PROVE EditedInv'
  BY <1>3
<1>4. ASSUME NEW t \in Topics, NEW config \in Configs, SetTopic(t, config) PROVE EditedInv'
  BY <1>4 DEF TypeOK, SetTopic, With
<1>5. ASSUME NEW t \in Topics, RemoveTopic(t) PROVE EditedInv'
  BY <1>5 DEF TypeOK, RemoveTopic, Without
<1>6. ASSUME NEW k \in Keys, NEW content \in Contents, SetPermission(k, content)
      PROVE EditedInv'
  BY <1>6 DEF TypeOK, SetPermission
<1>7. ASSUME NEW k \in Keys, RemoveResource(k) PROVE EditedInv'
  BY <1>7 DEF TypeOK, RemoveResource
<1> QED
  BY <1>1, <1>2, <1>3, <1>4, <1>5, <1>6, <1>7
     DEF Next, MigrateEntries, MigrateEntry, MigrationEnds, Stop, vars

LEMMA Invariant == Spec => []IInv
<1>1. IInv /\ [Next]_vars => IInv'
  BY TypeStep, CopyStep, EditedStep DEF IInv
<1> QED
  BY InitInv, <1>1, PTL DEF Spec

-----------------------------------------------------------------------------
(***************************************************************************)
(* The collections hold what their types say, and the cursor passes only   *)
(* documents of the collection it reads (New and MigrateDb).               *)
(***************************************************************************)
THEOREM TypeCorrect == Spec => []TypeOK
<1>1. IInv => TypeOK
  BY DEF IInv
<1> QED
  BY Invariant, <1>1, PTL

(***************************************************************************)
(* A migration that ends without error (MigrateDb returns nil) has copied  *)
(* every topic and every permissions entry.                                *)
(***************************************************************************)
THEOREM MigratedAll == Spec => []MigrationIsComplete
<1>1. IInv => MigrationIsComplete
  BY DEF IInv, CopyInv, TopicCopied, EntryCopied, MigrationIsComplete
<1> QED
  BY Invariant, <1>1, PTL

(***************************************************************************)
(* The test of New for topics that are there keeps every migration away    *)
(* from what the API has changed.                                          *)
(***************************************************************************)
THEOREM ChangesSurvive == Spec => ChangesSurviveRestart
<1>1. IInv => (Migrating =>
        /\ \A t \in edited.topics : t \in DOMAIN topics' /\ topics'[t] = topics[t]
        /\ \A k \in edited.keys : /\ k \in DOMAIN entries <=> k \in DOMAIN entries'
                                  /\ k \in DOMAIN entries => entries'[k] = entries[k])
  BY DEF IInv, EditedInv
<1> QED
  BY Invariant, <1>1, PTL DEF ChangesSurviveRestart
================================================================================
