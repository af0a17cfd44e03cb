------------------------------- MODULE ReadPath -------------------------------
(***************************************************************************)
(* A check of one id while others change what it reads: checkPermission    *)
(* (pkg/controller/check.go) asks for the topic, decides on its defaults,  *)
(* and asks for the resource in a second call of the database.             *)
(* AccessControl has the steps of the others, and the decision for one     *)
(* state.                                                                  *)
(*                                                                         *)
(* One reader is enough: reads change nothing.                             *)
(***************************************************************************)
EXTENDS AccessControl

CONSTANTS
    Questions,  \* what the reader asks
    NoRead

\* A check between its two calls.
Question == [token : Tokens, id : Id, list : SUBSET Permission]
Read == [question : Questions,
         decisions : SUBSET BOOLEAN,    \* history: CheckPermission in each state since the call began
         changed : SUBSET {"topic", "entry", "removed"}]    \* history

ASSUME QuestionsAssumption == Questions \subseteq Question
ASSUME NoReadAssumption == NoRead \notin Read

VARIABLE read

ReadInit == Init /\ read = NoRead

Decision(q) == CheckPermission(q.token, q.id, q.list)

\* Mutant: the entry is looked up under the id as the caller wrote it.
CheckResourcePermissionsUnsplit(q) ==
    LET r == SplitModifier(q.id)
    IN q.id = Plain(r) /\ Exists(r) /\ checkPermissions(q.token, entries[r], q.list)

\* The second call, on what the collection holds by then.
CheckResourcePermissions(q) ==
    LET r == SplitModifier(q.id)
    IN Exists(r) /\ checkPermissions(q.token, entries[r], q.list)

\* Mutant: the check goes on when the topic is unknown.
ReadUnknownTopic(q) ==
    /\ read = NoRead
    /\ CheckTopicDefaultPermission(q.token, q.list) # "granted"
    /\ read' = [question |-> q, decisions |-> {Decision(q)}, changed |-> {}]
    /\ UNCHANGED vars

\* The first call.  When the topic is unknown or its defaults grant access the
\* check ends with it, and answers the decision of this state.
ReadTopic(q) ==
    /\ read = NoRead
    /\ CheckTopicDefaultPermission(q.token, q.list) = "denied"
    /\ read' = [question |-> q, decisions |-> {Decision(q)}, changed |-> {}]
    /\ UNCHANGED vars

\* The answer is CheckResourcePermissions(read.question).
ReadResource ==
    /\ read # NoRead
    /\ read' = NoRead
    /\ UNCHANGED vars

EntryChanges(r) ==
    \/ r \in DOMAIN entries <=> r \notin DOMAIN entries'
    \/ r \in DOMAIN entries /\ entries'[r] # entries[r]
Changes(q) ==
    (IF defaults' # defaults THEN {"topic"} ELSE {})
      \cup (IF defaults' = Unregistered THEN {"removed"} ELSE {})
      \cup (IF EntryChanges(SplitModifier(q.id)) THEN {"entry"} ELSE {})

\* What the history keeps of a step of somebody else.
Watched ==
    \/ read = NoRead /\ read' = NoRead
    \/ \E q \in Questions :
         /\ read # NoRead /\ read.question = q
         /\ read' = [question |-> q,
                      decisions |-> read.decisions \cup {Decision(q)'},
                      changed |-> read.changed \cup Changes(q)]

\* A step of somebody else, which the reader does not notice.
OtherStep == Next /\ Watched

ReadNext ==
    \/ \E q \in Questions : ReadTopic(q)
    \/ ReadResource
    \/ OtherStep

ReadSpec == ReadInit /\ [][ReadNext]_<<vars, read>>

-----------------------------------------------------------------------------
(***************************************************************************)
(* A check that grants access is right for some moment of the call: it     *)
(* never puts grants together that were not there at the same time.  The   *)
(* exception is a topic that is removed meanwhile, whose entries may be    *)
(* stored after it is gone.                                                *)
(***************************************************************************)
GrantsWereRight ==
    read # NoRead /\ CheckResourcePermissions(read.question) =>
        TRUE \in read.decisions \/ "removed" \in read.changed

(***************************************************************************)
(* A caller who had access all the time is only denied it when both the    *)
(* defaults and the entry are written during the call: the grant moves     *)
(* from the one to the other behind the reader's back.                     *)
(***************************************************************************)
DeniedOnlyByMovedGrant ==
    read # NoRead /\ ~CheckResourcePermissions(read.question) /\ FALSE \notin read.decisions =>
        {"topic", "entry"} \subseteq read.changed
===============================================================================
