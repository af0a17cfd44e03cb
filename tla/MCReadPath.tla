------------------------------ MODULE MCReadPath ------------------------------
(* Instances of ReadPath and EditRights for TLC, with the callers and the    *)
(* permissions of MCAccessControl.                                           *)
EXTENDS MCAccessControl, ReadPath, EditRights

\* A user shares a group with nobody.
Alone == [u \in Users |-> {u}]

\* A group member asks for one permission and for two, under an id with
\* modifier; a user with a role asks for what only the role may be granted.
MCQuestions == {
    [token |-> [user |-> u1, roles |-> {}, groups |-> {g1}], id |-> <<r1, m1>>, list |-> {"x"}],
    [token |-> [user |-> u1, roles |-> {}, groups |-> {g1}], id |-> <<r1, m1>>, list |-> {"w", "x"}],
    [token |-> [user |-> u2, roles |-> {o1}, groups |-> {}], id |-> Plain(r1), list |-> {"r"}]}

ObservedInit == ReadInit /\ EditInit

ObservedNext ==
    \/ /\ (\E q \in Questions : ReadTopic(q)) \/ ReadResource
       /\ UNCHANGED rights
    \/ EditNext /\ Watched

\* ReadSpec /\ EditSpec
ObservedSpec == ObservedInit /\ [][ObservedNext]_<<vars, read, rights>>
===============================================================================
