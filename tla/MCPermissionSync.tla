-------------------------- MODULE MCPermissionSync --------------------------
(* Instances of PermissionSync for TLC.                                    *)
EXTENDS PermissionSync, TLC

CONSTANTS t1, t2, c1, c2, p1, p2

\* SetTopic gives t1 and t2 one channel each: a fixed configuration.
FixedSettings == [t \in Topics |-> IF t = t1 THEN {c1} ELSE {c2}]
\* t1 is moved between two channels and no channel.
MovingSettings == [t \in Topics |-> {c1, c2, NoPublish}]
\* Both topics announce on one channel.
SharedSettings == [t \in Topics |-> {c1}]

AllInputs == [t \in Topics |-> Perms]
\* Each topic has its own content, so that a record shows whose it is.
OwnInputs == [t \in Topics |-> IF t = t1 THEN {p1} ELSE {p2}]

Symmetry == Permutations(Requests) \cup Permutations(Perms) \cup Permutations(Resources)
=============================================================================
