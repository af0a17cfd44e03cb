--------------------------- MODULE MCAccessControl ---------------------------
(* Instances of Clients for TLC.  Two users who share a group.              *)
EXTENDS Clients, TLC

CONSTANTS u1, u2, o1, g1, r1, r2, m1

MCOrder == SelectSeq(<<r1, r2>>, LAMBDA r : r \in Resources)
MCNumbers == {-1, 1, 2, 3}
\* An id with a modifier that holds a comma and a second id.
MCParts == [id \in Id |-> IF id = <<r2, m1>> THEN {Plain(r1)} ELSE {id}]

SharedGroup == [u \in Users |-> Users]

\* A group member, a user with a role, an admin.
MCTokens == {
    [user |-> u1, roles |-> {}, groups |-> {g1}],
    [user |-> u2, roles |-> {o1}, groups |-> {}],
    [user |-> u2, roles |-> {AdminRole}, groups |-> {}]}

\* As entry and as default of the topic: role grants, group grants, a role
\* nothing is granted to, and permissions that are not Valid.
MCInputs == {
    (<<"user", u1>> :> {"a", "x"}) @@ (<<"role", o1>> :> {"r"}),
    (<<"user", u2>> :> {"a", "r"}) @@ (<<"group", g1>> :> {"w", "x"}),
    (<<"user", u2>> :> {"r", "w", "a"}) @@ (<<"role", o1>> :> {}),
    (<<"group", g1>> :> {"a"}) @@ (<<"user", u2>> :> {"w"}),
    NoPermissions}
=============================================================================
