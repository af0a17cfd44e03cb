------------------------ MODULE MCPermissionSearchLoad ------------------------
(* Instances of PermissionSearchLoad for TLC.                              *)
EXTENDS PermissionSearchLoad, TLC

CONSTANTS u1, o1, r1, r2, r3

Element1 == [id |-> r1, user_rights |-> (u1 :> {"r", "a"}), group_rights |-> (o1 :> {"r"})]
Element2 == [id |-> r2, user_rights |-> (u1 :> {"r"}), group_rights |-> [g \in {} |-> {}]]
Element3 == [id |-> r3, user_rights |-> (u1 :> {"a"}), group_rights |-> [g \in {} |-> {}]]

\* For pages of two: a page that is not full follows, or, when a resource has
\* been deleted before the load, an empty one.
MCSources == {<<Element2, Element1, Element3>>}

\* One of the three may be deleted and created again while a load runs.
MCAdditions == {Element3}

MCInputs == {<<"user", u1>> :> {"a", "w"}}
===============================================================================
