------------------------------ MODULE EditRights ------------------------------
(***************************************************************************)
(* Who the subjects of a resource come from.  SetPermission lets only      *)
(* admins edit role permissions, and lets others add only their own groups *)
(* and users who share a group with them (checkEditPermission of           *)
(* pkg/controller/resource.go).  It decides on an entry it reads some time *)
(* before it stores.  AccessControl has the steps; the variables here are  *)
(* history and change none of them.                                        *)
(***************************************************************************)
EXTENDS AccessControl

VARIABLES
    given,  \* the role permissions admins have sent, by resource
    named   \* the users and groups sent by callers who may add them, by resource

rights == <<given, named>>

EditInit ==
    /\ Init
    /\ given = [r \in Resources |-> {NoPermissions}]
    /\ named = [r \in Resources |-> {}]

\* The role permissions an entry shows that is stored with perms.
StoredRoles(perms) == RolePart(ToResource(setResourcePermissions(perms)))

MayAdd(token) ==
    IF IsAdmin(token) THEN Subject
    ELSE ({"user"} \X SameGroup[token.user]) \cup ({"group"} \X token.groups)

\* A request passes its checks.
Edit(h, token, id, perms, omitted) ==
    LET r == SplitModifier(id) IN
    /\ CheckSetPermission(h, token, id, perms, omitted)
    /\ given' = [given EXCEPT ![r] = @ \cup (IF IsAdmin(token) THEN {StoredRoles(perms)} ELSE {})]
    /\ named' = [named EXCEPT ![r] = @ \cup (DOMAIN perms \cap MayAdd(token))]

EditNext ==
    \/ \E h \in Requests, token \in Tokens, id \in Id, perms \in Inputs,
          omitted \in BOOLEAN : Edit(h, token, id, perms, omitted)
    \/ /\ \/ \E h \in Requests : SetPermission(h)
          \/ \E id \in Id : RemoveResource(id)
          \/ \E perms \in Inputs : SetTopic(perms)
          \/ RemoveTopic
       /\ UNCHANGED rights

EditSpec == EditInit /\ [][EditNext]_<<vars, rights>>

-----------------------------------------------------------------------------
(***************************************************************************)
(* "only admins may edit role permissions": the role permissions of a      *)
(* stored resource are, as a whole, what one admin has sent for this       *)
(* resource, or none.  An edit by somebody else keeps those it has read,   *)
(* which may be older ones by the time it stores, never others: not those  *)
(* of another resource, none put together from two edits, and none at all  *)
(* when it looks for the entry under an id with modifier.                  *)
(***************************************************************************)
RolesAreGiven ==
    \A r \in Resources : Exists(r) => RolePart(ToResource(entries[r])) \in given[r]

(***************************************************************************)
(* Every user and group with permissions was sent for this resource by a   *)
(* caller who may add it: an admin, a user of the same group, a member.    *)
(* What others keep they have read, whatever was removed meanwhile.        *)
(***************************************************************************)
SubjectsAreNamed ==
    \A r \in Resources : Exists(r) =>
        \A p \in Permission : entries[r][p] \ RoleSubjects \subseteq named[r]
===============================================================================
