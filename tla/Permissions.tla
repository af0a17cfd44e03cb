----------------------------- MODULE Permissions -----------------------------
(***************************************************************************)
(* Grants and the functions that decide on them: pkg/model/permissions.go, *)
(* the decisions of pkg/controller/check.go, the entry MongoDB stores      *)
(* (pkg/database/mongo) and the decision of the in-memory database that    *)
(* clients test with (pkg/database/mock).                                  *)
(***************************************************************************)
EXTENDS Naturals

CONSTANTS
    Users, Roles, Groups,
    AdminRole       \* the realm role jwt.Token.IsAdmin looks for

ASSUME AdminAssumption == AdminRole \in Roles

\* model.Read, Write, Execute, Administrate; a PermissionsMap is the set of
\* its true fields, a PermissionList the set of its elements (the order and
\* repetitions are never looked at).
Permission == {"r", "w", "x", "a"}

RoleSubjects == {"role"} \X Roles
Subject == ({"user"} \X Users) \cup RoleSubjects \cup ({"group"} \X Groups)

\* model.ResourcePermissions: the three maps as one.  A subject may be a key
\* with nothing granted.
IsResourcePermissions(perms) ==
    DOMAIN perms \subseteq Subject /\ perms \in [DOMAIN perms -> SUBSET Permission]
NoPermissions == [s \in {} |-> {}]

\* A key that is missing in a Go map reads as the zero PermissionsMap.
Grants(perms, s) == IF s \in DOMAIN perms THEN perms[s] ELSE {}

RolePart(perms) == [s \in DOMAIN perms \cap RoleSubjects |-> perms[s]]

\* The map with the role part of other added, where perms has none.
WithRolesOf(perms, other) ==
    [s \in DOMAIN perms \cup (DOMAIN other \cap RoleSubjects) |->
       IF s \in DOMAIN perms THEN perms[s] ELSE other[s]]

\* ResourcePermissions.Valid: at least one user may administrate.
Valid(perms) == \E u \in Users : "a" \in Grants(perms, <<"user", u>>)

\* jwt.Token: sub, realm_access.roles and groups.
Token == [user : Users, roles : SUBSET Roles, groups : SUBSET Groups]
IsAdmin(token) == AdminRole \in token.roles
SubjectsOf(token) == {<<"user", token.user>>} \cup ({"role"} \X token.roles)
                       \cup ({"group"} \X token.groups)

-----------------------------------------------------------------------------
(* pkg/controller/check.go                                                 *)

\* Every permission of the list has to be a default of its own.
checkTopicDefaultPermission(token, defaults, list) ==
    \/ IsAdmin(token)
    \/ \A p \in list : \E s \in SubjectsOf(token) : p \in Grants(defaults, s)

\* Mutant: the defaults of the token's user are forgotten.
ComputePermissionsMapNoUserDefault(token, perms, defaults) ==
    UNION {Grants(perms, s) : s \in SubjectsOf(token)} \cup
    UNION {Grants(defaults, s) : s \in SubjectsOf(token) \ {<<"user", token.user>>}}

\* The grants of the resource and of the topic, merged over all subjects.
ComputePermissionsMap(token, perms, defaults) ==
    UNION {Grants(perms, s) \cup Grants(defaults, s) : s \in SubjectsOf(token)}

-----------------------------------------------------------------------------
(* pkg/database/mongo: twelve lists of subjects, one per permission and    *)
(* kind of subject                                                         *)

PermissionsEntry == [Permission -> SUBSET Subject]

\* Mutant: what the user may execute is also stored as what he may write.
setResourcePermissionsSwapped(perms) ==
    [p \in Permission |->
       {s \in DOMAIN perms : \/ p \in perms[s]
                             \/ p = "w" /\ s[1] = "user" /\ "x" \in perms[s]}]

\* A subject nothing is granted to is not stored.
setResourcePermissions(perms) ==
    [p \in Permission |-> {s \in DOMAIN perms : p \in perms[s]}]

ToResource(entry) ==
    [s \in UNION {entry[p] : p \in Permission} |-> {p \in Permission : s \in entry[p]}]

\* Also the filter of ListResourcesByPermissions.
checkPermissions(token, entry, list) ==
    \A p \in list : SubjectsOf(token) \cap entry[p] # {}

-----------------------------------------------------------------------------
(* pkg/database/mock: the permissions as they were given                   *)

checkPerm(token, perms, p) == \E s \in SubjectsOf(token) : p \in Grants(perms, s)
checkPerms(token, perms, list) == \A p \in list : checkPerm(token, perms, p)
=============================================================================
