---------------------------- MODULE AccessControl ----------------------------
(***************************************************************************)
(* Who may do what with the resources of one topic: the read API of        *)
(* pkg/controller (CheckPermission, CheckMultiplePermissions,              *)
(* ListComputedPermissions) over the permissions SetPermission stores,     *)
(* next to the same calls on the in-memory database of the test client.    *)
(*                                                                         *)
(* A read is a function of one state here.  SetPermission is two steps:    *)
(* it reads the topic, the access and the current entry, and stores later. *)
(***************************************************************************)
EXTENDS Permissions

CONSTANTS
    Resources,
    Modifiers,      \* what may follow "$" in an id
    NoModifier,     \* the id has no "$"
    Requests,       \* SetPermission requests in flight
    Inputs,         \* the permissions callers send (and topics have as default)
    Tokens,         \* the callers
    SameGroup,      \* user-management: the users in a group with the user
    Unregistered, NoRequest, Refused

ASSUME InputsAssumption == \A perms \in Inputs : IsResourcePermissions(perms)
ASSUME TokensAssumption == Tokens \subseteq Token
ASSUME SameGroupAssumption == SameGroup \in [Users -> SUBSET Users]

VARIABLES
    defaults,   \* Topic.DefaultPermissions, or Unregistered
    entries,    \* the permissions collection of MongoDB, by resource id
    mock,       \* the resources of the in-memory database, by resource id
    pending     \* SetPermission requests that have passed all checks

vars == <<defaults, entries, mock, pending>>

\* An id as callers write it; SplitModifier cuts it at the first "$".
Id == Resources \X (Modifiers \cup {NoModifier})
SplitModifier(id) == id[1]
Plain(r) == <<r, NoModifier>>

\* A request holds the permissions it stores; omitted tells whether a caller
\* who is no admin left the role permissions out.
IsPending(request) ==
    /\ DOMAIN request = {"id", "perms", "omitted"}
    /\ request.id \in Id
    /\ IsResourcePermissions(request.perms)
    /\ request.omitted \in BOOLEAN

TypeOK ==
    /\ defaults = Unregistered \/ IsResourcePermissions(defaults)
    /\ DOMAIN entries \subseteq Resources
    /\ entries \in [DOMAIN entries -> PermissionsEntry]
    /\ DOMAIN mock \subseteq Resources
    /\ \A r \in DOMAIN mock : IsResourcePermissions(mock[r])
    /\ DOMAIN pending = Requests
    /\ \A h \in Requests : pending[h] = NoRequest \/ IsPending(pending[h])

Init ==
    /\ defaults = Unregistered
    /\ entries = [r \in {} |-> {}]
    /\ mock = [r \in {} |-> {}]
    /\ pending = [h \in Requests |-> NoRequest]

Exists(r) == r \in DOMAIN entries

\* The map with r set to, or without r.
With(map, r, value) == [i \in DOMAIN map \cup {r} |-> IF i = r THEN value ELSE map[i]]
Without(map, r) == [i \in DOMAIN map \ {r} |-> map[i]]

-----------------------------------------------------------------------------
(* Reads                                                                   *)

\* "unknown topic" is an error, except for admins, who are not asked for one.
CheckTopicDefaultPermission(token, list) ==
    IF IsAdmin(token) THEN "granted"
    ELSE IF defaults = Unregistered THEN "unknown topic"
    ELSE IF checkTopicDefaultPermission(token, defaults, list) THEN "granted"
    ELSE "denied"

\* An unknown topic is answered with "no access".
CheckPermission(token, id, list) ==
    LET r == SplitModifier(id)
        access == CheckTopicDefaultPermission(token, list)
    IN \/ access = "granted"
       \/ access = "denied" /\ Exists(r) /\ checkPermissions(token, entries[r], list)

\* With access by default the entries are only looked up, with an empty list.
CheckMultiplePermissions(token, ids, list) ==
    LET access == CheckTopicDefaultPermission(token, list)
        asked == IF access = "granted" THEN {} ELSE list
    IN IF access = "unknown topic" THEN Refused
       ELSE [id \in {i \in ids : Exists(SplitModifier(i))} |->
               checkPermissions(token, entries[SplitModifier(id)], asked)]

\* The ids are compared with those stored without SplitModifier; an id that is
\* not found gets a map with nothing granted.
ListComputedPermissions(token, ids) ==
    IF defaults = Unregistered THEN Refused
    ELSE [id \in ids |->
            LET r == SplitModifier(id) IN
            IF id = Plain(r) /\ Exists(r)
              THEN IF IsAdmin(token) THEN Permission
                   ELSE ComputePermissionsMap(token, ToResource(entries[r]), defaults)
              ELSE {}]

-----------------------------------------------------------------------------
(* SetPermission                                                           *)

\* db.GetResource with the id as the caller wrote it: an entry is stored under
\* an id without modifier.  A resource that is not found has empty maps.
Current(id) ==
    LET r == SplitModifier(id)
    IN IF id = Plain(r) /\ Exists(r) THEN ToResource(entries[r]) ELSE NoPermissions

\* checkEditPermission; omitted: RolePermissions is nil in the request.
EditedPermissions(token, id, perms, omitted) ==
    IF omitted /\ ~IsAdmin(token) THEN WithRolesOf(perms, Current(id)) ELSE perms

\* Mutant: the role permissions are not compared.
checkEditPermissionAnyRoles(token, id, perms) ==
    LET added == DOMAIN perms \ DOMAIN Current(id) IN
    \/ IsAdmin(token)
    \/ /\ \A g \in Groups : <<"group", g>> \in added => g \in token.groups
       /\ \A u \in Users : <<"user", u>> \in added => u \in SameGroup[token.user]

\* Mutant: the subjects that were removed are looked at for those added.
checkEditPermissionSwapped(token, id, perms) ==
    LET added == DOMAIN Current(id) \ DOMAIN perms IN
    \/ IsAdmin(token)
    \/ /\ RolePart(perms) = RolePart(Current(id))
       /\ \A g \in Groups : <<"group", g>> \in added => g \in token.groups
       /\ \A u \in Users : <<"user", u>> \in added => u \in SameGroup[token.user]

\* With OnlyAdminsMayEditRolePermissions and a UserManagementUrl, as deployed.
checkEditPermission(token, id, perms) ==
    LET added == DOMAIN perms \ DOMAIN Current(id) IN
    \/ IsAdmin(token)
    \/ /\ RolePart(perms) = RolePart(Current(id))
       /\ \A g \in Groups : <<"group", g>> \in added => g \in token.groups
       /\ \A u \in Users : <<"user", u>> \in added => u \in SameGroup[token.user]

\* Mutant: the permissions are not looked at before they are stored.
CheckSetPermissionNotValid(h, token, id, perms, omitted) ==
    LET edited == EditedPermissions(token, id, perms, omitted) IN
    /\ pending[h] = NoRequest
    /\ CheckTopicDefaultPermission(token, {"a"}) = "granted"
    /\ checkEditPermission(token, id, edited)
    /\ pending' = [pending EXCEPT ![h] =
         [id |-> id, perms |-> edited, omitted |-> omitted /\ ~IsAdmin(token)]]
    /\ UNCHANGED <<defaults, entries, mock>>

\* Everything SetPermission reads before it stores.
CheckSetPermission(h, token, id, perms, omitted) ==
    LET edited == EditedPermissions(token, id, perms, omitted) IN
    /\ pending[h] = NoRequest
    /\ defaults # Unregistered
    /\ \/ checkTopicDefaultPermission(token, defaults, {"a"})
       \/ /\ Exists(SplitModifier(id))
          /\ checkPermissions(token, entries[SplitModifier(id)], {"a"})
    /\ omitted => RolePart(perms) = NoPermissions
    /\ Valid(perms)
    /\ checkEditPermission(token, id, edited)
    /\ pending' = [pending EXCEPT ![h] =
         [id |-> id, perms |-> edited, omitted |-> omitted /\ ~IsAdmin(token)]]
    /\ UNCHANGED <<defaults, entries, mock>>

\* Mutant: the entry is stored under the id as the caller wrote it.
SetPermissionUnsplit(h) ==
    LET id == pending[h].id
        key == IF id[2] = NoModifier THEN id[1] ELSE id
    IN
    /\ pending[h] # NoRequest
    /\ entries' = With(entries, key, setResourcePermissions(pending[h].perms))
    /\ pending' = [pending EXCEPT ![h] = NoRequest]
    /\ UNCHANGED <<defaults, mock>>

\* db.SetResource, under the id without modifier.
SetPermission(h) ==
    LET r == SplitModifier(pending[h].id) IN
    /\ pending[h] # NoRequest
    /\ entries' = With(entries, r, setResourcePermissions(pending[h].perms))
    /\ mock' = With(mock, r, pending[h].perms)
    /\ pending' = [pending EXCEPT ![h] = NoRequest]
    /\ UNCHANGED defaults

-----------------------------------------------------------------------------
(* What admins do                                                          *)

\* The id is not split: with a modifier nothing is deleted.
RemoveResource(id) ==
    LET r == SplitModifier(id) IN
    /\ id = Plain(r) /\ Exists(r)
    /\ entries' = Without(entries, r)
    /\ mock' = Without(mock, r)
    /\ UNCHANGED <<defaults, pending>>

SetTopic(perms) ==
    /\ defaults # perms
    /\ defaults' = perms
    /\ UNCHANGED <<entries, mock, pending>>

\* Both deletes of db.DeleteTopic at once; PermissionSync has them apart.
RemoveTopic ==
    /\ defaults' = Unregistered
    /\ entries' = [r \in {} |-> {}]
    /\ mock' = [r \in {} |-> {}]
    /\ UNCHANGED pending

Next ==
    \/ \E h \in Requests, token \in Tokens, id \in Id, perms \in Inputs,
          omitted \in BOOLEAN : CheckSetPermission(h, token, id, perms, omitted)
    \/ \E h \in Requests : SetPermission(h)
    \/ \E id \in Id : RemoveResource(id)
    \/ \E perms \in Inputs : SetTopic(perms)
    \/ RemoveTopic

Spec == Init /\ [][Next]_vars

-----------------------------------------------------------------------------
(***************************************************************************)
(* The twelve lists of a MongoDB entry and the in-memory database grant    *)
(* the same: a service tested against client.NewTestClient gets the        *)
(* decisions it will get from the service, for every caller and list.      *)
(***************************************************************************)
BackendsAgree ==
    /\ DOMAIN entries = DOMAIN mock
    /\ \A r \in DOMAIN mock :
         /\ \A token \in Tokens, list \in SUBSET Permission :
              checkPermissions(token, entries[r], list)
                <=> checkPerms(token, mock[r], list)
         /\ \A s \in Subject :
              Grants(ToResource(entries[r]), s) = Grants(mock[r], s)

(***************************************************************************)
(* Every stored resource can be administrated by a user of its own, the    *)
(* topic's defaults aside: what Valid asks of a request is still true of   *)
(* the lists the entry is stored as, through every edit.                   *)
(***************************************************************************)
ResourcesHaveAdmin ==
    \A r \in Resources : Exists(r) => \E u \in Users : <<"user", u>> \in entries[r]["a"]

(***************************************************************************)
(* ListComputedPermissions, which merges grants in the service, against    *)
(* CheckPermission, which has the database decide.  For the id of a stored *)
(* resource it shows every permission that is granted, alone or in a list; *)
(* a list of permissions that are all shown is only denied when it is put  *)
(* together from a permission only the defaults grant and one that only    *)
(* the resource grants, since the two are decided apart; a single          *)
(* permission is shown if and only if it is granted.  For any other id     *)
(* nothing is shown, although a check may grant something: an id with      *)
(* modifier, which only the check splits, has the grants of its resource,  *)
(* an id of no resource has those of the defaults and of admins.           *)
(***************************************************************************)
ComputedMatchesCheck ==
    defaults # Unregistered =>
        \A token \in Tokens, id \in Id, list \in SUBSET Permission :
            LET r == SplitModifier(id)
                shown == ListComputedPermissions(token, {id})[id]
                Default(p) == checkTopicDefaultPermission(token, defaults, {p})
                Granted(p) == checkPermissions(token, entries[r], {p})
            IN IF id = Plain(r) /\ Exists(r)
                 THEN IF CheckPermission(token, id, list) THEN list \subseteq shown
                      ELSE list \subseteq shown =>
                             \E p, q \in list : /\ Default(p) /\ ~Granted(p)
                                                /\ Granted(q) /\ ~Default(q)
                 ELSE /\ shown = {}
                      /\ CheckPermission(token, id, list) =>
                           Exists(r) \/ \A p \in list : Default(p)

(***************************************************************************)
(* A request that leaves the role permissions out keeps those of the entry *)
(* it replaces ("permissionsWithMissingApplied").  The code reads them     *)
(* some time before it stores, under the id as the caller wrote it; see    *)
(* the run omitted_roles.                                                  *)
(***************************************************************************)
OmittedRolesAreKept ==
    [][\A h \in Requests :
         LET r == SplitModifier(pending[h].id) IN
         SetPermission(h) /\ pending[h].omitted /\ Exists(r) =>
             RolePart(ToResource(entries'[r])) = RolePart(ToResource(entries[r]))]_vars
=============================================================================
