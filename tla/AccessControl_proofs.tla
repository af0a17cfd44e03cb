------------------------ MODULE AccessControl_proofs ------------------------
(***************************************************************************)
(* The proofs of AccessControl, ReadPath and EditRights.  An entry of the MongoDB      *)
(* collection is at all times the twelve-list form of what the in-memory   *)
(* database holds for the same id, and both come from a request that       *)
(* passed Valid; what the read API answers follows from that.              *)
(***************************************************************************)
EXTENDS ReadPath, EditRights, TLAPS

-----------------------------------------------------------------------------
(* Lemmas about grants                                                     *)

\* What checkPermissions reads in the lists is what the maps grant.
LEMMA StoredGrants ==
    ASSUME NEW perms, IsResourcePermissions(perms), NEW s, NEW p \in Permission
    PROVE  s \in setResourcePermissions(perms)[p] <=> p \in Grants(perms, s)
BY DEF IsResourcePermissions, setResourcePermissions, Grants

\* The lists are well-formed.
LEMMA StoredType ==
    ASSUME NEW perms, IsResourcePermissions(perms)
    PROVE  setResourcePermissions(perms) \in PermissionsEntry
BY DEF IsResourcePermissions, setResourcePermissions, PermissionsEntry

\* Reading the lists back gives the subjects with what each list grants them.
LEMMA ReadGrants ==
    ASSUME NEW entry \in PermissionsEntry, NEW s, NEW p \in Permission
    PROVE  p \in Grants(ToResource(entry), s) <=> s \in entry[p]
BY DEF PermissionsEntry, ToResource, Grants

\* A resource read from the lists is well-formed.
LEMMA ReadType ==
    ASSUME NEW entry \in PermissionsEntry
    PROVE  IsResourcePermissions(ToResource(entry))
BY DEF PermissionsEntry, ToResource, IsResourcePermissions

\* Storing and reading back changes no grant.
LEMMA RoundTrip ==
    ASSUME NEW perms, IsResourcePermissions(perms), NEW s
    PROVE  Grants(ToResource(setResourcePermissions(perms)), s) = Grants(perms, s)
<1> DEFINE entry == setResourcePermissions(perms)
<1>1. entry \in PermissionsEntry
  BY StoredType
<1>2. Grants(perms, s) \subseteq Permission
  BY DEF Grants, IsResourcePermissions
<1>3. Grants(ToResource(entry), s) \subseteq Permission
  BY DEF Grants, ToResource
<1>4. ASSUME NEW p \in Permission
      PROVE  p \in Grants(ToResource(entry), s) <=> p \in Grants(perms, s)
  <2>1. p \in Grants(ToResource(entry), s) <=> s \in entry[p]
    BY <1>1, ReadGrants
  <2>2. s \in entry[p] <=> p \in Grants(perms, s)
    BY StoredGrants
  <2> QED
    BY <2>1, <2>2
<1> QED
  BY <1>2, <1>3, <1>4

\* Both databases decide alike on the same permissions.
LEMMA SameDecision ==
    ASSUME NEW perms, IsResourcePermissions(perms), NEW token,
           NEW list \in SUBSET Permission
    PROVE  checkPermissions(token, setResourcePermissions(perms), list)
             <=> checkPerms(token, perms, list)
<1>1. ASSUME NEW p \in list
      PROVE  SubjectsOf(token) \cap setResourcePermissions(perms)[p] # {}
               <=> checkPerm(token, perms, p)
  BY StoredGrants DEF checkPerm
<1> QED
  BY <1>1 DEF checkPermissions, checkPerms

\* The role part of another resource keeps a request well-formed and Valid.
LEMMA EditedIsValid ==
    ASSUME NEW perms, IsResourcePermissions(perms), Valid(perms),
           NEW other, IsResourcePermissions(other)
    PROVE  /\ IsResourcePermissions(WithRolesOf(perms, other))
           /\ Valid(WithRolesOf(perms, other))
<1> DEFINE edited == WithRolesOf(perms, other)
<1>1. IsResourcePermissions(edited)
  BY DEF IsResourcePermissions, WithRolesOf
<1>2. PICK u \in Users : "a" \in Grants(perms, <<"user", u>>)
  BY DEF Valid
<1>3. "a" \in Grants(edited, <<"user", u>>)
  BY <1>2 DEF Grants, WithRolesOf
<1> QED
  BY <1>1, <1>3 DEF Valid

-----------------------------------------------------------------------------
(***************************************************************************)
(* The inductive invariant: the two databases hold the same resources, in  *)
(* their two forms, and everything stored or about to be was Valid.        *)
(***************************************************************************)
StoredInv ==
    /\ DOMAIN entries = DOMAIN mock
    /\ \A r \in DOMAIN mock :
         entries[r] = setResourcePermissions(mock[r]) /\ Valid(mock[r])

PendingInv == \A h \in Requests : pending[h] # NoRequest => Valid(pending[h].perms)

IInv == TypeOK /\ StoredInv /\ PendingInv

LEMMA InitInv == Init => IInv
BY DEF Init, IInv, TypeOK, StoredInv, PendingInv

\* What SetPermission passes on to the database is well-formed and Valid.
LEMMA EditedRequest ==
    ASSUME TypeOK, NEW token, NEW id \in Id, NEW omitted, NEW perms,
           IsResourcePermissions(perms), Valid(perms)
    PROVE  /\ IsResourcePermissions(EditedPermissions(token, id, perms, omitted))
           /\ Valid(EditedPermissions(token, id, perms, omitted))
<1>1. IsResourcePermissions(NoPermissions)
  BY DEF NoPermissions, IsResourcePermissions
<1>2. Exists(SplitModifier(id)) => entries[SplitModifier(id)] \in PermissionsEntry
  BY DEF TypeOK, Exists
<1>3. IsResourcePermissions(Current(id))
  BY <1>1, <1>2, ReadType DEF Current
<1>4. /\ IsResourcePermissions(WithRolesOf(perms, Current(id)))
      /\ Valid(WithRolesOf(perms, Current(id)))
  BY <1>3, EditedIsValid
<1> QED
  BY <1>4 DEF EditedPermissions

LEMMA CheckSetPermissionInv ==
    ASSUME IInv, NEW h \in Requests, NEW token \in Tokens, NEW id \in Id,
           NEW perms \in Inputs, NEW omitted \in BOOLEAN,
           CheckSetPermission(h, token, id, perms, omitted)
    PROVE  IInv'
<1> DEFINE edited == EditedPermissions(token, id, perms, omitted)
           request == [id |-> id, perms |-> edited,
                       omitted |-> omitted /\ ~IsAdmin(token)]
<1>1. /\ Valid(perms)
      /\ pending' = [pending EXCEPT ![h] = request]
      /\ UNCHANGED <<defaults, entries, mock>>
  BY DEF CheckSetPermission
<1>2. IsResourcePermissions(perms)
  BY InputsAssumption
<1>3. IsResourcePermissions(edited) /\ Valid(edited)
  BY <1>1, <1>2, EditedRequest DEF IInv
<1>4. (omitted /\ ~IsAdmin(token)) \in BOOLEAN
  OBVIOUS
<1>5. IsPending(request) /\ request.perms = edited
  BY <1>3, <1>4 DEF IsPending
<1> HIDE DEF edited, request
<1>6. TypeOK'
  BY <1>1, <1>5 DEF IInv, TypeOK
<1>7. StoredInv'
  BY <1>1 DEF IInv, StoredInv
<1>8. PendingInv'
  BY <1>1, <1>3, <1>5 DEF IInv, PendingInv, TypeOK
<1> QED
  BY <1>6, <1>7, <1>8 DEF IInv

LEMMA SetPermissionInv ==
    ASSUME IInv, NEW h \in Requests, SetPermission(h)
    PROVE  IInv'
<1> DEFINE r == SplitModifier(pending[h].id)
           perms == pending[h].perms
<1>1. IsPending(pending[h]) /\ Valid(perms)
  BY DEF IInv, TypeOK, PendingInv, SetPermission
<1>2. r \in Resources /\ IsResourcePermissions(perms)
  BY <1>1 DEF IsPending, Id, SplitModifier
<1>3. setResourcePermissions(perms) \in PermissionsEntry
  BY <1>2, StoredType
<1>4. /\ entries' = With(entries, r, setResourcePermissions(perms))
      /\ mock' = With(mock, r, perms)
      /\ pending' = [pending EXCEPT ![h] = NoRequest]
      /\ defaults' = defaults
  BY DEF SetPermission
<1> HIDE DEF r, perms
<1>5. TypeOK'
  <2>1. DOMAIN entries' \subseteq Resources /\ entries' \in [DOMAIN entries' -> PermissionsEntry]
    BY <1>2, <1>3, <1>4 DEF IInv, TypeOK, With
  <2>2. DOMAIN mock' \subseteq Resources /\ \A i \in DOMAIN mock' : IsResourcePermissions(mock'[i])
    BY <1>2, <1>4 DEF IInv, TypeOK, With
  <2>3. DOMAIN pending' = Requests /\ \A i \in Requests : pending'[i] = NoRequest \/ IsPending(pending'[i])
    BY <1>4 DEF IInv, TypeOK
  <2> QED
    BY <2>1, <2>2, <2>3, <1>4 DEF IInv, TypeOK
<1>6. StoredInv'
  BY <1>1, <1>4 DEF IInv, StoredInv, With, perms
<1>7. PendingInv'
  BY <1>4 DEF IInv, PendingInv, TypeOK
<1> QED
  BY <1>5, <1>6, <1>7 DEF IInv

LEMMA RemoveResourceInv ==
    ASSUME IInv, NEW id \in Id, RemoveResource(id)
    PROVE  IInv'
<1>1. PICK r : entries' = Without(entries, r) /\ mock' = Without(mock, r)
  BY DEF RemoveResource
<1>2. UNCHANGED <<defaults, pending>>
  BY DEF RemoveResource
<1>3. TypeOK'
  BY <1>1, <1>2 DEF IInv, TypeOK, Without
<1>4. StoredInv'
  BY <1>1 DEF IInv, StoredInv, Without
<1>5. PendingInv'
  BY <1>2 DEF IInv, PendingInv
<1> QED
  BY <1>3, <1>4, <1>5 DEF IInv

LEMMA SetTopicInv ==
    ASSUME IInv, NEW perms \in Inputs, SetTopic(perms)
    PROVE  IInv'
BY InputsAssumption DEF IInv, TypeOK, StoredInv, PendingInv, SetTopic

LEMMA RemoveTopicInv ==
    ASSUME IInv, RemoveTopic
    PROVE  IInv'
BY DEF IInv, TypeOK, StoredInv, PendingInv, RemoveTopic

LEMMA NextInv == IInv /\ [Next]_vars => IInv'
<1> SUFFICES ASSUME IInv, [Next]_vars
             PROVE  IInv'
  OBVIOUS
<1>1. ASSUME NEW h \in Requests, NEW token \in Tokens, NEW id \in Id,
             NEW perms \in Inputs, NEW omitted \in BOOLEAN,
             CheckSetPermission(h, token, id, perms, omitted)
      PROVE  IInv'
  BY <1>1, CheckSetPermissionInv
<1>2. ASSUME NEW h \in Requests, SetPermission(h)
      PROVE  IInv'
  BY <1>2, SetPermissionInv
<1>3. ASSUME NEW id \in Id, RemoveResource(id)
      PROVE  IInv'
  BY <1>3, RemoveResourceInv
<1>4. ASSUME NEW perms \in Inputs, SetTopic(perms)
      PROVE  IInv'
  BY <1>4, SetTopicInv
<1>5. CASE RemoveTopic
  BY <1>5, RemoveTopicInv
<1>6. CASE UNCHANGED vars
  BY <1>6 DEF IInv, TypeOK, StoredInv, PendingInv, vars
<1> QED
  BY <1>1, <1>2, <1>3, <1>4, <1>5, <1>6 DEF Next

LEMMA Invariance == Spec => []IInv
BY InitInv, NextInv, PTL DEF Spec

-----------------------------------------------------------------------------
(* What follows from it in every state                                     *)

LEMMA AgreeInState == IInv => BackendsAgree
<1> SUFFICES ASSUME IInv
             PROVE  BackendsAgree
  OBVIOUS
<1>1. ASSUME NEW r \in DOMAIN mock
      PROVE  /\ IsResourcePermissions(mock[r])
             /\ entries[r] = setResourcePermissions(mock[r])
  BY DEF IInv, TypeOK, StoredInv
<1>2. ASSUME NEW r \in DOMAIN mock, NEW token \in Tokens, NEW list \in SUBSET Permission
      PROVE  checkPermissions(token, entries[r], list) <=> checkPerms(token, mock[r], list)
  BY <1>1, SameDecision
<1>3. ASSUME NEW r \in DOMAIN mock, NEW s \in Subject
      PROVE  Grants(ToResource(entries[r]), s) = Grants(mock[r], s)
  BY <1>1, RoundTrip
<1> QED
  BY <1>2, <1>3 DEF BackendsAgree, IInv, StoredInv

LEMMA AdminInState == IInv => ResourcesHaveAdmin
<1> SUFFICES ASSUME IInv, NEW r \in DOMAIN entries
             PROVE  \E u \in Users : <<"user", u>> \in entries[r]["a"]
  BY DEF ResourcesHaveAdmin, Exists
<1>1. /\ IsResourcePermissions(mock[r])
      /\ entries[r] = setResourcePermissions(mock[r])
      /\ Valid(mock[r])
  BY DEF IInv, TypeOK, StoredInv
<1>2. PICK u \in Users : "a" \in Grants(mock[r], <<"user", u>>)
  BY <1>1 DEF Valid
<1>3. "a" \in Permission
  BY DEF Permission
<1> QED
  BY <1>1, <1>2, <1>3, StoredGrants

\* A single permission is computed if and only if it is granted.
LEMMA OneComputed ==
    ASSUME TypeOK, defaults # Unregistered, NEW token \in Tokens,
           NEW r \in Resources, NEW p \in Permission, Exists(r)
    PROVE  p \in ListComputedPermissions(token, {Plain(r)})[Plain(r)]
             <=> CheckPermission(token, Plain(r), {p})
<1> DEFINE stored == ToResource(entries[r])
<1>1. SplitModifier(Plain(r)) = r
  BY DEF SplitModifier, Plain
<1>2. entries[r] \in PermissionsEntry
  BY DEF TypeOK, Exists
<1>3. ListComputedPermissions(token, {Plain(r)})[Plain(r)]
        = IF IsAdmin(token) THEN Permission ELSE ComputePermissionsMap(token, stored, defaults)
  BY <1>1 DEF ListComputedPermissions
<1>4. CheckPermission(token, Plain(r), {p})
        <=> \/ checkTopicDefaultPermission(token, defaults, {p})
            \/ checkPermissions(token, entries[r], {p})
  BY <1>1 DEF CheckPermission, CheckTopicDefaultPermission, checkTopicDefaultPermission
<1>5. checkTopicDefaultPermission(token, defaults, {p})
        <=> IsAdmin(token) \/ \E s \in SubjectsOf(token) : p \in Grants(defaults, s)
  BY DEF checkTopicDefaultPermission
<1>6. checkPermissions(token, entries[r], {p})
        <=> \E s \in SubjectsOf(token) : p \in Grants(stored, s)
  BY <1>2, ReadGrants DEF checkPermissions
<1>7. p \in ComputePermissionsMap(token, stored, defaults)
        <=> \E s \in SubjectsOf(token) : p \in Grants(stored, s) \/ p \in Grants(defaults, s)
  BY DEF ComputePermissionsMap
<1> QED
  BY <1>3, <1>4, <1>5, <1>6, <1>7

\* The list is put together from one permission of the defaults alone and one
\* of the resource alone.
MixedList(token, r, list) ==
    \E p, q \in list :
        /\ checkTopicDefaultPermission(token, defaults, {p})
        /\ ~checkPermissions(token, entries[r], {p})
        /\ checkPermissions(token, entries[r], {q})
        /\ ~checkTopicDefaultPermission(token, defaults, {q})

\* The id of a stored resource: a list is decided by the defaults as a whole or
\* by the entry as a whole.
LEMMA ListComputed ==
    ASSUME TypeOK, defaults # Unregistered, NEW token \in Tokens, NEW id,
           NEW r \in Resources, NEW list \in SUBSET Permission, id = Plain(r), Exists(r)
    PROVE  IF CheckPermission(token, id, list)
             THEN list \subseteq ListComputedPermissions(token, {id})[id]
             ELSE list \subseteq ListComputedPermissions(token, {id})[id] =>
                    MixedList(token, r, list)
<1> DEFINE shown == ListComputedPermissions(token, {Plain(r)})[Plain(r)]
           Default(p) == checkTopicDefaultPermission(token, defaults, {p})
           Granted(p) == checkPermissions(token, entries[r], {p})
<1>1. ASSUME NEW l
      PROVE  CheckPermission(token, Plain(r), l)
               <=> \/ checkTopicDefaultPermission(token, defaults, l)
                   \/ checkPermissions(token, entries[r], l)
  BY DEF CheckPermission, CheckTopicDefaultPermission, checkTopicDefaultPermission,
         SplitModifier, Plain
<1>2. ASSUME NEW p \in list
      PROVE  p \in shown <=> Default(p) \/ Granted(p)
  <2>1. p \in shown <=> CheckPermission(token, Plain(r), {p})
    BY OneComputed
  <2> QED
    BY <2>1, <1>1
<1>3. checkTopicDefaultPermission(token, defaults, list) <=> \A p \in list : Default(p)
  BY DEF checkTopicDefaultPermission
<1>4. checkPermissions(token, entries[r], list) <=> \A p \in list : Granted(p)
  BY DEF checkPermissions
<1>5. MixedList(token, r, list) <=>
        \E p, q \in list : Default(p) /\ ~Granted(p) /\ Granted(q) /\ ~Default(q)
  BY DEF MixedList
<1> HIDE DEF shown, Default, Granted
<1>6. IF CheckPermission(token, Plain(r), list) THEN list \subseteq shown
      ELSE list \subseteq shown => MixedList(token, r, list)
  BY <1>1, <1>2, <1>3, <1>4, <1>5
<1> QED
  BY <1>6 DEF shown

\* Any other id is not among those that are compared.
LEMMA OtherComputed ==
    ASSUME defaults # Unregistered, NEW token \in Tokens, NEW id \in Id,
           NEW list \in SUBSET Permission,
           ~(id = Plain(SplitModifier(id)) /\ Exists(SplitModifier(id)))
    PROVE  /\ ListComputedPermissions(token, {id})[id] = {}
           /\ CheckPermission(token, id, list) =>
                \/ Exists(SplitModifier(id))
                \/ \A p \in list : checkTopicDefaultPermission(token, defaults, {p})
<1>1. ListComputedPermissions(token, {id})[id] = {}
  BY DEF ListComputedPermissions
<1>2. ASSUME CheckPermission(token, id, list), ~Exists(SplitModifier(id)), NEW p \in list
      PROVE  checkTopicDefaultPermission(token, defaults, {p})
  BY <1>2 DEF CheckPermission, CheckTopicDefaultPermission, checkTopicDefaultPermission
<1> QED
  BY <1>1, <1>2

LEMMA ComputedInState == TypeOK => ComputedMatchesCheck
<1> SUFFICES ASSUME TypeOK PROVE ComputedMatchesCheck
  OBVIOUS
<1>1. ASSUME defaults # Unregistered, NEW token \in Tokens, NEW id \in Id,
             NEW list \in SUBSET Permission
      PROVE  IF id = Plain(SplitModifier(id)) /\ Exists(SplitModifier(id))
               THEN IF CheckPermission(token, id, list)
                      THEN list \subseteq ListComputedPermissions(token, {id})[id]
                      ELSE list \subseteq ListComputedPermissions(token, {id})[id] =>
                             MixedList(token, SplitModifier(id), list)
               ELSE /\ ListComputedPermissions(token, {id})[id] = {}
                    /\ CheckPermission(token, id, list) =>
                         \/ Exists(SplitModifier(id))
                         \/ \A p \in list : checkTopicDefaultPermission(token, defaults, {p})
  <2>1. SplitModifier(id) \in Resources
    BY DEF Id, SplitModifier
  <2>2. CASE id = Plain(SplitModifier(id)) /\ Exists(SplitModifier(id))
    BY <1>1, <2>1, <2>2, ListComputed
  <2>3. CASE ~(id = Plain(SplitModifier(id)) /\ Exists(SplitModifier(id)))
    BY <1>1, <2>3, OtherComputed
  <2> QED
    BY <2>2, <2>3
<1> QED
  BY <1>1 DEF ComputedMatchesCheck, MixedList

-----------------------------------------------------------------------------
(***************************************************************************)
(* Type correctness: every request leaves well-formed entries behind.      *)
(***************************************************************************)
THEOREM TypeCorrect == Spec => []TypeOK
BY Invariance, PTL DEF IInv

(***************************************************************************)
(* The in-memory database of the test client and the lists MongoDB stores  *)
(* decide alike for every caller, whatever was set and removed before.     *)
(***************************************************************************)
THEOREM SameGrants == Spec => []BackendsAgree
BY Invariance, AgreeInState, PTL

(***************************************************************************)
(* No sequence of SetPermission, RemoveResource and topic operations       *)
(* leaves a resource that no user may administrate.                        *)
(***************************************************************************)
THEOREM AdminRemains == Spec => []ResourcesHaveAdmin
BY Invariance, AdminInState, PTL

(***************************************************************************)
(* For the id of a stored resource, a list that CheckPermission grants is  *)
(* computed as well, and one that is computed and not granted takes one    *)
(* permission from the defaults alone and another from the resource alone  *)
(* (check.go:42-62 and 168).  An id with modifier and one of no resource   *)
(* are computed as nothing, whatever a check grants: for the second only   *)
(* what the defaults or the role of an admin grant.                        *)
(***************************************************************************)
THEOREM ComputedIsChecked == Spec => []ComputedMatchesCheck
<1>1. Spec => []TypeOK
  BY TypeCorrect
<1> QED
  BY <1>1, ComputedInState, PTL

-----------------------------------------------------------------------------
(* ReadPath: as long as a part of what a check reads is not written, that  *)
(* part still says what it said when the check began: the defaults deny    *)
(* access, and the entry grants it if CheckPermission did.                 *)

DecisionNow(q) == IF Decision(q) THEN TRUE \in read.decisions ELSE FALSE \in read.decisions
DefaultsDeny(q) ==
    "topic" \notin read.changed =>
        CheckTopicDefaultPermission(q.token, q.list) = "denied"
EntryGrants(q) ==
    FALSE \notin read.decisions /\ "entry" \notin read.changed => CheckResourcePermissions(q)
TopicIsThere(q) ==
    "removed" \notin read.changed => defaults # Unregistered

\* What a check in flight knows of the state it answers in.
ReadInv(q) == DecisionNow(q) /\ DefaultsDeny(q) /\ EntryGrants(q) /\ TopicIsThere(q)
ReadsInv ==
    \/ read = NoRead
    \/ /\ read \in Read
       /\ ReadInv(read.question)

\* CheckPermission is the default, or the entry of a topic that is there.
LEMMA DecisionParts ==
    ASSUME NEW q
    PROVE  Decision(q) <=>
             \/ CheckTopicDefaultPermission(q.token, q.list) = "granted"
             \/ /\ CheckTopicDefaultPermission(q.token, q.list) = "denied"
                /\ CheckResourcePermissions(q)
BY DEF Decision, CheckPermission, CheckResourcePermissions

\* Of a topic that is there CheckTopicDefaultPermission grants or denies.
LEMMA KnownTopic ==
    ASSUME NEW q, defaults # Unregistered
    PROVE  CheckTopicDefaultPermission(q.token, q.list) \in {"granted", "denied"}
BY DEF CheckTopicDefaultPermission

\* A check starts with a topic that is there and denies access.
LEMMA ReadTopicInv ==
    ASSUME NEW q \in Questions, ReadTopic(q)
    PROVE  ReadsInv'
<1>1. /\ read' = [question |-> q, decisions |-> {Decision(q)}, changed |-> {}]
      /\ CheckTopicDefaultPermission(q.token, q.list) = "denied"
      /\ UNCHANGED vars
  BY DEF ReadTopic
<1>2. Decision(q) \in BOOLEAN
  BY DEF Decision, CheckPermission
<1>3. read' \in Read
  BY <1>1, <1>2 DEF Read
<1>4. /\ read'.question = q /\ read'.decisions = {Decision(q)} /\ read'.changed = {}
  BY <1>1
<1>5. /\ defaults' = defaults /\ entries' = entries
  BY <1>1 DEF vars
<1>6. /\ Decision(q)' <=> Decision(q)
      /\ CheckTopicDefaultPermission(q.token, q.list)' = "denied"
      /\ CheckResourcePermissions(q)' <=> CheckResourcePermissions(q)
  BY <1>1, <1>5 DEF Decision, CheckPermission, CheckTopicDefaultPermission,
                    CheckResourcePermissions, Exists
<1>7. DecisionNow(q)'
  BY <1>2, <1>4, <1>6 DEF DecisionNow
<1>8. DefaultsDeny(q)'
  BY <1>6 DEF DefaultsDeny
<1>9. EntryGrants(q)'
  BY <1>1, <1>2, <1>4, <1>6, DecisionParts DEF EntryGrants
<1>10. TopicIsThere(q)'
  <2>1. defaults # Unregistered
    BY <1>1 DEF CheckTopicDefaultPermission
  <2> QED
    BY <2>1, <1>5 DEF TopicIsThere
<1> QED
  BY <1>3, <1>4, <1>7, <1>8, <1>9, <1>10 DEF ReadsInv, ReadInv

\* Nobody else's step makes a check in flight wrong about what is unchanged.
LEMMA OtherStepInv ==
    ASSUME ReadsInv, OtherStep
    PROVE  ReadsInv'
<1>1. CASE read = NoRead /\ read' = NoRead
  BY <1>1 DEF ReadsInv
<1>2. ASSUME NEW q \in Questions, read # NoRead, read.question = q,
             read' = [question |-> q,
                      decisions |-> read.decisions \cup {Decision(q)'},
                      changed |-> read.changed \cup Changes(q)]
      PROVE  ReadsInv'
  <2>1. /\ read \in Read /\ ReadInv(q)
    BY <1>2 DEF ReadsInv
  <2>2. /\ Decision(q)' \in BOOLEAN
        /\ Changes(q) \subseteq {"topic", "entry", "removed"}
    BY DEF Decision, CheckPermission, Changes
  <2>3. read' \in Read
    BY <1>2, <2>1, <2>2 DEF Read
  <2>4. /\ read'.question = q
        /\ read'.decisions = read.decisions \cup {Decision(q)'}
        /\ read'.changed = read.changed \cup Changes(q)
    BY <1>2
  <2>5. DecisionNow(q)'
    BY <2>2, <2>4 DEF DecisionNow
  <2>6. DefaultsDeny(q)'
    <3>1. SUFFICES ASSUME "topic" \notin read'.changed
                   PROVE  CheckTopicDefaultPermission(q.token, q.list)' = "denied"
      BY DEF DefaultsDeny
    <3>2. "topic" \notin read.changed /\ defaults' = defaults
      BY <2>4, <3>1 DEF Changes
    <3>3. CheckTopicDefaultPermission(q.token, q.list) = "denied"
      BY <2>1, <3>2 DEF ReadInv, DefaultsDeny
    <3> QED
      BY <3>2, <3>3 DEF CheckTopicDefaultPermission
  <2>7. EntryGrants(q)'
    <3>1. SUFFICES ASSUME FALSE \notin read'.decisions, "entry" \notin read'.changed
                   PROVE  CheckResourcePermissions(q)'
      BY DEF EntryGrants
    <3>2. /\ FALSE \notin read.decisions /\ "entry" \notin read.changed
          /\ ~EntryChanges(SplitModifier(q.id))
      BY <2>4, <3>1 DEF Changes
    <3>3. CheckResourcePermissions(q)
      BY <2>1, <3>2 DEF ReadInv, EntryGrants
    <3> QED
      BY <3>2, <3>3 DEF CheckResourcePermissions, EntryChanges, Exists
  <2>8. TopicIsThere(q)'
    BY <2>4 DEF TopicIsThere, Changes
  <2> QED
    BY <2>3, <2>4, <2>5, <2>6, <2>7, <2>8 DEF ReadsInv, ReadInv
<1> QED
  BY <1>1, <1>2 DEF OtherStep, Watched

\* The invariant is inductive.
LEMMA ReadsInvariant == ReadSpec => []ReadsInv
<1>1. ReadInit => ReadsInv
  BY DEF ReadInit, ReadsInv
<1>2. ReadsInv /\ [ReadNext]_<<vars, read>> => ReadsInv'
  <2> SUFFICES ASSUME ReadsInv, [ReadNext]_<<vars, read>>
               PROVE  ReadsInv'
    OBVIOUS
  <2>1. ASSUME NEW q \in Questions, ReadTopic(q)
        PROVE  ReadsInv'
    BY <2>1, ReadTopicInv
  <2>2. CASE ReadResource
    BY <2>2 DEF ReadResource, ReadsInv
  <2>3. CASE OtherStep
    BY <2>3, OtherStepInv
  <2>4. CASE UNCHANGED <<vars, read>>
    BY <2>4 DEF vars, ReadsInv, ReadInv, DecisionNow, DefaultsDeny, EntryGrants, TopicIsThere,
                Decision, CheckPermission, CheckTopicDefaultPermission,
                CheckResourcePermissions, Exists
  <2> QED
    BY <2>1, <2>2, <2>3, <2>4 DEF ReadNext
<1> QED
  BY <1>1, <1>2, PTL DEF ReadSpec

-----------------------------------------------------------------------------
(***************************************************************************)
(* Access that a check grants was there at some moment of the call, unless *)
(* the topic was removed (check.go:42-62).                                 *)
(***************************************************************************)
THEOREM GrantedAccessWasThere == ReadSpec => []GrantsWereRight
<1>1. ReadsInv => GrantsWereRight
  <2> SUFFICES ASSUME ReadsInv, read # NoRead, CheckResourcePermissions(read.question),
                      "removed" \notin read.changed
               PROVE  TRUE \in read.decisions
    BY DEF GrantsWereRight
  <2> DEFINE q == read.question
  <2>1. DecisionNow(q) /\ TopicIsThere(q)
    BY DEF ReadsInv, ReadInv
  <2>2. Decision(q)
    BY <2>1, KnownTopic, DecisionParts DEF TopicIsThere
  <2> QED
    BY <2>1, <2>2 DEF DecisionNow
<1> QED
  BY <1>1, ReadsInvariant, PTL

(***************************************************************************)
(* A check denies access that was there all the time only if both what it  *)
(* reads first and what it reads second are written (check.go:42-62).      *)
(***************************************************************************)
THEOREM DeniedAccessHasMoved == ReadSpec => []DeniedOnlyByMovedGrant
<1>1. ReadsInv => DeniedOnlyByMovedGrant
  <2> SUFFICES ASSUME ReadsInv, read # NoRead, ~CheckResourcePermissions(read.question),
                      FALSE \notin read.decisions
               PROVE  {"topic", "entry"} \subseteq read.changed
    BY DEF DeniedOnlyByMovedGrant
  <2> DEFINE q == read.question
  <2>1. DecisionNow(q) /\ DefaultsDeny(q) /\ EntryGrants(q)
    BY DEF ReadsInv, ReadInv
  <2>2. Decision(q)
    BY <2>1 DEF DecisionNow
  <2>3. CheckTopicDefaultPermission(q.token, q.list) = "granted"
    BY <2>2, DecisionParts
  <2>4. "topic" \in read.changed
    BY <2>1, <2>3 DEF DefaultsDeny
  <2>5. "entry" \in read.changed
    BY <2>1 DEF EntryGrants
  <2> QED
    BY <2>4, <2>5
<1> QED
  BY <1>1, ReadsInvariant, PTL

(***************************************************************************)
(* A check in flight is only a reader: what others do beside it is what    *)
(* AccessControl describes, and what is proved of that holds beside it.    *)
(***************************************************************************)
THEOREM ReadsChangeNothing == ReadSpec => Spec
<1>1. ReadInit => Init
  BY DEF ReadInit
<1>2. [ReadNext]_<<vars, read>> => [Next]_vars
  BY DEF ReadNext, ReadTopic, ReadResource, OtherStep
<1> QED
  BY <1>1, <1>2, PTL DEF ReadSpec, Spec

-----------------------------------------------------------------------------
(* EditRights: where the subjects of a stored resource come from.          *)

(***************************************************************************)
(* The history of EditRights changes no step: what is proved of            *)
(* AccessControl holds beside it.                                          *)
(***************************************************************************)
THEOREM EditsChangeNothing == EditSpec => Spec
<1>1. EditInit => Init
  BY DEF EditInit
<1>2. [EditNext]_<<vars, rights>> => [Next]_vars
  <2> SUFFICES ASSUME [EditNext]_<<vars, rights>>
               PROVE  [Next]_vars
    OBVIOUS
  <2>1. ASSUME NEW h \in Requests, NEW token \in Tokens, NEW id \in Id, NEW perms \in Inputs,
               NEW omitted \in BOOLEAN, Edit(h, token, id, perms, omitted)
        PROVE  Next
    <3>1. CheckSetPermission(h, token, id, perms, omitted)
      BY <2>1 DEF Edit
    <3> QED
      BY <3>1 DEF Next
  <2>2. ASSUME NEW h \in Requests, SetPermission(h)
        PROVE  Next
    BY <2>2 DEF Next
  <2>3. ASSUME NEW id \in Id, RemoveResource(id)
        PROVE  Next
    BY <2>3 DEF Next
  <2>4. ASSUME NEW perms \in Inputs, SetTopic(perms)
        PROVE  Next
    BY <2>4 DEF Next
  <2>5. CASE RemoveTopic
    BY <2>5 DEF Next
  <2>6. CASE UNCHANGED <<vars, rights>>
    BY <2>6
  <2> QED
    BY <2>1, <2>2, <2>3, <2>4, <2>5, <2>6 DEF EditNext
<1> QED
  BY <1>1, <1>2, PTL DEF EditSpec, Spec

\* The round trip keeps a role part in which every role is granted something.
LEMMA RolesSurvive ==
    ASSUME NEW perms, IsResourcePermissions(perms),
           \A s \in DOMAIN perms \cap RoleSubjects : perms[s] # {}
    PROVE  StoredRoles(perms) = RolePart(perms)
<1> DEFINE back == ToResource(setResourcePermissions(perms))
<1>1. ASSUME NEW s
      PROVE  s \in DOMAIN back <=> s \in DOMAIN perms /\ perms[s] # {}
  <2>1. s \in DOMAIN back <=> \E p \in Permission : s \in setResourcePermissions(perms)[p]
    BY DEF ToResource
  <2>2. (\E p \in Permission : s \in setResourcePermissions(perms)[p])
          <=> s \in DOMAIN perms /\ \E p \in Permission : p \in perms[s]
    BY DEF setResourcePermissions
  <2>3. s \in DOMAIN perms => perms[s] \subseteq Permission
    BY DEF IsResourcePermissions
  <2> QED
    BY <2>1, <2>2, <2>3
<1>2. ASSUME NEW s \in DOMAIN back
      PROVE  back[s] = perms[s]
  <2>1. s \in DOMAIN perms /\ perms[s] \subseteq Permission
    BY <1>1 DEF IsResourcePermissions
  <2>2. back[s] = {p \in Permission : s \in setResourcePermissions(perms)[p]}
    BY DEF ToResource
  <2> QED
    BY <2>1, <2>2 DEF setResourcePermissions
<1> HIDE DEF back
<1>3. DOMAIN back \cap RoleSubjects = DOMAIN perms \cap RoleSubjects
  BY <1>1
<1>4. RolePart(back) = RolePart(perms)
  BY <1>2, <1>3 DEF RolePart
<1> QED
  BY <1>4 DEF StoredRoles, back

\* A request that shows the role part of a resource stores it.
LEMMA KeptRoles ==
    ASSUME NEW perms, IsResourcePermissions(perms), NEW other,
           RolePart(perms) = RolePart(other), \A s \in DOMAIN other : other[s] # {}
    PROVE  StoredRoles(perms) = RolePart(other)
<1>1. ASSUME NEW s \in DOMAIN perms \cap RoleSubjects
      PROVE  perms[s] # {}
  <2>1. s \in DOMAIN RolePart(other) /\ RolePart(other)[s] = perms[s]
    BY DEF RolePart
  <2>2. s \in DOMAIN other /\ other[s] = perms[s]
    BY <2>1 DEF RolePart
  <2> QED
    BY <2>2
<1> QED
  BY <1>1, RolesSurvive

(***************************************************************************)
(* The invariant: the entries, and the requests that will replace them,    *)
(* hold role permissions an admin has sent and subjects that were named.   *)
(***************************************************************************)
Sanctioned(r, perms) ==
    /\ StoredRoles(perms) \in given[r]
    /\ DOMAIN perms \ RoleSubjects \subseteq named[r]

RightsInv ==
    /\ DOMAIN given = Resources /\ DOMAIN named = Resources
    /\ \A r \in Resources : NoPermissions \in given[r]
    /\ RolesAreGiven
    /\ SubjectsAreNamed
    /\ \A h \in Requests : pending[h] # NoRequest =>
         Sanctioned(SplitModifier(pending[h].id), pending[h].perms)

LEMMA RightsInit == EditInit => RightsInv
BY DEF EditInit, Init, RightsInv, RolesAreGiven, SubjectsAreNamed, Exists

\* What checkEditPermission reads: role permissions an admin has sent, or none.
LEMMA CurrentIsSanctioned ==
    ASSUME TypeOK, RightsInv, NEW id \in Id
    PROVE  /\ RolePart(Current(id)) \in given[SplitModifier(id)]
           /\ DOMAIN Current(id) \ RoleSubjects \subseteq named[SplitModifier(id)]
           /\ \A s \in DOMAIN Current(id) : Current(id)[s] # {}
           /\ IsResourcePermissions(Current(id))
<1> DEFINE r == SplitModifier(id)
<1>1. r \in Resources
  BY DEF Id, SplitModifier
<1>2. CASE id = Plain(r) /\ Exists(r)
  <2>1. Current(id) = ToResource(entries[r]) /\ entries[r] \in PermissionsEntry
    BY <1>2 DEF Current, TypeOK, Exists
  <2>2. RolePart(ToResource(entries[r])) \in given[r]
    BY <1>1, <1>2 DEF RightsInv, RolesAreGiven
  <2>3. \A p \in Permission : entries[r][p] \ RoleSubjects \subseteq named[r]
    BY <1>1, <1>2 DEF RightsInv, SubjectsAreNamed
  <2>4. ASSUME NEW s \in DOMAIN ToResource(entries[r])
        PROVE  ToResource(entries[r])[s] # {} /\ s \in RoleSubjects \cup named[r]
    <3>1. PICK p \in Permission : s \in entries[r][p]
      BY DEF ToResource
    <3> QED
      BY <2>3, <3>1 DEF ToResource
  <2> HIDE DEF r
  <2> QED
    BY <2>1, <2>2, <2>4, ReadType DEF r
<1>3. CASE ~(id = Plain(r) /\ Exists(r))
  <2>1. Current(id) = NoPermissions
    BY <1>3 DEF Current
  <2>2. DOMAIN NoPermissions = {} /\ RolePart(NoPermissions) = NoPermissions
    BY DEF NoPermissions, RolePart
  <2>3. IsResourcePermissions(NoPermissions)
    BY DEF NoPermissions, IsResourcePermissions
  <2>4. NoPermissions \in given[r]
    BY <1>1 DEF RightsInv
  <2> QED
    BY <2>1, <2>2, <2>3, <2>4
<1> QED
  BY <1>2, <1>3

\* A request that passes checkEditPermission stores what is sanctioned.
LEMMA EditIsSanctioned ==
    ASSUME TypeOK, RightsInv, NEW h \in Requests, NEW token \in Tokens, NEW id \in Id,
           NEW perms \in Inputs, NEW omitted \in BOOLEAN,
           Edit(h, token, id, perms, omitted)
    PROVE  Sanctioned(SplitModifier(id), EditedPermissions(token, id, perms, omitted))'
<1> DEFINE r == SplitModifier(id)
           edited == EditedPermissions(token, id, perms, omitted)
<1>1. /\ checkEditPermission(token, id, edited)
      /\ Valid(perms)
      /\ UNCHANGED entries
  BY DEF Edit, CheckSetPermission
<1>2. r \in Resources /\ IsResourcePermissions(perms)
  BY InputsAssumption DEF Id, SplitModifier
<1>3. /\ given'[r] = given[r] \cup (IF IsAdmin(token) THEN {StoredRoles(perms)} ELSE {})
      /\ named'[r] = named[r] \cup (DOMAIN perms \cap MayAdd(token))
  BY <1>2 DEF Edit, RightsInv
<1>4. IsResourcePermissions(edited)
  BY <1>1, <1>2, EditedRequest
<1>5. edited' = edited
  BY <1>1 DEF EditedPermissions, Current, Exists
<1>6. CASE IsAdmin(token)
  <2>1. edited = perms
    BY <1>6 DEF EditedPermissions
  <2>2. DOMAIN perms \subseteq MayAdd(token)
    BY <1>2, <1>6 DEF MayAdd, IsResourcePermissions
  <2> QED
    BY <1>3, <1>5, <1>6, <2>1, <2>2 DEF Sanctioned
<1>7. CASE ~IsAdmin(token)
  <2>1. /\ RolePart(edited) = RolePart(Current(id))
        /\ \A g \in Groups : <<"group", g>> \in DOMAIN edited \ DOMAIN Current(id)
                               => g \in token.groups
        /\ \A u \in Users : <<"user", u>> \in DOMAIN edited \ DOMAIN Current(id)
                              => u \in SameGroup[token.user]
    BY <1>1, <1>7 DEF checkEditPermission
  <2>2. StoredRoles(edited) \in given'[r]
    BY <1>3, <1>4, <2>1, KeptRoles, CurrentIsSanctioned
  <2>3. ASSUME NEW s \in DOMAIN edited \ RoleSubjects
        PROVE  s \in named'[r]
    <3>1. s \in DOMAIN perms
      BY DEF EditedPermissions, WithRolesOf
    <3>2. CASE s \in DOMAIN Current(id)
      BY <1>3, <3>2, CurrentIsSanctioned
    <3>3. CASE s \notin DOMAIN Current(id)
      <4>1. \/ \E u \in Users : s = <<"user", u>>
            \/ \E g \in Groups : s = <<"group", g>>
        BY <1>2, <3>1 DEF IsResourcePermissions, Subject
      <4>2. s \in MayAdd(token)
        BY <1>7, <2>1, <3>3, <4>1 DEF MayAdd
      <4> QED
        BY <1>3, <3>1, <4>2
    <3> QED
      BY <3>2, <3>3
  <2> HIDE DEF edited, r
  <2>4. StoredRoles(edited)' = StoredRoles(edited)
    BY <1>5 DEF StoredRoles
  <2>5. r' = r
    BY DEF r, SplitModifier
  <2>6. Sanctioned(r, edited)'
    BY <1>5, <2>2, <2>3, <2>4, <2>5 DEF Sanctioned
  <2> QED
    BY <2>6 DEF r, edited
<1> QED
  BY <1>6, <1>7

LEMMA EditInv ==
    ASSUME TypeOK, RightsInv, NEW h \in Requests, NEW token \in Tokens, NEW id \in Id,
           NEW perms \in Inputs, NEW omitted \in BOOLEAN,
           Edit(h, token, id, perms, omitted)
    PROVE  RightsInv'
<1> DEFINE edited == EditedPermissions(token, id, perms, omitted)
<1>1. /\ pending' = [pending EXCEPT ![h] =
                       [id |-> id, perms |-> edited, omitted |-> omitted /\ ~IsAdmin(token)]]
      /\ UNCHANGED entries
  BY DEF Edit, CheckSetPermission
<1>2. /\ pending'[h].id = id /\ pending'[h].perms = edited
      /\ \A i \in Requests \ {h} : pending'[i] = pending[i]
  BY <1>1 DEF TypeOK
<1>3. /\ DOMAIN given' = Resources /\ DOMAIN named' = Resources
      /\ \A r \in Resources : given[r] \subseteq given'[r] /\ named[r] \subseteq named'[r]
  BY DEF Edit, RightsInv
<1>4. Sanctioned(SplitModifier(id), edited)'
  BY EditIsSanctioned
<1>5. edited' = edited
  BY <1>1 DEF EditedPermissions, Current, Exists
<1> HIDE DEF edited
<1>6. Sanctioned(SplitModifier(pending[h].id), pending[h].perms)'
  BY <1>2, <1>4, <1>5 DEF Sanctioned, StoredRoles, SplitModifier
<1>7. ASSUME NEW i \in Requests \ {h}, pending[i] # NoRequest
      PROVE  Sanctioned(SplitModifier(pending[i].id), pending[i].perms)'
  <2>1. SplitModifier(pending[i].id) \in Resources
    BY <1>7 DEF TypeOK, IsPending, Id, SplitModifier
  <2>2. Sanctioned(SplitModifier(pending[i].id), pending[i].perms)
    BY <1>7 DEF RightsInv
  <2> QED
    BY <1>2, <1>3, <2>1, <2>2 DEF Sanctioned, StoredRoles, SplitModifier
<1>8. RolesAreGiven'
  BY <1>1, <1>3 DEF RightsInv, RolesAreGiven, Exists
<1>9. SubjectsAreNamed'
  BY <1>1, <1>3 DEF RightsInv, SubjectsAreNamed, Exists
<1> QED
  BY <1>2, <1>3, <1>6, <1>7, <1>8, <1>9 DEF RightsInv

\* The store turns a sanctioned request into an entry with both properties.
LEMMA StoreKeepsRights ==
    ASSUME TypeOK, RightsInv, NEW h \in Requests, SetPermission(h), UNCHANGED rights
    PROVE  RightsInv'
<1> DEFINE r == SplitModifier(pending[h].id)
           perms == pending[h].perms
<1>1. /\ entries' = With(entries, r, setResourcePermissions(perms))
      /\ pending' = [pending EXCEPT ![h] = NoRequest]
      /\ pending[h] # NoRequest
      /\ given' = given /\ named' = named
  BY DEF SetPermission, rights
<1>2. Sanctioned(r, perms) /\ r \in Resources
  BY <1>1 DEF RightsInv, TypeOK, IsPending, Id, SplitModifier
<1>3. /\ entries'[r] = setResourcePermissions(perms)
      /\ \A i \in Resources \ {r} : Exists(i)' => Exists(i) /\ entries'[i] = entries[i]
  BY <1>1 DEF With, Exists
<1>4. \A p \in Permission : entries'[r][p] \subseteq DOMAIN perms
  BY <1>3 DEF setResourcePermissions
<1>5. RolePart(ToResource(entries'[r])) \in given[r]
  BY <1>2, <1>3 DEF Sanctioned, StoredRoles
<1>6. \A p \in Permission : entries'[r][p] \ RoleSubjects \subseteq named[r]
  BY <1>2, <1>4 DEF Sanctioned
<1> HIDE DEF r, perms
<1>7. RolesAreGiven'
  BY <1>1, <1>3, <1>5 DEF RightsInv, RolesAreGiven
<1>8. SubjectsAreNamed'
  BY <1>1, <1>3, <1>6 DEF RightsInv, SubjectsAreNamed
<1>9. ASSUME NEW i \in Requests, pending'[i] # NoRequest
      PROVE  Sanctioned(SplitModifier(pending[i].id), pending[i].perms)'
  <2>1. i # h /\ pending'[i] = pending[i]
    BY <1>1, <1>9 DEF TypeOK
  <2> QED
    BY <1>1, <1>9, <2>1 DEF RightsInv, Sanctioned, StoredRoles, SplitModifier
<1> QED
  BY <1>1, <1>7, <1>8, <1>9 DEF RightsInv

\* What is stored stays as it is or goes.
LEMMA OthersKeepRights ==
    ASSUME RightsInv, UNCHANGED <<rights, pending>>,
           \A r \in Resources : Exists(r)' => Exists(r) /\ entries'[r] = entries[r]
    PROVE  RightsInv'
<1>1. given' = given /\ named' = named /\ pending' = pending
  BY DEF rights
<1>2. RolesAreGiven'
  BY <1>1 DEF RightsInv, RolesAreGiven
<1>3. SubjectsAreNamed'
  BY <1>1 DEF RightsInv, SubjectsAreNamed
<1>4. ASSUME NEW h \in Requests, pending'[h] # NoRequest
      PROVE  Sanctioned(SplitModifier(pending[h].id), pending[h].perms)'
  BY <1>1, <1>4 DEF RightsInv, Sanctioned, StoredRoles, SplitModifier
<1> QED
  BY <1>1, <1>2, <1>3, <1>4 DEF RightsInv

LEMMA RightsInvariant == EditSpec => []RightsInv
<1>1. TypeOK /\ RightsInv /\ [EditNext]_<<vars, rights>> => RightsInv'
  <2> SUFFICES ASSUME TypeOK, RightsInv, [EditNext]_<<vars, rights>>
               PROVE  RightsInv'
    OBVIOUS
  <2>1. ASSUME NEW h \in Requests, NEW token \in Tokens, NEW id \in Id, NEW perms \in Inputs,
               NEW omitted \in BOOLEAN, Edit(h, token, id, perms, omitted)
        PROVE  RightsInv'
    BY <2>1, EditInv
  <2>2. ASSUME NEW h \in Requests, SetPermission(h), UNCHANGED rights
        PROVE  RightsInv'
    BY <2>2, StoreKeepsRights
  <2>3. ASSUME NEW id \in Id, RemoveResource(id), UNCHANGED rights
        PROVE  RightsInv'
    <3>1. \A r \in Resources : Exists(r)' => Exists(r) /\ entries'[r] = entries[r]
      BY <2>3 DEF RemoveResource, Without, Exists
    <3>2. UNCHANGED pending
      BY <2>3 DEF RemoveResource
    <3> QED
      BY <2>3, <3>1, <3>2, OthersKeepRights
  <2>4. ASSUME NEW perms \in Inputs, SetTopic(perms), UNCHANGED rights
        PROVE  RightsInv'
    BY <2>4, OthersKeepRights DEF SetTopic, Exists
  <2>5. CASE RemoveTopic /\ UNCHANGED rights
    BY <2>5, OthersKeepRights DEF RemoveTopic, Exists
  <2>6. CASE UNCHANGED <<vars, rights>>
    BY <2>6, OthersKeepRights DEF vars, Exists
  <2> QED
    BY <2>1, <2>2, <2>3, <2>4, <2>5, <2>6 DEF EditNext
<1>2. EditSpec => []TypeOK
  BY EditsChangeNothing, TypeCorrect, PTL
<1> QED
  BY <1>1, <1>2, RightsInit, PTL DEF EditSpec

(***************************************************************************)
(* "only admins may edit role permissions" (resource.go:269): whatever     *)
(* edits are in flight, a stored resource has role permissions that one    *)
(* admin has sent for it, or none.                                         *)
(***************************************************************************)
THEOREM RolesComeFromAdmins == EditSpec => []RolesAreGiven
<1>1. RightsInv => RolesAreGiven
  BY DEF RightsInv
<1> QED
  BY <1>1, RightsInvariant, PTL

(***************************************************************************)
(* Users and groups with permissions were sent by somebody who may add     *)
(* them (resource.go:279-307), also when the edit that stored them had     *)
(* read the entry before others removed them.                              *)
(***************************************************************************)
THEOREM SubjectsComeNamed == EditSpec => []SubjectsAreNamed
<1>1. RightsInv => SubjectsAreNamed
  BY DEF RightsInv
<1> QED
  BY <1>1, RightsInvariant, PTL
=============================================================================
