-------------------------------- MODULE Clients --------------------------------
(***************************************************************************)
(* Reading through the two clients other services use: client.New, which   *)
(* sends requests to the HTTP API of the service (pkg/client/client.go,    *)
(* pkg/api) that works on MongoDB (pkg/database/mongo), and                *)
(* client.NewTestClient, the controller on the in-memory database          *)
(* (pkg/database/mock), which they are tested with.                        *)
(*                                                                         *)
(* A read is a function of one state of AccessControl, which holds the     *)
(* same resources in both databases.                                       *)
(***************************************************************************)
EXTENDS AccessControl, Integers, SequencesExt

CONSTANTS
    Order,      \* all resource ids in the order of their bytes
    NoIds,      \* ListOptions.Ids is nil
    Numbers,    \* limits and offsets callers use
    Unset,
    Parts       \* what an id arrives as from a list joined with ","

ASSUME OrderAssumption ==
    /\ Order \in Seq(Resources) /\ Range(Order) = Resources
    /\ \A i, j \in DOMAIN Order : Order[i] = Order[j] => i = j
ASSUME NumbersAssumption == Numbers \subseteq Int
ASSUME PartsAssumption == Parts \in [Id -> SUBSET Id]
ASSUME UnsetAssumption == Unset \notin Int /\ \A list \in SUBSET Permission : Unset # list

\* Resources as they are stored and as GetResource returns them.
Answer == [id : Resources \cup Id,
           perms : UNION {[subjects -> SUBSET Permission] : subjects \in SUBSET Subject}]

\* An error is no answer.
ASSUME RefusedAssumption ==
    /\ Refused \notin Answer /\ Refused \notin Seq(Answer)
    /\ \A ids \in SUBSET Id : Refused \notin [ids -> BOOLEAN]

\* model.ListOptions; a number that is not in the query reads as 0.
ListOptions == [limit : Numbers \cup {0}, offset : Numbers \cup {0}, ids : {NoIds} \cup SUBSET Resources]
NoOptions == [limit |-> 0, offset |-> 0, ids |-> NoIds]

Position == [r \in Resources |-> CHOOSE i \in DOMAIN Order : Order[i] = r]
Before(r, resources) == {other \in resources : Position[other] < Position[r]}

\* The i-th of the resources is the one that i - 1 of them come before.
Sorted(resources) ==
    [i \in 1..Cardinality(resources) |->
       CHOOSE r \in resources : Cardinality(Before(r, resources)) = i - 1]
Among(r, options) == options.ids = NoIds \/ r \in options.ids
Resource(r, perms) == [id |-> r, perms |-> perms]

-----------------------------------------------------------------------------
(* pkg/database/mongo/list.go                                              *)

\* SetSort, SetSkip and SetLimit, as every listing sets them.
MongoPage(resources, options) ==
    LET sorted == Sorted(resources)
        skip == IF options.offset > 0 THEN options.offset ELSE 0
        end == IF options.limit > 0 THEN skip + options.limit ELSE Len(sorted)
    IN SubSeq(sorted, skip + 1, Min({end, Len(sorted)}))

MongoResources(ids) == [i \in DOMAIN ids |-> Resource(ids[i], ToResource(entries[ids[i]]))]

MongoAdminListResourceIds(options) ==
    MongoPage({r \in DOMAIN entries : Among(r, options)}, options)

MongoAdminListResources(options) ==
    MongoResources(MongoPage({r \in DOMAIN entries : Among(r, options)}, options))

\* Ids is not looked at.
MongoListResourcesByPermissions(token, options, list) ==
    MongoResources(MongoPage({r \in DOMAIN entries : checkPermissions(token, entries[r], list)},
                             options))

MongoListResourceIdsByPermissions(token, options, list) ==
    LET resources == MongoListResourcesByPermissions(token, options, list)
    IN [i \in DOMAIN resources |-> resources[i].id]

MongoGetResource(r, options, token) ==
    IF /\ r \in DOMAIN entries
       /\ options.checkPermission => checkPermissions(token, entries[r], options.permissions)
    THEN Resource(r, ToResource(entries[r])) ELSE Refused

-----------------------------------------------------------------------------
(* pkg/database/mock/mock.go                                               *)

\* Mutant: a page ends at the limit, whatever the offset.
limitOffsetSwapped(list, limit, offset) ==
    LET limited == IF limit > 0 THEN SubSeq(list, 1, Min({limit, Len(list)})) ELSE list
    IN IF offset > 0 THEN SubSeq(limited, offset + 1, Len(limited)) ELSE limited

limitOffset(list, limit, offset) ==
    LET rest == IF offset > 0 THEN SubSeq(list, offset + 1, Len(list)) ELSE list
    IN IF limit > 0 THEN SubSeq(rest, 1, Min({limit, Len(rest)})) ELSE rest

MockResources(resources, options) ==
    LET sorted == Sorted(resources)
    IN limitOffset([i \in DOMAIN sorted |-> Resource(sorted[i], mock[sorted[i]])],
                   options.limit, options.offset)

\* Ids is not looked at ...
MockAdminListResourceIds(options) ==
    limitOffset(Sorted(DOMAIN mock), options.limit, options.offset)

\* ... but here it is ...
MockAdminListResources(options) ==
    MockResources({r \in DOMAIN mock : Among(r, options)}, options)

\* ... and here it is not.
MockListResourcesByPermissions(token, options, list) ==
    MockResources({r \in DOMAIN mock : checkPerms(token, mock[r], list)}, options)

MockListResourceIdsByPermissions(token, options, list) ==
    LET resources == MockListResourcesByPermissions(token, options, list)
    IN [i \in DOMAIN resources |-> resources[i].id]

MockGetResource(r, options, token) ==
    IF /\ r \in DOMAIN mock
       /\ options.checkPermission => checkPerms(token, mock[r], options.permissions)
    THEN Resource(r, mock[r]) ELSE Refused

MockCheckResourcePermissions(r, token, list) ==
    MockGetResource(r, [checkPermission |-> TRUE, permissions |-> list], token) # Refused

\* An id that is not found is left out.
MockCheckMultipleResourcePermissions(ids, token, list) ==
    [id \in {i \in ids : SplitModifier(i) \in DOMAIN mock} |->
       MockCheckResourcePermissions(SplitModifier(id), token, list)]

-----------------------------------------------------------------------------
(* The controller on each of them                                          *)

Service == INSTANCE Listings WITH
    dbAdminListResourceIds <- MongoAdminListResourceIds,
    dbAdminListResources <- MongoAdminListResources,
    dbListResourceIdsByPermissions <- MongoListResourceIdsByPermissions,
    dbListResourcesByPermissions <- MongoListResourcesByPermissions,
    dbGetResource <- MongoGetResource

\* client.NewTestClient
TestClient == INSTANCE Listings WITH
    dbAdminListResourceIds <- MockAdminListResourceIds,
    dbAdminListResources <- MockAdminListResources,
    dbListResourceIdsByPermissions <- MockListResourceIdsByPermissions,
    dbListResourcesByPermissions <- MockListResourcesByPermissions,
    dbGetResource <- MockGetResource

\* CheckPermission on the in-memory database.
TestClientCheckPermission(token, id, list) ==
    LET access == CheckTopicDefaultPermission(token, list)
    IN \/ access = "granted"
       \/ access = "denied" /\ MockCheckResourcePermissions(SplitModifier(id), token, list)

TestClientCheckMultiplePermissions(token, ids, list) ==
    LET access == CheckTopicDefaultPermission(token, list)
        asked == IF access = "granted" THEN {} ELSE list
    IN IF access = "unknown topic" THEN Refused
       ELSE MockCheckMultipleResourcePermissions(ids, token, asked)

\* Ids are compared as they are; stored ones have no modifier.
TestClientListComputedPermissions(token, ids) ==
    LET wanted == {r \in Resources : Plain(r) \in ids}
        listed == ToSet(MockAdminListResources([NoOptions EXCEPT !.ids = wanted]))
        computed(resource) ==
            IF IsAdmin(token) THEN Permission
            ELSE ComputePermissionsMap(token, resource.perms, defaults)
    IN IF defaults = Unregistered THEN Refused
       ELSE [id \in ids |->
               UNION {computed(resource) : resource \in {x \in listed : Plain(x.id) = id}}]

-----------------------------------------------------------------------------
(* pkg/api: what the endpoints take from a query; what is not in it is     *)
(* Unset                                                                   *)

ListOptionsFromQuery(query) ==
    [limit |-> IF query.limit = Unset THEN 0 ELSE query.limit,
     offset |-> IF query.offset = Unset THEN 0 ELSE query.offset,
     ids |-> NoIds]

\* "" reads as if it were not there.
PermissionsFromQuery(query) == IF query.permissions = Unset THEN {"r"} ELSE query.permissions

CheckPermissionEndpoint(token, id, query) ==
    CheckPermission(token, id, PermissionsFromQuery(query))

CheckMultiplePermissionsEndpoint(token, query) ==
    CheckMultiplePermissions(token, query.ids, PermissionsFromQuery(query))

\* The ids are in the body of the request.
QueryListComputedPermissionsEndpoint(token, ids) == ListComputedPermissions(token, ids)

ListAccessibleResourceIdsEndpoint(token, query) ==
    Service!ListAccessibleResourceIds(token, ListOptionsFromQuery(query),
                                      PermissionsFromQuery(query))

AdminListResourceIdsEndpoint(token, query) ==
    Service!AdminListResourceIds(token, ListOptionsFromQuery(query))

ListResourcesWithAdminPermissionEndpoint(token, query) ==
    Service!ListResourcesWithAdminPermission(token, ListOptionsFromQuery(query))

GetResourceEndpoint(token, id) == Service!GetResource(token, id)

-----------------------------------------------------------------------------
(* pkg/client: what a call puts into its query                             *)

\* Mutant: a copied line sends the limit as the offset.
PageQueryCopied(options) ==
    [limit |-> IF options.limit > 0 THEN options.limit ELSE Unset,
     offset |-> IF options.offset > 0 THEN options.limit ELSE Unset]

\* Limit and Offset if they are positive; Ids is never sent.
PageQuery(options) ==
    [limit |-> IF options.limit > 0 THEN options.limit ELSE Unset,
     offset |-> IF options.offset > 0 THEN options.offset ELSE Unset]

\* Mutant: only one permission of the list is sent.
EncodeOne(list) == IF list = {} THEN Unset ELSE {CHOOSE p \in list : TRUE}

\* PermissionList.Encode: "" for an empty list.
Encode(list) == IF list = {} THEN Unset ELSE list

\* Joined with ",", cut at "," and trimmed.
Join(ids) == UNION {Parts[id] : id \in ids}

HttpCheckPermission(token, id, list) ==
    CheckPermissionEndpoint(token, id, [permissions |-> Encode(list)])

HttpCheckMultiplePermissions(token, ids, list) ==
    CheckMultiplePermissionsEndpoint(token, [permissions |-> Encode(list), ids |-> Join(ids)])

HttpListComputedPermissions(token, ids) == QueryListComputedPermissionsEndpoint(token, ids)

HttpAdminListResourceIds(token, options) ==
    AdminListResourceIdsEndpoint(token, PageQuery(options))

HttpListAccessibleResourceIds(token, options, list) ==
    LET page == PageQuery(options)
    IN ListAccessibleResourceIdsEndpoint(
           token, [permissions |-> Encode(list), limit |-> page.limit, offset |-> page.offset])

HttpListResourcesWithAdminPermission(token, options) ==
    ListResourcesWithAdminPermissionEndpoint(token, PageQuery(options))

HttpGetResource(token, id) == GetResourceEndpoint(token, id)

-----------------------------------------------------------------------------
\* Resources are the same if they grant the same: MongoDB does not keep a
\* subject nothing is granted to.
SameResource(a, b) ==
    \/ a = Refused /\ b = Refused
    \/ /\ a # Refused /\ b # Refused
       /\ a.id = b.id
       /\ \A s \in Subject : Grants(a.perms, s) = Grants(b.perms, s)

SameListing(a, b) ==
    \/ a = Refused /\ b = Refused
    \/ /\ a # Refused /\ b # Refused
       /\ Len(a) = Len(b)
       /\ \A i \in DOMAIN a : SameResource(a[i], b[i])

Lists == SUBSET Permission
Pages == [limit : Numbers \cup {0}, offset : Numbers \cup {0}, ids : {NoIds}]

(***************************************************************************)
(* A check through HTTP and MongoDB decides like one of the test client    *)
(* that asks for the same permissions.  For no permission at all the two   *)
(* differ, but what HTTP grants the test client grants: the API asks for   *)
(* "r", the controller for nothing.  CheckMultiplePermissions, which looks *)
(* entries up with another list when the defaults grant access, decides    *)
(* like CheckPermission for each id that exists and leaves out the others; *)
(* sent through HTTP it answers the same and like the test client, unless  *)
(* an id has a comma.  The permissions computed for many ids, which are    *)
(* sent in a body, are always the same.                                    *)
(***************************************************************************)
ChecksAgree ==
    \A token \in Tokens :
        /\ HttpListComputedPermissions(token, Id) = TestClientListComputedPermissions(token, Id)
        /\ \A list \in Lists :
             LET direct == CheckMultiplePermissions(token, Id, list)
                 many == HttpCheckMultiplePermissions(token, Id, list)
                 tested == TestClientCheckMultiplePermissions(token, Id, list)
             IN /\ many = Refused <=> tested = Refused
                /\ direct # Refused =>
                     direct = [id \in {i \in Id : Exists(SplitModifier(i))} |->
                                 CheckPermission(token, id, list)]
                /\ \A id \in Id :
                     LET http == HttpCheckPermission(token, id, list)
                         test == TestClientCheckPermission(token, id, list)
                     IN /\ http => test
                        /\ list # {} => (test => http)
                        /\ many # Refused /\ Exists(SplitModifier(id)) /\ Parts[id] = {id} =>
                             /\ many[id] = http
                             /\ list # {} => tested[id] = http

(***************************************************************************)
(* The two clients list the same resources in the same order on every page *)
(* and show the same resource, whatever limits and offsets are asked for:  *)
(* MongoDB is told to sort, skip and limit, the in-memory database cuts    *)
(* slices, and the client leaves numbers out that are not positive.  Where *)
(* they differ is in what HTTP asks for: Ids, which AdminListResources of  *)
(* the in-memory database looks at, is never sent, so that all resources   *)
(* are listed, and no permission at all becomes "r".                       *)
(***************************************************************************)
ListingsAgree ==
    \A token \in Tokens :
        /\ \A options \in ListOptions :
             LET sent == [options EXCEPT !.ids = NoIds] IN
             /\ HttpAdminListResourceIds(token, options)
                  = TestClient!AdminListResourceIds(token, sent)
             /\ SameListing(HttpListResourcesWithAdminPermission(token, options),
                            TestClient!ListResourcesWithAdminPermission(token, sent))
        /\ \A options \in Pages, list \in Lists :
             HttpListAccessibleResourceIds(token, options, list)
               = TestClient!ListAccessibleResourceIds(token, options,
                                                      IF list = {} THEN {"r"} ELSE list)
        /\ \A id \in Id :
             SameResource(HttpGetResource(token, id), TestClient!GetResource(token, id))

(***************************************************************************)
(* A caller who goes on by as many ids as a page may have sees the whole   *)
(* listing, each id once, and the listing has the existing resources the   *)
(* caller is granted by a check of its own.                                *)
(***************************************************************************)
PagesAreListing ==
    \A token \in Tokens, list \in Lists, n \in Numbers :
        LET page(k) == HttpListAccessibleResourceIds(
                           token, [limit |-> n, offset |-> n * k, ids |-> NoIds], list)
            all == HttpListAccessibleResourceIds(token, NoOptions, list)
        IN n > 0 /\ all # Refused =>
             /\ FlattenSeq([k \in 1..(Len(Order) + 1) |-> page(k - 1)]) = all
             /\ ToSet(all) = {r \in Resources :
                                Exists(r) /\ HttpCheckPermission(token, Plain(r), list)}

(***************************************************************************)
(* What ListResourcesWithAdminPermission lists is what GetResource returns *)
(* to the same caller, under the plain id and under every id with a        *)
(* modifier, and it lists all of that.                                     *)
(***************************************************************************)
AdministratedCanBeRead ==
    \A token \in Tokens, id \in Id :
        LET listed == HttpListResourcesWithAdminPermission(token, NoOptions)
            got == HttpGetResource(token, id)
        IN IF listed = Refused THEN got = Refused
           ELSE {got} \ {Refused} =
                  {[resource EXCEPT !.id = id] :
                     resource \in {other \in ToSet(listed) : other.id = SplitModifier(id)}}
=============================================================================
