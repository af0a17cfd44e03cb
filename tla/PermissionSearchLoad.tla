------------------------- MODULE PermissionSearchLoad -------------------------
(***************************************************************************)
(* AdminLoadFromPermissionSearch (pkg/controller/load.go): an admin copies *)
(* the rights of one topic from permission-search, the service before this *)
(* one, page by page and resource by resource, while both services are in  *)
(* use.  A load of an unknown topic, or of one without a channel, is       *)
(* refused before it begins and is no step here.                           *)
(***************************************************************************)
EXTENDS Permissions, Sequences

CONSTANTS
    Resources,
    Inputs,         \* the permissions other requests store
    Sources,        \* what permission-search may hold when it is started
    Additions,      \* the elements it may get while a load runs
    PageLimit,      \* 100 in the code
    NoLoad

\* PermissionSearchResponseElement: a resource, the rights of users, and the
\* rights of groups, which permissions-v2 calls roles.
Rights(Holders) == UNION {[Named -> SUBSET Permission] : Named \in SUBSET Holders}
Element == [id : Resources, user_rights : Rights(Users), group_rights : Rights(Roles)]

\* One element per resource.
IsSource(list) ==
    /\ list \in Seq(Element)
    /\ \A i, j \in 1..Len(list) : list[i].id = list[j].id => i = j

ASSUME PageLimitAssumption == PageLimit \in Nat \ {0}
ASSUME SourcesAssumption == \A list \in Sources : IsSource(list)
ASSUME AdditionsAssumption == Additions \subseteq Element
ASSUME LoadInputsAssumption == \A perms \in Inputs : IsResourcePermissions(perms)

\* OverwriteExisting, DryRun
Requests == [overwrite : BOOLEAN, dryRun : BOOLEAN]

VARIABLES
    entries,        \* the permissions collection, by resource id
    source,         \* the export of permission-search
    load,           \* the load in progress, or the last one
    before,         \* history: what was stored when the load began, and has
                    \* not been changed by other requests since
    touched,        \* history: what they have changed since
    raced,          \* history: what they have stored between the look-up of a
                    \* resource by the load and its store
    moved           \* history: permission-search has changed since

history == <<before, touched, raced, moved>>
vars == <<entries, source, load, before, touched, raced, moved>>

Empty == [r \in {} |-> {}]
With(map, r, value) == [i \in DOMAIN map \cup {r} |-> IF i = r THEN value ELSE map[i]]
Without(map, r) == [i \in DOMAIN map \ {r} |-> map[i]]
IsCollection(map) == DOMAIN map \subseteq Resources /\ map \in [DOMAIN map -> PermissionsEntry]

IsLoad(l) ==
    /\ DOMAIN l = {"req", "pc", "offset", "list", "last", "resource"}
    /\ l.req \in Requests
    /\ l.pc \in {"fetch", "elements", "store", "done"}
    /\ l.offset \in Nat
    /\ IsSource(l.list) /\ Len(l.list) <= PageLimit
    /\ l.last \in BOOLEAN
    /\ IsResourcePermissions(l.resource)

TypeOK ==
    /\ IsCollection(entries)
    /\ IsSource(source)
    /\ IF load = NoLoad THEN TRUE ELSE IsLoad(load)
    /\ before \subseteq Resources
    /\ touched \subseteq Resources
    /\ raced \subseteq Resources
    /\ moved \in BOOLEAN

Init ==
    /\ entries = Empty
    /\ source \in Sources
    /\ load = NoLoad
    /\ before = {}
    /\ touched = {}
    /\ raced = {}
    /\ moved = FALSE

At(pc) == IF load = NoLoad THEN FALSE ELSE load.pc = pc
Running == At("fetch") \/ At("elements") \/ At("store")

-----------------------------------------------------------------------------
(* The load                                                                *)

Load(req) ==
    /\ ~Running
    /\ load' = [req |-> req, pc |-> "fetch", offset |-> 0, list |-> <<>>, last |-> FALSE,
                resource |-> NoPermissions]
    /\ before' = DOMAIN entries /\ touched' = {} /\ raced' = {} /\ moved' = FALSE
    /\ UNCHANGED <<entries, source>>

\* Mutant: the request has no limit.
PageUncut(offset) == SubSeq(source, offset + 1, Len(source))

\* GET /v3/export with limit and offset.
Page(offset) ==
    SubSeq(source, offset + 1,
           IF offset + PageLimit < Len(source) THEN offset + PageLimit ELSE Len(source))

FetchPage ==
    /\ At("fetch")
    /\ load' = [load EXCEPT !.pc = "elements", !.list = Page(load.offset),
                  !.last = Len(Page(load.offset)) < PageLimit]
    /\ UNCHANGED <<entries, source, history>>

\* The rights of an element in the terms of permissions-v2.
Converted(e) ==
    [s \in ({"user"} \X DOMAIN e.user_rights) \cup ({"role"} \X DOMAIN e.group_rights) |->
       IF s[1] = "user" THEN e.user_rights[s[2]] ELSE e.group_rights[s[2]]]

\* Mutant: what is stored wins over what is loaded.
MergedKeepingOld(e) ==
    LET old == IF e.id \in DOMAIN entries THEN ToResource(entries[e.id]) ELSE NoPermissions
        new == Converted(e)
    IN [s \in DOMAIN old \cup DOMAIN new |-> IF s \in DOMAIN old THEN old[s] ELSE new[s]]

\* The rights are set in the maps of the resource that was read.
Merged(e) ==
    LET old == IF e.id \in DOMAIN entries THEN ToResource(entries[e.id]) ELSE NoPermissions
        new == Converted(e)
    IN [s \in DOMAIN old \cup DOMAIN new |-> IF s \in DOMAIN new THEN new[s] ELSE old[s]]

NextElement == [load EXCEPT !.pc = "elements", !.list = Tail(@), !.resource = NoPermissions]

\* Mutant: OverwriteExisting is not asked for.
ReadElementOverwriting ==
    /\ At("elements") /\ load.list # <<>>
    /\ load' = IF load.req.dryRun THEN NextElement
               ELSE [load EXCEPT !.pc = "store", !.resource = Merged(Head(load.list))]
    /\ UNCHANGED <<entries, source, history>>

\* GetResource, and the decision whether there is something to store.
ReadElement ==
    LET known == Head(load.list).id \in DOMAIN entries IN
    /\ At("elements") /\ load.list # <<>>
    /\ load' = IF load.req.dryRun \/ (known /\ ~load.req.overwrite)
                 THEN NextElement
                 ELSE [load EXCEPT !.pc = "store", !.resource = Merged(Head(load.list))]
    /\ UNCHANGED <<entries, source, history>>

\* setPermission without the announcement, which PermissionSync models.
StoreElement ==
    /\ At("store")
    /\ entries' = With(entries, Head(load.list).id, setResourcePermissions(load.resource))
    /\ load' = NextElement
    /\ raced' = {}
    /\ UNCHANGED <<source, before, touched, moved>>

\* Mutant: a full page is taken for the last one.
PageEndsEarly ==
    /\ At("elements") /\ load.list = <<>>
    /\ load' = [load EXCEPT !.pc = "done"]
    /\ UNCHANGED <<entries, source, history>>

\* Mutant: the offset is not moved.
PageEndsWithoutOffset ==
    /\ At("elements") /\ load.list = <<>>
    /\ load' = IF load.last THEN [load EXCEPT !.pc = "done"]
               ELSE [load EXCEPT !.pc = "fetch"]
    /\ UNCHANGED <<entries, source, history>>

PageEnds ==
    /\ At("elements") /\ load.list = <<>>
    /\ load' = IF load.last THEN [load EXCEPT !.pc = "done"]
               ELSE [load EXCEPT !.pc = "fetch", !.offset = @ + PageLimit]
    /\ UNCHANGED <<entries, source, history>>

\* Any call returns an error; the resource may be stored all the same.
LoadFails ==
    /\ Running
    /\ load' = NoLoad
    /\ \/ UNCHANGED entries
       \/ /\ At("store")
          /\ entries' = With(entries, Head(load.list).id, setResourcePermissions(load.resource))
    /\ before' = {} /\ touched' = {} /\ raced' = {} /\ moved' = FALSE
    /\ UNCHANGED source

LoadStep == FetchPage \/ ReadElement \/ StoreElement \/ PageEnds

-----------------------------------------------------------------------------
(* Other requests, and permission-search                                   *)

SetPermission(r, perms) ==
    /\ Valid(perms)
    /\ entries' = With(entries, r, setResourcePermissions(perms))
    /\ before' = before \ {r} /\ touched' = touched \cup {r}
    /\ raced' = raced \cup {k \in {r} : At("store")}
    /\ UNCHANGED <<source, load, moved>>

RemoveResource(r) ==
    /\ r \in DOMAIN entries
    /\ entries' = Without(entries, r)
    /\ before' = before \ {r} /\ touched' = touched \cup {r}
    /\ UNCHANGED <<source, load, raced, moved>>

\* A resource is deleted in permission-search: the elements behind it move up.
SourceRemove(i) ==
    /\ i \in DOMAIN source
    /\ source' = SubSeq(source, 1, i - 1) \o SubSeq(source, i + 1, Len(source))
    /\ moved' = TRUE
    /\ UNCHANGED <<entries, load, before, touched, raced>>

\* A new one is created there, after i others.
SourceAdd(i, e) ==
    /\ \A k \in DOMAIN source : source[k].id # e.id
    /\ source' = Append(SubSeq(source, 1, i), e) \o SubSeq(source, i + 1, Len(source))
    /\ moved' = TRUE
    /\ UNCHANGED <<entries, load, before, touched, raced>>

Next ==
    \/ \E req \in Requests : Load(req)
    \/ LoadStep
    \/ LoadFails
    \/ \E r \in Resources, perms \in Inputs : SetPermission(r, perms)
    \/ \E r \in Resources : RemoveResource(r)
    \/ \E i \in 1..Len(source) : SourceRemove(i)
    \/ \E i \in 0..Len(source), e \in Additions : SourceAdd(i, e)

Spec == Init /\ [][Next]_vars

\* The handler's goroutine goes on: the calls to database and Kafka have
\* timeouts and end, with a result or an error.  Nothing is supposed of the
\* page requests: http.DefaultClient has no timeout, and they have no context.
FairSpec == Spec /\ WF_vars(~At("fetch") /\ (LoadStep \/ LoadFails))

-----------------------------------------------------------------------------
(***************************************************************************)
(* A load that has answered 200 has seen every resource: if                *)
(* permission-search has not changed while its pages were read, each of    *)
(* its resources is stored, unless another request has changed it.  Pages  *)
(* neither leave out nor end early, also when the last page is full.       *)
(***************************************************************************)
LoadIsComplete ==
    At("done") /\ ~load.req.dryRun /\ ~moved =>
        \A i \in DOMAIN source : source[i].id \in DOMAIN entries \cup touched

(***************************************************************************)
(* What a finished load stores is what permission-search grants: every     *)
(* user and every group (as role) it names has exactly the rights it has   *)
(* there, on the resources that were unknown or are overwritten.           *)
(***************************************************************************)
LoadedAsExported ==
    At("done") /\ ~load.req.dryRun /\ ~moved =>
        \A i \in DOMAIN source :
            LET e == source[i] IN
            /\ e.id \notin touched
            /\ e.id \in before => load.req.overwrite
            => /\ \A u \in DOMAIN e.user_rights :
                    Grants(ToResource(entries[e.id]), <<"user", u>>) = e.user_rights[u]
               /\ \A g \in DOMAIN e.group_rights :
                    Grants(ToResource(entries[e.id]), <<"role", g>>) = e.group_rights[g]

(***************************************************************************)
(* "false -> skip known elements": a step of a load without overwrite      *)
(* changes nothing that is stored, by whomever and whenever, but for what  *)
(* another request has stored between the load's own look-up of that       *)
(* resource and its store: that is overwritten.  And "log changes without  *)
(* executing them": no step of a dry run changes anything.                 *)
(***************************************************************************)
KnownAreKept ==
    [][Running /\ load' # load =>
         /\ load.req.dryRun => entries' = entries
         /\ ~load.req.overwrite =>
              \A r \in DOMAIN entries \ raced :
                  r \in DOMAIN entries' /\ entries'[r] = entries[r]]_vars

(***************************************************************************)
(* A load ends, in success or error, whatever other requests do and        *)
(* although resources come and go in permission-search while it is read,   *)
(* if every page request is answered or fails: no page is asked for again. *)
(***************************************************************************)
LoadEnds == (At("fetch") ~> ~At("fetch")) => (Running ~> ~Running)
===============================================================================
