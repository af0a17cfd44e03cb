# permissions-v2 in TLA+

A verification project for [permissions-v2](../src/README.md): the service that
stores who may read, write, execute and administrate the resources of other
services ("topics"), answers their access checks, and announces changes on
Kafka. It holds TLA+ modules translated from the Go code, TLC configurations
that check them on small instances, and theorems checked by TLAPS for every
value of the constants. All paths below are relative to `src/`.

## The system

| part | code | state | operations | calls |
|---|---|---|---|---|
| write path | `pkg/controller/resource.go` | none of its own; a request in flight holds the topic it has read | SetPermission, RemoveResource | database, producer, user-management, notifier |
| sync loop | `pkg/controller/controller.go` | ticker, producer cache; a pass holds the list it has read | RetryPublishOfUnsyncedResources at start-up and at every tick, publishPermission | database, producer |
| checks and listings | `pkg/controller/check.go`, `resource.go`, `idmodifier` | none | CheckPermission, CheckMultiplePermissions, ListComputedPermissions, ListAccessibleResourceIds, GetResource, admin listings | database |
| topics | `pkg/controller/topics.go` | none | SetTopic, RemoveTopic, GetTopic, ListTopics | database, notifier |
| import, load | `import_export.go`, `load.go` | none; a cache of topics per call | Export, Import, load from permission-search | write path, database |
| MongoDB database | `pkg/database/mongo` | collections `topics` and `permissions` (unique on topic and id; twelve lists of subjects, `timestamp`, `synced`) | the `Database` interface of `pkg/database/db.go` | MongoDB; no transactions |
| migration | `pkg/database/mongo/mongo.go` | the collections | MigrateDb, once at start-up | another database |
| in-memory database | `pkg/database/mock` | slices of topics and resources, a mutex | the `Database` interface; has no synced flag | none |
| Kafka producer | `pkg/controller/kafka` | one writer per channel | SendPermissions, InitKafkaTopic | Kafka; channels are compacted |
| model | `pkg/model` | none | Valid, Validate, Equal, list options | none |
| HTTP API | `pkg/api` | none | one handler per controller method | controller |
| client | `pkg/client` | token providers keep a token under a mutex | HTTP client, NewTestClient, token providers | API or controller |

Requests run concurrently, next to the one goroutine of the sync loop, and share
nothing but the collections, the channels and the producer cache. There is no
lock and no transaction around a request: every database or Kafka call is a
separate step, any of them may fail, and one that is reported as failed may have
taken effect. The process may stop between any two of them. What survives is the
two collections and the channels.

### What is hard, and what makes each part correct

* **Write path and sync loop.** store - publish - mark are three calls, and marking
  looks neither at the content nor at the time of the entry. Several requests and the
  retry pass work on one entry from copies of different age. Correct means: nothing is
  announced that was not stored; an entry is only `synced` if it was announced;
  what failed is announced later; consumers end up with the current permissions.
* **Checks.** The same question is answered by four functions with different code
  (Go loops over defaults, a MongoDB filter, decisions on a loaded entry, a merge in
  Go). Correct means that they agree, and agree with the in-memory database.
* **Edits.** The check of an edit reads what the store overwrites later.
  Correct means: role permissions a request leaves out are kept, a user who may
  administrate the resource always remains, and nothing is stored that nobody was
  entitled to send.
* **Topics.** Removal is two deletes; a topic changes while requests hold a copy.
* **Import, load, migration.** Loops of single calls that stop anywhere, beside
  requests that change the same collections. Correct means: an answer of 200, or an API
  that is served, stands for all of the data; what others change meanwhile is neither
  lost nor taken for an error; nothing is touched that the options leave out.
* **Producer cache, token provider, mock.** Shared memory under a mutex that does not
  cover everything.

`PROJECT.json` lists the hazards one by one, at their lines.

## Modules

| module | content |
|---|---|
| `PermissionSync` | the write path, the sync loop, topic changes and removal, failures and restarts |
| `PermissionSync_proofs` | its theorems |
| `PermissionFeed` | abstract: what those who follow a channel are promised |
| `PermissionFeed_proofs` | `PermissionSync` implements it |
| `MCPermissionSync` | instances of `PermissionSync` for TLC |
| `Permissions` | grants, the decisions on them, the two stored forms (no state) |
| `AccessControl` | the read API over the permissions that edits leave behind, on both databases |
| `ReadPath` | a check as two database calls beside the steps of `AccessControl` |
| `EditRights` | the history of `AccessControl` that tells who may have sent the subjects of a resource |
| `AccessControl_proofs` | the theorems of `AccessControl`, `ReadPath` and `EditRights` |
| `Listings` | the controller's paged listings and GetResource, over any database |
| `Clients` | both databases' listings, the HTTP API and the two clients; `Listings` on each database |
| `Clients_proofs` | its theorems |
| `MCAccessControl`, `MCReadPath` | instances of `Clients` and of `ReadPath` with `EditRights` for TLC |
| `ImportExport` | export and import, the options from the client to the loops |
| `ImportExport_proofs`, `MCImportExport` | its theorems, its instances for TLC |
| `PermissionSearchLoad` | the load from permission-search, page by page; uses `Permissions` |
| `PermissionSearchLoad_proofs`, `MCPermissionSearchLoad` | its theorems, its instances for TLC |
| `Migration` | the start of the service with a database to migrate from |
| `Migration_proofs`, `MCMigration` | its theorems, its instances for TLC |
| `TokenProvider` | the providers of bearer tokens in the client, called by several goroutines |
| `TokenProvider_proofs`, `MCTokenProvider` | its theorems, its instance for TLC |

How they compose: `AccessControl` extends `Permissions`; `ReadPath`, `EditRights` and
`Clients` extend `AccessControl` and keep its steps; `Clients` instantiates `Listings` twice, for the
service and for the test client; `PermissionSync` instantiates `PermissionFeed` with a
refinement mapping; `PermissionSearchLoad` uses `Permissions`.

### PermissionSync

| variable | code |
|---|---|
| `topics` | the topics collection, as far as `PublishToKafkaTopic` matters ("" and "-" are `NoPublish`) |
| `entries` | the permissions collection: content, `synced`, and whether `timestamp` is older than `SyncAgeLimit` (`aged`) |
| `latest` | the last record of each key of each channel, which is what compaction keeps and what a consumer that reads the channel ends with |
| `requests` | one record per request being served: the next call and what the request has read |
| `retry` | the retry pass: its list, the current element, the topic read for it |
| `serving` | `NewWithDependencies` has returned and the API is served |
| `written`, `isolated`, `given` | history for the properties; no action reads them |

`SetPermission` (the reads and checks of the handler, ending with a copy of the topic),
`Store`, `Publish`, `NotifyError` and `Mark` are the calls of
`setPermission` (`resource.go:221-243`); `...Fails` is the call that returns an error,
with or without effect. A topic without channel is stored as synced and the request ends.
`RetryList` ... `RetryEnds` is `RetryPublishOfUnsyncedResourcesContext`
(`controller.go:129-155`): errors continue with the next element, an error of the
list ends the pass, and so leaves the state as it is. `SetTopic` and `WriteSetTopic` are
the read and the write of `SetTopicContext`; `RemoveTopic`, `ScanEntries`,
`RemoveEntry` and `RemoveTopicEnds` are the two `DeleteMany` of `DeleteTopic`, of which
the second works entry by entry and may stop anywhere. `Crash` is a stop and a start.
The permissions themselves are model values; the rights in the Kafka message are the
same value; `Inputs` are those each topic's resources are set to. A `SetTopic` that
changes anything but the channel does not change this state.

A record is in the channel when the send ends, also when it ends with an error. The Kafka
writer may go on after its context has ended, so that such a record arrives later and
behind others; that delay is left out. It would weaken no promise of `PermissionFeed`,
which says nothing of the order.

### PermissionFeed

The view of a consumer: `content` is what the API shows, `ever` and `given` what it has
shown and which channels a topic had, `feed` the last record of each key. `Write`,
`Remove`, `Give` and `Announce` are single steps; there are no requests, retries,
failures or restarts. `PermissionSync!Feed` maps `content` to the content of the entries
and the other three to `written`, `given` and `latest`; every call of the write path is
one of the four steps or leaves all of it as it is. What the service does *not* promise
is visible by its absence: the last record need not be the current content
(`stale_announcement`), nor is a removal announced.

### Permissions and AccessControl

A `PermissionsMap` is the set of its true fields, a `ResourcePermissions` one function
from subjects (a user, role or group) to such sets; a key with nothing granted is kept,
since the Go map keeps it and the edit check compares maps. A MongoDB entry is a function from
permissions to sets of subjects (four permissions; each set stands for the three lists of
users, roles and groups). An id is a resource with or without a modifier.

`AccessControl` has one topic, of which only the default permissions matter (topics do
not share anything here). Each read function is an operator over one state. An edit is
two steps: `CheckSetPermission` is everything up to and with `checkEditPermission`
(`resource.go:172-208`), `SetPermission` the store. `entries` and `mock` receive the same
calls: the second is what the in-memory database holds after them, under the deployed
configuration (`NewTestClient` itself has an empty one). Both deletes of
`RemoveTopic` are one step here, as `PermissionSync` has them apart. The configuration is
the deployed one: `only_admins_may_edit_role_permissions` is true and there is a
user-management service, whose answer is the constant `SameGroup`.

### ReadPath

`read` is a check between its two calls: `ReadTopic` is `CheckTopicDefaultPermission`
with its call of `GetTopic`, `ReadResource` the call of `CheckResourcePermissions`, whose
answer is that of the operator with this name in the state it is made. A check that the
defaults grant, or of an unknown topic, ends with the first call and so answers for one
state. `OtherStep` is any step of `AccessControl`. `decisions` (what `CheckPermission`
says in each state since the call began) and `changed` are history. The other reads begin
with the same two calls and are not split.

### EditRights

`given` and `named` are history beside the steps of `AccessControl`: the role permissions
admins have sent for each resource, in the form an entry shows them, and the users and
groups sent by callers who may add them (`MayAdd`: an admin anyone, others their own groups
and the users user-management lists for them). `Edit` is `CheckSetPermission` with this
record; the store and the steps of others leave it alone.

### Listings and Clients

`Listings` holds the functions of `resource.go` that list or return resources, with the
database's five functions as parameters. `Clients` instantiates it for MongoDB
(`Service`) and for the in-memory database (`TestClient`), and puts in front of the first
what the handlers of `pkg/api` take from a query and what `pkg/client` sends.
`Order` is the order of the ids' bytes, by which MongoDB sorts and the in-memory database
is sorted: the i-th of a listing is the one that i - 1 others come before (`Sorted`).
A parameter that is missing or empty is `Unset`. Ids in a query are joined
with "," and cut again: `Parts` says what an id arrives as, so that an id with a comma is
one of the cases. A number reads as 0 when it is missing; `limit` and `offset` that are
not positive are not sent. The ids of the list options are not sent at all, and a request
without any permission asks for "r", so that `ListingsAgree` compares with a test client
that is asked for the same. Reads are functions of one state of `AccessControl`, so that
`Clients` adds no steps.

### ImportExport

`topics` and `entries` are the collections as partial functions; a topic without its id
is a model value of `Configs`, permissions one of `Contents`, each valid or not (which is
all that `Validate`, `Equal` and `Valid` tell apart). `export` and `import` are the call
in progress and what it has read. A filter is `NoFilter` (nil) or a set of ids, `NoId`
("") among them; `Received` is what the API's handler makes of what the client sends: a
list is joined with "," and cut again (`Wire`), so that an empty one and one of "" alone
arrive as nil, and an id arrives as its parts (`TopicParts`, `ResourceParts`): itself, or
what stands between its commas.

An export reads the topics once (`Export`) and then one entry after the other
(`ExportEntry`): a MongoDB cursor shows no snapshot. An import takes the elements in any
order, topics first. `ImportTopic` is `SetTopicContext` up to its write
(`ImportSetTopic`), `ImportResource` the checks and the topic cache,
`ImportSetPermission` the store; `pc = "refused"` is an answer of 400. `ImportFails` is
an error of any call, after which a write may have taken effect. Other requests are one
step each, as far as they change the collections; their own interleavings are
`PermissionSync`'s. Several exports or imports at a time do not share anything but the
collections, and are other requests to each other. `changed` is history.

### PermissionSearchLoad

`source` is the list permission-search exports, `load` the call: `offset`, the page
(`list`), whether it is the last one, the merged resource. `FetchPage`, `ReadElement`,
`StoreElement` and `PageEnds` are the loop of `load.go:65-97` and its
`handlePermissionSearchExport`. The topic stays what it was when the load began, and
is not removed; a load that is refused before its loop is no step. The merge works on
the maps that `GetResource` builds from the entry, so that `Permissions` supplies both
conversions. Resources may be deleted (`SourceRemove`) and created (`SourceAdd`) in
permission-search meanwhile, which moves the pages in either direction; since a list names
a resource once and `Resources` is finite, a list that grows for ever is left out.
A page request (`load.go:68-73`) has neither a timeout nor a context and may never end.
`before`, `touched`, `raced` and `moved` are history; `raced` is what others store between
the load's look-up of a resource and its store.

### Migration

`phase` is what the process does: `down`, one of the two loops of `MigrateDb`
(`topics`, `entries`), `serving`. `todo` is what the cursor has not passed. `Stop` is
any end: an error of a call, the ten seconds of the shared context, a stop of the
process. The database to migrate from is constant. `edited` is history.

### TokenProvider

| variable | code |
|---|---|
| `grant` | which of `NewTokenProvider` and `NewUserTokenProvider` has made it |
| `openid` | the captured token; a token is the time it expires at |
| `mux` | the goroutine that holds the mutex |
| `calls` | one record per goroutine: where it is, its `duration`, what it returns, what it has still to reset |
| `now` | time, up to `MaxTime` |
| `held`, `disturbed` | history |

`Lock` ... `Unlock` is the body of the returned function, `RefreshFails` and `GetFails`
are errors of the requests, which leave `openid` empty or, after an error of the JSON
decoder, with some of its fields. `Reset` is the deferred function that was declared
first and so runs last, behind the deferred `Unlock`: it is a data race with the next
caller, and is modelled as writes of single fields in any order, between any two
steps of others. (A field itself is read and written at once; a torn string is left out,
as is an auth server that answers 200 without a token.)

## Runs

| run | instance | result |
|---|---|---|
| `sync_moving` | 1 resource, 2 contents, 2 requests; a topic moved between two channels and none | passes: `TypeOK`, `SyncedMatchesFeed`, `AnnouncedStaysAnnounced`, `FeedIsKept` |
| `sync_live` | 2 topics on one channel, 1 resource id, a content for each topic, 1 request, fair | passes: `UnsyncedIsRetried`, `StartUpEnds`, `SyncedMatchesFeed` |
| `lost_retry` | 2 requests on one resource, fair | `PublishWillBeRetried` is violated |
| `stale_announcement` | a retry pass and a request | `SyncedStaysCurrent` is violated |
| `access` | 2 resources, each with and without modifier, 2 users, 2 roles, 1 group, 3 callers, 5 permission values, 5 limits and offsets | passes: `TypeOK`, `BackendsAgree`, `ResourcesHaveAdmin`, `ComputedMatchesCheck`, `ChecksAgree`, `ListingsAgree`, `PagesAreListing`, `AdministratedCanBeRead` |
| `read_path` | 1 resource, with and without modifier, 2 requests, 3 callers who share no group, one of three questions at a time asked in two calls | passes: `GrantsWereRight`, `DeniedOnlyByMovedGrant`, `RolesAreGiven`, `SubjectsAreNamed` |
| `omitted_roles` | 1 resource with modifier, 1 request | `OmittedRolesAreKept` is violated |
| `export` | 2 topics, 1 resource id, exports with and without a filter, imported again | passes: `TypeOK`, `ExportIsExact`, `ExportIsSelfContained` |
| `import` | 2 topics, 2 resources, valid and invalid permissions, options with nil, empty, named and comma filters, three files | passes: `ImportIsComplete`, `ImportedHasTopic`, `RefusedForTheFile`, `OnlySelectedChanges` |
| `load` | 3 resources, one of which is created again, pages of 2, fair | passes: `TypeOK`, `LoadIsComplete`, `LoadedAsExported`, `KnownAreKept`, `LoadEnds` |
| `migration` | 2 topics, an entry of each | passes: `TypeOK`, `MigrationIsComplete`, `ChangesSurviveRestart` |
| `token` | 2 goroutines, times 1 and 2, an access token of 2 and a refresh token of 3, a margin of 1, fair | passes: `TypeOK`, `OneAtATime`, `CachedIsFresh`, `NoNeedlessRequest`, `EmptyOnlyByReset`, `CallsReturn` |

What the properties of `access` add up to: `ChecksAgree`, `ListingsAgree`,
`PagesAreListing` and `AdministratedCanBeRead` compare the ways to the same answer (one
id or many, a listing or a check, HTTP or the test client, a page or the whole), and
`BackendsAgree` the databases below them. `ComputedMatchesCheck` says what is left when the
defaults and the resource are asked for a whole list: for the id of a resource all that is
granted is computed, and what is computed and denied comes from both. For an id with
modifier, or of no resource, nothing is computed, although a check may grant it. The run `read_path` keeps the steps
(`ReadsChangeNothing`, `EditsChangeNothing`) and adds a reader and the history of edits, so
that its specification is `ReadSpec` and `EditSpec` at once: `GrantsWereRight` and
`DeniedOnlyByMovedGrant` are about time: a check reads two things at two moments, and what
it grants was granted at one of them. `RolesAreGiven` and `SubjectsAreNamed` are about the
edits, two of which may be between their check and their store.

**Bounds.** The only counter is the time of `token`, which ends at `MaxTime`; otherwise the
state spaces are finite because the constants are. Two requests and the retry pass are three workers on one entry, enough
for every pairwise race (a request with a request, with the pass, with a topic change);
two contents tell old from new. The topic of `sync_moving` is also removed and created again. Liveness is
checked without symmetry, for two entries, so that one can keep the other waiting, and
one request, since races of requests are the other runs' subject. The two entries of
`sync_live` are of two topics with one channel and one resource id, so that their records
replace each other, and each has a content of its own, so that a record of the other topic
is not taken for theirs; that `AnnouncedStaysAnnounced` holds on a shared channel too, for any
number of topics, is `AnnouncedStays`. `access` has a
caller with a group, one with a role and an administrator, a role that is a key with
nothing granted, permission values that are not `Valid`, and all sixteen permission lists
for each question. The files of `import` hold invalid permissions, miss a topic or hold an
invalid one; its options have each filter, none, an empty one, one of the empty string,
and one of an id with a comma. `load` has a source of three
elements, and of two once one is deleted, so that its end is and is not the end of a page;
the third may be created again at any place
(the page limit, 100 in the code, is the constant `PageLimit`). `migration` can stop before and after each of two
topics and two entries. The numbers of `access` are a negative one, the middle, the end of
the listing and one behind it. The checks of `read_path` ask under an id with modifier for
one and for two permissions that defaults, a user grant and a group grant may give, and
for one that only a role may be granted. In `token` a token
is too old after one step of time, is refreshed while the refresh token lasts and asked for
anew when it does not; two goroutines are what a mutex and a reset race need. The proofs
remove the bounds for most of it.

**Fairness** (`PermissionSync!Fairness`, mapped to `StartSyncLoop`). The ticker fires
while the process runs, and the loop goes on after every error: weak fairness of the
pass. A call repeated at every tick does not fail for ever, and the process is not
stopped before the same point of every pass: strong fairness of the calls' successful
outcomes, for each entry. Time passes and a request in flight comes to its next call
(with either outcome). Callers, failures and restarts have no fairness. `StartUpEnds`
supposes only that the process is not stopped for ever. `LoadEnds` supposes that
the load's goroutine goes on and that its calls of the database and of Kafka, which have
timeouts, end with a result or an error: weak fairness of its steps outside the page
request. For that request, which has no timeout, the property itself supposes an end
(`At("fetch") ~> ~At("fetch")`): what it says is that the pages come to an end. `CallsReturn` supposes that goroutines go on and that a request to the auth
server ends, since its client has a timeout of five seconds (weak fairness of the steps of
each call), and that a `sync.Mutex` does not let a goroutine starve (strong fairness of
`Lock`); nobody has to call.

### What the violations say

* `lost_retry`. Request 1 stores and publishes v1; request 2 stores v2 and fails to
  publish; request 1 marks the entry. It is synced, so "publish will be retried"
  (`resource.go:233`) does not come true.
* `stale_announcement`. A pass lists v1 of an entry whose publish failed; a request
  stores, publishes and marks v2; the pass publishes v1 and marks the entry. The channel
  keeps v1, and nothing corrects it until the next edit.
* `omitted_roles`. `checkEditPermission` returns "permissionsWithMissingApplied", but
  reads the entry under the id with modifier, where there is none. (Without modifiers and
  with two requests at a time the same property is violated by a race: the entry is read
  before the store, when another request may still change its roles.)

Read in the code, and no run of their own: "null->all; []->none" (`model.go:106`,
`api/import_export.go:91`) does not hold for the HTTP client, which sends an empty list as
an empty parameter, and the API takes that for no filter; a filter for an id with a comma
selects the ids between its commas (`Received` in `ImportExport` has both;
`OnlySelectedChanges` says nothing of empty filters and takes such an id for its parts). A check without any permission is granted by the controller and asks for "r"
through HTTP (`permissionscheck.go:64`; `ChecksAgree` says what is left), and so does a
listing of accessible resources; the ids of `ListOptions` are looked at by
`AdminListResources` of the in-memory database and never sent by the client
(`ListingsAgree`). A caller of a
token provider may get "Bearer " without a token and without an error when the reset of a
failed call hits it (`auth.go:39`; `EmptyOnlyByReset` says that this is the only way).
Defaults and resource are asked for a whole
list one after the other, so a list whose permissions come from both is denied
(`check.go:42-62`; `README.md:51` says what every resource gets). A check splits the
modifier off an id (`check.go:56`), the computed permissions do not (`check.go:125`, `152`):
an id with modifier is granted what its resource grants, and shown nothing. An id of no
resource is granted what the defaults grant, and shown nothing either. `ComputedMatchesCheck`
has these three cases apart, and says that there is no other. Of a load
`model.go:99` says "false -> skip known elements; true -> force state of
permission-search": it looks for an entry before it stores, so one that another request
stores in between is overwritten even without `overwrite_existing`
(`load.go:101-141`), and with it rights are added to those stored, so some that
permission-search does not grant may remain (`load.go:117-134`). `KnownAreKept` says
that nothing else is overwritten unasked, `LoadedAsExported` that the rights of those it
names arrive; that withdrawn ones stay is caught by neither. A page request that
permission-search does not answer holds the load, and its handler, for ever
(`load.go:68-73`).

`SyncedMatchesFeed` and `AnnouncedStaysAnnounced` are what remains beside the first two:
they hold for entries whose last write met no other worker on the same entry, no change
of the topic and no record of another topic under the same key. `isolated` records
that. It is cautious: some of the entries it leaves out are announced all the same.

`ResourcesHaveAdmin` is about edits through `SetPermission`. The load from
permission-search does not ask `Valid`, and may store a resource without an
administrating user; an export that holds one is refused when it is imported, which is
why `RefusedForTheFile` allows that reason.

`GrantsWereRight` leaves out a topic that is removed during the check: a request that
passed its checks before may store its entry afterwards, and the check reads it although
its topic is gone. `DeniedOnlyByMovedGrant` is the other direction: when a grant moves
from the defaults to the entry during the check, access that was there all the time is
denied once.

`MigrationIsComplete` says that a migration which ends is complete, not that the service
always ends with the old data: a start after one that was stopped behind its first
topic finds that topic and does not migrate (`mongo.go:62-72`).

## Proofs

| theorem | states | for |
|---|---|---|
| `PermissionSync_proofs!TypeCorrect` | `Spec => []TypeOK` | any sets of topics, resources, contents, channels and requests |
| `...!SyncedIsAnnounced` | `Spec => []SyncedMatchesFeed` | |
| `...!AnnouncedIsStored` | `Spec => []AnnouncedWasStored` | |
| `...!AnnouncedStays` | `Spec => AnnouncedStaysAnnounced` | |
| `PermissionFeed_proofs!ImplementsFeed` | `Spec => FeedIsKept` | the same |
| `AccessControl_proofs!TypeCorrect` | `Spec => []TypeOK` | any users, roles, groups, resources, modifiers, requests, inputs |
| `...!SameGrants` | `Spec => []BackendsAgree` | |
| `...!AdminRemains` | `Spec => []ResourcesHaveAdmin` | |
| `...!ComputedIsChecked` | `Spec => []ComputedMatchesCheck` | |
| `...!GrantedAccessWasThere` | `ReadSpec => []GrantsWereRight` | the same, and any question |
| `...!DeniedAccessHasMoved` | `ReadSpec => []DeniedOnlyByMovedGrant` | |
| `...!ReadsChangeNothing` | `ReadSpec => Spec` | |
| `...!RolesComeFromAdmins` | `EditSpec => []RolesAreGiven` | the same, any groups that users share |
| `...!SubjectsComeNamed` | `EditSpec => []SubjectsAreNamed` | |
| `...!EditsChangeNothing` | `EditSpec => Spec` | |
| `Clients_proofs!ClientsCheckAlike` | `Spec => []ChecksAgree` | the same, and any order of the ids, numbers, pages and ids that commas cut |
| `...!ClientsListAlike` | `Spec => []ListingsAgree` | |
| `...!PagesAreComplete` | `Spec => []PagesAreListing` | |
| `...!AdministratedIsReadable` | `Spec => []AdministratedCanBeRead` | |
| `ImportExport_proofs!TypeCorrect` | `Spec => []TypeOK` | any topics, resources, configurations, contents, options and files |
| `...!ImportComplete` | `Spec => []ImportIsComplete` | |
| `...!ImportHasTopic` | `Spec => []ImportedHasTopic` | |
| `...!RefusalIsForTheFile` | `Spec => []RefusedForTheFile` | |
| `...!ExportSelfContained` | `Spec => []ExportIsSelfContained` | |
| `...!ExportExact` | `Spec => []ExportIsExact` | |
| `...!ImportSparesTheRest` | `Spec => OnlySelectedChanges` | |
| `PermissionSearchLoad_proofs!TypeCorrect` | `Spec => []TypeOK` | any resources, rights, exports, number of pages and page limit |
| `...!LoadMissesNothing` | `Spec => []LoadIsComplete` | |
| `...!LoadKeepsRights` | `Spec => []LoadedAsExported` | |
| `...!LoadSparesKnown` | `Spec => KnownAreKept` | |
| `Migration_proofs!TypeCorrect` | `Spec => []TypeOK` | any old database |
| `...!MigratedAll` | `Spec => []MigrationIsComplete` | |
| `...!ChangesSurvive` | `Spec => ChangesSurviveRestart` | |
| `TokenProvider_proofs!TypeCorrect` | `Spec => []TypeOK` | any number of goroutines, margin, lifetimes and time |
| `...!MutualExclusion` | `Spec => []OneAtATime` | |
| `...!CachedTokensAreFresh` | `Spec => []CachedIsFresh` | |
| `...!RequestsAreNeeded` | `Spec => []NoNeedlessRequest` | |
| `...!EmptyBearerOnlyByReset` | `Spec => []EmptyOnlyByReset` | |

Assumptions: the named ASSUMEs of the modules. They say that the model values for
"nothing there" are none of the values they stand next to (an error is no answer, a
missing parameter no number and no list), and that the inputs are well-formed (`Order`
has every id once); TLC evaluates them in every run.

*PermissionSync.* None of the properties is inductive. That only stored contents are
announced (`AnnouncedWasStored`) needs that whatever a worker may still send has been
stored (`WrittenInv`: the entries, the requests before their publish, the elements of the
retry pass). `SyncedMatchesFeed`
needs that every worker on an isolated entry holds its content and its channel, and has
announced it when it is about to mark it (`IsolationInv`, made of `EntryAgrees`,
`RequestAgrees`, `RetryAgrees`), together with `ChannelInv` (a request that publishes has
a channel). `AnnouncedStays` follows from the same invariant: a send for an isolated
entry carries its content, and a send of another topic under the same key ends the
isolation. Each step has a lemma for each part of the invariant it can disturb.

*PermissionFeed.* The refinement is proved step by step: every action of `PermissionSync`
is a `Write`, `Remove`, `Give` or `Announce` of the mapped state, or changes none of it.
An announcement needs both halves of the abstract guard in the state before it:
`WrittenInv` (the content was stored) and `GivenInv` (the channel in the copy of the topic
a worker holds was given to that topic), which is inductive with `ChannelInv`.

*ReadPath.* As long as a part of what the check reads is unchanged it still says what it
said when the check began: the defaults deny (`DefaultsDeny`), and the entry grants if
`CheckPermission` has been true all the time (`EntryGrants`). With `DecisionNow` (history
includes this state) both properties follow from what `CheckPermission` is made of.

*EditRights.* Neither property is inductive: a store needs that the request it completes was
`Sanctioned` for its resource when it passed its checks, which `RightsInv` adds. History
only grows, so a request stays sanctioned whatever becomes of the entry it has read. That it
is sanctioned at all rests on what `checkEditPermission` compares with
(`CurrentIsSanctioned`: an entry, or nothing, when the id has a modifier or is not found)
and on the twelve lists giving back the role permissions they were made of, as long as every
role is granted something (`RolesSurvive`), which is so for role permissions that were read
from lists (`KeptRoles`).

*TokenProvider.* `MutexInv` says that whoever is between `Lock` and `Unlock` is the one in
`mux`; `TokenInv` relates what a reset may leave of `openid`, field by field, to an answer
the auth server has given, so that a half-cleared token never looks younger than it is.

*AccessControl.* `StoredInv` is the strengthening: the MongoDB entry of a resource is
always the list form of what the in-memory database holds, and that is `Valid`; with
`PendingInv`, a request past its checks is `Valid` too, also after the role permissions
it left out were applied (`EditedIsValid`). `StoredGrants`, `ReadGrants` and `RoundTrip`
say what the conversion to lists and back preserves, `SameDecision` that decisions on
both forms agree. `ComputedMatchesCheck` follows without an invariant: what is computed is
one permission at a time what the check asks for the whole list (`ListComputed`,
`MixedList`), and nothing for other ids (`OtherComputed`).

*Clients.* Reads are functions of a state, so `StoredInv` is all the invariant they need:
by it the two databases have the same resources and their filters let the same ones pass
(`AllowedAlike`). `SortedProperties` says that `Sorted` has each of them once and in
order; it counts a finite set: the number of those before a resource is different for
each, below the number of all, and so takes every value. What MongoDB skips and limits
and what the in-memory database slices off are the same stretch (`Cut`: `MongoPageIsCut`,
`LimitOffsetIsCut`), also for the numbers that arrive through HTTP (`PageSurvivesQuery`).
`ManyDecided` carries the decisions on single ids over to a request for many.
`PagesAreComplete` needs what `FlattenSeq` computes, a recursive function over the number
of pages: `FlattenIs` takes any function that satisfies its equations and looks at the
first place where the two would differ, so that the pages put together are the first
`k * n` elements of the listing for every `k` (`PagesAreTheList`).

*ImportExport.* Every selected element of the file is either still in the loop, or the one
about to be written, or settled: stored, or changed by somebody else (`TopicsInv`,
`ResourcesInv`, on top of `WorkInv`). A step of another request records what it changes
(`Recorded`), so it keeps all of that (`RecordedKeeps`). `CacheInv` says of the
topic cache what `ImportedHasTopic` needs; a refusal for a missing topic is explained by
`TopicsInv`, since no topic is left in the loop by then. `ExportInv` is the export's
part: what it still looks for has its topic in the file. `ExactInv` says the rest of the
file point by point: a topic nobody has changed is in it from the start as it is stored,
an entry as soon as the cursor has passed it; a step beside the export, an import's write
among them, records what it changes (`ExportRecorded`). `OnlySelectedChanges` needs only
that an import writes elements it selected (`WorkInv`) and that what passes a filter as it
arrives was given in it, itself or between commas (`PassedIsGiven`, `SelectedIsGiven`).

*PermissionSearchLoad.* `Handled` is how many elements of the export the load has left
behind. As long as the export has not moved, what is left of the page is the part of it
that follows (`PageInv`), and every element before is settled (`SettledInv`): changed by
another request, known and not to be overwritten, or stored with its rights. That a
resource is skipped only because it was known when the load began needs `NewInv` (what is
new comes from an element left behind) and that an export names a resource once;
`StoreInv` carries both over the gap between the read and the write of an element, and
says what `KnownAreKept` needs: without overwrite, the resource about to be stored is not
stored yet, or was stored by another request in this gap (`raced`).

*Migration.* What the cursor has passed is there as it was copied, and nothing has been
edited in a topic that is there while a migration runs.

Only model-checked: the four liveness properties `UnsyncedIsRetried`, `StartUpEnds`,
`LoadEnds` and `CallsReturn`. Fairness and ENABLED are out of the prover's reach. Every
invariant and every action property the passing runs check is also the statement of a
theorem.

## Not modelled

Decoding and encoding of HTTP, JWT and JSON, logging, tracing, configuration files and
the API documentation have no part in the properties. A handler's call is the first step
of a request in the models. The drivers of MongoDB and Kafka are external: single
document writes are atomic, a record is the last of its key or not there. The write
concern, elections of replicas and the loss of acknowledged writes are left out.

Further left out, and why:

* the producer cache and the creation of channels (`controller.go:107`, `kafka.go:120`):
  which configuration a channel is created with is state of Kafka, and nothing in this
  service depends on it;
* a record that arrives after its send has failed (see `PermissionSync`);
* reads other than `CheckPermission` as several calls: what they answer from two moments
  is covered by the same argument, one id at a time, except that a MongoDB cursor may also
  read two entries at different moments;
* `Topic.Validate`, `Topic.Equal` and the conversion to rights in a message: conditions on
  strings and copies of flags, for which a unit test says as much;
* `ListTopics`, also of the in-memory database, and the data race of `Mock.GetTopic`.

## Plan

What could follow, in order of importance:

1. A topic of the same name after a removal with requests in flight: what it finds of the
   old one's entries, once a document says what it should find.
2. Late delivery: records that are still queued in the Kafka writer, against
   `PermissionFeed`.
3. `ListComputedPermissions` and the listings as several calls in `ReadPath`.
