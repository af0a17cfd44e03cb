------------------------------- MODULE Listings -------------------------------
(***************************************************************************)
(* The controller's calls that list resources page by page or return one   *)
(* (pkg/controller/resource.go), over any implementation of                *)
(* database.Database: the service runs them on MongoDB, client.NewTestClient *)
(* on the in-memory database.                                              *)
(***************************************************************************)
EXTENDS Permissions

CONSTANTS
    Refused,                               \* an answer with an error
    SplitModifier(_),
    CheckTopicDefaultPermission(_, _),     \* of a token and a list
    dbAdminListResourceIds(_),             \* of model.ListOptions
    dbAdminListResources(_),
    dbListResourceIdsByPermissions(_, _, _),   \* of a token, options and a list
    dbListResourcesByPermissions(_, _, _),
    dbGetResource(_, _, _)                 \* of an id, model.GetOptions and a token

AdminListResourceIds(token, options) ==
    IF IsAdmin(token) THEN dbAdminListResourceIds(options) ELSE Refused

ListAccessibleResourceIds(token, options, list) ==
    LET access == CheckTopicDefaultPermission(token, list) IN
    CASE access = "granted" -> dbAdminListResourceIds(options)
      [] access = "denied" -> dbListResourceIdsByPermissions(token, options, list)
      [] access = "unknown topic" -> Refused

ListResourcesWithAdminPermission(token, options) ==
    LET access == CheckTopicDefaultPermission(token, {"a"}) IN
    CASE access = "granted" -> dbAdminListResources(options)
      [] access = "denied" -> dbListResourcesByPermissions(token, options, {"a"})
      [] access = "unknown topic" -> Refused

WithId(resource, id) == IF resource = Refused THEN Refused ELSE [resource EXCEPT !.id = id]

\* Mutant: the id is looked up as the caller wrote it.
GetResourceUnsplit(token, id) ==
    LET access == CheckTopicDefaultPermission(token, {"a"})
        options == [checkPermission |-> access # "granted", permissions |-> {"a"}]
    IN IF access = "unknown topic" THEN Refused
       ELSE WithId(dbGetResource(id, options, token), id)

\* Those who may administrate by default are not asked for a grant.
GetResource(token, id) ==
    LET access == CheckTopicDefaultPermission(token, {"a"})
        options == [checkPermission |-> access # "granted", permissions |-> {"a"}]
    IN IF access = "unknown topic" THEN Refused
       ELSE WithId(dbGetResource(SplitModifier(id), options, token), id)
===============================================================================
