---------------------------- MODULE MCImportExport ----------------------------
(* Instances of ImportExport for TLC.                                      *)
EXTENDS ImportExport, TLC

CONSTANTS t1, t2, r1, r2, c1, v1, bad

Ask(config, perms, filterTopics, filterResourceId) ==
    [includeTopicConfig |-> config, includePermissions |-> perms,
     filterTopics |-> filterTopics, filterResourceId |-> filterResourceId]

Everything == Ask(TRUE, TRUE, NoFilter, NoFilter)

\* A backup, and a copy of the permissions of one topic.
BackupOptions == {Everything, Ask(FALSE, TRUE, {t1}, NoFilter)}
RestoreOptions == {Everything}

\* Every option; each filter, without one, with an id, with a comma, and empty.
AllOptions == {Everything, Ask(TRUE, FALSE, {t1}, NoFilter), Ask(FALSE, TRUE, {t1}, {r1}),
               Ask(FALSE, TRUE, {}, {r2}), Ask(TRUE, FALSE, {NoId}, NoFilter)}

Uncut(ids) == [id \in ids \cup {NoId} |-> {id}]
\* The id of r2 holds a comma, and that of r1 is a part of it.
CutParts == [Uncut(Resources) EXCEPT ![r2] = {r1}]
UncutTopics == Uncut(Topics)
UncutResources == Uncut(Resources)

NoFiles == {}
\* A file with invalid permissions, one that misses a topic, and one with an
\* invalid topic.
MCFiles == {
    [topics |-> {[id |-> t1, config |-> c1]},
     permissions |-> {[key |-> <<t1, r1>>, perms |-> v1], [key |-> <<t1, r2>>, perms |-> bad]}],
    [topics |-> {[id |-> t2, config |-> c1]},
     permissions |-> {[key |-> <<t1, r2>>, perms |-> v1], [key |-> <<t2, r1>>, perms |-> v1]}],
    [topics |-> {[id |-> t1, config |-> bad]}, permissions |-> {}]}
===============================================================================
