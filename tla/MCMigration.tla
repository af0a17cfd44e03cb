------------------------------ MODULE MCMigration ------------------------------
(* Instances of Migration for TLC.                                         *)
EXTENDS Migration, TLC

CONSTANTS t1, t2, r1, c1, v1

\* A resource of each topic, and two topics.
MCOldTopics == (t1 :> c1) @@ (t2 :> c1)
MCOldEntries == (<<t1, r1>> :> v1) @@ (<<t2, r1>> :> v1)
================================================================================
