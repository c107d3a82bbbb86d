-------------------------------- MODULE Schema --------------------------------
(***************************************************************************)
(* Opening a database file (src/persistence/schema.cpp) and resetting it   *)
(* (/dev/reset in src/playable/http_server.cpp). Every handler and every   *)
(* command first runs ensure_schema: one BEGIN IMMEDIATE transaction that  *)
(* reads the version of the file, applies the migrations it lacks, records *)
(* the version after each one, and commits. A transaction that finds the   *)
(* file locked throws at once, as no busy timeout is set, and one that is  *)
(* not committed is rolled back.                                           *)
(*                                                                         *)
(* What a migration does to a table, to create it or to add its columns    *)
(* and indexes, is one object <<table, migration>>. A migration is named   *)
(* by the version it starts from.                                          *)
(***************************************************************************)
EXTENDS Integers, Sequences

CONSTANTS
    Proc,           \* processes that open the database file
    File,           \* initial files: [version, records, unclustered]
    MaxOps,         \* bound: files opened in a behaviour
    MaxCrashes,     \* bound: processes that stop in the middle
    None            \* absence of a value

\* kSchemaVersion.
Latest == 12

\* A file was made by an older binary or by this one: it holds what its version
\* says. "records" tells which tables record the version; "unclustered" is the
\* number of queries with proposals, which had no cluster before version 11.
ASSUME SchemaAssumption ==
    /\ File \subseteq [version : 0 .. Latest + 1, records : {"meta", "both"},
                       unclustered : Nat]
    /\ \A f \in File :
          /\ f.version >= Latest => f.records = "both"
          /\ f.unclustered > 0 => f.version \in {9, 10}
    /\ MaxOps \in Nat
    /\ MaxCrashes \in Nat
    /\ None \notin Proc \cup (0 .. Latest + 1)

VARIABLES
    file,         \* committed: [objects, schemaMeta, meta]
    unclustered,  \* rows of query_bootstrap_proposals without a cluster, by query
    lock,         \* the process in a transaction, or None
    draft,        \* the file as that transaction sees it
    pc,           \* the next step of each process
    version,      \* local variable of ensure_schema
    drops,        \* tables a reset has dropped so far
    serving,      \* servers that have opened the file since they started
    ops,          \* files opened so far
    crashes       \* processes stopped so far

vars == <<file, unclustered, lock, draft, pc, version, drops, serving, ops, crashes>>

-----------------------------------------------------------------------------
(* The migrations.                                                         *)

\* migrate_0_to_1 to migrate_5_to_6.
RetrievalTables ==
    {<<"proposal_registry", 0>>, <<"prompt_cache", 1>>, <<"prompt_candidates", 1>>,
     <<"prompt_meta", 1>>, <<"interaction_log", 2>>, <<"proposal_stats", 3>>,
     <<"bandit_state", 4>>, <<"interaction_log", 5>>}

\* migrate_6_to_7 and migrate_7_to_8.
QueryTables ==
    {<<"query_registry", 6>>, <<"query_fts", 6>>, <<"interaction_log", 6>>,
     <<"query_player_aggregate", 7>>, <<"query_cluster_stats", 7>>,
     <<"player_preference_vector", 7>>}

\* migrate_8_to_9 and migrate_9_to_10.
FunnelTables ==
    {<<"llm_response_cache", 8>>, <<"query_metadata", 8>>, <<"query_bootstrap_proposals", 8>>,
     <<"query_registry", 9>>, <<"query_metadata", 9>>, <<"query_bootstrap_proposals", 9>>,
     <<"npc_registry", 9>>}

\* migrate_10_to_11 and migrate_11_to_12.
ClusterTables ==
    {<<"concept_cluster", 10>>, <<"concept_alias", 10>>, <<"concept_similarity_log", 10>>,
     <<"query_bootstrap_proposals", 10>>, <<"concept_cluster", 11>>, <<"domain_synonyms", 11>>}

Object == RetrievalTables \cup QueryTables \cup FunnelTables \cup ClusterTables

Contributes(v) == {o \in Object : o[2] = v}

\* What a file of a version holds.
Complete(v) == {o \in Object : o[2] < v}

\* The unique index on (cluster_id, schema_version, proposal_index): the rows of two
\* queries agree on all three, as cluster_id was just added with one default.
UniqueIndexFails(v) == v = 10 /\ unclustered > 1

\* The tables /dev/reset drops, in this order.
DropOrder ==
    <<"prompt_meta", "prompt_candidates", "interaction_log", "prompt_cache",
      "proposal_registry", "proposal_stats", "bandit_state", "query_fts",
      "query_registry", "meta">>

\* current_schema_version.
CurrentVersion(f) ==
    IF f.schemaMeta # None THEN f.schemaMeta ELSE IF f.meta # None THEN f.meta ELSE 0

-----------------------------------------------------------------------------
Init ==
    /\ \E f \in File :
          /\ file = [objects |-> Complete(f.version),
                     schemaMeta |-> IF f.records = "both" THEN f.version ELSE None,
                     meta |-> IF f.version = 0 THEN None ELSE f.version]
          /\ unclustered = f.unclustered
    /\ lock = None
    /\ draft = file
    /\ pc = [p \in Proc |-> "idle"]
    /\ version = [p \in Proc |-> 0]
    /\ drops = [p \in Proc |-> 0]
    /\ serving = {}
    /\ ops = 0
    /\ crashes = 0

Goto(p, step) == pc' = [pc EXCEPT ![p] = step]

\* A command, the start of a server or a request opens the file.
Open(p) ==
    /\ pc[p] = "idle"
    /\ ops < MaxOps
    /\ ops' = ops + 1
    /\ Goto(p, "begin")
    /\ UNCHANGED <<file, unclustered, lock, draft, version, drops, serving, crashes>>

\* POST /dev/reset of a running server.
StartReset(p) ==
    /\ pc[p] = "idle"
    /\ p \in serving
    /\ ops < MaxOps
    /\ ops' = ops + 1
    /\ drops' = [drops EXCEPT ![p] = 0]
    /\ Goto(p, "drop")
    /\ UNCHANGED <<file, unclustered, lock, draft, version, serving, crashes>>

\* Mutant: one table too many.
LastDropLate(p) == drops[p] = Len(DropOrder)

LastDrop(p) == drops[p] + 1 = Len(DropOrder)

\* DROP TABLE IF EXISTS, committed by itself.
DropTable(p) ==
    /\ pc[p] = "drop"
    /\ lock = None
    /\ LET table == DropOrder[drops[p] + 1]
       IN  file' = IF table = "meta" THEN [file EXCEPT !.meta = None]
                   ELSE [file EXCEPT !.objects = {o \in @ : o[1] # table}]
    /\ drops' = [drops EXCEPT ![p] = @ + 1]
    /\ Goto(p, IF LastDrop(p) THEN "begin" ELSE "drop")
    /\ UNCHANGED <<unclustered, lock, draft, version, serving, ops, crashes>>

BeginTransaction(p) ==
    /\ pc[p] = "begin"
    /\ lock = None
    /\ lock' = p
    /\ draft' = file
    /\ Goto(p, "read")
    /\ UNCHANGED <<file, unclustered, version, drops, serving, ops, crashes>>

\* An exception ends the server or the command; its transaction is rolled back.
Throw(p) ==
    /\ Goto(p, "idle")
    /\ lock' = IF lock = p THEN None ELSE lock
    /\ serving' = serving \ {p}
    /\ UNCHANGED <<file, unclustered, draft, version, drops, ops>>

Busy(p) ==
    /\ pc[p] \in {"drop", "begin"}
    /\ lock # None
    /\ Throw(p)
    /\ UNCHANGED crashes

\* Mutant: files of a newer version are not refused.
NewerAccepted(v) == FALSE

Newer(v) == v > Latest

Outdated(v) == v < Latest

Loop(p, v) ==
    /\ version' = [version EXCEPT ![p] = v]
    /\ Goto(p, IF Outdated(v) THEN "migrate" ELSE "commit")

ReadVersion(p) ==
    /\ pc[p] = "read"
    /\ ~Newer(CurrentVersion(draft))
    /\ Loop(p, CurrentVersion(draft))
    /\ UNCHANGED <<file, unclustered, lock, draft, drops, serving, ops, crashes>>

RefuseNewer(p) ==
    /\ pc[p] = "read"
    /\ Newer(CurrentVersion(draft))
    /\ Throw(p)
    /\ UNCHANGED crashes

ApplyMigration(p) ==
    /\ pc[p] = "migrate"
    /\ ~UniqueIndexFails(version[p])
    /\ draft' = [draft EXCEPT !.objects = @ \cup Contributes(version[p])]
    /\ Goto(p, "record")
    /\ UNCHANGED <<file, unclustered, lock, version, drops, serving, ops, crashes>>

\* Mutant: the failure is ignored and the version recorded.
MigrationFailsIgnored(p) ==
    /\ pc[p] = "migrate"
    /\ UniqueIndexFails(version[p])
    /\ Goto(p, "record")
    /\ UNCHANGED <<file, unclustered, lock, draft, version, drops, serving, ops, crashes>>

MigrationFails(p) ==
    /\ pc[p] = "migrate"
    /\ UniqueIndexFails(version[p])
    /\ Throw(p)
    /\ UNCHANGED crashes

Recorded(f, v) == [f EXCEPT !.schemaMeta = v, !.meta = v]

\* Mutant: every migration is committed with its version.
SetSchemaVersionCommitted(p) ==
    /\ pc[p] = "record"
    /\ draft' = Recorded(draft, version[p] + 1)
    /\ file' = draft'
    /\ Loop(p, version[p] + 1)
    /\ UNCHANGED <<unclustered, lock, drops, serving, ops, crashes>>

SetSchemaVersion(p) ==
    /\ pc[p] = "record"
    /\ draft' = Recorded(draft, version[p] + 1)
    /\ Loop(p, version[p] + 1)
    /\ UNCHANGED <<file, unclustered, lock, drops, serving, ops, crashes>>

Commit(p) ==
    /\ pc[p] = "commit"
    /\ file' = draft
    /\ lock' = None
    /\ Goto(p, "open")
    /\ UNCHANGED <<unclustered, draft, version, drops, serving, ops, crashes>>

\* The handler's own statements are the other modules' subject.
Close(p) ==
    /\ pc[p] = "open"
    /\ Goto(p, "idle")
    /\ serving' = serving \cup {p}
    /\ UNCHANGED <<file, unclustered, lock, draft, version, drops, ops, crashes>>

Crash(p) ==
    /\ pc[p] # "idle" \/ p \in serving
    /\ crashes < MaxCrashes
    /\ crashes' = crashes + 1
    /\ Throw(p)

EnsureSchema(p) ==
    \/ BeginTransaction(p) \/ ReadVersion(p) \/ RefuseNewer(p) \/ ApplyMigration(p)
    \/ MigrationFails(p) \/ SetSchemaVersion(p) \/ Commit(p)

Next ==
    \E p \in Proc :
        \/ Open(p) \/ StartReset(p) \/ DropTable(p) \/ Busy(p)
        \/ EnsureSchema(p) \/ Close(p) \/ Crash(p)

Spec == Init /\ [][Next]_vars
-----------------------------------------------------------------------------
(* Properties.                                                             *)

Version == 0 .. Latest + 1

DatabaseFile ==
    [objects : SUBSET Object, schemaMeta : Version \cup {None}, meta : Version \cup {None}]

TypeOK ==
    /\ file \in DatabaseFile
    /\ draft \in DatabaseFile
    /\ unclustered \in Nat
    /\ lock \in Proc \cup {None}
    /\ pc \in [Proc -> {"idle", "drop", "begin", "read", "migrate", "record", "commit", "open"}]
    /\ version \in [Proc -> Version]
    /\ drops \in [Proc -> 0 .. Len(DropOrder)]
    /\ \A p \in Proc : pc[p] = "drop" => drops[p] < Len(DropOrder)
    /\ serving \subseteq Proc
    /\ ops \in 0 .. MaxOps
    /\ crashes \in 0 .. MaxCrashes

Kept(objects) == {o \in objects : \A i \in DOMAIN DropOrder : o[1] # DropOrder[i]}

\* However migrations, resets, failed migrations, collisions on the lock and stops
\* follow each other, the committed file holds nothing beyond its version, and lacks
\* nothing of it in the tables that a reset leaves alone; and a process that
\* ensure_schema let through works on a file of exactly the version its binary knows,
\* neither a newer one nor one on which a migration failed.
VersionIsHonest ==
    LET v == CurrentVersion(file)
    IN  /\ Kept(Complete(v)) \subseteq file.objects
        /\ file.objects \subseteq Complete(v)
        /\ \A p \in Proc : pc[p] = "open" => v = Latest

\* The file goes from the version it had to the latest one in a single commit: no other
\* process, and no process after a stop, ever sees a version in between.
OneTransaction ==
    [][CurrentVersion(file') # CurrentVersion(file) => CurrentVersion(file') = Latest]_vars

\* "all runtime open paths now auto-migrate to latest schema": a process that
\* ensure_schema let through finds every table of the latest version.
OpenedIsComplete == \A p \in Proc : pc[p] = "open" => Complete(Latest) \subseteq file.objects
=============================================================================
