----------------------------- MODULE Aggregation -----------------------------
(***************************************************************************)
(* The behaviour aggregates: --recompute-aggregates rebuilds three tables  *)
(* from the interaction log in one transaction                             *)
(* (src/analytics/behavior_aggregation.cpp), while servers append to the   *)
(* log and the inspection commands of src/main.cpp read the tables.        *)
(*                                                                         *)
(* The database file has the rollback journal SQLite starts with, and no   *)
(* busy timeout is set: one process holds the write lock from BEGIN        *)
(* IMMEDIATE to the end of its transaction, a SELECT that was not stepped  *)
(* to its end keeps a read lock, and a COMMIT fails while another process  *)
(* has one. A mean is kept as its sum and count, entropy and divergence    *)
(* as the shares and means they are computed from: the doubles and their   *)
(* rounding are left out.                                                  *)
(***************************************************************************)
EXTENDS Integers, Sequences, FiniteSets, FiniteSetsExt

CONSTANTS
    Proc,       \* processes that open the database file
    Player,     \* stable player ids
    QueryId,    \* query ids, numbers
    Score,      \* values of final_score
    Legacy,     \* logs that a file of an older version may bring along
    MaxRows,    \* bound: rows of the log
    MaxOps,     \* bound: commands and requests
    MaxCrashes, \* bound: processes that stop on the way
    None        \* SQL NULL, no value

ASSUME AggregationAssumption ==
    /\ IsFiniteSet(Proc) /\ IsFiniteSet(Player)
    /\ IsFiniteSet(QueryId) /\ QueryId \subseteq Nat
    /\ Score \subseteq Int
    /\ Legacy \subseteq Seq([query : QueryId, player : Player \cup {None}, score : Score \cup {None}])
    /\ None \notin Player \cup Score \cup Proc
    \* stable_player_id is a text, query_id a number.
    /\ Player \cap QueryId = {}
    /\ MaxRows \in Nat /\ MaxOps \in Nat /\ MaxCrashes \in Nat

VARIABLES
    log,      \* interaction_log: query, player and score of its rows
    qpa,      \* query_player_aggregate, by query and player
    qcs,      \* query_cluster_stats, by query
    ppv,      \* player_preference_vector, by player
    writer,   \* the process with an immediate transaction, or None
    readers,  \* processes with an open SELECT
    pc, work, \* next step and locals of each process
    report,   \* what each process printed last
    commits,  \* history: recomputations committed so far
    ops, crashes

tables == <<qpa, qcs, ppv>>
locks == <<writer, readers>>
vars == <<log, tables, locks, pc, work, report, commits, ops, crashes>>

-----------------------------------------------------------------------------
(* The aggregates.                                                         *)

Row == [query : QueryId, player : Player \cup {None}, score : Score \cup {None}]

\* Rows of anonymous players, and rows without scores, do not count.
Counted(rows) == {i \in 1 .. Len(rows) : rows[i].player # None /\ rows[i].score # None}

RowsOf(rows, q, p) == {i \in Counted(rows) : rows[i].query = q /\ rows[i].player = p}

Pairs(rows) == {<<rows[i].query, rows[i].player>> : i \in Counted(rows)}

\* GROUP BY query_id, stable_player_id.
AggregatesOf(rows) ==
    [g \in Pairs(rows) |->
        [n   |-> Cardinality(RowsOf(rows, g[1], g[2])),
         sum |-> MapThenSumSet(LAMBDA i : rows[i].score, RowsOf(rows, g[1], g[2]))]]

PlayersOf(a, q) == {g[2] : g \in {h \in DOMAIN a : h[1] = q}}
Mean(a, q, p) == <<a[<<q, p>>].sum, a[<<q, p>>].n>>

\* One row per query, computed from the rows of query_player_aggregate.
StatsOf(a) ==
    [q \in {g[1] : g \in DOMAIN a} |->
        [players |-> Cardinality(PlayersOf(a, q)),
         total   |-> MapThenSumSet(LAMBDA p : a[<<q, p>>].n, PlayersOf(a, q)),
         sum     |-> MapThenSumSet(LAMBDA p : a[<<q, p>>].sum, PlayersOf(a, q)),
         shares  |-> [p \in PlayersOf(a, q) |-> a[<<q, p>>].n],
         means   |-> [p \in PlayersOf(a, q) |-> Mean(a, q, p)]]]

\* SELECT query_id FROM query_cluster_stats ORDER BY query_id ASC.
Dimensions(s) ==
    CHOOSE ids \in [1 .. Cardinality(DOMAIN s) -> DOMAIN s] :
        \A i, j \in DOMAIN ids : i < j => ids[i] < ids[j]

NoScore == <<0, 1>>

\* Mutant: a vector has the dimensions of the player's own queries.
VectorsPacked(a, s) ==
    [p \in {g[2] : g \in DOMAIN a} |->
        LET own == SelectSeq(Dimensions(s), LAMBDA q : <<q, p>> \in DOMAIN a)
        IN  [i \in DOMAIN own |-> Mean(a, own[i], p)]]

\* One dimension per query, zero where the player has no rows.
VectorsOf(a, s) ==
    [p \in {g[2] : g \in DOMAIN a} |->
        [i \in DOMAIN Dimensions(s) |->
            IF <<Dimensions(s)[i], p>> \in DOMAIN a THEN Mean(a, Dimensions(s)[i], p)
            ELSE NoScore]]

-----------------------------------------------------------------------------
Steps == {"idle", "insert", "delete", "aggregates", "stats", "vectors", "commit",
          "rollback", "cluster", "top", "queries", "vector"}

Nothing == [x \in {} |-> None]

\* "rows", "qpa", "qcs" and "ppv" are what the transaction has written so far.
NoWork ==
    [row |-> None, qpa |-> Nothing, qcs |-> Nothing, ppv |-> Nothing,
     query |-> None, player |-> None, stats |-> None, dims |-> <<>>, since |-> 0]

Init ==
    /\ log \in Legacy
    /\ qpa = Nothing /\ qcs = Nothing /\ ppv = Nothing
    /\ writer = None
    /\ readers = {}
    /\ pc = [p \in Proc |-> "idle"]
    /\ work = [p \in Proc |-> NoWork]
    /\ report = [p \in Proc |-> None]
    /\ commits = 0
    /\ ops = 0
    /\ crashes = 0

Goto(p, step) == pc' = [pc EXCEPT ![p] = step]

Finish(p) ==
    /\ Goto(p, "idle")
    /\ work' = [work EXCEPT ![p] = NoWork]

\* A command of the process, or a request it serves.
Request(p) ==
    /\ pc[p] = "idle"
    /\ ops < MaxOps
    /\ ops' = ops + 1
    /\ UNCHANGED <<log, tables, readers, report, commits, crashes>>

\* Mutant: BEGIN without IMMEDIATE does not take the lock from anybody else.
BeginDeferred(p) == writer' = p

\* BEGIN IMMEDIATE.
BeginImmediate(p) ==
    /\ writer = None
    /\ writer' = p

\* It fails at once when another process writes: the request dies of the exception,
\* the recomputation swallows it, and the error of its ROLLBACK, and reports failure.
BeginBusy(p) ==
    /\ Request(p)
    /\ writer # None
    /\ UNCHANGED <<writer, pc, work>>

-----------------------------------------------------------------------------
(* A server logs an interaction in a transaction of its own.               *)

StartRecord(p) ==
    /\ Request(p)
    /\ Len(log) < MaxRows
    /\ BeginImmediate(p)
    /\ Goto(p, "insert")
    /\ \E r \in Row : r.score # None /\ work' = [work EXCEPT ![p] = [NoWork EXCEPT !.row = r]]

InsertRow(p) ==
    /\ pc[p] = "insert"
    /\ readers \subseteq {p}
    /\ log' = Append(log, work[p].row)
    /\ writer' = None
    /\ Finish(p)
    /\ UNCHANGED <<tables, readers, report, commits, ops, crashes>>

-----------------------------------------------------------------------------
(* RecomputeBehaviorAggregatesDeterministic.                               *)

StartRecompute(p) ==
    /\ Request(p)
    /\ BeginImmediate(p)
    /\ Goto(p, "delete")
    /\ UNCHANGED work

DeleteAggregates(p) ==
    /\ pc[p] = "delete"
    /\ work' = [work EXCEPT ![p].qpa = Nothing, ![p].qcs = Nothing, ![p].ppv = Nothing]
    /\ Goto(p, "aggregates")
    /\ UNCHANGED <<log, tables, locks, report, commits, ops, crashes>>

\* Mutant: the rows are committed as they are inserted.
BuildAggregatesAutocommit(p) ==
    /\ pc[p] = "aggregates"
    /\ qpa' = AggregatesOf(log)
    /\ work' = [work EXCEPT ![p].qpa = AggregatesOf(log)]
    /\ Goto(p, "stats")
    /\ UNCHANGED <<log, qcs, ppv, locks, report, commits, ops, crashes>>

BuildAggregates(p) ==
    /\ pc[p] = "aggregates"
    /\ work' = [work EXCEPT ![p].qpa = AggregatesOf(log)]
    /\ Goto(p, "stats")
    /\ UNCHANGED <<log, tables, locks, report, commits, ops, crashes>>

BuildStats(p) ==
    /\ pc[p] = "stats"
    /\ work' = [work EXCEPT ![p].qcs = StatsOf(work[p].qpa)]
    /\ Goto(p, "vectors")
    /\ UNCHANGED <<log, tables, locks, report, commits, ops, crashes>>

BuildVectors(p) ==
    /\ pc[p] = "vectors"
    /\ work' = [work EXCEPT ![p].ppv = VectorsOf(work[p].qpa, work[p].qcs)]
    /\ Goto(p, "commit")
    /\ UNCHANGED <<log, tables, locks, report, commits, ops, crashes>>

Commit(p) ==
    /\ pc[p] = "commit"
    /\ readers \subseteq {p}
    /\ qpa' = work[p].qpa
    /\ qcs' = work[p].qcs
    /\ ppv' = work[p].ppv
    /\ writer' = None
    /\ commits' = commits + 1
    /\ Finish(p)
    /\ UNCHANGED <<log, readers, report, ops, crashes>>

\* COMMIT, of a recomputation or of a row, while another process reads.
CommitBusy(p) ==
    /\ pc[p] \in {"commit", "insert"}
    /\ ~(readers \subseteq {p})
    /\ Goto(p, "rollback")
    /\ UNCHANGED <<log, tables, locks, work, report, commits, ops, crashes>>

\* The handler of the exception, or the destructor of the transaction.
Rollback(p) ==
    /\ pc[p] = "rollback"
    /\ writer' = None
    /\ Finish(p)
    /\ UNCHANGED <<log, tables, readers, report, commits, ops, crashes>>

-----------------------------------------------------------------------------
(* --inspect-cluster and --inspect-player.                                 *)

StartInspectCluster(p) ==
    /\ Request(p)
    /\ \E q \in QueryId : work' = [work EXCEPT ![p] = [NoWork EXCEPT !.query = q]]
    /\ Goto(p, "cluster")
    /\ UNCHANGED writer

ClusterNotFound(p) ==
    /\ pc[p] = "cluster"
    /\ work[p].query \notin DOMAIN qcs
    /\ Finish(p)
    /\ UNCHANGED <<log, tables, locks, report, commits, ops, crashes>>

\* Mutant: the statement is reset once its row is printed.
ReadClusterReset(p) ==
    /\ pc[p] = "cluster"
    /\ work[p].query \in DOMAIN qcs
    /\ work' = [work EXCEPT ![p].stats = qcs[work[p].query]]
    /\ Goto(p, "top")
    /\ UNCHANGED <<log, tables, locks, report, commits, ops, crashes>>

\* The statement is stepped once and stays open.
ReadCluster(p) ==
    /\ pc[p] = "cluster"
    /\ work[p].query \in DOMAIN qcs
    /\ work' = [work EXCEPT ![p].stats = qcs[work[p].query]]
    /\ readers' = readers \cup {p}
    /\ Goto(p, "top")
    /\ UNCHANGED <<log, tables, writer, report, commits, ops, crashes>>

\* The players of the query, up to ten of them, which the bounds do not reach.
ReadTop(p) ==
    LET q == work[p].query
    IN  /\ pc[p] = "top"
        /\ report' = [report EXCEPT ![p] =
               [of |-> q, stats |-> work[p].stats, steady |-> TRUE,
                items |-> {<<x, Mean(qpa, q, x)>> : x \in PlayersOf(qpa, q)}]]
        /\ readers' = readers \ {p}
        /\ Finish(p)
        /\ UNCHANGED <<log, tables, writer, commits, ops, crashes>>

StartInspectPlayer(p) ==
    /\ Request(p)
    /\ \E x \in Player : work' = [work EXCEPT ![p] = [NoWork EXCEPT !.player = x]]
    /\ Goto(p, "queries")
    /\ UNCHANGED writer

\* The query ids are read to the end, which ends the read.
ReadDimensions(p) ==
    /\ pc[p] = "queries"
    /\ work' = [work EXCEPT ![p].dims = Dimensions(qcs), ![p].since = commits]
    /\ Goto(p, "vector")
    /\ UNCHANGED <<log, tables, locks, report, commits, ops, crashes>>

VectorNotFound(p) ==
    /\ pc[p] = "vector"
    /\ work[p].player \notin DOMAIN ppv
    /\ Finish(p)
    /\ UNCHANGED <<log, tables, locks, report, commits, ops, crashes>>

\* The vector of a later recomputation is paired with the query ids of an earlier one,
\* as far as both go.
ReadVector(p) ==
    /\ pc[p] = "vector"
    /\ work[p].player \in DOMAIN ppv
    /\ LET vector == ppv[work[p].player]
           ids    == work[p].dims
       IN  report' = [report EXCEPT ![p] =
               [of |-> work[p].player, stats |-> None, steady |-> work[p].since = commits,
                items |-> {<<ids[i], vector[i]>> : i \in DOMAIN ids \cap DOMAIN vector}]]
    /\ Finish(p)
    /\ UNCHANGED <<log, tables, locks, commits, ops, crashes>>

-----------------------------------------------------------------------------
\* The process stops: its transaction is rolled back and its locks are released.
Crash(p) ==
    /\ pc[p] # "idle"
    /\ crashes < MaxCrashes
    /\ crashes' = crashes + 1
    /\ writer' = IF writer = p THEN None ELSE writer
    /\ readers' = readers \ {p}
    /\ Finish(p)
    /\ UNCHANGED <<log, tables, report, commits, ops>>

Recompute(p) ==
    \/ StartRecompute(p) \/ DeleteAggregates(p) \/ BuildAggregates(p)
    \/ BuildStats(p) \/ BuildVectors(p) \/ Commit(p)

Inspect(p) ==
    \/ StartInspectCluster(p) \/ ClusterNotFound(p) \/ ReadCluster(p) \/ ReadTop(p)
    \/ StartInspectPlayer(p) \/ ReadDimensions(p) \/ VectorNotFound(p) \/ ReadVector(p)

Next ==
    \E p \in Proc :
        \/ BeginBusy(p) \/ StartRecord(p) \/ InsertRow(p)
        \/ Recompute(p) \/ CommitBusy(p) \/ Rollback(p)
        \/ Inspect(p)
        \/ Crash(p)

Spec == Init /\ [][Next]_vars

-----------------------------------------------------------------------------
(* Properties.                                                             *)

\* A process is inside an immediate transaction.
Writing(p) == pc[p] \in {"insert", "delete", "aggregates", "stats", "vectors", "commit", "rollback"}

TypeOK ==
    /\ log \in Seq(Row)
    /\ DOMAIN qpa \subseteq QueryId \X Player
    /\ DOMAIN qcs \subseteq QueryId
    /\ DOMAIN ppv \subseteq Player
    /\ writer \in Proc \cup {None}
    /\ readers = {p \in Proc : pc[p] = "top"}
    /\ pc \in [Proc -> Steps]
    /\ \A p \in Proc : Writing(p) <=> writer = p
    /\ commits \in Nat
    /\ ops \in 0 .. MaxOps
    /\ crashes \in 0 .. MaxCrashes

\* Whatever requests are logged meanwhile, and wherever a recomputation stops or fails,
\* the three tables are together the aggregates of the log as it was at one moment:
\* totals, dimensions and vectors never come from different logs.
TablesAgree ==
    \E n \in 0 .. Len(log) :
        LET a == AggregatesOf(SubSeq(log, 1, n))
        IN  qpa = a /\ qcs = StatsOf(a) /\ ppv = VectorsOf(a, StatsOf(a))

\* What the players of a query, or the queries of a player, are said to score.
ReportOf(r) ==
    IF r.of \in Player
    THEN {<<q, IF <<q, r.of>> \in DOMAIN qpa THEN Mean(qpa, q, r.of) ELSE NoScore>> : q \in DOMAIN qcs}
    ELSE {<<p, qcs[r.of].means[p]>> : p \in DOMAIN qcs[r.of].means}

\* An inspection prints what the tables hold: every query of a player with the mean
\* that belongs to it, unless the tables were recomputed between its two reads; and the
\* players of a cluster with the very totals printed above them, even if another process
\* recomputes meanwhile.
ReportsSound ==
    [][\A p \in Proc : report'[p] # report[p] /\ report'[p].steady =>
          /\ report'[p].items = ReportOf(report'[p])
          /\ report'[p].stats # None => report'[p].stats = qcs[report'[p].of]]_vars
=============================================================================
