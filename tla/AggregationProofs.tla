--------------------------- MODULE AggregationProofs ---------------------------
(* Theorems about Aggregation, for any processes, players, query ids, scores,  *)
(* old logs and bounds.                                                        *)
EXTENDS Aggregation, SequenceTheorems, FiniteSetTheorems, TLAPS

-----------------------------------------------------------------------------
(* The inductive invariant.                                                *)

Fields == {"row", "qpa", "qcs", "ppv", "query", "player", "stats", "dims", "since"}

\* The locals of every process are a record.
Shaped == work = [p \in Proc |-> work[p]] /\ \A p \in Proc : DOMAIN work[p] = Fields

\* What a transaction has computed so far belongs to the log as it is: nobody else
\* can append to the log before the transaction ends.
Drafted ==
    \A p \in Proc :
        /\ pc[p] = "insert" => work[p].row \in Row
        /\ pc[p] \in {"stats", "vectors", "commit"} => work[p].qpa = AggregatesOf(log)
        /\ pc[p] \in {"vectors", "commit"} => work[p].qcs = StatsOf(work[p].qpa)
        /\ pc[p] = "commit" => work[p].ppv = VectorsOf(work[p].qpa, work[p].qcs)

\* The part of TypeOK that the steps keep by themselves.
Typed ==
    /\ log \in Seq(Row)
    /\ writer \in Proc \cup {None}
    /\ readers = {p \in Proc : pc[p] = "top"}
    /\ pc \in [Proc -> Steps]
    /\ \A p \in Proc : Writing(p) <=> writer = p
    /\ commits \in Nat
    /\ ops \in 0 .. MaxOps
    /\ crashes \in 0 .. MaxCrashes

IInv == Typed /\ Shaped /\ Drafted /\ TablesAgree

\* The tables are the aggregates of these rows.
AggregatedFrom(rows) ==
    LET a == AggregatesOf(rows) IN qpa = a /\ qcs = StatsOf(a) /\ ppv = VectorsOf(a, StatsOf(a))

-----------------------------------------------------------------------------
(* Lemmas about the aggregates.                                            *)

\* The rows of a group name a query id and a player.
LEMMA AggregatesDomain ==
    ASSUME NEW rows \in Seq(Row)
    PROVE  DOMAIN AggregatesOf(rows) \subseteq QueryId \X Player
<1>1. DOMAIN AggregatesOf(rows) = Pairs(rows)
  BY DEF AggregatesOf
<1>2. ASSUME NEW i \in Counted(rows) PROVE <<rows[i].query, rows[i].player>> \in QueryId \X Player
  <2>1. i \in 1 .. Len(rows) /\ rows[i].player # None
    BY DEF Counted
  <2>2. rows[i] \in Row
    BY <2>1
  <2> QED
    BY <2>1, <2>2 DEF Row
<1> QED
  BY <1>1, <1>2 DEF Pairs

\* The statistics have query ids, the vectors have players.
LEMMA StatsAndVectorsDomain ==
    ASSUME NEW a, DOMAIN a \subseteq QueryId \X Player, NEW s
    PROVE  DOMAIN StatsOf(a) \subseteq QueryId /\ DOMAIN VectorsOf(a, s) \subseteq Player
<1>1. \A g \in DOMAIN a : g[1] \in QueryId /\ g[2] \in Player
  OBVIOUS
<1>2. DOMAIN StatsOf(a) = {g[1] : g \in DOMAIN a}
  BY DEF StatsOf
<1>3. DOMAIN VectorsOf(a, s) = {g[2] : g \in DOMAIN a}
  BY DEF VectorsOf
<1> QED
  BY <1>1, <1>2, <1>3

\* Without rows all three tables are empty.
LEMMA NoRows ==
    AggregatesOf(<<>>) = Nothing /\ StatsOf(Nothing) = Nothing /\ VectorsOf(Nothing, Nothing) = Nothing
<1>1. Pairs(<<>>) = {}
  BY DEF Pairs, Counted
<1>2. AggregatesOf(<<>>) = Nothing
  BY <1>1 DEF AggregatesOf, Nothing
<1>3. DOMAIN Nothing = {}
  BY DEF Nothing
<1>4. {g[1] : g \in DOMAIN Nothing} = {} /\ {g[2] : g \in DOMAIN Nothing} = {}
  BY <1>3
<1>5. StatsOf(Nothing) = Nothing
  BY <1>4 DEF StatsOf, Nothing
<1>6. VectorsOf(Nothing, Nothing) = Nothing
  BY <1>4 DEF VectorsOf, Nothing
<1> QED
  BY <1>2, <1>5, <1>6

\* A log is the prefix of itself with one row more, for every length.
LEMMA PrefixOfAppend ==
    ASSUME NEW rows \in Seq(Row), NEW r \in Row, NEW n \in 0 .. Len(rows)
    PROVE  SubSeq(Append(rows, r), 1, n) = SubSeq(rows, 1, n) /\ n \in 0 .. Len(Append(rows, r))
<1>1. n \in Nat /\ Len(rows) \in Nat /\ Len(Append(rows, r)) = Len(rows) + 1 /\ Append(rows, r) \in Seq(Row)
  OBVIOUS
<1>2. \A i \in 1 .. n : Append(rows, r)[i] = rows[i]
  BY <1>1
<1>3. SubSeq(Append(rows, r), 1, n) = [i \in 1 .. n |-> Append(rows, r)[i]]
  BY <1>1
<1>4. SubSeq(rows, 1, n) = [i \in 1 .. n |-> rows[i]]
  BY <1>1
<1> QED
  BY <1>1, <1>2, <1>3, <1>4

\* Tables that are aggregates of the whole log agree.
LEMMA AggregatedAgree ==
    ASSUME log \in Seq(Row), AggregatedFrom(log)
    PROVE  TablesAgree
<1>1. Len(log) \in 0 .. Len(log) /\ SubSeq(log, 1, Len(log)) = log
  BY SubSeqFull
<1> QED
  BY <1>1 DEF TablesAgree, AggregatedFrom

LEMMA TypedGivesTypeOK == Typed /\ TablesAgree => TypeOK
<1> SUFFICES ASSUME Typed, TablesAgree PROVE TypeOK
  OBVIOUS
<1>1. PICK n \in 0 .. Len(log) : AggregatedFrom(SubSeq(log, 1, n))
  BY DEF TablesAgree, AggregatedFrom
<1>2. SubSeq(log, 1, n) \in Seq(Row)
  BY DEF Typed
<1>3. DOMAIN qpa \subseteq QueryId \X Player
  BY <1>1, <1>2, AggregatesDomain DEF AggregatedFrom
<1>4. DOMAIN qcs \subseteq QueryId /\ DOMAIN ppv \subseteq Player
  BY <1>1, <1>3, StatsAndVectorsDomain DEF AggregatedFrom
<1> QED
  BY <1>3, <1>4 DEF Typed, TypeOK

-----------------------------------------------------------------------------
(* The steps.                                                              *)

LEMMA InitInvariant == Init => IInv
<1> SUFFICES ASSUME Init PROVE IInv
  OBVIOUS
<1>1. Typed
  <2>1. log \in Seq(Row)
    BY AggregationAssumption DEF Init, Row
  <2>2. pc \in [Proc -> Steps] /\ \A p \in Proc : pc[p] = "idle"
    BY DEF Init, Steps
  <2>3. \A p \in Proc : ~Writing(p) /\ writer # p
    BY <2>2, AggregationAssumption DEF Init, Writing
  <2> QED
    BY <2>1, <2>2, <2>3, AggregationAssumption DEF Init, Typed
<1>2. Shaped
  BY DEF Init, Shaped, NoWork, Fields
<1>3. Drafted
  BY DEF Init, Drafted
<1>4. TablesAgree
  <2>1. 0 \in 0 .. Len(log) /\ SubSeq(log, 1, 0) = <<>>
    BY <1>1 DEF Typed
  <2> QED
    BY <2>1, NoRows DEF Init, TablesAgree
<1> QED
  BY <1>1, <1>2, <1>3, <1>4 DEF IInv

\* A step that leaves the log and the tables alone keeps them in agreement.
LEMMA TablesUnchanged ==
    ASSUME TablesAgree, UNCHANGED <<log, tables>>
    PROVE  TablesAgree'
BY DEF TablesAgree, tables

\* A step of a process that is not in a transaction before or after it, and that
\* touches only its own place, its own locals and its own read lock.
BystanderMoves(p, step, w) ==
    /\ ~Writing(p)
    /\ step \in {"idle", "cluster", "top", "queries", "vector"}
    /\ pc' = [pc EXCEPT ![p] = step]
    /\ work' = [work EXCEPT ![p] = w] /\ DOMAIN w = Fields
    /\ readers' = IF step = "top" THEN readers \cup {p} ELSE readers \ {p}
    /\ ops' \in 0 .. MaxOps
    /\ crashes' \in 0 .. MaxCrashes
    /\ UNCHANGED <<log, tables, writer, commits>>

LEMMA BystanderStep ==
    ASSUME NEW p \in Proc, NEW step, NEW w
    PROVE  IInv /\ BystanderMoves(p, step, w) => IInv'
<1> SUFFICES ASSUME IInv, BystanderMoves(p, step, w) PROVE IInv'
  OBVIOUS
<1> USE DEF BystanderMoves
<1>0. step \in Steps
  BY DEF Steps
<1>1. /\ pc \in [Proc -> Steps] /\ \A q \in Proc : q # p => pc'[q] = pc[q] /\ work'[q] = work[q]
      /\ pc'[p] = step /\ work'[p] = w
  BY DEF IInv, Typed, Shaped
<1>2. ~Writing(p)' /\ writer # p
  BY <1>1 DEF Writing, IInv, Typed
<1>3. Typed'
  <2>1. pc' \in [Proc -> Steps]
    BY <1>0, <1>1
  <2>2. readers' = {q \in Proc : pc'[q] = "top"}
    BY <1>1 DEF IInv, Typed
  <2>3. \A q \in Proc : Writing(q)' <=> writer' = q
    BY <1>1, <1>2 DEF IInv, Typed, Writing
  <2> QED
    BY <2>1, <2>2, <2>3 DEF IInv, Typed
<1>4. Shaped'
  BY <1>1 DEF IInv, Shaped
<1>5. Drafted'
  BY <1>1 DEF IInv, Drafted
<1>6. TablesAgree'
  BY TablesUnchanged DEF IInv
<1> QED
  BY <1>3, <1>4, <1>5, <1>6 DEF IInv

\* What a process at this step with these locals has drafted goes with the log.
DraftOf(step, w) ==
    /\ step = "insert" => w.row \in Row
    /\ step \in {"stats", "vectors", "commit"} => w.qpa = AggregatesOf(log)
    /\ step \in {"vectors", "commit"} => w.qcs = StatsOf(w.qpa)
    /\ step = "commit" => w.ppv = VectorsOf(w.qpa, w.qcs)

\* A step inside a transaction, or one that begins it: the other processes are not
\* in one, and what this one drafted is right.
WriterMoves(p, step, w) ==
    /\ step \in {"insert", "delete", "aggregates", "stats", "vectors", "commit", "rollback"}
    /\ Writing(p) \/ pc[p] = "idle"
    /\ writer \in {None, p} /\ writer' = p
    /\ pc' = [pc EXCEPT ![p] = step]
    /\ work' = [work EXCEPT ![p] = w] /\ DOMAIN w = Fields
    /\ DraftOf(step, w)
    /\ ops' \in 0 .. MaxOps
    /\ UNCHANGED <<log, tables, readers, commits, crashes>>

LEMMA WriterStep ==
    ASSUME NEW p \in Proc, NEW step, NEW w
    PROVE  IInv /\ WriterMoves(p, step, w) => IInv'
<1> SUFFICES ASSUME IInv, WriterMoves(p, step, w) PROVE IInv'
  OBVIOUS
<1> USE DEF WriterMoves
<1>0. step \in Steps
  BY DEF Steps
<1>1. /\ pc \in [Proc -> Steps] /\ \A q \in Proc : q # p => pc'[q] = pc[q] /\ work'[q] = work[q]
      /\ pc'[p] = step /\ work'[p] = w
  BY DEF IInv, Typed, Shaped
<1>2. \A q \in Proc : q # p => ~Writing(q)
  BY AggregationAssumption DEF IInv, Typed
<1>3. Typed'
  <2>1. pc' \in [Proc -> Steps]
    BY <1>0, <1>1
  <2>2. pc[p] # "top"
    BY DEF Writing
  <2>3. readers' = {q \in Proc : pc'[q] = "top"}
    BY <1>1, <2>2 DEF IInv, Typed
  <2>4. \A q \in Proc : Writing(q)' <=> writer' = q
    BY <1>1, <1>2 DEF Writing
  <2> QED
    BY <2>1, <2>3, <2>4 DEF IInv, Typed
<1>4. Shaped'
  BY <1>1 DEF IInv, Shaped
<1>5. Drafted'
  BY <1>1 DEF IInv, Drafted, DraftOf
<1>6. TablesAgree'
  BY TablesUnchanged DEF IInv
<1> QED
  BY <1>3, <1>4, <1>5, <1>6 DEF IInv

\* The end of a transaction: its process is idle again, the lock is free, and nobody
\* else has drafted anything, so that the log may have changed.
LEMMA WriterEnds ==
    ASSUME IInv, NEW p \in Proc, Writing(p), Finish(p), writer' = None,
           log' \in Seq(Row), TablesAgree', commits' \in Nat, crashes' \in 0 .. MaxCrashes,
           readers' = readers \/ readers' = readers \ {p}, UNCHANGED ops
    PROVE  IInv'
<1>1. /\ pc \in [Proc -> Steps] /\ \A q \in Proc : q # p => pc'[q] = pc[q] /\ work'[q] = work[q]
      /\ pc'[p] = "idle" /\ work'[p] = NoWork /\ work' = [work EXCEPT ![p] = NoWork]
      /\ pc' = [pc EXCEPT ![p] = "idle"]
  BY DEF IInv, Typed, Shaped, Finish, Goto
<1>2. \A q \in Proc : ~Writing(q)'
  <2>1. \A q \in Proc : q # p => ~Writing(q)
    BY AggregationAssumption DEF IInv, Typed
  <2> QED
    BY <1>1, <2>1 DEF Writing
<1>3. Typed'
  <2>1. pc' \in [Proc -> Steps]
    BY <1>1 DEF Steps
  <2>2. pc[p] # "top"
    BY DEF Writing
  <2>3. readers' = {q \in Proc : pc'[q] = "top"}
    BY <1>1, <2>2 DEF IInv, Typed
  <2>4. \A q \in Proc : Writing(q)' <=> writer' = q
    BY <1>2, AggregationAssumption
  <2> QED
    BY <2>1, <2>3, <2>4 DEF IInv, Typed
<1>4. Shaped'
  <2>1. DOMAIN NoWork = Fields
    BY DEF NoWork, Fields
  <2> QED
    BY <1>1, <2>1 DEF IInv, Shaped
<1>5. Drafted'
  BY <1>2 DEF Drafted, Writing
<1> QED
  BY <1>3, <1>4, <1>5 DEF IInv

LEMMA BusyInvariant == ASSUME NEW p \in Proc PROVE IInv /\ BeginBusy(p) => IInv'
<1> SUFFICES ASSUME IInv, BeginBusy(p) PROVE IInv'
  OBVIOUS
<1>1. ops' \in 0 .. MaxOps
  BY AggregationAssumption DEF IInv, Typed, BeginBusy, Request
<1>2. UNCHANGED <<log, tables, readers, report, commits, crashes, writer, pc, work>>
  BY DEF BeginBusy, Request
<1>3. Typed' /\ Shaped' /\ Drafted'
  BY <1>1, <1>2 DEF IInv, Typed, Shaped, Drafted, Writing
<1> QED
  BY <1>2, <1>3, TablesUnchanged DEF IInv

LEMMA RecordInvariant ==
    ASSUME NEW p \in Proc PROVE IInv /\ (StartRecord(p) \/ InsertRow(p)) => IInv'
<1>1. ASSUME IInv, StartRecord(p) PROVE IInv'
  <2>1. PICK r \in Row : work' = [work EXCEPT ![p] = [NoWork EXCEPT !.row = r]]
    BY <1>1 DEF StartRecord
  <2>2. /\ pc[p] = "idle" /\ pc' = [pc EXCEPT ![p] = "insert"] /\ ops' \in 0 .. MaxOps
        /\ writer = None /\ writer' = p
        /\ UNCHANGED <<log, tables, readers, commits, crashes>>
    BY <1>1, AggregationAssumption DEF StartRecord, Request, BeginImmediate, Goto, IInv, Typed
  <2>3. DOMAIN [NoWork EXCEPT !.row = r] = Fields /\ [NoWork EXCEPT !.row = r].row = r
    BY DEF NoWork, Fields
  <2>5. DraftOf("insert", [NoWork EXCEPT !.row = r])
    BY <2>3 DEF DraftOf
  <2>6. WriterMoves(p, "insert", [NoWork EXCEPT !.row = r])
    BY <2>1, <2>2, <2>3, <2>5 DEF WriterMoves
  <2> QED
    BY <1>1, <2>6, WriterStep
<1>2. ASSUME IInv, InsertRow(p) PROVE IInv'
  <2>1. /\ Writing(p) /\ Finish(p) /\ writer' = None /\ log' = Append(log, work[p].row)
        /\ UNCHANGED <<tables, readers, commits, ops, crashes>>
    BY <1>2 DEF InsertRow, Writing
  <2>2. log \in Seq(Row) /\ work[p].row \in Row
    BY <1>2 DEF InsertRow, IInv, Typed, Drafted
  <2>3. TablesAgree'
    <3>1. PICK n \in 0 .. Len(log) : AggregatedFrom(SubSeq(log, 1, n))
      BY <1>2 DEF IInv, TablesAgree, AggregatedFrom
    <3>2. SubSeq(log', 1, n) = SubSeq(log, 1, n) /\ n \in 0 .. Len(log')
      BY <2>1, <2>2, PrefixOfAppend
    <3> QED
      BY <2>1, <3>1, <3>2 DEF TablesAgree, AggregatedFrom, tables
  <2>4. log' \in Seq(Row)
    BY <2>1, <2>2
  <2> QED
    BY <1>2, <2>1, <2>3, <2>4, WriterEnds DEF IInv, Typed
<1> QED
  BY <1>1, <1>2

LEMMA RecomputeInvariant ==
    ASSUME NEW p \in Proc PROVE IInv /\ Recompute(p) => IInv'
<1> SUFFICES ASSUME IInv, Recompute(p) PROVE IInv'
  OBVIOUS
<1>0. /\ pc \in [Proc -> Steps] /\ DOMAIN work[p] = Fields /\ work = [q \in Proc |-> work[q]]
      /\ ops \in 0 .. MaxOps
  BY DEF IInv, Typed, Shaped
<1>a. ASSUME Writing(p) PROVE writer = p
  BY <1>a DEF IInv, Typed
<1>1. CASE StartRecompute(p)
  <2>1. /\ pc[p] = "idle" /\ pc' = [pc EXCEPT ![p] = "delete"] /\ ops' \in 0 .. MaxOps
        /\ writer = None /\ writer' = p
        /\ UNCHANGED <<log, tables, readers, commits, crashes, work>>
    BY <1>1, AggregationAssumption DEF StartRecompute, Request, BeginImmediate, Goto, IInv, Typed
  <2>2. work' = [work EXCEPT ![p] = work[p]]
    BY <1>0, <2>1
  <2>4. DraftOf("delete", work[p])
    BY DEF DraftOf
  <2>5. WriterMoves(p, "delete", work[p])
    BY <1>0, <2>1, <2>2, <2>4 DEF WriterMoves
  <2> QED
    BY <2>5, WriterStep
<1>2. CASE DeleteAggregates(p)
  <2> DEFINE w == [work[p] EXCEPT !.qpa = Nothing, !.qcs = Nothing, !.ppv = Nothing]
  <2>1. /\ Writing(p) /\ pc' = [pc EXCEPT ![p] = "aggregates"] /\ work' = [work EXCEPT ![p] = w]
        /\ UNCHANGED <<log, tables, locks, commits, ops, crashes>>
    BY <1>0, <1>2 DEF DeleteAggregates, Goto, Writing
  <2>2. DOMAIN w = Fields
    BY <1>0
  <2>3. DraftOf("aggregates", w)
    BY DEF DraftOf
  <2>6. WriterMoves(p, "aggregates", w)
    BY <1>0, <1>a, <2>1, <2>2, <2>3 DEF WriterMoves, locks
  <2> QED
    BY <2>6, WriterStep
<1>3. CASE BuildAggregates(p)
  <2> DEFINE w == [work[p] EXCEPT !.qpa = AggregatesOf(log)]
  <2>1. /\ Writing(p) /\ pc' = [pc EXCEPT ![p] = "stats"] /\ work' = [work EXCEPT ![p] = w]
        /\ UNCHANGED <<log, tables, locks, commits, ops, crashes>>
    BY <1>0, <1>3 DEF BuildAggregates, Goto, Writing
  <2>2. DOMAIN w = Fields
    BY <1>0
  <2>4. DraftOf("stats", w)
    BY <1>0 DEF DraftOf, Fields
  <2>6. WriterMoves(p, "stats", w)
    BY <1>0, <1>a, <2>1, <2>2, <2>4 DEF WriterMoves, locks
  <2> QED
    BY <2>6, WriterStep
<1>4. CASE BuildStats(p)
  <2> DEFINE w == [work[p] EXCEPT !.qcs = StatsOf(work[p].qpa)]
  <2>1. /\ Writing(p) /\ pc' = [pc EXCEPT ![p] = "vectors"] /\ work' = [work EXCEPT ![p] = w]
        /\ UNCHANGED <<log, tables, locks, commits, ops, crashes>>
    BY <1>0, <1>4 DEF BuildStats, Goto, Writing
  <2>2. DOMAIN w = Fields
    BY <1>0
  <2>3. work[p].qpa = AggregatesOf(log)
    BY <1>4 DEF BuildStats, IInv, Drafted
  <2>5. DraftOf("vectors", w)
    BY <1>0, <2>3 DEF DraftOf, Fields
  <2>6. WriterMoves(p, "vectors", w)
    BY <1>0, <1>a, <2>1, <2>2, <2>5 DEF WriterMoves, locks
  <2> QED
    BY <2>6, WriterStep
<1>5. CASE BuildVectors(p)
  <2> DEFINE w == [work[p] EXCEPT !.ppv = VectorsOf(work[p].qpa, work[p].qcs)]
  <2>1. /\ Writing(p) /\ pc' = [pc EXCEPT ![p] = "commit"] /\ work' = [work EXCEPT ![p] = w]
        /\ UNCHANGED <<log, tables, locks, commits, ops, crashes>>
    BY <1>0, <1>5 DEF BuildVectors, Goto, Writing
  <2>2. DOMAIN w = Fields
    BY <1>0
  <2>3. work[p].qpa = AggregatesOf(log) /\ work[p].qcs = StatsOf(work[p].qpa)
    BY <1>5 DEF BuildVectors, IInv, Drafted
  <2>5. DraftOf("commit", w)
    BY <1>0, <2>3 DEF DraftOf, Fields
  <2>6. WriterMoves(p, "commit", w)
    BY <1>0, <1>a, <2>1, <2>2, <2>5 DEF WriterMoves, locks
  <2> QED
    BY <2>6, WriterStep
<1>6. CASE Commit(p)
  <2>1. /\ Writing(p) /\ Finish(p) /\ writer' = None /\ commits' = commits + 1
        /\ qpa' = work[p].qpa /\ qcs' = work[p].qcs /\ ppv' = work[p].ppv
        /\ UNCHANGED <<log, readers, ops, crashes>>
    BY <1>6 DEF Commit, Writing
  <2>2. /\ work[p].qpa = AggregatesOf(log) /\ work[p].qcs = StatsOf(work[p].qpa)
        /\ work[p].ppv = VectorsOf(work[p].qpa, work[p].qcs)
    BY <1>6 DEF Commit, IInv, Drafted
  <2>3. AggregatedFrom(log)' /\ log' \in Seq(Row)
    BY <2>1, <2>2 DEF AggregatedFrom, IInv, Typed
  <2>4. TablesAgree'
    <3>1. Len(log') \in 0 .. Len(log') /\ SubSeq(log', 1, Len(log')) = log'
      BY <2>3, SubSeqFull
    <3> QED
      BY <2>3, <3>1 DEF TablesAgree, AggregatedFrom
  <2> QED
    BY <2>1, <2>3, <2>4, WriterEnds DEF IInv, Typed
<1> QED
  BY <1>1, <1>2, <1>3, <1>4, <1>5, <1>6 DEF Recompute

LEMMA CommitFailsInvariant ==
    ASSUME NEW p \in Proc PROVE IInv /\ (CommitBusy(p) \/ Rollback(p)) => IInv'
<1>1. ASSUME IInv, CommitBusy(p) PROVE IInv'
  <2>1. /\ Writing(p) /\ pc' = [pc EXCEPT ![p] = "rollback"] /\ ops' \in 0 .. MaxOps
        /\ UNCHANGED <<log, tables, locks, work, commits, crashes>>
    BY <1>1 DEF CommitBusy, Goto, Writing, IInv, Typed
  <2>2. writer = p
    BY <1>1, <2>1 DEF IInv, Typed
  <2>3. DOMAIN work[p] = Fields /\ work' = [work EXCEPT ![p] = work[p]]
    BY <1>1, <2>1 DEF IInv, Shaped
  <2>4. DraftOf("rollback", work[p])
    BY DEF DraftOf
  <2>5. WriterMoves(p, "rollback", work[p])
    BY <2>1, <2>2, <2>3, <2>4 DEF WriterMoves, locks
  <2> QED
    BY <1>1, <2>5, WriterStep
<1>2. ASSUME IInv, Rollback(p) PROVE IInv'
  <2>1. /\ Writing(p) /\ Finish(p) /\ writer' = None
        /\ UNCHANGED <<log, tables, readers, commits, ops, crashes>>
    BY <1>2 DEF Rollback, Writing
  <2>2. TablesAgree'
    BY <1>2, <2>1, TablesUnchanged DEF IInv
  <2> QED
    BY <1>2, <2>1, <2>2, WriterEnds DEF IInv, Typed
<1> QED
  BY <1>1, <1>2

LEMMA InspectInvariant ==
    ASSUME NEW p \in Proc PROVE IInv /\ Inspect(p) => IInv'
<1> SUFFICES ASSUME IInv, Inspect(p) PROVE IInv'
  OBVIOUS
<1>0. /\ pc \in [Proc -> Steps] /\ DOMAIN work[p] = Fields /\ work = [q \in Proc |-> work[q]]
      /\ ops \in 0 .. MaxOps /\ crashes \in 0 .. MaxCrashes
      /\ readers = {q \in Proc : pc[q] = "top"} /\ DOMAIN NoWork = Fields
  BY DEF IInv, Typed, Shaped, NoWork, Fields
<1>1. ASSUME NEW step \in {"cluster", "queries"}, NEW w, DOMAIN w = Fields, Request(p),
             Goto(p, step), work' = [work EXCEPT ![p] = w], UNCHANGED writer
      PROVE  IInv'
  <2>1. pc[p] = "idle" /\ ops' \in 0 .. MaxOps /\ readers = readers \ {p}
    BY <1>0, <1>1, AggregationAssumption DEF Request
  <2>2. BystanderMoves(p, step, w)
    BY <1>0, <1>1, <2>1 DEF BystanderMoves, Request, Goto, Writing
  <2> QED
    BY <2>2, BystanderStep
<1>2. ASSUME pc[p] \in {"cluster", "queries", "vector"}, Finish(p),
             UNCHANGED <<log, tables, locks, commits, ops, crashes>>
      PROVE  IInv'
  <2>1. BystanderMoves(p, "idle", NoWork)
    BY <1>0, <1>2 DEF BystanderMoves, Finish, Goto, Writing, locks
  <2> QED
    BY <2>1, BystanderStep
<1>3. CASE StartInspectCluster(p)
  <2>1. PICK q \in QueryId : work' = [work EXCEPT ![p] = [NoWork EXCEPT !.query = q]]
    BY <1>3 DEF StartInspectCluster
  <2>2. DOMAIN [NoWork EXCEPT !.query = q] = Fields
    BY <1>0
  <2> QED
    BY <1>1, <1>3, <2>1, <2>2 DEF StartInspectCluster
<1>4. CASE ClusterNotFound(p)
  BY <1>2, <1>4 DEF ClusterNotFound
<1>5. CASE ReadCluster(p)
  <2> DEFINE w == [work[p] EXCEPT !.stats = qcs[work[p].query]]
  <2>1. BystanderMoves(p, "top", w)
    BY <1>0, <1>5 DEF BystanderMoves, ReadCluster, Goto, Writing
  <2> QED
    BY <2>1, BystanderStep
<1>6. CASE ReadTop(p)
  <2>1. BystanderMoves(p, "idle", NoWork)
    BY <1>0, <1>6 DEF BystanderMoves, ReadTop, Finish, Goto, Writing
  <2> QED
    BY <2>1, BystanderStep
<1>7. CASE StartInspectPlayer(p)
  <2>1. PICK x \in Player : work' = [work EXCEPT ![p] = [NoWork EXCEPT !.player = x]]
    BY <1>7 DEF StartInspectPlayer
  <2>2. DOMAIN [NoWork EXCEPT !.player = x] = Fields
    BY <1>0
  <2> QED
    BY <1>1, <1>7, <2>1, <2>2 DEF StartInspectPlayer
<1>8. CASE ReadDimensions(p)
  <2> DEFINE w == [work[p] EXCEPT !.dims = Dimensions(qcs), !.since = commits]
  <2>1. BystanderMoves(p, "vector", w)
    BY <1>0, <1>8 DEF BystanderMoves, ReadDimensions, Goto, Writing, locks
  <2> QED
    BY <2>1, BystanderStep
<1>9. CASE VectorNotFound(p)
  BY <1>2, <1>9 DEF VectorNotFound
<1>10. CASE ReadVector(p)
  BY <1>2, <1>10 DEF ReadVector
<1> QED
  BY <1>3, <1>4, <1>5, <1>6, <1>7, <1>8, <1>9, <1>10 DEF Inspect

\* A process that stops ends its transaction, if it was in one.
LEMMA CrashInvariant ==
    ASSUME NEW p \in Proc PROVE IInv /\ Crash(p) => IInv'
<1> SUFFICES ASSUME IInv, Crash(p) PROVE IInv'
  OBVIOUS
<1>1. crashes' \in 0 .. MaxCrashes /\ readers' = readers \ {p} /\ Finish(p)
      /\ UNCHANGED <<log, tables, commits, ops>>
  BY AggregationAssumption DEF Crash, IInv, Typed
<1>2. CASE Writing(p)
  <2>1. writer' = None
    BY <1>2 DEF Crash, IInv, Typed
  <2>2. TablesAgree'
    BY <1>1, TablesUnchanged DEF IInv
  <2> QED
    BY <1>1, <1>2, <2>1, <2>2, WriterEnds DEF IInv, Typed
<1>3. CASE ~Writing(p)
  <2>1. writer' = writer
    BY <1>3 DEF Crash, IInv, Typed
  <2>2. DOMAIN NoWork = Fields /\ ops' \in 0 .. MaxOps
    BY <1>1 DEF NoWork, Fields, IInv, Typed
  <2>3. BystanderMoves(p, "idle", NoWork)
    BY <1>1, <1>3, <2>1, <2>2 DEF BystanderMoves, Finish, Goto
  <2> QED
    BY <2>3, BystanderStep
<1> QED
  BY <1>2, <1>3

LEMMA NextInvariant == IInv /\ [Next]_vars => IInv'
<1>1. ASSUME IInv, Next PROVE IInv'
  <2>1. PICK p \in Proc :
           \/ BeginBusy(p) \/ StartRecord(p) \/ InsertRow(p)
           \/ Recompute(p) \/ CommitBusy(p) \/ Rollback(p)
           \/ Inspect(p) \/ Crash(p)
    BY <1>1 DEF Next
  <2> QED
    BY <1>1, <2>1, BusyInvariant, RecordInvariant, RecomputeInvariant,
       CommitFailsInvariant, InspectInvariant, CrashInvariant
<1>2. ASSUME IInv, UNCHANGED vars PROVE IInv'
  BY <1>2 DEF IInv, Typed, Shaped, Drafted, TablesAgree, Writing, vars, tables, locks
<1> QED
  BY <1>1, <1>2

LEMMA InvariantHolds == Spec => []IInv
<1>1. Init => IInv
  BY InitInvariant
<1>2. IInv /\ [Next]_vars => IInv'
  BY NextInvariant
<1> QED
  BY <1>1, <1>2, PTL DEF Spec

-----------------------------------------------------------------------------
(* The theorems.                                                           *)

\* The write lock has one holder, exactly the process that is inside a transaction,
\* and the tables name only query ids and players (SqliteTransaction).
THEOREM TypeCorrect == Spec => []TypeOK
<1>1. IInv => TypeOK
  BY TypedGivesTypeOK DEF IInv
<1> QED
  BY <1>1, InvariantHolds, PTL

\* The three tables are always the aggregates of the log as it was at one moment, for
\* any number of servers, recomputations and inspections, wherever one of them fails or
\* stops: the rows counted, the totals and the vectors were computed under the write lock,
\* without which nobody appends to the log (RecomputeBehaviorAggregatesDeterministic).
THEOREM AggregatesAgree == Spec => []TablesAgree
<1>1. IInv => TablesAgree
  BY DEF IInv
<1> QED
  BY <1>1, InvariantHolds, PTL

-----------------------------------------------------------------------------
(* The query ids in ascending order.                                       *)

Ascending(S) ==
    {ids \in [1 .. Cardinality(S) -> S] : \A i, j \in 1 .. Cardinality(S) : i < j => ids[i] < ids[j]}

\* How many elements of S come up to x.
Rank(S, x) == Cardinality({y \in S : y <= x})

LEMMA RankGrows ==
    ASSUME NEW S, IsFiniteSet(S), S \subseteq Nat, NEW x \in S, NEW y \in S, x < y
    PROVE  Rank(S, x) < Rank(S, y)
<1> DEFINE A == {z \in S : z <= x}
           B == {z \in S : z <= y}
<1>1. x \in Nat /\ y \in Nat /\ B \subseteq S /\ y \in B /\ y \notin A
  OBVIOUS
<1>a. A \subseteq B
  <2> SUFFICES ASSUME NEW z \in S, z <= x PROVE z <= y
    OBVIOUS
  <2>1. z \in Nat
    OBVIOUS
  <2> QED BY <1>1, <2>1
<1>2. IsFiniteSet(B) /\ Cardinality(B) \in Nat
  BY <1>1, FS_Subset, FS_CardinalityType
<1>3. /\ IsFiniteSet(A) /\ Cardinality(A) \in Nat /\ Cardinality(A) <= Cardinality(B)
      /\ Cardinality(B) = Cardinality(A) => B = A
  BY <1>a, <1>2, FS_Subset, FS_CardinalityType
<1> HIDE DEF A, B
<1>4. Cardinality(A) < Cardinality(B)
  BY <1>1, <1>2, <1>3
<1> QED BY <1>4 DEF Rank, A, B

\* A finite set of numbers has an ascending enumeration: by rank.
LEMMA AscendingExists ==
    ASSUME NEW S, IsFiniteSet(S), S \subseteq Nat
    PROVE  Ascending(S) # {}
<1> DEFINE n == Cardinality(S)
           rank == [x \in S |-> Rank(S, x)]
<1>1. n \in Nat /\ IsFiniteSet(1 .. n) /\ Cardinality(1 .. n) = n
  BY FS_CardinalityType, FS_Interval
<1>2. ASSUME NEW x \in S PROVE Rank(S, x) \in 1 .. n
  <2> DEFINE A == {y \in S : y <= x}
  <2>1. A \subseteq S /\ x \in A
    OBVIOUS
  <2>2. IsFiniteSet(A) /\ Cardinality(A) \in Nat /\ Cardinality(A) <= n
    BY <2>1, FS_Subset, FS_CardinalityType
  <2>3. Cardinality(A) # 0
    BY <2>1, <2>2, FS_EmptySet
  <2> QED BY <1>1, <2>2, <2>3 DEF Rank
<1>3. rank \in [S -> 1 .. n]
  BY <1>2
<1>4. \A x, y \in S : rank[x] = rank[y] => x = y
  <2> SUFFICES ASSUME NEW x \in S, NEW y \in S, x # y PROVE rank[x] # rank[y]
    OBVIOUS
  <2>1. x \in Nat /\ y \in Nat /\ rank[x] \in Nat /\ rank[y] \in Nat
    BY <1>3
  <2>2. rank[x] = Rank(S, x) /\ rank[y] = Rank(S, y)
    OBVIOUS
  <2>3. x < y \/ y < x
    BY <2>1
  <2>4. rank[x] < rank[y] \/ rank[y] < rank[x]
    BY <2>2, <2>3, RankGrows
  <2> QED BY <2>1, <2>4
<1> HIDE DEF rank, n
<1>5. rank \in Injection(S, 1 .. n)
  BY <1>3, <1>4 DEF Injection, IsInjective
<1>6. rank \in Surjection(S, 1 .. n)
  BY <1>1, <1>5, FS_Injection DEF n
<1>7. \A i \in 1 .. n : \E x \in S : rank[x] = i
  BY <1>6 DEF Surjection
<1> DEFINE ids == [i \in 1 .. n |-> CHOOSE x \in S : rank[x] = i]
<1>8. \A i \in 1 .. n : ids[i] \in S /\ rank[ids[i]] = i
  BY <1>7
<1>9. ids \in [1 .. n -> S]
  BY <1>8
<1> HIDE DEF ids
<1>10. ASSUME NEW i \in 1 .. n, NEW j \in 1 .. n, i < j PROVE ids[i] < ids[j]
  <2>1. ids[i] \in Nat /\ ids[j] \in Nat /\ ids[i] \in S /\ ids[j] \in S
    BY <1>8
  <2>2. ids[i] # ids[j]
    BY <1>8, <1>10
  <2>3. ~(ids[j] < ids[i])
    <3> SUFFICES ASSUME ids[j] < ids[i] PROVE FALSE
      OBVIOUS
    <3>1. Rank(S, ids[j]) < Rank(S, ids[i])
      BY <2>1, RankGrows
    <3>2. Rank(S, ids[j]) = j /\ Rank(S, ids[i]) = i
      BY <1>8, <2>1 DEF rank
    <3> QED BY <1>1, <1>10, <3>1, <3>2
  <2> QED BY <2>1, <2>2, <2>3
<1> QED BY <1>9, <1>10 DEF Ascending, n

\* It leaves none of them out.
LEMMA AscendingCovers ==
    ASSUME NEW S, IsFiniteSet(S), S \subseteq Nat, NEW ids \in Ascending(S)
    PROVE  /\ DOMAIN ids = 1 .. Cardinality(S)
           /\ {ids[i] : i \in DOMAIN ids} = S
<1> DEFINE n == Cardinality(S)
<1>1. n \in Nat /\ IsFiniteSet(1 .. n) /\ Cardinality(1 .. n) = n
  BY FS_CardinalityType, FS_Interval
<1>2. ids \in [1 .. n -> S] /\ \A i, j \in 1 .. n : i < j => ids[i] < ids[j]
  BY DEF Ascending
<1>3. \A i, j \in 1 .. n : ids[i] = ids[j] => i = j
  <2> SUFFICES ASSUME NEW i \in 1 .. n, NEW j \in 1 .. n, i # j PROVE ids[i] # ids[j]
    OBVIOUS
  <2>1. ids[i] \in Nat /\ ids[j] \in Nat
    BY <1>2
  <2>2. i < j \/ j < i
    BY <1>1
  <2> QED BY <1>2, <2>1, <2>2
<1>4. ids \in Injection(1 .. n, S)
  BY <1>2, <1>3 DEF Injection, IsInjective
<1>5. ids \in Surjection(1 .. n, S)
  BY <1>1, <1>4, FS_Injection
<1> QED BY <1>2, <1>5 DEF Surjection

LEMMA DimensionsAre ==
    ASSUME NEW s, DOMAIN s \subseteq QueryId
    PROVE  {Dimensions(s)[i] : i \in DOMAIN Dimensions(s)} = DOMAIN s
<1>1. IsFiniteSet(DOMAIN s) /\ DOMAIN s \subseteq Nat
  BY AggregationAssumption, FS_Subset
<1>2. PICK S : S = DOMAIN s
  OBVIOUS
<1>3. \A ids \in [1 .. Cardinality(S) -> S] : DOMAIN ids = 1 .. Cardinality(S)
  OBVIOUS
<1>4. \E ids \in [1 .. Cardinality(S) -> S] : \A i, j \in DOMAIN ids : i < j => ids[i] < ids[j]
  <2>1. PICK ids : ids \in Ascending(S)
    BY <1>1, <1>2, AscendingExists
  <2>2. ids \in [1 .. Cardinality(S) -> S] /\ DOMAIN ids = 1 .. Cardinality(S)
    BY <1>3, <2>1 DEF Ascending
  <2>3. \A i, j \in DOMAIN ids : i < j => ids[i] < ids[j]
    BY <2>1, <2>2 DEF Ascending
  <2> QED BY <2>2, <2>3
<1>5. Dimensions(s) \in Ascending(S)
  <2>1. /\ Dimensions(s) \in [1 .. Cardinality(S) -> S]
        /\ \A i, j \in DOMAIN Dimensions(s) : i < j => Dimensions(s)[i] < Dimensions(s)[j]
    BY <1>2, <1>4 DEF Dimensions
  <2> QED BY <1>3, <2>1 DEF Ascending
<1> QED BY <1>1, <1>2, <1>5, AscendingCovers

-----------------------------------------------------------------------------
(* Inspections.                                                            *)

\* What a process at this step with these locals has read.
ReadOf(step, w) ==
    /\ step \in {"cluster", "top"} => w.query \in QueryId
    /\ step = "top" => w.query \in DOMAIN qcs /\ w.stats = qcs[w.query]
    /\ step \in {"queries", "vector"} => w.player \in Player
    /\ step = "vector" =>
          w.since \in Nat /\ w.since <= commits /\ (w.since = commits => w.dims = Dimensions(qcs))

\* The row an inspection stands on is still in the table: its read lock keeps every commit
\* away. Query ids that were read to the end belong to the table until the next commit.
Reads == \A p \in Proc : ReadOf(pc[p], work[p])

\* The statistics and the vectors are those of the aggregates.
TablesFit == DOMAIN qcs \subseteq QueryId /\ qcs = StatsOf(qpa) /\ ppv = VectorsOf(qpa, qcs)

LEMMA TablesDoFit ==
    ASSUME Typed, TablesAgree
    PROVE  TablesFit
<1>1. PICK n \in 0 .. Len(log) : AggregatedFrom(SubSeq(log, 1, n))
  BY DEF TablesAgree, AggregatedFrom
<1>2. DOMAIN qcs \subseteq QueryId
  BY TypedGivesTypeOK DEF TypeOK
<1> QED BY <1>1, <1>2 DEF AggregatedFrom, TablesFit

\* A step that leaves the tables alone.
LEMMA ReadsStep ==
    ASSUME NEW p \in Proc, NEW step, NEW w, IInv, Reads,
           pc' = [pc EXCEPT ![p] = step], work' = [work EXCEPT ![p] = w],
           UNCHANGED <<tables, commits>>, ReadOf(step, w)
    PROVE  Reads'
<1>1. \A q \in Proc : /\ pc'[q] = IF q = p THEN step ELSE pc[q]
                      /\ work'[q] = IF q = p THEN w ELSE work[q]
  BY DEF IInv, Typed, Shaped
<1>2. \A s, v : ReadOf(s, v)' <=> ReadOf(s, v)
  BY DEF ReadOf, tables
<1>3. \A q \in Proc : ReadOf(pc'[q], work'[q])
  BY <1>1 DEF Reads
<1> QED BY <1>2, <1>3 DEF Reads, ReadOf, tables

LEMMA NextReads == IInv /\ Reads /\ [Next]_vars => Reads'
<1>1. ASSUME IInv, Reads, UNCHANGED vars PROVE Reads'
  BY <1>1 DEF Reads, ReadOf, vars, tables
<1> SUFFICES ASSUME IInv, Reads, Next PROVE Reads'
  BY <1>1
<1>2. PICK p \in Proc :
         \/ BeginBusy(p) \/ StartRecord(p) \/ InsertRow(p)
         \/ Recompute(p) \/ CommitBusy(p) \/ Rollback(p)
         \/ Inspect(p) \/ Crash(p)
  BY DEF Next
<1>3. /\ pc = [q \in Proc |-> pc[q]] /\ work = [q \in Proc |-> work[q]]
      /\ DOMAIN work[p] = Fields /\ commits \in Nat
  BY DEF IInv, Typed, Shaped
<1>4. ReadOf(pc[p], work[p])
  BY DEF Reads
<1>5. CASE BeginBusy(p)
  BY <1>5 DEF BeginBusy, Request, Reads, ReadOf, tables
\* The steps that read nothing.
<1>6. ASSUME NEW step, Goto(p, step) \/ pc' = [pc EXCEPT ![p] = step],
             work' = [work EXCEPT ![p] = work'[p]],
             UNCHANGED <<tables, commits>>,
             step \notin {"cluster", "top", "queries", "vector"}
      PROVE  Reads'
  <2>1. ReadOf(step, work'[p])
    BY <1>6 DEF ReadOf
  <2>2. pc' = [pc EXCEPT ![p] = step]
    BY <1>6 DEF Goto
  <2> QED BY <1>6, <2>1, <2>2, ReadsStep
<1>7. ASSUME Finish(p), UNCHANGED <<tables, commits>> PROVE Reads'
  <2>1. pc' = [pc EXCEPT ![p] = "idle"] /\ work' = [work EXCEPT ![p] = NoWork]
    BY <1>7 DEF Finish, Goto
  <2>2. ReadOf("idle", NoWork)
    BY DEF ReadOf
  <2> QED BY <1>7, <2>1, <2>2, ReadsStep
<1>8. CASE StartRecord(p)
  <2>1. PICK r \in Row : work' = [work EXCEPT ![p] = [NoWork EXCEPT !.row = r]]
    BY <1>8 DEF StartRecord
  <2>2. work' = [work EXCEPT ![p] = work'[p]]
    BY <1>3, <2>1
  <2> QED BY <1>6, <1>8, <2>2 DEF StartRecord, Request
<1>9. CASE InsertRow(p) \/ Rollback(p) \/ Crash(p)
  BY <1>7, <1>9 DEF InsertRow, Rollback, Crash
<1>10. CASE StartRecompute(p) \/ DeleteAggregates(p) \/ BuildAggregates(p) \/ BuildStats(p)
            \/ BuildVectors(p) \/ CommitBusy(p)
  <2>1. work' = [work EXCEPT ![p] = work'[p]] /\ UNCHANGED <<tables, commits>>
    BY <1>3, <1>10 DEF StartRecompute, DeleteAggregates, BuildAggregates, BuildStats, BuildVectors,
       CommitBusy, Request
  <2>2. Goto(p, "delete") \/ Goto(p, "aggregates") \/ Goto(p, "stats") \/ Goto(p, "vectors")
        \/ Goto(p, "commit") \/ Goto(p, "rollback")
    BY <1>10 DEF StartRecompute, DeleteAggregates, BuildAggregates, BuildStats, BuildVectors, CommitBusy
  <2> QED BY <1>6, <2>1, <2>2
<1>11. CASE Commit(p)
  <2>1. /\ readers \subseteq {p} /\ commits' = commits + 1
        /\ pc' = [pc EXCEPT ![p] = "idle"] /\ work' = [work EXCEPT ![p] = NoWork]
    BY <1>11 DEF Commit, Finish, Goto
  <2>2. \A q \in Proc \ {p} : pc[q] # "top" /\ pc'[q] = pc[q] /\ work'[q] = work[q]
    BY <2>1 DEF IInv, Typed
  <2>3. pc'[p] = "idle"
    BY <1>3, <2>1
  <2>4. ASSUME NEW q \in Proc \ {p} PROVE ReadOf(pc[q], work[q])'
    <3>1. ReadOf(pc[q], work[q]) /\ pc[q] # "top"
      BY <2>2 DEF Reads
    <3>2. pc[q] = "vector" => work[q].since # commits' /\ work[q].since <= commits'
      BY <1>3, <2>1, <3>1 DEF ReadOf
    <3> QED BY <2>2, <3>1, <3>2 DEF ReadOf
  <2>5. ReadOf(pc[p], work[p])'
    BY <2>3 DEF ReadOf
  <2> QED BY <2>4, <2>5 DEF Reads
<1>12. CASE StartInspectCluster(p)
  <2>1. PICK q \in QueryId : work' = [work EXCEPT ![p] = [NoWork EXCEPT !.query = q]]
    BY <1>12 DEF StartInspectCluster
  <2>2. ReadOf("cluster", [NoWork EXCEPT !.query = q])
    BY DEF ReadOf, NoWork
  <2> QED BY <1>12, <2>1, <2>2, ReadsStep DEF StartInspectCluster, Request, Goto
<1>13. CASE ReadCluster(p)
  <2> DEFINE w == [work[p] EXCEPT !.stats = qcs[work[p].query]]
  <2>1. w.query = work[p].query /\ w.stats = qcs[work[p].query]
    BY <1>3 DEF Fields
  <2>2. work[p].query \in DOMAIN qcs /\ work[p].query \in QueryId
    BY <1>4, <1>13 DEF ReadCluster, ReadOf
  <2>3. ReadOf("top", w)
    BY <2>1, <2>2 DEF ReadOf
  <2>4. work' = [work EXCEPT ![p] = w] /\ pc' = [pc EXCEPT ![p] = "top"] /\ UNCHANGED <<tables, commits>>
    BY <1>3, <1>13 DEF ReadCluster, Goto
  <2> HIDE DEF w
  <2> QED BY <2>3, <2>4, ReadsStep
<1>14. CASE ClusterNotFound(p) \/ ReadTop(p) \/ VectorNotFound(p) \/ ReadVector(p)
  BY <1>7, <1>14 DEF ClusterNotFound, ReadTop, VectorNotFound, ReadVector
<1>15. CASE StartInspectPlayer(p)
  <2>1. PICK x \in Player : work' = [work EXCEPT ![p] = [NoWork EXCEPT !.player = x]]
    BY <1>15 DEF StartInspectPlayer
  <2>2. ReadOf("queries", [NoWork EXCEPT !.player = x])
    BY DEF ReadOf, NoWork
  <2> QED BY <1>15, <2>1, <2>2, ReadsStep DEF StartInspectPlayer, Request, Goto
<1>16. CASE ReadDimensions(p)
  <2> DEFINE w == [work[p] EXCEPT !.dims = Dimensions(qcs), !.since = commits]
  <2>1. w.player = work[p].player /\ w.dims = Dimensions(qcs) /\ w.since = commits
    BY <1>3 DEF Fields
  <2>2. work[p].player \in Player
    BY <1>4, <1>16 DEF ReadDimensions, ReadOf
  <2>3. ReadOf("vector", w)
    BY <1>3, <2>1, <2>2 DEF ReadOf
  <2>4. work' = [work EXCEPT ![p] = w] /\ pc' = [pc EXCEPT ![p] = "vector"] /\ UNCHANGED <<tables, commits>>
    BY <1>3, <1>16 DEF ReadDimensions, Goto
  <2> HIDE DEF w
  <2> QED BY <2>3, <2>4, ReadsStep
<1> QED BY <1>2, <1>5, <1>8, <1>9, <1>10, <1>11, <1>12, <1>13, <1>14, <1>15, <1>16 DEF Recompute, Inspect

LEMMA InitReads == Init => Reads
<1> SUFFICES ASSUME Init, NEW p \in Proc PROVE ReadOf(pc[p], work[p])
  BY DEF Reads
<1>1. pc[p] = "idle"
  BY DEF Init
<1> QED BY <1>1 DEF ReadOf

\* The players of a query.
LEMMA TopIsSound ==
    ASSUME TablesFit, NEW q \in QueryId, q \in DOMAIN qcs, NEW r, r.of = q,
           r.items = {<<x, Mean(qpa, q, x)>> : x \in PlayersOf(qpa, q)}
    PROVE  r.items = ReportOf(r)
<1>1. q \notin Player
  BY AggregationAssumption
<1>2. qcs[q].means = [x \in PlayersOf(qpa, q) |-> Mean(qpa, q, x)]
  BY DEF TablesFit, StatsOf
<1>3. DOMAIN qcs[q].means = PlayersOf(qpa, q)
      /\ \A x \in PlayersOf(qpa, q) : qcs[q].means[x] = Mean(qpa, q, x)
  BY <1>2
<1>4. ReportOf(r) = {<<x, qcs[q].means[x]>> : x \in DOMAIN qcs[q].means}
  BY <1>1 DEF ReportOf
<1>5. {<<x, qcs[q].means[x]>> : x \in DOMAIN qcs[q].means} = {<<x, Mean(qpa, q, x)>> : x \in PlayersOf(qpa, q)}
  BY <1>3
<1> QED BY <1>4, <1>5

\* The queries of a player.
LEMMA VectorIsSound ==
    ASSUME TablesFit, NEW x \in Player, x \in DOMAIN ppv, NEW ids, ids = Dimensions(qcs),
           NEW r, r.of = x, r.items = {<<ids[i], ppv[x][i]>> : i \in DOMAIN ids \cap DOMAIN ppv[x]}
    PROVE  r.items = ReportOf(r)
<1> DEFINE Scored(q) == IF <<q, x>> \in DOMAIN qpa THEN Mean(qpa, q, x) ELSE NoScore
<1>1. ppv[x] = [i \in DOMAIN ids |-> Scored(ids[i])]
  BY DEF TablesFit, VectorsOf
<1>2. {ids[i] : i \in DOMAIN ids} = DOMAIN qcs
  BY DimensionsAre DEF TablesFit
<1>3. ReportOf(r) = {<<q, Scored(q)>> : q \in DOMAIN qcs}
  BY DEF ReportOf
<1> HIDE DEF Scored
<1>4. r.items = {<<ids[i], Scored(ids[i])>> : i \in DOMAIN ids}
  BY <1>1
<1>5. {<<ids[i], Scored(ids[i])>> : i \in DOMAIN ids} = {<<q, Scored(q)>> : q \in DOMAIN qcs}
  BY <1>2
<1> QED BY <1>3, <1>4, <1>5

\* An inspection prints what the tables hold, with any number of recomputations around it: the
\* totals of a cluster go with its players, and the means of a player with their queries,
\* unless a recomputation was committed between its two reads.
THEOREM InspectionsAreSound == Spec => ReportsSound
<1>1. ASSUME IInv, Reads, [Next]_vars, NEW p \in Proc, report'[p] # report[p], report'[p].steady
      PROVE  /\ report'[p].items = ReportOf(report'[p])
             /\ report'[p].stats # None => report'[p].stats = qcs[report'[p].of]
  <2>1. TablesFit
    BY <1>1, TablesDoFit DEF IInv
  <2>2. PICK q \in Proc : ReadTop(q) \/ ReadVector(q)
    BY <1>1 DEF Next, vars, BeginBusy, StartRecord, InsertRow, Recompute, StartRecompute,
       DeleteAggregates, BuildAggregates, BuildStats, BuildVectors, Commit, CommitBusy, Rollback,
       Inspect, StartInspectCluster, ClusterNotFound, ReadCluster, StartInspectPlayer,
       ReadDimensions, VectorNotFound, Crash, Request
  <2>3. PICK r : report' = [report EXCEPT ![q] = r] /\
           \/ /\ pc[q] = "top"
              /\ r = [of |-> work[q].query, stats |-> work[q].stats, steady |-> TRUE,
                      items |-> {<<x, Mean(qpa, work[q].query, x)>> : x \in PlayersOf(qpa, work[q].query)}]
           \/ /\ pc[q] = "vector" /\ work[q].player \in DOMAIN ppv
              /\ r = [of |-> work[q].player, stats |-> None, steady |-> work[q].since = commits,
                      items |-> {<<work[q].dims[i], ppv[work[q].player][i]>> :
                                    i \in DOMAIN work[q].dims \cap DOMAIN ppv[work[q].player]}]
    BY <2>2 DEF ReadTop, ReadVector
  <2>4. report'[p] = r
    BY <1>1, <2>3
  <2>5. ReadOf(pc[q], work[q])
    BY <1>1 DEF Reads
  <2>6. CASE pc[q] = "top"
    <3>1. /\ r.of = work[q].query /\ r.stats = work[q].stats
          /\ r.items = {<<x, Mean(qpa, work[q].query, x)>> : x \in PlayersOf(qpa, work[q].query)}
      BY <2>3, <2>6
    <3>2. work[q].query \in QueryId /\ work[q].query \in DOMAIN qcs /\ work[q].stats = qcs[work[q].query]
      BY <2>5, <2>6 DEF ReadOf
    <3>3. r.items = ReportOf(r)
      BY <2>1, <3>1, <3>2, TopIsSound
    <3> QED BY <2>4, <3>1, <3>2, <3>3
  <2>7. CASE pc[q] = "vector"
    <3>1. PICK x, ids, still : x = work[q].player /\ ids = work[q].dims /\ still = (work[q].since = commits)
      OBVIOUS
    <3>2. work[q].player \in DOMAIN ppv
          /\ r = [of |-> work[q].player, stats |-> None, steady |-> work[q].since = commits,
                  items |-> {<<work[q].dims[i], ppv[work[q].player][i]>> :
                                i \in DOMAIN work[q].dims \cap DOMAIN ppv[work[q].player]}]
      <4>1. pc[q] # "top"
        BY <2>7
      <4> QED BY <2>3, <4>1, Zenon
    <3>3. /\ x \in DOMAIN ppv
          /\ r = [of |-> x, stats |-> None, steady |-> still,
                  items |-> {<<ids[i], ppv[x][i]>> : i \in DOMAIN ids \cap DOMAIN ppv[x]}]
      BY <3>1, <3>2, Zenon
    <3>4. /\ r.of = x /\ r.stats = None /\ (r.steady => still)
          /\ r.items = {<<ids[i], ppv[x][i]>> : i \in DOMAIN ids \cap DOMAIN ppv[x]}
      <4> DEFINE it == {<<ids[i], ppv[x][i]>> : i \in DOMAIN ids \cap DOMAIN ppv[x]}
      <4>1. r = [of |-> x, stats |-> None, steady |-> still, items |-> it]
        BY <3>3
      <4> HIDE DEF it
      <4>2. r.of = x /\ r.stats = None /\ (r.steady => still) /\ r.items = it
        BY <4>1
      <4> QED BY <4>2 DEF it
    <3>5. work[q].since = commits
      BY <1>1, <2>4, <3>1, <3>4
    <3>6. x \in Player /\ ids = Dimensions(qcs)
      BY <2>5, <2>7, <3>1, <3>5 DEF ReadOf
    <3>7. r.items = ReportOf(r)
      BY <2>1, <3>3, <3>4, <3>6, VectorIsSound
    <3> QED BY <2>4, <3>4, <3>7
  <2> QED BY <2>3, <2>6, <2>7
<1>2. IInv /\ Reads /\ [Next]_vars =>
        [\A p \in Proc : report'[p] # report[p] /\ report'[p].steady =>
          /\ report'[p].items = ReportOf(report'[p])
          /\ report'[p].stats # None => report'[p].stats = qcs[report'[p].of]]_vars
  BY <1>1
<1> QED BY <1>2, InitInvariant, NextInvariant, InitReads, NextReads, PTL DEF Spec, ReportsSound
=============================================================================
