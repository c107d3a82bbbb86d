----------------------------- MODULE LedgerProofs -----------------------------
(***************************************************************************)
(* Theorems about the interaction log of Retrieval, the two statistics     *)
(* kept next to it and the training of the bandit, for any processes,      *)
(* submits, callers and bounds; and that Retrieval implements              *)
(* InteractionLedger, step by step.                                        *)
(***************************************************************************)
EXTENDS RetrievalRefinement, RetrievalProofs

-----------------------------------------------------------------------------
(* The steps of a process.                                                 *)

\* Which step leads to the steps of a request that the proofs below follow.
LEMMA Transitions ==
    ASSUME TypeInv, NEW p \in Proc, StepOf(p)
    PROVE  /\ pc'[p] = "show" => InsertInteraction(p)
           /\ pc[p] = "show" => StatsOnShow(p) \/ Crash(p)
           /\ pc'[p] = "tally" => ApplyReward(p)
           /\ pc'[p] = "features" => StatsOnReward(p)
           /\ pc'[p] = "learn" => ReadFeatures(p)
<1>1. pc \in [Proc -> Steps]
  BY DEF TypeInv, TypeOK
<1> QED
  BY <1>1 DEF StepOf, QueryStep, RewardStep, StartQuery, StartReward, Begin, Goto, Finish,
       LoadWeights, PersistInitialWeights, FindPromptCache, InsertPromptCache, PromptCacheConflict,
       PruneList, ScoreCandidates, RemoveCandidate, RelistCandidates, FinishPrune, ListCandidates,
       ReadRegen, IncrementRegen, RereadRegen, CountExisting, SeedCandidates, ReloadCandidates,
       SelectProposal, GetOrCreateQueryId, InsertInteraction, StatsOnShow, ReadBefore,
       NoMatchingInteraction, ApplyReward, NothingToApply, StatsOnReward, ReadFeatures,
       UpdateWithReward, ReadAfter, Crash, AfterConstruct

\* Each of the two statements that write proposal_stats changes its own columns of the row
\* of its proposal.
LEMMA ShowEffect ==
    ASSUME TypeInv, NEW p \in Proc, StatsOnShow(p), NEW a \in Proposal
    PROVE  /\ StatsOf(a)'.shown = StatsOf(a).shown + (IF a = work[p].arm THEN 1 ELSE 0)
           /\ StatsOf(a)'.count = StatsOf(a).count
<1> DEFINE b == work[p].arm  row == [StatsOf(b) EXCEPT !.shown = @ + 1]
<1>1. b \in Proposal
  BY WorkTyped DEF StatsOnShow, WorkAt
<1>2. row.shown = StatsOf(b).shown + 1 /\ row.count = StatsOf(b).count
  BY <1>1, StatsOfType DEF StatsRow
<1>3. StatsOf(a) \in StatsRow
  BY StatsOfType
<1>4. UpsertStats(b, row)
  BY DEF StatsOnShow
<1> HIDE DEF row
<1>5. StatsOf(a)' = IF a = b THEN row ELSE StatsOf(a)
  BY <1>4 DEF UpsertStats, StatsOf
<1> QED BY <1>2, <1>3, <1>5 DEF StatsRow

LEMMA RewardEffect ==
    ASSUME TypeInv, NEW p \in Proc, StatsOnReward(p), NEW a \in Proposal
    PROVE  /\ StatsOf(a)'.shown = StatsOf(a).shown
           /\ StatsOf(a)'.count = StatsOf(a).count + (IF a = work[p].arm THEN 1 ELSE 0)
<1> DEFINE b == work[p].arm
           row == [StatsOf(b) EXCEPT !.sum = @ + work[p].reward, !.count = @ + 1]
<1>1. b \in Proposal
  BY WorkTyped DEF StatsOnReward, WorkAt, RewardSteps
<1>2. row.shown = StatsOf(b).shown /\ row.count = StatsOf(b).count + 1
  BY <1>1, StatsOfType DEF StatsRow
<1>3. StatsOf(a) \in StatsRow
  BY StatsOfType
<1>4. UpsertStats(b, row)
  BY DEF StatsOnReward
<1> HIDE DEF row
<1>5. StatsOf(a)' = IF a = b THEN row ELSE StatsOf(a)
  BY <1>4 DEF UpsertStats, StatsOf
<1> QED BY <1>2, <1>3, <1>5 DEF StatsRow

-----------------------------------------------------------------------------
(* shown_count. A row of the log is written one statement before its       *)
(* proposal is counted as shown: until then its request is at "show".      *)

Showing(a) == PendingAt("show", a)

Covered(a) ==
    Cardinality(RowsShowing(a)) <= StatsOf(a).shown + Cardinality(Showing(a)) + crashes

ShownInv == \A a \in Proposal : Covered(a)

LEMMA ShownCounts ==
    ASSUME TypeInv, NEW a \in Proposal
    PROVE  /\ StatsOf(a).shown \in Nat /\ crashes \in Nat
           /\ IsFiniteSet(Showing(a)) /\ Cardinality(Showing(a)) \in Nat
           /\ IsFiniteSet(RowsShowing(a)) /\ Cardinality(RowsShowing(a)) \in Nat
<1>1. IsFiniteSet(Showing(a))
  BY FS_Subset, RetrievalAssumption DEF Showing, PendingAt
<1>2. Len(log) \in Nat /\ crashes \in Nat
  BY RetrievalAssumption DEF TypeInv, TypeOK
<1>3. IsFiniteSet(RowsShowing(a))
  <2>1. IsFiniteSet(1 .. Len(log))
    BY <1>2, FS_Interval
  <2> QED BY <2>1, FS_Subset DEF RowsShowing
<1>4. StatsOf(a).shown \in Nat
  BY StatsOfType DEF StatsRow
<1> QED BY <1>1, <1>2, <1>3, <1>4, FS_CardinalityType

\* A row of a proposal appears only when its request goes on to count it.
LEMMA InsertCovered ==
    ASSUME TypeInv, NEW p \in Proc, InsertInteraction(p), NEW a \in Proposal, Covered(a)
    PROVE  Covered(a)'
<1>0. TypeInv' /\ StepOf(p)
  BY NextTypeInv DEF StepOf, QueryStep, Next
<1>1. crashes' = crashes /\ StatsOf(a)' = StatsOf(a) /\ work' = work
  BY DEF InsertInteraction, StatsOf, envVars
<1>2. /\ pc[p] = "log" /\ pc'[p] = "show"
      /\ \A q \in Proc : q # p => pc'[q] = pc[q]
  BY DEF InsertInteraction, Goto, TypeInv, TypeOK
<1>3. CASE a = work[p].arm
  <2>1. Showing(a)' = Showing(a) \cup {p} /\ p \notin Showing(a)
    BY <1>1, <1>2, <1>3 DEF Showing, PendingAt
  <2>2. Cardinality(Showing(a)') = Cardinality(Showing(a)) + 1
    BY <2>1, ShownCounts, FS_AddElement
  <2>3. RowsShowing(a)' \subseteq RowsShowing(a) \cup {Len(log) + 1}
    <3>1. CASE UNCHANGED log
      BY <3>1 DEF RowsShowing
    <3>2. CASE ~UNCHANGED log
      <4>1. Len(log') = Len(log) + 1 /\ \A i \in 1 .. Len(log) : log'[i] = log[i]
        BY <3>2, InsertEffect
      <4>2. 1 .. Len(log') = (1 .. Len(log)) \cup {Len(log) + 1}
        BY <4>1 DEF TypeInv, TypeOK
      <4> QED BY <4>1, <4>2 DEF RowsShowing
    <3> QED BY <3>1, <3>2
  <2>4. /\ Cardinality(RowsShowing(a)') <= Cardinality(RowsShowing(a)) + 1
        /\ Cardinality(RowsShowing(a)') \in Nat
    BY <2>3, ShownCounts, OneMore
  <2> QED BY <1>1, <2>2, <2>4, ShownCounts DEF Covered
<1>4. CASE a # work[p].arm
  <2>1. Showing(a)' = Showing(a)
    BY <1>1, <1>2, <1>4 DEF Showing, PendingAt
  <2>2. RowsShowing(a)' = RowsShowing(a)
    <3>1. CASE UNCHANGED log
      BY <3>1 DEF RowsShowing
    <3>2. CASE ~UNCHANGED log
      <4>1. /\ Len(log') = Len(log) + 1 /\ \A i \in 1 .. Len(log) : log'[i] = log[i]
            /\ log'[Len(log) + 1] = NewRow(p) /\ NewRow(p).arm = work[p].arm
        BY <3>2, InsertEffect DEF NewRow
      <4>2. 1 .. Len(log') = (1 .. Len(log)) \cup {Len(log) + 1}
        BY <4>1 DEF TypeInv, TypeOK
      <4> QED BY <1>4, <4>1, <4>2 DEF RowsShowing
    <3> QED BY <3>1, <3>2
  <2> QED BY <1>1, <2>1, <2>2 DEF Covered
<1> QED BY <1>3, <1>4

\* A request that is counted leaves "show", and one that is cut short there is counted
\* among the crashes.
LEMMA LeaveCovered ==
    ASSUME TypeInv, NEW p \in Proc, StatsOnShow(p) \/ Crash(p), NEW a \in Proposal, Covered(a)
    PROVE  Covered(a)'
<1>0. StepOf(p)
  BY DEF StepOf, QueryStep
<1>1. RowsShowing(a)' = RowsShowing(a)
  BY DEF StatsOnShow, Crash, ledgerVars, RowsShowing
<1>2. pc'[p] = "idle" /\ \A q \in Proc : q # p => pc'[q] = pc[q] /\ work'[q] = work[q]
  BY DEF StatsOnShow, Crash, Finish, Goto, TypeInv, TypeOK
<1>3. Showing(a)' = Showing(a) \ {p}
  BY <1>2 DEF Showing, PendingAt
<1>4. /\ IsFiniteSet(Showing(a)) /\ Cardinality(Showing(a)) \in Nat
      /\ Cardinality(Showing(a)') = Cardinality(Showing(a)) - (IF p \in Showing(a) THEN 1 ELSE 0)
  BY <1>3, ShownCounts, OneLess
<1>5. CASE StatsOnShow(p)
  <2>1. p \in Showing(a) <=> a = work[p].arm
    BY <1>5 DEF StatsOnShow, Showing, PendingAt
  <2>2. StatsOf(a)'.shown = StatsOf(a).shown + (IF a = work[p].arm THEN 1 ELSE 0)
    BY <1>5, ShowEffect
  <2>3. crashes' = crashes
    BY <1>5 DEF StatsOnShow, envVars
  <2> QED BY <1>1, <1>4, <2>1, <2>2, <2>3, ShownCounts DEF Covered
<1>6. CASE Crash(p)
  <2>1. StatsOf(a)' = StatsOf(a) /\ crashes' = crashes + 1
    BY <1>6 DEF Crash, StatsOf, ledgerVars
  <2> QED BY <1>1, <1>4, <2>1, ShownCounts DEF Covered
<1> QED BY <1>5, <1>6

\* No other step writes a row, counts one, or moves a request to or from "show".
LEMMA OthersCovered ==
    ASSUME TypeInv, NEW p \in Proc, StepOf(p),
           ~InsertInteraction(p), ~StatsOnShow(p), ~Crash(p), NEW a \in Proposal, Covered(a)
    PROVE  Covered(a)'
<1>1. crashes' = crashes
  BY StatsWriters
<1>2. StatsOf(a)'.shown = StatsOf(a).shown
  <2>1. CASE UNCHANGED stats
    BY <2>1 DEF StatsOf
  <2> QED BY <2>1, StatsWriters, RewardEffect
<1>3. Showing(a)' = Showing(a)
  <2>1. pc[p] # "show" /\ pc'[p] # "show"
    BY Transitions
  <2> QED BY <2>1, OthersKept DEF Showing, PendingAt
<1>4. RowsShowing(a)' = RowsShowing(a)
  <2>1. CASE UNCHANGED log
    BY <2>1 DEF RowsShowing
  <2>2. ASSUME NEW q \in Proc, ApplyReward(q)
        PROVE  RowsShowing(a)' = RowsShowing(a)
    BY <2>2, ApplyEffect, ApplyKeeps DEF RowsShowing
  <2>3. ASSUME ~UNCHANGED log
        PROVE  ApplyReward(p)
    BY <2>3 DEF StepOf, QueryStep, RewardStep, StartQuery, StartReward, Begin,
       LoadWeights, PersistInitialWeights, FindPromptCache, InsertPromptCache, PromptCacheConflict,
       PruneList, ScoreCandidates, RemoveCandidate, RelistCandidates, FinishPrune, ListCandidates,
       ReadRegen, IncrementRegen, RereadRegen, CountExisting, SeedCandidates, ReloadCandidates,
       SelectProposal, GetOrCreateQueryId, ReadBefore, NoMatchingInteraction, NothingToApply,
       StatsOnReward, ReadFeatures, UpdateWithReward, ReadAfter, ledgerVars
  <2> QED BY <2>1, <2>2, <2>3
<1> QED BY <1>1, <1>2, <1>3, <1>4 DEF Covered

\* shown_count accounts for every row of the log, whatever processes log at the same
\* time: short only of the requests that are between the row and the count, and of those
\* that were cut short.
THEOREM RowsAreCountedAsShown == Spec => []ShownCoversLog
<1>1. Init => ShownInv
  <2> SUFFICES ASSUME Init, NEW a \in Proposal
               PROVE  Covered(a)
    BY DEF ShownInv
  <2>1. Showing(a) = {} /\ RowsShowing(a) = {} /\ StatsOf(a).shown = 0 /\ crashes = 0
    BY DEF Init, Showing, PendingAt, RowsShowing, StatsOf, NoStats
  <2> QED BY <2>1, FS_EmptySet DEF Covered
<1>2. TypeInv /\ ShownInv /\ [Next]_vars => ShownInv'
  <2> SUFFICES ASSUME TypeInv, ShownInv, [Next]_vars, NEW a \in Proposal
               PROVE  Covered(a)'
    BY DEF ShownInv
  <2>1. CASE UNCHANGED vars
    BY <2>1 DEF vars, ledgerVars, envVars, ShownInv, Covered, Showing, PendingAt, RowsShowing, StatsOf
  <2>2. ASSUME NEW p \in Proc, StepOf(p)
        PROVE  Covered(a)'
    BY <2>2, InsertCovered, LeaveCovered, OthersCovered DEF ShownInv
  <2> QED BY <2>1, <2>2 DEF Next, StepOf
<1>3. TypeInv /\ ShownInv => ShownCoversLog
  <2> SUFFICES ASSUME TypeInv, ShownInv, NEW a \in Arms
               PROVE  Covered(a)
    BY DEF ShownCoversLog, Covered, Showing
  <2>1. \A i \in 1 .. Len(log) : log[i].arm \in Proposal
    <3>1. \A i \in 1 .. Len(log) : log[i] \in Interaction
      BY DEF TypeInv, TypeOK
    <3> QED BY <3>1 DEF Interaction
  <2> QED BY <2>1 DEF Arms, TypeInv, TypeOK, ShownInv
<1> QED BY <1>1, <1>2, <1>3, TypeInvariant, PTL DEF Spec
-----------------------------------------------------------------------------
(* Training. Weights are read when a request begins and written back when  *)
(* it ends, so what matters is every copy of them: none has learnt from a  *)
(* row that a request still owes to them, and no two requests owe the same *)
(* row.                                                                    *)

Trained(weights, i) == \E n \in 1 .. Len(weights) : weights[n].rewarded = i

Honest(weights, rows) ==
    \A m, n \in 1 .. Len(weights) :
        /\ weights[m].rewarded \in 1 .. Len(rows)
        /\ rows[weights[m].rewarded].applied
        /\ weights[m].rewarded = weights[n].rewarded => m = n

\* A request that has put a reward on a row and has not learnt from it yet.
Owes(p) == pc[p] \in {"tally", "features", "learn"}

TrainInv ==
    /\ bandit # None => Honest(bandit, log)
    /\ \A p \in Proc : Honest(work[p].weights, log)
    /\ \A p \in Proc : Owes(p) =>
          /\ work[p].row \in 1 .. Len(log)
          /\ log[work[p].row].applied
          /\ bandit # None => ~Trained(bandit, work[p].row)
          /\ \A q \in Proc : ~Trained(work[q].weights, work[p].row)
    /\ \A p, q \in Proc : Owes(p) /\ Owes(q) /\ work[p].row = work[q].row => p = q

\* A row with a reward keeps it.
LEMMA AppliedStays ==
    ASSUME TypeInv, [Next]_vars
    PROVE  /\ 1 .. Len(log) \subseteq 1 .. Len(log')
           /\ \A i \in 1 .. Len(log) : log[i].applied => log'[i].applied
<1>0. Len(log) \in Nat /\ \A i \in 1 .. Len(log) : log[i] \in Interaction
  BY DEF TypeInv, TypeOK
<1>1. CASE UNCHANGED log
  BY <1>1
<1>2. ASSUME NEW p \in Proc, InsertInteraction(p), ~UNCHANGED log
      PROVE  /\ 1 .. Len(log) \subseteq 1 .. Len(log')
             /\ \A i \in 1 .. Len(log) : log[i].applied => log'[i].applied
  BY <1>0, <1>2, InsertEffect
<1>3. ASSUME NEW p \in Proc, ApplyReward(p)
      PROVE  /\ 1 .. Len(log) \subseteq 1 .. Len(log')
             /\ \A i \in 1 .. Len(log) : log[i].applied => log'[i].applied
  <2>1. Len(log') = Len(log)
    BY <1>3, ApplyEffect
  <2>2. PICK i \in 1 .. Len(log) : /\ ~log[i].applied
                                   /\ \A j \in 1 .. Len(log) : j # i => log'[j] = log[j]
    BY <1>3, ApplyEffect
  <2> QED BY <2>1, <2>2
<1> QED BY <1>1, <1>2, <1>3, LogWriters

\* Weights stay honest as the log goes on.
LEMMA HonestStays ==
    ASSUME TypeInv, [Next]_vars, NEW weights, Honest(weights, log)
    PROVE  Honest(weights, log')
<1>1. /\ 1 .. Len(log) \subseteq 1 .. Len(log')
      /\ \A i \in 1 .. Len(log) : log[i].applied => log'[i].applied
  BY AppliedStays
<1> QED BY <1>1 DEF Honest

LEMMA EmptyHonest ==
    ASSUME NEW rows
    PROVE  Honest(<<>>, rows) /\ \A i : ~Trained(<<>>, i)
BY DEF Honest, Trained

\* One gradient step on a row that the weights have not seen.
LEMMA LearnHonest ==
    ASSUME NEW weights \in Seq(Update), NEW rows, Honest(weights, rows),
           NEW i \in 1 .. Len(rows), rows[i].applied, ~Trained(weights, i),
           NEW u \in Update, u.rewarded = i, NEW new, new = Append(weights, u)
    PROVE  /\ Honest(new, rows)
           /\ \A k : Trained(new, k) => Trained(weights, k) \/ k = i
<1>1. /\ Len(weights) \in Nat
      /\ Len(new) = Len(weights) + 1
      /\ new[Len(weights) + 1] = u
      /\ \A n \in 1 .. Len(weights) : new[n] = weights[n]
  OBVIOUS
<1>2. 1 .. Len(new) = (1 .. Len(weights)) \cup {Len(weights) + 1}
  BY <1>1
<1> QED BY <1>1, <1>2 DEF Honest, Trained

\* What a step does to the shared weights, and to those of its own request.
LEMMA WeightsWriters ==
    ASSUME TypeInv, NEW p \in Proc, StepOf(p)
    PROVE  /\ \/ UNCHANGED bandit
              \/ bandit' = <<>>
              \/ UpdateWithReward(p)
           /\ \/ work'[p].weights = work[p].weights
              \/ work'[p].weights = <<>>
              \/ bandit # None /\ work'[p].weights = bandit
<1>1. work \in [Proc -> Work]
  BY DEF TypeInv, TypeOK
<1>2. NoWork \in Work /\ NoWork.weights = <<>>
  BY NoWorkType DEF NoWork
<1>3. CASE StartQuery(p) \/ StartReward(p)
  BY <1>1, <1>2, <1>3 DEF StartQuery, StartReward, Begin, NoWork, ledgerVars
<1>4. CASE LoadWeights(p) \/ PersistInitialWeights(p) \/ Crash(p)
  BY <1>1, <1>2, <1>4 DEF LoadWeights, PersistInitialWeights, Crash, Finish, ledgerVars, Work
<1>5. CASE QueryStep(p)
  BY <1>1, <1>2, <1>5 DEF QueryStep, Finish, FindPromptCache, InsertPromptCache,
       PromptCacheConflict, PruneList, ScoreCandidates, RemoveCandidate, RelistCandidates,
       FinishPrune, ListCandidates, ReadRegen, IncrementRegen, RereadRegen, CountExisting,
       SeedCandidates, ReloadCandidates, SelectProposal, GetOrCreateQueryId, InsertInteraction,
       StatsOnShow, ledgerVars, Work
<1>6. CASE RewardStep(p)
  <2>1. UNCHANGED bandit \/ UpdateWithReward(p)
    BY <1>6 DEF RewardStep, ReadBefore, NoMatchingInteraction, ApplyReward, NothingToApply,
         StatsOnReward, ReadFeatures, ReadAfter, ledgerVars
  <2>2. \/ work'[p].weights = work[p].weights
        \/ work'[p].weights = <<>>
    <3>1. CASE ReadBefore(p) \/ ApplyReward(p) \/ ReadFeatures(p)
      BY <1>1, <3>1 DEF ReadBefore, ApplyReward, ReadFeatures, Work
    <3>2. CASE NoMatchingInteraction(p) \/ ReadAfter(p)
      BY <1>1, <1>2, <3>2 DEF NoMatchingInteraction, ReadAfter, Finish
    <3>3. CASE NothingToApply(p) \/ StatsOnReward(p) \/ UpdateWithReward(p)
      BY <3>3 DEF NothingToApply, StatsOnReward, UpdateWithReward
    <3> QED BY <1>6, <3>1, <3>2, <3>3 DEF RewardStep
  <2> QED BY <2>1, <2>2
<1> QED BY <1>3, <1>4, <1>5, <1>6 DEF StepOf

\* A request owes a row from ApplyReward until it has learnt from it.
LEMMA OwesFrom ==
    ASSUME TypeInv, NEW p \in Proc, StepOf(p), Owes(p)', ~ApplyReward(p)
    PROVE  Owes(p) /\ work'[p].row = work[p].row /\ UNCHANGED bandit
<1>1. work \in [Proc -> Work] /\ pc \in [Proc -> Steps]
  BY DEF TypeInv, TypeOK
<1>2. StatsOnReward(p) \/ ReadFeatures(p)
  BY Transitions DEF Owes
<1> QED BY <1>1, <1>2 DEF StatsOnReward, ReadFeatures, Owes, ledgerVars, Work

\* The row a reward is put on was nobody's: it had none.
LEMMA ApplyTrainInv ==
    ASSUME TypeInv, TrainInv, NEW p \in Proc, ApplyReward(p)
    PROVE  TrainInv'
<1>0. [Next]_vars /\ StepOf(p)
  BY DEF StepOf, Next, RewardStep
<1>1. work \in [Proc -> Work] /\ pc \in [Proc -> Steps]
  BY DEF TypeInv, TypeOK
<1>2. PICK i \in Unapplied(p) :
         /\ log' = [log EXCEPT ![i].applied = TRUE, ![i].reward = work[p].reward]
         /\ work' = [work EXCEPT ![p].row = i]
  BY DEF ApplyReward
<1>3. i \in 1 .. Len(log) /\ ~log[i].applied
  BY <1>2 DEF Unapplied, MatchOf, Matching
<1>4. i \in 1 .. Len(log') /\ log'[i].applied
  <2>1. log \in Seq(Interaction) /\ log[i] \in Interaction /\ i \in DOMAIN log
    BY <1>3 DEF TypeInv, TypeOK
  <2>2. log'[i] = [log[i] EXCEPT !.applied = TRUE, !.reward = work[p].reward]
    <3>1. log' = [log EXCEPT ![i] = [log[i] EXCEPT !.applied = TRUE, !.reward = work[p].reward]]
      BY <1>2
    <3> QED BY <1>3, <2>1, <3>1
  <2>3. i \in 1 .. Len(log')
    BY <1>0, <1>3, AppliedStays
  <2> QED BY <2>1, <2>2, <2>3 DEF Interaction
<1>5. /\ bandit' = bandit
      /\ \A q \in Proc : work'[q].weights = work[q].weights
      /\ \A q \in Proc : q # p => work'[q].row = work[q].row /\ pc'[q] = pc[q]
      /\ work'[p].row = i
  BY <1>1, <1>2 DEF ApplyReward, Goto, Work
<1>6. /\ bandit # None => ~Trained(bandit, i)
      /\ \A q \in Proc : ~Trained(work[q].weights, i)
      /\ \A q \in Proc : Owes(q) => work[q].row # i
  BY <1>3 DEF TrainInv, Trained, Honest
<1>7. (bandit' # None => Honest(bandit', log')) /\ \A q \in Proc : Honest(work'[q].weights, log')
  BY <1>0, <1>5, HonestStays DEF TrainInv
<1>8. \A q \in Proc : q # p /\ Owes(q)' => Owes(q)
  BY <1>5 DEF Owes
<1>9. /\ 1 .. Len(log) \subseteq 1 .. Len(log')
      /\ \A j \in 1 .. Len(log) : log[j].applied => log'[j].applied
  BY <1>0, AppliedStays
<1>10. ASSUME NEW q \in Proc, Owes(q)'
       PROVE  /\ work'[q].row \in 1 .. Len(log')
              /\ log'[work'[q].row].applied
              /\ bandit' # None => ~Trained(bandit', work'[q].row)
              /\ \A r \in Proc : ~Trained(work'[r].weights, work'[q].row)
  BY <1>4, <1>5, <1>6, <1>8, <1>9, <1>10 DEF TrainInv
<1>11. ASSUME NEW q \in Proc, NEW r \in Proc, Owes(q)', Owes(r)', work'[q].row = work'[r].row
       PROVE  q = r
  BY <1>5, <1>6, <1>8, <1>11 DEF TrainInv
<1> QED BY <1>7, <1>10, <1>11 DEF TrainInv

\* The request writes back the weights it loaded, with the row it owed them.
LEMMA LearnTrainInv ==
    ASSUME TypeInv, TrainInv, NEW p \in Proc, UpdateWithReward(p)
    PROVE  TrainInv'
<1>1. /\ pc[p] = "learn" /\ UNCHANGED <<log, work>>
      /\ bandit' = Append(work[p].weights,
                          [rewarded |-> work[p].row, features |-> work[p].features])
      /\ pc' = [pc EXCEPT ![p] = "after"]
  BY DEF UpdateWithReward, Goto
<1>2. work[p] \in Work /\ pc \in [Proc -> Steps]
  BY DEF TypeInv, TypeOK
<1>3. \A q \in Proc : Owes(q)' => Owes(q) /\ q # p
  BY <1>1, <1>2 DEF Owes
<1>4. Owes(p)
  BY <1>1 DEF Owes
<1>5. /\ Honest(bandit', log)
      /\ \A k : Trained(bandit', k) => Trained(work[p].weights, k) \/ k = work[p].row
  <2> DEFINE weights == work[p].weights
             row == work[p].row
             u == [rewarded |-> row, features |-> work[p].features]
             new == bandit'
  <2>1. weights \in Seq(Update) /\ u \in Update /\ u.rewarded = row
    BY <1>2 DEF Work, Update
  <2>2. /\ Honest(weights, log) /\ ~Trained(weights, row)
        /\ row \in 1 .. Len(log) /\ log[row].applied
    BY <1>4 DEF TrainInv
  <2>3. new = Append(weights, u)
    BY <1>1
  <2> HIDE DEF weights, row, u, new
  <2>4. Honest(new, log) /\ \A k : Trained(new, k) => Trained(weights, k) \/ k = row
    BY <2>1, <2>2, <2>3, LearnHonest
  <2> QED BY <2>4 DEF weights, row, new
<1>6. \A q \in Proc : Owes(q)' => ~Trained(bandit', work[q].row)
  BY <1>3, <1>4, <1>5 DEF TrainInv
<1>7. \A q \in Proc : Owes(q)' => /\ work[q].row \in 1 .. Len(log)
                                  /\ log[work[q].row].applied
                                  /\ \A r \in Proc : ~Trained(work[r].weights, work[q].row)
  BY <1>3 DEF TrainInv
<1>8. \A q, r \in Proc : Owes(q)' /\ Owes(r)' /\ work[q].row = work[r].row => q = r
  BY <1>3 DEF TrainInv
<1>9. \A q \in Proc : Honest(work[q].weights, log)
  BY DEF TrainInv
<1>10. work' = work /\ log' = log
  BY <1>1
<1> HIDE <1>1
<1> QED BY <1>5, <1>6, <1>7, <1>8, <1>9, <1>10 DEF TrainInv

LEMMA OtherTrainInv ==
    ASSUME TypeInv, TrainInv, NEW p \in Proc, StepOf(p), ~ApplyReward(p), ~UpdateWithReward(p)
    PROVE  TrainInv'
<1>0. [Next]_vars
  BY DEF StepOf, Next
<1>1. UNCHANGED bandit \/ bandit' = <<>>
  BY WeightsWriters
<1>2. /\ 1 .. Len(log) \subseteq 1 .. Len(log')
      /\ \A j \in 1 .. Len(log) : log[j].applied => log'[j].applied
  BY <1>0, AppliedStays
<1>3. bandit' # None => Honest(bandit', log')
  BY <1>0, <1>1, HonestStays, EmptyHonest DEF TrainInv
<1>4. ASSUME NEW q \in Proc
      PROVE  /\ Honest(work'[q].weights, log')
             /\ \/ work'[q].weights = work[q].weights
                \/ work'[q].weights = <<>>
                \/ bandit # None /\ work'[q].weights = bandit
  <2>1. \/ work'[q].weights = work[q].weights
        \/ work'[q].weights = <<>>
        \/ bandit # None /\ work'[q].weights = bandit
    BY WeightsWriters, OthersKept
  <2> QED BY <1>0, <2>1, HonestStays, EmptyHonest DEF TrainInv
<1>5. \A q \in Proc : Owes(q)' => Owes(q) /\ work'[q].row = work[q].row
  BY OwesFrom, OthersKept DEF Owes
<1>6. ASSUME NEW q \in Proc, Owes(q)'
      PROVE  /\ work'[q].row \in 1 .. Len(log')
             /\ log'[work'[q].row].applied
             /\ bandit' # None => ~Trained(bandit', work'[q].row)
             /\ \A r \in Proc : ~Trained(work'[r].weights, work'[q].row)
  <2>1. Owes(q) /\ work'[q].row = work[q].row
    BY <1>5, <1>6
  <2>2. bandit' # None => ~Trained(bandit', work'[q].row)
    BY <1>1, <2>1, EmptyHonest DEF TrainInv
  <2>3. \A r \in Proc : ~Trained(work'[r].weights, work'[q].row)
    BY <1>4, <2>1, EmptyHonest DEF TrainInv
  <2> QED BY <1>2, <2>1, <2>2, <2>3 DEF TrainInv
<1>7. \A q, r \in Proc : Owes(q)' /\ Owes(r)' /\ work'[q].row = work'[r].row => q = r
  BY <1>5 DEF TrainInv
<1> QED BY <1>3, <1>4, <1>6, <1>7 DEF TrainInv

\* Every copy of the weights, shared or loaded, is honest about the rows it has learnt from,
\* and ignorant of those a request still owes to it.
THEOREM TrainingInvariant == Spec => []TrainInv
<1>1. Init => TrainInv
  <2> SUFFICES ASSUME Init PROVE TrainInv
    OBVIOUS
  <2>1. \A p \in Proc : work[p].weights = <<>> /\ ~Owes(p)
    BY DEF Init, NoWork, Owes
  <2> QED BY <2>1, EmptyHonest DEF Init, TrainInv
<1>2. TypeInv /\ TrainInv /\ [Next]_vars => TrainInv'
  <2> SUFFICES ASSUME TypeInv, TrainInv, [Next]_vars PROVE TrainInv'
    OBVIOUS
  <2>1. CASE UNCHANGED vars
    BY <2>1 DEF vars, ledgerVars, TrainInv, Owes
  <2>2. ASSUME NEW p \in Proc, StepOf(p)
        PROVE  TrainInv'
    BY <2>2, ApplyTrainInv, LearnTrainInv, OtherTrainInv
  <2> QED BY <2>1, <2>2 DEF Next, StepOf
<1> QED BY <1>1, <1>2, TypeInvariant, PTL DEF Spec

\* The weights never learn twice from one row, nor from a row without a reward: although
\* a process writes back weights it loaded before others wrote theirs, what it writes
\* has seen each rewarded row at most once.
THEOREM RowsAreTrainedOnce == Spec => []TrainedOncePerRow
<1>1. TrainInv => TrainedOncePerRow
  BY DEF TrainInv, Honest, TrainedOncePerRow
<1> QED BY <1>1, TrainingInvariant, PTL

-----------------------------------------------------------------------------
(* One process at a time. While it is not cut short, the weights its       *)
(* request loaded are the shared ones, so that none of the rewards on the  *)
(* log is missing from them but the one the request is about to learn.     *)

Absorbed == IF bandit = None THEN {} ELSE {bandit[n].rewarded : n \in 1 .. Len(bandit)}

AllApplied == {i \in 1 .. Len(log) : log[i].applied}

\* The steps between the load of the weights and their update.
LoadedSteps == (QuerySteps \cup RewardSteps) \ {"after"}

CompleteInv(p) ==
    crashes = 0 =>
        /\ AllApplied = Absorbed \cup (IF Owes(p) THEN {work[p].row} ELSE {})
        /\ pc[p] \in LoadedSteps => bandit # None /\ work[p].weights = bandit
        /\ pc[p] \in {"construct", "initWeights"} => work[p].weights = <<>>
        /\ pc[p] = "initWeights" => bandit = None

\* The rows with a reward change by ApplyReward only.
LEMMA AllAppliedStep ==
    ASSUME TypeInv, NEW p \in Proc, StepOf(p)
    PROVE  AllApplied' = AllApplied \cup (IF ApplyReward(p) THEN {work'[p].row} ELSE {})
<1>0. Len(log) \in Nat /\ \A i \in 1 .. Len(log) : log[i] \in Interaction
  BY DEF TypeInv, TypeOK
<1>1. CASE ApplyReward(p)
  <2>1. PICK i \in Unapplied(p) :
           /\ log' = [log EXCEPT ![i].applied = TRUE, ![i].reward = work[p].reward]
           /\ work' = [work EXCEPT ![p].row = i]
    BY <1>1 DEF ApplyReward
  <2>2. log \in Seq(Interaction) /\ i \in 1 .. Len(log) /\ i \in DOMAIN log
    BY DEF TypeInv, TypeOK, Unapplied, MatchOf, Matching
  <2>3. log' = [log EXCEPT ![i] = [log[i] EXCEPT !.applied = TRUE, !.reward = work[p].reward]]
    BY <2>1
  <2>4. Len(log') = Len(log) /\ log'[i].applied /\ \A j \in 1 .. Len(log) : j # i => log'[j] = log[j]
    <3>1. log[i] \in Interaction /\ DOMAIN log = 1 .. Len(log)
      BY <1>0, <2>2
    <3>2. DOMAIN log' = DOMAIN log /\ Len(log') = Len(log)
      BY <2>2, <2>3, <3>1
    <3>3. log'[i] = [log[i] EXCEPT !.applied = TRUE, !.reward = work[p].reward]
      BY <2>2, <2>3
    <3> QED BY <2>2, <2>3, <3>1, <3>2, <3>3 DEF Interaction
  <2>5. work'[p].row = i
    BY <2>1 DEF TypeInv, TypeOK, Work
  <2> QED BY <1>1, <2>2, <2>4, <2>5 DEF AllApplied
<1>2. CASE InsertInteraction(p) /\ ~UNCHANGED log
  <2>1. /\ Len(log') = Len(log) + 1 /\ \A i \in 1 .. Len(log) : log'[i] = log[i]
        /\ log'[Len(log) + 1] = NewRow(p) /\ ~NewRow(p).applied
    BY <1>2, InsertEffect DEF NewRow
  <2>2. 1 .. Len(log') = (1 .. Len(log)) \cup {Len(log) + 1}
    BY <1>0, <2>1
  <2>3. ~ApplyReward(p)
    BY <1>2 DEF InsertInteraction, ApplyReward
  <2> QED BY <2>1, <2>2, <2>3 DEF AllApplied
<1>3. CASE UNCHANGED log /\ ~ApplyReward(p)
  BY <1>3 DEF AllApplied
<1>4. UNCHANGED log \/ InsertInteraction(p) \/ ApplyReward(p)
  BY DEF StepOf, QueryStep, RewardStep, StartQuery, StartReward, Begin,
     LoadWeights, PersistInitialWeights, FindPromptCache, InsertPromptCache, PromptCacheConflict,
     PruneList, ScoreCandidates, RemoveCandidate, RelistCandidates, FinishPrune, ListCandidates,
     ReadRegen, IncrementRegen, RereadRegen, CountExisting, SeedCandidates, ReloadCandidates,
     SelectProposal, GetOrCreateQueryId, StatsOnShow, ReadBefore, NoMatchingInteraction,
     NothingToApply, StatsOnReward, ReadFeatures, UpdateWithReward, ReadAfter, Crash, ledgerVars
<1> QED BY <1>1, <1>2, <1>3, <1>4

\* Where a request has the weights from.
LEMMA LoadedStep ==
    ASSUME TypeInv, NEW p \in Proc, StepOf(p)
    PROVE  /\ pc'[p] \in LoadedSteps =>
                \/ /\ pc[p] \in LoadedSteps /\ UNCHANGED bandit
                   /\ work'[p].weights = work[p].weights
                \/ LoadWeights(p) /\ bandit # None /\ bandit' = bandit /\ work'[p].weights = bandit
                \/ PersistInitialWeights(p)
           /\ pc'[p] \in {"construct", "initWeights"} =>
                \/ work'[p].weights = <<>>
                \/ LoadWeights(p) /\ pc[p] = "construct" /\ work' = work
           /\ pc'[p] = "initWeights" => bandit = None /\ bandit' = bandit
           /\ UNCHANGED bandit \/ PersistInitialWeights(p) \/ UpdateWithReward(p)
<1>1. work \in [Proc -> Work] /\ pc \in [Proc -> Steps]
  BY DEF TypeInv, TypeOK
<1>2. NoWork \in Work /\ NoWork.weights = <<>>
  BY NoWorkType DEF NoWork
<1> USE DEF LoadedSteps, QuerySteps, RewardSteps, Goto
<1>3. CASE StartQuery(p) \/ StartReward(p)
  <2>1. pc'[p] = "construct" /\ UNCHANGED bandit
    BY <1>1, <1>3 DEF StartQuery, StartReward, Begin, ledgerVars
  <2>2. work'[p].weights = <<>>
    <3>1. CASE StartQuery(p)
      <4>1. PICK s \in Submit, c \in Caller :
               work' = [work EXCEPT ![p] = [NoWork EXCEPT !.submit = s, !.caller = c]]
        BY <3>1 DEF StartQuery, Begin
      <4> QED BY <1>1, <1>2, <4>1 DEF Work
    <3>2. CASE StartReward(p)
      <4>1. PICK i \in 1 .. Len(log), c \in Caller, v \in Reward :
               Begin(p, [NoWork EXCEPT !.caller = c, !.arm = log[i].arm, !.reward = v])
        BY <3>2, Zenon DEF StartReward
      <4>2. work'[p] = [NoWork EXCEPT !.caller = c, !.arm = log[i].arm, !.reward = v]
        BY <1>1, <4>1 DEF Begin
      <4> QED BY <1>2, <4>2 DEF Work
    <3> QED BY <1>3, <3>1, <3>2
  <2> QED BY <2>1, <2>2
<1>4. CASE LoadWeights(p) \/ PersistInitialWeights(p) \/ Crash(p)
  BY <1>1, <1>2, <1>4 DEF LoadWeights, PersistInitialWeights, AfterConstruct, Crash, Finish,
       ledgerVars, Work
<1>5. CASE QueryStep(p)
  BY <1>1, <1>2, <1>5 DEF QueryStep, Finish, FindPromptCache, InsertPromptCache,
       PromptCacheConflict, PruneList, ScoreCandidates, RemoveCandidate, RelistCandidates,
       FinishPrune, ListCandidates, ReadRegen, IncrementRegen, RereadRegen, CountExisting,
       SeedCandidates, ReloadCandidates, SelectProposal, GetOrCreateQueryId, InsertInteraction,
       StatsOnShow, ledgerVars, Work
<1>6. CASE RewardStep(p)
  <2>1. CASE NoMatchingInteraction(p) \/ UpdateWithReward(p) \/ ReadAfter(p)
    BY <1>1, <2>1 DEF NoMatchingInteraction, UpdateWithReward, ReadAfter, Finish, ledgerVars
  <2>2. CASE NothingToApply(p) \/ StatsOnReward(p)
    BY <1>1, <2>2 DEF NothingToApply, StatsOnReward, ledgerVars
  <2>3. CASE ReadBefore(p) \/ ApplyReward(p) \/ ReadFeatures(p)
    <3>1. /\ pc[p] \in LoadedSteps /\ UNCHANGED bandit
          /\ pc'[p] \notin {"construct", "initWeights"}
      BY <1>1, <2>3 DEF ReadBefore, ApplyReward, ReadFeatures, ledgerVars
    <3>2. CASE ReadBefore(p)
      BY <1>1, <3>1, <3>2 DEF ReadBefore, Work
    <3>3. CASE ApplyReward(p)
      BY <1>1, <3>1, <3>3 DEF ApplyReward, Work
    <3>4. CASE ReadFeatures(p)
      BY <1>1, <3>1, <3>4 DEF ReadFeatures, Work
    <3> QED BY <2>3, <3>2, <3>3, <3>4
  <2> QED BY <1>6, <2>1, <2>2, <2>3 DEF RewardStep
<1> QED BY <1>3, <1>4, <1>5, <1>6 DEF StepOf

LEMMA NextCompleteInv ==
    ASSUME TypeInv, NEW p \in Proc, StepOf(p), CompleteInv(p)
    PROVE  CompleteInv(p)'
<1> SUFFICES ASSUME crashes = 0, crashes' = 0
             PROVE  CompleteInv(p)'
  <2>1. crashes' = 0 => crashes = 0
    BY StatsWriters, RetrievalAssumption DEF Crash, TypeInv, TypeOK
  <2> QED BY <2>1 DEF CompleteInv
<1>0. work \in [Proc -> Work] /\ pc \in [Proc -> Steps] /\ ~Crash(p)
  BY DEF TypeInv, TypeOK, Crash
<1>1. CASE ApplyReward(p)
  <2>1. pc[p] = "apply" /\ pc'[p] = "tally" /\ bandit' = bandit /\ work'[p].weights = work[p].weights
    BY <1>0, <1>1 DEF ApplyReward, Goto, Work
  <2>2. AllApplied' = AllApplied \cup {work'[p].row}
    BY <1>1, AllAppliedStep
  <2> QED BY <2>1, <2>2 DEF CompleteInv, Owes, Absorbed, LoadedSteps, QuerySteps, RewardSteps
<1>2. CASE UpdateWithReward(p)
  <2>1. /\ pc[p] = "learn" /\ pc'[p] = "after" /\ work' = work
        /\ bandit' = Append(work[p].weights,
                            [rewarded |-> work[p].row, features |-> work[p].features])
    BY <1>0, <1>2 DEF UpdateWithReward, Goto
  <2>2. bandit # None /\ work[p].weights = bandit /\ bandit \in Seq(Update)
    BY <2>1 DEF CompleteInv, LoadedSteps, QuerySteps, RewardSteps, TypeInv, TypeOK
  <2>3. AllApplied' = AllApplied
    BY <1>2, AllAppliedStep DEF UpdateWithReward, ApplyReward
  <2>4. AllApplied = Absorbed \cup {work[p].row}
    BY <2>1 DEF CompleteInv, Owes
  <2>5. {bandit'[n].rewarded : n \in 1 .. Len(bandit')} =
          {bandit[n].rewarded : n \in 1 .. Len(bandit)} \cup {work[p].row}
    <3>1. /\ Len(bandit) \in Nat /\ Len(bandit') = Len(bandit) + 1
          /\ bandit'[Len(bandit) + 1].rewarded = work[p].row
          /\ \A n \in 1 .. Len(bandit) : bandit'[n] = bandit[n]
      BY <2>1, <2>2
    <3>2. 1 .. Len(bandit') = (1 .. Len(bandit)) \cup {Len(bandit) + 1}
      BY <3>1
    <3> QED BY <3>1, <3>2
  <2>6. bandit' # None
    <3>1. work[p].weights \in Seq(Update)
          /\ [rewarded |-> work[p].row, features |-> work[p].features] \in Update
      BY <1>0 DEF Work, Update
    <3>2. bandit' \in Seq(Update)
      BY <2>1, <3>1
    <3> QED BY <3>2, WeightsAssumption
  <2> QED BY <2>1, <2>2, <2>3, <2>4, <2>5, <2>6
          DEF CompleteInv, Owes, Absorbed, LoadedSteps, QuerySteps, RewardSteps
<1>3. CASE PersistInitialWeights(p)
  <2>1. /\ pc[p] = "initWeights" /\ bandit' = <<>> /\ work' = work
        /\ pc'[p] \in {"find", "before"}
    BY <1>0, <1>3 DEF PersistInitialWeights, AfterConstruct, Goto
  <2>2. AllApplied' = AllApplied
    BY <1>3, AllAppliedStep DEF PersistInitialWeights, ApplyReward
  <2>3. <<>> # None
    <3>1. <<>> \in Seq(Update)
      OBVIOUS
    <3> QED BY <3>1, WeightsAssumption
  <2> QED BY <2>1, <2>2, <2>3
          DEF CompleteInv, Owes, Absorbed, LoadedSteps, QuerySteps, RewardSteps
<1>4. CASE ~ApplyReward(p) /\ ~UpdateWithReward(p) /\ ~PersistInitialWeights(p)
  <2>1. AllApplied' = AllApplied /\ UNCHANGED bandit
    BY <1>4, AllAppliedStep, LoadedStep
  <2>2. Owes(p)' => Owes(p) /\ work'[p].row = work[p].row
    BY <1>4, OwesFrom
  <2>3. Owes(p) => Owes(p)'
    BY <1>0, <1>4
       DEF Owes, StepOf, QueryStep, RewardStep, StartQuery, StartReward, Begin, Goto,
           LoadWeights, PersistInitialWeights, FindPromptCache, InsertPromptCache, PromptCacheConflict,
           PruneList, ScoreCandidates, RemoveCandidate, RelistCandidates, FinishPrune, ListCandidates,
           ReadRegen, IncrementRegen, RereadRegen, CountExisting, SeedCandidates, ReloadCandidates,
           SelectProposal, GetOrCreateQueryId, InsertInteraction, StatsOnShow, ReadBefore,
           NoMatchingInteraction, NothingToApply, StatsOnReward, ReadFeatures, ReadAfter
  <2> QED BY <1>4, <2>1, <2>2, <2>3, LoadedStep DEF CompleteInv, Absorbed
<1> QED BY <1>1, <1>2, <1>3, <1>4

\* A single process loses no training, whatever it is asked: between two requests, as
\* long as none was cut short, the weights have learnt from exactly the rows that carry
\* a reward. (Two processes can lose each other's: each writes back what it loaded.)
THEOREM NoTrainingIsLost ==
    ASSUME NEW server, Proc = {server}
    PROVE  Spec => []TrainingComplete
<1>1. Init => CompleteInv(server)
  BY DEF Init, CompleteInv, AllApplied, Absorbed, Owes, LoadedSteps, QuerySteps, RewardSteps
<1>2. TypeInv /\ CompleteInv(server) /\ [Next]_vars => CompleteInv(server)'
  <2> SUFFICES ASSUME TypeInv, CompleteInv(server), [Next]_vars
               PROVE  CompleteInv(server)'
    OBVIOUS
  <2>1. CASE UNCHANGED vars
    BY <2>1 DEF vars, ledgerVars, envVars, CompleteInv, AllApplied, Absorbed, Owes
  <2>2. CASE StepOf(server)
    BY <2>2, NextCompleteInv
  <2> QED BY <2>1, <2>2 DEF Next, StepOf
<1>3. CompleteInv(server) => TrainingComplete
  BY DEF CompleteInv, TrainingComplete, AllApplied, Absorbed, Owes
<1> QED BY <1>1, <1>2, <1>3, TypeInvariant, PTL DEF Spec
-----------------------------------------------------------------------------
(* The refinement. Every step of a process is a step of the ledger or      *)
(* leaves the log and the counts alone.                                    *)

\* The counted rewards of the ledger, seen from the statistics of a proposal.
RowIn(table, a) == IF a \in DOMAIN table THEN table[a] ELSE NoStats

LEMMA CountsForm ==
    ASSUME NEW table, DOMAIN table \subseteq Proposal
    PROVE  [a \in {x \in DOMAIN table : table[x].count > 0} |-> table[a].count]
              = [a \in {x \in Proposal : RowIn(table, x).count > 0} |-> RowIn(table, a).count]
<1>1. \A x \in Proposal : RowIn(table, x).count > 0 <=> x \in DOMAIN table /\ table[x].count > 0
  BY DEF NoStats, RowIn
<1>2. {x \in Proposal : RowIn(table, x).count > 0} = {x \in DOMAIN table : table[x].count > 0}
  BY <1>1
<1>3. \A x \in DOMAIN table : RowIn(table, x).count = table[x].count
  BY DEF RowIn
<1> QED BY <1>2, <1>3

LEMMA CountedForm ==
    ASSUME TypeInv
    PROVE  CountedRewards = [a \in {x \in Proposal : StatsOf(x).count > 0} |-> StatsOf(a).count]
BY CountsForm DEF TypeInv, TypeOK, CountedRewards, StatsOf, RowIn

LEMMA CountedFormNext ==
    ASSUME TypeInv'
    PROVE  CountedRewards' = [a \in {x \in Proposal : StatsOf(x)'.count > 0} |-> StatsOf(a)'.count]
BY CountsForm DEF TypeInv, TypeOK, CountedRewards, StatsOf, RowIn

\* The ledger counts its entries with the operator of FiniteSets, too.
LEMMA LedgerCardinality ==
    ASSUME NEW S
    PROVE  Ledger!Cardinality(S) = Cardinality(S)
BY Zenon DEF Cardinality, Ledger!Cardinality

LEMMA CountedCount ==
    ASSUME TypeInv, NEW a \in Proposal
    PROVE  Ledger!CountOf(a) = StatsOf(a).count
<1>1. CountedRewards = [x \in {y \in Proposal : StatsOf(y).count > 0} |-> StatsOf(x).count]
  BY CountedForm
<1>2. StatsOf(a).count \in Nat
  BY StatsOfType DEF StatsRow
<1> QED BY <1>1, <1>2 DEF Ledger!CountOf

\* A step that keeps every count keeps the ledger's.
LEMMA CountedKept ==
    ASSUME TypeInv, TypeInv', \A a \in Proposal : StatsOf(a)'.count = StatsOf(a).count
    PROVE  UNCHANGED CountedRewards
<1>1. CountedRewards = [a \in {x \in Proposal : StatsOf(x).count > 0} |-> StatsOf(a).count]
  BY CountedForm
<1>2. CountedRewards' = [a \in {x \in Proposal : StatsOf(x)'.count > 0} |-> StatsOf(a)'.count]
  BY CountedFormNext
<1> QED BY <1>1, <1>2

LEMMA RecordStep ==
    ASSUME TypeInv, NEW p \in Proc, InsertInteraction(p), ~UNCHANGED log
    PROVE  Ledger!Record
<1>0. TypeInv'
  BY NextTypeInv DEF Next, QueryStep
<1>1. /\ ~Dedupes(log, NewRow(p))
      /\ log' = Append(log, NewRow(p))
      /\ log'[Len(log')] = NewRow(p)
      /\ Len(log') = Len(log) + 1
  BY DEF InsertInteraction, TypeInv, TypeOK
<1>2. \A i : i \in Ledger!LastOf(log, NewRow(p).caller) <=> IsLast(log, NewRow(p).caller, i)
  BY DEF Ledger!LastOf, IsLast, RowsOf
<1>3. ~Ledger!Repeats(log, NewRow(p))
  BY <1>1, <1>2 DEF Ledger!Repeats, Dedupes, SameSubmit, Ledger!LastOf
<1>4. ~NewRow(p).applied
  BY DEF NewRow
<1>5. UNCHANGED CountedRewards
  BY DEF InsertInteraction, CountedRewards
<1> QED BY <1>1, <1>3, <1>4, <1>5 DEF Ledger!Record

LEMMA SettleStep ==
    ASSUME TypeInv, NEW p \in Proc, ApplyReward(p)
    PROVE  Ledger!Settle
<1>1. PICK i \in Unapplied(p) :
         /\ Latest(Unapplied(p), i)
         /\ log' = [log EXCEPT ![i].applied = TRUE, ![i].reward = work[p].reward]
  BY DEF ApplyReward
<1>2. work[p].reward \in Reward
  BY WorkTyped DEF ApplyReward, WorkAt, RewardSteps
<1>3. /\ i \in 1 .. Len(log) /\ ~log[i].applied
      /\ log[i].arm = work[p].arm /\ log[i].caller.session = work[p].caller.session
  BY DEF Unapplied, MatchOf, Matching
<1>4. \A j \in i + 1 .. Len(log) :
         log[j].arm = log[i].arm /\ log[j].caller.session = log[i].caller.session => log[j].applied
  <2> SUFFICES ASSUME NEW j \in i + 1 .. Len(log), log[j].arm = log[i].arm,
                      log[j].caller.session = log[i].caller.session, ~log[j].applied
               PROVE  FALSE
    OBVIOUS
  <2>1. Len(log) \in Nat
    BY DEF TypeInv, TypeOK
  <2>2. j \in 1 .. Len(log) /\ j > i
    BY <1>3, <2>1
  <2>3. j \in Unapplied(p)
    BY <1>3, <2>2 DEF Unapplied, MatchOf, Matching
  <2> QED BY <1>1, <1>3, <2>1, <2>2, <2>3 DEF Latest
<1>5. UNCHANGED CountedRewards
  BY DEF ApplyReward, CountedRewards
<1> QED BY <1>1, <1>2, <1>3, <1>4, <1>5 DEF Ledger!Settle

\* A reward is counted while its request is between the two statements, so that the
\* accounting leaves room for it.
LEMMA CountStep ==
    ASSUME TypeInv, AccountingInv, NEW p \in Proc, StatsOnReward(p)
    PROVE  Ledger!Count
<1> DEFINE a == work[p].arm
<1>0. TypeInv' /\ a \in Proposal /\ pc[p] = "tally"
  BY NextTypeInv, WorkTyped DEF Next, RewardStep, StatsOnReward, WorkAt, RewardSteps
<1>1. StatsOf(a).count < Cardinality(AppliedRows(a))
  <2>1. StatsOf(a).count + Cardinality(Pending(a)) <= Cardinality(AppliedRows(a))
    BY <1>0 DEF AccountingInv, Balanced, Counted
  <2>2. p \in Pending(a)
    BY <1>0 DEF Pending, PendingAt
  <2>3. Cardinality(Pending(a)) # 0
    BY <1>0, <2>2, CountsAreNat, FS_EmptySet
  <2> QED BY <1>0, <2>1, <2>3, CountsAreNat
<1>2. Ledger!Applied(log, a) = AppliedRows(a)
  BY DEF Ledger!Applied, AppliedRows
<1>3. Ledger!CountOf(a) = StatsOf(a).count
  BY <1>0, CountedCount
<1>4. a \in {log[i].arm : i \in 1 .. Len(log)}
  <2>1. AppliedRows(a) # {}
    BY <1>0, <1>1, CountsAreNat, FS_EmptySet
  <2> QED BY <2>1 DEF AppliedRows
<1>5. \A x \in Proposal : StatsOf(x)'.count = StatsOf(x).count + (IF x = a THEN 1 ELSE 0)
  BY RewardEffect
<1> HIDE DEF a
<1>6. CountedRewards = [x \in {y \in Proposal : StatsOf(y).count > 0} |-> StatsOf(x).count]
  BY CountedForm
<1>7. CountedRewards' = [x \in {y \in Proposal : StatsOf(y)'.count > 0} |-> StatsOf(x)'.count]
  BY <1>0, CountedFormNext
<1>8. \A x \in Proposal : StatsOf(x).count \in Nat
  BY StatsOfType DEF StatsRow
<1>9. {y \in Proposal : StatsOf(y)'.count > 0} = {y \in Proposal : StatsOf(y).count > 0} \cup {a}
  BY <1>0, <1>5, <1>8
<1>10. CountedRewards' = [x \in DOMAIN CountedRewards \cup {a} |->
                             IF x = a THEN Ledger!CountOf(a) + 1 ELSE CountedRewards[x]]
  BY <1>0, <1>3, <1>5, <1>6, <1>7, <1>8, <1>9
<1>11. UNCHANGED log
  BY DEF StatsOnReward
<1>12. Ledger!CountOf(a) < Ledger!Cardinality(Ledger!Applied(log, a))
  BY <1>1, <1>2, <1>3, LedgerCardinality
<1> QED BY <1>4, <1>10, <1>11, <1>12 DEF Ledger!Count

LEMMA LedgerStep ==
    ASSUME TypeInv, AccountingInv, [Next]_vars
    PROVE  [Ledger!LedgerNext]_(Ledger!ledgerState)
<1>0. TypeInv'
  BY NextTypeInv
<1>1. CASE UNCHANGED vars
  BY <1>1 DEF vars, ledgerVars, Ledger!ledgerState, CountedRewards
<1>2. ASSUME NEW p \in Proc, InsertInteraction(p) \/ ApplyReward(p) \/ StatsOnReward(p)
      PROVE  [Ledger!LedgerNext]_(Ledger!ledgerState)
  <2>1. CASE InsertInteraction(p) /\ UNCHANGED log
    BY <2>1 DEF InsertInteraction, Ledger!ledgerState, CountedRewards
  <2> QED BY <1>2, <2>1, RecordStep, SettleStep, CountStep DEF Ledger!LedgerNext
<1>3. ASSUME NEW p \in Proc, StepOf(p),
             \A q \in Proc : ~InsertInteraction(q) /\ ~ApplyReward(q) /\ ~StatsOnReward(q)
      PROVE  UNCHANGED Ledger!ledgerState
  <2>1. UNCHANGED log
    BY <1>3, LogWriters
  <2>2. \A a \in Proposal : StatsOf(a)'.count = StatsOf(a).count
    BY <1>3, CountsKept
  <2> QED BY <1>0, <2>1, <2>2, CountedKept DEF Ledger!ledgerState
<1>4. CASE Next
  BY <1>2, <1>3, <1>4 DEF Next, StepOf
<1> QED BY <1>1, <1>4

\* Retrieval implements the ledger: whatever the processes, their interleavings and their
\* crashes, the log and the counts only ever change as the ledger says, that is, by a row
\* that does not repeat its caller's last one, by a reward on the latest row of a session
\* without one, or by counting a reward that is on a row and not counted yet.
THEOREM RetrievalIsALedger == Spec => LedgerImplemented
<1>1. Init => Ledger!LedgerInit
  <2> SUFFICES ASSUME Init PROVE Ledger!LedgerInit
    OBVIOUS
  <2>1. log = <<>> /\ Len(log) = 0 /\ DOMAIN CountedRewards = {}
    BY DEF Init, CountedRewards
  <2> QED BY <2>1 DEF Ledger!LedgerInit
<1>2. Spec => []AccountingInv
  BY AccountingInvariant
<1> QED BY <1>1, <1>2, LedgerStep, TypeInvariant, PTL DEF Spec, LedgerImplemented, Ledger!LedgerSpec
=============================================================================
