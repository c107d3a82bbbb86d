--------------------------- MODULE RetrievalProofs ---------------------------
(***************************************************************************)
(* Theorems about Retrieval, for any number of processes, prompts,         *)
(* submits and callers and any bounds.                                     *)
(***************************************************************************)
EXTENDS Retrieval, FiniteSetTheorems, TLAPS

-----------------------------------------------------------------------------
(* The strengthening of TypeOK that is inductive: what a process holds at  *)
(* each step, and pools that can be counted.                               *)

WorkAt(step, w) ==
    /\ step \in QuerySteps => w.submit \in Submit /\ w.caller \in Caller
    /\ step \in {"query", "log", "show"} => w.arm \in Proposal
    /\ step \in RewardSteps => w.caller \in Caller /\ w.arm \in Proposal /\ w.reward \in Reward
    /\ step \in {"construct", "initWeights"} =>
          /\ w.caller \in Caller
          /\ \/ w.submit \in Submit
             \/ w.submit = None /\ w.arm \in Proposal /\ w.reward \in Reward

WorkOK == \A p \in Proc : WorkAt(pc[p], work[p])

FinitePools == \A h \in Prompt : IsFiniteSet(candidates[h])

TypeInv == TypeOK /\ WorkOK /\ FinitePools

LEMMA NoWorkType == NoWork \in Work /\ WorkAt("idle", NoWork)
BY DEF NoWork, Work, WorkAt, QuerySteps, RewardSteps

\* A step of process p keeps the types of pc and work when the new values have them.
LEMMA StepType ==
    ASSUME TypeInv, NEW p \in Proc, NEW step \in Steps, NEW w \in Work, WorkAt(step, w),
           pc' = [pc EXCEPT ![p] = step], work' = [work EXCEPT ![p] = w]
    PROVE  pc' \in [Proc -> Steps] /\ work' \in [Proc -> Work] /\ WorkOK'
BY DEF TypeInv, TypeOK, WorkOK

LEMMA FinishType ==
    ASSUME TypeInv, NEW p \in Proc, Finish(p)
    PROVE  pc' \in [Proc -> Steps] /\ work' \in [Proc -> Work] /\ WorkOK'
BY NoWorkType, StepType DEF Finish, Goto, Steps

\* What a step sees of the process it belongs to.
LEMMA WorkTyped ==
    ASSUME TypeInv, NEW p \in Proc
    PROVE  pc[p] \in Steps /\ work[p] \in Work /\ WorkAt(pc[p], work[p])
BY DEF TypeInv, TypeOK, WorkOK

\* A new file has the types, and no process holds anything yet.
THEOREM InitTypeInv == Init => TypeInv
BY NoWorkType, FS_EmptySet, RetrievalAssumption
   DEF Init, TypeInv, TypeOK, WorkOK, FinitePools, RetrievalAssumption, StatsRow, Interaction, Steps

LEMMA BeginType ==
    ASSUME TypeInv, NEW p \in Proc, NEW w \in Work, WorkAt("construct", w), Begin(p, w)
    PROVE  TypeInv'
<1>1. pc' \in [Proc -> Steps] /\ work' \in [Proc -> Work] /\ WorkOK'
  BY StepType, "construct" \in Steps DEF Begin, Goto, Steps
<1>2. ops' \in 0 .. MaxOps /\ reply' \in [Proc -> {"none", "updated", "unchanged"}]
  BY RetrievalAssumption DEF Begin, TypeInv, TypeOK, RetrievalAssumption
<1> QED BY <1>1, <1>2 DEF Begin, TypeInv, TypeOK, FinitePools, poolVars, ledgerVars

LEMMA StartType ==
    ASSUME TypeInv, NEW p \in Proc, StartQuery(p) \/ StartReward(p)
    PROVE  TypeInv'
<1>1. ASSUME NEW s \in Submit, NEW c \in Caller, NEW w, w = [NoWork EXCEPT !.submit = s, !.caller = c]
      PROVE  w \in Work /\ WorkAt("construct", w)
  <2>1. w \in Work
    BY <1>1, NoWorkType DEF Work
  <2>2. w.submit = s /\ w.caller = c
    BY <1>1, NoWorkType DEF Work
  <2> QED BY <2>1, <2>2 DEF WorkAt, QuerySteps, RewardSteps
<1>2. ASSUME NEW i \in 1 .. Len(log), NEW c \in Caller, NEW v \in Reward,
             NEW w, w = [NoWork EXCEPT !.caller = c, !.arm = log[i].arm, !.reward = v]
      PROVE  w \in Work /\ WorkAt("construct", w)
  <2>1. log[i] \in Interaction
    BY DEF TypeInv, TypeOK
  <2>2. log[i].arm \in Proposal
    BY <2>1 DEF Interaction
  <2>3. w \in Work
    BY <1>2, <2>2, NoWorkType DEF Work
  <2>4. w.submit = None /\ w.caller = c /\ w.arm = log[i].arm /\ w.reward = v
    BY <1>2, NoWorkType DEF Work, NoWork
  <2> QED BY <2>2, <2>3, <2>4 DEF WorkAt, QuerySteps, RewardSteps
<1>3. CASE StartQuery(p)
  BY <1>1, <1>3, BeginType DEF StartQuery
<1>4. CASE StartReward(p)
  BY <1>2, <1>4, BeginType DEF StartReward
<1> QED BY <1>3, <1>4

-----------------------------------------------------------------------------
LEMMA ReadType ==
    ASSUME TypeInv, NEW p \in Proc,
           \/ LoadWeights(p) \/ FindPromptCache(p) \/ PromptCacheConflict(p) \/ PruneList(p)
           \/ ScoreCandidates(p) \/ RelistCandidates(p) \/ FinishPrune(p) \/ ListCandidates(p)
           \/ ReadRegen(p) \/ RereadRegen(p) \/ CountExisting(p) \/ ReloadCandidates(p)
           \/ SelectProposal(p) \/ ReadBefore(p) \/ NothingToApply(p) \/ ReadFeatures(p)
    PROVE  TypeInv'
<1> DEFINE w == work[p]  pool == candidates[PromptOf[w.submit]]
<1>0. /\ pc[p] \in Steps /\ w \in Work /\ WorkAt(pc[p], w)
      /\ pc \in [Proc -> Steps] /\ work \in [Proc -> Work]
      /\ bandit # None => bandit \in Seq(Update)
  BY WorkTyped DEF TypeInv, TypeOK
<1>1. pc[p] \in QuerySteps => /\ pool \subseteq Proposal
                             /\ Cardinality(pool) \in Nat
                             /\ regenCount[PromptOf[w.submit]] \in Nat
  BY <1>0, RetrievalAssumption, FS_CardinalityType
     DEF WorkAt, TypeInv, TypeOK, FinitePools, RetrievalAssumption
<1>2. CASE LoadWeights(p)
  <2>1. AfterConstruct(p) \in Steps /\ WorkAt(AfterConstruct(p), w) /\ WorkAt("initWeights", w)
    BY <1>0, <1>2, RetrievalAssumption
       DEF LoadWeights, AfterConstruct, WorkAt, Steps, QuerySteps, RewardSteps, RetrievalAssumption
  <2> DEFINE next == IF bandit # None THEN AfterConstruct(p) ELSE "initWeights"
             v == IF bandit # None THEN [w EXCEPT !.weights = bandit] ELSE w
  <2>2. next \in Steps /\ v \in Work /\ WorkAt(next, v)
    <3>1. v \in Work /\ v.submit = w.submit /\ v.caller = w.caller /\ v.arm = w.arm /\ v.reward = w.reward
      BY <1>0 DEF Work
    <3>2. next \in Steps /\ WorkAt(next, w)
      BY <2>1 DEF Steps
    <3> QED BY <3>1, <3>2 DEF WorkAt
  <2>3. pc' = [pc EXCEPT ![p] = next] /\ work' = [work EXCEPT ![p] = v]
    BY <1>0, <1>2 DEF LoadWeights, Goto
  <2>4. pc' \in [Proc -> Steps] /\ work' \in [Proc -> Work] /\ WorkOK'
    <3> HIDE DEF next, v
    <3> QED BY <2>2, <2>3, StepType
  <2> QED BY <1>2, <2>4 DEF LoadWeights, TypeInv, TypeOK, FinitePools, poolVars, ledgerVars, envVars
<1> USE DEF Goto, PromptOfWork, Steps, QuerySteps, RewardSteps, Work, WorkOK, WorkAt,
            poolVars, ledgerVars, envVars
<1>3. CASE FindPromptCache(p)
  <2>1. pc' \in [Proc -> Steps] /\ work' \in [Proc -> Work]
    BY <1>0, <1>1, <1>3 DEF FindPromptCache
  <2>2. WorkOK'
    BY <1>0, <1>3 DEF FindPromptCache, TypeInv
  <2> QED BY <1>3, <2>1, <2>2 DEF FindPromptCache, TypeInv, TypeOK, FinitePools
<1>4. CASE PruneList(p)
  <2>1. pc' \in [Proc -> Steps] /\ work' \in [Proc -> Work]
    BY <1>0, <1>1, <1>4 DEF PruneList
  <2>2. WorkOK'
    BY <1>0, <1>4 DEF PruneList, TypeInv
  <2> QED BY <1>4, <2>1, <2>2 DEF PruneList, TypeInv, TypeOK, FinitePools
<1>5. CASE RelistCandidates(p)
  <2>1. pc' \in [Proc -> Steps] /\ work' \in [Proc -> Work]
    BY <1>0, <1>1, <1>5 DEF RelistCandidates
  <2>2. WorkOK'
    BY <1>0, <1>5 DEF RelistCandidates, TypeInv
  <2> QED BY <1>5, <2>1, <2>2 DEF RelistCandidates, TypeInv, TypeOK, FinitePools
<1>6. CASE FinishPrune(p)
  <2>1. pc' \in [Proc -> Steps] /\ work' \in [Proc -> Work]
    BY <1>0, <1>1, <1>6 DEF FinishPrune
  <2>2. WorkOK'
    BY <1>0, <1>6 DEF FinishPrune, TypeInv
  <2> QED BY <1>6, <2>1, <2>2 DEF FinishPrune, TypeInv, TypeOK, FinitePools
<1>7. CASE ListCandidates(p)
  <2>0. pc[p] \in QuerySteps /\ MinCandidates \in Nat
    BY <1>7, RetrievalAssumption DEF ListCandidates, RetrievalAssumption
  <2>1. pc' \in [Proc -> Steps] /\ work' \in [Proc -> Work]
    <3>1. (IF Cardinality(pool) < MinCandidates THEN MinCandidates - Cardinality(pool) ELSE 0) \in Nat
      BY <1>1, <2>0
    <3> QED BY <1>0, <1>1, <1>7, <2>0, <3>1 DEF ListCandidates
<2>2. WorkOK'
    BY <1>0, <1>7 DEF ListCandidates, TypeInv, RetrievalAssumption
  <2> QED BY <1>7, <2>1, <2>2 DEF ListCandidates, TypeInv, TypeOK, FinitePools
<1>8. CASE ReadRegen(p)
  <2>1. pc' \in [Proc -> Steps] /\ work' \in [Proc -> Work]
    BY <1>0, <1>1, <1>8 DEF ReadRegen
  <2>2. WorkOK'
    BY <1>0, <1>8 DEF ReadRegen, TypeInv
  <2> QED BY <1>8, <2>1, <2>2 DEF ReadRegen, TypeInv, TypeOK, FinitePools
<1>9. CASE RereadRegen(p)
  <2>1. pc' \in [Proc -> Steps] /\ work' \in [Proc -> Work]
    BY <1>0, <1>1, <1>9 DEF RereadRegen
  <2>2. WorkOK'
    BY <1>0, <1>9 DEF RereadRegen, TypeInv
  <2> QED BY <1>9, <2>1, <2>2 DEF RereadRegen, TypeInv, TypeOK, FinitePools
<1>10. CASE CountExisting(p)
  <2>1. pc' \in [Proc -> Steps] /\ work' \in [Proc -> Work]
    BY <1>0, <1>1, <1>10 DEF CountExisting
  <2>2. WorkOK'
    BY <1>0, <1>10 DEF CountExisting, TypeInv
  <2> QED BY <1>10, <2>1, <2>2 DEF CountExisting, TypeInv, TypeOK, FinitePools
<1>11. CASE ReloadCandidates(p)
  <2>1. pc' \in [Proc -> Steps] /\ work' \in [Proc -> Work]
    BY <1>0, <1>1, <1>11 DEF ReloadCandidates
  <2>2. WorkOK'
    BY <1>0, <1>11 DEF ReloadCandidates, TypeInv
  <2> QED BY <1>11, <2>1, <2>2 DEF ReloadCandidates, TypeInv, TypeOK, FinitePools
<1>12. CASE SelectProposal(p)
  <2>1. pc' \in [Proc -> Steps] /\ work' \in [Proc -> Work]
    <3>1. PICK a \in w.listed : work' = [work EXCEPT ![p].arm = a]
      BY <1>12 DEF SelectProposal
    <3>2. a \in Proposal
      BY <1>0
    <3> QED BY <1>0, <1>12, <3>1, <3>2 DEF SelectProposal
<2>2. WorkOK'
    BY <1>0, <1>12 DEF SelectProposal, TypeInv
  <2> QED BY <1>12, <2>1, <2>2 DEF SelectProposal, TypeInv, TypeOK, FinitePools
<1>13. CASE ReadBefore(p)
  <2>1. pc' \in [Proc -> Steps] /\ work' \in [Proc -> Work]
    <3>1. PICK i \in 1 .. Len(log) : work' = [work EXCEPT ![p].already = log[i].applied]
      BY <1>13 DEF ReadBefore, MatchOf, Matching
    <3>2. log[i] \in Interaction
      BY DEF TypeInv, TypeOK
    <3>3. log[i].applied \in BOOLEAN
      BY <3>2 DEF Interaction
    <3> QED BY <1>0, <1>13, <3>1, <3>3 DEF ReadBefore
<2>2. WorkOK'
    BY <1>0, <1>13 DEF ReadBefore, TypeInv, MatchOf, Matching
  <2> QED BY <1>13, <2>1, <2>2 DEF ReadBefore, TypeInv, TypeOK, FinitePools
<1>14. CASE NothingToApply(p)
  <2>1. pc' \in [Proc -> Steps] /\ work' \in [Proc -> Work]
    BY <1>0, <1>1, <1>14 DEF NothingToApply
  <2>2. WorkOK'
    BY <1>0, <1>14 DEF NothingToApply, TypeInv
  <2> QED BY <1>14, <2>1, <2>2 DEF NothingToApply, TypeInv, TypeOK, FinitePools
<1>15. CASE ReadFeatures(p)
  <2>1. pc' \in [Proc -> Steps] /\ work' \in [Proc -> Work]
    <3>1. PICK i \in 1 .. Len(log) : work' = [work EXCEPT ![p].features = i]
      BY <1>15 DEF ReadFeatures, MatchOf, Matching
    <3>2. i \in Nat
      BY DEF TypeInv, TypeOK
    <3> QED BY <1>0, <1>15, <3>1, <3>2 DEF ReadFeatures
<2>2. WorkOK'
    BY <1>0, <1>15 DEF ReadFeatures, TypeInv, MatchOf, Matching
  <2> QED BY <1>15, <2>1, <2>2 DEF ReadFeatures, TypeInv, TypeOK, FinitePools
<1>16. CASE ScoreCandidates(p)
  <2>0. ASSUME NEW a \in w.listed
        PROVE  [arm |-> a, sum |-> StatsOf(a).sum, count |-> StatsOf(a).count] \in CandidateScore
    BY <1>0 DEF StatsOf, NoStats, StatsRow, CandidateScore, TypeInv, TypeOK
  <2>1. pc' \in [Proc -> Steps] /\ work' \in [Proc -> Work]
    <3> DEFINE scores == {[arm |-> a, sum |-> StatsOf(a).sum, count |-> StatsOf(a).count] :
                             a \in {b \in w.listed : Removable(b)}}
    <3>1. scores \subseteq CandidateScore
      BY <2>0
    <3>2. work' = [work EXCEPT ![p].removable = scores]
      BY <1>16 DEF ScoreCandidates
    <3> HIDE DEF scores
    <3>3. pc' \in [Proc -> Steps]
      BY <1>0, <1>16 DEF ScoreCandidates
    <3>4. work' \in [Proc -> Work]
      BY <1>0, <3>1, <3>2
    <3> QED BY <3>3, <3>4
<2>2. WorkOK'
    BY <1>0, <1>16 DEF ScoreCandidates, TypeInv
  <2> QED BY <1>16, <2>1, <2>2 DEF ScoreCandidates, TypeInv, TypeOK, FinitePools
<1>17. CASE PromptCacheConflict(p)
  BY <1>17, FinishType DEF PromptCacheConflict, TypeInv, TypeOK, FinitePools
<1> QED BY <1>2, <1>3, <1>4, <1>5, <1>6, <1>7, <1>8, <1>9, <1>10, <1>11, <1>12, <1>13, <1>14, <1>15, <1>16, <1>17

-----------------------------------------------------------------------------
(* The steps that write to the store.                                      *)

LEMMA UpsertType ==
    ASSUME TypeInv, NEW a \in Proposal, NEW row \in StatsRow, UpsertStats(a, row)
    PROVE  DOMAIN stats' \subseteq Proposal /\ stats' \in [DOMAIN stats' -> StatsRow]
BY DEF UpsertStats, TypeInv, TypeOK

LEMMA StatsOfType ==
    ASSUME TypeInv, NEW a \in Proposal
    PROVE  StatsOf(a) \in StatsRow
BY DEF TypeInv, TypeOK, StatsOf, NoStats, StatsRow

LEMMA PoolWriteType ==
    ASSUME TypeInv, NEW p \in Proc,
           \/ PersistInitialWeights(p) \/ InsertPromptCache(p) \/ RemoveCandidate(p)
           \/ IncrementRegen(p) \/ SeedCandidates(p) \/ GetOrCreateQueryId(p)
    PROVE  TypeInv'
<1> DEFINE w == work[p]  h == PromptOf[w.submit]
<1>0. /\ pc[p] \in Steps /\ w \in Work /\ WorkAt(pc[p], w)
      /\ pc \in [Proc -> Steps] /\ work \in [Proc -> Work]
  BY WorkTyped DEF TypeInv, TypeOK
<1>1. pc[p] \in QuerySteps => w.submit \in Submit /\ h \in Prompt
  BY <1>0, RetrievalAssumption DEF WorkAt, RetrievalAssumption
<1> USE DEF Goto, PromptOfWork, Steps, QuerySteps, RewardSteps, WorkOK, WorkAt,
            poolVars, ledgerVars, envVars
<1>2. CASE PersistInitialWeights(p)
  <2>1. pc' \in [Proc -> Steps] /\ WorkOK'
    BY <1>0, <1>2, RetrievalAssumption DEF PersistInitialWeights, AfterConstruct, TypeInv, RetrievalAssumption
  <2>2. bandit' \in Seq(Update)
    BY <1>2 DEF PersistInitialWeights
  <2> QED BY <1>2, <2>1, <2>2 DEF PersistInitialWeights, TypeInv, TypeOK, FinitePools
<1>3. CASE InsertPromptCache(p)
  <2>1. pc' \in [Proc -> Steps] /\ WorkOK'
    BY <1>0, <1>3 DEF InsertPromptCache, TypeInv
  <2> QED BY <1>1, <1>3, <2>1 DEF InsertPromptCache, TypeInv, TypeOK, FinitePools
<1>4. CASE RemoveCandidate(p)
  <2>1. PICK worst \in w.removable :
           /\ candidates' = [candidates EXCEPT ![h] = @ \ {worst.arm}]
           /\ work' = [work EXCEPT ![p].removable = @ \ {worst}]
    BY <1>4 DEF RemoveCandidate, FirstOf
  <2>2. work' \in [Proc -> Work]
    BY <1>0, <2>1 DEF Work
  <2>3. pc' \in [Proc -> Steps] /\ WorkOK'
    BY <1>0, <1>4, <2>1 DEF RemoveCandidate, TypeInv, Work
  <2>4. candidates' \in [Prompt -> SUBSET Proposal]
    BY <2>1 DEF TypeInv, TypeOK
  <2>5. FinitePools'
    BY <2>1, FS_Subset DEF TypeInv, TypeOK, FinitePools
  <2> QED BY <1>4, <2>2, <2>3, <2>4, <2>5 DEF RemoveCandidate, TypeInv, TypeOK
<1>5. CASE IncrementRegen(p)
  <2>1. pc' \in [Proc -> Steps] /\ WorkOK'
    BY <1>0, <1>5 DEF IncrementRegen, TypeInv
  <2>2. regenCount' \in [Prompt -> Nat]
    <3>1. regenCount \in [Prompt -> Nat] /\ regenCount' = [regenCount EXCEPT ![h] = @ + 1]
      BY <1>5 DEF IncrementRegen, TypeInv, TypeOK
    <3>2. regenCount[h] + 1 \in Nat
      BY <1>1, <1>5, <3>1 DEF IncrementRegen
    <3> QED BY <3>1, <3>2
  <2> QED BY <1>5, <2>1, <2>2 DEF IncrementRegen, TypeInv, TypeOK, FinitePools
<1>6. CASE SeedCandidates(p)
  <2>1. pc' \in [Proc -> Steps] /\ WorkOK'
    BY <1>0, <1>6 DEF SeedCandidates, TypeInv
  <2>2. w.offset \in Nat /\ w.need \in Nat /\ w.regen \in Nat
    BY <1>0 DEF Work
  <2>3. Generated(p) \subseteq Proposal
    BY <1>1, <1>6, <2>2 DEF SeedCandidates, Generated, Proposal
  <2>4. IsFiniteSet(Generated(p))
    <3> DEFINE I == w.offset .. (w.offset + w.need - 1)
               f == [k \in I |-> [prompt |-> h, regen |-> w.regen, index |-> k]]
    <3>1. w.offset \in Int /\ w.offset + w.need - 1 \in Int
      BY <2>2
    <3>2. IsFiniteSet(I)
      BY <3>1, FS_Interval
    <3>3. f \in [I -> Generated(p)] /\ \A a \in Generated(p) : \E k \in I : f[k] = a
      BY DEF Generated
    <3>4. f \in Surjection(I, Generated(p))
      BY <3>3 DEF Surjection
    <3> QED BY <3>2, <3>4, FS_Surjection
  <2>5. candidates' = [candidates EXCEPT ![h] = @ \cup Generated(p)]
    BY <1>6 DEF SeedCandidates
  <2>6. candidates' \in [Prompt -> SUBSET Proposal] /\ FinitePools'
    BY <2>3, <2>4, <2>5, FS_Union DEF TypeInv, TypeOK, FinitePools
  <2> QED BY <1>6, <2>1, <2>3, <2>6 DEF SeedCandidates, TypeInv, TypeOK
<1>7. CASE GetOrCreateQueryId(p)
  <2>1. pc' \in [Proc -> Steps] /\ WorkOK'
    BY <1>0, <1>7 DEF GetOrCreateQueryId, TypeInv
  <2> QED BY <1>1, <1>7, <2>1 DEF GetOrCreateQueryId, TypeInv, TypeOK, FinitePools
<1> QED BY <1>2, <1>3, <1>4, <1>5, <1>6, <1>7

LEMMA LedgerWriteType ==
    ASSUME TypeInv, NEW p \in Proc,
           \/ InsertInteraction(p) \/ StatsOnShow(p) \/ ApplyReward(p) \/ StatsOnReward(p)
           \/ UpdateWithReward(p) \/ NoMatchingInteraction(p) \/ ReadAfter(p) \/ Crash(p)
    PROVE  TypeInv'
<1> DEFINE w == work[p]
<1>0. /\ pc[p] \in Steps /\ w \in Work /\ WorkAt(pc[p], w)
      /\ pc \in [Proc -> Steps] /\ work \in [Proc -> Work]
  BY WorkTyped DEF TypeInv, TypeOK
<1> USE DEF Goto, Steps, QuerySteps, RewardSteps, WorkOK, WorkAt, poolVars, ledgerVars, envVars
<1>1. CASE InsertInteraction(p)
  <2>1. pc' \in [Proc -> Steps] /\ WorkOK'
    BY <1>0, <1>1 DEF InsertInteraction, TypeInv
  <2>2. NewRow(p) \in Interaction
    BY <1>0, <1>1 DEF InsertInteraction, NewRow, Interaction, Work
  <2>3. log' \in Seq(Interaction)
    BY <1>1, <2>2 DEF InsertInteraction, TypeInv, TypeOK
  <2> QED BY <1>1, <2>1, <2>3 DEF InsertInteraction, TypeInv, TypeOK, FinitePools
<1>2. CASE StatsOnShow(p)
  <2>1. w.arm \in Proposal
    BY <1>0, <1>2 DEF StatsOnShow
  <2>2. [StatsOf(w.arm) EXCEPT !.shown = @ + 1] \in StatsRow
    BY <2>1, StatsOfType DEF StatsRow
  <2>3. DOMAIN stats' \subseteq Proposal /\ stats' \in [DOMAIN stats' -> StatsRow]
    BY <1>2, <2>1, <2>2, UpsertType DEF StatsOnShow
  <2> QED BY <1>2, <2>3, FinishType DEF StatsOnShow, TypeInv, TypeOK, FinitePools
<1>3. CASE ApplyReward(p)
  <2>1. PICK i \in 1 .. Len(log) :
           /\ log' = [log EXCEPT ![i].applied = TRUE, ![i].reward = w.reward]
           /\ work' = [work EXCEPT ![p].row = i]
    BY <1>3 DEF ApplyReward, Unapplied, MatchOf, Matching
  <2>2. i \in Nat /\ log[i] \in Interaction /\ w.reward \in Reward
    BY <1>0, <1>3 DEF TypeInv, TypeOK, ApplyReward
  <2>3. [log[i] EXCEPT !.applied = TRUE, !.reward = w.reward] \in Interaction
    BY <2>2 DEF Interaction
  <2>4. log' \in Seq(Interaction)
    <3>1. log \in Seq(Interaction) /\ i \in DOMAIN log
      BY DEF TypeInv, TypeOK
    <3>2. log' = [log EXCEPT ![i] = [log[i] EXCEPT !.applied = TRUE, !.reward = w.reward]]
      BY <2>1, <3>1
    <3> QED BY <2>3, <3>1, <3>2
  <2>5. work' \in [Proc -> Work]
    BY <1>0, <2>1, <2>2 DEF Work
  <2>6. pc' \in [Proc -> Steps] /\ WorkOK'
    BY <1>0, <1>3, <2>1 DEF ApplyReward, TypeInv, Work
  <2> QED BY <1>3, <2>4, <2>5, <2>6 DEF ApplyReward, TypeInv, TypeOK, FinitePools
<1>4. CASE StatsOnReward(p)
  <2>1. w.arm \in Proposal /\ w.reward \in Nat
    BY <1>0, <1>4, RetrievalAssumption DEF StatsOnReward, RetrievalAssumption
  <2>2. [StatsOf(w.arm) EXCEPT !.sum = @ + w.reward, !.count = @ + 1] \in StatsRow
    <3>1. StatsOf(w.arm) \in StatsRow
      BY <2>1, StatsOfType
    <3>2. StatsOf(w.arm).sum + w.reward \in Nat /\ StatsOf(w.arm).count + 1 \in Nat
      BY <2>1, <3>1 DEF StatsRow
    <3> QED BY <3>1, <3>2 DEF StatsRow
  <2>3. DOMAIN stats' \subseteq Proposal /\ stats' \in [DOMAIN stats' -> StatsRow]
    BY <1>4, <2>1, <2>2, UpsertType DEF StatsOnReward
  <2>4. pc' \in [Proc -> Steps] /\ WorkOK'
    BY <1>0, <1>4 DEF StatsOnReward, TypeInv
  <2> QED BY <1>4, <2>3, <2>4 DEF StatsOnReward, TypeInv, TypeOK, FinitePools
<1>5. CASE UpdateWithReward(p)
  <2>1. w.weights \in Seq(Update) /\ [rewarded |-> w.row, features |-> w.features] \in Update
    BY <1>0 DEF Work, Update
  <2>2. bandit' \in Seq(Update)
    BY <1>5, <2>1 DEF UpdateWithReward
  <2>3. pc' \in [Proc -> Steps] /\ WorkOK'
    BY <1>0, <1>5 DEF UpdateWithReward, TypeInv
  <2> QED BY <1>5, <2>2, <2>3 DEF UpdateWithReward, TypeInv, TypeOK, FinitePools
<1>6. CASE NoMatchingInteraction(p)
  BY <1>6, FinishType DEF NoMatchingInteraction, TypeInv, TypeOK, FinitePools
<1>7. CASE ReadAfter(p)
  <2>1. reply' \in [Proc -> {"none", "updated", "unchanged"}]
    BY <1>7 DEF ReadAfter, TypeInv, TypeOK
  <2> QED BY <1>7, <2>1, FinishType DEF ReadAfter, TypeInv, TypeOK, FinitePools
<1>8. CASE Crash(p)
  <2>1. crashes' \in 0 .. MaxCrashes
    BY <1>8, RetrievalAssumption DEF Crash, TypeInv, TypeOK, RetrievalAssumption
  <2> QED BY <1>8, <2>1, FinishType DEF Crash, TypeInv, TypeOK, FinitePools
<1> QED BY <1>1, <1>2, <1>3, <1>4, <1>5, <1>6, <1>7, <1>8

\* Every step of any process keeps the types.
LEMMA NextTypeInv == TypeInv /\ [Next]_vars => TypeInv'
<1>1. ASSUME TypeInv, UNCHANGED vars
      PROVE  TypeInv'
  BY <1>1 DEF vars, poolVars, ledgerVars, envVars, TypeInv, TypeOK, WorkOK, FinitePools
<1>2. ASSUME TypeInv, NEW p \in Proc, QueryStep(p) \/ RewardStep(p)
      PROVE  TypeInv'
  BY <1>2, ReadType, PoolWriteType, LedgerWriteType DEF QueryStep, RewardStep
<1>3. ASSUME TypeInv, Next
      PROVE  TypeInv'
  BY <1>2, <1>3, StartType, ReadType, PoolWriteType, LedgerWriteType DEF Next
<1> QED BY <1>1, <1>3

\* The values of every variable and of every request stay within their types.
THEOREM TypeInvariant == Spec => []TypeInv
BY InitTypeInv, NextTypeInv, PTL DEF Spec

\* The type invariant of the specification, TypeOK: the store's tables, the log, the
\* statistics and the requests in progress are well formed in every reachable state.
THEOREM TypeCorrect == Spec => []TypeOK
BY TypeInvariant, PTL DEF TypeInv

-----------------------------------------------------------------------------
(* The log: only two statements write it.                                  *)

LEMMA LogWriters ==
    ASSUME [Next]_vars
    PROVE  \/ UNCHANGED log
           \/ \E p \in Proc : InsertInteraction(p) \/ ApplyReward(p)
<1>1. CASE UNCHANGED vars
  BY <1>1 DEF vars, ledgerVars
<1>2. ASSUME NEW p \in Proc,
             StartQuery(p) \/ StartReward(p) \/ LoadWeights(p) \/ PersistInitialWeights(p) \/ Crash(p)
      PROVE  UNCHANGED log
  BY <1>2 DEF StartQuery, StartReward, Begin, LoadWeights, PersistInitialWeights, Crash,
              poolVars, ledgerVars, envVars
<1>3. ASSUME NEW p \in Proc, QueryStep(p)
      PROVE  UNCHANGED log \/ InsertInteraction(p)
  <2>1. CASE \/ FindPromptCache(p) \/ InsertPromptCache(p) \/ PromptCacheConflict(p)
             \/ PruneList(p) \/ ScoreCandidates(p) \/ RemoveCandidate(p)
             \/ RelistCandidates(p) \/ FinishPrune(p) \/ ListCandidates(p)
    BY <2>1 DEF FindPromptCache, InsertPromptCache, PromptCacheConflict, PruneList,
                ScoreCandidates, RemoveCandidate, RelistCandidates, FinishPrune, ListCandidates,
                poolVars, ledgerVars, envVars
  <2>2. CASE \/ ReadRegen(p) \/ IncrementRegen(p) \/ RereadRegen(p)
             \/ CountExisting(p) \/ SeedCandidates(p) \/ ReloadCandidates(p)
             \/ SelectProposal(p) \/ GetOrCreateQueryId(p) \/ StatsOnShow(p)
    BY <2>2 DEF ReadRegen, IncrementRegen, RereadRegen, CountExisting, SeedCandidates,
                ReloadCandidates, SelectProposal, GetOrCreateQueryId, StatsOnShow,
                poolVars, ledgerVars, envVars
  <2> QED BY <1>3, <2>1, <2>2 DEF QueryStep
<1>4. ASSUME NEW p \in Proc, RewardStep(p)
      PROVE  UNCHANGED log \/ ApplyReward(p)
  BY <1>4 DEF RewardStep, ReadBefore, NoMatchingInteraction, NothingToApply, StatsOnReward,
              ReadFeatures, UpdateWithReward, ReadAfter, poolVars, ledgerVars, envVars
<1> QED BY <1>1, <1>2, <1>3, <1>4 DEF Next

\* A request that reaches the log transaction appends a row, or leaves the log alone
\* because the caller's last row already records the same submit.
LEMMA InsertEffect ==
    ASSUME TypeInv, NEW p \in Proc, InsertInteraction(p)
    PROVE  \/ UNCHANGED log
           \/ /\ ~Dedupes(log, NewRow(p))
              /\ Len(log') = Len(log) + 1
              /\ \A i \in 1 .. Len(log) : log'[i] = log[i]
              /\ log'[Len(log) + 1] = NewRow(p)
BY DEF InsertInteraction, TypeInv, TypeOK

\* A reward changes two fields of one row that had none.
LEMMA ApplyEffect ==
    ASSUME TypeInv, NEW p \in Proc, ApplyReward(p)
    PROVE  /\ Len(log') = Len(log)
           /\ \E i \in 1 .. Len(log) :
                 /\ log[i].arm = work[p].arm
                 /\ ~log[i].applied
                 /\ log'[i] = [log[i] EXCEPT !.applied = TRUE, !.reward = work[p].reward]
                 /\ \A j \in 1 .. Len(log) : j # i => log'[j] = log[j]
<1>1. PICK i \in Unapplied(p) :
         log' = [log EXCEPT ![i].applied = TRUE, ![i].reward = work[p].reward]
  BY DEF ApplyReward
<1>2. i \in 1 .. Len(log) /\ log[i].arm = work[p].arm /\ ~log[i].applied
  BY DEF Unapplied, MatchOf, Matching
<1>3. log \in Seq(Interaction) /\ DOMAIN log = 1 .. Len(log) /\ Len(log) \in Nat
  BY DEF TypeInv, TypeOK
<1>4. log' = [log EXCEPT ![i] = [log[i] EXCEPT !.applied = TRUE, !.reward = work[p].reward]]
  BY <1>1
<1>5. DOMAIN log' = DOMAIN log /\ Len(log') = Len(log)
  BY <1>2, <1>3, <1>4
<1> QED BY <1>2, <1>3, <1>4, <1>5

\* What a reward leaves alone in every row.
LEMMA ApplyKeeps ==
    ASSUME TypeInv, NEW p \in Proc, ApplyReward(p), NEW j \in 1 .. Len(log)
    PROVE  /\ log'[j].caller = log[j].caller
           /\ log'[j].submit = log[j].submit
           /\ log'[j].arm = log[j].arm
           /\ log'[j].novel = log[j].novel
<1>1. log[j] \in Interaction
  BY DEF TypeInv, TypeOK
<1>2. PICK i \in 1 .. Len(log) :
         /\ log'[i] = [log[i] EXCEPT !.applied = TRUE, !.reward = work[p].reward]
         /\ \A k \in 1 .. Len(log) : k # i => log'[k] = log[k]
  BY ApplyEffect
<1>3. CASE j = i
  <2>1. log'[j] = [log[j] EXCEPT !.applied = TRUE, !.reward = work[p].reward]
    BY <1>2, <1>3
  <2> QED BY <1>1, <2>1 DEF Interaction
<1>4. CASE j # i
  <2>1. log'[j] = log[j]
    BY <1>2, <1>4
  <2> QED BY <2>1
<1> QED BY <1>3, <1>4

-----------------------------------------------------------------------------
(* NoConsecutiveDuplicates is inductive over the log alone.                *)

LEMMA NextNoConsecutiveDuplicates ==
    ASSUME TypeInv, NoConsecutiveDuplicates, [Next]_vars
    PROVE  NoConsecutiveDuplicates'
<1>0. Len(log) \in Nat
  BY DEF TypeInv, TypeOK
<1>1. CASE UNCHANGED log
  BY <1>1 DEF NoConsecutiveDuplicates, Consecutive
<1>2. ASSUME NEW p \in Proc, ApplyReward(p)
      PROVE  NoConsecutiveDuplicates'
  <2>1. Len(log') = Len(log)
    BY <1>2, ApplyEffect
  <2>2. \A j \in 1 .. Len(log) : /\ log'[j].caller = log[j].caller
                                 /\ log'[j].submit = log[j].submit
                                 /\ log'[j].arm = log[j].arm
    BY <1>2, ApplyKeeps
  <2> QED BY <2>1, <2>2 DEF NoConsecutiveDuplicates, Consecutive, SameSubmit
<1>3. ASSUME NEW p \in Proc, InsertInteraction(p), ~UNCHANGED log
      PROVE  NoConsecutiveDuplicates'
  <2>1. /\ ~Dedupes(log, NewRow(p))
        /\ Len(log') = Len(log) + 1
        /\ \A i \in 1 .. Len(log) : log'[i] = log[i]
        /\ log'[Len(log) + 1] = NewRow(p)
    BY <1>3, InsertEffect
  <2> SUFFICES ASSUME NEW i \in 1 .. Len(log'), NEW j \in 1 .. Len(log'), Consecutive(log', i, j)
               PROVE  ~SameSubmit(log'[i], log'[j])
    BY DEF NoConsecutiveDuplicates
  <2>2. i \in 1 .. Len(log) /\ i < j
    BY <1>0, <2>1 DEF Consecutive
  <2>3. CASE j \in 1 .. Len(log)
    <3>1. Consecutive(log, i, j)
      BY <1>0, <2>1, <2>2, <2>3 DEF Consecutive
    <3> QED BY <2>1, <2>2, <2>3, <3>1 DEF NoConsecutiveDuplicates
  <2>4. CASE j = Len(log) + 1
    <3>1. log[i].caller = NewRow(p).caller
      BY <2>1, <2>2, <2>4 DEF Consecutive
    <3>2. \A k \in 1 .. Len(log) : log[k].caller = log[i].caller => k <= i
      BY <1>0, <2>1, <2>2, <2>4 DEF Consecutive
    <3>3. IsLast(log, NewRow(p).caller, i)
      BY <2>2, <3>1, <3>2 DEF IsLast, RowsOf
    <3> QED BY <2>1, <2>2, <2>4, <3>3 DEF Dedupes
  <2> QED BY <1>0, <2>1, <2>3, <2>4
<1> QED BY <1>1, <1>2, <1>3, LogWriters

\* However many processes log for a player's session, two consecutive rows of it never
\* record the same submit with the same proposal: the comparison with the last row and
\* the INSERT of insert_interaction_log are one transaction.
THEOREM DeduplicationCorrect == Spec => []NoConsecutiveDuplicates
<1>1. Init => NoConsecutiveDuplicates
  BY DEF Init, NoConsecutiveDuplicates
<1>2. TypeInv /\ NoConsecutiveDuplicates /\ [Next]_vars => NoConsecutiveDuplicates'
  BY NextNoConsecutiveDuplicates
<1> QED BY <1>1, <1>2, TypeInvariant, PTL DEF Spec

-----------------------------------------------------------------------------
(* NoveltyOnce needs to know who may still write a novel row: a process    *)
(* that created the cache row of its prompt and has not logged yet.        *)

ClaimSteps == QuerySteps \ {"find", "cache", "show"}
Claims(p) == pc[p] \in ClaimSteps /\ work[p].novel

NoveltyInv ==
    /\ \A i \in 1 .. Len(log) : log[i].novel => PromptOf[log[i].submit] \in promptCache
    /\ \A p \in Proc : Claims(p) =>
          /\ PromptOfWork(p) \in promptCache
          /\ \A i \in 1 .. Len(log) : log[i].novel => PromptOf[log[i].submit] # PromptOfWork(p)
    /\ \A p, q \in Proc :
          Claims(p) /\ Claims(q) /\ PromptOfWork(p) = PromptOfWork(q) => p = q
    /\ NoveltyOnce

\* Only InsertPromptCache makes a claim; every other step keeps or drops them.
LEMMA ClaimsKept ==
    ASSUME TypeInv, NEW p \in Proc,
           StartQuery(p) \/ StartReward(p) \/ LoadWeights(p) \/ PersistInitialWeights(p)
           \/ QueryStep(p) \/ RewardStep(p) \/ Crash(p),
           ~InsertPromptCache(p)
    PROVE  /\ promptCache' = promptCache
           /\ \A q \in Proc : Claims(q)' => Claims(q) /\ work'[q].submit = work[q].submit
<1>0. pc \in [Proc -> Steps] /\ work \in [Proc -> Work]
  BY DEF TypeInv, TypeOK
<1> USE DEF Claims, ClaimSteps, QuerySteps, poolVars, ledgerVars, envVars, Goto, Work
<1>1. CASE StartQuery(p) \/ StartReward(p)
  BY <1>0, <1>1 DEF StartQuery, StartReward, Begin
<1>2. CASE LoadWeights(p)
  <2>1. promptCache' = promptCache /\ pc'[p] \notin ClaimSteps
    BY <1>0, <1>2 DEF LoadWeights, AfterConstruct
  <2>2. \A q \in Proc : q # p => pc'[q] = pc[q] /\ work'[q] = work[q]
    BY <1>0, <1>2 DEF LoadWeights
  <2> QED BY <2>1, <2>2
<1>3. CASE PersistInitialWeights(p)
  BY <1>0, <1>3 DEF PersistInitialWeights, AfterConstruct
<1>4. CASE FindPromptCache(p)
  <2>1. /\ pc' = [pc EXCEPT ![p] = IF PromptOfWork(p) \in promptCache THEN "prune" ELSE "cache"]
        /\ work' = [work EXCEPT ![p].novel = PromptOfWork(p) \notin promptCache]
        /\ promptCache' = promptCache
    BY <1>4 DEF FindPromptCache
  <2>2. ~Claims(p)'
    <3>1. CASE PromptOfWork(p) \in promptCache
      BY <1>0, <2>1, <3>1
    <3>2. CASE PromptOfWork(p) \notin promptCache
      BY <1>0, <2>1, <3>2
    <3> QED BY <3>1, <3>2
  <2>3. \A q \in Proc : q # p => pc'[q] = pc[q] /\ work'[q] = work[q]
    BY <1>0, <2>1
  <2> QED BY <2>1, <2>2, <2>3
<1>5. CASE PromptCacheConflict(p)
  BY <1>0, <1>5 DEF PromptCacheConflict, Finish, NoWork
<1>6. CASE PruneList(p)
  BY <1>0, <1>6 DEF PruneList
<1>7. CASE ScoreCandidates(p)
  BY <1>0, <1>7 DEF ScoreCandidates
<1>8. CASE RemoveCandidate(p)
  BY <1>0, <1>8 DEF RemoveCandidate
<1>9. CASE RelistCandidates(p)
  BY <1>0, <1>9 DEF RelistCandidates
<1>10. CASE FinishPrune(p)
  BY <1>0, <1>10 DEF FinishPrune
<1>11. CASE ListCandidates(p)
  BY <1>0, <1>11 DEF ListCandidates
<1>12. CASE ReadRegen(p)
  BY <1>0, <1>12 DEF ReadRegen
<1>13. CASE IncrementRegen(p)
  BY <1>0, <1>13 DEF IncrementRegen
<1>14. CASE RereadRegen(p)
  BY <1>0, <1>14 DEF RereadRegen
<1>15. CASE CountExisting(p)
  BY <1>0, <1>15 DEF CountExisting
<1>16. CASE SeedCandidates(p)
  BY <1>0, <1>16 DEF SeedCandidates
<1>17. CASE ReloadCandidates(p)
  BY <1>0, <1>17 DEF ReloadCandidates
<1>18. CASE SelectProposal(p)
  BY <1>0, <1>18 DEF SelectProposal
<1>19. CASE GetOrCreateQueryId(p)
  BY <1>0, <1>19 DEF GetOrCreateQueryId
<1>20. CASE InsertInteraction(p)
  BY <1>0, <1>20 DEF InsertInteraction
<1>21. CASE StatsOnShow(p)
  BY <1>0, <1>21 DEF StatsOnShow, Finish, NoWork
<1>22. CASE ReadBefore(p)
  BY <1>0, <1>22 DEF ReadBefore
<1>23. CASE NoMatchingInteraction(p)
  BY <1>0, <1>23 DEF NoMatchingInteraction, Finish, NoWork
<1>24. CASE ApplyReward(p)
  BY <1>0, <1>24 DEF ApplyReward
<1>25. CASE NothingToApply(p)
  BY <1>0, <1>25 DEF NothingToApply
<1>26. CASE StatsOnReward(p)
  BY <1>0, <1>26 DEF StatsOnReward
<1>27. CASE ReadFeatures(p)
  BY <1>0, <1>27 DEF ReadFeatures
<1>28. CASE UpdateWithReward(p)
  BY <1>0, <1>28 DEF UpdateWithReward
<1>29. CASE ReadAfter(p)
  BY <1>0, <1>29 DEF ReadAfter, Finish, NoWork
<1>30. CASE Crash(p)
  BY <1>0, <1>30 DEF Crash, Finish, NoWork
<1> QED BY <1>1, <1>2, <1>3, <1>4, <1>5, <1>6, <1>7, <1>8, <1>9, <1>10, <1>11, <1>12, <1>13, <1>14, <1>15, <1>16, <1>17, <1>18, <1>19, <1>20, <1>21, <1>22, <1>23, <1>24, <1>25, <1>26, <1>27, <1>28, <1>29, <1>30 DEF QueryStep, RewardStep

LEMMA NextNoveltyInv ==
    ASSUME TypeInv, NoveltyInv, [Next]_vars
    PROVE  NoveltyInv'
<1>0. /\ Len(log) \in Nat
      /\ pc \in [Proc -> Steps] /\ work \in [Proc -> Work]
  BY DEF TypeInv, TypeOK
<1>1. CASE UNCHANGED vars
  BY <1>1 DEF vars, poolVars, ledgerVars, NoveltyInv, NoveltyOnce, Claims, PromptOfWork
<1>2. ASSUME NEW p \in Proc, InsertPromptCache(p)
      PROVE  NoveltyInv'
  <2>1. /\ PromptOfWork(p) \notin promptCache
        /\ promptCache' = promptCache \cup {PromptOfWork(p)}
        /\ UNCHANGED <<log, work>>
        /\ pc' = [pc EXCEPT ![p] = "prune"]
    BY <1>2 DEF InsertPromptCache, Goto, ledgerVars
  <2>2. \A i \in 1 .. Len(log) : log[i].novel => PromptOf[log[i].submit] # PromptOfWork(p)
    BY <2>1 DEF NoveltyInv
  <2>3. \A q \in Proc : Claims(q)' /\ q # p => Claims(q)
    BY <1>0, <2>1 DEF Claims
  <2>4. \A q \in Proc : Claims(q) => PromptOfWork(q) # PromptOfWork(p)
    BY <2>1 DEF NoveltyInv
  <2>5. \A q \in Proc : PromptOfWork(q)' = PromptOfWork(q)
    BY <2>1 DEF PromptOfWork
  <2> QED BY <2>1, <2>2, <2>3, <2>4, <2>5 DEF NoveltyInv, NoveltyOnce
<1>3. ASSUME promptCache' = promptCache,
             \A q \in Proc : Claims(q)' => Claims(q) /\ work'[q].submit = work[q].submit,
             UNCHANGED log
      PROVE  NoveltyInv'
  BY <1>3 DEF NoveltyInv, NoveltyOnce, PromptOfWork
<1>4. ASSUME NEW p \in Proc, ApplyReward(p)
      PROVE  NoveltyInv'
  <2>1. /\ promptCache' = promptCache
        /\ \A q \in Proc : Claims(q)' => Claims(q) /\ work'[q].submit = work[q].submit
    BY <1>4, ClaimsKept DEF RewardStep, InsertPromptCache, ApplyReward
  <2>2. /\ Len(log') = Len(log)
        /\ \A j \in 1 .. Len(log) : log'[j].submit = log[j].submit /\ log'[j].novel = log[j].novel
    BY <1>4, ApplyEffect, ApplyKeeps
  <2> QED BY <2>1, <2>2 DEF NoveltyInv, NoveltyOnce, PromptOfWork
<1>5. ASSUME NEW p \in Proc, InsertInteraction(p), ~UNCHANGED log
      PROVE  NoveltyInv'
  <2>1. /\ promptCache' = promptCache
        /\ \A q \in Proc : Claims(q)' => Claims(q) /\ work'[q].submit = work[q].submit
    BY <1>5, ClaimsKept DEF QueryStep, InsertPromptCache, InsertInteraction
  <2>2. /\ Len(log') = Len(log) + 1
        /\ \A i \in 1 .. Len(log) : log'[i] = log[i]
        /\ log'[Len(log) + 1].novel = work[p].novel
        /\ log'[Len(log) + 1].submit = work[p].submit
    <3>1. /\ Len(log') = Len(log) + 1
          /\ \A i \in 1 .. Len(log) : log'[i] = log[i]
          /\ log'[Len(log) + 1] = NewRow(p)
      BY <1>5, InsertEffect
    <3> QED BY <3>1 DEF NewRow
  <2>3. ~Claims(p)' /\ (work[p].novel => Claims(p))
    BY <1>0, <1>5 DEF InsertInteraction, Goto, Claims, ClaimSteps, QuerySteps
  <2>4. \A q \in Proc : Claims(q)' => q # p
    BY <2>3
  <2>5. 1 .. Len(log') = (1 .. Len(log)) \cup {Len(log) + 1}
    BY <1>0, <2>2
  <2> DEFINE n == Len(log) + 1
  <2>6. \A i \in 1 .. Len(log') : log'[i].novel => PromptOf[log'[i].submit] \in promptCache'
    BY <2>1, <2>2, <2>3, <2>5 DEF NoveltyInv, PromptOfWork
  <2>7. \A q \in Proc : Claims(q)' =>
          /\ PromptOfWork(q)' \in promptCache'
          /\ \A i \in 1 .. Len(log') : log'[i].novel => PromptOf[log'[i].submit] # PromptOfWork(q)'
    <3> SUFFICES ASSUME NEW q \in Proc, Claims(q)'
                 PROVE  /\ PromptOfWork(q)' \in promptCache'
                        /\ \A i \in 1 .. Len(log') :
                              log'[i].novel => PromptOf[log'[i].submit] # PromptOfWork(q)'
      OBVIOUS
    <3>1. Claims(q) /\ PromptOfWork(q)' = PromptOfWork(q) /\ q # p
      BY <2>1, <2>4 DEF PromptOfWork
    <3>2. work[p].novel => PromptOfWork(q) # PromptOfWork(p)
      BY <2>3, <3>1 DEF NoveltyInv
    <3> QED BY <2>1, <2>2, <2>5, <3>1, <3>2 DEF NoveltyInv, PromptOfWork
  <2>8. \A q, r \in Proc :
          Claims(q)' /\ Claims(r)' /\ PromptOfWork(q)' = PromptOfWork(r)' => q = r
    BY <2>1 DEF NoveltyInv, PromptOfWork
  <2>9. \A i \in 1 .. Len(log) : log'[i].novel /\ work[p].novel =>
           PromptOf[log'[i].submit] # PromptOf[work[p].submit]
    BY <2>2, <2>3 DEF NoveltyInv, PromptOfWork
  <2>10. NoveltyOnce'
    BY <2>2, <2>5, <2>9 DEF NoveltyInv, NoveltyOnce
  <2> QED BY <2>6, <2>7, <2>8, <2>10 DEF NoveltyInv
<1>6. ASSUME NEW p \in Proc,
             StartQuery(p) \/ StartReward(p) \/ LoadWeights(p) \/ PersistInitialWeights(p)
             \/ QueryStep(p) \/ RewardStep(p) \/ Crash(p)
      PROVE  NoveltyInv'
  <2>1. [Next]_vars
    OBVIOUS
  <2>2. CASE InsertPromptCache(p)
    BY <1>2, <2>2
  <2>3. CASE ~InsertPromptCache(p) /\ UNCHANGED log
    BY <1>3, <1>6, <2>3, ClaimsKept
  <2>4. CASE ~UNCHANGED log
    BY <1>4, <1>5, <2>1, <2>4, LogWriters
  <2> QED BY <2>2, <2>3, <2>4
<1> QED BY <1>1, <1>6 DEF Next

\* novelty_flag is exact: of all the requests that race on a new prompt, one creates the
\* cache row, and only that one can ever write a log row with the flag set.
THEOREM NoveltyIsUnique == Spec => []NoveltyOnce
<1>1. Init => NoveltyInv
  BY DEF Init, NoveltyInv, NoveltyOnce, Claims, ClaimSteps, QuerySteps
<1>2. TypeInv /\ NoveltyInv /\ [Next]_vars => NoveltyInv'
  BY NextNoveltyInv
<1>3. NoveltyInv => NoveltyOnce
  BY DEF NoveltyInv
<1> QED BY <1>1, <1>2, <1>3, TypeInvariant, PTL DEF Spec

-----------------------------------------------------------------------------
(* Pools hold registered proposals of their own prompt.                    *)

\* The seeding transaction registers what it puts into a pool, and nothing is ever taken
\* out of proposal_registry: the foreign key of prompt_candidates holds for any number of
\* processes that seed and prune the same pool.
THEOREM PoolsAreRegistered == Spec => []CandidatesRegistered
<1>1. Init => CandidatesRegistered
  BY DEF Init, CandidatesRegistered
<1>2. TypeInv /\ CandidatesRegistered /\ [Next]_vars => CandidatesRegistered'
  <2> SUFFICES ASSUME TypeInv, CandidatesRegistered, [Next]_vars
               PROVE  CandidatesRegistered'
    OBVIOUS
  <2>0. candidates \in [Prompt -> SUBSET Proposal]
    BY DEF TypeInv, TypeOK
  <2>1. CASE UNCHANGED <<candidates, registry>>
    BY <2>1 DEF CandidatesRegistered
  <2>2. ASSUME NEW p \in Proc, RemoveCandidate(p)
        PROVE  CandidatesRegistered'
    <3>1. /\ registry' = registry
          /\ \A h \in Prompt : candidates'[h] \subseteq candidates[h]
      BY <2>0, <2>2 DEF RemoveCandidate
    <3> QED BY <3>1 DEF CandidatesRegistered
  <2>3. ASSUME NEW p \in Proc, SeedCandidates(p)
        PROVE  CandidatesRegistered'
    <3>1. /\ registry' = registry \cup Generated(p)
          /\ candidates' = [candidates EXCEPT ![PromptOfWork(p)] = @ \cup Generated(p)]
      BY <2>3 DEF SeedCandidates
    <3>2. \A a \in Generated(p) : a.prompt = PromptOfWork(p)
      BY DEF Generated
    <3> QED BY <2>0, <3>1, <3>2 DEF CandidatesRegistered
  <2>4. ASSUME NEW p \in Proc, QueryStep(p)
        PROVE  UNCHANGED <<candidates, registry>> \/ RemoveCandidate(p) \/ SeedCandidates(p)
    BY <2>4
       DEF QueryStep, FindPromptCache, InsertPromptCache, PromptCacheConflict, PruneList,
           ScoreCandidates, RelistCandidates, FinishPrune, ListCandidates, ReadRegen,
           IncrementRegen, RereadRegen, CountExisting, ReloadCandidates, SelectProposal,
           GetOrCreateQueryId, InsertInteraction, StatsOnShow, poolVars
  <2>5. ASSUME NEW p \in Proc,
               StartQuery(p) \/ StartReward(p) \/ LoadWeights(p) \/ PersistInitialWeights(p)
               \/ RewardStep(p) \/ Crash(p)
        PROVE  UNCHANGED <<candidates, registry>>
    BY <2>5
       DEF StartQuery, StartReward, Begin, LoadWeights, PersistInitialWeights, RewardStep,
           ReadBefore, NoMatchingInteraction, ApplyReward, NothingToApply, StatsOnReward,
           ReadFeatures, UpdateWithReward, ReadAfter, Crash, poolVars
  <2>6. UNCHANGED vars => UNCHANGED <<candidates, registry>>
    BY DEF vars, poolVars
  <2> QED BY <2>1, <2>2, <2>3, <2>4, <2>5, <2>6 DEF Next
<1> QED BY <1>1, <1>2, TypeInvariant, PTL DEF Spec

-----------------------------------------------------------------------------
(* RewardAccounting, for every proposal and not only those of the log, is  *)
(* inductive: ApplyReward, StatsOnReward and Crash move one unit between   *)
(* its terms, and no other step touches any of them.                       *)

Pending(a) == PendingAt("tally", a)

Counted(a) == StatsOf(a).count + Cardinality(Pending(a))

Balanced(a) ==
    /\ Counted(a) <= Cardinality(AppliedRows(a))
    /\ Cardinality(AppliedRows(a)) <= Counted(a) + crashes

AccountingInv == \A a \in Proposal : Balanced(a)

LEMMA CountsAreNat ==
    ASSUME TypeInv, NEW a \in Proposal
    PROVE  /\ StatsOf(a).count \in Nat
           /\ IsFiniteSet(Pending(a)) /\ Cardinality(Pending(a)) \in Nat
           /\ IsFiniteSet(AppliedRows(a)) /\ Cardinality(AppliedRows(a)) \in Nat
           /\ crashes \in Nat
<1>1. IsFiniteSet(Pending(a))
  BY FS_Subset, RetrievalAssumption DEF Pending, PendingAt, RetrievalAssumption
<1>2. Len(log) \in Nat /\ crashes \in Nat
  BY RetrievalAssumption DEF TypeInv, TypeOK, RetrievalAssumption
<1>3. IsFiniteSet(1 .. Len(log))
  BY <1>2, FS_Interval
<1>4. IsFiniteSet(AppliedRows(a))
  BY <1>3, FS_Subset DEF AppliedRows
<1>5. StatsOf(a).count \in Nat
  BY StatsOfType DEF StatsRow
<1> QED BY <1>1, <1>2, <1>4, <1>5, FS_CardinalityType

\* A step that keeps the counts, the applied rows and the requests between the two
\* statements keeps the accounting.
LEMMA AccountingKept ==
    ASSUME AccountingInv, crashes' = crashes,
           \A a \in Proposal : /\ StatsOf(a)'.count = StatsOf(a).count
                               /\ Pending(a)' = Pending(a)
                               /\ AppliedRows(a)' = AppliedRows(a)
    PROVE  AccountingInv'
BY DEF AccountingInv, Balanced, Counted

\* Who is between ApplyReward and StatsOnReward changes only by these and by Crash.
LEMMA PendingKept ==
    ASSUME TypeInv, NEW p \in Proc, NEW a \in Proposal,
           StartQuery(p) \/ StartReward(p) \/ LoadWeights(p) \/ PersistInitialWeights(p)
           \/ QueryStep(p) \/ RewardStep(p),
           ~ApplyReward(p), ~StatsOnReward(p)
    PROVE  Pending(a)' = Pending(a)
<1>0. pc \in [Proc -> Steps] /\ work \in [Proc -> Work]
  BY DEF TypeInv, TypeOK
<1>1. ASSUME pc[p] # "tally", pc'[p] # "tally",
             \A q \in Proc : q # p => pc'[q] = pc[q] /\ work'[q] = work[q]
      PROVE  Pending(a)' = Pending(a)
  BY <1>1 DEF Pending, PendingAt
<1>2. /\ pc[p] # "tally" /\ pc'[p] # "tally"
      /\ \A q \in Proc : q # p => pc'[q] = pc[q] /\ work'[q] = work[q]
  <2> USE DEF Goto
  <2>1. CASE StartQuery(p) \/ StartReward(p)
    BY <1>0, <2>1 DEF StartQuery, StartReward, Begin
  <2>2. CASE LoadWeights(p)
    BY <1>0, <2>2 DEF LoadWeights, AfterConstruct
  <2>3. CASE PersistInitialWeights(p)
    BY <1>0, <2>3 DEF PersistInitialWeights, AfterConstruct
  <2>4. CASE FindPromptCache(p)
    BY <1>0, <2>4 DEF FindPromptCache
  <2>5. CASE InsertPromptCache(p)
    BY <1>0, <2>5 DEF InsertPromptCache
  <2>6. CASE PromptCacheConflict(p)
    BY <1>0, <2>6 DEF PromptCacheConflict, Finish
  <2>7. CASE PruneList(p)
    BY <1>0, <2>7 DEF PruneList
  <2>8. CASE ScoreCandidates(p)
    BY <1>0, <2>8 DEF ScoreCandidates
  <2>9. CASE RemoveCandidate(p)
    BY <1>0, <2>9 DEF RemoveCandidate
  <2>10. CASE RelistCandidates(p)
    BY <1>0, <2>10 DEF RelistCandidates
  <2>11. CASE FinishPrune(p)
    BY <1>0, <2>11 DEF FinishPrune
  <2>12. CASE ListCandidates(p)
    BY <1>0, <2>12 DEF ListCandidates
  <2>13. CASE ReadRegen(p)
    BY <1>0, <2>13 DEF ReadRegen
  <2>14. CASE IncrementRegen(p)
    BY <1>0, <2>14 DEF IncrementRegen
  <2>15. CASE RereadRegen(p)
    BY <1>0, <2>15 DEF RereadRegen
  <2>16. CASE CountExisting(p)
    BY <1>0, <2>16 DEF CountExisting
  <2>17. CASE SeedCandidates(p)
    BY <1>0, <2>17 DEF SeedCandidates
  <2>18. CASE ReloadCandidates(p)
    BY <1>0, <2>18 DEF ReloadCandidates
  <2>19. CASE SelectProposal(p)
    BY <1>0, <2>19 DEF SelectProposal
  <2>20. CASE GetOrCreateQueryId(p)
    BY <1>0, <2>20 DEF GetOrCreateQueryId
  <2>21. CASE InsertInteraction(p)
    BY <1>0, <2>21 DEF InsertInteraction
  <2>22. CASE StatsOnShow(p)
    BY <1>0, <2>22 DEF StatsOnShow, Finish
  <2>23. CASE ReadBefore(p)
    BY <1>0, <2>23 DEF ReadBefore
  <2>24. CASE NoMatchingInteraction(p)
    BY <1>0, <2>24 DEF NoMatchingInteraction, Finish
  <2>25. CASE NothingToApply(p)
    BY <1>0, <2>25 DEF NothingToApply
  <2>26. CASE ReadFeatures(p)
    BY <1>0, <2>26 DEF ReadFeatures
  <2>27. CASE UpdateWithReward(p)
    BY <1>0, <2>27 DEF UpdateWithReward
  <2>28. CASE ReadAfter(p)
    BY <1>0, <2>28 DEF ReadAfter, Finish
  <2> QED BY <2>1, <2>2, <2>3, <2>4, <2>5, <2>6, <2>7, <2>8, <2>9, <2>10, <2>11, <2>12, <2>13, <2>14, <2>15, <2>16, <2>17, <2>18, <2>19, <2>20, <2>21, <2>22, <2>23, <2>24, <2>25, <2>26, <2>27, <2>28 DEF QueryStep, RewardStep
<1> QED BY <1>1, <1>2

LEMMA AppliedRowsKept ==
    ASSUME TypeInv, [Next]_vars, NEW a \in Proposal, \A p \in Proc : ~ApplyReward(p)
    PROVE  AppliedRows(a)' = AppliedRows(a)
<1>0. Len(log) \in Nat
  BY DEF TypeInv, TypeOK
<1>1. CASE UNCHANGED log
  BY <1>1 DEF AppliedRows
<1>2. ASSUME NEW p \in Proc, InsertInteraction(p), ~UNCHANGED log
      PROVE  AppliedRows(a)' = AppliedRows(a)
  <2>1. /\ Len(log') = Len(log) + 1
        /\ \A i \in 1 .. Len(log) : log'[i] = log[i]
        /\ log'[Len(log) + 1] = NewRow(p)
    BY <1>2, InsertEffect
  <2>2. ~log'[Len(log) + 1].applied
    BY <2>1 DEF NewRow
  <2>3. 1 .. Len(log') = (1 .. Len(log)) \cup {Len(log) + 1}
    BY <1>0, <2>1
  <2> QED BY <2>1, <2>2, <2>3 DEF AppliedRows
<1> QED BY <1>1, <1>2, LogWriters

\* reward_count is written by StatsOnReward only; StatsOnShow keeps it.
LEMMA CountsKept ==
    ASSUME TypeInv, [Next]_vars, NEW a \in Proposal, \A p \in Proc : ~StatsOnReward(p)
    PROVE  StatsOf(a)'.count = StatsOf(a).count
<1>1. ASSUME NEW p \in Proc, StatsOnShow(p)
      PROVE  StatsOf(a)'.count = StatsOf(a).count
  <2> DEFINE b == work[p].arm  row == [StatsOf(b) EXCEPT !.shown = @ + 1]
  <2>1. b \in Proposal
    BY <1>1, WorkTyped DEF StatsOnShow, WorkAt
  <2>2. row.count = StatsOf(b).count
    BY <2>1, StatsOfType DEF StatsRow
  <2>3. StatsOf(a)' = IF a = b THEN row ELSE StatsOf(a)
    <3> HIDE DEF row
    <3>1. UpsertStats(b, row)
      BY <1>1 DEF StatsOnShow, row
    <3> QED BY <3>1 DEF UpsertStats, StatsOf
  <2> HIDE DEF row
  <2> QED BY <2>2, <2>3
<1>2. \/ UNCHANGED stats
      \/ \E p \in Proc : StatsOnShow(p)
  <2>1. CASE UNCHANGED vars
    BY <2>1 DEF vars, ledgerVars
  <2>2. ASSUME NEW p \in Proc,
               StartQuery(p) \/ StartReward(p) \/ LoadWeights(p) \/ PersistInitialWeights(p) \/ Crash(p)
        PROVE  UNCHANGED stats
    BY <2>2 DEF StartQuery, StartReward, Begin, LoadWeights, PersistInitialWeights, Crash,
                poolVars, ledgerVars, envVars
  <2>3. ASSUME NEW p \in Proc, QueryStep(p)
        PROVE  UNCHANGED stats \/ StatsOnShow(p)
    <3>1. CASE \/ FindPromptCache(p) \/ InsertPromptCache(p) \/ PromptCacheConflict(p)
               \/ PruneList(p) \/ ScoreCandidates(p) \/ RemoveCandidate(p)
               \/ RelistCandidates(p) \/ FinishPrune(p) \/ ListCandidates(p)
      BY <3>1 DEF FindPromptCache, InsertPromptCache, PromptCacheConflict, PruneList,
                  ScoreCandidates, RemoveCandidate, RelistCandidates, FinishPrune, ListCandidates,
                  poolVars, ledgerVars, envVars
    <3>2. CASE \/ ReadRegen(p) \/ IncrementRegen(p) \/ RereadRegen(p)
               \/ CountExisting(p) \/ SeedCandidates(p) \/ ReloadCandidates(p)
               \/ SelectProposal(p) \/ GetOrCreateQueryId(p) \/ InsertInteraction(p)
      BY <3>2 DEF ReadRegen, IncrementRegen, RereadRegen, CountExisting, SeedCandidates,
                  ReloadCandidates, SelectProposal, GetOrCreateQueryId, InsertInteraction,
                  poolVars, ledgerVars, envVars
    <3> QED BY <2>3, <3>1, <3>2 DEF QueryStep
  <2>4. ASSUME NEW p \in Proc, RewardStep(p)
        PROVE  UNCHANGED stats
    <3>1. ~StatsOnReward(p)
      OBVIOUS
    <3> QED BY <2>4, <3>1 DEF RewardStep, ReadBefore, NoMatchingInteraction, ApplyReward,
                 NothingToApply, ReadFeatures, UpdateWithReward, ReadAfter,
                 poolVars, ledgerVars, envVars
  <2> QED BY <2>1, <2>2, <2>3, <2>4 DEF Next
<1> QED BY <1>1, <1>2 DEF StatsOf

LEMMA NextAccountingInv ==
    ASSUME TypeInv, AccountingInv, [Next]_vars
    PROVE  AccountingInv'
<1>0. /\ pc \in [Proc -> Steps] /\ work \in [Proc -> Work]
      /\ TypeInv'
  BY NextTypeInv DEF TypeInv, TypeOK
<1>1. CASE UNCHANGED vars
  <2>1. \A a \in Proposal : /\ StatsOf(a)' = StatsOf(a)
                            /\ Pending(a)' = Pending(a)
                            /\ AppliedRows(a)' = AppliedRows(a)
    BY <1>1 DEF vars, ledgerVars, StatsOf, Pending, PendingAt, AppliedRows
  <2> QED BY <1>1, <2>1, AccountingKept DEF vars, envVars
<1>2. ASSUME NEW p \in Proc, ApplyReward(p)
      PROVE  AccountingInv'
  <2> SUFFICES ASSUME NEW a \in Proposal
               PROVE  Balanced(a)'
    BY DEF AccountingInv
  <2>1. StatsOf(a)' = StatsOf(a) /\ crashes' = crashes
    BY <1>2 DEF ApplyReward, StatsOf, envVars
  <2>2. PICK i \in 1 .. Len(log) :
           /\ log[i].arm = work[p].arm
           /\ ~log[i].applied
           /\ log'[i] = [log[i] EXCEPT !.applied = TRUE, !.reward = work[p].reward]
           /\ \A j \in 1 .. Len(log) : j # i => log'[j] = log[j]
    BY <1>2, ApplyEffect
  <2>3. Len(log') = Len(log) /\ log'[i].arm = work[p].arm /\ log'[i].applied
    <3>1. log[i] \in Interaction
      BY DEF TypeInv, TypeOK
    <3>2. Len(log') = Len(log)
      BY <1>2, ApplyEffect
    <3> QED BY <2>2, <3>1, <3>2 DEF Interaction
  <2>4. /\ pc[p] = "apply" /\ pc'[p] = "tally" /\ work'[p].arm = work[p].arm
        /\ \A q \in Proc : q # p => pc'[q] = pc[q] /\ work'[q] = work[q]
    BY <1>0, <1>2 DEF ApplyReward, Goto, Work
  <2>5. CASE a = work[p].arm
    <3>1. AppliedRows(a)' = AppliedRows(a) \cup {i} /\ i \notin AppliedRows(a)
      BY <2>2, <2>3, <2>5 DEF AppliedRows
    <3>2. Pending(a)' = Pending(a) \cup {p} /\ p \notin Pending(a)
      BY <2>4, <2>5 DEF Pending, PendingAt
    <3>3. /\ Cardinality(AppliedRows(a)') = Cardinality(AppliedRows(a)) + 1
          /\ Cardinality(Pending(a)') = Cardinality(Pending(a)) + 1
      BY <3>1, <3>2, CountsAreNat, FS_AddElement
    <3> QED BY <2>1, <3>3, CountsAreNat DEF AccountingInv, Balanced, Counted
  <2>6. CASE a # work[p].arm
    <3>1. AppliedRows(a)' = AppliedRows(a)
      BY <2>2, <2>3, <2>6 DEF AppliedRows
    <3>2. Pending(a)' = Pending(a)
      BY <2>4, <2>6 DEF Pending, PendingAt
    <3> QED BY <2>1, <3>1, <3>2 DEF AccountingInv, Balanced, Counted
  <2> QED BY <2>5, <2>6
<1>3. ASSUME NEW p \in Proc, StatsOnReward(p)
      PROVE  AccountingInv'
  <2> SUFFICES ASSUME NEW a \in Proposal
               PROVE  Balanced(a)'
    BY DEF AccountingInv
  <2> DEFINE b == work[p].arm
             row == [StatsOf(b) EXCEPT !.sum = @ + work[p].reward, !.count = @ + 1]
  <2>1. b \in Proposal
    BY <1>3, WorkTyped DEF StatsOnReward, WorkAt, RewardSteps
  <2>2. row.count = StatsOf(b).count + 1
    BY <2>1, StatsOfType DEF StatsRow
  <2>3. StatsOf(a)' = IF a = b THEN row ELSE StatsOf(a)
    <3> HIDE DEF row
    <3>1. UpsertStats(b, row)
      BY <1>3 DEF StatsOnReward, row
    <3> QED BY <3>1 DEF UpsertStats, StatsOf
  <2>4. crashes' = crashes /\ AppliedRows(a)' = AppliedRows(a)
    BY <1>3 DEF StatsOnReward, AppliedRows, envVars
  <2>5. /\ pc[p] = "tally" /\ pc'[p] # "tally" /\ work' = work
        /\ \A q \in Proc : q # p => pc'[q] = pc[q]
    BY <1>0, <1>3 DEF StatsOnReward, Goto
  <2> HIDE DEF row
  <2>6. CASE a = b
    <3>1. Pending(a)' = Pending(a) \ {p} /\ p \in Pending(a)
      BY <2>5, <2>6 DEF Pending, PendingAt
    <3>2. Cardinality(Pending(a)') = Cardinality(Pending(a)) - 1
      BY <3>1, CountsAreNat, FS_RemoveElement
    <3>3. StatsOf(a)'.count = StatsOf(a).count + 1
      BY <2>2, <2>3, <2>6
    <3>4. Counted(a)' = Counted(a)
      BY <3>2, <3>3, CountsAreNat DEF Counted
    <3> QED BY <2>4, <3>4 DEF AccountingInv, Balanced
  <2>7. CASE a # b
    <3>1. Pending(a)' = Pending(a)
      BY <2>5, <2>7 DEF Pending, PendingAt
    <3> QED BY <2>3, <2>4, <2>7, <3>1 DEF AccountingInv, Balanced, Counted
  <2> QED BY <2>6, <2>7
<1>4. ASSUME NEW p \in Proc, Crash(p)
      PROVE  AccountingInv'
  <2> SUFFICES ASSUME NEW a \in Proposal
               PROVE  Balanced(a)'
    BY DEF AccountingInv
  <2>1. /\ StatsOf(a)' = StatsOf(a) /\ AppliedRows(a)' = AppliedRows(a)
        /\ crashes' = crashes + 1
    BY <1>4 DEF Crash, StatsOf, AppliedRows, ledgerVars
  <2>2. /\ pc'[p] = "idle"
        /\ \A q \in Proc : q # p => pc'[q] = pc[q] /\ work'[q] = work[q]
    BY <1>0, <1>4 DEF Crash, Finish, Goto
  <2>3. Pending(a)' = Pending(a) \ {p}
    BY <2>2 DEF Pending, PendingAt
  <2>4. /\ Cardinality(Pending(a)') <= Cardinality(Pending(a))
        /\ Cardinality(Pending(a)) <= Cardinality(Pending(a)') + 1
        /\ Cardinality(Pending(a)') \in Nat
    <3>1. CASE p \in Pending(a)
      <4>1. IsFiniteSet(Pending(a)) /\ Cardinality(Pending(a)) \in Nat
        BY CountsAreNat
      <4>2. /\ IsFiniteSet(Pending(a)')
            /\ Cardinality(Pending(a)') = Cardinality(Pending(a)) - 1
        BY <2>3, <3>1, <4>1, FS_RemoveElement
      <4>3. Cardinality(Pending(a)') \in Nat
        BY <4>2, FS_CardinalityType
      <4> QED BY <4>1, <4>2, <4>3
    <3>2. CASE p \notin Pending(a)
      <4>1. Pending(a)' = Pending(a)
        BY <2>3, <3>2
      <4> QED BY <4>1, CountsAreNat
    <3> QED BY <3>1, <3>2, CountsAreNat
  <2> QED BY <2>1, <2>4, CountsAreNat DEF AccountingInv, Balanced, Counted
<1>5. ASSUME NEW p \in Proc,
             StartQuery(p) \/ StartReward(p) \/ LoadWeights(p) \/ PersistInitialWeights(p)
             \/ QueryStep(p) \/ RewardStep(p),
             \A q \in Proc : ~ApplyReward(q) /\ ~StatsOnReward(q)
      PROVE  AccountingInv'
  <2>1. [Next]_vars
    OBVIOUS
  <2>2. crashes' = crashes
    BY <1>5 DEF StartQuery, StartReward, Begin, LoadWeights, PersistInitialWeights, QueryStep,
                RewardStep, FindPromptCache, InsertPromptCache, PromptCacheConflict, PruneList,
                ScoreCandidates, RemoveCandidate, RelistCandidates, FinishPrune, ListCandidates,
                ReadRegen, IncrementRegen, RereadRegen, CountExisting, SeedCandidates,
                ReloadCandidates, SelectProposal, GetOrCreateQueryId, InsertInteraction,
                StatsOnShow, ReadBefore, NoMatchingInteraction, ApplyReward, NothingToApply,
                StatsOnReward, ReadFeatures, UpdateWithReward, ReadAfter, envVars
  <2>3. \A a \in Proposal : /\ StatsOf(a)'.count = StatsOf(a).count
                            /\ AppliedRows(a)' = AppliedRows(a)
    BY <1>5, <2>1, CountsKept, AppliedRowsKept
  <2>4. \A a \in Proposal : Pending(a)' = Pending(a)
    BY <1>5, PendingKept
  <2> QED BY <2>2, <2>3, <2>4, AccountingKept
<1>6. CASE \E q \in Proc : ApplyReward(q) \/ StatsOnReward(q)
  BY <1>2, <1>3, <1>6
<1>7. CASE Next /\ \A q \in Proc : ~ApplyReward(q) /\ ~StatsOnReward(q)
  BY <1>4, <1>5, <1>7 DEF Next
<1> QED BY <1>1, <1>6, <1>7

\* The accounting holds for every proposal, in the log or not.
THEOREM AccountingInvariant == Spec => []AccountingInv
<1>1. Init => AccountingInv
  <2> SUFFICES ASSUME Init, NEW a \in Proposal
               PROVE  Balanced(a)
    BY DEF AccountingInv
  <2>1. Pending(a) = {} /\ AppliedRows(a) = {} /\ StatsOf(a).count = 0 /\ crashes = 0
    BY DEF Init, Pending, PendingAt, AppliedRows, StatsOf, NoStats
  <2> QED BY <2>1, FS_EmptySet DEF Balanced, Counted
<1>2. TypeInv /\ AccountingInv /\ [Next]_vars => AccountingInv'
  BY NextAccountingInv
<1> QED BY <1>1, <1>2, TypeInvariant, PTL DEF Spec

\* Each interaction row that carries a reward is counted in proposal_stats at most once,
\* by however many processes and through however many retries of /reward, and the rewards
\* missing from the counts are no more than the requests that were cut short.
THEOREM RewardsAreCountedOnce == Spec => []RewardAccounting
<1>1. TypeInv /\ AccountingInv => RewardAccounting
  <2> SUFFICES ASSUME TypeInv, AccountingInv, NEW a \in Arms
               PROVE  Balanced(a)
    BY DEF RewardAccounting, Balanced, Counted, Pending
  <2>1. a \in Proposal
    <3>1. CASE a \in DOMAIN stats
      BY <3>1 DEF TypeInv, TypeOK
    <3>2. CASE a \notin DOMAIN stats
      <4>1. PICK i \in 1 .. Len(log) : a = log[i].arm
        BY <3>2 DEF Arms
      <4>2. log[i] \in Interaction
        BY DEF TypeInv, TypeOK
      <4> QED BY <4>1, <4>2 DEF Interaction
    <3> QED BY <3>1, <3>2
  <2> QED BY <2>1 DEF AccountingInv
<1> QED BY <1>1, AccountingInvariant, TypeInvariant, PTL

-----------------------------------------------------------------------------
(* Counting.                                                               *)

LEMMA OneMore ==
    ASSUME NEW S, NEW T, NEW x, IsFiniteSet(S), T \subseteq S \cup {x}
    PROVE  /\ IsFiniteSet(T)
           /\ Cardinality(S) \in Nat /\ Cardinality(T) \in Nat
           /\ Cardinality(T) <= Cardinality(S) + 1
<1>1. /\ IsFiniteSet(S \cup {x})
      /\ Cardinality(S \cup {x}) = IF x \in S THEN Cardinality(S) ELSE Cardinality(S) + 1
  BY FS_AddElement
<1>2. IsFiniteSet(T) /\ Cardinality(T) <= Cardinality(S \cup {x})
  BY <1>1, FS_Subset
<1>3. Cardinality(S) \in Nat /\ Cardinality(T) \in Nat
  BY <1>2, FS_CardinalityType
<1> QED BY <1>1, <1>2, <1>3

LEMMA OneLess ==
    ASSUME NEW S, NEW x, IsFiniteSet(S)
    PROVE  /\ IsFiniteSet(S \ {x})
           /\ Cardinality(S) \in Nat /\ Cardinality(S \ {x}) \in Nat
           /\ Cardinality(S \ {x}) = Cardinality(S) - (IF x \in S THEN 1 ELSE 0)
<1>1. /\ IsFiniteSet(S \ {x})
      /\ Cardinality(S \ {x}) = IF x \in S THEN Cardinality(S) - 1 ELSE Cardinality(S)
  BY FS_RemoveElement
<1>2. Cardinality(S) \in Nat /\ Cardinality(S \ {x}) \in Nat
  BY <1>1, FS_CardinalityType
<1> QED BY <1>1, <1>2

-----------------------------------------------------------------------------
(* The step of one process, seen from the others.                          *)

StepOf(p) ==
    \/ StartQuery(p) \/ StartReward(p) \/ LoadWeights(p) \/ PersistInitialWeights(p)
    \/ QueryStep(p) \/ RewardStep(p) \/ Crash(p)

\* A request lives in its own process: a step moves no other.
LEMMA OthersKept ==
    ASSUME TypeInv, NEW p \in Proc, StepOf(p), NEW q \in Proc, q # p
    PROVE  pc'[q] = pc[q] /\ work'[q] = work[q]
<1>1. pc \in [Proc -> Steps] /\ work \in [Proc -> Work]
  BY DEF TypeInv, TypeOK
<1> QED
  BY <1>1 DEF StepOf, QueryStep, RewardStep, StartQuery, StartReward, Begin, Goto, Finish,
       LoadWeights, PersistInitialWeights, FindPromptCache, InsertPromptCache, PromptCacheConflict,
       PruneList, ScoreCandidates, RemoveCandidate, RelistCandidates, FinishPrune, ListCandidates,
       ReadRegen, IncrementRegen, RereadRegen, CountExisting, SeedCandidates, ReloadCandidates,
       SelectProposal, GetOrCreateQueryId, InsertInteraction, StatsOnShow, ReadBefore,
       NoMatchingInteraction, ApplyReward, NothingToApply, StatsOnReward, ReadFeatures,
       UpdateWithReward, ReadAfter, Crash

-----------------------------------------------------------------------------
(* The size of a pool. A process that found the pool above the minimum may *)
(* take one candidate out of it, and one that found it below may put in    *)
(* what it found missing, each on the strength of what it saw earlier.     *)

Processes == Cardinality(Proc)

Seeded(h) == \E a \in registry : a.prompt = h

\* Processes that may still delete from the pool, whatever its size is by now.
Pruning(h) ==
    {p \in Proc : /\ pc[p] \in {"score", "remove"}
                  /\ ~(Cardinality(work[p].listed) <= MinCandidates)
                  /\ PromptOfWork(p) = h}

\* Processes that will add to the pool, whatever its size is by now.
Seeding(h) ==
    {p \in Proc : /\ pc[p] \in {"regen", "reread", "offset", "seed"}
                  /\ PromptOfWork(p) = h}

Floor(h) ==
    /\ Seeded(h) =>
          Cardinality(candidates[h]) + Processes >= MinCandidates + 1 + Cardinality(Pruning(h))
    /\ ~Seeded(h) =>
          /\ Pruning(h) = {}
          /\ \A p \in Seeding(h) : work[p].need = MinCandidates

\* A pool of c candidates has room for what the processes of S are about to add: the
\* one that looked last made up for what it saw, and each other adds at most a filling.
Fits(S, need, c) ==
    /\ \A p \in S : need[p] \in 0 .. MinCandidates
    /\ S = {} => c <= MinCandidates * Processes
    /\ S # {} => \E p \in S :
                    c + need[p] <= MinCandidates * (Processes - Cardinality(S) + 1)

Ceiling(h) ==
    Fits(Seeding(h), [p \in Proc |-> work[p].need], Cardinality(candidates[h]))

PoolInv == CandidatesRegistered /\ \A h \in Prompt : Floor(h) /\ Ceiling(h)

LEMMA ProcessCounts ==
    ASSUME NEW S \in SUBSET Proc
    PROVE  /\ IsFiniteSet(S) /\ Cardinality(S) \in Nat
           /\ Processes \in Nat /\ Cardinality(S) <= Processes
           /\ S # {} => Cardinality(S) >= 1
<1>1. IsFiniteSet(Proc)
  BY RetrievalAssumption
<1>2. IsFiniteSet(S) /\ Cardinality(S) <= Cardinality(Proc)
  BY <1>1, FS_Subset
<1>3. Cardinality(S) \in Nat /\ Cardinality(Proc) \in Nat
  BY <1>1, <1>2, FS_CardinalityType
<1>4. S # {} => Cardinality(S) # 0
  BY <1>2, FS_EmptySet
<1> QED BY <1>2, <1>3, <1>4 DEF Processes

LEMMA OneFillingMore ==
    ASSUME NEW n \in Int
    PROVE  MinCandidates * (n + 1) = MinCandidates * n + MinCandidates
BY RetrievalAssumption

LEMMA FillingsGrow ==
    ASSUME NEW n \in Nat
    PROVE  MinCandidates * (n + 1) >= MinCandidates /\ MinCandidates * n \in Nat
BY RetrievalAssumption

\* A process sees the pool underfull, and will add what is missing.
LEMMA FitsEnter ==
    ASSUME NEW S \in SUBSET Proc, NEW need, NEW c \in Nat, Fits(S, need, c),
           NEW p \in Proc, c < MinCandidates, NEW next,
           \A q \in S : q # p => next[q] = need[q], next[p] = MinCandidates - c
    PROVE  Fits(S \cup {p}, next, c)
<1> DEFINE T == S \cup {p}  n == Processes - Cardinality(T)
<1>1. T \subseteq Proc /\ T # {} /\ n \in Nat
  BY ProcessCounts
<1>2. c + next[p] = MinCandidates
  BY RetrievalAssumption
<1>3. MinCandidates * (n + 1) >= MinCandidates
  BY <1>1, FillingsGrow
<1>4. \A q \in T : next[q] \in 0 .. MinCandidates
  BY RetrievalAssumption DEF Fits
<1> HIDE DEF T
<1>5. p \in T
  BY DEF T
<1> QED BY <1>1, <1>2, <1>3, <1>4, <1>5 DEF Fits, T

\* A process adds to the pool what it was going to, or less, and goes on.
LEMMA FitsLeave ==
    ASSUME NEW S \in SUBSET Proc, NEW need, NEW c \in Nat, Fits(S, need, c),
           NEW p \in S, NEW d \in Nat, d <= c + need[p]
    PROVE  Fits(S \ {p}, need, d)
<1> DEFINE T == S \ {p}  n == Processes - Cardinality(T)
<1>1. /\ IsFiniteSet(S) /\ Cardinality(S) = Cardinality(T) + 1
      /\ Cardinality(T) \in Nat /\ Cardinality(S) \in Nat /\ Cardinality(S) <= Processes
      /\ Processes \in Nat
  <2>1. IsFiniteSet(S) /\ Cardinality(T) = Cardinality(S) - 1
    BY ProcessCounts, FS_RemoveElement
  <2>2. T \in SUBSET Proc
    OBVIOUS
  <2> HIDE DEF T
  <2> QED BY <2>1, <2>2, ProcessCounts
<1>2. n \in Nat /\ Processes - Cardinality(S) + 1 = n
  BY <1>1
<1>3. PICK w \in S : c + need[w] <= MinCandidates * n
  BY <1>2 DEF Fits
<1>4. \A q \in S : need[q] \in 0 .. MinCandidates
  BY DEF Fits
<1>5. MinCandidates * n \in Nat /\ MinCandidates * (n + 1) = MinCandidates * n + MinCandidates
  BY <1>2, FillingsGrow, OneFillingMore
<1> HIDE DEF n
<1>6. ASSUME T # {} PROVE \E q \in T : d + need[q] <= MinCandidates * (n + 1)
  <2>1. CASE w = p
    <3>1. PICK q \in T : TRUE
      BY <1>6
    <3>2. d + need[q] <= MinCandidates * (n + 1)
      BY <1>3, <1>4, <1>5, <2>1, RetrievalAssumption
    <3> QED BY <3>2
  <2>2. CASE w # p
    <3>1. d + need[w] <= MinCandidates * (n + 1)
      BY <1>3, <1>4, <1>5, <2>2, RetrievalAssumption
    <3> QED BY <2>2, <3>1
  <2> QED BY <2>1, <2>2
<1>7. ASSUME T = {} PROVE d <= MinCandidates * Processes
  <2>1. w = p /\ Cardinality(T) = 0
    BY <1>7, FS_EmptySet
  <2>2. n = Processes
    BY <1>1, <2>1 DEF n
  <2> QED BY <1>3, <1>4, <1>5, <2>1, <2>2, RetrievalAssumption
<1> QED BY <1>4, <1>6, <1>7 DEF Fits, n

\* A smaller pool has more room.
LEMMA FitsShrink ==
    ASSUME NEW S \in SUBSET Proc, NEW need, NEW c \in Nat, Fits(S, need, c),
           NEW d \in Nat, d <= c, NEW next, \A p \in S : next[p] = need[p]
    PROVE  Fits(S, next, d)
<1>1. MinCandidates * Processes \in Nat
  BY ProcessCounts, FillingsGrow
<1>2. \A p \in S : need[p] \in 0 .. MinCandidates
  BY DEF Fits
<1>3. MinCandidates * (Processes - Cardinality(S) + 1) \in Int
  BY ProcessCounts, RetrievalAssumption
<1>4. ASSUME S # {} PROVE \E p \in S : d + next[p] <= MinCandidates * (Processes - Cardinality(S) + 1)
  <2>1. PICK p \in S : c + need[p] <= MinCandidates * (Processes - Cardinality(S) + 1)
    BY <1>4 DEF Fits
  <2>2. d + next[p] <= MinCandidates * (Processes - Cardinality(S) + 1)
    BY <1>2, <1>3, <2>1, RetrievalAssumption
  <2> QED BY <2>2
<1> QED BY <1>1, <1>2, <1>4 DEF Fits

\* The statements that write a pool.
LEMMA PoolWriters ==
    ASSUME NEW p \in Proc, StepOf(p), ~RemoveCandidate(p), ~SeedCandidates(p)
    PROVE  UNCHANGED <<candidates, registry>>
BY DEF StepOf, QueryStep, RewardStep, StartQuery, StartReward, Begin,
       LoadWeights, PersistInitialWeights, FindPromptCache, InsertPromptCache, PromptCacheConflict,
       PruneList, ScoreCandidates, RelistCandidates, FinishPrune, ListCandidates,
       ReadRegen, IncrementRegen, RereadRegen, CountExisting, ReloadCandidates,
       SelectProposal, GetOrCreateQueryId, InsertInteraction, StatsOnShow, ReadBefore,
       NoMatchingInteraction, ApplyReward, NothingToApply, StatsOnReward, ReadFeatures,
       UpdateWithReward, ReadAfter, Crash, poolVars

\* The statements that lead a process to the prune, the seeding and the selection.
LEMMA PoolTransitions ==
    ASSUME TypeInv, NEW p \in Proc, StepOf(p)
    PROVE  /\ pc'[p] = "score" => PruneList(p)
           /\ pc'[p] = "remove" => ScoreCandidates(p) \/ RelistCandidates(p)
           /\ pc'[p] = "regen" => ListCandidates(p)
           /\ pc'[p] \in {"reread", "offset", "seed"} =>
                 IncrementRegen(p) \/ ReadRegen(p) \/ RereadRegen(p) \/ CountExisting(p)
           /\ pc'[p] = "reload" => SeedCandidates(p)
           /\ pc'[p] = "select" => ListCandidates(p) \/ ReloadCandidates(p)
<1>1. pc \in [Proc -> Steps]
  BY DEF TypeInv, TypeOK
<1> QED
  BY <1>1 DEF StepOf, QueryStep, RewardStep, StartQuery, StartReward, Begin, Goto, Finish,
       LoadWeights, PersistInitialWeights, FindPromptCache, InsertPromptCache, PromptCacheConflict,
       PruneList, ScoreCandidates, RemoveCandidate, RelistCandidates, FinishPrune, ListCandidates,
       ReadRegen, IncrementRegen, RereadRegen, CountExisting, SeedCandidates, ReloadCandidates,
       SelectProposal, GetOrCreateQueryId, InsertInteraction, StatsOnShow, ReadBefore,
       NoMatchingInteraction, ApplyReward, NothingToApply, StatsOnReward, ReadFeatures,
       UpdateWithReward, ReadAfter, Crash, AfterConstruct

LEMMA PoolTyped ==
    ASSUME TypeInv, NEW h \in Prompt
    PROVE  /\ candidates[h] \subseteq Proposal /\ IsFiniteSet(candidates[h])
           /\ Cardinality(candidates[h]) \in Nat
BY FS_CardinalityType DEF TypeInv, TypeOK, FinitePools

LEMMA PromptTyped ==
    ASSUME TypeInv, NEW p \in Proc, pc[p] \in QuerySteps
    PROVE  PromptOfWork(p) \in Prompt
BY WorkTyped, RetrievalAssumption DEF WorkAt, PromptOfWork

\* Who joins the pruning of a pool has just seen it above the minimum.
LEMMA JoinsPruning ==
    ASSUME TypeInv, NEW p \in Proc, StepOf(p), NEW h \in Prompt, p \in Pruning(h)', p \notin Pruning(h)
    PROVE  Cardinality(candidates[h]) > MinCandidates
<1>1. work \in [Proc -> Work]
  BY DEF TypeInv, TypeOK
<1>2. Cardinality(candidates[h]) \in Nat /\ MinCandidates \in Nat
  BY PoolTyped, RetrievalAssumption
<1>3. PruneList(p) \/ ScoreCandidates(p) \/ RelistCandidates(p)
  BY PoolTransitions DEF Pruning
<1>4. CASE PruneList(p) \/ RelistCandidates(p)
  <2>1. work'[p].listed = candidates[PromptOfWork(p)] /\ work'[p].submit = work[p].submit
    BY <1>1, <1>4 DEF PruneList, RelistCandidates, Work
  <2> QED BY <1>2, <2>1 DEF Pruning, PromptOfWork
<1>5. CASE ScoreCandidates(p)
  <2>1. /\ pc[p] = "score" /\ work'[p].listed = work[p].listed
        /\ work'[p].submit = work[p].submit
    BY <1>1, <1>5 DEF ScoreCandidates, Work
  <2> QED BY <2>1 DEF Pruning, PromptOfWork
<1> QED BY <1>3, <1>4, <1>5

\* Who joins the seeding of a pool has just seen it below the minimum, and what a process
\* is going to add does not change until it does.
LEMMA JoinsSeeding ==
    ASSUME TypeInv, NEW p \in Proc, StepOf(p), NEW h \in Prompt, p \in Seeding(h)'
    PROVE  \/ p \in Seeding(h) /\ work'[p].need = work[p].need
           \/ /\ Cardinality(candidates[h]) < MinCandidates
              /\ work'[p].need = MinCandidates - Cardinality(candidates[h])
<1>1. work \in [Proc -> Work] /\ pc \in [Proc -> Steps]
  BY DEF TypeInv, TypeOK
<1>2. ListCandidates(p) \/ IncrementRegen(p) \/ ReadRegen(p) \/ RereadRegen(p) \/ CountExisting(p)
  BY PoolTransitions DEF Seeding
<1>3. CASE ListCandidates(p)
  <2>1. work'[p].submit = work[p].submit
    BY <1>1, <1>3 DEF ListCandidates, Work
  <2>2. PromptOfWork(p) = h
    BY <2>1 DEF Seeding, PromptOfWork
  <2>3. Cardinality(candidates[h]) < MinCandidates
    BY <1>1, <1>3, <2>2 DEF ListCandidates, Goto, Seeding
  <2>4. work'[p].need = MinCandidates - Cardinality(candidates[h])
    BY <1>1, <1>3, <2>2, <2>3 DEF ListCandidates, Work
  <2> QED BY <2>3, <2>4
<1>4. CASE IncrementRegen(p) \/ ReadRegen(p) \/ RereadRegen(p) \/ CountExisting(p)
  <2>1. work'[p].submit = work[p].submit /\ work'[p].need = work[p].need
    BY <1>1, <1>4 DEF IncrementRegen, ReadRegen, RereadRegen, CountExisting, Work
  <2>2. pc[p] \in {"regen", "reread", "offset"}
    BY <1>4 DEF IncrementRegen, ReadRegen, RereadRegen, CountExisting
  <2> QED BY <2>1, <2>2 DEF Seeding, PromptOfWork
<1> QED BY <1>2, <1>3, <1>4

\* The other processes are where they were.
LEMMA OthersInPools ==
    ASSUME TypeInv, NEW p \in Proc, StepOf(p), NEW h, NEW q \in Proc, q # p
    PROVE  /\ q \in Pruning(h)' <=> q \in Pruning(h)
           /\ q \in Seeding(h)' <=> q \in Seeding(h)
           /\ work'[q].need = work[q].need
BY OthersKept DEF Pruning, Seeding, PromptOfWork

LEMMA IntervalCount ==
    ASSUME NEW m \in Nat, NEW n \in Nat
    PROVE  IsFiniteSet(m .. (m + n - 1)) /\ Cardinality(m .. (m + n - 1)) = n
<1> DEFINE k == m + n - 1
<1>1. m \in Int /\ k \in Int
  OBVIOUS
<1>2. IF m > k THEN n = 0 ELSE k - m + 1 = n
  OBVIOUS
<1> HIDE DEF k
<1>3. IsFiniteSet(m .. k) /\ Cardinality(m .. k) = IF m > k THEN 0 ELSE k - m + 1
  BY <1>1, FS_Interval
<1>4. Cardinality(m .. k) = n
  BY <1>2, <1>3
<1> QED BY <1>3, <1>4 DEF k

\* The identifiers of one filling: as many as there are positions.
LEMMA FillingCount ==
    ASSUME NEW h, NEW r, NEW I, IsFiniteSet(I), NEW G,
           \A k \in I : [prompt |-> h, regen |-> r, index |-> k] \in G,
           \A g \in G : \E k \in I : g = [prompt |-> h, regen |-> r, index |-> k]
    PROVE  IsFiniteSet(G) /\ Cardinality(G) = Cardinality(I)
<1> DEFINE f == [k \in I |-> [prompt |-> h, regen |-> r, index |-> k]]
<1>1. f \in [I -> G]
  OBVIOUS
<1>2. \A k, l \in I : f[k] = f[l] => k = l
  <2> SUFFICES ASSUME NEW k \in I, NEW l \in I, f[k] = f[l] PROVE k = l
    OBVIOUS
  <2>1. f[k].index = k /\ f[l].index = l
    OBVIOUS
  <2> QED BY <2>1
<1>3. \A g \in G : \E k \in I : f[k] = g
  OBVIOUS
<1> HIDE DEF f
<1>4. f \in Bijection(I, G)
  BY <1>1, <1>2, <1>3 DEF Bijection, Injection, Surjection, IsInjective
<1>5. ExistsBijection(I, G)
  BY <1>4 DEF ExistsBijection
<1> QED BY <1>5, FS_Bijection

LEMMA Generates ==
    ASSUME TypeInv, NEW p \in Proc, pc[p] \in QuerySteps
    PROVE  /\ IsFiniteSet(Generated(p)) /\ Cardinality(Generated(p)) = work[p].need
           /\ work[p].need \in Nat
           /\ \A a \in Generated(p) : a.prompt = PromptOfWork(p)
<1> DEFINE I == work[p].offset .. (work[p].offset + work[p].need - 1)
           h == PromptOfWork(p)
           r == work[p].regen
<1>1. work[p].offset \in Nat /\ work[p].need \in Nat
  BY WorkTyped DEF Work
<1>2. IsFiniteSet(I) /\ Cardinality(I) = work[p].need
  BY <1>1, IntervalCount
<1>3. /\ \A k \in I : [prompt |-> h, regen |-> r, index |-> k] \in Generated(p)
      /\ \A g \in Generated(p) : \E k \in I : g = [prompt |-> h, regen |-> r, index |-> k]
  BY DEF Generated
<1> HIDE DEF I, h, r
<1>4. IsFiniteSet(Generated(p)) /\ Cardinality(Generated(p)) = Cardinality(I)
  BY <1>2, <1>3, FillingCount
<1>5. \A a \in Generated(p) : a.prompt = PromptOfWork(p)
  BY DEF Generated
<1> QED BY <1>1, <1>2, <1>4, <1>5

-----------------------------------------------------------------------------
(* Each kind of step keeps the bounds.                                     *)

\* A step that writes no pool.
LEMMA LocalPoolInv ==
    ASSUME TypeInv, PoolInv, NEW p \in Proc, StepOf(p), ~RemoveCandidate(p), ~SeedCandidates(p),
           NEW h \in Prompt
    PROVE  (Floor(h) /\ Ceiling(h))'
<1> DEFINE c == Cardinality(candidates[h])
<1>1. candidates' = candidates /\ registry' = registry
  BY PoolWriters
<1>2. c \in Nat /\ MinCandidates \in Nat \ {0} /\ Processes \in Nat
  BY PoolTyped, RetrievalAssumption, ProcessCounts
<1>3. Pruning(h) \in SUBSET Proc /\ Pruning(h)' \in SUBSET Proc
      /\ Seeding(h) \in SUBSET Proc /\ Seeding(h)' \in SUBSET Proc
  BY DEF Pruning, Seeding
<1>4. /\ Cardinality(Pruning(h)) \in Nat /\ Cardinality(Pruning(h)') \in Nat
      /\ Cardinality(Pruning(h)') <= Processes /\ IsFiniteSet(Pruning(h))
  BY <1>3, ProcessCounts
<1>5. Floor(h)'
  <2>1. CASE p \in Pruning(h)' /\ p \notin Pruning(h)
    <3>1. c > MinCandidates
      BY <2>1, JoinsPruning
    <3>2. candidates[h] # {}
      BY <1>2, <3>1, FS_EmptySet
    <3>3. Seeded(h)'
      BY <1>1, <3>2 DEF PoolInv, CandidatesRegistered, Seeded
    <3> QED BY <1>1, <1>2, <1>4, <3>1, <3>3 DEF Floor, Processes
  <2>2. CASE ~(p \in Pruning(h)' /\ p \notin Pruning(h))
    <3>1. Pruning(h)' \subseteq Pruning(h)
      BY <1>3, <2>2, OthersInPools
    <3>2. Cardinality(Pruning(h)') <= Cardinality(Pruning(h))
      BY <1>4, <3>1, FS_Subset
    <3>3. Seeded(h)' <=> Seeded(h)
      BY <1>1 DEF Seeded
    <3>4. ASSUME Seeded(h) PROVE Floor(h)'
      BY <1>1, <1>2, <1>4, <3>2, <3>3, <3>4 DEF PoolInv, Floor, Processes
    <3>5. ASSUME ~Seeded(h) PROVE Floor(h)'
      <4>1. Pruning(h)' = {}
        BY <3>1, <3>5 DEF PoolInv, Floor
      <4>2. candidates[h] = {}
        BY <3>5 DEF PoolInv, CandidatesRegistered, Seeded
      <4>3. c = 0
        BY <4>2, FS_EmptySet
      <4>4. \A q \in Seeding(h)' : work'[q].need = MinCandidates
        <5> SUFFICES ASSUME NEW q \in Seeding(h)' PROVE work'[q].need = MinCandidates
          OBVIOUS
        <5>1. q \in Seeding(h) => work[q].need = MinCandidates
          BY <3>5 DEF PoolInv, Floor
        <5>2. CASE q = p
          BY <1>2, <4>3, <5>1, <5>2, JoinsSeeding
        <5>3. CASE q # p
          BY <1>3, <5>1, <5>3, OthersInPools
        <5> QED BY <5>2, <5>3
      <4> QED BY <3>3, <3>5, <4>1, <4>4 DEF Floor
    <3> QED BY <3>4, <3>5
  <2> QED BY <2>1, <2>2
<1> DEFINE need == [q \in Proc |-> work[q].need]  next == [q \in Proc |-> work'[q].need]
<1>6. Fits(Seeding(h), need, c)
  BY DEF PoolInv, Ceiling
<1>7. \A q \in Proc : q # p => next[q] = need[q]
  BY OthersInPools
<1>8. Fits(Seeding(h)', next, c)
  <2> HIDE DEF c
  <2>1. CASE p \notin Seeding(h)' /\ p \in Seeding(h)
    <3>1. Seeding(h)' = Seeding(h) \ {p}
      BY <1>3, <2>1, OthersInPools
    <3>2. need[p] \in Nat
      BY WorkTyped DEF Work
    <3>3. c <= c + need[p]
      BY <1>2, <3>2
    <3> HIDE DEF need, next
    <3>4. Fits(Seeding(h) \ {p}, need, c)
      BY <1>2, <1>3, <1>6, <2>1, <3>3, FitsLeave
    <3>5. \A q \in Seeding(h) \ {p} : next[q] = need[q]
      BY <1>3, <1>7
    <3>6. Fits(Seeding(h) \ {p}, next, c) /\ c <= c
      BY <1>2, <1>3, <3>4, <3>5, FitsShrink
    <3> QED BY <3>1, <3>6
  <2>2. CASE p \in Seeding(h)' /\ ~(p \in Seeding(h) /\ work'[p].need = work[p].need)
    <3>1. c < MinCandidates /\ next[p] = MinCandidates - c
      BY <2>2, JoinsSeeding DEF c
    <3>2. Seeding(h)' = Seeding(h) \cup {p}
      BY <1>3, <2>2, OthersInPools
    <3>3. \A q \in Seeding(h) : q # p => next[q] = need[q]
      BY <1>3, <1>7
    <3> HIDE DEF need, next
    <3>4. Fits(Seeding(h) \cup {p}, next, c)
      BY <1>2, <1>3, <1>6, <3>1, <3>3, FitsEnter
    <3> QED BY <3>2, <3>4
  <2>3. CASE \/ p \notin Seeding(h)' /\ p \notin Seeding(h)
             \/ p \in Seeding(h)' /\ p \in Seeding(h) /\ work'[p].need = work[p].need
    <3>1. Seeding(h)' = Seeding(h)
      BY <1>3, <2>3, OthersInPools
    <3>2. \A q \in Seeding(h) : next[q] = need[q]
      BY <1>3, <1>7, <2>3
    <3>3. c <= c
      BY <1>2
    <3> HIDE DEF need, next
    <3>4. Fits(Seeding(h), next, c)
      BY <1>2, <1>3, <1>6, <3>2, <3>3, FitsShrink
    <3> QED BY <3>1, <3>4
  <2> QED BY <2>1, <2>2, <2>3
<1>9. Ceiling(h)' <=> Fits(Seeding(h)', next, c)
  BY <1>1 DEF Ceiling
<1> QED BY <1>5, <1>8, <1>9

\* A step that changes neither who adds to the pool nor what they add, and adds nothing.
LEMMA CeilingKept ==
    ASSUME TypeInv, NEW h \in Prompt, Ceiling(h), Seeding(h)' = Seeding(h),
           \A q \in Seeding(h) : work'[q].need = work[q].need,
           Cardinality(candidates[h])' \in Nat,
           Cardinality(candidates[h])' <= Cardinality(candidates[h])
    PROVE  Ceiling(h)'
<1> DEFINE need == [q \in Proc |-> work[q].need]  next == [q \in Proc |-> work'[q].need]
           c == Cardinality(candidates[h])  d == Cardinality(candidates[h])'
<1>1. Seeding(h) \in SUBSET Proc /\ c \in Nat /\ d \in Nat /\ d <= c
  BY PoolTyped DEF Seeding
<1>2. Fits(Seeding(h), need, c)
  BY DEF Ceiling
<1>3. \A q \in Seeding(h) : next[q] = need[q]
  BY DEF Seeding
<1>4. Ceiling(h)' <=> Fits(Seeding(h)', next, d)
  BY DEF Ceiling
<1> HIDE DEF need, next, c, d
<1>5. Fits(Seeding(h), next, d)
  BY <1>1, <1>2, <1>3, FitsShrink
<1> QED BY <1>4, <1>5

\* One DELETE of a prune.
LEMMA RemovePoolInv ==
    ASSUME TypeInv, PoolInv, NEW p \in Proc, RemoveCandidate(p), NEW h \in Prompt
    PROVE  Floor(h)' /\ Ceiling(h)'
<1> DEFINE host == PromptOfWork(p)
           c == Cardinality(candidates[h])  d == Cardinality(candidates[h])'
<1>1. StepOf(p) /\ pc[p] = "remove" /\ host \in Prompt
  BY PromptTyped DEF StepOf, QueryStep, RemoveCandidate, QuerySteps
<1>2. p \in Pruning(host)
  BY <1>1 DEF RemoveCandidate, PruneDone, Pruning
<1>3. PICK a : candidates' = [candidates EXCEPT ![host] = @ \ {a}]
  BY DEF RemoveCandidate
<1>4. pc'[p] = "relist" /\ registry' = registry
  BY DEF RemoveCandidate, Goto, TypeInv, TypeOK
<1>5. Pruning(h)' = Pruning(h) \ {p} /\ Pruning(h) \in SUBSET Proc
  BY <1>1, <1>4, OthersInPools DEF Pruning
<1>6. Seeding(h)' = Seeding(h) /\ \A q \in Seeding(h) : work'[q].need = work[q].need
  <2>1. p \notin Seeding(h) /\ p \notin Seeding(h)'
    BY <1>1, <1>4 DEF Seeding
  <2>2. Seeding(h) \subseteq Proc /\ Seeding(h)' \subseteq Proc
    BY DEF Seeding
  <2> QED BY <1>1, <2>1, <2>2, OthersInPools
<1>7. c \in Nat /\ IsFiniteSet(candidates[h]) /\ MinCandidates \in Nat
  BY PoolTyped, RetrievalAssumption
<1>8. /\ Cardinality(Pruning(h)) \in Nat /\ IsFiniteSet(Pruning(h)) /\ Processes \in Nat
  BY <1>5, ProcessCounts
<1>9. Seeded(h)' <=> Seeded(h)
  BY <1>4 DEF Seeded
<1>10. CASE h = host
  <2>1. candidates'[h] = candidates[h] \ {a}
    BY <1>1, <1>3, <1>10 DEF TypeInv, TypeOK
  <2>2. d \in Nat /\ d <= c /\ d + 1 >= c
    <3>1. d = Cardinality(candidates[h] \ {a})
      BY <2>1
    <3>2. /\ d \in Nat /\ d = c - (IF a \in candidates[h] THEN 1 ELSE 0)
      BY <1>7, <3>1, OneLess
    <3> QED BY <1>7, <3>2
  <2>3. Cardinality(Pruning(h)') = Cardinality(Pruning(h)) - 1
    BY <1>2, <1>5, <1>8, <1>10, OneLess
  <2>4. Seeded(h)
    BY <1>2, <1>10 DEF PoolInv, Floor
  <2>5. c + Processes >= MinCandidates + 1 + Cardinality(Pruning(h))
    BY <2>4 DEF PoolInv, Floor
  <2>6. d + Processes >= MinCandidates + 1 + Cardinality(Pruning(h)')
    BY <1>7, <1>8, <2>2, <2>3, <2>5
  <2>7. Floor(h)'
    BY <1>9, <2>4, <2>6 DEF Floor, Processes
  <2>8. Ceiling(h)'
    BY <1>6, <2>2, CeilingKept DEF PoolInv
  <2> QED BY <2>7, <2>8
<1>11. CASE h # host
  <2>1. candidates'[h] = candidates[h]
    BY <1>3, <1>11 DEF TypeInv, TypeOK
  <2>2. d = c
    BY <2>1
  <2>3. p \notin Pruning(h)
    BY <1>11 DEF Pruning
  <2>4. Pruning(h)' = Pruning(h)
    BY <1>5, <2>3
  <2>5. Floor(h)'
    BY <1>6, <1>9, <2>2, <2>4 DEF PoolInv, Floor, Processes
  <2>6. Ceiling(h)'
    BY <1>6, <1>7, <2>2, CeilingKept DEF PoolInv
  <2> QED BY <2>5, <2>6
<1> QED BY <1>10, <1>11

\* The transaction that seeds.
LEMMA SeedPoolInv ==
    ASSUME TypeInv, PoolInv, NEW p \in Proc, SeedCandidates(p), NEW h \in Prompt
    PROVE  Floor(h)' /\ Ceiling(h)'
<1> DEFINE host == PromptOfWork(p)  G == Generated(p)
           c == Cardinality(candidates[h])  d == Cardinality(candidates[h])'
<1>1. StepOf(p) /\ pc[p] = "seed" /\ host \in Prompt
  BY PromptTyped DEF StepOf, QueryStep, SeedCandidates, QuerySteps
<1>2. p \in Seeding(host)
  BY <1>1 DEF Seeding
<1>3. /\ candidates' = [candidates EXCEPT ![host] = @ \cup G]
      /\ registry' = registry \cup G /\ work' = work /\ pc'[p] = "reload"
  BY DEF SeedCandidates, Goto, TypeInv, TypeOK
<1>4. Seeding(h)' = Seeding(h) \ {p} /\ Seeding(h) \in SUBSET Proc
  BY <1>1, <1>3, OthersInPools DEF Seeding
<1>5. Pruning(h)' = Pruning(h) /\ Pruning(h) \in SUBSET Proc
  <2>1. p \notin Pruning(h) /\ p \notin Pruning(h)'
    BY <1>1, <1>3 DEF Pruning
  <2>2. Pruning(h) \subseteq Proc /\ Pruning(h)' \subseteq Proc
    BY DEF Pruning
  <2>3. \A q \in Proc : q # p => (q \in Pruning(h)' <=> q \in Pruning(h))
    BY <1>1, OthersInPools
  <2>4. \A q : q \in Pruning(h)' <=> q \in Pruning(h)
    BY <2>1, <2>2, <2>3
  <2> QED BY <2>2, <2>4
<1>6. c \in Nat /\ IsFiniteSet(candidates[h]) /\ MinCandidates \in Nat
  BY PoolTyped, RetrievalAssumption
<1>7. /\ IsFiniteSet(G) /\ Cardinality(G) = work[p].need /\ work[p].need \in Nat
      /\ \A a \in G : a.prompt = host
  BY <1>1, Generates DEF QuerySteps
<1>8. Processes \in Nat /\ Processes >= 1
  <2>1. Proc # {} /\ Proc \in SUBSET Proc
    OBVIOUS
  <2> QED BY <2>1, ProcessCounts DEF Processes
<1>9. CASE h = host
  <2>1. candidates'[h] = candidates[h] \cup G
    BY <1>1, <1>3, <1>9 DEF TypeInv, TypeOK
  <2> HIDE DEF G, host
  <2>2. d \in Nat /\ d <= c + work[p].need /\ d >= c /\ d >= work[p].need
    <3>1. IsFiniteSet(candidates[h] \cup G) /\ candidates[h] \cap G \subseteq candidates[h]
      BY <1>6, <1>7, FS_Union
    <3>2. d = c + work[p].need - Cardinality(candidates[h] \cap G)
      BY <1>6, <1>7, <2>1, FS_Union
    <3>3. /\ Cardinality(candidates[h] \cap G) \in Nat
          /\ Cardinality(candidates[h] \cap G) <= c
      BY <1>6, <3>1, FS_Subset, FS_CardinalityType
    <3>4. Cardinality(candidates[h] \cap G) <= work[p].need
      <4>1. candidates[h] \cap G \subseteq G
        OBVIOUS
      <4> QED BY <1>7, <4>1, FS_Subset
    <3> QED BY <1>6, <1>7, <3>2, <3>3, <3>4
  <2>3. Floor(h)'
    <3>1. CASE Seeded(h)
      <4>1. c + Processes >= MinCandidates + 1 + Cardinality(Pruning(h))
        BY <3>1 DEF PoolInv, Floor
      <4>2. Cardinality(Pruning(h)) \in Nat
        BY <1>5, ProcessCounts
      <4>3. d + Processes >= MinCandidates + 1 + Cardinality(Pruning(h))
        BY <1>6, <1>8, <2>2, <4>1, <4>2
      <4>4. Seeded(h)'
        BY <1>3, <3>1 DEF Seeded
      <4> QED BY <1>5, <4>3, <4>4 DEF Floor, Processes
    <3>2. CASE ~Seeded(h)
      <4>1. Pruning(h) = {} /\ work[p].need = MinCandidates
        BY <1>2, <1>9, <3>2 DEF PoolInv, Floor
      <4>2. Cardinality(Pruning(h)) = 0
        BY <4>1, FS_EmptySet
      <4>3. d + Processes >= MinCandidates + 1 + Cardinality(Pruning(h))
        BY <1>6, <1>8, <2>2, <4>1, <4>2
      <4>4. \A q \in Seeding(h)' : work'[q].need = MinCandidates
        BY <1>3, <1>4, <3>2 DEF PoolInv, Floor
      <4> QED BY <1>5, <4>1, <4>3, <4>4 DEF Floor, Processes
    <3> QED BY <3>1, <3>2
  <2>4. Ceiling(h)'
    <3> DEFINE need == [q \in Proc |-> work[q].need]
    <3>1. Fits(Seeding(h), need, c) /\ need[p] = work[p].need
      BY DEF PoolInv, Ceiling
    <3>2. Ceiling(h)' <=> Fits(Seeding(h)', need, d)
      BY <1>3 DEF Ceiling
    <3> HIDE DEF need, c, d
    <3>3. Fits(Seeding(h) \ {p}, need, d)
      BY <1>2, <1>4, <1>6, <1>9, <2>2, <3>1, FitsLeave DEF c, d
    <3> QED BY <1>4, <3>2, <3>3
  <2> QED BY <2>3, <2>4
<1>10. CASE h # host
  <2>1. candidates'[h] = candidates[h]
    BY <1>3, <1>10 DEF TypeInv, TypeOK
  <2>2. Seeded(h)' <=> Seeded(h)
    BY <1>3, <1>7, <1>10 DEF Seeded
  <2>3. p \notin Seeding(h)
    BY <1>10 DEF Seeding
  <2>4. Seeding(h)' = Seeding(h)
    BY <1>4, <2>3
  <2>5. Floor(h)'
    BY <1>3, <1>5, <2>1, <2>2, <2>4 DEF PoolInv, Floor, Processes
  <2>6. Ceiling(h)'
    BY <1>3, <1>6, <2>1, <2>4, CeilingKept DEF PoolInv
  <2> QED BY <2>5, <2>6
<1> QED BY <1>9, <1>10

-----------------------------------------------------------------------------
LEMMA NextPoolInv ==
    ASSUME TypeInv, PoolInv, CandidatesRegistered', [Next]_vars
    PROVE  PoolInv'
<1> SUFFICES ASSUME NEW h \in Prompt PROVE Floor(h)' /\ Ceiling(h)'
  BY DEF PoolInv
<1>1. CASE UNCHANGED vars
  BY <1>1 DEF vars, poolVars, PoolInv, Floor, Ceiling, Seeded, Pruning, Seeding, PromptOfWork, Processes
<1>2. ASSUME NEW p \in Proc, StepOf(p) PROVE Floor(h)' /\ Ceiling(h)'
  BY <1>2, LocalPoolInv, RemovePoolInv, SeedPoolInv
<1>3. Next => \E p \in Proc : StepOf(p)
  BY DEF Next, StepOf
<1> QED BY <1>1, <1>2, <1>3

\* A pool that was seeded lacks at most a candidate for each process beside the one that
\* prunes, and no pool holds more than a filling for each process.
THEOREM PoolInvariant == Spec => []PoolInv
<1>1. Init => PoolInv
  <2> SUFFICES ASSUME Init PROVE PoolInv
    OBVIOUS
  <2>1. CandidatesRegistered
    BY DEF Init, CandidatesRegistered
  <2> SUFFICES ASSUME NEW h \in Prompt PROVE Floor(h) /\ Ceiling(h)
    BY <2>1 DEF PoolInv
  <2>2. Pruning(h) = {} /\ Seeding(h) = {} /\ ~Seeded(h)
    BY DEF Init, Pruning, Seeding, Seeded
  <2>3. Cardinality(candidates[h]) = 0
    BY FS_EmptySet DEF Init
  <2>4. MinCandidates * Processes \in Nat
    BY ProcessCounts, FillingsGrow
  <2> QED BY <2>2, <2>3, <2>4 DEF Floor, Ceiling, Fits
<1>2. TypeInv /\ PoolInv /\ CandidatesRegistered' /\ [Next]_vars => PoolInv'
  BY NextPoolInv
<1> QED BY <1>1, <1>2, TypeInvariant, PoolsAreRegistered, PTL DEF Spec

\* Pruning never empties, and concurrent seeding never floods, a pool: once filled it
\* keeps the minimum less one candidate for each other process, and it never holds more
\* than one filling for each process. Each process decides on the strength of a pool it
\* listed before others wrote to it.
THEOREM PoolsAreBounded == Spec => []PoolBounds
<1>1. TypeInv /\ PoolInv => PoolBounds
  <2> SUFFICES ASSUME TypeInv, PoolInv, NEW h \in Prompt
               PROVE  /\ Seeded(h) =>
                           Cardinality(candidates[h]) >= MinCandidates - (Cardinality(Proc) - 1)
                      /\ Cardinality(candidates[h]) <= MinCandidates * Cardinality(Proc)
    BY DEF PoolBounds, Seeded
  <2>1. Pruning(h) \in SUBSET Proc /\ Seeding(h) \in SUBSET Proc
    BY DEF Pruning, Seeding
  <2>2. /\ Cardinality(Pruning(h)) \in Nat /\ Processes \in Nat
        /\ Cardinality(candidates[h]) \in Nat /\ MinCandidates \in Nat
    BY <2>1, ProcessCounts, PoolTyped, RetrievalAssumption
  <2>3. Seeded(h) => Cardinality(candidates[h]) >= MinCandidates - (Cardinality(Proc) - 1)
    BY <2>2 DEF PoolInv, Floor, Processes
  <2>4. Cardinality(candidates[h]) <= MinCandidates * Processes
    <3> DEFINE c == Cardinality(candidates[h])  S == Seeding(h)
               need == [q \in Proc |-> work[q].need]
    <3>1. Fits(S, need, c)
      BY DEF PoolInv, Ceiling
    <3> HIDE DEF S, need, c
    <3>2. CASE S = {}
      BY <3>1, <3>2 DEF Fits, c
    <3>3. CASE S # {}
      <4>1. PICK q \in S : c + need[q] <= MinCandidates * (Processes - Cardinality(S) + 1)
        BY <3>1, <3>3 DEF Fits
      <4>2. need[q] \in Nat
        BY <3>1, RetrievalAssumption DEF Fits
      <4> DEFINE n == Processes - Cardinality(S) + 1  k == Cardinality(S) - 1
      <4>3. n \in Nat /\ k \in Nat /\ Processes = n + k
        BY <2>1, <3>3, ProcessCounts DEF S
      <4>4. MinCandidates * n \in Nat /\ MinCandidates * k \in Nat
            /\ MinCandidates * (n + k) = MinCandidates * n + MinCandidates * k
        BY <4>3, RetrievalAssumption
      <4> HIDE DEF n, k
      <4>5. c + need[q] <= MinCandidates * n
        BY <4>1 DEF n
      <4>6. c <= MinCandidates * (n + k)
        BY <2>2, <4>2, <4>4, <4>5 DEF c
      <4> QED BY <4>3, <4>6 DEF c
    <3> QED BY <3>2, <3>3
  <2> QED BY <2>3, <2>4 DEF Processes
<1> QED BY <1>1, TypeInvariant, PoolInvariant, PTL

-----------------------------------------------------------------------------
(* What a request holds on its way to the selection.                       *)

Held(p) ==
    /\ pc[p] \in {"regen", "reread", "offset", "seed"} => work[p].need >= 1
    /\ pc[p] = "reload" => Seeded(PromptOfWork(p))
    /\ pc[p] = "select" => work[p].listed # {} /\ work[p].listed \subseteq registry

SelectInv == \A p \in Proc : Held(p)

LEMMA RegistryGrows ==
    ASSUME TypeInv, NEW p \in Proc, StepOf(p)
    PROVE  registry \subseteq registry'
<1>1. CASE SeedCandidates(p)
  BY <1>1 DEF SeedCandidates
<1>2. CASE RemoveCandidate(p)
  BY <1>2 DEF RemoveCandidate
<1>3. CASE ~RemoveCandidate(p) /\ ~SeedCandidates(p)
  BY <1>3, PoolWriters
<1> QED BY <1>1, <1>2, <1>3

LEMMA SeedingHolds ==
    ASSUME TypeInv, NEW p \in Proc, StepOf(p), Held(p),
           pc'[p] \in {"regen", "reread", "offset", "seed"}
    PROVE  work'[p].need >= 1
<1>1. pc'[p] \in QuerySteps
  BY DEF QuerySteps
<1>2. TypeInv'
  BY NextTypeInv DEF StepOf, Next
<1>3. work'[p].submit \in Submit
  BY <1>1, <1>2 DEF TypeInv, WorkOK, WorkAt
<1>4. PICK h \in Prompt : h = PromptOf[work'[p].submit]
  BY <1>3, RetrievalAssumption
<1>5. p \in Seeding(h)'
  BY <1>4 DEF Seeding, PromptOfWork
<1>6. \/ p \in Seeding(h) /\ work'[p].need = work[p].need
      \/ /\ Cardinality(candidates[h]) < MinCandidates
         /\ work'[p].need = MinCandidates - Cardinality(candidates[h])
  BY <1>5, JoinsSeeding
<1>7. CASE p \in Seeding(h) /\ work'[p].need = work[p].need
  BY <1>7 DEF Held, Seeding
<1>8. CASE /\ Cardinality(candidates[h]) < MinCandidates
           /\ work'[p].need = MinCandidates - Cardinality(candidates[h])
  BY <1>8, PoolTyped, RetrievalAssumption
<1> QED BY <1>6, <1>7, <1>8

LEMMA SeedHolds ==
    ASSUME TypeInv, NEW p \in Proc, Held(p), SeedCandidates(p)
    PROVE  Seeded(PromptOfWork(p))'
<1>1. pc[p] \in QuerySteps /\ pc[p] = "seed"
  BY DEF SeedCandidates, QuerySteps
<1>2. /\ IsFiniteSet(Generated(p)) /\ Cardinality(Generated(p)) = work[p].need
      /\ work[p].need >= 1 /\ \A a \in Generated(p) : a.prompt = PromptOfWork(p)
  BY <1>1, Generates DEF Held
<1>3. Generated(p) # {}
  BY <1>2, FS_EmptySet
<1>4. registry' = registry \cup Generated(p) /\ PromptOfWork(p)' = PromptOfWork(p)
  BY DEF SeedCandidates, PromptOfWork
<1> QED BY <1>2, <1>3, <1>4 DEF Seeded

LEMMA ReadsPool ==
    ASSUME TypeInv, PoolInv, Cardinality(Proc) <= MinCandidates, NEW h \in Prompt, Seeded(h)
    PROVE  candidates[h] # {} /\ candidates[h] \subseteq registry
<1>1. Pruning(h) \in SUBSET Proc
  BY DEF Pruning
<1>2. /\ Cardinality(Pruning(h)) \in Nat /\ Processes \in Nat /\ MinCandidates \in Nat
      /\ Cardinality(candidates[h]) \in Nat
  BY <1>1, ProcessCounts, PoolTyped, RetrievalAssumption
<1>3. Cardinality(candidates[h]) # 0
  BY <1>2 DEF PoolInv, Floor, Processes
<1>4. candidates[h] # {}
  BY <1>3, FS_EmptySet
<1> QED BY <1>4 DEF PoolInv, CandidatesRegistered

LEMMA SelectHolds ==
    ASSUME TypeInv, PoolInv, Cardinality(Proc) <= MinCandidates, NEW p \in Proc, StepOf(p),
           Held(p), pc'[p] = "select"
    PROVE  work'[p].listed # {} /\ work'[p].listed \subseteq registry
<1> DEFINE h == PromptOfWork(p)
<1>1. pc \in [Proc -> Steps] /\ work \in [Proc -> Work]
  BY DEF TypeInv, TypeOK
<1>2. CASE ListCandidates(p)
  <2>1. h \in Prompt
    BY <1>2, PromptTyped DEF ListCandidates, QuerySteps
  <2>2. work'[p].listed = candidates[h] /\ ~(Cardinality(candidates[h]) < MinCandidates)
    BY <1>1, <1>2 DEF ListCandidates, Goto, Work
  <2>3. candidates[h] # {}
    BY <2>1, <2>2, RetrievalAssumption, FS_EmptySet
  <2> QED BY <2>1, <2>2, <2>3 DEF PoolInv, CandidatesRegistered
<1>3. CASE ReloadCandidates(p)
  <2>1. h \in Prompt /\ pc[p] = "reload"
    BY <1>3, PromptTyped DEF ReloadCandidates, QuerySteps
  <2>2. work'[p].listed = candidates[h]
    BY <1>1, <1>3 DEF ReloadCandidates, Work
  <2>3. Seeded(h)
    BY <2>1 DEF Held
  <2> QED BY <2>1, <2>2, <2>3, ReadsPool
<1> QED BY <1>2, <1>3, PoolTransitions

LEMMA NextSelectInv ==
    ASSUME TypeInv, PoolInv, Cardinality(Proc) <= MinCandidates, SelectInv, [Next]_vars
    PROVE  SelectInv'
<1>1. CASE UNCHANGED vars
  BY <1>1 DEF vars, poolVars, SelectInv, Held, Seeded, PromptOfWork
<1>2. ASSUME NEW p \in Proc, StepOf(p), NEW q \in Proc PROVE Held(q)'
  <2>1. CASE q = p
    <3>1. Held(p)
      BY DEF SelectInv
    <3>2. pc'[p] \in {"regen", "reread", "offset", "seed"} => work'[p].need >= 1
      BY <1>2, <3>1, SeedingHolds
    <3>3. pc'[p] = "reload" => Seeded(PromptOfWork(p))'
      BY <1>2, <3>1, PoolTransitions, SeedHolds
    <3>4. pc'[p] = "select" => work'[p].listed # {} /\ work'[p].listed \subseteq registry'
      BY <1>2, <3>1, SelectHolds, RegistryGrows
    <3> QED BY <2>1, <3>2, <3>3, <3>4 DEF Held
  <2>2. CASE q # p
    <3>1. pc'[q] = pc[q] /\ work'[q] = work[q] /\ Held(q)
      BY <1>2, <2>2, OthersKept DEF SelectInv
    <3>2. Seeded(PromptOfWork(q)) => Seeded(PromptOfWork(q))'
      <4>1. PromptOfWork(q)' = PromptOfWork(q)
        BY <3>1 DEF PromptOfWork
      <4>2. registry \subseteq registry'
        BY <1>2, RegistryGrows
      <4> QED BY <4>1, <4>2 DEF Seeded
    <3>3. registry \subseteq registry'
      BY <1>2, RegistryGrows
    <3> QED BY <3>1, <3>2, <3>3 DEF Held
  <2> QED BY <2>1, <2>2
<1>3. Next => \E p \in Proc : StepOf(p)
  BY DEF Next, StepOf
<1> QED BY <1>1, <1>2, <1>3 DEF SelectInv

\* A request that reaches the selection has a pool that is not empty and can be loaded,
\* so neither exception of run_retrieval_detailed can occur, as long as no more processes
\* share the file than a pool has candidates (kMinCandidates, four): a further process
\* could prune, on the strength of an old listing, the last candidate of all.
THEOREM SelectionIsSafe ==
    ASSUME Cardinality(Proc) <= MinCandidates
    PROVE  Spec => []SelectionNeverThrows
<1>1. Init => SelectInv
  BY DEF Init, SelectInv, Held
<1>2. TypeInv /\ PoolInv /\ SelectInv /\ [Next]_vars => SelectInv'
  BY NextSelectInv
<1>3. SelectInv => SelectionNeverThrows
  BY DEF SelectInv, Held, SelectionNeverThrows
<1> QED BY <1>1, <1>2, <1>3, TypeInvariant, PoolInvariant, PTL DEF Spec

-----------------------------------------------------------------------------
(* A proposal with a history is registered.                                *)

ArmAt(step, w) ==
    /\ step \in {"query", "log", "show"} \cup RewardSteps => w.arm \in registry
    /\ step \in {"construct", "initWeights"} /\ w.submit = None => w.arm \in registry

ArmInv ==
    /\ DOMAIN stats \subseteq registry
    /\ \A i \in 1 .. Len(log) : log[i].arm \in registry
    /\ \A p \in Proc : ArmAt(pc[p], work[p])

\* The statements that lead a process to those that use an arm.
LEMMA ArmTransitions ==
    ASSUME TypeInv, NEW p \in Proc, StepOf(p)
    PROVE  /\ pc'[p] = "construct" => StartQuery(p) \/ StartReward(p)
           /\ pc'[p] = "initWeights" => LoadWeights(p)
           /\ pc'[p] = "query" => SelectProposal(p)
           /\ pc'[p] \in {"log", "show"} => GetOrCreateQueryId(p) \/ InsertInteraction(p)
           /\ pc'[p] = "before" => LoadWeights(p) \/ PersistInitialWeights(p)
           /\ pc'[p] \in RewardSteps \ {"before"} =>
                 \/ ReadBefore(p) \/ ApplyReward(p) \/ NothingToApply(p) \/ StatsOnReward(p)
                 \/ ReadFeatures(p) \/ UpdateWithReward(p)
<1>1. pc \in [Proc -> Steps]
  BY DEF TypeInv, TypeOK
<1> QED
  BY <1>1 DEF StepOf, QueryStep, RewardStep, StartQuery, StartReward, Begin, Goto, Finish,
       LoadWeights, PersistInitialWeights, FindPromptCache, InsertPromptCache, PromptCacheConflict,
       PruneList, ScoreCandidates, RemoveCandidate, RelistCandidates, FinishPrune, ListCandidates,
       ReadRegen, IncrementRegen, RereadRegen, CountExisting, SeedCandidates, ReloadCandidates,
       SelectProposal, GetOrCreateQueryId, InsertInteraction, StatsOnShow, ReadBefore,
       NoMatchingInteraction, ApplyReward, NothingToApply, StatsOnReward, ReadFeatures,
       UpdateWithReward, ReadAfter, Crash, AfterConstruct, RewardSteps

\* Two statements write proposal_stats, and one event counts a request as cut short.
LEMMA StatsWriters ==
    ASSUME NEW p \in Proc, StepOf(p)
    PROVE  /\ UNCHANGED stats \/ StatsOnShow(p) \/ StatsOnReward(p)
           /\ crashes' = crashes \/ Crash(p)
BY DEF StepOf, QueryStep, RewardStep, StartQuery, StartReward, Begin,
       LoadWeights, PersistInitialWeights, FindPromptCache, InsertPromptCache, PromptCacheConflict,
       PruneList, ScoreCandidates, RemoveCandidate, RelistCandidates, FinishPrune, ListCandidates,
       ReadRegen, IncrementRegen, RereadRegen, CountExisting, SeedCandidates, ReloadCandidates,
       SelectProposal, GetOrCreateQueryId, InsertInteraction, StatsOnShow, ReadBefore,
       NoMatchingInteraction, ApplyReward, NothingToApply, StatsOnReward, ReadFeatures,
       UpdateWithReward, ReadAfter, Crash, poolVars, ledgerVars, envVars

\* The arm a process is about to use.
LEMMA ArmStep ==
    ASSUME TypeInv, ArmInv, NEW p \in Proc, StepOf(p)
    PROVE  ArmAt(pc'[p], work'[p])
<1>1. work \in [Proc -> Work] /\ pc \in [Proc -> Steps]
  BY DEF TypeInv, TypeOK
<1>2. ArmAt(pc[p], work[p])
  BY DEF ArmInv
<1>3. CASE pc'[p] = "construct"
  <2>1. CASE StartQuery(p)
    <3>1. PICK s \in Submit, c \in Caller : work' = [work EXCEPT ![p] = [NoWork EXCEPT !.submit = s, !.caller = c]]
      BY <2>1 DEF StartQuery, Begin
    <3>2. work'[p].submit = s
      BY <1>1, <3>1 DEF NoWork
    <3> QED BY <1>3, <3>2, RetrievalAssumption DEF ArmAt, RewardSteps
  <2>2. CASE StartReward(p)
    <3>1. PICK i \in 1 .. Len(log), c \in Caller, v \in Reward :
             work' = [work EXCEPT ![p] = [NoWork EXCEPT !.caller = c, !.arm = log[i].arm, !.reward = v]]
      BY <2>2 DEF StartReward, Begin
    <3>2. work'[p].arm = log[i].arm
      BY <1>1, <3>1 DEF NoWork
    <3>3. log[i].arm \in registry
      BY DEF ArmInv
    <3> QED BY <3>2, <3>3 DEF ArmAt
  <2> QED BY <1>3, <2>1, <2>2, ArmTransitions
<1>4. CASE LoadWeights(p) \/ PersistInitialWeights(p)
  <2>1. work'[p].arm = work[p].arm /\ work'[p].submit = work[p].submit
    BY <1>1, <1>4 DEF LoadWeights, PersistInitialWeights, Work
  <2>2. pc[p] \in {"construct", "initWeights"}
        /\ (pc'[p] = "initWeights" \/ pc'[p] = IF work[p].submit # None THEN "find" ELSE "before")
    BY <1>1, <1>4 DEF LoadWeights, PersistInitialWeights, Goto, AfterConstruct
  <2> QED BY <1>2, <2>1, <2>2 DEF ArmAt, RewardSteps
<1>5. CASE SelectProposal(p)
  <2>1. PICK a \in work[p].listed : a \in registry /\ work' = [work EXCEPT ![p].arm = a]
    BY <1>5 DEF SelectProposal
  <2>2. work'[p].arm = a
    BY <1>1, <2>1 DEF Work
  <2> QED BY <2>1, <2>2 DEF ArmAt
<1>6. CASE \/ GetOrCreateQueryId(p) \/ InsertInteraction(p) \/ ReadBefore(p) \/ ApplyReward(p)
           \/ NothingToApply(p) \/ StatsOnReward(p) \/ ReadFeatures(p) \/ UpdateWithReward(p)
  <2>1. work'[p].arm = work[p].arm
    BY <1>1, <1>6 DEF GetOrCreateQueryId, InsertInteraction, ReadBefore, ApplyReward, NothingToApply,
       StatsOnReward, ReadFeatures, UpdateWithReward, Work
  <2>2. pc[p] \in {"query", "log", "show"} \cup RewardSteps
    BY <1>6 DEF GetOrCreateQueryId, InsertInteraction, ReadBefore, ApplyReward, NothingToApply,
       StatsOnReward, ReadFeatures, UpdateWithReward, RewardSteps
  <2> QED BY <1>2, <2>1, <2>2 DEF ArmAt
<1>7. CASE pc'[p] \notin {"construct", "initWeights", "query", "log", "show"} \cup RewardSteps
  BY <1>7 DEF ArmAt
<1> QED BY <1>3, <1>4, <1>5, <1>6, <1>7, ArmTransitions

LEMMA NextArmInv ==
    ASSUME TypeInv, ArmInv, [Next]_vars
    PROVE  ArmInv'
<1>1. CASE UNCHANGED vars
  BY <1>1 DEF vars, poolVars, ledgerVars, ArmInv, ArmAt
<1>2. ASSUME NEW p \in Proc, StepOf(p) PROVE ArmInv'
  <2>1. registry \subseteq registry'
    BY <1>2, RegistryGrows
  <2>2. \A q \in Proc : ArmAt(pc[q], work[q])'
    <3> SUFFICES ASSUME NEW q \in Proc PROVE ArmAt(pc[q], work[q])'
      OBVIOUS
    <3>1. ArmAt(pc'[q], work'[q])
      BY <1>2, ArmStep, OthersKept DEF ArmInv
    <3> QED BY <2>1, <3>1 DEF ArmAt
  <2>3. DOMAIN stats' \subseteq registry'
    <3>1. CASE StatsOnShow(p) \/ StatsOnReward(p)
      <4>1. work[p].arm \in registry
        BY <3>1 DEF StatsOnShow, StatsOnReward, ArmInv, ArmAt, RewardSteps
      <4>2. DOMAIN stats' = DOMAIN stats \cup {work[p].arm}
        BY <3>1 DEF StatsOnShow, StatsOnReward, UpsertStats
      <4> QED BY <2>1, <4>1, <4>2 DEF ArmInv
    <3>2. CASE ~(StatsOnShow(p) \/ StatsOnReward(p))
      BY <1>2, <2>1, <3>2, StatsWriters DEF ArmInv
    <3> QED BY <3>1, <3>2
  <2>4. \A i \in 1 .. Len(log') : log'[i].arm \in registry'
    <3>1. CASE UNCHANGED log
      BY <2>1, <3>1 DEF ArmInv
    <3>2. ASSUME NEW q \in Proc, InsertInteraction(q) PROVE \A i \in 1 .. Len(log') : log'[i].arm \in registry'
      <4>1. work[q].arm \in registry
        BY <3>2 DEF InsertInteraction, ArmInv, ArmAt
      <4>2. NewRow(q).arm = work[q].arm
        BY DEF NewRow
      <4>3. \/ UNCHANGED log
            \/ /\ Len(log') = Len(log) + 1
               /\ \A i \in 1 .. Len(log) : log'[i] = log[i]
               /\ log'[Len(log) + 1] = NewRow(q)
        BY <3>2, InsertEffect
      <4>4. Len(log) \in Nat /\ \A i \in 1 .. Len(log) : log[i].arm \in registry
        BY DEF TypeInv, TypeOK, ArmInv
      <4> QED BY <2>1, <4>1, <4>2, <4>3, <4>4
    <3>3. ASSUME NEW q \in Proc, ApplyReward(q) PROVE \A i \in 1 .. Len(log') : log'[i].arm \in registry'
      BY <2>1, <3>3, ApplyEffect, ApplyKeeps DEF ArmInv
    <3>4. [Next]_vars
      OBVIOUS
    <3> QED BY <3>1, <3>2, <3>3, LogWriters
  <2> QED BY <2>2, <2>3, <2>4 DEF ArmInv
<1>3. Next => \E p \in Proc : StepOf(p)
  BY DEF Next, StepOf
<1> QED BY <1>1, <1>2, <1>3

-----------------------------------------------------------------------------
(* The identifiers a seeding process gives out. Two processes that fill    *)
(* one pool hand out fresh ones, or ones the other has just put in.        *)

\* The registered proposals that carry the regeneration index of the process, or the one
\* it will read.
Clash(p) ==
    {a \in registry :
        /\ a.prompt = PromptOfWork(p)
        /\ \/ pc[p] = "regen" /\ ~work[p].reseed
           \/ pc[p] = "reread" /\ a.regen = regenCount[a.prompt]
           \/ pc[p] \in {"offset", "seed"} /\ a.regen = work[p].regen}

RegensCounted ==
    /\ \A a \in registry : a.regen <= regenCount[a.prompt]
    /\ \A p \in Proc : pc[p] \in {"offset", "seed"} => work[p].regen <= regenCount[PromptOfWork(p)]

\* While a pool is being filled nobody can take anything out of it, and the first process
\* that fills it leaves the others nothing to add but what is there or fresh.
Filling(h) ==
    /\ Seeding(h) # {} => Pruning(h) = {} /\ Cardinality(candidates[h]) <= MinCandidates
    /\ \A p, q \in Seeding(h) : p # q => Cardinality(candidates[h]) < MinCandidates
    /\ \A p \in Seeding(h) :
          /\ Clash(p) \subseteq candidates[h]
          /\ Cardinality(candidates[h]) < MinCandidates =>
                Clash(p) = {} /\ Cardinality(candidates[h]) + work[p].need = MinCandidates

FreshInv == RegensCounted /\ \A h \in Prompt : Filling(h)

\* Only one statement counts regenerations.
LEMMA RegenWriters ==
    ASSUME NEW p \in Proc, StepOf(p), ~IncrementRegen(p)
    PROVE  UNCHANGED regenCount
BY DEF StepOf, QueryStep, RewardStep, StartQuery, StartReward, Begin,
       LoadWeights, PersistInitialWeights, FindPromptCache, InsertPromptCache, PromptCacheConflict,
       PruneList, ScoreCandidates, RemoveCandidate, RelistCandidates, FinishPrune, ListCandidates,
       ReadRegen, RereadRegen, CountExisting, SeedCandidates, ReloadCandidates,
       SelectProposal, GetOrCreateQueryId, InsertInteraction, StatsOnShow, ReadBefore,
       NoMatchingInteraction, ApplyReward, NothingToApply, StatsOnReward, ReadFeatures,
       UpdateWithReward, ReadAfter, Crash, poolVars

\* An index is only ever incremented, by the process that reseeds the prompt.
LEMMA RegenGrows ==
    ASSUME TypeInv, NEW p \in Proc, StepOf(p), NEW h \in Prompt
    PROVE  /\ regenCount[h] \in Nat /\ regenCount'[h] \in Nat /\ regenCount[h] <= regenCount'[h]
           /\ regenCount'[h] # regenCount[h] => regenCount'[h] = regenCount[h] + 1
           /\ IncrementRegen(p) /\ h = PromptOfWork(p) => regenCount'[h] = regenCount[h] + 1
<1>1. regenCount \in [Prompt -> Nat]
  BY DEF TypeInv, TypeOK
<1>2. CASE IncrementRegen(p)
  BY <1>1, <1>2 DEF IncrementRegen
<1>3. CASE ~IncrementRegen(p)
  BY <1>1, <1>3, RegenWriters
<1> QED BY <1>2, <1>3

\* The steps inside the seeding.
LEMMA StaysSeeding ==
    ASSUME TypeInv, NEW p \in Proc, StepOf(p), NEW h \in Prompt, p \in Seeding(h)', p \in Seeding(h)
    PROVE  /\ work'[p].need = work[p].need
           /\ PromptOfWork(p)' = PromptOfWork(p) /\ PromptOfWork(p) = h
           /\ \/ /\ pc[p] = "regen" /\ ~work[p].reseed /\ pc'[p] = "offset"
                 /\ work'[p].regen = regenCount[h]
              \/ pc[p] = "regen" /\ pc'[p] = "reread" /\ IncrementRegen(p)
              \/ pc[p] = "reread" /\ pc'[p] = "offset" /\ work'[p].regen = regenCount[h]
              \/ pc[p] = "offset" /\ pc'[p] = "seed" /\ work'[p].regen = work[p].regen
<1>1. work \in [Proc -> Work] /\ pc \in [Proc -> Steps]
  BY DEF TypeInv, TypeOK
<1>2. pc[p] \in {"regen", "reread", "offset", "seed"} /\ PromptOfWork(p) = h
  BY DEF Seeding
<1>3. IncrementRegen(p) \/ ReadRegen(p) \/ RereadRegen(p) \/ CountExisting(p)
  BY <1>2, PoolTransitions DEF Seeding, ListCandidates
<1>4. CASE IncrementRegen(p)
  BY <1>1, <1>2, <1>4 DEF IncrementRegen, Goto, PromptOfWork
<1>5. CASE ReadRegen(p)
  <2>1. work'[p] = [work[p] EXCEPT !.regen = regenCount[h]] /\ pc'[p] = "offset"
    BY <1>1, <1>2, <1>5 DEF ReadRegen, Goto
  <2>2. /\ work'[p].need = work[p].need /\ work'[p].submit = work[p].submit
        /\ work'[p].regen = regenCount[h]
    BY <1>1, <2>1 DEF Work
  <2> QED BY <1>2, <1>5, <2>1, <2>2 DEF ReadRegen, PromptOfWork
<1>6. CASE RereadRegen(p)
  <2>1. work'[p] = [work[p] EXCEPT !.regen = regenCount[h]] /\ pc'[p] = "offset"
    BY <1>1, <1>2, <1>6 DEF RereadRegen, Goto
  <2>2. /\ work'[p].need = work[p].need /\ work'[p].submit = work[p].submit
        /\ work'[p].regen = regenCount[h]
    BY <1>1, <2>1 DEF Work
  <2> QED BY <1>2, <1>6, <2>1, <2>2 DEF RereadRegen, PromptOfWork
<1>7. CASE CountExisting(p)
  <2>1. /\ work'[p].need = work[p].need /\ work'[p].submit = work[p].submit
        /\ work'[p].regen = work[p].regen /\ pc'[p] = "seed"
    BY <1>1, <1>7 DEF CountExisting, Goto, Work
  <2> QED BY <1>2, <1>7, <2>1 DEF CountExisting, PromptOfWork
<1> QED BY <1>3, <1>4, <1>5, <1>6, <1>7

\* Who joins the seeding has found the pool short, and takes the index 0 for an empty one.
LEMMA EntersSeeding ==
    ASSUME TypeInv, NEW p \in Proc, StepOf(p), NEW h \in Prompt, p \in Seeding(h)', p \notin Seeding(h)
    PROVE  /\ pc'[p] = "regen" /\ PromptOfWork(p)' = h
           /\ Cardinality(candidates[h]) < MinCandidates
           /\ work'[p].need = MinCandidates - Cardinality(candidates[h])
           /\ ~work'[p].reseed => candidates[h] = {}
<1>1. work \in [Proc -> Work] /\ pc \in [Proc -> Steps]
  BY DEF TypeInv, TypeOK
<1>2. /\ Cardinality(candidates[h]) < MinCandidates
      /\ work'[p].need = MinCandidates - Cardinality(candidates[h])
  BY JoinsSeeding
<1>3. ListCandidates(p) \/ IncrementRegen(p) \/ ReadRegen(p) \/ RereadRegen(p) \/ CountExisting(p)
  BY PoolTransitions DEF Seeding
<1>4. CASE ListCandidates(p)
  <2>1. work'[p].submit = work[p].submit
    BY <1>1, <1>4 DEF ListCandidates, Work
  <2>2. PromptOfWork(p)' = h /\ PromptOfWork(p) = h
    BY <2>1 DEF Seeding, PromptOfWork
  <2>3. pc'[p] = "regen"
    BY <1>1, <1>2, <1>4, <2>2 DEF ListCandidates, Goto
  <2>4. work'[p].reseed = (Cardinality(candidates[h]) < MinCandidates /\ candidates[h] # {})
    BY <1>1, <1>4, <2>2 DEF ListCandidates, Work
  <2> QED BY <1>2, <2>2, <2>3, <2>4
<1>5. CASE IncrementRegen(p) \/ ReadRegen(p) \/ RereadRegen(p) \/ CountExisting(p)
  <2>1. work'[p].submit = work[p].submit
    BY <1>1, <1>5 DEF IncrementRegen, ReadRegen, RereadRegen, CountExisting, Work
  <2>2. pc[p] \in {"regen", "reread", "offset"}
    BY <1>5 DEF IncrementRegen, ReadRegen, RereadRegen, CountExisting
  <2> QED BY <2>1, <2>2 DEF Seeding, PromptOfWork
<1> QED BY <1>3, <1>4, <1>5

LEMMA NextRegensCounted ==
    ASSUME TypeInv, RegensCounted, NEW p \in Proc, StepOf(p)
    PROVE  RegensCounted'
<1>1. \A h \in Prompt : /\ regenCount[h] \in Nat /\ regenCount'[h] \in Nat
                        /\ regenCount[h] <= regenCount'[h]
  BY RegenGrows
<1>2. registry \subseteq Proposal /\ work \in [Proc -> Work] /\ pc \in [Proc -> Steps]
  BY DEF TypeInv, TypeOK
<1>a. TypeInv'
  BY NextTypeInv DEF StepOf, Next
<1>3. \A a \in registry : a.regen <= regenCount'[a.prompt]
  <2> SUFFICES ASSUME NEW a \in registry PROVE a.regen <= regenCount'[a.prompt]
    OBVIOUS
  <2>1. a.prompt \in Prompt /\ a.regen \in Nat /\ a.regen <= regenCount[a.prompt]
    BY <1>2 DEF RegensCounted, Proposal
  <2> QED BY <1>1, <2>1
<1>4. ASSUME NEW a \in registry' PROVE a.regen <= regenCount'[a.prompt]
  <2>1. CASE SeedCandidates(p)
    <3>1. registry' = registry \cup Generated(p) /\ regenCount' = regenCount /\ pc[p] = "seed"
      BY <2>1 DEF SeedCandidates
    <3>2. a \in Generated(p) => a.regen = work[p].regen /\ a.prompt = PromptOfWork(p)
      BY DEF Generated
    <3>3. work[p].regen <= regenCount[PromptOfWork(p)]
      BY <3>1 DEF RegensCounted
    <3> QED BY <1>3, <3>1, <3>2, <3>3
  <2>2. CASE RemoveCandidate(p)
    BY <1>3, <2>2 DEF RemoveCandidate
  <2>3. CASE ~SeedCandidates(p) /\ ~RemoveCandidate(p)
    BY <1>3, <2>3, PoolWriters
  <2> QED BY <2>1, <2>2, <2>3
<1>5. ASSUME NEW q \in Proc, pc'[q] \in {"offset", "seed"}
      PROVE  work'[q].regen <= regenCount'[PromptOfWork(q)']
  <2>1. PICK h : h = PromptOfWork(q)'
    OBVIOUS
  <2>2. h \in Prompt
    <3>0. pc'[q] \in QuerySteps
      BY <1>5 DEF QuerySteps
    <3>1. work'[q].submit \in Submit
      BY <1>a, <3>0 DEF TypeInv, WorkOK, WorkAt
    <3> QED BY <2>1, <3>1, RetrievalAssumption DEF PromptOfWork
  <2>3. CASE q = p
    <3>1. p \in Seeding(h)'
      BY <1>5, <2>1, <2>3 DEF Seeding
    <3>2. p \in Seeding(h)
      BY <1>5, <2>2, <2>3, <3>1, EntersSeeding
    <3>3. \/ work'[p].regen = regenCount[h]
          \/ pc[p] = "offset" /\ work'[p].regen = work[p].regen
      <4>1. \/ pc'[p] = "offset" /\ work'[p].regen = regenCount[h]
            \/ pc'[p] = "reread"
            \/ pc[p] = "offset" /\ pc'[p] = "seed" /\ work'[p].regen = work[p].regen
        BY <2>2, <3>1, <3>2, StaysSeeding
      <4>2. pc'[p] # "reread"
        BY <1>5, <2>3
      <4> QED BY <4>1, <4>2
    <3>4. PromptOfWork(p) = h
      BY <3>2 DEF Seeding
    <3>5. work[p].regen \in Nat
      BY <1>2 DEF Work
    <3>6. work'[p].regen <= regenCount[h] /\ work'[p].regen \in Nat
      BY <1>1, <2>2, <3>3, <3>4, <3>5 DEF RegensCounted
    <3> QED BY <1>1, <2>1, <2>2, <2>3, <3>6
  <2>4. CASE q # p
    <3>1. pc'[q] = pc[q] /\ work'[q] = work[q]
      BY <2>4, OthersKept
    <3>2. PromptOfWork(q) = h
      BY <2>1, <3>1 DEF PromptOfWork
    <3>3. work[q].regen <= regenCount[h] /\ work[q].regen \in Nat
      BY <1>2, <1>5, <3>1, <3>2 DEF RegensCounted, Work
    <3> QED BY <1>1, <2>1, <2>2, <3>1, <3>3
  <2> QED BY <2>3, <2>4
<1> QED BY <1>4, <1>5 DEF RegensCounted

\* A step that registers nothing brings no clash to a process that goes on seeding.
LEMMA ClashShrinks ==
    ASSUME TypeInv, RegensCounted, NEW p \in Proc, StepOf(p), registry' = registry,
           NEW h \in Prompt, NEW q \in Seeding(h), q \in Seeding(h)'
    PROVE  Clash(q)' \subseteq Clash(q)
<1>0. q \in Proc /\ PromptOfWork(q) = h /\ PromptOfWork(q)' = h
  BY DEF Seeding
<1>1. SUFFICES ASSUME NEW a \in Clash(q)' PROVE a \in Clash(q)
  OBVIOUS
<1>2. a \in registry /\ a.prompt = h
  BY <1>0 DEF Clash
<1>3. a.regen \in Nat /\ a.regen <= regenCount[h]
  BY <1>2 DEF TypeInv, TypeOK, RegensCounted, Proposal
<1>4. /\ regenCount[h] \in Nat /\ regenCount'[h] \in Nat /\ regenCount[h] <= regenCount'[h]
      /\ regenCount'[h] # regenCount[h] => regenCount'[h] = regenCount[h] + 1
  BY RegenGrows
<1>5. pc'[q] = "reread" => a.regen = regenCount[h] /\ regenCount'[h] = regenCount[h]
  <2>1. pc'[q] = "reread" => a.regen = regenCount'[h]
    BY <1>2 DEF Clash
  <2> QED BY <1>3, <1>4, <2>1
<1>6. CASE q # p
  <2>1. pc'[q] = pc[q] /\ work'[q] = work[q]
    BY <1>0, <1>6, OthersKept
  <2> QED BY <1>0, <1>2, <1>5, <2>1 DEF Clash
<1>7. CASE q = p
  <2>1. \/ pc[p] = "regen" /\ ~work[p].reseed /\ pc'[p] = "offset"
        \/ pc[p] = "regen" /\ pc'[p] = "reread" /\ IncrementRegen(p)
        \/ pc[p] = "reread" /\ pc'[p] = "offset" /\ work'[p].regen = regenCount[h]
        \/ pc[p] = "offset" /\ pc'[p] = "seed" /\ work'[p].regen = work[p].regen
    BY <1>7, StaysSeeding
  <2>2. IncrementRegen(p) => regenCount'[h] = regenCount[h] + 1
    BY <1>0, <1>7, RegenGrows
  <2>3. pc'[p] \in {"offset", "seed"} => a.regen = work'[p].regen
    BY <1>7 DEF Clash
  <2>4. pc'[p] # "reread" \/ ~IncrementRegen(p)
    BY <1>4, <1>5, <1>7, <2>2
  <2> QED BY <1>0, <1>2, <1>7, <2>1, <2>3, <2>4 DEF Clash
<1> QED BY <1>6, <1>7

\* A pool found short by one of two processes is being pruned by neither.
LEMMA ShortIsUnpruned ==
    ASSUME TypeInv, PoolInv, Cardinality(Proc) <= 2, NEW h \in Prompt,
           Cardinality(candidates[h]) < MinCandidates
    PROVE  Pruning(h) = {}
<1>1. Pruning(h) \in SUBSET Proc
  BY DEF Pruning
<1>2. /\ Cardinality(Pruning(h)) \in Nat /\ Processes \in Nat /\ Processes <= 2
      /\ Pruning(h) # {} => Cardinality(Pruning(h)) >= 1
  BY <1>1, ProcessCounts DEF Processes
<1>3. Cardinality(candidates[h]) \in Nat /\ MinCandidates \in Nat
  BY PoolTyped, RetrievalAssumption
<1>4. CASE Seeded(h)
  <2>1. Cardinality(candidates[h]) + Processes >= MinCandidates + 1 + Cardinality(Pruning(h))
    BY <1>4 DEF PoolInv, Floor
  <2> QED BY <1>2, <1>3, <2>1
<1>5. CASE ~Seeded(h)
  BY <1>5 DEF PoolInv, Floor
<1> QED BY <1>4, <1>5

\* No pool that was filled is empty.
LEMMA EmptyIsUnseeded ==
    ASSUME TypeInv, PoolInv, Cardinality(Proc) <= MinCandidates, NEW h \in Prompt,
           candidates[h] = {}
    PROVE  ~Seeded(h)
<1>1. Pruning(h) \in SUBSET Proc
  BY DEF Pruning
<1>2. Cardinality(Pruning(h)) \in Nat /\ Processes \in Nat /\ Processes <= MinCandidates
  BY <1>1, ProcessCounts DEF Processes
<1>3. Cardinality(candidates[h]) = 0 /\ MinCandidates \in Nat
  BY FS_EmptySet, RetrievalAssumption
<1>4. Seeded(h) =>
        Cardinality(candidates[h]) + Processes >= MinCandidates + 1 + Cardinality(Pruning(h))
  BY DEF PoolInv, Floor
<1> QED BY <1>2, <1>3, <1>4

\* A step that writes no pool.
LEMMA LocalFilling ==
    ASSUME TypeInv, PoolInv, RegensCounted, Cardinality(Proc) <= 2, Cardinality(Proc) <= MinCandidates,
           NEW p \in Proc, StepOf(p), ~RemoveCandidate(p), ~SeedCandidates(p),
           NEW h \in Prompt, Filling(h)
    PROVE  Filling(h)'
<1> DEFINE c == Cardinality(candidates[h])
<1>1. candidates' = candidates /\ registry' = registry
  BY PoolWriters
<1>2. c \in Nat /\ MinCandidates \in Nat
  BY PoolTyped, RetrievalAssumption
<1>3. Pruning(h)' \subseteq Proc /\ Seeding(h) \subseteq Proc /\ Seeding(h)' \subseteq Proc
  BY DEF Pruning, Seeding
<1>4. \A q \in Proc : q # p => (q \in Pruning(h)' => q \in Pruning(h))
  BY OthersInPools
<1>5. \A q \in Proc : q # p => (q \in Seeding(h)' => q \in Seeding(h)) /\ work'[q].need = work[q].need
  BY OthersInPools
<1>6. \A q \in Seeding(h)' : q \in Seeding(h) => Clash(q)' \subseteq Clash(q)
  BY <1>1, ClashShrinks
<1>7. CASE p \in Seeding(h)' /\ p \notin Seeding(h)
  <2>1. /\ pc'[p] = "regen" /\ PromptOfWork(p)' = h /\ c < MinCandidates
        /\ work'[p].need = MinCandidates - c
        /\ ~work'[p].reseed => candidates[h] = {}
    BY <1>7, EntersSeeding
  <2>2. Pruning(h)' = {}
    <3>1. Pruning(h) = {}
      BY <2>1, ShortIsUnpruned
    <3>2. p \notin Pruning(h)'
      BY <2>1 DEF Pruning
    <3> QED BY <1>3, <1>4, <3>1, <3>2
  <2>3. Clash(p)' = {}
    <3>1. CASE work'[p].reseed
      BY <2>1, <3>1 DEF Clash
    <3>2. CASE ~work'[p].reseed
      <4>1. ~Seeded(h)
        BY <2>1, <3>2, EmptyIsUnseeded
      <4> QED BY <1>1, <2>1, <4>1 DEF Clash, Seeded
    <3> QED BY <3>1, <3>2
  <2>4. \A q \in Seeding(h)' : Clash(q)' = {} /\ c + work'[q].need = MinCandidates
    <3> SUFFICES ASSUME NEW q \in Seeding(h)' PROVE Clash(q)' = {} /\ c + work'[q].need = MinCandidates
      OBVIOUS
    <3>1. CASE q = p
      BY <1>2, <2>1, <2>3, <3>1
    <3>2. CASE q # p
      <4>1. q \in Seeding(h) /\ work'[q].need = work[q].need
        BY <1>3, <1>5, <3>2
      <4>2. Clash(q) = {} /\ c + work[q].need = MinCandidates
        BY <2>1, <4>1 DEF Filling
      <4> QED BY <1>6, <4>1, <4>2
    <3> QED BY <3>1, <3>2
  <2>5. c' = c /\ candidates'[h] = candidates[h]
    BY <1>1
  <2>6. Cardinality(candidates'[h]) < MinCandidates /\ Cardinality(candidates'[h]) <= MinCandidates
    BY <1>2, <2>1, <2>5
  <2>7. \A q \in Seeding(h)' : Clash(q)' \subseteq candidates'[h]
    BY <2>4
  <2>8. \A q \in Seeding(h)' : Clash(q)' = {} /\ Cardinality(candidates'[h]) + work'[q].need = MinCandidates
    BY <2>4, <2>5
  <2> HIDE DEF c
  <2> QED BY <2>2, <2>6, <2>7, <2>8 DEF Filling
<1>8. CASE ~(p \in Seeding(h)' /\ p \notin Seeding(h))
  <2>1. Seeding(h)' \subseteq Seeding(h)
    BY <1>3, <1>5, <1>8
  <2>2. \A q \in Seeding(h)' : Clash(q)' \subseteq Clash(q) /\ work'[q].need = work[q].need
    <3> SUFFICES ASSUME NEW q \in Seeding(h)' PROVE work'[q].need = work[q].need
      BY <1>6, <2>1
    <3>1. CASE q = p
      BY <2>1, <3>1, StaysSeeding
    <3>2. CASE q # p
      BY <1>3, <1>5, <3>2
    <3> QED BY <3>1, <3>2
  <2>3. Seeding(h)' # {} => Pruning(h)' = {} /\ c <= MinCandidates
    <3> SUFFICES ASSUME Seeding(h)' # {} PROVE Pruning(h)' = {} /\ c <= MinCandidates
      OBVIOUS
    <3>1. Pruning(h) = {} /\ c <= MinCandidates
      BY <2>1 DEF Filling
    <3>2. p \notin Pruning(h)'
      BY <1>2, <3>1, JoinsPruning
    <3> QED BY <1>3, <1>4, <3>1, <3>2
  <2>4. candidates'[h] = candidates[h]
    BY <1>1
  <2>5. \A q, r \in Seeding(h)' : q # r => c < MinCandidates
    BY <2>1 DEF Filling
  <2>6. \A q \in Seeding(h)' :
           /\ Clash(q)' \subseteq candidates[h]
           /\ c < MinCandidates => Clash(q)' = {} /\ c + work'[q].need = MinCandidates
    <3> SUFFICES ASSUME NEW q \in Seeding(h)'
                 PROVE  /\ Clash(q)' \subseteq candidates[h]
                        /\ c < MinCandidates => Clash(q)' = {} /\ c + work'[q].need = MinCandidates
      OBVIOUS
    <3>1. Clash(q) \subseteq candidates[h]
          /\ (c < MinCandidates => Clash(q) = {} /\ c + work[q].need = MinCandidates)
      BY <2>1 DEF Filling
    <3> QED BY <2>2, <3>1
  <2> QED BY <2>3, <2>4, <2>5, <2>6 DEF Filling
<1> QED BY <1>7, <1>8

\* One DELETE of a prune: the pool it belongs to is not being filled.
LEMMA RemoveFilling ==
    ASSUME TypeInv, RegensCounted, NEW p \in Proc, RemoveCandidate(p), NEW h \in Prompt,
           Filling(h)
    PROVE  Filling(h)'
<1> DEFINE host == PromptOfWork(p)
<1>1. StepOf(p) /\ pc[p] = "remove" /\ host \in Prompt
  BY PromptTyped DEF StepOf, QueryStep, RemoveCandidate, QuerySteps
<1>2. p \in Pruning(host)
  BY <1>1 DEF RemoveCandidate, PruneDone, Pruning
<1>3. PICK a : candidates' = [candidates EXCEPT ![host] = @ \ {a}]
  BY DEF RemoveCandidate
<1>4. pc'[p] = "relist" /\ registry' = registry
  BY DEF RemoveCandidate, Goto, TypeInv, TypeOK
<1>5. p \notin Seeding(h) /\ p \notin Seeding(h)' /\ p \notin Pruning(h)'
  BY <1>1, <1>4 DEF Seeding, Pruning
<1>6. Seeding(h) \subseteq Proc /\ Seeding(h)' \subseteq Proc /\ Pruning(h)' \subseteq Proc
  BY DEF Seeding, Pruning
<1>7. \A q \in Proc : q # p => /\ q \in Pruning(h)' => q \in Pruning(h)
                               /\ q \in Seeding(h)' => q \in Seeding(h)
                               /\ work'[q].need = work[q].need
  BY <1>1, OthersInPools
<1>8. Pruning(h)' \subseteq Pruning(h) /\ Seeding(h)' \subseteq Seeding(h)
  BY <1>5, <1>6, <1>7
<1>9. CASE h = host
  <2>1. Seeding(h)' = {}
    BY <1>2, <1>8, <1>9 DEF Filling
  <2> QED BY <2>1 DEF Filling
<1>10. CASE h # host
  <2>1. candidates'[h] = candidates[h]
    BY <1>3, <1>10 DEF TypeInv, TypeOK
  <2>2. \A q \in Seeding(h)' : Clash(q)' \subseteq Clash(q)
    BY <1>1, <1>4, <1>8, ClashShrinks
  <2>3. \A q \in Seeding(h)' : work'[q].need = work[q].need
    BY <1>5, <1>6, <1>7
  <2>4. Seeding(h)' # {} => Pruning(h)' = {} /\ Cardinality(candidates[h]) <= MinCandidates
    BY <1>8 DEF Filling
  <2>5. \A q, r \in Seeding(h)' : q # r => Cardinality(candidates[h]) < MinCandidates
    BY <1>8 DEF Filling
  <2>6. \A q \in Seeding(h)' :
           /\ Clash(q)' \subseteq candidates[h]
           /\ Cardinality(candidates[h]) < MinCandidates =>
                 Clash(q)' = {} /\ Cardinality(candidates[h]) + work'[q].need = MinCandidates
    <3> SUFFICES ASSUME NEW q \in Seeding(h)'
                 PROVE  /\ Clash(q)' \subseteq candidates[h]
                        /\ Cardinality(candidates[h]) < MinCandidates =>
                              /\ Clash(q)' = {}
                              /\ Cardinality(candidates[h]) + work'[q].need = MinCandidates
      OBVIOUS
    <3>1. /\ Clash(q) \subseteq candidates[h]
          /\ Cardinality(candidates[h]) < MinCandidates =>
                Clash(q) = {} /\ Cardinality(candidates[h]) + work[q].need = MinCandidates
      BY <1>8 DEF Filling
    <3> QED BY <2>2, <2>3, <3>1
  <2> QED BY <2>1, <2>4, <2>5, <2>6 DEF Filling
<1> QED BY <1>9, <1>10

\* Of two processes, one is not a third.
LEMMA NoThird ==
    ASSUME Cardinality(Proc) <= 2, NEW p \in Proc, NEW q \in Proc, NEW r \in Proc, q # p, r # p
    PROVE  q = r
<1> DEFINE P == Proc \ {p}  Q == P \ {q}
<1>1. IsFiniteSet(Proc) /\ IsFiniteSet(P) /\ IsFiniteSet(Q)
  BY RetrievalAssumption, FS_RemoveElement
<1>2. Cardinality(P) = Cardinality(Proc) - 1 /\ Cardinality(Q) = Cardinality(P) - 1
  BY <1>1, FS_RemoveElement
<1>3. Cardinality(Proc) \in Nat /\ Cardinality(P) \in Nat /\ Cardinality(Q) \in Nat
  BY <1>1, FS_CardinalityType
<1>4. Cardinality(Q) = 0
  BY <1>2, <1>3
<1>5. Q = {}
  BY <1>1, <1>4, FS_EmptySet
<1> QED BY <1>5

\* The transaction that seeds.
LEMMA SeedFilling ==
    ASSUME TypeInv, PoolInv, Cardinality(Proc) <= 2, NEW p \in Proc, SeedCandidates(p),
           NEW h \in Prompt, Filling(h)
    PROVE  Filling(h)'
<1> DEFINE host == PromptOfWork(p)  G == Generated(p)
           c == Cardinality(candidates[h])  d == Cardinality(candidates[h])'
<1>1. StepOf(p) /\ pc[p] = "seed" /\ host \in Prompt
  BY PromptTyped DEF StepOf, QueryStep, SeedCandidates, QuerySteps
<1>2. p \in Seeding(host)
  BY <1>1 DEF Seeding
<1>3. /\ candidates' = [candidates EXCEPT ![host] = @ \cup G]
      /\ registry' = registry \cup G /\ work' = work /\ pc'[p] = "reload" /\ regenCount' = regenCount
  BY DEF SeedCandidates, Goto, TypeInv, TypeOK
<1>4. Seeding(h)' = Seeding(h) \ {p} /\ Seeding(h) \subseteq Proc
  BY <1>1, <1>3, OthersInPools DEF Seeding
<1>5. Pruning(h)' \subseteq Pruning(h)
  <2>1. p \notin Pruning(h)' /\ Pruning(h)' \subseteq Proc
    BY <1>3 DEF Pruning
  <2>2. \A q \in Proc : q # p => (q \in Pruning(h)' => q \in Pruning(h))
    BY <1>1, OthersInPools
  <2> QED BY <2>1, <2>2
<1>6. c \in Nat /\ IsFiniteSet(candidates[h]) /\ MinCandidates \in Nat
  BY PoolTyped, RetrievalAssumption
<1>7. /\ IsFiniteSet(G) /\ Cardinality(G) = work[p].need /\ work[p].need \in Nat
      /\ \A a \in G : a.prompt = host
  BY <1>1, Generates DEF QuerySteps
<1>8. \A q \in Seeding(h)' : \A a \in Clash(q)' : a.prompt = h /\ (a \in registry => a \in Clash(q))
  <2> SUFFICES ASSUME NEW q \in Seeding(h)', NEW a \in Clash(q)'
               PROVE  a.prompt = h /\ (a \in registry => a \in Clash(q))
    OBVIOUS
  <2>1. q \in Proc /\ q # p /\ PromptOfWork(q)' = h
    BY <1>4 DEF Seeding
  <2>2. pc'[q] = pc[q] /\ work'[q] = work[q]
    BY <1>1, <2>1, OthersKept
  <2> QED BY <1>3, <2>1, <2>2 DEF Clash, PromptOfWork
<1>9. \A q \in Seeding(h)' : Clash(q)' \subseteq registry \cup G
  BY <1>3 DEF Clash
<1>10. CASE h = host
  <2>1. candidates'[h] = candidates[h] \cup G
    BY <1>1, <1>3, <1>10 DEF TypeInv, TypeOK
  <2>2. ASSUME NEW q \in Seeding(h)' PROVE d = MinCandidates
    <3>1. q \in Seeding(h) /\ p \in Seeding(h) /\ q # p
      BY <1>2, <1>4, <1>10
    <3>2. c < MinCandidates
      BY <3>1 DEF Filling
    <3>3. Clash(p) = {} /\ c + work[p].need = MinCandidates
      BY <3>1, <3>2 DEF Filling
    <3>4. G \cap registry = {}
      BY <1>1, <3>3 DEF Clash, Generated
    <3>5. candidates[h] \subseteq registry
      BY DEF PoolInv, CandidatesRegistered
    <3>6. candidates[h] \cap G = {}
      BY <3>4, <3>5
    <3> HIDE DEF G
    <3>7. d = Cardinality(candidates[h] \cup G)
      BY <2>1
    <3>8. Cardinality(candidates[h] \cup G) = c + work[p].need - Cardinality(candidates[h] \cap G)
      BY <1>6, <1>7, FS_Union
    <3>9. Cardinality(candidates[h] \cap G) = 0
      BY <3>6, FS_EmptySet
    <3> QED BY <1>6, <1>7, <3>3, <3>7, <3>8, <3>9
  <2>3. \A q, r \in Seeding(h)' : q = r
    BY <1>4, NoThird
  <2>4. Seeding(h)' # {} => Pruning(h)' = {}
    BY <1>4, <1>5 DEF Filling
  <2>5. \A q \in Seeding(h)' : Clash(q)' \subseteq candidates'[h]
    <3> SUFFICES ASSUME NEW q \in Seeding(h)', NEW a \in Clash(q)' PROVE a \in candidates'[h]
      OBVIOUS
    <3>1. Clash(q) \subseteq candidates[h]
      BY <1>4 DEF Filling
    <3> QED BY <1>8, <1>9, <2>1, <3>1
  <2>6. Seeding(h)' # {} => d = MinCandidates
    BY <2>2
  <2>7. Seeding(h)' # {} => d <= MinCandidates /\ ~(d < MinCandidates)
    BY <1>6, <2>6
  <2> QED BY <2>3, <2>4, <2>5, <2>7 DEF Filling
<1>11. CASE h # host
  <2>1. candidates'[h] = candidates[h]
    BY <1>3, <1>11 DEF TypeInv, TypeOK
  <2>2. \A q \in Seeding(h)' : Clash(q)' \subseteq Clash(q)
    BY <1>7, <1>8, <1>9, <1>11
  <2>3. \A q, r \in Seeding(h)' : q # r => c < MinCandidates
    BY <1>4 DEF Filling
  <2>4. Seeding(h)' # {} => Pruning(h)' = {} /\ c <= MinCandidates
    BY <1>4, <1>5 DEF Filling
  <2>5. \A q \in Seeding(h)' :
           /\ Clash(q)' \subseteq candidates[h]
           /\ c < MinCandidates => Clash(q)' = {} /\ c + work[q].need = MinCandidates
    BY <1>4, <2>2 DEF Filling
  <2> QED BY <1>3, <2>1, <2>3, <2>4, <2>5 DEF Filling
<1> QED BY <1>10, <1>11

LEMMA NextFreshInv ==
    ASSUME TypeInv, PoolInv, Cardinality(Proc) <= 2, Cardinality(Proc) <= MinCandidates,
           FreshInv, [Next]_vars
    PROVE  FreshInv'
<1>1. CASE UNCHANGED vars
  BY <1>1 DEF vars, poolVars, FreshInv, RegensCounted, Filling, Clash, Pruning, Seeding, PromptOfWork
<1>2. ASSUME NEW p \in Proc, StepOf(p) PROVE FreshInv'
  <2>1. RegensCounted'
    BY <1>2, NextRegensCounted DEF FreshInv
  <2>2. ASSUME NEW h \in Prompt PROVE Filling(h)'
    BY <1>2, LocalFilling, RemoveFilling, SeedFilling DEF FreshInv
  <2> QED BY <2>1, <2>2 DEF FreshInv
<1>3. Next => \E p \in Proc : StepOf(p)
  BY DEF Next, StepOf
<1> QED BY <1>1, <1>2, <1>3

\* Nothing a transaction puts into a pool has a history.
LEMMA StepSeedsFresh ==
    ASSUME TypeInv, PoolInv, ArmInv, FreshInv, [Next]_vars,
           NEW h \in Prompt, NEW a \in candidates'[h] \ candidates[h]
    PROVE  a \notin DOMAIN stats
<1>1. CASE UNCHANGED vars
  BY <1>1 DEF vars, poolVars
<1>2. ASSUME NEW p \in Proc, StepOf(p) PROVE a \notin DOMAIN stats
  <2>1. CASE ~RemoveCandidate(p) /\ ~SeedCandidates(p)
    BY <1>2, <2>1, PoolWriters
  <2>2. CASE RemoveCandidate(p)
    <3>1. PICK b : candidates' = [candidates EXCEPT ![PromptOfWork(p)] = @ \ {b}]
      BY <2>2 DEF RemoveCandidate
    <3> QED BY <3>1 DEF TypeInv, TypeOK
  <2>3. CASE SeedCandidates(p)
    <3>1. /\ candidates' = [candidates EXCEPT ![PromptOfWork(p)] = @ \cup Generated(p)]
          /\ pc[p] = "seed"
      BY <2>3 DEF SeedCandidates
    <3>2. h = PromptOfWork(p) /\ a \in Generated(p)
      BY <3>1 DEF TypeInv, TypeOK
    <3>3. p \in Seeding(h)
      BY <3>1, <3>2 DEF Seeding
    <3>4. a \in registry => a \in Clash(p)
      BY <3>1, <3>2 DEF Clash, Generated
    <3>5. Clash(p) \subseteq candidates[h]
      BY <3>3 DEF FreshInv, Filling
    <3> QED BY <3>4, <3>5 DEF ArmInv
  <2> QED BY <2>1, <2>2, <2>3
<1>3. Next => \E p \in Proc : StepOf(p)
  BY DEF Next, StepOf
<1> QED BY <1>1, <1>2, <1>3

\* A proposal that was pruned for its rewards, or that has any history, never comes back
\* into a pool, as long as one or two processes share the file. A process reads the
\* index of a filling before the transaction that uses it: of three that fill one pool,
\* two can take it above the minimum and one of these prune it again, while the third
\* still holds the index of what was pruned and gives it out once more.
THEOREM SeedsAreFresh ==
    ASSUME Cardinality(Proc) <= 2, Cardinality(Proc) <= MinCandidates
    PROVE  Spec => FreshlySeeded
<1>1. Init => ArmInv
  BY RetrievalAssumption DEF Init, ArmInv, ArmAt, RewardSteps
<1>2. Init => FreshInv
  BY DEF Init, FreshInv, RegensCounted, Filling, Seeding
<1>3. TypeInv /\ ArmInv /\ [Next]_vars => ArmInv'
  BY NextArmInv
<1>4. TypeInv /\ PoolInv /\ FreshInv /\ [Next]_vars => FreshInv'
  BY NextFreshInv
<1>5. TypeInv /\ PoolInv /\ ArmInv /\ FreshInv /\ [Next]_vars =>
        [\A h \in Prompt : \A a \in candidates'[h] \ candidates[h] : a \notin DOMAIN stats]_vars
  BY StepSeedsFresh
<1> QED BY <1>1, <1>2, <1>3, <1>4, <1>5, TypeInvariant, PoolInvariant, PTL DEF Spec, FreshlySeeded
=============================================================================
