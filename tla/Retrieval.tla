------------------------------ MODULE Retrieval ------------------------------
(***************************************************************************)
(* Prompt retrieval and reward logging of the playable core: the code of   *)
(* src/playable/retrieval_engine.cpp, prompt_cache.cpp and                 *)
(* proposal_selector.cpp, run by several operating-system processes (the   *)
(* HTTP server and command-line invocations) over one SQLite file.         *)
(*                                                                         *)
(* Every SQL statement outside a SqliteTransaction commits by itself, so   *)
(* one action is one statement or one transaction, and another process may *)
(* act between any two of them. A process may stop between any two steps:  *)
(* it is killed, or a write throws because another connection holds the    *)
(* lock (no busy timeout is set); what it committed stays.                 *)
(*                                                                         *)
(* A proposal identifier is a hash of the prompt, the regeneration index   *)
(* and a position: it is modelled by that triple. Weights of the bandit    *)
(* are modelled by the sequence of updates they have absorbed.             *)
(***************************************************************************)
EXTENDS Integers, Sequences, FiniteSets

CONSTANTS
    Proc,             \* processes that open the database file
    Submit,           \* a raw query text under a domain
    Prompt,           \* prompt hashes
    PromptOf,         \* the prompt hash a submit canonicalises to
    Caller,           \* records [player, session] a request may carry
    Reward,           \* reward values, in quarters: 0..4 stands for 0.0..1.0
    MinCandidates,    \* kMinCandidates
    PruneMinRewards,  \* kPruneMinRewardCount
    PruneMeanReward,  \* kPruneMeanRewardThreshold, in quarters
    MaxOps,           \* bound: requests issued in a behaviour
    MaxCrashes,       \* bound: processes that stop in the middle of a request
    None              \* absence of a value (SQL NULL, std::nullopt)

ASSUME RetrievalAssumption ==
    /\ IsFiniteSet(Proc)
    /\ PromptOf \in [Submit -> Prompt]
    /\ \A c \in Caller : DOMAIN c = {"player", "session"}
    /\ Reward \subseteq 0 .. 4
    /\ MinCandidates \in Nat \ {0}
    /\ PruneMinRewards \in Nat \ {0}
    /\ PruneMeanReward \in Nat
    /\ MaxOps \in Nat
    /\ MaxCrashes \in Nat
    /\ None \notin Submit /\ None \notin Caller /\ None \notin Reward

VARIABLES
    promptCache,  \* prompt_cache: the prompt hashes with a row
    registry,     \* proposal_registry: proposals that can be loaded
    candidates,   \* prompt_candidates: the pool of each prompt
    regenCount,   \* prompt_meta.regen_count of each prompt
    queries,      \* query_registry: submits with a query id
    log,          \* interaction_log, in id order
    stats,        \* proposal_stats: a row per proposal shown or rewarded
    bandit,       \* bandit_state: None, or the updates the weights absorbed
    pc,           \* the next statement of each process
    work,         \* local variables of the request a process serves
    reply,        \* the "updated" field of the last /reward response
    ops,          \* requests issued so far
    crashes       \* requests cut short so far

poolVars   == <<promptCache, registry, candidates, regenCount>>
ledgerVars == <<log, stats, bandit>>
envVars    == <<reply, ops, crashes>>
vars == <<poolVars, queries, ledgerVars, pc, work, envVars>>

-----------------------------------------------------------------------------
(* Records of the store.                                                   *)

Proposal == [prompt : Prompt, regen : Nat, index : Nat]

Interaction ==
    [caller : Caller, submit : Submit, arm : Proposal, novel : BOOLEAN,
     applied : BOOLEAN, reward : Reward \cup {None}]

StatsRow == [shown : Nat, sum : Nat, count : Nat]

\* One gradient step: the reward of row "rewarded" on the features of "features".
Update == [rewarded : Nat, features : Nat]

\* No row in bandit_state is not the same as weights that have learnt nothing.
ASSUME WeightsAssumption == None \notin Seq(Update)

CandidateScore == [arm : Proposal, sum : Nat, count : Nat]

Work ==
    [submit : Submit \cup {None}, caller : Caller \cup {None},
     reward : Reward \cup {None}, arm : Proposal \cup {None},
     novel : BOOLEAN, listed : SUBSET Proposal,
     removable : SUBSET CandidateScore, need : Nat, reseed : BOOLEAN,
     regen : Nat, offset : Nat, already : BOOLEAN, row : Nat,
     features : Nat, weights : Seq(Update)]

NoWork ==
    [submit |-> None, caller |-> None, reward |-> None, arm |-> None,
     novel |-> FALSE, listed |-> {}, removable |-> {}, need |-> 0,
     reseed |-> FALSE, regen |-> 0, offset |-> 0, already |-> FALSE,
     row |-> 0, features |-> 0, weights |-> <<>>]

QuerySteps ==
    {"find", "cache", "prune", "score", "remove", "relist", "list", "regen",
     "reread", "offset", "seed", "reload", "select", "query", "log", "show"}
RewardSteps == {"before", "apply", "tally", "features", "learn", "after"}
Steps == {"idle", "construct", "initWeights"} \cup QuerySteps \cup RewardSteps

PromptOfWork(p) == PromptOf[work[p].submit]

NoStats == [shown |-> 0, sum |-> 0, count |-> 0]
StatsOf(a) == IF a \in DOMAIN stats THEN stats[a] ELSE NoStats

\* INSERT ... ON CONFLICT(proposal_id) DO UPDATE on proposal_stats.
UpsertStats(a, row) ==
    stats' = [x \in DOMAIN stats \cup {a} |-> IF x = a THEN row ELSE stats[x]]

-----------------------------------------------------------------------------
Init ==
    /\ promptCache = {}
    /\ registry = {}
    /\ candidates = [h \in Prompt |-> {}]
    /\ regenCount = [h \in Prompt |-> 0]
    /\ queries = {}
    /\ log = <<>>
    /\ stats = [a \in {} |-> NoStats]
    /\ bandit = None
    /\ pc = [p \in Proc |-> "idle"]
    /\ work = [p \in Proc |-> NoWork]
    /\ reply = [p \in Proc |-> "none"]
    /\ ops = 0
    /\ crashes = 0

Goto(p, step) == pc' = [pc EXCEPT ![p] = step]

Finish(p) ==
    /\ Goto(p, "idle")
    /\ work' = [work EXCEPT ![p] = NoWork]

Begin(p, request) ==
    /\ pc[p] = "idle"
    /\ ops < MaxOps
    /\ ops' = ops + 1
    /\ Goto(p, "construct")
    /\ work' = [work EXCEPT ![p] = request]
    /\ reply' = [reply EXCEPT ![p] = "none"]
    /\ UNCHANGED <<poolVars, queries, ledgerVars, crashes>>

\* POST /query, or --query: both build a BanditSelector and run the retrieval.
StartQuery(p) ==
    \E s \in Submit, c \in Caller :
        Begin(p, [NoWork EXCEPT !.submit = s, !.caller = c])

\* POST /reward, or --reward: a client rewards a proposal it was shown.
StartReward(p) ==
    \E i \in 1 .. Len(log), c \in Caller, v \in Reward :
        Begin(p, [NoWork EXCEPT !.caller = c, !.arm = log[i].arm, !.reward = v])

-----------------------------------------------------------------------------
(* BanditSelector: the constructor loads the weights, and stores zeros     *)
(* when there is no row yet.                                               *)

AfterConstruct(p) == IF work[p].submit # None THEN "find" ELSE "before"

\* Mutant: the constructor does not test whether a row was found.
LoadWeightsUntested(p) ==
    /\ pc[p] = "construct"
    /\ work' = [work EXCEPT ![p].weights = bandit]
    /\ Goto(p, AfterConstruct(p))
    /\ UNCHANGED <<poolVars, queries, ledgerVars, envVars>>

LoadWeights(p) ==
    /\ pc[p] = "construct"
    /\ \/ /\ bandit # None
          /\ work' = [work EXCEPT ![p].weights = bandit]
          /\ Goto(p, AfterConstruct(p))
       \/ /\ bandit = None
          /\ Goto(p, "initWeights")
          /\ UNCHANGED work
    /\ UNCHANGED <<poolVars, queries, ledgerVars, envVars>>

PersistInitialWeights(p) ==
    /\ pc[p] = "initWeights"
    /\ bandit' = <<>>
    /\ Goto(p, AfterConstruct(p))
    /\ UNCHANGED <<poolVars, queries, log, stats, work, envVars>>

-----------------------------------------------------------------------------
(* run_retrieval_detailed.                                                 *)

\* find_prompt_cache; a hit also runs mark_prompt_cache_hit, whose hit_count
\* and last_used_at no code reads back.
FindPromptCache(p) ==
    LET hit == PromptOfWork(p) \in promptCache
    IN  /\ pc[p] = "find"
        /\ Goto(p, IF hit THEN "prune" ELSE "cache")
        /\ work' = [work EXCEPT ![p].novel = ~hit]
        /\ UNCHANGED <<poolVars, queries, ledgerVars, envVars>>

\* Mutant: INSERT OR IGNORE, so that the losers of a race go on as novel.
InsertPromptCacheOrIgnore(p) ==
    /\ pc[p] = "cache"
    /\ promptCache' = promptCache \cup {PromptOfWork(p)}
    /\ Goto(p, "prune")
    /\ UNCHANGED <<registry, candidates, regenCount, queries, ledgerVars, work, envVars>>

InsertPromptCache(p) ==
    /\ pc[p] = "cache"
    /\ PromptOfWork(p) \notin promptCache
    /\ promptCache' = promptCache \cup {PromptOfWork(p)}
    /\ Goto(p, "prune")
    /\ UNCHANGED <<registry, candidates, regenCount, queries, ledgerVars, work, envVars>>

\* The plain INSERT violates the primary key: the exception ends the request.
PromptCacheConflict(p) ==
    /\ pc[p] = "cache"
    /\ PromptOfWork(p) \in promptCache
    /\ Finish(p)
    /\ UNCHANGED <<poolVars, queries, ledgerVars, envVars>>

\* prune_prompt_candidates, first statement.
PruneList(p) ==
    LET pool == candidates[PromptOfWork(p)]
    IN  /\ pc[p] = "prune"
        /\ work' = [work EXCEPT ![p].listed = pool]
        /\ Goto(p, IF Cardinality(pool) <= MinCandidates THEN "list" ELSE "score")
        /\ UNCHANGED <<poolVars, queries, ledgerVars, envVars>>

Removable(a) ==
    /\ StatsOf(a).count >= PruneMinRewards
    /\ StatsOf(a).sum < PruneMeanReward * StatsOf(a).count

\* The statistics of all listed candidates, read in one step.
ScoreCandidates(p) ==
    /\ pc[p] = "score"
    /\ work' = [work EXCEPT ![p].removable =
                   {[arm |-> a, sum |-> StatsOf(a).sum, count |-> StatsOf(a).count] :
                        a \in {b \in work[p].listed : Removable(b)}}]
    /\ Goto(p, "remove")
    /\ UNCHANGED <<poolVars, queries, ledgerVars, envVars>>

\* The sort puts the lowest mean first, then the most rewarded; ties in any order.
SortsBefore(a, b) ==
    \/ a.sum * b.count < b.sum * a.count
    \/ a.sum * b.count = b.sum * a.count /\ a.count > b.count

FirstOf(scores) == {a \in scores : \A b \in scores : ~SortsBefore(b, a)}

\* Mutant: the loop does not test the size of the pool.
PruneDoneUnfloored(p) == work[p].removable = {}

PruneDone(p) ==
    \/ work[p].removable = {}
    \/ Cardinality(work[p].listed) <= MinCandidates

\* Mutant: pruning also deletes the proposal itself.
RemoveCandidateAndProposal(p) ==
    /\ pc[p] = "remove"
    /\ ~PruneDone(p)
    /\ \E worst \in FirstOf(work[p].removable) :
          /\ candidates' = [candidates EXCEPT ![PromptOfWork(p)] = @ \ {worst.arm}]
          /\ registry' = registry \ {worst.arm}
          /\ work' = [work EXCEPT ![p].removable = @ \ {worst}]
    /\ Goto(p, "relist")
    /\ UNCHANGED <<promptCache, regenCount, queries, ledgerVars, envVars>>

RemoveCandidate(p) ==
    /\ pc[p] = "remove"
    /\ ~PruneDone(p)
    /\ \E worst \in FirstOf(work[p].removable) :
          /\ candidates' = [candidates EXCEPT ![PromptOfWork(p)] = @ \ {worst.arm}]
          /\ work' = [work EXCEPT ![p].removable = @ \ {worst}]
    /\ Goto(p, "relist")
    /\ UNCHANGED <<promptCache, registry, regenCount, queries, ledgerVars, envVars>>

RelistCandidates(p) ==
    /\ pc[p] = "relist"
    /\ work' = [work EXCEPT ![p].listed = candidates[PromptOfWork(p)]]
    /\ Goto(p, "remove")
    /\ UNCHANGED <<poolVars, queries, ledgerVars, envVars>>

FinishPrune(p) ==
    /\ pc[p] = "remove"
    /\ PruneDone(p)
    /\ Goto(p, "list")
    /\ UNCHANGED <<poolVars, queries, ledgerVars, work, envVars>>

\* list_prompt_candidate_ids, and the decision to seed.
ListCandidates(p) ==
    LET pool == candidates[PromptOfWork(p)]
        short == Cardinality(pool) < MinCandidates
    IN  /\ pc[p] = "list"
        /\ work' = [work EXCEPT ![p].listed = pool, ![p].removable = {},
                       ![p].need = IF short THEN MinCandidates - Cardinality(pool) ELSE 0,
                       ![p].reseed = short /\ pool # {}]
        /\ Goto(p, IF short THEN "regen" ELSE "select")
        /\ UNCHANGED <<poolVars, queries, ledgerVars, envVars>>

\* seed_prompt_candidates: a reseed increments the counter and reads it again.
ReadRegen(p) ==
    /\ pc[p] = "regen"
    /\ ~work[p].reseed
    /\ work' = [work EXCEPT ![p].regen = regenCount[PromptOfWork(p)]]
    /\ Goto(p, "offset")
    /\ UNCHANGED <<poolVars, queries, ledgerVars, envVars>>

\* Mutant: a reseed does not change the regeneration index.
IncrementRegenSkipped(p) ==
    /\ pc[p] = "regen"
    /\ work[p].reseed
    /\ Goto(p, "reread")
    /\ UNCHANGED <<poolVars, queries, ledgerVars, work, envVars>>

IncrementRegen(p) ==
    /\ pc[p] = "regen"
    /\ work[p].reseed
    /\ regenCount' = [regenCount EXCEPT ![PromptOfWork(p)] = @ + 1]
    /\ Goto(p, "reread")
    /\ UNCHANGED <<promptCache, registry, candidates, queries, ledgerVars, work, envVars>>

RereadRegen(p) ==
    /\ pc[p] = "reread"
    /\ work' = [work EXCEPT ![p].regen = regenCount[PromptOfWork(p)]]
    /\ Goto(p, "offset")
    /\ UNCHANGED <<poolVars, queries, ledgerVars, envVars>>

CountExisting(p) ==
    /\ pc[p] = "offset"
    /\ work' = [work EXCEPT ![p].offset = Cardinality(candidates[PromptOfWork(p)])]
    /\ Goto(p, "seed")
    /\ UNCHANGED <<poolVars, queries, ledgerVars, envVars>>

\* Mutant: one proposal too many.
GeneratedOneMore(p) ==
    {[prompt |-> PromptOfWork(p), regen |-> work[p].regen, index |-> i] :
        i \in work[p].offset .. (work[p].offset + work[p].need)}

Generated(p) ==
    {[prompt |-> PromptOfWork(p), regen |-> work[p].regen, index |-> i] :
        i \in work[p].offset .. (work[p].offset + work[p].need - 1)}

\* Mutant: the seeding transaction forgets to register what it inserts.
SeedCandidatesUnregistered(p) ==
    /\ pc[p] = "seed"
    /\ candidates' = [candidates EXCEPT ![PromptOfWork(p)] = @ \cup Generated(p)]
    /\ Goto(p, "reload")
    /\ UNCHANGED <<promptCache, registry, regenCount, queries, ledgerVars, work, envVars>>

SeedCandidates(p) ==
    /\ pc[p] = "seed"
    /\ registry' = registry \cup Generated(p)
    /\ candidates' = [candidates EXCEPT ![PromptOfWork(p)] = @ \cup Generated(p)]
    /\ Goto(p, "reload")
    /\ UNCHANGED <<promptCache, regenCount, queries, ledgerVars, work, envVars>>

ReloadCandidates(p) ==
    /\ pc[p] = "reload"
    /\ work' = [work EXCEPT ![p].listed = candidates[PromptOfWork(p)]]
    /\ Goto(p, "select")
    /\ UNCHANGED <<poolVars, queries, ledgerVars, envVars>>

\* load_proposal of every candidate, then BanditSelector::select: any arm. The
\* two exceptions of this step (no candidate, one that is not registered) are the
\* cases the guard excludes; SelectionNeverThrows states that neither occurs.
SelectProposal(p) ==
    /\ pc[p] = "select"
    /\ work[p].listed \subseteq registry
    /\ \E a \in work[p].listed : work' = [work EXCEPT ![p].arm = a]
    /\ Goto(p, "query")
    /\ UNCHANGED <<poolVars, queries, ledgerVars, envVars>>

GetOrCreateQueryId(p) ==
    /\ pc[p] = "query"
    /\ queries' = queries \cup {work[p].submit}
    /\ Goto(p, "log")
    /\ UNCHANGED <<poolVars, ledgerVars, work, envVars>>

\* Mutant: the query for the last row does not name the player and the session.
RowsOfAnyone(rows, caller) == 1 .. Len(rows)

RowsOf(rows, caller) == {i \in 1 .. Len(rows) : rows[i].caller = caller}

\* The last row of a caller: ORDER BY id DESC LIMIT 1.
IsLast(rows, caller, i) ==
    i \in RowsOf(rows, caller) /\ \A j \in RowsOf(rows, caller) : j <= i

SameSubmit(r, s) == r.submit = s.submit /\ r.arm = s.arm

\* should_dedupe_identical_submit: only the caller's last row is compared.
Dedupes(rows, r) ==
    \E i \in 1 .. Len(rows) : IsLast(rows, r.caller, i) /\ SameSubmit(rows[i], r)

NewRow(p) ==
    [caller |-> work[p].caller, submit |-> work[p].submit, arm |-> work[p].arm,
     novel |-> work[p].novel, applied |-> FALSE, reward |-> None]

\* insert_interaction_log: the comparison and the INSERT are one transaction.
InsertInteraction(p) ==
    /\ pc[p] = "log"
    /\ log' = IF Dedupes(log, NewRow(p)) THEN log ELSE Append(log, NewRow(p))
    /\ Goto(p, "show")
    /\ UNCHANGED <<poolVars, queries, stats, bandit, work, envVars>>

\* update_proposal_stats_on_show runs whether or not a row was written.
\* Mutant: INSERT OR REPLACE starts the statistics again.
StatsOnShowReplaced(p) ==
    /\ pc[p] = "show"
    /\ UpsertStats(work[p].arm, [NoStats EXCEPT !.shown = 1])
    /\ Finish(p)
    /\ UNCHANGED <<poolVars, queries, log, bandit, envVars>>

StatsOnShow(p) ==
    LET a == work[p].arm
    IN  /\ pc[p] = "show"
        /\ UpsertStats(a, [StatsOf(a) EXCEPT !.shown = @ + 1])
        /\ Finish(p)
        /\ UNCHANGED <<poolVars, queries, log, bandit, envVars>>

-----------------------------------------------------------------------------
(* POST /reward and log_reward. The command line runs the same calls       *)
(* without the two reads that compute "updated".                           *)

Matching(caller, arm) ==
    {i \in 1 .. Len(log) : log[i].caller.session = caller.session /\ log[i].arm = arm}

MatchOf(p) == Matching(work[p].caller, work[p].arm)

Latest(ids, i) == i \in ids /\ \A j \in ids : j <= i

ReadBefore(p) ==
    /\ pc[p] = "before"
    /\ \E i \in MatchOf(p) :
          /\ Latest(MatchOf(p), i)
          /\ work' = [work EXCEPT ![p].already = log[i].applied]
    /\ Goto(p, "apply")
    /\ UNCHANGED <<poolVars, queries, ledgerVars, envVars>>

NoMatchingInteraction(p) ==
    /\ pc[p] = "before"
    /\ MatchOf(p) = {}
    /\ Finish(p)
    /\ reply' = [reply EXCEPT ![p] = "unchanged"]
    /\ UNCHANGED <<poolVars, queries, ledgerVars, ops, crashes>>

Unapplied(p) == {i \in MatchOf(p) : ~log[i].applied}

\* Mutant: the earliest row without a reward.
ApplyRewardEarliest(p) ==
    /\ pc[p] = "apply"
    /\ \E i \in Unapplied(p) :
          /\ \A j \in Unapplied(p) : i <= j
          /\ log' = [log EXCEPT ![i].applied = TRUE, ![i].reward = work[p].reward]
          /\ work' = [work EXCEPT ![p].row = i]
    /\ Goto(p, "tally")
    /\ UNCHANGED <<poolVars, queries, stats, bandit, envVars>>

\* log_reward_interaction_once: the latest row still without a reward.
ApplyReward(p) ==
    /\ pc[p] = "apply"
    /\ \E i \in Unapplied(p) :
          /\ Latest(Unapplied(p), i)
          /\ log' = [log EXCEPT ![i].applied = TRUE, ![i].reward = work[p].reward]
          /\ work' = [work EXCEPT ![p].row = i]
    /\ Goto(p, "tally")
    /\ UNCHANGED <<poolVars, queries, stats, bandit, envVars>>

\* Mutant: the number of changed rows is not tested.
NothingToApplyUntested(p) ==
    /\ pc[p] = "apply"
    /\ Unapplied(p) = {}
    /\ Goto(p, "tally")
    /\ UNCHANGED <<poolVars, queries, ledgerVars, work, envVars>>

\* sqlite3_changes() is 0: log_reward returns before it touches the statistics.
NothingToApply(p) ==
    /\ pc[p] = "apply"
    /\ Unapplied(p) = {}
    /\ Goto(p, "after")
    /\ UNCHANGED <<poolVars, queries, ledgerVars, work, envVars>>

StatsOnReward(p) ==
    LET a == work[p].arm
    IN  /\ pc[p] = "tally"
        /\ UpsertStats(a, [StatsOf(a) EXCEPT !.sum = @ + work[p].reward, !.count = @ + 1])
        /\ Goto(p, "features")
        /\ UNCHANGED <<poolVars, queries, log, bandit, work, envVars>>

\* latest_interaction_for_session_and_arm: not always the rewarded row.
ReadFeatures(p) ==
    /\ pc[p] = "features"
    /\ \E i \in MatchOf(p) :
          /\ Latest(MatchOf(p), i)
          /\ work' = [work EXCEPT ![p].features = i]
    /\ Goto(p, "learn")
    /\ UNCHANGED <<poolVars, queries, ledgerVars, envVars>>

\* Mutant: the update starts from zero weights.
UpdateWithRewardFromZero(p) ==
    /\ pc[p] = "learn"
    /\ bandit' = <<[rewarded |-> work[p].row, features |-> work[p].features]>>
    /\ Goto(p, "after")
    /\ UNCHANGED <<poolVars, queries, log, stats, work, envVars>>

\* update_with_reward, from the weights the constructor loaded, persist_state.
UpdateWithReward(p) ==
    /\ pc[p] = "learn"
    /\ bandit' = Append(work[p].weights,
                        [rewarded |-> work[p].row, features |-> work[p].features])
    /\ Goto(p, "after")
    /\ UNCHANGED <<poolVars, queries, log, stats, work, envVars>>

ReadAfter(p) ==
    /\ pc[p] = "after"
    /\ \E i \in MatchOf(p) :
          /\ Latest(MatchOf(p), i)
          /\ reply' = [reply EXCEPT ![p] =
                 IF ~work[p].already /\ log[i].applied THEN "updated" ELSE "unchanged"]
    /\ Finish(p)
    /\ UNCHANGED <<poolVars, queries, ledgerVars, ops, crashes>>

-----------------------------------------------------------------------------
\* The process stops, or a statement throws SQLITE_BUSY: local state is lost.
Crash(p) ==
    /\ pc[p] # "idle"
    /\ crashes < MaxCrashes
    /\ crashes' = crashes + 1
    /\ Finish(p)
    /\ UNCHANGED <<poolVars, queries, ledgerVars, reply, ops>>

QueryStep(p) ==
    \/ FindPromptCache(p) \/ InsertPromptCache(p) \/ PromptCacheConflict(p)
    \/ PruneList(p) \/ ScoreCandidates(p) \/ RemoveCandidate(p)
    \/ RelistCandidates(p) \/ FinishPrune(p) \/ ListCandidates(p)
    \/ ReadRegen(p) \/ IncrementRegen(p) \/ RereadRegen(p)
    \/ CountExisting(p) \/ SeedCandidates(p) \/ ReloadCandidates(p)
    \/ SelectProposal(p) \/ GetOrCreateQueryId(p)
    \/ InsertInteraction(p) \/ StatsOnShow(p)

RewardStep(p) ==
    \/ ReadBefore(p) \/ NoMatchingInteraction(p) \/ ApplyReward(p)
    \/ NothingToApply(p) \/ StatsOnReward(p) \/ ReadFeatures(p)
    \/ UpdateWithReward(p) \/ ReadAfter(p)

Next ==
    \E p \in Proc :
        \/ StartQuery(p) \/ StartReward(p)
        \/ LoadWeights(p) \/ PersistInitialWeights(p)
        \/ QueryStep(p) \/ RewardStep(p)
        \/ Crash(p)

Spec == Init /\ [][Next]_vars

-----------------------------------------------------------------------------
(* Properties.                                                             *)

TypeOK ==
    /\ promptCache \subseteq Prompt
    /\ registry \subseteq Proposal
    /\ candidates \in [Prompt -> SUBSET Proposal]
    /\ regenCount \in [Prompt -> Nat]
    /\ queries \subseteq Submit
    /\ log \in Seq(Interaction)
    /\ DOMAIN stats \subseteq Proposal
    /\ stats \in [DOMAIN stats -> StatsRow]
    /\ bandit \in Seq(Update) \cup {None}
    /\ pc \in [Proc -> Steps]
    /\ work \in [Proc -> Work]
    /\ reply \in [Proc -> {"none", "updated", "unchanged"}]
    /\ ops \in 0 .. MaxOps
    /\ crashes \in 0 .. MaxCrashes

\* The exceptions "No prompt candidates available" and "proposal_id missing from
\* proposal_registry" cannot occur: whatever other processes prune or seed in
\* between, a request that reaches the selection has a non-empty, loadable pool.
SelectionNeverThrows ==
    \A p \in Proc : pc[p] = "select" =>
        /\ work[p].listed # {}
        /\ work[p].listed \subseteq registry

\* Every candidate of a pool is a registered proposal of that very prompt (the
\* foreign key the seeding transaction must satisfy).
CandidatesRegistered ==
    \A h \in Prompt : \A a \in candidates[h] : a \in registry /\ a.prompt = h

\* A pruning process tests the size it listed before its own DELETE, so every other
\* process may take one more candidate than the minimum allows, but no more than one
\* each: a pool that was filled keeps MinCandidates - (N - 1). Processes that all saw
\* an underfull pool each add what they found missing: concurrency may overfill a
\* pool, never beyond one filling per process.
PoolBounds ==
    \A h \in Prompt :
        /\ (\E a \in registry : a.prompt = h) =>
              Cardinality(candidates[h]) >= MinCandidates - (Cardinality(Proc) - 1)
        /\ Cardinality(candidates[h]) <= MinCandidates * Cardinality(Proc)

\* Seeding brings in fresh proposals: one that was pruned for its rewards, or
\* that has any history, never comes back into a pool.
FreshlySeeded ==
    [][\A h \in Prompt : \A a \in candidates'[h] \ candidates[h] : a \notin DOMAIN stats]_vars

\* novelty_flag marks the request that created the prompt's cache row: however
\* many processes race on a new prompt, at most one logged row carries it.
NoveltyOnce ==
    \A i, j \in 1 .. Len(log) :
        /\ log[i].novel /\ log[j].novel
        /\ PromptOf[log[i].submit] = PromptOf[log[j].submit]
        => i = j

Consecutive(rows, i, j) ==
    /\ i < j
    /\ rows[i].caller = rows[j].caller
    /\ \A k \in 1 .. Len(rows) : i < k /\ k < j => rows[k].caller # rows[i].caller

\* What should_dedupe_identical_submit achieves: two consecutive rows of a player's
\* session never record the same submit with the same proposal, although any number
\* of processes may be logging for that session.
NoConsecutiveDuplicates ==
    \A i, j \in 1 .. Len(log) : Consecutive(log, i, j) => ~SameSubmit(log[i], log[j])

\* The invariant the comment of insert_interaction_log claims: identical submits of a
\* player and session never write a second row.
NoDuplicateRows ==
    \A i, j \in 1 .. Len(log) :
        log[i].caller = log[j].caller /\ SameSubmit(log[i], log[j]) => i = j

Arms == DOMAIN stats \cup {log[i].arm : i \in 1 .. Len(log)}
AppliedRows(a) == {i \in 1 .. Len(log) : log[i].arm = a /\ log[i].applied}
RowsShowing(a) == {i \in 1 .. Len(log) : log[i].arm = a}
PendingAt(step, a) == {p \in Proc : pc[p] = step /\ work[p].arm = a}

\* A reward enters proposal_stats once per interaction row that carries it: never
\* twice, and it is missing only while its request is between the two statements
\* or was cut short there.
RewardAccounting ==
    \A a \in Arms :
        LET counted == StatsOf(a).count + Cardinality(PendingAt("tally", a))
            applied == Cardinality(AppliedRows(a))
        IN  counted <= applied /\ applied <= counted + crashes

\* shown_count covers every row of the log (a deduplicated submit still counts as
\* shown), short of requests between the two writes or cut short there.
ShownCoversLog ==
    \A a \in Arms :
        Cardinality(RowsShowing(a)) <=
            StatsOf(a).shown + Cardinality(PendingAt("show", a)) + crashes

\* The weights never learn twice from one row, nor from a row without a reward, even
\* when several processes write back weights they loaded earlier.
TrainedOncePerRow ==
    bandit # None =>
        \A m, n \in 1 .. Len(bandit) :
            /\ bandit[m].rewarded \in 1 .. Len(log)
            /\ log[bandit[m].rewarded].applied
            /\ bandit[m].rewarded = bandit[n].rewarded => m = n

\* Without concurrent processes and crashes no training is lost: between requests
\* the weights have absorbed exactly the rows that carry a reward.
TrainingComplete ==
    (crashes = 0 /\ \A p \in Proc : pc[p] = "idle") =>
        {i \in 1 .. Len(log) : log[i].applied} =
            (IF bandit = None THEN {} ELSE {bandit[n].rewarded : n \in 1 .. Len(bandit)})
=============================================================================
