-------------------------- MODULE RetrievalRefinement --------------------------
(***************************************************************************)
(* Retrieval implements InteractionLedger. The journal is the log itself;  *)
(* the counted rewards are the reward_count columns that are not zero (a   *)
(* proposal that was only shown has a statistics row too).                 *)
(***************************************************************************)
EXTENDS Retrieval

CountedRewards ==
    [a \in {x \in DOMAIN stats : stats[x].count > 0} |-> stats[a].count]

Ledger == INSTANCE InteractionLedger WITH journal <- log, counted <- CountedRewards

\* Every behaviour of the processes is a behaviour of the ledger: no interleaving and
\* no crash writes a repeated row, rewards a row twice, or counts a reward that is not
\* on a row.
LedgerImplemented == Ledger!LedgerSpec
=============================================================================
