--------------------------- MODULE InteractionLedger ---------------------------
(***************************************************************************)
(* What the interaction log and the reward statistics promise, without     *)
(* processes, pools or bandits: a journal of shown proposals in which the  *)
(* same submit is not recorded twice in a row, each entry is rewarded at   *)
(* most once, and each reward is counted at most once. Retrieval           *)
(* implements it; a reward that is never counted is one whose request was  *)
(* cut short.                                                              *)
(***************************************************************************)
EXTENDS Naturals, Sequences, FiniteSets

CONSTANTS Reward

VARIABLES
    journal,  \* entries [caller, submit, arm, applied, reward, ...], in order
    counted   \* counted rewards of each arm that has one

ledgerState == <<journal, counted>>

LastOf(entries, caller) ==
    {i \in 1 .. Len(entries) :
        /\ entries[i].caller = caller
        /\ \A j \in 1 .. Len(entries) : entries[j].caller = caller => j <= i}

Repeats(entries, r) ==
    \E i \in LastOf(entries, r.caller) : entries[i].submit = r.submit /\ entries[i].arm = r.arm

Applied(entries, a) == {i \in 1 .. Len(entries) : entries[i].arm = a /\ entries[i].applied}

CountOf(a) == IF a \in DOMAIN counted THEN counted[a] ELSE 0

\* A new journal, or one kept before whose books are balanced.
LedgerInit ==
    /\ \A a \in DOMAIN counted \cup {journal[i].arm : i \in 1 .. Len(journal)} :
          CountOf(a) = Cardinality(Applied(journal, a))
    /\ \A i \in 1 .. Len(journal) : ~Repeats(SubSeq(journal, 1, i - 1), journal[i])

\* A proposal is shown for a submit that is not the caller's previous one.
Record ==
    LET entry == journal'[Len(journal')]
    IN  /\ Len(journal') = Len(journal) + 1
        /\ journal' = Append(journal, entry)
        /\ ~Repeats(journal, entry)
        /\ ~entry.applied
        /\ UNCHANGED counted

\* A session rewards its latest entry for an arm that has no reward yet.
Settle ==
    \E i \in 1 .. Len(journal), v \in Reward :
        /\ ~journal[i].applied
        /\ \A j \in i + 1 .. Len(journal) :
              /\ journal[j].arm = journal[i].arm
              /\ journal[j].caller.session = journal[i].caller.session
              => journal[j].applied
        /\ journal' = [journal EXCEPT ![i].applied = TRUE, ![i].reward = v]
        /\ UNCHANGED counted

\* A reward that is on an entry, and not counted yet, is counted.
Count ==
    \E a \in {journal[i].arm : i \in 1 .. Len(journal)} :
        /\ CountOf(a) < Cardinality(Applied(journal, a))
        /\ counted' = [x \in DOMAIN counted \cup {a} |->
                          IF x = a THEN CountOf(a) + 1 ELSE counted[x]]
        /\ UNCHANGED journal

LedgerNext == Record \/ Settle \/ Count

LedgerSpec == LedgerInit /\ [][LedgerNext]_ledgerState
=============================================================================
