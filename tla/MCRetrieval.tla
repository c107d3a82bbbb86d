---------------------------- MODULE MCRetrieval ----------------------------
(* Small instances of Retrieval for TLC. *)
EXTENDS RetrievalRefinement, TLC

CONSTANTS p1, p2, hA, hB, sA, sB, sA2

MCProcs == {p1, p2}
MCServer == {p1}

\* Two prompts, and two raw texts that canonicalise to the same one.
MCTwoPrompts == (sA :> hA) @@ (sA2 :> hA) @@ (sB :> hB)
MCOnePrompt == (sA :> hA)

MCCaller == {[player |-> "alice", session |-> "s1"]}
MCTwoSessions == MCCaller \cup {[player |-> "bob", session |-> "s2"]}
\* Two players whose requests carry the same session id.
MCSharedSession == {[player |-> "alice", session |-> "s1"], [player |-> "bob", session |-> "s1"]}

Symmetry == Permutations(Proc)

(***************************************************************************)
(* A reachable start for the pruning run: two requests raced on an empty   *)
(* pool and filled it twice; each proposal was then shown and rewarded 0.  *)
(***************************************************************************)
Raced(i) == [prompt |-> hA, regen |-> 0, index |-> i]

OverfullInit ==
    /\ promptCache = {hA}
    /\ registry = {Raced(i) : i \in 0 .. 3}
    /\ candidates = [h \in Prompt |-> registry]
    /\ regenCount = [h \in Prompt |-> 0]
    /\ queries = Submit
    /\ log = [i \in 1 .. 4 |->
                [caller |-> CHOOSE c \in Caller : TRUE, submit |-> sA, arm |-> Raced(i - 1),
                 novel |-> i = 1, applied |-> TRUE, reward |-> 0]]
    /\ stats = [a \in {Raced(i) : i \in 0 .. 3} |-> [shown |-> 1, sum |-> 0, count |-> 1]]
    /\ bandit = [i \in 1 .. 4 |-> [rewarded |-> i, features |-> i]]
    /\ pc = [p \in Proc |-> "idle"]
    /\ work = [p \in Proc |-> NoWork]
    /\ reply = [p \in Proc |-> "none"]
    /\ ops = 1
    /\ crashes = 0

RaceSpec == (Init \/ OverfullInit) /\ [][Next]_vars
=============================================================================
