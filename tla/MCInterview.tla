----------------------------- MODULE MCInterview -----------------------------
(* A small instance of Interview for TLC. *)
EXTENDS Interview, TLC

CONSTANTS tactician, guardian, plan, team, notSure, q1, q2, q3, q4, q5

\* One question that tells much, one that tells little, one whose answers nobody
\* of one kind gives, and one that tells nothing.
MCRow(a, b) == (tactician :> a) @@ (guardian :> b)
MCQuestion(p, t) == (plan :> p) @@ (team :> t) @@ (notSure :> MCRow(1, 1))

MCTelling ==
    (q1 :> MCQuestion(MCRow(4, 1), MCRow(1, 3))) @@
    (q2 :> MCQuestion(MCRow(2, 1), MCRow(1, 2))) @@
    (q3 :> MCQuestion(MCRow(3, 0), MCRow(0, 3))) @@
    (q4 :> MCQuestion(MCRow(1, 1), MCRow(1, 1))) @@
    (q5 :> MCQuestion(MCRow(2, 1), MCRow(1, 3)))

\* All questions tell little: the budget is used up.
MCVague ==
    (q1 :> MCQuestion(MCRow(1, 1), MCRow(1, 1))) @@
    (q2 :> MCQuestion(MCRow(2, 1), MCRow(1, 2))) @@
    (q3 :> MCQuestion(MCRow(2, 1), MCRow(2, 2))) @@
    (q4 :> MCQuestion(MCRow(1, 1), MCRow(1, 2))) @@
    (q5 :> MCQuestion(MCRow(0, 0), MCRow(0, 0)))

MCAuthored == {MCTelling, MCVague}

\* For two targets the entropy is at least 0.65 when the smaller share is at least
\* one sixth.
MCDiffuse(b) == 6 * Min({b[t] : t \in Target}) >= MapThenSumSet(LAMBDA t : b[t], Target)
=============================================================================
