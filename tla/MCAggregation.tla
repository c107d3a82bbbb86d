---------------------------- MODULE MCAggregation ----------------------------
(* A small instance of Aggregation for TLC. *)
EXTENDS Aggregation, TLC

CONSTANTS p1, p2, alice, bob

MCLegacy ==
    LET Logged(q, p, s) == [query |-> q, player |-> p, score |-> s]
    IN  {<<>>,
         \* Of a version without scores.
         <<Logged(7, alice, None)>>,
         \* With an anonymous player.
         <<Logged(9, alice, 1), Logged(9, None, 1)>>}

Symmetry == Permutations(Proc)
=============================================================================
