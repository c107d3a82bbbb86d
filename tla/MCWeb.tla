--------------------------------- MODULE MCWeb ---------------------------------
(* A small instance of WebClient, with its server, for TLC. *)
EXTENDS WebClient, TLC

CONSTANTS i1, phrase, empty, class, c1, c2, agent

MCMaxFetches == [index |-> 3, sandbox |-> 4]

Symmetry == Permutations(Cluster)
=============================================================================
