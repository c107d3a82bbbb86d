------------------------------ MODULE MCSchema ------------------------------
(* Small instances of Schema for TLC. *)
EXTENDS Schema, TLC

CONSTANTS p1, p2

MCServer == {p1}
MCProcs == {p1, p2}

MadeBy(v, tables, queries) ==
    [version |-> v, records |-> tables, unclustered |-> queries]

\* A new file, one of each generation of tables with and without schema_meta, one and
\* two bootstrapped queries without clusters, an up-to-date file and a newer one.
MCFiles ==
    {MadeBy(0, "meta", 0), MadeBy(5, "meta", 0), MadeBy(8, "both", 0), MadeBy(9, "both", 1),
     MadeBy(9, "both", 2), MadeBy(10, "both", 2), MadeBy(11, "both", 0),
     MadeBy(12, "both", 0), MadeBy(13, "both", 0)}

Symmetry == Permutations(Proc)
=============================================================================
