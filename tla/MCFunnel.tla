------------------------------ MODULE MCFunnel ------------------------------
(* Small instances of Funnel for TLC. *)
EXTENDS Funnel, TLC

CONSTANTS p1, p2, tA, tB, mig, whole, shorter, rejected, unreadable

MCServer == {p1}
MCProcs == {p1, p2}

MCVerdict ==
    (whole :> "accepted") @@ (shorter :> "accepted") @@
    (rejected :> "rejected") @@ (unreadable :> "unreadable")
MCSize == (whole :> 2) @@ (shorter :> 1) @@ (rejected :> 2) @@ (unreadable :> 0)

\* A file created at the current version, and one migrated from version 11 in
\* which a text was resolved and never bootstrapped.
MCNoAlias == [t \in {} |-> None]
MCMigratedAlias == (tA :> mig)

\* The first process serves a /query of a new text: it found it without proposals, and
\* then the second one bootstrapped it. One adjudication later the import meets the
\* primary key of the rows stored meanwhile. Only one of the two requests is counted,
\* so that one more may start.
MidwayInit ==
    /\ queries = {tA, tB}
    /\ clusters = {mig, tB}
    /\ canonical = [c \in Cluster |-> IF c = tB THEN tB ELSE None]
    /\ alias = (tA :> mig) @@ (tB :> tB)
    /\ llmCache = [q \in Prompt |-> IF q = [text |-> tB, repairs |-> None] THEN whole ELSE None]
    /\ metadata = [t \in Text |-> IF t = tB THEN whole ELSE None]
    /\ proposals = {[query |-> tB, cluster |-> tB, index |-> i, artifact |-> whole] : i \in 0 .. 1}
    /\ pc = (p1 :> "lookup") @@ (p2 :> "idle")
    /\ work = (p1 :> [NoWork EXCEPT !.route = "query", !.text = tB, !.query = tB]) @@ (p2 :> NoWork)
    /\ reply = [p \in Proc |-> None]
    /\ told = {}
    /\ ops = 1
    /\ crashes = 0

RaceSpec == (Init \/ MidwayInit) /\ [][Next]_vars /\ \A p \in Proc : WF_vars(Serve(p))

\* Without migrated clusters the texts are interchangeable.
TextSymmetry == Permutations(Text)
=============================================================================
