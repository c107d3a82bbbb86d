----------------------------- MODULE FunnelProofs -----------------------------
(***************************************************************************)
(* Theorems about Funnel, for any texts, artifacts and bounds: for any     *)
(* number of processes where nothing else is said, and for one process     *)
(* where the code needs to be alone.                                       *)
(***************************************************************************)
EXTENDS Funnel, FiniteSetTheorems, TLAPS

-----------------------------------------------------------------------------
(* What a request holds at each step, whatever other processes do.         *)

Resolution == {"alias", "canonical", "minimum", "adopt", "fallback", "admit", "insertAlias"}

\* A resolution serves a request that only resolves, a bootstrap, or an import.
RouteAt(step, w) ==
    /\ step \in Resolution => w.importing \/ w.route \in {"guess", "bootstrap"}
    /\ step = "register" => w.importing \/ w.route # "rebootstrap"

HeldAt(step, w) ==
    /\ step # "idle" => w.text \in Text
    /\ w.importing => w.artifact \in Artifact /\ Accepted(w.artifact)
    /\ step \in {"canonical", "minimum", "adopt", "fallback"} =>
          (IF w.importing THEN w.into ELSE w.cluster) \in Cluster
    /\ step = "adopt" => (IF w.importing THEN w.under ELSE w.query) \in Text
    /\ step \in {"has", "delete", "lookup", "store", "import"} => ~w.importing
    /\ step = "has" => w.query \in Text
    /\ step \in {"store", "import"} => w.artifact \in Artifact
    /\ step \in {"metadata", "proposal"} =>
          w.importing /\ w.into \in Cluster /\ w.under \in Text
    /\ step = "proposal" => w.index < Size[w.artifact]

WorkAt(step, w) == RouteAt(step, w) /\ HeldAt(step, w)

WorkOK == \A p \in Proc : WorkAt(pc[p], work[p])

TypeInv == TypeOK /\ WorkOK

\* A row is written only after the metadata of its query.
MetadataFirst == \A p \in Proc : pc[p] = "proposal" => metadata[work[p].under] # None

SoundInv == RowsSound /\ MetadataFirst

-----------------------------------------------------------------------------
(* What holds between the statements of the only process.                  *)

\* A cluster minted from a text is canonical for that text, from the start.
OwnCanonical == \A t \in Text : t \in clusters => canonical[t] = t

AliasesLead == \A t \in Text : alias[t] # None => alias[t] \in clusters

\* The cache gives the artifact again to an online request.
Cached(a) == \E q \in Prompt : llmCache[q] = a /\ AskedAgain(q)

Traced(r) == Cached(r.artifact) /\ r.query = canonical[r.cluster]

RowsTraced == \A r \in proposals : r.cluster \in clusters /\ Traced(r)

\* Where the request of the only process stands.
Alone(p) ==
    /\ pc[p] \in {"admit", "insertAlias"} => alias[work[p].text] = None
    /\ pc[p] = "insertAlias" => work[p].text \in clusters
    /\ pc[p] \in {"canonical", "minimum", "fallback"} => Resolving(p) \in clusters
    /\ pc[p] \in {"minimum", "fallback"} => canonical[Resolving(p)] = None
    /\ pc[p] # "adopt"
    /\ pc[p] \in {"metadata", "proposal"} =>
          work[p].into \in clusters /\ work[p].under = canonical[work[p].into]
    /\ pc[p] = "store" => llmCache[PromptOf(p)] = None
    /\ pc[p] = "import" => llmCache[PromptOf(p)] = work[p].artifact
    /\ work[p].importing => Cached(work[p].artifact)

TraceInv ==
    /\ OwnCanonical
    /\ AliasesLead
    /\ RowsTraced
    /\ \A p \in Proc : Alone(p) /\ AskedAgain(PromptOf(p))

-----------------------------------------------------------------------------
(* The set of proposals of a cluster, in a file that was not migrated.     *)

Indexes(c) == {r.index : r \in RowsOfCluster(c)}

Legal(n) == n \in {0} \cup MinProposals .. MaxProposals

\* A set without gaps, of a legal size but for the one that is being imported.
Gapless(c) ==
    \E n \in Nat :
        /\ Indexes(c) = 0 .. (n - 1)
        /\ \/ Legal(n) /\ \A p \in Proc :
                 pc[p] = "proposal" /\ work[p].into = c => work[p].index <= n
           \/ \E p \in Proc : pc[p] = "proposal" /\ work[p].into = c /\ work[p].index = n

Content(c) == Contents(RowsOfCluster(c))

\* The set of cluster c begins with the first n proposals of artifact a.
Begins(c, n, a) ==
    /\ FirstOf(n, a) \subseteq Content(c)
    /\ \A r \in RowsOfCluster(c) : r.index < n => r.artifact = a

\* An import replaces the set from its first proposal on, after the metadata.
Overwriting(p) ==
    pc[p] = "proposal" =>
        /\ metadata[work[p].into] = work[p].artifact
        /\ Begins(work[p].into, work[p].index, work[p].artifact)

Filling(c) == \E p \in Proc : pc[p] = "proposal" /\ work[p].into = c

\* A set that is not being imported begins with the artifact of its metadata.
Led(c) ==
    ~Filling(c) /\ RowsOfCluster(c) # {} =>
        metadata[c] \in Artifact /\ Begins(c, Size[metadata[c]], metadata[c])

\* The set of the text's own cluster, after n proposals: /query may import into another one.
Own(p, n) ==
    Content(work[p].text) =
        IF alias[work[p].text] = work[p].text THEN FirstOf(n, work[p].artifact) ELSE {}

\* A bootstrap or a /query imports only what it found no proposals for.
Serving(p) ==
    LET w == work[p]
    IN  w.route \in {"bootstrap", "query"} =>
        /\ pc[p] \notin {"idle", "delete"}
        /\ w.route = "query" => w.cluster = None
        /\ (w.importing \/ pc[p] \in {"has", "lookup", "store", "import"}) =>
              /\ w.query = w.text
              /\ w.route = "bootstrap" => w.cluster = w.text /\ alias[w.text] = w.text
        /\ (w.importing /\ pc[p] \notin {"proposal", "load"})
              \/ pc[p] \in {"lookup", "store", "import"} => RowsOfCluster(w.text) = {}
        /\ w.importing /\ pc[p] \in {"canonical", "minimum", "fallback", "metadata", "proposal"}
              => w.into = alias[w.text]
        /\ pc[p] = "proposal" => Own(p, w.index)
        /\ pc[p] = "load" /\ w.status \in {"cache_hit", "captured_and_cached"} =>
              /\ w.importing /\ alias[w.text] # None
              /\ FirstOf(Size[w.artifact], w.artifact) \subseteq Content(alias[w.text])
              /\ Own(p, Size[w.artifact])

\* A guess does not import, and a command does not answer.
Routed(p) ==
    /\ pc[p] \in {"has", "load"} => work[p].route \in {"bootstrap", "query"}
    /\ work[p].importing \/ pc[p] \in {"delete", "lookup", "store", "import"} =>
          work[p].route # "guess"

SetsInv ==
    /\ crashes = 0 => \A c \in Cluster : Gapless(c) /\ Led(c)
    /\ \A p \in Proc : Overwriting(p) /\ Routed(p) /\ Serving(p)

-----------------------------------------------------------------------------
(* Every step keeps the types.                                             *)

StepOf(p) ==
    \/ StartBootstrap(p) \/ StartGuess(p) \/ StartRebootstrap(p) \/ StartAdjudicate(p)
    \/ Serve(p) \/ Crash(p)

Moves(p) ==
    pc' \in [Proc -> Steps] /\ work' \in [Proc -> Work] /\ WorkAt(pc'[p], work'[p])

LEMMA WorkTyped ==
    ASSUME TypeInv, NEW p \in Proc
    PROVE  /\ pc[p] \in Steps /\ work[p] \in Work /\ WorkAt(pc[p], work[p])
           /\ pc \in [Proc -> Steps] /\ work \in [Proc -> Work]
BY DEF TypeInv, TypeOK, WorkOK

LEMMA NoWorkType == NoWork \in Work /\ WorkAt("idle", NoWork)
BY DEF NoWork, Work, Route, Status, WorkAt, RouteAt, HeldAt, Resolution

LEMMA MovesTo ==
    ASSUME TypeInv, NEW p \in Proc, NEW step \in Steps, NEW w \in Work, WorkAt(step, w),
           pc' = [pc EXCEPT ![p] = step], work' = [work EXCEPT ![p] = w]
    PROVE  Moves(p)
BY WorkTyped DEF Moves

LEMMA FinishMoves ==
    ASSUME TypeInv, NEW p \in Proc, Finish(p)
    PROVE  Moves(p)
BY NoWorkType, MovesTo DEF Finish, Goto, Steps

\* The response of a request that holds a text may be composed at once.
LEMMA ConcludeMoves ==
    ASSUME TypeInv, NEW p \in Proc, pc[p] # "idle", NEW status \in Status, Conclude(p, status)
    PROVE  Moves(p)
<1> DEFINE w == [work[p] EXCEPT !.status = status]
<1>1. work[p] \in Work /\ WorkAt(pc[p], work[p])
  BY WorkTyped
<1>2. w \in Work /\ w.text = work[p].text /\ w.importing = work[p].importing
      /\ w.artifact = work[p].artifact
  BY <1>1 DEF Work
<1>3. "load" \in Steps /\ WorkAt("load", w)
  BY <1>1, <1>2 DEF Steps, WorkAt, RouteAt, HeldAt, Resolution
<1>4. pc' = [pc EXCEPT ![p] = "load"] /\ work' = [work EXCEPT ![p] = w]
  BY DEF Conclude, Goto
<1> HIDE DEF w
<1> QED BY <1>2, <1>3, <1>4, MovesTo

LEMMA NoArtifactMoves ==
    ASSUME TypeInv, NEW p \in Proc, pc[p] # "idle", NEW status \in Status, NoArtifact(p, status)
    PROVE  Moves(p)
<1>1. "semantic_repair_failed" \in Status
  BY DEF Status
<1> QED BY <1>1, FinishMoves, ConcludeMoves DEF NoArtifact

LEMMA ResolvedMoves ==
    ASSUME TypeInv, NEW p \in Proc, pc[p] \in Resolution, NEW c \in Cluster, NEW q \in Text,
           NEW band \in {"alias_hit", "novel"}, Resolved(p, c, q, band)
    PROVE  Moves(p)
<1>1. work[p] \in Work /\ WorkAt(pc[p], work[p]) /\ pc[p] # "idle"
  BY WorkTyped DEF Resolution
<1>2. CASE work[p].importing
  <2> DEFINE w == [work[p] EXCEPT !.into = c, !.under = q]
  <2>1. /\ w \in Work /\ w.text = work[p].text /\ w.importing /\ w.artifact = work[p].artifact
        /\ w.into = c /\ w.under = q
    BY <1>1, <1>2 DEF Work
  <2>2. "metadata" \in Steps /\ WorkAt("metadata", w)
    BY <1>1, <1>2, <2>1 DEF Steps, WorkAt, RouteAt, HeldAt, Resolution
  <2>3. pc' = [pc EXCEPT ![p] = "metadata"] /\ work' = [work EXCEPT ![p] = w]
    BY <1>2 DEF Resolved, Goto
  <2> HIDE DEF w
  <2> QED BY <2>1, <2>2, <2>3, MovesTo
<1>3. CASE ~work[p].importing /\ work[p].route = "guess"
  BY <1>3, FinishMoves DEF Resolved
<1>4. CASE ~work[p].importing /\ work[p].route = "bootstrap" /\ band = "alias_hit"
  <2> DEFINE w == [work[p] EXCEPT !.cluster = c, !.query = q, !.status = "cluster_reuse"]
  <2>1. w \in Work /\ w.text = work[p].text /\ ~w.importing
    BY <1>1, <1>4 DEF Work, Status
  <2>2. "load" \in Steps /\ WorkAt("load", w)
    BY <1>1, <2>1 DEF Steps, WorkAt, RouteAt, HeldAt, Resolution
  <2>3. pc' = [pc EXCEPT ![p] = "load"] /\ work' = [work EXCEPT ![p] = w]
    BY <1>4 DEF Resolved, Goto
  <2> HIDE DEF w
  <2> QED BY <2>1, <2>2, <2>3, MovesTo
<1>5. CASE ~work[p].importing /\ work[p].route = "bootstrap" /\ band = "novel"
  <2> DEFINE w == [work[p] EXCEPT !.cluster = c, !.query = q]
  <2>1. w \in Work /\ w.text = work[p].text /\ ~w.importing /\ w.query = q
    BY <1>1, <1>5 DEF Work
  <2>2. "has" \in Steps /\ WorkAt("has", w)
    BY <1>1, <2>1 DEF Steps, WorkAt, RouteAt, HeldAt, Resolution
  <2>3. pc' = [pc EXCEPT ![p] = "has"] /\ work' = [work EXCEPT ![p] = w]
    BY <1>5 DEF Resolved, Goto
  <2> HIDE DEF w
  <2> QED BY <2>1, <2>2, <2>3, MovesTo
<1> QED BY <1>1, <1>2, <1>3, <1>4, <1>5 DEF WorkAt, RouteAt

\* A step that only goes on, or fills fields of its request.
LEMMA GoesTo ==
    ASSUME TypeInv, NEW p \in Proc, NEW step \in Steps, WorkAt(step, work[p]),
           Goto(p, step), UNCHANGED work
    PROVE  Moves(p)
BY WorkTyped DEF Moves, Goto

LEMMA StartMoves ==
    ASSUME TypeInv, NEW p \in Proc,
           StartBootstrap(p) \/ StartGuess(p) \/ StartRebootstrap(p) \/ StartAdjudicate(p)
    PROVE  Moves(p)
<1>1. CASE StartBootstrap(p)
  <2>1. PICK t \in Text, route \in {"bootstrap", "query"}, online \in BOOLEAN :
           Begin(p, "register", [NoWork EXCEPT !.route = route, !.text = t, !.online = online])
    BY <1>1 DEF StartBootstrap
  <2> DEFINE w == [NoWork EXCEPT !.route = route, !.text = t, !.online = online]
  <2>2. w \in Work /\ w.text = t /\ ~w.importing /\ w.route = route
    BY DEF NoWork, Work, Route, Status
  <2>3. "register" \in Steps /\ WorkAt("register", w)
    BY <2>2 DEF Steps, WorkAt, RouteAt, HeldAt, Resolution
  <2>4. pc' = [pc EXCEPT ![p] = "register"] /\ work' = [work EXCEPT ![p] = w]
    BY <2>1 DEF Begin, Goto
  <2> HIDE DEF w
  <2> QED BY <2>2, <2>3, <2>4, MovesTo
<1>2. CASE StartGuess(p)
  <2>1. PICK t \in Text : Begin(p, "register", [NoWork EXCEPT !.text = t])
    BY <1>2 DEF StartGuess
  <2> DEFINE w == [NoWork EXCEPT !.text = t]
  <2>2. w \in Work /\ w.text = t /\ ~w.importing /\ w.route = "guess"
    BY DEF NoWork, Work, Route, Status
  <2>3. "register" \in Steps /\ WorkAt("register", w)
    BY <2>2 DEF Steps, WorkAt, RouteAt, HeldAt, Resolution
  <2>4. pc' = [pc EXCEPT ![p] = "register"] /\ work' = [work EXCEPT ![p] = w]
    BY <2>1 DEF Begin, Goto
  <2> HIDE DEF w
  <2> QED BY <2>2, <2>3, <2>4, MovesTo
<1>3. CASE StartRebootstrap(p)
  <2>1. PICK t \in queries :
           Begin(p, "delete", [NoWork EXCEPT !.route = "rebootstrap", !.text = t, !.online = TRUE])
    BY <1>3 DEF StartRebootstrap
  <2> DEFINE w == [NoWork EXCEPT !.route = "rebootstrap", !.text = t, !.online = TRUE]
  <2>2. w \in Work /\ w.text = t /\ t \in Text /\ ~w.importing
    BY DEF NoWork, Work, Route, Status, TypeInv, TypeOK
  <2>3. "delete" \in Steps /\ WorkAt("delete", w)
    BY <2>2 DEF Steps, WorkAt, RouteAt, HeldAt, Resolution
  <2>4. pc' = [pc EXCEPT ![p] = "delete"] /\ work' = [work EXCEPT ![p] = w]
    BY <2>1 DEF Begin, Goto
  <2> HIDE DEF w
  <2> QED BY <2>2, <2>3, <2>4, MovesTo
<1>4. CASE StartAdjudicate(p)
  BY <1>4, WorkTyped DEF StartAdjudicate, Adjudicate, Moves
<1> QED BY <1>1, <1>2, <1>3, <1>4

LEMMA ResolveMoves ==
    ASSUME TypeInv, NEW p \in Proc, ResolveStep(p)
    PROVE  Moves(p)
<1>0. /\ work[p] \in Work /\ pc[p] \in Steps
      /\ RouteAt(pc[p], work[p]) /\ HeldAt(pc[p], work[p])
  BY WorkTyped DEF WorkAt
<1>1. CASE GetOrCreateQueryId(p)
  <2>1. pc[p] = "register" /\ work[p].text \in Text
    BY <1>0, <1>1 DEF GetOrCreateQueryId, HeldAt
  <2>2. CASE work[p].route = "query" /\ ~work[p].importing
    <3> DEFINE w == [work[p] EXCEPT !.query = work[p].text]
    <3>1. w \in Work /\ w.text = work[p].text /\ ~w.importing /\ w.query = work[p].text
      BY <1>0, <2>1, <2>2 DEF Work
    <3>2. "has" \in Steps /\ WorkAt("has", w)
      BY <2>1, <3>1 DEF Steps, WorkAt, RouteAt, HeldAt, Resolution
    <3>3. pc' = [pc EXCEPT ![p] = "has"] /\ work' = [work EXCEPT ![p] = w]
      BY <1>1, <2>2 DEF GetOrCreateQueryId, Goto
    <3> HIDE DEF w
    <3> QED BY <3>1, <3>2, <3>3, MovesTo
  <2>3. CASE work[p].route # "query" \/ work[p].importing
    <3>1. work[p].importing \/ work[p].route \in {"guess", "bootstrap"}
      BY <1>0, <2>1, <2>3 DEF Work, Route, RouteAt
    <3>2. "alias" \in Steps /\ WorkAt("alias", work[p])
      BY <1>0, <2>1, <3>1 DEF Steps, WorkAt, RouteAt, HeldAt
    <3>3. Goto(p, "alias") /\ UNCHANGED work
      BY <1>1, <2>3 DEF GetOrCreateQueryId
    <3> QED BY <3>2, <3>3, GoesTo
  <2> QED BY <2>2, <2>3
<1>2. CASE ReadAlias(p)
  <2> DEFINE c == alias[work[p].text]
  <2>1. pc[p] = "alias" /\ work[p].text \in Text
    BY <1>0, <1>2 DEF ReadAlias, HeldAt
  <2>2. CASE c = None
    <3>1. "admit" \in Steps /\ WorkAt("admit", work[p])
      BY <1>0, <2>1 DEF Steps, WorkAt, RouteAt, HeldAt, Resolution
    <3>2. Goto(p, "admit") /\ UNCHANGED work
      BY <1>2, <2>2 DEF ReadAlias
    <3> QED BY <3>1, <3>2, GoesTo
  <2>3. CASE c # None
    <3> DEFINE w == IF work[p].importing THEN [work[p] EXCEPT !.into = c]
                                         ELSE [work[p] EXCEPT !.cluster = c]
    <3>1. c \in Cluster
      BY <2>1, <2>3 DEF TypeInv, TypeOK
    <3>2. /\ w \in Work /\ w.text = work[p].text /\ w.importing = work[p].importing
          /\ w.route = work[p].route /\ w.artifact = work[p].artifact
          /\ (IF w.importing THEN w.into ELSE w.cluster) = c
      BY <1>0, <3>1 DEF Work
    <3>3. "canonical" \in Steps /\ WorkAt("canonical", w)
      <4> HIDE DEF w, c
      <4> QED BY <1>0, <2>1, <3>1, <3>2 DEF Steps, WorkAt, RouteAt, HeldAt, Resolution
    <3>4. pc' = [pc EXCEPT ![p] = "canonical"] /\ work' = [work EXCEPT ![p] = w]
      BY <1>2, <2>3 DEF ReadAlias, Goto
    <3> HIDE DEF w
    <3> QED BY <3>2, <3>3, <3>4, MovesTo
  <2> QED BY <2>2, <2>3
<1>3. CASE ReadCanonical(p)
  <2> DEFINE c == Resolving(p)
  <2>1. pc[p] = "canonical" /\ work[p].text \in Text /\ c \in Cluster
    BY <1>0, <1>3 DEF ReadCanonical, HeldAt, Resolving
  <2>2. CASE canonical[c] # None
    <3>1. canonical[c] \in Text
      BY <2>1, <2>2 DEF TypeInv, TypeOK
    <3>2. Resolved(p, c, canonical[c], "alias_hit")
      BY <1>3, <2>2 DEF ReadCanonical
    <3> QED BY <2>1, <3>1, <3>2, ResolvedMoves DEF Resolution
  <2>3. CASE canonical[c] = None
    <3>1. "minimum" \in Steps /\ WorkAt("minimum", work[p])
      BY <1>0, <2>1 DEF Steps, WorkAt, RouteAt, HeldAt, Resolution
    <3>2. Goto(p, "minimum") /\ UNCHANGED work
      BY <1>3, <2>3 DEF ReadCanonical
    <3> QED BY <3>1, <3>2, GoesTo
  <2> QED BY <2>2, <2>3
<1>4. CASE FindMinimum(p)
  <2> DEFINE c == Resolving(p)
  <2>1. pc[p] = "minimum" /\ work[p].text \in Text /\ c \in Cluster
    BY <1>0, <1>4 DEF FindMinimum, HeldAt, Resolving
  <2>2. ASSUME NEW r \in RowsOfCluster(c), Goto(p, "adopt"),
               work' = [work EXCEPT ![p] = IF work[p].importing
                   THEN [@ EXCEPT !.under = r.query] ELSE [@ EXCEPT !.query = r.query]]
        PROVE  Moves(p)
    <3> DEFINE w == IF work[p].importing THEN [work[p] EXCEPT !.under = r.query]
                                         ELSE [work[p] EXCEPT !.query = r.query]
    <3>1. r.query \in Text
      BY DEF RowsOfCluster, Row, TypeInv, TypeOK
    <3>2. /\ w \in Work /\ w.text = work[p].text /\ w.importing = work[p].importing
          /\ w.route = work[p].route /\ w.artifact = work[p].artifact
          /\ w.into = work[p].into /\ w.cluster = work[p].cluster
          /\ (IF w.importing THEN w.under ELSE w.query) = r.query
      BY <1>0, <3>1 DEF Work
    <3>3. "adopt" \in Steps /\ WorkAt("adopt", w)
      <4> HIDE DEF w
      <4> QED BY <1>0, <2>1, <3>1, <3>2 DEF Steps, WorkAt, RouteAt, HeldAt, Resolution
    <3>4. pc' = [pc EXCEPT ![p] = "adopt"] /\ work' = [work EXCEPT ![p] = w]
      BY <2>2 DEF Goto
    <3> HIDE DEF w
    <3> QED BY <3>2, <3>3, <3>4, MovesTo
  <2>3. CASE Goto(p, "fallback") /\ UNCHANGED work
    <3>1. "fallback" \in Steps /\ WorkAt("fallback", work[p])
      BY <1>0, <2>1 DEF Steps, WorkAt, RouteAt, HeldAt, Resolution
    <3> QED BY <2>3, <3>1, GoesTo
  <2> QED BY <1>4, <2>2, <2>3 DEF FindMinimum
<1>5. CASE AdoptMinimum(p)
  <2> DEFINE c == Resolving(p)  q == IF work[p].importing THEN work[p].under ELSE work[p].query
  <2>1. pc[p] = "adopt" /\ c \in Cluster /\ q \in Text
    BY <1>0, <1>5 DEF AdoptMinimum, HeldAt, Resolving
  <2>2. Resolved(p, c, q, "alias_hit")
    BY <1>5 DEF AdoptMinimum
  <2> HIDE DEF c, q
  <2> QED BY <2>1, <2>2, ResolvedMoves DEF Resolution
<1>6. CASE AdoptFallback(p)
  <2>1. pc[p] = "fallback" /\ Resolving(p) \in Cluster /\ work[p].text \in Text
    BY <1>0, <1>6 DEF AdoptFallback, HeldAt, Resolving
  <2>2. Resolved(p, Resolving(p), work[p].text, "alias_hit")
    BY <1>6 DEF AdoptFallback
  <2> QED BY <2>1, <2>2, ResolvedMoves DEF Resolution
<1>7. CASE AdmitCluster(p)
  <2>1. pc[p] = "admit" /\ Goto(p, "insertAlias") /\ UNCHANGED work
    BY <1>7 DEF AdmitCluster
  <2>2. "insertAlias" \in Steps /\ WorkAt("insertAlias", work[p])
    BY <1>0, <2>1 DEF Steps, WorkAt, RouteAt, HeldAt, Resolution
  <2> QED BY <2>1, <2>2, GoesTo
<1>8. CASE InsertAlias(p)
  <2>1. /\ pc[p] = "insertAlias" /\ work[p].text \in Text /\ work[p].text \in Cluster
        /\ Resolved(p, work[p].text, work[p].text, "novel")
    BY <1>0, <1>8 DEF InsertAlias, HeldAt, Cluster
  <2> QED BY <2>1, ResolvedMoves DEF Resolution
<1> QED BY <1>1, <1>2, <1>3, <1>4, <1>5, <1>6, <1>7, <1>8 DEF ResolveStep

LEMMA PromptType ==
    ASSUME TypeInv, NEW p \in Proc, work[p].text \in Text
    PROVE  PromptOf(p) \in Prompt
BY WorkTyped DEF PromptOf, Prompt, Work

LEMMA CaptureMoves ==
    ASSUME TypeInv, NEW p \in Proc, CaptureStep(p)
    PROVE  Moves(p)
<1>0. /\ work[p] \in Work /\ pc[p] \in Steps /\ HeldAt(pc[p], work[p])
  BY WorkTyped DEF WorkAt
<1>1. CASE HasProposals(p)
  <2>1. pc[p] = "has" /\ pc[p] # "idle" /\ "existing" \in Status
    BY <1>1 DEF HasProposals, Status
  <2>2. CASE Conclude(p, "existing")
    BY <2>1, <2>2, ConcludeMoves
  <2>3. CASE Goto(p, "lookup") /\ UNCHANGED work
    <3>1. "lookup" \in Steps /\ WorkAt("lookup", work[p])
      BY <1>0, <2>1 DEF Steps, WorkAt, RouteAt, HeldAt, Resolution
    <3> QED BY <2>3, <3>1, GoesTo
  <2> QED BY <1>1, <2>2, <2>3 DEF HasProposals
<1>2. CASE DeleteProposals(p)
  <2>1. pc[p] = "delete" /\ Goto(p, "lookup") /\ UNCHANGED work
    BY <1>2 DEF DeleteProposals
  <2>2. "lookup" \in Steps /\ WorkAt("lookup", work[p])
    BY <1>0, <2>1 DEF Steps, WorkAt, RouteAt, HeldAt, Resolution
  <2> QED BY <2>1, <2>2, GoesTo
<1>3. CASE CacheHit(p)
  <2> DEFINE a == llmCache[PromptOf(p)]
             w == [work[p] EXCEPT !.artifact = a, !.cached = TRUE]
  <2>1. pc[p] = "lookup" /\ work[p].text \in Text /\ ~work[p].importing
    BY <1>0, <1>3 DEF CacheHit, HeldAt
  <2>2. a \in Artifact
    BY <1>3, <2>1, PromptType DEF CacheHit, TypeInv, TypeOK
  <2>3. CASE ~work[p].importing
    <3>1. w \in Work /\ w.text = work[p].text /\ ~w.importing /\ w.artifact = a
      BY <1>0, <2>2, <2>3 DEF Work
    <3>2. "import" \in Steps /\ WorkAt("import", w)
      <4> HIDE DEF w, a
      <4> QED BY <2>1, <2>2, <3>1 DEF Steps, WorkAt, RouteAt, HeldAt, Resolution
    <3>3. pc' = [pc EXCEPT ![p] = "import"] /\ work' = [work EXCEPT ![p] = w]
      BY <1>3 DEF CacheHit, Goto
    <3> HIDE DEF w
    <3> QED BY <3>1, <3>2, <3>3, MovesTo
  <2> QED BY <2>1, <2>3
<1>4. CASE CacheMissOffline(p)
  <2>1. pc[p] # "idle" /\ "offline_cache_miss" \in Status /\ NoArtifact(p, "offline_cache_miss")
    BY <1>4 DEF CacheMissOffline, Status
  <2> QED BY <2>1, NoArtifactMoves
<1>5. CASE ProviderError(p)
  <2>1. pc[p] # "idle" /\ "provider_error" \in Status /\ NoArtifact(p, "provider_error")
    BY <1>5 DEF ProviderError, Status
  <2> QED BY <2>1, NoArtifactMoves
<1>6. CASE Capture(p)
  <2>1. pc[p] = "lookup" /\ work[p].text \in Text /\ ~work[p].importing
    BY <1>0, <1>6 DEF Capture, HeldAt
  <2>2. PICK a \in Artifact : work' = [work EXCEPT ![p].artifact = a, ![p].cached = FALSE]
    BY <1>6 DEF Capture
  <2> DEFINE w == [work[p] EXCEPT !.artifact = a, !.cached = FALSE]
  <2>3. CASE ~work[p].importing
    <3>1. w \in Work /\ w.text = work[p].text /\ ~w.importing /\ w.artifact = a
      BY <1>0, <2>3 DEF Work
    <3>2. "store" \in Steps /\ WorkAt("store", w)
      <4> HIDE DEF w
      <4> QED BY <2>1, <3>1 DEF Steps, WorkAt, RouteAt, HeldAt, Resolution
    <3>3. pc' = [pc EXCEPT ![p] = "store"] /\ work' = [work EXCEPT ![p] = w]
      BY <1>6, <2>2 DEF Capture, Goto
    <3> HIDE DEF w
    <3> QED BY <3>1, <3>2, <3>3, MovesTo
  <2> QED BY <2>1, <2>3
<1>7. CASE StoreCapture(p)
  <2>1. pc[p] = "store" /\ Goto(p, "import") /\ UNCHANGED work
    BY <1>7 DEF StoreCapture
  <2>2. "import" \in Steps /\ WorkAt("import", work[p])
    BY <1>0, <2>1 DEF Steps, WorkAt, RouteAt, HeldAt, Resolution
  <2> QED BY <2>1, <2>2, GoesTo
<1> QED BY <1>1, <1>2, <1>3, <1>4, <1>5, <1>6, <1>7 DEF CaptureStep

LEMMA SizeType ==
    ASSUME NEW a \in Artifact
    PROVE  /\ Size[a] \in Nat
           /\ Accepted(a) => Size[a] \in MinProposals .. MaxProposals /\ 0 < Size[a]
BY FunnelAssumption DEF Accepted

LEMMA ImportMoves ==
    ASSUME TypeInv, NEW p \in Proc, ImportStep(p)
    PROVE  Moves(p)
<1>0. /\ work[p] \in Work /\ pc[p] \in Steps
      /\ RouteAt(pc[p], work[p]) /\ HeldAt(pc[p], work[p])
  BY WorkTyped DEF WorkAt
<1>1. CASE ImportAccepted(p)
  <2> DEFINE w == [work[p] EXCEPT !.importing = TRUE]
  <2>1. pc[p] = "import" /\ work[p].text \in Text /\ work[p].artifact \in Artifact
        /\ Accepted(work[p].artifact)
    BY <1>0, <1>1 DEF ImportAccepted, HeldAt
  <2>2. w \in Work /\ w.text = work[p].text /\ w.importing /\ w.artifact = work[p].artifact
    BY <1>0 DEF Work
  <2>3. "register" \in Steps /\ WorkAt("register", w)
    <3> HIDE DEF w
    <3> QED BY <2>1, <2>2 DEF Steps, WorkAt, RouteAt, HeldAt, Resolution
  <2>4. pc' = [pc EXCEPT ![p] = "register"] /\ work' = [work EXCEPT ![p] = w]
    BY <1>1 DEF ImportAccepted, Goto
  <2> HIDE DEF w
  <2> QED BY <2>2, <2>3, <2>4, MovesTo
<1>2. CASE RequestRepair(p)
  <2> DEFINE w == [work[p] EXCEPT !.repairs = work[p].artifact, !.artifact = None]
  <2>1. pc[p] = "import" /\ work[p].text \in Text
        /\ work[p].artifact \in Artifact /\ ~work[p].importing
    BY <1>0, <1>2 DEF RequestRepair, HeldAt
  <2>2. w \in Work /\ w.text = work[p].text /\ ~w.importing
    BY <1>0, <2>1 DEF Work
  <2>3. "lookup" \in Steps /\ WorkAt("lookup", w)
    <3> HIDE DEF w
    <3> QED BY <2>1, <2>2 DEF Steps, WorkAt, RouteAt, HeldAt, Resolution
  <2>4. pc' = [pc EXCEPT ![p] = "lookup"] /\ work' = [work EXCEPT ![p] = w]
    BY <1>2 DEF RequestRepair, Goto
  <2> HIDE DEF w
  <2> QED BY <2>2, <2>3, <2>4, MovesTo
<1>3. CASE ImportFails(p)
  <2>1. pc[p] # "idle" /\ "validation_failed" \in Status /\ NoArtifact(p, "validation_failed")
    BY <1>3 DEF ImportFails, Status
  <2> QED BY <2>1, NoArtifactMoves
<1>4. CASE UpsertMetadata(p)
  <2> DEFINE w == [work[p] EXCEPT !.index = 0]
  <2>1. /\ pc[p] = "metadata" /\ work[p].text \in Text /\ work[p].importing
        /\ work[p].artifact \in Artifact /\ Accepted(work[p].artifact)
        /\ work[p].into \in Cluster /\ work[p].under \in Text
    BY <1>0, <1>4 DEF UpsertMetadata, HeldAt
  <2>2. /\ w \in Work /\ w.text = work[p].text /\ w.importing /\ w.artifact = work[p].artifact
        /\ w.into = work[p].into /\ w.under = work[p].under /\ w.index = 0
    BY <1>0, <2>1 DEF Work
  <2>3. "proposal" \in Steps /\ WorkAt("proposal", w)
    <3> HIDE DEF w
    <3> QED BY <2>1, <2>2, SizeType DEF Steps, WorkAt, RouteAt, HeldAt, Resolution
  <2>4. pc' = [pc EXCEPT ![p] = "proposal"] /\ work' = [work EXCEPT ![p] = w]
    BY <1>4 DEF UpsertMetadata, Goto
  <2> HIDE DEF w
  <2> QED BY <2>2, <2>3, <2>4, MovesTo
<1>5. CASE UpsertProposal(p)
  <2>1. /\ pc[p] = "proposal" /\ work[p].importing /\ work[p].text \in Text
        /\ work[p].artifact \in Artifact /\ Accepted(work[p].artifact)
        /\ work[p].into \in Cluster /\ work[p].under \in Text
        /\ work[p].index \in Nat /\ work[p].index < Size[work[p].artifact]
    BY <1>0, <1>5 DEF UpsertProposal, HeldAt, Work
  <2>2. CASE LastProposal(p) /\ Imported(p)
    <3>1. "cache_hit" \in Status /\ "captured_and_cached" \in Status /\ pc[p] # "idle"
      BY <2>1 DEF Status
    <3> QED BY <2>2, <3>1, FinishMoves, ConcludeMoves DEF Imported
  <2>3. CASE /\ ~LastProposal(p)
             /\ work' = [work EXCEPT ![p].index = @ + 1]
             /\ UNCHANGED pc
    <3> DEFINE w == [work[p] EXCEPT !.index = work[p].index + 1]
    <3>1. /\ w \in Work /\ w.text = work[p].text /\ w.importing /\ w.artifact = work[p].artifact
          /\ w.into = work[p].into /\ w.under = work[p].under /\ w.index = work[p].index + 1
      BY <1>0, <2>1 DEF Work
    <3>2. work[p].index + 1 < Size[work[p].artifact]
      BY <2>1, <2>3, SizeType DEF LastProposal
    <3>3. "proposal" \in Steps /\ WorkAt("proposal", w)
      <4> HIDE DEF w
      <4> QED BY <2>1, <3>1, <3>2 DEF Steps, WorkAt, RouteAt, HeldAt, Resolution
    <3>4. pc' = [pc EXCEPT ![p] = "proposal"] /\ work' = [work EXCEPT ![p] = w]
      BY <2>1, <2>3, WorkTyped
    <3> HIDE DEF w
    <3> QED BY <3>1, <3>3, <3>4, MovesTo
  <2> QED BY <1>5, <2>2, <2>3 DEF UpsertProposal
<1>6. CASE ProposalKeyConflict(p)
  BY <1>6, FinishMoves DEF ProposalKeyConflict
<1>7. CASE Respond(p)
  BY <1>7, FinishMoves DEF Respond
<1> QED BY <1>1, <1>2, <1>3, <1>4, <1>5, <1>6, <1>7 DEF ImportStep

LEMMA StepMoves ==
    ASSUME TypeInv, NEW p \in Proc, StepOf(p)
    PROVE  Moves(p)
<1>1. CASE Crash(p)
  BY <1>1, FinishMoves DEF Crash
<1> QED BY <1>1, StartMoves, ResolveMoves, CaptureMoves, ImportMoves DEF StepOf, Serve

\* A request lives in its own process: a step moves no other.
LEMMA OthersKept ==
    ASSUME TypeInv, NEW p \in Proc, StepOf(p), NEW q \in Proc, q # p
    PROVE  pc'[q] = pc[q] /\ work'[q] = work[q]
<1>1. pc \in [Proc -> Steps] /\ work \in [Proc -> Work]
  BY WorkTyped
<1>2. CASE StartBootstrap(p) \/ StartGuess(p) \/ StartRebootstrap(p) \/ StartAdjudicate(p) \/ Crash(p)
  BY <1>1, <1>2 DEF StartBootstrap, StartGuess, StartRebootstrap, StartAdjudicate, Adjudicate,
       Begin, Goto, Finish, Crash
<1>3. CASE ResolveStep(p)
  <2>1. ASSUME NEW c, NEW b, NEW band \in {"alias_hit", "novel"}, Resolved(p, c, b, band),
               pc[p] \in Resolution
        PROVE  pc'[q] = pc[q] /\ work'[q] = work[q]
    <3>1. work[p].importing \/ work[p].route \in {"guess", "bootstrap"}
      BY <2>1, WorkTyped DEF WorkAt, RouteAt
    <3> QED BY <1>1, <2>1, <3>1 DEF Resolved, Goto, Finish
  <2>2. CASE ReadCanonical(p) \/ AdoptMinimum(p) \/ AdoptFallback(p) \/ InsertAlias(p)
    BY <1>1, <2>1, <2>2 DEF ReadCanonical, AdoptMinimum, AdoptFallback, InsertAlias, Goto, Resolution
  <2>3. CASE GetOrCreateQueryId(p) \/ ReadAlias(p) \/ FindMinimum(p) \/ AdmitCluster(p)
    BY <1>1, <2>3 DEF GetOrCreateQueryId, ReadAlias, FindMinimum, AdmitCluster, Goto
  <2> QED BY <1>3, <2>2, <2>3 DEF ResolveStep
<1>4. CASE CaptureStep(p)
  BY <1>1, <1>4 DEF CaptureStep, Goto, Finish, Conclude, HasProposals, DeleteProposals, CacheHit,
       CacheMissOffline, ProviderError, Capture, StoreCapture, NoArtifact
<1>5. CASE ImportStep(p)
  BY <1>1, <1>5 DEF ImportStep, Goto, Finish, Conclude, NoArtifact, ImportAccepted, RequestRepair,
       ImportFails, UpsertMetadata, UpsertProposal, ProposalKeyConflict, Imported, Respond
<1> QED BY <1>2, <1>3, <1>4, <1>5 DEF StepOf, Serve

-----------------------------------------------------------------------------
(* The statements that write each part of the store.                       *)

Starts(p) == StartBootstrap(p) \/ StartGuess(p) \/ StartRebootstrap(p)

LEMMA Writers ==
    ASSUME NEW p \in Proc, StepOf(p)
    PROVE  /\ UNCHANGED queries \/ GetOrCreateQueryId(p)
           /\ UNCHANGED clusters \/ AdmitCluster(p)
           /\ UNCHANGED canonical \/ AdmitCluster(p) \/ AdoptMinimum(p) \/ AdoptFallback(p)
           /\ UNCHANGED alias \/ StartAdjudicate(p) \/ InsertAlias(p)
           /\ UNCHANGED llmCache \/ StoreCapture(p)
           /\ UNCHANGED metadata \/ UpsertMetadata(p)
           /\ UNCHANGED proposals \/ DeleteProposals(p) \/ UpsertProposal(p)
           /\ UNCHANGED reply \/ Starts(p) \/ Respond(p)
           /\ UNCHANGED told \/ Respond(p)
           /\ UNCHANGED ops \/ Starts(p) \/ StartAdjudicate(p)
           /\ UNCHANGED crashes \/ Crash(p)
<1> USE DEF identityVars, contentVars, envVars
<1>1. CASE Starts(p)
  BY <1>1 DEF Starts, StartBootstrap, StartGuess, StartRebootstrap, Begin
<1>2. CASE StartAdjudicate(p)
  BY <1>2 DEF StartAdjudicate, Adjudicate
<1>3. CASE ResolveStep(p)
  BY <1>3 DEF ResolveStep, GetOrCreateQueryId, ReadAlias, ReadCanonical, FindMinimum,
       AdoptMinimum, AdoptFallback, AdmitCluster, InsertAlias
<1>4. CASE CaptureStep(p)
  BY <1>4 DEF CaptureStep, HasProposals, DeleteProposals, CacheHit, CacheMissOffline,
       ProviderError, Capture, StoreCapture
<1>5. CASE ImportStep(p)
  BY <1>5 DEF ImportStep, ImportAccepted, RequestRepair, ImportFails, UpsertMetadata,
       UpsertProposal, ProposalKeyConflict, Respond
<1>6. CASE Crash(p)
  BY <1>6 DEF Crash
<1> QED BY <1>1, <1>2, <1>3, <1>4, <1>5, <1>6 DEF StepOf, Starts, Serve

LEMMA IdentityType ==
    ASSUME TypeInv, NEW p \in Proc, StepOf(p)
    PROVE  /\ queries' \subseteq Text /\ clusters' \subseteq Cluster
           /\ canonical' \in [Cluster -> Text \cup {None}]
           /\ alias' \in [Text -> Cluster \cup {None}]
<1>0. HeldAt(pc[p], work[p])
  BY WorkTyped DEF WorkAt
<1>1. queries' \subseteq Text
  <2>1. CASE GetOrCreateQueryId(p)
    <3>1. work[p].text \in Text
      BY <1>0, <2>1 DEF GetOrCreateQueryId, HeldAt
    <3> QED BY <2>1, <3>1 DEF GetOrCreateQueryId, TypeInv, TypeOK
  <2> QED BY <2>1, Writers DEF TypeInv, TypeOK
<1>2. clusters' \subseteq Cluster /\ canonical' \in [Cluster -> Text \cup {None}]
  <2>1. CASE AdmitCluster(p)
    <3>1. work[p].text \in Text
      BY <1>0, <2>1 DEF AdmitCluster, HeldAt
    <3> QED BY <2>1, <3>1 DEF AdmitCluster, TypeInv, TypeOK, Cluster
  <2>2. CASE AdoptMinimum(p)
    <3>1. (IF work[p].importing THEN work[p].under ELSE work[p].query) \in Text
      BY <1>0, <2>2 DEF AdoptMinimum, HeldAt
    <3> QED BY <2>2, <3>1 DEF AdoptMinimum, TypeInv, TypeOK
  <2>3. CASE AdoptFallback(p)
    <3>1. work[p].text \in Text
      BY <1>0, <2>3 DEF AdoptFallback, HeldAt
    <3> QED BY <2>3, <3>1 DEF AdoptFallback, TypeInv, TypeOK
  <2> QED BY <2>1, <2>2, <2>3, Writers DEF TypeInv, TypeOK
<1>3. alias' \in [Text -> Cluster \cup {None}]
  <2>1. CASE StartAdjudicate(p)
    BY <2>1 DEF StartAdjudicate, Adjudicate, TypeInv, TypeOK
  <2>2. CASE InsertAlias(p)
    <3>1. work[p].text \in Text
      BY <1>0, <2>2 DEF InsertAlias, HeldAt
    <3> QED BY <2>2, <3>1 DEF InsertAlias, TypeInv, TypeOK, Cluster
  <2> QED BY <2>1, <2>2, Writers DEF TypeInv, TypeOK
<1> QED BY <1>1, <1>2, <1>3

LEMMA NewRowType ==
    ASSUME TypeInv, NEW p \in Proc, pc[p] = "proposal"
    PROVE  /\ NewRow(p) \in Row
           /\ NewRow(p).query = work[p].under /\ NewRow(p).cluster = work[p].into
           /\ NewRow(p).index = work[p].index /\ NewRow(p).artifact = work[p].artifact
<1>1. /\ work[p].under \in Text /\ work[p].into \in Cluster /\ work[p].artifact \in Artifact
      /\ work[p].index \in Nat
  BY WorkTyped DEF WorkAt, HeldAt, Work
<1> QED BY <1>1 DEF NewRow, Row

LEMMA ContentType ==
    ASSUME TypeInv, NEW p \in Proc, StepOf(p)
    PROVE  /\ llmCache' \in [Prompt -> Artifact \cup {None}]
           /\ metadata' \in [Text -> Artifact \cup {None}]
           /\ proposals' \subseteq Row
<1>0. HeldAt(pc[p], work[p])
  BY WorkTyped DEF WorkAt
<1>1. llmCache' \in [Prompt -> Artifact \cup {None}]
  <2>1. CASE StoreCapture(p)
    <3>1. work[p].artifact \in Artifact
      BY <1>0, <2>1 DEF StoreCapture, HeldAt
    <3> QED BY <2>1, <3>1 DEF StoreCapture, TypeInv, TypeOK
  <2> QED BY <2>1, Writers DEF TypeInv, TypeOK
<1>2. metadata' \in [Text -> Artifact \cup {None}]
  <2>1. CASE UpsertMetadata(p)
    <3>1. work[p].artifact \in Artifact
      BY <1>0, <2>1 DEF UpsertMetadata, HeldAt
    <3> QED BY <2>1, <3>1 DEF UpsertMetadata, TypeInv, TypeOK
  <2> QED BY <2>1, Writers DEF TypeInv, TypeOK
<1>3. proposals' \subseteq Row
  <2>1. CASE DeleteProposals(p)
    BY <2>1 DEF DeleteProposals, TypeInv, TypeOK
  <2>2. CASE UpsertProposal(p)
    <3>1. NewRow(p) \in Row
      BY <2>2, NewRowType DEF UpsertProposal
    <3> QED BY <2>2, <3>1 DEF UpsertProposal, TypeInv, TypeOK
  <2> QED BY <2>1, <2>2, Writers DEF TypeInv, TypeOK
<1> QED BY <1>1, <1>2, <1>3

LEMMA EnvType ==
    ASSUME TypeInv, NEW p \in Proc, StepOf(p)
    PROVE  /\ reply' \in [Proc -> Reply \cup {None}] /\ told' \subseteq Text
           /\ ops' \in 0 .. MaxOps /\ crashes' \in 0 .. MaxCrashes
<1>1. reply' \in [Proc -> Reply \cup {None}] /\ told' \subseteq Text
  <2>1. CASE Starts(p)
    BY <2>1 DEF Starts, StartBootstrap, StartGuess, StartRebootstrap, Begin, TypeInv, TypeOK
  <2>2. CASE Respond(p)
    <3> DEFINE rows == IF work[p].cluster # None THEN RowsOfCluster(work[p].cluster)
                       ELSE RowsOfQuery(work[p].query)
               answer == [route |-> work[p].route, text |-> work[p].text,
                          online |-> work[p].online, artifact |-> work[p].artifact,
                          status |-> work[p].status, rows |-> rows]
    <3>1. work[p] \in Work /\ work[p].text \in Text
      BY <2>2, WorkTyped DEF Respond, WorkAt, HeldAt
    <3>2. rows \in SUBSET Row
      BY DEF RowsOfCluster, RowsOfQuery, TypeInv, TypeOK
    <3>3. answer \in Reply
      <4> HIDE DEF rows
      <4> QED BY <3>1, <3>2 DEF Work, Reply
    <3>4. reply' = [reply EXCEPT ![p] = answer]
      BY <2>2 DEF Respond
    <3>5. told' \subseteq Text
      BY <2>2, <3>1 DEF Respond, TypeInv, TypeOK
    <3> HIDE DEF answer
    <3> QED BY <3>3, <3>4, <3>5 DEF TypeInv, TypeOK
  <2>3. CASE UNCHANGED <<reply, told>>
    BY <2>3 DEF TypeInv, TypeOK
  <2>4. CASE UNCHANGED reply /\ ~UNCHANGED told
    BY <2>2, <2>4, Writers
  <2>5. Starts(p) => UNCHANGED told
    BY DEF Starts, StartBootstrap, StartGuess, StartRebootstrap, Begin
  <2> QED BY <2>1, <2>2, <2>3, <2>4, <2>5, Writers
<1>2. ops' \in 0 .. MaxOps
  <2>1. CASE Starts(p) \/ StartAdjudicate(p)
    <3>1. ops < MaxOps /\ ops' = ops + 1
      BY <2>1 DEF Starts, StartBootstrap, StartGuess, StartRebootstrap, StartAdjudicate, Begin
    <3>2. ops \in 0 .. MaxOps /\ MaxOps \in Nat
      BY FunnelAssumption DEF TypeInv, TypeOK
    <3> QED BY <3>1, <3>2
  <2> QED BY <2>1, Writers DEF TypeInv, TypeOK
<1>3. crashes' \in 0 .. MaxCrashes
  <2>1. CASE Crash(p)
    BY <2>1, FunnelAssumption DEF Crash, TypeInv, TypeOK
  <2> QED BY <2>1, Writers DEF TypeInv, TypeOK
<1> QED BY <1>1, <1>2, <1>3

-----------------------------------------------------------------------------
LEMMA NextStep == Next => \E p \in Proc : StepOf(p)
BY DEF Next, StepOf

LEMMA StepTypeInv ==
    ASSUME TypeInv, NEW p \in Proc, StepOf(p)
    PROVE  TypeInv'
<1>1. TypeOK'
  BY StepMoves, IdentityType, ContentType, EnvType DEF Moves, TypeOK
<1>2. ASSUME NEW q \in Proc PROVE WorkAt(pc'[q], work'[q])
  <2>1. CASE q = p
    BY <2>1, StepMoves DEF Moves
  <2>2. CASE q # p
    BY <2>2, OthersKept, WorkTyped
  <2> QED BY <2>1, <2>2
<1> QED BY <1>1, <1>2 DEF TypeInv, WorkOK

LEMMA InitTypeInv == Init => TypeInv
<1> SUFFICES ASSUME Init PROVE TypeInv
  OBVIOUS
<1>1. canonical \in [Cluster -> Text \cup {None}] /\ llmCache \in [Prompt -> Artifact \cup {None}]
      /\ metadata \in [Text -> Artifact \cup {None}] /\ reply \in [Proc -> Reply \cup {None}]
      /\ ops \in 0 .. MaxOps /\ crashes \in 0 .. MaxCrashes
  BY FunnelAssumption DEF Init
<1>2. alias \in [Text -> Cluster \cup {None}] /\ queries \subseteq Text /\ clusters \subseteq Cluster
  BY FunnelAssumption DEF Init, Cluster
<1>3. pc \in [Proc -> Steps] /\ work \in [Proc -> Work] /\ WorkOK
  BY NoWorkType DEF Init, Steps, WorkOK
<1> QED BY <1>1, <1>2, <1>3 DEF Init, TypeInv, TypeOK

\* The strengthening of TypeOK by what a request holds at each of its steps.
THEOREM FunnelInvariant == Spec => []TypeInv
<1>1. TypeInv /\ [Next]_vars => TypeInv'
  <2>1. TypeInv /\ UNCHANGED vars => TypeInv'
    BY DEF vars, identityVars, contentVars, envVars, TypeInv, TypeOK, WorkOK
  <2> QED BY <2>1, StepTypeInv, NextStep
<1> QED BY <1>1, InitTypeInv, PTL DEF Spec

\* The variables keep their types: in particular a request always holds the text, the
\* artifact, the cluster and the query id that its next statement binds.
THEOREM FunnelTypeCorrect == Spec => []TypeOK
<1>1. TypeInv => TypeOK
  BY DEF TypeInv
<1> QED BY <1>1, FunnelInvariant, PTL

-----------------------------------------------------------------------------
(* Which statements lead where.                                            *)

LEMMA ResolvedLeads ==
    ASSUME TypeInv, NEW p \in Proc, pc[p] \in Resolution, NEW c, NEW q,
           NEW band \in {"alias_hit", "novel"}, Resolved(p, c, q, band)
    PROVE  pc'[p] \in {"metadata", "idle", "load", "has"}
<1>1. work[p].importing \/ work[p].route \in {"guess", "bootstrap"}
  BY WorkTyped DEF WorkAt, RouteAt
<1> QED BY <1>1, WorkTyped DEF Resolved, Goto, Finish

LEMMA ResolveLeads ==
    ASSUME TypeInv, NEW p \in Proc, ResolveStep(p)
    PROVE  /\ pc'[p] \in {"has", "alias", "admit", "canonical", "minimum", "adopt", "fallback",
                          "insertAlias", "metadata", "idle", "load"}
           /\ pc'[p] = "alias" => GetOrCreateQueryId(p)
           /\ pc'[p] \in {"admit", "canonical"} => ReadAlias(p)
           /\ pc'[p] = "minimum" => ReadCanonical(p)
           /\ pc'[p] \in {"adopt", "fallback"} => FindMinimum(p)
           /\ pc'[p] = "insertAlias" => AdmitCluster(p)
           /\ pc'[p] \in {"metadata", "load"} =>
                 ReadCanonical(p) \/ AdoptMinimum(p) \/ AdoptFallback(p) \/ InsertAlias(p)
           /\ pc'[p] = "has" =>
                 \/ GetOrCreateQueryId(p)
                 \/ ReadCanonical(p) \/ AdoptMinimum(p) \/ AdoptFallback(p) \/ InsertAlias(p)
<1>0. pc \in [Proc -> Steps]
  BY WorkTyped
<1>1. CASE GetOrCreateQueryId(p)
  BY <1>0, <1>1 DEF GetOrCreateQueryId, Goto
<1>2. CASE ReadAlias(p)
  BY <1>0, <1>2 DEF ReadAlias, Goto
<1>3. CASE FindMinimum(p)
  BY <1>0, <1>3 DEF FindMinimum, Goto
<1>4. CASE AdmitCluster(p)
  BY <1>0, <1>4 DEF AdmitCluster, Goto
<1>5. CASE ReadCanonical(p)
  <2>1. pc'[p] = "minimum" \/ pc'[p] \in {"metadata", "idle", "load", "has"}
    BY <1>0, <1>5, ResolvedLeads DEF ReadCanonical, Goto, Resolution
  <2> QED BY <1>5, <2>1
<1>6. CASE AdoptMinimum(p) \/ AdoptFallback(p) \/ InsertAlias(p)
  <2>1. pc'[p] \in {"metadata", "idle", "load", "has"}
    BY <1>6, ResolvedLeads DEF AdoptMinimum, AdoptFallback, InsertAlias, Resolution
  <2> QED BY <1>6, <2>1
<1> QED BY <1>1, <1>2, <1>3, <1>4, <1>5, <1>6 DEF ResolveStep

LEMMA CaptureLeads ==
    ASSUME TypeInv, NEW p \in Proc, CaptureStep(p)
    PROVE  /\ pc'[p] \in {"lookup", "store", "import", "idle", "load"}
           /\ pc'[p] = "lookup" => HasProposals(p) \/ DeleteProposals(p)
           /\ pc'[p] = "store" => Capture(p)
           /\ pc'[p] = "import" => CacheHit(p) \/ StoreCapture(p)
           /\ pc'[p] = "load" => HasProposals(p) \/ CacheMissOffline(p) \/ ProviderError(p)
BY WorkTyped DEF CaptureStep, HasProposals, DeleteProposals, CacheHit, CacheMissOffline,
     ProviderError, Capture, StoreCapture, NoArtifact, Conclude, Goto, Finish

LEMMA ImportLeads ==
    ASSUME TypeInv, NEW p \in Proc, ImportStep(p)
    PROVE  /\ pc'[p] \in {"register", "lookup", "proposal", "idle", "load"}
           /\ pc'[p] = "register" => ImportAccepted(p)
           /\ pc'[p] = "lookup" => RequestRepair(p)
           /\ pc'[p] = "proposal" => UpsertMetadata(p) \/ UpsertProposal(p)
           /\ pc'[p] = "load" => ImportFails(p) \/ UpsertProposal(p)
BY WorkTyped DEF ImportStep, ImportAccepted, RequestRepair, ImportFails, UpsertMetadata,
     UpsertProposal, ProposalKeyConflict, Imported, Respond, NoArtifact, Conclude, Goto, Finish

LEMMA StartLeads ==
    ASSUME TypeInv, NEW p \in Proc, Starts(p) \/ StartAdjudicate(p) \/ Crash(p)
    PROVE  /\ pc'[p] \in {"register", "delete", "idle"}
           /\ \/ pc[p] = "idle" /\ pc' = pc /\ work' = work
              \/ ~work'[p].importing
<1>0. NoWork.importing = FALSE
  BY DEF NoWork
<1>1. CASE Starts(p)
  <2>1. ASSUME NEW step \in {"register", "delete"}, NEW w, ~w.importing, Begin(p, step, w)
        PROVE  pc'[p] \in {"register", "delete", "idle"} /\ ~work'[p].importing
    BY <2>1, WorkTyped DEF Begin, Goto
  <2>2. ASSUME NEW route, NEW t, NEW online
        PROVE  /\ ~[NoWork EXCEPT !.route = route, !.text = t, !.online = online].importing
               /\ ~[NoWork EXCEPT !.text = t].importing
    BY DEF NoWork
  <2>3. CASE StartBootstrap(p)
    BY <2>1, <2>2, <2>3 DEF StartBootstrap
  <2>4. CASE StartGuess(p)
    BY <2>1, <2>2, <2>4 DEF StartGuess
  <2>5. CASE StartRebootstrap(p)
    BY <2>1, <2>2, <2>5 DEF StartRebootstrap
  <2> QED BY <1>1, <2>3, <2>4, <2>5 DEF Starts
<1>2. CASE StartAdjudicate(p)
  BY <1>2 DEF StartAdjudicate, Adjudicate
<1>3. CASE Crash(p)
  BY <1>0, <1>3, WorkTyped DEF Crash, Finish, Goto
<1> QED BY <1>1, <1>2, <1>3

-----------------------------------------------------------------------------
(* The rows are sound.                                                     *)

LEMMA MetadataStays ==
    ASSUME TypeInv, NEW p \in Proc, StepOf(p), NEW t \in Text, metadata[t] # None
    PROVE  metadata'[t] # None
<1>1. CASE UpsertMetadata(p)
  <2>1. work[p].artifact \in Artifact
    BY <1>1, WorkTyped DEF UpsertMetadata, WorkAt, HeldAt
  <2> QED BY <1>1, <2>1, FunnelAssumption DEF UpsertMetadata, TypeInv, TypeOK
<1> QED BY <1>1, Writers

LEMMA MetadataWritten ==
    ASSUME TypeInv, NEW p \in Proc, StepOf(p), pc'[p] = "proposal",
           pc[p] = "proposal" => metadata[work[p].under] # None
    PROVE  metadata'[work'[p].under] # None
<1>0. UpsertMetadata(p) \/ UpsertProposal(p)
  BY ResolveLeads, CaptureLeads, ImportLeads, StartLeads DEF StepOf, Serve, Starts
<1>1. CASE UpsertMetadata(p)
  <2>1. work[p].artifact \in Artifact /\ work[p].under \in Text
    BY <1>1, WorkTyped DEF UpsertMetadata, WorkAt, HeldAt
  <2>2. work'[p].under = work[p].under
    BY <1>1, WorkTyped DEF UpsertMetadata, Work
  <2>3. metadata'[work[p].under] = work[p].artifact
    BY <1>1, <2>1 DEF UpsertMetadata, TypeInv, TypeOK
  <2> QED BY <2>1, <2>2, <2>3, FunnelAssumption
<1>2. CASE UpsertProposal(p)
  <2>1. pc[p] = "proposal" /\ UNCHANGED metadata
    BY <1>2 DEF UpsertProposal
  <2>2. work' = [work EXCEPT ![p].index = @ + 1]
    <3>1. ~Imported(p)
      BY WorkTyped DEF Imported, Finish, Conclude, Goto
    <3> QED BY <1>2, <3>1 DEF UpsertProposal
  <2>3. work'[p].under = work[p].under
    BY <2>2, WorkTyped DEF Work
  <2> QED BY <2>1, <2>3
<1> QED BY <1>0, <1>1, <1>2

LEMMA StepSoundInv ==
    ASSUME TypeInv, SoundInv, NEW p \in Proc, StepOf(p)
    PROVE  SoundInv'
<1>1. ASSUME NEW r \in proposals'
      PROVE  Verdict[r.artifact] = "accepted" /\ r.index < Size[r.artifact] /\ metadata'[r.query] # None
  <2>1. CASE r \in proposals
    <3>1. r.query \in Text
      BY <2>1 DEF TypeInv, TypeOK, Row
    <3> QED BY <2>1, <3>1, MetadataStays DEF SoundInv, RowsSound
  <2>2. CASE r \notin proposals
    <3>1. UpsertProposal(p) /\ r = NewRow(p)
      BY <2>2, Writers DEF DeleteProposals, UpsertProposal
    <3>2. pc[p] = "proposal" /\ UNCHANGED metadata
      BY <3>1 DEF UpsertProposal
    <3>3. Verdict[work[p].artifact] = "accepted" /\ work[p].index < Size[work[p].artifact]
      BY <3>2, WorkTyped DEF WorkAt, HeldAt, Accepted
    <3>4. metadata[work[p].under] # None
      BY <3>2 DEF SoundInv, MetadataFirst
    <3> QED BY <3>1, <3>2, <3>3, <3>4, NewRowType
  <2> QED BY <2>1, <2>2
<1>2. ASSUME NEW q \in Proc, pc'[q] = "proposal" PROVE metadata'[work'[q].under] # None
  <2>1. CASE q = p
    BY <1>2, <2>1, MetadataWritten DEF SoundInv, MetadataFirst
  <2>2. CASE q # p
    <3>1. pc[q] = "proposal" /\ work'[q] = work[q]
      BY <1>2, <2>2, OthersKept
    <3>2. work[q].under \in Text
      BY <3>1, WorkTyped DEF WorkAt, HeldAt
    <3> QED BY <3>1, <3>2, MetadataStays DEF SoundInv, MetadataFirst
  <2> QED BY <2>1, <2>2
<1> QED BY <1>1, <1>2 DEF SoundInv, RowsSound, MetadataFirst

\* Whatever the interleaving of imports, deletions and stops, the store holds proposals of
\* accepted artifacts only, none beyond the end of its artifact, and each one under a query
\* whose metadata was written before it.
THEOREM RowsAreSound == Spec => []RowsSound
<1>1. Init => SoundInv
  BY DEF Init, SoundInv, RowsSound, MetadataFirst
<1>2. TypeInv /\ SoundInv /\ [Next]_vars => SoundInv'
  <2>1. SoundInv /\ UNCHANGED vars => SoundInv'
    BY DEF vars, identityVars, contentVars, envVars, SoundInv, RowsSound, MetadataFirst
  <2> QED BY <2>1, StepSoundInv, NextStep
<1>3. SoundInv => RowsSound
  BY DEF SoundInv
<1> QED BY <1>1, <1>2, <1>3, FunnelInvariant, PTL DEF Spec

-----------------------------------------------------------------------------
(* What the only process finds is still so at its next statement.          *)

\* The outcome of a resolution, for an import and for anything else.
LEMMA ResolvedEffect ==
    ASSUME TypeInv, NEW p \in Proc, pc[p] \in Resolution, NEW c \in Cluster, NEW q \in Text,
           NEW band \in {"alias_hit", "novel"}, Resolved(p, c, q, band)
    PROVE  \/ /\ work[p].importing /\ pc'[p] = "metadata"
              /\ work'[p] = [work[p] EXCEPT !.into = c, !.under = q]
              /\ work'[p].into = c /\ work'[p].under = q /\ work'[p].importing
              /\ work'[p].artifact = work[p].artifact
           \/ /\ ~work[p].importing /\ ~work'[p].importing
              /\ pc'[p] \in {"idle", "load", "has"}
<1>1. work[p].importing \/ work[p].route \in {"guess", "bootstrap"}
  BY WorkTyped DEF WorkAt, RouteAt
<1>2. CASE work[p].importing
  <2> DEFINE w == [work[p] EXCEPT !.into = c, !.under = q]
  <2>1. w.into = c /\ w.under = q /\ w.importing /\ w.artifact = work[p].artifact
    BY <1>2, WorkTyped DEF Work
  <2>2. pc'[p] = "metadata" /\ work'[p] = w
    BY <1>2, WorkTyped DEF Resolved, Goto
  <2> HIDE DEF w
  <2>3. work'[p].into = c /\ work'[p].under = q /\ work'[p].importing
        /\ work'[p].artifact = work[p].artifact
    BY <2>1, <2>2
  <2> QED BY <1>2, <2>2, <2>3 DEF w
<1>3. CASE ~work[p].importing /\ work[p].route = "guess"
  BY <1>3, WorkTyped DEF Resolved, Finish, Goto, NoWork
<1>4. CASE ~work[p].importing /\ work[p].route = "bootstrap"
  <2>1. CASE band = "alias_hit"
    <3> DEFINE w == [work[p] EXCEPT !.cluster = c, !.query = q, !.status = "cluster_reuse"]
    <3>1. ~w.importing
      BY <1>4, WorkTyped DEF Work
    <3>2. pc'[p] = "load" /\ work'[p] = w
      BY <1>4, <2>1, WorkTyped DEF Resolved, Goto
    <3> QED BY <1>4, <3>1, <3>2
  <2>2. CASE band = "novel"
    <3> DEFINE w == [work[p] EXCEPT !.cluster = c, !.query = q]
    <3>1. ~w.importing
      BY <1>4, WorkTyped DEF Work
    <3>2. pc'[p] = "has" /\ work'[p] = w
      BY <1>4, <2>2, WorkTyped DEF Resolved, Goto
    <3> QED BY <1>4, <3>1, <3>2
  <2> QED BY <2>1, <2>2
<1> QED BY <1>1, <1>2, <1>3, <1>4

\* A step that ends or concludes a request imports nothing it did not import before.
LEMMA EndsEffect ==
    ASSUME TypeInv, NEW p \in Proc, Finish(p) \/ \E status \in Status : Conclude(p, status)
    PROVE  /\ pc'[p] \in {"idle", "load"}
           /\ work'[p].importing => work[p].importing /\ work'[p].artifact = work[p].artifact
<1>1. CASE Finish(p)
  BY <1>1, WorkTyped DEF Finish, Goto, NoWork
<1>2. CASE \E status \in Status : Conclude(p, status)
  BY <1>2, WorkTyped DEF Conclude, Goto, Work
<1> QED BY <1>1, <1>2

\* What the cache holds for a prompt is not replaced.
LEMMA CacheKeeps ==
    ASSUME TypeInv, NEW p \in Proc, StepOf(p), NEW q \in Prompt, llmCache[q] # None
    PROVE  llmCache'[q] = llmCache[q]
BY Writers DEF StoreCapture, TypeInv, TypeOK

LEMMA AskedStays ==
    ASSUME TypeInv, NEW p \in Proc, StepOf(p), NEW q \in Prompt, AskedAgain(q)
    PROVE  AskedAgain(q)'
<1> SUFFICES ASSUME q.repairs # None PROVE AskedAgain(q)'
  BY DEF AskedAgain
<1>1. [text |-> q.text, repairs |-> None] \in Prompt
  BY DEF Prompt
<1>2. /\ Verdict[q.repairs] = "rejected"
      /\ llmCache[[text |-> q.text, repairs |-> None]] = q.repairs
  BY DEF AskedAgain
<1>3. llmCache'[[text |-> q.text, repairs |-> None]] = q.repairs
  BY <1>1, <1>2, CacheKeeps
<1> QED BY <1>2, <1>3 DEF AskedAgain

LEMMA CachedStays ==
    ASSUME TypeInv, NEW p \in Proc, StepOf(p), NEW a \in Artifact, Cached(a)
    PROVE  Cached(a)'
<1>1. PICK q \in Prompt : llmCache[q] = a /\ AskedAgain(q)
  BY DEF Cached
<1>2. llmCache'[q] = a
  BY <1>1, CacheKeeps, FunnelAssumption
<1>3. AskedAgain(q)'
  BY <1>1, AskedStays
<1> QED BY <1>2, <1>3 DEF Cached

\* A request keeps its route and its text, and a repair follows the first prompt only.
LEMMA RequestKept ==
    ASSUME TypeInv, NEW p \in Proc, StepOf(p)
    PROVE  \/ Starts(p) \/ Finish(p)
           \/ /\ work'[p].route = work[p].route /\ work'[p].text = work[p].text
              /\ work'[p].repairs = work[p].repairs \/ RequestRepair(p)
<1> DEFINE Kept(w) == /\ w.route = work[p].route /\ w.text = work[p].text
                      /\ w.repairs = work[p].repairs
<1>0. work[p] \in Work /\ work \in [Proc -> Work]
  BY WorkTyped
<1>1. ASSUME NEW status, Conclude(p, status) PROVE Kept(work'[p])
  BY <1>0, <1>1 DEF Conclude, Work
<1>2. ASSUME NEW c, NEW q, NEW band \in {"alias_hit", "novel"}, pc[p] \in Resolution,
             Resolved(p, c, q, band)
      PROVE  Finish(p) \/ Kept(work'[p])
  <2>1. work[p].importing \/ work[p].route \in {"guess", "bootstrap"}
    BY <1>2, WorkTyped DEF WorkAt, RouteAt
  <2>2. \/ Finish(p)
        \/ work' = [work EXCEPT ![p].into = c, ![p].under = q]
        \/ work' = [work EXCEPT ![p].cluster = c, ![p].query = q, ![p].status = "cluster_reuse"]
        \/ work' = [work EXCEPT ![p].cluster = c, ![p].query = q]
    BY <1>2, <2>1 DEF Resolved
  <2> QED BY <1>0, <2>2 DEF Work
<1>3. UNCHANGED work => Kept(work'[p])
  OBVIOUS
<1>4. CASE StartAdjudicate(p)
  BY <1>3, <1>4 DEF StartAdjudicate, Adjudicate
<1>5. CASE ResolveStep(p)
  <2>1. CASE \E c, q : \E band \in {"alias_hit", "novel"} : pc[p] \in Resolution /\ Resolved(p, c, q, band)
    BY <1>2, <2>1
  <2>2. CASE GetOrCreateQueryId(p)
    BY <1>0, <2>2 DEF GetOrCreateQueryId, Work
  <2>3. CASE ReadAlias(p)
    BY <1>0, <2>3 DEF ReadAlias, Work
  <2>4. CASE FindMinimum(p)
    BY <1>0, <2>4 DEF FindMinimum, Work
  <2>5. CASE ReadCanonical(p) \/ AdoptMinimum(p) \/ AdoptFallback(p) \/ AdmitCluster(p) \/ InsertAlias(p)
    <3>1. UNCHANGED work \/ \E c, q : \E band \in {"alias_hit", "novel"} :
             pc[p] \in Resolution /\ Resolved(p, c, q, band)
      BY <2>5 DEF ReadCanonical, AdoptMinimum, AdoptFallback, AdmitCluster, InsertAlias, Resolution
    <3> QED BY <1>3, <2>1, <3>1
  <2> QED BY <1>5, <2>2, <2>3, <2>4, <2>5 DEF ResolveStep
<1>6. CASE CaptureStep(p)
  <2>1. CASE CacheHit(p)
    BY <1>0, <2>1 DEF CacheHit, Work
  <2>2. CASE Capture(p)
    BY <1>0, <2>2 DEF Capture, Work
  <2>3. CASE Finish(p) \/ (\E status : Conclude(p, status)) \/ UNCHANGED work
    BY <1>1, <1>3, <2>3
  <2> QED BY <1>6, <2>1, <2>2, <2>3 DEF CaptureStep, HasProposals, DeleteProposals,
             CacheMissOffline, ProviderError, StoreCapture, NoArtifact
<1>7. CASE ImportStep(p)
  <2>1. CASE ImportAccepted(p)
    BY <1>0, <2>1 DEF ImportAccepted, Work
  <2>2. CASE UpsertMetadata(p)
    BY <1>0, <2>2 DEF UpsertMetadata, Work
  <2>3. CASE work' = [work EXCEPT ![p].index = @ + 1]
    BY <1>0, <2>3 DEF Work
  <2>4. CASE RequestRepair(p)
    BY <1>0, <2>4 DEF RequestRepair, Work
  <2>5. CASE Finish(p) \/ \E status : Conclude(p, status)
    BY <1>1, <2>5
  <2> QED BY <1>7, <2>1, <2>2, <2>3, <2>4, <2>5 DEF ImportStep, ImportFails, UpsertProposal,
             ProposalKeyConflict, Respond, NoArtifact, Imported
<1>8. CASE Crash(p)
  BY <1>8 DEF Crash
<1> QED BY <1>4, <1>5, <1>6, <1>7, <1>8 DEF StepOf, Serve, Starts

\* The prompt that is asked can be asked again: a repair is requested of the rejected
\* artifact that the cache holds for the first prompt.
LEMMA StepAsked ==
    ASSUME TypeInv, TraceInv, NEW p \in Proc, StepOf(p)
    PROVE  AskedAgain(PromptOf(p))'
<1>0. work[p] \in Work /\ work \in [Proc -> Work] /\ HeldAt(pc[p], work[p]) /\ Alone(p)
  BY WorkTyped DEF WorkAt, TraceInv
<1>1. CASE Starts(p) \/ Finish(p)
  <2>1. work'[p].repairs = None
    <3>1. CASE StartGuess(p) \/ StartBootstrap(p)
      BY <1>0, <3>1 DEF StartBootstrap, StartGuess, Begin, NoWork
    <3>2. CASE StartRebootstrap(p)
      BY <1>0, <3>2 DEF StartRebootstrap, Begin, NoWork
    <3>3. CASE Finish(p)
      BY <1>0, <3>3 DEF Finish, NoWork
    <3> QED BY <1>1, <3>1, <3>2, <3>3 DEF Starts
  <2> QED BY <2>1 DEF AskedAgain, PromptOf
<1>2. CASE work'[p].text = work[p].text /\ work'[p].repairs = work[p].repairs
  <2>1. PICK q : q = PromptOf(p)
    OBVIOUS
  <2>2. AskedAgain(q) /\ PromptOf(p)' = q
    BY <1>2, <2>1 DEF TraceInv, PromptOf
  <2>3. CASE q \in Prompt
    BY <2>2, <2>3, AskedStays DEF AskedAgain
  <2>4. CASE q \notin Prompt
    <3>1. pc[p] = "idle"
      BY <1>0, <2>1, <2>4 DEF HeldAt, PromptOf, Prompt, Work
    <3>2. UNCHANGED llmCache
      BY <3>1, Writers DEF StoreCapture
    <3> QED BY <2>2, <3>2 DEF AskedAgain
  <2> QED BY <2>3, <2>4
<1>3. CASE RequestRepair(p)
  <2> DEFINE w == [work[p] EXCEPT !.repairs = work[p].artifact, !.artifact = None]
  <2>1. /\ pc[p] = "import" /\ work'[p] = w /\ UNCHANGED llmCache
        /\ work[p].repairs = None /\ Verdict[work[p].artifact] = "rejected"
    BY <1>0, <1>3 DEF RequestRepair, MayRepair, contentVars
  <2>2. w.text = work[p].text /\ w.repairs = work[p].artifact
    BY <1>0 DEF Work
  <2> HIDE DEF w
  <2>3. llmCache[[text |-> work[p].text, repairs |-> None]] = work[p].artifact
    BY <1>0, <2>1 DEF Alone, PromptOf
  <2> QED BY <2>1, <2>2, <2>3 DEF AskedAgain, PromptOf
<1> QED BY <1>1, <1>2, <1>3, RequestKept

LEMMA ClustersStay ==
    ASSUME NEW p \in Proc, StepOf(p)
    PROVE  clusters \subseteq clusters'
BY Writers DEF AdmitCluster

\* A canonical query id, once set, is not changed.
LEMMA CanonicalStays ==
    ASSUME TypeInv, TraceInv, NEW p \in Proc, StepOf(p), NEW c \in clusters, canonical[c] # None
    PROVE  canonical'[c] = canonical[c]
<1>1. c \in Cluster /\ canonical \in [Cluster -> Text \cup {None}]
  BY DEF TypeInv, TypeOK
<1>2. CASE AdmitCluster(p)
  BY <1>1, <1>2 DEF AdmitCluster
<1>3. CASE AdoptFallback(p)
  BY <1>1, <1>3 DEF AdoptFallback
<1>4. ~AdoptMinimum(p)
  BY DEF AdoptMinimum, TraceInv, Alone
<1> QED BY <1>2, <1>3, <1>4, Writers

LEMMA StepOwnCanonical ==
    ASSUME TypeInv, TraceInv, NEW p \in Proc, StepOf(p)
    PROVE  OwnCanonical'
<1> SUFFICES ASSUME NEW t \in Text, t \in clusters' PROVE canonical'[t] = t
  BY DEF OwnCanonical
<1>1. canonical \in [Cluster -> Text \cup {None}] /\ t \in Cluster /\ t # None
  BY FunnelAssumption DEF TypeInv, TypeOK, Cluster
<1>2. CASE t \in clusters
  BY <1>1, <1>2, CanonicalStays DEF TraceInv, OwnCanonical
<1>3. CASE t \notin clusters
  <2>1. AdmitCluster(p) /\ t = work[p].text
    BY <1>3, Writers DEF AdmitCluster
  <2> QED BY <1>1, <1>3, <2>1 DEF AdmitCluster
<1> QED BY <1>2, <1>3

LEMMA StepAliasesLead ==
    ASSUME TypeInv, TraceInv, NEW p \in Proc, StepOf(p)
    PROVE  AliasesLead'
<1> SUFFICES ASSUME NEW t \in Text, alias'[t] # None PROVE alias'[t] \in clusters'
  BY DEF AliasesLead
<1>1. clusters \subseteq clusters'
  BY ClustersStay
<1>2. alias'[t] = alias[t] \/ alias'[t] \in clusters
  <2>1. CASE StartAdjudicate(p)
    BY <2>1 DEF StartAdjudicate, Adjudicate, TypeInv, TypeOK
  <2>2. CASE InsertAlias(p)
    BY <2>2 DEF InsertAlias, TypeInv, TypeOK, TraceInv, Alone
  <2> QED BY <2>1, <2>2, Writers
<1> QED BY <1>1, <1>2 DEF TraceInv, AliasesLead

LEMMA StepRowsTraced ==
    ASSUME TypeInv, TraceInv, NEW p \in Proc, StepOf(p)
    PROVE  RowsTraced'
<1> SUFFICES ASSUME NEW r \in proposals' PROVE r.cluster \in clusters' /\ Traced(r)'
  BY DEF RowsTraced
<1>1. ASSUME NEW c \in clusters, NEW q \in Text, q = canonical[c], NEW a \in Artifact, Cached(a)
      PROVE  c \in clusters' /\ canonical'[c] = q /\ Cached(a)'
  <2>1. canonical[c] # None
    BY <1>1, FunnelAssumption
  <2> QED BY <1>1, <2>1, ClustersStay, CanonicalStays, CachedStays
<1>2. CASE r \in proposals
  <2>1. r.query \in Text /\ r.artifact \in Artifact
    BY <1>2 DEF TypeInv, TypeOK, Row
  <2>2. r.cluster \in clusters /\ r.query = canonical[r.cluster] /\ Cached(r.artifact)
    BY <1>2 DEF TraceInv, RowsTraced, Traced
  <2> QED BY <1>1, <2>1, <2>2 DEF Traced
<1>3. CASE r \notin proposals
  <2>1. UpsertProposal(p) /\ r = NewRow(p)
    BY <1>3, Writers DEF DeleteProposals, UpsertProposal
  <2>2. pc[p] = "proposal" /\ r \in Row
    BY <2>1, NewRowType DEF UpsertProposal
  <2>3. work[p].importing
    BY <2>2, WorkTyped DEF WorkAt, HeldAt
  <2>4. r.query \in Text /\ r.artifact \in Artifact
    BY <2>2 DEF Row
  <2>5. r.cluster \in clusters /\ r.query = canonical[r.cluster] /\ Cached(r.artifact)
    BY <2>1, <2>2, <2>3, NewRowType DEF TraceInv, Alone
  <2> QED BY <1>1, <2>4, <2>5 DEF Traced
<1> QED BY <1>2, <1>3

\* A step to where nothing that was read is used.
LEMMA AloneElsewhere ==
    ASSUME NEW p \in Proc,
           pc'[p] \notin {"admit", "insertAlias", "canonical", "minimum", "fallback", "adopt",
                          "metadata", "proposal", "store", "import"},
           work'[p].importing => Cached(work[p].artifact)'
    PROVE  Alone(p)'
BY DEF Alone

\* The artifact of an import stays where it can be traced.
LEMMA ImportedCached ==
    ASSUME TypeInv, TraceInv, NEW p \in Proc, StepOf(p),
           work'[p].importing => work[p].importing /\ work'[p].artifact = work[p].artifact
    PROVE  work'[p].importing => Cached(work[p].artifact)'
<1> SUFFICES ASSUME work[p].importing, work'[p].artifact = work[p].artifact
             PROVE  Cached(work[p].artifact)'
  OBVIOUS
<1>1. work[p].artifact \in Artifact
  BY WorkTyped DEF WorkAt, HeldAt
<1>2. PICK a \in Artifact : a = work[p].artifact
  BY <1>1
<1>3. Cached(a)
  BY <1>2 DEF TraceInv, Alone
<1>4. Cached(a)'
  BY <1>3, CachedStays
<1> QED BY <1>2, <1>4 DEF Cached

LEMMA StartAlone ==
    ASSUME TypeInv, TraceInv, NEW p \in Proc, Starts(p) \/ StartAdjudicate(p) \/ Crash(p)
    PROVE  Alone(p)'
<1>1. StepOf(p)
  BY DEF StepOf, Starts
<1>2. work'[p].importing => work[p].importing /\ work'[p].artifact = work[p].artifact
  BY StartLeads
<1>3. work'[p].importing => Cached(work[p].artifact)'
  BY <1>1, <1>2, ImportedCached
<1>4. pc'[p] \in {"register", "delete", "idle"}
  BY StartLeads
<1> QED BY <1>3, <1>4, AloneElsewhere

\* Where a resolution ends: an import goes on with a cluster and its canonical query id.
LEMMA ResolvedAlone ==
    ASSUME TypeInv, TraceInv, NEW p \in Proc, StepOf(p), pc[p] \in Resolution,
           NEW c \in Cluster, NEW q \in Text, NEW band \in {"alias_hit", "novel"},
           Resolved(p, c, q, band), c \in clusters', canonical'[c] = q
    PROVE  Alone(p)'
<1>1. CASE /\ work[p].importing /\ pc'[p] = "metadata"
           /\ work'[p].into = c /\ work'[p].under = q /\ work'[p].importing
           /\ work'[p].artifact = work[p].artifact
  <2>1. Cached(work[p].artifact)'
    BY <1>1, ImportedCached
  <2> QED BY <1>1, <2>1 DEF Alone
<1>2. CASE ~work'[p].importing /\ pc'[p] \in {"idle", "load", "has"}
  BY <1>2, AloneElsewhere
<1> QED BY <1>1, <1>2, ResolvedEffect

LEMMA ResolveAlone ==
    ASSUME TypeInv, TraceInv, NEW p \in Proc, ResolveStep(p)
    PROVE  Alone(p)'
<1>0. /\ StepOf(p) /\ work[p] \in Work /\ HeldAt(pc[p], work[p]) /\ Alone(p)
      /\ pc \in [Proc -> Steps] /\ work \in [Proc -> Work]
  BY WorkTyped DEF StepOf, Serve, WorkAt, TraceInv
<1>1. CASE GetOrCreateQueryId(p)
  <2>1. pc'[p] \in {"has", "alias"} /\ work'[p].importing = work[p].importing
        /\ work'[p].artifact = work[p].artifact
    BY <1>0, <1>1 DEF GetOrCreateQueryId, Goto, Work
  <2> QED BY <1>0, <2>1, ImportedCached, AloneElsewhere
<1>2. CASE ReadAlias(p)
  <2> DEFINE t == work[p].text
  <2>1. t \in Text /\ UNCHANGED <<clusters, alias>>
    BY <1>0, <1>2 DEF ReadAlias, HeldAt, identityVars
  <2>2. CASE alias[t] = None
    <3>1. pc'[p] = "admit" /\ UNCHANGED work
      BY <1>0, <1>2, <2>2 DEF ReadAlias, Goto
    <3>2. work'[p].importing => Cached(work[p].artifact)'
      BY <1>0, <3>1, ImportedCached
    <3> QED BY <2>1, <2>2, <3>1, <3>2 DEF Alone
  <2>3. CASE alias[t] # None
    <3> DEFINE w == IF work[p].importing THEN [work[p] EXCEPT !.into = alias[t]]
                                         ELSE [work[p] EXCEPT !.cluster = alias[t]]
    <3>1. pc'[p] = "canonical" /\ work'[p] = w
      BY <1>0, <1>2, <2>3 DEF ReadAlias, Goto
    <3>2. /\ (IF w.importing THEN w.into ELSE w.cluster) = alias[t]
          /\ w.importing = work[p].importing /\ w.artifact = work[p].artifact
      BY <1>0 DEF Work
    <3> HIDE DEF w
    <3>3. work'[p].importing => Cached(work[p].artifact)'
      BY <1>0, <3>1, <3>2, ImportedCached
    <3>4. Resolving(p)' = alias[t]
      BY <3>1, <3>2 DEF Resolving
    <3>5. alias[t] \in clusters'
      BY <2>1, <2>3 DEF TraceInv, AliasesLead
    <3> QED BY <3>1, <3>3, <3>4, <3>5 DEF Alone
  <2> QED BY <2>2, <2>3
<1>3. CASE ReadCanonical(p)
  <2> DEFINE c == Resolving(p)
  <2>1. /\ pc[p] = "canonical" /\ c \in clusters /\ c \in Cluster
        /\ UNCHANGED <<clusters, canonical>>
    BY <1>0, <1>3 DEF ReadCanonical, Alone, identityVars, TypeInv, TypeOK
  <2>2. CASE canonical[c] # None
    <3>1. canonical[c] \in Text /\ Resolved(p, c, canonical[c], "alias_hit")
      BY <1>3, <2>1, <2>2 DEF ReadCanonical, TypeInv, TypeOK
    <3> QED BY <1>0, <2>1, <3>1, ResolvedAlone DEF Resolution
  <2>3. CASE canonical[c] = None
    <3>1. pc'[p] = "minimum" /\ UNCHANGED work
      BY <1>0, <1>3, <2>3 DEF ReadCanonical, Goto
    <3>2. work'[p].importing => Cached(work[p].artifact)'
      BY <1>0, <3>1, ImportedCached
    <3>3. Resolving(p)' = c
      BY <3>1 DEF Resolving
    <3> QED BY <2>1, <2>3, <3>1, <3>2, <3>3 DEF Alone
  <2> QED BY <2>2, <2>3
<1>4. CASE FindMinimum(p)
  <2> DEFINE c == Resolving(p)
  <2>1. /\ pc[p] = "minimum" /\ c \in clusters /\ canonical[c] = None
        /\ UNCHANGED <<clusters, canonical>>
    BY <1>0, <1>4 DEF FindMinimum, Alone, identityVars
  <2>2. RowsOfCluster(c) = {}
    <3>1. \A r \in proposals : r.query \in Text /\ r.query = canonical[r.cluster]
      BY DEF TypeInv, TypeOK, Row, TraceInv, RowsTraced, Traced
    <3> QED BY <2>1, <3>1, FunnelAssumption DEF RowsOfCluster
  <2>3. pc'[p] = "fallback" /\ UNCHANGED work
    BY <1>0, <1>4, <2>2 DEF FindMinimum, Goto
  <2>4. work'[p].importing => Cached(work[p].artifact)'
    BY <1>0, <2>3, ImportedCached
  <2>5. Resolving(p)' = c
    BY <2>3 DEF Resolving
  <2> QED BY <2>1, <2>3, <2>4, <2>5 DEF Alone
<1>5. ~AdoptMinimum(p)
  BY <1>0 DEF AdoptMinimum, Alone
<1>6. CASE AdoptFallback(p)
  <2> DEFINE c == Resolving(p)
  <2>1. /\ pc[p] = "fallback" /\ c \in clusters /\ c \in Cluster /\ canonical[c] = None
        /\ work[p].text \in Text /\ UNCHANGED clusters
    BY <1>0, <1>6 DEF AdoptFallback, Alone, HeldAt, TypeInv, TypeOK
  <2>2. canonical'[c] = work[p].text /\ Resolved(p, c, work[p].text, "alias_hit")
    BY <1>6, <2>1 DEF AdoptFallback, TypeInv, TypeOK
  <2> QED BY <1>0, <2>1, <2>2, ResolvedAlone DEF Resolution
<1>7. CASE AdmitCluster(p)
  <2>1. /\ pc[p] = "admit" /\ pc'[p] = "insertAlias" /\ UNCHANGED <<alias, work>>
        /\ work[p].text \in clusters' /\ alias[work[p].text] = None
    BY <1>0, <1>7 DEF AdmitCluster, Goto, Alone
  <2>2. work'[p].importing => Cached(work[p].artifact)'
    BY <1>0, <2>1, ImportedCached
  <2> QED BY <2>1, <2>2 DEF Alone
<1>8. CASE InsertAlias(p)
  <2> DEFINE t == work[p].text
  <2>1. /\ pc[p] = "insertAlias" /\ t \in Text /\ t \in clusters /\ t \in Cluster
        /\ UNCHANGED <<clusters, canonical>> /\ Resolved(p, t, t, "novel")
    BY <1>0, <1>8 DEF InsertAlias, HeldAt, Alone, Cluster
  <2>2. canonical[t] = t
    BY <2>1 DEF TraceInv, OwnCanonical
  <2> HIDE DEF t
  <2> QED BY <1>0, <2>1, <2>2, ResolvedAlone DEF Resolution
<1> QED BY <1>1, <1>2, <1>3, <1>4, <1>5, <1>6, <1>7, <1>8 DEF ResolveStep

LEMMA CaptureAlone ==
    ASSUME TypeInv, TraceInv, NEW p \in Proc, CaptureStep(p)
    PROVE  Alone(p)'
<1>0. /\ StepOf(p) /\ work[p] \in Work /\ HeldAt(pc[p], work[p]) /\ Alone(p)
      /\ pc \in [Proc -> Steps] /\ work \in [Proc -> Work]
  BY WorkTyped DEF StepOf, Serve, WorkAt, TraceInv
<1>1. ~work[p].importing
  BY <1>0 DEF CaptureStep, HasProposals, DeleteProposals, CacheHit, CacheMissOffline,
       ProviderError, Capture, StoreCapture, HeldAt
<1>2. CASE HasProposals(p) \/ DeleteProposals(p) \/ CacheMissOffline(p) \/ ProviderError(p)
  <2>1. \/ Finish(p) \/ \E status \in Status : Conclude(p, status)
        \/ Goto(p, "lookup") /\ UNCHANGED work
    BY <1>2 DEF HasProposals, DeleteProposals, CacheMissOffline, ProviderError, NoArtifact, Status
  <2>2. pc'[p] \in {"idle", "load", "lookup"} /\ ~work'[p].importing
    BY <1>0, <1>1, <2>1, EndsEffect DEF Goto
  <2> QED BY <2>2, AloneElsewhere
<1>3. CASE CacheHit(p)
  <2> DEFINE w == [work[p] EXCEPT !.artifact = llmCache[PromptOf(p)], !.cached = TRUE]
  <2>1. PromptOf(p) \in Prompt /\ UNCHANGED llmCache /\ pc'[p] = "import" /\ work'[p] = w
    BY <1>0, <1>3, PromptType DEF CacheHit, HeldAt, contentVars, Goto
  <2>2. /\ w.artifact = llmCache[PromptOf(p)] /\ ~w.importing
        /\ w.text = work[p].text /\ w.repairs = work[p].repairs
    BY <1>0, <1>1 DEF Work
  <2> HIDE DEF w
  <2>3. work'[p].artifact = llmCache[PromptOf(p)] /\ ~work'[p].importing
    BY <2>1, <2>2
  <2>4. PromptOf(p)' = PromptOf(p)
    BY <2>1, <2>2 DEF PromptOf
  <2> QED BY <2>1, <2>3, <2>4 DEF Alone
<1>4. CASE Capture(p)
  <2>1. PICK a \in Artifact : work' = [work EXCEPT ![p].artifact = a, ![p].cached = FALSE]
    BY <1>4 DEF Capture
  <2> DEFINE w == [work[p] EXCEPT !.artifact = a, !.cached = FALSE]
  <2>2. /\ llmCache[PromptOf(p)] = None /\ UNCHANGED llmCache /\ pc'[p] = "store"
        /\ work'[p] = w
    BY <1>0, <1>4, <2>1 DEF Capture, contentVars, Goto
  <2>3. w.text = work[p].text /\ w.repairs = work[p].repairs /\ ~w.importing
    BY <1>0, <1>1 DEF Work
  <2> HIDE DEF w
  <2>4. PromptOf(p)' = PromptOf(p) /\ ~work'[p].importing
    BY <2>2, <2>3 DEF PromptOf
  <2> QED BY <2>2, <2>4 DEF Alone
<1>5. CASE StoreCapture(p)
  <2>1. /\ pc[p] = "store" /\ pc'[p] = "import" /\ UNCHANGED work
        /\ PromptOf(p) \in Prompt /\ llmCache[PromptOf(p)] = None
    BY <1>0, <1>5, PromptType DEF StoreCapture, HeldAt, Goto, Alone
  <2>2. llmCache'[PromptOf(p)] = work[p].artifact
    BY <1>5, <2>1 DEF StoreCapture, TypeInv, TypeOK
  <2>3. PromptOf(p)' = PromptOf(p)
    BY <2>1 DEF PromptOf
  <2> QED BY <1>1, <2>1, <2>2, <2>3 DEF Alone
<1> QED BY <1>2, <1>3, <1>4, <1>5 DEF CaptureStep

LEMMA ImportAlone ==
    ASSUME TypeInv, TraceInv, NEW p \in Proc, ImportStep(p)
    PROVE  Alone(p)'
<1>0. /\ StepOf(p) /\ work[p] \in Work /\ HeldAt(pc[p], work[p]) /\ Alone(p)
      /\ pc \in [Proc -> Steps] /\ work \in [Proc -> Work]
  BY WorkTyped DEF StepOf, Serve, WorkAt, TraceInv
<1>1. CASE ImportAccepted(p)
  <2> DEFINE w == [work[p] EXCEPT !.importing = TRUE]
  <2>1. /\ pc[p] = "import" /\ pc'[p] = "register" /\ work'[p] = w /\ UNCHANGED llmCache
        /\ llmCache[PromptOf(p)] = work[p].artifact /\ AskedAgain(PromptOf(p))
        /\ PromptOf(p) \in Prompt
    BY <1>0, <1>1, PromptType DEF ImportAccepted, Goto, Alone, contentVars, TraceInv, HeldAt
  <2>2. w.artifact = work[p].artifact
    BY <1>0 DEF Work
  <2> HIDE DEF w
  <2>3. Cached(work[p].artifact)'
    BY <2>1, <2>2 DEF Cached, AskedAgain
  <2> QED BY <2>1, <2>3, AloneElsewhere
<1>2. CASE RequestRepair(p)
  <2> DEFINE w == [work[p] EXCEPT !.repairs = work[p].artifact, !.artifact = None]
  <2>1. pc[p] = "import" /\ pc'[p] = "lookup" /\ work'[p] = w /\ ~work[p].importing
    BY <1>0, <1>2 DEF RequestRepair, Goto, HeldAt
  <2>2. ~w.importing
    BY <1>0, <2>1 DEF Work
  <2> HIDE DEF w
  <2> QED BY <2>1, <2>2, AloneElsewhere
<1>3. CASE ImportFails(p) \/ ProposalKeyConflict(p) \/ Respond(p)
  <2>1. Finish(p) \/ \E status \in Status : Conclude(p, status)
    BY <1>3 DEF ImportFails, NoArtifact, ProposalKeyConflict, Respond, Status
  <2>2. work'[p].importing => Cached(work[p].artifact)'
    BY <1>0, <2>1, EndsEffect, ImportedCached
  <2> QED BY <2>1, <2>2, EndsEffect, AloneElsewhere
<1>4. CASE \/ UpsertMetadata(p)
           \/ UpsertProposal(p) /\ ~LastProposal(p)
  <2>1. /\ pc[p] \in {"metadata", "proposal"} /\ pc'[p] = "proposal"
        /\ UNCHANGED <<clusters, canonical>>
        /\ \E i : work' = [work EXCEPT ![p].index = i]
    BY <1>0, <1>4 DEF UpsertMetadata, UpsertProposal, Goto, identityVars
  <2>2. /\ work'[p].into = work[p].into /\ work'[p].under = work[p].under
        /\ work'[p].importing = work[p].importing /\ work'[p].artifact = work[p].artifact
    BY <1>0, <2>1 DEF Work
  <2>3. work'[p].importing => Cached(work[p].artifact)'
    BY <1>0, <2>2, ImportedCached
  <2>4. work[p].into \in clusters /\ work[p].under = canonical[work[p].into]
    BY <1>0, <2>1 DEF Alone
  <2> QED BY <2>1, <2>2, <2>3, <2>4 DEF Alone
<1>5. CASE UpsertProposal(p) /\ LastProposal(p)
  <2>1. Finish(p) \/ \E status \in Status : Conclude(p, status)
    BY <1>5 DEF UpsertProposal, Imported, Status
  <2>2. work'[p].importing => Cached(work[p].artifact)'
    BY <1>0, <2>1, EndsEffect, ImportedCached
  <2> QED BY <2>1, <2>2, EndsEffect, AloneElsewhere
<1> QED BY <1>1, <1>2, <1>3, <1>4, <1>5 DEF ImportStep

LEMMA StepTraceInv ==
    ASSUME TypeInv, TraceInv, NEW p, Proc = {p}, StepOf(p)
    PROVE  TraceInv'
<1>1. p \in Proc
  OBVIOUS
<1>2. Alone(p)'
  BY <1>1, StartAlone, ResolveAlone, CaptureAlone, ImportAlone DEF StepOf, Serve, Starts
<1>3. AskedAgain(PromptOf(p))'
  BY <1>1, StepAsked
<1> QED BY <1>1, <1>2, <1>3, StepOwnCanonical, StepAliasesLead, StepRowsTraced DEF TraceInv

\* What the only process has read is still so at its next statement.
THEOREM TraceInvariant ==
    ASSUME NEW server, Proc = {server}
    PROVE  Spec => []TraceInv
<1>1. Init => TraceInv
  <2> SUFFICES ASSUME Init PROVE TraceInv
    OBVIOUS
  <2>1. OwnCanonical /\ RowsTraced
    BY FunnelAssumption DEF Init, OwnCanonical, RowsTraced
  <2>2. AliasesLead
    BY FunnelAssumption DEF Init, AliasesLead
  <2>3. \A p \in Proc : Alone(p) /\ AskedAgain(PromptOf(p))
    BY DEF Init, Alone, NoWork, AskedAgain, PromptOf
  <2> QED BY <2>1, <2>2, <2>3 DEF TraceInv
<1>2. TypeInv /\ TraceInv /\ [Next]_vars => TraceInv'
  <2>1. TraceInv /\ UNCHANGED vars => TraceInv'
    BY DEF vars, identityVars, contentVars, envVars, TraceInv, OwnCanonical, AliasesLead,
           RowsTraced, Traced, Cached, AskedAgain, Alone, Resolving, PromptOf
  <2>2. Next => StepOf(server)
    BY NextStep
  <2> QED BY <2>1, <2>2, StepTraceInv
<1> QED BY <1>1, <1>2, FunnelInvariant, PTL DEF Spec

\* One process at a time, every stored proposal can be traced: the cache holds the artifact
\* it comes from where an online request reaches it without the provider, directly or over
\* the rejected artifact it repairs, and its query id is the canonical one of its cluster,
\* however often texts are adjudicated to other clusters, in a migrated file or a new one.
THEOREM RowsCanBeTraced ==
    ASSUME NEW server, Proc = {server}
    PROVE  Spec => []RowsTraceable
<1>1. TraceInv => RowsTraceable
  BY DEF TraceInv, RowsTraced, Traced, Cached, RowsTraceable
<1> QED BY <1>1, TraceInvariant, PTL

\* One process at a time, a text that has an alias is moved to another cluster by an
\* adjudication only: the resolution writes the alias of texts that have none.
THEOREM OnlyAdjudicationsMove ==
    ASSUME NEW server, Proc = {server}
    PROVE  Spec => AdjudicationSticks
<1>1. ASSUME TypeInv, TraceInv, [Next]_vars, NEW t \in Text, alias[t] # None, alias'[t] # alias[t]
      PROVE  \E s \in Text, c \in Cluster : Adjudicate(s, c)
  <2>1. StepOf(server)
    <3>1. ~UNCHANGED vars
      BY <1>1 DEF vars, identityVars
    <3> QED BY <1>1, <3>1, NextStep
  <2>2. ~InsertAlias(server)
    BY <1>1 DEF InsertAlias, TraceInv, Alone, TypeInv, TypeOK
  <2>3. StartAdjudicate(server)
    BY <1>1, <2>1, <2>2, Writers
  <2> QED BY <1>1, <2>3 DEF StartAdjudicate, TypeInv, TypeOK
<1>2. TypeInv /\ TraceInv /\ [Next]_vars =>
        [(\E t \in Text : alias[t] # None /\ alias'[t] # alias[t]) =>
             \E t \in Text, c \in Cluster : Adjudicate(t, c)]_vars
  BY <1>1
<1> QED BY <1>2, FunnelInvariant, TraceInvariant, PTL DEF Spec, AdjudicationSticks

-----------------------------------------------------------------------------
(* A file that was not migrated: every cluster was minted from a text.     *)

\* One process at a time, in a file that was not migrated, the primary key that the upsert
\* does not name is never violated: a query id stands for one cluster only.
THEOREM ImportsNeverThrow ==
    ASSUME NEW server, Proc = {server}, Migrated = {}
    PROVE  Spec => []ImportNeverThrows
<1>1. ASSUME TypeInv, TraceInv, NEW p \in Proc, pc[p] = "proposal"
      PROVE  ~Conflicts(NewRow(p))
  <2>1. NewRow(p).query = NewRow(p).cluster
    <3>1. work[p].into \in clusters /\ work[p].under = canonical[work[p].into]
      BY <1>1 DEF TraceInv, Alone
    <3>2. work[p].into \in Text
      BY <1>1, <3>1 DEF TypeInv, TypeOK, Cluster
    <3> QED BY <1>1, <3>1, <3>2, NewRowType DEF TraceInv, OwnCanonical
  <2>2. \A s \in proposals : s.query = s.cluster
    BY <1>1 DEF TraceInv, RowsTraced, Traced, OwnCanonical, TypeInv, TypeOK, Cluster
  <2> QED BY <2>1, <2>2 DEF Conflicts, SameKey, SameSlot
<1>2. TypeInv /\ TraceInv => ImportNeverThrows
  BY <1>1 DEF ImportNeverThrows
<1> QED BY <1>2, FunnelInvariant, TraceInvariant, PTL

\* Cluster, query id and text are one.
LEMMA OwnRows ==
    ASSUME TypeInv, TraceInv, Migrated = {}
    PROVE  /\ \A c \in clusters : c \in Text /\ canonical[c] = c
           /\ \A r \in proposals : r.cluster \in Text /\ r.query = r.cluster
           /\ \A c \in Cluster : RowsOfQuery(c) = RowsOfCluster(c)
<1>1. \A c \in clusters : c \in Text /\ canonical[c] = c
  BY DEF TypeInv, TypeOK, Cluster, TraceInv, OwnCanonical
<1>2. \A r \in proposals : r.cluster \in Text /\ r.query = r.cluster
  BY <1>1 DEF TraceInv, RowsTraced, Traced
<1> QED BY <1>1, <1>2 DEF RowsOfQuery, RowsOfCluster

LEMMA OwnWork ==
    ASSUME TypeInv, TraceInv, Migrated = {}, NEW p \in Proc
    PROVE  /\ pc[p] \notin {"minimum", "fallback", "adopt"}
           /\ pc[p] \in {"metadata", "proposal"} =>
                 work[p].into \in Text /\ work[p].under = work[p].into
           /\ pc[p] = "canonical" => canonical[Resolving(p)] = Resolving(p)
<1>1. Alone(p)
  BY DEF TraceInv
<1> QED BY <1>1, OwnRows, FunnelAssumption DEF Alone

LEMMA NoConflict ==
    ASSUME TypeInv, TraceInv, Migrated = {}, NEW p \in Proc
    PROVE  ~ProposalKeyConflict(p)
<1> SUFFICES ASSUME pc[p] = "proposal" PROVE ~Conflicts(NewRow(p))
  BY DEF ProposalKeyConflict
<1>1. NewRow(p).query = NewRow(p).cluster
  BY NewRowType, OwnWork
<1> QED BY <1>1, OwnRows DEF Conflicts, SameKey, SameSlot

\* What an upsert does to the sets of proposals.
LEMMA UpsertedSets ==
    ASSUME TypeInv, NEW p \in Proc, UpsertProposal(p), NEW c \in Cluster
    PROVE  /\ c # work[p].into => RowsOfCluster(c)' = RowsOfCluster(c)
           /\ c = work[p].into => \A r \in RowsOfCluster(c)' :
                 \/ r \in RowsOfCluster(c) /\ r.index # work[p].index
                 \/ r.index = work[p].index /\ r.artifact = work[p].artifact
           /\ c = work[p].into => \A r \in RowsOfCluster(c) :
                 r.index # work[p].index => r \in RowsOfCluster(c)'
           /\ c = work[p].into => <<work[p].index, work[p].artifact>> \in Content(c)'
           /\ c = work[p].into => Indexes(c)' = Indexes(c) \cup {work[p].index}
           /\ c = work[p].into /\ work[p].index \notin Indexes(c) =>
                 Content(c)' = Content(c) \cup {<<work[p].index, work[p].artifact>>}
<1> DEFINE new == NewRow(p)
<1>1. /\ new.cluster = work[p].into /\ new.index = work[p].index
      /\ new.artifact = work[p].artifact
  BY NewRowType DEF UpsertProposal
<1>2. proposals' = {r \in proposals : ~SameSlot(r, new)} \cup {new}
  BY DEF UpsertProposal
<1> HIDE DEF new
<1>3. \A r : r \in RowsOfCluster(c)' <=>
                (r \in RowsOfCluster(c) /\ ~(r.cluster = work[p].into /\ r.index = work[p].index))
                \/ (r = new /\ c = work[p].into)
  BY <1>1, <1>2 DEF RowsOfCluster, SameSlot
<1>4. \A r \in RowsOfCluster(c) : r.cluster = c
  BY DEF RowsOfCluster
<1>5. ASSUME c # work[p].into PROVE RowsOfCluster(c)' = RowsOfCluster(c)
  BY <1>3, <1>4, <1>5
<1>8. ASSUME c = work[p].into
      PROVE  /\ \A r \in RowsOfCluster(c)' :
                 \/ r \in RowsOfCluster(c) /\ r.index # work[p].index
                 \/ r.index = work[p].index /\ r.artifact = work[p].artifact
             /\ \A r \in RowsOfCluster(c) :
                 r.index # work[p].index => r \in RowsOfCluster(c)'
             /\ <<work[p].index, work[p].artifact>> \in Content(c)'
  <2>1. new \in RowsOfCluster(c)'
    BY <1>3, <1>8
  <2>2. <<new.index, new.artifact>> \in Content(c)'
    BY <2>1 DEF Content, Contents
  <2> QED BY <1>1, <1>3, <1>4, <1>8, <2>2
<1>6. ASSUME c = work[p].into PROVE Indexes(c)' = Indexes(c) \cup {work[p].index}
  <2>1. \A i : i \in Indexes(c)' <=> \E r \in RowsOfCluster(c)' : r.index = i
    BY DEF Indexes
  <2>2. \A i : i \in Indexes(c) <=> \E r \in RowsOfCluster(c) : r.index = i
    BY DEF Indexes
  <2>3. \A i : i \in Indexes(c)' <=> i \in Indexes(c) \/ i = work[p].index
    BY <1>1, <1>3, <1>4, <1>6, <2>1, <2>2
  <2> QED BY <2>3
<1>7. ASSUME c = work[p].into, work[p].index \notin Indexes(c)
      PROVE  Content(c)' = Content(c) \cup {<<work[p].index, work[p].artifact>>}
  <2>1. \A e : e \in Content(c)' <=> \E r \in RowsOfCluster(c)' : <<r.index, r.artifact>> = e
    BY DEF Content, Contents
  <2>2. \A e : e \in Content(c) <=> \E r \in RowsOfCluster(c) : <<r.index, r.artifact>> = e
    BY DEF Content, Contents
  <2>3. \A r \in RowsOfCluster(c) : r.index # work[p].index
    BY <1>7 DEF Indexes
  <2>4. \A r : r \in RowsOfCluster(c)' <=> r \in RowsOfCluster(c) \/ r = new
    BY <1>3, <1>7, <2>3
  <2>5. \A e : e \in Content(c)' <=>
                 e \in Content(c) \/ e = <<work[p].index, work[p].artifact>>
    BY <1>1, <2>1, <2>2, <2>4
  <2> QED BY <2>5
<1> QED BY <1>5, <1>6, <1>7, <1>8

\* Where a step leaves an import that stores proposals.
LEMMA UpsertLeads ==
    ASSUME TypeInv, NEW p \in Proc, UpsertProposal(p)
    PROVE  /\ work[p].index \in Nat /\ work[p].artifact \in Artifact
           /\ work[p].into \in Cluster /\ Accepted(work[p].artifact)
           /\ LastProposal(p) => pc'[p] # "proposal"
           /\ ~LastProposal(p) => /\ pc'[p] = "proposal" /\ work'[p].into = work[p].into
                                  /\ work'[p].index = work[p].index + 1
<1>1. /\ pc[p] = "proposal" /\ work[p] \in Work /\ HeldAt(pc[p], work[p])
      /\ pc \in [Proc -> Steps] /\ work \in [Proc -> Work]
  BY WorkTyped DEF UpsertProposal, WorkAt
<1>2. ASSUME LastProposal(p) PROVE pc'[p] # "proposal"
  <2>1. Finish(p) \/ \E status \in Status : Conclude(p, status)
    BY <1>2 DEF UpsertProposal, Imported, Status
  <2> QED BY <2>1, EndsEffect
<1>3. ASSUME ~LastProposal(p)
      PROVE  /\ pc'[p] = "proposal" /\ work'[p].into = work[p].into
             /\ work'[p].index = work[p].index + 1
  <2>1. pc' = pc /\ work' = [work EXCEPT ![p].index = @ + 1]
    BY <1>3 DEF UpsertProposal
  <2>2. work'[p] = [work[p] EXCEPT !.index = @ + 1]
    BY <1>1, <2>1
  <2> QED BY <1>1, <2>1, <2>2 DEF Work
<1> QED BY <1>1, <1>2, <1>3 DEF HeldAt, Work

\* A stored set has no gap after an upsert at an index it holds, or at the one it ends with.
LEMMA UpsertGapless ==
    ASSUME TypeInv, TraceInv, Migrated = {}, NEW p, Proc = {p}, UpsertProposal(p),
           NEW c \in Cluster, Gapless(c)
    PROVE  Gapless(c)'
<1>1. /\ p \in Proc /\ pc[p] = "proposal" /\ work[p].index \in Nat
      /\ work[p].artifact \in Artifact /\ Accepted(work[p].artifact)
  BY UpsertLeads DEF UpsertProposal
<1>2. PICK n \in Nat :
        /\ Indexes(c) = 0 .. (n - 1)
        /\ \/ Legal(n) /\ (work[p].into = c => work[p].index <= n)
           \/ work[p].into = c /\ work[p].index = n
  BY <1>1 DEF Gapless
<1>3. CASE c # work[p].into
  <2>1. Indexes(c)' = 0 .. (n - 1) /\ Legal(n)
    BY <1>1, <1>2, <1>3, UpsertedSets DEF Indexes
  <2>2. pc'[p] = "proposal" => work'[p].into # c
    BY <1>1, <1>3, UpsertLeads
  <2>3. \A q \in Proc : pc'[q] = "proposal" /\ work'[q].into = c => work'[q].index <= n
    BY <2>2
  <2> QED BY <1>2, <2>1, <2>3 DEF Gapless, Legal
<1>4. CASE c = work[p].into
  <2> DEFINE i == work[p].index
             m == IF i < n THEN n ELSE i + 1
  <2>1. Indexes(c)' = (0 .. (n - 1)) \cup {i}
    BY <1>1, <1>2, <1>4, UpsertedSets
  <2>2. m \in Nat /\ i + 1 <= m /\ (i < n => Legal(m)) /\ (~(i < n) => m = i + 1)
        /\ (0 .. (n - 1)) \cup {i} = 0 .. (m - 1)
    BY <1>1, <1>2, <1>4
  <2> HIDE DEF m
  <2>3. CASE LastProposal(p)
    <3>1. i + 1 \in MinProposals .. MaxProposals
      BY <1>1, <2>3, SizeType DEF LastProposal
    <3>2. Legal(m)
      BY <2>2, <3>1 DEF Legal
    <3>3. \A q \in Proc : pc'[q] # "proposal"
      BY <1>1, <2>3, UpsertLeads
    <3> QED BY <2>1, <2>2, <3>2, <3>3 DEF Gapless, Legal
  <2>4. CASE ~LastProposal(p)
    <3>1. pc'[p] = "proposal" /\ work'[p].into = c /\ work'[p].index = i + 1
      BY <1>1, <1>4, <2>4, UpsertLeads
    <3>2. CASE i < n
      <4>1. \A q \in Proc : work'[q].index <= m
        BY <2>2, <3>1
      <4>2. Legal(m)
        BY <2>2, <3>2
      <4> QED BY <2>1, <2>2, <4>1, <4>2 DEF Gapless, Legal
    <3>3. CASE ~(i < n)
      <4>1. work'[p].index = m
        BY <2>2, <3>1, <3>3
      <4> QED BY <1>1, <2>1, <2>2, <3>1, <4>1 DEF Gapless
    <3> QED BY <3>2, <3>3
  <2> QED BY <2>3, <2>4
<1> QED BY <1>3, <1>4

\* The command deletes whole sets.
LEMMA DeleteGapless ==
    ASSUME TypeInv, TraceInv, Migrated = {}, NEW p, Proc = {p}, DeleteProposals(p),
           NEW c \in Cluster, Gapless(c)
    PROVE  Gapless(c)'
<1>1. /\ p \in Proc /\ pc[p] = "delete" /\ pc'[p] = "lookup"
      /\ proposals' = proposals \ RowsOfQuery(work[p].text)
  BY WorkTyped DEF DeleteProposals, Goto
<1>2. \A q \in Proc : pc[q] # "proposal" /\ pc'[q] # "proposal"
  BY <1>1
<1>3. CASE c = work[p].text
  <2>1. \A r \in proposals' : r.cluster # c
    BY <1>1, <1>3, OwnRows DEF RowsOfQuery
  <2>2. Indexes(c)' = {}
    BY <2>1 DEF Indexes, RowsOfCluster
  <2>3. 0 .. (0 - 1) = {} /\ Legal(0) /\ 0 \in Nat
    BY DEF Legal
  <2> QED BY <1>2, <2>2, <2>3 DEF Gapless, Legal
<1>4. CASE c # work[p].text
  <2>1. \A r : r \in RowsOfCluster(c)' <=> r \in RowsOfCluster(c)
    BY <1>1, <1>4, OwnRows DEF RowsOfCluster, RowsOfQuery
  <2>2. Indexes(c)' = Indexes(c)
    BY <2>1 DEF Indexes
  <2> QED BY <1>2, <2>2 DEF Gapless, Legal
<1> QED BY <1>3, <1>4

\* Nothing else cuts an import short but a stop.
LEMMA OnlyUpserts ==
    ASSUME TypeInv, TraceInv, Migrated = {}, NEW p \in Proc, StepOf(p), ~Crash(p),
           pc[p] = "proposal"
    PROVE  UpsertProposal(p)
BY NoConflict DEF StepOf, Serve, ResolveStep, CaptureStep, ImportStep, StartBootstrap,
   StartGuess, StartRebootstrap, StartAdjudicate, Begin, GetOrCreateQueryId, ReadAlias,
   ReadCanonical, FindMinimum, AdoptMinimum, AdoptFallback, AdmitCluster, InsertAlias,
   HasProposals, DeleteProposals, CacheHit, CacheMissOffline, ProviderError, Capture,
   StoreCapture, ImportAccepted, RequestRepair, ImportFails, UpsertMetadata, Respond

LEMMA StepGapless ==
    ASSUME TypeInv, TraceInv, Migrated = {}, NEW p, Proc = {p}, StepOf(p), crashes' = 0,
           NEW c \in Cluster, Gapless(c)
    PROVE  Gapless(c)'
<1>1. p \in Proc
  OBVIOUS
<1>2. CASE UNCHANGED proposals
  <2>1. Indexes(c)' = Indexes(c)
    BY <1>2 DEF Indexes, RowsOfCluster
  <2>2. ~Crash(p) /\ ~ProposalKeyConflict(p)
    BY <1>1, NoConflict DEF Crash, TypeInv, TypeOK
  <2>3. CASE pc[p] = "proposal"
    BY <1>1, <2>2, <2>3, OnlyUpserts, UpsertGapless
  <2>4. CASE pc[p] # "proposal"
    <3>1. PICK n \in Nat : Indexes(c) = 0 .. (n - 1) /\ Legal(n)
      BY <1>1, <2>4 DEF Gapless
    <3>2. pc'[p] = "proposal" => work'[p].index = 0
      <4>1. SUFFICES ASSUME pc'[p] = "proposal" PROVE work'[p].index = 0
        OBVIOUS
      <4>2. UpsertMetadata(p)
        BY <1>1, <2>4, <4>1, StartLeads, ResolveLeads, CaptureLeads, ImportLeads
           DEF StepOf, Serve, Starts, UpsertProposal
      <4>3. work'[p] = [work[p] EXCEPT !.index = 0] /\ work[p] \in Work
        BY <1>1, <4>2, WorkTyped DEF UpsertMetadata
      <4> QED BY <4>3 DEF Work
    <3>3. \A q \in Proc : pc'[q] = "proposal" => work'[q].index <= n
      BY <3>2
    <3> QED BY <2>1, <3>1, <3>3 DEF Gapless, Legal
  <2> QED BY <2>3, <2>4
<1> QED BY <1>1, <1>2, Writers, UpsertGapless, DeleteGapless

-----------------------------------------------------------------------------
(* A set begins with the artifact that was imported last.                  *)

LEMMA SetsKept ==
    ASSUME UNCHANGED proposals, NEW c
    PROVE  RowsOfCluster(c)' = RowsOfCluster(c) /\ Content(c)' = Content(c)
BY DEF Content, Contents, RowsOfCluster

LEMMA TextKept ==
    ASSUME UNCHANGED proposals, NEW p \in Proc, work'[p].text = work[p].text
    PROVE  RowsOfCluster(work[p].text)' = RowsOfCluster(work[p].text)
BY DEF RowsOfCluster

\* An upsert replaces the proposal at its index and keeps the ones before.
LEMMA UpsertBegins ==
    ASSUME TypeInv, NEW p \in Proc, UpsertProposal(p), NEW c \in Cluster, c = work[p].into,
           NEW i \in Nat, i = work[p].index, NEW a \in Artifact, a = work[p].artifact,
           Begins(c, i, a)
    PROVE  Begins(c, i + 1, a)'
<1>1. \A r \in RowsOfCluster(c)' :
         (r \in RowsOfCluster(c) /\ r.index # i) \/ (r.index = i /\ r.artifact = a)
  <2>1. c = work[p].into => \A r \in RowsOfCluster(c)' :
          \/ r \in RowsOfCluster(c) /\ r.index # work[p].index
          \/ r.index = work[p].index /\ r.artifact = work[p].artifact
    BY UpsertedSets
  <2> QED BY <2>1
<1>2. \A r \in RowsOfCluster(c) : r.index \in Nat
  BY DEF TypeInv, TypeOK, Row, RowsOfCluster
<1>3. \A r \in RowsOfCluster(c)' : r.index < i + 1 => r.artifact = a
  BY <1>1, <1>2 DEF Begins
<1>4. ASSUME NEW j \in 0 .. i PROVE <<j, a>> \in Content(c)'
  <2>1. CASE j = i
    BY <2>1, UpsertedSets
  <2>2. CASE j # i
    <3>1. j \in 0 .. (i - 1)
      BY <2>2
    <3>2. <<j, a>> \in Content(c)
      BY <3>1 DEF Begins, FirstOf
    <3>3. PICK r \in RowsOfCluster(c) : <<r.index, r.artifact>> = <<j, a>>
      BY <3>2 DEF Content, Contents
    <3>4. r \in RowsOfCluster(c)'
      BY <2>2, <3>3, UpsertedSets
    <3> QED BY <3>3, <3>4 DEF Content, Contents
  <2> QED BY <2>1, <2>2
<1>5. FirstOf(i + 1, a) \subseteq Content(c)'
  BY <1>4 DEF FirstOf
<1> QED BY <1>3, <1>5 DEF Begins

\* An import begins with no proposal and goes on with the next one.
LEMMA StepOverwriting ==
    ASSUME TypeInv, TraceInv, Migrated = {}, NEW p \in Proc, StepOf(p), Overwriting(p)
    PROVE  Overwriting(p)'
<1> SUFFICES ASSUME pc'[p] = "proposal" PROVE Overwriting(p)'
  BY DEF Overwriting
<1>1. UpsertMetadata(p) \/ UpsertProposal(p)
  <2>1. pc[p] # "idle" \/ ~StartAdjudicate(p)
    BY DEF StartAdjudicate, Adjudicate
  <2> QED BY <2>1, StartLeads, ResolveLeads, CaptureLeads, ImportLeads DEF StepOf, Serve, Starts
<1>2. CASE UpsertMetadata(p)
  <2> DEFINE w == [work[p] EXCEPT !.index = 0]
  <2>1. /\ pc[p] = "metadata" /\ work'[p] = w /\ work[p].into \in Text
        /\ work[p].under = work[p].into /\ UNCHANGED proposals
    BY <1>2, WorkTyped, OwnWork DEF UpsertMetadata
  <2>2. w.into = work[p].into /\ w.artifact = work[p].artifact /\ w.index = 0
    BY WorkTyped DEF Work
  <2> HIDE DEF w
  <2>3. metadata'[work[p].into] = work[p].artifact
    BY <1>2, <2>1 DEF UpsertMetadata, TypeInv, TypeOK
  <2>4. PICK c, a : c = work[p].into /\ a = work[p].artifact
    OBVIOUS
  <2>5. \A r \in RowsOfCluster(c)' : ~(r.index < 0)
    BY <2>1 DEF RowsOfCluster, TypeInv, TypeOK, Row
  <2>6. Begins(c, 0, a)'
    BY <2>5 DEF Begins, FirstOf
  <2> QED BY <2>1, <2>2, <2>3, <2>4, <2>6 DEF Overwriting
<1>3. CASE UpsertProposal(p)
  <2>1. PICK c \in Cluster, i \in Nat, a \in Artifact :
          c = work[p].into /\ i = work[p].index /\ a = work[p].artifact
    BY <1>3, UpsertLeads
  <2>2. metadata[c] = a /\ Begins(c, i, a) /\ UNCHANGED metadata
    BY <1>3, <2>1 DEF Overwriting, UpsertProposal
  <2>3. Begins(c, i + 1, a)'
    BY <1>3, <2>1, <2>2, UpsertBegins
  <2>4. ~LastProposal(p)
    BY <1>3, UpsertLeads
  <2>5. work' = [work EXCEPT ![p].index = @ + 1]
    BY <1>3, <2>4 DEF UpsertProposal
  <2> DEFINE w == [work[p] EXCEPT !.index = @ + 1]
  <2>6. work'[p] = w
    BY <2>5, WorkTyped
  <2>7. w.into = c /\ w.index = i + 1 /\ w.artifact = a
    BY <2>1, WorkTyped DEF Work
  <2> HIDE DEF w
  <2> QED BY <2>2, <2>3, <2>6, <2>7 DEF Overwriting
<1> QED BY <1>1, <1>2, <1>3

\* When the last proposal is stored, the set begins with the whole artifact.
LEMMA StepLed ==
    ASSUME TypeInv, TraceInv, Migrated = {}, NEW p, Proc = {p}, StepOf(p), crashes' = 0,
           Overwriting(p), NEW c \in Cluster, Led(c)
    PROVE  Led(c)'
<1>0. p \in Proc /\ ~Crash(p)
  BY DEF Crash, TypeInv, TypeOK
<1> SUFFICES ASSUME ~Filling(c)', RowsOfCluster(c)' # {} PROVE Led(c)'
  BY DEF Led
<1>1. CASE UpsertProposal(p) /\ work[p].into = c
  <2>1. PICK i \in Nat, a \in Artifact : i = work[p].index /\ a = work[p].artifact
    BY <1>0, <1>1, UpsertLeads
  <2>2. Begins(c, i, a) /\ metadata'[c] = a
    BY <1>1, <2>1 DEF Overwriting, UpsertProposal
  <2>3. Begins(c, i + 1, a)'
    BY <1>0, <1>1, <2>1, <2>2, UpsertBegins
  <2>4. LastProposal(p)
    BY <1>0, <1>1, UpsertLeads DEF Filling
  <2>5. Size[a] = i + 1
    BY <2>1, <2>4 DEF LastProposal
  <2> QED BY <2>2, <2>3, <2>5 DEF Led
<1>2. ASSUME RowsOfCluster(c)' = RowsOfCluster(c), metadata'[c] = metadata[c], ~Filling(c)
      PROVE  Led(c)'
  <2>1. Content(c)' = Content(c)
    BY <1>2 DEF Content
  <2>2. PICK a : a = metadata[c]
    OBVIOUS
  <2>3. a \in Artifact /\ Begins(c, Size[a], a)
    BY <1>2, <2>2 DEF Led
  <2>4. Begins(c, Size[a], a)'
    BY <1>2, <2>1, <2>3 DEF Begins
  <2> QED BY <1>2, <2>2, <2>3, <2>4 DEF Led
<1>3. CASE UpsertProposal(p) /\ work[p].into # c
  <2>1. ~Filling(c) /\ RowsOfCluster(c)' = RowsOfCluster(c) /\ UNCHANGED metadata
    BY <1>0, <1>3, UpsertedSets DEF Filling, UpsertProposal
  <2> QED BY <1>2, <2>1
<1>4. CASE ~UpsertProposal(p)
  <2>1. ~Filling(c)
    BY <1>0, <1>4, OnlyUpserts DEF Filling
  <2>2. RowsOfCluster(c)' = RowsOfCluster(c)
    <3>1. CASE UNCHANGED proposals
      BY <3>1, SetsKept
    <3>2. CASE DeleteProposals(p)
      <4>1. proposals' = proposals \ RowsOfQuery(work[p].text)
        BY <3>2 DEF DeleteProposals
      <4>2. c # work[p].text
        BY <4>1, OwnRows DEF RowsOfQuery, RowsOfCluster
      <4> QED BY <4>1, <4>2, OwnRows DEF RowsOfQuery, RowsOfCluster
    <3> QED BY <1>0, <1>4, <3>1, <3>2, Writers
  <2>3. metadata'[c] = metadata[c]
    <3>1. CASE UpsertMetadata(p)
      <4>1. pc[p] = "metadata" /\ work[p].under = work[p].into
        BY <1>0, <3>1, OwnWork DEF UpsertMetadata
      <4>2. pc'[p] = "proposal" /\ work'[p] = [work[p] EXCEPT !.index = 0]
        BY <1>0, <3>1, WorkTyped DEF UpsertMetadata, Goto
      <4>3. work'[p].into = work[p].into
        BY <1>0, <4>2, WorkTyped DEF Work
      <4>4. work[p].under # c
        BY <1>0, <4>1, <4>2, <4>3 DEF Filling
      <4> QED BY <3>1, <4>4 DEF UpsertMetadata, TypeInv, TypeOK
    <3> QED BY <1>0, <3>1, Writers
  <2> QED BY <1>2, <2>1, <2>2, <2>3
<1> QED BY <1>1, <1>3, <1>4

-----------------------------------------------------------------------------
(* A bootstrap or a /query imports only what it found no proposals for.    *)

\* A request that ends.
LEMMA FinishServing ==
    ASSUME TypeInv, NEW p \in Proc, Finish(p)
    PROVE  Serving(p)'
<1>1. work'[p].route = "guess"
  BY WorkTyped DEF Finish, NoWork
<1> QED BY <1>1 DEF Serving

\* A request that is answered without an import.
LEMMA ConcludeServing ==
    ASSUME TypeInv, NEW p \in Proc, Serving(p), ~work[p].importing, NEW status \in Status,
           status \notin {"cache_hit", "captured_and_cached"}, Conclude(p, status)
    PROVE  Serving(p)'
<1>1. work'[p] = [work[p] EXCEPT !.status = status] /\ pc'[p] = "load" /\ work[p] \in Work
  BY WorkTyped DEF Conclude, Goto
<1>2. /\ ~work'[p].importing /\ work'[p].status = status
      /\ work'[p].route = work[p].route /\ work'[p].cluster = work[p].cluster
  BY <1>1 DEF Work
<1> QED BY <1>1, <1>2 DEF Serving

LEMMA StartServing ==
    ASSUME TypeInv, NEW p \in Proc, Serving(p), Starts(p) \/ StartAdjudicate(p) \/ Crash(p)
    PROVE  Serving(p)'
<1>1. CASE StartBootstrap(p)
  <2>1. PICK t \in Text, route \in {"bootstrap", "query"}, online \in BOOLEAN :
           Begin(p, "register", [NoWork EXCEPT !.route = route, !.text = t, !.online = online])
    BY <1>1 DEF StartBootstrap
  <2>2. pc'[p] = "register" /\ ~work'[p].importing /\ work'[p].cluster = None
    BY <2>1, WorkTyped DEF Begin, Goto, NoWork
  <2> QED BY <2>2 DEF Serving
<1>2. CASE StartGuess(p) \/ StartRebootstrap(p)
  <2>1. work'[p].route \notin {"bootstrap", "query"}
    BY <1>2, WorkTyped DEF StartGuess, StartRebootstrap, Begin, NoWork
  <2> QED BY <2>1 DEF Serving
<1>3. CASE StartAdjudicate(p)
  <2>1. work'[p].route \notin {"bootstrap", "query"}
    BY <1>3 DEF StartAdjudicate, Adjudicate, Serving
  <2> QED BY <2>1 DEF Serving
<1>4. CASE Crash(p)
  BY <1>4, FinishServing DEF Crash
<1> QED BY <1>1, <1>2, <1>3, <1>4 DEF Starts

LEMMA ResolveServing ==
    ASSUME TypeInv, TraceInv, Migrated = {}, NEW p \in Proc, Serving(p), ResolveStep(p)
    PROVE  Serving(p)'
<1>0. /\ work[p] \in Work /\ HeldAt(pc[p], work[p]) /\ RouteAt(pc[p], work[p]) /\ Alone(p)
      /\ pc \in [Proc -> Steps] /\ work \in [Proc -> Work] /\ UNCHANGED proposals
  BY WorkTyped DEF ResolveStep, GetOrCreateQueryId, ReadAlias, ReadCanonical, FindMinimum,
     AdoptMinimum, AdoptFallback, AdmitCluster, InsertAlias, WorkAt, TraceInv, contentVars
<1> SUFFICES ASSUME work'[p].route \in {"bootstrap", "query"} PROVE Serving(p)'
  BY DEF Serving
<1>1. CASE GetOrCreateQueryId(p)
  <2>1. pc[p] = "register" /\ pc'[p] \in {"alias", "has"} /\ UNCHANGED alias
    BY <1>0, <1>1 DEF GetOrCreateQueryId, Goto
  <2>2. CASE work[p].route = "query" /\ ~work[p].importing
    <3> DEFINE w == [work[p] EXCEPT !.query = work[p].text]
    <3>1. pc'[p] = "has" /\ work'[p] = w
      BY <1>0, <1>1, <2>2 DEF GetOrCreateQueryId, Goto
    <3>2. w.route = "query" /\ ~w.importing /\ w.query = w.text /\ w.cluster = work[p].cluster
      BY <1>0, <2>2 DEF Work
    <3> HIDE DEF w
    <3> QED BY <2>2, <3>1, <3>2 DEF Serving
  <2>3. CASE pc'[p] = "alias" /\ UNCHANGED work
    BY <1>0, <2>1, <2>3, SetsKept DEF Serving
  <2> QED BY <1>1, <1>0, <2>2, <2>3 DEF GetOrCreateQueryId, Goto
<1>2. CASE ReadAlias(p)
  <2> DEFINE c == alias[work[p].text]
             w == IF work[p].importing THEN [work[p] EXCEPT !.into = c]
                                       ELSE [work[p] EXCEPT !.cluster = c]
  <2>1. pc[p] = "alias" /\ UNCHANGED alias /\ pc'[p] \in {"admit", "canonical"}
    BY <1>0, <1>2 DEF ReadAlias, identityVars, Goto
  <2>2. w.text = work[p].text /\ w.route = work[p].route /\ w.importing = work[p].importing
        /\ w.artifact = work[p].artifact /\ w.query = work[p].query
        /\ (w.importing => w.cluster = work[p].cluster /\ w.into = c)
    BY <1>0 DEF Work
  <2>3. \/ pc'[p] = "admit" /\ UNCHANGED work
        \/ pc'[p] = "canonical" /\ work'[p] = w
    <3>1. CASE c = None
      BY <1>0, <1>2, <3>1 DEF ReadAlias, Goto
    <3>2. CASE c # None
      <4>1. work' = [work EXCEPT ![p] = w] /\ Goto(p, "canonical")
        BY <1>2, <3>2 DEF ReadAlias
      <4> HIDE DEF w
      <4> QED BY <1>0, <3>2, <4>1 DEF Goto
    <3> QED BY <3>1, <3>2
  <2> HIDE DEF w
  <2>4. CASE ~work[p].importing
    <3>1. ~work'[p].importing /\ work'[p].route = "bootstrap"
      BY <1>0, <2>1, <2>2, <2>3, <2>4 DEF RouteAt, Resolution
    <3> QED BY <2>1, <3>1 DEF Serving
  <2>5. CASE work[p].importing
    <3>1. /\ work'[p].text = work[p].text /\ work'[p].route = work[p].route
          /\ work'[p].query = work[p].query /\ work'[p].cluster = work[p].cluster
          /\ (pc'[p] = "canonical" => work'[p].into = c)
      BY <2>1, <2>2, <2>3, <2>5
    <3>2. RowsOfCluster(work[p].text)' = RowsOfCluster(work[p].text)
      BY <1>0, <3>1, TextKept
    <3> QED BY <2>1, <2>5, <3>1, <3>2 DEF Serving
  <2> QED BY <2>4, <2>5
<1>3. CASE ReadCanonical(p)
  <2> DEFINE c == Resolving(p)
  <2>1. /\ pc[p] = "canonical" /\ UNCHANGED alias /\ c \in Text /\ c # None
        /\ canonical[c] = c
    BY <1>0, <1>3, OwnWork, OwnRows, FunnelAssumption DEF ReadCanonical, identityVars, Alone
  <2>2. Resolved(p, c, c, "alias_hit")
    BY <1>3, <2>1 DEF ReadCanonical
  <2>3. CASE work[p].importing
    <3> DEFINE w == [work[p] EXCEPT !.into = c, !.under = c]
    <3>1. work'[p] = w /\ pc'[p] = "metadata" /\ c = work[p].into
      BY <1>0, <2>2, <2>3 DEF Resolved, Goto, Resolving
    <3>2. w.text = work[p].text /\ w.route = work[p].route /\ w.importing
          /\ w.cluster = work[p].cluster /\ w.query = work[p].query /\ w.into = c
      BY <1>0, <2>3 DEF Work
    <3> HIDE DEF w
    <3>3. RowsOfCluster(work[p].text)' = RowsOfCluster(work[p].text)
      BY <1>0, <3>1, <3>2, TextKept
    <3> QED BY <1>0, <2>1, <2>3, <3>1, <3>2, <3>3 DEF Serving
  <2>4. CASE ~work[p].importing /\ work[p].route = "bootstrap"
    <3> DEFINE w == [work[p] EXCEPT !.cluster = c, !.query = c, !.status = "cluster_reuse"]
    <3>1. work'[p] = w /\ pc'[p] = "load"
      BY <1>0, <2>2, <2>4 DEF Resolved, Goto
    <3>2. ~w.importing /\ w.status = "cluster_reuse" /\ w.route = "bootstrap"
      BY <1>0, <2>4 DEF Work
    <3> HIDE DEF w
    <3> QED BY <3>1, <3>2 DEF Serving
  <2>5. CASE ~work[p].importing /\ work[p].route = "guess"
    BY <2>2, <2>5, FinishServing DEF Resolved
  <2> QED BY <1>0, <2>1, <2>3, <2>4, <2>5 DEF RouteAt, Resolution
<1>4. ~FindMinimum(p) /\ ~AdoptMinimum(p) /\ ~AdoptFallback(p)
  BY OwnWork DEF FindMinimum, AdoptMinimum, AdoptFallback
<1>6. CASE AdmitCluster(p)
  <2>1. pc[p] = "admit" /\ pc'[p] = "insertAlias" /\ UNCHANGED <<work, alias>>
    BY <1>0, <1>6 DEF AdmitCluster, Goto
  <2>2. RowsOfCluster(work[p].text)' = RowsOfCluster(work[p].text)
    BY <1>0, <2>1, TextKept
  <2> QED BY <2>1, <2>2 DEF Serving
<1>7. CASE InsertAlias(p)
  <2> DEFINE t == work[p].text
  <2>1. /\ pc[p] = "insertAlias" /\ t \in Text /\ Resolved(p, t, t, "novel")
        /\ alias'[t] = t
    BY <1>0, <1>7 DEF InsertAlias, HeldAt, TypeInv, TypeOK
  <2>2. CASE work[p].importing
    <3> DEFINE w == [work[p] EXCEPT !.into = t, !.under = t]
    <3>1. pc'[p] = "metadata" /\ work'[p] = w
      BY <1>0, <2>1, <2>2 DEF Resolved, Goto
    <3>2. w.text = t /\ w.route = work[p].route /\ w.importing
          /\ w.cluster = work[p].cluster /\ w.query = work[p].query /\ w.into = t
      BY <1>0, <2>2 DEF Work
    <3> HIDE DEF w
    <3>3. RowsOfCluster(work[p].text)' = RowsOfCluster(work[p].text)
      BY <1>0, <3>1, <3>2, TextKept
    <3> QED BY <2>1, <2>2, <3>1, <3>2, <3>3 DEF Serving
  <2>3. CASE ~work[p].importing /\ work[p].route = "bootstrap"
    <3> DEFINE w == [work[p] EXCEPT !.cluster = t, !.query = t]
    <3>1. work'[p] = w /\ pc'[p] = "has"
      BY <1>0, <2>1, <2>3 DEF Resolved, Goto
    <3>2. ~w.importing /\ w.text = t /\ w.cluster = t /\ w.query = t /\ w.route = "bootstrap"
      BY <1>0, <2>3 DEF Work
    <3> HIDE DEF w
    <3> QED BY <2>1, <3>1, <3>2 DEF Serving
  <2>4. CASE ~work[p].importing /\ work[p].route = "guess"
    BY <2>1, <2>4, FinishServing DEF Resolved
  <2> QED BY <1>0, <2>1, <2>2, <2>3, <2>4 DEF RouteAt, Resolution
<1> QED BY <1>1, <1>2, <1>3, <1>4, <1>6, <1>7 DEF ResolveStep

LEMMA CaptureServing ==
    ASSUME TypeInv, TraceInv, Migrated = {}, NEW p \in Proc, Serving(p), CaptureStep(p)
    PROVE  Serving(p)'
<1>0. /\ work[p] \in Work /\ HeldAt(pc[p], work[p])
      /\ pc \in [Proc -> Steps] /\ work \in [Proc -> Work]
      /\ pc[p] \in {"has", "delete", "lookup", "store"} /\ UNCHANGED alias
  BY WorkTyped DEF CaptureStep, HasProposals, DeleteProposals, CacheHit, CacheMissOffline,
     ProviderError, Capture, StoreCapture, WorkAt, identityVars
<1>1. ~work[p].importing
  BY <1>0 DEF HeldAt
<1>2. ASSUME NEW step \in {"lookup", "store", "import"}, NEW w,
             pc'[p] = step, work'[p] = w, UNCHANGED proposals,
             w.text = work[p].text, w.route = work[p].route, w.importing = work[p].importing,
             w.cluster = work[p].cluster, w.query = work[p].query,
             work[p].route \in {"bootstrap", "query"} => RowsOfCluster(work[p].text) = {}
      PROVE  Serving(p)'
  <2>1. RowsOfCluster(work[p].text)' = RowsOfCluster(work[p].text)
    BY <1>2, SetsKept
  <2> QED BY <1>0, <1>1, <1>2, <2>1 DEF Serving
<1>3. ASSUME HasProposals(p) PROVE Serving(p)'
  <2>1. pc[p] = "has" /\ UNCHANGED proposals /\ work[p].text \in Cluster
    BY <1>0, <1>3 DEF HasProposals, contentVars, HeldAt, Cluster
  <2>2. CASE RowsOfQuery(work[p].query) # {}
    BY <1>1, <1>3, <2>2, ConcludeServing DEF HasProposals, Status
  <2>3. CASE RowsOfQuery(work[p].query) = {}
    <3>1. pc'[p] = "lookup" /\ work'[p] = work[p]
      BY <1>0, <1>3, <2>3 DEF HasProposals, Goto
    <3>2. work[p].route \in {"bootstrap", "query"} => RowsOfCluster(work[p].text) = {}
      BY <2>1, <2>3, OwnRows DEF Serving
    <3> QED BY <1>2, <2>1, <3>1, <3>2
  <2> QED BY <2>2, <2>3
<1>4. ASSUME DeleteProposals(p) PROVE Serving(p)'
  <2>1. pc[p] = "delete" /\ work'[p].route = work[p].route
    BY <1>4 DEF DeleteProposals
  <2> QED BY <2>1 DEF Serving
<1>5. ASSUME pc[p] \in {"lookup", "store"}
      PROVE  work[p].route \in {"bootstrap", "query"} => RowsOfCluster(work[p].text) = {}
  BY <1>5 DEF Serving
<1>6. ASSUME CacheHit(p) PROVE Serving(p)'
  <2> DEFINE w == [work[p] EXCEPT !.artifact = llmCache[PromptOf(p)], !.cached = TRUE]
  <2>1. pc[p] = "lookup" /\ pc'[p] = "import" /\ work'[p] = w /\ UNCHANGED proposals
    BY <1>0, <1>6 DEF CacheHit, contentVars, Goto
  <2>2. w.text = work[p].text /\ w.route = work[p].route /\ w.importing = work[p].importing
        /\ w.cluster = work[p].cluster /\ w.query = work[p].query
    BY <1>0 DEF Work
  <2> HIDE DEF w
  <2> QED BY <1>2, <1>5, <2>1, <2>2
<1>7. ASSUME CacheMissOffline(p) \/ ProviderError(p) PROVE Serving(p)'
  <2>1. \/ Finish(p)
        \/ \E status \in Status :
              status \notin {"cache_hit", "captured_and_cached"} /\ Conclude(p, status)
    BY <1>7 DEF CacheMissOffline, ProviderError, NoArtifact, Status
  <2> QED BY <1>1, <2>1, FinishServing, ConcludeServing
<1>8. ASSUME Capture(p) PROVE Serving(p)'
  <2>1. PICK a \in Artifact : work' = [work EXCEPT ![p].artifact = a, ![p].cached = FALSE]
    BY <1>8 DEF Capture
  <2> DEFINE w == [work[p] EXCEPT !.artifact = a, !.cached = FALSE]
  <2>2. pc[p] = "lookup" /\ pc'[p] = "store" /\ work'[p] = w /\ UNCHANGED proposals
    BY <1>0, <1>8, <2>1 DEF Capture, contentVars, Goto
  <2>3. w.text = work[p].text /\ w.route = work[p].route /\ w.importing = work[p].importing
        /\ w.cluster = work[p].cluster /\ w.query = work[p].query
    BY <1>0 DEF Work
  <2> HIDE DEF w
  <2> QED BY <1>2, <1>5, <2>2, <2>3
<1>9. ASSUME StoreCapture(p) PROVE Serving(p)'
  <2>1. pc[p] = "store" /\ pc'[p] = "import" /\ work'[p] = work[p] /\ UNCHANGED proposals
    BY <1>0, <1>9 DEF StoreCapture, Goto
  <2> QED BY <1>2, <1>5, <2>1
<1> QED BY <1>3, <1>4, <1>6, <1>7, <1>8, <1>9 DEF CaptureStep

\* The next proposal joins the ones of its artifact that are stored.
LEMMA UpsertedContent ==
    ASSUME TypeInv, TraceInv, NEW p \in Proc, UpsertProposal(p), NEW t \in Cluster, work[p].into = t,
           NEW i \in Nat, work[p].index = i, NEW a, work[p].artifact = a, Content(t) = FirstOf(i, a)
    PROVE  Content(t)' = FirstOf(i + 1, a)
<1>1. i \notin Indexes(t)
  <2>1. \A r \in RowsOfCluster(t) : <<r.index, r.artifact>> \in FirstOf(i, a)
    BY DEF Content, Contents
  <2> QED BY <2>1 DEF Indexes, FirstOf
<1>2. Content(t)' = Content(t) \cup {<<i, a>>}
  BY <1>1, UpsertedSets
<1>3. FirstOf(i, a) \cup {<<i, a>>} = FirstOf(i + 1, a)
  <2>1. \A e : e \in FirstOf(i, a) <=> \E j \in 0 .. (i - 1) : e = <<j, a>>
    BY DEF FirstOf
  <2>2. \A e : e \in FirstOf(i + 1, a) <=> \E j \in 0 .. i : e = <<j, a>>
    BY DEF FirstOf
  <2>3. \A j : j \in 0 .. i <=> j \in 0 .. (i - 1) \/ j = i
    OBVIOUS
  <2> QED BY <2>1, <2>2, <2>3
<1> QED BY <1>2, <1>3

\* The last proposal is stored: the set is the one of the artifact.
LEMMA UpsertServing ==
    ASSUME TypeInv, TraceInv, NEW p \in Proc, Serving(p), Overwriting(p), UpsertProposal(p),
           work'[p].route \in {"bootstrap", "query"}
    PROVE  Serving(p)'
<1>1. /\ work[p] \in Work /\ HeldAt(pc[p], work[p]) /\ pc[p] = "proposal" /\ work[p].importing
      /\ pc \in [Proc -> Steps] /\ work \in [Proc -> Work] /\ UNCHANGED alias
      /\ work[p].index \in Nat /\ work[p].text \in Text /\ work[p].text \in Cluster
  BY WorkTyped, UpsertLeads DEF UpsertProposal, WorkAt, HeldAt, identityVars, Cluster
<1>2. PICK t \in Cluster, c \in Cluster, i \in Nat, a \in Artifact :
        /\ t = work[p].text /\ c = work[p].into
        /\ i = work[p].index /\ a = work[p].artifact
  BY <1>1, UpsertLeads
<1>3. FirstOf(i + 1, a) \subseteq Content(c)'
  <2>1. Begins(c, i, a)
    BY <1>1, <1>2 DEF Overwriting
  <2>2. Begins(c, i + 1, a)'
    BY <1>2, <2>1, UpsertBegins
  <2> QED BY <2>2 DEF Begins
<1>4. ASSUME work[p].route \in {"bootstrap", "query"}
      PROVE  /\ alias[t] = c /\ work[p].query = t
             /\ work[p].route = "bootstrap" => work[p].cluster = t /\ alias[t] = t
             /\ work[p].route = "query" => work[p].cluster = None
             /\ Content(t)' = IF c = t THEN FirstOf(i + 1, a) ELSE {}
  <2>1. /\ alias[t] = c /\ work[p].query = t
        /\ work[p].route = "bootstrap" => work[p].cluster = t /\ alias[t] = t
        /\ work[p].route = "query" => work[p].cluster = None
        /\ Own(p, i)
    BY <1>1, <1>2, <1>4 DEF Serving
  <2>2. Content(t) = IF c = t THEN FirstOf(i, a) ELSE {}
    BY <1>2, <2>1 DEF Own
  <2>3. CASE c = t
    <3>1. Content(t) = FirstOf(i, a)
      BY <2>2, <2>3
    <3>2. Content(t)' = FirstOf(i + 1, a)
      BY <1>2, <2>3, <3>1, UpsertedContent
    <3> QED BY <2>1, <2>3, <3>2
  <2>4. CASE c # t
    <3>1. Content(t)' = Content(t)
      BY <1>2, <2>4, UpsertedSets DEF Content
    <3> QED BY <2>1, <2>2, <2>4, <3>1
  <2> QED BY <2>3, <2>4
<1>5. CASE LastProposal(p) /\ Imported(p)
  <2>1. work[p].route # "rebootstrap"
    BY <1>1, <1>5 DEF Imported, Finish, NoWork
  <2>2. PICK status \in {"cache_hit", "captured_and_cached"} : Conclude(p, status)
    BY <1>5, <2>1 DEF Imported
  <2> DEFINE w == [work[p] EXCEPT !.status = status]
  <2>3. pc'[p] = "load" /\ work'[p] = w
    BY <1>1, <2>2 DEF Conclude, Goto
  <2>4. /\ w.text = work[p].text /\ w.route = work[p].route /\ w.importing
        /\ w.cluster = work[p].cluster /\ w.query = work[p].query
        /\ w.artifact = work[p].artifact
    BY <1>1 DEF Work
  <2> HIDE DEF w
  <2>5. Size[a] = i + 1 /\ c # None
    BY <1>2, <1>5, FunnelAssumption DEF LastProposal, Cluster
  <2>6. work[p].route \in {"bootstrap", "query"}
    BY <2>3, <2>4
  <2>7. alias'[t] = c
    BY <1>1, <1>4, <2>6
  <2>8. Own(p, Size[a])'
    BY <1>2, <1>4, <2>3, <2>4, <2>5, <2>6, <2>7 DEF Own
  <2>9. work'[p].text = t /\ work'[p].artifact = a /\ work'[p].importing
        /\ work'[p].query = work[p].query /\ work'[p].cluster = work[p].cluster
        /\ work'[p].route = work[p].route
    BY <1>2, <2>3, <2>4
  <2>10. Content(alias[t])' = Content(c)'
    BY <2>7 DEF Content, RowsOfCluster
  <2> QED BY <1>3, <1>4, <2>3, <2>5, <2>6, <2>7, <2>8, <2>9, <2>10 DEF Serving
<1>6. CASE work' = [work EXCEPT ![p].index = @ + 1] /\ UNCHANGED pc
  <2> DEFINE w == [work[p] EXCEPT !.index = @ + 1]
  <2>1. pc'[p] = "proposal" /\ work'[p] = w
    BY <1>1, <1>6
  <2>2. /\ w.text = work[p].text /\ w.route = work[p].route /\ w.importing
        /\ w.cluster = work[p].cluster /\ w.query = work[p].query
        /\ w.artifact = work[p].artifact /\ w.into = work[p].into /\ w.index = work[p].index + 1
    BY <1>1 DEF Work
  <2> HIDE DEF w
  <2>3. work[p].route \in {"bootstrap", "query"}
    BY <2>1, <2>2
  <2>4. alias'[t] = c
    BY <1>1, <1>4, <2>3
  <2>5. Own(p, i + 1)'
    BY <1>2, <1>4, <2>1, <2>2, <2>3, <2>4 DEF Own
  <2>6. work'[p].text = t /\ work'[p].into = c /\ work'[p].importing /\ work'[p].index = i + 1
        /\ work'[p].query = work[p].query /\ work'[p].cluster = work[p].cluster
        /\ work'[p].route = work[p].route
    BY <1>2, <2>1, <2>2
  <2> QED BY <1>4, <2>1, <2>3, <2>4, <2>5, <2>6 DEF Serving
<1> QED BY <1>5, <1>6 DEF UpsertProposal

LEMMA ImportServing ==
    ASSUME TypeInv, TraceInv, Migrated = {}, NEW p \in Proc, Serving(p), Overwriting(p),
           ImportStep(p)
    PROVE  Serving(p)'
<1>0. /\ work[p] \in Work /\ HeldAt(pc[p], work[p])
      /\ pc \in [Proc -> Steps] /\ work \in [Proc -> Work] /\ UNCHANGED alias
  BY WorkTyped DEF ImportStep, ImportAccepted, RequestRepair, ImportFails, UpsertMetadata,
     UpsertProposal, ProposalKeyConflict, Respond, WorkAt, identityVars
<1> SUFFICES ASSUME work'[p].route \in {"bootstrap", "query"} PROVE Serving(p)'
  BY DEF Serving
<1>1. CASE ImportAccepted(p)
  <2> DEFINE w == [work[p] EXCEPT !.importing = TRUE]
  <2>1. pc[p] = "import" /\ pc'[p] = "register" /\ work'[p] = w /\ UNCHANGED proposals
    BY <1>0, <1>1 DEF ImportAccepted, contentVars, Goto
  <2>2. w.text = work[p].text /\ w.route = work[p].route
        /\ w.cluster = work[p].cluster /\ w.query = work[p].query
    BY <1>0 DEF Work
  <2> HIDE DEF w
  <2>3. RowsOfCluster(work[p].text)' = RowsOfCluster(work[p].text)
    BY <2>1, <2>2, TextKept
  <2> QED BY <1>0, <2>1, <2>2, <2>3 DEF Serving
<1>2. CASE RequestRepair(p)
  <2> DEFINE w == [work[p] EXCEPT !.repairs = work[p].artifact, !.artifact = None]
  <2>1. pc[p] = "import" /\ pc'[p] = "lookup" /\ work'[p] = w /\ UNCHANGED proposals
        /\ ~work[p].importing
    BY <1>0, <1>2 DEF RequestRepair, contentVars, Goto, HeldAt
  <2>2. w.text = work[p].text /\ w.route = work[p].route /\ w.importing = work[p].importing
        /\ w.cluster = work[p].cluster /\ w.query = work[p].query
    BY <1>0 DEF Work
  <2> HIDE DEF w
  <2>3. RowsOfCluster(work[p].text)' = RowsOfCluster(work[p].text)
    BY <2>1, <2>2, TextKept
  <2> QED BY <1>0, <2>1, <2>2, <2>3 DEF Serving
<1>3. CASE ImportFails(p)
  <2>1. /\ ~work[p].importing
        /\ \/ Finish(p)
           \/ \E status \in Status :
                 status \notin {"cache_hit", "captured_and_cached"} /\ Conclude(p, status)
    BY <1>0, <1>3 DEF ImportFails, NoArtifact, Status, HeldAt
  <2> QED BY <2>1, FinishServing, ConcludeServing
<1>4. CASE UpsertMetadata(p)
  <2> DEFINE w == [work[p] EXCEPT !.index = 0]
  <2>1. pc[p] = "metadata" /\ pc'[p] = "proposal" /\ work'[p] = w /\ UNCHANGED proposals
        /\ work[p].importing
    BY <1>0, <1>4 DEF UpsertMetadata, Goto, HeldAt
  <2>2. w.text = work[p].text /\ w.route = work[p].route /\ w.importing = work[p].importing
        /\ w.cluster = work[p].cluster /\ w.query = work[p].query /\ w.into = work[p].into
        /\ w.artifact = work[p].artifact /\ w.index = 0
    BY <1>0 DEF Work
  <2> HIDE DEF w
  <2>3. RowsOfCluster(work[p].text) = {}
    BY <2>1, <2>2 DEF Serving
  <2>4. Content(work[p].text)' = {} /\ FirstOf(0, w.artifact) = {}
    BY <2>1, <2>2, <2>3, TextKept DEF Content, Contents, FirstOf
  <2>5. Own(p, 0)'
    BY <2>1, <2>2, <2>4 DEF Own
  <2> QED BY <1>0, <2>1, <2>2, <2>5 DEF Serving
<1>5. CASE UpsertProposal(p)
  BY <1>5, UpsertServing
<1>6. CASE Respond(p)
  BY <1>6, FinishServing DEF Respond
<1> QED BY <1>1, <1>2, <1>3, <1>4, <1>5, <1>6, NoConflict DEF ImportStep

LEMMA StepRouted ==
    ASSUME TypeInv, NEW p \in Proc, StepOf(p), Routed(p)
    PROVE  Routed(p)'
<1>0. /\ work[p] \in Work /\ WorkAt(pc[p], work[p])
      /\ pc \in [Proc -> Steps] /\ work \in [Proc -> Work]
  BY WorkTyped
<1>1. CASE Starts(p)
  <2>1. pc'[p] \in {"register", "delete"} /\ ~work'[p].importing
        /\ (pc'[p] = "delete" => work'[p].route = "rebootstrap")
    <3>1. CASE StartGuess(p)
      BY <1>0, <3>1 DEF StartGuess, Begin, Goto, NoWork
    <3>2. CASE StartBootstrap(p)
      BY <1>0, <3>2 DEF StartBootstrap, Begin, Goto, NoWork
    <3>3. CASE StartRebootstrap(p)
      BY <1>0, <3>3 DEF StartRebootstrap, Begin, Goto, NoWork
    <3> QED BY <1>1, <3>1, <3>2, <3>3 DEF Starts
  <2> QED BY <2>1 DEF Routed
<1>2. CASE Finish(p)
  BY <1>0, <1>2 DEF Finish, Goto, NoWork, Routed
<1> SUFFICES ASSUME ~Starts(p), ~Finish(p) PROVE Routed(p)'
  BY <1>1, <1>2
<1>3. work'[p].route = work[p].route
  BY RequestKept
<1>4. work[p].route \in Route
  BY <1>0 DEF Work
<1>5. CASE StartAdjudicate(p)
  BY <1>5 DEF StartAdjudicate, Adjudicate, Routed
<1>6. CASE ResolveStep(p)
  <2>1. ASSUME NEW c, NEW q, NEW band \in {"alias_hit", "novel"}, pc[p] \in Resolution,
               Resolved(p, c, q, band)
        PROVE  /\ pc'[p] \in {"metadata", "has", "load"}
               /\ pc'[p] \in {"has", "load"} => work[p].route = "bootstrap"
               /\ work'[p].importing = work[p].importing
    <3>1. CASE work[p].importing
      <4>1. pc'[p] = "metadata" /\ work'[p] = [work[p] EXCEPT !.into = c, !.under = q]
        BY <1>0, <2>1, <3>1 DEF Resolved, Goto
      <4> QED BY <1>0, <4>1 DEF Work
    <3>2. CASE ~work[p].importing
      <4>1. work[p].route = "bootstrap"
        BY <1>0, <2>1, <3>2 DEF Resolved, WorkAt, RouteAt
      <4>2. \/ /\ pc'[p] = "load"
               /\ work'[p] = [work[p] EXCEPT !.cluster = c, !.query = q, !.status = "cluster_reuse"]
            \/ /\ pc'[p] = "has"
               /\ work'[p] = [work[p] EXCEPT !.cluster = c, !.query = q]
        BY <1>0, <2>1, <3>2, <4>1 DEF Resolved, Goto
      <4> QED BY <1>0, <4>1, <4>2 DEF Work
    <3> QED BY <3>1, <3>2
  <2>2. CASE \E c, q : \E band \in {"alias_hit", "novel"} : pc[p] \in Resolution /\ Resolved(p, c, q, band)
    BY <1>3, <2>1, <2>2 DEF Routed
  <2>3. CASE GetOrCreateQueryId(p)
    <3>1. \/ pc'[p] = "alias"
          \/ (pc'[p] = "has" /\ work[p].route = "query")
      BY <1>0, <2>3 DEF GetOrCreateQueryId, Goto
    <3>2. work'[p].importing = work[p].importing
      BY <1>0, <2>3 DEF GetOrCreateQueryId, Work
    <3> QED BY <1>3, <3>1, <3>2 DEF Routed
  <2>4. CASE ReadAlias(p) \/ FindMinimum(p)
    <3>1. pc'[p] \notin {"has", "load", "delete", "lookup", "store", "import"}
      BY <1>0, <2>4 DEF ReadAlias, FindMinimum, Goto
    <3>2. CASE ReadAlias(p)
      <4>1. work'[p].importing = work[p].importing
        BY <1>0, <3>2 DEF ReadAlias, Work
      <4> QED BY <1>3, <3>1, <4>1 DEF Routed
    <3>3. CASE FindMinimum(p)
      <4>1. work'[p].importing = work[p].importing
        BY <1>0, <3>3 DEF FindMinimum, Work
      <4> QED BY <1>3, <3>1, <4>1 DEF Routed
    <3> QED BY <2>4, <3>2, <3>3
  <2>5. CASE UNCHANGED work /\ pc'[p] \in {"minimum", "insertAlias"}
    BY <1>3, <2>5 DEF Routed
  <2> QED BY <1>0, <1>6, <2>2, <2>3, <2>4, <2>5 DEF ResolveStep, ReadCanonical, AdoptMinimum,
             AdoptFallback, AdmitCluster, InsertAlias, Resolution, Goto
<1>7. CASE CaptureStep(p)
  <2>1. pc[p] \in {"has", "delete", "lookup", "store"} /\ ~work[p].importing
    BY <1>0, <1>7 DEF CaptureStep, HasProposals, DeleteProposals, CacheHit, CacheMissOffline,
       ProviderError, Capture, StoreCapture, WorkAt, HeldAt
  <2>2. work[p].route # "guess"
    BY <2>1 DEF Routed
  <2>3. pc'[p] = "load" => work[p].route \in {"bootstrap", "query"}
    <3>1. CASE HasProposals(p)
      BY <3>1 DEF HasProposals, Routed
    <3>2. CASE CacheMissOffline(p) \/ ProviderError(p)
      <4>1. work[p].route # "rebootstrap"
        BY <3>2 DEF CacheMissOffline, ProviderError, NoArtifact
      <4> QED BY <1>4, <2>2, <4>1 DEF Route
    <3>3. CASE DeleteProposals(p) \/ CacheHit(p) \/ Capture(p) \/ StoreCapture(p)
      BY <1>0, <3>3 DEF DeleteProposals, CacheHit, Capture, StoreCapture, Goto
    <3> QED BY <1>7, <3>1, <3>2, <3>3 DEF CaptureStep
  <2>4. pc'[p] # "has"
    BY <1>7, CaptureLeads
  <2> QED BY <1>3, <2>2, <2>3, <2>4 DEF Routed
<1>8. CASE ImportStep(p)
  <2>1. pc[p] = "import" \/ work[p].importing \/ Respond(p)
    BY <1>0, <1>8 DEF ImportStep, ImportAccepted, RequestRepair, ImportFails, UpsertMetadata,
       UpsertProposal, ProposalKeyConflict, WorkAt, HeldAt
  <2>2. ~Respond(p)
    BY DEF Respond
  <2>3. work[p].route # "guess"
    BY <2>1, <2>2 DEF Routed
  <2>4. pc'[p] = "load" => work[p].route # "rebootstrap"
    <3>1. pc'[p] = "load" => ImportFails(p) \/ (UpsertProposal(p) /\ LastProposal(p))
      <4>1. UpsertProposal(p) /\ ~LastProposal(p) => pc'[p] = "proposal"
        BY UpsertLeads
      <4> QED BY <1>8, <4>1, ImportLeads
    <3> QED BY <3>1 DEF ImportFails, NoArtifact, UpsertProposal, Imported
  <2>5. pc'[p] # "has"
    BY <1>8, ImportLeads
  <2> QED BY <1>3, <1>4, <2>3, <2>4, <2>5 DEF Routed, Route
<1>9. ~Crash(p)
  BY DEF Crash
<1> QED BY <1>5, <1>6, <1>7, <1>8, <1>9 DEF StepOf, Serve, Starts

LEMMA StepSetsInv ==
    ASSUME TypeInv, TraceInv, SetsInv, Migrated = {}, NEW p, Proc = {p}, StepOf(p)
    PROVE  SetsInv'
<1>1. p \in Proc
  OBVIOUS
<1>2. Serving(p)'
  BY <1>1, StartServing, ResolveServing, CaptureServing, ImportServing
     DEF StepOf, Serve, Starts, SetsInv
<1>3. Overwriting(p)'
  BY <1>1, StepOverwriting DEF SetsInv
<1>5. Routed(p)'
  BY <1>1, StepRouted DEF SetsInv
<1>4. ASSUME crashes' = 0, NEW c \in Cluster PROVE Gapless(c)' /\ Led(c)'
  <2>1. crashes = 0
    <3>1. UNCHANGED crashes \/ Crash(p)
      BY <1>1, Writers
    <3> QED BY <1>4, <3>1 DEF Crash, TypeInv, TypeOK
  <2>2. Gapless(c) /\ Led(c) /\ Overwriting(p)
    BY <1>1, <2>1 DEF SetsInv
  <2> QED BY <1>4, <2>2, StepGapless, StepLed
<1> QED BY <1>2, <1>3, <1>4, <1>5 DEF SetsInv

\* Within a request the stored set grows proposal by proposal, over what another text of
\* the cluster may have left, and a text's own cluster is imported into only when empty.
THEOREM SetsInvariant ==
    ASSUME NEW server, Proc = {server}, Migrated = {}
    PROVE  Spec => []SetsInv
<1>1. Init => SetsInv
  <2> SUFFICES ASSUME Init PROVE SetsInv
    OBVIOUS
  <2>1. ASSUME NEW c \in Cluster PROVE Gapless(c) /\ Led(c)
    <3>1. Indexes(c) = 0 .. (0 - 1) /\ Legal(0) /\ 0 \in Nat /\ pc[server] = "idle"
          /\ RowsOfCluster(c) = {}
      BY DEF Init, Indexes, RowsOfCluster, Legal
    <3> QED BY <3>1 DEF Gapless, Led
  <2>2. Serving(server) /\ Overwriting(server) /\ Routed(server)
    BY DEF Init, Serving, NoWork, Overwriting, Routed
  <2> QED BY <2>1, <2>2 DEF SetsInv
<1>2. TypeInv /\ TraceInv /\ SetsInv /\ [Next]_vars => SetsInv'
  <2>1. SetsInv /\ UNCHANGED vars => SetsInv'
    BY DEF vars, identityVars, contentVars, envVars, SetsInv, Gapless, Led, Filling, Legal,
           Indexes, RowsOfCluster, Serving, Own, Overwriting, Routed, Begins, Content, Contents, FirstOf
  <2>2. Next => StepOf(server)
    BY NextStep
  <2> QED BY <2>1, <2>2, StepSetsInv
<1> QED BY <1>1, <1>2, FunnelInvariant, TraceInvariant, PTL DEF Spec

\* One process at a time, in a file that was not migrated, an answer that reports generated
\* content is composed when the whole imported artifact is stored in the cluster of its text,
\* and holds exactly its proposals, or none where /query loads by an id it is not filed under.
THEOREM AnswersAreImports ==
    ASSUME NEW server, Proc = {server}, Migrated = {}
    PROVE  Spec => AnswersHoldTheImport
<1>1. ASSUME TypeInv, TraceInv, SetsInv, [Next]_vars, NEW p \in Proc,
             reply'[p] # reply[p], Succeeded(reply'[p])
      PROVE  HoldsTheImport(reply'[p])
  <2>1. StepOf(p)
    <3>1. ~UNCHANGED vars
      BY <1>1 DEF vars, envVars
    <3> QED BY <1>1, <3>1, NextStep
  <2>2. Respond(p)
    <3>1. CASE Starts(p)
      <4>1. reply'[p] = None
        BY <1>1, <3>1 DEF Starts, StartBootstrap, StartGuess, StartRebootstrap, Begin, TypeInv, TypeOK
      <4> QED BY <1>1, <4>1 DEF Succeeded
    <3> QED BY <1>1, <2>1, <3>1, Writers
  <2> DEFINE rows == IF work[p].cluster # None THEN RowsOfCluster(work[p].cluster)
                     ELSE RowsOfQuery(work[p].query)
  <2>3. PICK t, a, c : t \in Text /\ t = work[p].text /\ a = work[p].artifact /\ c = alias[t]
    BY <1>1, <2>2, WorkTyped DEF Respond, WorkAt, HeldAt
  <2>4. /\ pc[p] = "load" /\ reply'[p].route = work[p].route /\ reply'[p].text = t
        /\ reply'[p].status = work[p].status /\ reply'[p].artifact = a
        /\ reply'[p].rows = rows
    BY <1>1, <2>2, <2>3 DEF Respond, TypeInv, TypeOK
  <2> HIDE DEF rows
  <2>5. work[p].status \in {"cache_hit", "captured_and_cached"}
    BY <1>1, <2>4 DEF Succeeded
  <2>6. work[p].route \in {"bootstrap", "query"}
    BY <1>1, <2>4 DEF SetsInv, Routed
  <2>7. /\ c # None /\ work[p].query = t
        /\ work[p].route = "bootstrap" => work[p].cluster = t /\ c = t
        /\ work[p].route = "query" => work[p].cluster = None
        /\ FirstOf(Size[a], a) \subseteq Content(c)
        /\ Content(t) = IF c = t THEN FirstOf(Size[a], a) ELSE {}
    BY <1>1, <2>3, <2>4, <2>5, <2>6 DEF SetsInv, Serving, Own
  <2>8. canonical[c] = c
    BY <1>1, <2>3, <2>7, OwnRows DEF TraceInv, AliasesLead
  <2>9. rows = RowsOfCluster(t)
    BY <1>1, <2>3, <2>6, <2>7, OwnRows, FunnelAssumption DEF rows, Cluster
  <2>10. Contents(reply'[p].rows) = IF c = t THEN FirstOf(Size[a], a) ELSE {}
    BY <2>4, <2>7, <2>9 DEF Content
  <2>11. (work[p].route = "query" /\ c # t) <=> c # t
    BY <2>6, <2>7
  <2> QED BY <2>3, <2>4, <2>7, <2>8, <2>10, <2>11 DEF HoldsTheImport, Content
<1>2. TypeInv /\ TraceInv /\ SetsInv /\ [Next]_vars =>
        [\A p \in Proc :
             reply'[p] # reply[p] /\ Succeeded(reply'[p]) => HoldsTheImport(reply'[p])]_vars
  BY <1>1
<1> QED BY <1>2, FunnelInvariant, TraceInvariant, SetsInvariant, PTL DEF Spec, AnswersHoldTheImport

\* One process at a time, in a file that was not migrated and unless a process stopped, what a
\* cluster holds is without a gap, between MinProposals and MaxProposals proposals, begins with
\* the whole artifact its metadata is from, and goes on, if at all, with the rest of longer ones.
THEOREM SetsBeginWithAnArtifact ==
    ASSUME NEW server, Proc = {server}, Migrated = {}
    PROVE  Spec => []SetsBeginWhole
<1>1. ASSUME TypeInv, TraceInv, RowsSound, SetsInv, crashes = 0, \A p \in Proc : pc[p] = "idle",
             NEW c \in Cluster, RowsOfCluster(c) # {}
      PROVE  LET rows == RowsOfCluster(c)
                 a == metadata[canonical[c]]
             IN  /\ \E n \in MinProposals .. MaxProposals : {r.index : r \in rows} = 0 .. (n - 1)
                 /\ FirstOf(Size[a], a) \subseteq Contents(rows)
                 /\ \A r \in rows : r.artifact # a => r.index \in Size[a] .. (Size[r.artifact] - 1)
  <2>1. canonical[c] = c
    <3>1. c \in clusters
      BY <1>1 DEF TraceInv, RowsTraced, RowsOfCluster
    <3> QED BY <1>1, <3>1, OwnRows
  <2>2. PICK n \in Nat : Indexes(c) = 0 .. (n - 1) /\ Legal(n)
    BY <1>1 DEF SetsInv, Gapless
  <2>3. n # 0
    BY <1>1, <2>2 DEF Indexes
  <2>4. n \in MinProposals .. MaxProposals
    BY <2>2, <2>3 DEF Legal
  <2>5. PICK a \in Artifact : a = metadata[c] /\ Begins(c, Size[a], a)
    BY <1>1 DEF SetsInv, Led, Filling
  <2>6. ASSUME NEW r \in RowsOfCluster(c), r.artifact # a
        PROVE  r.index \in Size[a] .. (Size[r.artifact] - 1)
    <3>1. r \in proposals /\ r.index \in Nat /\ r.artifact \in Artifact
      BY <1>1 DEF RowsOfCluster, TypeInv, TypeOK, Row
    <3>2. ~(r.index < Size[a]) /\ r.index < Size[r.artifact]
      BY <1>1, <2>5, <2>6, <3>1 DEF Begins, RowsSound
    <3>3. Size[a] \in Nat /\ Size[r.artifact] \in Nat
      BY <3>1, FunnelAssumption
    <3> QED BY <3>1, <3>2, <3>3
  <2> QED BY <2>1, <2>2, <2>4, <2>5, <2>6 DEF Indexes, Begins, Content
<1>2. TypeInv /\ TraceInv /\ RowsSound /\ SetsInv => SetsBeginWhole
  BY <1>1 DEF SetsBeginWhole
<1> QED BY <1>2, FunnelInvariant, TraceInvariant, RowsAreSound, SetsInvariant, PTL
=============================================================================
