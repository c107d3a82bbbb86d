-------------------------------- MODULE Funnel --------------------------------
(***************************************************************************)
(* The bootstrap funnel: a text is resolved to a cluster                   *)
(* (src/query/query_identity.cpp), an artifact with proposals is taken     *)
(* from the response cache or captured from the provider                   *)
(* (src/llm/llm_cache_client.cpp), validated, repaired at most once        *)
(* (src/playable/http_server.cpp) and imported                             *)
(* (src/bootstrap/import_novel_query_artifact.cpp). The HTTP server and    *)
(* the re-bootstrap commands run this code over one SQLite file; nothing   *)
(* in it is a transaction, so every statement commits by itself and is an  *)
(* action of its own.                                                      *)
(*                                                                         *)
(* One query domain is modelled, the generic one, which all routes serve   *)
(* and for which they compose the same prompts. A text is a normalised     *)
(* text; it stands for its query id and for the id of the cluster minted   *)
(* from it, which are functions of it. A stored fingerprint is bound and   *)
(* read back as text, which ends at its first zero byte: every comparison  *)
(* with a stored cluster is skipped as invalid, and a text without alias   *)
(* is always novel.                                                        *)
(***************************************************************************)
EXTENDS Integers, FiniteSets

CONSTANTS
    Proc,           \* processes that open the database file
    Text,           \* normalised texts
    Migrated,       \* clusters of a version 11 file, without canonical query id
    MigratedAlias,  \* the aliases such a file holds
    Artifact,       \* responses the provider may give
    Verdict,        \* of an artifact: "accepted", "rejected" or "unreadable"
    Size,           \* number of proposals of an artifact
    MinProposals,   \* kProposalMinCount
    MaxProposals,   \* kProposalMaxCount
    MaxOps,         \* bound: requests issued in a behaviour
    MaxCrashes,     \* bound: processes that stop in the middle of a request
    None            \* absence of a value (SQL NULL, std::nullopt)

ASSUME FunnelAssumption ==
    /\ IsFiniteSet(Proc)
    /\ Text \cap Migrated = {}
    /\ MigratedAlias \in [DOMAIN MigratedAlias -> Migrated]
    /\ DOMAIN MigratedAlias \subseteq Text
    /\ Verdict \in [Artifact -> {"accepted", "rejected", "unreadable"}]
    /\ Size \in [Artifact -> Nat]
    /\ MinProposals \in Nat \ {0}
    /\ MaxProposals \in Nat
    \* Both validators test the number of proposals before anything else.
    /\ \A a \in Artifact :
          Verdict[a] = "accepted" => Size[a] \in MinProposals .. MaxProposals
    /\ MaxOps \in Nat
    /\ MaxCrashes \in Nat
    /\ None \notin Text \cup Migrated \cup Artifact

VARIABLES
    queries,    \* query_registry: texts with a query id
    clusters,   \* concept_cluster: cluster ids with a row
    canonical,  \* concept_cluster.canonical_query_id
    alias,      \* concept_alias: the cluster of each text, or None
    llmCache,   \* llm_response_cache: the artifact of each prompt, or None
    metadata,   \* query_metadata: the artifact that wrote it, by query id
    proposals,  \* query_bootstrap_proposals
    pc,         \* the next statement of each process
    work,       \* local variables of the request a process serves
    reply,      \* the last response of each process
    told,       \* history: texts answered with "Try again when online"
    ops,        \* requests issued so far
    crashes     \* requests cut short so far

identityVars == <<queries, clusters, canonical, alias>>
contentVars  == <<llmCache, metadata, proposals>>
envVars      == <<reply, told, ops, crashes>>
vars == <<identityVars, contentVars, pc, work, envVars>>

-----------------------------------------------------------------------------
Cluster == Text \cup Migrated

\* The first prompt of a text, or the one that repairs a rejected artifact.
Prompt == [text : Text, repairs : Artifact \cup {None}]

Row == [query : Text, cluster : Cluster, index : Nat, artifact : Artifact]

Route == {"bootstrap", "query", "guess", "rebootstrap"}

Status ==
    {"existing", "cluster_reuse", "cache_hit", "captured_and_cached",
     "validation_failed", "semantic_repair_failed", "offline_cache_miss",
     "provider_error"}

Steps ==
    {"idle", "register", "alias", "canonical", "minimum", "adopt", "fallback",
     "admit", "insertAlias", "has", "delete", "lookup", "store", "import",
     "metadata", "proposal", "load"}

\* "cluster" and "query" are what the route resolved, "into" and "under" what
\* the import resolved again.
NoWork ==
    [route |-> "guess", text |-> None, online |-> FALSE, importing |-> FALSE,
     cluster |-> None, query |-> None, into |-> None, under |-> None,
     repairs |-> None, artifact |-> None, cached |-> FALSE, index |-> 0,
     status |-> "existing"]

Work ==
    [route : Route, text : Text \cup {None}, online : BOOLEAN, importing : BOOLEAN,
     cluster : Cluster \cup {None}, query : Text \cup {None},
     into : Cluster \cup {None}, under : Text \cup {None},
     repairs : Artifact \cup {None}, artifact : Artifact \cup {None},
     cached : BOOLEAN, index : Nat, status : Status]

Reply ==
    [route : Route, text : Text, online : BOOLEAN, artifact : Artifact \cup {None},
     status : Status, rows : SUBSET Row]

Init ==
    /\ queries = DOMAIN MigratedAlias
    /\ clusters = Migrated
    /\ canonical = [c \in Cluster |-> None]
    /\ alias = [t \in Text |-> IF t \in DOMAIN MigratedAlias THEN MigratedAlias[t] ELSE None]
    /\ llmCache = [q \in Prompt |-> None]
    /\ metadata = [t \in Text |-> None]
    /\ proposals = {}
    /\ pc = [p \in Proc |-> "idle"]
    /\ work = [p \in Proc |-> NoWork]
    /\ reply = [p \in Proc |-> None]
    /\ told = {}
    /\ ops = 0
    /\ crashes = 0

Goto(p, step) == pc' = [pc EXCEPT ![p] = step]

Finish(p) ==
    /\ Goto(p, "idle")
    /\ work' = [work EXCEPT ![p] = NoWork]

\* The response is composed from what was just assigned to the status.
Conclude(p, status) ==
    /\ Goto(p, "load")
    /\ work' = [work EXCEPT ![p].status = status]

-----------------------------------------------------------------------------
(* Requests.                                                               *)

Begin(p, step, request) ==
    /\ pc[p] = "idle"
    /\ ops < MaxOps
    /\ ops' = ops + 1
    /\ Goto(p, step)
    /\ work' = [work EXCEPT ![p] = request]
    /\ reply' = [reply EXCEPT ![p] = None]
    /\ UNCHANGED <<identityVars, contentVars, told, crashes>>

\* POST /api/funnel/bootstrap, with the mode of the request, and POST /query,
\* with the mode of the environment.
StartBootstrap(p) ==
    \E t \in Text, route \in {"bootstrap", "query"}, online \in BOOLEAN :
        Begin(p, "register",
              [NoWork EXCEPT !.route = route, !.text = t, !.online = online])

\* POST /api/funnel/resolve and /api/funnel/resolve_guess only resolve.
StartGuess(p) ==
    \E t \in Text : Begin(p, "register", [NoWork EXCEPT !.text = t])

\* --rebootstrap: a registered query, always online.
StartRebootstrap(p) ==
    \E t \in queries :
        Begin(p, "delete",
              [NoWork EXCEPT !.route = "rebootstrap", !.text = t, !.online = TRUE])

\* POST /api/funnel/adjudicate: one upsert. The foreign key refuses the alias
\* of a cluster that does not exist.
Adjudicate(t, c) ==
    /\ c \in clusters
    /\ alias' = [alias EXCEPT ![t] = c]
    /\ UNCHANGED <<queries, clusters, canonical, contentVars, pc, work, reply, told, crashes>>

StartAdjudicate(p) ==
    /\ pc[p] = "idle"
    /\ ops < MaxOps
    /\ ops' = ops + 1
    /\ \E t \in Text, c \in clusters : Adjudicate(t, c)

-----------------------------------------------------------------------------
(* GetOrCreateQueryId and ResolveOrAdmitClusterId.                         *)

Resolving(p) == IF work[p].importing THEN work[p].into ELSE work[p].cluster

\* What follows the resolution, for a band and a query id.
Resolved(p, c, q, band) ==
    IF work[p].importing
    THEN /\ work' = [work EXCEPT ![p].into = c, ![p].under = q]
         /\ Goto(p, "metadata")
    ELSE CASE work[p].route = "guess" -> Finish(p)
           [] work[p].route = "bootstrap" /\ band = "alias_hit" ->
                 /\ work' = [work EXCEPT ![p].cluster = c, ![p].query = q,
                                ![p].status = "cluster_reuse"]
                 /\ Goto(p, "load")
           [] work[p].route = "bootstrap" /\ band = "novel" ->
                 /\ work' = [work EXCEPT ![p].cluster = c, ![p].query = q]
                 /\ Goto(p, "has")

\* /query takes the text's own query id and resolves nothing before the import.
GetOrCreateQueryId(p) ==
    /\ pc[p] = "register"
    /\ queries' = queries \cup {work[p].text}
    /\ \/ /\ work[p].route = "query" /\ ~work[p].importing
          /\ work' = [work EXCEPT ![p].query = work[p].text]
          /\ Goto(p, "has")
       \/ /\ work[p].route # "query" \/ work[p].importing
          /\ Goto(p, "alias")
          /\ UNCHANGED work
    /\ UNCHANGED <<clusters, canonical, alias, contentVars, envVars>>

\* Mutant: the alias table is not consulted.
ReadAliasIgnored(p) ==
    /\ pc[p] = "alias"
    /\ Goto(p, "admit")
    /\ UNCHANGED <<identityVars, contentVars, work, envVars>>

\* Without an alias, the scan of the stored fingerprints finds nothing valid.
ReadAlias(p) ==
    LET c == alias[work[p].text]
    IN  /\ pc[p] = "alias"
        /\ \/ /\ c = None
              /\ Goto(p, "admit")
              /\ UNCHANGED work
           \/ /\ c # None
              /\ work' = [work EXCEPT ![p] =
                     IF work[p].importing THEN [@ EXCEPT !.into = c] ELSE [@ EXCEPT !.cluster = c]]
              /\ Goto(p, "canonical")
        /\ UNCHANGED <<identityVars, contentVars, envVars>>

\* canonical_query_id_for_cluster, first statement.
ReadCanonical(p) ==
    LET c == Resolving(p)
    IN  /\ pc[p] = "canonical"
        /\ \/ /\ canonical[c] # None
              /\ Resolved(p, c, canonical[c], "alias_hit")
           \/ /\ canonical[c] = None
              /\ Goto(p, "minimum")
              /\ UNCHANGED work
        /\ UNCHANGED <<identityVars, contentVars, envVars>>

RowsOfCluster(c) == {r \in proposals : r.cluster = c}
RowsOfQuery(q) == {r \in proposals : r.query = q}

\* MIN(query_id): any of the query ids, as the order of texts is not modelled.
FindMinimum(p) ==
    LET c == Resolving(p)
    IN  /\ pc[p] = "minimum"
        /\ \/ \E r \in RowsOfCluster(c) :
                 /\ Goto(p, "adopt")
                 /\ work' = [work EXCEPT ![p] = IF work[p].importing
                        THEN [@ EXCEPT !.under = r.query] ELSE [@ EXCEPT !.query = r.query]]
           \/ /\ RowsOfCluster(c) = {}
              /\ Goto(p, "fallback")
              /\ UNCHANGED work
        /\ UNCHANGED <<identityVars, contentVars, envVars>>

AdoptMinimum(p) ==
    LET c == Resolving(p)
        q == IF work[p].importing THEN work[p].under ELSE work[p].query
    IN  /\ pc[p] = "adopt"
        /\ canonical' = [canonical EXCEPT ![c] = q]
        /\ Resolved(p, c, q, "alias_hit")
        /\ UNCHANGED <<queries, clusters, alias, contentVars, envVars>>

\* COALESCE keeps a canonical id another process has set, but the function
\* returns its own.
AdoptFallback(p) ==
    LET c == Resolving(p)
    IN  /\ pc[p] = "fallback"
        /\ canonical' = [canonical EXCEPT ![c] = IF @ = None THEN work[p].text ELSE @]
        /\ Resolved(p, c, work[p].text, "alias_hit")
        /\ UNCHANGED <<queries, clusters, alias, contentVars, envVars>>

\* Mutant: the canonical query id is left for later.
AdmitClusterBare(p) ==
    /\ pc[p] = "admit"
    /\ clusters' = clusters \cup {work[p].text}
    /\ Goto(p, "insertAlias")
    /\ UNCHANGED <<queries, canonical, alias, contentVars, work, envVars>>

\* INSERT OR IGNORE of the cluster minted from the text.
AdmitCluster(p) ==
    LET c == work[p].text
    IN  /\ pc[p] = "admit"
        /\ clusters' = clusters \cup {c}
        /\ canonical' = IF c \in clusters THEN canonical ELSE [canonical EXCEPT ![c] = c]
        /\ Goto(p, "insertAlias")
        /\ UNCHANGED <<queries, alias, contentVars, work, envVars>>

\* insert_alias: ON CONFLICT DO UPDATE.
InsertAlias(p) ==
    LET t == work[p].text
    IN  /\ pc[p] = "insertAlias"
        /\ alias' = [alias EXCEPT ![t] = t]
        /\ Resolved(p, t, t, "novel")
        /\ UNCHANGED <<queries, clusters, canonical, contentVars, envVars>>

-----------------------------------------------------------------------------
(* The response cache and the provider.                                    *)

\* QueryHasBootstrapProposals.
HasProposals(p) ==
    /\ pc[p] = "has"
    /\ \/ /\ RowsOfQuery(work[p].query) # {}
          /\ Conclude(p, "existing")
       \/ /\ RowsOfQuery(work[p].query) = {}
          /\ Goto(p, "lookup")
          /\ UNCHANGED work
    /\ UNCHANGED <<identityVars, contentVars, envVars>>

\* Mutant: the metadata of the query is deleted as well.
DeleteProposalsAndMetadata(p) ==
    /\ pc[p] = "delete"
    /\ proposals' = proposals \ RowsOfQuery(work[p].text)
    /\ metadata' = [metadata EXCEPT ![work[p].text] = None]
    /\ Goto(p, "lookup")
    /\ UNCHANGED <<identityVars, llmCache, work, envVars>>

\* The command deletes before it captures.
DeleteProposals(p) ==
    /\ pc[p] = "delete"
    /\ proposals' = proposals \ RowsOfQuery(work[p].text)
    /\ Goto(p, "lookup")
    /\ UNCHANGED <<identityVars, llmCache, metadata, work, envVars>>

PromptOf(p) == [text |-> work[p].text, repairs |-> work[p].repairs]

\* A failure to get an artifact ends the command, the repair or the request.
NoArtifact(p, status) ==
    IF work[p].route = "rebootstrap" THEN Finish(p)
    ELSE Conclude(p, IF work[p].repairs # None THEN "semantic_repair_failed" ELSE status)

CacheHit(p) ==
    /\ pc[p] = "lookup"
    /\ llmCache[PromptOf(p)] # None
    /\ work' = [work EXCEPT ![p].artifact = llmCache[PromptOf(p)], ![p].cached = TRUE]
    /\ Goto(p, "import")
    /\ UNCHANGED <<identityVars, contentVars, envVars>>

CacheMissOffline(p) ==
    /\ pc[p] = "lookup"
    /\ llmCache[PromptOf(p)] = None
    /\ ~work[p].online
    /\ NoArtifact(p, "offline_cache_miss")
    /\ UNCHANGED <<identityVars, contentVars, envVars>>

ProviderError(p) ==
    /\ pc[p] = "lookup"
    /\ llmCache[PromptOf(p)] = None
    /\ work[p].online
    /\ NoArtifact(p, "provider_error")
    /\ UNCHANGED <<identityVars, contentVars, envVars>>

Capture(p) ==
    /\ pc[p] = "lookup"
    /\ llmCache[PromptOf(p)] = None
    /\ work[p].online
    /\ \E a \in Artifact : work' = [work EXCEPT ![p].artifact = a, ![p].cached = FALSE]
    /\ Goto(p, "store")
    /\ UNCHANGED <<identityVars, contentVars, envVars>>

\* Mutant: the answer to a repair is not stored.
StoreCaptureFirstOnly(p) ==
    /\ pc[p] = "store"
    /\ llmCache' = IF work[p].repairs # None THEN llmCache
                   ELSE [llmCache EXCEPT ![PromptOf(p)] = IF @ = None THEN work[p].artifact ELSE @]
    /\ Goto(p, "import")
    /\ UNCHANGED <<identityVars, metadata, proposals, work, envVars>>

\* ON CONFLICT DO NOTHING, and the process goes on with its own capture.
StoreCapture(p) ==
    /\ pc[p] = "store"
    /\ llmCache' = [llmCache EXCEPT ![PromptOf(p)] = IF @ = None THEN work[p].artifact ELSE @]
    /\ Goto(p, "import")
    /\ UNCHANGED <<identityVars, metadata, proposals, work, envVars>>

-----------------------------------------------------------------------------
(* ImportBootstrapArtifactForDomain and import_with_single_semantic_retry. *)

Accepted(a) == Verdict[a] = "accepted"

ImportAccepted(p) ==
    /\ pc[p] = "import"
    /\ Accepted(work[p].artifact)
    /\ work' = [work EXCEPT ![p].importing = TRUE]
    /\ Goto(p, "register")
    /\ UNCHANGED <<identityVars, contentVars, envVars>>

\* Mutant: a repair may be repaired again.
MayRepairAgain(p) ==
    /\ work[p].route # "rebootstrap"
    /\ work[p].online
    /\ Verdict[work[p].artifact] = "rejected"

MayRepair(p) ==
    /\ work[p].route # "rebootstrap"
    /\ work[p].online
    /\ work[p].repairs = None
    /\ Verdict[work[p].artifact] = "rejected"

\* The prompt of the repair names the reject codes of the artifact.
RequestRepair(p) ==
    /\ pc[p] = "import"
    /\ ~Accepted(work[p].artifact)
    /\ MayRepair(p)
    /\ work' = [work EXCEPT ![p].repairs = work[p].artifact, ![p].artifact = None]
    /\ Goto(p, "lookup")
    /\ UNCHANGED <<identityVars, contentVars, envVars>>

ImportFails(p) ==
    /\ pc[p] = "import"
    /\ ~Accepted(work[p].artifact)
    /\ ~MayRepair(p)
    /\ NoArtifact(p, "validation_failed")
    /\ UNCHANGED <<identityVars, contentVars, envVars>>

\* Mutant: the metadata of an earlier import is kept.
UpsertMetadataOnce(p) ==
    /\ pc[p] = "metadata"
    /\ metadata' = [metadata EXCEPT ![work[p].under] = IF @ = None THEN work[p].artifact ELSE @]
    /\ work' = [work EXCEPT ![p].index = 0]
    /\ Goto(p, "proposal")
    /\ UNCHANGED <<identityVars, llmCache, proposals, envVars>>

UpsertMetadata(p) ==
    /\ pc[p] = "metadata"
    /\ metadata' = [metadata EXCEPT ![work[p].under] = work[p].artifact]
    /\ work' = [work EXCEPT ![p].index = 0]
    /\ Goto(p, "proposal")
    /\ UNCHANGED <<identityVars, llmCache, proposals, envVars>>

\* Mutant: the row takes the query id of the request instead of the import's.
NewRowOfRequest(p) ==
    [query |-> work[p].query, cluster |-> work[p].into, index |-> work[p].index,
     artifact |-> work[p].artifact]

NewRow(p) ==
    [query |-> work[p].under, cluster |-> work[p].into, index |-> work[p].index,
     artifact |-> work[p].artifact]

\* The row the upsert replaces, and the row whose primary key it may violate.
SameSlot(r, s) == r.cluster = s.cluster /\ r.index = s.index
SameKey(r, s) == r.query = s.query /\ r.index = s.index

Conflicts(r) == \E s \in proposals : SameKey(r, s) /\ ~SameSlot(r, s)

\* Mutant: the last of several proposals is left out.
LastProposalEarly(p) == work[p].index + 2 >= Size[work[p].artifact]

LastProposal(p) == work[p].index + 1 = Size[work[p].artifact]

Imported(p) ==
    CASE work[p].route = "rebootstrap" -> Finish(p)
      [] OTHER -> Conclude(p, IF work[p].cached /\ work[p].repairs = None
                              THEN "cache_hit" ELSE "captured_and_cached")

\* One autocommitted upsert on (cluster_id, schema_version, proposal_index).
UpsertProposal(p) ==
    /\ pc[p] = "proposal"
    /\ ~Conflicts(NewRow(p))
    /\ proposals' = {r \in proposals : ~SameSlot(r, NewRow(p))} \cup {NewRow(p)}
    /\ \/ /\ LastProposal(p)
          /\ Imported(p)
       \/ /\ ~LastProposal(p)
          /\ work' = [work EXCEPT ![p].index = @ + 1]
          /\ UNCHANGED pc
    /\ UNCHANGED <<identityVars, llmCache, metadata, envVars>>

\* The primary key (query_id, schema_version, proposal_index) is not the target
\* of the upsert: its violation is an exception that ends the request.
ProposalKeyConflict(p) ==
    /\ pc[p] = "proposal"
    /\ Conflicts(NewRow(p))
    /\ Finish(p)
    /\ UNCHANGED <<identityVars, contentVars, envVars>>

\* load_bootstrap_proposals: by cluster for the funnel, by query id for /query.
Respond(p) ==
    /\ pc[p] = "load"
    /\ reply' = [reply EXCEPT ![p] =
           [route |-> work[p].route, text |-> work[p].text, online |-> work[p].online,
            artifact |-> work[p].artifact, status |-> work[p].status,
            rows |-> IF work[p].cluster # None THEN RowsOfCluster(work[p].cluster)
                     ELSE RowsOfQuery(work[p].query)]]
    /\ told' = IF work[p].route = "bootstrap" /\ work[p].status = "offline_cache_miss"
               THEN told \cup {work[p].text} ELSE told
    /\ Finish(p)
    /\ UNCHANGED <<identityVars, contentVars, ops, crashes>>

-----------------------------------------------------------------------------
\* The process stops, or a statement throws: what it committed stays.
Crash(p) ==
    /\ pc[p] # "idle"
    /\ crashes < MaxCrashes
    /\ crashes' = crashes + 1
    /\ Finish(p)
    /\ UNCHANGED <<identityVars, contentVars, reply, told, ops>>

ResolveStep(p) ==
    \/ GetOrCreateQueryId(p) \/ ReadAlias(p) \/ ReadCanonical(p) \/ FindMinimum(p)
    \/ AdoptMinimum(p) \/ AdoptFallback(p) \/ AdmitCluster(p) \/ InsertAlias(p)

CaptureStep(p) ==
    \/ HasProposals(p) \/ DeleteProposals(p) \/ CacheHit(p) \/ CacheMissOffline(p)
    \/ ProviderError(p) \/ Capture(p) \/ StoreCapture(p)

ImportStep(p) ==
    \/ ImportAccepted(p) \/ RequestRepair(p) \/ ImportFails(p) \/ UpsertMetadata(p)
    \/ UpsertProposal(p) \/ ProposalKeyConflict(p) \/ Respond(p)

Serve(p) == ResolveStep(p) \/ CaptureStep(p) \/ ImportStep(p)

Next ==
    \E p \in Proc :
        \/ StartBootstrap(p) \/ StartGuess(p) \/ StartRebootstrap(p) \/ StartAdjudicate(p)
        \/ Serve(p)
        \/ Crash(p)

Spec == Init /\ [][Next]_vars

\* A handler runs to its end unless its process stops: nothing in it waits.
FairSpec == Spec /\ \A p \in Proc : WF_vars(Serve(p))
-----------------------------------------------------------------------------
(* Properties.                                                             *)

TypeOK ==
    /\ queries \subseteq Text
    /\ clusters \subseteq Cluster
    /\ canonical \in [Cluster -> Text \cup {None}]
    /\ alias \in [Text -> Cluster \cup {None}]
    /\ llmCache \in [Prompt -> Artifact \cup {None}]
    /\ metadata \in [Text -> Artifact \cup {None}]
    /\ proposals \subseteq Row
    /\ pc \in [Proc -> Steps]
    /\ work \in [Proc -> Work]
    /\ reply \in [Proc -> Reply \cup {None}]
    /\ told \subseteq Text
    /\ ops \in 0 .. MaxOps
    /\ crashes \in 0 .. MaxCrashes

Succeeded(r) == r # None /\ r.status \in {"cache_hit", "captured_and_cached"}

Contents(rows) == {<<r.index, r.artifact>> : r \in rows}

\* The first n proposals of artifact a.
FirstOf(n, a) == {<<i, a>> : i \in 0 .. (n - 1)}

HoldsTheImport(r) ==
    LET c == alias[r.text]
        imported == FirstOf(Size[r.artifact], r.artifact)
    IN  /\ imported \subseteq Contents(RowsOfCluster(c))
        /\ Contents(r.rows) =
               IF r.route = "query" /\ canonical[c] # r.text THEN {} ELSE imported

\* A response that reports generated content is composed when every proposal of the
\* artifact it imported is stored in the cluster of its text. A bootstrap answers with
\* exactly these proposals. So does /query when the text's own query id is the canonical
\* one of the cluster; an adjudicated text it answers with no proposal at all, because it
\* loads by its own query id what the import filed under the canonical one (one process
\* at a time, a file without migrated clusters).
AnswersHoldTheImport ==
    [][\A p \in Proc :
           reply'[p] # reply[p] /\ Succeeded(reply'[p]) => HoldsTheImport(reply'[p])]_vars

\* What a cluster holds, unless a process stopped in an import, has no gap, is of a legal
\* number, and begins with all the proposals of the artifact that its metadata (title and
\* synopsis) is from, the one imported last. It need not end with them: an import deletes
\* nothing, so that proposals of longer artifacts, imported earlier through other texts of
\* the cluster, may follow, but nowhere else (one process at a time, a file without
\* migrated clusters).
SetsBeginWhole ==
    (crashes = 0 /\ \A p \in Proc : pc[p] = "idle") =>
        \A c \in Cluster :
            LET rows == RowsOfCluster(c)
                a == metadata[canonical[c]]
            IN  rows # {} =>
                    /\ \E n \in MinProposals .. MaxProposals : {r.index : r \in rows} = 0 .. (n - 1)
                    /\ FirstOf(Size[a], a) \subseteq Contents(rows)
                    /\ \A r \in rows : r.artifact # a => r.index \in Size[a] .. (Size[r.artifact] - 1)

\* A prompt that an online request of its text asks again when the cache answers: the
\* first one, or the repair of the rejected artifact that the cache holds for the first.
AskedAgain(q) ==
    q.repairs # None =>
        /\ Verdict[q.repairs] = "rejected"
        /\ llmCache[[text |-> q.text, repairs |-> None]] = q.repairs

\* What is stored can be traced: the artifact of every proposal is in the response cache,
\* where an online request of some text, perhaps one adjudicated to another cluster since,
\* reaches it from the first prompt on, over a rejected artifact if it is a repair, without
\* the provider. (An offline request asks the first prompt only: it does not reach a
\* repair, and ends in validation_failed.) And every proposal is stored under the
\* canonical query id of its cluster, so that what a cluster holds is never spread over
\* two query ids (one process at a time).
RowsTraceable ==
    \A r \in proposals :
        /\ \E q \in Prompt : llmCache[q] = r.artifact /\ AskedAgain(q)
        /\ r.query = canonical[r.cluster]

\* The upsert names only one of the two unique keys of the table; the other one is
\* never violated by the import of any text, adjudicated or not, by one process at a time
\* in a file without migrated clusters. (Otherwise it is: see ProposalKeyConflict.)
ImportNeverThrows ==
    \A p \in Proc : pc[p] = "proposal" => ~Conflicts(NewRow(p))

\* Once a text has an alias, only an adjudication moves it to another cluster
\* (one process at a time).
AdjudicationSticks ==
    [][(\E t \in Text : alias[t] # None /\ alias'[t] # alias[t]) =>
           \E t \in Text, c \in Cluster : Adjudicate(t, c)]_vars

\* Every request ends: the repair of a rejected artifact is not repaired again, even
\* when the cache keeps answering with an artifact that is rejected.
RequestsEnd == \A p \in Proc : pc[p] # "idle" ~> pc[p] = "idle"

\* No interleaving of imports, deletions and stops stores a proposal of an artifact the
\* validators refuse, or one beyond the end of its artifact, or one whose query has no
\* metadata.
RowsSound ==
    \A r \in proposals :
        /\ Verdict[r.artifact] = "accepted"
        /\ r.index < Size[r.artifact]
        /\ metadata[r.query] # None

\* "Try again when online": a text that was answered so, and is then requested online,
\* is never answered with an existing cluster that has no content.
RetryFindsContent ==
    \A p \in Proc :
        /\ reply[p] # None
        /\ reply[p].text \in told
        /\ reply[p].online
        /\ reply[p].status = "cluster_reuse"
        => reply[p].rows # {}
=============================================================================
