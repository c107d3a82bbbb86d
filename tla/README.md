# A verification project for Project Proteus

Project Proteus is a game-content server: it resolves what a player types into a
query, retrieves or generates proposals for it, learns from rewards which proposals
to show, and runs a small sandbox world. Everything it keeps between requests is in
one SQLite file. This directory holds TLA+ modules that model its core, the TLC
configurations that check them, and proofs that TLAPS checks.

Paths below are relative to the repository (`src/...` is the C++ source).

## The program as a concurrent system

* The HTTP server (`src/playable/http_server.cpp`) serves one request at a time: its
  `listen` loop (`include/httplib.h`) is a single thread beside the main thread, which
  probes it, tests it or waits for it; every handler opens its own `SqliteDb`, runs
  `ensure_schema` and then a sequence of SQL statements. No handler catches what the
  database throws, so an exception ends the server; the SQLite file survives, the
  sandbox world does not.
* The command line (`src/main.cpp`) runs the same operations (`--query`, `--reward`,
  `--rebootstrap`, aggregation, ...) in processes of their own, over the same file.
* A statement outside a `SqliteTransaction` commits by itself. Transactions are
  `BEGIN IMMEDIATE`; no busy timeout is set, so a statement that meets another
  connection's lock throws. Only `ensure_schema`, the log-and-dedupe step, the reward
  step and the aggregation use a transaction.

So the unit of atomicity is one statement or one transaction, between any two of
which another process may act or the process may stop. This is the granularity of the
modules.

## Inventory

| Component | State | Operations | What must be right |
|---|---|---|---|
| Prompt retrieval and rewards (`retrieval_engine`, `prompt_cache`, `proposal_selector`) | `prompt_cache`, `proposal_registry`, `prompt_candidates`, `prompt_meta`, `interaction_log`, `proposal_stats`, `bandit_state` | `/query`, `/reward`, `--query`, `--reward` | one novel row per prompt; a repeated submit is logged once; a reward is applied, counted and learnt at most once; a pool never runs empty |
| Query identity (`query_identity`) | `query_registry`, `concept_cluster`, `concept_alias`, `concept_similarity_log`, `domain_synonyms` | resolve, guess, adjudicate | a text stays with its cluster; a cluster has one canonical query |
| Bootstrap funnel (`http_server`, `llm_cache_client`, `import_novel_query_artifact`) | `llm_response_cache`, `query_metadata`, `query_bootstrap_proposals`, `npc_registry` | `/api/funnel/bootstrap`, `/query`, `--rebootstrap` | an answer holds the whole artifact just imported; what is stored is validated and in the cache; a failure can be made good; one repair at most |
| Schema (`schema.cpp`) | the version in `schema_meta` and `meta`, every table | `ensure_schema`, `--migrate`, `/dev/reset` | a file has the tables its version promises |
| SQLite wrappers (`sqlite_db.cpp`) | open statements of a handle | open, prepare, close, move | no statement outlives its handle |
| Sandbox (`sandbox_world`, `survival_binding`) | agents, objects, binding, behind a mutex | step, reset, agent and object update, reload of the binding | needs, units and positions stay legal; relief is paid for; a refused request does no harm |
| 20Q inference (`inference/`, `run_20q_demo`) | belief, asked questions | interview loop | no question twice; the interview ends; belief stays a distribution |
| Aggregation (`behavior_aggregation`) | three aggregate tables | recompute, inspect | aggregates describe one state of the log |
| Responders (`proteus/responders`) | none | choose, validate, fall back | the envelope sent is valid |
| Content graph, features, topology, governor, canonicalisation, deterministic math | constant tables | pure functions on text and doubles | determinism |
| Server process (`run_server`, `include/httplib.h`) | the listening socket, `stop_`, `listen_success` | listen, stop, probe, `--smoke`, `--self_test` | the process ends when it should, with the exit code that tells why |
| OpenAI client, JSON, static files | none | I/O | - |
| Web client (`web/app.js`, `web/sandbox.js`) | the last search, the chosen cluster, queued synonyms; the world, the selection, the timer | search, choose, adjudicate, bootstrap; step, edit, reset, reload | a text is adjudicated to a cluster offered for it; a form overwrites nothing unseen |

The components of the server talk through the database only, with two exceptions: a `/query` request
runs the retrieval and then the funnel's import, and every handler starts with
`ensure_schema`. `PROJECT.json` lists every component with its status, and under
`hazards` what is hard to test in this code, at the line where it bites.

## Modules

| Module | What it is |
|---|---|
| `Retrieval` | retrieval and rewards, several processes, one action per statement |
| `InteractionLedger` | what the interaction log promises: the abstract specification |
| `RetrievalRefinement` | the mapping from `Retrieval` to `InteractionLedger` |
| `RetrievalProofs` | theorems about `Retrieval`, proved for every value of its constants |
| `LedgerProofs` | theorems about the log, the counts and the weights of `Retrieval`, and the refinement |
| `Funnel` | resolver, response cache, repair and import, several processes |
| `FunnelProofs` | theorems about `Funnel` |
| `Schema` | opening, migrating and resetting the file, several processes |
| `SchemaProofs` | theorems about `Schema` |
| `Sandbox` | the sandbox world and its routes, one action per request and per tick |
| `SandboxProofs` | theorems about `Sandbox`, proved for every value of its constants |
| `Interview` | the twenty-questions interview, from the likelihood tables to the verdict |
| `InterviewProofs` | theorems about `Interview` |
| `Aggregation` | recomputing and inspecting the behaviour aggregates, several processes |
| `AggregationProofs` | theorems about `Aggregation` |
| `HttpServer` | the two threads of a server process, from start to exit |
| `WebClient` | the two pages and their fetches; extends `HttpServer`, which serves them |
| `WebProofs` | theorems about `WebClient` and the server under it |
| `MCRetrieval`, `MCFunnel`, `MCSchema`, `MCSandbox`, `MCInterview`, `MCAggregation`, `MCWeb` | small instances for TLC |

### Retrieval

`promptCache`, `registry`, `candidates`, `regenCount`, `log`, `stats` and `bandit` are
the tables; `pc` and `work` are the program counter and the locals of the request
each process serves; `reply` is the `updated` field of the last `/reward` response.
`StartQuery` and `StartReward` accept a request; the other actions are the statements
of `run_retrieval_detailed`, `prune_prompt_candidates`, `seed_prompt_candidates`,
`insert_interaction_log`, `log_reward`, `BanditSelector` and the `/reward` handler, in
the order the code runs them. `Crash` ends a request anywhere: the process is killed
or a statement throws (a busy database included); what it committed stays.

Abstractions: a proposal id is the triple it hashes (prompt, regeneration index,
position); the bandit's weights are the sequence of updates they have absorbed, so a
lost update is a missing element; select may choose any listed candidate and a sort
may order ties in any way (scores are doubles); rewards are quarters; `hit_count`, the
timestamps and the feature JSON are left out; the statistics of the listed candidates
are read in one step; the stored feature version always matches. A reward from the
command line is the HTTP reward without the two reads around it. Session ids are not
empty (an empty player and session switch deduplication off).

### Funnel

`queries`, `clusters`, `canonical`, `alias`, `llmCache`, `metadata` and `proposals` are
the tables. The four routes share the statements: `/api/funnel/bootstrap` and `/query`
(`StartBootstrap`), `resolve` and `resolve_guess` (`StartGuess`), `--rebootstrap`
(`StartRebootstrap`) and `adjudicate` (`StartAdjudicate`, a single statement).
`work.importing` tells the first resolution of a request from the one the import makes
again. `told` is a history variable: the texts that were answered "Try again when
online".

Abstractions: one query domain, the generic one. A text is a normalised text and
stands for its query id and for the cluster minted from it, which are functions of it
(hash collisions are not modelled). Raw spellings and context tokens, which would
change the prompt, are not modelled, nor are synonyms, full-text search and the
similarity log, which no modelled decision reads. A response of the provider is its
verdict and its number of proposals: the import's own test of that number is redundant
after the validators' (`MinProposals <= Size <= MaxProposals` is part of the
assumption). A fingerprint is bound and read as text and ends at its first zero byte,
so that every stored cluster is skipped with `stored_blob_length_mismatch`: the
duplicate and adjudication bands of `ResolveOrAdmitClusterId` are unreachable, and a
text without alias is always novel. `MIN(query_id)` may return any of the ids. The mode
is chosen per request, as the body (`llm_mode`) or the environment may.

`Migrated` clusters have no canonical query id: the migration from version 11 fills it
only for clusters with proposals. They are what makes `FindMinimum`, `AdoptMinimum`
and `AdoptFallback` reachable.

### Schema

`file` is what is committed (the objects of the file and the version recorded in
`schema_meta` and `meta`), `draft` what the process that holds `lock` sees in its
transaction. An object `<<table, migration>>` is all a migration does to a table;
dropping a table removes all of its objects. `Open` is any start of a request, a server
or a command, `StartReset` and `DropTable` are `/dev/reset`, and the rest is
`ensure_schema`: one transaction, a loop over the migrations with a record of the
version after each. `Busy` is `BEGIN IMMEDIATE` or a drop that meets the lock and
throws. `Throw` rolls back. `unclustered` counts the bootstrapped queries of a file
older than version 11, the only data a migration depends on: with two of them its
unique index cannot be created. Readers do not block writers in the model; in SQLite
they may make a commit throw, which `Crash` covers. A file has been made by an older
binary or by this one; migrations never meet a file that lacks tables of its own
version, because a reset needs a running server, which has migrated the file already.
Rows, and what a handler does once the file is open, belong to the other modules, which
start from a file at the latest version.

### Sandbox

`pos`, `mind` and `survival` are the fields of the agents that the steps read, `stock` is
the fields of the objects, `binding` the mapping in use and `file` the file it is loaded
from, which anybody may edit. The world is not in the database, and as the server runs
one handler at a time its mutex is never contended: a request is one action, except that
a step request (`StartStep`) is followed by its ticks, with no request in between.
`Tick` is `step_once_with_input`: everybody moves (`Move`), the player may consume, then
all needs rise and all units regrow (`Live`).

Abstractions: doubles are integers, and a patch sets some fields of one need or one
thing. The agents which are not the player go where sums of weights draw them, which
change with every update: any step of at most `Stride` on each axis is allowed. The
player's target is the nearest thing or agent in the front arc; the model allows any
thing in reach, or none. One weight stands for each of the blocks `semantic` and
`behavior`, which nothing but those steps reads. All agents have one radius, and there are
two obstacles, as `seed_world` has it. The binding is its file's content, as the mapping is
only looked up for display; the need the preview names is modelled. Labels, colours, tags,
summaries and the last action are left out. A number of steps or an id that does not fit
an `int` is undefined in C++: it is one of the requests that are refused or one of those
that are not.

### Interview

One run of `run_20q_demo`, in the order of its statements: `Seed` and `Validate` build and
check `likelihoods_` (`table`), `Ask` picks a question, `ReadAnswer` and `UnreadableInput` are
what `std::cin >> input` makes of an answer, both followed by the same update of belief,
counters and trace (`Take`), and `Conclude` is what follows the loop. The stream fails once
and for ever; after that only `UnreadableInput` is left.

Abstractions: a belief is known up to a common factor, which `normalize` divides out, so
that it stays an integer; a column of likelihoods is multiplied by the sums of the others
instead of divided by its own. The authored weight is a natural number to which a floor is
added, as the code adds `kEpsilon` to an exponential. Sums and products over targets, answers and
the trace are the folds of the community modules. The gain of information that selects
the next question and the normalised entropy are logarithms: any remaining question may be
next, and `Diffuse` is a parameter. The floor that `update` puts under each likelihood is far
above the mass that counts as none, so that only likelihoods that are all zero are degenerate.
The warnings of the validation do not stop the program.

### Aggregation

`qpa`, `qcs` and `ppv` are the three tables as committed, `work` what the transaction of a
recomputation has written so far. `writer` is the connection that holds the lock of `BEGIN
IMMEDIATE`, `readers` those with a `SELECT` that was stepped but not to its end. No busy
timeout is set: `BeginBusy` fails at once, `CommitBusy` is a `COMMIT` that meets a reader.
`StartInspectCluster` and `StartInspectPlayer` are the two commands that print the tables.
`commits` and `since` are history variables, from which `ReportsSound` knows whether a
recomputation came between the two reads of a report.

Abstractions: a mean is the pair of sum and count; entropy and divergence are the shares and
means they are computed from; the dimensions of a vector are the sequence that lists its query ids
in ascending order; base scores, squares, rounding and the order of printing are left
out. At most ten players of a cluster are printed; the instances have fewer.

### HttpServer and WebClient

`HttpServer` has a program counter for each thread: `server` follows `Server::listen`, `main`
follows `run_server` with `wait_for_server_ready`, `run_self_test` (a number of requests that
are answered as expected or not) and `Server::stop`. `listener` is the shared socket, `stop`
the flag. `other` says that another process of the program listens on the port, which may
change while this one does not. Clients in `Idle` connect and send nothing; `recv` then has no
limit. `late` is the deadline of the probes. What is undefined is a choice: `FD_SET` of a closed
socket does nothing (`SelectTimesOut`) or ends the process (`SelectAborts`). Nobody catches
what a handler throws (`HandlerThrows`).

`WebClient` adds one open page. An event handler runs to its `await`; `Send` puts a connection
in `waiting`, `ServeFetch` is the server's handling of it, and one action per continuation takes
the answer from `answers`, in any order. What `resolve_guess` answers is any choice of
candidates; of the sandbox only a count of its changes (`revision`) is kept. A synonym is the
search under which it was queued. `offered`, `tangled` and `reordered` are history variables.
Idle clients do not connect while a page is used: they would only delay it, and the server's
side of that is in the same run. Keys, drawing and messages are left out.

## Runs and bounds

| Run | Instance | Shows |
|---|---|---|
| `server` | 1 process, 2 prompts, 2 sessions, 4 requests, 1 stop | types; every applied reward trains the weights when nothing stops |
| `race` | 2 processes, 1 prompt, 2 callers that share a session, on a new file or on an overfull pool of badly rewarded proposals, 3 requests, 1 stop | novelty once, rewards counted once, shows cover the log, no row trains twice, selection never throws, the pool is bounded below and above, a reseed never brings a pruned proposal back, deduplication, the ledger is implemented |
| `comment` | 1 process, 3 submits | a violation, see below |
| `funnel_server` | 1 process, 2 texts, 4 artifacts, 5 requests, 1 stop | an answer that reports generated content holds exactly the artifact just imported, or nothing where `/query` loads an adjudicated text; a stored set begins with a whole artifact; every proposal is in the cache and filed under its cluster's canonical query; the import never throws; adjudications stick |
| `funnel_race` | 2 processes, 2 texts, 4 artifacts, a migrated file or one with a `/query` under way, 2 requests, 1 stop, fair | stored proposals are validated and have metadata; every request ends |
| `funnel_retry` | 1 process, 2 requests | a violation, see below |
| `schema_open` | 2 processes, 9 initial files (new, versions 5, 8, 9, 10, 11, 12 and a newer one), 5 opens or resets, 1 stop | the file holds what its version says, is migrated in one commit, and a process that was let in finds the latest version |
| `schema_reset` | 1 process, 2 opens | a violation, see below |
| `sandbox` | 2 agents, 2 things, an 8 by 4 map with both obstacles, 5 patches of each kind, 2 requests, batches of up to 2 ticks | needs, units and positions stay legal, the preview is right, relief is paid for, refusals do no harm |
| `interview` | 2 archetypes, 5 questions of which 4 are put, 3 answers, 2 sets of tables, fair | the belief is the evidence of all answers; the verdict matches it; the interview ends |
| `aggregation` | 2 processes, 2 players, 2 queries, 2 scores, 3 initial logs, up to 3 rows, 5 commands, 1 stop | the tables are the aggregates of one log; reports agree with them |
| `web` | a server, smoke or self-test process, a port that may be taken, 1 idle client, self test of 2 requests; 2 texts (1 empty), 2 clusters, 1 agent, 3 fetches of the search page or 4 of the sandbox, fair | exit codes; shutdown; adjudicated pairs; sandbox forms |

Bounds (all in guards, all constants): `MaxOps` limits requests, `MaxCrashes` limits
stops, and the sets of processes, submits, texts, rewards and artifacts are finite.
Requests only matter to each other through the tables, and the shortest interesting
story of each property fits: two requests race on one row, a third one repeats the
first, a fourth rewards it; in the funnel, two texts are bootstrapped, one is
adjudicated to the other's cluster, bootstrapped again and then queried. Each mutant in
`PROJECT.json` is a plausible bug that the same bounds do catch. Processes are
interchangeable in `race`, `schema_open` and `aggregation`, and texts in `funnel_server`,
hence the symmetry; the runs that check liveness use none.

`RaceSpec` has a second initial state, `OverfullInit`: a pool that two processes seeded at
the same time, which takes more requests to reach than the run can afford. `PoolBounds` is
the bound on what such a race can leave, and on how low a pool may get: each of the
other processes may remove one more proposal after its test, so the floor depends on
their number, and with the code's `kMinCandidates` = 4 a pool can only run empty when at
least five processes prune it at once. `race` scales this down to two processes and a
`MinCandidates` of 2, the tightest instance in which selection must not throw.

`funnel_race` likewise has a second initial state, `MidwayInit`, two of the three requests into the
story in which an import meets the primary key of another cluster's rows.

`sandbox` scales the map and the limits down: a radius of 1, a stride of 1, the obstacles
exactly as far apart as the assumption asks, rates up to 2. Two requests are an update
followed by a batch, two batches, or an edit of the file and a reload. An agent that turns
a corner, a maximum under the current value and a rest of less than a portion all occur.

`interview` puts four of five questions, so that there is a choice to the end; with the
telling tables an interview may stop early on a strong belief, with the vague ones it runs into
the budget, and three "not sure" are reached before it. `aggregation` has a group of two rows and
a group of one, old rows without a player, and enough commands for a recomputation
between the two reads of a report of the other process, with an append before it. In `web`
three fetches are two searches whose answers may swap and an adjudication, and four of
the sandbox are a timer's steps around a form and a reload.

A server process that has finished its requests stops, as nothing else is in the model:
the configurations switch deadlock checking off because `MaxOps` bounds the requests.

Fairness is assumed in three places, and nowhere that a request is issued:

* `Funnel`: weak fairness of the steps of a request once it is started. A handler runs to
  its end unless its process stops; no lock is waited for (a busy database throws) and the
  provider's answer, an error or a timeout comes in one step.
* `Interview`: weak fairness of the next step. The program waits for nothing but its
  input, which the player types or closes; what is typed is any choice.
* `WebClient`: weak fairness of the server thread (between two connections, and while it
  serves a fetch), of the main thread, and of the clock that ends the probes. Clients, the user
  and the other process owe nothing: a connected client may never send.

## What the runs refute

* `comment`: `prompt_cache.cpp` promises in a comment that "repeated identical submits for
  the same player/query/session/proposal must not write duplicate interaction rows". The
  code compares with the caller's last row only, so A, B, A logs A twice.
  `NoConsecutiveDuplicates` is what the code does guarantee, and it is proved.
* `funnel_retry`: an offline `/api/funnel/bootstrap` of a new text answers "No generated
  content available offline for this new entry. Try again when online." But the
  resolver has already admitted the text as a cluster with an alias, and every later
  request, online or not, is answered `cluster_reuse` with no proposals. A guess
  (`/api/funnel/resolve_guess`) alone has the same effect, so the web client's search
  followed by a bootstrap does not generate anything.
* `schema_reset`: `README_run.txt` says that "all runtime open paths now auto-migrate to
  latest schema". `/dev/reset` drops ten tables, among them `meta`, and opens the file
  again; but the version is read from `schema_meta`, which is left, so nothing is created
  and every later query fails with a missing table.

Also met while modelling, and part of the model (`MigrationFails`): a file of version 9 or 10
with two bootstrapped queries cannot be opened by this binary at all. And in
`HttpServer`: the readiness probe and the self test connect to the port, not to the
server, so that another process of the program on that port may answer them
(`main.cpp:130`); a stop that comes before `listen` is forgotten, as `listen` starts by
clearing its flag; a client that connects and sends nothing holds the one thread for
ever. `ShutdownCompletes` excepts the last two, by name (`early`, `Held`).

What the funnel stores is weaker than one might expect, and `AnswersHoldTheImport`,
`SetsBeginWhole` and `RowsTraceable` say exactly how:

* An import deletes nothing. After a text is adjudicated to another text's cluster, its `/query` imports
  its own artifact over the rows there; when that artifact is shorter, the tail of the longer one
  stays behind it. A stored set therefore begins with one whole artifact, the one its title and
  synopsis are from, and may go on with the rest of others.
* `/query` loads its answer by the text's own query id, while the import files proposals under the
  canonical one: for an adjudicated text with no proposals of its own it reports `captured_and_cached`
  or `cache_hit`, sends no proposal, and imports again at every query.
* A repaired artifact is cached under its repair prompt, which only an online request asks
  again. Offline, the text gets the rejected first artifact from the cache and `validation_failed`.

No text of the repository promises otherwise, so these are no findings.

Not claimed because the code does not guarantee it between processes: that no weight
update is lost, that an adjudication survives a concurrent resolver, that two racing imports
leave one artifact's set (`RowsSound` bounds each row by itself), that an inspection pairs its
values with the query ids of the same recomputation, that a page's answers belong to its last
search, or that a form undoes nothing the timer's steps did. The hazards of `PROJECT.json` behind
these name no property, and their notes say what is checked beside them. Those properties are stated for one server process, which is how the
program is deployed, or for reports that no recomputation divides, and the comments of
the properties say so. The `updated` field of `/reward` comes from two reads around the
reward; no text says what it promises when several rows match, and no property is about it.

## Proofs

Every safety property of a passing run, the action properties and the refinement included, is a
theorem: it holds for every value of the constants that meets the assumption of the
module, not only for the small instance. Each proof is the usual argument: an invariant that
strengthens the property holds initially, every action preserves it (one step per action,
one lemma for each that takes more than a line), and it implies the property. TLC has
checked the strengthened invariants on the instances of the runs. What limits a theorem
is written in its statement, and named here with the reason.

### RetrievalProofs

From `RetrievalAssumption` (any finite set of processes, any prompts, callers and
rewards, any bounds) and `WeightsAssumption` (the marker of missing weights is not a
sequence of updates):

* `TypeCorrect`: `Spec => []TypeOK`. The invariant is `TypeInv`: `TypeOK`, what the locals
  hold at each step of a request (`WorkOK`: a process that prunes has a list, one that logs
  has a selected proposal of its prompt, ...) and the finiteness of the pools.
* `DeduplicationCorrect`: a log row is only appended by the transaction that compares it with
  the caller's last row, and only its reward fields change (once, as the ledger says).
* `NoveltyIsUnique`: `NoveltyInv` adds to the property that a process which found the prompt
  missing holds the only claim on it: either it inserts the cache row, or it dies of the
  conflict; no second process can carry the novelty flag past the insertion.
* `PoolsAreRegistered`: a proposal is registered before it is a candidate and never
  unregistered.
* `RewardsAreCountedOnce`: `AccountingInv` states `Balanced` for all proposals: rewarded rows
  equal counted rewards plus the requests between the two writes plus those cut short
  there.
* `PoolsAreBounded`: `PoolBounds`. `Floor` says that a filled pool has one candidate more than
  the minimum for every process that may still delete, short of one for each process there
  is; `Ceiling` that it has room for what the processes that fill it are about to add, the one
  that looked last making up for what it saw (`Fits`). Both are needed because each process
  acts on a pool it listed before others wrote to it.
* `SelectionIsSafe`: `SelectionNeverThrows`, if no more processes share the file than
  `MinCandidates`. `Held` says that a request on its way to the selection has filled the pool
  or seen it filled. With more processes the last candidate of all can be pruned.
* `SeedsAreFresh`: `FreshlySeeded`, for one or two processes, and no more than `MinCandidates`.
  `ArmInv` says that what has a history is registered, so it is enough that a filling
  puts in nothing registered that is not in the pool already. `Filling` says why: while a pool
  is being filled nobody takes anything out of it, the first process brings it to the minimum
  exactly, and what the second one then puts in is fresh or there. The bounds are
  necessary: of three processes, two can fill a pool above the minimum and one of
  these prune it, while the third still holds the index of what was pruned; with more
  processes than candidates a pool is emptied and its first filling given out again.

### LedgerProofs

From the same assumptions:

* `RowsAreCountedAsShown`: `Covered` counts, per proposal, rows, shows and the requests
  between the two.
* `RowsAreTrainedOnce`: the weights are copied when a selector is built and written back when
  its request ends. `TrainInv` is about every copy: none has learnt from a row that a
  request still owes to it, and no two requests owe the same row.
* `NoTrainingIsLost`: `TrainingComplete`, for one process; two overwrite each other's weights.
* `RetrievalIsALedger`: `LedgerImplemented`. Three statements change what the ledger sees (the
  transaction that logs, the one that rewards, and the upsert that counts a reward); each is one
  step of `InteractionLedger`, and all others stutter. That a reward is counted only if it is on
  a row comes from `AccountingInv`.

### SchemaProofs

From `SchemaAssumption` (any processes, and any initial files of known versions that hold what
their version promises): `SchemaTypeCorrect`, `VersionCorrect` (`VersionIsHonest`) and
`MigratedInOneTransaction` (`OneTransaction`). The invariant `IInv` says that the committed file is
`Sound`, that the lock is held exactly from `BEGIN IMMEDIATE` to the commit (`Exclusive`), what
the draft holds at each statement of the loop (`Drafted`), and that a file which was opened has
the latest version in `schema_meta`, which no reset drops (`Opened`).

### FunnelProofs

From `FunnelAssumption`. For any processes: `FunnelTypeCorrect` (`TypeInv` adds what a request
holds at each statement) and `RowsAreSound` (`MetadataFirst`: a request that writes rows has
written their metadata). For one process, as the properties themselves say:

* `RowsCanBeTraced`, `OnlyAdjudicationsMove`: `TraceInv` says that an alias leads to an
  admitted cluster, that a cluster minted from a text is canonical for it from the start, and that
  what the request has read is still so (`Alone`).
  For `RowsCanBeTraced` it also says that the repair prompt a request is at can be asked again:
  the first prompt's cached artifact is the rejected one it repairs (`AskedAgain`).
* `ImportsNeverThrow`, `AnswersAreImports`, `SetsBeginWithAnArtifact`, in a file without
  migrated clusters: then every cluster is minted from a text, and query ids and clusters are one to one.
  For the last two, `SetsInv` says that a set has no gap and a legal number of proposals (`Gapless`),
  that it begins with the artifact of its metadata, as far as the import under way has come (`Led`,
  `Overwriting`), and that a request on either route captures and imports only after it found no rows under
  its text, so that what it loads there is what it imported, or nothing if it imported into
  another text's cluster (`Serving`, `Own`, `Routed`). A step that upserts proposal n turns "begins with the first n" into
  "begins with the first n + 1" (`UpsertBegins`). With migrated clusters the first
  theorem is false: a text is bootstrapped, adjudicated to a migrated cluster whose canonical
  query falls back to that text, and imported there under a key that is taken.

### WebProofs

From `HttpServerAssumption`, `WebClientAssumption` and `FetchAssumption`, which only say
that markers and connections are none of the values they stand beside:

* `WebTypeCorrect`, `ExitTellsWhatHappened`: `HttpInv` relates what the two threads have done
  (`ThreadInv`, `MainInv`) to the exit code; `FetchInv` says that a page is open only while the server
  serves, and that the fetches in flight are of the kinds of that page and told apart by number.
* `AdjudicationsMatch`: `PairInv` says that what the search screen shows, and what is under
  way, belongs to the last search.
* `NoFormOverwrites`: while connections and answers keep their order, answers belong to earlier
  fetches than those the server still has, the latest answer holds the present world, and a form
  sent with nothing in flight comes before anything that changes it (`FormInv`).

### SandboxProofs

From `SandboxAssumption` (any agents, things, seeds, patches and limits, and any map whose two
obstacles are further apart than an agent's diameter and stride, with nobody inside one at
the start):

* `SandboxTypeCorrect`: `TypeOK`, which holds the limits of needs and units; it is inductive,
  because every clamp makes any integers legal (`ClampNeedGood`, `ClampStockGood`).
* `SandboxStaysFree`: `MovedFree` shows that a step from a free place ends in a free place. The
  obstacles are tested once, in order; leaving the second one can only move an agent within a
  stride, and no place that close to the second is inside the first (`Separated`).
* `SandboxReliefIsPaid`: a tick raises every need, an interaction lowers only the one it
  relieves, and takes a portion (`TickPays`); needs the limits from the first theorem.
* `SandboxRefusalsAreHarmless`: the survival block is the last one looked at.
* `SandboxPreviewIsMostPressing`: pressures are compared by cross-multiplication, which is
  transitive because the first theorem keeps every maximum positive.

### InterviewProofs

From `InterviewAssumption` (any finite sets of archetypes, questions and answers, any
authored weights, limits and notion of a diffuse belief):

* `TypeCorrect`: the shares of a belief and of the tables stay positive and the counters
  within their limits. `IInv` says that while the interview goes on every limit is still
  ahead (`GoesOn`) and that the tables have their shape (`Shaped`).
* `VerdictIsHonest`: `NoveltyHonest`. `TraceOfAsked` and `InStep` tie the trace to the set of asked
  questions, and `Stopped` says that what ended the interview still holds at its end.
* `NeverRecovers`: the recovery of a degenerate belief is never taken, as no likelihood
  is zero once the tables have passed the validation.
* `BeliefIsEvidence`: `EvidenceKept`. That seeded tables pass the validation is an equation
  between sums (`ColumnsEven`), that the belief is the product over the trace is one between
  products (`EvidenceGrows`). Both are folds, so the module proves what a fold does with one
  element more (`SumTakes`, `ProductTakes`), that the result depends on the arguments alone
  (`FoldAgrees`), and that a factor comes out of a sum (`SumScaled`). The induction over the
  size of the domain is by its least counterexample, a set of numbers
  (`LeastNumber`), since the induction theorems that take a predicate cannot be used.

### AggregationProofs

From `AggregationAssumption` (any processes, players, query ids, scores, old logs and bounds;
players and query ids are different things):

* `TypeCorrect`: the lock has one holder, the process inside a transaction.
* `AggregatesAgree`: `TablesAgree`. `Drafted` says that what a transaction has computed so far are
  the aggregates of the log as it is, because an append needs the same lock; after a commit an
  append leaves the tables the aggregates of a prefix of the log (`PrefixOfAppend`).
* `InspectionsAreSound`: `ReportsSound`. `TablesFit` says that the second and third table are
  functions of the first, and `Reads` that a report which no commit divided holds what the
  tables still do, however many recomputations are prepared meanwhile.

### Only model-checked

`RequestsEnd`, `InterviewEnds` and `ShutdownCompletes` are liveness properties: the prover
handles neither fairness nor ENABLED. `FreshlySeeded` for more than two processes, and the
one-process properties of `Retrieval` and `Funnel` for more, are not claimed at all: the code
does not guarantee them.

## Not modelled

* The responders, the validation of content and the contracts of dimensions: pure
  functions of one request; the models use their verdict.
* Scoring, features, topology, fingerprints, information gain: arithmetic on doubles; the models
  allow every outcome.
* Normalisation of text, the wording of prompts, parsing of bodies and arguments: conversions
  no property is about.
* The routes that only read (lookup, debugging), static files, the OpenAI client, the
  vendored libraries beyond `Server::listen` and `Server::stop`.
* The NPC registry (an upsert per NPC id, read by nothing that is modelled), and the
  ownership of SQLite handles and statements.

## Plan

1. `Retrieval`, `InteractionLedger`, `RetrievalRefinement`, `RetrievalProofs`, `LedgerProofs`: done.
2. `Funnel`, `FunnelProofs`: done, but for the NPC registry.
3. `Schema`, `SchemaProofs`: done.
4. `Sandbox`, `SandboxProofs`: done.
5. `Interview`, `InterviewProofs`, `Aggregation`, `AggregationProofs`: done.
6. `HttpServer`, `WebClient`, `WebProofs`: done.
7. `SqliteHandles`, if it can be given a property that the language does not enforce already.
8. Theorems that say more than the runs: how many weight updates two processes can lose, and
   what remains of `RowsTraceable` with several processes. The runs are limited on purpose:
   where a later module needs one, runs that ask related questions are merged.
