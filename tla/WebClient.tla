------------------------------- MODULE WebClient -------------------------------
(***************************************************************************)
(* The two pages that the server hands out, web/app.js (the search screen  *)
(* of the funnel) and web/sandbox.js (the sandbox), with the server that   *)
(* answers them (HttpServer). An event handler of a page runs until it     *)
(* awaits a fetch. The user, the timer and other answers come in between,  *)
(* connections may be accepted, and answers arrive, in any order.          *)
(*                                                                         *)
(* What the server answers is any choice here, but for the sandbox world,  *)
(* of which a count of its changes is kept. One page is open at a time.    *)
(***************************************************************************)
EXTENDS HttpServer

CONSTANTS
    Text,      \* contents of the search box
    Empty,     \* the empty text
    Domain,    \* query domains of the modes
    Cluster,   \* cluster ids
    Entity,    \* agents and objects on the canvas
    MaxFetches \* bound: fetches of each page

Pages == {"index", "sandbox"}

ASSUME WebClientAssumption ==
    Empty \in Text /\ None \notin Text \cup Domain \cup Cluster \cup Entity /\ MaxFetches \in [Pages -> Nat]

VARIABLES
    page,       \* "index" or "sandbox"
    sent,       \* fetches so far
    answers,    \* answers the page has not dealt with
    reordered,  \* history: requests were accepted, or answers arrived, out of order
    mode_domain,\* the domain of the chosen mode
    lastSearch, \* text and domain of the last search
    recognized, \* what the recognition panel shows: the search and the alternates
    chosen,     \* chosenClusterId
    queue,      \* synonymQueue: of each entry the search it was queued under
    offered,    \* history: clusters that answers to the last search have offered
    tangled,    \* history: the last search was made while answers were outstanding
    revision,   \* changes of the sandbox world
    shown,      \* revision of `world`, or None before the first answer
    selection,
    running     \* runTimer is set

index == <<mode_domain, lastSearch, recognized, chosen, queue, offered, tangled>>
sandbox == <<shown, selection, running>>
net == <<sent, answers, reordered, revision>>
pageVars == <<page, index, sandbox, net>>
vars == <<httpVars, pageVars>>

NoSearch == <<Empty, None>>

Kinds == {"resolve", "adjudicate", "bootstrap", "state", "step", "reset", "update", "reload"}

Searches == Text \X (Domain \cup {None})

Fetch ==
    [id : Nat, kind : Kinds, search : Searches \cup {None}, cluster : Cluster \cup {None},
     synonyms : SUBSET Searches, base : Nat \cup {None}, alone : BOOLEAN]

\* The connection of a fetch is none of the others.
ASSUME FetchAssumption == \A c \in Idle \cup {Main, None} : c \notin Fetch

Init ==
    /\ HttpInit
    /\ page \in Pages
    /\ sent = 0 /\ answers = {} /\ reordered = FALSE /\ revision = 0
    /\ mode_domain \in Domain
    /\ lastSearch = NoSearch
    /\ recognized = None /\ chosen = None /\ queue = {}
    /\ offered = {} /\ tangled = FALSE
    /\ shown = None /\ selection = None /\ running = FALSE

-----------------------------------------------------------------------------
(* Fetches.                                                                *)

\* Unused fields are None.
Request(kind) ==
    [id |-> sent + 1, kind |-> kind, search |-> None, cluster |-> None, synonyms |-> {},
     base |-> None, alone |-> FALSE]

Fetches(connections) == connections \ (Idle \cup {Main, None})
InFlight == Fetches(waiting \cup {current}) \cup {a.to : a \in answers}

\* The user has a page of this server open, at the address it has printed. Bound: no idle
\* client is connected then, or connects while a page is used: it would only delay it.
Open(p) ==
    /\ page = p
    /\ mode = "serve" /\ main = "join" /\ answered = {"own"}
    /\ exit = None /\ listener = "listening"
    /\ Idle \cap (waiting \cup {current}) = {}

Send(request) ==
    /\ sent < MaxFetches[page]
    /\ sent' = sent + 1
    /\ waiting' = waiting \cup {request}
    /\ UNCHANGED <<mode, other, late, exit, server, stop, listener, current, succeeded, bound, control, page, revision>>

Post(request) == Send(request) /\ UNCHANGED <<answers, reordered>>

\* The page gets the answer; an older one may still be on its way.
Take(a) ==
    /\ a \in answers
    /\ answers' = answers \ {a}
    /\ reordered' = (reordered \/ \E b \in answers : b.to.id < a.to.id)

NoFetch == UNCHANGED <<httpVars, page, net>>
TakeOnly(a) == Take(a) /\ UNCHANGED <<httpVars, page, sent, revision>>

-----------------------------------------------------------------------------
(* The server's side of a fetch.                                           *)

Answer(answerTo) ==
    /\ Served
    /\ answers' = answers \cup {answerTo}
    /\ reordered' = (reordered \/ \E g \in Fetches(waiting) : g.id < current.id)
    /\ UNCHANGED <<mode, other, late, exit, control, page, sent, index, sandbox>>

Reply(ok, closest, alternates, hit) ==
    [to |-> current, ok |-> ok, closest |-> closest, alternates |-> alternates, hit |-> hit,
     revision |-> None]

\* resolve_guess: the best candidate and the others, or, if there is none, the cluster of
\* a known alias or duplicate, or an error.
ServeGuess ==
    /\ current.kind = "resolve"
    /\ \/ \E closest, hit \in Cluster \cup {None} : \E alternates \in SUBSET (Cluster \ {closest}) :
             /\ closest = None => alternates = {}
             /\ closest # None => hit = None
             /\ Answer(Reply(TRUE, closest, alternates, hit))
       \/ Answer(Reply(FALSE, None, {}, None))
    /\ UNCHANGED revision

\* Of a bootstrap the page only shows the answer.
ServeFunnel ==
    /\ current.kind \in {"adjudicate", "bootstrap"}
    /\ \E ok \in BOOLEAN : (current.kind = "bootstrap" => ok) /\ Answer(Reply(ok, None, {}, None))
    /\ UNCHANGED revision

\* Routes under /api/sandbox. All but "state" change something the page shows, the answer
\* to "reload" does not hold the world.
ServeSandbox ==
    /\ current.kind \in {"state", "step", "reset", "update", "reload"}
    /\ revision' = IF current.kind = "state" THEN revision ELSE revision + 1
    /\ Answer([Reply(TRUE, None, {}, None) EXCEPT !.revision = revision'])

ServeFetch ==
    /\ current \in Fetches({current})
    /\ \/ ServeGuess \/ ServeFunnel \/ ServeSandbox
       \/ current.kind \in {"resolve", "adjudicate"} /\ HandlerThrows /\ UNCHANGED pageVars

-----------------------------------------------------------------------------
(* app.js                                                                  *)

\* clearRecognition
Clear == recognized' = None /\ chosen' = None /\ queue' = {}

SetMode(d) ==
    /\ Open("index")
    /\ mode_domain' = d
    /\ Clear
    /\ NoFetch /\ UNCHANGED <<lastSearch, offered, tangled, sandbox>>

\* Mutant: the recognition of the search before stays on the screen.
SearchUncleared(t) ==
    /\ Open("index")
    /\ lastSearch' = <<t, mode_domain>>
    /\ Post([Request("resolve") EXCEPT !.search = lastSearch'])
    /\ offered' = {}
    /\ tangled' = \E f \in InFlight : f.kind \in {"resolve", "adjudicate"}
    /\ UNCHANGED <<recognized, chosen, queue, mode_domain, sandbox>>

Search(t) ==
    /\ Open("index")
    /\ Clear
    /\ lastSearch' = <<t, mode_domain>>
    /\ Post([Request("resolve") EXCEPT !.search = lastSearch'])
    /\ offered' = {}
    /\ tangled' = \E f \in InFlight : f.kind \in {"resolve", "adjudicate"}
    /\ UNCHANGED <<mode_domain, sandbox>>

OffersOf(a) == ({a.closest, a.hit} \ {None}) \cup a.alternates

\* resolveGuess after its await. Without a closest cluster, and without a known one, the
\* choice stays as it is.
GuessShown(a) ==
    /\ a.to.kind = "resolve"
    /\ a.ok
    /\ TakeOnly(a)
    /\ recognized' = [of |-> a.to.search, alternates |-> a.alternates]
    /\ chosen' = IF a.closest # None THEN a.closest ELSE IF a.hit # None THEN a.hit ELSE chosen
    /\ offered' = IF a.to.search = lastSearch THEN offered \cup OffersOf(a) ELSE offered
    /\ UNCHANGED <<mode_domain, lastSearch, queue, tangled, sandbox>>

\* Only a message is shown.
AnswerNoted(a) ==
    /\ a.to.kind = "bootstrap" \/ (a.to.kind \in {"resolve", "adjudicate"} /\ ~a.ok)
    /\ TakeOnly(a)
    /\ UNCHANGED <<index, sandbox>>

ChooseAlternate(c) ==
    /\ Open("index")
    /\ recognized # None
    /\ c \in recognized.alternates
    /\ chosen' = c
    /\ NoFetch /\ UNCHANGED <<mode_domain, lastSearch, recognized, queue, offered, tangled, sandbox>>

\* "Other" bootstraps the text in the box, "force novel" the text of the recognition.
Other ==
    /\ Open("index")
    /\ Clear
    /\ Post(Request("bootstrap"))
    /\ UNCHANGED <<mode_domain, lastSearch, offered, tangled, sandbox>>

ForceNovel ==
    /\ Open("index")
    /\ recognized # None
    /\ Post(Request("bootstrap"))
    /\ UNCHANGED <<index, sandbox>>

AddSynonym ==
    /\ Open("index")
    /\ queue' = queue \cup {lastSearch}
    /\ NoFetch /\ UNCHANGED <<mode_domain, lastSearch, recognized, chosen, offered, tangled, sandbox>>

RemoveSynonym ==
    /\ Open("index")
    /\ \E item \in queue : queue' = queue \ {item}
    /\ NoFetch /\ UNCHANGED <<mode_domain, lastSearch, recognized, chosen, offered, tangled, sandbox>>

\* The text is the one searched for, or what is in the box now when that was empty.
Adjudicate(t) ==
    /\ Open("index")
    /\ chosen # None
    /\ LET text == IF lastSearch[1] = Empty THEN t ELSE lastSearch[1]
       IN  Post([Request("adjudicate") EXCEPT !.search = <<text, lastSearch[2]>>, !.cluster = chosen, !.synonyms = queue])
    /\ UNCHANGED <<index, sandbox>>

\* The adjudicated text is resolved again.
Adjudicated(a) ==
    /\ a.to.kind = "adjudicate"
    /\ a.ok
    /\ Take(a)
    /\ Send([Request("resolve") EXCEPT !.search = a.to.search])
    /\ UNCHANGED <<index, sandbox>>

-----------------------------------------------------------------------------
(* sandbox.js                                                              *)

\* The last line of the script asks for the world.
Load ==
    /\ Open("sandbox")
    /\ sent = 0
    /\ Post(Request("state"))
    /\ UNCHANGED <<index, sandbox>>

Click ==
    /\ Open("sandbox")
    /\ shown # None
    /\ selection' \in Entity \cup {None}
    /\ NoFetch /\ UNCHANGED <<index, shown, running>>

Play ==
    /\ Open("sandbox")
    /\ sent > 0
    /\ running' = ~running
    /\ NoFetch /\ UNCHANGED <<index, shown, selection>>

\* A step by button or, while the world runs, by the timer, which does not wait for the
\* answer to the step before.
Step ==
    /\ Open("sandbox")
    /\ sent > 0
    /\ Post(Request("step"))
    /\ UNCHANGED <<index, sandbox>>

Reset ==
    /\ Open("sandbox")
    /\ sent > 0
    /\ running' = FALSE
    /\ Post(Request("reset"))
    /\ UNCHANGED <<index, shown, selection>>

Reload ==
    /\ Open("sandbox")
    /\ sent > 0
    /\ Post(Request("reload"))
    /\ UNCHANGED <<index, sandbox>>

\* The form of the inspector carries every value of the selected agent or object, as it
\* was in the world that is shown.
Submit ==
    /\ Open("sandbox")
    /\ selection # None
    /\ Post([Request("update") EXCEPT !.base = shown, !.alone = InFlight = {}])
    /\ UNCHANGED <<index, sandbox>>

WorldShown(a) ==
    /\ a.to.kind \in {"state", "step", "reset", "update"}
    /\ TakeOnly(a)
    /\ shown' = a.revision
    /\ selection' = IF a.to.kind = "reset" THEN None ELSE selection
    /\ UNCHANGED <<index, running>>

\* Mutant: the page trusts that a reload changes nothing it shows.
ReloadedOnly(a) ==
    /\ a.to.kind = "reload"
    /\ TakeOnly(a)
    /\ UNCHANGED <<index, sandbox>>

\* The world is asked for again.
Reloaded(a) ==
    /\ a.to.kind = "reload"
    /\ Take(a)
    /\ Send(Request("state"))
    /\ UNCHANGED <<index, sandbox>>

-----------------------------------------------------------------------------
Page ==
    \/ \E d \in Domain : SetMode(d)
    \/ \E t \in Text : Search(t) \/ Adjudicate(t)
    \/ \E c \in Cluster : ChooseAlternate(c)
    \/ Other \/ ForceNovel \/ AddSynonym \/ RemoveSynonym
    \/ Load \/ Click \/ Play \/ Step \/ Reset \/ Reload \/ Submit
    \/ \E a \in answers :
          GuessShown(a) \/ AnswerNoted(a) \/ Adjudicated(a) \/ WorldShown(a) \/ Reloaded(a)

\* See Open.
Quiet == sent > 0 => waiting' \cap Idle \subseteq waiting

Next ==
    \/ HttpNext /\ Quiet /\ UNCHANGED pageVars
    \/ ServeFetch
    \/ Page

\* The two threads run, and time passes. What clients and the user do is up to them.
FairSpec ==
    /\ Init /\ [][Next]_vars
    /\ WF_vars((Listen \/ ServeMain) /\ UNCHANGED pageVars)
    /\ WF_vars(ServeFetch)
    /\ WF_vars((Run \/ Join) /\ UNCHANGED pageVars)
    /\ WF_vars(DeadlinePasses /\ UNCHANGED pageVars)

-----------------------------------------------------------------------------
(* Properties.                                                             *)

TypeOK ==
    /\ HttpTypeOK
    /\ chosen \in Cluster \cup {None} /\ offered \subseteq Cluster
    /\ queue \subseteq (Text \X Domain) \cup {NoSearch}
    /\ shown \in (0 .. revision) \cup {None} /\ selection \in Entity \cup {None}
    /\ \A f, g \in InFlight : f.id = g.id => f = g
    /\ \A f \in InFlight : f.id \in 1 .. sent
    /\ selection # None => shown # None

\* A text is adjudicated to a cluster, with synonyms, that the server offered, and the
\* user queued, for that very text: unless the user searched on before the answers to an
\* earlier search, or its adjudication, had come, or searched with an empty box. Nothing on
\* the page tells the answers apart (resolveGuess).
PairsMatch ==
    [][\A f \in Fetches(waiting' \ waiting) :
          f.kind = "adjudicate" /\ ~tangled /\ lastSearch[1] # Empty =>
              /\ f.search = lastSearch
              /\ f.cluster \in offered
              /\ f.synonyms \subseteq {lastSearch}]_vars

\* A form overwrites nothing its user has not seen: when it was submitted with nothing in
\* flight, and connections and answers kept their order, the server changes exactly the
\* world whose values the form holds, however many steps the timer had sent before.
FormsLoseNothing ==
    server = "serve" /\ current \in Fetches({current}) =>
        (current.kind = "update" /\ current.alone /\ ~reordered => current.base = revision)
=============================================================================
