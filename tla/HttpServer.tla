------------------------------ MODULE HttpServer ------------------------------
(***************************************************************************)
(* The life of a `serve` process: run_server (http_server.cpp) starts a    *)
(* thread that listens and serves one connection after the other           *)
(* (include/httplib.h), probes it over the network, and then waits for the *)
(* thread (serve), stops it at once (--smoke), or sends it the requests of *)
(* the self test and stops it (--self_test).                               *)
(*                                                                         *)
(* Another process of the same program may have the port. Clients may      *)
(* connect and send nothing. Contents of requests are left out: a request  *)
(* is answered, or its handler throws.                                     *)
(***************************************************************************)
EXTENDS Naturals

CONSTANTS
    Main,   \* the connection of the main thread's own client
    Idle,   \* clients that send nothing
    Checks, \* requests of the self test
    None    \* no value

ASSUME HttpServerAssumption ==
    /\ Main # None /\ None \notin Idle /\ Main \notin Idle
    /\ None \notin Nat \cup {"ok", "bad"}
    /\ Checks \in Nat \ {0}

VARIABLES
    mode,     \* "serve", "smoke" or "self_test"
    other,    \* another process listens on the port
    server,   \* next step of the server thread
    stop,     \* stop_
    listener, \* server_fd_: "invalid", "open" or "listening"
    waiting,  \* connections that are not accepted yet
    current,  \* the connection that is served, or None
    succeeded,\* listen_success
    main,     \* next step of the main thread
    late,     \* the 3 seconds for the probes are over (of no use after them)
    answer,   \* status of the answer that the main thread's client has received, or None
    checks,   \* requests of the self test that are left
    outcome,  \* what run_server is going to return, once it is known
    exit,     \* how the process ended, or None
    answered, \* history: whose server has answered the main thread
    bound,    \* history: this process has had the port
    early     \* history: stop_ was set before listen() cleared it

thread == <<server, stop, listener, waiting, current, succeeded, bound>>
control == <<main, answer, checks, outcome, answered, early>>
httpVars == <<mode, other, late, exit, thread, control>>

HttpInit ==
    /\ mode \in {"serve", "smoke", "self_test"}
    /\ other \in BOOLEAN
    /\ server = "start"
    /\ stop = FALSE
    /\ listener = "invalid"
    /\ waiting = {}
    /\ current = None
    /\ succeeded = FALSE
    /\ main = "probe"
    /\ late = FALSE
    /\ answer = None
    /\ checks = Checks
    /\ outcome = None
    /\ exit = None
    /\ answered = {}
    /\ bound = FALSE
    /\ early = FALSE

-----------------------------------------------------------------------------
(* The server thread: Server::listen.                                      *)

At(step) == exit = None /\ server = step

ClearStop ==
    /\ At("start")
    /\ stop' = FALSE
    /\ server' = "socket"
    /\ UNCHANGED <<listener, waiting, current, succeeded, bound>>

OpenSocket ==
    /\ At("socket")
    /\ listener' = "open"
    /\ server' = "bind"
    /\ UNCHANGED <<stop, waiting, current, succeeded, bound>>

\* Mutant: SO_REUSEADDR lets the port be shared, as it does on Windows.
BindShared ==
    /\ At("bind")
    /\ listener = "open"
    /\ listener' = "listening"
    /\ bound' = TRUE
    /\ server' = "loop"
    /\ UNCHANGED <<stop, waiting, current, succeeded>>

Bind ==
    /\ At("bind")
    /\ ~other
    /\ listener = "open"
    /\ listener' = "listening"
    /\ bound' = TRUE
    /\ server' = "loop"
    /\ UNCHANGED <<stop, waiting, current, succeeded>>

\* The port is taken, or stop() has closed the socket. The socket is not closed here.
BindFails ==
    /\ At("bind")
    /\ other \/ listener = "invalid"
    /\ server' = "returned"
    /\ UNCHANGED <<stop, listener, waiting, current, succeeded, bound>>

LoopTest ==
    /\ At("loop")
    /\ server' = IF stop THEN "close" ELSE "select"
    /\ UNCHANGED <<stop, listener, waiting, current, succeeded, bound>>

\* Mutant: the wait is repeated without a look at stop_.
SelectTimesOutAgain ==
    /\ At("select")
    /\ waiting = {}
    /\ UNCHANGED thread

\* After one second, or because stop() has closed the socket.
SelectTimesOut ==
    /\ At("select")
    /\ waiting = {}
    /\ server' = "loop"
    /\ UNCHANGED <<stop, listener, waiting, current, succeeded, bound>>

\* recv_http_message and parse_request: all of a request arrives. An idle client is
\* waited for without a limit.
Accept(c) ==
    /\ At("select")
    /\ c \in waiting
    /\ waiting' = waiting \ {c}
    /\ current' = c
    /\ server' = IF c \in Idle THEN "recv" ELSE "serve"
    /\ UNCHANGED <<stop, listener, succeeded, bound>>

\* The handler ran, the answer is sent and the connection closed.
Served ==
    /\ At("serve")
    /\ current' = None
    /\ server' = "loop"
    /\ UNCHANGED <<stop, listener, waiting, succeeded, bound>>

CloseListener ==
    /\ At("close")
    /\ listener' = "invalid"
    /\ waiting' = {}
    /\ succeeded' = TRUE
    /\ server' = "returned"
    /\ UNCHANGED <<stop, current, bound>>

Listen ==
    /\ \/ ClearStop \/ OpenSocket \/ Bind \/ BindFails
       \/ LoopTest \/ SelectTimesOut \/ (\E c \in waiting : Accept(c))
       \/ CloseListener
    /\ UNCHANGED <<mode, other, late, exit, control>>

\* A request of the main thread: /health is always answered with 200, what the self
\* test asks may be answered otherwise.
ServeMain ==
    /\ current = Main
    /\ Served
    /\ answer' \in (IF main = "checking" THEN {"ok", "bad"} ELSE {"ok"})
    /\ UNCHANGED <<mode, other, late, exit, main, checks, outcome, answered, early>>

\* std::terminate and abort() end the process with SIGABRT.
Aborted == 134

Die ==
    /\ exit' = Aborted
    /\ main' = "ended"
    /\ UNCHANGED <<mode, other, late, thread, answer, checks, outcome, answered, early>>

\* Nobody catches what a handler throws: the process ends.
HandlerThrows == At("serve") /\ Die

\* FD_SET with a socket that stop() has set to the invalid one is undefined: it does
\* nothing (SelectTimesOut), or the library's check ends the process.
SelectAborts == At("select") /\ listener = "invalid" /\ Die

-----------------------------------------------------------------------------
(* The main thread: run_server.                                            *)

Doing(step) == exit = None /\ main = step

Connect(next) ==
    /\ listener = "listening"
    /\ waiting' = waiting \cup {Main}
    /\ main' = next
    /\ UNCHANGED <<server, stop, listener, current, succeeded, bound, answer, checks, outcome, answered, early>>

\* wait_for_server_ready. A refused connection is followed by the next probe.
Probe == Doing("probe") /\ ~late /\ Connect("probing") /\ UNCHANGED late

ProbeOther ==
    /\ Doing("probe")
    /\ ~late
    /\ other
    /\ answered' = answered \cup {"other"}
    /\ main' = "ready"
    /\ UNCHANGED <<late, thread, answer, checks, outcome, early>>

ProbeAnswered ==
    /\ Doing("probing")
    /\ answer # None
    /\ answer' = None
    /\ late' = FALSE
    /\ answered' = answered \cup {"own"}
    /\ main' = "ready"
    /\ UNCHANGED <<thread, checks, outcome, early>>

Decide(result) ==
    /\ outcome' = result
    /\ main' = "stop"
    /\ UNCHANGED <<thread, checks, answered, early>>

GiveUp == Doing("probe") /\ late /\ Decide(2) /\ UNCHANGED <<late, answer>>

\* "Listening on": serve waits for the thread, the self test begins.
Ready ==
    /\ Doing("ready")
    /\ mode # "smoke"
    /\ main' = IF mode = "serve" THEN "join" ELSE "check"
    /\ UNCHANGED <<thread, answer, checks, outcome, answered, early>>

\* SMOKE_OK is printed.
SmokeOk == Doing("ready") /\ mode = "smoke" /\ Decide(0) /\ UNCHANGED answer

Check == Doing("check") /\ checks > 0 /\ Connect("checking")

\* The other process answers, one way or the other.
CheckOther ==
    /\ Doing("check")
    /\ checks > 0
    /\ other
    /\ answered' = answered \cup {"other"}
    /\ checks' = checks - 1
    /\ UNCHANGED <<thread, main, answer, outcome, early>>

\* No connection, or an answer that the test does not accept: run_self_test throws.
CheckFails ==
    /\ \/ Doing("check") /\ checks > 0 /\ listener # "listening"
       \/ Doing("checking") /\ answer = "bad"
    /\ answer' = None
    /\ Decide(1)

CheckPasses ==
    /\ Doing("checking")
    /\ answer = "ok"
    /\ answer' = None
    /\ answered' = answered \cup {"own"}
    /\ checks' = checks - 1
    /\ main' = "check"
    /\ UNCHANGED <<thread, outcome, early>>

SelfTestOk == Doing("check") /\ checks = 0 /\ Decide(0) /\ UNCHANGED answer

\* Server::stop sets the flag,
StopFlag ==
    /\ Doing("stop")
    /\ stop' = TRUE
    /\ early' = (server = "start")
    /\ main' = "close"
    /\ UNCHANGED <<server, listener, waiting, current, succeeded, bound, answer, checks, outcome, answered>>

\* and then closes the socket. That the thread may be closing it too has no effect.
StopClose ==
    /\ Doing("close")
    /\ listener' = "invalid"
    /\ waiting' = {}
    /\ main' = "join"
    /\ UNCHANGED <<server, stop, current, succeeded, bound, answer, checks, outcome, answered, early>>

Run ==
    /\ \/ Probe \/ ProbeOther \/ ProbeAnswered \/ GiveUp
       \/ /\ \/ Ready \/ SmokeOk
             \/ Check \/ CheckOther \/ CheckFails \/ CheckPasses \/ SelfTestOk
             \/ StopFlag \/ StopClose
          /\ UNCHANGED late
    /\ UNCHANGED <<mode, other, exit>>

\* Mutant: the result of listen() is not looked at.
JoinUnchecked ==
    /\ Doing("join")
    /\ server = "returned"
    /\ main' = "ended"
    /\ exit' = IF outcome # None THEN outcome ELSE 0
    /\ UNCHANGED <<mode, other, late, thread, answer, checks, outcome, answered, early>>

Join ==
    /\ Doing("join")
    /\ server = "returned"
    /\ main' = "ended"
    /\ exit' = IF outcome # None THEN outcome ELSE IF succeeded THEN 0 ELSE 3
    /\ UNCHANGED <<mode, other, late, thread, answer, checks, outcome, answered, early>>

-----------------------------------------------------------------------------
(* The surroundings.                                                       *)

DeadlinePasses ==
    /\ exit = None
    /\ main \in {"probe", "probing"}
    /\ ~late
    /\ late' = TRUE
    /\ UNCHANGED <<mode, other, exit, thread, control>>

\* The other process takes the port, or leaves it.
OtherChanges ==
    /\ exit = None
    /\ listener # "listening"
    /\ other' = ~other
    /\ UNCHANGED <<mode, late, exit, thread, control>>

IdleConnects(c) ==
    /\ exit = None
    /\ listener = "listening"
    /\ c \notin waiting /\ current # c
    /\ waiting' = waiting \cup {c}
    /\ UNCHANGED <<mode, other, late, exit, server, stop, listener, current, succeeded, bound, control>>

\* recv returns nothing, and the thread goes on.
IdleLeaves(c) ==
    /\ exit = None
    /\ current = c
    /\ current' = None
    /\ server' = "loop"
    /\ UNCHANGED <<mode, other, late, exit, stop, listener, waiting, succeeded, bound, control>>

HttpNext ==
    \/ Listen \/ ServeMain
    \/ current = Main /\ main = "checking" /\ HandlerThrows
    \/ SelectAborts
    \/ Run \/ Join
    \/ DeadlinePasses \/ OtherChanges
    \/ \E c \in Idle : IdleConnects(c) \/ IdleLeaves(c)

-----------------------------------------------------------------------------
(* Properties.                                                             *)

HttpTypeOK ==
    /\ server \in {"start", "socket", "bind", "loop", "select", "recv", "serve", "close", "returned"}
    /\ main \in {"probe", "probing", "ready", "check", "checking", "stop", "close", "join", "ended"}
    /\ listener \in {"invalid", "open", "listening"}
    /\ exit \in {None, 0, 1, 2, 3, Aborted}
    /\ waiting # {} => listener = "listening"
    /\ (current # None) = (server \in {"recv", "serve"})
    /\ main \in {"probing", "checking"} => Main \in waiting \/ current = Main \/ answer # None
    /\ checks \in 0 .. Checks
    /\ listener = "listening" => bound /\ ~other

\* A client that sends nothing holds the thread, for as long as it likes.
Held == server = "recv" /\ current \in Idle

\* The exit status tells what happened. Zero: the server was seen to answer, the process
\* had the port or another process of the program did, and nobody only served. Two: nobody
\* answered within the time. Three: another process answered and kept the port.
ExitIsHonest ==
    /\ exit = 0 => mode # "serve" /\ answered # {} /\ (bound \/ "other" \in answered)
    /\ exit = 2 => answered = {}
    /\ exit = 3 => mode = "serve" /\ answered = {"other"} /\ ~bound

\* A smoke run, a self test, and a server that could not start, come to an end: probes, checks
\* and the stop all return, wherever the server thread is, in listen() before it has bound the
\* port, in select, or in a handler. Two things alone prevent it: a client that sends nothing,
\* for which neither side has a timeout, and a stop that comes before listen() has even
\* cleared the flag.
ShutdownCompletes == (mode # "serve" \/ outcome # None) ~> (main = "ended" \/ Held \/ early)
=============================================================================
