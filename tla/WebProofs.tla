------------------------------- MODULE WebProofs -------------------------------
(***************************************************************************)
(* Theorems about WebClient and the server that serves it, for any texts,  *)
(* clusters, clients, checks and number of fetches.                        *)
(***************************************************************************)
EXTENDS WebClient, TLAPS

-----------------------------------------------------------------------------
(* The two threads of the server process.                                  *)

\* What the server thread has done so far.
ThreadInv ==
    /\ server \in {"start", "socket", "bind"} => ~bound /\ listener # "listening"
    /\ server \in {"loop", "select", "recv", "serve", "close"} => bound
    /\ server = "returned" /\ ~succeeded => ~bound
    /\ server = "close" => stop
    /\ stop => main \in {"close", "join", "ended"}
    /\ stop \/ succeeded => outcome # None
    /\ None \notin waiting

\* What the main thread has seen, and what it makes of it.
MainInv ==
    /\ mode \in {"serve", "smoke", "self_test"}
    /\ answered \subseteq {"own", "other"}
    /\ answer \in {None, "ok", "bad"}
    /\ answer # None \/ "own" \in answered => bound
    /\ outcome \in {None, 0, 1, 2}
    /\ main \in {"probe", "probing"} => answered = {}
    /\ main \in {"ready", "check", "checking"} => answered # {}
    /\ main \in {"check", "checking"} => mode = "self_test"
    /\ main = "checking" => checks > 0
    /\ main \in {"probe", "probing", "ready", "check", "checking"} => outcome = None
    /\ main \in {"stop", "close"} => outcome # None
    /\ main = "join" /\ outcome = None => mode = "serve" /\ answered # {}
    /\ outcome = 0 => mode # "serve" /\ answered # {}
    /\ outcome = 1 => mode = "self_test"
    /\ outcome = 2 => answered = {}

HttpInv == HttpTypeOK /\ ThreadInv /\ MainInv /\ ExitIsHonest

LEMMA InitHttpInv == HttpInit => HttpInv
BY HttpServerAssumption
   DEF HttpInit, HttpInv, HttpTypeOK, ThreadInv, MainInv, ExitIsHonest

LEMMA ListenHttpInv == HttpInv /\ Listen => HttpInv'
<1> SUFFICES ASSUME HttpInv, Listen PROVE HttpInv'
  OBVIOUS
<1> USE HttpServerAssumption
<1>0. UNCHANGED <<mode, other, late, exit, main, answer, checks, outcome, answered, early>>
      /\ exit = None
  BY DEF Listen, control, ClearStop, OpenSocket, Bind, BindFails, LoopTest, SelectTimesOut,
     Accept, CloseListener, At
<1>1. CASE ClearStop \/ OpenSocket \/ BindFails
  BY <1>0, <1>1 DEF ClearStop, OpenSocket, BindFails, At, HttpInv, HttpTypeOK, ThreadInv, MainInv, ExitIsHonest
<1>2. CASE Bind \/ LoopTest \/ SelectTimesOut
  BY <1>0, <1>2 DEF Bind, LoopTest, SelectTimesOut, At, HttpInv, HttpTypeOK, ThreadInv, MainInv, ExitIsHonest
<1>3. CASE \E c \in waiting : Accept(c)
  BY <1>0, <1>3 DEF Accept, At, HttpInv, HttpTypeOK, ThreadInv, MainInv, ExitIsHonest
<1>4. CASE CloseListener
  BY <1>0, <1>4 DEF CloseListener, At, HttpInv, HttpTypeOK, ThreadInv, MainInv, ExitIsHonest
<1> QED BY <1>1, <1>2, <1>3, <1>4 DEF Listen

\* An answer to the main thread, or to a page, which it does not see.
LEMMA ServedHttpInv ==
    ASSUME HttpInv, Served,
           UNCHANGED <<mode, other, late, exit, main, checks, outcome, answered, early>>,
           \/ current = Main /\ answer' \in {"ok", "bad"}
           \/ current # Main /\ answer' = answer
    PROVE  HttpInv'
BY HttpServerAssumption
   DEF Served, At, HttpInv, HttpTypeOK, ThreadInv, MainInv, ExitIsHonest

LEMMA DieHttpInv ==
    ASSUME HttpInv, Die
    PROVE  HttpInv'
<1>1. Aborted = 134
  BY DEF Aborted
<1> QED BY <1>1, HttpServerAssumption
   DEF Die, thread, HttpInv, HttpTypeOK, ThreadInv, MainInv, ExitIsHonest

LEMMA RunHttpInv == HttpInv /\ Run => HttpInv'
<1> SUFFICES ASSUME HttpInv, Run PROVE HttpInv'
  OBVIOUS
<1> USE HttpServerAssumption
<1>0. UNCHANGED <<mode, other, exit>>
  BY DEF Run
<1>1. CASE Probe \/ Check
  <2>1. HttpTypeOK'
    BY <1>0, <1>1 DEF Probe, Check, Connect, Doing, HttpInv, HttpTypeOK, ThreadInv, MainInv
  <2>2. ThreadInv'
    BY <1>0, <1>1 DEF Probe, Check, Connect, Doing, HttpInv, ThreadInv, MainInv, HttpTypeOK
  <2>3. MainInv'
    BY <1>0, <1>1 DEF Probe, Check, Connect, Doing, HttpInv, MainInv, ThreadInv, HttpTypeOK
  <2>4. ExitIsHonest'
    BY <1>0, <1>1 DEF Probe, Check, Connect, Doing, HttpInv, ExitIsHonest
  <2> QED BY <2>1, <2>2, <2>3, <2>4 DEF HttpInv
<1>2. CASE ProbeOther \/ ProbeAnswered
  <2>1. HttpTypeOK'
    BY <1>0, <1>2 DEF ProbeOther, ProbeAnswered, thread, Doing, HttpInv, HttpTypeOK, ThreadInv, MainInv
  <2>2. ThreadInv'
    BY <1>0, <1>2 DEF ProbeOther, ProbeAnswered, thread, Doing, HttpInv, ThreadInv, MainInv, HttpTypeOK
  <2>3. MainInv'
    <3>1. CASE ProbeOther
      BY <1>0, <3>1 DEF ProbeOther, thread, Doing, HttpInv, MainInv
    <3>2. CASE ProbeAnswered
      BY <1>0, <3>2 DEF ProbeAnswered, thread, Doing, HttpInv, MainInv
    <3> QED BY <1>2, <3>1, <3>2
  <2>4. ExitIsHonest'
    BY <1>0, <1>2 DEF ProbeOther, ProbeAnswered, thread, Doing, HttpInv, ExitIsHonest
  <2> QED BY <2>1, <2>2, <2>3, <2>4 DEF HttpInv
<1>3. CASE GiveUp \/ SmokeOk
  <2>1. HttpTypeOK'
    BY <1>0, <1>3 DEF GiveUp, SmokeOk, Decide, thread, Doing, HttpInv, HttpTypeOK, ThreadInv, MainInv
  <2>2. ThreadInv'
    BY <1>0, <1>3 DEF GiveUp, SmokeOk, Decide, thread, Doing, HttpInv, ThreadInv, MainInv, HttpTypeOK
  <2>3. MainInv'
    <3>1. CASE GiveUp
      BY <1>0, <3>1 DEF GiveUp, Decide, thread, Doing, HttpInv, MainInv
    <3>2. CASE SmokeOk
      BY <1>0, <3>2 DEF SmokeOk, Decide, thread, Doing, HttpInv, MainInv
    <3> QED BY <1>3, <3>1, <3>2
  <2>4. ExitIsHonest'
    BY <1>0, <1>3 DEF GiveUp, SmokeOk, Decide, thread, Doing, HttpInv, ExitIsHonest
  <2> QED BY <2>1, <2>2, <2>3, <2>4 DEF HttpInv
<1>4. CASE CheckFails \/ SelfTestOk
  <2>1. HttpTypeOK'
    BY <1>0, <1>4 DEF CheckFails, SelfTestOk, Decide, thread, Doing, HttpInv, HttpTypeOK, ThreadInv, MainInv
  <2>2. ThreadInv'
    BY <1>0, <1>4 DEF CheckFails, SelfTestOk, Decide, thread, Doing, HttpInv, ThreadInv, MainInv, HttpTypeOK
  <2>3. MainInv'
    <3>1. CASE CheckFails
      BY <1>0, <3>1 DEF CheckFails, Decide, thread, Doing, HttpInv, MainInv
    <3>2. CASE SelfTestOk
      BY <1>0, <3>2 DEF SelfTestOk, Decide, thread, Doing, HttpInv, MainInv
    <3> QED BY <1>4, <3>1, <3>2
  <2>4. ExitIsHonest'
    BY <1>0, <1>4 DEF CheckFails, SelfTestOk, Decide, thread, Doing, HttpInv, ExitIsHonest
  <2> QED BY <2>1, <2>2, <2>3, <2>4 DEF HttpInv
<1>5. CASE Ready
  <2>1. HttpTypeOK'
    BY <1>0, <1>5 DEF Ready, thread, Doing, HttpInv, HttpTypeOK, ThreadInv, MainInv
  <2>2. ThreadInv'
    BY <1>0, <1>5 DEF Ready, thread, Doing, HttpInv, ThreadInv, MainInv, HttpTypeOK
  <2>3. MainInv'
    BY <1>0, <1>5 DEF Ready, thread, Doing, HttpInv, MainInv, ThreadInv, HttpTypeOK
  <2>4. ExitIsHonest'
    BY <1>0, <1>5 DEF Ready, thread, Doing, HttpInv, ExitIsHonest
  <2> QED BY <2>1, <2>2, <2>3, <2>4 DEF HttpInv
<1>6. CASE CheckOther \/ CheckPasses
  <2>1. HttpTypeOK'
    <3>1. checks' = checks - 1 /\ main' = "check" /\ (checks > 0 \/ main = "checking")
      BY <1>6 DEF CheckOther, CheckPasses, Doing
    <3>2. checks > 0
      BY <3>1 DEF HttpInv, MainInv
    <3>3. checks' \in 0 .. Checks
      BY <3>1, <3>2 DEF HttpInv, HttpTypeOK
    <3> QED BY <1>0, <1>6, <3>1, <3>3 DEF CheckOther, CheckPasses, thread, Doing, HttpInv, HttpTypeOK
  <2>2. ThreadInv'
    BY <1>0, <1>6 DEF CheckOther, CheckPasses, thread, Doing, HttpInv, ThreadInv, MainInv, HttpTypeOK
  <2>3. MainInv'
    BY <1>0, <1>6 DEF CheckOther, CheckPasses, thread, Doing, HttpInv, MainInv, ThreadInv, HttpTypeOK
  <2>4. ExitIsHonest'
    BY <1>0, <1>6 DEF CheckOther, CheckPasses, thread, Doing, HttpInv, ExitIsHonest
  <2> QED BY <2>1, <2>2, <2>3, <2>4 DEF HttpInv
<1>7. CASE StopFlag \/ StopClose
  <2>1. HttpTypeOK'
    BY <1>0, <1>7 DEF StopFlag, StopClose, Doing, HttpInv, HttpTypeOK, ThreadInv, MainInv
  <2>2. ThreadInv'
    BY <1>0, <1>7 DEF StopFlag, StopClose, Doing, HttpInv, ThreadInv, MainInv, HttpTypeOK
  <2>3. MainInv'
    BY <1>0, <1>7 DEF StopFlag, StopClose, Doing, HttpInv, MainInv, ThreadInv, HttpTypeOK
  <2>4. ExitIsHonest'
    BY <1>0, <1>7 DEF StopFlag, StopClose, Doing, HttpInv, ExitIsHonest
  <2> QED BY <2>1, <2>2, <2>3, <2>4 DEF HttpInv
<1> QED BY <1>1, <1>2, <1>3, <1>4, <1>5, <1>6, <1>7 DEF Run

LEMMA JoinHttpInv == HttpInv /\ Join => HttpInv'
<1> SUFFICES ASSUME HttpInv, Join PROVE HttpInv'
  OBVIOUS
<1> USE HttpServerAssumption
<1>1. HttpTypeOK'
  BY DEF Join, Doing, thread, HttpInv, HttpTypeOK, ThreadInv, MainInv
<1>2. ThreadInv'
  BY DEF Join, Doing, thread, HttpInv, ThreadInv, MainInv, HttpTypeOK
<1>3. MainInv'
  BY DEF Join, Doing, thread, HttpInv, MainInv, ThreadInv, HttpTypeOK
<1>4. ExitIsHonest'
  <2>1. /\ main = "join" /\ server = "returned"
        /\ exit' = (IF outcome # None THEN outcome ELSE IF succeeded THEN 0 ELSE 3)
        /\ UNCHANGED <<mode, answered, bound>>
    BY DEF Join, Doing, thread
  <2>2. CASE outcome # None
    <3>1. exit' = outcome /\ outcome \in {0, 1, 2}
      BY <2>1, <2>2 DEF HttpInv, MainInv
    <3>2. /\ outcome = 0 => mode # "serve" /\ answered # {}
          /\ outcome = 2 => answered = {}
          /\ bound \/ "other" \in answered \/ answered = {}
      BY DEF HttpInv, MainInv
    <3> QED BY <2>1, <3>1, <3>2 DEF ExitIsHonest
  <2>3. CASE outcome = None
    <3>1. ~succeeded /\ exit' = 3
      BY <2>1, <2>3 DEF HttpInv, ThreadInv
    <3>2. ~bound /\ mode = "serve" /\ answered = {"other"}
      BY <2>1, <2>3, <3>1 DEF HttpInv, ThreadInv, MainInv
    <3> QED BY <2>1, <3>1, <3>2 DEF ExitIsHonest
  <2> QED BY <2>2, <2>3
<1> QED BY <1>1, <1>2, <1>3, <1>4 DEF HttpInv

LEMMA SurroundingsHttpInv ==
    ASSUME HttpInv,
           DeadlinePasses \/ OtherChanges \/ \E c \in Idle : IdleConnects(c) \/ IdleLeaves(c)
    PROVE  HttpInv'
<1>1. UNCHANGED <<mode, exit, stop, listener, succeeded, bound, control>>
  BY DEF DeadlinePasses, OtherChanges, IdleConnects, IdleLeaves, thread
<1>2. HttpTypeOK'
  <2>1. CASE DeadlinePasses \/ OtherChanges
    BY <1>1, <2>1 DEF DeadlinePasses, OtherChanges, thread, control, HttpInv, HttpTypeOK
  <2>2. CASE \E c \in Idle : IdleConnects(c)
    BY <1>1, <2>2 DEF IdleConnects, control, HttpInv, HttpTypeOK
  <2>3. CASE \E c \in Idle : IdleLeaves(c)
    BY <1>1, <2>3, HttpServerAssumption DEF IdleLeaves, control, HttpInv, HttpTypeOK
  <2> QED BY <2>1, <2>2, <2>3
<1>3. ThreadInv'
  <2>1. CASE DeadlinePasses \/ OtherChanges
    BY <1>1, <2>1 DEF DeadlinePasses, OtherChanges, thread, control, HttpInv, ThreadInv
  <2>2. CASE \E c \in Idle : IdleConnects(c) \/ IdleLeaves(c)
    BY <1>1, <2>2, HttpServerAssumption
       DEF IdleConnects, IdleLeaves, control, HttpInv, HttpTypeOK, ThreadInv
  <2> QED BY <2>1, <2>2
<1>4. MainInv' /\ ExitIsHonest'
  BY <1>1 DEF control, HttpInv, MainInv, ExitIsHonest
<1> QED BY <1>2, <1>3, <1>4 DEF HttpInv

LEMMA NextHttpInv == HttpInv /\ HttpNext => HttpInv'
<1> SUFFICES ASSUME HttpInv, HttpNext PROVE HttpInv'
  OBVIOUS
<1>1. CASE ServeMain
  BY <1>1, ServedHttpInv DEF ServeMain
<1>2. CASE (current = Main /\ main = "checking" /\ HandlerThrows) \/ SelectAborts
  BY <1>2, DieHttpInv DEF HandlerThrows, SelectAborts
<1> QED BY <1>1, <1>2, ListenHttpInv, RunHttpInv, JoinHttpInv, SurroundingsHttpInv DEF HttpNext

-----------------------------------------------------------------------------
(* The fetches of the page.                                                *)

\* What the server has not answered yet.
Outstanding == Fetches(waiting \cup {current})

Response ==
    [to : Fetch, ok : BOOLEAN, closest : Cluster \cup {None}, alternates : SUBSET Cluster,
     hit : Cluster \cup {None}, revision : Nat \cup {None}]

KindsOf(p) ==
    IF p = "index" THEN {"resolve", "adjudicate", "bootstrap"}
    ELSE {"state", "step", "reset", "update", "reload"}

\* A page is open while the server serves and does nothing else.
Serving ==
    mode = "serve" /\ outcome = None /\ main \in {"join", "ended"} /\ listener = "listening"

FetchInv ==
    /\ sent \in Nat /\ page \in Pages
    /\ sent > 0 => Serving
    /\ Outstanding \subseteq Fetch
    /\ answers \subseteq Response
    /\ current \in Outstanding => current \notin waiting
    /\ \A f \in InFlight : f.id \in 1 .. sent /\ f.kind \in KindsOf(page)
    /\ \A f, g \in InFlight : f.id = g.id => f = g

PageTypes ==
    /\ revision \in Nat /\ mode_domain \in Domain
    /\ lastSearch \in (Text \X Domain) \cup {NoSearch}
    /\ recognized = None \/ recognized.alternates \subseteq Cluster
    /\ chosen \in Cluster \cup {None} /\ offered \subseteq Cluster
    /\ queue \subseteq {lastSearch}
    /\ shown \in (0 .. revision) \cup {None} /\ selection \in Entity \cup {None}
    /\ selection # None => shown # None
    /\ \A a \in answers : /\ a.revision \in (0 .. revision) \cup {None}
                          /\ page = "sandbox" => a.revision \in 0 .. revision

LEMMA InFlightIs == InFlight = Outstanding \cup {a.to : a \in answers}
BY DEF InFlight, Outstanding

LEMMA OutstandingIs ==
    \A f : f \in Outstanding <=> (f \in waiting \/ f = current) /\ f \notin Idle \cup {Main, None}
BY DEF Outstanding, Fetches

\* The server alone changes nothing about the fetches.
LEMMA HttpKeepsFetches ==
    ASSUME HttpInv, FetchInv, HttpNext, UNCHANGED pageVars
    PROVE  /\ Outstanding' = Outstanding
           /\ current' \in Outstanding' => current' \notin waiting'
           /\ sent > 0 => Serving'
<1> USE HttpServerAssumption
<1>1. \A f : f \in Outstanding' <=>
               (f \in waiting' \/ f = current') /\ f \notin Idle \cup {Main, None}
  BY DEF Outstanding, Fetches
<1>2. sent = 0 => Outstanding = {}
  BY InFlightIs DEF FetchInv
<1>3. sent \in Nat /\ (sent > 0 => Serving /\ ~stop /\ server # "close" /\ server \notin {"socket", "bind"})
  BY DEF FetchInv, Serving, HttpInv, ThreadInv
<1>4. CASE Listen
  <2>1. UNCHANGED <<mode, main, outcome>>
    BY <1>4 DEF Listen, control
  <2>2. CASE ClearStop \/ LoopTest \/ SelectTimesOut \/ BindFails
    <3>1. UNCHANGED <<waiting, current, listener>>
      BY <2>2 DEF ClearStop, LoopTest, SelectTimesOut, BindFails
    <3> QED BY <1>1, <1>3, <2>1, <3>1, OutstandingIs DEF FetchInv, Serving
  <2>3. CASE OpenSocket \/ Bind
    <3>1. sent = 0 /\ UNCHANGED <<waiting, current>>
      BY <1>3, <2>3 DEF OpenSocket, Bind, At
    <3> QED BY <1>1, <3>1, OutstandingIs DEF FetchInv
  <2>4. CASE \E c \in waiting : Accept(c)
    <3>1. PICK c \in waiting : Accept(c)
      BY <2>4
    <3>2. current = None
      BY <3>1 DEF Accept, At, HttpInv, HttpTypeOK
    <3> QED BY <1>1, <1>3, <2>1, <3>1, <3>2, OutstandingIs DEF Accept, Serving
  <2>5. CASE CloseListener
    <3>1. sent = 0 /\ waiting' = {} /\ UNCHANGED current
      BY <1>3, <2>5 DEF CloseListener, At
    <3> QED BY <1>1, <1>2, <3>1, OutstandingIs
  <2> QED BY <1>4, <2>2, <2>3, <2>4, <2>5 DEF Listen
<1>5. CASE ServeMain
  BY <1>1, <1>3, <1>5, OutstandingIs DEF ServeMain, Served, Serving, FetchInv
<1>6. CASE (current = Main /\ main = "checking" /\ HandlerThrows) \/ SelectAborts \/ Join
  <2>1. UNCHANGED <<waiting, current, listener, mode, outcome>> /\ main' = "ended"
    BY <1>6 DEF HandlerThrows, SelectAborts, Die, Join, thread
  <2> QED BY <1>1, <1>3, <2>1, OutstandingIs DEF FetchInv, Serving
<1>7. CASE Run
  <2>1. sent = 0 \/ ~(Doing("probe") \/ Doing("probing") \/ Doing("ready") \/ Doing("check")
                     \/ Doing("checking") \/ Doing("stop") \/ Doing("close"))
    BY <1>3 DEF Serving, Doing
  <2>2. sent = 0
    BY <1>7, <2>1 DEF Run, Probe, ProbeOther, ProbeAnswered, GiveUp, Ready, SmokeOk, Check,
       CheckOther, CheckFails, CheckPasses, SelfTestOk, StopFlag, StopClose
  <2>3. UNCHANGED current /\ waiting' \subseteq waiting \cup {Main}
    BY <1>7 DEF Run, Probe, ProbeOther, ProbeAnswered, GiveUp, Ready, SmokeOk, Check,
       CheckOther, CheckFails, CheckPasses, SelfTestOk, StopFlag, StopClose, Connect, Decide, thread
  <2> QED BY <1>1, <1>2, <2>2, <2>3, OutstandingIs
<1>8. CASE DeadlinePasses \/ OtherChanges
  BY <1>1, <1>3, <1>8, OutstandingIs DEF DeadlinePasses, OtherChanges, thread, control, Serving, FetchInv
<1>9. CASE \E c \in Idle : IdleConnects(c) \/ IdleLeaves(c)
  BY <1>1, <1>3, <1>9, OutstandingIs DEF IdleConnects, IdleLeaves, control, Serving, FetchInv
<1> QED BY <1>4, <1>5, <1>6, <1>7, <1>8, <1>9 DEF HttpNext

\* The server alone.
LEMMA HttpFetchInv ==
    ASSUME HttpInv, FetchInv, HttpNext, UNCHANGED pageVars
    PROVE  FetchInv' /\ InFlight' = InFlight
<1>1. UNCHANGED <<sent, page, answers>>
  BY DEF pageVars, net
<1>2. InFlight' = InFlight
  BY <1>1, HttpKeepsFetches DEF InFlight, Outstanding
<1> QED BY <1>1, <1>2, HttpKeepsFetches DEF FetchInv

-----------------------------------------------------------------------------
(* An answer to a fetch.                                                   *)

AnswerEffect(r) ==
    /\ r \in Response /\ r.to = current
    /\ Answer(r)
    /\ revision' \in {revision, revision + 1}
    /\ page = "index" => r.revision = None
    /\ page = "sandbox" => r.revision = revision'
    /\ page = "index" => revision' = revision

LEMMA ServeFetchEffect ==
    ASSUME FetchInv, PageTypes, ServeFetch
    PROVE  \/ \E r : AnswerEffect(r)
           \/ Die /\ UNCHANGED pageVars
<1>1. current \in Outstanding /\ current \in Fetch /\ current.kind \in KindsOf(page)
  BY InFlightIs DEF ServeFetch, Outstanding, Fetches, FetchInv
<1>2. ASSUME NEW ok \in BOOLEAN, NEW closest \in Cluster \cup {None}, NEW alternates \in SUBSET Cluster,
             NEW hit \in Cluster \cup {None}
      PROVE  /\ Reply(ok, closest, alternates, hit) \in Response
             /\ Reply(ok, closest, alternates, hit).to = current
             /\ Reply(ok, closest, alternates, hit).revision = None
  BY <1>1 DEF Reply, Response
<1>3. ASSUME NEW ok \in BOOLEAN
      PROVE  /\ Reply(ok, None, {}, None) \in Response
             /\ Reply(ok, None, {}, None).to = current
             /\ Reply(ok, None, {}, None).revision = None
  <2>1. None \in Cluster \cup {None} /\ {} \in SUBSET Cluster
    OBVIOUS
  <2> QED BY <1>2, <2>1
<1>4. CASE ServeGuess
  <2>1. page = "index" /\ revision' = revision
    BY <1>1, <1>4 DEF ServeGuess, KindsOf
  <2>2. CASE \E closest, hit \in Cluster \cup {None} : \E alternates \in SUBSET (Cluster \ {closest}) :
                Answer(Reply(TRUE, closest, alternates, hit))
    <3>1. PICK closest \in Cluster \cup {None}, hit \in Cluster \cup {None},
               alternates \in SUBSET Cluster :
                  Answer(Reply(TRUE, closest, alternates, hit))
      BY <2>2
    <3>2. AnswerEffect(Reply(TRUE, closest, alternates, hit))
      BY <1>2, <2>1, <3>1 DEF AnswerEffect
    <3> QED BY <3>2
  <2>3. CASE Answer(Reply(FALSE, None, {}, None))
    <3>1. AnswerEffect(Reply(FALSE, None, {}, None))
      BY <1>3, <2>1, <2>3 DEF AnswerEffect
    <3> QED BY <3>1
  <2> QED BY <1>4, <2>2, <2>3 DEF ServeGuess
<1>5. CASE ServeFunnel
  <2>1. page = "index" /\ revision' = revision
    BY <1>1, <1>5 DEF ServeFunnel, KindsOf
  <2>2. PICK ok \in BOOLEAN : Answer(Reply(ok, None, {}, None))
    BY <1>5 DEF ServeFunnel
  <2> DEFINE r == Reply(ok, None, {}, None)
  <2>3. r \in Response /\ r.to = current /\ r.revision = None
    BY <1>3
  <2>4. Answer(r)
    BY <2>2
  <2> HIDE DEF r
  <2>5. AnswerEffect(r)
    BY <2>1, <2>3, <2>4 DEF AnswerEffect
  <2> QED BY <2>5
<1>6. CASE ServeSandbox
  <2>1. page = "sandbox" /\ revision' \in {revision, revision + 1}
    BY <1>1, <1>6 DEF ServeSandbox, KindsOf, FetchInv, Pages
  <2>2. PICK n \in Nat : n = revision'
    BY <2>1 DEF PageTypes
  <2> DEFINE r == [Reply(TRUE, None, {}, None) EXCEPT !.revision = n]
  <2>3. r \in Response /\ r.to = current /\ r.revision = n
    BY <1>1, <2>2 DEF Reply, Response
  <2>4. Answer(r)
    BY <1>6, <2>2 DEF ServeSandbox
  <2> HIDE DEF r
  <2>5. AnswerEffect(r)
    BY <2>1, <2>2, <2>3, <2>4 DEF AnswerEffect
  <2> QED BY <2>5
<1> QED BY <1>4, <1>5, <1>6 DEF ServeFetch, HandlerThrows

\* The fetch that is answered leaves the server and travels back to the page.
LEMMA AnsweredFetches ==
    ASSUME HttpInv, FetchInv, current \in Outstanding, NEW r, r \in Response, r.to = current, Answer(r)
    PROVE  /\ Outstanding' = Outstanding \ {current}
           /\ InFlight' = InFlight
           /\ answers' = answers \cup {r}
           /\ FetchInv' /\ HttpInv'
<1>1. /\ waiting' = waiting /\ current' = None /\ answers' = answers \cup {r}
      /\ UNCHANGED <<mode, outcome, main, listener, page, sent>>
  BY DEF Answer, Served, control
<1>2. \A f : f \in Outstanding' <=>
               (f \in waiting' \/ f = current') /\ f \notin Idle \cup {Main, None}
  BY DEF Outstanding, Fetches
<1>3. Outstanding' = Outstanding \ {current}
  BY <1>1, <1>2, OutstandingIs DEF FetchInv
<1>4. InFlight' = Outstanding' \cup {a.to : a \in answers'}
  BY DEF InFlight, Outstanding
<1>5. InFlight' = InFlight
  BY <1>1, <1>3, <1>4, InFlightIs
<1>6. current' \notin Outstanding'
  BY <1>1, <1>2
<1>7. FetchInv'
  BY <1>1, <1>3, <1>5, <1>6 DEF FetchInv, Serving
<1>8. HttpInv'
  <2>1. current # Main
    BY OutstandingIs
  <2> QED BY <2>1, ServedHttpInv DEF Answer, control
<1> QED BY <1>1, <1>3, <1>5, <1>7, <1>8

LEMMA DiedFetches ==
    ASSUME FetchInv, Die, UNCHANGED pageVars
    PROVE  FetchInv' /\ Outstanding' = Outstanding /\ InFlight' = InFlight
<1>1. UNCHANGED <<waiting, current, listener, mode, outcome, sent, page, answers>> /\ main' = "ended"
  BY DEF Die, thread, pageVars, net
<1>2. Outstanding' = Outstanding /\ InFlight' = InFlight
  BY <1>1 DEF Outstanding, InFlight, Fetches
<1> QED BY <1>1, <1>2 DEF FetchInv, Serving

-----------------------------------------------------------------------------
(* What the page does.                                                     *)

\* A fetch with the next number.
SendEffect(request) ==
    /\ request \in Fetch /\ request.id = sent + 1 /\ request.kind \in KindsOf(page)
    /\ Send(request)

LEMMA SentFetches ==
    ASSUME HttpInv, FetchInv, Serving, NEW request, SendEffect(request)
    PROVE  /\ Outstanding' = Outstanding \cup {request}
           /\ sent' = sent + 1 /\ page' = page /\ revision' = revision
           /\ request \notin InFlight
           /\ Serving' /\ HttpInv'
           /\ current' \in Outstanding' => current' \notin waiting'
<1>1. /\ waiting' = waiting \cup {request} /\ sent' = sent + 1
      /\ UNCHANGED <<mode, other, late, exit, server, stop, listener, current, succeeded, bound, main,
                     answer, checks, outcome, answered, early, page, revision>>
  BY DEF SendEffect, Send, control
<1>2. request \in Fetch /\ request \notin Idle \cup {Main, None} /\ request.id = sent + 1
  BY FetchAssumption DEF SendEffect
<1>3. \A f : f \in Outstanding' <=>
               (f \in waiting' \/ f = current') /\ f \notin Idle \cup {Main, None}
  BY DEF Outstanding, Fetches
<1>4. Outstanding' = Outstanding \cup {request}
  BY <1>1, <1>2, <1>3, OutstandingIs
<1>5. request \notin InFlight
  BY <1>2 DEF FetchInv
<1>6. current' \in Outstanding' => current' \notin waiting'
  <2>1. current # request \/ current \notin Outstanding
    BY <1>5, InFlightIs
  <2>2. current = request => current \in Outstanding
    BY <1>2, OutstandingIs
  <2> QED BY <1>1, <1>4, <2>1, <2>2 DEF FetchInv
<1>7. HttpInv'
  <2>1. HttpTypeOK' /\ ThreadInv'
    BY <1>1, <1>2 DEF Serving, HttpInv, HttpTypeOK, ThreadInv
  <2>2. MainInv' /\ ExitIsHonest'
    BY <1>1 DEF HttpInv, MainInv, ExitIsHonest
  <2> QED BY <2>1, <2>2 DEF HttpInv
<1> QED BY <1>1, <1>4, <1>5, <1>6, <1>7 DEF Serving

LEMMA PostedFetches ==
    ASSUME HttpInv, FetchInv, Serving, NEW request, SendEffect(request), UNCHANGED answers
    PROVE  FetchInv' /\ InFlight' = InFlight \cup {request}
<1>1. InFlight' = Outstanding' \cup {a.to : a \in answers'}
  BY DEF InFlight, Outstanding
<1>2. InFlight' = InFlight \cup {request}
  BY <1>1, SentFetches, InFlightIs
<1>3. \A f \in InFlight' : f.id \in 1 .. sent' /\ f.kind \in KindsOf(page')
  BY <1>2, SentFetches DEF SendEffect, FetchInv
<1>4. \A f, g \in InFlight' : f.id = g.id => f = g
  BY <1>2, SentFetches DEF SendEffect, FetchInv
<1>5. Outstanding' \subseteq Fetch /\ sent' \in Nat
  BY SentFetches DEF SendEffect, FetchInv
<1> QED BY <1>2, <1>3, <1>4, <1>5, SentFetches DEF FetchInv

PostEffect(request) == SendEffect(request) /\ Serving /\ UNCHANGED <<answers, reordered>>

TakeEffect(a) == Take(a) /\ UNCHANGED <<httpVars, page, sent, revision>>

\* An answer is followed up by a fetch.
RelayEffect(a, request) == Take(a) /\ SendEffect(request) /\ Serving

LEMMA TakenFetches ==
    ASSUME HttpInv, FetchInv, NEW a, TakeEffect(a)
    PROVE  /\ Outstanding' = Outstanding /\ answers' = answers \ {a}
           /\ InFlight' \subseteq InFlight
           /\ FetchInv' /\ HttpInv'
<1>1. answers' = answers \ {a} /\ UNCHANGED <<httpVars, page, sent, revision>>
  BY DEF TakeEffect, Take
<1>2. UNCHANGED <<waiting, current, mode, outcome, main, listener>>
  BY <1>1 DEF httpVars, thread, control
<1>3. Outstanding' = Outstanding
  BY <1>2 DEF Outstanding, Fetches
<1>4. InFlight' = Outstanding' \cup {b.to : b \in answers'}
  BY DEF InFlight, Outstanding
<1>5. InFlight' \subseteq InFlight
  BY <1>1, <1>3, <1>4, InFlightIs
<1>6. FetchInv'
  BY <1>1, <1>2, <1>3, <1>5 DEF FetchInv, Serving
<1>7. HttpInv'
  BY <1>1 DEF httpVars, thread, control, HttpInv, HttpTypeOK, ThreadInv, MainInv, ExitIsHonest
<1> QED BY <1>1, <1>3, <1>5, <1>6, <1>7

LEMMA RelayedFetches ==
    ASSUME HttpInv, FetchInv, NEW a, NEW request, RelayEffect(a, request)
    PROVE  /\ Outstanding' = Outstanding \cup {request} /\ answers' = answers \ {a}
           /\ InFlight' \subseteq InFlight \cup {request}
           /\ FetchInv' /\ HttpInv'
<1>1. answers' = answers \ {a} /\ Outstanding' = Outstanding \cup {request}
  BY SentFetches DEF RelayEffect, Take
<1>2. InFlight' = Outstanding' \cup {b.to : b \in answers'}
  BY DEF InFlight, Outstanding
<1>3. InFlight' \subseteq InFlight \cup {request}
  BY <1>1, <1>2, InFlightIs
<1>4. \A f \in InFlight' : f.id \in 1 .. sent' /\ f.kind \in KindsOf(page')
  BY <1>3, SentFetches DEF RelayEffect, SendEffect, FetchInv
<1>5. \A f, g \in InFlight' : f.id = g.id => f = g
  BY <1>3, SentFetches DEF RelayEffect, SendEffect, FetchInv
<1>6. Outstanding' \subseteq Fetch /\ sent' \in Nat /\ answers' \subseteq Response
  BY <1>1, SentFetches DEF RelayEffect, SendEffect, FetchInv
<1>7. FetchInv' /\ HttpInv'
  BY <1>4, <1>5, <1>6, SentFetches DEF RelayEffect, FetchInv
<1> QED BY <1>1, <1>3, <1>7

LEMMA OpenServes ==
    ASSUME HttpInv, NEW p, Open(p)
    PROVE  Serving /\ page = p
BY DEF Open, Serving, HttpInv, MainInv

LEMMA AnswersServe ==
    ASSUME FetchInv, NEW a \in answers
    PROVE  Serving /\ sent > 0 /\ a \in Response /\ a.to \in Fetch /\ a.to.kind \in KindsOf(page)
<1>1. a.to \in InFlight
  BY InFlightIs
<1> QED BY <1>1 DEF FetchInv, Response

LEMMA RequestType ==
    ASSUME FetchInv, NEW kind \in Kinds
    PROVE  /\ Request(kind) \in Fetch /\ Request(kind).id = sent + 1 /\ Request(kind).kind = kind
           /\ ~Request(kind).alone
BY DEF Request, Fetch, FetchInv

LEMMA SearchType ==
    ASSUME PageTypes
    PROVE  /\ lastSearch \in Searches /\ lastSearch[1] \in Text /\ lastSearch[2] \in Domain \cup {None}
           /\ lastSearch = <<lastSearch[1], lastSearch[2]>>
           /\ queue \in SUBSET Searches
BY WebClientAssumption DEF PageTypes, NoSearch, Searches

LEMMA SearchEffect ==
    ASSUME HttpInv, FetchInv, PageTypes, NEW t \in Text, Search(t)
    PROVE  /\ lastSearch' = <<t, mode_domain>> /\ lastSearch' \in Text \X Domain
           /\ \E request : /\ PostEffect(request)
                           /\ request.kind = "resolve" /\ request.search = lastSearch'
<1>1. PICK s : s = <<t, mode_domain>>
  OBVIOUS
<1>2. s \in Text \X Domain /\ s \in Searches /\ lastSearch' = s
  BY <1>1 DEF Search, PageTypes, Searches
<1> DEFINE request == [Request("resolve") EXCEPT !.search = s]
<1>3. Post(request) /\ Open("index")
  BY <1>2 DEF Search
<1>4. request \in Fetch /\ request.id = sent + 1 /\ request.kind = "resolve" /\ request.search = s
  <2>1. "resolve" \in Kinds
    BY DEF Kinds
  <2> QED BY <1>2, <2>1, RequestType DEF Fetch
<1> HIDE DEF request
<1>5. PostEffect(request)
  BY <1>3, <1>4, OpenServes DEF PostEffect, SendEffect, Post, KindsOf
<1> QED BY <1>1, <1>2, <1>4, <1>5

LEMMA AdjudicateEffect ==
    ASSUME HttpInv, FetchInv, PageTypes, NEW t \in Text, Adjudicate(t)
    PROVE  \E request : /\ PostEffect(request)
                        /\ request.kind = "adjudicate" /\ request.cluster = chosen
                        /\ request.synonyms = queue
                        /\ lastSearch[1] # Empty => request.search = lastSearch
<1>1. PICK s : s = <<IF lastSearch[1] = Empty THEN t ELSE lastSearch[1], lastSearch[2]>>
  OBVIOUS
<1>2. s \in Searches /\ (lastSearch[1] # Empty => s = lastSearch)
  BY <1>1, SearchType DEF Searches
<1> DEFINE request == [Request("adjudicate") EXCEPT !.search = s, !.cluster = chosen, !.synonyms = queue]
<1>3. Post(request) /\ Open("index")
  BY <1>1 DEF Adjudicate
<1>4. /\ request \in Fetch /\ request.id = sent + 1 /\ request.kind = "adjudicate"
      /\ request.search = s /\ request.cluster = chosen /\ request.synonyms = queue
  <2>1. PICK r, c, q : r = Request("adjudicate") /\ c = chosen /\ q = queue
    OBVIOUS
  <2>2. r \in Fetch /\ r.id = sent + 1 /\ r.kind = "adjudicate"
    <3>1. "adjudicate" \in Kinds
      BY DEF Kinds
    <3> QED BY <2>1, <3>1, RequestType
  <2>3. s \in Searches /\ c \in Cluster \cup {None} /\ q \in SUBSET Searches
    BY <1>2, <2>1, SearchType DEF PageTypes
  <2>4. request = [r EXCEPT !.search = s, !.cluster = c, !.synonyms = q]
    BY <2>1
  <2> HIDE DEF request
  <2> QED BY <2>1, <2>2, <2>3, <2>4 DEF Fetch
<1> HIDE DEF request
<1>5. PostEffect(request)
  BY <1>3, <1>4, OpenServes DEF PostEffect, SendEffect, Post, KindsOf
<1> QED BY <1>2, <1>4, <1>5

LEMMA AdjudicatedEffect ==
    ASSUME FetchInv, NEW a \in answers, Adjudicated(a)
    PROVE  \E request : /\ RelayEffect(a, request)
                        /\ request.kind = "resolve" /\ request.search = a.to.search
<1> DEFINE request == [Request("resolve") EXCEPT !.search = a.to.search]
<1>1. Take(a) /\ Send(request) /\ a.to.kind = "adjudicate"
  BY DEF Adjudicated
<1>2. Serving /\ a.to \in Fetch /\ page = "index"
  BY <1>1, AnswersServe DEF KindsOf, FetchInv, Pages
<1>3. request \in Fetch /\ request.id = sent + 1 /\ request.kind = "resolve" /\ request.search = a.to.search
  <2>1. "resolve" \in Kinds
    BY DEF Kinds
  <2> QED BY <1>2, <2>1, RequestType DEF Fetch
<1> HIDE DEF request
<1>4. RelayEffect(a, request)
  BY <1>1, <1>2, <1>3 DEF RelayEffect, SendEffect, KindsOf
<1> QED BY <1>3, <1>4

\* The requests without a field to fill.
LEMMA PlainEffect ==
    ASSUME HttpInv, FetchInv, PageTypes, Other \/ ForceNovel \/ Load \/ Step \/ Reset \/ Reload
    PROVE  \E request : PostEffect(request) /\ request.kind \notin {"resolve", "adjudicate", "update"}
<1>1. PICK p \in Pages, kind \in {"bootstrap", "state", "step", "reset", "reload"} :
         Open(p) /\ kind \in KindsOf(p) /\ Post(Request(kind))
  BY DEF Other, ForceNovel, Load, Step, Reset, Reload, Pages, KindsOf
<1>2. Request(kind) \in Fetch /\ Request(kind).id = sent + 1 /\ Request(kind).kind = kind
  <2>1. kind \in Kinds
    BY DEF Kinds
  <2> QED BY <2>1, RequestType
<1>3. PostEffect(Request(kind))
  BY <1>1, <1>2, OpenServes DEF PostEffect, SendEffect, Post
<1> QED BY <1>2, <1>3

LEMMA SubmitEffect ==
    ASSUME HttpInv, FetchInv, PageTypes, Submit
    PROVE  \E request : /\ PostEffect(request) /\ request.kind = "update" /\ request.base = shown
                        /\ request.alone = (InFlight = {})
<1> DEFINE request == [Request("update") EXCEPT !.base = shown, !.alone = (InFlight = {})]
<1>1. Post(request) /\ Open("sandbox")
  BY DEF Submit
<1>2. /\ request \in Fetch /\ request.id = sent + 1 /\ request.kind = "update"
      /\ request.base = shown /\ request.alone = (InFlight = {})
  <2>1. PICK r, n, b : r = Request("update") /\ n = shown /\ b = (InFlight = {})
    OBVIOUS
  <2>2. r \in Fetch /\ r.id = sent + 1 /\ r.kind = "update"
    <3>1. "update" \in Kinds
      BY DEF Kinds
    <3> QED BY <2>1, <3>1, RequestType
  <2>3. n \in Nat \cup {None} /\ b \in BOOLEAN
    BY <2>1 DEF PageTypes
  <2>4. request = [r EXCEPT !.base = n, !.alone = b]
    BY <2>1
  <2> HIDE DEF request
  <2>5. request \in Fetch /\ request.id = sent + 1 /\ request.kind = "update"
        /\ request.base = n /\ request.alone = b
    BY <2>2, <2>3, <2>4 DEF Fetch
  <2> QED BY <2>1, <2>5
<1> HIDE DEF request
<1>3. PostEffect(request)
  BY <1>1, <1>2, OpenServes DEF PostEffect, SendEffect, Post, KindsOf
<1> QED BY <1>2, <1>3

LEMMA ReloadedEffect ==
    ASSUME FetchInv, NEW a \in answers, Reloaded(a)
    PROVE  \E request : RelayEffect(a, request) /\ request.kind = "state"
<1>1. Take(a) /\ Send(Request("state")) /\ a.to.kind = "reload"
  BY DEF Reloaded
<1>2. Serving /\ page = "sandbox"
  BY <1>1, AnswersServe DEF KindsOf, FetchInv, Pages
<1>3. Request("state") \in Fetch /\ Request("state").id = sent + 1 /\ Request("state").kind = "state"
  <2>1. "state" \in Kinds
    BY DEF Kinds
  <2> QED BY <2>1, RequestType
<1>4. RelayEffect(a, Request("state"))
  BY <1>1, <1>2, <1>3 DEF RelayEffect, SendEffect, KindsOf
<1> QED BY <1>3, <1>4

-----------------------------------------------------------------------------
(* The search screen.                                                      *)

\* What the user sees, and what is under way, belongs to the last search.
PairInv ==
    ~tangled /\ lastSearch[1] # Empty =>
        /\ chosen # None => chosen \in offered
        /\ recognized # None => recognized.alternates \subseteq offered
        /\ \A f \in InFlight : f.kind \in {"resolve", "adjudicate"} => f.search = lastSearch

SearchInv == HttpInv /\ FetchInv /\ PageTypes /\ PairInv

LEMMA SearchSearchInv ==
    ASSUME SearchInv, NEW t \in Text, Search(t)
    PROVE  SearchInv'
<1>1. PICK request : /\ PostEffect(request)
                     /\ request.kind = "resolve" /\ request.search = lastSearch'
  BY SearchEffect DEF SearchInv
<1>2. lastSearch' \in Text \X Domain
  BY SearchEffect DEF SearchInv
<1>3. /\ FetchInv' /\ HttpInv' /\ InFlight' = InFlight \cup {request}
      /\ page' = page /\ revision' = revision /\ answers' = answers
  BY <1>1, PostedFetches, SentFetches DEF SearchInv, PostEffect
<1>4. /\ recognized' = None /\ chosen' = None /\ queue' = {} /\ offered' = {}
      /\ UNCHANGED <<mode_domain, shown, selection>>
      /\ tangled' = \E f \in InFlight : f.kind \in {"resolve", "adjudicate"}
  BY DEF Search, Clear, sandbox
<1>5. PageTypes'
  BY <1>2, <1>3, <1>4 DEF SearchInv, PageTypes
<1>6. PairInv'
  BY <1>1, <1>3, <1>4 DEF PairInv
<1> QED BY <1>3, <1>5, <1>6 DEF SearchInv

LEMMA GuessSearchInv ==
    ASSUME SearchInv, NEW a \in answers, GuessShown(a)
    PROVE  SearchInv'
<1>1. /\ TakeEffect(a) /\ a.to.kind = "resolve"
      /\ UNCHANGED <<mode_domain, lastSearch, queue, tangled, shown, selection>>
  BY DEF GuessShown, TakeOnly, TakeEffect, sandbox
<1>2. /\ FetchInv' /\ HttpInv' /\ InFlight' \subseteq InFlight /\ answers' \subseteq answers
      /\ page' = page /\ revision' = revision
  BY <1>1, TakenFetches DEF SearchInv, TakeEffect
<1>3. a \in Response /\ a.to \in InFlight
  BY AnswersServe, InFlightIs DEF SearchInv
<1>4. OffersOf(a) \subseteq Cluster
  BY <1>3 DEF OffersOf, Response
<1>5. recognized'.alternates = a.alternates /\ recognized'.alternates \subseteq OffersOf(a)
  BY DEF GuessShown, OffersOf
<1>6. chosen' \in OffersOf(a) \cup {chosen}
  BY DEF GuessShown, OffersOf
<1>7. offered' = IF a.to.search = lastSearch THEN offered \cup OffersOf(a) ELSE offered
  BY DEF GuessShown
<1>8. PageTypes'
  BY <1>1, <1>2, <1>4, <1>5, <1>6, <1>7 DEF SearchInv, PageTypes
<1>9. PairInv'
  <2> SUFFICES ASSUME ~tangled, lastSearch[1] # Empty PROVE PairInv'
    BY <1>1 DEF PairInv
  <2>1. a.to.search = lastSearch
    BY <1>1, <1>3 DEF SearchInv, PairInv
  <2> QED BY <1>1, <1>2, <1>5, <1>6, <1>7, <2>1 DEF SearchInv, PairInv
<1> QED BY <1>2, <1>8, <1>9 DEF SearchInv

\* What the user does without a fetch.
LEMMA UserSearchInv ==
    ASSUME SearchInv,
           \/ \E d \in Domain : SetMode(d)
           \/ \E c \in Cluster : ChooseAlternate(c)
           \/ AddSynonym \/ RemoveSynonym \/ Click \/ Play
    PROVE  SearchInv'
<1>1. UNCHANGED <<httpVars, page, net>>
  BY DEF SetMode, ChooseAlternate, AddSynonym, RemoveSynonym, Click, Play, NoFetch
<1>2. UNCHANGED <<waiting, current, answers, sent, revision, mode, outcome, main, listener>>
  BY <1>1 DEF httpVars, net, thread, control
<1>3. Outstanding' = Outstanding /\ InFlight' = InFlight
  BY <1>2 DEF Outstanding, InFlight, Fetches
<1>4. FetchInv' /\ HttpInv'
  BY <1>1, <1>2, <1>3 DEF SearchInv, FetchInv, Serving, httpVars, thread, control, HttpInv, HttpTypeOK,
     ThreadInv, MainInv, ExitIsHonest
<1>5. CASE \E d \in Domain : SetMode(d)
  <2>1. PICK d \in Domain : SetMode(d)
    BY <1>5
  <2>2. /\ mode_domain' \in Domain /\ recognized' = None /\ chosen' = None /\ queue' = {}
        /\ UNCHANGED <<lastSearch, offered, tangled, shown, selection>>
    BY <2>1 DEF SetMode, Clear, sandbox
  <2>3. PageTypes' /\ PairInv'
    BY <1>1, <1>2, <1>3, <2>2 DEF SearchInv, PageTypes, PairInv
  <2> QED BY <1>4, <2>3 DEF SearchInv
<1>6. CASE \E c \in Cluster : ChooseAlternate(c)
  <2>1. /\ recognized # None /\ chosen' \in recognized.alternates
        /\ UNCHANGED <<mode_domain, lastSearch, recognized, queue, offered, tangled, shown, selection>>
    BY <1>6 DEF ChooseAlternate, sandbox
  <2>2. chosen' \in Cluster
    BY <1>6 DEF ChooseAlternate
  <2>3. PageTypes'
    BY <1>1, <1>2, <2>1, <2>2 DEF SearchInv, PageTypes
  <2>4. PairInv'
    BY <1>1, <1>2, <1>3, <2>1 DEF SearchInv, PairInv
  <2> QED BY <1>4, <2>3, <2>4 DEF SearchInv
<1>7. CASE AddSynonym \/ RemoveSynonym
  <2>1. /\ queue' \subseteq queue \cup {lastSearch}
        /\ UNCHANGED <<mode_domain, lastSearch, recognized, chosen, offered, tangled, shown, selection>>
    BY <1>7 DEF AddSynonym, RemoveSynonym, sandbox
  <2>2. PageTypes' /\ PairInv'
    BY <1>1, <1>2, <1>3, <2>1 DEF SearchInv, PageTypes, PairInv
  <2> QED BY <1>4, <2>2 DEF SearchInv
<1>8. CASE Click \/ Play
  <2>1. /\ selection' \in Entity \cup {None} /\ (selection' # None => shown # None)
        /\ UNCHANGED <<mode_domain, lastSearch, recognized, chosen, queue, offered, tangled, shown>>
    BY <1>8 DEF Click, Play, index, SearchInv, PageTypes
  <2>2. PageTypes' /\ PairInv'
    BY <1>1, <1>2, <1>3, <2>1 DEF SearchInv, PageTypes, PairInv
  <2> QED BY <1>4, <2>2 DEF SearchInv
<1> QED BY <1>5, <1>6, <1>7, <1>8

\* A fetch that belongs to the last search, or to none.
LEMMA FollowsSearchInv ==
    ASSUME SearchInv, NEW request,
           \/ PostEffect(request)
           \/ \E a \in answers : RelayEffect(a, request),
           ~tangled /\ lastSearch[1] # Empty /\ request.kind \in {"resolve", "adjudicate"} =>
               request.search = lastSearch,
           \/ UNCHANGED index
           \/ /\ recognized' = None /\ chosen' = None /\ queue' = {}
              /\ UNCHANGED <<mode_domain, lastSearch, offered, tangled>>,
           UNCHANGED <<shown, selection>>
    PROVE  SearchInv'
<1>1. /\ FetchInv' /\ HttpInv' /\ InFlight' \subseteq InFlight \cup {request}
      /\ page' = page /\ revision' = revision /\ answers' \subseteq answers
  <2>1. CASE PostEffect(request)
    BY <2>1, PostedFetches, SentFetches DEF SearchInv, PostEffect
  <2>2. CASE \E a \in answers : RelayEffect(a, request)
    BY <2>2, RelayedFetches, SentFetches DEF SearchInv, RelayEffect
  <2> QED BY <2>1, <2>2
<1>2. /\ UNCHANGED <<mode_domain, lastSearch, offered, tangled>>
      /\ recognized' \in {recognized, None} /\ chosen' \in {chosen, None} /\ queue' \subseteq queue
  BY DEF index
<1>3. PageTypes'
  BY <1>1, <1>2 DEF SearchInv, PageTypes
<1>4. PairInv'
  BY <1>1, <1>2 DEF SearchInv, PairInv
<1> QED BY <1>1, <1>3, <1>4 DEF SearchInv

LEMMA FetchSearchInv ==
    ASSUME SearchInv,
           \/ \E t \in Text : Adjudicate(t)
           \/ Other \/ ForceNovel \/ Load \/ Step \/ Reset \/ Reload \/ Submit
           \/ \E a \in answers : Adjudicated(a) \/ Reloaded(a)
    PROVE  SearchInv'
<1>1. \E request :
         /\ PostEffect(request) \/ \E a \in answers : RelayEffect(a, request)
         /\ ~tangled /\ lastSearch[1] # Empty /\ request.kind \in {"resolve", "adjudicate"} =>
               request.search = lastSearch
  <2>1. CASE \E t \in Text : Adjudicate(t)
    BY <2>1, AdjudicateEffect DEF SearchInv
  <2>2. CASE Other \/ ForceNovel \/ Load \/ Step \/ Reset \/ Reload
    BY <2>2, PlainEffect DEF SearchInv
  <2>3. CASE Submit
    BY <2>3, SubmitEffect DEF SearchInv
  <2>4. CASE \E a \in answers : Adjudicated(a)
    <3>1. PICK a \in answers : Adjudicated(a)
      BY <2>4
    <3>2. PICK request : /\ RelayEffect(a, request)
                         /\ request.kind = "resolve" /\ request.search = a.to.search
      BY <3>1, AdjudicatedEffect DEF SearchInv
    <3>3. a.to \in InFlight /\ a.to.kind = "adjudicate"
      BY <3>1, InFlightIs DEF Adjudicated
    <3> QED BY <3>2, <3>3 DEF SearchInv, PairInv
  <2>5. CASE \E a \in answers : Reloaded(a)
    BY <2>5, ReloadedEffect DEF SearchInv
  <2> QED BY <2>1, <2>2, <2>3, <2>4, <2>5
<1>2. /\ \/ UNCHANGED index
         \/ /\ recognized' = None /\ chosen' = None /\ queue' = {}
            /\ UNCHANGED <<mode_domain, lastSearch, offered, tangled>>
      /\ UNCHANGED <<shown, selection>>
  BY DEF Adjudicate, Other, ForceNovel, Load, Step, Reset, Reload, Submit, Adjudicated, Reloaded,
     Clear, index, sandbox
<1> QED BY <1>1, <1>2, FollowsSearchInv

LEMMA TakeSearchInv ==
    ASSUME SearchInv, NEW a \in answers, AnswerNoted(a) \/ WorldShown(a)
    PROVE  SearchInv'
<1>1. TakeEffect(a) /\ UNCHANGED index
  BY DEF AnswerNoted, WorldShown, TakeOnly, TakeEffect
<1>2. /\ FetchInv' /\ HttpInv' /\ InFlight' \subseteq InFlight /\ answers' \subseteq answers
      /\ page' = page /\ revision' = revision
  BY <1>1, TakenFetches DEF SearchInv, TakeEffect
<1>3. UNCHANGED <<mode_domain, lastSearch, recognized, chosen, queue, offered, tangled>>
  BY <1>1 DEF index
<1>4. CASE AnswerNoted(a)
  <2>1. UNCHANGED <<shown, selection>>
    BY <1>4 DEF AnswerNoted, sandbox
  <2> QED BY <1>2, <1>3, <2>1 DEF SearchInv, PageTypes, PairInv
<1>5. CASE WorldShown(a)
  <2>1. shown' = a.revision /\ selection' \in {selection, None}
    BY <1>5 DEF WorldShown
  <2>2. page = "sandbox"
    BY <1>5, AnswersServe DEF SearchInv, FetchInv, Pages, KindsOf, WorldShown
  <2>3. shown' \in 0 .. revision /\ shown' # None
    BY <2>1, <2>2, HttpServerAssumption DEF SearchInv, PageTypes
  <2> QED BY <1>2, <1>3, <2>1, <2>3 DEF SearchInv, PageTypes, PairInv
<1> QED BY <1>4, <1>5

LEMMA PageSearchInv == SearchInv /\ Page => SearchInv'
BY SearchSearchInv, GuessSearchInv, UserSearchInv, FetchSearchInv, TakeSearchInv DEF Page

LEMMA HttpSearchInv == SearchInv /\ HttpNext /\ UNCHANGED pageVars => SearchInv'
<1> SUFFICES ASSUME SearchInv, HttpNext, UNCHANGED pageVars PROVE SearchInv'
  OBVIOUS
<1>1. FetchInv' /\ InFlight' = InFlight /\ HttpInv'
  BY HttpFetchInv, NextHttpInv DEF SearchInv
<1> QED BY <1>1 DEF SearchInv, PageTypes, PairInv, pageVars, index, sandbox, net

LEMMA ServeSearchInv == SearchInv /\ ServeFetch => SearchInv'
<1> SUFFICES ASSUME SearchInv, ServeFetch PROVE SearchInv'
  OBVIOUS
<1>1. CASE Die /\ UNCHANGED pageVars
  <2>1. FetchInv' /\ InFlight' = InFlight /\ HttpInv'
    BY <1>1, DiedFetches, DieHttpInv DEF SearchInv
  <2> QED BY <1>1, <2>1 DEF SearchInv, PageTypes, PairInv, pageVars, index, sandbox, net
<1>2. CASE \E r : AnswerEffect(r)
  <2>1. PICK r : AnswerEffect(r)
    BY <1>2
  <2>2. current \in Outstanding
    BY DEF ServeFetch, Outstanding, Fetches
  <2>3. FetchInv' /\ HttpInv' /\ InFlight' = InFlight /\ answers' = answers \cup {r}
    BY <2>1, <2>2, AnsweredFetches DEF AnswerEffect, SearchInv
  <2>4. UNCHANGED <<page, index, sandbox>>
    BY <2>1 DEF AnswerEffect, Answer
  <2>5. revision \in Nat /\ revision' \in {revision, revision + 1}
    BY <2>1 DEF AnswerEffect, SearchInv, PageTypes
  <2>6. r.revision \in (0 .. revision') \cup {None} /\ (page = "sandbox" => r.revision \in 0 .. revision')
    BY <2>1, <2>5 DEF AnswerEffect, SearchInv, FetchInv, Pages
  <2>7. PageTypes'
    BY <2>3, <2>4, <2>5, <2>6 DEF SearchInv, PageTypes, index, sandbox
  <2>8. PairInv'
    BY <2>3, <2>4 DEF SearchInv, PairInv, index
  <2> QED BY <2>3, <2>7, <2>8 DEF SearchInv
<1> QED BY <1>1, <1>2, ServeFetchEffect DEF SearchInv

LEMMA NextSearchInv == SearchInv /\ [Next]_vars => SearchInv'
<1>1. ASSUME SearchInv, UNCHANGED vars PROVE SearchInv'
  <2>1. UNCHANGED <<httpVars, page, index, sandbox, net>>
    BY <1>1 DEF vars, pageVars
  <2>2. HttpInv'
    BY <1>1, <2>1 DEF SearchInv, httpVars, thread, control, HttpInv, HttpTypeOK, ThreadInv, MainInv,
       ExitIsHonest
  <2>3. Outstanding' = Outstanding /\ InFlight' = InFlight
    BY <2>1 DEF Outstanding, InFlight, Fetches, httpVars, thread, net
  <2>4. FetchInv'
    BY <1>1, <2>1, <2>3 DEF SearchInv, FetchInv, Serving, httpVars, thread, control, net
  <2>5. PageTypes' /\ PairInv'
    BY <1>1, <2>1, <2>3 DEF SearchInv, PageTypes, PairInv, index, sandbox, net
  <2> QED BY <2>2, <2>4, <2>5 DEF SearchInv
<1> QED BY <1>1, PageSearchInv, HttpSearchInv, ServeSearchInv DEF Next

LEMMA InitSearchInv == Init => SearchInv
<1> SUFFICES ASSUME Init PROVE SearchInv
  OBVIOUS
<1>1. HttpInv
  BY InitHttpInv DEF Init
<1>2. Outstanding = {} /\ InFlight = {}
  BY DEF Init, HttpInit, Outstanding, InFlight, Fetches
<1>3. FetchInv
  BY <1>2 DEF Init, FetchInv
<1>4. PageTypes /\ PairInv
  BY <1>2 DEF Init, PageTypes, PairInv, NoSearch
<1> QED BY <1>1, <1>3, <1>4 DEF SearchInv

\* What the threads have done, what is in flight, and what the search screen shows.
THEOREM SearchInvariant == FairSpec => []SearchInv
BY InitSearchInv, NextSearchInv, PTL DEF FairSpec

\* The variables of the server and of the page keep their types; no two fetches in flight
\* have the same number, and nothing is selected in a world that was not shown.
THEOREM WebTypeCorrect == FairSpec => []TypeOK
<1>1. SearchInv => TypeOK
  <2> SUFFICES ASSUME SearchInv PROVE TypeOK
    OBVIOUS
  <2>1. queue \subseteq (Text \X Domain) \cup {NoSearch}
    BY DEF SearchInv, PageTypes
  <2> QED BY <2>1 DEF SearchInv, HttpInv, FetchInv, PageTypes, TypeOK
<1> QED BY <1>1, SearchInvariant, PTL

\* The exit status of the process tells what happened, wherever its two threads are when the
\* time for the probes runs out, the other process takes or leaves the port, or a handler throws.
THEOREM ExitTellsWhatHappened == FairSpec => []ExitIsHonest
<1>1. SearchInv => ExitIsHonest
  BY DEF SearchInv, HttpInv
<1> QED BY <1>1, SearchInvariant, PTL

\* Only the page makes fetches.
LEMMA ServerMakesNoFetch ==
    ASSUME HttpNext \/ ServeFetch
    PROVE  waiting' \subseteq waiting \cup {Main} \cup Idle
<1>1. CASE ServeFetch
  BY <1>1 DEF ServeFetch, ServeGuess, ServeFunnel, ServeSandbox, Answer, Served, HandlerThrows, Die, thread
<1>2. CASE Listen \/ ServeMain \/ HandlerThrows \/ SelectAborts \/ Join
  BY <1>2 DEF Listen, ClearStop, OpenSocket, Bind, BindFails, LoopTest, SelectTimesOut, Accept,
     CloseListener, ServeMain, Served, HandlerThrows, SelectAborts, Die, Join, thread
<1>3. CASE Run
  BY <1>3 DEF Run, Probe, ProbeOther, ProbeAnswered, GiveUp, Ready, SmokeOk, Check, CheckOther,
     CheckFails, CheckPasses, SelfTestOk, StopFlag, StopClose, Connect, Decide, thread
<1>4. CASE DeadlinePasses \/ OtherChanges \/ \E c \in Idle : IdleConnects(c) \/ IdleLeaves(c)
  BY <1>4 DEF DeadlinePasses, OtherChanges, IdleConnects, IdleLeaves, thread
<1> QED BY <1>1, <1>2, <1>3, <1>4 DEF HttpNext

\* Unless the user searched on while answers were outstanding, or with an empty box, a text is
\* adjudicated to a cluster that the server offered for it, with its own synonyms only.
THEOREM AdjudicationsMatch == FairSpec => PairsMatch
<1>1. ASSUME SearchInv, [Next]_vars, NEW f \in Fetches(waiting' \ waiting), f.kind = "adjudicate",
             ~tangled, lastSearch[1] # Empty
      PROVE  f.search = lastSearch /\ f.cluster \in offered /\ f.synonyms \subseteq {lastSearch}
  <2>1. f \in waiting' /\ f \notin waiting /\ f \notin Idle \cup {Main, None}
    BY <1>1 DEF Fetches
  <2>2. Page
    BY <1>1, <2>1, ServerMakesNoFetch DEF Next, vars, httpVars, thread
  <2>3. ASSUME NEW request,
               PostEffect(request) \/ \E a \in answers : RelayEffect(a, request)
        PROVE  f = request
    BY <2>1, <2>3 DEF PostEffect, RelayEffect, SendEffect, Send
  <2>4. CASE \E t \in Text : Adjudicate(t)
    <3>1. PICK request : /\ PostEffect(request)
                         /\ request.kind = "adjudicate" /\ request.cluster = chosen
                         /\ request.synonyms = queue
                         /\ lastSearch[1] # Empty => request.search = lastSearch
      BY <1>1, <2>4, AdjudicateEffect DEF SearchInv
    <3>2. chosen # None
      BY <2>4 DEF Adjudicate
    <3>3. chosen \in offered /\ queue \subseteq {lastSearch}
      BY <1>1, <3>2 DEF SearchInv, PageTypes, PairInv
    <3> QED BY <1>1, <2>3, <3>1, <3>3
  <2>5. CASE \E t \in Text : Search(t)
    BY <1>1, <2>3, <2>5, SearchEffect DEF SearchInv
  <2>6. CASE Other \/ ForceNovel \/ Load \/ Step \/ Reset \/ Reload
    BY <1>1, <2>3, <2>6, PlainEffect DEF SearchInv
  <2>7. CASE Submit
    BY <1>1, <2>3, <2>7, SubmitEffect DEF SearchInv
  <2>8. CASE \E a \in answers : Adjudicated(a)
    BY <1>1, <2>3, <2>8, AdjudicatedEffect DEF SearchInv
  <2>9. CASE \E a \in answers : Reloaded(a)
    BY <1>1, <2>3, <2>9, ReloadedEffect DEF SearchInv
  <2>10. CASE \/ \E d \in Domain : SetMode(d)
              \/ \E c \in Cluster : ChooseAlternate(c)
              \/ AddSynonym \/ RemoveSynonym \/ Click \/ Play
              \/ \E a \in answers : GuessShown(a) \/ AnswerNoted(a) \/ WorldShown(a)
    BY <2>1, <2>10 DEF SetMode, ChooseAlternate, AddSynonym, RemoveSynonym, Click, Play, NoFetch,
       GuessShown, AnswerNoted, WorldShown, TakeOnly, httpVars, thread
  <2> QED BY <2>2, <2>4, <2>5, <2>6, <2>7, <2>8, <2>9, <2>10 DEF Page
<1>2. SearchInv /\ [Next]_vars =>
        [\A f \in Fetches(waiting' \ waiting) :
            f.kind = "adjudicate" /\ ~tangled /\ lastSearch[1] # Empty =>
                /\ f.search = lastSearch
                /\ f.cluster \in offered
                /\ f.synonyms \subseteq {lastSearch}]_vars
  BY <1>1
<1> QED BY <1>2, SearchInvariant, PTL DEF FairSpec, PairsMatch

-----------------------------------------------------------------------------
(* The forms of the sandbox.                                               *)

\* Answers belong to earlier fetches than those the server still has.
AnswersFirst ==
    /\ \A a \in answers, g \in Outstanding : a.to.id < g.id
    /\ \A a, b \in answers : a.to.id = b.to.id => a = b

\* The answer to the latest fetch holds the world as it is now; so does the page, once it has
\* dealt with every answer.
LatestIsCurrent ==
    /\ \A a \in answers : (\A b \in answers : b.to.id <= a.to.id) => a.revision = revision
    /\ InFlight = {} => shown \in {None, revision}

\* A form submitted with nothing in flight is served before anything that changes the world.
FormsComeFirst ==
    \A f \in Outstanding : f.kind = "update" /\ f.alone =>
        f.base = revision /\ \A g \in InFlight : f.id <= g.id

FormInv == page = "sandbox" /\ ~reordered => AnswersFirst /\ LatestIsCurrent /\ FormsComeFirst

\* The ids are numbers that tell the fetches apart.
LEMMA FetchIds ==
    ASSUME FetchInv
    PROVE  /\ \A f \in Outstanding : f.id \in Nat /\ f \in InFlight
           /\ \A a \in answers : a.to.id \in Nat /\ a.to \in InFlight
           /\ \A f \in InFlight : f.id \in Nat /\ f.id <= sent
           /\ \A f, g \in InFlight : f.id = g.id => f = g
<1>1. \A f \in InFlight : f.id \in Nat /\ f.id <= sent
  BY DEF FetchInv
<1> QED BY <1>1, InFlightIs DEF FetchInv

LEMMA AnsweredFormInv ==
    ASSUME SearchInv, FormInv, current \in Outstanding, NEW r, AnswerEffect(r)
    PROVE  FormInv'
<1> SUFFICES ASSUME (page = "sandbox" /\ ~reordered)'
             PROVE  AnswersFirst' /\ LatestIsCurrent' /\ FormsComeFirst'
  BY DEF FormInv
<1>1. /\ page = "sandbox" /\ ~reordered /\ r.to = current /\ r.revision = revision'
      /\ \A g \in Fetches(waiting) : ~(g.id < current.id)
  BY DEF AnswerEffect, Answer
<1>2. AnswersFirst /\ LatestIsCurrent /\ FormsComeFirst
  BY <1>1 DEF FormInv
<1>3. /\ Outstanding' = Outstanding \ {current} /\ InFlight' = InFlight
      /\ answers' = answers \cup {r} /\ FetchInv /\ FetchInv'
  BY AnsweredFetches DEF AnswerEffect, SearchInv
<1>4. \A g \in Outstanding \ {current} : current.id < g.id
  <2> TAKE g \in Outstanding \ {current}
  <2>1. g \in Fetches(waiting)
    BY OutstandingIs DEF Fetches
  <2>2. g.id # current.id /\ g.id \in Nat /\ current.id \in Nat
    BY <1>3, FetchIds
  <2> QED BY <1>1, <2>1, <2>2
<1>5. \A a \in answers : a.to.id < current.id /\ a.to.id \in Nat /\ current.id \in Nat
  BY <1>2, <1>3, FetchIds DEF AnswersFirst
<1>6. AnswersFirst'
  BY <1>1, <1>2, <1>3, <1>4, <1>5 DEF AnswersFirst
<1>7. LatestIsCurrent'
  <2>1. InFlight # {}
    BY <1>3, FetchIds
  <2>2. ASSUME NEW a \in answers PROVE ~(r.to.id <= a.to.id)
    BY <1>1, <1>5
  <2> QED BY <1>1, <1>3, <2>1, <2>2 DEF LatestIsCurrent
<1>8. FormsComeFirst'
  <2> SUFFICES ASSUME NEW f \in Outstanding \ {current}, f.kind = "update", f.alone
               PROVE  FALSE
    BY <1>3 DEF FormsComeFirst
  <2>1. f.id <= current.id
    BY <1>2, <1>3, FetchIds DEF FormsComeFirst
  <2> QED BY <1>3, <1>4, <2>1, FetchIds
<1> QED BY <1>6, <1>7, <1>8

LEMMA PostedFormInv ==
    ASSUME SearchInv, FormInv, NEW request, PostEffect(request), UNCHANGED shown,
           request.kind = "update" /\ request.alone =>
               InFlight = {} /\ request.base = shown /\ shown # None
    PROVE  FormInv'
<1> SUFFICES ASSUME (page = "sandbox" /\ ~reordered)'
             PROVE  AnswersFirst' /\ LatestIsCurrent' /\ FormsComeFirst'
  BY DEF FormInv
<1>1. /\ Outstanding' = Outstanding \cup {request} /\ InFlight' = InFlight \cup {request}
      /\ UNCHANGED <<answers, reordered, page, revision>>
      /\ FetchInv /\ sent \in Nat /\ request.id = sent + 1
  BY SentFetches, PostedFetches DEF SearchInv, FetchInv, PostEffect, SendEffect
<1>2. AnswersFirst /\ LatestIsCurrent /\ FormsComeFirst
  BY <1>1 DEF FormInv
<1>3. \A f \in InFlight : f.id \in Nat /\ f.id < request.id
  <2> TAKE f \in InFlight
  <2>1. f.id \in Nat /\ f.id <= sent
    BY <1>1, FetchIds
  <2> QED BY <1>1, <2>1
<1>4. AnswersFirst'
  BY <1>1, <1>2, <1>3, FetchIds DEF AnswersFirst
<1>5. LatestIsCurrent'
  BY <1>1, <1>2 DEF LatestIsCurrent
<1>6. FormsComeFirst'
  <2> SUFFICES ASSUME NEW f \in Outstanding', f.kind = "update", f.alone
               PROVE  f.base = revision /\ \A g \in InFlight' : f.id <= g.id
    BY <1>1 DEF FormsComeFirst
  <2>1. CASE f = request
    BY <1>1, <1>2, <2>1 DEF LatestIsCurrent
  <2>2. CASE f \in Outstanding
    BY <1>1, <1>2, <1>3, <2>2, FetchIds DEF FormsComeFirst
  <2> QED BY <1>1, <2>1, <2>2
<1> QED BY <1>4, <1>5, <1>6

\* The page deals with the earliest answer.
LEMMA TakenOrder ==
    ASSUME FetchInv, AnswersFirst, LatestIsCurrent, NEW a, Take(a), ~reordered'
    PROVE  /\ a \in answers /\ answers' = answers \ {a} /\ ~reordered
           /\ \A b \in answers' : a.to.id < b.to.id
           /\ answers' = {} => a.revision = revision
           /\ \A b \in answers' : (\A c \in answers' : c.to.id <= b.to.id) => b.revision = revision
<1>1. /\ a \in answers /\ answers' = answers \ {a} /\ ~reordered
      /\ \A b \in answers : ~(b.to.id < a.to.id)
  BY DEF Take
<1>2. \A b \in answers' : a.to.id < b.to.id
  <2> TAKE b \in answers'
  <2>1. b.to.id # a.to.id /\ b.to.id \in Nat /\ a.to.id \in Nat
    BY <1>1, FetchIds DEF AnswersFirst
  <2> QED BY <1>1, <2>1
<1>3. answers' = {} => a.revision = revision
  <2>1. answers' = {} => \A b \in answers : b.to.id <= a.to.id
    BY <1>1, FetchIds
  <2> QED BY <1>1, <2>1 DEF LatestIsCurrent
<1>4. ASSUME NEW b \in answers', \A c \in answers' : c.to.id <= b.to.id
      PROVE  b.revision = revision
  <2>1. \A c \in answers : c.to.id <= b.to.id
    BY <1>1, <1>2, <1>4, FetchIds
  <2> QED BY <1>1, <2>1 DEF LatestIsCurrent
<1> QED BY <1>1, <1>2, <1>3, <1>4

LEMMA ShownFormInv ==
    ASSUME SearchInv, FormInv, NEW a \in answers, WorldShown(a)
    PROVE  FormInv'
<1> SUFFICES ASSUME (page = "sandbox" /\ ~reordered)'
             PROVE  AnswersFirst' /\ LatestIsCurrent' /\ FormsComeFirst'
  BY DEF FormInv
<1>1. TakeEffect(a) /\ Take(a) /\ shown' = a.revision /\ page' = page /\ revision' = revision
  BY DEF WorldShown, TakeOnly, TakeEffect
<1>2. Outstanding' = Outstanding /\ InFlight' \subseteq InFlight /\ FetchInv
  BY <1>1, TakenFetches DEF SearchInv
<1>3. ~reordered
  BY <1>1 DEF Take
<1>4. AnswersFirst /\ LatestIsCurrent /\ FormsComeFirst
  BY <1>1, <1>3 DEF FormInv
<1>5. /\ answers' = answers \ {a}
      /\ answers' = {} => a.revision = revision
      /\ \A b \in answers' : (\A c \in answers' : c.to.id <= b.to.id) => b.revision = revision
  BY <1>1, <1>2, <1>4, TakenOrder
<1>6. InFlight' = {} => answers' = {}
  <2>1. InFlight' = Outstanding' \cup {b.to : b \in answers'}
    BY DEF InFlight, Outstanding
  <2> QED BY <2>1
<1>7. AnswersFirst' /\ FormsComeFirst'
  BY <1>1, <1>2, <1>4, <1>5 DEF AnswersFirst, FormsComeFirst
<1>8. LatestIsCurrent'
  BY <1>1, <1>5, <1>6 DEF LatestIsCurrent
<1> QED BY <1>7, <1>8

LEMMA ReloadedFormInv ==
    ASSUME SearchInv, FormInv, NEW a \in answers, Reloaded(a)
    PROVE  FormInv'
<1> SUFFICES ASSUME (page = "sandbox" /\ ~reordered)'
             PROVE  AnswersFirst' /\ LatestIsCurrent' /\ FormsComeFirst'
  BY DEF FormInv
<1>1. PICK request : RelayEffect(a, request) /\ request.kind = "state"
  BY ReloadedEffect DEF SearchInv
<1>2. /\ Outstanding' = Outstanding \cup {request} /\ InFlight' \subseteq InFlight \cup {request}
      /\ answers' = answers \ {a} /\ page' = page /\ revision' = revision
      /\ FetchInv /\ sent \in Nat /\ request.id = sent + 1 /\ Take(a)
  BY <1>1, SentFetches, RelayedFetches DEF SearchInv, FetchInv, RelayEffect, SendEffect
<1>3. ~reordered
  BY <1>2 DEF Take
<1>4. AnswersFirst /\ LatestIsCurrent /\ FormsComeFirst
  BY <1>2, <1>3 DEF FormInv
<1>5. \A b \in answers' : (\A c \in answers' : c.to.id <= b.to.id) => b.revision = revision
  BY <1>2, <1>4, TakenOrder
<1>6. \A f \in InFlight : f.id \in Nat /\ f.id < request.id
  <2> TAKE f \in InFlight
  <2>1. f.id \in Nat /\ f.id <= sent
    BY <1>2, FetchIds
  <2> QED BY <1>2, <2>1
<1>7. AnswersFirst'
  BY <1>2, <1>4, <1>6, FetchIds DEF AnswersFirst
<1>8. LatestIsCurrent'
  <2>1. InFlight' = Outstanding' \cup {b.to : b \in answers'}
    BY DEF InFlight, Outstanding
  <2> QED BY <1>2, <1>5, <2>1 DEF LatestIsCurrent
<1>9. FormsComeFirst'
  <2> SUFFICES ASSUME NEW f \in Outstanding, f.kind = "update", f.alone
               PROVE  f.base = revision /\ \A g \in InFlight' : f.id <= g.id
    BY <1>1, <1>2 DEF FormsComeFirst
  <2> QED BY <1>2, <1>4, <1>6, FetchIds DEF FormsComeFirst
<1> QED BY <1>7, <1>8, <1>9

\* Steps that leave the fetches, their answers and the world alone.
LEMMA SameFormInv ==
    ASSUME FormInv, Outstanding' = Outstanding, InFlight' = InFlight,
           UNCHANGED <<page, answers, reordered, revision, shown>>
    PROVE  FormInv'
BY DEF FormInv, AnswersFirst, LatestIsCurrent, FormsComeFirst

LEMMA PageFormInv == SearchInv /\ FormInv /\ Page => FormInv'
<1> SUFFICES ASSUME SearchInv, FormInv, Page PROVE FormInv'
  OBVIOUS
<1>1. CASE page # "sandbox"
  <2>1. page' = page
    BY DEF Page, SetMode, Search, Adjudicate, ChooseAlternate, Other, ForceNovel, AddSynonym,
       RemoveSynonym, Load, Click, Play, Step, Reset, Reload, Submit, GuessShown, AnswerNoted,
       Adjudicated, WorldShown, Reloaded, NoFetch, Post, Send, TakeOnly
  <2> QED BY <1>1, <2>1 DEF FormInv
<1>2. CASE Click \/ Play
  <2>1. UNCHANGED <<httpVars, page, net, shown>>
    BY <1>2 DEF Click, Play, NoFetch
  <2>2. UNCHANGED <<waiting, current, answers, reordered, revision>>
    BY <2>1 DEF httpVars, thread, net
  <2>3. Outstanding' = Outstanding /\ InFlight' = InFlight
    BY <2>2 DEF Outstanding, InFlight, Fetches
  <2> QED BY <2>1, <2>2, <2>3, SameFormInv
<1>3. CASE Load \/ Step \/ Reset \/ Reload
  <2>1. UNCHANGED shown
    BY <1>3 DEF Load, Step, Reset, Reload, sandbox
  <2> QED BY <1>3, <2>1, PlainEffect, PostedFormInv DEF SearchInv
<1>4. CASE Submit
  <2>1. UNCHANGED shown /\ shown # None
    BY <1>4 DEF Submit, sandbox, SearchInv, PageTypes
  <2> QED BY <1>4, <2>1, SubmitEffect, PostedFormInv DEF SearchInv
<1>5. CASE \E a \in answers : WorldShown(a) \/ Reloaded(a)
  BY <1>5, ShownFormInv, ReloadedFormInv
<1>6. CASE \E a \in answers : GuessShown(a) \/ AnswerNoted(a) \/ Adjudicated(a)
  <2>1. PICK a \in answers : GuessShown(a) \/ AnswerNoted(a) \/ Adjudicated(a)
    BY <1>6
  <2>2. a.to.kind \in {"resolve", "adjudicate", "bootstrap"} /\ a.to.kind \in KindsOf(page)
    BY <2>1, AnswersServe DEF SearchInv, GuessShown, AnswerNoted, Adjudicated
  <2> QED BY <1>1, <2>2 DEF KindsOf
<1>7. CASE \/ \E d \in Domain : SetMode(d)
           \/ \E t \in Text : Search(t) \/ Adjudicate(t)
           \/ \E c \in Cluster : ChooseAlternate(c)
           \/ Other \/ ForceNovel \/ AddSynonym \/ RemoveSynonym
  BY <1>1, <1>7 DEF SetMode, Search, Adjudicate, ChooseAlternate, Other, ForceNovel, AddSynonym,
     RemoveSynonym, Open
<1> QED BY <1>2, <1>3, <1>4, <1>5, <1>6, <1>7 DEF Page

LEMMA NextFormInv == SearchInv /\ FormInv /\ [Next]_vars => FormInv'
<1> SUFFICES ASSUME SearchInv, FormInv, [Next]_vars PROVE FormInv'
  OBVIOUS
<1>1. CASE UNCHANGED vars
  <2>1. UNCHANGED <<waiting, current, answers, page, reordered, revision, shown>>
    BY <1>1 DEF vars, pageVars, httpVars, thread, net, sandbox
  <2>2. Outstanding' = Outstanding /\ InFlight' = InFlight
    BY <2>1 DEF Outstanding, InFlight, Fetches
  <2> QED BY <2>1, <2>2, SameFormInv
<1>2. CASE HttpNext /\ UNCHANGED pageVars
  <2>1. Outstanding' = Outstanding /\ InFlight' = InFlight
    BY <1>2, HttpKeepsFetches, HttpFetchInv DEF SearchInv
  <2> QED BY <1>2, <2>1, SameFormInv DEF pageVars, net, sandbox
<1>3. CASE ServeFetch
  <2>1. current \in Outstanding
    BY <1>3 DEF ServeFetch, Outstanding, Fetches
  <2>2. CASE \E r : AnswerEffect(r)
    BY <2>1, <2>2, AnsweredFormInv
  <2>3. CASE Die /\ UNCHANGED pageVars
    <3>1. Outstanding' = Outstanding /\ InFlight' = InFlight
      BY <2>3, DiedFetches DEF SearchInv
    <3> QED BY <2>3, <3>1, SameFormInv DEF pageVars, net, sandbox
  <2> QED BY <1>3, <2>2, <2>3, ServeFetchEffect DEF SearchInv
<1> QED BY <1>1, <1>2, <1>3, PageFormInv DEF Next

LEMMA InitFormInv == Init => FormInv
<1> SUFFICES ASSUME Init PROVE FormInv
  OBVIOUS
<1>1. Outstanding = {} /\ InFlight = {}
  BY DEF Init, HttpInit, Outstanding, InFlight, Fetches
<1> QED BY <1>1 DEF Init, FormInv, AnswersFirst, LatestIsCurrent, FormsComeFirst

\* A form submitted with nothing in flight changes exactly the world whose values it holds,
\* however many steps the timer sends meanwhile, while connections and answers keep their order.
THEOREM NoFormOverwrites == FairSpec => []FormsLoseNothing
<1>1. SearchInv /\ FormInv => FormsLoseNothing
  <2> SUFFICES ASSUME SearchInv, FormInv, current \in Fetches({current}),
                      current.kind = "update", current.alone, ~reordered
               PROVE  current.base = revision
    BY DEF FormsLoseNothing
  <2>1. current \in Outstanding /\ current \in InFlight
    BY InFlightIs DEF Outstanding, Fetches
  <2>2. current.kind \in KindsOf(page) /\ page \in Pages
    BY <2>1 DEF SearchInv, FetchInv
  <2>3. page = "sandbox"
    BY <2>2 DEF KindsOf, Pages
  <2> QED BY <2>1, <2>3 DEF FormInv, FormsComeFirst
<1> QED BY <1>1, InitSearchInv, NextSearchInv, InitFormInv, NextFormInv, PTL DEF FairSpec
=============================================================================
