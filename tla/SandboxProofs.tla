----------------------------- MODULE SandboxProofs -----------------------------
(* Theorems about Sandbox, for every map, seed, patch and bound that           *)
(* SandboxAssumption admits.                                                   *)
EXTENDS Sandbox, TLAPS

-----------------------------------------------------------------------------
(* Clamps.                                                                 *)

AnyNeed == [current : Int, max : Int, rise : Int, relief : Int]
AnyStock == [units : Int, max : Int, regen : Int, portion : Int, action : Interaction]

\* A clamp lands in its range.
LEMMA ClampRange ==
    ASSUME NEW low \in Int, NEW high \in Int, low <= high, NEW v \in Int
    PROVE  Clamp(low, high, v) \in low .. high
BY DEF Clamp, Greater, Smaller

\* clamp_survival_state makes any numbers legal.
LEMMA ClampNeedGood ==
    ASSUME NEW s \in AnyNeed
    PROVE  ClampNeed(s) \in LegalNeed
<1>1. MaxRate \in Nat /\ MaxRelief \in Nat
  BY SandboxAssumption
<1>2. Greater(1, s.max) \in Nat \ {0} /\ s.current \in Int /\ s.rise \in Int /\ s.relief \in Int
  BY DEF Greater, AnyNeed
<1>3. /\ Clamp(0, Greater(1, s.max), s.current) \in 0 .. Greater(1, s.max)
      /\ Clamp(0, MaxRate, s.rise) \in 0 .. MaxRate
      /\ Clamp(0, MaxRelief, s.relief) \in 0 .. MaxRelief
  <2>1. ASSUME NEW high \in Nat, NEW v \in Int PROVE Clamp(0, high, v) \in 0 .. high
    BY ClampRange
  <2>2. Greater(1, s.max) \in Nat
    BY <1>2
  <2> QED
    BY <2>1, <2>2, <1>1, <1>2
<1> QED
  BY <1>2, <1>3 DEF ClampNeed, LegalNeed

LEMMA ClampSurvivalGood ==
    ASSUME NEW s \in [Need -> AnyNeed]
    PROVE  ClampSurvival(s) \in [Need -> LegalNeed]
BY ClampNeedGood DEF ClampSurvival

\* clamp_object_resource_state makes any numbers legal.
LEMMA ClampStockGood ==
    ASSUME NEW s \in AnyStock
    PROVE  ClampStock(s) \in LegalStock
<1>1. MaxRate \in Nat
  BY SandboxAssumption
<1>2. s.units \in Int /\ s.max \in Int /\ s.regen \in Int /\ s.portion \in Int
  BY DEF AnyStock
<1>3. Clamp(0, MaxRate, s.regen) \in 0 .. MaxRate /\ Clamp(0, MaxRate, s.portion) \in 0 .. MaxRate
  BY <1>1, <1>2 DEF Clamp, Greater, Smaller
<1>4. /\ Greater(0, s.units) \in Nat
      /\ Greater(Greater(0, s.max), Greater(0, s.units)) \in Nat
      /\ Greater(0, s.units) <= Greater(Greater(0, s.max), Greater(0, s.units))
  BY <1>2 DEF Greater
<1> QED
  BY <1>3, <1>4 DEF ClampStock, LegalStock, AnyStock

LEMMA ClampMindGood ==
    ASSUME NEW m, m.semantic \in Int, m.behavior \in Int
    PROVE  ClampMind(m) \in LegalMind
BY SandboxAssumption DEF ClampMind, LegalMind, Clamp, Greater, Smaller

-----------------------------------------------------------------------------
(* Movement.                                                               *)

\* One obstacle: from a free place the result of the iteration is outside of it, lies in
\* the map, and is the place tried or at most one step from it on each axis.
LEMMA AvoidOne ==
    ASSUME NEW o \in {First, Second}, NEW prev \in [x : Int, y : Int], Free(prev),
           NEW p \in [x : Int, y : Int],
           p.x \in Radius .. MapWidth - Radius, p.y \in Radius .. MapHeight - Radius
    PROVE  LET q == Avoid(o, prev, p)
           IN  /\ q \in [x : Int, y : Int]
               /\ q.x \in {p.x, prev.x} /\ q.y \in {p.y, prev.y}
               /\ ~Contains(o, q)
               /\ q = p \/ Contains(o, p)
<1>1. Radius \in Nat /\ MapWidth \in Nat /\ MapHeight \in Nat
      /\ 2 * Radius <= MapWidth /\ 2 * Radius <= MapHeight
  BY SandboxAssumption
<1>2. InWidth(prev.x) = prev.x /\ InHeight(prev.y) = prev.y
  BY <1>1 DEF Free, InWidth, InHeight, Clamp, Greater, Smaller
<1>3. ~Contains(o, prev)
  BY DEF Free
<1> QED
  BY <1>2, <1>3 DEF Avoid, Point

\* A place outside the first obstacle that was found by leaving the second one is far
\* from the first, and the other way round.
LEMMA Separated ==
    ASSUME NEW p \in [x : Int, y : Int], NEW q \in [x : Int, y : Int],
           Contains(First, p), Contains(Second, q)
    PROVE  \/ p.x - q.x > Stride \/ q.x - p.x > Stride
           \/ p.y - q.y > Stride \/ q.y - p.y > Stride
<1>1. /\ Radius \in Nat /\ Stride \in Nat
      /\ First \in [x : Int, y : Int, w : Nat, h : Nat]
      /\ Second \in [x : Int, y : Int, w : Nat, h : Nat]
  BY SandboxAssumption
<1>2. \/ First.x + First.w + 2 * Radius + Stride <= Second.x
      \/ Second.x + Second.w + 2 * Radius + Stride <= First.x
      \/ First.y + First.h + 2 * Radius + Stride <= Second.y
      \/ Second.y + Second.h + 2 * Radius + Stride <= First.y
  BY SandboxAssumption
<1> QED
  BY <1>1, <1>2 DEF Contains

LEMMA MovedType ==
    ASSUME NEW prev \in [x : Int, y : Int], NEW net \in Net
    PROVE  Moved(prev, net) \in [x : Int, y : Int]
<1>1. /\ Radius \in Nat /\ MapWidth \in Nat /\ MapHeight \in Nat /\ Stride \in Nat
      /\ net.x \in Int /\ net.y \in Int
  BY SandboxAssumption DEF Net
<1>2. \A v \in Int : InWidth(v) \in Int /\ InHeight(v) \in Int
  BY <1>1 DEF InWidth, InHeight, Clamp, Greater, Smaller
<1>3. \A o, q : q \in [x : Int, y : Int] => Avoid(o, prev, q) \in [x : Int, y : Int]
  BY <1>2 DEF Avoid, Point
<1>4. Point(InWidth(prev.x + net.x), InHeight(prev.y + net.y)) \in [x : Int, y : Int]
  BY <1>1, <1>2 DEF Point
<1> QED
  BY <1>3, <1>4 DEF Moved

\* clamp_to_bounds_and_obstacles: a step from a free place ends in a free place.
LEMMA MovedFree ==
    ASSUME NEW prev \in [x : Int, y : Int], Free(prev), NEW net \in Net
    PROVE  Moved(prev, net) \in [x : Int, y : Int] /\ Free(Moved(prev, net))
<1> DEFINE p == Point(InWidth(prev.x + net.x), InHeight(prev.y + net.y))
           q == Avoid(First, prev, p)
           r == Avoid(Second, prev, q)
<1>1. /\ Radius \in Nat /\ MapWidth \in Nat /\ MapHeight \in Nat /\ Stride \in Nat
      /\ 2 * Radius <= MapWidth /\ 2 * Radius <= MapHeight
  BY SandboxAssumption
<1>2. net.x \in -Stride .. Stride /\ net.y \in -Stride .. Stride
  BY DEF Net
<1>3. /\ p \in [x : Int, y : Int]
      /\ p.x \in Radius .. MapWidth - Radius /\ p.y \in Radius .. MapHeight - Radius
      /\ p.x - prev.x \in -Stride .. Stride /\ p.y - prev.y \in -Stride .. Stride
  BY <1>1, <1>2 DEF Free, Point, InWidth, InHeight, Clamp, Greater, Smaller
<1> HIDE DEF p
<1>4. /\ q \in [x : Int, y : Int]
      /\ q.x \in {p.x, prev.x} /\ q.y \in {p.y, prev.y}
      /\ ~Contains(First, q)
  BY <1>3, AvoidOne
<1>5. q.x \in Radius .. MapWidth - Radius /\ q.y \in Radius .. MapHeight - Radius
  BY <1>3, <1>4 DEF Free
<1> HIDE DEF q
<1>6. /\ r \in [x : Int, y : Int]
      /\ r.x \in {q.x, prev.x} /\ r.y \in {q.y, prev.y}
      /\ ~Contains(Second, r)
      /\ r = q \/ Contains(Second, q)
  BY <1>4, <1>5, AvoidOne
<1> HIDE DEF r
<1>7. ~Contains(First, r)
  <2>1. CASE r = q
    BY <2>1, <1>4
  <2>2. CASE Contains(Second, q)
    <3>1. SUFFICES ASSUME Contains(First, r) PROVE FALSE
      OBVIOUS
    <3>2. /\ r.x - q.x <= Stride /\ q.x - r.x <= Stride
          /\ r.y - q.y <= Stride /\ q.y - r.y <= Stride
      BY <1>1, <1>3, <1>4, <1>6
    <3>3. \/ r.x - q.x > Stride \/ q.x - r.x > Stride
          \/ r.y - q.y > Stride \/ q.y - r.y > Stride
      BY <3>1, <2>2, <1>4, <1>6, Separated
    <3>4. /\ r.x \in Int /\ r.y \in Int /\ q.x \in Int /\ q.y \in Int
      BY <1>4, <1>6
    <3> QED
      BY <3>2, <3>3, <3>4, <1>1
  <2> QED
    BY <2>1, <2>2, <1>6
<1>8. r.x \in Radius .. MapWidth - Radius /\ r.y \in Radius .. MapHeight - Radius
  BY <1>5, <1>6 DEF Free
<1>9. Moved(prev, net) = r
  BY DEF Moved, p, q, r
<1> QED
  BY <1>6, <1>7, <1>8, <1>9 DEF Free

-----------------------------------------------------------------------------
(* What a tick does to needs and units.                                    *)

LEMMA TiredGood ==
    ASSUME NEW s \in [Need -> LegalNeed]
    PROVE  Tired(s) \in [Need -> LegalNeed]
<1>1. ASSUME NEW n \in Need
      PROVE  [s[n] EXCEPT !.current = Smaller(s[n].max, s[n].current + s[n].rise)] \in AnyNeed
  BY SandboxAssumption DEF LegalNeed, AnyNeed, Smaller
<1> QED
  BY <1>1, ClampSurvivalGood DEF Tired

LEMMA RelievedGood ==
    ASSUME NEW s \in [Need -> LegalNeed], NEW action
    PROVE  Relieved(s, action) \in [Need -> LegalNeed]
<1>1. ASSUME NEW n \in Need
      PROVE  /\ [s[n] EXCEPT !.current = Greater(0, s[n].current - s[n].relief)] \in AnyNeed
             /\ s[n] \in AnyNeed
  <2>1. /\ s[n] \in [current : Nat, max : Nat \ {0}, rise : 0 .. MaxRate, relief : 0 .. MaxRelief]
        /\ MaxRate \in Nat /\ MaxRelief \in Nat
    BY SandboxAssumption DEF LegalNeed
  <2>2. Greater(0, s[n].current - s[n].relief) \in Int
    BY <2>1 DEF Greater
  <2>3. s[n] \in AnyNeed
    BY <2>1 DEF AnyNeed
  <2> QED
    BY <2>2, <2>3 DEF AnyNeed
<1> QED
  BY <1>1, ClampSurvivalGood DEF Relieved

LEMMA RegrownGood ==
    ASSUME NEW s \in LegalStock
    PROVE  Regrown(s) \in LegalStock
<1>1. /\ s \in [units : Nat, max : Nat, regen : 0 .. MaxRate, portion : 0 .. MaxRate,
                 action : Interaction]
      /\ MaxRate \in Nat
  BY SandboxAssumption DEF LegalStock
<1>2. s \in AnyStock
  BY <1>1 DEF AnyStock
<1>3. Smaller(s.max, s.units + s.regen) \in Int
  BY <1>1 DEF Smaller
<1>4. [s EXCEPT !.units = Smaller(s.max, s.units + s.regen)] \in AnyStock
  BY <1>2, <1>3 DEF AnyStock
<1> QED
  BY <1>4, ClampStockGood DEF Regrown

LEMMA ConsumedGood ==
    ASSUME NEW s \in LegalStock
    PROVE  Consumed(s) \in LegalStock
<1>1. /\ s \in [units : Nat, max : Nat, regen : 0 .. MaxRate, portion : 0 .. MaxRate,
                 action : Interaction]
      /\ MaxRate \in Nat
  BY SandboxAssumption DEF LegalStock
<1>2. s \in AnyStock
  BY <1>1 DEF AnyStock
<1>3. Greater(0, s.units - s.portion) \in Int
  BY <1>1 DEF Greater
<1>4. [s EXCEPT !.units = Greater(0, s.units - s.portion)] \in AnyStock
  BY <1>2, <1>3 DEF AnyStock
<1> QED
  BY <1>2, <1>4, ClampStockGood DEF Consumed

-----------------------------------------------------------------------------
(* Type correctness, with the limits of needs and units.                   *)

\* The world as reset leaves it.
LEMMA SeedGood ==
    /\ SeedPos \in [Agent -> [x : Int, y : Int]]
    /\ [a \in Agent |-> ClampMind(SeedMind[a])] \in [Agent -> LegalMind]
    /\ [a \in Agent |-> ClampSurvival(SeedSurvival[a])] \in [Agent -> [Need -> LegalNeed]]
    /\ [t \in Thing |-> ClampStock(SeedStock[t])] \in [Thing -> LegalStock]
<1>1. ASSUME NEW a \in Agent
      PROVE  /\ ClampMind(SeedMind[a]) \in LegalMind
             /\ ClampSurvival(SeedSurvival[a]) \in [Need -> LegalNeed]
  <2>1. SeedMind[a].semantic \in Int /\ SeedMind[a].behavior \in Int
    BY SandboxAssumption
  <2>2. SeedSurvival[a] \in [Need -> AnyNeed]
    BY SandboxAssumption DEF AnyNeed
  <2> QED
    BY <2>1, <2>2, ClampMindGood, ClampSurvivalGood
<1>2. ASSUME NEW t \in Thing PROVE ClampStock(SeedStock[t]) \in LegalStock
  <2>1. SeedStock[t] \in AnyStock
    BY SandboxAssumption DEF AnyStock
  <2> QED
    BY <2>1, ClampStockGood
<1> QED
  BY <1>1, <1>2, SandboxAssumption

LEMMA TypeInit == Init => TypeOK
<1> SUFFICES ASSUME Init PROVE TypeOK
  OBVIOUS
<1>1. /\ survival \in [Agent -> [Need -> LegalNeed]]
      /\ stock \in [Thing -> LegalStock]
      /\ pos \in [Agent -> [x : Int, y : Int]]
      /\ mind \in [Agent -> LegalMind]
  BY SeedGood DEF Init
<1>2. tick \in Nat /\ ops \in 0 .. MaxOps /\ reply \in {200, 400, 404}
  BY SandboxAssumption DEF Init
<1>3. batch \in [left : Nat, move : Net, interact : BOOLEAN]
  BY SandboxAssumption DEF Init, Idle, Point, Net
<1>4. file \in Content /\ binding \in Content \cup {None} /\ bindingError \in BOOLEAN
  BY SandboxAssumption DEF Init
<1> QED
  BY <1>1, <1>2, <1>3, <1>4 DEF TypeOK

\* Each request and each tick keeps the types and the limits.
LEMMA TypeNext == TypeOK /\ [Next]_vars => TypeOK'
<1> SUFFICES ASSUME TypeOK, [Next]_vars PROVE TypeOK'
  OBVIOUS
<1> USE DEF TypeOK
<1>1. CASE Refuse
  BY <1>1, SandboxAssumption DEF Refuse, Request, world
<1>2. CASE Reset
  <2>1. /\ pos' \in [Agent -> [x : Int, y : Int]]
        /\ mind' \in [Agent -> LegalMind]
        /\ survival' \in [Agent -> [Need -> LegalNeed]]
        /\ stock' \in [Thing -> LegalStock]
        /\ tick' \in Nat
    BY <1>2, SeedGood DEF Reset, Seeded
  <2> QED
    BY <1>2, <2>1, SandboxAssumption DEF Reset, Request
<1>3. CASE Reload
  BY <1>3, SandboxAssumption DEF Reload, Request, world
<1>4. CASE UpdateAgent
  <2>1. PICK a \in Agent, blocks \in SUBSET Block, weight \in WeightInput,
             n \in Need, patch \in SurvivalPatch, bad \in Block \cup {None} :
             /\ ApplyMind(a, Applied(blocks, bad), weight)
             /\ ApplySurvival(a, Applied(blocks, bad), n, patch)
             /\ reply' = IF bad = None THEN 200 ELSE 400
    BY <1>4 DEF UpdateAgent
  <2> DEFINE applied == Applied(blocks, bad)
             m == [b \in {"semantic", "behavior"} |->
                      IF b \in applied THEN weight ELSE mind[a][b]]
             s == [survival[a] EXCEPT ![n] = PatchedNeed(survival[a][n], patch)]
  <2>2. UNCHANGED <<tick, pos, stock, binding, bindingError, file, batch>> /\ ops' \in 0 .. MaxOps
    BY <1>4, SandboxAssumption DEF UpdateAgent, Request
  <2>3. ClampMind(m) \in LegalMind
    <3>1. weight \in Int /\ MaxSemantic \in Nat /\ MaxBehavior \in Nat
      BY SandboxAssumption
    <3>2. mind[a].semantic \in Int /\ mind[a].behavior \in Int
      BY <3>1 DEF LegalMind
    <3> HIDE DEF applied
    <3>3. m.semantic \in Int /\ m.behavior \in Int
      BY <3>1, <3>2
    <3> QED
      BY <3>3, ClampMindGood
  <2>4. ClampSurvival(s) \in [Need -> LegalNeed]
    <3>1. survival[a] \in [Need -> AnyNeed]
      BY SandboxAssumption DEF LegalNeed, AnyNeed
    <3>2. \A f \in DOMAIN patch : patch[f] \in Int
      BY SandboxAssumption
    <3>3. PatchedNeed(survival[a][n], patch) \in AnyNeed
      BY <3>1, <3>2 DEF PatchedNeed, Given, AnyNeed
    <3>4. s \in [Need -> AnyNeed]
      BY <3>1, <3>3
    <3> QED
      BY <3>4, ClampSurvivalGood
  <2>5. mind' = [mind EXCEPT ![a] = ClampMind(m)]
    BY <2>1 DEF ApplyMind
  <2>6. survival' = survival \/ survival' = [survival EXCEPT ![a] = ClampSurvival(s)]
    BY <2>1 DEF ApplySurvival
  <2>7. reply' \in {200, 400, 404}
    BY <2>1
  <2> HIDE DEF m, s
  <2>8. mind' \in [Agent -> LegalMind] /\ survival' \in [Agent -> [Need -> LegalNeed]]
    BY <2>3, <2>4, <2>5, <2>6
  <2> QED
    BY <2>2, <2>7, <2>8
<1>5. CASE UpdateObject
  <2>1. PICK t \in Thing, patch \in StockPatch :
             stock' = [stock EXCEPT ![t] = ClampStock(PatchedStock(@, patch))]
    BY <1>5 DEF UpdateObject
  <2>2. \A f \in DOMAIN patch : IF f = "action" THEN patch[f] \in Interaction ELSE patch[f] \in Int
    BY SandboxAssumption
  <2>3. stock[t] \in AnyStock
    BY SandboxAssumption DEF LegalStock, AnyStock
  <2>4. PatchedStock(stock[t], patch) \in AnyStock
    BY <2>2, <2>3 DEF PatchedStock, Given, AnyStock
  <2>5. ClampStock(PatchedStock(stock[t], patch)) \in LegalStock
    BY <2>4, ClampStockGood
  <2>6. stock' \in [Thing -> LegalStock]
    BY <2>1, <2>5
  <2> QED
    BY <1>5, <2>6, SandboxAssumption DEF UpdateObject, Request
<1>6. CASE StartStep
  <2>1. batch' \in [left : Nat, move : Net, interact : BOOLEAN]
    BY <1>6, SandboxAssumption DEF StartStep
  <2> QED
    BY <1>6, <2>1, SandboxAssumption DEF StartStep, Request, world
<1>7. CASE Tick
  <2>1. pos' \in [Agent -> [x : Int, y : Int]]
    <3>1. /\ Move
          /\ \A a \in Agent : pos[a] \in [x : Int, y : Int]
      BY <1>7 DEF Tick
    <3> QED
      BY <3>1, MovedType DEF Move
  <2>2. PICK g \in Targets :
        /\ survival' = [a \in Agent |->
              Tired(IF a = Player /\ Consumes(g)
                    THEN Relieved(survival[a], stock[g].action) ELSE survival[a])]
        /\ stock' = [t \in Thing |->
              Regrown(IF t = g /\ Consumes(g) THEN Consumed(stock[t]) ELSE stock[t])]
    BY <1>7 DEF Tick, Live
  <2>3. survival' \in [Agent -> [Need -> LegalNeed]]
    <3>1. \A a \in Agent : survival[a] \in [Need -> LegalNeed]
      OBVIOUS
    <3>2. \A a \in Agent : (IF a = Player /\ Consumes(g)
                            THEN Relieved(survival[a], stock[g].action) ELSE survival[a])
                                \in [Need -> LegalNeed]
      BY <3>1, RelievedGood
    <3> QED
      BY <2>2, <3>2, TiredGood
  <2>4. stock' \in [Thing -> LegalStock]
    <3>1. \A t \in Thing : stock[t] \in LegalStock
      OBVIOUS
    <3>2. \A t \in Thing : (IF t = g /\ Consumes(g) THEN Consumed(stock[t]) ELSE stock[t])
                                \in LegalStock
      BY <3>1, ConsumedGood
    <3> QED
      BY <2>2, <3>2, RegrownGood
  <2>5. batch' \in [left : Nat, move : Net, interact : BOOLEAN]
    <3>1. Idle \in [left : Nat, move : Net, interact : BOOLEAN]
      BY SandboxAssumption DEF Idle, Point, Net
    <3>2. batch.left > 0 /\ (batch' = Idle \/ batch' = [batch EXCEPT !.left = @ - 1])
      BY <1>7 DEF Tick
    <3> QED
      BY <3>1, <3>2
  <2>6. /\ tick' \in Nat /\ reply' \in {200, 400, 404}
        /\ UNCHANGED <<mind, binding, bindingError, file, ops>>
    BY <1>7 DEF Tick
  <2> QED
    BY <2>1, <2>3, <2>4, <2>5, <2>6
<1>8. CASE EditFile
  BY <1>8, SandboxAssumption DEF EditFile, world
<1>9. CASE UNCHANGED vars
  BY <1>9 DEF vars
<1> QED
  BY <1>1, <1>2, <1>3, <1>4, <1>5, <1>6, <1>7, <1>8, <1>9 DEF Next

\* Every variable has its type; after any mix of updates, ticks and resets needs and units
\* keep their limits (clamp_survival_state, clamp_object_resource_state).
THEOREM SandboxTypeCorrect == Spec => []TypeOK
<1>1. Init => TypeOK
  BY TypeInit
<1>2. TypeOK /\ [Next]_vars => TypeOK'
  BY TypeNext
<1> QED
  BY <1>1, <1>2, PTL DEF Spec

-----------------------------------------------------------------------------
(* Positions.                                                              *)

\* Only ticks and resets move agents, ticks by steps from free places.
LEMMA FreeNext == TypeOK /\ AgentsStayFree /\ [Next]_vars => AgentsStayFree'
<1> SUFFICES ASSUME TypeOK, AgentsStayFree, [Next]_vars PROVE AgentsStayFree'
  OBVIOUS
<1>1. CASE Reset
  BY <1>1, SandboxAssumption DEF Reset, Seeded, AgentsStayFree
<1>2. CASE Tick
  <2>1. PICK nets \in [Agent \ {Player} -> Net] :
             pos' = [a \in Agent |-> Moved(pos[a], IF a = Player THEN batch.move ELSE nets[a])]
    BY <1>2 DEF Tick, Move
  <2>2. ASSUME NEW a \in Agent PROVE Free(pos'[a])
    <3>1. pos[a] \in [x : Int, y : Int] /\ Free(pos[a])
      BY <2>2 DEF TypeOK, AgentsStayFree
    <3>2. (IF a = Player THEN batch.move ELSE nets[a]) \in Net
      BY <2>2 DEF TypeOK
    <3> QED
      BY <2>1, <3>1, <3>2, MovedFree
  <2> QED
    BY <2>2 DEF AgentsStayFree
<1>3. CASE UNCHANGED pos
  BY <1>3 DEF AgentsStayFree
<1> QED
  BY <1>1, <1>2, <1>3
     DEF Next, Refuse, Reload, UpdateAgent, UpdateObject, StartStep, EditFile, world, vars

\* No agent is ever inside an obstacle or over the edge of the map, on every map whose two
\* obstacles are further apart than an agent's diameter and step
\* (clamp_to_bounds_and_obstacles).
THEOREM SandboxStaysFree == Spec => []AgentsStayFree
<1>1. Init => TypeOK /\ AgentsStayFree
  BY TypeInit, SandboxAssumption DEF Init, AgentsStayFree
<1>2. TypeOK /\ AgentsStayFree /\ [Next]_vars => (TypeOK /\ AgentsStayFree)'
  BY TypeNext, FreeNext
<1> QED
  BY <1>1, <1>2, PTL DEF Spec

-----------------------------------------------------------------------------
(* Refusals.                                                               *)

\* A block that is applied precedes the refused one, and survival precedes nothing.
LEMMA SurvivalIsLast ==
    ASSUME NEW blocks \in SUBSET Block, NEW bad \in Block
    PROVE  "survival" \notin Applied(blocks, bad)
BY SandboxAssumption DEF Applied, Precedes, Block

\* A request that is answered with an error leaves everything but an agent's weights, the
\* error text and the status as they were (the routes of http_server.cpp).
THEOREM SandboxRefusalsAreHarmless == Spec => RefusalsAreHarmless
<1>1. ASSUME [Next]_vars, ops' # ops, reply' \in {400, 404}
      PROVE  UNCHANGED <<tick, pos, survival, stock, binding>>
  <2>1. CASE Refuse \/ StartStep \/ EditFile
    BY <2>1 DEF Refuse, StartStep, EditFile, world
  <2>2. CASE Reset \/ UpdateObject
    BY <2>2, <1>1 DEF Reset, UpdateObject
  <2>3. CASE Reload
    BY <2>3, <1>1 DEF Reload, world
  <2>4. CASE UpdateAgent
    <3>1. PICK a \in Agent, blocks \in SUBSET Block, n \in Need, patch \in SurvivalPatch,
               bad \in Block \cup {None} :
               /\ ApplySurvival(a, Applied(blocks, bad), n, patch)
               /\ reply' = IF bad = None THEN 200 ELSE 400
      BY <2>4 DEF UpdateAgent
    <3>2. bad \in Block
      BY <3>1, <1>1
    <3>3. survival' = survival
      BY <3>1, <3>2, SurvivalIsLast DEF ApplySurvival
    <3> QED
      BY <2>4, <3>3 DEF UpdateAgent
  <2>5. CASE Tick \/ UNCHANGED vars
    BY <2>5, <1>1 DEF Tick, vars
  <2> QED
    BY <1>1, <2>1, <2>2, <2>3, <2>4, <2>5 DEF Next
<1>2. [Next]_vars => [ops' # ops /\ reply' \in {400, 404} =>
                         UNCHANGED <<tick, pos, survival, stock, binding>>]_vars
  BY <1>1
<1> QED
  BY <1>2, PTL DEF Spec, RefusalsAreHarmless

-----------------------------------------------------------------------------
(* Relief.                                                                 *)

\* Clamping what is legal changes nothing.
LEMMA ClampNeedLegal ==
    ASSUME NEW s \in LegalNeed
    PROVE  ClampNeed(s) = s
<1>1. /\ s \in [current : Nat, max : Nat \ {0}, rise : 0 .. MaxRate, relief : 0 .. MaxRelief]
      /\ s.current <= s.max /\ MaxRate \in Nat /\ MaxRelief \in Nat
  BY SandboxAssumption DEF LegalNeed
<1>2. /\ Greater(1, s.max) = s.max
      /\ Clamp(0, s.max, s.current) = s.current
      /\ Clamp(0, MaxRate, s.rise) = s.rise
      /\ Clamp(0, MaxRelief, s.relief) = s.relief
  BY <1>1 DEF Clamp, Greater, Smaller
<1> QED
  BY <1>1, <1>2 DEF ClampNeed

\* advance_survival_tick never lowers a need.
LEMMA TiredGrows ==
    ASSUME NEW s \in [Need -> LegalNeed], NEW n \in Need
    PROVE  Tired(s)[n].current >= s[n].current
<1> DEFINE u == [s[n] EXCEPT !.current = Smaller(s[n].max, s[n].current + s[n].rise)]
<1>1. /\ s[n] \in [current : Nat, max : Nat \ {0}, rise : 0 .. MaxRate, relief : 0 .. MaxRelief]
      /\ s[n].current <= s[n].max /\ MaxRate \in Nat /\ MaxRelief \in Nat
  BY SandboxAssumption DEF LegalNeed
<1>2. /\ Smaller(s[n].max, s[n].current + s[n].rise) \in s[n].current .. s[n].max
  BY <1>1 DEF Smaller
<1>3. u \in LegalNeed /\ u.current >= s[n].current
  BY <1>1, <1>2 DEF LegalNeed
<1>4. Tired(s)[n] = ClampNeed(u)
  BY DEF Tired, ClampSurvival
<1> QED
  BY <1>3, <1>4, ClampNeedLegal

\* An interaction only touches the need it relieves.
LEMMA RelievedOnly ==
    ASSUME NEW s \in [Need -> LegalNeed], NEW action, NEW n \in Need, n # Relieves(action)
    PROVE  Relieved(s, action)[n] = s[n]
BY ClampNeedLegal DEF Relieved, ClampSurvival

\* advance_survival_tick adds at most the regrowth, and takes nothing.
LEMMA RegrownUnits ==
    ASSUME NEW s \in LegalStock
    PROVE  Regrown(s).units >= s.units /\ Regrown(s).units <= s.units + s.regen
<1>1. /\ s \in [units : Nat, max : Nat, regen : 0 .. MaxRate, portion : 0 .. MaxRate,
                 action : Interaction]
      /\ s.units <= s.max /\ MaxRate \in Nat
  BY SandboxAssumption DEF LegalStock
<1>2. Regrown(s).units = Greater(0, Smaller(s.max, s.units + s.regen))
  BY <1>1 DEF Regrown, ClampStock
<1> QED
  BY <1>1, <1>2 DEF Greater, Smaller

\* What drinking or eating leaves.
LEMMA ConsumedUnits ==
    ASSUME NEW s \in LegalStock, s.action \in {"drink", "eat"}, HasPortion(s)
    PROVE  Consumed(s).units = s.units - s.portion /\ Consumed(s).regen = s.regen
<1>1. /\ s \in [units : Nat, max : Nat, regen : 0 .. MaxRate, portion : 0 .. MaxRate,
                 action : Interaction]
      /\ s.units <= s.max /\ MaxRate \in Nat /\ s.portion <= s.units
  BY SandboxAssumption DEF LegalStock, HasPortion
<1>2. /\ Consumed(s).units = Greater(0, Greater(0, s.units - s.portion))
      /\ Consumed(s).regen = Clamp(0, MaxRate, s.regen)
  BY <1>1 DEF Consumed, ClampStock
<1> QED
  BY <1>1, <1>2 DEF Greater, Smaller, Clamp

\* A tick pays for the relief it gives.
LEMMA TickPays == TypeOK /\ Tick => TickIsPaid
<1> SUFFICES ASSUME TypeOK, Tick PROVE TickIsPaid
  OBVIOUS
<1>1. PICK g \in Targets :
        /\ survival' = [a \in Agent |->
              Tired(IF a = Player /\ Consumes(g)
                    THEN Relieved(survival[a], stock[g].action) ELSE survival[a])]
        /\ stock' = [t \in Thing |->
              Regrown(IF t = g /\ Consumes(g) THEN Consumed(stock[t]) ELSE stock[t])]
  BY DEF Tick, Live
<1>2. /\ \A a \in Agent : survival[a] \in [Need -> LegalNeed]
      /\ \A t \in Thing : stock[t] \in LegalStock
      /\ Player \in Agent
  BY SandboxAssumption DEF TypeOK
<1>3. \A a \in Agent \ {Player}, n \in Need :
         survival'[a][n].current >= survival[a][n].current
  BY <1>1, <1>2, TiredGrows
<1>4. CASE ~Consumes(g)
  <2>1. \A n \in Need : survival'[Player][n].current >= survival[Player][n].current
    BY <1>1, <1>2, <1>4, TiredGrows
  <2>2. \A u \in Thing : stock'[u].units >= stock[u].units
    BY <1>1, <1>2, <1>4, RegrownUnits
  <2>3. \A n \in Need : /\ survival[Player][n].current \in Int
                        /\ survival'[Player][n].current \in Int
    BY <1>2, TypeNext DEF LegalNeed, TypeOK, Next
  <2>4. \A n \in Need : ~(survival'[Player][n].current < survival[Player][n].current)
    BY <2>1, <2>3
  <2> QED
    BY <1>3, <2>2, <2>4 DEF TickIsPaid
<1>5. CASE Consumes(g)
  <2> DEFINE s == stock[g]
  <2>1. /\ g \in Thing /\ batch.interact
        /\ InReach(Moved(pos[Player], batch.move), ThingPos[g])
    BY <1>5 DEF Targets, Consumes
  <2>2. pos'[Player] = Moved(pos[Player], batch.move)
    BY <1>2 DEF Tick, Move
  <2>3. \A u \in Thing \ {g} : stock'[u].units >= stock[u].units
    BY <1>1, <1>2, RegrownUnits
  <2>4. ASSUME NEW n \in Need, survival'[Player][n].current < survival[Player][n].current
        PROVE  Paid(n, g)
    <3>1. Relieves(s.action) = n
      <4>1. SUFFICES ASSUME n # Relieves(s.action) PROVE FALSE
        OBVIOUS
      <4>2. /\ Relieved(survival[Player], s.action) \in [Need -> LegalNeed]
            /\ Relieved(survival[Player], s.action)[n] = survival[Player][n]
        BY <1>2, <4>1, RelievedGood, RelievedOnly
      <4>3. survival'[Player] = Tired(Relieved(survival[Player], s.action))
        BY <1>1, <1>2, <1>5
      <4>4. survival'[Player][n].current >= survival[Player][n].current
        BY <4>2, <4>3, TiredGrows
      <4>5. survival[Player][n].current \in Int /\ survival'[Player][n].current \in Int
        BY <1>2, TypeNext DEF LegalNeed, TypeOK, Next
      <4> QED
        BY <2>4, <4>4, <4>5
    <3>2. ASSUME n # "fatigue"
          PROVE  /\ 0 < s.portion /\ s.portion <= s.units
                 /\ stock'[g].units <= s.units - s.portion + s.regen
      <4>1. s.action \in {"drink", "eat"} /\ HasPortion(s)
        BY <1>5, <3>1, <3>2 DEF Consumes, Consumable, Relieves
      <4>2. /\ Consumed(s) \in LegalStock
            /\ Consumed(s).units = s.units - s.portion /\ Consumed(s).regen = s.regen
        BY <2>1, <1>2, <4>1, ConsumedGood, ConsumedUnits
      <4>3. stock'[g] = Regrown(Consumed(s))
        BY <1>1, <1>5, <2>1
      <4>4. s.portion \in Int /\ s.units \in Int
        BY <1>2, <2>1, SandboxAssumption DEF LegalStock
      <4> QED
        BY <4>1, <4>2, <4>3, <4>4, RegrownUnits DEF HasPortion
    <3> QED
      BY <2>1, <2>2, <3>1, <3>2 DEF Paid
  <2>5. None \notin Thing
    BY SandboxAssumption
  <2> QED
    BY <1>3, <2>1, <2>3, <2>4, <2>5 DEF TickIsPaid
<1> QED
  BY <1>4, <1>5

\* A need only falls in a tick in which the player asked to interact, with a thing in reach
\* that relieves it; what is not a place to sleep gave a whole portion, and nothing else
\* lost units (apply_player_interaction, advance_survival_tick).
THEOREM SandboxReliefIsPaid == Spec => ReliefIsPaid
<1>1. TypeOK /\ [Next]_vars => [tick' = tick + 1 => TickIsPaid]_vars
  <2> SUFFICES ASSUME TypeOK, [Next]_vars, tick' = tick + 1 PROVE TickIsPaid
    OBVIOUS
  <2>1. tick \in Nat
    BY DEF TypeOK
  <2>2. tick' # tick /\ tick' # 0
    BY <2>1
  <2>3. Tick
    BY <2>2 DEF Next, Refuse, Reset, Seeded, Reload, UpdateAgent, UpdateObject, StartStep,
                EditFile, world, vars
  <2> QED
    BY <2>3, TickPays
<1> QED
  BY <1>1, SandboxTypeCorrect, PTL DEF Spec, ReliefIsPaid

-----------------------------------------------------------------------------
(* The preview compares quotients by their cross products.                 *)

LEMMA TimesMonotone ==
    ASSUME NEW x \in Int, NEW y \in Int, NEW d \in Nat, x <= y
    PROVE  x * d <= y * d
<1>1. (y - x) \in Nat
  OBVIOUS
<1>2. (y - x) * d \in Nat
  BY <1>1
<1> QED BY <1>2

LEMMA TimesStrict ==
    ASSUME NEW x \in Int, NEW y \in Int, NEW d \in Nat \ {0}, x < y
    PROVE  x * d < y * d
<1>1. (x + 1) * d <= y * d
  BY TimesMonotone
<1>2. (x + 1) * d = x * d + d
  OBVIOUS
<1> QED BY <1>1, <1>2

\* a / b > c / d and c / d >= e / f, without the divisions.
LEMMA PressuresCompare ==
    ASSUME NEW a \in Nat, NEW b \in Nat \ {0}, NEW c \in Nat, NEW d \in Nat \ {0},
           NEW e \in Nat, NEW f \in Nat \ {0},
           a * d > c * b, c * f >= e * d
    PROVE  a * f > e * b
<1>1. (c * b) * f < (a * d) * f
  BY TimesStrict
<1>2. (e * d) * b <= (c * f) * b
  BY TimesMonotone
<1>3. (e * b) * d < (a * f) * d
  BY <1>1, <1>2
<1>4. SUFFICES ASSUME a * f <= e * b PROVE FALSE
  OBVIOUS
<1>5. (a * f) * d <= (e * b) * d
  BY <1>4, TimesMonotone
<1> QED BY <1>3, <1>5

\* The preview names a need under the highest pressure, and the first of those, because
\* the clamps keep every maximum positive.
THEOREM SandboxPreviewIsMostPressing == Spec => []PreviewIsMostPressing
<1>1. ASSUME NEW s \in [Need -> LegalNeed], NEW m \in Need, NEW n \in Need, NEW k \in Need,
             Presses(s, m, n), ~Presses(s, k, n)
      PROVE  Presses(s, m, k)
  <2>1. /\ s[m].current \in Nat /\ s[m].max \in Nat \ {0}
        /\ s[n].current \in Nat /\ s[n].max \in Nat \ {0}
        /\ s[k].current \in Nat /\ s[k].max \in Nat \ {0}
    BY DEF LegalNeed
  <2>2. /\ s[m].current * s[n].max > s[n].current * s[m].max
        /\ s[n].current * s[k].max >= s[k].current * s[n].max
    BY <1>1, <2>1 DEF Presses
  <2> QED BY <2>1, <2>2, PressuresCompare DEF Presses
<1>2. ASSUME NEW s \in [Need -> LegalNeed], NEW m \in Need, NEW n \in Need, Presses(s, m, n)
      PROVE  ~Presses(s, n, m)
  BY <1>2 DEF Presses, LegalNeed
<1>3. ASSUME NEW s \in [Need -> LegalNeed], NEW n, n = Preview(s)
      PROVE  /\ \A m \in Need : ~Presses(s, m, n)
             /\ n = "hunger" => Presses(s, n, "thirst")
             /\ n = "fatigue" => Presses(s, n, "thirst") /\ Presses(s, n, "hunger")
             /\ n \in Need
  <2>1. {"thirst", "hunger", "fatigue"} = Need
    BY DEF Need
  <2>2. ASSUME NEW m \in Need PROVE ~Presses(s, m, m)
    BY <1>2
  <2>3. CASE Presses(s, "hunger", "thirst")
    BY <1>1, <1>2, <1>3, <2>1, <2>2, <2>3 DEF Preview
  <2>4. CASE ~Presses(s, "hunger", "thirst")
    BY <1>1, <1>2, <1>3, <2>1, <2>2, <2>4 DEF Preview
  <2> QED BY <2>3, <2>4
<1>4. TypeOK => PreviewIsMostPressing
  <2> DEFINE Earlier(n) == CASE n = "thirst" -> {}
                             [] n = "hunger" -> {"thirst"}
                             [] OTHER        -> {"thirst", "hunger"}
             Right(s, n) == /\ \A m \in Need : ~Presses(s, m, n)
                            /\ \A m \in Earlier(n) : Presses(s, n, m)
  <2> SUFFICES ASSUME TypeOK, NEW a \in Agent
               PROVE  Right(survival[a], Preview(survival[a]))
    BY Zenon DEF PreviewIsMostPressing, Presses
  <2>1. PICK s, n : s = survival[a] /\ n = Preview(s)
    OBVIOUS
  <2>2. s \in [Need -> LegalNeed]
    BY <2>1 DEF TypeOK
  <2>3. /\ \A m \in Need : ~Presses(s, m, n)
        /\ n = "hunger" => Presses(s, n, "thirst")
        /\ n = "fatigue" => Presses(s, n, "thirst") /\ Presses(s, n, "hunger")
        /\ n \in {"thirst", "hunger", "fatigue"}
    BY <1>3, <2>1, <2>2 DEF Need
  <2> QED BY <2>1, <2>3
<1> QED BY <1>4, SandboxTypeCorrect, PTL
================================================================================
