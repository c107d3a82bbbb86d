-------------------------------- MODULE Sandbox --------------------------------
(***************************************************************************)
(* The sandbox world (src/sandbox/sandbox_world.cpp), its survival binding *)
(* (src/sandbox/survival_binding.cpp) and the routes /api/sandbox/* of     *)
(* src/playable/http_server.cpp. The world lives in memory. The server     *)
(* runs one handler at a time, so that a request is never interleaved with *)
(* another one; a step request is a batch of ticks.                        *)
(*                                                                         *)
(* Doubles are integers here. Which way an agent that is not the player    *)
(* moves, and which thing in reach lies in front of the player, depend on  *)
(* sums of weights and on angles: any choice is allowed.                   *)
(***************************************************************************)
EXTENDS Integers

CONSTANTS
    Agent, Thing,           \* agents_ and objects_, by id
    Player,                 \* the agent that is_player_controlled
    MapWidth, MapHeight,
    Radius,                 \* of every agent
    First, Second,          \* obstacles_: [x, y, w, h]
    Stride,                 \* the longest step along an axis (move_speed, kStepSize)
    Reach,                  \* interaction_radius of the player
    ThingPos,               \* positions of the objects, which never move
    SeedPos, SeedSurvival, SeedMind, SeedStock,     \* the literals of seed_world
    MaxRate, MaxRelief, MaxSemantic, MaxBehavior,   \* limits of the clamps
    SurvivalPatch, StockPatch, WeightInput,         \* what update requests carry
    Content, Valid,         \* contents of the binding file; those that parse
    MaxBatch,               \* bound: ticks of one step request (500)
    MaxOps,                 \* bound: requests in a behaviour
    None                    \* absence of a value

VARIABLES
    tick,         \* tick_counter_
    pos,          \* x and y of each agent
    mind,         \* of each agent: a weight for its semantic and its behavior block
    survival,     \* of each agent, by need: [current, max, rise, relief]
    stock,        \* of each thing: [units, max, regen, portion, action]
    binding,      \* survival_binding_, or None before it is loaded
    bindingError, \* survival_binding_last_error_ is not empty
    file,         \* content of the binding file on disk
    batch,        \* the step request that is served: [left, move, interact]
    reply,        \* status of the last response
    ops           \* requests so far

vars == <<tick, pos, mind, survival, stock, binding, bindingError, file, batch, reply, ops>>

Need == {"thirst", "hunger", "fatigue"}
Block == {"semantic", "behavior", "survival"}
Interaction == {"drink", "eat", "sleep", "inspect"}

-----------------------------------------------------------------------------
(* Clamps.                                                                 *)

Greater(a, b) == IF a > b THEN a ELSE b
Smaller(a, b) == IF a < b THEN a ELSE b
Clamp(low, high, v) == Greater(low, Smaller(high, v))

\* Mutant: the current value is not lowered with its maximum.
ClampNeedLimits(s) ==
    [current |-> Greater(0, s.current), max |-> Greater(1, s.max),
     rise |-> Clamp(0, MaxRate, s.rise), relief |-> Clamp(0, MaxRelief, s.relief)]

\* clamp_survival_state, one need.
ClampNeed(s) ==
    [current |-> Clamp(0, Greater(1, s.max), s.current),
     max     |-> Greater(1, s.max),
     rise    |-> Clamp(0, MaxRate, s.rise),
     relief  |-> Clamp(0, MaxRelief, s.relief)]

ClampSurvival(s) == [n \in Need |-> ClampNeed(s[n])]

\* clamp_object_resource_state: a maximum below the units is raised to them.
ClampStock(s) ==
    [units   |-> Greater(0, s.units),
     max     |-> Greater(Greater(0, s.max), Greater(0, s.units)),
     regen   |-> Clamp(0, MaxRate, s.regen),
     portion |-> Clamp(0, MaxRate, s.portion),
     action  |-> s.action]

ClampMind(m) ==
    [semantic |-> Clamp(0, MaxSemantic, m.semantic),
     behavior |-> Clamp(0, MaxBehavior, m.behavior)]

-----------------------------------------------------------------------------
(* Movement.                                                               *)

Point(x, y) == [x |-> x, y |-> y]

\* rect_contains: a circle around p touches the rectangle's inside.
Contains(o, p) ==
    /\ p.x + Radius > o.x /\ p.x - Radius < o.x + o.w
    /\ p.y + Radius > o.y /\ p.y - Radius < o.y + o.h

InWidth(x) == Clamp(Radius, MapWidth - Radius, x)
InHeight(y) == Clamp(Radius, MapHeight - Radius, y)

\* Mutant: the agent slides along the vertical axis without a test.
AvoidUntested(o, prev, p) == IF Contains(o, p) THEN Point(InWidth(prev.x), p.y) ELSE p

\* The iteration of clamp_to_bounds_and_obstacles for obstacle o.
Avoid(o, prev, p) ==
    IF ~Contains(o, p) THEN p
    ELSE IF ~Contains(o, Point(InWidth(prev.x), p.y)) THEN Point(InWidth(prev.x), p.y)
    ELSE IF ~Contains(o, Point(p.x, InHeight(prev.y))) THEN Point(p.x, InHeight(prev.y))
    ELSE prev

\* clamp_to_bounds_and_obstacles after a step from prev.
Moved(prev, net) ==
    LET p == Point(InWidth(prev.x + net.x), InHeight(prev.y + net.y))
    IN  Avoid(Second, prev, Avoid(First, prev, p))

Net == [x : -Stride .. Stride, y : -Stride .. Stride]

Free(p) ==
    /\ p.x \in Radius .. MapWidth - Radius
    /\ p.y \in Radius .. MapHeight - Radius
    /\ ~Contains(First, p)
    /\ ~Contains(Second, p)

\* What the seeded map, its agents and the requests are like. No agent can come near
\* both obstacles within one step, and nobody starts inside one.
ASSUME SandboxAssumption ==
    /\ Player \in Agent
    /\ {MapWidth, MapHeight, Radius, Stride, Reach} \subseteq Nat
    /\ {MaxRate, MaxRelief, MaxSemantic, MaxBehavior, MaxBatch, MaxOps} \subseteq Nat
    /\ 2 * Radius <= MapWidth /\ 2 * Radius <= MapHeight
    /\ {First, Second} \subseteq [x : Int, y : Int, w : Nat, h : Nat]
    /\ \/ First.x + First.w + 2 * Radius + Stride <= Second.x
       \/ Second.x + Second.w + 2 * Radius + Stride <= First.x
       \/ First.y + First.h + 2 * Radius + Stride <= Second.y
       \/ Second.y + Second.h + 2 * Radius + Stride <= First.y
    /\ SeedPos \in [Agent -> [x : Int, y : Int]]
    /\ \A a \in Agent : Free(SeedPos[a])
    /\ ThingPos \in [Thing -> [x : Int, y : Int]]
    /\ SeedSurvival \in
          [Agent -> [Need -> [current : Int, max : Int, rise : Int, relief : Int]]]
    /\ SeedMind \in [Agent -> [semantic : Int, behavior : Int]]
    /\ SeedStock \in [Thing -> [units : Int, max : Int, regen : Int, portion : Int,
                                action : Interaction]]
    /\ \A p \in SurvivalPatch : \A f \in DOMAIN p : p[f] \in Int
    /\ \A p \in StockPatch : \A f \in DOMAIN p :
          IF f = "action" THEN p[f] \in Interaction ELSE p[f] \in Int
    /\ WeightInput \subseteq Int
    /\ Valid \subseteq Content
    /\ None \notin Content \cup Block \cup Thing

-----------------------------------------------------------------------------
(* Interaction.                                                            *)

Squared(v) == v * v

InReach(p, q) == Squared(p.x - q.x) + Squared(p.y - q.y) <= Squared(Reach)

Relieves(action) ==
    CASE action = "drink" -> "thirst"
      [] action = "eat"   -> "hunger"
      [] action = "sleep" -> "fatigue"
      [] OTHER            -> None

\* Mutant: any rest will do.
HasRest(s) == s.portion > 0 /\ s.units > 0

HasPortion(s) == s.portion > 0 /\ s.units >= s.portion

\* The target is a thing that has something to consume.
Consumable(s) ==
    \/ s.action \in {"drink", "eat"} /\ HasPortion(s)
    \/ s.action = "sleep"

\* apply_player_interaction, the player's needs and the units of the thing.
Relieved(s, action) ==
    ClampSurvival([n \in Need |->
        IF n = Relieves(action)
        THEN [s[n] EXCEPT !.current = Greater(0, s[n].current - s[n].relief)]
        ELSE s[n]])

Consumed(s) ==
    ClampStock(IF s.action = "sleep" THEN s
               ELSE [s EXCEPT !.units = Greater(0, s.units - s.portion)])

\* advance_survival_tick, one agent and one thing.
Tired(s) ==
    ClampSurvival([n \in Need |->
        [s[n] EXCEPT !.current = Smaller(s[n].max, s[n].current + s[n].rise)]])

Regrown(s) == ClampStock([s EXCEPT !.units = Smaller(s.max, s.units + s.regen)])

-----------------------------------------------------------------------------
(* compute_survival_preview: the first of the highest pressures, in the    *)
(* order thirst, hunger, fatigue. Pressure is current over max.            *)

\* Mutant: later needs win ties.
PressesOrTies(s, m, n) == s[m].current * s[n].max >= s[n].current * s[m].max

Presses(s, m, n) == s[m].current * s[n].max > s[n].current * s[m].max

Preview(s) ==
    LET best == IF Presses(s, "hunger", "thirst") THEN "hunger" ELSE "thirst"
    IN  IF Presses(s, "fatigue", best) THEN "fatigue" ELSE best

-----------------------------------------------------------------------------
(* Requests.                                                               *)

\* reset and seed_world.
Seeded ==
    /\ tick' = 0
    /\ pos' = SeedPos
    /\ mind' = [a \in Agent |-> ClampMind(SeedMind[a])]
    /\ survival' = [a \in Agent |-> ClampSurvival(SeedSurvival[a])]
    /\ stock' = [t \in Thing |-> ClampStock(SeedStock[t])]

Idle == [left |-> 0, move |-> Point(0, 0), interact |-> FALSE]

\* register_routes builds a world and loads the binding file if it can.
Init ==
    /\ tick = 0
    /\ pos = SeedPos
    /\ mind = [a \in Agent |-> ClampMind(SeedMind[a])]
    /\ survival = [a \in Agent |-> ClampSurvival(SeedSurvival[a])]
    /\ stock = [t \in Thing |-> ClampStock(SeedStock[t])]
    /\ file \in Content
    /\ binding = IF file \in Valid THEN file ELSE None
    /\ bindingError = (file \notin Valid)
    /\ batch = Idle
    /\ reply = 200
    /\ ops = 0

Request ==
    /\ batch.left = 0
    /\ ops < MaxOps
    /\ ops' = ops + 1

world == <<tick, pos, mind, survival, stock>>

\* A body that does not parse, a field of a wrong type, steps outside 1 .. 500, or no
\* agent or object of that id.
Refuse ==
    /\ Request
    /\ reply' \in {400, 404}
    /\ UNCHANGED <<world, binding, bindingError, file, batch>>

\* POST /api/sandbox/reset.
Reset ==
    /\ Request
    /\ Seeded
    /\ reply' = 200
    /\ UNCHANGED <<binding, bindingError, file, batch>>

\* Mutant: the parser writes into the mapping in use.
ReloadInPlace ==
    /\ Request
    /\ binding' = file
    /\ bindingError' = (file \notin Valid)
    /\ reply' = IF file \in Valid THEN 200 ELSE 400
    /\ UNCHANGED <<world, file, batch>>

\* POST /api/sandbox/survival_binding/reload. A failure keeps the mapping in use.
Reload ==
    /\ Request
    /\ binding' = IF file \in Valid THEN file ELSE binding
    /\ bindingError' = (file \notin Valid)
    /\ reply' = IF file \in Valid THEN 200 ELSE 400
    /\ UNCHANGED <<world, file, batch>>

Given(patch, s, f) == IF f \in DOMAIN patch THEN patch[f] ELSE s[f]

PatchedNeed(s, patch) ==
    [current |-> Given(patch, s, "current"), max |-> Given(patch, s, "max"),
     rise |-> Given(patch, s, "rise"), relief |-> Given(patch, s, "relief")]

PatchedStock(s, patch) ==
    [units |-> Given(patch, s, "units"), max |-> Given(patch, s, "max"),
     regen |-> Given(patch, s, "regen"), portion |-> Given(patch, s, "portion"),
     action |-> Given(patch, s, "action")]

\* The handler takes the blocks in this order and stops at the first that is no object.
Precedes(b, c) ==
    \/ b = "semantic" /\ c # "semantic"
    \/ b = "behavior" /\ c = "survival"

\* The blocks that are applied when "bad" is the first that is refused.
Applied(blocks, bad) == {b \in blocks : bad = None \/ Precedes(b, bad)}

ApplyMind(a, applied, weight) ==
    mind' = [mind EXCEPT ![a] =
               ClampMind([b \in {"semantic", "behavior"} |->
                             IF b \in applied THEN weight ELSE mind[a][b]])]

ApplySurvival(a, applied, n, patch) ==
    IF "survival" \in applied
    THEN survival' = [survival EXCEPT ![a] =
            ClampSurvival([survival[a] EXCEPT ![n] = PatchedNeed(survival[a][n], patch)])]
    ELSE survival' = survival

\* POST /api/sandbox/agent/update. Each block is applied before the next is looked at.
UpdateAgent ==
    /\ Request
    /\ \E a \in Agent, blocks \in SUBSET Block, weight \in WeightInput,
          n \in Need, patch \in SurvivalPatch :
          \E bad \in blocks \cup {None} :
             /\ blocks # {}
             /\ ApplyMind(a, Applied(blocks, bad), weight)
             /\ ApplySurvival(a, Applied(blocks, bad), n, patch)
             /\ reply' = IF bad = None THEN 200 ELSE 400
    /\ UNCHANGED <<tick, pos, stock, binding, bindingError, file, batch>>

\* POST /api/sandbox/object/update.
UpdateObject ==
    /\ Request
    /\ \E t \in Thing, patch \in StockPatch :
          stock' = [stock EXCEPT ![t] = ClampStock(PatchedStock(@, patch))]
    /\ reply' = 200
    /\ UNCHANGED <<tick, pos, mind, survival, binding, bindingError, file, batch>>

\* POST /api/sandbox/step: the same input for every tick of the batch.
StartStep ==
    /\ Request
    /\ \E n \in 1 .. MaxBatch, move \in Net, interact \in BOOLEAN :
          batch' = [left |-> n, move |-> move, interact |-> interact]
    /\ UNCHANGED <<world, binding, bindingError, file, reply>>

-----------------------------------------------------------------------------
(* One tick: step_once_with_input.                                         *)

\* pick_interaction_target: a thing in reach, or None for no target or another agent,
\* which is not consumed.
Targets ==
    LET here == Moved(pos[Player], batch.move)
    IN  {None} \cup {t \in Thing : batch.interact /\ InReach(here, ThingPos[t])}

\* The player moves as told, the others by what attracts and repels them.
Move ==
    \E nets \in [Agent \ {Player} -> Net] :
        pos' = [a \in Agent |-> Moved(pos[a], IF a = Player THEN batch.move ELSE nets[a])]

Consumes(g) == g # None /\ Consumable(stock[g])

\* The player consumes, then everybody tires and everything regrows.
Live ==
    \E g \in Targets :
        /\ survival' = [a \in Agent |->
              Tired(IF a = Player /\ Consumes(g)
                    THEN Relieved(survival[a], stock[g].action) ELSE survival[a])]
        /\ stock' = [t \in Thing |->
              Regrown(IF t = g /\ Consumes(g) THEN Consumed(stock[t]) ELSE stock[t])]

Tick ==
    /\ batch.left > 0
    /\ Move
    /\ Live
    /\ tick' = tick + 1
    /\ batch' = IF batch.left = 1 THEN Idle ELSE [batch EXCEPT !.left = @ - 1]
    /\ reply' = IF batch.left = 1 THEN 200 ELSE reply
    /\ UNCHANGED <<mind, binding, bindingError, file, ops>>

\* Somebody edits the binding file.
EditFile ==
    /\ batch.left = 0
    /\ ops < MaxOps
    /\ file' \in Content \ {file}
    /\ ops' = ops + 1
    /\ UNCHANGED <<world, binding, bindingError, batch, reply>>

Next ==
    \/ Refuse
    \/ Reset
    \/ Reload
    \/ UpdateAgent
    \/ UpdateObject
    \/ StartStep
    \/ Tick
    \/ EditFile

Spec == Init /\ [][Next]_vars

-----------------------------------------------------------------------------
(* Properties.                                                             *)

\* The limits the clamps are for (clamp_survival_state, clamp_object_resource_state).
LegalNeed ==
    {s \in [current : Nat, max : Nat \ {0}, rise : 0 .. MaxRate, relief : 0 .. MaxRelief] :
        s.current <= s.max}

LegalStock ==
    {s \in [units : Nat, max : Nat, regen : 0 .. MaxRate, portion : 0 .. MaxRate,
            action : Interaction] :
        s.units <= s.max}

LegalMind == [semantic : 0 .. MaxSemantic, behavior : 0 .. MaxBehavior]

\* Every variable has its type. After any mix of updates, ticks and resets every need is
\* between 0 and its own maximum, which is positive, and no thing holds more than its
\* maximum.
TypeOK ==
    /\ tick \in Nat
    /\ pos \in [Agent -> [x : Int, y : Int]]
    /\ mind \in [Agent -> LegalMind]
    /\ survival \in [Agent -> [Need -> LegalNeed]]
    /\ stock \in [Thing -> LegalStock]
    /\ binding \in Content \cup {None}
    /\ bindingError \in BOOLEAN
    /\ file \in Content
    /\ batch \in [left : Nat, move : Net, interact : BOOLEAN]
    /\ reply \in {200, 400, 404}
    /\ ops \in 0 .. MaxOps

\* No agent is ever inside an obstacle or over the edge of the map: when
\* clamp_to_bounds_and_obstacles puts it back along one axis it tests what comes of that, and
\* takes the whole step back if need be. (It goes through the obstacles only once, which is
\* enough because an agent never meets two of them at a time: see the assumption on their gap.)
AgentsStayFree == \A a \in Agent : Free(pos[a])

\* The preview names a need with the highest pressure, the first one in the order
\* thirst, hunger, fatigue among equals, whatever the maxima are: pressures are only
\* comparable while the clamps keep every maximum positive (compute_survival_preview).
PreviewIsMostPressing ==
    \A a \in Agent :
       LET s == survival[a]
           n == Preview(s)
           Over(m, k) == s[m].current * s[k].max > s[k].current * s[m].max
           earlier == CASE n = "thirst" -> {}
                        [] n = "hunger" -> {"thirst"}
                        [] OTHER        -> {"thirst", "hunger"}
       IN  /\ \A m \in Need : ~Over(m, n)
           /\ \A m \in earlier : Over(n, m)

\* Need n is relieved by thing t in this tick, and paid for.
Paid(n, t) ==
    /\ batch.interact
    /\ InReach(pos'[Player], ThingPos[t])
    /\ Relieves(stock[t].action) = n
    /\ n # "fatigue" =>
          /\ 0 < stock[t].portion /\ stock[t].portion <= stock[t].units
          /\ stock'[t].units <= stock[t].units - stock[t].portion + stock[t].regen

TickIsPaid ==
    /\ \A a \in Agent \ {Player}, n \in Need :
          survival'[a][n].current >= survival[a][n].current
    /\ \E t \in Thing \cup {None} :
          /\ \A n \in Need : survival'[Player][n].current < survival[Player][n].current
                => t # None /\ Paid(n, t)
          /\ \A u \in Thing \ {t} : stock'[u].units >= stock[u].units

\* A tick in which a need falls: it is the player's, the player asked to interact, and a
\* thing that relieves it is in reach of where the player now stands; unless it is a
\* place to sleep it held a whole portion, which is gone up to what regrows in the tick.
\* No other thing loses units (apply_player_interaction, advance_survival_tick).
ReliefIsPaid == [][tick' = tick + 1 => TickIsPaid]_vars

\* A request that is answered with an error leaves the world and the mapping in use as
\* they were. The exception are an agent's weights: the update handler has applied the
\* blocks that come before the one it refuses.
RefusalsAreHarmless ==
    [][ops' # ops /\ reply' \in {400, 404} =>
          UNCHANGED <<tick, pos, survival, stock, binding>>]_vars
=============================================================================
