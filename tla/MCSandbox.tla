------------------------------ MODULE MCSandbox ------------------------------
(* A small sandbox for TLC. *)
EXTENDS Sandbox, TLC

CONSTANTS red, blue, water, shelter, mapping, other, broken

MCFirst == [x |-> 2, y |-> 2, w |-> 1, h |-> 1]
MCSecond == [x |-> 6, y |-> 0, w |-> 1, h |-> 1]

MCSeedPos == (red :> Point(4, 2)) @@ (blue :> Point(1, 2))
MCThingPos == (water :> Point(5, 2)) @@ (shelter :> Point(4, 4))

NeedOf(current, rise, relief) ==
    [current |-> current, max |-> 3, rise |-> rise, relief |-> relief]

MCSeedSurvival ==
    [a \in {red, blue} |->
        [thirst |-> NeedOf(2, 1, 2), hunger |-> NeedOf(2, 0, 1), fatigue |-> NeedOf(1, 1, 2)]]
MCSeedMind == [a \in {red, blue} |-> [semantic |-> 1, behavior |-> 2]]

MCSeedStock ==
    (water :> [units |-> 3, max |-> 3, regen |-> 1, portion |-> 2, action |-> "drink"]) @@
    (shelter :> [units |-> 1, max |-> 1, regen |-> 0, portion |-> 0, action |-> "sleep"])

\* Out of range, a maximum below the current value, equal pressures of different maxima.
MCSurvivalPatch ==
    {[current |-> 5, rise |-> -1], [max |-> 0], [current |-> 2, max |-> 2],
     [current |-> 4, max |-> 4], [relief |-> 9]}

\* A rest of a portion, an emptied thing, a maximum below the units, more than the
\* maximum, another use with small portions, and none at all.
MCStockPatch ==
    {[units |-> 1, regen |-> -1], [units |-> -1, regen |-> 9], [max |-> 1], [units |-> 5],
     [action |-> "eat", portion |-> 1], [portion |-> 0]}

MCWeightInput == {5}
=============================================================================
