SPECIFICATION Spec
CONSTANTS
    p1 = p1
    p2 = p2
    alice = alice
    bob = bob
    Proc = {p1, p2}
    Player = {alice, bob}
    QueryId = {7, 9}
    Score = {1, 3}
    Legacy <- MCLegacy
    MaxRows = 3
    MaxOps = 5
    MaxCrashes = 1
    None = None
SYMMETRY Symmetry
CHECK_DEADLOCK FALSE
INVARIANT TypeOK TablesAgree
PROPERTY ReportsSound
