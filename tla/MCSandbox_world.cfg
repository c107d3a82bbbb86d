SPECIFICATION Spec
CONSTANTS
    red = red
    blue = blue
    water = water
    shelter = shelter
    mapping = mapping
    other = other
    broken = broken
    Agent = {red, blue}
    Thing = {water, shelter}
    Player = red
    MapWidth = 8
    MapHeight = 4
    Radius = 1
    First <- MCFirst
    Second <- MCSecond
    Stride = 1
    Reach = 2
    ThingPos <- MCThingPos
    SeedPos <- MCSeedPos
    SeedSurvival <- MCSeedSurvival
    SeedMind <- MCSeedMind
    SeedStock <- MCSeedStock
    MaxRate = 2
    MaxRelief = 3
    MaxSemantic = 1
    MaxBehavior = 3
    SurvivalPatch <- MCSurvivalPatch
    StockPatch <- MCStockPatch
    WeightInput <- MCWeightInput
    Content = {mapping, other, broken}
    Valid = {mapping, other}
    MaxBatch = 2
    MaxOps = 2
    None = None
CHECK_DEADLOCK FALSE
INVARIANT TypeOK AgentsStayFree PreviewIsMostPressing
PROPERTY ReliefIsPaid RefusalsAreHarmless
