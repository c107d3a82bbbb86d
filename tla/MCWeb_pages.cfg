SPECIFICATION FairSpec
CONSTANTS
    Main = Main
    i1 = i1
    phrase = phrase
    empty = empty
    class = class
    c1 = c1
    c2 = c2
    agent = agent
    Idle = {i1}
    Checks = 2
    None = None
    Text = {phrase, empty}
    Empty = empty
    Domain = {class}
    Cluster = {c1, c2}
    Entity = {agent}
    MaxFetches <- MCMaxFetches
CHECK_DEADLOCK FALSE
INVARIANT TypeOK ExitIsHonest FormsLoseNothing
PROPERTY PairsMatch ShutdownCompletes
