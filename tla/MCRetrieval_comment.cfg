SPECIFICATION Spec
CONSTANTS
    p1 = p1
    p2 = p2
    hA = hA
    hB = hB
    sA = sA
    sB = sB
    sA2 = sA2
    Proc <- MCServer
    Prompt = {hA, hB}
    Submit = {sA, sA2, sB}
    PromptOf <- MCTwoPrompts
    Caller <- MCCaller
    Reward = {0}
    MinCandidates = 2
    PruneMinRewards = 1
    PruneMeanReward = 1
    MaxOps = 3
    MaxCrashes = 0
    None = None
CHECK_DEADLOCK FALSE
INVARIANT NoDuplicateRows
