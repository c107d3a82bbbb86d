SPECIFICATION RaceSpec
CONSTANTS
    p1 = p1
    p2 = p2
    hA = hA
    hB = hB
    sA = sA
    sB = sB
    sA2 = sA2
    Proc <- MCProcs
    Prompt = {hA}
    Submit = {sA}
    PromptOf <- MCOnePrompt
    Caller <- MCSharedSession
    Reward = {0, 4}
    MinCandidates = 2
    PruneMinRewards = 1
    PruneMeanReward = 1
    MaxOps = 3
    MaxCrashes = 1
    None = None
CHECK_DEADLOCK FALSE
SYMMETRY Symmetry
INVARIANT NoveltyOnce RewardAccounting ShownCoversLog TrainedOncePerRow
INVARIANT SelectionNeverThrows CandidatesRegistered PoolBounds NoConsecutiveDuplicates
PROPERTY FreshlySeeded LedgerImplemented
