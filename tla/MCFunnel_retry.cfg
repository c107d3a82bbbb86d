SPECIFICATION Spec
CONSTANTS
    p1 = p1
    p2 = p2
    tA = tA
    tB = tB
    mig = mig
    whole = whole
    shorter = shorter
    rejected = rejected
    unreadable = unreadable
    Text = {tA, tB}
    Artifact = {whole, shorter, rejected, unreadable}
    Verdict <- MCVerdict
    Size <- MCSize
    MinProposals = 1
    MaxProposals = 2
    None = None
    Proc <- MCServer
    Migrated = {}
    MigratedAlias <- MCNoAlias
    MaxOps = 2
    MaxCrashes = 0
CHECK_DEADLOCK FALSE
INVARIANT RetryFindsContent
