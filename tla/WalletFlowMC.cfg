\* two hyper blocks, one crash, bunches of one transaction
CONSTANTS
    Blocks <- TwoBlocks
    Trackable = {"alice", "bob"}
    MinimumBalance = 2
    MaxCrashes = 1
    BunchSize = 1
    Fee = 1
SPECIFICATION FairSpec
INVARIANTS ProcessedWereFound MovesArePaidFor BunchesKeepEverything
PROPERTY DepositsReachTheMover
CHECK_DEADLOCK FALSE
