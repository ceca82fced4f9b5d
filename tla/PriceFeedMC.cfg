SPECIFICATION FairSpec
CONSTANTS
    MaxStarts = 2
    NumPairs = 2
    Fetchers <- AllFetchers
    Exchanges <- OnExchanges
    Percent <- Thresholds
    MinResultsNum = 1
    Epsilon = 1
    Precision = 4
    InitialQuote <- FirstQuote
    Quotes <- NextQuotes
    MaxChanges = 1
    MaxFaults = 1
INVARIANTS
    OneLoopAndCloseReachesIt
    MedianOfAnswers
    NotifeeIsUpToDate
PROPERTIES
    DeliversSettledPrices
    ClosedLoopEnds
CHECK_DEADLOCK FALSE
