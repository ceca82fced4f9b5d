SPECIFICATION Spec
CONSTANTS
    Clients = {c1, c2}
    Expiry = 1
    MaxTime = 2
    Width = 8
    MaximumBlocksDelta = 1
    Shards = {0, 9}
    Metachain = 9
    ShardOf <- ShardOfAddress
    ObserverShard = 0
    Accounts = {"here", "system"}
    Filters <- SomeFilters
    EventsOf <- BlockEvents
    EmptyTopic = "empty"
    AllowedDeltaToFinal = 1
    MaxNonce <- ShortChains
    MaxFaults = 1
SYMMETRY ClientSymmetry
INVARIANTS
    ConfigIsFresh
    AccountNotOlderThanFinal
    LogsAreComplete
PROPERTIES
    FetchesAreSpaced
CHECK_DEADLOCK FALSE
