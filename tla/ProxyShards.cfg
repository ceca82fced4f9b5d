SPECIFICATION Spec
CONSTANTS
    Clients = {c1, c2}
    Expiry = 1
    MaxTime = 0
    Width = 8
    MaximumBlocksDelta = 1
    Shards = {0, 9}
    Metachain = 9
    ShardOf <- ShardOfAddress
    ObserverShard = 0
    Accounts = {}
    Filters <- OneBlockOfEachShard
    EventsOf <- BlockEvents
    EmptyTopic = "empty"
    AllowedDeltaToFinal = 1
    MaxNonce <- OneBlock
    MaxFaults = 0
INVARIANT LogsFromItsShard
CHECK_DEADLOCK FALSE
