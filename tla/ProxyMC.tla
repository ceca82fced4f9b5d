------------------------------- MODULE ProxyMC -------------------------------
(***************************************************************************)
(* A shard with an address whose contract writes one event per block, and  *)
(* the metachain, with a system contract that does the same.               *)
(***************************************************************************)
EXTENDS FilterQuery

ClientSymmetry == Permutations(Clients)

Addresses == {"here", "system"}
ShardOfAddress == [a \in Addresses |-> IF a = "here" THEN 0 ELSE Metachain]
ShortChains == [s \in Shards |-> IF s = Metachain THEN 1 ELSE 2]
OneBlock == [s \in Shards |-> 1]

Event(s, n) ==
    [shard |-> s, address |-> IF s = 0 THEN "here" ELSE "system",
     topics |-> IF n % 2 = 0 THEN <<"paid">> ELSE <<"paid", "late">>]
BlockEvents(s, n) == <<Event(s, n), [Event(s, n) EXCEPT !.address = "other"]>>

SomeFilters ==
    {[fromBlock |-> 0, addresses |-> <<"here">>, topics |-> <<"paid", "late">>] @@ NoFilter,
     [fromBlock |-> 1, toBlock |-> 0, shardID |-> 0] @@ NoFilter,
     [blockHash |-> 1, shardID |-> 0] @@ NoFilter,
     [toBlock |-> 1, shardID |-> Metachain, topics |-> <<EmptyTopic>>] @@ NoFilter,
     [fromBlock |-> 0, toBlock |-> 0, addresses |-> <<"here", "system">>] @@ NoFilter,
     NoFilter}

OneBlockOfEachShard ==
    {[fromBlock |-> 1, toBlock |-> 1, shardID |-> s] @@ NoFilter : s \in Shards}
=============================================================================
