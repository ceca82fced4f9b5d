-------------------------------- MODULE Proxy --------------------------------
(***************************************************************************)
(* blockchain/proxy.go: goroutines that share one proxy instance, each     *)
(* making one call: a query of an account guarded by the finality check    *)
(* (GetAccount, and with the same steps ExecuteVMQuery and                 *)
(* GetGuardianData), or FilterLogs, with the network configuration and the *)
(* blocks cached across the calls.                                         *)
(*                                                                         *)
(* External: the network.  Every shard has a chain that only grows, an     *)
(* observer that follows it, and the nonce up to which it is final         *)
(* (notarized by the metachain).  Requests are answered by one observer    *)
(* per shard.  A request may fail, or be answered with an error text.      *)
(***************************************************************************)
EXTENDS NetworkConfigCache, FinalityProvider, FilterLogs

CONSTANTS
    Shards, ShardOf,        \* shards, and the shard of an address
    ObserverShard,          \* the shard of the node, when the entity is an observer
    Accounts, Filters,      \* what the calls may ask for
    EventsOf(_, _),         \* the events of a block, by shard and nonce
    AllowedDeltaToFinal,
    MaxNonce,               \* bound: length of the shards' chains
    MaxFaults               \* bound: requests that fail

ASSUME DeltaIsAllowed == AllowedDeltaToFinal \in Nat \ {0}
ASSUME AccountsHaveShards == \A a \in Accounts : ShardOf[a] \in Shards

VARIABLES
    entity, finalityCheck,  \* arguments of NewProxy: EntityType and FinalityCheck
    nonce, observed, final, \* of the shards
    faults,
    filterQueryBlockCacher, \* set of [nonce, shard, error], at most one per nonce
    call                    \* the calls

networkVars == <<entity, finalityCheck, nonce, observed, final, faults>>
vars == <<configVars, networkVars, filterQueryBlockCacher, call>>

NoCall == [pc |-> "idle", op |-> "none", address |-> "", filter |-> NoFilter,
           lookups |-> 0, shard |-> None, read |-> None, from |-> 0, to |-> 0,
           events |-> <<>>, err |-> "none", finalThen |-> 0]

TypeOK ==
    /\ ConfigTypeOK
    /\ entity \in {"proxy", "observer"}
    /\ finalityCheck \in BOOLEAN
    /\ \A s \in Shards : nonce[s] \in 0..MaxNonce[s] /\ observed[s] <= nonce[s] /\ final[s] <= nonce[s]
    /\ faults \in 0..MaxFaults
    /\ \A b, d \in filterQueryBlockCacher : b.nonce = d.nonce => b = d
    /\ \A c \in Clients :
        /\ call[c].pc \in {"idle", "config", "metaStatus", "shardStatus", "nodeStatus", "request",
                           "status", "byHash", "blocks", "fetch", "done"}
        /\ call[c].pc \in {"request", "byHash", "blocks", "fetch"} => call[c].shard \in Shards
        /\ call[c].err \in {"none", "error", "panic"}

Init ==
    /\ ConfigInit
    /\ entity \in {"proxy", "observer"}
    /\ finalityCheck \in BOOLEAN
    /\ nonce = [s \in Shards |-> 1]
    /\ observed = [s \in Shards |-> IF s = Metachain THEN 0 ELSE 1]
    /\ final = [s \in Shards |-> 0]
    /\ faults = 0
    /\ filterQueryBlockCacher = {}
    /\ call = [c \in Clients |-> NoCall]

-----------------------------------------------------------------------------
(* The network                                                             *)

NetworkStep ==
    /\ \E s \in Shards :
        \/ /\ nonce[s] < MaxNonce[s]
           /\ nonce' = [nonce EXCEPT ![s] = @ + 1]
           /\ UNCHANGED <<observed, final>>
        \/ /\ observed[s] < nonce[s]
           /\ observed' = [observed EXCEPT ![s] = @ + 1]
           /\ UNCHANGED <<nonce, final>>
        \/ /\ final[s] < nonce[s]
           /\ final' = [final EXCEPT ![s] = @ + 1]
           /\ UNCHANGED <<nonce, observed>>
    /\ UNCHANGED <<entity, finalityCheck, faults, configVars, filterQueryBlockCacher, call>>

Fault ==
    /\ faults < MaxFaults
    /\ faults' = faults + 1
    /\ UNCHANGED <<entity, finalityCheck, nonce, observed, final>>

-----------------------------------------------------------------------------
(* Steps of a call                                                         *)

Moves(c, job) == call' = [call EXCEPT ![c] = job]

Fails(c, err) == Moves(c, [call[c] EXCEPT !.pc = "done", !.err = err, !.events = <<>>])

At(c, pc) == call[c].pc = pc

\* GetShardOfAddress is about to ask for the network configuration
AskConfig(c) ==
    /\ configPc' = [configPc EXCEPT ![c] = "read"]
    /\ asked' = [asked EXCEPT ![c] = now]
    /\ config' = [config EXCEPT ![c] = Never]
    /\ UNCHANGED <<now, mut, fetchedConfigs, lastFetchedTime>>

ConfigDone(c) ==
    /\ configPc' = [configPc EXCEPT ![c] = "none"]
    /\ asked' = [asked EXCEPT ![c] = 0]
    /\ config' = [config EXCEPT ![c] = Never]
    /\ UNCHANGED <<now, mut, fetchedConfigs, lastFetchedTime>>

GetAccount(c) ==
    /\ At(c, "idle")
    /\ \E a \in Accounts :
        LET new == [call[c] EXCEPT !.op = "account", !.address = a, !.finalThen = final[ShardOf[a]]]
        IN  \/ /\ finalityCheck
               /\ Moves(c, [new EXCEPT !.pc = "config", !.lookups = 1])
               /\ AskConfig(c)
            \/ /\ ~finalityCheck
               /\ Moves(c, [new EXCEPT !.pc = "request", !.shard = ShardOf[a]])
               /\ UNCHANGED configVars
    /\ UNCHANGED <<networkVars, filterQueryBlockCacher>>

FilterLogs(c) ==
    /\ At(c, "idle")
    /\ \E f \in Filters :
        LET new == [call[c] EXCEPT !.op = "logs", !.filter = f]
        IN  \/ /\ f.addresses # <<>>
               /\ Moves(c, [new EXCEPT !.pc = "config", !.lookups = 1 + Len(f.addresses)])
               /\ AskConfig(c)
            \/ /\ f.addresses = <<>>
               /\ f.shardID # None
               /\ Moves(c, [new EXCEPT !.pc = "status", !.shard = f.shardID])
               /\ UNCHANGED configVars
            \/ /\ f.addresses = <<>>
               /\ f.shardID = None
               /\ Moves(c, [new EXCEPT !.pc = "done", !.err = "error"])
               /\ UNCHANGED configVars
    /\ UNCHANGED <<networkVars, filterQueryBlockCacher>>

\* the address whose shard is asked for: the first one, then each in turn
Looked(c) ==
    IF call[c].op = "account" THEN call[c].address
    ELSE LET addresses == call[c].filter.addresses
             turn == Len(addresses) + 1 - call[c].lookups
         IN  addresses[IF turn = 0 THEN 1 ELSE turn]

AfterShard(c, shard) ==
    CASE call[c].op = "logs" -> "status"
      [] call[c].op = "account" /\ entity = "proxy" ->
            IF consideredFinal(shard) THEN "request" ELSE "metaStatus"
      [] call[c].op = "account" /\ entity = "observer" -> "nodeStatus"

\* computeShardId, computeShardIdFromAddresses and GetShardOfAddress
GetShardOfAddress(c) ==
    /\ At(c, "config")
    /\ configPc[c] = "got"
    /\ LET shard == ShardOf[Looked(c)]
           last == call[c].lookups = 1
           mismatch == call[c].op = "logs" /\
                        \/ call[c].shard \notin {None, shard}
                        \/ last /\ call[c].filter.shardID \notin {None, shard}
       IN  \/ mismatch /\ Fails(c, "error") /\ ConfigDone(c)
           \/ /\ ~mismatch
              /\ ~last
              /\ Moves(c, [call[c] EXCEPT !.shard = shard, !.lookups = @ - 1])
              /\ AskConfig(c)
           \/ /\ ~mismatch
              /\ last
              /\ Moves(c, [call[c] EXCEPT !.pc = AfterShard(c, shard), !.shard = shard, !.lookups = 0])
              /\ ConfigDone(c)
    /\ UNCHANGED <<networkVars, filterQueryBlockCacher>>

GetShardOfAddressFails(c) ==
    /\ At(c, "config")
    /\ configPc[c] = "failed"
    /\ Fails(c, "error")
    /\ ConfigDone(c)
    /\ UNCHANGED <<networkVars, filterQueryBlockCacher>>

-----------------------------------------------------------------------------
(* The finality check and the query it guards                              *)

\* an observer's status names the shard of the observer
checkReceivedNodeStatus(shard) == entity = "proxy" \/ shard = ObserverShard

Continue(c, job) ==
    /\ Moves(c, job)
    /\ UNCHANGED <<configVars, networkVars, filterQueryBlockCacher>>

Stop(c, err) ==
    /\ Fails(c, err)
    /\ UNCHANGED <<configVars, networkVars, filterQueryBlockCacher>>

\* the nonce of the shard that the metachain has notarized is read first
getNoncesFromMetaAndShard(c) ==
    /\ At(c, "metaStatus")
    /\ Continue(c, [call[c] EXCEPT !.pc = "shardStatus", !.read = final[call[c].shard]])

CheckShardFinalization(c) ==
    /\ At(c, "shardStatus")
    /\ IF proxyInSync(call[c].read, observed[call[c].shard], AllowedDeltaToFinal)
       THEN Continue(c, [call[c] EXCEPT !.pc = "request"])
       ELSE Stop(c, "error")

nodeStatusOf(s) ==
    [nonce |-> observed[s], probable |-> nonce[s],
     highest |-> IF final[s] < observed[s] THEN final[s] ELSE observed[s]]

CheckNodeFinalization(c) ==
    /\ At(c, "nodeStatus")
    /\ LET s == call[c].shard
       IN  IF checkReceivedNodeStatus(s) /\ nodeInSync(nodeStatusOf(s), AllowedDeltaToFinal)
           THEN Continue(c, [call[c] EXCEPT !.pc = "request"])
           ELSE Stop(c, "error")

RequestAccount(c) ==
    /\ At(c, "request")
    /\ Continue(c, [call[c] EXCEPT !.pc = "done", !.read = observed[call[c].shard]])

-----------------------------------------------------------------------------
(* FilterLogs                                                              *)

ResolveRange(c) ==
    /\ At(c, "status")
    /\ LET f == call[c].filter
           latest == observed[call[c].shard]
           range == resolveBlockRange(f, latest)
       IN  IF ~checkReceivedNodeStatus(call[c].shard) THEN Stop(c, "error")
           ELSE IF f.blockHash # None THEN Continue(c, [call[c] EXCEPT !.pc = "byHash", !.read = latest])
           ELSE IF range = <<>> THEN Stop(c, "error")
           ELSE Continue(c, [call[c] EXCEPT !.pc = "blocks", !.read = latest,
                                          !.from = range[1], !.to = range[2]])

Response(c, n, error) == [nonce |-> n, shard |-> call[c].shard, error |-> error]

\* the key is the nonce alone
Put(block) ==
    filterQueryBlockCacher' =
        {b \in filterQueryBlockCacher : b.nonce # block.nonce} \cup {block}

\* a response without a block is dereferenced before its error is looked at
getBlockNumberByHash(c) ==
    /\ At(c, "byHash")
    /\ LET n == call[c].filter.blockHash
       IN  \/ /\ n <= observed[call[c].shard]
              /\ Put(Response(c, n, FALSE))
              /\ Moves(c, [call[c] EXCEPT !.pc = "blocks", !.from = n, !.to = n])
              /\ UNCHANGED networkVars
           \/ /\ n > observed[call[c].shard]
              /\ Fails(c, "error")
              /\ UNCHANGED <<networkVars, filterQueryBlockCacher>>
           \/ /\ Fault
              /\ \E err \in {"error", "panic"} : Fails(c, err)
              /\ UNCHANGED filterQueryBlockCacher
    /\ UNCHANGED configVars

\* the events of a response, and the next block of the range
TakeEvents(c, block) ==
    IF block.error THEN Fails(c, "error")
    ELSE LET selected == extractMatchingEvents(EventsOf(block.shard, block.nonce), call[c].filter)
         IN  Moves(c, [call[c] EXCEPT !.events = @ \o selected,
                                      !.from = @ + 1,
                                      !.pc = IF call[c].from = call[c].to THEN "done" ELSE "blocks"])

getLogsFromBlock(c) ==
    /\ At(c, "blocks")
    /\ LET found == {b \in filterQueryBlockCacher : b.nonce = call[c].from}
       IN  \/ found # {} /\ \E block \in found : TakeEvents(c, block)
           \/ found = {} /\ Moves(c, [call[c] EXCEPT !.pc = "fetch"])
    /\ UNCHANGED <<configVars, networkVars, filterQueryBlockCacher>>

\* the request after a miss, which others may have made meanwhile; the response
\* is stored before its error is looked at
getBlockBytesByNonce(c) ==
    /\ At(c, "fetch")
    /\ \E error \in BOOLEAN :
        LET response == Response(c, call[c].from, error)
        IN  /\ IF error THEN Fault ELSE UNCHANGED networkVars
            /\ Put(response)
            /\ TakeEvents(c, response)
    /\ UNCHANGED configVars

-----------------------------------------------------------------------------

\* a request that is not answered with status 200, or is answered with an error
RequestFails(c) ==
    /\ Fault
    /\ \/ /\ call[c].pc \in {"metaStatus", "shardStatus", "nodeStatus", "request", "status", "fetch"}
          /\ Fails(c, "error")
          /\ UNCHANGED configVars
       \/ /\ At(c, "config")
          /\ fetchFails(c)
          /\ UNCHANGED call
    /\ UNCHANGED filterQueryBlockCacher

CallStep(c) ==
    \/ ConfigStep(c) /\ UNCHANGED <<networkVars, filterQueryBlockCacher, call>>
    \/ GetShardOfAddress(c)
    \/ GetShardOfAddressFails(c)
    \/ getNoncesFromMetaAndShard(c)
    \/ CheckShardFinalization(c)
    \/ CheckNodeFinalization(c)
    \/ RequestAccount(c)
    \/ ResolveRange(c)
    \/ getBlockNumberByHash(c)
    \/ getLogsFromBlock(c)
    \/ getBlockBytesByNonce(c)

Next ==
    \/ \E c \in Clients : GetAccount(c) \/ FilterLogs(c) \/ CallStep(c) \/ RequestFails(c)
    \/ NetworkStep
    \/ TimePasses /\ UNCHANGED <<networkVars, filterQueryBlockCacher, call>>

Spec == Init /\ [][Next]_vars

-----------------------------------------------------------------------------
(* Properties                                                              *)

Succeeded(c, op) == At(c, "done") /\ call[c].op = op /\ call[c].err = "none"

FinalityChecked(c) == finalityCheck /\ ~(entity = "proxy" /\ consideredFinal(call[c].shard))

\* With the finality check on, the account a call returns is not older than
\* the block that was final when the call began, although the nonces and the
\* account are read one after the other; an observer asked directly may be
\* behind by the allowed delta.  Nothing is said of an account of the
\* metachain that is asked for through a gateway: proxyFinalityProvider makes
\* no check for it, and it may be as old as the observer is.
AccountNotOlderThanFinal ==
    \A c \in Clients : FinalityChecked(c) /\ Succeeded(c, "account") =>
        call[c].read + (IF entity = "proxy" THEN 0 ELSE AllowedDeltaToFinal) >= call[c].finalThen
=============================================================================
