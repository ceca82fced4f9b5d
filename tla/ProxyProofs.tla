----------------------------- MODULE ProxyProofs -----------------------------
(***************************************************************************)
(* Proofs about Proxy and the configuration cache it shares between its    *)
(* calls, for any number of goroutines, shards, accounts and filters, and  *)
(* any expiry of the cache.                                                *)
(***************************************************************************)
EXTENDS Proxy, TLAPS

USE TimesAreNatural, ClientsAreSomebody, DeltaIsAllowed, AccountsHaveShards

-----------------------------------------------------------------------------
(* A call is always a record with the fields of NoCall; it uses the        *)
(* configuration cache in the steps of GetShardOfAddress only.             *)

CallShape ==
    /\ DOMAIN call = Clients
    /\ \A c \in Clients : DOMAIN call[c] = DOMAIN NoCall
    /\ entity \in {"proxy", "observer"}
    /\ \A c \in Clients : call[c].pc # "idle" => call[c].op \in {"account", "logs"}

CacheUse ==
    \A c \in Clients : call[c].pc # "config" => configPc[c] = "none"

(* What is cached was fetched at the time that is noted for it, and who    *)
(* fetches holds the write lock.                                           *)
CacheInv ==
    /\ now \in Nat
    /\ mut \in Clients \cup {Nobody}
    /\ lastFetchedTime \in Nat \cup {Never} /\ lastFetchedTime <= now
    /\ fetchedConfigs = lastFetchedTime
    /\ configPc \in [Clients -> {"none", "read", "lock", "fetch", "got", "failed"}]
    /\ config \in [Clients -> Nat \cup {Never}]
    /\ asked \in [Clients -> Nat]
    /\ \A c \in Clients : asked[c] <= now
    /\ \A c \in Clients : configPc[c] = "fetch" <=> mut = c
    /\ ConfigIsFresh

CInv == CallShape /\ CacheUse /\ CacheInv

LEMMA MovesKeepShape ==
    ASSUME CallShape, NEW c \in Clients, NEW job, DOMAIN job = DOMAIN NoCall, Moves(c, job),
           job.op \in {"account", "logs"}, UNCHANGED entity
    PROVE  CallShape'
  BY SMTT(30) DEF CallShape, Moves

LEMMA ConfigActionsKeepInv ==
    ASSUME CacheInv, NEW c \in Clients,
           \/ TimePasses
           \/ ConfigStep(c) \/ fetchFails(c)
           \/ configPc[c] # "fetch" /\ (AskConfig(c) \/ ConfigDone(c))
           \/ UNCHANGED configVars
    PROVE  CacheInv'
  <1> USE DEF CacheInv, ConfigIsFresh, Never
  <1>1. CASE TimePasses
    BY <1>1 DEF TimePasses
  <1>2. CASE GetNetworkConfig(c)
    BY <1>2 DEF GetNetworkConfig, getCachedConfigs
  <1>3. CASE cacheConfigs(c)
    BY <1>3 DEF cacheConfigs, getCachedConfigs
  <1>4. CASE getNetworkConfigFromSource(c)
    BY <1>4 DEF getNetworkConfigFromSource
  <1>5. CASE fetchFails(c)
    BY <1>5, Zenon DEF fetchFails
  <1>6. CASE configPc[c] # "fetch" /\ AskConfig(c)
    BY <1>6 DEF AskConfig
  <1>7. CASE configPc[c] # "fetch" /\ ConfigDone(c)
    BY <1>7 DEF ConfigDone
  <1>8. CASE UNCHANGED configVars
    BY <1>8, Zenon DEF configVars
  <1> QED BY <1>1, <1>2, <1>3, <1>4, <1>5, <1>6, <1>7, <1>8, ZenonT(30) DEF ConfigStep

LEMMA InitCInv == Init => CInv
  <1> SUFFICES ASSUME Init PROVE CInv
    BY Zenon
  <1>1. CallShape
    BY Zenon DEF Init, CallShape, NoCall
  <1>2. CacheUse
    BY Zenon DEF Init, ConfigInit, CacheUse
  <1>3. CacheInv
    BY DEF Init, ConfigInit, CacheInv, ConfigIsFresh, Never
  <1> QED BY <1>1, <1>2, <1>3, Zenon DEF CInv

LEMMA NextCInv == CInv /\ [Next]_vars => CInv'
  <1> SUFFICES ASSUME CInv, [Next]_vars PROVE CInv'
    BY Zenon
  <1> USE DEF CInv
  \* the step of one goroutine
  <1>1. ASSUME NEW c \in Clients, NEW job, DOMAIN job = DOMAIN NoCall, Moves(c, job),
               job.op \in {"account", "logs"}, UNCHANGED entity,
               \/ call[c].pc # "config" /\ UNCHANGED configVars /\ job.pc # "config"
               \/ call[c].pc # "config" /\ AskConfig(c) /\ job.pc = "config"
               \/ configPc[c] # "fetch" /\ AskConfig(c) /\ job.pc = "config"
               \/ configPc[c] # "fetch" /\ ConfigDone(c) /\ job.pc # "config"
        PROVE  CInv'
    <2>1. CacheInv'
      BY <1>1, ConfigActionsKeepInv, Zenon DEF CacheUse
    <2>2. CallShape'
      BY <1>1, MovesKeepShape, Zenon
    <2>3. CacheUse'
      BY <1>1 DEF CacheUse, CallShape, Moves, AskConfig, ConfigDone, configVars, CacheInv
    <2> QED BY <2>1, <2>2, <2>3, Zenon
  \* the step of the cache
  <1>2. ASSUME NEW c \in Clients, ConfigStep(c) \/ fetchFails(c), UNCHANGED <<entity, call>> PROVE CInv'
    <2>1. CacheInv'
      BY <1>2, ConfigActionsKeepInv, Zenon
    <2>2. CallShape' /\ CacheUse'
      BY <1>2, Zenon DEF CallShape, CacheUse, CacheInv, ConfigStep, GetNetworkConfig, cacheConfigs,
                  getNetworkConfigFromSource, fetchFails
    <2> QED BY <2>1, <2>2, Zenon
  <1> USE DEF At, Fails, Continue, Stop, Fault, networkVars
  <1>3. ASSUME NEW c \in Clients, GetAccount(c) PROVE CInv'
    BY <1>1, <1>3, Zenon DEF GetAccount, CallShape, NoCall
  <1>4. ASSUME NEW c \in Clients, FilterLogs(c) PROVE CInv'
    BY <1>1, <1>4 DEF FilterLogs, CallShape, NoCall
  <1>5. ASSUME NEW c \in Clients, GetShardOfAddress(c) \/ GetShardOfAddressFails(c) PROVE CInv'
    BY <1>1, <1>5, Zenon DEF GetShardOfAddress, GetShardOfAddressFails, AfterShard, CallShape, NoCall
  <1>6. ASSUME NEW c \in Clients,
               getNoncesFromMetaAndShard(c) \/ CheckShardFinalization(c) \/ CheckNodeFinalization(c)
        PROVE  CInv'
    BY <1>1, <1>6, Zenon DEF getNoncesFromMetaAndShard, CheckShardFinalization, CheckNodeFinalization,
                      CallShape, NoCall
  <1>7. ASSUME NEW c \in Clients, RequestAccount(c) \/ ResolveRange(c) PROVE CInv'
    BY <1>1, <1>7, Zenon DEF RequestAccount, ResolveRange, CallShape, NoCall
  <1>8. ASSUME NEW c \in Clients, getBlockNumberByHash(c) PROVE CInv'
    BY <1>1, <1>8, Zenon DEF getBlockNumberByHash, CallShape, NoCall
  <1>9. ASSUME NEW c \in Clients, getLogsFromBlock(c) PROVE CInv'
    BY <1>1, <1>9, ZenonT(30) DEF getLogsFromBlock, TakeEvents, CallShape, NoCall
  <1>9b. ASSUME NEW c \in Clients, getBlockBytesByNonce(c) PROVE CInv'
    BY <1>1, <1>9b, ZenonT(30) DEF getBlockBytesByNonce, TakeEvents, CallShape, NoCall
  <1>10. ASSUME NEW c \in Clients, RequestFails(c) PROVE CInv'
    BY <1>1, <1>2, <1>10, Zenon DEF RequestFails, CallShape, NoCall
  <1>11. CASE NetworkStep
    BY <1>11, Zenon DEF NetworkStep, CallShape, CacheUse, CacheInv, ConfigIsFresh, configVars
  <1>12. CASE TimePasses /\ UNCHANGED <<networkVars, call>>
    BY <1>12 DEF TimePasses, CallShape, CacheUse, CacheInv, ConfigIsFresh, Never, networkVars
  <1>13. CASE UNCHANGED vars
    BY <1>13, Zenon DEF vars, configVars, networkVars, CallShape, CacheUse, CacheInv, ConfigIsFresh
  <1> HIDE DEF At, Fails, Continue, Stop, Fault
  <1>14. ASSUME NEW c \in Clients, CallStep(c) PROVE CInv'
    BY <1>2, <1>5, <1>6, <1>7, <1>8, <1>9, <1>9b, <1>14, Zenon DEF CallStep
  <1> QED BY <1>3, <1>4, <1>10, <1>11, <1>12, <1>13, <1>14, Zenon DEF Next

LEMMA CallInvariance == Spec => []CInv
  BY InitCInv, NextCInv, PTL DEF Spec

(* baseProxy.GetNetworkConfig: however many goroutines share the cache and *)
(* however long each of them waits for its lock, none is given a           *)
(* configuration that had expired when it asked.                           *)
THEOREM ConfigAlwaysFresh == Spec => []ConfigIsFresh
  <1>1. CInv => ConfigIsFresh
    BY Zenon DEF CInv, CacheInv
  <1> QED BY <1>1, CallInvariance, PTL

\* the steps that touch the cache
LEMMA OnlyConfigSteps ==
    ASSUME [Next]_vars
    PROVE  \/ UNCHANGED configVars \/ TimePasses
           \/ \E c \in Clients : ConfigStep(c) \/ fetchFails(c) \/ AskConfig(c) \/ ConfigDone(c)
  <1>1. ASSUME NEW c \in Clients, GetAccount(c) \/ FilterLogs(c)
        PROVE  UNCHANGED configVars \/ AskConfig(c)
    BY <1>1, Zenon DEF GetAccount, FilterLogs
  <1>2. ASSUME NEW c \in Clients, GetShardOfAddress(c) \/ GetShardOfAddressFails(c)
        PROVE  AskConfig(c) \/ ConfigDone(c)
    BY <1>2, Zenon DEF GetShardOfAddress, GetShardOfAddressFails
  <1>3. ASSUME NEW c \in Clients,
               \/ getNoncesFromMetaAndShard(c) \/ CheckShardFinalization(c) \/ CheckNodeFinalization(c)
               \/ RequestAccount(c) \/ ResolveRange(c) \/ getBlockNumberByHash(c) \/ getLogsFromBlock(c)
               \/ getBlockBytesByNonce(c)
        PROVE  UNCHANGED configVars
    BY <1>3, Zenon DEF getNoncesFromMetaAndShard, CheckShardFinalization, CheckNodeFinalization,
                RequestAccount, ResolveRange, getBlockNumberByHash, getLogsFromBlock, getBlockBytesByNonce,
                Continue, Stop
  <1>4. ASSUME NEW c \in Clients, RequestFails(c) PROVE UNCHANGED configVars \/ fetchFails(c)
    BY <1>4, Zenon DEF RequestFails
  <1>5. NetworkStep \/ UNCHANGED vars => UNCHANGED configVars
    BY Zenon DEF NetworkStep, vars
  <1> QED BY <1>1, <1>2, <1>3, <1>4, <1>5, SMTT(30) DEF Next, CallStep

(* cacheConfigs looks again under the write lock: a goroutine starts a     *)
(* fetch only if the last successful one has expired, for any number of    *)
(* goroutines that found the cache expired at the same time.               *)
THEOREM FetchesAlwaysSpaced == Spec => FetchesAreSpaced
  <1> DEFINE Spaced ==
        \A c \in Clients : configPc[c] # "fetch" /\ configPc'[c] = "fetch" =>
            lastFetchedTime = Never \/ now - lastFetchedTime > Expiry
  <1>1. CInv /\ [Next]_vars => [Spaced]_configVars
    <2> SUFFICES ASSUME CInv, [Next]_vars, NEW c \in Clients,
                        configPc[c] # "fetch", configPc'[c] = "fetch"
                 PROVE  lastFetchedTime = Never \/ now - lastFetchedTime > Expiry
      BY Zenon
    <2>1. cacheConfigs(c)
      BY OnlyConfigSteps
      DEF ConfigStep, GetNetworkConfig, cacheConfigs, getNetworkConfigFromSource, fetchFails,
          AskConfig, ConfigDone, TimePasses, configVars, CInv, CacheInv
    <2> QED BY <2>1, Zenon DEF cacheConfigs, getCachedConfigs, CInv, CacheInv
  <1> QED BY <1>1, CallInvariance, PTL DEF Spec, FetchesAreSpaced

-----------------------------------------------------------------------------
(* The finality check.  What was final when a call began stays final, and  *)
(* observers do not go back: the nonce the check has compared is a lower   *)
(* bound for what the observer answers later.                              *)

NetworkInv ==
    /\ nonce \in [Shards -> Nat]
    /\ observed \in [Shards -> Nat]
    /\ final \in [Shards -> Nat]
    /\ \A s \in Shards : observed[s] <= nonce[s] /\ final[s] <= nonce[s]

Slack == IF entity = "proxy" THEN 0 ELSE AllowedDeltaToFinal

\* a gateway's answer about the metachain is taken as final
Unchecked(job) == entity = "proxy" /\ consideredFinal(job.shard)

\* where a guarded query is, and what it has established by then
AccountJob(job) ==
    /\ job.pc \in {"config", "metaStatus", "shardStatus", "nodeStatus", "request", "done"}
    /\ job.address \in Accounts
    /\ job.finalThen \in Nat /\ job.finalThen <= final[ShardOf[job.address]]
    /\ job.pc = "config" => job.lookups = 1
    /\ job.pc \in {"metaStatus", "shardStatus", "nodeStatus", "request"} =>
         job.shard = ShardOf[job.address]
    /\ job.pc \in {"metaStatus", "shardStatus"} => entity = "proxy"
    /\ job.pc = "shardStatus" => job.read \in Nat /\ job.read >= job.finalThen
    /\ job.pc = "nodeStatus" => entity = "observer"
    /\ job.pc = "request" => Unchecked(job) \/ observed[job.shard] + Slack >= job.finalThen
    /\ job.pc = "done" /\ job.err = "none" => Unchecked(job) \/ job.read + Slack >= job.finalThen

AccountInv ==
    /\ NetworkInv
    /\ \A c \in Clients :
        /\ call[c].pc = "idle" => call[c].op = "none"
        /\ finalityCheck /\ call[c].op = "account" => AccountJob(call[c])

LEMMA InitAccountInv == Init => AccountInv
  <1> SUFFICES ASSUME Init PROVE AccountInv
    BY Zenon
  <1>1. NetworkInv
    BY DEF Init, NetworkInv
  <1>2. \A c \in Clients : call[c].op = "none"
    BY ZenonT(30) DEF Init, NoCall
  <1> QED BY <1>1, <1>2, Zenon DEF AccountInv

\* one goroutine moves, the network stands still
LEMMA CallKeepsAccountInv ==
    ASSUME CInv, AccountInv, NEW c \in Clients, NEW job, Moves(c, job),
           UNCHANGED <<entity, finalityCheck, nonce, observed, final>>,
           job.pc # "idle",
           finalityCheck /\ job.op = "account" => AccountJob(job)
    PROVE  AccountInv'
  <1>1. NetworkInv' /\ UNCHANGED <<entity, finalityCheck, final, observed>>
    BY Zenon DEF AccountInv, NetworkInv
  <1>2. \A d \in Clients : call'[d] = IF d = c THEN job ELSE call[d]
    BY Zenon DEF CInv, CallShape, Moves
  <1>3. ASSUME NEW any, AccountJob(any) PROVE AccountJob(any)'
    BY <1>1, <1>3, Zenon DEF AccountJob, Slack, Unchecked
  <1>4. \A d \in Clients : finalityCheck /\ call'[d].op = "account" => AccountJob(call'[d])
    BY <1>2, Zenon DEF AccountInv
  <1>5. \A d \in Clients : call'[d].pc = "idle" => call'[d].op = "none"
    BY <1>2, Zenon DEF AccountInv
  <1>6. \A d \in Clients : finalityCheck' /\ call'[d].op = "account" => AccountJob(call[d])'
    <2> SUFFICES ASSUME NEW d \in Clients, finalityCheck, call'[d].op = "account"
                 PROVE  AccountJob(call[d])'
      BY <1>1
    <2>1. AccountJob(call'[d])
      BY <1>4, Zenon
    <2> QED BY <1>1, <2>1, Zenon DEF AccountJob, Slack, Unchecked
  <1> QED BY <1>1, <1>5, <1>6, Zenon DEF AccountInv

LEMMA NextAccountInv == CInv /\ AccountInv /\ [Next]_vars => AccountInv'
  <1> SUFFICES ASSUME CInv, AccountInv, [Next]_vars PROVE AccountInv'
    BY Zenon
  \* the record that a step updates
  <1>1. \A c \in Clients : DOMAIN call[c] = DOMAIN NoCall
    BY Zenon DEF CInv, CallShape
  <1>2. \A c \in Clients : finalityCheck /\ call[c].op = "account" => AccountJob(call[c])
    BY Zenon DEF AccountInv
  <1>3. NetworkInv
    BY Zenon DEF AccountInv
  \* a call that has failed has nothing to establish
  <1>4. ASSUME NEW c \in Clients, NEW err \in {"error", "panic"}, Fails(c, err),
               UNCHANGED <<entity, finalityCheck, nonce, observed, final>>
        PROVE  AccountInv'
    BY <1>1, <1>2, <1>4, CallKeepsAccountInv, ZenonT(30) DEF Fails, AccountJob, NoCall
  \* neither has a call of FilterLogs
  <1>5. ASSUME NEW c \in Clients, NEW job, job.op = "logs", job.pc # "idle", Moves(c, job),
               UNCHANGED <<entity, finalityCheck, nonce, observed, final>>
        PROVE  AccountInv'
    BY <1>5, CallKeepsAccountInv, Zenon
  <1> USE DEF At, networkVars
  <1>6. ASSUME NEW c \in Clients, GetAccount(c) PROVE AccountInv'
    <2>1. PICK a \in Accounts :
            LET new == [call[c] EXCEPT !.op = "account", !.address = a, !.finalThen = final[ShardOf[a]]]
            IN  \/ finalityCheck /\ Moves(c, [new EXCEPT !.pc = "config", !.lookups = 1])
                \/ ~finalityCheck /\ Moves(c, [new EXCEPT !.pc = "request", !.shard = ShardOf[a]])
      BY <1>6, Zenon DEF GetAccount
    <2>2. UNCHANGED <<entity, finalityCheck, nonce, observed, final>>
      BY <1>6, Zenon DEF GetAccount
    <2>3. final[ShardOf[a]] \in Nat
      BY <1>3, Zenon DEF NetworkInv
    <2>4. CASE finalityCheck
      <3> DEFINE job == [call[c] EXCEPT !.op = "account", !.address = a, !.finalThen = final[ShardOf[a]],
                                        !.pc = "config", !.lookups = 1]
      <3>1. Moves(c, job)
        BY <2>1, <2>4, Zenon
      <3>2. job.pc = "config" /\ job.address = a /\ job.finalThen = final[ShardOf[a]] /\ job.lookups = 1
        BY <1>1, Zenon DEF NoCall
      <3> HIDE DEF job
      <3>3. AccountJob(job)
        BY <2>3, <3>2 DEF AccountJob
      <3> QED BY <2>2, <3>1, <3>2, <3>3, CallKeepsAccountInv, SMTT(30)
    <2>5. CASE ~finalityCheck
      BY <1>1, <2>1, <2>2, <2>5, CallKeepsAccountInv, Zenon DEF NoCall
    <2> QED BY <2>4, <2>5, Zenon
  <1>7. ASSUME NEW c \in Clients, FilterLogs(c) PROVE AccountInv'
    BY <1>1, <1>5, <1>7, Zenon DEF FilterLogs, NoCall
  <1>8. ASSUME NEW c \in Clients, GetShardOfAddress(c) \/ GetShardOfAddressFails(c) PROVE AccountInv'
    <2>1. CASE call[c].op = "account" /\ finalityCheck
      BY <1>1, <1>2, <1>4, <1>8, <2>1, CallKeepsAccountInv, ZenonT(60)
      DEF GetShardOfAddress, GetShardOfAddressFails, Looked, AfterShard, AccountJob, Unchecked, NoCall, CInv, CallShape
    <2>2. CASE ~finalityCheck
      BY <1>1, <1>4, <1>8, <2>2, CallKeepsAccountInv, Zenon
      DEF GetShardOfAddress, GetShardOfAddressFails, AfterShard, NoCall, CInv, CallShape
    <2>3. CASE call[c].op = "logs"
      BY <1>1, <1>4, <1>5, <1>8, <2>3, Zenon
      DEF GetShardOfAddress, GetShardOfAddressFails, AfterShard, NoCall
    <2> QED BY <1>8, <2>1, <2>2, <2>3, Zenon DEF GetShardOfAddress, GetShardOfAddressFails, CInv, CallShape
  <1> USE DEF Continue, Stop
  <1>9. ASSUME NEW c \in Clients, getNoncesFromMetaAndShard(c) PROVE AccountInv'
    BY <1>1, <1>2, <1>3, <1>9, CallKeepsAccountInv, ZenonT(60)
    DEF getNoncesFromMetaAndShard, AccountJob, NetworkInv, NoCall
  <1>10. ASSUME NEW c \in Clients, CheckShardFinalization(c) PROVE AccountInv'
    BY <1>1, <1>2, <1>3, <1>4, <1>10, CallKeepsAccountInv
    DEF CheckShardFinalization, proxyInSync, AccountJob, NetworkInv, Slack, NoCall
  <1>11. ASSUME NEW c \in Clients, CheckNodeFinalization(c) PROVE AccountInv'
    <2>1. CASE Stop(c, "error")
      BY <1>4, <2>1, Zenon
    <2>2. CASE ~Stop(c, "error")
      <3> DEFINE s == call[c].shard
                 job == [call[c] EXCEPT !.pc = "request"]
      <3>1. /\ call[c].pc = "nodeStatus"
            /\ nodeInSync(nodeStatusOf(s), AllowedDeltaToFinal)
            /\ Continue(c, job)
        BY <1>11, <2>2, Zenon DEF CheckNodeFinalization
      <3>2. /\ job.pc = "request" /\ job.op = call[c].op /\ job.shard = s
            /\ job.address = call[c].address /\ job.finalThen = call[c].finalThen
        BY <1>1, Zenon DEF NoCall
      <3>3. ASSUME finalityCheck, call[c].op = "account" PROVE AccountJob(job)
        <4>1. AccountJob(call[c])
          BY <1>2, <3>3, Zenon
        <4>2. s = ShardOf[call[c].address] /\ entity = "observer" /\ s \in Shards
          BY <3>1, <4>1, Zenon DEF AccountJob
        <4>3. observed[s] + Slack >= call[c].finalThen
          <5>1. observed[s] + AllowedDeltaToFinal >= nonce[s]
            BY <3>1, Zenon DEF nodeInSync, nodeStatusOf
          <5>2. call[c].finalThen \in Nat /\ call[c].finalThen <= final[s]
            BY <4>1, <4>2, Zenon DEF AccountJob
          <5>3. /\ observed[s] \in Nat /\ nonce[s] \in Nat /\ final[s] \in Nat
                /\ final[s] <= nonce[s]
            BY <1>3, <4>2, Zenon DEF NetworkInv
          <5>4. Slack = AllowedDeltaToFinal
            BY <4>2, Zenon DEF Slack
          <5> HIDE DEF s
          <5> QED BY <5>1, <5>2, <5>3, <5>4, DeltaIsAllowed
        <4> HIDE DEF job
        <4> QED BY <3>2, <4>1, <4>2, <4>3, Zenon DEF AccountJob
      <3>4. Moves(c, job) /\ UNCHANGED <<entity, finalityCheck, nonce, observed, final>>
        BY <3>1, Zenon
      <3> HIDE DEF job
      <3> QED BY <3>2, <3>3, <3>4, CallKeepsAccountInv, Zenon
    <2> QED BY <2>1, <2>2, Zenon
  <1>12. ASSUME NEW c \in Clients, RequestAccount(c) PROVE AccountInv'
    BY <1>1, <1>2, <1>3, <1>12, CallKeepsAccountInv, ZenonT(60)
    DEF RequestAccount, AccountJob, NetworkInv, Slack, Unchecked, NoCall
  <1>13. ASSUME NEW c \in Clients,
                \/ ResolveRange(c) \/ getBlockNumberByHash(c) \/ getLogsFromBlock(c)
                \/ getBlockBytesByNonce(c)
         PROVE  AccountInv'
    <2>1. CASE call[c].op = "logs" \/ ~finalityCheck
      BY <1>1, <1>4, <1>13, <2>1, CallKeepsAccountInv, ZenonT(30)
      DEF ResolveRange, getBlockNumberByHash, getLogsFromBlock, getBlockBytesByNonce, TakeEvents, Fault, NoCall
    <2> QED BY <1>2, <1>13, <2>1, Zenon
            DEF ResolveRange, getBlockNumberByHash, getLogsFromBlock, getBlockBytesByNonce, AccountJob, CInv, CallShape
  <1>14. ASSUME NEW c \in Clients, RequestFails(c) PROVE AccountInv'
    BY <1>4, <1>14, ZenonT(60) DEF RequestFails, Fault, AccountInv, NetworkInv, AccountJob, Slack, Unchecked
  \* the chains only grow
  <1>15. CASE NetworkStep
    <2>1. NetworkInv' /\ \A s \in Shards : final'[s] >= final[s] /\ observed'[s] >= observed[s]
      BY <1>3, <1>15 DEF NetworkStep, NetworkInv
    <2>2. UNCHANGED <<entity, finalityCheck, call>>
      BY <1>15, SMTT(30) DEF NetworkStep
    <2>3. ASSUME NEW job, AccountJob(job) PROVE AccountJob(job)'
      <3>1. ShardOf[job.address] \in Shards
        BY <2>3, Zenon DEF AccountJob
      <3>2. \A s \in Shards : /\ final[s] \in Nat /\ final'[s] \in Nat
                              /\ observed[s] \in Nat /\ observed'[s] \in Nat
        BY <1>3, <2>1, Zenon DEF NetworkInv
      <3>3. job.finalThen \in Nat /\ job.finalThen <= final'[ShardOf[job.address]]
        BY <2>1, <2>3, <3>1, <3>2 DEF AccountJob
      <3>4. Slack \in Nat /\ Slack' = Slack
        BY <2>2, Zenon DEF Slack
      <3>5. job.pc = "request" => Unchecked(job) \/ observed'[job.shard] + Slack >= job.finalThen
        BY <2>1, <2>3, <3>1, <3>2, <3>3, <3>4 DEF AccountJob
      <3> QED BY <2>2, <2>3, <3>3, <3>4, <3>5, Zenon DEF AccountJob, Unchecked
    <2> QED BY <2>1, <2>2, <2>3, Zenon DEF AccountInv
  <1>16. CASE UNCHANGED <<networkVars, call>>
    BY <1>16 DEF AccountInv, NetworkInv, AccountJob, Slack, Unchecked
  <1> QED
    BY <1>6, <1>7, <1>8, <1>9, <1>10, <1>11, <1>12, <1>13, <1>14, <1>15, <1>16, SMTT(30) DEF Next, CallStep, vars

(* The finality check of GetAccount and of the queries guarded like it     *)
(* (proxy.checkFinalState before the request): for any number of shards    *)
(* that grow and are followed and notarized in any order between the       *)
(* requests of the call, the answer is not older than the block that was   *)
(* final when the call began, up to the allowed delta for an observer and  *)
(* but for the metachain through a gateway, which is not checked.          *)
THEOREM AccountNeverOlderThanFinal == Spec => []AccountNotOlderThanFinal
  <1>1. AccountInv => AccountNotOlderThanFinal
    BY Zenon DEF AccountInv, AccountJob, Slack, Unchecked, AccountNotOlderThanFinal, FinalityChecked, Succeeded, At
  <1>2. Init => CInv /\ AccountInv
    BY InitCInv, InitAccountInv, Zenon
  <1>3. (CInv /\ AccountInv) /\ [Next]_vars => (CInv /\ AccountInv)'
    BY NextCInv, NextAccountInv, Zenon
  <1> QED BY <1>1, <1>2, <1>3, PTL DEF Spec
=============================================================================
