-------------------------- MODULE FinalityProvider --------------------------
(***************************************************************************)
(* blockchain/finalityProvider: is a shard's observer close enough to what *)
(* is final?  The decisions of the two providers, as functions of the      *)
(* nonces they have read; the reads themselves are steps of module Proxy.  *)
(* Nonces are far below 2^64, sums do not overflow.                        *)
(***************************************************************************)
EXTENDS Naturals

CONSTANT Metachain          \* MetachainShardId

\* proxyFinalityProvider: the metachain is final without a request
consideredFinal(targetShardID) == targetShardID = Metachain

\* mutant: an observer that is behind the metachain passes
proxyInSyncAllowsBehind(nonceFromMeta, nonceFromShard, maxNoncesDelta) ==
    nonceFromShard <= nonceFromMeta + maxNoncesDelta

\* proxyFinalityProvider, for the other shards: neither syncing nor stuck
proxyInSync(nonceFromMeta, nonceFromShard, maxNoncesDelta) ==
    /\ nonceFromShard >= nonceFromMeta
    /\ nonceFromShard <= nonceFromMeta + maxNoncesDelta

nodeStarted(status) == status.nonce # 0 \/ status.highest # 0 \/ status.probable # 0

\* nodeFinalityProvider: started, not syncing and not stuck
nodeInSync(status, maxNoncesDelta) ==
    /\ nodeStarted(status)
    /\ status.nonce + maxNoncesDelta >= status.probable
    /\ status.nonce <= status.highest + maxNoncesDelta
=============================================================================
