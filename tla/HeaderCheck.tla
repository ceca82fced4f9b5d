----------------------------- MODULE HeaderCheck -----------------------------
(***************************************************************************)
(* headerCheck: concurrent verifications of block headers that share one   *)
(* nodes coordinator.  It knows the validators of epoch 0 from the genesis *)
(* nodes; those of a later epoch are asked for when a header of it is met. *)
(*                                                                         *)
(* External: the nodes coordinator of another library, here the validators *)
(* and the randomness it was given for each epoch, which determine who     *)
(* signs a header; and the node, whose answers are right or fail.          *)
(***************************************************************************)
EXTENDS Integers, FiniteSets

CONSTANTS
    Verifications,      \* concurrent calls of VerifyHeaderSignatureByHash
    Headers,            \* [shard, epoch, signed]: signed for the epoch of that number
    HeaderShards,
    MaxFailures         \* bound: requests that fail

ASSUME HeadersHaveEpochs == \A h \in Headers : h.epoch \in Nat /\ h.signed \in Nat

VARIABLES
    created,            \* how far NewHeaderCheckHandler has come
    nodesConfig,        \* of the coordinator: epoch -> what it was given
    check,              \* the calls
    failures

headerVars == <<created, nodesConfig, check, failures>>

Epochs == {h.epoch : h \in Headers} \cup {h.signed : h \in Headers} \cup {0}
NotInConfig == [validators |-> -1, randomness |-> <<"none", 0>>]
NoHeader == [shard |-> "none", epoch |-> 0, signed |-> 0]
Idle == [pc |-> "idle", header |-> NoHeader, randomness |-> <<"none", 0>>]

FailsOnce ==
    /\ failures < MaxFailures
    /\ failures' = failures + 1

-----------------------------------------------------------------------------
(* headerCheckFactory.go: the requests before there is a verifier          *)

genesisNodes == [validators |-> 0, randomness |-> <<"genesis", 0>>]

\* the coordinator starts with the genesis nodes, which are asked for last, in epoch 0
CreateNodesCoordinator == nodesConfig' = [nodesConfig EXCEPT ![0] = genesisNodes]

NewHeaderCheckHandler ==
    /\ \/ created = "none" /\ created' = "networkConfig" /\ UNCHANGED nodesConfig
       \/ created = "networkConfig" /\ created' = "ratingsConfig" /\ UNCHANGED nodesConfig
       \/ created = "ratingsConfig" /\ created' = "verifier" /\ CreateNodesCoordinator
    /\ UNCHANGED <<check, failures>>

\* the caller may try again from the start
NewHeaderCheckHandlerFails ==
    /\ created # "verifier"
    /\ FailsOnce
    /\ created' = "none"
    /\ UNCHANGED <<nodesConfig, check>>

-----------------------------------------------------------------------------
(* headerCheck.go and rawHeaderHandler.go                                  *)

Verifying(c, pc) == created = "verifier" /\ check[c].pc = pc
Becomes(c, job) == check' = [check EXCEPT ![c] = job]

IsEpochInConfig(epoch) == nodesConfig[epoch] # NotInConfig

\* GetMetaBlockByHash or GetShardBlockByHash: a block is found in its own shard only
BlockByHash(shard, header) == IF header.shard = shard THEN header ELSE NoHeader

fetchHeaderByHashAndShard(c, shard, header) ==
    /\ Verifying(c, "idle")
    /\ \/ /\ BlockByHash(shard, header) = NoHeader
          /\ Becomes(c, [Idle EXCEPT !.pc = "error"])
       \/ /\ BlockByHash(shard, header) # NoHeader
          /\ Becomes(c, [Idle EXCEPT !.pc = "IsEpochInConfig", !.header = header])
    /\ UNCHANGED <<created, nodesConfig, failures>>

lookAtConfig(c) ==
    /\ Verifying(c, "IsEpochInConfig")
    /\ Becomes(c, [check[c] EXCEPT !.pc =
            IF IsEpochInConfig(check[c].header.epoch) THEN "VerifySignature" ELSE "GetStartOfEpochMetaBlock"])
    /\ UNCHANGED <<created, nodesConfig, failures>>

\* the block that starts an epoch carries the seed of the block before it
GetPrevRandSeed(epoch) == <<"prevRandSeed", epoch>>

GetStartOfEpochMetaBlock(c) ==
    /\ Verifying(c, "GetStartOfEpochMetaBlock")
    /\ Becomes(c, [check[c] EXCEPT !.pc = "GetValidatorsInfoByEpoch",
                                   !.randomness = GetPrevRandSeed(check[c].header.epoch)])
    /\ UNCHANGED <<created, nodesConfig, failures>>

GetValidatorsInfoByEpoch(c) ==
    /\ Verifying(c, "GetValidatorsInfoByEpoch")
    /\ Becomes(c, [check[c] EXCEPT !.pc = "SetNodesConfigFromValidatorsInfo"])
    /\ UNCHANGED <<created, nodesConfig, failures>>

\* updateNodesConfigPerEpoch; the coordinator replaces what it had
SetNodesConfigFromValidatorsInfo(c) ==
    LET epoch == check[c].header.epoch
    IN  /\ Verifying(c, "SetNodesConfigFromValidatorsInfo")
        /\ nodesConfig' = [nodesConfig EXCEPT ![epoch] =
                              [validators |-> epoch, randomness |-> check[c].randomness]]
        /\ Becomes(c, [check[c] EXCEPT !.pc = "VerifySignature"])
        /\ UNCHANGED <<created, failures>>

MayFail == {"idle", "GetStartOfEpochMetaBlock", "GetValidatorsInfoByEpoch", "SetNodesConfigFromValidatorsInfo"}

\* mutant: the coordinator is given what there is when the second request fails
CheckFailsAfterSetting(c) ==
    /\ created = "verifier" /\ check[c].pc \in MayFail
    /\ FailsOnce
    /\ nodesConfig' = IF check[c].pc # "GetValidatorsInfoByEpoch" THEN nodesConfig
                      ELSE [nodesConfig EXCEPT ![check[c].header.epoch].randomness = check[c].randomness]
    /\ Becomes(c, [Idle EXCEPT !.pc = "error"])
    /\ UNCHANGED created

\* a request, or the coordinator, returns an error: nothing has been set
CheckFails(c) ==
    /\ created = "verifier" /\ check[c].pc \in MayFail
    /\ FailsOnce
    /\ Becomes(c, [Idle EXCEPT !.pc = "error"])
    /\ UNCHANGED <<created, nodesConfig>>

\* External: the signers of an epoch follow from its validators and randomness
SignersOf(epoch) ==
    IF epoch = 0 THEN genesisNodes ELSE [validators |-> epoch, randomness |-> <<"prevRandSeed", epoch>>]

VerifySignature(c) ==
    LET header == check[c].header
    IN  /\ Verifying(c, "VerifySignature")
        /\ Becomes(c, [check[c] EXCEPT !.pc =
                IF nodesConfig[header.epoch] = SignersOf(header.signed) THEN "true" ELSE "invalidSignature"])
        /\ UNCHANGED <<created, nodesConfig, failures>>

Again(c) ==
    /\ check[c].pc \in {"error", "true", "invalidSignature"}
    /\ Becomes(c, Idle)
    /\ UNCHANGED <<created, nodesConfig, failures>>

-----------------------------------------------------------------------------

HeadersInit ==
    /\ created = "none"
    /\ nodesConfig = [e \in Epochs |-> NotInConfig]
    /\ check = [c \in Verifications |-> Idle]
    /\ failures = 0

VerificationStep(c) ==
    \/ \E s \in HeaderShards, h \in Headers : fetchHeaderByHashAndShard(c, s, h)
    \/ lookAtConfig(c)
    \/ GetStartOfEpochMetaBlock(c)
    \/ GetValidatorsInfoByEpoch(c)
    \/ SetNodesConfigFromValidatorsInfo(c)
    \/ CheckFails(c)
    \/ VerifySignature(c)
    \/ Again(c)

HeadersNext ==
    \/ NewHeaderCheckHandler \/ NewHeaderCheckHandlerFails
    \/ \E c \in Verifications : VerificationStep(c)

HeadersSpec == HeadersInit /\ [][HeadersNext]_headerVars

(* A verification answers true exactly for a header that was signed for    *)
(* its own epoch, whichever calls fill the shared nodes coordinator at the *)
(* same time, in which order, and whichever requests fail on the way: no   *)
(* call leaves a configuration behind that misleads a later one.           *)
HeaderVerdictsAreTrue ==
    \A c \in Verifications :
        /\ check[c].pc = "true" => check[c].header.signed = check[c].header.epoch
        /\ check[c].pc = "invalidSignature" => check[c].header.signed # check[c].header.epoch
==============================================================================
