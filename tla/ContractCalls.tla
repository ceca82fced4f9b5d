---------------------------- MODULE ContractCalls ----------------------------
(***************************************************************************)
(* The sequential parts around a contract call: its data is built, the     *)
(* transaction is signed with a key from a file, the request is sent or    *)
(* the contract queried, an answer is decoded; or the command line tool    *)
(* does its work.  They share no state in the code, except that a query    *)
(* takes its request from a builder: otherwise a behaviour is one of a     *)
(* single part, the others resting.                                        *)
(***************************************************************************)
EXTENDS CallBuilders, CliTool, Deserializer, KeyFiles, VmQueryGetter

VARIABLE part

vars == <<part, builderVars, signingVars, decoderVars, keyVars, queryVars, toolVars>>

restingBuilder == BuilderInit /\ builder = "txData"
restingSigning ==
    /\ SigningInit
    /\ tx.sender = NoKey /\ tx.guardianAddr = NoKey
    /\ tx.options = 0 /\ tx.chainID = NetworkChain /\ tx.version = 1 /\ tx.value = 0 /\ tx.gasLimit = 0
restingDecoder == shape = <<"none">> /\ buff = <<>> /\ decoded = NotDecoded
restingKeys == KeysInit /\ jsonFile = Absent
restingTool == flags = NoOptions /\ ToolRests

OneOfTheParts ==
    \/ part = "build" /\ BuilderInit /\ restingSigning /\ restingDecoder /\ restingKeys /\ QueriesInit
    \/ part = "sign" /\ SigningInit /\ restingBuilder /\ restingDecoder /\ restingKeys /\ QueriesInit
    \/ part = "decode" /\ DecoderInit /\ restingBuilder /\ restingSigning /\ restingKeys /\ QueriesInit
    \/ part = "keys" /\ KeysInit /\ restingBuilder /\ restingSigning /\ restingDecoder /\ QueriesInit
    \/ part = "request" /\ QueriesInit /\ restingBuilder /\ restingSigning /\ restingDecoder /\ restingKeys
    \/ /\ part = "query"
       /\ BuilderInit /\ builder = "vmQuery"
       /\ QueriesInit /\ restingSigning /\ restingDecoder /\ restingKeys

Init ==
    \/ OneOfTheParts /\ restingTool
    \/ /\ part = "tool" /\ ToolInit
       /\ restingBuilder /\ restingSigning /\ restingDecoder /\ restingKeys /\ QueriesInit

Build ==
    /\ part = "build" /\ BuilderNext
    /\ UNCHANGED <<part, signingVars, decoderVars, keyVars, queryVars, toolVars>>
Sign ==
    /\ part = "sign" /\ SigningNext
    /\ UNCHANGED <<part, builderVars, decoderVars, keyVars, queryVars, toolVars>>
DecodeAnswer ==
    /\ part = "decode" /\ Decode
    /\ UNCHANGED <<part, builderVars, signingVars, keyVars, queryVars, toolVars>>
UseKeys ==
    /\ part = "keys" /\ KeysNext
    /\ UNCHANGED <<part, builderVars, signingVars, decoderVars, queryVars, toolVars>>
MakeRequest ==
    /\ part = "request" /\ QueriesNext
    /\ UNCHANGED <<part, builderVars, signingVars, decoderVars, keyVars, toolVars>>

\* a query of one setter, then one request with what the builder has made of it
BuildQuery ==
    /\ part = "query" /\ requests = 0 /\ given = <<>> /\ BuilderNext
    /\ UNCHANGED <<part, signingVars, decoderVars, keyVars, queryVars, toolVars>>
Query ==
    /\ part = "query"
    /\ \/ requests = 0 /\ \E k \in Kinds : ExecuteQueryFromBuilder(ToVmValueRequest.err, k)
       \/ NodeAnswers /\ UNCHANGED returning
       \/ Return
    /\ UNCHANGED <<part, builderVars, signingVars, decoderVars, keyVars, toolVars>>

UseTool ==
    /\ part = "tool" /\ ToolNext
    /\ UNCHANGED <<part, builderVars, signingVars, decoderVars, keyVars, queryVars>>

Next == Build \/ Sign \/ DecodeAnswer \/ UseKeys \/ MakeRequest \/ BuildQuery \/ Query \/ UseTool

Spec == Init /\ [][Next]_vars
=============================================================================
