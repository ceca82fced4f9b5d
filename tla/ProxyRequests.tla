---------------------------- MODULE ProxyRequests ----------------------------
(***************************************************************************)
(* blockchain/proxy.go and core/http/clientWrapper.go: the requests of the *)
(* proxy that keep nothing between calls.  Each checks its arguments, asks *)
(* the node once and makes a value or an error of the answer.  FilterLogs, *)
(* the configuration cache and the finality check are in module Proxy:     *)
(* here the finality check succeeds or fails.                              *)
(*                                                                         *)
(* External: the node, which accepts transactions or refuses them, and the *)
(* connection, which may break before or after the node has done so.       *)
(***************************************************************************)
EXTENDS Integers, SequencesExt

CONSTANTS
    Transactions,   \* a transaction stands for its hash
    Outputs,        \* what contracts return: [ReturnCode, ReturnData]
    MaxRequests     \* bound on the calls

VARIABLES
    pool,           \* the transactions the node has accepted
    call,           \* the call that is under way
    answer,         \* of the node
    result,         \* of the last call that ended
    requests

requestVars == <<pool, call, answer, result, requests>>

Nothing == <<>>             \* a field that is missing in the answer; one that is there is <<data>>
NotJson == [json |-> FALSE, error |-> "", data |-> Nothing]
Json(error, data) == [json |-> TRUE, error |-> error, data |-> data]
NoCall == [method |-> "none", txs |-> <<>>, ended |-> TRUE]
NoAnswer == [failed |-> FALSE, status |-> 0, body |-> NotJson]

Failed(err) == [err |-> err, value |-> Nothing]
Gives(value) == [err |-> "none", value |-> value]
Panics == Failed("panic")

-----------------------------------------------------------------------------
(* What becomes of an answer                                               *)

\* a request that cannot be made or answered has status 400, one whose answer
\* cannot be read has its own status; both come with an error
GetHTTP(a) == [err |-> a.failed, code |-> a.status]

Unmarshalled(body) ==
    IF ~body.json THEN Failed("unmarshal")
    ELSE IF body.error # "" THEN Failed(body.error) ELSE Gives(body.data)

Checked(a) ==
    IF GetHTTP(a).err \/ GetHTTP(a).code # 200 THEN Failed("ErrHTTPStatusCodeIsNotOK")
    ELSE Unmarshalled(a.body)

\* the hashes in the order of their indexes; transactions that were not
\* accepted have none
postProcessSendMultipleTxsResult(hashes) ==
    LET indexes == SetToSortSeq(DOMAIN hashes, <)
    IN  Gives([i \in DOMAIN indexes |-> hashes[indexes[i]]])

SendTransactionsResult(a) ==
    LET r == Checked(a)
    IN  IF r.err # "none" \/ r.value = Nothing THEN r ELSE postProcessSendMultipleTxsResult(r.value[1])

\* the status of the answer is not looked at
SendTransactionResult(a) ==
    IF GetHTTP(a).err THEN Failed("ErrHTTPStatusCodeIsNotOK") ELSE Unmarshalled(a.body)

IsDataTrieMigratedResult(a) ==
    LET r == Checked(a)
    IN  IF r = Gives(Nothing) THEN Failed("isMigrated key not found") ELSE r

\* checkReceivedNodeStatus comes before the field is taken
StatusResult(a) ==
    LET r == Checked(a)
    IN  IF r = Gives(Nothing) THEN Failed("ErrNilNetworkStatus") ELSE r

\* the account is used without a look at whether there is one
GetDefaultTransactionArgumentsResult(a) ==
    LET account == Checked(a)
    IN  IF account = Gives(Nothing) THEN Panics ELSE account

StatusMethods == {"GetLatestHyperBlockNonce", "GetNonceAtEpochStart"}

ResultOf(method, a) ==
    CASE method = "SendTransaction" -> SendTransactionResult(a)
      [] method = "SendTransactions" -> SendTransactionsResult(a)
      [] method = "IsDataTrieMigrated" -> IsDataTrieMigratedResult(a)
      [] method = "GetDefaultTransactionArguments" -> GetDefaultTransactionArgumentsResult(a)
      [] method \in StatusMethods -> StatusResult(a)
      [] OTHER -> Checked(a)

-----------------------------------------------------------------------------
(* The calls                                                               *)

Begins ==
    /\ call.ended
    /\ requests < MaxRequests
    /\ requests' = requests + 1
    /\ answer' = NoAnswer
    /\ UNCHANGED pool

Asks(method, txs) ==
    /\ Begins
    /\ call' = [method |-> method, txs |-> txs, ended |-> FALSE]
    /\ result' = Failed("none")

Refuses(err) ==
    /\ Begins
    /\ result' = Failed(err)
    /\ call' = NoCall

\* IfNil, IsValid and AddressAsBech32String of an address
WithAddress(address, request) ==
    CASE address = "nil" -> Refuses("ErrNilAddress")
      [] address = "invalid" -> Refuses("ErrInvalidAddress")
      [] address = "valid" -> request

checkFinalState(request) == request \/ Refuses("not final")

ExecuteVMQuery == checkFinalState(Asks("ExecuteVMQuery", <<>>))

GetNetworkEconomics == Asks("GetNetworkEconomics", <<>>)

GetAccount(address) == WithAddress(address, checkFinalState(Asks("GetAccount", <<>>)))

GetDefaultTransactionArguments(networkConfigs, address) ==
    IF networkConfigs = "nil" THEN Refuses("ErrNilNetworkConfigs")
    ELSE WithAddress(address, checkFinalState(Asks("GetDefaultTransactionArguments", <<>>)))

SendTransaction(tx) == Asks("SendTransaction", <<tx>>)

SendTransactions(txs) == Asks("SendTransactions", txs)

TransactionRequest ==
    \E m \in {"GetTransactionStatus", "GetTransactionInfo", "RequestTransactionCost"} : Asks(m, <<>>)

BlockRequest ==
    \E m \in {"GetLatestHyperBlockNonce", "GetHyperBlock", "GetRawBlock", "GetRawMiniBlock"} : Asks(m, <<>>)

ConfigRequest ==
    \E m \in {"GetNonceAtEpochStart", "GetRatingsConfig", "GetEnableEpochsConfig",
              "GetGenesisNodesPubKeys", "GetValidatorsInfoByEpoch"} : Asks(m, <<>>)

GetTokenData(address) ==
    \E m \in {"GetESDTTokenData", "GetNFTTokenData"} : WithAddress(address, Asks(m, <<>>))

GetGuardianData(address) == WithAddress(address, checkFinalState(Asks("GetGuardianData", <<>>)))

\* without a look at IsValid: the conversion to text fails instead
IsDataTrieMigrated(address) == WithAddress(address, Asks("IsDataTrieMigrated", <<>>))

-----------------------------------------------------------------------------
(* External: the node                                                      *)

\* the data of an answer, when of the transactions in the call those with
\* these indexes have been accepted
DataOf(accepted) ==
    CASE call.method = "SendTransaction" -> IF accepted = {} THEN {} ELSE {<<call.txs[1]>>}
      [] call.method = "SendTransactions" -> {<<[i \in accepted |-> call.txs[i]]>>}
      [] call.method = "ExecuteVMQuery" -> {<<output>> : output \in Outputs} \cup {Nothing}
      [] OTHER -> {<<"given">>, Nothing}

GoodAnswers(accepted) ==
    {[failed |-> FALSE, status |-> 200, body |-> Json("", d)] : d \in DataOf(accepted)}

\* of the node, of a gateway before it, or of the client
BadAnswers ==
    {[failed |-> TRUE, status |-> s, body |-> NotJson] : s \in {200, 400}}
        \cup {[failed |-> FALSE, status |-> s, body |-> NotJson] : s \in {200, 500}}
        \cup {[failed |-> FALSE, status |-> s, body |-> Json("response error", Nothing)] : s \in {200, 500}}
        \cup {[failed |-> FALSE, status |-> 500, body |-> Json("", Nothing)]}

NodeAnswers ==
    /\ ~call.ended
    /\ answer = NoAnswer
    /\ \E accepted \in SUBSET DOMAIN call.txs :
        /\ pool' = pool \cup {call.txs[i] : i \in accepted}
        /\ answer' \in GoodAnswers(accepted) \cup BadAnswers
    /\ UNCHANGED <<call, result, requests>>

\* what the proxy makes of the answer is handed to the caller
Receives(value) ==
    /\ ~call.ended
    /\ answer # NoAnswer
    /\ result' = value
    /\ call' = [call EXCEPT !.ended = TRUE]
    /\ UNCHANGED <<pool, answer, requests>>

-----------------------------------------------------------------------------

RequestsInit ==
    /\ pool = {}
    /\ call = NoCall
    /\ answer = NoAnswer
    /\ result = Failed("none")
    /\ requests = 0
=============================================================================
