---------------------------- MODULE VmQueryGetter ----------------------------
(***************************************************************************)
(* blockchain/vmQueryGetter.go: queries of a contract whose answer is      *)
(* turned into bytes, a Boolean or a number, by way of ExecuteVMQuery of   *)
(* the proxy.  A byte is a number below ByteBase, and a uint64 has         *)
(* Uint64Bytes of them.                                                    *)
(***************************************************************************)
EXTENDS ProxyRequests

CONSTANTS ByteBase, Uint64Bytes

VARIABLE
    returning       \* the method of the getter that asks, or "response" for the proxy's own

queryVars == <<requestVars, returning>>

okCodeAfterExecution == "ok"

Unsigned(bytes) == FoldLeft(LAMBDA n, b : ByteBase * n + b, 0, bytes)

\* mutant: the number is cut to its last bytes
parseLastBytes(bytes) == Gives(Unsigned(bytes) % ByteBase ^ Uint64Bytes)

parseUInt64FromByteSlice(bytes) ==
    IF Unsigned(bytes) >= ByteBase ^ Uint64Bytes THEN Failed("ErrNotUint64Bytes") ELSE Gives(Unsigned(bytes))

\* ParseBool of the decimal digits of the first byte
parseBool(buff) ==
    IF buff = <<>> THEN Gives(FALSE)
    ELSE IF Head(buff) \in {0, 1} THEN Gives(Head(buff) = 1)
    ELSE Failed("internal error")

ExecuteQueryReturningBytes(response) ==
    IF response.err # "none" THEN response
    ELSE IF response.value = Nothing THEN Panics
    ELSE IF response.value[1].ReturnCode # okCodeAfterExecution THEN Failed("queryResponseError")
    ELSE Gives(response.value[1].ReturnData)

ExecuteQueryReturningBool(response) ==
    LET r == ExecuteQueryReturningBytes(response)
    IN  IF r.err # "none" THEN r
        ELSE IF r.value = <<>> THEN Gives(FALSE) ELSE parseBool(Head(r.value))

ExecuteQueryReturningUint64(response) ==
    LET r == ExecuteQueryReturningBytes(response)
    IN  IF r.err # "none" THEN r
        ELSE IF r.value = <<>> \/ Head(r.value) = <<>> THEN Gives(0)
        ELSE parseUInt64FromByteSlice(Head(r.value))

\* a request that is nil is refused before the proxy is asked
ExecuteQuery(request, kind) ==
    /\ returning' = kind
    /\ IF request = "nil" THEN Refuses("ErrNilRequest") ELSE ExecuteVMQuery

\* the builder gives a request or an error
ExecuteQueryFromBuilder(builderErr, kind) ==
    IF builderErr # "none" THEN returning' = kind /\ Refuses(builderErr) ELSE ExecuteQuery("given", kind)

Kinds == {"bytes", "bool", "uint64"}
ProxyAsks(action) == action /\ returning' = "response"

Request ==
    \/ \E r \in {"nil", "given"}, k \in Kinds : ExecuteQuery(r, k)
    \/ ProxyAsks(ExecuteVMQuery)
    \/ ProxyAsks(GetNetworkEconomics)
    \/ ProxyAsks(TransactionRequest \/ BlockRequest \/ ConfigRequest)
    \/ \E a \in {"nil", "invalid", "valid"} :
        ProxyAsks(GetAccount(a) \/ GetTokenData(a) \/ GetGuardianData(a) \/ IsDataTrieMigrated(a))
    \/ \E c \in {"nil", "given"}, a \in {"nil", "invalid", "valid"} :
        ProxyAsks(GetDefaultTransactionArguments(c, a))
    \/ \E t \in Transactions : ProxyAsks(SendTransaction(t))
    \/ \E txs \in {s \in SeqOf(Transactions, Cardinality(Transactions)) : IsInjective(s)} :
        ProxyAsks(SendTransactions(txs))

Return ==
    LET response == ResultOf(call.method, answer)
    IN  /\ \/ returning = "response" /\ Receives(response)
           \/ returning = "bytes" /\ Receives(ExecuteQueryReturningBytes(response))
           \/ returning = "bool" /\ Receives(ExecuteQueryReturningBool(response))
           \/ returning = "uint64" /\ Receives(ExecuteQueryReturningUint64(response))
        /\ UNCHANGED returning

QueriesInit == RequestsInit /\ returning = "response"

QueriesNext == Request \/ (NodeAnswers /\ UNCHANGED returning) \/ Return

-----------------------------------------------------------------------------

Succeeded == call.ended /\ answer # NoAnswer /\ result.err = "none"

\* the node has answered the request, and nobody instead of it
Answered == ~answer.failed /\ answer.status = 200 /\ answer.body.json /\ answer.body.error = ""

Output == answer.body.data[1]
FirstItem == IF Output.ReturnData = <<>> THEN <<>> ELSE Head(Output.ReturnData)
FirstByte == IF FirstItem = <<>> THEN 0 ELSE Head(FirstItem)

(* A call that returns no error returns what the node has answered.  The   *)
(* proxy's requests return its data, and those that take a field of them   *)
(* do not return one that is missing.  Of a contract that has not failed   *)
(* the getter returns all items, the number the first one stands for, if   *)
(* it fits, or the Boolean that the first byte of it stands for, which     *)
(* must be 0 or 1 (parseBool looks at no other byte).  The hashes of       *)
(* SendTransactions are those the node has accepted of this call, in the   *)
(* order of the call, also when it has refused some and when a call is     *)
(* repeated after its answer was lost.  SendTransaction does not look at   *)
(* the status and may return no hash instead of an error, never a wrong    *)
(* one.                                                                    *)
ResultsAreTheNodes == Succeeded =>
    /\ Answered \/ (call.method = "SendTransaction" /\ result.value = Nothing)
    /\ returning \in Kinds => Output.ReturnCode = "ok"
    /\ returning = "bytes" => result.value = Output.ReturnData
    /\ returning = "uint64" => /\ result.value = Unsigned(FirstItem)
                               /\ result.value < ByteBase ^ Uint64Bytes
    /\ returning = "bool" => FirstByte = IF result.value THEN 1 ELSE 0
    /\ call.method \in {"SendTransaction", "SendTransactions"} =>
            /\ ToSet(result.value) \subseteq pool
            /\ result.value = SelectSeq(call.txs, LAMBDA t : t \in ToSet(result.value))
    /\ call.method = "SendTransactions" => ToSet(result.value) = Range(answer.body.data[1])
    /\ returning = "response" /\ call.method \notin {"SendTransaction", "SendTransactions"} =>
            /\ result.value = answer.body.data
            /\ call.method \in StatusMethods \cup {"IsDataTrieMigrated", "GetDefaultTransactionArguments"} =>
                    result.value # Nothing
=============================================================================
