-------------------------- MODULE NonceRegistryV3 ---------------------------
(***************************************************************************)
(* interactors/nonceHandlerV3/nonceTransactionsHandler.go: the map of      *)
(* handlers, one for each sender, created on demand and shared by          *)
(* concurrent calls of ApplyNonceAndGasPrice, SendTransactions and Close.  *)
(*                                                                         *)
(* A handler is the number it was created with.  Its worker is modelled by *)
(* the requests it holds: the pop of the lowest nonce and the retrieval of *)
(* its channel are one step, a nonce that is scheduled twice being refused *)
(* in between as it is before.  Gas prices are left to NonceHandlerV3.     *)
(***************************************************************************)
EXTENDS Integers, Sequences, FiniteSets, Functions

CONSTANTS
    Addresses,
    Invalid,        \* a sender that cannot be parsed
    Calls,          \* concurrent callers
    TxsOf,          \* TxsOf[c]: the senders of the transactions of c
    Cancellable,    \* callers whose context may be done; the others pass context.Background()
    MaxFailures     \* bound: the proxy fails a send only while fewer requests have failed

ASSUME CallsAreFinite == IsFiniteSet(Calls)
ASSUME CallsHaveTransactions ==
    /\ Invalid \notin Addresses
    /\ \A c \in Calls : TxsOf[c] \in Seq(Addresses \cup {Invalid}) /\ TxsOf[c] # <<>>

VARIABLES
    handlers,       \* the map, None where there is no entry
    created,        \* how many handlers there are
    nonce,          \* of each handler, as are the next two
    cancelled,      \* its cancelFunc was called
    workerClosed,   \* its worker has noticed
    pc, todo,       \* of each call; the senders ApplyNonceAndGasPrice has still to visit
    index,          \* the transaction a call is working on
    anh,            \* the handler it got for it
    returned,
    txNonce,        \* txNonce[c][i], NotSet when no nonce was applied
    send,           \* send[c][i]: the goroutine of a transaction, its handler and its request
    sentHashes

handlerVars == <<handlers, created, nonce, cancelled, workerClosed>>
callVars == <<pc, todo, index, anh, returned>>
txVars == <<txNonce, send, sentHashes>>
vars == <<handlerVars, callVars, txVars>>

None == 0
NotSet == -1
NoHash == <<>>
Slots == UNION {{c} \X DOMAIN TxsOf[c] : c \in Calls}
Instances == 1..(2 * Cardinality(Slots))

Init ==
    /\ handlers = [a \in Addresses |-> None]
    /\ created = 0
    /\ nonce = [h \in Instances |-> NotSet]
    /\ cancelled = [h \in Instances |-> FALSE]
    /\ workerClosed = [h \in Instances |-> FALSE]
    /\ pc \in [Calls -> {"apply", "send"}]    \* who sends at once has set no nonces
    /\ todo = [c \in Calls |-> IF pc[c] = "apply" THEN Range(TxsOf[c]) ELSE {}]
    /\ index = [c \in Calls |-> 1]
    /\ anh = [c \in Calls |-> None]
    /\ returned = [c \in Calls |-> "no"]
    /\ txNonce = [c \in Calls |-> [i \in DOMAIN TxsOf[c] |-> NotSet]]
    /\ send = [c \in Calls |-> [i \in DOMAIN TxsOf[c] |->
                                    [state |-> "none", anh |-> None, request |-> "none"]]]
    /\ sentHashes = [c \in Calls |-> [i \in DOMAIN TxsOf[c] |-> NoHash]]

Set(f, c, value) == [f EXCEPT ![c] = value]
Sender(c) == TxsOf[c][index[c]]

Return(c, result) ==
    /\ pc' = Set(pc, c, "returned")
    /\ returned' = Set(returned, c, result)

-----------------------------------------------------------------------------
(* getOrCreateAddressNonceHandler: a look under the read lock, and if there *)
(* is no entry a second one under the write lock                            *)

getAddressNonceHandler(c, a, found, notFound) ==
    /\ anh' = Set(anh, c, handlers[a])
    /\ pc' = Set(pc, c, IF handlers[a] # None THEN found ELSE notFound)

NewAddressNonceHandlerV3(c) ==
    /\ created' = created + 1
    /\ handlers' = [handlers EXCEPT ![Sender(c)] = created']
    /\ anh' = Set(anh, c, created')

\* mutant: what the read lock showed is not looked at again
createUnconditionally(c) ==
    /\ NewAddressNonceHandlerV3(c)

createAddressNonceHandler(c) ==
    \/ /\ handlers[Sender(c)] # None
       /\ anh' = Set(anh, c, handlers[Sender(c)])
       /\ UNCHANGED <<handlers, created>>
    \/ handlers[Sender(c)] = None /\ NewAddressNonceHandlerV3(c)

Create(c) ==
    /\ pc[c] \in {"createToApply", "createToSend"}
    /\ createAddressNonceHandler(c)
    /\ pc' = Set(pc, c, IF pc[c] = "createToApply" THEN "computeNonce" ELSE "go")
    /\ UNCHANGED <<nonce, cancelled, workerClosed, todo, index, returned, txVars>>

-----------------------------------------------------------------------------
(* ApplyNonceAndGasPrice                                                   *)

FromSender(c, a) == {i \in DOMAIN TxsOf[c] : TxsOf[c][i] = a}

\* the first transaction of the sender from an index on, if there is one
FirstFrom(c, a, from) ==
    {i \in FromSender(c, a) : i >= from /\ \A j \in FromSender(c, a) : j >= from => i <= j}

\* filterTransactionsBySenderAddress makes a Go map: any order of senders
VisitSender(c) ==
    /\ pc[c] = "apply"
    /\ \E a \in todo[c] :
        /\ todo' = Set(todo, c, todo[c] \ {a})
        /\ \/ a = Invalid /\ Return(c, "refused") /\ UNCHANGED <<anh, index>>
           \/ /\ a # Invalid
              /\ getAddressNonceHandler(c, a, "computeNonce", "createToApply")
              /\ \E i \in FirstFrom(c, a, 1) : index' = Set(index, c, i)
              /\ UNCHANGED returned
    /\ UNCHANGED <<handlerVars, txVars>>

SentNonce(c, i) == IF txNonce[c][i] = NotSet THEN 0 ELSE txNonce[c][i]

\* what GetAccount may answer: all nonces below it have reached the network,
\* which executes them in its own time; an observer may lag behind
AccountNonces(a) ==
    LET reached == {SentNonce(s[1], s[2]) : s \in {s \in Slots :
                        TxsOf[s[1]][s[2]] = a /\ send[s[1]][s[2]].request \in {"ok", "lost"}}}
    IN  {n \in 0..Cardinality(Slots) : 0..(n - 1) \subseteq reached}

\* one transaction of the loop; anh.mut is held during GetAccount
computeNonce(c) ==
    /\ pc[c] = "computeNonce"
    /\ \E n \in IF nonce[anh[c]] = NotSet THEN AccountNonces(Sender(c)) ELSE {nonce[anh[c]] + 1} :
        /\ nonce' = [nonce EXCEPT ![anh[c]] = n]
        /\ txNonce' = [txNonce EXCEPT ![c][index[c]] = n]
    /\ LET later == FirstFrom(c, Sender(c), index[c] + 1)
       IN  \/ \E i \in later : index' = Set(index, c, i) /\ UNCHANGED pc
           \/ /\ later = {}
              /\ index' = Set(index, c, 1)
              /\ pc' = Set(pc, c, IF todo[c] = {} THEN "send" ELSE "apply")
    /\ UNCHANGED <<handlers, created, cancelled, workerClosed, todo, anh, returned, send, sentHashes>>

\* GetAccount failed
computeNonceFails(c) ==
    /\ pc[c] = "computeNonce"
    /\ nonce[anh[c]] = NotSet
    /\ Return(c, "refused")
    /\ UNCHANGED <<handlerVars, todo, index, anh, txVars>>

-----------------------------------------------------------------------------
(* SendTransactions                                                        *)

\* a sender that cannot be parsed (or a nil transaction) ends the call, but
\* not the goroutines of the transactions before it
NextTransaction(c) ==
    /\ pc[c] = "send"
    /\ \/ Sender(c) = Invalid /\ Return(c, "refused") /\ UNCHANGED anh
       \/ /\ Sender(c) # Invalid
          /\ getAddressNonceHandler(c, Sender(c), "go", "createToSend")
          /\ UNCHANGED returned
    /\ UNCHANGED <<handlerVars, todo, index, txVars>>

Go(c) ==
    /\ pc[c] = "go"
    /\ send' = [send EXCEPT ![c][index[c]] = [state |-> "started", anh |-> anh[c], request |-> "none"]]
    /\ \/ /\ index[c] < Len(TxsOf[c])
          /\ index' = Set(index, c, index[c] + 1)
          /\ pc' = Set(pc, c, "send")
       \/ /\ index[c] = Len(TxsOf[c])
          /\ pc' = Set(pc, c, "wait")
          /\ UNCHANGED index
    /\ UNCHANGED <<handlerVars, todo, anh, returned, txNonce, sentHashes>>

Ended(c, i) == send[c][i].state \in {"sent", "failed"}

Waited(c) ==
    /\ Return(c, IF \E i \in DOMAIN TxsOf[c] : send[c][i].state = "failed" THEN "failed" ELSE "ok")
    /\ UNCHANGED <<handlerVars, todo, index, anh, txVars>>

\* mutant: the call returns with the first goroutine that ends
WaitForFirst(c) ==
    /\ pc[c] = "wait"
    /\ \E i \in DOMAIN TxsOf[c] : Ended(c, i)
    /\ Waited(c)

Wait(c) ==
    /\ pc[c] = "wait"
    /\ \A i \in DOMAIN TxsOf[c] : Ended(c, i)
    /\ Waited(c)

-----------------------------------------------------------------------------
(* addressNonceHandler.SendTransaction, in the goroutine of a transaction  *)

Holds(h, request) == {s \in Slots : send[s[1]][s[2]].anh = h /\ send[s[1]][s[2]].request = request}

\* refused by a closed worker, or because the nonce is scheduled already
AddTransaction(c, i) ==
    /\ send[c][i].state = "started"
    /\ LET h == send[c][i].anh
           refused == workerClosed[h] \/ \E s \in Holds(h, "queued") : SentNonce(s[1], s[2]) = SentNonce(c, i)
       IN  send' = [send EXCEPT ![c][i] = [state |-> "waiting", anh |-> h,
                                           request |-> IF refused THEN "error" ELSE "queued"]]
    /\ UNCHANGED <<handlerVars, callVars, txNonce, sentHashes>>

\* the hash stands for its transaction
ReceiveHash(c, i) ==
    /\ send[c][i].state = "waiting"
    /\ send[c][i].request = "ok"
    /\ send' = [send EXCEPT ![c][i].state = "sent"]
    /\ sentHashes' = [sentHashes EXCEPT ![c][i] = <<c, i>>]
    /\ UNCHANGED <<handlerVars, callVars, txNonce>>

\* adaptNonceBasedOnResponse invalidates the nonce
ReceiveError(c, i) ==
    /\ send[c][i].state = "waiting"
    /\ send[c][i].request \in {"error", "lost"}
    /\ send' = [send EXCEPT ![c][i].state = "failed"]
    /\ nonce' = [nonce EXCEPT ![send[c][i].anh] = NotSet]
    /\ UNCHANGED <<handlers, created, cancelled, workerClosed, callVars, txNonce, sentHashes>>

\* the request stays with the worker
ContextDone(c, i) ==
    /\ c \in Cancellable
    /\ send[c][i].state = "waiting"
    /\ send' = [send EXCEPT ![c][i].state = "failed"]
    /\ UNCHANGED <<handlerVars, callVars, txNonce, sentHashes>>

-----------------------------------------------------------------------------
(* The worker goroutine of a handler, and Close                            *)

Lowest(slots) == {s \in slots : \A t \in slots : SentNonce(s[1], s[2]) <= SentNonce(t[1], t[2])}

TakeNext(h) ==
    /\ ~workerClosed[h]
    /\ Holds(h, "inHand") = {}
    /\ \E s \in Lowest(Holds(h, "queued")) : send' = [send EXCEPT ![s[1]][s[2]].request = "inHand"]
    /\ UNCHANGED <<handlerVars, callVars, txNonce, sentHashes>>

Failures == Cardinality({s \in Slots : send[s[1]][s[2]].request \in {"error", "lost"}})

\* "lost": the network has the transaction, the answer did not arrive
ProxySendTransaction(h) ==
    /\ \E s \in Holds(h, "inHand") : \E answer \in {"ok"} \cup (IF Failures < MaxFailures THEN {"error", "lost"} ELSE {}) :
            send' = [send EXCEPT ![s[1]][s[2]].request = answer]
    /\ UNCHANGED <<handlerVars, callVars, txNonce, sentHashes>>

closeAllChannels(h) ==
    /\ cancelled[h] /\ ~workerClosed[h]
    /\ Holds(h, "inHand") = {}
    /\ workerClosed' = [workerClosed EXCEPT ![h] = TRUE]
    /\ send' = [c \in Calls |-> [i \in DOMAIN TxsOf[c] |->
                    IF <<c, i>> \in Holds(h, "queued") THEN [send[c][i] EXCEPT !.request = "error"]
                    ELSE send[c][i]]]
    /\ UNCHANGED <<handlers, created, nonce, cancelled, callVars, txNonce, sentHashes>>

\* the read lock keeps new handlers out of the map meanwhile
Close ==
    /\ cancelled' = [h \in Instances |-> cancelled[h] \/ h \in Range(handlers)]
    /\ UNCHANGED <<handlers, created, nonce, workerClosed, callVars, txVars>>

-----------------------------------------------------------------------------

Next ==
    \/ \E c \in Calls :
        \/ VisitSender(c) \/ Create(c) \/ computeNonce(c) \/ computeNonceFails(c)
        \/ NextTransaction(c) \/ Go(c) \/ Wait(c)
    \/ \E c \in Calls : \E i \in DOMAIN TxsOf[c] :
        AddTransaction(c, i) \/ ReceiveHash(c, i) \/ ReceiveError(c, i) \/ ContextDone(c, i)
    \/ \E h \in 1..created : TakeNext(h) \/ ProxySendTransaction(h) \/ closeAllChannels(h)
    \/ Close

Spec == Init /\ [][Next]_vars

-----------------------------------------------------------------------------

(* However the creations of handlers interleave, the transactions of one   *)
(* sender get different nonces from concurrent calls of                    *)
(* ApplyNonceAndGasPrice, as long as no send of that sender was answered   *)
(* with an error, which makes its handler fetch the nonce again.           *)
SenderNoncesDiffer ==
    \A s, t \in Slots :
        /\ s # t
        /\ TxsOf[s[1]][s[2]] = TxsOf[t[1]][t[2]]
        /\ txNonce[s[1]][s[2]] # NotSet
        /\ txNonce[s[1]][s[2]] = txNonce[t[1]][t[2]]
        => \E u \in Slots : /\ TxsOf[u[1]][u[2]] = TxsOf[s[1]][s[2]]
                            /\ send[u[1]][u[2]].request \in {"error", "lost"}

(* When SendTransactions has waited for its goroutines none of them is     *)
(* left to write into the slice it returns, which holds the hash of its    *)
(* own transaction at the index of every one that was sent, and nothing    *)
(* else; without an error that is every one of them.                       *)
HashesAreFinal ==
    \A c \in Calls : returned[c] \in {"ok", "failed"} =>
        \A i \in DOMAIN TxsOf[c] :
            /\ send[c][i].state \in (IF returned[c] = "ok" THEN {"sent"} ELSE {"sent", "failed"})
            /\ sentHashes[c][i] = IF send[c][i].state = "sent" THEN <<c, i>> ELSE NoHash

(* "Close will cancel all related processes": a worker goroutine that no   *)
(* Close has cancelled belongs to a handler that is in the map, where the  *)
(* next Close finds it, also when several calls found none and went on to  *)
(* create one, before and after a Close; and one that has noticed leaves   *)
(* no transaction without an answer, so that nobody waits for it.          *)
CloseReachesEveryWorker ==
    \A h \in 1..created :
        /\ cancelled[h] \/ h \in Range(handlers)
        /\ workerClosed[h] => Holds(h, "queued") \cup Holds(h, "inHand") = {}
=============================================================================
