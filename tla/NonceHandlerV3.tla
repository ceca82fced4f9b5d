--------------------------- MODULE NonceHandlerV3 ---------------------------
(***************************************************************************)
(* interactors/nonceHandlerV3/addressNonceHandler.go, one address, composed *)
(* with its transaction worker and with the chain.                         *)
(*                                                                         *)
(* Each transaction is carried by a caller of its own: it gets a nonce and *)
(* a gas price (ApplyNonceAndGasPrice), is handed to the worker and waits  *)
(* for the response or for its own context (SendTransaction).  A batch of  *)
(* several transactions is the same steps in a row.  computeNonce holds    *)
(* anh.mut while it asks the proxy for the account, so it is one action.   *)
(* Gas prices are abstracted to unknown (0) and known (1).                 *)
(***************************************************************************)
EXTENDS AccountChain, Sequences

CONSTANTS Nonces, Nil

VARIABLES
    nonce, gasPrice,    \* the fields of addressNonceHandler
    txPc, txNonce, txGas,
    fetched,            \* history: the account's nonces that computeNonce took
    txFetch,            \* how many there were when the transaction got its nonce
    alive,              \* FALSE once a goroutine has panicked
    tq, responsesChannels, workerClosed, ctxDone, pc, current, channel, response,
    added, answers, taken, sent, popsBefore

Worker == INSTANCE TransactionWorker WITH Requests <- Txs

queueWorkerVars == <<tq, responsesChannels, workerClosed, ctxDone, pc, current, channel,
                     response, added, answers, taken, sent, popsBefore>>
callerVars == <<txPc, txNonce, txGas, txFetch>>
handlerVars == <<nonce, gasPrice, fetched, alive, callerVars>>
vars == <<chainVars, handlerVars, queueWorkerVars>>

NotSet == -1

Init ==
    /\ ChainInit
    /\ Worker!Init
    /\ nonce = NotSet
    /\ gasPrice = 0
    /\ txPc = [t \in Txs |-> "new"]
    /\ txNonce = [t \in Txs |-> NotSet]
    /\ txGas = [t \in Txs |-> 0]
    /\ fetched = <<>>
    /\ txFetch = [t \in Txs |-> 0]
    /\ alive = TRUE

Goto(t, label) == txPc' = [txPc EXCEPT ![t] = label]

-----------------------------------------------------------------------------
(* ApplyNonceAndGasPrice, for one of its transactions.                     *)

\* mutant: the nonce is returned before it is incremented
computeNoncePostIncrement(t) ==
    /\ txPc[t] = "new"
    /\ \/ /\ nonce = NotSet
          /\ nonce' = accountNonce
          /\ fetched' = Append(fetched, accountNonce)
          /\ txNonce' = [txNonce EXCEPT ![t] = nonce']
       \/ /\ nonce # NotSet
          /\ nonce' = nonce + 1
          /\ txNonce' = [txNonce EXCEPT ![t] = nonce]
          /\ UNCHANGED fetched
    /\ txFetch' = [txFetch EXCEPT ![t] = Len(fetched')]
    /\ Goto(t, "gas")
    /\ UNCHANGED <<gasPrice, txGas, alive, chainVars, queueWorkerVars>>

\* mutant: the fetched nonce is taken for the last one used
computeNonceSkipsFirst(t) ==
    /\ txPc[t] = "new"
    /\ nonce' = IF nonce = NotSet THEN accountNonce + 1 ELSE nonce + 1
    /\ fetched' = IF nonce = NotSet THEN Append(fetched, accountNonce) ELSE fetched
    /\ txNonce' = [txNonce EXCEPT ![t] = nonce']
    /\ txFetch' = [txFetch EXCEPT ![t] = Len(fetched')]
    /\ Goto(t, "gas")
    /\ UNCHANGED <<gasPrice, txGas, alive, chainVars, queueWorkerVars>>

computeNonce(t) ==
    /\ txPc[t] = "new"
    /\ \/ /\ nonce = NotSet
          /\ nonce' = accountNonce
          /\ fetched' = Append(fetched, accountNonce)
       \/ /\ nonce # NotSet
          /\ nonce' = nonce + 1
          /\ UNCHANGED fetched
    /\ txNonce' = [txNonce EXCEPT ![t] = nonce']
    /\ txFetch' = [txFetch EXCEPT ![t] = Len(fetched')]
    /\ Goto(t, "gas")
    /\ UNCHANGED <<gasPrice, txGas, alive, chainVars, queueWorkerVars>>

\* GetAccount failed: no nonce is consumed
computeNonceFails(t) ==
    /\ txPc[t] = "new"
    /\ nonce = NotSet
    /\ Goto(t, "applyFailed")
    /\ UNCHANGED <<nonce, gasPrice, fetched, alive, txNonce, txGas, txFetch, chainVars, queueWorkerVars>>

\* anh.gasPrice is read under a lock of its own
applyGasPriceIfRequired(t) ==
    /\ txPc[t] = "gas"
    /\ Goto(t, IF gasPrice = 0 THEN "config" ELSE "price")
    /\ UNCHANGED <<nonce, gasPrice, fetched, alive, txNonce, txGas, txFetch, chainVars, queueWorkerVars>>

\* when GetNetworkConfig fails its nil result is dereferenced
GetNetworkConfig(t) ==
    /\ txPc[t] = "config"
    /\ \/ Goto(t, "price") /\ UNCHANGED alive
       \/ Goto(t, "panicked") /\ alive' = FALSE
    /\ UNCHANGED <<nonce, gasPrice, fetched, txNonce, txGas, txFetch, chainVars, queueWorkerVars>>

ApplyGasPrice(t) ==
    /\ txPc[t] = "price"
    /\ gasPrice' = 1
    /\ txGas' = [txGas EXCEPT ![t] = 1]
    /\ Goto(t, "ready")
    /\ UNCHANGED <<nonce, fetched, alive, txNonce, txFetch, chainVars, queueWorkerVars>>

-----------------------------------------------------------------------------
(* SendTransaction.                                                        *)

SendTransaction(t) ==
    /\ txPc[t] = "ready"
    /\ Worker!AddTransaction(t, txNonce[t])
    /\ Goto(t, "waiting")
    /\ UNCHANGED <<nonce, gasPrice, fetched, alive, txNonce, txGas, txFetch, chainVars>>

ReceiveResponse(t) ==
    /\ txPc[t] = "waiting"
    /\ Worker!Receive(t)
    /\ Goto(t, "responded")
    /\ UNCHANGED <<nonce, gasPrice, fetched, alive, txNonce, txGas, txFetch, chainVars>>

\* the caller's context is done first: the transaction stays in the queue
ContextDone(t) ==
    /\ txPc[t] = "waiting"
    /\ Goto(t, "abandoned")
    /\ UNCHANGED <<nonce, gasPrice, fetched, alive, txNonce, txGas, txFetch, chainVars, queueWorkerVars>>

Succeeded(t) == answers[t][1].err = "none"

adaptNonceBasedOnResponse(t) ==
    /\ txPc[t] = "responded"
    /\ nonce' = IF Succeeded(t) THEN nonce ELSE NotSet
    /\ Goto(t, IF Succeeded(t) THEN "sent" ELSE "failed")
    /\ UNCHANGED <<gasPrice, fetched, alive, txNonce, txGas, txFetch, chainVars, queueWorkerVars>>

-----------------------------------------------------------------------------

\* the worker calls the proxy; the answer may get lost on the way back
ProxySendTransaction ==
    /\ Worker!SendTransaction
    /\ \/ Admissible(current.nonce) /\ Admit({InPool(current.req, current.nonce)})
       \/ response'.err # "none" /\ UNCHANGED chainVars
    /\ UNCHANGED handlerVars

WorkerStep ==
    /\ \/ Worker!nextTransaction
       \/ Worker!retrieveChannel
       \/ Worker!Respond
       \/ Worker!closeAllChannels
    /\ UNCHANGED <<chainVars, handlerVars>>

Close == Worker!Cancel /\ UNCHANGED <<chainVars, handlerVars>>

ChainStep == Execute /\ UNCHANGED <<handlerVars, queueWorkerVars>>

CallerStep(t) ==
    \/ computeNonce(t)
    \/ applyGasPriceIfRequired(t) \/ GetNetworkConfig(t) \/ ApplyGasPrice(t)
    \/ SendTransaction(t) \/ ReceiveResponse(t) \/ adaptNonceBasedOnResponse(t)

Next ==
    \/ alive /\ \E t \in Txs : CallerStep(t) \/ computeNonceFails(t) \/ ContextDone(t)
    \/ alive /\ (ProxySendTransaction \/ WorkerStep \/ Close)
    \/ ChainStep

Spec == Init /\ [][Next]_vars

\* callers run to the end (each has finitely many steps, so one condition does
\* for all), the worker goroutine and the chain make progress
Fairness ==
    /\ WF_vars(alive /\ \E t \in Txs : CallerStep(t))
    /\ WF_vars(alive /\ (ProxySendTransaction \/ WorkerStep))
    /\ WF_vars(ChainStep)

FairSpec == Spec /\ Fairness

\* the transactions are interchangeable: they get their nonces in a fixed order
InSomeOrder ==
    \A t \in Txs : txPc[t] = "new" /\ txPc'[t] # "new" => t = CHOOSE u \in Txs : txPc[u] = "new"

OrderedSpec == Init /\ [][Next /\ InSomeOrder]_vars /\ Fairness

-----------------------------------------------------------------------------

TypeOK ==
    /\ ChainTypeOK
    /\ Worker!TypeOK
    /\ nonce \in Nat \cup {NotSet}
    /\ gasPrice \in {0, 1}
    /\ txPc \in [Txs -> {"new", "gas", "config", "price", "ready", "waiting", "responded", "sent", "failed",
                         "abandoned", "applyFailed", "panicked"}]
    /\ \A t \in Txs : txPc[t] \notin {"new", "applyFailed"} => txNonce[t] \in Nonces
    /\ txGas \in [Txs -> {0, 1}]
    /\ fetched \in Seq(Nat) /\ txFetch \in [Txs -> 0..Len(fetched)]
    /\ alive \in BOOLEAN

(* From one taking of the account's nonce to the next the nonces handed to *)
(* concurrent callers start with that nonce and follow each other: none is *)
(* handed out twice, none is skipped and none is lower, also when a        *)
(* failing response makes computeNonce ask for the account again while     *)
(* earlier transactions are queued.                                        *)
ConsecutiveSinceFetch ==
    \A t \in Txs : txFetch[t] > 0 =>
        LET first == fetched[txFetch[t]]
            same == {u \in Txs : txFetch[u] = txFetch[t]}
        IN  /\ txNonce[t] >= first
            /\ \A n \in first..txNonce[t] : \E u \in same : txNonce[u] = n
            /\ \A u \in same \ {t} : txNonce[u] # txNonce[t]

Failed(t) == answers[t] # <<>> /\ ~Succeeded(t)

Source == INSTANCE NonceSource WITH
    held <- txNonce,
    disturbed <- \E t \in Txs : Failed(t)

(* Until a send fails, concurrent callers get one nonce after the other,   *)
(* starting with the account's: none twice, none left out and none that is *)
(* used already ("This will prevent nonce too low in transaction errors"), *)
(* although the account is not looked at again and callers give up.        *)
NoncesFollowEachOther == Source!SourceSpec

Trouble ==
    \/ ctxDone
    \/ ~alive
    \/ pc = "respond" /\ response.err # "none"
    \/ \E t \in Txs : Failed(t)

(* As long as no send fails and the handler is not closed, every           *)
(* transaction handed to SendTransaction is eventually executed, in spite  *)
(* of callers giving up on their context and of failing GetAccount calls.  *)
SentIsExecuted ==
    \A t \in Txs : (txPc[t] = "waiting") ~> (t \in executed \/ Trouble)

(* "It is able to handle the current nonce as max(current_stored_nonce,    *)
(* account_nonce) ... This will prevent nonce too low in transaction       *)
(* errors": a nonce handed out is never one the account has already used.  *)
(* Not so after a failed send, with four transactions: computeNonce counts *)
(* on from the account's nonce as fetched then, while one with a higher    *)
(* nonce is still to be sent and executed.                                 *)
NonceNotTooLow ==
    [][\A t \in Txs : txNonce'[t] # txNonce[t] => txNonce'[t] >= accountNonce]_vars
=============================================================================
