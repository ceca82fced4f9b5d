-------------------------- MODULE TransactionWorker --------------------------
(***************************************************************************)
(* interactors/nonceHandlerV3/workers/transactionWorker.go                 *)
(*                                                                         *)
(* One goroutine sends the queued transactions of one address, one per     *)
(* tick, lowest nonce first; callers put transactions into the queue with  *)
(* AddTransaction and get a channel on which the answer is promised.       *)
(*                                                                         *)
(* A request stands for one call of AddTransaction: the transaction it     *)
(* carries and the buffered channel it gets back.  The critical sections   *)
(* of tw.mu are single actions; the worker gives up the mutex between      *)
(* nextTransaction, retrieveChannel, the proxy call and the send on the    *)
(* channel, so each of these is an action of its own.                      *)
(***************************************************************************)
EXTENDS Integers, Sequences

CONSTANTS
    Requests,       \* calls of AddTransaction
    Nonces,         \* the nonces the transactions carry
    Nil             \* the nil channel, the absent transaction

ASSUME NoncesAreNaturals == Nonces \subseteq Nat
ASSUME NilIsNoRequest == Nil \notin Requests

VARIABLES
    tq,                 \* the priority queue (heap) of queued transactions
    responsesChannels,  \* the map from a nonce to the promised channel
    workerClosed,
    ctxDone,            \* the context of the worker was cancelled
    pc,                 \* where the worker goroutine is
    current,            \* its local variable tx
    channel,            \* its local variable r
    response,           \* what proxy.SendTransaction returned
    added,              \* requests whose AddTransaction call returned
    answers,            \* every response ever put on a request's channel
    taken,              \* requests that read their channel
    sent,               \* transactions handed to the proxy, in order
    popsBefore          \* how many transactions had left tq at AddTransaction

queueVars  == <<tq, responsesChannels, workerClosed>>
workerVars == <<pc, current, channel, response>>
vars == <<queueVars, ctxDone, workerVars, added, answers, taken, sent, popsBefore>>

-----------------------------------------------------------------------------

Items == [req : Requests, nonce : Nonces]

\* TransactionResponse: the transaction whose hash it holds, and the error
Responses == [tx : Requests \cup {Nil},
              err : {"none", "proxyError", "ErrWorkerClosed", "alreadyScheduled", "ctxErr"}]

Failed(err) == [tx |-> Nil, err |-> err]

ChannelCapacity == 1

Buffered(r) == Len(answers[r]) - (IF r \in taken THEN 1 ELSE 0)

\* r <- response completes without blocking: not the nil channel, and not full
CanSend(r) == r # Nil /\ Buffered(r) < ChannelCapacity

Promised == {responsesChannels[n] : n \in Nonces} \ {Nil}

Init ==
    /\ tq = {}
    /\ responsesChannels = [n \in Nonces |-> Nil]
    /\ workerClosed = FALSE
    /\ ctxDone = FALSE
    /\ pc = "select"
    /\ current = Nil
    /\ channel = Nil
    /\ response = Nil
    /\ added = {}
    /\ answers = [r \in Requests |-> <<>>]
    /\ taken = {}
    /\ sent = <<>>
    /\ popsBefore = [r \in Requests |-> 0]

-----------------------------------------------------------------------------
(* The callers.                                                            *)

Refuse(r, err) ==
    /\ answers' = [answers EXCEPT ![r] = Append(@, Failed(err))]
    /\ UNCHANGED queueVars

Schedule(r, n) ==
    /\ responsesChannels' = [responsesChannels EXCEPT ![n] = r]
    /\ tq' = tq \cup {[req |-> r, nonce |-> n]}
    /\ UNCHANGED <<workerClosed, answers>>

HasLeftQueue == Len(sent) + (IF pc \in {"retrieve", "send"} THEN 1 ELSE 0)

\* mutant: the check for an already scheduled nonce is missing
AddTransactionOverDuplicate(r, n) ==
    /\ r \notin added
    /\ added' = added \cup {r}
    /\ popsBefore' = [popsBefore EXCEPT ![r] = HasLeftQueue]
    /\ \/ workerClosed /\ Refuse(r, "ErrWorkerClosed")
       \/ ~workerClosed /\ Schedule(r, n)
    /\ UNCHANGED <<ctxDone, workerVars, taken, sent>>

\* mutant: the check of workerClosed is missing
AddTransactionAfterClose(r, n) ==
    /\ r \notin added
    /\ added' = added \cup {r}
    /\ popsBefore' = [popsBefore EXCEPT ![r] = HasLeftQueue]
    /\ \/ responsesChannels[n] # Nil /\ Refuse(r, "alreadyScheduled")
       \/ responsesChannels[n] = Nil /\ Schedule(r, n)
    /\ UNCHANGED <<ctxDone, workerVars, taken, sent>>

AddTransaction(r, n) ==
    /\ r \notin added
    /\ added' = added \cup {r}
    /\ popsBefore' = [popsBefore EXCEPT ![r] = HasLeftQueue]
    /\ \/ /\ workerClosed
          /\ Refuse(r, "ErrWorkerClosed")
       \/ /\ ~workerClosed
          /\ responsesChannels[n] # Nil
          /\ Refuse(r, "alreadyScheduled")
       \/ /\ ~workerClosed
          /\ responsesChannels[n] = Nil
          /\ Schedule(r, n)
    /\ UNCHANGED <<ctxDone, workerVars, taken, sent>>

\* the reader of the promised channel (addressNonceHandler.SendTransaction)
Receive(r) ==
    /\ r \in added \ taken
    /\ Buffered(r) > 0
    /\ taken' = taken \cup {r}
    /\ UNCHANGED <<queueVars, ctxDone, workerVars, added, answers, sent, popsBefore>>

\* the cancel function of the context the worker was created with
Cancel ==
    /\ ~ctxDone
    /\ ctxDone' = TRUE
    /\ UNCHANGED <<queueVars, workerVars, added, answers, taken, sent, popsBefore>>

-----------------------------------------------------------------------------
(* The goroutine of start.  A tick that finds tq empty changes nothing.    *)

\* mutant: Less compares the wrong way round
nextTransactionHighestFirst ==
    /\ pc = "select"
    /\ \E item \in tq :
         /\ \A other \in tq : item.nonce >= other.nonce
         /\ tq' = tq \ {item}
         /\ current' = item
    /\ pc' = "retrieve"
    /\ UNCHANGED <<responsesChannels, workerClosed, ctxDone, channel, response,
                   added, answers, taken, sent, popsBefore>>

nextTransaction ==
    /\ pc = "select"
    /\ \E item \in tq :
         /\ \A other \in tq : item.nonce <= other.nonce
         /\ tq' = tq \ {item}
         /\ current' = item
    /\ pc' = "retrieve"
    /\ UNCHANGED <<responsesChannels, workerClosed, ctxDone, channel, response,
                   added, answers, taken, sent, popsBefore>>

\* mutant: the entry is not deleted from the map
retrieveChannelKeepsEntry ==
    /\ pc = "retrieve"
    /\ channel' = responsesChannels[current.nonce]
    /\ pc' = "send"
    /\ UNCHANGED <<queueVars, ctxDone, current, response,
                   added, answers, taken, sent, popsBefore>>

retrieveChannel ==
    /\ pc = "retrieve"
    /\ channel' = responsesChannels[current.nonce]
    /\ responsesChannels' = [responsesChannels EXCEPT ![current.nonce] = Nil]
    /\ pc' = "send"
    /\ UNCHANGED <<tq, workerClosed, ctxDone, current, response,
                   added, answers, taken, sent, popsBefore>>

\* external: the proxy takes the transaction, the call succeeds or fails
SendTransaction ==
    /\ pc = "send"
    /\ sent' = Append(sent, current)
    /\ response' \in {[tx |-> current.req, err |-> "none"], Failed("proxyError")}
    /\ pc' = "respond"
    /\ UNCHANGED <<queueVars, ctxDone, current, channel, added, answers, taken, popsBefore>>

Respond ==
    /\ pc = "respond"
    /\ CanSend(channel)
    /\ answers' = [answers EXCEPT ![channel] = Append(@, response)]
    /\ pc' = "select"
    /\ current' = Nil
    /\ channel' = Nil
    /\ response' = Nil
    /\ UNCHANGED <<queueVars, ctxDone, added, taken, sent, popsBefore>>

\* mutant: the worker stops without answering the promised channels
closeAllChannelsSilently ==
    /\ pc = "select"
    /\ ctxDone
    /\ workerClosed' = TRUE
    /\ pc' = "closed"
    /\ UNCHANGED <<tq, responsesChannels, ctxDone, current, channel, response,
                   added, answers, taken, sent, popsBefore>>

\* one critical section: it blocks, holding the mutex, if a channel is full
closeAllChannels ==
    /\ pc = "select"
    /\ ctxDone
    /\ \A r \in Promised : CanSend(r)
    /\ answers' = [r \in Requests |->
                     IF r \in Promised THEN Append(answers[r], Failed("ctxErr"))
                                       ELSE answers[r]]
    /\ workerClosed' = TRUE
    /\ pc' = "closed"
    /\ UNCHANGED <<tq, responsesChannels, ctxDone, current, channel, response,
                   added, taken, sent, popsBefore>>

processNextTransaction ==
    nextTransaction \/ retrieveChannel \/ SendTransaction \/ Respond

WorkerStep == processNextTransaction \/ closeAllChannels

Next ==
    \/ \E r \in Requests, n \in Nonces : AddTransaction(r, n)
    \/ \E r \in Requests : Receive(r)
    \/ Cancel
    \/ WorkerStep

Spec == Init /\ [][Next]_vars

\* the goroutine is scheduled, its ticker fires, the proxy call returns; a
\* select with a ready ctx.Done() case does not ignore it for ever
FairSpec == Spec /\ WF_vars(processNextTransaction) /\ WF_vars(closeAllChannels)

-----------------------------------------------------------------------------

TypeOK ==
    /\ tq \subseteq Items
    /\ responsesChannels \in [Nonces -> Requests \cup {Nil}]
    /\ workerClosed \in BOOLEAN
    /\ ctxDone \in BOOLEAN
    /\ pc \in {"select", "retrieve", "send", "respond", "closed"}
    /\ current \in (IF pc \in {"select", "closed"} THEN {Nil} ELSE Items)
    /\ channel \in Requests \cup {Nil}
    /\ response \in (IF pc = "respond" THEN Responses ELSE {Nil})
    /\ added \subseteq Requests
    /\ answers \in [Requests -> Seq(Responses)]
    /\ taken \subseteq added
    /\ sent \in Seq(Items)
    /\ popsBefore \in [Requests -> Nat]

(* No send on a promised channel ever blocks the goroutine, neither        *)
(* `r <- response` of processNextTransaction (r is never the nil channel   *)
(* that a missing map entry gives) nor the sends of closeAllChannels,      *)
(* which would block every later AddTransaction because tw.mu is held.     *)
SendsNeverBlock ==
    /\ pc = "respond" => CanSend(channel)
    /\ pc = "select" => \A r \in Promised : CanSend(r)

(* A request gets at most one answer, and an answer that carries a hash    *)
(* carries the hash of the request's own transaction, although channels    *)
(* are found by nonce and a nonce may be scheduled again while the first   *)
(* transaction with it is on its way to the proxy.                         *)
OneAnswerOfItsOwn ==
    \A r \in Requests :
        \/ answers[r] = <<>>
        \/ Len(answers[r]) = 1 /\ answers[r][1].tx \in {r, Nil}

(* Once closeAllChannels has run, every AddTransaction call that has       *)
(* returned has its answer: no caller is left on a channel nobody serves.  *)
ClosedAnswersEveryone ==
    workerClosed => \A r \in added : answers[r] # <<>>

(* "transactions with lower nonce will be sent first": if a transaction    *)
(* is sent after one with a higher nonce, then it was added when the       *)
(* higher one had already left the queue.                                  *)
SentLowestNonceFirst ==
    \A i, j \in 1..Len(sent) :
        i < j /\ sent[j].nonce <= sent[i].nonce => popsBefore[sent[j].req] >= i

\* what is queued, or popped and not yet looked up in the map
Scheduled == tq \cup (IF pc = "retrieve" THEN {current} ELSE {})

(* The heap and the map, which nextTransaction and retrieveChannel update  *)
(* in two critical sections, agree: a scheduled transaction is found under *)
(* its nonce, and an entry of the map stands for a scheduled transaction.  *)
QueueMatchesMap ==
    /\ \A item \in Scheduled : responsesChannels[item.nonce] = item.req
    /\ \A n \in Nonces : responsesChannels[n] # Nil =>
         [req |-> responsesChannels[n], nonce |-> n] \in Scheduled
    /\ pc = "retrieve" => current \notin tq

Outcome(e) ==
    CASE e \in {"none", "proxyError"} -> "done"
      [] e = "ctxErr" -> "cancelled"
      [] OTHER -> "rejected"

StatusOf(r) ==
    IF r \notin added THEN "idle"
    ELSE IF answers[r] = <<>> THEN "waiting" ELSE Outcome(answers[r][1].err)

Promise == INSTANCE ResponsePromise WITH
    status <- [r \in Requests |-> StatusOf(r)],
    open <- ~workerClosed

(* The worker with its heap, its map of channels and its goroutine keeps   *)
(* the promise of ResponsePromise, liveness included.                      *)
KeepsPromise == Promise!PSpec
=============================================================================
