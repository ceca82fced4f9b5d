------------------------ MODULE NonceHandlerV3Proofs ------------------------
(***************************************************************************)
(* Proofs about NonceHandlerV3, for any finite set of transactions.        *)
(***************************************************************************)
EXTENDS NonceHandlerV3, FiniteSetTheorems, TLAPS

USE FirstNoncesAreNatural

-----------------------------------------------------------------------------
(* From one fetch of the account to the next.  The handler's nonce is the  *)
(* highest that was handed out since the last fetch, and all from the      *)
(* fetched one to it were.                                                 *)

Labels == {"new", "gas", "config", "price", "ready", "waiting", "responded", "sent", "failed",
           "abandoned", "applyFailed", "panicked"}

CountInv ==
    /\ accountNonce \in Nat
    /\ nonce \in Nat \cup {NotSet}
    /\ fetched \in Seq(Nat)
    /\ txPc \in [Txs -> Labels]
    /\ txFetch \in [Txs -> 0..Len(fetched)]
    /\ txNonce \in [Txs -> Nat \cup {NotSet}]
    /\ \A t \in Txs : txPc[t] \in {"new", "applyFailed"} => txFetch[t] = 0 /\ txNonce[t] = NotSet
    /\ \A t \in Txs : txFetch[t] > 0 => txNonce[t] # NotSet
    /\ nonce # NotSet =>
         /\ Len(fetched) > 0
         /\ fetched[Len(fetched)] <= nonce
         /\ \A t \in Txs : txFetch[t] = Len(fetched) => txNonce[t] <= nonce
         /\ \A n \in fetched[Len(fetched)]..nonce :
              \E t \in Txs : txFetch[t] = Len(fetched) /\ txNonce[t] = n

\* what ConsecutiveSinceFetch says of one transaction
Follows(t) ==
    /\ txNonce[t] >= fetched[txFetch[t]]
    /\ \A n \in fetched[txFetch[t]]..txNonce[t] :
         \E u \in Txs : txFetch[u] = txFetch[t] /\ txNonce[u] = n
    /\ \A u \in Txs \ {t} : txFetch[u] = txFetch[t] => txNonce[u] # txNonce[t]

LEMMA AllFollow == ConsecutiveSinceFetch <=> \A t \in Txs : txFetch[t] > 0 => Follows(t)
  BY DEF ConsecutiveSinceFetch, Follows

LEMMA InitCount == Init => CountInv /\ ConsecutiveSinceFetch
  <1> SUFFICES ASSUME Init PROVE CountInv /\ ConsecutiveSinceFetch
    BY Zenon
  <1>1. CountInv
    BY DEF Init, ChainInit, CountInv, NotSet, Labels
  <1>2. ConsecutiveSinceFetch
    BY DEF Init, ConsecutiveSinceFetch
  <1> QED BY <1>1, <1>2, Zenon

\* steps that hand out no nonce
LEMMA OtherStepsCount ==
    ASSUME CountInv, ConsecutiveSinceFetch, UNCHANGED <<fetched, txNonce, txFetch>>,
           accountNonce' \in Nat, nonce' = nonce \/ nonce' = NotSet,
           \/ UNCHANGED txPc
           \/ \E t \in Txs : \E label \in Labels \ {"new"} :
                Goto(t, label) /\ (label = "applyFailed" => txPc[t] = "new")
    PROVE  CountInv' /\ ConsecutiveSinceFetch'
  <1>1. fetched' = fetched /\ txNonce' = txNonce /\ txFetch' = txFetch
    BY Zenon
  <1>2. ConsecutiveSinceFetch'
    BY <1>1 DEF ConsecutiveSinceFetch
  <1>3. /\ txPc' \in [Txs -> Labels]
        /\ \A t \in Txs : txPc'[t] \in {"new", "applyFailed"} => txPc[t] \in {"new", "applyFailed"}
    BY DEF CountInv, Goto
  <1>4. \A t \in Txs : txPc'[t] \in {"new", "applyFailed"} => txFetch[t] = 0 /\ txNonce[t] = NotSet
    BY <1>3, Zenon DEF CountInv
  <1>5. nonce' \in Nat \cup {NotSet}
    BY Zenon DEF CountInv
  <1>6. CountInv'
    BY <1>1, <1>3, <1>4, <1>5 DEF CountInv
  <1> QED BY <1>2, <1>6, Zenon

LEMMA ComputeNonceCount ==
    ASSUME CountInv, ConsecutiveSinceFetch, NEW t \in Txs, computeNonce(t)
    PROVE  CountInv' /\ ConsecutiveSinceFetch'
  <1>1. /\ txPc[t] = "new"
        /\ txNonce' = [txNonce EXCEPT ![t] = nonce']
        /\ txFetch' = [txFetch EXCEPT ![t] = Len(fetched')]
        /\ txPc' = [txPc EXCEPT ![t] = "gas"]
        /\ accountNonce' = accountNonce
    BY Zenon DEF computeNonce, Goto, chainVars
  <1>2. /\ accountNonce \in Nat /\ nonce \in Nat \cup {-1} /\ fetched \in Seq(Nat)
        /\ Len(fetched) \in Nat /\ txFetch[t] = 0
        /\ \A u \in Txs : txFetch[u] \in 0..Len(fetched) /\ txNonce[u] \in Nat \cup {-1}
        /\ \A i \in 1..Len(fetched) : fetched[i] \in Nat
    BY <1>1 DEF CountInv, NotSet
  <1>3. \A u \in Txs : /\ txFetch'[u] = IF u = t THEN Len(fetched') ELSE txFetch[u]
                       /\ txNonce'[u] = IF u = t THEN nonce' ELSE txNonce[u]
                       /\ txPc'[u] = IF u = t THEN "gas" ELSE txPc[u]
    BY <1>1, Zenon DEF CountInv
  <1>4. \A u \in Txs : txFetch[u] > 0 => Follows(u)
    BY AllFollow, Zenon
  <1>5. ASSUME fetched' \in Seq(Nat), Len(fetched') \in Nat, Len(fetched) <= Len(fetched'), nonce' \in Nat
        PROVE  /\ accountNonce' \in Nat /\ txPc' \in [Txs -> Labels]
               /\ txFetch' \in [Txs -> 0..Len(fetched')] /\ txNonce' \in [Txs -> Nat \cup {NotSet}]
               /\ \A u \in Txs : txPc'[u] \in {"new", "applyFailed"} => txFetch'[u] = 0 /\ txNonce'[u] = NotSet
               /\ \A u \in Txs : txFetch'[u] > 0 => txNonce'[u] # NotSet
    <2>1. txPc' \in [Txs -> Labels] /\ txNonce' \in [Txs -> Nat \cup {NotSet}]
      BY <1>1, <1>5, Zenon DEF CountInv, Labels
    <2>2. txFetch' \in [Txs -> 0..Len(fetched')]
      BY <1>1, <1>5 DEF CountInv
    <2>3. \A u \in Txs : txPc'[u] \in {"new", "applyFailed"} => txFetch'[u] = 0 /\ txNonce'[u] = NotSet
      BY <1>3 DEF CountInv
    <2>4. \A u \in Txs : txFetch'[u] > 0 => txNonce'[u] # NotSet
      BY <1>3, <1>5 DEF CountInv, NotSet
    <2> QED BY <1>1, <1>2, <2>1, <2>2, <2>3, <2>4, Zenon
  <1>6. ASSUME \A u \in Txs : txFetch'[u] > 0 => Follows(u)' PROVE ConsecutiveSinceFetch'
    BY <1>6 DEF ConsecutiveSinceFetch, Follows
  <1>7. CASE nonce = NotSet
    <2>1. nonce' = accountNonce /\ fetched' = Append(fetched, accountNonce)
      BY <1>7, Zenon DEF computeNonce
    <2>2. /\ fetched' \in Seq(Nat) /\ Len(fetched') = Len(fetched) + 1
          /\ fetched'[Len(fetched) + 1] = accountNonce
          /\ \A i \in 1..Len(fetched) : fetched'[i] = fetched[i]
      BY <1>2, <2>1
    <2>3. \A u \in Txs : txFetch'[u] = Len(fetched') <=> u = t
      BY <1>2, <1>3, <2>2
    <2>4. /\ Len(fetched') > 0 /\ fetched'[Len(fetched')] <= nonce'
          /\ \A u \in Txs : txFetch'[u] = Len(fetched') => txNonce'[u] <= nonce'
          /\ \A n \in fetched'[Len(fetched')]..nonce' :
               \E u \in Txs : txFetch'[u] = Len(fetched') /\ txNonce'[u] = n
      BY <1>2, <1>3, <2>1, <2>2, <2>3
    <2>5. CountInv'
      BY <1>2, <1>5, <2>1, <2>2, <2>4 DEF CountInv
    <2>6. Follows(t)'
      BY <1>2, <1>3, <2>1, <2>2, <2>3 DEF Follows
    <2>7. ASSUME NEW u \in Txs, u # t, txFetch[u] > 0 PROVE Follows(u)'
      <3>1. txFetch'[u] = txFetch[u] /\ txNonce'[u] = txNonce[u] /\ fetched'[txFetch[u]] = fetched[txFetch[u]]
        BY <1>2, <1>3, <2>2, <2>7
      <3>2. \A v \in Txs : txFetch'[v] = txFetch[u] <=> txFetch[v] = txFetch[u]
        BY <1>2, <1>3, <2>2, <2>7
      <3>3. \A v \in Txs : txFetch[v] = txFetch[u] => txNonce'[v] = txNonce[v]
        BY <1>2, <1>3, <2>7
      <3> QED BY <1>4, <2>7, <3>1, <3>2, <3>3 DEF Follows
    <2>8. ConsecutiveSinceFetch'
      BY <1>3, <1>6, <2>6, <2>7, Zenon
    <2> QED BY <2>5, <2>8, Zenon
  <1>8. CASE nonce # NotSet
    <2>1. nonce' = nonce + 1 /\ fetched' = fetched /\ nonce \in Nat
      BY <1>2, <1>8 DEF computeNonce, NotSet
    <2> DEFINE L == Len(fetched)
    <2>2. /\ L > 0 /\ fetched[L] \in Nat /\ fetched[L] <= nonce
          /\ \A u \in Txs : txFetch[u] = L => txNonce[u] <= nonce
          /\ \A n \in fetched[L]..nonce : \E u \in Txs : txFetch[u] = L /\ txNonce[u] = n
      BY <1>2, <1>8 DEF CountInv
    <2>3. \A u \in Txs : txFetch'[u] = L <=> u = t \/ txFetch[u] = L
      BY <1>3, <2>1
    <2>4. \A n \in fetched[L]..nonce' : \E u \in Txs : txFetch'[u] = L /\ txNonce'[u] = n
      <3> SUFFICES ASSUME NEW n \in fetched[L]..nonce' PROVE \E u \in Txs : txFetch'[u] = L /\ txNonce'[u] = n
        BY Zenon
      <3>1. CASE n = nonce'
        BY <1>3, <2>3, <3>1
      <3>2. CASE n # nonce'
        <4>1. n \in fetched[L]..nonce
          BY <2>1, <2>2, <3>2
        <4>2. PICK u \in Txs : txFetch[u] = L /\ txNonce[u] = n
          BY <2>2, <4>1, Zenon
        <4>3. u # t
          BY <1>2, <2>2, <4>2
        <4> QED BY <1>3, <4>2, <4>3, Zenon
      <3> QED BY <3>1, <3>2, Zenon
    <2>5. \A u \in Txs : txFetch'[u] = L => txNonce'[u] <= nonce'
      BY <1>2, <1>3, <2>1, <2>2
    <2>6. CountInv'
      <3>1. nonce' \in Nat /\ nonce + 1 >= fetched[L]
        BY <2>1, <2>2
      <3>2. /\ accountNonce' \in Nat /\ txPc' \in [Txs -> Labels]
            /\ txFetch' \in [Txs -> 0..Len(fetched')] /\ txNonce' \in [Txs -> Nat \cup {NotSet}]
            /\ \A u \in Txs : txPc'[u] \in {"new", "applyFailed"} => txFetch'[u] = 0 /\ txNonce'[u] = NotSet
            /\ \A u \in Txs : txFetch'[u] > 0 => txNonce'[u] # NotSet
        BY <1>2, <1>5, <2>1, <3>1
      <3> QED BY <1>2, <2>1, <2>2, <2>4, <2>5, <3>1, <3>2, Zenon DEF CountInv
    <2>7. Follows(t)'
      <3>1. txFetch'[t] = L /\ txNonce'[t] = nonce + 1 /\ fetched' = fetched
        BY <1>3, <2>1
      <3>2. \A u \in Txs \ {t} : txFetch'[u] = L => txNonce'[u] # nonce + 1
        BY <1>2, <1>3, <2>1, <2>2
      <3>3. nonce + 1 >= fetched[L]
        BY <2>1, <2>2
      <3> HIDE DEF L
      <3> QED BY <2>1, <2>4, <3>1, <3>2, <3>3 DEF Follows
    <2>8. ASSUME NEW u \in Txs, u # t, txFetch[u] > 0 PROVE Follows(u)'
      <3>1. txFetch'[u] = txFetch[u] /\ txNonce'[u] = txNonce[u]
        BY <1>3, <2>8
      <3>2. \A v \in Txs : txFetch[v] = txFetch[u] => txFetch'[v] = txFetch[u] /\ txNonce'[v] = txNonce[v]
        BY <1>2, <1>3, <2>8
      <3>3. ASSUME NEW v \in Txs \ {u}, txFetch'[v] = txFetch[u] PROVE txNonce'[v] # txNonce[u]
        <4>1. CASE v = t
          BY <1>2, <1>3, <2>1, <2>2, <3>3, <4>1
        <4>2. CASE v # t
          BY <1>3, <1>4, <2>8, <3>3, <4>2 DEF Follows
        <4> QED BY <4>1, <4>2, Zenon
      <3> HIDE DEF L
      <3> QED BY <1>4, <2>1, <2>8, <3>1, <3>2, <3>3 DEF Follows
    <2>9. ConsecutiveSinceFetch'
      BY <1>3, <1>6, <2>7, <2>8, Zenon
    <2> QED BY <2>6, <2>9, Zenon
  <1> QED BY <1>7, <1>8, Zenon

LEMMA NextCount == CountInv /\ ConsecutiveSinceFetch /\ [Next]_vars => CountInv' /\ ConsecutiveSinceFetch'
  <1> SUFFICES ASSUME CountInv, ConsecutiveSinceFetch, [Next]_vars
               PROVE  CountInv' /\ ConsecutiveSinceFetch'
    BY Zenon
  <1> USE DEF handlerVars, callerVars, chainVars, Labels
  <1>1. accountNonce \in Nat
    BY Zenon DEF CountInv
  <1>2. ASSUME NEW t \in Txs, applyGasPriceIfRequired(t) \/ GetNetworkConfig(t) \/ ApplyGasPrice(t)
        PROVE  CountInv' /\ ConsecutiveSinceFetch'
    BY <1>1, <1>2, OtherStepsCount DEF applyGasPriceIfRequired, GetNetworkConfig, ApplyGasPrice
  <1>3. ASSUME NEW t \in Txs, SendTransaction(t) \/ ReceiveResponse(t) \/ ContextDone(t)
        PROVE  CountInv' /\ ConsecutiveSinceFetch'
    BY <1>1, <1>3, OtherStepsCount DEF SendTransaction, ReceiveResponse, ContextDone
  <1>4. ASSUME NEW t \in Txs, adaptNonceBasedOnResponse(t) \/ computeNonceFails(t)
        PROVE  CountInv' /\ ConsecutiveSinceFetch'
    BY <1>1, <1>4, OtherStepsCount DEF adaptNonceBasedOnResponse, computeNonceFails
  <1>5. CASE ProxySendTransaction \/ WorkerStep \/ Close
    BY <1>1, <1>5, OtherStepsCount, Zenon DEF ProxySendTransaction, WorkerStep, Close, Admit
  <1>6. CASE ChainStep
    BY <1>1, <1>6, OtherStepsCount DEF ChainStep, Execute
  <1>7. CASE UNCHANGED vars
    BY <1>1, <1>7, OtherStepsCount, Zenon DEF vars
  <1> QED
    BY <1>2, <1>3, <1>4, <1>5, <1>6, <1>7, ComputeNonceCount, Zenon DEF Next, CallerStep

(* addressNonceHandler.computeNonce: for any number of concurrent callers, *)
(* the nonces handed out from one fetch of the account to the next start   *)
(* with the fetched one and leave none out nor repeat one, whatever fails, *)
(* is abandoned or is reset in between.                                    *)
THEOREM AlwaysConsecutiveSinceFetch == Spec => []ConsecutiveSinceFetch
  <1> DEFINE IInv == CountInv /\ ConsecutiveSinceFetch
  <1>1. IInv /\ [Next]_vars => IInv'
    BY NextCount, Zenon
  <1> QED BY <1>1, InitCount, PTL DEF Spec

-----------------------------------------------------------------------------
(* Until a send fails.  What is queued, sent and pooled carries the nonce  *)
(* of its transaction, and an answer once given stays the first one.       *)

Disturbed == \E t \in Txs : Failed(t)

\* an item of the queue, the worker or the pool
Carries(t, n) == t \in Txs /\ txNonce[t] # NotSet /\ n = txNonce[t]

FlowInv ==
    /\ \A item \in tq : Carries(item.req, item.nonce)
    /\ pc \in {"retrieve", "send", "respond"} => Carries(current.req, current.nonce)
    /\ \A p \in pool : Carries(p.tx, p.nonce)
    /\ pc = "respond" => response \in Worker!Responses
    /\ answers \in [Txs -> Seq(Worker!Responses)]
    /\ \A t \in Txs : txPc[t] = "responded" => answers[t] # <<>>
    /\ \A t \in Txs : txPc[t] \notin {"new", "applyFailed"} => txNonce[t] # NotSet

Holders == {t \in Txs : txNonce[t] # NotSet}

SourceInv ==
    /\ firstNonce \in Nat
    /\ ~Disturbed =>
        /\ nonce = NotSet => Holders = {}
        /\ Holders = {} => accountNonce = firstNonce
        /\ nonce # NotSet => nonce = firstNonce + Cardinality(Holders) - 1

LEMMA InitFlow == Init => FlowInv /\ SourceInv
  <1> SUFFICES ASSUME Init PROVE FlowInv /\ SourceInv
    BY Zenon
  <1>1. <<>> \in Seq(Worker!Responses)
    OBVIOUS
  <1>2. FlowInv
    BY <1>1, Zenon DEF Init, ChainInit, Worker!Init, FlowInv
  <1>3. SourceInv
    BY Zenon DEF Init, ChainInit, SourceInv, Holders
  <1> QED BY <1>2, <1>3, Zenon

LEMMA AppendKeepsFirst ==
    ASSUME NEW S, NEW s \in Seq(S), NEW e \in S
    PROVE  /\ Append(s, e) \in Seq(S)
           /\ Append(s, e) # <<>>
           /\ s # <<>> => Append(s, e)[1] = s[1]
  OBVIOUS

\* what a step may do to the answers
AnswersGrow ==
    /\ answers' \in [Txs -> Seq(Worker!Responses)]
    /\ \A t \in Txs : answers[t] # <<>> => answers'[t] # <<>> /\ answers'[t][1] = answers[t][1]

LEMMA AnswersOnlyGrow == ASSUME FlowInv, [Next]_vars PROVE AnswersGrow
  <1> USE DEF FlowInv, AnswersGrow
  <1>1. \A e \in {"ErrWorkerClosed", "alreadyScheduled", "ctxErr", "proxyError"} :
            Worker!Failed(e) \in Worker!Responses
    BY Zenon DEF Worker!Failed, Worker!Responses
  <1>2. CASE UNCHANGED answers
    BY <1>2, Zenon
  <1>3. ASSUME NEW t, NEW e \in Worker!Responses, answers' = [answers EXCEPT ![t] = Append(@, e)]
        PROVE  AnswersGrow
    <2>1. CASE t \notin Txs
      BY <1>2, <1>3, <2>1, Zenon
    <2>2. CASE t \in Txs
      <3>1. /\ Append(answers[t], e) \in Seq(Worker!Responses)
            /\ Append(answers[t], e) # <<>>
            /\ answers[t] # <<>> => Append(answers[t], e)[1] = answers[t][1]
        BY <2>2, AppendKeepsFirst
      <3>2. answers' = [answers EXCEPT ![t] = Append(answers[t], e)]
        BY <1>3, Zenon
      <3> QED BY <2>2, <3>1, <3>2, Zenon
    <2> QED BY <2>1, <2>2, Zenon
  <1>4. ASSUME NEW t \in Txs, NEW n, Worker!AddTransaction(t, n) PROVE AnswersGrow
    BY <1>1, <1>2, <1>3, <1>4, Zenon DEF Worker!AddTransaction, Worker!Refuse, Worker!Schedule
  <1>5. CASE Worker!Respond
    BY <1>3, <1>5, Zenon DEF Worker!Respond
  <1>6. CASE Worker!closeAllChannels
    <2>1. ASSUME NEW t \in Txs
          PROVE  answers'[t] \in {answers[t], Append(answers[t], Worker!Failed("ctxErr"))}
      BY <1>6, Zenon DEF Worker!closeAllChannels
    <2>2. answers' = [t \in Txs |-> answers'[t]]
      BY <1>6, Zenon DEF Worker!closeAllChannels
    <2>3. ASSUME NEW t \in Txs
          PROVE  /\ answers'[t] \in Seq(Worker!Responses)
                 /\ answers[t] # <<>> => answers'[t] # <<>> /\ answers'[t][1] = answers[t][1]
      <3>1. PICK e \in Worker!Responses : answers'[t] \in {answers[t], Append(answers[t], e)}
        BY <1>1, <2>1, Zenon
      <3>2. /\ Append(answers[t], e) \in Seq(Worker!Responses)
            /\ Append(answers[t], e) # <<>>
            /\ answers[t] # <<>> => Append(answers[t], e)[1] = answers[t][1]
        BY AppendKeepsFirst, Zenon
      <3> QED BY <3>1, <3>2, SMTT(30)
    <2> QED BY <2>2, <2>3, Zenon
  <1>7. ASSUME NEW t \in Txs, CallerStep(t) \/ computeNonceFails(t) \/ ContextDone(t) PROVE AnswersGrow
    <2>1. CASE computeNonce(t) \/ applyGasPriceIfRequired(t) \/ GetNetworkConfig(t) \/ ApplyGasPrice(t)
      <3>1. UNCHANGED answers
        BY <2>1, Zenon DEF computeNonce, applyGasPriceIfRequired, GetNetworkConfig, ApplyGasPrice, queueWorkerVars
      <3> QED BY <1>2, <3>1, Zenon
    <2>2. CASE adaptNonceBasedOnResponse(t) \/ computeNonceFails(t) \/ ContextDone(t)
      <3>1. UNCHANGED answers
        BY <2>2, Zenon DEF adaptNonceBasedOnResponse, computeNonceFails, ContextDone, queueWorkerVars
      <3> QED BY <1>2, <3>1, Zenon
    <2>3. CASE ReceiveResponse(t)
      <3>1. UNCHANGED answers
        BY <2>3, Zenon DEF ReceiveResponse, Worker!Receive
      <3> QED BY <1>2, <3>1, Zenon
    <2>4. CASE SendTransaction(t)
      <3>1. Worker!AddTransaction(t, txNonce[t])
        BY <2>4, Zenon DEF SendTransaction
      <3> QED BY <1>4, <3>1, Zenon
    <2> QED BY <1>7, <2>1, <2>2, <2>3, <2>4, Zenon DEF CallerStep
  <1>8. CASE ProxySendTransaction \/ WorkerStep \/ Close
    BY <1>2, <1>5, <1>6, <1>8, SMTT(30)
    DEF ProxySendTransaction, WorkerStep, Close, Worker!SendTransaction, Worker!nextTransaction,
        Worker!retrieveChannel, Worker!Cancel
  <1>9. CASE ChainStep \/ UNCHANGED vars
    BY <1>2, <1>9, Zenon DEF ChainStep, vars, queueWorkerVars
  <1> QED BY <1>7, <1>8, <1>9, Zenon DEF Next

LEMMA DisturbedForGood == ASSUME FlowInv, [Next]_vars PROVE Disturbed => Disturbed'
  BY AnswersOnlyGrow, Zenon DEF AnswersGrow, Disturbed, Failed, Succeeded

\* the carried nonces do not change once given
LEMMA NextFlow == CountInv /\ FlowInv /\ [Next]_vars => FlowInv'
  <1> SUFFICES ASSUME CountInv, FlowInv, [Next]_vars PROVE FlowInv'
    BY Zenon
  <1>1. AnswersGrow
    BY AnswersOnlyGrow, Zenon
  <1> USE DEF handlerVars, callerVars, chainVars, queueWorkerVars
  \* steps of a caller that leave the worker and the pool alone
  <1>2. ASSUME NEW t \in Txs, computeNonce(t) PROVE FlowInv'
    <2>1. txNonce[t] = NotSet /\ nonce' # NotSet /\ txPc[t] = "new"
      BY <1>2 DEF computeNonce, CountInv, NotSet
    <2>2. /\ txNonce' = [txNonce EXCEPT ![t] = nonce'] /\ txPc' = [txPc EXCEPT ![t] = "gas"]
          /\ UNCHANGED <<tq, pc, current, pool, response, answers>>
      BY <1>2, Zenon DEF computeNonce, Goto
    <2>3. \A u \in Txs : txNonce[u] # NotSet => txNonce'[u] = txNonce[u]
      BY <2>1, <2>2, Zenon DEF CountInv
    <2> QED BY <2>1, <2>2, <2>3 DEF FlowInv, Carries, CountInv
  <1>3. ASSUME NEW t \in Txs, NEW label \in Labels \ {"new", "responded"}, Goto(t, label),
               UNCHANGED <<txNonce, tq, pc, current, pool, response>>,
               label # "applyFailed" => txPc[t] \notin {"new", "applyFailed"}
        PROVE  FlowInv'
    BY <1>1, <1>3, SMTT(30) DEF FlowInv, Carries, CountInv, Goto, AnswersGrow, Labels
  <1>4. ASSUME NEW t \in Txs,
               \/ applyGasPriceIfRequired(t) \/ GetNetworkConfig(t) \/ ApplyGasPrice(t)
               \/ ContextDone(t) \/ adaptNonceBasedOnResponse(t) \/ computeNonceFails(t)
        PROVE  FlowInv'
    <2>1. UNCHANGED <<txNonce, tq, pc, current, pool, response>>
      BY <1>4, Zenon DEF applyGasPriceIfRequired, GetNetworkConfig, ApplyGasPrice, ContextDone,
                  adaptNonceBasedOnResponse, computeNonceFails
    <2>2. \/ \E label \in {"config", "price", "panicked", "ready", "abandoned", "sent", "failed"} :
                Goto(t, label) /\ txPc[t] \in {"gas", "config", "price", "waiting", "responded"}
          \/ Goto(t, "applyFailed")
      <3>1. CASE applyGasPriceIfRequired(t)
        BY <3>1, Zenon DEF applyGasPriceIfRequired
      <3>2. CASE GetNetworkConfig(t)
        BY <3>2, Zenon DEF GetNetworkConfig
      <3>3. CASE ApplyGasPrice(t)
        BY <3>3, Zenon DEF ApplyGasPrice
      <3>4. CASE ContextDone(t)
        BY <3>4, Zenon DEF ContextDone
      <3>5. CASE adaptNonceBasedOnResponse(t)
        BY <3>5, Zenon DEF adaptNonceBasedOnResponse
      <3>6. CASE computeNonceFails(t)
        BY <3>6, Zenon DEF computeNonceFails
      <3> QED BY <1>4, <3>1, <3>2, <3>3, <3>4, <3>5, <3>6, Zenon
    <2>3. PICK label \in Labels \ {"new", "responded"} :
              Goto(t, label) /\ (label # "applyFailed" => txPc[t] \notin {"new", "applyFailed"})
      BY <2>2, Zenon DEF Labels
    <2> QED BY <1>3, <2>1, <2>3, Zenon
  <1>5. ASSUME NEW t \in Txs, SendTransaction(t) PROVE FlowInv'
    <2>1. txNonce[t] # NotSet
      BY <1>5, Zenon DEF SendTransaction, FlowInv
    <2>2. /\ tq' = tq \/ tq' = tq \cup {[req |-> t, nonce |-> txNonce[t]]}
          /\ txPc' = [txPc EXCEPT ![t] = "waiting"] /\ txPc[t] = "ready"
          /\ UNCHANGED <<txNonce, pc, current, pool, response>>
      BY <1>5, Zenon DEF SendTransaction, Goto, Worker!AddTransaction, Worker!Refuse, Worker!Schedule,
                  Worker!queueVars, Worker!workerVars
    <2>3. \A u \in Txs : txPc'[u] = IF u = t THEN "waiting" ELSE txPc[u]
      BY <2>2, Zenon DEF CountInv
    <2>4. \A u, n : Carries(u, n)' <=> Carries(u, n)
      BY <2>2, Zenon DEF Carries
    <2>5. \A item \in tq' : Carries(item.req, item.nonce)
      BY <2>1, <2>2 DEF FlowInv, Carries
    <2>6. /\ \A item \in tq' : Carries(item.req, item.nonce)'
          /\ \A p \in pool' : Carries(p.tx, p.nonce)'
      BY <2>2, <2>4, <2>5, Zenon DEF FlowInv, Carries
    <2>7. pc' \in {"retrieve", "send", "respond"} => Carries(current.req, current.nonce)'
      BY <2>2, Zenon DEF FlowInv, Carries
    <2>8. /\ answers' \in [Txs -> Seq(Worker!Responses)]
          /\ \A u \in Txs : txPc'[u] = "responded" => answers'[u] # <<>>
      BY <1>1, <2>3, Zenon DEF FlowInv, AnswersGrow
    <2>9. \A u \in Txs : txPc'[u] \notin {"new", "applyFailed"} => txNonce'[u] # NotSet
      BY <2>1, <2>2, <2>3, Zenon DEF FlowInv
    <2>10. pc' = "respond" => response' \in Worker!Responses
      BY <2>2, Zenon DEF FlowInv
    <2> QED BY <2>6, <2>7, <2>8, <2>9, <2>10 DEF FlowInv
  <1>6. ASSUME NEW t \in Txs, ReceiveResponse(t) PROVE FlowInv'
    <2>1. answers[t] # <<>>
      <3>1. t \notin taken /\ Worker!Buffered(t) > 0
        BY <1>6, Zenon DEF ReceiveResponse, Worker!Receive
      <3>2. Len(answers[t]) > 0
        <4>1. answers[t] \in Seq(Worker!Responses)
          BY Zenon DEF FlowInv
        <4>2. Len(answers[t]) \in Nat
          BY <4>1
        <4> QED BY <3>1, <4>2 DEF Worker!Buffered
      <3>3. Len(<<>>) = 0
        BY Zenon
      <3> QED BY <3>2, <3>3
    <2>2. /\ txPc' = [txPc EXCEPT ![t] = "responded"] /\ txPc[t] = "waiting"
          /\ UNCHANGED <<txNonce, tq, pc, current, pool, response, answers>>
      BY <1>6, Zenon DEF ReceiveResponse, Goto, Worker!Receive, Worker!queueVars, Worker!workerVars
    <2> QED BY <2>1, <2>2, SMTT(30) DEF FlowInv, Carries, CountInv
  <1>7. CASE ProxySendTransaction
    <2>1. /\ pc = "send" /\ pc' = "respond"
          /\ response' \in {[tx |-> current.req, err |-> "none"], Worker!Failed("proxyError")}
          /\ UNCHANGED <<tq, current, answers, txNonce, txPc>>
      BY <1>7, Zenon DEF ProxySendTransaction, Worker!SendTransaction, Worker!queueVars
    <2>2. pool' = pool \/ pool' \subseteq pool \cup {[tx |-> current.req, nonce |-> current.nonce]}
      BY <1>7, Zenon DEF ProxySendTransaction, Admit, InPool
    <2>3. Carries(current.req, current.nonce)
      BY <2>1, Zenon DEF FlowInv
    <2>4. response' \in Worker!Responses
      BY <2>1, <2>3 DEF Worker!Responses, Worker!Failed, Carries
    <2>5. \A p \in pool' : Carries(p.tx, p.nonce)
      BY <2>2, <2>3 DEF FlowInv
    <2> QED BY <2>1, <2>4, <2>5 DEF FlowInv, Carries
  <1>8. CASE WorkerStep \/ Close
    <2>1. UNCHANGED <<txNonce, txPc, pool>>
      BY <1>8, Zenon DEF WorkerStep, Close
    <2>2. CASE Worker!nextTransaction
      BY <2>1, <2>2, Zenon DEF Worker!nextTransaction, FlowInv, Carries
    <2>3. CASE Worker!retrieveChannel
      BY <2>1, <2>3, SMTT(30) DEF Worker!retrieveChannel, FlowInv, Carries
    <2>4. CASE Worker!Respond \/ Worker!closeAllChannels \/ Worker!Cancel
      BY <1>1, <2>1, <2>4, Zenon
      DEF Worker!Respond, Worker!closeAllChannels, Worker!Cancel, Worker!queueVars, Worker!workerVars,
          FlowInv, Carries, AnswersGrow
    <2> QED BY <1>8, <2>2, <2>3, <2>4, Zenon DEF WorkerStep, Close
  <1>9. CASE ChainStep
    BY <1>9, Zenon DEF ChainStep, Execute, FlowInv, Carries
  <1>10. CASE UNCHANGED vars
    BY <1>10, Zenon DEF vars, FlowInv, Carries
  <1> QED
    BY <1>2, <1>4, <1>5, <1>6, <1>7, <1>8, <1>9, <1>10 DEF Next, CallerStep

LEMMA HoldersAreFinite == IsFiniteSet(Holders) /\ Cardinality(Holders) \in Nat
  <1>1. Holders \in SUBSET Txs
    BY Zenon DEF Holders
  <1>2. IsFiniteSet(Holders)
    BY <1>1, TxsAreFinite, FS_Subset, Zenon
  <1> QED BY <1>2, FS_CardinalityType, Zenon

\* the nonce that an undisturbed handler hands out is the next of the count
LEMMA NextOfTheCount ==
    ASSUME CountInv, SourceInv, ~Disturbed, NEW t \in Txs, computeNonce(t)
    PROVE  /\ t \notin Holders /\ nonce' = firstNonce + Cardinality(Holders)
           /\ txNonce' = [txNonce EXCEPT ![t] = nonce']
           /\ UNCHANGED <<firstNonce, accountNonce, answers>>
  <1>1. t \notin Holders
    BY Zenon DEF CountInv, computeNonce, Holders
  <1>2. CASE nonce = NotSet
    <2>1. Cardinality(Holders) = 0 /\ accountNonce = firstNonce
      BY <1>2, FS_EmptySet, Zenon DEF SourceInv
    <2> QED BY <1>1, <1>2, <2>1 DEF computeNonce, chainVars, queueWorkerVars, SourceInv
  <1>3. CASE nonce # NotSet
    BY <1>1, <1>3, HoldersAreFinite DEF computeNonce, chainVars, queueWorkerVars, SourceInv
  <1> QED BY <1>2, <1>3, Zenon

LEMMA NextSourceInv == CountInv /\ FlowInv /\ SourceInv /\ [Next]_vars => SourceInv'
  <1> SUFFICES ASSUME CountInv, FlowInv, SourceInv, [Next]_vars PROVE SourceInv'
    BY SMTT(30)
  <1>1. firstNonce' = firstNonce
    BY Zenon DEF Next, CallerStep, computeNonce, applyGasPriceIfRequired, GetNetworkConfig, ApplyGasPrice,
           SendTransaction, ReceiveResponse, adaptNonceBasedOnResponse, computeNonceFails, ContextDone,
           ProxySendTransaction, Admit, WorkerStep, Close, ChainStep, Execute, vars, chainVars
  <1>2. CASE Disturbed'
    BY <1>1, <1>2, Zenon DEF SourceInv
  <1>3. CASE ~Disturbed' /\ \E t \in Txs : computeNonce(t)
    <2>1. ~Disturbed
      BY <1>3, DisturbedForGood, Zenon
    <2>2. PICK t \in Txs : computeNonce(t)
      BY <1>3, Zenon
    <2>3. /\ t \notin Holders /\ nonce' = firstNonce + Cardinality(Holders)
          /\ txNonce' = [txNonce EXCEPT ![t] = nonce']
          /\ UNCHANGED <<firstNonce, accountNonce, answers>>
      BY <2>1, <2>2, NextOfTheCount, Zenon
    <2>4. nonce' \in Nat
      BY <2>3, HoldersAreFinite DEF SourceInv
    <2>5. Holders' = Holders \cup {t}
      <3>1. \A u \in Txs : txNonce'[u] = IF u = t THEN nonce' ELSE txNonce[u]
        BY <2>3, Zenon DEF CountInv
      <3>2. nonce' # NotSet
        BY <2>4 DEF NotSet
      <3> QED BY <3>1, <3>2 DEF Holders
    <2>6. Cardinality(Holders') = Cardinality(Holders) + 1
      BY <2>3, <2>5, HoldersAreFinite, FS_AddElement, SMTT(30)
    <2> QED BY <1>1, <2>3, <2>4, <2>5, <2>6, HoldersAreFinite DEF SourceInv, NotSet
  <1>4. CASE ~Disturbed' /\ ChainStep
    <2>1. Holders # {}
      BY <1>4, Zenon DEF ChainStep, Execute, FlowInv, Carries, Holders
    <2> QED BY <1>1, <1>4, <2>1, DisturbedForGood, Zenon
            DEF ChainStep, handlerVars, callerVars, SourceInv, Holders
  <1>5. CASE ~Disturbed' /\ UNCHANGED <<nonce, accountNonce, txNonce>>
    BY <1>1, <1>5, DisturbedForGood, Zenon DEF SourceInv, Holders
  <1>6. ASSUME ~Disturbed', NEW t \in Txs, adaptNonceBasedOnResponse(t) PROVE SourceInv'
    <2>1. Succeeded(t)
      BY <1>6, DisturbedForGood, Zenon DEF adaptNonceBasedOnResponse, FlowInv, Disturbed, Failed
    <2>2. UNCHANGED <<nonce, accountNonce, txNonce>>
      BY <1>6, <2>1, SMTT(30) DEF adaptNonceBasedOnResponse, chainVars
    <2> QED BY <1>5, <1>6, <2>2, Zenon
  <1>7. [Next]_vars => \/ \E t \in Txs : computeNonce(t) \/ adaptNonceBasedOnResponse(t)
                       \/ ChainStep
                       \/ UNCHANGED <<nonce, accountNonce, txNonce>>
    BY Zenon DEF Next, CallerStep, applyGasPriceIfRequired, GetNetworkConfig, ApplyGasPrice,
           SendTransaction, ReceiveResponse, computeNonceFails, ContextDone,
           ProxySendTransaction, Admit, WorkerStep, Close, vars, chainVars, handlerVars, callerVars
  <1> QED BY <1>2, <1>3, <1>4, <1>5, <1>6, <1>7

LEMMA SameCardinality == \A S : Source!Cardinality(S) = Cardinality(S)
  BY Zenon DEF Source!Cardinality, Cardinality

(* addressNonceHandler implements NonceSource: until a send fails,         *)
(* concurrent callers get the account's nonce and the numbers after it,    *)
(* one each, none that is used already, for any number of transactions.    *)
THEOREM ImplementsNonceSource == Spec => NoncesFollowEachOther
  <1> DEFINE IInv == (CountInv /\ ConsecutiveSinceFetch) /\ FlowInv /\ SourceInv
  <1>1. Init => IInv /\ Source!SourceInit
    <2> SUFFICES ASSUME Init PROVE IInv /\ Source!SourceInit
      BY Zenon
    <2>1. ~Disturbed
      BY Zenon DEF Init, Worker!Init, Disturbed, Failed
    <2> QED BY <2>1, InitCount, InitFlow, Zenon
            DEF Init, ChainInit, Source!SourceInit, Source!NoNonce, NotSet, Disturbed
  <1>2. IInv /\ [Next]_vars => IInv'
    BY NextCount, NextFlow, NextSourceInv, Zenon
  <1>3. IInv /\ [Next]_vars => [Source!SourceNext]_(Source!sourceVars)
    <2> SUFFICES ASSUME IInv, [Next]_vars PROVE [Source!SourceNext]_(Source!sourceVars)
      BY SMTT(30)
    <2>1. firstNonce' = firstNonce
      BY Zenon DEF Next, CallerStep, computeNonce, applyGasPriceIfRequired, GetNetworkConfig, ApplyGasPrice,
             SendTransaction, ReceiveResponse, adaptNonceBasedOnResponse, computeNonceFails, ContextDone,
             ProxySendTransaction, Admit, WorkerStep, Close, ChainStep, Execute, vars, chainVars
    <2>2. CASE Disturbed'
      BY <2>1, <2>2, Zenon DEF Source!SourceNext, Source!Disturb, Disturbed
    <2>3. CASE ~Disturbed'
      <3>1. ~Disturbed
        BY <2>3, DisturbedForGood, Zenon
      <3>2. Source!Holding = Holders
        BY Zenon DEF Source!Holding, Source!NoNonce, Holders, NotSet
      <3>3. ASSUME NEW t \in Txs, computeNonce(t) PROVE Source!HandOut(t)
        <4>1. /\ t \notin Holders /\ nonce' = firstNonce + Cardinality(Holders)
              /\ txNonce' = [txNonce EXCEPT ![t] = nonce']
              /\ UNCHANGED <<firstNonce, accountNonce>>
          BY <3>1, <3>3, NextOfTheCount, Zenon
        <4>2. txNonce' = [txNonce EXCEPT ![t] = firstNonce + Cardinality(Source!Holding)]
          BY <3>2, <4>1, Zenon
        <4>3. (\E u \in Txs : Failed(u))' = (\E u \in Txs : Failed(u))
          BY <2>3, <3>1, Zenon DEF Disturbed
        <4> QED BY <3>1, <3>2, <4>1, <4>2, <4>3, SameCardinality, Zenon DEF Source!HandOut, Disturbed
      <3>4. ASSUME ChainStep PROVE Source!Use
        <4>1. PICK p \in pool : p.nonce = accountNonce
          BY <3>4, Zenon DEF ChainStep, Execute
        <4>2. p.tx \in Holders /\ accountNonce = txNonce[p.tx]
          BY <4>1, SMTT(30) DEF FlowInv, Carries, Holders
        <4> QED BY <2>3, <3>1, <3>2, <3>4, <4>2, Zenon
                DEF Source!Use, Disturbed, ChainStep, Execute, handlerVars, callerVars
      <3>5. \/ \E t \in Txs : computeNonce(t)
            \/ ChainStep
            \/ UNCHANGED <<accountNonce, txNonce>>
        BY Zenon DEF Next, CallerStep, applyGasPriceIfRequired, GetNetworkConfig, ApplyGasPrice,
               SendTransaction, ReceiveResponse, adaptNonceBasedOnResponse, computeNonceFails, ContextDone,
               ProxySendTransaction, Admit, WorkerStep, Close, vars, chainVars, handlerVars, callerVars
      <3>6. UNCHANGED <<accountNonce, txNonce>> => UNCHANGED Source!sourceVars
        BY <2>1, <2>3, <3>1, Zenon DEF Source!sourceVars, Disturbed
      <3> QED BY <3>3, <3>4, <3>5, <3>6, Zenon DEF Source!SourceNext
    <2> QED BY <2>2, <2>3, Zenon
  <1> QED BY <1>1, <1>2, <1>3, PTL DEF Spec, NoncesFollowEachOther, Source!SourceSpec
=============================================================================
