------------------------ MODULE NonceHandlerV1Proofs ------------------------
(***************************************************************************)
(* Proofs about NonceHandlerV1, for any finite set of transactions.        *)
(***************************************************************************)
EXTENDS NonceHandlerV1, FiniteSetTheorems, TLAPS

-----------------------------------------------------------------------------
(* What holds whatever disturbs the count: what is cached, pooled or to be *)
(* resent has passed sendTransaction and carries its transaction's nonce.  *)

Labels == {"new", "account", "getNonceFailed", "hasNonce", "check", "duplicate",
           "ErrTxAlreadySent", "store", "proxy", "sent", "sendFailed"}

Stored(t) == txPc[t] \in {"proxy", "sent", "sendFailed"}

Carried(t, n) == t \in Txs /\ Stored(t) /\ n = txNonce[t]

Shape ==
    /\ firstNonce \in FirstNonces /\ accountNonce \in Nat
    /\ computedNonce \in Nat /\ computedNonceWasSet \in BOOLEAN
    /\ transactions \in [Nonces -> Txs \cup {NoTx}]
    /\ txPc \in [Txs -> Labels]
    /\ txAccount \in [Txs -> Nat]
    /\ txNonce \in [Txs -> Nat]
    /\ resendAccount \in Nat
    /\ refetches \in Nat /\ foreigns \in Nat

FlowInv ==
    /\ Shape
    /\ \A n \in Nonces : transactions[n] # NoTx => Carried(transactions[n], n)
    /\ \A p \in pool : Carried(p.tx, p.nonce)
    /\ \A p \in resendableTxs : Carried(p.tx, p.nonce)
    /\ \A t \in Txs : txPc[t] = "duplicate" => \E u \in Txs : Stored(u)
    /\ \A t \in Txs : txPc[t] = "account" => firstNonce <= txAccount[t] /\ txAccount[t] <= accountNonce
    /\ firstNonce <= accountNonce
    /\ resendPc = "sweep" => resendAccount <= accountNonce

-----------------------------------------------------------------------------
(* The count, until it is started anew or somebody else uses the account   *)

Holders == {t \in Txs : HoldsNonce(t)}

Alone == refetches = 0 /\ foreigns = 0

CountInv ==
    Alone =>
        /\ ~computedNonceWasSet =>
              /\ accountNonce = firstNonce
              /\ \A t \in Txs : txPc[t] \in {"new", "account", "getNonceFailed"}
        /\ computedNonceWasSet => computedNonce + 1 = firstNonce + Cardinality(Holders)

(* The nonces, until one is given back as well                             *)

NonceInv ==
    Undisturbed =>
        /\ computedNonceWasSet => accountNonce <= computedNonce + 1
        /\ \A t \in Holders : firstNonce <= txNonce[t] /\ txNonce[t] <= computedNonce
        /\ \A t, u \in Holders : txNonce[t] = txNonce[u] => t = u

(* A transaction that was stored is in the cache until the account's nonce *)
(* has reached it.                                                         *)

CacheInv ==
    Undisturbed =>
        \A t \in Txs : Stored(t) /\ txNonce[t] > accountNonce => transactions[txNonce[t]] = t

IInv == FlowInv /\ CountInv /\ NonceInv /\ CacheInv

-----------------------------------------------------------------------------

LEMMA HoldersAreFinite ==
    /\ IsFiniteSet(Holders) /\ Cardinality(Holders) \in Nat
    /\ Cardinality(Txs) \in Nat /\ Cardinality(Holders) <= Cardinality(Txs)
  <1>1. Holders \in SUBSET Txs
    BY Zenon DEF Holders
  <1> QED BY <1>1, TxsAreFinite, FS_Subset, FS_CardinalityType, Zenon

LEMMA InitInv == Init => IInv
  <1> SUFFICES ASSUME Init PROVE IInv
    BY Zenon
  <1> USE DEF Init, ChainInit
  <1>1. Shape
    BY FirstNoncesAreNatural, Zenon DEF Shape, Labels
  <1>2. FlowInv
    BY <1>1, FirstNoncesAreNatural DEF FlowInv
  <1>3. CountInv
    BY Zenon DEF CountInv
  <1>4. Holders = {}
    BY Zenon DEF Holders, HoldsNonce
  <1>5. NonceInv
    BY <1>4, Zenon DEF NonceInv
  <1>6. CacheInv
    BY Zenon DEF CacheInv, Stored
  <1> QED BY <1>2, <1>3, <1>5, <1>6, Zenon DEF IInv

-----------------------------------------------------------------------------
(* Steps of a caller                                                       *)

\* a caller goes on, from before the cache to before the cache, or behind it
Passes(t, label) ==
    /\ txPc[t] \in Labels /\ label \in Labels
    /\ Goto(t, label)
    /\ Stored(t) => label \in {"proxy", "sent", "sendFailed"}
    /\ ~Stored(t) => label \notin {"proxy", "sent", "sendFailed"}

LEMMA CarriedStays ==
    ASSUME FlowInv, NEW t \in Txs, NEW label, Passes(t, label), UNCHANGED txNonce
    PROVE  /\ \A u \in Txs : txPc'[u] = IF u = t THEN label ELSE txPc[u]
           /\ \A u \in Txs : Stored(u)' <=> Stored(u)
           /\ \A u, n : Carried(u, n)' <=> Carried(u, n)
  <1>1. \A u \in Txs : txPc'[u] = IF u = t THEN label ELSE txPc[u]
    BY Zenon DEF FlowInv, Shape, Passes, Goto
  <1>2. \A u \in Txs : Stored(u)' <=> Stored(u)
    BY <1>1, Zenon DEF Passes, Stored
  <1> QED BY <1>1, <1>2, Zenon DEF Carried

\* a step of a caller that changes neither nonces nor the cache
LEMMA PassingFlow ==
    ASSUME FlowInv, NEW t \in Txs, NEW label, Passes(t, label), UNCHANGED <<txNonce, transactions, resendVars, envVars>>,
           UNCHANGED <<firstNonce, accountNonce>>,
           computedNonce' \in Nat, UNCHANGED computedNonceWasSet,
           txAccount' \in [Txs -> Nat],
           \A u \in Txs : u # t => txAccount'[u] = txAccount[u],
           label = "account" => txAccount'[t] = accountNonce,
           label = "duplicate" => \E u \in Txs : Stored(u),
           \A p \in pool' : Carried(p.tx, p.nonce)
    PROVE  FlowInv'
  <1>1. Shape'
    BY Zenon DEF FlowInv, Shape, Passes, Goto, resendVars, envVars
  <1>2. /\ \A n \in Nonces : transactions'[n] # NoTx => Carried(transactions[n], n)'
        /\ \A p \in pool' : Carried(p.tx, p.nonce)'
        /\ \A p \in resendableTxs' : Carried(p.tx, p.nonce)'
    <2>1. UNCHANGED <<transactions, resendableTxs>>
      BY Zenon DEF resendVars
    <2>2. \A n \in Nonces : transactions[n] # NoTx => Carried(transactions[n], n)
      BY Zenon DEF FlowInv
    <2>3. \A p \in resendableTxs : Carried(p.tx, p.nonce)
      BY Zenon DEF FlowInv
    <2> QED BY <2>1, <2>2, <2>3, CarriedStays DEF Carried, Stored
  <1>3. \A u \in Txs : txPc'[u] = "duplicate" => \E v \in Txs : Stored(v)'
    BY CarriedStays DEF FlowInv
  <1>4. ASSUME NEW u \in Txs, txPc'[u] = "account"
        PROVE  firstNonce' <= txAccount'[u] /\ txAccount'[u] <= accountNonce'
    BY <1>4, CarriedStays DEF FlowInv
  <1>5. firstNonce' <= accountNonce' /\ (resendPc' = "sweep" => resendAccount' <= accountNonce')
    BY Zenon DEF FlowInv, resendVars
  <1> QED BY <1>1, <1>2, <1>3, <1>4, <1>5, Zenon DEF FlowInv

LEMMA GetAccountFlow == ASSUME FlowInv, NEW t \in Txs, GetAccount(t) PROVE FlowInv'
  <1>1. txPc[t] = "new" /\ UNCHANGED <<txNonce, pool>>
    BY Zenon DEF GetAccount, chainVars
  <1>2. PICK label \in {"account", "getNonceFailed"} :
            /\ Goto(t, label)
            /\ label = "account" => txAccount' = [txAccount EXCEPT ![t] = accountNonce]
            /\ label # "account" => UNCHANGED txAccount
    BY Zenon DEF GetAccount
  <1>3. Passes(t, label)
    BY <1>1, <1>2, Zenon DEF Passes, Stored, Labels
  <1>4. \A p \in pool' : Carried(p.tx, p.nonce)
    BY <1>1, Zenon DEF FlowInv
  <1>5. /\ txAccount' \in [Txs -> Nat]
        /\ \A u \in Txs : u # t => txAccount'[u] = txAccount[u]
    BY <1>2, Zenon DEF FlowInv, Shape
  <1>6. label = "account" => txAccount'[t] = accountNonce
    BY <1>2, Zenon DEF FlowInv, Shape
  <1>7. /\ UNCHANGED <<transactions, resendVars, envVars, firstNonce, accountNonce, computedNonceWasSet>>
        /\ computedNonce' \in Nat
    BY Zenon DEF GetAccount, chainVars, anhVars, FlowInv, Shape
  <1> QED BY <1>1, <1>2, <1>3, <1>4, <1>5, <1>6, <1>7, PassingFlow, Zenon

LEMMA CheckFlow ==
    ASSUME FlowInv, NEW t \in Txs,
           getOrCreateAddressNonceHandler(t) \/ isTxAlreadySent(t) \/ decrementComputedNonce(t)
    PROVE  FlowInv'
  <1>1. /\ UNCHANGED <<txNonce, txAccount, pool, transactions, resendVars, envVars, firstNonce, accountNonce, computedNonceWasSet>>
        /\ computedNonce' \in Nat
    BY DEF getOrCreateAddressNonceHandler, isTxAlreadySent, decrementComputedNonce, chainVars, anhVars, FlowInv, Shape
  <1>2. PICK label \in {"check", "store", "duplicate", "ErrTxAlreadySent"} :
            /\ Goto(t, label) /\ txPc[t] \in {"hasNonce", "check", "duplicate"}
            /\ label = "duplicate" => SamePayloadStored(t)
    BY Zenon DEF getOrCreateAddressNonceHandler, isTxAlreadySent, decrementComputedNonce
  <1>3. Passes(t, label)
    BY <1>2, Zenon DEF Passes, Stored, Labels
  <1>4. SamePayloadStored(t) => \E u \in Txs : Stored(u)
    BY Zenon DEF SamePayloadStored, FlowInv, Carried
  <1>5. txAccount' \in [Txs -> Nat] /\ \A p \in pool' : Carried(p.tx, p.nonce)
    BY <1>1, Zenon DEF FlowInv, Shape
  <1> QED BY <1>1, <1>2, <1>3, <1>4, <1>5, PassingFlow, Zenon

LEMMA ProxySendFlow == ASSUME FlowInv, NEW t \in Txs, ProxySendTransaction(t) PROVE FlowInv'
  <1>1. /\ UNCHANGED <<txNonce, txAccount, transactions, resendVars, envVars, firstNonce, accountNonce, computedNonceWasSet>>
        /\ computedNonce' \in Nat
    BY Zenon DEF ProxySendTransaction, Admit, chainVars, anhVars, FlowInv, Shape
  <1>2. PICK label \in {"sent", "sendFailed"} : Goto(t, label) /\ txPc[t] = "proxy"
    BY Zenon DEF ProxySendTransaction
  <1>3. Passes(t, label)
    BY <1>2, Zenon DEF Passes, Stored, Labels
  <1>4. pool' \subseteq pool \cup {InPool(t, txNonce[t])}
    BY Zenon DEF ProxySendTransaction, Admit, chainVars
  <1>5. \A p \in pool' : Carried(p.tx, p.nonce)
    BY <1>2, <1>4 DEF FlowInv, Carried, InPool, Stored
  <1>6. txAccount' \in [Txs -> Nat]
    BY <1>1, Zenon DEF FlowInv, Shape
  <1> QED BY <1>1, <1>2, <1>3, <1>5, <1>6, PassingFlow, Zenon

LEMMA GetNonceFlow == ASSUME FlowInv, NEW t \in Txs, getNonceUpdatingCurrent(t) PROVE FlowInv'
  <1>1. UNCHANGED <<txAccount, transactions, chainVars, resendVars, envVars>> /\ txPc[t] = "account"
    BY Zenon DEF getNonceUpdatingCurrent
  <1>2. /\ txPc' = [txPc EXCEPT ![t] = "hasNonce"]
        /\ computedNonce' \in Nat /\ computedNonceWasSet' \in BOOLEAN
        /\ \E n \in Nat : txNonce' = [txNonce EXCEPT ![t] = n]
    <2>1. txAccount[t] \in Nat /\ computedNonce \in Nat /\ computedNonceWasSet \in BOOLEAN
      BY Zenon DEF FlowInv, Shape
    <2>2. txPc' = [txPc EXCEPT ![t] = "hasNonce"]
      BY Zenon DEF getNonceUpdatingCurrent, Goto
    <2>3. CASE ~computedNonceWasSet
      BY <2>1, <2>2, <2>3, Zenon DEF getNonceUpdatingCurrent
    <2>4. CASE computedNonceWasSet
      <3>1. computedNonce' \in Nat /\ MaxOf(computedNonce', txAccount[t]) \in Nat
        BY <2>1, <2>4 DEF getNonceUpdatingCurrent, MaxOf
      <3>2. txNonce' = [txNonce EXCEPT ![t] = MaxOf(computedNonce', txAccount[t])] /\ UNCHANGED computedNonceWasSet
        BY <2>4, Zenon DEF getNonceUpdatingCurrent
      <3> QED BY <2>1, <2>2, <3>1, <3>2, Zenon
    <2> QED BY <2>1, <2>3, <2>4, Zenon
  <1>3. Shape'
    BY <1>1, <1>2, Zenon DEF FlowInv, Shape, Labels, chainVars, resendVars, envVars
  <1>4. \A u \in Txs : /\ txPc'[u] = IF u = t THEN "hasNonce" ELSE txPc[u]
                       /\ Stored(u) => Stored(u)' /\ txNonce'[u] = txNonce[u]
    BY <1>1, <1>2, Zenon DEF FlowInv, Shape, Stored
  <1>5. \A u, n : Carried(u, n) => Carried(u, n)'
    BY <1>4, Zenon DEF Carried
  <1> QED BY <1>1, <1>3, <1>4, <1>5, Zenon DEF FlowInv, chainVars, resendVars

LEMMA StoreFlow == ASSUME FlowInv, NEW t \in Txs, sendTransaction(t) PROVE FlowInv'
  <1>1. /\ UNCHANGED <<computedNonce, computedNonceWasSet, txAccount, txNonce, chainVars, resendVars, envVars>>
        /\ txPc[t] = "store" /\ txPc' = [txPc EXCEPT ![t] = "proxy"]
        /\ transactions' = [transactions EXCEPT ![txNonce[t]] = t]
    BY Zenon DEF sendTransaction, Goto
  <1>2. Shape'
    BY <1>1, Zenon DEF FlowInv, Shape, Labels, chainVars, resendVars, envVars
  <1>3. \A u \in Txs : txPc'[u] = IF u = t THEN "proxy" ELSE txPc[u]
    BY <1>1, Zenon DEF FlowInv, Shape
  <1>4. (\A u, n : Carried(u, n) => Carried(u, n)') /\ Carried(t, txNonce[t])'
    BY <1>1, <1>3, Zenon DEF Carried, Stored
  <1>5. \A n \in Nonces : transactions'[n] = IF n = txNonce[t] THEN t ELSE transactions[n]
    BY <1>1, Zenon DEF FlowInv, Shape
  <1>6. \A n \in Nonces : transactions'[n] # NoTx => Carried(transactions[n], n)'
    <2> TAKE n \in Nonces
    <2>1. CASE n = txNonce[t]
      BY <1>1, <1>4, <1>5, <2>1, Zenon DEF Carried, Stored
    <2>2. CASE n # txNonce[t]
      BY <1>1, <1>3, <1>5, <2>2 DEF FlowInv, Carried, Stored
    <2> QED BY <2>1, <2>2, Zenon
  <1>7. \A u \in Txs : Stored(u) => Stored(u)'
    BY <1>1, <1>3, Zenon DEF Stored
  <1> QED BY <1>1, <1>2, <1>3, <1>4, <1>6, <1>7 DEF FlowInv, chainVars, resendVars

-----------------------------------------------------------------------------
(* Steps of the resend goroutine and of the environment                    *)

\* the callers stand still
LEMMA OtherFlow ==
    ASSUME FlowInv, Shape', UNCHANGED <<txPc, txAccount, txNonce, firstNonce>>, accountNonce <= accountNonce',
           \A n \in Nonces : transactions'[n] \in {transactions[n], NoTx},
           \A p \in pool' : Carried(p.tx, p.nonce),
           \A p \in resendableTxs' : Carried(p.tx, p.nonce),
           resendPc' = "sweep" => resendAccount' <= accountNonce'
    PROVE  FlowInv'
  <1>1. (\A u, n : Carried(u, n)' <=> Carried(u, n)) /\ \A u \in Txs : Stored(u)' <=> Stored(u)
    BY Zenon DEF Carried, Stored
  <1>2. /\ \A n \in Nonces : transactions'[n] # NoTx => Carried(transactions[n], n)'
        /\ \A p \in pool' : Carried(p.tx, p.nonce)'
        /\ \A p \in resendableTxs' : Carried(p.tx, p.nonce)'
    BY <1>1, Zenon DEF FlowInv, Carried, Stored
  <1>3. \A t \in Txs : txPc'[t] = "duplicate" => \E u \in Txs : Stored(u)'
    BY <1>1, Zenon DEF FlowInv
  <1>4. ASSUME NEW t \in Txs, txPc'[t] = "account"
        PROVE  firstNonce' <= txAccount'[t] /\ txAccount'[t] <= accountNonce'
    BY <1>4, FirstNoncesAreNatural DEF FlowInv, Shape
  <1>5. firstNonce' <= accountNonce'
    BY FirstNoncesAreNatural DEF FlowInv, Shape
  <1> QED BY <1>2, <1>3, <1>4, <1>5, Zenon DEF FlowInv

LEMMA ResendFlow ==
    ASSUME FlowInv, ResendGetAccount \/ reSendTransactionsIfRequired \/ ResendTransactions
    PROVE  FlowInv'
  <1> USE DEF chainVars, anhVars, callerVars, envVars
  <1>1. CASE ResendGetAccount
    <2>1. /\ resendAccount' = accountNonce
          /\ UNCHANGED <<resendableTxs, chainVars, anhVars, callerVars, envVars>>
      BY <1>1, Zenon DEF ResendGetAccount
    <2>2. Shape' /\ accountNonce \in Nat
      BY <2>1, Zenon DEF FlowInv, Shape
    <2>3. /\ UNCHANGED <<txPc, txAccount, txNonce, firstNonce, accountNonce>>
          /\ \A n \in Nonces : transactions'[n] \in {transactions[n], NoTx}
          /\ \A p \in pool' : Carried(p.tx, p.nonce)
          /\ \A p \in resendableTxs' : Carried(p.tx, p.nonce)
      BY <2>1, Zenon DEF FlowInv
    <2>4. accountNonce <= accountNonce' /\ resendAccount' <= accountNonce'
      BY <2>1, <2>2, <2>3
    <2> QED BY <2>2, <2>3, <2>4, OtherFlow, Zenon
  <1>2. CASE reSendTransactionsIfRequired
    <2>1. /\ UNCHANGED <<computedNonce, computedNonceWasSet, resendAccount, chainVars, callerVars, envVars>>
          /\ resendPc' \in {"idle", "resend"}
      BY <1>2, Zenon DEF reSendTransactionsIfRequired
    <2>2. \/ transactions' = [n \in Nonces |-> NoTx]
          \/ transactions' = [n \in Nonces |-> IF Keep(n) THEN transactions[n] ELSE NoTx]
      BY <1>2, Zenon DEF reSendTransactionsIfRequired
    <2>3. transactions' \in [Nonces -> Txs \cup {NoTx}] /\ \A n \in Nonces : transactions'[n] \in {transactions[n], NoTx}
      BY <2>2, Zenon DEF FlowInv, Shape
    <2>4. Shape' /\ accountNonce \in Nat
      BY <2>1, <2>3, Zenon DEF FlowInv, Shape
    <2>5. resendableTxs' \subseteq resendableTxs \cup {InPool(transactions[n], n) : n \in {m \in Nonces : Keep(m)}}
      BY <1>2, Zenon DEF reSendTransactionsIfRequired
    <2>6. \A p \in resendableTxs' : Carried(p.tx, p.nonce)
      BY <2>5 DEF FlowInv, Keep, InPool
    <2>7. /\ UNCHANGED <<txPc, txAccount, txNonce, firstNonce, accountNonce>>
          /\ \A p \in pool' : Carried(p.tx, p.nonce)
      BY <2>1, Zenon DEF FlowInv
    <2>8. accountNonce <= accountNonce' /\ resendPc' # "sweep"
      BY <2>1, <2>4, <2>7
    <2> QED BY <2>3, <2>4, <2>6, <2>7, <2>8, OtherFlow, Zenon
  <1>3. CASE ResendTransactions
    <2>1. /\ UNCHANGED <<firstNonce, accountNonce, resendAccount, anhVars, callerVars, envVars>>
          /\ resendPc' = "idle" /\ resendableTxs' = {}
          /\ pool' \subseteq pool \cup resendableTxs
      BY <1>3, Zenon DEF ResendTransactions, Admit
    <2>2. Shape' /\ accountNonce \in Nat
      BY <2>1, Zenon DEF FlowInv, Shape
    <2>3. \A p \in pool' : Carried(p.tx, p.nonce)
      BY <2>1, Zenon DEF FlowInv
    <2> QED BY <2>1, <2>2, <2>3, OtherFlow
  <1> QED BY <1>1, <1>2, <1>3, Zenon

LEMMA EnvironmentFlow ==
    ASSUME FlowInv, ForceNonceReFetch \/ Close \/ ForeignTransaction \/ ChainStep \/ UNCHANGED vars
    PROVE  FlowInv'
  <1> USE DEF chainVars, anhVars, callerVars, resendVars, envVars
  <1>1. /\ UNCHANGED <<txPc, txAccount, txNonce, firstNonce, transactions, resendPc, resendAccount, resendableTxs, computedNonce>>
        /\ computedNonceWasSet' = computedNonceWasSet \/ computedNonceWasSet' = FALSE
        /\ accountNonce' \in {accountNonce, accountNonce + 1}
        /\ pool' \subseteq pool
        /\ refetches' \in {refetches, refetches + 1} /\ foreigns' \in {foreigns, foreigns + 1}
    BY Zenon DEF ForceNonceReFetch, Close, ForeignTransaction, ChainStep, Execute, vars
  <1>2. Shape' /\ accountNonce <= accountNonce'
    <2>1. computedNonceWasSet \in BOOLEAN
      BY Zenon DEF FlowInv, Shape
    <2>2. computedNonceWasSet' \in BOOLEAN
      BY <1>1, <2>1, ZenonT(30)
    <2> QED BY <1>1, <2>2 DEF FlowInv, Shape
  <1>3. resendPc' = "sweep" => resendAccount' <= accountNonce'
    BY <1>1 DEF FlowInv, Shape
  <1> QED BY <1>1, <1>2, <1>3, OtherFlow, Zenon DEF FlowInv

LEMMA NextFlow == ASSUME FlowInv, [Next]_vars PROVE FlowInv'
  BY GetAccountFlow, GetNonceFlow, CheckFlow, StoreFlow, ProxySendFlow, ResendFlow, EnvironmentFlow, Zenon
  DEF Next, CallerStep

-----------------------------------------------------------------------------
(* Steps that hand out no nonce and take none back                         *)

Quiet ==
    /\ UNCHANGED <<computedNonce, computedNonceWasSet, txNonce, firstNonce, refetches, foreigns>>
    /\ \A t \in Txs :
        /\ HoldsNonce(t)' <=> HoldsNonce(t)
        /\ txPc'[t] = "ErrTxAlreadySent" <=> txPc[t] = "ErrTxAlreadySent"
        /\ txPc[t] \in {"new", "account", "getNonceFailed"} => txPc'[t] \in {"new", "account", "getNonceFailed"}
    /\ \/ UNCHANGED accountNonce
       \/ /\ accountNonce' = accountNonce + 1
          /\ \E t \in Txs : Stored(t) /\ txNonce[t] = accountNonce

LEMMA QuietOrNot ==
    ASSUME FlowInv, [Next]_vars
    PROVE  \/ Quiet
           \/ \E t \in Txs : getNonceUpdatingCurrent(t) \/ decrementComputedNonce(t)
           \/ ForceNonceReFetch \/ ForeignTransaction
  <1> USE DEF chainVars, anhVars, callerVars, resendVars, envVars
  <1>1. ASSUME NEW t \in Txs, NEW label \in Labels, Goto(t, label),
               UNCHANGED <<computedNonce, computedNonceWasSet, txNonce, firstNonce, accountNonce, refetches, foreigns>>,
               \/ /\ txPc[t] \in {"hasNonce", "check", "duplicate", "store", "proxy", "sent", "sendFailed"}
                  /\ label \in {"hasNonce", "check", "duplicate", "store", "proxy", "sent", "sendFailed"}
               \/ txPc[t] = "new" /\ label \in {"account", "getNonceFailed"}
        PROVE  Quiet
    <2>1. \A u \in Txs : txPc'[u] = IF u = t THEN label ELSE txPc[u]
      BY <1>1, Zenon DEF Goto, FlowInv, Shape
    <2> QED BY <1>1, <2>1, Zenon DEF Quiet, HoldsNonce
  <1>2. ASSUME NEW t \in Txs,
               \/ GetAccount(t) \/ getOrCreateAddressNonceHandler(t) \/ isTxAlreadySent(t)
               \/ sendTransaction(t) \/ ProxySendTransaction(t)
        PROVE  Quiet
    BY <1>1, <1>2, Zenon DEF GetAccount, getOrCreateAddressNonceHandler, isTxAlreadySent, sendTransaction,
                      ProxySendTransaction, Admit, Labels
  <1>3. CASE ResendGetAccount \/ reSendTransactionsIfRequired \/ ResendTransactions \/ Close \/ UNCHANGED vars
    BY <1>3, SMTT(30) DEF ResendGetAccount, reSendTransactionsIfRequired, ResendTransactions, Admit, Close, vars,
                Quiet, HoldsNonce
  <1>4. CASE ChainStep
    <2>1. UNCHANGED <<txPc, computedNonce, computedNonceWasSet, txNonce, firstNonce, refetches, foreigns>>
      BY <1>4, Zenon DEF ChainStep, Execute
    <2>2. PICK p \in pool : p.nonce = accountNonce /\ accountNonce' = accountNonce + 1
      BY <1>4, Zenon DEF ChainStep, Execute
    <2>3. p.tx \in Txs /\ Stored(p.tx) /\ txNonce[p.tx] = accountNonce
      BY <2>2, Zenon DEF FlowInv, Carried
    <2> QED BY <2>1, <2>2, <2>3, Zenon DEF Quiet, HoldsNonce
  <1> QED BY <1>2, <1>3, <1>4, Zenon DEF Next, CallerStep

LEMMA QuietHolders ==
    ASSUME Quiet
    PROVE  Holders' = Holders /\ (Undisturbed' <=> Undisturbed) /\ (Alone' <=> Alone)
  BY Zenon DEF Quiet, Holders, Undisturbed, Alone

\* what was disturbed stays disturbed
LEMMA DisturbedForGood ==
    ASSUME FlowInv, [Next]_vars
    PROVE  (Alone' => Alone) /\ (Undisturbed' => Undisturbed)
  <1>1. CASE Quiet
    BY <1>1, QuietHolders, Zenon
  <1>2. ASSUME NEW t \in Txs, getNonceUpdatingCurrent(t) \/ decrementComputedNonce(t)
        PROVE  (Alone' => Alone) /\ (Undisturbed' => Undisturbed)
    <2>1. /\ UNCHANGED <<refetches, foreigns>> /\ txPc[t] # "ErrTxAlreadySent"
          /\ \E label : txPc' = [txPc EXCEPT ![t] = label]
      BY <1>2, Zenon DEF getNonceUpdatingCurrent, decrementComputedNonce, envVars, Goto
    <2> QED BY <2>1, Zenon DEF Alone, Undisturbed, FlowInv, Shape
  <1>3. CASE ForceNonceReFetch \/ ForeignTransaction
    <2>1. refetches' # 0 \/ foreigns' # 0
      BY <1>3 DEF ForceNonceReFetch, ForeignTransaction, FlowInv, Shape
    <2> QED BY <2>1, Zenon DEF Alone, Undisturbed
  <1> QED BY <1>1, <1>2, <1>3, QuietOrNot, Zenon

-----------------------------------------------------------------------------
(* The count                                                               *)

LEMMA NobodyHolds ==
    ASSUME CountInv, Alone, ~computedNonceWasSet
    PROVE  Holders = {} /\ accountNonce = firstNonce /\ \A t \in Txs : ~Stored(t)
  BY Zenon DEF CountInv, Holders, HoldsNonce, Stored

\* the nonce that getNonceUpdatingCurrent hands out, and to whom
LEMMA HandedOut ==
    ASSUME FlowInv, CountInv, Alone, NEW t \in Txs, getNonceUpdatingCurrent(t)
    PROVE  /\ t \notin Holders /\ Holders' = Holders \cup {t}
           /\ Cardinality(Holders') = Cardinality(Holders) + 1
           /\ computedNonceWasSet' /\ computedNonce' = firstNonce + Cardinality(Holders)
           /\ txNonce' = [txNonce EXCEPT ![t] = MaxOf(computedNonce', txAccount[t])]
           /\ UNCHANGED <<refetches, foreigns, firstNonce, accountNonce, transactions>>
           /\ \A u \in Txs : txPc'[u] = IF u = t THEN "hasNonce" ELSE txPc[u]
           /\ txPc[t] = "account"
  <1>1. /\ txPc[t] = "account" /\ txPc' = [txPc EXCEPT ![t] = "hasNonce"]
        /\ UNCHANGED <<refetches, foreigns, firstNonce, accountNonce, transactions>>
    BY Zenon DEF getNonceUpdatingCurrent, Goto, envVars, chainVars
  <1>2. \A u \in Txs : txPc'[u] = IF u = t THEN "hasNonce" ELSE txPc[u]
    BY <1>1, Zenon DEF FlowInv, Shape
  <1>3. t \notin Holders /\ Holders' = Holders \cup {t}
    BY <1>1, <1>2 DEF Holders, HoldsNonce
  <1>4. Cardinality(Holders') = Cardinality(Holders) + 1
    BY <1>3, HoldersAreFinite, FS_AddElement, Zenon
  <1>5. firstNonce \in Nat /\ computedNonce \in Nat /\ accountNonce \in Nat
    BY FirstNoncesAreNatural, Zenon DEF FlowInv, Shape
  <1>6. firstNonce <= txAccount[t] /\ txAccount[t] <= accountNonce /\ txAccount[t] \in Nat
    BY <1>1, Zenon DEF FlowInv, Shape
  <1>7. CASE ~computedNonceWasSet
    <2>1. Cardinality(Holders) = 0 /\ accountNonce = firstNonce
      BY <1>7, NobodyHolds, FS_EmptySet, Zenon
    <2>2. txAccount[t] = firstNonce
      BY <1>5, <1>6, <2>1
    <2>3. computedNonceWasSet' /\ computedNonce' = txAccount[t] /\ txNonce' = [txNonce EXCEPT ![t] = computedNonce']
      BY <1>7, Zenon DEF getNonceUpdatingCurrent
    <2>4. MaxOf(computedNonce', txAccount[t]) = computedNonce'
      BY <1>6, <2>3, Zenon DEF MaxOf
    <2>5. computedNonce' = firstNonce + Cardinality(Holders)
      BY <1>5, <2>1, <2>2, <2>3
    <2> QED BY <1>1, <1>2, <1>3, <1>4, <2>3, <2>4, <2>5, Zenon
  <1>8. CASE computedNonceWasSet
    <2>1. computedNonceWasSet' /\ computedNonce' = computedNonce + 1
      BY <1>8, Zenon DEF getNonceUpdatingCurrent
    <2>2. txNonce' = [txNonce EXCEPT ![t] = MaxOf(computedNonce', txAccount[t])]
      BY <1>8, Zenon DEF getNonceUpdatingCurrent
    <2>3. computedNonce' = firstNonce + Cardinality(Holders)
      BY <1>8, <2>1, Zenon DEF CountInv
    <2> QED BY <1>1, <1>2, <1>3, <1>4, <2>1, <2>2, <2>3, Zenon
  <1> QED BY <1>7, <1>8, Zenon

\* a refused duplicate is not the only one that holds a nonce
LEMMA GivenBack ==
    ASSUME FlowInv, CountInv, Alone, NEW t \in Txs, decrementComputedNonce(t)
    PROVE  CountInv'
  <1>1. /\ txPc[t] = "duplicate" /\ txPc' = [txPc EXCEPT ![t] = "ErrTxAlreadySent"]
        /\ computedNonce' = IF computedNonce > 0 THEN computedNonce - 1 ELSE computedNonce
        /\ UNCHANGED <<computedNonceWasSet, refetches, foreigns, firstNonce, accountNonce>>
    BY Zenon DEF decrementComputedNonce, Goto, envVars, chainVars
  <1>2. t \in Holders /\ Holders' = Holders \ {t}
    BY <1>1, Zenon DEF Holders, HoldsNonce, FlowInv, Shape
  <1>3. IsFiniteSet(Holders') /\ Cardinality(Holders') = Cardinality(Holders) - 1
    BY <1>2, HoldersAreFinite, FS_RemoveElement, Zenon
  <1>4. PICK u \in Txs : Stored(u)
    BY <1>1, Zenon DEF FlowInv
  <1>5. u \in Holders'
    BY <1>1, <1>2, <1>4, Zenon DEF Stored, Holders, HoldsNonce
  <1>6. Cardinality(Holders') \in Nat /\ Cardinality(Holders') # 0
    BY <1>3, <1>5, FS_EmptySet, FS_CardinalityType, Zenon
  <1>7. computedNonceWasSet /\ computedNonce + 1 = firstNonce + Cardinality(Holders)
    BY <1>1, Zenon DEF CountInv
  <1>8. firstNonce \in Nat /\ computedNonce \in Nat
    BY FirstNoncesAreNatural, Zenon DEF FlowInv, Shape
  <1>9. computedNonce' + 1 = firstNonce + Cardinality(Holders')
    BY <1>1, <1>3, <1>6, <1>7, <1>8, HoldersAreFinite
  <1>10. computedNonceWasSet' /\ firstNonce' = firstNonce
    BY <1>1, <1>7, Zenon
  <1> QED BY <1>9, <1>10, Zenon DEF CountInv

LEMMA NextCount == ASSUME FlowInv, CountInv, [Next]_vars PROVE CountInv'
  <1> SUFFICES ASSUME Alone' PROVE CountInv'
    BY Zenon DEF CountInv
  <1>1. Alone
    BY DisturbedForGood, Zenon
  <1>2. CASE Quiet
    <2>1. Holders' = Holders
      BY <1>2, QuietHolders, Zenon
    <2>2. CASE ~computedNonceWasSet
      <3>1. accountNonce' = firstNonce'
        BY <1>1, <1>2, <2>2, NobodyHolds, Zenon DEF Quiet
      <3>2. \A t \in Txs : txPc'[t] \in {"new", "account", "getNonceFailed"}
        BY <1>1, <1>2, <2>2, Zenon DEF Quiet, CountInv
      <3>3. ~computedNonceWasSet'
        BY <1>2, <2>2, Zenon DEF Quiet
      <3> QED BY <3>1, <3>2, <3>3, Zenon DEF CountInv
    <2>3. CASE computedNonceWasSet
      <3>1. computedNonceWasSet' /\ computedNonce' = computedNonce /\ firstNonce' = firstNonce
        BY <1>2, <2>3, Zenon DEF Quiet
      <3> QED BY <1>1, <2>1, <2>3, <3>1, Zenon DEF CountInv
    <2> QED BY <2>2, <2>3, Zenon
  <1>3. ASSUME NEW t \in Txs, getNonceUpdatingCurrent(t) PROVE CountInv'
    <2>1. /\ Cardinality(Holders') = Cardinality(Holders) + 1
          /\ computedNonceWasSet' /\ computedNonce' = firstNonce + Cardinality(Holders)
          /\ firstNonce' = firstNonce
      BY <1>1, <1>3, HandedOut, Zenon
    <2>2. firstNonce \in Nat
      BY FirstNoncesAreNatural, Zenon DEF FlowInv, Shape
    <2>3. computedNonce' + 1 = firstNonce' + Cardinality(Holders')
      BY <2>1, <2>2, HoldersAreFinite
    <2> QED BY <2>1, <2>3, Zenon DEF CountInv
  <1>4. ASSUME NEW t \in Txs, decrementComputedNonce(t) PROVE CountInv'
    BY <1>1, <1>4, GivenBack, Zenon
  <1>5. CASE ForceNonceReFetch \/ ForeignTransaction
    <2>1. refetches \in Nat /\ foreigns \in Nat
      BY Zenon DEF FlowInv, Shape
    <2>2. refetches' = refetches + 1 \/ foreigns' = foreigns + 1
      BY <1>5, Zenon DEF ForceNonceReFetch, ForeignTransaction
    <2>3. ~Alone'
      BY <2>1, <2>2 DEF Alone
    <2> QED BY <2>3, Zenon DEF CountInv
  <1> QED BY <1>2, <1>3, <1>4, <1>5, QuietOrNot, Zenon

-----------------------------------------------------------------------------
(* The nonces                                                              *)

\* an undisturbed caller gets the next number
LEMMA NextNumber ==
    ASSUME FlowInv, CountInv, NonceInv, Undisturbed, NEW t \in Txs, getNonceUpdatingCurrent(t)
    PROVE  /\ t \notin Holders /\ Holders' = Holders \cup {t}
           /\ txNonce' = [txNonce EXCEPT ![t] = firstNonce + Cardinality(Holders)]
           /\ computedNonceWasSet' /\ computedNonce' = firstNonce + Cardinality(Holders)
           /\ \A u \in Holders : txNonce[u] < computedNonce'
           /\ accountNonce <= computedNonce'
           /\ UNCHANGED <<refetches, foreigns, firstNonce, accountNonce, transactions>>
           /\ \A u \in Txs : txPc'[u] = IF u = t THEN "hasNonce" ELSE txPc[u]
           /\ txPc[t] = "account"
  <1>1. Alone
    BY Zenon DEF Undisturbed, Alone
  <1>2. /\ t \notin Holders /\ Holders' = Holders \cup {t}
        /\ computedNonceWasSet' /\ computedNonce' = firstNonce + Cardinality(Holders)
        /\ txNonce' = [txNonce EXCEPT ![t] = MaxOf(computedNonce', txAccount[t])]
        /\ UNCHANGED <<refetches, foreigns, firstNonce, accountNonce, transactions>>
        /\ \A u \in Txs : txPc'[u] = IF u = t THEN "hasNonce" ELSE txPc[u]
        /\ txPc[t] = "account"
    BY <1>1, HandedOut, Zenon
  <1>3. firstNonce \in Nat /\ computedNonce \in Nat /\ accountNonce \in Nat /\ txNonce \in [Txs -> Nat]
    BY FirstNoncesAreNatural, Zenon DEF FlowInv, Shape
  <1>4. accountNonce <= computedNonce' /\ \A u \in Holders : txNonce[u] < computedNonce'
    <2>1. CASE ~computedNonceWasSet
      <3>1. Holders = {} /\ accountNonce = firstNonce
        BY <1>1, <2>1, NobodyHolds, Zenon
      <3>2. Cardinality(Holders) \in Nat
        BY HoldersAreFinite, Zenon
      <3>3. accountNonce <= computedNonce'
        BY <1>2, <1>3, <3>1, <3>2
      <3> QED BY <3>1, <3>3, Zenon
    <2>2. CASE computedNonceWasSet
      <3>1. computedNonce + 1 = firstNonce + Cardinality(Holders)
        BY <1>1, <2>2, Zenon DEF CountInv
      <3>2. computedNonce' = computedNonce + 1
        BY <1>2, <3>1, Zenon
      <3>3. accountNonce <= computedNonce + 1 /\ \A u \in Holders : txNonce[u] <= computedNonce /\ u \in Txs
        BY <2>2, Zenon DEF NonceInv, Holders
      <3> QED BY <1>3, <3>2, <3>3
    <2> QED BY <2>1, <2>2, Zenon
  <1>5. txAccount[t] <= accountNonce /\ txAccount[t] \in Nat
    BY <1>2, Zenon DEF FlowInv, Shape
  <1>6. MaxOf(computedNonce', txAccount[t]) = computedNonce'
    <2>1. computedNonce' \in Nat
      <3>1. Cardinality(Holders) \in Nat
        BY HoldersAreFinite, Zenon
      <3>2. computedNonce' = firstNonce + Cardinality(Holders)
        BY <1>2, Zenon
      <3> QED BY <1>3, <3>1, <3>2
    <2>2. computedNonce' >= txAccount[t]
      BY <1>3, <1>4, <1>5, <2>1
    <2> QED BY <2>2, Zenon DEF MaxOf
  <1> QED BY <1>2, <1>4, <1>6, Zenon

LEMMA NextNonces == ASSUME FlowInv, CountInv, NonceInv, [Next]_vars PROVE NonceInv'
  <1> SUFFICES ASSUME Undisturbed' PROVE NonceInv'
    BY Zenon DEF NonceInv
  <1>1. Undisturbed
    BY DisturbedForGood, Zenon
  <1>2. firstNonce \in Nat /\ computedNonce \in Nat /\ accountNonce \in Nat /\ txNonce \in [Txs -> Nat]
    BY FirstNoncesAreNatural, Zenon DEF FlowInv, Shape
  <1>3. CASE Quiet
    <2>1. Holders' = Holders
      BY <1>3, QuietHolders, Zenon
    <2>2. \A t \in Txs : Stored(t) => t \in Holders
      BY Zenon DEF Stored, Holders, HoldsNonce
    <2>3. ASSUME computedNonceWasSet' PROVE accountNonce' <= computedNonce' + 1
      <3>1. computedNonceWasSet /\ computedNonce' = computedNonce
        BY <1>3, <2>3, Zenon DEF Quiet
      <3>2. CASE UNCHANGED accountNonce
        BY <1>1, <3>1, <3>2, Zenon DEF NonceInv
      <3>3. CASE accountNonce' = accountNonce + 1 /\ \E t \in Txs : Stored(t) /\ txNonce[t] = accountNonce
        <4>1. accountNonce <= computedNonce
          BY <1>1, <2>2, <3>3, Zenon DEF NonceInv
        <4> QED BY <1>2, <3>1, <3>3, <4>1
      <3> QED BY <1>3, <3>2, <3>3, Zenon DEF Quiet
    <2>4. UNCHANGED <<txNonce, firstNonce, computedNonce>>
      BY <1>3, Zenon DEF Quiet
    <2> QED BY <1>1, <2>1, <2>3, <2>4, Zenon DEF NonceInv
  <1>4. ASSUME NEW t \in Txs, getNonceUpdatingCurrent(t) PROVE NonceInv'
    <2>1. /\ t \notin Holders /\ Holders' = Holders \cup {t}
          /\ txNonce' = [txNonce EXCEPT ![t] = computedNonce']
          /\ computedNonce' = firstNonce + Cardinality(Holders)
          /\ \A u \in Holders : txNonce[u] < computedNonce'
          /\ accountNonce <= computedNonce'
          /\ UNCHANGED <<firstNonce, accountNonce>>
      BY <1>1, <1>4, NextNumber, Zenon
    <2>2. computedNonce' \in Nat /\ firstNonce <= computedNonce'
      BY <1>2, <2>1, HoldersAreFinite
    <2>3. \A u \in Holders : u \in Txs /\ u # t /\ txNonce'[u] = txNonce[u] /\ txNonce[u] \in Nat
      BY <1>2, <2>1, Zenon DEF Holders
    <2>4. txNonce'[t] = computedNonce'
      BY <1>2, <2>1, Zenon
    <2>5. \A u \in Holders' : firstNonce' <= txNonce'[u] /\ txNonce'[u] <= computedNonce'
      BY <1>1, <1>2, <2>1, <2>2, <2>3, <2>4 DEF NonceInv
    <2>6. \A u, v \in Holders' : txNonce'[u] = txNonce'[v] => u = v
      BY <1>1, <2>1, <2>2, <2>3, <2>4 DEF NonceInv
    <2>7. accountNonce' <= computedNonce' + 1
      BY <1>2, <2>1, <2>2
    <2> QED BY <2>5, <2>6, <2>7, Zenon DEF NonceInv
  <1>5. ASSUME NEW t \in Txs, decrementComputedNonce(t) PROVE NonceInv'
    <2>1. txPc'[t] = "ErrTxAlreadySent"
      BY <1>5, Zenon DEF decrementComputedNonce, Goto, FlowInv, Shape
    <2> QED BY <2>1, Zenon DEF Undisturbed
  <1>6. CASE ForceNonceReFetch \/ ForeignTransaction
    <2>1. refetches = 0 /\ foreigns = 0 /\ refetches' = 0 /\ foreigns' = 0
      BY <1>1, Zenon DEF Undisturbed
    <2>2. refetches' = refetches + 1 \/ foreigns' = foreigns + 1
      BY <1>6, Zenon DEF ForceNonceReFetch, ForeignTransaction
    <2> QED BY <2>1, <2>2
  <1> QED BY <1>3, <1>4, <1>5, <1>6, QuietOrNot, Zenon

-----------------------------------------------------------------------------
(* The cache                                                               *)

LEMMA StoredHold == \A t \in Txs : Stored(t) => t \in Holders
  BY Zenon DEF Stored, Holders, HoldsNonce

\* no nonce beyond the count, so that there is room for it in the cache
LEMMA NoncesAreCounted ==
    ASSUME FlowInv, CountInv, NonceInv, Undisturbed, NEW t \in Holders
    PROVE  txNonce[t] \in Nonces /\ txNonce[t] <= computedNonce
  <1>1. Alone /\ t \in Txs /\ HoldsNonce(t)
    BY Zenon DEF Undisturbed, Alone, Holders
  <1>2. computedNonceWasSet
    BY <1>1, NobodyHolds, Zenon
  <1>3. /\ computedNonce + 1 = firstNonce + Cardinality(Holders)
        /\ firstNonce <= txNonce[t] /\ txNonce[t] <= computedNonce
    BY <1>1, <1>2, Zenon DEF CountInv, NonceInv
  <1>4. firstNonce \in Nat /\ firstNonce \in FirstNonces /\ computedNonce \in Nat /\ txNonce[t] \in Nat
    BY <1>1, FirstNoncesAreNatural, Zenon DEF FlowInv, Shape
  <1>5. txNonce[t] \in firstNonce..(firstNonce + Cardinality(Txs))
    BY <1>3, <1>4, HoldersAreFinite
  <1> QED BY <1>3, <1>4, <1>5, NoncesSuffice, Zenon

LEMMA Disturbing ==
    ASSUME FlowInv, ForceNonceReFetch \/ ForeignTransaction
    PROVE  ~Undisturbed'
  <1>1. refetches \in Nat /\ foreigns \in Nat
    BY Zenon DEF FlowInv, Shape
  <1>2. refetches' = refetches + 1 \/ foreigns' = foreigns + 1
    BY Zenon DEF ForceNonceReFetch, ForeignTransaction
  <1>3. refetches' # 0 \/ foreigns' # 0
    BY <1>1, <1>2
  <1> QED BY <1>3, SMTT(30) DEF Undisturbed

LEMMA NextCache == ASSUME FlowInv, CountInv, NonceInv, CacheInv, [Next]_vars PROVE CacheInv'
  <1> SUFFICES ASSUME Undisturbed' PROVE CacheInv'
    BY Zenon DEF CacheInv
  <1>1. Undisturbed
    BY DisturbedForGood, Zenon
  <1>2. accountNonce \in Nat /\ computedNonce \in Nat /\ txNonce \in [Txs -> Nat] /\ transactions \in [Nonces -> Txs \cup {NoTx}]
    BY Zenon DEF FlowInv, Shape
  <1> USE DEF chainVars, anhVars, callerVars, resendVars, envVars
  \* the cache is left alone, and nobody is said to be stored
  <1>3. ASSUME UNCHANGED transactions, accountNonce' \in {accountNonce, accountNonce + 1},
               \A t \in Txs : Stored(t)' => Stored(t) /\ txNonce'[t] = txNonce[t]
        PROVE  CacheInv'
    <2>1. ASSUME NEW t \in Txs, Stored(t)', txNonce'[t] > accountNonce' PROVE transactions'[txNonce'[t]] = t
      <3>1. Stored(t) /\ txNonce'[t] = txNonce[t] /\ txNonce[t] > accountNonce
        BY <1>2, <1>3, <2>1
      <3> QED BY <1>1, <1>3, <3>1, Zenon DEF CacheInv
    <2> QED BY <2>1, SMTT(30) DEF CacheInv
  <1>4. ASSUME NEW t \in Txs, getNonceUpdatingCurrent(t) PROVE CacheInv'
    <2>1. /\ UNCHANGED <<transactions, accountNonce>>
          /\ txNonce' = [txNonce EXCEPT ![t] = firstNonce + Cardinality(Holders)]
          /\ \A u \in Txs : txPc'[u] = IF u = t THEN "hasNonce" ELSE txPc[u]
      BY <1>1, <1>4, NextNumber, Zenon
    <2>2. \A u \in Txs : Stored(u)' => Stored(u) /\ txNonce'[u] = txNonce[u]
      BY <1>2, <2>1, Zenon DEF Stored
    <2> QED BY <1>3, <2>1, <2>2, SMTT(30)
  <1>5. ASSUME NEW t \in Txs,
               \/ GetAccount(t) \/ getOrCreateAddressNonceHandler(t) \/ isTxAlreadySent(t)
               \/ decrementComputedNonce(t) \/ ProxySendTransaction(t)
        PROVE  CacheInv'
    <2>1. UNCHANGED <<transactions, accountNonce, txNonce>>
      BY <1>5, Zenon DEF GetAccount, getOrCreateAddressNonceHandler, isTxAlreadySent, decrementComputedNonce,
                  ProxySendTransaction, Admit
    <2>2. PICK label : /\ Goto(t, label)
                       /\ label \in {"proxy", "sent", "sendFailed"} => Stored(t)
      <3>1. CASE GetAccount(t)
        BY <3>1 DEF GetAccount
      <3>2. CASE getOrCreateAddressNonceHandler(t)
        BY <3>2 DEF getOrCreateAddressNonceHandler
      <3>3. CASE isTxAlreadySent(t)
        BY <3>3 DEF isTxAlreadySent
      <3>4. CASE decrementComputedNonce(t)
        BY <3>4 DEF decrementComputedNonce
      <3>5. CASE ProxySendTransaction(t)
        BY <3>5, Zenon DEF ProxySendTransaction, Stored
      <3> QED BY <1>5, <3>1, <3>2, <3>3, <3>4, <3>5, Zenon
    <2>3. \A u \in Txs : Stored(u)' => Stored(u)
      BY <2>2, Zenon DEF Stored, Goto, FlowInv, Shape
    <2> QED BY <1>3, <2>1, <2>3, SMTT(30)
  <1>6. ASSUME NEW t \in Txs, sendTransaction(t) PROVE CacheInv'
    <2>1. /\ UNCHANGED <<txNonce, accountNonce>> /\ txPc[t] = "store"
          /\ txPc' = [txPc EXCEPT ![t] = "proxy"]
          /\ transactions' = [transactions EXCEPT ![txNonce[t]] = t]
      BY <1>6, Zenon DEF sendTransaction, Goto
    <2>2. t \in Holders
      BY <2>1, Zenon DEF Holders, HoldsNonce
    <2>3. txNonce[t] \in Nonces
      BY <1>1, <2>2, NoncesAreCounted, Zenon
    <2>4. ASSUME NEW u \in Txs, Stored(u)', txNonce[u] > accountNonce PROVE transactions'[txNonce[u]] = u
      <3>1. CASE u = t
        BY <1>2, <2>1, <2>3, <3>1, Zenon
      <3>2. CASE u # t
        <4>1. Stored(u)
          BY <2>1, <2>4, <3>2, Zenon DEF Stored, FlowInv, Shape
        <4>2. txNonce[u] # txNonce[t]
          BY <1>1, <2>2, <3>2, <4>1, StoredHold DEF NonceInv
        <4>3. txNonce[u] \in Nonces /\ transactions[txNonce[u]] = u
          BY <1>1, <2>4, <4>1, StoredHold, NoncesAreCounted DEF CacheInv
        <4> QED BY <1>2, <2>1, <4>2, <4>3, Zenon
      <3> QED BY <3>1, <3>2, Zenon
    <2> QED BY <2>1, <2>4, Zenon DEF CacheInv
  <1>7. CASE reSendTransactionsIfRequired
    <2>1. UNCHANGED <<txNonce, accountNonce, txPc>> /\ resendAccount <= accountNonce /\ resendAccount \in Nat
      BY <1>7, Zenon DEF reSendTransactionsIfRequired, FlowInv, Shape
    <2>2. ASSUME NEW u \in Txs, Stored(u), txNonce[u] > accountNonce PROVE transactions'[txNonce[u]] = u
      <3>1. /\ txNonce[u] \in Nonces /\ txNonce[u] <= computedNonce /\ txNonce[u] \in Nat
            /\ transactions[txNonce[u]] = u
        BY <1>1, <1>2, <2>2, StoredHold, NoncesAreCounted, Zenon DEF CacheInv
      <3>2. resendAccount # computedNonce /\ Keep(txNonce[u])
        BY <1>2, <2>1, <2>2, <3>1, NoTxIsNoTx, SMTT(30) DEF Keep
      <3>3. transactions' = [n \in Nonces |-> IF Keep(n) THEN transactions[n] ELSE NoTx]
        BY <1>7, <3>2, Zenon DEF reSendTransactionsIfRequired
      <3> QED BY <3>1, <3>2, <3>3, Zenon
    <2> QED BY <2>1, <2>2, SMTT(30) DEF CacheInv, Stored
  <1>8. CASE ResendGetAccount \/ ResendTransactions \/ Close \/ ChainStep \/ UNCHANGED vars
    <2>1. UNCHANGED <<transactions, txNonce, txPc>> /\ accountNonce' \in {accountNonce, accountNonce + 1}
      BY <1>8, Zenon DEF ResendGetAccount, ResendTransactions, Admit, Close, ChainStep, Execute, vars
    <2> QED BY <1>3, <2>1, Zenon DEF Stored
  <1>9. CASE ForceNonceReFetch \/ ForeignTransaction
    BY <1>9, Disturbing, Zenon
  <1> QED BY <1>4, <1>5, <1>6, <1>7, <1>8, <1>9, SMTT(30) DEF Next, CallerStep

LEMMA NextInv == IInv /\ [Next]_vars => IInv'
  BY NextFlow, NextCount, NextNonces, NextCache, Zenon DEF IInv

-----------------------------------------------------------------------------

\* getNonceUpdatingCurrent and decrementComputedNonce: whatever the
\* interleaving of any number of callers, the counter counts the
\* transactions that hold a nonce, the refused duplicates aside.
THEOREM RefusalAlwaysReturnsNonce == Spec => []RefusalReturnsNonce
  <1>1. IInv => RefusalReturnsNonce
    BY Zenon DEF IInv, CountInv, Alone, Holders, RefusalReturnsNonce
  <1> QED BY <1>1, InitInv, NextInv, PTL DEF Spec

\* reSendTransactionsIfRequired never drops a transaction that the chain
\* has not reached yet, although it uses an account that may be stale.
THEOREM WaitingAlwaysStored == Spec => []WaitingIsStored
  <1>1. IInv => WaitingIsStored
    <2> SUFFICES ASSUME IInv, Undisturbed, NEW p \in pool, p.nonce > accountNonce
                 PROVE  transactions[p.nonce] = p.tx
      BY Zenon DEF WaitingIsStored
    <2>1. p.tx \in Txs /\ Stored(p.tx) /\ p.nonce = txNonce[p.tx]
      BY Zenon DEF IInv, FlowInv, Carried
    <2> QED BY <2>1, Zenon DEF IInv, CacheInv
  <1> QED BY <1>1, InitInv, NextInv, PTL DEF Spec

LEMMA SameCardinality == \A S : Source!Cardinality(S) = Cardinality(S)
  BY Zenon DEF Source!Cardinality, Cardinality

\* what NonceSource calls held
Held == [t \in Txs |-> IF HoldsNonce(t) THEN txNonce[t] ELSE -1]

LEMMA HoldingAreHolders == ASSUME FlowInv PROVE Source!Holding = Holders
  <1>1. \A t \in Txs : txNonce[t] \in Nat
    BY Zenon DEF FlowInv, Shape
  <1> QED BY <1>1 DEF Source!Holding, Source!NoNonce, Holders

\* The handler implements NonceSource: until a duplicate is refused, a
\* re-fetch is forced or another program uses the account, concurrent
\* callers of GetNonce get the account's nonce and the numbers after it.
THEOREM ImplementsNonceSource == Spec => NoncesFollowEachOther
  <1>1. Init => Source!SourceInit
    <2> SUFFICES ASSUME Init PROVE Source!SourceInit
      BY Zenon
    <2>1. Undisturbed /\ \A t \in Txs : ~HoldsNonce(t)
      BY Zenon DEF Init, Undisturbed, HoldsNonce
    <2>2. firstNonce \in Nat /\ accountNonce = firstNonce
      BY FirstNoncesAreNatural, Zenon DEF Init, ChainInit
    <2> QED BY <2>1, <2>2, Zenon DEF Source!SourceInit, Source!NoNonce
  <1>2. IInv /\ [Next]_vars => [Source!SourceNext]_(Source!sourceVars)
    <2> SUFFICES ASSUME IInv, [Next]_vars PROVE [Source!SourceNext]_(Source!sourceVars)
      BY Zenon
    <2>1. FlowInv /\ CountInv /\ NonceInv
      BY SMTT(30) DEF IInv
    <2>2. firstNonce' = firstNonce
      BY <2>1, QuietOrNot, Zenon
      DEF Quiet, getNonceUpdatingCurrent, decrementComputedNonce, ForceNonceReFetch, ForeignTransaction, chainVars
    <2>3. CASE ~Undisturbed'
      BY <2>2, <2>3, Zenon DEF Source!SourceNext, Source!Disturb
    <2>4. CASE Undisturbed'
      <3>1. Undisturbed
        BY <2>1, <2>4, DisturbedForGood, Zenon
      <3>2. UNCHANGED (~Undisturbed)
        BY <2>4, <3>1, Zenon
      <3>3. Source!Holding = Holders
        BY <2>1, HoldingAreHolders, Zenon
      <3>4. ASSUME NEW t \in Txs, getNonceUpdatingCurrent(t) PROVE Source!HandOut(t)
        <4>1. /\ t \notin Holders
              /\ txNonce' = [txNonce EXCEPT ![t] = firstNonce + Cardinality(Holders)]
              /\ UNCHANGED <<firstNonce, accountNonce>>
              /\ \A u \in Txs : txPc'[u] = IF u = t THEN "hasNonce" ELSE txPc[u]
          BY <2>1, <3>1, <3>4, NextNumber, Zenon
        <4>2. \A u \in Txs : HoldsNonce(u)' <=> (u = t \/ HoldsNonce(u))
          BY <4>1, Zenon DEF HoldsNonce
        <4>3. \A u \in Txs : txNonce'[u] = IF u = t THEN firstNonce + Cardinality(Holders) ELSE txNonce[u]
          BY <2>1, <4>1, Zenon DEF FlowInv, Shape
        <4>4. Held' = [Held EXCEPT ![t] = firstNonce + Cardinality(Holders)]
          BY <4>2, <4>3, Zenon DEF Held
        <4> QED BY <3>1, <3>2, <3>3, <4>1, <4>4, SameCardinality, Zenon DEF Source!HandOut, Held
      <3>5. CASE Quiet
        <4>1. Held' = Held
          BY <3>5, Zenon DEF Quiet, Held
        <4>2. CASE UNCHANGED accountNonce
          BY <2>2, <3>2, <4>1, <4>2, Zenon DEF Source!sourceVars, Held
        <4>3. CASE accountNonce' = accountNonce + 1 /\ \E t \in Txs : Stored(t) /\ txNonce[t] = accountNonce
          <5>1. PICK t \in Txs : Stored(t) /\ txNonce[t] = accountNonce
            BY <4>3, Zenon
          <5>2. t \in Holders /\ Held[t] = accountNonce
            BY <5>1, Zenon DEF Stored, Holders, HoldsNonce, Held
          <5> QED BY <2>2, <3>1, <3>2, <3>3, <4>1, <4>3, <5>2, Zenon
                  DEF Source!SourceNext, Source!Use, Held
        <4> QED BY <3>5, <4>2, <4>3, Zenon DEF Quiet
      <3>6. ASSUME NEW t \in Txs, decrementComputedNonce(t) PROVE FALSE
        <4>1. txPc'[t] = "ErrTxAlreadySent"
          BY <2>1, <3>6, Zenon DEF decrementComputedNonce, Goto, FlowInv, Shape
        <4> QED BY <2>4, <4>1, Zenon DEF Undisturbed
      <3>7. CASE ForceNonceReFetch \/ ForeignTransaction
        BY <2>1, <2>4, <3>7, Disturbing, Zenon
      <3> QED BY <2>1, <3>4, <3>5, <3>6, <3>7, QuietOrNot, Zenon DEF Source!SourceNext
    <2> QED BY <2>3, <2>4, Zenon
  <1> QED BY <1>1, <1>2, InitInv, NextInv, PTL DEF Spec, NoncesFollowEachOther, Source!SourceSpec
=============================================================================
