------------------------ MODULE NonceHandlerV2Proofs ------------------------
(***************************************************************************)
(* Proofs about NonceHandlerV2, for any finite set of transactions and any *)
(* bounds on the environment.                                              *)
(***************************************************************************)
EXTENDS NonceHandlerV2, FiniteSetTheorems, TLAPS

Labels == BeforeNonce \cup {"gas", "config", "price", "applied", "store", "proxy", "sent", "sendFailed"}

\* SendTransaction has put the transaction into the cache
Handed(t) == txPc[t] \in {"proxy", "sent", "sendFailed"}

Carried(t, n) == t \in Txs /\ Handed(t) /\ n = txNonce[t]

-----------------------------------------------------------------------------
(* What holds whatever disturbs the count: a caller has read an account    *)
(* that the chain has reached, and what is cached, pooled or to be resent  *)
(* was handed over and carries its transaction's nonce.                    *)

Shape ==
    /\ firstNonce \in FirstNonces /\ accountNonce \in Nat /\ firstNonce <= accountNonce
    /\ computedNonce \in Nat /\ computedNonceWasSet \in BOOLEAN
    /\ txPc \in [Txs -> Labels]
    /\ txAccount \in [Txs -> Nat]
    /\ txNonce \in [Txs -> Nat]
    /\ drops \in Nat

AccountInv ==
    \A t \in Txs : txPc[t] \in {"account", "noGap"} =>
        firstNonce <= txAccount[t] /\ txAccount[t] <= accountNonce

ItemsInv ==
    /\ transactions \in [Nonces -> Txs \cup {NoTx}]
    /\ \A n \in Nonces : transactions[n] # NoTx => Carried(transactions[n], n)
    /\ \A p \in pool : Carried(p.tx, p.nonce)
    /\ \A p \in resendableTxs : Carried(p.tx, p.nonce)

(* The count and the nonces, until the transactions are dropped            *)

Holders == {t \in Txs : HoldsNonce(t)}

CountInv ==
    drops = 0 =>
        /\ ~computedNonceWasSet => accountNonce = firstNonce /\ Holders = {}
        /\ computedNonceWasSet => computedNonce + 1 = firstNonce + Cardinality(Holders)

NonceInv ==
    drops = 0 =>
        /\ computedNonceWasSet => accountNonce <= computedNonce + 1
        /\ \A t \in Holders : firstNonce <= txNonce[t] /\ txNonce[t] <= computedNonce

IInv == Shape /\ AccountInv /\ ItemsInv /\ CountInv /\ NonceInv

LEMMA HoldersAreFinite ==
    /\ IsFiniteSet(Holders) /\ Cardinality(Holders) \in Nat
  <1>1. Holders \in SUBSET Txs
    BY Zenon DEF Holders
  <1> QED BY <1>1, TxsAreFinite, FS_Subset, FS_CardinalityType, Zenon

LEMMA InitInv == Init => IInv
  <1> SUFFICES ASSUME Init PROVE IInv
    BY Zenon
  <1>1. Shape
    <2>1. firstNonce \in FirstNonces /\ accountNonce = firstNonce /\ firstNonce \in Nat
      BY FirstNoncesAreNatural, Zenon DEF Init, ChainInit
    <2>2. txPc \in [Txs -> Labels] /\ txAccount \in [Txs -> Nat] /\ txNonce \in [Txs -> Nat]
      BY Zenon DEF Init, Labels, BeforeNonce
    <2>3. computedNonce \in Nat /\ computedNonceWasSet \in BOOLEAN /\ drops \in Nat
      BY Zenon DEF Init
    <2> QED BY <2>1, <2>2, <2>3 DEF Shape
  <1>2. AccountInv
    BY Zenon DEF Init, AccountInv
  <1>3. ItemsInv
    BY Zenon DEF Init, ChainInit, ItemsInv
  <1>4. Holders = {}
    BY Zenon DEF Init, Holders, HoldsNonce, BeforeNonce
  <1>5. CountInv /\ NonceInv
    BY <1>4, Zenon DEF Init, ChainInit, CountInv, NonceInv
  <1> QED BY <1>1, <1>2, <1>3, <1>5, Zenon DEF IInv

-----------------------------------------------------------------------------
(* Steps that give no transaction its nonce.  A transaction without one    *)
(* may get a provisional nonce from its caller or from an error.           *)

Quiet ==
    /\ UNCHANGED <<computedNonce, computedNonceWasSet, firstNonce, drops>>
    /\ txPc' \in [Txs -> Labels] /\ txAccount' \in [Txs -> Nat] /\ txNonce' \in [Txs -> Nat]
    /\ \A t \in Txs :
        /\ HoldsNonce(t)' <=> HoldsNonce(t)
        /\ Handed(t) => Handed(t)'
        /\ HoldsNonce(t) => txNonce'[t] = txNonce[t]
        /\ txPc'[t] \in {"account", "noGap"} =>
              firstNonce <= txAccount'[t] /\ txAccount'[t] <= accountNonce
    /\ \/ UNCHANGED accountNonce
       \/ /\ accountNonce' = accountNonce + 1
          /\ \E t \in Txs : HoldsNonce(t) /\ txNonce[t] = accountNonce

\* a step of one caller
Moves(t, label) ==
    /\ Goto(t, label)
    /\ label \in Labels
    /\ label \in BeforeNonce <=> txPc[t] \in BeforeNonce
    /\ Handed(t) => label \in {"sent", "sendFailed"}
    /\ txAccount' \in [Txs -> Nat] /\ txNonce' \in [Txs -> Nat]
    /\ \A u \in Txs : u # t => txAccount'[u] = txAccount[u] /\ txNonce'[u] = txNonce[u]
    /\ label \notin BeforeNonce => txNonce'[t] = txNonce[t]
    /\ label \in {"account", "noGap"} => firstNonce <= txAccount'[t] /\ txAccount'[t] <= accountNonce
    /\ UNCHANGED <<computedNonce, computedNonceWasSet, firstNonce, accountNonce, drops>>

LEMMA MovesAreQuiet ==
    ASSUME Shape, AccountInv, NEW t \in Txs, NEW label, Moves(t, label)
    PROVE  Quiet
  <1>1. \A u \in Txs : txPc'[u] = IF u = t THEN label ELSE txPc[u]
    BY Zenon DEF Shape, Moves, Goto
  <1>2. txPc' \in [Txs -> Labels]
    BY Zenon DEF Shape, Moves, Goto
  <1>3. ASSUME NEW u \in Txs
        PROVE  /\ HoldsNonce(u)' <=> HoldsNonce(u)
               /\ Handed(u) => Handed(u)'
               /\ HoldsNonce(u) => txNonce'[u] = txNonce[u]
               /\ txPc'[u] \in {"account", "noGap"} =>
                     firstNonce <= txAccount'[u] /\ txAccount'[u] <= accountNonce
    <2>1. CASE u = t
      <3>1. txPc'[t] = label
        BY <1>1, Zenon
      <3>2. HoldsNonce(t)' <=> HoldsNonce(t)
        BY <3>1, Zenon DEF Moves, HoldsNonce
      <3>3. Handed(t) => Handed(t)'
        BY <3>1, Zenon DEF Moves, Handed
      <3>4. HoldsNonce(t) => txNonce'[t] = txNonce[t]
        BY Zenon DEF Moves, HoldsNonce
      <3>5. txPc'[t] \in {"account", "noGap"} => firstNonce <= txAccount'[t] /\ txAccount'[t] <= accountNonce
        BY <3>1, Zenon DEF Moves
      <3> QED BY <2>1, <3>2, <3>3, <3>4, <3>5, Zenon
    <2>2. CASE u # t
      <3>1. txPc'[u] = txPc[u] /\ txAccount'[u] = txAccount[u] /\ txNonce'[u] = txNonce[u]
        BY <1>1, <2>2, Zenon DEF Moves
      <3> QED BY <3>1, Zenon DEF HoldsNonce, Handed, AccountInv
    <2> QED BY <2>1, <2>2, Zenon
  <1>4. /\ UNCHANGED <<computedNonce, computedNonceWasSet, firstNonce, drops, accountNonce>>
        /\ txAccount' \in [Txs -> Nat] /\ txNonce' \in [Txs -> Nat]
    BY Zenon DEF Moves
  <1> QED BY <1>2, <1>3, <1>4, Zenon DEF Quiet

LEMMA NewTransactionMoves ==
    ASSUME Shape, NEW t \in Txs, NewTransaction(t)
    PROVE  Moves(t, "new")
  <1>1. /\ Goto(t, "new") /\ txPc[t] = "none"
        /\ UNCHANGED <<txAccount, computedNonce, computedNonceWasSet, firstNonce, accountNonce, drops>>
    BY Zenon DEF NewTransaction, chainVars, anhVars, nonceVars, envVars
  <1>2. \E n \in Nat : txNonce' = [txNonce EXCEPT ![t] = n]
    <2>1. PICK args \in {<<0, 0>>, <<accountNonce, MinGasPrice>>} : txNonce' = [txNonce EXCEPT ![t] = args[1]]
      BY Zenon DEF NewTransaction
    <2>2. args[1] \in Nat
      BY DEF Shape
    <2> QED BY <2>1, <2>2, Zenon
  <1>3. txNonce' \in [Txs -> Nat] /\ \A u \in Txs : u # t => txNonce'[u] = txNonce[u]
    BY <1>2, Zenon DEF Shape
  <1> QED BY <1>1, <1>3, Zenon DEF Moves, Labels, BeforeNonce, Handed, Shape

LEMMA AccountMoves ==
    ASSUME Shape, AccountInv, NEW t \in Txs, GetAccount(t) \/ GetAccountFails(t) \/ DetectGap(t)
    PROVE  \E label \in BeforeNonce : Moves(t, label)
  <1>1. UNCHANGED <<computedNonce, computedNonceWasSet, firstNonce, accountNonce, drops>>
    BY Zenon DEF GetAccount, GetAccountFails, DetectGap, chainVars, anhVars, nonceVars, envVars
  <1>2. CASE GetAccount(t)
    <2>1. /\ Goto(t, "account") /\ txPc[t] = "apply" /\ UNCHANGED txNonce
          /\ txAccount' = [txAccount EXCEPT ![t] = accountNonce]
      BY <1>2, Zenon DEF GetAccount
    <2>2. /\ txAccount' \in [Txs -> Nat] /\ txAccount'[t] = accountNonce
          /\ \A u \in Txs : u # t => txAccount'[u] = txAccount[u]
      BY <2>1, Zenon DEF Shape
    <2>3. firstNonce <= txAccount'[t] /\ txAccount'[t] <= accountNonce
      BY <2>2 DEF Shape
    <2>4. Moves(t, "account")
      BY <1>1, <2>1, <2>2, <2>3, Zenon DEF Moves, Labels, BeforeNonce, Handed, Shape
    <2> QED BY <2>4, Zenon DEF BeforeNonce
  <1>3. CASE GetAccountFails(t)
    <2>1. /\ Goto(t, "getAccountFailed") /\ txPc[t] = "apply" /\ UNCHANGED txAccount
          /\ txNonce' = [txNonce EXCEPT ![t] = 0]
      BY <1>3, Zenon DEF GetAccountFails
    <2>2. txNonce' \in [Txs -> Nat] /\ \A u \in Txs : u # t => txNonce'[u] = txNonce[u]
      BY <2>1, Zenon DEF Shape
    <2>3. Moves(t, "getAccountFailed")
      BY <1>1, <2>1, <2>2, Zenon DEF Moves, Labels, BeforeNonce, Handed, Shape
    <2> QED BY <2>3, Zenon DEF BeforeNonce
  <1>4. CASE DetectGap(t)
    <2>1. txPc[t] = "account" /\ UNCHANGED txAccount
      BY <1>4, Zenon DEF DetectGap
    <2>2. CASE txNonce' = [txNonce EXCEPT ![t] = txAccount[t]] /\ Goto(t, "ErrGapNonce")
      <3>1. txNonce' \in [Txs -> Nat] /\ \A u \in Txs : u # t => txNonce'[u] = txNonce[u]
        BY <2>2, Zenon DEF Shape
      <3>2. Moves(t, "ErrGapNonce")
        BY <1>1, <2>1, <2>2, <3>1, Zenon DEF Moves, Labels, BeforeNonce, Handed, Shape
      <3> QED BY <3>2, Zenon DEF BeforeNonce
    <2>3. CASE Goto(t, "noGap") /\ UNCHANGED txNonce
      <3>1. firstNonce <= txAccount'[t] /\ txAccount'[t] <= accountNonce
        BY <2>1, Zenon DEF AccountInv
      <3>2. Moves(t, "noGap")
        BY <1>1, <2>1, <2>3, <3>1, Zenon DEF Moves, Labels, BeforeNonce, Handed, Shape
      <3> QED BY <3>2, Zenon DEF BeforeNonce
    <2> QED BY <1>4, <2>2, <2>3, Zenon DEF DetectGap
  <1> QED BY <1>2, <1>3, <1>4, Zenon

\* steps that change no nonce and no account of any transaction
LEMMA LabelMoves ==
    ASSUME Shape, NEW t \in Txs,
           \/ handleTxWithSameNonce(t) \/ fetchGasPriceIfRequired(t) \/ GetNetworkConfig(t) \/ ApplyGasPrice(t)
           \/ Retry(t) \/ getOrCreateAddressNonceHandler(t) \/ SendTransaction(t) \/ ProxySendTransaction(t)
    PROVE  \E label \in Labels : Moves(t, label)
  <1>1. UNCHANGED <<txAccount, txNonce, computedNonce, computedNonceWasSet, firstNonce, accountNonce, drops>>
    <2> USE DEF txVars, chainVars, anhVars, nonceVars, envVars
    <2>1. CASE handleTxWithSameNonce(t) \/ fetchGasPriceIfRequired(t) \/ Retry(t) \/ getOrCreateAddressNonceHandler(t)
      BY <2>1, Zenon DEF handleTxWithSameNonce, fetchGasPriceIfRequired, Retry, getOrCreateAddressNonceHandler
    <2>2. CASE GetNetworkConfig(t) \/ ApplyGasPrice(t) \/ SendTransaction(t)
      BY <2>2, Zenon DEF GetNetworkConfig, ApplyGasPrice, SendTransaction
    <2>3. CASE ProxySendTransaction(t)
      BY <2>3, Zenon DEF ProxySendTransaction, Admit
    <2> QED BY <2>1, <2>2, <2>3, Zenon
  <1>2. ASSUME NEW label \in Labels, Goto(t, label), label \in BeforeNonce <=> txPc[t] \in BeforeNonce,
               Handed(t) => label \in {"sent", "sendFailed"}, label \notin {"account", "noGap"}
        PROVE  \E l \in Labels : Moves(t, l)
    <2>1. Moves(t, label)
      BY <1>1, <1>2, Zenon DEF Moves, Shape
    <2> QED BY <2>1, Zenon
  <1> USE DEF Labels, BeforeNonce, Handed
  <1>3. CASE handleTxWithSameNonce(t)
    BY <1>2, <1>3, Zenon DEF handleTxWithSameNonce
  <1>4. CASE fetchGasPriceIfRequired(t)
    BY <1>2, <1>4, Zenon DEF fetchGasPriceIfRequired
  <1>5. CASE GetNetworkConfig(t)
    BY <1>2, <1>5, Zenon DEF GetNetworkConfig
  <1>6. CASE ApplyGasPrice(t)
    BY <1>2, <1>6, Zenon DEF ApplyGasPrice
  <1>7. CASE Retry(t)
    BY <1>2, <1>7, Zenon DEF Retry
  <1>8. CASE getOrCreateAddressNonceHandler(t)
    BY <1>2, <1>8, Zenon DEF getOrCreateAddressNonceHandler
  <1>9. CASE SendTransaction(t)
    BY <1>2, <1>9, Zenon DEF SendTransaction
  <1>10. CASE ProxySendTransaction(t)
    BY <1>2, <1>10, Zenon DEF ProxySendTransaction
  <1> QED BY <1>3, <1>4, <1>5, <1>6, <1>7, <1>8, <1>9, <1>10, Zenon

\* every step but two
Rest ==
    \/ ResendGetAccount \/ ReSendTransactionsIfRequired \/ ResendSucceeds \/ ResendFails
    \/ Close \/ NetworkLoses \/ UNCHANGED vars

LEMMA RestIsQuiet ==
    ASSUME Shape, AccountInv, Rest
    PROVE  Quiet
  <1>1. UNCHANGED <<txPc, txAccount, txNonce, computedNonce, computedNonceWasSet, firstNonce, accountNonce, drops>>
    <2> USE DEF txVars, chainVars, anhVars, nonceVars, envVars, callerVars
    <2>1. CASE ResendGetAccount
      BY <2>1, Zenon DEF ResendGetAccount
    <2>2. CASE ReSendTransactionsIfRequired
      BY <2>2, Zenon DEF ReSendTransactionsIfRequired
    <2>3. CASE ResendSucceeds \/ ResendFails
      BY <2>3, Zenon DEF ResendSucceeds, ResendFails, Admit
    <2>4. CASE Close
      BY <2>4, Zenon DEF Close
    <2>5. CASE NetworkLoses
      BY <2>5, Zenon DEF NetworkLoses, Lose
    <2>6. CASE UNCHANGED vars
      BY <2>6, Zenon DEF vars
    <2> QED BY <2>1, <2>2, <2>3, <2>4, <2>5, <2>6, Zenon DEF Rest
  <1>2. \A t \in Txs :
            /\ HoldsNonce(t)' <=> HoldsNonce(t)
            /\ Handed(t) => Handed(t)'
            /\ HoldsNonce(t) => txNonce'[t] = txNonce[t]
            /\ txPc'[t] \in {"account", "noGap"} =>
                  firstNonce <= txAccount'[t] /\ txAccount'[t] <= accountNonce
    BY <1>1, Zenon DEF HoldsNonce, Handed, AccountInv
  <1>3. txPc' \in [Txs -> Labels] /\ txAccount' \in [Txs -> Nat] /\ txNonce' \in [Txs -> Nat]
    BY <1>1, Zenon DEF Shape
  <1> QED BY <1>1, <1>2, <1>3, Zenon DEF Quiet

LEMMA ChainIsQuiet ==
    ASSUME Shape, AccountInv, ItemsInv, ChainStep
    PROVE  Quiet
  <1>1. UNCHANGED <<txPc, txAccount, txNonce, computedNonce, computedNonceWasSet, firstNonce, drops>>
    BY Zenon DEF ChainStep, Execute, txVars, anhVars, nonceVars, envVars, callerVars
  <1>2. PICK p \in pool : p.nonce = accountNonce /\ accountNonce' = accountNonce + 1
    BY Zenon DEF ChainStep, Execute
  <1>3. p.tx \in Txs /\ HoldsNonce(p.tx) /\ txNonce[p.tx] = accountNonce
    BY <1>2, Zenon DEF ItemsInv, Carried, Handed, HoldsNonce, BeforeNonce
  <1>4. \A t \in Txs :
            /\ HoldsNonce(t)' <=> HoldsNonce(t)
            /\ Handed(t) => Handed(t)'
            /\ HoldsNonce(t) => txNonce'[t] = txNonce[t]
            /\ txPc'[t] \in {"account", "noGap"} =>
                  firstNonce <= txAccount'[t] /\ txAccount'[t] <= accountNonce
    BY <1>1, Zenon DEF HoldsNonce, Handed, AccountInv
  <1>5. txPc' \in [Txs -> Labels] /\ txAccount' \in [Txs -> Nat] /\ txNonce' \in [Txs -> Nat]
    BY <1>1, Zenon DEF Shape
  <1> QED BY <1>1, <1>2, <1>3, <1>4, <1>5, Zenon DEF Quiet

LEMMA QuietOrNot ==
    ASSUME Shape, AccountInv, ItemsInv, [Next]_vars
    PROVE  Quiet \/ (\E t \in Txs : getNonceUpdatingCurrent(t)) \/ DropTransactions
  <1>1. ASSUME NEW t \in Txs, NewTransaction(t) \/ ApplyStep(t) \/ GetAccountFails(t) \/ SendStep(t)
        PROVE  Quiet \/ getNonceUpdatingCurrent(t)
    <2>1. CASE NewTransaction(t)
      BY <2>1, NewTransactionMoves, MovesAreQuiet, Zenon
    <2>2. CASE GetAccount(t) \/ GetAccountFails(t) \/ DetectGap(t)
      BY <2>2, AccountMoves, MovesAreQuiet, Zenon
    <2>3. CASE \/ handleTxWithSameNonce(t) \/ fetchGasPriceIfRequired(t) \/ GetNetworkConfig(t) \/ ApplyGasPrice(t)
               \/ Retry(t) \/ getOrCreateAddressNonceHandler(t) \/ SendTransaction(t) \/ ProxySendTransaction(t)
      BY <2>3, LabelMoves, MovesAreQuiet, Zenon
    <2> QED BY <1>1, <2>1, <2>2, <2>3, Zenon DEF ApplyStep, SendStep
  <1>2. CASE Rest
    BY <1>2, RestIsQuiet, Zenon
  <1>3. CASE ChainStep
    BY <1>3, ChainIsQuiet, Zenon
  <1> QED BY <1>1, <1>2, <1>3, Zenon DEF Next, ResendStep, Rest

-----------------------------------------------------------------------------
(* Callers and items, whatever the step                                    *)

\* the two steps that are not quiet leave the other callers alone
LEMMA GetNonceCallers ==
    ASSUME Shape, NEW t \in Txs, getNonceUpdatingCurrent(t)
    PROVE  /\ txPc[t] = "noGap" /\ txPc' \in [Txs -> Labels]
           /\ \A u \in Txs : txPc'[u] = IF u = t THEN "gas" ELSE txPc[u]
           /\ txNonce' \in [Txs -> Nat] /\ \A u \in Txs : u # t => txNonce'[u] = txNonce[u]
           /\ computedNonce' \in Nat /\ computedNonceWasSet' = TRUE
           /\ txNonce'[t] = MaxOf(computedNonce', txAccount[t])
           /\ UNCHANGED <<txAccount, transactions, pool, resendableTxs, firstNonce, accountNonce, drops>>
  <1>1. txPc[t] = "noGap" /\ txPc' = [txPc EXCEPT ![t] = "gas"]
    BY Zenon DEF getNonceUpdatingCurrent, Goto
  <1>2. txPc' \in [Txs -> Labels] /\ \A u \in Txs : txPc'[u] = IF u = t THEN "gas" ELSE txPc[u]
    BY <1>1, Zenon DEF Shape, Labels
  <1>3. txAccount[t] \in Nat /\ computedNonce \in Nat
    BY Zenon DEF Shape
  <1>4. /\ computedNonce' \in Nat /\ computedNonceWasSet' = TRUE
        /\ txNonce' = [txNonce EXCEPT ![t] = MaxOf(computedNonce', txAccount[t])]
    <2>1. CASE ~computedNonceWasSet
      <3>1. /\ computedNonce' = txAccount[t] /\ computedNonceWasSet' = TRUE
            /\ txNonce' = [txNonce EXCEPT ![t] = computedNonce']
        BY <2>1, Zenon DEF getNonceUpdatingCurrent
      <3>2. MaxOf(computedNonce', txAccount[t]) = computedNonce'
        BY <1>3, <3>1, Zenon DEF MaxOf
      <3> QED BY <1>3, <3>1, <3>2, Zenon
    <2>2. CASE computedNonceWasSet
      <3>1. /\ computedNonce' = computedNonce + 1 /\ computedNonceWasSet' = computedNonceWasSet
            /\ txNonce' = [txNonce EXCEPT ![t] = MaxOf(computedNonce', txAccount[t])]
        BY <2>2, Zenon DEF getNonceUpdatingCurrent
      <3>2. computedNonceWasSet' = TRUE
        BY <2>2, <3>1, Zenon DEF Shape
      <3> QED BY <1>3, <3>1, <3>2
    <2> QED BY <2>1, <2>2, Zenon
  <1>5. MaxOf(computedNonce', txAccount[t]) \in Nat
    BY <1>3, <1>4, Zenon DEF MaxOf
  <1>6. /\ txNonce' \in [Txs -> Nat] /\ txNonce'[t] = MaxOf(computedNonce', txAccount[t])
        /\ \A u \in Txs : u # t => txNonce'[u] = txNonce[u]
    BY <1>4, <1>5, Zenon DEF Shape
  <1>7. UNCHANGED <<txAccount, transactions, pool, resendableTxs, firstNonce, accountNonce, drops>>
    BY Zenon DEF getNonceUpdatingCurrent, chainVars, resendVars, envVars
  <1> QED BY <1>1, <1>2, <1>4, <1>6, <1>7, Zenon

LEMMA DropCallers ==
    ASSUME Shape, DropTransactions
    PROVE  /\ UNCHANGED <<txPc, txAccount, txNonce, computedNonce, firstNonce, accountNonce, pool, resendableTxs>>
           /\ computedNonceWasSet' = FALSE /\ transactions' = [n \in Nonces |-> NoTx]
           /\ drops' \in Nat /\ drops' # 0
  <1>1. drops' = drops + 1 /\ drops \in Nat
    BY Zenon DEF DropTransactions, Shape
  <1>2. drops' \in Nat /\ drops' # 0
    BY <1>1
  <1> QED BY <1>2, Zenon DEF DropTransactions, chainVars, callerVars, txVars, resendVars

LEMMA NextShape == ASSUME Shape, AccountInv, ItemsInv, [Next]_vars PROVE Shape' /\ AccountInv'
  <1>1. CASE Quiet
    <2>1. accountNonce \in Nat /\ accountNonce' \in Nat /\ accountNonce <= accountNonce' /\ firstNonce \in Nat
      BY <1>1, FirstNoncesAreNatural DEF Quiet, Shape
    <2>2. firstNonce' \in FirstNonces /\ firstNonce' <= accountNonce'
      BY <1>1, <2>1 DEF Quiet, Shape
    <2>3. computedNonce' \in Nat /\ computedNonceWasSet' \in BOOLEAN /\ drops' \in Nat
      BY <1>1, Zenon DEF Quiet, Shape
    <2>4. Shape'
      BY <1>1, <2>1, <2>2, <2>3, Zenon DEF Quiet, Shape
    <2>5. ASSUME NEW t \in Txs, txPc'[t] \in {"account", "noGap"}
          PROVE  firstNonce' <= txAccount'[t] /\ txAccount'[t] <= accountNonce'
      <3>1. firstNonce <= txAccount'[t] /\ txAccount'[t] <= accountNonce /\ txAccount'[t] \in Nat /\ firstNonce' = firstNonce
        BY <1>1, <2>5, Zenon DEF Quiet
      <3> QED BY <2>1, <3>1
    <2> QED BY <2>4, <2>5, Zenon DEF AccountInv
  <1>2. ASSUME NEW t \in Txs, getNonceUpdatingCurrent(t) PROVE Shape' /\ AccountInv'
    <2>1. /\ txPc' \in [Txs -> Labels]
          /\ \A u \in Txs : txPc'[u] = IF u = t THEN "gas" ELSE txPc[u]
          /\ txNonce' \in [Txs -> Nat]
          /\ computedNonce' \in Nat /\ computedNonceWasSet' = TRUE
          /\ UNCHANGED <<txAccount, firstNonce, accountNonce, drops>>
      BY <1>2, GetNonceCallers, Zenon
    <2>2. Shape'
      BY <2>1, Zenon DEF Shape
    <2>3. AccountInv'
      BY <2>1, Zenon DEF AccountInv
    <2> QED BY <2>2, <2>3, Zenon
  <1>3. CASE DropTransactions
    <2>1. /\ UNCHANGED <<txPc, txAccount, txNonce, computedNonce, firstNonce, accountNonce>>
          /\ computedNonceWasSet' = FALSE /\ drops' \in Nat
      BY <1>3, DropCallers, Zenon
    <2>2. Shape'
      BY <2>1, Zenon DEF Shape
    <2>3. AccountInv'
      BY <2>1, Zenon DEF AccountInv
    <2> QED BY <2>2, <2>3, Zenon
  <1> QED BY <1>1, <1>2, <1>3, QuietOrNot, Zenon

LEMMA CarriedStays ==
    ASSUME Shape, AccountInv, ItemsInv, [Next]_vars, NEW u, NEW n, Carried(u, n)
    PROVE  u \in Txs /\ Handed(u)' /\ n = txNonce'[u]
  <1>1. u \in Txs /\ Handed(u) /\ n = txNonce[u] /\ HoldsNonce(u)
    BY Zenon DEF Carried, Handed, HoldsNonce, BeforeNonce
  <1>2. CASE Quiet
    BY <1>1, <1>2, Zenon DEF Quiet
  <1>3. ASSUME NEW t \in Txs, getNonceUpdatingCurrent(t) PROVE Handed(u)' /\ n = txNonce'[u]
    <2>1. /\ txPc[t] = "noGap"
          /\ \A v \in Txs : txPc'[v] = IF v = t THEN "gas" ELSE txPc[v]
          /\ \A v \in Txs : v # t => txNonce'[v] = txNonce[v]
      BY <1>3, GetNonceCallers, Zenon
    <2>2. u # t
      BY <1>1, <2>1, Zenon DEF Handed
    <2> QED BY <1>1, <2>1, <2>2, Zenon DEF Handed
  <1>4. CASE DropTransactions
    BY <1>1, <1>4, DropCallers, Zenon DEF Handed
  <1> QED BY <1>1, <1>2, <1>3, <1>4, QuietOrNot, Zenon

\* what a step adds to the cache, the pool and the transactions to resend
LEMMA NewItems ==
    ASSUME Shape, AccountInv, ItemsInv, [Next]_vars
    PROVE  /\ transactions' \in [Nonces -> Txs \cup {NoTx}]
           /\ \A n \in Nonces : transactions'[n] \in {NoTx, transactions[n]}
                                \/ (\E u \in Txs : transactions'[n] = u /\ Handed(u)' /\ n = txNonce'[u])
           /\ \A p \in pool' \cup resendableTxs' : Carried(p.tx, p.nonce)
  <1> USE DEF chainVars, anhVars, resendVars
  <1>1. CASE UNCHANGED <<transactions, pool, resendableTxs>>
    BY <1>1, Zenon DEF ItemsInv
  <1>2. ASSUME NEW t \in Txs, SendTransaction(t)
        PROVE  /\ UNCHANGED <<pool, resendableTxs>>
               /\ transactions' \in [Nonces -> Txs \cup {NoTx}]
               /\ \A n \in Nonces : transactions'[n] = transactions[n]
                                    \/ (transactions'[n] = t /\ Handed(t)' /\ n = txNonce'[t])
    <2>1. /\ transactions' = [transactions EXCEPT ![txNonce[t]] = t] /\ Goto(t, "proxy")
          /\ UNCHANGED <<txNonce, pool, resendableTxs>>
      BY <1>2, Zenon DEF SendTransaction, txVars
    <2>2. Handed(t)'
      BY <2>1, Zenon DEF Goto, Handed, Shape
    <2>3. /\ transactions' \in [Nonces -> Txs \cup {NoTx}]
          /\ \A n \in Nonces : transactions'[n] = IF n = txNonce[t] THEN t ELSE transactions[n]
      BY <2>1, Zenon DEF ItemsInv
    <2>4. txNonce'[t] = txNonce[t]
      BY <2>1, Zenon
    <2>5. \A n \in Nonces : transactions'[n] = transactions[n]
                            \/ (transactions'[n] = t /\ Handed(t)' /\ n = txNonce'[t])
      <3> TAKE n \in Nonces
      <3>1. CASE n = txNonce[t]
        <4>1. transactions'[n] = t /\ n = txNonce'[t]
          BY <2>3, <2>4, <3>1, Zenon
        <4> QED BY <2>2, <4>1, Zenon DEF Handed
      <3>2. CASE n # txNonce[t]
        BY <2>3, <3>2, Zenon
      <3> QED BY <3>1, <3>2, Zenon
    <2> QED BY <2>1, <2>3, <2>5, Zenon
  <1>3. ASSUME NEW t \in Txs, ProxySendTransaction(t)
        PROVE  /\ UNCHANGED <<transactions, resendableTxs>>
               /\ \A p \in pool' : Carried(p.tx, p.nonce)
    <2>1. /\ UNCHANGED <<transactions, resendableTxs>> /\ txPc[t] = "proxy"
          /\ pool' \subseteq pool \cup {InPool(t, txNonce[t])}
      BY <1>3, Zenon DEF ProxySendTransaction, Admit
    <2>2. Carried(InPool(t, txNonce[t]).tx, InPool(t, txNonce[t]).nonce)
      BY <2>1, Zenon DEF Carried, Handed, InPool
    <2> QED BY <2>1, <2>2, Zenon DEF ItemsInv
  <1>4. CASE ReSendTransactionsIfRequired
    <2>1. UNCHANGED pool
      BY <1>4, Zenon DEF ReSendTransactionsIfRequired
    <2>2. /\ transactions' = [n \in Nonces |-> transactions'[n]]
          /\ \A n \in Nonces : transactions'[n] \in {transactions[n], NoTx}
      BY <1>4, Zenon DEF ReSendTransactionsIfRequired
    <2>3. resendableTxs' \subseteq resendableTxs \cup {InPool(transactions[n], n) : n \in {m \in Nonces : Keep(m)}}
      BY <1>4, Zenon DEF ReSendTransactionsIfRequired
    <2>4. \A p \in resendableTxs' : Carried(p.tx, p.nonce)
      BY <2>3 DEF ItemsInv, Keep, InPool
    <2>5. transactions' \in [Nonces -> Txs \cup {NoTx}]
      BY <2>2, Zenon DEF ItemsInv
    <2> QED BY <2>1, <2>2, <2>4, <2>5, Zenon DEF ItemsInv
  <1>5. CASE ResendSucceeds \/ ResendFails
    <2>1. UNCHANGED transactions /\ resendableTxs' = {} /\ pool' \subseteq pool \cup resendableTxs
      BY <1>5, Zenon DEF ResendSucceeds, ResendFails, Admit
    <2> QED BY <2>1, Zenon DEF ItemsInv
  <1>6. CASE NetworkLoses \/ ChainStep
    <2>1. UNCHANGED <<transactions, resendableTxs>> /\ pool' \subseteq pool
      BY <1>6, Zenon DEF NetworkLoses, Lose, ChainStep, Execute
    <2> QED BY <2>1, Zenon DEF ItemsInv
  <1>7. CASE DropTransactions
    <2>1. UNCHANGED <<pool, resendableTxs>> /\ transactions' = [n \in Nonces |-> NoTx]
      BY <1>7, DropCallers, Zenon
    <2> QED BY <2>1, Zenon DEF ItemsInv
  <1>8. CASE ResendGetAccount \/ Close \/ UNCHANGED vars
    <2>1. UNCHANGED <<transactions, pool, resendableTxs>>
      BY <1>8, Zenon DEF ResendGetAccount, Close, vars
    <2> QED BY <1>1, <2>1, Zenon
  <1>9. ASSUME NEW t \in Txs, NewTransaction(t) \/ ApplyStep(t) \/ GetAccountFails(t) \/ SendStep(t)
        PROVE  \/ UNCHANGED <<transactions, pool, resendableTxs>>
               \/ SendTransaction(t) \/ ProxySendTransaction(t)
    <2>1. CASE NewTransaction(t) \/ handleTxWithSameNonce(t) \/ GetAccount(t) \/ GetAccountFails(t) \/ DetectGap(t)
      BY <2>1, Zenon DEF NewTransaction, handleTxWithSameNonce, GetAccount, GetAccountFails, DetectGap
    <2>2. CASE getNonceUpdatingCurrent(t) \/ fetchGasPriceIfRequired(t) \/ GetNetworkConfig(t)
      BY <2>2, Zenon DEF getNonceUpdatingCurrent, fetchGasPriceIfRequired, GetNetworkConfig
    <2>3. CASE ApplyGasPrice(t) \/ Retry(t) \/ getOrCreateAddressNonceHandler(t)
      BY <2>3, Zenon DEF ApplyGasPrice, Retry, getOrCreateAddressNonceHandler
    <2> QED BY <1>9, <2>1, <2>2, <2>3, Zenon DEF ApplyStep, SendStep
  <1>10. ASSUME NEW t \in Txs, SendTransaction(t) \/ ProxySendTransaction(t)
         PROVE  /\ transactions' \in [Nonces -> Txs \cup {NoTx}]
                /\ \A n \in Nonces : transactions'[n] \in {NoTx, transactions[n]}
                                \/ (\E u \in Txs : transactions'[n] = u /\ Handed(u)' /\ n = txNonce'[u])
                /\ \A p \in pool' \cup resendableTxs' : Carried(p.tx, p.nonce)
    <2>1. CASE SendTransaction(t)
      <3>1. /\ UNCHANGED <<pool, resendableTxs>>
            /\ transactions' \in [Nonces -> Txs \cup {NoTx}]
            /\ \A n \in Nonces : transactions'[n] = transactions[n]
                                 \/ (transactions'[n] = t /\ Handed(t)' /\ n = txNonce'[t])
        BY <1>2, <2>1, Zenon
      <3>2. \A p \in pool' \cup resendableTxs' : Carried(p.tx, p.nonce)
        BY <3>1, Zenon DEF ItemsInv
      <3>3. ASSUME NEW n \in Nonces
            PROVE  \/ transactions'[n] \in {NoTx, transactions[n]}
                   \/ \E u \in Txs : transactions'[n] = u /\ Handed(u)' /\ n = txNonce'[u]
        BY <3>1, Zenon DEF Handed
      <3> QED BY <3>1, <3>2, <3>3, Zenon
    <2>2. CASE ProxySendTransaction(t)
      <3>1. UNCHANGED <<transactions, resendableTxs>> /\ \A p \in pool' : Carried(p.tx, p.nonce)
        BY <1>3, <2>2, Zenon
      <3> QED BY <3>1, Zenon DEF ItemsInv
    <2> QED BY <1>10, <2>1, <2>2, Zenon
  <1>11. ASSUME NEW t \in Txs, NewTransaction(t) \/ ApplyStep(t) \/ GetAccountFails(t) \/ SendStep(t)
         PROVE  UNCHANGED <<transactions, pool, resendableTxs>> \/ \E u \in Txs : SendTransaction(u) \/ ProxySendTransaction(u)
    BY <1>9, <1>11, Zenon
  <1> QED BY <1>1, <1>4, <1>5, <1>6, <1>7, <1>8, <1>10, <1>11, Zenon DEF Next, ResendStep

LEMMA NextItems == ASSUME Shape, AccountInv, ItemsInv, [Next]_vars PROVE ItemsInv'
  <1>1. \A u, n : Carried(u, n) => Carried(u, n)'
    BY CarriedStays, Zenon DEF Carried
  <1>2. ASSUME NEW n \in Nonces, transactions'[n] # NoTx
        PROVE  Carried(transactions[n], n)'
    <2>1. CASE transactions'[n] = transactions[n]
      BY <1>2, <2>1, CarriedStays DEF ItemsInv, Carried, Handed
    <2>2. CASE \E u \in Txs : transactions'[n] = u /\ Handed(u)' /\ n = txNonce'[u]
      BY <2>2, Zenon DEF Carried, Handed
    <2> QED BY <1>2, <2>1, <2>2, NewItems, Zenon
  <1>3. /\ \A p \in pool' : Carried(p.tx, p.nonce)'
        /\ \A p \in resendableTxs' : Carried(p.tx, p.nonce)'
    BY CarriedStays, NewItems, Zenon DEF Carried, Handed
  <1> QED BY <1>2, <1>3, NewItems, Zenon DEF ItemsInv

-----------------------------------------------------------------------------
(* The count and the nonces                                                *)

LEMMA QuietHolders == ASSUME Quiet PROVE Holders' = Holders
  BY Zenon DEF Quiet, Holders

\* the nonce that an undisturbed getNonceUpdatingCurrent hands out, and to whom
LEMMA NextNumber ==
    ASSUME Shape, AccountInv, CountInv, NonceInv, drops = 0, NEW t \in Txs, getNonceUpdatingCurrent(t)
    PROVE  /\ t \notin Holders /\ Holders' = Holders \cup {t}
           /\ computedNonceWasSet' /\ computedNonce' = firstNonce + Cardinality(Holders)
           /\ txNonce'[t] = computedNonce'
           /\ accountNonce <= computedNonce'
           /\ \A u \in Holders : txNonce[u] < computedNonce'
  <1>1. /\ txPc[t] = "noGap"
        /\ \A u \in Txs : txPc'[u] = IF u = t THEN "gas" ELSE txPc[u]
        /\ computedNonce' \in Nat /\ computedNonceWasSet' = TRUE
        /\ txNonce'[t] = MaxOf(computedNonce', txAccount[t])
    BY GetNonceCallers, Zenon
  <1>2. t \notin Holders /\ Holders' = Holders \cup {t}
    BY <1>1, Zenon DEF Holders, HoldsNonce, BeforeNonce
  <1>3. firstNonce \in Nat /\ computedNonce \in Nat /\ accountNonce \in Nat /\ txNonce \in [Txs -> Nat]
    BY FirstNoncesAreNatural, Zenon DEF Shape
  <1>4. firstNonce <= txAccount[t] /\ txAccount[t] <= accountNonce /\ txAccount[t] \in Nat
    BY <1>1, Zenon DEF AccountInv, Shape
  <1>5. Cardinality(Holders) \in Nat
    BY HoldersAreFinite, Zenon
  <1>6. /\ computedNonce' = firstNonce + Cardinality(Holders)
        /\ accountNonce <= computedNonce'
        /\ \A u \in Holders : txNonce[u] < computedNonce'
    <2>1. CASE ~computedNonceWasSet
      <3>1. accountNonce = firstNonce /\ Holders = {}
        BY <2>1, Zenon DEF CountInv
      <3>2. Cardinality(Holders) = 0
        BY <3>1, FS_EmptySet, Zenon
      <3>3. computedNonce' = txAccount[t]
        BY <2>1, Zenon DEF getNonceUpdatingCurrent
      <3>4. computedNonce' = firstNonce
        BY <1>3, <1>4, <3>1, <3>3
      <3> QED BY <1>3, <3>1, <3>2, <3>4
    <2>2. CASE computedNonceWasSet
      <3>1. computedNonce' = computedNonce + 1
        BY <2>2, Zenon DEF getNonceUpdatingCurrent
      <3>2. computedNonce + 1 = firstNonce + Cardinality(Holders)
        BY <2>2, Zenon DEF CountInv
      <3>3. accountNonce <= computedNonce + 1
        BY <2>2, Zenon DEF NonceInv
      <3>4. \A u \in Holders : txNonce[u] <= computedNonce /\ txNonce[u] \in Nat
        BY <1>3, Zenon DEF NonceInv, Holders
      <3>5. \A u \in Holders : txNonce[u] < computedNonce'
        BY <1>3, <3>1, <3>4
      <3> QED BY <3>1, <3>2, <3>3, <3>5, Zenon
    <2> QED BY <2>1, <2>2, Zenon
  <1>7. MaxOf(computedNonce', txAccount[t]) = computedNonce'
    <2>1. computedNonce' >= txAccount[t]
      BY <1>1, <1>3, <1>4, <1>6
    <2> QED BY <2>1, Zenon DEF MaxOf
  <1> QED BY <1>1, <1>2, <1>6, <1>7, Zenon

LEMMA DropsStay ==
    ASSUME Shape, AccountInv, ItemsInv, [Next]_vars, drops' = 0
    PROVE  drops = 0 /\ (Quiet \/ \E t \in Txs : getNonceUpdatingCurrent(t))
  <1>1. ~DropTransactions
    BY DropCallers, Zenon
  <1>2. CASE Quiet
    BY <1>2, Zenon DEF Quiet
  <1>3. ASSUME NEW t \in Txs, getNonceUpdatingCurrent(t) PROVE drops = 0
    BY <1>3, GetNonceCallers, Zenon
  <1> QED BY <1>1, <1>2, <1>3, QuietOrNot, Zenon

LEMMA NextCount ==
    ASSUME Shape, AccountInv, ItemsInv, CountInv, NonceInv, [Next]_vars
    PROVE  CountInv' /\ NonceInv'
  <1> SUFFICES ASSUME drops' = 0 PROVE CountInv' /\ NonceInv'
    BY Zenon DEF CountInv, NonceInv
  <1>1. drops = 0
    BY DropsStay, Zenon
  <1>2. firstNonce \in Nat /\ computedNonce \in Nat /\ accountNonce \in Nat /\ txNonce \in [Txs -> Nat]
    BY FirstNoncesAreNatural, Zenon DEF Shape
  <1>3. CASE Quiet
    <2>1. Holders' = Holders
      BY <1>3, QuietHolders, Zenon
    <2>2. UNCHANGED <<computedNonce, computedNonceWasSet, firstNonce>>
      BY <1>3, Zenon DEF Quiet
    <2>3. \A t \in Holders : txNonce'[t] = txNonce[t]
      BY <1>3, Zenon DEF Quiet, Holders
    <2>4. CASE UNCHANGED accountNonce
      <3>1. CountInv'
        BY <1>1, <2>1, <2>2, <2>4, Zenon DEF CountInv
      <3>2. NonceInv'
        BY <1>1, <2>1, <2>2, <2>3, <2>4, Zenon DEF NonceInv
      <3> QED BY <3>1, <3>2, Zenon
    <2>5. ASSUME accountNonce' = accountNonce + 1, NEW t \in Txs, HoldsNonce(t), txNonce[t] = accountNonce
          PROVE  CountInv' /\ NonceInv'
      <3>1. t \in Holders
        BY <2>5, Zenon DEF Holders
      <3>2. computedNonceWasSet
        BY <1>1, <3>1, Zenon DEF CountInv
      <3>3. accountNonce <= computedNonce
        BY <1>1, <2>5, <3>1, Zenon DEF NonceInv
      <3>4. accountNonce' <= computedNonce' + 1
        BY <1>2, <2>2, <2>5, <3>3
      <3>5. computedNonceWasSet' = computedNonceWasSet /\ computedNonce' = computedNonce /\ firstNonce' = firstNonce
        BY <2>2, Zenon
      <3>6. CountInv'
        BY <1>1, <2>1, <3>2, <3>5, Zenon DEF CountInv
      <3>7. NonceInv'
        BY <1>1, <2>1, <2>3, <3>4, <3>5, Zenon DEF NonceInv
      <3> QED BY <3>6, <3>7, Zenon
    <2> QED BY <1>3, <2>4, <2>5, Zenon DEF Quiet
  <1>4. ASSUME NEW t \in Txs, getNonceUpdatingCurrent(t) PROVE CountInv' /\ NonceInv'
    <2>1. /\ t \notin Holders /\ Holders' = Holders \cup {t}
          /\ computedNonceWasSet' /\ computedNonce' = firstNonce + Cardinality(Holders)
          /\ txNonce'[t] = computedNonce'
          /\ accountNonce <= computedNonce'
          /\ \A u \in Holders : txNonce[u] < computedNonce'
      BY <1>1, <1>4, NextNumber, Zenon
    <2>2. /\ firstNonce' = firstNonce /\ accountNonce' = accountNonce
          /\ computedNonce' \in Nat
          /\ \A u \in Txs : u # t => txNonce'[u] = txNonce[u]
      BY <1>4, GetNonceCallers, Zenon
    <2>3. Cardinality(Holders) \in Nat /\ Cardinality(Holders') = Cardinality(Holders) + 1
      BY <2>1, HoldersAreFinite, FS_AddElement, Zenon
    <2>4. computedNonce' + 1 = firstNonce' + Cardinality(Holders')
      BY <1>2, <2>1, <2>2, <2>3
    <2>5. CountInv'
      BY <2>1, <2>4, Zenon DEF CountInv
    <2>6. accountNonce' <= computedNonce' + 1
      BY <1>2, <2>1, <2>2
    <2>7. firstNonce <= computedNonce'
      BY <1>2, <2>1, <2>3
    <2>8. ASSUME NEW u \in Holders' PROVE firstNonce' <= txNonce'[u] /\ txNonce'[u] <= computedNonce'
      <3>1. CASE u = t
        BY <2>1, <2>2, <2>7, <3>1
      <3>2. CASE u # t
        <4>1. u \in Holders /\ u \in Txs
          BY <2>1, <3>2, Zenon DEF Holders
        <4>2. firstNonce <= txNonce[u] /\ txNonce[u] < computedNonce' /\ txNonce[u] \in Nat
          BY <1>1, <1>2, <2>1, <4>1, Zenon DEF NonceInv
        <4> QED BY <2>2, <3>2, <4>1, <4>2
      <3> QED BY <3>1, <3>2, Zenon
    <2>9. NonceInv'
      BY <2>6, <2>8, Zenon DEF NonceInv
    <2> QED BY <2>5, <2>9, Zenon
  <1> QED BY <1>3, <1>4, DropsStay, Zenon

LEMMA NextInv == IInv /\ [Next]_vars => IInv'
  <1> SUFFICES ASSUME IInv, [Next]_vars PROVE IInv'
    BY Zenon
  <1>1. Shape /\ AccountInv /\ ItemsInv /\ CountInv /\ NonceInv
    BY Zenon DEF IInv
  <1>2. Shape' /\ AccountInv' /\ ItemsInv'
    BY <1>1, NextShape, NextItems, Zenon
  <1>3. CountInv' /\ NonceInv'
    BY <1>1, NextCount, Zenon
  <1> QED BY <1>2, <1>3, Zenon DEF IInv

-----------------------------------------------------------------------------

LEMMA SameCardinality == \A S : Source!Cardinality(S) = Cardinality(S)
  BY Zenon DEF Source!Cardinality, Cardinality

\* what NonceSource calls held
Held == [t \in Txs |-> IF HoldsNonce(t) THEN txNonce[t] ELSE -1]

LEMMA HoldingAreHolders == ASSUME Shape PROVE Source!Holding = Holders
  <1>1. \A t \in Txs : txNonce[t] \in Nat
    BY Zenon DEF Shape
  <1> QED BY <1>1 DEF Source!Holding, Source!NoNonce, Holders

\* The handler implements NonceSource: until DropTransactions is called,
\* concurrent callers of ApplyNonceAndGasPrice get the account's nonce and
\* the numbers after it, although each has read the account, and checked
\* the gap, before it takes the lock.
THEOREM ImplementsNonceSource == Spec => NoncesFollowEachOther
  <1>1. Init => Source!SourceInit
    <2> SUFFICES ASSUME Init PROVE Source!SourceInit
      BY Zenon
    <2>1. drops = 0 /\ \A t \in Txs : ~HoldsNonce(t)
      BY Zenon DEF Init, HoldsNonce, BeforeNonce
    <2>2. firstNonce \in Nat /\ accountNonce = firstNonce
      BY FirstNoncesAreNatural, Zenon DEF Init, ChainInit
    <2>3. (drops > 0) = FALSE
      BY <2>1
    <2> QED BY <2>1, <2>2, <2>3, Zenon DEF Source!SourceInit, Source!NoNonce
  <1>2. IInv /\ [Next]_vars => [Source!SourceNext]_(Source!sourceVars)
    <2> SUFFICES ASSUME IInv, [Next]_vars PROVE [Source!SourceNext]_(Source!sourceVars)
      BY Zenon
    <2>1. Shape /\ AccountInv /\ ItemsInv /\ CountInv /\ NonceInv /\ Shape'
      BY NextShape, Zenon DEF IInv
    <2>2. firstNonce' = firstNonce /\ drops \in Nat /\ drops' \in Nat
      <3>1. CASE Quiet
        BY <3>1, <2>1, Zenon DEF Quiet, Shape
      <3>2. ASSUME NEW t \in Txs, getNonceUpdatingCurrent(t) PROVE firstNonce' = firstNonce
        BY <2>1, <3>2, GetNonceCallers, Zenon
      <3>3. CASE DropTransactions
        BY <2>1, <3>3, DropCallers, Zenon DEF Shape
      <3> QED BY <2>1, <3>1, <3>2, <3>3, QuietOrNot, Zenon DEF Shape
    <2>3. CASE drops' # 0
      <3>1. drops' > 0
        BY <2>2, <2>3
      <3> QED BY <2>2, <3>1, Zenon DEF Source!SourceNext, Source!Disturb
    <2>4. CASE drops' = 0
      <3>1. drops = 0 /\ (Quiet \/ \E t \in Txs : getNonceUpdatingCurrent(t))
        BY <2>1, <2>4, DropsStay, Zenon
      <3>2. ~(drops > 0) /\ UNCHANGED (drops > 0)
        BY <2>4, <3>1
      <3>3. Source!Holding = Holders
        BY <2>1, HoldingAreHolders, Zenon
      <3>4. ASSUME NEW t \in Txs, getNonceUpdatingCurrent(t) PROVE Source!HandOut(t)
        <4>1. /\ t \notin Holders /\ txNonce'[t] = firstNonce + Cardinality(Holders)
          BY <2>1, <3>1, <3>4, NextNumber, Zenon
        <4>2. /\ \A u \in Txs : txPc'[u] = IF u = t THEN "gas" ELSE txPc[u]
              /\ \A u \in Txs : u # t => txNonce'[u] = txNonce[u]
              /\ UNCHANGED <<firstNonce, accountNonce>>
          BY <2>1, <3>4, GetNonceCallers, Zenon
        <4>3. \A u \in Txs : HoldsNonce(u)' <=> (u = t \/ HoldsNonce(u))
          BY <4>2, Zenon DEF HoldsNonce, BeforeNonce
        <4>4. Held' = [Held EXCEPT ![t] = firstNonce + Cardinality(Holders)]
          BY <4>1, <4>2, <4>3, Zenon DEF Held
        <4> QED BY <3>2, <3>3, <4>1, <4>2, <4>4, SameCardinality, Zenon DEF Source!HandOut, Held
      <3>5. CASE Quiet
        <4>1. Held' = Held
          BY <3>5, Zenon DEF Quiet, Held
        <4>2. CASE UNCHANGED accountNonce
          BY <2>2, <3>2, <4>1, <4>2, Zenon DEF Source!sourceVars, Held
        <4>3. ASSUME accountNonce' = accountNonce + 1, NEW t \in Txs, HoldsNonce(t), txNonce[t] = accountNonce
              PROVE  Source!Use
          <5>1. t \in Holders /\ Held[t] = accountNonce
            BY <4>3, Zenon DEF Holders, Held
          <5> QED BY <2>2, <3>2, <3>3, <4>1, <4>3, <5>1, Zenon DEF Source!Use, Held
        <4> QED BY <3>5, <4>2, <4>3, Zenon DEF Quiet, Source!SourceNext
      <3> QED BY <3>1, <3>4, <3>5, Zenon DEF Source!SourceNext
    <2> QED BY <2>3, <2>4, Zenon
  <1> QED BY <1>1, <1>2, InitInv, NextInv, PTL DEF Spec, NoncesFollowEachOther, Source!SourceSpec

-----------------------------------------------------------------------------
(* The gas price.  A caller that has passed the fetch without one has seen *)
(* a price that somebody fetched, failed to fetch or increased.            *)

GasInv ==
    /\ txPc \in [Txs -> Labels] /\ txGasPrice \in [Txs -> Nat]
    /\ gasPrice \in Nat /\ gasFrom \in {"nowhere", "network", "failure", "increase"}
    /\ gasFrom = "nowhere" => gasPrice = 0 /\ \A t \in Txs : txPc[t] # "price"
    /\ gasFrom = "network" => gasPrice >= MinGasPrice

LEMMA InitGas == Init => GasInv
  <1> SUFFICES ASSUME Init PROVE GasInv
    BY Zenon
  <1>1. txPc \in [Txs -> Labels] /\ txGasPrice \in [Txs -> Nat]
    BY Zenon DEF Init, Labels, BeforeNonce
  <1>2. gasPrice = 0 /\ gasFrom = "nowhere"
    BY Zenon DEF Init
  <1>3. \A t \in Txs : txPc[t] = "none"
    BY Zenon DEF Init
  <1> QED BY <1>1, <1>2, <1>3 DEF GasInv

\* a caller that leaves the price alone
LEMMA OtherGas ==
    ASSUME GasInv, NEW t \in Txs, NEW label \in Labels, Goto(t, label),
           UNCHANGED <<gasPrice, gasFrom>>, txGasPrice' \in [Txs -> Nat],
           label = "price" => gasPrice # 0
    PROVE  GasInv'
  <1>1. \A u \in Txs : txPc'[u] = IF u = t THEN label ELSE txPc[u]
    BY Zenon DEF Goto, GasInv
  <1>2. txPc' \in [Txs -> Labels]
    BY Zenon DEF Goto, GasInv
  <1>3. gasFrom = "nowhere" => \A u \in Txs : txPc'[u] # "price"
    BY <1>1, Zenon DEF GasInv
  <1>4. gasPrice' = gasPrice /\ gasFrom' = gasFrom
    BY Zenon
  <1> QED BY <1>2, <1>3, <1>4, Zenon DEF GasInv

LEMMA NewTransactionGas ==
    ASSUME GasInv, NEW t \in Txs, NewTransaction(t)
    PROVE  GasInv'
  <1>1. Goto(t, "new") /\ UNCHANGED <<gasPrice, gasFrom>>
    BY Zenon DEF NewTransaction, anhVars, gasVars
  <1>2. \E g \in {0, MinGasPrice} : txGasPrice' = [txGasPrice EXCEPT ![t] = g]
    <2>1. PICK args \in {<<0, 0>>, <<accountNonce, MinGasPrice>>} : txGasPrice' = [txGasPrice EXCEPT ![t] = args[2]]
      BY Zenon DEF NewTransaction
    <2>2. args[2] \in {0, MinGasPrice}
      OBVIOUS
    <2> QED BY <2>1, <2>2, Zenon
  <1>3. txGasPrice' \in [Txs -> Nat]
    BY <1>2, MinGasPriceIsPositive DEF GasInv
  <1>4. "new" \in Labels
    BY Zenon DEF Labels, BeforeNonce
  <1> QED BY <1>1, <1>3, <1>4, OtherGas, Zenon

\* steps of a caller that change neither the gas price nor its own
LEMMA UnpricedGas ==
    ASSUME GasInv, NEW t \in Txs,
           \/ handleTxWithSameNonce(t) \/ GetAccount(t) \/ GetAccountFails(t) \/ DetectGap(t)
           \/ getNonceUpdatingCurrent(t) \/ fetchGasPriceIfRequired(t) \/ Retry(t) \/ SendStep(t)
    PROVE  GasInv'
  <1>1. UNCHANGED <<gasPrice, gasFrom, txGasPrice>>
    <2> USE DEF txVars, anhVars, gasVars
    <2>1. CASE handleTxWithSameNonce(t) \/ GetAccount(t) \/ GetAccountFails(t) \/ DetectGap(t)
      BY <2>1, Zenon DEF handleTxWithSameNonce, GetAccount, GetAccountFails, DetectGap
    <2>2. CASE getNonceUpdatingCurrent(t) \/ fetchGasPriceIfRequired(t) \/ Retry(t)
      BY <2>2, Zenon DEF getNonceUpdatingCurrent, fetchGasPriceIfRequired, Retry
    <2>3. CASE getOrCreateAddressNonceHandler(t) \/ SendTransaction(t) \/ ProxySendTransaction(t)
      BY <2>3, Zenon DEF getOrCreateAddressNonceHandler, SendTransaction, ProxySendTransaction
    <2> QED BY <2>1, <2>2, <2>3, Zenon DEF SendStep
  <1>2. ASSUME NEW label \in Labels, Goto(t, label), label = "price" => gasPrice # 0
        PROVE  GasInv'
    <2>1. txGasPrice' \in [Txs -> Nat]
      BY <1>1, Zenon DEF GasInv
    <2> QED BY <1>1, <1>2, <2>1, OtherGas, Zenon
  <1>3. CASE handleTxWithSameNonce(t) \/ GetAccount(t) \/ GetAccountFails(t) \/ DetectGap(t)
             \/ getNonceUpdatingCurrent(t) \/ Retry(t) \/ SendStep(t)
    <2>1. PICK label \in {"apply", "ErrTxWithSameNonceAndGasPriceAlreadySent", "account", "getAccountFailed",
                          "ErrGapNonce", "noGap", "gas", "new", "store", "proxy", "sent", "sendFailed"} :
                Goto(t, label)
      <3>1. CASE handleTxWithSameNonce(t)
        BY <3>1, Zenon DEF handleTxWithSameNonce
      <3>2. CASE GetAccount(t) \/ GetAccountFails(t)
        BY <3>2, Zenon DEF GetAccount, GetAccountFails
      <3>3. CASE DetectGap(t)
        BY <3>3, Zenon DEF DetectGap
      <3>4. CASE getNonceUpdatingCurrent(t) \/ Retry(t)
        BY <3>4, Zenon DEF getNonceUpdatingCurrent, Retry
      <3>5. CASE getOrCreateAddressNonceHandler(t) \/ SendTransaction(t)
        BY <3>5, Zenon DEF getOrCreateAddressNonceHandler, SendTransaction
      <3>6. CASE ProxySendTransaction(t)
        BY <3>6, Zenon DEF ProxySendTransaction
      <3> QED BY <1>3, <3>1, <3>2, <3>3, <3>4, <3>5, <3>6, Zenon DEF SendStep
    <2>2. label \in Labels /\ label # "price"
      BY Zenon DEF Labels, BeforeNonce
    <2> QED BY <1>2, <2>1, <2>2, Zenon
  <1>4. CASE fetchGasPriceIfRequired(t)
    <2>1. PICK label \in {"config", "price"} : Goto(t, label) /\ (label = "price" => ~FetchRequired(t))
      BY <1>4, Zenon DEF fetchGasPriceIfRequired
    <2>2. label = "price" => gasPrice # 0
      BY <2>1, Zenon DEF FetchRequired
    <2>3. label \in Labels
      BY Zenon DEF Labels
    <2> QED BY <1>2, <2>1, <2>2, <2>3, Zenon
  <1> QED BY <1>3, <1>4, Zenon

LEMMA GetNetworkConfigGas ==
    ASSUME GasInv, NEW t \in Txs, GetNetworkConfig(t)
    PROVE  GasInv'
  <1>1. /\ txPc' = [txPc EXCEPT ![t] = "price"]
        /\ UNCHANGED txGasPrice
        /\ \/ gasPrice' = MinGasPrice /\ gasFrom' = "network"
           \/ gasPrice' = 0 /\ gasFrom' = "failure"
    BY Zenon DEF GetNetworkConfig, Goto, txVars
  <1>2. txPc' \in [Txs -> Labels]
    BY <1>1, Zenon DEF GasInv, Labels
  <1> QED BY <1>1, <1>2, MinGasPriceIsPositive DEF GasInv

LEMMA ApplyGasPriceGas ==
    ASSUME GasInv, NEW t \in Txs, ApplyGasPrice(t)
    PROVE  /\ GasInv'
           /\ \A u \in Txs : txPc'[u] = IF u = t THEN "applied" ELSE txPc[u]
           /\ txGasPrice'[t] >= MinGasPrice \/ gasFrom \in {"failure", "increase"}
  <1>1. /\ txPc[t] = "price" /\ Goto(t, "applied")
        /\ txGasPrice' = [txGasPrice EXCEPT ![t] = MaxOf(gasPrice, txGasPrice[t])]
        /\ UNCHANGED <<gasPrice, gasFrom>>
    BY Zenon DEF ApplyGasPrice, anhVars, gasVars
  <1>2. txGasPrice[t] \in Nat /\ gasPrice \in Nat /\ MinGasPrice \in Nat
    BY MinGasPriceIsPositive, Zenon DEF GasInv
  <1>3. /\ MaxOf(gasPrice, txGasPrice[t]) \in Nat
        /\ MaxOf(gasPrice, txGasPrice[t]) >= gasPrice
    BY <1>2 DEF MaxOf
  <1>4. txGasPrice' \in [Txs -> Nat] /\ txGasPrice'[t] = MaxOf(gasPrice, txGasPrice[t])
    BY <1>1, <1>3, Zenon DEF GasInv
  <1>5. \A u \in Txs : txPc'[u] = IF u = t THEN "applied" ELSE txPc[u]
    BY <1>1, Zenon DEF Goto, GasInv
  <1>6. gasFrom = "network" => MaxOf(gasPrice, txGasPrice[t]) >= MinGasPrice
    BY <1>2, <1>3 DEF GasInv
  <1>7. txGasPrice'[t] >= MinGasPrice \/ gasFrom \in {"failure", "increase"}
    BY <1>1, <1>4, <1>6, Zenon DEF GasInv
  <1>8. "applied" \in Labels
    BY Zenon DEF Labels
  <1>9. GasInv'
    BY <1>1, <1>4, <1>8, OtherGas, Zenon
  <1> QED BY <1>5, <1>7, <1>9, Zenon

LEMMA DropGas == ASSUME GasInv, DropTransactions PROVE GasInv'
  <1>1. /\ gasPrice' = gasPrice + 1 /\ gasFrom' = IF gasPrice = 0 THEN "increase" ELSE gasFrom
        /\ UNCHANGED <<txPc, txGasPrice>>
    BY Zenon DEF DropTransactions, callerVars, txVars
  <1> QED BY <1>1, MinGasPriceIsPositive DEF GasInv

LEMMA RestKeepsCallers ==
    ASSUME Rest \/ ChainStep
    PROVE  UNCHANGED <<txPc, txGasPrice, gasPrice, gasFrom>>
  <1> USE DEF txVars, anhVars, gasVars, callerVars
  <1>1. CASE ResendGetAccount
    BY <1>1, Zenon DEF ResendGetAccount
  <1>2. CASE ReSendTransactionsIfRequired
    BY <1>2, Zenon DEF ReSendTransactionsIfRequired
  <1>3. CASE ResendSucceeds \/ ResendFails
    BY <1>3, Zenon DEF ResendSucceeds, ResendFails
  <1>4. CASE Close
    BY <1>4, Zenon DEF Close
  <1>5. CASE NetworkLoses \/ ChainStep
    BY <1>5, Zenon DEF NetworkLoses, ChainStep
  <1>6. CASE UNCHANGED vars
    BY <1>6, Zenon DEF vars
  <1> QED BY <1>1, <1>2, <1>3, <1>4, <1>5, <1>6, Zenon DEF Rest

LEMMA RestGas == ASSUME GasInv, Rest \/ ChainStep PROVE GasInv'
  BY RestKeepsCallers, Zenon DEF GasInv

LEMMA NextGas == GasInv /\ [Next]_vars => GasInv'
  <1> SUFFICES ASSUME GasInv, [Next]_vars PROVE GasInv'
    BY Zenon
  <1>1. ASSUME NEW t \in Txs, NewTransaction(t) \/ ApplyStep(t) \/ GetAccountFails(t) \/ SendStep(t)
        PROVE  GasInv'
    <2>1. CASE NewTransaction(t)
      BY <2>1, NewTransactionGas, Zenon
    <2>2. CASE \/ handleTxWithSameNonce(t) \/ GetAccount(t) \/ GetAccountFails(t) \/ DetectGap(t)
               \/ getNonceUpdatingCurrent(t) \/ fetchGasPriceIfRequired(t) \/ Retry(t) \/ SendStep(t)
      BY <2>2, UnpricedGas, Zenon
    <2>3. CASE GetNetworkConfig(t)
      BY <2>3, GetNetworkConfigGas, Zenon
    <2>4. CASE ApplyGasPrice(t)
      BY <2>4, ApplyGasPriceGas, Zenon
    <2> QED BY <1>1, <2>1, <2>2, <2>3, <2>4, Zenon DEF ApplyStep
  <1>2. CASE Rest \/ ChainStep
    BY <1>2, RestGas, Zenon
  <1>3. CASE DropTransactions
    BY <1>3, DropGas, Zenon
  <1> QED BY <1>1, <1>2, <1>3, Zenon DEF Next, ResendStep, Rest

\* the callers that are past the fetch take the last step of
\* ApplyNonceAndGasPrice, and only ApplyGasPrice takes them there
LEMMA PricedSteps ==
    ASSUME GasInv, [Next]_vars, NEW t \in Txs, txPc[t] = "price", txPc'[t] = "applied"
    PROVE  ApplyGasPrice(t)
  <1>1. ASSUME NEW u \in Txs, NewTransaction(u) \/ ApplyStep(u) \/ GetAccountFails(u) \/ SendStep(u)
        PROVE  ApplyGasPrice(t)
    <2>1. ASSUME ~ApplyGasPrice(u)
          PROVE  \E label \in {"apply", "ErrTxWithSameNonceAndGasPriceAlreadySent", "account", "getAccountFailed",
                              "ErrGapNonce", "noGap", "gas", "new", "store", "proxy", "sent", "sendFailed",
                              "config", "price"} : Goto(u, label)
      <3>1. CASE NewTransaction(u)
        BY <3>1, Zenon DEF NewTransaction
      <3>2. CASE handleTxWithSameNonce(u)
        BY <3>2, Zenon DEF handleTxWithSameNonce
      <3>3. CASE GetAccount(u) \/ GetAccountFails(u)
        BY <3>3, Zenon DEF GetAccount, GetAccountFails
      <3>4. CASE DetectGap(u)
        BY <3>4, Zenon DEF DetectGap
      <3>5. CASE getNonceUpdatingCurrent(u) \/ Retry(u)
        BY <3>5, Zenon DEF getNonceUpdatingCurrent, Retry
      <3>6. CASE fetchGasPriceIfRequired(u)
        BY <3>6, Zenon DEF fetchGasPriceIfRequired
      <3>7. CASE GetNetworkConfig(u)
        BY <3>7, Zenon DEF GetNetworkConfig
      <3>8. CASE getOrCreateAddressNonceHandler(u) \/ SendTransaction(u)
        BY <3>8, Zenon DEF getOrCreateAddressNonceHandler, SendTransaction
      <3>9. CASE ProxySendTransaction(u)
        BY <3>9, Zenon DEF ProxySendTransaction
      <3> QED BY <1>1, <2>1, <3>1, <3>2, <3>3, <3>4, <3>5, <3>6, <3>7, <3>8, <3>9, Zenon DEF ApplyStep, SendStep
    <2>2. ASSUME NEW label, Goto(u, label) PROVE txPc'[t] = IF t = u THEN label ELSE txPc[t]
      BY <2>2, Zenon DEF Goto, GasInv
    <2>3. ApplyGasPrice(u)
      BY <2>1, <2>2
    <2>4. t = u
      BY <2>2, <2>3 DEF ApplyGasPrice
    <2> QED BY <2>3, <2>4, Zenon
  <1>2. CASE Rest \/ ChainStep \/ DropTransactions
    <2>1. UNCHANGED txPc
      BY <1>2, RestKeepsCallers, Zenon DEF DropTransactions, callerVars
    <2> QED BY <2>1
  <1> QED BY <1>1, <1>2, Zenon DEF Next, ResendStep, Rest

\* fetchGasPriceIfRequired and its caller: whoever fetched the price that a
\* transaction leaves with, and however the callers overlap, it is at least
\* the network's unless the network's answer failed or the price was
\* increased before there was one.
THEOREM GasPriceAlwaysCoversMinimum == Spec => GasPriceCoversMinimum
  <1>1. GasInv /\ [Next]_vars =>
            [\A t \in Txs : txPc[t] = "price" /\ txPc'[t] = "applied" =>
                txGasPrice'[t] >= MinGasPrice \/ gasFrom \in {"failure", "increase"}]_vars
    BY PricedSteps, ApplyGasPriceGas, Zenon
  <1> QED BY <1>1, InitGas, NextGas, PTL DEF Spec, GasPriceCoversMinimum
=============================================================================
