--------------------------- MODULE NonceHandlerV2 ---------------------------
(***************************************************************************)
(* interactors/nonceHandlerV2: the handler of one address, its callers,    *)
(* and the resend goroutine.                                               *)
(*                                                                         *)
(* ApplyNonceAndGasPrice is many steps: the cache look-up, GetAccount, the *)
(* gap check (lowestNonce is read without anh.mut), the computation of the *)
(* nonce, the decision to fetch the gas price, GetNetworkConfig, and the   *)
(* reading of anh.gasPrice (again without anh.mut).  DropTransactions and  *)
(* the sweep may come between any two of them.                             *)
(***************************************************************************)
EXTENDS AccountChain

CONSTANTS
    NoTx,
    Nonces,             \* large enough for every nonce a run hands out
    MinGasPrice,        \* of the network configuration
    MaxDrops,           \* bound on the calls of DropTransactions
    MaxConfigFailures,  \* bound on the failures of GetNetworkConfig
    MaxLosses           \* bound on transactions the network loses

ASSUME NoTxIsNoTx == NoTx \notin Txs
ASSUME MinGasPriceIsPositive == MinGasPrice \in Nat \ {0}

VARIABLES
    computedNonce, computedNonceWasSet, lowestNonce,
    gasPrice, nonceUntilGasIncreased, transactions,     \* addressNonceHandler
    txPc, txAccount, txNonce, txGasPrice,               \* the callers
    resendPc, resendAccount, resendableTxs,             \* the resend goroutine
    closed,
    gasFrom,            \* history: where gasPrice comes from
    drops, configFailures, losses                       \* bounded environment

nonceVars == <<computedNonce, computedNonceWasSet, lowestNonce>>
gasVars == <<gasPrice, nonceUntilGasIncreased, gasFrom>>
anhVars == <<nonceVars, gasVars, transactions>>
txVars == <<txAccount, txNonce, txGasPrice>>
callerVars == <<txPc, txVars>>
resendVars == <<resendPc, resendAccount, resendableTxs, closed>>
envVars == <<drops, configFailures, losses>>
vars == <<chainVars, anhVars, callerVars, resendVars, envVars>>

Init ==
    /\ ChainInit
    /\ computedNonce = 0
    /\ computedNonceWasSet = FALSE
    /\ lowestNonce = 0
    /\ gasPrice = 0 /\ gasFrom = "nowhere"
    /\ nonceUntilGasIncreased = 0
    /\ transactions = [n \in Nonces |-> NoTx]
    /\ txPc = [t \in Txs |-> "none"]
    /\ txAccount = [t \in Txs |-> 0]
    /\ txNonce = [t \in Txs |-> 0]
    /\ txGasPrice = [t \in Txs |-> 0]
    /\ resendPc = "idle"
    /\ resendAccount = 0
    /\ resendableTxs = {}
    /\ closed = FALSE
    /\ drops = 0 /\ configFailures = 0 /\ losses = 0

Goto(t, label) == txPc' = [txPc EXCEPT ![t] = label]

MaxOf(a, b) == IF a >= b THEN a ELSE b

MinOf(S) == CHOOSE n \in S : \A m \in S : n <= m

-----------------------------------------------------------------------------
(* ApplyNonceAndGasPrice                                                   *)

\* a caller fills in a transaction by hand, or from GetDefaultTransactionArguments
NewTransaction(t) ==
    /\ txPc[t] = "none"
    /\ \E args \in {<<0, 0>>, <<accountNonce, MinGasPrice>>} :
          /\ txNonce' = [txNonce EXCEPT ![t] = args[1]]
          /\ txGasPrice' = [txGasPrice EXCEPT ![t] = args[2]]
    /\ Goto(t, "new")
    /\ UNCHANGED <<txAccount, chainVars, anhVars, resendVars, envVars>>

\* the conditions under which handleTxWithSameNonce returns no error
MayReplace(oldTx, t) ==
    \/ txGasPrice[oldTx] < txGasPrice[t]
    \/ txGasPrice[oldTx] = txGasPrice[t] /\ txGasPrice[oldTx] < gasPrice

handleTxWithSameNonce(t) ==
    LET oldTx == transactions[txNonce[t]]
    IN  /\ txPc[t] = "new"
        /\ Goto(t, IF oldTx = NoTx \/ MayReplace(oldTx, t)
                   THEN "apply" ELSE "ErrTxWithSameNonceAndGasPriceAlreadySent")
        /\ UNCHANGED <<txVars, chainVars, anhVars, resendVars, envVars>>

GetAccount(t) ==
    /\ txPc[t] = "apply"
    /\ txAccount' = [txAccount EXCEPT ![t] = accountNonce]
    /\ Goto(t, "account")
    /\ UNCHANGED <<txNonce, txGasPrice, chainVars, anhVars, resendVars, envVars>>

GetAccountFails(t) ==
    /\ txPc[t] = "apply"
    /\ txNonce' = [txNonce EXCEPT ![t] = 0]
    /\ Goto(t, "getAccountFailed")
    /\ UNCHANGED <<txAccount, txGasPrice, chainVars, anhVars, resendVars, envVars>>

DetectGap(t) ==
    /\ txPc[t] = "account"
    /\ \/ /\ lowestNonce > txAccount[t]
          /\ txNonce' = [txNonce EXCEPT ![t] = txAccount[t]]
          /\ Goto(t, "ErrGapNonce")
       \/ /\ lowestNonce <= txAccount[t]
          /\ Goto(t, "noGap")
          /\ UNCHANGED txNonce
    /\ UNCHANGED <<txAccount, txGasPrice, chainVars, anhVars, resendVars, envVars>>

\* mutant: the account's nonce is taken on every call
getNonceAlwaysFetches(t) ==
    /\ txPc[t] = "noGap"
    /\ computedNonce' = txAccount[t]
    /\ txNonce' = [txNonce EXCEPT ![t] = computedNonce']
    /\ computedNonceWasSet' = TRUE
    /\ Goto(t, "gas")
    /\ UNCHANGED <<lowestNonce, txAccount, txGasPrice, transactions, chainVars, gasVars, resendVars, envVars>>

getNonceUpdatingCurrent(t) ==
    /\ txPc[t] = "noGap"
    /\ \/ /\ ~computedNonceWasSet
          /\ computedNonce' = txAccount[t]
          /\ computedNonceWasSet' = TRUE
          /\ txNonce' = [txNonce EXCEPT ![t] = computedNonce']
       \/ /\ computedNonceWasSet
          /\ computedNonce' = computedNonce + 1
          /\ txNonce' = [txNonce EXCEPT ![t] = MaxOf(computedNonce', txAccount[t])]
          /\ UNCHANGED computedNonceWasSet
    /\ Goto(t, "gas")
    /\ UNCHANGED <<lowestNonce, txAccount, txGasPrice, transactions, chainVars, gasVars, resendVars, envVars>>

\* mutant: the gas price is fetched only after an increase
FetchOnlyAfterIncrease(t) == txNonce[t] = nonceUntilGasIncreased + 1

FetchRequired(t) == txNonce[t] = nonceUntilGasIncreased + 1 \/ gasPrice = 0

fetchGasPriceIfRequired(t) ==
    /\ txPc[t] = "gas"
    /\ Goto(t, IF FetchRequired(t) THEN "config" ELSE "price")
    /\ UNCHANGED <<txVars, chainVars, anhVars, resendVars, envVars>>

GetNetworkConfig(t) ==
    /\ txPc[t] = "config"
    /\ \/ /\ gasPrice' = MinGasPrice /\ gasFrom' = "network"
          /\ UNCHANGED configFailures
       \/ /\ configFailures < MaxConfigFailures
          /\ configFailures' = configFailures + 1
          /\ gasPrice' = 0 /\ gasFrom' = "failure"
    /\ Goto(t, "price")
    /\ UNCHANGED <<txVars, nonceVars, nonceUntilGasIncreased, transactions, chainVars, resendVars, drops, losses>>

ApplyGasPrice(t) ==
    /\ txPc[t] = "price"
    /\ txGasPrice' = [txGasPrice EXCEPT ![t] = MaxOf(gasPrice, txGasPrice[t])]
    /\ Goto(t, "applied")
    /\ UNCHANGED <<txAccount, txNonce, chainVars, anhVars, resendVars, envVars>>

\* a caller calls ApplyNonceAndGasPrice again after an error
Retry(t) ==
    /\ txPc[t] \in {"getAccountFailed", "ErrGapNonce", "ErrTxWithSameNonceAndGasPriceAlreadySent"}
    /\ Goto(t, "new")
    /\ UNCHANGED <<txVars, chainVars, anhVars, resendVars, envVars>>

-----------------------------------------------------------------------------
(* SendTransaction                                                         *)

getOrCreateAddressNonceHandler(t) ==
    /\ txPc[t] = "applied"
    /\ resendPc = "idle"
    /\ Goto(t, "store")
    /\ UNCHANGED <<txVars, chainVars, anhVars, resendVars, envVars>>

SendTransaction(t) ==
    /\ txPc[t] = "store"
    /\ transactions' = [transactions EXCEPT ![txNonce[t]] = t]
    /\ Goto(t, "proxy")
    /\ UNCHANGED <<nonceVars, gasVars, txVars, chainVars, resendVars, envVars>>

\* the proxy accepts the transaction, or answers with an error
ProxySendTransaction(t) ==
    /\ txPc[t] = "proxy"
    /\ \/ /\ Admissible(txNonce[t])
          /\ Admit({InPool(t, txNonce[t])})
          /\ Goto(t, "sent")
       \/ /\ Goto(t, "sendFailed")
          /\ UNCHANGED chainVars
    /\ UNCHANGED <<txVars, anhVars, resendVars, envVars>>

-----------------------------------------------------------------------------
(* resendTransactions, which the ticker of resendTransactionsLoop starts;  *)
(* when GetAccount fails nothing happens until the next tick.              *)

ResendGetAccount ==
    /\ resendPc = "idle"
    /\ ~closed
    /\ resendAccount' = accountNonce
    /\ resendPc' = "sweep"
    /\ UNCHANGED <<resendableTxs, closed, chainVars, anhVars, callerVars, envVars>>

\* mutant: the transaction right above the account's nonce is dropped too
KeepAbove(n) == transactions[n] # NoTx /\ n > resendAccount + 1

Keep(n) == transactions[n] # NoTx /\ n > resendAccount

ReSendTransactionsIfRequired ==
    /\ resendPc = "sweep"
    /\ \/ /\ resendAccount = computedNonce
          /\ lowestNonce' = computedNonce
          /\ transactions' = [n \in Nonces |-> NoTx]
          /\ resendPc' = "idle"
          /\ UNCHANGED resendableTxs
       \/ /\ resendAccount # computedNonce
          /\ LET kept == {n \in Nonces : Keep(n)}
             IN  /\ transactions' = [n \in Nonces |-> IF n \in kept THEN transactions[n] ELSE NoTx]
                 /\ lowestNonce' = MinOf(kept \cup {computedNonce})
                 /\ resendableTxs' = {InPool(transactions[n], n) : n \in kept}
                 /\ resendPc' = IF kept = {} THEN "idle" ELSE "resend"
    /\ UNCHANGED <<computedNonce, computedNonceWasSet, gasVars, resendAccount, closed, chainVars, callerVars, envVars>>

ResendSucceeds ==
    /\ resendPc = "resend"
    /\ Admit(resendableTxs)
    /\ resendPc' = "idle"
    /\ resendableTxs' = {}
    /\ UNCHANGED <<resendAccount, closed, anhVars, callerVars, envVars>>

ResendFails ==
    /\ resendPc = "resend"
    /\ resendPc' = "idle"
    /\ resendableTxs' = {}
    /\ UNCHANGED <<resendAccount, closed, chainVars, anhVars, callerVars, envVars>>

ResendStep == ResendGetAccount \/ ReSendTransactionsIfRequired

DropTransactions ==
    /\ drops < MaxDrops
    /\ drops' = drops + 1
    /\ transactions' = [n \in Nonces |-> NoTx]
    /\ computedNonceWasSet' = FALSE
    /\ gasPrice' = gasPrice + 1
    /\ gasFrom' = IF gasPrice = 0 THEN "increase" ELSE gasFrom
    /\ nonceUntilGasIncreased' = computedNonce
    /\ UNCHANGED <<computedNonce, lowestNonce, configFailures, losses, chainVars, callerVars, resendVars>>

Close ==
    /\ ~closed
    /\ closed' = TRUE
    /\ UNCHANGED <<resendPc, resendAccount, resendableTxs, chainVars, anhVars, callerVars, envVars>>

-----------------------------------------------------------------------------

NetworkLoses ==
    /\ losses < MaxLosses
    /\ losses' = losses + 1
    /\ \E p \in pool : Lose(p)
    /\ UNCHANGED <<drops, configFailures, anhVars, callerVars, resendVars>>

ChainStep == Execute /\ UNCHANGED <<anhVars, callerVars, resendVars, envVars>>

ApplyStep(t) ==
    \/ handleTxWithSameNonce(t) \/ GetAccount(t) \/ DetectGap(t)
    \/ getNonceUpdatingCurrent(t) \/ fetchGasPriceIfRequired(t)
    \/ GetNetworkConfig(t) \/ ApplyGasPrice(t) \/ Retry(t)

SendStep(t) ==
    getOrCreateAddressNonceHandler(t) \/ SendTransaction(t) \/ ProxySendTransaction(t)

Next ==
    \/ \E t \in Txs : NewTransaction(t) \/ ApplyStep(t) \/ GetAccountFails(t) \/ SendStep(t)
    \/ ResendStep \/ ResendSucceeds \/ ResendFails
    \/ DropTransactions \/ Close
    \/ NetworkLoses \/ ChainStep

Spec == Init /\ [][Next]_vars

\* the ticker keeps firing and the proxy does not fail for ever
ResendFairness ==
    WF_vars(ResendStep) /\ WF_vars(ResendSucceeds \/ ResendFails) /\ SF_vars(ResendSucceeds)

FairSpec == Spec /\ ResendFairness

\* a program that works on one transaction at a time, tries again after an
\* error, and neither starves nor closes the handler; the chain goes on executing
OneAtATime ==
    Cardinality({t \in Txs : txPc[t] \notin {"none", "sent", "sendFailed"}}) <= 1

\* the transactions are interchangeable: they are taken in a fixed order
InSomeOrder ==
    \A t \in Txs : txPc[t] = "none" /\ txPc'[t] # "none" => t = CHOOSE u \in Txs : txPc[u] = "none"

SequentialSpec ==
    /\ Init
    /\ [][Next /\ OneAtATime' /\ InSomeOrder /\ ~closed']_vars
    /\ ResendFairness
    /\ WF_vars(ChainStep)
    /\ \A t \in Txs : WF_vars(ApplyStep(t)) /\ SF_vars(GetAccount(t)) /\ SF_vars(SendStep(t))

-----------------------------------------------------------------------------

BeforeNonce == {"none", "new", "apply", "account", "noGap", "getAccountFailed",
                "ErrGapNonce", "ErrTxWithSameNonceAndGasPriceAlreadySent"}

TypeOK ==
    /\ ChainTypeOK
    /\ computedNonce \in Nonces
    /\ computedNonceWasSet \in BOOLEAN
    /\ lowestNonce \in Nonces
    /\ gasPrice \in Nat /\ gasFrom \in {"nowhere", "network", "failure", "increase"}
    /\ nonceUntilGasIncreased \in Nonces
    /\ transactions \in [Nonces -> Txs \cup {NoTx}]
    /\ txPc \in [Txs -> BeforeNonce \cup {"gas", "config", "price", "applied", "store",
                                          "proxy", "sent", "sendFailed"}]
    /\ txAccount \in [Txs -> Nat]
    /\ txNonce \in [Txs -> Nonces]
    /\ txGasPrice \in [Txs -> Nat]
    /\ resendPc \in {"idle", "sweep", "resend"}
    /\ resendAccount \in Nat
    /\ resendableTxs \subseteq [tx : Txs, nonce : Nonces]
    /\ closed \in BOOLEAN

HoldsNonce(t) == txPc[t] \notin BeforeNonce

Source == INSTANCE NonceSource WITH
    held <- [t \in Txs |-> IF HoldsNonce(t) THEN txNonce[t] ELSE -1],
    disturbed <- drops > 0

(* Concurrent callers get one nonce after the other, starting with the     *)
(* account's: none twice, none left out and none that is used already,     *)
(* although the account is read and the gap is checked before the lock is  *)
(* taken ("This struct is concurrent safe", "This will prevent nonce too   *)
(* low in transaction errors").  DropTransactions ends this.               *)
NoncesFollowEachOther == Source!SourceSpec

(* ApplyNonceAndGasPrice gives a transaction a gas price below the         *)
(* network's minimum only when the last GetNetworkConfig of any caller     *)
(* failed, or when DropTransactions has increased a price that was not     *)
(* known (zero, before the first request or after a failed one) and the    *)
(* price has not been asked for since.  Once a request succeeds, every     *)
(* later price covers the minimum again, although the decision to fetch    *)
(* it, the request and the use are separate steps of concurrent callers.   *)
GasPriceCoversMinimum ==
    [][\A t \in Txs : txPc[t] = "price" /\ txPc'[t] = "applied" =>
            txGasPrice'[t] >= MinGasPrice \/ gasFrom \in {"failure", "increase"}]_vars

Stored(t) == \E n \in Nonces : transactions[n] = t

(* A stored transaction that waits for lower nonces and was lost by the    *)
(* network is brought back into the pool by the resend goroutine, unless   *)
(* the cache is dropped or the handler closed.                             *)
StuckIsResent ==
    \A t \in Txs :
        (Stored(t) /\ txNonce[t] > accountNonce) ~>
            (InPool(t, txNonce[t]) \in pool \/ txNonce[t] <= accountNonce \/ closed \/ drops > 0)

CacheEmpty == \A n \in Nonces : transactions[n] = NoTx

(* DropTransactions is the "fallback plan, when some transactions are      *)
(* completely lost": after it a caller that met the gap and tries again    *)
(* gets a nonce.                                                           *)
DropClearsGap ==
    \A t \in Txs :
        (drops = MaxDrops /\ CacheEmpty /\ txPc[t] = "ErrGapNonce") ~> HoldsNonce(t)
=============================================================================
