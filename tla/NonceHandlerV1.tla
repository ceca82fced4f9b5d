--------------------------- MODULE NonceHandlerV1 ---------------------------
(***************************************************************************)
(* interactors/nonceHandlerV1: the handler of one address, its callers,    *)
(* and the goroutine that resends "stuck transactions".                    *)
(*                                                                         *)
(* GetAccount is asked before anh.mut is taken, so the account's nonce may *)
(* be stale when it is used; the proxy is called after anh.mut is given    *)
(* up.  The resend goroutine holds nth.mutHandlers while it talks to the   *)
(* proxy, which keeps new SendTransaction calls out until it is through.   *)
(***************************************************************************)
EXTENDS AccountChain

CONSTANTS
    NoTx,
    Nonces,             \* large enough for every nonce a run hands out
    PayloadOf,          \* receiver, value and data of a transaction
    MaxReFetch,         \* bound on the calls of ForceNonceReFetch
    MaxForeign          \* bound on transactions other programs send for the account

ASSUME NoTxIsNoTx == NoTx \notin Txs
ASSUME NoncesSuffice == \A n \in FirstNonces : n..(n + Cardinality(Txs)) \subseteq Nonces

VARIABLES
    computedNonce, computedNonceWasSet, transactions,   \* addressNonceHandler
    txPc, txAccount, txNonce,                           \* the callers
    resendPc, resendAccount, resendableTxs,             \* the resend goroutine
    closed,
    checkForDuplicates,                                 \* as NewNonceTransactionHandlerV1 was told
    refetches, foreigns                                 \* bounded environment

anhVars == <<computedNonce, computedNonceWasSet, transactions>>
callerVars == <<txPc, txAccount, txNonce>>
resendVars == <<resendPc, resendAccount, resendableTxs, closed, checkForDuplicates>>
envVars == <<refetches, foreigns>>
vars == <<chainVars, anhVars, callerVars, resendVars, envVars>>

Init ==
    /\ ChainInit
    /\ computedNonce = 0
    /\ computedNonceWasSet = FALSE
    /\ transactions = [n \in Nonces |-> NoTx]
    /\ txPc = [t \in Txs |-> "new"]
    /\ txAccount = [t \in Txs |-> 0]
    /\ txNonce = [t \in Txs |-> 0]
    /\ resendPc = "idle"
    /\ resendAccount = 0
    /\ resendableTxs = {}
    /\ closed = FALSE
    /\ checkForDuplicates \in BOOLEAN
    /\ refetches = 0 /\ foreigns = 0

Goto(t, label) == txPc' = [txPc EXCEPT ![t] = label]

MaxOf(a, b) == IF a >= b THEN a ELSE b

-----------------------------------------------------------------------------
(* GetNonce                                                                *)

GetAccount(t) ==
    /\ txPc[t] = "new"
    /\ \/ /\ txAccount' = [txAccount EXCEPT ![t] = accountNonce]
          /\ Goto(t, "account")
       \/ /\ Goto(t, "getNonceFailed")
          /\ UNCHANGED txAccount
    /\ UNCHANGED <<txNonce, chainVars, anhVars, resendVars, envVars>>

\* mutant: the counter is not advanced on the first call
getNonceLeavesFlag(t) ==
    /\ txPc[t] = "account"
    /\ computedNonce' = txAccount[t]
    /\ txNonce' = [txNonce EXCEPT ![t] = computedNonce']
    /\ Goto(t, "hasNonce")
    /\ UNCHANGED <<computedNonceWasSet, txAccount, transactions, chainVars, resendVars, envVars>>

getNonceUpdatingCurrent(t) ==
    /\ txPc[t] = "account"
    /\ \/ /\ ~computedNonceWasSet
          /\ computedNonce' = txAccount[t]
          /\ computedNonceWasSet' = TRUE
          /\ txNonce' = [txNonce EXCEPT ![t] = computedNonce']
       \/ /\ computedNonceWasSet
          /\ computedNonce' = computedNonce + 1
          /\ txNonce' = [txNonce EXCEPT ![t] = MaxOf(computedNonce', txAccount[t])]
          /\ UNCHANGED computedNonceWasSet
    /\ Goto(t, "hasNonce")
    /\ UNCHANGED <<txAccount, transactions, chainVars, resendVars, envVars>>

-----------------------------------------------------------------------------
(* SendTransaction                                                         *)

getOrCreateAddressNonceHandler(t) ==
    /\ txPc[t] = "hasNonce"
    /\ resendPc = "idle"
    /\ Goto(t, IF checkForDuplicates THEN "check" ELSE "store")
    /\ UNCHANGED <<txAccount, txNonce, chainVars, anhVars, resendVars, envVars>>

SamePayloadStored(t) ==
    \E n \in Nonces : transactions[n] # NoTx /\ PayloadOf[transactions[n]] = PayloadOf[t]

isTxAlreadySent(t) ==
    /\ txPc[t] = "check"
    /\ Goto(t, IF SamePayloadStored(t) THEN "duplicate" ELSE "store")
    /\ UNCHANGED <<txAccount, txNonce, chainVars, anhVars, resendVars, envVars>>

\* mutant: the nonce of a refused transaction is not given back
decrementForgotten(t) ==
    /\ txPc[t] = "duplicate"
    /\ Goto(t, "ErrTxAlreadySent")
    /\ UNCHANGED <<anhVars, txAccount, txNonce, chainVars, resendVars, envVars>>

decrementComputedNonce(t) ==
    /\ txPc[t] = "duplicate"
    /\ computedNonce' = IF computedNonce > 0 THEN computedNonce - 1 ELSE computedNonce
    /\ Goto(t, "ErrTxAlreadySent")
    /\ UNCHANGED <<computedNonceWasSet, transactions, txAccount, txNonce, chainVars, resendVars, envVars>>

sendTransaction(t) ==
    /\ txPc[t] = "store"
    /\ transactions' = [transactions EXCEPT ![txNonce[t]] = t]
    /\ Goto(t, "proxy")
    /\ UNCHANGED <<computedNonce, computedNonceWasSet, txAccount, txNonce, chainVars, resendVars, envVars>>

\* the proxy accepts the transaction, or answers with an error
ProxySendTransaction(t) ==
    /\ txPc[t] = "proxy"
    /\ \/ /\ Admissible(txNonce[t])
          /\ Admit({InPool(t, txNonce[t])})
          /\ Goto(t, "sent")
       \/ /\ Goto(t, "sendFailed")
          /\ UNCHANGED chainVars
    /\ UNCHANGED <<txAccount, txNonce, anhVars, resendVars, envVars>>

-----------------------------------------------------------------------------
(* resendTransactions, which the ticker of resendTransactionsLoop starts;  *)
(* when GetAccount fails nothing happens until the next tick.              *)

ResendGetAccount ==
    /\ resendPc = "idle"
    /\ ~closed
    /\ resendAccount' = accountNonce
    /\ resendPc' = "sweep"
    /\ UNCHANGED <<resendableTxs, closed, checkForDuplicates, chainVars, anhVars, callerVars, envVars>>

\* mutant: the transaction right above the account's nonce is dropped too
KeepAbove(n) == transactions[n] # NoTx /\ n > resendAccount + 1

Keep(n) == transactions[n] # NoTx /\ n > resendAccount

reSendTransactionsIfRequired ==
    /\ resendPc = "sweep"
    /\ \/ /\ resendAccount = computedNonce
          /\ transactions' = [n \in Nonces |-> NoTx]
          /\ resendPc' = "idle"
          /\ UNCHANGED resendableTxs
       \/ /\ resendAccount # computedNonce
          /\ transactions' = [n \in Nonces |-> IF Keep(n) THEN transactions[n] ELSE NoTx]
          /\ resendableTxs' = {InPool(transactions[n], n) : n \in {m \in Nonces : Keep(m)}}
          /\ resendPc' = IF resendableTxs' = {} THEN "idle" ELSE "resend"
    /\ UNCHANGED <<computedNonce, computedNonceWasSet, resendAccount, closed, checkForDuplicates, chainVars, callerVars, envVars>>

\* the network takes what it can use of the batch, or the call fails
ResendTransactions ==
    /\ resendPc = "resend"
    /\ Admit(resendableTxs) \/ UNCHANGED chainVars
    /\ resendPc' = "idle"
    /\ resendableTxs' = {}
    /\ UNCHANGED <<resendAccount, closed, checkForDuplicates, anhVars, callerVars, envVars>>

ForceNonceReFetch ==
    /\ refetches < MaxReFetch
    /\ refetches' = refetches + 1
    /\ computedNonceWasSet' = FALSE
    /\ UNCHANGED <<computedNonce, transactions, foreigns, chainVars, callerVars, resendVars>>

Close ==
    /\ ~closed
    /\ closed' = TRUE
    /\ UNCHANGED <<resendPc, resendAccount, resendableTxs, checkForDuplicates, chainVars, anhVars, callerVars, envVars>>

-----------------------------------------------------------------------------

ForeignTransaction ==
    /\ foreigns < MaxForeign
    /\ foreigns' = foreigns + 1
    /\ accountNonce' = accountNonce + 1
    /\ pool' = {p \in pool : p.nonce > accountNonce}
    /\ UNCHANGED <<firstNonce, executed, refetches, anhVars, callerVars, resendVars>>

ChainStep == Execute /\ UNCHANGED <<anhVars, callerVars, resendVars, envVars>>

CallerStep(t) ==
    \/ GetAccount(t) \/ getNonceUpdatingCurrent(t) \/ getOrCreateAddressNonceHandler(t)
    \/ isTxAlreadySent(t) \/ decrementComputedNonce(t) \/ sendTransaction(t)
    \/ ProxySendTransaction(t)

Next ==
    \/ \E t \in Txs : CallerStep(t)
    \/ ResendGetAccount \/ reSendTransactionsIfRequired \/ ResendTransactions
    \/ ForceNonceReFetch \/ Close
    \/ ForeignTransaction \/ ChainStep

Spec == Init /\ [][Next]_vars

-----------------------------------------------------------------------------

TypeOK ==
    /\ ChainTypeOK
    /\ computedNonce \in Nonces
    /\ computedNonceWasSet \in BOOLEAN
    /\ transactions \in [Nonces -> Txs \cup {NoTx}]
    /\ txPc \in [Txs -> {"new", "account", "getNonceFailed", "hasNonce", "check", "duplicate",
                         "ErrTxAlreadySent", "store", "proxy", "sent", "sendFailed"}]
    /\ txAccount \in [Txs -> Nat]
    /\ txNonce \in [Txs -> Nonces]
    /\ resendPc \in {"idle", "sweep", "resend"}
    /\ resendAccount \in Nat
    /\ resendableTxs \subseteq [tx : Txs, nonce : Nonces]
    /\ closed \in BOOLEAN /\ checkForDuplicates \in BOOLEAN

HoldsNonce(t) == txPc[t] \notin {"new", "account", "getNonceFailed", "ErrTxAlreadySent"}

\* nobody else used the account, and no nonce was given back or fetched anew
Undisturbed ==
    /\ refetches = 0 /\ foreigns = 0
    /\ \A t \in Txs : txPc[t] # "ErrTxAlreadySent"

Source == INSTANCE NonceSource WITH
    held <- [t \in Txs |-> IF HoldsNonce(t) THEN txNonce[t] ELSE -1],
    disturbed <- ~Undisturbed

(* Concurrent callers of GetNonce get one nonce after the other, starting  *)
(* with the account's: none twice, none left out and none that is used     *)
(* already, although the account is read before the lock is taken and may  *)
(* be stale ("This struct is concurrent safe", "This will prevent nonce    *)
(* too low in transaction errors").  A refused duplicate, a forced         *)
(* re-fetch or another program using the account ends this.                *)
NoncesFollowEachOther == Source!SourceSpec

(* A transaction that waits in the network behind lower nonces is in the   *)
(* cache: the sweeps have not dropped it, so that it is sent again when it *)
(* gets lost, and a later call with the same payload is refused.           *)
WaitingIsStored ==
    Undisturbed =>
        \A p \in pool : p.nonce > accountNonce => transactions[p.nonce] = p.tx

(* A refused duplicate gives back exactly the nonce count that GetNonce    *)
(* took for it: whatever the interleaving, computedNonce counts the        *)
(* transactions that still hold a nonce.                                   *)
RefusalReturnsNonce ==
    computedNonceWasSet /\ refetches = 0 /\ foreigns = 0 =>
        computedNonce + 1 = firstNonce + Cardinality({t \in Txs : HoldsNonce(t)})

(* "checkForDuplicates set as true will prevent sending a transaction with *)
(* the same receiver, value and data."  Not so for concurrent calls: the   *)
(* check and the insertion are separate critical sections.                 *)
NoDuplicatePayloadSent ==
    checkForDuplicates =>
        \A t, u \in Txs :
            t # u /\ PayloadOf[t] = PayloadOf[u] =>
                ~(InPool(t, txNonce[t]) \in pool /\ InPool(u, txNonce[u]) \in pool)
=============================================================================
