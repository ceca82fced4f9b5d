----------------------------- MODULE WalletFlow -----------------------------
(***************************************************************************)
(* The wallet tracker workflow as a program runs it: the walletTracker     *)
(* goroutine finds deposits, and a second goroutine takes the accumulated  *)
(* addresses, lets the moveBalanceHandler create a transaction for each,   *)
(* and sends what the transactionInteractor has accumulated (the loop of   *)
(* examples/examplesFlowWalletTracker).                                    *)
(*                                                                         *)
(* External: the accounts.  A hyper block pays its transactions out when   *)
(* it is produced; a transaction in the network's pool is executed when    *)
(* its nonce is the sender's and the balance covers value and fee.         *)
(***************************************************************************)
EXTENDS WalletsTracker, TransactionInteractor, FiniteSets

CONSTANT Fee            \* gas price times gas limit of a move-balance transaction

ASSUME FeeIsPositive == Fee \in Nat \ {0}

VARIABLES
    balance, nonce, pool,       \* accounts and the network's pool
    cachedNetConfigs,           \* the network configuration has been cached
    moverPc, addresses          \* the second goroutine

accountVars == <<balance, nonce, pool>>
moverVars == <<cachedNetConfigs, moverPc, addresses>>
vars == <<trackerVars, interactorVars, accountVars, moverVars>>

Init ==
    /\ TrackerInit
    /\ InteractorInit
    /\ balance = [a \in Trackable |-> 0]
    /\ nonce = [a \in Trackable |-> 0]
    /\ pool = {}
    /\ cachedNetConfigs = FALSE
    /\ moverPc = "wait"
    /\ addresses = {}

-----------------------------------------------------------------------------

PaidTo(a, txs) ==
    LET paid[i \in 0..Len(txs)] ==
            IF i = 0 THEN 0
            ELSE paid[i - 1] + IF txs[i].receiver = a /\ txs[i].value # Unparsable
                               THEN txs[i].value ELSE 0
    IN  paid[Len(txs)]

ProduceHyperBlock ==
    /\ height < Len(Blocks)
    /\ height' = height + 1
    /\ balance' = [a \in Trackable |-> balance[a] + PaidTo(a, Blocks[height'])]
    /\ UNCHANGED <<lastProcessedNonce, addressesMap, handlerSet, closed, loopVars, notifications,
                   found, crashes, nonce, pool, interactorVars, moverVars>>

ExecuteTransaction ==
    \E p \in pool :
        /\ p.nonce = nonce[p.sender]
        /\ p.value + Fee <= balance[p.sender]
        /\ nonce' = [nonce EXCEPT ![p.sender] = @ + 1]
        /\ balance' = [balance EXCEPT ![p.sender] = @ - (p.value + Fee)]
        /\ pool' = {q \in pool : q.sender = p.sender => q.nonce > p.nonce}
        /\ UNCHANGED <<trackerVars, interactorVars, moverVars>>

-----------------------------------------------------------------------------
(* The second goroutine                                                    *)

CacheNetworkConfigs ==
    /\ ~cachedNetConfigs
    /\ cachedNetConfigs' = TRUE
    /\ UNCHANGED <<moverPc, addresses, trackerVars, interactorVars, accountVars>>

TakeAddresses ==
    /\ moverPc = "wait"
    /\ addresses' = addressesMap
    /\ GetLatestTrackedAddresses
    /\ moverPc' = "generate"
    /\ UNCHANGED <<cachedNetConfigs, interactorVars, accountVars>>

\* mutant: the fee is not deducted
ValueToMoveWithoutFee(a) == balance[a]

ValueToMove(a) == balance[a] - Fee

\* generateTransaction fails with an error that is logged, or finds too little
GenerateNothing(a) ==
    /\ a \in addresses
    /\ moverPc = "generate"
    /\ addresses' = addresses \ {a}
    /\ UNCHANGED <<cachedNetConfigs, moverPc, trackerVars, interactorVars, accountVars>>

generateTransaction(a) ==
    /\ a \in addresses
    /\ moverPc = "generate"
    /\ cachedNetConfigs
    /\ balance[a] >= MinimumBalance
    /\ AddTransaction([sender |-> a, nonce |-> nonce[a], value |-> ValueToMove(a)])
    /\ addresses' = addresses \ {a}
    /\ UNCHANGED <<cachedNetConfigs, moverPc, trackerVars, accountVars>>

StartSending ==
    /\ moverPc = "generate"
    /\ addresses = {}
    /\ PopAccumulatedTransactions
    /\ moverPc' = "send"
    /\ UNCHANGED <<cachedNetConfigs, addresses, trackerVars, accountVars>>

\* the network refuses a transaction whose nonce is used, and a negative value,
\* which generateTransaction computes from a balance below the fee
Accepted(tx) == tx.nonce >= nonce[tx.sender] /\ tx.value >= 0

SendToNetwork ==
    /\ moverPc = "send"
    /\ SendBunch
    /\ pool' = pool \cup {Bunch[i] : i \in {k \in DOMAIN Bunch : Accepted(Bunch[k])}}
    /\ UNCHANGED <<balance, nonce, trackerVars, moverVars>>

SendingFails ==
    /\ moverPc = "send"
    /\ SendBunchFails
    /\ moverPc' = "wait"
    /\ UNCHANGED <<cachedNetConfigs, addresses, trackerVars, accountVars>>

SendingEnds ==
    /\ moverPc = "send"
    /\ SendTransactionsAsBunchReturns
    /\ moverPc' = "wait"
    /\ UNCHANGED <<cachedNetConfigs, addresses, trackerVars, accountVars>>

MoverStep ==
    \/ TakeAddresses \/ StartSending \/ SendToNetwork \/ SendingFails \/ SendingEnds
    \/ \E a \in Trackable : GenerateNothing(a) \/ generateTransaction(a)

Restart ==
    /\ RestartTracker
    /\ RestartInteractor
    /\ cachedNetConfigs' = FALSE
    /\ moverPc' = "wait"
    /\ addresses' = {}
    /\ UNCHANGED accountVars

TrackerAlone == UNCHANGED <<interactorVars, accountVars, moverVars>>

Next ==
    \/ ProduceHyperBlock \/ ExecuteTransaction
    \/ TrackerStep /\ TrackerAlone
    \/ SetHandlerForNewDepositTransactionFound /\ TrackerAlone
    \/ CloseTracker /\ TrackerAlone
    \/ CacheNetworkConfigs \/ MoverStep \/ Restart

Spec == Init /\ [][Next]_vars

\* both goroutines keep running; requests do not fail for ever, and the node
\* asked for the newest hyper block does not lag behind for ever
FairSpec ==
    /\ Spec
    /\ WF_vars(TrackerStep /\ TrackerAlone)
    /\ WF_vars(MoverStep)
    /\ SF_vars(GetHyperBlockByNonce /\ TrackerAlone)
    /\ SF_vars(GetLatestHyperBlockNonce /\ networkNonce' = height /\ TrackerAlone)

-----------------------------------------------------------------------------

TypeOK ==
    /\ TrackerTypeOK
    /\ balance \in [Trackable -> Nat]
    /\ nonce \in [Trackable -> Nat]
    /\ \A p \in pool : p.sender \in Trackable /\ p.nonce \in Nat /\ p.value \in Nat
    /\ cachedNetConfigs \in BOOLEAN
    /\ moverPc \in {"wait", "generate", "send"}
    /\ addresses \subseteq Trackable

Deposits == {t \in Transactions : Qualifies(Blocks[t[1]][t[2]])}

(* No deposit is passed over: a hyper block is reported to the             *)
(* LastProcessedNonceHandler only after every deposit in it was found,     *)
(* wherever the program crashes and whichever request fails.  And the      *)
(* handler hears of a deposit again only when a crash interrupted the      *)
(* hyper block it is in.                                                   *)
ProcessedWereFound ==
    \A d \in Deposits :
        /\ d[1] <= lastProcessedNonce => d \in found
        /\ notifications[d] <= 1 + crashes

(* A move-balance transaction whose turn it is can be paid: the balance    *)
(* covers value and fee, although the balance was read long before and     *)
(* several transactions of one account may be waiting.                     *)
MovesArePaidFor ==
    \A p \in pool : p.nonce = nonce[p.sender] => p.value + Fee <= balance[p.sender]

(* Splitting into bunches loses, duplicates and reorders nothing as long   *)
(* as no bunch fails.                                                      *)
BunchesKeepEverything ==
    ~failed => added = sent \o transactions \o txAccumulator

\* a deposit to a is in the network, and the tracker has not found it
DepositAhead(a) ==
    \E d \in Deposits : Blocks[d[1]][d[2]].receiver = a /\ d[1] <= height /\ d \notin found

(* The receiver of every deposit gets to the goroutine that moves          *)
(* balances, unless the tracker is closed: requests fail, the network      *)
(* grows, addresses are taken while others are found, and the tracker      *)
(* still catches up.  After a crash the deposits that were not found yet   *)
(* are found, while addresses accumulated before it are gone.              *)
DepositsReachTheMover ==
    \A a \in Trackable :
        DepositAhead(a) ~> (a \in addresses \/ closed \/ (crashes > 0 /\ ~DepositAhead(a)))
=============================================================================
