--------------------------- MODULE WalletsTracker ---------------------------
(***************************************************************************)
(* workflows: the walletTracker goroutine, which reads hyper block after   *)
(* hyper block, and its addressesAccumulator.  The number of the last      *)
(* processed hyper block is kept by a LastProcessedNonceHandler, outside   *)
(* the tracker, and survives a crash; everything else does not.            *)
(***************************************************************************)
EXTENDS Integers, Sequences

CONSTANTS
    Blocks,             \* the transactions of the hyper blocks 1, 2, ...
    Trackable,          \* addresses for which IsTrackableAddresses holds
    MinimumBalance,
    MaxCrashes          \* bound on crashes of the program

Unparsable == -1        \* a Value that is not a decimal number

ASSUME BlocksHoldTransfers ==
    /\ Blocks \in Seq({Blocks[n] : n \in DOMAIN Blocks})
    /\ \A n \in DOMAIN Blocks :
        /\ Blocks[n] \in Seq({Blocks[n][i] : i \in DOMAIN Blocks[n]})
        /\ \A i \in DOMAIN Blocks[n] : Blocks[n][i].value \in Nat \cup {Unparsable}

VARIABLES
    height,             \* number of hyper blocks the network has produced
    lastProcessedNonce, \* LastProcessedNonceHandler
    addressesMap,       \* addressesAccumulator
    handlerSet,         \* handlerNewDepositTransaction # nil
    closed,
    trackerPc, networkNonce, blockNonce, index,     \* processLoop
    notifications,      \* history: calls of the handler, by transaction
    found,              \* history: transactions whose receiver was accumulated
    crashes

loopVars == <<trackerPc, networkNonce, blockNonce, index>>
trackerVars == <<height, lastProcessedNonce, addressesMap, handlerSet, closed, loopVars,
                 notifications, found, crashes>>

Transactions == UNION {{<<n, i>> : i \in DOMAIN Blocks[n]} : n \in DOMAIN Blocks}

TrackerInit ==
    /\ height = 0
    /\ lastProcessedNonce = 0
    /\ addressesMap = {}
    /\ handlerSet = FALSE
    /\ closed = FALSE
    /\ trackerPc = "wait" /\ networkNonce = 0 /\ blockNonce = 0 /\ index = 0
    /\ notifications = [t \in Transactions |-> 0]
    /\ found = {}
    /\ crashes = 0

-----------------------------------------------------------------------------
(* fetchAndProcessHyperBlocks                                              *)

\* the timer fires; the network's number may come from a node that lags behind
GetLatestHyperBlockNonce ==
    /\ trackerPc = "wait"
    /\ ~closed
    /\ networkNonce' \in 0..height
    /\ blockNonce' = lastProcessedNonce + 1
    /\ trackerPc' = "loop"
    /\ UNCHANGED <<height, lastProcessedNonce, addressesMap, handlerSet, closed, index,
                   notifications, found, crashes>>

\* mutant: the newest hyper block is left out
MoreBlocksButLast == blockNonce < networkNonce

MoreBlocks == blockNonce <= networkNonce

\* mutant: the hyper block is marked as processed when it is requested
GetHyperBlockMarksProcessed ==
    /\ trackerPc = "loop"
    /\ MoreBlocks
    /\ trackerPc' = "block"
    /\ index' = 1
    /\ lastProcessedNonce' = blockNonce
    /\ UNCHANGED <<height, addressesMap, handlerSet, closed, networkNonce,
                   blockNonce, notifications, found, crashes>>

GetHyperBlockByNonce ==
    /\ trackerPc = "loop"
    /\ MoreBlocks
    /\ trackerPc' = "block"
    /\ index' = 1
    /\ UNCHANGED <<height, lastProcessedNonce, addressesMap, handlerSet, closed, networkNonce,
                   blockNonce, notifications, found, crashes>>

\* a request fails, or every block was processed: wait for the next tick
EndOfCheck ==
    /\ trackerPc = "loop"
    /\ trackerPc' = "wait"
    /\ UNCHANGED <<height, lastProcessedNonce, addressesMap, handlerSet, closed, networkNonce,
                   blockNonce, index, notifications, found, crashes>>

Qualifies(tx) ==
    /\ tx.value # Unparsable
    /\ tx.receiver \in Trackable
    /\ tx.value >= MinimumBalance

\* notifyNewDepositTransactionFound and push, or nothing
processTransaction ==
    LET tx == Blocks[blockNonce][index]
    IN  /\ trackerPc = "block"
        /\ index <= Len(Blocks[blockNonce])
        /\ index' = index + 1
        /\ \/ /\ Qualifies(tx)
              /\ notifications' = [notifications EXCEPT ![<<blockNonce, index>>] =
                                      IF handlerSet THEN @ + 1 ELSE @]
              /\ addressesMap' = addressesMap \cup {tx.receiver}
              /\ found' = found \cup {<<blockNonce, index>>}
           \/ /\ ~Qualifies(tx)
              /\ UNCHANGED <<notifications, addressesMap, found>>
        /\ UNCHANGED <<height, lastProcessedNonce, handlerSet, closed, trackerPc, networkNonce,
                       blockNonce, crashes>>

ProcessedNonce ==
    /\ trackerPc = "block"
    /\ index > Len(Blocks[blockNonce])
    /\ lastProcessedNonce' = blockNonce
    /\ blockNonce' = blockNonce + 1
    /\ trackerPc' = "loop"
    /\ UNCHANGED <<height, addressesMap, handlerSet, closed, networkNonce, index,
                   notifications, found, crashes>>

-----------------------------------------------------------------------------

SetHandlerForNewDepositTransactionFound ==
    /\ ~handlerSet
    /\ handlerSet' = TRUE
    /\ UNCHANGED <<height, lastProcessedNonce, addressesMap, closed, loopVars,
                   notifications, found, crashes>>

\* pop of the accumulator; the caller gets the addresses
GetLatestTrackedAddresses ==
    /\ addressesMap' = {}
    /\ UNCHANGED <<height, lastProcessedNonce, handlerSet, closed, loopVars,
                   notifications, found, crashes>>

CloseTracker ==
    /\ ~closed
    /\ closed' = TRUE
    /\ UNCHANGED <<height, lastProcessedNonce, addressesMap, handlerSet, loopVars,
                   notifications, found, crashes>>

\* the program ends at any point and is started again
RestartTracker ==
    /\ crashes < MaxCrashes
    /\ crashes' = crashes + 1
    /\ addressesMap' = {}
    /\ handlerSet' = FALSE
    /\ closed' = FALSE
    /\ trackerPc' = "wait" /\ networkNonce' = 0 /\ blockNonce' = 0 /\ index' = 0
    /\ UNCHANGED <<height, lastProcessedNonce, notifications, found>>

TrackerStep ==
    \/ GetLatestHyperBlockNonce \/ GetHyperBlockByNonce \/ EndOfCheck
    \/ processTransaction \/ ProcessedNonce

TrackerTypeOK ==
    /\ height \in 0..Len(Blocks)
    /\ lastProcessedNonce \in 0..height
    /\ addressesMap \subseteq Trackable
    /\ handlerSet \in BOOLEAN /\ closed \in BOOLEAN
    /\ trackerPc \in {"wait", "loop", "block"}
    /\ networkNonce \in 0..height
    /\ blockNonce \in 0..(height + 1)
    /\ trackerPc = "block" => index \in 1..(Len(Blocks[blockNonce]) + 1)
    /\ notifications \in [Transactions -> Nat]
    /\ found \subseteq Transactions
=============================================================================
