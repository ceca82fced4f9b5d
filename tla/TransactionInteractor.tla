------------------------ MODULE TransactionInteractor ------------------------
(***************************************************************************)
(* interactors/transaction.go: the transaction accumulator and             *)
(* SendTransactionsAsBunch, which empties it and sends bunch after bunch.  *)
(* What a failing bunch and the ones after it held is gone.                *)
(***************************************************************************)
EXTENDS Integers, Sequences

CONSTANT BunchSize

ASSUME BunchSizeIsPositive == BunchSize \in Nat \ {0}

VARIABLES
    txAccumulator,
    transactions,       \* SendTransactionsAsBunch: what is still to be sent
    sending,            \* a call of SendTransactionsAsBunch is under way
    added, sent,        \* history: transactions in the order they were added, sent,
    failed              \* until some bunch could not be sent

interactorVars == <<txAccumulator, transactions, sending, added, sent, failed>>

InteractorInit ==
    /\ txAccumulator = <<>>
    /\ transactions = <<>>
    /\ sending = FALSE
    /\ added = <<>> /\ sent = <<>>
    /\ failed = FALSE

AddTransaction(tx) ==
    /\ txAccumulator' = Append(txAccumulator, tx)
    /\ added' = IF failed THEN <<>> ELSE Append(added, tx)
    /\ UNCHANGED <<transactions, sending, sent, failed>>

\* SendTransactionsAsBunch starts with PopAccumulatedTransactions
PopAccumulatedTransactions ==
    /\ ~sending
    /\ sending' = TRUE
    /\ transactions' = txAccumulator
    /\ txAccumulator' = <<>>
    /\ UNCHANGED <<added, sent, failed>>

Smaller(a, b) == IF a <= b THEN a ELSE b

Bunch == SubSeq(transactions, 1, Smaller(BunchSize, Len(transactions)))

\* mutant: the transaction after a full bunch is skipped
RestSkipsOne == SubSeq(transactions, BunchSize + 2, Len(transactions))

Rest == SubSeq(transactions, BunchSize + 1, Len(transactions))

\* one round of the loop, the proxy accepting the bunch
SendBunch ==
    /\ sending
    /\ transactions # <<>>
    /\ sent' = IF failed THEN <<>> ELSE sent \o Bunch
    /\ transactions' = Rest
    /\ UNCHANGED <<txAccumulator, sending, added, failed>>

SendBunchFails ==
    /\ sending
    /\ transactions # <<>>
    /\ failed' = TRUE
    /\ sending' = FALSE
    /\ transactions' = <<>>
    /\ added' = <<>> /\ sent' = <<>>
    /\ UNCHANGED txAccumulator

SendTransactionsAsBunchReturns ==
    /\ sending
    /\ transactions = <<>>
    /\ sending' = FALSE
    /\ UNCHANGED <<txAccumulator, transactions, added, sent, failed>>

\* the program ends and is started again
RestartInteractor ==
    /\ txAccumulator' = <<>>
    /\ transactions' = <<>>
    /\ sending' = FALSE
    /\ failed' = TRUE
    /\ added' = <<>> /\ sent' = <<>>
=============================================================================
