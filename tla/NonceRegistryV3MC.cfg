\* two senders, two callers
SPECIFICATION Spec
CONSTANTS
    a1 = a1
    a2 = a2
    c1 = c1
    c2 = c2
    Invalid = Invalid
    Addresses = {a1, a2}
    Calls = {c1, c2}
    Cancellable = {c1}
    MaxFailures = 1
    TxsOf <- MCTxsOf
INVARIANTS SenderNoncesDiffer HashesAreFinal CloseReachesEveryWorker
CHECK_DEADLOCK FALSE
