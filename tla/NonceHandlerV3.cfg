\* three concurrent callers, failing sends, Close at any point
CONSTANTS
    Txs = {t1, t2, t3}
    Nonces = {0, 1, 2, 3, 4, 5}
    FirstNonces = {1}
    Nil = Nil
SPECIFICATION OrderedSpec
INVARIANTS ConsecutiveSinceFetch
PROPERTIES SentIsExecuted NoncesFollowEachOther
CHECK_DEADLOCK FALSE
