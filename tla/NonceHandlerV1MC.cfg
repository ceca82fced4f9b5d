\* three concurrent callers; a forced re-fetch and another program's transaction
CONSTANTS
    t1 = t1
    t2 = t2
    t3 = t3
    Txs = {t1, t2, t3}
    NoTx = NoTx
    Nonces = {0, 1, 2, 3, 4, 5, 6}
    PayloadOf <- TwoAlike
    FirstNonces = {0, 1}
    MaxReFetch = 1
    MaxForeign = 1
SPECIFICATION Spec
INVARIANTS RefusalReturnsNonce WaitingIsStored
PROPERTIES NoncesFollowEachOther
CHECK_DEADLOCK FALSE
SYMMETRY AlikeSymmetry
