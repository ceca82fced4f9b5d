\* two callers, a dropped cache, a failing configuration request, a lost transaction
CONSTANTS
    Txs = {t1, t2}
    NoTx = NoTx
    Nonces = {0, 1, 2, 3, 4, 5}
    FirstNonces = {0, 1}
    MinGasPrice = 2
    MaxDrops = 1
    MaxConfigFailures = 1
    MaxLosses = 1
SPECIFICATION FairSpec
PROPERTIES GasPriceCoversMinimum NoncesFollowEachOther StuckIsResent
CHECK_DEADLOCK FALSE
