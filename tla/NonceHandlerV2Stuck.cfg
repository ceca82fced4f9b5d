\* the gap remains after the cache is dropped
CONSTANTS
    Txs = {t1, t2, t3}
    NoTx = NoTx
    Nonces = {0, 1, 2, 3, 4, 5}
    FirstNonces = {0}
    MinGasPrice = 2
    MaxDrops = 1
    MaxConfigFailures = 0
    MaxLosses = 0
SPECIFICATION SequentialSpec
PROPERTY DropClearsGap
CHECK_DEADLOCK FALSE
