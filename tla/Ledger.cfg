SPECIFICATION FairSpec
CONSTANTS
    Dialects = {"postgresql", "sqlite"}
    Txns = {t1, t2, t3}
    MaxAppends = 2
    NoTxn = NoTxn
INVARIANTS PostgresChainVerifies DeletionDetected
PROPERTIES CommitsAppendBlocks EveryTransactionEnds
CHECK_DEADLOCK FALSE
