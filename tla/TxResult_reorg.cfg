\* A block may be retracted once and the transaction re-executed in another.
CONSTANTS
    t1 = t1
    t2 = t2
    Tx <- MCTx
    ExecOutcomes = {"ok", "module"}
    PoolFaults = {}
    MaxReorgs = 1
SPECIFICATION Spec
INVARIANT ReportedOutcomeFinal
CHECK_DEADLOCK FALSE
