\* The pool may drop, invalidate or usurp a transaction before inclusion.
CONSTANTS
    t1 = t1
    t2 = t2
    Tx <- MCTx
    ExecOutcomes = {"ok"}
    PoolFaults = {"Invalid", "Dropped", "Usurped"}
    MaxReorgs = 0
SPECIFICATION Spec
PROPERTY EverySubmissionSettled
CHECK_DEADLOCK FALSE
