\* Every failure is a non-module DispatchError (BadOrigin, Other, ...).
CONSTANTS
    t1 = t1
    t2 = t2
    Tx <- MCTx
    ExecOutcomes = {"other"}
    PoolFaults = {}
    MaxReorgs = 0
SPECIFICATION Spec
PROPERTY EverySubmissionSettled
CHECK_DEADLOCK FALSE
