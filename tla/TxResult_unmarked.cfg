\* An included transaction with neither ExtrinsicSuccess nor ExtrinsicFailed.
CONSTANTS
    t1 = t1
    t2 = t2
    Tx <- MCTx
    ExecOutcomes = {"unmarked"}
    PoolFaults = {}
    MaxReorgs = 0
SPECIFICATION Spec
PROPERTY EverySubmissionSettled
CHECK_DEADLOCK FALSE
