\* A well-behaved node: every failure is a module error, and a block may
\* be retracted once, so Finalized and a second InBlock follow the first.
CONSTANTS
    t1 = t1
    t2 = t2
    Tx <- MCTx
    ExecOutcomes = {"ok", "module"}
    PoolFaults = {"FinalityTimeout"}
    MaxReorgs = 1
SPECIFICATION Spec
INVARIANT TypeOK
INVARIANT AtMostOnce
PROPERTY EverySubmissionSettled
PROPERTY CompletionRefinement
\* The system stops once every watched transaction has a final status.
CHECK_DEADLOCK FALSE
