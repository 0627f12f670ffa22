\* The "transferFrom works" test on a chain where a transaction may fail
\* with a module error of its own; no pool faults and no retractions, so
\* that the order of inclusion across signers is the only other freedom.
CONSTANTS
    Tx <- MCSteps
    ExecOutcomes = {"ok", "module"}
    PoolFaults = {}
    MaxReorgs = 0
SPECIFICATION ScenarioSpec
INVARIANT AwaitedPrerequisitesFirst
INVARIANT PassedMeansChainOk
\* The test ends once its verdict is given.
CHECK_DEADLOCK FALSE
