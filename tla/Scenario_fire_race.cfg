\* The "transferFrom works" test on a chain where every transaction whose
\* prerequisite is on chain succeeds; no pool faults and no retractions, so
\* that the order of inclusion across signers is the only freedom.
CONSTANTS
    Tx <- MCSteps
    ExecOutcomes = {"ok"}
    PoolFaults = {}
    MaxReorgs = 0
SPECIFICATION ScenarioSpec
INVARIANT FireModePrerequisitesFirst
\* The test ends once its verdict is given.
CHECK_DEADLOCK FALSE
