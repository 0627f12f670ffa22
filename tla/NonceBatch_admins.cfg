\* setWhitelistAdmins with every addAdmin succeeding.
CONSTANTS
    Helper = "setWhitelistAdmins"
    Balances <- MCBalances
    Tx <- MCTx
    StartNonce = 3
    ExecOutcomes = {"ok"}
    PoolFaults = {}
    MaxReorgs = 0
SPECIFICATION BatchSpec
INVARIANT BatchAwaitsAll
CHECK_DEADLOCK FALSE
