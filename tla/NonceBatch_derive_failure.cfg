\* deriveNewAccounts when a sudo call can fail (sudo.RequireSudo and the
\* like are module errors of the outer extrinsic).
CONSTANTS
    Helper = "deriveNewAccounts"
    Balances <- MCBalances
    Tx <- MCTx
    StartNonce = 3
    ExecOutcomes = {"ok", "module"}
    PoolFaults = {}
    MaxReorgs = 0
SPECIFICATION BatchSpec
INVARIANT BatchAwaitsAll
CHECK_DEADLOCK FALSE
