\* deriveNewAccounts whose sudo calls may succeed or fail with a module
\* error (sudo.RequireSudo and the like fail the outer extrinsic).
CONSTANTS
    Helper = "deriveNewAccounts"
    Balances <- MCBalances
    Tx <- MCTx
    StartNonce = 3
    ExecOutcomes = {"ok", "module"}
    PoolFaults = {}
    MaxReorgs = 0
SPECIFICATION BatchSpec
INVARIANT NoncesContiguous
INVARIANT FundedOnReturn
PROPERTY BatchReturns
\* The system stops once the helper returned and every block is final.
CHECK_DEADLOCK FALSE
