----------------------------- MODULE MCScenario -----------------------------
(* The transactions of the "transferFrom works" test, as the Tx of        *)
(* TxResult.                                                               *)
EXTENDS Scenario

MCSteps == {"addAdmin", "addInvestors", "initCollection", "createItem",
            "setAllowance", "transferFrom"}
=============================================================================
