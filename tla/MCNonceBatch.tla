---------------------------- MODULE MCNonceBatch ----------------------------
(* A batch of five entries, one of them a zero balance, from a signer      *)
(* whose chain nonce is 3 (so that nonces and entry indices differ).       *)
EXTENDS NonceBatch

MCBalances == <<1000, 0, 1000, 1000, 1000>>

MCTx == DOMAIN MCBalances
=============================================================================
