----------------------------- MODULE MCTxResult -----------------------------
(* Small instances of TxResult for TLC: two concurrently watched           *)
(* transactions, so that callbacks of different submissions interleave.   *)
EXTENDS TxResult

CONSTANTS t1, t2

MCTx == {t1, t2}
=============================================================================
