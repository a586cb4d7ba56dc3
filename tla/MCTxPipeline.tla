---------------------------- MODULE MCTxPipeline ----------------------------
(***************************************************************************)
(* TLC instance of TxPipeline.  The engine's values are 1.5 s for a        *)
(* transaction, margins of 1.0 s, submit timeouts of 0.2 s and 0.05 s, and *)
(* 5.0 s for RF idle; TxPipeline.cfg has them in ticks of 0.1 s.           *)
(***************************************************************************)
EXTENDS TxPipeline
=============================================================================
