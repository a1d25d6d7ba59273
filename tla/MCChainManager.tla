---------------------------- MODULE MCChainManager ----------------------------
(***************************************************************************)
(* Two chains and the goroutine that checks each.                          *)
(***************************************************************************)
EXTENDS ChainManager, TLC

CONSTANTS c1, c2, w1, w2

MCWorker == c1 :> w1 @@ c2 :> w2
=============================================================================
