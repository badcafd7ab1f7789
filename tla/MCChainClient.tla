---------------------------- MODULE MCChainClient ----------------------------
(***************************************************************************)
(* Two purchases for TLC, the first with Tier 2.                           *)
(***************************************************************************)
EXTENDS ChainClient

FiveCalls == {<<1, 1>>, <<1, 2>>, <<1, 3>>, <<2, 1>>, <<2, 2>>}
=============================================================================
