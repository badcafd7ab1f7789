----------------------------- MODULE MCReceipts -----------------------------
(***************************************************************************)
(* Two prompts for TLC, one of them unknown to the PD19 adapter; the cap   *)
(* of 20 tokens is 2.                                                      *)
(***************************************************************************)
EXTENDS Receipts

CONSTANTS v1, v2

France == <<7, 8>>
Hamlet == <<7>>
TwoPrompts == {France, Hamlet}
OnlyFrance == {France}
Greedy == [p \in TwoPrompts |-> IF p = France THEN <<1, 2, 3>> ELSE <<8, 1, 2>>]
Services == [f \in Formats |-> IF f = "stub" THEN v1 ELSE v2]
=============================================================================
