------------------------------ MODULE MCEscrow ------------------------------
(***************************************************************************)
(* A small chain for TLC: the values of Escrow's constants that are sets   *)
(* of model values are in the .cfg files.                                  *)
(***************************************************************************)
EXTENDS Escrow, TLC

TradeSymmetry == Permutations(TradeIds)

AuthoritySymmetry ==
    Permutations(Formats) \cup Permutations(Verifiers)
        \cup Permutations(Receipts) \cup Permutations(Pubkeys)
=============================================================================
