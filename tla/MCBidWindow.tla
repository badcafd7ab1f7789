---------------------------- MODULE MCBidWindow ----------------------------
(***************************************************************************)
(* Two nodes with keys of five digits, of which two tell nodes apart.  One *)
(* agent moves from a node to the other; both nodes' ids are cut short and *)
(* padded, one of them with a digit before the padding.  The first node's  *)
(* key has digits that look like padding.                                  *)
(***************************************************************************)
EXTENDS BidWindow, TLC

CONSTANTS nodeB, nodeC, cache, fresh

Hex == {0, 1, 15}
Keys == [n \in Nodes |-> IF n = nodeB THEN <<1, 15, 15, 0, 1>>
                                      ELSE <<1, 0, 1, 0, 1>>]
ThreeSenders ==
    {[agent |-> cache, node |-> nodeB, id |-> <<1, 15, 15, 15, 15>>],
     [agent |-> cache, node |-> nodeC, id |-> <<1, 0, 15, 15, 15>>],
     [agent |-> fresh, node |-> nodeC, id |-> <<1, 0, 1, 1, 15>>]}

HashSymmetry == Permutations(HashSet)
=============================================================================
