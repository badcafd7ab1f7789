---------------------------- MODULE MCMarketplace ----------------------------
(***************************************************************************)
(* Two suppliers for TLC, as in script/end-of-day-3.sh: a cache agent and  *)
(* a dearer fresh agent.  The .cfg files say whether they share a node and *)
(* whether their receipts agree.                                           *)
(***************************************************************************)
EXTENDS Marketplace

CONSTANTS cache, fresh, nodeB, nodeC, prompt1, prompt2, hash1, hash2

OwnNodes == [a \in Agents |-> IF a = cache THEN nodeB ELSE nodeC]
OneNode == [a \in Agents |-> nodeB]
OneLink == [n \in Nodes |-> 1]
TwoLinks == [n \in Nodes |-> 2]
CacheCheaper == [a \in Agents |-> IF a = cache THEN 1 ELSE 2]
\* Only the first prompt is in the cache; the prover may agree with the receipt
\* there or not.
FirstCached ==
    [a \in Agents |-> [p \in Prompts |->
        IF a = cache THEN IF p = prompt1 THEN {hash1} ELSE {}
        ELSE IF p = prompt1 THEN HashSet ELSE {hash2}]]
FirstInFull == {<<prompt1, TRUE>>, <<prompt2, FALSE>>}
=============================================================================
