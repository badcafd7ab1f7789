------------------------------ MODULE BidChoice ------------------------------
(***************************************************************************)
(* How queryMarket chooses among the bids it has collected, a sequence in  *)
(* the order they arrived (agents/user/src/runtime.mjs:183-209).  A bid    *)
(* has an agent, a price and the det_hash it commits to.                   *)
(***************************************************************************)
EXTENDS Integers, Sequences, FiniteSets, Functions

CONSTANT Budget     \* budgetWei

\* As elsewhere in the project, an operator named after a slip is not part of
\* the specification: it is the definition that follows it with a plausible
\* mistake, which a property must catch.

\* How many of the bids commit to hash h.
Count(bs, h) == Cardinality({i \in DOMAIN bs : bs[i].hash = h})

\* The hash with most bids; among equals the one bid first, since the Map
\* keeps insertion order and the sort is stable.
FirstHash(bs) == bs[1].hash
Modal(bs) ==
    LET h(i) == bs[i].hash IN
    h(CHOOSE i \in DOMAIN bs : \A j \in DOMAIN bs :
        \/ Count(bs, h(i)) > Count(bs, h(j))
        \/ Count(bs, h(i)) = Count(bs, h(j)) /\ i <= j)

\* The consensus bids within budget, by their place in bs.
Eligible(bs) ==
    LET modal == Modal(bs) IN
    {i \in DOMAIN bs : bs[i].hash = modal /\ bs[i].price <= Budget}

Dearest(bs) ==
    LET eligible == Eligible(bs) IN
    bs[CHOOSE i \in eligible : \A j \in eligible :
        bs[i].price > bs[j].price \/ (bs[i].price = bs[j].price /\ i <= j)]

\* The cheapest of them, the earliest among equals.
Cheapest(bs) ==
    LET eligible == Eligible(bs) IN
    bs[CHOOSE i \in eligible : \A j \in eligible :
        bs[i].price < bs[j].price \/ (bs[i].price = bs[j].price /\ i <= j)]

-----------------------------------------------------------------------------
\* Bids that arrived in the order p.
Reordered(bs, p) == [i \in DOMAIN bs |-> bs[p[i]]]

\* Another hash has as many bids as the one chosen.
Tied(bs) == \E i \in DOMAIN bs : /\ bs[i].hash # Modal(bs)
                                 /\ Count(bs, bs[i].hash) = Count(bs, Modal(bs))
=============================================================================
