----------------------------- MODULE BidWindow -----------------------------
(***************************************************************************)
(* The bid windows of successive calls of queryMarket                      *)
(* (agents/user/src/runtime.mjs:117-215): refresh, the handler that files  *)
(* and collects each bid, the choice, and the address of the winner.  From *)
(* the end of the window to the look-up of that address nothing else runs; *)
(* but stop() does not stop the last tick of a window, if that is already  *)
(* fetching (client.mjs:104-121), and its handler may run in a later call. *)
(***************************************************************************)
EXTENDS BidChoice, PeerRegistry

CONSTANTS HashSet,      \* det_hashes suppliers may commit to
          MaxPrice,     \* bound: prices are 1 .. MaxPrice
          MaxBids,      \* bound: bids of all calls
          MaxCalls,     \* bound: calls of queryMarket
          Senders       \* [agent, node, id]: who may bid, from where, as what

ASSUME SendersAreReal ==
    \A s \in Senders : /\ s.agent \in Agents /\ s.node \in Nodes
                       /\ s.id \in RoutingIds(KeyOf[s.node])

ASSUME WindowAssumption == MaxPrice \in Nat

VARIABLES bs,           \* the bids of the open window, in order
          late,         \* the earlier windows whose last tick is still out
          calls, received,
          strays        \* history: <<agent, node>> filed by such ticks in this call

vars == <<bs, late, calls, received, strays, registry>>

Init ==
    /\ InitRegistry
    /\ bs = <<>>
    /\ late = 0 /\ strays = {}
    /\ calls = 0 /\ received = 0

\* A call begins, whatever became of the one before, whose last tick may still
\* be out: peers are refreshed and the window opens, with no bids; some node
\* must be there to be asked.
Open(listed) ==
    /\ calls < MaxCalls
    /\ listed # {}
    /\ refresh(listed)
    /\ bs' = <<>>
    /\ late' = IF calls = 0 THEN late ELSE late + 1
    /\ strays' = {}
    /\ calls' = calls + 1
    /\ UNCHANGED received

\* A bid for this call.
Arrive(s, hash, price) ==
    /\ calls > 0
    /\ received < MaxBids
    /\ registerFromBid(s.agent, s.node, s.id)
    /\ bs' = Append(bs, [agent |-> s.agent, node |-> s.node,
                         hash |-> hash, price |-> price])
    /\ received' = received + 1
    /\ UNCHANGED <<late, calls, strays>>

\* A bid for an earlier call, fetched by the last tick of its window: it is
\* filed, and collected in a list that nobody reads any more.
ArriveLate(s) ==
    /\ late > 0
    /\ received < MaxBids
    /\ registerFromBid(s.agent, s.node, s.id)
    /\ late' = late - 1
    /\ strays' = strays \cup {<<s.agent, s.node>>}
    /\ received' = received + 1
    /\ UNCHANGED <<bs, calls>>

Next ==
    \/ \E listed \in SUBSET Nodes : Open(listed)
    \/ \E s \in Senders, h \in HashSet, p \in 1 .. MaxPrice : Arrive(s, h, p)
    \/ \E s \in Senders : ArriveLate(s)

Spec == Init /\ [][Next]_vars

-----------------------------------------------------------------------------
\* "If a supplier disagreed on the hash, we don't trust them as a
\* counterparty" (runtime.mjs:200): when more than half of the bids commit to
\* one hash, no bid with another hash is accepted, however cheap and early.
MajorityWins ==
    \A h \in HashSet :
        2 * Count(bs, h) > Len(bs) /\ Eligible(bs) # {} => Cheapest(bs).hash = h

\* Unless hashes tie, the hash the buyer accepts and the price it pays do not
\* depend on the order in which the bids arrived.
OrderMattersOnlyInTies ==
    bs # <<>> /\ ~Tied(bs) =>
        \A p \in Bijection(DOMAIN bs, DOMAIN bs) :
            LET other == Reordered(bs, p) IN
            /\ Modal(other) = Modal(bs)
            /\ Eligible(bs) # {} <=> Eligible(other) # {}
            /\ Eligible(bs) # {} => Cheapest(other).price = Cheapest(bs).price

\* One more bid for the agreed hash never makes the buyer pay more, nor find
\* no bid within budget where it found one.
AgreeingBidNeverHurts ==
    [][Len(bs') > Len(bs) /\ bs # <<>> /\ Eligible(bs) # {}
         /\ bs'[Len(bs')].hash = Modal(bs)
         => Eligible(bs') # {} /\ Cheapest(bs').price <= Cheapest(bs).price]_vars

\* The accept goes to a node that bid as the winner in this very window
\* (runtime.mjs:212), whatever was filed in earlier calls, or to one that the
\* last tick of an earlier window filed for it meanwhile, and to no other.
AcceptGoesToBidder ==
    bs # <<>> /\ Eligible(bs) # {} =>
        LET winner == Cheapest(bs).agent IN
        \A n \in Nodes :
            Reaches(byAgentId[winner], n) =>
                \/ \E i \in DOMAIN bs : bs[i].agent = winner /\ bs[i].node = n
                \/ <<winner, n>> \in strays
=============================================================================
