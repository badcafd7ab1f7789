----------------------------- MODULE Marketplace -----------------------------
(***************************************************************************)
(* One purchase protocol, end to end: the buyer's UserRuntime.queryMarket  *)
(* (agents/user/src/runtime.mjs), the cache and fresh supplier runtimes    *)
(* (agents/cache, agents/fresh) and the AXL nodes between them, reached    *)
(* through AxlClient (packages/axl-client/src/client.mjs).                 *)
(*                                                                         *)
(* An AXL node keeps one FIFO receive queue, which everybody attached to   *)
(* it polls with /recv; taking a message is destructive.  A /send may be   *)
(* lost silently, may fail, or may fail after the message went out; a      *)
(* /recv whose response is aborted loses the message it dequeued.  Each of *)
(* these, and a supplier that restarts, costs one of MaxFaults.            *)
(*                                                                         *)
(* queryMarket may be called again after it returned or threw; calls are   *)
(* numbered, and the number stands for the random query_id.  The recvLoop  *)
(* of a call's bid window is told to stop when the window closes, but a    *)
(* tick that is already fetching still runs its handler: `tick` keeps one  *)
(* per call.                                                               *)
(***************************************************************************)
EXTENDS BidChoice

CONSTANTS
    Agents,       \* supplier agent ids
    Caches,       \* those that serve from a cache; the others ask a prover
    Prompts,      \* prompt labels
    Wants,        \* what queryMarket is called with: a prompt, with Tier 2 or not
    HashSet,      \* det_hashes of receipts
    Offers,       \* the receipts an agent may have for a prompt, by det_hash
    Nodes,        \* AXL nodes of the suppliers
    Links,        \* how many times the topology lists each of them
    BuyerNode,    \* the buyer's AXL node
    NodeOf,       \* the node an agent polls
    Price,        \* an agent's priceWei
    None,
    MaxQueries,   \* bound: calls of queryMarket
    MaxFaults,    \* bound: lost or failed requests, restarts
    Patient       \* the bid window and the delivery timeout outlast any message

ASSUME MarketAssumption ==
    /\ Caches \subseteq Agents
    /\ Wants \subseteq Prompts \X BOOLEAN
    /\ Offers \in [Agents -> [Prompts -> SUBSET HashSet]]
    /\ \A a \in Caches, p \in Prompts : \A g, h \in Offers[a][p] : g = h
    /\ BuyerNode \notin Nodes
    /\ NodeOf \in [Agents -> Nodes]
    /\ Links \in [Nodes -> Nat \ {0}]
    /\ Price \in [Agents -> Nat]
    /\ Budget \in Nat
    /\ None \notin Agents \cup Nodes \cup HashSet
    /\ MaxQueries \in Nat /\ MaxFaults \in Nat
    /\ Patient \in BOOLEAN

NoTrade == [open |-> FALSE, settled |-> {}]

VARIABLES
    pc,         \* where queryMarket is
    query,      \* the number of the call
    prompt,     \* args.promptLabel
    tier2,      \* args.withTier2
    unsent,     \* listed peers the query has not been sent to yet
    bids,       \* the bids collected, in arrival order
    buffer,     \* _bufferedEnvelopes
    tick,       \* for each call, the last tick of its bid window
    peers,      \* PeerRegistry.byAgentId
    winner,     \* the winning agent
    got,        \* the deliver message the call went on with
    queue,      \* the receive queue of each node
    inflight,   \* each supplier's inflight map
    bidding,    \* a bid a supplier has sent but not yet entered in inflight
    serving,    \* the accept a supplier is handling, and what is signed for it
    attested,   \* <<receipt hash, tier>> that verifiers have signed
    chain,      \* each call's trade: is it open, which tiers are settled
    faults      \* faults so far

buyerVars == <<pc, query, prompt, tier2, unsent, bids, buffer, tick, peers, winner, got>>
supplierVars == <<inflight, bidding, serving, attested>>
vars == <<buyerVars, queue, supplierVars, chain, faults>>

-----------------------------------------------------------------------------
Calls == 1 .. MaxQueries
Listed == UNION {{n} \X (1 .. Links[n]) : n \in Nodes}

Message ==
    [type : {"query"}, query : Calls, from : {BuyerNode}, prompt : Prompts]
    \cup [type : {"bid"}, query : Calls, from : Nodes, agent : Agents,
          price : {Price[a] : a \in Agents}, hash : HashSet]
    \cup [type : {"accept"}, query : Calls, from : {BuyerNode}, agent : Agents,
          tier2 : BOOLEAN]
    \cup [type : {"deliver"}, query : Calls, from : Nodes, agent : Agents,
          hash : HashSet, tiers : SUBSET {1, 2}]

\* A tick of a bid window that has fetched nothing yet.
Off == [type |-> "off"]
Asked == [type |-> "asked"]

\* What can become of a request: whether it had its effect, and whether the
\* caller saw an error.  All but the first are faults.
Fine == [done |-> TRUE, error |-> FALSE]
Outcomes == [done : BOOLEAN, error : BOOLEAN]

\* A request that may go wrong counts its fault.
Counted(o) ==
    /\ o # Fine => faults < MaxFaults
    /\ faults' = faults + (IF o = Fine THEN 0 ELSE 1)

Fault == faults < MaxFaults /\ faults' = faults + 1

Sent(o, node, msg) ==
    IF o.done THEN [queue EXCEPT ![node] = Append(@, msg)] ELSE queue

Took(node) == [queue EXCEPT ![node] = Tail(@)]

-----------------------------------------------------------------------------
Init ==
    /\ pc = "idle" /\ query = 0 /\ prompt = None /\ tier2 = FALSE /\ unsent = {}
    /\ bids = <<>> /\ buffer = {}
    /\ tick = [q \in Calls |-> Off]
    /\ peers = [a \in Agents |-> None]
    /\ winner = None /\ got = None
    /\ queue = [n \in Nodes \cup {BuyerNode} |-> <<>>]
    /\ inflight = [a \in Agents |-> {}]
    /\ bidding = [a \in Agents |-> {}]
    /\ serving = [a \in Agents |-> None]
    /\ attested = {}
    /\ chain = [q \in Calls |-> NoTrade]
    /\ faults = 0

(* The buyer.                                                              *)

\* queryMarket is called: refresh the registry, read the topology.  It throws
\* if either cannot be read, or lists nobody.
StartQuery(p, t2) ==
    /\ pc \in {"idle", "failed", "done"}
    /\ query < MaxQueries
    /\ query' = query + 1
    /\ pc' \in {"sending", "failed"}
    /\ prompt' = p
    /\ tier2' = t2
    /\ unsent' = Listed
    /\ bids' = <<>>
    /\ winner' = None
    /\ got' = None
    /\ UNCHANGED <<buffer, tick, peers, queue, supplierVars, chain, faults>>

\* One defacts.query is sent; an error ends the call.
SendQuery(p, o) ==
    /\ pc = "sending"
    /\ p \in unsent
    /\ Counted(o)
    /\ queue' = Sent(o, p[1], [type |-> "query", query |-> query, from |-> BuyerNode,
                            prompt |-> prompt])
    /\ unsent' = unsent \ {p}
    /\ pc' = IF o.error THEN "failed" ELSE "sending"
    /\ UNCHANGED <<query, prompt, tier2, bids, buffer, tick, peers, winner, got, supplierVars, chain>>

OpenWindow ==
    /\ pc = "sending"
    /\ unsent = {}
    /\ pc' = "collecting"
    /\ buffer' = {}
    /\ UNCHANGED <<query, prompt, tier2, unsent, bids, tick, peers, winner, got, queue,
                   supplierVars, chain, faults>>

\* A tick of the bid window starts a /recv.
Ask ==
    /\ pc = "collecting"
    /\ tick[query] = Off
    /\ tick' = [tick EXCEPT ![query] = Asked]
    /\ UNCHANGED <<pc, query, prompt, tier2, unsent, bids, buffer, peers, winner, got,
                   queue, supplierVars, chain, faults>>

\* The node answers it: 204, or the first message of its queue.
Answer(q) ==
    /\ tick[q] = Asked
    /\ \/ /\ queue[BuyerNode] = <<>>
          /\ tick' = [tick EXCEPT ![q] = Off]
          /\ UNCHANGED queue
       \/ /\ queue[BuyerNode] # <<>>
          /\ tick' = [tick EXCEPT ![q] = Head(queue[BuyerNode])]
          /\ queue' = Took(BuyerNode)
    /\ UNCHANGED <<pc, query, prompt, tier2, unsent, bids, buffer, peers, winner, got,
                   supplierVars, chain, faults>>

\* The fetch fails, with the message it may have dequeued.
TickFails(q) ==
    /\ tick[q] # Off
    /\ Fault
    /\ tick' = [tick EXCEPT ![q] = Off]
    /\ UNCHANGED <<pc, query, prompt, tier2, unsent, bids, buffer, peers, winner, got,
                   queue, supplierVars, chain>>

\* An operator named after a slip, here and below, is not part of the
\* specification: it is the definition that follows it with a plausible
\* mistake, which a property must catch.
\* PeerRegistry.registerFromBid: the address a bidder is sent its accept at.
AddressOfSelf(msg) == BuyerNode
AddressOfFirstPeer(msg) == CHOOSE n \in Nodes : TRUE
Address(msg) == msg.from

\* The handler of the window of call q: a bid for that call is registered and
\* collected (to no avail once the window is closed), any other bid is
\* dropped, and other envelopes are kept in the buffer.
HandleTick(q) ==
    LET msg == tick[q]
        mine == msg.type = "bid" /\ msg.query = q
    IN
    /\ tick[q] \notin {Off, Asked}
    /\ tick' = [tick EXCEPT ![q] = Off]
    /\ buffer' = IF msg.type = "bid" THEN buffer ELSE buffer \cup {msg}
    /\ peers' = IF mine THEN [peers EXCEPT ![msg.agent] = Address(msg)] ELSE peers
    /\ bids' = IF mine /\ q = query /\ pc = "collecting" THEN Append(bids, msg) ELSE bids
    /\ UNCHANGED <<pc, query, prompt, tier2, unsent, winner, got, queue, supplierVars,
                   chain, faults>>

\* No message is under way to anybody, nor being answered.
Quiet ==
    /\ \A n \in Nodes \cup {BuyerNode} : queue[n] = <<>>
    /\ \A a \in Agents : serving[a] = None
    /\ \A q \in Calls : tick[q] \in {Off, Asked}

\* The bid window is over: stop the loop and pick, or throw.
CloseWindow ==
    /\ pc = "collecting"
    /\ Patient => Quiet
    /\ IF bids = <<>> \/ Eligible(bids) = {}
       THEN pc' = "failed" /\ UNCHANGED winner
       ELSE pc' = "accepting" /\ winner' = Cheapest(bids).agent
    /\ UNCHANGED <<query, prompt, tier2, unsent, bids, buffer, tick, peers, got, queue,
                   supplierVars, chain, faults>>

SendAccept(o) ==
    /\ pc = "accepting"
    /\ Counted(o)
    /\ queue' = Sent(o, peers[winner],
                     [type |-> "accept", query |-> query, from |-> BuyerNode,
                      agent |-> winner, tier2 |-> tier2])
    /\ pc' = IF o.error THEN "failed" ELSE "accepted"
    /\ UNCHANGED <<query, prompt, tier2, unsent, bids, buffer, tick, peers, winner, got,
                   supplierVars, chain>>

AnyDeliver(msg) == msg.type = "deliver"
OurDeliver(msg) == msg.type = "deliver" /\ msg.query = query

\* The checks made on a deliver before any money moves.
Receive(msg) ==
    /\ got' = msg
    /\ pc' = IF (IF tier2 THEN {1, 2} ELSE {1}) \subseteq msg.tiers
             THEN "opening" ELSE "failed"

\* _waitForDeliver first looks through the buffer, this once.
ScanBuffer ==
    /\ pc = "accepted"
    /\ \/ \E msg \in buffer :
            /\ OurDeliver(msg)
            /\ Receive(msg)
            /\ buffer' = buffer \ {msg}
       \/ /\ ~\E msg \in buffer : OurDeliver(msg)
          /\ pc' = "waiting"
          /\ UNCHANGED <<buffer, got>>
    /\ UNCHANGED <<query, prompt, tier2, unsent, bids, tick, peers, winner, queue, supplierVars, chain, faults>>

\* Then it polls.
Poll ==
    /\ pc = "waiting"
    /\ queue[BuyerNode] # <<>>
    /\ LET msg == Head(queue[BuyerNode]) IN
       IF OurDeliver(msg)
       THEN Receive(msg) /\ UNCHANGED buffer
       ELSE buffer' = buffer \cup {msg} /\ UNCHANGED <<pc, got>>
    /\ queue' = Took(BuyerNode)
    /\ UNCHANGED <<query, prompt, tier2, unsent, bids, tick, peers, winner, supplierVars, chain, faults>>

\* A failed /recv ends the call, with the message it may have dequeued.
PollFails ==
    /\ pc = "waiting"
    /\ Fault
    /\ pc' = "failed"
    /\ \/ UNCHANGED queue
       \/ queue[BuyerNode] # <<>> /\ queue' = Took(BuyerNode)
    /\ UNCHANGED <<query, prompt, tier2, unsent, bids, buffer, tick, peers, winner, got,
                   supplierVars, chain>>

NeverExpires == FALSE
Expired == Patient => Quiet

Timeout ==
    /\ pc = "waiting"
    /\ Expired
    /\ pc' = "failed"
    /\ UNCHANGED <<query, prompt, tier2, unsent, bids, buffer, tick, peers, winner, got,
                   queue, supplierVars, chain, faults>>

\* The three transactions, each confirmed before the next is sent: dropped,
\* reverted or mined, and the wait for its receipt may throw all the same.
ConfirmedAnyStatus(mined, o) == ~o.error
Confirmed(mined, o) == mined /\ ~o.error

OpenTrade(o) ==
    /\ pc = "opening"
    /\ Counted(o)
    /\ chain' = IF o.done THEN [chain EXCEPT ![query].open = TRUE] ELSE chain
    /\ pc' = IF Confirmed(o.done, o) THEN "settling1" ELSE "failed"
    /\ UNCHANGED <<query, prompt, tier2, unsent, bids, buffer, tick, peers, winner, got,
                   queue, supplierVars>>

\* Escrow.settleTier1/2 reverts unless the tier was attested.
SettleTier(k, o) ==
    /\ pc = IF k = 1 THEN "settling1" ELSE "settling2"
    /\ Counted(o)
    /\ LET mined == o.done /\ <<got.hash, k>> \in attested IN
       /\ chain' = IF mined THEN [chain EXCEPT ![query].settled = @ \cup {k}] ELSE chain
       /\ pc' = IF ~Confirmed(mined, o) THEN "failed"
                ELSE IF ~tier2 THEN "done"
                ELSE IF k = 1 THEN "settling2" ELSE "writing"
    /\ UNCHANGED <<query, prompt, tier2, unsent, bids, buffer, tick, peers, winner, got,
                   queue, supplierVars>>

\* With Tier 2 the receipt is written to disk before the call returns.
WriteReceipt(o) ==
    /\ pc = "writing"
    /\ o.done = ~o.error
    /\ Counted(o)
    /\ pc' = IF o.done THEN "done" ELSE "failed"
    /\ UNCHANGED <<query, prompt, tier2, unsent, bids, buffer, tick, peers, winner, got,
                   queue, supplierVars, chain>>

(* The suppliers.  Each handles one message at a time: its recvLoop awaits *)
(* the handler.  A handler's effects that others can see are the messages  *)
(* it sends and what it has signed; a bid goes out before inflight has the *)
(* query.                                                                  *)

Next1(a) == Head(queue[NodeOf[a]])

IdleIgnored(a) == TRUE
Idle(a) == bidding[a] = {} /\ serving[a] = None

Gets(a, type) == Idle(a) /\ queue[NodeOf[a]] # <<>> /\ Next1(a).type = type

\* What inflight holds of a query bid on with receipt h: the cache agent keeps
\* the query only, the fresh agent the receipt as well.
Note(a, msg, h) ==
    [query |-> msg.query, prompt |-> msg.prompt, hash |-> IF a \in Caches THEN None ELSE h]

\* Slip: not kept by query.
AnyEntries(a, q) == inflight[a]
Entries(a, q) == {e \in inflight[a] : e.query = q}
Without(a, q) == [inflight EXCEPT ![a] = @ \ Entries(a, q)]

\* The receipt to deliver: looked up once more, or the one kept.
ReceiptOf(a, e) == IF a \in Caches THEN Offers[a][e.prompt] ELSE {e.hash}

\* No bid: not in the cache or another format, or the topology request or the
\* prover failed.
SkipQuery(a) ==
    /\ Gets(a, "query")
    /\ IF Offers[a][Next1(a).prompt] # {} THEN Fault ELSE UNCHANGED faults
    /\ queue' = Took(NodeOf[a])
    /\ UNCHANGED <<buyerVars, supplierVars, chain>>

\* Come by a receipt and bid with its det_hash.  If the send fails, the handler
\* ends there.
HandleQuery(a, h, o) ==
    LET msg == Next1(a)
        bid == [type |-> "bid", query |-> msg.query, from |-> NodeOf[a],
                agent |-> a, price |-> Price[a], hash |-> h]
    IN
    /\ Gets(a, "query")
    /\ h \in Offers[a][msg.prompt]
    /\ Counted(o)
    /\ queue' = [Took(NodeOf[a]) EXCEPT ![BuyerNode] =
                    IF o.done THEN Append(@, bid) ELSE @]
    /\ bidding' = [bidding EXCEPT ![a] = IF o.error THEN {} ELSE {Note(a, msg, h)}]
    /\ UNCHANGED <<buyerVars, inflight, serving, attested, chain>>

\* Then remember the query for the deliver.
Remember(a) ==
    /\ bidding[a] # {}
    /\ inflight' = [inflight EXCEPT ![a] = {e \in @ : \A b \in bidding[a] : e.query # b.query}
                                             \cup bidding[a]]
    /\ bidding' = [bidding EXCEPT ![a] = {}]
    /\ UNCHANGED <<buyerVars, queue, serving, attested, chain, faults>>

\* An accept for a query this agent has no bid on.
AcceptUnknown(a) ==
    /\ Gets(a, "accept")
    /\ Entries(a, Next1(a).query) = {}
    /\ queue' = Took(NodeOf[a])
    /\ UNCHANGED <<buyerVars, supplierVars, chain, faults>>

\* An accept for another agent's bid on a query this agent bid on as well.
AcceptLost(a) ==
    /\ Gets(a, "accept")
    /\ Entries(a, Next1(a).query) # {}
    /\ Next1(a).agent # a
    /\ inflight' = Without(a, Next1(a).query)
    /\ queue' = Took(NodeOf[a])
    /\ UNCHANGED <<buyerVars, bidding, serving, attested, chain, faults>>

HandleAccept(a) ==
    LET msg == Next1(a) IN
    /\ Gets(a, "accept")
    /\ msg.agent = a
    /\ \E e \in Entries(a, msg.query) : \E h \in ReceiptOf(a, e) :
           serving' = [serving EXCEPT ![a] =
               [query |-> msg.query, hash |-> h, tier2 |-> msg.tier2, signed |-> {}]]
    /\ queue' = Took(NodeOf[a])
    /\ UNCHANGED <<buyerVars, inflight, bidding, attested, chain, faults>>

Requested(s) == IF s.tier2 THEN {1, 2} ELSE {1}

\* A verifier signs Tier 1, then Tier 2 if it is asked for.  If one fails,
\* the handler ends, and nothing is delivered.
Attest(a, k, o) ==
    LET s == serving[a] IN
    /\ s # None
    /\ k \in Requested(s) \ s.signed
    /\ k = 2 => 1 \in s.signed
    /\ o.done \/ o.error
    /\ Counted(o)
    /\ attested' = IF o.done THEN attested \cup {<<s.hash, k>>} ELSE attested
    /\ IF o.error
       THEN serving' = [serving EXCEPT ![a] = None] /\ inflight' = Without(a, s.query)
       ELSE /\ serving' = [serving EXCEPT ![a] = [s EXCEPT !.signed = @ \cup {k}]]
            /\ UNCHANGED inflight
    /\ UNCHANGED <<buyerVars, queue, bidding, chain>>

\* Slip: the deliver goes out with the first attestation.
Tier1Suffices(s) == 1 \in s.signed
AllSigned(s) == s.signed = Requested(s)

\* The receipt goes out with its attestations.  If the send fails, inflight
\* keeps the query.
Deliver(a, o) ==
    LET s == serving[a] IN
    /\ s # None
    /\ AllSigned(s)
    /\ Counted(o)
    /\ queue' = Sent(o, BuyerNode,
                     [type |-> "deliver", query |-> s.query, from |-> NodeOf[a],
                      agent |-> a, hash |-> s.hash, tiers |-> s.signed])
    /\ serving' = [serving EXCEPT ![a] = None]
    /\ inflight' = IF o.error THEN inflight ELSE Without(a, s.query)
    /\ UNCHANGED <<buyerVars, bidding, attested, chain>>

\* A supplier's own /recv fails after it dequeued a message.
AgentRecvFails(a) ==
    /\ Idle(a)
    /\ queue[NodeOf[a]] # <<>>
    /\ Fault
    /\ queue' = Took(NodeOf[a])
    /\ UNCHANGED <<buyerVars, supplierVars, chain>>

\* A supplier process restarts: its inflight map was in memory only.
AgentRestarts(a) ==
    /\ inflight[a] \cup bidding[a] # {}
    /\ Fault
    /\ inflight' = [inflight EXCEPT ![a] = {}]
    /\ bidding' = [bidding EXCEPT ![a] = {}]
    /\ serving' = [serving EXCEPT ![a] = None]
    /\ UNCHANGED <<buyerVars, queue, attested, chain>>

-----------------------------------------------------------------------------
Buyer ==
    \/ \E p \in Listed, o \in Outcomes : SendQuery(p, o)
    \/ OpenWindow
    \/ Ask
    \/ CloseWindow
    \/ \E o \in Outcomes : SendAccept(o)
    \/ ScanBuffer
    \/ Poll
    \/ Timeout
    \/ \E o \in Outcomes : OpenTrade(o)
    \/ \E k \in {1, 2}, o \in Outcomes : SettleTier(k, o)
    \/ \E o \in Outcomes : WriteReceipt(o)

Ticks == \E q \in Calls : Answer(q) \/ HandleTick(q)

Supplier(a) ==
    \/ SkipQuery(a)
    \/ \E h \in HashSet, o \in Outcomes : HandleQuery(a, h, o)
    \/ Remember(a)
    \/ AcceptUnknown(a)
    \/ AcceptLost(a)
    \/ HandleAccept(a)
    \/ \E k \in {1, 2}, o \in Outcomes : Attest(a, k, o)
    \/ \E o \in Outcomes : Deliver(a, o)

Next ==
    \/ \E w \in Wants : StartQuery(w[1], w[2])
    \/ Buyer
    \/ Ticks
    \/ \E q \in Calls : TickFails(q)
    \/ PollFails
    \/ \E a \in Agents : Supplier(a) \/ AgentRecvFails(a) \/ AgentRestarts(a)

Spec == Init /\ [][Next]_vars

\* The event loop goes on: requests end, with or without an error, timers
\* fire, and each supplier keeps polling.  Nobody is obliged to start a call.
Fairness ==
    /\ \A p \in Listed : WF_vars(\E o \in Outcomes : SendQuery(p, o))
    /\ WF_vars(OpenWindow) /\ WF_vars(Ask) /\ WF_vars(CloseWindow)
    /\ WF_vars(\E o \in Outcomes : SendAccept(o))
    /\ WF_vars(ScanBuffer) /\ WF_vars(Poll) /\ WF_vars(Timeout)
    /\ WF_vars(\E o \in Outcomes : OpenTrade(o))
    /\ \A k \in {1, 2} : WF_vars(\E o \in Outcomes : SettleTier(k, o))
    /\ WF_vars(\E o \in Outcomes : WriteReceipt(o))
    /\ \A q \in Calls : WF_vars(Answer(q)) /\ WF_vars(HandleTick(q))
    /\ \A a \in Agents : WF_vars(Supplier(a))

FairSpec == Spec /\ Fairness

-----------------------------------------------------------------------------
Phases == {"idle", "sending", "collecting", "accepting", "accepted", "waiting",
           "opening", "settling1", "settling2", "writing", "done", "failed"}

Entry == [query : Calls, prompt : Prompts, hash : HashSet \cup {None}]
Service == [query : Calls, hash : HashSet, tier2 : BOOLEAN, signed : SUBSET {1, 2}]

\* Every variable has its type.
TypeOK ==
    /\ pc \in Phases /\ query \in 0 .. MaxQueries
    /\ prompt \in Prompts \cup {None} /\ tier2 \in BOOLEAN
    /\ unsent \subseteq Listed
    /\ \A i \in DOMAIN bids : bids[i] \in Message
    /\ buffer \subseteq Message
    /\ \A q \in Calls : tick[q] \in {Off, Asked} \/ tick[q] \in Message
    /\ peers \in [Agents -> Nodes \cup {None}]
    /\ winner \in Agents \cup {None}
    /\ got = None \/ got \in Message
    /\ \A n \in Nodes \cup {BuyerNode} : queue[n] \in Seq(Message)
    /\ inflight \in [Agents -> SUBSET Entry]
    /\ bidding \in [Agents -> SUBSET Entry]
    /\ serving \in [Agents -> Service \cup {None}]
    /\ attested \subseteq HashSet \X {1, 2}
    /\ chain \in [Calls -> [open : BOOLEAN, settled : SUBSET {1, 2}]]
    /\ faults \in 0 .. MaxFaults

\* The receipt the buyer pays for was delivered in this call, by the agent
\* whose bid won, and has the det_hash that the winning bid committed to:
\* queryMarket never compares the two (runtime.mjs:231-242), so it rests on
\* query ids and on what suppliers keep between bid and accept.
DeliveryHonoursBid ==
    pc \in {"opening", "settling1", "settling2", "writing", "done"} =>
        /\ got.query = query
        /\ got.agent = Cheapest(bids).agent
        /\ got.hash = Cheapest(bids).hash

\* The messages that are anywhere in the system.
Wherever ==
    (UNION {{queue[n][i] : i \in DOMAIN queue[n]} : n \in Nodes \cup {BuyerNode}})
      \cup buffer \cup ({tick[q] : q \in Calls} \ {Off, Asked})
Delivers == {m \in Wherever : m.type = "deliver"}

\* Both or nothing (cache/src/runtime.mjs:142-144): every deliver anywhere in
\* the system carries each tier its accept asked for, and each is signed.
BothOrNothing ==
    \A m \in Delivers :
        /\ 1 \in m.tiers
        /\ m.query = query /\ tier2 => 2 \in m.tiers
        /\ \A k \in m.tiers : <<m.hash, k>> \in attested

\* queryMarket returns only when the tiers the caller wanted are settled on
\* chain, and no others; a call that has not come to pay has no trade; and no
\* trade has Tier 2 settled without Tier 1.
ReturnMeansSettled ==
    /\ pc = "done" =>
        chain[query] = [open |-> TRUE, settled |-> IF tier2 THEN {1, 2} ELSE {1}]
    /\ pc \in {"sending", "collecting", "accepting", "accepted", "waiting"} =>
        chain[query] = NoTrade
    /\ \A q \in Calls :
        /\ chain[q].settled # {} => chain[q].open
        /\ 2 \in chain[q].settled => 1 \in chain[q].settled

\* An accept is taken off a node's queue by the agent it names: "One AXL node
\* can host multiple agents under different agent_ids; the buyer's
\* PeerRegistry resolves agent_id back to the AXL pubkey when sending accept"
\* (cache/src/runtime.mjs:12-15).
AcceptReachesAddressee ==
    [][\A a \in Agents :
         AcceptUnknown(a) \/ AcceptLost(a) => Next1(a).agent = a]_vars

\* Unless a request failed or a supplier restarted, the supplier whose bid
\* was accepted still knows the query when the accept comes.
AcceptFindsContext ==
    [][\A a \in Agents :
         AcceptUnknown(a) /\ Next1(a).agent = a => faults > 0]_vars

\* Every call of queryMarket returns or throws, whatever fails.
QueryConcludes == (pc = "sending") ~> (pc \in {"done", "failed"})

\* What the last ticks of closed windows, those that were already fetching, can
\* take from a call: its deliver, which they put in the buffer after
\* _waitForDeliver has searched that (runtime.mjs:380-388), or all its bids,
\* which they drop (line 151), one each.
Missed ==
    /\ pc = "failed"
    /\ \/ \E msg \in buffer : OurDeliver(msg)
       \/ bids = <<>> /\ Cardinality({a \in Agents : Offers[a][prompt] # {}}) < query

\* If nothing fails and timers outlast messages, every call ends in a settled
\* trade, unless ticks of closed windows took its deliver, or its every bid.
PurchaseSucceeds == (pc = "sending") ~> (pc = "done" \/ Missed)
=============================================================================
