-------------------------- MODULE MarketplaceProofs --------------------------
(***************************************************************************)
(* Marketplace, for any agents, nodes, calls and faults: TypeOK, the three *)
(* other invariants and the two action properties about accepts.           *)
(*                                                                         *)
(* IInv, the inductive invariant, says of every message under way, in a    *)
(* queue, in a tick or in the buffer, what it may be: an accept or a       *)
(* deliver of the current call is for the winner and exists only once the  *)
(* accept has gone out (ForTheWinner).  These sets of messages only grow   *)
(* (Grown, MessagesKeep), so a queue need only be looked at where a step   *)
(* changes it.  Two layers come on top of it: Known says what the          *)
(* suppliers know as long as nothing has failed, and Receipted that each   *)
(* has one receipt per call, although a prover may never give the same one *)
(* twice.                                                                  *)
(***************************************************************************)
EXTENDS Marketplace, BidChoiceProofs, SequenceTheorems

\* The phases of a call after its accept may have gone out, and those in which
\* it goes on with the deliver.
Accepted == {"accepted", "waiting", "opening", "settling1", "settling2",
             "writing", "done", "failed"}
Paying == {"opening", "settling1", "settling2", "writing", "done"}

\* Something agent a does for call q is of an earlier call, or of this one,
\* which it won.
ForTheWinner(a, q) ==
    /\ q <= query
    /\ q = query => a = winner /\ pc \in Accepted

\* The messages each kind of which may be under way.
Queries == {m \in Message : m.type = "query" /\ m.query <= query}

Bids == {m \in Message :
            /\ m.type = "bid"
            /\ m.query <= query
            /\ m.from = NodeOf[m.agent]}

Accepts == {m \in Message :
            /\ m.type = "accept"
            /\ ForTheWinner(m.agent, m.query)
            /\ m.query = query => m.tier2 = tier2}

Deliveries == {m \in Message :
            /\ m.type = "deliver"
            /\ ForTheWinner(m.agent, m.query)
            /\ 1 \in m.tiers
            /\ m.query = query /\ tier2 => 2 \in m.tiers
            /\ \A k \in m.tiers : <<m.hash, k>> \in attested}

ToBuyer == Bids \cup Deliveries
ToNode(n) == Queries \cup {m \in Accepts : NodeOf[m.agent] = n}

\* The accepts an agent may be handling.
Services(a) == {s \in Service :
            /\ ForTheWinner(a, s.query)
            /\ s.query = query => s.tier2 = tier2
            /\ \A k \in s.signed : <<s.hash, k>> \in attested}

\* Every message under way, wherever it is, may be there.
Queues ==
    /\ DOMAIN queue = Nodes \cup {BuyerNode}
    /\ queue[BuyerNode] \in Seq(ToBuyer)
    /\ \A n \in Nodes : queue[n] \in Seq(ToNode(n))

Fetched ==
    /\ buffer \subseteq ToBuyer
    /\ DOMAIN tick = Calls
    /\ \A q \in Calls : tick[q] \in {Off, Asked} \cup ToBuyer

\* The bids collected are of this call, from agents whose node is known, and
\* the winner made the cheapest.
Window ==
    /\ bids \in Seq({m \in Bids : m.query = query})
    /\ peers \in [Agents -> Nodes \cup {None}]
    /\ \A a \in Agents : peers[a] \in {None, NodeOf[a]}
    /\ \A i \in DOMAIN bids : peers[bids[i].agent] = NodeOf[bids[i].agent]
    /\ pc \in {"accepting", "accepted", "waiting"} \cup Paying =>
           Eligible(bids) # {} /\ winner = Cheapest(bids).agent

\* What suppliers keep: the fresh agents their receipts.
Suppliers ==
    /\ inflight \in [Agents -> SUBSET Entry]
    /\ bidding \in [Agents -> SUBSET Entry]
    /\ \A a \in Agents : \A e \in inflight[a] \cup bidding[a] :
            e.query <= query /\ (a \notin Caches => e.hash \in HashSet)
    /\ serving \in [Agents -> Service \cup {None}]
    /\ \A a \in Agents : serving[a] = None \/ serving[a] \in Services(a)

\* How far each call's trade has come, by the phase of the call.
Trades ==
    /\ chain \in [Calls -> [open : BOOLEAN, settled : SUBSET {1, 2}]]
    /\ \A q \in Calls : q > query => chain[q] = NoTrade
    /\ \A q \in Calls : /\ chain[q].settled # {} => chain[q].open
                        /\ 2 \in chain[q].settled => 1 \in chain[q].settled
    /\ pc = "idle" <=> query = 0
    /\ pc \in {"sending", "collecting", "accepting", "accepted", "waiting", "opening"} =>
           chain[query] = NoTrade
    /\ pc = "settling1" => chain[query] = [open |-> TRUE, settled |-> {}]
    /\ pc = "settling2" => tier2 /\ chain[query] = [open |-> TRUE, settled |-> {1}]
    /\ pc = "writing" => tier2 /\ chain[query] = [open |-> TRUE, settled |-> {1, 2}]
    /\ pc = "done" =>
           chain[query] = [open |-> TRUE, settled |-> IF tier2 THEN {1, 2} ELSE {1}]

Plain ==
    /\ pc \in Phases /\ query \in 0 .. MaxQueries /\ tier2 \in BOOLEAN
    /\ prompt \in Prompts \cup {None} /\ (pc # "idle" => prompt \in Prompts)
    /\ unsent \subseteq Listed
    /\ winner \in Agents \cup {None}
    /\ got = None \/ got \in Message
    /\ pc \in Paying => got \in Deliveries /\ got.query = query
    /\ attested \subseteq HashSet \X {1, 2}
    /\ faults \in 0 .. MaxFaults

IInv == Plain /\ Queues /\ Fetched /\ Window /\ Suppliers /\ Trades

-----------------------------------------------------------------------------
(* What the suppliers know.  At most one accept per call is under way or   *)
(* being handled, its agent knows the query, and so does every bidder      *)
(* before the accept.                                                      *)

\* Whether agent a knows the query of call q.
Knows(a, q) == \E e \in inflight[a] \cup bidding[a] : e.query = q

\* The place i in the queue of node n holds a message of that type.
Holds(n, i, type) == i \in DOMAIN queue[n] /\ queue[n][i].type = type

\* Two accepts in queues are of different calls, and none of them is of a
\* call whose accept is being handled.
OneAcceptPerCall ==
    \A m, n \in Nodes : \A i \in DOMAIN queue[m], j \in DOMAIN queue[n] :
        /\ Holds(m, i, "accept") /\ Holds(n, j, "accept")
        /\ queue[m][i].query = queue[n][j].query
        => m = n /\ i = j
NotServed ==
    \A n \in Nodes : \A i \in DOMAIN queue[n], a \in Agents :
        Holds(n, i, "accept") /\ serving[a] # None => serving[a].query # queue[n][i].query

\* The agent an accept names knows its query.
AcceptsKnown ==
    \A n \in Nodes : \A i \in DOMAIN queue[n] :
        Holds(n, i, "accept") => Knows(queue[n][i].agent, queue[n][i].query)

\* Before the accept goes out, so does every agent whose bid on this call is
\* under way, fetched or collected.
BidKnown(m) == m.type = "bid" /\ m.query = query => Knows(m.agent, query)
BidsKnown ==
    pc \notin Accepted =>
        /\ \A i \in DOMAIN queue[BuyerNode] : BidKnown(queue[BuyerNode][i])
        /\ \A q \in Calls : tick[q] \notin {Off, Asked} => BidKnown(tick[q])
        /\ \A i \in DOMAIN bids : BidKnown(bids[i])

Known == OneAcceptPerCall /\ NotServed /\ (faults = 0 => AcceptsKnown /\ BidsKnown)

-----------------------------------------------------------------------------
(* The receipts.  If every node is listed once, it is asked once in a call, *)
(* so an agent has one receipt for it, whatever the prover answers.        *)

\* The messages that have come to the buyer, or are on their way there.
Heard == {queue[BuyerNode][i] : i \in DOMAIN queue[BuyerNode]}
           \cup {tick[q] : q \in Calls} \cup buffer
           \cup {bids[i] : i \in DOMAIN bids}
           \cup (IF pc \in Paying THEN {got} ELSE {})

\* Message m commits agent a to hash h for call q.
Says(m, a, q, h) ==
    m.type \in {"bid", "deliver"} /\ m.agent = a /\ m.query = q /\ m.hash = h

\* Agent a would deliver, or is delivering, the receipt h for call q.
Holding(a, q, h) ==
    \/ \E e \in inflight[a] \cup bidding[a] : e.query = q /\ h \in ReceiptOf(a, e)
    \/ serving[a] # None /\ serving[a].query = q /\ serving[a].hash = h

Shown(a, q, h) == Holding(a, q, h) \/ \E m \in Heard : Says(m, a, q, h)

\* No agent of node n has a receipt for call q.
Silent(n, q) ==
    \A a \in Agents, h \in HashSet : NodeOf[a] = n => ~Shown(a, q, h)

\* The query of call q is in the queue of node n.
Waits(n, q) == \E i \in DOMAIN queue[n] : Holds(n, i, "query") /\ queue[n][i].query = q

OneQueryPerCall ==
    \A n \in Nodes : \A i, j \in DOMAIN queue[n] :
        /\ Holds(n, i, "query") /\ Holds(n, j, "query")
        /\ queue[n][i].query = queue[n][j].query
        => i = j

QueriesFirst ==
    /\ \A n \in Nodes, q \in Calls : Waits(n, q) => Silent(n, q)
    /\ \A p \in unsent : ~Waits(p[1], query) /\ Silent(p[1], query)

OneReceipt ==
    \A a \in Agents, q \in Calls : \A g, h \in HashSet :
        Shown(a, q, g) /\ Shown(a, q, h) => g = h

Receipted == OneQueryPerCall /\ QueriesFirst /\ OneReceipt

-----------------------------------------------------------------------------
(* Messages.                                                               *)

\* The sets of messages, and of accepts being handled, only grow in a step.
Grown ==
    /\ Queries \subseteq Queries' /\ Bids \subseteq Bids'
    /\ Accepts \subseteq Accepts' /\ Deliveries \subseteq Deliveries'
    /\ \A a \in Agents : Services(a) \subseteq Services(a)'

LEMMA MessageKinds ==
    ASSUME NEW m \in Message
    PROVE  /\ m.query \in Calls
           /\ m.type \in {"query", "bid", "accept", "deliver"}
           /\ m.type \in {"bid", "accept", "deliver"} => m.agent \in Agents
           /\ m.type = "query" => m.prompt \in Prompts
           /\ m.type = "accept" => m.tier2 \in BOOLEAN
           /\ m.type = "bid" => m.hash \in HashSet
           /\ m.type = "deliver" => m.hash \in HashSet /\ m.tiers \subseteq {1, 2}
           /\ m # Off /\ m # Asked
BY DEF Message, Off, Asked

LEMMA SameCall ==
    ASSUME query' = query, tier2' = tier2,
           winner' = winner \/ pc \notin Accepted,
           pc \in Accepted => pc' \in Accepted,
           attested \subseteq attested'
    PROVE  Grown
<1>1. Queries \subseteq Queries' /\ Bids \subseteq Bids'
  BY DEF Queries, Bids
<1>2. \A a, q : ForTheWinner(a, q) => ForTheWinner(a, q)'
  BY DEF ForTheWinner
<1>3. Accepts \subseteq Accepts'
  BY <1>2 DEF Accepts
<1>4. Deliveries \subseteq Deliveries'
  BY <1>2 DEF Deliveries
<1>5. \A a \in Agents : Services(a) \subseteq Services(a)'
  BY <1>2 DEF Services
<1> QED
  BY <1>1, <1>3, <1>4, <1>5 DEF Grown

LEMMA NextCall ==
    ASSUME query \in Nat, query' = query + 1, attested' = attested
    PROVE  Grown
<1>1. \A m \in Message : m.query \in Nat
  BY MessageKinds DEF Calls
<1>2. Queries \subseteq Queries' /\ Bids \subseteq Bids'
  BY <1>1 DEF Queries, Bids
<1>3. \A a, q : q \in Nat /\ ForTheWinner(a, q) => ForTheWinner(a, q)' /\ q # query'
  BY DEF ForTheWinner
<1>4. Accepts \subseteq Accepts'
  BY <1>1, <1>3 DEF Accepts
<1>5. Deliveries \subseteq Deliveries'
  BY <1>1, <1>3 DEF Deliveries
<1>6. \A a \in Agents : Services(a) \subseteq Services(a)'
  <2>1. \A t \in Service : t.query \in Nat
    BY DEF Service, Calls
  <2> QED
    BY <1>3, <2>1 DEF Services
<1> QED
  BY <1>2, <1>4, <1>5, <1>6 DEF Grown

\* Whatever step is taken, a message that might be under way before it may be
\* under way after it.
LEMMA MessagesKeep ==
    ASSUME Plain, [Next]_vars
    PROVE  Grown
<1> USE DEF buyerVars, supplierVars
<1>1. CASE UNCHANGED vars
  BY <1>1, SameCall DEF vars
<1>2. ASSUME NEW w \in Wants, StartQuery(w[1], w[2]) PROVE Grown
  BY <1>2, NextCall, MarketAssumption DEF StartQuery, Plain
<1>3. CASE Buyer
  <2>1. ASSUME NEW p \in Listed, NEW o \in Outcomes, SendQuery(p, o) PROVE Grown
    BY <2>1, SameCall DEF SendQuery, Accepted
  <2>2. CASE OpenWindow
    BY <2>2, SameCall DEF OpenWindow, Accepted
  <2>3. CASE Ask
    BY <2>3, SameCall DEF Ask, Accepted
  <2>4. CASE CloseWindow
    BY <2>4, SameCall DEF CloseWindow, Accepted
  <2>5. ASSUME NEW o \in Outcomes, SendAccept(o) PROVE Grown
    BY <2>5, SameCall DEF SendAccept, Accepted
  <2>6. CASE ScanBuffer
    BY <2>6, SameCall DEF ScanBuffer, Receive, Accepted
  <2>7. CASE Poll
    BY <2>7, SameCall DEF Poll, Receive, Accepted
  <2>8. CASE Timeout
    BY <2>8, SameCall DEF Timeout, Accepted
  <2>9. ASSUME NEW o \in Outcomes, OpenTrade(o) PROVE Grown
    BY <2>9, SameCall DEF OpenTrade, Accepted
  <2>10. ASSUME NEW k \in {1, 2}, NEW o \in Outcomes, SettleTier(k, o) PROVE Grown
    BY <2>10, SameCall DEF SettleTier, Accepted
  <2>11. ASSUME NEW o \in Outcomes, WriteReceipt(o) PROVE Grown
    BY <2>11, SameCall DEF WriteReceipt, Accepted
  <2> QED
    BY <1>3, <2>1, <2>2, <2>3, <2>4, <2>5, <2>6, <2>7, <2>8, <2>9, <2>10, <2>11 DEF Buyer
<1>4. CASE Ticks
  BY <1>4, SameCall DEF Ticks, Answer, HandleTick
<1>5. CASE (\E q \in Calls : TickFails(q)) \/ PollFails
  BY <1>5, SameCall DEF TickFails, PollFails, Accepted
<1>6. ASSUME NEW a \in Agents, Supplier(a) \/ AgentRecvFails(a) \/ AgentRestarts(a)
      PROVE  Grown
  <2>1. UNCHANGED buyerVars /\ attested \subseteq attested'
    BY <1>6 DEF Supplier, SkipQuery, HandleQuery, Remember, AcceptUnknown, AcceptLost,
               HandleAccept, Attest, Deliver, AgentRecvFails, AgentRestarts
  <2> QED
    BY <2>1, SameCall
<1> QED
  BY <1>1, <1>2, <1>3, <1>4, <1>5, <1>6 DEF Next

\* Who bid, and from where.
LEMMA BidAgents ==
    ASSUME Window, NEW i \in DOMAIN bids
    PROVE  /\ bids[i] \in Bids
           /\ bids[i].query = query
           /\ bids[i].agent \in Agents
<1> DEFINE S == {m \in Bids : m.query = query}
<1> HIDE DEF S
<1>1. bids \in Seq(S)
  BY DEF Window, S
<1>2. bids[i] \in S
  BY <1>1, ElementOfSeq, LenProperties
<1>3. bids[i] \in Bids /\ bids[i].query = query
  BY <1>2 DEF S
<1> QED
  BY <1>3, MessageKinds DEF Bids

\* The winner is the agent of one of the bids.
LEMMA WinnerBid ==
    ASSUME Window, Eligible(bids) # {}
    PROVE  \E i \in DOMAIN bids : Cheapest(bids) = bids[i]
<1> DEFINE S == {m \in Bids : m.query = query}
<1>1. Priced(S)
  BY MarketAssumption DEF Priced, Bids, Message
<1> HIDE DEF S
<1>2. bids \in Seq(S)
  BY DEF Window, S
<1> QED
  BY <1>1, <1>2, CheapestIsCheap DEF Eligible

\* An accept being handled.
LEMMA ServiceTypes ==
    ASSUME Suppliers, NEW a \in Agents, serving[a] # None
    PROVE  /\ serving[a] \in Services(a) /\ serving[a] \in Service
           /\ serving[a].query \in Calls /\ serving[a].hash \in HashSet
           /\ serving[a].tier2 \in BOOLEAN /\ serving[a].signed \subseteq {1, 2}
           /\ ForTheWinner(a, serving[a].query)
           /\ serving[a].query = query => serving[a].tier2 = tier2
           /\ \A k \in serving[a].signed : <<serving[a].hash, k>> \in attested
<1>1. PICK s : s = serving[a]
  OBVIOUS
<1>2. s \in Services(a) /\ s \in Service
  BY <1>1 DEF Suppliers, Services
<1>3. s.query \in Calls /\ s.hash \in HashSet /\ s.tier2 \in BOOLEAN /\ s.signed \subseteq {1, 2}
  BY <1>2 DEF Service
<1>4. /\ ForTheWinner(a, s.query) /\ (s.query = query => s.tier2 = tier2)
      /\ \A k \in s.signed : <<s.hash, k>> \in attested
  BY <1>2 DEF Services
<1> QED
  BY <1>1, <1>2, <1>3, <1>4

-----------------------------------------------------------------------------
(* Queues.                                                                 *)

\* What the queue of n may hold.
Contents(n) == IF n = BuyerNode THEN ToBuyer ELSE ToNode(n)

LEMMA QueuesByContents ==
    Queues <=> /\ DOMAIN queue = Nodes \cup {BuyerNode}
               /\ \A n \in Nodes \cup {BuyerNode} : queue[n] \in Seq(Contents(n))
BY MarketAssumption DEF Queues, Contents

LEMMA QueuesByContentsNext ==
    Queues' <=> /\ DOMAIN queue' = Nodes \cup {BuyerNode}
                /\ \A n \in Nodes \cup {BuyerNode} : queue'[n] \in Seq(Contents(n)')
BY MarketAssumption DEF Queues, Contents

LEMMA ContentsGrow ==
    ASSUME Grown, NEW n
    PROVE  Contents(n) \subseteq Contents(n)'
BY DEF Grown, Contents, ToBuyer, ToNode

\* A queue that a step leaves alone, takes from or appends to.
LEMMA QueueKept ==
    ASSUME Grown, NEW n, NEW s \in Seq(Contents(n))
    PROVE  /\ s \in Seq(Contents(n)')
           /\ s # <<>> => Tail(s) \in Seq(Contents(n)') /\ Head(s) \in Contents(n)
           /\ \A m \in Contents(n)' : Append(s, m) \in Seq(Contents(n)')
<1> DEFINE S == Contents(n)  T == Contents(n)'
<1>1. S \subseteq T
  BY ContentsGrow
<1> HIDE DEF S, T
<1>2. s \in Seq(S)
  BY DEF S
<1>3. s \in Seq(T)
  BY <1>1, <1>2, SeqMonotonic
<1>4. s # <<>> => Tail(s) \in Seq(T) /\ Head(s) \in S
  BY <1>2, <1>3, HeadTailProperties
<1>5. \A m \in T : Append(s, m) \in Seq(T)
  BY <1>3, AppendProperties
<1> QED
  BY <1>3, <1>4, <1>5 DEF S, T

LEMMA QueuesStay ==
    ASSUME Grown, Queues, UNCHANGED queue
    PROVE  Queues'
BY QueueKept, QueuesByContents, QueuesByContentsNext

LEMMA QueuesTook ==
    ASSUME Grown, Queues, NEW n \in Nodes \cup {BuyerNode}, queue[n] # <<>>,
           queue' = Took(n)
    PROVE  Queues' /\ Head(queue[n]) \in Contents(n)
<1>1. \A k \in Nodes \cup {BuyerNode} :
          queue'[k] = IF k = n THEN Tail(queue[k]) ELSE queue[k]
  BY QueuesByContents DEF Took
<1>2. DOMAIN queue' = Nodes \cup {BuyerNode}
  BY QueuesByContents DEF Took
<1> QED
  BY <1>1, <1>2, QueueKept, QueuesByContents, QueuesByContentsNext

LEMMA QueuesSent ==
    ASSUME Grown, Queues, NEW o, NEW n \in Nodes \cup {BuyerNode}, NEW m \in Contents(n)',
           queue' = Sent(o, n, m)
    PROVE  Queues'
<1>1. \A k \in Nodes \cup {BuyerNode} :
          queue'[k] = IF k = n /\ o.done THEN Append(queue[k], m) ELSE queue[k]
  BY QueuesByContents DEF Sent
<1>2. DOMAIN queue' = Nodes \cup {BuyerNode}
  BY QueuesByContents DEF Sent
<1>3. \A k \in Nodes \cup {BuyerNode} : queue'[k] \in Seq(Contents(k)')
  <2> TAKE k \in Nodes \cup {BuyerNode}
  <2>1. queue[k] \in Seq(Contents(k))
    BY QueuesByContents
  <2>2. CASE k = n /\ o.done
    BY <1>1, <2>1, <2>2, QueueKept
  <2>3. CASE ~(k = n /\ o.done)
    BY <1>1, <2>1, <2>3, QueueKept
  <2> QED
    BY <2>2, <2>3
<1> QED
  BY <1>2, <1>3, QueuesByContentsNext

LEMMA QueuesReplied ==
    ASSUME Grown, Queues, NEW o, NEW n \in Nodes, queue[n] # <<>>,
           NEW m \in ToBuyer',
           queue' = [Took(n) EXCEPT ![BuyerNode] = IF o.done THEN Append(@, m) ELSE @]
    PROVE  Queues' /\ Head(queue[n]) \in ToNode(n)
<1>1. n # BuyerNode
  BY MarketAssumption
<1> DEFINE t == Took(n)
<1>2. /\ DOMAIN t = Nodes \cup {BuyerNode}
      /\ \A k \in Nodes \cup {BuyerNode} : t[k] = IF k = n THEN Tail(queue[k]) ELSE queue[k]
  BY QueuesByContents DEF Took
<1>3. queue' = [t EXCEPT ![BuyerNode] = IF o.done THEN Append(t[BuyerNode], m) ELSE t[BuyerNode]]
  OBVIOUS
<1> HIDE DEF t
<1>4. \A k \in Nodes \cup {BuyerNode} :
          queue'[k] = IF k = n THEN Tail(queue[k])
                      ELSE IF k = BuyerNode /\ o.done THEN Append(queue[k], m)
                      ELSE queue[k]
  BY <1>1, <1>2, <1>3
<1>5. DOMAIN queue' = Nodes \cup {BuyerNode}
  BY <1>2, <1>3
<1>6. m \in Contents(BuyerNode)'
  BY DEF Contents
<1>7. \A k \in Nodes \cup {BuyerNode} : queue'[k] \in Seq(Contents(k)')
  BY <1>4, <1>6, QueueKept, QueuesByContents
<1>8. Head(queue[n]) \in Contents(n)
  BY QueueKept, QueuesByContents
<1> QED
  BY <1>1, <1>5, <1>7, <1>8, QueuesByContentsNext DEF Contents

\* What an agent takes off the queue of its node.
LEMMA Taken ==
    ASSUME Plain, Queues, Suppliers, NEW a \in Agents, NEW type, Gets(a, type)
    PROVE  /\ NodeOf[a] \in Nodes
           /\ queue[NodeOf[a]] # <<>>
           /\ Next1(a) \in ToNode(NodeOf[a])
           /\ Next1(a) \in Message
           /\ type = "accept" => Next1(a) \in Accepts /\ NodeOf[Next1(a).agent] = NodeOf[a]
<1>1. NodeOf[a] \in Nodes /\ queue[NodeOf[a]] # <<>> /\ Next1(a).type = type
  BY MarketAssumption DEF Gets
<1>2. queue[NodeOf[a]] \in Seq(ToNode(NodeOf[a]))
  BY <1>1 DEF Queues
<1>3. Next1(a) \in ToNode(NodeOf[a])
  <2> DEFINE S == ToNode(NodeOf[a])
  <2> HIDE DEF S
  <2>1. queue[NodeOf[a]] \in Seq(S)
    BY <1>2 DEF S
  <2>2. Head(queue[NodeOf[a]]) \in S
    BY <1>1, <2>1, HeadTailProperties
  <2> QED
    BY <2>2 DEF S, Next1
<1> QED
  BY <1>1, <1>3 DEF ToNode, Queries, Accepts

\* A query goes to a listed node.
LEMMA QuerySent ==
    ASSUME IInv, NEW p \in Listed, NEW o \in Outcomes, SendQuery(p, o)
    PROVE  /\ p[1] \in Nodes
           /\ [type |-> "query", query |-> query, from |-> BuyerNode,
               prompt |-> prompt] \in ToNode(p[1])'
<1> DEFINE m == [type |-> "query", query |-> query, from |-> BuyerNode,
                 prompt |-> prompt]
<1>1. query \in Calls /\ query' = query /\ prompt \in Prompts
  BY MarketAssumption DEF IInv, Plain, Trades, SendQuery, Calls
<1>2. m \in Queries
  BY <1>1, MarketAssumption DEF Queries, Message, Calls
<1>3. m \in Queries'
  BY <1>1, <1>2 DEF Queries, Message
<1> QED
  BY <1>3 DEF Listed, ToNode

\* The accept goes to the winner's node.
LEMMA AcceptToWinner ==
    ASSUME IInv, NEW o \in Outcomes, SendAccept(o)
    PROVE  /\ winner \in Agents
           /\ \E n \in Nodes :
                /\ n = peers[winner]
                /\ [type |-> "accept", query |-> query, from |-> BuyerNode,
                    agent |-> winner, tier2 |-> tier2] \in ToNode(n)'
<1> DEFINE m == [type |-> "accept", query |-> query, from |-> BuyerNode,
                 agent |-> winner, tier2 |-> tier2]
<1>1. Plain /\ Window /\ Trades
  BY DEF IInv
<1>2. /\ pc = "accepting" /\ pc' \in Accepted
      /\ UNCHANGED <<query, tier2, winner>>
  BY DEF SendAccept, Accepted
<1>3. winner \in Agents /\ peers[winner] = NodeOf[winner]
  <2>1. PICK i \in DOMAIN bids : bids[i].agent = winner
    BY <1>1, <1>2, WinnerBid DEF Window
  <2> QED
    BY <1>1, <2>1, BidAgents DEF Window
<1>4. query \in Calls /\ tier2 \in BOOLEAN
  BY <1>1, <1>2, MarketAssumption DEF Plain, Trades, Calls
<1>5. m \in Message
  BY <1>3, <1>4 DEF Message
<1>6. m \in Accepts' /\ NodeOf[m.agent] = NodeOf[winner]
  BY <1>2, <1>4, <1>5, MarketAssumption DEF Accepts, ForTheWinner, Calls, Message
<1>7. PICK n \in Nodes : n = NodeOf[winner]
  BY <1>3, MarketAssumption
<1> HIDE DEF m
<1>8. m \in ToNode(n)'
  BY <1>6, <1>7 DEF ToNode
<1> QED
  BY <1>3, <1>7, <1>8 DEF m

LEMMA QueuesNext ==
    ASSUME IInv, [Next]_vars
    PROVE  Queues'
<1>1. Grown /\ Plain /\ Queues /\ Fetched /\ Window /\ Suppliers
  BY MessagesKeep DEF IInv
<1>2. CASE UNCHANGED queue
  BY <1>1, <1>2, QueuesStay
<1>3. ASSUME NEW n \in Nodes \cup {BuyerNode}, queue[n] # <<>>, queue' = Took(n)
      PROVE  Queues'
  BY <1>1, <1>3, QueuesTook
<1>4. ASSUME NEW p \in Listed, NEW o \in Outcomes, SendQuery(p, o)
      PROVE  Queues'
  <2> DEFINE m == [type |-> "query", query |-> query, from |-> BuyerNode,
                   prompt |-> prompt]
  <2>1. p[1] \in Nodes /\ m \in ToNode(p[1])' /\ queue' = Sent(o, p[1], m)
    BY <1>4, QuerySent DEF SendQuery
  <2> HIDE DEF m
  <2>2. m \in Contents(p[1])'
    BY <2>1, MarketAssumption DEF Contents
  <2> QED
    BY <1>1, <2>1, <2>2, QueuesSent
<1>5. ASSUME NEW o \in Outcomes, SendAccept(o)
      PROVE  Queues'
  <2> DEFINE m == [type |-> "accept", query |-> query, from |-> BuyerNode,
                   agent |-> winner, tier2 |-> tier2]
  <2>1. PICK n \in Nodes : n = peers[winner] /\ m \in ToNode(n)'
    BY <1>5, AcceptToWinner
  <2>2. queue' = Sent(o, n, m)
    BY <1>5, <2>1 DEF SendAccept
  <2> HIDE DEF m
  <2>3. m \in Contents(n)'
    BY <2>1, MarketAssumption DEF Contents
  <2> QED
    BY <1>1, <2>2, <2>3, QueuesSent
<1>6. ASSUME NEW a \in Agents, NEW h \in HashSet, NEW o \in Outcomes, HandleQuery(a, h, o)
      PROVE  Queues'
  <2> DEFINE m == [type |-> "bid", query |-> Next1(a).query, from |-> NodeOf[a],
                   agent |-> a, price |-> Price[a], hash |-> h]
  <2>1. /\ Gets(a, "query")
        /\ queue' = [Took(NodeOf[a]) EXCEPT ![BuyerNode] =
                        IF o.done THEN Append(@, m) ELSE @]
    BY <1>6 DEF HandleQuery
  <2>2. /\ NodeOf[a] \in Nodes /\ queue[NodeOf[a]] # <<>>
        /\ Next1(a).query \in Calls /\ Next1(a).query <= query
    BY <1>1, <2>1, Taken, MessageKinds DEF ToNode, Queries, Accepts, ForTheWinner
  <2>3. m \in Bids
    <3>1. m \in [type : {"bid"}, query : Calls, from : Nodes, agent : Agents,
                 price : {Price[b] : b \in Agents}, hash : HashSet]
      BY <2>2
    <3> QED
      BY <2>2, <3>1 DEF Bids, Message
  <2> HIDE DEF m
  <2>4. m \in ToBuyer'
    BY <1>1, <2>3 DEF Grown, ToBuyer
  <2> QED
    BY <1>1, <2>1, <2>2, <2>4, QueuesReplied
<1>7. ASSUME NEW a \in Agents, NEW o \in Outcomes, Deliver(a, o)
      PROVE  Queues'
  <2> DEFINE s == serving[a]
             m == [type |-> "deliver", query |-> s.query, from |-> NodeOf[a],
                   agent |-> a, hash |-> s.hash, tiers |-> s.signed]
  <2>1. /\ queue' = Sent(o, BuyerNode, m)
        /\ s # None /\ s.signed = Requested(s)
        /\ UNCHANGED <<pc, query, tier2, winner, attested>>
    BY <1>7 DEF Deliver, AllSigned, buyerVars
  <2>2. /\ s.query \in Calls /\ s.hash \in HashSet /\ s.tier2 \in BOOLEAN /\ s.signed \subseteq {1, 2}
        /\ ForTheWinner(a, s.query) /\ (s.query = query => s.tier2 = tier2)
        /\ \A k \in s.signed : <<s.hash, k>> \in attested
    BY <1>1, <2>1, ServiceTypes
  <2>3. 1 \in s.signed /\ (s.tier2 => 2 \in s.signed)
    BY <2>1, <2>2 DEF Requested
  <2> HIDE DEF s
  <2>4. m \in Message
    <3>1. m \in [type : {"deliver"}, query : Calls, from : Nodes, agent : Agents,
                 hash : HashSet, tiers : SUBSET {1, 2}]
      BY <2>2, MarketAssumption
    <3> QED
      BY <3>1 DEF Message
  <2>5. m \in Deliveries
    BY <2>2, <2>3, <2>4 DEF Deliveries
  <2> HIDE DEF m
  <2>6. m \in Contents(BuyerNode)'
    BY <1>1, <2>5 DEF Grown, ToBuyer, Contents
  <2> QED
    BY <1>1, <2>1, <2>6, QueuesSent
<1>8. ASSUME NEW a \in Agents,
             SkipQuery(a) \/ AcceptUnknown(a) \/ AcceptLost(a) \/ HandleAccept(a) \/ AgentRecvFails(a)
      PROVE  Queues'
  <2>1. queue' = Took(NodeOf[a]) /\ queue[NodeOf[a]] # <<>> /\ NodeOf[a] \in Nodes
    BY <1>8, MarketAssumption DEF SkipQuery, AcceptUnknown, AcceptLost, HandleAccept, AgentRecvFails, Gets
  <2> QED
    BY <1>3, <2>1
<1>9. CASE Next
  <2>1. CASE \E w \in Wants : StartQuery(w[1], w[2])
    BY <1>2, <2>1 DEF StartQuery
  <2>2. CASE Buyer
    <3>1. CASE OpenWindow \/ Ask \/ CloseWindow \/ ScanBuffer \/ Timeout
      BY <1>2, <3>1 DEF OpenWindow, Ask, CloseWindow, ScanBuffer, Timeout
    <3>2. CASE Poll
      BY <1>3, <3>2 DEF Poll
    <3>3. CASE \/ \E o \in Outcomes : OpenTrade(o) \/ WriteReceipt(o)
               \/ \E k \in {1, 2}, o \in Outcomes : SettleTier(k, o)
      BY <1>2, <3>3 DEF OpenTrade, WriteReceipt, SettleTier
    <3> QED
      BY <1>4, <1>5, <2>2, <3>1, <3>2, <3>3 DEF Buyer
  <2>3. CASE Ticks
    BY <1>2, <1>3, <2>3 DEF Ticks, Answer, HandleTick
  <2>4. CASE (\E q \in Calls : TickFails(q)) \/ PollFails
    BY <1>2, <1>3, <2>4 DEF TickFails, PollFails
  <2>5. ASSUME NEW a \in Agents,
               Remember(a) \/ AgentRestarts(a) \/ \E k \in {1, 2}, o \in Outcomes : Attest(a, k, o)
        PROVE  Queues'
    BY <1>2, <2>5 DEF Remember, AgentRestarts, Attest
  <2> QED
    BY <1>6, <1>7, <1>8, <1>9, <2>1, <2>2, <2>3, <2>4, <2>5 DEF Next, Supplier
<1> QED
  BY <1>2, <1>9 DEF vars

-----------------------------------------------------------------------------
(* The other parts of the invariant.                                       *)

LEMMA FetchedNext ==
    ASSUME IInv, [Next]_vars
    PROVE  Fetched'
<1>1. Grown /\ Plain /\ Queues /\ Fetched
  BY MessagesKeep DEF IInv
<1>2. ToBuyer \subseteq ToBuyer'
  BY <1>1 DEF Grown, ToBuyer
<1>3. ASSUME queue[BuyerNode] # <<>>
      PROVE  Head(queue[BuyerNode]) \in ToBuyer
  <2> DEFINE S == ToBuyer
  <2> HIDE DEF S
  <2>1. queue[BuyerNode] \in Seq(S)
    BY <1>1 DEF Queues, S
  <2>2. Head(queue[BuyerNode]) \in S
    BY <1>3, <2>1, HeadTailProperties
  <2> QED
    BY <2>2 DEF S
<1>4. ASSUME UNCHANGED <<buffer, tick>> PROVE Fetched'
  BY <1>1, <1>2, <1>4 DEF Fetched
<1>5. ASSUME NEW q \in Calls, NEW v \in {Off, Asked} \cup ToBuyer,
             tick' = [tick EXCEPT ![q] = v], buffer' \subseteq ToBuyer
      PROVE  Fetched'
  BY <1>1, <1>2, <1>5 DEF Fetched
<1>6. ASSUME UNCHANGED tick, buffer' \subseteq ToBuyer PROVE Fetched'
  BY <1>1, <1>2, <1>6 DEF Fetched
<1>7. CASE OpenWindow
  BY <1>6, <1>7 DEF OpenWindow
<1>8. CASE Ask
  <2>1. query \in Calls
    BY <1>1, <1>8, MarketAssumption DEF IInv, Plain, Trades, Ask, Calls
  <2> QED
    BY <1>1, <1>5, <1>8, <2>1 DEF Ask, Fetched
<1>9. ASSUME NEW q \in Calls, Answer(q) \/ HandleTick(q) \/ TickFails(q) PROVE Fetched'
  <2>1. CASE Answer(q)
    BY <1>1, <1>3, <1>5, <2>1 DEF Answer, Fetched
  <2>2. CASE HandleTick(q)
    <3>1. tick[q] \in ToBuyer
      BY <1>1, <2>2 DEF HandleTick, Fetched
    <3>2. buffer' \subseteq buffer \cup {tick[q]} /\ tick' = [tick EXCEPT ![q] = Off]
      BY <2>2 DEF HandleTick
    <3> QED
      BY <1>1, <1>5, <3>1, <3>2 DEF Fetched
  <2>3. CASE TickFails(q)
    BY <1>1, <1>5, <2>3 DEF TickFails, Fetched
  <2> QED
    BY <1>9, <2>1, <2>2, <2>3
<1>10. CASE ScanBuffer
  BY <1>1, <1>6, <1>10 DEF ScanBuffer, Fetched
<1>11. CASE Poll
  BY <1>1, <1>3, <1>6, <1>11 DEF Poll, Fetched
<1>12. CASE \/ \E w \in Wants : StartQuery(w[1], w[2])
            \/ \E p \in Listed, o \in Outcomes : SendQuery(p, o)
            \/ CloseWindow \/ Timeout \/ PollFails
            \/ \E o \in Outcomes : SendAccept(o) \/ OpenTrade(o) \/ WriteReceipt(o)
            \/ \E k \in {1, 2}, o \in Outcomes : SettleTier(k, o)
  BY <1>4, <1>12 DEF StartQuery, SendQuery, CloseWindow, Timeout, PollFails, SendAccept,
                     OpenTrade, WriteReceipt, SettleTier
<1>13. ASSUME NEW a \in Agents, Supplier(a) \/ AgentRecvFails(a) \/ AgentRestarts(a)
       PROVE  Fetched'
  BY <1>4, <1>13 DEF Supplier, SkipQuery, HandleQuery, Remember, AcceptUnknown, AcceptLost,
       HandleAccept, Attest, Deliver, AgentRecvFails, AgentRestarts, buyerVars
<1>14. CASE UNCHANGED vars
  BY <1>4, <1>14 DEF vars, buyerVars
<1> QED
  BY <1>7, <1>8, <1>9, <1>10, <1>11, <1>12, <1>13, <1>14 DEF Next, Buyer, Ticks

LEMMA WindowNext ==
    ASSUME IInv, [Next]_vars
    PROVE  Window'
<1> DEFINE S == {m \in Bids : m.query = query}
<1>1. Grown /\ Plain /\ Fetched /\ Window
  BY MessagesKeep DEF IInv
<1>2. query' = query => Bids' = Bids
  BY DEF Bids, Message
<1>3. ASSUME UNCHANGED <<query, bids, peers, winner>>,
             pc' = pc \/ pc \in {"accepting", "accepted", "waiting"} \cup Paying
                      \/ pc' \notin {"accepting", "accepted", "waiting"} \cup Paying
      PROVE  Window'
  BY <1>1, <1>2, <1>3 DEF Window
<1>4. ASSUME NEW w \in Wants, StartQuery(w[1], w[2]) PROVE Window'
  BY <1>1, <1>4 DEF StartQuery, Window, Paying
<1>5. CASE CloseWindow
  <2>1. CASE pc' = "failed" /\ UNCHANGED winner
    BY <1>3, <1>5, <2>1 DEF CloseWindow, Paying
  <2>2. CASE Eligible(bids) # {} /\ winner' = Cheapest(bids).agent
    <3>1. UNCHANGED <<query, bids, peers>>
      BY <1>5 DEF CloseWindow
    <3> QED
      BY <1>1, <1>2, <2>2, <3>1 DEF Window
  <2> QED
    BY <1>5, <2>1, <2>2 DEF CloseWindow
<1>6. ASSUME NEW q \in Calls, HandleTick(q) PROVE Window'
  <2> DEFINE m == tick[q]
  <2>1. m \in ToBuyer
    BY <1>1, <1>6 DEF HandleTick, Fetched
  <2>2. UNCHANGED <<pc, query, winner>>
    BY <1>6 DEF HandleTick
  <2>3. CASE m.type = "bid" /\ m.query = q
    <3>1. m \in Bids /\ m.agent \in Agents
      BY <2>1, <2>3, MessageKinds DEF ToBuyer, Bids, Deliveries
    <3>2. peers' = [peers EXCEPT ![m.agent] = NodeOf[m.agent]]
      BY <1>6, <2>3, <3>1 DEF HandleTick, Address, Bids
    <3>3. /\ peers' \in [Agents -> Nodes \cup {None}]
          /\ \A a \in Agents : peers'[a] \in {peers[a], NodeOf[a]}
          /\ peers'[m.agent] = NodeOf[m.agent]
      BY <1>1, <3>1, <3>2, MarketAssumption DEF Window
    <3>4. \A i \in DOMAIN bids : bids[i].agent \in Agents
      BY <1>1, BidAgents
    <3>5. CASE bids' = bids
      BY <1>1, <1>2, <2>2, <3>3, <3>4, <3>5 DEF Window
    <3>6. CASE q = query /\ pc = "collecting" /\ bids' = Append(bids, m)
      <4>1. m \in S
        BY <2>3, <3>1, <3>6
      <4> HIDE DEF S
      <4>2. bids \in Seq(S)
        BY <1>1 DEF Window, S
      <4>3. /\ bids' \in Seq(S)
            /\ \A i \in DOMAIN bids' : bids'[i] = m \/ (i \in DOMAIN bids /\ bids'[i] = bids[i])
        BY <3>6, <4>1, <4>2
      <4>4. bids' \in Seq({b \in Bids' : b.query = query'})
        BY <1>2, <2>2, <4>3 DEF S
      <4>5. \A i \in DOMAIN bids' : peers'[bids'[i].agent] = NodeOf[bids'[i].agent]
        BY <1>1, <3>3, <3>4, <4>3 DEF Window
      <4>6. \A a \in Agents : peers'[a] \in {None, NodeOf[a]}
        BY <1>1, <3>3 DEF Window
      <4> QED
        BY <2>2, <3>3, <3>6, <4>4, <4>5, <4>6 DEF Window, Paying
    <3> QED
      BY <1>6, <3>5, <3>6 DEF HandleTick
  <2>4. CASE ~(m.type = "bid" /\ m.query = q)
    BY <1>3, <1>6, <2>2, <2>4 DEF HandleTick
  <2> QED
    BY <2>3, <2>4
<1>7. CASE Buyer
  <2>1. CASE OpenWindow \/ Ask \/ Timeout \/ ScanBuffer \/ Poll
    BY <1>3, <2>1 DEF OpenWindow, Ask, Timeout, ScanBuffer, Poll, Receive, Paying
  <2>2. CASE \/ \E p \in Listed, o \in Outcomes : SendQuery(p, o)
             \/ \E o \in Outcomes : SendAccept(o)
    BY <1>3, <2>2 DEF SendQuery, SendAccept, Paying
  <2>3. CASE \/ \E o \in Outcomes : OpenTrade(o) \/ WriteReceipt(o)
             \/ \E k \in {1, 2}, o \in Outcomes : SettleTier(k, o)
    BY <1>3, <2>3 DEF OpenTrade, WriteReceipt, SettleTier, Paying
  <2> QED
    BY <1>5, <1>7, <2>1, <2>2, <2>3 DEF Buyer
<1>8. CASE (\E q \in Calls : Answer(q) \/ TickFails(q)) \/ PollFails
  BY <1>3, <1>8 DEF Answer, TickFails, PollFails, Paying
<1>9. ASSUME NEW a \in Agents, Supplier(a) \/ AgentRecvFails(a) \/ AgentRestarts(a)
      PROVE  Window'
  BY <1>3, <1>9 DEF Supplier, SkipQuery, HandleQuery, Remember, AcceptUnknown, AcceptLost,
       HandleAccept, Attest, Deliver, AgentRecvFails, AgentRestarts, buyerVars
<1>10. CASE UNCHANGED vars
  BY <1>3, <1>10 DEF vars, buyerVars
<1> QED
  BY <1>4, <1>6, <1>7, <1>8, <1>9, <1>10 DEF Next, Ticks

\* What an agent keeps of the query it takes.
LEMMA NoteTypes ==
    ASSUME IInv, NEW a \in Agents, NEW h \in HashSet, NEW o \in Outcomes, HandleQuery(a, h, o)
    PROVE  /\ Note(a, Next1(a), h) \in Entry
           /\ Note(a, Next1(a), h).query <= query
           /\ a \notin Caches => Note(a, Next1(a), h).hash \in HashSet
<1>1. PICK m : m = Next1(a)
  OBVIOUS
<1>2. m \in Message /\ m \in ToNode(NodeOf[a]) /\ m.type = "query"
  BY <1>1, Taken DEF IInv, HandleQuery, Gets
<1>3. m.query \in Calls /\ m.query <= query /\ m.prompt \in Prompts
  BY <1>2, MessageKinds DEF ToNode, Queries, Accepts
<1> QED
  BY <1>1, <1>3 DEF Note, Entry

\* The receipt an agent keeps or looks up again.
LEMMA ReceiptTypes ==
    ASSUME Suppliers, NEW a \in Agents, NEW e \in inflight[a] \cup bidding[a]
    PROVE  e \in Entry /\ ReceiptOf(a, e) \subseteq HashSet
<1>1. e \in Entry /\ (a \notin Caches => e.hash \in HashSet)
  BY DEF Suppliers
<1>2. e.prompt \in Prompts
  BY <1>1 DEF Entry
<1>3. Offers[a][e.prompt] \subseteq HashSet
  BY <1>2, MarketAssumption
<1> QED
  BY <1>1, <1>3 DEF ReceiptOf

LEMMA SuppliersNext ==
    ASSUME IInv, [Next]_vars
    PROVE  Suppliers'
<1>1. Plain /\ Queues /\ Suppliers /\ Grown /\ query \in Nat
  BY MessagesKeep, MarketAssumption DEF IInv, Plain
<1>2. query' \in {query, query + 1}
  <2>1. CASE Buyer
    BY <2>1 DEF Buyer, SendQuery, OpenWindow, Ask, CloseWindow, SendAccept, ScanBuffer,
         Poll, Timeout, OpenTrade, SettleTier, WriteReceipt
  <2>2. CASE Ticks \/ PollFails \/ (\E q \in Calls : TickFails(q)) \/ \E w \in Wants : StartQuery(w[1], w[2])
    BY <2>2 DEF Ticks, Answer, HandleTick, TickFails, PollFails, StartQuery
  <2>3. ASSUME NEW a \in Agents, Supplier(a) \/ AgentRecvFails(a) \/ AgentRestarts(a)
        PROVE  query' = query
    BY <2>3 DEF Supplier, SkipQuery, HandleQuery, Remember, AcceptUnknown, AcceptLost,
         HandleAccept, Attest, Deliver, AgentRecvFails, AgentRestarts, buyerVars
  <2>4. CASE UNCHANGED vars
    BY <2>4 DEF vars, buyerVars
  <2> QED
    BY <2>1, <2>2, <2>3, <2>4 DEF Next
<1>3. \A a \in Agents : /\ inflight[a] \subseteq Entry /\ bidding[a] \subseteq Entry
                        /\ \A e \in inflight[a] \cup bidding[a] :
                              /\ e.query \in Nat /\ e.query <= query
                              /\ a \notin Caches => e.hash \in HashSet
                        /\ serving[a] = None \/ serving[a] \in Services(a)'
  BY <1>1 DEF Suppliers, Grown, Entry, Calls
\* What an agent has was there before, or may be there.
<1>4. ASSUME inflight' \in [Agents -> SUBSET Entry], bidding' \in [Agents -> SUBSET Entry],
             serving' \in [Agents -> Service \cup {None}],
             \A b \in Agents : \A e \in inflight'[b] \cup bidding'[b] :
                 \/ e \in inflight[b] \cup bidding[b]
                 \/ e.query \in Nat /\ e.query <= query /\ (b \notin Caches => e.hash \in HashSet),
             \A b \in Agents : serving'[b] \in {None, serving[b]} \cup Services(b)'
      PROVE  Suppliers'
  <2>1. \A b \in Agents : \A e \in inflight'[b] \cup bidding'[b] :
            e.query <= query' /\ (b \notin Caches => e.hash \in HashSet)
    BY <1>1, <1>2, <1>3, <1>4
  <2>2. \A b \in Agents : serving'[b] = None \/ serving'[b] \in Services(b)'
    BY <1>3, <1>4
  <2> QED
    BY <1>4, <2>1, <2>2 DEF Suppliers
<1>5. ASSUME UNCHANGED <<inflight, bidding, serving>> PROVE Suppliers'
  BY <1>1, <1>4, <1>5 DEF Suppliers
<1>6. /\ inflight \in [Agents -> SUBSET Entry] /\ bidding \in [Agents -> SUBSET Entry]
      /\ serving \in [Agents -> Service \cup {None}]
      /\ \A b \in Agents : Services(b)' \subseteq Service
  BY <1>1 DEF Suppliers, Services
<1>7. ASSUME NEW a \in Agents, NEW h \in HashSet, NEW o \in Outcomes, HandleQuery(a, h, o)
      PROVE  Suppliers'
  <2> DEFINE n == Note(a, Next1(a), h)
  <2>1. /\ n \in Entry /\ n.query \in Nat /\ n.query <= query
        /\ a \notin Caches => n.hash \in HashSet
    BY <1>7, NoteTypes DEF Entry, Calls
  <2>2. /\ UNCHANGED <<inflight, serving>>
        /\ bidding' = [bidding EXCEPT ![a] = IF o.error THEN {} ELSE {n}]
    BY <1>7 DEF HandleQuery
  <2> HIDE DEF n
  <2>3. bidding' \in [Agents -> SUBSET Entry]
    BY <1>6, <2>1, <2>2
  <2>4. \A b \in Agents : \A e \in bidding'[b] : e \in bidding[b] \/ (b = a /\ e = n)
    BY <1>6, <2>2
  <2> QED
    BY <1>4, <1>6, <2>1, <2>2, <2>3, <2>4
\* Notes are dropped, or entered, and a service may be over.
<1>8. ASSUME NEW a \in Agents, NEW I, NEW B,
             I \subseteq inflight[a] \cup bidding[a], B \subseteq bidding[a],
             inflight' = [inflight EXCEPT ![a] = I], bidding' = [bidding EXCEPT ![a] = B],
             \/ UNCHANGED serving
             \/ serving' = [serving EXCEPT ![a] = None]
             \/ \E s \in Services(a)' : serving' = [serving EXCEPT ![a] = s]
      PROVE  Suppliers'
  <2>1. I \in SUBSET Entry /\ B \in SUBSET Entry
    <3>1. inflight[a] \in SUBSET Entry /\ bidding[a] \in SUBSET Entry
      BY <1>6
    <3> QED
      BY <1>8, <3>1
  <2>2. inflight' \in [Agents -> SUBSET Entry] /\ bidding' \in [Agents -> SUBSET Entry]
    BY <1>6, <1>8, <2>1
  <2>3. serving' \in [Agents -> Service \cup {None}]
    BY <1>6, <1>8
  <2>4. \A b \in Agents : inflight'[b] \cup bidding'[b] \subseteq inflight[b] \cup bidding[b]
    BY <1>6, <1>8
  <2>5. \A b \in Agents : serving'[b] \in {None, serving[b]} \cup Services(b)'
    BY <1>6, <1>8
  <2> QED
    BY <1>4, <2>2, <2>3, <2>4, <2>5
<1>9. ASSUME NEW a \in Agents
      PROVE  /\ inflight = [inflight EXCEPT ![a] = inflight[a]]
             /\ bidding = [bidding EXCEPT ![a] = bidding[a]]
             /\ \A q : \E I \in SUBSET inflight[a] : Without(a, q) = [inflight EXCEPT ![a] = I]
  BY <1>6 DEF Without
<1>10. ASSUME NEW a \in Agents, Remember(a) PROVE Suppliers'
  <2> DEFINE I == {e \in inflight[a] : \A b \in bidding[a] : e.query # b.query} \cup bidding[a]
  <2>0. PICK B : B = {}
    OBVIOUS
  <2>1. /\ inflight' = [inflight EXCEPT ![a] = I] /\ bidding' = [bidding EXCEPT ![a] = B]
        /\ UNCHANGED serving
    BY <1>10, <2>0 DEF Remember
  <2>2. I \subseteq inflight[a] \cup bidding[a]
    OBVIOUS
  <2> HIDE DEF I
  <2>3. B \subseteq bidding[a]
    BY <2>0
  <2> QED
    BY <1>8, <2>1, <2>2, <2>3
<1>11. ASSUME NEW a \in Agents, UNCHANGED bidding,
              inflight' = inflight \/ \E q : inflight' = Without(a, q),
              \/ UNCHANGED serving
              \/ serving' = [serving EXCEPT ![a] = None]
              \/ \E s \in Services(a)' : serving' = [serving EXCEPT ![a] = s]
       PROVE  Suppliers'
  <2>1. PICK I \in SUBSET inflight[a] : inflight' = [inflight EXCEPT ![a] = I]
    BY <1>9, <1>11
  <2>2. bidding' = [bidding EXCEPT ![a] = bidding[a]] /\ bidding[a] \subseteq bidding[a]
    BY <1>9, <1>11
  <2>3. I \subseteq inflight[a] \cup bidding[a]
    OBVIOUS
  <2> QED
    BY <1>8, <1>11, <2>1, <2>2, <2>3
<1>12. ASSUME NEW a \in Agents,
              \/ AcceptLost(a) \/ \E o \in Outcomes : Deliver(a, o)
              \/ HandleAccept(a) \/ \E k \in {1, 2}, o \in Outcomes : Attest(a, k, o)
       PROVE  Suppliers'
  <2>1. CASE AcceptLost(a)
    BY <1>11, <2>1 DEF AcceptLost
  <2>2. CASE \E o \in Outcomes : Deliver(a, o)
    BY <1>11, <2>2 DEF Deliver
  <2>3. CASE HandleAccept(a)
    <3>1. PICK e \in Entries(a, Next1(a).query) : \E h \in ReceiptOf(a, e) :
            serving' = [serving EXCEPT ![a] =
               [query |-> Next1(a).query, hash |-> h, tier2 |-> Next1(a).tier2, signed |-> {}]]
      BY <2>3 DEF HandleAccept
    <3>2. PICK h \in ReceiptOf(a, e) :
            serving' = [serving EXCEPT ![a] =
               [query |-> Next1(a).query, hash |-> h, tier2 |-> Next1(a).tier2, signed |-> {}]]
      BY <3>1
    <3> DEFINE s == [query |-> Next1(a).query, hash |-> h, tier2 |-> Next1(a).tier2, signed |-> {}]
    <3>3. h \in HashSet
      BY <1>1, ReceiptTypes DEF Entries
    <3>4. /\ Gets(a, "accept") /\ Next1(a).agent = a
          /\ UNCHANGED <<inflight, bidding>>
      BY <2>3 DEF HandleAccept
    <3>5. Next1(a) \in Accepts /\ Next1(a).query \in Calls /\ Next1(a).tier2 \in BOOLEAN
      BY <1>1, <3>4, Taken, MessageKinds DEF Accepts
    <3>6. s \in Services(a)
      <4>1. s \in Service
        BY <3>3, <3>5 DEF Service
      <4>2. /\ ForTheWinner(a, Next1(a).query)
            /\ Next1(a).query = query => Next1(a).tier2 = tier2
        BY <3>4, <3>5 DEF Accepts
      <4> QED
        BY <4>1, <4>2 DEF Services
    <3> HIDE DEF s
    <3>7. s \in Services(a)'
      BY <1>1, <3>6 DEF Grown
    <3>8. serving' = [serving EXCEPT ![a] = s]
      BY <3>2 DEF s
    <3> QED
      BY <1>11, <3>4, <3>7, <3>8
  <2>4. ASSUME NEW k \in {1, 2}, NEW o \in Outcomes, Attest(a, k, o) PROVE Suppliers'
    <3>1. /\ serving[a] # None /\ (o.done \/ o.error) /\ UNCHANGED bidding
          /\ attested' = IF o.done THEN attested \cup {<<serving[a].hash, k>>} ELSE attested
      BY <2>4 DEF Attest
    <3>2. CASE o.error
      BY <1>11, <2>4, <3>1, <3>2 DEF Attest
    <3>3. CASE ~o.error
      <4> DEFINE t == [serving[a] EXCEPT !.signed = @ \cup {k}]
      <4>1. PICK s : s = serving[a] /\ s \in Services(a)
        BY <1>1, <3>1, ServiceTypes
      <4>2. s \in Service /\ s \in Services(a)'
        BY <1>1, <4>1 DEF Grown, Services
      <4>3. /\ t \in Service /\ t.query = s.query /\ t.tier2 = s.tier2 /\ t.hash = s.hash
            /\ t.signed = s.signed \cup {k}
        BY <4>1, <4>2 DEF Service
      <4>4. <<s.hash, k>> \in attested'
        BY <3>1, <3>3, <4>1
      <4>5. serving' = [serving EXCEPT ![a] = t] /\ UNCHANGED inflight
        BY <2>4, <3>3 DEF Attest
      <4> HIDE DEF t
      <4>6. t \in Services(a)'
        BY <4>2, <4>3, <4>4 DEF Services
      <4> QED
        BY <1>11, <3>1, <4>5, <4>6
    <3> QED
      BY <3>2, <3>3
  <2> QED
    BY <1>12, <2>1, <2>2, <2>3, <2>4
<1>13. ASSUME NEW a \in Agents, AgentRestarts(a) PROVE Suppliers'
  <2>1. PICK E : E = {}
    OBVIOUS
  <2>2. /\ E \subseteq inflight[a] \cup bidding[a] /\ E \subseteq bidding[a]
        /\ inflight' = [inflight EXCEPT ![a] = E] /\ bidding' = [bidding EXCEPT ![a] = E]
        /\ serving' = [serving EXCEPT ![a] = None]
    BY <1>13, <2>1 DEF AgentRestarts
  <2> QED
    BY <1>8, <2>2
<1>14. CASE Next
  <2>1. CASE Buyer
    BY <1>5, <2>1 DEF Buyer, SendQuery, OpenWindow, Ask, CloseWindow, SendAccept, ScanBuffer,
         Poll, Timeout, OpenTrade, SettleTier, WriteReceipt, supplierVars
  <2>2. CASE Ticks \/ PollFails \/ (\E q \in Calls : TickFails(q)) \/ \E w \in Wants : StartQuery(w[1], w[2])
    BY <1>5, <2>2 DEF Ticks, Answer, HandleTick, TickFails, PollFails, StartQuery, supplierVars
  <2>3. ASSUME NEW a \in Agents, SkipQuery(a) \/ AcceptUnknown(a) \/ AgentRecvFails(a)
        PROVE  Suppliers'
    BY <1>5, <2>3 DEF SkipQuery, AcceptUnknown, AgentRecvFails, supplierVars
  <2> QED
    BY <1>7, <1>10, <1>12, <1>13, <1>14, <2>1, <2>2, <2>3 DEF Next, Supplier
<1> QED
  BY <1>5, <1>14 DEF vars, supplierVars

LEMMA RecordOpened ==
    ASSUME NEW before, NEW s, NEW r, r = [open |-> before, settled |-> s],
           NEW t, t = [r EXCEPT !.open = TRUE]
    PROVE  t = [open |-> TRUE, settled |-> s]
<1>1. t \in [open : {TRUE}, settled : {s}]
  OBVIOUS
<1> QED
  BY <1>1

LEMMA Opened ==
    ASSUME NEW f, NEW q \in DOMAIN f, f[q] = NoTrade
    PROVE  [f EXCEPT ![q].open = TRUE] = [f EXCEPT ![q] = [open |-> TRUE, settled |-> {}]]
<1> DEFINE t == [f[q] EXCEPT !.open = TRUE]
<1>1. t = [open |-> TRUE, settled |-> {}]
  <2>1. f[q] = [open |-> FALSE, settled |-> {}]
    BY DEF NoTrade
  <2> QED
    BY <2>1, RecordOpened
<1> QED
  BY <1>1

LEMMA Settled ==
    ASSUME NEW before, NEW k, NEW r, r = [open |-> TRUE, settled |-> before],
           NEW t, t = [r EXCEPT !.settled = @ \cup {k}]
    PROVE  t = [open |-> TRUE, settled |-> before \cup {k}]
<1>1. t \in [open : {TRUE}, settled : {before \cup {k}}]
  OBVIOUS
<1> QED
  BY <1>1

LEMMA TradesNext ==
    ASSUME IInv, [Next]_vars
    PROVE  Trades'
<1>1. Plain /\ Trades
  BY DEF IInv
<1>2. pc # "idle" => query \in Calls
  BY <1>1, MarketAssumption DEF Plain, Trades, Calls
<1>3. ASSUME UNCHANGED <<query, tier2, chain>>, pc # "idle", pc' # "idle",
             \/ pc' = "failed"
             \/ /\ pc \in {"sending", "collecting", "accepting", "accepted", "waiting"}
                /\ pc' \in {"sending", "collecting", "accepting", "accepted", "waiting", "opening"}
             \/ pc = "writing" /\ pc' = "done"
      PROVE  Trades'
  BY <1>1, <1>3 DEF Trades
<1>4. ASSUME UNCHANGED <<pc, query, tier2, chain>> PROVE Trades'
  BY <1>1, <1>4 DEF Trades
<1>5. ASSUME NEW w \in Wants, StartQuery(w[1], w[2]) PROVE Trades'
  BY <1>1, <1>5, MarketAssumption DEF StartQuery, Trades, Plain, Calls
<1>6. CASE Buyer
  <2>1. CASE OpenWindow \/ Ask \/ CloseWindow \/ Timeout \/ ScanBuffer \/ Poll
    BY <1>3, <1>4, <2>1 DEF OpenWindow, Ask, CloseWindow, Timeout, ScanBuffer, Poll, Receive
  <2>2. CASE \/ \E p \in Listed, o \in Outcomes : SendQuery(p, o)
             \/ \E o \in Outcomes : SendAccept(o) \/ WriteReceipt(o)
    BY <1>3, <2>2 DEF SendQuery, SendAccept, WriteReceipt
  <2>3. ASSUME NEW o \in Outcomes, OpenTrade(o) PROVE Trades'
    <3>1. chain[query] = NoTrade /\ query \in Calls
      BY <1>1, <1>2, <2>3 DEF Trades, OpenTrade
    <3>2. \/ chain' = chain /\ pc' = "failed"
          \/ /\ chain' = [chain EXCEPT ![query] = [open |-> TRUE, settled |-> {}]]
             /\ pc' \in {"settling1", "failed"}
      <4>1. CASE o.done
        <5>1. chain' = [chain EXCEPT ![query].open = TRUE]
          BY <2>3, <4>1 DEF OpenTrade
        <5>2. chain' = [chain EXCEPT ![query] = [open |-> TRUE, settled |-> {}]]
          BY <1>1, <3>1, <5>1, Opened DEF Trades
        <5> QED
          BY <2>3, <5>1, <5>2 DEF OpenTrade
      <4>2. CASE ~o.done
        BY <2>3, <4>2 DEF OpenTrade, Confirmed
      <4> QED
        BY <4>1, <4>2
    <3>3. UNCHANGED <<query, tier2>> /\ pc = "opening" /\ query \in Nat /\ query # 0
      BY <2>3, <3>1, MarketAssumption DEF OpenTrade, Calls
    <3>4. CASE chain' = chain /\ pc' = "failed"
      BY <1>3, <3>3, <3>4
    <3>5. CASE /\ chain' = [chain EXCEPT ![query] = [open |-> TRUE, settled |-> {}]]
               /\ pc' \in {"settling1", "failed"}
      <4>1. /\ chain' \in [Calls -> [open : BOOLEAN, settled : SUBSET {1, 2}]]
            /\ chain'[query] = [open |-> TRUE, settled |-> {}]
            /\ \A q \in Calls : q # query => chain'[q] = chain[q]
        BY <1>1, <3>1, <3>5 DEF Trades
      <4> QED
        BY <1>1, <3>1, <3>3, <3>5, <4>1 DEF Trades, Calls
    <3> QED
      BY <3>2, <3>4, <3>5
  <2>4. ASSUME NEW k \in {1, 2}, NEW o \in Outcomes, SettleTier(k, o) PROVE Trades'
    <3> DEFINE before == IF k = 1 THEN {} ELSE {1}
    <3>1. /\ chain[query] = [open |-> TRUE, settled |-> before]
          /\ k = 2 => tier2
          /\ query \in Calls
      BY <1>1, <1>2, <2>4 DEF Trades, SettleTier
    <3>2. UNCHANGED <<query, tier2>>
      BY <2>4 DEF SettleTier
    <3>3. \/ chain' = chain /\ pc' = "failed"
          \/ /\ chain' = [chain EXCEPT ![query] = [open |-> TRUE, settled |-> before \cup {k}]]
             /\ pc' \in {"failed", IF ~tier2 THEN "done" ELSE IF k = 1 THEN "settling2" ELSE "writing"}
      <4> DEFINE mined == o.done /\ <<got.hash, k>> \in attested
      <4>1. CASE mined
        <5>1. chain' = [chain EXCEPT ![query].settled = @ \cup {k}]
          BY <2>4, <4>1 DEF SettleTier
        <5>2. [chain[query] EXCEPT !.settled = @ \cup {k}] = [open |-> TRUE, settled |-> before \cup {k}]
          BY <3>1, Settled
        <5> QED
          BY <2>4, <5>1, <5>2 DEF SettleTier
      <4>2. CASE ~mined
        BY <2>4, <4>2 DEF SettleTier, Confirmed
      <4> QED
        BY <4>1, <4>2
    <3>4. CASE chain' = chain /\ pc' = "failed"
      BY <1>3, <2>4, <3>2, <3>4 DEF SettleTier
    <3>5. CASE /\ chain' = [chain EXCEPT ![query] = [open |-> TRUE, settled |-> before \cup {k}]]
               /\ pc' \in {"failed", IF ~tier2 THEN "done" ELSE IF k = 1 THEN "settling2" ELSE "writing"}
      <4>1. /\ chain' \in [Calls -> [open : BOOLEAN, settled : SUBSET {1, 2}]]
            /\ chain'[query] = [open |-> TRUE, settled |-> before \cup {k}]
            /\ \A q \in Calls : q # query => chain'[q] = chain[q]
        BY <1>1, <3>1, <3>5 DEF Trades
      <4>2. query \in Nat /\ query # 0
        BY <3>1, MarketAssumption DEF Calls
      <4>3. CASE k = 1
        <5>1. chain'[query] = [open |-> TRUE, settled |-> {1}]
          BY <4>1, <4>3
        <5>2. \A q \in Calls : q > query' => chain'[q] = NoTrade
          BY <1>1, <3>2, <4>1, <4>2 DEF Trades, Calls
        <5>3. \A q \in Calls :
                /\ chain'[q].settled # {} => chain'[q].open
                /\ 2 \in chain'[q].settled => 1 \in chain'[q].settled
          BY <1>1, <4>1, <5>1 DEF Trades
        <5>4. /\ chain' \in [Calls -> [open : BOOLEAN, settled : SUBSET {1, 2}]]
              /\ query' = query /\ tier2' = tier2 /\ query # 0
          BY <3>2, <4>1, <4>2
        <5>5. CASE tier2
          <6>1. pc' \in {"failed", "settling2"}
            BY <3>5, <4>3, <5>5
          <6>2. pc' = "idle" <=> query' = 0
            BY <5>4, <6>1
          <6>3. tier2' /\ chain'[query'] = [open |-> TRUE, settled |-> {1}]
            BY <5>1, <5>5, <5>4
          <6> QED
            BY <5>2, <5>3, <5>4, <6>1, <6>2, <6>3 DEF Trades
        <5>6. CASE ~tier2
          <6>1. pc' \in {"failed", "done"}
            BY <3>5, <5>6
          <6>2. pc' = "idle" <=> query' = 0
            BY <5>4, <6>1
          <6>3. ~tier2' /\ chain'[query'] = [open |-> TRUE, settled |-> {1}]
            BY <5>1, <5>6, <5>4
          <6> QED
            BY <5>2, <5>3, <5>4, <6>1, <6>2, <6>3 DEF Trades
        <5> QED
          BY <5>5, <5>6
      <4>4. CASE k = 2
        BY <1>1, <3>1, <3>2, <3>5, <4>1, <4>2, <4>4 DEF Trades, Calls
      <4> QED
        BY <4>3, <4>4
    <3> QED
      BY <3>3, <3>4, <3>5
  <2> QED
    BY <1>6, <2>1, <2>2, <2>3, <2>4 DEF Buyer
<1>7. CASE Ticks \/ PollFails \/ \E q \in Calls : TickFails(q)
  BY <1>3, <1>4, <1>7 DEF Ticks, Answer, HandleTick, TickFails, PollFails
<1>8. ASSUME NEW a \in Agents, Supplier(a) \/ AgentRecvFails(a) \/ AgentRestarts(a)
      PROVE  Trades'
  BY <1>4, <1>8 DEF Supplier, SkipQuery, HandleQuery, Remember, AcceptUnknown, AcceptLost,
       HandleAccept, Attest, Deliver, AgentRecvFails, AgentRestarts, buyerVars
<1>9. CASE UNCHANGED vars
  BY <1>4, <1>9 DEF vars, buyerVars
<1> QED
  BY <1>5, <1>6, <1>7, <1>8, <1>9 DEF Next

\* What the buyer goes on with.
LEMMA Received ==
    ASSUME NEW m \in ToBuyer, OurDeliver(m)
    PROVE  m \in Deliveries /\ m.query = query /\ m \in Message
BY DEF ToBuyer, Bids, Deliveries, OurDeliver

LEMMA PlainNext ==
    ASSUME IInv, [Next]_vars
    PROVE  Plain'
<1> USE DEF supplierVars
<1>1. Grown /\ Plain /\ Queues /\ Fetched /\ Window /\ Suppliers /\ Trades
  BY MessagesKeep DEF IInv
<1>2. Deliveries \subseteq Deliveries'
  BY <1>1 DEF Grown
<1>3. ASSUME UNCHANGED <<query, prompt, tier2, winner, got, attested>>, pc' \in Phases,
             pc' # "idle" => pc # "idle",
             pc' \in Paying => pc \in Paying,
             unsent' \subseteq Listed, faults' \in 0 .. MaxFaults
      PROVE  Plain'
  BY <1>1, <1>2, <1>3 DEF Plain
<1>4. \A o : Counted(o) => faults' \in 0 .. MaxFaults
  BY <1>1, MarketAssumption DEF Counted, Plain
<1>5. Fault => faults' \in 0 .. MaxFaults
  BY <1>1, MarketAssumption DEF Fault, Plain
<1>6. ASSUME NEW w \in Wants, StartQuery(w[1], w[2]) PROVE Plain'
  BY <1>1, <1>6, MarketAssumption DEF StartQuery, Plain, Paying, Phases
<1>7. CASE Buyer
  <2>1. CASE OpenWindow \/ Ask \/ Timeout
    BY <1>1, <1>3, <2>1 DEF OpenWindow, Ask, Timeout, Plain, Phases, Paying
  <2>2. ASSUME NEW p \in Listed, NEW o \in Outcomes, SendQuery(p, o) PROVE Plain'
    BY <1>1, <1>3, <1>4, <2>2 DEF SendQuery, Plain, Phases, Paying
  <2>3. ASSUME NEW o \in Outcomes, SendAccept(o) PROVE Plain'
    BY <1>1, <1>3, <1>4, <2>3 DEF SendAccept, Plain, Phases, Paying
  <2>4. ASSUME NEW o \in Outcomes, OpenTrade(o) \/ WriteReceipt(o) PROVE Plain'
    BY <1>1, <1>3, <1>4, <2>4 DEF OpenTrade, WriteReceipt, Plain, Phases, Paying
  <2>5. ASSUME NEW k \in {1, 2}, NEW o \in Outcomes, SettleTier(k, o) PROVE Plain'
    BY <1>1, <1>3, <1>4, <2>5 DEF SettleTier, Plain, Phases, Paying
  <2>6. CASE CloseWindow
    <3>1. winner' \in Agents \cup {None}
      <4>1. CASE UNCHANGED winner
        BY <1>1, <4>1 DEF Plain
      <4>2. CASE Eligible(bids) # {} /\ winner' = Cheapest(bids).agent
        BY <1>1, <4>2, WinnerBid, BidAgents
      <4> QED
        BY <2>6, <4>1, <4>2 DEF CloseWindow
    <3> QED
      BY <1>1, <2>6, <3>1 DEF CloseWindow, Plain, Phases, Paying
  <2>7. ASSUME NEW m \in ToBuyer, OurDeliver(m), Receive(m), pc \notin Paying,
               UNCHANGED <<query, prompt, tier2, unsent, winner, attested, faults>>, pc # "idle"
        PROVE  Plain'
    <3>1. got' \in Deliveries' /\ got'.query = query' /\ got' \in Message
      BY <1>2, <2>7, Received DEF Receive
    <3>2. pc' \in Phases
      BY <2>7 DEF Receive, Phases
    <3> QED
      BY <1>1, <2>7, <3>1, <3>2 DEF Plain
  <2>8. CASE ScanBuffer
    <3>1. CASE \E m \in buffer : OurDeliver(m) /\ Receive(m)
      BY <1>1, <2>7, <2>8, <3>1 DEF ScanBuffer, Fetched, Paying, supplierVars
    <3>2. CASE pc' = "waiting" /\ UNCHANGED got
      BY <1>1, <1>3, <2>8, <3>2 DEF ScanBuffer, Plain, Phases, Paying, supplierVars
    <3> QED
      BY <2>8, <3>1, <3>2 DEF ScanBuffer
  <2>9. CASE Poll
    <3> DEFINE m == Head(queue[BuyerNode])
    <3>1. m \in ToBuyer
      <4> DEFINE S == ToBuyer
      <4> HIDE DEF S
      <4>1. queue[BuyerNode] \in Seq(S) /\ queue[BuyerNode] # <<>>
        BY <1>1, <2>9 DEF Queues, Poll, S
      <4>2. m \in S
        BY <4>1, HeadTailProperties
      <4> QED
        BY <4>2 DEF S
    <3>2. CASE OurDeliver(m)
      BY <2>7, <2>9, <3>1, <3>2 DEF Poll, Paying, supplierVars
    <3>3. CASE ~OurDeliver(m)
      BY <1>1, <1>3, <2>9, <3>3 DEF Poll, Plain, Phases, Paying, supplierVars
    <3> QED
      BY <3>2, <3>3
  <2> QED
    BY <1>7, <2>1, <2>2, <2>3, <2>4, <2>5, <2>6, <2>8, <2>9 DEF Buyer
<1>8. CASE Ticks
  BY <1>1, <1>3, <1>8 DEF Ticks, Answer, HandleTick, Plain, supplierVars
<1>9. CASE PollFails \/ \E q \in Calls : TickFails(q)
  BY <1>1, <1>3, <1>5, <1>9 DEF PollFails, TickFails, Plain, Phases, Paying, supplierVars
<1>10. ASSUME NEW a \in Agents, Supplier(a) \/ AgentRecvFails(a) \/ AgentRestarts(a)
       PROVE  Plain'
  <2>1. UNCHANGED buyerVars
    BY <1>10 DEF Supplier, SkipQuery, HandleQuery, Remember, AcceptUnknown, AcceptLost,
       HandleAccept, Attest, Deliver, AgentRecvFails, AgentRestarts
  <2>2. faults' \in 0 .. MaxFaults
    BY <1>1, <1>4, <1>5, <1>10 DEF Supplier, SkipQuery, HandleQuery, Remember, AcceptUnknown,
       AcceptLost, HandleAccept, Attest, Deliver, AgentRecvFails, AgentRestarts, Plain
  <2>3. attested' \subseteq HashSet \X {1, 2}
    <3>1. CASE attested' = attested
      BY <1>1, <3>1 DEF Plain
    <3>2. CASE \E k \in {1, 2}, o \in Outcomes : Attest(a, k, o)
      <4>1. PICK k \in {1, 2} : attested' \subseteq attested \cup {<<serving[a].hash, k>>} /\ serving[a] # None
        BY <3>2 DEF Attest
      <4>2. serving[a].hash \in HashSet
        BY <1>1, <4>1, ServiceTypes
      <4> QED
        BY <1>1, <4>1, <4>2 DEF Plain
    <3> QED
      BY <1>10, <3>1, <3>2 DEF Supplier, SkipQuery, HandleQuery, Remember, AcceptUnknown,
         AcceptLost, HandleAccept, Deliver, AgentRecvFails, AgentRestarts, supplierVars
  <2> QED
    BY <1>1, <1>2, <2>1, <2>2, <2>3 DEF Plain, buyerVars
<1>11. CASE UNCHANGED vars
  BY <1>1, <1>3, <1>11 DEF vars, buyerVars, supplierVars, Plain
<1> QED
  BY <1>6, <1>7, <1>8, <1>9, <1>10, <1>11 DEF Next

-----------------------------------------------------------------------------
LEMMA IInvInit == Init => IInv
<1> SUFFICES ASSUME Init PROVE IInv
  OBVIOUS
<1>1. Plain
  <2>1. 0 \in 0 .. MaxQueries /\ 0 \in 0 .. MaxFaults
    BY MarketAssumption
  <2> QED
    BY <2>1 DEF Init, Plain, Phases, Paying
<1>2. Queues /\ Fetched
  BY MarketAssumption DEF Init, Queues, Fetched
<1>3. Window
  BY DEF Init, Window, Paying
<1>4. Suppliers
  BY DEF Init, Suppliers
<1>5. Trades
  BY MarketAssumption DEF Init, Trades, NoTrade, Calls
<1> QED
  BY <1>1, <1>2, <1>3, <1>4, <1>5 DEF IInv

LEMMA Invariance == Spec => []IInv
<1>1. IInv /\ [Next]_vars => IInv'
  <2> SUFFICES ASSUME IInv, [Next]_vars PROVE IInv'
    OBVIOUS
  <2> QED
    BY PlainNext, QueuesNext, FetchedNext, WindowNext, SuppliersNext, TradesNext DEF IInv
<1> QED
  BY <1>1, IInvInit, PTL DEF Spec

-----------------------------------------------------------------------------
(* Known is invariant.                                                     *)

\* The queue of node k, if k is a supplier's node, loses its head.
TookFrom(k) ==
    \A n \in Nodes : /\ n = k => queue[n] # <<>>
                     /\ queue'[n] = IF n = k THEN Tail(queue[n]) ELSE queue[n]

\* Where a message in the queue of n was before.
PlaceBefore(k, n, i) == IF n = k THEN i + 1 ELSE i

LEMMA TailPlaces ==
    ASSUME NEW S, NEW s \in Seq(S), s # <<>>, NEW i \in DOMAIN Tail(s)
    PROVE  i \in Nat \ {0} /\ i + 1 \in DOMAIN s /\ Tail(s)[i] = s[i + 1]
<1>1. /\ Len(s) \in Nat \ {0} /\ DOMAIN s = 1 .. Len(s)
      /\ Tail(s) \in Seq(S) /\ Len(Tail(s)) = Len(s) - 1
  BY HeadTailProperties, EmptySeq, LenProperties
<1>2. DOMAIN Tail(s) = 1 .. Len(s) - 1
  BY <1>1, LenProperties
<1>3. Tail(s)[i] = s[i + 1]
  BY <1>1, <1>2, HeadTailProperties
<1> QED
  BY <1>1, <1>2, <1>3

LEMMA AppendPlaces ==
    ASSUME NEW S, NEW s \in Seq(S), NEW m \in S, NEW i \in DOMAIN Append(s, m)
    PROVE  \/ i \in DOMAIN s /\ Append(s, m)[i] = s[i]
           \/ i = Len(s) + 1 /\ i \notin DOMAIN s /\ Append(s, m)[i] = m
<1>1. /\ Len(s) \in Nat /\ DOMAIN s = 1 .. Len(s)
      /\ Append(s, m) \in Seq(S) /\ Len(Append(s, m)) = Len(s) + 1
  BY AppendProperties, LenProperties
<1>2. DOMAIN Append(s, m) = 1 .. Len(s) + 1
  BY <1>1, LenProperties
<1>3. i = Len(s) + 1 => Append(s, m)[i] = m
  BY AppendProperties
<1>4. i # Len(s) + 1 => Append(s, m)[i] = s[i]
  BY <1>1, <1>2, AppendProperties
<1> QED
  BY <1>1, <1>2, <1>3, <1>4

LEMMA PlacesBefore ==
    ASSUME Queues, NEW k, TookFrom(k), NEW n \in Nodes, NEW i \in DOMAIN queue'[n]
    PROVE  /\ i \in Nat \ {0}
           /\ PlaceBefore(k, n, i) \in DOMAIN queue[n]
           /\ queue'[n][i] = queue[n][PlaceBefore(k, n, i)]
<1> DEFINE S == ToNode(n)
<1> HIDE DEF S
<1>1. queue[n] \in Seq(S)
  BY DEF Queues, S
<1>2. CASE n = k
  BY <1>1, <1>2, TailPlaces DEF TookFrom, PlaceBefore
<1>3. CASE n # k
  BY <1>1, <1>3, LenProperties DEF TookFrom, PlaceBefore
<1> QED
  BY <1>2, <1>3

\* An accept in a queue is of an earlier call, or of this one after it went out.
LEMMA AcceptInQueue ==
    ASSUME Queues, NEW n \in Nodes, NEW i \in DOMAIN queue[n], queue[n][i].type = "accept"
    PROVE  /\ queue[n][i] \in Accepts
           /\ queue[n][i].agent \in Agents
           /\ NodeOf[queue[n][i].agent] = n
           /\ queue[n][i].query = query => pc \in Accepted
<1> DEFINE S == ToNode(n)
<1> HIDE DEF S
<1>1. queue[n] \in Seq(S)
  BY DEF Queues, S
<1>2. queue[n][i] \in S
  BY <1>1, ElementOfSeq, LenProperties
<1>3. queue[n][i] \in Accepts /\ NodeOf[queue[n][i].agent] = n
  BY <1>2 DEF S, ToNode, Queries
<1> QED
  BY <1>3, MessageKinds DEF Accepts, ForTheWinner

LEMMA OneAcceptWhenTaken ==
    ASSUME Queues, OneAcceptPerCall, NEW k, TookFrom(k)
    PROVE  OneAcceptPerCall'
<1> SUFFICES ASSUME NEW m \in Nodes, NEW n \in Nodes,
                    NEW i \in DOMAIN queue'[m], NEW j \in DOMAIN queue'[n],
                    queue'[m][i].type = "accept", queue'[n][j].type = "accept",
                    queue'[m][i].query = queue'[n][j].query
             PROVE  m = n /\ i = j
  BY DEF OneAcceptPerCall, Holds
<1> DEFINE c == PlaceBefore(k, m, i)  d == PlaceBefore(k, n, j)
<1>1. /\ i \in Nat /\ j \in Nat
      /\ c \in DOMAIN queue[m] /\ queue'[m][i] = queue[m][c]
      /\ d \in DOMAIN queue[n] /\ queue'[n][j] = queue[n][d]
  BY PlacesBefore
<1> HIDE DEF c, d
<1>2. m = n /\ c = d
  BY <1>1 DEF OneAcceptPerCall, Holds
<1> QED
  BY <1>1, <1>2 DEF c, d, PlaceBefore

\* The queues of the suppliers change in three ways.
LEMMA NodeQueues ==
    ASSUME IInv, [Next]_vars
    PROVE  \/ \E k \in Nodes \cup {BuyerNode} : TookFrom(k)
           \/ \E p \in Listed, o \in Outcomes : SendQuery(p, o)
           \/ \E o \in Outcomes : SendAccept(o)
<1>1. Queues
  BY DEF IInv
<1>2. ASSUME UNCHANGED queue PROVE TookFrom(BuyerNode)
  BY <1>2, MarketAssumption DEF TookFrom
<1>3. ASSUME NEW k \in Nodes \cup {BuyerNode}, queue[k] # <<>>, queue' = Took(k)
      PROVE  TookFrom(k)
  BY <1>1, <1>3 DEF Queues, Took, TookFrom
<1>4. ASSUME NEW a \in Agents,
             \E h \in HashSet, o \in Outcomes : HandleQuery(a, h, o)
      PROVE  TookFrom(NodeOf[a])
  <2>1. queue[NodeOf[a]] # <<>> /\ NodeOf[a] \in Nodes
    BY <1>4, MarketAssumption DEF HandleQuery, Gets
  <2>2. \E v : queue' = [Took(NodeOf[a]) EXCEPT ![BuyerNode] = v]
    BY <1>4 DEF HandleQuery
  <2> QED
    BY <1>1, <2>1, <2>2, MarketAssumption DEF Queues, Took, TookFrom
<1>5. ASSUME NEW a \in Agents,
             SkipQuery(a) \/ AcceptUnknown(a) \/ AcceptLost(a) \/ HandleAccept(a) \/ AgentRecvFails(a)
      PROVE  TookFrom(NodeOf[a])
  <2>1. queue' = Took(NodeOf[a]) /\ queue[NodeOf[a]] # <<>> /\ NodeOf[a] \in Nodes
    BY <1>5, MarketAssumption DEF SkipQuery, AcceptUnknown, AcceptLost, HandleAccept,
         AgentRecvFails, Gets
  <2> QED
    BY <1>3, <2>1
<1>6. \A a \in Agents : NodeOf[a] \in Nodes
  BY MarketAssumption
<1>7. CASE Buyer
  BY <1>2, <1>3, <1>7 DEF Buyer, OpenWindow, Ask, CloseWindow, ScanBuffer, Poll, Timeout,
       OpenTrade, SettleTier, WriteReceipt
<1>8. CASE (\E q \in Calls : Answer(q) \/ HandleTick(q) \/ TickFails(q)) \/ PollFails
           \/ \E w \in Wants : StartQuery(w[1], w[2])
  BY <1>2, <1>3, <1>8 DEF Answer, HandleTick, TickFails, PollFails, StartQuery
<1>9. ASSUME NEW a \in Agents, Supplier(a) \/ AgentRecvFails(a) \/ AgentRestarts(a)
      PROVE  \E k \in Nodes \cup {BuyerNode} : TookFrom(k)
  <2>1. CASE Remember(a) \/ AgentRestarts(a) \/ \E k \in {1, 2}, o \in Outcomes : Attest(a, k, o)
    BY <1>2, <2>1 DEF Remember, AgentRestarts, Attest
  <2>2. CASE \E o \in Outcomes : Deliver(a, o)
    <3>1. PICK x, o : queue' = Sent(o, BuyerNode, x)
      BY <2>2 DEF Deliver
    <3>2. TookFrom(BuyerNode)
      BY <1>1, <3>1, MarketAssumption DEF Queues, Sent, TookFrom
    <3> QED
      BY <3>2
  <2> QED
    BY <1>4, <1>5, <1>6, <1>9, <2>1, <2>2 DEF Supplier
<1> QED
  BY <1>2, <1>7, <1>8, <1>9 DEF Next, Ticks, vars

\* Without a fault, every request had its effect.
LEMMA NothingFailed ==
    ASSUME Plain, faults' = 0
    PROVE  /\ \A o : Counted(o) => o = Fine /\ faults = 0
           /\ ~Fault
           /\ UNCHANGED faults => faults = 0
BY DEF Plain, Counted, Fault

LEMMA FaultsGrow ==
    ASSUME Plain, [Next]_vars, faults' = 0
    PROVE  faults = 0
<1>1. /\ UNCHANGED faults => faults = 0
      /\ \A o : Counted(o) => faults = 0
      /\ ~Fault
  BY NothingFailed
<1>2. CASE Buyer
  BY <1>1, <1>2 DEF Buyer, SendQuery, OpenWindow, Ask, CloseWindow, SendAccept, ScanBuffer,
     Poll, Timeout, OpenTrade, SettleTier, WriteReceipt
<1>3. CASE Ticks \/ PollFails \/ (\E q \in Calls : TickFails(q)) \/ \E w \in Wants : StartQuery(w[1], w[2])
  BY <1>1, <1>3 DEF Ticks, Answer, HandleTick, TickFails, PollFails, StartQuery
<1>4. ASSUME NEW a \in Agents, Supplier(a) \/ AgentRecvFails(a) \/ AgentRestarts(a)
      PROVE  faults = 0
  BY <1>1, <1>4 DEF Supplier, SkipQuery, HandleQuery, Remember, AcceptUnknown, AcceptLost,
     HandleAccept, Attest, Deliver, AgentRecvFails, AgentRestarts
<1> QED
  BY <1>1, <1>2, <1>3, <1>4 DEF Next, vars

\* Without a fault, an agent forgets a query only when it drops its accept, or
\* has delivered.
LEMMA KnowledgeKept ==
    ASSUME IInv, [Next]_vars, faults' = 0, NEW b \in Agents, NEW q, Knows(b, q)
    PROVE  \/ Knows(b, q)'
           \/ /\ Gets(b, "accept")
              /\ Next1(b).query = q
              /\ TookFrom(NodeOf[b])
           \/ serving[b] # None /\ serving[b].query = q
<1>1. Plain /\ Queues /\ Suppliers
  BY DEF IInv
<1>2. CASE UNCHANGED <<inflight, bidding>>
  BY <1>2 DEF Knows
<1>3. PICK e \in inflight[b] \cup bidding[b] : e.query = q
  BY DEF Knows
<1>4. ASSUME NEW a \in Agents, NEW h \in HashSet, NEW o \in Outcomes, HandleQuery(a, h, o)
      PROVE  Knows(b, q)'
  <2>1. UNCHANGED inflight /\ \A c \in Agents : c # a => bidding'[c] = bidding[c]
    BY <1>1, <1>4 DEF HandleQuery, Suppliers
  <2>2. bidding[a] = {}
    BY <1>4 DEF HandleQuery, Gets, Idle
  <2> QED
    BY <1>3, <2>1, <2>2 DEF Knows
<1>5. ASSUME NEW a \in Agents, Remember(a) PROVE Knows(b, q)'
  <2>1. /\ inflight' = [inflight EXCEPT ![a] =
                {d \in inflight[a] : \A c \in bidding[a] : d.query # c.query} \cup bidding[a]]
        /\ bidding' = [bidding EXCEPT ![a] = {}]
    BY <1>5 DEF Remember
  <2>2. CASE b = a
    <3>1. inflight'[a] = {d \in inflight[a] : \A c \in bidding[a] : d.query # c.query}
                           \cup bidding[a]
      BY <1>1, <2>1 DEF Suppliers
    <3>2. \E d \in inflight'[a] : d.query = q
      BY <1>3, <2>2, <3>1
    <3> QED
      BY <2>2, <3>2 DEF Knows
  <2>3. CASE b # a
    <3>1. inflight'[b] = inflight[b] /\ bidding'[b] = bidding[b]
      BY <2>1, <2>3, <1>1 DEF Suppliers
    <3> QED
      BY <1>3, <3>1 DEF Knows
  <2> QED
    BY <2>2, <2>3
<1>6. ASSUME NEW a \in Agents, NEW r, UNCHANGED bidding, inflight' = Without(a, r)
      PROVE  Knows(b, q)' \/ (a = b /\ r = q)
  <2>1. CASE b = a /\ r # q
    <3>1. inflight'[a] = inflight[a] \ Entries(a, r)
      BY <1>1, <1>6 DEF Without, Suppliers
    <3>2. e \in inflight'[a] \cup bidding'[a]
      BY <1>3, <1>6, <2>1, <3>1 DEF Entries
    <3> QED
      BY <1>3, <2>1, <3>2 DEF Knows
  <2>2. CASE b # a
    BY <1>1, <1>3, <1>6, <2>2 DEF Without, Suppliers, Knows
  <2> QED
    BY <2>1, <2>2
<1>7. ASSUME NEW a \in Agents, AcceptLost(a)
      PROVE  Gets(a, "accept") /\ UNCHANGED bidding /\ inflight' = Without(a, Next1(a).query)
             /\ TookFrom(NodeOf[a])
  BY <1>1, <1>7 DEF AcceptLost, Gets, TookFrom, Took, Queues
<1>8. ASSUME NEW a \in Agents, NEW o \in Outcomes, Deliver(a, o)
      PROVE  UNCHANGED bidding /\ inflight' = Without(a, serving[a].query) /\ serving[a] # None
  <2>1. o = Fine
    BY <1>1, <1>8, NothingFailed DEF Deliver
  <2> QED
    BY <1>8, <2>1 DEF Deliver, Fine
<1>9. ASSUME NEW a \in Agents, NEW k \in {1, 2}, NEW o \in Outcomes, Attest(a, k, o)
      PROVE  UNCHANGED <<inflight, bidding>>
  <2>1. o = Fine
    BY <1>1, <1>9, NothingFailed DEF Attest
  <2> QED
    BY <1>9, <2>1 DEF Attest, Fine
<1>10. ASSUME NEW a \in Agents,
              SkipQuery(a) \/ AcceptUnknown(a) \/ HandleAccept(a) \/ AgentRecvFails(a)
       PROVE  UNCHANGED <<inflight, bidding>>
  BY <1>10 DEF SkipQuery, AcceptUnknown, HandleAccept, AgentRecvFails, supplierVars
<1>11. CASE Buyer
  BY <1>2, <1>11 DEF Buyer, SendQuery, OpenWindow, Ask, CloseWindow, SendAccept, ScanBuffer,
       Poll, Timeout, OpenTrade, SettleTier, WriteReceipt, supplierVars
<1>12. CASE Ticks \/ PollFails \/ (\E q1 \in Calls : TickFails(q1)) \/ \E w \in Wants : StartQuery(w[1], w[2])
  BY <1>2, <1>12 DEF Ticks, Answer, HandleTick, TickFails, PollFails, StartQuery, supplierVars
<1>13. ASSUME NEW a \in Agents, Supplier(a) \/ AgentRecvFails(a) \/ AgentRestarts(a)
       PROVE  \/ Knows(b, q)'
              \/ Gets(b, "accept") /\ Next1(b).query = q /\ TookFrom(NodeOf[b])
              \/ serving[b] # None /\ serving[b].query = q
  <2>1. CASE AcceptLost(a) \/ \E o \in Outcomes : Deliver(a, o)
    BY <1>6, <1>7, <1>8, <2>1
  <2>2. ~AgentRestarts(a)
    BY <1>1, NothingFailed DEF AgentRestarts
  <2> QED
    BY <1>2, <1>4, <1>5, <1>9, <1>10, <1>13, <2>1, <2>2 DEF Supplier
<1> QED
  BY <1>2, <1>11, <1>12, <1>13 DEF Next, vars, supplierVars

\* After a message x was sent to node t, each message was there or is x.
LEMMA SentPlaces ==
    ASSUME Queues, Grown, NEW t, NEW x, NEW o, queue' = Sent(o, t, x),
           t \in Nodes => x \in ToNode(t)',
           NEW n \in Nodes, NEW i \in DOMAIN queue'[n]
    PROVE  \/ i \in DOMAIN queue[n] /\ queue'[n][i] = queue[n][i]
           \/ n = t /\ i = Len(queue[t]) + 1 /\ queue'[n][i] = x
<1>1. queue'[n] = IF n = t /\ o.done THEN Append(queue[n], x) ELSE queue[n]
  BY DEF Queues, Sent
<1>2. CASE n = t /\ o.done
  <2> DEFINE S == ToNode(n)'
  <2>1. x \in S /\ queue[n] \in Seq(S)
    <3>1. queue[n] \in Seq(Contents(n)')
      BY QueueKept, QueuesByContents
    <3> QED
      BY <1>2, <3>1, MarketAssumption DEF Contents
  <2> HIDE DEF S
  <2>2. queue'[n] = Append(queue[n], x)
    BY <1>1, <1>2
  <2> QED
    BY <1>2, <2>1, <2>2, AppendPlaces
<1>3. CASE ~(n = t /\ o.done)
  BY <1>1, <1>3
<1> QED
  BY <1>2, <1>3

LEMMA OneAcceptNext ==
    ASSUME IInv, OneAcceptPerCall, [Next]_vars
    PROVE  OneAcceptPerCall'
<1>1. Plain /\ Queues
  BY DEF IInv
<1>2. ASSUME NEW k \in Nodes \cup {BuyerNode}, TookFrom(k) PROVE OneAcceptPerCall'
  BY <1>1, <1>2, OneAcceptWhenTaken
\* A message x is sent to node t.
<1>3. ASSUME NEW t, NEW x, NEW o,
             queue' = Sent(o, t, x),
             t \in Nodes => x \in ToNode(t)',
             x.type = "accept" => x.query = query /\ pc \notin Accepted,
             Grown
      PROVE  OneAcceptPerCall'
  <2>2. ASSUME NEW n \in Nodes, NEW i \in DOMAIN queue'[n]
        PROVE  \/ i \in DOMAIN queue[n] /\ queue'[n][i] = queue[n][i]
               \/ n = t /\ i = Len(queue[t]) + 1 /\ queue'[n][i] = x
    BY <1>1, <1>3, SentPlaces
  <2> SUFFICES ASSUME NEW m \in Nodes, NEW n \in Nodes,
                      NEW i \in DOMAIN queue'[m], NEW j \in DOMAIN queue'[n],
                      queue'[m][i].type = "accept", queue'[n][j].type = "accept",
                      queue'[m][i].query = queue'[n][j].query
               PROVE  m = n /\ i = j
    BY DEF OneAcceptPerCall, Holds
  <2>3. ASSUME NEW l \in Nodes, NEW c \in DOMAIN queue[l], queue[l][c].type = "accept",
               x.type = "accept"
        PROVE  queue[l][c].query # x.query
    BY <1>1, <1>3, <2>3, AcceptInQueue
  <2>4. CASE i \in DOMAIN queue[m] /\ queue'[m][i] = queue[m][i]
    <3>1. CASE j \in DOMAIN queue[n] /\ queue'[n][j] = queue[n][j]
      BY <2>4, <3>1 DEF OneAcceptPerCall, Holds
    <3>2. CASE n = t /\ j = Len(queue[t]) + 1 /\ queue'[n][j] = x
      BY <2>3, <2>4, <3>2
    <3> QED
      BY <2>2, <3>1, <3>2
  <2>5. CASE m = t /\ i = Len(queue[t]) + 1 /\ queue'[m][i] = x
    <3>1. CASE j \in DOMAIN queue[n] /\ queue'[n][j] = queue[n][j]
      BY <2>3, <2>5, <3>1
    <3>2. CASE n = t /\ j = Len(queue[t]) + 1 /\ queue'[n][j] = x
      BY <2>5, <3>2
    <3> QED
      BY <2>2, <3>1, <3>2
  <2> QED
    BY <2>2, <2>4, <2>5
<1>4. Grown
  BY <1>1, MessagesKeep
<1>5. ASSUME NEW p \in Listed, NEW o \in Outcomes, SendQuery(p, o) PROVE OneAcceptPerCall'
  <2> DEFINE x == [type |-> "query", query |-> query, from |-> BuyerNode,
                   prompt |-> prompt]
  <2>1. queue' = Sent(o, p[1], x) /\ x.type = "query" /\ x \in ToNode(p[1])'
    BY <1>5, QuerySent DEF SendQuery
  <2> HIDE DEF x
  <2> QED
    BY <1>3, <1>4, <2>1
<1>6. ASSUME NEW o \in Outcomes, SendAccept(o) PROVE OneAcceptPerCall'
  <2> DEFINE x == [type |-> "accept", query |-> query, from |-> BuyerNode,
                   agent |-> winner, tier2 |-> tier2]
  <2>1. PICK n \in Nodes : n = peers[winner] /\ x \in ToNode(n)'
    BY <1>6, AcceptToWinner
  <2>2. queue' = Sent(o, n, x) /\ x.query = query /\ pc \notin Accepted
    BY <1>6, <2>1 DEF SendAccept, Accepted
  <2> HIDE DEF x
  <2> QED
    BY <1>3, <1>4, <2>1, <2>2
<1> QED
  BY <1>2, <1>5, <1>6, NodeQueues

\* After an agent took the head of its node's queue, what is in a queue was
\* there before, at another place.
LEMMA HeadTaken ==
    ASSUME Queues, NEW b \in Agents, NEW type, Gets(b, type), TookFrom(NodeOf[b]),
           NEW n \in Nodes, NEW i \in DOMAIN queue'[n]
    PROVE  /\ NodeOf[b] \in Nodes /\ Holds(NodeOf[b], 1, type)
           /\ queue[NodeOf[b]][1] = Next1(b)
           /\ \E e \in DOMAIN queue[n] : /\ queue'[n][i] = queue[n][e]
                                         /\ n = NodeOf[b] => e # 1
<1>1. NodeOf[b] \in Nodes
  BY MarketAssumption
<1>2. /\ 1 \in DOMAIN queue[NodeOf[b]] /\ queue[NodeOf[b]][1] = Next1(b)
      /\ Holds(NodeOf[b], 1, type)
  <2> DEFINE S == ToNode(NodeOf[b])
  <2> HIDE DEF S
  <2>1. queue[NodeOf[b]] \in Seq(S) /\ queue[NodeOf[b]] # <<>>
    BY <1>1 DEF Queues, S, Gets
  <2>2. 1 \in DOMAIN queue[NodeOf[b]] /\ queue[NodeOf[b]][1] = Next1(b)
    BY <2>1, EmptySeq, LenProperties DEF Next1
  <2> QED
    BY <2>2 DEF Holds, Gets
<1>3. /\ i \in Nat \ {0}
      /\ PlaceBefore(NodeOf[b], n, i) \in DOMAIN queue[n]
      /\ queue'[n][i] = queue[n][PlaceBefore(NodeOf[b], n, i)]
  BY PlacesBefore
<1>4. n = NodeOf[b] => PlaceBefore(NodeOf[b], n, i) # 1
  BY <1>3 DEF PlaceBefore
<1> QED
  BY <1>1, <1>2, <1>3, <1>4

LEMMA AcceptTakenOnce ==
    ASSUME Queues, OneAcceptPerCall, NEW b \in Agents, Gets(b, "accept"), TookFrom(NodeOf[b]),
           NEW n \in Nodes, NEW i \in DOMAIN queue'[n], queue'[n][i].type = "accept"
    PROVE  queue'[n][i].query # Next1(b).query
<1>1. /\ NodeOf[b] \in Nodes /\ Holds(NodeOf[b], 1, "accept")
      /\ queue[NodeOf[b]][1] = Next1(b)
      /\ \E e \in DOMAIN queue[n] : /\ queue'[n][i] = queue[n][e]
                                    /\ n = NodeOf[b] => e # 1
  BY HeadTaken
<1>2. PICK e \in DOMAIN queue[n] : /\ queue'[n][i] = queue[n][e]
                                   /\ n = NodeOf[b] => e # 1
  BY <1>1
<1>3. Holds(n, e, "accept") /\ 1 \in DOMAIN queue[NodeOf[b]]
  BY <1>1, <1>2 DEF Holds
<1>4. queue[NodeOf[b]][1].query = queue[n][e].query => FALSE
  BY <1>1, <1>2, <1>3 DEF OneAcceptPerCall
<1> QED
  BY <1>1, <1>2, <1>4

\* A service was there before, or its accept has just been taken.
LEMMA ServingBefore ==
    ASSUME IInv, [Next]_vars, NEW a \in Agents, serving'[a] # None
    PROVE  \/ /\ serving[a] # None
              /\ serving'[a].query = serving[a].query /\ serving'[a].hash = serving[a].hash
           \/ /\ HandleAccept(a)
              /\ serving'[a].query = Next1(a).query
              /\ \E e \in Entries(a, Next1(a).query) : serving'[a].hash \in ReceiptOf(a, e)
<1>1. Suppliers /\ serving \in [Agents -> Service \cup {None}]
  BY DEF IInv, Suppliers
<1>2. CASE serving'[a] = serving[a]
  BY <1>2
<1>3. ASSUME NEW b \in Agents, HandleAccept(b)
      PROVE  \/ serving'[a] = serving[a]
             \/ /\ b = a /\ serving'[a].query = Next1(a).query
                /\ \E e \in Entries(a, Next1(a).query) : serving'[a].hash \in ReceiptOf(a, e)
  <2>1. PICK e \in Entries(b, Next1(b).query) : \E h \in ReceiptOf(b, e) :
          serving' = [serving EXCEPT ![b] =
              [query |-> Next1(b).query, hash |-> h, tier2 |-> Next1(b).tier2, signed |-> {}]]
    BY <1>3 DEF HandleAccept
  <2>2. PICK h \in ReceiptOf(b, e) :
          serving' = [serving EXCEPT ![b] =
              [query |-> Next1(b).query, hash |-> h, tier2 |-> Next1(b).tier2, signed |-> {}]]
    BY <2>1
  <2> QED
    BY <1>1, <2>2
<1>4. ASSUME NEW b \in Agents, NEW k \in {1, 2}, NEW o \in Outcomes, Attest(b, k, o)
      PROVE  \/ serving'[a] = serving[a]
             \/ /\ serving[a] # None
                /\ serving'[a].query = serving[a].query /\ serving'[a].hash = serving[a].hash
  <2>1. PICK t : t = serving[b]
    OBVIOUS
  <2>2. t \in Service /\ t # None
    BY <1>1, <1>4, <2>1, ServiceTypes DEF Attest
  <2>3. \/ serving' = [serving EXCEPT ![b] = None]
        \/ serving' = [serving EXCEPT ![b] = [t EXCEPT !.signed = @ \cup {k}]]
    BY <1>4, <2>1 DEF Attest
  <2>4. [t EXCEPT !.signed = @ \cup {k}].query = t.query /\ [t EXCEPT !.signed = @ \cup {k}].hash = t.hash
    BY <2>2 DEF Service
  <2> QED
    BY <1>1, <2>1, <2>2, <2>3, <2>4
<1>5. ASSUME NEW b \in Agents, AgentRestarts(b) \/ \E o \in Outcomes : Deliver(b, o)
      PROVE  serving'[a] = serving[a]
  BY <1>1, <1>5 DEF AgentRestarts, Deliver
<1>6. ASSUME NEW b \in Agents,
             \/ SkipQuery(b) \/ AcceptUnknown(b) \/ AcceptLost(b) \/ AgentRecvFails(b) \/ Remember(b)
             \/ \E h \in HashSet, o \in Outcomes : HandleQuery(b, h, o)
      PROVE  UNCHANGED serving
  BY <1>6 DEF SkipQuery, AcceptUnknown, AcceptLost, AgentRecvFails, Remember, HandleQuery,
     supplierVars
<1>7. CASE Buyer
  BY <1>2, <1>7 DEF Buyer, SendQuery, OpenWindow, Ask, CloseWindow, SendAccept, ScanBuffer,
       Poll, Timeout, OpenTrade, SettleTier, WriteReceipt, supplierVars
<1>8. CASE Ticks \/ PollFails \/ (\E q \in Calls : TickFails(q)) \/ \E w \in Wants : StartQuery(w[1], w[2])
  BY <1>2, <1>8 DEF Ticks, Answer, HandleTick, TickFails, PollFails, StartQuery, supplierVars
<1>9. CASE UNCHANGED vars
  BY <1>2, <1>9 DEF vars, supplierVars
<1>10. ASSUME NEW b \in Agents, Supplier(b) \/ AgentRecvFails(b) \/ AgentRestarts(b)
       PROVE  \/ serving'[a] = serving[a]
              \/ /\ serving[a] # None
                 /\ serving'[a].query = serving[a].query /\ serving'[a].hash = serving[a].hash
              \/ /\ HandleAccept(a)
                 /\ serving'[a].query = Next1(a).query
                 /\ \E e \in Entries(a, Next1(a).query) : serving'[a].hash \in ReceiptOf(a, e)
  BY <1>3, <1>4, <1>5, <1>6, <1>10 DEF Supplier
<1> QED
  BY <1>2, <1>7, <1>8, <1>9, <1>10 DEF Next

LEMMA NotServedNext ==
    ASSUME IInv, OneAcceptPerCall, NotServed, [Next]_vars
    PROVE  NotServed'
<1>1. Queues /\ Suppliers /\ Grown
  BY MessagesKeep DEF IInv
<1> SUFFICES ASSUME NEW n \in Nodes, NEW i \in DOMAIN queue'[n], NEW m, m = queue'[n][i],
                    m.type = "accept", NEW a \in Agents, serving'[a] # None
             PROVE  serving'[a].query # m.query
  BY DEF NotServed, Holds
<1>2. ASSUME HandleAccept(a), serving'[a].query = Next1(a).query
      PROVE  serving'[a].query # m.query
  <2>1. /\ Gets(a, "accept") /\ queue' = Took(NodeOf[a]) /\ queue[NodeOf[a]] # <<>>
        /\ NodeOf[a] \in Nodes
    BY <1>2, MarketAssumption DEF HandleAccept, Gets
  <2>2. TookFrom(NodeOf[a])
    BY <1>1, <2>1 DEF Queues, Took, TookFrom
  <2> QED
    BY <1>1, <1>2, <2>1, <2>2, AcceptTakenOnce
<1>3. ASSUME serving[a] # None, serving'[a].query = serving[a].query
      PROVE  serving'[a].query # m.query
  <2>1. ASSUME NEW d \in DOMAIN queue[n], m = queue[n][d] PROVE serving'[a].query # m.query
    BY <1>3, <2>1 DEF NotServed, Holds
  <2>2. ASSUME NEW k \in Nodes \cup {BuyerNode}, TookFrom(k) PROVE serving'[a].query # m.query
    BY <1>1, <2>1, <2>2, PlacesBefore
  <2>3. ASSUME NEW p \in Listed, NEW o \in Outcomes, SendQuery(p, o)
        PROVE  serving'[a].query # m.query
    <3> DEFINE x == [type |-> "query", query |-> query, from |-> BuyerNode,
                     prompt |-> prompt]
    <3>1. queue' = Sent(o, p[1], x) /\ x.type = "query" /\ x \in ToNode(p[1])'
      BY <2>3, QuerySent DEF SendQuery
    <3> HIDE DEF x
    <3> QED
      BY <1>1, <2>1, <3>1, SentPlaces
  <2>4. ASSUME NEW o \in Outcomes, SendAccept(o) PROVE serving'[a].query # m.query
    <3> DEFINE x == [type |-> "accept", query |-> query, from |-> BuyerNode,
                     agent |-> winner, tier2 |-> tier2]
    <3>1. PICK t \in Nodes : t = peers[winner] /\ x \in ToNode(t)'
      BY <2>4, AcceptToWinner
    <3>2. queue' = Sent(o, t, x) /\ x.query = query /\ pc \notin Accepted
      BY <2>4, <3>1 DEF SendAccept, Accepted
    <3> HIDE DEF x
    <3>3. serving[a].query # query
      BY <1>1, <1>3, <3>2, ServiceTypes DEF ForTheWinner
    <3> QED
      BY <1>1, <1>3, <2>1, <3>1, <3>2, <3>3, SentPlaces
  <2> QED
    BY <2>2, <2>3, <2>4, NodeQueues
<1> QED
  BY <1>2, <1>3, ServingBefore

LEMMA AcceptsKnownNext ==
    ASSUME IInv, Known, [Next]_vars, faults' = 0
    PROVE  AcceptsKnown'
<1>1. Plain /\ Queues /\ Window /\ Grown
  BY MessagesKeep DEF IInv
<1>2. ASSUME NEW k \in Nodes \cup {BuyerNode}, TookFrom(k), faults = 0
      PROVE  AcceptsKnown'
  <2> SUFFICES ASSUME NEW n \in Nodes, NEW i \in DOMAIN queue'[n],
                      NEW m, m = queue'[n][i], m.type = "accept"
               PROVE  Knows(m.agent, m.query)'
    BY DEF AcceptsKnown, Holds
  <2> DEFINE d == PlaceBefore(k, n, i)
  <2>1. i \in Nat \ {0} /\ d \in DOMAIN queue[n] /\ queue'[n][i] = queue[n][d]
    BY <1>1, <1>2, PlacesBefore
  <2> HIDE DEF d
  <2>2. PICK b, q : b \in Agents /\ b = queue[n][d].agent /\ q = queue[n][d].query
    BY <1>1, <2>1, AcceptInQueue
  <2>3. Knows(b, q)
    BY <1>2, <2>1, <2>2 DEF Known, AcceptsKnown, Holds
  <2>4. ASSUME Gets(b, "accept"), Next1(b).query = q, TookFrom(NodeOf[b])
        PROVE  FALSE
    BY <1>1, <2>1, <2>2, <2>4, AcceptTakenOnce DEF Known
  <2>5. ~(serving[b] # None /\ serving[b].query = q)
    BY <2>1, <2>2 DEF Known, NotServed, Holds
  <2>6. Knows(b, q)'
    BY <2>2, <2>3, <2>4, <2>5, KnowledgeKept
  <2> QED
    BY <2>1, <2>2, <2>6
<1>3. ASSUME NEW t, NEW x, NEW o, queue' = Sent(o, t, x),
             t \in Nodes => x \in ToNode(t)',
             x.type = "accept" => Knows(x.agent, x.query),
             UNCHANGED <<inflight, bidding>>, faults = 0
      PROVE  AcceptsKnown'
  <2>1. \A b, q : Knows(b, q) => Knows(b, q)'
    BY <1>3 DEF Knows
  <2> SUFFICES ASSUME NEW n \in Nodes, NEW i \in DOMAIN queue'[n],
                      NEW m, m = queue'[n][i], m.type = "accept"
               PROVE  Knows(m.agent, m.query)'
    BY DEF AcceptsKnown, Holds
  <2>2. CASE i \in DOMAIN queue[n] /\ queue'[n][i] = queue[n][i]
    <3>1. Knows(m.agent, m.query)
      BY <1>3, <2>2 DEF Known, AcceptsKnown, Holds
    <3> QED
      BY <2>1, <3>1
  <2>3. CASE queue'[n][i] = x
    BY <1>3, <2>1, <2>3
  <2> QED
    BY <1>1, <1>3, <2>2, <2>3, SentPlaces
<1>4. ASSUME NEW p \in Listed, NEW o \in Outcomes, SendQuery(p, o) PROVE AcceptsKnown'
  <2> DEFINE x == [type |-> "query", query |-> query, from |-> BuyerNode,
                   prompt |-> prompt]
  <2>1. /\ queue' = Sent(o, p[1], x) /\ x.type = "query" /\ x \in ToNode(p[1])'
        /\ UNCHANGED <<inflight, bidding>> /\ faults = 0
    BY <1>1, <1>4, QuerySent, NothingFailed DEF SendQuery, supplierVars
  <2> HIDE DEF x
  <2> QED
    BY <1>3, <2>1
<1>5. ASSUME NEW o \in Outcomes, SendAccept(o) PROVE AcceptsKnown'
  <2> DEFINE x == [type |-> "accept", query |-> query, from |-> BuyerNode,
                   agent |-> winner, tier2 |-> tier2]
  <2>1. PICK n \in Nodes : n = peers[winner] /\ x \in ToNode(n)'
    BY <1>5, AcceptToWinner
  <2>2. /\ queue' = Sent(o, n, x) /\ pc = "accepting"
        /\ UNCHANGED <<inflight, bidding>> /\ faults = 0
    BY <1>1, <1>5, <2>1, NothingFailed DEF SendAccept, supplierVars
  <2>3. x.agent = winner /\ x.query = query
    OBVIOUS
  <2>4. Knows(winner, query)
    <3>1. PICK i \in DOMAIN bids : bids[i].agent = winner
      BY <1>1, <2>2, WinnerBid DEF Window
    <3>2. bids[i].type = "bid" /\ bids[i].query = query
      BY <1>1, BidAgents DEF Bids
    <3> QED
      BY <2>2, <3>1, <3>2 DEF Known, BidsKnown, BidKnown, Accepted
  <2> HIDE DEF x
  <2> QED
    BY <1>3, <2>1, <2>2, <2>3, <2>4
<1>6. faults = 0
  BY <1>1, FaultsGrow
<1> QED
  BY <1>2, <1>4, <1>5, <1>6, NodeQueues

\* Where the bids and delivers on their way to the buyer come from.
LEMMA BuyerMessages ==
    ASSUME IInv, [Next]_vars, NEW i \in DOMAIN queue'[BuyerNode]
    PROVE  \/ \E j \in DOMAIN queue[BuyerNode] : queue'[BuyerNode][i] = queue[BuyerNode][j]
           \/ \E a \in Agents, h \in HashSet, o \in Outcomes :
                HandleQuery(a, h, o) /\ Says(queue'[BuyerNode][i], a, Next1(a).query, h)
           \/ \E a \in Agents :
                /\ serving[a] # None
                /\ queue'[BuyerNode][i].type = "deliver"
                /\ Says(queue'[BuyerNode][i], a, serving[a].query, serving[a].hash)
<1>1. Queues
  BY DEF IInv
<1> DEFINE S == ToBuyer  s == queue[BuyerNode]
           Before == \E j \in DOMAIN s : queue'[BuyerNode][i] = s[j]
<1> HIDE DEF S
<1>2. s \in Seq(S)
  BY <1>1 DEF Queues, S
<1>3. ASSUME queue'[BuyerNode] = s PROVE Before
  BY <1>3
<1>4. ASSUME s # <<>>, queue'[BuyerNode] = Tail(s) PROVE Before
  BY <1>2, <1>4, TailPlaces
<1>5. ASSUME NEW n \in Nodes, queue' = Took(n) PROVE queue'[BuyerNode] = s
  BY <1>1, <1>5, MarketAssumption DEF Queues, Took
<1>6. ASSUME NEW t \in Nodes, NEW x, NEW o, queue' = Sent(o, t, x) PROVE queue'[BuyerNode] = s
  BY <1>1, <1>6, MarketAssumption DEF Queues, Sent
<1>7. ASSUME NEW x, queue'[BuyerNode] = Append(s, x)
      PROVE  Before \/ queue'[BuyerNode][i] = x
  <2> DEFINE T == S \cup {x}
  <2>1. s \in Seq(T) /\ x \in T
    BY <1>2, SeqMonotonic
  <2> HIDE DEF T
  <2> HIDE DEF s
  <2> QED
    BY <1>7, <2>1, AppendPlaces
<1>8. ASSUME NEW x, NEW o, queue' = Sent(o, BuyerNode, x)
      PROVE  Before \/ queue'[BuyerNode][i] = x
  BY <1>1, <1>3, <1>7, <1>8 DEF Queues, Sent
<1>9. ASSUME NEW n \in Nodes, NEW x, NEW o,
             queue' = [Took(n) EXCEPT ![BuyerNode] = IF o.done THEN Append(@, x) ELSE @]
      PROVE  Before \/ queue'[BuyerNode][i] = x
  <2>1. queue'[BuyerNode] = IF o.done THEN Append(s, x) ELSE s
    BY <1>1, <1>9, MarketAssumption DEF Queues, Took
  <2> QED
    BY <1>3, <1>7, <2>1
<1> HIDE DEF s
<1>10. ASSUME NEW a \in Agents, NEW h \in HashSet, NEW o \in Outcomes, HandleQuery(a, h, o)
      PROVE  Before \/ Says(queue'[BuyerNode][i], a, Next1(a).query, h)
  <2> DEFINE x == [type |-> "bid", query |-> Next1(a).query, from |-> NodeOf[a],
                   agent |-> a, price |-> Price[a], hash |-> h]
  <2>1. Says(x, a, Next1(a).query, h)
    BY DEF Says
  <2>2. queue' = [Took(NodeOf[a]) EXCEPT ![BuyerNode] = IF o.done THEN Append(@, x) ELSE @]
    BY <1>10 DEF HandleQuery
  <2> HIDE DEF x
  <2>3. Before \/ queue'[BuyerNode][i] = x
    BY <1>9, <2>2, MarketAssumption
  <2> QED
    BY <2>1, <2>3
<1>11. ASSUME NEW a \in Agents, NEW o \in Outcomes, Deliver(a, o)
      PROVE  \/ Before
             \/ /\ serving[a] # None
                /\ queue'[BuyerNode][i].type = "deliver"
                /\ Says(queue'[BuyerNode][i], a, serving[a].query, serving[a].hash)
  <2> DEFINE x == [type |-> "deliver", query |-> serving[a].query, from |-> NodeOf[a],
                   agent |-> a, hash |-> serving[a].hash, tiers |-> serving[a].signed]
  <2>1. x.type = "deliver" /\ Says(x, a, serving[a].query, serving[a].hash)
    BY DEF Says
  <2>2. queue' = Sent(o, BuyerNode, x) /\ serving[a] # None
    BY <1>11 DEF Deliver
  <2> HIDE DEF x
  <2>3. Before \/ queue'[BuyerNode][i] = x
    BY <1>8, <2>2
  <2> QED
    BY <2>1, <2>2, <2>3
<1>12. ASSUME NEW a \in Agents,
              SkipQuery(a) \/ AcceptUnknown(a) \/ AcceptLost(a) \/ HandleAccept(a) \/ AgentRecvFails(a)
       PROVE  Before
  <2>1. queue' = Took(NodeOf[a]) /\ NodeOf[a] \in Nodes
    BY <1>12, MarketAssumption DEF SkipQuery, AcceptUnknown, AcceptLost, HandleAccept,
         AgentRecvFails
  <2> QED
    BY <1>3, <1>5, <2>1
<1>13. ASSUME queue[BuyerNode] # <<>>, queue' = Took(BuyerNode) PROVE Before
  <2>1. s # <<>> /\ queue'[BuyerNode] = Tail(s)
    BY <1>1, <1>13 DEF Queues, Took, s
  <2> QED
    BY <1>4, <2>1
<1>14. ASSUME UNCHANGED queue PROVE Before
  BY <1>3, <1>14 DEF s
<1>15. CASE Buyer
  <2>1. ASSUME NEW p \in Listed, NEW o \in Outcomes, SendQuery(p, o) PROVE Before
    BY <1>3, <1>6, <2>1, QuerySent DEF SendQuery
  <2>2. ASSUME NEW o \in Outcomes, SendAccept(o) PROVE Before
    <3>1. PICK n \in Nodes : n = peers[winner]
      BY <2>2, AcceptToWinner
    <3> QED
      BY <1>3, <1>6, <2>2, <3>1 DEF SendAccept
  <2> QED
    BY <1>13, <1>14, <1>15, <2>1, <2>2 DEF Buyer, OpenWindow, Ask, CloseWindow, ScanBuffer,
       Poll, Timeout, OpenTrade, SettleTier, WriteReceipt, s
<1>16. CASE Ticks \/ PollFails \/ (\E q \in Calls : TickFails(q)) \/ \E w \in Wants : StartQuery(w[1], w[2])
  BY <1>13, <1>14, <1>16 DEF Ticks, Answer, HandleTick, TickFails, PollFails, StartQuery, s
<1>17. ASSUME NEW a \in Agents,
              Remember(a) \/ AgentRestarts(a) \/ \E k \in {1, 2}, o \in Outcomes : Attest(a, k, o)
       PROVE  UNCHANGED queue
  BY <1>17 DEF Remember, AgentRestarts, Attest
<1> QED
  BY <1>10, <1>11, <1>12, <1>14, <1>15, <1>16, <1>17 DEF Next, vars, Supplier, s

\* In a call before its accept, no bidder's knowledge of it is lost.
LEMMA BidderKnows ==
    ASSUME IInv, [Next]_vars, faults' = 0, query' = query, pc \notin Accepted,
           NEW b \in Agents, Knows(b, query)
    PROVE  Knows(b, query)'
<1>1. Plain /\ Queues /\ Suppliers
  BY DEF IInv
<1>2. ASSUME Gets(b, "accept"), Next1(b).query = query PROVE FALSE
  BY <1>1, <1>2, Taken DEF Accepts, ForTheWinner
<1>3. PICK q : q = query
  OBVIOUS
<1>4. ~(serving[b] # None /\ serving[b].query = q)
  BY <1>1, <1>3, ServiceTypes DEF ForTheWinner
<1>5. Knows(b, q)'
  BY <1>2, <1>3, <1>4, KnowledgeKept
<1> QED
  BY <1>3, <1>5

\* What is under way to the buyer, or fetched, is of this call or an earlier one.
LEMMA ToBuyerQueries ==
    ASSUME IInv
    PROVE  /\ \A m \in ToBuyer : m.query \in Nat /\ m.query <= query
           /\ \A m \in ToBuyer : m.type = "bid" => m.agent \in Agents
           /\ \A i \in DOMAIN queue[BuyerNode] : queue[BuyerNode][i] \in ToBuyer
           /\ \A q \in Calls : tick[q] \notin {Off, Asked} => tick[q] \in ToBuyer
<1>1. \A m \in ToBuyer : m.query \in Calls /\ m.query <= query
  BY MessageKinds DEF ToBuyer, Bids, Deliveries, ForTheWinner
<1>2. \A m \in ToBuyer : m.type = "bid" => m.agent \in Agents
  BY MessageKinds DEF ToBuyer, Bids, Deliveries
<1>3. \A i \in DOMAIN queue[BuyerNode] : queue[BuyerNode][i] \in ToBuyer
  <2> DEFINE S == ToBuyer
  <2> HIDE DEF S
  <2>1. queue[BuyerNode] \in Seq(S)
    BY DEF IInv, Queues, S
  <2>2. \A i \in DOMAIN queue[BuyerNode] : queue[BuyerNode][i] \in S
    BY <2>1, ElementOfSeq, LenProperties
  <2> QED
    BY <2>2 DEF S
<1> QED
  BY <1>1, <1>2, <1>3 DEF IInv, Fetched, Calls

\* What the buyer has fetched or collected, it had before, or it was under way.
LEMMA BuyerFetches ==
    ASSUME IInv, [Next]_vars, query' = query
    PROVE  /\ \A q \in Calls :
                \/ tick'[q] \in {Off, Asked, tick[q]}
                \/ \E j \in DOMAIN queue[BuyerNode] : tick'[q] = queue[BuyerNode][j]
           /\ \A i \in DOMAIN bids' :
                \/ i \in DOMAIN bids /\ bids'[i] = bids[i]
                \/ \E q \in Calls : tick[q] \notin {Off, Asked} /\ bids'[i] = tick[q]
<1>1. Queues /\ Fetched /\ Window /\ Plain
  BY DEF IInv
<1>2. CASE UNCHANGED <<tick, bids>>
  BY <1>2
<1>3. CASE Ask
  BY <1>1, <1>3 DEF Ask, Fetched
<1>4. ASSUME NEW q \in Calls, Answer(q)
      PROVE  /\ UNCHANGED bids
             /\ \/ tick' = [tick EXCEPT ![q] = Off]
                \/ \E j \in DOMAIN queue[BuyerNode] :
                      tick' = [tick EXCEPT ![q] = queue[BuyerNode][j]]
  <2>1. CASE queue[BuyerNode] # <<>>
    <3> DEFINE S == ToBuyer
    <3> HIDE DEF S
    <3>1. queue[BuyerNode] \in Seq(S)
      BY <1>1 DEF Queues, S
    <3>2. 1 \in DOMAIN queue[BuyerNode] /\ Head(queue[BuyerNode]) = queue[BuyerNode][1]
      BY <2>1, <3>1, EmptySeq, LenProperties
    <3> QED
      BY <1>4, <2>1, <3>2 DEF Answer
  <2> QED
    BY <1>4, <2>1 DEF Answer
<1>5. ASSUME NEW q \in Calls, HandleTick(q) \/ TickFails(q)
      PROVE  /\ tick' = [tick EXCEPT ![q] = Off]
             /\ bids' = bids \/ (tick[q] \in ToBuyer /\ bids' = Append(bids, tick[q]))
  BY <1>1, <1>5 DEF HandleTick, TickFails, Fetched
<1>6. ASSUME NEW q \in Calls, tick[q] \in ToBuyer, bids' = Append(bids, tick[q]),
             NEW i \in DOMAIN bids'
      PROVE  \/ i \in DOMAIN bids /\ bids'[i] = bids[i]
             \/ tick[q] \notin {Off, Asked} /\ bids'[i] = tick[q]
  <2>1. tick[q] \notin {Off, Asked}
    BY <1>6, MessageKinds DEF ToBuyer, Bids, Deliveries
  <2> DEFINE S == {m \in Bids : m.query = query}  T == S \cup {tick[q]}
  <2> HIDE DEF S
  <2>2. bids \in Seq(S)
    BY <1>1 DEF Window, S
  <2>3. bids \in Seq(T) /\ tick[q] \in T
    BY <2>2, SeqMonotonic
  <2> HIDE DEF T
  <2> QED
    BY <1>6, <2>1, <2>3, AppendPlaces
<1>7. CASE \E q \in Calls : Answer(q)
  BY <1>1, <1>4, <1>7 DEF Fetched
<1>8. CASE \E q \in Calls : HandleTick(q) \/ TickFails(q)
  <2>1. PICK q \in Calls : HandleTick(q) \/ TickFails(q)
    BY <1>8
  <2>2. \A r \in Calls : tick'[r] \in {Off, Asked, tick[r]}
    BY <1>1, <1>5, <2>1 DEF Fetched
  <2>3. \A i \in DOMAIN bids' :
                \/ i \in DOMAIN bids /\ bids'[i] = bids[i]
                \/ tick[q] \notin {Off, Asked} /\ bids'[i] = tick[q]
    BY <1>5, <1>6, <2>1
  <2> QED
    BY <2>2, <2>3
<1>9. CASE Buyer
  BY <1>2, <1>3, <1>9 DEF Buyer, SendQuery, OpenWindow, CloseWindow, SendAccept, ScanBuffer,
     Poll, Timeout, OpenTrade, SettleTier, WriteReceipt
<1>10. ASSUME NEW w \in Wants, StartQuery(w[1], w[2]) PROVE FALSE
  BY <1>1, <1>10, MarketAssumption DEF StartQuery, Plain
<1>11. CASE PollFails \/ UNCHANGED vars
  BY <1>2, <1>11 DEF PollFails, vars, buyerVars
<1>12. ASSUME NEW a \in Agents, Supplier(a) \/ AgentRecvFails(a) \/ AgentRestarts(a)
       PROVE  UNCHANGED <<tick, bids>>
  BY <1>12 DEF Supplier, SkipQuery, HandleQuery, Remember, AcceptUnknown, AcceptLost,
     HandleAccept, Attest, Deliver, AgentRecvFails, AgentRestarts, buyerVars
<1> QED
  BY <1>2, <1>7, <1>8, <1>9, <1>10, <1>11, <1>12 DEF Next, Ticks

LEMMA BidsKnownNext ==
    ASSUME IInv, Known, [Next]_vars, faults' = 0
    PROVE  BidsKnown'
<1> SUFFICES ASSUME pc' \notin Accepted PROVE BidsKnown'
  BY DEF BidsKnown
<1>1. Plain /\ Queues /\ Window /\ faults = 0
  BY FaultsGrow DEF IInv
<1>2. ASSUME NEW w \in Wants, StartQuery(w[1], w[2]) PROVE BidsKnown'
  <2>1. /\ query' = query + 1 /\ query \in Nat /\ bids' = <<>>
        /\ UNCHANGED <<queue, tick>>
    BY <1>1, <1>2, MarketAssumption DEF StartQuery, Plain
  <2>2. \A m \in ToBuyer : m.query # query'
    BY <2>1, ToBuyerQueries
  <2> QED
    BY <2>1, <2>2, ToBuyerQueries DEF BidsKnown, BidKnown
<1>3. ASSUME query' = query, pc \notin Accepted PROVE BidsKnown'
  <2> DEFINE Had(m) == \/ \E j \in DOMAIN queue[BuyerNode] : m = queue[BuyerNode][j]
                       \/ \E q \in Calls : tick[q] \notin {Off, Asked} /\ m = tick[q]
                       \/ \E j \in DOMAIN bids : m = bids[j]
  <2>1. ASSUME NEW m, Had(m) PROVE BidKnown(m)'
    <3>1. BidKnown(m)
      BY <1>1, <1>3, <2>1 DEF Known, BidsKnown
    <3>2. m \in ToBuyer
      BY <1>1, <2>1, ToBuyerQueries, BidAgents DEF ToBuyer
    <3>3. m.type = "bid" => m.agent \in Agents
      BY <3>2, ToBuyerQueries
    <3> QED
      BY <1>3, <3>1, <3>3, BidderKnows DEF BidKnown
  <2>2. ASSUME NEW a \in Agents, NEW h \in HashSet, NEW o \in Outcomes, HandleQuery(a, h, o)
        PROVE  \E q : q = Next1(a).query /\ Knows(a, q)'
    <3>1. o = Fine
      BY <1>1, <2>2, NothingFailed DEF HandleQuery
    <3>2. PICK q : q = Next1(a).query
      OBVIOUS
    <3>3. bidding'[a] = {Note(a, Next1(a), h)}
      BY <2>2, <3>1 DEF HandleQuery, Fine, IInv, Suppliers
    <3>4. Note(a, Next1(a), h).query = q
      BY <3>2 DEF Note
    <3> QED
      BY <3>2, <3>3, <3>4 DEF Knows
  <2>3. ASSUME NEW i \in DOMAIN queue'[BuyerNode], NEW m, m = queue'[BuyerNode][i]
        PROVE  BidKnown(m)'
    <3>1. CASE m.type = "deliver"
      BY <3>1 DEF BidKnown
    <3>2. CASE \E a \in Agents, h \in HashSet, o \in Outcomes :
                 HandleQuery(a, h, o) /\ Says(m, a, Next1(a).query, h)
      <4>1. \E q : q = m.query /\ Knows(m.agent, q)'
        BY <2>2, <3>2 DEF Says
      <4> QED
        BY <4>1 DEF BidKnown
    <3> QED
      BY <2>1, <2>3, <3>1, <3>2, BuyerMessages
  <2>4. ASSUME NEW q \in Calls, NEW m, m = tick'[q], m \notin {Off, Asked}
        PROVE  BidKnown(m)'
    BY <1>3, <2>1, <2>4, BuyerFetches
  <2>5. ASSUME NEW i \in DOMAIN bids', NEW m, m = bids'[i] PROVE BidKnown(m)'
    <3>1. Had(m)
      BY <1>3, <2>5, BuyerFetches
    <3> QED
      BY <2>1, <3>1
  <2>6. Off' = Off /\ Asked' = Asked
    BY DEF Off, Asked
  <2> QED
    BY <2>3, <2>4, <2>5, <2>6 DEF BidsKnown
<1>4. ASSUME ~\E w \in Wants : StartQuery(w[1], w[2]) PROVE query' = query /\ pc \notin Accepted
  <2> USE DEF Accepted, buyerVars
  <2>1. CASE Buyer
    BY <2>1 DEF Buyer, SendQuery, OpenWindow, Ask, CloseWindow, SendAccept, ScanBuffer,
       Poll, Receive, Timeout, OpenTrade, SettleTier, WriteReceipt
  <2>2. CASE Ticks \/ PollFails \/ \E q \in Calls : TickFails(q)
    BY <2>2 DEF Ticks, Answer, HandleTick, TickFails, PollFails
  <2>3. ASSUME NEW a \in Agents, Supplier(a) \/ AgentRecvFails(a) \/ AgentRestarts(a)
        PROVE  query' = query /\ pc \notin Accepted
    BY <2>3 DEF Supplier, SkipQuery, HandleQuery, Remember, AcceptUnknown, AcceptLost,
       HandleAccept, Attest, Deliver, AgentRecvFails, AgentRestarts
  <2> QED
    BY <1>4, <2>1, <2>2, <2>3 DEF Next, vars
<1> QED
  BY <1>2, <1>3, <1>4

LEMMA KnownInit == Init => Known
BY MarketAssumption DEF Init, Known, OneAcceptPerCall, NotServed, AcceptsKnown, BidsKnown, Holds

LEMMA KnownInvariance == Spec => []Known
<1>1. IInv /\ Known /\ [Next]_vars => Known'
  <2> SUFFICES ASSUME IInv, Known, [Next]_vars PROVE Known'
    OBVIOUS
  <2>1. OneAcceptPerCall'
    BY OneAcceptNext DEF Known
  <2>2. NotServed'
    BY NotServedNext DEF Known
  <2> QED
    BY <2>1, <2>2, AcceptsKnownNext, BidsKnownNext DEF Known
<1> QED
  BY <1>1, KnownInit, Invariance, PTL DEF Spec

-----------------------------------------------------------------------------
(* Receipted is invariant.                                                 *)

\* Some agent comes by a receipt in this step.
QueryHandled == \E a \in Agents, h \in HashSet, o \in Outcomes : HandleQuery(a, h, o)

\* Otherwise suppliers come to know nothing new.
LEMMA NotesBefore ==
    ASSUME IInv, [Next]_vars, ~QueryHandled, NEW a \in Agents
    PROVE  inflight'[a] \cup bidding'[a] \subseteq inflight[a] \cup bidding[a]
<1>1. inflight \in [Agents -> SUBSET Entry] /\ bidding \in [Agents -> SUBSET Entry]
  BY DEF IInv, Suppliers
<1>2. CASE UNCHANGED <<inflight, bidding>>
  BY <1>2
<1>3. ASSUME NEW b \in Agents, Remember(b)
      PROVE  inflight'[a] \cup bidding'[a] \subseteq inflight[a] \cup bidding[a]
  BY <1>1, <1>3 DEF Remember
<1>4. ASSUME NEW b \in Agents, NEW q,
             inflight' = inflight \/ inflight' = Without(b, q), UNCHANGED bidding
      PROVE  inflight'[a] \cup bidding'[a] \subseteq inflight[a] \cup bidding[a]
  BY <1>1, <1>4 DEF Without
<1>5. ASSUME NEW b \in Agents,
             \/ SkipQuery(b) \/ AcceptUnknown(b) \/ AcceptLost(b) \/ HandleAccept(b)
             \/ AgentRecvFails(b)
             \/ \E k \in {1, 2}, o \in Outcomes : Attest(b, k, o)
             \/ \E o \in Outcomes : Deliver(b, o)
      PROVE  /\ UNCHANGED bidding
             /\ inflight' = inflight \/ \E q : inflight' = Without(b, q)
  BY <1>5 DEF SkipQuery, AcceptUnknown, AcceptLost, HandleAccept, AgentRecvFails, Attest,
     Deliver, supplierVars
<1>6. ASSUME NEW b \in Agents, AgentRestarts(b)
      PROVE  inflight'[a] \cup bidding'[a] \subseteq inflight[a] \cup bidding[a]
  BY <1>1, <1>6 DEF AgentRestarts
<1>7. CASE Buyer
  BY <1>2, <1>7 DEF Buyer, SendQuery, OpenWindow, Ask, CloseWindow, SendAccept, ScanBuffer,
       Poll, Timeout, OpenTrade, SettleTier, WriteReceipt, supplierVars
<1>8. CASE Ticks \/ PollFails \/ (\E q \in Calls : TickFails(q)) \/ \E w \in Wants : StartQuery(w[1], w[2])
  BY <1>2, <1>8 DEF Ticks, Answer, HandleTick, TickFails, PollFails, StartQuery, supplierVars
<1>9. ASSUME NEW b \in Agents, Supplier(b) \/ AgentRecvFails(b)
      PROVE  inflight'[a] \cup bidding'[a] \subseteq inflight[a] \cup bidding[a]
  BY <1>3, <1>4, <1>5, <1>9 DEF Supplier, QueryHandled
<1> QED
  BY <1>2, <1>6, <1>7, <1>8, <1>9 DEF Next, vars, supplierVars

\* Only a new call changes the call, or has queries to send that it had not.
LEMMA CallKept ==
    ASSUME [Next]_vars, \A w \in Wants : ~StartQuery(w[1], w[2])
    PROVE  query' = query /\ unsent' \subseteq unsent
<1>1. CASE Buyer
  BY <1>1 DEF Buyer, SendQuery, OpenWindow, Ask, CloseWindow, SendAccept, ScanBuffer,
     Poll, Timeout, OpenTrade, SettleTier, WriteReceipt
<1>2. CASE Ticks \/ PollFails \/ \E q \in Calls : TickFails(q)
  BY <1>2 DEF Ticks, Answer, HandleTick, TickFails, PollFails
<1>3. ASSUME NEW a \in Agents, Supplier(a) \/ AgentRecvFails(a) \/ AgentRestarts(a)
      PROVE  query' = query /\ unsent' \subseteq unsent
  BY <1>3 DEF Supplier, SkipQuery, HandleQuery, Remember, AcceptUnknown, AcceptLost,
     HandleAccept, Attest, Deliver, AgentRecvFails, AgentRestarts, buyerVars
<1> QED
  BY <1>1, <1>2, <1>3 DEF Next, vars, buyerVars

\* What the buyer keeps in its buffer or goes on with, had come to it.
LEMMA BuyerKeeps ==
    ASSUME IInv, [Next]_vars
    PROVE  /\ buffer' \subseteq Heard
           /\ pc' \in Paying => got' \in Heard
<1>1. Queues
  BY DEF IInv
<1>2. ASSUME queue[BuyerNode] # <<>> PROVE Head(queue[BuyerNode]) \in Heard
  <2> DEFINE S == ToBuyer
  <2> HIDE DEF S
  <2>1. queue[BuyerNode] \in Seq(S)
    BY <1>1 DEF Queues, S
  <2>2. 1 \in DOMAIN queue[BuyerNode] /\ Head(queue[BuyerNode]) = queue[BuyerNode][1]
    BY <1>2, <2>1, EmptySeq, LenProperties
  <2> QED
    BY <2>2 DEF Heard
<1>3. /\ \A q \in Calls : tick[q] \in Heard
      /\ buffer \subseteq Heard
      /\ pc \in Paying => got \in Heard
  BY DEF Heard
<1> USE DEF Paying
<1>4. CASE UNCHANGED <<buffer, got, pc>>
  BY <1>3, <1>4
<1>5. ASSUME NEW w \in Wants, StartQuery(w[1], w[2])
      PROVE  /\ buffer' \subseteq Heard
             /\ pc' \in Paying => got' \in Heard
  BY <1>3, <1>5 DEF StartQuery
<1>6. CASE Buyer
  <2>1. CASE ScanBuffer
    BY <1>3, <2>1 DEF ScanBuffer, Receive
  <2>2. CASE Poll
    BY <1>2, <1>3, <2>2 DEF Poll, Receive
  <2>3. CASE OpenWindow
    BY <2>3 DEF OpenWindow
  <2>4. CASE Ask \/ CloseWindow \/ Timeout \/ \E o \in Outcomes : SendAccept(o)
    BY <1>3, <2>4 DEF Ask, CloseWindow, Timeout, SendAccept
  <2>5. CASE \E p \in Listed, o \in Outcomes : SendQuery(p, o)
    BY <1>3, <2>5 DEF SendQuery
  <2>6. CASE \/ \E o \in Outcomes : OpenTrade(o) \/ WriteReceipt(o)
             \/ \E k \in {1, 2}, o \in Outcomes : SettleTier(k, o)
    BY <1>3, <2>6 DEF OpenTrade, SettleTier, WriteReceipt
  <2> QED
    BY <1>6, <2>1, <2>2, <2>3, <2>4, <2>5, <2>6 DEF Buyer
<1>7. CASE Ticks \/ \E q \in Calls : TickFails(q)
  BY <1>3, <1>7 DEF Ticks, Answer, HandleTick, TickFails
<1>8. CASE PollFails
  BY <1>3, <1>8 DEF PollFails
<1>9. ASSUME NEW a \in Agents, Supplier(a) \/ AgentRecvFails(a) \/ AgentRestarts(a)
      PROVE  UNCHANGED <<buffer, got, pc>>
  BY <1>9 DEF Supplier, SkipQuery, HandleQuery, Remember, AcceptUnknown, AcceptLost,
     HandleAccept, Attest, Deliver, AgentRecvFails, AgentRestarts, buyerVars
<1> QED
  BY <1>4, <1>5, <1>6, <1>7, <1>8, <1>9 DEF Next, vars, buyerVars

\* What has come to the buyer or is on its way had come or was on its way, or
\* a supplier has just sent it.
LEMMA HeardBefore ==
    ASSUME IInv, [Next]_vars, ~QueryHandled, NEW m \in Heard'
    PROVE  \/ m \in Heard \cup {Off, Asked}
           \/ \E a \in Agents :
                serving[a] # None /\ Says(m, a, serving[a].query, serving[a].hash)
<1>1. CASE \E i \in DOMAIN queue'[BuyerNode] : m = queue'[BuyerNode][i]
  BY <1>1, BuyerMessages DEF Heard, QueryHandled
<1>2. CASE m \in buffer' \/ (pc' \in Paying /\ m = got')
  BY <1>2, BuyerKeeps
<1>3. CASE (\E q \in Calls : m = tick'[q]) \/ (\E i \in DOMAIN bids' : m = bids'[i])
  <2>1. ASSUME NEW w \in Wants, StartQuery(w[1], w[2])
        PROVE  m \in Heard
    <3>1. UNCHANGED tick /\ bids' = <<>>
      BY <2>1 DEF StartQuery
    <3> QED
      BY <1>3, <3>1 DEF Heard
  <2>2. CASE query' = query
    BY <1>3, <2>2, BuyerFetches DEF Heard
  <2>3. (\A w \in Wants : ~StartQuery(w[1], w[2])) => query' = query
    BY CallKept
  <2> QED
    BY <2>1, <2>2, <2>3
<1> QED
  BY <1>1, <1>2, <1>3 DEF Heard

\* Which receipts a step may show: those shown before, and the one an agent has
\* come by for a query at the head of its node's queue.
LEMMA ShownWhenBid ==
    ASSUME IInv, NEW a \in Agents, NEW g \in HashSet, NEW o \in Outcomes, HandleQuery(a, g, o),
           NEW b \in Agents, NEW q, NEW h \in HashSet, Shown(b, q, h)'
    PROVE  Shown(b, q, h) \/ (b = a /\ h = g /\ q = Next1(a).query)
<1>1. Plain /\ Queues /\ Suppliers
  BY DEF IInv
<1> DEFINE x == [type |-> "bid", query |-> Next1(a).query, from |-> NodeOf[a],
                 agent |-> a, price |-> Price[a], hash |-> g]
<1>2. /\ Gets(a, "query") /\ g \in Offers[a][Next1(a).prompt]
      /\ queue' = [Took(NodeOf[a]) EXCEPT ![BuyerNode] = IF o.done THEN Append(@, x) ELSE @]
      /\ UNCHANGED <<buyerVars, inflight, serving>>
      /\ bidding' = [bidding EXCEPT ![a] = IF o.error THEN {} ELSE {Note(a, Next1(a), g)}]
  BY DEF HandleQuery
<1>3. \A r, k : Says(x, b, r, k) => b = a /\ k = g /\ r = Next1(a).query
  BY DEF Says
<1> HIDE DEF x
<1>4. ASSUME NEW m \in Heard', m # x PROVE m \in Heard
  <2> DEFINE S == ToBuyer
  <2> HIDE DEF S
  <2>1. queue[BuyerNode] \in Seq(S)
    BY <1>1 DEF Queues, S
  <2>2. queue'[BuyerNode] = IF o.done THEN Append(queue[BuyerNode], x) ELSE queue[BuyerNode]
    BY <1>1, <1>2, MarketAssumption DEF Queues, Took
  <2>3. ASSUME NEW i \in DOMAIN queue'[BuyerNode], m = queue'[BuyerNode][i]
        PROVE  \E j \in DOMAIN queue[BuyerNode] : m = queue[BuyerNode][j]
    <3> DEFINE T == S \cup {x}
    <3>1. queue[BuyerNode] \in Seq(T) /\ x \in T
      BY <2>1, SeqMonotonic
    <3> HIDE DEF T
    <3> QED
      BY <1>4, <2>2, <2>3, <3>1, AppendPlaces
  <2> QED
    BY <1>2, <1>4, <2>3 DEF Heard, buyerVars
<1>5. CASE \E m \in Heard' : Says(m, b, q, h)
  BY <1>3, <1>4, <1>5 DEF Shown
<1>6. ASSUME NEW e \in inflight'[b] \cup bidding'[b], e.query = q, h \in ReceiptOf(b, e),
             e \notin inflight[b] \cup bidding[b]
      PROVE  b = a /\ h = g /\ q = Next1(a).query
  <2>1. b = a /\ e = Note(a, Next1(a), g)
    BY <1>1, <1>2, <1>6 DEF Suppliers
  <2>2. e.query = Next1(a).query /\ e.prompt = Next1(a).prompt /\ (a \notin Caches => e.hash = g)
    BY <2>1 DEF Note
  <2>3. Next1(a).prompt \in Prompts
    <3>1. Next1(a) \in Message /\ Next1(a).type = "query"
      BY <1>1, <1>2, Taken DEF Gets
    <3> QED
      BY <3>1, MessageKinds
  <2>4. CASE a \in Caches
    BY <1>2, <1>6, <2>1, <2>2, <2>3, <2>4, MarketAssumption DEF ReceiptOf
  <2>5. CASE a \notin Caches
    BY <1>6, <2>1, <2>2, <2>5 DEF ReceiptOf
  <2> QED
    BY <2>1, <1>6, <2>2, <2>4, <2>5
<1>7. CASE Holding(b, q, h)'
  BY <1>2, <1>6, <1>7 DEF Holding, Shown
<1> QED
  BY <1>5, <1>7 DEF Shown

LEMMA ShownBefore ==
    ASSUME IInv, [Next]_vars, NEW a \in Agents, NEW q, NEW h \in HashSet,
           Shown(a, q, h)'
    PROVE  \/ Shown(a, q, h)
           \/ \E o \in Outcomes : HandleQuery(a, h, o) /\ Next1(a).query = q
<1>1. CASE QueryHandled
  <2>1. PICK b \in Agents, g \in HashSet, o \in Outcomes : HandleQuery(b, g, o)
    BY <1>1 DEF QueryHandled
  <2>2. Shown(a, q, h) \/ (a = b /\ h = g /\ q = Next1(b).query)
    BY <2>1, ShownWhenBid
  <2> QED
    BY <2>1, <2>2
<1>2. ASSUME ~QueryHandled, NEW m \in Heard', Says(m, a, q, h) PROVE Shown(a, q, h)
  <2>1. m \notin {Off, Asked}
    BY <1>2 DEF Says, Off, Asked
  <2>2. CASE m \in Heard
    BY <1>2, <2>2 DEF Shown
  <2>3. CASE \E b \in Agents :
               serving[b] # None /\ Says(m, b, serving[b].query, serving[b].hash)
    BY <1>2, <2>3 DEF Says, Shown, Holding
  <2> QED
    BY <1>2, <2>1, <2>2, <2>3, HeardBefore
<1>3. ASSUME ~QueryHandled, Holding(a, q, h)' PROVE Holding(a, q, h)
  <2>1. CASE \E e \in inflight'[a] \cup bidding'[a] : e.query = q /\ h \in ReceiptOf(a, e)
    BY <1>3, <2>1, NotesBefore DEF Holding
  <2>2. CASE serving'[a] # None /\ serving'[a].query = q /\ serving'[a].hash = h
    BY <2>2, ServingBefore DEF Holding, Entries
  <2> QED
    BY <1>3, <2>1, <2>2 DEF Holding
<1> QED
  BY <1>1, <1>2, <1>3 DEF Shown

\* A receipt that shows is of a call that was made.
LEMMA ShownQueries ==
    ASSUME IInv, NEW a \in Agents, NEW q, NEW h \in HashSet, Shown(a, q, h)
    PROVE  q <= query
<1>1. CASE Holding(a, q, h)
  <2>1. Suppliers
    BY DEF IInv
  <2>2. serving[a] # None => serving[a].query <= query
    BY <2>1, ServiceTypes DEF ForTheWinner
  <2>3. \A e \in inflight[a] \cup bidding[a] : e.query <= query
    BY <2>1 DEF Suppliers
  <2> QED
    BY <1>1, <2>2, <2>3 DEF Holding
<1>2. ASSUME NEW m \in Heard, Says(m, a, q, h) PROVE q <= query
  <2>1. Window /\ Fetched /\ Plain
    BY DEF IInv
  <2>2. m.query = q /\ m \notin {Off, Asked}
    BY <1>2 DEF Says, Off, Asked
  <2>3. CASE m \in ToBuyer
    BY <2>2, <2>3, ToBuyerQueries
  <2>4. ASSUME NEW i \in DOMAIN bids, m = bids[i] PROVE q <= query
    BY <2>1, <2>2, <2>4, BidAgents DEF Bids
  <2>5. CASE pc \in Paying /\ m = got
    BY <2>1, <2>2, <2>5 DEF Plain, Deliveries, ForTheWinner
  <2>6. m \in buffer \/ (\E c \in Calls : m = tick[c]) => m \in ToBuyer
    BY <2>1, <2>2 DEF Fetched
  <2> QED
    BY <1>2, <2>3, <2>4, <2>5, <2>6, ToBuyerQueries DEF Heard
<1> QED
  BY <1>1, <1>2 DEF Shown

\* A query taken off a queue was waiting in it, and no other of its call.
LEMMA QueryTaken ==
    ASSUME IInv, OneQueryPerCall,
           NEW a \in Agents, NEW g \in HashSet, NEW o \in Outcomes, HandleQuery(a, g, o),
           NEW n \in Nodes, n = NodeOf[a], NEW r, r = Next1(a).query
    PROVE  Waits(n, r) /\ ~Waits(n, r)'
<1>1. Queues
  BY DEF IInv
<1>2. Gets(a, "query") /\ NodeOf[a] \in Nodes /\ queue[NodeOf[a]] # <<>>
  BY MarketAssumption DEF HandleQuery, Gets
<1>3. PICK v : queue' = [Took(NodeOf[a]) EXCEPT ![BuyerNode] = v]
  BY DEF HandleQuery
<1>4. TookFrom(NodeOf[a])
  BY <1>1, <1>2, <1>3, MarketAssumption DEF Queues, Took, TookFrom
<1>5. Holds(n, 1, "query") /\ queue[n][1].query = r
  <2> DEFINE S == ToNode(n)
  <2> HIDE DEF S
  <2>1. queue[n] \in Seq(S) /\ queue[n] # <<>>
    BY <1>1, <1>2 DEF Queues, S
  <2>2. 1 \in DOMAIN queue[n] /\ queue[n][1] = Next1(a)
    BY <2>1, EmptySeq, LenProperties DEF Next1
  <2> QED
    BY <1>2, <2>2 DEF Holds, Gets
<1>6. ASSUME NEW i \in DOMAIN queue'[n], NEW m, m = queue'[n][i], m.type = "query", m.query = r
      PROVE  FALSE
  <2>1. PICK e \in DOMAIN queue[n] : m = queue[n][e] /\ e # 1
    BY <1>1, <1>2, <1>4, <1>6, HeadTaken
  <2>2. Holds(n, e, "query") /\ queue[n][e].query = r
    BY <1>6, <2>1 DEF Holds
  <2> QED
    BY <1>5, <2>1, <2>2 DEF OneQueryPerCall, Holds
<1>7. Waits(n, r)
  BY <1>5 DEF Waits, Holds
<1>8. ~Waits(n, r)'
  BY <1>6 DEF Waits, Holds
<1> QED
  BY <1>7, <1>8

\* A query comes into a queue when it is sent.
LEMMA WaitsBefore ==
    ASSUME IInv, [Next]_vars, NEW n \in Nodes, NEW q, Waits(n, q)'
    PROVE  \/ Waits(n, q)
           \/ \E p \in Listed, o \in Outcomes : SendQuery(p, o) /\ n = p[1] /\ q = query
<1>1. Queues /\ Grown
  BY MessagesKeep DEF IInv
<1>2. PICK m : \E i \in DOMAIN queue'[n] : m = queue'[n][i] /\ m.type = "query" /\ m.query = q
  BY DEF Waits, Holds
<1>3. ASSUME NEW j \in DOMAIN queue[n], m = queue[n][j] PROVE Waits(n, q)
  BY <1>2, <1>3 DEF Waits, Holds
<1>4. ASSUME NEW k \in Nodes \cup {BuyerNode}, TookFrom(k) PROVE Waits(n, q)
  BY <1>1, <1>2, <1>3, <1>4, PlacesBefore
<1>5. ASSUME NEW p \in Listed, NEW o \in Outcomes, SendQuery(p, o)
      PROVE  Waits(n, q) \/ (n = p[1] /\ q = query)
  <2> DEFINE x == [type |-> "query", query |-> query, from |-> BuyerNode,
                   prompt |-> prompt]
  <2>1. queue' = Sent(o, p[1], x) /\ x.query = query /\ x \in ToNode(p[1])'
    BY <1>5, QuerySent DEF SendQuery
  <2> HIDE DEF x
  <2> QED
    BY <1>1, <1>2, <1>3, <2>1, SentPlaces
<1>6. ASSUME NEW o \in Outcomes, SendAccept(o) PROVE Waits(n, q)
  <2> DEFINE x == [type |-> "accept", query |-> query, from |-> BuyerNode,
                   agent |-> winner, tier2 |-> tier2]
  <2>1. PICK t \in Nodes : t = peers[winner] /\ x \in ToNode(t)'
    BY <1>6, AcceptToWinner
  <2>2. queue' = Sent(o, t, x) /\ x.type = "accept"
    BY <1>6, <2>1 DEF SendAccept
  <2> HIDE DEF x
  <2> QED
    BY <1>1, <1>2, <1>3, <2>1, <2>2, SentPlaces
<1> QED
  BY <1>4, <1>5, <1>6, NodeQueues

LEMMA OneQueryNext ==
    ASSUME IInv, Receipted, [Next]_vars
    PROVE  OneQueryPerCall'
<1>1. Queues /\ Grown
  BY MessagesKeep DEF IInv
<1> SUFFICES ASSUME NEW n \in Nodes, NEW i \in DOMAIN queue'[n], NEW j \in DOMAIN queue'[n],
                    queue'[n][i].type = "query", queue'[n][j].type = "query",
                    queue'[n][i].query = queue'[n][j].query
             PROVE  i = j
  BY DEF OneQueryPerCall, Holds
<1>2. ASSUME i \in DOMAIN queue[n], j \in DOMAIN queue[n],
             queue'[n][i] = queue[n][i], queue'[n][j] = queue[n][j]
      PROVE  i = j
  BY <1>2 DEF Receipted, OneQueryPerCall, Holds
<1>3. ASSUME NEW k \in Nodes \cup {BuyerNode}, TookFrom(k) PROVE i = j
  <2> DEFINE c == PlaceBefore(k, n, i)  d == PlaceBefore(k, n, j)
  <2>1. /\ i \in Nat /\ j \in Nat
        /\ c \in DOMAIN queue[n] /\ queue'[n][i] = queue[n][c]
        /\ d \in DOMAIN queue[n] /\ queue'[n][j] = queue[n][d]
    BY <1>1, <1>3, PlacesBefore
  <2> HIDE DEF c, d
  <2>2. c = d
    BY <2>1 DEF Receipted, OneQueryPerCall, Holds
  <2> QED
    BY <2>1, <2>2 DEF c, d, PlaceBefore
<1>4. ASSUME NEW t, NEW x, NEW o, queue' = Sent(o, t, x), t \in Nodes => x \in ToNode(t)',
             x.type = "query" /\ t \in Nodes => ~Waits(t, x.query)
      PROVE  i = j
  <2>1. ASSUME NEW e \in DOMAIN queue'[n]
        PROVE  \/ e \in DOMAIN queue[n] /\ queue'[n][e] = queue[n][e]
               \/ n = t /\ e = Len(queue[t]) + 1 /\ queue'[n][e] = x
    BY <1>1, <1>4, SentPlaces
  <2>2. ASSUME NEW e \in DOMAIN queue[n], queue[n][e].type = "query", n = t, x.type = "query"
        PROVE  queue[n][e].query # x.query
    BY <1>4, <2>2 DEF Waits, Holds
  <2> QED
    BY <1>2, <2>1, <2>2
<1>5. ASSUME NEW p \in Listed, NEW o \in Outcomes, SendQuery(p, o) PROVE i = j
  <2> DEFINE x == [type |-> "query", query |-> query, from |-> BuyerNode,
                   prompt |-> prompt]
  <2>1. queue' = Sent(o, p[1], x) /\ x.query = query /\ x \in ToNode(p[1])' /\ p \in unsent
    BY <1>5, QuerySent DEF SendQuery
  <2>2. ~Waits(p[1], query)
    BY <2>1 DEF Receipted, QueriesFirst
  <2> HIDE DEF x
  <2> QED
    BY <1>4, <2>1, <2>2
<1>6. ASSUME NEW o \in Outcomes, SendAccept(o) PROVE i = j
  <2> DEFINE x == [type |-> "accept", query |-> query, from |-> BuyerNode,
                   agent |-> winner, tier2 |-> tier2]
  <2>1. PICK t \in Nodes : t = peers[winner] /\ x \in ToNode(t)'
    BY <1>6, AcceptToWinner
  <2>2. queue' = Sent(o, t, x) /\ x.type = "accept"
    BY <1>6, <2>1 DEF SendAccept
  <2> HIDE DEF x
  <2> QED
    BY <1>4, <2>1, <2>2
<1> QED
  BY <1>3, <1>5, <1>6, NodeQueues

\* A query in a queue is of a call that was made.
LEMMA QueryInQueue ==
    ASSUME Queues, NEW n \in Nodes, NEW i \in DOMAIN queue[n], queue[n][i].type = "query"
    PROVE  queue[n][i].query \in Nat /\ queue[n][i].query <= query
<1> DEFINE S == ToNode(n)
<1> HIDE DEF S
<1>1. queue[n] \in Seq(S)
  BY DEF Queues, S
<1>2. queue[n][i] \in S
  BY <1>1, ElementOfSeq, LenProperties
<1> QED
  BY <1>2, MessageKinds DEF S, ToNode, Queries, Accepts, Calls

LEMMA QueriesFirstNext ==
    ASSUME \A n \in Nodes : Links[n] = 1, IInv, Receipted, [Next]_vars
    PROVE  QueriesFirst'
<1>1. Plain /\ Queues /\ OneQueryPerCall /\ QueriesFirst
  BY DEF IInv, Receipted
\* A receipt that shows was shown before, or its query was waiting and is gone.
<1>2. ASSUME NEW n \in Nodes, NEW q, Silent(n, q),
             Waits(n, q)' \/ ~Waits(n, q)
      PROVE  Silent(n, q)'
  <2> SUFFICES ASSUME NEW a \in Agents, NEW h \in HashSet, NodeOf[a] = n, Shown(a, q, h)'
               PROVE  FALSE
    BY DEF Silent
  <2>1. PICK o \in Outcomes : HandleQuery(a, h, o) /\ Next1(a).query = q
    BY <1>2, ShownBefore DEF Silent
  <2>2. Waits(n, q) /\ ~Waits(n, q)'
    BY <1>1, <2>1, QueryTaken
  <2> QED
    BY <1>2, <2>2
<1>3. ASSUME NEW n \in Nodes, NEW q \in Calls, Waits(n, q)'
      PROVE  Silent(n, q)'
  <2>1. CASE Waits(n, q)
    BY <1>1, <1>2, <1>3, <2>1 DEF QueriesFirst
  <2>2. CASE \E p \in Listed, o \in Outcomes : SendQuery(p, o) /\ n = p[1] /\ q = query
    <3>1. Silent(n, q)
      BY <1>1, <2>2 DEF SendQuery, QueriesFirst
    <3> QED
      BY <1>2, <1>3, <3>1
  <2> QED
    BY <1>3, <2>1, <2>2, WaitsBefore
<1>4. ASSUME NEW p \in unsent', NEW q, q = query'
      PROVE  ~Waits(p[1], q)' /\ Silent(p[1], q)'
  <2>1. CASE \E w \in Wants : StartQuery(w[1], w[2])
    <3>1. /\ query \in Nat /\ q = query + 1
          /\ unsent' = Listed /\ UNCHANGED queue
      BY <1>1, <1>4, <2>1, MarketAssumption DEF StartQuery, Plain
    <3>2. p[1] \in Nodes
      BY <1>4, <3>1 DEF Listed
    <3>3. ~Waits(p[1], q)
      BY <1>1, <3>1, <3>2, QueryInQueue DEF Waits, Holds
    <3>4. ~Waits(p[1], q)'
      BY <3>1, <3>3 DEF Waits, Holds
    <3>5. Silent(p[1], q)
      BY <3>1, ShownQueries DEF Silent
    <3> QED
      BY <1>2, <3>1, <3>2, <3>3, <3>4, <3>5
  <2>2. CASE \A w \in Wants : ~StartQuery(w[1], w[2])
    <3>1. q = query /\ p \in unsent
      BY <1>4, <2>2, CallKept
    <3>2. p \in Listed /\ p[1] \in Nodes /\ ~Waits(p[1], q) /\ Silent(p[1], q)
      BY <1>1, <3>1 DEF QueriesFirst, Plain, Listed
    <3>3. ASSUME NEW r \in Listed, NEW o \in Outcomes, SendQuery(r, o), p[1] = r[1]
          PROVE  FALSE
      <4>1. p = r
        BY <3>2, <3>3 DEF Listed
      <4> QED
        BY <1>4, <3>3, <4>1 DEF SendQuery
    <3>4. ~Waits(p[1], q)'
      BY <3>1, <3>2, <3>3, WaitsBefore
    <3> QED
      BY <1>2, <3>2, <3>4
  <2> QED
    BY <2>1, <2>2
<1>5. \A p \in unsent' : ~Waits(p[1], query)' /\ Silent(p[1], query)'
  BY <1>4
<1> QED
  BY <1>3, <1>4 DEF QueriesFirst

LEMMA OneReceiptNext ==
    ASSUME IInv, Receipted, [Next]_vars
    PROVE  OneReceipt'
<1>1. OneQueryPerCall /\ QueriesFirst /\ OneReceipt
  BY DEF Receipted
<1>2. ASSUME NEW a \in Agents, NEW q \in Calls, NEW g \in HashSet, NEW h \in HashSet,
             Shown(a, q, g)', Shown(a, q, h)', ~Shown(a, q, g)
      PROVE  h = g
  <2>1. PICK o \in Outcomes : HandleQuery(a, g, o) /\ Next1(a).query = q
    BY <1>2, ShownBefore
  <2>2. Silent(NodeOf[a], q)
    BY <1>1, <2>1, QueryTaken, MarketAssumption DEF QueriesFirst
  <2>3. ~Shown(a, q, h)
    BY <2>2 DEF Silent
  <2> QED
    BY <1>2, <2>1, <2>3, ShownWhenBid
<1>3. ASSUME NEW a \in Agents, NEW q \in Calls, NEW g \in HashSet, NEW h \in HashSet,
             Shown(a, q, g)', Shown(a, q, h)'
      PROVE  g = h
  BY <1>1, <1>2, <1>3 DEF OneReceipt
<1> QED
  BY <1>3 DEF OneReceipt

LEMMA ReceiptedInit == Init => Receipted
<1> SUFFICES ASSUME Init PROVE Receipted
  OBVIOUS
<1>1. \A n \in Nodes : queue[n] = <<>>
  BY DEF Init
<1>2. /\ queue[BuyerNode] = <<>> /\ bids = <<>> /\ buffer = {} /\ pc \notin Paying
      /\ \A q \in Calls : tick[q] = Off
  BY MarketAssumption DEF Init, Paying
<1>3. ASSUME NEW m \in Heard PROVE m = Off
  BY <1>2 DEF Heard
<1>4. ASSUME NEW a \in Agents, NEW q, NEW h PROVE ~Shown(a, q, h)
  <2>1. inflight[a] = {} /\ bidding[a] = {} /\ serving[a] = None
    BY DEF Init
  <2> QED
    BY <1>3, <2>1 DEF Shown, Holding, Says, Off
<1> QED
  BY <1>1, <1>4 DEF Init, Receipted, OneQueryPerCall, QueriesFirst, OneReceipt, Silent, Waits, Holds

LEMMA ReceiptedInvariance ==
    ASSUME \A n \in Nodes : Links[n] = 1
    PROVE  Spec => []Receipted
<1>1. IInv /\ Receipted /\ [Next]_vars => Receipted'
  BY OneQueryNext, QueriesFirstNext, OneReceiptNext DEF Receipted
<1> QED
  BY <1>1, ReceiptedInit, Invariance, PTL DEF Spec

-----------------------------------------------------------------------------
(* Theorems.                                                               *)

\* Every variable has its type, for any agents, nodes, calls and faults.
THEOREM TypeCorrect == Spec => []TypeOK
<1>1. ASSUME IInv PROVE TypeOK
  <2>1. \A i \in DOMAIN bids : bids[i] \in Message
    BY <1>1, BidAgents DEF IInv, Bids
  <2>2. ToBuyer \subseteq Message /\ \A n : ToNode(n) \subseteq Message
    BY DEF ToBuyer, ToNode, Bids, Deliveries, Queries, Accepts
  <2>3. ASSUME NEW n \in Nodes \cup {BuyerNode} PROVE queue[n] \in Seq(Message)
    <3>1. queue[n] \in Seq(Contents(n)) /\ Contents(n) \subseteq Message
      BY <1>1, <2>2, QueuesByContents DEF IInv, Contents
    <3> HIDE DEF Contents
    <3> QED
      BY <3>1, SeqMonotonic
  <2>4. buffer \subseteq Message /\ \A q \in Calls : tick[q] \in {Off, Asked} \/ tick[q] \in Message
    BY <1>1, <2>2 DEF IInv, Fetched
  <2> QED
    BY <1>1, <2>1, <2>3, <2>4 DEF IInv, Plain, Window, Suppliers, Trades, TypeOK
<1> QED
  BY <1>1, Invariance, PTL

\* If the topology lists every node once, the receipt the buyer pays for is the
\* one the winner's bid committed to, whatever receipts the provers give, and
\* whatever is lost or restarted.  (An agent asked twice in a call may bid with
\* one receipt and deliver another.)
THEOREM WinnerDelivers ==
    ASSUME \A n \in Nodes : Links[n] = 1
    PROVE  Spec => []DeliveryHonoursBid
<1>1. ASSUME IInv, Receipted, pc \in Paying
      PROVE  /\ got.query = query
             /\ got.agent = Cheapest(bids).agent
             /\ got.hash = Cheapest(bids).hash
  <2>1. Plain /\ Window
    BY <1>1 DEF IInv
  <2>2. Eligible(bids) # {} /\ winner = Cheapest(bids).agent
    BY <1>1, <2>1 DEF Window
  <2>3. PICK i \in DOMAIN bids : Cheapest(bids) = bids[i]
    BY <2>1, <2>2, WinnerBid
  <2>4. /\ bids[i] \in Message /\ bids[i].type = "bid" /\ bids[i].query = query
        /\ bids[i].agent = winner /\ winner \in Agents
    BY <2>1, <2>2, <2>3, BidAgents DEF Bids
  <2>5. /\ got \in Message /\ got.type = "deliver" /\ got.query = query /\ got.agent = winner
    BY <1>1, <2>1 DEF Plain, Deliveries, ForTheWinner
  <2>6. query \in Calls /\ bids[i].hash \in HashSet /\ got.hash \in HashSet
    BY <2>4, <2>5, MessageKinds
  <2>7. Shown(winner, query, bids[i].hash) /\ Shown(winner, query, got.hash)
    BY <1>1, <2>4, <2>5 DEF Shown, Heard, Says
  <2>8. got.hash = bids[i].hash
    BY <1>1, <2>4, <2>6, <2>7 DEF Receipted, OneReceipt
  <2> QED
    BY <2>2, <2>3, <2>5, <2>8
<1>2. IInv /\ Receipted => DeliveryHonoursBid
  BY <1>1 DEF DeliveryHonoursBid, Paying
<1> QED
  BY <1>2, Invariance, ReceiptedInvariance, PTL

\* No deliver that is short of an attestation exists anywhere.
THEOREM DeliversAreComplete == Spec => []BothOrNothing
<1>1. ASSUME IInv, NEW m \in Delivers PROVE m \in Deliveries
  <2>1. m \in Wherever /\ m.type = "deliver"
    BY DEF Delivers
  <2>2. CASE m \in buffer \cup ({tick[q] : q \in Calls} \ {Off, Asked})
    BY <1>1, <2>1, <2>2 DEF IInv, Fetched, ToBuyer, Bids
  <2>3. ASSUME NEW n \in Nodes \cup {BuyerNode}, m \in {queue[n][i] : i \in DOMAIN queue[n]}
        PROVE  m \in Deliveries
    <3>1. m \in Contents(n)
      <4> DEFINE S == Contents(n)
      <4> HIDE DEF S
      <4>1. queue[n] \in Seq(S)
        BY <1>1, QueuesByContents DEF IInv, S
      <4>2. m \in S
        BY <2>3, <4>1, ElementOfSeq, LenProperties
      <4> QED
        BY <4>2 DEF S
    <3> QED
      BY <2>1, <3>1 DEF Contents, ToNode, ToBuyer, Queries, Bids, Accepts
  <2> QED
    BY <2>1, <2>2, <2>3 DEF Wherever
<1>2. IInv => BothOrNothing
  BY <1>1 DEF BothOrNothing, Deliveries
<1> QED
  BY <1>2, Invariance, PTL

\* A call that returned has its tiers settled, and only a call that came to
\* pay has a trade.
THEOREM ReturnsSettled == Spec => []ReturnMeansSettled
<1>1. IInv => ReturnMeansSettled
  BY DEF IInv, Trades, ReturnMeansSettled
<1> QED
  BY <1>1, Invariance, PTL

\* When every node hosts one agent, an accept is taken by the agent it names.
THEOREM OneAgentPerNode ==
    ASSUME \A a, b \in Agents : NodeOf[a] = NodeOf[b] => a = b
    PROVE  Spec => AcceptReachesAddressee
<1>1. ASSUME IInv, NEW a \in Agents, AcceptUnknown(a) \/ AcceptLost(a)
      PROVE  Next1(a).agent = a
  <2>1. Gets(a, "accept")
    BY <1>1 DEF AcceptUnknown, AcceptLost
  <2>2. /\ Next1(a) \in Accepts /\ Next1(a) \in Message
        /\ NodeOf[Next1(a).agent] = NodeOf[a]
    BY <1>1, <2>1, Taken DEF IInv
  <2>3. Next1(a).agent \in Agents
    BY <2>2, MessageKinds DEF Accepts
  <2> QED
    BY <2>2, <2>3
<1>2. IInv => [\A a \in Agents : AcceptUnknown(a) \/ AcceptLost(a) => Next1(a).agent = a]_vars
  BY <1>1
<1> QED
  BY <1>2, Invariance, PTL DEF AcceptReachesAddressee

\* If nothing failed and nobody restarted, a supplier that is sent an accept
\* still knows the query, however the messages and handlers interleave.
THEOREM AcceptsFindContext == Spec => AcceptFindsContext
<1>1. ASSUME IInv, Known, [Next]_vars, NEW a \in Agents,
             AcceptUnknown(a), Next1(a).agent = a
      PROVE  faults > 0
  <2>1. Plain /\ Queues /\ Suppliers
    BY <1>1 DEF IInv
  <2>2. /\ Gets(a, "accept") /\ bidding[a] = {} /\ Entries(a, Next1(a).query) = {}
        /\ NodeOf[a] \in Nodes
    BY <1>1, MarketAssumption DEF AcceptUnknown, Gets, Idle
  <2>3. ~Knows(a, Next1(a).query)
    BY <2>2 DEF Knows, Entries
  <2>4. Holds(NodeOf[a], 1, "accept") /\ queue[NodeOf[a]][1] = Next1(a)
    <3> DEFINE S == ToNode(NodeOf[a])
    <3> HIDE DEF S
    <3>1. queue[NodeOf[a]] \in Seq(S) /\ queue[NodeOf[a]] # <<>>
      BY <2>1, <2>2 DEF Queues, S, Gets
    <3>2. 1 \in DOMAIN queue[NodeOf[a]] /\ queue[NodeOf[a]][1] = Next1(a)
      BY <3>1, EmptySeq, LenProperties DEF Next1
    <3> QED
      BY <2>2, <3>2 DEF Holds, Gets
  <2>5. faults # 0
    BY <1>1, <2>2, <2>3, <2>4 DEF Known, AcceptsKnown, Holds
  <2> QED
    BY <2>1, <2>5 DEF Plain
<1>2. IInv /\ Known /\ [Next]_vars =>
          [\A a \in Agents : AcceptUnknown(a) /\ Next1(a).agent = a => faults > 0]_vars
  BY <1>1
<1> QED
  BY <1>2, Invariance, KnownInvariance, PTL DEF AcceptFindsContext, Spec
=============================================================================
