-------------------------- MODULE BidWindowProofs --------------------------
(***************************************************************************)
(* Proofs about the bid window, for ids of any width, any number of nodes, *)
(* agents, bids and calls.  What the address book rests on is that every   *)
(* address it holds begins like the key of one node (AddressesOwned); what *)
(* the choice returns is BidChoiceProofs.                                  *)
(***************************************************************************)
EXTENDS BidWindow, BidChoiceProofs

-----------------------------------------------------------------------------
(* Ids.                                                                    *)

LEMMA CommonIsFirstDifference ==
    ASSUME NEW a \in Id, NEW b \in Id, a # b
    PROVE  /\ Common(a, b) \in 0 .. Width - 1
           /\ Agree(a, b, Common(a, b))
           /\ a[Common(a, b) + 1] # b[Common(a, b) + 1]
<1> DEFINE D == {i \in 1 .. Width : a[i] # b[i]}
<1>1. D # {}
  <2>1. a = [i \in 1 .. Width |-> a[i]] /\ b = [i \in 1 .. Width |-> b[i]]
    BY DEF Id
  <2>2. \E i \in 1 .. Width : a[i] # b[i]
    BY <2>1, a # b
  <2> QED
    BY <2>2
<1>2. D \in SUBSET Nat
  OBVIOUS
<1> HIDE DEF D
<1>3. PICK d \in D : \A i \in D : d <= i
  BY <1>1, <1>2, LeastNatural
<1> USE DEF D
<1>4. d - 1 \in 0 .. Width - 1 /\ a[(d - 1) + 1] # b[(d - 1) + 1] /\ Agree(a, b, d - 1)
  BY <1>3, PeerIdAssumption DEF Agree
<1>5. \E n \in 0 .. Width - 1 : Agree(a, b, n) /\ a[n + 1] # b[n + 1]
  BY <1>4
<1> QED
  BY <1>5 DEF Common

LEMMA MatchesAgree ==
    ASSUME NEW a \in Id, NEW b \in Id, peerIdMatches(a, b)
    PROVE  Agree(a, b, MinPrefix)
<1>1. CASE a = b
  BY <1>1 DEF Agree
<1>2. CASE a # b
  BY <1>2, CommonIsFirstDifference, PeerIdAssumption
  DEF peerIdMatches, LongEnough, Agree
<1> QED
  BY <1>1, <1>2

LEMMA RoutingIdsMatch ==
    ASSUME NEW key \in Id, NEW a \in RoutingIds(key)
    PROVE  /\ a \in Id
           /\ Agree(a, key, MinPrefix)
           /\ peerIdMatches(a, key)
<1>1. a \in Id
  BY DEF RoutingIds
<1>2. CASE a = key
  BY <1>1, <1>2 DEF Agree, peerIdMatches
<1>3. CASE a # key
  <2>1. PICK n \in MinPrefix .. Width - 1 :
            /\ Agree(a, key, n)
            /\ Filled(a, n + 1) \/ (n + 2 <= Width /\ Filled(a, n + 2))
    BY <1>3 DEF RoutingIds
  <2> DEFINE c == Common(a, key)
  <2>2. c \in 0 .. Width - 1 /\ a[c + 1] # key[c + 1]
    BY <1>1, <1>3, CommonIsFirstDifference
  <2> HIDE DEF c
  <2>3. n \in Nat /\ MinPrefix \in Nat /\ Width \in Nat
    BY PeerIdAssumption
  <2>4. n <= c
    BY <2>1, <2>2, <2>3 DEF Agree
  <2>5. OnlyPadding(a, c)
    <3>1. CASE Filled(a, n + 1)
      BY <2>2, <2>3, <2>4, <3>1 DEF OnlyPadding, Filled
    <3>2. CASE n + 2 <= Width /\ Filled(a, n + 2)
      BY <2>2, <2>3, <2>4, <3>2 DEF OnlyPadding, Filled
    <3> QED
      BY <2>1, <3>1, <3>2
  <2>6. LongEnough(c)
    BY <2>1, <2>2, <2>3, <2>4 DEF LongEnough
  <2>7. peerIdMatches(a, key)
    BY <2>5, <2>6 DEF c, peerIdMatches
  <2> QED
    BY <1>1, <2>7, MatchesAgree
<1> QED
  BY <1>2, <1>3

\* An id that keeps all its digits is its own prefix.
LEMMA StrippedId ==
    ASSUME NEW a \in Id, routingPrefix(a) \in Id
    PROVE  routingPrefix(a) = a
<1> DEFINE n == CHOOSE n \in 0 .. Width : Filled(a, n + 1) /\ (n > 0 => a[n] # F)
<1>1. routingPrefix(a) = [i \in 1 .. n |-> a[i]]
  BY DEF routingPrefix
<1> HIDE DEF n
<1>2. 1 .. n = 1 .. Width
  BY <1>1 DEF Id
<1> QED
  BY <1>1, <1>2 DEF Id

LEMMA KeysAreIds ==
    ASSUME NEW n \in Nodes
    PROVE  KeyOf[n] \in Id
BY KeysDiffer

\* The first digits of a key tell its node.
LEMMA OneNode ==
    ASSUME NEW a, NEW m \in Nodes, NEW n \in Nodes,
           Agree(a, KeyOf[m], MinPrefix), Agree(a, KeyOf[n], MinPrefix)
    PROVE  m = n
BY KeysDiffer DEF Agree

-----------------------------------------------------------------------------
(* The address book.                                                       *)

\* Every address is one node's, in full unless the node is a stranger, and an
\* id is filed with an address that begins like itself.
AddressesOwned ==
    \A k \in DOMAIN byRoutingId :
        /\ byRoutingId[k] \in Id
        /\ \E n \in Nodes :
               /\ Agree(byRoutingId[k], KeyOf[n], MinPrefix)
               /\ byRoutingId[k] = KeyOf[n] \/ n \in strangers
        /\ k \in Id => Agree(k, byRoutingId[k], MinPrefix)

SeenFiled ==
    \A n \in seen : /\ n \in Nodes
                    /\ KeyOf[n] \in DOMAIN byRoutingId
                    /\ byRoutingId[KeyOf[n]] = KeyOf[n]

AgentsHome ==
    /\ DOMAIN from = DOMAIN byAgentId
    /\ \A a \in DOMAIN byAgentId :
           /\ from[a] \in Nodes
           /\ Agree(byAgentId[a], KeyOf[from[a]], MinPrefix)
           /\ from[a] \notin strangers => byAgentId[a] = KeyOf[from[a]]

\* The latest bid of an agent that has bid in this window is one of this window,
\* or was filed meanwhile by the last tick of an earlier one.
BidsFiled ==
    /\ bs \in Seq([agent : Agents, node : Nodes, hash : HashSet, price : 1 .. MaxPrice])
    /\ \A i \in DOMAIN bs :
           /\ bs[i].agent \in DOMAIN from
           /\ \/ \E k \in DOMAIN bs :
                     /\ bs[k].agent = bs[i].agent
                     /\ bs[k].node = from[bs[i].agent]
              \/ <<bs[i].agent, from[bs[i].agent]>> \in strays

IInv == AddressesOwned /\ SeenFiled /\ AgentsHome /\ BidsFiled

LEMMA IdResolves ==
    ASSUME AddressesOwned, SeenFiled, NEW n \in Nodes, NEW id \in RoutingIds(KeyOf[n]),
           NEW address \in resolveRoutingId(id)
    PROVE  /\ address \in Id
           /\ Agree(address, KeyOf[n], MinPrefix)
           /\ address = KeyOf[n] \/ n \in strangers \/ n \notin seen
           /\ n \in seen /\ id = KeyOf[n] => address = KeyOf[n]
<1>1. /\ KeyOf[n] \in Id /\ id \in Id
      /\ Agree(id, KeyOf[n], MinPrefix) /\ peerIdMatches(id, KeyOf[n])
  BY KeysAreIds, RoutingIdsMatch
<1>2. n \in seen => id \in DOMAIN byRoutingId \/ KeyOf[n] \in Values
  BY DEF SeenFiled, Values
<1>3. ASSUME NEW k \in DOMAIN byRoutingId, Agree(id, byRoutingId[k], MinPrefix)
      PROVE  /\ byRoutingId[k] \in Id
             /\ Agree(byRoutingId[k], KeyOf[n], MinPrefix)
             /\ byRoutingId[k] = KeyOf[n] \/ n \in strangers
  <2>1. Agree(byRoutingId[k], KeyOf[n], MinPrefix)
    BY <1>1, <1>3 DEF Agree
  <2>2. PICK m \in Nodes :
            /\ Agree(byRoutingId[k], KeyOf[m], MinPrefix)
            /\ byRoutingId[k] = KeyOf[m] \/ m \in strangers
    BY DEF AddressesOwned
  <2>3. m = n
    BY <2>1, <2>2, OneNode
  <2> QED
    BY <2>1, <2>2, <2>3 DEF AddressesOwned
<1>4. CASE id \in DOMAIN byRoutingId
  <2>1. address = byRoutingId[id]
    BY <1>4 DEF resolveRoutingId
  <2> QED
    BY <1>1, <1>3, <1>4, <2>1 DEF AddressesOwned, SeenFiled
<1>5. CASE id \notin DOMAIN byRoutingId
  <2>1. CASE {v \in Values : peerIdMatches(id, v)} = {}
    <3>1. address = id /\ n \notin seen
      BY <1>1, <1>2, <1>5, <2>1 DEF resolveRoutingId
    <3> QED
      BY <1>1, <3>1
  <2>2. CASE {v \in Values : peerIdMatches(id, v)} # {}
    <3>1. address \in Values /\ peerIdMatches(id, address)
      BY <1>5, <2>2 DEF resolveRoutingId
    <3>2. PICK k \in DOMAIN byRoutingId : address = byRoutingId[k]
      BY <3>1 DEF Values
    <3>3. Agree(id, byRoutingId[k], MinPrefix)
      BY <1>1, <3>1, <3>2, MatchesAgree DEF AddressesOwned
    <3> QED
      BY <1>3, <1>5, <3>2, <3>3 DEF SeenFiled
  <2> QED
    BY <2>1, <2>2
<1> QED
  BY <1>4, <1>5

LEMMA RefreshKeeps ==
    ASSUME AddressesOwned, SeenFiled, NEW listed \in SUBSET Nodes, refresh(listed)
    PROVE  AddressesOwned' /\ SeenFiled'
<1> DEFINE Filed(k, m) == k \in {KeyOf[m], ShortKey(m)}
<1>1. \A k : \A m \in Nodes :
          k \in Id /\ Filed(k, m) => Agree(k, KeyOf[m], MinPrefix)
  <2>1. ASSUME NEW m \in Nodes PROVE Agree(ShortKey(m), KeyOf[m], MinPrefix)
    BY PeerIdAssumption DEF ShortKey, Agree
  <2> QED
    BY <2>1 DEF Agree
<1>2. DOMAIN byRoutingId' =
          DOMAIN byRoutingId \cup {KeyOf[n] : n \in listed} \cup {ShortKey(n) : n \in listed}
  BY DEF refresh
<1>3. strangers' = strangers /\ seen' = seen \cup listed
  BY DEF refresh
<1>4. ASSUME NEW k \in DOMAIN byRoutingId'
      PROVE  \/ k \in DOMAIN byRoutingId /\ byRoutingId'[k] = byRoutingId[k]
                /\ \A m \in listed : ~Filed(k, m)
             \/ \E m \in listed : Filed(k, m) /\ byRoutingId'[k] = KeyOf[m]
  <2>1. byRoutingId'[k] = IF \E n \in listed : Filed(k, n)
                          THEN KeyOf[CHOOSE n \in listed : Filed(k, n)]
                          ELSE byRoutingId[k]
    BY <1>2 DEF refresh
  <2> HIDE DEF Filed
  <2>2. CASE \E n \in listed : Filed(k, n)
    BY <2>1, <2>2
  <2>3. CASE ~\E n \in listed : Filed(k, n)
    BY <1>2, <2>1, <2>3 DEF Filed
  <2> QED
    BY <2>2, <2>3
<1> HIDE DEF Filed
<1>5. AddressesOwned'
  <2> SUFFICES ASSUME NEW k \in DOMAIN byRoutingId'
               PROVE  /\ byRoutingId'[k] \in Id
                      /\ \E n \in Nodes :
                             /\ Agree(byRoutingId'[k], KeyOf[n], MinPrefix)
                             /\ byRoutingId'[k] = KeyOf[n] \/ n \in strangers
                      /\ k \in Id => Agree(k, byRoutingId'[k], MinPrefix)
    BY <1>3 DEF AddressesOwned
  <2>1. CASE k \in DOMAIN byRoutingId /\ byRoutingId'[k] = byRoutingId[k]
    BY <2>1 DEF AddressesOwned
  <2>2. CASE \E m \in listed : Filed(k, m) /\ byRoutingId'[k] = KeyOf[m]
    <3>1. PICK m \in listed : Filed(k, m) /\ byRoutingId'[k] = KeyOf[m]
      BY <2>2
    <3>2. KeyOf[m] \in Id /\ Agree(KeyOf[m], KeyOf[m], MinPrefix)
      BY KeysAreIds DEF Agree
    <3>3. k \in Id => Agree(k, KeyOf[m], MinPrefix)
      BY <1>1, <3>1
    <3> QED
      BY <3>1, <3>2, <3>3
  <2> QED
    BY <1>4, <2>1, <2>2
<1>6. SeenFiled'
  <2> SUFFICES ASSUME NEW n \in seen \cup listed
               PROVE  /\ n \in Nodes /\ KeyOf[n] \in DOMAIN byRoutingId'
                      /\ byRoutingId'[KeyOf[n]] = KeyOf[n]
    BY <1>3 DEF SeenFiled
  <2>1. n \in Nodes /\ KeyOf[n] \in DOMAIN byRoutingId'
    BY <1>2 DEF SeenFiled
  <2>2. ASSUME NEW m \in listed, Filed(KeyOf[n], m) PROVE m = n
    <3>1. Agree(KeyOf[n], KeyOf[m], MinPrefix)
      BY <1>1, <2>1, <2>2, KeysAreIds
    <3> QED
      BY <2>1, <3>1, KeysDiffer
  <2>3. n \in listed => Filed(KeyOf[n], n)
    BY DEF Filed
  <2> QED
    BY <1>4, <2>1, <2>2, <2>3 DEF SeenFiled
<1> QED
  BY <1>5, <1>6

LEMMA RegisterKeeps ==
    ASSUME AddressesOwned, SeenFiled, AgentsHome, NEW a, NEW n \in Nodes,
           NEW id \in RoutingIds(KeyOf[n]), registerFromBid(a, n, id)
    PROVE  AddressesOwned' /\ SeenFiled' /\ AgentsHome'
<1>1. PICK address \in resolveRoutingId(id) :
          /\ byAgentId' = Set(byAgentId, a, address)
          /\ byRoutingId' = IF routingPrefix(id) = <<>> THEN byRoutingId
                            ELSE Set(byRoutingId, routingPrefix(id), address)
  BY DEF registerFromBid
<1>2. /\ address \in Id
      /\ Agree(address, KeyOf[n], MinPrefix)
      /\ address = KeyOf[n] \/ n \in strangers \/ n \notin seen
      /\ n \in seen /\ id = KeyOf[n] => address = KeyOf[n]
  BY IdResolves
<1>3. /\ from' = Set(from, a, n) /\ seen' = seen
      /\ strangers' = IF n \in seen THEN strangers ELSE strangers \cup {n}
  BY DEF registerFromBid
<1>4. strangers \subseteq strangers' /\ (address = KeyOf[n] \/ n \in strangers')
  BY <1>2, <1>3
<1>5. id \in Id /\ Agree(id, KeyOf[n], MinPrefix)
  BY KeysAreIds, RoutingIdsMatch
<1>6. routingPrefix(id) \in Id => routingPrefix(id) = id
  BY <1>5, StrippedId
<1>7. Agree(id, address, MinPrefix)
  BY <1>2, <1>5 DEF Agree
<1>8. ASSUME NEW k \in DOMAIN byRoutingId'
      PROVE  \/ k \in DOMAIN byRoutingId /\ byRoutingId'[k] = byRoutingId[k]
             \/ k = routingPrefix(id) /\ byRoutingId'[k] = address
  BY <1>1 DEF Set
<1>9. AddressesOwned'
  <2> SUFFICES ASSUME NEW k \in DOMAIN byRoutingId'
               PROVE  /\ byRoutingId'[k] \in Id
                      /\ \E m \in Nodes :
                             /\ Agree(byRoutingId'[k], KeyOf[m], MinPrefix)
                             /\ byRoutingId'[k] = KeyOf[m] \/ m \in strangers'
                      /\ k \in Id => Agree(k, byRoutingId'[k], MinPrefix)
    BY DEF AddressesOwned
  <2>1. CASE k \in DOMAIN byRoutingId /\ byRoutingId'[k] = byRoutingId[k]
    BY <1>4, <2>1 DEF AddressesOwned
  <2>2. CASE k = routingPrefix(id) /\ byRoutingId'[k] = address
    BY <1>2, <1>4, <1>6, <1>7, <2>2
  <2> QED
    BY <1>8, <2>1, <2>2
<1>10. SeenFiled'
  <2> SUFFICES ASSUME NEW m \in seen
               PROVE  /\ m \in Nodes /\ KeyOf[m] \in DOMAIN byRoutingId'
                      /\ byRoutingId'[KeyOf[m]] = KeyOf[m]
    BY <1>3 DEF SeenFiled
  <2>1. m \in Nodes /\ KeyOf[m] \in DOMAIN byRoutingId /\ byRoutingId[KeyOf[m]] = KeyOf[m]
    BY DEF SeenFiled
  <2>2. KeyOf[m] \in DOMAIN byRoutingId'
    BY <1>1, <2>1 DEF Set
  <2>3. CASE KeyOf[m] = routingPrefix(id)
    <3>1. id = KeyOf[m]
      BY <1>6, <2>1, <2>3, KeysAreIds
    <3>2. m = n
      BY <1>5, <2>1, <3>1, OneNode DEF Agree
    <3> QED
      BY <1>2, <1>8, <2>1, <2>2, <3>1, <3>2
  <2>4. CASE KeyOf[m] # routingPrefix(id)
    BY <1>8, <2>1, <2>2, <2>4
  <2> QED
    BY <2>3, <2>4
<1>11. AgentsHome'
  <2>1. DOMAIN from' = DOMAIN byAgentId' /\ DOMAIN byAgentId' = DOMAIN byAgentId \cup {a}
    BY <1>1, <1>3 DEF AgentsHome, Set
  <2>2. from'[a] = n /\ byAgentId'[a] = address
    BY <1>1, <1>3 DEF Set
  <2>3. \A b \in DOMAIN byAgentId : b # a =>
            from'[b] = from[b] /\ byAgentId'[b] = byAgentId[b]
    BY <1>1, <1>3 DEF AgentsHome, Set
  <2>4. \A b \in DOMAIN byAgentId' :
           /\ from'[b] \in Nodes
           /\ Agree(byAgentId'[b], KeyOf[from'[b]], MinPrefix)
           /\ from'[b] \notin strangers' => byAgentId'[b] = KeyOf[from'[b]]
    BY <1>2, <1>4, <2>1, <2>2, <2>3 DEF AgentsHome
  <2> QED
    BY <2>1, <2>4 DEF AgentsHome
<1> QED
  BY <1>9, <1>10, <1>11

-----------------------------------------------------------------------------
(* The window.                                                             *)

LEMMA WindowInit == Init => IInv
BY DEF Init, InitRegistry, IInv, AddressesOwned, SeenFiled, AgentsHome, BidsFiled

LEMMA WindowNext == IInv /\ [Next]_vars => IInv'
<1> SUFFICES ASSUME IInv, [Next]_vars PROVE IInv'
  OBVIOUS
<1> USE DEF IInv
<1>1. ASSUME NEW listed \in SUBSET Nodes, Open(listed) PROVE IInv'
  <2>1. refresh(listed) /\ bs' = <<>>
    BY <1>1 DEF Open
  <2>2. AddressesOwned' /\ SeenFiled'
    BY <2>1, RefreshKeeps
  <2>3. UNCHANGED <<byAgentId, from, strangers>>
    BY <2>1 DEF refresh
  <2>4. AgentsHome'
    BY <2>3 DEF AgentsHome
  <2>5. BidsFiled'
    BY <1>1, <2>1 DEF BidsFiled, Open
  <2> QED
    BY <2>2, <2>4, <2>5
<1>2. ASSUME NEW s \in Senders, NEW h \in HashSet, NEW p \in 1 .. MaxPrice, Arrive(s, h, p)
      PROVE  IInv'
  <2> DEFINE Bid == [agent : Agents, node : Nodes, hash : HashSet, price : 1 .. MaxPrice]
             bid == [agent |-> s.agent, node |-> s.node, hash |-> h, price |-> p]
  <2>1. registerFromBid(s.agent, s.node, s.id) /\ bs' = Append(bs, bid)
    BY <1>2 DEF Arrive
  <2>2. s.agent \in Agents /\ s.node \in Nodes /\ s.id \in RoutingIds(KeyOf[s.node])
    BY SendersAreReal
  <2>3. AddressesOwned' /\ SeenFiled' /\ AgentsHome'
    BY <2>1, <2>2, RegisterKeeps
  <2>4. bid \in Bid /\ bid.agent = s.agent /\ bid.node = s.node /\ bs \in Seq(Bid)
    BY <2>2 DEF BidsFiled
  <2>5. from' = Set(from, s.agent, s.node)
    BY <2>1 DEF registerFromBid
  <2> HIDE DEF Bid, bid
  <2>6. /\ bs' \in Seq(Bid) /\ Len(bs) \in Nat /\ DOMAIN bs = 1 .. Len(bs)
        /\ DOMAIN bs' = 1 .. Len(bs) + 1
        /\ \A i \in 1 .. Len(bs) : bs'[i] = bs[i]
        /\ bs'[Len(bs) + 1] = bid
    BY <2>1, <2>4
  <2>7. DOMAIN from' = DOMAIN from \cup {s.agent} /\ from'[s.agent] = s.node
        /\ \A a \in DOMAIN from : a # s.agent => from'[a] = from[a]
    BY <2>5 DEF Set
  <2>8. ASSUME NEW i \in DOMAIN bs'
        PROVE  /\ bs'[i].agent \in DOMAIN from'
               /\ \/ \E k \in DOMAIN bs' :
                         /\ bs'[k].agent = bs'[i].agent
                         /\ bs'[k].node = from'[bs'[i].agent]
                  \/ <<bs'[i].agent, from'[bs'[i].agent]>> \in strays'
    <3>1. CASE bs'[i].agent = s.agent
      BY <2>4, <2>6, <2>7, <3>1
    <3>2. CASE bs'[i].agent # s.agent
      <4>1. i \in DOMAIN bs /\ bs'[i] = bs[i]
        BY <2>4, <2>6, <3>2
      <4>2. bs[i].agent \in DOMAIN from /\ from'[bs'[i].agent] = from[bs[i].agent]
        BY <2>7, <3>2, <4>1 DEF BidsFiled
      <4>3. ASSUME NEW k \in DOMAIN bs, bs[k].agent = bs[i].agent,
                   bs[k].node = from[bs[i].agent]
            PROVE  \E l \in DOMAIN bs' : /\ bs'[l].agent = bs'[i].agent
                                         /\ bs'[l].node = from'[bs'[i].agent]
        <5>1. k \in DOMAIN bs' /\ bs'[k] = bs[k]
          BY <2>6
        <5> QED
          BY <4>1, <4>2, <4>3, <5>1
      <4>4. strays' = strays
        BY <1>2 DEF Arrive
      <4> QED
        BY <2>7, <4>1, <4>2, <4>3, <4>4 DEF BidsFiled
    <3> QED
      BY <3>1, <3>2
  <2>9. BidsFiled'
    BY <2>6, <2>8 DEF Bid, BidsFiled
  <2> QED
    BY <2>3, <2>9
<1>3. ASSUME NEW s \in Senders, ArriveLate(s) PROVE IInv'
  <2>1. /\ registerFromBid(s.agent, s.node, s.id) /\ bs' = bs
        /\ strays' = strays \cup {<<s.agent, s.node>>}
    BY <1>3 DEF ArriveLate
  <2>2. AddressesOwned' /\ SeenFiled' /\ AgentsHome'
    BY <2>1, SendersAreReal, RegisterKeeps
  <2>3. DOMAIN from' = DOMAIN from \cup {s.agent} /\ from'[s.agent] = s.node
        /\ \A a \in DOMAIN from : a # s.agent => from'[a] = from[a]
    BY <2>1 DEF registerFromBid, Set
  <2>4. ASSUME NEW i \in DOMAIN bs
        PROVE  /\ bs[i].agent \in DOMAIN from'
               /\ \/ \E k \in DOMAIN bs : /\ bs[k].agent = bs[i].agent
                                          /\ bs[k].node = from'[bs[i].agent]
                  \/ <<bs[i].agent, from'[bs[i].agent]>> \in strays'
    <3>1. CASE bs[i].agent = s.agent
      BY <2>1, <2>3, <3>1
    <3>2. CASE bs[i].agent # s.agent
      <4>1. bs[i].agent \in DOMAIN from /\ from'[bs[i].agent] = from[bs[i].agent]
        BY <2>3, <3>2 DEF BidsFiled
      <4> QED
        BY <2>1, <2>3, <4>1 DEF BidsFiled
    <3> QED
      BY <3>1, <3>2
  <2>5. BidsFiled'
    BY <2>1, <2>4 DEF BidsFiled
  <2> QED
    BY <2>2, <2>5
<1>4. CASE UNCHANGED vars
  BY <1>4 DEF vars, registry, AddressesOwned, SeenFiled, AgentsHome, BidsFiled, Values
<1> QED
  BY <1>1, <1>2, <1>3, <1>4 DEF Next

LEMMA Invariance == Spec => []IInv
BY WindowInit, WindowNext, PTL DEF Spec

\* For ids of any width: an agent's address reaches the node of its latest bid
\* and no other.
THEOREM AddressesLeadHome == Spec => []AddressLeadsHome
<1>1. ASSUME IInv, NEW a \in DOMAIN byAgentId, NEW n \in Nodes
      PROVE  Reaches(byAgentId[a], n) <=> n = from[a]
  <2>1. from[a] \in Nodes /\ Agree(byAgentId[a], KeyOf[from[a]], MinPrefix)
    BY <1>1 DEF IInv, AgentsHome
  <2> QED
    BY <2>1, OneNode DEF Reaches
<1>2. IInv => AddressLeadsHome
  BY <1>1 DEF AddressLeadsHome
<1> QED
  BY <1>2, Invariance, PTL

\* Only a node that bid before it was listed leaves an agent without a full key.
THEOREM SendersResolve == Spec => []KnownSendersResolve
<1>1. IInv => KnownSendersResolve
  BY DEF IInv, AgentsHome, KnownSendersResolve
<1> QED
  BY <1>1, Invariance, PTL

-----------------------------------------------------------------------------
(* The choice.                                                             *)

Bid == [agent : Agents, node : Nodes, hash : HashSet, price : 1 .. MaxPrice]

LEMMA BidsPriced ==
    Priced(Bid) /\ (IInv => bs \in Seq(Bid))
<1>1. \A p \in 1 .. MaxPrice : p \in Nat
  BY WindowAssumption
<1>2. Priced(Bid)
  BY <1>1 DEF Priced, Bid
<1> QED
  BY <1>2 DEF IInv, BidsFiled, Bid

\* A majority decides the hash, for any number of bids.
THEOREM MajorityDecides == Spec => []MajorityWins
<1>1. ASSUME IInv, NEW h \in HashSet, 2 * Count(bs, h) > Len(bs), Eligible(bs) # {}
      PROVE  Cheapest(bs).hash = h
  <2>1. bs \in Seq(Bid)
    BY <1>1, BidsPriced
  <2>2. Modal(bs) = h
    BY <1>1, <2>1, BidsPriced, MajorityIsModal
  <2>3. PICK i \in Eligible(bs) : Cheapest(bs) = bs[i]
    BY <1>1, <2>1, BidsPriced, CheapestIsCheap
  <2> QED
    BY <2>2, <2>3 DEF Eligible
<1>2. IInv => MajorityWins
  BY <1>1 DEF MajorityWins
<1> QED
  BY <1>2, Invariance, PTL

\* The accept reaches a node that bid as the winner in this window, or that the
\* last tick of an earlier window filed for it meanwhile.
THEOREM AcceptReachesBidder == Spec => []AcceptGoesToBidder
<1>1. ASSUME IInv, Eligible(bs) # {}, NEW n \in Nodes,
             Reaches(byAgentId[Cheapest(bs).agent], n)
      PROVE  \/ \E i \in DOMAIN bs : bs[i].agent = Cheapest(bs).agent /\ bs[i].node = n
             \/ <<Cheapest(bs).agent, n>> \in strays
  <2>1. bs \in Seq(Bid)
    BY <1>1, BidsPriced
  <2>2. PICK i \in DOMAIN bs : Cheapest(bs) = bs[i]
    BY <1>1, <2>1, BidsPriced, CheapestIsCheap DEF Eligible
  <2>3. \/ \E k \in DOMAIN bs : bs[k].agent = bs[i].agent /\ bs[k].node = from[bs[i].agent]
        \/ <<bs[i].agent, from[bs[i].agent]>> \in strays
    BY <1>1, <2>2 DEF IInv, BidsFiled
  <2>4. bs[i].agent \in DOMAIN byAgentId
    BY <1>1, <2>2 DEF IInv, BidsFiled, AgentsHome
  <2> DEFINE a == bs[i].agent
  <2>5. from[a] \in Nodes /\ Agree(byAgentId[a], KeyOf[from[a]], MinPrefix)
    BY <1>1, <2>4 DEF IInv, AgentsHome
  <2>6. Agree(byAgentId[a], KeyOf[n], MinPrefix)
    BY <1>1, <2>2 DEF Reaches
  <2>7. n = from[a]
    BY <2>5, <2>6, OneNode
  <2> QED
    BY <2>2, <2>3, <2>7
<1>2. IInv => AcceptGoesToBidder
  BY <1>1 DEF AcceptGoesToBidder
<1> QED
  BY <1>2, Invariance, PTL

\* A bid for the agreed hash never makes the buyer pay more.
THEOREM AgreeingBidHelps == Spec => AgreeingBidNeverHurts
<1> DEFINE Hurts == /\ Len(bs') > Len(bs) /\ bs # <<>> /\ Eligible(bs) # {}
                    /\ bs'[Len(bs')].hash = Modal(bs)
                    /\ ~(Eligible(bs') # {} /\ Cheapest(bs').price <= Cheapest(bs).price)
<1>1. ASSUME IInv, [Next]_vars, Hurts PROVE FALSE
  <2>1. PICK s \in Senders, h \in HashSet, p \in 1 .. MaxPrice : Arrive(s, h, p)
    <3>1. bs \in Seq(Bid) /\ Len(bs') > Len(bs)
      BY <1>1, BidsPriced
    <3>2. Len(bs) \in Nat /\ bs' # bs /\ bs' # <<>>
      BY <3>1
    <3> QED
      BY <1>1, <3>2 DEF Next, Open, ArriveLate, vars
  <2> DEFINE bid == [agent |-> s.agent, node |-> s.node, hash |-> h, price |-> p]
             n == Len(bs) + 1
  <2>2. bs' = Append(bs, bid) /\ bid \in Bid
    BY <2>1, SendersAreReal DEF Arrive, Bid
  <2>3. bs \in Seq(Bid)
    BY <1>1, BidsPriced
  <2> HIDE DEF bid, Bid
  <2>4. /\ bs' \in Seq(Bid) /\ bs'[Len(bs')] = bid /\ Len(bs) \in Nat
        /\ DOMAIN bs = 1 .. Len(bs) /\ DOMAIN bs' = 1 .. n
        /\ \A i \in 1 .. Len(bs) : bs'[i] = bs[i]
    BY <2>2, <2>3
  <2>5. Modal(bs') = Modal(bs)
    BY <1>1, <2>2, <2>3, <2>4, BidsPriced, ModalStays
  <2>6. \A i \in Eligible(bs) : i \in Eligible(bs') /\ bs'[i] = bs[i]
    BY <2>4, <2>5 DEF Eligible
  <2>7. PICK i \in Eligible(bs) : Cheapest(bs) = bs[i]
    BY <1>1, <2>3, BidsPriced, CheapestIsCheap
  <2>8. PICK k \in Eligible(bs') :
            /\ Cheapest(bs') = bs'[k]
            /\ \A j \in Eligible(bs') : bs'[k].price <= bs'[j].price
    BY <2>4, <2>6, <2>7, BidsPriced, CheapestIsCheap
  <2>9. Cheapest(bs').price <= Cheapest(bs).price
    BY <2>6, <2>7, <2>8
  <2> QED
    BY <1>1, <2>8, <2>9
<1>2. IInv /\ [Next]_vars
      => [Len(bs') > Len(bs) /\ bs # <<>> /\ Eligible(bs) # {}
            /\ bs'[Len(bs')].hash = Modal(bs)
            => Eligible(bs') # {} /\ Cheapest(bs').price <= Cheapest(bs).price]_vars
  BY <1>1
<1> QED
  BY <1>2, Invariance, PTL DEF Spec, AgreeingBidNeverHurts

\* Unless hashes tie, neither the hash the buyer accepts nor the price it pays
\* depends on the order of arrival.
THEOREM OrderMatters == Spec => []OrderMattersOnlyInTies
<1>1. ASSUME IInv, bs # <<>>, ~Tied(bs), NEW p \in Bijection(DOMAIN bs, DOMAIN bs)
      PROVE  LET other == Reordered(bs, p) IN
             /\ Modal(other) = Modal(bs)
             /\ Eligible(bs) # {} <=> Eligible(other) # {}
             /\ Eligible(bs) # {} => Cheapest(other).price = Cheapest(bs).price
  BY <1>1, BidsPriced, ReorderedChoice
<1>2. IInv => OrderMattersOnlyInTies
  BY <1>1 DEF OrderMattersOnlyInTies
<1> QED
  BY <1>2, Invariance, PTL
=============================================================================
