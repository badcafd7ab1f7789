---------------------------- MODULE PeerRegistry ----------------------------
(***************************************************************************)
(* The buyer's address book (packages/axl-client/src/peer-registry.mjs).   *)
(* byRoutingId maps keys, their first digits and stripped routing ids to a *)
(* key, or to a routing id whose key was not known; byAgentId maps agents  *)
(* to where they can be reached.  The order in which a Map lists its       *)
(* entries is left open: any match may be the first.                       *)
(***************************************************************************)
EXTENDS PeerIds

CONSTANTS Nodes, Agents,
          KeyOf         \* the key of each node

\* peerid.mjs:15-17: the minimum prefix tells the nodes of a network apart.
ASSUME KeysDiffer ==
    /\ KeyOf \in [Nodes -> Id]
    /\ \A m, n \in Nodes : Agree(KeyOf[m], KeyOf[n], MinPrefix) => m = n

VARIABLES byRoutingId, byAgentId,
          from,         \* history: the node of the latest bid of each agent
          seen,         \* history: nodes that a topology has listed
          strangers     \* history: nodes that bid before they were listed

registry == <<byRoutingId, byAgentId, from, seen, strangers>>

InitRegistry ==
    /\ byRoutingId = [k \in {} |-> <<>>]
    /\ byAgentId = [a \in {} |-> <<>>]
    /\ from = [a \in {} |-> 0]
    /\ seen = {} /\ strangers = {}

\* Slip: an agent keeps the address it had.
SetOnce(f, k, v) == [x \in DOMAIN f \cup {k} |-> IF x \in DOMAIN f THEN f[x] ELSE v]
\* Map.set
Set(f, k, v) == [x \in DOMAIN f \cup {k} |-> IF x = k THEN v ELSE f[x]]

ShortKey(n) == [i \in 1 .. MinPrefix |-> KeyOf[n][i]]

\* The topology lists some nodes: each is filed under its key and its prefix.
refresh(listed) ==
    /\ byRoutingId' =
         [k \in DOMAIN byRoutingId \cup {KeyOf[n] : n \in listed}
                                   \cup {ShortKey(n) : n \in listed} |->
             IF \E n \in listed : k \in {KeyOf[n], ShortKey(n)}
             THEN KeyOf[CHOOSE n \in listed : k \in {KeyOf[n], ShortKey(n)}]
             ELSE byRoutingId[k]]
    /\ seen' = seen \cup listed
    /\ UNCHANGED <<byAgentId, from, strangers>>

Values == {byRoutingId[k] : k \in DOMAIN byRoutingId}

\* What an id may resolve to; the id itself if nothing is known of it.
resolveRoutingId(id) ==
    IF id \in DOMAIN byRoutingId THEN {byRoutingId[id]}
    ELSE LET known == {v \in Values : peerIdMatches(id, v)}
         IN  IF known = {} THEN {id} ELSE known

\* A bid of agent a arrives from node n, which appears as id.
registerFromBid(a, n, id) ==
    /\ \E address \in resolveRoutingId(id) :
           /\ byAgentId' = Set(byAgentId, a, address)
           /\ byRoutingId' =
                IF routingPrefix(id) = <<>> THEN byRoutingId
                ELSE Set(byRoutingId, routingPrefix(id), address)
    /\ from' = Set(from, a, n)
    /\ strangers' = IF n \in seen THEN strangers ELSE strangers \cup {n}
    /\ UNCHANGED seen

\* An address reaches the nodes whose key begins like it (the comment at
\* peer-registry.mjs:69-71: AXL delivers to routing prefixes as well).
Reaches(address, n) == Agree(address, KeyOf[n], MinPrefix)

-----------------------------------------------------------------------------
\* Whatever ids a node appeared under, and whichever others were filed before,
\* an agent's address reaches the node its latest bid came from, and no other.
AddressLeadsHome ==
    \A a \in DOMAIN byAgentId : \A n \in Nodes :
        Reaches(byAgentId[a], n) <=> n = from[a]

\* An agent is bound to its node's full key, unless its node bid at a time
\* when no topology had listed it: that id is filed, and may be found first
\* ever after (peer-registry.mjs:88-91,111-115).
KnownSendersResolve ==
    \A a \in DOMAIN byAgentId :
        from[a] \notin strangers => byAgentId[a] = KeyOf[from[a]]
=============================================================================
