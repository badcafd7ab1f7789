------------------------------ MODULE PeerIds ------------------------------
(***************************************************************************)
(* The identities of AXL nodes (packages/axl-client/src/peerid.mjs).  A    *)
(* node's key and the ids that /recv reports for it are sequences of Width *)
(* hexadecimal digits; such an id begins like the key and is filled up     *)
(* with F, but for at most one digit in between.                           *)
(***************************************************************************)
EXTENDS Naturals, Sequences

CONSTANTS Digits,
          F,            \* the digit of the padding
          Width,        \* 64
          MinPrefix     \* MIN_PREFIX_HEX

ASSUME PeerIdAssumption ==
    /\ F \in Digits
    /\ Width \in Nat /\ MinPrefix \in 1 .. Width

Id == [1 .. Width -> Digits]

Agree(a, b, n) == \A i \in 1 .. n : a[i] = b[i]
Filled(a, n) == \A i \in n .. Width : a[i] = F

\* How many leading digits two different ids share.
Common(a, b) ==
    CHOOSE n \in 0 .. Width - 1 : Agree(a, b, n) /\ a[n + 1] # b[n + 1]

\* Slip: ids are compared without the minimum.
AnyPrefix(n) == TRUE
LongEnough(n) == n >= MinPrefix

\* Slip: no digit is allowed between the prefix and the padding.
NoTransition(a, n) == Filled(a, n + 1)
\* From the first difference on there is nothing but padding, or one digit and
\* then padding.
OnlyPadding(a, n) ==
    \/ Filled(a, n + 1)
    \/ n + 2 <= Width /\ Filled(a, n + 2)

peerIdMatches(fromPeerId, fullPubkey) ==
    \/ fromPeerId = fullPubkey
    \/ LET n == Common(fromPeerId, fullPubkey) IN
           LongEnough(n) /\ OnlyPadding(fromPeerId, n)

\* The id without its padding.
routingPrefix(a) ==
    LET n == CHOOSE n \in 0 .. Width :
                 Filled(a, n + 1) /\ (n > 0 => a[n] # F)
    IN  [i \in 1 .. n |-> a[i]]

\* The ids under which a node may appear (peerid.mjs:4-17, AXL's doing): its
\* key, or a long enough part of it with padding.
RoutingIds(key) ==
    {a \in Id :
        \/ a = key
        \/ \E n \in MinPrefix .. Width - 1 :
               /\ Agree(a, key, n)
               /\ Filled(a, n + 1) \/ (n + 2 <= Width /\ Filled(a, n + 2))}
=============================================================================
