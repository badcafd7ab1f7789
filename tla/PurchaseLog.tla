---------------------------- MODULE PurchaseLog ----------------------------
(***************************************************************************)
(* What the transactions of the purchases look like from outside: a set of *)
(* effects on the chain, and what the caller of queryMarket knows of them. *)
(* A move is a pair: a purchase, and its first, second or third step.      *)
(***************************************************************************)
EXTENDS Naturals

CONSTANT Moves

VARIABLES happened,     \* moves the chain has executed
          confirmed,    \* moves the caller has been told of
          failed        \* purchases that threw

view == <<happened, confirmed, failed>>

Init == happened = {} /\ confirmed = {} /\ failed = {}

EarlierConfirmed(m) ==
    \A k \in Moves : k[1] = m[1] /\ k[2] < m[2] => k \in confirmed

Concluded(p) ==
    p \in failed \/ \A m \in Moves : m[1] = p => m \in confirmed

\* Only the step after those the caller knows of can take effect, and only once
\* its purchase has its turn; the caller may have given up on it by then.
Happen(m) ==
    /\ m \notin happened
    /\ EarlierConfirmed(m)
    /\ \A p \in 1 .. (m[1] - 1) : Concluded(p)
    /\ happened' = happened \cup {m}
    /\ UNCHANGED <<confirmed, failed>>

Confirm(m) ==
    /\ m \in happened \ confirmed
    /\ m[1] \notin failed
    /\ confirmed' = confirmed \cup {m}
    /\ UNCHANGED <<happened, failed>>

GiveUp(m) ==
    /\ m \notin confirmed
    /\ EarlierConfirmed(m)
    /\ m[1] \notin failed
    /\ failed' = failed \cup {m[1]}
    /\ UNCHANGED <<happened, confirmed>>

Next == \E m \in Moves : Happen(m) \/ Confirm(m) \/ GiveUp(m)

Spec == Init /\ [][Next]_view
=============================================================================
