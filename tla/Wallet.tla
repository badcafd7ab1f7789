------------------------------- MODULE Wallet -------------------------------
(***************************************************************************)
(* One account's transactions at an RPC node.  The nonce of a transaction  *)
(* is its place in `mined`, counted from 0; `pool` is what was accepted    *)
(* and is not mined yet.  Both chains of the system (Galileo for trades,   *)
(* Sepolia for names) are reached through such a wallet.  Nothing here is  *)
(* code of the repository: it is what viem and the node are to it.         *)
(*                                                                         *)
(* Assumed: only one process uses the account; a node that has served a    *)
(* receipt counts its transaction; a node refuses a nonce that is taken    *)
(* (a second transaction never outbids the first).                         *)
(***************************************************************************)
EXTENDS Naturals, Sequences

CONSTANTS Jobs,         \* the transactions that may be sent, one for each call
          MaxFaults     \* how many requests may fail in a behaviour

ASSUME WalletAssumption == MaxFaults \in Nat

VARIABLES pool,         \* set of [nonce, job]
          mined,        \* sequence of [job, ok]
          faults        \* requests that failed so far

node == <<pool, mined, faults>>

PoolNonces == {t.nonce : t \in pool}
Taken(n) == n < Len(mined) \/ n \in PoolNonces

\* What eth_getTransactionCount may answer: the count of mined transactions,
\* or one that includes some of the pending ones as well.
Counts ==
    {Len(mined)} \cup
        {n + 1 : n \in {m \in PoolNonces : \A k \in Len(mined) .. m : Taken(k)}}

Mined(j, n) == n < Len(mined) /\ mined[n + 1].job = j
Effective(j) == \E i \in DOMAIN mined : mined[i].job = j /\ mined[i].ok

NodeTypeOK ==
    /\ pool \subseteq [nonce : Nat, job : Jobs]
    /\ mined \in Seq([job : Jobs, ok : BOOLEAN])
    /\ faults \in 0 .. MaxFaults

NodeInit == pool = {} /\ mined = <<>> /\ faults = 0

\* The node takes a broadcast, or the bytes arrive although the answer is lost.
Enters(j, n) == ~Taken(n) /\ pool' = pool \cup {[nonce |-> n, job |-> j]}

\* A block with the account's next transaction; ok is whether it succeeds.
Mine(j, ok) ==
    /\ [nonce |-> Len(mined), job |-> j] \in pool
    /\ pool' = pool \ {[nonce |-> Len(mined), job |-> j]}
    /\ mined' = Append(mined, [job |-> j, ok |-> ok])

Fault == faults < MaxFaults /\ faults' = faults + 1

\* The node forgets a transaction it had accepted.
Evict ==
    /\ Fault
    /\ \E t \in pool : pool' = pool \ {t}
    /\ UNCHANGED mined
=============================================================================
