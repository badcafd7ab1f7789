------------------------- MODULE ChainClientProofs -------------------------
(***************************************************************************)
(* Proofs about ChainClient, for any number of purchases, attempts and     *)
(* faults: what its invariants rest on is that queryMarket awaits one call *)
(* before it makes the next (Serial) and that a transaction keeps the      *)
(* nonce its call signed (NoncesKept).                                     *)
(***************************************************************************)
EXTENDS ChainClient, TLAPS

Active(j) == at[j] \in {"signed", "sent"}

\* A call that was made has had all calls before it concluded.
Serial ==
    \A j \in Jobs : at[j] # "idle" =>
        /\ \A k \in Jobs : k[1] = j[1] /\ k[2] < j[2] => at[k] = "returned"
        /\ \A p \in 1 .. (j[1] - 1) : Over(p)

\* Every transaction, pending or mined, has the nonce of its call.
NoncesKept ==
    /\ \A t \in pool : /\ t.nonce >= Len(mined)
                       /\ t.nonce = nonce[t.job]
                       /\ at[t.job] # "idle"
    /\ \A s, t \in pool : s.nonce = t.nonce => s = t
    /\ \A i \in DOMAIN mined : /\ nonce[mined[i].job] = i - 1
                               /\ at[mined[i].job] # "idle"

Calm == faults = 0 /\ \A k \in Jobs : at[k] # "unseen"

\* As long as nothing went wrong, what is pending is being polled for, and a
\* call that has signed has the next nonce and the pool for itself.
CalmAlone ==
    Calm => /\ \A t \in pool : at[t.job] = "sent"
            /\ \A j \in Jobs : at[j] = "signed" =>
                   pool = {} /\ nonce[j] = Len(mined)

IInv ==
    /\ TypeOK /\ Serial /\ NoncesKept /\ CalmAlone
    /\ ReturnMeansMined /\ RefusedOnlyAfterTrouble

-----------------------------------------------------------------------------
LEMMA JobsArePairs ==
    ASSUME NEW j \in Jobs
    PROVE  j[1] \in 1 .. Purchases /\ j[2] \in 1 .. 3 /\ j = <<j[1], j[2]>>
BY JobsAreCalls, ClientAssumption DEF Calls, Steps

\* An invariant of the node: a mined transaction stays where it is.
LEMMA MineAppends ==
    ASSUME NodeTypeOK, NEW j \in Jobs, NEW ok \in BOOLEAN, Mine(j, ok)
    PROVE  /\ Len(mined') = Len(mined) + 1
           /\ DOMAIN mined' = 1 .. Len(mined) + 1
           /\ DOMAIN mined = 1 .. Len(mined)
           /\ \A i \in 1 .. Len(mined) : mined'[i] = mined[i]
           /\ mined'[Len(mined) + 1] = [job |-> j, ok |-> ok]
           /\ mined' \in Seq([job : Jobs, ok : BOOLEAN])
BY DEF Mine, NodeTypeOK

LEMMA MinedTyped ==
    ASSUME NodeTypeOK, NEW i \in DOMAIN mined
    PROVE  /\ i \in 1 .. Len(mined) /\ i \in Nat
           /\ mined[i].job \in Jobs /\ mined[i].ok \in BOOLEAN
<1>1. DOMAIN mined = 1 .. Len(mined) /\ Len(mined) \in Nat
  BY DEF NodeTypeOK
<1> DEFINE S == [job : Jobs, ok : BOOLEAN]
<1>2. mined \in Seq(S)
  BY DEF NodeTypeOK
<1> HIDE DEF S
<1>3. mined[i] \in S
  BY <1>1, <1>2
<1> USE DEF S
<1>4. mined[i] \in [job : Jobs, ok : BOOLEAN]
  BY <1>3
<1> QED
  BY <1>1, <1>4

LEMMA CountsAreNat ==
    ASSUME NodeTypeOK
    PROVE  Counts \subseteq Nat
BY DEF Counts, NodeTypeOK, PoolNonces

\* While a call may be made, none is being made.
LEMMA ReadyAlone ==
    ASSUME TypeOK, Serial, NEW j \in Jobs, Ready(j), NEW k \in Jobs
    PROVE  ~Active(k)
<1> SUFFICES ASSUME Active(k) PROVE FALSE
  OBVIOUS
<1>1. at[k] # "idle" /\ at[k] # "returned" /\ at[k] \notin Thrown
  BY DEF Active, Thrown
<1>2. /\ j[1] \in 1 .. Purchases /\ j[2] \in 1 .. 3 /\ j = <<j[1], j[2]>>
      /\ k[1] \in 1 .. Purchases /\ k[2] \in 1 .. 3 /\ k = <<k[1], k[2]>>
  BY JobsArePairs
<1>3. at[j] = "idle"
  BY DEF Ready
<1>4. CASE k[1] = j[1] /\ k[2] < j[2]
  BY <1>1, <1>4 DEF Ready, Awaited
<1>5. CASE k[1] = j[1] /\ j[2] < k[2]
  BY <1>1, <1>3, <1>5 DEF Serial
<1>6. CASE k[1] < j[1]
  <2>1. Over(k[1])
    BY <1>2, <1>6 DEF Ready
  <2>2. PICK f \in Jobs : f[1] = k[1] /\ at[f] \in Thrown
    BY <2>1, <1>1 DEF Over, Failed
  <2>3. f[2] \in 1 .. 3 /\ f = <<f[1], f[2]>>
    BY JobsArePairs
  <2>4. f[2] < k[2] => at[f] = "returned"
    BY <1>1, <2>2 DEF Serial
  <2>5. k[2] < f[2] => at[k] = "returned"
    BY <2>2 DEF Serial, Thrown
  <2>6. f # k
    BY <1>1, <2>2
  <2> QED
    BY <1>1, <1>2, <2>2, <2>3, <2>4, <2>5, <2>6 DEF Thrown
<1>7. CASE j[1] < k[1]
  <2>1. Over(j[1])
    BY <1>1, <1>2, <1>7 DEF Serial
  <2>2. PICK f \in Jobs : f[1] = j[1] /\ at[f] \in Thrown
    BY <2>1, <1>3 DEF Over, Failed
  <2>3. f[2] \in 1 .. 3 /\ f = <<f[1], f[2]>>
    BY JobsArePairs
  <2>4. f[2] < j[2] => at[f] = "returned"
    BY <2>2 DEF Ready, Awaited
  <2>5. j[2] < f[2] => at[j] = "returned"
    BY <2>2 DEF Serial, Thrown
  <2>6. f # j
    BY <1>3, <2>2 DEF Thrown
  <2> QED
    BY <1>2, <1>3, <2>2, <2>3, <2>4, <2>5, <2>6 DEF Thrown
<1>8. k # j
  BY <1>1, <1>3
<1> QED
  BY <1>2, <1>4, <1>5, <1>6, <1>7, <1>8

-----------------------------------------------------------------------------
(* Type correctness.                                                       *)

Places == {"idle", "signed", "sent"} \cup Ended

LEMMA TypeInit == Init => TypeOK
BY WalletAssumption, ClientAssumption
DEF Init, NodeInit, TypeOK, NodeTypeOK, Ended, Thrown

\* A step of a call moves that call alone, never one that has ended, and
\* leaves the transactions mined.
LEMMA StepShape ==
    ASSUME TypeOK, NEW j \in Jobs, ClientStep(j)
    PROVE  /\ \E how \in Places \ {"idle"} : at' = [at EXCEPT ![j] = how]
           /\ at[j] \notin Ended
           /\ at[j] = "idle" => Ready(j)
           /\ \E n \in Nat : nonce' = [nonce EXCEPT ![j] = n]
           /\ at[j] # "idle" => nonce' = nonce
           /\ \E i \in 1 .. MaxAttempts : attempt' = [attempt EXCEPT ![j] = i]
           /\ mined' = mined
           /\ faults' \in 0 .. MaxFaults /\ faults <= faults'
           /\ pool' = pool \/ (Enters(j, nonce[j]) /\ at[j] = "signed")
<1> DEFINE Moved == \E how \in Places \ {"idle"} : at' = [at EXCEPT ![j] = how]
           Counted == \E n \in Nat : nonce' = [nonce EXCEPT ![j] = n]
           Tried == \E i \in 1 .. MaxAttempts : attempt' = [attempt EXCEPT ![j] = i]
           Shape == Moved /\ Counted /\ Tried /\ (at[j] # "idle" => nonce' = nonce)
<1>1. nonce' = nonce => Counted
  <2>1. nonce = [nonce EXCEPT ![j] = nonce[j]] /\ nonce[j] \in Nat
    BY DEF TypeOK
  <2> QED
    BY <2>1
<1>2. attempt' = attempt => Tried
  <2>1. attempt = [attempt EXCEPT ![j] = attempt[j]] /\ attempt[j] \in 1 .. MaxAttempts
    BY DEF TypeOK
  <2> QED
    BY <2>1
<1>3. \A how \in Places \ {"idle"} : Ends(j, how) => Shape
  BY <1>1, <1>2 DEF Ends
<1>4. at' = at /\ at[j] # "idle" => Moved
  <2>1. at = [at EXCEPT ![j] = at[j]] /\ at[j] \in Places
    BY DEF TypeOK, Places
  <2> QED
    BY <2>1
<1>5. {"signed", "sent", "failed", "refused", "reverted", "unseen", "returned"}
        \subseteq Places \ {"idle"}
  BY DEF Places, Ended, Thrown
<1>6. faults \in 0 .. MaxFaults /\ faults <= faults
  BY WalletAssumption DEF TypeOK, NodeTypeOK
<1>7. Fault => faults' \in 0 .. MaxFaults /\ faults <= faults'
  BY WalletAssumption DEF TypeOK, NodeTypeOK, Fault
<1>8. at[j] \in {"idle", "signed", "sent"} => at[j] \notin Ended
  BY DEF Ended, Thrown
<1> HIDE DEF Moved, Counted, Tried
<1>9. SUFFICES /\ Shape
               /\ at[j] \notin Ended
               /\ at[j] = "idle" => Ready(j)
               /\ mined' = mined
               /\ faults' \in 0 .. MaxFaults /\ faults <= faults'
               /\ pool' = pool \/ (Enters(j, nonce[j]) /\ at[j] = "signed")
  BY DEF Moved, Counted, Tried
<1> HIDE DEF Shape
<1>10. CASE Sign(j)
  <2>1. Moved
    BY <1>10, <1>5 DEF Sign, Moved
  <2>2. Counted
    BY <1>10, CountsAreNat DEF Sign, Counted, TypeOK
  <2>3. at[j] = "idle" /\ Ready(j) /\ UNCHANGED <<attempt, pool, mined, faults>>
    BY <1>10 DEF Sign, Ready, node
  <2>4. Shape
    BY <2>1, <2>2, <2>3, <1>2 DEF Shape
  <2> QED
    BY <2>3, <2>4, <1>6, <1>8
<1>11. CASE SignFails(j)
  <2>1. at[j] = "idle" /\ Ready(j) /\ UNCHANGED <<pool, mined, faults>> /\ Shape
    BY <1>11, <1>3, <1>5 DEF SignFails, Ready, node
  <2> QED
    BY <2>1, <1>6, <1>8
<1>12. CASE Broadcast(j)
  <2>1. /\ at[j] = "signed" /\ UNCHANGED <<mined, faults>> /\ Shape
        /\ Enters(j, nonce[j])
    BY <1>12, <1>3, <1>5 DEF Broadcast
  <2> QED
    BY <2>1, <1>6, <1>8
<1>13. CASE BroadcastRefused(j)
  <2>1. at[j] = "signed" /\ UNCHANGED <<pool, mined, faults>> /\ Shape
    BY <1>13, <1>3, <1>5 DEF BroadcastRefused, node
  <2> QED
    BY <2>1, <1>6, <1>8
<1>14. CASE BroadcastLost(j)
  <2>1. /\ at[j] = "signed" /\ mined' = mined /\ Fault
        /\ pool' = pool \/ Enters(j, nonce[j])
        /\ UNCHANGED client \/ Ends(j, "failed")
    BY <1>14 DEF BroadcastLost, AfterLoss
  <2>2. Shape
    BY <2>1, <1>1, <1>2, <1>3, <1>4, <1>5 DEF client, Shape
  <2> QED
    BY <2>1, <2>2, <1>7, <1>8
<1>15. CASE ReceiptFound(j)
  <2>1. at[j] = "sent" /\ UNCHANGED <<pool, mined, faults>>
        /\ (Ends(j, "returned") \/ Ends(j, "reverted"))
    BY <1>15 DEF ReceiptFound, node
  <2> QED
    BY <2>1, <1>3, <1>5, <1>6, <1>8
<1>16. CASE PollTimesOut(j)
  <2>1. at[j] = "sent" /\ UNCHANGED <<pool, mined, faults>> /\ NextAttempt(j)
    BY <1>16 DEF PollTimesOut, node
  <2>2. Shape
    <3>1. CASE attempt[j] < MaxAttempts
      <4>1. attempt[j] + 1 \in 1 .. MaxAttempts
        BY <3>1, ClientAssumption DEF TypeOK
      <4>2. UNCHANGED <<at, nonce>> /\ attempt' = [attempt EXCEPT ![j] = @ + 1]
        BY <2>1, <3>1 DEF NextAttempt
      <4>3. Tried
        BY <4>1, <4>2 DEF Tried
      <4> QED
        BY <2>1, <4>2, <4>3, <1>1, <1>4 DEF Shape
    <3>2. CASE ~(attempt[j] < MaxAttempts)
      BY <2>1, <3>2, <1>3, <1>5 DEF NextAttempt
    <3> QED
      BY <3>1, <3>2
  <2> QED
    BY <2>1, <2>2, <1>6, <1>8
<1>17. CASE PollFails(j)
  <2>1. at[j] = "sent" /\ UNCHANGED <<pool, mined>> /\ Fault /\ Shape
    BY <1>17, <1>3, <1>5 DEF PollFails
  <2> QED
    BY <2>1, <1>7, <1>8
<1> QED
  BY <1>10, <1>11, <1>12, <1>13, <1>14, <1>15, <1>16, <1>17 DEF ClientStep

LEMMA TypeNext == TypeOK /\ [Next]_vars => TypeOK'
<1> SUFFICES ASSUME TypeOK, [Next]_vars PROVE TypeOK'
  OBVIOUS
<1>1. ASSUME NEW j \in Jobs, ClientStep(j) PROVE TypeOK'
  <2>1. at' \in [Jobs -> Places] /\ nonce' \in [Jobs -> Nat]
        /\ attempt' \in [Jobs -> 1 .. MaxAttempts]
    BY <1>1, StepShape DEF TypeOK, Places
  <2>2. pool' \subseteq [nonce : Nat, job : Jobs]
    <3>1. pool \subseteq [nonce : Nat, job : Jobs] /\ nonce[j] \in Nat
      BY DEF TypeOK, NodeTypeOK
    <3>2. pool' = pool \/ pool' = pool \cup {[nonce |-> nonce[j], job |-> j]}
      BY <1>1, StepShape DEF Enters
    <3> QED
      BY <3>1, <3>2
  <2> QED
    BY <1>1, <2>1, <2>2, StepShape DEF TypeOK, NodeTypeOK, Places
<1>2. ASSUME NEW j \in Jobs, MineCall(j) PROVE TypeOK'
  <2>1. PICK ok \in BOOLEAN : Mine(j, ok)
    BY <1>2 DEF MineCall
  <2>2. mined' \in Seq([job : Jobs, ok : BOOLEAN])
    BY <2>1, MineAppends DEF TypeOK
  <2> QED
    BY <1>2, <2>1, <2>2 DEF TypeOK, NodeTypeOK, MineCall, Mine, client
<1>3. CASE EvictCall
  BY <1>3, WalletAssumption DEF EvictCall, Evict, Fault, TypeOK, NodeTypeOK, client
<1>4. CASE UNCHANGED vars
  BY <1>4 DEF vars, client, node, TypeOK, NodeTypeOK
<1> QED
  BY <1>1, <1>2, <1>3, <1>4 DEF Next

-----------------------------------------------------------------------------
(* The calls.                                                              *)

\* What has ended stays as it ended, and a call begins only when it is ready.
LEMMA CallsMove ==
    ASSUME TypeOK, [Next]_vars, NEW k \in Jobs
    PROVE  /\ at[k] \in Ended => at'[k] = at[k]
           /\ at[k] # "idle" => at'[k] # "idle"
           /\ at[k] = "idle" /\ at'[k] # "idle" => Ready(k)
<1>1. ASSUME NEW j \in Jobs, ClientStep(j)
      PROVE  /\ at[k] \in Ended => at'[k] = at[k]
             /\ at[k] # "idle" => at'[k] # "idle"
             /\ at[k] = "idle" /\ at'[k] # "idle" => Ready(k)
  <2>1. PICK how \in Places \ {"idle"} : at' = [at EXCEPT ![j] = how]
    BY <1>1, StepShape
  <2>2. at[j] \notin Ended /\ (at[j] = "idle" => Ready(j))
    BY <1>1, StepShape
  <2>3. at \in [Jobs -> Places]
    BY DEF TypeOK, Places
  <2> QED
    BY <2>1, <2>2, <2>3
<1>2. (\E j \in Jobs : MineCall(j)) \/ EvictCall \/ UNCHANGED vars => at' = at
  BY DEF MineCall, EvictCall, client, vars
<1>3. "idle" \notin Ended
  BY DEF Ended, Thrown
<1> QED
  BY <1>1, <1>2, <1>3 DEF Next

LEMMA OverStays ==
    ASSUME TypeOK, [Next]_vars, NEW p, Over(p)
    PROVE  Over(p)'
<1>1. \A k \in Jobs : at[k] \in Ended => at'[k] = at[k]
  BY CallsMove
<1>2. Thrown \subseteq Ended /\ "returned" \in Ended
  BY DEF Ended
<1> QED
  BY <1>1, <1>2 DEF Over, Failed

LEMMA SerialNext ==
    ASSUME TypeOK, Serial, [Next]_vars
    PROVE  Serial'
<1> SUFFICES ASSUME NEW j \in Jobs, at'[j] # "idle"
             PROVE  /\ \A k \in Jobs : k[1] = j[1] /\ k[2] < j[2] => at'[k] = "returned"
                    /\ \A p \in 1 .. (j[1] - 1) : Over(p)'
  BY DEF Serial
<1>1. /\ \A k \in Jobs : k[1] = j[1] /\ k[2] < j[2] => at[k] = "returned"
      /\ \A p \in 1 .. (j[1] - 1) : Over(p)
  <2>1. CASE at[j] # "idle"
    BY <2>1 DEF Serial
  <2>2. CASE at[j] = "idle"
    BY <2>2, CallsMove DEF Ready, Awaited
  <2> QED
    BY <2>1, <2>2
<1>2. \A k \in Jobs : at[k] = "returned" => at'[k] = "returned"
  BY CallsMove DEF Ended
<1> QED
  BY <1>1, <1>2, OverStays

\* A call that is being made, or has ended, is one of a purchase that has not
\* failed otherwise.
LEMMA OneFailure ==
    ASSUME Serial, NEW j \in Jobs, at[j] # "returned", at[j] \notin Thrown,
           at[j] # "idle" \/ Ready(j)
    PROVE  ~Failed(j[1])
<1> SUFFICES ASSUME NEW f \in Jobs, f[1] = j[1], at[f] \in Thrown
             PROVE  FALSE
  BY DEF Failed
<1>1. /\ f[2] \in 1 .. 3 /\ f = <<f[1], f[2]>>
      /\ j[2] \in 1 .. 3 /\ j = <<j[1], j[2]>>
  BY JobsArePairs
<1>2. CASE f[2] < j[2]
  <2>1. at[f] = "returned"
    BY <1>2 DEF Serial, Ready, Awaited
  <2> QED
    BY <2>1 DEF Thrown
<1>3. CASE j[2] < f[2]
  <2>1. at[f] # "idle"
    BY DEF Thrown
  <2> QED
    BY <1>3, <2>1 DEF Serial
<1>4. f[2] # j[2]
  BY <1>1
<1> QED
  BY <1>1, <1>2, <1>3, <1>4

-----------------------------------------------------------------------------
(* The transactions.                                                       *)

\* A call that is being made is the only one, so its nonce changes no other's.
LEMMA NoncesKeptNext ==
    ASSUME TypeOK, NoncesKept, [Next]_vars
    PROVE  NoncesKept'
<1>1. ASSUME NEW j \in Jobs, ClientStep(j) PROVE NoncesKept'
  <2>1. \A k \in Jobs : at[k] # "idle" => at'[k] # "idle" /\ nonce'[k] = nonce[k]
    <3>1. PICK n \in Nat : nonce' = [nonce EXCEPT ![j] = n]
      BY <1>1, StepShape
    <3>2. at[j] # "idle" => nonce' = nonce
      BY <1>1, StepShape
    <3> QED
      BY <3>1, <3>2, CallsMove DEF TypeOK
  <2>2. mined' = mined
    BY <1>1, StepShape
  <2>3. \A i \in DOMAIN mined : mined[i].job \in Jobs
    BY MinedTyped DEF TypeOK
  <2>4. \A t \in pool : t.job \in Jobs
    BY DEF TypeOK, NodeTypeOK
  <2>5. CASE pool' = pool
    BY <2>1, <2>2, <2>3, <2>4, <2>5 DEF NoncesKept
  <2>6. CASE Enters(j, nonce[j]) /\ at[j] = "signed"
    <3> DEFINE new == [nonce |-> nonce[j], job |-> j]
    <3>1. pool' = pool \cup {new} /\ new.nonce = nonce[j] /\ new.job = j
      BY <2>6 DEF Enters
    <3>2. nonce[j] \in Nat /\ Len(mined) \in Nat /\ nonce[j] >= Len(mined)
      BY <2>6 DEF Enters, Taken, TypeOK, NodeTypeOK
    <3>3. \A t \in pool : t.nonce # nonce[j]
      BY <2>6 DEF Enters, Taken, PoolNonces
    <3>4. nonce'[j] = nonce[j] /\ at'[j] # "idle"
      BY <2>1, <2>6
    <3> HIDE DEF new
    <3> QED
      BY <2>1, <2>2, <2>3, <2>4, <3>1, <3>2, <3>3, <3>4 DEF NoncesKept
  <2> QED
    BY <1>1, <2>5, <2>6, StepShape
<1>2. ASSUME NEW j \in Jobs, MineCall(j) PROVE NoncesKept'
  <2> DEFINE t == [nonce |-> Len(mined), job |-> j]
  <2>1. PICK ok \in BOOLEAN : Mine(j, ok)
    BY <1>2 DEF MineCall
  <2>2. t \in pool /\ pool' = pool \ {t} /\ t.nonce = Len(mined) /\ t.job = j
    BY <2>1 DEF Mine
  <2>3. at' = at /\ nonce' = nonce
    BY <1>2 DEF MineCall, client
  <2>4. \A s \in pool : s.nonce \in Nat
    BY DEF TypeOK, NodeTypeOK
  <2>5. Len(mined) \in Nat
    BY DEF TypeOK, NodeTypeOK
  <2>6. /\ Len(mined') = Len(mined) + 1
        /\ DOMAIN mined' = 1 .. Len(mined) + 1
        /\ DOMAIN mined = 1 .. Len(mined)
        /\ \A i \in 1 .. Len(mined) : mined'[i] = mined[i]
        /\ mined'[Len(mined) + 1].job = j
    <3>1. NodeTypeOK
      BY DEF TypeOK
    <3>2. mined'[Len(mined) + 1] = [job |-> j, ok |-> ok]
      BY <2>1, <3>1, MineAppends
    <3>3. mined'[Len(mined) + 1].job = j
      BY <3>2
    <3> QED
      BY <2>1, <3>1, <3>3, MineAppends
  <2>7. nonce[j] = Len(mined) /\ at[j] # "idle"
    BY <2>2 DEF NoncesKept
  <2> HIDE DEF t
  <2>8. \A s \in pool' : /\ s.nonce >= Len(mined')
                         /\ s.nonce = nonce'[s.job]
                         /\ at'[s.job] # "idle"
    BY <2>2, <2>3, <2>4, <2>5, <2>6 DEF NoncesKept
  <2>9. \A s, u \in pool' : s.nonce = u.nonce => s = u
    BY <2>2 DEF NoncesKept
  <2>10. \A i \in DOMAIN mined' : /\ nonce'[mined'[i].job] = i - 1
                                  /\ at'[mined'[i].job] # "idle"
    BY <2>3, <2>5, <2>6, <2>7 DEF NoncesKept
  <2> QED
    BY <2>8, <2>9, <2>10 DEF NoncesKept
<1>3. CASE EvictCall
  BY <1>3 DEF EvictCall, Evict, client, NoncesKept
<1>4. CASE UNCHANGED vars
  BY <1>4 DEF vars, client, node, NoncesKept
<1> QED
  BY <1>1, <1>2, <1>3, <1>4 DEF Next

LEMMA NoncesGiveAtMostOnce == TypeOK /\ NoncesKept => AtMostOnce
BY MinedTyped DEF NoncesKept, AtMostOnce, TypeOK

\* An effect stays.
LEMMA EffectsStay ==
    ASSUME TypeOK, [Next]_vars, NEW k \in Jobs, Effective(k)
    PROVE  Effective(k)'
<1>1. ASSUME NEW j \in Jobs, MineCall(j) PROVE Effective(k)'
  <2>1. PICK ok \in BOOLEAN : Mine(j, ok)
    BY <1>1 DEF MineCall
  <2>2. /\ DOMAIN mined' = 1 .. Len(mined) + 1
        /\ DOMAIN mined = 1 .. Len(mined)
        /\ \A i \in 1 .. Len(mined) : mined'[i] = mined[i]
    BY <2>1, MineAppends DEF TypeOK
  <2>3. Len(mined) \in Nat
    BY DEF TypeOK, NodeTypeOK
  <2> QED
    BY <2>2, <2>3 DEF Effective
<1>2. ASSUME mined' = mined PROVE Effective(k)'
  BY <1>2 DEF Effective
<1> QED
  BY <1>1, <1>2, StepShape DEF Next, EvictCall, Evict, vars, node

-----------------------------------------------------------------------------
(* Collisions.                                                             *)

LEMMA ActiveAlone ==
    ASSUME Serial, NEW j \in Jobs, Active(j), NEW k \in Jobs, Active(k)
    PROVE  j = k
<1>1. /\ j[1] \in 1 .. Purchases /\ j[2] \in 1 .. 3 /\ j = <<j[1], j[2]>>
      /\ k[1] \in 1 .. Purchases /\ k[2] \in 1 .. 3 /\ k = <<k[1], k[2]>>
  BY JobsArePairs
<1>2. /\ at[j] # "idle" /\ at[j] # "returned" /\ at[j] \notin Thrown
      /\ at[k] # "idle" /\ at[k] # "returned" /\ at[k] \notin Thrown
  BY DEF Active, Thrown
<1>3. ~Over(j[1]) /\ ~Over(k[1])
  BY <1>2, OneFailure DEF Over
<1>4. ~(k[1] < j[1]) /\ ~(j[1] < k[1])
  BY <1>1, <1>2, <1>3 DEF Serial
<1>5. j[1] = k[1]
  BY <1>1, <1>4
<1>6. ~(k[2] < j[2]) /\ ~(j[2] < k[2])
  BY <1>2, <1>5 DEF Serial
<1> QED
  BY <1>1, <1>5, <1>6

LEMMA TroubleStays == TypeOK /\ [Next]_vars /\ Calm' => Calm
<1> SUFFICES ASSUME TypeOK, [Next]_vars, Calm' PROVE Calm
  OBVIOUS
<1>1. \A k \in Jobs : at[k] # "unseen"
  BY CallsMove DEF Calm, Ended, Thrown
<1>2. faults \in Nat
  BY WalletAssumption DEF TypeOK, NodeTypeOK
<1>3. faults' \in Nat /\ faults <= faults'
  <2>1. ASSUME NEW j \in Jobs, ClientStep(j) PROVE faults' \in Nat /\ faults <= faults'
    BY <2>1, StepShape, WalletAssumption
  <2>2. ASSUME NEW j \in Jobs, MineCall(j) PROVE faults' \in Nat /\ faults <= faults'
    BY <2>2, <1>2 DEF MineCall
  <2>3. EvictCall => faults' \in Nat /\ faults <= faults'
    BY <1>2 DEF EvictCall, Evict, Fault
  <2>4. UNCHANGED vars => faults' \in Nat /\ faults <= faults'
    BY <1>2 DEF vars, node
  <2> QED
    BY <2>1, <2>2, <2>3, <2>4 DEF Next
<1> QED
  BY <1>1, <1>2, <1>3 DEF Calm

\* A failed request ends the calm.
LEMMA FaultIsTrouble == TypeOK /\ Fault => ~Calm'
BY WalletAssumption DEF TypeOK, NodeTypeOK, Fault, Calm

LEMMA CalmAloneNext ==
    ASSUME TypeOK, Serial, NoncesKept, CalmAlone, [Next]_vars
    PROVE  CalmAlone'
<1> SUFFICES ASSUME Calm'
             PROVE  /\ \A t \in pool' : at'[t.job] = "sent"
                    /\ \A k \in Jobs : at'[k] = "signed" =>
                           pool' = {} /\ nonce'[k] = Len(mined')
  BY DEF CalmAlone
<1>1. Calm
  BY TroubleStays
<1>2. /\ \A t \in pool : at[t.job] = "sent" /\ t.job \in Jobs
      /\ \A k \in Jobs : at[k] = "signed" => pool = {} /\ nonce[k] = Len(mined)
  BY <1>1 DEF CalmAlone, TypeOK, NodeTypeOK
<1>3. ~Fault
  BY FaultIsTrouble
<1>4. at \in [Jobs -> Places] /\ nonce \in [Jobs -> Nat]
  BY DEF TypeOK, Places
<1>5. ASSUME NEW j \in Jobs, Sign(j)
      PROVE  /\ \A t \in pool' : at'[t.job] = "sent"
             /\ \A k \in Jobs : at'[k] = "signed" =>
                    pool' = {} /\ nonce'[k] = Len(mined')
  <2>1. \A k \in Jobs : at[k] \notin {"signed", "sent"}
    BY <1>5, ReadyAlone DEF Sign, Active
  <2>2. pool = {}
    BY <1>2, <2>1
  <2>3. Counts = {Len(mined)}
    BY <2>2 DEF Counts, PoolNonces
  <2>4. /\ pool' = {} /\ mined' = mined
        /\ nonce' = [nonce EXCEPT ![j] = Len(mined)]
        /\ at' = [at EXCEPT ![j] = "signed"]
    BY <1>5, <2>2, <2>3 DEF Sign, node
  <2> QED
    BY <1>4, <2>1, <2>4
<1>6. ASSUME NEW j \in Jobs, NEW how \in Places \ {"signed"}, Ends(j, how),
             UNCHANGED <<pool, mined>>, \A t \in pool : t.job # j
      PROVE  /\ \A t \in pool' : at'[t.job] = "sent"
             /\ \A k \in Jobs : at'[k] = "signed" =>
                    pool' = {} /\ nonce'[k] = Len(mined')
  BY <1>2, <1>4, <1>6 DEF Ends
<1>7. Ended \subseteq Places \ {"signed"}
  BY DEF Places, Ended, Thrown
<1>8. ASSUME NEW j \in Jobs, SignFails(j) \/ BroadcastRefused(j)
      PROVE  /\ \A t \in pool' : at'[t.job] = "sent"
             /\ \A k \in Jobs : at'[k] = "signed" =>
                    pool' = {} /\ nonce'[k] = Len(mined')
  <2>1. at[j] # "sent"
    BY <1>8 DEF SignFails, Ready, BroadcastRefused
  <2>2. \E how \in Ended : Ends(j, how)
    BY <1>8 DEF SignFails, BroadcastRefused, Ended, Thrown
  <2>3. UNCHANGED <<pool, mined>>
    BY <1>8 DEF SignFails, BroadcastRefused, node
  <2> QED
    BY <1>2, <1>6, <1>7, <2>1, <2>2, <2>3
<1>9. ASSUME NEW j \in Jobs, Broadcast(j)
      PROVE  /\ \A t \in pool' : at'[t.job] = "sent"
             /\ \A k \in Jobs : at'[k] = "signed" =>
                    pool' = {} /\ nonce'[k] = Len(mined')
  <2>1. pool = {} /\ at[j] = "signed" /\ at' = [at EXCEPT ![j] = "sent"]
    BY <1>2, <1>9 DEF Broadcast, Ends
  <2>2. pool' = {[nonce |-> nonce[j], job |-> j]}
    BY <1>9, <2>1 DEF Broadcast, Enters
  <2>3. \A k \in Jobs : at[k] = "signed" => k = j
    BY <2>1, ActiveAlone DEF Active
  <2> QED
    BY <1>4, <2>1, <2>2, <2>3
<1>10. ASSUME NEW j \in Jobs, ReceiptFound(j)
      PROVE  /\ \A t \in pool' : at'[t.job] = "sent"
             /\ \A k \in Jobs : at'[k] = "signed" =>
                    pool' = {} /\ nonce'[k] = Len(mined')
  <2>1. nonce[j] < Len(mined) /\ nonce[j] \in Nat /\ Len(mined) \in Nat
    BY <1>4, <1>10 DEF ReceiptFound, Mined, TypeOK, NodeTypeOK
  <2>2. \A t \in pool : t.job # j
    BY <2>1 DEF NoncesKept
  <2>3. \E how \in Ended : Ends(j, how)
    BY <1>10 DEF ReceiptFound, Ended, Thrown
  <2> QED
    BY <1>6, <1>7, <1>10, <2>2, <2>3 DEF ReceiptFound, node
<1>11. ASSUME NEW j \in Jobs, PollTimesOut(j)
      PROVE  at' = at /\ UNCHANGED <<pool, mined, nonce>>
  BY <1>4, <1>11 DEF PollTimesOut, NextAttempt, Ends, Calm, node
<1>12. ASSUME NEW j \in Jobs, MineCall(j)
       PROVE  /\ \A t \in pool' : at'[t.job] = "sent"
              /\ \A k \in Jobs : at'[k] = "signed" =>
                     pool' = {} /\ nonce'[k] = Len(mined')
  <2>1. pool' \subseteq pool /\ pool # {} /\ at' = at
    BY <1>12 DEF MineCall, Mine, client
  <2> QED
    BY <1>2, <2>1
<1>13. EvictCall \/ (\E j \in Jobs : BroadcastLost(j) \/ PollFails(j)) => FALSE
  BY <1>3 DEF EvictCall, Evict, BroadcastLost, PollFails
<1>14. UNCHANGED vars => UNCHANGED <<at, pool, mined, nonce>>
  BY DEF vars, client, node
<1> QED
  BY <1>2, <1>5, <1>8, <1>9, <1>10, <1>11, <1>12, <1>13, <1>14 DEF Next, ClientStep

\* What the calm is for: the nonce of a call is never taken.
LEMMA RefusedNext ==
    ASSUME TypeOK, CalmAlone, RefusedOnlyAfterTrouble, [Next]_vars
    PROVE  RefusedOnlyAfterTrouble'
<1> SUFFICES ASSUME Calm', NEW k \in Jobs, at'[k] = "refused" PROVE FALSE
  <2>1. ~Calm' => faults' > 0 \/ \E k \in Jobs : at'[k] = "unseen"
    <3>1. faults' \in Nat
      BY TypeNext, WalletAssumption DEF TypeOK, NodeTypeOK
    <3> QED
      BY <3>1 DEF Calm
  <2> QED
    BY <2>1 DEF RefusedOnlyAfterTrouble
<1>1. Calm
  BY TroubleStays
<1>2. at[k] # "refused"
  BY <1>1, WalletAssumption DEF Calm, RefusedOnlyAfterTrouble
<1>3. at \in [Jobs -> Places]
  BY DEF TypeOK, Places
<1>4. ASSUME NEW j \in Jobs, ClientStep(j) PROVE BroadcastRefused(j)
  <2>1. \A how : Ends(j, how) /\ how # "refused" => FALSE
    BY <1>2, <1>3 DEF Ends
  <2>2. UNCHANGED at => FALSE
    BY <1>2
  <2>3. ~Sign(j)
    BY <1>2, <1>3 DEF Sign
  <2> QED
    BY <1>4, <2>1, <2>2, <2>3
    DEF ClientStep, SignFails, Broadcast, BroadcastLost, AfterLoss, client,
        ReceiptFound, PollTimesOut, NextAttempt, PollFails
<1>5. ASSUME NEW j \in Jobs, BroadcastRefused(j) PROVE FALSE
  <2>1. at[j] = "signed" /\ Taken(nonce[j])
    BY <1>5 DEF BroadcastRefused
  <2>2. pool = {} /\ nonce[j] = Len(mined)
    BY <1>1, <2>1 DEF CalmAlone
  <2>3. Len(mined) \in Nat
    BY DEF TypeOK, NodeTypeOK
  <2> QED
    BY <2>1, <2>2, <2>3 DEF Taken, PoolNonces
<1>6. UNCHANGED at => FALSE
  BY <1>2
<1> QED
  BY <1>4, <1>5, <1>6 DEF Next, MineCall, EvictCall, vars, client

\* What a call returns on is a receipt that says success.
LEMMA ReturnNext ==
    ASSUME TypeOK, ReturnMeansMined, [Next]_vars
    PROVE  ReturnMeansMined'
<1> SUFFICES ASSUME NEW k \in Jobs, at'[k] = "returned" PROVE Effective(k)'
  BY DEF ReturnMeansMined
<1>1. CASE at[k] = "returned"
  BY <1>1, EffectsStay DEF ReturnMeansMined
<1>2. CASE at[k] # "returned"
  <2>1. at \in [Jobs -> Places]
    BY DEF TypeOK, Places
  <2>2. PICK j \in Jobs : ClientStep(j)
    BY <1>2 DEF Next, MineCall, EvictCall, vars, client
  <2>3. \A how : Ends(j, how) /\ how # "returned" => FALSE
    BY <1>2, <2>1 DEF Ends
  <2>4. UNCHANGED at => FALSE
    BY <1>2
  <2>5. ~Sign(j)
    BY <1>2, <2>1 DEF Sign
  <2>6. ReceiptFound(j)
    BY <2>2, <2>3, <2>4, <2>5
    DEF ClientStep, SignFails, Broadcast, BroadcastRefused, BroadcastLost, AfterLoss,
        client, PollTimesOut, NextAttempt, PollFails
  <2>7. k = j
    BY <1>2, <2>1, <2>6 DEF ReceiptFound, Ends
  <2>8. mined[nonce[j] + 1].ok /\ mined' = mined
    BY <2>3, <2>6 DEF ReceiptFound, StatusOf, node
  <2>9. nonce[j] + 1 \in DOMAIN mined /\ mined[nonce[j] + 1].job = j
    BY <2>6 DEF ReceiptFound, Mined, TypeOK, NodeTypeOK
  <2> QED
    BY <2>7, <2>8, <2>9 DEF Effective
<1> QED
  BY <1>1, <1>2

-----------------------------------------------------------------------------
(* The theorems.                                                           *)

LEMMA IInvInit == Init => IInv
<1> SUFFICES ASSUME Init PROVE IInv
  OBVIOUS
<1>1. /\ \A j \in Jobs : at[j] = "idle"
      /\ pool = {} /\ DOMAIN mined = {}
  BY DEF Init, NodeInit
<1> QED
  BY <1>1, TypeInit
  DEF IInv, Serial, NoncesKept, CalmAlone, ReturnMeansMined, RefusedOnlyAfterTrouble

LEMMA IInvNext == IInv /\ [Next]_vars => IInv'
BY TypeNext, SerialNext, NoncesKeptNext, CalmAloneNext, ReturnNext, RefusedNext
DEF IInv

LEMMA Invariance == Spec => []IInv
BY IInvInit, IInvNext, PTL DEF Spec

\* The state of the client and of its node keep their types.
THEOREM ClientTypeCorrect == Spec => []TypeOK
BY Invariance, PTL DEF IInv

\* A call of chain.mjs that returns has had its effect on the chain.
THEOREM ReturnIsEffect == Spec => []ReturnMeansMined
BY Invariance, PTL DEF IInv

\* No call takes effect twice, however often a request is repeated.
THEOREM EffectAtMostOnce == Spec => []AtMostOnce
<1>1. IInv => AtMostOnce
  BY NoncesGiveAtMostOnce DEF IInv
<1> QED
  BY <1>1, Invariance, PTL

\* Without a failed request or an abandoned transaction no nonce is refused.
THEOREM NoCollisionInCalm == Spec => []RefusedOnlyAfterTrouble
BY Invariance, PTL DEF IInv

-----------------------------------------------------------------------------
(* The refinement: a transaction mined with success is Happen, a receipt   *)
(* with success Confirm, an exception GiveUp; all else is a stutter.       *)

happenedNow == {j \in Jobs : Effective(j)}
confirmedNow == {j \in Jobs : at[j] = "returned"}
failedNow == {p \in 1 .. Purchases : Failed(p)}

LEMMA LogInit == Init => Log!Init
<1> SUFFICES ASSUME Init PROVE Log!Init
  OBVIOUS
<1>1. /\ \A j \in Jobs : at[j] = "idle"
      /\ DOMAIN mined = {}
  BY DEF Init, NodeInit
<1> QED
  BY <1>1 DEF Log!Init, Effective, Failed, Thrown

\* Where an active or a mined call stands in the log.
LEMMA SerialInLog ==
    ASSUME Serial, NEW j \in Jobs, at[j] # "idle" \/ Ready(j)
    PROVE  /\ Log!EarlierConfirmed(j)
           /\ \A p \in 1 .. (j[1] - 1) : Log!Concluded(p)
<1>1. Log!EarlierConfirmed(j)
  BY DEF Log!EarlierConfirmed, Serial, Ready, Awaited
<1>2. ASSUME NEW p \in 1 .. (j[1] - 1) PROVE Log!Concluded(p)
  <2>1. Over(p)
    BY DEF Serial, Ready
  <2>2. p \in 1 .. Purchases
    BY JobsArePairs, ClientAssumption
  <2> QED
    BY <2>1, <2>2 DEF Log!Concluded, Over
<1> QED
  BY <1>1, <1>2

LEMMA EndedStep ==
    ASSUME TypeOK, Serial, NEW j \in Jobs, at[j] # "returned", at[j] \notin Thrown,
           at[j] # "idle" \/ Ready(j), NEW how \in Thrown, Ends(j, how), mined' = mined
    PROVE  Log!GiveUp(j)
<1>1. at' = [at EXCEPT ![j] = how] /\ at \in [Jobs -> Places] /\ how # "returned"
  BY DEF Ends, TypeOK, Places, Thrown
<1>2. j[1] \in 1 .. Purchases
  BY JobsArePairs
<1>3. UNCHANGED <<happenedNow, confirmedNow>>
  BY <1>1 DEF happenedNow, confirmedNow, Effective
<1>4. failedNow' = failedNow \cup {j[1]}
  <2>1. \A k \in Jobs : at'[k] \in Thrown <=> at[k] \in Thrown \/ k = j
    BY <1>1
  <2> QED
    BY <1>2, <2>1 DEF failedNow, Failed
<1>5. j[1] \notin failedNow
  BY OneFailure DEF failedNow
<1>6. Log!EarlierConfirmed(j)
  BY SerialInLog
<1>7. j \notin confirmedNow
  BY DEF confirmedNow
<1> QED
  BY <1>3, <1>4, <1>5, <1>6, <1>7
  DEF Log!GiveUp, happenedNow, confirmedNow, failedNow

LEMMA LogStep == IInv /\ [Next]_vars => [Log!Next]_Log!view
<1> SUFFICES ASSUME IInv, [Next]_vars
             PROVE  (\E j \in Jobs : Log!Happen(j) \/ Log!Confirm(j) \/ Log!GiveUp(j))
                    \/ UNCHANGED <<happenedNow, confirmedNow, failedNow>>
  BY DEF Log!Next, Log!view, happenedNow, confirmedNow, failedNow
<1> USE DEF IInv
<1>1. at \in [Jobs -> Places]
  BY DEF TypeOK, Places
<1>2. ASSUME UNCHANGED <<at, mined>>
      PROVE  UNCHANGED <<happenedNow, confirmedNow, failedNow>>
  BY <1>2 DEF happenedNow, confirmedNow, failedNow, Effective, Failed
<1>3. ASSUME NEW j \in Jobs, NEW how \in {"signed", "sent"},
             at[j] \in {"idle", "signed", "sent"}, at' = [at EXCEPT ![j] = how],
             mined' = mined
      PROVE  UNCHANGED <<happenedNow, confirmedNow, failedNow>>
  <2>1. \A k \in Jobs : /\ at'[k] = "returned" <=> at[k] = "returned"
                        /\ at'[k] \in Thrown <=> at[k] \in Thrown
    BY <1>1, <1>3 DEF Thrown
  <2> QED
    BY <1>3, <2>1 DEF happenedNow, confirmedNow, failedNow, Effective, Failed
<1>4. ASSUME NEW j \in Jobs, ClientStep(j)
      PROVE  Log!Confirm(j) \/ Log!GiveUp(j)
             \/ UNCHANGED <<happenedNow, confirmedNow, failedNow>>
  <2>1. mined' = mined /\ at[j] \notin Ended /\ (at[j] # "idle" \/ Ready(j))
    BY <1>4, StepShape
  <2>2. at[j] # "returned" /\ at[j] \notin Thrown
    BY <2>1 DEF Ended
  <2>3. \A how \in Thrown : Ends(j, how) => Log!GiveUp(j)
    BY <2>1, <2>2, EndedStep
  <2>4. {"failed", "refused", "reverted", "unseen"} = Thrown
    BY DEF Thrown
  <2>5. CASE Sign(j) \/ Broadcast(j)
    BY <1>3, <2>1, <2>5 DEF Sign, Ready, Broadcast, Ends
  <2>6. CASE SignFails(j) \/ BroadcastRefused(j) \/ PollFails(j)
    BY <2>3, <2>4, <2>6 DEF SignFails, BroadcastRefused, PollFails
  <2>7. CASE BroadcastLost(j)
    BY <1>2, <2>1, <2>3, <2>4, <2>7 DEF BroadcastLost, AfterLoss, client
  <2>8. CASE PollTimesOut(j)
    BY <1>2, <2>1, <2>3, <2>4, <2>8 DEF PollTimesOut, NextAttempt
  <2>9. CASE ReceiptFound(j)
    <3>1. CASE ~mined[nonce[j] + 1].ok
      BY <2>3, <2>4, <2>9, <3>1 DEF ReceiptFound, StatusOf
    <3>2. CASE mined[nonce[j] + 1].ok
      <4>1. at' = [at EXCEPT ![j] = "returned"] /\ Mined(j, nonce[j])
        BY <2>9, <3>2 DEF ReceiptFound, StatusOf, Ends
      <4>2. Effective(j)
        <5>1. nonce[j] \in Nat /\ Len(mined) \in Nat /\ DOMAIN mined = 1 .. Len(mined)
          BY DEF TypeOK, NodeTypeOK
        <5> QED
          BY <3>2, <4>1, <5>1 DEF Mined, Effective
      <4>3. confirmedNow' = confirmedNow \cup {j}
        BY <1>1, <4>1 DEF confirmedNow
      <4>4. \A k \in Jobs : at'[k] \in Thrown <=> at[k] \in Thrown
        BY <1>1, <2>2, <4>1 DEF Thrown
      <4>5. UNCHANGED <<happenedNow, failedNow>>
        BY <2>1, <4>4 DEF happenedNow, failedNow, Effective, Failed
      <4>6. j \in happenedNow \ confirmedNow
        BY <2>2, <4>2 DEF happenedNow, confirmedNow
      <4>7. j[1] \notin failedNow
        BY <2>1, <2>2, OneFailure DEF failedNow
      <4> QED
        BY <4>3, <4>5, <4>6, <4>7 DEF Log!Confirm, happenedNow, confirmedNow, failedNow
    <3> QED
      BY <3>1, <3>2
  <2> QED
    BY <1>4, <2>5, <2>6, <2>7, <2>8, <2>9 DEF ClientStep
<1>5. ASSUME NEW j \in Jobs, MineCall(j)
      PROVE  Log!Happen(j) \/ UNCHANGED <<happenedNow, confirmedNow, failedNow>>
  <2>1. PICK ok \in BOOLEAN : Mine(j, ok)
    BY <1>5 DEF MineCall
  <2>2. at' = at
    BY <1>5 DEF MineCall, client
  <2>3. UNCHANGED <<confirmedNow, failedNow>>
    BY <2>2 DEF confirmedNow, failedNow, Failed
  <2>4. /\ DOMAIN mined' = 1 .. Len(mined) + 1 /\ DOMAIN mined = 1 .. Len(mined)
        /\ \A i \in 1 .. Len(mined) : mined'[i] = mined[i]
        /\ mined'[Len(mined) + 1] = [job |-> j, ok |-> ok]
        /\ Len(mined) \in Nat
    BY <2>1, MineAppends DEF TypeOK, NodeTypeOK
  <2>5. \A k \in Jobs : Effective(k)' <=> Effective(k) \/ (k = j /\ ok)
    BY <2>4 DEF Effective
  <2>6. at[j] # "idle" /\ ~Effective(j)
    <3> DEFINE t == [nonce |-> Len(mined), job |-> j]
    <3>1. t \in pool /\ t.job = j /\ t.nonce = Len(mined)
      BY <2>1 DEF Mine
    <3> HIDE DEF t
    <3>2. nonce[j] = Len(mined) /\ at[j] # "idle"
      BY <3>1 DEF NoncesKept
    <3>3. \A i \in DOMAIN mined : mined[i].job # j
      BY <2>4, <3>2 DEF NoncesKept
    <3> QED
      BY <3>2, <3>3 DEF Effective
  <2>7. CASE ~ok
    BY <2>3, <2>5, <2>7 DEF happenedNow
  <2>8. CASE ok
    <3>1. happenedNow' = happenedNow \cup {j} /\ j \notin happenedNow
      BY <2>5, <2>6, <2>8 DEF happenedNow
    <3>2. Log!EarlierConfirmed(j) /\ \A p \in 1 .. (j[1] - 1) : Log!Concluded(p)
      BY <2>6, SerialInLog
    <3> QED
      BY <2>3, <3>1, <3>2 DEF Log!Happen, happenedNow, confirmedNow, failedNow
  <2> QED
    BY <2>7, <2>8
<1>6. CASE EvictCall \/ UNCHANGED vars
  BY <1>2, <1>6 DEF EvictCall, Evict, client, vars, node
<1> QED
  BY <1>4, <1>5, <1>6 DEF Next

\* Whatever is lost, evicted or abandoned, the purchases behave as PurchaseLog
\* says: every effect comes in its place, at most one ahead of the caller.
THEOREM ClientImplementsLog == Spec => ImplementsLog
<1>1. Spec => Log!Spec
  BY LogInit, LogStep, Invariance, PTL DEF Spec, Log!Spec
<1> QED
  BY <1>1 DEF ImplementsLog
=============================================================================
