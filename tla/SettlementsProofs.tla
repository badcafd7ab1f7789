------------------------- MODULE SettlementsProofs -------------------------
(***************************************************************************)
(* Proofs about Settlements and the EnsUpdater in it, for any number of    *)
(* trades, records and faults: an update sends a write only once those     *)
(* before it are on the chain (DoneSoFar, JobsBegun), and begins only once *)
(* its trade is settled (BegunMeansBack).  The receipt it waits for is the *)
(* one of its nonce, so this rests on what is mined there being its own    *)
(* (OwnPlace), and holds as long as nobody can take a lost transaction's   *)
(* place (Undisturbed).                                                    *)
(*                                                                         *)
(* What needs a history without accidents is proved from OrderInv: calls   *)
(* come in turn (InTurn), so an update that overlaps none is the latest    *)
(* (LatestRuns), and its transactions queue up behind all the others       *)
(* (PoolInOrder); if nothing failed either, it has the pool to itself      *)
(* (CalmAlone) and the name it writes is ours (OursWhenReady).             *)
(***************************************************************************)
EXTENDS Settlements, SequenceTheorems, NaturalsInduction, WellFoundedInduction, TLAPS

U == 1 .. Updates
Places == {"idle", "reading", "rereading", "ready", "signed", "sent", "ok", "failed",
           "unseen"}

\* An update that was not begun is at its first write.
FreshStart == \A u \in U : at[u] = "idle" => step[u] = 1 /\ kind[u] = "text"

\* No transaction is ahead of its update.
JobsBegun ==
    /\ \A t \in pool : at[t.job[1]] # "idle" /\ t.job[2] <= step[t.job[1]]
    /\ \A i \in DOMAIN mined :
           at[mined[i].job[1]] # "idle" /\ mined[i].job[2] <= step[mined[i].job[1]]

\* The writes before the one an update is at have happened.
DoneSoFar ==
    Undisturbed =>
        \A u \in U :
            /\ \A i \in 1 .. step[u] - 1 : Effective(<<u, i, "text">>)
            /\ at[u] = "ok" => /\ step[u] = Len(Writes(u))
                               /\ Effective(<<u, step[u], "text">>)

EnsInv == TypeOK /\ FreshStart /\ JobsBegun /\ DoneSoFar

\* Without an overlap one update runs at most.
Alone == "overlapped" \notin mishaps => \A u, v \in U : Running(u) /\ Running(v) => u = v

\* The nonce of an update that waits is used by its own transaction or by none; if
\* the node forgets none, by its own.
OwnPlace ==
    Undisturbed =>
        \A u \in U :
            at[u] = "sent" =>
                /\ nonce[u] < Len(mined) => mined[nonce[u] + 1].job = Job(u)
                /\ \A t \in pool : t.nonce = nonce[u] => t.job = Job(u)
                /\ "forgotten" \notin mishaps => Taken(nonce[u])

PlaceInv == Alone /\ OwnPlace

BegunMeansBack == \A u \in U : at[u] # "idle" => u \in back

BackMeansSettled ==
    /\ confirmed \subseteq happened
    /\ \A p \in back : Settled(p)

IInv == EnsInv /\ PlaceInv /\ BegunMeansBack /\ BackMeansSettled

-----------------------------------------------------------------------------
LEMMA JobParts ==
    ASSUME NEW j \in Jobs
    PROVE  /\ j[1] \in U /\ j[3] \in {"text", "create"} /\ j = <<j[1], j[2], j[3]>>
           /\ j[2] \in 1 .. Len(ParentKeys) + Len(AgentKeys)
BY JobsAreWrites DEF U

LEMMA KeyLengths == Len(ParentKeys) \in Nat \ {0} /\ Len(AgentKeys) \in Nat \ {0}
BY EnsAssumption

LEMMA RecordsOf ==
    ASSUME NEW name, NEW keys \in Seq(STRING)
    PROVE  LET s == [i \in DOMAIN keys |-> <<name, keys[i]>>]
           IN  s \in Seq({name} \X STRING) /\ Len(s) = Len(keys)
<1> DEFINE s == [i \in DOMAIN keys |-> <<name, keys[i]>>]
<1>1. DOMAIN keys = 1 .. Len(keys) /\ Len(keys) \in Nat
  BY LenProperties
<1>2. \A i \in 1 .. Len(keys) : keys[i] \in STRING
  BY ElementOfSeq
<1>3. s \in [1 .. Len(keys) -> {name} \X STRING]
  BY <1>1, <1>2
<1>4. s \in Seq({name} \X STRING)
  BY <1>1, <1>3, SeqDef
<1>5. Len(s) = Len(keys)
  BY <1>1, <1>3, <1>4, LenProperties
<1> QED BY <1>4, <1>5

LEMMA ListLengths ==
    ASSUME NEW l
    PROVE  LET w == [i \in DOMAIN ParentKeys |-> <<Parent, ParentKeys[i]>>] \o
                       IF l = NoLabel THEN <<>>
                       ELSE [i \in DOMAIN AgentKeys |-> <<l, AgentKeys[i]>>]
           IN  /\ Len(w) \in 1 .. Len(ParentKeys) + Len(AgentKeys)
               /\ DOMAIN w = 1 .. Len(w)
<1> DEFINE p == [i \in DOMAIN ParentKeys |-> <<Parent, ParentKeys[i]>>]
           a == [i \in DOMAIN AgentKeys |-> <<l, AgentKeys[i]>>]
           S == {Parent, l} \X STRING
           w == p \o IF l = NoLabel THEN <<>> ELSE a
<1>1. p \in Seq({Parent} \X STRING) /\ Len(p) = Len(ParentKeys)
  BY RecordsOf, EnsAssumption
<1>2. a \in Seq({l} \X STRING) /\ Len(a) = Len(AgentKeys)
  BY RecordsOf, EnsAssumption
<1>3. {Parent} \X STRING \subseteq S /\ {l} \X STRING \subseteq S
  OBVIOUS
<1> HIDE DEF p, a, S
<1>4. p \in Seq(S) /\ a \in Seq(S)
  BY <1>1, <1>2, <1>3, SeqMonotonic
<1>5. p \o a \in Seq(S) /\ Len(p \o a) = Len(p) + Len(a)
  BY <1>4, ConcatProperties
<1>6. p \o << >> = p
  BY <1>4, ConcatEmptySeq
<1>7. w \in {p, p \o a}
  BY <1>6
<1> HIDE DEF w
<1>8. w \in Seq(S)
  BY <1>4, <1>5, <1>7
<1>9. Len(w) \in 1 .. Len(ParentKeys) + Len(AgentKeys)
  BY <1>1, <1>2, <1>5, <1>7, KeyLengths
<1>10. DOMAIN w = 1 .. Len(w)
  BY <1>8, LenProperties
<1> QED BY <1>9, <1>10 DEF w, p, a

LEMMA WritesLength ==
    ASSUME NEW u \in U
    PROVE  /\ Len(Writes(u)) \in 1 .. Len(ParentKeys) + Len(AgentKeys)
           /\ DOMAIN Writes(u) = 1 .. Len(Writes(u))
           /\ Len(Writes(u)') \in 1 .. Len(ParentKeys) + Len(AgentKeys)
           /\ DOMAIN Writes(u)' = 1 .. Len(Writes(u)')
BY ListLengths DEF Writes

LEMMA JobTyped ==
    ASSUME TypeOK, NEW u \in U
    PROVE  /\ Job(u) \in Jobs /\ Job(u) = <<u, step[u], kind[u]>>
           /\ step[u] \in DOMAIN Writes(u) /\ step[u] \in 1 .. Len(Writes(u))
           /\ kind[u] \in {"text", "create"} /\ nonce[u] \in Nat
<1>1. step[u] \in DOMAIN Writes(u) /\ kind[u] \in {"text", "create"} /\ nonce[u] \in Nat
  BY DEF TypeOK, U
<1>2. step[u] \in 1 .. Len(Writes(u)) /\ step[u] \in 1 .. Len(ParentKeys) + Len(AgentKeys)
  BY <1>1, WritesLength, KeyLengths
<1> QED BY <1>1, <1>2, JobsAreWrites DEF Job, U

LEMMA MinedTyped ==
    ASSUME NodeTypeOK, NEW i \in DOMAIN mined
    PROVE  /\ i \in 1 .. Len(mined) /\ i \in Nat
           /\ mined[i].job \in Jobs /\ mined[i].ok \in BOOLEAN
<1> DEFINE S == [job : Jobs, ok : BOOLEAN]
<1>1. mined \in Seq(S)
  BY DEF NodeTypeOK
<1> HIDE DEF S
<1>2. DOMAIN mined = 1 .. Len(mined) /\ Len(mined) \in Nat
  BY <1>1, LenProperties
<1>3. mined[i] \in S
  BY <1>1, <1>2, ElementOfSeq
<1>4. mined[i].job \in Jobs /\ mined[i].ok \in BOOLEAN
  BY <1>3 DEF S
<1> QED BY <1>2, <1>4

LEMMA MineAppends ==
    ASSUME NodeTypeOK, NEW j \in Jobs, NEW ok \in BOOLEAN, Mine(j, ok)
    PROVE  /\ DOMAIN mined' = 1 .. Len(mined) + 1
           /\ DOMAIN mined = 1 .. Len(mined) /\ Len(mined) \in Nat
           /\ \A i \in 1 .. Len(mined) : mined'[i] = mined[i]
           /\ mined'[Len(mined) + 1] = [job |-> j, ok |-> ok]
           /\ mined' \in Seq([job : Jobs, ok : BOOLEAN])
BY DEF Mine, NodeTypeOK

\* What has taken effect stays so.
LEMMA EffectsStay ==
    ASSUME NodeTypeOK, NEW j \in Jobs, NEW ok \in BOOLEAN, Mine(j, ok),
           NEW k, Effective(k)
    PROVE  Effective(k)'
<1>1. PICK i \in DOMAIN mined : mined[i].job = k /\ mined[i].ok
  BY DEF Effective
<1>2. /\ DOMAIN mined' = 1 .. Len(mined) + 1
      /\ DOMAIN mined = 1 .. Len(mined) /\ Len(mined) \in Nat
      /\ \A n \in 1 .. Len(mined) : mined'[n] = mined[n]
  BY MineAppends
<1>3. i \in 1 .. Len(mined) /\ i \in DOMAIN mined' /\ mined'[i] = mined[i]
  BY <1>2
<1> QED BY <1>1, <1>3 DEF Effective
-----------------------------------------------------------------------------
(* The updater.                                                            *)

\* A step that neither finishes a write nor has anything mined.
LEMMA SteadyInv ==
    ASSUME EnsInv, NEW u \in U, at[u] # "idle",
           at' \in [U -> Places], kind' \in [U -> {"text", "create"}],
           at'[u] \notin {"idle", "ok"},
           \A v \in U \ {u} : at'[v] = at[v] /\ kind'[v] = kind[v],
           UNCHANGED <<label, step, mined, mishaps>>,
           pool' \subseteq pool \cup {[nonce |-> nonce[u], job |-> Job(u)]}
    PROVE  (FreshStart /\ JobsBegun /\ DoneSoFar)'
<1>1. \A v \in U : at[v] # "idle" => at'[v] # "idle"
  OBVIOUS
<1>2. FreshStart'
  BY DEF EnsInv, FreshStart
<1>3. \A k : Effective(k)' <=> Effective(k)
  BY DEF Effective
<1>4. \A v \in U : Writes(v)' = Writes(v)
  BY DEF Writes
<1>5. DoneSoFar'
  BY <1>3, <1>4 DEF EnsInv, DoneSoFar, Undisturbed
<1>6. \A t \in pool' : at'[t.job[1]] # "idle" /\ t.job[2] <= step'[t.job[1]]
  <2> SUFFICES ASSUME NEW t \in pool'
               PROVE  at'[t.job[1]] # "idle" /\ t.job[2] <= step'[t.job[1]]
    OBVIOUS
  <2>1. CASE t \in pool
    <3>1. t.job \in Jobs
      BY <2>1 DEF EnsInv, TypeOK, NodeTypeOK
    <3> QED BY <1>1, <2>1, <3>1, JobParts DEF EnsInv, JobsBegun
  <2>2. CASE t = [nonce |-> nonce[u], job |-> Job(u)]
    <3>1. t.job[1] = u /\ t.job[2] = step[u] /\ step[u] \in Nat
      BY <2>2 DEF Job, EnsInv, TypeOK, U
    <3> QED BY <1>1, <3>1
  <2> QED BY <2>1, <2>2
<1>7. \A i \in DOMAIN mined' :
         at'[mined'[i].job[1]] # "idle" /\ mined'[i].job[2] <= step'[mined'[i].job[1]]
  <2> SUFFICES ASSUME NEW i \in DOMAIN mined
               PROVE  at'[mined[i].job[1]] # "idle" /\ mined[i].job[2] <= step[mined[i].job[1]]
    OBVIOUS
  <2>1. mined[i].job \in Jobs
    BY MinedTyped DEF EnsInv, TypeOK
  <2> QED BY <1>1, <2>1, JobParts DEF EnsInv, JobsBegun
<1> QED BY <1>2, <1>5, <1>6, <1>7 DEF JobsBegun

LEMMA CountsAreNat == ASSUME NodeTypeOK PROVE Counts \subseteq Nat
BY DEF Counts, NodeTypeOK, PoolNonces

\* The steps SteadyInv is about, and that they keep the types.
Steady(u) ==
    \/ ReadOwner(u) \/ CreateUnlessOwned(u) \/ Sign(u) \/ RequestFails(u)
    \/ Broadcast(u) \/ BroadcastRefused(u) \/ BroadcastLost(u)
    \/ ReceiptReverted(u) \/ PollTimesOut(u)

LEMMA OwnedOrNot ==
    ASSUME TypeOK, NEW u \in U, ~Owned(Name(u))
    PROVE  Writes(u)[step[u]][1] # Parent
BY DEF Owned, Name

LEMMA LocalTypes ==
    ASSUME TypeOK, NEW u \in U,
           UNCHANGED <<label, step>>,
           at' \in [U -> Places],
           kind' \in [U -> {"text", "create"}],
           \A v \in U \ {u} : kind'[v] = kind[v],
           kind'[u] = "create" => kind[u] = "create" \/ Writes(u)[step[u]][1] # Parent,
           nonce' \in [U -> Nat], mishaps' \subseteq {"overlapped", "forgotten"}, NodeTypeOK'
    PROVE  TypeOK'
<1>1. \A v \in U : Writes(v)' = Writes(v)
  BY DEF Writes
<1> QED BY <1>1 DEF TypeOK, U, Places

LEMMA EntersTyped ==
    ASSUME NodeTypeOK, NEW j \in Jobs, NEW n \in Nat, Enters(j, n) \/ UNCHANGED pool
    PROVE  /\ pool' \subseteq [nonce : Nat, job : Jobs]
           /\ pool' \subseteq pool \cup {[nonce |-> n, job |-> j]}
BY DEF Enters, NodeTypeOK

LEMMA FaultTyped ==
    ASSUME NodeTypeOK, Fault \/ UNCHANGED faults
    PROVE  faults' \in 0 .. MaxFaults
BY WalletAssumption DEF Fault, NodeTypeOK

LEMMA SteadyStep ==
    ASSUME EnsInv, NEW u \in U, Steady(u)
    PROVE  EnsInv'
<1> USE DEF Goes, Answered
<1>1. TypeOK /\ NodeTypeOK /\ Job(u) \in Jobs /\ nonce[u] \in Nat
  BY JobTyped DEF EnsInv, TypeOK
<1>2. /\ at \in [U -> Places]
      /\ kind \in [U -> {"text", "create"}]
      /\ nonce \in [U -> Nat] /\ mishaps \subseteq {"overlapped", "forgotten"}
  BY DEF EnsInv, TypeOK, U, Places
<1>3. UNCHANGED <<label, step, mined, mishaps>>
  BY DEF Steady, ReadOwner, CreateUnlessOwned, Sign, Due, RequestFails, Broadcast,
     BroadcastRefused, BroadcastLost, AfterLoss, AfterBroadcast, ReceiptReverted,
     PollTimesOut, GivesUp, node, updater
<1>4. /\ at[u] # "idle"
      /\ \E w \in {"reading", "rereading", "ready", "signed", "sent", "failed", "unseen"} :
             at' = [at EXCEPT ![u] = w]
  <2>1. CASE BroadcastLost(u)
    BY <2>1, <1>2 DEF BroadcastLost, AfterLoss, updater
  <2>2. CASE ~BroadcastLost(u)
    BY <2>2 DEF Steady, ReadOwner, CreateUnlessOwned, Sign, Due, RequestFails, Broadcast,
       BroadcastRefused, AfterBroadcast, ReceiptReverted, PollTimesOut, GivesUp
  <2> QED BY <2>1, <2>2
<1>5. /\ kind' \in [U -> {"text", "create"}]
      /\ \A v \in U \ {u} : kind'[v] = kind[v]
      /\ kind'[u] = "create" => kind[u] = "create" \/ Writes(u)[step[u]][1] # Parent
  <2>1. CASE CreateUnlessOwned(u)
    BY <2>1, <1>1, <1>2, OwnedOrNot DEF CreateUnlessOwned
  <2>2. CASE ~CreateUnlessOwned(u)
    <3>1. kind' = kind
      BY <2>2 DEF Steady, ReadOwner, Sign, Due, RequestFails, Broadcast,
         BroadcastRefused, BroadcastLost, AfterLoss, AfterBroadcast, ReceiptReverted,
         PollTimesOut, GivesUp, updater
    <3> QED BY <3>1, <1>2
  <2> QED BY <2>1, <2>2
<1>6. nonce' \in [U -> Nat]
  <2>1. CASE Sign(u)
    BY <2>1, <1>1, <1>2, CountsAreNat DEF Sign, Due
  <2>2. CASE ~Sign(u)
    <3>1. nonce' = nonce
      BY <2>2 DEF Steady, ReadOwner, CreateUnlessOwned, RequestFails, Broadcast,
         BroadcastRefused, BroadcastLost, AfterLoss, AfterBroadcast, ReceiptReverted,
         PollTimesOut, GivesUp, updater
    <3> QED BY <3>1, <1>2
  <2> QED BY <2>1, <2>2
<1>7. /\ Fault \/ UNCHANGED faults
      /\ Enters(Job(u), nonce[u]) \/ UNCHANGED pool
  BY DEF Steady, ReadOwner, CreateUnlessOwned, Sign, Due, RequestFails, Broadcast,
     BroadcastRefused, BroadcastLost, ReceiptReverted, PollTimesOut, node
<1>8. /\ NodeTypeOK'
      /\ pool' \subseteq pool \cup {[nonce |-> nonce[u], job |-> Job(u)]}
  BY <1>1, <1>3, <1>7, FaultTyped, EntersTyped DEF NodeTypeOK
<1>9. at' \in [U -> Places]
  BY <1>2, <1>4 DEF Places
<1>10. TypeOK'
  BY <1>1, <1>2, <1>3, <1>5, <1>6, <1>8, <1>9, LocalTypes
<1>11. at'[u] \notin {"idle", "ok"} /\ \A v \in U \ {u} : at'[v] = at[v]
  BY <1>2, <1>4
<1>12. (FreshStart /\ JobsBegun /\ DoneSoFar)'
  BY <1>3, <1>4, <1>5, <1>8, <1>9, <1>11, SteadyInv
<1> QED BY <1>10, <1>12 DEF EnsInv

\* A write is confirmed and the update goes on.
LEMMA ReceiptFoundInv ==
    ASSUME EnsInv, OwnPlace, NEW u \in U, ReceiptFound(u)
    PROVE  EnsInv'
<1>0. nonce[u] < Len(mined) /\ mined[nonce[u] + 1].ok
  BY DEF ReceiptFound, Answered, StatusOf
<1>1. /\ at[u] = "sent" /\ Advance(u)
      /\ UNCHANGED <<label, nonce, mishaps, pool, mined, faults>>
  BY DEF ReceiptFound, Answered, node
<1>2. /\ TypeOK /\ NodeTypeOK /\ at \in [U -> Places] /\ kind \in [U -> {"text", "create"}]
      /\ step \in [U -> Nat] /\ nonce \in [U -> Nat]
  BY DEF EnsInv, TypeOK, U, Places
<1>3. /\ Job(u) = <<u, step[u], kind[u]>>
      /\ DOMAIN Writes(u) = 1 .. Len(Writes(u)) /\ Len(Writes(u)) \in Nat
      /\ step[u] \in 1 .. Len(Writes(u))
  BY <1>2, JobTyped, WritesLength, KeyLengths
<1>4. Undisturbed => Effective(Job(u))
  BY <1>0, <1>1, <1>2 DEF OwnPlace, Effective, NodeTypeOK
<1>5. /\ \A v \in U : Writes(v)' = Writes(v)
      /\ \A k : Effective(k)' <=> Effective(k)
      /\ NodeTypeOK'
  BY <1>1, <1>2 DEF Writes, Effective, NodeTypeOK
<1>6. \E w \in {"reading", "ready", "ok"} : at' = [at EXCEPT ![u] = w]
  BY <1>1 DEF Advance, FirstRead
<1>7. at' \in [U -> Places] /\ at'[u] # "idle" /\ \A v \in U \ {u} : at'[v] = at[v]
  BY <1>1, <1>2, <1>6 DEF Places
<1>8. /\ step' \in [U -> Nat] /\ kind' \in [U -> {"text", "create"}]
      /\ \A v \in U \ {u} : step'[v] = step[v] /\ kind'[v] = kind[v]
      /\ step'[u] \in 1 .. Len(Writes(u)) /\ step[u] <= step'[u]
      /\ kind'[u] = "text"
  <2>1. CASE kind[u] = "create"
    <3>1. step' = step /\ kind' = [kind EXCEPT ![u] = "text"]
      BY <2>1, <1>1 DEF Advance
    <3> QED BY <3>1, <1>2, <1>3
  <2>2. CASE kind[u] # "create"
    <3>1. kind[u] = "text" /\ kind' = kind
      BY <2>2, <1>1, <1>2 DEF Advance
    <3>2. CASE IsLast(u)
      BY <2>2, <3>1, <3>2, <1>1, <1>2, <1>3 DEF Advance
    <3>3. CASE ~IsLast(u)
      BY <2>2, <3>1, <3>3, <1>1, <1>2, <1>3 DEF Advance, IsLast
    <3> QED BY <3>2, <3>3
  <2> QED BY <2>1, <2>2
<1>9. TypeOK'
  <2>1. \A v \in U : /\ step'[v] \in DOMAIN Writes(v)'
                     /\ kind'[v] = "create" => Writes(v)'[step'[v]][1] # Parent
    <3> SUFFICES ASSUME NEW v \in U
                 PROVE  /\ step'[v] \in DOMAIN Writes(v)
                        /\ kind'[v] = "create" => Writes(v)[step'[v]][1] # Parent
      BY <1>5
    <3>1. CASE v = u
      BY <3>1, <1>3, <1>8
    <3>2. CASE v # u
      BY <3>2, <1>2, <1>8 DEF TypeOK, U
    <3> QED BY <3>1, <3>2
  <2> QED BY <2>1, <1>1, <1>2, <1>5, <1>7, <1>8 DEF TypeOK, U, Places
<1>10. FreshStart'
  BY <1>7, <1>8 DEF EnsInv, FreshStart
<1>11. \A v \in U : (at[v] # "idle" => at'[v] # "idle") /\ step[v] \in Nat /\ step[v] <= step'[v]
  BY <1>1, <1>2, <1>7, <1>8
<1>12. JobsBegun'
  <2>1. \A t \in pool : /\ at'[t.job[1]] # "idle"
                        /\ t.job[2] <= step'[t.job[1]]
    <3> SUFFICES ASSUME NEW t \in pool
                 PROVE  at'[t.job[1]] # "idle" /\ t.job[2] <= step'[t.job[1]]
      OBVIOUS
    <3>1. t.job \in Jobs
      BY <1>2 DEF NodeTypeOK
    <3>2. t.job[1] \in U /\ t.job[2] \in Nat
      BY <3>1, JobParts, KeyLengths
    <3>3. at[t.job[1]] # "idle" /\ t.job[2] <= step[t.job[1]]
      BY DEF EnsInv, JobsBegun
    <3> QED BY <1>8, <1>11, <3>2, <3>3
  <2>2. \A i \in DOMAIN mined : /\ at'[mined[i].job[1]] # "idle"
                                /\ mined[i].job[2] <= step'[mined[i].job[1]]
    <3> SUFFICES ASSUME NEW i \in DOMAIN mined
                 PROVE  /\ at'[mined[i].job[1]] # "idle"
                        /\ mined[i].job[2] <= step'[mined[i].job[1]]
      OBVIOUS
    <3>1. mined[i].job \in Jobs
      BY <1>2, MinedTyped
    <3>2. mined[i].job[1] \in U /\ mined[i].job[2] \in Nat
      BY <3>1, JobParts, KeyLengths
    <3>3. at[mined[i].job[1]] # "idle" /\ mined[i].job[2] <= step[mined[i].job[1]]
      BY DEF EnsInv, JobsBegun
    <3> QED BY <1>8, <1>11, <3>2, <3>3
  <2> QED BY <2>1, <2>2, <1>1 DEF JobsBegun
<1>13. DoneSoFar'
  <2> SUFFICES ASSUME Undisturbed, NEW v \in U
               PROVE  /\ \A i \in 1 .. step'[v] - 1 : Effective(<<v, i, "text">>)
                      /\ at'[v] = "ok" => /\ step'[v] = Len(Writes(v))
                                          /\ Effective(<<v, step'[v], "text">>)
    BY <1>1, <1>5 DEF DoneSoFar, Undisturbed
  <2>1. CASE v # u
    BY <2>1, <1>7, <1>8 DEF EnsInv, DoneSoFar
  <2>2. CASE v = u /\ kind[u] = "create"
    <3>1. step' = step /\ at'[u] = "ready"
      BY <2>2, <1>1, <1>2 DEF Advance
    <3> QED BY <2>2, <3>1 DEF EnsInv, DoneSoFar
  <2>3. CASE v = u /\ kind[u] # "create" /\ IsLast(u)
    <3>1. step' = step /\ step[u] = Len(Writes(u)) /\ kind[u] = "text"
      BY <2>3, <1>1, <1>2 DEF Advance, IsLast
    <3> QED BY <2>3, <3>1, <1>3, <1>4 DEF EnsInv, DoneSoFar
  <2>4. CASE v = u /\ kind[u] # "create" /\ ~IsLast(u)
    <3>1. step'[u] = step[u] + 1 /\ at'[u] \in {"ready", "reading"} /\ kind[u] = "text"
      BY <2>4, <1>1, <1>2 DEF Advance, FirstRead
    <3>2. \A i \in 1 .. step[u] - 1 : Effective(<<u, i, "text">>)
      BY DEF EnsInv, DoneSoFar
    <3>3. Effective(<<u, step[u], "text">>)
      BY <3>1, <1>3, <1>4
    <3>4. \A i \in 1 .. step'[u] - 1 : i \in 1 .. step[u] - 1 \/ i = step[u]
      BY <3>1, <1>3
    <3> QED BY <2>4, <3>1, <3>2, <3>3, <3>4
  <2> QED BY <2>1, <2>2, <2>3, <2>4
<1> QED BY <1>9, <1>10, <1>12, <1>13 DEF EnsInv

\* A block: a pending transaction is mined, or one is dropped.
LEMMA BlockInv ==
    ASSUME EnsInv, MineWrite \/ EvictWrite
    PROVE  EnsInv'
<1>1. TypeOK /\ NodeTypeOK
  BY DEF EnsInv, TypeOK
<1>2. /\ UNCHANGED <<label, at, step, kind, nonce>>
      /\ mishaps' \subseteq {"overlapped", "forgotten"}
      /\ Undisturbed' => Undisturbed
  BY <1>1 DEF MineWrite, EvictWrite, updater, TypeOK, Undisturbed
<1>3. \A v \in U : Writes(v)' = Writes(v)
  BY <1>2 DEF Writes
<1>4. CASE EvictWrite
  <2>1. pool' \subseteq pool /\ mined' = mined /\ Fault
    BY <1>4 DEF EvictWrite, Evict
  <2>2. NodeTypeOK' /\ \A k : Effective(k)' <=> Effective(k)
    BY <1>1, <2>1, FaultTyped DEF NodeTypeOK, Effective
  <2>3. TypeOK'
    BY <1>1, <1>2, <1>3, <2>2 DEF TypeOK, U
  <2> QED BY <1>2, <1>3, <2>1, <2>2, <2>3 DEF EnsInv, FreshStart, JobsBegun, DoneSoFar
<1>5. CASE MineWrite
  <2>1. PICK t \in pool, ok \in BOOLEAN : Mine(t.job, ok) /\ (Fault \/ UNCHANGED faults)
    BY <1>5 DEF MineWrite
  <2>2. t.job \in Jobs
    BY <1>1 DEF NodeTypeOK
  <2>3. /\ DOMAIN mined' = 1 .. Len(mined) + 1
        /\ DOMAIN mined = 1 .. Len(mined) /\ Len(mined) \in Nat
        /\ \A i \in 1 .. Len(mined) : mined'[i] = mined[i]
        /\ mined'[Len(mined) + 1] = [job |-> t.job, ok |-> ok]
        /\ mined' \in Seq([job : Jobs, ok : BOOLEAN])
    BY <1>1, <2>1, <2>2, MineAppends
  <2>4. pool' \subseteq pool /\ faults' \in 0 .. MaxFaults
    BY <1>1, <2>1, FaultTyped DEF Mine
  <2>5. TypeOK'
    BY <1>1, <1>2, <1>3, <2>3, <2>4 DEF TypeOK, NodeTypeOK, U
  <2>6. FreshStart'
    BY <1>2 DEF EnsInv, FreshStart
  <2>7. \A i \in DOMAIN mined' :
           at[mined'[i].job[1]] # "idle" /\ mined'[i].job[2] <= step[mined'[i].job[1]]
    <3> SUFFICES ASSUME NEW i \in 1 .. Len(mined) + 1
                 PROVE  /\ at[mined'[i].job[1]] # "idle"
                        /\ mined'[i].job[2] <= step[mined'[i].job[1]]
      BY <2>3
    <3>1. CASE i \in 1 .. Len(mined)
      BY <3>1, <2>3 DEF EnsInv, JobsBegun
    <3>2. CASE i = Len(mined) + 1
      BY <3>2, <2>3 DEF EnsInv, JobsBegun
    <3> QED BY <3>1, <3>2, <2>3
  <2>8. JobsBegun'
    BY <1>2, <2>4, <2>7 DEF EnsInv, JobsBegun
  <2>9. \A k : Effective(k) => Effective(k)'
    BY <1>1, <2>1, <2>2, EffectsStay
  <2>10. DoneSoFar'
    BY <1>2, <1>3, <2>9 DEF EnsInv, DoneSoFar
  <2> QED BY <2>5, <2>6, <2>8, <2>10 DEF EnsInv
<1> QED BY <1>4, <1>5

\* recordTrade is called.
LEMMA BeginInv ==
    ASSUME EnsInv, NEW u \in U, Begin(u)
    PROVE  EnsInv'
<1>1. /\ at[u] = "idle" /\ at' = [at EXCEPT ![u] = "ready"]
      /\ UNCHANGED <<step, kind, nonce, pool, mined, faults>>
      /\ mishaps' \subseteq {"overlapped", "forgotten"}
      /\ Undisturbed' => Undisturbed
  BY DEF Begin, node, EnsInv, TypeOK, Undisturbed
<1>2. PICK l \in Labels \cup {NoLabel} : label' = [label EXCEPT ![u] = l]
  BY DEF Begin
<1>3. /\ TypeOK /\ step[u] = 1 /\ kind[u] = "text"
      /\ label \in [U -> Labels \cup {NoLabel}]
  BY <1>1 DEF EnsInv, FreshStart, TypeOK, U
<1>4. \A v \in U \ {u} : Writes(v)' = Writes(v)
  BY <1>2, <1>3 DEF Writes
<1>5. DOMAIN Writes(u)' = 1 .. Len(Writes(u)') /\ Len(Writes(u)') \in Nat \ {0}
  BY WritesLength, KeyLengths
<1>6. TypeOK'
  <2>1. \A v \in U : /\ step[v] \in DOMAIN Writes(v)'
                     /\ kind[v] = "create" => Writes(v)'[step[v]][1] # Parent
    <3> SUFFICES ASSUME NEW v \in U
                 PROVE  /\ step[v] \in DOMAIN Writes(v)'
                        /\ kind[v] = "create" => Writes(v)'[step[v]][1] # Parent
      OBVIOUS
    <3>1. CASE v = u
      BY <3>1, <1>3, <1>5
    <3>2. CASE v # u
      BY <3>2, <1>3, <1>4 DEF TypeOK, U
    <3> QED BY <3>1, <3>2
  <2>2. label' \in [U -> Labels \cup {NoLabel}] /\ NodeTypeOK'
    BY <1>1, <1>2, <1>3 DEF TypeOK, NodeTypeOK
  <2> QED BY <2>1, <2>2, <1>1, <1>3 DEF TypeOK, U
<1>7. FreshStart'
  BY <1>1, <1>3 DEF EnsInv, FreshStart
<1>8. JobsBegun'
  <2>1. \A v \in U : at[v] # "idle" => at'[v] # "idle"
    BY <1>1, <1>3 DEF TypeOK, U
  <2>2. \A t \in pool : t.job \in Jobs
    BY <1>3 DEF TypeOK, NodeTypeOK
  <2>3. \A i \in DOMAIN mined : mined[i].job \in Jobs
    BY <1>3, MinedTyped DEF TypeOK
  <2> QED BY <1>1, <2>1, <2>2, <2>3, JobParts DEF EnsInv, JobsBegun
<1>9. DoneSoFar'
  <2>1. \A k : Effective(k)' <=> Effective(k)
    BY <1>1 DEF Effective
  <2>2. at'[u] = "ready" /\ \A v \in U \ {u} : at'[v] = at[v]
    BY <1>1, <1>3 DEF TypeOK, U
  <2> QED BY <1>1, <1>3, <1>4, <2>1, <2>2 DEF EnsInv, DoneSoFar
<1> QED BY <1>6, <1>7, <1>8, <1>9 DEF EnsInv

\* What a step of an update leaves alone.
LEMMA StepMoves ==
    ASSUME EnsInv, NEW u \in U, Step(u)
    PROVE  /\ Running(u)
           /\ at'[u] \in Places \ {"idle"}
           /\ \A v \in U \ {u} : /\ at'[v] = at[v] /\ kind'[v] = kind[v]
                                 /\ step'[v] = step[v] /\ nonce'[v] = nonce[v]
           /\ UNCHANGED <<label, mishaps, mined>>
           /\ Fault \/ UNCHANGED faults
<1>1. at \in [U -> Places] /\ kind \in [U -> {"text", "create"}]
      /\ step \in [U -> Nat] /\ nonce \in [U -> Nat]
  BY DEF EnsInv, TypeOK, U, Places
<1>2. CASE Steady(u)
  <2>1. Running(u)
    BY <1>2 DEF Steady, ReadOwner, CreateUnlessOwned, Sign, Due, RequestFails, Broadcast,
       BroadcastRefused, BroadcastLost, ReceiptReverted, Answered, PollTimesOut, Running
  <2>2. UNCHANGED <<label, step, mishaps, mined>> /\ (Fault \/ UNCHANGED faults)
    BY <1>2 DEF Steady, ReadOwner, CreateUnlessOwned, Sign, Due, RequestFails, Broadcast,
       BroadcastRefused, BroadcastLost, AfterLoss, AfterBroadcast, ReceiptReverted,
       PollTimesOut, GivesUp, node, updater, Goes
  <2>3. at' = at \/ \E w \in Places \ {"idle"} : at' = [at EXCEPT ![u] = w]
    BY <1>2 DEF Steady, ReadOwner, CreateUnlessOwned, Sign, Due, RequestFails, Broadcast,
       BroadcastRefused, BroadcastLost, AfterLoss, AfterBroadcast, ReceiptReverted,
       PollTimesOut, GivesUp, updater, Goes, Places
  <2>4. kind' = kind \/ \E w : kind' = [kind EXCEPT ![u] = w]
    BY <1>2 DEF Steady, ReadOwner, CreateUnlessOwned, Sign, Due, RequestFails, Broadcast,
       BroadcastRefused, BroadcastLost, AfterLoss, AfterBroadcast, ReceiptReverted,
       PollTimesOut, GivesUp, updater, Goes
  <2>5. nonce' = nonce \/ \E w : nonce' = [nonce EXCEPT ![u] = w]
    BY <1>2 DEF Steady, ReadOwner, CreateUnlessOwned, Sign, Due, RequestFails, Broadcast,
       BroadcastRefused, BroadcastLost, AfterLoss, AfterBroadcast, ReceiptReverted,
       PollTimesOut, GivesUp, updater, Goes
  <2> QED BY <1>1, <2>1, <2>2, <2>3, <2>4, <2>5 DEF Running
<1>3. CASE ReceiptFound(u)
  BY <1>1, <1>3 DEF ReceiptFound, Answered, Advance, FirstRead, Running, Places, node
<1> QED BY <1>2, <1>3 DEF Step, Steady

\* What of a step matters to the node.
LEMMA PoolTyped ==
    ASSUME TypeOK
    PROVE  /\ Len(mined) \in Nat /\ DOMAIN mined = 1 .. Len(mined)
           /\ \A t \in pool : /\ t.nonce \in Nat /\ t.job \in Jobs /\ t.job[1] \in U
                              /\ t = [nonce |-> t.nonce, job |-> t.job]
           /\ faults \in Nat
<1>1. mined \in Seq([job : Jobs, ok : BOOLEAN]) /\ pool \subseteq [nonce : Nat, job : Jobs]
      /\ faults \in Nat
  BY WalletAssumption DEF TypeOK, NodeTypeOK
<1>2. Len(mined) \in Nat /\ DOMAIN mined = 1 .. Len(mined)
  BY <1>1, LenProperties
<1> QED BY <1>1, <1>2, JobParts

\* A nonce that is taken stays so unless the node forgets; one that was forgotten
\* is given to nobody while its update runs alone.
LEMMA PlaceNext ==
    ASSUME EnsInv, PlaceInv, NextEns \/ UNCHANGED vars \/ \E u \in U : Begin(u)
    PROVE  PlaceInv'
<1>1. /\ TypeOK /\ at \in [U -> Places] /\ nonce \in [U -> Nat] /\ Len(mined) \in Nat
      /\ mishaps \subseteq {"overlapped", "forgotten"}
  BY PoolTyped DEF EnsInv, TypeOK, U, Places
<1>2. ASSUME Undisturbed, NEW v \in U, at[v] = "sent"
      PROVE  /\ nonce[v] < Len(mined) => mined[nonce[v] + 1].job = Job(v)
             /\ \A t \in pool : t.nonce = nonce[v] => t.job = Job(v)
             /\ "forgotten" \notin mishaps => Taken(nonce[v])
  BY <1>2 DEF PlaceInv, OwnPlace
<1>3. ASSUME mishaps \subseteq mishaps', mishaps' \subseteq {"overlapped", "forgotten"}
      PROVE  Undisturbed' => Undisturbed
  BY <1>3 DEF Undisturbed
<1>4. ASSUME NEW u \in U, Step(u) PROVE PlaceInv'
  <2>1. /\ Running(u) /\ UNCHANGED <<mishaps, mined>>
        /\ \A v \in U \ {u} : /\ at'[v] = at[v] /\ kind'[v] = kind[v]
                              /\ step'[v] = step[v] /\ nonce'[v] = nonce[v]
    BY <1>4, StepMoves
  <2>2. Alone'
    BY <2>1 DEF PlaceInv, Alone, Running
  <2>3. /\ pool' = pool \/ (Enters(Job(u), nonce[u]) /\ at[u] = "signed")
        /\ at'[u] = "sent" =>
               \/ at[u] = "sent" /\ pool' = pool /\ UNCHANGED <<step, kind, nonce>>
               \/ Enters(Job(u), nonce[u]) /\ UNCHANGED <<step, kind, nonce>>
    <3>1. CASE Broadcast(u)
      BY <3>1 DEF Broadcast, AfterBroadcast, Goes
    <3>2. CASE BroadcastLost(u)
      BY <1>1, <3>2 DEF BroadcastLost, AfterLoss, Goes, updater
    <3>3. CASE ~(Broadcast(u) \/ BroadcastLost(u))
      BY <1>1, <1>4, <3>3 DEF Step, ReadOwner, CreateUnlessOwned, Sign, Due, RequestFails,
         BroadcastRefused, ReceiptFound, Advance, FirstRead, ReceiptReverted,
         PollTimesOut, GivesUp, Goes, node
    <3> QED BY <3>1, <3>2, <3>3
  <2>4. OwnPlace'
    <3> SUFFICES ASSUME Undisturbed, NEW v \in U, at'[v] = "sent"
                 PROVE  /\ nonce'[v] < Len(mined) => mined[nonce'[v] + 1].job = Job(v)'
                        /\ \A t \in pool' : t.nonce = nonce'[v] => t.job = Job(v)'
                        /\ "forgotten" \notin mishaps =>
                               nonce'[v] < Len(mined) \/ nonce'[v] \in PoolNonces'
      BY <2>1 DEF OwnPlace, Undisturbed, Taken
    <3>1. CASE v = u /\ Enters(Job(u), nonce[u]) /\ UNCHANGED <<step, kind, nonce>>
      <4>1. /\ ~Taken(nonce[u]) /\ pool' = pool \cup {[nonce |-> nonce[u], job |-> Job(u)]}
            /\ nonce'[v] = nonce[u] /\ Job(v)' = Job(u)
        BY <3>1 DEF Enters, Job
      <4>2. ~(nonce[u] < Len(mined)) /\ \A t \in pool : t.nonce # nonce[u]
        BY <4>1 DEF Taken, PoolNonces
      <4>3. nonce[u] \in PoolNonces'
        <5>1. PICK x : x = [nonce |-> nonce[u], job |-> Job(u)]
          OBVIOUS
        <5>2. x \in pool' /\ x.nonce = nonce[u]
          BY <4>1, <5>1
        <5> QED BY <5>2 DEF PoolNonces
      <4>4. \A t \in pool' : t.nonce = nonce[u] => t.job = Job(u)
        <5> SUFFICES ASSUME NEW t \in pool', t.nonce = nonce[u] PROVE t.job = Job(u)
          OBVIOUS
        <5>1. t = [nonce |-> nonce[u], job |-> Job(u)]
          BY <4>1, <4>2
        <5> QED BY <5>1
      <4>5. ~(nonce'[v] < Len(mined)) /\ nonce'[v] \in PoolNonces'
        BY <4>1, <4>2, <4>3
      <4>6. \A t \in pool' : t.nonce = nonce'[v] => t.job = Job(v)'
        BY <4>1, <4>4
      <4> QED BY <4>5, <4>6
    <3>2. CASE pool' = pool /\ at[v] = "sent" /\ nonce'[v] = nonce[v] /\ Job(v)' = Job(v)
      BY <1>2, <2>1, <3>2 DEF Taken, PoolNonces
    <3>3. CASE v # u
      <4>1. at[v] = "sent" /\ nonce'[v] = nonce[v] /\ Job(v)' = Job(v)
        BY <2>1, <3>3 DEF Job
      <4>2. "overlapped" \in mishaps
        BY <2>1, <3>3, <4>1 DEF PlaceInv, Alone, Running
      <4>3. Taken(nonce[v])
        BY <1>1, <1>2, <4>1, <4>2 DEF Undisturbed
      <4>4. ASSUME Enters(Job(u), nonce[u])
            PROVE  /\ \A t \in pool' : t.nonce = nonce[v] => t.job = Job(v)
                   /\ nonce[v] \in PoolNonces' \/ nonce[v] < Len(mined)
        <5>1. nonce[u] # nonce[v]
          BY <4>3, <4>4 DEF Enters
        <5>2. pool' = pool \cup {[nonce |-> nonce[u], job |-> Job(u)]}
          BY <4>4 DEF Enters
        <5> QED BY <1>2, <2>1, <4>1, <4>3, <5>1, <5>2 DEF Taken, PoolNonces
      <4> QED BY <1>2, <2>1, <2>3, <3>2, <4>1, <4>4
    <3>4. CASE v = u
      <4>1. Job(u)' = Job(u) \/ ~UNCHANGED <<step, kind>>
        BY DEF Job
      <4> QED BY <2>3, <3>1, <3>2, <3>4, <4>1
    <3> QED BY <3>3, <3>4
  <2> QED BY <2>2, <2>4 DEF PlaceInv
<1>5. CASE MineWrite
  <2>1. PICK t \in pool, ok \in BOOLEAN : Mine(t.job, ok)
    BY <1>5 DEF MineWrite
  <2>2. UNCHANGED <<at, step, kind, nonce, mishaps>>
    BY <1>5 DEF MineWrite, updater
  <2>3. t.job \in Jobs
    BY <1>1, PoolTyped
  <2>4. /\ Len(mined') = Len(mined) + 1
        /\ \A i \in 1 .. Len(mined) : mined'[i] = mined[i]
        /\ mined'[Len(mined) + 1].job = t.job
    <3>1. /\ DOMAIN mined' = 1 .. Len(mined) + 1
          /\ \A i \in 1 .. Len(mined) : mined'[i] = mined[i]
          /\ mined'[Len(mined) + 1] = [job |-> t.job, ok |-> ok]
          /\ mined' \in Seq([job : Jobs, ok : BOOLEAN])
      BY <1>1, <2>1, <2>3, MineAppends DEF TypeOK
    <3>2. Len(mined') \in Nat /\ DOMAIN mined' = 1 .. Len(mined')
      BY <3>1, LenProperties
    <3> QED BY <1>1, <3>1, <3>2
  <2>5. /\ [nonce |-> Len(mined), job |-> t.job] \in pool
        /\ pool' = pool \ {[nonce |-> Len(mined), job |-> t.job]}
    BY <2>1 DEF Mine
  <2>6. \A n \in Nat : Taken(n) => n < Len(mined) + 1 \/ n \in PoolNonces'
    <3> SUFFICES ASSUME NEW n \in Nat, Taken(n) PROVE n < Len(mined) + 1 \/ n \in PoolNonces'
      OBVIOUS
    <3>1. CASE n < Len(mined)
      BY <1>1, <3>1
    <3>2. CASE n \in PoolNonces
      <4>1. PICK s \in pool : s.nonce = n
        BY <3>2 DEF PoolNonces
      <4>2. CASE s = [nonce |-> Len(mined), job |-> t.job]
        BY <1>1, <4>1, <4>2
      <4>3. CASE s # [nonce |-> Len(mined), job |-> t.job]
        BY <2>5, <4>1, <4>3 DEF PoolNonces
      <4> QED BY <4>2, <4>3
    <3> QED BY <3>1, <3>2 DEF Taken
  <2>7. OwnPlace'
    <3> SUFFICES ASSUME Undisturbed, NEW v \in U, at[v] = "sent"
                 PROVE  /\ nonce[v] < Len(mined) + 1 => mined'[nonce[v] + 1].job = Job(v)
                        /\ \A s \in pool' : s.nonce = nonce[v] => s.job = Job(v)
                        /\ "forgotten" \notin mishaps =>
                               nonce[v] < Len(mined) + 1 \/ nonce[v] \in PoolNonces'
      BY <2>2, <2>4 DEF OwnPlace, Undisturbed, Job, Taken
    <3>1. nonce[v] \in Nat
      BY <1>1
    <3>2. CASE nonce[v] < Len(mined)
      <4>1. nonce[v] + 1 \in 1 .. Len(mined)
        BY <1>1, <3>1, <3>2
      <4> QED BY <1>2, <2>4, <2>5, <2>6, <3>1, <3>2, <4>1
    <3>3. CASE nonce[v] = Len(mined)
      <4>1. t.job = Job(v)
        BY <1>2, <2>5, <3>3
      <4> QED BY <1>2, <2>4, <2>5, <2>6, <3>1, <3>3, <4>1
    <3>4. CASE nonce[v] > Len(mined)
      <4>1. ~(nonce[v] < Len(mined) + 1)
        BY <1>1, <3>1, <3>4
      <4> QED BY <1>2, <2>5, <2>6, <3>1, <4>1
    <3> QED BY <1>1, <3>1, <3>2, <3>3, <3>4
  <2>8. Alone'
    BY <2>2 DEF PlaceInv, Alone, Running
  <2> QED BY <2>7, <2>8 DEF PlaceInv
<1>6. CASE EvictWrite
  <2>1. /\ UNCHANGED <<at, step, kind, nonce, mined>> /\ pool' \subseteq pool
        /\ mishaps' = mishaps \cup {"forgotten"}
    BY <1>6 DEF EvictWrite, Evict
  <2>2. Undisturbed' => Undisturbed
    BY <1>1, <1>3, <2>1
  <2>3. OwnPlace'
    <3> SUFFICES ASSUME Undisturbed, NEW v \in U, at[v] = "sent"
                 PROVE  /\ nonce[v] < Len(mined) => mined[nonce[v] + 1].job = Job(v)
                        /\ \A s \in pool' : s.nonce = nonce[v] => s.job = Job(v)
      BY <2>1, <2>2 DEF OwnPlace, Job
    <3> QED BY <1>2, <2>1
  <2>4. Alone'
    BY <2>1 DEF PlaceInv, Alone, Running
  <2> QED BY <2>3, <2>4 DEF PlaceInv
<1>7. CASE UNCHANGED vars
  BY <1>7 DEF vars, updater, node, PlaceInv, Alone, OwnPlace, Undisturbed, Running, Job,
     Taken, PoolNonces
<1>8. ASSUME NEW u \in U, Begin(u) PROVE PlaceInv'
  <2>1. /\ at[u] = "idle" /\ at' = [at EXCEPT ![u] = "ready"]
        /\ UNCHANGED <<step, kind, nonce, pool, mined>>
        /\ mishaps' = mishaps \cup {m \in {"overlapped"} : \E v \in 1 .. Updates : Running(v)}
    BY <1>8 DEF Begin, node
  <2>2. Undisturbed' => Undisturbed
    BY <1>1, <1>3, <2>1
  <2>3. OwnPlace'
    <3> SUFFICES ASSUME Undisturbed, NEW v \in U, at'[v] = "sent"
                 PROVE  /\ nonce[v] < Len(mined) => mined[nonce[v] + 1].job = Job(v)
                        /\ \A t \in pool : t.nonce = nonce[v] => t.job = Job(v)
                        /\ "forgotten" \notin mishaps => Taken(nonce[v])
      BY <2>1, <2>2 DEF OwnPlace, Job, Taken, PoolNonces
    <3>1. at[v] = "sent"
      BY <1>1, <2>1
    <3> QED BY <1>2, <3>1
  <2>4. Alone'
    <3> SUFFICES ASSUME "overlapped" \notin mishaps', NEW v \in U, Running(v)'
                 PROVE  v = u
      BY DEF Alone
    <3>1. ~Running(v)
      BY <2>1 DEF U
    <3> QED BY <1>1, <2>1, <3>1 DEF Running
  <2> QED BY <2>3, <2>4 DEF PlaceInv
<1> QED BY <1>4, <1>5, <1>6, <1>7, <1>8 DEF NextEns, U

LEMMA NextEnsInv == ASSUME EnsInv, PlaceInv, NextEns PROVE EnsInv'
BY SteadyStep, ReceiptFoundInv, BlockInv DEF PlaceInv, NextEns, Step, Steady, U
-----------------------------------------------------------------------------
(* Both chains.                                                            *)

\* The updater does not begin updates of its own.
LEMMA NextEnsBeginsNone ==
    ASSUME EnsInv, NextEns, NEW u \in U, at[u] = "idle"
    PROVE  at'[u] = "idle"
<1>1. at \in [U -> Places]
  BY DEF EnsInv, TypeOK, U, Places
<1>2. CASE MineWrite \/ EvictWrite
  BY <1>2 DEF MineWrite, EvictWrite, updater
<1>3. CASE \E v \in U : Step(v)
  <2>1. PICK v \in U : Step(v)
    BY <1>3
  <2>2. at[v] # "idle"
    BY <2>1 DEF Step, ReadOwner, CreateUnlessOwned, Sign, Due, RequestFails, Broadcast,
       BroadcastRefused, BroadcastLost, ReceiptFound, ReceiptReverted, Answered, PollTimesOut
  <2>3. at' = at \/ \E w \in Places : at' = [at EXCEPT ![v] = w]
    BY <2>1 DEF Step, ReadOwner, CreateUnlessOwned, Sign, Due, RequestFails, Broadcast,
       BroadcastRefused, BroadcastLost, AfterLoss, AfterBroadcast, ReceiptFound,
       Advance, FirstRead, ReceiptReverted, PollTimesOut, GivesUp, Goes, updater, Places
  <2> QED BY <1>1, <2>2, <2>3
<1> QED BY <1>2, <1>3 DEF NextEns, U

LEMMA InitInv == Init => IInv
<1> SUFFICES ASSUME Init PROVE IInv
  OBVIOUS
<1>1. /\ pool = {} /\ mined = <<>> /\ faults = 0 /\ label = [u \in U |-> NoLabel]
      /\ at = [u \in U |-> "idle"] /\ step = [u \in U |-> 1]
      /\ kind = [u \in U |-> "text"] /\ nonce = [u \in U |-> 0]
      /\ mishaps = {} /\ happened = {} /\ confirmed = {} /\ back = {}
  BY DEF Init, InitEns, NodeInit, Galileo!Init, U
<1>2. TypeOK
  <2>1. \A u \in U : step[u] \in DOMAIN Writes(u)
    BY <1>1, WritesLength, KeyLengths
  <2>2. NodeTypeOK
    BY <1>1, WalletAssumption DEF NodeTypeOK
  <2>3. at \in [U -> Places] /\ kind \in [U -> {"text", "create"}] /\ step \in [U -> Nat]
    BY <1>1 DEF Places
  <2> QED BY <1>1, <2>1, <2>2, <2>3 DEF TypeOK, Places, U
<1>3. DoneSoFar
  BY <1>1 DEF DoneSoFar
<1>4. PlaceInv
  BY <1>1 DEF PlaceInv, Alone, OwnPlace, Running
<1> QED BY <1>1, <1>2, <1>3, <1>4 DEF IInv, EnsInv, FreshStart, JobsBegun, BegunMeansBack,
        BackMeansSettled

LEMMA NextInv == IInv /\ [Next]_allVars => IInv'
<1> SUFFICES ASSUME IInv, [Next]_allVars PROVE IInv'
  OBVIOUS
<1>1. CASE UNCHANGED vars
  <2>1. EnsInv' /\ PlaceInv' /\ UNCHANGED at
    <3>1. UNCHANGED <<label, at, step, kind, nonce, mishaps, pool, mined, faults>>
      BY <1>1 DEF vars, updater, node
    <3>2. (\A v \in U : Writes(v)' = Writes(v)) /\ \A k : Effective(k)' <=> Effective(k)
      BY <3>1 DEF Writes, Effective
    <3>3. TypeOK'
      BY <3>1, <3>2 DEF IInv, EnsInv, TypeOK, NodeTypeOK, U
    <3>4. PlaceInv'
      BY <1>1, PlaceNext DEF IInv
    <3> QED BY <3>1, <3>2, <3>3, <3>4 DEF IInv, EnsInv, FreshStart, JobsBegun, DoneSoFar,
            Undisturbed
  <2>2. confirmed \subseteq confirmed' /\ confirmed' \subseteq happened' /\ back' = back
    <3>1. CASE UNCHANGED allVars
      BY <3>1 DEF IInv, BackMeansSettled, allVars, galileo
    <3>2. CASE \E m \in Moves : Purchase(m) \/ LateEffect(m)
      BY <3>2 DEF IInv, BackMeansSettled, Purchase, LateEffect, Galileo!Happen,
         Galileo!Confirm, Galileo!GiveUp
    <3>3. CASE \E p \in 1 .. Updates : ReceiptNotSaved(p)
      BY <3>3 DEF IInv, BackMeansSettled, ReceiptNotSaved
    <3>4. CASE NextEns /\ UNCHANGED galileo
      BY <3>4 DEF IInv, BackMeansSettled, galileo
    <3>5. CASE \E p \in 1 .. Updates : Return(p)
      <4>1. PICK p \in U : Return(p)
        BY <3>5 DEF U
      <4>2. at[p] = "idle" /\ at' = [at EXCEPT ![p] = "ready"]
        BY <4>1 DEF Return, Begin
      <4>3. at \in [U -> Places]
        BY DEF IInv, EnsInv, TypeOK, U, Places
      <4> QED BY <2>1, <4>2, <4>3
    <3> QED BY <3>1, <3>2, <3>3, <3>4, <3>5 DEF Next
  <2> QED BY <2>1, <2>2 DEF IInv, BegunMeansBack, BackMeansSettled, Settled
<1>2. CASE NextEns /\ UNCHANGED galileo
  <2>1. EnsInv' /\ PlaceInv'
    BY <1>2, NextEnsInv, PlaceNext DEF IInv
  <2>2. BegunMeansBack'
    BY <1>2, NextEnsBeginsNone DEF IInv, BegunMeansBack, galileo
  <2>3. BackMeansSettled'
    BY <1>2 DEF IInv, BackMeansSettled, Settled, galileo
  <2> QED BY <2>1, <2>2, <2>3 DEF IInv
<1>3. CASE \E p \in 1 .. Updates : Return(p)
  <2>1. PICK p \in U : Return(p)
    BY <1>3 DEF U
  <2>2. /\ Settled(p) /\ Begin(p) /\ back' = back \cup {p}
        /\ UNCHANGED <<happened, confirmed, failed>>
    BY <2>1 DEF Return
  <2>3. EnsInv' /\ PlaceInv'
    BY <2>2, BeginInv, PlaceNext DEF IInv
  <2>4. BegunMeansBack'
    <3>1. at \in [U -> Places] /\ at' = [at EXCEPT ![p] = "ready"]
      BY <2>2 DEF Begin, IInv, EnsInv, TypeOK, U, Places
    <3> QED BY <2>2, <3>1 DEF IInv, BegunMeansBack
  <2>5. BackMeansSettled'
    BY <2>2 DEF IInv, BackMeansSettled, Settled
  <2> QED BY <2>3, <2>4, <2>5 DEF IInv
<1> QED BY <1>1, <1>2, <1>3 DEF Next, Purchase, LateEffect, ReceiptNotSaved, allVars

LEMMA Invariance == Spec => []IInv
BY InitInv, NextInv, PTL DEF Spec
-----------------------------------------------------------------------------
LEMMA GreatestIndex ==
    ASSUME NEW n \in Nat, NEW S \in SUBSET (1 .. n), S # {}
    PROVE  \E i \in S : \A k \in S : k <= i
<1> DEFINE D == {d \in Nat : n - d \in S}
           R == OpToRel(<, Nat)
<1>1. D # {}
  <2>1. PICK i \in S : TRUE
    OBVIOUS
  <2>2. n - i \in Nat /\ n - (n - i) = i
    BY <2>1
  <2>3. n - i \in D
    BY <2>1, <2>2
  <2> QED BY <2>3
<1>2. IsWellFoundedOn(R, Nat)
  BY NatLessThanWellFounded
<1>3. \A x, y \in Nat : <<y, x>> \in R <=> y < x
  BY DEF OpToRel
<1>4. D \subseteq Nat
  OBVIOUS
<1> HIDE DEF R, D
<1>5. PICK d \in D : \A y \in D : <<y, d>> \notin R
  BY <1>1, <1>2, <1>4, WFMin
<1>6. \A y \in D : ~(y < d)
  BY <1>3, <1>4, <1>5
<1> USE DEF D
<1>7. n - d \in S /\ d \in Nat
  BY <1>5
<1>8. ASSUME NEW k \in S PROVE k <= n - d
  <2>1. k \in 1 .. n /\ n - k \in Nat /\ n - (n - k) = k
    BY <1>8
  <2>2. n - k \in D
    BY <1>8, <2>1
  <2> QED BY <2>1, <2>2, <1>6, <1>7
<1> QED BY <1>7, <1>8

\* A record that shows an update was written by a transaction of it.
LEMMA ShownWasMined ==
    ASSUME TypeOK, NEW r, Shows(r) # 0
    PROVE  \E i \in DOMAIN mined : Shows(r) = mined[i].job[1]
<1> DEFINE hits == {i \in DOMAIN mined : mined[i].ok /\ WritesTo(mined[i].job, r)}
<1>1. DOMAIN mined = 1 .. Len(mined) /\ Len(mined) \in Nat
  BY LenProperties DEF TypeOK, NodeTypeOK
<1>2. hits # {}
  BY DEF Shows
<1>3. \E i \in hits : \A k \in hits : k <= i
  <2>1. hits \subseteq 1 .. Len(mined)
    BY <1>1
  <2> HIDE DEF hits
  <2> QED BY <1>1, <1>2, <2>1, GreatestIndex
<1>4. Shows(r) = mined[CHOOSE i \in hits : \A k \in hits : k <= i].job[1]
  BY <1>2 DEF Shows
<1> HIDE DEF hits
<1>5. (CHOOSE i \in hits : \A k \in hits : k <= i) \in hits
  BY <1>3
<1> QED BY <1>4, <1>5 DEF hits

\* The state of both chains keeps its types.
THEOREM SettlementsTypeCorrect == Spec => []TypeOK
<1>1. IInv => TypeOK
  BY DEF IInv, EnsInv
<1> QED BY <1>1, Invariance, PTL

\* index.mjs:242-255: the records of an update land in the order they are sent,
\* whatever fails in between and however late a transaction is mined, unless
\* updates overlap and the node forgets a transaction of theirs as well.
THEOREM RecordsInOrder == Spec => []PrefixRecorded
<1>1. IInv => PrefixRecorded
  <2> SUFFICES ASSUME IInv, Undisturbed, NEW u \in U, NEW i \in DOMAIN Writes(u),
                      Effective(<<u, i, "text">>), NEW k \in 1 .. i
               PROVE  Effective(<<u, k, "text">>)
    BY DEF PrefixRecorded, U
  <2>1. PICK n \in DOMAIN mined : mined[n].job = <<u, i, "text">>
    BY DEF Effective
  <2>2. i <= step[u] /\ i \in Nat /\ step[u] \in Nat
    <3>1. i \in Nat /\ step[u] \in Nat
      BY WritesLength, KeyLengths DEF IInv, EnsInv, TypeOK, U
    <3> QED BY <2>1, <3>1 DEF IInv, EnsInv, JobsBegun
  <2>3. CASE k = i
    BY <2>3
  <2>4. CASE k # i
    <3>1. k \in 1 .. step[u] - 1
      BY <2>2, <2>4
    <3> QED BY <3>1 DEF IInv, EnsInv, DoneSoFar
  <2> QED BY <2>3, <2>4
<1> QED BY <1>1, Invariance, PTL

\* index.mjs:257: ok means that every record was written, by the update's own
\* transaction and not by another's mined in its place, with the same exception.
THEOREM OkIsRecorded == Spec => []OkMeansRecorded
<1>1. IInv => OkMeansRecorded
  <2> SUFFICES ASSUME IInv, Undisturbed, NEW u \in U, at[u] = "ok", NEW i \in DOMAIN Writes(u)
               PROVE  Effective(<<u, i, "text">>)
    BY DEF OkMeansRecorded, U
  <2>1. /\ step[u] = Len(Writes(u)) /\ Effective(<<u, step[u], "text">>)
        /\ i \in 1 .. Len(Writes(u)) /\ Len(Writes(u)) \in Nat
    BY WritesLength, KeyLengths DEF IInv, EnsInv, DoneSoFar
  <2>2. CASE i = step[u]
    BY <2>1, <2>2
  <2>3. CASE i # step[u]
    BY <2>1, <2>3 DEF IInv, EnsInv, DoneSoFar
  <2> QED BY <2>2, <2>3
<1> QED BY <1>1, Invariance, PTL

\* runtime.mjs:303-306: what the names show on Sepolia has been settled on Galileo.
THEOREM ShownIsSettled == Spec => []RecordsOnlySettled
<1>1. IInv => RecordsOnlySettled
  <2> SUFFICES ASSUME IInv, NEW r \in Records, Shows(r) # 0, NEW m \in Moves,
                      m[1] = Shows(r)
               PROVE  m \in happened
    BY DEF RecordsOnlySettled
  <2>1. PICK i \in DOMAIN mined : Shows(r) = mined[i].job[1]
    BY ShownWasMined DEF IInv, EnsInv
  <2>2. mined[i].job \in Jobs
    BY MinedTyped DEF IInv, EnsInv, TypeOK
  <2>3. m[1] \in U /\ at[m[1]] # "idle"
    BY <2>1, <2>2, JobParts DEF IInv, EnsInv, JobsBegun
  <2> QED BY <2>3 DEF IInv, BegunMeansBack, BackMeansSettled, Settled
<1> QED BY <1>1, Invariance, PTL
-----------------------------------------------------------------------------
(* What holds unless something goes wrong.                                 *)

\* A name whose record is about to be written is ours.
OursWhenReady ==
    Undisturbed => \A u \in U : at[u] = "ready" /\ kind[u] = "text" => Owned(Name(u))

\* A call whose trade is open has had every earlier call return or throw.
InTurn ==
    \A p \in U : p \in back \/ <<p, 1>> \in confirmed => \A q \in 1 .. p - 1 : Finished(q)

\* Without an overlap, the update that runs is the only one, and the latest.
LatestRuns ==
    "overlapped" \notin mishaps =>
        \A u, v \in U : Running(u) /\ at[v] # "idle" => v <= u

\* The pool has no holes, and transactions are pending and mined in the order of
\* their updates.
Ahead ==
    \A t \in pool : /\ Len(mined) <= t.nonce
                    /\ \A n \in Len(mined) .. t.nonce : n \in PoolNonces
                    /\ \A i \in DOMAIN mined : mined[i].job[1] <= t.job[1]
Among ==
    \A s, t \in pool : /\ s.nonce = t.nonce => s = t
                       /\ s.nonce < t.nonce => s.job[1] <= t.job[1]
Behind == \A i, k \in DOMAIN mined : i <= k => mined[i].job[1] <= mined[k].job[1]
NoGap ==
    \A u \in U : at[u] = "signed" => \A n \in Len(mined) .. nonce[u] - 1 : n \in PoolNonces

PoolInOrder == mishaps = {} => Ahead /\ Among /\ Behind /\ NoGap

Calm == faults = 0 /\ "overlapped" \notin mishaps /\ \A u \in U : at[u] # "unseen"

\* As long as nothing went wrong, what is pending is being polled for, and an
\* update that has signed has the next nonce and the pool for itself.
CalmAlone ==
    Calm =>
        /\ \A t \in pool : /\ at[t.job[1]] = "sent"
                           /\ t.job = Job(t.job[1])
                           /\ t.nonce = nonce[t.job[1]]
                           /\ Len(mined) <= t.nonce
        /\ \A u \in U : at[u] = "signed" => pool = {} /\ nonce[u] = Len(mined)
        /\ \A i \in DOMAIN mined : mined[i].ok
        /\ \A u \in U : at[u] # "failed"

\* The parent's records come first, then those of the winner's subname.
LEMMA ListNames ==
    ASSUME NEW l
    PROVE  LET w == [i \in DOMAIN ParentKeys |-> <<Parent, ParentKeys[i]>>] \o
                       IF l = NoLabel THEN <<>>
                       ELSE [i \in DOMAIN AgentKeys |-> <<l, AgentKeys[i]>>]
           IN  \A i \in DOMAIN w : w[i][1] = IF i <= Len(ParentKeys) THEN Parent ELSE l
<1> DEFINE p == [i \in DOMAIN ParentKeys |-> <<Parent, ParentKeys[i]>>]
           a == [i \in DOMAIN AgentKeys |-> <<l, AgentKeys[i]>>]
           S == {Parent, l} \X STRING
           w == p \o IF l = NoLabel THEN <<>> ELSE a
<1>1. p \in Seq({Parent} \X STRING) /\ Len(p) = Len(ParentKeys)
  BY RecordsOf, EnsAssumption
<1>2. a \in Seq({l} \X STRING) /\ Len(a) = Len(AgentKeys)
  BY RecordsOf, EnsAssumption
<1>3. {Parent} \X STRING \subseteq S /\ {l} \X STRING \subseteq S
  OBVIOUS
<1>4. (\A i \in DOMAIN p : p[i][1] = Parent) /\ (\A i \in DOMAIN a : a[i][1] = l)
  OBVIOUS
<1> HIDE DEF p, a, S
<1>5. p \in Seq(S) /\ a \in Seq(S)
  BY <1>1, <1>2, <1>3, SeqMonotonic
<1>6. Len(p) \in Nat /\ DOMAIN p = 1 .. Len(p) /\ Len(a) \in Nat /\ DOMAIN a = 1 .. Len(a)
  BY <1>5, LenProperties
<1>7. w \in {p, p \o a}
  BY <1>5, ConcatEmptySeq
<1> HIDE DEF w
<1>8. ASSUME w = p
      PROVE  \A i \in DOMAIN w : w[i][1] = IF i <= Len(ParentKeys) THEN Parent ELSE l
  BY <1>1, <1>4, <1>6, <1>8
<1>9. ASSUME w = p \o a
      PROVE  \A i \in DOMAIN w : w[i][1] = IF i <= Len(ParentKeys) THEN Parent ELSE l
  <2>1. w \in Seq(S) /\ Len(w) = Len(p) + Len(a)
    BY <1>5, <1>9, ConcatProperties
  <2>2. DOMAIN w = 1 .. Len(p) + Len(a)
    BY <2>1, LenProperties
  <2>3. \A i \in DOMAIN w : w[i] = IF i <= Len(p) THEN p[i] ELSE a[i - Len(p)]
    BY <1>5, <1>9, <2>2, ConcatProperties
  <2> SUFFICES ASSUME NEW i \in DOMAIN w
               PROVE  w[i][1] = IF i <= Len(ParentKeys) THEN Parent ELSE l
    OBVIOUS
  <2>4. CASE i <= Len(p)
    <3>1. i \in DOMAIN p /\ w[i] = p[i]
      BY <1>6, <2>2, <2>3, <2>4
    <3> QED BY <1>1, <1>4, <2>4, <3>1
  <2>5. CASE ~(i <= Len(p))
    <3>1. i - Len(p) \in DOMAIN a /\ w[i] = a[i - Len(p)]
      BY <1>6, <2>2, <2>3, <2>5
    <3> QED BY <1>1, <1>4, <2>5, <3>1
  <2> QED BY <2>4, <2>5
<1> QED BY <1>7, <1>8, <1>9 DEF w, p, a

LEMMA NamesWritten ==
    ASSUME NEW u \in U
    PROVE  /\ \A i \in DOMAIN Writes(u) :
                  Writes(u)[i][1] = IF i <= Len(ParentKeys) THEN Parent ELSE label[u]
           /\ \A i \in DOMAIN Writes(u)' :
                  Writes(u)'[i][1] = IF i <= Len(ParentKeys) THEN Parent ELSE label'[u]
BY ListNames DEF Writes

\* A name that is ours remains so.
LEMMA OwnedStays ==
    ASSUME EnsInv, NEW name, Owned(name),
           NextEns \/ UNCHANGED vars \/ \E u \in U : Begin(u)
    PROVE  Owned(name)'
<1>1. TypeOK /\ NodeTypeOK
  BY DEF EnsInv, TypeOK
<1>2. CASE name = Parent \/ name \in Registered
  BY <1>2 DEF Owned
<1>3. CASE \E i \in DOMAIN mined : mined[i].ok /\ Creates(mined[i].job, name)
  <2>1. PICK i \in DOMAIN mined : mined[i].ok /\ Creates(mined[i].job, name)
    BY <1>3
  <2>2. mined[i].job \in Jobs /\ mined[i].job[1] \in U /\ at[mined[i].job[1]] # "idle"
    BY <1>1, <2>1, MinedTyped, JobParts DEF EnsInv, JobsBegun
  <2>3. label'[mined[i].job[1]] = label[mined[i].job[1]]
    <3>1. CASE NextEns
      BY <3>1, StepMoves DEF NextEns, MineWrite, EvictWrite, updater, U
    <3>2. CASE UNCHANGED vars
      BY <3>2 DEF vars, updater
    <3>3. CASE \E u \in U : Begin(u)
      <4>1. PICK u, l : /\ u \in U /\ at[u] = "idle"
                        /\ label' = [label EXCEPT ![u] = l]
        BY <3>3 DEF Begin
      <4>2. label \in [U -> Labels \cup {NoLabel}]
        BY <1>1 DEF TypeOK, U
      <4> QED BY <2>2, <4>1, <4>2
    <3> QED BY <3>1, <3>2, <3>3
  <2>4. i \in DOMAIN mined' /\ mined'[i] = mined[i]
    <3>1. CASE mined' = mined
      BY <3>1
    <3>2. CASE \E t \in pool, ok \in BOOLEAN : Mine(t.job, ok)
      <4>1. PICK t \in pool, ok \in BOOLEAN : Mine(t.job, ok)
        BY <3>2
      <4>2. t.job \in Jobs
        BY <1>1 DEF NodeTypeOK
      <4>3. /\ DOMAIN mined' = 1 .. Len(mined) + 1
            /\ DOMAIN mined = 1 .. Len(mined) /\ Len(mined) \in Nat
            /\ \A k \in 1 .. Len(mined) : mined'[k] = mined[k]
        BY <1>1, <4>1, <4>2, MineAppends
      <4> QED BY <2>1, <4>3
    <3>3. CASE NextEns
      BY <3>1, <3>2, <3>3, StepMoves DEF NextEns, MineWrite, EvictWrite, Evict, U
    <3>4. CASE UNCHANGED vars \/ \E u \in U : Begin(u)
      BY <3>1, <3>4 DEF vars, node, Begin
    <3> QED BY <3>3, <3>4
  <2> QED BY <2>1, <2>3, <2>4 DEF Owned, Creates
<1> QED BY <1>2, <1>3 DEF Owned

\* What went wrong stays wrong.
LEMMA TroubleStays ==
    ASSUME EnsInv, NextEns \/ UNCHANGED vars \/ \E u \in U : Begin(u)
    PROVE  /\ mishaps \subseteq mishaps'
           /\ Calm' => Calm /\ ~Fault
<1>1. faults \in Nat /\ at \in [U -> Places]
  BY PoolTyped DEF EnsInv, TypeOK, U, Places
<1>2. ASSUME NEW u \in U, Step(u)
      PROVE  mishaps' = mishaps /\ (Fault \/ UNCHANGED faults)
             /\ \A v \in U : at[v] = "unseen" => at'[v] = "unseen"
  BY <1>2, StepMoves DEF EnsInv, Running
<1>3. ASSUME NEW u \in U, Begin(u)
      PROVE  mishaps \subseteq mishaps' /\ UNCHANGED faults
             /\ \A v \in U : at[v] = "unseen" => at'[v] = "unseen"
  BY <1>1, <1>3 DEF Begin, node
<1>4. CASE MineWrite
  <2>1. UNCHANGED <<at, mishaps>> /\ (Fault \/ UNCHANGED faults)
    BY <1>4 DEF MineWrite, updater
  <2> QED BY <1>1, <2>1 DEF Fault, Calm
<1>5. CASE EvictWrite
  <2>1. UNCHANGED at /\ mishaps \subseteq mishaps' /\ faults' = faults + 1
    BY <1>5 DEF EvictWrite, Evict, Fault
  <2> QED BY <1>1, <2>1 DEF Calm
<1>6. CASE UNCHANGED vars
  <2>1. UNCHANGED <<at, mishaps, faults>>
    BY <1>6 DEF vars, updater, node
  <2> QED BY <1>1, <2>1 DEF Fault, Calm
<1>7. CASE \E u \in U : Step(u) \/ Begin(u)
  BY <1>1, <1>2, <1>3, <1>7 DEF Fault, Calm
<1> QED BY <1>4, <1>5, <1>6, <1>7 DEF NextEns, U

LEMMA OursNext ==
    ASSUME EnsInv, OwnPlace, OursWhenReady,
           NextEns \/ UNCHANGED vars \/ \E u \in U : Begin(u)
    PROVE  OursWhenReady'
<1> SUFFICES ASSUME Undisturbed', NEW v \in U, at'[v] = "ready", kind'[v] = "text",
                    NEW n, n = Writes(v)'[step'[v]][1]
             PROVE  Owned(n)'
  BY DEF OursWhenReady, Owned, Name
<1>0. Undisturbed
  <2>1. mishaps \subseteq {"overlapped", "forgotten"}
    BY DEF EnsInv, TypeOK
  <2>2. mishaps \subseteq mishaps' /\ mishaps' \subseteq {"overlapped", "forgotten"}
    <3>1. mishaps' \subseteq mishaps \cup {"overlapped", "forgotten"}
      BY StepMoves DEF NextEns, MineWrite, EvictWrite, Begin, vars, updater, U
    <3> QED BY <2>1, <3>1, TroubleStays
  <2> QED BY <2>1, <2>2 DEF Undisturbed
<1>1. TypeOK /\ at \in [U -> Places] /\ kind \in [U -> {"text", "create"}]
      /\ step \in [U -> Nat] /\ label \in [U -> Labels \cup {NoLabel}]
  BY DEF EnsInv, TypeOK, U, Places
<1>2. ASSUME at[v] = "ready", kind[v] = "text", Name(v) = n PROVE Owned(n)'
  BY <1>0, <1>2, OwnedStays DEF OursWhenReady
<1>3. n = Parent => Owned(n)'
  BY DEF Owned
<1>4. ASSUME UNCHANGED <<at, kind, step, label>> PROVE Owned(n)'
  BY <1>2, <1>4 DEF Name, Writes
<1>5. ASSUME NEW u \in U, Step(u) PROVE Owned(n)'
  <2>1. UNCHANGED <<label, mined>> /\ \A w \in U : Writes(w)' = Writes(w)
    BY <1>5, StepMoves DEF Writes
  <2>2. CASE u # v
    <3>1. at[v] = "ready" /\ kind[v] = "text" /\ step'[v] = step[v]
      BY <1>5, <2>2, StepMoves
    <3> QED BY <1>2, <2>1, <3>1 DEF Name
  <2>3. CASE u = v /\ ReadOwner(u)
    <3>1. step' = step /\ Owned(Name(v))
      BY <1>1, <2>3 DEF ReadOwner, Goes
    <3>2. Owned(n)
      BY <2>1, <3>1 DEF Name
    <3> QED BY <1>5, <3>2, OwnedStays DEF NextEns, U
  <2>4. CASE u = v /\ CreateUnlessOwned(u)
    <3>1. step' = step /\ Owned(Name(v))
      BY <1>1, <2>4 DEF CreateUnlessOwned
    <3>2. Owned(n)
      BY <2>1, <3>1 DEF Name
    <3> QED BY <1>5, <3>2, OwnedStays DEF NextEns, U
  <2>5. CASE u = v /\ ReceiptFound(u)
    <3>1. /\ Advance(u) /\ nonce[u] < Len(mined) /\ mined[nonce[u] + 1].job = Job(u)
          /\ mined[nonce[u] + 1].ok
      BY <1>0, <2>5 DEF ReceiptFound, Answered, StatusOf, OwnPlace
    <3>2. CASE kind[u] = "create"
      <4>1. step' = step
        BY <3>1, <3>2 DEF Advance
      <4>2. n = label[u]
        <5>1. step[u] \in DOMAIN Writes(u) /\ Writes(u)[step[u]][1] # Parent
          BY <1>1, <3>2 DEF TypeOK, U
        <5> QED BY <2>1, <2>5, <4>1, <5>1, NamesWritten
      <4>3. PICK i \in DOMAIN mined : mined[i].job = Job(u) /\ mined[i].ok
        BY <1>1, <3>1, JobTyped DEF TypeOK, NodeTypeOK
      <4>4. Creates(mined[i].job, n)
        BY <3>2, <4>2, <4>3 DEF Creates, Job
      <4>5. Owned(n)
        BY <4>3, <4>4 DEF Owned
      <4> QED BY <1>5, <4>5, OwnedStays DEF NextEns, U
    <3>3. CASE kind[u] # "create"
      <4>1. ~IsLast(u) /\ step' = [step EXCEPT ![u] = @ + 1]
            /\ at' = [at EXCEPT ![u] = FirstRead(step[u] + 1)]
        BY <1>1, <2>5, <3>1, <3>3 DEF Advance
      <4>2. step[u] + 1 <= Len(ParentKeys) /\ step'[u] = step[u] + 1
        BY <1>1, <2>5, <4>1 DEF FirstRead
      <4>3. step'[u] \in DOMAIN Writes(u)
        <5>1. step[u] \in 1 .. Len(Writes(u)) /\ Len(Writes(u)) \in Nat
              /\ DOMAIN Writes(u) = 1 .. Len(Writes(u))
          BY <1>1, JobTyped, WritesLength, KeyLengths
        <5> QED BY <4>1, <4>2, <5>1 DEF IsLast
      <4>4. n = Parent
        BY <2>1, <2>5, <4>2, <4>3, NamesWritten
      <4> QED BY <1>3, <4>4
    <3> QED BY <3>2, <3>3
  <2>6. CASE u = v /\ ~(ReadOwner(u) \/ CreateUnlessOwned(u) \/ ReceiptFound(u))
    <3>1. at[v] = "ready" /\ UNCHANGED <<kind, step>>
      BY <1>1, <1>5, <2>6 DEF Step, Sign, Due, RequestFails, Broadcast, BroadcastRefused,
         BroadcastLost, AfterLoss, AfterBroadcast, ReceiptReverted, PollTimesOut, GivesUp,
         updater, Goes
    <3> QED BY <1>2, <2>1, <3>1 DEF Name
  <2> QED BY <2>2, <2>3, <2>4, <2>5, <2>6
<1>6. ASSUME NEW u \in U, Begin(u) PROVE Owned(n)'
  <2>1. /\ at[u] = "idle" /\ at' = [at EXCEPT ![u] = "ready"] /\ UNCHANGED <<step, kind>>
        /\ \E l : label' = [label EXCEPT ![u] = l]
    BY <1>6 DEF Begin
  <2>2. CASE u = v
    <3>1. step'[v] = 1 /\ 1 <= Len(ParentKeys) /\ 1 \in DOMAIN Writes(v)'
      BY <2>1, <2>2, WritesLength, KeyLengths DEF EnsInv, FreshStart
    <3> QED BY <1>3, <3>1, NamesWritten
  <2>3. CASE u # v
    <3>1. label'[v] = label[v] /\ at[v] = "ready"
      BY <1>1, <2>1, <2>3
    <3>2. Name(v) = n
      BY <2>1, <3>1 DEF Name, Writes
    <3> QED BY <1>2, <2>1, <3>1, <3>2
  <2> QED BY <2>2, <2>3
<1>7. CASE MineWrite \/ EvictWrite \/ UNCHANGED vars
  BY <1>4, <1>7 DEF MineWrite, EvictWrite, vars, updater
<1> QED BY <1>5, <1>6, <1>7 DEF NextEns, U

LEMMA InTurnNext ==
    ASSUME IInv, InTurn, [Next]_allVars
    PROVE  InTurn'
<1>1. confirmed \subseteq happened
  BY DEF IInv, BackMeansSettled
<1>2. \A p : Finished(p) => Finished(p)'
  BY DEF Finished, Next, Purchase, LateEffect, Return, ReceiptNotSaved, galileo, allVars,
     Galileo!Happen, Galileo!Confirm, Galileo!GiveUp
<1>3. ASSUME NEW p \in U, p \in back' \/ <<p, 1>> \in confirmed',
             p \notin back, <<p, 1>> \notin confirmed
      PROVE  \A q \in 1 .. p - 1 : Finished(q)
  <2>1. CASE \E m \in Moves : Purchase(m)
    <3>1. PICK m \in Moves : Purchase(m)
      BY <2>1
    <3>2. m = <<p, 1>>
      BY <1>3, <3>1 DEF Purchase, Galileo!Happen, Galileo!Confirm, Galileo!GiveUp
    <3> QED BY <3>1, <3>2 DEF Purchase
  <2>2. CASE \E o \in U : Return(o)
    <3>1. PICK o \in U : Return(o)
      BY <2>2
    <3>2. o = p /\ Settled(p)
      BY <1>3, <3>1 DEF Return
    <3> QED BY <1>3, <3>2, MovesAssumption DEF Settled, U
  <2>3. CASE \E m \in Moves : LateEffect(m)
    BY <1>3, <2>3 DEF LateEffect, Galileo!Happen
  <2>4. CASE UNCHANGED galileo \/ \E q \in U : ReceiptNotSaved(q)
    BY <1>3, <2>4 DEF galileo, ReceiptNotSaved
  <2>5. CASE Next
    BY <2>1, <2>2, <2>3, <2>4, <2>5 DEF Next, U
  <2>6. CASE UNCHANGED allVars
    BY <2>4, <2>6 DEF allVars
  <2> QED BY <2>5, <2>6
<1>4. \A p \in U : \A q \in 1 .. p - 1 :
         p \in back' \/ <<p, 1>> \in confirmed' => Finished(q)
  BY <1>3 DEF InTurn
<1> QED BY <1>2, <1>4 DEF InTurn

LEMMA LatestRunsNext ==
    ASSUME IInv, InTurn, LatestRuns, [Next]_allVars
    PROVE  LatestRuns'
<1>1. at \in [U -> Places] /\ EnsInv
  BY DEF IInv, EnsInv, TypeOK, U, Places
<1>2. ASSUME mishaps \subseteq mishaps',
             \A u \in U : Running(u)' => Running(u),
             \A u \in U : at'[u] # "idle" => at[u] # "idle"
      PROVE  LatestRuns'
  BY <1>2 DEF LatestRuns
<1>3. ASSUME NEW u \in U, Step(u) PROVE LatestRuns'
  BY <1>2, <1>3, <1>1, StepMoves DEF Running
<1>4. CASE MineWrite \/ EvictWrite \/ UNCHANGED vars
  BY <1>2, <1>4 DEF MineWrite, EvictWrite, vars, updater, Running
<1>5. ASSUME NEW p \in U, Return(p) PROVE LatestRuns'
  <2>1. /\ p \notin failed \cup back
        /\ at' = [at EXCEPT ![p] = "ready"]
        /\ mishaps' = mishaps \cup {m \in {"overlapped"} : \E v \in 1 .. Updates : Running(v)}
    BY <1>5 DEF Return, Begin
  <2> SUFFICES ASSUME "overlapped" \notin mishaps', NEW u \in U, NEW v \in U,
                      Running(u)', at'[v] # "idle"
               PROVE  v <= u
    BY DEF LatestRuns
  <2>2. \A w \in U : ~Running(w)
    BY <2>1 DEF U
  <2>3. u = p
    BY <1>1, <2>1, <2>2 DEF Running
  <2>4. CASE v = p
    BY <2>3, <2>4 DEF U
  <2>5. CASE v # p
    <3>1. v \in back
      BY <1>1, <2>1, <2>5 DEF IInv, BegunMeansBack
    <3>2. ~(p \in 1 .. v - 1)
      BY <2>1, <3>1 DEF InTurn, Finished
    <3> QED BY <2>3, <3>2 DEF U
  <2> QED BY <2>4, <2>5
<1> QED BY <1>3, <1>4, <1>5 DEF Next, NextEns, Purchase, LateEffect, ReceiptNotSaved, allVars, U


\* Calm at both ends of a step: an update that runs without a transaction in
\* flight has an empty pool before it.
LEMMA PoolEmpty ==
    ASSUME EnsInv, LatestRuns, CalmAlone, Calm, NEW u \in U, Running(u)
    PROVE  /\ at[u] # "sent" => pool = {}
           /\ \A t \in pool : t.job = Job(u) /\ t.nonce = nonce[u] /\ Len(mined) <= t.nonce
           /\ \A v \in U : Running(v) => v = u
<1>1. \A v \in U : Running(v) => v = u
  <2> SUFFICES ASSUME NEW v \in U, Running(v) PROVE v = u
    OBVIOUS
  <2>1. at[u] # "idle" /\ at[v] # "idle"
    BY DEF Running
  <2>2. u <= v /\ v <= u
    BY <2>1 DEF LatestRuns, Calm
  <2> QED BY <2>2 DEF U
<1>2. \A t \in pool : t.job[1] = u
  BY <1>1, PoolTyped DEF CalmAlone, EnsInv, Running
<1> QED BY <1>1, <1>2 DEF CalmAlone

LEMMA CalmAloneNext ==
    ASSUME EnsInv, OursWhenReady, LatestRuns, CalmAlone,
           NextEns \/ UNCHANGED vars \/ \E u \in U : Begin(u)
    PROVE  CalmAlone'
<1> SUFFICES ASSUME Calm'
             PROVE  (/\ \A t \in pool : /\ at[t.job[1]] = "sent"
                                        /\ t.job = Job(t.job[1])
                                        /\ t.nonce = nonce[t.job[1]]
                                        /\ Len(mined) <= t.nonce
                     /\ \A u \in U : at[u] = "signed" => pool = {} /\ nonce[u] = Len(mined)
                     /\ \A i \in DOMAIN mined : mined[i].ok
                     /\ \A u \in U : at[u] # "failed")'
  BY DEF CalmAlone
<1>1. Calm /\ ~Fault /\ "overlapped" \notin mishaps'
  BY TroubleStays DEF Calm
<1>2. /\ TypeOK /\ at \in [U -> Places] /\ kind \in [U -> {"text", "create"}]
      /\ nonce \in [U -> Nat] /\ Len(mined) \in Nat /\ DOMAIN mined = 1 .. Len(mined)
  BY PoolTyped DEF EnsInv, TypeOK, U, Places
<1>3. /\ \A t \in pool : /\ at[t.job[1]] = "sent" /\ t.job = Job(t.job[1])
                         /\ t.nonce = nonce[t.job[1]] /\ Len(mined) <= t.nonce
      /\ \A u \in U : at[u] = "signed" => pool = {} /\ nonce[u] = Len(mined)
      /\ \A i \in DOMAIN mined : mined[i].ok
      /\ \A u \in U : at[u] # "failed"
  BY <1>1 DEF CalmAlone
<1>4. ASSUME NEW u \in U, Step(u),
             at'[u] \notin {"signed", "failed"}, pool' = {}
      PROVE  /\ \A v \in U : at'[v] = "signed" => pool' = {} /\ nonce'[v] = Len(mined')
             /\ \A i \in DOMAIN mined' : mined'[i].ok
             /\ \A v \in U : at'[v] # "failed"
  BY <1>3, <1>4, StepMoves
<1>5. ASSUME NEW u \in U, Step(u) PROVE
             /\ \A v \in U \ {u} : at'[v] # "signed"
             /\ \A v \in U \ {u} : at'[v] # "failed"
             /\ \A i \in DOMAIN mined' : mined'[i].ok
             /\ mined' = mined
             /\ Running(u) /\ (at[u] # "sent" => pool = {})
  <2>1. Running(u) /\ mined' = mined /\ \A v \in U \ {u} : at'[v] = at[v]
    BY <1>5, StepMoves
  <2>2. \A v \in U : Running(v) => v = u
    BY <1>1, <2>1, PoolEmpty
  <2>3. at[u] # "sent" => pool = {}
    BY <1>1, <2>1, PoolEmpty
  <2> QED BY <1>3, <2>1, <2>2, <2>3 DEF Running
<1>6. ASSUME NEW u \in U, ReadOwner(u) \/ CreateUnlessOwned(u)
      PROVE  pool' = {} /\ at'[u] \notin {"signed", "failed"}
  BY <1>2, <1>5, <1>6 DEF ReadOwner, CreateUnlessOwned, Goes, node, Step
<1>7. ASSUME NEW u \in U, Sign(u)
      PROVE  pool' = {} /\ at'[u] = "signed" /\ nonce'[u] = Len(mined')
  <2>1. pool = {} /\ pool' = pool /\ mined' = mined
    BY <1>5, <1>7 DEF Sign, Due, node, Step
  <2>2. Counts = {Len(mined)}
    BY <2>1 DEF Counts, PoolNonces
  <2> QED BY <1>2, <1>7, <2>1, <2>2 DEF Sign, Due
<1>8. ASSUME NEW u \in U, RequestFails(u) \/ BroadcastLost(u) PROVE FALSE
  BY <1>1, <1>8 DEF RequestFails, BroadcastLost, WouldRevert, OursWhenReady, Calm, Undisturbed
<1>9. ASSUME NEW u \in U, Broadcast(u)
      PROVE  /\ pool' = {[nonce |-> nonce[u], job |-> Job(u)]}
             /\ at'[u] = "sent" /\ nonce[u] = Len(mined)
             /\ UNCHANGED <<step, kind, nonce>>
  BY <1>2, <1>3, <1>9 DEF Broadcast, Enters, AfterBroadcast, Goes
<1>10. ASSUME NEW u \in U, BroadcastRefused(u) PROVE FALSE
  BY <1>2, <1>3, <1>10 DEF BroadcastRefused, Taken, PoolNonces
<1>11. ASSUME NEW u \in U, ReceiptFound(u)
       PROVE  pool' = {} /\ at'[u] \notin {"signed", "failed"}
  <2>1. nonce[u] < Len(mined) /\ pool' = pool /\ Running(u) /\ Advance(u)
    BY <1>11 DEF ReceiptFound, Answered, node, Running
  <2>2. pool = {}
    BY <1>1, <1>2, <2>1, PoolEmpty
  <2>3. at'[u] \notin {"signed", "failed"}
    BY <1>2, <2>1 DEF Advance, FirstRead
  <2> QED BY <2>1, <2>2, <2>3
<1>12. ASSUME NEW u \in U, ReceiptReverted(u) PROVE FALSE
  <2>1. nonce[u] + 1 \in DOMAIN mined /\ ~mined[nonce[u] + 1].ok
    BY <1>2, <1>12 DEF ReceiptReverted, Answered, StatusOf
  <2> QED BY <1>3, <2>1
<1>13. ASSUME NEW u \in U, PollTimesOut(u) PROVE FALSE
  <2>1. at'[u] = "unseen"
    BY <1>2, <1>13 DEF PollTimesOut, GivesUp, Goes
  <2> QED BY <2>1 DEF Calm
<1>14. ASSUME NEW u \in U, Step(u)
       PROVE  (/\ \A t \in pool : /\ at[t.job[1]] = "sent"
                                  /\ t.job = Job(t.job[1])
                                  /\ t.nonce = nonce[t.job[1]]
                                  /\ Len(mined) <= t.nonce
               /\ \A v \in U : at[v] = "signed" => pool = {} /\ nonce[v] = Len(mined)
               /\ \A i \in DOMAIN mined : mined[i].ok
               /\ \A v \in U : at[v] # "failed")'
  <2>1. CASE ReadOwner(u) \/ CreateUnlessOwned(u) \/ ReceiptFound(u)
    BY <1>4, <1>6, <1>11, <1>14, <2>1
  <2>2. CASE Sign(u)
    BY <1>5, <1>7, <1>14, <2>2
  <2>3. CASE Broadcast(u)
    <3>1. [nonce |-> nonce[u], job |-> Job(u)].job = <<u, step[u], kind[u]>>
      BY DEF Job
    <3>2. \A t \in pool' : t.job[1] = u /\ t.job = <<u, step'[u], kind'[u]>>
                           /\ t.nonce = nonce'[u] /\ Len(mined') <= t.nonce
      BY <1>2, <1>5, <1>9, <1>14, <2>3, <3>1
    <3> QED BY <1>5, <1>9, <1>14, <2>3, <3>2 DEF Job
  <2> QED BY <1>8, <1>10, <1>12, <1>13, <1>14, <2>1, <2>2, <2>3 DEF Step
<1>15. CASE MineWrite
  <2>1. PICK t \in pool : Mine(t.job, TRUE)
    BY <1>1, <1>15 DEF MineWrite
  <2>2. t.job \in Jobs /\ t.job[1] \in U
    BY <1>2, PoolTyped
  <2>3. Running(t.job[1])
    BY <1>3 DEF Running
  <2>4. \A s \in pool : s = t
    <3>1. \A s \in pool : s.job = t.job /\ s.nonce = t.nonce
      BY <1>1, <2>2, <2>3, PoolEmpty
    <3> QED BY <1>2, <3>1, PoolTyped
  <2>5. pool' = {}
    BY <2>1, <2>4 DEF Mine
  <2>6. \A i \in DOMAIN mined' : mined'[i].ok
    <3>1. /\ DOMAIN mined' = 1 .. Len(mined) + 1
          /\ \A i \in 1 .. Len(mined) : mined'[i] = mined[i]
          /\ mined'[Len(mined) + 1] = [job |-> t.job, ok |-> TRUE]
      BY <1>2, <2>1, <2>2, MineAppends DEF TypeOK
    <3> SUFFICES ASSUME NEW i \in 1 .. Len(mined) + 1 PROVE mined'[i].ok
      BY <3>1
    <3>2. CASE i \in 1 .. Len(mined)
      BY <1>2, <1>3, <3>1, <3>2
    <3>3. CASE i = Len(mined) + 1
      BY <3>1, <3>3
    <3> QED BY <1>2, <3>2, <3>3
  <2>7. UNCHANGED at
    BY <1>15 DEF MineWrite, updater
  <2> QED BY <1>3, <2>5, <2>6, <2>7
<1>16. CASE EvictWrite
  BY <1>1, <1>16 DEF EvictWrite, Evict
<1>17. CASE UNCHANGED vars
  BY <1>3, <1>17 DEF vars, updater, node, Job
<1>18. ASSUME NEW p \in U, Begin(p)
       PROVE  (/\ \A t \in pool : /\ at[t.job[1]] = "sent"
                                  /\ t.job = Job(t.job[1])
                                  /\ t.nonce = nonce[t.job[1]]
                                  /\ Len(mined) <= t.nonce
               /\ \A v \in U : at[v] = "signed" => pool = {} /\ nonce[v] = Len(mined)
               /\ \A i \in DOMAIN mined : mined[i].ok
               /\ \A v \in U : at[v] # "failed")'
  <2>1. /\ at' = [at EXCEPT ![p] = "ready"] /\ UNCHANGED <<pool, mined>>
        /\ mishaps' = mishaps \cup {m \in {"overlapped"} : \E v \in 1 .. Updates : Running(v)}
    BY <1>18 DEF Begin, node
  <2>2. \A v \in U : ~Running(v)
    BY <1>1, <2>1 DEF U
  <2>3. pool = {}
    BY <1>2, <1>3, <2>2, PoolTyped DEF Running
  <2>4. \A v \in U : at'[v] # "signed" /\ at'[v] # "failed"
    BY <1>2, <1>3, <2>1, <2>2 DEF Running
  <2> QED BY <1>3, <2>1, <2>3, <2>4
<1> QED BY <1>14, <1>15, <1>16, <1>17, <1>18 DEF NextEns, U

\* Without an overlap, nothing on the way to the chain or there is of a later
\* update than the one that runs.
LEMMA RunsLast ==
    ASSUME EnsInv, LatestRuns, "overlapped" \notin mishaps, NEW u \in U, Running(u)
    PROVE  /\ \A v \in U : Running(v) => v = u
           /\ \A t \in pool : t.job[1] \in U /\ t.job[1] <= u
           /\ \A i \in DOMAIN mined : mined[i].job[1] \in U /\ mined[i].job[1] <= u
<1>1. \A v \in U : at[v] # "idle" => v <= u
  BY DEF LatestRuns
<1>2. at[u] # "idle"
  BY DEF Running
<1>3. ASSUME NEW v \in U, Running(v) PROVE v = u
  <2>1. v <= u /\ u <= v
    BY <1>1, <1>2, <1>3 DEF LatestRuns, Running
  <2> QED BY <2>1 DEF U
<1>4. ASSUME NEW t \in pool PROVE t.job[1] \in U /\ t.job[1] <= u
  BY <1>1, PoolTyped DEF EnsInv, JobsBegun
<1>5. ASSUME NEW i \in DOMAIN mined PROVE mined[i].job[1] \in U /\ mined[i].job[1] <= u
  <2>1. mined[i].job \in Jobs
    BY MinedTyped DEF EnsInv, TypeOK
  <2> QED BY <1>1, <2>1, JobParts DEF EnsInv, JobsBegun
<1> QED BY <1>3, <1>4, <1>5

\* The next count leaves no hole.
LEMMA CountLeavesNoHole ==
    ASSUME EnsInv, Ahead, NEW c \in Counts, NEW n \in Len(mined) .. c - 1
    PROVE  n \in PoolNonces
<1>1. Len(mined) \in Nat /\ \A t \in pool : t.nonce \in Nat
  BY PoolTyped DEF EnsInv
<1>2. c # Len(mined)
  BY <1>1
<1>3. PICK t \in pool : c = t.nonce + 1
  BY <1>2 DEF Counts, PoolNonces
<1>4. n \in Len(mined) .. t.nonce
  BY <1>1, <1>3
<1> QED BY <1>4 DEF Ahead

\* A transaction enters the pool behind all the others.
LEMMA EntersInOrder ==
    ASSUME EnsInv, LatestRuns, "overlapped" \notin mishaps, Ahead, Among, NoGap,
           NEW u \in U, at[u] = "signed", Enters(Job(u), nonce[u]), mined' = mined
    PROVE  Ahead' /\ Among'
<1> DEFINE x == [nonce |-> nonce[u], job |-> Job(u)]
<1>1. /\ Len(mined) \in Nat
      /\ \A t \in pool : t.nonce \in Nat
      /\ nonce[u] \in Nat /\ x.nonce = nonce[u] /\ x.job[1] = u
  BY PoolTyped DEF EnsInv, TypeOK, U, Job
<1>2. pool' = pool \cup {x} /\ ~Taken(nonce[u])
  BY DEF Enters
<1>3. Len(mined) <= nonce[u] /\ nonce[u] \notin PoolNonces
  BY <1>1, <1>2 DEF Taken
<1>4. /\ \A t \in pool : t.job[1] <= u
      /\ \A i \in DOMAIN mined : mined[i].job[1] <= u
  BY RunsLast DEF Running
<1> HIDE DEF x
<1>5. \A n : n \in PoolNonces' <=> n \in PoolNonces \/ n = nonce[u]
  BY <1>1, <1>2 DEF PoolNonces
<1>6. ASSUME NEW t \in pool PROVE t.nonce < nonce[u]
  <2>1. t.nonce # nonce[u]
    BY <1>3 DEF PoolNonces
  <2>2. ASSUME nonce[u] < t.nonce PROVE FALSE
    <3>1. nonce[u] \in Len(mined) .. t.nonce
      BY <1>1, <1>3, <2>2
    <3> QED BY <1>3, <3>1 DEF Ahead
  <2> QED BY <1>1, <2>1, <2>2
<1>7. \A n \in Len(mined) .. nonce[u] : n \in PoolNonces'
  <2>1. \A n \in Len(mined) .. nonce[u] - 1 : n \in PoolNonces
    BY DEF NoGap
  <2>2. \A n \in Len(mined) .. nonce[u] : n = nonce[u] \/ n \in Len(mined) .. nonce[u] - 1
    BY <1>1
  <2> QED BY <1>5, <2>1, <2>2
<1>8. Ahead'
  <2> SUFFICES ASSUME NEW t \in pool'
               PROVE  /\ Len(mined) <= t.nonce
                      /\ \A n \in Len(mined) .. t.nonce : n \in PoolNonces'
                      /\ \A i \in DOMAIN mined : mined[i].job[1] <= t.job[1]
    BY DEF Ahead
  <2>1. CASE t \in pool
    BY <1>5, <2>1 DEF Ahead
  <2>2. CASE t = x
    BY <1>1, <1>3, <1>4, <1>7, <2>2
  <2> QED BY <1>2, <2>1, <2>2
<1>9. Among'
  <2> SUFFICES ASSUME NEW s \in pool', NEW t \in pool'
               PROVE  /\ s.nonce = t.nonce => s = t
                      /\ s.nonce < t.nonce => s.job[1] <= t.job[1]
    BY DEF Among
  <2>1. CASE s \in pool /\ t \in pool
    BY <2>1 DEF Among
  <2>2. CASE s \in pool /\ t = x
    BY <1>1, <1>4, <1>6, <2>2
  <2>3. CASE s = x /\ t \in pool
    BY <1>1, <1>6, <2>3
  <2>4. CASE s = x /\ t = x
    BY <1>1, <2>4
  <2> QED BY <1>2, <2>1, <2>2, <2>3, <2>4
<1> QED BY <1>8, <1>9

\* The first of the pool is mined.
LEMMA MinedInOrder ==
    ASSUME EnsInv, Ahead, Among, Behind, NoGap, NEW j \in Jobs, NEW ok \in BOOLEAN,
           Mine(j, ok), UNCHANGED <<at, nonce>>
    PROVE  Ahead' /\ Among' /\ Behind' /\ NoGap'
<1> DEFINE x == [nonce |-> Len(mined), job |-> j]
<1>1. /\ Len(mined) \in Nat /\ DOMAIN mined = 1 .. Len(mined)
      /\ \A t \in pool : t.nonce \in Nat
      /\ x.nonce = Len(mined) /\ x.job = j
      /\ nonce \in [U -> Nat]
  BY PoolTyped DEF EnsInv, TypeOK, U
<1>2. x \in pool /\ pool' = pool \ {x}
  BY DEF Mine
<1>3. /\ Len(mined') = Len(mined) + 1 /\ DOMAIN mined' = 1 .. Len(mined) + 1
      /\ \A i \in 1 .. Len(mined) : mined'[i] = mined[i]
      /\ mined'[Len(mined) + 1].job = j
  <2>1. /\ DOMAIN mined' = 1 .. Len(mined) + 1
        /\ \A i \in 1 .. Len(mined) : mined'[i] = mined[i]
        /\ mined'[Len(mined) + 1] = [job |-> j, ok |-> ok]
        /\ mined' \in Seq([job : Jobs, ok : BOOLEAN])
    BY MineAppends DEF EnsInv, TypeOK
  <2>2. Len(mined') \in Nat /\ DOMAIN mined' = 1 .. Len(mined')
    BY <2>1, LenProperties
  <2> QED BY <1>1, <2>1, <2>2
<1> HIDE DEF x
<1>4. \A t \in pool' : t \in pool /\ Len(mined) < t.nonce
  BY <1>1, <1>2 DEF Ahead, Among
<1>5. \A n : n \in PoolNonces /\ n # Len(mined) => n \in PoolNonces'
  BY <1>1, <1>2 DEF PoolNonces
<1>6. \A t \in pool' : j[1] <= t.job[1]
  BY <1>1, <1>2, <1>4 DEF Among
<1>7. \A i \in DOMAIN mined : mined[i].job[1] <= j[1]
  BY <1>1, <1>2 DEF Ahead
<1>8. Ahead'
  <2> SUFFICES ASSUME NEW t \in pool'
               PROVE  /\ Len(mined) + 1 <= t.nonce
                      /\ \A n \in Len(mined) + 1 .. t.nonce : n \in PoolNonces'
                      /\ \A i \in 1 .. Len(mined) + 1 : mined'[i].job[1] <= t.job[1]
    BY <1>3 DEF Ahead
  <2>1. Len(mined) + 1 <= t.nonce
    BY <1>1, <1>4
  <2>2. \A n \in Len(mined) + 1 .. t.nonce : n \in PoolNonces'
    <3> SUFFICES ASSUME NEW n \in Len(mined) + 1 .. t.nonce PROVE n \in PoolNonces'
      OBVIOUS
    <3>1. Len(mined) \in Nat /\ t.nonce \in Nat /\ t \in pool
      BY <1>1, <1>4
    <3>2. n \in Len(mined) .. t.nonce /\ n # Len(mined)
      BY <3>1
    <3>3. n \in PoolNonces
      BY <3>1, <3>2 DEF Ahead
    <3> QED BY <1>5, <3>2, <3>3
  <2>3. ASSUME NEW i \in 1 .. Len(mined) + 1 PROVE mined'[i].job[1] <= t.job[1]
    <3>1. CASE i \in 1 .. Len(mined)
      BY <1>1, <1>3, <1>4, <3>1 DEF Ahead
    <3>2. CASE i = Len(mined) + 1
      BY <1>3, <1>6, <3>2
    <3> QED BY <1>1, <3>1, <3>2
  <2> QED BY <2>1, <2>2, <2>3
<1>9. Among'
  BY <1>2 DEF Among
<1>10. Behind'
  <2> SUFFICES ASSUME NEW i \in 1 .. Len(mined) + 1, NEW k \in 1 .. Len(mined) + 1, i <= k
               PROVE  mined'[i].job[1] <= mined'[k].job[1]
    BY <1>3 DEF Behind
  <2>1. CASE k \in 1 .. Len(mined)
    <3>1. i \in 1 .. Len(mined)
      BY <1>1, <2>1
    <3> QED BY <1>1, <1>3, <2>1, <3>1 DEF Behind
  <2>2. CASE k = Len(mined) + 1 /\ i \in 1 .. Len(mined)
    BY <1>1, <1>3, <1>7, <2>2
  <2>3. CASE k = Len(mined) + 1 /\ i = Len(mined) + 1
    <3>1. j[1] \in Nat
      BY JobParts DEF U
    <3> QED BY <1>3, <2>3, <3>1
  <2> QED BY <1>1, <2>1, <2>2, <2>3
<1>11. NoGap'
  <2> SUFFICES ASSUME NEW u \in U, at[u] = "signed", NEW n \in Len(mined) + 1 .. nonce[u] - 1
               PROVE  n \in PoolNonces'
    BY <1>3 DEF NoGap
  <2>1. Len(mined) \in Nat /\ nonce[u] \in Nat
    BY <1>1
  <2>2. n \in Len(mined) .. nonce[u] - 1 /\ n # Len(mined)
    BY <2>1
  <2>3. n \in PoolNonces
    BY <2>2 DEF NoGap
  <2> QED BY <1>5, <2>2, <2>3
<1> QED BY <1>8, <1>9, <1>10, <1>11

LEMMA PoolInOrderNext ==
    ASSUME EnsInv, LatestRuns, PoolInOrder,
           NextEns \/ UNCHANGED vars \/ \E u \in U : Begin(u)
    PROVE  PoolInOrder'
<1> SUFFICES ASSUME mishaps' = {} PROVE (Ahead /\ Among /\ Behind /\ NoGap)'
  BY DEF PoolInOrder
<1>1. mishaps = {}
  BY TroubleStays
<1>2. Ahead /\ Among /\ Behind /\ NoGap
  BY <1>1 DEF PoolInOrder
<1>3. at \in [U -> Places] /\ nonce \in [U -> Nat] /\ TypeOK
  BY DEF EnsInv, TypeOK, U, Places
<1>4. ASSUME UNCHANGED <<pool, mined, nonce>>,
             \A u \in U : at'[u] = "signed" => at[u] = "signed"
      PROVE  (Ahead /\ Among /\ Behind /\ NoGap)'
  BY <1>2, <1>4 DEF Ahead, Among, Behind, NoGap, PoolNonces
<1>5. ASSUME NEW u \in U, Step(u) PROVE (Ahead /\ Among /\ Behind /\ NoGap)'
  <2>1. Running(u) /\ mined' = mined /\ \A v \in U \ {u} : at'[v] = at[v]
    BY <1>5, StepMoves
  <2>2. \A v \in U \ {u} : at'[v] # "signed"
    BY <1>1, <2>1, RunsLast DEF Running
  <2>3. CASE Sign(u)
    <3>1. PICK c \in Counts : nonce' = [nonce EXCEPT ![u] = c]
      BY <2>3 DEF Sign, Due
    <3>2. UNCHANGED <<pool, mined>>
      BY <2>3 DEF Sign, Due, node
    <3>3. (Ahead /\ Among /\ Behind)'
      BY <1>2, <3>2 DEF Ahead, Among, Behind, PoolNonces
    <3>4. \A n \in Len(mined) .. c - 1 : n \in PoolNonces
      BY <1>2, CountLeavesNoHole
    <3>5. NoGap'
      BY <1>3, <2>2, <3>1, <3>2, <3>4 DEF NoGap, PoolNonces
    <3> QED BY <3>3, <3>5
  <2>4. CASE at[u] = "signed" /\ Enters(Job(u), nonce[u]) /\ UNCHANGED nonce
    <3>1. Ahead' /\ Among'
      BY <1>1, <1>2, <2>1, <2>4, EntersInOrder
    <3>2. pool \subseteq pool'
      BY <2>4 DEF Enters
    <3>3. Behind'
      BY <1>2, <2>1 DEF Behind
    <3>4. NoGap'
      BY <1>2, <2>1, <2>2, <2>4, <3>2 DEF NoGap, PoolNonces
    <3> QED BY <3>1, <3>3, <3>4
  <2>5. CASE UNCHANGED <<pool, nonce>> /\ (at'[u] = "signed" => at[u] = "signed")
    BY <1>4, <2>1, <2>2, <2>5
  <2>6. CASE Broadcast(u) \/ BroadcastLost(u)
    <3>1. at[u] = "signed" /\ UNCHANGED nonce
      BY <2>6 DEF Broadcast, BroadcastLost, AfterLoss, AfterBroadcast, Goes, updater
    <3>2. Enters(Job(u), nonce[u]) \/ UNCHANGED pool
      BY <2>6 DEF Broadcast, BroadcastLost
    <3> QED BY <2>4, <2>5, <3>1, <3>2
  <2>7. CASE ~(Sign(u) \/ Broadcast(u) \/ BroadcastLost(u))
    <3>1. UNCHANGED <<pool, nonce>> /\ at'[u] # "signed"
      BY <1>3, <1>5, <2>7 DEF Step, ReadOwner, CreateUnlessOwned, RequestFails,
         BroadcastRefused, ReceiptFound, Advance, FirstRead, ReceiptReverted,
         PollTimesOut, GivesUp, Goes, node
    <3> QED BY <2>5, <3>1
  <2> QED BY <2>3, <2>6, <2>7
<1>6. CASE MineWrite
  <2>1. PICK t \in pool, ok \in BOOLEAN : Mine(t.job, ok)
    BY <1>6 DEF MineWrite
  <2>2. t.job \in Jobs
    BY <1>3, PoolTyped
  <2>3. UNCHANGED <<at, nonce>>
    BY <1>6 DEF MineWrite, updater
  <2> QED BY <1>2, <2>1, <2>2, <2>3, MinedInOrder
<1>7. CASE EvictWrite
  BY <1>7 DEF EvictWrite
<1>8. CASE UNCHANGED vars
  BY <1>4, <1>8 DEF vars, updater, node
<1>9. ASSUME NEW u \in U, Begin(u) PROVE (Ahead /\ Among /\ Behind /\ NoGap)'
  <2>1. /\ at' = [at EXCEPT ![u] = "ready"] /\ UNCHANGED <<pool, mined, nonce>>
    BY <1>9 DEF Begin, node
  <2> QED BY <1>3, <1>4, <2>1
<1> QED BY <1>5, <1>6, <1>7, <1>8, <1>9 DEF NextEns, U

-----------------------------------------------------------------------------
LEMMA LastOne ==
    ASSUME NEW n \in Nat, NEW S \in SUBSET (1 .. n), S # {}
    PROVE  LET g == CHOOSE i \in S : \A k \in S : k <= i
           IN  g \in S /\ \A k \in S : k <= g
BY GreatestIndex

\* What is mined in order shows in order.
LEMMA ShowsGrow ==
    ASSUME TypeOK, TypeOK', Behind', UNCHANGED label,
           NEW j \in Jobs, NEW ok \in BOOLEAN, Mine(j, ok), NEW r
    PROVE  Shows(r)' >= Shows(r)
<1> DEFINE H == {i \in DOMAIN mined : mined[i].ok /\ WritesTo(mined[i].job, r)}
           g == CHOOSE i \in H : \A k \in H : k <= i
<1>1. /\ DOMAIN mined' = 1 .. Len(mined) + 1
      /\ DOMAIN mined = 1 .. Len(mined) /\ Len(mined) \in Nat
      /\ \A i \in 1 .. Len(mined) : mined'[i] = mined[i]
      /\ mined'[Len(mined) + 1] = [job |-> j, ok |-> ok]
  BY MineAppends DEF TypeOK
<1>2. \A i \in DOMAIN mined' : mined'[i].job[1] \in Nat
  <2>1. \A i \in 1 .. Len(mined) : mined[i].job \in Jobs
    BY <1>1, MinedTyped DEF TypeOK
  <2> SUFFICES ASSUME NEW i \in 1 .. Len(mined) + 1 PROVE mined'[i].job \in Jobs
    BY <1>1, JobParts DEF U
  <2>2. CASE i \in 1 .. Len(mined)
    BY <1>1, <2>1, <2>2
  <2>3. CASE i = Len(mined) + 1
    BY <1>1, <2>3
  <2> QED BY <1>1, <2>2, <2>3
<1>3. H \subseteq H'
  <2> SUFFICES ASSUME NEW i \in H PROVE i \in H'
    OBVIOUS
  <2>1. \A w : WritesTo(w, r)' <=> WritesTo(w, r)
    BY DEF WritesTo, Writes
  <2>2. i \in DOMAIN mined' /\ mined'[i] = mined[i] /\ mined[i].ok
    BY <1>1
  <2>3. PICK w : w = mined[i].job
    OBVIOUS
  <2>4. WritesTo(w, r)' /\ w = mined'[i].job
    BY <2>1, <2>2, <2>3
  <2> QED BY <2>2, <2>4
<1>4. H \subseteq 1 .. Len(mined) /\ H' \subseteq 1 .. Len(mined) + 1
  BY <1>1
<1>5. /\ Shows(r) = IF H = {} THEN 0 ELSE mined[g].job[1]
      /\ Shows(r)' = IF H' = {} THEN 0 ELSE mined'[g'].job[1]
  BY DEF Shows
<1>6. H # {} => g \in H /\ \A k \in H : k <= g
  <2> HIDE DEF H
  <2> QED BY <1>1, <1>4, LastOne
<1>7. H' # {} => g' \in H' /\ \A k \in H' : k <= g'
  <2> DEFINE Q == H'
  <2>1. Len(mined) + 1 \in Nat /\ Q \subseteq 1 .. Len(mined) + 1
    BY <1>1, <1>4
  <2> HIDE DEF Q
  <2>2. Q # {} => LET h == CHOOSE i \in Q : \A k \in Q : k <= i
                  IN  h \in Q /\ \A k \in Q : k <= h
    BY <2>1, LastOne
  <2> QED BY <2>2 DEF Q
<1> HIDE DEF H, g
<1>8. CASE H = {}
  <2>1. Shows(r) = 0
    BY <1>5, <1>8
  <2>2. Shows(r)' \in Nat
    <3>1. ASSUME H' # {} PROVE mined'[g'].job[1] \in Nat
      BY <1>1, <1>2, <1>4, <1>7, <3>1
    <3> QED BY <1>5, <3>1
  <2> QED BY <2>1, <2>2
<1>9. CASE H # {}
  <2>1. g \in H' /\ H' # {} /\ g <= g' /\ g \in 1 .. Len(mined) /\ g' \in 1 .. Len(mined) + 1
    BY <1>3, <1>4, <1>6, <1>7, <1>9
  <2>2. mined'[g].job[1] <= mined'[g'].job[1]
    BY <1>1, <2>1 DEF Behind
  <2>3. Shows(r) = mined'[g].job[1] /\ Shows(r)' = mined'[g'].job[1]
    BY <1>1, <1>5, <1>9, <2>1
  <2>4. mined'[g].job[1] \in Nat /\ mined'[g'].job[1] \in Nat
    BY <1>1, <1>2, <2>1
  <2> QED BY <2>2, <2>3, <2>4
<1> QED BY <1>8, <1>9

\* The whole of what is known of the updates, for the theorems about their order.
OrderInv ==
    /\ IInv /\ OursWhenReady /\ InTurn /\ LatestRuns /\ PoolInOrder /\ CalmAlone

LEMMA OrderInit == Init => OrderInv
<1> SUFFICES ASSUME Init PROVE OrderInv
  OBVIOUS
<1>1. /\ pool = {} /\ mined = <<>> /\ at = [u \in U |-> "idle"]
      /\ confirmed = {} /\ back = {}
  BY DEF Init, InitEns, NodeInit, Galileo!Init, U
<1>2. DOMAIN mined = {}
  BY <1>1
<1>3. IInv
  BY InitInv
<1>4. OursWhenReady /\ InTurn /\ LatestRuns
  BY <1>1 DEF OursWhenReady, InTurn, LatestRuns, Running
<1>5. PoolInOrder /\ CalmAlone
  BY <1>1, <1>2 DEF PoolInOrder, Ahead, Among, Behind, NoGap, CalmAlone
<1> QED BY <1>3, <1>4, <1>5 DEF OrderInv

LEMMA NextIsUpdaters ==
    ASSUME [Next]_allVars
    PROVE  NextEns \/ UNCHANGED vars \/ \E u \in U : Begin(u)
BY DEF Next, Purchase, LateEffect, Return, ReceiptNotSaved, allVars, U

LEMMA OrderNext == OrderInv /\ [Next]_allVars => OrderInv'
<1> SUFFICES ASSUME OrderInv, [Next]_allVars PROVE OrderInv'
  OBVIOUS
<1>1. NextEns \/ UNCHANGED vars \/ \E u \in U : Begin(u)
  BY NextIsUpdaters
<1>2. EnsInv
  BY DEF OrderInv, IInv
<1>3. IInv'
  BY NextInv DEF OrderInv
<1>4. OursWhenReady'
  BY <1>1, <1>2, OursNext DEF OrderInv, IInv, PlaceInv
<1>5. InTurn' /\ LatestRuns'
  BY InTurnNext, LatestRunsNext DEF OrderInv
<1>6. PoolInOrder' /\ CalmAlone'
  BY <1>1, <1>2, PoolInOrderNext, CalmAloneNext DEF OrderInv
<1> QED BY <1>3, <1>4, <1>5, <1>6 DEF OrderInv

LEMMA OrderInvariance == Spec => []OrderInv
BY OrderInit, OrderNext, PTL DEF Spec

\* index.mjs:219-226: an update that has the wallet for itself fails only if a
\* request, a transaction or the wait for one failed before.
THEOREM FailuresHaveACause == Spec => []FailsOnlyAfterTrouble
<1>1. OrderInv => FailsOnlyAfterTrouble
  <2> SUFFICES ASSUME OrderInv, NEW u \in U, at[u] = "failed", ~(faults > 0),
                      "overlapped" \notin mishaps, \A v \in U : at[v] # "unseen"
               PROVE  FALSE
    BY DEF FailsOnlyAfterTrouble, U
  <2>1. faults \in Nat
    BY PoolTyped DEF OrderInv, IInv, EnsInv
  <2> QED BY <2>1 DEF OrderInv, CalmAlone, Calm
<1> QED BY <1>1, OrderInvariance, PTL

\* index.mjs:242-255: updates that do not overlap leave the records at the latest
\* of the trades they show, also when a transaction is mined after its update has
\* given it up, as long as the node forgets none.
THEOREM NoRecordGoesBack == Spec => RecordsNeverGoBack
<1>1. OrderInv /\ OrderInv' /\ [Next]_allVars =>
          [mined' # mined /\ mishaps' = {} =>
               \A r \in Records : Shows(r)' >= Shows(r)]_vars
  <2> SUFFICES ASSUME OrderInv, OrderInv', [Next]_allVars, mined' # mined, mishaps' = {},
                      NEW r \in Records
               PROVE  Shows(r)' >= Shows(r)
    OBVIOUS
  <2>1. NextEns
    BY NextIsUpdaters DEF Begin, vars, node
  <2>2. MineWrite
    BY <2>1, StepMoves DEF NextEns, EvictWrite, Evict, OrderInv, IInv, U
  <2>3. PICK t \in pool, ok \in BOOLEAN : Mine(t.job, ok)
    BY <2>2 DEF MineWrite
  <2>4. t.job \in Jobs /\ TypeOK /\ TypeOK'
    BY PoolTyped DEF OrderInv, IInv, EnsInv
  <2>5. UNCHANGED label
    BY <2>2 DEF MineWrite, updater
  <2>6. Behind'
    BY DEF OrderInv, PoolInOrder
  <2> QED BY <2>3, <2>4, <2>5, <2>6, ShowsGrow
<1> QED BY <1>1, OrderInvariance, PTL DEF Spec, RecordsNeverGoBack
=============================================================================
