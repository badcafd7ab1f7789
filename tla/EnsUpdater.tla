----------------------------- MODULE EnsUpdater -----------------------------
(***************************************************************************)
(* The text records of the marketplace's names on Sepolia                  *)
(* (services/ens-updater/src/index.mjs).  recordTrade writes the parent's  *)
(* records and then, if the winner has a subname, the subname's, one       *)
(* transaction each; a subname is created before it is first written.      *)
(* Nobody waits for an update, so several may run at a time; they share    *)
(* the wallet of module Wallet.                                            *)
(*                                                                         *)
(* A record's value is the number of the update it comes from.             *)
(***************************************************************************)
EXTENDS Wallet

CONSTANTS Updates,      \* how many calls of recordTrade there may be
          Labels,       \* the subnames of the suppliers
          NoLabel,      \* a winner without one
          Parent,       \* defacts.eth
          ParentKeys,   \* the parent's records in the order they are written
          AgentKeys,    \* a subname's records, likewise
          Registered    \* the subnames that exist already

ASSUME EnsAssumption ==
    /\ Updates \in Nat
    /\ Registered \subseteq Labels
    /\ Parent \notin Labels /\ NoLabel \notin Labels \cup {Parent}
    /\ ParentKeys \in Seq(STRING) /\ AgentKeys \in Seq(STRING)
    /\ ParentKeys # <<>> /\ AgentKeys # <<>>

VARIABLES label,        \* the subname of each update's winner
          at,           \* where each update is
          step,         \* the write it is at
          kind,         \* setText or setSubnodeRecord
          nonce,
          mishaps       \* history: updates overlapped, the node forgot one of theirs

updater == <<label, at, step, kind, nonce, mishaps>>
vars == <<updater, node>>

Writes(u) ==
    [i \in DOMAIN ParentKeys |-> <<Parent, ParentKeys[i]>>] \o
        IF label[u] = NoLabel THEN <<>>
        ELSE [i \in DOMAIN AgentKeys |-> <<label[u], AgentKeys[i]>>]

ASSUME JobsAreWrites ==
    Jobs = (1 .. Updates) \X (1 .. Len(ParentKeys) + Len(AgentKeys))
               \X {"text", "create"}

Running(u) == at[u] \in {"reading", "rereading", "ready", "signed", "sent"}
Ended(u) == at[u] \in {"ok", "failed", "unseen"}

TypeOK ==
    /\ NodeTypeOK
    /\ label \in [1 .. Updates -> Labels \cup {NoLabel}]
    /\ at \in [1 .. Updates -> {"idle", "reading", "rereading", "ready",
                                 "signed", "sent", "ok", "failed", "unseen"}]
    /\ kind \in [1 .. Updates -> {"text", "create"}]
    /\ nonce \in [1 .. Updates -> Nat]
    /\ mishaps \subseteq {"overlapped", "forgotten"}
    /\ step \in [1 .. Updates -> Nat]
    /\ \A u \in 1 .. Updates :
           /\ step[u] \in DOMAIN Writes(u)
           /\ kind[u] = "create" => Writes(u)[step[u]][1] # Parent

InitEns ==
    /\ NodeInit
    /\ label = [u \in 1 .. Updates |-> NoLabel]
    /\ at = [u \in 1 .. Updates |-> "idle"]
    /\ step = [u \in 1 .. Updates |-> 1]
    /\ kind = [u \in 1 .. Updates |-> "text"]
    /\ nonce = [u \in 1 .. Updates |-> 0]
    /\ mishaps = {}

Job(u) == <<u, step[u], kind[u]>>
Name(u) == Writes(u)[step[u]][1]

Creates(j, name) == j[3] = "create" /\ label[j[1]] = name
Owned(name) ==
    \/ name = Parent
    \/ name \in Registered
    \/ \E i \in DOMAIN mined : mined[i].ok /\ Creates(mined[i].job, name)

\* What getText answers for a record: the update that wrote it last, or 0.
WritesTo(j, record) == j[3] = "text" /\ Writes(j[1])[j[2]] = record
Shows(record) ==
    LET hits == {i \in DOMAIN mined : mined[i].ok /\ WritesTo(mined[i].job, record)}
    IN  IF hits = {} THEN 0
        ELSE mined[CHOOSE i \in hits : \A k \in hits : k <= i].job[1]

\* setText of the parent reads nothing; setSubnameText first reads the owner.
FirstRead(i) == IF i <= Len(ParentKeys) THEN "ready" ELSE "reading"

Begin(u) ==
    /\ at[u] = "idle"
    /\ label' \in {[label EXCEPT ![u] = l] : l \in Labels \cup {NoLabel}}
    /\ at' = [at EXCEPT ![u] = "ready"]
    /\ mishaps' = mishaps \cup {m \in {"overlapped"} : \E v \in 1 .. Updates : Running(v)}
    /\ UNCHANGED <<step, kind, nonce, node>>

Goes(u, where) ==
    /\ at' = [at EXCEPT ![u] = where]
    /\ UNCHANGED <<label, step, kind, nonce, mishaps>>

ReadOwner(u) ==
    /\ at[u] = "reading"
    /\ Goes(u, IF Owned(Name(u)) THEN "ready" ELSE "rereading")
    /\ UNCHANGED node

\* createSubname looks again, and skips a subname that is ours by now.
CreateUnlessOwned(u) ==
    /\ at[u] = "rereading"
    /\ at' = [at EXCEPT ![u] = "ready"]
    /\ kind' = [kind EXCEPT ![u] = IF Owned(Name(u)) THEN "text" ELSE "create"]
    /\ UNCHANGED <<label, step, nonce, mishaps, node>>

WouldRevert(u) == kind[u] = "text" /\ ~Owned(Name(u))

\* Slip: an update that gave up tries its last write again later on.
DueAgain(u) == at[u] \in {"ready", "unseen"}
Due(u) == at[u] = "ready"

Sign(u) ==
    /\ Due(u)
    /\ ~WouldRevert(u)
    /\ \E n \in Counts : nonce' = [nonce EXCEPT ![u] = n]
    /\ at' = [at EXCEPT ![u] = "signed"]
    /\ UNCHANGED <<label, step, kind, mishaps, node>>

\* A read or a count fails after the transport's retries; the gas of a call that
\* would revert cannot be estimated.
RequestFails(u) ==
    /\ at[u] \in {"reading", "rereading", "ready"}
    /\ IF at[u] = "ready" /\ WouldRevert(u) THEN UNCHANGED faults ELSE Fault
    /\ Goes(u, "failed")
    /\ UNCHANGED <<pool, mined>>

\* Slip: one write too many.
OneTooMany(u) == step[u] > Len(Writes(u))
IsLast(u) == step[u] = Len(Writes(u))

\* What follows a write: the text after the creation, the next record, or the end.
Advance(u) ==
    IF kind[u] = "create"
    THEN /\ kind' = [kind EXCEPT ![u] = "text"]
         /\ at' = [at EXCEPT ![u] = "ready"]
         /\ UNCHANGED step
    ELSE IF IsLast(u)
         THEN at' = [at EXCEPT ![u] = "ok"] /\ UNCHANGED <<step, kind>>
         ELSE /\ step' = [step EXCEPT ![u] = @ + 1]
              /\ at' = [at EXCEPT ![u] = FirstRead(step[u] + 1)]
              /\ UNCHANGED kind

\* Slip: the next write does not wait for the receipt of this one.
NotAwaited(u) == Advance(u) /\ UNCHANGED <<label, nonce, mishaps>>
\* Slip: a created subname is written without waiting for its receipt.
CreateNotAwaited(u) ==
    IF kind[u] = "create" THEN NotAwaited(u) ELSE Goes(u, "sent")
\* Each write waits for its receipt.
AfterBroadcast(u) == Goes(u, "sent")

Broadcast(u) ==
    /\ at[u] = "signed"
    /\ Enters(Job(u), nonce[u])
    /\ AfterBroadcast(u)
    /\ UNCHANGED <<mined, faults>>

BroadcastRefused(u) ==
    /\ at[u] = "signed"
    /\ Taken(nonce[u])
    /\ Goes(u, "failed")
    /\ UNCHANGED node

\* The transport sends the same bytes once more, or gives up.
AfterLoss(u) ==
    \/ UNCHANGED updater
    \/ Goes(u, "failed")

BroadcastLost(u) ==
    /\ at[u] = "signed"
    /\ Fault
    /\ Enters(Job(u), nonce[u]) \/ UNCHANGED pool
    /\ AfterLoss(u)
    /\ UNCHANGED mined

\* Slip: a receipt is taken for success.
StatusIgnored(ok) == TRUE
StatusOf(ok) == ok

\* waitForTransactionReceipt answers with the receipt of what was mined at the
\* transaction's nonce, should another have replaced it, and neither setText
\* nor createSubname looks whose it is (index.mjs:162-167, 205-210).
Answered(u) == at[u] = "sent" /\ nonce[u] < Len(mined)

ReceiptFound(u) ==
    /\ Answered(u)
    /\ StatusOf(mined[nonce[u] + 1].ok)
    /\ Advance(u)
    /\ UNCHANGED <<label, nonce, mishaps, node>>

ReceiptReverted(u) ==
    /\ Answered(u)
    /\ ~StatusOf(mined[nonce[u] + 1].ok)
    /\ Goes(u, "failed")
    /\ UNCHANGED node

\* Slip: the wait has no limit.
WaitForEver(u) == UNCHANGED updater
\* One minute, once: recordTrade gives the update up.
GivesUp(u) == Goes(u, "unseen")

PollTimesOut(u) ==
    /\ at[u] = "sent"
    /\ GivesUp(u)
    /\ UNCHANGED node

\* The registry and the resolver obey the owner of a name; what else may make
\* a transaction revert is a fault.
MineWrite ==
    /\ \E t \in pool :
           \/ Mine(t.job, TRUE) /\ UNCHANGED faults
           \/ Mine(t.job, FALSE) /\ Fault
    /\ UNCHANGED updater

EvictWrite ==
    /\ Evict
    /\ mishaps' = mishaps \cup {"forgotten"}
    /\ UNCHANGED <<label, at, step, kind, nonce>>

Step(u) ==
    \/ ReadOwner(u) \/ CreateUnlessOwned(u)
    \/ Sign(u) \/ RequestFails(u)
    \/ Broadcast(u) \/ BroadcastRefused(u) \/ BroadcastLost(u)
    \/ ReceiptFound(u) \/ ReceiptReverted(u) \/ PollTimesOut(u)

NextEns == (\E u \in 1 .. Updates : Step(u)) \/ MineWrite \/ EvictWrite

\* Requests and waits end because each has a timeout; no block is promised.
FairEns ==
    /\ \A u \in 1 .. Updates : WF_vars(ReadOwner(u) \/ CreateUnlessOwned(u))
    /\ \A u \in 1 .. Updates : WF_vars(Sign(u) \/ RequestFails(u))
    /\ \A u \in 1 .. Updates : WF_vars(Broadcast(u) \/ BroadcastRefused(u))
    /\ \A u \in 1 .. Updates :
           WF_vars(ReceiptFound(u) \/ ReceiptReverted(u) \/ PollTimesOut(u))

-----------------------------------------------------------------------------
\* If updates overlap and the node forgets a transaction as well, another
\* update's may be mined in its place, and its receipt is taken for the
\* receipt of the one that is lost.
Undisturbed == mishaps # {"overlapped", "forgotten"}

\* The records of an update reach the chain in the order they are written, so
\* that whoever sees the last one finds the others as well, also when the update
\* fails half way and its last transaction is mined later (index.mjs:242-255).
PrefixRecorded ==
    Undisturbed =>
        \A u \in 1 .. Updates : \A i \in DOMAIN Writes(u) :
            Effective(<<u, i, "text">>) =>
                \A k \in 1 .. i : Effective(<<u, k, "text">>)

\* recordTrade says ok only if every record was written (index.mjs:257), by a
\* transaction of its own.
OkMeansRecorded ==
    Undisturbed =>
        \A u \in 1 .. Updates :
            at[u] = "ok" =>
                \A i \in DOMAIN Writes(u) : Effective(<<u, i, "text">>)

\* An update that has the wallet for itself fails only if something went wrong:
\* a subname that does not exist is there when it is written, and no nonce is
\* used twice (index.mjs:219-226).
FailsOnlyAfterTrouble ==
    \A u \in 1 .. Updates :
        at[u] = "failed" =>
            \/ faults > 0
            \/ "overlapped" \in mishaps
            \/ \E v \in 1 .. Updates : at[v] = "unseen"

Records ==
    ({Parent} \X {ParentKeys[i] : i \in DOMAIN ParentKeys})
        \cup (Labels \X {AgentKeys[i] : i \in DOMAIN AgentKeys})

\* As long as updates do not overlap, no record goes back to an earlier trade,
\* even if the transaction of an update that gave up is mined late; provided
\* the node forgets none, for the nonce of one it forgot goes to an update that
\* comes later, before those that were broadcast in between.
RecordsNeverGoBack ==
    [][mined' # mined /\ mishaps' = {} =>
           \A r \in Records : Shows(r)' >= Shows(r)]_vars

\* An update that was begun ends, well or badly, whatever the chain does.
UpdatesEnd ==
    FairEns => \A u \in 1 .. Updates : Running(u) ~> Ended(u)
=============================================================================
