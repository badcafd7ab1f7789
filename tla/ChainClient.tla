---------------------------- MODULE ChainClient ----------------------------
(***************************************************************************)
(* The buyer's transactions (agents/user/src/chain.mjs) as queryMarket     *)
(* orders them: openTrade, settleTier1 and, if asked for, settleTier2, one *)
(* after the other.  A call counts the account's transactions, signs,      *)
(* broadcasts, and polls for the receipt up to MaxAttempts times.          *)
(***************************************************************************)
EXTENDS Wallet

CONSTANTS Purchases,    \* how many calls of queryMarket get to the chain
          WithTier2,    \* those that ask for Tier 2
          MaxAttempts   \* of _waitForReceipt

ASSUME ClientAssumption ==
    /\ Purchases \in Nat
    /\ WithTier2 \subseteq 1 .. Purchases
    /\ MaxAttempts \in Nat \ {0}

Steps(p) == IF p \in WithTier2 THEN 1 .. 3 ELSE 1 .. 2
Calls == {c \in (1 .. Purchases) \X (1 .. 3) : c[2] \in Steps(c[1])}

ASSUME JobsAreCalls == Jobs = Calls

VARIABLES at,           \* where each call is
          nonce,        \* the nonce it signed with
          attempt       \* the receipt poll it is at

client == <<at, nonce, attempt>>
vars == <<client, node>>

Thrown == {"failed", "refused", "reverted", "unseen"}
Ended == Thrown \cup {"returned"}

TypeOK ==
    /\ NodeTypeOK
    /\ at \in [Jobs -> {"idle", "signed", "sent"} \cup Ended]
    /\ nonce \in [Jobs -> Nat]
    /\ attempt \in [Jobs -> 1 .. MaxAttempts]

Init ==
    /\ NodeInit
    /\ at = [j \in Jobs |-> "idle"]
    /\ nonce = [j \in Jobs |-> 0]
    /\ attempt = [j \in Jobs |-> 1]

Failed(p) == \E j \in Jobs : j[1] = p /\ at[j] \in Thrown
Over(p) == Failed(p) \/ \A j \in Jobs : j[1] = p => at[j] = "returned"

\* Slip: the settles are dispatched back to back (settleTier1Dispatch, waitTx).
Dispatched(j, k) == at[k] \in {"sent", "returned"}
\* queryMarket awaits each call: its transaction is mined before the next.
Awaited(j, k) == at[k] = "returned"

Ready(j) ==
    /\ at[j] = "idle"
    /\ \A k \in Jobs : k[1] = j[1] /\ k[2] < j[2] => Awaited(j, k)
    /\ \A p \in 1 .. (j[1] - 1) : Over(p)

Ends(j, how) == at' = [at EXCEPT ![j] = how] /\ UNCHANGED <<nonce, attempt>>

\* writeContract counts the account's transactions and signs.
Sign(j) ==
    /\ Ready(j)
    /\ \E n \in Counts : nonce' = [nonce EXCEPT ![j] = n]
    /\ at' = [at EXCEPT ![j] = "signed"]
    /\ UNCHANGED <<attempt, node>>

\* The node foresees a revert when asked for the gas, or nobody answers.
SignFails(j) ==
    /\ Ready(j)
    /\ Ends(j, "failed")
    /\ UNCHANGED node

Broadcast(j) ==
    /\ at[j] = "signed"
    /\ Enters(j, nonce[j])
    /\ Ends(j, "sent")
    /\ UNCHANGED <<mined, faults>>

\* "already known", or the nonce is too low: writeContract throws.
BroadcastRefused(j) ==
    /\ at[j] = "signed"
    /\ Taken(nonce[j])
    /\ Ends(j, "refused")
    /\ UNCHANGED node

\* Slip: the retry is a new transaction, with a nonce of its own.
SignedAnew(j) ==
    /\ \E n \in {Len(mined)} \cup {m + 1 : m \in PoolNonces} :
           nonce' = [nonce EXCEPT ![j] = n]
    /\ UNCHANGED <<at, attempt>>
\* The transport sends the same bytes once more, or gives up.
AfterLoss(j) ==
    \/ UNCHANGED client
    \/ Ends(j, "failed")

\* The answer to a broadcast is lost, with the broadcast or without it.
BroadcastLost(j) ==
    /\ at[j] = "signed"
    /\ Fault
    /\ Enters(j, nonce[j]) \/ UNCHANGED pool
    /\ AfterLoss(j)
    /\ UNCHANGED mined

\* Slip: a receipt is taken for success.
StatusIgnored(ok) == TRUE
StatusOf(ok) == ok

ReceiptFound(j) ==
    /\ at[j] = "sent"
    /\ Mined(j, nonce[j])
    /\ Ends(j, IF StatusOf(mined[nonce[j] + 1].ok) THEN "returned"
                                                   ELSE "reverted")
    /\ UNCHANGED node

\* Slip: the loop has no limit.
PollForEver(j) ==
    /\ UNCHANGED <<nonce, attempt>>
    /\ at' = [at EXCEPT ![j] = "sent"]
\* Slip: one attempt too many.
OneAttemptMore(j) ==
    IF attempt[j] <= MaxAttempts
    THEN attempt' = [attempt EXCEPT ![j] = @ + 1] /\ UNCHANGED <<at, nonce>>
    ELSE Ends(j, "unseen")
\* A poll that found nothing in its three minutes is repeated, but not for ever.
NextAttempt(j) ==
    IF attempt[j] < MaxAttempts
    THEN attempt' = [attempt EXCEPT ![j] = @ + 1] /\ UNCHANGED <<at, nonce>>
    ELSE Ends(j, "unseen")

PollTimesOut(j) ==
    /\ at[j] = "sent"
    /\ NextAttempt(j)
    /\ UNCHANGED node

\* Any other error is terminal.
PollFails(j) ==
    /\ at[j] = "sent"
    /\ Fault
    /\ Ends(j, "unseen")
    /\ UNCHANGED <<pool, mined>>

\* The contract: a settle needs an open trade, and may still be refused.
MineCall(j) ==
    /\ \E ok \in BOOLEAN :
           /\ ok /\ j[2] > 1 => Effective(<<j[1], 1>>)
           /\ Mine(j, ok)
    /\ UNCHANGED <<client, faults>>

EvictCall == Evict /\ UNCHANGED client

ClientStep(j) ==
    \/ Sign(j) \/ SignFails(j)
    \/ Broadcast(j) \/ BroadcastRefused(j) \/ BroadcastLost(j)
    \/ ReceiptFound(j) \/ PollTimesOut(j) \/ PollFails(j)

Next == (\E j \in Jobs : ClientStep(j) \/ MineCall(j)) \/ EvictCall

Spec == Init /\ [][Next]_vars

\* Requests and polls end because each has a timeout.  No block is promised, and
\* nobody has to start a purchase.
FairSpec ==
    /\ Spec
    /\ \A j \in Jobs : WF_vars(j[2] > 1 /\ (Sign(j) \/ SignFails(j)))
    /\ \A j \in Jobs : WF_vars(Broadcast(j) \/ BroadcastRefused(j))
    /\ \A j \in Jobs : WF_vars(ReceiptFound(j) \/ PollTimesOut(j))

-----------------------------------------------------------------------------
\* A call that returns has had its effect (chain.mjs:221-224: a receipt with
\* another status than success throws), whatever was lost on the way.
ReturnMeansMined == \A j \in Jobs : at[j] = "returned" => Effective(j)

\* However often a broadcast or a poll is repeated, each call takes effect at
\* most once (chain.mjs:204-206: re-polling is safe, retrying a broadcast is not).
AtMostOnce ==
    \A i, k \in DOMAIN mined :
        mined[i].ok /\ mined[k].ok /\ mined[i].job = mined[k].job => i = k

\* The calls never collide with each other: a nonce is refused only after a
\* request failed or a call gave up on a transaction that is still pending
\* (runtime.mjs:267-273, the reason for which the settles are serialized).
RefusedOnlyAfterTrouble ==
    \A j \in Jobs :
        at[j] = "refused" =>
            faults > 0 \/ \E k \in Jobs : at[k] = "unseen"

\* What the calls of a purchase are to its caller: see PurchaseLog.
Log == INSTANCE PurchaseLog WITH
           Moves <- Jobs,
           happened <- {j \in Jobs : Effective(j)},
           confirmed <- {j \in Jobs : at[j] = "returned"},
           failed <- {p \in 1 .. Purchases : Failed(p)}

\* Effects come in order, at most one ahead of what the caller knows, also
\* after the caller was told that the purchase failed.
ImplementsLog == Log!Spec

\* A purchase that was begun returns or throws, although no transaction need ever
\* be mined (chain.mjs:208-239 bounds the polls).
PurchasesEnd ==
    \A p \in 1 .. Purchases : at[<<p, 1>>] # "idle" ~> Over(p)
=============================================================================
