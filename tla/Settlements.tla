---------------------------- MODULE Settlements ----------------------------
(***************************************************************************)
(* queryMarket's last steps over both chains (agents/user/src/runtime.mjs, *)
(* lines 246-333): the trade is opened and settled on Galileo, of which    *)
(* module PurchaseLog says what the caller may see, the receipt is saved,  *)
(* the update of the records on Sepolia is started, and the call returns   *)
(* without waiting for it.                                                 *)
(***************************************************************************)
EXTENDS EnsUpdater

CONSTANT Moves          \* the transactions of the purchases on Galileo

ASSUME MovesAssumption ==
    /\ Moves \subseteq (1 .. Updates) \X (1 .. 3)
    /\ \A p \in 1 .. Updates : <<p, 1>> \in Moves

VARIABLES happened, confirmed, failed,
          back          \* the calls that have returned

Galileo == INSTANCE PurchaseLog

galileo == <<happened, confirmed, failed, back>>
allVars == <<galileo, vars>>

Init ==
    /\ Galileo!Init
    /\ back = {}
    /\ InitEns

Finished(p) == p \in failed \cup back

\* Slip: the update starts when the trade is open.
OnlyOpened(p) == <<p, 1>> \in confirmed
Settled(p) == \A m \in Moves : m[1] = p => m \in confirmed

Purchase(m) ==
    /\ \A p \in 1 .. (m[1] - 1) : Finished(p)
    /\ Galileo!Happen(m) \/ Galileo!Confirm(m) \/ Galileo!GiveUp(m)
    /\ UNCHANGED <<back, vars>>

\* A transaction of a call that failed is mined later.
LateEffect(m) ==
    /\ m[1] \in failed
    /\ Galileo!Happen(m)
    /\ UNCHANGED <<back, vars>>

\* Slip: an update waits for the one before it.
AfterTheLast(p) == \A q \in 1 .. (p - 1) : ~Running(q)
NoWait(p) == TRUE

\* The last settle is confirmed: recordTrade is called and not awaited.
Return(p) ==
    /\ p \notin failed \cup back
    /\ Settled(p)
    /\ NoWait(p)
    /\ Begin(p)
    /\ back' = back \cup {p}
    /\ UNCHANGED <<happened, confirmed, failed>>

\* After Tier 2 a receipt file is written, which may fail: the call throws, and
\* nothing is recorded.
ReceiptNotSaved(p) ==
    /\ <<p, 3>> \in Moves
    /\ p \notin failed \cup back
    /\ Settled(p)
    /\ failed' = failed \cup {p}
    /\ UNCHANGED <<happened, confirmed, back, vars>>

Next ==
    \/ \E m \in Moves : Purchase(m) \/ LateEffect(m)
    \/ \E p \in 1 .. Updates : Return(p) \/ ReceiptNotSaved(p)
    \/ NextEns /\ UNCHANGED galileo

Spec == Init /\ [][Next]_allVars

\* What queryMarket has to do, it does; nothing is said of Sepolia.
FairSpec == Spec /\ \A p \in 1 .. Updates : WF_allVars(Return(p))

-----------------------------------------------------------------------------
\* The records name settled trades only: a record shows a trade after all its
\* settles have happened on Galileo (runtime.mjs:303-306, index.mjs:232-235).
RecordsOnlySettled ==
    \A r \in Records :
        Shows(r) # 0 => \A m \in Moves : m[1] = Shows(r) => m \in happened

\* A settled call returns or throws although every update may be stuck
\* (index.mjs:11: "Failures here never block a Galileo settlement").
EnsNeverBlocks ==
    \A p \in 1 .. Updates : Settled(p) ~> Finished(p)
=============================================================================
