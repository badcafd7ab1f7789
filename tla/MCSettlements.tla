---------------------------- MODULE MCSettlements ----------------------------
(***************************************************************************)
(* Two trades, the first with Tier 2, and one subname, not yet created;    *)
(* three records in all.                                                   *)
(***************************************************************************)
EXTENDS Settlements

SixWrites == (1 .. 2) \X (1 .. 3) \X {"text", "create"}
ParentRecords == <<"latest_settlement_tx">>
AgentRecords == <<"last_trade_id", "last_active_at">>
FiveMoves == {<<1, 1>>, <<1, 2>>, <<1, 3>>, <<2, 1>>, <<2, 2>>}
=============================================================================
