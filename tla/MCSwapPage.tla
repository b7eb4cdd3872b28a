----------------------------- MODULE MCSwapPage -----------------------------
(* Both conversions between SOL and WSOL, each the other's reverse, and a   *)
(* trade that is not told apart from its reverse.                           *)
EXTENDS SwapPage

MCForms == {"trade", "unwrap", "wrap"}
MCFlipped == [trade |-> "trade", unwrap |-> "wrap", wrap |-> "unwrap"]
=============================================================================
