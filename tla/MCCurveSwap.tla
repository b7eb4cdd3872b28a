---------------------------- MODULE MCCurveSwap ----------------------------
(* Two small curves, one near its end, and a bridge pool, for CurveSwap. *)
EXTENDS CurveSwap

MCCurve == [vTok |-> 90, vQuote |-> 60, real |-> 25]
MCBridge == [sol |-> 80, usd |-> 120]
=============================================================================
