----------------------------- MODULE PumpCurve -----------------------------
(***************************************************************************)
(* The prices the orchestrator computes off-chain from a snapshot of a     *)
(* Pump.fun bonding curve.  A curve is a record [vTok, vQuote, real]: the  *)
(* virtual token and quote reserves and the tokens really left to sell.    *)
(* The arithmetic is big.Int in the code and unbounded here.               *)
(***************************************************************************)
EXTENDS SponsorMath

CONSTANTS
  ProtocolBps,  \* Global.FeeBasisPoints
  CreatorBps    \* Global.CreatorFeeBasisPoints, 0 for a curve without creator

ASSUME CurveFeeAssumption == ProtocolBps \in 0..Bps /\ CreatorBps \in 0..Bps

CeilDiv(a, b) == (a + b - 1) \div b

FeeAmount(amount, bps) == CeilDiv(amount * bps, Bps)

(* What is left of a buyer's quote after the curve's own fees. *)
CurveInput(quoteIn) == (quoteIn * Bps) \div (Bps + ProtocolBps + CreatorBps)

(* Mutant of RawBaseOut: priced on the reserves before the purchase. *)
RawBaseOutSpot(curve, quoteIn) ==
  (CurveInput(quoteIn) * curve.vTok) \div curve.vQuote

(* Tokens out of the pool, before the cap of what is left to sell. *)
RawBaseOut(curve, quoteIn) ==
  LET in == CurveInput(quoteIn)
  IN  (in * curve.vTok) \div (curve.vQuote + in)

(* Mutant of BuyBaseOut: the cap by the real reserves is forgotten. *)
BuyBaseOutUncapped(curve, quoteIn) ==
  IF quoteIn = 0 \/ curve.vTok = 0 THEN 0 ELSE RawBaseOut(curve, quoteIn)

BuyBaseOut(curve, quoteIn) ==
  IF quoteIn = 0 \/ curve.vTok = 0
  THEN 0
  ELSE LET tokens == RawBaseOut(curve, quoteIn)
       IN  IF tokens > curve.real THEN curve.real ELSE tokens

(* Quote out of the pool, before the fees are taken from it. *)
RawQuoteOut(curve, baseIn) == (baseIn * curve.vQuote) \div (curve.vTok + baseIn)

SellQuoteOut(curve, baseIn) ==
  IF baseIn = 0 \/ curve.vTok = 0
  THEN 0
  ELSE LET out == RawQuoteOut(curve, baseIn)
           net == out - FeeAmount(out, ProtocolBps) - FeeAmount(out, CreatorBps)
       IN  IF net <= 0 THEN 0 ELSE net

(***************************************************************************)
(* The pool program's effect of a trade on the reserves (external).        *)
(***************************************************************************)
AfterBuy(curve, quoteIn) ==
  LET out == BuyBaseOut(curve, quoteIn)
  IN  [vTok   |-> curve.vTok - out,
       vQuote |-> curve.vQuote + CurveInput(quoteIn),
       real   |-> curve.real - out]

AfterSell(curve, baseIn) ==
  [vTok   |-> curve.vTok + baseIn,
   vQuote |-> curve.vQuote - RawQuoteOut(curve, baseIn),
   real   |-> curve.real + baseIn]
=============================================================================
