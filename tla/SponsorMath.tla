---------------------------- MODULE SponsorMath ----------------------------
(***************************************************************************)
(* The integer arithmetic with which the orchestrator sizes a sponsored    *)
(* transaction off-chain: basis points, slippage minima, the repay         *)
(* estimate, and the scaling of a bridge quote to a smaller input.         *)
(*                                                                         *)
(* util/amount.go computes in big.Int, so MinOut and ApplyBPS never wrap;  *)
(* sponsor_quote.go scales in uint64, so ScaleBridgeOut wraps: word is the *)
(* number of values of the type, 2^64.                                     *)
(***************************************************************************)
EXTENDS Integers

Bps == 10000

ApplyBPS(amount, bps) == (amount * bps) \div Bps

MinOut(expected, slippage) ==
  IF slippage <= 0 THEN expected ELSE (expected * (Bps - slippage)) \div Bps

(***************************************************************************)
(* A fee schedule is a record [sig, cuLimit, cuPrice, rent, buffer]: the   *)
(* per-signature fee, the compute-unit limit and its price in              *)
(* micro-lamports, the rent constant and the buffer in percent.            *)
(***************************************************************************)
MicroPerLamport == 1000000

PriorityFee(sched) == (sched.cuLimit * sched.cuPrice) \div MicroPerLamport

Subtotal(sched, sigs, atas, tip) ==
  sigs * sched.sig + PriorityFee(sched) + atas * sched.rent + tip

EstimateRepayLamports(sched, sigs, atas, tip) ==
  LET s == Subtotal(sched, sigs, atas, tip)
  IN  s + (s * sched.buffer) \div 100

(***************************************************************************)
(* What the runtime charges the fee payer: the priority fee is rounded up  *)
(* there and down in the estimate.                                         *)
(***************************************************************************)
NetworkFee(sched, sigs) ==
  sigs * sched.sig
    + (sched.cuLimit * sched.cuPrice + MicroPerLamport - 1) \div MicroPerLamport

(* subtractRepayFromPumpIn fails unless something is left after the repay. *)
CanSubtractRepay(gross, repay) == repay = 0 \/ repay < gross

ScaleBridgeOut(quotedOut, grossIn, netIn, word) ==
  IF grossIn = 0 \/ netIn = 0
  THEN 0
  ELSE ((quotedOut * netIn) % word) \div grossIn

(* The exact value scaleBridgeOut stands for. *)
ScaledExactly(quotedOut, grossIn, netIn) ==
  IF grossIn = 0 \/ netIn = 0 THEN 0 ELSE (quotedOut * netIn) \div grossIn
=============================================================================
