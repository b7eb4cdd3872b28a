----------------------------- MODULE CurveSwap -----------------------------
(***************************************************************************)
(* The life of one launchpad quote: priced off-chain from a snapshot,      *)
(* built with minima that must hold on-chain, and executed later, after    *)
(* other traders may have moved the pools.                                 *)
(*                                                                         *)
(* quotePumpLaunchpad, quotePumpSwap and the build functions compute the   *)
(* same amounts twice, once for the response and once for the transaction; *)
(* Quote does both.  Pools are SOL-quoted.  The chain (what a pool pays,   *)
(* that a trade below its minimum is rejected) is external.                *)
(***************************************************************************)
EXTENDS PumpCurve, FiniteSets

CONSTANTS
  FeeBps,       \* service_fee.bps
  SlippageBps,  \* slippage_bps of the request
  Repay,        \* quoteSponsoredRepayDeduction for the route
  Dues,         \* what the transaction may really have to repay
  Amounts,      \* exact-in amounts of requests and of other traders
  Word,         \* values of the word scaleBridgeOut multiplies in: 2^64
  MaxTrades,    \* bound: trades of others between quote and execution
  StartCurve,   \* both bonding curves at the start
  StartBridge   \* the SOL side and the stable side of the bridge pool

ASSUME SwapAssumption ==
  /\ FeeBps \in 0..Bps /\ SlippageBps \in 0..Bps
  /\ Repay \in Nat /\ Dues \subseteq 0..Repay
  /\ Amounts \subseteq Nat \ {0} /\ Word \in Nat \ {0} /\ MaxTrades \in Nat
  /\ StartCurve \in [vTok : Nat, vQuote : Nat \ {0}, real : Nat]
  /\ StartBridge \in [sol : Nat \ {0}, usd : Nat]

Tokens == {"A", "B"}

(* buy SOL -> A;  sell A -> SOL;  swap A -> SOL -> B;  bridge A -> SOL -> USDC *)
PricedRoutes == {"buy", "sell", "swap", "bridge"}

VARIABLES
  curve,   \* bonding curve of each token, on-chain
  pool,    \* reserves of the bridge pool, on-chain
  quote,   \* the answered quote and the minima of its transactions
  trades,  \* trades of others so far
  fate     \* what became of the signed transaction

vars == <<curve, pool, quote, trades, fate>>

Unquoted == [route |-> "none"]
Unsent == [status |-> "unsent"]

-----------------------------------------------------------------------------
(* Sizing. *)

NetOfFee(gross) == gross - ApplyBPS(gross, FeeBps)

(* The lamports the second hop is sized for: the worst allowed sale, less fee. *)
SecondHop(amount) == NetOfFee(MinOut(SellQuoteOut(curve["A"], amount), SlippageBps))

(* Mutant of SponsoredIn: the second hop is sized as if nothing were repaid. *)
SponsoredInGross(gross, offered) == gross

(* The repay is deducted, for every variant's quote, once a sponsor is offered. *)
SponsoredIn(gross, offered) == IF offered THEN gross - Repay ELSE gross

BridgeOut(p, in) == (in * p.usd) \div (p.sol + in)

(* Mutant of BridgeMin: slippage is taken again from a given minimum. *)
BridgeMinSlippedTwice(quotedOut, override) ==
  MinOut(IF override > 0 THEN override ELSE quotedOut, SlippageBps)

(* minAmountOutForBridge: a minimum of 0 means "none given". *)
BridgeMin(quotedOut, override) ==
  IF override > 0 THEN override ELSE MinOut(quotedOut, SlippageBps)

ScaledMin(amount) ==
  MinOut(ScaleBridgeOut(BridgeOut(pool, SecondHop(amount)), SecondHop(amount),
                        SponsoredIn(SecondHop(amount), TRUE), Word),
         SlippageBps)

(* What that scaling stands for. *)
ExactScaledMin(amount) ==
  MinOut(ScaledExactly(BridgeOut(pool, SecondHop(amount)), SecondHop(amount),
                       SponsoredIn(SecondHop(amount), TRUE)),
         SlippageBps)

(***************************************************************************)
(* The minimum each variant's transaction writes into its last pool        *)
(* instruction.                                                            *)
(***************************************************************************)
Minima(route, amount, offered) ==
  CASE route = "buy" ->
         LET m == MinOut(BuyBaseOut(curve["A"], NetOfFee(amount)), SlippageBps)
         IN  [self |-> m, sponsored |-> m]
    [] route = "sell" ->
         LET m == MinOut(SellQuoteOut(curve["A"], amount), SlippageBps)
         IN  [self |-> m, sponsored |-> m]
    [] route = "swap" ->
         LET hop == SecondHop(amount)
         IN  [self      |-> MinOut(BuyBaseOut(curve["B"], hop), SlippageBps),
              sponsored |-> MinOut(BuyBaseOut(curve["B"], SponsoredIn(hop, offered)), SlippageBps)]
    [] OTHER ->
         LET out == BridgeOut(pool, SecondHop(amount))
         IN  [self      |-> BridgeMin(out, 0),
              sponsored |-> BridgeMin(out, IF offered THEN ScaledMin(amount) ELSE 0)]

(***************************************************************************)
(* The minOutputAmount of the response.  With a sponsor it is the          *)
(* sponsored variant's on two hops; on a one-hop sale the repay is never   *)
(* deducted from it.                                                       *)
(***************************************************************************)
PromisedMin(route, amount, offered) ==
  LET minima == Minima(route, amount, offered)
  IN  CASE route = "sell"               -> NetOfFee(minima.self)
        [] route = "bridge" /\ offered  -> ScaledMin(amount)
        [] OTHER                        -> minima.sponsored

(* Requests that are not refused with "input too small", "graduated", ... *)
Quotable(route, amount, offered) ==
  /\ curve["A"].real > 0
  /\ route = "swap" => curve["B"].real > 0
  /\ route = "buy" => ApplyBPS(amount, FeeBps) < amount
  /\ route # "buy" => SecondHop(amount) > 0
  /\ offered /\ route \in {"swap", "bridge"} => CanSubtractRepay(SecondHop(amount), Repay)

Quote(route, amount, offered) ==
  /\ quote = Unquoted
  /\ offered => route # "buy"
  /\ Quotable(route, amount, offered)
  /\ quote' = [route |-> route, in |-> amount, offered |-> offered,
               sellMin |-> MinOut(SellQuoteOut(curve["A"], amount), SlippageBps),
               minima |-> Minima(route, amount, offered),
               promised |-> PromisedMin(route, amount, offered),
               at |-> [curve |-> curve, pool |-> pool],
               exactMin |->
                 IF route = "bridge" /\ offered THEN ExactScaledMin(amount) ELSE 0]
  /\ UNCHANGED <<curve, pool, trades, fate>>

-----------------------------------------------------------------------------
(* The chain. *)

OthersMayTrade ==
  /\ quote # Unquoted /\ fate = Unsent /\ trades < MaxTrades
  /\ trades' = trades + 1
  /\ UNCHANGED <<quote, fate>>

OtherBuys(t, amount) ==
  /\ OthersMayTrade
  /\ curve[t].real > 0
  /\ curve' = [curve EXCEPT ![t] = AfterBuy(@, amount)]
  /\ UNCHANGED pool

OtherSells(t, amount) ==
  /\ OthersMayTrade
  /\ RawQuoteOut(curve[t], amount) < curve[t].vQuote
  /\ curve' = [curve EXCEPT ![t] = AfterSell(@, amount)]
  /\ UNCHANGED pool

OtherBridges(amount) ==
  /\ OthersMayTrade
  /\ pool' = [sol |-> pool.sol + amount, usd |-> pool.usd - BridgeOut(pool, amount)]
  /\ UNCHANGED curve

(* Lamports of the sale left for the second hop on-chain, fee and repay gone. *)
Proceeds(due) == NetOfFee(SellQuoteOut(curve["A"], quote.in)) - due

(* What the last pool instruction pays. *)
LastHop(due) ==
  CASE quote.route = "buy"  -> BuyBaseOut(curve["A"], NetOfFee(quote.in))
    [] quote.route = "sell" -> SellQuoteOut(curve["A"], quote.in)
    [] quote.route = "swap" -> BuyBaseOut(curve["B"], Proceeds(due))
    [] OTHER                -> BridgeOut(pool, Proceeds(due))

FirstHopPasses == quote.route = "buy" \/ SellQuoteOut(curve["A"], quote.in) >= quote.sellMin

RepayPasses(due) == quote.route = "buy" \/ Proceeds(due) >= 0

Received(due) == IF quote.route = "sell" THEN Proceeds(due) ELSE LastHop(due)

Execute(variant, due) ==
  /\ quote # Unquoted /\ fate = Unsent
  /\ variant = "sponsored" => quote.offered
  /\ variant = "self" => due = 0
  /\ fate' = [status |-> IF ~FirstHopPasses THEN "hop1"
                         ELSE IF ~RepayPasses(due) THEN "repay"
                         ELSE IF LastHop(due) < quote.minima[variant] THEN "hop2"
                         ELSE "done",
              variant |-> variant, due |-> due,
              got |-> IF FirstHopPasses /\ RepayPasses(due) THEN Received(due) ELSE 0]
  /\ UNCHANGED <<curve, pool, quote, trades>>

Init ==
  /\ curve = [t \in Tokens |-> StartCurve]
  /\ pool = StartBridge
  /\ quote = Unquoted
  /\ trades = 0
  /\ fate = Unsent

Next ==
  \/ \E r \in PricedRoutes, a \in Amounts, o \in BOOLEAN : Quote(r, a, o)
  \/ \E t \in Tokens, a \in Amounts : OtherBuys(t, a) \/ OtherSells(t, a)
  \/ \E a \in Amounts : OtherBridges(a)
  \/ \E v \in {"self", "sponsored"}, d \in Dues \cup {0} : Execute(v, d)

Spec == Init /\ [][Next]_vars

-----------------------------------------------------------------------------
(* Properties. *)

Executed == fate # Unsent

(* The pool that prices the second hop is where the quote saw it. *)
LastPoolUnmoved ==
  IF quote.route = "swap" THEN curve["B"] = quote.at.curve["B"]
                          ELSE pool = quote.at.pool

(***************************************************************************)
(* The second hop is sized from the worst sale the first hop accepts and   *)
(* from the largest repay, so a transaction whose first hop passed is      *)
(* refused further on only if the pool of its last hop has moved: the two  *)
(* slippages do not add up.  A quote that promises nothing is excepted:    *)
(* its bridge minimum of 0 is replaced by the undeducted one               *)
(* (build_multi_leg.go:476).  One-hop sales are not sized for the repay.   *)
(***************************************************************************)
SecondHopAbsorbsFirst ==
  /\ Executed /\ quote.route \in {"swap", "bridge"}
  /\ quote.promised > 0 /\ LastPoolUnmoved
  => fate.status \in {"done", "hop1"}

(***************************************************************************)
(* Whatever variant of the quote is signed and however the pools moved, a  *)
(* trade that goes through pays at least the minOutputAmount of the        *)
(* response; a sponsored one-hop sale pays it before the repay.            *)
(***************************************************************************)
PromiseKept ==
  Executed /\ fate.status = "done" =>
    fate.got + (IF quote.route = "sell" THEN fate.due ELSE 0) >= quote.promised

(***************************************************************************)
(* Every rounding of the two price functions is in the pool's favour: the  *)
(* tokens BuyBaseOut promises never sell back, by SellQuoteOut on the      *)
(* curve the purchase leaves, for more than was paid, whatever trades      *)
(* brought the curve to where the snapshot reads it.                       *)
(***************************************************************************)
RoundTripNeverGains ==
  \A t \in Tokens, a \in Amounts :
    SellQuoteOut(AfterBuy(curve[t], a), BuyBaseOut(curve[t], a)) <= a

(***************************************************************************)
(* docs/plan.md:54: min_out protects the final leg.  The bridge minimum of *)
(* a sponsored transaction is the scaled quote less slippage               *)
(* (sponsor_quote.go:108).                                                 *)
(***************************************************************************)
BridgeMinProtects ==
  quote # Unquoted /\ quote.route = "bridge" /\ quote.offered =>
    quote.minima.sponsored >= quote.exactMin

(***************************************************************************)
(* The state is well formed: no trade takes more tokens from a curve than  *)
(* it has left (the cap of venue/pumpfun/quote.go:59) nor drives a reserve *)
(* below zero.                                                             *)
(***************************************************************************)
TypeOK ==
  /\ curve \in [Tokens -> [vTok : Nat, vQuote : Nat, real : Nat]]
  /\ pool \in [sol : Nat, usd : Nat]
  /\ trades \in 0..MaxTrades
  /\ fate = Unsent \/ fate.status \in {"done", "hop1", "repay", "hop2"}
=============================================================================
