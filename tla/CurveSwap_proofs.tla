-------------------------- MODULE CurveSwap_proofs --------------------------
(***************************************************************************)
(* The prices of one quote, for every amount, every reserve of the pools,  *)
(* every fee, slippage and repay: what the response promises is paid, the  *)
(* second hop absorbs the first, no rounding gives anything away.          *)
(*                                                                         *)
(* The inductive invariant says what a quote is sized for, in terms of the *)
(* pools where it saw them: whatever the last hop is fed, from the least a *)
(* first hop may leave upwards, it pays the minimum written into it.       *)
(***************************************************************************)
EXTENDS CurveSwap, SponsorMath_proofs

Curves == [vTok : Nat, vQuote : Nat \ {0}, real : Nat]
BridgePools == [sol : Nat \ {0}, usd : Nat]

Reserves == curve \in [Tokens -> Curves] /\ pool \in BridgePools

(* The lamports the second hop was sized for, and the least a variant leaves it. *)
Hop == NetOfFee(quote.sellMin)
Least(variant) == IF variant = "sponsored" THEN Hop - Repay ELSE Hop

(* What the last hop would pay at the pools the quote saw. *)
LastOut(in) ==
  IF quote.route = "swap" THEN BuyBaseOut(quote.at.curve["B"], in) ELSE BridgeOut(quote.at.pool, in)

Built == IF quote.offered THEN {"self", "sponsored"} ELSE {"self"}

Absorbed ==
  \A variant \in Built, in \in Nat :
    in >= Least(variant) => LastOut(in) >= quote.minima[variant]

Sized ==
  quote # Unquoted =>
    /\ quote.route \in PricedRoutes /\ quote.in \in Amounts /\ quote.offered \in BOOLEAN
    /\ quote.route = "buy" => ~quote.offered
    /\ quote.sellMin \in Nat /\ quote.promised \in Nat
    /\ \A variant \in {"self", "sponsored"} : quote.minima[variant] \in Nat
    /\ IF quote.route = "sell" THEN quote.promised = Hop
       ELSE \A variant \in Built : quote.minima[variant] >= quote.promised
    /\ quote.route \in {"swap", "bridge"} =>
         /\ quote.offered => CanSubtractRepay(Hop, Repay)
         /\ quote.promised > 0 => Absorbed

IInv ==
  /\ TypeOK /\ Reserves
  /\ quote = Unquoted => fate = Unsent
  /\ Sized /\ PromiseKept /\ SecondHopAbsorbsFirst

-----------------------------------------------------------------------------
(* Division.                                                               *)

LEMMA Division ==
  ASSUME NEW a \in Nat, NEW d \in Nat \ {0}
  PROVE  a \div d \in Nat /\ (a \div d) * d <= a
OBVIOUS

LEMMA DivisionLeast ==
  ASSUME NEW a \in Nat, NEW d \in Nat \ {0}, NEW q \in Nat, q * d <= a
  PROVE  q <= a \div d
OBVIOUS

LEMMA DivisionMost ==
  ASSUME NEW a \in Nat, NEW d \in Nat \ {0}, NEW q \in Nat, a <= q * d
  PROVE  a \div d <= q
OBVIOUS

LEMMA DivisionMonotone ==
  ASSUME NEW a \in Nat, NEW b \in Nat, a <= b, NEW d \in Nat \ {0}
  PROVE  a \div d <= b \div d
OBVIOUS

LEMMA Remainder ==
  ASSUME NEW a \in Nat, NEW d \in Nat \ {0}
  PROVE  a % d \in Nat /\ a % d <= a
OBVIOUS

LEMMA Cancel ==
  ASSUME NEW a \in Nat, NEW b \in Nat, NEW c \in Nat \ {0}, a * c <= b * c
  PROVE  a <= b
OBVIOUS

(* A pool of V against Q pays x * V / (Q + x): less than V, and more for more. *)
LEMMA PoolPays ==
  ASSUME NEW V \in Nat, NEW Q \in Nat, NEW x \in Nat, Q + x > 0
  PROVE  (x * V) \div (Q + x) \in 0..V
<1>1. Q + x \in Nat \ {0} /\ x * V \in Nat BY ProductNat
<1>2. V * (Q + x) = V * Q + x * V /\ V * Q \in Nat BY ProductNat
<1>3. x * V <= V * (Q + x) BY <1>1, <1>2
<1> QED BY <1>1, <1>3, Division, DivisionMost

LEMMA PoolMonotone ==
  ASSUME NEW V \in Nat, NEW Q \in Nat \ {0}, NEW x \in Nat, NEW y \in Nat, x <= y
  PROVE  (x * V) \div (Q + x) <= (y * V) \div (Q + y)
<1> DEFINE q == (x * V) \div (Q + x)
<1>1. Q + x \in Nat \ {0} /\ Q + y \in Nat \ {0} /\ x * V \in Nat /\ y * V \in Nat BY ProductNat
<1>2. q \in Nat /\ q <= V BY PoolPays
<1>3. q * (Q + x) <= x * V BY <1>1, Division
<1> HIDE DEF q
<1>4. q * (Q + y) = q * (Q + x) + q * (y - x) /\ y * V = x * V + V * (y - x) BY <1>2
<1>5. q * (y - x) <= V * (y - x)
  <2>1. (y - x) * q <= (y - x) * V BY <1>2, ProductMonotone
  <2> QED BY <1>2, <2>1
<1>6. q * (Q + y) <= y * V
  <2>1. /\ q * (Q + x) \in Nat /\ q * (y - x) \in Nat /\ V * (y - x) \in Nat
    BY <1>1, <1>2, ProductNat
  <2> DEFINE a == q * (Q + x)
             b == q * (y - x)
             c == V * (y - x)
             d == x * V
  <2> HIDE DEF a, b, c, d
  <2>2. a + b <= d + c BY <1>1, <1>3, <1>5, <2>1 DEF a, b, c, d
  <2> QED BY <1>4, <2>2 DEF a, b, c, d
<1>7. q <= (y * V) \div (Q + y) BY <1>1, <1>2, <1>6, DivisionLeast
<1> QED BY <1>7 DEF q

(* Scaling a pool's answer to a part of the input promises no more than the *)
(* pool would answer to that part: the price only falls with the input.     *)
LEMMA ScaledUnderPool ==
  ASSUME NEW U \in Nat, NEW S \in Nat \ {0}, NEW h \in Nat \ {0}, NEW n \in Nat, n <= h
  PROVE  ((((h * U) \div (S + h)) * n) \div h) <= (n * U) \div (S + n)
<1> DEFINE o == (h * U) \div (S + h)
           s == (o * n) \div h
<1>1. S + h \in Nat \ {0} /\ S + n \in Nat \ {0} /\ h * U \in Nat /\ n * U \in Nat BY ProductNat
<1>2. o \in Nat /\ o * (S + h) <= h * U BY <1>1, Division
<1>3. s \in Nat /\ s * h <= o * n
  <2> HIDE DEF o
  <2>1. o * n \in Nat BY <1>2, ProductNat
  <2> QED BY <2>1, Division
<1> HIDE DEF o, s
<1>4. (s * (S + n)) * h <= (n * U) * h
  <2>1. (s * h) * (S + n) <= (o * n) * (S + n)
    <3>1. s * h \in Nat /\ o * n \in Nat BY <1>2, <1>3, ProductNat
    <3>2. (S + n) * (s * h) <= (S + n) * (o * n) BY <1>1, <1>3, <3>1, ProductMonotone
    <3> QED BY <1>1, <3>1, <3>2
  <2>2. (o * n) * (S + n) <= (o * n) * (S + h)
    <3>1. o * n \in Nat /\ S + n <= S + h BY <1>2, ProductNat
    <3> QED BY <1>1, <3>1, ProductMonotone
  <2>3. (o * (S + h)) * n <= (h * U) * n
    <3>1. o * (S + h) \in Nat BY <1>1, <1>2, ProductNat
    <3>2. n * (o * (S + h)) <= n * (h * U) BY <1>1, <1>2, <3>1, ProductMonotone
    <3> QED BY <1>1, <3>1, <3>2
  <2>4. /\ (s * (S + n)) * h = (s * h) * (S + n)
        /\ (o * n) * (S + h) = (o * (S + h)) * n
        /\ (h * U) * n = (n * U) * h
    BY <1>2, <1>3
  <2>5. /\ (s * h) * (S + n) \in Nat /\ (o * n) * (S + n) \in Nat
        /\ (o * n) * (S + h) \in Nat /\ (h * U) * n \in Nat
    BY <1>1, <1>2, <1>3, ProductNat
  <2> DEFINE a == (s * h) * (S + n)
             b == (o * n) * (S + n)
             c == (o * n) * (S + h)
             d == (h * U) * n
  <2> HIDE DEF a, b, c, d
  <2>6. a <= b /\ b <= c /\ c <= d BY <2>1, <2>2, <2>3, <2>4 DEF a, b, c, d
  <2>7. a <= d BY <2>5, <2>6 DEF a, b, c, d
  <2> QED BY <2>4, <2>7 DEF a, d
<1>5. s * (S + n) \in Nat BY <1>1, <1>3, ProductNat
<1>6. s * (S + n) <= n * U BY <1>1, <1>4, <1>5, Cancel
<1>7. s <= (n * U) \div (S + n) BY <1>1, <1>3, <1>6, DivisionLeast
<1> QED BY <1>7 DEF o, s

-----------------------------------------------------------------------------
(* Sizing and prices.                                                      *)

LEMMA MinOutMonotone ==
  ASSUME NEW a \in Nat, NEW b \in Nat, a <= b, NEW slippage \in 0..Bps
  PROVE  MinOut(a, slippage) <= MinOut(b, slippage)
<1>1. CASE slippage = 0 BY <1>1 DEF MinOut
<1>2. CASE slippage # 0
  <2>1. Bps - slippage \in Nat BY DEF Bps
  <2> DEFINE k == Bps - slippage
             p == a * k
             q == b * k
  <2>2. k \in Nat BY <2>1
  <2> HIDE DEF k
  <2>3. p \in Nat /\ q \in Nat BY <2>2, ProductNat
  <2>4. p <= q
    <3>1. k * a <= k * b BY <2>2, ProductMonotone
    <3> QED BY <2>2, <3>1
  <2> HIDE DEF p, q
  <2>5. p \div 10000 <= q \div 10000 BY <2>3, <2>4
  <2>6. MinOut(a, slippage) = p \div 10000 /\ MinOut(b, slippage) = q \div 10000
    BY <1>2 DEF MinOut, Bps, p, q, k
  <2> QED BY <2>5, <2>6
<1> QED BY <1>1, <1>2

(* What is left after the service fee. *)
LEMMA NetBounds ==
  ASSUME NEW gross \in Nat
  PROVE  NetOfFee(gross) \in 0..gross
BY ApplyBPSBounds, SwapAssumption DEF NetOfFee

LEMMA FeeNat ==
  ASSUME NEW amount \in Nat, NEW bps \in 0..Bps
  PROVE  FeeAmount(amount, bps) \in Nat
<1> DEFINE p == amount * bps
<1>1. p \in Nat BY ProductNat DEF Bps
<1> HIDE DEF p
<1>2. (p + 10000 - 1) \div 10000 \in Nat BY <1>1
<1> QED BY <1>2 DEF FeeAmount, CeilDiv, Bps, p

LEMMA InputBounds ==
  ASSUME NEW quoteIn \in Nat
  PROVE  CurveInput(quoteIn) \in 0..quoteIn
<1> DEFINE d == Bps + ProtocolBps + CreatorBps
<1>1. d \in Nat \ {0} /\ Bps <= d /\ Bps \in Nat BY CurveFeeAssumption DEF Bps
<1> HIDE DEF d
<1>2. quoteIn * Bps \in Nat /\ quoteIn * Bps <= quoteIn * d BY <1>1, ProductNat, ProductMonotone
<1>3. (quoteIn * Bps) \div d \in Nat BY <1>1, <1>2, Division
<1>4. (quoteIn * Bps) \div d <= quoteIn BY <1>1, <1>2, DivisionMost
<1> QED BY <1>3, <1>4 DEF CurveInput, d

LEMMA InputMonotone ==
  ASSUME NEW x \in Nat, NEW y \in Nat, x <= y
  PROVE  CurveInput(x) <= CurveInput(y)
<1> DEFINE d == Bps + ProtocolBps + CreatorBps
<1>1. d \in Nat \ {0} /\ Bps \in Nat BY CurveFeeAssumption DEF Bps
<1> HIDE DEF d
<1>2. x * Bps \in Nat /\ y * Bps \in Nat BY <1>1, ProductNat
<1>3. x * Bps <= y * Bps
  <2>1. Bps * x <= Bps * y BY <1>1, ProductMonotone
  <2> QED BY <1>1, <2>1
<1>4. (x * Bps) \div d <= (y * Bps) \div d BY <1>1, <1>2, <1>3, DivisionMonotone
<1> QED BY <1>4 DEF CurveInput, d

LEMMA BuyBounds ==
  ASSUME NEW c \in Curves, NEW x \in Nat
  PROVE  /\ RawBaseOut(c, x) \in 0..c.vTok
         /\ BuyBaseOut(c, x) \in 0..c.vTok /\ BuyBaseOut(c, x) <= c.real
         /\ BuyBaseOut(c, x) <= RawBaseOut(c, x)
<1>1. c.vTok \in Nat /\ c.vQuote \in Nat \ {0} /\ c.real \in Nat BY DEF Curves
<1>2. CurveInput(x) \in Nat BY InputBounds
<1>3. RawBaseOut(c, x) \in 0..c.vTok
  <2>1. c.vQuote + CurveInput(x) > 0 BY <1>1, <1>2
  <2>2. (CurveInput(x) * c.vTok) \div (c.vQuote + CurveInput(x)) \in 0..c.vTok
    BY <1>1, <1>2, <2>1, PoolPays
  <2> QED BY <2>2 DEF RawBaseOut
<1> QED BY <1>1, <1>3 DEF BuyBaseOut

LEMMA BuyMonotone ==
  ASSUME NEW c \in Curves, NEW x \in Nat, NEW y \in Nat, x <= y
  PROVE  BuyBaseOut(c, x) <= BuyBaseOut(c, y)
<1>1. c.vTok \in Nat /\ c.vQuote \in Nat \ {0} /\ c.real \in Nat BY DEF Curves
<1>2. CurveInput(x) \in Nat /\ CurveInput(y) \in Nat /\ CurveInput(x) <= CurveInput(y)
  BY InputBounds, InputMonotone
<1>3. RawBaseOut(c, x) <= RawBaseOut(c, y) BY <1>1, <1>2, PoolMonotone DEF RawBaseOut
<1>4. RawBaseOut(c, x) \in Nat /\ RawBaseOut(c, y) \in Nat BY <1>1, BuyBounds
<1> QED BY <1>1, <1>3, <1>4 DEF BuyBaseOut

LEMMA SellBounds ==
  ASSUME NEW c \in Curves, NEW x \in Nat
  PROVE  /\ SellQuoteOut(c, x) \in Nat
         /\ x > 0 => RawQuoteOut(c, x) \in 0..c.vQuote
         /\ SellQuoteOut(c, x) > 0 => x > 0 /\ c.vTok > 0 /\ SellQuoteOut(c, x) <= RawQuoteOut(c, x)
<1>1. c.vTok \in Nat /\ c.vQuote \in Nat BY DEF Curves
<1>2. ASSUME x > 0 PROVE RawQuoteOut(c, x) \in 0..c.vQuote
  BY <1>1, <1>2, PoolPays DEF RawQuoteOut
<1>3. CASE x = 0 \/ c.vTok = 0 BY <1>2, <1>3 DEF SellQuoteOut
<1>4. CASE ~(x = 0 \/ c.vTok = 0)
  <2> DEFINE out == RawQuoteOut(c, x)
             f == FeeAmount(out, ProtocolBps)
             g == FeeAmount(out, CreatorBps)
  <2>1. out \in Nat BY <1>1, <1>2, <1>4
  <2> HIDE DEF out
  <2>2. f \in Nat /\ g \in Nat BY <2>1, FeeNat, CurveFeeAssumption
  <2>3. SellQuoteOut(c, x) = IF out - f - g <= 0 THEN 0 ELSE out - f - g
    BY <1>4 DEF SellQuoteOut, out
  <2> HIDE DEF f, g
  <2>4. SellQuoteOut(c, x) \in Nat /\ SellQuoteOut(c, x) <= out BY <2>1, <2>2, <2>3
  <2> QED BY <1>1, <1>2, <1>4, <2>4 DEF out
<1> QED BY <1>3, <1>4

LEMMA BridgeBounds ==
  ASSUME NEW p \in BridgePools, NEW x \in Nat
  PROVE  BridgeOut(p, x) \in 0..p.usd
<1>1. p.sol \in Nat \ {0} /\ p.usd \in Nat BY DEF BridgePools
<1> QED BY <1>1, PoolPays DEF BridgeOut

LEMMA BridgeMonotone ==
  ASSUME NEW p \in BridgePools, NEW x \in Nat, NEW y \in Nat, x <= y
  PROVE  BridgeOut(p, x) <= BridgeOut(p, y)
<1>1. p.sol \in Nat \ {0} /\ p.usd \in Nat BY DEF BridgePools
<1> QED BY <1>1, PoolMonotone DEF BridgeOut

(* The scaled quote: not more than the quote, nor than the pool pays for the part. *)
LEMMA ScaledBounds ==
  ASSUME NEW p \in BridgePools, NEW h \in Nat \ {0}, NEW n \in Nat, n <= h
  PROVE  /\ ScaleBridgeOut(BridgeOut(p, h), h, n, Word) \in 0..BridgeOut(p, h)
         /\ ScaleBridgeOut(BridgeOut(p, h), h, n, Word) <= BridgeOut(p, n)
<1> DEFINE o == BridgeOut(p, h)
           w == (o * n) % Word
<1>1. o \in Nat /\ BridgeOut(p, n) \in Nat /\ p.sol \in Nat \ {0} /\ p.usd \in Nat
  BY BridgeBounds DEF BridgePools
<1>2. o * n \in Nat /\ o * n <= o * h BY <1>1, ProductNat, ProductMonotone
<1>3. w \in Nat /\ w <= o * n BY <1>2, Remainder, SwapAssumption
<1>4. (o * n) \div h <= BridgeOut(p, n) BY <1>1, ScaledUnderPool DEF BridgeOut
<1>5. (o * n) \div h \in Nat /\ (o * n) \div h <= o
  <2> HIDE DEF o
  <2> QED BY <1>1, <1>2, Division, DivisionMost
<1> HIDE DEF o, w
<1>6. w \div h \in Nat /\ w \div h <= (o * n) \div h BY <1>2, <1>3, Division, DivisionMonotone
<1>7. ScaleBridgeOut(o, h, n, Word) \in {0, w \div h} BY DEF ScaleBridgeOut, w
<1>8. ScaleBridgeOut(o, h, n, Word) \in 0..o /\ ScaleBridgeOut(o, h, n, Word) <= BridgeOut(p, n)
  <2> DEFINE s == (o * n) \div h
             t == w \div h
  <2> HIDE DEF s, t
  <2>1. s \in Nat /\ s <= o /\ s <= BridgeOut(p, n) /\ t \in Nat /\ t <= s BY <1>4, <1>5, <1>6 DEF s, t
  <2>2. ScaleBridgeOut(o, h, n, Word) \in {0, t} BY <1>7 DEF t
  <2> QED BY <1>1, <2>1, <2>2
<1> QED BY <1>8 DEF o

-----------------------------------------------------------------------------
(* The quote.                                                              *)

(* Every route's minima, by cases of the route. *)
LEMMA MinimaOf ==
  ASSUME NEW amount, NEW offered
  PROVE  /\ Minima("buy", amount, offered).self = MinOut(BuyBaseOut(curve["A"], NetOfFee(amount)), SlippageBps)
         /\ Minima("buy", amount, offered).sponsored = MinOut(BuyBaseOut(curve["A"], NetOfFee(amount)), SlippageBps)
         /\ Minima("sell", amount, offered).self = MinOut(SellQuoteOut(curve["A"], amount), SlippageBps)
         /\ Minima("sell", amount, offered).sponsored = MinOut(SellQuoteOut(curve["A"], amount), SlippageBps)
         /\ Minima("swap", amount, offered).self = MinOut(BuyBaseOut(curve["B"], SecondHop(amount)), SlippageBps)
         /\ Minima("swap", amount, offered).sponsored =
              MinOut(BuyBaseOut(curve["B"], SponsoredIn(SecondHop(amount), offered)), SlippageBps)
         /\ Minima("bridge", amount, offered).self = BridgeMin(BridgeOut(pool, SecondHop(amount)), 0)
         /\ Minima("bridge", amount, offered).sponsored =
              BridgeMin(BridgeOut(pool, SecondHop(amount)), IF offered THEN ScaledMin(amount) ELSE 0)
BY DEF Minima

LEMMA MinOutOf ==
  ASSUME NEW expected \in Nat
  PROVE  MinOut(expected, SlippageBps) \in Nat /\ MinOut(expected, SlippageBps) <= expected
BY MinOutBounds, SwapAssumption

(* What a quote is sized for. *)
LEMMA Quotes ==
  ASSUME IInv, NEW route \in PricedRoutes, NEW amount \in Amounts, NEW offered \in BOOLEAN,
         Quote(route, amount, offered)
  PROVE  Sized'
<1> DEFINE hop == SecondHop(amount)
           sale == MinOut(SellQuoteOut(curve["A"], amount), SlippageBps)
           m == Minima(route, amount, offered)
           q == [route |-> route, in |-> amount, offered |-> offered,
                 sellMin |-> sale, minima |-> m, promised |-> PromisedMin(route, amount, offered),
                 at |-> [curve |-> curve, pool |-> pool],
                 exactMin |->
                   IF route = "bridge" /\ offered THEN ExactScaledMin(amount) ELSE 0]
<1>1. /\ quote' = q /\ curve' = curve /\ pool' = pool
      /\ offered => route # "buy"
      /\ Quotable(route, amount, offered)
  BY DEF Quote
<1>2. amount \in Nat \ {0} /\ Repay \in Nat BY SwapAssumption
<1>3. curve["A"] \in Curves /\ curve["B"] \in Curves /\ pool \in BridgePools
  BY DEF IInv, Reserves, Tokens
<1>4. sale \in Nat BY <1>2, <1>3, SellBounds, MinOutOf
<1>5. hop \in Nat /\ hop = NetOfFee(sale) BY <1>4, NetBounds DEF SecondHop
<1>6. NetOfFee(amount) \in Nat BY <1>2, NetBounds
<1>7. /\ quote'.route = route /\ quote'.in = amount /\ quote'.offered = offered
      /\ quote'.sellMin = sale /\ quote'.minima = m
      /\ quote'.promised = PromisedMin(route, amount, offered)
      /\ quote'.at.curve = curve /\ quote'.at.pool = pool
  BY <1>1
<1>8. Hop' = hop
  <2>1. Hop' = NetOfFee(quote'.sellMin) BY DEF Hop, NetOfFee
  <2> QED BY <1>5, <1>7, <2>1
<1>9. Built' = IF offered THEN {"self", "sponsored"} ELSE {"self"} BY <1>7 DEF Built
<1>10. route # "buy" => hop > 0 BY <1>1 DEF Quotable
<1>11. offered /\ route \in {"swap", "bridge"} =>
         CanSubtractRepay(hop, Repay) /\ SponsoredIn(hop, offered) = hop - Repay
         /\ hop - Repay \in Nat /\ hop - Repay <= hop
  BY <1>1, <1>2, <1>5 DEF Quotable, CanSubtractRepay, SponsoredIn
<1>12. Least("self")' = hop /\ Least("sponsored")' = hop - Repay BY <1>8 DEF Least
<1> HIDE DEF hop, sale, m, q
<1>13. SUFFICES
         /\ quote'.promised \in Nat
         /\ \A variant \in {"self", "sponsored"} : quote'.minima[variant] \in Nat
         /\ IF route = "sell" THEN quote'.promised = hop
            ELSE \A variant \in Built' : quote'.minima[variant] >= quote'.promised
         /\ route \in {"swap", "bridge"} => (quote'.promised > 0 => Absorbed')
  BY <1>1, <1>4, <1>7, <1>8, <1>11 DEF Sized
<1>14. CASE route = "buy"
  <2>1. BuyBaseOut(curve["A"], NetOfFee(amount)) \in Nat BY <1>3, <1>6, BuyBounds
  <2> DEFINE least == MinOut(BuyBaseOut(curve["A"], NetOfFee(amount)), SlippageBps)
  <2>2. least \in Nat BY <2>1, MinOutOf
  <2>3. m.self = least /\ m.sponsored = least BY <1>14, MinimaOf DEF m
  <2>4. PromisedMin(route, amount, offered) = m.sponsored BY <1>14 DEF PromisedMin, m
  <2> HIDE DEF least
  <2> QED BY <1>7, <1>9, <1>14, <2>2, <2>3, <2>4
<1>15. CASE route = "sell"
  <2>1. m.self = sale /\ m.sponsored = sale BY <1>15, MinimaOf DEF m, sale
  <2>2. PromisedMin(route, amount, offered) = NetOfFee(m.self) BY <1>15 DEF PromisedMin, m
  <2> QED BY <1>4, <1>5, <1>7, <1>15, <2>1, <2>2
<1>16. CASE route = "swap"
  <2> DEFINE b == curve["B"]
             in == SponsoredIn(hop, offered)
  <2>1. m.self = MinOut(BuyBaseOut(b, hop), SlippageBps)
        /\ m.sponsored = MinOut(BuyBaseOut(b, in), SlippageBps)
    BY <1>16, MinimaOf DEF m, hop
  <2>2. in \in Nat /\ in <= hop BY <1>5, <1>11, <1>16 DEF SponsoredIn
  <2>3. quote'.promised = m.sponsored BY <1>7, <1>16 DEF PromisedMin, m
  <2>4. BuyBaseOut(b, hop) \in Nat /\ BuyBaseOut(b, in) \in Nat /\ BuyBaseOut(b, in) <= BuyBaseOut(b, hop)
    <3> HIDE DEF in
    <3> QED BY <1>3, <1>5, <2>2, BuyBounds, BuyMonotone
  <2>5. m.self \in Nat /\ m.sponsored \in Nat /\ m.sponsored <= m.self
        /\ m.self <= BuyBaseOut(b, hop) /\ m.sponsored <= BuyBaseOut(b, in)
    BY <2>1, <2>4, MinOutOf, MinOutMonotone, SwapAssumption
  <2>6. Absorbed'
    <3> SUFFICES ASSUME NEW variant \in Built', NEW x \in Nat, x >= Least(variant)'
                 PROVE  LastOut(x)' >= quote'.minima[variant]
      BY DEF Absorbed, Least
    <3>1. LastOut(x)' = BuyBaseOut(b, x) BY <1>7, <1>16 DEF LastOut, BuyBaseOut, RawBaseOut, CurveInput
    <3>2. BuyBaseOut(b, x) \in Nat BY <1>3, BuyBounds
    <3>3. CASE variant = "self"
      <4>1. hop <= x BY <1>5, <1>12, <3>3
      <4>2. BuyBaseOut(b, hop) <= BuyBaseOut(b, x) BY <1>3, <1>5, <4>1, BuyMonotone
      <4> QED BY <1>7, <2>4, <2>5, <3>1, <3>2, <3>3, <4>2
    <3>4. CASE variant = "sponsored"
      <4>1. offered BY <1>9, <3>4
      <4>2. in = hop - Repay BY <1>11, <1>16, <4>1
      <4>3. in <= x BY <1>5, <1>12, <2>2, <3>4, <4>2
      <4> HIDE DEF in
      <4>4. BuyBaseOut(b, in) <= BuyBaseOut(b, x) BY <1>3, <2>2, <4>3, BuyMonotone
      <4> QED BY <1>7, <2>4, <2>5, <3>1, <3>2, <3>4, <4>4
    <3> QED BY <1>9, <3>3, <3>4
  <2> QED BY <1>7, <1>9, <1>16, <2>3, <2>5, <2>6
<1>17. CASE route = "bridge"
  <2> DEFINE out == BridgeOut(pool, hop)
             scaled == ScaledMin(amount)
  <2>1. m.self = BridgeMin(out, 0) /\ m.sponsored = BridgeMin(out, IF offered THEN scaled ELSE 0)
    BY <1>17, MinimaOf DEF m, hop
  <2>2. out \in Nat BY <1>3, <1>5, BridgeBounds
  <2>3. BridgeMin(out, 0) = MinOut(out, SlippageBps) /\ MinOut(out, SlippageBps) \in Nat
        /\ MinOut(out, SlippageBps) <= out
    BY <2>2, MinOutOf DEF BridgeMin
  <2>4. ASSUME offered
        PROVE  scaled \in Nat /\ scaled <= MinOut(out, SlippageBps) /\ scaled <= BridgeOut(pool, hop - Repay)
    <3> DEFINE full == ScaleBridgeOut(out, hop, hop - Repay, Word)
    <3>1. hop - Repay \in Nat /\ hop - Repay <= hop /\ hop \in Nat \ {0} BY <1>5, <1>10, <1>11, <1>17, <2>4
    <3>2. full \in 0..out /\ full <= BridgeOut(pool, hop - Repay) BY <1>3, <3>1, ScaledBounds
    <3>3. BridgeOut(pool, hop - Repay) \in Nat BY <1>3, <3>1, BridgeBounds
    <3>4. scaled = MinOut(full, SlippageBps) BY DEF ScaledMin, SponsoredIn, hop
    <3> HIDE DEF full, out, scaled
    <3>5. full \in Nat /\ full <= out BY <2>2, <3>2
    <3>6. MinOut(full, SlippageBps) \in Nat /\ MinOut(full, SlippageBps) <= full BY <3>5, MinOutOf
    <3>7. MinOut(full, SlippageBps) <= MinOut(out, SlippageBps)
      BY <2>2, <3>5, MinOutMonotone, SwapAssumption
    <3> QED BY <3>2, <3>3, <3>4, <3>5, <3>6, <3>7
  <2>5. quote'.promised = IF offered THEN scaled ELSE m.sponsored
    BY <1>7, <1>17 DEF PromisedMin, m
  <2>6. offered /\ scaled > 0 => m.sponsored = scaled BY <2>1, <2>4 DEF BridgeMin
  <2>7. offered /\ ~(scaled > 0) => m.sponsored = MinOut(out, SlippageBps) /\ scaled = 0
    BY <2>1, <2>4 DEF BridgeMin
  <2>8. ~offered => m.sponsored = MinOut(out, SlippageBps) BY <2>1, <2>3
  <2>9. m.self = MinOut(out, SlippageBps) BY <2>1, <2>3
  <2> HIDE DEF out, scaled
  <2>10. /\ m.self \in Nat /\ m.sponsored \in Nat /\ quote'.promised \in Nat
         /\ m.self >= quote'.promised /\ m.sponsored >= quote'.promised
    BY <2>3, <2>4, <2>5, <2>6, <2>7, <2>8, <2>9
  <2>11. ASSUME quote'.promised > 0 PROVE Absorbed'
    <3> SUFFICES ASSUME NEW variant \in Built', NEW x \in Nat, x >= Least(variant)'
                 PROVE  LastOut(x)' >= quote'.minima[variant]
      BY DEF Absorbed, Least
    <3>1. LastOut(x)' = BridgeOut(pool, x) BY <1>7, <1>17 DEF LastOut, BridgeOut
    <3>2. BridgeOut(pool, x) \in Nat BY <1>3, BridgeBounds
    <3>3. CASE variant = "self"
      <4>1. hop <= x BY <1>5, <1>12, <3>3
      <4>2. out <= BridgeOut(pool, x) BY <1>3, <1>5, <4>1, BridgeMonotone DEF out
      <4> QED BY <1>7, <2>2, <2>3, <2>9, <3>1, <3>2, <3>3, <4>2
    <3>4. CASE variant = "sponsored"
      <4>1. offered BY <1>9, <3>4
      <4>2. m.sponsored = scaled /\ scaled <= BridgeOut(pool, hop - Repay) /\ scaled \in Nat
        BY <2>4, <2>5, <2>6, <2>11, <4>1
      <4>3. hop - Repay \in Nat /\ hop - Repay <= x BY <1>5, <1>11, <1>12, <1>17, <3>4, <4>1
      <4>4. BridgeOut(pool, hop - Repay) <= BridgeOut(pool, x) /\ BridgeOut(pool, hop - Repay) \in Nat
        BY <1>3, <4>3, BridgeMonotone, BridgeBounds
      <4> QED BY <1>7, <3>1, <3>2, <3>4, <4>2, <4>4
    <3> QED BY <1>9, <3>3, <3>4
  <2> QED BY <1>7, <1>9, <1>17, <2>10, <2>11
<1> QED BY <1>14, <1>15, <1>16, <1>17 DEF PricedRoutes

-----------------------------------------------------------------------------
(* The chain.                                                              *)

LEMMA AfterBuyCurve ==
  ASSUME NEW c \in Curves, NEW x \in Nat
  PROVE  AfterBuy(c, x) \in Curves
<1>1. c.vTok \in Nat /\ c.vQuote \in Nat \ {0} /\ c.real \in Nat BY DEF Curves
<1>2. BuyBaseOut(c, x) \in 0..c.vTok /\ BuyBaseOut(c, x) <= c.real BY BuyBounds
<1>3. CurveInput(x) \in Nat BY InputBounds
<1>4. /\ c.vTok - BuyBaseOut(c, x) \in Nat /\ c.real - BuyBaseOut(c, x) \in Nat
      /\ c.vQuote + CurveInput(x) \in Nat \ {0}
  BY <1>1, <1>2, <1>3
<1> QED BY <1>4 DEF AfterBuy, Curves

LEMMA AfterSellCurve ==
  ASSUME NEW c \in Curves, NEW x \in Nat \ {0}, RawQuoteOut(c, x) < c.vQuote
  PROVE  AfterSell(c, x) \in Curves
<1>1. c.vTok \in Nat /\ c.vQuote \in Nat \ {0} /\ c.real \in Nat BY DEF Curves
<1>2. RawQuoteOut(c, x) \in 0..c.vQuote BY SellBounds
<1>3. /\ c.vTok + x \in Nat /\ c.real + x \in Nat /\ c.vQuote - RawQuoteOut(c, x) \in Nat \ {0}
  BY <1>1, <1>2
<1> QED BY <1>3 DEF AfterSell, Curves

(* Trades of others move the pools before the transaction is sent, never the quote. *)
LEMMA OthersTrade ==
  ASSUME IInv, OthersMayTrade, curve' \in [Tokens -> Curves], pool' \in BridgePools
  PROVE  IInv'
<1>1. quote # Unquoted /\ fate = Unsent /\ trades < MaxTrades /\ trades' = trades + 1
      /\ quote' = quote /\ fate' = fate
  BY DEF OthersMayTrade
<1>2. ~Executed' BY <1>1 DEF Executed
<1>3. PromiseKept' /\ SecondHopAbsorbsFirst' BY <1>2 DEF PromiseKept, SecondHopAbsorbsFirst
<1>4. Reserves' BY DEF Reserves
<1>5. TypeOK'
  <2>1. curve' \in [Tokens -> [vTok : Nat, vQuote : Nat, real : Nat]] BY DEF Curves
  <2>2. pool' \in [sol : Nat, usd : Nat] BY DEF BridgePools
  <2>3. trades' \in 0..MaxTrades BY <1>1, SwapAssumption DEF IInv, TypeOK
  <2> QED BY <1>1, <2>1, <2>2, <2>3 DEF TypeOK
<1>6. Sized'
  <2>1. Absorbed' <=> Absorbed
    BY <1>1 DEF Absorbed, Built, Least, Hop, LastOut, NetOfFee, BuyBaseOut, RawBaseOut, CurveInput, BridgeOut
  <2>2. Hop' = Hop /\ Built' = Built BY <1>1 DEF Hop, Built, NetOfFee
  <2> QED BY <1>1, <2>1, <2>2 DEF IInv, Sized
<1> QED BY <1>1, <1>3, <1>4, <1>5, <1>6 DEF IInv

LEMMA Executes ==
  ASSUME IInv, NEW variant \in {"self", "sponsored"}, NEW due \in Dues \cup {0}, Execute(variant, due)
  PROVE  IInv'
<1>1. /\ quote # Unquoted /\ fate = Unsent
      /\ variant = "sponsored" => quote.offered
      /\ variant = "self" => due = 0
      /\ curve' = curve /\ pool' = pool /\ quote' = quote /\ trades' = trades
  BY DEF Execute
<1>2. fate' = [status |-> IF ~FirstHopPasses THEN "hop1"
                          ELSE IF ~RepayPasses(due) THEN "repay"
                          ELSE IF LastHop(due) < quote.minima[variant] THEN "hop2"
                          ELSE "done",
               variant |-> variant, due |-> due,
               got |-> IF FirstHopPasses /\ RepayPasses(due) THEN Received(due) ELSE 0]
  BY DEF Execute
<1> DEFINE paid == SellQuoteOut(curve["A"], quote.in)
<1>3. /\ quote.route \in PricedRoutes /\ quote.in \in Amounts /\ quote.offered \in BOOLEAN
      /\ quote.route = "buy" => ~quote.offered
      /\ quote.sellMin \in Nat /\ quote.promised \in Nat
      /\ quote.minima[variant] \in Nat
      /\ IF quote.route = "sell" THEN quote.promised = Hop
         ELSE \A v \in Built : quote.minima[v] >= quote.promised
      /\ quote.route \in {"swap", "bridge"} =>
           /\ quote.offered => CanSubtractRepay(Hop, Repay)
           /\ quote.promised > 0 => Absorbed
  BY <1>1 DEF IInv, Sized
<1>4. quote.in \in Nat \ {0} /\ Repay \in Nat /\ due \in 0..Repay
  <2>1. Amounts \subseteq Nat \ {0} BY SwapAssumption
  <2>2. quote.in \in Nat \ {0} BY <1>3, <2>1
  <2>3. Repay \in Nat /\ Dues \subseteq 0..Repay BY SwapAssumption
  <2>4. due \in 0..Repay
    <3>1. CASE due = 0 BY <2>3, <3>1
    <3>2. CASE due \in Dues BY <2>3, <3>2
    <3> QED BY <3>1, <3>2
  <2> QED BY <2>2, <2>3, <2>4
<1>5. curve["A"] \in Curves /\ curve["B"] \in Curves /\ pool \in BridgePools
  BY DEF IInv, Reserves, Tokens
<1>6. variant \in Built BY <1>1, <1>3 DEF Built
<1>7. paid \in Nat /\ NetOfFee(paid) \in Nat /\ Hop \in Nat
  BY <1>3, <1>4, <1>5, SellBounds, NetBounds DEF Hop
<1>8. quote.route # "buy" /\ FirstHopPasses => NetOfFee(paid) >= Hop
  <2> SUFFICES ASSUME quote.route # "buy", FirstHopPasses PROVE NetOfFee(paid) >= Hop OBVIOUS
  <2>1. quote.sellMin <= paid BY <1>3, <1>7 DEF FirstHopPasses
  <2> HIDE DEF paid
  <2>2. quote.sellMin - ApplyBPS(quote.sellMin, FeeBps) <= paid - ApplyBPS(paid, FeeBps)
    BY <1>3, <1>7, <2>1, NetMonotone, SwapAssumption
  <2> QED BY <1>7, <2>2 DEF NetOfFee, Hop
<1>9. Proceeds(due) = NetOfFee(paid) - due BY DEF Proceeds
<1> HIDE DEF paid
<1>10. (LastHop(due) \in Int /\ Received(due) \in Int) \/ ~RepayPasses(due)
  <2> SUFFICES ASSUME RepayPasses(due) PROVE LastHop(due) \in Int /\ Received(due) \in Int OBVIOUS
  <2>1. quote.route # "buy" => Proceeds(due) \in Nat BY <1>4, <1>7, <1>9 DEF RepayPasses
  <2>2. NetOfFee(quote.in) \in Nat BY <1>4, NetBounds
  <2>3. quote.route = "buy" => LastHop(due) \in Int BY <1>5, <2>2, BuyBounds DEF LastHop, Curves
  <2>4. quote.route = "sell" => LastHop(due) \in Int BY <1>7 DEF LastHop, paid
  <2>5. quote.route = "swap" => LastHop(due) \in Int BY <1>5, <2>1, BuyBounds DEF LastHop, Curves
  <2>6. quote.route = "bridge" => LastHop(due) \in Int BY <1>5, <2>1, BridgeBounds DEF LastHop, BridgePools
  <2> QED BY <1>3, <2>1, <2>3, <2>4, <2>5, <2>6 DEF Received, PricedRoutes
<1>11. PromiseKept'
  <2> SUFFICES ASSUME fate'.status = "done"
               PROVE  fate'.got + (IF quote.route = "sell" THEN due ELSE 0) >= quote.promised
    BY <1>1, <1>2 DEF PromiseKept
  <2>1. FirstHopPasses /\ RepayPasses(due) /\ ~(LastHop(due) < quote.minima[variant])
    BY <1>2
  <2>2. fate'.got = Received(due) BY <1>2, <2>1
  <2>3. CASE quote.route = "sell"
    <3>1. Received(due) = NetOfFee(paid) - due BY <1>9, <2>3 DEF Received
    <3> QED BY <1>3, <1>4, <1>7, <1>8, <2>1, <2>2, <2>3, <3>1
  <2>4. CASE quote.route # "sell"
    <3>1. Received(due) = LastHop(due) BY <2>4 DEF Received
    <3>2. quote.minima[variant] >= quote.promised BY <1>3, <1>6, <2>4
    <3> QED BY <1>3, <1>10, <2>1, <2>2, <2>4, <3>1, <3>2
  <2> QED BY <2>3, <2>4
<1>12. SecondHopAbsorbsFirst'
  <2> SUFFICES ASSUME quote.route \in {"swap", "bridge"}, quote.promised > 0, LastPoolUnmoved,
                      FirstHopPasses
               PROVE  fate'.status = "done"
    BY <1>1, <1>2 DEF SecondHopAbsorbsFirst, LastPoolUnmoved
  <2>1. NetOfFee(paid) >= Hop BY <1>8
  <2>2. Least(variant) \in Nat /\ Proceeds(due) >= Least(variant) /\ Proceeds(due) \in Nat
    <3>1. CASE variant = "self" BY <1>1, <1>7, <1>9, <2>1, <3>1 DEF Least
    <3>2. CASE variant = "sponsored"
      <4>1. Hop - Repay \in Nat BY <1>1, <1>3, <1>4, <1>7, <3>2 DEF CanSubtractRepay
      <4> QED BY <1>4, <1>7, <1>9, <2>1, <3>2, <4>1 DEF Least
    <3> QED BY <3>1, <3>2
  <2>3. RepayPasses(due) BY <2>2 DEF RepayPasses
  <2>4. LastOut(Proceeds(due)) >= quote.minima[variant] BY <1>3, <1>6, <2>2 DEF Absorbed
  <2>5. LastHop(due) = LastOut(Proceeds(due)) BY DEF LastHop, LastOut, LastPoolUnmoved
  <2>6. ~(LastHop(due) < quote.minima[variant]) BY <1>3, <1>10, <2>3, <2>4, <2>5
  <2> QED BY <1>2, <2>3, <2>6
<1>13. TypeOK'
  <2>1. fate'.status \in {"done", "hop1", "repay", "hop2"} BY <1>2
  <2> QED BY <1>1, <2>1 DEF IInv, TypeOK
<1>14. Reserves' BY <1>1 DEF IInv, Reserves
<1>15. Sized'
  <2>1. Absorbed' <=> Absorbed
    BY <1>1 DEF Absorbed, Built, Least, Hop, LastOut, NetOfFee, BuyBaseOut, RawBaseOut, CurveInput, BridgeOut
  <2>2. Hop' = Hop /\ Built' = Built BY <1>1 DEF Hop, Built, NetOfFee
  <2> QED BY <1>1, <2>1, <2>2 DEF IInv, Sized
<1> QED BY <1>1, <1>11, <1>12, <1>13, <1>14, <1>15 DEF IInv

LEMMA QuoteStep ==
  ASSUME IInv, NEW route \in PricedRoutes, NEW amount \in Amounts, NEW offered \in BOOLEAN,
         Quote(route, amount, offered)
  PROVE  IInv'
<1>1. quote = Unquoted /\ curve' = curve /\ pool' = pool /\ trades' = trades /\ fate' = fate
  BY DEF Quote
<1>2. fate = Unsent BY <1>1 DEF IInv
<1>3. ~Executed' BY <1>1, <1>2 DEF Executed
<1>4. PromiseKept' /\ SecondHopAbsorbsFirst' BY <1>3 DEF PromiseKept, SecondHopAbsorbsFirst
<1>5. TypeOK' /\ Reserves' BY <1>1 DEF IInv, TypeOK, Reserves
<1>6. Sized' BY Quotes
<1> QED BY <1>1, <1>2, <1>4, <1>5, <1>6 DEF IInv

-----------------------------------------------------------------------------
(* The invariant.                                                          *)

LEMMA Inits == Init => IInv
<1> SUFFICES ASSUME Init PROVE IInv OBVIOUS
<1>1. curve \in [Tokens -> Curves] /\ pool \in BridgePools
  BY SwapAssumption DEF Init, Curves, BridgePools
<1>2. curve \in [Tokens -> [vTok : Nat, vQuote : Nat, real : Nat]] /\ pool \in [sol : Nat, usd : Nat]
  BY <1>1 DEF Curves, BridgePools
<1>3. quote = Unquoted /\ fate = Unsent /\ trades \in 0..MaxTrades BY SwapAssumption DEF Init
<1> QED BY <1>1, <1>2, <1>3
  DEF IInv, TypeOK, Reserves, Sized, PromiseKept, SecondHopAbsorbsFirst, Executed

LEMMA Steps == IInv /\ [Next]_vars => IInv'
<1> SUFFICES ASSUME IInv, [Next]_vars PROVE IInv' OBVIOUS
<1>1. ASSUME NEW r \in PricedRoutes, NEW a \in Amounts, NEW o \in BOOLEAN, Quote(r, a, o)
      PROVE  IInv'
  BY <1>1, QuoteStep
<1>2. curve \in [Tokens -> Curves] /\ pool \in BridgePools /\ Amounts \subseteq Nat \ {0}
  BY SwapAssumption DEF IInv, Reserves
<1>3. ASSUME NEW t \in Tokens, NEW a \in Amounts, OtherBuys(t, a) PROVE IInv'
  <2>1. OthersMayTrade /\ curve' = [curve EXCEPT ![t] = AfterBuy(curve[t], a)] /\ pool' = pool
    BY <1>3 DEF OtherBuys
  <2>2. AfterBuy(curve[t], a) \in Curves BY <1>2, AfterBuyCurve
  <2>3. curve' \in [Tokens -> Curves] BY <1>2, <2>1, <2>2
  <2> QED BY <1>2, <2>1, <2>3, OthersTrade
<1>4. ASSUME NEW t \in Tokens, NEW a \in Amounts, OtherSells(t, a) PROVE IInv'
  <2>1. OthersMayTrade /\ curve' = [curve EXCEPT ![t] = AfterSell(curve[t], a)] /\ pool' = pool
        /\ RawQuoteOut(curve[t], a) < curve[t].vQuote
    BY <1>4 DEF OtherSells
  <2>2. AfterSell(curve[t], a) \in Curves BY <1>2, <2>1, AfterSellCurve
  <2>3. curve' \in [Tokens -> Curves] BY <1>2, <2>1, <2>2
  <2> QED BY <1>2, <2>1, <2>3, OthersTrade
<1>5. ASSUME NEW a \in Amounts, OtherBridges(a) PROVE IInv'
  <2>1. OthersMayTrade /\ curve' = curve
        /\ pool' = [sol |-> pool.sol + a, usd |-> pool.usd - BridgeOut(pool, a)]
    BY <1>5 DEF OtherBridges
  <2>2. pool.sol \in Nat \ {0} /\ pool.usd \in Nat BY <1>2 DEF BridgePools
  <2>3. BridgeOut(pool, a) \in 0..pool.usd BY <1>2, BridgeBounds
  <2>4. pool.sol + a \in Nat \ {0} /\ pool.usd - BridgeOut(pool, a) \in Nat BY <1>2, <2>2, <2>3
  <2>5. pool' \in BridgePools BY <2>1, <2>4 DEF BridgePools
  <2> QED BY <1>2, <2>1, <2>5, OthersTrade
<1>6. ASSUME NEW v \in {"self", "sponsored"}, NEW d \in Dues \cup {0}, Execute(v, d) PROVE IInv'
  BY <1>6, Executes
<1>7. CASE UNCHANGED vars
  <2>1. curve' = curve /\ pool' = pool /\ quote' = quote /\ trades' = trades /\ fate' = fate
    BY <1>7 DEF vars
  <2>2. TypeOK' /\ Reserves' BY <2>1 DEF IInv, TypeOK, Reserves
  <2>3. Absorbed' <=> Absorbed
    BY <2>1 DEF Absorbed, Built, Least, Hop, LastOut, NetOfFee, BuyBaseOut, RawBaseOut, CurveInput, BridgeOut
  <2>4. Hop' = Hop /\ Built' = Built BY <2>1 DEF Hop, Built, NetOfFee
  <2>5. Sized' BY <2>1, <2>3, <2>4 DEF IInv, Sized
  <2>6. PromiseKept' BY <2>1 DEF IInv, PromiseKept, Executed
  <2>7. SecondHopAbsorbsFirst' BY <2>1 DEF IInv, SecondHopAbsorbsFirst, Executed, LastPoolUnmoved
  <2> QED BY <2>1, <2>2, <2>5, <2>6, <2>7 DEF IInv
<1> QED BY <1>1, <1>3, <1>4, <1>5, <1>6, <1>7 DEF Next

(* For any pools, amounts, fees, slippage and repay, a quote stays sized for  *)
(* the worst that its first hop and its repay may leave to the last one.      *)
THEOREM QuoteInvariant == Spec => []IInv
<1>1. Init => IInv BY Inits
<1>2. IInv /\ [Next]_vars => IInv' BY Steps
<1> QED BY <1>1, <1>2, PTL DEF Spec

(* No trade takes more tokens from a curve than it has left, nor drives a     *)
(* reserve below zero.                                                        *)
THEOREM CurveTypeCorrect == Spec => []TypeOK
<1>1. IInv => TypeOK BY DEF IInv
<1> QED BY <1>1, QuoteInvariant, PTL

(* Whatever variant is signed and however the pools moved, a trade that goes  *)
(* through pays at least the minOutputAmount of the response; the minimum of  *)
(* a sponsored bridge too, whatever the word it is scaled in cuts off.        *)
THEOREM PromisesKept == Spec => []PromiseKept
<1>1. IInv => PromiseKept BY DEF IInv
<1> QED BY <1>1, QuoteInvariant, PTL

(* A transaction whose first hop passed is refused further on only if the     *)
(* pool of its last hop has moved: slippage and repay of the first hop are    *)
(* in the size of the second.                                                 *)
THEOREM SecondHopAbsorbs == Spec => []SecondHopAbsorbsFirst
<1>1. IInv => SecondHopAbsorbsFirst BY DEF IInv
<1> QED BY <1>1, QuoteInvariant, PTL

LEMMA RoundTrip ==
  ASSUME NEW c \in Curves, NEW a \in Nat
  PROVE  SellQuoteOut(AfterBuy(c, a), BuyBaseOut(c, a)) <= a
<1> DEFINE b == BuyBaseOut(c, a)
           x == CurveInput(a)
           d == AfterBuy(c, a)
           out == SellQuoteOut(d, b)
<1>1. c.vTok \in Nat /\ c.vQuote \in Nat \ {0} BY DEF Curves
<1>2. x \in Nat /\ x <= a BY InputBounds
<1>3. b \in Nat /\ b <= c.vTok /\ b <= RawBaseOut(c, a) /\ RawBaseOut(c, a) \in Nat BY <1>1, BuyBounds
<1>4. d \in Curves /\ d.vTok = c.vTok - b /\ d.vQuote = c.vQuote + x BY AfterBuyCurve DEF AfterBuy
<1>5. RawBaseOut(c, a) = (x * c.vTok) \div (c.vQuote + x) BY DEF RawBaseOut
<1> HIDE DEF b, x, d
<1>6. out \in Nat /\ (out > 0 => b > 0 /\ d.vTok > 0 /\ out <= RawQuoteOut(d, b))
  BY <1>3, <1>4, SellBounds
<1>7. CASE out = 0 BY <1>7 DEF out, b, d
<1>8. CASE out # 0
  <2> DEFINE r == RawBaseOut(c, a)
             D == c.vQuote + x
  <2>1. D \in Nat \ {0} /\ x * c.vTok \in Nat BY <1>1, <1>2, ProductNat
  <2>2. r * D <= x * c.vTok BY <1>5, <2>1, Division
  <2>3. r \in Nat /\ b <= r BY <1>3
  <2> HIDE DEF r, D
  <2>4. b * D <= r * D
    <3>1. D * b <= D * r BY <1>3, <2>1, <2>3, ProductMonotone
    <3> QED BY <1>3, <2>1, <2>3, <3>1
  <2>5. b * D <= x * c.vTok
    <3>1. b * D \in Nat /\ r * D \in Nat BY <1>3, <2>1, <2>3, ProductNat
    <3> DEFINE p == b * D
               q == r * D
               s == x * c.vTok
    <3> HIDE DEF p, q, s
    <3>2. p \in Nat /\ q \in Nat /\ s \in Nat /\ p <= q /\ q <= s BY <2>1, <2>2, <2>4, <3>1 DEF p, q, s
    <3>3. p <= s BY <3>2
    <3> QED BY <3>3 DEF p, s
  <2>6. d.vTok + b = c.vTok /\ c.vTok \in Nat \ {0} BY <1>1, <1>3, <1>4, <1>6, <1>8
  <2>7. RawQuoteOut(d, b) = (b * D) \div c.vTok BY <1>4, <2>6 DEF RawQuoteOut, D
  <2>8. b * D \in Nat BY <1>3, <2>1, ProductNat
  <2>9. (b * D) \div c.vTok <= x BY <1>2, <2>5, <2>6, <2>8, DivisionMost
  <2>10. (b * D) \div c.vTok \in Nat BY <2>6, <2>8, Division
  <2>11. out <= a BY <1>2, <1>6, <1>8, <2>7, <2>9, <2>10
  <2> QED BY <2>11 DEF out, b, d
<1> QED BY <1>7, <1>8

(* Every rounding of the two price functions is in the pool's favour: tokens  *)
(* bought never sell back for more than was paid, at any reserves.            *)
THEOREM RoundTripsNeverGain == Spec => []RoundTripNeverGains
<1>1. IInv => RoundTripNeverGains
  <2> SUFFICES ASSUME IInv, NEW t \in Tokens, NEW a \in Amounts
               PROVE  SellQuoteOut(AfterBuy(curve[t], a), BuyBaseOut(curve[t], a)) <= a
    BY DEF RoundTripNeverGains
  <2>1. curve[t] \in Curves /\ a \in Nat BY SwapAssumption DEF IInv, Reserves
  <2> QED BY <2>1, RoundTrip
<1> QED BY <1>1, QuoteInvariant, PTL
=============================================================================
