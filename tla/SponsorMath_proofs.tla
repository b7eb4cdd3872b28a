------------------------- MODULE SponsorMath_proofs -------------------------
(* Facts about the sizing arithmetic, for every amount and every schedule. *)
EXTENDS SponsorMath, TLAPS

Schedule == [sig : Nat, cuLimit : Nat, cuPrice : Nat, rent : Nat, buffer : Nat]

(* A product of naturals is a natural: stated once, so that no leaf below needs it. *)
LEMMA ProductNat == ASSUME NEW a \in Nat, NEW b \in Nat PROVE a * b \in Nat
  OBVIOUS

LEMMA ProductMonotone ==
  ASSUME NEW a \in Nat, NEW b \in Nat, NEW c \in Nat, b <= c
  PROVE  a * b <= a * c
  OBVIOUS

(* ApplyBPS takes at most the whole amount: a fee never exceeds what it is taken from. *)
LEMMA ApplyBPSBounds ==
  ASSUME NEW amount \in Nat, NEW bps \in 0..Bps
  PROVE  ApplyBPS(amount, bps) \in 0..amount
<1> DEFINE p == amount * bps
<1>1. p \in Nat BY ProductNat
<1>2. p <= amount * Bps BY ProductMonotone DEF Bps
<1>3. p \div 10000 \in 0..amount
  <2> HIDE DEF p
  <2> QED BY <1>1, <1>2 DEF Bps
<1> QED BY <1>3 DEF ApplyBPS, Bps

(* A slippage minimum lies between zero and the expected amount (util.MinOut). *)
LEMMA MinOutBounds ==
  ASSUME NEW expected \in Nat, NEW slippage \in 0..Bps
  PROVE  MinOut(expected, slippage) \in 0..expected
<1>1. CASE slippage = 0 BY <1>1 DEF MinOut
<1>2. CASE slippage # 0
  <2>1. Bps - slippage \in 0..Bps BY DEF Bps
  <2>2. ApplyBPS(expected, Bps - slippage) \in 0..expected BY <2>1, ApplyBPSBounds
  <2> QED BY <1>2, <2>2 DEF MinOut, ApplyBPS
<1> QED BY <1>1, <1>2

(* Every amount the schedule yields is a natural number of lamports. *)
LEMMA ScheduleAmounts ==
  ASSUME NEW s \in Schedule, NEW sigs \in Nat, NEW atas \in Nat, NEW tip \in Nat
  PROVE  /\ PriorityFee(s) \in Nat
         /\ NetworkFee(s, sigs) \in Nat
         /\ Subtotal(s, sigs, atas, tip) \in Nat
         /\ EstimateRepayLamports(s, sigs, atas, tip) \in Nat
<1> DEFINE cu == s.cuLimit * s.cuPrice
<1>1. cu \in Nat BY ProductNat DEF Schedule
<1>2. sigs * s.sig \in Nat /\ atas * s.rent \in Nat BY ProductNat DEF Schedule
<1>3. PriorityFee(s) \in Nat
  <2>1. cu \div 1000000 \in Nat
    <3> HIDE DEF cu
    <3> QED BY <1>1
  <2> QED BY <2>1 DEF PriorityFee, MicroPerLamport
<1>4. NetworkFee(s, sigs) \in Nat
  <2>1. (cu + 1000000 - 1) \div 1000000 \in Nat
    <3> HIDE DEF cu
    <3> QED BY <1>1
  <2> QED BY <2>1, <1>2 DEF NetworkFee, MicroPerLamport
<1>5. Subtotal(s, sigs, atas, tip) \in Nat BY <1>2, <1>3 DEF Subtotal
<1>6. EstimateRepayLamports(s, sigs, atas, tip) \in Nat
  <2> DEFINE t == Subtotal(s, sigs, atas, tip)
             b == t * s.buffer
  <2>1. b \in Nat BY <1>5, ProductNat DEF Schedule
  <2>2. b \div 100 \in Nat
    <3> HIDE DEF b
    <3> QED BY <2>1
  <2> QED BY <1>5, <2>2 DEF EstimateRepayLamports
<1> QED BY <1>3, <1>4, <1>5, <1>6

(* What is left after a fee does not fall when the amount rises. *)
LEMMA NetMonotone ==
  ASSUME NEW a \in Nat, NEW b \in Nat, a <= b, NEW bps \in 0..Bps
  PROVE  a - ApplyBPS(a, bps) <= b - ApplyBPS(b, bps)
<1> DEFINE p == a * bps
           q == b * bps
<1>1. p \in Nat /\ q \in Nat BY ProductNat
<1>2. q <= p + (b - a) * 10000
  <2>1. b - a \in Nat BY DEF Bps
  <2>2. q = p + (b - a) * bps OBVIOUS
  <2>3. (b - a) * bps <= (b - a) * 10000
    <3>1. bps \in Nat /\ 10000 \in Nat /\ bps <= 10000 BY DEF Bps
    <3> QED BY <2>1, <3>1, ProductMonotone
  <2> HIDE DEF p, q
  <2>4. (b - a) * bps \in Nat BY <2>1, ProductNat
  <2> QED BY <1>1, <2>1, <2>2, <2>3, <2>4
<1>3. q \div 10000 <= (p \div 10000) + (b - a)
  <2> HIDE DEF p, q
  <2> QED BY <1>1, <1>2
<1> QED
  <2> HIDE DEF p, q
  <2>1. p \div 10000 \in Nat /\ q \div 10000 \in Nat BY <1>1
  <2>2. ApplyBPS(a, bps) = p \div 10000 /\ ApplyBPS(b, bps) = q \div 10000 BY DEF ApplyBPS, Bps, p, q
  <2> QED BY <1>3, <2>1, <2>2

(* An estimate for more accounts or a larger tip grows by at least what they cost. *)
LEMMA EstimateGrows ==
  ASSUME NEW s \in Schedule, NEW sigs \in Nat, NEW atas \in Nat, NEW tip \in Nat,
         NEW tip0 \in 0..tip, NEW cost \in 0..(atas * s.rent)
  PROVE  cost + EstimateRepayLamports(s, sigs, 0, tip0) <= EstimateRepayLamports(s, sigs, atas, tip)
<1> DEFINE t == Subtotal(s, sigs, 0, tip0)
           u == Subtotal(s, sigs, atas, tip)
           b == t * s.buffer
           c == u * s.buffer
<1>0. s.rent \in Nat /\ s.sig \in Nat /\ tip0 \in Nat /\ tip0 <= tip BY DEF Schedule
<1>1. t \in Nat /\ u \in Nat BY <1>0, ScheduleAmounts
<1>2. t + cost <= u
  <2> DEFINE base == sigs * s.sig + PriorityFee(s)
             rent == atas * s.rent
  <2>1. base \in Nat
    <3>1. sigs * s.sig \in Nat BY <1>0, ProductNat
    <3>2. PriorityFee(s) \in Nat BY ScheduleAmounts
    <3> QED BY <3>1, <3>2
  <2>2. rent \in Nat BY <1>0, ProductNat
  <2>3. t = base + 0 + tip0 /\ u = base + rent + tip
    <3>1. 0 * s.rent = 0 BY <1>0
    <3> QED BY <3>1 DEF Subtotal
  <2> HIDE DEF base, rent, t, u
  <2>4. cost \in Nat /\ cost <= rent BY <2>2 DEF rent
  <2> QED BY <1>0, <2>1, <2>2, <2>3, <2>4
<1>3. b \in Nat /\ c \in Nat /\ b <= c
  <2>1. s.buffer \in Nat BY DEF Schedule
  <2>2. s.buffer * t <= s.buffer * u BY <1>1, <1>2, <2>1, ProductMonotone, ProductNat
  <2> HIDE DEF t, u
  <2> QED BY <1>1, <2>1, <2>2, ProductNat
<1>4. b \div 100 <= c \div 100 /\ b \div 100 \in Nat /\ c \div 100 \in Nat
  <2> HIDE DEF b, c
  <2> QED BY <1>3
<1>5. /\ EstimateRepayLamports(s, sigs, 0, tip0) = t + (b \div 100)
      /\ EstimateRepayLamports(s, sigs, atas, tip) = u + (c \div 100)
  BY DEF EstimateRepayLamports
<1>6. cost \in Nat BY <1>0, ProductNat
<1> HIDE DEF t, u, b, c
<1> QED BY <1>1, <1>2, <1>4, <1>5, <1>6

(***************************************************************************)
(* EstimateRepayLamports never asks for less than the runtime charges,     *)
(* tip included, but for the one lamport by which the priority fee is      *)
(* rounded down in sponsor.go and up by the runtime.  No buffer is needed. *)
(***************************************************************************)
THEOREM EstimateCoversFees ==
  ASSUME NEW s \in Schedule, NEW sigs \in Nat, NEW tip \in Nat
  PROVE  EstimateRepayLamports(s, sigs, 0, tip) + 1 >= NetworkFee(s, sigs) + tip
<1> DEFINE cu == s.cuLimit * s.cuPrice
           base == sigs * s.sig
           t == Subtotal(s, sigs, 0, tip)
           b == t * s.buffer
<1>1. cu \in Nat /\ base \in Nat BY ProductNat DEF Schedule
<1>2. (cu \div 1000000) + 1 >= (cu + 1000000 - 1) \div 1000000
  <2> HIDE DEF cu
  <2> QED BY <1>1
<1>3. t \in Nat BY ScheduleAmounts
<1>4. b \in Nat BY <1>3, ProductNat DEF Schedule
<1>5. b \div 100 \in Nat
  <2> HIDE DEF b
  <2> QED BY <1>4
<1>6. EstimateRepayLamports(s, sigs, 0, tip) >= t BY <1>3, <1>5 DEF EstimateRepayLamports
<1>7. EstimateRepayLamports(s, sigs, 0, tip) \in Nat BY ScheduleAmounts
<1>8. t = base + (cu \div 1000000) + tip
  <2>1. 0 * s.rent = 0 BY DEF Schedule
  <2>2. cu \div 1000000 \in Nat
    <3> HIDE DEF cu
    <3> QED BY <1>1
  <2> QED BY <2>1, <2>2, <1>1 DEF Subtotal, PriorityFee, MicroPerLamport
<1>9. NetworkFee(s, sigs) = base + ((cu + 1000000 - 1) \div 1000000)
  BY DEF NetworkFee, MicroPerLamport
<1> HIDE DEF cu, base, t, b
<1> QED BY <1>1, <1>2, <1>3, <1>6, <1>7, <1>8, <1>9
=============================================================================
