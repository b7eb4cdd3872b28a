-------------------------- MODULE IfxTxTrade_proofs --------------------------
(***************************************************************************)
(* The user's side of a running trade, for every value of the constants:   *)
(* what hop 1 produced is spent by hop 2 exactly, a sponsored sale pays    *)
(* its repay out of its own proceeds, and hop 2 is handed at least what    *)
(* the server sized it for.                                                *)
(*                                                                         *)
(* The inductive invariant follows the money.  InHand is what hop 1 has    *)
(* produced and hop 2 has not spent yet: first a difference of balances,   *)
(* then the slot that holds it.  TraderAccounts says that, but for it, the *)
(* user has what was there when the transaction landed.  That is inductive *)
(* only because a slot is bound at most once after the reset (SlotsFresh): *)
(* a binding that found its slot taken would leave an old amount in hand.  *)
(***************************************************************************)
EXTENDS IfxTx_proofs

HopRoutes == ChainedRoutes \cup SPLRoutes
TradeRoutes == HopRoutes \cup {"sell"}

Lets == {"letUser", "letWsol", "letQuote"}
Fills == {"sell", "bridgeIn", "quoteIn"}
Deltas == {"deltaUser", "deltaWsol", "deltaQuote"}
Fees == {"fee", "feeQuote"}
Outlays == {"bridgeOut", "buy", "spendQuote"}

Some(steps) == \E s \in steps : Past(s)

(* The balance hop 1 pays into, and what of it is in hand. *)
HopBalance(l) == CASE cur.route \in SPLRoutes -> l.quote
                   [] cur.route = "bridgeBuy" -> l.wsol
                   [] OTHER -> l.user

InHand ==
  IF Some(Outlays) THEN 0
  ELSE IF Past("deduct") THEN frame["spend"]
  ELSE IF Some(Fees) THEN frame["net"]
  ELSE IF Some(Deltas) THEN frame["delta"]
  ELSE IF Some(Lets) THEN HopBalance(led) - frame["before"]
  ELSE 0

BindersOf == [before |-> Lets, delta |-> Deltas, net |-> Fees, spend |-> {"deduct"},
              cost |-> Measures]

(* After the reset, a slot is unbound until the one step that binds it. *)
SlotsFresh ==
  pc > 0 /\ cur.route \in TradeRoutes /\ Past("reset") =>
    \A slot \in Slots : ~Some(BindersOf[slot]) => frame[slot] = Unbound

OwnCosts == IF cur.sponsored THEN 0
            ELSE FeeOf(cur) + (IF Past("tip") THEN TipOf(cur) ELSE 0)

Rent == IF Past("sponsorATAs") THEN frame["cost"] ELSE 0

(* But for what is in hand, fees and rent, the user has what was there at landing. *)
TraderAccounts ==
  pc > 0 =>
    /\ cur.route \in ChainedRoutes =>
         Position(led) = Position(saved) - OwnCosts + Rent + InHand
    /\ cur.route \in SPLRoutes =>
         /\ led.quote = saved.quote + InHand
         /\ Position(led) = Position(saved) - OwnCosts

(* A sponsored sale notes the balance it landed with, and its repay leaves that much. *)
SaleAccounts ==
  pc > 0 /\ cur.sponsored /\ cur.route = "sell" =>
    /\ led.wsol = saved.wsol /\ led.atas = saved.atas
    /\ IF Some(Lets) THEN frame["before"] = saved.user ELSE led.user = saved.user
    /\ Past("repay") => led.user >= saved.user

SizingRoutes == {"sellBridge", "sellBuy"}

(* Hop 2 was sized from the least that hop 1 may pay out. *)
Sized(tx) ==
  tx.route \in SizingRoutes =>
    tx.sized = tx.minOut - ApplyBPS(tx.minOut, FeeBps) - QuoteDeduction(tx.route)

AllSized == (\A tx \in pending : Sized(tx)) /\ (pc > 0 => Sized(cur))

(* What each slot of a sponsored sale that continues holds. *)
HopMeasured ==
  pc > 0 /\ cur.sponsored /\ cur.route \in SizingRoutes =>
    /\ Some(Lets) /\ ~Some(Fills) => led.user = frame["before"]
    /\ Some(Fills) /\ ~Some(Deltas) => led.user - frame["before"] >= cur.minOut
    /\ Some(Deltas) => frame["delta"] >= cur.minOut
    /\ Some(Fees) => frame["net"] = frame["delta"] - ApplyBPS(frame["delta"], FeeBps)
    /\ Past("sponsorATAs") => frame["cost"] <= ATARent * Cardinality(AtasOf(cur.route))
    /\ Past("deduct") => frame["spend"] = frame["net"] - Settle

TInv == SlotsFresh /\ TraderAccounts /\ SaleAccounts /\ AllSized /\ HopMeasured

-----------------------------------------------------------------------------
(* The shape of the trading plans: the stages a trade goes through.        *)

Stage(step) ==
  CASE step = "userATAs" -> 0
    [] step = "reset" -> 1
    [] step = "sponsorATAs" -> 2
    [] step \in Lets -> 3
    [] step \in Fills -> 4
    [] step \in Deltas -> 5
    [] step \in Fees -> 6
    [] step \in {"closeWsol", "zeroRent"} -> 7
    [] step \in {"deduct", "repay"} -> 8
    [] step = "wrapSpend" -> 9
    [] step \in Outlays -> 10
    [] OTHER -> 11

TradeSteps(tx) ==
  (CASE tx.route = "sellSPL" -> {"letQuote", "quoteIn", "deltaQuote", "feeQuote", "spendQuote"}
     [] tx.route = "bridgeBuySPL" -> {"letQuote", "quoteIn", "deltaQuote", "spendQuote"}
     [] tx.route = "bridgeBuy" -> {"letWsol", "bridgeIn", "deltaWsol", "closeWsol", "buy"}
     [] OTHER -> {"letUser", "sell", "deltaUser", "fee", "wrapSpend", "bridgeOut", "buy"})
  \cup (IF ~tx.sponsored THEN {"userATAs"}
        ELSE IF tx.route = "sell" THEN {"zeroRent", "repay"}
        ELSE IF tx.route \in ChainedRoutes THEN {"sponsorATAs", "deduct"} ELSE {})
  \cup {"reset", "tip"}

(* The stages come in order, none twice, and none that a later one needs is left out. *)
Threaded(tx, p) ==
  \A i \in 1..Len(p) :
    /\ p[i] \in TradeSteps(tx)
    /\ \A j \in 1..(i - 1) : Stage(p[j]) < Stage(p[i])
    /\ Stage(p[i]) > 1 => Before("reset", p, i)
    /\ Stage(p[i]) > 2 /\ tx.sponsored /\ tx.route # "sell" => Before("sponsorATAs", p, i)
    /\ Stage(p[i]) > 3 => \E s \in Lets : Before(s, p, i)
    /\ Stage(p[i]) > 4 => \E s \in Fills : Before(s, p, i)
    /\ Stage(p[i]) > 5 => \E s \in Deltas : Before(s, p, i)
    /\ Stage(p[i]) > 6 /\ tx.route \notin {"bridgeBuy", "bridgeBuySPL"} =>
         \E s \in Fees : Before(s, p, i)
    /\ Stage(p[i]) > 8 /\ tx.sponsored /\ tx.route # "sell" => Before("deduct", p, i)
    /\ Stage(p[i]) > 10 /\ tx.route # "sell" => \E s \in Outlays : Before(s, p, i)

(* It ends with hop 2 paid for, or a sale repaid. *)
Concluded(tx, p) ==
  /\ tx.route \in HopRoutes =>
       /\ \E i \in 1..Len(p) : p[i] \in Outlays
       /\ \E i \in 1..Len(p) : p[i] = "tip"
  /\ tx.route \in ChainedRoutes /\ tx.sponsored =>
       \E i \in 1..Len(p) : p[i] = "sponsorATAs"
  /\ tx.route = "sell" /\ tx.sponsored => \E i \in 1..Len(p) : p[i] = "repay"

TradeShaped(tx) == Threaded(tx, Plan(tx)) /\ (Wired(tx) => Concluded(tx, Plan(tx)))

LEMMA TradeShape == \A tx \in Tx : tx.route \in TradeRoutes => TradeShaped(tx)
<1> SUFFICES ASSUME NEW tx \in Tx, tx.route \in TradeRoutes PROVE TradeShaped(tx) OBVIOUS
<1> USE DEF HopRoutes, ChainedRoutes, SPLRoutes
<1>1. CASE tx.sponsored /\ tx.route = "sell"
  <2> DEFINE p == <<"reset", "letUser", "sell", "deltaUser", "fee",
                  "zeroRent", "repay", "tip">>
             q == <<1, 3, 4, 5, 6, 7, 8, 11>>
  <2>1. Plan(tx) = p BY <1>1 DEF Plan, SponsoredPlan, SelfFundedPlan
  <2>2. \A i \in 1..Len(p) : p[i] \in TradeSteps(tx) BY <1>1 DEF TradeSteps
  <2>3. \A i \in 1..Len(p) : Stage(p[i]) = q[i]
    BY DEF Stage, Lets, Fills, Deltas, Fees, Outlays
  <2>4. Threaded(tx, p)
    BY <1>1, <2>2, <2>3 DEF Threaded, Before, Lets, Fills, Deltas, Fees, Outlays
  <2>5. Concluded(tx, p) BY <1>1 DEF Concluded, Outlays
  <2> QED BY <2>1, <2>4, <2>5 DEF TradeShaped
<1>2. CASE tx.sponsored /\ tx.route = "sellBridge"
  <2> DEFINE p == <<"reset", "sponsorATAs", "letUser", "sell", "deltaUser",
                  "fee", "deduct", "wrapSpend", "bridgeOut", "tip">>
             q == <<1, 2, 3, 4, 5, 6, 8, 9, 10, 11>>
  <2>1. Plan(tx) = p BY <1>2 DEF Plan, SponsoredPlan, SelfFundedPlan
  <2>2. \A i \in 1..Len(p) : p[i] \in TradeSteps(tx) BY <1>2 DEF TradeSteps
  <2>3. \A i \in 1..Len(p) : Stage(p[i]) = q[i]
    BY DEF Stage, Lets, Fills, Deltas, Fees, Outlays
  <2>4. Threaded(tx, p)
    BY <1>2, <2>2, <2>3 DEF Threaded, Before, Lets, Fills, Deltas, Fees, Outlays
  <2>5. Concluded(tx, p) BY <1>2 DEF Concluded, Outlays
  <2> QED BY <2>1, <2>4, <2>5 DEF TradeShaped
<1>3. CASE tx.sponsored /\ tx.route = "sellBuy"
  <2> DEFINE p == <<"reset", "sponsorATAs", "letUser", "sell", "deltaUser",
                  "fee", "deduct", "buy", "tip">>
             q == <<1, 2, 3, 4, 5, 6, 8, 10, 11>>
  <2>1. Plan(tx) = p BY <1>3 DEF Plan, SponsoredPlan, SelfFundedPlan
  <2>2. \A i \in 1..Len(p) : p[i] \in TradeSteps(tx) BY <1>3 DEF TradeSteps
  <2>3. \A i \in 1..Len(p) : Stage(p[i]) = q[i]
    BY DEF Stage, Lets, Fills, Deltas, Fees, Outlays
  <2>4. Threaded(tx, p)
    BY <1>3, <2>2, <2>3 DEF Threaded, Before, Lets, Fills, Deltas, Fees, Outlays
  <2>5. Concluded(tx, p) BY <1>3 DEF Concluded, Outlays
  <2> QED BY <2>1, <2>4, <2>5 DEF TradeShaped
<1>4. CASE tx.sponsored /\ tx.route = "bridgeBuy"
  <2> DEFINE p == <<"reset", "sponsorATAs", "letWsol", "bridgeIn",
                  "deltaWsol", "closeWsol", "deduct", "buy", "tip">>
             q == <<1, 2, 3, 4, 5, 7, 8, 10, 11>>
  <2>1. Plan(tx) = p BY <1>4 DEF Plan, SponsoredPlan, SelfFundedPlan
  <2>2. \A i \in 1..Len(p) : p[i] \in TradeSteps(tx) BY <1>4 DEF TradeSteps
  <2>3. \A i \in 1..Len(p) : Stage(p[i]) = q[i]
    BY DEF Stage, Lets, Fills, Deltas, Fees, Outlays
  <2>4. Threaded(tx, p)
    BY <1>4, <2>2, <2>3 DEF Threaded, Before, Lets, Fills, Deltas, Fees, Outlays
  <2>5. Concluded(tx, p) BY <1>4 DEF Concluded, Outlays
  <2> QED BY <2>1, <2>4, <2>5 DEF TradeShaped
<1>5. CASE ~tx.sponsored /\ tx.route = "sell"
  <2> DEFINE p == <<"reset", "letUser", "sell", "deltaUser", "fee", "tip">>
             q == <<1, 3, 4, 5, 6, 11>>
  <2>1. Plan(tx) = p BY <1>5 DEF Plan, SponsoredPlan, SelfFundedPlan
  <2>2. \A i \in 1..Len(p) : p[i] \in TradeSteps(tx) BY <1>5 DEF TradeSteps
  <2>3. \A i \in 1..Len(p) : Stage(p[i]) = q[i]
    BY DEF Stage, Lets, Fills, Deltas, Fees, Outlays
  <2>4. Threaded(tx, p)
    BY <1>5, <2>2, <2>3 DEF Threaded, Before, Lets, Fills, Deltas, Fees, Outlays
  <2>5. Concluded(tx, p) BY <1>5 DEF Concluded, Outlays
  <2> QED BY <2>1, <2>4, <2>5 DEF TradeShaped
<1>6. CASE ~tx.sponsored /\ tx.route = "sellBridge"
  <2> DEFINE p == <<"userATAs", "reset", "letUser", "sell", "deltaUser",
                  "fee", "wrapSpend", "bridgeOut", "tip">>
             q == <<0, 1, 3, 4, 5, 6, 9, 10, 11>>
  <2>1. Plan(tx) = p BY <1>6 DEF Plan, SponsoredPlan, SelfFundedPlan
  <2>2. \A i \in 1..Len(p) : p[i] \in TradeSteps(tx) BY <1>6 DEF TradeSteps
  <2>3. \A i \in 1..Len(p) : Stage(p[i]) = q[i]
    BY DEF Stage, Lets, Fills, Deltas, Fees, Outlays
  <2>4. Threaded(tx, p)
    BY <1>6, <2>2, <2>3 DEF Threaded, Before, Lets, Fills, Deltas, Fees, Outlays
  <2>5. Concluded(tx, p) BY <1>6 DEF Concluded, Outlays
  <2> QED BY <2>1, <2>4, <2>5 DEF TradeShaped
<1>7. CASE ~tx.sponsored /\ tx.route = "sellBuy"
  <2> DEFINE p == <<"userATAs", "reset", "letUser", "sell", "deltaUser",
                  "fee", "buy", "tip">>
             q == <<0, 1, 3, 4, 5, 6, 10, 11>>
  <2>1. Plan(tx) = p BY <1>7 DEF Plan, SponsoredPlan, SelfFundedPlan
  <2>2. \A i \in 1..Len(p) : p[i] \in TradeSteps(tx) BY <1>7 DEF TradeSteps
  <2>3. \A i \in 1..Len(p) : Stage(p[i]) = q[i]
    BY DEF Stage, Lets, Fills, Deltas, Fees, Outlays
  <2>4. Threaded(tx, p)
    BY <1>7, <2>2, <2>3 DEF Threaded, Before, Lets, Fills, Deltas, Fees, Outlays
  <2>5. Concluded(tx, p) BY <1>7 DEF Concluded, Outlays
  <2> QED BY <2>1, <2>4, <2>5 DEF TradeShaped
<1>8. CASE ~tx.sponsored /\ tx.route = "bridgeBuy"
  <2> DEFINE p == <<"userATAs", "reset", "letWsol", "bridgeIn", "deltaWsol",
                  "closeWsol", "buy", "tip">>
             q == <<0, 1, 3, 4, 5, 7, 10, 11>>
  <2>1. Plan(tx) = p BY <1>8 DEF Plan, SponsoredPlan, SelfFundedPlan
  <2>2. \A i \in 1..Len(p) : p[i] \in TradeSteps(tx) BY <1>8 DEF TradeSteps
  <2>3. \A i \in 1..Len(p) : Stage(p[i]) = q[i]
    BY DEF Stage, Lets, Fills, Deltas, Fees, Outlays
  <2>4. Threaded(tx, p)
    BY <1>8, <2>2, <2>3 DEF Threaded, Before, Lets, Fills, Deltas, Fees, Outlays
  <2>5. Concluded(tx, p) BY <1>8 DEF Concluded, Outlays
  <2> QED BY <2>1, <2>4, <2>5 DEF TradeShaped
<1>9. CASE ~tx.sponsored /\ tx.route = "sellSPL"
  <2> DEFINE p == <<"userATAs", "reset", "letQuote", "quoteIn", "deltaQuote",
                  "feeQuote", "spendQuote", "tip">>
             q == <<0, 1, 3, 4, 5, 6, 10, 11>>
  <2>1. Plan(tx) = p BY <1>9 DEF Plan, SponsoredPlan, SelfFundedPlan
  <2>2. \A i \in 1..Len(p) : p[i] \in TradeSteps(tx) BY <1>9 DEF TradeSteps
  <2>3. \A i \in 1..Len(p) : Stage(p[i]) = q[i]
    BY DEF Stage, Lets, Fills, Deltas, Fees, Outlays
  <2>4. Threaded(tx, p)
    BY <1>9, <2>2, <2>3 DEF Threaded, Before, Lets, Fills, Deltas, Fees, Outlays
  <2>5. Concluded(tx, p) BY <1>9 DEF Concluded, Outlays
  <2> QED BY <2>1, <2>4, <2>5 DEF TradeShaped
<1>10. CASE ~tx.sponsored /\ tx.route = "bridgeBuySPL"
  <2> DEFINE p == <<"userATAs", "reset", "letQuote", "quoteIn", "deltaQuote",
                  "spendQuote", "tip">>
             q == <<0, 1, 3, 4, 5, 10, 11>>
  <2>1. Plan(tx) = p BY <1>10 DEF Plan, SponsoredPlan, SelfFundedPlan
  <2>2. \A i \in 1..Len(p) : p[i] \in TradeSteps(tx) BY <1>10 DEF TradeSteps
  <2>3. \A i \in 1..Len(p) : Stage(p[i]) = q[i]
    BY DEF Stage, Lets, Fills, Deltas, Fees, Outlays
  <2>4. Threaded(tx, p)
    BY <1>10, <2>2, <2>3 DEF Threaded, Before, Lets, Fills, Deltas, Fees, Outlays
  <2>5. Concluded(tx, p) BY <1>10 DEF Concluded, Outlays
  <2> QED BY <2>1, <2>4, <2>5 DEF TradeShaped
<1>11. CASE tx.sponsored /\ tx.route \in SPLRoutes
  <2>1. Plan(tx) = <<>> BY <1>11 DEF Plan, SponsoredPlan
  <2>2. ~Wired(tx) BY <1>11 DEF Wired, SponsoredRoutes
  <2> QED BY <2>1, <2>2 DEF TradeShaped, Threaded
<1> QED BY <1>1, <1>2, <1>3, <1>4, <1>5, <1>6, <1>7, <1>8, <1>9, <1>10, <1>11 DEF TradeRoutes

-----------------------------------------------------------------------------
(* Where a trade stands when a step runs.                                  *)

LEMMA Stages ==
  /\ Stage("userATAs") = 0 /\ Stage("reset") = 1 /\ Stage("sponsorATAs") = 2
  /\ \A s \in Lets : Stage(s) = 3
  /\ \A s \in Fills : Stage(s) = 4
  /\ \A s \in Deltas : Stage(s) = 5
  /\ \A s \in Fees : Stage(s) = 6
  /\ Stage("closeWsol") = 7 /\ Stage("zeroRent") = 7
  /\ Stage("deduct") = 8 /\ Stage("repay") = 8 /\ Stage("wrapSpend") = 9
  /\ \A s \in Outlays : Stage(s) = 10
  /\ Stage("tip") = 11
  /\ \A s : Stage(s) \in 0..11
BY DEF Stage, Lets, Fills, Deltas, Fees, Outlays

LEMMA SomeMoves ==
  ASSUME IInv, NEW step, At(step), NEW S
  PROVE  Some(S)' <=> Some(S) \/ step \in S
BY Motion DEF Some

LEMMA TradeMotion ==
  ASSUME IInv, NEW step, At(step), cur.route \in TradeRoutes
  PROVE  /\ step \in TradeSteps(cur)
         /\ \A s : Past(s) => Stage(s) < Stage(step) /\ s \in TradeSteps(cur)
         /\ Stage(step) > 1 => Past("reset")
         /\ Stage(step) > 2 /\ cur.sponsored /\ cur.route # "sell" => Past("sponsorATAs")
         /\ Stage(step) > 3 => Some(Lets)
         /\ Stage(step) > 4 => Some(Fills)
         /\ Stage(step) > 5 => Some(Deltas)
         /\ Stage(step) > 6 /\ cur.route \notin {"bridgeBuy", "bridgeBuySPL"} => Some(Fees)
         /\ Stage(step) > 8 /\ cur.sponsored /\ cur.route # "sell" => Past("deduct")
         /\ Stage(step) > 10 /\ cur.route # "sell" => Some(Outlays)
<1> DEFINE p == Plan(cur)
<1>1. cur \in Tx /\ pc \in 1..Len(p) /\ p[pc] = step /\ \A s : Past(s) <=> Before(s, p, pc)
  BY Motion
<1>2. Threaded(cur, p) BY <1>1, TradeShape DEF TradeShaped
<1> HIDE DEF p
<1>3. /\ step \in TradeSteps(cur)
      /\ \A j \in 1..(pc - 1) : Stage(p[j]) < Stage(step) /\ p[j] \in TradeSteps(cur)
  BY <1>1, <1>2 DEF Threaded
<1>4. \A s : Past(s) => Stage(s) < Stage(step) /\ s \in TradeSteps(cur)
  BY <1>1, <1>3 DEF Before
<1>5. /\ Stage(step) > 1 => Before("reset", p, pc)
      /\ Stage(step) > 2 /\ cur.sponsored /\ cur.route # "sell" => Before("sponsorATAs", p, pc)
      /\ Stage(step) > 3 => \E s \in Lets : Before(s, p, pc)
      /\ Stage(step) > 4 => \E s \in Fills : Before(s, p, pc)
      /\ Stage(step) > 5 => \E s \in Deltas : Before(s, p, pc)
      /\ Stage(step) > 6 /\ cur.route \notin {"bridgeBuy", "bridgeBuySPL"} =>
           \E s \in Fees : Before(s, p, pc)
      /\ Stage(step) > 8 /\ cur.sponsored /\ cur.route # "sell" => Before("deduct", p, pc)
      /\ Stage(step) > 10 /\ cur.route # "sell" => \E s \in Outlays : Before(s, p, pc)
  BY <1>1, <1>2 DEF Threaded
<1> QED BY <1>1, <1>3, <1>4, <1>5 DEF Some

(* Nothing of the step's own stage or a later one is past. *)
LEMMA NotYet ==
  ASSUME IInv, NEW step, At(step), cur.route \in TradeRoutes
  PROVE  /\ Stage(step) <= 2 => ~Past("sponsorATAs")
         /\ Stage(step) <= 3 => ~Some(Lets)
         /\ Stage(step) <= 4 => ~Some(Fills)
         /\ Stage(step) <= 5 => ~Some(Deltas)
         /\ Stage(step) <= 6 => ~Some(Fees)
         /\ Stage(step) <= 8 => ~Past("deduct") /\ ~Past("repay")
         /\ Stage(step) <= 10 => ~Some(Outlays)
         /\ ~Past("tip")
<1>1. \A s : Past(s) => Stage(s) < Stage(step) BY TradeMotion
<1> QED BY <1>1, Stages DEF Some

(* A binding step of a trade finds its slot free, and changes no other. *)
LEMMA FreshBind ==
  ASSUME IInv, TInv, NEW step, At(step), cur.route \in TradeRoutes,
         NEW slot \in Slots, step \in BindersOf[slot],
         NEW x \in Nat, frame' = Bind(frame, slot, x)
  PROVE  frame'[slot] = x /\ \A s \in Slots : s # slot => frame'[s] = frame[s]
<1>1. BindersOf[slot] \in {Lets, Deltas, Fees, {"deduct"}, Measures} BY DEF BindersOf, Slots
<1>2. Past("reset")
  BY <1>1, TradeMotion, Stages DEF Measures
<1>3. ~Some(BindersOf[slot])
  <2>1. CASE step \in Measures
    <3>1. step = "sponsorATAs" => ~Past("sponsorATAs") /\ ~Past("zeroRent")
      BY TradeMotion, Stages
    <3>2. step = "zeroRent" => ~Past("zeroRent") BY TradeMotion, Stages
    <3>3. step = "zeroRent" => ~Past("sponsorATAs")
      BY TradeMotion DEF TradeSteps, TradeRoutes, HopRoutes, ChainedRoutes, SPLRoutes
    <3>4. ~Some(Measures) BY <2>1, <3>1, <3>2, <3>3 DEF Some, Measures
    <3>5. BindersOf[slot] = Measures
      BY <1>1, <2>1 DEF Measures, Lets, Deltas, Fees
    <3> QED BY <3>4, <3>5
  <2>2. CASE step \notin Measures
    <3>1. \A s \in BindersOf[slot] : Stage(s) = Stage(step) BY <1>1, <2>2, Stages
    <3> QED BY <3>1, TradeMotion, Stages DEF Some
  <2> QED BY <2>1, <2>2
<1>4. pc > 0 BY DEF At
<1>5. frame[slot] = Unbound BY <1>2, <1>3, <1>4 DEF TInv, SlotsFresh
<1>6. frame \in Frame BY DEF IInv, TypeOK
<1> QED BY <1>5, <1>6, BindSlot

(* What is in hand before and after a step. *)
LEMMA Hands ==
  ASSUME IInv, NEW step, At(step), cur.route \in HopRoutes
  PROVE  /\ Stage(step) < 3 => InHand = 0 /\ InHand' = 0
         /\ step \in Lets => InHand = 0 /\ InHand' = (HopBalance(led) - frame["before"])'
         /\ step \in Fills => /\ InHand = HopBalance(led) - frame["before"]
                              /\ InHand' = (HopBalance(led) - frame["before"])'
         /\ step \in Deltas => /\ InHand = HopBalance(led) - frame["before"]
                               /\ InHand' = frame'["delta"]
         /\ step \in Fees => InHand = frame["delta"] /\ InHand' = frame'["net"]
         /\ step = "deduct" => InHand = Proceeds /\ InHand' = frame'["spend"]
         /\ step \in Outlays => InHand = Spend /\ InHand' = 0
         /\ step \in {"closeWsol", "wrapSpend", "tip"} /\ UNCHANGED frame => InHand' = InHand
<1> USE DEF TradeRoutes
<1>1. /\ Some(Lets)' <=> Some(Lets) \/ step \in Lets
      /\ Some(Fills)' <=> Some(Fills) \/ step \in Fills
      /\ Some(Deltas)' <=> Some(Deltas) \/ step \in Deltas
      /\ Some(Fees)' <=> Some(Fees) \/ step \in Fees
      /\ Some(Outlays)' <=> Some(Outlays) \/ step \in Outlays
      /\ Past("deduct")' <=> Past("deduct") \/ step = "deduct"
  BY SomeMoves, Motion
<1>2. Stage(step) < 3 => step \notin Lets \cup Fills \cup Deltas \cup Fees \cup Outlays \cup {"deduct"}
  BY Stages
<1>3. \A s : Past(s) => Stage(s) < Stage(step) BY TradeMotion
<1>4. step \in Fees \cup Lets \cup Fills \cup Deltas => step \notin Outlays \cup {"deduct"}
  BY DEF Lets, Fills, Deltas, Fees, Outlays
<1>5. step \in Lets \cup Fills \cup Deltas => step \notin Fees
  BY DEF Lets, Fills, Deltas, Fees
<1>6. step \in Lets \cup Fills => step \notin Deltas BY DEF Lets, Fills, Deltas
<1>7. "deduct" \notin Outlays \cup Fees \cup Deltas BY DEF Outlays, Fees, Deltas
<1>8. cur.route \in {"bridgeBuy", "bridgeBuySPL"} => ~Some(Fees)
  BY TradeMotion DEF Some, Fees, TradeSteps, SPLRoutes
<1>9. step \in Outlays \cup {"deduct"} =>
        (cur.route \notin {"bridgeBuy", "bridgeBuySPL"} <=> Some(Fees)) /\ Some(Deltas)
  BY <1>8, Stages, TradeMotion
<1>10. Stage(step) < 3 => InHand = 0 /\ InHand' = 0
  BY <1>1, <1>2, Stages, NotYet DEF InHand
<1>11. step \in Lets => InHand = 0 /\ InHand' = (HopBalance(led) - frame["before"])'
  BY <1>1, <1>4, <1>5, <1>6, Stages, NotYet DEF InHand
<1>12. step \in Fills => /\ InHand = HopBalance(led) - frame["before"]
                         /\ InHand' = (HopBalance(led) - frame["before"])'
  BY <1>1, <1>4, <1>5, <1>6, Stages, NotYet, TradeMotion DEF InHand
<1>13. step \in Deltas => /\ InHand = HopBalance(led) - frame["before"]
                          /\ InHand' = frame'["delta"]
  BY <1>1, <1>4, <1>5, <1>6, Stages, NotYet, TradeMotion DEF InHand
<1>14. step \in Fees => InHand = frame["delta"] /\ InHand' = frame'["net"]
  BY <1>1, <1>4, Stages, NotYet, TradeMotion DEF InHand
<1>15. step = "deduct" => InHand = Proceeds /\ InHand' = frame'["spend"]
  BY <1>1, <1>7, <1>9, Stages, NotYet DEF InHand, Proceeds
<1>16. step \in Outlays => InHand = Spend /\ InHand' = 0
  <2>1. step \in Outlays => (cur.sponsored <=> Past("deduct"))
    <3>1. ~cur.sponsored => "deduct" \notin TradeSteps(cur) BY DEF TradeSteps
    <3> QED BY <3>1, Stages, TradeMotion DEF HopRoutes, ChainedRoutes, SPLRoutes
  <2> QED BY <1>1, <1>9, <2>1, Stages, NotYet DEF InHand, Spend, Proceeds
<1>17. step \in {"closeWsol", "wrapSpend", "tip"} /\ UNCHANGED frame => InHand' = InHand
  BY <1>1, Stages, TradeMotion DEF InHand
<1> QED BY <1>10, <1>11, <1>12, <1>13, <1>14, <1>15, <1>16, <1>17
-----------------------------------------------------------------------------
(* How a step moves the user's SOL.                                        *)

LEMMA PositionMoves ==
  ASSUME NEW l \in Ledger
  PROVE  /\ Position(l) \in Nat
         /\ \A k \in Ledger : k.atas = l.atas =>
              Position(k) = Position(l) + (k.user + k.wsol) - (l.user + l.wsol)
         /\ \A k \in Ledger, A \in SUBSET ATAs : k.atas = l.atas \cup A =>
              Position(k) = Position(l) + (k.user + k.wsol) - (l.user + l.wsol)
                              + ATARent * Cardinality(A \ l.atas)
         /\ \A k \in Ledger : "wsol" \in l.atas /\ k.atas = l.atas \ {"wsol"} =>
              Position(k) = Position(l) + (k.user + k.wsol) - (l.user + l.wsol) - ATARent
<1>1. IsFiniteSet(ATAs)
  <2>1. IsFiniteSet({"wsol"} \cup {"quote"}) BY FS_Singleton, FS_Union
  <2>2. IsFiniteSet(({"wsol"} \cup {"quote"}) \cup {"out"}) BY <2>1, FS_Singleton, FS_Union
  <2>3. ATAs = ({"wsol"} \cup {"quote"}) \cup {"out"} BY DEF ATAs
  <2> QED BY <2>2, <2>3
<1>2. \A A \in SUBSET ATAs : IsFiniteSet(A) /\ Cardinality(A) \in Nat
  BY <1>1, FS_Subset, FS_CardinalityType
<1>3. \A A \in SUBSET ATAs : ATARent * Cardinality(A) \in Nat
  BY <1>2, ProductNat, ChainAssumption
<1>4. \A k \in Ledger : /\ k.user \in Nat /\ k.wsol \in Nat /\ k.atas \in SUBSET ATAs
                        /\ Position(k) = k.user + k.wsol + ATARent * Cardinality(k.atas)
  BY DEF Ledger, Position
<1>5. ASSUME NEW k \in Ledger, k.atas = l.atas
      PROVE  Position(k) = Position(l) + (k.user + k.wsol) - (l.user + l.wsol)
  <2> DEFINE held == ATARent * Cardinality(l.atas)
  <2>1. held \in Nat BY <1>3, <1>4
  <2>2. Position(k) = k.user + k.wsol + held /\ Position(l) = l.user + l.wsol + held
    BY <1>4, <1>5
  <2> HIDE DEF held
  <2> QED BY <1>4, <2>1, <2>2
<1>6. ASSUME NEW k \in Ledger, NEW A \in SUBSET ATAs, k.atas = l.atas \cup A
      PROVE  Position(k) = Position(l) + (k.user + k.wsol) - (l.user + l.wsol)
                             + ATARent * Cardinality(A \ l.atas)
  <2> DEFINE held == Cardinality(l.atas)
             new == Cardinality(A \ l.atas)
  <2>1. held \in Nat /\ new \in Nat BY <1>2, <1>4
  <2>2. Cardinality(k.atas) = held + new
    <3>1. k.atas = l.atas \cup (A \ l.atas) /\ l.atas \cap (A \ l.atas) = {} BY <1>6
    <3>2. IsFiniteSet(l.atas) /\ IsFiniteSet(A \ l.atas) BY <1>2, <1>4
    <3>3. Cardinality(l.atas \cup (A \ l.atas))
            = held + new - Cardinality(l.atas \cap (A \ l.atas))
      BY <3>2, FS_Union
    <3>4. Cardinality(l.atas \cap (A \ l.atas)) = 0 BY <3>1, FS_EmptySet
    <3> HIDE DEF held, new
    <3> QED BY <2>1, <3>1, <3>3, <3>4
  <2>3. Position(k) = k.user + k.wsol + ATARent * (held + new) BY <1>4, <2>2
  <2>4. Position(l) = l.user + l.wsol + ATARent * held BY <1>4
  <2> HIDE DEF held, new
  <2>5. ATARent * (held + new) = ATARent * held + ATARent * new BY <2>1, ChainAssumption
  <2>6. ATARent * held \in Nat /\ ATARent * new \in Nat BY <2>1, ProductNat, ChainAssumption
  <2>7. Position(k) = Position(l) + (k.user + k.wsol) - (l.user + l.wsol) + ATARent * new
    BY <1>4, <2>3, <2>4, <2>5, <2>6
  <2> QED BY <2>7 DEF new
<1>7. ASSUME NEW k \in Ledger, "wsol" \in l.atas, k.atas = l.atas \ {"wsol"}
      PROVE  Position(k) = Position(l) + (k.user + k.wsol) - (l.user + l.wsol) - ATARent
  <2> DEFINE held == Cardinality(l.atas)
  <2>1. held \in Nat /\ IsFiniteSet(l.atas) BY <1>2, <1>4
  <2>2. Cardinality(k.atas) = held - 1 BY <1>7, <2>1, FS_RemoveElement
  <2>3. Position(k) = k.user + k.wsol + ATARent * (held - 1) BY <1>4, <2>2
  <2>4. Position(l) = l.user + l.wsol + ATARent * held BY <1>4
  <2> HIDE DEF held
  <2>5. ATARent * (held - 1) = ATARent * held - ATARent BY <2>1, ChainAssumption
  <2>6. ATARent * held \in Nat BY <2>1, ProductNat, ChainAssumption
  <2> QED BY <1>4, <2>3, <2>4, <2>5, <2>6, ChainAssumption
<1>8. Position(l) \in Nat BY <1>3, <1>4
<1> QED BY <1>5, <1>6, <1>7, <1>8

LEMMA TradeTypes ==
  ASSUME IInv, pc > 0
  PROVE  /\ led \in Ledger /\ saved \in Ledger /\ frame \in Frame /\ cur \in Tx
         /\ led.user \in Nat /\ led.wsol \in Nat /\ led.quote \in Nat /\ led.atas \in SUBSET ATAs
         /\ saved.quote \in Nat /\ Position(led) \in Nat /\ Position(saved) \in Nat
         /\ HopBalance(led) \in Nat /\ OwnCosts \in Nat /\ Rent \in Nat
         /\ Some(Lets) => frame["before"] \in Nat
         /\ Some(Deltas) => frame["delta"] \in Nat
         /\ Some(Fees) => frame["net"] \in Nat
         /\ Past("deduct") => frame["spend"] \in Nat
         /\ InHand \in Int
<1>1. /\ led \in Ledger /\ saved \in Ledger /\ frame \in Frame /\ cur \in Tx
      /\ Position(led) \in Nat /\ Position(saved) \in Nat
  BY PositionMoves DEF IInv, TypeOK
<1>2. /\ led.user \in Nat /\ led.wsol \in Nat /\ led.quote \in Nat /\ led.atas \in SUBSET ATAs
      /\ saved.quote \in Nat
  BY <1>1 DEF Ledger
<1>3. HopBalance(led) \in Nat BY <1>2 DEF HopBalance
<1>4. OwnCosts \in Nat BY <1>1, TxAmounts DEF OwnCosts
<1>5. Rent \in Nat BY DEF IInv, SlotsBound, Rent
<1>6. /\ Some(Lets) => frame["before"] \in Nat
      /\ Some(Deltas) => frame["delta"] \in Nat
      /\ Some(Fees) => frame["net"] \in Nat
      /\ Past("deduct") => frame["spend"] \in Nat
  BY DEF IInv, SlotsBound, Some, Lets, Deltas, Fees
<1>7. InHand \in Int BY <1>3, <1>6 DEF InHand
<1> QED BY <1>1, <1>2, <1>3, <1>4, <1>5, <1>6, <1>7

(* The accounts balance when the user's funds move by as much as what is in hand. *)
LEMMA TradeStep ==
  ASSUME IInv, TInv, NEW step, At(step), cur.route \in HopRoutes,
         step \notin {"sponsorATAs", "tip"},
         Past("sponsorATAs") => frame'["cost"] = frame["cost"],
         NEW d \in Int, InHand' = InHand + d,
         cur.route \in ChainedRoutes => Position(led') = Position(led) + d,
         cur.route \in SPLRoutes => led'.quote = led.quote + d /\ Position(led') = Position(led)
  PROVE  TraderAccounts'
<1>1. cur' = cur /\ saved' = saved /\ pc > 0 BY Motion DEF At
<1>2. Past("sponsorATAs")' <=> Past("sponsorATAs") BY Motion
<1>3. Past("tip")' <=> Past("tip") BY Motion
<1>4. OwnCosts' = OwnCosts /\ Rent' = Rent BY <1>1, <1>2, <1>3 DEF OwnCosts, Rent
<1>5. /\ cur.route \in ChainedRoutes =>
           Position(led') = Position(saved') - OwnCosts' + Rent' + InHand'
      /\ cur.route \in SPLRoutes =>
           led'.quote = saved'.quote + InHand' /\ Position(led') = Position(saved') - OwnCosts'
  BY <1>1, <1>4, TradeTypes DEF TInv, TraderAccounts
<1> QED BY <1>1, <1>5 DEF TraderAccounts, Position

(* Every step is one step of the plan, and leaves the slots it does not bind alone. *)
Only(step) ==
  /\ At(step)
  /\ step = "reset" => Reset
  /\ step # "reset" => \A slot \in Slots :
                         step \notin BindersOf[slot] => frame'[slot] = frame[slot]

LEMMA Untouched == ASSUME IInv, Step PROVE \E step \in Steps : Only(step)
<1>1. frame \in Frame BY DEF IInv, TypeOK
<1>2. ASSUME NEW step, At(step), step # "reset", UNCHANGED frame PROVE Only(step)
  BY <1>2 DEF Only
<1>3. ASSUME NEW step, At(step), NEW slot \in Slots, step \in BindersOf[slot], step # "reset",
             NEW x, frame' = Bind(frame, slot, x)
      PROVE  Only(step)
  <2>1. \A s \in Slots : s # slot => frame'[s] = frame[s] BY <1>1, <1>3 DEF Bind, Frame
  <2> QED BY <1>3, <2>1 DEF Only
<1> USE DEF Steps
<1>4. CASE Reset BY <1>4 DEF Reset, Only
<1>5. CASE \/ UserATAs \/ Sell \/ BridgeIn \/ CloseWsol \/ Repay \/ RepayWsol \/ RepayFixed
           \/ QuoteIn \/ SpendQuote \/ WrapSpend \/ BridgeOut \/ Buy \/ Unwrap \/ Wrap \/ Tip
  BY <1>2, <1>5
     DEF UserATAs, Sell, BridgeIn, CloseWsol, Repay, RepayWsol, RepayFixed, QuoteIn, SpendQuote,
         WrapSpend, BridgeOut, Buy, Unwrap, Wrap, Tip
<1> USE DEF Slots, BindersOf, Lets, Deltas, Fees, Measures
<1>6. CASE SponsorATAs BY <1>3, <1>6 DEF SponsorATAs
<1>7. CASE ZeroRent BY <1>3, <1>7 DEF ZeroRent
<1>8. CASE LetUser \/ LetWsol \/ LetQuote
  BY <1>3, <1>8 DEF LetUser, LetWsol, LetQuote
<1>9. CASE DeltaUser \/ DeltaWsol \/ DeltaQuote
  BY <1>3, <1>9 DEF DeltaUser, DeltaWsol, DeltaQuote, Delta
<1>10. CASE Fee \/ FeeQuote BY <1>3, <1>10 DEF Fee, FeeQuote
<1>11. CASE Deduct BY <1>3, <1>11 DEF Deduct
<1> QED BY <1>4, <1>5, <1>6, <1>7, <1>8, <1>9, <1>10, <1>11 DEF Step

(* No plan of a trade has the steps of the other routes. *)
LEMMA TradeOnly ==
  ASSUME IInv, cur.route \in TradeRoutes, Step
  PROVE  \/ Reset \/ UserATAs \/ SponsorATAs \/ ZeroRent \/ LetUser \/ LetWsol
         \/ Sell \/ BridgeIn \/ DeltaUser \/ DeltaWsol \/ Fee \/ CloseWsol
         \/ Deduct \/ Repay
         \/ LetQuote \/ QuoteIn \/ DeltaQuote \/ FeeQuote \/ SpendQuote
         \/ WrapSpend \/ BridgeOut \/ Buy \/ Tip
<1>1. ASSUME NEW step, At(step) PROVE step \notin {"repayWsol", "repayFixed", "unwrap", "wrap"}
  BY <1>1, TradeMotion DEF TradeSteps
<1> QED BY <1>1 DEF Step, RepayWsol, RepayFixed, Unwrap, Wrap

(* Which side of the ledger a route's hop 1 pays into. *)
LEMMA HopSteps ==
  ASSUME IInv, NEW step, At(step), cur.route \in HopRoutes
  PROVE  /\ step \in {"letUser", "sell", "deltaUser", "fee", "wrapSpend", "bridgeOut"} =>
              cur.route \in ChainedRoutes \ {"bridgeBuy"}
         /\ step \in {"letWsol", "bridgeIn", "deltaWsol", "closeWsol"} => cur.route = "bridgeBuy"
         /\ step \in {"letQuote", "quoteIn", "deltaQuote", "feeQuote", "spendQuote"} =>
              cur.route \in SPLRoutes
         /\ step \in {"sponsorATAs", "deduct"} => cur.sponsored /\ cur.route \in ChainedRoutes
         /\ step = "buy" => cur.route \in ChainedRoutes
         /\ step \notin {"zeroRent", "repay"}
         /\ ChainedRoutes \cap SPLRoutes = {}
BY TradeMotion DEF TradeSteps, TradeRoutes, HopRoutes, ChainedRoutes, SPLRoutes

LEMMA OpeningAccounts ==
  ASSUME IInv, IInv', TInv, cur.route \in HopRoutes, UserATAs \/ SponsorATAs \/ Reset
  PROVE  TraderAccounts'
<1> USE DEF TradeRoutes
<1>1. pc > 0 BY DEF UserATAs, SponsorATAs, Reset, At
<1>2. led' \in Ledger BY DEF IInv, TypeOK
<1>3. CASE Reset
  <2>1. At("reset") /\ led' = led BY <1>3 DEF Reset
  <2>2. InHand' = InHand + 0 BY <2>1, Hands, Stages
  <2>3. /\ Position(led') = Position(led) /\ Position(led') = Position(led) + 0
        /\ led'.quote = led.quote + 0
    BY <1>1, <2>1, TradeTypes
  <2>4. ~Past("sponsorATAs") BY <2>1, NotYet, Stages
  <2> QED BY <2>1, <2>2, <2>3, <2>4, TradeStep
<1> DEFINE A == AtasOf(cur.route)
<1>4. A \in SUBSET ATAs /\ Opened(led, cur) \in Nat BY <1>1, TradeTypes, OpenedNat
<1>5. CASE UserATAs
  <2>1. At("userATAs") /\ frame' = frame BY <1>5 DEF UserATAs
  <2>2. led' = [led EXCEPT !.user = @ - Opened(led, cur), !.atas = @ \cup A] BY <1>5 DEF UserATAs
  <2>3. InHand' = InHand + 0 BY <2>1, Hands, Stages
  <2>4. /\ led'.user = led.user - Opened(led, cur) /\ led'.wsol = led.wsol
        /\ led'.quote = led.quote /\ led'.atas = led.atas \cup A
    BY <1>1, <2>2, TradeTypes DEF Ledger
  <2>5. Position(led') = Position(led) + (led'.user + led'.wsol) - (led.user + led.wsol)
                           + Opened(led, cur)
    BY <1>1, <1>2, <1>4, <2>4, TradeTypes, PositionMoves DEF Opened
  <2>6. /\ Position(led') = Position(led) /\ Position(led') = Position(led) + 0
        /\ led'.quote = led.quote + 0
    BY <1>1, <1>4, <2>4, <2>5, TradeTypes
  <2> QED BY <2>1, <2>3, <2>6, TradeStep
<1>6. CASE SponsorATAs
  <2> DEFINE cost == Opened(led, cur)
  <2>1. At("sponsorATAs") /\ frame' = Bind(frame, "cost", led.sponsor - led'.sponsor)
    BY <1>6 DEF SponsorATAs
  <2>2. led' = [led EXCEPT !.sponsor = @ - cost, !.atas = @ \cup A]
    BY <1>6 DEF SponsorATAs
  <2>3. /\ led'.user = led.user /\ led'.wsol = led.wsol /\ led'.quote = led.quote
        /\ led'.atas = led.atas \cup A /\ led.sponsor - led'.sponsor = cost
    BY <1>1, <1>4, <2>2, TradeTypes DEF Ledger
  <2>4. frame'["cost"] = cost
    BY <1>4, <2>1, <2>3, FreshBind DEF BindersOf, Measures, Slots
  <2>5. Position(led') = Position(led) + (led'.user + led'.wsol) - (led.user + led.wsol) + cost
    BY <1>1, <1>2, <1>4, <2>3, TradeTypes, PositionMoves DEF Opened
  <2>6. InHand = 0 /\ InHand' = 0 BY <2>1, Hands, Stages
  <2>7. cur' = cur /\ saved' = saved /\ ~Past("tip") /\ ~Past("sponsorATAs")
    BY <2>1, Motion, NotYet, Stages
  <2>8. ~Past("tip")' /\ Past("sponsorATAs")' BY <2>1, <2>7, Motion
  <2>9. OwnCosts' = OwnCosts BY <2>7, <2>8 DEF OwnCosts
  <2>10. Rent = 0 /\ Rent' = cost BY <2>4, <2>7, <2>8 DEF Rent
  <2>11. cur.route \in ChainedRoutes /\ cur.route \notin SPLRoutes BY <2>1, HopSteps
  <2>12. Position(led) = Position(saved) - OwnCosts + Rent + InHand
    BY <1>1, <2>11 DEF TInv, TraderAccounts
  <2> HIDE DEF cost
  <2>13. Position(led') = Position(saved) - OwnCosts + cost + 0
    BY <1>1, <1>4, <2>3, <2>5, <2>6, <2>10, <2>12, TradeTypes DEF cost
  <2>14. Position(led)' = Position(saved)' - OwnCosts' + Rent' + InHand'
    BY <2>6, <2>7, <2>9, <2>10, <2>13 DEF Position
  <2> QED BY <2>7, <2>11, <2>14 DEF TraderAccounts
<1> QED BY <1>3, <1>5, <1>6

LEMMA NotingAccounts ==
  ASSUME IInv, IInv', TInv, cur.route \in HopRoutes, LetUser \/ LetWsol \/ LetQuote
  PROVE  TraderAccounts'
<1> USE DEF TradeRoutes
<1>1. pc > 0 /\ led' = led BY DEF LetUser, LetWsol, LetQuote, At
<1>2. PICK step \in Lets : At(step) /\ frame' = Bind(frame, "before", HopBalance(led))
  <2>1. CASE LetUser BY <2>1, HopSteps DEF LetUser, Lets, HopBalance
  <2>2. CASE LetWsol BY <2>2, HopSteps DEF LetWsol, Lets, HopBalance, ChainedRoutes
  <2>3. CASE LetQuote BY <2>3, HopSteps DEF LetQuote, Lets, HopBalance, SPLRoutes
  <2> QED BY <2>1, <2>2, <2>3
<1>3. HopBalance(led) \in Nat BY <1>1, TradeTypes
<1>4. frame'["before"] = HopBalance(led) /\ frame'["cost"] = frame["cost"]
  BY <1>2, <1>3, FreshBind DEF BindersOf, Slots
<1>5. HopBalance(led)' = HopBalance(led) BY <1>1, <1>2, Motion DEF HopBalance
<1>6. InHand' = InHand + 0 BY <1>2, <1>3, <1>4, <1>5, Hands
<1>7. Position(led') = Position(led) /\ Position(led') = Position(led) + 0 /\ led'.quote = led.quote + 0
  BY <1>1, TradeTypes
<1>8. step \notin {"sponsorATAs", "tip"} BY DEF Lets
<1> QED BY <1>2, <1>4, <1>6, <1>7, <1>8, TradeStep

LEMMA FillingAccounts ==
  ASSUME IInv, IInv', TInv, cur.route \in HopRoutes, Sell \/ BridgeIn \/ QuoteIn
  PROVE  TraderAccounts'
<1> USE DEF TradeRoutes
<1>1. pc > 0 /\ frame' = frame /\ led' \in Ledger
  BY DEF Sell, BridgeIn, QuoteIn, At, IInv, TypeOK
<1>2. PICK step \in Fills, out \in Nat :
        /\ At(step)
        /\ HopBalance(led') = HopBalance(led) + out
        /\ cur.route \in ChainedRoutes => Position(led') = Position(led) + out
        /\ cur.route \in SPLRoutes =>
             led'.quote = led.quote + out /\ Position(led') = Position(led)
  <2>1. CASE Sell
    <3>1. PICK out \in Outs : led' = [led EXCEPT !.user = @ + out] BY <2>1 DEF Sell
    <3>2. At("sell") /\ out \in Nat BY <2>1, ChainAssumption DEF Sell
    <3>3. led'.user = led.user + out /\ led'.wsol = led.wsol /\ led'.atas = led.atas
      BY <1>1, <3>1, TradeTypes DEF Ledger
    <3>4. Position(led') = Position(led) + out
      BY <1>1, <3>2, <3>3, TradeTypes, PositionMoves
    <3> QED BY <3>2, <3>3, <3>4, HopSteps DEF Fills, HopBalance
  <2>2. CASE BridgeIn
    <3>1. PICK out \in Outs : led' = [led EXCEPT !.wsol = @ + out] BY <2>2 DEF BridgeIn
    <3>2. At("bridgeIn") /\ out \in Nat BY <2>2, ChainAssumption DEF BridgeIn
    <3>3. led'.user = led.user /\ led'.wsol = led.wsol + out /\ led'.atas = led.atas
      BY <1>1, <3>1, TradeTypes DEF Ledger
    <3>4. Position(led') = Position(led) + out
      BY <1>1, <3>2, <3>3, TradeTypes, PositionMoves
    <3> QED BY <3>2, <3>3, <3>4, HopSteps DEF Fills, HopBalance, SPLRoutes
  <2>3. CASE QuoteIn
    <3>1. PICK out \in Outs : led' = [led EXCEPT !.quote = @ + out] BY <2>3 DEF QuoteIn
    <3>2. At("quoteIn") /\ out \in Nat BY <2>3, ChainAssumption DEF QuoteIn
    <3>3. /\ led'.user = led.user /\ led'.wsol = led.wsol /\ led'.atas = led.atas
          /\ led'.quote = led.quote + out
      BY <1>1, <3>1, TradeTypes DEF Ledger
    <3>4. Position(led') = Position(led)
      BY <1>1, <3>2, <3>3, TradeTypes, PositionMoves
    <3> QED BY <3>2, <3>3, <3>4, HopSteps DEF Fills, HopBalance, SPLRoutes
  <2> QED BY <2>1, <2>2, <2>3
<1>3. HopBalance(led)' = HopBalance(led') BY <1>2, Motion DEF HopBalance
<1>4. InHand' = InHand + out
  <2>1. frame["before"] \in Nat BY <1>1, <1>2, TradeMotion, Stages, TradeTypes
  <2> QED BY <1>1, <1>2, <1>3, <2>1, Hands, TradeTypes
<1>5. step \notin {"sponsorATAs", "tip"} BY DEF Fills
<1> QED BY <1>1, <1>2, <1>4, <1>5, TradeStep

LEMMA MeasuringAccounts ==
  ASSUME IInv, IInv', TInv, cur.route \in HopRoutes, DeltaUser \/ DeltaWsol \/ DeltaQuote
  PROVE  TraderAccounts'
<1> USE DEF TradeRoutes
<1> DEFINE found == HopBalance(led) - frame["before"]
<1>1. pc > 0 /\ led' = led BY DEF DeltaUser, DeltaWsol, DeltaQuote, Delta, At
<1>2. PICK step \in Deltas : /\ At(step) /\ HopBalance(led) >= frame["before"]
                             /\ frame' = Bind(frame, "delta", found)
  <2>1. CASE DeltaUser BY <2>1, HopSteps DEF DeltaUser, Delta, Deltas, HopBalance
  <2>2. CASE DeltaWsol BY <2>2, HopSteps DEF DeltaWsol, Delta, Deltas, HopBalance, SPLRoutes
  <2>3. CASE DeltaQuote BY <2>3, HopSteps DEF DeltaQuote, Delta, Deltas, HopBalance, SPLRoutes
  <2> QED BY <2>1, <2>2, <2>3
<1>3. frame["before"] \in Nat BY <1>1, <1>2, TradeMotion, Stages, TradeTypes
<1>4. found \in Nat BY <1>1, <1>2, <1>3, TradeTypes
<1>5. frame'["delta"] = found /\ frame'["cost"] = frame["cost"]
  <2> HIDE DEF found
  <2> QED BY <1>2, <1>4, FreshBind DEF BindersOf, Slots
<1>6. InHand' = InHand + 0 BY <1>2, <1>4, <1>5, Hands
<1>7. Position(led') = Position(led) /\ Position(led') = Position(led) + 0 /\ led'.quote = led.quote + 0
  BY <1>1, TradeTypes
<1>8. step \notin {"sponsorATAs", "tip"} BY DEF Deltas
<1> QED BY <1>2, <1>5, <1>6, <1>7, <1>8, TradeStep

(* The fee is at most what it is taken from. *)
LEMMA FeeOfDelta ==
  ASSUME IInv, NEW step \in Fees, At(step), cur.route \in TradeRoutes
  PROVE  /\ frame["delta"] \in Nat
         /\ ApplyBPS(frame["delta"], FeeBps) \in Nat
         /\ frame["delta"] - ApplyBPS(frame["delta"], FeeBps) \in Nat
<1>1. pc > 0 BY DEF At
<1>2. frame["delta"] \in Nat BY <1>1, TradeMotion, Stages, TradeTypes
<1>3. FeeBps \in 0..Bps BY RateAssumption DEF Bps
<1>4. ApplyBPS(frame["delta"], FeeBps) \in 0..frame["delta"] BY <1>2, <1>3, ApplyBPSBounds
<1> QED BY <1>2, <1>4

LEMMA FeeAccounts ==
  ASSUME IInv, IInv', TInv, cur.route \in HopRoutes, Fee \/ FeeQuote
  PROVE  TraderAccounts'
<1> USE DEF TradeRoutes
<1> DEFINE fee == ApplyBPS(frame["delta"], FeeBps)
<1>1. pc > 0 /\ led' \in Ledger BY DEF Fee, FeeQuote, At, IInv, TypeOK
<1>2. PICK step \in Fees : At(step) /\ frame' = Bind(frame, "net", frame["delta"] - fee)
  BY Zenon DEF Fee, FeeQuote, Fees
<1>3. fee \in Nat /\ frame["delta"] \in Nat /\ frame["delta"] - fee \in Nat BY <1>2, FeeOfDelta
<1>4. /\ cur.route \in ChainedRoutes => Position(led') = Position(led) - fee
      /\ cur.route \in SPLRoutes => led'.quote = led.quote - fee /\ Position(led') = Position(led)
  <2>1. CASE Fee
    <3>1. At("fee") /\ led' = [led EXCEPT !.user = @ - fee] BY <2>1 DEF Fee
    <3> HIDE DEF fee
    <3>2. led'.user = led.user - fee /\ led'.wsol = led.wsol /\ led'.atas = led.atas
      BY <1>1, <3>1, TradeTypes DEF Ledger
    <3>3. Position(led') = Position(led) - fee
      BY <1>1, <1>3, <3>2, TradeTypes, PositionMoves
    <3> QED BY <3>1, <3>3, HopSteps
  <2>2. CASE FeeQuote
    <3>1. At("feeQuote") /\ led' = [led EXCEPT !.quote = @ - fee] BY <2>2 DEF FeeQuote
    <3> HIDE DEF fee
    <3>2. /\ led'.user = led.user /\ led'.wsol = led.wsol /\ led'.atas = led.atas
          /\ led'.quote = led.quote - fee
      BY <1>1, <3>1, TradeTypes DEF Ledger
    <3>3. Position(led') = Position(led) BY <1>1, <3>2, TradeTypes, PositionMoves
    <3> QED BY <3>1, <3>2, <3>3, HopSteps
  <2> QED BY <2>1, <2>2
<1> HIDE DEF fee
<1>5. frame'["net"] = frame["delta"] - fee /\ frame'["cost"] = frame["cost"]
  BY <1>2, <1>3, FreshBind DEF BindersOf, Slots
<1>6. InHand' = InHand + (0 - fee) BY <1>2, <1>3, <1>5, Hands
<1>7. 0 - fee \in Int /\ Position(led) - fee = Position(led) + (0 - fee)
      /\ led.quote - fee = led.quote + (0 - fee)
  BY <1>1, <1>3, TradeTypes
<1>8. step \notin {"sponsorATAs", "tip"} BY DEF Fees
<1> QED BY <1>2, <1>4, <1>5, <1>6, <1>7, <1>8, TradeStep

(* Unwrapping what hop 1 produced, or wrapping what hop 2 takes, changes its form only. *)
LEMMA ChangingAccounts ==
  ASSUME IInv, IInv', TInv, cur.route \in HopRoutes, CloseWsol \/ WrapSpend
  PROVE  TraderAccounts'
<1> USE DEF TradeRoutes
<1>1. pc > 0 /\ led' \in Ledger /\ frame' = frame
  BY DEF CloseWsol, WrapSpend, At, IInv, TypeOK
<1>2. PICK step \in {"closeWsol", "wrapSpend"} : At(step) BY DEF CloseWsol, WrapSpend
<1>3. cur.route \notin SPLRoutes BY <1>2, HopSteps DEF SPLRoutes
<1>4. Position(led') = Position(led)
  <2>1. CASE CloseWsol
    <3>1. led' = [led EXCEPT !.user = @ + led.wsol + ATARent, !.wsol = 0, !.atas = @ \ {"wsol"}]
          /\ "wsol" \in led.atas
      BY <2>1 DEF CloseWsol
    <3>2. led'.user = led.user + led.wsol + ATARent /\ led'.wsol = 0 /\ led'.atas = led.atas \ {"wsol"}
      BY <1>1, <3>1, TradeTypes DEF Ledger
    <3>3. Position(led') = Position(led) + (led'.user + led'.wsol) - (led.user + led.wsol) - ATARent
      BY <1>1, <3>1, <3>2, TradeTypes, PositionMoves
    <3> QED BY <1>1, <3>2, <3>3, TradeTypes, ChainAssumption
  <2>2. CASE WrapSpend
    <3>1. led' = [led EXCEPT !.user = @ - Spend, !.wsol = @ + Spend] /\ At("wrapSpend")
      BY <2>2 DEF WrapSpend
    <3>2. Spend \in Nat BY <3>1, SpendNat
    <3>3. led'.user = led.user - Spend /\ led'.wsol = led.wsol + Spend /\ led'.atas = led.atas
      BY <1>1, <3>1, TradeTypes DEF Ledger
    <3> QED BY <1>1, <3>2, <3>3, TradeTypes, PositionMoves
  <2> QED BY <2>1, <2>2
<1>5. InHand' = InHand + 0 /\ Position(led') = Position(led) + 0
  BY <1>1, <1>2, <1>4, Hands, TradeTypes
<1> QED BY <1>1, <1>2, <1>3, <1>5, TradeStep

LEMMA DeductAccounts ==
  ASSUME IInv, IInv', TInv, cur.route \in HopRoutes, Deduct
  PROVE  TraderAccounts'
<1> USE DEF TradeRoutes
<1>1. pc > 0 /\ led' \in Ledger BY DEF Deduct, At, IInv, TypeOK
<1>2. At("deduct") /\ Proceeds >= Settle /\ frame' = Bind(frame, "spend", Proceeds - Settle)
      /\ led' = [led EXCEPT !.user = @ - Settle, !.treasury = @ + Settle]
  BY DEF Deduct, PayTreasury
<1>3. Settle \in Nat /\ Proceeds \in Nat BY <1>2, SettleNat, ProceedsNat DEF Repays
<1>4. Proceeds - Settle \in Nat BY <1>2, <1>3
<1>5. frame'["spend"] = Proceeds - Settle /\ frame'["cost"] = frame["cost"]
  BY <1>2, <1>4, FreshBind DEF BindersOf, Slots
<1>6. led'.user = led.user - Settle /\ led'.wsol = led.wsol /\ led'.atas = led.atas
  BY <1>1, <1>2, TradeTypes DEF Ledger
<1>7. Position(led') = Position(led) + (0 - Settle) /\ 0 - Settle \in Int
  BY <1>1, <1>3, <1>6, TradeTypes, PositionMoves
<1>8. InHand' = InHand + (0 - Settle) BY <1>2, <1>3, <1>5, Hands
<1>9. cur.route \notin SPLRoutes BY <1>2, HopSteps
<1> QED BY <1>2, <1>5, <1>7, <1>8, <1>9, TradeStep

LEMMA SpendingAccounts ==
  ASSUME IInv, IInv', TInv, cur.route \in HopRoutes, BridgeOut \/ Buy \/ SpendQuote
  PROVE  TraderAccounts'
<1> USE DEF TradeRoutes
<1>1. pc > 0 /\ led' \in Ledger /\ frame' = frame
  BY DEF BridgeOut, Buy, SpendQuote, At, IInv, TypeOK
<1>2. PICK step \in Outlays : At(step) BY DEF BridgeOut, Buy, SpendQuote, Outlays
<1>3. Spend \in Nat BY <1>2, SpendNat DEF Outlays
<1>4. /\ cur.route \in ChainedRoutes => Position(led') = Position(led) - Spend
      /\ cur.route \in SPLRoutes =>
           led'.quote = led.quote - Spend /\ Position(led') = Position(led)
  <2>1. CASE BridgeOut
    <3>1. At("bridgeOut") /\ led' = [led EXCEPT !.wsol = @ - Spend] BY <2>1 DEF BridgeOut
    <3>2. led'.user = led.user /\ led'.wsol = led.wsol - Spend /\ led'.atas = led.atas
      BY <1>1, <3>1, TradeTypes DEF Ledger
    <3>3. Position(led') = Position(led) - Spend
      BY <1>1, <1>3, <3>2, TradeTypes, PositionMoves
    <3> QED BY <3>1, <3>2, <3>3, HopSteps
  <2>2. CASE Buy
    <3>1. At("buy") /\ led' = [led EXCEPT !.user = @ - Spend] BY <2>2 DEF Buy
    <3>2. led'.user = led.user - Spend /\ led'.wsol = led.wsol /\ led'.atas = led.atas
      BY <1>1, <3>1, TradeTypes DEF Ledger
    <3>3. Position(led') = Position(led) - Spend
      BY <1>1, <1>3, <3>2, TradeTypes, PositionMoves
    <3> QED BY <3>1, <3>2, <3>3, HopSteps
  <2>3. CASE SpendQuote
    <3>1. At("spendQuote") /\ led' = [led EXCEPT !.quote = @ - Spend] BY <2>3 DEF SpendQuote
    <3>2. /\ led'.user = led.user /\ led'.wsol = led.wsol /\ led'.atas = led.atas
          /\ led'.quote = led.quote - Spend
      BY <1>1, <3>1, TradeTypes DEF Ledger
    <3>3. Position(led') = Position(led)
      BY <1>1, <1>3, <3>2, TradeTypes, PositionMoves
    <3> QED BY <3>1, <3>2, <3>3, HopSteps
  <2> QED BY <2>1, <2>2, <2>3
<1>5. InHand' = InHand + (0 - Spend) BY <1>2, <1>3, Hands
<1>6. 0 - Spend \in Int /\ Position(led) - Spend = Position(led) + (0 - Spend)
      /\ led.quote - Spend = led.quote + (0 - Spend)
  BY <1>1, <1>3, TradeTypes
<1>7. step \notin {"sponsorATAs", "tip"} BY DEF Outlays
<1> QED BY <1>1, <1>2, <1>4, <1>5, <1>6, <1>7, TradeStep

LEMMA TipAccounts ==
  ASSUME IInv, IInv', TInv, cur.route \in HopRoutes, Tip
  PROVE  TraderAccounts'
<1> USE DEF TradeRoutes
<1>1. pc > 0 /\ led' \in Ledger /\ frame' = frame /\ At("tip") BY DEF Tip, At, IInv, TypeOK
<1>2. InHand' = InHand BY <1>1, Hands
<1>3. cur' = cur /\ saved' = saved /\ ~Past("tip") /\ Past("tip")'
      /\ (Past("sponsorATAs")' <=> Past("sponsorATAs"))
  BY <1>1, Motion, NotYet
<1>4. TipOf(cur) \in Nat /\ FeeOf(cur) \in Nat BY <1>1, TradeTypes, TxAmounts
<1>5. Rent' = Rent BY <1>1, <1>3 DEF Rent
<1> DEFINE own == IF cur.sponsored THEN 0 ELSE TipOf(cur)
<1>6. OwnCosts' = OwnCosts + own BY <1>3, <1>4 DEF OwnCosts
<1>7. /\ led'.user = led.user - own /\ led'.wsol = led.wsol /\ led'.atas = led.atas
      /\ led'.quote = led.quote
  <2>1. CASE cur.sponsored
    <3>1. led' = [led EXCEPT !.sponsor = @ - TipOf(cur)] BY <2>1 DEF Tip
    <3> QED BY <1>1, <2>1, <3>1, TradeTypes DEF Ledger
  <2>2. CASE ~cur.sponsored
    <3>1. led' = [led EXCEPT !.user = @ - TipOf(cur)] BY <2>2 DEF Tip
    <3> QED BY <1>1, <2>2, <3>1, TradeTypes DEF Ledger
  <2> QED BY <2>1, <2>2
<1>8. own \in Nat BY <1>4
<1> HIDE DEF own
<1>9. Position(led') = Position(led) - own
  BY <1>1, <1>7, <1>8, TradeTypes, PositionMoves
<1>10. /\ cur.route \in ChainedRoutes =>
            Position(led)' = Position(saved)' - OwnCosts' + Rent' + InHand'
       /\ cur.route \in SPLRoutes =>
            led'.quote = saved'.quote + InHand' /\ Position(led)' = Position(saved)' - OwnCosts'
  <2>1. Position(led)' = Position(led') /\ Position(saved)' = Position(saved)
    BY <1>3 DEF Position
  <2> QED BY <1>1, <1>2, <1>3, <1>5, <1>6, <1>7, <1>8, <1>9, <2>1, TradeTypes
      DEF TInv, TraderAccounts
<1> QED BY <1>3, <1>10 DEF TraderAccounts

LEMMA TraderSteps ==
  ASSUME IInv, IInv', TInv, Step
  PROVE  TraderAccounts'
<1>1. cur' = cur /\ pc > 0 BY Untouched DEF Only, At
<1>2. CASE cur.route \notin HopRoutes BY <1>1, <1>2 DEF TraderAccounts, HopRoutes
<1>3. CASE cur.route \in HopRoutes
  <2>1. ~ZeroRent /\ ~Repay BY <1>3, HopSteps DEF ZeroRent, Repay
  <2> QED BY <1>3, <2>1, TradeOnly, OpeningAccounts, NotingAccounts, FillingAccounts,
             MeasuringAccounts, FeeAccounts, ChangingAccounts, DeductAccounts,
             SpendingAccounts, TipAccounts
          DEF TradeRoutes
<1> QED BY <1>2, <1>3

-----------------------------------------------------------------------------
(* The rest of the invariant.                                              *)

LEMMA FreshKept ==
  ASSUME IInv, TInv, NEW step, At(step), step # "reset",
         \A slot \in Slots : step \notin BindersOf[slot] => frame'[slot] = frame[slot]
  PROVE  SlotsFresh'
<1>1. cur' = cur /\ pc > 0 /\ (Past("reset")' <=> Past("reset")) BY Motion DEF At
<1>2. \A slot \in Slots : Some(BindersOf[slot])' <=> Some(BindersOf[slot]) \/ step \in BindersOf[slot]
  BY SomeMoves
<1>3. SUFFICES ASSUME cur.route \in TradeRoutes, Past("reset"), NEW slot \in Slots,
                      ~Some(BindersOf[slot])'
               PROVE  frame'[slot] = Unbound
  BY <1>1 DEF SlotsFresh
<1>4. ~Some(BindersOf[slot]) /\ step \notin BindersOf[slot] BY <1>2, <1>3
<1> QED BY <1>1, <1>3, <1>4 DEF TInv, SlotsFresh

LEMMA FreshSteps == ASSUME IInv, TInv, Step PROVE SlotsFresh'
<1>1. PICK step \in Steps : Only(step) BY Untouched
<1>2. CASE step = "reset"
  <2>1. frame' = [s \in Slots |-> Unbound] BY <1>1, <1>2 DEF Only, Reset
  <2> QED BY <2>1 DEF SlotsFresh
<1>3. CASE step # "reset" BY <1>1, <1>3, FreshKept DEF Only
<1> QED BY <1>2, <1>3

(* A sponsored sale: only the sale, the fee and the repay move the user's SOL. *)
LEMMA SaleStep ==
  ASSUME IInv, TInv, NEW step, At(step), cur.route = "sell", cur.sponsored,
         led'.wsol = led.wsol, led'.atas = led.atas,
         IF Some(Lets) THEN frame'["before"] = frame["before"]
         ELSE led'.user = led.user /\ (step \in Lets => frame'["before"] = led.user),
         Past("repay") \/ step = "repay" => led'.user >= saved.user
  PROVE  SaleAccounts'
<1>1. cur' = cur /\ saved' = saved /\ pc > 0 BY Motion DEF At
<1>2. Some(Lets)' <=> Some(Lets) \/ step \in Lets BY SomeMoves
<1>3. Past("repay")' <=> Past("repay") \/ step = "repay" BY Motion
<1>4. /\ led.wsol = saved.wsol /\ led.atas = saved.atas
      /\ IF Some(Lets) THEN frame["before"] = saved.user ELSE led.user = saved.user
  BY <1>1 DEF TInv, SaleAccounts
<1> QED BY <1>1, <1>2, <1>3, <1>4 DEF SaleAccounts

LEMMA SaleSteps == ASSUME IInv, IInv', TInv, Step PROVE SaleAccounts'
<1>1. cur' = cur /\ pc > 0 BY Untouched DEF Only, At
<1>2. SUFFICES ASSUME cur.route = "sell", cur.sponsored PROVE SaleAccounts'
  BY <1>1 DEF SaleAccounts
<1>3. cur.route \in TradeRoutes BY <1>2 DEF TradeRoutes
<1>4. \/ Reset \/ ZeroRent \/ LetUser \/ Sell \/ DeltaUser \/ Fee \/ Repay \/ Tip
  <2>1. ASSUME NEW step, At(step)
        PROVE  step \notin {"userATAs", "sponsorATAs", "letWsol", "letQuote", "bridgeIn", "quoteIn",
                            "deltaWsol", "deltaQuote", "feeQuote", "closeWsol", "deduct",
                            "spendQuote"}
    BY <1>2, <1>3, <2>1, TradeMotion DEF TradeSteps, SPLRoutes
  <2>2. ASSUME NEW step, At(step) PROVE step \notin {"wrapSpend", "bridgeOut", "buy"}
    <3>1. \A i \in 1..Len(Plan(cur)) : Plan(cur)[i] \notin {"wrapSpend", "bridgeOut", "buy"}
      BY <1>2 DEF Plan, SponsoredPlan
    <3> QED BY <2>2, <3>1, Motion
  <2> QED BY <1>3, <2>1, <2>2, TradeOnly
      DEF UserATAs, SponsorATAs, LetWsol, LetQuote, BridgeIn, QuoteIn, DeltaWsol, DeltaQuote,
          FeeQuote, CloseWsol, Deduct, SpendQuote, WrapSpend, BridgeOut, Buy
<1>5. led \in Ledger /\ led' \in Ledger /\ led.user \in Nat BY <1>1, TradeTypes DEF IInv, TypeOK
<1>6. saved.user \in Nat /\ frame \in Frame BY DEF IInv, TypeOK, Ledger
<1>7. CASE Reset
  <2>1. At("reset") /\ led' = led BY <1>7 DEF Reset
  <2>2. ~Some(Lets) /\ ~Past("repay") BY <1>3, <2>1, NotYet, Stages
  <2> QED BY <1>2, <2>1, <2>2, SaleStep DEF Lets
<1>8. CASE LetUser
  <2>1. At("letUser") /\ led' = led /\ frame' = Bind(frame, "before", led.user) BY <1>8 DEF LetUser
  <2>2. ~Some(Lets) /\ ~Past("repay") BY <1>3, <2>1, NotYet, Stages DEF Lets
  <2>3. frame'["before"] = led.user
    BY <1>3, <1>5, <2>1, FreshBind DEF BindersOf, Slots, Lets
  <2> QED BY <1>2, <2>1, <2>2, <2>3, SaleStep
<1>9. CASE ZeroRent \/ DeltaUser
  <2>1. PICK step \in {"zeroRent", "deltaUser"}, slot \in {"cost", "delta"} : \E x :
          At(step) /\ led' = led /\ frame' = Bind(frame, slot, x)
    BY <1>9 DEF ZeroRent, DeltaUser, Delta
  <2>2. Some(Lets) /\ ~Past("repay")
    BY <1>3, <2>1, NotYet, TradeMotion, Stages DEF Deltas
  <2>3. frame'["before"] = frame["before"] BY <1>6, <2>1 DEF Bind, Frame, Slots
  <2> QED BY <1>2, <2>1, <2>2, <2>3, SaleStep
<1>10. CASE Sell \/ Fee
  <2>1. PICK step \in {"sell", "fee"} : At(step) BY <1>10 DEF Sell, Fee
  <2>2. Some(Lets) /\ ~Past("repay")
    BY <1>3, <2>1, NotYet, TradeMotion, Stages DEF Fills, Fees
  <2>3. led'.wsol = led.wsol /\ led'.atas = led.atas BY <1>5, <1>10 DEF Sell, Fee, Ledger
  <2>4. frame'["before"] = frame["before"] BY <1>6, <1>10 DEF Sell, Fee, Bind, Frame, Slots
  <2> QED BY <1>2, <2>1, <2>2, <2>3, <2>4, SaleStep
<1>11. CASE Repay
  <2>1. At("repay") /\ led.user - frame["before"] >= Settle /\ frame' = frame
        /\ led' = [led EXCEPT !.user = @ - Settle, !.treasury = @ + Settle]
    BY <1>11 DEF Repay, PayTreasury
  <2>2. Some(Lets) BY <1>3, <2>1, TradeMotion, Stages
  <2>3. frame["before"] = saved.user BY <1>1, <1>2, <2>2 DEF TInv, SaleAccounts
  <2>4. Settle \in Nat BY <2>1, SettleNat DEF Repays
  <2>5. led'.user = led.user - Settle /\ led'.wsol = led.wsol /\ led'.atas = led.atas
    BY <1>5, <2>1 DEF Ledger
  <2>6. led'.user >= saved.user BY <1>5, <1>6, <2>1, <2>3, <2>4, <2>5
  <2> QED BY <1>2, <2>1, <2>2, <2>5, <2>6, SaleStep
<1>12. CASE Tip
  <2>1. At("tip") /\ frame' = frame /\ led' = [led EXCEPT !.sponsor = @ - TipOf(cur)]
    BY <1>2, <1>12 DEF Tip
  <2>2. Some(Lets) BY <1>3, <2>1, TradeMotion, Stages
  <2>3. led'.user = led.user /\ led'.wsol = led.wsol /\ led'.atas = led.atas
    BY <1>5, <2>1 DEF Ledger
  <2>4. Past("repay") => led'.user >= saved.user BY <1>1, <1>2, <2>3 DEF TInv, SaleAccounts
  <2> QED BY <1>2, <2>1, <2>2, <2>3, <2>4, SaleStep
<1> QED BY <1>4, <1>7, <1>8, <1>9, <1>10, <1>11, <1>12

(* What the slots of a sale that continues hold, after a step. *)
LEMMA MeasuredStep ==
  ASSUME IInv, TInv, NEW step, At(step), cur.sponsored, cur.route \in SizingRoutes,
         \A slot \in {"delta", "net", "spend", "cost"} :
           step # "reset" /\ step \notin BindersOf[slot] => frame'[slot] = frame[slot],
         step \in Lets => led'.user = frame'["before"],
         step \in Fills => led'.user - frame'["before"] >= cur.minOut,
         step \in Deltas => frame'["delta"] >= cur.minOut,
         step \in Fees => frame'["net"] = frame["delta"] - ApplyBPS(frame["delta"], FeeBps),
         step = "sponsorATAs" => frame'["cost"] <= ATARent * Cardinality(AtasOf(cur.route)),
         step = "deduct" => frame'["spend"] = frame["net"] - Settle
  PROVE  HopMeasured'
<1>0. cur.route \in TradeRoutes
  BY DEF SizingRoutes, TradeRoutes, HopRoutes, ChainedRoutes
<1>1. cur' = cur /\ pc > 0 BY Motion DEF At
<1>2. /\ Some(Lets)' <=> Some(Lets) \/ step \in Lets
      /\ Some(Fills)' <=> Some(Fills) \/ step \in Fills
      /\ Some(Deltas)' <=> Some(Deltas) \/ step \in Deltas
      /\ Some(Fees)' <=> Some(Fees) \/ step \in Fees
      /\ Past("deduct")' <=> Past("deduct") \/ step = "deduct"
      /\ Past("sponsorATAs")' <=> Past("sponsorATAs") \/ step = "sponsorATAs"
  BY SomeMoves, Motion
<1>3. (Stage(step) = 4 => step \in Fills) /\ (Stage(step) = 5 => step \in Deltas) BY DEF Stage
<1>4. \A s : Past(s) => Stage(s) < Stage(step) BY <1>0, TradeMotion
<1>5. Some(Lets)' /\ ~Some(Fills)' => led'.user = frame'["before"]
  <2>1. Some(Lets) => Stage(step) > 3 BY <1>4, Stages DEF Some
  <2> QED BY <1>0, <1>2, <1>3, <2>1, Stages, TradeMotion
<1>6. Some(Fills)' /\ ~Some(Deltas)' => led'.user - frame'["before"] >= cur.minOut
  <2>1. Some(Fills) => Stage(step) > 4 BY <1>4, Stages DEF Some
  <2> QED BY <1>0, <1>2, <1>3, <2>1, Stages, TradeMotion
<1>7. step = "reset" => /\ ~Some(Deltas) /\ ~Some(Fees) /\ ~Past("sponsorATAs") /\ ~Past("deduct")
                        /\ step \notin Deltas \cup Fees
  BY <1>0, NotYet, Stages DEF Deltas, Fees
<1>8. /\ step \in BindersOf["delta"] <=> step \in Deltas
      /\ step \in BindersOf["net"] <=> step \in Fees
      /\ step \in BindersOf["spend"] <=> step = "deduct"
      /\ step \in BindersOf["cost"] <=> step \in Measures
  BY DEF BindersOf
<1>9. step \in Measures => step = "sponsorATAs"
  BY <1>0, TradeMotion DEF TradeSteps, Measures, SizingRoutes, SPLRoutes
<1>10. /\ Some(Deltas) => frame["delta"] >= cur.minOut
       /\ Some(Fees) => frame["net"] = frame["delta"] - ApplyBPS(frame["delta"], FeeBps)
       /\ Past("sponsorATAs") => frame["cost"] <= ATARent * Cardinality(AtasOf(cur.route))
       /\ Past("deduct") => frame["spend"] = frame["net"] - Settle
  BY <1>1 DEF TInv, HopMeasured
<1>11. Some(Deltas)' => frame'["delta"] >= cur.minOut BY <1>2, <1>7, <1>8, <1>10
<1>12. Some(Fees)' => frame'["net"] = frame'["delta"] - ApplyBPS(frame'["delta"], FeeBps)
  <2>1. Some(Fees) => step \notin Deltas BY <1>0, NotYet, Stages
  <2>2. step \in Fees => step \notin Deltas /\ step # "reset" BY DEF Fees, Deltas
  <2> QED BY <1>2, <1>7, <1>8, <1>10, <2>1, <2>2
<1>13. Past("sponsorATAs")' => frame'["cost"] <= ATARent * Cardinality(AtasOf(cur.route))
  <2>1. Past("sponsorATAs") => step # "sponsorATAs" BY <1>4, Stages
  <2> QED BY <1>2, <1>7, <1>8, <1>9, <1>10, <2>1
<1>14. Past("deduct")' => frame'["spend"] = frame'["net"] - Settle'
  <2>1. Past("deduct") \/ step = "deduct" => step # "sponsorATAs" /\ step \notin Fees /\ step # "reset"
    BY <1>0, <1>4, NotYet, Stages DEF Fees
  <2>2. Past("deduct") => step # "deduct" BY <1>4, Stages
  <2>3. Past("deduct") \/ step = "deduct" => Settle' = Settle /\ frame'["net"] = frame["net"]
    BY <1>1, <1>8, <1>9, <2>1 DEF Settle
  <2> QED BY <1>2, <1>8, <1>10, <2>1, <2>2, <2>3
<1> QED BY <1>1, <1>5, <1>6, <1>11, <1>12, <1>13, <1>14 DEF HopMeasured

LEMMA OpenedBound ==
  ASSUME NEW l \in Ledger, NEW tx \in Tx
  PROVE  Opened(l, tx) <= ATARent * Cardinality(AtasOf(tx.route))
<1> DEFINE A == AtasOf(tx.route)
<1>1. IsFiniteSet(A)
  <2>1. \A a : IsFiniteSet({a}) BY FS_Singleton
  <2>2. IsFiniteSet({}) BY FS_EmptySet
  <2> DEFINE B == IF tx.route \in {"sellBridge", "bridgeBuy", "quoteSOL", "quoteWSOL", "wrap"}
                  THEN {"wsol"} ELSE {}
             C == IF tx.route \in SPLRoutes THEN {"quote"} ELSE {}
             D == IF tx.route \in ChainedRoutes \cup SPLRoutes THEN {"out"} ELSE {}
  <2>3. IsFiniteSet(B) /\ IsFiniteSet(C) /\ IsFiniteSet(D) BY <2>1, <2>2
  <2>4. A = B \cup C \cup D BY DEF AtasOf
  <2> HIDE DEF B, C, D
  <2>5. IsFiniteSet(B \cup C) BY <2>3, FS_Union
  <2> QED BY <2>3, <2>4, <2>5, FS_Union
<1>2. A \ l.atas \subseteq A OBVIOUS
<1> HIDE DEF A
<1>3. /\ Cardinality(A \ l.atas) \in Nat /\ Cardinality(A) \in Nat
      /\ Cardinality(A \ l.atas) <= Cardinality(A)
  BY <1>1, <1>2, FS_Subset, FS_CardinalityType
<1>4. ATARent * Cardinality(A \ l.atas) <= ATARent * Cardinality(A)
  BY <1>3, ProductMonotone, ChainAssumption
<1> QED BY <1>4 DEF Opened, A

LEMMA MeasuredSteps == ASSUME IInv, IInv', TInv, Step PROVE HopMeasured'
<1>1. PICK step \in Steps : Only(step) BY Untouched
<1>2. At(step) /\ cur' = cur /\ pc > 0 BY <1>1, Motion DEF Only, At
<1>3. SUFFICES ASSUME cur.sponsored, cur.route \in SizingRoutes PROVE HopMeasured'
  BY <1>2 DEF HopMeasured
<1>4. /\ cur.route \in TradeRoutes /\ cur.route \in HopRoutes
      /\ cur.route \notin {"bridgeBuy", "bridgeBuySPL", "sellSPL", "sell"}
  BY <1>3 DEF SizingRoutes, TradeRoutes, HopRoutes, ChainedRoutes, SPLRoutes
<1>5. \A s : At(s) => s = step BY <1>2, Motion
<1>6. led \in Ledger /\ led' \in Ledger /\ led.user \in Nat BY <1>2, TradeTypes DEF IInv, TypeOK
<1>7. cur \in Tx /\ cur.minOut \in Nat BY <1>2, Motion DEF Tx
<1>8. step \in {"reset", "sponsorATAs", "letUser", "sell", "deltaUser", "fee", "deduct",
               "wrapSpend", "bridgeOut", "buy", "tip"}
  BY <1>2, <1>3, <1>4, TradeMotion DEF TradeSteps
<1>9. /\ step = "letUser" => LetUser
      /\ step = "sell" => Sell
      /\ step = "deltaUser" => DeltaUser
      /\ step = "fee" => Fee
      /\ step = "sponsorATAs" => SponsorATAs
      /\ step = "deduct" => Deduct
  <2>1. \A s : s # step => ~At(s) BY <1>5
  <2> QED BY <1>8, <2>1
      DEF Step, Reset, UserATAs, SponsorATAs, ZeroRent, LetUser, LetWsol, Sell, BridgeIn,
          DeltaUser, DeltaWsol, Fee, CloseWsol, Deduct, Repay, RepayWsol, RepayFixed, LetQuote,
          QuoteIn, DeltaQuote, FeeQuote, SpendQuote, WrapSpend, BridgeOut, Buy, Unwrap, Wrap, Tip
<1>10. HopMeasured
  BY DEF TInv
<1>11. step = "letUser" => led'.user = frame'["before"]
  <2>1. step = "letUser" => led' = led /\ frame' = Bind(frame, "before", led.user)
    BY <1>9 DEF LetUser
  <2> QED BY <1>2, <1>4, <1>6, <2>1, FreshBind DEF BindersOf, Slots, Lets
<1>12. step = "sell" => led'.user - frame'["before"] >= cur.minOut
  <2>1. SUFFICES ASSUME step = "sell" PROVE led'.user - frame'["before"] >= cur.minOut OBVIOUS
  <2>2. PICK out \in Outs : out >= cur.minOut /\ led' = [led EXCEPT !.user = @ + out] /\ frame' = frame
    BY <1>9, <2>1 DEF Sell
  <2>3. Some(Lets) /\ ~Some(Fills)
    BY <1>2, <1>4, <2>1, NotYet, TradeMotion, Stages DEF Fills
  <2>4. led.user = frame["before"] BY <1>2, <1>3, <1>10, <2>3 DEF HopMeasured
  <2>5. out \in Nat /\ led'.user = led.user + out BY <1>6, <2>2, ChainAssumption DEF Ledger
  <2> QED BY <1>6, <1>7, <2>2, <2>4, <2>5
<1>13. step = "deltaUser" => frame'["delta"] >= cur.minOut
  <2>1. SUFFICES ASSUME step = "deltaUser" PROVE frame'["delta"] >= cur.minOut OBVIOUS
  <2>2. led.user >= frame["before"] /\ frame' = Bind(frame, "delta", led.user - frame["before"])
    BY <1>9, <2>1 DEF DeltaUser, Delta
  <2>3. Some(Lets) /\ Some(Fills) /\ ~Some(Deltas)
    BY <1>2, <1>4, <2>1, NotYet, TradeMotion, Stages DEF Deltas
  <2>4. frame["before"] \in Nat BY <1>2, <2>3, TradeTypes
  <2>5. led.user - frame["before"] \in Nat BY <1>6, <2>2, <2>4
  <2>6. frame'["delta"] = led.user - frame["before"]
    BY <1>2, <1>4, <2>1, <2>2, <2>5, FreshBind DEF BindersOf, Slots, Deltas
  <2> QED BY <1>2, <1>3, <1>10, <2>3, <2>6 DEF HopMeasured
<1>14. step = "fee" => frame'["net"] = frame["delta"] - ApplyBPS(frame["delta"], FeeBps)
  <2>1. SUFFICES ASSUME step = "fee"
                 PROVE  frame'["net"] = frame["delta"] - ApplyBPS(frame["delta"], FeeBps)
    OBVIOUS
  <2>2. frame' = Bind(frame, "net", frame["delta"] - ApplyBPS(frame["delta"], FeeBps))
    BY <1>9, <2>1 DEF Fee
  <2>3. frame["delta"] - ApplyBPS(frame["delta"], FeeBps) \in Nat
    BY <1>2, <1>4, <2>1, FeeOfDelta DEF Fees
  <2> QED BY <1>2, <1>4, <2>1, <2>2, <2>3, FreshBind DEF BindersOf, Slots, Fees
<1>15. step = "sponsorATAs" => frame'["cost"] <= ATARent * Cardinality(AtasOf(cur.route))
  <2>1. SUFFICES ASSUME step = "sponsorATAs"
                 PROVE  frame'["cost"] <= ATARent * Cardinality(AtasOf(cur.route))
    OBVIOUS
  <2> DEFINE cost == Opened(led, cur)
  <2>2. /\ frame' = Bind(frame, "cost", led.sponsor - led'.sponsor) /\ cost <= led.sponsor
        /\ led' = [led EXCEPT !.sponsor = @ - cost, !.atas = @ \cup AtasOf(cur.route)]
    BY <1>9, <2>1 DEF SponsorATAs
  <2>3. cost \in Nat /\ led.sponsor \in Nat BY <1>6, <1>7, OpenedNat DEF Ledger
  <2>4. cost <= ATARent * Cardinality(AtasOf(cur.route)) BY <1>6, <1>7, OpenedBound
  <2> HIDE DEF cost
  <2>5. led.sponsor - led'.sponsor = cost BY <1>6, <2>2, <2>3 DEF Ledger
  <2>6. frame'["cost"] = cost
    BY <1>2, <1>4, <2>1, <2>2, <2>3, <2>5, FreshBind DEF BindersOf, Slots, Measures
  <2> QED BY <2>4, <2>6
<1>16. step = "deduct" => frame'["spend"] = frame["net"] - Settle
  <2>1. SUFFICES ASSUME step = "deduct" PROVE frame'["spend"] = frame["net"] - Settle OBVIOUS
  <2>2. Proceeds >= Settle /\ frame' = Bind(frame, "spend", Proceeds - Settle)
    BY <1>9, <2>1 DEF Deduct
  <2>3. Settle \in Nat /\ Proceeds \in Nat BY <1>2, <2>1, SettleNat, ProceedsNat DEF Repays
  <2>4. Proceeds - Settle \in Nat BY <2>2, <2>3
  <2>5. Proceeds = frame["net"] BY <1>4 DEF Proceeds
  <2> QED BY <1>2, <1>4, <2>1, <2>2, <2>4, <2>5, FreshBind DEF BindersOf, Slots
<1>17. \A slot \in {"delta", "net", "spend", "cost"} :
         step # "reset" /\ step \notin BindersOf[slot] => frame'[slot] = frame[slot]
  BY <1>1 DEF Only, Slots
<1>18. /\ step \in Lets => step = "letUser"
       /\ step \in Fills => step = "sell"
       /\ step \in Deltas => step = "deltaUser"
       /\ step \in Fees => step = "fee"
  BY <1>8 DEF Lets, Fills, Deltas, Fees
<1> QED BY <1>2, <1>3, <1>11, <1>12, <1>13, <1>14, <1>15, <1>16, <1>17, <1>18, MeasuredStep

-----------------------------------------------------------------------------
(* Building, landing, ending, and the rest of the world.                   *)

LEMMA AtRest == ASSUME pc = 0 PROVE SlotsFresh /\ TraderAccounts /\ SaleAccounts /\ HopMeasured
BY DEF SlotsFresh, TraderAccounts, SaleAccounts, HopMeasured

LEMMA TradeBuilds ==
  ASSUME IInv, TInv,
         \/ \E route \in Offered \ SettlementRoutes, sp, mev \in BOOLEAN, q \in Outs :
              BuildSwap(route, sp, mev, q)
         \/ \E sp \in BOOLEAN, amt \in Outs, mode \in UnwrapModes : BuildUnwrap(sp, amt, mode)
         \/ \E amt \in Outs : BuildWrap(amt)
  PROVE  TInv'
<1>1. ASSUME NEW tx, pc = 0, Issue(tx), Sized(tx) PROVE TInv'
  <2>1. pc' = 0 /\ pending' = pending \cup {tx} /\ cur' = cur BY <1>1 DEF Issue
  <2>2. SlotsFresh' /\ TraderAccounts' /\ SaleAccounts' /\ HopMeasured' BY <2>1 DEF SlotsFresh, TraderAccounts, SaleAccounts, HopMeasured
  <2>3. AllSized' BY <1>1, <2>1 DEF TInv, AllSized
  <2> QED BY <2>2, <2>3 DEF TInv
<1>2. ASSUME NEW route \in Offered \ SettlementRoutes, NEW sp \in BOOLEAN, NEW mev \in BOOLEAN,
             NEW q \in Outs, BuildSwap(route, sp, mev, q)
      PROVE  TInv'
  <2> DEFINE sized == IF route \in ChainedRoutes THEN SizedSecondHop(route, q) ELSE 0
             tx == NewTx(route, sp, mev, 0, MinOut(q, SlippageBps), sized, "partial")
  <2>1. pc = 0 /\ Issue(tx) BY <1>2 DEF BuildSwap
  <2>2. /\ tx.route = route /\ tx.sized = sized /\ tx.minOut = MinOut(q, SlippageBps)
    BY DEF NewTx
  <2>3. Sized(tx)
    <3>1. SUFFICES ASSUME route \in SizingRoutes
                   PROVE  tx.sized = tx.minOut - ApplyBPS(tx.minOut, FeeBps) - QuoteDeduction(route)
      BY <2>2 DEF Sized
    <3>2. sized = SizedSecondHop(route, q) /\ route # "bridgeBuy"
      BY <3>1 DEF SizingRoutes, ChainedRoutes
    <3> QED BY <2>2, <3>2 DEF SizedSecondHop, GrossSecondHop
  <2> QED BY <1>1, <2>1, <2>3
<1>3. ASSUME NEW sp \in BOOLEAN, NEW amt \in Outs, NEW mode \in UnwrapModes,
             BuildUnwrap(sp, amt, mode)
      PROVE  TInv'
  <2>1. Sized(NewTx("unwrap", sp, FALSE, amt, 0, 0, mode)) BY DEF Sized, NewTx, SizingRoutes
  <2> QED BY <1>1, <1>3, <2>1 DEF BuildUnwrap
<1>4. ASSUME NEW amt \in Outs, BuildWrap(amt) PROVE TInv'
  <2>1. Sized(NewTx("wrap", FALSE, FALSE, amt, 0, 0, "partial")) BY DEF Sized, NewTx, SizingRoutes
  <2> QED BY <1>1, <1>4, <2>1 DEF BuildWrap
<1> QED BY <1>2, <1>3, <1>4

(* Landing takes the fee from its payer, and nothing else. *)
LEMMA ChargedPosition ==
  ASSUME NEW l \in Ledger, NEW tx \in Tx, CanPayFee(l, tx)
  PROVE  /\ Position(ChargeFee(l, tx)) = Position(l) - (IF tx.sponsored THEN 0 ELSE FeeOf(tx))
         /\ SponsorSide(ChargeFee(l, tx)) = SponsorSide(l) - (IF tx.sponsored THEN FeeOf(tx) ELSE 0)
         /\ ChargeFee(l, tx).quote = l.quote /\ ChargeFee(l, tx).wsol = l.wsol
         /\ ChargeFee(l, tx).atas = l.atas
         /\ tx.sponsored => ChargeFee(l, tx).user = l.user
<1>1. FeeOf(tx) \in Nat BY TxAmounts
<1>2. ChargeFee(l, tx) \in Ledger BY ChargeFeeType
<1>3. l.user \in Nat /\ l.wsol \in Nat /\ l.sponsor \in Nat /\ l.treasury \in Nat BY DEF Ledger
<1>4. /\ ChargeFee(l, tx).user = l.user - (IF tx.sponsored THEN 0 ELSE FeeOf(tx))
      /\ ChargeFee(l, tx).sponsor = l.sponsor - (IF tx.sponsored THEN FeeOf(tx) ELSE 0)
      /\ ChargeFee(l, tx).treasury = l.treasury /\ ChargeFee(l, tx).wsol = l.wsol
      /\ ChargeFee(l, tx).quote = l.quote /\ ChargeFee(l, tx).atas = l.atas
  BY <1>1, <1>3 DEF ChargeFee, Ledger
<1>5. Position(ChargeFee(l, tx)) = Position(l) - (IF tx.sponsored THEN 0 ELSE FeeOf(tx))
  BY <1>1, <1>2, <1>3, <1>4, PositionMoves
<1> QED BY <1>1, <1>3, <1>4, <1>5 DEF SponsorSide

LEMMA TradeLands == ASSUME IInv, IInv', TInv, NEW tx \in pending, Land(tx) PROVE TInv'
<1>1. tx \in Tx /\ pc = 0 /\ led \in Ledger /\ saved = led BY DEF IInv, TypeOK, FeeReserved, Land
<1>2. /\ led' = ChargeFee(led, tx) /\ CanPayFee(led, tx) /\ cur' = tx /\ pc' = 1
      /\ pending' = pending \ {tx} /\ saved' = saved
  BY DEF Land
<1>3. \A s : ~Past(s)' BY <1>2 DEF Past
<1>4. \A S : ~Some(S)' BY <1>3 DEF Some
<1>5. SlotsFresh' BY <1>3 DEF SlotsFresh
<1>6. HopMeasured' BY <1>3, <1>4 DEF HopMeasured
<1>7. AllSized' BY <1>2 DEF TInv, AllSized
<1>8. SaleAccounts' BY <1>1, <1>2, <1>3, <1>4, ChargedPosition DEF SaleAccounts
<1>9. TraderAccounts'
  <2>1. InHand' = 0 BY <1>3, <1>4 DEF InHand
  <2>2. Rent' = 0 BY <1>3 DEF Rent
  <2>3. FeeOf(tx) \in Nat BY <1>1, TxAmounts
  <2>4. OwnCosts' = IF tx.sponsored THEN 0 ELSE FeeOf(tx) BY <1>2, <1>3, <2>3 DEF OwnCosts
  <2>5. Position(led)' = Position(led) - (IF tx.sponsored THEN 0 ELSE FeeOf(tx))
        /\ Position(saved)' = Position(led) /\ Position(led) \in Nat
    BY <1>1, <1>2, ChargedPosition, PositionMoves DEF Position
  <2>6. led'.quote = led.quote /\ led.quote \in Nat BY <1>1, <1>2, ChargedPosition DEF Ledger
  <2> QED BY <1>1, <1>2, <2>1, <2>2, <2>3, <2>4, <2>5, <2>6 DEF TraderAccounts
<1> QED BY <1>5, <1>6, <1>7, <1>8, <1>9 DEF TInv

LEMMA TradeRests ==
  ASSUME TInv, \/ Commit \/ Abort \/ \E tx \in pending : Expire(tx)
               \/ UserActivity \/ FrameUsedByOthers
  PROVE  TInv'
<1>1. pc' = 0 /\ pending' \subseteq pending
  BY DEF Commit, Abort, Expire, UserActivity, FrameUsedByOthers
<1>2. AllSized' BY <1>1 DEF TInv, AllSized
<1>3. SlotsFresh' /\ TraderAccounts' /\ SaleAccounts' /\ HopMeasured'
  BY <1>1 DEF SlotsFresh, TraderAccounts, SaleAccounts, HopMeasured
<1> QED BY <1>2, <1>3 DEF TInv

LEMMA TradeInitially == Init => TInv
<1> SUFFICES ASSUME Init PROVE TInv OBVIOUS
<1>1. pc = 0 /\ pending = {} BY DEF Init
<1> QED BY <1>1, AtRest DEF TInv, AllSized

LEMMA TradeInductive == IInv /\ IInv' /\ TInv /\ [Next]_vars => TInv'
<1> SUFFICES ASSUME IInv, IInv', TInv, [Next]_vars PROVE TInv' OBVIOUS
<1>1. CASE Step
  <2>1. AllSized'
    <3>1. cur' = cur /\ pending' = pending /\ pc > 0 BY <1>1, Untouched DEF Only, At
    <3> QED BY <3>1 DEF TInv, AllSized
  <2> QED BY <1>1, <2>1, FreshSteps, TraderSteps, SaleSteps, MeasuredSteps DEF TInv
<1>2. CASE \/ \E route \in Offered \ SettlementRoutes, sp, mev \in BOOLEAN, q \in Outs :
                BuildSwap(route, sp, mev, q)
           \/ \E sp \in BOOLEAN, amt \in Outs, mode \in UnwrapModes : BuildUnwrap(sp, amt, mode)
           \/ \E amt \in Outs : BuildWrap(amt)
  BY <1>2, TradeBuilds
<1>3. CASE \E tx \in pending : Land(tx) BY <1>3, TradeLands
<1>4. CASE \/ Commit \/ Abort \/ \E tx \in pending : Expire(tx)
           \/ UserActivity \/ FrameUsedByOthers
  BY <1>4, TradeRests
<1>5. CASE UNCHANGED vars
  <2>1. \A s : Past(s)' <=> Past(s) BY <1>5 DEF vars, Past
  <2>2. \A S : Some(S)' <=> Some(S) BY <2>1 DEF Some
  <2>3. HopBalance(led)' = HopBalance(led) /\ OwnCosts' = OwnCosts /\ Rent' = Rent
        /\ Position(led)' = Position(led) /\ Position(saved)' = Position(saved)
    BY <1>5, <2>1 DEF vars, HopBalance, OwnCosts, Rent, Position
  <2>4. InHand' = InHand BY <1>5, <2>1, <2>2, <2>3 DEF vars, InHand
  <2>5. TraderAccounts' BY <1>5, <2>3, <2>4 DEF vars, TInv, TraderAccounts
  <2>6. SlotsFresh' BY <1>5, <2>1, <2>2 DEF vars, TInv, SlotsFresh
  <2>7. SaleAccounts' /\ AllSized' BY <1>5, <2>1, <2>2 DEF vars, TInv, SaleAccounts, AllSized
  <2>8. HopMeasured' BY <1>5, <2>1, <2>2 DEF vars, TInv, HopMeasured, Settle
  <2> QED BY <2>5, <2>6, <2>7, <2>8 DEF TInv
<1> QED BY <1>1, <1>2, <1>3, <1>4, <1>5, Zenon DEF Next

-----------------------------------------------------------------------------
(* The theorems.                                                           *)

(* After every step of a trade the proceeds are where the plan has put them,  *)
(* and no slot of the shared frame is read that this transaction has not      *)
(* written, whatever earlier transactions left there.                         *)
THEOREM TradeInvariant == Spec => [](IInv /\ TInv)
<1>1. Init => IInv /\ TInv BY Initially, TradeInitially
<1>2. IInv /\ TInv /\ [Next]_vars => (IInv /\ TInv)' BY Inductive, TradeInductive
<1> QED BY <1>1, <1>2, PTL DEF Spec

(* At its end a trade has been through every stage. *)
LEMMA TradeEnded ==
  ASSUME IInv, Finished, cur.route \in TradeRoutes
  PROVE  /\ cur.route \in HopRoutes => Some(Outlays) /\ Past("tip")
         /\ cur.route \in ChainedRoutes /\ cur.sponsored => Past("sponsorATAs")
         /\ cur.route = "sell" /\ cur.sponsored => Past("repay")
<1>1. cur \in Tx /\ Wired(cur) BY DEF Finished, IInv, TypeOK, AllWired
<1>2. Len(Plan(cur)) \in Nat BY <1>1, PlanShape, LenProperties DEF Shaped
<1>3. \A s : Past(s) <=> \E i \in 1..Len(Plan(cur)) : Plan(cur)[i] = s
  BY <1>2 DEF Finished, Past
<1>4. Concluded(cur, Plan(cur)) BY <1>1, TradeShape DEF TradeShaped
<1> QED BY <1>3, <1>4 DEF Concluded, Some

LEMMA ChainBalances == IInv /\ TInv => ChainedHopsExact /\ QuoteHopsExact
<1> SUFFICES ASSUME IInv, TInv, Finished PROVE ChainedHopsExact /\ QuoteHopsExact
  BY DEF ChainedHopsExact, QuoteHopsExact
<1>1. pc > 0 BY DEF Finished
<1>2. cur \in Tx /\ FeeOf(cur) \in Nat /\ TipOf(cur) \in Nat
      /\ Position(led) \in Nat /\ Position(saved) \in Nat /\ saved.quote \in Nat
      /\ Rent \in Nat
  BY <1>1, TradeTypes, TxAmounts
<1>3. cur.route \in HopRoutes => InHand = 0 /\ Past("tip")
  BY TradeEnded DEF InHand, TradeRoutes
<1>4. ASSUME cur.route \in ChainedRoutes
      PROVE  Position(led) = Position(saved)
               + (IF cur.sponsored THEN frame["cost"] ELSE 0 - FeeOf(cur) - TipOf(cur))
  <2>1. InHand = 0 /\ Past("tip") BY <1>3, <1>4 DEF HopRoutes
  <2>2. Position(led) = Position(saved) - OwnCosts + Rent + InHand
    BY <1>1, <1>4 DEF TInv, TraderAccounts
  <2>3. CASE cur.sponsored
    <3>1. Past("sponsorATAs") BY <1>4, <2>3, TradeEnded DEF TradeRoutes, HopRoutes
    <3>2. OwnCosts = 0 /\ Rent = frame["cost"] BY <2>3, <3>1 DEF OwnCosts, Rent
    <3> QED BY <1>2, <2>1, <2>2, <2>3, <3>2
  <2>4. CASE ~cur.sponsored
    <3>1. \A i \in 1..Len(Plan(cur)) : Plan(cur)[i] # "sponsorATAs"
      <4>1. \A i \in 1..Len(Plan(cur)) : Plan(cur)[i] \in TradeSteps(cur)
        BY <1>2, <1>4, TradeShape DEF TradeShaped, Threaded, TradeRoutes, HopRoutes
      <4>2. "sponsorATAs" \notin TradeSteps(cur) BY <2>4 DEF TradeSteps
      <4> QED BY <4>1, <4>2
    <3>2. ~Past("sponsorATAs")
      <4>1. Len(Plan(cur)) \in Nat BY <1>2, PlanShape, LenProperties DEF Shaped
      <4> QED BY <3>1, <4>1 DEF Past, Finished
    <3>3. OwnCosts = FeeOf(cur) + TipOf(cur) /\ Rent = 0
      BY <2>1, <2>4, <3>2 DEF OwnCosts, Rent
    <3> QED BY <1>2, <2>1, <2>2, <2>4, <3>3
  <2> QED BY <2>3, <2>4
<1>5. ASSUME cur.route \in SPLRoutes
      PROVE  led.quote = saved.quote
             /\ Position(led) = Position(saved) - FeeOf(cur) - TipOf(cur)
  <2>1. InHand = 0 /\ Past("tip") BY <1>3, <1>5 DEF HopRoutes
  <2>2. led.quote = saved.quote + InHand /\ Position(led) = Position(saved) - OwnCosts
    BY <1>1, <1>5 DEF TInv, TraderAccounts
  <2>3. ~cur.sponsored BY <1>1, <1>5 DEF IInv, AllWired, Wired, SponsoredRoutes
  <2>4. OwnCosts = FeeOf(cur) + TipOf(cur) BY <2>1, <2>3 DEF OwnCosts
  <2> QED BY <1>2, <2>1, <2>2, <2>4
<1> QED BY <1>4, <1>5 DEF ChainedHopsExact, QuoteHopsExact

(***************************************************************************)
(* Whatever SOL, WSOL and accounts the user held, whatever earlier         *)
(* transactions left in the shared frame, and whatever hop 1 paid out: a   *)
(* chain through SOL that commits has spent in hop 2 exactly what hop 1    *)
(* left after fee and repay.                                               *)
(***************************************************************************)
THEOREM ChainsAreExact == Spec => []ChainedHopsExact
BY TradeInvariant, ChainBalances, PTL

(***************************************************************************)
(* The same of a chain through an SPL pool: the user keeps of the quote    *)
(* token what was there before, and pays no SOL but the fee and the tip.   *)
(***************************************************************************)
THEOREM QuoteChainsAreExact == Spec => []QuoteHopsExact
BY TradeInvariant, ChainBalances, PTL

LEMMA SaleRepays == IInv /\ TInv => SellRepaidFromProceeds
<1> SUFFICES ASSUME IInv, TInv, Finished, cur.sponsored,
                    cur.route \in {"sell"} \cup ChainedRoutes
             PROVE  Position(led) >= Position(saved)
  BY DEF SellRepaidFromProceeds, RepaidFromProceedsOn
<1>1. pc > 0 BY DEF Finished
<1>2. led \in Ledger /\ saved \in Ledger /\ Position(led) \in Nat /\ Position(saved) \in Nat
      /\ Rent \in Nat
  BY <1>1, TradeTypes
<1>3. CASE cur.route = "sell"
  <2>1. Past("repay") BY <1>3, TradeEnded DEF TradeRoutes
  <2>2. led.user >= saved.user /\ led.wsol = saved.wsol /\ led.atas = saved.atas
    BY <1>1, <1>3, <2>1 DEF TInv, SaleAccounts
  <2>3. Position(led) = Position(saved) + (led.user + led.wsol) - (saved.user + saved.wsol)
    BY <1>2, <2>2, PositionMoves
  <2>4. led.user \in Nat /\ saved.user \in Nat /\ led.wsol \in Nat /\ saved.wsol \in Nat
    BY <1>2 DEF Ledger
  <2> QED BY <1>2, <2>2, <2>3, <2>4
<1>4. CASE cur.route \in ChainedRoutes
  <2>1. Position(led) = Position(saved) + frame["cost"] BY <1>4, ChainBalances DEF ChainedHopsExact
  <2>2. Past("sponsorATAs") BY <1>4, TradeEnded DEF TradeRoutes, HopRoutes
  <2>3. frame["cost"] \in Nat BY <1>2, <2>2 DEF Rent
  <2> QED BY <1>2, <2>1, <2>3
<1> QED BY <1>3, <1>4

(***************************************************************************)
(* A sponsored sale or chain that commits never costs its user SOL: the    *)
(* repay came out of what the transaction itself produced.                 *)
(***************************************************************************)
THEOREM RepaidFromProceeds == Spec => []SellRepaidFromProceeds
BY TradeInvariant, SaleRepays, PTL

(* The slot hop 2 is patched from holds at least what hop 2 was sized for. *)
LEMMA PatchCoversSizing ==
  ASSUME IInv, TInv, ATARent <= Sched.rent
  PROVE  HopTwoCoversSizing
<1> DEFINE p == Plan(cur)
           at == IF pc <= Len(p) THEN pc ELSE 1
<1> SUFFICES ASSUME pc > 0, cur.route \in SizingRoutes, cur.sponsored, p[at] \in {"wrapSpend", "buy"}
             PROVE  Spend >= cur.sized
  BY DEF HopTwoCoversSizing, SizingRoutes
<1>1. cur \in Tx /\ pc \in Nat BY DEF IInv, TypeOK, Tx, NoTx
<1>2. cur.route \in TradeRoutes /\ cur.route # "sell"
      /\ cur.route \notin {"bridgeBuy", "bridgeBuySPL"}
  BY DEF SizingRoutes, TradeRoutes, HopRoutes, ChainedRoutes
<1>3. Len(p) \in Nat BY <1>1, PlanShape, LenProperties DEF Shaped
<1>4. pc \in 1..Len(p) /\ p[pc] \in {"wrapSpend", "buy"}
  <2>1. p[1] = "reset" BY DEF Plan, SponsoredPlan, SizingRoutes
  <2> QED BY <1>1, <1>3, <2>1
<1>5. Threaded(cur, p) BY <1>1, <1>2, TradeShape DEF TradeShaped
<1> HIDE DEF p, at
<1>6. Stage(p[pc]) > 8 BY <1>4, Stages DEF Outlays
<1>7. /\ Before("sponsorATAs", p, pc) /\ Before("deduct", p, pc)
      /\ \E s \in Deltas : Before(s, p, pc)
      /\ \E s \in Fees : Before(s, p, pc)
  <2>1. /\ Stage(p[pc]) > 2 /\ Stage(p[pc]) > 5 /\ Stage(p[pc]) > 6 BY <1>6, Stages
  <2> QED BY <1>2, <1>4, <1>5, <1>6, <2>1 DEF Threaded
<1>8. Past("sponsorATAs") /\ Past("deduct") /\ Some(Deltas) /\ Some(Fees)
  BY <1>7 DEF Past, Before, Some, p
<1>9. /\ frame["delta"] >= cur.minOut
      /\ frame["net"] = frame["delta"] - ApplyBPS(frame["delta"], FeeBps)
      /\ frame["cost"] <= ATARent * Cardinality(AtasOf(cur.route))
      /\ frame["spend"] = frame["net"] - Settle
      /\ cur.sized = cur.minOut - ApplyBPS(cur.minOut, FeeBps) - QuoteDeduction(cur.route)
  BY <1>8 DEF TInv, HopMeasured, AllSized, Sized
<1>10. /\ frame["delta"] \in Nat /\ frame["net"] \in Nat /\ frame["spend"] \in Nat
       /\ frame["cost"] \in Nat /\ cur.minOut \in Nat
  BY <1>1, <1>8, TradeTypes DEF Rent, Tx
<1>11. FeeBps \in 0..Bps BY RateAssumption DEF Bps
<1>12. cur.minOut - ApplyBPS(cur.minOut, FeeBps) <= frame["net"]
  BY <1>9, <1>10, <1>11, NetMonotone
<1>13. Settle <= QuoteDeduction(cur.route)
  <2> DEFINE n == Cardinality(AtasOf(cur.route))
  <2>1. n = ATAEstimate(cur.route) /\ n \in Nat
    <3>1. CASE cur.route = "sellBridge"
      <4>1. AtasOf(cur.route) = {"wsol"} \cup {"out"} BY <3>1 DEF AtasOf, SPLRoutes, ChainedRoutes
      <4>2. /\ IsFiniteSet({"wsol"}) /\ Cardinality({"wsol"}) = 1
            /\ IsFiniteSet({"out"}) /\ Cardinality({"out"}) = 1
        BY FS_Singleton
      <4>3. {"wsol"} \cap {"out"} = {} OBVIOUS
      <4>4. Cardinality({}) = 0 BY FS_EmptySet
      <4>5. Cardinality({"wsol"} \cup {"out"})
              = Cardinality({"wsol"}) + Cardinality({"out"}) - Cardinality({"wsol"} \cap {"out"})
        BY <4>2, FS_Union
      <4>6. n = 2 BY <4>1, <4>2, <4>3, <4>4, <4>5
      <4> HIDE DEF n
      <4> QED BY <3>1, <4>6 DEF ATAEstimate
    <3>2. CASE cur.route = "sellBuy"
      <4>1. AtasOf(cur.route) = {"out"} BY <3>2 DEF AtasOf, SPLRoutes, ChainedRoutes
      <4> QED BY <3>2, <4>1, FS_Singleton DEF ATAEstimate
    <3> QED BY <3>1, <3>2 DEF SizingRoutes
  <2>2. Sched \in Schedule /\ Sched.rent \in Nat BY SchedAssumption DEF Schedule
  <2>3. SchedOf(cur) = Sched BY DEF SchedOf, SizingRoutes, SettlementRoutes
  <2>4. SignaturesOf(cur) = 2 BY DEF SignaturesOf
  <2>5. TipOf(cur) \in 0..TipLamports /\ TipLamports \in Nat BY RateAssumption DEF TipOf
  <2>6. frame["cost"] \in 0..(n * Sched.rent)
    <3>1. n * ATARent <= n * Sched.rent BY <2>1, <2>2, ProductMonotone, ChainAssumption
    <3>2. n * ATARent = ATARent * n BY <2>1, ChainAssumption
    <3>3. n * ATARent \in Nat /\ n * Sched.rent \in Nat BY <2>1, <2>2, ProductNat, ChainAssumption
    <3>4. frame["cost"] <= ATARent * n BY <1>9
    <3> HIDE DEF n
    <3> QED BY <1>10, <3>1, <3>2, <3>3, <3>4
  <2>7. frame["cost"] + EstimateRepayLamports(Sched, 2, 0, TipOf(cur))
          <= EstimateRepayLamports(Sched, 2, n, TipLamports)
    <3> HIDE DEF n
    <3> QED BY <2>1, <2>2, <2>5, <2>6, EstimateGrows
  <2>8. Settle = frame["cost"] + EstimateRepayLamports(Sched, 2, 0, TipOf(cur))
    BY <2>3, <2>4 DEF Settle, FixedRepay
  <2>9. QuoteDeduction(cur.route) = EstimateRepayLamports(Sched, 2, n, TipLamports)
    BY <2>1 DEF QuoteDeduction, SizingRoutes, SettlementRoutes
  <2> QED BY <2>7, <2>8, <2>9
<1>14. Spend = frame["net"] - Settle BY <1>9 DEF Spend
<1>15. Settle \in Nat /\ QuoteDeduction(cur.route) \in Nat /\ ApplyBPS(cur.minOut, FeeBps) \in Nat
  <2>1. FixedRepay(cur) \in Nat BY <1>1, TxAmounts
  <2>2. ATAEstimate(cur.route) \in Nat BY DEF ATAEstimate
  <2>3. Sched \in Schedule /\ [Sched EXCEPT !.cuPrice = 0] \in Schedule
    BY SchedAssumption DEF Schedule
  <2>4. QuoteDeduction(cur.route) \in Nat
    BY <2>2, <2>3, RateAssumption, ScheduleAmounts DEF QuoteDeduction
  <2>5. ApplyBPS(cur.minOut, FeeBps) \in Nat BY <1>10, <1>11, ApplyBPSBounds
  <2> QED BY <1>10, <2>1, <2>4, <2>5 DEF Settle
<1> QED BY <1>9, <1>10, <1>12, <1>13, <1>14, <1>15

(***************************************************************************)
(* On a sponsored sale that continues, hop 2 is handed at least the amount *)
(* its minimum output was computed for, whatever accounts have to be       *)
(* opened and whatever the tip, so long as the chain's rent for an account *)
(* is no more than splATARentLamports (sponsor.go:12) -- which is so of    *)
(* SPL token accounts, and not of every Token-2022 account.                *)
(***************************************************************************)
THEOREM SizingCovered ==
  ASSUME ATARent <= Sched.rent
  PROVE  Spec => []HopTwoCoversSizing
<1>1. IInv /\ TInv => HopTwoCoversSizing BY PatchCoversSizing
<1> QED BY <1>1, TradeInvariant, PTL
=============================================================================
