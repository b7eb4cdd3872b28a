---------------------------- MODULE IfxTx_proofs ----------------------------
(***************************************************************************)
(* For every schedule, tip, fee, slippage, set of outputs and number of    *)
(* transactions: the ledger never goes negative, and a sponsored           *)
(* transaction that commits has made the sponsor whole.                    *)
(*                                                                         *)
(* The inductive invariant says where a running transaction is by the      *)
(* steps it has Past: which slots of the frame are bound by then, and what *)
(* the sponsor's two balances have lost and gained since it landed.        *)
(***************************************************************************)
EXTENDS IfxTx, SponsorMath_proofs, FiniteSetTheorems, SequenceTheorems

Past(step) == \E i \in 1..(pc - 1) : Plan(cur)[i] = step

Measures == {"sponsorATAs", "zeroRent"}
Repays == {"deduct", "repay", "repayWsol"}

Repaid == \E step \in Repays : Past(step)

(* Only routes with a sponsored plan are ever built sponsored. *)
Wired(tx) == tx.sponsored => tx.route \in SponsoredRoutes

AllWired ==
  /\ \A tx \in pending : Wired(tx)
  /\ pc > 0 => Wired(cur)

(* A landed transaction's fee payer could pay the fee; at rest nothing is in progress. *)
FeeReserved ==
  IF pc = 0 THEN saved = led /\ frame0 = frame
  ELSE FeeOf(cur) <= IF cur.sponsored THEN saved.sponsor ELSE saved.user

(* A slot is bound once the step that measures into it is past. *)
SlotsBound ==
  pc > 0 =>
    /\ Past("letUser") \/ Past("letWsol") \/ Past("letQuote") => frame["before"] \in Nat
    /\ Past("deltaUser") \/ Past("deltaWsol") \/ Past("deltaQuote") => frame["delta"] \in Nat
    /\ Past("fee") \/ Past("feeQuote") => frame["net"] \in Nat
    /\ Past("sponsorATAs") \/ Past("zeroRent") => frame["cost"] \in Nat
    /\ Past("deduct") => frame["spend"] \in Nat

(* Until the rent is measured, its slot is as Reset left it. *)
CostMeasured ==
  pc > 0 /\ Past("reset") =>
    /\ ~Past("sponsorATAs") /\ ~Past("zeroRent") => frame["cost"] = Unbound
    /\ Past("zeroRent") => frame["cost"] = 0

(* What the sponsor's fee payer has spent, and its treasury received. *)
SponsorAccounts ==
  pc > 0 /\ cur.sponsored =>
    /\ led.sponsor = saved.sponsor - FeeOf(cur)
                       - (IF Past("sponsorATAs") THEN frame["cost"] ELSE 0)
                       - (IF Past("tip") THEN TipOf(cur) ELSE 0)
    /\ led.treasury = saved.treasury
                       + (IF Repaid THEN frame["cost"] + FixedRepay(cur) ELSE 0)
                       + (IF Past("repayFixed") THEN FixedRepay(cur) ELSE 0)

IInv == TypeOK /\ AllWired /\ FeeReserved /\ SlotsBound /\ CostMeasured /\ SponsorAccounts

-----------------------------------------------------------------------------
(* The shape of the plans.                                                 *)

Before(step, p, i) == \E j \in 1..(i - 1) : p[j] = step

(* Every step finds what it reads bound by an earlier one, and none is repeated. *)
WellOrdered(tx, p) ==
  /\ \A i \in 1..Len(p) :
       /\ p[i] = "reset" => \A j \in 1..(i - 1) : p[j] = "userATAs"
       /\ p[i] = "deltaUser" => Before("letUser", p, i)
       /\ p[i] = "deltaWsol" => Before("letWsol", p, i)
       /\ p[i] = "deltaQuote" => Before("letQuote", p, i)
       /\ p[i] = "fee" => Before("deltaUser", p, i)
       /\ p[i] = "feeQuote" => Before("deltaQuote", p, i)
       /\ p[i] = "spendQuote" =>
            /\ ~tx.sponsored
            /\ tx.route # "bridgeBuy"
            /\ Before(IF tx.route = "bridgeBuySPL" THEN "deltaQuote" ELSE "feeQuote", p, i)
       /\ p[i] \in {"deduct", "wrapSpend", "bridgeOut", "buy"} =>
            /\ tx.route # "bridgeBuySPL"
            /\ Before(IF tx.route = "bridgeBuy" THEN "deltaWsol" ELSE "fee", p, i)
       /\ p[i] \in {"wrapSpend", "bridgeOut", "buy"} /\ tx.sponsored => Before("deduct", p, i)
       /\ p[i] \in Repays => \E m \in Measures : Before(m, p, i)
       /\ p[i] \in Measures => Before("reset", p, i)
       /\ p[i] \in Measures \cup Repays =>
            \A j \in 1..Len(p) :
              /\ p[j] \in Measures /\ p[i] \in Measures => i = j
              /\ p[j] \in Repays /\ p[i] \in Repays => i = j
              /\ p[j] \in Repays /\ p[i] \in Measures => i < j
       /\ p[i] \in {"tip", "repayFixed"} => ~Before(p[i], p, i)

(* A sponsored plan asks back what it makes the sponsor pay. *)
Repaying(p) ==
  \/ /\ \E i \in 1..Len(p) : p[i] \in Measures
     /\ \E i \in 1..Len(p) : p[i] \in Repays
     /\ \E i \in 1..Len(p) : p[i] = "tip"
  \/ /\ \A i \in 1..Len(p) : p[i] \notin Measures \cup Repays \cup {"tip"}
     /\ \E i \in 1..Len(p) : p[i] = "repayFixed"

Shaped(tx) ==
  /\ Plan(tx) \in Seq(Steps)
  /\ WellOrdered(tx, Plan(tx))
  /\ tx.sponsored /\ Wired(tx) => Repaying(Plan(tx))
  /\ tx.sponsored => \A i \in 1..Len(Plan(tx)) : Plan(tx)[i] # "userATAs"

(* One case per plan; each follows by looking at the tuple. *)
LEMMA PlanShape == \A tx \in Tx : Shaped(tx)
<1> SUFFICES ASSUME NEW tx \in Tx PROVE Shaped(tx) OBVIOUS
<1>1. CASE tx.sponsored /\ tx.route = "sell"
  <2> DEFINE p == <<"reset", "letUser", "sell", "deltaUser", "fee",
                  "zeroRent", "repay", "tip">>
  <2>1. Plan(tx) = p BY <1>1 DEF Plan, SponsoredPlan, SelfFundedPlan
  <2>2. p \in Seq(Steps) BY DEF Steps
  <2>3. WellOrdered(tx, p) BY <1>1 DEF WellOrdered, Before, Measures, Repays
  <2>4. Wired(tx) => Repaying(p) BY <1>1 DEF Repaying, Wired, SponsoredRoutes, SPLRoutes, Measures, Repays
  <2>5. \A i \in 1..Len(p) : p[i] # "userATAs" OBVIOUS
  <2> QED BY <2>1, <2>2, <2>3, <2>4, <2>5 DEF Shaped
<1>2. CASE tx.sponsored /\ tx.route = "sellBridge"
  <2> DEFINE p == <<"reset", "sponsorATAs", "letUser", "sell", "deltaUser",
                  "fee", "deduct", "wrapSpend", "bridgeOut", "tip">>
  <2>1. Plan(tx) = p BY <1>2 DEF Plan, SponsoredPlan, SelfFundedPlan
  <2>2. p \in Seq(Steps) BY DEF Steps
  <2>3. WellOrdered(tx, p) BY <1>2 DEF WellOrdered, Before, Measures, Repays
  <2>4. Wired(tx) => Repaying(p) BY <1>2 DEF Repaying, Wired, SponsoredRoutes, SPLRoutes, Measures, Repays
  <2>5. \A i \in 1..Len(p) : p[i] # "userATAs" OBVIOUS
  <2> QED BY <2>1, <2>2, <2>3, <2>4, <2>5 DEF Shaped
<1>3. CASE tx.sponsored /\ tx.route = "sellBuy"
  <2> DEFINE p == <<"reset", "sponsorATAs", "letUser", "sell", "deltaUser",
                  "fee", "deduct", "buy", "tip">>
  <2>1. Plan(tx) = p BY <1>3 DEF Plan, SponsoredPlan, SelfFundedPlan
  <2>2. p \in Seq(Steps) BY DEF Steps
  <2>3. WellOrdered(tx, p) BY <1>3 DEF WellOrdered, Before, Measures, Repays
  <2>4. Wired(tx) => Repaying(p) BY <1>3 DEF Repaying, Wired, SponsoredRoutes, SPLRoutes, Measures, Repays
  <2>5. \A i \in 1..Len(p) : p[i] # "userATAs" OBVIOUS
  <2> QED BY <2>1, <2>2, <2>3, <2>4, <2>5 DEF Shaped
<1>4. CASE tx.sponsored /\ tx.route = "bridgeBuy"
  <2> DEFINE p == <<"reset", "sponsorATAs", "letWsol", "bridgeIn",
                  "deltaWsol", "closeWsol", "deduct", "buy", "tip">>
  <2>1. Plan(tx) = p BY <1>4 DEF Plan, SponsoredPlan, SelfFundedPlan
  <2>2. p \in Seq(Steps) BY DEF Steps
  <2>3. WellOrdered(tx, p) BY <1>4 DEF WellOrdered, Before, Measures, Repays
  <2>4. Wired(tx) => Repaying(p) BY <1>4 DEF Repaying, Wired, SponsoredRoutes, SPLRoutes, Measures, Repays
  <2>5. \A i \in 1..Len(p) : p[i] # "userATAs" OBVIOUS
  <2> QED BY <2>1, <2>2, <2>3, <2>4, <2>5 DEF Shaped
<1>5. CASE tx.sponsored /\ tx.route = "quoteSOL"
  <2> DEFINE p == <<"reset", "sponsorATAs", "letUser", "bridgeIn",
                  "closeWsol", "repay", "tip">>
  <2>1. Plan(tx) = p BY <1>5 DEF Plan, SponsoredPlan, SelfFundedPlan
  <2>2. p \in Seq(Steps) BY DEF Steps
  <2>3. WellOrdered(tx, p) BY <1>5 DEF WellOrdered, Before, Measures, Repays
  <2>4. Wired(tx) => Repaying(p) BY <1>5 DEF Repaying, Wired, SponsoredRoutes, SPLRoutes, Measures, Repays
  <2>5. \A i \in 1..Len(p) : p[i] # "userATAs" OBVIOUS
  <2> QED BY <2>1, <2>2, <2>3, <2>4, <2>5 DEF Shaped
<1>6. CASE tx.sponsored /\ tx.route = "quoteWSOL"
  <2> DEFINE p == <<"reset", "sponsorATAs", "bridgeIn", "repayWsol", "tip">>
  <2>1. Plan(tx) = p BY <1>6 DEF Plan, SponsoredPlan, SelfFundedPlan
  <2>2. p \in Seq(Steps) BY DEF Steps
  <2>3. WellOrdered(tx, p) BY <1>6 DEF WellOrdered, Before, Measures, Repays
  <2>4. Wired(tx) => Repaying(p) BY <1>6 DEF Repaying, Wired, SponsoredRoutes, SPLRoutes, Measures, Repays
  <2>5. \A i \in 1..Len(p) : p[i] # "userATAs" OBVIOUS
  <2> QED BY <2>1, <2>2, <2>3, <2>4, <2>5 DEF Shaped
<1>7. CASE tx.sponsored /\ tx.route = "unwrap"
  <2> DEFINE p == <<"unwrap", "repayFixed">>
  <2>1. Plan(tx) = p BY <1>7 DEF Plan, SponsoredPlan, SelfFundedPlan
  <2>2. p \in Seq(Steps) BY DEF Steps
  <2>3. WellOrdered(tx, p) BY <1>7 DEF WellOrdered, Before, Measures, Repays
  <2>4. Wired(tx) => Repaying(p) BY <1>7 DEF Repaying, Wired, SponsoredRoutes, SPLRoutes, Measures, Repays
  <2>5. \A i \in 1..Len(p) : p[i] # "userATAs" OBVIOUS
  <2> QED BY <2>1, <2>2, <2>3, <2>4, <2>5 DEF Shaped
<1>8. CASE tx.sponsored /\ tx.route = "wrap"
  <2> DEFINE p == <<>>
  <2>1. Plan(tx) = p BY <1>8 DEF Plan, SponsoredPlan, SelfFundedPlan
  <2>2. p \in Seq(Steps) BY DEF Steps
  <2>3. WellOrdered(tx, p) BY <1>8 DEF WellOrdered, Before, Measures, Repays
  <2>4. Wired(tx) => Repaying(p) BY <1>8 DEF Repaying, Wired, SponsoredRoutes, SPLRoutes, Measures, Repays
  <2>5. \A i \in 1..Len(p) : p[i] # "userATAs" OBVIOUS
  <2> QED BY <2>1, <2>2, <2>3, <2>4, <2>5 DEF Shaped
<1>9. CASE ~tx.sponsored /\ tx.route = "sell"
  <2> DEFINE p == <<"reset", "letUser", "sell", "deltaUser", "fee", "tip">>
  <2>1. Plan(tx) = p BY <1>9 DEF Plan, SponsoredPlan, SelfFundedPlan
  <2>2. p \in Seq(Steps) BY DEF Steps
  <2>3. WellOrdered(tx, p) BY <1>9 DEF WellOrdered, Before, Measures, Repays
  <2> QED BY <1>9, <2>1, <2>2, <2>3 DEF Shaped
<1>10. CASE ~tx.sponsored /\ tx.route = "sellBridge"
  <2> DEFINE p == <<"userATAs", "reset", "letUser", "sell", "deltaUser",
                  "fee", "wrapSpend", "bridgeOut", "tip">>
  <2>1. Plan(tx) = p BY <1>10 DEF Plan, SponsoredPlan, SelfFundedPlan
  <2>2. p \in Seq(Steps) BY DEF Steps
  <2>3. WellOrdered(tx, p) BY <1>10 DEF WellOrdered, Before, Measures, Repays
  <2> QED BY <1>10, <2>1, <2>2, <2>3 DEF Shaped
<1>11. CASE ~tx.sponsored /\ tx.route = "sellBuy"
  <2> DEFINE p == <<"userATAs", "reset", "letUser", "sell", "deltaUser",
                  "fee", "buy", "tip">>
  <2>1. Plan(tx) = p BY <1>11 DEF Plan, SponsoredPlan, SelfFundedPlan
  <2>2. p \in Seq(Steps) BY DEF Steps
  <2>3. WellOrdered(tx, p) BY <1>11 DEF WellOrdered, Before, Measures, Repays
  <2> QED BY <1>11, <2>1, <2>2, <2>3 DEF Shaped
<1>12. CASE ~tx.sponsored /\ tx.route = "bridgeBuy"
  <2> DEFINE p == <<"userATAs", "reset", "letWsol", "bridgeIn", "deltaWsol",
                  "closeWsol", "buy", "tip">>
  <2>1. Plan(tx) = p BY <1>12 DEF Plan, SponsoredPlan, SelfFundedPlan
  <2>2. p \in Seq(Steps) BY DEF Steps
  <2>3. WellOrdered(tx, p) BY <1>12 DEF WellOrdered, Before, Measures, Repays
  <2> QED BY <1>12, <2>1, <2>2, <2>3 DEF Shaped
<1>13. CASE ~tx.sponsored /\ tx.route = "quoteSOL"
  <2> DEFINE p == <<"userATAs", "bridgeIn", "closeWsol", "tip">>
  <2>1. Plan(tx) = p BY <1>13 DEF Plan, SponsoredPlan, SelfFundedPlan
  <2>2. p \in Seq(Steps) BY DEF Steps
  <2>3. WellOrdered(tx, p) BY <1>13 DEF WellOrdered, Before, Measures, Repays
  <2> QED BY <1>13, <2>1, <2>2, <2>3 DEF Shaped
<1>14. CASE ~tx.sponsored /\ tx.route = "quoteWSOL"
  <2> DEFINE p == <<"userATAs", "bridgeIn", "tip">>
  <2>1. Plan(tx) = p BY <1>14 DEF Plan, SponsoredPlan, SelfFundedPlan
  <2>2. p \in Seq(Steps) BY DEF Steps
  <2>3. WellOrdered(tx, p) BY <1>14 DEF WellOrdered, Before, Measures, Repays
  <2> QED BY <1>14, <2>1, <2>2, <2>3 DEF Shaped
<1>15. CASE ~tx.sponsored /\ tx.route = "unwrap"
  <2> DEFINE p == <<"unwrap">>
  <2>1. Plan(tx) = p BY <1>15 DEF Plan, SponsoredPlan, SelfFundedPlan
  <2>2. p \in Seq(Steps) BY DEF Steps
  <2>3. WellOrdered(tx, p) BY <1>15 DEF WellOrdered, Before, Measures, Repays
  <2> QED BY <1>15, <2>1, <2>2, <2>3 DEF Shaped
<1>16. CASE ~tx.sponsored /\ tx.route = "wrap"
  <2> DEFINE p == <<"userATAs", "wrap">>
  <2>1. Plan(tx) = p BY <1>16 DEF Plan, SponsoredPlan, SelfFundedPlan
  <2>2. p \in Seq(Steps) BY DEF Steps
  <2>3. WellOrdered(tx, p) BY <1>16 DEF WellOrdered, Before, Measures, Repays
  <2> QED BY <1>16, <2>1, <2>2, <2>3 DEF Shaped
<1>17. CASE tx.sponsored /\ tx.route = "sellSPL"
  <2> DEFINE p == <<>>
  <2>1. Plan(tx) = p BY <1>17 DEF Plan, SponsoredPlan, SelfFundedPlan
  <2>2. p \in Seq(Steps) BY DEF Steps
  <2>3. WellOrdered(tx, p) BY <1>17 DEF WellOrdered, Before, Measures, Repays
  <2>4. Wired(tx) => Repaying(p) BY <1>17 DEF Repaying, Wired, SponsoredRoutes, SPLRoutes, Measures, Repays
  <2>5. \A i \in 1..Len(p) : p[i] # "userATAs" OBVIOUS
  <2> QED BY <2>1, <2>2, <2>3, <2>4, <2>5 DEF Shaped
<1>18. CASE tx.sponsored /\ tx.route = "bridgeBuySPL"
  <2> DEFINE p == <<>>
  <2>1. Plan(tx) = p BY <1>18 DEF Plan, SponsoredPlan, SelfFundedPlan
  <2>2. p \in Seq(Steps) BY DEF Steps
  <2>3. WellOrdered(tx, p) BY <1>18 DEF WellOrdered, Before, Measures, Repays
  <2>4. Wired(tx) => Repaying(p) BY <1>18 DEF Repaying, Wired, SponsoredRoutes, SPLRoutes, Measures, Repays
  <2>5. \A i \in 1..Len(p) : p[i] # "userATAs" OBVIOUS
  <2> QED BY <2>1, <2>2, <2>3, <2>4, <2>5 DEF Shaped
<1>19. CASE ~tx.sponsored /\ tx.route = "sellSPL"
  <2> DEFINE p == <<"userATAs", "reset", "letQuote", "quoteIn", "deltaQuote",
                  "feeQuote", "spendQuote", "tip">>
  <2>1. Plan(tx) = p BY <1>19 DEF Plan, SponsoredPlan, SelfFundedPlan
  <2>2. p \in Seq(Steps) BY DEF Steps
  <2>3. WellOrdered(tx, p) BY <1>19 DEF WellOrdered, Before, Measures, Repays
  <2> QED BY <1>19, <2>1, <2>2, <2>3 DEF Shaped
<1>20. CASE ~tx.sponsored /\ tx.route = "bridgeBuySPL"
  <2> DEFINE p == <<"userATAs", "reset", "letQuote", "quoteIn", "deltaQuote",
                  "spendQuote", "tip">>
  <2>1. Plan(tx) = p BY <1>20 DEF Plan, SponsoredPlan, SelfFundedPlan
  <2>2. p \in Seq(Steps) BY DEF Steps
  <2>3. WellOrdered(tx, p) BY <1>20 DEF WellOrdered, Before, Measures, Repays
  <2> QED BY <1>20, <2>1, <2>2, <2>3 DEF Shaped
<1> QED BY <1>1, <1>2, <1>3, <1>4, <1>5, <1>6, <1>7, <1>8, <1>9, <1>10, <1>11, <1>12, <1>13, <1>14,
          <1>15, <1>16, <1>17, <1>18, <1>19, <1>20 DEF Tx, Routes

-----------------------------------------------------------------------------
(* Amounts, slots and the motion of the program counter.                   *)

LEMMA TxAmounts ==
  ASSUME NEW tx \in Tx
  PROVE  /\ FeeOf(tx) \in Nat /\ FixedRepay(tx) \in Nat /\ TipOf(tx) \in Nat
         /\ tx.sponsored => FixedRepay(tx) + 1 >= FeeOf(tx) + TipOf(tx)
<1>1. SchedOf(tx) \in Schedule BY SchedAssumption DEF SchedOf, Schedule
<1>2. SignaturesOf(tx) \in Nat BY DEF SignaturesOf
<1>3. TipOf(tx) \in Nat BY RateAssumption DEF TipOf
<1>4. FeeOf(tx) \in Nat BY <1>1, <1>2, <1>3, ScheduleAmounts DEF FeeOf
<1>5. FixedRepay(tx) \in Nat BY <1>1, <1>2, <1>3, ScheduleAmounts DEF FixedRepay
<1>6. FixedRepay(tx) + 1 >= FeeOf(tx) + TipOf(tx)
  BY <1>1, <1>2, <1>3, EstimateCoversFees DEF FixedRepay, FeeOf
<1> QED BY <1>3, <1>4, <1>5, <1>6

LEMMA OpenedNat ==
  ASSUME NEW l \in Ledger, NEW tx \in Tx
  PROVE  Opened(l, tx) \in Nat /\ AtasOf(tx.route) \subseteq ATAs
<1>1. AtasOf(tx.route) \subseteq ATAs BY DEF AtasOf, ATAs
<1>2. IsFiniteSet(ATAs)
  <2>1. IsFiniteSet({"wsol"} \cup {"quote"}) BY FS_Singleton, FS_Union
  <2>2. IsFiniteSet(({"wsol"} \cup {"quote"}) \cup {"out"}) BY <2>1, FS_Singleton, FS_Union
  <2>3. ATAs = ({"wsol"} \cup {"quote"}) \cup {"out"} BY DEF ATAs
  <2> QED BY <2>2, <2>3
<1>3. AtasOf(tx.route) \ l.atas \subseteq ATAs BY <1>1
<1>4. Cardinality(AtasOf(tx.route) \ l.atas) \in Nat
  BY <1>2, <1>3, FS_Subset, FS_CardinalityType
<1> QED BY <1>1, <1>4, ProductNat, ChainAssumption DEF Opened

LEMMA BindSlot ==
  ASSUME NEW f \in Frame, NEW slot \in Slots, NEW x \in Nat
  PROVE  /\ Bind(f, slot, x) \in Frame
         /\ Bind(f, slot, x)[slot] \in Nat
         /\ \A s \in Slots : s # slot => Bind(f, slot, x)[s] = f[s]
         /\ f[slot] = Unbound => Bind(f, slot, x)[slot] = x
BY DEF Bind, Frame, Unbound

(* A step leaves the transaction and what it is measured against alone, and adds itself to Past. *)
LEMMA Motion ==
  ASSUME IInv, NEW step, At(step)
  PROVE  /\ cur \in Tx /\ cur' = cur /\ saved' = saved /\ frame0' = frame0
         /\ pc \in 1..Len(Plan(cur)) /\ pc' = pc + 1 /\ Plan(cur)[pc] = step
         /\ Shaped(cur)
         /\ \A s : Past(s) <=> Before(s, Plan(cur), pc)
         /\ \A s : Past(s)' <=> Past(s) \/ s = step
         /\ \A s : Past(s) => \E j \in 1..Len(Plan(cur)) : j < pc /\ Plan(cur)[j] = s
<1>1. cur \in Tx /\ pc \in 1..Len(Plan(cur)) BY DEF IInv, TypeOK, At, NoTx, Tx
<1>2. Len(Plan(cur)) \in Nat BY <1>1, PlanShape, LenProperties DEF Shaped
<1>3. cur' = cur /\ pc' = pc + 1 /\ Plan(cur)[pc] = step BY DEF At
<1>4. \A s : Past(s)' <=> Past(s) \/ s = step BY <1>1, <1>2, <1>3 DEF Past
<1> QED BY <1>1, <1>2, <1>3, <1>4, PlanShape DEF At, Past, Before

(* Of measuring and repaying there is one step each, in this order, after the reset. *)
LEMMA MeasuredOnce ==
  ASSUME NEW tx, NEW p, WellOrdered(tx, p), NEW i \in 1..Len(p)
  PROVE  /\ p[i] \in Measures => Before("reset", p, i)
         /\ p[i] \in Repays => \E m \in Measures : Before(m, p, i)
         /\ \A j \in 1..Len(p) :
              /\ p[i] \in Measures /\ p[j] \in Measures => i = j
              /\ p[i] \in Repays /\ p[j] \in Repays => i = j
              /\ p[i] \in Measures /\ p[j] \in Repays => i < j
BY DEF WellOrdered

-----------------------------------------------------------------------------
(* What a step preserves by leaving parts of the state alone.              *)

Binders == {"letUser", "letWsol", "letQuote", "deltaUser", "deltaWsol", "deltaQuote",
            "fee", "feeQuote", "deduct"} \cup Measures

SponsorMoves == Measures \cup Repays \cup {"repayFixed", "tip"}

LEMMA TypeKept ==
  ASSUME IInv, NEW step, At(step), led' \in Ledger, frame' \in Frame
  PROVE  TypeOK' /\ AllWired' /\ FeeReserved'
<1>1. pc' \in Nat /\ pc' # 0 /\ pc' <= Len(Plan(cur)) + 1
  BY Motion, PlanShape, LenProperties DEF Shaped
<1>2. pc # 0 /\ pc' > 0 /\ pc > 0 BY DEF At, IInv, TypeOK
<1>3. TypeOK' BY <1>1, <1>2, Motion DEF IInv, TypeOK, At
<1>4. AllWired' BY <1>2, Motion DEF IInv, AllWired, At, Wired
<1>5. FeeReserved' BY <1>1, <1>2, Motion DEF IInv, FeeReserved
<1> QED BY <1>3, <1>4, <1>5

LEMMA SlotsKept ==
  ASSUME IInv, NEW step, At(step), step \notin Binders \cup {"reset"}, UNCHANGED frame
  PROVE  SlotsBound' /\ CostMeasured'
<1>1. \A s : s # step => (Past(s)' <=> Past(s)) BY Motion
<1>2. SlotsBound' BY <1>1 DEF IInv, SlotsBound, Binders, Measures, At
<1>3. CostMeasured' BY <1>1 DEF IInv, CostMeasured, Binders, Measures, At
<1> QED BY <1>2, <1>3

(* Binding a slot other than the cost. *)
LEMMA SlotBound ==
  ASSUME IInv, NEW step, At(step), NEW slot \in Slots \ {"cost"}, NEW x \in Nat,
         <<step, slot>> \in {<<"letUser", "before">>, <<"letWsol", "before">>,
                             <<"letQuote", "before">>, <<"deltaUser", "delta">>,
                             <<"deltaWsol", "delta">>, <<"deltaQuote", "delta">>,
                             <<"fee", "net">>, <<"feeQuote", "net">>, <<"deduct", "spend">>},
         frame' = Bind(frame, slot, x)
  PROVE  frame' \in Frame /\ SlotsBound' /\ CostMeasured' /\ frame'["cost"] = frame["cost"]
<1>1. frame \in Frame BY DEF IInv, TypeOK
<1>2. frame' \in Frame /\ frame'[slot] \in Nat BY <1>1, BindSlot
<1>3. \A s \in Slots : s # slot => frame'[s] = frame[s] BY <1>1, BindSlot
<1>4. \A s : s # step => (Past(s)' <=> Past(s)) BY Motion
<1>5. SlotsBound' BY <1>2, <1>3, <1>4 DEF IInv, SlotsBound, Slots, At
<1>6. CostMeasured' BY <1>2, <1>3, <1>4 DEF IInv, CostMeasured, Slots, At
<1> QED BY <1>2, <1>3, <1>5, <1>6 DEF Slots

LEMMA AccountsKept ==
  ASSUME IInv, NEW step, At(step), step \notin SponsorMoves,
         led'.sponsor = led.sponsor, led'.treasury = led.treasury,
         frame'["cost"] = frame["cost"]
  PROVE  SponsorAccounts'
<1>1. \A s \in SponsorMoves : Past(s)' <=> Past(s) BY Motion
<1>2. Repaid' <=> Repaid BY <1>1 DEF Repaid, SponsorMoves
<1>3. cur' = cur /\ saved' = saved /\ pc > 0 BY Motion DEF At
<1> QED BY <1>1, <1>2, <1>3 DEF IInv, SponsorAccounts, SponsorMoves, Measures

(* A step that touches neither the frame nor the sponsor. *)
LEMMA UserStep ==
  ASSUME IInv, NEW step, At(step), step \notin Binders \cup SponsorMoves \cup {"reset"},
         UNCHANGED frame, led' \in Ledger,
         led'.sponsor = led.sponsor, led'.treasury = led.treasury
  PROVE  IInv'
<1>1. frame' \in Frame BY DEF IInv, TypeOK
<1>2. TypeOK' /\ AllWired' /\ FeeReserved' BY <1>1, TypeKept
<1>3. SlotsBound' /\ CostMeasured' BY SlotsKept
<1>4. SponsorAccounts' BY AccountsKept
<1> QED BY <1>2, <1>3, <1>4 DEF IInv

(* What hop 1 produced is measured by the time it is spent. *)
LEMMA ProceedsNat ==
  ASSUME IInv, NEW step \in {"deduct", "wrapSpend", "bridgeOut", "buy", "spendQuote"}, At(step)
  PROVE  Proceeds \in Nat
<1>1. \/ /\ cur.route \in {"bridgeBuy", "bridgeBuySPL"}
         /\ Past("deltaWsol") \/ Past("deltaQuote")
      \/ /\ cur.route \notin {"bridgeBuy", "bridgeBuySPL"}
         /\ Past("fee") \/ Past("feeQuote")
  BY Motion DEF Shaped, WellOrdered
<1>2. pc > 0 BY DEF At
<1> QED BY <1>1, <1>2 DEF IInv, SlotsBound, Proceeds

LEMMA SpendNat ==
  ASSUME IInv, NEW step \in {"wrapSpend", "bridgeOut", "buy", "spendQuote"}, At(step)
  PROVE  Spend \in Nat
<1>1. cur.sponsored => Past("deduct") /\ step # "spendQuote" BY Motion DEF Shaped, WellOrdered
<1>2. pc > 0 BY DEF At
<1> QED BY <1>1, <1>2, ProceedsNat DEF IInv, SlotsBound, Spend

(* The steps that move only the user's funds. *)
LEMMA UserSteps ==
  ASSUME IInv, UserATAs \/ Sell \/ BridgeIn \/ CloseWsol \/ WrapSpend \/ BridgeOut
                 \/ Buy \/ Unwrap \/ Wrap \/ QuoteIn \/ SpendQuote
  PROVE  IInv'
<1> USE DEF Binders, SponsorMoves, Measures, Repays
<1>0. led \in Ledger /\ ATARent \in Nat BY ChainAssumption DEF IInv, TypeOK
<1>a. ASSUME NEW step, At(step) PROVE cur \in Tx BY <1>a, Motion
<1>1. CASE UserATAs
  <2>1. cur \in Tx /\ Opened(led, cur) <= led.user BY <1>1, <1>a DEF UserATAs
  <2>2. led.user - Opened(led, cur) \in Nat /\ led.atas \cup AtasOf(cur.route) \in SUBSET ATAs
    BY <1>0, <2>1, OpenedNat DEF Ledger
  <2>3. led' = [led EXCEPT !.user = @ - Opened(led, cur), !.atas = @ \cup AtasOf(cur.route)]
    BY <1>1 DEF UserATAs
  <2>4. led' \in Ledger /\ led'.sponsor = led.sponsor /\ led'.treasury = led.treasury
    BY <1>0, <2>2, <2>3, Zenon DEF Ledger
  <2> QED BY <1>1, <2>4, UserStep DEF UserATAs
<1>2. CASE Sell
  <2>1. led' \in Ledger /\ led'.sponsor = led.sponsor /\ led'.treasury = led.treasury
    BY <1>0, <1>2, ChainAssumption DEF Sell, Ledger
  <2> QED BY <1>2, <2>1, UserStep DEF Sell
<1>3. CASE BridgeIn
  <2>1. led' \in Ledger /\ led'.sponsor = led.sponsor /\ led'.treasury = led.treasury
    BY <1>0, <1>3, ChainAssumption DEF BridgeIn, Ledger
  <2> QED BY <1>3, <2>1, UserStep DEF BridgeIn
<1>4. CASE CloseWsol
  <2>1. led.user + led.wsol + ATARent \in Nat /\ 0 \in Nat /\ led.atas \ {"wsol"} \in SUBSET ATAs
    BY <1>0 DEF Ledger
  <2>2. led' = [led EXCEPT !.user = @ + led.wsol + ATARent, !.wsol = 0, !.atas = @ \ {"wsol"}]
    BY <1>4 DEF CloseWsol
  <2>3. led' \in Ledger /\ led'.sponsor = led.sponsor /\ led'.treasury = led.treasury
    BY <1>0, <2>1, <2>2, Zenon DEF Ledger
  <2> QED BY <1>4, <2>3, UserStep DEF CloseWsol
<1>5. CASE WrapSpend
  <2>1. Spend \in Nat /\ Spend <= led.user BY <1>5, SpendNat DEF WrapSpend
  <2>2. led.user - Spend \in Nat /\ led.wsol + Spend \in Nat BY <1>0, <2>1 DEF Ledger
  <2>3. led' = [led EXCEPT !.user = @ - Spend, !.wsol = @ + Spend] BY <1>5 DEF WrapSpend
  <2>4. led' \in Ledger /\ led'.sponsor = led.sponsor /\ led'.treasury = led.treasury
    BY <1>0, <2>2, <2>3, Zenon DEF Ledger
  <2> QED BY <1>5, <2>4, UserStep DEF WrapSpend
<1>6. CASE BridgeOut
  <2>1. Spend \in Nat BY <1>6, SpendNat DEF BridgeOut
  <2>2. led' \in Ledger /\ led'.sponsor = led.sponsor /\ led'.treasury = led.treasury
    BY <1>0, <1>6, <2>1 DEF BridgeOut, Ledger
  <2> QED BY <1>6, <2>2, UserStep DEF BridgeOut
<1>7. CASE Buy
  <2>1. Spend \in Nat BY <1>7, SpendNat DEF Buy
  <2>2. led' \in Ledger /\ led'.sponsor = led.sponsor /\ led'.treasury = led.treasury
    BY <1>0, <1>7, <2>1 DEF Buy, Ledger
  <2> QED BY <1>7, <2>2, UserStep DEF Buy
<1>8. CASE Unwrap
  <2> USE DEF Ledger
  <2> DEFINE Kept == led' \in Ledger /\ led'.sponsor = led.sponsor /\ led'.treasury = led.treasury
  <2>1. cur.amt \in Nat BY <1>8, <1>a DEF Unwrap, Tx
  <2>2. ASSUME cur.amt <= led.wsol, led' = [led EXCEPT !.user = @ + cur.amt, !.wsol = @ - cur.amt]
       PROVE  Kept
    <3>1. led.user + cur.amt \in Nat /\ led.wsol - cur.amt \in Nat BY <1>0, <2>1, <2>2
    <3> QED BY <1>0, <2>2, <3>1, Zenon
  <2>3. ASSUME led' = [led EXCEPT !.user = @ + led.wsol, !.wsol = 0]
       PROVE  Kept
    <3>1. led.user + led.wsol \in Nat /\ 0 \in Nat BY <1>0
    <3> QED BY <1>0, <2>3, <3>1, Zenon
  <2>4. ASSUME led' = [led EXCEPT !.user = @ + led.wsol + ATARent, !.wsol = 0, !.atas = @ \ {"wsol"}]
       PROVE  Kept
    <3>1. led.user + led.wsol + ATARent \in Nat /\ 0 \in Nat /\ led.atas \ {"wsol"} \in SUBSET ATAs
      BY <1>0
    <3> QED BY <1>0, <2>4, <3>1, Zenon
  <2>5. Kept BY <1>8, <2>2, <2>3, <2>4, Zenon DEF Unwrap
  <2> QED BY <1>8, <2>5, UserStep DEF Unwrap
<1>9. CASE Wrap
  <2>1. cur.amt \in Nat /\ cur.amt <= led.user BY <1>9, <1>a DEF Wrap, Tx
  <2>2. led.user - cur.amt \in Nat /\ led.wsol + cur.amt \in Nat BY <1>0, <2>1 DEF Ledger
  <2>3. led' = [led EXCEPT !.user = @ - cur.amt, !.wsol = @ + cur.amt] BY <1>9 DEF Wrap
  <2>4. led' \in Ledger /\ led'.sponsor = led.sponsor /\ led'.treasury = led.treasury
    BY <1>0, <2>2, <2>3, Zenon DEF Ledger
  <2> QED BY <1>9, <2>4, UserStep DEF Wrap
<1>10. CASE QuoteIn
  <2>1. led' \in Ledger /\ led'.sponsor = led.sponsor /\ led'.treasury = led.treasury
    BY <1>0, <1>10, ChainAssumption DEF QuoteIn, Ledger
  <2> QED BY <1>10, <2>1, UserStep DEF QuoteIn
<1>11. CASE SpendQuote
  <2>1. Spend \in Nat BY <1>11, SpendNat DEF SpendQuote
  <2>2. led' \in Ledger /\ led'.sponsor = led.sponsor /\ led'.treasury = led.treasury
    BY <1>0, <1>11, <2>1 DEF SpendQuote, Ledger
  <2> QED BY <1>11, <2>2, UserStep DEF SpendQuote
<1> QED BY <1>1, <1>2, <1>3, <1>4, <1>5, <1>6, <1>7, <1>8, <1>9, <1>10, <1>11

(* A step that binds a slot other than the cost and leaves the sponsor alone. *)
LEMMA BindingStep ==
  ASSUME IInv, NEW step, At(step), step \notin SponsorMoves, NEW slot \in Slots \ {"cost"},
         <<step, slot>> \in {<<"letUser", "before">>, <<"letWsol", "before">>,
                             <<"letQuote", "before">>, <<"deltaUser", "delta">>,
                             <<"deltaWsol", "delta">>, <<"deltaQuote", "delta">>,
                             <<"fee", "net">>, <<"feeQuote", "net">>},
         NEW x \in Nat, frame' = Bind(frame, slot, x), led' \in Ledger,
         led'.sponsor = led.sponsor, led'.treasury = led.treasury
  PROVE  IInv'
<1>1. frame' \in Frame /\ SlotsBound' /\ CostMeasured' /\ frame'["cost"] = frame["cost"]
  BY SlotBound
<1>2. TypeOK' /\ AllWired' /\ FeeReserved' BY <1>1, TypeKept
<1>3. SponsorAccounts' BY <1>1, AccountsKept
<1> QED BY <1>1, <1>2, <1>3 DEF IInv

LEMMA BindingSteps ==
  ASSUME IInv, \/ LetUser \/ LetWsol \/ DeltaUser \/ DeltaWsol \/ Fee
               \/ LetQuote \/ DeltaQuote \/ FeeQuote
  PROVE  IInv'
<1> USE DEF SponsorMoves, Measures, Repays, Slots
<1>0. led \in Ledger BY DEF IInv, TypeOK
<1>1. led.user \in Nat /\ led.wsol \in Nat /\ led.quote \in Nat BY <1>0 DEF Ledger
<1>2. CASE LetUser BY <1>0, <1>1, <1>2, BindingStep DEF LetUser
<1>3. CASE LetWsol BY <1>0, <1>1, <1>3, BindingStep DEF LetWsol
<1>4. CASE DeltaUser
  <2>1. frame["before"] \in Nat
    <3>1. Past("letUser") BY <1>4, Motion DEF DeltaUser, Shaped, WellOrdered
    <3> QED BY <1>4, <3>1 DEF DeltaUser, At, IInv, SlotsBound
  <2>2. led.user - frame["before"] \in Nat BY <1>1, <1>4, <2>1 DEF DeltaUser, Delta
  <2> QED BY <1>0, <1>4, <2>2, BindingStep DEF DeltaUser, Delta
<1>5. CASE DeltaWsol
  <2>1. frame["before"] \in Nat
    <3>1. Past("letWsol") BY <1>5, Motion DEF DeltaWsol, Shaped, WellOrdered
    <3> QED BY <1>5, <3>1 DEF DeltaWsol, At, IInv, SlotsBound
  <2>2. led.wsol - frame["before"] \in Nat BY <1>1, <1>5, <2>1 DEF DeltaWsol, Delta
  <2> QED BY <1>0, <1>5, <2>2, BindingStep DEF DeltaWsol, Delta
<1>6. CASE Fee
  <2> DEFINE fee == ApplyBPS(frame["delta"], FeeBps)
  <2>1. frame["delta"] \in Nat
    <3>1. Past("deltaUser") BY <1>6, Motion DEF Fee, Shaped, WellOrdered
    <3> QED BY <1>6, <3>1 DEF Fee, At, IInv, SlotsBound
  <2>2. FeeBps \in 0..Bps BY RateAssumption DEF Bps
  <2>3. fee \in 0..frame["delta"] BY <2>1, <2>2, ApplyBPSBounds
  <2>4. At("fee") /\ fee <= led.user /\ frame' = Bind(frame, "net", frame["delta"] - fee)
         /\ led' = [led EXCEPT !.user = @ - fee]
    BY <1>6 DEF Fee
  <2> HIDE DEF fee
  <2>5. frame["delta"] - fee \in Nat BY <2>1, <2>3
  <2>6. led' \in Ledger /\ led'.sponsor = led.sponsor /\ led'.treasury = led.treasury
    BY <1>0, <2>1, <2>3, <2>4 DEF Ledger
  <2> QED BY <2>4, <2>5, <2>6, BindingStep
<1>7. CASE LetQuote BY <1>0, <1>1, <1>7, BindingStep DEF LetQuote
<1>8. CASE DeltaQuote
  <2>1. frame["before"] \in Nat
    <3>1. Past("letQuote") BY <1>8, Motion DEF DeltaQuote, Shaped, WellOrdered
    <3> QED BY <1>8, <3>1 DEF DeltaQuote, At, IInv, SlotsBound
  <2>2. led.quote - frame["before"] \in Nat BY <1>1, <1>8, <2>1 DEF DeltaQuote, Delta
  <2> QED BY <1>0, <1>8, <2>2, BindingStep DEF DeltaQuote, Delta
<1>9. CASE FeeQuote
  <2> DEFINE fee == ApplyBPS(frame["delta"], FeeBps)
  <2>1. frame["delta"] \in Nat
    <3>1. Past("deltaQuote") BY <1>9, Motion DEF FeeQuote, Shaped, WellOrdered
    <3> QED BY <1>9, <3>1 DEF FeeQuote, At, IInv, SlotsBound
  <2>2. FeeBps \in 0..Bps BY RateAssumption DEF Bps
  <2>3. fee \in 0..frame["delta"] BY <2>1, <2>2, ApplyBPSBounds
  <2>4. At("feeQuote") /\ fee <= led.quote /\ frame' = Bind(frame, "net", frame["delta"] - fee)
         /\ led' = [led EXCEPT !.quote = @ - fee]
    BY <1>9 DEF FeeQuote
  <2> HIDE DEF fee
  <2>5. frame["delta"] - fee \in Nat BY <2>1, <2>3
  <2>6. led' \in Ledger /\ led'.sponsor = led.sponsor /\ led'.treasury = led.treasury
    BY <1>0, <2>1, <2>3, <2>4 DEF Ledger
  <2> QED BY <2>4, <2>5, <2>6, BindingStep
<1> QED BY <1>2, <1>3, <1>4, <1>5, <1>6, <1>7, <1>8, <1>9

-----------------------------------------------------------------------------
(* The steps that measure what the sponsor pays, and those that repay it.  *)

LEMMA ResetStep == ASSUME IInv, Reset PROVE IInv'
<1>1. At("reset") BY DEF Reset
<1>2. frame' = [s \in Slots |-> Unbound] /\ led' = led BY DEF Reset
<1>3. frame' \in Frame /\ frame'["cost"] = Unbound BY <1>2 DEF Frame, Slots
<1>4. \A s : s # "userATAs" => ~Past(s) BY <1>1, Motion DEF Shaped, WellOrdered, Before
<1>5. \A s : s \notin {"userATAs", "reset"} => ~Past(s)' BY <1>1, <1>4, Motion
<1>6. TypeOK' /\ AllWired' /\ FeeReserved' BY <1>1, <1>2, <1>3, TypeKept DEF IInv, TypeOK
<1>7. SlotsBound' BY <1>5 DEF SlotsBound
<1>8. CostMeasured' BY <1>3, <1>5 DEF CostMeasured
<1>9. SponsorAccounts'
  <2>1. ~Repaid /\ ~Repaid' BY <1>4, <1>5 DEF Repaid, Repays
  <2>2. cur' = cur /\ saved' = saved /\ pc > 0 BY <1>1, Motion DEF At
  <2> QED BY <1>2, <1>4, <1>5, <2>1, <2>2 DEF IInv, SponsorAccounts
<1> QED BY <1>6, <1>7, <1>8, <1>9 DEF IInv

(* Measuring: the cost slot was unbound and now holds what the sponsor's balance lost. *)
LEMMA MeasuringStep ==
  ASSUME IInv, NEW step \in Measures, At(step), NEW cost \in Nat, step = "zeroRent" => cost = 0,
         frame' = Bind(frame, "cost", cost), led' \in Ledger,
         led'.treasury = led.treasury, led'.sponsor = led.sponsor - cost
  PROVE  IInv'
<1> USE DEF Measures, Slots
<1>1. frame \in Frame BY DEF IInv, TypeOK
<1>2. pc > 0 /\ cur' = cur /\ saved' = saved BY Motion DEF At
<1>3. Past("reset") /\ ~Past("sponsorATAs") /\ ~Past("zeroRent")
  BY Motion, MeasuredOnce DEF Shaped
<1>4. \A s \in Repays : ~Past(s) BY Motion, MeasuredOnce DEF Shaped
<1>5. \A s : s # step => (Past(s)' <=> Past(s)) BY Motion
<1>6. Past(step)' BY Motion
<1>7. frame["cost"] = Unbound BY <1>2, <1>3 DEF IInv, CostMeasured
<1>8. frame' \in Frame /\ frame'["cost"] = cost /\ \A s \in Slots : s # "cost" => frame'[s] = frame[s]
  BY <1>1, <1>7, BindSlot
<1>9. TypeOK' /\ AllWired' /\ FeeReserved' BY <1>8, TypeKept
<1>10. SlotsBound' BY <1>2, <1>5, <1>8 DEF IInv, SlotsBound
<1>11. CostMeasured' BY <1>3, <1>5, <1>6, <1>8 DEF CostMeasured
<1>12. SponsorAccounts'
  <2>1. ~Repaid /\ ~Repaid' BY <1>4, <1>5 DEF Repaid, Repays
  <2>2. TipOf(cur) \in Nat /\ FeeOf(cur) \in Nat /\ FixedRepay(cur) \in Nat BY Motion, TxAmounts
  <2>3. saved \in Ledger BY DEF IInv, TypeOK
  <2> QED BY <1>2, <1>3, <1>5, <1>6, <1>8, <2>1, <2>2, <2>3 DEF IInv, SponsorAccounts, Ledger
<1> QED BY <1>9, <1>10, <1>11, <1>12 DEF IInv

LEMMA MeasuringSteps == ASSUME IInv, SponsorATAs \/ ZeroRent PROVE IInv'
<1>1. led \in Ledger BY DEF IInv, TypeOK
<1>2. led.sponsor \in Nat /\ led.atas \in SUBSET ATAs BY <1>1 DEF Ledger
<1>3. CASE SponsorATAs
  <2>1. At("sponsorATAs") /\ Opened(led, cur) <= led.sponsor BY <1>3 DEF SponsorATAs
  <2>2. Opened(led, cur) \in Nat /\ led.atas \cup AtasOf(cur.route) \in SUBSET ATAs
    BY <1>1, <1>2, <2>1, Motion, OpenedNat
  <2>3. led.sponsor - Opened(led, cur) \in Nat BY <1>2, <2>1, <2>2
  <2>4. led' = [led EXCEPT !.sponsor = @ - Opened(led, cur), !.atas = @ \cup AtasOf(cur.route)]
    BY <1>3 DEF SponsorATAs
  <2>5. led' \in Ledger /\ led'.treasury = led.treasury
         /\ led'.sponsor = led.sponsor - Opened(led, cur)
    BY <1>1, <2>2, <2>3, <2>4, Zenon DEF Ledger
  <2>6. led.sponsor - led'.sponsor = Opened(led, cur) BY <1>2, <2>2, <2>5
  <2>7. frame' = Bind(frame, "cost", led.sponsor - led'.sponsor) BY <1>3 DEF SponsorATAs
  <2>8. frame' = Bind(frame, "cost", Opened(led, cur)) BY <2>6, <2>7
  <2> QED BY <2>1, <2>2, <2>5, <2>8, MeasuringStep DEF Measures
<1>4. CASE ZeroRent
  <2>1. At("zeroRent") /\ frame' = Bind(frame, "cost", 0) /\ led' = led BY <1>4 DEF ZeroRent
  <2>2. led'.sponsor = led.sponsor - 0 BY <1>2, <2>1
  <2> QED BY <1>1, <2>1, <2>2, MeasuringStep DEF Measures
<1> QED BY <1>3, <1>4

(* By the time of a repay the cost is measured, and nothing has been repaid. *)
LEMMA SettleNat ==
  ASSUME IInv, NEW step \in Repays, At(step)
  PROVE  /\ frame["cost"] \in Nat /\ FixedRepay(cur) \in Nat /\ Settle \in Nat
         /\ ~Repaid /\ Repaid'
<1>1. \E m \in Measures : Past(m) BY Motion DEF Shaped, WellOrdered
<1>2. frame["cost"] \in Nat BY <1>1 DEF IInv, SlotsBound, Measures, At
<1>3. FixedRepay(cur) \in Nat BY Motion, TxAmounts
<1>4. ~Repaid
  <2>1. \A j \in 1..Len(Plan(cur)) : Plan(cur)[j] \in Repays => j = pc
    BY Motion DEF Shaped, WellOrdered
  <2>2. \A s \in Repays : ~Past(s) BY <2>1, Motion
  <2> QED BY <2>2 DEF Repaid
<1>5. Repaid' BY Motion DEF Repaid
<1> QED BY <1>2, <1>3, <1>4, <1>5 DEF Settle

LEMMA RepayingStep ==
  ASSUME IInv, NEW step \in Repays, At(step), led' \in Ledger,
         led'.sponsor = led.sponsor, led'.treasury = led.treasury + Settle,
         frame' \in Frame, frame'["cost"] = frame["cost"], SlotsBound', CostMeasured'
  PROVE  IInv'
<1>1. TypeOK' /\ AllWired' /\ FeeReserved' BY TypeKept
<1>2. SponsorAccounts'
  <2>1. \A s : s # step => (Past(s)' <=> Past(s)) BY Motion
  <2>2. cur' = cur /\ saved' = saved /\ pc > 0 /\ saved \in Ledger
    BY Motion DEF At, IInv, TypeOK
  <2>3. FixedRepay(cur) \in Nat /\ frame["cost"] \in Nat /\ ~Repaid /\ Repaid' BY SettleNat
  <2>4. Past("sponsorATAs")' <=> Past("sponsorATAs") BY <2>1 DEF Repays
  <2>5. Past("tip")' <=> Past("tip") BY <2>1 DEF Repays
  <2>6. Past("repayFixed")' <=> Past("repayFixed") BY <2>1 DEF Repays
  <2>7. TipOf(cur) \in Nat /\ FeeOf(cur) \in Nat BY Motion, TxAmounts
  <2>8. led \in Ledger /\ step # "repayFixed" BY DEF IInv, TypeOK, Repays
  <2>9. led.treasury = saved.treasury + (IF Past("repayFixed") THEN FixedRepay(cur) ELSE 0)
    \/ ~cur.sponsored
    BY <2>2, <2>3, <2>8 DEF IInv, SponsorAccounts, Ledger
  <2>10. cur.sponsored =>
           led'.sponsor = saved.sponsor - FeeOf(cur)
                       - (IF Past("sponsorATAs") THEN frame["cost"] ELSE 0)
                       - (IF Past("tip") THEN TipOf(cur) ELSE 0)
    BY <2>2 DEF IInv, SponsorAccounts
  <2>11. cur.sponsored =>
           led'.treasury = saved.treasury + (frame["cost"] + FixedRepay(cur))
                       + (IF Past("repayFixed") THEN FixedRepay(cur) ELSE 0)
    BY <2>2, <2>3, <2>8, <2>9 DEF Settle, Ledger
  <2> QED BY <2>2, <2>3, <2>4, <2>5, <2>6, <2>10, <2>11 DEF SponsorAccounts
<1> QED BY <1>1, <1>2 DEF IInv

LEMMA RepayingSteps == ASSUME IInv, Deduct \/ Repay \/ RepayWsol PROVE IInv'
<1> USE DEF Repays, Slots
<1>1. led \in Ledger /\ frame \in Frame BY DEF IInv, TypeOK
<1>2. led.user \in Nat /\ led.wsol \in Nat /\ led.treasury \in Nat BY <1>1 DEF Ledger
<1>3. ASSUME Settle \in Nat, PayTreasury(Settle)
      PROVE  led' \in Ledger /\ led'.sponsor = led.sponsor /\ led'.treasury = led.treasury + Settle
  <2>1. led.user - Settle \in Nat /\ led.treasury + Settle \in Nat
    BY <1>2, <1>3 DEF PayTreasury
  <2>2. led' = [led EXCEPT !.user = @ - Settle, !.treasury = @ + Settle]
    BY <1>3 DEF PayTreasury
  <2> QED BY <1>1, <2>1, <2>2, Zenon DEF Ledger
<1>4. CASE Deduct
  <2>1. At("deduct") /\ Proceeds >= Settle /\ frame' = Bind(frame, "spend", Proceeds - Settle)
         /\ PayTreasury(Settle)
    BY <1>4 DEF Deduct
  <2>2. Settle \in Nat BY <2>1, SettleNat
  <2>3. Proceeds \in Nat BY <2>1, ProceedsNat
  <2>4. Proceeds - Settle \in Nat BY <2>1, <2>2, <2>3
  <2>5. frame' \in Frame /\ SlotsBound' /\ CostMeasured' /\ frame'["cost"] = frame["cost"]
    BY <2>1, <2>4, SlotBound
  <2> QED BY <1>3, <2>1, <2>2, <2>5, RepayingStep
<1>5. CASE Repay
  <2>1. At("repay") /\ PayTreasury(Settle) /\ UNCHANGED frame BY <1>5 DEF Repay
  <2>2. Settle \in Nat BY <2>1, SettleNat
  <2>3. SlotsBound' /\ CostMeasured' BY <2>1, SlotsKept DEF Binders, Measures
  <2> QED BY <1>1, <1>3, <2>1, <2>2, <2>3, RepayingStep
<1>6. CASE RepayWsol
  <2>1. At("repayWsol") /\ led.wsol >= Settle /\ UNCHANGED frame BY <1>6 DEF RepayWsol
  <2>2. Settle \in Nat BY <2>1, SettleNat
  <2>3. led.wsol - Settle \in Nat /\ led.treasury + Settle \in Nat BY <1>2, <2>1, <2>2
  <2>4. led' = [led EXCEPT !.wsol = @ - Settle, !.treasury = @ + Settle] BY <1>6 DEF RepayWsol
  <2>5. led' \in Ledger /\ led'.sponsor = led.sponsor /\ led'.treasury = led.treasury + Settle
    BY <1>1, <2>3, <2>4, Zenon DEF Ledger
  <2>6. SlotsBound' /\ CostMeasured' BY <2>1, SlotsKept DEF Binders, Measures
  <2> QED BY <1>1, <2>1, <2>5, <2>6, RepayingStep
<1> QED BY <1>4, <1>5, <1>6

(* The fixed repay of an unwrap, and the tip. *)
LEMMA LastSteps == ASSUME IInv, RepayFixed \/ Tip PROVE IInv'
<1>1. led \in Ledger /\ frame \in Frame /\ saved \in Ledger BY DEF IInv, TypeOK
<1>2. led.user \in Nat /\ led.sponsor \in Nat /\ led.treasury \in Nat BY <1>1 DEF Ledger
<1>3. ASSUME NEW step \in {"tip", "repayFixed"}, At(step), UNCHANGED frame, led' \in Ledger,
             led'.sponsor = led.sponsor
               - (IF step = "tip" /\ cur.sponsored THEN TipOf(cur) ELSE 0),
             led'.treasury = led.treasury
               + (IF step = "repayFixed" THEN FixedRepay(cur) ELSE 0)
      PROVE  IInv'
  <2>1. TypeOK' /\ AllWired' /\ FeeReserved' BY <1>1, <1>3, TypeKept
  <2>2. SlotsBound' /\ CostMeasured' BY <1>3, SlotsKept DEF Binders, Measures
  <2>3. \A s : s # step => (Past(s)' <=> Past(s)) BY <1>3, Motion
  <2>4. Repaid' <=> Repaid BY <1>3, <2>3 DEF Repaid, Repays
  <2>5. ~Past(step) /\ Past(step)' BY <1>3, Motion DEF Shaped, WellOrdered
  <2>6. cur \in Tx /\ cur' = cur /\ saved' = saved /\ pc > 0 BY <1>3, Motion DEF At
  <2>7. TipOf(cur) \in Nat /\ FeeOf(cur) \in Nat /\ FixedRepay(cur) \in Nat BY <2>6, TxAmounts
  <2>8. Past("sponsorATAs") => frame["cost"] \in Nat BY <2>6 DEF IInv, SlotsBound
  <2>9. SponsorAccounts'
    <3> DEFINE rent == IF Past("sponsorATAs") THEN frame["cost"] ELSE 0
               repaid == IF Repaid THEN frame["cost"] + FixedRepay(cur) ELSE 0
    <3>1. cur.sponsored => /\ led.sponsor = saved.sponsor - FeeOf(cur) - rent
                                 - (IF Past("tip") THEN TipOf(cur) ELSE 0)
                           /\ led.treasury = saved.treasury + repaid
                                 + (IF Past("repayFixed") THEN FixedRepay(cur) ELSE 0)
      BY <2>6 DEF IInv, SponsorAccounts
    <3>2. Past("sponsorATAs")' <=> Past("sponsorATAs") BY <2>3
    <3>3. rent' = rent /\ repaid' = repaid BY <1>3, <2>4, <2>6, <3>2
    <3>4. rent \in Nat BY <2>8
    <3>5. SponsorAccounts' <=>
            (cur.sponsored => /\ led'.sponsor = saved.sponsor - FeeOf(cur) - rent
                                 - (IF Past("tip")' THEN TipOf(cur) ELSE 0)
                              /\ led'.treasury = saved.treasury + repaid
                                 + (IF Past("repayFixed")' THEN FixedRepay(cur) ELSE 0))
      <4>1. pc' > 0 BY <1>3, <2>6, Motion
      <4> QED BY <2>6, <3>3, <4>1 DEF SponsorAccounts
    <3> HIDE DEF rent, repaid
    <3>6. CASE step = "tip"
      <4>1. Past("repayFixed")' <=> Past("repayFixed") BY <2>3, <3>6
      <4>2. led'.treasury = led.treasury BY <1>2, <1>3, <3>6
      <4>3. cur.sponsored => led'.sponsor = led.sponsor - TipOf(cur) BY <1>3, <3>6
      <4>4. cur.sponsored => led.sponsor = saved.sponsor - FeeOf(cur) - rent
        BY <1>1, <2>5, <2>7, <3>1, <3>4, <3>6 DEF Ledger
      <4> QED BY <2>5, <3>1, <3>5, <3>6, <4>1, <4>2, <4>3, <4>4
    <3>7. CASE step = "repayFixed"
      <4>1. Past("tip")' <=> Past("tip") BY <2>3, <3>7
      <4>2. led'.sponsor = led.sponsor BY <1>2, <1>3, <3>7
      <4>3. led'.treasury = led.treasury + FixedRepay(cur) BY <1>3, <3>7
      <4>4. repaid \in Nat
        <5>1. Repaid => frame["cost"] \in Nat
          <6>1. ASSUME NEW s \in Repays, Past(s) PROVE \E m \in Measures : Past(m)
            BY <1>3, <6>1, Motion, MeasuredOnce DEF Shaped, Before
          <6>2. Repaid => Past("sponsorATAs") \/ Past("zeroRent")
            BY <6>1 DEF Repaid, Measures
          <6> QED BY <2>6, <6>2 DEF IInv, SlotsBound
        <5> QED BY <2>7, <5>1 DEF repaid
      <4>5. cur.sponsored => led.treasury = saved.treasury + repaid
        BY <1>1, <2>5, <3>1, <3>7, <4>4 DEF Ledger
      <4> QED BY <2>5, <3>1, <3>5, <3>7, <4>1, <4>2, <4>3, <4>5
    <3> QED BY <1>3, <3>6, <3>7
  <2> QED BY <2>1, <2>2, <2>9 DEF IInv
<1>4. CASE RepayFixed
  <2>1. At("repayFixed") /\ FixedRepay(cur) <= led.user /\ UNCHANGED frame
         /\ led' = [led EXCEPT !.user = @ - FixedRepay(cur), !.treasury = @ + FixedRepay(cur)]
    BY <1>4 DEF RepayFixed, PayTreasury
  <2>2. FixedRepay(cur) \in Nat BY <2>1, Motion, TxAmounts
  <2>3. led.user - FixedRepay(cur) \in Nat /\ led.treasury + FixedRepay(cur) \in Nat
    BY <1>2, <2>1, <2>2
  <2>4. led' \in Ledger /\ led'.sponsor = led.sponsor
         /\ led'.treasury = led.treasury + FixedRepay(cur)
    BY <1>1, <2>1, <2>3, Zenon DEF Ledger
  <2>5. led'.sponsor = led.sponsor - 0 BY <1>2, <2>4
  <2> QED BY <1>3, <2>1, <2>4, <2>5
<1>5. CASE Tip
  <2>1. At("tip") /\ UNCHANGED frame BY <1>5 DEF Tip
  <2>2. TipOf(cur) \in Nat BY <2>1, Motion, TxAmounts
  <2>3. CASE cur.sponsored
    <3>1. led' \in Ledger /\ led'.sponsor = led.sponsor - TipOf(cur) /\ led'.treasury = led.treasury
      BY <1>1, <1>2, <1>5, <2>2, <2>3 DEF Tip, Ledger
    <3>2. led'.treasury = led.treasury + 0 BY <1>2, <3>1
    <3> QED BY <1>3, <2>1, <2>3, <3>1, <3>2
  <2>4. CASE ~cur.sponsored
    <3>1. led' \in Ledger /\ led'.sponsor = led.sponsor /\ led'.treasury = led.treasury
      BY <1>1, <1>2, <1>5, <2>2, <2>4 DEF Tip, Ledger
    <3>2. led'.sponsor = led.sponsor - 0 /\ led'.treasury = led.treasury + 0 BY <1>2, <3>1
    <3> QED BY <1>3, <2>1, <2>4, <3>1, <3>2
  <2> QED BY <2>3, <2>4
<1> QED BY <1>4, <1>5

-----------------------------------------------------------------------------
(* Building, landing, ending, and the rest of the world.                   *)

(* A quote the server lets through leaves a natural amount for the second hop. *)
LEMMA SizedNat ==
  ASSUME NEW route \in Routes \ SettlementRoutes, NEW q \in Nat, Buildable(route, q)
  PROVE  /\ MinOut(q, SlippageBps) \in Nat
         /\ route \in ChainedRoutes => SizedSecondHop(route, q) \in Nat
<1>1. MinOut(q, SlippageBps) \in Nat BY MinOutBounds, RateAssumption
<1>2. QuoteDeduction(route) \in Nat
  <2>1. Sched \in Schedule BY SchedAssumption DEF Schedule
  <2>2. ATAEstimate(route) \in Nat BY DEF ATAEstimate
  <2>3. EstimateRepayLamports(Sched, 2, ATAEstimate(route), TipLamports) \in Nat
    BY <2>1, <2>2, RateAssumption, ScheduleAmounts
  <2> QED BY <2>3 DEF QuoteDeduction
<1>3. GrossSecondHop(route, q) \in Nat
  <2>1. FeeBps \in 0..Bps BY RateAssumption DEF Bps
  <2>2. ApplyBPS(MinOut(q, SlippageBps), FeeBps) \in 0..MinOut(q, SlippageBps)
    BY <1>1, <2>1, ApplyBPSBounds
  <2> QED BY <1>1, <2>2 DEF GrossSecondHop
<1>4. ASSUME route \in ChainedRoutes PROVE SizedSecondHop(route, q) \in Nat
  BY <1>2, <1>3, <1>4 DEF Buildable, CanSubtractRepay, SizedSecondHop
<1> QED BY <1>1, <1>4

(* Issuing a well-formed transaction between landings. *)
LEMMA IssueStep ==
  ASSUME IInv, pc = 0, NEW tx \in Tx, Wired(tx), Issue(tx)
  PROVE  IInv'
<1>1. built' \in 0..MaxTx BY ChainAssumption DEF IInv, TypeOK, Issue
<1>2. TypeOK' BY <1>1 DEF IInv, TypeOK, Issue
<1>3. AllWired' /\ FeeReserved' BY DEF IInv, AllWired, FeeReserved, Issue
<1>4. SlotsBound' /\ CostMeasured' /\ SponsorAccounts'
  BY DEF Issue, SlotsBound, CostMeasured, SponsorAccounts
<1> QED BY <1>2, <1>3, <1>4 DEF IInv

LEMMA BuildSteps ==
  ASSUME IInv,
         \/ \E route \in Offered \ SettlementRoutes, sp, mev \in BOOLEAN, q \in Outs :
              BuildSwap(route, sp, mev, q)
         \/ \E sp \in BOOLEAN, amt \in Outs, mode \in UnwrapModes : BuildUnwrap(sp, amt, mode)
         \/ \E amt \in Outs : BuildWrap(amt)
  PROVE  IInv'
<1>1. ASSUME built < MaxTx PROVE built + 1 \in 1..MaxTx
  BY <1>1, ChainAssumption DEF IInv, TypeOK
<1>2. ASSUME NEW route \in Offered \ SettlementRoutes, NEW sp \in BOOLEAN, NEW mev \in BOOLEAN,
             NEW q \in Outs, BuildSwap(route, sp, mev, q)
      PROVE  IInv'
  <2> DEFINE sized == IF route \in ChainedRoutes THEN SizedSecondHop(route, q) ELSE 0
             tx == NewTx(route, sp, mev, 0, MinOut(q, SlippageBps), sized, "partial")
  <2>1. pc = 0 /\ (sp => route \in SponsoredRoutes) /\ Buildable(route, q) /\ Issue(tx)
    BY <1>2 DEF BuildSwap
  <2>2. route \in Routes \ SettlementRoutes /\ q \in Nat BY ChainAssumption
  <2>3. MinOut(q, SlippageBps) \in Nat /\ sized \in Nat BY <2>1, <2>2, SizedNat
  <2>4. built + 1 \in 1..MaxTx BY <1>1, <2>1 DEF Issue
  <2> HIDE DEF sized
  <2>5. tx \in Tx BY <2>2, <2>3, <2>4 DEF Tx, NewTx, UnwrapModes
  <2>6. Wired(tx) BY <2>1 DEF Wired, NewTx
  <2> QED BY <2>1, <2>5, <2>6, IssueStep
<1>3. ASSUME NEW sp \in BOOLEAN, NEW amt \in Outs, NEW mode \in UnwrapModes,
             BuildUnwrap(sp, amt, mode)
      PROVE  IInv'
  <2> DEFINE tx == NewTx("unwrap", sp, FALSE, amt, 0, 0, mode)
  <2>1. pc = 0 /\ Issue(tx) BY <1>3 DEF BuildUnwrap
  <2>2. built + 1 \in 1..MaxTx BY <1>1, <2>1 DEF Issue
  <2>3. tx \in Tx BY <2>2, ChainAssumption DEF Tx, NewTx, Routes
  <2>4. Wired(tx) BY DEF Wired, NewTx, SponsoredRoutes, SPLRoutes, Routes
  <2> QED BY <2>1, <2>3, <2>4, IssueStep
<1>4. ASSUME NEW amt \in Outs, BuildWrap(amt) PROVE IInv'
  <2> DEFINE tx == NewTx("wrap", FALSE, FALSE, amt, 0, 0, "partial")
  <2>1. pc = 0 /\ Issue(tx) BY <1>4 DEF BuildWrap
  <2>2. built + 1 \in 1..MaxTx BY <1>1, <2>1 DEF Issue
  <2>3. tx \in Tx BY <2>2, ChainAssumption DEF Tx, NewTx, Routes, UnwrapModes
  <2>4. Wired(tx) BY DEF Wired, NewTx
  <2> QED BY <2>1, <2>3, <2>4, IssueStep
<1> QED BY <1>2, <1>3, <1>4

(* A fee payer that can pay the fee still has a natural balance after it. *)
LEMMA ChargeFeeType ==
  ASSUME NEW l \in Ledger, NEW tx \in Tx, CanPayFee(l, tx)
  PROVE  /\ ChargeFee(l, tx) \in Ledger
         /\ tx.sponsored => /\ ChargeFee(l, tx).sponsor = l.sponsor - FeeOf(tx)
                            /\ ChargeFee(l, tx).treasury = l.treasury
<1>1. FeeOf(tx) \in Nat BY TxAmounts
<1> QED BY <1>1 DEF ChargeFee, CanPayFee, Ledger

LEMMA LandStep == ASSUME IInv, NEW tx \in pending, Land(tx) PROVE IInv'
<1>1. tx \in Tx /\ tx # NoTx BY DEF IInv, TypeOK, Tx, NoTx
<1>2. pc = 0 /\ led \in Ledger /\ saved = led /\ pc' = 1 /\ cur' = tx
  BY DEF IInv, TypeOK, FeeReserved, Land
<1>3. led' = ChargeFee(led, tx) /\ CanPayFee(led, tx) /\ UNCHANGED <<saved, frame, frame0, built>>
  BY DEF Land
<1>4. led' \in Ledger BY <1>1, <1>2, <1>3, ChargeFeeType
<1>5. \A s : ~Past(s)' BY <1>2 DEF Past
<1>6. Len(Plan(tx)) \in Nat BY <1>1, PlanShape, LenProperties DEF Shaped
<1>7. TypeOK' BY <1>1, <1>2, <1>3, <1>4, <1>6 DEF IInv, TypeOK, Land
<1>8. AllWired' BY <1>2 DEF IInv, AllWired, Land
<1>9. FeeReserved' BY <1>2, <1>3 DEF FeeReserved, CanPayFee
<1>10. SlotsBound' /\ CostMeasured' BY <1>5 DEF SlotsBound, CostMeasured
<1>11. SponsorAccounts'
  <2>1. ~Repaid' BY <1>5 DEF Repaid
  <2>2. FeeOf(tx) \in Nat BY <1>1, TxAmounts
  <2>3. tx.sponsored => led'.sponsor = saved.sponsor - FeeOf(tx) /\ led'.treasury = saved.treasury
    BY <1>1, <1>2, <1>3, ChargeFeeType
  <2> QED BY <1>2, <1>3, <1>5, <2>1, <2>2, <2>3 DEF SponsorAccounts, Ledger
<1> QED BY <1>7, <1>8, <1>9, <1>10, <1>11 DEF IInv

LEMMA EndSteps == ASSUME IInv, Commit \/ Abort PROVE IInv'
<1>1. pc' = 0 /\ cur' = NoTx /\ pc > 0 BY DEF Commit, Abort, Finished
<1>2. SlotsBound' /\ CostMeasured' /\ SponsorAccounts'
  BY <1>1 DEF SlotsBound, CostMeasured, SponsorAccounts
<1>3. CASE Commit
  <2>1. TypeOK' BY <1>1, <1>3 DEF IInv, TypeOK, Commit
  <2>2. AllWired' /\ FeeReserved' BY <1>1, <1>3 DEF IInv, AllWired, FeeReserved, Commit
  <2> QED BY <1>2, <2>1, <2>2 DEF IInv
<1>4. CASE Abort
  <2>1. cur \in Tx /\ saved \in Ledger BY <1>1 DEF IInv, TypeOK
  <2>2. CanPayFee(saved, cur) BY <1>1 DEF IInv, FeeReserved, CanPayFee
  <2>3. ChargeFee(saved, cur) \in Ledger BY <2>1, <2>2, ChargeFeeType
  <2>4. TypeOK' BY <1>1, <1>4, <2>3 DEF IInv, TypeOK, Abort
  <2>5. AllWired' /\ FeeReserved' BY <1>1, <1>4 DEF IInv, AllWired, FeeReserved, Abort
  <2> QED BY <1>2, <2>4, <2>5 DEF IInv
<1> QED BY <1>3, <1>4

LEMMA IdleSteps ==
  ASSUME IInv, \/ \E tx \in pending : Expire(tx)
               \/ UserActivity \/ FrameUsedByOthers
  PROVE  IInv'
<1>1. pc = 0 /\ pc' = 0 /\ cur' = cur BY DEF Expire, UserActivity, FrameUsedByOthers
<1>2. SlotsBound' /\ CostMeasured' /\ SponsorAccounts'
  BY <1>1 DEF SlotsBound, CostMeasured, SponsorAccounts
<1>3. CASE \E tx \in pending : Expire(tx)
  <2>1. TypeOK' BY <1>3 DEF IInv, TypeOK, Expire
  <2>2. AllWired' /\ FeeReserved' BY <1>3 DEF IInv, AllWired, FeeReserved, Expire
  <2> QED BY <1>2, <2>1, <2>2 DEF IInv
<1>4. CASE UserActivity
  <2>1. PICK u \in UserFunds, w \in WsolFunds, x \in QuoteFunds, a \in SUBSET OwnATAs :
          led' = [led EXCEPT !.user = u, !.wsol = w, !.quote = x, !.atas = a]
    BY <1>4, Zenon DEF UserActivity
  <2>2. u \in Nat /\ w \in Nat /\ x \in Nat /\ a \in SUBSET ATAs BY ChainAssumption
  <2>3. led \in Ledger BY DEF IInv, TypeOK
  <2>4. led' \in Ledger BY <2>1, <2>2, <2>3, Zenon DEF Ledger
  <2>5. saved' = led' /\ UNCHANGED <<frame, frame0, built, pending, cur, pc>>
    BY <1>4, Zenon DEF UserActivity
  <2>6. TypeOK' BY <2>4, <2>5 DEF IInv, TypeOK
  <2>7. AllWired' /\ FeeReserved' BY <1>1, <2>5 DEF IInv, AllWired, FeeReserved
  <2> QED BY <1>2, <2>6, <2>7 DEF IInv
<1>5. CASE FrameUsedByOthers
  <2>1. frame' \in Frame BY <1>5, ChainAssumption DEF FrameUsedByOthers, Frame
  <2>2. TypeOK' BY <1>5, <2>1 DEF IInv, TypeOK, FrameUsedByOthers
  <2>3. AllWired' /\ FeeReserved' BY <1>1, <1>5 DEF IInv, AllWired, FeeReserved, FrameUsedByOthers
  <2> QED BY <1>2, <2>2, <2>3 DEF IInv
<1> QED BY <1>3, <1>4, <1>5

LEMMA Initially == Init => IInv
<1> SUFFICES ASSUME Init PROVE IInv OBVIOUS
<1>1. led \in Ledger BY ChainAssumption DEF Init, Ledger
<1>2. frame \in Frame BY ChainAssumption DEF Init, Frame, Unbound
<1>3. TypeOK BY <1>1, <1>2, ChainAssumption DEF Init, TypeOK
<1>4. pc = 0 /\ pending = {} /\ saved = led /\ frame0 = frame BY DEF Init
<1> QED BY <1>3, <1>4
    DEF IInv, AllWired, FeeReserved, SlotsBound, CostMeasured, SponsorAccounts

LEMMA Inductive == IInv /\ [Next]_vars => IInv'
<1> SUFFICES ASSUME IInv, [Next]_vars PROVE IInv' OBVIOUS
<1>1. CASE UserATAs \/ Sell \/ BridgeIn \/ CloseWsol \/ WrapSpend \/ BridgeOut
             \/ Buy \/ Unwrap \/ Wrap \/ QuoteIn \/ SpendQuote
  BY <1>1, UserSteps
<1>2. CASE \/ LetUser \/ LetWsol \/ DeltaUser \/ DeltaWsol \/ Fee
           \/ LetQuote \/ DeltaQuote \/ FeeQuote
  BY <1>2, BindingSteps
<1>3. CASE Reset BY <1>3, ResetStep
<1>4. CASE SponsorATAs \/ ZeroRent BY <1>4, MeasuringSteps
<1>5. CASE Deduct \/ Repay \/ RepayWsol BY <1>5, RepayingSteps
<1>6. CASE RepayFixed \/ Tip BY <1>6, LastSteps
<1>7. CASE \/ \E route \in Offered \ SettlementRoutes, sp, mev \in BOOLEAN, q \in Outs :
                BuildSwap(route, sp, mev, q)
           \/ \E sp \in BOOLEAN, amt \in Outs, mode \in UnwrapModes : BuildUnwrap(sp, amt, mode)
           \/ \E amt \in Outs : BuildWrap(amt)
  BY <1>7, BuildSteps
<1>8. CASE \E tx \in pending : Land(tx) BY <1>8, LandStep
<1>9. CASE Commit \/ Abort BY <1>9, EndSteps
<1>10. CASE (\E tx \in pending : Expire(tx)) \/ UserActivity \/ FrameUsedByOthers
  BY <1>10, IdleSteps
<1>11. CASE UNCHANGED vars
  <2>1. \A s : Past(s)' <=> Past(s) BY <1>11 DEF vars, Past
  <2>2. Repaid' <=> Repaid BY <2>1 DEF Repaid
  <2>3. TypeOK' /\ AllWired' /\ FeeReserved'
    BY <1>11 DEF vars, IInv, TypeOK, AllWired, FeeReserved, Wired
  <2>4. SlotsBound' /\ CostMeasured' BY <1>11, <2>1 DEF vars, IInv, SlotsBound, CostMeasured
  <2>5. SponsorAccounts' BY <1>11, <2>1, <2>2 DEF vars, IInv, SponsorAccounts
  <2> QED BY <2>3, <2>4, <2>5 DEF IInv
<1> QED BY <1>1, <1>2, <1>3, <1>4, <1>5, <1>6, <1>7, <1>8, <1>9, <1>10, <1>11, Zenon
    DEF Next, Step

-----------------------------------------------------------------------------
(* The theorems.                                                           *)

(* The invariant holds in every behaviour, for every value of the constants. *)
THEOREM InvariantHolds == Spec => []IInv
BY Initially, Inductive, PTL DEF Spec

(***************************************************************************)
(* Whatever is built, in whatever order transactions land, fail or expire, *)
(* no balance goes negative, and every amount a step reads or writes is a  *)
(* natural number: no step of a plan reads a slot that was never bound.    *)
(***************************************************************************)
THEOREM TypeCorrect == Spec => []TypeOK
<1>1. IInv => TypeOK BY DEF IInv
<1> QED BY <1>1, InvariantHolds, PTL

(* When a sponsored plan has run to its end, it has repaid what it made the sponsor pay. *)
LEMMA RepaidAtEnd == IInv => SponsorMadeWhole
<1> SUFFICES ASSUME IInv, Finished, cur.sponsored
             PROVE  SponsorSide(led) + 1 >= SponsorSide(saved)
  BY DEF SponsorMadeWhole
<1>1. cur \in Tx /\ Wired(cur) /\ pc > 0 BY DEF Finished, IInv, TypeOK, AllWired
<1>2. pc = Len(Plan(cur)) + 1 BY DEF Finished
<1>3. led \in Ledger /\ saved \in Ledger BY DEF IInv, TypeOK
<1>4. Len(Plan(cur)) \in Nat BY <1>1, PlanShape, LenProperties DEF Shaped
<1>5. \A s : Past(s) <=> \E i \in 1..Len(Plan(cur)) : Plan(cur)[i] = s BY <1>2, <1>4 DEF Past
<1>6. FeeOf(cur) \in Nat /\ FixedRepay(cur) \in Nat /\ TipOf(cur) \in Nat
      /\ FixedRepay(cur) + 1 >= FeeOf(cur) + TipOf(cur)
  BY <1>1, TxAmounts
<1>7. Repaying(Plan(cur)) BY <1>1, PlanShape DEF Shaped
<1>8. \/ /\ Past("sponsorATAs") \/ Past("zeroRent")
         /\ Repaid /\ Past("tip")
      \/ /\ ~Past("sponsorATAs") /\ ~Past("zeroRent") /\ ~Repaid /\ ~Past("tip")
         /\ Past("repayFixed")
  BY <1>5, <1>7 DEF Repaying, Repaid, Measures, Repays
<1>9. Past("sponsorATAs") \/ Past("zeroRent") => frame["cost"] \in Nat
  BY <1>1 DEF IInv, SlotsBound
<1>10. QED
  BY <1>1, <1>3, <1>6, <1>8, <1>9 DEF IInv, SponsorAccounts, SponsorSide, Ledger

(***************************************************************************)
(* For every fee schedule, tip, buffer, rent, slippage and number of open  *)
(* transactions, and whatever the user does meanwhile: a sponsored         *)
(* transaction that commits leaves the sponsor's fee payer and treasury    *)
(* together with what they had, up to one lamport of rounding.             *)
(***************************************************************************)
THEOREM MadeWhole == Spec => []SponsorMadeWhole
BY InvariantHolds, RepaidAtEnd, PTL
=============================================================================
