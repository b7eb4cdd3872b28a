------------------------ MODULE IfxTxContract_proofs ------------------------
(***************************************************************************)
(* The step-by-step execution implements the atomic contract, for every    *)
(* value of the constants.                                                 *)
(*                                                                         *)
(* Seen from outside only saved and the transactions Held matter, so every *)
(* step of a running transaction is a stutter.  Three facts connect the    *)
(* two levels: an offer stands for one transaction only (OffersDistinct),  *)
(* a self-funded plan leaves the sponsor's accounts alone (OwnMoney), and  *)
(* the invariants already proved of a sponsored one.                       *)
(***************************************************************************)
EXTENDS IfxTxTrade_proofs

(* The transactions handed out and not settled, and what a browser sees of them. *)
Held == pending \cup (IF pc > 0 THEN {cur} ELSE {})
Offers == {OfferOf(tx) : tx \in Held}

(* An id is given out once, so settling one transaction removes one offer. *)
OffersDistinct ==
  /\ \A tx \in Held : tx.id \in 1..built
  /\ \A a, b \in Held : a.id = b.id => a = b
  /\ pc > 0 => cur \notin pending

(* Nothing of the sponsor's is touched on behalf of a user who pays. *)
OwnMoney ==
  pc > 0 /\ ~cur.sponsored => led.sponsor = saved.sponsor /\ led.treasury = saved.treasury

CInv == OffersDistinct /\ OwnMoney

-----------------------------------------------------------------------------
(* The contract's invariant.                                               *)

SponsorSteps == {"sponsorATAs", "repayFixed"} \cup Repays

(* One case per plan; each follows by looking at the tuple. *)
LEMMA SelfFundedShape ==
  ASSUME NEW tx \in Tx, ~tx.sponsored, NEW i \in 1..Len(Plan(tx))
  PROVE  Plan(tx)[i] \notin SponsorSteps
<1> DEFINE p == SelfFundedPlan[tx.route]
<1>1. Plan(tx) = p BY DEF Plan
<1>2. tx.route \in Routes BY DEF Tx
<1> USE DEF SelfFundedPlan, SponsorSteps, Repays
<1>3. CASE tx.route = "sell" BY <1>1, <1>3
<1>4. CASE tx.route = "sellBridge" BY <1>1, <1>4
<1>5. CASE tx.route = "sellBuy" BY <1>1, <1>5
<1>6. CASE tx.route = "bridgeBuy" BY <1>1, <1>6
<1>7. CASE tx.route = "quoteSOL" BY <1>1, <1>7
<1>8. CASE tx.route = "quoteWSOL" BY <1>1, <1>8
<1>9. CASE tx.route = "unwrap" BY <1>1, <1>9
<1>10. CASE tx.route = "wrap" BY <1>1, <1>10
<1>11. CASE tx.route = "sellSPL" BY <1>1, <1>11
<1>12. CASE tx.route = "bridgeBuySPL" BY <1>1, <1>12
<1> QED BY <1>2, <1>3, <1>4, <1>5, <1>6, <1>7, <1>8, <1>9, <1>10, <1>11, <1>12 DEF Routes

(* A step of a self-funded transaction leaves the sponsor's balances alone. *)
LEMMA OwnSteps ==
  ASSUME IInv, Step, ~cur.sponsored
  PROVE  led'.sponsor = led.sponsor /\ led'.treasury = led.treasury
<1>1. led \in Ledger BY DEF IInv, TypeOK
<1>2. ASSUME NEW step \in SponsorSteps, At(step) PROVE FALSE
  BY <1>2, Motion, SelfFundedShape
<1>3. ~SponsorATAs /\ ~Deduct /\ ~Repay /\ ~RepayWsol /\ ~RepayFixed
  BY <1>2 DEF SponsorATAs, Deduct, Repay, RepayWsol, RepayFixed, SponsorSteps, Repays
<1>4. CASE UNCHANGED led BY <1>4
<1>5. CASE UserATAs \/ WrapSpend \/ BridgeOut \/ Buy \/ SpendQuote
  BY <1>1, <1>5 DEF UserATAs, WrapSpend, BridgeOut, Buy, SpendQuote, Ledger
<1>6. CASE Sell \/ BridgeIn \/ QuoteIn \/ CloseWsol
  BY <1>1, <1>6 DEF Sell, BridgeIn, QuoteIn, CloseWsol, Ledger
<1>7. CASE Fee \/ FeeQuote \/ Unwrap \/ Wrap BY <1>1, <1>7 DEF Fee, FeeQuote, Unwrap, Wrap, Ledger
<1>8. CASE Tip BY <1>1, <1>8 DEF Tip, Ledger
<1>9. CASE \/ Reset \/ ZeroRent \/ LetUser \/ LetWsol \/ LetQuote
           \/ DeltaUser \/ DeltaWsol \/ DeltaQuote
  BY <1>9 DEF Reset, ZeroRent, LetUser, LetWsol, LetQuote, DeltaUser, DeltaWsol, DeltaQuote, Delta
<1> QED BY <1>3, <1>4, <1>5, <1>6, <1>7, <1>8, <1>9 DEF Step

LEMMA StepKeeps == ASSUME IInv, CInv, Step PROVE CInv' /\ Held' = Held /\ saved' = saved
<1>1. PICK step \in Steps : At(step) BY Untouched DEF Only
<1>2. /\ cur' = cur /\ pending' = pending /\ built' = built /\ saved' = saved
      /\ pc > 0 /\ pc' > 0
  BY <1>1, Motion DEF At
<1>3. Held' = Held BY <1>2 DEF Held
<1>4. OffersDistinct' BY <1>2, <1>3 DEF CInv, OffersDistinct
<1>5. OwnMoney' BY <1>2, OwnSteps DEF CInv, OwnMoney
<1> QED BY <1>2, <1>3, <1>4, <1>5 DEF CInv

(* A new transaction gets an id nobody holds. *)
LEMMA IssueKeeps ==
  ASSUME IInv, CInv, pc = 0, NEW tx \in Tx, tx.id = built + 1, Issue(tx)
  PROVE  CInv' /\ Held' = Held \cup {tx} /\ saved' = saved
<1>1. /\ pc' = 0 /\ pending' = pending \cup {tx} /\ built' = built + 1 /\ saved' = saved
      /\ built \in Nat
  BY DEF Issue, IInv, TypeOK
<1>2. Held' = Held \cup {tx} BY <1>1 DEF Held
<1>3. OffersDistinct' BY <1>1, <1>2 DEF CInv, OffersDistinct
<1> QED BY <1>1, <1>2, <1>3 DEF CInv, OwnMoney

LEMMA BuildKeeps ==
  ASSUME IInv, CInv,
         \/ \E route \in Offered \ SettlementRoutes, sp, mev \in BOOLEAN, q \in Outs :
              BuildSwap(route, sp, mev, q)
         \/ \E sp \in BOOLEAN, amt \in Outs, mode \in UnwrapModes : BuildUnwrap(sp, amt, mode)
         \/ \E amt \in Outs : BuildWrap(amt)
  PROVE  CInv' /\ saved' = saved /\ \E tx \in Tx : Held' = Held \cup {tx}
<1>1. IInv' BY BuildSteps
<1>2. ASSUME NEW tx, pc = 0, tx.id = built + 1, Issue(tx)
      PROVE  CInv' /\ saved' = saved /\ \E t \in Tx : Held' = Held \cup {t}
  <2>1. tx \in Tx BY <1>1, <1>2 DEF Issue, IInv, TypeOK
  <2> QED BY <1>2, <2>1, IssueKeeps
<1>3. ASSUME NEW route, NEW sp, NEW mev, NEW amt, NEW minOut, NEW sized, NEW mode
      PROVE  NewTx(route, sp, mev, amt, minOut, sized, mode).id = built + 1
  BY DEF NewTx
<1>4. CASE \E route \in Offered \ SettlementRoutes, sp, mev \in BOOLEAN, q \in Outs :
             BuildSwap(route, sp, mev, q)
  BY <1>2, <1>3, <1>4 DEF BuildSwap
<1>5. CASE \E sp \in BOOLEAN, amt \in Outs, mode \in UnwrapModes : BuildUnwrap(sp, amt, mode)
  <2>1. PICK sp \in BOOLEAN, amt \in Outs, mode \in UnwrapModes : BuildUnwrap(sp, amt, mode)
    BY <1>5
  <2>2. pc = 0 /\ Issue(NewTx("unwrap", sp, FALSE, amt, 0, 0, mode)) BY <2>1 DEF BuildUnwrap
  <2> QED BY <1>2, <1>3, <2>2
<1>6. CASE \E amt \in Outs : BuildWrap(amt) BY <1>2, <1>3, <1>6 DEF BuildWrap
<1> QED BY <1>4, <1>5, <1>6

LEMMA LandKeeps ==
  ASSUME IInv, CInv, NEW tx \in pending, Land(tx)
  PROVE  CInv' /\ Held' = Held /\ saved' = saved
<1>1. /\ pc = 0 /\ pc' = 1 /\ cur' = tx /\ pending' = pending \ {tx} /\ built' = built
      /\ saved' = saved /\ led' = ChargeFee(led, tx) /\ saved = led /\ led \in Ledger
  BY DEF Land, IInv, TypeOK, FeeReserved
<1>2. Held' = Held BY <1>1 DEF Held
<1>3. OffersDistinct' BY <1>1, <1>2 DEF CInv, OffersDistinct
<1>4. OwnMoney' BY <1>1 DEF OwnMoney, ChargeFee, Ledger
<1> QED BY <1>1, <1>2, <1>3, <1>4 DEF CInv

(* Whatever ends a transaction takes it, and nothing else, out of the hands. *)
LEMMA RestKeeps ==
  ASSUME IInv, CInv, pc' = 0, pending' \subseteq Held, built' = built
  PROVE  CInv'
<1>1. Held' = pending' BY DEF Held
<1> QED BY <1>1 DEF CInv, OffersDistinct, OwnMoney

LEMMA ContractInductive == IInv /\ CInv /\ [Next]_vars => CInv'
<1> SUFFICES ASSUME IInv, CInv, [Next]_vars PROVE CInv' OBVIOUS
<1>1. CASE Step BY <1>1, StepKeeps
<1>2. CASE \/ \E route \in Offered \ SettlementRoutes, sp, mev \in BOOLEAN, q \in Outs :
                BuildSwap(route, sp, mev, q)
           \/ \E sp \in BOOLEAN, amt \in Outs, mode \in UnwrapModes : BuildUnwrap(sp, amt, mode)
           \/ \E amt \in Outs : BuildWrap(amt)
  BY <1>2, BuildKeeps
<1>3. CASE \E tx \in pending : Land(tx) BY <1>3, LandKeeps
<1>4. CASE \/ Commit \/ Abort \/ \E tx \in pending : Expire(tx)
           \/ UserActivity \/ FrameUsedByOthers
  <2>1. pc' = 0 /\ pending' \subseteq Held /\ built' = built
    BY <1>4 DEF Commit, Abort, Expire, UserActivity, FrameUsedByOthers, Held
  <2> QED BY <2>1, RestKeeps
<1>5. CASE UNCHANGED vars
  BY <1>5 DEF vars, CInv, OffersDistinct, OwnMoney, Held
<1> QED BY <1>1, <1>2, <1>3, <1>4, <1>5, Zenon DEF Next

LEMMA ContractInitially == Init => CInv
BY DEF Init, CInv, OffersDistinct, OwnMoney, Held

-----------------------------------------------------------------------------
(* Every step is a step of the contract, or a stutter.                     *)

LEMMA OfferTypes == ASSUME NEW tx \in Tx PROVE OfferOf(tx) \in Contract!Offer
<1>1. FeeOf(tx) \in Nat BY TxAmounts
<1> QED BY <1>1 DEF OfferOf, Contract!Offer, Tx

LEMMA OneOfferLess ==
  ASSUME OffersDistinct, NEW tx \in Held
  PROVE  {OfferOf(t) : t \in Held \ {tx}} = Offers \ {OfferOf(tx)}
<1>1. \A t \in Held : OfferOf(t) = OfferOf(tx) => t = tx BY DEF OffersDistinct, OfferOf
<1> QED BY <1>1 DEF Offers

LEMMA AbstractState ==
  ASSUME IInv
  PROVE  /\ SponsorSide(saved) \in Nat /\ Position(saved) \in Nat
         /\ pc > 0 => cur \in Tx
         /\ Held \subseteq Tx
<1>1. saved \in Ledger /\ pending \subseteq Tx /\ (pc > 0 => cur \in Tx) BY DEF IInv, TypeOK
<1>2. SponsorSide(saved) \in Nat BY <1>1 DEF SponsorSide, Ledger
<1> QED BY <1>1, <1>2, PositionMoves DEF Held

(* The barred variables, as the instance writes them. *)
LEMMA BuildRefines ==
  ASSUME IInv, IInv', saved' = saved, NEW tx \in Tx, Held' = Held \cup {tx}
  PROVE  Contract!Issue
<1>1. Offers \subseteq Offers' BY DEF Offers
<1>2. Offers' \subseteq Contract!Offer BY AbstractState, OfferTypes DEF Offers
<1> QED BY <1>1, <1>2 DEF Contract!Issue, Offers, Held

LEMMA CommitRefines ==
  ASSUME IInv, IInv', CInv, Commit
  PROVE  Contract!Settle(OfferOf(cur)) /\ cur \in Held
<1>1. /\ pc > 0 /\ cur \in Held /\ Finished /\ pc' = 0 /\ saved' = led /\ pending' = pending
  BY DEF Commit, Finished, Held
<1>2. Held' = Held \ {cur} BY <1>1 DEF Held, CInv, OffersDistinct
<1>3. Offers' = Offers \ {OfferOf(cur)} BY <1>1, <1>2, OneOfferLess DEF Offers, CInv
<1>4. IF OfferOf(cur).sponsored THEN SponsorSide(saved)' + 1 >= SponsorSide(saved)
                                ELSE SponsorSide(saved)' = SponsorSide(saved)
  <2>1. OfferOf(cur).sponsored = cur.sponsored BY DEF OfferOf
  <2>2. SponsorSide(saved)' = SponsorSide(led) BY <1>1 DEF SponsorSide
  <2>3. CASE cur.sponsored BY <1>1, <2>1, <2>2, <2>3, RepaidAtEnd DEF SponsorMadeWhole
  <2>4. CASE ~cur.sponsored BY <1>1, <2>1, <2>2, <2>4 DEF CInv, OwnMoney, SponsorSide
  <2> QED BY <2>3, <2>4
<1>5. Position(saved)' \in Nat
  <2>1. saved' \in Ledger BY DEF IInv, TypeOK
  <2>2. Position(saved') \in Nat BY <2>1, PositionMoves
  <2> QED BY <2>2 DEF Position
<1> QED BY <1>1, <1>3, <1>4, <1>5 DEF Contract!Settle, Offers, Held

LEMMA AbortRefines ==
  ASSUME IInv, CInv, Abort
  PROVE  Contract!Fail(OfferOf(cur)) /\ cur \in Held
<1>1. /\ pc > 0 /\ cur \in Held /\ pc' = 0 /\ saved' = ChargeFee(saved, cur) /\ pending' = pending
  BY DEF Abort, Held
<1>2. cur \in Tx /\ saved \in Ledger /\ CanPayFee(saved, cur)
  BY <1>1 DEF IInv, TypeOK, FeeReserved, CanPayFee
<1>3. Held' = Held \ {cur} BY <1>1 DEF Held, CInv, OffersDistinct
<1>4. Offers' = Offers \ {OfferOf(cur)} BY <1>1, <1>3, OneOfferLess DEF Offers, CInv
<1>5. OfferOf(cur).sponsored = cur.sponsored /\ OfferOf(cur).fee = FeeOf(cur) BY DEF OfferOf
<1>6. /\ SponsorSide(saved) \in Nat /\ Position(saved) \in Nat /\ FeeOf(cur) \in Nat
  BY <1>2, AbstractState, TxAmounts
<1>7. /\ Position(saved)' = Position(saved) - (IF cur.sponsored THEN 0 ELSE FeeOf(cur))
      /\ SponsorSide(saved)' = SponsorSide(saved) - (IF cur.sponsored THEN FeeOf(cur) ELSE 0)
  <2>1. Position(saved)' = Position(ChargeFee(saved, cur)) BY <1>1 DEF Position
  <2>2. SponsorSide(saved)' = SponsorSide(ChargeFee(saved, cur)) BY <1>1 DEF SponsorSide
  <2> QED BY <1>2, <2>1, <2>2, ChargedPosition
<1>8. IF OfferOf(cur).sponsored
      THEN SponsorSide(saved)' = SponsorSide(saved) - OfferOf(cur).fee
             /\ Position(saved)' = Position(saved)
      ELSE SponsorSide(saved)' = SponsorSide(saved)
             /\ Position(saved)' = Position(saved) - OfferOf(cur).fee
  BY <1>5, <1>6, <1>7
<1> QED BY <1>1, <1>4, <1>8 DEF Contract!Fail, Offers, Held

LEMMA ExpireRefines ==
  ASSUME CInv, IInv, NEW tx \in pending, Expire(tx)
  PROVE  Contract!Drop(OfferOf(tx)) /\ tx \in Held
<1>1. pc = 0 /\ pc' = 0 /\ pending' = pending \ {tx} /\ saved' = saved BY DEF Expire
<1>2. tx \in Held /\ Held' = Held \ {tx} BY <1>1 DEF Held
<1>3. Offers' = Offers \ {OfferOf(tx)} BY <1>1, <1>2, OneOfferLess DEF Offers, CInv
<1> QED BY <1>1, <1>2, <1>3 DEF Contract!Drop, Offers, Held

LEMMA ActivityRefines ==
  ASSUME IInv, IInv', UserActivity
  PROVE  Contract!WalletActivity
<1>1. /\ saved = led /\ led \in Ledger /\ saved' \in Ledger /\ saved' = led'
      /\ UNCHANGED <<pending, pc, cur>>
  BY DEF UserActivity, IInv, TypeOK, FeeReserved
<1>2. Position(saved)' \in Nat
  <2>1. Position(saved') \in Nat BY <1>1, PositionMoves
  <2> QED BY <2>1 DEF Position
<1>3. SponsorSide(saved)' = SponsorSide(saved)
  <2>1. led'.sponsor = led.sponsor /\ led'.treasury = led.treasury
    BY <1>1 DEF UserActivity, Ledger
  <2> QED BY <1>1, <2>1 DEF SponsorSide
<1>4. Held' = Held /\ Offers' = Offers BY <1>1 DEF Held, Offers
<1> QED BY <1>2, <1>3, <1>4 DEF Contract!WalletActivity, Offers, Held

LEMMA Stutters ==
  ASSUME saved' = saved, Held' = Held
  PROVE  UNCHANGED Contract!vars
BY DEF Contract!vars, Held, Position, SponsorSide

LEMMA NextRefines ==
  IInv /\ IInv' /\ CInv /\ [Next]_vars => [Contract!Next]_(Contract!vars)
<1> SUFFICES ASSUME IInv, IInv', CInv, [Next]_vars PROVE Contract!Next \/ UNCHANGED Contract!vars
  OBVIOUS
<1> DEFINE offers == {OfferOf(tx) : tx \in pending \cup (IF pc > 0 THEN {cur} ELSE {})}
<1>1. \A tx \in Held : OfferOf(tx) \in offers BY DEF Held
<1>2. CASE Step BY <1>2, StepKeeps, Stutters
<1>3. CASE \/ \E route \in Offered \ SettlementRoutes, sp, mev \in BOOLEAN, q \in Outs :
                BuildSwap(route, sp, mev, q)
           \/ \E sp \in BOOLEAN, amt \in Outs, mode \in UnwrapModes : BuildUnwrap(sp, amt, mode)
           \/ \E amt \in Outs : BuildWrap(amt)
  <2>1. Contract!Issue BY <1>3, BuildKeeps, BuildRefines
  <2> QED BY <2>1 DEF Contract!Next
<1>4. CASE \E tx \in pending : Land(tx) BY <1>4, LandKeeps, Stutters
<1>5. CASE Commit BY <1>1, <1>5, CommitRefines DEF Contract!Next
<1>6. CASE Abort BY <1>1, <1>6, AbortRefines DEF Contract!Next
<1>7. CASE \E tx \in pending : Expire(tx)
  <2>1. PICK tx \in pending : Expire(tx) BY <1>7
  <2> QED BY <1>1, <2>1, ExpireRefines DEF Contract!Next
<1>8. CASE UserActivity BY <1>8, ActivityRefines DEF Contract!Next
<1>9. CASE FrameUsedByOthers \/ UNCHANGED vars
  <2>1. saved' = saved /\ Held' = Held BY <1>9 DEF FrameUsedByOthers, vars, Held
  <2> QED BY <2>1, Stutters
<1> HIDE DEF offers
<1> QED BY <1>2, <1>3, <1>4, <1>5, <1>6, <1>7, <1>8, <1>9, Zenon DEF Next

LEMMA InitRefines == Init => Contract!Init
<1> SUFFICES ASSUME Init PROVE Contract!Init OBVIOUS
<1>1. IInv BY Initially
<1>2. pending = {} /\ pc = 0 BY DEF Init
<1> QED BY <1>1, <1>2, AbstractState DEF Contract!Init

(***************************************************************************)
(* Whatever the steps of a plan do in between, what the two parties see of *)
(* every behaviour is a behaviour of the contract: transactions are issued *)
(* or dropped at no cost, a settled one has made the sponsor whole or not  *)
(* touched it, and a failed one cost its fee payer the network fee only.   *)
(***************************************************************************)
THEOREM Refines == Spec => ImplementsContract
<1>1. Init => IInv /\ CInv BY Initially, ContractInitially
<1>2. IInv /\ CInv /\ [Next]_vars => (IInv /\ CInv)' BY Inductive, ContractInductive
<1> QED BY <1>1, <1>2, InitRefines, NextRefines, PTL DEF Spec, Contract!Spec, ImplementsContract
=============================================================================
