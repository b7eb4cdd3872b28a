------------------------------- MODULE TxPlan -------------------------------
(***************************************************************************)
(* What the orchestrator puts into a transaction: for every route and      *)
(* funding mode the sequence of steps the chain will run, the fees it      *)
(* sizes off-chain, and the quotes it refuses.                             *)
(*                                                                         *)
(* A step stands for the instructions one helper of internal/ifx,          *)
(* internal/solana or internal/orchestrator appends.  Only the steps that  *)
(* move SOL, wrapped SOL or token-account rent, or that touch the Ifx      *)
(* scratch frame, are kept; account lists and encodings are not.           *)
(***************************************************************************)
EXTENDS SponsorMath, Sequences, FiniteSets

CONSTANTS
  Sched,        \* fee schedule of the selected priority tier, see SponsorMath
  TipLamports,  \* jito.tip_lamports, 0 when Jito is disabled
  FeeBps,       \* service_fee.bps
  SlippageBps   \* slippage_bps of the request

ASSUME SchedAssumption ==
  Sched \in [sig : Nat, cuLimit : Nat, cuPrice : Nat, rent : Nat, buffer : Nat]
ASSUME RateAssumption ==
  TipLamports \in Nat /\ FeeBps \in 1..Bps /\ SlippageBps \in 0..Bps

(***************************************************************************)
(* Routes that settle in SOL or wrapped SOL, and the two-hop ones that do  *)
(* not meet SOL at all.                                                    *)
(*   sell        token -> SOL on a SOL-quoted launchpad pool               *)
(*   sellBridge  token -> SOL -> quote token through a bridge pool         *)
(*   sellBuy     token A -> SOL -> token B                                 *)
(*   bridgeBuy   quote token -> WSOL -> SOL -> token                       *)
(*   quoteSOL    quote token -> WSOL, closed to SOL                        *)
(*   quoteWSOL   quote token -> WSOL, kept in the token account            *)
(*   unwrap/wrap SOL settlement, no pool                                   *)
(*   sellSPL     token -> SPL quote of its pool -> another token           *)
(*   bridgeBuySPL  quote token -> SPL quote of the pool -> token           *)
(***************************************************************************)
Routes == {"sell", "sellBridge", "sellBuy", "bridgeBuy",
           "quoteSOL", "quoteWSOL", "unwrap", "wrap", "sellSPL", "bridgeBuySPL"}

(* No SOL to repay a sponsor from: self-funded only, and sized without a repay. *)
SPLRoutes == {"sellSPL", "bridgeBuySPL"}

UnwrapModes == {"partial", "close", "unwrapAll"}

(* The routes with a sponsored variant; wrap reports "wrap_user_pays". *)
SponsoredRoutes == Routes \ ({"wrap"} \cup SPLRoutes)

(* Hop 2 of these spends the SOL that hop 1 produced, patched on-chain. *)
ChainedRoutes == {"sellBridge", "sellBuy", "bridgeBuy"}

Steps == {"userATAs", "sponsorATAs", "reset", "letUser", "letWsol", "sell",
          "bridgeIn", "deltaUser", "deltaWsol", "fee", "zeroRent", "closeWsol",
          "deduct", "repay", "repayWsol", "repayFixed", "wrapSpend",
          "bridgeOut", "buy", "unwrap", "wrap", "tip",
          "letQuote", "quoteIn", "deltaQuote", "feeQuote", "spendQuote"}

(* The token accounts buildX collects in its ataSetup, beyond the input's. *)
ATAs == {"wsol", "quote", "out"}

AtasOf(route) ==
  (IF route \in {"sellBridge", "bridgeBuy", "quoteSOL", "quoteWSOL", "wrap"}
   THEN {"wsol"} ELSE {})
  \cup (IF route \in SPLRoutes THEN {"quote"} ELSE {})
  \cup (IF route \in ChainedRoutes \cup SPLRoutes THEN {"out"} ELSE {})

SelfFundedPlan ==
  [sell       |-> <<"reset", "letUser", "sell", "deltaUser", "fee", "tip">>,
   sellBridge |-> <<"userATAs", "reset", "letUser", "sell", "deltaUser", "fee",
                    "wrapSpend", "bridgeOut", "tip">>,
   sellBuy    |-> <<"userATAs", "reset", "letUser", "sell", "deltaUser", "fee",
                    "buy", "tip">>,
   bridgeBuy  |-> <<"userATAs", "reset", "letWsol", "bridgeIn", "deltaWsol",
                    "closeWsol", "buy", "tip">>,
   quoteSOL   |-> <<"userATAs", "bridgeIn", "closeWsol", "tip">>,
   quoteWSOL  |-> <<"userATAs", "bridgeIn", "tip">>,
   unwrap     |-> <<"unwrap">>,
   wrap       |-> <<"userATAs", "wrap">>,
   sellSPL    |-> <<"userATAs", "reset", "letQuote", "quoteIn", "deltaQuote",
                    "feeQuote", "spendQuote", "tip">>,
   bridgeBuySPL |-> <<"userATAs", "reset", "letQuote", "quoteIn", "deltaQuote",
                      "spendQuote", "tip">>]

SponsoredPlan ==
  [sell       |-> <<"reset", "letUser", "sell", "deltaUser", "fee", "zeroRent",
                    "repay", "tip">>,
   sellBridge |-> <<"reset", "sponsorATAs", "letUser", "sell", "deltaUser", "fee",
                    "deduct", "wrapSpend", "bridgeOut", "tip">>,
   sellBuy    |-> <<"reset", "sponsorATAs", "letUser", "sell", "deltaUser", "fee",
                    "deduct", "buy", "tip">>,
   bridgeBuy  |-> <<"reset", "sponsorATAs", "letWsol", "bridgeIn", "deltaWsol",
                    "closeWsol", "deduct", "buy", "tip">>,
   quoteSOL   |-> <<"reset", "sponsorATAs", "letUser", "bridgeIn", "closeWsol",
                    "repay", "tip">>,
   quoteWSOL  |-> <<"reset", "sponsorATAs", "bridgeIn", "repayWsol", "tip">>,
   unwrap     |-> <<"unwrap", "repayFixed">>,
   wrap       |-> <<>>, sellSPL |-> <<>>, bridgeBuySPL |-> <<>>]

Plan(tx) == IF tx.sponsored THEN SponsoredPlan[tx.route]
                            ELSE SelfFundedPlan[tx.route]

(* The SOL settlement transactions carry no compute-budget instructions. *)
SettlementRoutes == {"unwrap", "wrap"}

SchedOf(tx) == IF tx.route \in SettlementRoutes
               THEN [Sched EXCEPT !.cuPrice = 0] ELSE Sched

SignaturesOf(tx) == IF tx.sponsored THEN 2 ELSE 1

TipOf(tx) == IF tx.mev THEN TipLamports ELSE 0

FeeOf(tx) == NetworkFee(SchedOf(tx), SignaturesOf(tx))

(* Mutant of FixedRepay: the tip the sponsor pays is not asked back. *)
FixedRepayWithoutTip(tx) ==
  EstimateRepayLamports(SchedOf(tx), SignaturesOf(tx), 0, 0)

(* The repay target written into the transaction, measured rent excluded. *)
FixedRepay(tx) ==
  EstimateRepayLamports(SchedOf(tx), SignaturesOf(tx), 0, TipOf(tx))

(***************************************************************************)
(* Sizing of the second hop, from the quoted output of the first.  The     *)
(* deduction is made for every variant of the quote, with the tip of the   *)
(* protected variant and a guessed number of token accounts to create.     *)
(***************************************************************************)
ATAEstimate(route) ==
  IF route = "bridgeBuy" THEN 3
  ELSE IF route = "sellBridge" THEN 2 ELSE IF route = "sellBuy" THEN 1 ELSE 0

(* Mutant of QuoteDeduction: the accounts to open are left out. *)
QuoteDeductionWithoutRent(route) == EstimateRepayLamports(Sched, 2, 0, TipLamports)

QuoteDeduction(route) ==
  IF route \in SettlementRoutes
  THEN EstimateRepayLamports([Sched EXCEPT !.cuPrice = 0], 2, 0, 0)
  ELSE EstimateRepayLamports(Sched, 2, ATAEstimate(route), TipLamports)

GrossSecondHop(route, quoted) ==
  IF route = "bridgeBuy" THEN quoted
  ELSE LET min == MinOut(quoted, SlippageBps) IN min - ApplyBPS(min, FeeBps)

SizedSecondHop(route, quoted) ==
  GrossSecondHop(route, quoted) - QuoteDeduction(route)

(* Mutant of Buildable: a quote too small for the repay is sized all the same. *)
BuildableUnchecked(route, quoted) == TRUE

(* The quotes for which the server builds at all. *)
Buildable(route, quoted) ==
  IF route \in ChainedRoutes
  THEN CanSubtractRepay(GrossSecondHop(route, quoted), QuoteDeduction(route))
  ELSE route = "unwrap" => CanSubtractRepay(quoted, QuoteDeduction(route))
=============================================================================
