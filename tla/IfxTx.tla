------------------------------- MODULE IfxTx --------------------------------
(***************************************************************************)
(* The life of the transactions the orchestrator co-signs: they are built  *)
(* from a snapshot of the chain, handed to a browser, and land later, in   *)
(* any order or never, on a chain that has moved in the meantime.          *)
(*                                                                         *)
(* A landed transaction runs the steps of its Plan one by one.  The steps  *)
(* measure balances into the slots of a shared Ifx scratch frame and later *)
(* steps spend what the slots hold.  Nothing interleaves with a running    *)
(* transaction; whatever step fails, all but the network fee is undone.    *)
(***************************************************************************)
EXTENDS TxPlan

CONSTANTS
  Outs,         \* what a pool may pay out, and what a user may convert
  MaxTx,        \* bound: transactions built in a behaviour
  Offered,      \* bound: the routes requested in a behaviour
  ATARent,      \* rent the chain takes for a token account
  UserFunds,    \* lamports the user's own activity may leave in the wallet
  WsolFunds,    \* and in the WSOL account,
  QuoteFunds,   \* and of the quote token of an SPL pool
  OwnATAs,      \* and the accounts it may open or close
  SponsorFunds, \* initial lamports of the sponsor key
  Leftovers     \* what earlier transactions of anyone leave in the frame

ASSUME ChainAssumption ==
  /\ Outs \subseteq Nat /\ MaxTx \in Nat /\ Offered \subseteq Routes
  /\ ATARent \in Nat
  /\ UserFunds \subseteq Nat /\ SponsorFunds \in Nat /\ WsolFunds \subseteq Nat
  /\ QuoteFunds \subseteq Nat /\ OwnATAs \subseteq ATAs
  /\ Leftovers \subseteq Nat

VARIABLES
  led,      \* balances: user, sponsor (fee payer), treasury (repay_pubkey), wsol, quote; open ATAs
  frame,    \* the Ifx scratch frame
  built,    \* number of transactions built so far
  pending,  \* transactions in the user's hands that have not landed
  cur,      \* the transaction on the chain
  pc,       \* its next step; 0 when no transaction is running
  saved,    \* the ledger when it landed; equals led when none is running
  frame0    \* the frame when it landed

vars == <<led, frame, built, pending, cur, pc, saved, frame0>>

Slots == {"before", "cost", "delta", "net", "spend"}
Unbound == -1
Frame == [Slots -> Nat \cup {Unbound}]

Ledger == [user : Nat, sponsor : Nat, treasury : Nat, wsol : Nat, quote : Nat,
           atas : SUBSET ATAs]

Tx == [id : 1..MaxTx, route : Routes, sponsored : BOOLEAN, mev : BOOLEAN,
       amt : Nat, minOut : Nat, sized : Nat, unwrap : UnwrapModes]

NoTx == [id |-> 0, route |-> "none"]

(* The state is well formed: no step pays more lamports than its account      *)
(* holds, and no amount written into a transaction is below zero, because a   *)
(* quote the sponsor's repay would exhaust is not built (sponsor_quote.go:45).*)
TypeOK ==
  /\ led \in Ledger /\ saved \in Ledger
  /\ frame \in Frame /\ frame0 \in Frame
  /\ built \in 0..MaxTx
  /\ pending \subseteq Tx
  /\ cur \in Tx \cup {NoTx}
  /\ pc \in Nat
  /\ pc # 0 <=> cur # NoTx
  /\ pc # 0 => pc <= Len(Plan(cur)) + 1

WellFormed(l) ==
  /\ l.wsol > 0 => "wsol" \in l.atas
  /\ l.quote > 0 => "quote" \in l.atas

Init ==
  /\ \E u \in UserFunds, w \in WsolFunds, x \in QuoteFunds, a \in SUBSET OwnATAs :
       led = [user |-> u, sponsor |-> SponsorFunds, treasury |-> 0,
              wsol |-> w, quote |-> x, atas |-> a]
  /\ WellFormed(led)
  /\ saved = led
  /\ \E x \in Leftovers \cup {Unbound} : frame = [s \in Slots |-> x]
  /\ frame0 = frame
  /\ built = 0 /\ pending = {} /\ cur = NoTx /\ pc = 0

-----------------------------------------------------------------------------
(* The server: build from the snapshot led, quoting q for the first hop.   *)

NewTx(route, sp, mev, amt, minOut, sized, unwrap) ==
  [id |-> built + 1, route |-> route, sponsored |-> sp, mev |-> mev,
   amt |-> amt, minOut |-> minOut, sized |-> sized, unwrap |-> unwrap]

Issue(tx) ==
  /\ built < MaxTx
  /\ built' = built + 1
  /\ pending' = pending \cup {tx}
  /\ UNCHANGED <<led, frame, cur, pc, saved, frame0>>

BuildSwap(route, sp, mev, q) ==
  /\ pc = 0
  /\ sp => route \in SponsoredRoutes
  /\ Buildable(route, q)
  /\ Issue(NewTx(route, sp, mev, 0, MinOut(q, SlippageBps),
                 IF route \in ChainedRoutes THEN SizedSecondHop(route, q) ELSE 0,
                 "partial"))

(* A full-balance unwrap is built as close and as unwrapAll, any other as a partial one. *)
BuildUnwrap(sp, amt, mode) ==
  /\ pc = 0 /\ "unwrap" \in Offered
  /\ "wsol" \in led.atas
  /\ amt > 0 /\ amt <= led.wsol
  /\ mode \in IF amt = led.wsol THEN {"close", "unwrapAll"} ELSE {"partial"}
  /\ Buildable("unwrap", amt)
  /\ Issue(NewTx("unwrap", sp, FALSE, amt, 0, 0, mode))

BuildWrap(amt) ==
  /\ pc = 0 /\ "wrap" \in Offered
  /\ amt > 0
  /\ Issue(NewTx("wrap", FALSE, FALSE, amt, 0, 0, "partial"))

-----------------------------------------------------------------------------
(* Landing, and the two ways a transaction ends.                           *)

ChargeFee(l, tx) ==
  IF tx.sponsored THEN [l EXCEPT !.sponsor = @ - FeeOf(tx)]
                  ELSE [l EXCEPT !.user = @ - FeeOf(tx)]

CanPayFee(l, tx) == FeeOf(tx) <= IF tx.sponsored THEN l.sponsor ELSE l.user

Land(tx) ==
  /\ pc = 0
  /\ CanPayFee(led, tx)
  /\ led' = ChargeFee(led, tx)
  /\ cur' = tx /\ pc' = 1
  /\ pending' = pending \ {tx}
  /\ UNCHANGED <<saved, frame, frame0, built>>

(* The blockhash expires, or the user never signs. *)
Expire(tx) ==
  /\ pc = 0
  /\ pending' = pending \ {tx}
  /\ UNCHANGED <<led, frame, built, cur, pc, saved, frame0>>

Finished == pc > 0 /\ pc = Len(Plan(cur)) + 1

Commit ==
  /\ Finished
  /\ saved' = led /\ frame0' = frame
  /\ cur' = NoTx /\ pc' = 0
  /\ UNCHANGED <<led, frame, built, pending>>

(* A step may fail for reasons of its own: slippage, a pool, an account. *)
Abort ==
  /\ pc > 0
  /\ led' = ChargeFee(saved, cur)
  /\ saved' = ChargeFee(saved, cur)
  /\ frame' = frame0
  /\ cur' = NoTx /\ pc' = 0
  /\ UNCHANGED <<built, pending, frame0>>

-----------------------------------------------------------------------------
(* The rest of the world, between transactions.                            *)

UserActivity ==
  /\ pc = 0 /\ pending # {}
  /\ \E u \in UserFunds, w \in WsolFunds, x \in QuoteFunds, a \in SUBSET OwnATAs :
       led' = [led EXCEPT !.user = u, !.wsol = w, !.quote = x, !.atas = a]
  /\ WellFormed(led')
  /\ saved' = led'
  /\ UNCHANGED <<frame, frame0, built, pending, cur, pc>>

(* Every transaction of every user runs on PublicFrames[0]. *)
FrameUsedByOthers ==
  /\ pc = 0 /\ pending # {}
  /\ \E x \in Leftovers : frame' = [s \in Slots |-> x]
  /\ frame0' = frame'
  /\ UNCHANGED <<led, built, pending, cur, pc, saved>>

-----------------------------------------------------------------------------
(* The steps.  A let fills the next free slot of the tape, so a slot that  *)
(* was not reset keeps its old value.                                      *)

Bind(f, slot, x) == IF f[slot] = Unbound THEN [f EXCEPT ![slot] = x] ELSE f

At(step) ==
  /\ pc > 0 /\ pc <= Len(Plan(cur))
  /\ Plan(cur)[pc] = step
  /\ pc' = pc + 1
  /\ UNCHANGED <<built, pending, cur, saved, frame0>>

(* Mutant of Reset: the tape keeps what earlier transactions left. *)
ResetForgotten == At("reset") /\ UNCHANGED <<led, frame>>

Reset ==
  /\ At("reset")
  /\ frame' = [s \in Slots |-> Unbound]
  /\ UNCHANGED led

Opened(l, tx) == ATARent * Cardinality(AtasOf(tx.route) \ l.atas)

UserATAs ==
  /\ At("userATAs")
  /\ Opened(led, cur) <= led.user
  /\ led' = [led EXCEPT !.user = @ - Opened(led, cur),
                        !.atas = @ \cup AtasOf(cur.route)]
  /\ UNCHANGED frame

(* Mutant of SponsorATAs: the rent is paid but not measured. *)
SponsorATAsUnmeasured ==
  /\ At("sponsorATAs")
  /\ Opened(led, cur) <= led.sponsor
  /\ led' = [led EXCEPT !.sponsor = @ - Opened(led, cur),
                        !.atas = @ \cup AtasOf(cur.route)]
  /\ frame' = Bind(frame, "cost", 0)

(* The rent is measured as what the sponsor's balance lost. *)
SponsorATAs ==
  /\ At("sponsorATAs")
  /\ Opened(led, cur) <= led.sponsor
  /\ led' = [led EXCEPT !.sponsor = @ - Opened(led, cur),
                        !.atas = @ \cup AtasOf(cur.route)]
  /\ frame' = Bind(frame, "cost", led.sponsor - led'.sponsor)

ZeroRent == At("zeroRent") /\ frame' = Bind(frame, "cost", 0) /\ UNCHANGED led

LetUser == At("letUser") /\ frame' = Bind(frame, "before", led.user) /\ UNCHANGED led

LetQuote == At("letQuote") /\ frame' = Bind(frame, "before", led.quote) /\ UNCHANGED led

LetWsol == At("letWsol") /\ frame' = Bind(frame, "before", led.wsol) /\ UNCHANGED led

Sell ==
  /\ At("sell")
  /\ \E out \in Outs : out >= cur.minOut /\ led' = [led EXCEPT !.user = @ + out]
  /\ UNCHANGED frame

BridgeIn ==
  /\ At("bridgeIn")
  /\ "wsol" \in led.atas
  /\ \E out \in Outs : out >= cur.minOut /\ led' = [led EXCEPT !.wsol = @ + out]
  /\ UNCHANGED frame

(* The first hop of an SPL chain, sale or bridge, pays into the quote account. *)
QuoteIn ==
  /\ At("quoteIn")
  /\ "quote" \in led.atas
  /\ \E out \in Outs : out >= cur.minOut /\ led' = [led EXCEPT !.quote = @ + out]
  /\ UNCHANGED frame

Delta(balance) ==
  /\ balance >= frame["before"]
  /\ frame' = Bind(frame, "delta", balance - frame["before"])
  /\ UNCHANGED led

DeltaUser == At("deltaUser") /\ Delta(led.user)
DeltaWsol == At("deltaWsol") /\ Delta(led.wsol)

(* Mutant of DeltaQuote: the whole balance passes for proceeds. *)
DeltaQuoteOfBalance ==
  /\ At("deltaQuote")
  /\ frame' = Bind(frame, "delta", led.quote)
  /\ UNCHANGED led

DeltaQuote == At("deltaQuote") /\ Delta(led.quote)

(* The platform's fee on the measured proceeds. *)
Fee ==
  /\ At("fee")
  /\ LET fee == ApplyBPS(frame["delta"], FeeBps)
     IN  /\ fee <= led.user
         /\ frame' = Bind(frame, "net", frame["delta"] - fee)
         /\ led' = [led EXCEPT !.user = @ - fee]

(* The same fee in the quote token, between the token accounts. *)
FeeQuote ==
  /\ At("feeQuote")
  /\ LET fee == ApplyBPS(frame["delta"], FeeBps)
     IN  /\ fee <= led.quote
         /\ frame' = Bind(frame, "net", frame["delta"] - fee)
         /\ led' = [led EXCEPT !.quote = @ - fee]

CloseWsol ==
  /\ At("closeWsol")
  /\ "wsol" \in led.atas
  /\ led' = [led EXCEPT !.user = @ + led.wsol + ATARent, !.wsol = 0,
                        !.atas = @ \ {"wsol"}]
  /\ UNCHANGED frame

Settle == frame["cost"] + FixedRepay(cur)

PayTreasury(amount) ==
  /\ amount <= led.user
  /\ led' = [led EXCEPT !.user = @ - amount, !.treasury = @ + amount]

Proceeds == IF cur.route \in {"bridgeBuy", "bridgeBuySPL"} THEN frame["delta"] ELSE frame["net"]

(* Assert that the hop's proceeds cover the repay, pay it, leave the rest to hop 2. *)
Deduct ==
  /\ At("deduct")
  /\ Proceeds >= Settle
  /\ frame' = Bind(frame, "spend", Proceeds - Settle)
  /\ PayTreasury(Settle)

(* Mutant of Repay: the assertion is forgotten. *)
RepayUnasserted == At("repay") /\ PayTreasury(Settle) /\ UNCHANGED frame

(* Assert that the whole transaction's proceeds cover the repay, and pay it. *)
Repay ==
  /\ At("repay")
  /\ led.user - frame["before"] >= Settle
  /\ PayTreasury(Settle)
  /\ UNCHANGED frame

(* Repay out of the WSOL account, which stays open. *)
RepayWsol ==
  /\ At("repayWsol")
  /\ led.wsol >= Settle
  /\ led' = [led EXCEPT !.wsol = @ - Settle, !.treasury = @ + Settle]
  /\ UNCHANGED frame

RepayFixed == At("repayFixed") /\ PayTreasury(FixedRepay(cur)) /\ UNCHANGED frame

Spend == IF cur.sponsored THEN frame["spend"] ELSE Proceeds

WrapSpend ==
  /\ At("wrapSpend")
  /\ "wsol" \in led.atas
  /\ Spend <= led.user
  /\ led' = [led EXCEPT !.user = @ - Spend, !.wsol = @ + Spend]
  /\ UNCHANGED frame

BridgeOut ==
  /\ At("bridgeOut")
  /\ "out" \in led.atas
  /\ Spend <= led.wsol
  /\ led' = [led EXCEPT !.wsol = @ - Spend]
  /\ UNCHANGED frame

Buy ==
  /\ At("buy")
  /\ "out" \in led.atas
  /\ Spend <= led.user
  /\ led' = [led EXCEPT !.user = @ - Spend]
  /\ UNCHANGED frame

(* Hop 2 of an SPL chain, a bridge or a purchase, with its amount patched in. *)
SpendQuote ==
  /\ At("spendQuote")
  /\ {"quote", "out"} \subseteq led.atas
  /\ Spend <= led.quote
  /\ led' = [led EXCEPT !.quote = @ - Spend]
  /\ UNCHANGED frame

Unwrap ==
  /\ At("unwrap")
  /\ "wsol" \in led.atas
  /\ \/ /\ cur.unwrap = "partial"
        /\ cur.amt <= led.wsol
        /\ led' = [led EXCEPT !.user = @ + cur.amt, !.wsol = @ - cur.amt]
     \/ /\ cur.unwrap = "unwrapAll"
        /\ led' = [led EXCEPT !.user = @ + led.wsol, !.wsol = 0]
     \/ /\ cur.unwrap = "close"
        /\ led' = [led EXCEPT !.user = @ + led.wsol + ATARent, !.wsol = 0,
                              !.atas = @ \ {"wsol"}]
  /\ UNCHANGED frame

Wrap ==
  /\ At("wrap")
  /\ cur.amt <= led.user
  /\ led' = [led EXCEPT !.user = @ - cur.amt, !.wsol = @ + cur.amt]
  /\ UNCHANGED frame

(* The fee payer tips the block engine in the protected variants. *)
Tip ==
  /\ At("tip")
  /\ IF cur.sponsored
     THEN /\ TipOf(cur) <= led.sponsor
          /\ led' = [led EXCEPT !.sponsor = @ - TipOf(cur)]
     ELSE /\ TipOf(cur) <= led.user
          /\ led' = [led EXCEPT !.user = @ - TipOf(cur)]
  /\ UNCHANGED frame

Step ==
  \/ Reset \/ UserATAs \/ SponsorATAs \/ ZeroRent \/ LetUser \/ LetWsol
  \/ Sell \/ BridgeIn \/ DeltaUser \/ DeltaWsol \/ Fee \/ CloseWsol
  \/ Deduct \/ Repay \/ RepayWsol \/ RepayFixed
  \/ LetQuote \/ QuoteIn \/ DeltaQuote \/ FeeQuote \/ SpendQuote
  \/ WrapSpend \/ BridgeOut \/ Buy \/ Unwrap \/ Wrap \/ Tip

Next ==
  \/ \E route \in Offered \ SettlementRoutes, sp, mev \in BOOLEAN, q \in Outs :
       BuildSwap(route, sp, mev, q)
  \/ \E sp \in BOOLEAN, amt \in Outs, mode \in UnwrapModes : BuildUnwrap(sp, amt, mode)
  \/ \E amt \in Outs : BuildWrap(amt)
  \/ \E tx \in pending : Land(tx) \/ Expire(tx)
  \/ Step \/ Commit \/ Abort
  \/ UserActivity \/ FrameUsedByOthers

Spec == Init /\ [][Next]_vars

-----------------------------------------------------------------------------
(* Properties                                                              *)

SponsorSide(l) == l.sponsor + l.treasury

(* The user's SOL in every form: lamports, WSOL, rent of open accounts. *)
Position(l) == l.user + l.wsol + ATARent * Cardinality(l.atas)

(***************************************************************************)
(* A sponsored transaction that commits leaves the sponsor's two accounts, *)
(* fee payer and treasury, with at least what they held when it landed     *)
(* (sponsor.go, sponsored_repay.go): the fixed repay written into it and   *)
(* the rent it measured cover the network fee, the rent and the tip.  One  *)
(* lamport may be lost to the rounding of the priority fee.                *)
(***************************************************************************)
SponsorMadeWhole ==
  Finished /\ cur.sponsored => SponsorSide(led) + 1 >= SponsorSide(saved)

(***************************************************************************)
(* A committed two-hop transaction spends in hop 2 exactly what hop 1 left *)
(* after fee and repay (multi_leg.go): whatever SOL, WSOL or open accounts *)
(* the user held before, the user ends with the same total, plus the rent  *)
(* of accounts opened for a sponsored user less its repay -- which cancel  *)
(* -- less the network fee and tip of a self-funded one.  No stale slot of *)
(* the shared frame and no earlier balance leaks into the patched amount.  *)
(***************************************************************************)
ChainedHopsExact ==
  Finished /\ cur.route \in ChainedRoutes =>
    Position(led) = Position(saved)
      + (IF cur.sponsored THEN frame["cost"] ELSE 0 - FeeOf(cur) - TipOf(cur))

(***************************************************************************)
(* The same of a chain through an SPL pool (multi_leg.go), which no        *)
(* sponsor takes part in: of the quote token the user ends with what was   *)
(* there when the transaction landed, however much that is.  Hop 2 takes   *)
(* neither less than the proceeds after the fee, which would be stranded   *)
(* in the quote account, nor more; and no SOL but fee and tip is spent.    *)
(***************************************************************************)
QuoteHopsExact ==
  Finished /\ cur.route \in SPLRoutes =>
    /\ led.quote = saved.quote
    /\ Position(led) = Position(saved) - FeeOf(cur) - TipOf(cur)

(***************************************************************************)
(* On a sponsored sell that continues into a second hop, what the chain    *)
(* hands to hop 2 is at least the amount the server sized that hop's       *)
(* minimum output for (sponsor_quote.go), so long as no more accounts had  *)
(* to be opened than the quote assumed.  A fill within the slippage of hop *)
(* 1 therefore never uses up the slippage of hop 2.                        *)
(***************************************************************************)
HopTwoCoversSizing ==
  /\ pc > 0 /\ cur.route \in {"sellBridge", "sellBuy"} /\ cur.sponsored
  /\ Plan(cur)[IF pc <= Len(Plan(cur)) THEN pc ELSE 1] \in {"wrapSpend", "buy"}
  => Spend >= cur.sized

(***************************************************************************)
(* The sponsor is repaid out of what the swap produced, not out of SOL the *)
(* user already had: after a committed sponsored swap the user's SOL in    *)
(* every form is no less than before.  It holds on the routes whose repay  *)
(* is asserted against a difference of balances (sponsored_repay.go).      *)
(***************************************************************************)
RepaidFromProceedsOn(routes) ==
  Finished /\ cur.sponsored /\ cur.route \in routes =>
    Position(led) >= Position(saved)

SellRepaidFromProceeds == RepaidFromProceedsOn({"sell"} \cup ChainedRoutes)

(***************************************************************************)
(* The same of a quote swap into SOL or WSOL, which the README promises of *)
(* every sponsored swap.  quote_bridge.go asserts the whole WSOL balance,  *)
(* or a difference that includes WSOL the user held before.                *)
(***************************************************************************)
QuoteSwapRepaidFromProceeds == RepaidFromProceedsOn({"quoteSOL", "quoteWSOL"})

-----------------------------------------------------------------------------
(* What a browser sees of a transaction: it settles, fails, or is dropped. *)

OfferOf(tx) == [id |-> tx.id, sponsored |-> tx.sponsored, fee |-> FeeOf(tx)]

Contract == INSTANCE SponsorContract WITH
  funds    <- SponsorSide(saved),
  position <- Position(saved),
  offers   <- {OfferOf(tx) : tx \in pending \cup (IF pc > 0 THEN {cur} ELSE {})}

(***************************************************************************)
(* The step-by-step execution implements the atomic contract: a landed     *)
(* transaction either settles, with the sponsor made whole, or costs its   *)
(* fee payer the network fee and nothing else; dropping one costs nothing. *)
(***************************************************************************)
ImplementsContract == Contract!Spec
=============================================================================
