----------------------------- MODULE TxAccounts -----------------------------
(***************************************************************************)
(* Where the money of a trade lies while a built transaction runs, and     *)
(* which token accounts of the user it opens, uses and closes.             *)
(*                                                                         *)
(* Every builder decides for itself which accounts to create, whether to   *)
(* wrap or unwrap, and where a fee or the repay is taken; nothing in the   *)
(* server compares these decisions with each other.  An instruction is a   *)
(* step on places; amounts, programs and account lists are left out.       *)
(* A transaction is a record                                               *)
(*   [class, in, inSettle, out, outSettle, quote, hops, sponsored, mode]   *)
(* with the quote mint of the pool and the settle mode.                    *)
(***************************************************************************)
EXTENDS Naturals, Sequences

Lamports == "SOL"   \* the user's system account; any other place is the ATA of a mint

(***************************************************************************)
(* Steps.  A place that is used must be open; money goes from one place    *)
(* to another.                                                             *)
(***************************************************************************)
OpenATAs(mints) == <<[op |-> "open", uses |-> mints]>>
Move(from, to)  == <<[op |-> "move", uses |-> {from, to}, from |-> from, to |-> to]>>
Pay(place)      == <<[op |-> "pay", uses |-> {place}, from |-> place]>>
Let(place)      == <<[op |-> "let", uses |-> {place}]>>
CloseWSOL       == <<[op |-> "close", uses |-> {"wsol"}]>>
When(cond, steps) == IF cond THEN steps ELSE <<>>

Wrap == Move(Lamports, "wsol")
Repay(tx) == When(tx.sponsored, Pay(Lamports))

(* Where a Pump.fun pool takes and pays its quote. *)
AtPool(quote) == IF quote = "wsol" THEN Lamports ELSE quote

WantsNative(tx) == tx.out = "wsol" /\ tx.outSettle = "native_sol"

(* Mutant of WrapsForBridge: WSOL tokens are wrapped once more. *)
WrapsForBridgeAlways(tx) == tx.in = "wsol"

WrapsForBridge(tx) == tx.in = "wsol" /\ tx.inSettle # "wsol_spl"

(* The accounts a plan needs, opened by the user before it or by the sponsor *)
(* within it.                                                                *)
OpenedByUser(tx, mints)    == When(~tx.sponsored, OpenATAs(mints))
OpenedBySponsor(tx, mints) == When(tx.sponsored, OpenATAs(mints))

-----------------------------------------------------------------------------
(* One plan per builder. *)

Unwrap(tx) ==
  Let("wsol") \o (IF tx.mode = "close" THEN CloseWSOL ELSE Move("wsol", Lamports)) \o Repay(tx)

WrapSOL == OpenATAs({"wsol"}) \o Wrap

(* Mutant of RepayFromBridge: the repay is taken before the unwrap. *)
RepayFromBridgeFirst(tx) ==
  When(tx.sponsored, Pay(Lamports)) \o When(WantsNative(tx), CloseWSOL)

(* A co-signed bridge swap that keeps WSOL pays out of that account. *)
RepayFromBridge(tx) ==
  IF WantsNative(tx) THEN CloseWSOL \o Repay(tx)
  ELSE When(tx.sponsored, Let("wsol") \o Pay("wsol"))

QuoteSwap(tx) ==
  OpenedByUser(tx, {tx.in, tx.out})
  \o When(WrapsForBridge(tx), Wrap)
  \o OpenedBySponsor(tx, {tx.in, tx.out})
  \o Move(tx.in, tx.out)
  \o RepayFromBridge(tx)

BuyForSOL(tx) ==
  OpenedByUser(tx, {tx.out}) \o Pay(Lamports) \o OpenedBySponsor(tx, {tx.out})
  \o Repay(tx) \o Move(Lamports, tx.out)

BuyForSPL(tx) == OpenATAs({tx.out, tx.quote}) \o Pay(tx.quote) \o Move(tx.quote, tx.out)

BuyOneHop(tx) == IF tx.quote = "wsol" THEN BuyForSOL(tx) ELSE BuyForSPL(tx)

(* Mutant of BridgeThenBuyATAs: the account between the hops is not opened. *)
BridgeThenBuyATAsOuter(tx) == {tx.in, tx.out}

BridgeThenBuyATAs(tx) == {tx.in, tx.quote, tx.out}

(* A fee in WSOL is paid in lamports, whatever the user pays with. *)
BridgeThenBuy(tx) ==
  OpenedByUser(tx, BridgeThenBuyATAs(tx))
  \o Pay(AtPool(tx.in)) \o When(WrapsForBridge(tx), Wrap)
  \o OpenedBySponsor(tx, BridgeThenBuyATAs(tx))
  \o Let(tx.quote) \o Move(tx.in, tx.quote) \o Let(tx.quote)
  \o When(tx.quote = "wsol", CloseWSOL) \o Repay(tx)
  \o Move(AtPool(tx.quote), tx.out)

(* Sale, measured, less the fee and the repay: the first hop of every sale. *)
SellForNet(tx) ==
  Let(AtPool(tx.quote)) \o Move(tx.in, AtPool(tx.quote)) \o Let(AtPool(tx.quote))
  \o Pay(AtPool(tx.quote)) \o Repay(tx)

(* On an SPL pool the one-hop sale measures nothing and opens no account. *)
SellForSPL(tx) == Move(tx.in, tx.quote) \o Pay(tx.quote)

SellOneHop(tx) == IF tx.quote = "wsol" THEN SellForNet(tx) ELSE SellForSPL(tx)

(* Mutant of SettleSale: the WSOL that was asked for is closed all the same. *)
SettleSaleAlways(tx) == When(tx.out = "wsol", CloseWSOL)

SettleSale(tx) == When(WantsNative(tx), CloseWSOL)

SellThenBridge(tx) ==
  OpenedByUser(tx, {tx.quote, tx.out}) \o OpenedBySponsor(tx, {tx.quote, tx.out})
  \o SellForNet(tx)
  \o When(tx.quote = "wsol", Wrap)
  \o Move(tx.quote, tx.out)
  \o SettleSale(tx)

SellThenBuy(tx) ==
  LET mints == {tx.out} \cup ({tx.quote} \ {"wsol"})
  IN  OpenedByUser(tx, mints) \o OpenedBySponsor(tx, mints)
      \o SellForNet(tx) \o Move(AtPool(tx.quote), tx.out)

Instructions(tx) ==
  CASE tx.class = "settle" /\ tx.outSettle = "native_sol" -> Unwrap(tx)
    [] tx.class = "settle" /\ tx.outSettle = "wsol_spl"   -> WrapSOL
    [] tx.class = "quote"                 -> QuoteSwap(tx)
    [] tx.class = "buy"  /\ tx.hops = 1   -> BuyOneHop(tx)
    [] tx.class = "buy"  /\ tx.hops = 2   -> BridgeThenBuy(tx)
    [] tx.class = "sell" /\ tx.hops = 1   -> SellOneHop(tx)
    [] tx.class = "sell" /\ tx.hops = 2   -> SellThenBridge(tx)
    [] tx.class = "swap"                  -> SellThenBuy(tx)

-----------------------------------------------------------------------------
(* The transaction on the chain. *)

PaidFrom(tx) == IF tx.in = "wsol" /\ tx.inSettle # "wsol_spl" THEN Lamports ELSE tx.in
AskedAt(tx)  == IF WantsNative(tx) THEN Lamports ELSE tx.out

(* A wallet that has, besides SOL, only what it pays with: an account that is *)
(* open already is never a reason to fail.                                    *)
Wallet(tx) == [open |-> {Lamports, PaidFrom(tx)}, money |-> PaidFrom(tx), faults |-> {}]

Faults(w, step) ==
  { <<"unopened", p>> : p \in step.uses \ w.open }
  \cup { <<op, w.money>> : op \in { o \in {"move", "pay"} : step.op = o /\ step.from # w.money } }

Perform(w, step) ==
  CASE step.op = "open"  -> [w EXCEPT !.open = @ \cup step.uses]
    [] step.op = "move"  -> [w EXCEPT !.money = step.to, !.faults = @ \cup Faults(w, step)]
    [] step.op = "close" -> [w EXCEPT !.open = @ \ {"wsol"}, !.faults = @ \cup Faults(w, step),
                                      !.money = IF @ = "wsol" THEN Lamports ELSE @]
    [] OTHER             -> [w EXCEPT !.faults = @ \cup Faults(w, step)]

(* One instruction after the other. *)
Run(w, steps) ==
  LET after[i \in 0..Len(steps)] == IF i = 0 THEN w ELSE Perform(after[i - 1], steps[i])
  IN  after[Len(steps)]

Execute(tx) == Run(Wallet(tx), Instructions(tx))
=============================================================================
