------------------------------ MODULE SwapPage ------------------------------
(***************************************************************************)
(* The swap page of public/app.js: one browser tab, a wallet extension and *)
(* the quote server.  Handlers run to their next await without being       *)
(* interrupted; between two of them the user may touch anything, and the   *)
(* answers to several requests may arrive in any order.                    *)
(*                                                                         *)
(* What is only drawn is left out: amounts, balances, the inspector and    *)
(* the simulation, whose result no handler tests before sending.           *)
(***************************************************************************)
EXTENDS Naturals, FiniteSets, BuildKeys

CONSTANTS
  Forms,        \* what the pair, settlements, amount and slippage fields hold
  Conversions,  \* the forms that convert between SOL and WSOL,
  Unwraps,      \* and those of them that take WSOL
  Flipped,      \* the form with its two sides exchanged
  Wallets,      \* accounts of the wallet extension
  MaxQuotes,    \* bound: quote requests in flight
  MaxSends      \* bound: transactions with the wallet, and being confirmed

ASSUME PageAssumption ==
  /\ Unwraps \subseteq Conversions /\ Conversions \subseteq Forms
  /\ Flipped \in [Forms -> Forms]
  /\ MaxQuotes \in Nat \ {0} /\ MaxSends \in Nat \ {0}

VARIABLES
  server,    \* [sponsor, jito]: what the server has enabled
  loaded,    \* publicConfig is there
  wallet,    \* the connected account, or NoWallet
  form,      \* what the fields hold
  lastQuote, \* the answer on display, or NoQuote
  mev, sponsored, \* the toggles: [checked, disabled]
  settlementMode,
  sendOn,    \* the Send button is enabled
  asked,     \* quote requests in flight
  touched,   \* history: edited since the last request, or used while one was out,
             \* or the last request was lost
  approvals, \* transactions shown by the wallet for approval
  polls,     \* confirmations being waited for
  lastTxStatus

quoteVars == <<form, lastQuote, asked, touched>>
toggleVars == <<mev, sponsored, settlementMode>>
sendVars == <<approvals, polls, lastTxStatus>>
vars == <<server, loaded, wallet, sendOn, quoteVars, toggleVars, sendVars>>

NoWallet == "none"
NoQuote == [form |-> "none"]

Toggles == [checked : BOOLEAN, disabled : BOOLEAN]

(* The transactions the server may build for a form: any of them may fail.    *)
Buildable(f, full) ==
  KeysOffered(f \in Conversions, f \in Unwraps, server.sponsor, server.jito, full)

(* An answer without a build carries no capabilities and no modes. *)
Answers(r) ==
  { [form |-> r.form, wallet |-> r.wallet, full |-> full, built |-> B, build |-> b] :
      full \in {FALSE}, B \in {{}}, b \in {NoKey} }
  \cup UNION { UNION {
      { [form |-> r.form, wallet |-> r.wallet, full |-> full, built |-> B, build |-> b] :
          b \in Defaults(B) }
      : B \in (SUBSET Buildable(r.form, full)) \ {{}} }
      : full \in IF r.form \in Unwraps THEN BOOLEAN ELSE {FALSE} }

-----------------------------------------------------------------------------
(* Which transaction the page offers. *)

settlementAwareKey(base, q, m) == <<base, IF q.full THEN m ELSE "">>

activeVariantKey(q, withMev, withSponsor, m) ==
  settlementAwareKey(IF withSponsor
                     THEN IF withMev THEN "sponsoredSwapMev" ELSE "sponsoredSwap"
                     ELSE IF withMev THEN "selfFundedMev" ELSE "selfFunded", q, m)

activeBuild(q, withMev, withSponsor, m) ==
  IF q = NoQuote THEN NoKey
  ELSE LET key == activeVariantKey(q, withMev, withSponsor, m)
       IN  IF key \in q.built THEN key
           ELSE IF key = <<"selfFunded", "">> THEN q.build ELSE NoKey

Active == activeBuild(lastQuote, mev.checked, sponsored.checked, settlementMode)

(* The server said of this variant that it is not built. *)
Refused(base, q, m) ==
  q # NoQuote /\ q.built # {} /\ settlementAwareKey(base, q, m) \notin q.built

Converts(q) == q # NoQuote /\ q.form \in Conversions

MevDisabled(q, config, m) ==
  Converts(q) \/ (config /\ ~server.jito) \/ Refused("selfFundedMev", q, m)

SponsoredDisabled(q, config, withMev, m) ==
  \/ withMev /\ Converts(q)
  \/ config /\ ~server.sponsor
  \/ Refused(IF withMev THEN "sponsoredSwapMev" ELSE "sponsoredSwap", q, m)

(* Mutant of ApplyToggleState: a toggle keeps its tick when it is disabled. *)
ApplyToggleStateTicked(ticked, off) == [checked |-> ticked, disabled |-> off]

ApplyToggleState(ticked, off) == [checked |-> ticked /\ ~off, disabled |-> off]

(* syncVariantToggles: the sponsored toggle is judged with the tick the MEV   *)
(* toggle had before.                                                         *)
SyncVariantToggles(q, config, mevTick, sponsoredTick, m) ==
  /\ settlementMode' = m
  /\ mev' = ApplyToggleState(mevTick, MevDisabled(q, config, m))
  /\ sponsored' = ApplyToggleState(sponsoredTick, SponsoredDisabled(q, config, mevTick, m))

SyncNow(q) == SyncVariantToggles(q, loaded, mev.checked, sponsored.checked, settlementMode)

-----------------------------------------------------------------------------
(* Handlers. *)

(* A wallet that trusts the page is connected once the configuration is in. *)
LoadConfig ==
  /\ ~loaded /\ loaded' = TRUE
  /\ SyncVariantToggles(lastQuote, TRUE, mev.checked, sponsored.checked, settlementMode)
  /\ \E w \in Wallets \cup {wallet} :
       wallet' = w /\ touched' = (touched \/ w # wallet)
  /\ UNCHANGED <<server, form, lastQuote, sendOn, asked, sendVars>>

SetWallet(w) ==
  /\ w # wallet
  /\ wallet' = w /\ touched' = TRUE
  /\ UNCHANGED <<server, loaded, form, lastQuote, sendOn, asked, toggleVars, sendVars>>

ConnectWallet == wallet = NoWallet /\ \E w \in Wallets : SetWallet(w)
DisconnectWallet == wallet # NoWallet /\ SetWallet(NoWallet)

EditForm(f) ==
  /\ f # form /\ (f \in Conversions => loaded)
  /\ form' = f /\ touched' = TRUE
  /\ UNCHANGED <<server, loaded, wallet, lastQuote, sendOn, asked, toggleVars, sendVars>>

FlipMints ==
  /\ form' = Flipped[form] /\ touched' = TRUE
  /\ lastQuote' = NoQuote
  /\ SyncNow(NoQuote) /\ sendOn' = FALSE /\ lastTxStatus' = "none"
  /\ UNCHANGED <<server, loaded, wallet, asked, approvals, polls>>

(* Mutant of AskQuote: the Send button stays as it was while quoting. *)
AskQuoteSendable ==
  /\ wallet # NoWallet /\ (form \in Conversions => loaded)
  /\ Cardinality(asked) < MaxQuotes
  /\ asked' = asked \cup {[form |-> form, wallet |-> wallet]}
  /\ touched' = (asked # {})
  /\ UNCHANGED <<server, loaded, wallet, form, lastQuote, sendOn, toggleVars, sendVars>>

(* fetchQuote, up to the request. *)
AskQuote ==
  /\ wallet # NoWallet /\ (form \in Conversions => loaded)
  /\ Cardinality(asked) < MaxQuotes
  /\ asked' = asked \cup {[form |-> form, wallet |-> wallet]}
  /\ touched' = (asked # {})
  /\ sendOn' = FALSE
  /\ UNCHANGED <<server, loaded, wallet, form, lastQuote, toggleVars, sendVars>>

(* fetchQuote, from the answer on. *)
QuoteArrives(r, q) ==
  /\ asked' = asked \ {r}
  /\ SyncNow(q)
  /\ LET b == activeBuild(q, mev'.checked, sponsored'.checked, settlementMode')
     IN  /\ lastQuote' = IF b = NoKey THEN q ELSE [q EXCEPT !.build = b]
         /\ sendOn' = (b # NoKey)
  /\ lastTxStatus' = "none"
  /\ UNCHANGED <<server, loaded, wallet, form, touched, approvals, polls>>

QuoteFails(r) ==
  /\ asked' = asked \ {r}
  /\ lastQuote' = NoQuote /\ SyncNow(NoQuote)
  /\ UNCHANGED <<server, loaded, wallet, form, sendOn, touched, sendVars>>

(* The request throws: an alert, and nothing else; the older answer stays. *)
QuoteLost(r) ==
  /\ asked' = asked \ {r} /\ touched' = TRUE
  /\ UNCHANGED <<server, loaded, wallet, form, lastQuote, sendOn, toggleVars, sendVars>>

(* Mutant of OnVariantToggle: Send stays enabled for a variant not built. *)
OnVariantToggleSendable(mevTick, sponsoredTick, m) ==
  /\ SyncVariantToggles(lastQuote, loaded, mevTick, sponsoredTick, m)
  /\ touched' = (touched \/ asked # {})
  /\ UNCHANGED <<server, loaded, wallet, form, asked, lastQuote, sendOn, sendVars>>

OnVariantToggle(mevTick, sponsoredTick, m) ==
  /\ SyncVariantToggles(lastQuote, loaded, mevTick, sponsoredTick, m)
  /\ LET b == activeBuild(lastQuote, mev'.checked, sponsored'.checked, m)
     IN  /\ lastQuote' = IF b = NoKey THEN lastQuote ELSE [lastQuote EXCEPT !.build = b]
         /\ sendOn' = IF lastQuote = NoQuote THEN sendOn
                      ELSE b # NoKey /\ wallet # NoWallet
  /\ touched' = (touched \/ asked # {})
  /\ UNCHANGED <<server, loaded, wallet, form, asked, sendVars>>

ToggleMev == ~mev.disabled /\ OnVariantToggle(~mev.checked, sponsored.checked, settlementMode)
ToggleSponsored ==
  ~sponsored.disabled /\ OnVariantToggle(mev.checked, ~sponsored.checked, settlementMode)
SelectMode ==
  /\ lastQuote # NoQuote /\ lastQuote.full
  /\ \E m \in Modes \ {settlementMode} : OnVariantToggle(mev.checked, sponsored.checked, m)

Sendable == sendOn /\ Active # NoKey /\ wallet # NoWallet

SendTx ==
  /\ Sendable /\ approvals < MaxSends
  /\ approvals' = approvals + 1
  /\ UNCHANGED <<server, loaded, wallet, sendOn, quoteVars, toggleVars, polls, lastTxStatus>>

(* The wallet signs and sends.  The RPC URL is part of the configuration:     *)
(* before that is in there is no connection to wait on, and the status is     *)
(* pending without a wait.                                                    *)
Approve ==
  /\ approvals > 0 /\ approvals' = approvals - 1
  /\ lastTxStatus' = "pending"
  /\ \/ loaded /\ polls < MaxSends /\ polls' = polls + 1
     \/ ~loaded /\ UNCHANGED polls
  /\ UNCHANGED <<server, loaded, wallet, sendOn, quoteVars, toggleVars>>

(* The user refuses, or the wallet only signs and the page cannot send.       *)
Decline ==
  /\ approvals > 0 /\ approvals' = approvals - 1
  /\ UNCHANGED <<server, loaded, wallet, sendOn, quoteVars, toggleVars, polls, lastTxStatus>>

(* Mutant of Confirm: an expired transaction is not caught. *)
ConfirmUncaught ==
  /\ polls > 0 /\ polls' = polls - 1
  /\ lastTxStatus' \in {"confirmed", lastTxStatus}
  /\ UNCHANGED <<server, loaded, wallet, sendOn, quoteVars, toggleVars, approvals>>

(* confirmTransaction returns, or throws when the blockhash has expired. *)
Confirm ==
  /\ polls > 0 /\ polls' = polls - 1
  /\ lastTxStatus' \in {"confirmed", "failed"}
  /\ UNCHANGED <<server, loaded, wallet, sendOn, quoteVars, toggleVars, approvals>>

-----------------------------------------------------------------------------
Init ==
  /\ server \in [sponsor : BOOLEAN, jito : BOOLEAN]
  /\ loaded = FALSE /\ wallet = NoWallet
  /\ form \in Forms \ Conversions /\ lastQuote = NoQuote
  /\ mev = [checked |-> FALSE, disabled |-> FALSE]
  /\ sponsored = [checked |-> FALSE, disabled |-> FALSE]
  /\ settlementMode = "close" /\ sendOn = FALSE
  /\ asked = {} /\ touched = TRUE
  /\ approvals = 0 /\ polls = 0 /\ lastTxStatus = "none"

Next ==
  \/ LoadConfig \/ ConnectWallet \/ DisconnectWallet
  \/ \E f \in Forms : EditForm(f)
  \/ FlipMints \/ AskQuote
  \/ \E r \in asked : QuoteFails(r) \/ QuoteLost(r) \/ \E q \in Answers(r) : QuoteArrives(r, q)
  \/ ToggleMev \/ ToggleSponsored \/ SelectMode
  \/ SendTx \/ Approve \/ Decline \/ Confirm

(* The node ends every wait for a confirmation: the blockhash expires. *)
Spec == Init /\ [][Next]_vars /\ WF_vars(Confirm)

-----------------------------------------------------------------------------
(* The state is well formed; a disabled toggle is never ticked, whatever      *)
(* answer, edit or configuration came last (app.js:155).                      *)
TypeOK ==
  /\ server \in [sponsor : BOOLEAN, jito : BOOLEAN] /\ loaded \in BOOLEAN
  /\ wallet \in Wallets \cup {NoWallet} /\ form \in Forms
  /\ lastQuote # NoQuote =>
       /\ lastQuote.form \in Forms /\ lastQuote.wallet \in Wallets /\ lastQuote.full \in BOOLEAN
       /\ lastQuote.built \subseteq Keys /\ lastQuote.build \in lastQuote.built \cup {NoKey}
  /\ mev \in Toggles /\ sponsored \in Toggles
  /\ ~(mev.checked /\ mev.disabled) /\ ~(sponsored.checked /\ sponsored.disabled)
  /\ settlementMode \in Modes /\ sendOn \in BOOLEAN /\ touched \in BOOLEAN
  /\ asked \subseteq [form : Forms, wallet : Wallets] /\ Cardinality(asked) <= MaxQuotes
  /\ approvals \in 0..MaxSends /\ polls \in 0..MaxSends
  /\ lastTxStatus \in {"none", "pending", "confirmed", "failed"}

(* While Send is enabled and an answer is on display, the transaction that    *)
(* the page shows is the one that Send would hand to the wallet: every        *)
(* handler that moves a toggle, the mode, the answer or the configuration     *)
(* keeps lastQuote.build, the toggles and the button together.                *)
ShownIsSent ==
  sendOn /\ lastQuote # NoQuote => Active # NoKey /\ lastQuote.build = Active

(* A page that is used one step at a time, with no edit since the quote was   *)
(* asked for, nothing touched until its answer came, and an answer that did   *)
(* come, offers a transaction for exactly what its fields and wallet say.     *)
UntouchedOffersForm ==
  Sendable /\ ~touched => lastQuote.form = form /\ lastQuote.wallet = wallet

(* A sent transaction whose confirmation is waited for does not stay pending  *)
(* forever, whatever answers, edits and clicks come in between (app.js:868).  *)
(* One sent before the configuration was in is not waited for, and stays so.  *)
PendingResolves ==
  lastTxStatus = "pending" /\ polls > 0 ~> lastTxStatus # "pending"

(* What docs/plan.md:470 asks of a client: a change of pair, amount, slippage *)
(* or user needs a new quote, so no other form's transaction can be sent.     *)
OffersForm == Sendable => lastQuote.form = form /\ lastQuote.wallet = wallet
=============================================================================
