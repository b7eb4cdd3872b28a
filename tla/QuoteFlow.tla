----------------------------- MODULE QuoteFlow -----------------------------
(***************************************************************************)
(* One POST /api/quote, from the request to the answer: classification,    *)
(* pool discovery, the account snapshot, venue detection, the route, the   *)
(* sizing, and the compilation of one transaction per variant; and what a  *)
(* transaction of the answer does to the user's accounts when it lands.    *)
(*                                                                         *)
(* The server keeps nothing between requests, so one request is the whole  *)
(* system.  Every RPC, Jupiter call and encoder may fail.  An amount is    *)
(* abstracted to its size against the service fee and the sponsor's repay; *)
(* the numbers are in CurveSwap and IfxTx.                                 *)
(***************************************************************************)
EXTENDS Naturals, Sequences, FiniteSets, BuildKeys, FetchPlan, TxAccounts

CONSTANTS
  Pairs,        \* <<inputMint, outputMint>> of the requests considered
  PoolQuotes,   \* quote mints a Pump.fun pool may have, "foreign" if not configured
  EncoderFaults \* refusals of the encoders considered, a part of LateRefusals

Tokens == {"A", "B"}
Mints == Quotes \cup Tokens

LateRefusals == {"jito_tip", "compile_error", "tx_too_large", "sponsor_sign", "marshal_error"}

ASSUME FlowAssumption ==
  /\ Pairs \subseteq Mints \X Mints
  /\ PoolQuotes \subseteq Quotes \cup {"foreign"}
  /\ EncoderFaults \subseteq LateRefusals

Settlements == {"native_sol", "wsol_spl", "spl"}
Sizes == {"dust", "small", "ample"}   \* all fee; all repay; more than both
Balances == {"none", "less", "equal", "more"} \* WSOL held, against the input

VARIABLES
  cfg,      \* [sponsor, keypair, jito]: enabled, loadable, enabled
  req,      \* the request, settlements normalised
  stage,    \* what the handler does next
  fetched,  \* keys of the accounts in the snapshot
  pools,    \* what the snapshot says of each token's pool
  legs,     \* the route
  deducted, \* mint of the amount the repay was subtracted from, or "none"
  queue,    \* variants still to compile
  made,     \* for each variant compiled: its contents or the refusal's reason
  planErr,  \* buildPumpSellTwoLeg's err, which its closure assigns and tests
  answer,   \* "none", "error", "repay", "skipped", "unbuilt" or "quoted"
  build,    \* the answer's default build
  landed    \* the transaction the user sent, and where it left the money

vars == <<cfg, req, stage, fetched, pools, legs, deducted, queue, made, planErr, answer,
          build, landed>>

NoPool == [venue |-> "none", quote |-> "wsol"]
NoReq == [in |-> "none"]
NoTx == [tx |-> [class |-> "none"], end |-> [faults |-> {}]]

Stages == {"idle", "jupiter", "snapshot", "settle", "detect", "plan", "bridge",
           "fetchPool", "amounts", "build", "compile", "done", "landed"}

(* What a transaction built holds: the user's own trade, the trade with the  *)
(* sponsor's repay, or neither.                                              *)
Contents == {"self", "sponsored", "empty"}
Refusals == {"jito_disabled", "no_sol_in_route", "sponsor_keypair", "build_error",
             "sponsored_not_wired", "sol_settlement_no_mev", "wrap_user_pays"} \cup LateRefusals

-----------------------------------------------------------------------------
(* Routing. *)

(* Mutant of NormalizeSettlement: an absent settlement is passed on. *)
NormalizeSettlementAbsent(mint, s) == s

NormalizeSettlement(mint, s) ==
  IF mint = "wsol" THEN IF s \in {"wsol_spl", "native_sol"} THEN s ELSE "native_sol"
                   ELSE IF s = "" THEN "spl" ELSE s

Class ==
  IF {req.in, req.out} = {"wsol"} THEN "settle"
  ELSE IF {req.in, req.out} \subseteq Quotes THEN "quote"
  ELSE IF req.in \in Quotes THEN "buy"
  ELSE IF req.out \in Quotes THEN "sell"
  ELSE "swap"

Unwraps == req.inSettle = "wsol_spl" /\ req.outSettle = "native_sol"

Base == IF req.in \in Quotes THEN req.out ELSE req.in
PoolQuote == pools[Base].quote

Leg(kind, in, out) == [kind |-> kind, in |-> in, out |-> out]

PlanLaunchpadRoute ==
  CASE Class = "buy" ->
         IF req.in = PoolQuote
         THEN <<Leg("launchpad", req.in, req.out)>>
         ELSE <<Leg("bridge", req.in, PoolQuote), Leg("launchpad", PoolQuote, req.out)>>
    [] Class = "sell" ->
         IF req.out = PoolQuote
         THEN <<Leg("launchpad", req.in, req.out)>>
         ELSE <<Leg("launchpad", req.in, PoolQuote), Leg("bridge", PoolQuote, req.out)>>
    [] OTHER ->
         <<Leg("launchpad", req.in, PoolQuote), Leg("launchpad", PoolQuote, req.out)>>

HasBridgeLeg(route) == \E i \in DOMAIN route : route[i].kind = "bridge"

RouteInvolvesSOL == \E i \in DOMAIN legs : "wsol" \in {legs[i].in, legs[i].out}

RouteHasSOLStream ==
  \/ "wsol" \in {req.in, req.out}
  \/ req.outSettle \in {"native_sol", "wsol_spl"}
  \/ RouteInvolvesSOL

QuoteSwapSponsoredEligible ==
  /\ req.inSettle # "native_sol"
  /\ req.out = "wsol"
  /\ req.outSettle \in {"native_sol", "wsol_spl"}

SponsoredRepayEligible ==
  IF Len(legs) = 1 /\ legs[1].kind = "bridge"
  THEN QuoteSwapSponsoredEligible
  ELSE req.inSettle # "native_sol" /\ RouteHasSOLStream

SponsoredSwapEligible == cfg.sponsor /\ SponsoredRepayEligible

(* Mutant of ShouldDeduct: SOL in the middle of the route is overlooked. *)
ShouldDeductByMints ==
  cfg.sponsor /\ req.inSettle # "native_sol" /\ "wsol" \in {req.in, req.out}

ShouldDeduct == cfg.sponsor /\ SponsoredRepayEligible

(* Mutant of SwapMismatch: the pools' quotes are not compared. *)
SwapMismatchUnchecked == pools[req.out].venue # pools[req.in].venue

SwapMismatch ==
  \/ pools[req.out].venue # pools[req.in].venue
  \/ pools[req.out].quote # PoolQuote

(* Mutant of Wired: every planner is taken to repay. *)
WiredEverywhere == TRUE

(* The route's planner has a form that repays the sponsor. *)
Wired ==
  CASE Class = "settle" -> Unwraps
    [] Class = "quote"  -> QuoteSwapSponsoredEligible
    [] OTHER            -> PoolQuote = "wsol"

(* The instructions are fixed beforehand: assembling a variant cannot fail. *)
FixedInstructions ==
  CASE Class = "settle" -> ~Unwraps
    [] Class = "quote"  -> ~Wired
    [] Class = "buy"    -> ~Wired
    [] Class = "sell"   -> ~Wired /\ Len(legs) = 1
    [] OTHER            -> FALSE

(* The closures of both sales: an inner err hides the one they test. *)
LosesError == Class = "sell" /\ Wired

(* The accounts read at each stage; without one of them the handler fails, or *)
(* finds no venue, or skips the build.                                        *)
Lookups ==
  CASE stage = "settle"  -> IF Unwraps THEN SettleLookups ELSE {}
    [] stage = "detect"  -> DetectLookups(Base)
    [] stage = "amounts" -> AmountLookups(req.in, req.out)
    [] stage = "build"   ->
         CASE Class = "settle" -> {}
           [] Class = "quote"  -> BridgeLookups(Class, req.in, req.out)
           [] OTHER -> LaunchpadLookups(req.in, req.out, PoolQuote)
                \cup UNION { BridgeLookups(Class, legs[i].in, legs[i].out) :
                             i \in { j \in DOMAIN legs : legs[j].kind = "bridge" } }
    [] OTHER -> {}

Found == Lookups \subseteq fetched

-----------------------------------------------------------------------------
(* The end of a request. *)

fixed == <<cfg, landed>>
snap == <<fetched, pools>>

Close(a) == stage' = "done" /\ answer' = a

Reject ==
  /\ Close("error")
  /\ UNCHANGED <<fixed, req, snap, legs, deducted, queue, made, planErr, build>>

(* The amount does not cover the sponsor's repay. *)
RejectForRepay ==
  /\ Close("repay")
  /\ UNCHANGED <<fixed, req, snap, legs, deducted, queue, made, planErr, build>>

(* 200 with buildSkippedReason "build_error"; the capabilities are dropped. *)
SkipBuild ==
  /\ Close("skipped") /\ made' = <<>>
  /\ UNCHANGED <<fixed, req, snap, legs, deducted, queue, planErr, build>>

Goto(s) == stage' = s /\ UNCHANGED <<fixed, req, queue, made, planErr, answer, build>>

-----------------------------------------------------------------------------
(* Actions, in the order Quote runs them. *)

Receive(in, out, si, so, size) ==
  /\ stage = "idle"
  /\ req' = [in |-> in, out |-> out, size |-> size,
             inSettle |-> NormalizeSettlement(in, si),
             outSettle |-> NormalizeSettlement(out, so)]
  /\ IF in = "wsol" /\ out = "wsol" /\ req'.inSettle = req'.outSettle
     THEN Close("error")
     ELSE stage' = (IF Class' = "quote" THEN "jupiter" ELSE "snapshot") /\ UNCHANGED answer
  /\ legs' = CASE Class' = "settle" -> <<Leg("settle", in, out)>>
               [] Class' = "quote"  -> <<>>
               [] OTHER             -> <<Leg("launchpad", in, out)>>
  /\ UNCHANGED <<fixed, snap, deducted, queue, made, planErr, build>>

DiscoverQuotePool ==
  /\ stage = "jupiter"
  /\ \/ Reject
     \/ /\ Goto("snapshot") /\ legs' = <<Leg("bridge", req.in, req.out)>>
        /\ UNCHANGED <<snap, deducted>>

PoolsOf(token) ==
  IF token \notin {req.in, req.out} THEN {NoPool}
  ELSE {NoPool, [NoPool EXCEPT !.venue = "other"]}
         \cup {[venue |-> "pumpfun", quote |-> q] : q \in PoolQuotes}

FetchSnapshot ==
  /\ stage = "snapshot"
  /\ \/ Close("error") /\ UNCHANGED snap
     \/ /\ fetched' = BuildFetchPlan(Class, req.in, req.out)
        /\ stage' = CASE Class = "settle" -> "settle" [] Class = "quote" -> "build"
                      [] OTHER -> "detect"
        /\ \E a \in PoolsOf("A"), b \in PoolsOf("B") : pools' = [A |-> a, B |-> b]
        /\ UNCHANGED answer
  /\ UNCHANGED <<fixed, req, legs, deducted, queue, made, planErr, build>>

(* The four variants in the order of AllVariantModes, once per settle mode. *)
InMode(mode) == << <<"selfFunded", mode>>, <<"selfFundedMev", mode>>,
                   <<"sponsoredSwap", mode>>, <<"sponsoredSwapMev", mode>> >>

VariantQueue(full) ==
  IF full THEN InMode("close") \o InMode("unwrapAll") ELSE InMode("")

(* quoteSOLSettlement between its snapshot and its builds. *)
Settle ==
  /\ stage = "settle"
  /\ \E bal \in Balances :
       IF Unwraps /\ (bal \in {"none", "less"} \/ ~Found) THEN Reject
       ELSE IF Unwraps /\ ShouldDeduct /\ req.size = "small" THEN RejectForRepay
       ELSE /\ deducted' = IF Unwraps /\ ShouldDeduct THEN "wsol" ELSE "none"
            /\ stage' = "build"
            /\ queue' = VariantQueue(Unwraps /\ bal = "equal")
            /\ UNCHANGED <<fixed, req, snap, legs, made, planErr, answer, build>>

DetectVenue ==
  /\ stage = "detect"
  /\ IF pools[Base].venue = "none" \/ ~Found THEN Reject
     ELSE IF pools[Base].venue = "other"
     THEN /\ Close("unbuilt")
          /\ UNCHANGED <<fixed, req, snap, legs, deducted, queue, made, planErr, build>>
     ELSE Goto("plan") /\ UNCHANGED <<snap, legs, deducted>>

Plan ==
  /\ stage = "plan"
  /\ IF Class = "swap" /\ SwapMismatch THEN Reject
     ELSE /\ legs' = PlanLaunchpadRoute
          /\ Goto(IF HasBridgeLeg(PlanLaunchpadRoute) THEN "bridge" ELSE "amounts")
          /\ UNCHANGED <<snap, deducted>>

(* Jupiter names a pool; the snapshot does not hold it, so it is fetched. *)
DiscoverBridgePool ==
  /\ stage = "bridge"
  /\ \/ Reject
     \/ req.size # "dust" /\ Goto("fetchPool") /\ UNCHANGED <<snap, legs, deducted>>

EnsureBridgePoolAccount ==
  /\ stage = "fetchPool"
  /\ \/ Close("error") /\ UNCHANGED fetched
     \/ stage' = "amounts" /\ fetched' = fetched \cup {BridgePool} /\ UNCHANGED answer
  /\ UNCHANGED <<fixed, req, pools, legs, deducted, queue, made, planErr, build>>

(* The unit the repay is taken from when the quote is sized, or "none". *)
DeductedFrom ==
  IF ~ShouldDeduct THEN "none"
  ELSE IF HasBridgeLeg(legs) THEN PoolQuote
  ELSE IF Class # "sell" /\ PoolQuote = "wsol" THEN "wsol"
  ELSE "none"

(* quotePumpLaunchpad and quotePumpSwap; a graduated curve is refused. *)
QuoteAmounts ==
  /\ stage = "amounts"
  /\ \/ Reject
     \/ DeductedFrom # "none" /\ req.size = "small" /\ RejectForRepay
     \/ /\ Found /\ req.size # "dust"
        /\ DeductedFrom = "none" \/ req.size = "ample"
        /\ deducted' = DeductedFrom
        /\ Goto("build")
        /\ UNCHANGED <<snap, legs>>

(* The builder before its first variant: state, templates, the blockhash.   *)
(* The purchase and the swap size the repay whatever the pool's quote is.   *)
PrepareBuild ==
  /\ stage = "build"
  /\ \/ SkipBuild
     \/ /\ Found
        /\ ~(Class = "buy" /\ Len(legs) = 1 /\ req.inSettle = "wsol_spl")
        /\ ~(Class \in {"buy", "swap"} /\ ShouldDeduct /\ req.size = "small")
        /\ stage' = "compile"
        /\ queue' = IF Class = "settle" THEN queue ELSE VariantQueue(FALSE)
        /\ UNCHANGED <<fixed, req, snap, legs, deducted, made, planErr, answer, build>>

-----------------------------------------------------------------------------
(* One transaction per variant. *)

(* Mutant of Recorded: a refused variant leaves no capability. *)
RecordedIfBuilt(verdict) == verdict \in Contents

(* Every verdict is entered in the answer's capabilities. *)
Recorded(verdict) == verdict \in Contents \cup Refusals

SponsorRefusal(key) ==
  IF Sponsored(key) /\ ~SponsoredSwapEligible THEN "no_sol_in_route"
  ELSE IF Sponsored(key) /\ ~cfg.keypair THEN "sponsor_keypair"
  ELSE "none"

(* Mutant of EarlyRefusal: a tip is added to conversions as to any trade. *)
EarlyRefusalOfTrades(key) ==
  IF Mev(key) /\ ~cfg.jito THEN "jito_disabled"
  ELSE IF Class = "settle" /\ Sponsored(key) /\ ~Unwraps THEN "wrap_user_pays"
  ELSE SponsorRefusal(key)

(* The refusals checked before the variant is assembled, in the code's order. *)
EarlyRefusal(key) ==
  IF Class = "settle" /\ Mev(key) THEN "sol_settlement_no_mev"
  ELSE IF Mev(key) /\ ~cfg.jito THEN "jito_disabled"
  ELSE IF Class = "settle" /\ Sponsored(key) /\ ~Unwraps THEN "wrap_user_pays"
  ELSE SponsorRefusal(key)

LateRefusalsOf(key) ==
  { f \in EncoderFaults :
      /\ f = "jito_tip" => Mev(key)
      /\ f \in {"sponsor_sign", "marshal_error"} => Sponsored(key) }

(* What becomes of a variant whose planner fails, or does not; a lost error *)
(* leaves the transaction without its instructions.                         *)
Verdicts(key, failed) ==
  LET lost    == Sponsored(key) /\ LosesError
      refused == IF lost THEN planErr ELSE failed
  IN  IF refused THEN {"build_error"}
      ELSE IF Sponsored(key) /\ ~Wired THEN {"sponsored_not_wired"}
      ELSE {IF ~Sponsored(key) THEN "self" ELSE IF failed THEN "empty" ELSE "sponsored"}
             \cup (IF lost THEN {"build_error"} ELSE {}) \cup LateRefusalsOf(key)

Enter(key, verdict) ==
  /\ made' = IF Recorded(verdict)
             THEN [k \in DOMAIN made \cup {key} |-> IF k = key THEN verdict ELSE made[k]]
             ELSE made
  /\ queue' = Tail(queue)
  /\ UNCHANGED <<fixed, req, stage, snap, legs, deducted, answer, build>>

CompileVariant ==
  /\ stage = "compile" /\ queue # <<>>
  /\ LET key == Head(queue)
     IN  IF EarlyRefusal(key) # "none"
         THEN Enter(key, EarlyRefusal(key)) /\ UNCHANGED planErr
         ELSE \E failed \in IF FixedInstructions THEN {FALSE} ELSE BOOLEAN :
                /\ \E v \in Verdicts(key, failed) : Enter(key, v)
                /\ planErr' \in IF LosesError /\ Len(legs) = 2 /\ ~Sponsored(key)
                              THEN {failed, FALSE} ELSE {planErr}

BuiltKeys == { key \in DOMAIN made : made[key] \in Contents }

Answer ==
  /\ stage = "compile" /\ queue = <<>>
  /\ IF BuiltKeys = {} THEN SkipBuild
     ELSE /\ Close("quoted")
          /\ build' \in Defaults(BuiltKeys)
          /\ UNCHANGED <<fixed, req, snap, legs, deducted, queue, made, planErr>>

-----------------------------------------------------------------------------
(* After the answer. *)

(* The transaction compiled for a variant, as TxAccounts sees it. *)
TxOf(key) ==
  [class |-> Class, in |-> req.in, inSettle |-> req.inSettle,
   out |-> req.out, outSettle |-> req.outSettle,
   quote |-> IF Class \in {"settle", "quote"} THEN "none" ELSE PoolQuote,
   hops |-> Len(legs), sponsored |-> Sponsored(key), mode |-> key[2]]

(* The client signs a transaction of the answer and it lands; the server has *)
(* forgotten the request.  What an empty transaction does is CoSignedNeverEmpty.*)
Land ==
  /\ stage = "done" /\ answer = "quoted"
  /\ \E key \in BuiltKeys :
       made[key] # "empty" /\ landed' = [tx |-> TxOf(key), end |-> Execute(TxOf(key))]
  /\ stage' = "landed" /\ req' = NoReq /\ fetched' = {}
  /\ pools' = [t \in Tokens |-> NoPool] /\ legs' = <<>>
  /\ deducted' = "none"
  /\ queue' = <<>> /\ made' = <<>> /\ planErr' = FALSE
  /\ answer' = "none" /\ build' = NoKey
  /\ UNCHANGED cfg

-----------------------------------------------------------------------------
Init ==
  /\ cfg \in [sponsor : BOOLEAN, keypair : BOOLEAN, jito : BOOLEAN]
  /\ stage = "idle" /\ req = NoReq /\ fetched = {}
  /\ pools = [t \in Tokens |-> NoPool] /\ legs = <<>>
  /\ deducted = "none"
  /\ queue = <<>> /\ made = <<>> /\ planErr = FALSE
  /\ answer = "none" /\ build = NoKey
  /\ landed = NoTx

Next ==
  \/ \E pair \in Pairs, si, so \in Settlements \cup {""}, size \in Sizes :
       Receive(pair[1], pair[2], si, so, size)
  \/ DiscoverQuotePool \/ FetchSnapshot \/ Settle \/ DetectVenue \/ Plan
  \/ DiscoverBridgePool \/ EnsureBridgePoolAccount \/ QuoteAmounts
  \/ PrepareBuild \/ CompileVariant \/ Answer \/ Land

Spec == Init /\ [][Next]_vars

-----------------------------------------------------------------------------
(* Properties. *)

(* The state is well formed; a WSOL side of a request that is under way is    *)
(* settled in native SOL or in the WSOL token, whatever the client sent, as   *)
(* wsol_settlement.go:16 promises every later stage.                          *)
TypeOK ==
  /\ cfg \in [sponsor : BOOLEAN, keypair : BOOLEAN, jito : BOOLEAN]
  /\ stage \in Stages
  /\ stage \notin {"idle", "landed"} =>
       /\ <<req.in, req.out>> \in Pairs /\ req.size \in Sizes
       /\ req.in = "wsol" => req.inSettle \in {"native_sol", "wsol_spl"}
       /\ req.out = "wsol" => req.outSettle \in {"native_sol", "wsol_spl"}
       /\ req.inSettle \in Settlements /\ req.outSettle \in Settlements
  /\ \A t \in Tokens : pools[t].venue \in {"none", "other", "pumpfun"} /\ pools[t].quote \in Quotes \cup PoolQuotes
  /\ Len(legs) <= 2 /\ deducted \in Quotes \cup PoolQuotes \cup {"none"}
  /\ DOMAIN made \subseteq Keys /\ \A key \in DOMAIN made : made[key] \in Contents \cup Refusals
  /\ \A i \in DOMAIN queue : queue[i] \in Keys
  /\ planErr \in BOOLEAN /\ build \in Keys \cup {NoKey}
  /\ answer \in {"none", "error", "repay", "skipped", "unbuilt", "quoted"}

CoSigned == { key \in DOMAIN made : Sponsored(key) /\ made[key] \in Contents }

(* The sponsor co-signs a transaction only if a leg of its route pays out SOL,*)
(* so that there are lamports to repay it from (docs/plan.md:276): the        *)
(* eligibility of the pair, the refusals of the builders and what each        *)
(* planner can do agree, though they are decided in three places.             *)
SponsoredRoutesYieldSOL ==
  CoSigned # {} => \E i \in DOMAIN legs : legs[i].out = "wsol"

(* When the route's second hop spends what the first left after the repay,    *)
(* a co-signed transaction exists only if the quote was sized with the repay  *)
(* taken off: the quote and the compiler judge eligibility separately.        *)
SponsoredBuildsSized ==
  CoSigned # {} /\ Len(legs) = 2 => deducted = "wsol"

(* An answered route runs from the mint paid to the mint wanted, each hop     *)
(* starting where the last ended, and trades each token only against the      *)
(* quote of its own pool.                                                     *)
RouteConnected ==
  answer = "quoted" =>
    /\ legs[1].in = req.in /\ legs[Len(legs)].out = req.out
    /\ \A i \in 1..(Len(legs) - 1) : legs[i].out = legs[i + 1].in
    /\ \A i \in DOMAIN legs : legs[i].kind = "launchpad" =>
         LET token == IF legs[i].in \in Tokens THEN legs[i].in ELSE legs[i].out
             quote == IF legs[i].in \in Tokens THEN legs[i].out ELSE legs[i].in
         IN  pools[token] = [venue |-> "pumpfun", quote |-> quote]

(* An answer with builds says of every variant, in every settlement mode it   *)
(* offers, that it is built or why it is not (docs/plan.md:471), and its      *)
(* default is one of the transactions built.                                  *)
EveryVariantExplained ==
  answer = "quoted" =>
    /\ \E modes \in {{""}, Modes} : DOMAIN made = Variants \X modes
    /\ build \in BuiltKeys

(* Whatever the server answers is among the answers that SwapPage reckons     *)
(* with: the page looks transactions up by keys that it composes from its     *)
(* toggles and its mode (app.js:51), the server files them by variant and     *)
(* settle mode (wsol_settlement.go:46).                                       *)
AnswerAsPageExpects ==
  answer = "quoted" =>
    \E full \in BOOLEAN :
      /\ full => Class = "settle" /\ Unwraps
      /\ BuiltKeys \subseteq KeysOffered(Class = "settle", Unwraps, cfg.sponsor, cfg.jito, full)

(* The snapshot is planned before the route is known, and holds every account *)
(* that the quote and the builders turn out to read (docs/plan.md:503: a      *)
(* missing account is an omission of the fetch plan).  A pool quoted in a     *)
(* mint that is not configured is beyond the plan and is never built.         *)
LookupsFetched ==
  Found \/ (stage = "build" /\ Base \in Tokens /\ PoolQuote = "foreign")

(* Every token account a landed transaction uses was held open by the payer   *)
(* or is opened by an earlier instruction, by whoever pays for it: an         *)
(* account that does not exist cannot even be measured                        *)
(* (sponsored_ata.go:46).  The one-hop sale on an SPL pool leaves its quote   *)
(* account to the pool's program.                                             *)
AccountsOpenWhenUsed ==
  \A fault \in landed.end.faults :
    fault[1] = "unopened" => LET tx == landed.tx IN
      tx.class = "sell" /\ tx.hops = 1 /\ fault[2] = tx.quote

(* Each hop takes the money where the one before it left it, wrapped or not,  *)
(* and the first where the user said to pay from.                             *)
HopsFindTheMoney == \A fault \in landed.end.faults : fault[1] # "move"

(* A fee, and the sponsor's repay, come out of the trade's own money, not out *)
(* of what else the user owns (docs/plan.md:271).  A purchase paid in WSOL    *)
(* tokens through a bridge still takes its fee from the user's lamports.      *)
PaidFromTrade ==
  \A fault \in landed.end.faults :
    fault[1] = "pay" => LET tx == landed.tx IN
      tx.class = "buy" /\ tx.inSettle = "wsol_spl" /\ ~tx.sponsored

SoldForSOL(tx) == tx.class = "sell" /\ tx.hops = 1 /\ tx.quote = "wsol"

(* A landed transaction leaves its proceeds where the request asked for them: *)
(* in the account of the mint, or in native SOL.  The one-hop sale for SOL    *)
(* knows native SOL only.                                                     *)
DeliveredWhereAsked ==
  stage = "landed" /\ ~SoldForSOL(landed.tx) => landed.end.money = AskedAt(landed.tx)

-----------------------------------------------------------------------------
(* What the repository says, against what the code does. *)

(* A sponsored transaction repays its sponsor: a variant whose planner failed *)
(* is refused, not built without its instructions (docs/plan.md:448).         *)
CoSignedNeverEmpty == \A key \in DOMAIN made : made[key] # "empty"

(* The repay, in lamports, is taken off an amount of SOL or WSOL, as the      *)
(* refusal of sponsor_quote.go:46 says.                                       *)
RepayDeductedFromSOL == deducted \in {"none", "wsol"}

(* The self-funded variant has no precondition (docs/plan.md:458): a request  *)
(* is not refused because it cannot repay a sponsor.                          *)
SelfFundedNeedsNoRepay == answer # "repay"

(* The output settlement, native SOL or the WSOL token, is honoured           *)
(* (README.md:134: it affects wrap and unwrap) by the sale for SOL too.       *)
SaleSettledAsAsked ==
  stage = "landed" /\ SoldForSOL(landed.tx) => landed.end.money = AskedAt(landed.tx)
=============================================================================
