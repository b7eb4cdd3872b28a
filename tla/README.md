# Launchpad orchestrator: a TLA+ verification project

The repository is a Go server and one web page. The server turns "swap this mint into
that one" into a quote and up to four (in one case eight) ready transactions, some of them
paid for and co-signed by a *sponsor* key. The page shows the quote, lets the user choose a variant and
hands the transaction to a wallet. Once a transaction has left the server, nothing but its
own instructions protects the sponsor and the user, and those instructions were written
from a snapshot of a chain that has moved since. The models are about that: what is sized
off-chain, what is measured on-chain, what can change in between, and what the page sends.

## 1. Inventory

| Component | State | Operations | Talks to |
|---|---|---|---|
| HTTP API (`internal/api`) | none | `POST /api/quote`, inspect, simulate, health, public config | quote pipeline, Solana RPC |
| Quote pipeline (`orchestrator/quote*.go`) | none between requests | `Quote`, `quoteSOLSettlement`, `quotePumpLaunchpad`, `quotePumpSwap` | snapshot, Jupiter, builders |
| Routing (`internal/route`) | none | `ClassifyPair`, `PlanLaunchpadRoute`, eligibility predicates | pure |
| Snapshot (`internal/snapshot`, `solana/batch.go`) | none | fetch plan, batched account fetch, venue detection | Solana RPC |
| Jupiter (`internal/jupiter`) | none | `DiscoverSingleHop` | HTTP |
| Sponsor sizing (`sponsor.go`, `sponsor_quote.go`, `util/amount.go`) | configuration | repay estimate, its deduction, bridge scaling | pure |
| Builders (`orchestrator/build*.go`) | none | one per route: templates, minima, token accounts | Ifx planners, encoders |
| Variant compiler (`compile_variants.go`, `build_sponsored.go`, `build_wsol_convert.go`) | `out`, per request | tip, compile, size check, co-sign, capabilities, default build | blockhash RPC, sponsor key |
| Ifx planners (`internal/ifx`) | the shared on-chain frame `PublicFrames[0]` | one plan per route: reset, let, assert, patched CPI | the Ifx program |
| Pump.fun pricing (`venue/pumpfun/quote*.go`, `resolve.go`) | none | `BuyBaseOut`, `SellQuoteOut`, swap quote | pure |
| Encoders (`venue/pumpfun`, `internal/bridge`, `solana/wsol.go`...) | none | instruction bytes and account lists | pure |
| Swap page (`public/app.js`) | `lastQuote`, `wallet`, toggles, mode, form, status | quote, toggle, flip, send, confirm | API, wallet, RPC |
| Config, logging, inspection, simulation, other venues | none | read once, decode, detect | - |

The chain is a component too: balances, token accounts, pools and the frame are shared with every
other user, a transaction lands late or never, in any order, and is undone as a whole
when a step fails, the network fee excepted.

What is hard here:

* **Stale reads.** Quote and build read one snapshot; the transaction runs later. Rent, WSOL balances,
  pools and the frame are different by then.
* **Two-hop arithmetic.** The amount of hop 2 is measured on-chain, its minimum is fixed off-chain, the repay
  sits between them, the account it is measured in may hold the same token already, and the rounding of four computations must fall the right way.
* **Partial failure.** Every RPC, discovery and encoder may fail, once per variant.
* **One decision in three places.** Whether a route can repay a sponsor is judged by the route
  predicates, by the deduction in the quote and by the wiring of each builder.
* **The page.** Every handler awaits; answers cross, the user edits, toggles and switches
  wallets in between.
* **Liveness.** A sent transaction is waited for.

What makes each component correct: the sponsor is repaid what it spent and from the proceeds; hop 2 spends
what hop 1 left and is sized for no more; what is promised is paid; routes connect and are
co-signed only where they yield SOL; every variant is built or explained; the page sends what it
shows, for the form it shows. The `hazards` of `PROJECT.json` give the lines.

## 2. Modules

| Module | Models | How state and actions correspond to the code |
|---|---|---|
| `SponsorMath` | `util/amount.go`, `sponsor.go`, `sponsor_quote.go` | operators of the same names; `ScaleBridgeOut` wraps at the word it is given (the number of values of the type, 2^64), the rest is `big.Int` in the code |
| `TxPlan` | `internal/ifx`, `orchestrator/build*.go` | for every route and funding mode, the sequence of steps that a planner appends; sizing of hop 2 |
| `IfxTx` | the chain running those plans | a ledger (user, sponsor, treasury, WSOL, the quote token of an SPL pool, open accounts), the frame, pending transactions; one action per step, `BuildSwap/BuildUnwrap/BuildWrap` for the server, `Land`, `Expire`, `Commit`, `Abort`, and the rest of the world |
| `SponsorContract` | the contract between sponsor and user | abstract: an offer is settled, fails or is dropped in one step; `IfxTx` implements it |
| `PumpCurve` | `venue/pumpfun/quote.go` | both price functions, rounding by rounding; the pool's own effect is external |
| `CurveSwap` | `quote_launchpad.go`, `build_swap.go`, `build_multi_leg.go` amounts | quote, trades of others, execution of a chosen variant against its minima |
| `FetchPlan` | `snapshot/fetch_plan.go`, and every lookup in the snapshot | sets of account keys: what is fetched for a pair, what the handler and the builders read later |
| `TxAccounts` | `orchestrator/build*.go`, `internal/ifx`, `venue/pumpfun/instructions*.go`, `solana/wsol.go` | for every builder, SOL- and SPL-settled, the accounts opened and used and where the money lies, step by step; `Execute` runs it |
| `BuildKeys` | the keys of `builds` | shared by `QuoteFlow` and `SwapPage`: what the server files a transaction under, what the page looks up |
| `QuoteFlow` | `Quote` and everything it calls | `stage` is where the handler is; each RPC or discovery is an action that may fail; `fetched` holds the snapshot's keys, tested wherever the code looks one up; one `CompileVariant` per variant; `Land` runs a transaction of the answer through `TxAccounts` |
| `SwapPage` | `public/app.js` | the page's variables under their own names; one action per handler, split at each `await` |
| `SponsorMath_proofs`, `IfxTx_proofs`, `IfxTxTrade_proofs`, `IfxTxContract_proofs`, `CurveSwap_proofs`, `QuoteFlow_proofs`, `Landing_proofs`, `SwapPage_proofs` | - | theorems about the module of the name (section 4) |
| `MC*` | - | values of the constants |

Composition: `SponsorMath` is extended by `TxPlan` and `PumpCurve`, those by `IfxTx` and
`CurveSwap`; `IfxTx` instantiates `SponsorContract` under a refinement mapping. `QuoteFlow` extends
`FetchPlan` and `TxAccounts`. `QuoteFlow` and `SwapPage` stand on both sides of `/api/quote` and abstract each other by an
assumption and its guarantee: `SwapPage!Answers` allows any set of transactions within `BuildKeys!KeysOffered`, and
`QuoteFlow` is checked to answer within it (`AnswerAsPageExpects`).

Abstractions worth knowing:

* An instruction that neither moves SOL, WSOL or rent nor touches the frame is not a step
  (other tokens' transfers, compute budget). Wrap and close of the same account are.
* `IfxTx` lets a pool pay anything in `Outs` that meets the minimum; the prices are in `CurveSwap`. Conversely `CurveSwap`
  takes the repay due as a number (`Dues`, at most the estimate), which `IfxTx` measures.
* A chain through an SPL pool has one pair of steps for both kinds of hop: a sale or a bridge pays into the quote account, a bridge or a
  purchase takes the patched amount out of it. The four planners differ in nothing else that the ledger shows.
* In `QuoteFlow` an amount has one of three sizes: eaten by the service fee (`dust`), not above the
  repay (`small`), or `ample`. The service fee is taken to be above zero: at zero the one-hop sale has no sponsored variant, which
  the code reports as `sponsored_not_wired`.
* `QuoteFlow` starts anew for each request, as the server does. A pool quoted in a mint that is not configured is the quote `foreign`.
* `TxAccounts` has no amounts: the money of a trade is in one place at a time, and the wallet has besides SOL only what
  it pays with. Opening an account is idempotent, so a wallet with more accounts open cannot fail where this one succeeds.
  A landing is one step: what may change under a running transaction is in `IfxTx`. Transactions without their planner's
  instructions (`swallowed_error`) are not landed.
* `CurveSwap` starts from pools whose quote side is not empty, as every pool that can be quoted is: the code answers 0 for an empty one.
* `SwapPage` starts without configuration, as the page does. The server refuses to start without an RPC URL
  (`config.go:235`), so a page has one as soon as its configuration is in, and none before.
* `touched` in `SwapPage` is a history variable: it records that the user did anything since the last request
  that the page does not take into account.

## 3. Runs

| Run | Shows | Bounds, and why they are enough |
|---|---|---|
| `ifx_tx` | `TypeOK`, `SponsorMadeWhole`, `ChainedHopsExact`, `QuoteHopsExact`, `HopTwoCoversSizing`, `SellRepaidFromProceeds` | one transaction of all ten routes, built from any and landing in any of the listed ledgers and frames; steps do not interleave with other transactions on-chain, so one is enough except for what the second run asks. The priority fee of the schedule does not round evenly, and outputs lie below, at and above what repay and fee need. |
| `ifx_tx_pair` | `ImplementsContract` | two transactions of three routes (one and two hops, settlement) outstanding together |
| `curve_swap` | `TypeOK`, `SecondHopAbsorbsFirst`, `PromiseKept`, `RoundTripNeverGains` | two curves that a purchase can exhaust, a bridge, up to two trades of others; amounts from 1, where every rounding shows, up to one that drains the curve |
| `quote_flow` | `TypeOK`, `SponsoredRoutesYieldSOL`, `SponsoredBuildsSized`, `RouteConnected`, `EveryVariantExplained`, `AnswerAsPageExpects`, `LookupsFetched`, `AccountsOpenWhenUsed`, `HopsFindTheMoney`, `PaidFromTrade`, `DeliveredWhereAsked` | three quote mints and two tokens (pairs that repeat another by renaming a token left out), all settlement strings and the absent one, pools of all three quotes and of one that is not configured, three encoder refusals that differ in which variants they hit |
| `swap_page` | `TypeOK`, `ShownIsSent`, `UntouchedOffersForm`, and `PendingResolves` | two requests in flight, enough to cross; one transaction with the wallet and one being confirmed; a trade and both conversions; one wallet account, connected and disconnected at will. A trade is not told apart from its reverse. |

`CHECK_DEADLOCK FALSE` is set where the system ends: when the built transactions are gone, the quote is
executed, or the request is answered. The page never ends and is checked for deadlock.

In seven places the code does something other than what the repository says of it. Each has a run
that TLC must find violated:

| Run | Property | What happens |
|---|---|---|
| `ifx_tx_quote_repay` | `QuoteSwapRepaidFromProceeds` | `quote_bridge.go:110` compares the whole WSOL balance with the repay, so WSOL held before the swap can pay the sponsor (`README.md:22`, `docs/plan.md:258`) |
| `curve_swap_scaling` | `BridgeMinProtects` | `sponsor_quote.go:108` multiplies in `uint64`; large sponsored sales get a meaningless minimum. The run narrows the word to 256 values so that small amounts wrap. |
| `swallowed_error` | `CoSignedNeverEmpty` | a shadowed `err` in both sale builders (`build.go:271`, `build_multi_leg.go:377`): a failed sponsored plan is compiled and co-signed empty |
| `unit_mismatch` | `RepayDeductedFromSOL` | on USDC- and USDT-quoted pools lamports are subtracted from token units |
| `repay_refuses_all` | `SelfFundedNeedsNoRepay` | an amount below the repay is refused for the self-funded variants too |
| `sale_settlement` | `SaleSettledAsAsked` | the one-hop sale for SOL pays lamports, whatever output settlement was asked for (`build.go:259`, `README.md:134`) |
| `swap_page_stale` | `OffersForm` | an edited form, another wallet or crossed answers leave the older transaction sendable (two wallets) |

Each property of a passing run has a mutant of the code's definition, written beside it and named in
`PROJECT.json`, under which TLC finds it violated.

**Fairness.** Only `WF(Confirm)` in `SwapPage`: `confirmTransaction` returns when the transaction is
confirmed or throws when its blockhash expires, so a wait that has begun ends. A transaction sent before the
configuration was in is not waited for (`app.js:870`) and stays pending; `PendingResolves` is about those that are. Nothing obliges a user to click or a wallet to answer, so nothing else is fair.
The other modules state safety only.

## 4. Proofs

The theorems hold for every value of the constants: every fee schedule, tip, fee, slippage, rent, repay and amounts, any pools and curves, any
pairs of the mints of `QuoteFlow` with pools of any quote, any forms and wallets, any number of transactions and trades. They rest on the named assumptions of the modules
(`SchedAssumption`, `RateAssumption`, `ChainAssumption`, `CurveFeeAssumption`, `SwapAssumption`, `FlowAssumption`, `PageAssumption`), which give the constants their types
and say little more: a service fee of at least one basis point in `IfxTx`, quote reserves above zero in `CurveSwap`. TLC evaluates
them in every run. Each theorem about a property has the same shape: an inductive invariant is kept by every action, and implies the property.

| Module | Theorems | Property |
|---|---|---|
| `IfxTx_proofs` | `TypeCorrect`, `MadeWhole` | `TypeOK`, `SponsorMadeWhole` |
| `IfxTxTrade_proofs` | `ChainsAreExact`, `QuoteChainsAreExact`, `RepaidFromProceeds`, `SizingCovered` | `ChainedHopsExact`, `QuoteHopsExact`, `SellRepaidFromProceeds`, `HopTwoCoversSizing` |
| `IfxTxContract_proofs` | `Refines` | `ImplementsContract` |
| `CurveSwap_proofs` | `CurveTypeCorrect`, `PromisesKept`, `SecondHopAbsorbs`, `RoundTripsNeverGain` | `TypeOK`, `PromiseKept`, `SecondHopAbsorbsFirst`, `RoundTripNeverGains` |
| `QuoteFlow_proofs` | `FlowTypeCorrect`, `RoutesYieldSOL`, `BuildsSized`, `RoutesConnect`, `VariantsExplained`, `AnswersExpected`, `LookupsAreFetched` | `TypeOK`, `SponsoredRoutesYieldSOL`, `SponsoredBuildsSized`, `RouteConnected`, `EveryVariantExplained`, `AnswerAsPageExpects`, `LookupsFetched` |
| `Landing_proofs` | `AccountsOpen`, `HopsFind`, `PaidFromTheTrade`, `DeliveredAsAsked` | `AccountsOpenWhenUsed`, `HopsFindTheMoney`, `PaidFromTrade`, `DeliveredWhereAsked` |
| `SwapPage_proofs` | `PageTypeCorrect`, `ShownSent`, `UntouchedOffers` | `TypeOK`, `ShownIsSent`, `UntouchedOffersForm` |

**The sponsor (`IfxTx_proofs`).** `TypeOK` and `SponsorMadeWhole` are not inductive. That the sponsor is whole at the end says
nothing of the middle, and that a step's result is a natural number depends on slots that an earlier step filled. `IInv` adds, for
a running transaction, in terms of which steps of its plan are past:

* `AllWired`: only routes with a sponsored plan are ever sponsored;
* `FeeReserved`: the fee payer could pay when the transaction landed, so an abort can charge it;
* `SlotsBound`: a slot is bound once the step that measures into it is past;
* `CostMeasured`: the slot of the rent is untouched until it is measured, so `let` really fills it;
* `SponsorAccounts`: the exact difference of both sponsor accounts since landing.

`PlanShape` looks at each plan once: what a step reads is bound by an earlier step, and a sponsored plan that charges the sponsor also
repays, once, after measuring. `Motion` and the lemmas by kind of step keep `IInv`. `EstimateCoversFees` of `SponsorMath_proofs`
closes the account: the estimate is at least network fee plus tip, but for the lamport that flooring the priority fee may lose; it
needs no buffer.

**The user (`IfxTxTrade_proofs`).** On top of `IInv`, `TInv` follows the money of a trade. `SlotsFresh` says that after the reset no slot is
bound before the step that binds it, so nothing another transaction left in the shared frame is ever read. `InHand` names where the proceeds of hop 1 are
(a balance above what was measured, then the slot of the delta, of the net, of the amount spent), and `TraderAccounts` that,
but for what is in hand, fees and rent, the user has what was there at landing. `SaleAccounts` and `HopMeasured` are the same for one-hop sales and for the
amounts of a sponsored sale that continues. `SizingCovered` has a hypothesis, `ATARent <= Sched.rent`: the chain asks no more for a token account than
`splATARentLamports` (`sponsor.go:12`), which is so of SPL token accounts and not of every Token-2022 account.

**The contract (`IfxTxContract_proofs`).** Every step of `IfxTx` maps to a step of `SponsorContract` or to a stutter. The mapping
needs two facts more: an id is held by one transaction (`OffersDistinct`), and a self-funded transaction has touched nothing of the sponsor's (`OwnMoney`).

**The prices (`CurveSwap_proofs`).** `Sized` says of an answered quote that at the pools it saw, *any* input of the last hop from the least that
a variant may leave it upwards pays the minimum written for that variant. It is established where the quote is made and nothing later moves it. The lemmas are
about integer division: a pool pays more for more (`PoolMonotone`), never its whole reserve (`PoolPays`), a part of a quote promises
no more than the pool would answer to that part (`ScaledUnderPool`, which carries the bridge's minimum), and a fee leaves more of
more (`NetMonotone`). `PromisesKept` holds in whatever word the bridge quote is scaled: when the product wraps, the promise shrinks with the minimum, and that is what `curve_swap_scaling` is about.

**The request (`QuoteFlow_proofs`).** `IInv` has one conjunct per decision that a later stage relies on: `Placed` (which stage a pair class
can be in), `Routed` (the legs are those of the pair and its pool), `Planned` (the snapshot holds the keys planned for the pair), `Deducted`
(the amounts are sized for the repay exactly when a sponsor is offered), `Made` and `Listed` (what each variant was refused or built as, and where it is filed). The three places
that judge sponsorship are compared by cases on the pair class and the quote of the pool, and `PoolQuote` ranges over any mints.

**The landing (`Landing_proofs`).** A builder concatenates pieces, so its plan is treated as a program. `Leads(O, p, steps, O2, q, F)` says that the piece `steps`, started with
the accounts `O` open and the money at `p`, ends with `O2` open, the money at `q` and no fault outside `F`; there is one lemma for each kind of piece (`Opening`, `Moving`, `Paying`, ...)
and one to put two together (`Onwards`). `PlansRun` then goes through the plan of each pair class. Its hypothesis is `Landable`, the shapes that a built transaction can have: the invariant of
`QuoteFlow_proofs` yields it (`AnswersLand`), together with `Converting` (SOL and WSOL are never converted into themselves). The only faults left are those that the properties name (`Known`).
`TxAccounts!Run` is a recursive function, and how far it gets is shown by induction on the steps. `Counting` does that induction over a *set* of numbers, from the fact that every
nonempty set of naturals has a least one, so that no theorem with an operator for a parameter is needed.

**The page (`SwapPage_proofs`).** Beside the two properties themselves: an answer offers only what it may (`AnswerOffered`), a ticked toggle was not refused (`MevAgreed`),
and the one request of an undisturbed page is for what it shows (`Undisturbed`).

Two notations of the modules are there for the provers: alternatives with overlapping guards are nested `IF`s, since a `CASE` is then a choice, and a
prefix `UNION` or `SUBSET` is in parentheses, which the tools bind differently.

**Only model-checked.** `PendingResolves` of `SwapPage`: liveness under fairness. The properties that the violation runs refute are refuted by TLC's counterexamples.

## 5. Not modelled

* Configuration, logging, transaction inspection and simulation, static files: no state, or display only.
* Encoders (Pump.fun, AMM v4, CPMM, DAMM v2): account lists and byte layouts. That they fail is modelled, and of Pump.fun's
  which instructions there are and which accounts of the user they open and use.
* Raydium LaunchLab and Meteora DBC: the code detects them and stops; so does `QuoteFlow`.
* Amounts of chains that cross between SOL and a USDC- or USDT-quoted pool, of one-hop trades on such a pool, of the self-funded one-hop
  purchase, and of inputs wrapped from native SOL: no sponsor takes part in them; their accounts and places are in `TxAccounts`.
  The chains that stay within SPL tokens are in `IfxTx`. `PlanPumpBuySponsored` is reached by no request.
* A transaction that uses an account of anyone but the user: the operator's fee accounts and the pools' are taken to be open.
  The one-hop sale on an SPL pool leaves the user's quote account to the pool's program, which is not in the repository.
* `recipientPubkey` only adds accounts to the snapshot: no builder pays to it. HTTP status codes are not told apart.
* Balances, inspector and simulation of the page: drawn, and not tested before sending. The amount that MAX writes is a form like any other.
* That a request ends: no deadline bounds its RPC calls, so the code justifies no fairness for them.
* Slippage above 10000 basis points, which the API does not reject.

## 6. Plan

Done, in this order: `SponsorMath`, `TxPlan`, `IfxTx` with its contract and first proofs; `PumpCurve` and
`CurveSwap`; `QuoteFlow`; `SwapPage`; `FetchPlan` and `TxAccounts` with the landing of an answer; `BuildKeys`, the two sides of
`/api/quote` against each other; the page before its configuration is in; the SPL-quoted chains in the ledger of `IfxTx`.

Open, extending the models: slots per account in the snapshot (batches, the blockhash taken last).

The proofs, done: sponsor and user of `IfxTx`, the refinement of its contract, `CurveSwap`, `QuoteFlow` up to the answer, the landing of an answer, `SwapPage`.

Open, among the proofs: every safety property and action property that a passing run checks has a theorem. What is left is to join page and server in one
theorem: `SwapPage` assumes of an answer what `AnswersExpected` guarantees, and that is read off both modules, not stated by either.
