-------------------------- MODULE QuoteFlow_proofs --------------------------
(***************************************************************************)
(* One quote request, for any pairs, pool quotes and encoder faults: what  *)
(* the stages decide separately agrees.                                    *)
(*                                                                         *)
(* Eligibility for a sponsor is judged when the quote is sized, again for  *)
(* every variant, and a third time by what the route's planner can do.     *)
(* The inductive invariant says what each stage may take from those before *)
(* it: the legs are the ones of the pair and the pool, the snapshot holds  *)
(* its plan, the amount was sized by the legs, and whatever was compiled   *)
(* passed every refusal.                                                   *)
(***************************************************************************)
EXTENDS QuoteFlow, TLAPS, SequenceTheorems

Trade == Class \in {"buy", "sell", "swap"}

(* The legs of the request once it is planned. *)
Route ==
  IF Class = "settle" THEN <<Leg("settle", req.in, req.out)>>
  ELSE IF Class = "quote" THEN <<Leg("bridge", req.in, req.out)>>
  ELSE PlanLaunchpadRoute

Quoted == answer = "quoted"
Compiled == stage = "compile" \/ Quoted

ModesOf(full) == IF full THEN Modes ELSE {""}

(* What TypeOK leaves open of the shapes, and where a request stands. *)
Placed ==
  /\ pools \in [Tokens -> [venue : {"none", "other", "pumpfun"}, quote : Quotes \cup PoolQuotes]]
  /\ queue \in Seq(Keys)
  /\ Quoted => stage = "done"
  /\ stage = "settle" => Class = "settle"
  /\ stage = "jupiter" => Class = "quote"
  /\ stage \in {"detect", "plan", "bridge", "fetchPool", "amounts"} => Trade

Routed ==
  /\ stage \in {"bridge", "fetchPool", "amounts", "build"} \/ Compiled =>
       /\ legs = Route
       /\ Trade => pools[Base].venue = "pumpfun"
       /\ Class = "swap" => ~SwapMismatch
  /\ stage = "snapshot" => (~Trade => legs = Route)
  /\ stage = "settle" => legs = Route
  /\ stage = "plan" => pools[Base].venue = "pumpfun"

(* The snapshot has its plan, and with a bridge leg the pool that was fetched late. *)
Planned ==
  /\ stage \in {"settle", "detect", "plan", "bridge", "fetchPool", "amounts", "build"} =>
       BuildFetchPlan(Class, req.in, req.out) \subseteq fetched
  /\ stage \in {"amounts", "build"} /\ Trade /\ HasBridgeLeg(legs) => BridgePool \in fetched

Deducted == (stage = "build" \/ Compiled) /\ Trade => deducted = DeductedFrom

(* Nothing is made before the variants are compiled; what is, passed the early refusals. *)
Made ==
  /\ ~Compiled => made = <<>>
  /\ Compiled =>
       /\ Class = "buy" /\ Len(legs) = 1 => req.inSettle # "wsol_spl"
       /\ \A key \in BuiltKeys : EarlyRefusal(key) = "none" /\ (Sponsored(key) => Wired)
  /\ Quoted => queue = <<>> /\ build \in BuiltKeys

(* Every variant of every settle mode offered is compiled or waits to be. *)
Waiting(full) ==
  /\ full => Class = "settle" /\ Unwraps
  /\ DOMAIN made \subseteq Variants \X ModesOf(full)
  /\ queue \in Seq(Variants \X ModesOf(full))
  /\ \A key \in Variants \X ModesOf(full) :
       key \in DOMAIN made \/ \E i \in DOMAIN queue : queue[i] = key

Listed ==
  Compiled \/ (stage = "build" /\ Class = "settle") => \E full \in BOOLEAN : Waiting(full)

IInv == TypeOK /\ Placed /\ Routed /\ Planned /\ Deducted /\ Made /\ Listed

-----------------------------------------------------------------------------
(* The helpers.                                                            *)

(* What is computed from the request, the pools and the legs stays with them. *)
LEMMA KeptClass ==
  ASSUME req' = req
  PROVE  Class' = Class /\ Unwraps' = Unwraps /\ Base' = Base /\ (Trade' <=> Trade)
BY DEF Class, Unwraps, Base, Trade

LEMMA KeptRoute ==
  ASSUME req' = req, pools' = pools
  PROVE  /\ Class' = Class /\ Unwraps' = Unwraps /\ Base' = Base /\ (Trade' <=> Trade)
         /\ PoolQuote' = PoolQuote /\ Route' = Route /\ (SwapMismatch' <=> SwapMismatch)
<1>1. PoolQuote' = PoolQuote BY KeptClass DEF PoolQuote
<1>2. SwapMismatch' <=> SwapMismatch BY <1>1 DEF SwapMismatch
<1>3. PlanLaunchpadRoute' = PlanLaunchpadRoute BY <1>1, KeptClass DEF PlanLaunchpadRoute
<1>4. Route' = Route BY <1>3, KeptClass DEF Route
<1> QED BY <1>1, <1>2, <1>4, KeptClass

LEMMA Kept ==
  ASSUME cfg' = cfg, req' = req, pools' = pools, legs' = legs
  PROVE  /\ DeductedFrom' = DeductedFrom /\ (Wired' <=> Wired)
         /\ \A key : EarlyRefusal(key)' = EarlyRefusal(key)
<1>1. QuoteSwapSponsoredEligible' <=> QuoteSwapSponsoredEligible BY DEF QuoteSwapSponsoredEligible
<1>2. Wired' <=> Wired BY <1>1, KeptRoute DEF Wired
<1>3. RouteHasSOLStream' <=> RouteHasSOLStream BY DEF RouteHasSOLStream, RouteInvolvesSOL
<1>4. SponsoredRepayEligible' <=> SponsoredRepayEligible
  BY <1>1, <1>3 DEF SponsoredRepayEligible
<1>5. (ShouldDeduct' <=> ShouldDeduct) /\ (SponsoredSwapEligible' <=> SponsoredSwapEligible)
  BY <1>4 DEF ShouldDeduct, SponsoredSwapEligible
<1>6. DeductedFrom' = DeductedFrom BY <1>5, KeptRoute DEF DeductedFrom
<1>7. \A key : EarlyRefusal(key)' = EarlyRefusal(key)
  BY <1>5, KeptRoute DEF EarlyRefusal, SponsorRefusal
<1> QED BY <1>2, <1>6, <1>7

LEMMA LegFields ==
  ASSUME NEW kind, NEW in, NEW out
  PROVE  Leg(kind, in, out).kind = kind /\ Leg(kind, in, out).in = in /\ Leg(kind, in, out).out = out
BY DEF Leg

LEMMA Disjoint == Quotes \cap Tokens = {} /\ "foreign" \notin Tokens /\ "wsol" \in Quotes
BY DEF Quotes, Tokens

(* Which side of a pair is the token. *)
LEMMA PairClasses ==
  ASSUME req.in \in Mints, req.out \in Mints
  PROVE  /\ Class \in {"settle", "quote", "buy", "sell", "swap"}
         /\ Class = "settle" <=> req.in = "wsol" /\ req.out = "wsol"
         /\ Class = "quote" => req.in \in Quotes /\ req.out \in Quotes
         /\ Class = "buy" => req.in \in Quotes /\ req.out \in Tokens /\ Base = req.out
         /\ Class = "sell" => req.in \in Tokens /\ req.out \in Quotes /\ Base = req.in
         /\ Class = "swap" => req.in \in Tokens /\ req.out \in Tokens /\ Base = req.in
         /\ Trade => Base \in BaseMints(req.in, req.out) /\ Base \in Tokens
<1>1. Mints = Quotes \cup Tokens /\ Quotes \cap Tokens = {} BY Disjoint DEF Mints
<1>2. "wsol" \in Quotes BY Disjoint
<1>3. {req.in, req.out} = {"wsol"} <=> req.in = "wsol" /\ req.out = "wsol" OBVIOUS
<1>4. {req.in, req.out} \subseteq Quotes <=> req.in \in Quotes /\ req.out \in Quotes OBVIOUS
<1> QED BY <1>1, <1>2, <1>3, <1>4 DEF Class, Base, Trade, BaseMints

LEMMA RouteLegs ==
  /\ Class = "settle" => Route = <<Leg("settle", req.in, req.out)>>
  /\ Class = "quote" => Route = <<Leg("bridge", req.in, req.out)>>
  /\ Class = "buy" =>
       Route = IF req.in = PoolQuote THEN <<Leg("launchpad", req.in, req.out)>>
               ELSE <<Leg("bridge", req.in, PoolQuote), Leg("launchpad", PoolQuote, req.out)>>
  /\ Class = "sell" =>
       Route = IF req.out = PoolQuote THEN <<Leg("launchpad", req.in, req.out)>>
               ELSE <<Leg("launchpad", req.in, PoolQuote), Leg("bridge", PoolQuote, req.out)>>
  /\ Class = "swap" =>
       Route = <<Leg("launchpad", req.in, PoolQuote), Leg("launchpad", PoolQuote, req.out)>>
BY DEF Route, PlanLaunchpadRoute

LEMMA RouteLength ==
  ASSUME Class \in {"settle", "quote", "buy", "sell", "swap"}
  PROVE  Len(Route) \in 1..2 /\ Len(Route) <= 2
<1>1. Len(Route) \in 1..2 BY RouteLegs
<1>2. \A n \in 1..2 : n <= 2 OBVIOUS
<1> QED BY <1>1, <1>2, Zenon

(* The elements of a sequence are its head and the elements of its tail. *)
LEMMA HeadAndTail ==
  ASSUME NEW S, NEW q \in Seq(S), q # <<>>
  PROVE  /\ Head(q) \in S /\ Tail(q) \in Seq(S)
         /\ \A x : (\E i \in DOMAIN q : q[i] = x) =>
                     x = Head(q) \/ \E i \in DOMAIN Tail(q) : Tail(q)[i] = x
<1>1. Len(q) \in Nat \ {0} /\ DOMAIN q = 1..Len(q) OBVIOUS
<1>2. /\ Head(q) \in S /\ Tail(q) \in Seq(S) /\ Head(q) = q[1]
      /\ Len(Tail(q)) = Len(q) - 1 /\ \A i \in 1..(Len(q) - 1) : Tail(q)[i] = q[i + 1]
  BY HeadTailProperties
<1>3. DOMAIN Tail(q) = 1..(Len(q) - 1) BY <1>1, <1>2
<1>4. ASSUME NEW i \in DOMAIN q
      PROVE  q[i] = Head(q) \/ \E j \in DOMAIN Tail(q) : Tail(q)[j] = q[i]
  <2>1. CASE i = 1 BY <1>2, <2>1
  <2>2. CASE i # 1
    <3>1. i - 1 \in 1..(Len(q) - 1) /\ (i - 1) + 1 = i BY <1>1, <2>2
    <3>2. Tail(q)[i - 1] = q[i] BY <1>2, <3>1
    <3> QED BY <1>3, <3>1, <3>2
  <2> QED BY <2>1, <2>2
<1> QED BY <1>2, <1>4

LEMMA PairParts ==
  ASSUME NEW V, NEW W, NEW key \in V \X W
  PROVE  key = <<key[1], key[2]>> /\ key[1] \in V /\ key[2] \in W
BY SMT

LEMMA QueueOfMode ==
  ASSUME NEW mode
  PROVE  /\ InMode(mode) \in Seq(Variants \X {mode})
         /\ \A v \in Variants : \E i \in DOMAIN InMode(mode) : InMode(mode)[i] = <<v, mode>>
<1> DEFINE q == InMode(mode)
<1>1. /\ DOMAIN q = 1..4 /\ q[1] = <<"selfFunded", mode>> /\ q[2] = <<"selfFundedMev", mode>>
      /\ q[3] = <<"sponsoredSwap", mode>> /\ q[4] = <<"sponsoredSwapMev", mode>>
  BY DEF InMode
<1>2. q \in Seq(Variants \X {mode}) BY DEF InMode, Variants
<1> HIDE DEF q
<1> QED BY <1>1, <1>2 DEF q, Variants

LEMMA QueueCovers ==
  ASSUME NEW full \in BOOLEAN
  PROVE  /\ VariantQueue(full) \in Seq(Variants \X ModesOf(full))
         /\ \A key \in Variants \X ModesOf(full) :
              \E i \in DOMAIN VariantQueue(full) : VariantQueue(full)[i] = key
<1>1. CASE ~full
  <2>1. VariantQueue(full) = InMode("") /\ ModesOf(full) = {""} BY <1>1 DEF VariantQueue, ModesOf
  <2>2. /\ InMode("") \in Seq(Variants \X {""})
        /\ \A v \in Variants : \E i \in DOMAIN InMode("") : InMode("")[i] = <<v, "">>
    BY QueueOfMode
  <2>3. ASSUME NEW key \in Variants \X {""}
        PROVE  \E i \in DOMAIN InMode("") : InMode("")[i] = key
    <3>1. key[1] \in Variants /\ key[2] \in {""} /\ key = <<key[1], key[2]>>
      BY PairParts
    <3> QED BY <2>2, <3>1
  <2> QED BY <2>1, <2>2, <2>3
<1>2. CASE full
  <2> DEFINE s == InMode("close")
             t == InMode("unwrapAll")
  <2>1. VariantQueue(full) = s \o t /\ ModesOf(full) = Modes BY <1>2 DEF VariantQueue, ModesOf
  <2>2. s \in Seq(Variants \X {"close"}) /\ t \in Seq(Variants \X {"unwrapAll"}) BY QueueOfMode
  <2>3. s \in Seq(Variants \X Modes) /\ t \in Seq(Variants \X Modes)
    <3>1. Variants \X {"close"} \subseteq Variants \X Modes
          /\ Variants \X {"unwrapAll"} \subseteq Variants \X Modes BY DEF Modes
    <3> QED BY <2>2, <3>1
  <2>4. /\ \A v \in Variants : \E i \in DOMAIN s : s[i] = <<v, "close">>
        /\ \A v \in Variants : \E i \in DOMAIN t : t[i] = <<v, "unwrapAll">>
    BY QueueOfMode
  <2> HIDE DEF s, t
  <2>5. /\ s \o t \in Seq(Variants \X Modes) /\ Len(s \o t) = Len(s) + Len(t)
        /\ \A i \in 1..(Len(s) + Len(t)) :
             (s \o t)[i] = IF i <= Len(s) THEN s[i] ELSE t[i - Len(s)]
    BY <2>3, ConcatProperties
  <2>6. Len(s) \in Nat /\ Len(t) \in Nat /\ DOMAIN s = 1..Len(s) /\ DOMAIN t = 1..Len(t)
        /\ DOMAIN (s \o t) = 1..(Len(s) + Len(t))
    BY <2>3, <2>5
  <2>7. ASSUME NEW v \in Variants PROVE \E i \in DOMAIN (s \o t) : (s \o t)[i] = <<v, "close">>
    <3>1. PICK i \in 1..Len(s) : s[i] = <<v, "close">> BY <2>4, <2>6
    <3>2. i \in 1..(Len(s) + Len(t)) /\ i <= Len(s) BY <2>6
    <3>3. (s \o t)[i] = <<v, "close">> BY <2>5, <3>1, <3>2
    <3> QED BY <2>6, <3>2, <3>3
  <2>8. ASSUME NEW v \in Variants PROVE \E i \in DOMAIN (s \o t) : (s \o t)[i] = <<v, "unwrapAll">>
    <3>1. PICK i \in 1..Len(t) : t[i] = <<v, "unwrapAll">> BY <2>4, <2>6
    <3>2. i + Len(s) \in 1..(Len(s) + Len(t)) /\ ~(i + Len(s) <= Len(s))
          /\ (i + Len(s)) - Len(s) = i
      BY <2>6
    <3>3. (s \o t)[i + Len(s)] = <<v, "unwrapAll">> BY <2>5, <3>1, <3>2
    <3> QED BY <2>6, <3>2, <3>3
  <2>9. ASSUME NEW key \in Variants \X Modes PROVE \E i \in DOMAIN (s \o t) : (s \o t)[i] = key
    <3>1. key[1] \in Variants /\ (key = <<key[1], "close">> \/ key = <<key[1], "unwrapAll">>)
      BY <2>9 DEF Modes
    <3> QED BY <2>7, <2>8, <3>1
  <2> QED BY <2>1, <2>5, <2>9
<1> QED BY <1>1, <1>2

-----------------------------------------------------------------------------
(* The end of a request.                                                   *)

(* A request that ends without transactions leaves nothing to agree on. *)
LEMMA Ends ==
  ASSUME TypeOK', pools' \in [Tokens -> [venue : {"none", "other", "pumpfun"},
                                         quote : Quotes \cup PoolQuotes]],
         queue' \in Seq(Keys), stage' = "done", answer' # "quoted", made' = <<>>
  PROVE  IInv'
<1>1. ~Quoted' /\ ~Compiled' BY DEF Quoted, Compiled
<1>2. Placed' BY <1>1 DEF Placed
<1>3. Routed' /\ Planned' /\ Deducted' BY <1>1 DEF Routed, Planned, Deducted
<1>4. Made' /\ Listed' BY <1>1 DEF Made, Listed
<1> QED BY <1>2, <1>3, <1>4 DEF IInv

(* An ending of a request that is under way keeps its data and its shape. *)
LEMMA Closed ==
  ASSUME IInv, stage \notin {"idle", "landed"},
         UNCHANGED <<cfg, req, pools, legs, deducted, queue, planErr, build>>,
         stage' = "done", answer' \in {"error", "repay", "skipped", "unbuilt"}, made' = <<>>
  PROVE  IInv'
<1>1. DOMAIN <<>> = {} OBVIOUS
<1>2. DOMAIN made' = {} BY <1>1
<1>3. TypeOK' BY <1>2 DEF IInv, TypeOK, Stages
<1> QED BY <1>3, Ends DEF IInv, Placed

(* Before the variants are compiled nothing is made. *)
LEMMA NothingMade ==
  ASSUME IInv, stage \notin {"compile", "done"}
  PROVE  made = <<>> /\ ~Quoted /\ ~Compiled
BY DEF IInv, Placed, Made, Compiled, Quoted

LEMMA Rejected ==
  ASSUME IInv, stage \notin {"idle", "landed", "compile", "done"}, Reject \/ RejectForRepay
  PROVE  IInv'
<1>1. made = <<>> BY NothingMade
<1> QED BY <1>1, Closed DEF Reject, RejectForRepay, Close, fixed, snap

LEMMA Skipped ==
  ASSUME IInv, stage \notin {"idle", "landed"}, SkipBuild
  PROVE  IInv'
BY Closed DEF SkipBuild, Close, fixed, snap

(* The pair of a request under way. *)
LEMMA PairKnown ==
  ASSUME IInv, stage \notin {"idle", "landed"}
  PROVE  req.in \in Mints /\ req.out \in Mints
<1>1. <<req.in, req.out>> \in Pairs BY DEF IInv, TypeOK
<1> QED BY <1>1, FlowAssumption

-----------------------------------------------------------------------------
(* The stages, in the order of the pipeline.                               *)

LEMMA Settled ==
  ASSUME NEW mint, NEW s \in Settlements \cup {""}
  PROVE  /\ NormalizeSettlement(mint, s) \in Settlements
         /\ mint = "wsol" => NormalizeSettlement(mint, s) \in {"native_sol", "wsol_spl"}
BY DEF NormalizeSettlement, Settlements

LEMMA ShortRoutes ==
  Len(<<>>) <= 2 /\ \A x : Len(<<x>>) <= 2
OBVIOUS

LEMMA Received ==
  ASSUME IInv, NEW pair \in Pairs, NEW si \in Settlements \cup {""},
         NEW so \in Settlements \cup {""}, NEW size \in Sizes,
         Receive(pair[1], pair[2], si, so, size)
  PROVE  IInv'
<1> DEFINE in == pair[1]
           out == pair[2]
<1>1. pair = <<in, out>> /\ in \in Mints /\ out \in Mints
  <2>1. pair \in Mints \X Mints BY FlowAssumption
  <2> QED BY <2>1, PairParts
<1>2. /\ req'.in = in /\ req'.out = out /\ req'.size = size
      /\ req'.inSettle = NormalizeSettlement(in, si)
      /\ req'.outSettle = NormalizeSettlement(out, so)
  BY DEF Receive
<1>3. /\ stage = "idle" /\ cfg' = cfg /\ pools' = pools /\ deducted' = deducted
      /\ queue' = queue /\ made' = made /\ planErr' = planErr /\ build' = build
  BY DEF Receive, fixed, snap
<1>4. Class' \in {"settle", "quote", "buy", "sell", "swap"} BY DEF Class
<1>5. legs' = CASE Class' = "settle" -> <<Leg("settle", in, out)>>
                [] Class' = "quote"  -> <<>>
                [] OTHER             -> <<Leg("launchpad", in, out)>>
  BY DEF Receive
<1>6. Len(legs') <= 2
  <2>1. legs' = <<Leg("settle", in, out)>> \/ legs' = <<>> \/ legs' = <<Leg("launchpad", in, out)>>
    BY <1>5
  <2> QED BY <2>1, ShortRoutes, Zenon
<1>7. made' = <<>> /\ ~Quoted BY <1>3, NothingMade
<1>8. stage' \in Stages /\ stage' \in {"done", "jupiter", "snapshot"} BY DEF Receive, Close, Stages
<1>9. answer' = "error" \/ answer' = answer BY DEF Receive, Close
<1>10. TypeOK'
  <2>1. <<req'.in, req'.out>> \in Pairs BY <1>1, <1>2
  <2>2. /\ req'.inSettle \in Settlements /\ req'.outSettle \in Settlements
        /\ req'.in = "wsol" => req'.inSettle \in {"native_sol", "wsol_spl"}
        /\ req'.out = "wsol" => req'.outSettle \in {"native_sol", "wsol_spl"}
    BY <1>2, Settled
  <2> HIDE DEF in, out
  <2> QED BY <1>2, <1>3, <1>6, <1>8, <1>9, <2>1, <2>2 DEF IInv, TypeOK
<1>11. /\ pools' \in [Tokens -> [venue : {"none", "other", "pumpfun"}, quote : Quotes \cup PoolQuotes]]
       /\ queue' \in Seq(Keys)
  BY <1>3 DEF IInv, Placed
<1>12. CASE stage' = "done"
  <2>1. answer' # "quoted" BY <1>12 DEF Receive, Close
  <2> QED BY <1>7, <1>10, <1>11, <1>12, <2>1, Ends
<1>13. CASE stage' # "done"
  <2>1. stage' = (IF Class' = "quote" THEN "jupiter" ELSE "snapshot") /\ answer' = answer
    BY <1>13 DEF Receive, Close
  <2>2. ~Quoted' /\ ~Compiled' BY <1>7, <2>1 DEF Quoted, Compiled
  <2>3. stage' = "snapshot" /\ ~Trade' => legs' = Route'
    BY <1>2, <1>4, <1>5, <2>1 DEF Trade, Route
  <2>4. Placed' /\ Planned' /\ Deducted' BY <1>11, <2>1, <2>2 DEF Placed, Planned, Deducted
  <2>5. Routed' BY <2>1, <2>2, <2>3 DEF Routed
  <2>6. Made' /\ Listed' BY <1>7, <2>1, <2>2 DEF Made, Listed
  <2> QED BY <1>10, <2>4, <2>5, <2>6 DEF IInv
<1> QED BY <1>12, <1>13

LEMMA QuotePoolDiscovered ==
  ASSUME IInv, DiscoverQuotePool
  PROVE  IInv'
<1>1. stage = "jupiter" /\ Class = "quote" BY DEF DiscoverQuotePool, IInv, Placed
<1>2. CASE Reject BY <1>1, <1>2, Rejected
<1>3. CASE ~Reject
  <2>1. /\ stage' = "snapshot" /\ legs' = <<Leg("bridge", req.in, req.out)>>
        /\ UNCHANGED <<cfg, req, pools, deducted, queue, made, planErr, answer, build>>
    BY <1>3 DEF DiscoverQuotePool, Goto, fixed, snap
  <2>2. made = <<>> /\ ~Quoted BY <1>1, NothingMade
  <2>3. ~Quoted' /\ ~Compiled' BY <2>1, <2>2 DEF Quoted, Compiled
  <2>4. Class' = "quote" /\ Route' = Route BY <1>1, <2>1, KeptRoute
  <2>5. legs' = Route' BY <1>1, <2>1, <2>4, RouteLegs
  <2>6. Len(legs') <= 2 BY <2>1
  <2>7. TypeOK' BY <1>1, <2>1, <2>6 DEF IInv, TypeOK, Stages
  <2>8. Placed' BY <2>1, <2>3, <2>4 DEF IInv, Placed
  <2>9. Routed' /\ Planned' /\ Deducted' /\ Made' /\ Listed'
    BY <2>1, <2>2, <2>3, <2>5 DEF Routed, Planned, Deducted, Made, Listed
  <2> QED BY <2>7, <2>8, <2>9 DEF IInv
<1> QED BY <1>2, <1>3

LEMMA SnapshotFetched ==
  ASSUME IInv, FetchSnapshot
  PROVE  IInv'
<1>1. /\ stage = "snapshot"
      /\ UNCHANGED <<cfg, req, legs, deducted, queue, made, planErr, build>>
  BY DEF FetchSnapshot, fixed
<1>2. made = <<>> /\ ~Quoted BY <1>1, NothingMade
<1>3. CASE Close("error") /\ UNCHANGED snap BY <1>1, <1>2, <1>3, Closed DEF Close, snap
<1>4. CASE ~(Close("error") /\ UNCHANGED snap)
  <2>1. /\ fetched' = BuildFetchPlan(Class, req.in, req.out)
        /\ stage' = CASE Class = "settle" -> "settle" [] Class = "quote" -> "build"
                      [] OTHER -> "detect"
        /\ \E a \in PoolsOf("A"), b \in PoolsOf("B") : pools' = [A |-> a, B |-> b]
        /\ answer' = answer
    BY <1>4 DEF FetchSnapshot
  <2>2. pools' \in [Tokens -> [venue : {"none", "other", "pumpfun"}, quote : Quotes \cup PoolQuotes]]
    <3> DEFINE Pool == [venue : {"none", "other", "pumpfun"}, quote : Quotes \cup PoolQuotes]
    <3>1. NoPool \in Pool /\ [NoPool EXCEPT !.venue = "other"] \in Pool BY DEF NoPool, Quotes
    <3>2. \A t : PoolsOf(t) \subseteq Pool BY <3>1 DEF PoolsOf
    <3>3. PICK a, b : a \in PoolsOf("A") /\ b \in PoolsOf("B") /\ pools' = [A |-> a, B |-> b]
      BY <2>1
    <3>4. a \in Pool /\ b \in Pool BY <3>2, <3>3
    <3> HIDE DEF Pool
    <3>5. pools' \in [Tokens -> Pool] BY <3>3, <3>4 DEF Tokens
    <3> QED BY <3>5 DEF Pool
  <2>3. Class' = Class /\ Base' = Base /\ (Trade' <=> Trade) BY <1>1, KeptClass
  <2>4. Class \in {"settle", "quote", "buy", "sell", "swap"} BY DEF Class
  <2>5. Trade <=> Class \notin {"settle", "quote"} BY <2>4 DEF Trade
  <2>6. ~Quoted' /\ ~Compiled' BY <1>2, <2>1, <2>4 DEF Quoted, Compiled
  <2>7. ~Trade => legs' = Route'
    <3>1. ~Trade => Route' = Route BY <1>1, <2>3, <2>5 DEF Route
    <3> QED BY <1>1, <3>1 DEF IInv, Routed
  <2>8. TypeOK' BY <1>1, <2>1, <2>2, <2>4 DEF IInv, TypeOK, Stages
  <2>9. Placed' BY <1>1, <2>1, <2>2, <2>3, <2>4, <2>5, <2>6 DEF IInv, Placed
  <2>10. Routed' BY <2>1, <2>3, <2>4, <2>5, <2>6, <2>7 DEF Routed
  <2>11. Planned' BY <1>1, <2>1, <2>3, <2>4, <2>5 DEF Planned
  <2>12. Deducted' /\ Made' /\ Listed'
    BY <1>1, <1>2, <2>1, <2>3, <2>4, <2>5, <2>6 DEF Deducted, Made, Listed
  <2> QED BY <2>8, <2>9, <2>10, <2>11, <2>12 DEF IInv
<1> QED BY <1>3, <1>4

(* A queue of variants is a queue of keys. *)
LEMMA QueueOfKeys ==
  ASSUME NEW full \in BOOLEAN, NEW q \in Seq(Variants \X ModesOf(full))
  PROVE  q \in Seq(Keys) /\ \A i \in DOMAIN q : q[i] \in Keys
<1>1. Variants \X ModesOf(full) \subseteq Keys BY DEF ModesOf, Keys
<1>2. q \in Seq(Keys) BY <1>1
<1> QED BY <1>2

(* A full queue lists every variant. *)
LEMMA AllWait ==
  ASSUME NEW full \in BOOLEAN, full => Class' = "settle" /\ Unwraps',
         queue' = VariantQueue(full), made' = <<>>
  PROVE  Waiting(full)' /\ queue' \in Seq(Keys) /\ \A i \in DOMAIN queue' : queue'[i] \in Keys
<1>1. /\ queue' \in Seq(Variants \X ModesOf(full))
      /\ \A key \in Variants \X ModesOf(full) : \E i \in DOMAIN queue' : queue'[i] = key
  BY QueueCovers
<1>2. DOMAIN made' = {} BY SMT
<1>3. Waiting(full)' BY <1>1, <1>2 DEF Waiting
<1> QED BY <1>1, <1>3, QueueOfKeys

LEMMA SettlementSettled ==
  ASSUME IInv, Settle
  PROVE  IInv'
<1>1. stage = "settle" /\ Class = "settle" BY DEF Settle, IInv, Placed
<1>2. PICK bal \in Balances :
        IF Unwraps /\ (bal \in {"none", "less"} \/ ~Found) THEN Reject
        ELSE IF Unwraps /\ ShouldDeduct /\ req.size = "small" THEN RejectForRepay
        ELSE /\ deducted' = IF Unwraps /\ ShouldDeduct THEN "wsol" ELSE "none"
             /\ stage' = "build"
             /\ queue' = VariantQueue(Unwraps /\ bal = "equal")
             /\ UNCHANGED <<fixed, req, snap, legs, made, planErr, answer, build>>
  BY DEF Settle
<1>3. CASE Reject \/ RejectForRepay BY <1>1, <1>3, Rejected
<1>4. CASE ~(Reject \/ RejectForRepay)
  <2> PICK full \in BOOLEAN : full <=> Unwraps /\ bal = "equal" OBVIOUS
  <2>1. /\ deducted' \in {"wsol", "none"} /\ stage' = "build" /\ queue' = VariantQueue(full)
        /\ UNCHANGED <<cfg, req, fetched, pools, legs, made, planErr, answer, build>>
    <3>1. /\ deducted' = IF Unwraps /\ ShouldDeduct THEN "wsol" ELSE "none"
          /\ stage' = "build"
          /\ queue' = VariantQueue(Unwraps /\ bal = "equal")
          /\ UNCHANGED <<fixed, req, snap, legs, made, planErr, answer, build>>
      BY <1>2, <1>4
    <3>2. VariantQueue(Unwraps /\ bal = "equal") = VariantQueue(full) BY DEF VariantQueue
    <3> QED BY <3>1, <3>2 DEF fixed, snap
  <2>2. made = <<>> /\ ~Quoted BY <1>1, NothingMade
  <2>3. ~Quoted' /\ ~Compiled' BY <2>1, <2>2 DEF Quoted, Compiled
  <2>4. Class' = "settle" /\ ~Trade' /\ (Unwraps' <=> Unwraps) /\ Route' = Route
    BY <1>1, <2>1, KeptRoute DEF Trade
  <2>5. full => Unwraps OBVIOUS
  <2>6. Waiting(full)' /\ queue' \in Seq(Keys) /\ \A i \in DOMAIN queue' : queue'[i] \in Keys
    BY <2>1, <2>2, <2>4, <2>5, AllWait
  <2>7. TypeOK' BY <1>1, <2>1, <2>6 DEF IInv, TypeOK, Stages, Quotes
  <2>8. Placed' BY <2>1, <2>3, <2>4, <2>6 DEF IInv, Placed
  <2>9. Routed' BY <1>1, <2>1, <2>3, <2>4 DEF IInv, Routed
  <2>10. Planned' BY <1>1, <2>1, <2>4 DEF IInv, Planned
  <2>11. Deducted' /\ Made' BY <2>1, <2>2, <2>3, <2>4 DEF Deducted, Made
  <2>12. Listed' BY <2>6 DEF Listed
  <2> QED BY <2>7, <2>8, <2>9, <2>10, <2>11, <2>12 DEF IInv
<1> QED BY <1>3, <1>4

(* A stage that only moves on: the invariant of the stage it enters remains. *)
LEMMA MovedOn ==
  ASSUME IInv, stage \notin {"idle", "landed", "done", "compile", "build"},
         stage' \in {"plan", "bridge", "fetchPool", "amounts", "build"},
         cfg' = cfg, req' = req, pools' = pools, queue' = queue, made' = made,
         planErr' = planErr, answer' = answer, build' = build, Trade,
         Len(legs') <= 2, deducted' \in Quotes \cup PoolQuotes \cup {"none"}
  PROVE  /\ TypeOK' /\ Placed' /\ Made' /\ Listed'
         /\ ~Quoted' /\ ~Compiled'
<1>1. made = <<>> /\ ~Quoted BY NothingMade
<1>2. ~Quoted' /\ ~Compiled' BY <1>1 DEF Quoted, Compiled
<1>3. Class' = Class /\ Trade' BY KeptClass
<1>4. TypeOK' BY DEF IInv, TypeOK, Stages
<1>5. Placed' BY <1>2, <1>3 DEF IInv, Placed
<1>6. Made' /\ Listed' BY <1>1, <1>2, <1>3 DEF Made, Listed, Trade
<1> QED BY <1>2, <1>4, <1>5, <1>6

LEMMA VenueDetected ==
  ASSUME IInv, DetectVenue
  PROVE  IInv'
<1>1. stage = "detect" /\ Trade BY DEF DetectVenue, IInv, Placed
<1>2. CASE pools[Base].venue = "none" \/ ~Found
  BY <1>1, <1>2, Rejected DEF DetectVenue
<1>3. CASE ~(pools[Base].venue = "none" \/ ~Found) /\ pools[Base].venue = "other"
  <2>1. made = <<>> BY <1>1, NothingMade
  <2> QED BY <1>1, <1>3, <2>1, Closed DEF DetectVenue, Close, fixed, snap
<1>4. CASE ~(pools[Base].venue = "none" \/ ~Found) /\ pools[Base].venue # "other"
  <2>1. /\ stage' = "plan"
        /\ UNCHANGED <<cfg, req, fetched, pools, legs, deducted, queue, made, planErr, answer, build>>
    BY <1>4 DEF DetectVenue, Goto, fixed, snap
  <2>2. TypeOK' /\ Placed' /\ Made' /\ Listed' /\ ~Quoted' /\ ~Compiled'
    BY <1>1, <2>1, MovedOn DEF IInv, TypeOK
  <2>3. Base \in Tokens BY <1>1, PairKnown, PairClasses
  <2>4. pools[Base].venue = "pumpfun" BY <1>4, <2>3 DEF IInv, TypeOK
  <2>5. Base' = Base /\ Class' = Class BY <2>1, KeptClass
  <2>6. Routed' BY <2>1, <2>2, <2>4, <2>5 DEF Routed
  <2>7. Planned' BY <1>1, <2>1, <2>5 DEF IInv, Planned
  <2>8. Deducted' BY <2>1, <2>2 DEF Deducted
  <2> QED BY <2>2, <2>6, <2>7, <2>8 DEF IInv
<1> QED BY <1>2, <1>3, <1>4

LEMMA RoutePlanned ==
  ASSUME IInv, Plan
  PROVE  IInv'
<1>1. stage = "plan" /\ Trade BY DEF Plan, IInv, Placed
<1>2. CASE Class = "swap" /\ SwapMismatch BY <1>1, <1>2, Rejected DEF Plan
<1>3. CASE ~(Class = "swap" /\ SwapMismatch)
  <2>1. /\ legs' = PlanLaunchpadRoute
        /\ stage' = IF HasBridgeLeg(PlanLaunchpadRoute) THEN "bridge" ELSE "amounts"
        /\ UNCHANGED <<cfg, req, fetched, pools, deducted, queue, made, planErr, answer, build>>
    BY <1>3 DEF Plan, Goto, fixed, snap
  <2>2. Class' = Class /\ (Trade' <=> Trade) /\ Route' = Route /\ Base' = Base
        /\ (SwapMismatch' <=> SwapMismatch)
    BY <2>1, KeptRoute
  <2>3. Route = PlanLaunchpadRoute BY <1>1 DEF Route, Trade
  <2>4. Len(legs') <= 2
    <3>1. Len(Route) <= 2 BY <1>1, RouteLength, Zenon DEF Trade
    <3> QED BY <2>1, <2>3, <3>1, Zenon
  <2>5. TypeOK' /\ Placed' /\ Made' /\ Listed' /\ ~Quoted' /\ ~Compiled'
    BY <1>1, <2>1, <2>4, MovedOn DEF IInv, TypeOK
  <2>6. Routed' BY <1>1, <1>3, <2>1, <2>2, <2>3, <2>5 DEF IInv, Routed
  <2>7. Planned' BY <1>1, <2>1, <2>2 DEF IInv, Planned
  <2>8. Deducted' BY <2>1, <2>5 DEF Deducted
  <2> QED BY <2>5, <2>6, <2>7, <2>8 DEF IInv
<1> QED BY <1>2, <1>3

LEMMA BridgePoolDiscovered ==
  ASSUME IInv, DiscoverBridgePool
  PROVE  IInv'
<1>1. stage = "bridge" /\ Trade BY DEF DiscoverBridgePool, IInv, Placed
<1>2. CASE Reject BY <1>1, <1>2, Rejected
<1>3. CASE ~Reject
  <2>1. /\ stage' = "fetchPool"
        /\ UNCHANGED <<cfg, req, fetched, pools, legs, deducted, queue, made, planErr, answer, build>>
    BY <1>3 DEF DiscoverBridgePool, Goto, fixed, snap
  <2>2. Class' = Class /\ (Trade' <=> Trade) /\ Route' = Route /\ Base' = Base
        /\ (SwapMismatch' <=> SwapMismatch)
    BY <2>1, KeptRoute
  <2>3. TypeOK' /\ Placed' /\ Made' /\ Listed' /\ ~Quoted' /\ ~Compiled'
    BY <1>1, <2>1, MovedOn DEF IInv, TypeOK
  <2>4. Routed' BY <1>1, <2>1, <2>2, <2>3 DEF IInv, Routed
  <2>5. Planned' BY <1>1, <2>1, <2>2 DEF IInv, Planned
  <2>6. Deducted' BY <2>1, <2>3 DEF Deducted
  <2> QED BY <2>3, <2>4, <2>5, <2>6 DEF IInv
<1> QED BY <1>2, <1>3

LEMMA BridgePoolFetched ==
  ASSUME IInv, EnsureBridgePoolAccount
  PROVE  IInv'
<1>1. /\ stage = "fetchPool" /\ Trade
      /\ UNCHANGED <<cfg, req, pools, legs, deducted, queue, made, planErr, build>>
  BY DEF EnsureBridgePoolAccount, IInv, Placed, fixed
<1>2. CASE Close("error")
  <2>1. made = <<>> BY <1>1, NothingMade
  <2> QED BY <1>1, <1>2, <2>1, Closed DEF Close
<1>3. CASE ~Close("error")
  <2>1. stage' = "amounts" /\ fetched' = fetched \cup {BridgePool} /\ answer' = answer
    BY <1>3 DEF EnsureBridgePoolAccount
  <2>2. Class' = Class /\ (Trade' <=> Trade) /\ Route' = Route /\ Base' = Base
        /\ (SwapMismatch' <=> SwapMismatch)
    BY <1>1, KeptRoute
  <2>3. TypeOK' /\ Placed' /\ Made' /\ Listed' /\ ~Quoted' /\ ~Compiled'
    BY <1>1, <2>1, MovedOn DEF IInv, TypeOK
  <2>4. Routed' BY <1>1, <2>1, <2>2, <2>3 DEF IInv, Routed
  <2>5. Planned' BY <1>1, <2>1, <2>2 DEF IInv, Planned
  <2>6. Deducted' BY <2>1, <2>3 DEF Deducted
  <2> QED BY <2>3, <2>4, <2>5, <2>6 DEF IInv
<1> QED BY <1>2, <1>3

LEMMA AmountsQuoted ==
  ASSUME IInv, QuoteAmounts
  PROVE  IInv'
<1>1. stage = "amounts" /\ Trade BY DEF QuoteAmounts, IInv, Placed
<1>2. CASE Reject \/ RejectForRepay BY <1>1, <1>2, Rejected
<1>3. CASE ~(Reject \/ RejectForRepay)
  <2>1. /\ stage' = "build" /\ deducted' = DeductedFrom
        /\ UNCHANGED <<cfg, req, fetched, pools, legs, queue, made, planErr, answer, build>>
    BY <1>3 DEF QuoteAmounts, Goto, fixed, snap
  <2>2. Class' = Class /\ (Trade' <=> Trade) /\ Route' = Route /\ Base' = Base
        /\ (SwapMismatch' <=> SwapMismatch) /\ DeductedFrom' = DeductedFrom
    BY <2>1, KeptRoute, Kept
  <2>3. DeductedFrom \in Quotes \cup PoolQuotes \cup {"none"}
    <3>1. Base \in Tokens BY <1>1, PairKnown, PairClasses
    <3>2. PoolQuote \in Quotes \cup PoolQuotes BY <3>1 DEF IInv, TypeOK, PoolQuote
    <3> QED BY <3>2, Disjoint DEF DeductedFrom
  <2>4. TypeOK' /\ Placed' /\ Made' /\ Listed' /\ ~Quoted' /\ ~Compiled'
    BY <1>1, <2>1, <2>3, MovedOn DEF IInv, TypeOK
  <2>5. Routed' BY <1>1, <2>1, <2>2, <2>4 DEF IInv, Routed
  <2>6. Planned' BY <1>1, <2>1, <2>2 DEF IInv, Planned
  <2>7. Deducted' BY <2>1, <2>2 DEF Deducted
  <2> QED BY <2>4, <2>5, <2>6, <2>7 DEF IInv
<1> QED BY <1>2, <1>3

LEMMA BuildPrepared ==
  ASSUME IInv, PrepareBuild
  PROVE  IInv'
<1>1. stage = "build" BY DEF PrepareBuild
<1>2. CASE SkipBuild BY <1>1, <1>2, Skipped
<1>3. CASE ~SkipBuild
  <2>1. /\ stage' = "compile"
        /\ ~(Class = "buy" /\ Len(legs) = 1 /\ req.inSettle = "wsol_spl")
        /\ queue' = IF Class = "settle" THEN queue ELSE VariantQueue(FALSE)
        /\ UNCHANGED <<cfg, req, fetched, pools, legs, deducted, made, planErr, answer, build>>
    BY <1>3 DEF PrepareBuild, fixed, snap
  <2>2. made = <<>> /\ ~Quoted BY <1>1, NothingMade
  <2>3. ~Quoted' /\ Compiled' BY <2>1, <2>2 DEF Quoted, Compiled
  <2>4. Class' = Class /\ (Trade' <=> Trade) /\ Route' = Route /\ Base' = Base
        /\ (SwapMismatch' <=> SwapMismatch) /\ (Unwraps' <=> Unwraps)
        /\ DeductedFrom' = DeductedFrom
    BY <2>1, KeptRoute, Kept
  <2>5. \E full \in BOOLEAN : Waiting(full)' /\ queue' \in Seq(Keys)
                              /\ \A i \in DOMAIN queue' : queue'[i] \in Keys
    <3>1. CASE Class = "settle"
      <4>1. PICK full \in BOOLEAN : Waiting(full) BY <1>1, <3>1 DEF IInv, Listed
      <4>2. queue' = queue BY <2>1, <3>1
      <4>3. Waiting(full)' BY <2>1, <2>4, <4>1, <4>2 DEF Waiting
      <4> QED BY <4>2, <4>3 DEF IInv, Placed, TypeOK
    <3>2. CASE Class # "settle"
      <4>1. queue' = VariantQueue(FALSE) /\ made' = <<>> BY <2>1, <2>2, <3>2
      <4> QED BY <4>1, AllWait
    <3> QED BY <3>1, <3>2
  <2>6. TypeOK' BY <1>1, <2>1, <2>5 DEF IInv, TypeOK, Stages
  <2>7. Placed' BY <2>1, <2>3, <2>5 DEF IInv, Placed
  <2>8. Routed' BY <1>1, <2>1, <2>4 DEF IInv, Routed
  <2>9. Planned' BY <2>1 DEF Planned
  <2>10. Deducted' BY <1>1, <2>1, <2>4 DEF IInv, Deducted
  <2>11. Made'
    <3>1. BuiltKeys' = {} BY <2>1, <2>2 DEF BuiltKeys
    <3> QED BY <2>1, <2>3, <2>4, <3>1 DEF Made
  <2>12. Listed' BY <2>5 DEF Listed
  <2> QED BY <2>6, <2>7, <2>8, <2>9, <2>10, <2>11, <2>12 DEF IInv
<1> QED BY <1>2, <1>3

(* A verdict entered: what is built has passed the refusals. *)
LEMMA Entered ==
  ASSUME IInv, stage = "compile", queue # <<>>,
         NEW verdict \in Contents \cup Refusals, Enter(Head(queue), verdict), planErr' \in BOOLEAN,
         verdict \in Contents =>
           EarlyRefusal(Head(queue)) = "none" /\ (Sponsored(Head(queue)) => Wired)
  PROVE  IInv'
<1> PICK key : key = Head(queue) OBVIOUS
<1>1. PICK full \in BOOLEAN : Waiting(full) BY DEF IInv, Listed, Compiled
<1>2. /\ key \in Variants \X ModesOf(full) /\ Tail(queue) \in Seq(Variants \X ModesOf(full))
      /\ \A x : (\E i \in DOMAIN queue : queue[i] = x) =>
                  x = key \/ \E i \in DOMAIN Tail(queue) : Tail(queue)[i] = x
  <2>1. queue \in Seq(Variants \X ModesOf(full)) BY <1>1 DEF Waiting
  <2>2. /\ Head(queue) \in Variants \X ModesOf(full) /\ Tail(queue) \in Seq(Variants \X ModesOf(full))
        /\ \A x : (\E i \in DOMAIN queue : queue[i] = x) =>
                    x = Head(queue) \/ \E i \in DOMAIN Tail(queue) : Tail(queue)[i] = x
    BY <2>1, HeadAndTail, Zenon
  <2> QED BY <2>2, Zenon
<1>3. /\ made' = [k \in DOMAIN made \cup {key} |-> IF k = key THEN verdict ELSE made[k]]
      /\ queue' = Tail(queue)
      /\ UNCHANGED <<cfg, req, stage, fetched, pools, legs, deducted, answer, build>>
  BY DEF Enter, Recorded, fixed, snap
<1>4. queue' \in Seq(Keys) /\ \A i \in DOMAIN queue' : queue'[i] \in Keys
  BY <1>2, <1>3, QueueOfKeys
<1>5. key \in Keys BY <1>2 DEF ModesOf, Keys
<1>6. Class' = Class /\ (Trade' <=> Trade) /\ Route' = Route /\ Base' = Base
      /\ (SwapMismatch' <=> SwapMismatch) /\ (Unwraps' <=> Unwraps)
      /\ DeductedFrom' = DeductedFrom /\ (Wired' <=> Wired)
      /\ \A k : EarlyRefusal(k)' = EarlyRefusal(k)
  BY <1>3, KeptRoute, Kept
<1>7. /\ DOMAIN made' = DOMAIN made \cup {key} /\ made'[key] = verdict
      /\ \A k \in DOMAIN made' : k # key => k \in DOMAIN made /\ made'[k] = made[k]
  BY <1>3
<1>8. ~Quoted /\ ~Quoted' BY <1>3 DEF IInv, Placed, Quoted
<1>9. TypeOK'
  <2>1. DOMAIN made' \subseteq Keys /\ \A k \in DOMAIN made' : made'[k] \in Contents \cup Refusals
    BY <1>5, <1>7 DEF IInv, TypeOK
  <2> QED BY <1>3, <1>4, <2>1 DEF IInv, TypeOK
<1>10. Placed' BY <1>3, <1>4, <1>6, <1>8 DEF IInv, Placed
<1>11. Routed' BY <1>3, <1>6 DEF IInv, Routed, Compiled
<1>12. Planned' BY <1>3 DEF Planned
<1>13. Deducted' BY <1>3, <1>6 DEF IInv, Deducted, Compiled
<1>14. Made'
  <2>1. ASSUME NEW k \in BuiltKeys' PROVE EarlyRefusal(k)' = "none" /\ (Sponsored(k) => Wired')
    <3>1. k \in DOMAIN made' /\ made'[k] \in Contents BY DEF BuiltKeys
    <3>2. CASE k = key BY <1>6, <1>7, <3>1, <3>2
    <3>3. CASE k # key
      <4>1. k \in BuiltKeys BY <1>7, <3>1, <3>3 DEF BuiltKeys
      <4> QED BY <1>6, <4>1 DEF IInv, Made, Compiled
    <3> QED BY <3>2, <3>3
  <2>2. Class' = "buy" /\ Len(legs') = 1 => req'.inSettle # "wsol_spl"
    BY <1>3, <1>6 DEF IInv, Made, Compiled
  <2> QED BY <1>3, <1>8, <2>1, <2>2 DEF Made, Compiled, Sponsored
<1>15. Listed'
  <2>1. DOMAIN made' \subseteq Variants \X ModesOf(full) BY <1>1, <1>2, <1>7 DEF Waiting
  <2>2. \A k \in Variants \X ModesOf(full) :
          k \in DOMAIN made' \/ \E i \in DOMAIN queue' : queue'[i] = k
    BY <1>1, <1>2, <1>3, <1>7 DEF Waiting
  <2>3. queue' \in Seq(Variants \X ModesOf(full)) BY <1>2, <1>3
  <2>4. full => Class' = "settle" /\ Unwraps' BY <1>1, <1>6 DEF Waiting
  <2>5. Waiting(full)' BY <2>1, <2>2, <2>3, <2>4 DEF Waiting
  <2> QED BY <2>5 DEF Listed
<1> QED BY <1>9, <1>10, <1>11, <1>12, <1>13, <1>14, <1>15 DEF IInv

LEMMA Apart == Contents \cap Refusals = {} /\ EncoderFaults \subseteq Refusals
BY FlowAssumption DEF Contents, Refusals, LateRefusals

LEMMA VariantCompiled ==
  ASSUME IInv, CompileVariant
  PROVE  IInv'
<1> PICK key : key = Head(queue) OBVIOUS
<1>1. /\ stage = "compile" /\ queue # <<>>
      /\ IF EarlyRefusal(key) # "none"
         THEN Enter(key, EarlyRefusal(key)) /\ UNCHANGED planErr
         ELSE \E failed \in IF FixedInstructions THEN {FALSE} ELSE BOOLEAN :
                /\ \E v \in Verdicts(key, failed) : Enter(key, v)
                /\ planErr' \in IF LosesError /\ Len(legs) = 2 /\ ~Sponsored(key)
                              THEN {failed, FALSE} ELSE {planErr}
  BY DEF CompileVariant
<1>2. planErr \in BOOLEAN BY DEF IInv, TypeOK
<1>3. CASE EarlyRefusal(key) # "none"
  <2>1. EarlyRefusal(key) \in Refusals BY <1>3 DEF EarlyRefusal, SponsorRefusal, Refusals
  <2>2. EarlyRefusal(key) \notin Contents BY <2>1, Apart
  <2>3. Enter(key, EarlyRefusal(key)) /\ planErr' = planErr BY <1>1, <1>3
  <2>4. PICK verdict : verdict = EarlyRefusal(key) OBVIOUS
  <2>5. Enter(key, verdict) BY <2>3, <2>4, Zenon
  <2> QED BY <1>1, <1>2, <2>1, <2>2, <2>3, <2>4, <2>5, Entered
<1>4. CASE EarlyRefusal(key) = "none"
  <2>1. PICK failed \in BOOLEAN :
          /\ \E v \in Verdicts(key, failed) : Enter(key, v)
          /\ planErr' \in IF LosesError /\ Len(legs) = 2 /\ ~Sponsored(key)
                        THEN {failed, FALSE} ELSE {planErr}
    BY <1>1, <1>4
  <2>2. PICK v \in Verdicts(key, failed) : Enter(key, v) BY <2>1
  <2>3. planErr' \in BOOLEAN BY <1>2, <2>1
  <2>4. v \in Contents \cup Refusals /\ (v \in Contents => (Sponsored(key) => Wired))
    <3>1. LateRefusalsOf(key) \subseteq Refusals BY Apart DEF LateRefusalsOf
    <3>2. "build_error" \in Refusals /\ "sponsored_not_wired" \in Refusals
          /\ {"self", "sponsored", "empty"} = Contents
      BY DEF Refusals, Contents
    <3> QED BY <2>2, <3>1, <3>2, Apart DEF Verdicts
  <2> QED BY <1>1, <1>4, <2>2, <2>3, <2>4, Entered
<1> QED BY <1>3, <1>4

LEMMA Answered ==
  ASSUME IInv, Answer
  PROVE  IInv'
<1>1. stage = "compile" /\ queue = <<>> BY DEF Answer
<1>2. CASE BuiltKeys = {} BY <1>1, <1>2, Skipped DEF Answer
<1>3. CASE BuiltKeys # {}
  <2>1. /\ stage' = "done" /\ answer' = "quoted" /\ build' \in Defaults(BuiltKeys)
        /\ UNCHANGED <<cfg, req, fetched, pools, legs, deducted, queue, made, planErr>>
    BY <1>3 DEF Answer, Close, fixed, snap
  <2>2. Class' = Class /\ (Trade' <=> Trade) /\ Route' = Route /\ Base' = Base
        /\ (SwapMismatch' <=> SwapMismatch) /\ (Unwraps' <=> Unwraps)
        /\ DeductedFrom' = DeductedFrom /\ (Wired' <=> Wired)
        /\ \A k : EarlyRefusal(k)' = EarlyRefusal(k)
    BY <2>1, KeptRoute, Kept
  <2>3. BuiltKeys' = BuiltKeys /\ build' \in BuiltKeys BY <2>1 DEF BuiltKeys, Defaults
  <2>4. BuiltKeys \subseteq Keys BY DEF BuiltKeys, IInv, TypeOK
  <2>5. TypeOK' BY <1>1, <2>1, <2>3, <2>4 DEF IInv, TypeOK, Stages
  <2>6. Placed' BY <2>1, <2>2 DEF IInv, Placed
  <2>7. Routed' BY <1>1, <2>1, <2>2 DEF IInv, Routed, Compiled
  <2>8. Planned' BY <2>1 DEF Planned
  <2>9. Deducted' BY <1>1, <2>1, <2>2 DEF IInv, Deducted, Compiled
  <2>10. Made'
    <3>1. Compiled /\ Compiled' BY <1>1, <2>1 DEF Compiled, Quoted
    <3>2. \A key \in BuiltKeys' : EarlyRefusal(key)' = "none" /\ (Sponsored(key) => Wired')
      BY <2>2, <2>3, <3>1 DEF IInv, Made
    <3>3. Class' = "buy" /\ Len(legs') = 1 => req'.inSettle # "wsol_spl"
      BY <2>1, <2>2, <3>1 DEF IInv, Made
    <3> QED BY <1>1, <2>1, <2>3, <3>1, <3>2, <3>3 DEF Made, Sponsored
  <2>11. Listed'
    <3>1. PICK full \in BOOLEAN : Waiting(full) BY <1>1 DEF IInv, Listed, Compiled
    <3>2. Waiting(full)' BY <2>1, <2>2, <3>1 DEF Waiting
    <3> QED BY <3>2 DEF Listed
  <2> QED BY <2>5, <2>6, <2>7, <2>8, <2>9, <2>10, <2>11 DEF IInv
<1> QED BY <1>2, <1>3

LEMMA Forgotten ==
  ASSUME IInv, Land
  PROVE  IInv'
<1>1. /\ stage' = "landed" /\ pools' = [t \in Tokens |-> NoPool] /\ legs' = <<>>
      /\ deducted' = "none" /\ queue' = <<>> /\ made' = <<>> /\ planErr' = FALSE
      /\ answer' = "none" /\ build' = NoKey /\ cfg' = cfg
  BY DEF Land
<1>2. ~Quoted' /\ ~Compiled' BY <1>1 DEF Quoted, Compiled
<1>3. DOMAIN made' = {} /\ queue' \in Seq(Keys) /\ DOMAIN queue' = {} BY <1>1
<1>4. pools' \in [Tokens -> [venue : {"none", "other", "pumpfun"}, quote : Quotes \cup PoolQuotes]]
  BY <1>1 DEF NoPool, Quotes
<1>5. Len(legs') <= 2 BY <1>1, ShortRoutes, Zenon
<1>6. TypeOK' BY <1>1, <1>3, <1>4, <1>5 DEF IInv, TypeOK, Stages
<1>7. Placed' BY <1>1, <1>2, <1>3, <1>4 DEF Placed
<1>8. Routed' /\ Planned' /\ Deducted' /\ Made' /\ Listed'
  BY <1>1, <1>2 DEF Routed, Planned, Deducted, Made, Listed
<1> QED BY <1>6, <1>7, <1>8 DEF IInv

-----------------------------------------------------------------------------
(* The invariant.                                                          *)

LEMMA Inits == Init => IInv
<1> SUFFICES ASSUME Init PROVE IInv OBVIOUS
<1>1. ~Quoted /\ ~Compiled BY DEF Init, Quoted, Compiled
<1>2. DOMAIN made = {} /\ queue \in Seq(Keys) /\ DOMAIN queue = {} BY DEF Init
<1>3. pools \in [Tokens -> [venue : {"none", "other", "pumpfun"}, quote : Quotes \cup PoolQuotes]]
  BY DEF Init, NoPool, Quotes
<1>4. Len(legs) <= 2 BY ShortRoutes, Zenon DEF Init
<1>5. TypeOK BY <1>2, <1>3, <1>4 DEF Init, TypeOK, Stages
<1>6. Placed BY <1>1, <1>2, <1>3 DEF Init, Placed
<1>7. Routed /\ Planned /\ Deducted /\ Made /\ Listed
  BY <1>1 DEF Init, Routed, Planned, Deducted, Made, Listed
<1> QED BY <1>5, <1>6, <1>7 DEF IInv

LEMMA Steps == IInv /\ [Next]_vars => IInv'
<1> SUFFICES ASSUME IInv, [Next]_vars PROVE IInv' OBVIOUS
<1>1. ASSUME NEW pair \in Pairs, NEW si \in Settlements \cup {""},
             NEW so \in Settlements \cup {""}, NEW size \in Sizes,
             Receive(pair[1], pair[2], si, so, size)
      PROVE  IInv'
  BY <1>1, Received
<1>2. CASE DiscoverQuotePool BY <1>2, QuotePoolDiscovered
<1>3. CASE FetchSnapshot BY <1>3, SnapshotFetched
<1>4. CASE Settle BY <1>4, SettlementSettled
<1>5. CASE DetectVenue BY <1>5, VenueDetected
<1>6. CASE Plan BY <1>6, RoutePlanned
<1>7. CASE DiscoverBridgePool BY <1>7, BridgePoolDiscovered
<1>8. CASE EnsureBridgePoolAccount BY <1>8, BridgePoolFetched
<1>9. CASE QuoteAmounts BY <1>9, AmountsQuoted
<1>10. CASE PrepareBuild BY <1>10, BuildPrepared
<1>11. CASE CompileVariant BY <1>11, VariantCompiled
<1>12. CASE Answer BY <1>12, Answered
<1>13. CASE Land BY <1>13, Forgotten
<1>14. CASE UNCHANGED vars
  <2>1. UNCHANGED <<cfg, req, stage, fetched, pools, legs, deducted, queue, made, planErr,
                    answer, build>>
    BY <1>14 DEF vars
  <2>2. Class' = Class /\ (Trade' <=> Trade) /\ Route' = Route /\ Base' = Base
        /\ (SwapMismatch' <=> SwapMismatch) /\ (Unwraps' <=> Unwraps)
        /\ DeductedFrom' = DeductedFrom /\ (Wired' <=> Wired)
        /\ \A k : EarlyRefusal(k)' = EarlyRefusal(k)
    BY <2>1, KeptRoute, Kept
  <2>3. (Quoted' <=> Quoted) /\ (Compiled' <=> Compiled) /\ BuiltKeys' = BuiltKeys
    BY <2>1 DEF Quoted, Compiled, BuiltKeys
  <2>4. TypeOK' BY <2>1 DEF IInv, TypeOK
  <2>5. Placed' BY <2>1, <2>2, <2>3 DEF IInv, Placed
  <2>6. Routed' BY <2>1, <2>2, <2>3 DEF IInv, Routed
  <2>7. Planned' BY <2>1, <2>2 DEF IInv, Planned
  <2>8. Deducted' BY <2>1, <2>2, <2>3 DEF IInv, Deducted
  <2>9. Made' BY <2>1, <2>2, <2>3 DEF IInv, Made, Sponsored
  <2>10. ASSUME NEW full \in BOOLEAN PROVE Waiting(full)' <=> Waiting(full)
    BY <2>1, <2>2 DEF Waiting
  <2>11. Listed' BY <2>1, <2>2, <2>3, <2>10 DEF IInv, Listed
  <2> QED BY <2>4, <2>5, <2>6, <2>7, <2>8, <2>9, <2>11 DEF IInv
<1> QED
  BY <1>1, <1>2, <1>3, <1>4, <1>5, <1>6, <1>7, <1>8, <1>9, <1>10, <1>11, <1>12, <1>13, <1>14
  DEF Next

(* Whatever is asked and whatever fails on the way, each stage finds what the *)
(* ones before it decided: legs, snapshot, sizing and verdicts belong to one  *)
(* request.                                                                   *)
THEOREM FlowInvariant == Spec => []IInv
<1>1. Init => IInv BY Inits
<1>2. IInv /\ [Next]_vars => IInv' BY Steps
<1> QED BY <1>1, <1>2, PTL DEF Spec

(* The state is well formed, and a WSOL side of a request under way is       *)
(* settled in native SOL or in the WSOL token, whatever the client sent.      *)
THEOREM FlowTypeCorrect == Spec => []TypeOK
<1>1. IInv => TypeOK BY DEF IInv
<1> QED BY <1>1, FlowInvariant, PTL

-----------------------------------------------------------------------------
(* What was compiled agrees with the route and the sizing.                 *)

(* A co-signed transaction: its request was eligible and its planner repays. *)
LEMMA CoSignedEligible ==
  ASSUME IInv, CoSigned # {}
  PROVE  /\ Compiled /\ legs = Route /\ Wired /\ ShouldDeduct
         /\ req.in \in Mints /\ req.out \in Mints
<1>1. PICK key \in DOMAIN made : Sponsored(key) /\ made[key] \in Contents BY DEF CoSigned
<1>2. made # <<>> BY <1>1, SMT
<1>3. Compiled BY <1>2 DEF IInv, Made
<1>4. key \in BuiltKeys BY <1>1 DEF BuiltKeys
<1>5. EarlyRefusal(key) = "none" /\ Wired BY <1>1, <1>3, <1>4 DEF IInv, Made
<1>6. SponsorRefusal(key) = "none" BY <1>5 DEF EarlyRefusal
<1>7. SponsoredSwapEligible BY <1>1, <1>6 DEF SponsorRefusal
<1>8. ShouldDeduct BY <1>7 DEF SponsoredSwapEligible, ShouldDeduct
<1>9. stage \notin {"idle", "landed"} BY <1>3 DEF IInv, Placed, Compiled, Quoted
<1> QED BY <1>3, <1>5, <1>8, <1>9, PairKnown DEF IInv, Routed

LEMMA RoutesYield ==
  ASSUME IInv
  PROVE  SponsoredRoutesYieldSOL
<1> SUFFICES ASSUME CoSigned # {} PROVE \E i \in DOMAIN legs : legs[i].out = "wsol"
  BY DEF SponsoredRoutesYieldSOL
<1>1. /\ Compiled /\ legs = Route /\ Wired /\ ShouldDeduct
      /\ req.in \in Mints /\ req.out \in Mints
  BY CoSignedEligible
<1>2. Class \in {"settle", "quote", "buy", "sell", "swap"} BY DEF Class
<1>3. \A a : DOMAIN <<a>> = {1} /\ <<a>>[1] = a OBVIOUS
<1>4. \A a, b : DOMAIN <<a, b>> = {1, 2} /\ <<a, b>>[1] = a /\ <<a, b>>[2] = b OBVIOUS
<1>5. CASE Class = "settle"
  <2>1. legs = <<Leg("settle", req.in, req.out)>> /\ req.out = "wsol"
    BY <1>1, <1>5, RouteLegs, PairClasses
  <2> QED BY <1>3, <2>1, LegFields
<1>6. CASE Class = "quote"
  <2>1. legs = <<Leg("bridge", req.in, req.out)>> BY <1>1, <1>6, RouteLegs
  <2>2. req.out = "wsol" BY <1>1, <1>6 DEF Wired, QuoteSwapSponsoredEligible
  <2> QED BY <1>3, <2>1, <2>2, LegFields
<1>7. CASE Class \in {"buy", "sell", "swap"}
  <2>1. PoolQuote = "wsol" BY <1>1, <1>7 DEF Wired
  <2>2. CASE Class = "buy" /\ req.in = PoolQuote
    <3>1. legs = <<Leg("launchpad", req.in, req.out)>> BY <1>1, <2>2, RouteLegs
    <3>2. Len(legs) = 1 BY <3>1
    <3>3. legs[1].kind # "bridge" BY <1>3, <3>1, LegFields
    <3>4. req.inSettle # "wsol_spl" BY <1>1, <2>2, <3>2 DEF IInv, Made
    <3>5. req.inSettle # "native_sol"
      BY <1>1, <3>3 DEF ShouldDeduct, SponsoredRepayEligible
    <3>6. stage \notin {"idle", "landed"} BY <1>1 DEF IInv, Placed, Compiled, Quoted
    <3> QED BY <2>1, <2>2, <3>4, <3>5, <3>6 DEF IInv, TypeOK
  <2>3. CASE Class = "buy" /\ req.in # PoolQuote
    <3>1. legs = <<Leg("bridge", req.in, PoolQuote), Leg("launchpad", PoolQuote, req.out)>>
      BY <1>1, <2>3, RouteLegs
    <3> QED BY <1>4, <2>1, <3>1, LegFields
  <2>4. CASE Class = "sell" /\ req.out = PoolQuote
    <3>1. legs = <<Leg("launchpad", req.in, req.out)>> BY <1>1, <2>4, RouteLegs
    <3> QED BY <1>3, <2>1, <2>4, <3>1, LegFields
  <2>5. CASE Class = "sell" /\ req.out # PoolQuote
    <3>1. legs = <<Leg("launchpad", req.in, PoolQuote), Leg("bridge", PoolQuote, req.out)>>
      BY <1>1, <2>5, RouteLegs
    <3> QED BY <1>4, <2>1, <3>1, LegFields
  <2>6. CASE Class = "swap"
    <3>1. legs = <<Leg("launchpad", req.in, PoolQuote), Leg("launchpad", PoolQuote, req.out)>>
      BY <1>1, <2>6, RouteLegs
    <3> QED BY <1>4, <2>1, <3>1, LegFields
  <2> QED BY <1>7, <2>2, <2>3, <2>4, <2>5, <2>6
<1> QED BY <1>2, <1>5, <1>6, <1>7

(* The sponsor co-signs a transaction only if a leg of its route pays out     *)
(* SOL, for any pair and any pool: the eligibility of the pair, the           *)
(* builders' refusals and the planners' repaying forms agree.                 *)
THEOREM RoutesYieldSOL == Spec => []SponsoredRoutesYieldSOL
<1>1. IInv => SponsoredRoutesYieldSOL BY RoutesYield
<1> QED BY <1>1, FlowInvariant, PTL

LEMMA BuildsAreSized ==
  ASSUME IInv
  PROVE  SponsoredBuildsSized
<1> SUFFICES ASSUME CoSigned # {}, Len(legs) = 2 PROVE deducted = "wsol"
  BY DEF SponsoredBuildsSized
<1>1. /\ Compiled /\ legs = Route /\ Wired /\ ShouldDeduct
      /\ req.in \in Mints /\ req.out \in Mints
  BY CoSignedEligible
<1>2. Class \in {"settle", "quote", "buy", "sell", "swap"} BY DEF Class
<1>3. \A a : Len(<<a>>) # 2 OBVIOUS
<1>4. Class \notin {"settle", "quote"} BY <1>1, <1>3, RouteLegs, Zenon
<1>5. Trade /\ PoolQuote = "wsol" BY <1>1, <1>2, <1>4 DEF Trade, Wired
<1>6. deducted = DeductedFrom BY <1>1, <1>5 DEF IInv, Deducted, Compiled
<1>7. ASSUME Class = "sell" PROVE HasBridgeLeg(legs)
  <2>1. req.out # PoolQuote BY <1>1, <1>3, <1>7, RouteLegs, Zenon
  <2>2. legs = <<Leg("launchpad", req.in, PoolQuote), Leg("bridge", PoolQuote, req.out)>>
    BY <1>1, <1>7, <2>1, RouteLegs
  <2>3. 2 \in DOMAIN legs /\ legs[2].kind = "bridge" BY <2>2, LegFields
  <2> QED BY <2>3 DEF HasBridgeLeg
<1> QED BY <1>1, <1>5, <1>6, <1>7 DEF DeductedFrom

(* When the second hop spends what the first left after the repay, the quote  *)
(* of a co-signed transaction was sized with the repay taken off: the sizing, *)
(* the compiler and the planners never judge a request differently.           *)
THEOREM BuildsSized == Spec => []SponsoredBuildsSized
<1>1. IInv => SponsoredBuildsSized BY BuildsAreSized
<1> QED BY <1>1, FlowInvariant, PTL

LEMMA Connected ==
  ASSUME IInv
  PROVE  RouteConnected
<1> SUFFICES ASSUME Quoted
             PROVE  /\ legs[1].in = req.in /\ legs[Len(legs)].out = req.out
                    /\ \A i \in 1..(Len(legs) - 1) : legs[i].out = legs[i + 1].in
                    /\ \A i \in DOMAIN legs : legs[i].kind = "launchpad" =>
                         LET token == IF legs[i].in \in Tokens THEN legs[i].in ELSE legs[i].out
                             quote == IF legs[i].in \in Tokens THEN legs[i].out ELSE legs[i].in
                         IN  pools[token] = [venue |-> "pumpfun", quote |-> quote]
  BY DEF RouteConnected, Quoted
<1> DEFINE OnItsPool(l) ==
             l.kind = "launchpad" =>
               LET token == IF l.in \in Tokens THEN l.in ELSE l.out
                   quote == IF l.in \in Tokens THEN l.out ELSE l.in
               IN  pools[token] = [venue |-> "pumpfun", quote |-> quote]
<1>1. Compiled /\ legs = Route BY DEF Compiled, IInv, Routed
<1>2. stage \notin {"idle", "landed"} BY DEF IInv, Placed
<1>3. req.in \in Mints /\ req.out \in Mints BY <1>2, PairKnown
<1>4. Class \in {"settle", "quote", "buy", "sell", "swap"} BY DEF Class
<1>5. ASSUME NEW l, legs = <<l>>, l.in = req.in, l.out = req.out, OnItsPool(l)
      PROVE  /\ legs[1].in = req.in /\ legs[Len(legs)].out = req.out
             /\ \A i \in 1..(Len(legs) - 1) : legs[i].out = legs[i + 1].in
             /\ \A i \in DOMAIN legs : OnItsPool(legs[i])
  <2>1. Len(legs) = 1 /\ DOMAIN legs = {1} /\ legs[1] = l BY <1>5
  <2>2. 1..(Len(legs) - 1) = {} BY <2>1
  <2> HIDE DEF OnItsPool
  <2> QED BY <1>5, <2>1, <2>2
<1>6. ASSUME NEW l, NEW r, legs = <<l, r>>, l.in = req.in, r.out = req.out, l.out = r.in,
             OnItsPool(l), OnItsPool(r)
      PROVE  /\ legs[1].in = req.in /\ legs[Len(legs)].out = req.out
             /\ \A i \in 1..(Len(legs) - 1) : legs[i].out = legs[i + 1].in
             /\ \A i \in DOMAIN legs : OnItsPool(legs[i])
  <2>1. Len(legs) = 2 /\ DOMAIN legs = {1, 2} /\ legs[1] = l /\ legs[2] = r BY <1>6
  <2>2. \A i \in 1..(Len(legs) - 1) : i = 1 /\ i + 1 = 2 BY <2>1
  <2> HIDE DEF OnItsPool
  <2> QED BY <1>6, <2>1, <2>2
<1>7. CASE Class \in {"settle", "quote"}
  <2>1. PICK kind \in {"settle", "bridge"} : legs = <<Leg(kind, req.in, req.out)>>
    BY <1>1, <1>7, RouteLegs
  <2>2. OnItsPool(Leg(kind, req.in, req.out)) BY LegFields
  <2> HIDE DEF OnItsPool
  <2>3. /\ legs[1].in = req.in /\ legs[Len(legs)].out = req.out
        /\ \A i \in 1..(Len(legs) - 1) : legs[i].out = legs[i + 1].in
        /\ \A i \in DOMAIN legs : OnItsPool(legs[i])
    BY <1>5, <2>1, <2>2, LegFields
  <2> QED BY <2>3 DEF OnItsPool
<1>8. CASE Class \in {"buy", "sell", "swap"}
  <2>1. /\ Trade /\ Base \in Tokens /\ Base \notin Quotes
        /\ Class = "buy" => req.in \in Quotes /\ req.in \notin Tokens /\ Base = req.out
        /\ Class = "sell" => req.out \in Quotes /\ req.out \notin Tokens /\ Base = req.in
        /\ Class = "swap" => req.in \in Tokens /\ req.out \in Tokens /\ Base = req.in
    BY <1>3, <1>8, PairClasses, Disjoint DEF Trade
  <2>2. \A t \in Tokens : pools[t] \in [venue : {"none", "other", "pumpfun"}, quote : Quotes \cup PoolQuotes]
    BY DEF IInv, Placed
  <2>3. PoolQuote = pools[Base].quote BY DEF PoolQuote
  <2>4. pools[Base].venue = "pumpfun" BY <1>1, <2>1 DEF IInv, Routed
  <2>5. pools[Base] = [venue |-> "pumpfun", quote |-> PoolQuote] BY <2>1, <2>2, <2>3, <2>4
  <2>6. PoolQuote \notin Tokens
    <3>1. PoolQuote \in Quotes \cup PoolQuotes BY <2>1, <2>2, <2>3
    <3> QED BY <3>1, FlowAssumption, Disjoint
  <2>7. Class = "swap" => pools[req.out] = [venue |-> "pumpfun", quote |-> PoolQuote]
    <3> SUFFICES ASSUME Class = "swap"
                 PROVE  pools[req.out] = [venue |-> "pumpfun", quote |-> PoolQuote]
      OBVIOUS
    <3>1. ~SwapMismatch BY <1>1 DEF IInv, Routed
    <3>2. pools[req.out].venue = "pumpfun" /\ pools[req.out].quote = PoolQuote
      BY <2>1, <2>4, <3>1 DEF SwapMismatch
    <3> QED BY <2>1, <2>2, <3>2
  <2>8. CASE Class = "buy"
    <3>1. OnItsPool(Leg("launchpad", PoolQuote, req.out)) BY <2>1, <2>5, <2>6, <2>8, LegFields
    <3>2. OnItsPool(Leg("bridge", req.in, PoolQuote)) BY LegFields
    <3> HIDE DEF OnItsPool
    <3>3. CASE req.in = PoolQuote
      <4>1. legs = <<Leg("launchpad", req.in, req.out)>> BY <1>1, <2>8, <3>3, RouteLegs
      <4>2. \A i \in DOMAIN legs : OnItsPool(legs[i]) BY <1>5, <3>1, <3>3, <4>1, LegFields
      <4>3. /\ legs[1].in = req.in /\ legs[Len(legs)].out = req.out
            /\ \A i \in 1..(Len(legs) - 1) : legs[i].out = legs[i + 1].in
        BY <1>5, <3>1, <3>3, <4>1, LegFields
      <4> QED BY <4>2, <4>3 DEF OnItsPool
    <3>4. CASE req.in # PoolQuote
      <4>1. legs = <<Leg("bridge", req.in, PoolQuote), Leg("launchpad", PoolQuote, req.out)>>
        BY <1>1, <2>8, <3>4, RouteLegs
      <4>2. /\ legs[1].in = req.in /\ legs[Len(legs)].out = req.out
            /\ \A i \in 1..(Len(legs) - 1) : legs[i].out = legs[i + 1].in
            /\ \A i \in DOMAIN legs : OnItsPool(legs[i])
        BY <1>6, <3>1, <3>2, <4>1, LegFields
      <4> QED BY <4>2 DEF OnItsPool
    <3> QED BY <3>3, <3>4
  <2>9. CASE Class = "sell"
    <3>1. OnItsPool(Leg("launchpad", req.in, PoolQuote)) BY <2>1, <2>5, <2>9, LegFields
    <3>2. OnItsPool(Leg("bridge", PoolQuote, req.out)) BY LegFields
    <3> HIDE DEF OnItsPool
    <3>3. CASE req.out = PoolQuote
      <4>1. legs = <<Leg("launchpad", req.in, req.out)>> BY <1>1, <2>9, <3>3, RouteLegs
      <4>2. /\ legs[1].in = req.in /\ legs[Len(legs)].out = req.out
            /\ \A i \in 1..(Len(legs) - 1) : legs[i].out = legs[i + 1].in
            /\ \A i \in DOMAIN legs : OnItsPool(legs[i])
        BY <1>5, <3>1, <3>3, <4>1, LegFields
      <4> QED BY <4>2 DEF OnItsPool
    <3>4. CASE req.out # PoolQuote
      <4>1. legs = <<Leg("launchpad", req.in, PoolQuote), Leg("bridge", PoolQuote, req.out)>>
        BY <1>1, <2>9, <3>4, RouteLegs
      <4>2. /\ legs[1].in = req.in /\ legs[Len(legs)].out = req.out
            /\ \A i \in 1..(Len(legs) - 1) : legs[i].out = legs[i + 1].in
            /\ \A i \in DOMAIN legs : OnItsPool(legs[i])
        BY <1>6, <3>1, <3>2, <4>1, LegFields
      <4> QED BY <4>2 DEF OnItsPool
    <3> QED BY <3>3, <3>4
  <2>10. CASE Class = "swap"
    <3>1. OnItsPool(Leg("launchpad", req.in, PoolQuote)) BY <2>1, <2>5, <2>10, LegFields
    <3>2. OnItsPool(Leg("launchpad", PoolQuote, req.out)) BY <2>6, <2>7, <2>10, LegFields
    <3>3. legs = <<Leg("launchpad", req.in, PoolQuote), Leg("launchpad", PoolQuote, req.out)>>
      BY <1>1, <2>10, RouteLegs
    <3> HIDE DEF OnItsPool
    <3>4. /\ legs[1].in = req.in /\ legs[Len(legs)].out = req.out
          /\ \A i \in 1..(Len(legs) - 1) : legs[i].out = legs[i + 1].in
          /\ \A i \in DOMAIN legs : OnItsPool(legs[i])
      BY <1>6, <3>1, <3>2, <3>3, LegFields
    <3> QED BY <3>4 DEF OnItsPool
  <2> QED BY <1>8, <2>8, <2>9, <2>10
<1> QED BY <1>4, <1>7, <1>8

(* An answered route runs from the mint paid to the mint wanted without a     *)
(* gap, and trades each token only against the quote of its own pool, for any *)
(* set of quote mints the pools may have.                                     *)
THEOREM RoutesConnect == Spec => []RouteConnected
<1>1. IInv => RouteConnected BY Connected
<1> QED BY <1>1, FlowInvariant, PTL

-----------------------------------------------------------------------------
(* What the answer says, and what the builders read.                       *)

LEMMA Explained ==
  ASSUME IInv
  PROVE  EveryVariantExplained
<1> SUFFICES ASSUME Quoted
             PROVE  /\ \E modes \in {{""}, Modes} : DOMAIN made = Variants \X modes
                    /\ build \in BuiltKeys
  BY DEF EveryVariantExplained, Quoted
<1>1. queue = <<>> /\ build \in BuiltKeys BY DEF IInv, Made
<1>2. PICK full \in BOOLEAN : Waiting(full) BY DEF IInv, Listed, Compiled
<1>3. DOMAIN queue = {} BY <1>1
<1>4. DOMAIN made = Variants \X ModesOf(full) BY <1>2, <1>3 DEF Waiting
<1>5. ModesOf(full) \in {{""}, Modes} BY DEF ModesOf
<1> QED BY <1>1, <1>4, <1>5

(* An answer with builds says of every variant, in every settlement mode it   *)
(* offers, that it is built or why it is not, and its default is built.       *)
THEOREM VariantsExplained == Spec => []EveryVariantExplained
<1>1. IInv => EveryVariantExplained BY Explained
<1> QED BY <1>1, FlowInvariant, PTL

LEMMA Expected ==
  ASSUME IInv
  PROVE  AnswerAsPageExpects
<1> SUFFICES ASSUME Quoted
             PROVE  \E full \in BOOLEAN :
                      /\ full => Class = "settle" /\ Unwraps
                      /\ BuiltKeys \subseteq
                           KeysOffered(Class = "settle", Unwraps, cfg.sponsor, cfg.jito, full)
  BY DEF AnswerAsPageExpects, Quoted
<1>1. PICK full \in BOOLEAN : Waiting(full) BY DEF IInv, Listed, Compiled
<1>2. full => Class = "settle" /\ Unwraps BY <1>1 DEF Waiting
<1>3. ASSUME NEW key \in BuiltKeys
      PROVE  /\ key \in Variants \X ModesOf(full)
             /\ Mev(key) => cfg.jito /\ ~(Class = "settle")
             /\ Sponsored(key) => cfg.sponsor /\ (Class = "settle" => Unwraps)
  <2>1. key \in Variants \X ModesOf(full) BY <1>1 DEF Waiting, BuiltKeys
  <2>2. EarlyRefusal(key) = "none" BY DEF IInv, Made, Compiled
  <2>3. Mev(key) => cfg.jito /\ ~(Class = "settle") BY <2>2 DEF EarlyRefusal
  <2>4. Sponsored(key) => SponsoredSwapEligible /\ (Class = "settle" => Unwraps)
    BY <2>2 DEF EarlyRefusal, SponsorRefusal
  <2> QED BY <2>1, <2>3, <2>4 DEF SponsoredSwapEligible
<1>4. BuiltKeys \subseteq KeysOffered(Class = "settle", Unwraps, cfg.sponsor, cfg.jito, full)
  BY <1>3 DEF KeysOffered, ModesOf
<1> QED BY <1>2, <1>4

(* Whatever the server answers is among the answers the page reckons with.    *)
THEOREM AnswersExpected == Spec => []AnswerAsPageExpects
<1>1. IInv => AnswerAsPageExpects BY Expected
<1> QED BY <1>1, FlowInvariant, PTL

(* The plan of a trade fetches what is read of its tokens, and every mint it  *)
(* or its pool may be quoted in.                                              *)
LEMMA TradePlan ==
  ASSUME Trade
  PROVE  /\ \A t \in BaseMints(req.in, req.out) :
              {Curve(t), Global, Others(t)} \subseteq BuildFetchPlan(Class, req.in, req.out)
         /\ \A m \in {req.in, req.out} \cup Quotes :
              Mint(m) \in BuildFetchPlan(Class, req.in, req.out)
<1> DEFINE ofTokens == UNION { Candidates(t) : t \in BaseMints(req.in, req.out) }
           ofMints == MintsAndATAs(FetchedMints(req.in, req.out))
<1>1. BuildFetchPlan(Class, req.in, req.out) = ofTokens \cup ofMints BY DEF Trade, BuildFetchPlan
<1>2. \A m \in FetchedMints(req.in, req.out) : Mint(m) \in ofMints BY DEF MintsAndATAs
<1>3. \A t \in BaseMints(req.in, req.out) : Candidates(t) \subseteq ofTokens OBVIOUS
<1> HIDE DEF ofTokens, ofMints
<1>4. ASSUME NEW t \in BaseMints(req.in, req.out)
      PROVE  {Curve(t), Global, Others(t)} \subseteq BuildFetchPlan(Class, req.in, req.out)
  <2>1. Candidates(t) \subseteq BuildFetchPlan(Class, req.in, req.out) BY <1>1, <1>3
  <2> QED BY <2>1 DEF Candidates
<1>5. ASSUME NEW m \in {req.in, req.out} \cup Quotes
      PROVE  Mint(m) \in BuildFetchPlan(Class, req.in, req.out)
  <2>1. m \in FetchedMints(req.in, req.out) BY DEF FetchedMints
  <2>2. Mint(m) \in ofMints BY <1>2, <2>1
  <2> QED BY <1>1, <2>2
<1> QED BY <1>4, <1>5

(* The mints of a planned trade are its own and those of its pool. *)
LEMMA RouteMints ==
  ASSUME Trade, NEW i \in DOMAIN Route
  PROVE  Route[i].in \in {req.in, req.out, PoolQuote} /\ Route[i].out \in {req.in, req.out, PoolQuote}
<1>1. \A a : DOMAIN <<a>> = {1} /\ <<a>>[1] = a OBVIOUS
<1>2. \A a, b : DOMAIN <<a, b>> = {1, 2} /\ <<a, b>>[1] = a /\ <<a, b>>[2] = b OBVIOUS
<1>3. CASE Class = "buy"
  <2>1. CASE req.in = PoolQuote
    <3>1. Route = <<Leg("launchpad", req.in, req.out)>> BY <1>3, <2>1, RouteLegs
    <3> QED BY <1>1, <3>1, LegFields
  <2>2. CASE req.in # PoolQuote
    <3>1. Route = <<Leg("bridge", req.in, PoolQuote), Leg("launchpad", PoolQuote, req.out)>>
      BY <1>3, <2>2, RouteLegs
    <3> QED BY <1>2, <3>1, LegFields
  <2> QED BY <2>1, <2>2
<1>4. CASE Class = "sell"
  <2>1. CASE req.out = PoolQuote
    <3>1. Route = <<Leg("launchpad", req.in, req.out)>> BY <1>4, <2>1, RouteLegs
    <3> QED BY <1>1, <3>1, LegFields
  <2>2. CASE req.out # PoolQuote
    <3>1. Route = <<Leg("launchpad", req.in, PoolQuote), Leg("bridge", PoolQuote, req.out)>>
      BY <1>4, <2>2, RouteLegs
    <3> QED BY <1>2, <3>1, LegFields
  <2> QED BY <2>1, <2>2
<1>5. CASE Class = "swap"
  <2>1. Route = <<Leg("launchpad", req.in, PoolQuote), Leg("launchpad", PoolQuote, req.out)>>
    BY <1>5, RouteLegs
  <2> QED BY <1>2, <2>1, LegFields
<1> QED BY <1>3, <1>4, <1>5 DEF Trade

LEMMA Fetched ==
  ASSUME IInv
  PROVE  LookupsFetched
<1> SUFFICES ASSUME ~(stage = "build" /\ Base \in Tokens /\ PoolQuote = "foreign")
             PROVE  Lookups \subseteq fetched
  BY DEF LookupsFetched, Found
<1> DEFINE plan == BuildFetchPlan(Class, req.in, req.out)
<1>1. stage \in {"settle", "detect", "amounts", "build"} =>
        /\ plan \subseteq fetched
        /\ req.in \in Mints /\ req.out \in Mints
  BY PairKnown DEF IInv, Planned
<1>2. CASE stage = "settle"
  <2>1. Class = "settle" /\ req.in = "wsol" BY <1>1, <1>2, PairClasses DEF IInv, Placed
  <2>2. plan = MintsAndATAs({"wsol"}) BY <2>1 DEF BuildFetchPlan
  <2>3. SettleLookups \subseteq plan BY <2>2 DEF SettleLookups, MintsAndATAs
  <2>4. Lookups \subseteq SettleLookups BY <1>2 DEF Lookups
  <2> QED BY <1>1, <1>2, <2>3, <2>4
<1>3. CASE stage = "detect"
  <2>1. Trade BY <1>3 DEF IInv, Placed
  <2>2. Base \in BaseMints(req.in, req.out) BY <1>1, <1>3, <2>1, PairClasses
  <2>3. Lookups = {Curve(Base), Others(Base)} BY <1>3 DEF Lookups, DetectLookups
  <2> QED BY <1>1, <1>3, <2>1, <2>2, <2>3, TradePlan
<1>4. ASSUME Trade PROVE AmountLookups(req.in, req.out) \subseteq plan
  <2>1. ASSUME NEW t \in BaseMints(req.in, req.out) PROVE {Curve(t), Global, Mint(t)} \subseteq plan
    BY <1>4, TradePlan DEF BaseMints
  <2> HIDE DEF plan
  <2> QED BY <2>1 DEF AmountLookups
<1>5. CASE stage = "amounts"
  <2>1. Trade BY <1>5 DEF IInv, Placed
  <2>2. Lookups = AmountLookups(req.in, req.out) BY <1>5 DEF Lookups
  <2> QED BY <1>1, <1>4, <1>5, <2>1, <2>2
<1>6. CASE stage = "build" /\ ~Trade
  <2>1. Class \in {"settle", "quote"} BY <1>6 DEF Trade, Class
  <2>2. Class = "settle" => Lookups = {} BY <1>6 DEF Lookups
  <2>3. ASSUME Class = "quote" PROVE Lookups \subseteq plan
    <3>1. Lookups = {BridgePool, Mint(req.in), Mint(req.out)}
      BY <1>6, <2>3 DEF Lookups, BridgeLookups
    <3>2. plan = {BridgePool} \cup MintsAndATAs({req.in, req.out}) BY <2>3 DEF BuildFetchPlan
    <3> QED BY <3>1, <3>2 DEF MintsAndATAs
  <2> QED BY <1>1, <1>6, <2>1, <2>2, <2>3
<1>7. CASE stage = "build" /\ Trade
  <2>1. PoolQuote \in Quotes
    <3>1. Base \in Tokens BY <1>1, <1>7, PairClasses
    <3>2. PoolQuote \in Quotes \cup PoolQuotes BY <3>1 DEF IInv, TypeOK, PoolQuote
    <3> QED BY <1>7, <3>1, <3>2, FlowAssumption
  <2>2. legs = Route BY <1>7 DEF IInv, Routed
  <2> DEFINE bridges == { j \in DOMAIN legs : legs[j].kind = "bridge" }
             read(i) == BridgeLookups(Class, legs[i].in, legs[i].out)
  <2>3. Lookups = LaunchpadLookups(req.in, req.out, PoolQuote) \cup UNION { read(i) : i \in bridges }
    BY <1>7 DEF Lookups, Trade
  <2>4. LaunchpadLookups(req.in, req.out, PoolQuote) \subseteq plan
    BY <1>4, <1>7, <2>1, TradePlan DEF LaunchpadLookups
  <2>5. ASSUME NEW i \in bridges PROVE read(i) \subseteq fetched
    <3>1. i \in DOMAIN Route BY <2>2
    <3>2. legs[i].in \in {req.in, req.out} \cup Quotes /\ legs[i].out \in {req.in, req.out} \cup Quotes
      BY <1>7, <2>1, <2>2, <3>1, RouteMints
    <3>3. Mint(legs[i].in) \in plan /\ Mint(legs[i].out) \in plan /\ Mint("wsol") \in plan
      BY <1>7, <3>2, TradePlan, Disjoint
    <3>4. BridgePool \in fetched BY <1>7 DEF IInv, Planned, HasBridgeLeg
    <3> HIDE DEF plan
    <3> QED BY <1>1, <1>7, <3>3, <3>4 DEF BridgeLookups
  <2> HIDE DEF bridges, read, plan
  <2> QED BY <1>1, <1>7, <2>3, <2>4, <2>5
<1>8. CASE stage \notin {"settle", "detect", "amounts", "build"} BY <1>8 DEF Lookups
<1> QED BY <1>2, <1>3, <1>5, <1>6, <1>7, <1>8

(* The snapshot, planned from the pair alone, holds every account that the    *)
(* quote and the builders read, unless the pool is quoted in a mint that is   *)
(* not configured.                                                            *)
THEOREM LookupsAreFetched == Spec => []LookupsFetched
<1>1. IInv => LookupsFetched BY Fetched
<1> QED BY <1>1, FlowInvariant, PTL
=============================================================================
