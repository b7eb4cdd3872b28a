------------------------------ MODULE FetchPlan ------------------------------
(***************************************************************************)
(* The account keys one snapshot fetches, and the keys that the handler    *)
(* and the builders look up in it.  The plan is made from the pair alone,  *)
(* before the pool's quote and the route are known; a key that is not in   *)
(* the snapshot looks like an account that does not exist.                 *)
(***************************************************************************)
Quotes == {"wsol", "usdc", "usdt"}  \* the configured quote mints

Mint(m)    == <<"mint", m>>
ATAs(m)    == <<"atas", m>>             \* the user's, under either token program
Curve(t)   == <<"curve", t>>
Global     == <<"global", "pump">>
Others(t)  == <<"candidates", t>>       \* Raydium's and Meteora's for the token
BridgePool == <<"pool", "jupiter">>     \* the pool Jupiter named

BaseMints(in, out) == {in, out} \ Quotes

MintsAndATAs(mints) == { Mint(m) : m \in mints } \cup { ATAs(m) : m \in mints }

Candidates(t) == {Curve(t), Global, Others(t)}

(* Mutant of FetchedMints: only the pair's own mints are fetched. *)
FetchedMintsOfPair(in, out) == {in, out}

(* Any configured quote may turn out to be the pool's. *)
FetchedMints(in, out) == {in, out} \cup Quotes

BuildFetchPlan(class, in, out) ==
  CASE class = "settle" -> MintsAndATAs({in})
    [] class = "quote"  -> {BridgePool} \cup MintsAndATAs({in, out})
    [] OTHER            -> (UNION { Candidates(t) : t \in BaseMints(in, out) })
                             \cup MintsAndATAs(FetchedMints(in, out))

-----------------------------------------------------------------------------
(* Lookups. *)

(* The balance of an unwrap. *)
SettleLookups == {Mint("wsol"), ATAs("wsol")}

DetectLookups(t) == {Curve(t), Others(t)}

AmountLookups(in, out) == UNION { {Curve(t), Global, Mint(t)} : t \in BaseMints(in, out) }

(* Both mints, the pool, and for a sale the WSOL mint whatever the route. *)
BridgeLookups(class, from, to) ==
  {BridgePool, Mint(from), Mint(to)} \cup (IF class = "sell" THEN {Mint("wsol")} ELSE {})

(* What the builders look up, given the pool's quote. *)
LaunchpadLookups(in, out, quote) == AmountLookups(in, out) \cup {Mint(quote)}
=============================================================================
