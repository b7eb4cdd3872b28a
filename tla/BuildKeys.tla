------------------------------ MODULE BuildKeys ------------------------------
(***************************************************************************)
(* The keys under which an answer of /api/quote lists its transactions:    *)
(* what the server files them under, and what the swap page looks up.      *)
(***************************************************************************)
Variants == {"selfFunded", "selfFundedMev", "sponsoredSwap", "sponsoredSwapMev"}
Modes == {"close", "unwrapAll"}   \* of a request that spends the whole WSOL account
Keys == Variants \X (Modes \cup {""})
NoKey == <<"none", "">>

Mev(key) == key[1] \in {"selfFundedMev", "sponsoredSwapMev"}
Sponsored(key) == key[1] \in {"sponsoredSwap", "sponsoredSwapMev"}

(* The transactions the page reckons with, given whether the request converts *)
(* between SOL and WSOL, and unwraps; full: it spends the whole WSOL account. *)
KeysOffered(converts, unwraps, sponsor, jito, full) ==
  { key \in Variants \X (IF full THEN Modes ELSE {""}) :
      /\ Mev(key) => jito /\ ~converts
      /\ Sponsored(key) => sponsor /\ (converts => unwraps) }

(* The default build is the self-funded one, else whichever a map walk meets. *)
Defaults(keys) ==
  LET preferred == keys \cap {<<"selfFunded", "">>, <<"selfFunded", "close">>}
  IN  IF preferred = {} THEN keys ELSE preferred
=============================================================================
