---------------------------- MODULE MCQuoteFlow ----------------------------
(* Every pair but those whose second token would only repeat the first:     *)
(* all classes, same-mint pairs included.                                   *)
EXTENDS QuoteFlow

MCPairs == { p \in Mints \X Mints : p[1] # "B" /\ (p[2] = "B" => p[1] = "A") }
=============================================================================
