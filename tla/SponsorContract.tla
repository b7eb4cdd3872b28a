-------------------------- MODULE SponsorContract --------------------------
(***************************************************************************)
(* What a sponsored transaction promises its two parties, as single steps. *)
(* funds is what the sponsor's fee payer and treasury hold together,       *)
(* position the SOL of the user in every form, offers the transactions     *)
(* handed out and not yet settled.                                         *)
(***************************************************************************)
EXTENDS Integers

VARIABLES funds, position, offers

vars == <<funds, position, offers>>

Offer == [id : Nat, sponsored : BOOLEAN, fee : Nat]

Init == funds \in Nat /\ position \in Nat /\ offers = {}

Issue ==
  /\ offers \subseteq offers' /\ offers' \subseteq Offer
  /\ UNCHANGED <<funds, position>>

Drop(o) == offers' = offers \ {o} /\ UNCHANGED <<funds, position>>

(* One lamport covers the rounding of the priority fee. *)
Settle(o) ==
  /\ offers' = offers \ {o}
  /\ IF o.sponsored THEN funds' + 1 >= funds ELSE funds' = funds
  /\ position' \in Nat

Fail(o) ==
  /\ offers' = offers \ {o}
  /\ IF o.sponsored
     THEN funds' = funds - o.fee /\ position' = position
     ELSE funds' = funds /\ position' = position - o.fee

(* The user's other transactions. *)
WalletActivity == position' \in Nat /\ UNCHANGED <<funds, offers>>

Next ==
  \/ Issue
  \/ \E o \in offers : Drop(o) \/ Settle(o) \/ Fail(o)
  \/ WalletActivity

Spec == Init /\ [][Next]_vars
=============================================================================
