--------------------------- MODULE Landing_proofs ---------------------------
(***************************************************************************)
(* A landed transaction of an answer, for any pair, any pool and any       *)
(* variant: it finds its accounts open and its money in place, and leaves  *)
(* the proceeds where the request asked for them.                          *)
(*                                                                         *)
(* Builders are sequences of pieces, so the proof is one of programs:      *)
(* Leads says where a piece takes the money from a place, given accounts   *)
(* that are open, and that it finds no fault but those allowed.  The       *)
(* invariant of QuoteFlow_proofs says which transactions there are.        *)
(***************************************************************************)
EXTENDS QuoteFlow_proofs, WellFoundedInduction

-----------------------------------------------------------------------------
(* Running a sequence of steps.                                            *)

LEMMA Counting ==
  ASSUME NEW T \in SUBSET Nat, 0 \in T, \A n \in T : n + 1 \in T
  PROVE  T = Nat
<1> SUFFICES ASSUME Nat \ T # {} PROVE FALSE OBVIOUS
<1>1. PICK n \in Nat \ T : \A m \in Nat \ T : <<m, n>> \notin OpToRel(<, Nat)
  BY NatLessThanWellFounded, WFMin
<1>2. n # 0 /\ n - 1 \in Nat /\ n - 1 < n /\ (n - 1) + 1 = n OBVIOUS
<1>3. n - 1 \notin T BY <1>2
<1>4. <<n - 1, n>> \in OpToRel(<, Nat) BY <1>2 DEF OpToRel
<1> QED BY <1>1, <1>2, <1>3, <1>4

(* f is what the wallet is after each of the first n steps. *)
Trace(w, steps, n, f) ==
  f = [i \in 0..n |-> IF i = 0 THEN w ELSE Perform(f[i - 1], steps[i])]

LEMMA TraceExists ==
  ASSUME NEW w, NEW steps, NEW n \in Nat
  PROVE  \E f : Trace(w, steps, n, f)
<1> DEFINE T == {k \in Nat : \E f : Trace(w, steps, k, f)}
<1>1. 0 \in T
  <2>1. Trace(w, steps, 0, [i \in 0..0 |-> w]) BY DEF Trace
  <2> QED BY <2>1
<1>2. \A k \in T : k + 1 \in T
  <2> SUFFICES ASSUME NEW k \in T PROVE k + 1 \in T OBVIOUS
  <2>1. PICK f : Trace(w, steps, k, f) OBVIOUS
  <2> DEFINE g == [i \in 0..(k + 1) |-> IF i = k + 1 THEN Perform(f[k], steps[k + 1]) ELSE f[i]]
  <2>2. ASSUME NEW i \in 0..(k + 1)
        PROVE  g[i] = IF i = 0 THEN w ELSE Perform(g[i - 1], steps[i])
    <3>1. k \in Nat /\ i \in Nat OBVIOUS
    <3>2. CASE i = 0 BY <2>1, <3>1, <3>2 DEF Trace
    <3>3. CASE i = k + 1 BY <2>1, <3>1, <3>3 DEF Trace
    <3>4. CASE i # 0 /\ i # k + 1
      <4>1. i \in 0..k /\ i - 1 \in 0..k /\ i - 1 # k + 1 /\ i - 1 \in 0..(k + 1) BY <3>1, <3>4
      <4>2. g[i] = f[i] /\ g[i - 1] = f[i - 1] BY <4>1
      <4>3. f[i] = IF i = 0 THEN w ELSE Perform(f[i - 1], steps[i]) BY <2>1, <4>1 DEF Trace
      <4> QED BY <4>2, <4>3
    <3> QED BY <3>2, <3>3, <3>4
  <2>3. Trace(w, steps, k + 1, g) BY <2>2 DEF Trace
  <2> QED BY <2>3
<1>3. T = Nat BY <1>1, <1>2, Counting
<1> QED BY <1>3

LEMMA RunTraces ==
  ASSUME NEW w, NEW steps, Len(steps) \in Nat
  PROVE  \E f : Trace(w, steps, Len(steps), f) /\ Run(w, steps) = f[Len(steps)]
<1> DEFINE n == Len(steps)
           after == CHOOSE f : f = [i \in 0..n |-> IF i = 0 THEN w ELSE Perform(f[i - 1], steps[i])]
<1>1. \E f : f = [i \in 0..n |-> IF i = 0 THEN w ELSE Perform(f[i - 1], steps[i])]
  <2>1. PICK f : Trace(w, steps, n, f) BY TraceExists
  <2> QED BY <2>1, Zenon DEF Trace
<1>2. Run(w, steps) = after[n] BY DEF Run
<1>3. after = [i \in 0..n |-> IF i = 0 THEN w ELSE Perform(after[i - 1], steps[i])] BY <1>1, Zenon
<1>4. Trace(w, steps, n, after) BY <1>3 DEF Trace
<1> QED BY <1>2, <1>4

(* One wallet and the same steps are one trace. *)
LEMMA TracesAgree ==
  ASSUME NEW w, NEW s, NEW t, NEW n \in Nat, NEW m \in Nat, n <= m, NEW f, NEW g,
         Trace(w, s, n, f), Trace(w, t, m, g), \A i \in 1..n : s[i] = t[i]
  PROVE  \A i \in 0..n : f[i] = g[i]
<1> DEFINE T == {k \in Nat : k <= n => f[k] = g[k]}
<1>1. 0 \in T BY DEF Trace
<1>2. ASSUME NEW k \in T, k + 1 <= n PROVE f[k + 1] = g[k + 1]
  <2>1. /\ k \in Nat /\ k <= n /\ k + 1 \in 0..n /\ k + 1 \in 0..m /\ k + 1 \in 1..n
        /\ (k + 1) - 1 = k /\ k + 1 # 0
    BY <1>2
  <2>2. f[k] = g[k] /\ s[k + 1] = t[k + 1] BY <2>1
  <2>3. f[k + 1] = Perform(f[k], s[k + 1]) BY <2>1 DEF Trace
  <2>4. g[k + 1] = Perform(g[k], t[k + 1]) BY <2>1 DEF Trace
  <2> QED BY <2>2, <2>3, <2>4
<1>3. \A k \in T : k + 1 \in T BY <1>2
<1>4. T = Nat BY <1>1, <1>3, Counting
<1> QED BY <1>4

LEMMA RunNothing ==
  ASSUME NEW w
  PROVE  Run(w, <<>>) = w
<1>1. Len(<<>>) = 0 OBVIOUS
<1>2. PICK f : Trace(w, <<>>, 0, f) /\ Run(w, <<>>) = f[0] BY <1>1, RunTraces
<1> QED BY <1>2 DEF Trace

LEMMA RunOne ==
  ASSUME NEW w, NEW step
  PROVE  Run(w, <<step>>) = Perform(w, step)
<1>1. Len(<<step>>) = 1 /\ <<step>>[1] = step OBVIOUS
<1>2. PICK f : Trace(w, <<step>>, 1, f) /\ Run(w, <<step>>) = f[1] BY <1>1, RunTraces
<1>3. f[1] = Perform(f[1 - 1], <<step>>[1]) /\ f[0] = w BY <1>2 DEF Trace
<1> QED BY <1>1, <1>2, <1>3

LEMMA RunConcat ==
  ASSUME NEW S, NEW s \in Seq(S), NEW t \in Seq(S), NEW w
  PROVE  Run(w, s \o t) = Run(Run(w, s), t)
<1> DEFINE n == Len(s)
           m == Len(t)
<1>1. n \in Nat /\ m \in Nat OBVIOUS
<1>2. /\ Len(s \o t) = n + m
      /\ \A i \in 1..(n + m) : (s \o t)[i] = IF i <= n THEN s[i] ELSE t[i - n]
  BY ConcatProperties
<1> DEFINE u == s \o t
<1> HIDE DEF u, n, m
<1>3. PICK f : Trace(w, s, n, f) /\ Run(w, s) = f[n] BY <1>1, RunTraces DEF n
<1>4. PICK g : Trace(f[n], t, m, g) /\ Run(f[n], t) = g[m] BY <1>1, RunTraces DEF m
<1> DEFINE h == [i \in 0..(n + m) |-> IF i <= n THEN f[i] ELSE g[i - n]]
<1>5. g[0] = f[n] BY <1>1, <1>4 DEF Trace
<1>6. ASSUME NEW i \in 0..(n + m)
      PROVE  h[i] = IF i = 0 THEN w ELSE Perform(h[i - 1], u[i])
  <2>1. CASE i = 0 BY <1>1, <1>3, <2>1 DEF Trace
  <2>2. CASE i # 0 /\ i <= n
    <3>1. /\ i \in 0..n /\ i - 1 <= n /\ i - 1 \in 0..(n + m) /\ i \in 1..(n + m)
      BY <1>1, <2>2
    <3>2. h[i] = f[i] /\ h[i - 1] = f[i - 1] /\ u[i] = s[i] BY <1>2, <2>2, <3>1 DEF u
    <3>3. f[i] = Perform(f[i - 1], s[i]) BY <1>3, <2>2, <3>1 DEF Trace
    <3> QED BY <2>2, <3>2, <3>3
  <2>3. CASE i > n
    <3>1. /\ i - n \in 0..m /\ i - n # 0 /\ i - 1 \in 0..(n + m) /\ i \in 1..(n + m)
          /\ (i - 1) - n = (i - n) - 1 /\ ~(i <= n) /\ i # 0
      BY <1>1, <2>3
    <3>2. h[i] = g[i - n] /\ u[i] = t[i - n] BY <1>2, <3>1 DEF u
    <3>3. h[i - 1] = g[(i - n) - 1]
      <4>1. CASE i - 1 <= n
        <5>1. i - 1 = n /\ (i - n) - 1 = 0 BY <1>1, <2>3, <4>1
        <5> QED BY <1>5, <3>1, <4>1, <5>1
      <4>2. CASE ~(i - 1 <= n) BY <3>1, <4>2
      <4> QED BY <4>1, <4>2
    <3>4. g[i - n] = Perform(g[(i - n) - 1], t[i - n]) BY <1>4, <3>1 DEF Trace
    <3> QED BY <3>1, <3>2, <3>3, <3>4
  <2> QED BY <1>1, <2>1, <2>2, <2>3
<1>7. Trace(w, u, n + m, h) BY <1>6 DEF Trace
<1>8. PICK k : Trace(w, u, n + m, k) /\ Run(w, u) = k[n + m]
  <2>1. Len(u) = n + m /\ n + m \in Nat BY <1>1, <1>2 DEF u
  <2>2. PICK k : Trace(w, u, Len(u), k) /\ Run(w, u) = k[Len(u)] BY <2>1, RunTraces
  <2> QED BY <2>1, <2>2
<1>9. n + m \in Nat /\ n + m <= n + m /\ n + m \in 0..(n + m) BY <1>1
<1>10. k[n + m] = h[n + m] BY <1>7, <1>8, <1>9, TracesAgree
<1>11. h[n + m] = g[m]
  <2>1. CASE m = 0 BY <1>1, <1>5, <1>9, <2>1
  <2>2. CASE m # 0
    <3>1. ~(n + m <= n) /\ (n + m) - n = m BY <1>1, <2>2
    <3> QED BY <1>9, <3>1
  <2> QED BY <2>1, <2>2
<1> QED BY <1>3, <1>4, <1>8, <1>10, <1>11 DEF u

-----------------------------------------------------------------------------
(* Programs of steps.                                                      *)

Places == Quotes \cup PoolQuotes \cup Tokens \cup {Lamports, "none"}

StepKinds ==
  [op : {"open", "let", "close"}, uses : SUBSET Places]
  \cup [op : {"move"}, uses : SUBSET Places, from : Places, to : Places]
  \cup [op : {"pay"}, uses : SUBSET Places, from : Places]

(* The accounts of O are open, the money is at p, no fault but those of F was met. *)
Sound(w, O, p, F) ==
  /\ w \in [open : SUBSET Places, money : {p}, faults : SUBSET F]
  /\ O \subseteq w.open

Leads(O, p, steps, O2, p2, F) ==
  /\ steps \in Seq(StepKinds)
  /\ \A w : Sound(w, O, p, F) => Sound(Run(w, steps), O2, p2, F)

LEMMA Nothing ==
  ASSUME NEW O, NEW p, NEW F
  PROVE  Leads(O, p, <<>>, O, p, F)
<1>1. <<>> \in Seq(StepKinds) OBVIOUS
<1> QED BY <1>1, RunNothing DEF Leads

LEMMA Onwards ==
  ASSUME NEW O, NEW p, NEW s, NEW O2, NEW p2, NEW t, NEW O3, NEW p3, NEW F,
         Leads(O, p, s, O2, p2, F), Leads(O2, p2, t, O3, p3, F)
  PROVE  Leads(O, p, s \o t, O3, p3, F)
<1>1. s \in Seq(StepKinds) /\ t \in Seq(StepKinds) BY DEF Leads
<1>2. s \o t \in Seq(StepKinds) BY <1>1
<1>3. ASSUME NEW w, Sound(w, O, p, F) PROVE Sound(Run(w, s \o t), O3, p3, F)
  <2>1. Sound(Run(w, s), O2, p2, F) BY <1>3 DEF Leads
  <2>2. Sound(Run(Run(w, s), t), O3, p3, F) BY <2>1 DEF Leads
  <2>3. Run(w, s \o t) = Run(Run(w, s), t) BY <1>1, RunConcat
  <2> QED BY <2>2, <2>3
<1> QED BY <1>2, <1>3 DEF Leads

(* Accounts may be forgotten. *)
LEMMA Fewer ==
  ASSUME NEW O, NEW p, NEW s, NEW O2, NEW p2, NEW F, NEW O3,
         Leads(O, p, s, O2, p2, F), O3 \subseteq O2
  PROVE  Leads(O, p, s, O3, p2, F)
BY DEF Leads, Sound

LEMMA OneStep ==
  ASSUME NEW O, NEW p, NEW step \in StepKinds, NEW O2, NEW p2, NEW F,
         \A w : Sound(w, O, p, F) => Sound(Perform(w, step), O2, p2, F)
  PROVE  Leads(O, p, <<step>>, O2, p2, F)
<1>1. <<step>> \in Seq(StepKinds) OBVIOUS
<1> QED BY <1>1, RunOne DEF Leads

LEMMA Opening ==
  ASSUME NEW O, NEW p, NEW F, NEW mints \in SUBSET Places
  PROVE  Leads(O, p, OpenATAs(mints), O \cup mints, p, F)
<1> DEFINE step == [op |-> "open", uses |-> mints]
<1>1. step \in StepKinds BY DEF StepKinds
<1>2. ASSUME NEW w, Sound(w, O, p, F) PROVE Sound(Perform(w, step), O \cup mints, p, F)
  <2>1. Perform(w, step) = [w EXCEPT !.open = @ \cup mints] BY DEF Perform
  <2> QED BY <1>2, <2>1 DEF Sound
<1> QED BY <1>1, <1>2, OneStep DEF OpenATAs

LEMMA Moving ==
  ASSUME NEW O, NEW F, NEW p \in Places, NEW q \in Places,
         \A x \in {p, q} \ O : <<"unopened", x>> \in F
  PROVE  Leads(O, p, Move(p, q), O, q, F)
<1> DEFINE step == [op |-> "move", uses |-> {p, q}, from |-> p, to |-> q]
<1>1. step \in StepKinds BY DEF StepKinds
<1>2. ASSUME NEW w, Sound(w, O, p, F) PROVE Sound(Perform(w, step), O, q, F)
  <2>1. w.money = p /\ O \subseteq w.open BY <1>2 DEF Sound
  <2>2. Faults(w, step) \subseteq F BY <2>1 DEF Faults
  <2>3. Perform(w, step) = [w EXCEPT !.money = q, !.faults = @ \cup Faults(w, step)] BY DEF Perform
  <2> HIDE DEF step
  <2> QED BY <1>2, <2>2, <2>3 DEF Sound
<1> QED BY <1>1, <1>2, OneStep DEF Move

LEMMA Paying ==
  ASSUME NEW O, NEW F, NEW p \in Places, NEW q \in Places,
         q \notin O => <<"unopened", q>> \in F, q # p => <<"pay", p>> \in F
  PROVE  Leads(O, p, Pay(q), O, p, F)
<1> DEFINE step == [op |-> "pay", uses |-> {q}, from |-> q]
<1>1. step \in StepKinds BY DEF StepKinds
<1>2. ASSUME NEW w, Sound(w, O, p, F) PROVE Sound(Perform(w, step), O, p, F)
  <2>1. w.money = p /\ O \subseteq w.open BY <1>2 DEF Sound
  <2>2. Faults(w, step) \subseteq F BY <2>1 DEF Faults
  <2>3. Perform(w, step) = [w EXCEPT !.faults = @ \cup Faults(w, step)] BY DEF Perform
  <2> HIDE DEF step
  <2> QED BY <1>2, <2>2, <2>3 DEF Sound
<1> QED BY <1>1, <1>2, OneStep DEF Pay

LEMMA Letting ==
  ASSUME NEW O, NEW F, NEW p, NEW q \in Places, q \in O
  PROVE  Leads(O, p, Let(q), O, p, F)
<1> DEFINE step == [op |-> "let", uses |-> {q}]
<1>1. step \in StepKinds BY DEF StepKinds
<1>2. ASSUME NEW w, Sound(w, O, p, F) PROVE Sound(Perform(w, step), O, p, F)
  <2>1. w.money = p /\ O \subseteq w.open BY <1>2 DEF Sound
  <2>2. Faults(w, step) \subseteq F BY <2>1 DEF Faults
  <2>3. Perform(w, step) = [w EXCEPT !.faults = @ \cup Faults(w, step)] BY DEF Perform
  <2> HIDE DEF step
  <2> QED BY <1>2, <2>2, <2>3 DEF Sound
<1> QED BY <1>1, <1>2, OneStep DEF Let

LEMMA Closing ==
  ASSUME NEW O, NEW F, NEW p \in Places, "wsol" \in O
  PROVE  Leads(O, p, CloseWSOL, O \ {"wsol"}, IF p = "wsol" THEN Lamports ELSE p, F)
<1> DEFINE step == [op |-> "close", uses |-> {"wsol"}]
           q == IF p = "wsol" THEN Lamports ELSE p
<1>1. step \in StepKinds BY DEF StepKinds, Places, Quotes
<1>2. ASSUME NEW w, Sound(w, O, p, F) PROVE Sound(Perform(w, step), O \ {"wsol"}, q, F)
  <2>1. w.money = p /\ O \subseteq w.open BY <1>2 DEF Sound
  <2>2. Faults(w, step) \subseteq F BY <2>1 DEF Faults
  <2>3. Perform(w, step) = [w EXCEPT !.open = @ \ {"wsol"}, !.faults = @ \cup Faults(w, step),
                                     !.money = IF @ = "wsol" THEN Lamports ELSE @]
    BY DEF Perform
  <2> HIDE DEF step
  <2> QED BY <1>2, <2>1, <2>2, <2>3 DEF Sound
<1> QED BY <1>1, <1>2, OneStep DEF CloseWSOL

(* Pieces that are taken on a condition. *)
LEMMA Taken ==
  ASSUME NEW O, NEW p, NEW s, NEW O2, NEW p2, NEW F, NEW c \in BOOLEAN,
         c => Leads(O, p, s, O2, p2, F), ~c => O2 \subseteq O /\ p2 = p
  PROVE  Leads(O, p, When(c, s), O2, p2, F)
<1>1. CASE c BY <1>1 DEF When
<1>2. CASE ~c
  <2>1. Leads(O, p, <<>>, O2, p2, F) BY <1>2, Nothing, Fewer
  <2> QED BY <1>2, <2>1 DEF When
<1> QED BY <1>1, <1>2

-----------------------------------------------------------------------------
(* The transactions an answer can hold.                                    *)

Landable(tx) ==
  /\ tx.sponsored \in BOOLEAN
  /\ tx.in = "wsol" => tx.inSettle \in {"native_sol", "wsol_spl"}
  /\ tx.out = "wsol" => tx.outSettle \in {"native_sol", "wsol_spl"}
  /\ tx.class \in {"settle", "quote", "buy", "sell", "swap"}
  /\ tx.class = "settle" => tx.in = "wsol" /\ tx.out = "wsol" /\ tx.inSettle # tx.outSettle
  /\ tx.class = "quote" =>
       /\ tx.in \in Quotes /\ tx.out \in Quotes /\ ~(tx.in = "wsol" /\ tx.out = "wsol")
       /\ tx.sponsored => tx.inSettle # "native_sol" /\ tx.out = "wsol"
  /\ tx.class = "buy" =>
       /\ tx.in \in Quotes /\ tx.out \in Tokens /\ tx.hops = (IF tx.in = tx.quote THEN 1 ELSE 2)
       /\ tx.hops = 1 => tx.inSettle # "wsol_spl"
  /\ tx.class = "sell" =>
       tx.in \in Tokens /\ tx.out \in Quotes /\ tx.hops = (IF tx.out = tx.quote THEN 1 ELSE 2)
  /\ tx.class = "swap" => tx.in \in Tokens /\ tx.out \in Tokens
  /\ tx.class \in {"buy", "sell", "swap"} =>
       tx.quote \in Quotes \cup PoolQuotes /\ (tx.sponsored => tx.quote = "wsol")

(* The faults that the properties know of. *)
Known(tx) ==
  { f \in {"unopened"} \X {tx.quote} : tx.class = "sell" /\ tx.hops = 1 }
  \cup { f \in {"pay"} \X Places : tx.class = "buy" /\ tx.inSettle = "wsol_spl" /\ ~tx.sponsored }

Home(tx) == {Lamports, PaidFrom(tx)}

Delivered(tx) == IF SoldForSOL(tx) THEN Lamports ELSE AskedAt(tx)

LEMMA SomePlaces ==
  /\ Lamports \in Places /\ "wsol" \in Places /\ Quotes \subseteq Places /\ Tokens \subseteq Places
  /\ Quotes \cup PoolQuotes \subseteq Places /\ \A q \in Places : AtPool(q) \in Places
BY DEF Places, Quotes, Tokens, AtPool

-----------------------------------------------------------------------------
(* The pieces that several plans have.                                     *)

LEMMA Repaying ==
  ASSUME NEW tx, tx.sponsored \in BOOLEAN, NEW O, NEW p, NEW F, Lamports \in O,
         tx.sponsored => p = Lamports
  PROVE  Leads(O, p, Repay(tx), O, p, F)
<1>1. tx.sponsored => Leads(O, p, Pay(Lamports), O, p, F) BY SomePlaces, Paying
<1> QED BY <1>1, Taken DEF Repay

LEMMA OpeningByUser ==
  ASSUME NEW tx, tx.sponsored \in BOOLEAN, NEW O, NEW p, NEW F, NEW mints \in SUBSET Places,
         NEW O2, O2 \subseteq O \cup (IF tx.sponsored THEN {} ELSE mints)
  PROVE  Leads(O, p, OpenedByUser(tx, mints), O2, p, F)
<1>1. ~tx.sponsored => Leads(O, p, OpenATAs(mints), O2, p, F)
  <2>1. Leads(O, p, OpenATAs(mints), O \cup mints, p, F) BY Opening
  <2> QED BY <2>1, Fewer
<1>2. (~tx.sponsored) \in BOOLEAN /\ (tx.sponsored => O2 \subseteq O) OBVIOUS
<1> QED BY <1>1, <1>2, Taken DEF OpenedByUser

LEMMA OpeningBySponsor ==
  ASSUME NEW tx, tx.sponsored \in BOOLEAN, NEW O, NEW p, NEW F, NEW mints \in SUBSET Places,
         NEW O2, O2 \subseteq O \cup (IF tx.sponsored THEN mints ELSE {})
  PROVE  Leads(O, p, OpenedBySponsor(tx, mints), O2, p, F)
<1>1. tx.sponsored => Leads(O, p, OpenATAs(mints), O2, p, F)
  <2>1. Leads(O, p, OpenATAs(mints), O \cup mints, p, F) BY Opening
  <2> QED BY <2>1, Fewer
<1>2. ~tx.sponsored => O2 \subseteq O OBVIOUS
<1> QED BY <1>1, <1>2, Taken DEF OpenedBySponsor

LEMMA SellingForNet ==
  ASSUME NEW tx, tx.sponsored \in BOOLEAN, tx.in \in Places, tx.quote \in Places,
         NEW O, NEW F, {Lamports, tx.in, AtPool(tx.quote)} \subseteq O,
         tx.sponsored => tx.quote = "wsol"
  PROVE  Leads(O, tx.in, SellForNet(tx), O, AtPool(tx.quote), F)
<1> DEFINE a == AtPool(tx.quote)
<1>1. a \in Places /\ a \in O BY SomePlaces
<1>2. tx.sponsored => a = Lamports BY DEF AtPool
<1> HIDE DEF a
<1>3. Leads(O, tx.in, Let(a), O, tx.in, F) BY <1>1, Letting
<1>4. Leads(O, tx.in, Move(tx.in, a), O, a, F) BY <1>1, Moving
<1>5. Leads(O, a, Let(a), O, a, F) BY <1>1, Letting
<1>6. Leads(O, a, Pay(a), O, a, F) BY <1>1, Paying
<1>7. Leads(O, a, Repay(tx), O, a, F) BY <1>2, Repaying
<1>8. Leads(O, tx.in, Let(a) \o Move(tx.in, a), O, a, F) BY <1>3, <1>4, Onwards
<1>9. Leads(O, tx.in, Let(a) \o Move(tx.in, a) \o Let(a), O, a, F) BY <1>5, <1>8, Onwards
<1>10. Leads(O, tx.in, Let(a) \o Move(tx.in, a) \o Let(a) \o Pay(a), O, a, F)
  BY <1>6, <1>9, Onwards
<1>11. Leads(O, tx.in, Let(a) \o Move(tx.in, a) \o Let(a) \o Pay(a) \o Repay(tx), O, a, F)
  BY <1>7, <1>10, Onwards
<1> QED BY <1>11 DEF SellForNet, a

-----------------------------------------------------------------------------
(* The plans.                                                              *)

LEMMA UnwrapRuns ==
  ASSUME NEW tx, Landable(tx), tx.class = "settle", tx.outSettle = "native_sol", NEW F
  PROVE  Leads({Lamports, "wsol"}, "wsol", Unwrap(tx), {Lamports}, Lamports, F)
<1> DEFINE O == {Lamports, "wsol"}
           drain == IF tx.mode = "close" THEN CloseWSOL ELSE Move("wsol", Lamports)
<1>1. Lamports \in Places /\ "wsol" \in Places /\ tx.sponsored \in BOOLEAN
  BY SomePlaces DEF Landable
<1>2. Leads(O, "wsol", Let("wsol"), O, "wsol", F) BY <1>1, Letting
<1>3. Leads(O, "wsol", drain, {Lamports}, Lamports, F)
  <2>1. Leads(O, "wsol", CloseWSOL, O \ {"wsol"}, Lamports, F)
    <3>1. (IF "wsol" = "wsol" THEN Lamports ELSE "wsol") = Lamports OBVIOUS
    <3>2. Leads(O, "wsol", CloseWSOL, O \ {"wsol"}, IF "wsol" = "wsol" THEN Lamports ELSE "wsol", F)
      BY <1>1, Closing
    <3> QED BY <3>1, <3>2
  <2>2. {Lamports} \subseteq O \ {"wsol"} /\ {Lamports} \subseteq O BY DEF Lamports
  <2>3. Leads(O, "wsol", Move("wsol", Lamports), O, Lamports, F) BY <1>1, Moving
  <2>4. /\ Leads(O, "wsol", CloseWSOL, {Lamports}, Lamports, F)
        /\ Leads(O, "wsol", Move("wsol", Lamports), {Lamports}, Lamports, F)
    BY <2>1, <2>2, <2>3, Fewer
  <2> QED BY <2>4
<1>4. Leads({Lamports}, Lamports, Repay(tx), {Lamports}, Lamports, F) BY <1>1, Repaying
<1> HIDE DEF drain
<1>5. Leads(O, "wsol", Let("wsol") \o drain, {Lamports}, Lamports, F) BY <1>2, <1>3, Onwards
<1>6. Leads(O, "wsol", Let("wsol") \o drain \o Repay(tx), {Lamports}, Lamports, F)
  BY <1>4, <1>5, Onwards
<1> QED BY <1>6 DEF Unwrap, drain

LEMMA WrapRuns ==
  ASSUME NEW F
  PROVE  Leads({Lamports}, Lamports, WrapSOL, {Lamports, "wsol"}, "wsol", F)
<1>1. Lamports \in Places /\ "wsol" \in Places BY SomePlaces
<1>2. Leads({Lamports}, Lamports, OpenATAs({"wsol"}), {Lamports} \cup {"wsol"}, Lamports, F)
  BY <1>1, Opening
<1>3. {Lamports} \cup {"wsol"} = {Lamports, "wsol"} OBVIOUS
<1>4. Leads({Lamports, "wsol"}, Lamports, Wrap, {Lamports, "wsol"}, "wsol", F)
  BY <1>1, Moving DEF Wrap
<1> QED BY <1>2, <1>3, <1>4, Onwards DEF WrapSOL

(* The money that is paid with, wrapped where a hop needs the token. *)
LEMMA Wrapping ==
  ASSUME NEW tx, Landable(tx), tx.in \in Quotes, NEW O, NEW F, Home(tx) \subseteq O,
         WrapsForBridge(tx) => "wsol" \in O
  PROVE  Leads(O, PaidFrom(tx), When(WrapsForBridge(tx), Wrap), O, tx.in, F)
<1>1. WrapsForBridge(tx) \in BOOLEAN BY DEF WrapsForBridge
<1>2. WrapsForBridge(tx) => PaidFrom(tx) = Lamports /\ tx.in = "wsol"
  BY DEF WrapsForBridge, PaidFrom
<1>3. ~WrapsForBridge(tx) => PaidFrom(tx) = tx.in BY DEF WrapsForBridge, PaidFrom
<1>4. WrapsForBridge(tx) => Leads(O, Lamports, Wrap, O, "wsol", F)
  BY SomePlaces, Moving DEF Wrap, Home
<1> QED BY <1>1, <1>2, <1>3, <1>4, Taken

(* WSOL that was bought is unwrapped where native SOL was asked for. *)
LEMMA Unwrapping ==
  ASSUME NEW tx, Landable(tx), tx.out \in Quotes, NEW O, NEW F, {Lamports, tx.out} \subseteq O
  PROVE  Leads(O, tx.out, When(WantsNative(tx), CloseWSOL), {Lamports}, AskedAt(tx), F)
<1>1. WantsNative(tx) \in BOOLEAN BY DEF WantsNative
<1>2. WantsNative(tx) => tx.out = "wsol" /\ AskedAt(tx) = Lamports BY DEF WantsNative, AskedAt
<1>3. ~WantsNative(tx) => tx.out = AskedAt(tx) BY DEF AskedAt
<1>4. WantsNative(tx) => Leads(O, tx.out, CloseWSOL, O \ {"wsol"}, AskedAt(tx), F)
  <2> SUFFICES ASSUME WantsNative(tx) PROVE Leads(O, tx.out, CloseWSOL, O \ {"wsol"}, AskedAt(tx), F)
    OBVIOUS
  <2>1. tx.out = "wsol" /\ AskedAt(tx) = Lamports /\ tx.out \in Places /\ "wsol" \in O
    BY <1>2, SomePlaces
  <2>2. Leads(O, tx.out, CloseWSOL, O \ {"wsol"}, IF tx.out = "wsol" THEN Lamports ELSE tx.out, F)
    BY <2>1, Closing
  <2> QED BY <2>1, <2>2
<1>5. {Lamports} \subseteq O \ {"wsol"} /\ {Lamports} \subseteq O BY DEF Lamports
<1>6. WantsNative(tx) => Leads(O, tx.out, CloseWSOL, {Lamports}, AskedAt(tx), F)
  BY <1>4, <1>5, Fewer
<1> QED BY <1>1, <1>3, <1>5, <1>6, Taken

LEMMA QuoteSwapRuns ==
  ASSUME NEW tx, Landable(tx), tx.class = "quote", NEW F
  PROVE  \E O : Leads(Home(tx), PaidFrom(tx), QuoteSwap(tx), O, AskedAt(tx), F)
<1> DEFINE m == {tx.in, tx.out}
           H == Home(tx)
           U == H \cup (IF tx.sponsored THEN {} ELSE m)
           V == U \cup (IF tx.sponsored THEN m ELSE {})
           p == PaidFrom(tx)
<1>1. /\ tx.sponsored \in BOOLEAN /\ tx.in \in Quotes /\ tx.out \in Quotes
      /\ tx.sponsored => tx.inSettle # "native_sol" /\ tx.out = "wsol"
      /\ tx.in = "wsol" => tx.inSettle \in {"native_sol", "wsol_spl"}
  BY DEF Landable
<1>2. m \in SUBSET Places /\ tx.in \in Places /\ tx.out \in Places BY <1>1, SomePlaces
<1>4. WrapsForBridge(tx) => "wsol" \in U BY <1>1 DEF WrapsForBridge
<1>5. H \subseteq U /\ H \subseteq V /\ m \subseteq V /\ Lamports \in V BY DEF Home
<1> HIDE DEF m, H, U, V, p
<1>3. Leads(H, p, OpenedByUser(tx, m), U, p, F) BY <1>1, <1>2, OpeningByUser DEF U
<1>6. Leads(U, p, When(WrapsForBridge(tx), Wrap), U, tx.in, F)
  BY <1>1, <1>4, <1>5, Wrapping DEF H, p
<1>7. Leads(U, tx.in, OpenedBySponsor(tx, m), V, tx.in, F) BY <1>1, <1>2, OpeningBySponsor DEF V
<1>8. Leads(V, tx.in, Move(tx.in, tx.out), V, tx.out, F) BY <1>2, <1>5, Moving DEF m
<1>9. Leads(V, tx.out, RepayFromBridge(tx), {Lamports}, AskedAt(tx), F)
  <2>1. CASE WantsNative(tx)
    <3>1. Leads(V, tx.out, When(WantsNative(tx), CloseWSOL), {Lamports}, AskedAt(tx), F)
      BY <1>1, <1>5, Unwrapping DEF m
    <3>2. When(WantsNative(tx), CloseWSOL) = CloseWSOL BY <2>1 DEF When
    <3>3. AskedAt(tx) = Lamports BY <2>1 DEF AskedAt
    <3>4. Leads({Lamports}, AskedAt(tx), Repay(tx), {Lamports}, AskedAt(tx), F)
      BY <1>1, <3>3, Repaying
    <3>5. Leads(V, tx.out, CloseWSOL, {Lamports}, AskedAt(tx), F) BY <3>1, <3>2
    <3>6. Leads(V, tx.out, CloseWSOL \o Repay(tx), {Lamports}, AskedAt(tx), F)
      BY <3>4, <3>5, Onwards
    <3> QED BY <2>1, <3>6 DEF RepayFromBridge
  <2>2. CASE ~WantsNative(tx)
    <3>1. AskedAt(tx) = tx.out BY <2>2 DEF AskedAt
    <3>2. tx.sponsored => Leads(V, tx.out, Let("wsol") \o Pay("wsol"), V, tx.out, F)
      <4> SUFFICES ASSUME tx.sponsored PROVE Leads(V, tx.out, Let("wsol") \o Pay("wsol"), V, tx.out, F)
        OBVIOUS
      <4>1. tx.out = "wsol" /\ "wsol" \in V /\ "wsol" \in Places BY <1>1, <1>5, SomePlaces DEF m
      <4>2. Leads(V, tx.out, Let("wsol"), V, tx.out, F) BY <4>1, Letting
      <4>3. Leads(V, tx.out, Pay("wsol"), V, tx.out, F) BY <4>1, Paying
      <4> QED BY <4>2, <4>3, Onwards
    <3>3. Leads(V, tx.out, When(tx.sponsored, Let("wsol") \o Pay("wsol")), V, tx.out, F)
      BY <1>1, <3>2, Taken
    <3>4. Leads(V, tx.out, When(tx.sponsored, Let("wsol") \o Pay("wsol")), {Lamports}, tx.out, F)
      BY <1>5, <3>3, Fewer
    <3> QED BY <2>2, <3>1, <3>4 DEF RepayFromBridge
  <2> QED BY <2>1, <2>2
<1>10. Leads(H, p, OpenedByUser(tx, m) \o When(WrapsForBridge(tx), Wrap), U, tx.in, F)
  BY <1>3, <1>6, Onwards
<1>11. Leads(H, p, OpenedByUser(tx, m) \o When(WrapsForBridge(tx), Wrap) \o OpenedBySponsor(tx, m),
             V, tx.in, F)
  BY <1>7, <1>10, Onwards
<1>12. Leads(H, p, OpenedByUser(tx, m) \o When(WrapsForBridge(tx), Wrap) \o OpenedBySponsor(tx, m)
                   \o Move(tx.in, tx.out), V, tx.out, F)
  BY <1>8, <1>11, Onwards
<1>13. Leads(H, p, OpenedByUser(tx, m) \o When(WrapsForBridge(tx), Wrap) \o OpenedBySponsor(tx, m)
                   \o Move(tx.in, tx.out) \o RepayFromBridge(tx), {Lamports}, AskedAt(tx), F)
  BY <1>9, <1>12, Onwards
<1> QED BY <1>13 DEF QuoteSwap, m, H, p

LEMMA BuyForSOLRuns ==
  ASSUME NEW tx, Landable(tx), tx.class = "buy", tx.hops = 1, tx.quote = "wsol", NEW F
  PROVE  \E O : Leads(Home(tx), PaidFrom(tx), BuyForSOL(tx), O, AskedAt(tx), F)
<1> DEFINE m == {tx.out}
           H == {Lamports}
           U == H \cup (IF tx.sponsored THEN {} ELSE m)
           V == {Lamports, tx.out}
<1>1. tx.sponsored \in BOOLEAN /\ tx.in = "wsol" /\ tx.out \in Tokens /\ tx.inSettle = "native_sol"
  BY DEF Landable
<1>2. Home(tx) = H /\ PaidFrom(tx) = Lamports BY <1>1 DEF Home, PaidFrom
<1>3. AskedAt(tx) = tx.out BY <1>1 DEF AskedAt, WantsNative, Tokens
<1>4. m \in SUBSET Places /\ tx.out \in Places /\ Lamports \in Places BY <1>1, SomePlaces
<1>5. Lamports \in U /\ Lamports \in V /\ tx.out \in V
      /\ V \subseteq U \cup (IF tx.sponsored THEN m ELSE {})
  OBVIOUS
<1> HIDE DEF m, H, U, V
<1>6. Leads(H, Lamports, OpenedByUser(tx, m), U, Lamports, F) BY <1>1, <1>4, OpeningByUser DEF U
<1>7. Leads(U, Lamports, Pay(Lamports), U, Lamports, F) BY <1>4, <1>5, Paying
<1>8. Leads(U, Lamports, OpenedBySponsor(tx, m), V, Lamports, F)
  BY <1>1, <1>4, <1>5, OpeningBySponsor
<1>9. Leads(V, Lamports, Repay(tx), V, Lamports, F) BY <1>1, <1>5, Repaying
<1>10. Leads(V, Lamports, Move(Lamports, tx.out), V, tx.out, F) BY <1>4, <1>5, Moving
<1>11. Leads(H, Lamports, OpenedByUser(tx, m) \o Pay(Lamports), U, Lamports, F)
  BY <1>6, <1>7, Onwards
<1>12. Leads(H, Lamports, OpenedByUser(tx, m) \o Pay(Lamports) \o OpenedBySponsor(tx, m), V, Lamports, F)
  BY <1>8, <1>11, Onwards
<1>13. Leads(H, Lamports, OpenedByUser(tx, m) \o Pay(Lamports) \o OpenedBySponsor(tx, m) \o Repay(tx),
             V, Lamports, F)
  BY <1>9, <1>12, Onwards
<1>14. Leads(H, Lamports, OpenedByUser(tx, m) \o Pay(Lamports) \o OpenedBySponsor(tx, m) \o Repay(tx)
                          \o Move(Lamports, tx.out), V, tx.out, F)
  BY <1>10, <1>13, Onwards
<1> QED BY <1>2, <1>3, <1>14 DEF BuyForSOL, m

LEMMA BuyForSPLRuns ==
  ASSUME NEW tx, Landable(tx), tx.class = "buy", tx.hops = 1, tx.quote # "wsol", NEW F
  PROVE  \E O : Leads(Home(tx), PaidFrom(tx), BuyForSPL(tx), O, AskedAt(tx), F)
<1> DEFINE m == {tx.out, tx.quote}
           V == Home(tx) \cup m
<1>1. tx.in = tx.quote /\ tx.out \in Tokens /\ tx.quote \in Quotes \cup PoolQuotes BY DEF Landable
<1>2. PaidFrom(tx) = tx.quote /\ AskedAt(tx) = tx.out
  BY <1>1 DEF PaidFrom, AskedAt, WantsNative, Tokens
<1>3. m \in SUBSET Places /\ tx.out \in Places /\ tx.quote \in Places BY <1>1, SomePlaces
<1>4. m \subseteq V OBVIOUS
<1>5. Leads(Home(tx), tx.quote, OpenATAs(m), V, tx.quote, F) BY <1>3, Opening
<1> HIDE DEF V
<1>6. Leads(V, tx.quote, Pay(tx.quote), V, tx.quote, F) BY <1>3, <1>4, Paying
<1>7. Leads(V, tx.quote, Move(tx.quote, tx.out), V, tx.out, F) BY <1>3, <1>4, Moving
<1> HIDE DEF m
<1>8. Leads(Home(tx), tx.quote, OpenATAs(m) \o Pay(tx.quote), V, tx.quote, F) BY <1>5, <1>6, Onwards
<1>9. Leads(Home(tx), tx.quote, OpenATAs(m) \o Pay(tx.quote) \o Move(tx.quote, tx.out), V, tx.out, F)
  BY <1>7, <1>8, Onwards
<1> QED BY <1>2, <1>9 DEF BuyForSPL, m

LEMMA BridgeThenBuyRuns ==
  ASSUME NEW tx, Landable(tx), tx.class = "buy", tx.hops = 2
  PROVE  \E O : Leads(Home(tx), PaidFrom(tx), BridgeThenBuy(tx), O, AskedAt(tx), Known(tx))
<1> DEFINE m == BridgeThenBuyATAs(tx)
           F == Known(tx)
           H == Home(tx)
           U == H \cup (IF tx.sponsored THEN {} ELSE m)
           V == H \cup m
           W == IF tx.quote = "wsol" THEN V \ {"wsol"} ELSE V
           p == PaidFrom(tx)
           a == AtPool(tx.quote)
           q == tx.quote
           c == tx.quote = "wsol"
<1>1. /\ tx.sponsored \in BOOLEAN /\ tx.in \in Quotes /\ tx.out \in Tokens /\ tx.in # q
      /\ q \in Quotes \cup PoolQuotes /\ (tx.sponsored => q = "wsol")
      /\ tx.in = "wsol" => tx.inSettle \in {"native_sol", "wsol_spl"}
  BY DEF Landable
<1>2. m = {tx.in, q, tx.out} BY DEF BridgeThenBuyATAs
<1>3. /\ m \in SUBSET Places /\ tx.in \in Places /\ q \in Places /\ tx.out \in Places
      /\ a \in Places /\ Lamports \in Places /\ AtPool(tx.in) \in Places /\ p \in Places
  BY <1>1, <1>2, SomePlaces DEF PaidFrom
<1>4. AskedAt(tx) = tx.out BY <1>1 DEF AskedAt, WantsNative, Tokens
<1>5. V \subseteq U \cup (IF tx.sponsored THEN m ELSE {}) OBVIOUS
<1>6. Lamports \in U /\ p \in U /\ H \subseteq U BY DEF Home
<1>7. tx.in \in V /\ q \in V /\ tx.out \in V /\ Lamports \in V BY <1>2 DEF Home
<1>8. W \subseteq V /\ a \in W /\ Lamports \in W /\ tx.out \in W
  BY <1>1, <1>7 DEF AtPool, Lamports, Tokens
<1>9. WrapsForBridge(tx) => "wsol" \in U BY <1>1, <1>2 DEF WrapsForBridge
<1> HIDE DEF m, F, H, U, V, W, p, a, q
<1>10. Leads(H, p, OpenedByUser(tx, m), U, p, F) BY <1>1, <1>3, OpeningByUser DEF U
<1>11. Leads(U, p, Pay(AtPool(tx.in)), U, p, F)
  <2>1. AtPool(tx.in) \in U
    <3>1. CASE tx.in = "wsol" BY <1>6, <3>1 DEF AtPool
    <3>2. CASE tx.in # "wsol" BY <1>6, <3>2 DEF AtPool, PaidFrom, p
    <3> QED BY <3>1, <3>2
  <2>2. AtPool(tx.in) # p => <<"pay", p>> \in F
    <3> SUFFICES ASSUME AtPool(tx.in) # p PROVE <<"pay", p>> \in F OBVIOUS
    <3>1. tx.in = "wsol" /\ tx.inSettle = "wsol_spl" BY DEF AtPool, PaidFrom, p
    <3>2. ~tx.sponsored BY <1>1, <3>1
    <3> QED BY <1>3, <3>1, <3>2 DEF Known, F
  <2> QED BY <1>3, <2>1, <2>2, Paying
<1>12. Leads(U, p, When(WrapsForBridge(tx), Wrap), U, tx.in, F)
  BY <1>1, <1>6, <1>9, Wrapping DEF H, p
<1>13. Leads(U, tx.in, OpenedBySponsor(tx, m), V, tx.in, F) BY <1>1, <1>3, <1>5, OpeningBySponsor
<1>14. Leads(V, tx.in, Let(q), V, tx.in, F) BY <1>3, <1>7, Letting
<1>15. Leads(V, tx.in, Move(tx.in, q), V, q, F) BY <1>3, <1>7, Moving
<1>16. Leads(V, q, Let(q), V, q, F) BY <1>3, <1>7, Letting
<1>17. Leads(V, q, When(c, CloseWSOL), W, a, F)
  <2>1. CASE c
    <3>1. "wsol" \in V /\ q = "wsol" BY <1>7, <2>1 DEF q
    <3>2. Leads(V, q, CloseWSOL, V \ {"wsol"}, IF q = "wsol" THEN Lamports ELSE q, F)
      BY <1>3, <3>1, Closing
    <3>3. W = V \ {"wsol"} /\ a = Lamports BY <2>1 DEF W, a, AtPool
    <3>4. Leads(V, q, CloseWSOL, W, a, F) BY <3>1, <3>2, <3>3
    <3> QED BY <2>1, <3>4, Taken
  <2>2. CASE ~c
    <3>1. W = V /\ a = q BY <2>2 DEF W, a, AtPool, q
    <3>2. Leads(V, q, <<>>, W, a, F) BY <3>1, Nothing
    <3> QED BY <2>2, <3>2 DEF When
  <2> QED BY <2>1, <2>2
<1>18. Leads(W, a, Repay(tx), W, a, F)
  <2>1. tx.sponsored => a = Lamports BY <1>1 DEF a, AtPool, q
  <2> QED BY <1>1, <1>8, <2>1, Repaying
<1>19. Leads(W, a, Move(a, tx.out), W, tx.out, F) BY <1>3, <1>8, Moving
<1> HIDE DEF c
<1> DEFINE s1 == OpenedByUser(tx, m) \o Pay(AtPool(tx.in))
           s2 == s1 \o When(WrapsForBridge(tx), Wrap)
           s3 == s2 \o OpenedBySponsor(tx, m)
           s4 == s3 \o Let(q)
           s5 == s4 \o Move(tx.in, q)
           s6 == s5 \o Let(q)
           s7 == s6 \o When(c, CloseWSOL)
           s8 == s7 \o Repay(tx)
           s9 == s8 \o Move(a, tx.out)
<1>20. BridgeThenBuy(tx) = s9 BY DEF BridgeThenBuy, m, q, c, a
<1> HIDE DEF s1, s2, s3, s4, s5, s6, s7, s8, s9
<1>21. Leads(H, p, s1, U, p, F) BY <1>10, <1>11, Onwards DEF s1
<1>22. Leads(H, p, s2, U, tx.in, F) BY <1>12, <1>21, Onwards DEF s2
<1>23. Leads(H, p, s3, V, tx.in, F) BY <1>13, <1>22, Onwards DEF s3
<1>24. Leads(H, p, s4, V, tx.in, F) BY <1>14, <1>23, Onwards DEF s4
<1>25. Leads(H, p, s5, V, q, F) BY <1>15, <1>24, Onwards DEF s5
<1>26. Leads(H, p, s6, V, q, F) BY <1>16, <1>25, Onwards DEF s6
<1>27. Leads(H, p, s7, W, a, F) BY <1>17, <1>26, Onwards DEF s7
<1>28. Leads(H, p, s8, W, a, F) BY <1>18, <1>27, Onwards DEF s8
<1>29. Leads(H, p, s9, W, tx.out, F) BY <1>19, <1>28, Onwards DEF s9
<1> QED BY <1>4, <1>20, <1>29 DEF H, p, F

LEMMA SellForSPLRuns ==
  ASSUME NEW tx, Landable(tx), tx.class = "sell", tx.hops = 1, tx.quote # "wsol"
  PROVE  \E O : Leads(Home(tx), PaidFrom(tx), SellForSPL(tx), O, Delivered(tx), Known(tx))
<1> DEFINE H == Home(tx)
           F == Known(tx)
           q == tx.quote
<1>1. tx.in \in Tokens /\ tx.out = q /\ q \in Quotes BY DEF Landable
<1>2. PaidFrom(tx) = tx.in /\ Delivered(tx) = q
  BY <1>1 DEF PaidFrom, Delivered, SoldForSOL, AskedAt, WantsNative, Tokens
<1>3. tx.in \in Places /\ q \in Places /\ tx.in \in H BY <1>1, <1>2, SomePlaces DEF Home
<1>4. <<"unopened", q>> \in F BY DEF Known
<1> HIDE DEF H, F, q
<1>5. Leads(H, tx.in, Move(tx.in, q), H, q, F) BY <1>3, <1>4, Moving
<1>6. Leads(H, q, Pay(q), H, q, F) BY <1>3, <1>4, Paying
<1>7. Leads(H, tx.in, Move(tx.in, q) \o Pay(q), H, q, F) BY <1>5, <1>6, Onwards
<1> QED BY <1>2, <1>7 DEF SellForSPL, H, F, q

LEMMA SellForSOLRuns ==
  ASSUME NEW tx, Landable(tx), tx.class = "sell", tx.hops = 1, tx.quote = "wsol", NEW F
  PROVE  \E O : Leads(Home(tx), PaidFrom(tx), SellForNet(tx), O, Delivered(tx), F)
<1>1. tx.in \in Tokens /\ tx.sponsored \in BOOLEAN BY DEF Landable
<1>2. PaidFrom(tx) = tx.in /\ Delivered(tx) = Lamports /\ AtPool(tx.quote) = Lamports
  BY <1>1 DEF PaidFrom, Delivered, SoldForSOL, Tokens, AtPool
<1>3. tx.in \in Places /\ tx.quote \in Places BY <1>1, SomePlaces
<1>4. {Lamports, tx.in, AtPool(tx.quote)} \subseteq Home(tx) BY <1>2 DEF Home
<1>5. Leads(Home(tx), tx.in, SellForNet(tx), Home(tx), AtPool(tx.quote), F)
  BY <1>1, <1>3, <1>4, SellingForNet
<1> QED BY <1>2, <1>5

LEMMA SellThenBridgeRuns ==
  ASSUME NEW tx, Landable(tx), tx.class = "sell", tx.hops = 2, NEW F
  PROVE  \E O : Leads(Home(tx), PaidFrom(tx), SellThenBridge(tx), O, AskedAt(tx), F)
<1> DEFINE q == tx.quote
           m == {q, tx.out}
           H == Home(tx)
           U == H \cup (IF tx.sponsored THEN {} ELSE m)
           V == H \cup m
           a == AtPool(q)
           c == q = "wsol"
<1>1. /\ tx.sponsored \in BOOLEAN /\ tx.in \in Tokens /\ tx.out \in Quotes
      /\ q \in Quotes \cup PoolQuotes /\ (tx.sponsored => q = "wsol")
  BY DEF Landable
<1>2. PaidFrom(tx) = tx.in BY <1>1 DEF PaidFrom, Tokens
<1>3. /\ m \in SUBSET Places /\ tx.in \in Places /\ q \in Places /\ tx.out \in Places
      /\ a \in Places /\ Lamports \in Places
  BY <1>1, SomePlaces
<1>4. /\ V \subseteq U \cup (IF tx.sponsored THEN m ELSE {})
      /\ {Lamports, tx.in} \subseteq V /\ q \in V /\ tx.out \in V
  BY <1>2 DEF Home
<1>5. a \in V BY <1>4 DEF AtPool
<1> HIDE DEF m, H, U, V, a, q
<1>6. Leads(H, tx.in, OpenedByUser(tx, m), U, tx.in, F) BY <1>1, <1>3, OpeningByUser DEF U
<1>7. Leads(U, tx.in, OpenedBySponsor(tx, m), V, tx.in, F) BY <1>1, <1>3, <1>4, OpeningBySponsor
<1>8. Leads(V, tx.in, SellForNet(tx), V, a, F) BY <1>1, <1>3, <1>4, <1>5, SellingForNet DEF a, q
<1>9. Leads(V, a, When(c, Wrap), V, q, F)
  <2>1. CASE c
    <3>1. a = Lamports /\ q = "wsol" BY <2>1 DEF a, AtPool
    <3>2. Leads(V, a, Wrap, V, q, F) BY <1>3, <1>4, <3>1, Moving DEF Wrap
    <3> QED BY <2>1, <3>2 DEF When
  <2>2. CASE ~c
    <3>1. a = q BY <2>2 DEF a, AtPool
    <3>2. Leads(V, a, <<>>, V, q, F) BY <3>1, Nothing
    <3> QED BY <2>2, <3>2 DEF When
  <2> QED BY <2>1, <2>2
<1>10. Leads(V, q, Move(q, tx.out), V, tx.out, F) BY <1>3, <1>4, Moving
<1>11. Leads(V, tx.out, SettleSale(tx), {Lamports}, AskedAt(tx), F)
  BY <1>1, <1>4, Unwrapping DEF SettleSale
<1> HIDE DEF c
<1> DEFINE s1 == OpenedByUser(tx, m) \o OpenedBySponsor(tx, m)
           s2 == s1 \o SellForNet(tx)
           s3 == s2 \o When(c, Wrap)
           s4 == s3 \o Move(q, tx.out)
           s5 == s4 \o SettleSale(tx)
<1>12. SellThenBridge(tx) = s5 BY DEF SellThenBridge, m, q, c
<1> HIDE DEF s1, s2, s3, s4, s5
<1>13. Leads(H, tx.in, s1, V, tx.in, F) BY <1>6, <1>7, Onwards DEF s1
<1>14. Leads(H, tx.in, s2, V, a, F) BY <1>8, <1>13, Onwards DEF s2
<1>15. Leads(H, tx.in, s3, V, q, F) BY <1>9, <1>14, Onwards DEF s3
<1>16. Leads(H, tx.in, s4, V, tx.out, F) BY <1>10, <1>15, Onwards DEF s4
<1>17. Leads(H, tx.in, s5, {Lamports}, AskedAt(tx), F) BY <1>11, <1>16, Onwards DEF s5
<1> QED BY <1>2, <1>12, <1>17 DEF H

LEMMA SellThenBuyRuns ==
  ASSUME NEW tx, Landable(tx), tx.class = "swap", NEW F
  PROVE  \E O : Leads(Home(tx), PaidFrom(tx), SellThenBuy(tx), O, AskedAt(tx), F)
<1> DEFINE q == tx.quote
           m == {tx.out} \cup ({q} \ {"wsol"})
           H == Home(tx)
           U == H \cup (IF tx.sponsored THEN {} ELSE m)
           V == H \cup m
           a == AtPool(q)
<1>1. /\ tx.sponsored \in BOOLEAN /\ tx.in \in Tokens /\ tx.out \in Tokens
      /\ q \in Quotes \cup PoolQuotes /\ (tx.sponsored => q = "wsol")
  BY DEF Landable
<1>2. PaidFrom(tx) = tx.in /\ AskedAt(tx) = tx.out
  BY <1>1 DEF PaidFrom, AskedAt, WantsNative, Tokens
<1>3. /\ m \in SUBSET Places /\ tx.in \in Places /\ q \in Places /\ tx.out \in Places
      /\ a \in Places /\ Lamports \in Places
  BY <1>1, SomePlaces
<1>4. /\ V \subseteq U \cup (IF tx.sponsored THEN m ELSE {})
      /\ {Lamports, tx.in} \subseteq V /\ tx.out \in V
  BY <1>2 DEF Home
<1>5. a \in V BY <1>4 DEF AtPool
<1> HIDE DEF m, H, U, V, a, q
<1>6. Leads(H, tx.in, OpenedByUser(tx, m), U, tx.in, F) BY <1>1, <1>3, OpeningByUser DEF U
<1>7. Leads(U, tx.in, OpenedBySponsor(tx, m), V, tx.in, F) BY <1>1, <1>3, <1>4, OpeningBySponsor
<1>8. Leads(V, tx.in, SellForNet(tx), V, a, F) BY <1>1, <1>3, <1>4, <1>5, SellingForNet DEF a, q
<1>9. Leads(V, a, Move(a, tx.out), V, tx.out, F) BY <1>3, <1>4, <1>5, Moving
<1> DEFINE s1 == OpenedByUser(tx, m) \o OpenedBySponsor(tx, m)
           s2 == s1 \o SellForNet(tx)
           s3 == s2 \o Move(a, tx.out)
<1>10. SellThenBuy(tx) = s3 BY DEF SellThenBuy, m, q, a
<1> HIDE DEF s1, s2, s3
<1>11. Leads(H, tx.in, s1, V, tx.in, F) BY <1>6, <1>7, Onwards DEF s1
<1>12. Leads(H, tx.in, s2, V, a, F) BY <1>8, <1>11, Onwards DEF s2
<1>13. Leads(H, tx.in, s3, V, tx.out, F) BY <1>9, <1>12, Onwards DEF s3
<1> QED BY <1>2, <1>10, <1>13 DEF H

(* Every plan of every builder. *)
LEMMA PlansRun ==
  ASSUME NEW tx, Landable(tx)
  PROVE  \E O : Leads(Home(tx), PaidFrom(tx), Instructions(tx), O, Delivered(tx), Known(tx))
<1> DEFINE Runs(steps) == \E O : Leads(Home(tx), PaidFrom(tx), steps, O, Delivered(tx), Known(tx))
<1>1. ~SoldForSOL(tx) => Delivered(tx) = AskedAt(tx) BY DEF Delivered
<1>2. CASE tx.class = "settle"
  <2>1. tx.in = "wsol" /\ tx.out = "wsol" /\ tx.inSettle # tx.outSettle
        /\ tx.inSettle \in {"native_sol", "wsol_spl"} /\ tx.outSettle \in {"native_sol", "wsol_spl"}
    BY <1>2 DEF Landable
  <2>2. CASE tx.outSettle = "native_sol"
    <3>1. PaidFrom(tx) = "wsol" /\ Home(tx) = {Lamports, "wsol"} /\ Delivered(tx) = Lamports
      BY <1>2, <2>1, <2>2 DEF PaidFrom, Home, Delivered, AskedAt, WantsNative, SoldForSOL
    <3>2. Runs(Unwrap(tx)) BY <1>2, <2>2, <3>1, UnwrapRuns
    <3>3. Instructions(tx) = Unwrap(tx) BY <1>2, <2>2 DEF Instructions
    <3> QED BY <3>2, <3>3
  <2>3. CASE tx.outSettle = "wsol_spl"
    <3>1. PaidFrom(tx) = Lamports /\ Home(tx) = {Lamports} /\ Delivered(tx) = "wsol"
      BY <1>2, <2>1, <2>3 DEF PaidFrom, Home, Delivered, AskedAt, WantsNative, SoldForSOL
    <3>2. Runs(WrapSOL) BY <3>1, WrapRuns
    <3>3. Instructions(tx) = WrapSOL BY <1>2, <2>3 DEF Instructions
    <3> QED BY <3>2, <3>3
  <2> QED BY <2>1, <2>2, <2>3
<1>3. CASE tx.class = "quote"
  <2>1. Instructions(tx) = QuoteSwap(tx) /\ ~SoldForSOL(tx) BY <1>3 DEF Instructions, SoldForSOL
  <2>2. Runs(QuoteSwap(tx)) BY <1>1, <1>3, <2>1, QuoteSwapRuns
  <2> QED BY <2>1, <2>2
<1>4. CASE tx.class = "buy"
  <2>1. tx.hops \in {1, 2} BY <1>4 DEF Landable
  <2>2. ~SoldForSOL(tx) BY <1>4 DEF SoldForSOL
  <2>3. CASE tx.hops = 1
    <3>1. Instructions(tx) = BuyOneHop(tx) BY <1>4, <2>3 DEF Instructions
    <3>2. tx.quote = "wsol" => Runs(BuyForSOL(tx)) BY <1>1, <1>4, <2>2, <2>3, BuyForSOLRuns
    <3>3. tx.quote # "wsol" => Runs(BuyForSPL(tx)) BY <1>1, <1>4, <2>2, <2>3, BuyForSPLRuns
    <3> QED BY <3>1, <3>2, <3>3 DEF BuyOneHop
  <2>4. CASE tx.hops = 2
    <3>1. Instructions(tx) = BridgeThenBuy(tx) BY <1>4, <2>4 DEF Instructions
    <3>2. Runs(BridgeThenBuy(tx)) BY <1>1, <1>4, <2>2, <2>4, BridgeThenBuyRuns
    <3> QED BY <3>1, <3>2
  <2> QED BY <2>1, <2>3, <2>4
<1>5. CASE tx.class = "sell"
  <2>1. tx.hops \in {1, 2} BY <1>5 DEF Landable
  <2>2. CASE tx.hops = 1
    <3>1. Instructions(tx) = SellOneHop(tx) BY <1>5, <2>2 DEF Instructions
    <3>2. tx.quote = "wsol" => Runs(SellForNet(tx)) BY <1>5, <2>2, SellForSOLRuns
    <3>3. tx.quote # "wsol" => Runs(SellForSPL(tx)) BY <1>5, <2>2, SellForSPLRuns
    <3> QED BY <3>1, <3>2, <3>3 DEF SellOneHop
  <2>3. CASE tx.hops = 2
    <3>1. Instructions(tx) = SellThenBridge(tx) /\ ~SoldForSOL(tx)
      BY <1>5, <2>3 DEF Instructions, SoldForSOL
    <3>2. Runs(SellThenBridge(tx)) BY <1>1, <1>5, <2>3, <3>1, SellThenBridgeRuns
    <3> QED BY <3>1, <3>2
  <2> QED BY <2>1, <2>2, <2>3
<1>6. CASE tx.class = "swap"
  <2>1. Instructions(tx) = SellThenBuy(tx) /\ ~SoldForSOL(tx) BY <1>6 DEF Instructions, SoldForSOL
  <2>2. Runs(SellThenBuy(tx)) BY <1>1, <1>6, <2>1, SellThenBuyRuns
  <2> QED BY <2>1, <2>2
<1>7. tx.class \in {"settle", "quote", "buy", "sell", "swap"} BY DEF Landable
<1> QED BY <1>2, <1>3, <1>4, <1>5, <1>6, <1>7

LEMMA LandedEnds ==
  ASSUME NEW tx, Landable(tx)
  PROVE  Execute(tx).money = Delivered(tx) /\ Execute(tx).faults \subseteq Known(tx)
<1>1. PICK O : Leads(Home(tx), PaidFrom(tx), Instructions(tx), O, Delivered(tx), Known(tx))
  BY PlansRun
<1>2. PaidFrom(tx) \in Places
  <2>1. tx.in \in Places
    <3>1. tx.class = "settle" => tx.in = "wsol" BY DEF Landable
    <3>2. tx.class \in {"quote", "buy"} => tx.in \in Quotes BY DEF Landable
    <3>3. tx.class \in {"sell", "swap"} => tx.in \in Tokens BY DEF Landable
    <3>4. tx.class \in {"settle", "quote", "buy", "sell", "swap"} BY DEF Landable
    <3> QED BY <3>1, <3>2, <3>3, <3>4, SomePlaces
  <2> QED BY <2>1, SomePlaces DEF PaidFrom
<1>3. Sound(Wallet(tx), Home(tx), PaidFrom(tx), Known(tx))
  BY <1>2, SomePlaces DEF Sound, Wallet, Home
<1>4. Sound(Execute(tx), O, Delivered(tx), Known(tx)) BY <1>1, <1>3 DEF Leads, Execute
<1> QED BY <1>4 DEF Sound

-----------------------------------------------------------------------------
(* What lands was built for one request.                                   *)

(* SOL and WSOL are converted into each other, not into themselves. *)
Converting ==
  stage \notin {"idle", "done", "landed"} \/ Quoted =>
    (Class = "settle" => req.inSettle # req.outSettle)

Landed ==
  IF stage = "landed" THEN \E tx : Landable(tx) /\ landed = [tx |-> tx, end |-> Execute(tx)]
  ELSE landed = NoTx

LInv == IInv /\ Converting /\ Landed

LEMMA AnswersLand ==
  ASSUME IInv, Converting, stage = "done", answer = "quoted", NEW key \in BuiltKeys
  PROVE  Landable(TxOf(key))
<1> DEFINE tx == TxOf(key)
<1> SUFFICES Landable(tx) OBVIOUS
<1>1. Quoted /\ Compiled BY DEF Quoted, Compiled
<1>2. req.in \in Mints /\ req.out \in Mints BY PairKnown
<1>3. /\ req.in = "wsol" => req.inSettle \in {"native_sol", "wsol_spl"}
      /\ req.out = "wsol" => req.outSettle \in {"native_sol", "wsol_spl"}
  BY DEF IInv, TypeOK
<1>4. legs = Route BY <1>1 DEF IInv, Routed
<1>5. /\ tx.class = Class /\ tx.in = req.in /\ tx.out = req.out
      /\ tx.inSettle = req.inSettle /\ tx.outSettle = req.outSettle
      /\ tx.quote = (IF Class \in {"settle", "quote"} THEN "none" ELSE PoolQuote)
      /\ tx.hops = Len(legs) /\ tx.sponsored = Sponsored(key)
  BY DEF TxOf
<1> HIDE DEF tx
<1>6. tx.sponsored \in BOOLEAN BY <1>5 DEF Sponsored
<1>7. tx.sponsored => Wired BY <1>1, <1>5 DEF IInv, Made
<1>8. \A x, y : Len(<<x>>) = 1 /\ Len(<<x, y>>) = 2 OBVIOUS
<1>9. Trade => PoolQuote \in Quotes \cup PoolQuotes
  <2> SUFFICES ASSUME Trade PROVE PoolQuote \in Quotes \cup PoolQuotes OBVIOUS
  <2>1. Base \in Tokens BY <1>2, PairClasses
  <2> QED BY <2>1 DEF IInv, Placed, PoolQuote
<1>10. CASE Class = "settle"
  <2>1. tx.in = "wsol" /\ tx.out = "wsol" /\ tx.inSettle # tx.outSettle /\ tx.class = "settle"
    BY <1>1, <1>2, <1>5, <1>10, PairClasses DEF Converting
  <2> QED BY <1>3, <1>5, <1>6, <2>1 DEF Landable
<1>11. CASE Class = "quote"
  <2>1. tx.in \in Quotes /\ tx.out \in Quotes /\ ~(tx.in = "wsol" /\ tx.out = "wsol")
        /\ tx.class = "quote"
    BY <1>2, <1>5, <1>11, PairClasses
  <2>2. tx.sponsored => tx.inSettle # "native_sol" /\ tx.out = "wsol"
    BY <1>5, <1>7, <1>11 DEF Wired, QuoteSwapSponsoredEligible
  <2> QED BY <1>3, <1>5, <1>6, <2>1, <2>2 DEF Landable
<1>12. CASE Trade
  <2>1. tx.quote \in Quotes \cup PoolQuotes /\ tx.quote = PoolQuote BY <1>5, <1>9, <1>12 DEF Trade
  <2>2. tx.sponsored => tx.quote = "wsol" BY <1>7, <1>12, <2>1 DEF Wired, Trade
  <2>3. CASE Class = "buy"
    <3>1. tx.in \in Quotes /\ tx.out \in Tokens /\ tx.class = "buy"
      BY <1>2, <1>5, <2>3, PairClasses
    <3>2. tx.hops = (IF tx.in = tx.quote THEN 1 ELSE 2)
      BY <1>4, <1>5, <1>8, <2>1, <2>3, RouteLegs
    <3>3. tx.hops = 1 => tx.inSettle # "wsol_spl" BY <1>1, <1>5, <2>3 DEF IInv, Made
    <3> QED BY <1>3, <1>5, <1>6, <2>1, <2>2, <3>1, <3>2, <3>3 DEF Landable
  <2>4. CASE Class = "sell"
    <3>1. tx.in \in Tokens /\ tx.out \in Quotes /\ tx.class = "sell"
      BY <1>2, <1>5, <2>4, PairClasses
    <3>2. tx.hops = (IF tx.out = tx.quote THEN 1 ELSE 2)
      BY <1>4, <1>5, <1>8, <2>1, <2>4, RouteLegs
    <3> QED BY <1>3, <1>5, <1>6, <2>1, <2>2, <3>1, <3>2 DEF Landable
  <2>5. CASE Class = "swap"
    <3>1. tx.in \in Tokens /\ tx.out \in Tokens /\ tx.class = "swap"
      BY <1>2, <1>5, <2>5, PairClasses
    <3> QED BY <1>3, <1>5, <1>6, <2>1, <2>2, <3>1 DEF Landable
  <2> QED BY <1>12, <2>3, <2>4, <2>5 DEF Trade
<1> QED BY <1>2, <1>10, <1>11, <1>12, PairClasses DEF Trade

(* A step within a request leaves the request and the landing alone. *)
LEMMA WithinRequest ==
  ASSUME LInv, stage \notin {"idle", "done", "landed"}, stage' # "landed",
         req' = req, landed' = landed
  PROVE  Converting' /\ Landed'
<1>1. Class' = Class BY KeptClass
<1>2. Converting' BY <1>1 DEF LInv, Converting
<1>3. Landed' BY DEF LInv, Landed
<1> QED BY <1>2, <1>3

LEMMA LandingSteps ==
  ASSUME LInv, [Next]_vars, IInv'
  PROVE  LInv'
<1> SUFFICES Converting' /\ Landed' BY DEF LInv
<1>1. ASSUME NEW pair \in Pairs, NEW si \in Settlements \cup {""}, NEW so \in Settlements \cup {""},
             NEW size \in Sizes, Receive(pair[1], pair[2], si, so, size)
      PROVE  Converting' /\ Landed'
  <2>1. stage = "idle" /\ stage' # "landed" /\ landed' = landed BY <1>1 DEF Receive, Close, fixed
  <2>2. Landed' BY <2>1 DEF LInv, Landed
  <2>3. req'.in = pair[1] /\ req'.out = pair[2] BY <1>1 DEF Receive
  <2>4. CASE pair[1] = "wsol" /\ pair[2] = "wsol" /\ req'.inSettle = req'.outSettle
    <3>1. stage' = "done" /\ answer' = "error" BY <1>1, <2>4 DEF Receive, Close
    <3> QED BY <2>2, <3>1 DEF Converting, Quoted
  <2>5. CASE ~(pair[1] = "wsol" /\ pair[2] = "wsol" /\ req'.inSettle = req'.outSettle)
    <3>1. Class' = "settle" => req'.in = "wsol" /\ req'.out = "wsol"
      <4>1. Class' = "settle" => {req'.in, req'.out} = {"wsol"} BY DEF Class
      <4> QED BY <4>1
    <3> QED BY <2>2, <2>3, <2>5, <3>1 DEF Converting
  <2> QED BY <2>4, <2>5
<1>2. CASE DiscoverQuotePool
  BY <1>2, WithinRequest DEF DiscoverQuotePool, Reject, Goto, Close, fixed
<1>3. CASE FetchSnapshot
  BY <1>3, WithinRequest DEF FetchSnapshot, Close, fixed
<1>4. CASE Settle
  <2>1. stage = "settle" BY <1>4 DEF Settle
  <2>2. PICK bal \in Balances :
          IF Unwraps /\ (bal \in {"none", "less"} \/ ~Found) THEN Reject
          ELSE IF Unwraps /\ ShouldDeduct /\ req.size = "small" THEN RejectForRepay
          ELSE /\ deducted' = IF Unwraps /\ ShouldDeduct THEN "wsol" ELSE "none"
               /\ stage' = "build"
               /\ queue' = VariantQueue(Unwraps /\ bal = "equal")
               /\ UNCHANGED <<fixed, req, snap, legs, made, planErr, answer, build>>
    BY <1>4 DEF Settle
  <2>3. CASE Reject \/ RejectForRepay
    BY <2>1, <2>3, WithinRequest DEF Reject, RejectForRepay, Close, fixed
  <2>4. CASE ~(Reject \/ RejectForRepay)
    <3>1. stage' = "build" /\ UNCHANGED <<fixed, req>> BY <2>2, <2>4
    <3> QED BY <2>1, <3>1, WithinRequest DEF fixed
  <2> QED BY <2>3, <2>4
<1>5. CASE DetectVenue
  BY <1>5, WithinRequest DEF DetectVenue, Reject, Goto, Close, fixed
<1>6. CASE Plan
  BY <1>6, WithinRequest DEF Plan, Reject, Goto, Close, fixed
<1>7. CASE DiscoverBridgePool
  BY <1>7, WithinRequest DEF DiscoverBridgePool, Reject, Goto, Close, fixed
<1>8. CASE EnsureBridgePoolAccount
  BY <1>8, WithinRequest DEF EnsureBridgePoolAccount, Reject, Goto, Close, fixed
<1>9. CASE QuoteAmounts
  BY <1>9, WithinRequest DEF QuoteAmounts, Reject, RejectForRepay, Goto, Close, fixed
<1>10. CASE PrepareBuild
  BY <1>10, WithinRequest DEF PrepareBuild, Reject, SkipBuild, Goto, Close, fixed
<1>11. CASE CompileVariant
  BY <1>11, WithinRequest DEF CompileVariant, Enter, fixed
<1>12. CASE Answer
  BY <1>12, WithinRequest DEF Answer, SkipBuild, Close, fixed
<1>13. CASE Land
  <2>1. PICK key \in BuiltKeys : landed' = [tx |-> TxOf(key), end |-> Execute(TxOf(key))]
    BY <1>13 DEF Land
  <2>2. Landable(TxOf(key)) BY <1>13, AnswersLand DEF Land, LInv
  <2>3. stage' = "landed" /\ answer' = "none" BY <1>13 DEF Land
  <2> QED BY <2>1, <2>2, <2>3 DEF Converting, Quoted, Landed
<1>14. CASE UNCHANGED vars
  <2>1. stage' = stage /\ req' = req /\ answer' = answer /\ landed' = landed BY <1>14 DEF vars
  <2>2. Class' = Class /\ (Quoted' <=> Quoted) BY <2>1, KeptClass DEF Quoted
  <2> QED BY <2>1, <2>2 DEF LInv, Converting, Landed
<1> QED
  BY <1>1, <1>2, <1>3, <1>4, <1>5, <1>6, <1>7, <1>8, <1>9, <1>10, <1>11, <1>12, <1>13, <1>14
  DEF Next

(* Whatever lands is a transaction of the shape that its answer allowed, and  *)
(* what it left behind is what running its plan leaves.                       *)
THEOREM LandingInvariant == Spec => []LInv
<1>1. Init => Converting /\ Landed BY DEF Init, Converting, Landed, Quoted
<1>2. LInv /\ [Next]_vars => LInv'
  <2>1. IInv /\ [Next]_vars => IInv' BY Steps
  <2> QED BY <2>1, LandingSteps DEF LInv
<1>3. Init => LInv BY <1>1, Inits DEF LInv
<1> QED BY <1>2, <1>3, PTL DEF Spec

-----------------------------------------------------------------------------
(* The theorems.                                                           *)

LEMMA FaultsKnown ==
  ASSUME LInv, NEW fault \in landed.end.faults
  PROVE  stage = "landed" /\ fault \in Known(landed.tx)
<1>1. stage = "landed" BY DEF LInv, Landed, NoTx
<1>2. PICK tx : Landable(tx) /\ landed = [tx |-> tx, end |-> Execute(tx)]
  BY <1>1 DEF LInv, Landed
<1> QED BY <1>1, <1>2, LandedEnds

LEMMA FaultKinds ==
  ASSUME NEW tx, NEW fault \in Known(tx)
  PROVE  \/ fault[1] = "unopened" /\ fault[2] = tx.quote /\ tx.class = "sell" /\ tx.hops = 1
         \/ fault[1] = "pay" /\ tx.class = "buy" /\ tx.inSettle = "wsol_spl" /\ ~tx.sponsored
BY DEF Known

(* Every token account that a landed transaction uses was open or is opened   *)
(* before, whoever pays for it and whatever the wallet held: but for the      *)
(* quote account of a one-hop sale on an SPL pool.                            *)
THEOREM AccountsOpen == Spec => []AccountsOpenWhenUsed
<1>1. LInv => AccountsOpenWhenUsed BY FaultsKnown, FaultKinds DEF AccountsOpenWhenUsed
<1> QED BY <1>1, LandingInvariant, PTL

(* Each hop of every plan takes the money where the one before it left it.    *)
THEOREM HopsFind == Spec => []HopsFindTheMoney
<1>1. LInv => HopsFindTheMoney BY FaultsKnown, FaultKinds DEF HopsFindTheMoney
<1> QED BY <1>1, LandingInvariant, PTL

(* A fee and the sponsor's repay come out of the trade's own money, but for   *)
(* the fee of a self-funded purchase that is paid in WSOL tokens.             *)
THEOREM PaidFromTheTrade == Spec => []PaidFromTrade
<1>1. LInv => PaidFromTrade BY FaultsKnown, FaultKinds DEF PaidFromTrade
<1> QED BY <1>1, LandingInvariant, PTL

(* Whatever was traded, on whatever pool and by whichever variant: the        *)
(* proceeds end where the request asked for them; a one-hop sale for SOL      *)
(* knows native SOL only.                                                     *)
THEOREM DeliveredAsAsked == Spec => []DeliveredWhereAsked
<1>1. LInv => DeliveredWhereAsked
  <2> SUFFICES ASSUME LInv, stage = "landed", ~SoldForSOL(landed.tx)
               PROVE  landed.end.money = AskedAt(landed.tx)
    BY DEF DeliveredWhereAsked
  <2>1. PICK tx : Landable(tx) /\ landed = [tx |-> tx, end |-> Execute(tx)] BY DEF LInv, Landed
  <2>2. landed.end.money = Delivered(tx) /\ landed.tx = tx BY <2>1, LandedEnds
  <2> QED BY <2>2 DEF Delivered
<1> QED BY <1>1, LandingInvariant, PTL
=============================================================================
