-------------------------- MODULE SwapPage_proofs ---------------------------
(***************************************************************************)
(* What the swap page shows is what it sends, for any set of forms and     *)
(* wallets and any number of requests and transactions under way.          *)
(*                                                                         *)
(* The inductive invariant adds to this what the handlers rely on without  *)
(* saying so.  The configuration may arrive after an answer and judges the *)
(* toggles again; it does not move them, because the answer holds only     *)
(* transactions the server's configuration allows (AnswerOffered) and a    *)
(* tick the answer refuses was taken off when the answer came (MevAgreed). *)
(***************************************************************************)
EXTENDS SwapPage, TLAPS, FiniteSetTheorems

Answer == [form : Forms, wallet : Wallets, full : BOOLEAN,
           built : SUBSET Keys, build : Keys \cup {NoKey}]

Typed ==
  /\ lastQuote \in Answer \cup {NoQuote}
  /\ IsFiniteSet(asked)

(* No server builds what it has disabled or what a conversion does not have. *)
AnswerOffered ==
  lastQuote # NoQuote => lastQuote.built \subseteq Buildable(lastQuote.form, lastQuote.full)

MevAgreed ==
  lastQuote # NoQuote /\ mev.checked => ~Refused("selfFundedMev", lastQuote, settlementMode)

(* The one request of an undisturbed page is for what it shows, and so is its answer. *)
Undisturbed ==
  ~touched =>
    /\ \A r \in asked : r.form = form /\ r.wallet = wallet
    /\ asked # {} => ~sendOn
    /\ asked = {} /\ lastQuote # NoQuote => lastQuote.form = form /\ lastQuote.wallet = wallet

IInv == TypeOK /\ Typed /\ AnswerOffered /\ MevAgreed /\ ShownIsSent /\ Undisturbed

-----------------------------------------------------------------------------
(* The helpers.                                                            *)

LEMMA NoQuoteApart == NoQuote \notin Answer
<1>1. DOMAIN NoQuote = {"form"} BY DEF NoQuote
<1>2. \A q \in Answer : "built" \in DOMAIN q BY DEF Answer
<1> QED BY <1>1, <1>2

LEMMA AnswerShape ==
  ASSUME NEW r \in [form : Forms, wallet : Wallets], NEW q \in Answers(r)
  PROVE  /\ q \in Answer /\ q # NoQuote
         /\ q.form = r.form /\ q.wallet = r.wallet
         /\ q.built \subseteq Buildable(q.form, q.full)
         /\ q.build \in q.built \cup {NoKey}
<1> DEFINE Ans(full, B, b) ==
             [form |-> r.form, wallet |-> r.wallet, full |-> full, built |-> B, build |-> b]
           Is(full, B, b) ==
             B \subseteq Buildable(r.form, full) /\ b \in B \cup {NoKey} /\ q = Ans(full, B, b)
           With(full, B) == { Ans(full, B, b) : b \in Defaults(B) }
           Of(full) == UNION { With(full, B) : B \in (SUBSET Buildable(r.form, full)) \ {{}} }
           Unbuilt == { Ans(full, B, b) : full \in {FALSE}, B \in {{}}, b \in {NoKey} }
           Built == UNION { Of(full) : full \in IF r.form \in Unwraps THEN BOOLEAN ELSE {FALSE} }
<1>1. PICK full \in BOOLEAN : \E B, b : Is(full, B, b)
  <2>1. Answers(r) = Unbuilt \cup Built BY DEF Answers
  <2>2. q \in Unbuilt => Is(FALSE, {}, NoKey) OBVIOUS
  <2>3. ASSUME q \in Built PROVE \E full \in BOOLEAN : \E B, b : Is(full, B, b)
    <3> HIDE DEF With, Of
    <3>1. PICK full \in BOOLEAN : q \in Of(full) BY <2>3, Zenon
    <3>2. PICK B \in SUBSET Buildable(r.form, full) : q \in With(full, B) BY <3>1 DEF Of
    <3>3. PICK b \in Defaults(B) : q = Ans(full, B, b) BY <3>2 DEF With
    <3>4. b \in B BY DEF Defaults
    <3> QED BY <3>3, <3>4
  <2> HIDE DEF Is, Unbuilt, Built
  <2> QED BY <2>1, <2>2, <2>3
<1>2. PICK B, b : Is(full, B, b) BY <1>1
<1>3. Buildable(r.form, full) \subseteq Keys BY DEF Buildable, KeysOffered, Keys
<1> QED BY <1>2, <1>3, NoQuoteApart DEF Answer

(* Judging the toggles leaves them well formed, and in agreement with the answer. *)
LEMMA Synced ==
  ASSUME NEW q, NEW config \in BOOLEAN, NEW mevTick \in BOOLEAN, NEW sponsoredTick \in BOOLEAN,
         NEW m \in Modes, SyncVariantToggles(q, config, mevTick, sponsoredTick, m)
  PROVE  /\ mev' \in Toggles /\ sponsored' \in Toggles /\ settlementMode' = m
         /\ ~(mev'.checked /\ mev'.disabled) /\ ~(sponsored'.checked /\ sponsored'.disabled)
         /\ mev'.checked <=> mevTick /\ ~MevDisabled(q, config, m)
         /\ sponsored'.checked <=> sponsoredTick /\ ~SponsoredDisabled(q, config, mevTick, m)
         /\ mev'.checked => ~Refused("selfFundedMev", q, m)
<1> DEFINE offM == MevDisabled(q, config, m)
           offS == SponsoredDisabled(q, config, mevTick, m)
<1>1. offM \in BOOLEAN /\ offS \in BOOLEAN BY DEF MevDisabled, SponsoredDisabled
<1>2. /\ mev' = [checked |-> mevTick /\ ~offM, disabled |-> offM]
      /\ sponsored' = [checked |-> sponsoredTick /\ ~offS, disabled |-> offS]
      /\ settlementMode' = m
  BY DEF SyncVariantToggles, ApplyToggleState
<1>3. Refused("selfFundedMev", q, m) => offM BY DEF MevDisabled
<1> HIDE DEF offM, offS
<1>4. /\ mev' \in Toggles /\ sponsored' \in Toggles
      /\ mev'.checked <=> mevTick /\ ~offM
      /\ sponsored'.checked <=> sponsoredTick /\ ~offS
      /\ ~(mev'.checked /\ mev'.disabled) /\ ~(sponsored'.checked /\ sponsored'.disabled)
  BY <1>1, <1>2 DEF Toggles
<1> QED BY <1>2, <1>3, <1>4 DEF offM, offS

(* Putting the active transaction on display does not change which is active. *)
LEMMA ShowsActive ==
  ASSUME NEW q \in Answer, NEW withMev, NEW withSponsor, NEW m,
         q.build \in q.built \cup {NoKey},
         NEW b, b = activeBuild(q, withMev, withSponsor, m), b # NoKey
  PROVE  /\ [q EXCEPT !.build = b] \in Answer
         /\ [q EXCEPT !.build = b].build = b /\ b \in q.built
         /\ [q EXCEPT !.build = b].built = q.built /\ [q EXCEPT !.build = b].full = q.full
         /\ [q EXCEPT !.build = b].form = q.form /\ [q EXCEPT !.build = b].wallet = q.wallet
         /\ activeBuild([q EXCEPT !.build = b], withMev, withSponsor, m) = b
<1> DEFINE p == [q EXCEPT !.build = b]
           key == activeVariantKey(q, withMev, withSponsor, m)
<1>1. q # NoQuote BY NoQuoteApart
<1>2. b = IF key \in q.built THEN key ELSE IF key = <<"selfFunded", "">> THEN q.build ELSE NoKey
  BY <1>1 DEF activeBuild
<1>3. b \in q.built BY <1>2
<1>4. /\ p \in Answer /\ p.build = b /\ p.built = q.built /\ p.full = q.full
      /\ p.form = q.form /\ p.wallet = q.wallet
  BY <1>3 DEF Answer
<1>5. activeVariantKey(p, withMev, withSponsor, m) = key
  BY <1>4 DEF activeVariantKey, settlementAwareKey
<1>6. p # NoQuote BY <1>4, NoQuoteApart
<1>7. activeBuild(p, withMev, withSponsor, m) = b
  BY <1>2, <1>4, <1>5, <1>6 DEF activeBuild
<1> QED BY <1>3, <1>4, <1>7

-----------------------------------------------------------------------------
(* The handlers.                                                           *)

(* An answer, or none, and the toggles judged by it: the part of the         *)
(* invariant that does not look at the requests under way.                   *)
Display == AnswerOffered /\ MevAgreed /\ ShownIsSent /\ lastQuote \in Answer \cup {NoQuote}
           /\ (lastQuote # NoQuote => lastQuote.build \in lastQuote.built \cup {NoKey})

LEMMA Displayed ==
  ASSUME NEW q \in Answer, NEW withMev \in BOOLEAN, NEW withSponsor \in BOOLEAN, NEW m \in Modes,
         q.built \subseteq Buildable(q.form, q.full), q.build \in q.built \cup {NoKey},
         SyncVariantToggles(q, loaded, withMev, withSponsor, m), server' = server,
         NEW b, b = activeBuild(q, mev'.checked, sponsored'.checked, m),
         lastQuote' = IF b = NoKey THEN q ELSE [q EXCEPT !.build = b],
         loaded \in BOOLEAN, sendOn' => b # NoKey
  PROVE  Display' /\ lastQuote' # NoQuote /\ lastQuote'.form = q.form /\ lastQuote'.wallet = q.wallet
<1>1. settlementMode' = m /\ (mev'.checked => ~Refused("selfFundedMev", q, m)) BY Synced
<1>2. /\ lastQuote' \in Answer /\ lastQuote' # NoQuote
      /\ lastQuote'.built = q.built /\ lastQuote'.full = q.full
      /\ lastQuote'.form = q.form /\ lastQuote'.wallet = q.wallet
      /\ lastQuote'.build \in q.built \cup {NoKey}
  BY ShowsActive, NoQuoteApart
<1>3. AnswerOffered' BY <1>2 DEF AnswerOffered, Buildable
<1>4. MevAgreed'
  BY <1>1, <1>2, NoQuoteApart DEF MevAgreed, Refused, settlementAwareKey
<1>5. ShownIsSent'
  <2>1. CASE b = NoKey BY <2>1 DEF ShownIsSent
  <2>2. CASE b # NoKey
    <3>1. lastQuote' = [q EXCEPT !.build = b] BY <2>2
    <3>2. lastQuote'.build = b /\ activeBuild(lastQuote', mev'.checked, sponsored'.checked, m) = b
      BY <2>2, <3>1, ShowsActive
    <3>3. Active' = b BY <1>1, <3>2 DEF Active, activeBuild, activeVariantKey, settlementAwareKey
    <3> QED BY <2>2, <3>2, <3>3 DEF ShownIsSent
  <2> QED BY <2>1, <2>2
<1> QED BY <1>2, <1>3, <1>4, <1>5 DEF Display

LEMMA Blank == ASSUME lastQuote' = NoQuote PROVE Display'
BY DEF Display, AnswerOffered, MevAgreed, ShownIsSent

(* Where the configuration finds a transaction offered, it leaves the toggles be. *)
LEMMA ConfigAgrees ==
  ASSUME IInv, sendOn, lastQuote # NoQuote
  PROVE  /\ mev.checked => ~MevDisabled(lastQuote, TRUE, settlementMode)
         /\ sponsored.checked => ~SponsoredDisabled(lastQuote, TRUE, mev.checked, settlementMode)
<1> DEFINE q == lastQuote
           key == activeVariantKey(q, mev.checked, sponsored.checked, settlementMode)
<1>1. Active # NoKey BY DEF IInv, ShownIsSent
<1>2. key \in q.built \/ key = <<"selfFunded", "">> BY <1>1 DEF Active, activeBuild
<1>3. q.built \subseteq KeysOffered(q.form \in Conversions, q.form \in Unwraps,
                                    server.sponsor, server.jito, q.full)
  BY DEF IInv, AnswerOffered, Buildable
<1>4. mev.checked \in BOOLEAN /\ sponsored.checked \in BOOLEAN
  BY DEF IInv, TypeOK, Toggles
<1>5. /\ key[1] = IF sponsored.checked
                   THEN IF mev.checked THEN "sponsoredSwapMev" ELSE "sponsoredSwap"
                   ELSE IF mev.checked THEN "selfFundedMev" ELSE "selfFunded"
      /\ key = settlementAwareKey(key[1], q, settlementMode)
  BY DEF activeVariantKey, settlementAwareKey
<1>6. /\ mev.checked => Mev(key) /\ key # <<"selfFunded", "">>
      /\ sponsored.checked => Sponsored(key) /\ key # <<"selfFunded", "">>
  <2>1. <<"selfFunded", "">>[1] = "selfFunded" OBVIOUS
  <2> QED BY <1>4, <1>5, <2>1 DEF Mev, Sponsored
<1>7. ASSUME key \in q.built
      PROVE  /\ Mev(key) => server.jito /\ q.form \notin Conversions
             /\ Sponsored(key) => server.sponsor
  BY <1>3, <1>7 DEF KeysOffered
<1>8. ASSUME mev.checked PROVE ~MevDisabled(q, TRUE, settlementMode)
  <2>1. server.jito /\ q.form \notin Conversions BY <1>2, <1>6, <1>7, <1>8
  <2>2. ~Refused("selfFundedMev", q, settlementMode) BY <1>8 DEF IInv, MevAgreed
  <2> QED BY <2>1, <2>2 DEF MevDisabled, Converts
<1>9. ASSUME sponsored.checked PROVE ~SponsoredDisabled(q, TRUE, mev.checked, settlementMode)
  <2>1. server.sponsor /\ key \in q.built BY <1>2, <1>6, <1>7, <1>9
  <2>2. mev.checked => q.form \notin Conversions BY <1>2, <1>6, <1>7
  <2>3. key[1] = IF mev.checked THEN "sponsoredSwapMev" ELSE "sponsoredSwap"
    BY <1>4, <1>5, <1>9
  <2>4. ~Refused(key[1], q, settlementMode) BY <1>5, <2>1 DEF Refused
  <2> QED BY <2>1, <2>2, <2>3, <2>4 DEF SponsoredDisabled, Converts
<1> QED BY <1>8, <1>9

(* A handler that leaves the display alone, and does not enable Send. *)
LEMMA DisplayKept ==
  ASSUME IInv, UNCHANGED <<server, lastQuote, toggleVars>>, sendOn' => sendOn
  PROVE  Display'
<1>1. Display BY DEF IInv, Typed, Display, TypeOK
<1>2. AnswerOffered' /\ MevAgreed'
  BY <1>1 DEF Display, AnswerOffered, Buildable, MevAgreed, Refused, toggleVars
<1>3. ShownIsSent' BY <1>1 DEF Display, ShownIsSent, Active, toggleVars
<1> QED BY <1>1, <1>2, <1>3 DEF Display

(* From the display back to the invariant. *)
LEMMA FromDisplay ==
  ASSUME TypeOK', IsFiniteSet(asked'), Display', Undisturbed'
  PROVE  IInv'
BY DEF Display, IInv, Typed

LEMMA FewerAsked ==
  ASSUME IInv, NEW r
  PROVE  /\ IsFiniteSet(asked \ {r}) /\ Cardinality(asked \ {r}) <= MaxQuotes
         /\ asked \ {r} \subseteq [form : Forms, wallet : Wallets]
<1>1. IsFiniteSet(asked) /\ Cardinality(asked) <= MaxQuotes /\ MaxQuotes \in Nat
  BY PageAssumption DEF IInv, TypeOK, Typed
<1>2. /\ IsFiniteSet(asked \ {r})
      /\ Cardinality(asked \ {r}) <= Cardinality(asked)
  BY <1>1, FS_Subset
<1>3. Cardinality(asked) \in Nat /\ Cardinality(asked \ {r}) \in Nat
  BY <1>1, <1>2, FS_CardinalityType
<1> QED BY <1>1, <1>2, <1>3 DEF IInv, TypeOK

(* While nothing was touched there is one request at most. *)
LEMMA OneAsked ==
  ASSUME IInv, ~touched, NEW r \in asked
  PROVE  asked \ {r} = {} /\ r.form = form /\ r.wallet = wallet
<1>1. \A s \in asked : s \in [form : Forms, wallet : Wallets] /\ s.form = form /\ s.wallet = wallet
  BY DEF IInv, TypeOK, Undisturbed
<1>2. \A s \in asked : s = [form |-> form, wallet |-> wallet] BY <1>1
<1> QED BY <1>1, <1>2

LEMMA LoadStep == ASSUME IInv, LoadConfig PROVE IInv'
<1>1. /\ UNCHANGED <<server, form, lastQuote, sendOn, asked, sendVars>> /\ loaded' = TRUE
      /\ wallet' \in Wallets \cup {wallet} /\ touched' = (touched \/ wallet' # wallet)
  BY DEF LoadConfig
<1>2. SyncVariantToggles(lastQuote, TRUE, mev.checked, sponsored.checked, settlementMode)
  BY DEF LoadConfig
<1>3. mev.checked \in BOOLEAN /\ sponsored.checked \in BOOLEAN /\ settlementMode \in Modes
  BY DEF IInv, TypeOK, Toggles
<1>4. /\ mev' \in Toggles /\ sponsored' \in Toggles /\ settlementMode' = settlementMode
      /\ ~(mev'.checked /\ mev'.disabled) /\ ~(sponsored'.checked /\ sponsored'.disabled)
      /\ mev'.checked <=> mev.checked /\ ~MevDisabled(lastQuote, TRUE, settlementMode)
      /\ sponsored'.checked <=>
           sponsored.checked /\ ~SponsoredDisabled(lastQuote, TRUE, mev.checked, settlementMode)
      /\ mev'.checked => ~Refused("selfFundedMev", lastQuote, settlementMode)
  BY <1>2, <1>3, Synced
<1>5. TypeOK' BY <1>1, <1>3, <1>4 DEF IInv, TypeOK, sendVars
<1>6. AnswerOffered' BY <1>1 DEF IInv, AnswerOffered, Buildable
<1>7. MevAgreed' BY <1>1, <1>4 DEF MevAgreed, Refused
<1>8. ShownIsSent'
  <2>1. SUFFICES ASSUME sendOn, lastQuote # NoQuote PROVE Active' # NoKey /\ lastQuote.build = Active'
    BY <1>1 DEF ShownIsSent
  <2>2. (mev'.checked <=> mev.checked) /\ (sponsored'.checked <=> sponsored.checked)
    BY <1>4, <2>1, ConfigAgrees
  <2>3. Active' = Active
    BY <1>1, <1>4, <2>2 DEF Active, activeBuild, activeVariantKey
  <2> QED BY <2>1, <2>3 DEF IInv, ShownIsSent
<1>9. Display' BY <1>1, <1>6, <1>7, <1>8 DEF Display, IInv, TypeOK, Typed
<1>10. Undisturbed' BY <1>1 DEF IInv, Undisturbed
<1> QED BY <1>1, <1>5, <1>9, <1>10, FromDisplay DEF IInv, Typed

LEMMA WalletStep == ASSUME IInv, ConnectWallet \/ DisconnectWallet PROVE IInv'
<1>1. PICK w \in Wallets \cup {NoWallet} : SetWallet(w) BY DEF ConnectWallet, DisconnectWallet
<1>2. Display' BY <1>1, DisplayKept DEF SetWallet
<1>3. TypeOK' BY <1>1 DEF SetWallet, IInv, TypeOK, toggleVars, sendVars
<1>4. Undisturbed' BY <1>1 DEF SetWallet, Undisturbed
<1> QED BY <1>1, <1>2, <1>3, <1>4, FromDisplay DEF SetWallet, IInv, Typed

LEMMA EditStep == ASSUME IInv, NEW f \in Forms, EditForm(f) PROVE IInv'
<1>1. Display' BY DisplayKept DEF EditForm
<1>2. TypeOK' BY DEF EditForm, IInv, TypeOK, toggleVars, sendVars
<1> QED BY <1>1, <1>2, FromDisplay DEF EditForm, IInv, Typed, Undisturbed

LEMMA FlipStep == ASSUME IInv, FlipMints PROVE IInv'
<1>1. SyncVariantToggles(NoQuote, loaded, mev.checked, sponsored.checked, settlementMode)
  BY DEF FlipMints, SyncNow
<1>2. /\ mev.checked \in BOOLEAN /\ sponsored.checked \in BOOLEAN /\ settlementMode \in Modes
      /\ loaded \in BOOLEAN
  BY DEF IInv, TypeOK, Toggles
<1>3. /\ mev' \in Toggles /\ sponsored' \in Toggles /\ settlementMode' = settlementMode
      /\ ~(mev'.checked /\ mev'.disabled) /\ ~(sponsored'.checked /\ sponsored'.disabled)
  BY <1>1, <1>2, Synced
<1>4. Flipped[form] \in Forms BY PageAssumption DEF IInv, TypeOK
<1>5. TypeOK' BY <1>3, <1>4 DEF FlipMints, IInv, TypeOK
<1>6. Display' BY Blank DEF FlipMints
<1> QED BY <1>5, <1>6, FromDisplay DEF FlipMints, IInv, Typed, Undisturbed

LEMMA AskStep == ASSUME IInv, AskQuote PROVE IInv'
<1> DEFINE r == [form |-> form, wallet |-> wallet]
<1>1. /\ asked' = asked \cup {r} /\ Cardinality(asked) < MaxQuotes /\ sendOn' = FALSE
      /\ touched' = (asked # {})
      /\ UNCHANGED <<server, loaded, wallet, form, lastQuote, toggleVars, sendVars>>
  BY DEF AskQuote
<1>2. r \in [form : Forms, wallet : Wallets] BY DEF AskQuote, IInv, TypeOK
<1>3. r.form = form /\ r.wallet = wallet OBVIOUS
<1> HIDE DEF r
<1>4. IsFiniteSet(asked') /\ Cardinality(asked') <= MaxQuotes
  <2>1. IsFiniteSet(asked) BY DEF IInv, Typed
  <2>2. /\ IsFiniteSet(asked')
        /\ Cardinality(asked') = IF r \in asked THEN Cardinality(asked) ELSE Cardinality(asked) + 1
    BY <1>1, <2>1, FS_AddElement
  <2>3. Cardinality(asked) \in Nat BY <2>1, FS_CardinalityType
  <2> QED BY <1>1, <2>2, <2>3, PageAssumption
<1>5. TypeOK' BY <1>1, <1>2, <1>4 DEF IInv, TypeOK, toggleVars, sendVars
<1>6. Display' BY <1>1, DisplayKept
<1>7. Undisturbed'
  <2>1. SUFFICES ASSUME asked = {} PROVE Undisturbed' BY <1>1 DEF Undisturbed
  <2>2. asked' = {r} BY <1>1, <2>1
  <2> QED BY <1>1, <1>3, <2>2 DEF Undisturbed
<1> QED BY <1>4, <1>5, <1>6, <1>7, FromDisplay

LEMMA ArriveStep ==
  ASSUME IInv, NEW r \in asked, NEW q \in Answers(r), QuoteArrives(r, q) PROVE IInv'
<1> DEFINE b == activeBuild(q, mev'.checked, sponsored'.checked, settlementMode')
<1>1. /\ asked' = asked \ {r} /\ lastTxStatus' = "none"
      /\ lastQuote' = (IF b = NoKey THEN q ELSE [q EXCEPT !.build = b]) /\ sendOn' = (b # NoKey)
      /\ UNCHANGED <<server, loaded, wallet, form, touched, approvals, polls>>
  BY DEF QuoteArrives
<1>2. SyncVariantToggles(q, loaded, mev.checked, sponsored.checked, settlementMode)
  BY DEF QuoteArrives, SyncNow
<1>3. /\ mev.checked \in BOOLEAN /\ sponsored.checked \in BOOLEAN /\ settlementMode \in Modes
      /\ loaded \in BOOLEAN
  BY DEF IInv, TypeOK, Toggles
<1>4. /\ mev' \in Toggles /\ sponsored' \in Toggles /\ settlementMode' = settlementMode
      /\ ~(mev'.checked /\ mev'.disabled) /\ ~(sponsored'.checked /\ sponsored'.disabled)
  BY <1>2, <1>3, Synced
<1>5. r \in [form : Forms, wallet : Wallets] BY DEF IInv, TypeOK
<1>6. /\ q \in Answer /\ q.form = r.form /\ q.wallet = r.wallet
      /\ q.built \subseteq Buildable(q.form, q.full) /\ q.build \in q.built \cup {NoKey}
  BY <1>5, AnswerShape
<1>7. b = activeBuild(q, mev'.checked, sponsored'.checked, settlementMode) BY <1>4
<1> HIDE DEF b
<1>8. Display' /\ lastQuote'.form = r.form /\ lastQuote'.wallet = r.wallet
  <2>1. (sendOn' => b # NoKey) /\ server' = server BY <1>1
  <2>2. lastQuote' = IF b = NoKey THEN q ELSE [q EXCEPT !.build = b] BY <1>1
  <2>3. Display' /\ lastQuote'.form = q.form /\ lastQuote'.wallet = q.wallet
    BY <1>2, <1>3, <1>6, <1>7, <2>1, <2>2, Displayed
  <2> QED BY <1>6, <2>3
<1>9. TypeOK'
  <2>1. lastQuote' \in Answer \cup {NoQuote}
        /\ (lastQuote' # NoQuote => lastQuote'.build \in lastQuote'.built \cup {NoKey})
    BY <1>8 DEF Display
  <2> QED BY <1>1, <1>3, <1>4, <2>1, FewerAsked DEF IInv, TypeOK, Answer
<1>10. Undisturbed'
  <2>1. SUFFICES ASSUME ~touched PROVE Undisturbed' BY <1>1 DEF Undisturbed
  <2>2. asked' = {} /\ r.form = form /\ r.wallet = wallet BY <1>1, <2>1, OneAsked
  <2> QED BY <1>1, <1>8, <2>2 DEF Undisturbed
<1>11. IsFiniteSet(asked') BY <1>1, FewerAsked
<1> QED BY <1>8, <1>9, <1>10, <1>11, FromDisplay

LEMMA FailStep == ASSUME IInv, NEW r \in asked, QuoteFails(r) PROVE IInv'
<1>1. SyncVariantToggles(NoQuote, loaded, mev.checked, sponsored.checked, settlementMode)
  BY DEF QuoteFails, SyncNow
<1>2. /\ mev.checked \in BOOLEAN /\ sponsored.checked \in BOOLEAN /\ settlementMode \in Modes
      /\ loaded \in BOOLEAN
  BY DEF IInv, TypeOK, Toggles
<1>3. /\ mev' \in Toggles /\ sponsored' \in Toggles /\ settlementMode' = settlementMode
      /\ ~(mev'.checked /\ mev'.disabled) /\ ~(sponsored'.checked /\ sponsored'.disabled)
  BY <1>1, <1>2, Synced
<1>4. TypeOK' BY <1>3, FewerAsked DEF QuoteFails, IInv, TypeOK, sendVars
<1>5. Display' BY Blank DEF QuoteFails
<1>6. Undisturbed'
  <2>1. SUFFICES ASSUME ~touched PROVE Undisturbed' BY DEF Undisturbed, QuoteFails
  <2>2. asked' = {} BY <2>1, OneAsked DEF QuoteFails
  <2> QED BY <2>2 DEF Undisturbed, QuoteFails
<1>7. IsFiniteSet(asked') BY FewerAsked DEF QuoteFails
<1> QED BY <1>4, <1>5, <1>6, <1>7, FromDisplay

LEMMA LostStep == ASSUME IInv, NEW r \in asked, QuoteLost(r) PROVE IInv'
<1>1. Display' BY DisplayKept DEF QuoteLost
<1>2. TypeOK' BY FewerAsked DEF QuoteLost, IInv, TypeOK, toggleVars, sendVars
<1>3. IsFiniteSet(asked') BY FewerAsked DEF QuoteLost
<1> QED BY <1>1, <1>2, <1>3, FromDisplay DEF QuoteLost, Undisturbed

LEMMA ToggleStep ==
  ASSUME IInv, NEW mevTick \in BOOLEAN, NEW sponsoredTick \in BOOLEAN, NEW m \in Modes,
         OnVariantToggle(mevTick, sponsoredTick, m)
  PROVE  IInv'
<1> DEFINE b == activeBuild(lastQuote, mev'.checked, sponsored'.checked, m)
<1>1. /\ SyncVariantToggles(lastQuote, loaded, mevTick, sponsoredTick, m)
      /\ lastQuote' = (IF b = NoKey THEN lastQuote ELSE [lastQuote EXCEPT !.build = b])
      /\ sendOn' = IF lastQuote = NoQuote THEN sendOn ELSE b # NoKey /\ wallet # NoWallet
      /\ touched' = (touched \/ asked # {})
      /\ UNCHANGED <<server, loaded, wallet, form, asked, sendVars>>
  BY DEF OnVariantToggle
<1>2. loaded \in BOOLEAN /\ sendOn \in BOOLEAN BY DEF IInv, TypeOK
<1>3. /\ mev' \in Toggles /\ sponsored' \in Toggles /\ settlementMode' = m
      /\ ~(mev'.checked /\ mev'.disabled) /\ ~(sponsored'.checked /\ sponsored'.disabled)
  BY <1>1, <1>2, Synced
<1>4. /\ Display'
      /\ (lastQuote' = NoQuote <=> lastQuote = NoQuote)
      /\ (lastQuote # NoQuote => /\ lastQuote'.form = lastQuote.form
                                 /\ lastQuote'.wallet = lastQuote.wallet)
  <2>1. CASE lastQuote = NoQuote
    <3>1. b = NoKey BY <2>1 DEF activeBuild
    <3>2. lastQuote' = NoQuote BY <1>1, <2>1, <3>1
    <3> QED BY <2>1, <3>2, Blank
  <2>2. CASE lastQuote # NoQuote
    <3>1. /\ lastQuote \in Answer
          /\ lastQuote.built \subseteq Buildable(lastQuote.form, lastQuote.full)
          /\ lastQuote.build \in lastQuote.built \cup {NoKey}
      BY <2>2 DEF IInv, Typed, AnswerOffered, TypeOK
    <3>2. sendOn' => b # NoKey BY <1>1, <2>2
    <3> HIDE DEF b
    <3>3. b = activeBuild(lastQuote, mev'.checked, sponsored'.checked, m) BY DEF b
    <3> QED BY <1>1, <1>2, <2>2, <3>1, <3>2, <3>3, Displayed
  <2> QED BY <2>1, <2>2
<1>5. sendOn' \in BOOLEAN BY <1>1, <1>2
<1> HIDE DEF b
<1>6. TypeOK'
  <2>1. lastQuote' \in Answer \cup {NoQuote}
        /\ (lastQuote' # NoQuote => lastQuote'.build \in lastQuote'.built \cup {NoKey})
    BY <1>4 DEF Display
  <2> QED BY <1>1, <1>3, <1>5, <2>1 DEF IInv, TypeOK, Answer, sendVars
<1>7. Undisturbed' BY <1>1, <1>4 DEF IInv, Undisturbed
<1> QED BY <1>1, <1>4, <1>6, <1>7, FromDisplay DEF IInv, Typed

LEMMA TogglingSteps == ASSUME IInv, ToggleMev \/ ToggleSponsored \/ SelectMode PROVE IInv'
<1>1. mev.checked \in BOOLEAN /\ sponsored.checked \in BOOLEAN /\ settlementMode \in Modes
  BY DEF IInv, TypeOK, Toggles
<1>2. (~mev.checked) \in BOOLEAN /\ (~sponsored.checked) \in BOOLEAN OBVIOUS
<1>3. CASE ToggleMev BY <1>1, <1>2, <1>3, ToggleStep DEF ToggleMev
<1>4. CASE ToggleSponsored BY <1>1, <1>2, <1>4, ToggleStep DEF ToggleSponsored
<1>5. CASE SelectMode BY <1>1, <1>5, ToggleStep DEF SelectMode
<1> QED BY <1>3, <1>4, <1>5

LEMMA SendSteps ==
  ASSUME IInv, SendTx \/ Approve \/ Decline \/ Confirm \/ UNCHANGED vars PROVE IInv'
<1>1. UNCHANGED <<server, loaded, wallet, sendOn, quoteVars, toggleVars>>
  BY DEF SendTx, Approve, Decline, Confirm, vars
<1>2. Display' BY <1>1, DisplayKept DEF quoteVars
<1>3. TypeOK'
  <2>1. approvals \in 0..MaxSends /\ polls \in 0..MaxSends /\ MaxSends \in Nat
    BY PageAssumption DEF IInv, TypeOK
  <2>2. approvals' \in 0..MaxSends /\ polls' \in 0..MaxSends
    BY <2>1 DEF SendTx, Approve, Decline, Confirm, vars, sendVars
  <2>3. lastTxStatus' \in {"none", "pending", "confirmed", "failed"}
    BY DEF SendTx, Approve, Decline, Confirm, vars, sendVars, IInv, TypeOK
  <2> QED BY <1>1, <2>2, <2>3 DEF IInv, TypeOK, quoteVars, toggleVars
<1>4. Undisturbed' BY <1>1 DEF IInv, Undisturbed, quoteVars
<1> QED BY <1>1, <1>2, <1>3, <1>4, FromDisplay DEF quoteVars, IInv, Typed

LEMMA Inductive == IInv /\ [Next]_vars => IInv'
<1> SUFFICES ASSUME IInv, [Next]_vars PROVE IInv' OBVIOUS
<1>1. CASE \E r \in asked : \E q \in Answers(r) : QuoteArrives(r, q) BY <1>1, ArriveStep
<1>2. CASE \E r \in asked : QuoteFails(r) \/ QuoteLost(r) BY <1>2, FailStep, LostStep
<1>3. CASE \E f \in Forms : EditForm(f) BY <1>3, EditStep
<1> QED BY <1>1, <1>2, <1>3, LoadStep, WalletStep, FlipStep, AskStep, TogglingSteps, SendSteps
        DEF Next

LEMMA Initially == Init => IInv
<1> SUFFICES ASSUME Init PROVE IInv OBVIOUS
<1>1. IsFiniteSet({}) /\ Cardinality({}) = 0 BY FS_EmptySet
<1>2. TypeOK
  <2>1. /\ 0 \in 0..MaxSends /\ Cardinality({}) <= MaxQuotes BY <1>1, PageAssumption
  <2>2. [checked |-> FALSE, disabled |-> FALSE] \in Toggles BY DEF Toggles
  <2>3. ~[checked |-> FALSE, disabled |-> FALSE].checked OBVIOUS
  <2> QED BY <2>1, <2>2, <2>3 DEF Init, TypeOK, Modes
<1> QED BY <1>1, <1>2
    DEF Init, IInv, Typed, AnswerOffered, MevAgreed, ShownIsSent, Undisturbed

-----------------------------------------------------------------------------
(* The theorems.                                                           *)

(* The invariant holds in every behaviour, for every value of the constants. *)
THEOREM PageInvariant == Spec => []IInv
BY Initially, Inductive, PTL DEF Spec

(* The page's state is well formed, and a disabled toggle is never ticked,    *)
(* whatever answer, edit or configuration came last.                          *)
THEOREM PageTypeCorrect == Spec => []TypeOK
<1>1. IInv => TypeOK BY DEF IInv
<1> QED BY <1>1, PageInvariant, PTL

(* However answers, clicks, edits and the configuration interleave: while     *)
(* Send is enabled, what it hands to the wallet is what the page shows.       *)
THEOREM ShownSent == Spec => []ShownIsSent
<1>1. IInv => ShownIsSent BY DEF IInv
<1> QED BY <1>1, PageInvariant, PTL

LEMMA OffersWhatItShows == IInv => UntouchedOffersForm
<1> SUFFICES ASSUME IInv, Sendable, ~touched
             PROVE  lastQuote.form = form /\ lastQuote.wallet = wallet
  BY DEF UntouchedOffersForm
<1>1. lastQuote # NoQuote BY DEF Sendable, Active, activeBuild
<1> QED BY <1>1 DEF IInv, Undisturbed, Sendable

(* A page used one step at a time, with no edit while a quote was out,        *)
(* offers a transaction for exactly what its fields and its wallet say.       *)
THEOREM UntouchedOffers == Spec => []UntouchedOffersForm
BY OffersWhatItShows, PageInvariant, PTL
=============================================================================
