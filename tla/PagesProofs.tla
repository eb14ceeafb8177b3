------------------------------ MODULE PagesProofs ------------------------------
(***************************************************************************)
(* The pages beyond the small instance of the run: the draw of a reading,  *)
(* the panel that asks for its interpretation, the bus of the server, the  *)
(* section of comments, the pill of new posts, the feed and the composer,  *)
(* for any number of requests, cards, questions, attempts, comments, posts *)
(* and images.                                                             *)
(***************************************************************************)
EXTENDS PagesMC, Sequences, FiniteSetTheorems, NaturalsInduction, WellFoundedInduction, TLAPS

\* A set of numbers has a least one, and a finite one has a greatest.
LEMMA LeastOf ==
  ASSUME NEW S \in SUBSET Nat, S # {}
  PROVE  \E x \in S : \A y \in S : x <= y
<1> DEFINE R == OpToRel(<, Nat)
<1>1. IsWellFoundedOn(R, Nat)
  BY NatLessThanWellFounded
<1>2. \A x, y \in Nat : y < x => <<y, x>> \in R
  BY DEF OpToRel
<1> HIDE DEF R
<1>3. PICK x \in S : \A y \in S : ~ (<<y, x>> \in R)
  BY <1>1, WFMin
<1>4. ASSUME NEW y \in S PROVE x <= y
  <2>1. x \in Nat /\ y \in Nat
    OBVIOUS
  <2>2. ~ (y < x)
    BY <1>2, <1>3, <2>1
  <2> QED
    BY <2>1, <2>2
<1> QED
  BY <1>4

LEMMA GreatestOf ==
  ASSUME NEW S \in SUBSET Nat, S # {}, IsFiniteSet(S)
  PROVE  \E x \in S : \A y \in S : x >= y
<1> DEFINE Above(d) == {e \in S : e > d}
           K == {Cardinality(Above(d)) : d \in S}
<1>1. \A d \in S : IsFiniteSet(Above(d)) /\ Cardinality(Above(d)) \in Nat
  <2> SUFFICES ASSUME NEW d \in S PROVE IsFiniteSet(Above(d)) /\ Cardinality(Above(d)) \in Nat
    OBVIOUS
  <2>1. Above(d) \in SUBSET S
    OBVIOUS
  <2>2. IsFiniteSet(Above(d))
    BY <2>1, FS_Subset
  <2> QED
    BY <2>2, FS_CardinalityType
<1>2. K \in SUBSET Nat /\ K # {}
  BY <1>1
<1>3. PICK d \in S : \A e \in S : Cardinality(Above(d)) <= Cardinality(Above(e))
  <2>1. PICK n \in K : \A k \in K : n <= k
    BY <1>2, LeastOf
  <2> QED
    BY <2>1
<1>4. ASSUME NEW e \in S, e > d PROVE FALSE
  <2>1. Above(e) \in SUBSET Above(d) /\ e \in Above(d) /\ e \notin Above(e)
    <3>1. e \in Nat /\ d \in Nat /\ \A x \in S : x \in Nat
      OBVIOUS
    <3>2. \A x \in S : x > e => x > d
      BY <1>4, <3>1
    <3>3. e > d /\ ~(e > e)
      BY <1>4, <3>1
    <3> QED
      BY <3>2, <3>3
  <2>2. Above(e) # Above(d)
    BY <2>1
  <2>3. Cardinality(Above(e)) <= Cardinality(Above(d))
        /\ Cardinality(Above(e)) # Cardinality(Above(d))
    BY <1>1, <2>1, <2>2, FS_Subset
  <2>4. Cardinality(Above(d)) <= Cardinality(Above(e))
    BY <1>3
  <2> HIDE DEF Above
  <2> QED
    BY <1>1, <2>3, <2>4
<1>5. \A y \in S : d >= y
  <2> SUFFICES ASSUME NEW y \in S PROVE d >= y
    OBVIOUS
  <2>1. d \in Nat /\ y \in Nat /\ ~(y > d)
    BY <1>4
  <2> QED
    BY <2>1
<1> QED
  BY <1>5

-----------------------------------------------------------------------------
(* The draw.  A request belongs to the page as it is as long as nothing     *)
(* has moved the page on since: then the page waits for it, and the cards   *)
(* it brings are those of the session.                                      *)

LEMMA DrawSets ==
  /\ \A S : D!IsFiniteSet(S) <=> IsFiniteSet(S)
  /\ \A S : D!Cardinality(S) = Cardinality(S)
<1>1. \A S : D!IsFiniteSet(S) <=> IsFiniteSet(S)
  BY DEF D!IsFiniteSet, IsFiniteSet
<1>2. \A S : D!Cardinality(S) = Cardinality(S)
  BY DEF D!Cardinality, Cardinality
<1> QED
  BY <1>1, <1>2

LEMMA DrawLeast ==
  ASSUME NEW S \in SUBSET Nat, S # {}
  PROVE  D!Min(S) \in S /\ \A y \in S : D!Min(S) <= y
  BY LeastOf DEF D!Min

DrawSent(p) == draw[p].pc \notin {"none", "over"}

\* A request asked for by the page as it is.
OfPage(p) == draw[p].pc # "none" /\ draw[p].seq = view.drawSeq

DrawsInTurn ==
  /\ \A p \in D!Draws : draw[p].pc # "none" =>
       draw[p].seq <= view.drawSeq /\ (view.mounted \/ draw[p].seq < view.drawSeq)
  /\ \A p, q \in D!Draws : draw[p].pc # "none" /\ draw[q].pc # "none" /\ draw[p].seq = draw[q].seq => p = q

PageAwaits ==
  view.mounted =>
    /\ view.drawStarted <=> store.step = "draw"
    /\ \A p \in D!Draws : OfPage(p) /\ DrawSent(p) =>
         /\ store.step = "draw"
         /\ draw[p].deckId = store.deckId /\ draw[p].spreadId = store.spreadId

DrawRows ==
  /\ \A p \in drawn : draw[p].pc \in {"ok", "refused", "over"}
  /\ \A p \in D!Draws : draw[p].pc = "ok" => p \in drawn
  /\ \A p \in D!Draws : draw[p].pc = "counted" => draw[p].count < DayLimit

DrawInv == D!TypeOK /\ DrawsInTurn /\ PageAwaits /\ DrawRows /\ D!OwnCards /\ D!EveryCardTurns /\ D!LimitPassedByRace /\ D!DrawInFlight

LEMMA DrawInit == D!SessionAssumption /\ D!Init => DrawInv
<1> SUFFICES ASSUME D!SessionAssumption, D!Init PROVE DrawInv
  OBVIOUS
<1>1. D!TypeOK
  <2>1. store \in D!Session
    BY DEF D!Init, D!Session, D!initialState, D!NoReading, D!Draws, D!SessionAssumption
  <2>2. view \in D!View
    BY DEF D!Init, D!View, D!SessionAssumption
  <2>3. [pc |-> "none", deckId |-> None, spreadId |-> None, seq |-> 0, count |-> 0] \in D!Draw
    BY DEF D!Draw, D!SessionAssumption
  <2>4. draw \in [D!Draws -> D!Draw] /\ drawn \subseteq D!Draws /\ raced \in BOOLEAN
    BY <2>3 DEF D!Init
  <2> QED
    BY <2>1, <2>2, <2>4 DEF D!TypeOK
<1>2. \A p \in D!Draws : draw[p].pc = "none"
  BY DEF D!Init
<1>3. Cardinality(drawn) = 0 /\ DayLimit \in Nat
  BY FS_EmptySet DEF D!Init, D!SessionAssumption
<1> QED
  BY DrawSets, <1>1, <1>2, <1>3 DEF DrawInv, D!Init, DrawsInTurn, PageAwaits, DrawRows, D!OwnCards,
     D!EveryCardTurns,
     D!LimitPassedByRace, D!DrawInFlight, D!initialState, D!AtStep

\* What a draw that is sent leaves behind.
LEMMA DrawLeaves ==
  ASSUME D!SessionAssumption, D!TypeOK, DrawsInTurn, NEW v \in D!View, D!runDraw(v), v.mounted, v.drawSeq = view.drawSeq
  PROVE  /\ view' \in D!View /\ draw' \in [D!Draws -> D!Draw]
         /\ view'.mounted /\ view'.drawSeq = v.drawSeq + 1 /\ view'.drawStarted /\ ~view'.drawError
         /\ view'.timers = v.timers /\ view'.hidden = v.hidden
         /\ \E p \in D!Draws :
              /\ draw[p].pc = "none" /\ draw'[p].pc = "sent" /\ draw'[p].seq = v.drawSeq + 1
              /\ draw'[p].deckId = store.deckId /\ draw'[p].spreadId = store.spreadId
              /\ \A q \in D!Draws \ {p} : draw'[q] = draw[q]
<1> DEFINE p == D!Min(D!Unsent)
           sent == [pc |-> "sent", deckId |-> store.deckId, spreadId |-> store.spreadId,
                    seq |-> v.drawSeq + 1, count |-> 0]
<1>1. p \in D!Draws /\ draw[p].pc = "none"
  <2>1. D!Unsent \in SUBSET Nat /\ D!Unsent # {}
    BY DEF D!Unsent, D!Draws, D!runDraw
  <2>2. p \in D!Unsent
    BY <2>1, DrawLeast
  <2> QED
    BY <2>2 DEF D!Unsent
<1>2. v.drawSeq \in Nat /\ v.drawSeq < DrawSeq /\ DrawSeq \in Nat
  BY DEF D!View, D!runDraw, D!SessionAssumption
<1>3. store.deckId \in Decks \cup {None} /\ store.spreadId \in Spreads \cup {None}
  BY DEF D!TypeOK, D!Session
<1>4. sent \in D!Draw
  BY <1>2, <1>3 DEF D!Draw
<1>5. sent.pc = "sent" /\ sent.seq = v.drawSeq + 1 /\ sent.deckId = store.deckId
      /\ sent.spreadId = store.spreadId
  OBVIOUS
<1>6. draw' = [draw EXCEPT ![p] = sent]
      /\ view' = [v EXCEPT !.drawSeq = @ + 1, !.drawStarted = TRUE, !.drawError = FALSE]
  BY DEF D!runDraw
<1>7. view' \in D!View /\ view'.mounted = v.mounted /\ view'.drawSeq = v.drawSeq + 1
      /\ view'.drawStarted /\ ~view'.drawError
      /\ view'.timers = v.timers /\ view'.hidden = v.hidden
  <2>1. v.drawSeq + 1 \in 0..DrawSeq
    BY <1>2
  <2>2. view' \in D!View
    BY <1>6, <2>1 DEF D!View
  <2>3. view'.mounted = v.mounted /\ view'.drawSeq = v.drawSeq + 1 /\ view'.timers = v.timers
        /\ view'.hidden = v.hidden
    BY <1>6 DEF D!View
  <2>4. view'.drawStarted
    BY <1>6 DEF D!View
  <2>5. ~view'.drawError
    BY <1>6 DEF D!View
  <2> QED
    BY <2>2, <2>3, <2>4, <2>5
<1> HIDE DEF sent, p
<1>8. draw' \in [D!Draws -> D!Draw]
  BY <1>1, <1>4, <1>6 DEF D!TypeOK
<1>9. draw'[p] = sent /\ \A q \in D!Draws \ {p} : draw'[q] = draw[q]
  BY <1>1, <1>6 DEF D!TypeOK
<1> QED
  BY <1>1, <1>5, <1>7, <1>8, <1>9

LEMMA DrawStep == D!SessionAssumption /\ DrawInv /\ [D!Next]_D!vars => DrawInv'
<1> SUFFICES ASSUME D!SessionAssumption, DrawInv, [D!Next]_D!vars PROVE DrawInv'
  OBVIOUS
<1>0. /\ CardCount \in Nat /\ DayLimit \in Nat /\ MaxDraws \in Nat /\ DrawSeq \in Nat
      /\ None \notin Decks /\ None \notin Spreads
      /\ store \in D!Session /\ view \in D!View /\ draw \in [D!Draws -> D!Draw]
      /\ drawn \subseteq D!Draws /\ raced \in BOOLEAN
      /\ view.drawSeq \in Nat /\ \A p \in D!Draws : draw[p].seq \in Nat /\ draw[p] \in D!Draw
      /\ store.flippedCards \subseteq D!Positions
  BY DEF D!SessionAssumption, DrawInv, D!TypeOK, D!View, D!Draw, D!Session
<1>r. DrawsInTurn /\ PageAwaits /\ DrawRows /\ D!OwnCards /\ D!EveryCardTurns /\ D!LimitPassedByRace
      /\ D!DrawInFlight /\ D!TypeOK
  BY DEF DrawInv
<1>c. IsFiniteSet(drawn) /\ Cardinality(drawn) \in Nat
  <2>1. IsFiniteSet(D!Draws)
    BY <1>0, FS_Interval DEF D!Draws
  <2>2. IsFiniteSet(drawn)
    BY <1>0, <2>1, FS_Subset
  <2> QED
    BY <2>2, FS_CardinalityType
<1>1. ASSUME NEW d \in Decks, D!selectDeck(d) PROVE DrawInv'
  <2>1. /\ D!AtStep("deck") /\ store' = [store EXCEPT !.deckId = d, !.step = "spread"]
        /\ UNCHANGED <<view, draw, drawn, raced>>
    BY <1>1 DEF D!selectDeck
  <2>2. D!TypeOK'
    BY <1>0, <2>1 DEF D!TypeOK, D!Session
  <2> QED
    BY <1>0, <1>r, <2>1, <2>2 DEF D!Session, DrawInv, DrawsInTurn, PageAwaits, DrawRows,
       D!OwnCards, D!EveryCardTurns, D!LimitPassedByRace, D!DrawInFlight, D!AtStep, OfPage, DrawSent
<1>2. ASSUME NEW s \in Spreads, D!selectSpread(s) PROVE DrawInv'
  <2>1. /\ D!AtStep("spread") /\ store' = [store EXCEPT !.spreadId = s, !.step = "question"]
        /\ UNCHANGED <<view, draw, drawn, raced>>
    BY <1>2 DEF D!selectSpread
  <2>2. D!TypeOK'
    BY <1>0, <2>1 DEF D!TypeOK, D!Session
  <2> QED
    BY <1>0, <1>r, <2>1, <2>2 DEF D!Session, DrawInv, DrawsInTurn, PageAwaits, DrawRows,
       D!OwnCards, D!EveryCardTurns, D!LimitPassedByRace, D!DrawInFlight, D!AtStep, OfPage, DrawSent
<1>3. CASE D!startDraw
  <2>1. /\ D!AtStep("question") /\ store' = [store EXCEPT !.step = "draw"]
        /\ UNCHANGED <<drawn, raced>> /\ ~view.drawStarted /\ D!runDraw(view)
    BY <1>3, <1>r DEF D!startDraw, D!AtStep, PageAwaits
  <2>2. /\ store' \in D!Session /\ store'.step = "draw" /\ store'.deckId = store.deckId
        /\ store'.spreadId = store.spreadId
        /\ store'.cards = store.cards /\ store'.flippedCards = store.flippedCards
    BY <1>0, <2>1 DEF D!Session
  <2>3. view.mounted /\ store.step # "reveal"
    BY <2>1 DEF D!AtStep
  <2>4. /\ view' \in D!View /\ draw' \in [D!Draws -> D!Draw]
        /\ view'.mounted /\ view'.drawSeq = view.drawSeq + 1 /\ view'.drawStarted
        /\ ~view'.drawError
    BY <1>0, <1>r, <2>1, <2>3, DrawLeaves
  <2>5. PICK p \in D!Draws :
              /\ draw[p].pc = "none" /\ draw'[p].pc = "sent" /\ draw'[p].seq = view.drawSeq + 1
              /\ draw'[p].deckId = store.deckId /\ draw'[p].spreadId = store.spreadId
              /\ \A q \in D!Draws \ {p} : draw'[q] = draw[q]
    BY <1>0, <1>r, <2>1, <2>3, DrawLeaves
  <2>6. D!TypeOK'
    BY <1>0, <2>1, <2>2, <2>4 DEF D!TypeOK
  <2> QED
    BY <1>0, <1>r, <2>1, <2>2, <2>3, <2>4, <2>5, <2>6 DEF DrawInv, DrawsInTurn, PageAwaits,
       DrawRows, D!OwnCards, D!EveryCardTurns, D!LimitPassedByRace, D!DrawInFlight, D!AtStep,
       OfPage, DrawSent
<1>4. CASE D!retryDraw
  <2>1. /\ D!AtStep("draw") /\ UNCHANGED <<store, drawn, raced>> /\ D!runDraw(view)
    BY <1>4 DEF D!retryDraw
  <2>3. view.mounted /\ store.step # "reveal"
    BY <2>1 DEF D!AtStep
  <2>4. /\ view' \in D!View /\ draw' \in [D!Draws -> D!Draw]
        /\ view'.mounted /\ view'.drawSeq = view.drawSeq + 1 /\ view'.drawStarted
        /\ ~view'.drawError
    BY <1>0, <1>r, <2>1, <2>3, DrawLeaves
  <2>5. PICK p \in D!Draws :
              /\ draw[p].pc = "none" /\ draw'[p].pc = "sent" /\ draw'[p].seq = view.drawSeq + 1
              /\ draw'[p].deckId = store.deckId /\ draw'[p].spreadId = store.spreadId
              /\ \A q \in D!Draws \ {p} : draw'[q] = draw[q]
    BY <1>0, <1>r, <2>1, <2>3, DrawLeaves
  <2>6. D!TypeOK'
    BY <1>0, <2>1, <2>4 DEF D!TypeOK
  <2> QED
    BY <1>0, <1>r, <2>1, <2>3, <2>4, <2>5, <2>6 DEF DrawInv, DrawsInTurn, PageAwaits, DrawRows,
       D!OwnCards, D!EveryCardTurns, D!LimitPassedByRace, D!DrawInFlight, D!AtStep, OfPage, DrawSent
<1>5. CASE D!handleReset
  <2>1. /\ view.mounted /\ view.drawSeq < DrawSeq /\ store' = D!initialState /\ UNCHANGED <<draw,
                                                                                            drawn,
                                                                                            raced>>
        /\ view' = [view EXCEPT !.drawSeq = @ + 1, !.drawStarted = FALSE, !.timers = {}, !.hidden = {}]
    BY <1>5 DEF D!handleReset, D!StartedOutside
  <2>2. /\ view' \in D!View /\ view'.mounted /\ view'.drawSeq = view.drawSeq + 1
        /\ ~view'.drawStarted
    <3>1. view.drawSeq + 1 \in 0..DrawSeq
      BY <1>0, <2>1
    <3>2. view' \in D!View
      BY <1>0, <2>1, <3>1 DEF D!View
    <3>3. view'.mounted = view.mounted /\ view'.drawSeq = view.drawSeq + 1
      BY <1>0, <2>1 DEF D!View
    <3>4. ~view'.drawStarted
      BY <1>0, <2>1 DEF D!View
    <3> QED
      BY <2>1, <3>2, <3>3, <3>4
  <2>3. /\ store' \in D!Session /\ store'.step = "deck" /\ store'.cards = D!NoReading
        /\ store'.flippedCards = {}
    BY <1>0, <2>1 DEF D!initialState, D!Session, D!NoReading
  <2>6. D!TypeOK'
    BY <1>0, <2>1, <2>2, <2>3 DEF D!TypeOK
  <2> QED
    BY <1>0, <1>r, <2>1, <2>2, <2>3, <2>6 DEF DrawInv, DrawsInTurn, PageAwaits, DrawRows,
       D!OwnCards, D!EveryCardTurns, D!LimitPassedByRace, D!DrawInFlight, D!AtStep, OfPage, DrawSent
<1>6. CASE D!resetElsewhere
  <2>1. /\ ~view.mounted /\ store' = D!initialState /\ UNCHANGED <<view, draw, drawn, raced>>
    BY <1>6 DEF D!resetElsewhere
  <2>3. /\ store' \in D!Session /\ store'.step = "deck" /\ store'.cards = D!NoReading
        /\ store'.flippedCards = {}
    BY <1>0, <2>1 DEF D!initialState, D!Session, D!NoReading
  <2>6. D!TypeOK'
    BY <1>0, <2>1, <2>3 DEF D!TypeOK
  <2> QED
    BY <1>0, <1>r, <2>1, <2>3, <2>6 DEF DrawInv, DrawsInTurn, PageAwaits, DrawRows, D!OwnCards,
       D!EveryCardTurns, D!LimitPassedByRace, D!DrawInFlight, D!AtStep, OfPage, DrawSent
<1>7. CASE D!Mount
  <2> DEFINE fresh == [view EXCEPT !.mounted = TRUE, !.drawStarted = FALSE,
                               !.drawError = FALSE, !.hidden = {},
                               !.timers = IF store.step = "reveal"
                                            THEN D!faceDown(store) ELSE {}]
  <2>1. /\ ~view.mounted /\ UNCHANGED <<store, drawn, raced>>
        /\ IF store.step = "draw" THEN D!runDraw(fresh) ELSE view' = fresh /\ UNCHANGED draw
    BY <1>7 DEF D!Mount
  <2>2. /\ fresh \in D!View /\ fresh.mounted /\ ~fresh.drawStarted /\ fresh.drawSeq = view.drawSeq
        /\ store.step = "reveal" => fresh.timers = D!Positions \ store.flippedCards
    BY <1>0 DEF D!View, D!faceDown
  <2> HIDE DEF fresh
  <2>3. CASE store.step = "draw"
    <3>1. D!runDraw(fresh)
      BY <2>1, <2>3
    <3>4. /\ view' \in D!View /\ draw' \in [D!Draws -> D!Draw]
          /\ view'.mounted /\ view'.drawSeq = view.drawSeq + 1 /\ view'.drawStarted
          /\ ~view'.drawError
      BY <1>0, <1>r, <2>2, <3>1, DrawLeaves
    <3>5. PICK p \in D!Draws :
              /\ draw[p].pc = "none" /\ draw'[p].pc = "sent" /\ draw'[p].seq = view.drawSeq + 1
              /\ draw'[p].deckId = store.deckId /\ draw'[p].spreadId = store.spreadId
              /\ \A q \in D!Draws \ {p} : draw'[q] = draw[q]
      BY <1>0, <1>r, <2>2, <3>1, DrawLeaves
    <3>6. D!TypeOK'
      BY <1>0, <2>1, <3>4 DEF D!TypeOK
    <3> QED
      BY <1>0, <1>r, <2>1, <2>3, <3>4, <3>5, <3>6 DEF DrawInv, DrawsInTurn, PageAwaits, DrawRows,
         D!OwnCards, D!EveryCardTurns, D!LimitPassedByRace, D!DrawInFlight, D!AtStep, OfPage,
         DrawSent
  <2>4. CASE store.step # "draw"
    <3>1. view' = fresh /\ UNCHANGED draw
      BY <2>1, <2>4
    <3>6. D!TypeOK'
      BY <1>0, <2>1, <2>2, <3>1 DEF D!TypeOK
    <3> QED
      BY <1>0, <1>r, <2>1, <2>2, <2>4, <3>1, <3>6 DEF DrawInv, DrawsInTurn, PageAwaits, DrawRows,
         D!OwnCards, D!EveryCardTurns, D!LimitPassedByRace, D!DrawInFlight, D!AtStep, OfPage,
         DrawSent
  <2> QED
    BY <2>3, <2>4
<1>8. CASE D!Leave
  <2>1. /\ view.mounted /\ view.drawSeq < DrawSeq /\ UNCHANGED <<draw, drawn, raced>>
        /\ view' = [view EXCEPT !.mounted = FALSE, !.drawSeq = @ + 1, !.timers = {}]
        /\ store' \in {store, D!partialize(store)}
    BY <1>8 DEF D!Leave, D!unmounted
  <2>2. /\ view' \in D!View /\ ~view'.mounted /\ view'.drawSeq = view.drawSeq + 1
    <3>1. view.drawSeq + 1 \in 0..DrawSeq
      BY <1>0, <2>1
    <3>2. view' \in D!View
      BY <1>0, <2>1, <3>1 DEF D!View
    <3>3. view'.drawSeq = view.drawSeq + 1
      BY <1>0, <2>1 DEF D!View
    <3>4. ~view'.mounted
      BY <1>0, <2>1 DEF D!View
    <3> QED
      BY <3>2, <3>3, <3>4
  <2>3. /\ store' \in D!Session /\ store'.cards = store.cards
        /\ store'.flippedCards = store.flippedCards
        /\ store'.createdReadingId = store.createdReadingId /\ store'.deckId = store.deckId
        /\ store'.spreadId = store.spreadId
        /\ store'.step = "reveal" <=> store.step = "reveal"
    BY <1>0, <2>1 DEF D!partialize, D!Session
  <2>6. D!TypeOK'
    BY <1>0, <2>1, <2>2, <2>3 DEF D!TypeOK
  <2> QED
    BY <1>0, <1>r, <2>1, <2>2, <2>3, <2>6 DEF DrawInv, DrawsInTurn, PageAwaits, DrawRows,
       D!OwnCards, D!EveryCardTurns, D!LimitPassedByRace, D!DrawInFlight, D!AtStep, OfPage, DrawSent
<1>9. ASSUME NEW p \in D!Draws, D!Route(p) PROVE DrawInv'
  <2>1. /\ UNCHANGED <<store, view>> /\ draw' \in [D!Draws -> D!Draw]
        /\ \A q \in D!Draws \ {p} : draw'[q] = draw[q]
        /\ draw'[p].seq = draw[p].seq /\ draw'[p].deckId = draw[p].deckId
        /\ draw'[p].spreadId = draw[p].spreadId
        /\ DrawSent(p) /\ DrawSent(p)'
    <3>1. CASE D!getDailyLimitStatus(p)
      BY <1>0, <3>1 DEF D!getDailyLimitStatus, D!Goto, DrawSent, D!Draw
    <3>2. CASE D!CountInTransaction(p)
      <4>1. D!count \in Nat
        BY DrawSets, <1>c DEF D!count
      <4> QED
        BY <1>0, <3>2, <4>1, ZenonT(30) DEF D!CountInTransaction, DrawSent, D!Draw
    <3>3. CASE D!CreateReading(p)
      BY <1>0, <3>3 DEF D!CreateReading, D!Goto, DrawSent, D!Draw
    <3>4. CASE D!Fail(p)
      BY <1>0, <3>4 DEF D!Fail, D!Goto, DrawSent, D!Draw
    <3> QED
      BY <1>9, <3>1, <3>2, <3>3, <3>4 DEF D!Route
  <2>2. /\ drawn \subseteq drawn' /\ drawn' \subseteq drawn \cup {p} /\ raced' \in BOOLEAN
        /\ DrawRows' /\ D!LimitPassedByRace'
    <3>0. /\ IsFiniteSet(drawn) /\ Cardinality(drawn) \in Nat
          /\ p \notin drawn => Cardinality(drawn \cup {p}) = Cardinality(drawn) + 1
      BY <1>c, FS_AddElement
    <3>1. CASE D!getDailyLimitStatus(p)
      BY <1>0, <1>r, <3>1 DEF D!getDailyLimitStatus, D!Goto, D!Draw, DrawRows, D!LimitPassedByRace
    <3>2. CASE D!CountInTransaction(p)
      BY <1>0, <1>r, <3>0, <3>2 DEF D!CountInTransaction, D!Draw, DrawRows, D!LimitPassedByRace,
         D!BelowLimit, D!count
    <3>3. CASE D!CreateReading(p)
      <4>1. p \notin drawn /\ drawn' = drawn \cup {p} /\ raced' = (raced \/ draw[p].count # D!count)
            /\ draw[p].count < DayLimit /\ draw[p].count \in Nat
        BY <1>0, <1>r, <3>3 DEF D!CreateReading, DrawRows, D!Draw
      <4>2. draw'[p].pc = "ok"
        BY <1>0, <3>3 DEF D!CreateReading, D!Goto, D!Draw
      <4>3. DrawRows'
        BY <1>0, <1>r, <2>1, <4>1, <4>2 DEF DrawRows
      <4>4. D!LimitPassedByRace'
        <5>1. CASE draw[p].count # D!count
          BY <4>1, <5>1 DEF D!LimitPassedByRace
        <5>2. CASE draw[p].count = D!count
          BY DrawSets, <1>0, <3>0, <4>1, <5>2 DEF D!LimitPassedByRace, D!count
        <5> QED
          BY <5>1, <5>2
      <4> QED
        BY <4>1, <4>3, <4>4
    <3>4. CASE D!Fail(p)
      BY <1>0, <1>r, <3>4 DEF D!Fail, D!Goto, D!Draw, DrawRows, D!LimitPassedByRace
    <3> QED
      BY <1>9, <3>1, <3>2, <3>3, <3>4 DEF D!Route
  <2>3. D!TypeOK'
    BY <1>0, <2>1, <2>2 DEF D!TypeOK
  <2> QED
    BY <1>0, <1>r, <2>1, <2>2, <2>3 DEF DrawInv, DrawsInTurn, PageAwaits, D!OwnCards,
       D!EveryCardTurns, D!DrawInFlight, D!AtStep, OfPage, DrawSent
<1>14. ASSUME NEW p \in D!Draws, D!Answer(p) PROVE DrawInv'
  <2>1. /\ draw[p].pc \in {"ok", "refused"} /\ UNCHANGED <<drawn, raced>> /\ D!Goto(p, "over")
    BY <1>14 DEF D!Answer
  <2>2. /\ draw' \in [D!Draws -> D!Draw] /\ \A q \in D!Draws \ {p} : draw'[q] = draw[q]
        /\ draw'[p].seq = draw[p].seq /\ draw'[p].deckId = draw[p].deckId
        /\ draw'[p].spreadId = draw[p].spreadId
        /\ draw'[p].pc = "over"
    BY <1>0, <2>1 DEF D!Goto, D!Draw
  <2>3. DrawRows' /\ D!LimitPassedByRace'
    BY <1>0, <1>r, <2>1, <2>2 DEF DrawRows, D!LimitPassedByRace
  <2>4. CASE ~D!Wanted(p)
    <3>1. UNCHANGED <<store, view>>
      BY <1>14, <2>4 DEF D!Answer
    <3>2. D!TypeOK'
      BY <1>0, <2>1, <2>2, <3>1 DEF D!TypeOK
    <3> QED
      BY <1>0, <1>r, <2>1, <2>2, <2>3, <2>4, <3>1, <3>2 DEF DrawInv, DrawsInTurn, PageAwaits,
         D!OwnCards, D!EveryCardTurns, D!DrawInFlight, D!AtStep, OfPage, DrawSent, D!Wanted
  <2>5. CASE D!Wanted(p) /\ draw[p].pc = "refused"
    <3>1. view' = [view EXCEPT !.drawError = TRUE] /\ UNCHANGED store
      BY <1>14, <2>5 DEF D!Answer
    <3>2. view' \in D!View
      BY <1>0, <3>1 DEF D!View
    <3>3. view'.mounted = view.mounted /\ view'.drawSeq = view.drawSeq
          /\ view'.drawStarted = view.drawStarted
          /\ view'.timers = view.timers /\ view'.hidden = view.hidden
      BY <1>0, <3>1 DEF D!View
    <3>4. view'.drawError
      BY <1>0, <3>1 DEF D!View
    <3>5. D!TypeOK'
      BY <1>0, <2>1, <2>2, <3>1, <3>2 DEF D!TypeOK
    <3> QED
      BY <1>0, <1>r, <2>1, <2>2, <2>3, <2>5, <3>1, <3>3, <3>4, <3>5 DEF DrawInv, DrawsInTurn,
         PageAwaits, D!OwnCards, D!EveryCardTurns, D!DrawInFlight, D!AtStep, OfPage, DrawSent,
         D!Wanted
  <2>6. CASE D!Wanted(p) /\ draw[p].pc = "ok"
    <3>1. /\ store' = [store EXCEPT !.createdReadingId = p, !.cards = p, !.step = "reveal"]
          /\ view' = [view EXCEPT !.timers = D!faceDown(store), !.drawStarted = FALSE]
      BY <1>14, <2>6 DEF D!Answer, D!StartedOutside
    <3>0. p \in 0..MaxDraws
      BY <1>0 DEF D!Draws
    <3>2. /\ store' \in D!Session /\ store'.step = "reveal" /\ store'.cards = p
          /\ store'.createdReadingId = p
          /\ store'.deckId = store.deckId /\ store'.spreadId = store.spreadId
          /\ store'.flippedCards = store.flippedCards
      BY <1>0, <3>0, <3>1 DEF D!Session
    <3>3. view' \in D!View
      BY <1>0, <3>1 DEF D!View, D!faceDown
    <3>4. view'.mounted = view.mounted /\ view'.drawSeq = view.drawSeq
          /\ view'.timers = D!Positions \ store.flippedCards
      BY <1>0, <3>1 DEF D!View, D!faceDown
    <3>5. ~view'.drawStarted
      BY <1>0, <3>1 DEF D!View
    <3>6. D!TypeOK'
      BY <1>0, <2>1, <2>2, <3>2, <3>3 DEF D!TypeOK
    <3>7. view.mounted /\ draw[p].seq = view.drawSeq /\ p \in drawn
      BY <1>r, <2>6 DEF D!Wanted, DrawRows
    <3>8. draw[p].deckId = store.deckId /\ draw[p].spreadId = store.spreadId
      BY <1>r, <2>6, <3>7 DEF PageAwaits, OfPage, DrawSent
    <3> QED
      BY <1>0, <1>r, <2>1, <2>2, <2>3, <2>6, <3>2, <3>4, <3>5, <3>6, <3>7, <3>8 DEF DrawInv,
         DrawsInTurn, PageAwaits, D!OwnCards, D!EveryCardTurns, D!DrawInFlight, D!AtStep, OfPage,
         DrawSent
  <2> QED
    BY <2>1, <2>4, <2>5, <2>6
<1>10. CASE D!Reveal
  <2>1. PICK c \in view.timers :
          /\ store' = [store EXCEPT !.flippedCards = store.flippedCards \cup {c}]
          /\ view' = [view EXCEPT !.timers = @ \ {c}, !.hidden = @ \ {c}]
    <3>1. view.timers \in SUBSET Nat /\ view.timers # {}
      BY <1>0, <1>10 DEF D!View, D!Positions, D!Reveal
    <3>2. D!Min(view.timers) \in view.timers
      BY <3>1, DrawLeast
    <3> QED
      BY <1>10, <3>2 DEF D!Reveal, D!TimerReveals
  <2>2. D!AtStep("reveal") /\ UNCHANGED <<draw, drawn, raced>> /\ c \in D!Positions
    BY <1>0, <1>10 DEF D!Reveal, D!View
  <2>3. /\ store' \in D!Session /\ store'.step = "reveal" /\ store'.cards = store.cards
        /\ store'.createdReadingId = store.createdReadingId /\ store'.deckId = store.deckId
        /\ store'.spreadId = store.spreadId /\ store'.flippedCards = store.flippedCards \cup {c}
    BY <1>0, <2>1, <2>2 DEF D!Session, D!AtStep
  <2>4. view' \in D!View
    BY <1>0, <2>1 DEF D!View
  <2>5. /\ view'.mounted = view.mounted /\ view'.drawSeq = view.drawSeq
        /\ view'.drawStarted = view.drawStarted
        /\ view'.timers = view.timers \ {c} /\ view'.hidden = view.hidden \ {c}
    BY <1>0, <2>1 DEF D!View
  <2>6. D!TypeOK'
    BY <1>0, <2>2, <2>3, <2>4 DEF D!TypeOK
  <2>7. D!EveryCardTurns'
    BY <1>0, <1>r, <2>2, <2>3, <2>5 DEF D!EveryCardTurns, D!AtStep
  <2> QED
    BY <1>0, <1>r, <2>2, <2>3, <2>5, <2>6, <2>7 DEF DrawInv, DrawsInTurn, PageAwaits, DrawRows,
       D!OwnCards, D!LimitPassedByRace, D!DrawInFlight, D!AtStep, OfPage, DrawSent
<1>11. ASSUME NEW c \in D!Positions, D!handleFlip(c) PROVE DrawInv'
  <2>1. /\ D!AtStep("reveal") /\ UNCHANGED <<draw, drawn, raced>>
        /\ store' = [store EXCEPT !.flippedCards = D!toggled(c)]
        /\ view' = [view EXCEPT !.hidden = IF c \in store.flippedCards THEN @ \cup {c} ELSE @ \ {c}]
    BY <1>11 DEF D!handleFlip
  <2>3. /\ store' \in D!Session /\ store'.step = "reveal" /\ store'.cards = store.cards
        /\ store'.createdReadingId = store.createdReadingId /\ store'.deckId = store.deckId
        /\ store'.spreadId = store.spreadId /\ store'.flippedCards = D!toggled(c)
    BY <1>0, <2>1 DEF D!Session, D!AtStep, D!toggled
  <2>4. view' \in D!View
    BY <1>0, <2>1 DEF D!View
  <2>5. /\ view'.mounted = view.mounted /\ view'.drawSeq = view.drawSeq
        /\ view'.drawStarted = view.drawStarted
        /\ view'.timers = view.timers
        /\ view'.hidden = IF c \in store.flippedCards THEN view.hidden \cup {c} ELSE view.hidden \ {c}
    BY <1>0, <2>1 DEF D!View
  <2>6. D!TypeOK'
    BY <1>0, <2>1, <2>3, <2>4 DEF D!TypeOK
  <2>7. D!EveryCardTurns'
    BY <1>0, <1>r, <2>1, <2>3, <2>5 DEF D!EveryCardTurns, D!AtStep, D!toggled
  <2> QED
    BY <1>0, <1>r, <2>1, <2>3, <2>5, <2>6, <2>7 DEF DrawInv, DrawsInTurn, PageAwaits, DrawRows,
       D!OwnCards, D!LimitPassedByRace, D!DrawInFlight, D!AtStep, OfPage, DrawSent
<1>12. CASE UNCHANGED D!vars
  BY <1>r, <1>12 DEF D!vars, DrawInv, D!TypeOK, DrawsInTurn, PageAwaits, DrawRows, D!OwnCards,
     D!EveryCardTurns, D!LimitPassedByRace, D!DrawInFlight, D!AtStep, OfPage, DrawSent
<1>13. QED
  BY <1>1, <1>2, <1>3, <1>4, <1>5, <1>6, <1>7, <1>8, <1>9, <1>10, <1>11, <1>12, <1>14 DEF D!Next

LEMMA DrawInRun ==
  [NextMC]_<<vars, limitVars, attemptVars, feedVars, commentVars, pillVars, drawVars,
             panelVars, busVars, part>> => [D!Next]_D!vars
  BY DEF NextMC, drawVars, D!vars

\* However draws, retries, resets, departures and returns overlap, the session
\* shows the cards of its own draw, turns all of them, waits only for a request
\* in flight, and passes the limit of the day only by a race.
THEOREM DrawAlwaysSound == SpecMC => []DrawSound
<1>1. InitMC => DrawInv
  BY PagesAssumption, DrawInit DEF InitMC
<1>2. DrawInv /\ [D!Next]_D!vars => DrawInv'
  BY PagesAssumption, DrawStep
<1>3. DrawInv => DrawSound
  BY DEF DrawInv, DrawSound
<1> QED
  BY <1>1, <1>2, <1>3, DrawInRun, PTL DEF SpecMC

-----------------------------------------------------------------------------
(* The panel.  What it shows of a conversation is what the server keeps of  *)
(* it, the question in flight apart; the text on the screen is that of one  *)
(* call, and calls that were aborted are behind the current one.            *)

LEMMA PanelSets ==
  /\ \A S : P!IsFiniteSet(S) <=> IsFiniteSet(S)
  /\ \A S : P!Cardinality(S) = Cardinality(S)
<1>1. \A S : P!IsFiniteSet(S) <=> IsFiniteSet(S)
  BY DEF P!IsFiniteSet, IsFiniteSet
<1>2. \A S : P!Cardinality(S) = Cardinality(S)
  BY DEF P!Cardinality, Cardinality
<1> QED
  BY <1>1, <1>2

Elements(s) == {s[k] : k \in DOMAIN s}
About(S, i) == {m \in S : m.of = i}

\* The conversation as it was when the question in flight was asked.
Held == IF P!FollowUpStreaming THEN followUp.shown ELSE messages

Talked(i) == i = interpretationId \/ (P!FollowUpStreaming /\ i = followUp.of)

Mirror ==
  mounted /\ ~lost =>
    \A i \in P!Calls :
      /\ About(Elements(Held), i) \in {{}, About(stored, i)}
      /\ Talked(i) => About(Elements(Held), i) = About(stored, i)
      /\ i > seq \/ P!InFlight(i) => About(stored, i) = {}

CallsKnown ==
  /\ \A i \in P!Calls : P!InFlight(i) => mounted /\ i <= seq
  /\ \A i \in aborted : i < seq
  /\ seq \in P!Calls /\ P!InFlight(seq) => lock
  /\ interpretationId # P!NoId => interpretationId <= seq /\ ~P!InFlight(interpretationId)
  /\ P!FollowUpStreaming =>
       followUp.of \in P!Calls /\ followUp.of <= seq /\ ~P!InFlight(followUp.of)

TextOfCurrent ==
  /\ answer # {} => \E i \in P!Calls : answer = {i}
  /\ seq \in P!Calls /\ P!InFlight(seq) => answer \subseteq {seq} /\ interpretationId = P!NoId
  /\ interpretationId # P!NoId => answer = {interpretationId}
  /\ delivered => shown

PanelInv == P!TypeOK /\ P!OneStream /\ Mirror /\ CallsKnown /\ TextOfCurrent /\ P!KeyMeansTold

LEMMA PanelSizes ==
  ASSUME P!PanelAssumption
  PROVE  MaxSeq \in Nat /\ MaxSeq > 1 /\ MaxVisits \in Nat /\ MaxAsks \in Nat
  BY DEF P!PanelAssumption

\* The turns of a conversation that goes on.
LEMMA Spoken ==
  ASSUME NEW s \in Seq(P!Turn), NEW a \in P!Turn, NEW b \in P!Turn
  PROVE  /\ Append(s, a) \in Seq(P!Turn) /\ Elements(Append(s, a)) = Elements(s) \cup {a}
         /\ s \o <<a, b>> \in Seq(P!Turn) /\ Elements(s \o <<a, b>>) = Elements(s) \cup {a, b}
<1>1. Append(s, a) \in Seq(P!Turn)
  OBVIOUS
<1>2. Elements(Append(s, a)) = Elements(s) \cup {a}
  <2>1. Len(s) \in Nat /\ DOMAIN s = 1..Len(s) /\ DOMAIN Append(s, a) = 1..(Len(s) + 1)
    OBVIOUS
  <2>2. Append(s, a)[Len(s) + 1] = a /\ \A k \in 1..Len(s) : Append(s, a)[k] = s[k]
    OBVIOUS
  <2> QED
    BY <2>1, <2>2 DEF Elements
<1>3. s \o <<a, b>> \in Seq(P!Turn) /\ Len(s \o <<a, b>>) = Len(s) + 2
  OBVIOUS
<1>4. /\ \A k \in 1..Len(s) : (s \o <<a, b>>)[k] = s[k]
      /\ (s \o <<a, b>>)[Len(s) + 1] = a /\ (s \o <<a, b>>)[Len(s) + 2] = b
  OBVIOUS
<1>5. Elements(s \o <<a, b>>) = Elements(s) \cup {a, b}
  <2>1. Len(s) \in Nat /\ DOMAIN s = 1..Len(s) /\ DOMAIN (s \o <<a, b>>) = 1..(Len(s) + 2)
    BY <1>3
  <2> QED
    BY <1>4, <2>1 DEF Elements
<1> QED
  BY <1>1, <1>2, <1>3, <1>5

LEMMA SaidIsTurn ==
  ASSUME P!PanelAssumption, NEW n \in 1..MaxAsks, NEW of \in P!Calls
  PROVE  /\ \A who \in {"user", "assistant"} : P!Said(n, of, who) \in P!Turn /\ P!Said(n, of, who).of = of
         /\ P!Turns(n, of, {"user"}) = {P!Said(n, of, "user")}
         /\ P!Turns(n, of, {"user", "assistant"}) = {P!Said(n, of, "user"), P!Said(n, of, "assistant")}
  BY DEF P!Said, P!Turn, P!Turns

LEMMA PanelInit == P!PanelAssumption /\ P!Init => PanelInv
<1> SUFFICES ASSUME P!PanelAssumption, P!Init PROVE PanelInv
  OBVIOUS
<1>1. P!NoAsk \in [n : 0..MaxAsks, of : 0..MaxSeq, shown : Seq(P!Turn), got : BOOLEAN]
  BY PanelSizes DEF P!NoAsk, P!NoId
<1>2. P!TypeOK
  <2>1. messages \in Seq(P!Turn)
        /\ followUp \in [n : 0..MaxAsks, of : 0..MaxSeq, shown : Seq(P!Turn), got : BOOLEAN]
    BY <1>1 DEF P!Init
  <2>2. call \in [P!Calls -> {"none", "sent", "reading"}]
    BY DEF P!Init
  <2>3. /\ {key, mounted, lock, delivered, isStreaming, lost, shown} \subseteq BOOLEAN
        /\ stored = {} /\ answer = {} /\ aborted = {} /\ error = "none"
        /\ visits = 0 /\ seq = 0 /\ asks = 0 /\ interpretationId = 0
    BY DEF P!Init, P!NoId
  <2> QED
    BY <2>1, <2>2, <2>3, PanelSizes DEF P!TypeOK
<1>3. 0 \notin P!Calls /\ ~mounted /\ ~P!FollowUpStreaming
  BY DEF P!Calls, P!Init, P!FollowUpStreaming, P!NoAsk
<1> QED
  BY <1>2, <1>3 DEF P!Init, PanelInv, P!OneStream, Mirror, CallsKnown, TextOfCurrent,
     P!KeyMeansTold, P!InFlight, P!NoId

LEMMA OverTypes ==
  ASSUME P!PanelAssumption, P!TypeOK, NEW i \in P!Calls, NEW outcome \in {"error", "cached", "done", "aborted"},
         P!Over(i, outcome)
  PROVE  P!TypeOK'
<1>1. P!Calls = 1..MaxSeq /\ MaxSeq \in Nat /\ P!NoId = 0
  BY PanelSizes DEF P!Calls, P!NoId
<1>2. seq \in 0..MaxSeq /\ lock \in BOOLEAN /\ delivered \in BOOLEAN /\ shown \in BOOLEAN
      /\ isStreaming \in BOOLEAN
      /\ call \in [P!Calls -> {"none", "sent", "reading"}] /\ interpretationId \in 0..MaxSeq
      /\ error \in {"none", "interpret", "chat"} /\ answer \subseteq P!Calls
      /\ aborted \subseteq P!Calls
  BY DEF P!TypeOK
<1>3. /\ call' = [call EXCEPT ![i] = "none"] /\ aborted' = aborted \ {i}
      /\ lock' \in {FALSE, lock}
      /\ delivered' \in BOOLEAN /\ shown' \in BOOLEAN /\ isStreaming' \in BOOLEAN
      /\ interpretationId' \in {i, interpretationId} /\ answer' \in {{i}, answer}
      /\ error' \in {"interpret", error}
      /\ UNCHANGED <<key, mounted, visits, seq, messages, followUp, asks, stored, lost>>
  BY DEF P!Over, P!Release, P!chat
<1>4. call' \in [P!Calls -> {"none", "sent", "reading"}] /\ lock' \in BOOLEAN
      /\ answer' \subseteq P!Calls
      /\ interpretationId' \in 0..MaxSeq /\ error' \in {"none", "interpret", "chat"}
      /\ aborted' \subseteq P!Calls
  <2>1. call' \in [P!Calls -> {"none", "sent", "reading"}]
    BY <1>2, <1>3
  <2>2. lock' \in BOOLEAN /\ answer' \subseteq P!Calls /\ error' \in {"none", "interpret", "chat"}
        /\ aborted' \subseteq P!Calls
    BY <1>2, <1>3
  <2>3. interpretationId' \in 0..MaxSeq
    BY <1>1, <1>2, <1>3
  <2> QED
    BY <2>1, <2>2, <2>3
<1> QED
  BY <1>1, <1>2, <1>3, <1>4 DEF P!TypeOK

LEMMA PanelTypes == P!PanelAssumption /\ PanelInv /\ [P!Next]_P!vars => P!TypeOK'
<1> SUFFICES ASSUME P!PanelAssumption, PanelInv, [P!Next]_P!vars PROVE P!TypeOK'
  OBVIOUS
<1>0. P!TypeOK /\ MaxSeq \in Nat /\ MaxSeq > 1 /\ MaxVisits \in Nat /\ MaxAsks \in Nat
      /\ P!Calls = 1..MaxSeq /\ P!NoId = 0
  BY PanelSizes DEF PanelInv, P!Calls, P!NoId
<1>n. P!NoAsk \in [n : 0..MaxAsks, of : 0..MaxSeq, shown : Seq(P!Turn), got : BOOLEAN]
      /\ <<>> \in Seq(P!Turn)
  BY <1>0 DEF P!NoAsk, P!NoId
<1>1. CASE P!Mount
  <2>1. P!AutoStarts \in 0..2
    BY DEF P!AutoStarts
  <2>2. [i \in P!Calls |-> IF i <= P!AutoStarts THEN "sent" ELSE "none"] \in [P!Calls -> {"none", "sent", "reading"}]
    OBVIOUS
  <2>3. 1..(P!AutoStarts - 1) \subseteq P!Calls /\ visits + 1 \in 0..MaxVisits
    BY <1>0, <1>1, <2>1 DEF P!Mount, P!TypeOK
  <2>5. {mounted, key, lock, delivered, isStreaming, lost}' \subseteq BOOLEAN
    <3>1. mounted' /\ key' /\ ~delivered' /\ ~lost'
      BY <1>1 DEF P!Mount
    <3>2. lock' \in BOOLEAN
      BY <1>1 DEF P!Mount
    <3>3. isStreaming' \in BOOLEAN
      BY <1>1 DEF P!Mount
    <3>4. mounted' \in BOOLEAN /\ key' \in BOOLEAN /\ delivered' \in BOOLEAN /\ lost' \in BOOLEAN
      BY <1>1 DEF P!Mount
    <3> QED
      BY <3>2, <3>3, <3>4
  <2>4. /\ shown' = shown
        /\ call' \in [P!Calls -> {"none", "sent", "reading"}] /\ seq' = P!AutoStarts
        /\ aborted' = 1..(P!AutoStarts - 1)
        /\ visits' = visits + 1 /\ answer' = {} /\ interpretationId' = 0 /\ error' = "none"
        /\ messages' = <<>> /\ followUp' = P!NoAsk /\ asks' = 0 /\ stored' = {}
    BY <1>0, <1>1, <2>2 DEF P!Mount
  <2> HIDE DEF P!AutoStarts
  <2> QED
    BY <1>0, <1>n, <2>1, <2>3, <2>4, <2>5 DEF P!TypeOK
<1>2. CASE P!Unmount
  BY <1>0, <1>2 DEF P!Unmount, P!CleanUp, P!TypeOK, P!text, P!chat
<1>3. CASE P!Interpret
  BY <1>0, <1>3 DEF P!Interpret, P!TypeOK, P!chat
<1>4. CASE P!Stop
  <2>1. seq \in P!Calls /\ seq' = seq + 1 /\ seq < MaxSeq /\ lock' = FALSE /\ isStreaming' = FALSE
        /\ aborted' = aborted \cup {seq}
        /\ UNCHANGED <<key, mounted, visits, delivered, call, answer, interpretationId, error,
                       messages, followUp, asks, stored, lost, shown>>
    BY <1>0, <1>4 DEF P!Stop, P!StopLock, P!chat, P!CanStop, PanelInv, P!OneStream, P!TypeOK
  <2>2. seq' \in 0..MaxSeq /\ aborted' \subseteq P!Calls
    BY <1>0, <2>1 DEF P!TypeOK
  <2>3. lock' \in BOOLEAN /\ isStreaming' \in BOOLEAN
    BY <2>1
  <2> QED
    BY <1>0, <2>1, <2>2, <2>3 DEF P!TypeOK
<1>5. ASSUME NEW i \in P!Calls, P!Respond(i) PROVE P!TypeOK'
  <2>1. CASE \E outcome \in {"error", "cached"} : P!Over(i, outcome)
    BY <1>0, <2>1, OverTypes
  <2>2. CASE call' = [call EXCEPT ![i] = "reading"]
             /\ UNCHANGED <<key, mounted, visits, P!refs, aborted, P!text, P!chat, shown>>
    <3>1. call' \in [P!Calls -> {"none", "sent", "reading"}]
      BY <1>0, <2>2 DEF P!TypeOK
    <3> QED
      BY <1>0, <2>2, <3>1 DEF P!TypeOK, P!refs, P!text, P!chat
  <2> QED
    BY <1>5, <2>1, <2>2 DEF P!Respond
<1>6. ASSUME NEW i \in P!Calls, P!Token(i) PROVE P!TypeOK'
  BY <1>0, <1>6 DEF P!Token, P!TypeOK, P!chat
<1>7. ASSUME NEW i \in P!Calls, P!StreamEnds(i) PROVE P!TypeOK'
  BY <1>0, <1>7, OverTypes DEF P!StreamEnds
<1>8. ASSUME NEW i \in P!Calls, P!AbortSettles(i) PROVE P!TypeOK'
  BY <1>0, <1>8, OverTypes DEF P!AbortSettles
<1>9. CASE P!SendMessage
  <2>1. asks + 1 \in 1..MaxAsks /\ interpretationId \in P!Calls
    BY <1>0, <1>9 DEF P!SendMessage, P!CanAsk, P!TypeOK
  <2>2. P!Said(asks + 1, interpretationId, "user") \in P!Turn
    BY <2>1, SaidIsTurn
  <2>3. messages' \in Seq(P!Turn) /\ messages \in Seq(P!Turn)
    BY <1>0, <1>9, <2>2, Spoken DEF P!SendMessage, P!TypeOK
  <2>4. followUp' \in [n : 0..MaxAsks, of : 0..MaxSeq, shown : Seq(P!Turn), got : BOOLEAN]
    BY <1>0, <1>9, <2>1, <2>3 DEF P!SendMessage
  <2> QED
    BY <1>0, <1>9, <2>1, <2>3, <2>4 DEF P!SendMessage, P!TypeOK, P!refs
<1>10. CASE P!FollowUpToken
  BY <1>0, <1>10 DEF P!FollowUpToken, P!TypeOK, P!refs, P!text
<1>11. CASE P!FollowUpOver
  <2>1. followUp.n \in 1..MaxAsks /\ followUp.of \in P!Calls /\ followUp.shown \in Seq(P!Turn)
    BY <1>0, <1>11 DEF P!FollowUpOver, P!FollowUpStreaming, P!TypeOK, PanelInv, CallsKnown
  <2> DEFINE asked == P!Said(followUp.n, followUp.of, "user")
             reply2 == P!Said(followUp.n, followUp.of, "assistant")
             kept == P!Turns(followUp.n, followUp.of, {"user"})
             whole == P!Turns(followUp.n, followUp.of, {"user", "assistant"})
  <2>2. asked \in P!Turn /\ reply2 \in P!Turn /\ kept \subseteq P!Turn /\ whole \subseteq P!Turn
    BY <2>1, SaidIsTurn
  <2>3. Append(followUp.shown, asked) \in Seq(P!Turn)
        /\ followUp.shown \o <<asked, reply2>> \in Seq(P!Turn)
    BY <2>1, <2>2, Spoken
  <2>4. messages' \in {followUp.shown, Append(followUp.shown, asked), followUp.shown \o <<asked, reply2>>}
    BY <1>11 DEF P!FollowUpOver, P!ShownAfterError
  <2>5. stored' \in {stored, stored \cup kept, stored \cup whole} /\ followUp' = P!NoAsk
    BY <1>11 DEF P!FollowUpOver
  <2>6. error' \in {"none", "interpret", "chat"} /\ lost' \in BOOLEAN
    BY <1>0, <1>11 DEF P!FollowUpOver, P!TypeOK
  <2> HIDE DEF asked, reply2, kept, whole
  <2>7. messages' \in Seq(P!Turn) /\ stored' \subseteq P!Turn
    BY <1>0, <2>1, <2>2, <2>3, <2>4, <2>5 DEF P!TypeOK
  <2> QED
    BY <1>0, <1>n, <1>11, <2>5, <2>6, <2>7 DEF P!FollowUpOver, P!TypeOK, P!refs
<1>12. CASE P!NewSession
  BY <1>0, <1>n, <1>12 DEF P!NewSession, P!TypeOK, P!refs
<1>13. CASE UNCHANGED P!vars
  BY <1>0, <1>13 DEF P!vars, P!refs, P!text, P!chat, P!TypeOK
<1>14. QED
  BY <1>1, <1>2, <1>3, <1>4, <1>5, <1>6, <1>7, <1>8, <1>9, <1>10, <1>11, <1>12, <1>13 DEF P!Next

LEMMA OverStep ==
  ASSUME P!PanelAssumption, PanelInv, P!TypeOK', NEW i \in P!Calls, NEW outcome \in {"error", "cached", "done", "aborted"},
         P!InFlight(i), i \notin aborted \/ outcome \in {"error", "aborted"},
         outcome = "done" => i \in answer, P!Over(i, outcome)
  PROVE  PanelInv'
<1>0. /\ MaxSeq \in Nat /\ seq \in 0..MaxSeq /\ P!Calls = 1..MaxSeq /\ P!NoId = 0
      /\ interpretationId \in 0..MaxSeq
      /\ call \in [P!Calls -> {"none", "sent", "reading"}] /\ aborted \subseteq P!Calls
      /\ {lock, isStreaming, delivered, shown, mounted, key, lost} \subseteq BOOLEAN
  BY PanelSizes DEF PanelInv, P!TypeOK, P!Calls, P!NoId
<1>r. P!OneStream /\ Mirror /\ CallsKnown /\ TextOfCurrent /\ P!KeyMeansTold
  BY DEF PanelInv
<1> DEFINE answered == i = seq /\ outcome \in {"cached", "done"}
<1>1. /\ UNCHANGED <<key, mounted, seq, messages, followUp, stored, lost>>
      /\ mounted /\ i <= seq /\ aborted' = aborted \ {i}
  BY <1>r DEF P!Over, P!chat, CallsKnown
<1>2. \A j \in P!Calls : call'[j] = IF j = i THEN "none" ELSE call[j]
  BY <1>0 DEF P!Over
<1>3. (delivered' <=> delivered \/ answered) /\ (shown' <=> shown \/ answered)
  BY <1>0 DEF P!Over, P!IsCurrent
<1>4. interpretationId' = (IF answered THEN i ELSE interpretationId)
      /\ answer' = (IF answered /\ outcome = "cached" THEN {i} ELSE answer)
  BY DEF P!Over, P!IsCurrent
<1>5. CASE i = seq
  <2>1. ~lock' /\ ~isStreaming' /\ i \notin aborted /\ seq \in P!Calls
    <3>1. ~lock' /\ ~isStreaming'
      BY <1>5 DEF P!Over, P!IsCurrent, P!Release
    <3>2. i \notin aborted /\ seq \in P!Calls
      BY <1>0, <1>r, <1>5 DEF CallsKnown
    <3> QED
      BY <3>1, <3>2
  <2>2. interpretationId = P!NoId /\ answer \subseteq {seq}
    BY <1>5, <1>r, <2>1 DEF TextOfCurrent
  <2>3. P!OneStream'
    BY <1>r, <1>1, <1>2, <1>5, <2>1 DEF P!OneStream, P!InFlight
  <2>4. CallsKnown'
    BY <1>0, <1>r, <1>1, <1>2, <1>4, <1>5, <2>1, <2>2 DEF CallsKnown, P!InFlight,
       P!FollowUpStreaming
  <2>5. answer' \subseteq {seq} /\ (answered => answer' = {seq})
    BY <1>4, <1>5, <2>2
  <2>6. TextOfCurrent'
    BY <1>0, <1>r, <1>1, <1>2, <1>3, <1>4, <1>5, <2>1, <2>2, <2>5 DEF TextOfCurrent, P!InFlight
  <2>7. Mirror'
    <3>1. Held' = Held /\ P!FollowUpStreaming' = P!FollowUpStreaming
      BY <1>1 DEF Held, P!FollowUpStreaming
    <3>2. \A j \in P!Calls : Talked(j)' => Talked(j) \/ j = i
      BY <1>1, <1>4, <3>1 DEF Talked
    <3>3. \A j \in P!Calls : (j > seq \/ P!InFlight(j))' => j > seq \/ P!InFlight(j)
      BY <1>1, <1>2 DEF P!InFlight
    <3> QED
      BY <1>r, <1>1, <3>1, <3>2, <3>3 DEF Mirror
  <2> QED
    BY <1>r, <1>1, <1>3, <2>3, <2>4, <2>6, <2>7 DEF PanelInv, P!KeyMeansTold
<1>6. CASE i # seq
  <2>1. i \in aborted /\ UNCHANGED <<interpretationId, answer>> /\ (lock' <=> lock)
        /\ (isStreaming' <=> isStreaming)
        /\ (delivered' <=> delivered) /\ (shown' <=> shown)
    BY <1>0, <1>r, <1>1, <1>3, <1>4, <1>6 DEF P!Over, P!IsCurrent, P!Release, P!OneStream
  <2>3. P!OneStream'
    BY <1>0, <1>r, <1>1, <1>2, <1>6, <2>1 DEF P!OneStream, P!InFlight
  <2>4. CallsKnown'
    BY <1>0, <1>r, <1>1, <1>2, <2>1 DEF CallsKnown, P!InFlight, P!FollowUpStreaming
  <2>6. TextOfCurrent'
    BY <1>0, <1>r, <1>1, <1>2, <2>1 DEF TextOfCurrent, P!InFlight
  <2>7. Mirror'
    <3>1. Held' = Held /\ P!FollowUpStreaming' = P!FollowUpStreaming
      BY <1>1 DEF Held, P!FollowUpStreaming
    <3>2. \A j \in P!Calls : Talked(j)' => Talked(j)
      BY <1>1, <2>1, <3>1 DEF Talked
    <3>3. \A j \in P!Calls : (j > seq \/ P!InFlight(j))' => j > seq \/ P!InFlight(j)
      BY <1>1, <1>2 DEF P!InFlight
    <3> QED
      BY <1>r, <1>1, <3>1, <3>2, <3>3 DEF Mirror
  <2> QED
    BY <1>r, <1>1, <2>1, <2>3, <2>4, <2>6, <2>7 DEF PanelInv, P!KeyMeansTold
<1> QED
  BY <1>5, <1>6

LEMMA FollowUpStep ==
  ASSUME P!PanelAssumption, PanelInv, P!TypeOK', P!FollowUpOver
  PROVE  PanelInv'
<1>0. /\ P!Calls = 1..MaxSeq /\ followUp.n \in 1..MaxAsks /\ followUp.of \in P!Calls
      /\ followUp.shown \in Seq(P!Turn)
      /\ P!FollowUpStreaming /\ mounted
  BY DEF P!FollowUpOver, P!FollowUpStreaming, P!TypeOK, PanelInv, CallsKnown, P!Calls
<1>r. P!OneStream /\ Mirror /\ CallsKnown /\ TextOfCurrent /\ P!KeyMeansTold
  BY DEF PanelInv
<1> DEFINE of == followUp.of
           asked == P!Said(followUp.n, of, "user")
           reply == P!Said(followUp.n, of, "assistant")
<1>1. asked \in P!Turn /\ reply \in P!Turn /\ asked.of = of /\ reply.of = of
      /\ P!Turns(followUp.n, of, {"user"}) = {asked}
      /\ P!Turns(followUp.n, of, {"user", "assistant"}) = {asked, reply}
  BY <1>0, SaidIsTurn
<1>2. /\ Elements(Append(followUp.shown, asked)) = Elements(followUp.shown) \cup {asked}
      /\ Elements(followUp.shown \o <<asked, reply>>) = Elements(followUp.shown) \cup {asked, reply}
  BY <1>0, <1>1, Spoken
<1>3. /\ followUp' = P!NoAsk
      /\ UNCHANGED <<key, mounted, seq, lock, delivered, call, aborted, isStreaming, answer,
                     interpretationId, shown>>
  BY DEF P!FollowUpOver, P!refs
<1>4. ~P!FollowUpStreaming' /\ Held' = messages' /\ Held = followUp.shown
  BY <1>0, <1>3 DEF P!FollowUpStreaming, Held, P!NoAsk
<1>5. lost' \/ \E new \in {{}, {asked}, {asked, reply}} :
        Elements(messages') = Elements(followUp.shown) \cup new /\ stored' = stored \cup new
        /\ lost' = lost
  <2>1. CASE messages' = followUp.shown \o <<asked, reply>>
             /\ stored' = stored \cup P!Turns(followUp.n, of, {"user", "assistant"})
             /\ UNCHANGED lost
    BY <1>1, <1>2, <2>1
  <2>2. CASE messages' = P!ShownAfterError(asked)
             /\ stored' = stored \cup (IF followUp.got THEN P!Turns(followUp.n, of, {"user"}) ELSE {}) /\ UNCHANGED lost
    BY <1>1, <1>2, <2>2 DEF P!ShownAfterError
  <2>3. CASE messages' = followUp.shown /\ UNCHANGED <<stored, lost>>
    BY <2>3
  <2> QED
    BY <2>1, <2>2, <2>3 DEF P!FollowUpOver
<1> HIDE DEF asked, reply
<1>6. Mirror'
  <2> SUFFICES ASSUME ~lost' PROVE Mirror'
    BY DEF Mirror
  <2>1. PICK new \in {{}, {asked}, {asked, reply}} :
        Elements(messages') = Elements(followUp.shown) \cup new /\ stored' = stored \cup new
        /\ lost' = lost
    BY <1>5
  <2>2. /\ About(Elements(messages'), of) = About(Elements(followUp.shown), of) \cup new
        /\ About(stored', of) = About(stored, of) \cup new
        /\ \A i \in P!Calls \ {of} : /\ About(Elements(messages'), i) = About(Elements(followUp.shown), i)
                                    /\ About(stored', i) = About(stored, i)
    BY <1>1, <2>1 DEF About
  <2>3. \A i \in P!Calls : Talked(i)' => Talked(i)
    BY <1>0, <1>3, <1>4 DEF Talked
  <2>4. Talked(of) /\ ~(of > seq) /\ ~P!InFlight(of)
    BY <1>0, <1>r, SMTT(30) DEF Talked, CallsKnown, PanelInv, P!TypeOK
  <2>5. \A i \in P!Calls : (i > seq \/ P!InFlight(i))' => (i > seq \/ P!InFlight(i))
    BY <1>3 DEF P!InFlight
  <2>6. About(Elements(messages'), of) = About(stored', of)
    BY <1>0, <1>4, <1>r, <2>1, <2>2, <2>4 DEF Mirror
  <2> HIDE DEF of
  <2> QED
    BY <1>0, <1>4, <1>r, <2>1, <2>2, <2>3, <2>4, <2>5, <2>6 DEF Mirror
<1> QED
  BY <1>r, <1>3, <1>4, <1>6 DEF PanelInv, P!OneStream, CallsKnown, TextOfCurrent, P!KeyMeansTold,
     P!InFlight

\* What the run checks.
LEMMA PanelSafe == P!PanelAssumption /\ PanelInv => P!TypeOK /\ P!OneStream /\ P!OneAnswer /\ P!HistoryMirrored /\ P!KeyMeansTold
<1> SUFFICES ASSUME P!PanelAssumption, PanelInv PROVE P!OneAnswer /\ P!HistoryMirrored
  BY DEF PanelInv
<1>1. P!OneAnswer
  <2>1. CASE answer = {}
    BY PanelSets, <2>1, FS_EmptySet DEF P!OneAnswer, PanelInv, TextOfCurrent
  <2>2. CASE answer # {}
    <3>1. PICK i \in P!Calls : answer = {i}
      BY <2>2 DEF PanelInv, TextOfCurrent
    <3>2. Cardinality(answer) = 1
      BY <3>1, FS_Singleton
    <3> QED
      BY PanelSets, <3>2 DEF P!OneAnswer, PanelInv, TextOfCurrent
  <2> QED
    BY <2>1, <2>2
<1>2. P!HistoryMirrored
  BY DEF P!HistoryMirrored, PanelInv, Mirror, Held, About, Elements
<1> QED
  BY <1>1, <1>2

LEMMA PanelStep == P!PanelAssumption /\ PanelInv /\ [P!Next]_P!vars => PanelInv'
<1> SUFFICES ASSUME P!PanelAssumption, PanelInv, [P!Next]_P!vars PROVE PanelInv'
  OBVIOUS
<1>0. /\ MaxSeq \in Nat /\ MaxSeq > 1 /\ seq \in 0..MaxSeq /\ P!Calls = 1..MaxSeq /\ P!NoId = 0
      /\ interpretationId \in 0..MaxSeq
      /\ call \in [P!Calls -> {"none", "sent", "reading"}] /\ aborted \subseteq P!Calls
      /\ {lock, isStreaming, delivered, shown, mounted, key, lost} \subseteq BOOLEAN
      /\ messages \in Seq(P!Turn)
      /\ followUp \in [n : 0..MaxAsks, of : 0..MaxSeq, shown : Seq(P!Turn), got : BOOLEAN]
  BY PanelSizes DEF PanelInv, P!TypeOK, P!Calls, P!NoId
<1>t. P!TypeOK'
  BY PanelTypes
<1>r. P!OneStream /\ Mirror /\ CallsKnown /\ TextOfCurrent /\ P!KeyMeansTold
  BY DEF PanelInv
<1> DEFINE Untouched == UNCHANGED <<messages, followUp, stored, lost>>
<1>h. Untouched => Held' = Held /\ P!FollowUpStreaming' = P!FollowUpStreaming
  BY DEF Held, P!FollowUpStreaming
<1>1. CASE P!Mount
  <2>1. P!AutoStarts \in 0..2
    BY DEF P!AutoStarts
  <2>2. /\ mounted' /\ (lock' <=> P!AutoStarts > 0) /\ (isStreaming' <=> P!AutoStarts > 0)
        /\ seq' = P!AutoStarts /\ ~delivered' /\ answer' = {} /\ interpretationId' = P!NoId
        /\ messages' = <<>> /\ followUp' = P!NoAsk /\ stored' = {}
        /\ aborted' = 1..(P!AutoStarts - 1)
    BY <1>1 DEF P!Mount
  <2>3. \A i \in P!Calls : call'[i] = IF i <= P!AutoStarts THEN "sent" ELSE "none"
    BY <1>1 DEF P!Mount
  <2> HIDE DEF P!AutoStarts
  <2>4. ~P!FollowUpStreaming' /\ Held' = <<>>
    BY <2>2 DEF P!FollowUpStreaming, Held, P!NoAsk
  <2>5. Mirror'
    BY <2>2, <2>4 DEF Mirror, About, Elements
  <2>6. P!OneStream' /\ CallsKnown'
    <3>1. CASE P!AutoStarts = 0
      <4>1. ~lock' /\ ~isStreaming' /\ seq' = 0 /\ aborted' = {}
            /\ \A i \in P!Calls : call'[i] = "none"
        BY <1>0, <2>2, <2>3, <3>1
      <4> QED
        BY <1>0, <2>2, <2>4, <4>1 DEF P!OneStream, CallsKnown, P!InFlight
    <3>2. CASE P!AutoStarts \in {1, 2}
      <4>1. /\ lock' /\ isStreaming' /\ seq' = P!AutoStarts /\ seq' \in P!Calls
            /\ \A i \in P!Calls : i \in aborted' <=> i < seq'
            /\ \A i \in P!Calls : call'[i] = IF i <= seq' THEN "sent" ELSE "none"
        BY <1>0, <2>2, <2>3, <3>2
      <4>2. P!OneStream'
        BY <1>0, <2>2, <4>1 DEF P!OneStream, P!InFlight
      <4>3. CallsKnown'
        BY <1>0, <1>t, <2>2, <2>4, <4>1 DEF CallsKnown, P!InFlight, P!TypeOK
      <4> QED
        BY <4>2, <4>3
    <3> QED
      BY <2>1, <3>1, <3>2
  <2> QED
    BY <1>t, <2>2, <2>5, <2>6 DEF PanelInv, TextOfCurrent, P!KeyMeansTold
<1>2. CASE P!Unmount
  BY <1>0, <1>t, <1>r, <1>h, <1>2 DEF P!Unmount, P!CleanUp, PanelInv, P!OneStream, Mirror,
     CallsKnown, TextOfCurrent, P!KeyMeansTold, P!InFlight, P!text, P!chat, P!FollowUpStreaming
<1>3. CASE P!Interpret
  <2>1. /\ mounted /\ ~lock /\ lock' /\ seq' = seq + 1 /\ seq' \in P!Calls /\ isStreaming'
        /\ answer' = {}
        /\ interpretationId' = P!NoId /\ call' = [call EXCEPT ![seq + 1] = "sent"]
        /\ UNCHANGED <<key, mounted, visits, delivered, aborted, shown>> /\ Untouched
    BY <1>0, <1>3 DEF P!Interpret, P!chat
  <2>2. \A i \in P!Calls : call'[i] = IF i = seq' THEN "sent" ELSE call[i]
    BY <1>0, <2>1
  <2>3. P!OneStream'
    BY <1>0, <1>r, <2>1, <2>2 DEF P!OneStream, P!InFlight, CallsKnown
  <2>4. CallsKnown'
    BY <1>0, <1>r, <1>h, <2>1, <2>2 DEF CallsKnown, P!InFlight
  <2>5. TextOfCurrent' /\ P!KeyMeansTold'
    BY <1>0, <1>r, <2>1, <2>2 DEF TextOfCurrent, P!KeyMeansTold
  <2>6. Mirror'
    <3>1. \A i \in P!Calls : Talked(i)' => Talked(i)
      BY <1>0, <1>h, <2>1 DEF Talked
    <3>2. \A i \in P!Calls : (i > seq \/ P!InFlight(i))' => (i > seq \/ P!InFlight(i))
      BY <1>0, <2>1, <2>2 DEF P!InFlight
    <3> QED
      BY <1>r, <1>h, <2>1, <3>1, <3>2 DEF Mirror
  <2> QED
    BY <1>t, <2>3, <2>4, <2>5, <2>6 DEF PanelInv
<1>4. CASE P!Stop
  BY <1>0, <1>t, <1>r, <1>h, <1>4 DEF P!Stop, P!CanStop, P!StopLock, PanelInv, P!OneStream, Mirror,
     CallsKnown, TextOfCurrent, P!KeyMeansTold, P!InFlight, P!text, P!chat, Talked
<1>5. ASSUME NEW i \in P!Calls, P!Respond(i) PROVE PanelInv'
  <2>1. CASE \E outcome \in {"error", "cached"} : P!Over(i, outcome)
    BY <1>t, <1>5, <2>1, OverStep DEF P!Respond, P!InFlight
  <2>2. CASE call' = [call EXCEPT ![i] = "reading"]
             /\ UNCHANGED <<key, mounted, visits, P!refs, aborted, P!text, P!chat, shown>>
    <3>1. /\ \A j \in P!Calls : (call'[j] # "none") <=> (call[j] # "none")
          /\ UNCHANGED <<key, mounted, visits, seq, lock, delivered, aborted, isStreaming, answer, interpretationId, shown>> /\ Untouched
      BY <1>0, <1>5, <2>2 DEF P!Respond, P!refs, P!text, P!chat
    <3> HIDE DEF Untouched
    <3> QED
      BY <1>0, <1>t, <1>r, <1>h, <3>1 DEF Untouched, PanelInv, P!OneStream, Mirror, CallsKnown,
         TextOfCurrent, P!KeyMeansTold, P!InFlight, Talked
  <2> QED
    BY <1>5, <2>1, <2>2 DEF P!Respond
<1>6. ASSUME NEW i \in P!Calls, P!Token(i) PROVE PanelInv'
  BY <1>0, <1>t, <1>r, <1>h, <1>6, SMTT(30) DEF P!Token, P!IsCurrent, PanelInv, P!OneStream, Mirror,
     CallsKnown, TextOfCurrent, P!KeyMeansTold, P!InFlight, P!text, P!chat, Talked
<1>7. ASSUME NEW i \in P!Calls, P!StreamEnds(i) PROVE PanelInv'
  BY <1>t, <1>7, OverStep DEF P!StreamEnds, P!InFlight
<1>8. ASSUME NEW i \in P!Calls, P!AbortSettles(i) PROVE PanelInv'
  BY <1>t, <1>8, OverStep DEF P!AbortSettles, P!InFlight
<1>9. CASE P!SendMessage
  <2>1. /\ mounted /\ ~P!FollowUpStreaming /\ interpretationId # P!NoId
        /\ interpretationId \in P!Calls
        /\ followUp' = [n |-> asks + 1, of |-> interpretationId, shown |-> messages, got |-> FALSE]
        /\ UNCHANGED <<key, mounted, visits, seq, lock, delivered, call, aborted, isStreaming, answer,
                 interpretationId, stored, lost, shown>>
    BY <1>0, <1>9 DEF P!SendMessage, P!CanAsk, P!refs
  <2>2. asks \in Nat
    BY DEF PanelInv, P!TypeOK
  <2>3. P!FollowUpStreaming' /\ Held' = messages /\ Held = messages
        /\ followUp'.of = interpretationId
    BY <2>1, <2>2 DEF P!FollowUpStreaming, Held
  <2>4. \A i \in P!Calls : Talked(i)' => Talked(i)
    BY <2>1, <2>3 DEF Talked
  <2>5. Mirror'
    BY <1>r, <2>1, <2>3, <2>4 DEF Mirror, P!InFlight
  <2>6. CallsKnown'
    BY <1>r, <2>1, <2>3 DEF CallsKnown, P!InFlight
  <2> QED
    BY <1>t, <1>r, <2>1, <2>5, <2>6 DEF PanelInv, P!OneStream, TextOfCurrent, P!KeyMeansTold,
       P!InFlight
<1>10. CASE P!FollowUpToken
  <2>1. /\ followUp' = [followUp EXCEPT !.got = TRUE]
        /\ UNCHANGED <<key, mounted, visits, seq, lock, delivered, call, aborted, isStreaming, answer,
                       interpretationId, messages, stored, lost, shown>>
    BY <1>10 DEF P!FollowUpToken, P!refs, P!text
  <2>2. followUp'.n = followUp.n /\ followUp'.of = followUp.of /\ followUp'.shown = followUp.shown
    BY <1>0, <2>1
  <2>3. (P!FollowUpStreaming' <=> P!FollowUpStreaming) /\ Held' = Held
        /\ \A i \in P!Calls : Talked(i)' <=> Talked(i)
    BY <2>1, <2>2 DEF P!FollowUpStreaming, Held, Talked
  <2> QED
    BY <1>t, <1>r, <2>1, <2>2, <2>3 DEF PanelInv, P!OneStream, Mirror, CallsKnown, TextOfCurrent,
       P!KeyMeansTold, P!InFlight
<1>11. CASE P!FollowUpOver
  BY <1>t, <1>11, FollowUpStep
<1>12. CASE P!NewSession
  <2>1. /\ ~P!FollowUpStreaming /\ messages' = <<>> /\ interpretationId' = P!NoId /\ answer' = {}
        /\ UNCHANGED <<key, mounted, visits, seq, lock, delivered, call, aborted, isStreaming,
                       followUp, stored, lost, shown>>
    BY <1>12 DEF P!NewSession, P!CanAsk, P!refs
  <2>2. ~P!FollowUpStreaming' /\ Held' = <<>>
    BY <2>1 DEF P!FollowUpStreaming, Held
  <2>3. Mirror'
    <3>1. \A i \in P!Calls : ~Talked(i)' /\ About(Elements(Held'), i) = {}
      BY <1>0, <2>1, <2>2 DEF Talked, About, Elements
    <3> QED
      BY <1>r, <2>1, <3>1 DEF Mirror, P!InFlight
  <2> QED
    BY <1>t, <1>r, <2>1, <2>2, <2>3 DEF PanelInv, P!OneStream, CallsKnown, TextOfCurrent,
       P!KeyMeansTold, P!InFlight
<1>13. CASE UNCHANGED P!vars
  BY <1>0, <1>t, <1>r, <1>h, <1>13 DEF P!vars, P!refs, PanelInv, P!OneStream, Mirror, CallsKnown,
     TextOfCurrent, P!KeyMeansTold, P!InFlight, P!text, P!chat, Talked
<1>14. QED
  BY <1>1, <1>2, <1>3, <1>4, <1>5, <1>6, <1>7, <1>8, <1>9, <1>10, <1>11, <1>12, <1>13 DEF P!Next

LEMMA PanelInRun ==
  [NextMC]_<<vars, limitVars, attemptVars, feedVars, commentVars, pillVars, drawVars,
             panelVars, busVars, part>> => [P!Next]_P!vars
  BY DEF NextMC, panelVars, P!vars, P!refs, P!text, P!chat

\* However answers, aborts, questions and departures overlap, the panel has one
\* stream and one answer, shows the conversation the server keeps, and leaves
\* its key only after it told something.
THEOREM PanelAlwaysSound == SpecMC => []PanelSound
<1>1. InitMC => PanelInv
  BY PagesAssumption, PanelInit DEF InitMC
<1>2. PanelInv /\ [P!Next]_P!vars => PanelInv'
  BY PagesAssumption, PanelStep
<1>3. PanelInv => PanelSound
  BY PagesAssumption, PanelSafe DEF PanelInv, PanelSound
<1> QED
  BY <1>1, <1>2, <1>3, PanelInRun, PTL DEF SpecMC

-----------------------------------------------------------------------------
(* The bus.  One attempt to connect is under way at a time, the shared one; *)
(* those who wait for it run before anything else happens, and find it as   *)
(* it was settled.                                                          *)

LEMMA BusSets ==
  /\ \A S : B!IsFiniteSet(S) <=> IsFiniteSet(S)
  /\ \A S : B!Cardinality(S) = Cardinality(S)
<1>1. \A S : B!IsFiniteSet(S) <=> IsFiniteSet(S)
  BY DEF B!IsFiniteSet, IsFiniteSet
<1>2. \A S : B!Cardinality(S) = Cardinality(S)
  BY DEF B!Cardinality, Cardinality
<1> QED
  BY <1>1, <1>2

InProgress(a) == attempt[a] \in {"pub", "sub"}
LiveSub == redisReady # None /\ attempt[redisReady] = "ok"

\* One attempt is under way at a time, and it is the shared one; the client is
\* the sub of the shared attempt, and only that sub is not on its way out.
SharedAttempt ==
  /\ \A a \in Attempts : InProgress(a) => redisReady = a
  /\ redisReady # None => attempt[redisReady] \in {"pub", "sub", "ok"}
  /\ subClient = IF LiveSub THEN redisReady ELSE None
  /\ subAlive \ quitting \subseteq {subClient}

\* Callers wait for attempts; the timer's know the sub that died.
BusWaiting ==
  \A c \in B!Callers : caller[c].pc # "idle" =>
    /\ caller[c].on \in Attempts /\ attempt[caller[c].on] # "free"
    /\ c \in Timers => caller[c].sub # None

\* What the callers find who are to run before anything else happens.
Found(c) ==
  LET a == caller[c].on IN
  \/ attempt[a] = "failed" /\ subClient = None
  \/ attempt[a] = "ok" /\ redisReady = a /\ a \in subAlive /\ a \in pubAlive
  \/ /\ attempt[a] = "ok" /\ redisReady = a
     /\ caller[c].pc = "result" => a \in subAlive
     /\ \A d \in B!Callers \ {c} : ~B!Runnable(d)

Woken == \A c \in B!Callers : B!Runnable(c) => Found(c)

BusBooting ==
  started # Boot =>
    /\ reconnectTimer = None /\ subAlive = {}
    /\ \A a \in Attempts : attempt[a] = "free" \/ (attempt[a] = "pub" /\ started # {})

BusComing == reconnectTimer # None \/ \E t \in Timers : caller[t].pc # "idle"

\* Without a client the death of a discarded sub wakes the bus.
BusReturning ==
  /\ booted /\ ~shadowed /\ reconnectFailures <= MaxFailures =>
       \/ subClient # None /\ subClient \in subAlive
       \/ subClient = None /\ subAlive # {}
       \/ BusComing
  /\ ~shadowed /\ subClient # None /\ subClient \notin subAlive /\ reconnectTimer # None =>
       reconnectTimer = subClient

BusInv == B!TypeOK /\ SharedAttempt /\ BusWaiting /\ Woken /\ BusBooting /\ BusReturning

LEMMA BusInit == B!BusAssumption /\ B!Init => BusInv
<1> SUFFICES ASSUME B!BusAssumption, B!Init PROVE BusInv
  OBVIOUS
<1>1. B!Idle.pc = "idle"
      /\ B!Idle \in [pc : {"idle", "ready", "result"}, on : Attempts \cup {None}, sub : Attempts \cup {None}]
  BY DEF B!Idle
<1>2. B!TypeOK
  <2>1. caller \in [B!Callers -> [pc : {"idle", "ready", "result"}, on : Attempts \cup {None}, sub : Attempts \cup {None}]]
    BY <1>1 DEF B!Init
  <2>2. {up, booted, shadowed} \subseteq BOOLEAN
    BY DEF B!Init
  <2>3. attempt \in [Attempts -> {"free", "pub", "sub", "ok", "failed"}]
    BY DEF B!Init
  <2> QED
    BY <2>1, <2>2, <2>3 DEF B!Init, B!TypeOK, B!BusAssumption
<1>3. \A c \in B!Callers : caller[c].pc = "idle"
  BY <1>1 DEF B!Init
<1>4. ~LiveSub /\ \A a \in Attempts : attempt[a] = "free"
  BY DEF B!Init, LiveSub
<1> QED
  BY <1>2, <1>3, <1>4 DEF B!Init, BusInv, SharedAttempt, BusWaiting, Woken, B!Runnable, BusBooting,
     BusReturning, InProgress, LiveSub

LEMMA BusFacts ==
  ASSUME B!BusAssumption, B!TypeOK
  PROVE  /\ None \notin Attempts /\ MaxFailures \in Nat
         /\ attempt \in [Attempts -> {"free", "pub", "sub", "ok", "failed"}]
         /\ pubAlive \subseteq Attempts /\ subAlive \subseteq Attempts
         /\ quitting \subseteq subAlive
         /\ subClient \in Attempts \cup {None} /\ redisReady \in Attempts \cup {None}
         /\ reconnectTimer \in Attempts \cup {None} /\ reconnectFailures \in 0 .. MaxFailures + 1
         /\ caller \in [B!Callers -> [pc : {"idle", "ready", "result"}, on : Attempts \cup {None}, sub : Attempts \cup {None}]]
         /\ \A c \in B!Callers : caller[c].on \in Attempts \cup {None} /\ caller[c].sub \in Attempts \cup {None}
         /\ started \subseteq Boot
         /\ Boot \subseteq B!Callers /\ Publishers \subseteq B!Callers /\ Timers \subseteq B!Callers
         /\ \A t \in Timers : t \notin Boot \cup Publishers
  BY DEF B!BusAssumption, B!TypeOK, B!Callers

\* Caller c waits for the attempt a now.
Waits(c, how, a, sub) ==
  /\ caller' \in [B!Callers -> [pc : {"idle", "ready", "result"}, on : Attempts \cup {None}, sub : Attempts \cup {None}]]
  /\ caller'[c].pc = how /\ caller'[c].on = a /\ caller'[c].sub = sub
  /\ \A d \in B!Callers \ {c} : caller'[d] = caller[d]

LEMMA WaitsNow ==
  ASSUME B!BusAssumption, B!TypeOK, NEW c \in B!Callers, NEW how \in {"ready", "result"}, NEW a \in Attempts, NEW sub \in Attempts \cup {None},
         caller' = [caller EXCEPT ![c] = [pc |-> how, on |-> a, sub |-> sub]]
  PROVE  Waits(c, how, a, sub)
<1> DEFINE r == [pc |-> how, on |-> a, sub |-> sub]
<1>1. /\ r \in [pc : {"idle", "ready", "result"}, on : Attempts \cup {None}, sub : Attempts \cup {None}]
      /\ r.pc = how /\ r.on = a /\ r.sub = sub
  OBVIOUS
<1>2. caller' = [caller EXCEPT ![c] = r]
  OBVIOUS
<1> HIDE DEF r
<1> QED
  BY <1>1, <1>2, BusFacts DEF Waits

\* A new attempt.
Begins(a) ==
  /\ B!Forgotten(a) /\ redisReady' = a
  /\ attempt' \in [Attempts -> {"free", "pub", "sub", "ok", "failed"}]
  /\ attempt'[a] = "pub" /\ \A x \in Attempts \ {a} : attempt'[x] = attempt[x]
  /\ pubAlive' = pubAlive \ {a}

LEMMA Joins ==
  ASSUME B!BusAssumption, B!TypeOK, NEW c \in B!Callers, NEW sub \in Attempts \cup {None}, NEW ready \in Attempts \cup {None},
         B!JoinAttempt(c, sub, ready)
  PROVE  \/ ready # None /\ Waits(c, "result", ready, sub) /\ redisReady' = ready /\ UNCHANGED <<attempt, pubAlive>>
         \/ ready = None /\ \E a \in Attempts : Begins(a) /\ Waits(c, "result", a, sub)
<1>1. CASE ready # None
  BY <1>1, WaitsNow DEF B!JoinAttempt
<1>2. CASE ready = None
  <2> DEFINE a == CHOOSE x \in {x \in Attempts : B!Forgotten(x)} : TRUE
  <2>1. a \in Attempts /\ B!Forgotten(a)
    BY <1>2 DEF B!JoinAttempt
  <2>2. /\ attempt' = [attempt EXCEPT ![a] = "pub"] /\ redisReady' = a /\ pubAlive' = pubAlive \ {a}
        /\ caller' = [caller EXCEPT ![c] = [pc |-> "result", on |-> a, sub |-> sub]]
    BY <1>2 DEF B!JoinAttempt
  <2> HIDE DEF a
  <2>3. Begins(a)
    BY <2>1, <2>2, BusFacts DEF Begins
  <2>4. Waits(c, "result", a, sub)
    BY <2>1, <2>2, WaitsNow
  <2> QED
    BY <1>2, <2>1, <2>3, <2>4
<1> QED
  BY <1>1, <1>2

\* A new attempt keeps what is known of the attempts and of those who wait.
LEMMA Begun ==
  ASSUME B!BusAssumption, B!TypeOK, SharedAttempt, BusWaiting, Woken,
         NEW c \in B!Callers, NEW sub \in Attempts \cup {None}, NEW a \in Attempts,
         Begins(a), Waits(c, "result", a, sub), c \in Timers => sub # None,
         \A x \in Attempts : ~InProgress(x),
         \A d \in B!Callers \ {c} : B!Runnable(d) => attempt[caller[d].on] = "failed",
         UNCHANGED subAlive, subClient' = None, subAlive \ quitting' = {}
  PROVE  SharedAttempt' /\ BusWaiting' /\ Woken'
<1>1. ~LiveSub' /\ redisReady' = a /\ a # None
  BY BusFacts DEF LiveSub, Begins
<1>2. SharedAttempt'
  BY <1>1, BusFacts DEF SharedAttempt, InProgress, Begins
<1>3. \A d \in B!Callers \ {c} : caller[d].on # a
  BY DEF Begins, B!Forgotten
<1>4. BusWaiting'
  BY <1>3, BusFacts DEF BusWaiting, Begins, Waits
<1>5. ~B!Runnable(c)'
  BY DEF Waits, Begins, B!Runnable, B!Settled
<1>6. \A d \in B!Callers \ {c} : B!Runnable(d)' => B!Runnable(d) /\ attempt'[caller'[d].on] = "failed"
  BY <1>3, BusFacts DEF Waits, Begins, B!Runnable, B!Settled, BusWaiting
<1>7. Woken'
  BY <1>5, <1>6 DEF Woken, Found
<1> QED
  BY <1>2, <1>4, <1>7

\* What a caller leaves who comes when nobody else is to run.
LEMMA Ensured ==
  ASSUME B!BusAssumption, B!TypeOK, SharedAttempt, BusWaiting, Woken,
         NEW c \in B!Callers, NEW sub \in Attempts \cup {None}, B!EnsureRedis(c, sub), c \in Timers => sub # None,
         \A d \in B!Callers : ~B!Runnable(d), UNCHANGED <<subAlive, quitting, subClient>>
  PROVE  /\ SharedAttempt' /\ BusWaiting' /\ Woken'
         /\ attempt' \in [Attempts -> {"free", "pub", "sub", "ok", "failed"}]
         /\ pubAlive' \subseteq Attempts
         /\ redisReady' \in Attempts \cup {None}
         /\ \A x \in Attempts : attempt'[x] \in {attempt[x], "pub"}
         /\ \E how \in {"ready", "result"} : \E a \in Attempts : Waits(c, how, a, sub)
<1>1. CASE redisReady = None
  <2>1. PICK a \in Attempts : Begins(a) /\ Waits(c, "result", a, sub)
    BY <1>1, Joins DEF B!EnsureRedis
  <2>2. subClient = None /\ subAlive \ quitting = {} /\ \A x \in Attempts : ~InProgress(x)
    BY <1>1, BusFacts DEF SharedAttempt, LiveSub
  <2>3. SharedAttempt' /\ BusWaiting' /\ Woken'
    BY <2>1, <2>2, Begun
  <2> QED
    BY <2>1, <2>3, BusFacts DEF Begins
<1>2. CASE redisReady # None
  <2>1. /\ caller' = [caller EXCEPT ![c] = [pc |-> "ready", on |-> redisReady, sub |-> sub]]
        /\ UNCHANGED <<attempt, redisReady, pubAlive>>
    BY <1>2 DEF B!EnsureRedis
  <2>2. redisReady \in Attempts /\ Waits(c, "ready", redisReady, sub)
    BY <1>2, <2>1, BusFacts, WaitsNow
  <2>3. SharedAttempt'
    BY <2>1 DEF SharedAttempt, InProgress, LiveSub
  <2>4. BusWaiting'
    BY <1>2, <2>1, <2>2 DEF BusWaiting, Waits, SharedAttempt
  <2>5. \A d \in B!Callers \ {c} : ~B!Runnable(d)'
    BY <2>1, <2>2 DEF Waits, B!Runnable, B!Settled
  <2>6. B!Runnable(c)' => attempt[redisReady] = "ok"
    BY <1>2, <2>1, <2>2 DEF Waits, B!Runnable, B!Settled, SharedAttempt
  <2>7. Woken'
    BY <2>1, <2>2, <2>5, <2>6 DEF Woken, Found, Waits
  <2> QED
    BY <2>1, <2>2, <2>3, <2>4, <2>7, BusFacts
<1> QED
  BY <1>1, <1>2

LEMMA BusStep == B!BusAssumption /\ BusInv /\ [B!Next]_B!vars => BusInv'
<1> SUFFICES ASSUME B!BusAssumption, BusInv, [B!Next]_B!vars PROVE BusInv'
  OBVIOUS
<1>r. B!TypeOK /\ SharedAttempt /\ BusWaiting /\ Woken /\ BusBooting /\ BusReturning
  BY DEF BusInv
<1>f. /\ None \notin Attempts /\ MaxFailures \in Nat
      /\ attempt \in [Attempts -> {"free", "pub", "sub", "ok", "failed"}]
      /\ pubAlive \subseteq Attempts /\ subAlive \subseteq Attempts /\ quitting \subseteq subAlive
      /\ subClient \in Attempts \cup {None} /\ redisReady \in Attempts \cup {None}
      /\ reconnectTimer \in Attempts \cup {None} /\ reconnectFailures \in 0 .. MaxFailures + 1
      /\ caller \in [B!Callers -> [pc : {"idle", "ready", "result"}, on : Attempts \cup {None}, sub : Attempts \cup {None}]]
      /\ \A c \in B!Callers : caller[c].on \in Attempts \cup {None} /\ caller[c].sub \in Attempts \cup {None}
      /\ started \subseteq Boot
      /\ Boot \subseteq B!Callers /\ Publishers \subseteq B!Callers /\ Timers \subseteq B!Callers
      /\ \A t \in Timers : t \notin Boot \cup Publishers
      /\ up \in BOOLEAN /\ booted \in BOOLEAN /\ shadowed \in BOOLEAN
  BY <1>r, BusFacts DEF B!TypeOK
<1>1. ASSUME NEW c \in B!Callers, B!Resume(c) PROVE BusInv'
  <2> DEFINE a == caller[c].on
             sub == caller[c].sub
  <2>1. /\ caller[c].pc = "ready" /\ B!Runnable(c) /\ Found(c) /\ a \in Attempts
        /\ sub \in Attempts \cup {None}
        /\ c \in Timers => sub # None
        /\ UNCHANGED <<up, subAlive, reconnectTimer, reconnectFailures, started, booted, shadowed>>
    BY <1>f, <1>r, <1>1 DEF B!Resume, Woken, B!Runnable, BusWaiting
  <2>2. started = Boot
    BY <1>r, <2>1 DEF BusBooting, B!Runnable, B!Settled
  <2>3. CASE B!IsBusClientDead(a)
    <3>1. /\ attempt[a] = "ok" /\ redisReady = a /\ \A d \in B!Callers \ {c} : ~B!Runnable(d)
      BY <1>f, <1>r, <2>1, <2>3 DEF B!IsBusClientDead, Found, SharedAttempt, LiveSub
    <3>2. /\ subClient = a /\ \A x \in Attempts : ~InProgress(x)
      BY <1>f, <1>r, <3>1 DEF SharedAttempt, LiveSub, InProgress
    <3>3. /\ subClient' = None /\ quitting' = quitting \cup (subAlive \cap {subClient})
          /\ B!JoinAttempt(c, sub, None)
      BY <1>1, <2>3 DEF B!Resume
    <3>4. PICK b \in Attempts : Begins(b) /\ Waits(c, "result", b, sub)
      BY <1>r, <2>1, <3>3, Joins
    <3>5. quitting' \subseteq subAlive /\ subAlive \ quitting' = {}
      BY <1>f, <1>r, <3>3 DEF SharedAttempt
    <3>6. SharedAttempt' /\ BusWaiting' /\ Woken'
      BY <1>r, <2>1, <3>1, <3>2, <3>3, <3>4, <3>5, Begun
    <3>7. B!TypeOK'
      BY <1>f, <1>r, <2>1, <3>3, <3>4, <3>5 DEF B!TypeOK, Begins, Waits
    <3>8. BusReturning'
      <4>1. BusComing => BusComing'
        BY <1>f, <2>1, <3>4 DEF BusComing, Waits
      <4> QED
        BY <1>f, <1>r, <2>1, <3>2, <3>3, <4>1 DEF BusReturning
    <3> QED
      BY <2>1, <2>2, <3>6, <3>7, <3>8 DEF BusInv, BusBooting
  <2>4. CASE ~B!IsBusClientDead(a)
    <3>1. B!JoinAttempt(c, sub, redisReady) /\ UNCHANGED <<subClient, quitting>>
      BY <1>1, <2>4 DEF B!Resume
    <3>2. CASE redisReady # None
      <4>1. Waits(c, "result", redisReady, sub) /\ UNCHANGED <<redisReady, attempt, pubAlive>>
        BY <1>f, <1>r, <2>1, <3>1, <3>2, Joins
      <4>2. B!TypeOK'
        BY <1>f, <1>r, <2>1, <3>1, <4>1 DEF B!TypeOK, Waits
      <4>3. SharedAttempt'
        BY <1>r, <2>1, <3>1, <4>1 DEF SharedAttempt, InProgress, LiveSub
      <4>4. BusWaiting'
        BY <1>f, <1>r, <2>1, <3>2, <4>1 DEF BusWaiting, Waits, SharedAttempt
      <4>5. Woken'
        <5> SUFFICES ASSUME NEW d \in B!Callers, B!Runnable(d)' PROVE Found(d)'
          BY DEF Woken
        <5>1. CASE d = c
          <6>1. attempt[redisReady] = "ok" /\ subClient = redisReady
            BY <1>f, <1>r, <3>2, <4>1, <5>1 DEF B!Runnable, B!Settled, SharedAttempt, LiveSub, Waits
          <6>2. attempt[a] = "ok" /\ redisReady = a
            BY <1>f, <2>1, <3>2, <6>1 DEF Found
          <6>3. a \in pubAlive /\ a \in subAlive
            BY <2>4, <3>2, <6>1, <6>2 DEF B!IsBusClientDead
          <6> QED
            BY <2>1, <4>1, <5>1, <6>2, <6>3 DEF Found, Waits
        <5>2. CASE d # c
          <6>1. B!Runnable(d) /\ caller'[d] = caller[d]
            BY <4>1, <5>2 DEF B!Runnable, B!Settled, Waits
          <6>2. Found(d)
            BY <1>r, <6>1 DEF Woken
          <6>3. ~ \A e \in B!Callers \ {d} : ~B!Runnable(e)
            BY <2>1, <5>2
          <6> QED
            BY <2>1, <3>1, <4>1, <6>1, <6>2, <6>3 DEF Found
        <5> QED
          BY <5>1, <5>2
      <4>6. BusReturning'
        <5>1. BusComing => BusComing'
          BY <1>f, <2>1, <4>1 DEF BusComing, Waits
        <5> QED
          BY <1>r, <2>1, <3>1, <5>1 DEF BusReturning
      <4> QED
        BY <2>1, <2>2, <4>2, <4>3, <4>4, <4>5, <4>6 DEF BusInv, BusBooting
    <3>3. CASE redisReady = None
      <4>1. PICK b \in Attempts : Begins(b) /\ Waits(c, "result", b, sub)
        BY <1>r, <2>1, <3>1, <3>3, Joins
      <4>2. subClient = None /\ subAlive \ quitting = {} /\ \A x \in Attempts : ~InProgress(x)
        BY <1>f, <1>r, <3>3 DEF SharedAttempt, LiveSub
      <4>3. \A d \in B!Callers \ {c} : B!Runnable(d) => attempt[caller[d].on] = "failed"
        BY <1>f, <1>r, <3>3 DEF Woken, Found, BusWaiting, B!Runnable
      <4>4. SharedAttempt' /\ BusWaiting' /\ Woken'
        BY <1>f, <1>r, <2>1, <3>1, <4>1, <4>2, <4>3, Begun
      <4>5. B!TypeOK'
        BY <1>f, <1>r, <2>1, <3>1, <4>1 DEF B!TypeOK, Begins, Waits
      <4>6. BusReturning'
        <5>1. BusComing => BusComing'
          BY <1>f, <2>1, <4>1 DEF BusComing, Waits
        <5> QED
          BY <1>r, <2>1, <3>1, <5>1 DEF BusReturning
      <4> QED
        BY <2>1, <2>2, <4>4, <4>5, <4>6 DEF BusInv, BusBooting
    <3> QED
      BY <3>2, <3>3
  <2> QED
    BY <2>3, <2>4
<1>q. B!Quiet => \A c \in B!Callers : ~B!Runnable(c)
  BY DEF B!Quiet
<1>i. B!Idle.pc = "idle"
      /\ B!Idle \in [pc : {"idle", "ready", "result"}, on : Attempts \cup {None}, sub : Attempts \cup {None}]
  BY DEF B!Idle
<1>2. ASSUME NEW c \in B!Callers, B!Result(c) PROVE BusInv'
  <2> DEFINE a == caller[c].on
             sub == caller[c].sub
             failed == attempt[a] = "failed"
             failures == IF reconnectFailures > MaxFailures THEN reconnectFailures ELSE reconnectFailures + 1
  <2>1. /\ caller[c].pc = "result" /\ B!Runnable(c) /\ Found(c) /\ a \in Attempts
        /\ sub \in Attempts \cup {None}
        /\ c \in Timers => sub # None
        /\ UNCHANGED <<up, attempt, pubAlive, subAlive, quitting, subClient, redisReady, started,
                       booted, shadowed>>
        /\ caller' = [caller EXCEPT ![c] = B!Idle]
    BY <1>f, <1>r, <1>2 DEF B!Result, Woken, B!Runnable, BusWaiting
  <2>2. IF c \notin Timers
           THEN UNCHANGED <<reconnectFailures, reconnectTimer>>
           ELSE /\ reconnectFailures' = (IF failed THEN failures ELSE 0)
                /\ reconnectTimer' =
                     IF failed /\ failures <= MaxFailures
                       THEN B!ScheduleBusReconnect(sub, reconnectTimer, subClient)
                       ELSE reconnectTimer
    BY <1>2 DEF B!Result
  <2>3. started = Boot
    BY <1>r, <2>1 DEF BusBooting, B!Runnable, B!Settled
  <2>4. /\ caller' \in [B!Callers -> [pc : {"idle", "ready", "result"}, on : Attempts \cup {None}, sub : Attempts \cup {None}]]
        /\ caller'[c].pc = "idle" /\ \A d \in B!Callers \ {c} : caller'[d] = caller[d]
    BY <1>f, <1>i, <2>1
  <2>5. SharedAttempt'
    BY <1>r, <2>1 DEF SharedAttempt, InProgress, LiveSub
  <2>6. BusWaiting'
    BY <1>r, <2>1, <2>4 DEF BusWaiting
  <2>7. Woken'
    <3>1. ~B!Runnable(c)' /\ \A d \in B!Callers \ {c} : B!Runnable(d)' <=> B!Runnable(d)
      BY <2>1, <2>4 DEF B!Runnable, B!Settled
    <3> QED
      BY <1>r, <2>1, <2>4, <3>1 DEF Woken, Found
  <2>8. failures \in 0 .. MaxFailures + 1
    BY <1>f
  <2>9. reconnectTimer' \in {reconnectTimer, sub}
        /\ reconnectFailures' \in {reconnectFailures, failures, 0}
    BY <2>2 DEF B!ScheduleBusReconnect
  <2> HIDE DEF failures
  <2>10. B!TypeOK'
    BY <1>f, <1>r, <2>1, <2>4, <2>8, <2>9 DEF B!TypeOK
  <2>11. CASE c \notin Timers
    <3>1. BusComing => BusComing'
      BY <1>f, <2>2, <2>4, <2>11 DEF BusComing
    <3>2. BusReturning'
      BY <1>r, <2>1, <2>2, <2>11, <3>1 DEF BusReturning
    <3> QED
      BY <2>1, <2>3, <2>5, <2>6, <2>7, <2>10, <3>2 DEF BusInv, BusBooting
  <2>12. CASE c \in Timers /\ attempt[a] = "failed"
    <3>1. subClient = None /\ sub # None
      BY <2>1, <2>12 DEF Found
    <3>2. reconnectFailures' = failures
      BY <2>2, <2>12
    <3>3. failures <= MaxFailures => reconnectTimer' # None
      BY <2>2, <2>12, <3>1 DEF B!ScheduleBusReconnect
    <3>4. BusReturning'
      BY <2>1, <3>1, <3>2, <3>3 DEF BusReturning, BusComing
    <3> QED
      BY <2>1, <2>3, <2>5, <2>6, <2>7, <2>10, <3>4 DEF BusInv, BusBooting
  <2>13. CASE c \in Timers /\ attempt[a] = "ok"
    <3>1. subClient # None /\ subClient \in subAlive
      BY <1>f, <1>r, <2>1, <2>13 DEF Found, SharedAttempt, LiveSub
    <3>2. BusReturning'
      BY <2>1, <3>1 DEF BusReturning
    <3> QED
      BY <2>1, <2>3, <2>5, <2>6, <2>7, <2>10, <3>2 DEF BusInv, BusBooting
  <2> QED
    BY <2>1, <2>11, <2>12, <2>13 DEF Found
<1>3. ASSUME NEW c \in Boot, B!Subscribe(c) PROVE BusInv'
  <2>1. /\ c \in B!Callers /\ c \notin Timers /\ c \notin started /\ started' = started \cup {c}
        /\ B!EnsureRedis(c, None)
        /\ UNCHANGED <<up, subAlive, quitting, subClient, reconnectTimer, reconnectFailures,
                       booted, shadowed>>
    BY <1>f, <1>3 DEF B!Subscribe
  <2>2. \A d \in B!Callers : ~B!Runnable(d)
    BY <1>f, <1>r, <1>3, <2>1 DEF BusBooting, B!Runnable, B!Settled, BusWaiting
  <2>3. /\ SharedAttempt' /\ BusWaiting' /\ Woken'
        /\ attempt' \in [Attempts -> {"free", "pub", "sub", "ok", "failed"}]
        /\ pubAlive' \subseteq Attempts
        /\ redisReady' \in Attempts \cup {None}
        /\ \A x \in Attempts : attempt'[x] \in {attempt[x], "pub"}
        /\ \E how \in {"ready", "result"} : \E a \in Attempts : Waits(c, how, a, None)
    BY <1>r, <2>1, <2>2, Ensured
  <2>v. PICK how \in {"ready", "result"} : \E a \in Attempts : Waits(c, how, a, None)
    BY <2>3
  <2>w. PICK a \in Attempts : Waits(c, how, a, None)
    BY <2>v
  <2>4. B!TypeOK'
    <3>1. started' \subseteq Boot
      BY <1>f, <1>3, <2>1
    <3> QED
      BY <1>f, <1>r, <2>1, <2>3, <2>w, <3>1 DEF B!TypeOK, Waits
  <2>5. BusBooting'
    BY <1>r, <1>3, <2>1, <2>3 DEF BusBooting
  <2>6. BusReturning'
    <3>1. BusComing => BusComing'
      BY <1>f, <2>1, <2>w DEF BusComing, Waits
    <3> QED
      BY <1>r, <2>1, <3>1 DEF BusReturning
  <2> QED
    BY <2>3, <2>4, <2>5, <2>6 DEF BusInv
<1>4. ASSUME NEW c \in Publishers, B!Publish(c) PROVE BusInv'
  <2>1. /\ c \in B!Callers /\ c \notin Timers /\ started = Boot /\ B!EnsureRedis(c, None)
        /\ \A d \in B!Callers : ~B!Runnable(d)
        /\ UNCHANGED <<up, subAlive, quitting, subClient, reconnectTimer, reconnectFailures,
                       started, booted, shadowed>>
    BY <1>f, <1>q, <1>4 DEF B!Publish
  <2>3. /\ SharedAttempt' /\ BusWaiting' /\ Woken'
        /\ attempt' \in [Attempts -> {"free", "pub", "sub", "ok", "failed"}]
        /\ pubAlive' \subseteq Attempts
        /\ redisReady' \in Attempts \cup {None}
        /\ \E how \in {"ready", "result"} : \E a \in Attempts : Waits(c, how, a, None)
    BY <1>r, <2>1, Ensured
  <2>4. B!TypeOK'
    BY <1>f, <1>r, <2>1, <2>3 DEF B!TypeOK, Waits
  <2>6. BusReturning'
    <3>1. BusComing => BusComing'
      BY <1>f, <2>1, <2>3 DEF BusComing, Waits
    <3> QED
      BY <1>r, <2>1, <3>1 DEF BusReturning
  <2> QED
    BY <2>1, <2>3, <2>4, <2>6 DEF BusInv, BusBooting
<1>b. B!Quiet => started = Boot \/ \A a \in Attempts : attempt[a] = "free"
  BY <1>r DEF B!Quiet, BusBooting
<1>5. ASSUME NEW a \in Attempts, B!PubConnects(a) PROVE BusInv'
  <2>1. /\ B!Quiet /\ started = Boot /\ attempt[a] = "pub"
        /\ attempt' = [attempt EXCEPT ![a] = "sub"]
        /\ \A x \in Attempts : attempt'[x] = IF x = a THEN "sub" ELSE attempt[x]
        /\ UNCHANGED <<up, pubAlive, subAlive, quitting, subClient, redisReady, reconnectTimer,
                 reconnectFailures, caller, started, booted, shadowed>>
    BY <1>f, <1>b, <1>5 DEF B!PubConnects
  <2>2. B!TypeOK'
    BY <1>f, <1>r, <2>1 DEF B!TypeOK
  <2>3. SharedAttempt'
    BY <1>f, <1>r, <2>1 DEF SharedAttempt, InProgress, LiveSub
  <2>4. BusWaiting'
    BY <1>f, <1>r, <2>1 DEF BusWaiting
  <2>5. \A d \in B!Callers : ~B!Runnable(d)'
    BY <1>f, <1>r, <1>q, <2>1 DEF B!Runnable, B!Settled, BusWaiting
  <2> QED
    BY <1>r, <2>1, <2>2, <2>3, <2>4, <2>5 DEF BusInv, Woken, BusBooting, BusReturning, BusComing
<1>6. ASSUME NEW a \in Attempts, B!SubConnects(a) PROVE BusInv'
  <2>1. /\ B!Quiet /\ started = Boot /\ attempt[a] = "sub"
        /\ attempt' = [attempt EXCEPT ![a] = "ok"]
        /\ \A x \in Attempts : attempt'[x] = IF x = a THEN "ok" ELSE attempt[x]
        /\ pubAlive' = pubAlive \cup {a} /\ subAlive' = subAlive \cup {a} /\ subClient' = a
        /\ booted' /\ ~shadowed'
        /\ UNCHANGED <<up, quitting, redisReady, reconnectTimer, reconnectFailures, caller,
                       started>>
    BY <1>f, <1>b, <1>6 DEF B!SubConnects
  <2>2. redisReady = a /\ subClient = None /\ subAlive \ quitting = {}
    BY <1>f, <1>r, <2>1 DEF SharedAttempt, InProgress, LiveSub
  <2>3. B!TypeOK'
    <3>1. {up, booted, shadowed}' \subseteq BOOLEAN
      BY <1>f, <1>6 DEF B!SubConnects
    <3> QED
      BY <1>f, <1>r, <2>1, <3>1 DEF B!TypeOK
  <2>4. SharedAttempt'
    BY <1>f, <1>r, <2>1, <2>2 DEF SharedAttempt, InProgress, LiveSub
  <2>5. BusWaiting'
    BY <1>f, <1>r, <2>1 DEF BusWaiting
  <2>6. Woken'
    BY <1>f, <1>r, <1>q, <2>1, <2>2 DEF Woken, Found, B!Runnable, B!Settled, BusWaiting
  <2> QED
    BY <1>f, <1>r, <2>1, <2>3, <2>4, <2>5, <2>6 DEF BusInv, BusBooting, BusReturning
<1>7. ASSUME NEW a \in Attempts, B!AttemptFails(a) PROVE BusInv'
  <2>1. /\ B!Quiet /\ started = Boot /\ attempt[a] \in {"pub", "sub"}
        /\ attempt' = [attempt EXCEPT ![a] = "failed"]
        /\ \A x \in Attempts : attempt'[x] = IF x = a THEN "failed" ELSE attempt[x]
        /\ UNCHANGED <<up, pubAlive, subAlive, quitting, subClient, reconnectFailures, caller, started,
                 booted, shadowed>>
    BY <1>f, <1>b, <1>7 DEF B!AttemptFails
  <2>2. redisReady = a /\ redisReady' = None /\ subClient = None
        /\ reconnectTimer' \in {reconnectTimer, a}
        /\ (reconnectTimer # None => reconnectTimer' = reconnectTimer)
    BY <1>f, <1>r, <1>7, <2>1 DEF SharedAttempt, InProgress, LiveSub, B!AttemptFails,
       B!ScheduleBusReconnect
  <2>3. B!TypeOK'
    BY <1>f, <1>r, <2>1, <2>2 DEF B!TypeOK
  <2>4. SharedAttempt'
    BY <1>f, <1>r, <2>1, <2>2 DEF SharedAttempt, InProgress, LiveSub
  <2>5. BusWaiting'
    BY <1>f, <1>r, <2>1 DEF BusWaiting
  <2>6. Woken'
    BY <1>f, <1>r, <1>q, <2>1, <2>2 DEF Woken, Found, B!Runnable, B!Settled, BusWaiting
  <2> QED
    BY <1>f, <1>r, <2>1, <2>2, <2>3, <2>4, <2>5, <2>6 DEF BusInv, BusBooting, BusReturning,
       BusComing
<1>8. ASSUME NEW a \in Attempts, B!SubDies(a) PROVE BusInv'
  <2>1. /\ B!Quiet /\ a \in subAlive /\ subAlive' = subAlive \ {a} /\ quitting' = quitting \ {a}
        /\ reconnectTimer' = B!ScheduleBusReconnect(a, reconnectTimer, subClient)
        /\ UNCHANGED <<up, attempt, pubAlive, subClient, redisReady, reconnectFailures, caller,
                 started, booted>>
    BY <1>8 DEF B!SubDies
  <2>2. ~shadowed' <=> ~shadowed /\ ~(a = subClient /\ reconnectTimer \notin {None, a})
    BY <1>f, <1>8 DEF B!SubDies
  <2>3. reconnectTimer' \in {reconnectTimer, a}
        /\ (reconnectTimer # None => reconnectTimer' = reconnectTimer)
        /\ (subClient \in {None, a} => reconnectTimer' # None)
    BY <1>f, <2>1 DEF B!ScheduleBusReconnect
  <2>4. B!TypeOK'
    <3>1. shadowed' \in BOOLEAN
      BY <1>f, <1>8 DEF B!SubDies
    <3> QED
      BY <1>f, <1>r, <2>1, <2>3, <3>1 DEF B!TypeOK
  <2>5. SharedAttempt' /\ BusWaiting'
    BY <1>r, <2>1 DEF SharedAttempt, InProgress, LiveSub, BusWaiting
  <2>6. \A d \in B!Callers : ~B!Runnable(d)'
    BY <1>q, <2>1 DEF B!Runnable, B!Settled
  <2>7. BusBooting'
    BY <1>r, <2>1 DEF BusBooting
  <2>8. BusReturning'
    <3>1. BusComing => BusComing'
      BY <1>f, <2>1, <2>3 DEF BusComing
    <3>2. CASE subClient \in {None, a}
      BY <1>f, <1>r, <2>1, <2>2, <2>3, <3>2 DEF BusReturning, BusComing, B!ScheduleBusReconnect
    <3>3. CASE subClient \notin {None, a}
      BY <1>f, <1>r, <2>1, <2>2, <2>3, <3>1, <3>3 DEF BusReturning, B!ScheduleBusReconnect
    <3> QED
      BY <3>2, <3>3
  <2> QED
    BY <2>4, <2>5, <2>6, <2>7, <2>8 DEF BusInv, Woken
<1>9. ASSUME NEW a \in Attempts, B!PubDies(a) PROVE BusInv'
  <2>1. /\ B!Quiet /\ pubAlive' = pubAlive \ {a}
        /\ UNCHANGED <<up, attempt, subAlive, quitting, subClient, redisReady, reconnectTimer, reconnectFailures, caller,
                 started, booted, shadowed>>
    BY <1>9 DEF B!PubDies
  <2>2. \A d \in B!Callers : ~B!Runnable(d)'
    BY <1>q, <2>1 DEF B!Runnable, B!Settled
  <2>3. B!TypeOK'
    BY <1>f, <1>r, <2>1 DEF B!TypeOK
  <2> QED
    BY <1>r, <2>1, <2>2, <2>3 DEF BusInv, SharedAttempt, InProgress, LiveSub, BusWaiting, Woken,
       BusBooting, BusReturning, BusComing
<1>10. CASE B!TimerFires
  <2>1. /\ reconnectTimer # None /\ reconnectTimer' = None
        /\ \A d \in B!Callers : ~B!Runnable(d)
        /\ UNCHANGED <<up, subAlive, quitting, subClient, reconnectFailures, started, booted,
                       shadowed>>
    BY <1>q, <1>10 DEF B!TimerFires
  <2>0. started = Boot
    BY <1>r, <2>1 DEF BusBooting
  <2>2. CASE subClient # None /\ reconnectTimer # subClient
    <3>1. UNCHANGED <<attempt, redisReady, pubAlive, caller>>
      BY <1>10, <2>2 DEF B!TimerFires
    <3>2. ~shadowed => subClient \in subAlive
      BY <1>r, <2>1, <2>2 DEF BusReturning
    <3>3. B!TypeOK'
      BY <1>f, <1>r, <2>1, <3>1 DEF B!TypeOK
    <3>4. SharedAttempt' /\ BusWaiting' /\ Woken'
      BY <1>r, <2>1, <3>1 DEF SharedAttempt, InProgress, LiveSub, BusWaiting, Woken, Found,
         B!Runnable, B!Settled
    <3> QED
      BY <2>0, <2>1, <2>2, <3>2, <3>3, <3>4 DEF BusInv, BusBooting, BusReturning
  <2>3. CASE ~(subClient # None /\ reconnectTimer # subClient)
    <3>1. PICK t \in Timers : caller[t].pc = "idle" /\ B!EnsureRedis(t, reconnectTimer)
      BY <1>10, <2>3 DEF B!TimerFires
    <3>2. /\ SharedAttempt' /\ BusWaiting' /\ Woken'
          /\ attempt' \in [Attempts -> {"free", "pub", "sub", "ok", "failed"}]
          /\ pubAlive' \subseteq Attempts
          /\ redisReady' \in Attempts \cup {None}
          /\ \E how \in {"ready", "result"} : \E a \in Attempts : Waits(t, how, a, reconnectTimer)
      BY <1>f, <1>r, <2>1, <3>1, Ensured
    <3>3. B!TypeOK'
      BY <1>f, <1>r, <2>1, <3>2 DEF B!TypeOK, Waits
    <3>4. BusComing'
      BY <1>f, <3>1, <3>2 DEF BusComing, Waits
    <3> QED
      BY <2>0, <2>1, <3>2, <3>3, <3>4 DEF BusInv, BusBooting, BusReturning
  <2> QED
    BY <2>2, <2>3
<1>11. CASE B!RedisChanges
  <2>1. /\ UNCHANGED <<attempt, pubAlive, subAlive, quitting, subClient, redisReady,
                 reconnectTimer, reconnectFailures, caller, started, booted, shadowed>>
    BY <1>11 DEF B!RedisChanges
  <2>2. up' \in BOOLEAN
    BY <1>11 DEF B!RedisChanges
  <2>3. B!TypeOK'
    BY <1>f, <1>r, <2>1, <2>2 DEF B!TypeOK
  <2> QED
    BY <1>r, <2>1, <2>3 DEF BusInv, SharedAttempt, InProgress, LiveSub, BusWaiting, Woken, Found,
       B!Runnable, B!Settled, BusBooting, BusReturning, BusComing
<1>12. CASE UNCHANGED B!vars
  <2>1. /\ UNCHANGED <<up, attempt, pubAlive, subAlive, quitting, subClient, redisReady,
                 reconnectTimer, reconnectFailures, caller, started, booted, shadowed>>
    BY <1>12 DEF B!vars
  <2>3. B!TypeOK'
    BY <1>f, <1>r, <2>1 DEF B!TypeOK
  <2> QED
    BY <1>r, <2>1, <2>3 DEF BusInv, SharedAttempt, InProgress, LiveSub, BusWaiting, Woken, Found,
       B!Runnable, B!Settled, BusBooting, BusReturning, BusComing
<1> QED
  BY <1>1, <1>2, <1>3, <1>4, <1>5, <1>6, <1>7, <1>8, <1>9, <1>10, <1>11, <1>12 DEF B!Next

\* What the run checks.
LEMMA BusSafe == B!BusAssumption /\ BusInv => B!TypeOK /\ B!OneSub /\ B!BusAwake
<1> SUFFICES ASSUME B!BusAssumption, BusInv PROVE B!OneSub /\ B!BusAwake
  BY DEF BusInv
<1>1. B!OneSub
  <2>1. IsFiniteSet({subClient}) /\ Cardinality({subClient}) = 1
    BY FS_Singleton
  <2>2. Cardinality(subAlive \ quitting) <= 1 /\ Cardinality(subAlive \ quitting) \in Nat
    BY <2>1, FS_Subset, FS_CardinalityType DEF BusInv, SharedAttempt
  <2> QED
    BY BusSets, <2>2 DEF B!OneSub
<1>2. B!BusAwake
  BY DEF B!BusAwake, BusInv, BusReturning, BusComing
<1> QED
  BY <1>1, <1>2

LEMMA BusInRun ==
  [NextMC]_<<vars, limitVars, attemptVars, feedVars, commentVars, pillVars, drawVars,
             panelVars, busVars, part>> => [B!Next]_B!vars
  BY DEF NextMC, busVars, B!vars

\* However connections fail and die and timers and callers meet, the process has
\* one subscription, and a bus that lost it is on its way back.
THEOREM BusAlwaysSound == SpecMC => []BusSound
<1>1. InitMC => BusInv
  BY PagesAssumption, BusInit DEF InitMC
<1>2. BusInv /\ [B!Next]_B!vars => BusInv'
  BY PagesAssumption, BusStep
<1>3. BusInv => BusSound
  BY PagesAssumption, BusSafe DEF BusSound
<1> QED
  BY <1>1, <1>2, <1>3, BusInRun, PTL DEF SpecMC

-----------------------------------------------------------------------------
(* The comments.  A fetch brings, or has still to ask for, every comment of *)
(* the reader that the store has let go of.                                 *)

LEMMA CommentSets ==
  /\ \A S : C!IsFiniteSet(S) <=> IsFiniteSet(S)
  /\ \A S : C!Cardinality(S) = Cardinality(S)
<1>1. \A S : C!IsFiniteSet(S) <=> IsFiniteSet(S)
  BY DEF C!IsFiniteSet, IsFiniteSet
<1>2. \A S : C!Cardinality(S) = Cardinality(S)
  BY DEF C!Cardinality, Cardinality
<1> QED
  BY <1>1, <1>2

LEMMA CommentLeast ==
  ASSUME NEW S \in SUBSET Nat, S # {}
  PROVE  C!Min(S) \in S /\ \A y \in S : C!Min(S) <= y
  BY LeastOf DEF C!Min

LEMMA CommentGreatest ==
  ASSUME NEW S \in SUBSET Nat, S # {}, IsFiniteSet(S)
  PROVE  C!Max(S) \in S /\ \A y \in S : C!Max(S) >= y
  BY GreatestOf DEF C!Max

PageOfComments == [comments : SUBSET Comments, next : Nat]
FetchOfComments == [all : BOOLEAN, want : Nat, base : Seq(PageOfComments), cursor : Nat, answer : PageOfComments \cup {None}]

ListedIn(ps) == UNION {ps[i].comments : i \in DOMAIN ps}

CommentTypes ==
  /\ C!TypeOK
  /\ posting # None => posting \in written
  /\ pages \in Seq(PageOfComments) /\ fetch \in FetchOfComments \cup {None}

\* What the fetch has brought, and what it has still to ask for.
Brought == ListedIn(fetch.base) \cup (IF fetch.answer = None THEN {} ELSE fetch.answer.comments)
Beyond == IF fetch.answer = None THEN fetch.cursor ELSE fetch.answer.next

\* A fetch misses none of the reader's comments that the store let go of.
NoneMissed ==
  fetch # None =>
    \A c \in (acked \cap rows) \ postComments : c \in Brought \/ c < Beyond

CommentsInv == CommentTypes /\ NoneMissed /\ C!AcknowledgedShown /\ C!LatestLikeInFlight

LEMMA ListedMore ==
  ASSUME NEW ps \in Seq(PageOfComments), NEW p \in PageOfComments
  PROVE  /\ Append(ps, p) \in Seq(PageOfComments) /\ Append(ps, p) # <<>>
         /\ ListedIn(Append(ps, p)) = ListedIn(ps) \cup p.comments
         /\ C!Last(Append(ps, p)) = p
<1>1. Append(ps, p) \in Seq(PageOfComments) /\ Len(Append(ps, p)) = Len(ps) + 1
      /\ Append(ps, p) # <<>>
  <2>1. Append(ps, p) \in Seq(PageOfComments) /\ Len(Append(ps, p)) = Len(ps) + 1
    OBVIOUS
  <2>2. Len(ps) + 1 # 0 /\ Len(<<>>) = 0
    OBVIOUS
  <2> QED
    BY <2>1, <2>2
<1>2. Len(ps) \in Nat /\ DOMAIN ps = 1..Len(ps) /\ DOMAIN Append(ps, p) = 1..(Len(ps) + 1)
  OBVIOUS
<1>3. Append(ps, p)[Len(ps) + 1] = p /\ \A k \in 1..Len(ps) : Append(ps, p)[k] = ps[k]
  OBVIOUS
<1>4. ListedIn(Append(ps, p)) = ListedIn(ps) \cup p.comments
  <2> DEFINE qs == Append(ps, p)
  <2>0. DOMAIN qs = 1..(Len(ps) + 1) /\ qs[Len(ps) + 1] = p /\ \A k \in 1..Len(ps) : qs[k] = ps[k]
    BY <1>2, <1>3
  <2> HIDE DEF qs
  <2>1. ASSUME NEW c \in ListedIn(qs) PROVE c \in ListedIn(ps) \cup p.comments
    <3>1. PICK i \in 1..(Len(ps) + 1) : c \in qs[i].comments
      BY <2>0 DEF ListedIn
    <3> QED
      BY <1>2, <2>0, <3>1 DEF ListedIn
  <2>2. ASSUME NEW c \in ListedIn(ps) \cup p.comments PROVE c \in ListedIn(qs)
    <3>1. CASE c \in p.comments
      BY <1>2, <2>0, <3>1 DEF ListedIn
    <3>2. CASE c \in ListedIn(ps)
      <4>1. PICK i \in 1..Len(ps) : c \in ps[i].comments
        BY <1>2, <3>2 DEF ListedIn
      <4>2. i \in DOMAIN qs /\ qs[i] = ps[i]
        BY <1>2, <2>0
      <4> QED
        BY <4>1, <4>2 DEF ListedIn
    <3> QED
      BY <3>1, <3>2
  <2> QED
    BY <2>1, <2>2 DEF qs
<1>5. C!Last(Append(ps, p)) = p
  BY <1>1, <1>3 DEF C!Last
<1> QED
  BY <1>1, <1>4, <1>5

\* A page holds all comments older than the cursor from its oldest on.
LEMMA PageCovers ==
  ASSUME C!CommentAssumption, rows \subseteq Comments, NEW cur \in Nat
  PROVE  /\ C!PageOf(cur) \in PageOfComments
         /\ \A c \in rows : c < cur => c \in C!PageOf(cur).comments \/ c < C!PageOf(cur).next
<1> DEFINE older == C!Older(cur)
           Newer(c) == {d \in older : d > c}
           listed == {c \in older : Cardinality(Newer(c)) < CommentLimit}
<1>1. /\ older \in SUBSET Comments /\ older \in SUBSET Nat /\ IsFiniteSet(older)
      /\ \A c \in older : IsFiniteSet(Newer(c)) /\ Cardinality(Newer(c)) \in Nat
  <2>1. older \in SUBSET Comments /\ older \in SUBSET Nat
    BY DEF C!CommentAssumption, C!Older
  <2>2. IsFiniteSet(older)
    BY CommentSets, <2>1, FS_Subset DEF C!CommentAssumption
  <2>3. ASSUME NEW c \in older PROVE IsFiniteSet(Newer(c)) /\ Cardinality(Newer(c)) \in Nat
    <3>1. Newer(c) \in SUBSET older
      OBVIOUS
    <3>2. IsFiniteSet(Newer(c))
      BY <2>2, <3>1, FS_Subset
    <3> QED
      BY <3>2, FS_CardinalityType
  <2> QED
    BY <2>1, <2>2, <2>3
<1>2. C!PageOf(cur).comments = listed
      /\ C!PageOf(cur).next = (IF listed = older THEN C!End ELSE C!Min(listed))
  BY CommentSets DEF C!PageOf
<1>3. listed \in SUBSET Comments /\ listed \in SUBSET Nat
  BY <1>1
<1>4. older # {} => listed # {}
  <2> SUFFICES ASSUME older # {} PROVE listed # {}
    OBVIOUS
  <2>1. C!Max(older) \in older /\ \A y \in older : C!Max(older) >= y
    BY <1>1, CommentGreatest
  <2> DEFINE m == C!Max(older)
  <2>2. m \in Nat /\ \A y \in older : y \in Nat
    BY <1>1, <2>1
  <2> HIDE DEF m
  <2>3. Newer(m) = {}
    BY <2>1, <2>2 DEF m
  <2>4. Cardinality(Newer(m)) = 0
    BY <2>3, FS_EmptySet
  <2>5. Cardinality(Newer(m)) < CommentLimit
    BY <2>4 DEF C!CommentAssumption
  <2> QED
    BY <2>1, <2>5 DEF m
<1>5. ASSUME NEW c \in older \ listed, NEW d \in listed PROVE c < d
  <2> SUFFICES ASSUME ~(c < d) PROVE FALSE
    OBVIOUS
  <2>1. c \in Nat /\ d \in Nat /\ \A y \in older : y \in Nat
    BY <1>1
  <2>2. c > d
    BY <1>5, <2>1
  <2>3. Newer(c) \in SUBSET Newer(d)
    <3>1. \A x \in older : x > c => x > d
      BY <2>1, <2>2
    <3> QED
      BY <3>1
  <2>4. Cardinality(Newer(c)) <= Cardinality(Newer(d))
    BY <1>1, <2>3, FS_Subset
  <2>5. ~(Cardinality(Newer(c)) < CommentLimit) /\ Cardinality(Newer(d)) < CommentLimit
    BY <1>5
  <2>6. Cardinality(Newer(c)) \in Nat /\ Cardinality(Newer(d)) \in Nat /\ CommentLimit \in Nat
    BY <1>1 DEF C!CommentAssumption
  <2> QED
    BY <2>4, <2>5, <2>6
<1>6. listed # older => C!Min(listed) \in listed
  BY <1>3, <1>4, CommentLeast
<1>7. C!PageOf(cur) \in PageOfComments
  <2>1. (IF listed = older THEN C!End ELSE C!Min(listed)) \in Nat
    BY <1>3, <1>6 DEF C!End
  <2> QED
    BY CommentSets, <1>3, <2>1 DEF C!PageOf, PageOfComments
<1>8. ASSUME NEW c \in rows, c < cur PROVE c \in listed \/ (listed # older /\ c < C!Min(listed))
  <2>1. c \in older
    BY <1>8 DEF C!Older
  <2> QED
    BY <1>5, <1>6, <2>1
<1> HIDE DEF listed, older
<1> QED
  BY <1>2, <1>7, <1>8

LEMMA CommentsInit == C!CommentAssumption /\ C!Init => CommentsInv
<1> SUFFICES ASSUME C!CommentAssumption, C!Init PROVE CommentsInv
  OBVIOUS
<1>1. pages \in Seq(PageOfComments) /\ fetch \in FetchOfComments \cup {None}
  BY DEF C!Init
<1>2. C!TypeOK
  BY DEF C!Init, C!TypeOK, C!CommentAssumption
<1> QED
  BY <1>1, <1>2 DEF C!Init, CommentsInv, CommentTypes, NoneMissed, C!AcknowledgedShown,
     C!LatestLikeInFlight

LEMMA TopIsNewest == C!CommentAssumption => C!Top \in Nat /\ \A c \in Comments : c < C!Top
<1> SUFFICES ASSUME C!CommentAssumption PROVE C!Top \in Nat /\ \A c \in Comments : c < C!Top
  OBVIOUS
<1>1. C!Max(Comments) \in Comments /\ \A y \in Comments : C!Max(Comments) >= y
  BY CommentSets, CommentGreatest DEF C!CommentAssumption
<1> DEFINE m == C!Max(Comments)
<1>2. m \in Nat /\ \A y \in Comments : y \in Nat /\ m >= y
  BY <1>1 DEF C!CommentAssumption
<1>3. C!Top = 1 + m
  BY DEF C!Top
<1> HIDE DEF m
<1> QED
  BY <1>2, <1>3

\* A fetch of everything: nothing is brought, nothing is passed.
LEMMA RefetchMissesNone ==
  ASSUME C!CommentAssumption, CommentTypes, fetch' = C!Refetched, (acked \cap rows)' \subseteq Comments
  PROVE  fetch' \in FetchOfComments /\ NoneMissed'
<1>1. Len(pages) \in Nat /\ <<>> \in Seq(PageOfComments)
  BY DEF CommentTypes
<1>2. C!Refetched \in FetchOfComments /\ C!Refetched.cursor = C!Top /\ C!Refetched.answer = None
  BY <1>1, TopIsNewest DEF C!Refetched, FetchOfComments
<1>3. Beyond' = C!Top
  BY <1>2 DEF Beyond
<1> QED
  BY <1>2, <1>3, TopIsNewest DEF NoneMissed

LEMMA CommentsStep == C!CommentAssumption /\ CommentsInv /\ [C!Next]_C!vars => CommentsInv'
<1> SUFFICES ASSUME C!CommentAssumption, CommentsInv, [C!Next]_C!vars PROVE CommentsInv'
  OBVIOUS
<1>r. CommentTypes /\ NoneMissed /\ C!AcknowledgedShown /\ C!LatestLikeInFlight
  BY DEF CommentsInv
<1>t. /\ rows \subseteq written /\ written \subseteq Comments /\ acked \subseteq written
      /\ postComments \subseteq acked
      /\ likes \subseteq likePending /\ likePending \subseteq Comments
      /\ posting # None => posting \in written
      /\ pages \in Seq(PageOfComments) /\ fetch \in FetchOfComments \cup {None}
  BY <1>r DEF CommentTypes, C!TypeOK
<1>1. CASE C!Invalidate
  <2>1. fetch' = C!Refetched /\ UNCHANGED <<rows, written, posting, acked, postComments, pages,
                                            likes, likePending, latest>>
    BY <1>1 DEF C!Invalidate, C!hearts
  <2>2. fetch' \in FetchOfComments /\ NoneMissed'
    BY <1>r, <1>t, <2>1, RefetchMissesNone
  <2>3. C!AcknowledgedShown' /\ C!LatestLikeInFlight'
    BY <1>r, <2>1 DEF C!AcknowledgedShown, C!Shown, C!NextParam, C!LatestLikeInFlight
  <2> QED
    BY <1>t, <2>1, <2>2, <2>3 DEF CommentsInv, CommentTypes, C!TypeOK
<1>2. CASE C!FetchNext
  <2>1. /\ C!NextParam # C!End
        /\ fetch' = [all |-> FALSE, want |-> Len(pages) + 1, base |-> pages, cursor |-> C!NextParam, answer |-> None]
        /\ UNCHANGED <<rows, written, posting, acked, postComments, pages, likes, likePending,
                       latest>>
    BY <1>2 DEF C!FetchNext, C!hearts
  <2>2. C!NextParam \in Nat /\ Len(pages) + 1 \in Nat
    <3>1. CASE pages = <<>>
      BY <1>t, <3>1 DEF C!NextParam, C!End
    <3>2. CASE pages # <<>>
      <4>1. C!Last(pages) \in PageOfComments
        BY <1>t, <3>2 DEF C!Last
      <4> QED
        BY <1>t, <3>2, <4>1 DEF C!NextParam, PageOfComments
    <3> QED
      BY <3>1, <3>2
  <2>3. fetch' \in FetchOfComments /\ fetch'.base = pages /\ fetch'.cursor = C!NextParam
        /\ fetch'.answer = None
    BY <1>t, <2>1, <2>2 DEF FetchOfComments
  <2>4. Brought' = ListedIn(pages) /\ Beyond' = C!NextParam
    BY <2>3 DEF Brought, Beyond
  <2>5. \A c \in (acked \cap rows) \ postComments : c \in ListedIn(pages) \/ c < C!NextParam
    BY <1>r DEF C!AcknowledgedShown, C!Shown, ListedIn
  <2>6. NoneMissed'
    BY <2>1, <2>4, <2>5 DEF NoneMissed
  <2>7. C!AcknowledgedShown' /\ C!LatestLikeInFlight'
    BY <1>r, <2>1 DEF C!AcknowledgedShown, C!Shown, C!NextParam, C!LatestLikeInFlight
  <2> QED
    BY <1>t, <2>1, <2>3, <2>6, <2>7 DEF CommentsInv, CommentTypes, C!TypeOK
<1>3. CASE C!Serve
  <2>1. /\ fetch # None /\ fetch.answer = None /\ fetch \in FetchOfComments
        /\ fetch' = [fetch EXCEPT !.answer = C!PageOf(fetch.cursor)]
        /\ UNCHANGED <<rows, written, posting, acked, postComments, pages, likes, likePending,
                       latest>>
    BY <1>t, <1>3 DEF C!Serve, C!hearts
  <2> DEFINE page == C!PageOf(fetch.cursor)
  <2>2. rows \subseteq Comments /\ fetch.cursor \in Nat
    BY <1>t, <2>1 DEF FetchOfComments
  <2>3. page \in PageOfComments
        /\ \A c \in rows : c < fetch.cursor => c \in page.comments \/ c < page.next
    BY <2>2, PageCovers
  <2> HIDE DEF page
  <2>4. fetch' \in FetchOfComments /\ fetch'.base = fetch.base /\ fetch'.cursor = fetch.cursor
        /\ fetch'.answer = page
    BY <2>1, <2>3 DEF FetchOfComments, page
  <2>5. \A c \in (acked \cap rows) \ postComments : c \in ListedIn(fetch.base) \/ c < fetch.cursor
    BY <1>r, <2>1 DEF NoneMissed, Brought, Beyond
  <2>6. NoneMissed'
    BY <2>1, <2>3, <2>4, <2>5 DEF NoneMissed, Brought, Beyond
  <2>7. C!AcknowledgedShown' /\ C!LatestLikeInFlight'
    BY <1>r, <2>1 DEF C!AcknowledgedShown, C!Shown, C!NextParam, C!LatestLikeInFlight
  <2> QED
    BY <1>t, <2>1, <2>4, <2>6, <2>7 DEF CommentsInv, CommentTypes, C!TypeOK
<1>4. CASE C!Arrive
  <2> DEFINE got == Append(fetch.base, fetch.answer)
  <2>1. /\ fetch # None /\ fetch.answer # None /\ fetch \in FetchOfComments
        /\ fetch.base \in Seq(PageOfComments) /\ fetch.answer \in PageOfComments
        /\ UNCHANGED <<rows, written, posting, acked, likes, likePending, latest>>
        /\ \/ pages' = got /\ postComments' = C!Synced(got) /\ fetch' = None
           \/ /\ fetch' = [fetch EXCEPT !.base = got, !.answer = None, !.cursor = fetch.answer.next]
              /\ UNCHANGED <<pages, postComments>>
    BY <1>t, <1>4 DEF C!Arrive, C!hearts, FetchOfComments
  <2>2. /\ got \in Seq(PageOfComments) /\ got # <<>>
        /\ ListedIn(got) = ListedIn(fetch.base) \cup fetch.answer.comments
        /\ C!Last(got) = fetch.answer
    BY <2>1, ListedMore
  <2>3. \A c \in (acked \cap rows) \ postComments : c \in ListedIn(got) \/ c < fetch.answer.next
    BY <1>r, <2>1, <2>2 DEF NoneMissed, Brought, Beyond
  <2> HIDE DEF got
  <2>4. CASE pages' = got /\ postComments' = C!Synced(got) /\ fetch' = None
    <3>1. postComments' = postComments \ ListedIn(got)
      BY <2>4 DEF C!Synced, C!Pruned, ListedIn
    <3>2. C!NextParam' = fetch.answer.next /\ C!Shown' = postComments' \cup ListedIn(got)
      BY <2>2, <2>4 DEF C!NextParam, C!Shown, ListedIn
    <3>3. C!AcknowledgedShown'
      BY <2>1, <2>2, <2>3, <2>4, <3>1, <3>2 DEF C!AcknowledgedShown
    <3>4. NoneMissed' /\ C!LatestLikeInFlight'
      BY <1>r, <2>1, <2>4 DEF NoneMissed, C!LatestLikeInFlight
    <3> QED
      BY <1>t, <2>1, <2>2, <2>4, <3>1, <3>3, <3>4 DEF CommentsInv, CommentTypes, C!TypeOK
  <2>5. CASE /\ fetch' = [fetch EXCEPT !.base = got, !.answer = None, !.cursor = fetch.answer.next]
             /\ UNCHANGED <<pages, postComments>>
    <3>1. fetch.answer.next \in Nat
      BY <2>1 DEF PageOfComments
    <3>2. fetch' \in FetchOfComments /\ fetch'.base = got /\ fetch'.answer = None
          /\ fetch'.cursor = fetch.answer.next
      BY <2>1, <2>2, <2>5, <3>1 DEF FetchOfComments
    <3>3. NoneMissed'
      BY <2>1, <2>3, <2>5, <3>2 DEF NoneMissed, Brought, Beyond
    <3>4. C!AcknowledgedShown' /\ C!LatestLikeInFlight'
      BY <1>r, <2>1, <2>5 DEF C!AcknowledgedShown, C!Shown, C!NextParam, C!LatestLikeInFlight
    <3> QED
      BY <1>t, <2>1, <2>5, <3>2, <3>3, <3>4 DEF CommentsInv, CommentTypes, C!TypeOK
  <2> QED
    BY <2>1, <2>4, <2>5
<1>5. CASE C!FetchFails
  <2>1. fetch' = None /\ UNCHANGED <<rows, written, posting, acked, postComments, pages, likes,
                                     likePending, latest>>
    BY <1>5 DEF C!FetchFails, C!hearts
  <2>2. C!AcknowledgedShown' /\ C!LatestLikeInFlight' /\ NoneMissed'
    BY <1>r, <2>1 DEF C!AcknowledgedShown, C!Shown, C!NextParam, C!LatestLikeInFlight, NoneMissed
  <2> QED
    BY <1>t, <2>1, <2>2 DEF CommentsInv, CommentTypes, C!TypeOK
<1>6. CASE C!Acknowledge
  <2>1. /\ posting # None /\ acked' = acked \cup {posting}
        /\ postComments' = postComments \cup {posting}
        /\ fetch' = C!Refetched /\ posting' = None /\ UNCHANGED <<rows, written, pages, likes,
                                                                  likePending, latest>>
    BY <1>6 DEF C!Acknowledge, C!hearts
  <2>2. fetch' \in FetchOfComments /\ NoneMissed'
    BY <1>r, <1>t, <2>1, RefetchMissesNone
  <2>3. C!AcknowledgedShown' /\ C!LatestLikeInFlight'
    BY <1>r, <2>1 DEF C!AcknowledgedShown, C!Shown, C!NextParam, C!LatestLikeInFlight
  <2> QED
    BY <1>t, <2>1, <2>2, <2>3 DEF CommentsInv, CommentTypes, C!TypeOK
<1>7. CASE C!AnswerLost
  <2>1. posting' = None /\ UNCHANGED <<rows, written, acked, postComments, pages, fetch, likes,
                                       likePending, latest>>
    BY <1>7 DEF C!AnswerLost, C!list, C!hearts
  <2>2. C!AcknowledgedShown' /\ C!LatestLikeInFlight' /\ NoneMissed'
    BY <1>r, <2>1 DEF C!AcknowledgedShown, C!Shown, C!NextParam, C!LatestLikeInFlight, NoneMissed,
       Brought, Beyond
  <2> QED
    BY <1>t, <2>1, <2>2 DEF CommentsInv, CommentTypes, C!TypeOK
<1>8. ASSUME NEW c \in Comments, C!OtherComments(c) \/ C!RemoveComment(c) \/ C!Submit(c) PROVE CommentsInv'
  <2>1. /\ rows' \subseteq written' /\ written' \subseteq Comments /\ acked \subseteq written'
        /\ acked \cap rows' \subseteq rows /\ (posting' # None => posting' \in written')
        /\ UNCHANGED <<acked, postComments, pages, fetch, likes, likePending, latest>>
    BY <1>t, <1>8 DEF C!OtherComments, C!RemoveComment, C!Submit, C!list, C!hearts
  <2>2. C!AcknowledgedShown' /\ C!LatestLikeInFlight' /\ NoneMissed'
    BY <1>r, <2>1 DEF C!AcknowledgedShown, C!Shown, C!NextParam, C!LatestLikeInFlight, NoneMissed,
       Brought, Beyond
  <2> QED
    BY <1>t, <2>1, <2>2 DEF CommentsInv, CommentTypes, C!TypeOK
<1>9. ASSUME NEW c \in Comments, C!Like(c) \/ C!LikeAnswered(c) PROVE CommentsInv'
  <2>1. /\ UNCHANGED <<rows, written, posting, acked, postComments, pages, fetch>>
        /\ likes' \subseteq likePending' /\ likePending' \subseteq Comments /\ C!LatestLikeInFlight'
    BY <1>t, <1>r, <1>9 DEF C!Like, C!LikeAnswered, C!Settled, C!list, C!LatestLikeInFlight
  <2>2. C!AcknowledgedShown' /\ NoneMissed'
    BY <1>r, <2>1 DEF C!AcknowledgedShown, C!Shown, C!NextParam, NoneMissed, Brought, Beyond
  <2> QED
    BY <1>t, <2>1, <2>2 DEF CommentsInv, CommentTypes, C!TypeOK
<1>10. CASE UNCHANGED C!vars
  <2>1. UNCHANGED <<rows, written, posting, acked, postComments, pages, fetch, likes, likePending,
                    latest>>
    BY <1>10 DEF C!vars
  <2>2. C!AcknowledgedShown' /\ C!LatestLikeInFlight' /\ NoneMissed'
    BY <1>r, <2>1 DEF C!AcknowledgedShown, C!Shown, C!NextParam, C!LatestLikeInFlight, NoneMissed,
       Brought, Beyond
  <2> QED
    BY <1>t, <2>1, <2>2 DEF CommentsInv, CommentTypes, C!TypeOK
<1> QED
  BY <1>1, <1>2, <1>3, <1>4, <1>5, <1>6, <1>7, <1>8, <1>9, <1>10 DEF C!Next

LEMMA CommentsInRun ==
  [NextMC]_<<vars, limitVars, attemptVars, feedVars, commentVars, pillVars, drawVars,
             panelVars, busVars, part>> => [C!Next]_C!vars
  BY DEF NextMC, commentVars, C!vars, C!hearts, C!list

\* However fetches, comments, removals and likes overlap, the reader's comment
\* stays on the screen once acknowledged, and the button of the comment liked
\* last waits for a request in flight.
THEOREM CommentsAlwaysSound == SpecMC => []CommentsSound
<1>1. InitMC => CommentsInv
  BY PagesAssumption, CommentsInit DEF InitMC
<1>2. CommentsInv /\ [C!Next]_C!vars => CommentsInv'
  BY PagesAssumption, CommentsStep
<1>3. CommentsInv => CommentsSound
  BY DEF CommentsInv, CommentTypes, CommentsSound
<1> QED
  BY <1>1, <1>2, <1>3, CommentsInRun, PTL DEF SpecMC

-----------------------------------------------------------------------------
(* The pill.  Only an answer moves the window, and one that arrives while   *)
(* ids wait leaves it where it is.                                          *)

PillTypes ==
  /\ pillNow \in Nat /\ since \in Nat /\ furthest \in Nat
  /\ ids \subseteq DOMAIN told
  /\ flights \subseteq [ids : SUBSET DOMAIN told, since : Nat, at : Nat]
  /\ \A p \in DOMAIN created : created[p] \in Nat
  /\ \A p \in DOMAIN told : told[p] \in Nat
  /\ DOMAIN told \subseteq DOMAIN created

WindowsBehind ==
  /\ since <= furthest
  /\ \A f \in flights : f.since <= furthest

AskedInTime ==
  /\ \A p \in ids : p \notin requeued => since <= told[p]
  /\ \A f \in flights : \A p \in f.ids : p \notin requeued => f.since <= told[p]

PillInv == PillTypes /\ WindowsBehind /\ AskedInTime /\ N!EventsAwaited

LEMMA PillInit == N!Init => PillInv
  BY DEF N!Init, PillInv, PillTypes, WindowsBehind, AskedInTime, N!EventsAwaited

LEMMA PillStep == PillInv /\ [N!Next]_N!vars => PillInv'
<1> SUFFICES ASSUME PillInv, [N!Next]_N!vars PROVE PillInv'
  OBVIOUS
<1> USE DEF PillInv, PillTypes, WindowsBehind, AskedInTime, N!EventsAwaited, N!Awaited, N!history
<1>1. CASE N!Tick
  BY <1>1 DEF N!Tick
<1>2. ASSUME NEW p \in NewPosts, N!Create(p) PROVE PillInv'
  BY <1>2 DEF N!Create
<1>3. ASSUME NEW p \in NewPosts, N!NewPost(p) PROVE PillInv'
  BY <1>3 DEF N!NewPost
<1>4. CASE N!Flush
  <2> DEFINE new == [ids |-> ids, since |-> since, at |-> pillNow]
  <2>1. /\ flights' = flights \cup {new} /\ ids' = {} /\ ~timer'
        /\ UNCHANGED <<pillNow, created, told, since, pill, furthest, requeued>>
    BY <1>4 DEF N!Flush
  <2>2. new.ids = ids /\ new.since = since
        /\ new \in [ids : SUBSET DOMAIN told, since : Nat, at : Nat]
    OBVIOUS
  <2>3. N!Awaited' = N!Awaited
    BY <2>1, <2>2
  <2> HIDE DEF new, N!Awaited
  <2>4. (PillTypes /\ WindowsBehind /\ AskedInTime)'
    BY <2>1, <2>2
  <2>5. N!EventsAwaited'
    BY <2>1, <2>3
  <2> QED
    BY <2>4, <2>5
<1>5. ASSUME NEW f \in flights, N!Answered(f) PROVE PillInv'
  BY <1>5 DEF N!Answered, N!Advanced
<1>6. ASSUME NEW f \in flights, N!Failed(f) PROVE PillInv'
  BY <1>6 DEF N!Failed, N!Retry
<1>7. CASE UNCHANGED N!vars
  BY <1>7 DEF N!vars
<1>8. QED  BY <1>1, <1>2, <1>3, <1>4, <1>5, <1>6, <1>7 DEF N!Next

LEMMA PillInRun ==
  [NextMC]_<<vars, limitVars, attemptVars, feedVars, commentVars, pillVars, drawVars,
             panelVars, busVars, part>> => [N!Next]_N!vars
  BY DEF NextMC, pillVars, N!vars, N!history

\* However events, requests, failures and answers overlap, ids that wait have
\* their timer, and a post announced is let go only behind the window it met.
THEOREM PillAlwaysSound == SpecMC => []PillSound
<1>1. InitMC => PillInv
  BY PillInit DEF InitMC
<1>2. PillInv /\ [N!Next]_N!vars => PillInv'
  BY PillStep
<1>3. PillInv => PillSound
  BY DEF PillInv, PillSound
<1> QED
  BY <1>1, <1>2, <1>3, PillInRun, PTL DEF SpecMC

-----------------------------------------------------------------------------
(* The feed.  A reading of the feed is a sequence of pages: the cursor of   *)
(* its last page is past every post served, and what was visible all along  *)
(* and is not served yet lies ahead of it or is postponed by it.            *)

LEMMA FeedSets ==
  /\ \A S : F!IsFiniteSet(S) <=> IsFiniteSet(S)
  /\ \A S : F!Cardinality(S) = Cardinality(S)
<1>1. \A S : F!IsFiniteSet(S) <=> IsFiniteSet(S)
  BY DEF F!IsFiniteSet, IsFiniteSet
<1>2. \A S : F!Cardinality(S) = Cardinality(S)
  BY DEF F!Cardinality, Cardinality
<1> QED
  BY <1>1, <1>2

LEMMA FeedMin ==
  ASSUME NEW S \in SUBSET Nat, S # {}
  PROVE  F!Min(S) \in S /\ \A y \in S : F!Min(S) <= y
<1>1. PICK x \in S : \A y \in S : x <= y
  BY LeastOf
<1> QED
  BY <1>1 DEF F!Min

LEMMA FeedMax ==
  ASSUME F!FeedAssumption
  PROVE  F!Max(FeedPosts) \in FeedPosts /\ \A y \in FeedPosts : F!Max(FeedPosts) >= y
<1>1. FeedPosts \in SUBSET Nat /\ FeedPosts # {} /\ IsFiniteSet(FeedPosts)
  BY FeedSets DEF F!FeedAssumption
<1>2. PICK x \in FeedPosts : \A y \in FeedPosts : x >= y
  BY <1>1, GreatestOf
<1> QED
  BY <1>2 DEF F!Max

-----------------------------------------------------------------------------
\* What is not among the newest n is older than all of them, and they are n.
LEMMA NewestFull ==
  ASSUME NEW R \in SUBSET Nat, IsFiniteSet(R), NEW n \in Nat, NEW s \in R \ F!Newest(R, n)
  PROVE  /\ \A p \in F!Newest(R, n) : s < p
         /\ Cardinality(F!Newest(R, n)) >= n
<1> DEFINE T == F!Newest(R, n)
           above(x) == {q \in R : q > x}
<1>1. /\ T \subseteq R /\ IsFiniteSet(T) /\ Cardinality(T) \in Nat
      /\ \A x \in R : IsFiniteSet(above(x)) /\ Cardinality(above(x)) \in Nat
      /\ \A x \in R : x \in T <=> Cardinality(above(x)) < n
  BY FS_Subset, FS_CardinalityType, FeedSets DEF F!Newest
<1> HIDE DEF T
<1>2. ASSUME NEW p \in T, ~ (s < p) PROVE FALSE
  <2>1. p \in R /\ p \in Nat /\ s \in Nat /\ p <= s
    BY <1>1, <1>2
  <2>2. ASSUME NEW q \in above(s) PROVE q \in above(p)
    <3>1. q \in R /\ q \in Nat /\ q > s
      OBVIOUS
    <3>2. q > p
      BY <2>1, <3>1
    <3> QED
      BY <3>1, <3>2
  <2>3. Cardinality(above(s)) <= Cardinality(above(p))
    BY <1>1, <2>1, <2>2, FS_Subset
  <2>4. ~ (Cardinality(above(s)) < n) /\ Cardinality(above(p)) < n
    BY <1>1, <2>1 DEF T
  <2> QED
    BY <1>1, <2>1, <2>3, <2>4
<1>3. Cardinality(T) >= n
  <2>1. R \ T \in SUBSET Nat /\ s \in R \ T /\ IsFiniteSet(R \ T)
    BY FS_Subset DEF T
  <2>2. PICK m \in R \ T : \A y \in R \ T : m >= y
    BY <2>1, GreatestOf
  <2>3. ASSUME NEW q \in above(m) PROVE q \in T
    <3>1. q \in R /\ q \in Nat /\ m \in Nat /\ q > m
      BY <2>1
    <3> QED
      BY <2>2, <3>1
  <2>4. Cardinality(above(m)) <= Cardinality(T)
    BY <1>1, <2>3, FS_Subset
  <2>5. ~ (Cardinality(above(m)) < n)
    BY <1>1, <2>2
  <2> QED
    BY <1>1, <2>2, <2>4, <2>5
<1> QED
  BY <1>2, <1>3 DEF T

-----------------------------------------------------------------------------
(* One page of getFeed.                                                    *)

\* A cursor the query has taken from a page and may ask with.
Asked(cur) == cur = F!Start \/ (cur \in F!Cursor /\ cur.at \in 1..F!Max(FeedPosts))
Within(cur) == {p \in feedOpen : cur = F!Start \/ p < cur.at \/ p \in cur.include}

\* What one page shows, of a window and a choice of the pinned post.
PageFor(cur, n, picked) ==
  [posts |-> picked,
   next  |-> F!NextCursor(cur, F!Candidates(cur, n), F!Candidates(cur, n) \ private, picked, n)]
Showable(cur, n) ==
  {S \in SUBSET (F!Candidates(cur, n) \ private) :
     S = {} => F!Candidates(cur, n) \ private = {}}

LEMMA PagesOfFeed ==
  ASSUME NEW cur, NEW n, NEW pg \in F!getFeed(cur, n)
  PROVE  \E picked \in Showable(cur, n) : pg = PageFor(cur, n, picked)
<1> DEFINE visible == F!Candidates(cur, n) \ private
<1>1. CASE visible \cap Pinned = {}
  <2>1. pg = PageFor(cur, n, visible)
    BY <1>1 DEF F!getFeed, PageFor
  <2> QED
    BY <2>1 DEF Showable
<1>2. CASE visible \cap Pinned # {}
  <2>1. PICK p \in visible \cap Pinned : pg = PageFor(cur, n, visible \ F!Dropped(visible, p))
    BY <1>2 DEF F!getFeed, PageFor
  <2>2. p \in visible \ F!Dropped(visible, p)
    BY DEF F!Dropped
  <2> QED
    BY <2>1, <2>2 DEF Showable
<1> QED
  BY <1>1, <1>2

LEMMA OnePage ==
  ASSUME F!FeedAssumption, F!TypeOK, NEW cur, Asked(cur), NEW n \in Nat \ {0},
         NEW pg \in F!getFeed(cur, n)
  PROVE  /\ pg \in F!Page
         /\ pg.posts \subseteq Within(cur)
         /\ pg.next # F!End =>
              /\ Asked(pg.next) /\ pg.next # F!Start
              /\ pg.next.include \subseteq Within(cur) \ pg.posts
              /\ cur # F!Start => pg.next.at <= cur.at
              /\ \A p \in pg.posts : pg.next.at <= p
         /\ cur # F!Start => F!Moves(cur, pg)
         /\ cur = F!Start \/ Cardinality(cur.include) <= n =>
              \A s \in (feedOpen \ private) \cap Within(cur) :
                \/ s \in pg.posts
                \/ pg.next # F!End /\ (s < pg.next.at \/ s \in pg.next.include)
<1> DEFINE W == F!Candidates(cur, n)
           V == W \ private
           most == F!Max(FeedPosts)
<1>1. PICK picked \in Showable(cur, n) : pg = PageFor(cur, n, picked)
  BY PagesOfFeed
<1> DEFINE low == F!Least(picked, F!Least(W, 0))
           piv == F!Pivot(cur, W, picked)
<1>2. /\ W = F!Newest(Within(cur), n) /\ W \subseteq Within(cur) /\ Within(cur) \subseteq feedOpen
      /\ feedOpen \subseteq FeedPosts /\ FeedPosts \subseteq Nat \ {0}
      /\ picked \subseteq V /\ (picked = {} => V = {})
  BY <1>1, FeedSets DEF F!Candidates, Within, F!Newest, Showable, F!TypeOK, F!FeedAssumption
<1>3. most \in Nat \ {0} /\ \A p \in FeedPosts : p <= most
  BY <1>2, FeedMax, FeedSets DEF F!FeedAssumption
<1>4. /\ IsFiniteSet(Within(cur)) /\ IsFiniteSet(W) /\ Cardinality(W) \in Nat
      /\ (W # {} <=> Cardinality(W) # 0)
  <2>1. IsFiniteSet(FeedPosts)
    BY FeedSets DEF F!FeedAssumption
  <2>2. Within(cur) \subseteq FeedPosts /\ W \subseteq FeedPosts
    BY <1>2
  <2>3. IsFiniteSet(Within(cur)) /\ IsFiniteSet(W)
    BY <2>1, <2>2, FS_Subset
  <2> QED
    BY <2>3, FS_CardinalityType, FS_EmptySet
<1>5. /\ pg.posts = picked
      /\ pg.next = IF piv # 0 /\ (~ (Cardinality(W) < n) \/ V \ picked # {})
                   THEN [at |-> piv, include |-> V \ picked] ELSE F!End
  BY <1>1, FeedSets DEF PageFor, F!NextCursor, F!Exhausted
<1>6. W # {} => /\ low \in W /\ \A p \in picked : low <= p
                /\ (picked = {} => \A p \in W : low <= p)
  <2>1. W \subseteq Nat /\ picked \subseteq W /\ picked \subseteq Nat
    BY <1>2
  <2>2. W # {} => F!Least(W, 0) \in W /\ \A p \in W : F!Least(W, 0) <= p
    BY <2>1, FeedMin DEF F!Least
  <2>3. picked # {} => low \in picked /\ \A p \in picked : low <= p
    BY <2>1, FeedMin DEF F!Least
  <2>4. picked = {} => low = F!Least(W, 0)
    BY DEF F!Least
  <2> QED
    BY <2>1, <2>2, <2>3, <2>4
<1>7. W = {} => picked = {} /\ V = {} /\ low = 0
  BY <1>2 DEF F!Least
<1>8. cur # F!Start => cur.at \in 1..most /\ cur \in F!Cursor
  BY DEF Asked
<1>9. W # {} => /\ cur = F!Start => piv = low
                /\ cur # F!Start => /\ piv <= low /\ piv <= cur.at /\ piv \in {low, cur.at}
  <2> SUFFICES ASSUME W # {}
               PROVE  /\ cur = F!Start => piv = low
                      /\ cur # F!Start => /\ piv <= low /\ piv <= cur.at /\ piv \in {low, cur.at}
    OBVIOUS
  <2>1. low \in Nat \ {0}
    BY <1>2, <1>6
  <2>2. CASE cur = F!Start
    BY <2>1, <2>2 DEF F!Pivot
  <2>3. CASE cur # F!Start
    <3>1. piv = F!Min({low, cur.at})
      BY <2>1, <2>3 DEF F!Pivot
    <3>2. {low, cur.at} \in SUBSET Nat /\ {low, cur.at} # {}
      BY <1>8, <2>1, <2>3, <1>3
    <3>3. F!Min({low, cur.at}) \in {low, cur.at}
          /\ \A y \in {low, cur.at} : F!Min({low, cur.at}) <= y
      BY <3>2, FeedMin
    <3> QED
      BY <2>3, <3>1, <3>3
  <2> QED
    BY <2>2, <2>3
<1> HIDE DEF W, V, most, low, piv
<1>10. W # {} => /\ piv \in 1..most /\ piv <= low /\ low \in W /\ low \in 1..most
                 /\ (cur # F!Start => piv <= cur.at)
  <2> SUFFICES ASSUME W # {}
               PROVE  /\ piv \in 1..most /\ piv <= low /\ low \in W /\ low \in 1..most
                      /\ (cur # F!Start => piv <= cur.at)
    OBVIOUS
  <2>1. low \in W /\ low \in Nat \ {0} /\ low <= most
    BY <1>2, <1>3, <1>6
  <2> QED
    BY <1>3, <1>8, <1>9, <2>1
<1>11. W = {} => pg.next = F!End
  BY <1>4, <1>5, <1>7
<1>12. F!End = [at |-> 1 + most, include |-> {}] /\ F!Start = [at |-> 0, include |-> {}]
       /\ F!Cursor = [at : 0..(1 + most), include : SUBSET FeedPosts]
  BY DEF F!End, F!Start, F!Cursor, most
<1>13. V \subseteq W /\ V \subseteq FeedPosts
  BY <1>2 DEF V
<1>14. pg.next # F!End => W # {} /\ pg.next = [at |-> piv, include |-> V \ picked]
  BY <1>5, <1>11
<1>15. pg.next # F!End => /\ pg.next \in F!Cursor /\ pg.next.at = piv /\ pg.next.include = V \ picked
                          /\ piv \in 1..most /\ pg.next # F!Start
  BY <1>10, <1>12, <1>13, <1>14, <1>3
<1>16. pg \in F!Page
  <2>1. F!End \in F!Cursor
    BY <1>12, <1>3
  <2>2. pg = [posts |-> pg.posts, next |-> pg.next]
    BY <1>1 DEF PageFor
  <2>3. pg.posts \subseteq FeedPosts /\ pg.next \in F!Cursor
    BY <1>5, <1>13, <1>2, <1>15, <2>1
  <2> QED
    BY <2>2, <2>3 DEF F!Page
<1>17. pg.posts \subseteq Within(cur)
  BY <1>5, <1>2, <1>13
<1>18. ASSUME pg.next # F!End
       PROVE  /\ Asked(pg.next) /\ pg.next # F!Start
              /\ pg.next.include \subseteq Within(cur) \ pg.posts
              /\ cur # F!Start => pg.next.at <= cur.at
              /\ \A p \in pg.posts : pg.next.at <= p
  <2>1. Asked(pg.next) /\ pg.next # F!Start
    BY <1>15, <1>18 DEF Asked, most
  <2>2. pg.next.include \subseteq Within(cur) \ pg.posts
    BY <1>15, <1>18, <1>13, <1>2, <1>5
  <2>3. cur # F!Start => pg.next.at <= cur.at
    BY <1>10, <1>14, <1>15, <1>18
  <2>4. ASSUME NEW p \in pg.posts PROVE pg.next.at <= p
    <3>1. W # {} /\ p \in picked /\ p \in Nat
      BY <1>18, <1>2, <1>5, <1>13, <1>14
    <3>2. piv <= low /\ low <= p /\ piv \in Nat /\ low \in Nat
      BY <3>1, <1>6, <1>10, <1>3
    <3> QED
      BY <3>1, <3>2, <1>15, <1>18
  <2> QED
    BY <2>1, <2>2, <2>3, <2>4
<1>19. ASSUME cur # F!Start PROVE F!Moves(cur, pg)
  <2> SUFFICES ASSUME pg.posts = {}, pg.next # F!End, ~ (pg.next.at < cur.at)
               PROVE  pg.next.at = cur.at /\ pg.next.include = {} /\ cur.include # {}
    BY DEF F!Moves
  <2>1. W # {} /\ V = {} /\ picked = {} /\ pg.next.at = piv /\ pg.next.include = {}
    BY <1>2, <1>5, <1>14, <1>15
  <2>2. pg.next.at = cur.at
    BY <1>8, <1>10, <1>15, <1>19, <2>1, <1>3
  <2>3. low \in W /\ low \in Within(cur) /\ ~ (low < cur.at)
    BY <1>2, <1>10, <1>8, <1>19, <2>1, <2>2, <1>3
  <2>4. low \in cur.include
    BY <2>3, <1>19 DEF Within
  <2> QED
    BY <2>1, <2>2, <2>4
<1>20. ASSUME cur = F!Start \/ Cardinality(cur.include) <= n,
              NEW s \in (feedOpen \ private) \cap Within(cur)
       PROVE  \/ s \in pg.posts
              \/ pg.next # F!End /\ (s < pg.next.at \/ s \in pg.next.include)
  <2>1. CASE s \in W
    <3>1. s \in V /\ W # {}
      BY <2>1 DEF V
    <3>2. ASSUME s \notin picked PROVE pg.next # F!End /\ s \in pg.next.include
      <4>1. piv # 0 /\ V \ picked # {}
        BY <1>10, <3>1, <3>2, <1>3
      <4>2. pg.next = [at |-> piv, include |-> V \ picked]
        BY <1>5, <4>1
      <4>3. pg.next # F!End
        BY <4>1, <4>2, <1>12
      <4> QED
        BY <4>2, <4>3, <3>1, <3>2
    <3> QED
      BY <3>2, <1>5
  <2>2. CASE s \notin W
    <3>1. /\ \A p \in W : s < p
          /\ Cardinality(W) >= n
      <4>1. Within(cur) \in SUBSET Nat /\ s \in Within(cur) \ F!Newest(Within(cur), n)
        BY <1>2, <2>2
      <4> QED
        BY <1>2, <1>4, <4>1, NewestFull
    <3>2. W # {} /\ ~ (Cardinality(W) < n)
      BY <1>4, <3>1
    <3>3. piv \in 1..most /\ piv <= low /\ low \in W /\ low \in 1..most /\ s < low /\ s \in Nat
      BY <3>1, <3>2, <1>10, <1>2
    <3>4. pg.next = [at |-> piv, include |-> V \ picked]
      BY <1>5, <3>2, <3>3, <1>3
    <3>5. pg.next # F!End /\ pg.next.at = piv
      BY <3>3, <3>4, <1>12, <1>3
    <3>6. CASE cur = F!Start
      BY <3>3, <3>5, <3>6, <3>2, <1>9
    <3>7. CASE cur # F!Start /\ s < cur.at
      <4>1. piv \in {low, cur.at}
        BY <1>9, <3>2, <3>7
      <4> QED
        BY <4>1, <3>3, <3>5, <3>7
    <3>8. CASE cur # F!Start /\ ~ (s < cur.at)
      <4>1. cur.include \subseteq FeedPosts /\ cur.at \in Nat
        BY <1>8, <3>8, <1>12
      <4>2. s \in cur.include
        BY <3>8 DEF Within
      <4>3. W \subseteq cur.include
        <5> SUFFICES ASSUME NEW p \in W PROVE p \in cur.include
          OBVIOUS
        <5>1. s < p /\ p \in Nat /\ p \in Within(cur)
          BY <3>1, <1>2
        <5>2. ~ (p < cur.at)
          BY <5>1, <4>1, <3>8, <3>3
        <5> QED
          BY <5>1, <5>2, <3>8 DEF Within
      <4>4. IsFiniteSet(cur.include) /\ W \cup {s} \subseteq cur.include
        BY <4>1, <4>2, <4>3, FS_Subset, FeedSets DEF F!FeedAssumption
      <4>5. Cardinality(W \cup {s}) = Cardinality(W) + 1
        BY <1>4, <2>2, FS_AddElement
      <4>6. Cardinality(W \cup {s}) <= Cardinality(cur.include) /\ Cardinality(cur.include) \in Nat
        BY <4>4, FS_Subset, FS_CardinalityType
      <4> QED
        BY <1>20, <3>1, <3>8, <4>5, <4>6, <1>4
    <3> QED
      BY <3>6, <3>7, <3>8
  <2> QED
    BY <2>1, <2>2
<1> QED
  BY <1>16, <1>17, <1>18, <1>19, <1>20

-----------------------------------------------------------------------------
(* The inductive invariant: what is true of a reading so far.              *)

Served(read) == UNION {read[i].posts : i \in DOMAIN read}
Cur(read) == IF read = <<>> THEN F!Start ELSE read[Len(read)].next

Apart(read) == \A i, j \in DOMAIN read : i # j => read[i].posts \cap read[j].posts = {}
Moving(read) == \A i \in 1..(Len(read) - 1) : F!Moves(read[i].next, read[i + 1])

\* What was served lies before the cursor, ...
Past(read) ==
  read # <<>> /\ Cur(read) # F!End =>
    /\ Asked(Cur(read)) /\ Cur(read) # F!Start
    /\ \A p \in Served(read) : Cur(read).at <= p /\ p \notin Cur(read).include

\* ... and what was visible all along and was not served lies after it.
Fits(read) == \A i \in DOMAIN read : Cardinality(read[i].next.include) <= Take
Ahead(read, st) ==
  read # <<>> /\ Fits(read) =>
    \A s \in st \ Served(read) :
      Cur(read) # F!End /\ (s < Cur(read).at \/ s \in Cur(read).include)

Reading(read, st) == Apart(read) /\ Moving(read) /\ Past(read) /\ Ahead(read, st)

Visible == feedOpen \ private
Kept(first) == first # None => /\ first.steady \subseteq Visible
                               /\ Reading(<<first.page>>, first.steady)

FeedInv ==
  /\ F!TypeOK
  /\ Reading(feedPages, steady)
  /\ Kept(cache)
  /\ Kept(making)
  /\ feedFetch # None => /\ feedFetch.steady \subseteq Visible /\ Reading(feedFetch.base, feedFetch.steady)
                         /\ feedFetch.base # <<>> => Cur(feedFetch.base) # F!End

\* The first page begins a reading.
LEMMA FirstPage ==
  ASSUME F!FeedAssumption, F!TypeOK, NEW n \in Nat \ {0}, NEW a \in F!FirstPages(n)
  PROVE  /\ a \in [page : F!Page, steady : SUBSET FeedPosts]
         /\ a.steady \subseteq Visible
         /\ Reading(<<a.page>>, a.steady)
<1>1. PICK pg \in F!getFeed(F!Start, n) : a = [page |-> pg, steady |-> feedOpen \ private]
  BY DEF F!FirstPages
<1>2. Asked(F!Start) /\ Within(F!Start) = feedOpen
  BY DEF Asked, Within
<1>3. /\ pg \in F!Page
      /\ pg.next # F!End =>
           /\ Asked(pg.next) /\ pg.next # F!Start
           /\ pg.next.include \subseteq feedOpen \ pg.posts
           /\ \A p \in pg.posts : pg.next.at <= p
      /\ \A s \in (feedOpen \ private) \cap feedOpen :
           \/ s \in pg.posts
           \/ pg.next # F!End /\ (s < pg.next.at \/ s \in pg.next.include)
  BY <1>2, OnePage
<1> DEFINE read == <<a.page>>
<1>4. Len(read) = 1 /\ DOMAIN read = {1} /\ read[1] = pg /\ read # <<>>
      /\ a.steady = feedOpen \ private
  BY <1>1
<1> HIDE DEF read
<1>5. Cur(read) = pg.next /\ Served(read) = pg.posts
  BY <1>4 DEF Cur, Served
<1>6. Apart(read) /\ Moving(read)
  BY <1>4 DEF Apart, Moving
<1>7. Past(read)
  BY <1>3, <1>5 DEF Past
<1>8. Ahead(read, a.steady)
  BY <1>3, <1>4, <1>5 DEF Ahead
<1>9. a \in [page : F!Page, steady : SUBSET FeedPosts]
  BY <1>1, <1>3 DEF F!TypeOK
<1>10. a.steady \subseteq Visible
  BY <1>4 DEF Visible
<1> QED
  BY <1>6, <1>7, <1>8, <1>9, <1>10 DEF Reading, read

\* A page asked for with the cursor of the last one goes on with it.
LEMMA NextPage ==
  ASSUME F!FeedAssumption, F!TypeOK,
         NEW read \in Seq(F!Page), read # <<>>, Cur(read) # F!End,
         NEW st, st \subseteq feedOpen \ private, Reading(read, st), NEW pg \in F!getFeed(Cur(read), Take)
  PROVE  pg \in F!Page /\ Reading(Append(read, pg), st)
<1> DEFINE cur == Cur(read)
           got == Append(read, pg)
           size == Len(read)
<1>1. Asked(cur) /\ cur # F!Start /\ \A p \in Served(read) : cur.at <= p /\ p \notin cur.include
  BY DEF Reading, Past
<1>2. Take \in Nat \ {0}
  BY FeedSets DEF F!FeedAssumption
<1>3. /\ pg \in F!Page
      /\ pg.posts \subseteq Within(cur)
      /\ pg.next # F!End =>
           /\ Asked(pg.next) /\ pg.next # F!Start
           /\ pg.next.include \subseteq Within(cur) \ pg.posts
           /\ pg.next.at <= cur.at
           /\ \A p \in pg.posts : pg.next.at <= p
      /\ F!Moves(cur, pg)
      /\ Cardinality(cur.include) <= Take =>
           \A s \in (feedOpen \ private) \cap Within(cur) :
             \/ s \in pg.posts
             \/ pg.next # F!End /\ (s < pg.next.at \/ s \in pg.next.include)
  BY <1>1, <1>2, OnePage
<1>4. /\ size \in Nat \ {0} /\ DOMAIN read = 1..size /\ Len(got) = size + 1
      /\ DOMAIN got = 1..(size + 1)
      /\ got \in Seq(F!Page) /\ got # <<>> /\ got[size + 1] = pg
      /\ \A i \in 1..size : got[i] = read[i]
  BY <1>3
<1>5. cur = read[size].next
  BY DEF Cur
<1> HIDE DEF got, size, cur
<1>6. Cur(got) = pg.next
  BY <1>4 DEF Cur
<1>7. Served(got) = Served(read) \cup pg.posts
  <2>1. ASSUME NEW i \in 1..(size + 1) PROVE i = size + 1 \/ i \in 1..size
    BY <1>4
  <2>2. ASSUME NEW x \in Served(got) PROVE x \in Served(read) \cup pg.posts
    <3>1. PICK i \in 1..(size + 1) : x \in got[i].posts
      BY <1>4 DEF Served
    <3> QED
      BY <3>1, <2>1, <1>4 DEF Served
  <2>3. ASSUME NEW x \in Served(read) PROVE x \in Served(got)
    <3>1. PICK i \in 1..size : x \in read[i].posts
      BY <1>4 DEF Served
    <3>2. i \in 1..(size + 1) /\ got[i] = read[i]
      BY <1>4
    <3> QED
      BY <3>1, <3>2, <1>4 DEF Served
  <2>4. pg.posts \subseteq Served(got)
    <3>1. size + 1 \in 1..(size + 1)
      BY <1>4
    <3> QED
      BY <3>1, <1>4 DEF Served
  <2> QED
    BY <2>2, <2>3, <2>4
<1>8. ASSUME NEW p \in Served(read) PROVE p \notin Within(cur) /\ p \in Nat /\ cur.at \in Nat
  <2>1. PICK i \in DOMAIN read : p \in read[i].posts
    BY DEF Served
  <2>2. read[i] \in F!Page
    BY <2>1
  <2>3. p \in Nat
    BY <2>1, <2>2, FeedSets DEF F!Page, F!FeedAssumption
  <2>4. cur.at \in Nat
    BY <1>1 DEF Asked, F!Start
  <2>5. cur.at <= p /\ p \notin cur.include /\ cur # F!Start
    BY <1>1
  <2> QED
    BY <2>3, <2>4, <2>5 DEF Within
<1>9. Apart(got)
  <2> SUFFICES ASSUME NEW i \in DOMAIN got, NEW j \in DOMAIN got, i # j
               PROVE  got[i].posts \cap got[j].posts = {}
    BY DEF Apart
  <2>1. \A k \in 1..size : read[k].posts \subseteq Served(read)
    BY <1>4 DEF Served
  <2>2. \A k \in 1..size : read[k].posts \cap pg.posts = {}
    BY <2>1, <1>3, <1>8
  <2>3. CASE i \in 1..size /\ j \in 1..size
    BY <2>3, <1>4 DEF Reading, Apart
  <2>4. CASE i = size + 1 /\ j \in 1..size
    BY <2>4, <2>2, <1>4
  <2>5. CASE i \in 1..size /\ j = size + 1
    BY <2>5, <2>2, <1>4
  <2> QED
    BY <2>3, <2>4, <2>5, <1>4
<1>10. Moving(got)
  <2> SUFFICES ASSUME NEW i \in 1..(Len(got) - 1)
               PROVE  F!Moves(got[i].next, got[i + 1])
    BY DEF Moving
  <2>1. CASE i = size
    BY <2>1, <1>3, <1>4, <1>5
  <2>2. CASE i # size
    <3>1. i \in 1..(size - 1) /\ i \in 1..size /\ i + 1 \in 1..size
      BY <2>2, <1>4
    <3>2. F!Moves(read[i].next, read[i + 1])
      BY <3>1 DEF Reading, Moving, size
    <3> QED
      BY <3>1, <3>2, <1>4
  <2> QED
    BY <2>1, <2>2
<1>11. Past(got)
  <2> SUFFICES ASSUME pg.next # F!End, NEW p \in Served(got)
               PROVE  pg.next.at <= p /\ p \notin pg.next.include
    BY <1>3, <1>6 DEF Past
  <2>1. CASE p \in pg.posts
    BY <2>1, <1>3
  <2>2. CASE p \in Served(read)
    <3>1. cur.at <= p /\ p \in Nat /\ cur.at \in Nat /\ p \notin Within(cur)
      BY <2>2, <1>1, <1>8
    <3>2. pg.next.at <= cur.at /\ pg.next.at \in Nat
      BY <1>3 DEF Asked, F!Start
    <3> QED
      BY <3>1, <3>2, <1>3
  <2> QED
    BY <2>1, <2>2, <1>7
<1>12. Ahead(got, st)
  <2> SUFFICES ASSUME Fits(got), NEW s \in st \ Served(got)
               PROVE  pg.next # F!End /\ (s < pg.next.at \/ s \in pg.next.include)
    BY <1>6 DEF Ahead
  <2>1. \A i \in 1..size : Cardinality(read[i].next.include) <= Take
    BY <1>4 DEF Fits
  <2>2. Fits(read) /\ Cardinality(cur.include) <= Take
    BY <2>1, <1>4, <1>5 DEF Fits
  <2>3. s \in feedOpen \ private /\ s \notin pg.posts /\ s \in st \ Served(read)
    BY <1>7
  <2>4. s < cur.at \/ s \in cur.include
    BY <2>2, <2>3 DEF Reading, Ahead, cur
  <2>5. s \in Within(cur)
    BY <2>3, <2>4 DEF Within
  <2> QED
    BY <1>3, <2>2, <2>3, <2>5
<1> QED
  BY <1>3, <1>9, <1>10, <1>11, <1>12 DEF Reading, got

\* A post that goes is not required any more.
LEMMA FewerSteady ==
  ASSUME NEW read, NEW st, Reading(read, st), NEW st2 \in SUBSET st
  PROVE  Reading(read, st2)
BY DEF Reading, Ahead

LEMMA NoPages ==
  ASSUME NEW st
  PROVE  Reading(<<>>, st)
BY DEF Reading, Apart, Moving, Past, Ahead

LEMMA FeedInit ==
  ASSUME F!FeedAssumption, F!Init
  PROVE  FeedInv
<1>1. F!TypeOK
  <2>1. cache = None /\ making = None /\ feedFetch = None /\ feedPages = <<>> /\ steady = {}
        /\ feedOpen \subseteq FeedPosts /\ private \subseteq FeedPosts
        /\ changes \in 0..MaxChanges /\ retries \in 0..MaxRetries
    BY FeedSets DEF F!Init, F!FeedAssumption
  <2> QED
    BY <2>1 DEF F!TypeOK
<1> QED
  BY <1>1, NoPages DEF FeedInv, F!Init, Kept

\* What a change of the posts leaves of a reading.
LEMMA StaysSound ==
  ASSUME FeedInv, Visible \subseteq Visible', F!TypeOK',
         UNCHANGED <<cache, making, feedPages, steady, feedFetch>>
  PROVE  FeedInv'
<1>1. Kept(cache)' /\ Kept(making)'
  BY DEF FeedInv, Kept
<1>2. Reading(feedPages, steady)'
  BY DEF FeedInv
<1>3. (feedFetch # None => /\ feedFetch.steady \subseteq Visible /\ Reading(feedFetch.base, feedFetch.steady)
                           /\ feedFetch.base # <<>> => Cur(feedFetch.base) # F!End)'
  BY DEF FeedInv
<1> QED
  BY <1>1, <1>2, <1>3 DEF FeedInv

LEMMA FeedStep ==
  ASSUME F!FeedAssumption, FeedInv, [F!Next]_F!vars
  PROVE  FeedInv'
<1> USE DEF FeedInv
<1>types. /\ feedOpen \subseteq FeedPosts /\ private \subseteq FeedPosts /\ steady \subseteq Visible
          /\ feedPages \in Seq(F!Page)
          /\ cache # None => cache \in [page : F!Page, steady : SUBSET FeedPosts]
          /\ making # None => making \in [page : F!Page, steady : SUBSET FeedPosts]
          /\ feedFetch # None => feedFetch \in [all : BOOLEAN, want : Nat \ {0}, base : Seq(F!Page),
                                                steady : SUBSET FeedPosts]
          /\ changes \in 0..MaxChanges /\ retries \in 0..MaxRetries
          /\ MaxChanges \in Nat /\ MaxRetries \in Nat
  BY FeedSets DEF F!TypeOK, Visible, F!FeedAssumption
<1> DEFINE
  Types == /\ feedOpen \subseteq FeedPosts /\ private \subseteq FeedPosts /\ steady \subseteq Visible
           /\ feedPages \in Seq(F!Page)
           /\ cache # None => cache \in [page : F!Page, steady : SUBSET FeedPosts]
           /\ making # None => making \in [page : F!Page, steady : SUBSET FeedPosts]
           /\ feedFetch # None => feedFetch \in [all : BOOLEAN, want : Nat \ {0}, base : Seq(F!Page),
                                                 steady : SUBSET FeedPosts]
           /\ changes \in 0..MaxChanges /\ retries \in 0..MaxRetries
<1>typed. Types' => F!TypeOK'
  BY DEF F!TypeOK, Visible
<1>next. ASSUME changes < MaxChanges, changes' = changes + 1
         PROVE  changes' \in 0..MaxChanges
  BY <1>types, <1>next
<1>again. ASSUME retries < MaxRetries, retries' = retries + 1
          PROVE  retries' \in 0..MaxRetries
  BY <1>types, <1>again
<1>1. ASSUME NEW p \in FeedPosts, F!Create(p) PROVE FeedInv'
  <2>1. Types'
    BY <1>types, <1>next, <1>1 DEF F!Create, F!Change, Visible
  <2>2. Visible \subseteq Visible'
    BY <1>1 DEF F!Create, Visible
  <2> QED
    BY <1>typed, <1>1, <2>1, <2>2, StaysSound DEF F!Create
<1>2. ASSUME NEW p \in FeedPosts, F!Gain(p) PROVE FeedInv'
  <2>1. Types'
    BY <1>types, <1>next, <1>2 DEF F!Gain, F!Change, Visible
  <2>2. Visible \subseteq Visible'
    BY <1>2 DEF F!Gain, Visible
  <2> QED
    BY <1>typed, <1>2, <2>1, <2>2, StaysSound DEF F!Gain
<1>3. ASSUME NEW p \in FeedPosts, F!Lose(p) PROVE FeedInv'
  <2>1. /\ feedOpen' \subseteq FeedPosts /\ private' \subseteq FeedPosts /\ Visible' = Visible \ {p}
        /\ steady' = steady \ {p} /\ feedPages' = feedPages
        /\ changes' \in 0..MaxChanges /\ retries' = retries
        /\ cache' = F!Without(cache, p) /\ making' = F!Without(making, p)
        /\ feedFetch' = F!Without(feedFetch, p)
    BY <1>types, <1>next, <1>3 DEF F!Lose, F!Change, Visible
  <2>2. ASSUME NEW first, first # None, first \in [page : F!Page, steady : SUBSET FeedPosts]
        PROVE  /\ F!Without(first, p) \in [page : F!Page, steady : SUBSET FeedPosts]
               /\ F!Without(first, p).page = first.page
               /\ F!Without(first, p).steady = first.steady \ {p}
    BY <2>2 DEF F!Without
  <2>3. feedFetch # None =>
          /\ F!Without(feedFetch, p) \in [all : BOOLEAN, want : Nat \ {0}, base : Seq(F!Page), steady : SUBSET FeedPosts]
          /\ F!Without(feedFetch, p).base = feedFetch.base
          /\ F!Without(feedFetch, p).steady = feedFetch.steady \ {p}
    BY <1>types DEF F!Without
  <2>4. F!Without(None, p) = None
    BY DEF F!Without
  <2>5. Types'
    BY <1>types, <2>1, <2>2, <2>3, <2>4 DEF Visible
  <2>6. Reading(feedPages', steady')
    BY <2>1, FewerSteady
  <2>7. (cache' # None => /\ cache'.steady \subseteq Visible' /\ Reading(<<cache'.page>>, cache'.steady))
    <3> SUFFICES ASSUME cache' # None
                 PROVE  cache'.steady \subseteq Visible' /\ Reading(<<cache'.page>>, cache'.steady)
      OBVIOUS
    <3>1. cache # None /\ cache'.page = cache.page /\ cache'.steady = cache.steady \ {p}
      BY <1>types, <2>1, <2>2, <2>4
    <3> QED
      BY <2>1, <3>1, FewerSteady DEF Kept
  <2>8. (making' # None => /\ making'.steady \subseteq Visible' /\ Reading(<<making'.page>>, making'.steady))
    <3> SUFFICES ASSUME making' # None
                 PROVE  making'.steady \subseteq Visible'
                        /\ Reading(<<making'.page>>, making'.steady)
      OBVIOUS
    <3>1. making # None /\ making'.page = making.page /\ making'.steady = making.steady \ {p}
      BY <1>types, <2>1, <2>2, <2>4
    <3> QED
      BY <2>1, <3>1, FewerSteady DEF Kept
  <2>9. feedFetch' # None => /\ feedFetch'.steady \subseteq Visible' /\ Reading(feedFetch'.base, feedFetch'.steady)
                             /\ feedFetch'.base # <<>> => Cur(feedFetch'.base) # F!End
    <3> SUFFICES ASSUME feedFetch' # None
                 PROVE  /\ feedFetch'.steady \subseteq Visible'
                        /\ Reading(feedFetch'.base, feedFetch'.steady)
                        /\ feedFetch'.base # <<>> => Cur(feedFetch'.base) # F!End
      OBVIOUS
    <3>1. feedFetch # None /\ feedFetch'.base = feedFetch.base
          /\ feedFetch'.steady = feedFetch.steady \ {p}
      BY <2>1, <2>3, <2>4
    <3> QED
      BY <2>1, <3>1, FewerSteady
  <2> QED
    BY <1>typed, <2>5, <2>6, <2>7, <2>8, <2>9 DEF Kept
<1>4. ASSUME F!Materialize PROVE FeedInv'
  <2>1. PICK first \in F!FirstPages(CacheTake) : making' = first
    BY <1>4 DEF F!Materialize
  <2>2. CacheTake \in Nat \ {0}
    BY FeedSets DEF F!FeedAssumption
  <2>3. /\ first \in [page : F!Page, steady : SUBSET FeedPosts]
        /\ first.steady \subseteq Visible /\ Reading(<<first.page>>, first.steady)
    BY <2>2, FirstPage
  <2>4. UNCHANGED <<feedOpen, private, cache, feedPages, steady, feedFetch, changes, retries>>
    BY <1>4 DEF F!Materialize
  <2>5. Types' /\ Visible' = Visible
    BY <1>types, <2>1, <2>3, <2>4 DEF Visible
  <2> QED
    BY <1>typed, <2>1, <2>3, <2>4, <2>5 DEF Kept
<1>5. ASSUME F!StorePage \/ F!DropPage PROVE FeedInv'
  <2>1. UNCHANGED <<feedOpen, private, feedPages, steady, feedFetch, changes, retries>>
        /\ cache' \in {making, None} /\ making' \in {making, None}
    BY <1>5 DEF F!StorePage, F!DropPage
  <2>2. Types' /\ Visible' = Visible
    BY <1>types, <2>1 DEF Visible
  <2> QED
    BY <1>typed, <2>1, <2>2 DEF Kept
<1>6. ASSUME F!Refetch PROVE FeedInv'
  <2>1. /\ UNCHANGED <<feedOpen, private, cache, making, feedPages, steady, changes>>
        /\ feedFetch'.base = <<>> /\ feedFetch'.steady = {}
        /\ feedFetch' \in [all : BOOLEAN, want : Nat \ {0}, base : Seq(F!Page), steady : SUBSET FeedPosts]
        /\ retries' \in 0..MaxRetries
    BY <1>types, <1>again, <1>6 DEF F!Refetch
  <2>2. Types' /\ Visible' = Visible
    BY <1>types, <2>1 DEF Visible
  <2> QED
    BY <1>typed, <2>1, <2>2, NoPages DEF Kept
<1>7. ASSUME F!FetchNext PROVE FeedInv'
  <2>1. /\ UNCHANGED <<feedOpen, private, cache, making, feedPages, steady, changes, retries>>
        /\ feedFetch' = [all |-> FALSE, want |-> Len(feedPages) + 1, base |-> feedPages, steady |-> steady]
        /\ F!NextParam # F!End
    BY <1>7 DEF F!FetchNext
  <2>2. feedPages # <<>> /\ Cur(feedPages) # F!End
    BY <2>1 DEF F!NextParam, Cur, F!Last
  <2>3. steady \subseteq FeedPosts
    BY <1>types DEF Visible
  <2>4. Types' /\ Visible' = Visible
    BY <1>types, <2>1, <2>3 DEF Visible
  <2>5. feedFetch'.base = feedPages /\ feedFetch'.steady = steady
    BY <2>1
  <2> QED
    BY <1>typed, <1>types, <2>1, <2>2, <2>4, <2>5 DEF Kept
<1>8. ASSUME F!Answer PROVE FeedInv'
  <2>1. PICK a \in F!Answers :
          LET got == Append(feedFetch.base, a.page)
          IN  IF Len(got) = feedFetch.want \/ a.page.next = F!End
              THEN /\ feedPages' = got /\ steady' = a.steady /\ feedFetch' = None
              ELSE /\ feedFetch' = [feedFetch EXCEPT !.base = got, !.steady = a.steady]
                   /\ UNCHANGED <<feedPages, steady>>
    BY <1>8 DEF F!Answer
  <2>2. feedFetch # None /\ UNCHANGED <<feedOpen, private, cache, making, changes, retries>>
    BY <1>8 DEF F!Answer
  <2> DEFINE got == Append(feedFetch.base, a.page)
  <2>3. /\ feedFetch \in [all : BOOLEAN, want : Nat \ {0}, base : Seq(F!Page), steady : SUBSET FeedPosts]
        /\ feedFetch.base \in Seq(F!Page)
    BY <1>types, <2>2
  <2>4. /\ a.page \in F!Page /\ a.steady \subseteq FeedPosts /\ a.steady \subseteq Visible
        /\ Reading(got, a.steady)
    <3>1. CASE feedFetch.base = <<>>
      <4>1. a \in [page : F!Page, steady : SUBSET FeedPosts] /\ a.steady \subseteq Visible
            /\ Reading(<<a.page>>, a.steady)
        <5>1. CASE cache # None
          BY <1>types, <3>1, <5>1 DEF F!Answers, Kept
        <5>2. CASE cache = None
          <6>1. a \in F!FirstPages(Take) /\ Take \in Nat \ {0}
            BY <3>1, <5>2, FeedSets DEF F!Answers, F!FeedAssumption
          <6> QED
            BY <6>1, FirstPage
        <5> QED
          BY <5>1, <5>2
      <4>2. got = <<a.page>>
        BY <3>1
      <4> QED
        BY <4>1, <4>2
    <3>2. CASE feedFetch.base # <<>>
      <4>1. PICK pg \in F!getFeed(Cur(feedFetch.base), Take) : a = [page |-> pg, steady |-> feedFetch.steady]
        BY <3>2 DEF F!Answers, Cur, F!Last
      <4>2. /\ Cur(feedFetch.base) # F!End /\ Reading(feedFetch.base, feedFetch.steady)
            /\ feedFetch.steady \subseteq feedOpen \ private
        BY <2>2, <3>2 DEF Visible
      <4>3. pg \in F!Page /\ Reading(Append(feedFetch.base, pg), feedFetch.steady)
        BY <2>3, <3>2, <4>1, <4>2, NextPage
      <4> QED
        BY <1>types, <2>2, <2>3, <4>1, <4>3
    <3> QED
      BY <3>1, <3>2
  <2>5. got \in Seq(F!Page) /\ got # <<>> /\ Cur(got) = a.page.next
    BY <2>3, <2>4 DEF Cur
  <2> HIDE DEF got
  <2>6. Visible' = Visible
    BY <2>2 DEF Visible
  <2>7. CASE Len(got) = feedFetch.want \/ a.page.next = F!End
    <3>1. feedPages' = got /\ steady' = a.steady /\ feedFetch' = None
      BY <2>1, <2>7 DEF got
    <3>2. Types'
      BY <1>types, <2>2, <2>4, <2>5, <2>6, <3>1 DEF Visible
    <3> QED
      BY <1>typed, <2>2, <2>4, <2>6, <3>1, <3>2 DEF Kept
  <2>8. CASE ~ (Len(got) = feedFetch.want \/ a.page.next = F!End)
    <3>1. feedFetch' = [feedFetch EXCEPT !.base = got, !.steady = a.steady]
          /\ feedPages' = feedPages /\ steady' = steady
      BY <2>1, <2>8 DEF got
    <3>2. /\ feedFetch'.base = got /\ feedFetch'.steady = a.steady
          /\ feedFetch' \in [all : BOOLEAN, want : Nat \ {0}, base : Seq(F!Page), steady : SUBSET FeedPosts]
      BY <2>3, <2>4, <2>5, <3>1
    <3>3. Types'
      BY <1>types, <2>2, <2>6, <3>1, <3>2 DEF Visible
    <3> QED
      BY <1>typed, <2>2, <2>4, <2>5, <2>6, <2>8, <3>1, <3>2, <3>3 DEF Kept
  <2> QED
    BY <2>7, <2>8
<1>9. ASSUME F!Fail PROVE FeedInv'
  <2>1. UNCHANGED <<feedOpen, private, cache, making, feedPages, steady, changes>>
        /\ feedFetch' = None /\ retries' \in 0..MaxRetries
    BY <1>9, <1>again DEF F!Fail
  <2>2. Types' /\ Visible' = Visible
    BY <1>types, <2>1 DEF Visible
  <2> QED
    BY <1>typed, <2>1, <2>2 DEF Kept
<1>10. ASSUME UNCHANGED F!vars PROVE FeedInv'
  <2>1. UNCHANGED <<feedOpen, private, cache, making, feedPages, steady, feedFetch, changes,
                    retries>>
    BY <1>10 DEF F!vars
  <2>2. Types' /\ Visible' = Visible
    BY <1>types, <2>1 DEF Visible
  <2> QED
    BY <1>typed, <2>1, <2>2, StaysSound
<1> QED
  BY <1>1, <1>2, <1>3, <1>4, <1>5, <1>6, <1>7, <1>8, <1>9, <1>10 DEF F!Next

LEMMA FeedGood ==
  ASSUME F!FeedAssumption, FeedInv
  PROVE  F!TypeOK /\ F!ServedOnce /\ F!NoneSkipped /\ F!CursorMoves
<1>1. F!TypeOK /\ Apart(feedPages) /\ Moving(feedPages) /\ Ahead(feedPages, steady)
  BY DEF FeedInv, Reading
<1>2. F!ServedOnce
  BY <1>1 DEF F!ServedOnce, Apart
<1>3. F!CursorMoves
  BY <1>1 DEF F!CursorMoves, Moving
<1>4. F!NoneSkipped
  BY <1>1, FeedSets DEF F!NoneSkipped, Ahead, Fits, Served, Cur, F!NextParam, F!Last
<1> QED
  BY <1>1, <1>2, <1>3, <1>4

LEMMA FeedInRun ==
  [NextMC]_<<vars, limitVars, attemptVars, feedVars, commentVars, pillVars, drawVars,
             panelVars, busVars, part>> => [F!Next]_F!vars
  BY DEF NextMC, feedVars, F!vars

\* However posts come, go and change hands while pages are read, cached and read
\* again, every post is served once, none that was visible all along is skipped
\* unless a page postpones more than the next one reads, and the cursor goes on.
THEOREM FeedAlwaysSound == SpecMC => []FeedSound
<1>1. InitMC => FeedInv
  BY PagesAssumption, FeedInit DEF InitMC
<1>2. FeedInv /\ [F!Next]_F!vars => FeedInv'
  BY PagesAssumption, FeedStep
<1>3. FeedInv => FeedSound
  BY PagesAssumption, FeedGood DEF FeedSound
<1> QED
  BY <1>1, <1>2, <1>3, FeedInRun, PTL DEF SpecMC

-----------------------------------------------------------------------------
(* The composer.  Images go with their lots, posts with the requests that   *)
(* carry them: a draft that was posted is behind the one on the screen.     *)

-----------------------------------------------------------------------------
(* The inductive invariant of the composer.                                *)

InFlight == {q \in Publishes : publish[q].pc \in {"sent", "admitted", "ok", "refused"}}
Sent == {q \in Publishes : publish[q].pc # "none"}

\* Images are chosen in the order of their numbers, and a lot is one of them.
LotInv ==
  /\ \E k \in 0..MaxImages : Chosen = 1..k
  /\ uploads \subseteq Chosen /\ keys \subseteq uploads /\ Cardinality(uploads) <= MaxPostImages
  /\ \A i \in Chosen : batch[i] \in Chosen
  /\ \A b \in Images \ Chosen : lot[b] = "none" /\ put[b] = "none"
  /\ \A b \in Images : lot[b] # "none" => batch[b] = b

\* What the state of its lot says of an image.
ImageInv ==
  \A i \in Chosen :
    /\ lot[batch[i]] # "none"
    /\ lot[batch[i]] = "presign" => put[i] = "none" /\ i \notin keys
    /\ lot[batch[i]] = "put" => put[i] # "none"
    /\ i \in uploads => lot[batch[i]] # "failed"

\* A text posted is behind the draft, and its images are off the list, once
\* the author has had the answer.
BehindInv ==
  ~deaf => \A q \in posts :
    /\ publish[q].pc \in {"ok", "over"}
    /\ publish[q].pc = "over" =>
         /\ content = 0 \/ publish[q].body.content < content
         /\ publish[q].body.images \cap uploads = {}

BodyInv ==
  \A q \in Sent : LET sent == publish[q].body IN
    /\ sent.content <= edits /\ sent.images \subseteq Chosen \cap objects
    /\ sent.reading <=> sent.type = "reading"
    /\ sent.type = "text" => sent.content # 0
    /\ sent.type = "image" => sent.images # {} /\ Cardinality(sent.images) <= MaxPostImages

\* One request at a time, and no two of a post differ only by their number.
TurnInv ==
  /\ \A p, q \in InFlight : p = q
  /\ posts \subseteq Sent
  /\ \A q \in posts : publish[q].pc \notin {"none", "sent", "admitted"}
  /\ ~deaf => \A p \in posts : \A q \in posts \cup InFlight :
       p # q /\ publish[q].pc # "refused"
       /\ publish[p].body = publish[q].body => publish[p].body.reading

Paid == balance = Cardinality({q \in posts : publish[q].body.reading})

ComposerInv ==
  /\ TypeOK /\ content <= edits /\ keys \subseteq objects
  /\ LotInv /\ ImageInv /\ ImagesAccounted
  /\ BodyInv /\ BehindInv /\ TurnInv /\ Paid

LEMMA ImagesFinite ==
  ASSUME ComposerAssumption
  PROVE  /\ IsFiniteSet(Images) /\ IsFiniteSet(Publishes)
         /\ \A S \in SUBSET Images : IsFiniteSet(S) /\ Cardinality(S) \in Nat
         /\ \A k \in Nat : Cardinality(1..k) = k
<1>1. IsFiniteSet(Images) /\ IsFiniteSet(Publishes)
  BY FS_Interval DEF Images, Publishes, ComposerAssumption
<1>2. \A S \in SUBSET Images : IsFiniteSet(S) /\ Cardinality(S) \in Nat
  BY <1>1, FS_Subset, FS_CardinalityType
<1>3. ASSUME NEW k \in Nat PROVE Cardinality(1..k) = k
  <2>1. 1 \in Int /\ k \in Int
    OBVIOUS
  <2>2. Cardinality(1..k) = IF 1 > k THEN 0 ELSE k - 1 + 1
    BY <2>1, FS_Interval
  <2> QED
    BY <2>2
<1> QED
  BY <1>1, <1>2, <1>3

LEMMA ComposerInit ==
  ASSUME ComposerAssumption, Init
  PROVE  ComposerInv
<1> USE DEF ComposerAssumption, Init
<1>1. TypeOK
  <2>1. [pc |-> "none", body |-> NoBody] \in
          [pc : {"none", "sent", "admitted", "ok", "refused", "over"}, body : Body]
    BY DEF NoBody, Body, Tabs
  <2>2. publish \in [Publishes -> [pc : {"none", "sent", "admitted", "ok", "refused", "over"},
                                  body : Body]]
    BY <2>1
  <2>3. /\ uploads \subseteq Images /\ keys \subseteq Images
        /\ batch \in [Images -> 0..MaxImages]
        /\ lot \in [Images -> {"none", "presign", "put", "failed"}]
        /\ put \in [Images -> {"none", "sent", "over"}] /\ objects \subseteq Images
        /\ cleared \subseteq Images /\ posts \subseteq Publishes
    OBVIOUS
  <2>4. content \in 0..MaxEdits /\ edits \in 0..MaxEdits /\ used \in 0..PostLimit /\ balance \in Nat
    OBVIOUS
  <2> QED
    BY <2>2, <2>3, <2>4 DEF TypeOK, Tabs
<1>2. Chosen = {} /\ Sent = {} /\ InFlight = {}
  BY DEF Chosen, Sent, InFlight
<1>3. LotInv
  <2>1. Chosen = 1..0 /\ 0 \in 0..MaxImages
    BY <1>2
  <2>2. Cardinality({}) = 0
    BY FS_EmptySet
  <2> QED
    BY <1>2, <2>1, <2>2 DEF LotInv
<1>4. Paid
  <2>1. {q \in posts : publish[q].body.reading} = {}
    OBVIOUS
  <2> QED
    BY <2>1, FS_EmptySet DEF Paid
<1> QED
  BY <1>1, <1>2, <1>3, <1>4 DEF ComposerInv, ImageInv, ImagesAccounted, BodyInv, BehindInv, TurnInv

-----------------------------------------------------------------------------
(* The images.                                                             *)

ImageParts == LotInv /\ ImageInv /\ ImagesAccounted /\ keys \subseteq objects

LEMMA ChooseImages ==
  ASSUME ComposerAssumption, TypeOK, ImageParts, NEW n \in 1..MaxPostImages, handleFiles(n)
  PROVE  /\ ImageParts' /\ Chosen \subseteq Chosen'
         /\ uploads' \subseteq Images /\ batch' \in [Images -> 0..MaxImages]
         /\ lot' \in [Images -> {"none", "presign", "put", "failed"}]
         /\ uploads' \cap Chosen = uploads
<1> DEFINE first == Cardinality(Chosen) + 1
           new == first..(first + n - 1)
<1>1. PICK k \in 0..MaxImages : Chosen = 1..k
  BY DEF ImageParts, LotInv
<1>2. /\ first = k + 1 /\ k \in Nat /\ n \in Nat \ {0} /\ MaxImages \in Nat
      /\ MaxPostImages \in Nat
  <2>1. k \in Nat /\ n \in Nat \ {0} /\ MaxImages \in Nat /\ MaxPostImages \in Nat
    BY DEF ComposerAssumption
  <2> QED
    BY <1>1, <2>1, ImagesFinite
<1>3. /\ n <= Room /\ new \subseteq Images
      /\ uploads' = uploads \cup new
      /\ batch' = [i \in Images |-> IF i \in new THEN first ELSE batch[i]]
      /\ lot' = [lot EXCEPT ![first] = "presign"]
      /\ UNCHANGED <<keys, put, objects, cleared>>
  BY DEF handleFiles
<1> HIDE DEF first
<1>4. /\ first \in new /\ first \in Images /\ first \notin Chosen /\ Images = 1..MaxImages
      /\ new \cap Chosen = {} /\ k + n <= MaxImages
      /\ Chosen \cup new = 1..(k + n)
  <2>1. first \in new /\ first + n - 1 \in new
    BY <1>2
  <2>2. first \in Images /\ k + n \in Images /\ Images = 1..MaxImages
    BY <1>2, <1>3, <2>1 DEF Images
  <2> QED
    BY <1>1, <1>2, <2>1, <2>2
<1>5. Cardinality(new) = n /\ IsFiniteSet(new)
  <2>1. first \in Int /\ first + n - 1 \in Int
    BY <1>2
  <2>2. Cardinality(new) = IF first > first + n - 1 THEN 0 ELSE (first + n - 1) - first + 1
    BY <2>1, FS_Interval
  <2> QED
    BY <1>2, <2>1, <2>2, FS_Interval
<1>6. Cardinality(uploads') <= MaxPostImages
  <2>1. IsFiniteSet(uploads) /\ Cardinality(uploads) \in Nat
    BY ImagesFinite DEF TypeOK
  <2>2. uploads \cap new = {}
    BY <1>4 DEF ImageParts, LotInv
  <2>3. Cardinality(uploads \cup new) = Cardinality(uploads) + Cardinality(new) - Cardinality({})
    BY <1>5, <2>1, <2>2, FS_Union
  <2>4. Cardinality({}) = 0
    BY FS_EmptySet
  <2> QED
    BY <1>2, <1>3, <1>5, <2>1, <2>3, <2>4 DEF Room
<1> HIDE DEF new
<1>7. /\ batch \in [Images -> 0..MaxImages] /\ put \in [Images -> {"none", "sent", "over"}]
      /\ lot \in [Images -> {"none", "presign", "put", "failed"}] /\ uploads \subseteq Chosen
      /\ Chosen \subseteq Images
  BY DEF TypeOK, ImageParts, LotInv, Chosen
<1>8. Chosen' = Chosen \cup new
  <2>1. \A i \in Images : i \in Chosen <=> batch[i] # 0
    BY DEF Chosen
  <2>2. \A i \in Images : i \in Chosen' <=> batch'[i] # 0
    BY DEF Chosen
  <2>3. \A i \in Images : batch'[i] = IF i \in new THEN first ELSE batch[i]
    BY <1>3
  <2>4. first # 0
    BY <1>2
  <2> QED
    BY <1>3, <1>4, <1>7, <2>1, <2>2, <2>3, <2>4 DEF Chosen
<1>9. /\ \A i \in Chosen : batch'[i] = batch[i] /\ batch[i] \in Chosen /\ lot'[batch[i]] = lot[batch[i]]
      /\ \A i \in new : batch'[i] = first /\ lot'[first] = "presign" /\ put[i] = "none" /\ i \notin keys
  <2>1. \A i \in Chosen : batch[i] \in Chosen /\ i \notin new
    BY <1>4 DEF ImageParts, LotInv
  <2>2. \A i \in new : i \in Images \ Chosen
    BY <1>3, <1>4
  <2>3. \A i \in Chosen : batch'[i] = batch[i] /\ lot'[batch[i]] = lot[batch[i]]
    BY <1>3, <1>4, <1>7, <2>1
  <2>4. \A i \in new : put[i] = "none" /\ i \notin keys
    BY <2>2 DEF ImageParts, LotInv
  <2>5. \A i \in new : batch'[i] = first /\ lot'[first] = "presign"
    BY <1>3, <1>4, <1>7
  <2> QED
    BY <2>1, <2>3, <2>4, <2>5
<1>10. LotInv'
  <2>1. k + n \in 0..MaxImages /\ Chosen' = 1..(k + n)
    BY <1>2, <1>4, <1>8
  <2>2. uploads' \subseteq Chosen' /\ keys' \subseteq uploads'
    BY <1>3, <1>7, <1>8 DEF ImageParts, LotInv
  <2>3. \A i \in Chosen' : batch'[i] \in Chosen'
    BY <1>4, <1>8, <1>9
  <2>4. \A b \in Images \ Chosen' : lot'[b] = "none" /\ put'[b] = "none"
    BY <1>3, <1>4, <1>7, <1>8 DEF ImageParts, LotInv
  <2>5. \A b \in Images : lot'[b] # "none" => batch'[b] = b
    <3> SUFFICES ASSUME NEW b \in Images, lot'[b] # "none" PROVE batch'[b] = b
      OBVIOUS
    <3>1. CASE b = first
      BY <3>1, <1>4, <1>9
    <3>2. CASE b # first
      <4>1. lot[b] # "none" /\ batch[b] = b
        BY <3>2, <1>3, <1>7 DEF ImageParts, LotInv
      <4>2. b \in Chosen
        BY <4>1 DEF ImageParts, LotInv
      <4> QED
        BY <4>1, <4>2, <1>9
    <3> QED
      BY <3>1, <3>2
  <2> QED
    BY <1>6, <2>1, <2>2, <2>3, <2>4, <2>5 DEF LotInv
<1>11. ImageInv'
  <2> SUFFICES ASSUME NEW i \in Chosen'
               PROVE  /\ lot'[batch'[i]] # "none"
                      /\ lot'[batch'[i]] = "presign" => put'[i] = "none" /\ i \notin keys'
                      /\ lot'[batch'[i]] = "put" => put'[i] # "none"
                      /\ i \in uploads' => lot'[batch'[i]] # "failed"
    BY DEF ImageInv
  <2>1. CASE i \in Chosen
    <3>1. i \in uploads' => i \in uploads
      BY <2>1, <1>3, <1>4
    <3> QED
      BY <2>1, <3>1, <1>3, <1>9 DEF ImageParts, ImageInv
  <2>2. CASE i \in new
    BY <2>2, <1>3, <1>9
  <2> QED
    BY <2>1, <2>2, <1>8
<1>12. ImagesAccounted'
  <2> SUFFICES ASSUME NEW i \in Chosen'
               PROVE  /\ i \in uploads' \/ lot'[batch'[i]] = "failed" \/ i \in cleared'
                      /\ i \in uploads' \ keys' => lot'[batch'[i]] = "presign" \/ put'[i] = "sent"
    BY DEF ImagesAccounted
  <2>1. CASE i \in Chosen
    <3>1. i \in uploads' <=> i \in uploads
      BY <2>1, <1>3, <1>4
    <3> QED
      BY <2>1, <3>1, <1>3, <1>9 DEF ImageParts, ImagesAccounted
  <2>2. CASE i \in new
    BY <2>2, <1>3, <1>9
  <2> QED
    BY <2>1, <2>2, <1>8
<1>13. keys' \subseteq objects'
  BY <1>3 DEF ImageParts
<1>14. /\ uploads' \subseteq Images /\ batch' \in [Images -> 0..MaxImages]
       /\ lot' \in [Images -> {"none", "presign", "put", "failed"}]
       /\ uploads' \cap Chosen = uploads
  <2>1. first \in 0..MaxImages
    BY <1>2, <1>4
  <2> QED
    BY <1>3, <1>4, <1>7, <2>1
<1> QED
  BY <1>8, <1>10, <1>11, <1>12, <1>13, <1>14 DEF ImageParts

ImageTypes ==
  /\ uploads \subseteq Images /\ keys \subseteq Images
  /\ batch \in [Images -> 0..MaxImages]
  /\ lot \in [Images -> {"none", "presign", "put", "failed"}]
  /\ put \in [Images -> {"none", "sent", "over"}] /\ objects \subseteq Images
  /\ cleared \subseteq Images

LEMMA FailLot ==
  ASSUME ComposerAssumption, TypeOK, ImageParts, NEW b \in Images,
         lot[b] \in {"presign", "put"}, LotFails(b), UNCHANGED <<batch, cleared>>,
         put' \in [Images -> {"none", "sent", "over"}],
         objects' \in SUBSET Images, objects \subseteq objects',
         \/ put' = put /\ lot[b] = "presign"
         \/ \E i \in Images : /\ put[i] = "sent" /\ batch[i] = b /\ lot[b] = "put"
                              /\ put' = [put EXCEPT ![i] = "over"]
  PROVE  /\ ImageParts' /\ ImageTypes' /\ uploads' \subseteq uploads /\ Chosen' = Chosen
<1>1. /\ batch \in [Images -> 0..MaxImages] /\ put \in [Images -> {"none", "sent", "over"}]
      /\ lot \in [Images -> {"none", "presign", "put", "failed"}] /\ uploads \subseteq Chosen
      /\ Chosen \subseteq Images /\ keys \subseteq uploads /\ cleared \subseteq Images
  BY DEF TypeOK, ImageParts, LotInv, Chosen
<1>2. /\ lot' = [lot EXCEPT ![b] = "failed"]
      /\ uploads' = {i \in uploads : batch[i] # b}
      /\ keys' = {i \in keys : batch[i] # b}
      /\ batch' = batch /\ cleared' = cleared
  BY <1>1 DEF LotFails, WithoutLot, LotOf
<1>3. Chosen' = Chosen
  BY <1>2 DEF Chosen
<1>4. /\ \A i \in Chosen : lot'[batch[i]] = IF batch[i] = b THEN "failed" ELSE lot[batch[i]]
      /\ \A i \in Images : lot'[i] = IF i = b THEN "failed" ELSE lot[i]
  <2>1. \A i \in Chosen : batch[i] \in Images
    BY <1>1 DEF ImageParts, LotInv
  <2> QED
    BY <1>1, <1>2, <2>1
<1>5. ASSUME NEW i \in Images, batch[i] # b \/ i \notin Chosen
      PROVE  put'[i] = put[i]
  <2>1. b # 0 /\ \A j \in Images : batch[j] = b => j \in Chosen
    BY DEF Chosen, Images
  <2> QED
    BY <1>1, <1>5, <2>1
<1>6. \A i \in Images : put[i] # "none" => put'[i] # "none"
  BY <1>1
<1>7. LotInv'
  <2>1. IsFiniteSet(uploads) /\ uploads' \subseteq uploads
    BY <1>1, <1>2, ImagesFinite DEF TypeOK
  <2>2. Cardinality(uploads') <= MaxPostImages
    <3>1. Cardinality(uploads') <= Cardinality(uploads)
      BY <2>1, FS_Subset
    <3>2. uploads' \in SUBSET Images /\ uploads \in SUBSET Images
      BY <1>1, <2>1
    <3>3. Cardinality(uploads') \in Nat /\ Cardinality(uploads) \in Nat
      BY <3>2, ImagesFinite
    <3> QED
      BY <3>1, <3>3 DEF ImageParts, LotInv, ComposerAssumption
  <2>3. b \in Chosen
    BY <1>1 DEF ImageParts, LotInv
  <2>4. \A c \in Images \ Chosen : lot'[c] = "none" /\ put'[c] = "none"
    BY <1>4, <1>5, <2>3 DEF ImageParts, LotInv
  <2>5. \A c \in Images : lot'[c] # "none" => batch'[c] = c
    BY <1>2, <1>4 DEF ImageParts, LotInv
  <2>6. uploads' \subseteq Chosen' /\ keys' \subseteq uploads'
    BY <1>1, <1>2, <1>3
  <2>7. \A i \in Chosen' : batch'[i] \in Chosen'
    BY <1>2, <1>3 DEF ImageParts, LotInv
  <2>8. \E k \in 0..MaxImages : Chosen' = 1..k
    BY <1>3 DEF ImageParts, LotInv
  <2> QED
    BY <1>3, <2>2, <2>4, <2>5, <2>6, <2>7, <2>8 DEF LotInv
<1>8. ImageInv'
  <2> SUFFICES ASSUME NEW i \in Chosen
               PROVE  /\ lot'[batch'[i]] # "none"
                      /\ lot'[batch'[i]] = "presign" => put'[i] = "none" /\ i \notin keys'
                      /\ lot'[batch'[i]] = "put" => put'[i] # "none"
                      /\ i \in uploads' => lot'[batch'[i]] # "failed"
    BY <1>3 DEF ImageInv
  <2>1. CASE batch[i] = b
    BY <2>1, <1>2, <1>4
  <2>2. CASE batch[i] # b
    BY <2>2, <1>1, <1>2, <1>4, <1>5 DEF ImageParts, ImageInv
  <2> QED
    BY <2>1, <2>2
<1>9. ImagesAccounted'
  <2> SUFFICES ASSUME NEW i \in Chosen
               PROVE  /\ i \in uploads' \/ lot'[batch'[i]] = "failed" \/ i \in cleared'
                      /\ i \in uploads' \ keys' => lot'[batch'[i]] = "presign" \/ put'[i] = "sent"
    BY <1>3 DEF ImagesAccounted
  <2>1. CASE batch[i] = b
    BY <2>1, <1>2, <1>4
  <2>2. CASE batch[i] # b
    BY <2>2, <1>1, <1>2, <1>4, <1>5 DEF ImageParts, ImagesAccounted
  <2> QED
    BY <2>1, <2>2
<1>10. keys' \subseteq objects' /\ uploads' \subseteq uploads
  BY <1>2 DEF ImageParts
<1>11. ImageTypes'
  BY <1>1, <1>2, <1>10 DEF ImageTypes
<1> QED
  BY <1>3, <1>7, <1>8, <1>9, <1>10, <1>11 DEF ImageParts

\* What the network does to the images, and what the rest may count on.
ImageStep ==
  /\ ImageParts' /\ ImageTypes' /\ Chosen \subseteq Chosen' /\ objects \subseteq objects'
  /\ uploads' \cap Chosen \subseteq uploads

LEMMA PutImages ==
  ASSUME ComposerAssumption, TypeOK, ImageParts, NEW b \in Images, Presigned(b)
  PROVE  ImageStep
<1>1. /\ batch \in [Images -> 0..MaxImages] /\ put \in [Images -> {"none", "sent", "over"}]
      /\ lot \in [Images -> {"none", "presign", "put", "failed"}]
      /\ Chosen \subseteq Images
  BY DEF TypeOK, Chosen
<1>2. /\ lot[b] = "presign" /\ lot' = [lot EXCEPT ![b] = "put"]
      /\ put' = [i \in Images |-> IF batch[i] = b THEN "sent" ELSE put[i]]
      /\ UNCHANGED <<uploads, keys, batch, objects, cleared>>
  BY DEF Presigned
<1>3. Chosen' = Chosen
  BY <1>2 DEF Chosen
<1>4. /\ \A i \in Chosen : batch[i] \in Images /\ lot'[batch[i]] = IF batch[i] = b THEN "put" ELSE lot[batch[i]]
      /\ \A i \in Images : lot'[i] = IF i = b THEN "put" ELSE lot[i]
      /\ \A i \in Images : put'[i] = IF batch[i] = b THEN "sent" ELSE put[i]
  <2>1. \A i \in Chosen : batch[i] \in Images
    BY <1>1 DEF ImageParts, LotInv
  <2> QED
    BY <1>1, <1>2, <2>1
<1>5. b \in Chosen /\ \A i \in Images \ Chosen : batch[i] # b
  <2>1. b \in Chosen
    BY <1>2 DEF ImageParts, LotInv
  <2>2. b # 0
    BY DEF Images
  <2> QED
    BY <2>1, <2>2 DEF Chosen
<1>6. LotInv'
  BY <1>2, <1>3, <1>4, <1>5 DEF ImageParts, LotInv
<1>7. ImageInv'
  <2>1. ASSUME NEW i \in Chosen
        PROVE  /\ lot'[batch[i]] # "none"
               /\ lot'[batch[i]] = "presign" => put'[i] = "none" /\ i \notin keys
               /\ lot'[batch[i]] = "put" => put'[i] # "none"
               /\ i \in uploads => lot'[batch[i]] # "failed"
    BY <1>1, <1>4 DEF ImageParts, ImageInv
  <2> QED
    BY <1>2, <1>3, <2>1 DEF ImageInv
<1>8. ImagesAccounted'
  <2>1. ASSUME NEW i \in Chosen
        PROVE  /\ i \in uploads \/ lot'[batch[i]] = "failed" \/ i \in cleared
               /\ i \in uploads \ keys => lot'[batch[i]] = "presign" \/ put'[i] = "sent"
    BY <1>1, <1>2, <1>4 DEF ImageParts, ImagesAccounted
  <2> QED
    BY <1>2, <1>3, <2>1 DEF ImagesAccounted
<1>9. ImageTypes'
  BY <1>1, <1>2 DEF ImageTypes, TypeOK
<1> QED
  BY <1>2, <1>3, <1>6, <1>7, <1>8, <1>9 DEF ImageParts, ImageStep

LEMMA AnswerPut ==
  ASSUME ComposerAssumption, TypeOK, ImageParts, NEW i \in Images, PutAnswers(i)
  PROVE  ImageStep
<1>1. /\ batch \in [Images -> 0..MaxImages] /\ put \in [Images -> {"none", "sent", "over"}]
      /\ lot \in [Images -> {"none", "presign", "put", "failed"}]
      /\ Chosen \subseteq Images /\ uploads \subseteq Images /\ keys \subseteq uploads
      /\ uploads \subseteq Chosen /\ objects \subseteq Images /\ cleared \subseteq Images
  BY DEF TypeOK, Chosen, ImageParts, LotInv
<1>2. /\ put[i] = "sent" /\ put' = [put EXCEPT ![i] = "over"] /\ batch' = batch
      /\ cleared' = cleared
  BY DEF PutAnswers
<1>3. Chosen' = Chosen
  BY <1>2 DEF Chosen
<1>4. i \in Chosen /\ batch[i] \in Chosen /\ batch[i] \in Images
  BY <1>1, <1>2 DEF ImageParts, LotInv
<1>5. /\ put' \in [Images -> {"none", "sent", "over"}]
      /\ \A j \in Images : put'[j] = IF j = i THEN "over" ELSE put[j]
  BY <1>1, <1>2
\* Keys and images move, or none does.
<1>6. ASSUME uploads' = uploads, lot' = lot, keys' \in {keys, KeyNoted(i)},
             i \in uploads => i \in keys',
             objects' \in {objects, objects \cup {i}}, keys' \subseteq objects'
      PROVE  ImageStep
  <2>1. keys \subseteq keys' /\ keys' \subseteq uploads /\ keys' \subseteq keys \cup {i}
    BY <1>1, <1>6 DEF KeyNoted
  <2>2. LotInv'
    <3>1. \A c \in Images \ Chosen : lot'[c] = "none" /\ put'[c] = "none"
      BY <1>4, <1>5, <1>6 DEF ImageParts, LotInv
    <3> QED
      BY <1>2, <1>3, <1>6, <2>1, <3>1 DEF ImageParts, LotInv
  <2>3. ImageInv'
    <3>1. lot[batch[i]] # "presign"
      BY <1>2, <1>4 DEF ImageParts, ImageInv
    <3>2. ASSUME NEW j \in Chosen
          PROVE  /\ lot[batch[j]] # "none"
                 /\ lot[batch[j]] = "presign" => put'[j] = "none" /\ j \notin keys'
                 /\ lot[batch[j]] = "put" => put'[j] # "none"
                 /\ j \in uploads => lot[batch[j]] # "failed"
      BY <1>1, <1>5, <2>1, <3>1 DEF ImageParts, ImageInv
    <3> QED
      BY <1>2, <1>3, <1>6, <3>2 DEF ImageInv
  <2>4. ImagesAccounted'
    <3>1. ASSUME NEW j \in Chosen
          PROVE  /\ j \in uploads \/ lot[batch[j]] = "failed" \/ j \in cleared
                 /\ j \in uploads \ keys' => lot[batch[j]] = "presign" \/ put'[j] = "sent"
      BY <1>1, <1>5, <1>6, <2>1 DEF ImageParts, ImagesAccounted
    <3> QED
      BY <1>2, <1>3, <1>6, <3>1 DEF ImagesAccounted
  <2>5. ImageTypes'
    BY <1>1, <1>2, <1>5, <1>6, <2>1 DEF ImageTypes
  <2>6. objects \subseteq objects'
    BY <1>6
  <2> QED
    BY <1>3, <1>6, <2>2, <2>3, <2>4, <2>5, <2>6 DEF ImageParts, ImageStep
<1>7. CASE /\ objects' = objects \cup {i} /\ keys' = KeyNoted(i) /\ UNCHANGED <<uploads, lot>>
  <2>1. i \in uploads => i \in keys'
    BY <1>7 DEF KeyNoted
  <2>2. keys' \subseteq objects'
    BY <1>7 DEF KeyNoted, ImageParts
  <2> QED
    BY <1>6, <1>7, <2>1, <2>2
<1>8. CASE /\ objects' \in {objects, objects \cup {i}} /\ lot[batch[i]] = "put"
           /\ LotFails(batch[i])
  <2>1. /\ lot[batch[i]] \in {"presign", "put"} /\ UNCHANGED <<batch, cleared>>
        /\ objects' \in SUBSET Images /\ objects \subseteq objects'
    BY <1>1, <1>2, <1>8
  <2>2. \E j \in Images : /\ put[j] = "sent" /\ batch[j] = batch[i] /\ lot[batch[i]] = "put"
                          /\ put' = [put EXCEPT ![j] = "over"]
    BY <1>2, <1>8
  <2>3. ImageParts' /\ ImageTypes' /\ uploads' \subseteq uploads /\ Chosen' = Chosen
    BY <1>4, <1>5, <1>8, <2>1, <2>2, FailLot
  <2> QED
    BY <2>1, <2>3 DEF ImageStep
<1>9. CASE /\ objects' \in {objects, objects \cup {i}} /\ lot[batch[i]] # "put"
           /\ UNCHANGED <<uploads, keys, lot>>
  <2>1. lot[batch[i]] = "failed" /\ i \notin uploads
    <3>1. lot[batch[i]] \in {"none", "presign", "put", "failed"}
      BY <1>1, <1>4
    <3> QED
      BY <1>2, <1>4, <1>9, <3>1 DEF ImageParts, ImageInv
  <2>2. keys' \subseteq objects'
    BY <1>9 DEF ImageParts
  <2> QED
    BY <1>6, <1>9, <2>1, <2>2
<1> QED
  BY <1>7, <1>8, <1>9 DEF PutAnswers

-----------------------------------------------------------------------------
(* The posts.                                                              *)

PostParts == BodyInv /\ BehindInv /\ TurnInv /\ Paid /\ content <= edits

\* The steps of the network do not touch the draft or the posts.
LEMMA ImagesApart ==
  ASSUME PostParts, ImageStep, UNCHANGED <<draft, publish, server, deaf>>
  PROVE  PostParts'
<1>1. UNCHANGED <<content, edits, publish, posts, balance, deaf>>
  BY DEF draft, server
<1>2. Sent' = Sent /\ InFlight' = InFlight
  BY <1>1 DEF Sent, InFlight
<1>3. BodyInv'
  BY <1>1, <1>2 DEF PostParts, BodyInv, ImageStep
<1>4. ASSUME NEW q \in posts PROVE publish[q].body.images \subseteq Chosen
  BY DEF PostParts, BodyInv, TurnInv
<1>5. BehindInv'
  BY <1>1, <1>4 DEF PostParts, BehindInv, ImageStep
<1>6. TurnInv' /\ Paid'
  BY <1>1, <1>2 DEF PostParts, TurnInv, Paid
<1> QED
  BY <1>1, <1>3, <1>5, <1>6 DEF PostParts

LEMMA SubmitDraft ==
  ASSUME ComposerAssumption, ComposerInv, handleSubmit
  PROVE  /\ PostParts'
         /\ publish' \in [Publishes -> [pc : {"none", "sent", "admitted", "ok", "refused", "over"},
                                        body : Body]]
<1> DEFINE unsent == {q \in Publishes : publish[q].pc = "none"}
           new == Min(unsent)
<1>1. new \in Publishes /\ publish[new].pc = "none"
  <2>1. unsent \in SUBSET Nat /\ unsent # {}
    BY DEF handleSubmit, Publishes
  <2>2. PICK x \in unsent : \A y \in unsent : x <= y
    BY <2>1, LeastOf
  <2>3. new \in unsent
    BY <2>2 DEF Min
  <2> QED
    BY <2>3
<1>2. /\ publish' = [publish EXCEPT ![new] = [pc |-> "sent", body |-> body]]
      /\ UNCHANGED <<draft, files, server, deaf>> /\ canSubmit /\ ~isPending
  BY DEF handleSubmit
<1> HIDE DEF new
<1>3. UNCHANGED <<content, edits, uploads, keys, objects, batch, posts, balance, deaf>>
      /\ Chosen' = Chosen
  BY <1>2 DEF draft, files, server, Chosen
<1>4. /\ publish \in [Publishes -> [pc : {"none", "sent", "admitted", "ok", "refused", "over"}, body : Body]]
      /\ tab \in Tabs /\ content \in 0..MaxEdits /\ edits \in 0..MaxEdits /\ MaxEdits \in Nat
      /\ uploads \subseteq Images /\ posts \subseteq Publishes /\ reading \in BOOLEAN
      /\ PostParts /\ MaxPostImages \in Nat
  BY DEF ComposerInv, TypeOK, PostParts, ComposerAssumption
<1>5. /\ body \in Body /\ body.content = content /\ body.type = tab
      /\ body.images = (IF tab = "image" THEN Keyed ELSE {})
      /\ (body.reading <=> tab = "reading")
  BY <1>4 DEF body, Body, Keyed
<1>6. /\ publish' \in [Publishes -> [pc : {"none", "sent", "admitted", "ok", "refused", "over"}, body : Body]]
      /\ publish'[new] = [pc |-> "sent", body |-> body]
      /\ \A q \in Publishes : q # new => publish'[q] = publish[q]
  BY <1>1, <1>2, <1>4, <1>5
<1>7. InFlight = {} /\ new \notin Sent
  BY <1>1, <1>2, <1>4 DEF isPending, InFlight, Sent
<1>8. Sent' = Sent \cup {new} /\ InFlight' = {new}
  BY <1>1, <1>6, <1>7 DEF Sent, InFlight
<1>9. posts \subseteq Sent /\ new \notin posts /\ \A q \in posts : publish'[q] = publish[q]
  BY <1>4, <1>6, <1>7 DEF PostParts, TurnInv
<1>10. /\ Keyed \subseteq Chosen \cap objects /\ Keyed \subseteq uploads
       /\ Cardinality(Keyed) <= MaxPostImages
  <2>1. Keyed \subseteq uploads /\ Keyed \subseteq keys /\ uploads \subseteq Chosen
        /\ keys \subseteq objects
    BY DEF Keyed, ComposerInv, LotInv
  <2>2. IsFiniteSet(uploads) /\ Cardinality(uploads) \in Nat /\ Cardinality(Keyed) \in Nat
    BY <1>4, <2>1, ImagesFinite
  <2>3. Cardinality(Keyed) <= Cardinality(uploads)
    BY <2>1, <2>2, FS_Subset
  <2> QED
    BY <1>4, <2>1, <2>2, <2>3 DEF ComposerInv, LotInv
<1>11. /\ tab = "text" => content # 0
       /\ tab = "image" => Keyed # {}
  BY <1>2, <1>4 DEF canSubmit, Tabs
<1>12. BodyInv'
  <2> SUFFICES ASSUME NEW q \in Sent'
               PROVE  LET sent == publish'[q].body IN
                 /\ sent.content <= edits' /\ sent.images \subseteq Chosen' \cap objects'
                 /\ sent.reading <=> sent.type = "reading"
                 /\ sent.type = "text" => sent.content # 0
                 /\ sent.type = "image" => sent.images # {} /\ Cardinality(sent.images) <= MaxPostImages
    BY DEF BodyInv
  <2>1. CASE q = new
    BY <2>1, <1>3, <1>4, <1>5, <1>6, <1>10, <1>11 DEF PostParts
  <2>2. CASE q # new
    <3>1. q \in Sent /\ publish'[q] = publish[q]
      BY <2>2, <1>6, <1>8 DEF Sent
    <3> QED
      BY <3>1, <1>3, <1>4 DEF PostParts, BodyInv
  <2> QED
    BY <2>1, <2>2
<1>13. BehindInv'
  BY <1>3, <1>4, <1>9 DEF PostParts, BehindInv
<1>14. ASSUME ~deaf, NEW p \in posts, publish[p].body = body PROVE body.reading
  <2>1. publish[p].pc = "over" /\ p \in Sent
    <3>1. publish[p].pc \in {"ok", "over"} /\ p \in Publishes
      BY <1>4, <1>14 DEF PostParts, BehindInv
    <3> QED
      BY <1>7, <1>9, <3>1 DEF InFlight
  <2>2. /\ content = 0 \/ body.content < content
        /\ body.images \cap uploads = {}
    BY <1>4, <1>14, <2>1 DEF PostParts, BehindInv
  <2>3. tab # "text"
    BY <1>4, <1>5, <1>11, <2>2
  <2>4. tab # "image"
    BY <1>5, <1>10, <1>11, <2>2
  <2> QED
    BY <1>4, <1>5, <2>3, <2>4 DEF Tabs
<1>15. TurnInv'
  <2>1. \A p, q \in InFlight' : p = q
    BY <1>8
  <2>2. posts' \subseteq Sent'
        /\ \A q \in posts' : publish'[q].pc \notin {"none", "sent", "admitted"}
    BY <1>3, <1>4, <1>8, <1>9 DEF PostParts, TurnInv
  <2>3. ASSUME ~deaf, NEW p \in posts, NEW q \in posts \cup {new}, p # q,
               publish'[q].pc # "refused", publish'[p].body = publish'[q].body
        PROVE  publish'[p].body.reading
    <3>1. CASE q = new
      <4>1. publish[p].body = body
        BY <3>1, <2>3, <1>6, <1>9
      <4> QED
        BY <4>1, <2>3, <1>9, <1>14
    <3>2. CASE q \in posts
      BY <3>2, <2>3, <1>4, <1>9 DEF PostParts, TurnInv
    <3> QED
      BY <2>3, <3>1, <3>2
  <2> QED
    BY <1>3, <1>8, <2>1, <2>2, <2>3 DEF TurnInv
<1>16. Paid'
  <2>1. {q \in posts' : publish'[q].body.reading} = {q \in posts : publish[q].body.reading}
    BY <1>3, <1>9
  <2> QED
    BY <1>3, <1>4, <2>1 DEF PostParts, Paid
<1> QED
  BY <1>3, <1>4, <1>6, <1>12, <1>13, <1>15, <1>16 DEF PostParts

Requests == [Publishes -> [pc : {"none", "sent", "admitted", "ok", "refused", "over"}, body : Body]]

\* A request goes on: its body stays.
LEMMA RequestMoves ==
  ASSUME NEW q \in InFlight, NEW c \in {"admitted", "ok", "refused", "over"},
         publish \in Requests, publish' = [publish EXCEPT ![q].pc = c]
  PROVE  /\ publish' \in Requests /\ publish'[q].pc = c
         /\ \A r \in Publishes : publish'[r].body = publish[r].body
         /\ \A r \in Publishes : r # q => publish'[r] = publish[r]
         /\ Sent' = Sent /\ InFlight' = IF c = "over" THEN InFlight \ {q} ELSE InFlight
         /\ q \in Publishes /\ q \in Sent
<1>1. q \in Publishes /\ publish[q].pc \in {"sent", "admitted", "ok", "refused"}
  BY DEF InFlight
<1>2. /\ publish' \in Requests /\ publish'[q].pc = c
      /\ \A r \in Publishes : publish'[r].body = publish[r].body
      /\ \A r \in Publishes : r # q => publish'[r] = publish[r]
  BY <1>1 DEF Requests
<1>3. Sent' = Sent /\ q \in Sent
  BY <1>1, <1>2 DEF Sent
<1>4. InFlight' = IF c = "over" THEN InFlight \ {q} ELSE InFlight
  BY <1>1, <1>2 DEF InFlight
<1> QED
  BY <1>1, <1>2, <1>3, <1>4

\* The server and the answer.
LEMMA ServerStep ==
  ASSUME ComposerAssumption, ComposerInv, NEW q \in Publishes,
         Admit(q) \/ Refuse(q) \/ CreatePost(q) \/ AnswerLost(q) \/ Answer(q)
  PROVE  PostParts' /\ publish' \in Requests
<1>1. /\ publish \in Requests /\ PostParts /\ posts \subseteq Publishes /\ IsFiniteSet(posts)
      /\ balance \in Nat /\ posts \subseteq Sent /\ content \in Nat /\ edits \in Nat
  <2>1. posts \subseteq Publishes /\ publish \in Requests /\ PostParts /\ balance \in Nat
        /\ content \in Nat /\ edits \in Nat
    BY DEF ComposerInv, TypeOK, PostParts, Requests, ComposerAssumption
  <2>2. IsFiniteSet(posts)
    BY <2>1, ImagesFinite, FS_Subset
  <2> QED
    BY <2>1, <2>2 DEF PostParts, TurnInv
<1>2. /\ q \in InFlight
      /\ \E c \in {"admitted", "ok", "refused", "over"} : publish' = [publish EXCEPT ![q].pc = c]
      /\ edits' = edits /\ batch' = batch /\ objects' = objects
  BY DEF Admit, Refuse, CreatePost, AnswerLost, Answer, InFlight, draft, files
<1>3. PICK c \in {"admitted", "ok", "refused", "over"} : publish' = [publish EXCEPT ![q].pc = c]
  BY <1>2
<1>4. /\ publish' \in Requests /\ publish'[q].pc = c
      /\ \A r \in Publishes : publish'[r].body = publish[r].body
      /\ \A r \in Publishes : r # q => publish'[r] = publish[r]
      /\ Sent' = Sent /\ InFlight' \subseteq InFlight
  BY <1>1, <1>2, <1>3, RequestMoves, ZenonT(30)
<1>5. Chosen' = Chosen /\ Sent \subseteq Publishes /\ InFlight \subseteq Publishes /\ InFlight = {q}
  BY <1>1, <1>2 DEF Chosen, Sent, InFlight, PostParts, TurnInv
<1>6. BodyInv'
  BY <1>1, <1>2, <1>4, <1>5 DEF PostParts, BodyInv
<1>7. ASSUME posts' = posts, balance' = balance PROVE Paid'
  <2>1. {r \in posts' : publish'[r].body.reading} = {r \in posts : publish[r].body.reading}
    BY <1>1, <1>4, <1>7
  <2> QED
    BY <1>1, <1>7, <2>1 DEF PostParts, Paid
<1>8. CASE Admit(q) \/ Refuse(q)
  <2>1. /\ q \notin posts /\ publish[q].pc # "refused"
        /\ UNCHANGED <<content, uploads, posts, balance, deaf>> /\ c \in {"admitted", "refused"}
    <3>1. publish[q].pc \in {"sent", "admitted"} /\ UNCHANGED <<content, uploads, posts, balance,
                                                                deaf>>
          /\ publish'[q].pc \in {"admitted", "refused"}
      BY <1>1, <1>8 DEF Admit, Refuse, draft, files, server, Requests
    <3> QED
      BY <1>1, <1>4, <3>1 DEF PostParts, TurnInv
  <2>2. BehindInv'
    BY <1>1, <1>4, <2>1 DEF PostParts, BehindInv
  <2>3. TurnInv'
    <3>1. \A p, r \in InFlight' : p = r
      BY <1>4, <1>5
    <3>2. \A r \in posts' : publish'[r].pc \notin {"none", "sent", "admitted"}
      BY <1>1, <1>4, <2>1 DEF PostParts, TurnInv
    <3>3. ASSUME ~deaf', NEW p \in posts', NEW r \in posts' \cup InFlight', p # r,
                 publish'[r].pc # "refused", publish'[p].body = publish'[r].body
          PROVE  publish'[p].body.reading
      <4>1. publish[r].pc # "refused"
        BY <1>1, <1>4, <1>5, <2>1, <3>3
      <4>2. /\ p \in posts /\ r \in posts \cup InFlight /\ ~deaf
            /\ publish[p].body = publish[r].body
        BY <1>1, <1>4, <1>5, <2>1, <3>3
      <4>3. publish[p].body.reading
        BY <1>1, <3>3, <4>1, <4>2 DEF PostParts, TurnInv
      <4> QED
        BY <1>1, <1>4, <4>2, <4>3
    <3> QED
      BY <1>1, <1>4, <2>1, <3>1, <3>2, <3>3 DEF TurnInv
  <2> QED
    BY <1>1, <1>2, <1>4, <1>6, <1>7, <2>1, <2>2, <2>3 DEF PostParts
<1>9. CASE CreatePost(q)
  <2>1. /\ publish[q].pc = "admitted" /\ posts' = posts \cup {q} /\ publish'[q].pc = "ok"
        /\ balance' = IF publish[q].body.reading THEN balance + 1 ELSE balance
        /\ UNCHANGED <<content, uploads, deaf>>
    BY <1>1, <1>9 DEF CreatePost, draft, files, Requests
  <2>2. q \notin posts
    BY <1>1, <2>1 DEF PostParts, TurnInv
  <2>3. BehindInv'
    BY <1>1, <1>4, <2>1 DEF PostParts, BehindInv
  <2>4. TurnInv'
    <3>1. \A p, r \in InFlight' : p = r
      BY <1>4, <1>5
    <3>2. posts' \subseteq Sent'
          /\ \A r \in posts' : publish'[r].pc \notin {"none", "sent", "admitted"}
      BY <1>1, <1>2, <1>4, <2>1 DEF PostParts, TurnInv, InFlight, Sent
    <3>3. ASSUME ~deaf', NEW p \in posts', NEW r \in posts' \cup InFlight', p # r,
                 publish'[p].body = publish'[r].body
          PROVE  publish'[p].body.reading
      <4>1. p \in posts \cup {q} /\ r \in posts \cup {q} /\ ~deaf
            /\ publish[p].body = publish[r].body
            /\ publish'[p].body = publish[p].body
        BY <1>1, <1>4, <1>5, <2>1, <3>3
      <4>2. CASE p \in posts /\ r \in posts
        <5>1. publish[r].pc # "refused"
          BY <1>1, <4>1, <4>2 DEF PostParts, BehindInv
        <5> QED
          BY <1>1, <3>3, <4>1, <4>2, <5>1 DEF PostParts, TurnInv
      <4>3. CASE p \in posts /\ r = q
        BY <1>1, <1>2, <2>1, <3>3, <4>1, <4>3 DEF PostParts, TurnInv
      <4>4. CASE p = q /\ r \in posts
        BY <1>1, <1>2, <2>1, <3>3, <4>1, <4>4 DEF PostParts, TurnInv
      <4> QED
        BY <3>3, <4>1, <4>2, <4>3, <4>4
    <3> QED
      BY <3>1, <3>2, <3>3 DEF TurnInv
  <2>5. Paid'
    <3> DEFINE paid == {r \in posts : publish[r].body.reading}
    <3>1. IsFiniteSet(paid) /\ balance = Cardinality(paid) /\ q \notin paid
      BY <1>1, <2>2, FS_Subset DEF PostParts, Paid
    <3>2. {r \in posts' : publish'[r].body.reading} =
            IF publish[q].body.reading THEN paid \cup {q} ELSE paid
      BY <1>1, <1>4, <2>1
    <3>3. Cardinality(paid \cup {q}) = Cardinality(paid) + 1
      BY <3>1, FS_AddElement
    <3> QED
      BY <2>1, <3>1, <3>2, <3>3 DEF Paid
  <2> QED
    BY <1>1, <1>2, <1>4, <1>6, <2>1, <2>3, <2>4, <2>5 DEF PostParts
<1>10. CASE AnswerLost(q)
  <2>1. /\ UNCHANGED <<content, posts, balance>> /\ deaf' /\ publish'[q].pc = "refused"
    BY <1>1, <1>10 DEF AnswerLost, draft, server, Requests
  <2>2. BehindInv' /\ TurnInv'
    <3>1. \A r \in posts' : publish'[r].pc \notin {"none", "sent", "admitted"}
      BY <1>1, <1>4, <2>1 DEF PostParts, TurnInv
    <3> QED
      BY <1>1, <1>4, <1>5, <2>1, <3>1 DEF BehindInv, TurnInv
  <2> QED
    BY <1>1, <1>2, <1>4, <1>6, <1>7, <2>1, <2>2 DEF PostParts
<1>11. CASE Answer(q)
  <2>1. /\ publish[q].pc \in {"ok", "refused"} /\ publish'[q].pc = "over"
        /\ UNCHANGED <<posts, balance, deaf>>
        /\ publish[q].pc = "ok" => content' = 0 /\ uploads' = {}
        /\ publish[q].pc # "ok" => content' = content /\ uploads' = uploads
    BY <1>1, <1>11 DEF Answer, server, Requests
  <2>2. ~deaf /\ publish[q].pc = "refused" => q \notin posts
    BY <1>1 DEF PostParts, BehindInv
  <2>3. BehindInv'
    <3> SUFFICES ASSUME ~deaf, NEW r \in posts
                 PROVE  /\ publish'[r].pc \in {"ok", "over"}
                        /\ publish'[r].pc = "over" =>
                             /\ content' = 0 \/ publish'[r].body.content < content'
                             /\ publish'[r].body.images \cap uploads' = {}
      BY <2>1 DEF BehindInv
    <3>1. /\ publish[r].pc \in {"ok", "over"}
          /\ publish[r].pc = "over" => /\ content = 0 \/ publish[r].body.content < content
                                       /\ publish[r].body.images \cap uploads = {}
      BY <1>1 DEF PostParts, BehindInv
    <3>4. /\ r \in Publishes /\ publish'[r].body = publish[r].body
          /\ r # q => publish'[r].pc = publish[r].pc
          /\ r = q => publish'[r].pc = "over"
      BY <1>1, <1>4, <2>1
    <3>2. CASE publish[q].pc = "ok"
      <4>1. content' = 0 /\ publish'[r].body.images \cap uploads' = {}
        BY <2>1, <3>2
      <4>2. publish'[r].pc \in {"ok", "over"}
        BY <3>1, <3>4
      <4> QED
        BY <4>1, <4>2
    <3>3. CASE publish[q].pc = "refused"
      <4>1. r # q
        BY <2>2, <3>3
      <4>2. content' = content /\ uploads' = uploads
        BY <2>1, <3>3
      <4> QED
        BY <3>1, <3>4, <4>1, <4>2
    <3> QED
      BY <2>1, <3>2, <3>3
  <2>4. InFlight' = {}
    BY <1>1, <1>2, <1>5, <2>1, <1>4 DEF InFlight
  <2>5. TurnInv'
    <3>1. \A r \in posts' : publish'[r].pc \notin {"none", "sent", "admitted"}
      BY <1>1, <1>4, <2>1 DEF PostParts, TurnInv
    <3>2. ASSUME ~deaf, NEW p \in posts, NEW r \in posts, p # r,
                 publish'[p].body = publish'[r].body
          PROVE  publish'[p].body.reading
      <4>1. publish[r].pc # "refused" /\ publish[p].body = publish[r].body
            /\ publish'[p].body = publish[p].body
        BY <1>1, <1>4, <3>2 DEF PostParts, BehindInv
      <4> QED
        BY <1>1, <3>2, <4>1 DEF PostParts, TurnInv
    <3> QED
      BY <1>1, <1>4, <2>1, <2>4, <3>1, <3>2 DEF TurnInv
  <2>6. content' <= edits'
    BY <1>1, <1>2, <2>1 DEF PostParts
  <2> QED
    BY <1>4, <1>6, <1>7, <2>1, <2>3, <2>5, <2>6 DEF PostParts
<1> QED
  BY <1>8, <1>9, <1>10, <1>11

\* What the author does to the draft.
LEMMA DraftStep ==
  ASSUME ComposerAssumption, ComposerInv,
         \/ Open \/ Close \/ handleChange \/ PickReading \/ \E t \in Tabs : SelectTab(t)
  PROVE  PostParts'
<1>1. /\ UNCHANGED <<uploads, objects, batch, publish, posts, balance, deaf>>
      /\ \/ UNCHANGED <<content, edits>>
         \/ edits' = edits + 1 /\ content' \in {0, edits + 1}
  BY DEF Open, Close, handleChange, PickReading, SelectTab, files, server
<1>2. Chosen' = Chosen /\ Sent' = Sent /\ InFlight' = InFlight
  BY <1>1 DEF Chosen, Sent, InFlight
<1>3. /\ PostParts /\ content \in Nat /\ edits \in Nat /\ posts \subseteq Sent
      /\ \A q \in Sent : publish[q].body.content \in Nat
  BY DEF ComposerInv, TypeOK, PostParts, ComposerAssumption, TurnInv, Sent, Body
<1>4. content' <= edits' /\ BodyInv'
  <2>1. \A q \in Sent : publish[q].body.content <= edits'
    BY <1>1, <1>3 DEF PostParts, BodyInv
  <2> QED
    BY <1>1, <1>2, <1>3, <2>1 DEF PostParts, BodyInv
<1>5. BehindInv'
  <2>1. \A q \in posts : publish[q].body.content \in Nat /\ publish[q].body.content <= edits
    BY <1>3 DEF PostParts, BodyInv
  <2>2. \A q \in posts : publish[q].body.content < content =>
                           content' = 0 \/ publish[q].body.content < content'
    BY <1>1, <1>3, <2>1
  <2>3. content = 0 => content' = 0 \/ \A q \in posts : publish[q].body.content < content'
    BY <1>1, <1>3, <2>1
  <2> QED
    BY <1>1, <1>3, <2>2, <2>3 DEF PostParts, BehindInv
<1>6. TurnInv' /\ Paid'
  BY <1>1, <1>2, <1>3 DEF PostParts, TurnInv, Paid
<1> QED
  BY <1>4, <1>5, <1>6 DEF PostParts

\* The list is emptied when a post succeeds.
LEMMA ClearImages ==
  ASSUME ComposerAssumption, TypeOK, ImageParts, UNCHANGED <<batch, lot, put, objects>>,
         \/ UNCHANGED <<uploads, keys, cleared>>
         \/ uploads' = {} /\ keys' = {} /\ cleared' = cleared \cup uploads
  PROVE  ImageParts' /\ ImageTypes'
<1>1. Chosen' = Chosen
  BY DEF Chosen
<1>2. LotInv'
  <2>1. Cardinality({}) = 0 /\ MaxPostImages \in Nat
    BY FS_EmptySet DEF ComposerAssumption
  <2>3. Cardinality(uploads') <= MaxPostImages
    <3>1. CASE uploads' = uploads
      BY <3>1 DEF ImageParts, LotInv
    <3>2. CASE uploads' = {}
      BY <2>1, <3>2
    <3> QED
      BY <3>1, <3>2
  <2>2. Cardinality(uploads') <= MaxPostImages /\ uploads' \subseteq uploads
        /\ keys' \subseteq uploads'
    BY <2>3 DEF ImageParts, LotInv
  <2> QED
    BY <1>1, <2>2 DEF ImageParts, LotInv
<1>3. ImageInv'
  BY <1>1 DEF ImageParts, ImageInv
<1>4. ImagesAccounted'
  BY <1>1 DEF ImageParts, ImagesAccounted
<1>5. ImageTypes'
  BY DEF ImageTypes, TypeOK
<1>6. keys' \subseteq objects'
  BY DEF ImageParts
<1> QED
  BY <1>2, <1>3, <1>4, <1>5, <1>6 DEF ImageParts

LEMMA ComposerStep ==
  ASSUME ComposerAssumption, ComposerInv, [Next]_vars
  PROVE  ComposerInv'
<1> DEFINE
  Other == /\ open \in BOOLEAN /\ tab \in Tabs /\ content \in 0..MaxEdits
           /\ reading \in BOOLEAN /\ edits \in 0..MaxEdits
           /\ posts \subseteq Publishes /\ used \in 0..PostLimit /\ balance \in Nat
           /\ deaf \in BOOLEAN
<1>1. ImageParts /\ ImageTypes /\ PostParts /\ TypeOK /\ publish \in Requests /\ Other
      /\ MaxEdits \in Nat /\ PostLimit \in Nat /\ MaxPostImages \in Nat
  BY DEF ComposerInv, ImageParts, ImageTypes, PostParts, TypeOK, Requests, ComposerAssumption
<1>2. ASSUME ImageParts', ImageTypes', PostParts', publish' \in Requests, Other'
      PROVE  ComposerInv'
  BY <1>2 DEF ComposerInv, ImageParts, ImageTypes, PostParts, TypeOK, Requests
<1>3. ASSUME UNCHANGED <<uploads, keys, batch, lot, put, objects, cleared>>
      PROVE  ImageParts' /\ ImageTypes'
  BY <1>1, <1>3, ClearImages
<1>4. CASE Open \/ Close \/ handleChange \/ PickReading \/ \E t \in Tabs : SelectTab(t)
  <2>1. PostParts'
    BY <1>4, DraftStep
  <2>2. UNCHANGED <<files, publish, server, cleared, deaf>>
    BY <1>4 DEF Open, Close, handleChange, PickReading, SelectTab
  <2>3. open' \in BOOLEAN /\ reading' \in BOOLEAN
    BY <1>1, <1>4 DEF Open, Close, handleChange, PickReading, SelectTab
  <2>4. tab' \in Tabs
    BY <1>1, <1>4 DEF Open, Close, handleChange, PickReading, SelectTab
  <2>5. content' \in 0..MaxEdits /\ edits' \in 0..MaxEdits
    <3>1. \/ UNCHANGED <<content, edits>>
          \/ edits < MaxEdits /\ edits' = edits + 1 /\ content' \in {0, edits + 1}
      BY <1>4 DEF Open, Close, handleChange, PickReading, SelectTab
    <3> QED
      BY <1>1, <3>1
  <2>6. Other'
    BY <1>1, <2>2, <2>3, <2>4, <2>5 DEF server
  <2> QED
    BY <1>1, <1>2, <1>3, <2>1, <2>2, <2>6 DEF files
<1>5. CASE handleSubmit
  <2>1. PostParts' /\ publish' \in Requests
    BY <1>5, SubmitDraft DEF Requests
  <2>2. UNCHANGED <<draft, files, server, cleared, deaf>>
    BY <1>5 DEF handleSubmit
  <2>3. Other'
    BY <1>1, <2>2 DEF draft, server
  <2> QED
    BY <1>2, <1>3, <2>1, <2>2, <2>3 DEF files
<1>6. ASSUME ImageStep, UNCHANGED <<draft, publish, server, deaf>>
      PROVE  ComposerInv'
  <2>1. PostParts'
    BY <1>1, <1>6, ImagesApart
  <2>2. Other' /\ publish' \in Requests
    BY <1>1, <1>6 DEF draft, server
  <2> QED
    BY <1>2, <1>6, <2>1, <2>2 DEF ImageStep
<1>7. ASSUME NEW n \in 1..MaxPostImages, handleFiles(n) PROVE ComposerInv'
  <2>1. UNCHANGED <<draft, keys, put, objects, publish, server, cleared, deaf>>
    BY <1>7 DEF handleFiles
  <2>2. /\ ImageParts' /\ Chosen \subseteq Chosen'
        /\ uploads' \subseteq Images /\ batch' \in [Images -> 0..MaxImages]
        /\ lot' \in [Images -> {"none", "presign", "put", "failed"}]
        /\ uploads' \cap Chosen = uploads
    BY <1>1, <1>7, ChooseImages
  <2>3. ImageStep
    BY <1>1, <2>1, <2>2 DEF ImageStep, ImageTypes
  <2> QED
    BY <1>6, <2>1, <2>3
<1>8. ASSUME NEW b \in Images, Presigned(b) PROVE ComposerInv'
  <2>1. UNCHANGED <<draft, publish, server, deaf>>
    BY <1>8 DEF Presigned
  <2> QED
    BY <1>1, <1>6, <1>8, <2>1, PutImages
<1>9. ASSUME NEW b \in Images, PresignRefused(b) PROVE ComposerInv'
  <2>1. /\ UNCHANGED <<draft, batch, put, objects, publish, server, cleared, deaf>>
        /\ lot[b] = "presign" /\ LotFails(b)
    BY <1>9 DEF PresignRefused
  <2>2. put' \in [Images -> {"none", "sent", "over"}] /\ objects' \in SUBSET Images
    BY <1>1, <2>1 DEF TypeOK
  <2>3. ImageParts' /\ ImageTypes' /\ uploads' \subseteq uploads /\ Chosen' = Chosen
    BY <1>1, <2>1, <2>2, FailLot
  <2> QED
    BY <1>6, <2>1, <2>3 DEF ImageStep
<1>10. ASSUME NEW i \in Images, PutAnswers(i) PROVE ComposerInv'
  <2>1. UNCHANGED <<draft, publish, server, deaf>>
    BY <1>10 DEF PutAnswers
  <2> QED
    BY <1>1, <1>6, <1>10, <2>1, AnswerPut
<1>11. ASSUME NEW q \in Publishes,
              Admit(q) \/ Refuse(q) \/ CreatePost(q) \/ AnswerLost(q) \/ Answer(q)
       PROVE  ComposerInv'
  <2>1. PostParts' /\ publish' \in Requests
    BY <1>11, ServerStep
  <2>2. CASE Answer(q)
    <3>1. /\ UNCHANGED <<batch, lot, put, objects, edits, server, deaf>>
          /\ \/ UNCHANGED <<uploads, keys, cleared>>
             \/ uploads' = {} /\ keys' = {} /\ cleared' = cleared \cup uploads
          /\ \/ UNCHANGED <<open, tab, content, reading>>
             \/ open' = FALSE /\ tab' = "text" /\ content' = 0 /\ reading' = FALSE
      BY <2>2 DEF Answer
    <3>2. Other'
      <4>1. open' \in BOOLEAN /\ reading' \in BOOLEAN
        BY <1>1, <3>1
      <4>2. tab' \in Tabs /\ content' \in 0..MaxEdits /\ edits' \in 0..MaxEdits
        BY <1>1, <3>1 DEF Tabs
      <4> QED
        BY <1>1, <3>1, <4>1, <4>2 DEF server
    <3>3. ImageParts' /\ ImageTypes'
      BY <1>1, <3>1, ClearImages
    <3> QED
      BY <1>2, <2>1, <3>2, <3>3
  <2>3. CASE ~ Answer(q)
    <3>1. UNCHANGED <<draft, files, cleared>>
      BY <1>11, <2>3 DEF Admit, Refuse, CreatePost, AnswerLost
    <3>2. /\ posts' \in {posts, posts \cup {q}} /\ balance' \in {balance, balance + 1}
          /\ used' = used \/ (used < PostLimit /\ used' = used + 1)
          /\ deaf' \in BOOLEAN
      BY <1>1, <1>11, <2>3 DEF Admit, Refuse, CreatePost, AnswerLost, server
    <3>3. Other'
      BY <1>1, <3>1, <3>2 DEF draft
    <3>4. ImageParts' /\ ImageTypes'
      BY <1>3, <3>1 DEF files
    <3> QED
      BY <1>2, <2>1, <3>3, <3>4
  <2> QED
    BY <2>2, <2>3
<1>12. CASE UNCHANGED vars
  <2>1. UNCHANGED <<draft, files, publish, server, cleared, deaf>>
    BY <1>12 DEF vars
  <2>2. ImageStep
    BY <1>1, <1>3, <2>1 DEF files, ImageStep, Chosen
  <2> QED
    BY <1>6, <2>1, <2>2
<1> QED
  BY <1>4, <1>5, <1>7, <1>8, <1>9, <1>10, <1>11, <1>12 DEF Next, Network

LEMMA ComposerGood ==
  ASSUME ComposerAssumption, ComposerInv
  PROVE  TypeOK /\ PostsAreWhole /\ ImagesAccounted /\ PostedOnce
<1>1. /\ BodyInv /\ BehindInv /\ TurnInv /\ Paid /\ publish \in Requests
      /\ posts \subseteq Sent /\ MaxPostImages \in Nat
  BY DEF ComposerInv, TypeOK, Requests, TurnInv, ComposerAssumption
<1>2. PostsAreWhole
  <2>1. ASSUME NEW q \in posts
        PROVE  /\ publish[q].body.type = "image" => Cardinality(publish[q].body.images) \in 1..MaxPostImages
               /\ publish[q].body.images \subseteq objects
    <3>1. q \in Sent /\ publish[q].body.images \subseteq Images
      BY <1>1 DEF Sent, Requests, Body
    <3>2. IsFiniteSet(publish[q].body.images) /\ Cardinality(publish[q].body.images) \in Nat
      BY <3>1, ImagesFinite
    <3>3. Cardinality(publish[q].body.images) = 0 <=> publish[q].body.images = {}
      BY <3>2, FS_EmptySet
    <3> QED
      BY <1>1, <3>1, <3>2, <3>3 DEF BodyInv
  <2> QED
    BY <1>1, <2>1 DEF PostsAreWhole, Paid
<1>3. PostedOnce
  BY <1>1 DEF PostedOnce, TurnInv, BehindInv
<1> QED
  BY <1>2, <1>3 DEF ComposerInv

LEMMA ComposerInRun ==
  [NextMC]_<<vars, limitVars, attemptVars, feedVars, commentVars, pillVars, drawVars,
             panelVars, busVars, part>> => [Next]_vars
  BY DEF NextMC, vars, draft, files, server

\* However images are chosen, uploaded and lost while drafts are written, sent,
\* refused and sent again, a post carries images that were stored, no image is
\* lost from sight, and a draft is posted once unless an answer was lost.
THEOREM ComposerAlwaysSound == SpecMC => []ComposerSound
<1>1. InitMC => ComposerInv
  BY ComposerAssumption, ComposerInit DEF InitMC
<1>2. ComposerInv /\ [Next]_vars => ComposerInv'
  BY ComposerAssumption, ComposerStep
<1>3. ComposerInv => ComposerSound
  BY ComposerAssumption, ComposerGood DEF ComposerSound
<1> QED
  BY <1>1, <1>2, <1>3, ComposerInRun, PTL DEF SpecMC
=============================================================================
