--------------------------- MODULE ReadingSession ---------------------------
(***************************************************************************)
(* A tarot reading, from the choice of the deck to the last card: the      *)
(* session kept in sessionStorage (stores/reading-store.ts), the page that *)
(* draws and reveals (components/tarot/reading-session.tsx,                *)
(* hooks/use-sequential-reveal.ts) and the route that creates the reading  *)
(* under the daily limit (app/api/v1/readings/route.ts).                   *)
(*                                                                         *)
(* A reading is named by the request that created it.  drawSeqRef lives as *)
(* long as the page is mounted; leaving moves it, so one counter serves    *)
(* for all the times the page is mounted.  The text of the question, the   *)
(* orientation of the cards and what the panel on the right does           *)
(* (ReadingPanel) are left out.                                            *)
(***************************************************************************)
EXTENDS FiniteSetsExt, Naturals

CONSTANTS
  Decks, Spreads, \* what may be chosen
  CardCount,      \* cards of a spread
  Limit,          \* the plan's readings of a day
  MaxDraws,       \* bound on the requests sent
  MaxSeq,         \* bound on drawSeqRef
  None

SessionAssumption ==
  /\ CardCount \in Nat \ {0} /\ Limit \in Nat
  /\ MaxDraws \in Nat /\ MaxSeq \in Nat
  /\ None \notin Decks \cup Spreads

VARIABLES
  store,   \* the session: reading-store.ts
  view,    \* the page: what its references, state and timers hold
  draw,    \* per request: where it is, in the route or on its way back
  created, \* the readings of the day in the database
  raced    \* a reading was inserted after another one than those counted

vars == <<store, view, draw, created, raced>>

Draws == 1..MaxDraws
Positions == 1..CardCount
NoReading == 0

Session == [step : {"deck", "spread", "question", "draw", "reveal"},
            deckId : Decks \cup {None}, spreadId : Spreads \cup {None},
            cards : 0..MaxDraws, createdReadingId : 0..MaxDraws,
            flippedCards : SUBSET Positions]

View == [mounted : BOOLEAN, drawSeq : 0..MaxSeq, drawStarted : BOOLEAN,
         drawError : BOOLEAN, timers : SUBSET Positions, hidden : SUBSET Positions]

Draw == [pc : {"none", "sent", "checked", "counted", "ok", "refused", "over"},
         deckId : Decks \cup {None}, spreadId : Spreads \cup {None},
         seq : 0..MaxSeq, count : Nat]

TypeOK ==
  /\ store \in Session /\ view \in View
  /\ draw \in [Draws -> Draw]
  /\ created \subseteq Draws /\ raced \in BOOLEAN

initialState == [step |-> "deck", deckId |-> None, spreadId |-> None,
                 cards |-> NoReading, createdReadingId |-> NoReading,
                 flippedCards |-> {}]

Init ==
  /\ store = initialState
  /\ view = [mounted |-> FALSE, drawSeq |-> 0, drawStarted |-> FALSE,
             drawError |-> FALSE, timers |-> {}, hidden |-> {}]
  /\ draw = [p \in Draws |-> [pc |-> "none", deckId |-> None, spreadId |-> None,
                              seq |-> 0, count |-> 0]]
  /\ created = {} /\ raced = FALSE

-----------------------------------------------------------------------------
(* The store.  Every change is written to sessionStorage at once; "draw" is *)
(* stored as "question", so that a reload does not draw.                    *)
AtStep(step) == view.mounted /\ store.step = step

selectDeck(d) ==
  /\ AtStep("deck")
  /\ store' = [store EXCEPT !.deckId = d, !.step = "spread"]
  /\ UNCHANGED <<view, draw, created, raced>>

selectSpread(s) ==
  /\ AtStep("spread")
  /\ store' = [store EXCEPT !.spreadId = s, !.step = "question"]
  /\ UNCHANGED <<view, draw, created, raced>>

partialize(s) == [s EXCEPT !.step = IF @ = "draw" THEN "question" ELSE @]

toggled(c) == (store.flippedCards \ {c}) \cup ({c} \ store.flippedCards)

-----------------------------------------------------------------------------
(* runDraw, for the choices in the store, by a page in state v.             *)
Unsent == {p \in Draws : draw[p].pc = "none"}

runDraw(v) ==
  /\ Unsent # {} /\ v.drawSeq < MaxSeq
  /\ view' = [v EXCEPT !.drawSeq = @ + 1, !.drawStarted = TRUE, !.drawError = FALSE]
  /\ draw' = [draw EXCEPT ![Min(Unsent)] =
       [pc |-> "sent", deckId |-> store.deckId, spreadId |-> store.spreadId,
        seq |-> v.drawSeq + 1, count |-> 0]]

\* Mutant: the effect does not notice that the step was left.
StartedStays == view.drawStarted

StartedOutside == FALSE

(* "Sortear" or "Pular": the effect of the step "draw" runs once.           *)
startDraw ==
  /\ AtStep("question")
  /\ store' = [store EXCEPT !.step = "draw"]
  /\ IF view.drawStarted THEN UNCHANGED <<view, draw>> ELSE runDraw(view)
  /\ UNCHANGED <<created, raced>>

retryDraw ==
  /\ AtStep("draw") /\ view.drawError
  /\ runDraw(view)
  /\ UNCHANGED <<store, created, raced>>

(* "Voltar", "Cancelar", "Nova tiragem".                                    *)
handleReset ==
  /\ view.mounted /\ store.step # "deck" /\ view.drawSeq < MaxSeq
  /\ store' = initialState
  /\ view' = [view EXCEPT !.drawSeq = @ + 1, !.drawStarted = StartedOutside,
                          !.timers = {}, !.hidden = {}]
  /\ UNCHANGED <<draw, created, raced>>

(* "Nova tiragem" on the page of a reading.                                 *)
resetElsewhere ==
  /\ ~view.mounted
  /\ store' = initialState
  /\ UNCHANGED <<view, draw, created, raced>>

\* useSequentialReveal arms a timer per card that is still face down.
faceDown(s) == Positions \ s.flippedCards

(* The page is mounted: a session in "draw" draws, one in "reveal" goes on. *)
Mount ==
  /\ ~view.mounted
  /\ LET fresh == [view EXCEPT !.mounted = TRUE, !.drawStarted = FALSE,
                               !.drawError = FALSE, !.hidden = {},
                               !.timers = IF store.step = "reveal"
                                            THEN faceDown(store) ELSE {}] IN
       IF store.step = "draw" THEN runDraw(fresh)
                              ELSE view' = fresh /\ UNCHANGED draw
  /\ UNCHANGED <<store, created, raced>>

unmounted == [view EXCEPT !.mounted = FALSE, !.drawSeq = @ + 1, !.timers = {}]

(* Leaving by a link keeps the store; a reload reads what was persisted.    *)
Leave ==
  /\ view.mounted /\ view.drawSeq < MaxSeq
  /\ view' = unmounted
  /\ store' \in {store, partialize(store)}
  /\ UNCHANGED <<draw, created, raced>>

-----------------------------------------------------------------------------
(* POST /readings.  The limit is read, and counted again in a transaction   *)
(* (read committed) that then inserts the reading.                          *)
Goto(p, step) == draw' = [draw EXCEPT ![p].pc = step]
count == Cardinality(created)

getDailyLimitStatus(p) ==
  /\ draw[p].pc = "sent"
  /\ Goto(p, IF count < Limit THEN "checked" ELSE "refused")
  /\ UNCHANGED <<store, view, created, raced>>

\* Mutant: the transaction trusts the first check.
CountedBefore == TRUE

BelowLimit == count < Limit

CountInTransaction(p) ==
  /\ draw[p].pc = "checked"
  /\ draw' = [draw EXCEPT ![p].pc = IF BelowLimit THEN "counted" ELSE "refused",
                          ![p].count = count]
  /\ UNCHANGED <<store, view, created, raced>>

CreateReading(p) ==
  /\ draw[p].pc = "counted"
  /\ created' = created \cup {p}
  /\ raced' = (raced \/ draw[p].count # count)
  /\ Goto(p, "ok")
  /\ UNCHANGED <<store, view>>

Fail(p) ==
  /\ draw[p].pc \in {"sent", "checked", "counted", "ok"}
  /\ Goto(p, "refused")
  /\ UNCHANGED <<store, view, created, raced>>

(* The answer, or the lack of one, reaches the page; a page that has left   *)
(* or reset since does not want it.                                         *)
\* Mutant: whatever is answered is shown.
WantedAlways(p) == view.mounted

Wanted(p) == view.mounted /\ draw[p].seq = view.drawSeq

Answer(p) ==
  /\ draw[p].pc \in {"ok", "refused"}
  /\ Goto(p, "over")
  /\ IF ~Wanted(p) THEN UNCHANGED <<store, view>>
     ELSE IF draw[p].pc = "refused"
       THEN view' = [view EXCEPT !.drawError = TRUE] /\ UNCHANGED store
       ELSE /\ store' = [store EXCEPT !.createdReadingId = p, !.cards = p,
                                      !.step = "reveal"]
            /\ view' = [view EXCEPT !.timers = faceDown(store),
                                    !.drawStarted = StartedOutside]
  /\ UNCHANGED <<created, raced>>

-----------------------------------------------------------------------------
\* Mutant: the timer turns its card whatever it shows.
TimerToggles(c) == toggled(c)

TimerReveals(c) == store.flippedCards \cup {c}

(* A timer of the sequence, in the order of the spread.                     *)
Reveal ==
  /\ AtStep("reveal") /\ view.timers # {}
  /\ LET c == Min(view.timers) IN
       /\ store' = [store EXCEPT !.flippedCards = TimerReveals(c)]
       /\ view' = [view EXCEPT !.timers = @ \ {c}, !.hidden = @ \ {c}]
  /\ UNCHANGED <<draw, created, raced>>

(* The user turns a card up, or down again.                                 *)
handleFlip(c) ==
  /\ AtStep("reveal")
  /\ store' = [store EXCEPT !.flippedCards = toggled(c)]
  /\ view' = [view EXCEPT !.hidden = IF c \in store.flippedCards THEN @ \cup {c}
                                                                 ELSE @ \ {c}]
  /\ UNCHANGED <<draw, created, raced>>

Route(p) ==
  \/ getDailyLimitStatus(p) \/ CountInTransaction(p) \/ CreateReading(p) \/ Fail(p)

Next ==
  \/ \E d \in Decks : selectDeck(d)
  \/ \E s \in Spreads : selectSpread(s)
  \/ startDraw \/ retryDraw \/ handleReset \/ resetElsewhere \/ Mount \/ Leave
  \/ \E p \in Draws : Route(p) \/ Answer(p)
  \/ Reveal \/ \E c \in Positions : handleFlip(c)

Spec == Init /\ [][Next]_vars

-----------------------------------------------------------------------------
(* The cards on the table are those of one reading of the database, and it  *)
(* was drawn for the deck and the spread the session shows: the answer to   *)
(* a draw that was cancelled never lands in the next session.               *)
OwnCards ==
  IF store.step = "reveal"
    THEN LET p == store.cards IN
           /\ store.createdReadingId = p /\ p \in created
           /\ draw[p].deckId = store.deckId /\ draw[p].spreadId = store.spreadId
    ELSE store.cards = NoReading /\ store.flippedCards = {}

(* BR-TIR-003: every card turns by itself, also after the user ran ahead of *)
(* the sequence or came back in the middle of it; only the user turns a     *)
(* card down.                                                               *)
EveryCardTurns ==
  AtStep("reveal") =>
    \A c \in Positions :
      c \in store.flippedCards \/ c \in view.timers \/ c \in view.hidden

(* The daily limit is passed only by a reading that another one overtook    *)
(* between the count of its transaction and its insertion.                  *)
LimitPassedByRace == Cardinality(created) > Limit => raced

(* Whoever waits for the cards waits for a request in flight, or is shown   *)
(* an error to try again from, however many draws were begun and left.      *)
DrawInFlight ==
  AtStep("draw") /\ ~view.drawError =>
    \E p \in Draws : draw[p].seq = view.drawSeq /\ draw[p].pc \notin {"none", "over"}

=============================================================================
