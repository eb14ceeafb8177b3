----------------------------- MODULE PollingFeed -----------------------------
(***************************************************************************)
(* The REST fallback of the realtime (hooks/use-socket.ts with the routes  *)
(* under api/v1/social/polling): while the socket is down the page asks    *)
(* every 30 s what was created since its cursor; a full page is a backlog, *)
(* drained downwards with until before the cursor moves on.  One endpoint  *)
(* is modelled (posts); the others differ in the rows they select.         *)
(***************************************************************************)
EXTENDS Naturals, FiniteSets, FiniteSetsExt

CONSTANTS Posts,               \* rows a viewer may be shown
          Polls,               \* bound: polls in flight at once
          Take,                \* POLLING_TAKE
          MaxSince,            \* POLLING_MAX_SINCE_MS, in ticks
          Start, MaxTime,      \* bound: the ticks the clock runs through
          Skews                \* what the page's clock adds to the server's, plus one

PollingAssumption ==
  /\ IsFiniteSet(Posts)
  /\ Take \in Nat \ {0} /\ MaxSince \in Nat \ {0}
  /\ Start \in Nat \ {0, 1} /\ MaxTime \in Nat /\ Start <= MaxTime
  /\ Skews \subseteq {0, 1, 2}

VARIABLES clock, skew,
          createdAt,           \* 0 before the row's transaction starts
          stored,              \* committed rows
          connected,
          cursor,              \* PollCursor; 0 is null
          poll,                \* pollOnce()
          delivered,           \* dispatched to the handlers
          late,                \* history: open when the query that passed it ran
          cut,                 \* history: cut off a full page inside one instant
          aged,                \* history: behind the 24 h floor of a query
          dropped,             \* history: in a page thrown away
          overtaken            \* history: an answer met a cursor another had moved

vars == <<clock, skew, createdAt, stored, connected, cursor, poll,
          delivered, late, cut, aged, dropped, overtaken>>

NoPoll == [pc |-> "idle"]
clientNow == clock + skew - 1

Init ==
  /\ clock = Start /\ skew \in Skews
  /\ createdAt = [x \in Posts |-> 0]
  /\ stored = {} /\ connected = FALSE
  /\ cursor = [since |-> 0, until |-> 0, pending |-> 0]
  /\ poll = [p \in Polls |-> NoPoll]
  /\ delivered = {} /\ late = {} /\ cut = {} /\ aged = {} /\ dropped = {}
  /\ overtaken = FALSE

History == <<late, cut, aged, dropped, overtaken>>
Rows == <<createdAt, stored>>

-----------------------------------------------------------------------------
(* The clock, the authors and the socket                                   *)

Tick ==
  /\ clock < MaxTime
  /\ clock' = clock + 1
  /\ UNCHANGED <<skew, Rows, connected, cursor, poll, delivered, History>>

\* The row takes its time when its transaction starts and is seen when it commits;
\* its new-post event follows, at most once, for whoever is connected.  Rows are
\* interchangeable: they start in a fixed order.
BeginPost ==
  LET fresh == {x \in Posts : createdAt[x] = 0} IN
    /\ fresh # {}
    /\ createdAt' = [createdAt EXCEPT ![CHOOSE x \in fresh : TRUE] = clock]
    /\ UNCHANGED <<clock, skew, stored, connected, cursor, poll, delivered, History>>

CommitPost(x) ==
  /\ createdAt[x] # 0 /\ x \notin stored
  /\ stored' = stored \cup {x}
  /\ \E heard \in {{}, {x}} :
       delivered' = IF connected THEN delivered \cup heard ELSE delivered
  /\ UNCHANGED <<clock, skew, createdAt, connected, cursor, poll, History>>

SocketChanges ==
  /\ connected' = ~connected
  /\ UNCHANGED <<clock, skew, Rows, cursor, poll, delivered, History>>

-----------------------------------------------------------------------------
(* pollOnce()                                                              *)

Send(p) ==
  /\ poll[p].pc = "idle" /\ ~connected
  /\ poll' = [poll EXCEPT ![p] = [pc |-> "sent", sentAt |-> clientNow, asked |-> cursor]]
  /\ UNCHANGED <<clock, skew, Rows, connected, cursor, delivered, History>>

\* resolveSince: the cursor, but never more than a day back.
SinceOf(asked) == IF asked.since + MaxSince < clock THEN clock - MaxSince ELSE asked.since

InWindow(x, since, until) ==
  createdAt[x] >= since /\ (until = 0 \/ createdAt[x] < until)

\* The newest Take rows of a window; ties fall either way.
IsPage(page, window) ==
  /\ page \subseteq window
  /\ Cardinality(page) = (IF Cardinality(window) < Take THEN Cardinality(window) ELSE Take)
  /\ \A x \in page, y \in window \ page : createdAt[x] >= createdAt[y]

\* guardPolling takes serverTime, then the route reads the rows.
Query(p) ==
  /\ poll[p].pc = "sent"
  /\ LET since == SinceOf(poll[p].asked)
         window == {x \in stored : InWindow(x, since, poll[p].asked.until)}
     IN  \E page \in SUBSET window :
           /\ IsPage(page, window)
           /\ poll' = [poll EXCEPT ![p] =
                [pc |-> "answered", sentAt |-> @.sentAt, asked |-> @.asked,
                 serverTime |-> clock, page |-> page,
                 open |-> {x \in Posts : createdAt[x] # 0 /\ x \notin stored},
                 tied |-> {x \in window \ page : \E y \in page : createdAt[x] = createdAt[y]},
                 behind |-> {x \in stored : createdAt[x] < since}]]
  /\ UNCHANGED <<clock, skew, Rows, connected, cursor, delivered, History>>

\* Mutant: the cursor advances to the page's own clock.
ClientCursor(r) == r.sentAt

pollingCursor(r) == Min({r.sentAt, r.serverTime})

\* Mutant: a full page moves the cursor on like any other.
NoDrain(r) == [since |-> pollingCursor(r), until |-> 0, pending |-> 0]

\* Mutant: a drained page leaves the cursor's ceiling where it was.
StuckDrain(r) ==
  LET advanced == pollingCursor(r)
      pending == IF cursor.pending # 0 THEN cursor.pending ELSE advanced
  IN  IF Cardinality(r.page) < Take
        THEN [since |-> pending, until |-> 0, pending |-> 0]
        ELSE [since |-> cursor.since, until |-> cursor.until, pending |-> pending]

advanceCursor(r) ==
  LET pending == IF cursor.pending # 0 THEN cursor.pending ELSE pollingCursor(r)
      oldest == Min({createdAt[x] : x \in r.page})
  IN  IF Cardinality(r.page) < Take
        THEN [since |-> pending, until |-> 0, pending |-> 0]
        ELSE [since |-> cursor.since, pending |-> pending,
              until |-> IF cursor.until = 0 THEN oldest ELSE Min({oldest, cursor.until})]

\* The answer: the cursor first, then the rows, unless the socket is up by now.
Answer(p) ==
  /\ poll[p].pc = "answered"
  /\ LET r == poll[p] IN
       /\ cursor' = advanceCursor(r)
       /\ delivered' = IF connected THEN delivered ELSE delivered \cup r.page
       /\ dropped' = IF connected THEN dropped \cup r.page ELSE dropped
       /\ late' = late \cup {x \in r.open : createdAt[x] < pollingCursor(r)}
       /\ cut' = IF Cardinality(r.page) < Take THEN cut ELSE cut \cup r.tied
       /\ aged' = aged \cup r.behind
       /\ overtaken' = (overtaken \/ r.asked # cursor)
  /\ poll' = [poll EXCEPT ![p] = NoPoll]
  /\ UNCHANGED <<clock, skew, Rows, connected>>

\* 401, 422, 429, 5xx, a network error or an envelope of the wrong shape.
Fail(p) ==
  /\ poll[p].pc # "idle"
  /\ poll' = [poll EXCEPT ![p] = NoPoll]
  /\ UNCHANGED <<clock, skew, Rows, connected, cursor, delivered, History>>

Next ==
  \/ Tick \/ SocketChanges \/ BeginPost
  \/ \E x \in Posts : CommitPost(x)
  \/ \E p \in Polls : Send(p) \/ Query(p) \/ Answer(p) \/ Fail(p)

\* The interval goes on, and polls get through again and again.
Fairness == \A p \in Polls : WF_vars(Send(p)) /\ SF_vars(Query(p)) /\ SF_vars(Answer(p))

Spec == Init /\ [][Next]_vars /\ Fairness

-----------------------------------------------------------------------------
(* Properties                                                              *)

\* Still ahead of the cursor: in the backlog being drained or after it.
Covered(x) ==
  \/ InWindow(x, cursor.since, cursor.until)
  \/ cursor.pending # 0 /\ createdAt[x] >= cursor.pending

Window == [since : Nat, until : Nat, pending : Nat]

Poll ==
  [pc : {"idle"}] \cup [pc : {"sent"}, sentAt : Nat, asked : Window] \cup
  [pc : {"answered"}, sentAt : Nat, asked : Window, serverTime : Nat, page : SUBSET Posts,
   open : SUBSET Posts, tied : SUBSET Posts, behind : SUBSET Posts]

TypeOK ==
  /\ clock \in Start .. MaxTime /\ skew \in Skews
  /\ createdAt \in [Posts -> Nat] /\ stored \subseteq Posts
  /\ connected \in BOOLEAN /\ cursor \in Window /\ poll \in [Polls -> Poll]
  /\ delivered \subseteq Posts /\ late \subseteq Posts /\ cut \subseteq Posts
  /\ aged \subseteq Posts /\ dropped \subseteq Posts /\ overtaken \in BOOLEAN

Passed(x) == x \in delivered \cup late \cup cut \cup aged \cup dropped

\* Nothing is skipped, whatever the skew, the ties, the backlog and the answers
\* lost: a row the cursor has passed was dispatched, but for the four ways out.
\* Nothing in the code keeps one poll from overtaking another, and a cursor moved
\* by an answer to an older one does skip rows.
NoGap == overtaken \/ \A x \in stored : Passed(x) \/ Covered(x)

\* A row is shown in the end, or the socket takes over, or it was one of those.
Caught == \A x \in Posts : x \in stored ~> Passed(x) \/ connected \/ overtaken

=============================================================================
