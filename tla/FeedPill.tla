------------------------------ MODULE FeedPill ------------------------------
(***************************************************************************)
(* The news of the feed: useFeedRealtime of hooks/use-feed.ts.  The ids of *)
(* "new-post" events wait 300 ms, then one polling request reads the posts *)
(* created since the last one; those among the ids go into the pill "N new *)
(* posts".  A batch whose request fails goes back into the queue, and a    *)
(* timer is set for it.                                                    *)
(***************************************************************************)
EXTENDS Naturals, FiniteSets

CONSTANTS
  Posts,     \* new posts of followed authors, visible to the reader
  MaxTime    \* bound on the clock

VARIABLES
  now,       \* the clock, of server and client alike
  created,   \* createdAt of the posts there are
  told,      \* posts whose "new-post" arrived; history: how far the window had
             \* ever moved by then
  ids,       \* idsRef: ids waiting for the next request
  timer,     \* timerRef is set
  since,     \* sinceRef: start of the window of the next request
  flights,   \* requests in flight: their ids, window and instant
  pill,      \* posts handed to emitPendingPost
  furthest,  \* history: the latest window there was; an older answer moves it back
  requeued   \* history: posts whose request failed

vars == <<now, created, told, ids, timer, since, flights, pill, furthest, requeued>>
history == <<furthest, requeued>>

Init ==
  /\ now = 1 /\ created = <<>> /\ told = <<>>
  /\ ids = {} /\ timer = FALSE /\ since = 0 /\ flights = {} /\ pill = {}
  /\ furthest = 0 /\ requeued = {}

Tick ==
  /\ now < MaxTime
  /\ now' = now + 1
  /\ UNCHANGED <<created, told, ids, timer, since, flights, pill, history>>

Create(p) ==
  /\ p \notin DOMAIN created
  /\ created' = [q \in DOMAIN created \cup {p} |-> IF q = p THEN now ELSE created[q]]
  /\ UNCHANGED <<now, told, ids, timer, since, flights, pill, history>>

(* "new-post": the id waits, and the window of 300 ms opens.                *)
NewPost(p) ==
  /\ p \in DOMAIN created \ DOMAIN told
  /\ told' = [q \in DOMAIN told \cup {p} |-> IF q = p THEN furthest ELSE told[q]]
  /\ ids' = ids \cup {p} /\ timer' = TRUE
  /\ UNCHANGED <<now, created, since, flights, pill, history>>

(* flush, by the timer: the ids leave the queue.                            *)
Flush ==
  /\ timer
  /\ timer' = FALSE
  /\ flights' = flights \cup {[ids |-> ids, since |-> since, at |-> now]}
  /\ ids' = {}
  /\ UNCHANGED <<now, created, told, since, pill, history>>

(* The answer: the window advances unless ids wait, and the posts asked for *)
(* and found go into the pill.  Ids not found are forgotten.                *)
Advanced(f) == IF ids = {} THEN f.at ELSE since

Answered(f) ==
  /\ f \in flights
  /\ flights' = flights \ {f}
  /\ since' = Advanced(f)
  /\ pill' = pill \cup {p \in f.ids : created[p] >= f.since}
  /\ furthest' = IF since' > furthest THEN since' ELSE furthest
  /\ UNCHANGED <<now, created, told, ids, timer, requeued>>

RetryOnNextEvent(f) == timer

(* The retry is set unless a timer is.                                      *)
Retry(f) == TRUE

Failed(f) ==
  /\ f \in flights
  /\ flights' = flights \ {f}
  /\ ids' = ids \cup f.ids /\ timer' = Retry(f)
  /\ requeued' = requeued \cup f.ids
  /\ UNCHANGED <<now, created, told, since, pill, furthest>>

Next ==
  \/ Tick \/ Flush
  \/ \E p \in Posts : Create(p) \/ NewPost(p)
  \/ \E f \in flights : Answered(f) \/ Failed(f)

Spec == Init /\ [][Next]_vars

-----------------------------------------------------------------------------
Awaited == ids \cup pill \cup UNION {f.ids : f \in flights}

(* No event is stranded: ids that wait have a timer, without another event  *)
(* having to come, although their request may have failed and another one   *)
(* been in flight.  And a post announced is only let go if a window had     *)
(* moved past it before its event came: the answers that arrive while it    *)
(* waits lose nothing, unless a request for it fails, and the retry finds   *)
(* a window that another one has moved.                                     *)
EventsAwaited ==
  /\ ids # {} => timer
  /\ \A p \in DOMAIN told :
       p \notin Awaited =>
         created[p] < IF p \in requeued THEN furthest ELSE told[p]

=============================================================================
