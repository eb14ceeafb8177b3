------------------------------- MODULE AIQuota -------------------------------
(***************************************************************************)
(* The daily quota of AI answers (lib/ai/rate-limit.ts) and the four       *)
(* streaming routes that spend it: ai/interpret, ai/arcana-interpret,      *)
(* ai/horoscope-interpret and ai/follow-up, with the interpretations that  *)
(* are kept as a cache and the follow-up conversation.                     *)
(*                                                                         *)
(* A request is handled once; a retry of the client is another request.    *)
(* Each step ends at an await of the route.  The provider's retries        *)
(* (lib/ai/retry.ts) are inside the stream: it delivers, ends or breaks.   *)
(***************************************************************************)
EXTENDS Integers, FiniteSets

CONSTANTS Users, NoUser,
          Requests,
          Hashes, NoHash,      \* values of computeCacheHash: no user enters it
          Kinds,               \* the routes that requests call
          Limit,               \* AI_DAILY_LIMITS of the plan
          FollowUpLimit,       \* FOLLOW_UP_LIMITS of the plan
          MaxDay               \* bound: midnights that pass

Interpretations == {"interpret", "arcana", "horoscope"}

QuotaAssumption == /\ NoUser \notin Users /\ NoHash \notin Hashes /\ IsFiniteSet(Requests)
                   /\ Kinds \subseteq Interpretations \cup {"followUp"}
                   /\ Limit \in Nat /\ FollowUpLimit \in Nat /\ MaxDay \in Nat

VARIABLES day,                   \* todayStart()
          rows,                  \* AIDailyUsage rows: <<user, day>>
          interpretationCount, followUpCount,        \* their counters
          cached,                \* owner of the Interpretation with this hash
          turns, answers,        \* FollowUpMessage rows, by the request
          req                    \* the requests

usage == <<rows, interpretationCount, followUpCount>>
history == <<turns, answers>>
vars == <<day, usage, cached, history, req>>

UserDays == Users \X (0..MaxDay)

Steps == {"idle", "stream", "commit", "persist", "recommit",
          "increment", "ask", "answer", "compensate", "refund"}
Ends  == {"done",       \* the "done" event
          "error",      \* the "error" event, or an error response
          "refused",    \* over the limit, or answered from the cache
          "gone"}       \* cancelled by the client, or the process stopped

Request == [pc : Steps \cup Ends, kind : Kinds \cup {"none"},
            usr : Users \cup {NoUser}, hash : Hashes \cup {NoHash},
            got : BOOLEAN,         \* fullText is not empty
            charges : 0..2,        \* commits of interpretationCount so far
            consumed : BOOLEAN,    \* of the QuotaReservation
            lost : BOOLEAN]        \* a compensation failed and was logged
Idle == [pc |-> "idle", kind |-> "none", usr |-> NoUser, hash |-> NoHash,
         got |-> FALSE, charges |-> 0, consumed |-> FALSE, lost |-> FALSE]

TypeOK ==
  /\ day \in 0..MaxDay
  /\ rows \subseteq UserDays
  /\ interpretationCount \in [UserDays -> Nat]
  /\ followUpCount \in [UserDays -> Int]
  /\ cached \in [Hashes -> Users \cup {NoUser}]
  /\ turns \subseteq Requests /\ answers \subseteq Requests
  /\ req \in [Requests -> Request]

Init ==
  /\ day = 0 /\ rows = {}
  /\ interpretationCount = [p \in UserDays |-> 0]
  /\ followUpCount = [p \in UserDays |-> 0]
  /\ cached = [h \in Hashes |-> NoUser]
  /\ turns = {} /\ answers = {}
  /\ req = [r \in Requests |-> Idle]

-----------------------------------------------------------------------------
At(r, step) == req[r].pc = step
Goto(r, step) == req' = [req EXCEPT ![r].pc = step]
IsFollowUp(r) == req[r].kind = "followUp"
Today(r) == <<req[r].usr, day>>

\* checkDailyAILimit only reads the counter.
CheckDailyAILimit(u) == interpretationCount[<<u, day>>] < Limit

Admit(r, u, k, h, admitted, step) ==
  /\ At(r, "idle") /\ k \in Kinds
  /\ req' = [req EXCEPT ![r] =
       [pc |-> IF admitted THEN step ELSE "refused", kind |-> k, usr |-> u, hash |-> h,
        got |-> FALSE, charges |-> 0, consumed |-> FALSE, lost |-> FALSE]]
  /\ UNCHANGED <<day, usage, cached, history>>

\* lookupCachedInterpretation: by hash and user.
Lookup(u, h) == cached[h] = u

(* The routes, up to the stream: the interpretation routes check the limit, *)
(* and a reading already interpreted is answered from the cache ...         *)
Interpret(r, u, h) ==
  Admit(r, u, "interpret", h, CheckDailyAILimit(u) /\ ~Lookup(u, h), "stream")

ArcanaInterpret(r, u) ==
  Admit(r, u, "arcana", NoHash, CheckDailyAILimit(u), "stream")

HoroscopeInterpret(r, u) ==
  Admit(r, u, "horoscope", NoHash, CheckDailyAILimit(u), "stream")

\* ... and checkAndIncrementFollowUpUsage reads the counter ...
CheckFollowUpLimit(u) == followUpCount[<<u, day>>] < FollowUpLimit

\* getFollowUpContext: the interpretation is the user's own.
GetFollowUpContext(u, h) == cached[h] = u

FollowUp(r, u, h) ==
  /\ GetFollowUpContext(u, h)
  /\ Admit(r, u, "followUp", h, CheckFollowUpLimit(u), "increment")

\* ... and increments it later: the reservation.
IncrementFollowUp(r) ==
  /\ At(r, "increment")
  /\ followUpCount' = [followUpCount EXCEPT ![Today(r)] = @ + 1]
  /\ rows' = rows \cup {Today(r)}
  /\ req' = [req EXCEPT ![r].pc = "ask", ![r].consumed = TRUE]
  /\ UNCHANGED <<day, interpretationCount, cached, history>>

\* The user's turn is stored when the stream starts.
Ask(r) ==
  /\ At(r, "ask")
  /\ turns' = turns \cup {r}
  /\ Goto(r, "stream")
  /\ UNCHANGED <<day, usage, cached, answers>>

-----------------------------------------------------------------------------
\* A token reaches the client (only the first one matters).
Token(r) ==
  /\ At(r, "stream") /\ ~req[r].got
  /\ req' = [req EXCEPT ![r].got = TRUE]
  /\ UNCHANGED <<day, usage, cached, history>>

\* Mutant: an empty completion is stored like any other.
EmptyIsKept(r) == IF IsFollowUp(r) THEN "answer" ELSE "commit"

\* The provider is done.  Without a single token that is a failure.
AfterStream(r) ==
  IF IsFollowUp(r) THEN IF req[r].got THEN "answer" ELSE "compensate"
                   ELSE IF req[r].got THEN "commit" ELSE "error"

StreamEnds(r) ==
  /\ At(r, "stream")
  /\ Goto(r, AfterStream(r))
  /\ UNCHANGED <<day, usage, cached, history>>

\* Mutant: what was delivered is kept as the interpretation.
KeepPartial(r) ==
  IF ~req[r].got THEN "error"
                 ELSE IF req[r].kind = "interpret" THEN "persist" ELSE "recommit"

\* Mutant: the commit is tried again.
CommitAgain(r) ==
  IF req[r].got THEN "commit"
                ELSE IF IsFollowUp(r) THEN "compensate" ELSE "error"

\* The catch block: a partial delivery is charged, an empty one is undone.
OnError(r) ==
  IF req[r].got THEN "recommit"
                ELSE IF IsFollowUp(r) THEN "compensate" ELSE "error"

\* An await of the stream rejects: the provider, or a write before it commits.
Throw(r) ==
  /\ req[r].pc \in {"increment", "ask", "stream", "commit", "persist", "answer"}
  /\ Goto(r, IF At(r, "increment") THEN "error" ELSE OnError(r))
  /\ UNCHANGED <<day, usage, cached, history>>

\* Only the horoscope route hears of the client's disconnection, and returns.
Cancel(r) ==
  /\ At(r, "stream") /\ req[r].kind = "horoscope"
  /\ Goto(r, "gone")
  /\ UNCHANGED <<day, usage, cached, history>>

\* commitDailyAIUsage: an upsert.
Charge(r, next) ==
  /\ interpretationCount' = [interpretationCount EXCEPT ![Today(r)] = @ + 1]
  /\ rows' = rows \cup {Today(r)}
  /\ req' = [req EXCEPT ![r].pc = next, ![r].charges = @ + 1]
  /\ UNCHANGED <<day, followUpCount, cached, history>>

AfterCommit(r) == IF req[r].kind = "interpret" THEN "persist" ELSE "done"

Commit(r) == At(r, "commit") /\ Charge(r, AfterCommit(r))

\* After the "error" event, whether the commit succeeds or not.
Recommit(r) == At(r, "recommit") /\ Charge(r, "error")
RecommitFails(r) ==
  /\ At(r, "recommit")
  /\ req' = [req EXCEPT ![r].pc = "error", ![r].lost = TRUE]
  /\ UNCHANGED <<day, usage, cached, history>>

\* The hash is unique over all users: the second insert throws.
Persist(r) ==
  /\ At(r, "persist")
  /\ IF cached[req[r].hash] = NoUser
       THEN /\ cached' = [cached EXCEPT ![req[r].hash] = req[r].usr]
            /\ Goto(r, "done")
       ELSE /\ Goto(r, OnError(r))
            /\ UNCHANGED cached
  /\ UNCHANGED <<day, usage, history>>

\* The answer is stored; the "done" event throws if the client has left.
Answer(r) ==
  /\ At(r, "answer")
  /\ answers' = answers \cup {r}
  /\ \E step \in {"done", OnError(r)} : Goto(r, step)
  /\ UNCHANGED <<day, usage, cached, turns>>

-----------------------------------------------------------------------------
\* Mutant: the turn of the user stays.
TurnsKept(r) == turns

TurnsWithout(r) == turns \ {r}

\* The user's turn is deleted, or the deletion fails and is logged.
Compensate(r) ==
  /\ At(r, "compensate")
  /\ \/ turns' = TurnsWithout(r) /\ Goto(r, "refund")
     \/ req' = [req EXCEPT ![r].pc = "refund", ![r].lost = TRUE] /\ UNCHANGED turns
  /\ UNCHANGED <<day, usage, cached, answers>>

\* Mutant: the reservation is not marked as given back.
RefundAgain(r) == Today(r) \in rows

\* What updateMany finds to decrement: nothing twice, and today's row only.
Refundable(r) == req[r].consumed /\ Today(r) \in rows

\* tryRefund, once per request; then the "error" event, which throws into the
\* catch block if the client has left.
Refund(r) ==
  /\ At(r, "refund")
  /\ \E step \in {"error"} \cup (IF req[r].consumed THEN {"compensate"} ELSE {}) :
     \E fails \in (IF req[r].consumed THEN BOOLEAN ELSE {FALSE}) :
       /\ req' = [req EXCEPT ![r].pc = step, ![r].consumed = FALSE,
                             ![r].lost = @ \/ fails]
       /\ followUpCount' = IF Refundable(r) /\ ~fails
                             THEN [followUpCount EXCEPT ![Today(r)] = @ - 1]
                             ELSE followUpCount
  /\ UNCHANGED <<day, rows, interpretationCount, cached, history>>

\* The process stops.
Crash(r) ==
  /\ req[r].pc \in Steps \ {"idle"}
  /\ Goto(r, "gone")
  /\ UNCHANGED <<day, usage, cached, history>>

Midnight ==
  /\ day < MaxDay
  /\ day' = day + 1
  /\ UNCHANGED <<usage, cached, history, req>>

Arrive(r) ==
  \E u \in Users :
    \/ \E h \in Hashes : Interpret(r, u, h) \/ FollowUp(r, u, h)
    \/ ArcanaInterpret(r, u) \/ HoroscopeInterpret(r, u)

RouteStep(r) ==
  \/ IncrementFollowUp(r) \/ Ask(r)
  \/ Token(r) \/ StreamEnds(r) \/ Throw(r) \/ Cancel(r)
  \/ Commit(r) \/ Recommit(r) \/ RecommitFails(r) \/ Persist(r)
  \/ Answer(r) \/ Compensate(r) \/ Refund(r)

Next == (\E r \in Requests : Arrive(r) \/ RouteStep(r) \/ Crash(r)) \/ Midnight

Spec == Init /\ [][Next]_vars

-----------------------------------------------------------------------------
\* The questions counted for u, over the days.
FollowUpsOf(u) ==
  LET upTo[d \in 0..MaxDay] == followUpCount[<<u, d>>] + (IF d = 0 THEN 0 ELSE upTo[d - 1])
  IN upTo[MaxDay]
Reserved(u) == {r \in Requests : req[r].usr = u /\ req[r].consumed}

(* What the client saw decides what it pays: an interpretation that ends    *)
(* with "done" costs one, a follow-up that does costs its reservation and   *)
(* no interpretation, and an error before the first token costs nothing.    *)
ChargedAsAnswered ==
  \A r \in Requests :
    /\ At(r, "done") => /\ req[r].got
                        /\ IF IsFollowUp(r) THEN req[r].charges = 0 /\ req[r].consumed
                                            ELSE req[r].charges = 1
    /\ At(r, "error") /\ ~req[r].got => req[r].charges = 0 /\ ~req[r].consumed

(* The follow-up counters cover every reservation that was not given back,  *)
(* and nothing else unless a refund failed or missed its row at midnight.   *)
FollowUpsAccounted ==
  \A u \in Users :
    /\ FollowUpsOf(u) >= Cardinality(Reserved(u))
    /\ day = 0 /\ (\A r \in Requests : ~req[r].lost)
         => FollowUpsOf(u) = Cardinality(Reserved(u))

(* The conversation keeps no turn of a request that failed before its first *)
(* token (a retry would repeat it), and no answer without its question.     *)
NoTurnToRepeat ==
  /\ answers \subseteq turns
  /\ \A r \in turns : At(r, "error") /\ ~req[r].lost => req[r].got

(* What the cache serves was streamed to its end, to the user it belongs    *)
(* to, and was charged.                                                     *)
CacheIsWhole ==
  \A h \in Hashes : cached[h] # NoUser =>
    \E r \in Requests : /\ At(r, "done") /\ req[r].charges = 1
                        /\ req[r].hash = h /\ req[r].usr = cached[h]

(* docs/04-api/ai.md:779: the quota is reserved before the stream opens, so *)
(* that parallel requests never pass the daily limit together.              *)
LimitKept == \A p \in UserDays : interpretationCount[p] <= Limit
=============================================================================
