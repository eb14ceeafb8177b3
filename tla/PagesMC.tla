------------------------------ MODULE PagesMC ------------------------------
(***************************************************************************)
(* The pages in one run: the composer of posts ("composer"), the limits of *)
(* likes and posts ("limits"), the counters of attempts ("attempts"), the  *)
(* pages of the feed ("feed"), the section of comments ("comments"), the   *)
(* pill of new posts ("pill"), the draw of a reading ("draw"), the panel   *)
(* that asks for its interpretation ("panel"), and the bus on which the    *)
(* server publishes ("bus").  They meet only over HTTP and messages and    *)
(* keep no state together: part says which one a behaviour runs, the       *)
(* others stay as they began.                                              *)
(***************************************************************************)
EXTENDS PostComposer

CONSTANTS None,
          LimitRequests, MaxLikes, MaxPosts, Window, Day, LimitTime, MaxOutages,
          AttemptRequests, Emails, Ips, AttemptWindow, AttemptLimit, LinkLimit,
          MaxIpAdmin, AttemptTime,
          FeedPosts, OldPosts, Pinned, Take, CacheTake, MaxChanges, MaxRetries,
          Comments, OldComments, CommentLimit,
          NewPosts, PillTime,
          Decks, Spreads, CardCount, DayLimit, MaxDraws, DrawSeq,
          MaxSeq, MaxVisits, MaxAsks, StrictMode,
          Attempts, Boot, Publishers, Timers, MaxFailures

VARIABLES
  part,
  limitNow, redis, zset, limitPosts, passed, pc, outages,
  attemptNow, counters, attempts, linksPassed,
  feedOpen, private, cache, making, feedPages, steady, feedFetch, changes, retries,
  rows, written, posting, acked, postComments, pages, fetch, likes, likePending, latest,
  pillNow, created, told, ids, timer, since, flights, pill, furthest, requeued,
  store, view, draw, drawn, raced,
  key, mounted, visits, seq, lock, delivered, call, aborted, isStreaming, answer,
  interpretationId, error, messages, followUp, asks, stored, lost, shown,
  up, attempt, pubAlive, subAlive, quitting, subClient, redisReady, reconnectTimer,
  reconnectFailures, caller, started, booted, shadowed

L == INSTANCE SocialLimits
       WITH Requests <- LimitRequests, MaxTime <- LimitTime, now <- limitNow, posts <- limitPosts
AttemptKeys == {"login", "link", "register"} \X (Emails \cup Ips)
MCWindow == [k \in AttemptKeys |-> AttemptWindow]
\* An address has a higher limit than a mailbox, and links one than guesses.
MCMaxOf == [k \in AttemptKeys |-> (IF k[1] = "link" THEN LinkLimit ELSE AttemptLimit)
                                   + (IF k[2] \in Ips THEN 1 ELSE 0)]

A == INSTANCE AttemptCounters
       WITH Requests <- AttemptRequests, MaxTime <- AttemptTime, Window <- MCWindow,
            MaxOf <- MCMaxOf, now <- attemptNow, store <- counters, req <- attempts,
            passed <- linksPassed
F == INSTANCE FeedPages
       WITH Posts <- FeedPosts, Old <- OldPosts, open <- feedOpen,
            pages <- feedPages, fetch <- feedFetch
C == INSTANCE CommentSection WITH Old <- OldComments, Limit <- CommentLimit
N == INSTANCE FeedPill WITH Posts <- NewPosts, MaxTime <- PillTime, now <- pillNow
D == INSTANCE ReadingSession
       WITH Limit <- DayLimit, MaxSeq <- DrawSeq, created <- drawn
P == INSTANCE ReadingPanel WITH content <- answer, told <- shown
B == INSTANCE RealtimeBus

ASSUME PagesAssumption == /\ L!LimitsAssumption /\ A!AttemptAssumption
                           /\ F!FeedAssumption /\ C!CommentAssumption
                           /\ D!SessionAssumption
                           /\ P!PanelAssumption /\ B!BusAssumption

limitVars == <<limitNow, redis, zset, limitPosts, passed, pc, outages>>
attemptVars == <<attemptNow, counters, attempts, linksPassed>>
feedVars == <<feedOpen, private, cache, making, feedPages, steady, feedFetch, changes, retries>>
commentVars == <<rows, written, posting, acked, postComments, pages, fetch, likes,
                 likePending, latest>>
pillVars == <<pillNow, created, told, ids, timer, since, flights, pill, furthest, requeued>>
drawVars == <<store, view, draw, drawn, raced>>
panelVars == <<key, mounted, visits, seq, lock, delivered, call, aborted, isStreaming,
               answer, interpretationId, error, messages, followUp, asks, stored, lost, shown>>
busVars == <<up, attempt, pubAlive, subAlive, quitting, subClient, redisReady,
             reconnectTimer, reconnectFailures, caller, started, booted, shadowed>>

InitMC ==
  /\ part \in {"limits", "attempts", "feed", "comments", "pill", "composer", "draw", "panel", "bus"}
  /\ Init /\ L!Init /\ A!Init /\ F!Init /\ C!Init /\ N!Init /\ D!Init /\ P!Init /\ B!Init
  /\ part # "feed" => private = {}
  /\ part # "bus" => up

NextMC ==
  /\ \/ /\ part = "composer" /\ Next
        /\ UNCHANGED <<limitVars, attemptVars, feedVars, commentVars, pillVars, drawVars, panelVars, busVars>>
     \/ /\ part = "limits" /\ L!Next
        /\ UNCHANGED <<vars, attemptVars, feedVars, commentVars, pillVars, drawVars, panelVars, busVars>>
     \/ /\ part = "attempts" /\ A!Next
        /\ UNCHANGED <<vars, limitVars, feedVars, commentVars, pillVars, drawVars, panelVars, busVars>>
     \/ /\ part = "feed" /\ F!Next
        /\ UNCHANGED <<vars, limitVars, attemptVars, commentVars, pillVars, drawVars, panelVars, busVars>>
     \/ /\ part = "comments" /\ C!Next
        /\ UNCHANGED <<vars, limitVars, attemptVars, feedVars, pillVars, drawVars, panelVars, busVars>>
     \/ /\ part = "pill" /\ N!Next
        /\ UNCHANGED <<vars, limitVars, attemptVars, feedVars, commentVars, drawVars, panelVars, busVars>>
     \/ /\ part = "draw" /\ D!Next
        /\ UNCHANGED <<vars, limitVars, attemptVars, feedVars, commentVars, pillVars, panelVars, busVars>>
     \/ /\ part = "panel" /\ P!Next
        /\ UNCHANGED <<vars, limitVars, attemptVars, feedVars, commentVars, pillVars, drawVars, busVars>>
     \/ /\ part = "bus" /\ B!Next
        /\ UNCHANGED <<vars, limitVars, attemptVars, feedVars, commentVars, pillVars, drawVars, panelVars>>
  /\ UNCHANGED part

SpecMC == InitMC /\ [][NextMC]_<<vars, limitVars, attemptVars, feedVars, commentVars, pillVars,
                                 drawVars, panelVars, busVars, part>>

-----------------------------------------------------------------------------
(* Redis lets no more likes through in any window than the limit, nor posts *)
(* on a day past the instant of midnight, across its outages; the counters  *)
(* in memory let less than twice their limit through in a window, and       *)
(* guesses pass it only by overlapping.                                     *)
LimitsSound ==
  /\ part = "limits" => L!TypeOK /\ L!SlidingWindow /\ L!DailyCapAfterMidnight
  /\ part = "attempts" => A!TypeOK /\ A!BelowTwice /\ A!OvershootBounded

(* Scrolling serves every post once, skips none that was visible all along, *)
(* and comes to an end.                                                     *)
FeedSound ==
  part = "feed" => F!TypeOK /\ F!ServedOnce /\ F!NoneSkipped /\ F!CursorMoves

(* The reader's acknowledged comment stays on the screen, and the button of *)
(* the comment liked last waits for a request in flight.                    *)
CommentsSound ==
  part = "comments" => C!TypeOK /\ C!AcknowledgedShown /\ C!LatestLikeInFlight

(* Announced posts wait with a timer until they are in the pill, or behind  *)
(* its window.                                                              *)
PillSound == part = "pill" => N!EventsAwaited

(* A post carries exactly images that were stored, no image chosen is lost  *)
(* from sight, and a draft is posted once unless an answer was lost.        *)
ComposerSound ==
  TypeOK /\ PostsAreWhole /\ ImagesAccounted /\ PostedOnce

(* The session shows the cards of its own draw, turns all of them, waits    *)
(* only for a request in flight, and passes the day's limit only by a race. *)
DrawSound ==
  part = "draw" => /\ D!TypeOK /\ D!OwnCards /\ D!EveryCardTurns
                   /\ D!DrawInFlight /\ D!LimitPassedByRace

(* One stream and one answer at a time, the conversation shown is the one   *)
(* the server keeps, and only a panel that told something leaves its key.   *)
PanelSound ==
  part = "panel" => /\ P!TypeOK /\ P!OneStream /\ P!OneAnswer
                    /\ P!HistoryMirrored /\ P!KeyMeansTold

(* One subscription of the process at a time, and a bus that lost it is     *)
(* always on its way back.                                                  *)
BusSound == part = "bus" => B!TypeOK /\ B!OneSub /\ B!BusAwake
=============================================================================
