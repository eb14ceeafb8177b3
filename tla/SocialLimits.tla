---------------------------- MODULE SocialLimits ----------------------------
(***************************************************************************)
(* The limits of the social actions of one user: lib/social/limits.ts and  *)
(* enforceSocialLimit of lib/middleware/rate-limit.ts.  A limit is kept in *)
(* a sorted set of Redis, pruned, counted and extended by one script; a    *)
(* limit by the minute slides, a limit by the day starts at midnight UTC.  *)
(* While Redis fails, posts are counted in the database and likes pass.    *)
(*                                                                         *)
(* The likes stand for the limits by the minute (comment, follow, polling, *)
(* notification), the posts for those by the day with a table (gift).      *)
(***************************************************************************)
EXTENDS Integers, FiniteSets

CONSTANTS
  Requests,  \* requests of the user: each takes one action
  MaxLikes, MaxPosts,  \* their limits
  Window,    \* length of the window of likes
  Day,       \* length of a day
  MaxTime,   \* bound on the clock
  MaxOutages \* bound on the failures of Redis

LimitsAssumption ==
  {Window, Day, MaxTime} \subseteq Nat \ {0} /\ {MaxLikes, MaxPosts} \subseteq Nat

Limits == {"like", "post"}
MaxOf(l) == IF l = "post" THEN MaxPosts ELSE MaxLikes

VARIABLES
  now,      \* the clock; midnight is a multiple of Day
  redis,    \* Redis answers
  zset,     \* the sorted sets: their members are requests, with their scores
  posts,    \* createdAt of the post each request created
  passed,   \* history: the requests let through, by limit and house, and when
  pc,       \* "new", "allowed", "done"
  outages

vars == <<now, redis, zset, posts, passed, pc, outages>>

Init ==
  /\ now = 1 /\ redis = TRUE
  /\ zset = [l \in Limits |-> {}]
  /\ posts = {} /\ passed = {}
  /\ pc = [r \in Requests |-> "new"]
  /\ outages = 0

startOfUtcDay(t) == t - (t % Day)

(* RATE_LIMIT_SCRIPT: entries up to the bound go, the rest is counted, and  *)
(* the request is added if there is room.                                   *)
PruneBefore(l) == IF l = "post" THEN startOfUtcDay(now) ELSE now - Window

KeptOneLess(l) == {e \in zset[l] : e.at > PruneBefore(l) + 1}

Kept(l) == {e \in zset[l] : e.at > PruneBefore(l)}

AnyRoom(l) == Cardinality(Kept(l)) <= MaxOf(l)

Room(l) == Cardinality(Kept(l)) < MaxOf(l)

(* dailyFallback: the posts of the day in the database; likes pass.         *)
PostsToday == {p \in posts : p.at >= startOfUtcDay(now)}

Bypass(l) == l = "post" => Cardinality(PostsToday) < MaxPosts

Pass(r, l, house) ==
  /\ passed' = passed \cup {[by |-> r, limit |-> l, house |-> house, at |-> now]}
  /\ pc' = [pc EXCEPT ![r] = IF l = "post" THEN "allowed" ELSE "done"]

Refuse(r) == pc' = [pc EXCEPT ![r] = "done"] /\ UNCHANGED passed

(* checkSocialLimit of a request, by the script ...                         *)
CheckInRedis(r, l) ==
  /\ pc[r] = "new" /\ redis
  /\ IF Room(l)
     THEN /\ zset' = [zset EXCEPT ![l] = Kept(l) \cup {[by |-> r, at |-> now]}]
          /\ Pass(r, l, "redis")
     ELSE /\ zset' = [zset EXCEPT ![l] = Kept(l)]
          /\ Refuse(r)
  /\ UNCHANGED <<now, redis, posts, outages>>

(* ... or in the database, when Redis fails.                                *)
CheckInDatabase(r, l) ==
  /\ pc[r] = "new" /\ ~redis
  /\ IF Bypass(l) THEN Pass(r, l, "database") ELSE Refuse(r)
  /\ UNCHANGED <<now, redis, zset, posts, outages>>

(* The post is created, or the request fails after the check.               *)
CreatePost(r) ==
  /\ pc[r] = "allowed"
  /\ pc' = [pc EXCEPT ![r] = "done"]
  /\ \/ posts' = posts \cup {[by |-> r, at |-> now]}
     \/ UNCHANGED posts
  /\ UNCHANGED <<now, redis, zset, passed, outages>>

Tick ==
  /\ now < MaxTime
  /\ now' = now + 1
  /\ UNCHANGED <<redis, zset, posts, passed, pc, outages>>

Outage ==
  /\ IF redis THEN outages < MaxOutages /\ outages' = outages + 1 ELSE UNCHANGED outages
  /\ redis' = ~redis
  /\ UNCHANGED <<now, zset, posts, passed, pc>>

Next ==
  \/ \E r \in Requests :
       \/ \E l \in Limits : CheckInRedis(r, l) \/ CheckInDatabase(r, l)
       \/ CreatePost(r)
  \/ Tick \/ Outage

Spec == Init /\ [][Next]_vars

-----------------------------------------------------------------------------
TypeOK ==
  /\ now \in 1..MaxTime /\ redis \in BOOLEAN
  /\ \A l \in Limits : zset[l] \subseteq [by : Requests, at : 1..now]
  /\ posts \subseteq [by : Requests, at : 1..now]

PassedIn(l, house, from, to) ==
  Cardinality({p \in passed : p.limit = l /\ p.house = house /\ p.at \in from..to})

(* In no stretch of time of the length of the window are more likes let     *)
(* through by Redis than the limit, across outages in which it counts none. *)
SlidingWindow ==
  \A t \in 1..now : PassedIn("like", "redis", t - Window + 1, t) <= MaxLikes

(* On no day, not counting the instant of midnight, does Redis let through  *)
(* more posts than the limit.                                               *)
DailyCapAfterMidnight ==
  \A d \in {startOfUtcDay(t) : t \in 1..now} :
    PassedIn("post", "redis", d + 1, d + Day - 1) <= MaxPosts

=============================================================================
