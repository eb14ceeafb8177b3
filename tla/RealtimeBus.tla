----------------------------- MODULE RealtimeBus -----------------------------
(***************************************************************************)
(* The Redis side of the event bus in one process (socket-service/src/     *)
(* bus.ts): the shared connection attempt redisReady, the pub and sub      *)
(* clients it leaves, which never reconnect by themselves, and the timer   *)
(* that replaces a dead sub.  Callers that wait on a promise run before    *)
(* any other event of the process, and the two subscriptions of the boot   *)
(* are made in one go (Quiet).                                             *)
(***************************************************************************)
EXTENDS Naturals, FiniteSets

CONSTANTS Attempts,            \* bound: connection attempts not yet forgotten
          Boot,                \* subscribeRealtime and subscribeAuthKick
          Publishers,          \* publishRealtime, publishAuthKick
          Timers,              \* bound: timer callbacks waiting at once
          MaxFailures,         \* 5
          None

Callers == Boot \cup Publishers \cup Timers

BusAssumption ==
  /\ None \notin Attempts /\ MaxFailures \in Nat
  /\ Boot \cap Publishers = {} /\ Boot \cap Timers = {} /\ Publishers \cap Timers = {}

VARIABLES up,                  \* Redis can be reached
          attempt,             \* connectRedis(): pub, sub, then how it ended
          pubAlive, subAlive,  \* the clients an attempt made
          quitting,            \* discarded subs that were sent QUIT
          subClient, redisReady,
          reconnectTimer,      \* the sub whose close started it, or None
          reconnectFailures,
          caller,              \* ensureRedis() and what it waits for
          started,             \* subscriptions requested at boot
          booted,              \* history: a sub was live once
          shadowed             \* history: it died while another's timer was pending

vars == <<up, attempt, pubAlive, subAlive, quitting, subClient, redisReady, reconnectTimer,
          reconnectFailures, caller, started, booted, shadowed>>

Idle == [pc |-> "idle", on |-> None, sub |-> None]

TypeOK ==
  /\ {up, booted, shadowed} \subseteq BOOLEAN
  /\ attempt \in [Attempts -> {"free", "pub", "sub", "ok", "failed"}]
  /\ pubAlive \subseteq Attempts /\ subAlive \subseteq Attempts /\ quitting \subseteq subAlive
  /\ {subClient, redisReady, reconnectTimer} \subseteq Attempts \cup {None}
  /\ reconnectFailures \in 0 .. MaxFailures + 1
  /\ caller \in [Callers -> [pc : {"idle", "ready", "result"}, on : Attempts \cup {None},
                             sub : Attempts \cup {None}]]
  /\ started \subseteq Boot

Init ==
  /\ up \in BOOLEAN
  /\ attempt = [a \in Attempts |-> "free"]
  /\ pubAlive = {} /\ subAlive = {} /\ quitting = {}
  /\ subClient = None /\ redisReady = None
  /\ reconnectTimer = None /\ reconnectFailures = 0
  /\ caller = [c \in Callers |-> Idle]
  /\ started = {} /\ booted = FALSE /\ shadowed = FALSE

-----------------------------------------------------------------------------
(* ensureRedis()                                                           *)

Settled(a) == attempt[a] \in {"ok", "failed"}
Runnable(c) == caller[c].pc # "idle" /\ Settled(caller[c].on)
Quiet == started \in {{}, Boot} /\ \A c \in Callers : ~Runnable(c)

\* An attempt nobody can refer to any more may be used again.
Forgotten(a) ==
  /\ Settled(a) \/ attempt[a] = "free"
  /\ a \notin {subClient, redisReady, reconnectTimer} \cup subAlive
  /\ \A c \in Callers : a \notin {caller[c].on, caller[c].sub}

\* Caller c finds the shared attempt, or starts one.
JoinAttempt(c, sub, ready) ==
  IF ready # None
    THEN /\ caller' = [caller EXCEPT ![c] = [pc |-> "result", on |-> ready, sub |-> sub]]
         /\ redisReady' = ready
         /\ UNCHANGED <<attempt, pubAlive>>
    ELSE LET fresh == {a \in Attempts : Forgotten(a)} IN
           /\ fresh # {}
           /\ LET a == CHOOSE a \in fresh : TRUE IN
                /\ attempt' = [attempt EXCEPT ![a] = "pub"]
                /\ redisReady' = a
                /\ pubAlive' = pubAlive \ {a}
                /\ caller' = [caller EXCEPT ![c] = [pc |-> "result", on |-> a, sub |-> sub]]

\* Mutant: an attempt that is still pending is not shared.
EnsureAlone(c, sub) == JoinAttempt(c, sub, None)

EnsureRedis(c, sub) ==
  IF redisReady = None
    THEN JoinAttempt(c, sub, None)
    ELSE /\ caller' = [caller EXCEPT ![c] = [pc |-> "ready", on |-> redisReady, sub |-> sub]]
         /\ UNCHANGED <<attempt, redisReady, pubAlive>>

\* Mutant: clients that died are kept.
NeverDead(a) == FALSE

IsBusClientDead(a) ==
  \/ attempt[a] = "ok" /\ a \notin pubAlive
  \/ subClient # None /\ subClient \notin subAlive

\* The promise settled: dead clients are discarded; QUIT closes what is left of them.
Resume(c) ==
  /\ caller[c].pc = "ready" /\ Runnable(c)
  /\ IF IsBusClientDead(caller[c].on)
       THEN /\ subClient' = None
            /\ quitting' = quitting \cup (subAlive \cap {subClient})
            /\ JoinAttempt(c, caller[c].sub, None)
       ELSE /\ JoinAttempt(c, caller[c].sub, redisReady)
            /\ UNCHANGED <<subClient, quitting>>
  /\ UNCHANGED <<up, subAlive, reconnectTimer, reconnectFailures, started, booted, shadowed>>

-----------------------------------------------------------------------------
(* The timer                                                               *)

\* Mutant: a sub that is no longer the client never reconnects.
ScheduleStrict(sub, timer, current) ==
  IF timer # None \/ sub # current THEN timer ELSE sub

\* scheduleBusReconnect(sub), given the timer and the current sub.
ScheduleBusReconnect(sub, timer, current) ==
  IF timer # None \/ (current # None /\ sub # current) THEN timer ELSE sub

TimerFires ==
  /\ Quiet /\ reconnectTimer # None
  /\ reconnectTimer' = None
  /\ IF subClient # None /\ reconnectTimer # subClient
       THEN UNCHANGED <<attempt, redisReady, pubAlive, caller>>
       ELSE LET free == {t \in Timers : caller[t].pc = "idle"} IN
              free # {} /\ EnsureRedis(CHOOSE t \in free : TRUE, reconnectTimer)
  /\ UNCHANGED <<up, subAlive, quitting, subClient, reconnectFailures, started, booted, shadowed>>

\* ensureRedis returned or threw; the timer counts its failures.
Result(c) ==
  /\ caller[c].pc = "result" /\ Runnable(c)
  /\ LET failed == attempt[caller[c].on] = "failed"
         failures == IF reconnectFailures > MaxFailures
                       THEN reconnectFailures ELSE reconnectFailures + 1
     IN  IF c \notin Timers
           THEN UNCHANGED <<reconnectFailures, reconnectTimer>>
           ELSE /\ reconnectFailures' = (IF failed THEN failures ELSE 0)
                /\ reconnectTimer' =
                     IF failed /\ failures <= MaxFailures
                       THEN ScheduleBusReconnect(caller[c].sub, reconnectTimer, subClient)
                       ELSE reconnectTimer
  /\ caller' = [caller EXCEPT ![c] = Idle]
  /\ UNCHANGED <<up, attempt, pubAlive, subAlive, quitting, subClient, redisReady, started,
                 booted, shadowed>>

-----------------------------------------------------------------------------
(* The callers and the connections                                         *)

Subscribe(c) ==
  /\ c \in Boot \ started
  /\ started' = started \cup {c}
  /\ EnsureRedis(c, None)
  /\ UNCHANGED <<up, subAlive, quitting, subClient, reconnectTimer, reconnectFailures, booted, shadowed>>

Publish(c) ==
  /\ Quiet /\ c \in Publishers /\ started = Boot /\ caller[c].pc = "idle"
  /\ EnsureRedis(c, None)
  /\ UNCHANGED <<up, subAlive, quitting, subClient, reconnectTimer, reconnectFailures, started, booted, shadowed>>

PubConnects(a) ==
  /\ Quiet /\ attempt[a] = "pub" /\ up
  /\ attempt' = [attempt EXCEPT ![a] = "sub"]
  /\ UNCHANGED <<up, pubAlive, subAlive, quitting, subClient, redisReady, reconnectTimer,
                 reconnectFailures, caller, started, booted, shadowed>>

SubConnects(a) ==
  /\ Quiet /\ attempt[a] = "sub" /\ up
  /\ attempt' = [attempt EXCEPT ![a] = "ok"]
  /\ pubAlive' = pubAlive \cup {a} /\ subAlive' = subAlive \cup {a}
  /\ subClient' = a
  /\ booted' = TRUE /\ shadowed' = FALSE
  /\ UNCHANGED <<up, quitting, redisReady, reconnectTimer, reconnectFailures, caller, started>>

\* A step of connectRedis fails; a sub that existed closes, and its handler runs.
AttemptFails(a) ==
  /\ Quiet /\ attempt[a] \in {"pub", "sub"}
  /\ attempt' = [attempt EXCEPT ![a] = "failed"]
  /\ redisReady' = IF redisReady = a THEN None ELSE redisReady
  /\ reconnectTimer' = IF attempt[a] = "sub"
                         THEN ScheduleBusReconnect(a, reconnectTimer, subClient)
                         ELSE reconnectTimer
  /\ UNCHANGED <<up, pubAlive, subAlive, quitting, subClient, reconnectFailures, caller, started,
                 booted, shadowed>>

\* ECONNRESET, or Redis goes away: close and end of the sub.
SubDies(a) ==
  /\ Quiet /\ a \in subAlive
  /\ subAlive' = subAlive \ {a} /\ quitting' = quitting \ {a}
  /\ reconnectTimer' = ScheduleBusReconnect(a, reconnectTimer, subClient)
  /\ shadowed' = (shadowed \/ (a = subClient /\ reconnectTimer \notin {None, a}))
  /\ UNCHANGED <<up, attempt, pubAlive, subClient, redisReady, reconnectFailures, caller,
                 started, booted>>

PubDies(a) ==
  /\ Quiet /\ a \in pubAlive
  /\ pubAlive' = pubAlive \ {a}
  /\ UNCHANGED <<up, attempt, subAlive, quitting, subClient, redisReady, reconnectTimer,
                 reconnectFailures, caller, started, booted, shadowed>>

RedisChanges ==
  /\ up' = ~up
  /\ UNCHANGED <<attempt, pubAlive, subAlive, quitting, subClient, redisReady,
                 reconnectTimer, reconnectFailures, caller, started, booted, shadowed>>

Next ==
  \/ \E c \in Callers : Resume(c) \/ Result(c)
  \/ \E c \in Boot : Subscribe(c)
  \/ \E c \in Publishers : Publish(c)
  \/ \E a \in Attempts : \/ PubConnects(a) \/ SubConnects(a) \/ AttemptFails(a)
                         \/ SubDies(a) \/ PubDies(a)
  \/ TimerFires \/ RedisChanges

Spec == Init /\ [][Next]_vars

-----------------------------------------------------------------------------
(* Properties                                                              *)

\* Every message reaches the handlers once: however subscribes, publishes, timers
\* and deaths interleave, one sub of the process is subscribed at a time.
OneSub == Cardinality(subAlive \ quitting) <= 1

\* Once the bus was live it never gives up by itself: without a sub a timer is
\* pending or its attempt under way, unless Redis failed MaxFailures times in a row,
\* or the sub died while the timer of an older one was pending, which finds a newer
\* client and does nothing.
BusAwake ==
  booted /\ subAlive = {} /\ ~shadowed /\ reconnectFailures <= MaxFailures =>
    reconnectTimer # None \/ \E t \in Timers : caller[t].pc # "idle"

=============================================================================
