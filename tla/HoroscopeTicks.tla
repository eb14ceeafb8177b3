---------------------------- MODULE HoroscopeTicks ----------------------------
(***************************************************************************)
(* The hourly tick of services/worker/index.ts and the notifications it    *)
(* creates (jobs/horoscope-notifications.ts): a catch-up at boot, a timer  *)
(* that is armed again when its tick has ended, a boundary that finds a    *)
(* tick in flight and is run again after it, and the shutdown on a signal. *)
(*                                                                         *)
(* Time is counted in hours.  A tick reads the hour and the date once and  *)
(* then awaits the database for every subscription, so the clock may move  *)
(* under it.  A timer fires within the hour it is due in.                  *)
(***************************************************************************)
EXTENDS Integers, FiniteSets

CONSTANTS Users,
          Systems,             \* western, chinese, maya
          HoursPerDay,
          MaxHour,             \* bound: the last hour
          TickHours            \* bound: boundaries that pass during one tick

HourAssumption == HoursPerDay \in Nat \ {0} /\ MaxHour \in Nat /\ TickHours \in Nat

VARIABLES now,                 \* hours since the epoch
          proc,                \* the process of services/worker
          timer,               \* tickTimer: the hour it is due, or NoTimer
          tick,                \* tickInFlight
          pendingTick,
          hour,                \* HoroscopeNotification.hour, or NoHour: no row
          enabled,             \* the toggles whose sign can be resolved
          notes,               \* Notification rows by the day of createdAt
          owed                 \* history: hours begun and not yet served

vars == <<now, proc, timer, tick, pendingTick, hour, enabled, notes, owed>>

Subs == Users \X Systems
Hours == 0..(HoursPerDay - 1)
Days == 0..(MaxHour \div HoursPerDay)
NoTimer == 0
NoHour == HoursPerDay

\* rearm: scheduleTick runs when the chain of ticks ends.
NoTick == [pc |-> "idle", hour |-> 0, date |-> 0, todo |-> {}, sub |-> {},
           rearm |-> FALSE, crossed |-> 0]
Tick == [pc : {"idle", "load", "scan", "create"}, hour : Hours, date : Days,
         todo : SUBSET Subs, sub : SUBSET Subs, rearm : BOOLEAN, crossed : 0..TickHours]

TypeOK ==
  /\ now \in 0..MaxHour
  /\ proc \in {"up", "closing", "closed", "down"}
  /\ timer \in 0..(MaxHour + 1)
  /\ tick \in Tick
  /\ pendingTick \in BOOLEAN
  /\ hour \in [Users -> Hours \cup {NoHour}]
  /\ enabled \subseteq Subs
  /\ notes \in [Subs -> [Days -> 0..1]]
  /\ owed \subseteq Subs \X BOOLEAN

Init ==
  /\ now = 0 /\ proc = "down" /\ timer = NoTimer /\ tick = NoTick
  /\ pendingTick = FALSE /\ owed = {}
  /\ hour = [u \in Users |-> NoHour] /\ enabled = {}
  /\ notes = [s \in Subs |-> [d \in Days |-> 0]]

-----------------------------------------------------------------------------
(* Time and settings                                                       *)

civilHourBrt == now % HoursPerDay
civilDateBrt == now \div HoursPerDay
msUntilNextHourTick == now + 1

DueAt(h) == {s \in enabled : hour[s[1]] = h}

\* The timer has run out and waits for the event loop.
Expired == timer # NoTimer /\ timer = now

\* An hour begins: who wants a notification now is owed one, marked TRUE when
\* a timer is armed for this boundary.
Clock ==
  /\ now < MaxHour
  /\ ~Expired
  /\ tick.pc # "idle" => tick.crossed < TickHours
  /\ now' = now + 1
  /\ tick' = IF tick.pc = "idle" THEN tick ELSE [tick EXCEPT !.crossed = @ + 1]
  /\ owed' = IF proc # "up" THEN owed
             ELSE owed \cup (DueAt(now' % HoursPerDay) \X {timer = now'})
  /\ UNCHANGED <<proc, timer, pendingTick, hour, enabled, notes>>

WithoutUser(u) == {o \in owed : o[1][1] # u}

\* PATCH /horoscopes/notifications/settings: an upsert of the given fields.
Patch(u) ==
  /\ \E h \in Hours : hour' = [hour EXCEPT ![u] = h]
  /\ \E on \in SUBSET Systems :
       enabled' = {s \in enabled : s[1] # u} \cup ({u} \X on)
  /\ owed' = WithoutUser(u)
  /\ UNCHANGED <<now, proc, timer, tick, pendingTick, notes>>

-----------------------------------------------------------------------------
(* The timer and the chain of ticks                                        *)

\* runHoroscopeNotifications reads the clock before its first await.
StartTick(rearm) ==
  [NoTick EXCEPT !.pc = "load", !.hour = civilHourBrt, !.date = civilDateBrt,
                 !.rearm = rearm]

\* main: the catch-up is not awaited and the timer is armed beside it.
Boot ==
  /\ proc = "down"
  /\ proc' = "up"
  /\ tick' = StartTick(FALSE)
  /\ timer' = msUntilNextHourTick
  /\ pendingTick' = FALSE
  /\ owed' = {}
  /\ UNCHANGED <<now, hour, enabled, notes>>

\* Mutant: a boundary that finds a tick in flight is dropped.
FireAndForget ==
  /\ Expired /\ proc # "down"
  /\ IF tick.pc = "idle"
       THEN tick' = StartTick(TRUE) /\ timer' = NoTimer
       ELSE tick' = tick /\ timer' = msUntilNextHourTick
  /\ UNCHANGED <<now, proc, pendingTick, hour, enabled, notes, owed>>

\* A boundary starts a tick, or asks the one in flight for another run: that
\* call returns at once, so the timer is armed again at once.
Fire ==
  /\ Expired /\ proc # "down"
  /\ IF tick.pc = "idle"
       THEN tick' = StartTick(TRUE) /\ timer' = NoTimer /\ UNCHANGED pendingTick
       ELSE tick' = tick /\ timer' = msUntilNextHourTick /\ pendingTick' = TRUE
  /\ UNCHANGED <<now, proc, hour, enabled, notes, owed>>

\* Mutant: every chain of ticks arms the timer at its end.
AfterTickRearms ==
  IF pendingTick
    THEN tick' = StartTick(tick.rearm) /\ pendingTick' = FALSE /\ UNCHANGED timer
    ELSE tick' = NoTick /\ timer' = msUntilNextHourTick /\ UNCHANGED pendingTick

\* runTick after its tick: once more if a boundary asked, else back to the
\* timer if the chain came from it.
AfterTick ==
  IF pendingTick
    THEN tick' = StartTick(tick.rearm) /\ pendingTick' = FALSE /\ UNCHANGED timer
    ELSE /\ tick' = NoTick /\ UNCHANGED pendingTick
         /\ timer' = IF tick.rearm THEN msUntilNextHourTick ELSE timer

-----------------------------------------------------------------------------
(* runHoroscopeNotifications                                               *)

Load ==
  /\ tick.pc = "load"
  /\ tick' = [tick EXCEPT !.pc = "scan", !.todo = DueAt(tick.hour)]
  /\ UNCHANGED <<now, proc, timer, pendingTick, hour, enabled, notes, owed>>

\* Mutant: the row of the day is not looked for.
NeverNotified(s) == FALSE

\* createdAt >= brtDayStartUtc(date)
Notified(s) == \E d \in Days : d >= tick.date /\ notes[s][d] > 0

Served(s) == {o \in owed : o[1] # s}

Scan ==
  /\ tick.pc = "scan"
  /\ \E s \in tick.todo :
       IF Notified(s)
         THEN /\ tick' = [tick EXCEPT !.todo = @ \ {s}]
              /\ owed' = Served(s)
         ELSE /\ tick' = [tick EXCEPT !.pc = "create", !.todo = @ \ {s}, !.sub = {s}]
              /\ UNCHANGED owed
  /\ UNCHANGED <<now, proc, timer, pendingTick, hour, enabled, notes>>

Create ==
  /\ tick.pc = "create"
  /\ \E s \in tick.sub :
       /\ notes' = [notes EXCEPT ![s][civilDateBrt] = @ + 1]
       /\ owed' = Served(s)
  /\ tick' = [tick EXCEPT !.pc = "scan", !.sub = {}]
  /\ UNCHANGED <<now, proc, timer, pendingTick, hour, enabled>>

TickEnds ==
  /\ tick.pc = "scan" /\ tick.todo = {}
  /\ AfterTick
  /\ UNCHANGED <<now, proc, hour, enabled, notes, owed>>

\* Any await may throw; the rest of the hour's users is given up.
TickFails ==
  /\ tick.pc # "idle"
  /\ AfterTick
  /\ owed' = {}
  /\ UNCHANGED <<now, proc, hour, enabled, notes>>

-----------------------------------------------------------------------------
(* The end of the process                                                  *)

Signal ==
  /\ proc = "up"
  /\ proc' = "closing" /\ timer' = NoTimer /\ owed' = {}
  /\ UNCHANGED <<now, tick, pendingTick, hour, enabled, notes>>

\* The tick in flight has ended, or the ten seconds of grace have passed;
\* then worker.close().
Drain ==
  /\ proc = "closing"
  /\ proc' = "closed"
  /\ UNCHANGED <<now, timer, tick, pendingTick, hour, enabled, notes, owed>>

Volatile == /\ proc' = "down" /\ timer' = NoTimer /\ tick' = NoTick
            /\ pendingTick' = FALSE /\ owed' = {}

\* The event loop is empty.
Exit ==
  /\ proc = "closed" /\ tick.pc = "idle" /\ timer = NoTimer
  /\ Volatile
  /\ UNCHANGED <<now, hour, enabled, notes>>

Kill ==
  /\ proc # "down"
  /\ Volatile
  /\ UNCHANGED <<now, hour, enabled, notes>>

-----------------------------------------------------------------------------
Run == Load \/ Scan \/ Create \/ TickEnds

Next == \/ Clock \/ Boot \/ Fire \/ Run \/ TickFails
        \/ Signal \/ Drain \/ Exit \/ Kill
        \/ \E u \in Users : Patch(u)

Fairness == WF_vars(Run) /\ WF_vars(Drain) /\ WF_vars(Exit)

Spec == Init /\ [][Next]_vars /\ Fairness

-----------------------------------------------------------------------------
(* Properties                                                              *)

\* A user has at most one horoscope notification per system created on a
\* civil day, whatever ticks, catch-ups, changes of hour and restarts meet
\* (the look-up before notification.create).
OncePerDay == TypeOK /\ \A s \in Subs : \A d \in Days : notes[s][d] <= 1

Quiet == proc = "up" /\ tick.pc = "idle" /\ timer > now

\* An hour that begins with the timer armed is served once the ticks are
\* through, also when the boundary finds the catch-up of the boot in flight
\* (pendingTick) or two catch-ups overlap midnight.
HourServed == Quiet => \A s \in Subs : <<s, TRUE>> \notin owed

\* After a signal the process ends by itself, unless a tick of the timer is in
\* flight: its end arms the timer again (the last lines of main).
ShutdownEnds ==
  (proc = "closing" /\ timer = NoTimer /\ ~tick.rearm) ~> (proc = "down")
=============================================================================
