---------------------------- MODULE HoroscopesMC ----------------------------
(***************************************************************************)
(* The three parts of the horoscopes in one run: the calendars that signs  *)
(* and keys are computed from ("calendar"), the queue that generates rows  *)
(* ("jobs") and the worker's hourly notifications ("ticks").  They share   *)
(* no state: part says which one a behaviour runs, the others stay as they *)
(* began.                                                                  *)
(***************************************************************************)
EXTENDS Signs

CONSTANTS JobSigns, JobPeriods, Slots, Crons, Attempts, KeepFailed, MaxDay,
          Users, TickSystems, HoursPerDay, MaxHour, TickHours

VARIABLES part,
          day, rows, job, run, cron, lost,
          now, proc, timer, tick, pendingTick, hour, enabled, notes, owed

\* A round of sixty years, with 2000.
MCYears == 1978..2037

\* Letters by their place in the alphabet, 0 for a space (A, "", ANA, ZIR ZIRZI).
MCNames == {<<>>, <<0>>, <<1, 14, 1>>, <<26, 9, 18, 0, 26, 9, 18, 26, 9>>}

\* Days in a week, shortened.
MCLength == [p \in JobPeriods |-> 2]

Jobs == INSTANCE HoroscopeJobs WITH Signs <- JobSigns, Periods <- JobPeriods,
                                    Length <- MCLength
Ticks == INSTANCE HoroscopeTicks WITH Systems <- TickSystems

ASSUME HoroscopesAssumption == /\ Jobs!PeriodAssumption /\ Jobs!QueueAssumption
                               /\ Jobs!SlotAssumption /\ Ticks!HourAssumption

jobVars == <<day, rows, job, run, cron, lost>>
tickVars == <<now, proc, timer, tick, pendingTick, hour, enabled, notes, owed>>

\* The bound on days leaves the later periods of Keys unused.
Reached(k) == k[3] \in {Jobs!periodRowKey(k[2], d) : d \in Jobs!Days}

InitMC == /\ part \in {"calendar", "jobs", "ticks"}
          /\ Init /\ Jobs!Init /\ Ticks!Init
          /\ part # "calendar" => date = Day(1978, 1, 1)
          /\ \A k \in Jobs!Keys :
               part # "jobs" \/ ~Reached(k) => rows[k] = "none"

NextMC == /\ \/ part = "calendar" /\ Next /\ UNCHANGED <<jobVars, tickVars>>
             \/ part = "jobs" /\ Jobs!Next /\ UNCHANGED <<date, tickVars>>
             \/ part = "ticks" /\ Ticks!Next /\ UNCHANGED <<date, jobVars>>
          /\ UNCHANGED part

\* The fairness of HoroscopeJobs!Spec and HoroscopeTicks!Spec.
FairnessMC ==
  /\ \A s \in Slots : /\ WF_jobVars(part = "jobs" /\ Jobs!RunStep(s))
                      /\ WF_jobVars(part = "jobs" /\ Jobs!Start(s))
  /\ \A j \in Jobs!Keys : WF_jobVars(part = "jobs" /\ Jobs!Stalled(j))
  /\ WF_tickVars(part = "ticks" /\ Ticks!Run)
  /\ WF_tickVars(part = "ticks" /\ Ticks!Drain)
  /\ WF_tickVars(part = "ticks" /\ Ticks!Exit)

SpecMC == InitMC /\ [][NextMC]_<<date, jobVars, tickVars, part>> /\ FairnessMC

-----------------------------------------------------------------------------
(* Runs of the same row never overlap unless a lock was lost, and what the  *)
(* queue calls completed can be read.                                       *)
JobsSound ==
  part = "jobs" => Jobs!TypeOK /\ Jobs!OneRunPerRow /\ Jobs!CompletedHasRow

(* Generated content is never overwritten.                                  *)
GeneratedStays == Jobs!GeneratedStays

(* A job that was enqueued is done with one day, whatever crashes.          *)
JobsEnd == Jobs!JobsEnd

(* At most one notification per user, system and day, and no hour that      *)
(* began with the timer armed is left out, across catch-ups and restarts.   *)
TicksSound == part = "ticks" => Ticks!OncePerDay /\ Ticks!HourServed

(* After a signal the worker's process ends by itself, unless a tick of the *)
(* timer was in flight.                                                     *)
ShutdownEnds == Ticks!ShutdownEnds

(* The readings of any day agree with one another: kin, seal and tone, the  *)
(* wave, the one western sign, a template for every sign, the arcana.       *)
SignsAgreeDaily == part = "calendar" => DayReadsWhole
=============================================================================
