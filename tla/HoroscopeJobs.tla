---------------------------- MODULE HoroscopeJobs ----------------------------
(***************************************************************************)
(* The generation of horoscopes: the daily cron (jobs/horoscope-generation *)
(* .ts) puts jobs in the BullMQ queue horoscope-generation, the runs of    *)
(* services/worker (jobs/horoscope-worker.ts) take them, ask the AI and    *)
(* store one HoroscopeContent row per sign, period and date.               *)
(*                                                                         *)
(* Each step of a run ends at an await.  Any of them may fail, a run may   *)
(* lose the lock of its job (it is renewed in Redis while the AI answers), *)
(* and the process may stop; the queue then hands the job out again.  Days *)
(* are numbers, and a period's row key is the number of the period.        *)
(***************************************************************************)
EXTENDS Integers, FiniteSets

CONSTANTS Signs,
          Periods,             \* daily, weekly, monthly
          Length,              \* days in one of each period
          Slots,               \* the worker's concurrency
          Crons,               \* invocations of the cron that may overlap
          Attempts,            \* attempts of a job (3)
          KeepFailed,          \* days a failed job stays in the queue (7)
          MaxDay               \* bound: the last civil day

PeriodAssumption == Length \in [Periods -> Nat \ {0}]
QueueAssumption == Attempts \in Nat \ {0} /\ KeepFailed \in Nat /\ MaxDay \in Nat

\* A row tells the answer of a run from nothing and from the template.
SlotAssumption == Slots \cap {"none", "fallback"} = {}

VARIABLES day,                 \* civilDateBrt()
          rows,                \* HoroscopeContent.content by its unique key
          job,                 \* the queue, by job id
          run,                 \* the runs of processHoroscopeJob
          cron,                \* the invocations of the cron
          lost                 \* keys for which a create failed

vars == <<day, rows, job, run, cron, lost>>

Days == 0..MaxDay
Keys == Signs \X Periods \X Days

\* A row is absent, holds the template, or what a run had generated.
Contents == {"none", "fallback"} \cup Slots
Generated(content) == content \in Slots

NoJob == [state |-> "absent", date |-> 0, tries |-> 0, stalls |-> 0, at |-> 0]
Job == [state : {"absent", "waiting", "active", "completed", "failed"},
        date : Days,           \* of the payload
        tries : 0..Attempts,   \* attemptsMade
        stalls : 0..2,         \* times it was found without a lock
        at : Days]             \* finishedOn

Ends == {"idle", "generated", "skipped", "fallback"}    \* HoroscopeJobResult
NoRun == [pc |-> "idle", id |-> <<>>, date |-> 0, content |-> "none", lock |-> FALSE]
Run == [pc : Ends \cup {"find", "generate", "guard", "update", "create"},
        id : Keys \cup {<<>>}, date : Days, content : Contents, lock : BOOLEAN]

NoCron == [date |-> 0, periods |-> {}, pending |-> {}]
Cron == [date : Days, periods : SUBSET Periods, pending : SUBSET (Signs \X Periods)]

TypeOK ==
  /\ day \in Days
  /\ rows \in [Keys -> Contents]
  /\ job \in [Keys -> Job]
  /\ run \in [Slots -> Run]
  /\ cron \in [Crons -> Cron]
  /\ lost \subseteq Keys

\* prisma/seed.ts may have stored templates for any row.
Init ==
  /\ day = 0
  /\ rows \in [Keys -> {"none", "fallback"}]
  /\ job = [j \in Keys |-> NoJob]
  /\ run = [s \in Slots |-> NoRun]
  /\ cron = [c \in Crons |-> NoCron]
  /\ lost = {}

-----------------------------------------------------------------------------
periodRowKey(p, date) == date \div Length[p]
RowKey(id, date) == <<id[1], id[2], periodRowKey(id[2], date)>>

\* Mutant: one job per day, whatever the period.
FlatJobId(sign, p, date) == <<sign, p, date>>

\* buildHoroscopeJobOptions: the id names the row, not the day.
JobId(sign, p, date) == <<sign, p, periodRowKey(p, date)>>

CronIdle(c) == cron[c].periods = {} /\ cron[c].pending = {}

CronStart(c) ==
  /\ CronIdle(c)
  /\ cron' = [cron EXCEPT ![c].date = day, ![c].periods = Periods]
  /\ UNCHANGED <<day, rows, job, run, lost>>

\* The rows of one period are read before any of its jobs is enqueued.
CronRead(c) ==
  /\ cron[c].pending = {}
  /\ \E p \in cron[c].periods :
       cron' = [cron EXCEPT ![c].periods = @ \ {p},
                  ![c].pending = {<<sign, p>> : sign \in {sg \in Signs :
                     ~Generated(rows[<<sg, p, periodRowKey(p, cron[c].date)>>])}}]
  /\ UNCHANGED <<day, rows, job, run, lost>>

\* Queue.add: nothing happens if a job with this id is still kept.
CronEnqueue(c) ==
  \E next \in cron[c].pending :
    LET id == JobId(next[1], next[2], cron[c].date) IN
    /\ cron' = [cron EXCEPT ![c].pending = @ \ {next}]
    /\ job' = IF job[id].state # "absent" THEN job
              ELSE [job EXCEPT ![id] = [state |-> "waiting", date |-> cron[c].date,
                                        tries |-> 0, stalls |-> 0, at |-> 0]]
    /\ UNCHANGED <<day, rows, run, lost>>

\* Redis or Postgres refuses: the cron answers 500, the rest is not enqueued.
CronFails(c) ==
  /\ ~CronIdle(c)
  /\ cron' = [cron EXCEPT ![c] = NoCron]
  /\ UNCHANGED <<day, rows, job, run, lost>>

-----------------------------------------------------------------------------
At(s, step) == run[s].pc = step
Goto(s, step) == run' = [run EXCEPT ![s].pc = step]
Free(s) == run[s].pc \in Ends
Row(s) == RowKey(run[s].id, run[s].date)

Start(s) ==
  /\ Free(s)
  /\ \E j \in Keys :
       /\ job[j].state = "waiting"
       /\ job' = [job EXCEPT ![j].state = "active"]
       /\ run' = [run EXCEPT ![s] = [pc |-> "find", id |-> j, date |-> job[j].date,
                                     content |-> "none", lock |-> TRUE]]
  /\ UNCHANGED <<day, rows, cron, lost>>

\* The run returns: its job is completed, if its lock is still held.
Return(s, status) ==
  /\ run' = [run EXCEPT ![s] = [pc |-> status, id |-> run[s].id, date |-> run[s].date,
                                content |-> "none", lock |-> FALSE]]
  /\ job' = IF run[s].lock
              THEN [job EXCEPT ![run[s].id].state = "completed", ![run[s].id].at = day]
              ELSE job

\* Mutant: the attempts are not counted.
TryAgain(j) == [job[j] EXCEPT !.state = "waiting"]

\* A failed attempt: the job waits for the next one, or has had its last.
AfterFailure(j) ==
  IF job[j].tries + 1 < Attempts
    THEN [job[j] EXCEPT !.state = "waiting", !.tries = @ + 1]
    ELSE [job[j] EXCEPT !.state = "failed", !.tries = Attempts, !.at = day]

\* The run throws, at an await outside the try block.
Throw(s) ==
  /\ \/ run[s].pc \in {"find", "guard"}
     \/ At(s, "update") /\ run[s].content = "fallback"
  /\ run' = [run EXCEPT ![s] = NoRun]
  /\ job' = IF run[s].lock THEN [job EXCEPT ![run[s].id] = AfterFailure(run[s].id)]
                           ELSE job
  /\ UNCHANGED <<day, rows, cron, lost>>

Find(s) ==
  /\ At(s, "find")
  /\ IF Generated(rows[Row(s)]) THEN Return(s, "skipped")
                                ELSE Goto(s, "generate") /\ UNCHANGED job
  /\ UNCHANGED <<day, rows, cron, lost>>

\* generateAiContent: a valid answer, or an error of any kind.
Generate(s) ==
  /\ At(s, "generate")
  /\ \/ run' = [run EXCEPT ![s].pc = "update", ![s].content = s]
     \/ Goto(s, "guard")
  /\ UNCHANGED <<day, rows, job, cron, lost>>

\* What was generated cannot be stored: an error like the AI's.
UpdateFails(s) ==
  /\ At(s, "update") /\ Generated(run[s].content)
  /\ run' = [run EXCEPT ![s].pc = "guard", ![s].content = "none"]
  /\ UNCHANGED <<day, rows, job, cron, lost>>

\* Mutant: a run that failed leaves the row to the next one.
GiveUp(s) ==
  /\ At(s, "guard")
  /\ Return(s, "skipped")
  /\ UNCHANGED <<day, rows, cron, lost>>

\* The catch block looks again before it stores the template.
Guard(s) ==
  /\ At(s, "guard")
  /\ IF Generated(rows[Row(s)])
       THEN Return(s, "skipped")
       ELSE /\ run' = [run EXCEPT ![s].pc = "update", ![s].content = "fallback"]
            /\ UNCHANGED job
  /\ UNCHANGED <<day, rows, cron, lost>>

-----------------------------------------------------------------------------
Status(s) == IF Generated(run[s].content) THEN "generated" ELSE "fallback"

\* Mutant: the row is updated whatever it holds.
UpdatesAny(r) == rows[r] # "none"

\* persistContent: the updateMany takes the place of a template only ...
Updates(r) == rows[r] = "fallback"

Update(s) ==
  /\ At(s, "update")
  /\ IF Updates(Row(s))
       THEN rows' = [rows EXCEPT ![Row(s)] = run[s].content] /\ Return(s, Status(s))
       ELSE Goto(s, "create") /\ UNCHANGED <<rows, job>>
  /\ UNCHANGED <<day, cron, lost>>

\* ... the create fails on the unique index if the row is there by now, and
\* any error of the create is taken for that one.
Create(s) ==
  /\ At(s, "create")
  /\ \/ /\ rows' = IF rows[Row(s)] = "none"
                     THEN [rows EXCEPT ![Row(s)] = run[s].content] ELSE rows
        /\ UNCHANGED lost
     \/ lost' = lost \cup {Row(s)} /\ UNCHANGED rows
  /\ Return(s, Status(s))
  /\ UNCHANGED <<day, cron>>

\* The lock of a run cannot be renewed in time; the run does not notice.
LockExpires(s) ==
  /\ run[s].lock
  /\ run' = [run EXCEPT ![s].lock = FALSE]
  /\ UNCHANGED <<day, rows, job, cron, lost>>

\* Mutant: a job that stalls is handed out again for ever.
HandOut(j) == [job[j] EXCEPT !.state = "waiting", !.stalls = @ + 1]

\* BullMQ hands a job without a lock out again, and gives it up the next time.
AfterStall(j) ==
  IF job[j].stalls = 0
    THEN [job[j] EXCEPT !.state = "waiting", !.stalls = 1]
    ELSE [job[j] EXCEPT !.state = "failed", !.stalls = 2, !.at = day]

Stalled(j) ==
  /\ job[j].state = "active"
  /\ \A s \in Slots : ~(run[s].id = j /\ run[s].lock)
  /\ job' = [job EXCEPT ![j] = AfterStall(j)]
  /\ UNCHANGED <<day, rows, run, cron, lost>>

\* The process of the worker stops and is started again.
Crash ==
  /\ \E s \in Slots : ~Free(s)
  /\ run' = [s \in Slots |-> NoRun]
  /\ UNCHANGED <<day, rows, job, cron, lost>>

\* removeOnComplete and removeOnFail: finished jobs are forgotten by age.
Forget(j) ==
  /\ \/ job[j].state = "completed" /\ job[j].at + 1 <= day
     \/ job[j].state = "failed" /\ job[j].at + KeepFailed <= day
  /\ job' = [job EXCEPT ![j] = NoJob]
  /\ UNCHANGED <<day, rows, run, cron, lost>>

Midnight ==
  /\ day < MaxDay
  /\ day' = day + 1
  /\ UNCHANGED <<rows, job, run, cron, lost>>

RunStep(s) == \/ Find(s) \/ Generate(s) \/ UpdateFails(s) \/ Guard(s)
              \/ Update(s) \/ Create(s) \/ Throw(s)

Next ==
  \/ \E c \in Crons : CronStart(c) \/ CronRead(c) \/ CronEnqueue(c) \/ CronFails(c)
  \/ \E s \in Slots : Start(s) \/ RunStep(s) \/ LockExpires(s)
  \/ \E j \in Keys : Stalled(j) \/ Forget(j)
  \/ Crash \/ Midnight

(* The worker runs all the time: a run goes on (the AI has a timeout of 120 *)
(* seconds), a free slot takes the next job, and BullMQ looks for stalled   *)
(* jobs every 30 seconds.                                                   *)
Fairness ==
  /\ \A s \in Slots : WF_vars(RunStep(s)) /\ WF_vars(Start(s))
  /\ \A j \in Keys : WF_vars(Stalled(j))

Spec == Init /\ [][Next]_vars /\ Fairness

-----------------------------------------------------------------------------
(* horoscope-worker.ts:166-167: generated content is never overwritten, by  *)
(* a template or by another answer, however late a run stores its own.      *)
GeneratedStays ==
  [][\A r \in Keys : Generated(rows[r]) => rows'[r] = rows[r]]_rows

(* horoscope-queue.ts:56-58: jobs of the same row never run at once, though *)
(* a week's row is asked for every day, unless one has lost its lock.       *)
OneRunPerRow ==
  \A s, t \in Slots : run[s].lock /\ run[t].lock /\ Row(s) = Row(t) => s = t

(* A completed job leaves its row readable, be it only as a template, save  *)
(* where an error of the create itself was swallowed.                       *)
CompletedHasRow ==
  \A j \in Keys : job[j].state = "completed" =>
    LET r == RowKey(j, job[j].date) IN rows[r] # "none" \/ r \in lost

(* A job that was enqueued is done with one day, completed or failed, in    *)
(* spite of crashes, lost locks and failed attempts.                        *)
JobsEnd ==
  \A j \in Keys : job[j].state = "waiting" ~> job[j].state \in {"completed", "failed"}
=============================================================================
