------------------------------ MODULE Scheduler ------------------------------
(***************************************************************************)
(* SchedulerService (packages/server/src/automation/scheduler.ts), the     *)
(* schedules table it works on (packages/storage/src/schedules.ts) and the *)
(* schedule.* RPC methods that edit the table while runs are in flight     *)
(* (packages/server/src/gateway/rpc/methods/schedule.ts).                  *)
(*                                                                         *)
(* Time is a clock of whole minutes modulo Cycle.  A cron expression is    *)
(* the period it fires with (a divisor of Cycle), or NeverFires for one    *)
(* that nextRunAt() finds no match for; next_run_at is the number of       *)
(* minutes until that time, 0 when it is reached or past.                  *)
(***************************************************************************)
EXTENDS Integers, FiniteSets

CONSTANTS Ids,          \* schedule ids
          Periods,      \* cron expressions, as firing periods in minutes
          Cycle,        \* the clock's modulus
          MaxFailures,  \* maxConsecutiveFailures
          FailureCap    \* consecutive_failures saturates here

NeverFires == 0
NoTime == -1            \* next_run_at IS NULL

SchedulerAssumption ==
    /\ Cycle \in Nat \ {0}
    /\ Periods \subseteq 0..Cycle
    /\ \A p \in Periods \ {NeverFires} : Cycle % p = 0
    /\ MaxFailures \in Nat \ {0}
    /\ FailureCap \in Nat /\ FailureCap >= MaxFailures

VARIABLES proc,   \* the process: "up", "stopping", "down" or "crashed"
          clock,  \* the minute, modulo Cycle
          row,    \* the schedules table; survives a restart
          run     \* per schedule: what active, the lane and runOne() know

schedulerVars == <<proc, clock, row, run>>

-----------------------------------------------------------------------------
Absent == [there |-> FALSE]
Rows == [there : {TRUE}, cron : Periods, enabled : BOOLEAN,
         status : {"active", "failing", "disabled"},
         failures : 0..FailureCap, next : {NoTime} \cup 0..Cycle]

\* runOne() works on the schedule it was called with: its cron is a snapshot.
NoRun == [phase |-> "none"]
LlmRun(cron, manual) == [phase |-> "llm", cron |-> cron, manual |-> manual]
Delivering == [phase |-> "deliver"]
Runs == [phase : {"llm"}, cron : Periods, manual : BOOLEAN]
        \cup {NoRun, Delivering}

IsActive(s) == run[s].phase # "none"
Exists(s) == row[s].there

\* The lane scheduleLane is entered under this key (lane.acquire(s.id)), and
\* it admits one run per key.  The active set already keeps a second run of
\* the same schedule away, so acquire() never waits.
LaneKey(s) == s

\* nextRunAt(): minutes to the next firing, strictly after now.
NextRunAt(cron, now) ==
    IF cron = NeverFires THEN NoTime ELSE cron - (now % cron)

Elapse(next) == IF next > 0 THEN next - 1 ELSE next

\* The table one minute later.
Aged(s) == IF Exists(s) THEN [row[s] EXCEPT !.next = Elapse(@)] ELSE row[s]

\* findDueSchedules()
IsDue(r) == /\ r.there /\ r.enabled
            /\ r.status # "disabled"
            /\ r.next = 0

-----------------------------------------------------------------------------
SchedulerInit == /\ proc = "up"
                 /\ clock = 0
                 /\ row = [s \in Ids |-> Absent]
                 /\ run = [s \in Ids |-> NoRun]

NextMinute == (clock + 1) % Cycle

\* Faulty variant: next_run_at is moved when the run starts.
TickMovesFirst ==
    /\ proc = "up"
    /\ clock' = NextMinute
    /\ row' = [s \in Ids |->
                 IF IsDue(Aged(s))
                   THEN [row[s] EXCEPT !.next = NextRunAt(row[s].cron, NextMinute)]
                   ELSE Aged(s)]
    /\ run' = [s \in Ids |-> IF IsDue(Aged(s)) /\ ~IsActive(s)
                               THEN LlmRun(row[s].cron, FALSE) ELSE run[s]]
    /\ UNCHANGED proc

\* The setInterval callback, a minute after the last: every due schedule is
\* started, and one that still runs is put off to its next firing.
Tick ==
    /\ proc = "up"
    /\ clock' = NextMinute
    /\ row' = [s \in Ids |->
                 IF IsDue(Aged(s)) /\ IsActive(s)
                   THEN [row[s] EXCEPT !.next = NextRunAt(row[s].cron, NextMinute)]
                   ELSE Aged(s)]
    /\ run' = [s \in Ids |->
                 IF IsDue(Aged(s)) /\ ~IsActive(s)
                   THEN LlmRun(row[s].cron, FALSE)
                   ELSE run[s]]
    /\ UNCHANGED proc

\* A minute in which nobody polls: stop() has cleared the timers, or the
\* process is gone.
QuietMinute ==
    /\ proc # "up"
    /\ clock' = NextMinute
    /\ row' = [s \in Ids |-> Aged(s)]
    /\ UNCHANGED <<proc, run>>

\* schedule.runNow -> triggerNow() -> runOne(); a schedule that is already
\* running answers runId null and nothing changes.
RunNow(s) ==
    /\ proc = "up"
    /\ Exists(s)
    /\ ~IsActive(s)
    /\ run' = [run EXCEPT ![s] = LlmRun(row[s].cron, TRUE)]
    /\ UNCHANGED <<proc, clock, row>>

\* The row as runOne() rewrites it when the agent run is over: markScheduleRun
\* with the time computed from the snapshot, then the failure count of the
\* row as it is now.
AfterSuccess(r, cron) ==
    [r EXCEPT !.next = NextRunAt(cron, clock), !.failures = 0, !.status = "active"]

\* Faulty variant: auto-disable sets the status but not enabled.
AfterFailureStatusOnly(r, cron) ==
    LET failures == r.failures + 1 IN
    [r EXCEPT !.next = NextRunAt(cron, clock),
              !.failures = IF failures > FailureCap THEN FailureCap ELSE failures,
              !.status = IF failures >= MaxFailures THEN "disabled" ELSE "failing"]

AfterFailure(r, cron) ==
    LET failures == r.failures + 1
        shouldDisable == failures >= MaxFailures IN
    [r EXCEPT !.next = NextRunAt(cron, clock),
              !.failures = IF failures > FailureCap THEN FailureCap ELSE failures,
              !.status = IF shouldDisable THEN "disabled" ELSE "failing",
              !.enabled = @ /\ ~shouldDisable]

\* The agent run is over (ok: with an answer; otherwise an error, the timeout
\* abort included) and the row is still there.
Finish(s, ok) ==
    /\ run[s].phase = "llm"
    /\ proc \in {"up", "stopping"}
    /\ Exists(s)
    /\ row' = [row EXCEPT ![s] = IF ok THEN AfterSuccess(@, run[s].cron)
                                       ELSE AfterFailure(@, run[s].cron)]
    /\ run' = [run EXCEPT ![s] = Delivering]
    /\ UNCHANGED <<proc, clock>>

\* The agent run is over and its row was deleted meanwhile.  Linking the new
\* agent_runs row to the schedule breaks the foreign key, in the try block and
\* again in the catch block, so runOne() rejects: to the caller of runNow, or,
\* for a run the poller started with void, to nobody, which ends the process.
FinishDeleted(s) ==
    /\ run[s].phase = "llm"
    /\ proc \in {"up", "stopping"}
    /\ ~Exists(s)
    /\ IF run[s].manual
         THEN /\ run' = [run EXCEPT ![s] = NoRun]
              /\ UNCHANGED proc
         ELSE /\ run' = [t \in Ids |-> NoRun]
              /\ proc' = "crashed"
    /\ UNCHANGED <<clock, row>>

\* onRunComplete() settles, its error swallowed; then the finally block frees
\* the lane and takes the schedule out of the active set.
Delivered(s) ==
    /\ run[s].phase = "deliver"
    /\ proc \in {"up", "stopping"}
    /\ run' = [run EXCEPT ![s] = NoRun]
    /\ UNCHANGED <<proc, clock, row>>

-----------------------------------------------------------------------------
\* schedule.create
Create(s, cron, enabled) ==
    /\ proc = "up"
    /\ ~Exists(s) /\ ~IsActive(s)      \* ids are fresh UUIDs
    /\ row' = [row EXCEPT ![s] =
                 [there |-> TRUE, cron |-> cron, enabled |-> enabled,
                  status |-> "active", failures |-> 0,
                  next |-> NextRunAt(cron, clock)]]
    /\ UNCHANGED <<proc, clock, run>>

Edit(s, new) ==
    /\ proc = "up"
    /\ Exists(s)
    /\ row' = [row EXCEPT ![s] = new]
    /\ UNCHANGED <<proc, clock, run>>

\* Faulty variant: next_run_at is left as it was.
WithCronOnly(r, cron) == [r EXCEPT !.cron = cron]

\* schedule.update, the part for a new cron: next_run_at follows it.
WithCron(r, cron) == [r EXCEPT !.cron = cron, !.next = NextRunAt(cron, clock)]

\* Faulty variant: the failure count survives switching the schedule on.
WithEnabledKeepsFailures(r, on) ==
    IF on THEN [r EXCEPT !.enabled = TRUE, !.status = "active"]
          ELSE [r EXCEPT !.enabled = FALSE]

\* schedule.update, the part for enabled.
WithEnabled(r, on) ==
    IF on THEN [r EXCEPT !.enabled = TRUE, !.status = "active", !.failures = 0]
          ELSE [r EXCEPT !.enabled = FALSE]

\* schedule.update with cron, enabled or both.
Update(s) ==
    \/ \E cron \in Periods : Edit(s, WithCron(row[s], cron))
    \/ \E on \in BOOLEAN : Edit(s, WithEnabled(row[s], on))
    \/ \E cron \in Periods, on \in BOOLEAN :
          Edit(s, WithEnabled(WithCron(row[s], cron), on))

\* schedule.disable
Disable(s) == Edit(s, [row[s] EXCEPT !.enabled = FALSE])

\* schedule.enable recomputes next_run_at as well.
Enable(s) ==
    Edit(s, [row[s] EXCEPT !.enabled = TRUE, !.status = "active", !.failures = 0,
                           !.next = NextRunAt(row[s].cron, clock)])

\* schedule.delete
Delete(s) == Edit(s, Absent)

-----------------------------------------------------------------------------
\* stop(): no further tick; the gateway, and with it the RPC methods, was
\* stopped before (shutdown runs the cleanups last in, first out).
Stop == /\ proc = "up"
        /\ proc' = "stopping"
        /\ UNCHANGED <<clock, row, run>>

\* stop() returns when no run is left, or after 60 seconds regardless, and the
\* process exits.  It may also be killed at any time.
Exit == /\ proc \in {"up", "stopping"}
        /\ proc' = "down"
        /\ run' = [s \in Ids |-> NoRun]
        /\ UNCHANGED <<clock, row>>

Restart == /\ proc \in {"down", "crashed"}
           /\ proc' = "up"
           /\ UNCHANGED <<clock, row, run>>

RunStep(s) == \/ \E ok \in BOOLEAN : Finish(s, ok)
              \/ FinishDeleted(s)
              \/ Delivered(s)

UserStep(s) == \/ RunNow(s)
               \/ \E cron \in Periods, on \in BOOLEAN : Create(s, cron, on)
               \/ Update(s)
               \/ Disable(s)
               \/ Enable(s)
               \/ Delete(s)

SchedulerNext == \/ Tick
                 \/ QuietMinute
                 \/ Stop
                 \/ Exit
                 \/ Restart
                 \/ \E s \in Ids : RunStep(s) \/ UserStep(s)

SchedulerSpec == SchedulerInit /\ [][SchedulerNext]_schedulerVars

\* The interval timer keeps firing, every agent run ends (the abort timer cuts
\* it off), and every delivery settles.  Nothing is assumed of the users, nor
\* of restarts.
SchedulerFairSpec == /\ SchedulerSpec
                     /\ WF_schedulerVars(Tick)
                     /\ \A s \in Ids : WF_schedulerVars(RunStep(s))

-----------------------------------------------------------------------------
\* The columns and the state of runs have their types; a next_run_at is never
\* further away than one cycle of the clock.
SchedulerTypeOK == /\ proc \in {"up", "stopping", "down", "crashed"}
                   /\ clock \in 0..(Cycle - 1)
                   /\ row \in [Ids -> Rows \cup {Absent}]
                   /\ run \in [Ids -> Runs]

\* The three columns that say how a schedule is doing agree, whatever mixture
\* of runs (scheduled or manual, of enabled or disabled schedules), edits and
\* restarts wrote them: the count decides the status, and a schedule that was
\* switched off for failing is not enabled.
HealthConsistent ==
    /\ SchedulerTypeOK
    /\ \A s \in Ids : Exists(s) =>
         /\ row[s].status = "active" <=> row[s].failures = 0
         /\ row[s].status = "disabled" <=> row[s].failures >= MaxFailures
         /\ row[s].status = "disabled" => ~row[s].enabled

\* A firing is executed once by a live process: when a run ends, or when a tick
\* finds it still going, its schedule is not left due.
FiringConsumed ==
    [][\A s \in Ids : IsDue(row[s])'
          => /\ ~(run[s].phase = "llm" /\ run'[s].phase = "deliver")
             /\ ~(proc = "up" /\ clock' # clock /\ IsActive(s))]_schedulerVars

\* A crash loses no firing: until a run is recorded (or a tick finds it still
\* going, or a user moves it) a due schedule stays due.
DueSurvives ==
    [][\A s \in Ids : (IsDue(row[s]) /\ Exists(s)' /\ row'[s].next # 0)
          => \/ IsActive(s)
             \/ row'[s].next = NextRunAt(row'[s].cron, clock) /\ run'[s] = run[s]]_schedulerVars

\* Both: each firing is executed by one run, whatever is killed or still going.
\* (scheduler.ts:316: runOne, and tick)
FiringsKept == FiringConsumed /\ DueSurvives

\* next_run_at drifts away from the cron expression in one way only: a run that
\* started before the expression was changed writes the time of its old one.
OnTime(s) == Exists(s) /\ row[s].cron # NeverFires
               => row[s].next # NoTime /\ row[s].next <= NextRunAt(row[s].cron, clock)

OnlyStaleRunDelays ==
    [][\A s \in Ids : OnTime(s) /\ ~OnTime(s)'
          => run[s].phase = "llm" /\ run[s].cron # row[s].cron]_schedulerVars

\* An enabled schedule that fires at all and is left alone is run again and
\* again, also when its runs take longer than its period.
KeepsRunning ==
    \A s \in Ids :
      <>[](proc = "up" /\ Exists(s) /\ row[s].enabled /\ row[s].next # NoTime
             /\ row[s].cron # NeverFires)
        => []<>(run[s].phase = "llm")

-----------------------------------------------------------------------------
\* "race: deleted schedule, only the update is skipped" (scheduler.ts:335): a
\* run whose schedule is gone ends like any other, with its delivery.
DeletedOnlySkipsUpdate == proc # "crashed"
=============================================================================
