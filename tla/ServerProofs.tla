----------------------------- MODULE ServerProofs -----------------------------
(***************************************************************************)
(* Safety of two parts of the server process.                              *)
(*                                                                         *)
(* Scheduler, for any schedules, periods, clock and limits: the health     *)
(* columns agree, no firing is lost or left over by a run, and only a run  *)
(* that an edit has overtaken delays one.                                  *)
(*                                                                         *)
(* Gateway, for any number of sockets and requests: the page has one way   *)
(* to the server, and the cleanups of a signal cut nothing off.            *)
(***************************************************************************)
EXTENDS Scheduler, Gateway, FiniteSetTheorems, SequenceTheorems, TLAPS

(***************************************************************************)
(* Scheduler.                                                              *)
(***************************************************************************)

\* What a row says of itself: the failure count decides the status.
Healthy(r) == /\ r.status = "active" <=> r.failures = 0
              /\ r.status = "disabled" <=> r.failures >= MaxFailures
              /\ r.status = "disabled" => ~r.enabled

GoodRows == {r \in Rows : Healthy(r)}

-----------------------------------------------------------------------------
\* A step of the clock moves the position within a period by at most one.
LEMMA ModuloStep ==
    ASSUME NEW a \in Nat, NEW c \in Nat \ {0}
    PROVE  (a + 1) % c <= (a % c) + 1
<1> DEFINE q == a \div c
           r == a % c
<1>1. q \in Nat /\ r \in 0..(c - 1) /\ a = c * q + r
  BY SMT
<1>2. CASE r + 1 < c
  BY <1>1, <1>2, SMT
<1>3. CASE r + 1 = c
  BY <1>1, <1>3, SMT
<1> QED
  BY <1>1, <1>2, <1>3

\* nextRunAt() answers a time that lies strictly ahead, at most a period away.
LEMMA NextRunAhead ==
    ASSUME SchedulerAssumption, NEW cron \in Periods, NEW now \in Nat
    PROVE  /\ NextRunAt(cron, now) \in {NoTime} \cup 1..Cycle
           /\ NextRunAt(cron, now) \in {NoTime} \cup 0..Cycle
           /\ NextRunAt(cron, now) # 0
           /\ cron # NeverFires => NextRunAt(cron, now) \in 1..Cycle
<1>1. CASE cron = NeverFires
  BY <1>1 DEF NextRunAt, NoTime
<1>2. CASE cron # NeverFires
  <2>1. cron \in 1..Cycle /\ Cycle \in Nat
    BY <1>2 DEF SchedulerAssumption, NeverFires
  <2>2. now % cron \in 0..(cron - 1)
    BY <2>1
  <2>3. NextRunAt(cron, now) = cron - (now % cron)
    BY <1>2 DEF NextRunAt
  <2>4. NextRunAt(cron, now) \in 1..Cycle
    BY <2>1, <2>2, <2>3
  <2> QED
    BY <2>4
<1> QED
  BY <1>1, <1>2

\* A minute brings a time no nearer than the clock brings the firing.
LEMMA NextRunNears ==
    ASSUME SchedulerAssumption, NEW cron \in Periods \ {NeverFires}, clock \in 0..(Cycle - 1)
    PROVE  NextRunAt(cron, NextMinute) >= NextRunAt(cron, clock) - 1
<1>1. cron \in Nat \ {0} /\ cron # NeverFires /\ Cycle \in Nat \ {0}
  BY DEF SchedulerAssumption, NeverFires
<1>2. CASE clock + 1 < Cycle
  <2>1. NextMinute = clock + 1
    BY <1>1, <1>2 DEF NextMinute
  <2>2. clock \in Nat
    BY <1>1
  <2>3. (clock + 1) % cron <= (clock % cron) + 1
    BY <1>1, <2>2, ModuloStep, Zenon
  <2>4. clock % cron \in Nat /\ (clock + 1) % cron \in Nat
    BY <1>1, <2>2
  <2> QED
    BY <1>1, <2>1, <2>3, <2>4 DEF NextRunAt
<1>3. CASE clock + 1 = Cycle
  <2>1. NextMinute = 0
    BY <1>1, <1>3 DEF NextMinute
  <2>2. 0 % cron = 0 /\ clock % cron \in Nat
    BY <1>1
  <2> QED
    BY <1>1, <2>1, <2>2 DEF NextRunAt
<1> QED
  BY <1>1, <1>2, <1>3

-----------------------------------------------------------------------------
\* A column written with a value of its type leaves a row of the table.
LEMMA ColumnWritten ==
    \A r \in Rows :
        /\ \A n \in {NoTime} \cup 0..Cycle : [r EXCEPT !.next = n] \in Rows
        /\ \A f \in 0..FailureCap : [r EXCEPT !.failures = f] \in Rows
        /\ \A st \in {"active", "failing", "disabled"} : [r EXCEPT !.status = st] \in Rows
        /\ \A e \in BOOLEAN : [r EXCEPT !.enabled = e] \in Rows
        /\ \A c \in Periods : [r EXCEPT !.cron = c] \in Rows
BY DEF Rows

\* The same for the statements that write several columns.
LEMMA ColumnsWritten ==
    ASSUME NEW r \in Rows, NEW n \in {NoTime} \cup 0..Cycle, NEW f \in 0..FailureCap,
           NEW st \in {"active", "failing", "disabled"}, NEW e \in BOOLEAN, NEW c \in Periods
    PROVE  /\ [r EXCEPT !.cron = c, !.next = n] \in Rows
           /\ [r EXCEPT !.next = n, !.failures = f, !.status = st] \in Rows
           /\ [r EXCEPT !.next = n, !.failures = f, !.status = st, !.enabled = e] \in Rows
           /\ [r EXCEPT !.enabled = e, !.status = st, !.failures = f] \in Rows
           /\ [r EXCEPT !.enabled = e, !.status = st, !.failures = f, !.next = n] \in Rows
<1>1. [[r EXCEPT !.cron = c] EXCEPT !.next = n] \in Rows
  BY ColumnWritten
<1>2. [[[r EXCEPT !.next = n] EXCEPT !.failures = f] EXCEPT !.status = st] \in Rows
  BY ColumnWritten
<1>3. [[[[r EXCEPT !.next = n] EXCEPT !.failures = f] EXCEPT !.status = st]
          EXCEPT !.enabled = e] \in Rows
  BY <1>2, ColumnWritten
<1>4. [[[r EXCEPT !.enabled = e] EXCEPT !.status = st] EXCEPT !.failures = f] \in Rows
  BY ColumnWritten
<1>5. [[[[r EXCEPT !.enabled = e] EXCEPT !.status = st] EXCEPT !.failures = f]
          EXCEPT !.next = n] \in Rows
  BY <1>4, ColumnWritten
<1> QED
  BY <1>1, <1>2, <1>3, <1>4, <1>5, Zenon

\* Every edit and the end of every run turn a row whose columns agree into
\* another one.
LEMMA RowsStayGood ==
    ASSUME SchedulerAssumption, clock \in 0..(Cycle - 1),
           NEW r \in GoodRows, NEW cron \in Periods
    PROVE  /\ AfterSuccess(r, cron) \in GoodRows
           /\ AfterFailure(r, cron) \in GoodRows
           /\ WithCron(r, cron) \in GoodRows
           /\ \A on \in BOOLEAN : WithEnabled(r, on) \in GoodRows
           /\ [r EXCEPT !.enabled = FALSE] \in GoodRows
           /\ [r EXCEPT !.next = Elapse(@)] \in GoodRows
           /\ \A now \in Nat : [r EXCEPT !.next = NextRunAt(cron, now)] \in GoodRows
           /\ [r EXCEPT !.enabled = TRUE, !.status = "active", !.failures = 0,
                        !.next = NextRunAt(cron, clock)] \in GoodRows
<1>1. /\ MaxFailures \in Nat \ {0} /\ FailureCap \in Nat /\ FailureCap >= MaxFailures
      /\ Cycle \in Nat \ {0} /\ clock \in Nat
  BY DEF SchedulerAssumption
<1>2. \A now \in Nat : NextRunAt(cron, now) \in {NoTime} \cup 0..Cycle
  BY NextRunAhead
<1>3. r \in Rows /\ Healthy(r)
  BY DEF GoodRows
<1>4. /\ r.enabled \in BOOLEAN /\ r.failures \in 0..FailureCap
      /\ TRUE \in BOOLEAN /\ 0 \in 0..FailureCap /\ "active" \in {"active", "failing", "disabled"}
      /\ NextRunAt(cron, clock) \in {NoTime} \cup 0..Cycle
  BY <1>1, <1>2, <1>3 DEF Rows
<1> DEFINE failures == r.failures + 1
           shouldDisable == failures >= MaxFailures
<1>5. AfterSuccess(r, cron) \in GoodRows
  <2>1. AfterSuccess(r, cron) \in Rows
    BY <1>3, <1>4, ColumnsWritten, Zenon DEF AfterSuccess
  <2>2. AfterSuccess(r, cron).status = "active" /\ AfterSuccess(r, cron).failures = 0
    BY <1>3 DEF AfterSuccess, Rows
  <2> QED
    BY <1>1, <2>1, <2>2 DEF GoodRows, Healthy
<1>6. AfterFailure(r, cron) \in GoodRows
  <2> DEFINE f == IF failures > FailureCap THEN FailureCap ELSE failures
             st == IF shouldDisable THEN "disabled" ELSE "failing"
             e == r.enabled /\ ~shouldDisable
             new == [r EXCEPT !.next = NextRunAt(cron, clock), !.failures = f,
                              !.status = st, !.enabled = e]
  <2>1. AfterFailure(r, cron) = new
    BY DEF AfterFailure
  <2>2. f \in 0..FailureCap /\ f # 0 /\ (f >= MaxFailures <=> shouldDisable)
    BY <1>1, <1>4
  <2>3. st \in {"active", "failing", "disabled"} /\ e \in BOOLEAN
    OBVIOUS
  <2>4. new.failures = f /\ new.status = st /\ new.enabled = e
    BY <1>3 DEF Rows
  <2>5. st # "active" /\ (st = "disabled" <=> shouldDisable) /\ (shouldDisable => ~e)
    OBVIOUS
  <2>6. NextRunAt(cron, clock) \in {NoTime} \cup 0..Cycle
    BY <1>1, <1>2
  <2> HIDE DEF f, st, e
  <2>7. new \in Rows
    BY <1>3, <2>2, <2>3, <2>6, ColumnsWritten, ZenonT(30)
  <2>8. Healthy(new)
    BY <2>2, <2>4, <2>5, Zenon DEF Healthy
  <2> QED
    BY <2>1, <2>7, <2>8 DEF GoodRows
<1>7. WithCron(r, cron) \in GoodRows
  <2>1. WithCron(r, cron) \in Rows
    BY <1>3, <1>4, ColumnsWritten, Zenon DEF WithCron
  <2>2. /\ WithCron(r, cron).status = r.status /\ WithCron(r, cron).enabled = r.enabled
        /\ WithCron(r, cron).failures = r.failures
    BY <1>3 DEF WithCron, Rows
  <2> QED
    BY <1>3, <2>1, <2>2 DEF GoodRows, Healthy
<1>8. ASSUME NEW on \in BOOLEAN PROVE WithEnabled(r, on) \in GoodRows
  <2>1. CASE on = FALSE
    BY <1>3, <2>1 DEF WithEnabled, GoodRows, Rows, Healthy
  <2>2. CASE on = TRUE
    <3> DEFINE new == [r EXCEPT !.enabled = TRUE, !.status = "active", !.failures = 0]
    <3>1. WithEnabled(r, on) = new
      BY <2>2 DEF WithEnabled
    <3>2. new.status = "active" /\ new.failures = 0
      BY <1>3 DEF Rows
    <3>3. new \in Rows
      BY <1>3, <1>4, ColumnsWritten, Zenon
    <3> HIDE DEF new
    <3> QED
      BY <1>1, <3>1, <3>2, <3>3 DEF GoodRows, Healthy
  <2> QED
    BY <2>1, <2>2
<1>9. [r EXCEPT !.enabled = FALSE] \in GoodRows
  BY <1>3 DEF GoodRows, Rows, Healthy
<1>10. [r EXCEPT !.next = Elapse(@)] \in GoodRows
  <2>1. Elapse(r.next) \in {NoTime} \cup 0..Cycle
    BY <1>1, <1>3 DEF Rows, Elapse, NoTime
  <2> QED
    BY <1>3, <2>1 DEF GoodRows, Rows, Healthy
<1>11. \A now \in Nat : [r EXCEPT !.next = NextRunAt(cron, now)] \in GoodRows
  BY <1>2, <1>3 DEF GoodRows, Rows, Healthy
<1>12. [r EXCEPT !.enabled = TRUE, !.status = "active", !.failures = 0,
                 !.next = NextRunAt(cron, clock)] \in GoodRows
  <2> DEFINE new == [r EXCEPT !.enabled = TRUE, !.status = "active", !.failures = 0,
                              !.next = NextRunAt(cron, clock)]
  <2>1. new.status = "active" /\ new.failures = 0
    BY <1>3 DEF Rows
  <2>2. new \in Rows
    BY <1>3, <1>4, ColumnsWritten, Zenon
  <2> HIDE DEF new
  <2>3. new \in GoodRows
    BY <1>1, <2>1, <2>2 DEF GoodRows, Healthy
  <2> QED
    BY <2>3 DEF new
<1> QED
  BY <1>5, <1>6, <1>7, <1>8, <1>9, <1>10, <1>11, <1>12

-----------------------------------------------------------------------------
TableOK == row \in [Ids -> GoodRows \cup {Absent}]

\* A row of the table is told from an absent one by the column "there".
LEMMA RowThere ==
    ASSUME TableOK, NEW s \in Ids
    PROVE  /\ Exists(s) <=> row[s] \in GoodRows
           /\ Exists(s) => row[s] \in Rows /\ row[s].cron \in Periods
<1>1. row[s] \in GoodRows \cup {Absent}
  BY DEF TableOK
<1>2. \A r \in Rows : r.there = TRUE /\ r.cron \in Periods
  BY DEF Rows
<1>3. Absent.there = FALSE
  BY DEF Absent
<1> QED
  BY <1>1, <1>2, <1>3, Zenon DEF Exists, GoodRows

\* Rows that agree, and runs of their types, are what the statements leave.
LEMMA HealthKept ==
    ASSUME TableOK, NEW s \in Ids, NEW new \in GoodRows \cup {Absent},
           row' = [row EXCEPT ![s] = new]
    PROVE  TableOK'
BY DEF TableOK

LEMMA RunsKept ==
    ASSUME run \in [Ids -> Runs], NEW s \in Ids
    PROVE  /\ [run EXCEPT ![s] = NoRun] \in [Ids -> Runs]
           /\ [run EXCEPT ![s] = Delivering] \in [Ids -> Runs]
           /\ [t \in Ids |-> NoRun] \in [Ids -> Runs]
           /\ \A cron \in Periods, manual \in BOOLEAN :
                 [run EXCEPT ![s] = LlmRun(cron, manual)] \in [Ids -> Runs]
BY DEF Runs, LlmRun

\* What a run knows of its schedule: the cron it was started with.
LEMMA LlmKnows ==
    ASSUME run \in [Ids -> Runs], NEW s \in Ids, run[s].phase = "llm"
    PROVE  run[s].cron \in Periods
<1>1. NoRun.phase # "llm" /\ Delivering.phase # "llm"
  BY DEF NoRun, Delivering
<1> QED
  BY <1>1 DEF Runs

\* Good rows, and nothing else, make up the table; the rest of the state has
\* its types.
HealthInv ==
    /\ proc \in {"up", "stopping", "down", "crashed"}
    /\ clock \in 0..(Cycle - 1)
    /\ run \in [Ids -> Runs]
    /\ TableOK

LEMMA HealthInit == SchedulerAssumption => (SchedulerInit => HealthInv)
<1> SUFFICES ASSUME SchedulerAssumption, SchedulerInit PROVE HealthInv
  OBVIOUS
<1>1. Cycle \in Nat \ {0}
  BY DEF SchedulerAssumption
<1> QED
  BY <1>1 DEF SchedulerInit, HealthInv, TableOK, Runs

\* The minute that passes, whoever sees it.
LEMMA AgedRows ==
    ASSUME SchedulerAssumption, HealthInv, NEW s \in Ids
    PROVE  /\ NextMinute \in 0..(Cycle - 1) /\ NextMinute \in Nat
           /\ Aged(s) \in GoodRows \cup {Absent}
           /\ IsDue(Aged(s)) => /\ Exists(s) /\ row[s].cron \in Periods
                                /\ [row[s] EXCEPT !.next = NextRunAt(row[s].cron, NextMinute)]
                                      \in GoodRows
<1>1. NextMinute \in 0..(Cycle - 1) /\ NextMinute \in Nat
  BY DEF SchedulerAssumption, HealthInv, NextMinute
<1>2. CASE Exists(s)
  <2>1. row[s] \in GoodRows /\ row[s].cron \in Periods
    BY <1>2, RowThere DEF HealthInv
  <2>2. /\ [row[s] EXCEPT !.next = Elapse(@)] \in GoodRows
        /\ [row[s] EXCEPT !.next = NextRunAt(row[s].cron, NextMinute)] \in GoodRows
    BY <1>1, <2>1, RowsStayGood DEF HealthInv
  <2> QED
    BY <1>1, <1>2, <2>1, <2>2 DEF Aged
<1>3. CASE ~Exists(s)
  <2>1. row[s] = Absent /\ Aged(s) = Absent
    BY <1>3, RowThere DEF HealthInv, TableOK, Aged
  <2> QED
    BY <1>1, <2>1 DEF IsDue, Absent
<1> QED
  BY <1>2, <1>3

\* Each operation keeps the table and the types.
LEMMA HealthStep == SchedulerAssumption => (HealthInv /\ [SchedulerNext]_schedulerVars => HealthInv')
<1> SUFFICES ASSUME SchedulerAssumption, HealthInv, [SchedulerNext]_schedulerVars
             PROVE  HealthInv'
  OBVIOUS
<1>1. CASE Tick
  <2>1. NextMinute \in 0..(Cycle - 1)
    BY DEF SchedulerAssumption, HealthInv, NextMinute
  <2>2. TableOK'
    BY <1>1, AgedRows DEF Tick, TableOK
  <2>3. run' \in [Ids -> Runs]
    <3>1. \A s \in Ids : IsDue(Aged(s)) => LlmRun(row[s].cron, FALSE) \in Runs
      BY AgedRows DEF LlmRun, Runs
    <3> QED
      BY <1>1, <3>1 DEF Tick, HealthInv
  <2> QED
    BY <1>1, <2>1, <2>2, <2>3 DEF Tick, HealthInv
<1>2. CASE QuietMinute
  <2>1. NextMinute \in 0..(Cycle - 1)
    BY DEF SchedulerAssumption, HealthInv, NextMinute
  <2>2. TableOK'
    BY <1>2, AgedRows DEF QuietMinute, TableOK
  <2> QED
    BY <1>2, <2>1, <2>2 DEF QuietMinute, HealthInv
<1>3. CASE Stop \/ Exit \/ Restart
  BY <1>3 DEF Stop, Exit, Restart, HealthInv, TableOK, Runs
<1>4. ASSUME NEW s \in Ids, RunStep(s) PROVE HealthInv'
  <2>1. ASSUME NEW ok \in BOOLEAN, Finish(s, ok) PROVE HealthInv'
    <3>1. row[s] \in GoodRows /\ run[s].cron \in Periods
      BY <2>1, RowThere, LlmKnows DEF Finish, HealthInv
    <3>2. TableOK'
      BY <2>1, <3>1, RowsStayGood, HealthKept DEF Finish, HealthInv
    <3> QED
      BY <2>1, <3>2, RunsKept DEF Finish, HealthInv
  <2>2. CASE FinishDeleted(s)
    BY <2>2, RunsKept DEF FinishDeleted, HealthInv, TableOK
  <2>3. CASE Delivered(s)
    BY <2>3, RunsKept DEF Delivered, HealthInv, TableOK
  <2> QED
    BY <1>4, <2>1, <2>2, <2>3 DEF RunStep
<1>5. ASSUME NEW s \in Ids, RunNow(s) PROVE HealthInv'
  <2>1. row[s].cron \in Periods
    BY <1>5, RowThere DEF RunNow, HealthInv
  <2> QED
    BY <1>5, <2>1, RunsKept DEF RunNow, HealthInv, TableOK
<1>6. ASSUME NEW s \in Ids, NEW cron \in Periods, NEW on \in BOOLEAN, Create(s, cron, on)
      PROVE  HealthInv'
  <2> DEFINE new == [there |-> TRUE, cron |-> cron, enabled |-> on, status |-> "active",
                     failures |-> 0, next |-> NextRunAt(cron, clock)]
  <2>1. clock \in Nat /\ FailureCap \in Nat /\ MaxFailures \in Nat \ {0}
    BY DEF HealthInv, SchedulerAssumption
  <2>2. NextRunAt(cron, clock) \in {NoTime} \cup 0..Cycle
    BY <2>1, NextRunAhead
  <2>3. new \in GoodRows
    BY <2>1, <2>2 DEF GoodRows, Rows, Healthy
  <2> HIDE DEF new
  <2>4. row' = [row EXCEPT ![s] = new] /\ UNCHANGED <<proc, clock, run>>
    BY <1>6 DEF Create, new
  <2> QED
    BY <2>3, <2>4, HealthKept DEF HealthInv
<1>7. ASSUME NEW s \in Ids, NEW new \in GoodRows \cup {Absent}, Edit(s, new)
      PROVE  HealthInv'
  BY <1>7, HealthKept DEF Edit, HealthInv
<1>8. ASSUME NEW s \in Ids, Exists(s)
      PROVE  /\ \A cron \in Periods : WithCron(row[s], cron) \in GoodRows
             /\ \A on \in BOOLEAN : WithEnabled(row[s], on) \in GoodRows
             /\ \A cron \in Periods, on \in BOOLEAN :
                   WithEnabled(WithCron(row[s], cron), on) \in GoodRows
             /\ [row[s] EXCEPT !.enabled = FALSE] \in GoodRows
             /\ [row[s] EXCEPT !.enabled = TRUE, !.status = "active", !.failures = 0,
                               !.next = NextRunAt(row[s].cron, clock)] \in GoodRows
  <2>1. row[s] \in GoodRows /\ row[s].cron \in Periods /\ clock \in 0..(Cycle - 1)
    BY <1>8, RowThere DEF HealthInv
  <2>2. \A cron \in Periods : WithCron(row[s], cron) \in GoodRows
    BY <2>1, RowsStayGood
  <2> QED
    BY <2>1, <2>2, RowsStayGood
<1>9. ASSUME NEW s \in Ids, Update(s) \/ Disable(s) \/ Enable(s) \/ Delete(s)
      PROVE  HealthInv'
  <2>1. Exists(s)
    BY <1>9 DEF Update, Disable, Enable, Delete, Edit
  <2> QED
    BY <1>7, <1>8, <1>9, <2>1 DEF Update, Disable, Enable, Delete
<1>10. CASE UNCHANGED schedulerVars
  BY <1>10 DEF schedulerVars, HealthInv, TableOK
<1> QED
  BY <1>1, <1>2, <1>3, <1>4, <1>5, <1>6, <1>9, <1>10 DEF SchedulerNext, UserStep

\* The inductive invariant, for any schedules, periods, clock and limits.
THEOREM HealthInvHolds == ASSUME SchedulerAssumption PROVE SchedulerSpec => []HealthInv
BY HealthInit, HealthStep, PTL DEF SchedulerSpec

\* The columns and the state of runs have their types; next_run_at is never
\* further away than a cycle of the clock, and the failure count is capped.
THEOREM SchedulerTypeCorrect == ASSUME SchedulerAssumption PROVE SchedulerSpec => []SchedulerTypeOK
<1>1. HealthInv => SchedulerTypeOK
  BY DEF HealthInv, TableOK, SchedulerTypeOK, GoodRows
<1> QED
  BY <1>1, HealthInvHolds, PTL

\* Whatever mixture of scheduled and manual runs, edits and restarts wrote them,
\* failure count, status and enabled of a row agree.
THEOREM HealthAgrees == ASSUME SchedulerAssumption PROVE SchedulerSpec => []HealthConsistent
<1>1. ASSUME HealthInv PROVE HealthConsistent
  <2>1. SchedulerTypeOK
    BY <1>1 DEF HealthInv, TableOK, SchedulerTypeOK, GoodRows
  <2>2. \A s \in Ids : Exists(s) => Healthy(row[s])
    BY <1>1, RowThere DEF HealthInv, GoodRows
  <2> QED
    BY <2>1, <2>2 DEF HealthConsistent, Healthy
<1> QED
  BY <1>1, HealthInvHolds, PTL

-----------------------------------------------------------------------------
\* What a step does to one schedule: the row either stays, or is one of those
\* the handlers write, and what the run of the schedule does beside it.
Stays(s) == row'[s] = row[s] /\ clock' = clock /\ (run'[s] = run[s] \/ run'[s].phase # "deliver")
Passes(s) == clock' = NextMinute /\ row'[s] = Aged(s)
PutOff(s) == /\ IsDue(Aged(s)) /\ IsActive(s)
             /\ clock' = NextMinute
             /\ row'[s] = [row[s] EXCEPT !.next = NextRunAt(row[s].cron, NextMinute)]
             /\ run'[s] = run[s]
Recorded(s) == /\ run[s].phase = "llm" /\ run'[s].phase = "deliver"
               /\ Exists(s) /\ clock' = clock
               /\ \/ row'[s] = AfterSuccess(row[s], run[s].cron)
                  \/ row'[s] = AfterFailure(row[s], run[s].cron)
Rescheduled(s) == /\ clock' = clock /\ run'[s] = run[s]
                  /\ row'[s].there => /\ row'[s].cron \in Periods
                                      /\ row'[s].next = NextRunAt(row'[s].cron, clock)
Switched(s) == /\ clock' = clock /\ run'[s] = run[s] /\ Exists(s)
               /\ row'[s].next = row[s].next /\ row'[s].cron = row[s].cron

LEMMA WhatChanges ==
    ASSUME SchedulerAssumption, HealthInv, SchedulerNext, NEW s \in Ids
    PROVE  \/ Stays(s)
           \/ Passes(s) /\ proc = "up" /\ ~(IsDue(Aged(s)) /\ IsActive(s))
                        /\ (run'[s] = run[s] \/ run'[s].phase # "deliver")
           \/ Passes(s) /\ proc # "up" /\ run'[s] = run[s]
           \/ PutOff(s)
           \/ Recorded(s)
           \/ Rescheduled(s)
           \/ Switched(s)
<1>1. /\ row \in [Ids -> GoodRows \cup {Absent}] /\ run \in [Ids -> Runs]
      /\ NoRun.phase = "none" /\ Delivering.phase = "deliver"
      /\ \A cron \in Periods, manual \in BOOLEAN : LlmRun(cron, manual).phase = "llm"
  BY DEF HealthInv, TableOK, NoRun, Delivering, LlmRun
<1>2. CASE Tick
  <2>1. CASE IsDue(Aged(s)) /\ IsActive(s)
    BY <1>1, <1>2, <2>1 DEF Tick, PutOff
  <2>2. CASE ~(IsDue(Aged(s)) /\ IsActive(s))
    <3>1. IsDue(Aged(s)) => row[s].cron \in Periods
      BY AgedRows
    <3>2. run'[s] = run[s] \/ run'[s].phase # "deliver"
      BY <1>1, <1>2, <2>2, <3>1 DEF Tick, LlmRun
    <3> QED
      BY <1>1, <1>2, <2>2, <3>2 DEF Tick, Passes
  <2> QED
    BY <2>1, <2>2
<1>3. CASE QuietMinute
  BY <1>3 DEF QuietMinute, Passes
<1>4. CASE Stop \/ Exit \/ Restart
  BY <1>1, <1>4 DEF Stop, Exit, Restart, Stays
<1>5. ASSUME NEW t \in Ids, RunStep(t) PROVE Stays(s) \/ Recorded(s)
  <2>1. ASSUME NEW ok \in BOOLEAN, Finish(t, ok) PROVE Stays(s) \/ Recorded(s)
    BY <1>1, <2>1 DEF Finish, Stays, Recorded
  <2>2. CASE FinishDeleted(t) \/ Delivered(t)
    BY <1>1, <2>2 DEF FinishDeleted, Delivered, Stays
  <2> QED
    BY <1>5, <2>1, <2>2 DEF RunStep
<1>6. ASSUME NEW t \in Ids, RunNow(t) PROVE Stays(s)
  BY <1>1, <1>6 DEF RunNow, Stays, LlmRun
<1>7. ASSUME NEW t \in Ids, NEW cron \in Periods, NEW on \in BOOLEAN, Create(t, cron, on)
      PROVE  Stays(s) \/ Rescheduled(s)
  BY <1>1, <1>7 DEF Create, Stays, Rescheduled
<1>8. ASSUME NEW t \in Ids, NEW new, Edit(t, new), t # s PROVE Stays(s)
  BY <1>1, <1>8 DEF Edit, Stays
<1>9. ASSUME NEW new, Edit(s, new)
      PROVE  row'[s] = new /\ clock' = clock /\ run'[s] = run[s] /\ Exists(s) /\ row[s] \in Rows
             /\ row[s].cron \in Periods
  BY <1>1, <1>9, RowThere DEF Edit, HealthInv
<1>10. ASSUME NEW t \in Ids, Update(t) PROVE Stays(s) \/ Rescheduled(s) \/ Switched(s)
  <2>1. CASE t # s
    BY <1>8, <1>10, <2>1 DEF Update
  <2>2. ASSUME NEW cron \in Periods, row[s] \in Rows
        PROVE  /\ WithCron(row[s], cron).cron = cron
               /\ WithCron(row[s], cron).next = NextRunAt(cron, clock)
    BY <2>2 DEF WithCron, Rows
  <2>4. ASSUME NEW cron \in Periods, NEW on \in BOOLEAN, row[s] \in Rows
        PROVE  /\ WithEnabled(row[s], on).cron = row[s].cron
               /\ WithEnabled(row[s], on).next = row[s].next
               /\ WithEnabled(WithCron(row[s], cron), on).cron = cron
               /\ WithEnabled(WithCron(row[s], cron), on).next = NextRunAt(cron, clock)
    BY <2>4 DEF WithCron, WithEnabled, Rows
  <2>3. CASE t = s
    <3>1. ASSUME NEW cron \in Periods, Edit(s, WithCron(row[s], cron))
          PROVE  Rescheduled(s)
      BY <1>9, <2>2, <3>1 DEF Rescheduled
    <3>2. ASSUME NEW on \in BOOLEAN, Edit(s, WithEnabled(row[s], on))
          PROVE  Switched(s)
      BY <1>9, <2>4, <3>2 DEF Switched
    <3>3. ASSUME NEW cron \in Periods, NEW on \in BOOLEAN,
                 Edit(s, WithEnabled(WithCron(row[s], cron), on))
          PROVE  Rescheduled(s)
      BY <1>9, <2>4, <3>3 DEF Rescheduled
    <3> QED
      BY <1>10, <2>3, <3>1, <3>2, <3>3 DEF Update
  <2> QED
    BY <2>1, <2>3
<1>11. ASSUME NEW t \in Ids, Disable(t) PROVE Stays(s) \/ Switched(s)
  <2>1. row[s] \in Rows => LET new == [row[s] EXCEPT !.enabled = FALSE] IN
                             new.cron = row[s].cron /\ new.next = row[s].next
    BY DEF Rows
  <2> QED
    BY <1>8, <1>9, <1>11, <2>1 DEF Disable, Switched
<1>12. ASSUME NEW t \in Ids, Enable(t) PROVE Stays(s) \/ Rescheduled(s)
  <2>1. row[s] \in Rows => LET new == [row[s] EXCEPT !.enabled = TRUE, !.status = "active",
                                         !.failures = 0, !.next = NextRunAt(row[s].cron, clock)]
                           IN  new.cron = row[s].cron /\ new.next = NextRunAt(row[s].cron, clock)
    BY DEF Rows
  <2> QED
    BY <1>8, <1>9, <1>12, <2>1 DEF Enable, Rescheduled
<1>13. ASSUME NEW t \in Ids, Delete(t) PROVE Stays(s) \/ Rescheduled(s)
  BY <1>8, <1>9, <1>13 DEF Delete, Rescheduled, Absent
<1> QED
  BY <1>2, <1>3, <1>4, <1>5, <1>6, <1>7, <1>10, <1>11, <1>12, <1>13 DEF SchedulerNext, UserStep

\* A row that a step writes with a firing time is not due by that step.
LEMMA FiringAhead ==
    ASSUME SchedulerAssumption, HealthInv, NEW s \in Ids
    PROVE  /\ PutOff(s) => /\ row'[s].next # 0
                           /\ row'[s].cron = row[s].cron
                           /\ row'[s].next = NextRunAt(row'[s].cron, clock')
           /\ Recorded(s) => /\ row'[s].next # 0
                             /\ row'[s].cron = row[s].cron
                             /\ row'[s].next = NextRunAt(run[s].cron, clock)
           /\ Rescheduled(s) /\ row'[s].there => row'[s].next # 0
<1>1. clock \in Nat
  BY DEF HealthInv, SchedulerAssumption
<1>2. ASSUME PutOff(s)
      PROVE  /\ row'[s].next # 0 /\ row'[s].cron = row[s].cron
             /\ row'[s].next = NextRunAt(row'[s].cron, clock')
  <2>1. Exists(s) /\ row[s] \in Rows /\ row[s].cron \in Periods
    BY <1>2, AgedRows, RowThere DEF PutOff, HealthInv
  <2>2. NextMinute \in Nat
    BY AgedRows
  <2>3. /\ row'[s].next = NextRunAt(row[s].cron, NextMinute) /\ row'[s].cron = row[s].cron
        /\ clock' = NextMinute
    BY <1>2, <2>1 DEF PutOff, Rows
  <2> QED
    BY <2>1, <2>2, <2>3, NextRunAhead
<1>3. ASSUME Recorded(s)
      PROVE  /\ row'[s].next # 0 /\ row'[s].cron = row[s].cron
             /\ row'[s].next = NextRunAt(run[s].cron, clock)
  <2>1. row[s] \in Rows /\ run[s].cron \in Periods
    BY <1>3, RowThere, LlmKnows DEF Recorded, HealthInv
  <2>2. row'[s].next = NextRunAt(run[s].cron, clock) /\ row'[s].cron = row[s].cron
    BY <1>3, <2>1 DEF Recorded, AfterSuccess, AfterFailure, Rows
  <2> QED
    BY <1>1, <2>1, <2>2, NextRunAhead
<1>4. ASSUME Rescheduled(s), row'[s].there PROVE row'[s].next # 0
  BY <1>1, <1>4, NextRunAhead DEF Rescheduled
<1> QED
  BY <1>2, <1>3, <1>4

\* A minute in which nobody deals with it leaves a due row as it is.
LEMMA DueStaysDue ==
    ASSUME SchedulerAssumption, HealthInv, NEW s \in Ids, IsDue(row[s])
    PROVE  IsDue(Aged(s)) /\ Aged(s).next = 0
<1>1. Exists(s) /\ row[s].next = 0
  BY DEF IsDue, Exists
<1>2. row[s] \in Rows
  BY <1>1, RowThere DEF HealthInv
<1>3. [row[s] EXCEPT !.next = 0] = row[s]
  BY <1>1, <1>2 DEF Rows
<1> QED
  BY <1>1, <1>3 DEF Aged, Elapse

\* The two halves of FiringsKept, as actions.
Consumes(s) == IsDue(row'[s])
                 => /\ ~(run[s].phase = "llm" /\ run'[s].phase = "deliver")
                    /\ ~(proc = "up" /\ clock' # clock /\ IsActive(s))
Survives(s) == (IsDue(row[s]) /\ row'[s].there /\ row'[s].next # 0)
                 => \/ IsActive(s)
                    \/ row'[s].next = NextRunAt(row'[s].cron, clock) /\ run'[s] = run[s]

LEMMA FiringStep ==
    ASSUME SchedulerAssumption, HealthInv, SchedulerNext, NEW s \in Ids
    PROVE  Consumes(s) /\ Survives(s)
<1>1. CASE Stays(s)
  BY <1>1 DEF Stays, Consumes, Survives, IsDue
<1>2. CASE Passes(s) /\ proc = "up" /\ ~(IsDue(Aged(s)) /\ IsActive(s))
           /\ (run'[s] = run[s] \/ run'[s].phase # "deliver")
  BY <1>2, DueStaysDue DEF Passes, Consumes, Survives
<1>3. CASE Passes(s) /\ proc # "up" /\ run'[s] = run[s]
  BY <1>3, DueStaysDue DEF Passes, Consumes, Survives
<1>4. CASE PutOff(s)
  BY <1>4, FiringAhead DEF PutOff, Consumes, Survives, IsDue
<1>5. CASE Recorded(s)
  BY <1>5, FiringAhead DEF Recorded, Consumes, Survives, IsDue, IsActive
<1>6. CASE Rescheduled(s)
  BY <1>6, FiringAhead DEF Rescheduled, Consumes, Survives, IsDue
<1>7. CASE Switched(s)
  BY <1>7 DEF Switched, Consumes, Survives, IsDue
<1> QED
  BY <1>1, <1>2, <1>3, <1>4, <1>5, <1>6, <1>7, WhatChanges

\* Each firing is executed by one run: what a run or a tick has dealt with is
\* not due any more, and a due schedule stays due until then, across kills,
\* shutdown and restart.
THEOREM FiringsHold == ASSUME SchedulerAssumption PROVE SchedulerSpec => FiringsKept
<1>1. HealthInv /\ [SchedulerNext]_schedulerVars => [\A s \in Ids : Consumes(s)]_schedulerVars
  BY FiringStep
<1>2. HealthInv /\ [SchedulerNext]_schedulerVars => [\A s \in Ids : Survives(s)]_schedulerVars
  BY FiringStep
<1>3. (\A s \in Ids : Consumes(s)) =>
         \A s \in Ids : IsDue(row[s])' => /\ ~(run[s].phase = "llm" /\ run'[s].phase = "deliver")
                                          /\ ~(proc = "up" /\ clock' # clock /\ IsActive(s))
  BY DEF Consumes
<1>4. (\A s \in Ids : Survives(s)) =>
         \A s \in Ids : (IsDue(row[s]) /\ Exists(s)' /\ row'[s].next # 0)
            => \/ IsActive(s)
               \/ row'[s].next = NextRunAt(row'[s].cron, clock) /\ run'[s] = run[s]
  BY DEF Survives, Exists
<1> QED
  BY <1>1, <1>2, <1>3, <1>4, HealthInvHolds, PTL
     DEF SchedulerSpec, FiringsKept, FiringConsumed, DueSurvives

-----------------------------------------------------------------------------
\* One schedule falls behind its expression only by a run with an older one.
LEMMA DelayStep ==
    ASSUME SchedulerAssumption, HealthInv, SchedulerNext, NEW s \in Ids, OnTime(s), ~OnTime(s)'
    PROVE  run[s].phase = "llm" /\ run[s].cron # row[s].cron
<1>0. clock \in Nat /\ clock \in 0..(Cycle - 1)
  BY DEF HealthInv, SchedulerAssumption
<1>1. /\ row'[s].there /\ row'[s].cron # NeverFires
      /\ ~(row'[s].next # NoTime /\ row'[s].next <= NextRunAt(row'[s].cron, clock'))
  BY DEF OnTime, Exists
<1>2. CASE Stays(s) \/ Switched(s)
  BY <1>1, <1>2 DEF Stays, Switched, OnTime, Exists
<1>3. CASE Passes(s)
  <2>1. Exists(s) /\ row'[s] = [row[s] EXCEPT !.next = Elapse(@)] /\ clock' = NextMinute
    BY <1>1, <1>3 DEF Passes, Aged, Exists
  <2>2. row[s] \in Rows /\ row[s].cron \in Periods
    BY <2>1, RowThere DEF HealthInv
  <2>3. row'[s].cron = row[s].cron /\ row'[s].next = Elapse(row[s].next)
    BY <2>1, <2>2 DEF Rows
  <2>4. row[s].next # NoTime /\ row[s].next <= NextRunAt(row[s].cron, clock)
    BY <1>1, <2>1, <2>3 DEF OnTime
  <2>5. row[s].next \in Nat
    <3>1. row[s].next \in {NoTime} \cup 0..Cycle
      BY <2>2 DEF Rows
    <3> QED
      BY <2>4, <3>1
  <2>6. /\ NextRunAt(row[s].cron, NextMinute) \in 1..Cycle
        /\ NextRunAt(row[s].cron, NextMinute) >= NextRunAt(row[s].cron, clock) - 1
        /\ NextRunAt(row[s].cron, clock) \in 1..Cycle
    <3>1. row[s].cron \in Periods \ {NeverFires} /\ row[s].cron # NeverFires
      BY <1>1, <2>2, <2>3
    <3>2. NextMinute \in Nat
      BY AgedRows
    <3>3. NextRunAt(row[s].cron, NextMinute) >= NextRunAt(row[s].cron, clock) - 1
      BY <1>0, <3>1, NextRunNears
    <3>4. NextRunAt(row[s].cron, NextMinute) \in 1..Cycle
      BY <3>1, <3>2, NextRunAhead
    <3>5. NextRunAt(row[s].cron, clock) \in 1..Cycle
      BY <1>0, <3>1, NextRunAhead
    <3> QED
      BY <3>3, <3>4, <3>5
  <2>7. Elapse(row[s].next) # NoTime
        /\ Elapse(row[s].next) <= NextRunAt(row[s].cron, NextMinute)
    BY <2>4, <2>5, <2>6 DEF Elapse, NoTime, SchedulerAssumption
  <2> QED
    BY <1>1, <2>1, <2>3, <2>7
<1>4. ASSUME NEW cron \in Periods \ {NeverFires}, NEW now \in Nat
      PROVE  NextRunAt(cron, now) # NoTime /\ NextRunAt(cron, now) <= NextRunAt(cron, now)
  <2>1. NextRunAt(cron, now) \in 1..Cycle /\ Cycle \in Nat
    BY NextRunAhead DEF SchedulerAssumption
  <2> QED
    BY <2>1 DEF NoTime
<1>5. CASE PutOff(s)
  <2>1. row[s].cron \in Periods /\ NextMinute \in Nat /\ clock' = NextMinute
    BY <1>5, AgedRows DEF PutOff, SchedulerAssumption
  <2> QED
    BY <1>1, <1>4, <1>5, <2>1, FiringAhead
<1>6. CASE Recorded(s)
  <2>1. run[s].cron \in Periods
    BY <1>6, LlmKnows DEF Recorded, HealthInv
  <2>2. CASE run[s].cron = row[s].cron
    <3>1. row'[s].cron = run[s].cron /\ row'[s].next = NextRunAt(run[s].cron, clock')
      BY <1>6, <2>2, FiringAhead DEF Recorded
    <3> QED
      BY <1>0, <1>1, <1>4, <1>6, <2>1, <3>1 DEF Recorded
  <2> QED
    BY <1>6, <2>2 DEF Recorded
<1>7. CASE Rescheduled(s)
  BY <1>0, <1>1, <1>4, <1>7 DEF Rescheduled
<1> QED
  BY <1>2, <1>3, <1>5, <1>6, <1>7, WhatChanges

\* next_run_at falls behind the cron expression in one way only: a run that was
\* started before the expression was changed writes the time of its old one.
THEOREM DelaysExplained == ASSUME SchedulerAssumption PROVE SchedulerSpec => OnlyStaleRunDelays
<1>1. HealthInv /\ [SchedulerNext]_schedulerVars
        => [\A s \in Ids : OnTime(s) /\ ~OnTime(s)'
              => run[s].phase = "llm" /\ run[s].cron # row[s].cron]_schedulerVars
  BY DelayStep
<1> QED
  BY <1>1, HealthInvHolds, PTL DEF SchedulerSpec, OnlyStaleRunDelays

(***************************************************************************)
(* Gateway.                                                                *)
(***************************************************************************)

Clients == {"none", "connecting", "open", "closing"}
Servers == {"none", "registered", "refused", "closing"}
SocketRows == [client : Clients, server : Servers, path : BOOLEAN, alive : BOOLEAN]
AskRows == [pending : BOOLEAN, on : Sockets \cup {Left},
            server : {"none", "sent", "running", "replied"}]

ProcTypes ==
    /\ process \in {"booting", "serving", "stopping", "exited", "killed"} /\ step \in 1..7
    /\ cleanups \in Seq(Parts) /\ stage \in {"none", "draining", "closing", "waiting"}
    /\ db \in BOOLEAN /\ listening \in BOOLEAN /\ ticking \in BOOLEAN /\ runs \in BOOLEAN
NetTypes ==
    /\ sessions \subseteq Sockets \cup {Left}
    /\ sock \in [Sockets -> SocketRows]
    /\ page \in {"new", "attached", "removed"} /\ timers \in Nat /\ breaks \in 0..MaxBreaks
    /\ ask \in [Frames -> AskRows]
    /\ post \in [Posts -> {"none", "running", "orphan"}]

\* Nobody can reach the gateway.
Unreached == /\ ~listening /\ Connections = {} /\ sessions = {}
             /\ \A p \in Posts : post[p] # "running"

\* A step of the network, of the callers or of the timers: the process stays where
\* it is, an unreached gateway stays unreached, and nothing starts a run in it.
NetStep == /\ UNCHANGED <<process, step, cleanups, stage, db, ticking, listening>>
           /\ runs' \in BOOLEAN /\ NetTypes'
           /\ Unreached => Unreached'
           /\ Unreached /\ ~ticking /\ ~runs => ~runs'

\* A step that the page does not see.
Unseen == /\ page' = page /\ timers' = timers
          /\ \A s \in Sockets : sock'[s].client = sock[s].client
          /\ \A r \in Frames : ask'[r].pending => ask[r].pending /\ ask'[r].on = ask[r].on

-----------------------------------------------------------------------------
\* Setting one field of a socket leaves the others.
LEMMA SocketFields ==
    ASSUME NEW x \in SocketRows
    PROVE  /\ \A c \in Clients : LET y == [x EXCEPT !.client = c] IN
                y \in SocketRows /\ y.client = c /\ y.server = x.server /\ y.path = x.path /\ y.alive = x.alive
           /\ \A v \in Servers : LET y == [x EXCEPT !.server = v] IN
                y \in SocketRows /\ y.client = x.client /\ y.server = v /\ y.path = x.path /\ y.alive = x.alive
           /\ \A b \in BOOLEAN : LET y == [x EXCEPT !.path = b] IN
                y \in SocketRows /\ y.client = x.client /\ y.server = x.server
           /\ \A b \in BOOLEAN : LET y == [x EXCEPT !.alive = b] IN
                y \in SocketRows /\ y.client = x.client /\ y.server = x.server
BY DEF SocketRows

\* A socket nobody uses, one that connects, and one the server has answered.
LEMMA NewSockets ==
    /\ NoSocket \in SocketRows /\ NoSocket.client = "none" /\ NoSocket.server = "none"
    /\ LET y == [NoSocket EXCEPT !.client = "connecting"] IN
         y \in SocketRows /\ y.client = "connecting" /\ y.server = "none"
    /\ \A v \in Servers : LET y == [NoSocket EXCEPT !.client = "open", !.server = v] IN
         y \in SocketRows /\ y.client = "open" /\ y.server = v
BY DEF NoSocket, SocketRows, Clients, Servers

\* The close event of the page leaves no request waiting.
LEMMA CutRows ==
    ASSUME NEW r \in Frames, ask[r] \in AskRows
    PROVE  Cut(r) \in AskRows /\ ~Cut(r).pending /\ Cut(r).on = ask[r].on
<1> DEFINE x == ask[r]
           y == [x EXCEPT !.pending = FALSE]
<1>1. y \in AskRows /\ ~y.pending /\ y.on = x.on /\ y.server = x.server
  BY DEF AskRows
<1>2. Cut(r) = [y EXCEPT !.server = IF @ = "running" THEN @ ELSE "none"]
  BY Zenon DEF Cut
<1> HIDE DEF y
<1> QED
  BY <1>1, <1>2 DEF AskRows

-----------------------------------------------------------------------------
(* What the steps of the network do.                                       *)
LEMMA PostSteps ==
    ASSUME NetTypes, runs \in BOOLEAN, NEW p \in Posts, Posting(p)
    PROVE  NetStep /\ Unseen
<1>1. PICK from \in {"none", "running", "orphan"}, to \in {"none", "running", "orphan"} :
         Posted(p, from, to) /\ (to = "running" => listening)
  BY DEF Posting, PostArrives, PostDropped, PostAnswered
<1>2. /\ post' = [post EXCEPT ![p] = to]
      /\ UNCHANGED <<process, step, cleanups, stage, db, ticking, runs, listening, sessions,
                     sock, page, timers, ask, breaks>>
  BY <1>1 DEF Posted, procVars, netVars
<1>3. post' \in [Posts -> {"none", "running", "orphan"}]
  BY <1>2 DEF NetTypes
<1>4. Connections' = Connections
  BY <1>2 DEF Connections
<1>5. Unreached => Unreached'
  BY <1>1, <1>2, <1>4 DEF Unreached, NetTypes
<1> QED
  BY <1>2, <1>3, <1>5 DEF NetStep, Unseen, NetTypes

LEMMA RunSteps ==
    ASSUME NetTypes, runs \in BOOLEAN, SessionExpires \/ RunStarts \/ RunsEnd
    PROVE  NetStep /\ Unseen
<1>1. /\ UNCHANGED <<process, step, cleanups, stage, db, ticking, listening, sock, page, timers,
                     ask, breaks, post>>
      /\ sessions' \subseteq sessions /\ runs' \in BOOLEAN
  BY DEF SessionExpires, RunStarts, RunsEnd, procVars, netVars
<1>2. Connections' = Connections
  BY <1>1 DEF Connections
<1>3. Unreached /\ ~ticking /\ ~runs => ~runs'
  BY DEF Unreached, SessionExpires, RunStarts, RunsEnd, procVars
<1>4. Unreached => Unreached'
  BY <1>1, <1>2 DEF Unreached
<1>5. NetTypes'
  BY <1>1 DEF NetTypes
<1> QED
  BY <1>1, <1>3, <1>4, <1>5 DEF NetStep, Unseen

LEMMA AskSteps ==
    ASSUME NetTypes, runs \in BOOLEAN, NEW r \in Frames,
           Asking(r) \/ \E s \in Sockets : Send(r, s)
    PROVE  NetStep /\ (Asking(r) => Unseen)
<1>1. ask[r] \in AskRows /\ ask \in [Frames -> AskRows]
  BY DEF NetTypes
<1>2. PICK s \in Sockets \cup {Left}, pending \in BOOLEAN, server \in {"none", "sent", "running", "replied"} :
         /\ AskVars(r, s, pending, server)
         /\ Asking(r) => s = ask[r].on /\ (pending => ask[r].pending)
  BY <1>1 DEF Asking, Send, Unheard, Receive, Respond, AnswerArrives, AskTimeout, AskRows
<1>3. /\ ask' = [ask EXCEPT ![r] = [pending |-> pending, on |-> s, server |-> server]]
      /\ UNCHANGED <<process, step, cleanups, stage, db, ticking, listening, sock, page, timers, breaks, post>>
  BY <1>2 DEF AskVars
<1>4. /\ sessions' \subseteq Sockets \cup {Left} /\ runs' \in BOOLEAN
      /\ Connections = {} => sessions' = sessions /\ runs' = runs
  BY DEF Asking, Send, Unheard, Receive, Respond, AnswerArrives, AskTimeout, NetTypes, Connections
<1>5. [pending |-> pending, on |-> s, server |-> server] \in AskRows
  BY DEF AskRows
<1>6. ask' \in [Frames -> AskRows]
  BY <1>1, <1>3, <1>5
<1>7. Connections' = Connections
  BY <1>3 DEF Connections
<1>8. Unreached => Unreached'
  BY <1>3, <1>4, <1>7 DEF Unreached
<1>9. Asking(r) => Unseen
  BY <1>1, <1>2, <1>3 DEF Unseen
<1> QED
  BY <1>3, <1>4, <1>6, <1>8, <1>9 DEF NetStep, NetTypes, Unreached

\* A step that changes sockets, with what it leaves alone.
SocketStep == /\ UNCHANGED <<process, step, cleanups, stage, db, ticking, runs, listening, post>>
              /\ sock' \in [Sockets -> SocketRows]
              /\ ask' \in [Frames -> AskRows]
              /\ page' \in {"new", "attached", "removed"} /\ timers' \in Nat
              /\ breaks' \in 0..MaxBreaks
              /\ \/ sessions' = sessions
                 \/ sessions' \subseteq Sockets \cup {Left} /\ (sessions = {} => sessions' = {})
              /\ \/ listening
                 \/ Connections' \subseteq Connections

LEMMA SocketStepIsNetStep ==
    ASSUME NetTypes, runs \in BOOLEAN, SocketStep
    PROVE  NetStep
<1>1. NetTypes'
  BY DEF NetTypes, SocketStep
<1>2. Unreached => Unreached'
  BY DEF Unreached, SocketStep
<1> QED
  BY <1>1, <1>2 DEF SocketStep, NetStep

\* A socket that changes without a server's end that was not there.
LEMMA FewerConnections ==
    ASSUME \A x \in Sockets : sock'[x].server \in {"registered", "closing"} =>
                              sock[x].server \in {"registered", "closing"}
    PROVE  Connections' \subseteq Connections
BY DEF Connections

\* A session is left by its connection.
LEMMA SessionsLeft ==
    ASSUME NetTypes, NEW s
    PROVE  LET left == {IF x = s THEN Left ELSE x : x \in sessions} IN
           left \subseteq Sockets \cup {Left} /\ (sessions = {} => left = {})
BY DEF NetTypes

LEMMA PageSteps ==
    ASSUME GatewayAssumption, NetTypes, NEW s \in Sockets,
           Attach(s) \/ Reconnect(s) \/ Upgraded(s)
    PROVE  SocketStep
<1> USE DEF procVars, netVars
<1>1. sock \in [Sockets -> SocketRows] /\ timers \in Nat
  BY DEF NetTypes
<1>2. CASE Attach(s) \/ Reconnect(s)
  <2>1. Opens(s) /\ page' \in {"new", "attached", "removed"} /\ timers' \in Nat
    BY <1>1, <1>2 DEF Attach, Reconnect, NetTypes
  <2> DEFINE y == [NoSocket EXCEPT !.client = "connecting"]
  <2>2. y \in SocketRows /\ y.server = "none"
    BY NewSockets
  <2>3. sock' = [sock EXCEPT ![s] = y]
    BY <2>1 DEF Opens
  <2> HIDE DEF y
  <2>4. sock' \in [Sockets -> SocketRows] /\ Connections' \subseteq Connections
    BY <1>1, <2>2, <2>3, FewerConnections
  <2> QED
    BY <2>1, <2>4 DEF Opens, SocketStep, NetTypes
<1>3. CASE Upgraded(s)
  <2> DEFINE y == [NoSocket EXCEPT !.client = "open", !.server = Admission]
  <2>1. Admission \in Servers
    BY DEF Admission, Servers
  <2>2. y \in SocketRows
    BY <2>1, NewSockets
  <2>3. sock' = [sock EXCEPT ![s] = y] /\ listening
    BY <1>3 DEF Upgraded
  <2> HIDE DEF y
  <2>4. sock' \in [Sockets -> SocketRows]
    BY <1>1, <2>2, <2>3
  <2> QED
    BY <1>3, <2>3, <2>4 DEF Upgraded, SocketStep, NetTypes
<1> QED
  BY <1>2, <1>3

LEMMA ClosingSteps ==
    ASSUME GatewayAssumption, NetTypes, NEW s \in Sockets,
           ConnectFails(s) \/ SocketCloses(s) \/ PageNotices(s)
    PROVE  /\ SocketStep /\ Closed(s) /\ page' = page
           /\ \A r \in Frames : ~ask'[r].pending
           /\ sock'[s].client = "none" /\ \A x \in Sockets \ {s} : sock'[x] = sock[x]
<1> USE DEF procVars, netVars
<1>1. /\ sock \in [Sockets -> SocketRows] /\ timers \in Nat /\ breaks \in 0..MaxBreaks /\ MaxBreaks \in Nat
      /\ ask \in [Frames -> AskRows]
  BY DEF NetTypes, GatewayAssumption
<1>2. Closed(s) /\ page' = page
  BY DEF ConnectFails, SocketCloses, PageNotices
<1>3. timers' \in Nat /\ ask' = [r \in Frames |-> Cut(r)]
  BY <1>1, <1>2 DEF Closed
<1>4. ask' \in [Frames -> AskRows] /\ \A r \in Frames : ~ask'[r].pending
  BY <1>1, <1>3, CutRows
<1>5. PICK y \in SocketRows : /\ sock' = [sock EXCEPT ![s] = y]
                              /\ y.client = "none" /\ y.server \in {"none", sock[s].server}
  <2>1. CASE ConnectFails(s) \/ SocketCloses(s)
    BY <2>1, NewSockets DEF ConnectFails, SocketCloses
  <2>2. CASE PageNotices(s)
    <3> DEFINE y == [sock[s] EXCEPT !.client = "none"]
    <3>1. y \in SocketRows /\ y.client = "none" /\ y.server = sock[s].server
      BY <1>1, SocketFields DEF Clients
    <3>2. sock' = [sock EXCEPT ![s] = y]
      BY <1>1, <2>2 DEF PageNotices
    <3> QED
      BY <3>1, <3>2
  <2> QED
    BY <2>1, <2>2
<1>6. /\ sock' \in [Sockets -> SocketRows] /\ sock'[s].client = "none"
      /\ \A x \in Sockets \ {s} : sock'[x] = sock[x]
  BY <1>1, <1>5
<1>7. Connections' \subseteq Connections
  BY <1>1, <1>5, FewerConnections
<1>8. \/ sessions' = sessions
      \/ sessions' \subseteq Sockets \cup {Left} /\ (sessions = {} => sessions' = {})
  BY SessionsLeft DEF ConnectFails, SocketCloses, PageNotices
<1>9. /\ breaks' \in 0..MaxBreaks
      /\ UNCHANGED <<process, step, cleanups, stage, db, ticking, runs, listening, post>>
  BY <1>1 DEF ConnectFails, SocketCloses, PageNotices
<1>10. page' \in {"new", "attached", "removed"}
  BY <1>2 DEF NetTypes
<1> QED
  BY <1>2, <1>3, <1>4, <1>6, <1>7, <1>8, <1>9, <1>10 DEF SocketStep

LEMMA QuietSocketSteps ==
    ASSUME GatewayAssumption, NetTypes,
           Heartbeat \/ \E s \in Sockets : Break(s) \/ CloseTimeout(s) \/ Pong(s)
    PROVE  SocketStep /\ Unseen
<1> USE DEF procVars, netVars
<1>1. /\ sock \in [Sockets -> SocketRows] /\ ask \in [Frames -> AskRows]
      /\ breaks \in 0..MaxBreaks /\ MaxBreaks \in Nat /\ timers \in Nat
      /\ page \in {"new", "attached", "removed"}
  BY DEF NetTypes, GatewayAssumption
<1>2. /\ page' = page /\ timers' = timers
      /\ UNCHANGED <<process, step, cleanups, stage, db, ticking, runs, listening, post>>
  BY DEF Heartbeat, Break, CloseTimeout, Pong
<1>3. \/ sessions' = sessions
      \/ sessions' \subseteq Sockets \cup {Left} /\ (sessions = {} => sessions' = {})
  BY SessionsLeft DEF NetTypes, Heartbeat, Break, CloseTimeout, Pong
<1>4. ASSUME NEW s \in Sockets, NEW y \in SocketRows, sock' = [sock EXCEPT ![s] = y],
             y.client = sock[s].client, y.server \in {"none", sock[s].server}
      PROVE  /\ sock' \in [Sockets -> SocketRows] /\ Connections' \subseteq Connections
             /\ \A x \in Sockets : sock'[x].client = sock[x].client
  BY <1>1, <1>4, FewerConnections
<1>5. ASSUME NEW s \in Sockets, Break(s)
      PROVE  SocketStep /\ Unseen
  <2> DEFINE y == [sock[s] EXCEPT !.path = FALSE]
  <2>1. y \in SocketRows /\ y.client = sock[s].client /\ y.server = sock[s].server
    BY <1>1, SocketFields
  <2>2. sock' = [sock EXCEPT ![s] = y]
    BY <1>1, <1>5 DEF Break
  <2> HIDE DEF y
  <2>3. /\ sock' \in [Sockets -> SocketRows] /\ Connections' \subseteq Connections
        /\ \A x \in Sockets : sock'[x].client = sock[x].client
    BY <1>4, <2>1, <2>2
  <2>4. ask' = [r \in Frames |->
                  IF ask[r].on = s /\ ask[r].server \in {"sent", "replied"}
                    THEN [ask[r] EXCEPT !.server = "none"] ELSE ask[r]]
    BY <1>5 DEF Break
  <2>5. \A a \in AskRows : LET b == [a EXCEPT !.server = "none"] IN
           b \in AskRows /\ b.pending = a.pending /\ b.on = a.on
    BY DEF AskRows
  <2>6. /\ ask' \in [Frames -> AskRows]
        /\ \A r \in Frames : ask'[r].pending = ask[r].pending /\ ask'[r].on = ask[r].on
    BY <1>1, <2>4, <2>5
  <2>7. breaks' \in 0..MaxBreaks
    BY <1>1, <1>5 DEF Break
  <2> QED
    BY <1>1, <1>2, <1>3, <2>3, <2>6, <2>7 DEF SocketStep, Unseen
<1>6. ASSUME NEW s \in Sockets, CloseTimeout(s) \/ Pong(s)
      PROVE  SocketStep /\ Unseen
  <2>1. PICK y \in SocketRows : /\ sock' = [sock EXCEPT ![s] = y]
                                /\ y.client = sock[s].client /\ y.server \in {"none", sock[s].server}
    <3>1. CASE CloseTimeout(s)
      <4> DEFINE y == [sock[s] EXCEPT !.server = "none"]
      <4>1. y \in SocketRows /\ y.client = sock[s].client /\ y.server = "none"
        BY <1>1, SocketFields DEF Servers
      <4>2. sock' = [sock EXCEPT ![s] = y]
        BY <1>1, <3>1 DEF CloseTimeout
      <4> QED
        BY <4>1, <4>2
    <3>2. CASE Pong(s)
      <4> DEFINE y == [sock[s] EXCEPT !.alive = TRUE]
      <4>1. y \in SocketRows /\ y.client = sock[s].client /\ y.server = sock[s].server
        BY <1>1, SocketFields
      <4>2. sock' = [sock EXCEPT ![s] = y]
        BY <1>1, <3>2 DEF Pong
      <4> QED
        BY <4>1, <4>2
    <3> QED
      BY <1>6, <3>1, <3>2
  <2>2. ask' = ask /\ breaks' = breaks
    BY <1>6 DEF CloseTimeout, Pong
  <2>3. /\ sock' \in [Sockets -> SocketRows] /\ Connections' \subseteq Connections
        /\ \A x \in Sockets : sock'[x].client = sock[x].client
    BY <1>4, <2>1
  <2> QED
    BY <1>1, <1>2, <1>3, <2>2, <2>3 DEF SocketStep, Unseen
<1>7. CASE Heartbeat
  <2>1. sock' = [s \in Sockets |-> Beat(s)] /\ ask' = ask /\ breaks' = breaks
    BY <1>7 DEF Heartbeat
  <2>2. ASSUME NEW s \in Sockets
        PROVE  /\ Beat(s) \in SocketRows /\ Beat(s).client = sock[s].client
               /\ Beat(s).server \in {"none", sock[s].server}
    <3> DEFINE x == sock[s]
               quiet == [x EXCEPT !.alive = FALSE]
               gone == [x EXCEPT !.server = "none"]
    <3>1. x \in SocketRows /\ Beat(s) \in {x, quiet, gone}
      BY <1>1 DEF Beat
    <3> HIDE DEF x
    <3>2. quiet \in SocketRows /\ quiet.client = x.client /\ quiet.server = x.server
      BY <3>1, SocketFields
    <3>3. gone \in SocketRows /\ gone.client = x.client /\ gone.server = "none"
      BY <3>1, SocketFields DEF Servers
    <3> HIDE DEF quiet, gone, Beat
    <3>4. \/ Beat(s) = x \/ Beat(s) = quiet \/ Beat(s) = gone
      BY <3>1
    <3> QED
      BY <3>1, <3>2, <3>3, <3>4 DEF x
  <2>3. /\ sock' \in [Sockets -> SocketRows]
        /\ \A x \in Sockets : sock'[x].client = sock[x].client
    BY <2>1, <2>2
  <2>4. Connections' \subseteq Connections
    BY <2>1, <2>2, FewerConnections
  <2> QED
    BY <1>1, <1>2, <1>3, <2>1, <2>3, <2>4 DEF SocketStep, Unseen
<1> QED
  BY <1>5, <1>6, <1>7

LEMMA DetachStep ==
    ASSUME NetTypes, Detach
    PROVE  /\ SocketStep /\ page' = "removed" /\ timers' = 0
           /\ \A s \in Sockets : sock'[s].client \notin {"connecting", "open"}
<1>1. sock \in [Sockets -> SocketRows] /\ ask \in [Frames -> AskRows]
  BY DEF NetTypes
<1>2. \A s \in Sockets : LET y == IF s \in Channel THEN [sock[s] EXCEPT !.client = "closing"] ELSE sock[s] IN
         y \in SocketRows /\ y.client \notin {"connecting", "open"} /\ y.server = sock[s].server
  <2> SUFFICES ASSUME NEW s \in Sockets
               PROVE  LET y == IF s \in Channel THEN [sock[s] EXCEPT !.client = "closing"] ELSE sock[s] IN
                      y \in SocketRows /\ y.client \notin {"connecting", "open"} /\ y.server = sock[s].server
    OBVIOUS
  <2>1. sock[s] \in SocketRows
    BY <1>1
  <2>2. LET y == [sock[s] EXCEPT !.client = "closing"] IN
        y \in SocketRows /\ y.client = "closing" /\ y.server = sock[s].server
    BY <2>1, SocketFields DEF Clients
  <2>3. s \notin Channel => sock[s].client \notin {"connecting", "open"}
    BY DEF Channel
  <2> QED
    BY <2>1, <2>2, <2>3
<1>3. /\ sock' \in [Sockets -> SocketRows]
      /\ \A s \in Sockets : sock'[s].client \notin {"connecting", "open"} /\ sock'[s].server = sock[s].server
  BY <1>2 DEF Detach
<1>4. Connections' \subseteq Connections
  BY <1>3, FewerConnections
<1> QED
  BY <1>1, <1>3, <1>4 DEF Detach, SocketStep, NetTypes, procVars

-----------------------------------------------------------------------------
(* The page has one way to the server.                                     *)
ClientInv ==
    /\ page # "removed" =>
         /\ \A s \in Sockets : sock[s].client # "closing"
         /\ \A r \in Frames : ask[r].pending => ask[r].on \in Sockets /\ sock[ask[r].on].client = "open"
    /\ Attached => \/ timers = 1 /\ Channel = {}
                   \/ timers = 0 /\ \E s \in Sockets : Channel = {s}
    /\ ~Attached => Channel = {} /\ timers = 0

LEMMA UnseenKeepsClient ==
    ASSUME ClientInv, Unseen
    PROVE  ClientInv'
<1>1. Channel' = Channel /\ Attached' = Attached
  BY DEF Unseen, Channel, Attached
<1> QED
  BY <1>1 DEF ClientInv, Unseen

LEMMA PageKeepsClient ==
    ASSUME NetTypes, ClientInv, NEW s \in Sockets, Page(s) \/ SocketCloses(s) \/ PageNotices(s),
           GatewayAssumption
    PROVE  ClientInv'
<1> USE DEF procVars, netVars
<1>1. sock \in [Sockets -> SocketRows] /\ ask \in [Frames -> AskRows] /\ timers \in Nat
  BY DEF NetTypes
<1>2. CASE Attach(s) \/ Reconnect(s)
  <2>1. Channel = {} /\ page # "removed" /\ Opens(s) /\ page' = "attached" /\ timers' = 0
    BY <1>1, <1>2 DEF Attach, Reconnect, ClientInv, Attached
  <2>2. \A r \in Frames : ~ask[r].pending
    BY <2>1 DEF ClientInv, Channel
  <2> DEFINE y == [NoSocket EXCEPT !.client = "connecting"]
  <2>3. y.client = "connecting"
    BY NewSockets
  <2>4. sock' = [sock EXCEPT ![s] = y] /\ ask' = ask
    BY <2>1 DEF Opens
  <2> HIDE DEF y
  <2>5. sock'[s].client = "connecting" /\ \A x \in Sockets \ {s} : sock'[x] = sock[x]
    BY <1>1, <2>3, <2>4
  <2>6. Channel' = {s}
    BY <2>1, <2>5 DEF Channel
  <2> QED
    BY <2>1, <2>2, <2>4, <2>5, <2>6 DEF ClientInv, Attached
<1>3. CASE Upgraded(s)
  <2>1. s \in Channel
    BY <1>3 DEF Upgraded, Channel
  <2>2. Attached /\ timers = 0 /\ Channel = {s}
    BY <2>1 DEF ClientInv
  <2> DEFINE y == [NoSocket EXCEPT !.client = "open", !.server = Admission]
  <2>3. y.client = "open"
    BY NewSockets DEF Admission, Servers
  <2>4. sock' = [sock EXCEPT ![s] = y] /\ ask' = ask /\ page' = page /\ timers' = timers
    BY <1>3 DEF Upgraded
  <2> HIDE DEF y
  <2>5. sock'[s].client = "open" /\ \A x \in Sockets \ {s} : sock'[x] = sock[x]
    BY <1>1, <2>3, <2>4
  <2>6. Channel' = {s}
    BY <2>2, <2>5 DEF Channel
  <2> QED
    BY <2>2, <2>4, <2>5, <2>6 DEF ClientInv, Attached
<1>4. CASE ConnectFails(s) \/ SocketCloses(s) \/ PageNotices(s)
  <2>1. /\ Closed(s) /\ page' = page /\ \A r \in Frames : ~ask'[r].pending
        /\ sock'[s].client = "none" /\ \A x \in Sockets \ {s} : sock'[x] = sock[x]
    BY <1>4, ClosingSteps
  <2>2. sock[s].client \in {"connecting", "open", "closing"}
    BY <1>4 DEF ConnectFails, SocketCloses, PageNotices
  <2>3. CASE Attached
    <3>1. s \in Channel
      BY <2>2, <2>3 DEF ClientInv, Channel, Attached
    <3>2. Channel = {s} /\ timers = 0
      BY <2>3, <3>1 DEF ClientInv
    <3>3. Channel' = {} /\ timers' = 1
      BY <2>1, <2>3, <3>2 DEF Channel, Closed
    <3> QED
      BY <2>1, <2>3, <3>3 DEF ClientInv, Attached
  <2>4. CASE ~Attached
    <3>1. Channel' = {} /\ timers' = 0
      BY <2>1, <2>4 DEF ClientInv, Channel, Closed
    <3> QED
      BY <2>1, <2>4, <3>1 DEF ClientInv, Attached
  <2> QED
    BY <2>3, <2>4
<1> QED
  BY <1>2, <1>3, <1>4 DEF Page

LEMMA SendKeepsClient ==
    ASSUME NetTypes, ClientInv, NEW r \in Frames, NEW s \in Sockets, Send(r, s)
    PROVE  ClientInv'
<1>1. /\ ask \in [Frames -> AskRows] /\ sock[s].client = "open"
      /\ \E x : ask' = [ask EXCEPT ![r] = [pending |-> TRUE, on |-> s, server |-> x]]
      /\ sock' = sock /\ page' = page /\ timers' = timers
  BY DEF NetTypes, Send, AskVars
<1>2. ask'[r].on = s /\ \A x \in Frames \ {r} : ask'[x] = ask[x]
  BY <1>1
<1>3. Channel' = Channel /\ Attached' = Attached
  BY <1>1 DEF Channel, Attached
<1> QED
  BY <1>1, <1>2, <1>3 DEF ClientInv

-----------------------------------------------------------------------------
(* The process.                                                            *)

\* What main() has registered before its n-th step.
RegisteredBefore(n) ==
    {p \in Parts : \/ p = "storage" /\ n > 2
                   \/ p = "discord" /\ n > 3
                   \/ p = "alerts" /\ n > 4
                   \/ p = "plugins" /\ n > 5
                   \/ p \in {"scheduler", "accessLog", "gateway", "hotReload"} /\ n > 6}

\* Each part is registered once, the storage first and the gateway after the
\* scheduler that it serves.
InOrder(parts) ==
    /\ \A i, j \in 1..Len(parts) : parts[i] = parts[j] => i = j
    /\ \A i \in 1..Len(parts) : parts[i] = "storage" => i = 1
    /\ \A i, j \in 1..Len(parts) : parts[i] = "scheduler" /\ parts[j] = "gateway" => i < j

Has(part) == Contains(cleanups, part)

\* The order in which the cleanups of a signal run out: the gateway is closed
\* before the scheduler stops, which has stopped before the storage closes.
StoppingInv ==
    /\ (Has("gateway") => Has("scheduler")) /\ (Has("scheduler") => Has("storage"))
    /\ Has("gateway") => stage = "none"
    /\ stage = "closing" => ~listening
    /\ ~Has("gateway") /\ stage \notin {"draining", "closing"} => Unreached
    /\ stage \in {"draining", "closing"} => Has("scheduler")
    /\ stage = "waiting" => ~Has("scheduler") /\ Has("storage")
    /\ ~Has("scheduler") => ~ticking /\ (stage = "none" => ~runs)
    /\ Has("storage") => db

ProcInv ==
    /\ InOrder(cleanups)
    /\ process \in {"exited", "killed"} => cleanups = <<>> /\ stage = "none"
    /\ process = "booting" =>
         /\ stage = "none" /\ \A i \in 1..Len(cleanups) : cleanups[i] \in RegisteredBefore(step)
         /\ step > 2 => Has("storage") /\ db
         /\ step > 6 => Has("scheduler") /\ Has("gateway")
    /\ process = "serving" => /\ stage = "none" /\ db
                              /\ Has("storage") /\ Has("scheduler") /\ Has("gateway")
    /\ process = "stopping" => StoppingInv

GatewayInv == ProcTypes /\ NetTypes /\ ClientInv /\ ProcInv

\* The network does not disturb the order of the cleanups.
LEMMA NetKeepsProc ==
    ASSUME ProcTypes, ProcInv, NetStep
    PROVE  ProcTypes' /\ ProcInv'
<1>1. /\ UNCHANGED <<process, step, cleanups, stage, db, ticking, listening>> /\ runs' \in BOOLEAN
      /\ Unreached => Unreached'
      /\ Unreached /\ ~ticking /\ ~runs => ~runs'
  BY DEF NetStep
<1>2. ProcTypes'
  BY <1>1 DEF ProcTypes
<1>3. \A p : Has(p)' = Has(p)
  BY <1>1 DEF Has
<1>4. StoppingInv => StoppingInv'
  BY <1>1, <1>3 DEF StoppingInv
<1>5. ProcInv'
  BY <1>1, <1>3, <1>4 DEF ProcInv
<1> QED
  BY <1>2, <1>5

\* Taking the last cleanup leaves the others in their order.
LEMMA FrontOf ==
    ASSUME NEW parts \in Seq(Parts), parts # << >>, InOrder(parts)
    PROVE  /\ Front(parts) \in Seq(Parts) /\ InOrder(Front(parts))
           /\ \A p : Contains(Front(parts), p) <=> (Contains(parts, p) /\ p # Last(parts))
           /\ Last(parts) = "storage" => ~Contains(Front(parts), "scheduler")
           /\ Last(parts) = "scheduler" => ~Contains(parts, "gateway")
<1> DEFINE n == Len(parts)
           front == Front(parts)
<1>1. n \in Nat \ {0} /\ \A i \in 1..n : parts[i] \in Parts
  BY EmptySeq, ElementOfSeq
<1>2. /\ front \in Seq(Parts) /\ Len(front) = n - 1
      /\ \A i \in 1..(n - 1) : front[i] = parts[i]
  <2>1. \A i \in 1..(n - 1) : parts[i] \in Parts
    BY <1>1
  <2>2. /\ SubSeq(parts, 1, n - 1) \in Seq(Parts)
        /\ Len(SubSeq(parts, 1, n - 1)) = IF 1 <= n - 1 THEN (n - 1) - 1 + 1 ELSE 0
        /\ \A i \in 1..((n - 1) - 1 + 1) : SubSeq(parts, 1, n - 1)[i] = parts[1 + i - 1]
    BY <1>1, <2>1, SubSeqProperties
  <2>3. (n - 1) - 1 + 1 = n - 1 /\ (~(1 <= n - 1) => n - 1 = 0) /\ \A i \in 1..(n - 1) : 1 + i - 1 = i
    <3>1. n \in Nat \ {0}
      BY <1>1
    <3> HIDE DEF n
    <3> QED
      BY <3>1
  <2> QED
    BY <2>2, <2>3 DEF Front
<1>3. Last(parts) = parts[n]
  BY DEF Last
<1> HIDE DEF front
<1>4. InOrder(front)
  BY <1>1, <1>2 DEF InOrder
<1>5. ASSUME NEW p
      PROVE  Contains(front, p) <=> (Contains(parts, p) /\ p # parts[n])
  <2>1. ASSUME Contains(front, p) PROVE Contains(parts, p) /\ p # parts[n]
    <3>1. PICK i \in 1..(n - 1) : parts[i] = p
      BY <1>2, <2>1 DEF Contains
    <3>2. i \in 1..n /\ n \in 1..n /\ i # n
      BY <1>1
    <3> QED
      BY <3>1, <3>2 DEF Contains, InOrder
  <2>2. ASSUME Contains(parts, p), p # parts[n] PROVE Contains(front, p)
    <3>1. PICK i \in 1..n : parts[i] = p
      BY <2>2 DEF Contains
    <3>2. i \in 1..(n - 1)
      BY <1>1, <2>2, <3>1
    <3> QED
      BY <1>2, <3>1, <3>2 DEF Contains
  <2> QED
    BY <2>1, <2>2
<1>6. ASSUME parts[n] = "storage" PROVE ~Contains(front, "scheduler")
  <2>1. n = 1
    BY <1>1, <1>6 DEF InOrder
  <2> QED
    BY <1>2, <2>1 DEF Contains
<1>7. ASSUME parts[n] = "scheduler" PROVE ~Contains(parts, "gateway")
  BY <1>1, <1>7 DEF InOrder, Contains
<1> QED
  BY <1>2, <1>3, <1>4, <1>5, <1>6, <1>7 DEF front

\* A step of main() registers parts that were not registered before.
LEMMA RegisteredInOrder ==
    ASSUME NEW parts \in Seq(Parts), InOrder(parts), NEW made \in Seq(Parts), InOrder(made), NEW n \in 1..6,
           \A i \in 1..Len(parts) : parts[i] \in RegisteredBefore(n),
           \A i \in 1..Len(made) : made[i] \in RegisteredBefore(n + 1) \ RegisteredBefore(n)
    PROVE  /\ parts \o made \in Seq(Parts) /\ InOrder(parts \o made)
           /\ \A i \in 1..Len(parts \o made) : (parts \o made)[i] \in RegisteredBefore(n + 1)
           /\ \A p : Contains(parts \o made, p) <=> (Contains(parts, p) \/ Contains(made, p))
<1> DEFINE whole == parts \o made
           k == Len(parts)
           m == Len(made)
<1>1. k \in Nat /\ m \in Nat
  BY LenProperties
<1>2. /\ whole \in Seq(Parts) /\ Len(whole) = k + m
      /\ \A i \in 1..k : whole[i] = parts[i]
      /\ \A i \in (k + 1)..(k + m) : whole[i] = made[i - k] /\ i - k \in 1..m
  <2>1. /\ whole \in Seq(Parts) /\ Len(whole) = k + m
        /\ \A i \in 1..(k + m) : whole[i] = IF i <= k THEN parts[i] ELSE made[i - k]
    BY ConcatProperties
  <2>2. \A i \in (k + 1)..(k + m) : i \in 1..(k + m) /\ ~(i <= k) /\ i - k \in 1..m
    BY <1>1
  <2>3. \A i \in 1..k : i \in 1..(k + m) /\ i <= k
    BY <1>1
  <2> QED
    BY <2>1, <2>2, <2>3
<1> HIDE DEF whole
<1>3. \A i \in 1..(k + m) : i \in 1..k \/ i \in (k + 1)..(k + m)
  BY <1>1
<1>4. \A i \in 1..(k + m) : /\ i \in 1..k => whole[i] \in RegisteredBefore(n)
                            /\ i \in (k + 1)..(k + m) => whole[i] \in RegisteredBefore(n + 1) \ RegisteredBefore(n)
  BY <1>2
<1>5. RegisteredBefore(n) \subseteq RegisteredBefore(n + 1)
  BY DEF RegisteredBefore
<1>6. \A i \in 1..(k + m) : whole[i] \in RegisteredBefore(n + 1)
  BY <1>3, <1>4, <1>5
<1>7. ASSUME NEW p
      PROVE  Contains(whole, p) <=> (Contains(parts, p) \/ Contains(made, p))
  <2>1. ASSUME Contains(whole, p) PROVE Contains(parts, p) \/ Contains(made, p)
    <3>1. PICK i \in 1..(k + m) : whole[i] = p
      BY <1>2, <2>1 DEF Contains
    <3> QED
      BY <1>2, <1>3, <3>1 DEF Contains
  <2>2. ASSUME Contains(parts, p) PROVE Contains(whole, p)
    <3>1. PICK i \in 1..k : parts[i] = p
      BY <2>2 DEF Contains
    <3>2. i \in 1..(k + m)
      BY <1>1
    <3> QED
      BY <1>2, <3>1, <3>2 DEF Contains
  <2>3. ASSUME Contains(made, p) PROVE Contains(whole, p)
    <3>1. PICK i \in 1..m : made[i] = p
      BY <2>3 DEF Contains
    <3>2. i + k \in (k + 1)..(k + m) /\ i + k \in 1..(k + m) /\ (i + k) - k = i
      BY <1>1
    <3> QED
      BY <1>2, <3>1, <3>2 DEF Contains
  <2> QED
    BY <2>1, <2>2, <2>3
<1>8. ASSUME NEW i \in 1..(k + m), NEW j \in 1..(k + m), whole[i] = whole[j] PROVE i = j
  <2>1. CASE i \in 1..k /\ j \in 1..k
    BY <1>2, <1>8, <2>1 DEF InOrder
  <2>2. CASE i \in (k + 1)..(k + m) /\ j \in (k + 1)..(k + m)
    <3>1. i - k = j - k
      BY <1>2, <1>8, <2>2 DEF InOrder
    <3> QED
      BY <1>1, <3>1
  <2>3. CASE (i \in 1..k /\ j \in (k + 1)..(k + m)) \/ (j \in 1..k /\ i \in (k + 1)..(k + m))
    BY <1>4, <1>8, <2>3
  <2> QED
    BY <1>3, <2>1, <2>2, <2>3
<1>9. ASSUME NEW i \in 1..(k + m), whole[i] = "storage" PROVE i = 1
  <2>1. CASE i \in 1..k
    BY <1>2, <1>9, <2>1 DEF InOrder
  <2>2. CASE i \in (k + 1)..(k + m)
    <3>1. "storage" \notin RegisteredBefore(n) /\ "storage" \in RegisteredBefore(n + 1)
      BY <1>4, <1>9, <2>2
    <3>2. n = 2
      BY <3>1 DEF RegisteredBefore
    <3>3. RegisteredBefore(n) = {}
      BY <3>2 DEF RegisteredBefore
    <3>4. k = 0
      BY <1>1, <3>3
    <3>5. i - k = 1
      BY <1>2, <1>9, <2>2 DEF InOrder
    <3> QED
      BY <3>4, <3>5
  <2> QED
    BY <1>3, <2>1, <2>2
<1>10. ASSUME NEW i \in 1..(k + m), NEW j \in 1..(k + m), whole[i] = "scheduler", whole[j] = "gateway"
       PROVE  i < j
  <2>1. CASE i \in 1..k /\ j \in 1..k
    BY <1>2, <1>10, <2>1 DEF InOrder
  <2>2. CASE i \in (k + 1)..(k + m) /\ j \in (k + 1)..(k + m)
    <3>1. i - k < j - k
      <4>1. PICK a \in 1..m : a = i - k /\ made[a] = "scheduler"
        BY <1>2, <1>10, <2>2
      <4>2. PICK b \in 1..m : b = j - k /\ made[b] = "gateway"
        BY <1>2, <1>10, <2>2
      <4>3. a < b
        BY <4>1, <4>2 DEF InOrder
      <4> QED
        BY <4>1, <4>2, <4>3
    <3> QED
      BY <1>1, <3>1
  <2>3. CASE i \in 1..k /\ j \in (k + 1)..(k + m)
    BY <1>1, <2>3
  <2>4. CASE j \in 1..k /\ i \in (k + 1)..(k + m)
    <3>1. "gateway" \in RegisteredBefore(n) /\ "scheduler" \notin RegisteredBefore(n)
      BY <1>4, <1>10, <2>4
    <3> QED
      BY <3>1 DEF RegisteredBefore, Parts
  <2> QED
    BY <1>3, <2>1, <2>2, <2>3, <2>4
<1>11. InOrder(whole)
  BY <1>2, <1>8, <1>9, <1>10 DEF InOrder
<1> QED
  BY <1>2, <1>6, <1>7, <1>11 DEF whole

-----------------------------------------------------------------------------
(* The steps of the process.                                               *)

\* A step of main().
LEMMA BootKeepsProc ==
    ASSUME ProcTypes, ProcInv, NEW n \in 1..6, NEW made \in Seq(Parts), Boot(n, made),
           InOrder(made),
           \A i \in 1..Len(made) : made[i] \in RegisteredBefore(n + 1) \ RegisteredBefore(n),
           db' \in BOOLEAN, db => db', n = 2 => db' /\ Contains(made, "storage"),
           n = 6 => Contains(made, "scheduler") /\ Contains(made, "gateway")
    PROVE  ProcTypes' /\ ProcInv'
<1>1. /\ process = "booting" /\ step = n /\ step' = n + 1 /\ cleanups' = cleanups \o made
      /\ UNCHANGED <<process, stage, ticking, runs, listening>>
  BY DEF Boot
<1>2. /\ cleanups \in Seq(Parts) /\ InOrder(cleanups) /\ stage = "none"
      /\ \A i \in 1..Len(cleanups) : cleanups[i] \in RegisteredBefore(n)
      /\ n > 2 => Has("storage") /\ db
  BY <1>1 DEF ProcTypes, ProcInv
<1>3. /\ cleanups' \in Seq(Parts) /\ InOrder(cleanups')
      /\ \A i \in 1..Len(cleanups') : cleanups'[i] \in RegisteredBefore(n + 1)
      /\ \A p : Contains(cleanups', p) <=> (Contains(cleanups, p) \/ Contains(made, p))
  BY <1>1, <1>2, RegisteredInOrder
<1>4. ProcTypes'
  BY <1>1, <1>3 DEF ProcTypes
<1>5. step' > 2 => Has("storage")' /\ db'
  BY <1>1, <1>2, <1>3 DEF Has
<1>6. step' > 6 => Has("scheduler")' /\ Has("gateway")'
  BY <1>1, <1>3 DEF Has
<1>7. /\ process' = "booting" /\ stage' = "none" /\ InOrder(cleanups')
      /\ \A i \in 1..Len(cleanups') : cleanups'[i] \in RegisteredBefore(step')
  BY <1>1, <1>2, <1>3
<1>8. ProcInv'
  <2>1. InOrder(cleanups)'
    BY <1>7 DEF InOrder
  <2> QED
    BY <1>5, <1>6, <1>7, <2>1 DEF ProcInv, RegisteredBefore
<1> QED
  BY <1>4, <1>8

\* What the steps of main() register.
LEMMA RegisteredParts ==
    /\ << >> \in Seq(Parts) /\ Len(<< >>) = 0 /\ InOrder(<< >>)
    /\ \A p \in Parts : /\ <<p>> \in Seq(Parts) /\ Len(<<p>>) = 1 /\ InOrder(<<p>>)
                        /\ Contains(<<p>>, p)
                        /\ \A i \in 1..Len(<<p>>) : <<p>>[i] = p
<1>1. << >> \in Seq(Parts) /\ Len(<< >>) = 0 /\ InOrder(<< >>)
  BY DEF InOrder
<1>2. ASSUME NEW p \in Parts
      PROVE  /\ <<p>> \in Seq(Parts) /\ Len(<<p>>) = 1 /\ InOrder(<<p>>)
             /\ Contains(<<p>>, p)
             /\ \A i \in 1..Len(<<p>>) : <<p>>[i] = p
  <2>1. <<p>> \in Seq(Parts) /\ Len(<<p>>) = 1 /\ <<p>>[1] = p
    OBVIOUS
  <2>2. 1..1 = {1}
    OBVIOUS
  <2> QED
    BY <2>1, <2>2 DEF InOrder, Contains
<1> QED
  BY <1>1, <1>2

\* The lanes, the scheduler and the gateway, and hot reload outside production.
LEMMA WiredParts ==
    ASSUME NEW made,
           \/ made = <<"scheduler", "accessLog", "gateway">>
           \/ made = <<"scheduler", "accessLog", "gateway", "hotReload">>
    PROVE  /\ made \in Seq(Parts) /\ InOrder(made)
           /\ \A i \in 1..Len(made) : made[i] \in {"scheduler", "accessLog", "gateway", "hotReload"}
           /\ Contains(made, "scheduler") /\ Contains(made, "gateway")
<1>1. CASE made = <<"scheduler", "accessLog", "gateway">>
  <2>1. made \in Seq(Parts) /\ Len(made) = 3
    BY <1>1 DEF Parts
  <2>2. made[1] = "scheduler" /\ made[2] = "accessLog" /\ made[3] = "gateway" /\ 1..3 = {1, 2, 3}
    BY <1>1
  <2> QED
    BY <2>1, <2>2 DEF InOrder, Contains
<1>2. CASE made = <<"scheduler", "accessLog", "gateway", "hotReload">>
  <2>1. made \in Seq(Parts) /\ Len(made) = 4
    BY <1>2 DEF Parts
  <2>2. /\ made[1] = "scheduler" /\ made[2] = "accessLog" /\ made[3] = "gateway" /\ made[4] = "hotReload"
        /\ 1..4 = {1, 2, 3, 4}
    BY <1>2
  <2> QED
    BY <2>1, <2>2 DEF InOrder, Contains
<1> QED
  BY <1>1, <1>2

LEMMA BootSteps ==
    ASSUME ProcTypes, ProcInv,
           LoadConfig \/ OpenStorage \/ LoginDiscord \/ RegisterSkills \/ LoadPlugins \/ WireGateway
    PROVE  ProcTypes' /\ ProcInv'
<1>1. db \in BOOLEAN
  BY DEF ProcTypes
<1> DEFINE Made(n) == RegisteredBefore(n + 1) \ RegisteredBefore(n)
<1>2. ASSUME NEW n \in 1..5, n # 2, Boot(n, << >>), db' = db
      PROVE  ProcTypes' /\ ProcInv'
  <2>1. << >> \in Seq(Parts) /\ InOrder(<< >>) /\ \A i \in 1..Len(<< >>) : << >>[i] \in Made(n)
    BY RegisteredParts
  <2>2. n \in 1..6 /\ n # 2 /\ n # 6
    BY <1>2
  <2>3. db' \in BOOLEAN /\ (db => db')
    BY <1>1, <1>2
  <2>4. n = 2 => db' /\ Contains(<< >>, "storage")
    BY <2>2
  <2>5. n = 6 => Contains(<< >>, "scheduler") /\ Contains(<< >>, "gateway")
    BY <2>2
  <2> QED
    BY <1>2, <2>1, <2>2, <2>3, <2>4, <2>5, BootKeepsProc
<1>3. ASSUME NEW n \in 2..5, NEW p \in Parts, Boot(n, <<p>>), p \in Made(n),
             db' \in BOOLEAN, db => db', n = 2 => db' /\ p = "storage"
      PROVE  ProcTypes' /\ ProcInv'
  <2>1. /\ <<p>> \in Seq(Parts) /\ InOrder(<<p>>) /\ Contains(<<p>>, p)
        /\ \A i \in 1..Len(<<p>>) : <<p>>[i] \in Made(n)
    BY <1>3, RegisteredParts
  <2>2. n \in 1..6 /\ n # 6
    OBVIOUS
  <2>3. n = 2 => db' /\ Contains(<<p>>, "storage")
    BY <1>3, <2>1
  <2>4. n = 6 => Contains(<<p>>, "scheduler") /\ Contains(<<p>>, "gateway")
    BY <2>2
  <2> QED
    BY <1>3, <2>1, <2>2, <2>3, <2>4, BootKeepsProc
<1>4. /\ "storage" \in Made(2) /\ "discord" \in Made(3) /\ "alerts" \in Made(4) /\ "plugins" \in Made(5)
      /\ {"storage", "discord", "alerts", "plugins"} \subseteq Parts
  BY DEF RegisteredBefore, Parts
<1>5. CASE LoadConfig
  BY <1>2, <1>5 DEF LoadConfig
<1>6. CASE OpenStorage
  BY <1>1, <1>3, <1>4, <1>6 DEF OpenStorage
<1>7. CASE LoginDiscord
  BY <1>1, <1>3, <1>4, <1>7 DEF LoginDiscord
<1>8. CASE RegisterSkills
  BY <1>1, <1>2, <1>3, <1>4, <1>8 DEF RegisterSkills
<1>9. CASE LoadPlugins
  BY <1>1, <1>3, <1>4, <1>9 DEF LoadPlugins
<1>10. CASE WireGateway
  <2>1. PICK made : /\ \/ made = <<"scheduler", "accessLog", "gateway">>
                       \/ made = <<"scheduler", "accessLog", "gateway", "hotReload">>
                    /\ Boot(6, made) /\ db' = db
    BY <1>10 DEF WireGateway
  <2>2. /\ made \in Seq(Parts) /\ InOrder(made)
        /\ \A i \in 1..Len(made) : made[i] \in {"scheduler", "accessLog", "gateway", "hotReload"}
        /\ Contains(made, "scheduler") /\ Contains(made, "gateway")
    BY <2>1, WiredParts
  <2>3. {"scheduler", "accessLog", "gateway", "hotReload"} \subseteq Made(6)
    BY DEF RegisteredBefore, Parts
  <2>4. \A i \in 1..Len(made) : made[i] \in Made(6)
    BY <2>2, <2>3
  <2>5. 6 \in 1..6 /\ 6 # 2 /\ db' \in BOOLEAN /\ (db => db')
    BY <1>1, <2>1
  <2>6. 6 = 2 => db' /\ Contains(made, "storage")
    BY <2>5
  <2> QED
    BY <2>1, <2>2, <2>4, <2>5, <2>6, BootKeepsProc
<1> QED
  BY <1>5, <1>6, <1>7, <1>8, <1>9, <1>10

\* A step of the process alone.
LEMMA NetUntouched ==
    ASSUME NetTypes, UNCHANGED <<sessions, netVars, post>>
    PROVE  NetTypes' /\ Unseen /\ (Unreached /\ ~listening' => Unreached')
<1> USE DEF netVars
<1>1. Connections' = Connections
  BY DEF Connections
<1> QED
  BY <1>1 DEF NetTypes, Unseen, Unreached

\* The start of serving, of the process again, and of stopping.
LEMMA PhaseSteps ==
    ASSUME ProcTypes, NetTypes, ProcInv, Serve \/ Respawn \/ Signal
    PROVE  ProcTypes' /\ NetTypes' /\ ProcInv' /\ Unseen
<1>1. UNCHANGED <<sessions, netVars, post>> /\ cleanups' = cleanups /\ stage' = stage /\ db' = db
  BY DEF Serve, Respawn, Signal
<1>2. NetTypes' /\ Unseen
  BY <1>1, NetUntouched
<1>3. ProcTypes'
  <2>1. /\ process' \in {"booting", "serving", "stopping"} /\ step' \in {step, 1}
        /\ listening' \in {listening, TRUE} /\ ticking' \in {ticking, TRUE} /\ runs' = runs
    BY DEF Serve, Respawn, Signal
  <2>2. step' \in 1..7
    BY <2>1 DEF ProcTypes
  <2> QED
    BY <1>1, <2>1, <2>2 DEF ProcTypes
<1>4. InOrder(cleanups)' /\ \A p : Has(p)' = Has(p)
  BY <1>1 DEF ProcInv, InOrder, Has
<1>5. CASE Serve
  BY <1>1, <1>2, <1>3, <1>4, <1>5 DEF ProcInv, Serve
<1>6. CASE Respawn
  <2>1. /\ cleanups' = << >> /\ stage' = "none" /\ process' = "booting" /\ step' = 1
        /\ \A i \in 1..Len(<< >>) : FALSE
    BY <1>1, <1>6 DEF ProcInv, Respawn
  <2> QED
    BY <1>2, <1>3, <1>4, <2>1 DEF ProcInv
<1>7. CASE Signal
  <2>1. /\ stage' = "none" /\ process' = "stopping" /\ db'
        /\ Has("storage")' /\ Has("scheduler")' /\ Has("gateway")'
    BY <1>1, <1>4, <1>7 DEF ProcInv, Signal
  <2>2. StoppingInv'
    BY <2>1 DEF StoppingInv
  <2> QED
    BY <1>2, <1>3, <1>4, <2>1, <2>2 DEF ProcInv
<1> QED
  BY <1>2, <1>3, <1>5, <1>6, <1>7

\* The process is gone.
LEMMA GoneSteps ==
    ASSUME ProcTypes, NetTypes, BootFails \/ ExitCleanly \/ ForceExit
    PROVE  ProcTypes' /\ NetTypes' /\ ProcInv' /\ Unseen
<1>1. PICK how \in {"exited", "killed"} : Gone(how)
  BY DEF BootFails, ExitCleanly, ForceExit
<1>2. /\ process' = how /\ cleanups' = << >> /\ stage' = "none" /\ db' = FALSE /\ listening' = FALSE
      /\ ticking' = FALSE /\ runs' = FALSE /\ sessions' = {}
      /\ sock' = [s \in Sockets |-> [sock[s] EXCEPT !.server = "none"]]
      /\ ask' = [r \in Frames |-> [ask[r] EXCEPT !.server = "none"]]
      /\ post' = [p \in Posts |-> "none"]
      /\ UNCHANGED <<step, page, timers, breaks>>
  BY <1>1 DEF Gone
<1>3. /\ sock' \in [Sockets -> SocketRows]
      /\ \A s \in Sockets : sock'[s].client = sock[s].client
  BY <1>2, SocketFields DEF NetTypes, Servers
<1>4. \A a \in AskRows : LET b == [a EXCEPT !.server = "none"] IN
           b \in AskRows /\ b.pending = a.pending /\ b.on = a.on
  BY DEF AskRows
<1>5. /\ ask' \in [Frames -> AskRows]
      /\ \A r \in Frames : ask'[r].pending = ask[r].pending /\ ask'[r].on = ask[r].on
  BY <1>2, <1>4 DEF NetTypes
<1>6. NetTypes' /\ Unseen
  BY <1>2, <1>3, <1>5 DEF NetTypes, Unseen
<1>7. ProcTypes'
  BY <1>2, RegisteredParts DEF ProcTypes
<1>8. InOrder(cleanups)'
  BY <1>2, RegisteredParts DEF InOrder
<1> QED
  BY <1>2, <1>6, <1>7, <1>8 DEF ProcInv

\* What is left once the last cleanup is taken.
LEMMA TakenPart ==
    ASSUME ProcTypes, ProcInv, NEW part, Takes(part)
    PROVE  /\ process = "stopping" /\ process' = "stopping" /\ step' = step /\ stage = "none" /\ StoppingInv
           /\ cleanups' \in Seq(Parts) /\ InOrder(cleanups)' /\ Has(part)
           /\ \A p : Has(p)' <=> (Has(p) /\ p # part)
           /\ part = "storage" => ~Has("scheduler")'
           /\ part = "scheduler" => ~Has("gateway")
<1>1. /\ cleanups \in Seq(Parts) /\ cleanups # << >> /\ InOrder(cleanups) /\ part = Last(cleanups)
      /\ cleanups' = Front(cleanups)
      /\ process = "stopping" /\ stage = "none" /\ UNCHANGED <<process, step>>
  BY DEF Takes, NextCleanup, ProcTypes, ProcInv
<1>2. /\ Front(cleanups) \in Seq(Parts) /\ InOrder(Front(cleanups))
      /\ \A p : Contains(Front(cleanups), p) <=> (Contains(cleanups, p) /\ p # Last(cleanups))
      /\ Last(cleanups) = "storage" => ~Contains(Front(cleanups), "scheduler")
      /\ Last(cleanups) = "scheduler" => ~Contains(cleanups, "gateway")
  BY <1>1, FrontOf
<1>3. InOrder(cleanups)'
  BY <1>1, <1>2 DEF InOrder
<1>4. Has(part)
  <2>1. Len(cleanups) \in 1..Len(cleanups)
    BY <1>1, EmptySeq, LenProperties
  <2> QED
    BY <1>1, <2>1 DEF Has, Contains, Last
<1>5. StoppingInv
  BY <1>1 DEF ProcInv
<1> QED
  BY <1>1, <1>2, <1>3, <1>4, <1>5 DEF Has

\* The cleanups that only the process takes part in.
LEMMA CleanupSteps ==
    ASSUME ProcTypes, NetTypes, ProcInv,
           StopPart \/ StopScheduler \/ SchedulerStopped \/ CloseStorage
    PROVE  ProcTypes' /\ NetTypes' /\ ProcInv' /\ Unseen
<1>1. UNCHANGED <<sessions, netVars, post, listening>> /\ listening \in BOOLEAN
  BY DEF StopPart, StopScheduler, SchedulerStopped, CloseStorage, ProcTypes
<1>2. NetTypes' /\ Unseen /\ (Unreached => Unreached')
  <2>1. Unreached => ~listening'
    BY <1>1 DEF Unreached
  <2> QED
    BY <1>1, <2>1, NetUntouched
<1>3. CASE StopPart
  <2>1. PICK part \in {"hotReload", "accessLog", "plugins", "alerts", "discord"} : Takes(part)
    BY <1>3 DEF StopPart
  <2>2. UNCHANGED <<stage, db, ticking, runs>>
    BY <1>3 DEF StopPart
  <2>3. StoppingInv'
    BY <1>1, <1>2, <2>1, <2>2, TakenPart DEF StoppingInv
  <2> QED
    BY <1>1, <1>2, <2>1, <2>2, <2>3, TakenPart DEF ProcInv, ProcTypes
<1>4. CASE StopScheduler
  <2>1. /\ Takes("scheduler") /\ ticking' = FALSE /\ stage' = "waiting"
        /\ UNCHANGED <<db, runs>>
    BY <1>4 DEF StopScheduler
  <2>2. StoppingInv'
    BY <1>1, <1>2, <2>1, TakenPart DEF StoppingInv
  <2> QED
    BY <1>1, <1>2, <2>1, <2>2, TakenPart DEF ProcInv, ProcTypes
<1>5. CASE SchedulerStopped
  <2>1. /\ stage = "waiting" /\ ~runs /\ stage' = "none"
        /\ UNCHANGED <<process, step, cleanups, db, ticking, runs>>
    BY <1>5 DEF SchedulerStopped
  <2>2. process = "stopping" /\ StoppingInv /\ InOrder(cleanups)' /\ \A p : Has(p)' = Has(p)
    BY <2>1 DEF ProcInv, ProcTypes, InOrder, Has
  <2>3. StoppingInv'
    BY <1>1, <1>2, <2>1, <2>2 DEF StoppingInv
  <2> QED
    BY <1>1, <1>2, <2>1, <2>2, <2>3 DEF ProcInv, ProcTypes
<1>6. CASE CloseStorage
  <2>1. Takes("storage") /\ db' = FALSE /\ UNCHANGED <<stage, ticking, runs>>
    BY <1>6 DEF CloseStorage
  <2>2. StoppingInv'
    BY <1>1, <1>2, <2>1, TakenPart DEF StoppingInv
  <2> QED
    BY <1>1, <1>2, <2>1, <2>2, TakenPart DEF ProcInv, ProcTypes
<1> QED
  BY <1>3, <1>4, <1>5, <1>6

\* stop() closes the server's end of every socket that is registered.
LEMMA ClosedServer ==
    ASSUME NetTypes, CloseServer, UNCHANGED <<page, timers, ask, breaks, post>>,
           sessions' = {} \/ sessions' = sessions
    PROVE  NetTypes' /\ Unseen /\ stage' = "closing" /\ listening' = FALSE
<1>1. /\ sock' \in [Sockets -> SocketRows]
      /\ \A s \in Sockets : sock'[s].client = sock[s].client
  BY SocketFields DEF CloseServer, NetTypes, Servers
<1> QED
  BY <1>1 DEF NetTypes, Unseen, CloseServer

\* The cleanup of the gateway.
LEMMA ServerSteps ==
    ASSUME ProcTypes, NetTypes, ProcInv, StopGateway \/ Drained \/ GatewayStopped
    PROVE  ProcTypes' /\ NetTypes' /\ ProcInv' /\ Unseen
<1>1. CASE StopGateway
  <2>1. /\ Takes("gateway") /\ sessions' = {}
        /\ UNCHANGED <<db, ticking, runs, page, timers, ask, breaks, post>>
    BY <1>1 DEF StopGateway
  <2>2. /\ NetTypes' /\ Unseen /\ listening' \in BOOLEAN
        /\ stage' = "draining" \/ (stage' = "closing" /\ ~listening')
    <3>1. CASE CloseServer
      BY <2>1, <3>1, ClosedServer
    <3>2. CASE stage' = "draining" /\ UNCHANGED <<listening, sock>>
      BY <2>1, <3>2 DEF NetTypes, ProcTypes, Unseen
    <3> QED
      BY <1>1, <3>1, <3>2 DEF StopGateway
  <2>3. StoppingInv'
    BY <2>1, <2>2, TakenPart DEF StoppingInv
  <2> QED
    BY <2>1, <2>2, <2>3, TakenPart DEF ProcInv, ProcTypes
<1>2. CASE Drained
  <2>1. /\ stage = "draining" /\ CloseServer
        /\ UNCHANGED <<process, step, cleanups, db, ticking, runs, sessions,
                       page, timers, ask, breaks, post>>
    BY <1>2 DEF Drained
  <2>2. NetTypes' /\ Unseen /\ stage' = "closing" /\ listening' = FALSE
    BY <2>1, ClosedServer
  <2>3. process = "stopping" /\ StoppingInv /\ InOrder(cleanups)' /\ \A p : Has(p)' = Has(p)
    BY <2>1 DEF ProcInv, ProcTypes, InOrder, Has
  <2>4. StoppingInv'
    BY <2>1, <2>2, <2>3 DEF StoppingInv
  <2> QED
    BY <2>1, <2>2, <2>3, <2>4 DEF ProcInv, ProcTypes
<1>3. CASE GatewayStopped
  <2>1. /\ \A s \in Sockets : sock[s].server = "none"
        /\ \A p \in Posts : post[p] # "running"
        /\ stage = "closing" /\ stage' = "none" /\ sessions' = {}
        /\ UNCHANGED <<process, step, cleanups, db, ticking, runs, listening, sock, page, timers,
                       ask, breaks, post>>
    BY <1>3 DEF GatewayStopped, GatewayStoppedEarly, netVars
  <2>2. NetTypes' /\ Unseen
    BY <2>1 DEF NetTypes, Unseen
  <2>3. process = "stopping" /\ StoppingInv /\ InOrder(cleanups)' /\ \A p : Has(p)' = Has(p)
    BY <2>1 DEF ProcInv, ProcTypes, InOrder, Has
  <2>4. Connections' = {}
    BY <2>1 DEF Connections
  <2>5. Unreached'
    BY <2>1, <2>3, <2>4 DEF Unreached, StoppingInv
  <2>6. StoppingInv'
    BY <2>1, <2>3, <2>5 DEF StoppingInv
  <2> QED
    BY <2>1, <2>2, <2>3, <2>6 DEF ProcInv, ProcTypes
<1> QED
  BY <1>1, <1>2, <1>3

-----------------------------------------------------------------------------
(* The invariant, and what it says.                                        *)

LEMMA GatewayInvInit == GatewayAssumption => (GatewayInit => GatewayInv)
<1> SUFFICES ASSUME GatewayAssumption, GatewayInit PROVE GatewayInv
  OBVIOUS
<1> USE DEF GatewayInit
<1>1. ProcTypes
  <2>1. 1 \in 1..7 /\ << >> \in Seq(Parts)
    BY RegisteredParts
  <2> QED
    BY <2>1 DEF ProcTypes
<1>2. NetTypes
  <2>1. sock \in [Sockets -> SocketRows]
    BY NewSockets
  <2>2. NoRequest \in AskRows
    BY DEF NoRequest, AskRows
  <2>3. ask \in [Frames -> AskRows]
    BY <2>2
  <2>4. 0 \in 0..MaxBreaks
    BY DEF GatewayAssumption
  <2> QED
    BY <2>1, <2>3, <2>4 DEF NetTypes
<1>3. ClientInv
  <2>1. \A s \in Sockets : sock[s].client = "none"
    BY NewSockets
  <2>2. \A r \in Frames : ~ask[r].pending
    BY DEF NoRequest
  <2>3. Channel = {}
    BY <2>1 DEF Channel
  <2> QED
    BY <2>1, <2>2, <2>3 DEF ClientInv, Attached
<1>4. ProcInv
  <2>1. cleanups = << >> /\ Len(<< >>) = 0 /\ InOrder(cleanups)
    BY RegisteredParts
  <2>2. \A i \in 1..Len(cleanups) : FALSE
    BY <2>1
  <2> QED
    BY <2>1, <2>2 DEF ProcInv
<1> QED
  BY <1>1, <1>2, <1>3, <1>4 DEF GatewayInv

\* Each step of the process, the network, the page and the callers keeps it.
LEMMA GatewayInvStep == GatewayAssumption => (GatewayInv /\ [GatewayNext]_gatewayVars => GatewayInv')
<1> SUFFICES ASSUME GatewayAssumption, GatewayInv, [GatewayNext]_gatewayVars PROVE GatewayInv'
  OBVIOUS
<1>1. ProcTypes /\ NetTypes /\ ClientInv /\ ProcInv /\ runs \in BOOLEAN
  BY DEF GatewayInv, ProcTypes
<1>2. ASSUME NetStep, ClientInv' PROVE GatewayInv'
  BY <1>1, <1>2, NetKeepsProc DEF GatewayInv, NetStep
<1>3. ASSUME NetStep, Unseen PROVE GatewayInv'
  BY <1>1, <1>2, <1>3, UnseenKeepsClient
<1>4. ASSUME ProcTypes', NetTypes', ProcInv', Unseen PROVE GatewayInv'
  BY <1>1, <1>4, UnseenKeepsClient DEF GatewayInv
<1>5. CASE Starting
  <2>1. CASE LoadConfig \/ OpenStorage \/ LoginDiscord \/ RegisterSkills \/ LoadPlugins \/ WireGateway
    <3>1. UNCHANGED <<sessions, netVars, post>>
      BY <2>1 DEF LoadConfig, OpenStorage, LoginDiscord, RegisterSkills, LoadPlugins, WireGateway, Boot
    <3> QED
      BY <1>1, <1>4, <2>1, <3>1, BootSteps, NetUntouched
  <2>2. CASE Serve \/ Respawn
    BY <1>1, <1>4, <2>2, PhaseSteps
  <2>3. CASE BootFails
    BY <1>1, <1>4, <2>3, GoneSteps
  <2> QED
    BY <1>5, <2>1, <2>2, <2>3 DEF Starting
<1>6. CASE Stopping
  <2>1. CASE Signal
    BY <1>1, <1>4, <2>1, PhaseSteps
  <2>2. CASE StopPart \/ StopScheduler \/ SchedulerStopped \/ CloseStorage
    BY <1>1, <1>4, <2>2, CleanupSteps
  <2>3. CASE StopGateway \/ Drained \/ GatewayStopped
    BY <1>1, <1>4, <2>3, ServerSteps
  <2>4. CASE ExitCleanly \/ ForceExit
    BY <1>1, <1>4, <2>4, GoneSteps
  <2> QED
    BY <1>6, <2>1, <2>2, <2>3, <2>4 DEF Stopping
<1>7. CASE Detach
  <2>1. /\ SocketStep /\ page' = "removed" /\ timers' = 0
        /\ \A s \in Sockets : sock'[s].client \notin {"connecting", "open"}
    BY <1>1, <1>7, DetachStep
  <2>2. ClientInv'
    BY <2>1 DEF ClientInv, Attached, Channel
  <2> QED
    BY <1>1, <1>2, <2>1, <2>2, SocketStepIsNetStep
<1>8. CASE Heartbeat \/ \E s \in Sockets : Break(s) \/ CloseTimeout(s) \/ Pong(s)
  BY <1>1, <1>3, <1>8, QuietSocketSteps, SocketStepIsNetStep
<1>9. CASE SessionExpires \/ RunStarts \/ RunsEnd
  BY <1>1, <1>3, <1>9, RunSteps
<1>10. ASSUME NEW s \in Sockets, Page(s) \/ SocketCloses(s) \/ PageNotices(s)
       PROVE  GatewayInv'
  <2>1. SocketStep
    BY <1>1, <1>10, PageSteps, ClosingSteps DEF Page
  <2>2. ClientInv'
    BY <1>1, <1>10, PageKeepsClient
  <2> QED
    BY <1>1, <1>2, <2>1, <2>2, SocketStepIsNetStep
<1>11. ASSUME NEW s \in Sockets, NEW r \in Frames, Send(r, s)
       PROVE  GatewayInv'
  <2>1. NetStep
    BY <1>1, <1>11, AskSteps
  <2>2. ClientInv'
    BY <1>1, <1>11, SendKeepsClient
  <2> QED
    BY <1>2, <2>1, <2>2
<1>12. ASSUME NEW r \in Frames, Asking(r)
       PROVE  GatewayInv'
  BY <1>1, <1>3, <1>12, AskSteps
<1>13. ASSUME NEW p \in Posts, Posting(p)
       PROVE  GatewayInv'
  BY <1>1, <1>3, <1>13, PostSteps
<1>14. CASE UNCHANGED gatewayVars
  <2>1. UNCHANGED <<procVars, listening, sessions, netVars, post>>
    BY <1>14 DEF gatewayVars
  <2>2. NetTypes' /\ Unseen /\ (Unreached => Unreached')
    <3>1. Unreached => ~listening'
      BY <2>1 DEF Unreached
    <3> QED
      BY <1>1, <2>1, <3>1, NetUntouched
  <2>3. NetStep
    BY <1>1, <2>1, <2>2 DEF NetStep, procVars
  <2> QED
    BY <1>3, <2>2, <2>3
<1>15. \A s \in Sockets : Page(s) \/ Ends(s) => GatewayInv'
  BY <1>8, <1>10 DEF Ends
<1> QED
  BY <1>5, <1>6, <1>7, <1>8, <1>9, <1>11, <1>12, <1>13, <1>14, <1>15 DEF GatewayNext

LEMMA GatewayInvIsTypeOK == GatewayInv => GatewayTypeOK
<1> SUFFICES ASSUME GatewayInv PROVE GatewayTypeOK
  OBVIOUS
<1>1. ProcTypes /\ NetTypes
  BY DEF GatewayInv
<1>2. SocketRows = [client : {"none", "connecting", "open", "closing"},
                    server : {"none", "registered", "refused", "closing"},
                    path : BOOLEAN, alive : BOOLEAN]
  BY DEF SocketRows, Clients, Servers
<1> QED
  BY <1>1, <1>2 DEF ProcTypes, NetTypes, GatewayTypeOK, AskRows

LEMMA GatewayInvKeepsConnections == GatewayInv => ConnectionsKept
<1> SUFFICES ASSUME GatewayInv PROVE ConnectionsKept
  OBVIOUS
<1>1. ProcTypes /\ NetTypes /\ ClientInv /\ ProcInv /\ GatewayTypeOK
  BY GatewayInvIsTypeOK DEF GatewayInv
<1>2. Attached => Cardinality(Channel) + timers = 1
  <2>1. ASSUME timers = 1, Channel = {} PROVE Cardinality(Channel) + timers = 1
    BY <2>1, FS_EmptySet
  <2>2. ASSUME timers = 0, NEW s \in Sockets, Channel = {s} PROVE Cardinality(Channel) + timers = 1
    BY <2>2, FS_Singleton
  <2> QED
    BY <1>1, <2>1, <2>2 DEF ClientInv
<1>3. ClientCoherent
  BY <1>1, <1>2 DEF ClientCoherent, ClientInv, Attached
<1>4. NothingCutOff
  <2> SUFFICES ASSUME process = "stopping" PROVE NothingCutOff
    BY DEF NothingCutOff
  <2>1. StoppingInv
    BY <1>1 DEF ProcInv
  <2>2. ~Has("scheduler") => Unreached
    BY <2>1 DEF StoppingInv
  <2>3. ~db => ~ticking /\ ~runs /\ stage = "none"
    BY <1>1, <2>1 DEF StoppingInv, ProcTypes
  <2> QED
    BY <2>2, <2>3 DEF NothingCutOff, Unreached, Has
<1> QED
  BY <1>3, <1>4 DEF ConnectionsKept

THEOREM GatewayInvHolds == ASSUME GatewayAssumption PROVE GatewaySpec => []GatewayInv
<1>1. GatewayAssumption
  OBVIOUS
<1> QED
  BY <1>1, GatewayInvInit, GatewayInvStep, PTL DEF GatewaySpec

\* Every variable keeps its type: the phases of the process, the cleanups that
\* main() has registered, both ends of every socket, and the requests.
THEOREM GatewayTypeCorrect == ASSUME GatewayAssumption PROVE GatewaySpec => []GatewayTypeOK
BY GatewayInvHolds, GatewayInvIsTypeOK, PTL

\* The page has one way to the server at a time, with any number of sockets and
\* path failures (app-gateway.ts), and the cleanups of a signal cut nothing off
\* that they were to end before (main.ts, lifecycle.ts, server.ts).
THEOREM ConnectionsAreKept == ASSUME GatewayAssumption PROVE GatewaySpec => []ConnectionsKept
BY GatewayInvHolds, GatewayInvKeepsConnections, PTL
=============================================================================
