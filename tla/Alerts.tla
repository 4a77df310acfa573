------------------------------- MODULE Alerts -------------------------------
(***************************************************************************)
(* Price and news alerts: the monitor that checks them (packages/skills-   *)
(* finance/src/alerts/monitor.ts), the rows it reads and writes (store.ts) *)
(* and the two ways in which users make and remove alerts: the agent's     *)
(* tools (tools.ts) and the RPC finance.alert.create (server/src/gateway/  *)
(* rpc/methods/finance.ts), which also evaluates the new alert at once.    *)
(*                                                                         *)
(* A pass looks at every enabled alert concurrently: it evaluates the      *)
(* condition (await), delivers the notification (await) and then records   *)
(* the trigger, from which the next passes read the cool-down.  The        *)
(* immediate evaluation of a new alert does the same without a cool-down   *)
(* and beside the pass, and alerts are removed while both are under way.   *)
(* The monitor's lane has one key per alert and a pass starts only after   *)
(* the one before it has ended, so a slot is always free.  Time is counted *)
(* in check intervals of 30 s.  Reads of the database do not fail here.    *)
(***************************************************************************)
EXTENDS Integers

CONSTANTS Alerts,      \* alert ids that may be created
          Eager,       \* those whose cooldownMs is not positive
          Cooldown,    \* passes that fall into cooldownMs
          MaxTold,     \* bound on the notifications of an alert
          MaxCrashes   \* bound on the kills of the process

ASSUME AlertsAssumption ==
    /\ Eager \subseteq Alerts
    /\ Cooldown \in Nat \ {0}
    /\ MaxTold \in Nat
    /\ MaxCrashes \in Nat

VARIABLES alert,       \* the row in alerts
          rows,        \* number of its rows in alert_history
          count,       \* trigger_count
          age,         \* passes since the newest of those rows, where read
          check,       \* the alert's part of the pass under way
          once,        \* its immediate evaluation
          isChecking,  \* a pass is under way
          crashes,     \* kills so far
          told, quiet  \* for the properties; see Notify and Triggered

stored == <<alert, rows, count, age>>
seen == <<told, quiet>>
vars == <<stored, check, once, isChecking, crashes, seen>>

AlertStates == {"new", "live", "expired", "gone"}
CheckStates == {"none", "evaluating", "dispatching"}
OnceStates == CheckStates \cup {"done"}

-----------------------------------------------------------------------------
LongAgo == Cooldown + 1

\* The age of a new row; without a cool-down no one asks for it.
Fresh(a) == [age EXCEPT ![a] = IF a \in Eager THEN Cooldown ELSE 0]

\* checkSingleAlert() returns early: the last trigger is too recent.
CoolingDown(a) == a \notin Eager /\ age[a] < Cooldown

\* Faulty variant: the cool-down is not looked at.
ToCheckAlways == {a \in Alerts : alert[a] = "live"}

\* The alerts whose condition a pass evaluates: listEnabled() lists those
\* that are there and have not expired.
ToCheck == {a \in Alerts : alert[a] = "live" /\ ~CoolingDown(a)}

Init ==
    /\ alert = [a \in Alerts |-> "new"]
    /\ rows = [a \in Alerts |-> 0]
    /\ count = [a \in Alerts |-> 0]
    /\ age = [a \in Alerts |-> Cooldown]
    /\ check = [a \in Alerts |-> "none"]
    /\ once = [a \in Alerts |-> "none"]
    /\ isChecking = FALSE
    /\ crashes = 0
    /\ told = [a \in Alerts |-> 0]
    /\ quiet = [a \in Alerts |-> LongAgo]

\* set_alert: only the row.
CreateByTool(a) ==
    /\ alert[a] = "new"
    /\ alert' = [alert EXCEPT ![a] = "live"]
    /\ UNCHANGED <<rows, count, age, check, once, isChecking, crashes, seen>>

\* finance.alert.create: the row, and evaluateOnce() up to its first await.
CreateByRpc(a) ==
    /\ alert[a] = "new"
    /\ a \notin Eager
    /\ alert' = [alert EXCEPT ![a] = "live"]
    /\ once' = [once EXCEPT ![a] = "evaluating"]
    /\ UNCHANGED <<rows, count, age, check, isChecking, crashes, seen>>

\* remove_alert: the row and, by the foreign key, its history.
Remove(a) ==
    /\ alert[a] \in {"live", "expired"}
    /\ alert' = [alert EXCEPT ![a] = "gone"]
    /\ rows' = [rows EXCEPT ![a] = 0]
    /\ count' = [count EXCEPT ![a] = 0]
    /\ age' = [age EXCEPT ![a] = Cooldown]
    /\ UNCHANGED <<check, once, isChecking, crashes, seen>>

\* expiresAt passes; only set_alert gives an alert one.
Expire(a) ==
    /\ alert[a] = "live"
    /\ once[a] = "none"
    /\ alert' = [alert EXCEPT ![a] = "expired"]
    /\ UNCHANGED <<rows, count, age, check, once, isChecking, crashes, seen>>

Later(clock, end) == [a \in Alerts |-> IF clock[a] < end THEN clock[a] + 1 ELSE end]

\* checkAlerts(), up to the first awaits of the checks it starts; a pass in
\* which nothing has to be evaluated is over at once.
StartPass ==
    /\ check' = [a \in Alerts |-> IF a \in ToCheck THEN "evaluating" ELSE "none"]
    /\ isChecking' = (ToCheck /= {})

\* The timer: one interval has passed, and a pass starts unless the one
\* before it still runs.
Tick ==
    /\ age' = Later(age, Cooldown)
    /\ quiet' = Later(quiet, LongAgo)
    /\ IF isChecking THEN UNCHANGED <<check, isChecking>> ELSE StartPass
    /\ UNCHANGED <<alert, rows, count, once, crashes, told>>

\* Faulty variant: the first check to settle ends the pass.
EndCheckEarly(a) ==
    /\ check' = [check EXCEPT ![a] = "none"]
    /\ isChecking' = FALSE

\* Faulty variant: an error leaves the pass marked as running.
EndCheckStuck(a) ==
    /\ check' = [check EXCEPT ![a] = "none"]
    /\ isChecking' = TRUE

\* The check of a settles; the pass ends with the last of them.
EndCheck(a) ==
    /\ check' = [check EXCEPT ![a] = "none"]
    /\ isChecking' = (\E b \in Alerts \ {a} : check[b] /= "none")

\* The condition does not hold, or its evaluation throws; both are quiet.
\* The alert is the one listed when the pass began, so it may be gone.
NotTriggered(a) ==
    /\ check[a] = "evaluating"
    /\ EndCheck(a)
    /\ UNCHANGED <<stored, once, crashes, seen>>

\* A notification is handed to the channels; told counts them.
Notify(a) ==
    /\ told[a] < MaxTold
    /\ told' = [told EXCEPT ![a] = @ + 1]

\* dispatch(), which goes on whatever its channels answer.  quiet is the time
\* since the last notification of a pass, for alerts with a cool-down.
Triggered(a) ==
    /\ check[a] = "evaluating"
    /\ Notify(a)
    /\ quiet' = [quiet EXCEPT ![a] = IF a \in Eager THEN LongAgo ELSE 0]
    /\ check' = [check EXCEPT ![a] = "dispatching"]
    /\ UNCHANGED <<stored, once, isChecking, crashes>>

\* Faulty variant: the counter is written first.
RecordTriggerSwapped(a) ==
    \/ /\ alert[a] /= "gone"
       /\ count' = [count EXCEPT ![a] = @ + 1]
       /\ rows' \in {rows, [rows EXCEPT ![a] = @ + 1]}
       /\ age' = Fresh(a)
       /\ UNCHANGED alert
    \/ UNCHANGED stored

\* recordTrigger(): a row of history and then the counter, in two
\* statements of their own.  Either may fail, and so may the process
\* between them; the row of a removed alert breaks the foreign key.
RecordTrigger(a) ==
    \/ /\ alert[a] /= "gone"
       /\ rows' = [rows EXCEPT ![a] = @ + 1]
       /\ count' \in {count, [count EXCEPT ![a] = @ + 1]}
       /\ age' = Fresh(a)
       /\ UNCHANGED alert
    \/ UNCHANGED stored

\* A notification of the pass that left no row starts no cool-down, so the
\* next one need not wait for it.
Dispatched(a) ==
    /\ check[a] = "dispatching"
    /\ RecordTrigger(a)
    /\ quiet' = IF rows' = rows THEN [quiet EXCEPT ![a] = LongAgo] ELSE quiet
    /\ EndCheck(a)
    /\ UNCHANGED <<once, crashes, told>>

\* evaluateOnce() after its awaits: the same without a cool-down.
OnceNotTriggered(a) ==
    /\ once[a] = "evaluating"
    /\ once' = [once EXCEPT ![a] = "done"]
    /\ UNCHANGED <<stored, check, isChecking, crashes, seen>>

OnceTriggered(a) ==
    /\ once[a] = "evaluating"
    /\ Notify(a)
    /\ once' = [once EXCEPT ![a] = "dispatching"]
    /\ UNCHANGED <<stored, check, isChecking, crashes, quiet>>

OnceDispatched(a) ==
    /\ once[a] = "dispatching"
    /\ RecordTrigger(a)
    /\ once' = [once EXCEPT ![a] = "done"]
    /\ UNCHANGED <<check, isChecking, crashes, seen>>

\* The process is killed and started again: what was under way is lost, and
\* start() runs a pass without waiting for the timer.  The rest of the
\* interval is taken to pass meanwhile.
Restart ==
    /\ crashes < MaxCrashes
    /\ crashes' = crashes + 1
    /\ age' = Later(age, Cooldown)
    /\ quiet' = Later([a \in Alerts |-> IF check[a] = "dispatching" THEN LongAgo
                                                                  ELSE quiet[a]], LongAgo)
    /\ once' = [a \in Alerts |-> IF once[a] = "none" THEN "none" ELSE "done"]
    /\ StartPass
    /\ UNCHANGED <<alert, rows, count, told>>

CheckStep(a) == NotTriggered(a) \/ Triggered(a) \/ Dispatched(a)
OnceStep(a) == OnceNotTriggered(a) \/ OnceTriggered(a) \/ OnceDispatched(a)

Next ==
    \/ Tick
    \/ Restart
    \/ \E a \in Alerts :
          \/ CreateByTool(a) \/ CreateByRpc(a) \/ Remove(a) \/ Expire(a)
          \/ CheckStep(a) \/ OnceStep(a)

Spec == Init /\ [][Next]_vars

\* The timer fires, and evaluations and deliveries settle: they are requests
\* with time-outs of their own.
FairSpec ==
    /\ Spec
    /\ WF_vars(Tick)
    /\ \A a \in Alerts : WF_vars(CheckStep(a)) /\ WF_vars(OnceStep(a))

-----------------------------------------------------------------------------
(* TypeOK: the variables have their types, and a pass is under way exactly *)
(* when the check of some alert is.                                        *)
TypeOK ==
    /\ alert \in [Alerts -> AlertStates]
    /\ rows \in [Alerts -> 0..MaxTold]
    /\ count \in [Alerts -> 0..MaxTold]
    /\ age \in [Alerts -> 0..Cooldown]
    /\ check \in [Alerts -> CheckStates]
    /\ once \in [Alerts -> OnceStates]
    /\ isChecking = (\E a \in Alerts : check[a] /= "none")
    /\ crashes \in 0..MaxCrashes
    /\ told \in [Alerts -> 0..MaxTold]
    /\ quiet \in [Alerts -> 0..LongAgo]

(* CooldownKept: the passes notify the user of an alert once per cool-down *)
(* (whose passes all lie between two notifications), as long as triggers   *)
(* are recorded: however long evaluations and deliveries take, and across  *)
(* restarts, expiry, removal and the immediate evaluation (monitor.ts:     *)
(* checkSingleAlert reads the history before its awaits).                  *)
CooldownKept ==
    [][\A a \in Alerts \ Eager :
          check[a] = "evaluating" /\ check'[a] = "dispatching" => quiet[a] > Cooldown]_vars

(* HistoryBacksCount: what an alert says of itself is backed by its        *)
(* history, and the history by notifications: trigger_count never exceeds  *)
(* the rows and the rows never exceed what was sent, whichever statement   *)
(* fails (store.ts: recordTrigger); a removed alert leaves nothing, even   *)
(* if it is removed while its notification is delivered.                   *)
HistoryBacksCount ==
    \A a \in Alerts :
        /\ count[a] <= rows[a] /\ rows[a] <= told[a]
        /\ alert[a] = "gone" => rows[a] = 0

(* KeepsWatching: an alert that stays is evaluated again and again, or     *)
(* cools down after a trigger; no error, removal or slow delivery of       *)
(* another alert stops the passes (monitor.ts: isChecking).                *)
KeepsWatching ==
    \A a \in Alerts :
        <>[](alert[a] = "live") => []<>(check[a] = "evaluating" \/ CoolingDown(a))
=============================================================================
