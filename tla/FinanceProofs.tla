---------------------------- MODULE FinanceProofs ----------------------------
(***************************************************************************)
(* Safety of the parts of skills-finance, for any constants.  Of Alerts: for*)
(* any set of alerts, any cool-down and any number of kills, TypeOK,       *)
(* HistoryBacksCount and CooldownKept hold in every behaviour.  Of Market: for*)
(* any callers, symbols and limits, the rate limit and the daily limit hold as*)
(* far as the code keeps them.                                             *)
(***************************************************************************)
EXTENDS Alerts, Market, FiniteSetTheorems, SequenceTheorems, WellFoundedInduction, TLAPS

\* An alert that was never created is not worked on.
NewUntouched ==
    \A a \in Alerts : alert[a] = "new" => check[a] = "none" /\ once[a] = "none"

\* Notifications of a that are delivered but not yet recorded.
Unrecorded(a) == (IF check[a] = "dispatching" THEN 1 ELSE 0)
               + (IF once[a] = "dispatching" THEN 1 ELSE 0)

\* HistoryBacksCount, strengthened: a notification under way has not used up
\* its right to a row.
HistoryBacked ==
    \A a \in Alerts :
        /\ count[a] <= rows[a] /\ rows[a] + Unrecorded(a) <= told[a]
        /\ alert[a] = "gone" => rows[a] = 0

\* A pass evaluates an alert only when its last notification is long ago, for
\* the row it left is no older than it; once the alert is removed its history
\* says nothing, but then no further pass looks at it.
CooldownCovers ==
    \A a \in Alerts \ Eager :
        /\ check[a] = "evaluating" => quiet[a] = LongAgo
        /\ check[a] = "none" /\ alert[a] /= "gone" => age[a] <= quiet[a]

AlertsInv == TypeOK /\ NewUntouched /\ HistoryBacked /\ CooldownCovers

USE AlertsAssumption DEF LongAgo

-----------------------------------------------------------------------------
LEMMA LaterType ==
    ASSUME NEW end \in Nat, NEW clock \in [Alerts -> 0..end]
    PROVE  /\ Later(clock, end) \in [Alerts -> 0..end]
           /\ \A a \in Alerts : clock[a] <= Later(clock, end)[a]
           /\ \A a \in Alerts : clock[a] = end => Later(clock, end)[a] = end
  BY DEF Later

\* Two clocks that advance together keep their order, and the one that had
\* reached the shorter end is beyond it afterwards.
LEMMA LaterOrder ==
    ASSUME NEW young \in [Alerts -> 0..Cooldown], NEW old \in [Alerts -> 0..LongAgo],
           NEW a \in Alerts, young[a] <= old[a]
    PROVE  /\ Later(young, Cooldown)[a] <= Later(old, LongAgo)[a]
           /\ young[a] = Cooldown => Later(old, LongAgo)[a] = LongAgo
  BY DEF Later

LEMMA FreshType ==
    ASSUME age \in [Alerts -> 0..Cooldown], NEW a \in Alerts
    PROVE  Fresh(a) \in [Alerts -> 0..Cooldown]
  BY DEF Fresh

LEMMA InitInv == Init => AlertsInv
<1> SUFFICES ASSUME Init PROVE AlertsInv
  OBVIOUS
<1>1. isChecking = (\E a \in Alerts : check[a] /= "none")
  <2>1. ~(\E a \in Alerts : check[a] /= "none")
    BY DEF Init
  <2>2. isChecking = FALSE
    BY DEF Init
  <2> QED
    BY <2>1, <2>2, Zenon
<1>2. TypeOK
  BY <1>1 DEF Init, TypeOK, AlertStates, CheckStates, OnceStates
<1> QED
  BY <1>2 DEF Init, AlertsInv, NewUntouched, HistoryBacked, Unrecorded, CooldownCovers

-----------------------------------------------------------------------------
\* What recordTrigger() does to the tables, for a notification of a.
LEMMA RecordType ==
    ASSUME AlertsInv, NEW a \in Alerts, RecordTrigger(a), Unrecorded(a) >= 1
    PROVE  /\ alert' = alert
           /\ rows' \in [Alerts -> 0..MaxTold] /\ count' \in [Alerts -> 0..MaxTold]
           /\ age' \in [Alerts -> 0..Cooldown]
           /\ rows'[a] \in {rows[a], rows[a] + 1} /\ count'[a] <= rows'[a]
           /\ alert[a] = "gone" => rows' = rows
           /\ \A b \in Alerts \ {a} : /\ rows'[b] = rows[b] /\ count'[b] = count[b]
                                      /\ age'[b] = age[b]
           /\ age'[a] = age[a] \/ a \in Eager \/ age'[a] = 0
           /\ rows' # rows => a \in Eager \/ age'[a] = 0
<1>0. /\ TypeOK /\ HistoryBacked
      /\ Unrecorded(a) \in 0..2
  BY DEF AlertsInv, Unrecorded
<1>1. /\ rows[a] \in Nat /\ count[a] \in Nat /\ told[a] \in 0..MaxTold
      /\ rows[a] + Unrecorded(a) <= told[a] /\ count[a] <= rows[a]
  BY <1>0 DEF TypeOK, HistoryBacked
<1>2. CASE UNCHANGED stored
  BY <1>0, <1>1, <1>2 DEF stored, TypeOK
<1>3. CASE /\ alert[a] /= "gone"
           /\ rows' = [rows EXCEPT ![a] = @ + 1]
           /\ count' \in {count, [count EXCEPT ![a] = @ + 1]}
           /\ age' = Fresh(a)
           /\ UNCHANGED alert
  <2>1. rows[a] + 1 \in 0..MaxTold /\ count[a] + 1 \in 0..MaxTold
    BY <1>0, <1>1
  <2>2. rows' \in [Alerts -> 0..MaxTold] /\ count' \in [Alerts -> 0..MaxTold]
    BY <1>0, <1>3, <2>1 DEF TypeOK
  <2>3. age' \in [Alerts -> 0..Cooldown]
    BY <1>0, <1>3, FreshType DEF TypeOK
  <2>4. rows'[a] = rows[a] + 1 /\ count'[a] \in {count[a], count[a] + 1}
    BY <1>0, <1>3 DEF TypeOK
  <2>5. /\ \A b \in Alerts \ {a} : /\ rows'[b] = rows[b] /\ count'[b] = count[b]
                                   /\ age'[b] = age[b]
        /\ a \in Eager \/ age'[a] = 0
    BY <1>0, <1>3 DEF TypeOK, Fresh
  <2>6. rows' # rows /\ count'[a] <= rows'[a]
    BY <1>1, <2>4
  <2> QED
    BY <1>3, <2>2, <2>3, <2>4, <2>5, <2>6
<1> QED
  BY <1>2, <1>3 DEF RecordTrigger

LEMMA TypeStep == AlertsInv /\ [Next]_vars => TypeOK'
<1> SUFFICES ASSUME AlertsInv, [Next]_vars PROVE TypeOK'
  OBVIOUS
<1>0. TypeOK /\ HistoryBacked
  BY DEF AlertsInv
<1> USE DEF TypeOK, AlertStates, CheckStates, OnceStates
<1>1. CASE Tick
  <2>1. age' \in [Alerts -> 0..Cooldown] /\ quiet' \in [Alerts -> 0..LongAgo]
    BY <1>0, <1>1, LaterType DEF Tick
  <2>2. /\ check' \in [Alerts -> CheckStates]
        /\ isChecking' = (\E a \in Alerts : check'[a] /= "none")
    BY <1>0, <1>1 DEF Tick, StartPass, ToCheck
  <2> QED
    BY <1>0, <1>1, <2>1, <2>2 DEF Tick
<1>2. CASE Restart
  <2>1. [a \in Alerts |-> IF check[a] = "dispatching" THEN LongAgo ELSE quiet[a]]
          \in [Alerts -> 0..LongAgo]
    BY <1>0
  <2>2. age' \in [Alerts -> 0..Cooldown] /\ quiet' \in [Alerts -> 0..LongAgo]
    BY <1>0, <1>2, <2>1, LaterType DEF Restart
  <2>3. /\ check' \in [Alerts -> CheckStates]
        /\ isChecking' = (\E a \in Alerts : check'[a] /= "none")
    BY <1>0, <1>2 DEF Restart, StartPass, ToCheck
  <2>4. once' \in [Alerts -> OnceStates] /\ crashes' \in 0..MaxCrashes
    BY <1>0, <1>2 DEF Restart
  <2> QED
    BY <1>0, <1>2, <2>2, <2>3, <2>4 DEF Restart
<1>3. ASSUME NEW a \in Alerts, CreateByTool(a) \/ CreateByRpc(a) \/ Remove(a) \/ Expire(a)
      PROVE  TypeOK'
  <2>1. UNCHANGED <<check, isChecking, crashes, told, quiet>>
    BY <1>3 DEF CreateByTool, CreateByRpc, Remove, Expire, seen
  <2>2. isChecking' = (\E b \in Alerts : check'[b] /= "none")
    BY <1>0, <2>1, Zenon
  <2>3. /\ alert' \in [Alerts -> AlertStates] /\ once' \in [Alerts -> OnceStates]
        /\ rows' \in [Alerts -> 0..MaxTold] /\ count' \in [Alerts -> 0..MaxTold]
        /\ age' \in [Alerts -> 0..Cooldown]
    <3>1. /\ alert \in [Alerts -> AlertStates] /\ once \in [Alerts -> OnceStates]
          /\ rows \in [Alerts -> 0..MaxTold] /\ count \in [Alerts -> 0..MaxTold]
          /\ age \in [Alerts -> 0..Cooldown]
      BY <1>0
    <3>2. CASE CreateByTool(a) \/ Expire(a)
      BY <3>1, <3>2 DEF CreateByTool, Expire
    <3>3. CASE CreateByRpc(a)
      BY <3>1, <3>3 DEF CreateByRpc
    <3>4. CASE Remove(a)
      BY <3>1, <3>4 DEF Remove
    <3> QED
      BY <1>3, <3>2, <3>3, <3>4
  <2> QED
    BY <1>0, <2>1, <2>2, <2>3
<1>4. ASSUME NEW a \in Alerts, NotTriggered(a) PROVE TypeOK'
  BY <1>0, <1>4 DEF NotTriggered, EndCheck, stored, seen
<1>5. ASSUME NEW a \in Alerts, Triggered(a) PROVE TypeOK'
  <2>1. told' \in [Alerts -> 0..MaxTold] /\ quiet' \in [Alerts -> 0..LongAgo]
    BY <1>0, <1>5 DEF Triggered, Notify
  <2>2. /\ check' \in [Alerts -> CheckStates]
        /\ isChecking' = (\E b \in Alerts : check'[b] /= "none")
    BY <1>0, <1>5 DEF Triggered
  <2> QED
    BY <1>0, <1>5, <2>1, <2>2 DEF Triggered, stored
<1>6. ASSUME NEW a \in Alerts, Dispatched(a) PROVE TypeOK'
  <2>1. Unrecorded(a) >= 1 /\ RecordTrigger(a)
    BY <1>6 DEF Dispatched, Unrecorded
  <2>2. quiet' \in [Alerts -> 0..LongAgo]
    BY <1>0, <1>6 DEF Dispatched
  <2>3. /\ check' \in [Alerts -> CheckStates]
        /\ isChecking' = (\E b \in Alerts : check'[b] /= "none")
    BY <1>0, <1>6 DEF Dispatched, EndCheck
  <2> QED
    BY <1>0, <1>6, <2>1, <2>2, <2>3, RecordType DEF Dispatched
<1>7. ASSUME NEW a \in Alerts, OnceNotTriggered(a) \/ OnceTriggered(a) PROVE TypeOK'
  <2>1. UNCHANGED <<stored, check, isChecking, crashes, quiet>>
    BY <1>7 DEF OnceNotTriggered, OnceTriggered, seen
  <2>2. isChecking' = (\E b \in Alerts : check'[b] /= "none")
    BY <1>0, <2>1, Zenon
  <2>3. once' \in [Alerts -> OnceStates] /\ told' \in [Alerts -> 0..MaxTold]
    <3>1. once \in [Alerts -> OnceStates] /\ told \in [Alerts -> 0..MaxTold]
      BY <1>0
    <3>2. CASE OnceNotTriggered(a)
      BY <3>1, <3>2 DEF OnceNotTriggered, seen
    <3>3. CASE OnceTriggered(a)
      BY <3>1, <3>3 DEF OnceTriggered, Notify
    <3> QED
      BY <1>7, <3>2, <3>3
  <2> QED
    BY <1>0, <2>1, <2>2, <2>3 DEF stored
<1>8. ASSUME NEW a \in Alerts, OnceDispatched(a) PROVE TypeOK'
  <2>1. Unrecorded(a) >= 1 /\ RecordTrigger(a)
    BY <1>8 DEF OnceDispatched, Unrecorded
  <2> QED
    BY <1>0, <1>8, <2>1, RecordType DEF OnceDispatched, seen
<1>9. CASE UNCHANGED vars
  BY <1>0, <1>9 DEF vars, stored, seen
<1> QED
  BY <1>1, <1>2, <1>3, <1>4, <1>5, <1>6, <1>7, <1>8, <1>9 DEF Next, CheckStep, OnceStep

-----------------------------------------------------------------------------
LEMMA NewUntouchedStep == AlertsInv /\ [Next]_vars => NewUntouched'
<1> SUFFICES ASSUME AlertsInv, [Next]_vars, NEW a \in Alerts, alert'[a] = "new"
             PROVE  check'[a] = "none" /\ once'[a] = "none"
  BY DEF NewUntouched
<1>0. TypeOK /\ NewUntouched
  BY DEF AlertsInv
<1>1. CASE Tick \/ Restart
  <2>1. alert[a] = "new" /\ a \notin ToCheck
    BY <1>1 DEF Tick, Restart, ToCheck
  <2> QED
    BY <1>0, <1>1, <2>1 DEF NewUntouched, Tick, Restart, StartPass
<1>2. ASSUME NEW b \in Alerts, CreateByTool(b) \/ CreateByRpc(b) \/ Remove(b) \/ Expire(b)
      PROVE  check'[a] = "none" /\ once'[a] = "none"
  <2>1. a # b /\ alert[a] = "new"
    BY <1>0, <1>2 DEF TypeOK, CreateByTool, CreateByRpc, Remove, Expire
  <2>2. check'[a] = check[a] /\ once'[a] = once[a]
    BY <1>0, <1>2, <2>1 DEF TypeOK, CreateByTool, CreateByRpc, Remove, Expire
  <2> QED
    BY <1>0, <2>1, <2>2 DEF NewUntouched
<1>3. ASSUME NEW b \in Alerts, CheckStep(b) \/ OnceStep(b)
      PROVE  check'[a] = "none" /\ once'[a] = "none"
  <2>1. check[b] # "none" \/ once[b] # "none"
    BY <1>3 DEF CheckStep, OnceStep, NotTriggered, Triggered, Dispatched,
                OnceNotTriggered, OnceTriggered, OnceDispatched
  <2>2. alert' = alert
    BY <1>3 DEF CheckStep, OnceStep, NotTriggered, Triggered, Dispatched, RecordTrigger,
                OnceNotTriggered, OnceTriggered, OnceDispatched, stored
  <2>3. a # b
    BY <1>0, <2>1, <2>2 DEF NewUntouched
  <2>4. check'[a] = check[a] /\ once'[a] = once[a]
    BY <1>0, <1>3, <2>3 DEF TypeOK, CheckStep, OnceStep, NotTriggered, Triggered, Dispatched,
                OnceNotTriggered, OnceTriggered, OnceDispatched, EndCheck
  <2> QED
    BY <1>0, <2>2, <2>4 DEF NewUntouched
<1>4. CASE UNCHANGED vars
  BY <1>0, <1>4 DEF NewUntouched, vars, stored
<1> QED
  BY <1>1, <1>2, <1>3, <1>4 DEF Next

\* A notification adds one to told and to Unrecorded, its record takes one
\* from Unrecorded and adds at most one to the rows.
LEMMA HistoryStep == AlertsInv /\ [Next]_vars => HistoryBacked'
<1> SUFFICES ASSUME AlertsInv, [Next]_vars, NEW a \in Alerts
             PROVE  /\ count'[a] <= rows'[a] /\ rows'[a] + Unrecorded(a)' <= told'[a]
                    /\ alert'[a] = "gone" => rows'[a] = 0
  BY DEF HistoryBacked
<1> DEFINE Backed == /\ count'[a] <= rows'[a] /\ rows'[a] + Unrecorded(a)' <= told'[a]
                     /\ alert'[a] = "gone" => rows'[a] = 0
<1>0. /\ TypeOK /\ NewUntouched
      /\ rows[a] \in Nat /\ count[a] \in Nat /\ told[a] \in Nat
      /\ count[a] <= rows[a] /\ rows[a] + Unrecorded(a) <= told[a]
      /\ alert[a] = "gone" => rows[a] = 0
  BY DEF AlertsInv, HistoryBacked, TypeOK
<1>1. CASE Tick \/ Restart
  <2>1. check'[a] = check[a] \/ check'[a] # "dispatching"
    BY <1>1 DEF Tick, Restart, StartPass
  <2>2. once'[a] = once[a] \/ once'[a] # "dispatching"
    BY <1>1 DEF Tick, Restart
  <2>3. Unrecorded(a)' <= Unrecorded(a) /\ Unrecorded(a)' \in Nat /\ Unrecorded(a) \in Nat
    BY <2>1, <2>2 DEF Unrecorded
  <2> QED
    BY <1>0, <1>1, <2>3 DEF Tick, Restart
<1>2. ASSUME NEW b \in Alerts, CreateByTool(b) \/ CreateByRpc(b) \/ Remove(b) \/ Expire(b)
      PROVE  Backed
  <2>1. check' = check /\ told' = told
    BY <1>2 DEF CreateByTool, CreateByRpc, Remove, Expire, seen
  <2>2. once'[a] = once[a] \/ once'[a] # "dispatching"
    BY <1>0, <1>2 DEF CreateByTool, CreateByRpc, Remove, Expire, TypeOK
  <2>3. Unrecorded(a)' <= Unrecorded(a) /\ Unrecorded(a)' \in Nat /\ Unrecorded(a) \in Nat
    BY <2>1, <2>2 DEF Unrecorded
  <2>4. CASE Remove(b)
    BY <1>0, <2>1, <2>3, <2>4 DEF Remove, TypeOK
  <2>5. CASE CreateByTool(b) \/ CreateByRpc(b) \/ Expire(b)
    <3>1. alert'[a] = alert[a] \/ alert'[a] \in {"live", "expired"}
      BY <1>0, <2>5 DEF CreateByTool, CreateByRpc, Expire, TypeOK
    <3>2. rows' = rows /\ count' = count
      BY <2>5 DEF CreateByTool, CreateByRpc, Expire
    <3> QED
      BY <1>0, <2>1, <2>3, <3>1, <3>2
  <2> QED
    BY <1>2, <2>4, <2>5
<1>3. ASSUME NEW b \in Alerts, NotTriggered(b) \/ OnceNotTriggered(b) PROVE Backed
  <2>1. UNCHANGED <<alert, rows, count, told>>
    BY <1>3 DEF NotTriggered, OnceNotTriggered, stored, seen
  <2>2. Unrecorded(a)' = Unrecorded(a)
    BY <1>0, <1>3 DEF Unrecorded, NotTriggered, OnceNotTriggered, EndCheck, TypeOK
  <2> QED
    BY <1>0, <2>1, <2>2
<1>4. ASSUME NEW b \in Alerts, Triggered(b) \/ OnceTriggered(b) PROVE Backed
  <2>1. UNCHANGED <<alert, rows, count>>
    BY <1>4 DEF Triggered, OnceTriggered, stored
  <2>2. CASE a = b
    <3>1. told'[a] = told[a] + 1
      BY <1>0, <1>4, <2>2 DEF Triggered, OnceTriggered, Notify, TypeOK
    <3>2. Unrecorded(a)' = Unrecorded(a) + 1
      <4>1. CASE Triggered(b)
        <5>1. check[a] = "evaluating" /\ check'[a] = "dispatching" /\ once' = once
          BY <1>0, <2>2, <4>1 DEF Triggered, TypeOK
        <5> QED
          BY <5>1 DEF Unrecorded
      <4>2. CASE OnceTriggered(b)
        <5>1. once[a] = "evaluating" /\ once'[a] = "dispatching" /\ check' = check
          BY <1>0, <2>2, <4>2 DEF OnceTriggered, TypeOK
        <5> QED
          BY <5>1 DEF Unrecorded
      <4> QED
        BY <1>4, <4>1, <4>2
    <3> QED
      BY <1>0, <2>1, <3>1, <3>2 DEF Unrecorded
  <2>3. CASE a # b
    <3>1. told'[a] = told[a]
      BY <1>0, <1>4, <2>3 DEF Triggered, OnceTriggered, Notify, TypeOK
    <3>2. Unrecorded(a)' = Unrecorded(a)
      BY <1>0, <1>4, <2>3 DEF Triggered, OnceTriggered, Unrecorded, TypeOK
    <3> QED
      BY <1>0, <2>1, <3>1, <3>2
  <2> QED
    BY <2>2, <2>3
<1>5. ASSUME NEW b \in Alerts, Dispatched(b) \/ OnceDispatched(b) PROVE Backed
  <2>1. RecordTrigger(b) /\ Unrecorded(b) >= 1 /\ told' = told
    BY <1>5 DEF Dispatched, OnceDispatched, Unrecorded, seen
  <2>2. CASE a = b
    <3>1. Unrecorded(a)' = Unrecorded(a) - 1
      <4>1. CASE Dispatched(b)
        <5>1. check[a] = "dispatching" /\ check'[a] = "none" /\ once' = once
          BY <1>0, <2>2, <4>1 DEF Dispatched, EndCheck, TypeOK
        <5> QED
          BY <5>1 DEF Unrecorded
      <4>2. CASE OnceDispatched(b)
        <5>1. once[a] = "dispatching" /\ once'[a] = "done" /\ check' = check
          BY <1>0, <2>2, <4>2 DEF OnceDispatched, TypeOK
        <5> QED
          BY <5>1 DEF Unrecorded
      <4> QED
        BY <1>5, <4>1, <4>2
    <3>2. /\ alert' = alert /\ rows'[a] \in {rows[a], rows[a] + 1} /\ count'[a] <= rows'[a]
          /\ alert[a] = "gone" => rows' = rows
      BY <2>1, <2>2, RecordType
    <3>3. Unrecorded(a) \in Nat
      BY DEF Unrecorded
    <3> QED
      BY <1>0, <2>1, <3>1, <3>2, <3>3
  <2>3. CASE a # b
    <3>1. Unrecorded(a)' = Unrecorded(a)
      BY <1>0, <1>5, <2>3 DEF Dispatched, OnceDispatched, EndCheck, Unrecorded, TypeOK
    <3>2. alert' = alert /\ rows'[a] = rows[a] /\ count'[a] = count[a]
      BY <2>1, <2>3, RecordType
    <3> QED
      BY <1>0, <2>1, <3>1, <3>2
  <2> QED
    BY <2>2, <2>3
<1>6. CASE UNCHANGED vars
  BY <1>0, <1>6 DEF vars, stored, seen, Unrecorded
<1> QED
  BY <1>1, <1>2, <1>3, <1>4, <1>5, <1>6 DEF Next, CheckStep, OnceStep

-----------------------------------------------------------------------------
\* The two ways in which a pass begins: whatever it evaluates has been quiet
\* for a cool-down, once the interval before the pass is counted.
LEMMA CooldownPass ==
    ASSUME AlertsInv, NEW since \in [Alerts -> 0..LongAgo], NEW a \in Alerts \ Eager,
           check[a] # "none" => since[a] = LongAgo,
           check[a] = "none" => since[a] = quiet[a],
           age' = Later(age, Cooldown), quiet' = Later(since, LongAgo), StartPass,
           alert' = alert
    PROVE  /\ check'[a] = "evaluating" => quiet'[a] = LongAgo
           /\ check'[a] = "none" /\ alert'[a] /= "gone" => age'[a] <= quiet'[a]
<1>0. /\ age \in [Alerts -> 0..Cooldown] /\ quiet \in [Alerts -> 0..LongAgo]
      /\ check[a] = "none" /\ alert[a] /= "gone" => age[a] <= quiet[a]
  BY DEF AlertsInv, TypeOK, CooldownCovers
<1>1. CASE alert[a] = "gone"
  BY <1>1 DEF StartPass, ToCheck
<1>2. CASE alert[a] /= "gone"
  <2>1. age[a] <= since[a]
    BY <1>0, <1>2
  <2>2. /\ age'[a] <= quiet'[a]
        /\ age[a] = Cooldown => quiet'[a] = LongAgo
    BY <1>0, <2>1, LaterOrder
  <2>3. check'[a] = "evaluating" => age[a] = Cooldown
    BY <1>0 DEF StartPass, ToCheck, CoolingDown
  <2> QED
    BY <2>2, <2>3
<1> QED
  BY <1>1, <1>2

LEMMA CooldownStep == AlertsInv /\ [Next]_vars => CooldownCovers'
<1> SUFFICES ASSUME AlertsInv, [Next]_vars, NEW a \in Alerts \ Eager
             PROVE  /\ check'[a] = "evaluating" => quiet'[a] = LongAgo
                    /\ check'[a] = "none" /\ alert'[a] /= "gone" => age'[a] <= quiet'[a]
  BY DEF CooldownCovers
<1> DEFINE Covered ==
             /\ check'[a] = "evaluating" => quiet'[a] = LongAgo
             /\ check'[a] = "none" /\ alert'[a] /= "gone" => age'[a] <= quiet'[a]
<1>0. /\ TypeOK /\ NewUntouched
      /\ age[a] \in 0..Cooldown /\ quiet[a] \in 0..LongAgo
      /\ check[a] = "evaluating" => quiet[a] = LongAgo
      /\ check[a] = "none" /\ alert[a] /= "gone" => age[a] <= quiet[a]
  BY DEF AlertsInv, TypeOK, CooldownCovers
<1>1. CASE Tick
  <2>0. age \in [Alerts -> 0..Cooldown] /\ quiet \in [Alerts -> 0..LongAgo]
    BY <1>0 DEF TypeOK
  <2>1. CASE isChecking
    <3>1. check' = check /\ alert' = alert
      BY <1>1, <2>1 DEF Tick
    <3>2. age[a] <= quiet[a] => age'[a] <= quiet'[a]
      BY <1>1, <2>0, LaterOrder DEF Tick
    <3>3. quiet[a] = LongAgo => quiet'[a] = LongAgo
      BY <1>1, <2>0, LaterType DEF Tick
    <3> QED
      BY <1>0, <3>1, <3>2, <3>3
  <2>2. CASE ~isChecking
    <3>1. check[a] = "none"
      <4>1. isChecking = (\E b \in Alerts : check[b] /= "none")
        BY <1>0 DEF TypeOK
      <4> QED
        BY <2>2, <4>1, Zenon
    <3>2. /\ age' = Later(age, Cooldown) /\ quiet' = Later(quiet, LongAgo)
          /\ StartPass /\ alert' = alert
      BY <1>1, <2>2 DEF Tick
    <3> QED
      BY <2>0, <3>1, <3>2, CooldownPass
  <2> QED
    BY <2>1, <2>2
<1>2. CASE Restart
  <2> DEFINE since == [b \in Alerts |-> IF check[b] = "dispatching" THEN LongAgo ELSE quiet[b]]
  <2>1. since \in [Alerts -> 0..LongAgo]
    BY <1>0 DEF TypeOK
  <2>2. /\ check[a] # "none" => since[a] = LongAgo
        /\ check[a] = "none" => since[a] = quiet[a]
    BY <1>0 DEF TypeOK, CheckStates
  <2>3. /\ age' = Later(age, Cooldown) /\ quiet' = Later(since, LongAgo)
        /\ StartPass /\ alert' = alert
    BY <1>2 DEF Restart
  <2> HIDE DEF since
  <2> QED
    BY <2>1, <2>2, <2>3, CooldownPass
<1>3. ASSUME NEW b \in Alerts, CreateByTool(b) \/ CreateByRpc(b) \/ Remove(b) \/ Expire(b)
      PROVE  Covered
  <2>1. check' = check /\ quiet' = quiet
    BY <1>3 DEF CreateByTool, CreateByRpc, Remove, Expire, seen
  <2>2. alert'[a] # "gone" => alert[a] # "gone" /\ age'[a] = age[a]
    BY <1>0, <1>3 DEF CreateByTool, CreateByRpc, Remove, Expire, TypeOK
  <2> QED
    BY <1>0, <2>1, <2>2
<1>4. ASSUME NEW b \in Alerts, NotTriggered(b) PROVE Covered
  <2>1. UNCHANGED <<alert, age, quiet>>
    BY <1>4 DEF NotTriggered, stored, seen
  <2>2. check'[a] = check[a] \/ (check[a] = "evaluating" /\ check'[a] = "none")
    <3>1. check[b] = "evaluating" /\ check' = [check EXCEPT ![b] = "none"]
      BY <1>4 DEF NotTriggered, EndCheck
    <3>2. check \in [Alerts -> CheckStates]
      BY <1>0 DEF TypeOK
    <3> QED
      BY <3>1, <3>2
  <2> QED
    BY <1>0, <2>1, <2>2
<1>5. ASSUME NEW b \in Alerts, Triggered(b) PROVE Covered
  <2>1. UNCHANGED <<alert, age>>
    BY <1>5 DEF Triggered, stored
  <2>2. check'[a] = "dispatching" \/ (check'[a] = check[a] /\ quiet'[a] = quiet[a])
    <3>1. /\ check' = [check EXCEPT ![b] = "dispatching"]
          /\ quiet' = [quiet EXCEPT ![b] = IF b \in Eager THEN LongAgo ELSE 0]
      BY <1>5 DEF Triggered
    <3>2. check \in [Alerts -> CheckStates] /\ quiet \in [Alerts -> 0..LongAgo]
      BY <1>0 DEF TypeOK
    <3> QED
      BY <3>1, <3>2
  <2> QED
    BY <1>0, <2>1, <2>2
<1>6. ASSUME NEW b \in Alerts, Dispatched(b) PROVE Covered
  <2>1. RecordTrigger(b) /\ Unrecorded(b) >= 1
    BY <1>6 DEF Dispatched, Unrecorded
  <2>2. CASE a = b
    <3>1. check'[a] = "none"
      BY <1>0, <1>6, <2>2 DEF Dispatched, EndCheck, TypeOK
    <3>2. age'[a] \in 0..Cooldown
      BY <2>1, RecordType
    <3>3. CASE rows' = rows
      <4>1. quiet'[a] = LongAgo
        BY <1>0, <1>6, <2>2, <3>3 DEF Dispatched, TypeOK
      <4> QED
        BY <3>1, <3>2, <4>1
    <3>4. CASE rows' # rows
      <4>1. quiet' = quiet /\ age'[a] = 0
        BY <1>6, <2>1, <2>2, <3>4, RecordType DEF Dispatched
      <4> QED
        BY <1>0, <3>1, <4>1
    <3> QED
      BY <3>3, <3>4
  <2>3. CASE a # b
    <3>1. check'[a] = check[a] /\ quiet'[a] = quiet[a]
      BY <1>0, <1>6, <2>3 DEF Dispatched, EndCheck, TypeOK
    <3>2. alert' = alert /\ age'[a] = age[a]
      BY <2>1, <2>3, RecordType
    <3> QED
      BY <1>0, <3>1, <3>2
  <2> QED
    BY <2>2, <2>3
<1>7. ASSUME NEW b \in Alerts, OnceNotTriggered(b) \/ OnceTriggered(b) PROVE Covered
  BY <1>0, <1>7 DEF OnceNotTriggered, OnceTriggered, stored, seen
<1>8. ASSUME NEW b \in Alerts, OnceDispatched(b) PROVE Covered
  <2>1. RecordTrigger(b) /\ Unrecorded(b) >= 1 /\ UNCHANGED <<check, quiet>>
    BY <1>8 DEF OnceDispatched, Unrecorded, seen
  <2>2. alert' = alert
    BY <2>1, RecordType
  <2>3. age'[a] = age[a] \/ age'[a] = 0
    BY <2>1, RecordType
  <2> QED
    BY <1>0, <2>1, <2>2, <2>3
<1>9. CASE UNCHANGED vars
  BY <1>0, <1>9 DEF vars, stored, seen
<1> QED
  BY <1>1, <1>2, <1>3, <1>4, <1>5, <1>6, <1>7, <1>8, <1>9 DEF Next, CheckStep, OnceStep

-----------------------------------------------------------------------------
LEMMA AlertsInvStep == AlertsInv /\ [Next]_vars => AlertsInv'
BY TypeStep, NewUntouchedStep, HistoryStep, CooldownStep DEF AlertsInv

\* Every reachable state of the alerts satisfies the inductive invariant.
THEOREM AlertsInvHolds == Spec => []AlertsInv
BY InitInv, AlertsInvStep, PTL DEF Spec

\* Types, and with them that the flag isChecking is set exactly while the
\* check of some alert is under way: no pass begins beside another, and none
\* is ever believed to run when it has ended (monitor.ts: checkAlerts).
THEOREM PassFlagCorrect == Spec => []TypeOK
<1>1. AlertsInv => TypeOK
  BY DEF AlertsInv
<1> QED
  BY <1>1, AlertsInvHolds, PTL

\* trigger_count is backed by rows of history and these by notifications,
\* whatever fails in recordTrigger() and whenever the alert is removed.
THEOREM HistoryHolds == Spec => []HistoryBacksCount
<1>1. ASSUME AlertsInv PROVE HistoryBacksCount
  <2> SUFFICES ASSUME NEW a \in Alerts
               PROVE  /\ count[a] <= rows[a] /\ rows[a] <= told[a]
                      /\ alert[a] = "gone" => rows[a] = 0
    BY DEF HistoryBacksCount
  <2>1. /\ rows[a] \in Nat /\ told[a] \in Nat /\ count[a] <= rows[a]
        /\ rows[a] + Unrecorded(a) <= told[a]
        /\ alert[a] = "gone" => rows[a] = 0
    BY <1>1 DEF AlertsInv, TypeOK, HistoryBacked
  <2>2. Unrecorded(a) \in Nat
    BY DEF Unrecorded
  <2> QED
    BY <2>1, <2>2
<1> QED
  BY <1>1, AlertsInvHolds, PTL

\* The passes notify the user of an alert at most once per cool-down as long
\* as triggers are recorded, for any cool-down and any number of kills.
THEOREM CooldownHolds == Spec => CooldownKept
<1>1. AlertsInv => \A a \in Alerts \ Eager :
                      check[a] = "evaluating" /\ check'[a] = "dispatching" => quiet[a] > Cooldown
  BY DEF AlertsInv, CooldownCovers
<1> QED
  BY <1>1, AlertsInvHolds, PTL DEF Spec, CooldownKept

-----------------------------------------------------------------------------
(* The cache of quotes and its limits (Market).                            *)

Ages == Seq(0..Outdated)

\* The callers that are past the check of the daily limit.
Past == {c \in Callers : call[c] # Idle}

\* The timestamps that the limiter keeps are those of the calls it let through,
\* what is counted is what was answered, and every answer that is still to come
\* has its place beneath the limit.
MarketInv == /\ MarketTypeOK
             /\ passed = Recent(grants)
             /\ Len(passed) <= MaxRequests
             /\ dayCount = answered
             /\ answered + Cardinality(Past) <= DailyLimit + Cardinality(Callers) - 1

-----------------------------------------------------------------------------
\* A set of numbers that has a member has a least one.
LEMMA LeastMember ==
    ASSUME NEW S, S \subseteq Nat, S # {}
    PROVE  Min(S) \in S /\ \A y \in S : Min(S) <= y
<1>1. PICK x \in S : \A y \in S : ~ (<<y, x>> \in OpToRel(<, Nat))
  BY NatLessThanWellFounded, WFMin
<1>2. \A y \in S : x =< y
  <2> SUFFICES ASSUME NEW y \in S PROVE x =< y
    OBVIOUS
  <2>1. x \in Nat /\ y \in Nat
    OBVIOUS
  <2>2. ~ (y < x)
    BY <1>1, <2>1 DEF OpToRel
  <2> QED
    BY <2>1, <2>2
<1> QED
  BY <1>1, <1>2 DEF Min

LEMMA Numbers ==
    ASSUME MarketAssumption
    PROVE  /\ Window \in Nat /\ Outdated = Window + 1 /\ MaxRequests \in Nat \ {0}
           /\ DailyLimit \in Nat \ {0} /\ Ttl \in Nat \ {0}
BY DEF MarketAssumption, Outdated

\* Recent() cuts off what stands before the first age inside of the window.
LEMMA RecentFrom ==
    ASSUME MarketAssumption, NEW g \in Ages, NEW k \in 1..Len(g), g[k] <= Window,
           \A i \in 1..(k - 1) : g[i] > Window
    PROVE  Recent(g) = SubSeq(g, k, Len(g))
<1> DEFINE inside == {i \in DOMAIN g : g[i] <= Window}
<1>1. inside \subseteq Nat /\ k \in inside /\ DOMAIN g = 1..Len(g)
  BY DEF Ages
<1>2. Min(inside) \in inside /\ Min(inside) <= k
  BY <1>1, LeastMember
<1>3. \A i \in inside : i >= k
  <2> SUFFICES ASSUME NEW i \in inside, ~(i >= k) PROVE FALSE
    OBVIOUS
  <2>1. i \in 1..(k - 1) /\ g[i] <= Window /\ g[i] \in Nat /\ Window \in Nat
    BY <1>1, Numbers DEF Ages
  <2> QED
    BY <2>1
<1>4. Min(inside) = k
  BY <1>1, <1>2, <1>3
<1> QED
  BY <1>1, <1>4 DEF Recent

LEMMA RecentNone ==
    ASSUME MarketAssumption, NEW g \in Ages, \A i \in 1..Len(g) : g[i] > Window
    PROVE  Recent(g) = << >>
<1>1. \A i \in DOMAIN g : ~(g[i] <= Window)
  BY Numbers DEF Ages
<1> QED
  BY <1>1 DEF Recent

\* Either nothing is inside of the window or there is a first such age.
LEMMA RecentCases ==
    ASSUME MarketAssumption, NEW g \in Ages
    PROVE  \/ \A i \in 1..Len(g) : g[i] > Window
           \/ \E k \in 1..Len(g) : /\ g[k] <= Window
                                   /\ \A i \in 1..(k - 1) : g[i] > Window
<1> DEFINE inside == {i \in 1..Len(g) : g[i] <= Window}
<1>1. \A i \in 1..Len(g) : g[i] \in Nat /\ Window \in Nat
  BY Numbers DEF Ages
<1>2. CASE inside = {}
  BY <1>1, <1>2
<1>3. CASE inside # {}
  <2>1. PICK k \in inside : \A y \in inside : k <= y
    <3>1. inside \subseteq Nat
      OBVIOUS
    <3> HIDE DEF inside
    <3> QED
      BY <1>3, <3>1, LeastMember
  <2>2. ASSUME NEW i \in 1..(k - 1) PROVE g[i] > Window
    <3>1. i \in 1..Len(g) /\ ~(k <= i)
      BY <2>1
    <3>2. i \notin inside
      BY <2>1, <3>1
    <3> QED
      BY <1>1, <3>1, <3>2
  <2> QED
    BY <2>1, <2>2
<1> QED
  BY <1>2, <1>3

\* The tail of a list from its k-th element.
LEMMA TailFrom ==
    ASSUME NEW g \in Ages, NEW k \in 1..Len(g)
    PROVE  LET h == SubSeq(g, k, Len(g)) IN
           /\ h \in Ages /\ Len(h) = Len(g) - k + 1
           /\ \A j \in 1..Len(h) : h[j] = g[j + k - 1]
<1>1. k \in Int /\ Len(g) \in Nat /\ \A i \in k..Len(g) : g[i] \in 0..Outdated
  <2>1. Len(g) \in Nat
    BY LenProperties DEF Ages
  <2>2. k..Len(g) \subseteq 1..Len(g)
    BY <2>1
  <2>3. \A i \in 1..Len(g) : g[i] \in 0..Outdated
    BY ElementOfSeq DEF Ages
  <2> QED
    BY <2>1, <2>2, <2>3
<1>2. /\ SubSeq(g, k, Len(g)) \in Seq(0..Outdated)
      /\ Len(SubSeq(g, k, Len(g))) = Len(g) - k + 1
      /\ \A i \in 1..(Len(g) - k + 1) : SubSeq(g, k, Len(g))[i] = g[k + i - 1]
  BY <1>1, SubSeqProperties
<1>3. \A j \in 1..(Len(g) - k + 1) : k + j - 1 = j + k - 1
  BY <1>1
<1> QED
  BY <1>2, <1>3 DEF Ages

\* What is left begins inside of the window, and nothing more is cut off from it.
LEMMA RecentStays ==
    ASSUME MarketAssumption, NEW g \in Ages
    PROVE  /\ Recent(g) \in Ages
           /\ Recent(Recent(g)) = Recent(g)
           /\ Recent(g) # << >> => Recent(g)[1] <= Window
<1>1. CASE \A i \in 1..Len(g) : g[i] > Window
  <2>1. Recent(g) = << >> /\ << >> \in Ages /\ Len(<< >>) = 0
    BY <1>1, RecentNone DEF Ages
  <2>2. Recent(<< >>) = << >>
    BY <2>1, RecentNone
  <2> QED
    BY <2>1, <2>2
<1>2. CASE \E k \in 1..Len(g) : g[k] <= Window /\ \A i \in 1..(k - 1) : g[i] > Window
  <2> PICK k \in 1..Len(g) : g[k] <= Window /\ \A i \in 1..(k - 1) : g[i] > Window
    BY <1>2
  <2> DEFINE h == SubSeq(g, k, Len(g))
  <2>1. Recent(g) = h
    BY RecentFrom
  <2>2. h \in Ages /\ Len(h) = Len(g) - k + 1 /\ \A j \in 1..Len(h) : h[j] = g[j + k - 1]
    BY TailFrom
  <2>3. Len(g) \in Nat /\ k \in Nat
    BY LenProperties DEF Ages
  <2> HIDE DEF h
  <2>4. 1 \in 1..Len(h) /\ h[1] = g[k] /\ 1 + k - 1 = k
    BY <2>2, <2>3
  <2>5. Recent(h) = SubSeq(h, 1, Len(h))
    <3>1. 1..(1 - 1) = {}
      OBVIOUS
    <3> QED
      BY <2>2, <2>4, <3>1, RecentFrom
  <2>6. SubSeq(h, 1, Len(h)) = h
    BY <2>2, SubSeqFull DEF Ages
  <2> QED
    BY <2>1, <2>2, <2>4, <2>5, <2>6
<1> QED
  BY <1>1, <1>2, RecentCases

LEMMA RecentShorter ==
    ASSUME MarketAssumption, NEW g \in Ages
    PROVE  Len(Recent(g)) <= Len(g)
<1>1. Len(g) \in Nat
  BY LenProperties DEF Ages
<1>2. CASE \A i \in 1..Len(g) : g[i] > Window
  <2>1. Recent(g) = << >> /\ Len(<< >>) = 0
    BY <1>2, RecentNone
  <2> QED
    BY <1>1, <2>1
<1>3. CASE \E k \in 1..Len(g) : g[k] <= Window /\ \A i \in 1..(k - 1) : g[i] > Window
  <2> PICK k \in 1..Len(g) : g[k] <= Window /\ \A i \in 1..(k - 1) : g[i] > Window
    BY <1>3
  <2>1. Recent(g) = SubSeq(g, k, Len(g)) /\ Len(SubSeq(g, k, Len(g))) = Len(g) - k + 1
    BY RecentFrom, TailFrom
  <2> QED
    BY <1>1, <2>1
<1> QED
  BY <1>2, <1>3, RecentCases

\* A call that gets through is the youngest of those that are left.
LEMMA RecentAppend ==
    ASSUME MarketAssumption, NEW g \in Ages
    PROVE  Recent(Append(Recent(g), 0)) = Append(Recent(g), 0)
<1> DEFINE h == Recent(g)
           a == Append(h, 0)
<1>1. h \in Ages /\ (h # << >> => h[1] <= Window)
  BY RecentStays
<1>2. 0 \in 0..Outdated /\ 0 <= Window
  BY Numbers
<1> HIDE DEF h
<1>3. a \in Ages /\ Len(a) = Len(h) + 1 /\ Len(h) \in Nat
  BY <1>1, <1>2 DEF Ages
<1>4. a[1] <= Window
  <2>1. CASE h = << >>
    <3>1. a[1] = 0
      BY <2>1
    <3> QED
      BY <1>2, <3>1
  <2>2. CASE h # << >>
    <3>1. a[1] = h[1]
      BY <1>1, <2>2 DEF Ages
    <3> QED
      BY <1>1, <2>2, <3>1
  <2> QED
    BY <2>1, <2>2
<1>5. Recent(a) = SubSeq(a, 1, Len(a))
  <2>1. 1..(1 - 1) = {} /\ 1 \in 1..Len(a)
    BY <1>3
  <2> HIDE DEF a
  <2> QED
    BY <1>3, <1>4, <2>1, RecentFrom
<1>6. SubSeq(a, 1, Len(a)) = a
  BY <1>3, SubSeqFull DEF Ages
<1> QED
  BY <1>5, <1>6 DEF h

\* A tick makes no age younger and leaves the list as long as it was.
LEMMA OlderAges ==
    ASSUME MarketAssumption, NEW g \in Ages
    PROVE  /\ Older(g) \in Ages /\ Len(Older(g)) = Len(g)
           /\ \A i \in 1..Len(g) : Older(g)[i] = (IF g[i] = Outdated THEN Outdated ELSE g[i] + 1)
           /\ \A i \in 1..Len(g) : Older(g)[i] <= Window => g[i] <= Window
<1>1. Len(g) \in Nat /\ DOMAIN g = 1..Len(g) /\ \A i \in 1..Len(g) : g[i] \in 0..Outdated
  BY LenProperties, ElementOfSeq DEF Ages
<1>2. Window \in Nat /\ Outdated = Window + 1
  BY Numbers
<1>3. Older(g) = [i \in 1..Len(g) |-> IF g[i] = Outdated THEN Outdated ELSE g[i] + 1]
  BY <1>1 DEF Older
<1>4. \A i \in 1..Len(g) : (IF g[i] = Outdated THEN Outdated ELSE g[i] + 1) \in 0..Outdated
  BY <1>1, <1>2
<1>5. Older(g) \in [1..Len(g) -> 0..Outdated]
  BY <1>3, <1>4
<1>6. Older(g) \in Ages
  BY <1>1, <1>5, SeqDef DEF Ages
<1>7. Len(Older(g)) = Len(g)
  BY <1>1, <1>3, <1>6, LenProperties DEF Ages
<1> QED
  BY <1>1, <1>2, <1>3, <1>6, <1>7

\* It makes no difference to what the window keeps whether the list was cut
\* before time passed.
LEMMA RecentOfOlder ==
    ASSUME MarketAssumption, NEW g \in Ages
    PROVE  Recent(Older(Recent(g))) = Recent(Older(g))
<1> DEFINE o == Older(g)
<1>1. /\ o \in Ages /\ Len(o) = Len(g) /\ Len(g) \in Nat
      /\ \A i \in 1..Len(g) : o[i] = (IF g[i] = Outdated THEN Outdated ELSE g[i] + 1)
      /\ \A i \in 1..Len(g) : o[i] <= Window => g[i] <= Window
  BY OlderAges, LenProperties DEF Ages
<1>2. Window \in Nat /\ \A i \in 1..Len(g) : o[i] \in Nat /\ g[i] \in Nat
  BY <1>1, Numbers, ElementOfSeq DEF Ages
<1> HIDE DEF o
<1>3. CASE \A i \in 1..Len(g) : g[i] > Window
  <2>1. Recent(g) = << >> /\ << >> \in Ages /\ Len(<< >>) = 0
    BY <1>3, RecentNone DEF Ages
  <2>2. Older(<< >>) \in Ages /\ Len(Older(<< >>)) = 0
    BY <2>1, OlderAges
  <2>3. \A i \in 1..Len(o) : o[i] > Window
    BY <1>1, <1>2, <1>3
  <2>4. Recent(o) = << >>
    BY <1>1, <2>3, RecentNone
  <2>5. Recent(Older(<< >>)) = << >>
    BY <2>2, RecentNone
  <2> QED
    BY <2>1, <2>4, <2>5 DEF o
<1>4. CASE \E k \in 1..Len(g) : g[k] <= Window /\ \A i \in 1..(k - 1) : g[i] > Window
  <2> PICK k \in 1..Len(g) : g[k] <= Window /\ \A i \in 1..(k - 1) : g[i] > Window
    BY <1>4
  <2> DEFINE h == SubSeq(g, k, Len(g))
             oh == Older(h)
  <2>1. Recent(g) = h
    BY RecentFrom
  <2>2. h \in Ages /\ Len(h) = Len(g) - k + 1 /\ \A j \in 1..Len(h) : h[j] = g[j + k - 1]
    BY TailFrom
  <2> HIDE DEF h
  <2>3. /\ oh \in Ages /\ Len(oh) = Len(g) - k + 1
        /\ \A j \in 1..Len(h) : oh[j] = (IF h[j] = Outdated THEN Outdated ELSE h[j] + 1)
    BY <2>2, OlderAges
  <2> HIDE DEF oh
  <2>4. \A j \in 1..Len(oh) : j + k - 1 \in 1..Len(g) /\ oh[j] = o[j + k - 1]
    BY <1>1, <2>2, <2>3
  <2>5. CASE \A i \in 1..Len(o) : o[i] > Window
    <3>1. \A j \in 1..Len(oh) : oh[j] > Window
      BY <1>1, <2>4, <2>5
    <3>2. Recent(o) = << >> /\ Recent(oh) = << >>
      BY <1>1, <2>3, <2>5, <3>1, RecentNone
    <3> QED
      BY <2>1, <3>2 DEF o, oh
  <2>6. CASE \E m \in 1..Len(o) : o[m] <= Window /\ \A i \in 1..(m - 1) : o[i] > Window
    <3> PICK m \in 1..Len(o) : o[m] <= Window /\ \A i \in 1..(m - 1) : o[i] > Window
      BY <2>6
    <3>1. m >= k
      <4> SUFFICES ASSUME ~(m >= k) PROVE FALSE
        OBVIOUS
      <4>1. m \in 1..(k - 1) /\ m \in 1..Len(g)
        BY <1>1
      <4> QED
        BY <1>1, <1>2, <4>1
    <3> DEFINE n == m - k + 1
    <3>2. n \in 1..Len(oh) /\ n + k - 1 = m
      BY <1>1, <2>3, <3>1
    <3>3. oh[n] <= Window
      BY <2>4, <3>2
    <3>4. ASSUME NEW j \in 1..(n - 1) PROVE oh[j] > Window
      <4>1. j \in 1..Len(oh) /\ j + k - 1 \in 1..(m - 1)
        BY <1>1, <2>3, <3>1, <3>2
      <4> QED
        BY <2>4, <4>1
    <3> HIDE DEF n
    <3>5. Recent(oh) = SubSeq(oh, n, Len(oh)) /\ Recent(o) = SubSeq(o, m, Len(o))
      BY <1>1, <2>3, <3>2, <3>3, <3>4, RecentFrom
    <3> DEFINE a == SubSeq(oh, n, Len(oh))
               b == SubSeq(o, m, Len(o))
    <3>6. a \in Ages /\ Len(a) = Len(oh) - n + 1 /\ \A j \in 1..Len(a) : a[j] = oh[j + n - 1]
      BY <2>3, <3>2, TailFrom
    <3>7. b \in Ages /\ Len(b) = Len(o) - m + 1 /\ \A j \in 1..Len(b) : b[j] = o[j + m - 1]
      BY <1>1, TailFrom
    <3> HIDE DEF a, b
    <3>8. Len(a) = Len(b)
      <4>1. Len(a) = (Len(g) - k + 1) - n + 1 /\ Len(b) = Len(g) - m + 1
        BY <1>1, <2>3, <3>6, <3>7
      <4>2. n \in Int /\ n + k - 1 = m /\ Len(g) \in Nat
        BY <1>1, <2>3, <3>2
      <4> QED
        BY <4>1, <4>2
    <3>9. ASSUME NEW j \in 1..Len(a) PROVE a[j] = b[j]
      <4>1. j + n - 1 \in 1..Len(oh) /\ (j + n - 1) + k - 1 = j + m - 1
        BY <1>1, <2>3, <3>2, <3>6
      <4>2. oh[j + n - 1] = o[j + m - 1]
        BY <2>4, <4>1
      <4> QED
        BY <3>6, <3>7, <3>8, <4>2
    <3>10. a = b
      BY <3>6, <3>7, <3>8, <3>9, SeqEqual DEF Ages
    <3> QED
      BY <2>1, <3>5, <3>10 DEF a, b, o, oh
  <2> QED
    BY <1>1, <2>5, <2>6, RecentCases
<1> QED
  BY <1>3, <1>4, RecentCases

-----------------------------------------------------------------------------
\* acquire() keeps the timestamps in step with the calls it lets through, and
\* the call is past the check of the daily limit.
LEMMA AcquireKeeps ==
    ASSUME MarketAssumption, MarketInv, NEW c \in Callers, NEW s \in Symbols, Acquire(c, s)
    PROVE  /\ grants' \in Ages /\ passed' \in Ages
           /\ passed' = Recent(grants') /\ Len(passed') <= MaxRequests
           /\ \E x \in Calls \ {Idle} : call' = [call EXCEPT ![c] = x]
<1>1. /\ grants \in Ages /\ passed \in Ages /\ passed = Recent(grants)
      /\ Len(passed) <= MaxRequests /\ Len(passed) \in Nat
  BY LenProperties DEF MarketInv, MarketTypeOK, Ages
<1>2. CASE Len(Recent(grants)) < MaxRequests
  <2>1. Pass(c, s)
    BY <1>2 DEF Acquire
  <2>2. passed' = Append(passed, 0) /\ grants' = Append(Recent(grants), 0)
    BY <2>1 DEF Pass
  <2>3. passed' = Recent(grants') /\ passed' = grants'
    BY <1>1, <2>2, RecentAppend
  <2>4. 0 \in 0..Outdated
    BY Numbers
  <2>5. passed' \in Ages /\ Len(passed') = Len(passed) + 1
    BY <1>1, <2>2, <2>4, AppendProperties DEF Ages
  <2>6. Len(passed') <= MaxRequests
    BY <1>1, <1>2, <2>5, Numbers
  <2>7. Fetching(s) \in Calls \ {Idle} /\ call' = [call EXCEPT ![c] = Fetching(s)]
    BY <2>1 DEF Pass, Calls, Fetching, Idle
  <2> QED
    BY <2>3, <2>5, <2>6, <2>7
<1>3. CASE ~(Len(Recent(grants)) < MaxRequests)
  <2>1. Sleep(c, s)
    BY <1>3 DEF Acquire
  <2>2. passed' = passed /\ grants' = Recent(grants)
    BY <2>1 DEF Sleep
  <2>3. passed' = Recent(grants')
    BY <1>1, <2>2, RecentStays
  <2>4. passed # << >> /\ Head(passed) \in 0..Outdated
    <3>1. Len(passed) \in Nat \ {0}
      BY <1>1, <1>3, Numbers
    <3>2. Head(passed) = passed[1] /\ 1 \in 1..Len(passed) /\ passed # << >>
      BY <1>1, <3>1 DEF Ages
    <3>3. passed[1] \in 0..Outdated
      BY <1>1, <3>2, ElementOfSeq DEF Ages
    <3> QED
      BY <3>2, <3>3
  <2>5. Outdated - Head(passed) \in 0..Outdated
    BY <2>4, Numbers
  <2> DEFINE x == Waiting(s, Outdated - Head(passed))
  <2>6. x \in Calls \ {Idle} /\ call' = [call EXCEPT ![c] = x]
    BY <1>1, <2>1, <2>5 DEF Sleep, Calls, Waiting, Idle
  <2> HIDE DEF x
  <2> QED
    BY <1>1, <2>2, <2>3, <2>6
<1> QED
  BY <1>2, <1>3

\* The callers that are past the check are finitely many.
LEMMA PastIsFinite ==
    ASSUME MarketAssumption
    PROVE  /\ IsFiniteSet(Past) /\ Cardinality(Past) \in Nat
           /\ Cardinality(Callers) \in Nat
           /\ Cardinality(Past) <= Cardinality(Callers)
<1>1. IsFiniteSet(Callers) /\ Past \subseteq Callers
  BY DEF MarketAssumption, Past
<1> QED
  BY <1>1, FS_Subset, FS_CardinalityType

LEMMA PastIsFiniteNext ==
    ASSUME MarketAssumption
    PROVE  /\ IsFiniteSet(Past') /\ Cardinality(Past') \in Nat
           /\ Cardinality(Past') <= Cardinality(Callers)
<1>1. IsFiniteSet(Callers) /\ Past' \subseteq Callers
  BY DEF MarketAssumption, Past
<1> QED
  BY <1>1, FS_Subset, FS_CardinalityType

LEMMA MarketInvInit ==
    ASSUME MarketAssumption, MarketInit
    PROVE  MarketInv
<1>1. grants = << >> /\ passed = << >> /\ Len(<< >>) = 0 /\ << >> \in Ages
  BY DEF MarketInit, Ages
<1>2. Recent(<< >>) = << >>
  BY <1>1, RecentNone
<1>3. MarketTypeOK
  BY <1>1, Numbers DEF MarketInit, MarketTypeOK, Calls, None, Expired, Ages
<1>4. Past = {}
  BY DEF MarketInit, Past
<1>5. Cardinality(Past) = 0 /\ Cardinality(Callers) \in Nat
  BY <1>4, FS_EmptySet, PastIsFinite
<1> QED
  BY <1>1, <1>2, <1>3, <1>5, Numbers DEF MarketInit, MarketInv

LEMMA MarketInvStep ==
    MarketAssumption => (MarketInv /\ [MarketNext]_marketVars => MarketInv')
<1> SUFFICES ASSUME MarketAssumption, MarketInv, [MarketNext]_marketVars
             PROVE  MarketInv'
  OBVIOUS
<1>1. /\ call \in [Callers -> Calls] /\ quotes \in [Symbols -> {None} \cup 0..Expired]
      /\ dayCount \in Nat /\ answered \in Nat /\ grants \in Ages /\ passed \in Ages
      /\ passed = Recent(grants) /\ Len(passed) <= MaxRequests /\ dayCount = answered
      /\ answered + Cardinality(Past) <= DailyLimit + Cardinality(Callers) - 1
  BY DEF MarketInv, MarketTypeOK, Ages
<1>2. /\ Cardinality(Past) \in Nat /\ Cardinality(Past') \in Nat /\ Cardinality(Callers) \in Nat
      /\ Cardinality(Past') <= Cardinality(Callers) /\ DailyLimit \in Nat \ {0}
      /\ IsFiniteSet(Past) /\ IsFiniteSet(Callers)
  BY PastIsFinite, PastIsFiniteNext, Numbers DEF MarketAssumption
<1>3. ASSUME NEW c \in Callers, GetQuote(c)
      PROVE  MarketInv'
  <2> PICK s \in Symbols : Acquire(c, s)
    BY <1>3 DEF GetQuote
  <2>1. UNCHANGED <<quotes, dayCount, answered>> /\ dayCount < DailyLimit
    BY <1>3 DEF GetQuote
  <2>2. /\ grants' \in Ages /\ passed' \in Ages
        /\ passed' = Recent(grants') /\ Len(passed') <= MaxRequests
        /\ \E x \in Calls \ {Idle} : call' = [call EXCEPT ![c] = x]
    BY AcquireKeeps
  <2>3. call' \in [Callers -> Calls]
    BY <1>1, <2>2
  <2>4. answered' + Cardinality(Past') <= DailyLimit + Cardinality(Callers) - 1
    BY <1>1, <1>2, <2>1
  <2>5. Recent(grants)' = Recent(grants')
    BY DEF Recent
  <2> QED
    BY <1>1, <2>1, <2>2, <2>3, <2>4, <2>5 DEF MarketInv, MarketTypeOK, Ages
<1>4. ASSUME NEW c \in Callers, Wake(c)
      PROVE  MarketInv'
  <2>1. call[c] # Idle /\ call[c].symbol \in Symbols
    BY <1>1, <1>4 DEF Wake, Calls, Idle, Fetching, Waiting
  <2>2. /\ grants' \in Ages /\ passed' \in Ages
        /\ passed' = Recent(grants') /\ Len(passed') <= MaxRequests
        /\ \E x \in Calls \ {Idle} : call' = [call EXCEPT ![c] = x]
    BY <1>4, <2>1, AcquireKeeps DEF Wake
  <2>3. call' \in [Callers -> Calls] /\ Past' = Past
    BY <1>1, <2>1, <2>2 DEF Past
  <2>4. UNCHANGED <<quotes, dayCount, answered>>
    BY <1>4 DEF Wake
  <2> QED
    BY <1>1, <2>2, <2>3, <2>4 DEF MarketInv, MarketTypeOK, Ages
<1>5. ASSUME NEW c \in Callers, Answer(c)
      PROVE  MarketInv'
  <2>1. /\ call[c].at = "fetch" /\ call' = [call EXCEPT ![c] = Idle]
        /\ quotes' = [quotes EXCEPT ![call[c].symbol] = 0]
        /\ dayCount' = dayCount + 1 /\ answered' = answered + 1
        /\ grants' = grants /\ passed' = passed
    BY <1>5 DEF Answer
  <2>2. c \in Past /\ Past' = Past \ {c}
    BY <1>1, <2>1 DEF Past, Idle
  <2>3. Cardinality(Past') = Cardinality(Past) - 1
    BY <1>2, <2>2, FS_RemoveElement
  <2>4. call' \in [Callers -> Calls]
    BY <1>1, <2>1 DEF Calls
  <2>5. 0 \in 0..Expired
    BY Numbers DEF Expired
  <2>6. quotes' \in [Symbols -> {None} \cup 0..Expired]
    BY <1>1, <2>1, <2>5
  <2>7. answered' + Cardinality(Past') <= DailyLimit + Cardinality(Callers) - 1
    BY <1>1, <1>2, <2>1, <2>3
  <2> QED
    BY <1>1, <2>1, <2>4, <2>6, <2>7 DEF MarketInv, MarketTypeOK, Ages
<1>6. ASSUME NEW c \in Callers, Fail(c)
      PROVE  MarketInv'
  <2>1. call' = [call EXCEPT ![c] = Idle] /\ UNCHANGED <<quotes, dayCount, grants, answered, passed>>
    BY <1>6 DEF Fail
  <2>2. call' \in [Callers -> Calls] /\ Past' \subseteq Past
    BY <1>1, <2>1 DEF Calls, Past
  <2>3. Cardinality(Past') <= Cardinality(Past)
    BY <1>2, <2>2, FS_Subset
  <2> QED
    BY <1>1, <1>2, <2>1, <2>2, <2>3 DEF MarketInv, MarketTypeOK, Ages
<1>7. CASE ClockTick
  <2>1. /\ quotes' = [s \in Symbols |-> IF quotes[s] \in {None, Expired} THEN quotes[s] ELSE quotes[s] + 1]
        /\ grants' = Older(grants) /\ passed' = Recent(Older(passed))
        /\ call' = [c \in Callers |->
                      IF call[c].at = "limit" /\ call[c].ticks > 0 THEN [call[c] EXCEPT !.ticks = @ - 1]
                      ELSE call[c]]
        /\ dayCount' = dayCount /\ answered' = answered
    BY <1>7 DEF ClockTick
  <2>2. quotes' \in [Symbols -> {None} \cup 0..Expired]
    <3>1. \A q \in {None} \cup 0..Expired :
             (IF q \in {None, Expired} THEN q ELSE q + 1) \in {None} \cup 0..Expired
      BY Numbers DEF None, Expired
    <3> QED
      BY <1>1, <2>1, <3>1
  <2>3. \A x \in Calls : x.at = "limit" /\ x.ticks > 0 => [x EXCEPT !.ticks = @ - 1] \in Calls \ {Idle}
    <3> SUFFICES ASSUME NEW x \in Calls, x.at = "limit", x.ticks > 0
                 PROVE  [x EXCEPT !.ticks = @ - 1] \in Calls \ {Idle}
      OBVIOUS
    <3>1. PICK s \in Symbols, n \in 0..Outdated : x = Waiting(s, n)
      BY DEF Calls, Idle, Fetching
    <3>2. x.ticks = n /\ n - 1 \in 0..Outdated
      BY <3>1, Numbers DEF Waiting
    <3>3. [x EXCEPT !.ticks = @ - 1] = Waiting(s, n - 1)
      BY <3>1, <3>2 DEF Waiting
    <3> QED
      BY <3>2, <3>3 DEF Calls, Waiting, Idle
  <2>4. call' \in [Callers -> Calls]
    BY <1>1, <2>1, <2>3
  <2>5. Past' = Past
    <3>1. \A c \in Callers : call'[c] # Idle <=> call[c] # Idle
      BY <1>1, <2>1, <2>3 DEF Idle
    <3> QED
      BY <3>1 DEF Past
  <2>6. grants' \in Ages
    BY <1>1, <2>1, OlderAges
  <2>7. passed' = Recent(grants')
    BY <1>1, <2>1, RecentOfOlder
  <2>8. Recent(Older(passed)) \in Ages /\ Len(Recent(Older(passed))) <= Len(passed)
    <3>1. Older(passed) \in Ages /\ Len(Older(passed)) = Len(passed) /\ Len(passed) \in Nat
      BY <1>1, OlderAges, LenProperties DEF Ages
    <3> QED
      BY <3>1, RecentShorter, RecentStays
  <2> QED
    BY <1>1, <2>1, <2>2, <2>4, <2>5, <2>6, <2>7, <2>8, Numbers DEF MarketInv, MarketTypeOK, Ages
<1>8. CASE NewDay
  <2>1. dayCount' = 0 /\ answered' = 0 /\ UNCHANGED <<call, quotes, grants, passed>>
    BY <1>8 DEF NewDay
  <2> QED
    BY <1>1, <1>2, <2>1 DEF MarketInv, MarketTypeOK, Ages
<1>9. CASE MarketRestart
  <2>1. /\ call' = [c \in Callers |-> Idle] /\ grants' = << >> /\ passed' = << >>
        /\ UNCHANGED <<quotes, dayCount, answered>>
    BY <1>9 DEF MarketRestart
  <2>2. Past' = {} /\ call' \in [Callers -> Calls]
    BY <2>1 DEF Past, Calls
  <2>3. Past' \subseteq Past
    BY <2>2
  <2>4. Cardinality(Past') <= Cardinality(Past)
    BY <1>2, <2>3, FS_Subset
  <2>5. << >> \in Ages /\ Len(<< >>) = 0
    BY DEF Ages
  <2>6. Recent(<< >>) = << >>
    BY <2>5, RecentNone
  <2> QED
    BY <1>1, <1>2, <2>1, <2>2, <2>4, <2>5, <2>6, Numbers DEF MarketInv, MarketTypeOK, Ages
<1>10. CASE UNCHANGED marketVars
  BY <1>1, <1>10 DEF marketVars, MarketInv, MarketTypeOK, Ages, Past
<1> QED
  BY <1>3, <1>4, <1>5, <1>6, <1>7, <1>8, <1>9, <1>10 DEF MarketNext

\* The timestamps of the limiter are those of the calls it let through, and the
\* count in the database is that of the answers of the day.
\* (cache.ts:64-105: checkDailyLimit, incrementDailyCount; cache.ts:125)
THEOREM MarketInvHolds ==
    ASSUME MarketAssumption
    PROVE  MarketSpec => []MarketInv
<1>1. MarketInit => MarketInv
  BY MarketInvInit
<1>2. MarketInv /\ [MarketNext]_marketVars => MarketInv'
  BY MarketInvStep
<1> QED
  BY <1>1, <1>2, PTL DEF MarketSpec

\* For any number of concurrent calls: no more than maxRequests get through in
\* any window while the process runs, and the daily limit is exceeded by no more
\* than the calls that were past its check. (cache.ts:125, 92-109)
THEOREM QuotaHolds ==
    ASSUME MarketAssumption
    PROVE  MarketSpec => []QuotaKept
<1>1. MarketInv => QuotaKept
  <2> SUFFICES ASSUME MarketInv PROVE QuotaKept
    OBVIOUS
  <2>1. /\ Cardinality(Past) \in Nat /\ Cardinality(Callers) \in Nat
        /\ DailyLimit \in Nat /\ answered \in Nat
    BY PastIsFinite, Numbers DEF MarketInv, MarketTypeOK
  <2> QED
    BY <2>1 DEF MarketInv, QuotaKept
<1> QED
  BY <1>1, MarketInvHolds, PTL
=============================================================================
