-------------------------------- MODULE Lane --------------------------------
(***************************************************************************)
(* ConcurrencyLane (packages/infra/src/concurrency-lane.ts): at most       *)
(* MaxConcurrent tasks per key run at once, the rest wait in line, and a   *)
(* slot that is given back goes straight to the head of the line.          *)
(*                                                                         *)
(* A task is one caller of acquire(); it holds at most one slot at a time  *)
(* and, like every caller in the repository, releases it exactly once.     *)
(* The lane is single-threaded JavaScript: acquire, release, a timer       *)
(* callback and the two resets each run to completion, so each is a step.  *)
(***************************************************************************)
EXTENDS Integers, Sequences, FiniteSets

CONSTANTS Keys,            \* lane keys (session keys, agent ids, schedule ids)
          Tasks,           \* callers of acquire()
          MaxConcurrent,   \* LaneConfig.maxConcurrent
          MaxQueueSize,    \* LaneConfig.maxQueueSize
          MaxGenerations,  \* bound on the calls of resetGeneration()
          MaxDisposals     \* bound on the calls of dispose()

ASSUME LaneAssumption ==
    /\ IsFiniteSet(Tasks)
    /\ MaxConcurrent \in Nat \ {0}
    /\ MaxQueueSize \in Nat
    /\ MaxGenerations \in Nat
    /\ MaxDisposals \in Nat

VARIABLES active,      \* the Map active: slots taken per key (absent = 0)
          generation,  \* the generation counter
          waiters,     \* the Map waiters: the line of each key (absent = <<>>)
          task,        \* what each caller is doing, and with which handle
          disposals    \* how often dispose() has run

vars == <<active, generation, waiters, task, disposals>>

-----------------------------------------------------------------------------
Idle == [at |-> "idle"]
Waiting(k, g) == [at |-> "waiting", key |-> k, gen |-> g]
Holding(k, g) == [at |-> "holding", key |-> k, gen |-> g]

TaskState == {Idle} \cup [at : {"waiting", "holding"}, key : Keys, gen : Nat]

IsIdle(t) == task[t].at = "idle"
IsWaiting(t, k) == task[t].at = "waiting" /\ task[t].key = k
IsHolding(t, k) == task[t].at = "holding" /\ task[t].key = k

\* Everyone running under key k, with a current or with a stale handle.
Holders(k) == {t \in Tasks : IsHolding(t, k)}
CurrentHolders(k) == {t \in Holders(k) : task[t].gen = generation}

\* Array.prototype.splice(i, 1): the line without its i-th waiter.
DropAt(s, i) == [j \in 1..(Len(s) - 1) |-> IF j < i THEN s[j] ELSE s[j + 1]]

-----------------------------------------------------------------------------
Init == /\ active = [k \in Keys |-> 0]
        /\ generation = 0
        /\ waiters = [k \in Keys |-> <<>>]
        /\ task = [t \in Tasks |-> Idle]
        /\ disposals = 0

\* acquire(): a slot is free.
AcquireNow(t, k) ==
    /\ IsIdle(t)
    /\ active[k] < MaxConcurrent
    /\ active' = [active EXCEPT ![k] = @ + 1]
    /\ task' = [task EXCEPT ![t] = Holding(k, generation)]
    /\ UNCHANGED <<generation, waiters, disposals>>

\* acquire(): no slot, room in the line.  With a full line acquire() throws
\* LANE_QUEUE_FULL and the lane is unchanged, which needs no action.
AcquireQueued(t, k) ==
    /\ IsIdle(t)
    /\ active[k] >= MaxConcurrent
    /\ Len(waiters[k]) < MaxQueueSize
    /\ waiters' = [waiters EXCEPT ![k] = Append(@, t)]
    /\ task' = [task EXCEPT ![t] = Waiting(k, generation)]
    /\ UNCHANGED <<active, generation, disposals>>

\* The timer of a waiter fires: removeWaiter() and a LANE_TIMEOUT rejection.
Timeout(t, k) ==
    /\ IsWaiting(t, k)
    /\ \E i \in 1..Len(waiters[k]) :
          /\ waiters[k][i] = t
          /\ waiters' = [waiters EXCEPT ![k] = DropAt(@, i)]
    /\ task' = [task EXCEPT ![t] = Idle]
    /\ UNCHANGED <<active, generation, disposals>>

\* Faulty variant: the slot is handed over and given back as well.
HandOverFreesSlot(t, k) ==
    /\ waiters[k] # <<>>
    /\ waiters' = [waiters EXCEPT ![k] = Tail(@)]
    /\ task' = [task EXCEPT ![t] = Idle, ![Head(waiters[k])] = Holding(k, generation)]
    /\ active' = [active EXCEPT ![k] = @ - 1]

\* Faulty variant: pop() for shift(), the last in line is served first.
HandOverToLast(t, k) ==
    LET last == Len(waiters[k]) IN
    /\ waiters[k] # <<>>
    /\ waiters' = [waiters EXCEPT ![k] = DropAt(@, last)]
    /\ task' = [task EXCEPT ![t] = Idle, ![waiters[k][last]] = Holding(k, generation)]
    /\ UNCHANGED active

\* release() hands the slot to the head of the line; active stays as it is.
HandOver(t, k) ==
    LET next == Head(waiters[k]) IN
    /\ waiters[k] # <<>>
    /\ waiters' = [waiters EXCEPT ![k] = Tail(@)]
    /\ task' = [task EXCEPT ![t] = Idle, ![next] = Holding(k, task[next].gen)]
    /\ UNCHANGED active

\* release() with nobody waiting frees the slot.
FreeSlot(t, k) ==
    /\ waiters[k] = <<>>
    /\ active' = [active EXCEPT ![k] = IF @ <= 1 THEN 0 ELSE @ - 1]
    /\ task' = [task EXCEPT ![t] = Idle]
    /\ UNCHANGED waiters

\* Faulty variant: a revoked handle is accepted.
ReleaseAnyGeneration(t, k) ==
    /\ IsHolding(t, k)
    /\ HandOver(t, k) \/ FreeSlot(t, k)
    /\ UNCHANGED <<generation, disposals>>

\* handle.release() -> releaseIfCurrent(): only a current handle counts.
Release(t, k) ==
    /\ IsHolding(t, k)
    /\ IF task[t].gen = generation
         THEN HandOver(t, k) \/ FreeSlot(t, k)
         ELSE /\ task' = [task EXCEPT ![t] = Idle]
              /\ UNCHANGED <<active, waiters>>
    /\ UNCHANGED <<generation, disposals>>

\* clearWaiters(): every waiter is rejected with LANE_CLEARED.
ClearWaiters ==
    /\ waiters' = [k \in Keys |-> <<>>]
    /\ task' = [t \in Tasks |-> IF task[t].at = "waiting" THEN Idle ELSE task[t]]

ResetGeneration ==
    /\ generation < MaxGenerations
    /\ generation' = generation + 1
    /\ ClearWaiters
    /\ UNCHANGED <<active, disposals>>

Dispose ==
    /\ disposals < MaxDisposals
    /\ disposals' = disposals + 1
    /\ ClearWaiters
    /\ active' = [k \in Keys |-> 0]
    /\ UNCHANGED generation

Next == \/ \E t \in Tasks, k \in Keys :
             \/ AcquireNow(t, k)
             \/ AcquireQueued(t, k)
             \/ Timeout(t, k)
             \/ Release(t, k)
        \/ ResetGeneration
        \/ Dispose

Spec == Init /\ [][Next]_vars

\* Every holder releases in a finally block, so it is weakly fair; nothing
\* is assumed of arrivals, of the timers or of the resets.
FairSpec == Spec /\ \A t \in Tasks, k \in Keys : WF_vars(Release(t, k))

-----------------------------------------------------------------------------
\* Types of the lane's maps and of the callers' states; counts never go below
\* zero, whichever handles are released after dispose() emptied the counts.
TypeOK == /\ active \in [Keys -> 0..MaxConcurrent]
          /\ generation \in 0..MaxGenerations
          /\ waiters \in [Keys -> Seq(Tasks)]
          /\ task \in [Tasks -> TaskState]
          /\ disposals \in 0..MaxDisposals

\* The line of a key holds exactly the callers waiting for it, once each, and
\* only callers of the current generation: a hand-over never goes to a caller
\* that timed out, was cleared, or waits elsewhere.
LineSound ==
    \A k \in Keys :
      /\ \A i \in 1..Len(waiters[k]) : task[waiters[k][i]] = Waiting(k, generation)
      /\ \A i, j \in 1..Len(waiters[k]) : waiters[k][i] = waiters[k][j] => i = j
      /\ \A t \in Tasks :
           IsWaiting(t, k) => \E i \in 1..Len(waiters[k]) : waiters[k][i] = t

\* A line forms only behind a full house: no caller waits while active says
\* that a slot is free, so no arrival can slip past the line.
WorkConserving ==
    \A k \in Keys : waiters[k] # <<>> => active[k] = MaxConcurrent

\* Until dispose(), active never undercounts the tasks that run, those with a
\* revoked handle included.
SlotsCover ==
    disposals = 0 => \A k \in Keys : Cardinality(Holders(k)) <= active[k]

\* The promise of the class: until dispose() never more than maxConcurrent
\* tasks of a key run together, through hand-overs, timeouts and resets.
LimitRespected ==
    disposals = 0 => \A k \in Keys : Cardinality(Holders(k)) <= MaxConcurrent

\* Both, in every state of every order of releases, timers and resets: slots are
\* neither lost nor given out twice.  (concurrency-lane.ts:95: release)
SlotsAccounted == WorkConserving /\ LimitRespected

\* First come, first served: whoever starts on a key passes nobody who was in
\* its line before, be it by a fresh acquire() or by a hand-over.
NoOvertaking ==
    [][\A k \in Keys, t \in Tasks :
          ~IsHolding(t, k) /\ IsHolding(t, k)'
            => waiters[k] = <<>> \/ Head(waiters[k]) = t]_vars

\* Hand-over is enough for progress: with holders that finish, and even if no
\* timer ever fires, nobody waits for ever.  After a reset the slots of revoked
\* handles are gone, and a line behind them has only its timers to rely on.
WaiterServed ==
    \A t \in Tasks, k \in Keys :
        (generation = 0 /\ IsWaiting(t, k)) ~> ~IsWaiting(t, k)

-----------------------------------------------------------------------------
\* The lane as a pool of slots with a line in front of it (SlotLine).  A slot
\* whose handle was revoked by resetGeneration() leaves the pool for good: the
\* code never takes it off the active count again.
Pool == INSTANCE SlotLine WITH
          holders  <- [k \in Keys |-> CurrentHolders(k)],
          capacity <- [k \in Keys |->
                         MaxConcurrent - (active[k] - Cardinality(CurrentHolders(k)))],
          line     <- waiters

\* Until it is disposed of, every behaviour of the lane is one of the slot
\* pool: no step of acquire(), of a timer, of release() or of resetGeneration()
\* can be told from one of the pool, and a stale release() is not seen at all.
ImplementsPool == Pool!Init /\ [][disposals' = 0 => Pool!Next]_(Pool!vars)
=============================================================================
