------------------------- MODULE LaneFallbackProofs -------------------------
(***************************************************************************)
(* Proofs about what stands around every run: the lane it waits in (Lane)  *)
(* and the models it is tried on (ModelFallback).                          *)
(*                                                                         *)
(* Lane, for every set of keys and callers, every limit, and every number  *)
(* of resets and disposals.  The limit follows from a count that covers    *)
(* the holders (SlotsCover).  A hand-over keeps the cover only if the head *)
(* of the line is really waiting and nowhere else (LineSound), and nobody  *)
(* is passed only because a line stands behind a full house                *)
(* (WorkConserving): the three and the types make the inductive invariant. *)
(*                                                                         *)
(* ModelFallback, for any chains, providers, tiers and breaker limits: a   *)
(* run calls only where it may and gives up only when it must.             *)
(***************************************************************************)
EXTENDS Lane, ModelFallback, FiniteSetTheorems, SequenceTheorems, WellFoundedInduction, TLAPS

-----------------------------------------------------------------------------
(* The lane.                                                               *)

LaneInv == TypeOK /\ LineSound /\ WorkConserving /\ SlotsCover

-----------------------------------------------------------------------------
\* A line without one of its waiters is a line, one shorter, in the same order.
LEMMA DropAtLine ==
    ASSUME NEW S, NEW s \in Seq(S), NEW i \in 1..Len(s)
    PROVE  /\ DropAt(s, i) \in Seq(S)
           /\ Len(DropAt(s, i)) = Len(s) - 1
           /\ \A j \in 1..(Len(s) - 1) :
                DropAt(s, i)[j] = IF j < i THEN s[j] ELSE s[j + 1]
<1>1. Len(s) - 1 \in Nat
  OBVIOUS
<1>2. \A j \in 1..(Len(s) - 1) : (IF j < i THEN s[j] ELSE s[j + 1]) \in S
  OBVIOUS
<1> QED
  BY <1>1, <1>2 DEF DropAt

\* What a caller can be, taken apart and put together.
LEMMA CallerStates ==
    ASSUME NEW k \in Keys, NEW g \in Nat
    PROVE  /\ Idle \in TaskState
           /\ Waiting(k, g) \in TaskState
           /\ Holding(k, g) \in TaskState
           /\ Idle.at = "idle"
           /\ Waiting(k, g).at = "waiting" /\ Waiting(k, g).key = k /\ Waiting(k, g).gen = g
           /\ Holding(k, g).at = "holding" /\ Holding(k, g).key = k /\ Holding(k, g).gen = g
BY DEF Idle, Waiting, Holding, TaskState

\* The head of a line waits for the key of the line, under the current generation.
LEMMA HeadWaits ==
    ASSUME TypeOK, LineSound, NEW k \in Keys, waiters[k] # <<>>
    PROVE  /\ Head(waiters[k]) \in Tasks
           /\ Head(waiters[k]) = waiters[k][1]
           /\ 1 \in 1..Len(waiters[k])
           /\ task[Head(waiters[k])] = Waiting(k, generation)
           /\ IsWaiting(Head(waiters[k]), k)
<1>1. /\ waiters[k] \in Seq(Tasks)
      /\ generation \in Nat
  BY LaneAssumption DEF TypeOK
<1>2. /\ Head(waiters[k]) \in Tasks
      /\ Head(waiters[k]) = waiters[k][1]
      /\ 1 \in 1..Len(waiters[k])
  BY <1>1
<1>3. task[Head(waiters[k])] = Waiting(k, generation)
  BY <1>2 DEF LineSound
<1> QED
  BY <1>1, <1>2, <1>3, CallerStates DEF IsWaiting

-----------------------------------------------------------------------------
LEMMA InitInv == Init => LaneInv
<1> SUFFICES ASSUME Init PROVE LaneInv
  OBVIOUS
<1>1. TypeOK
  BY LaneAssumption DEF Init, TypeOK, TaskState
<1>2. LineSound
  BY DEF Init, LineSound, IsWaiting, Idle
<1>3. WorkConserving
  BY DEF Init, WorkConserving
<1>4. \A k \in Keys : Holders(k) = {}
  BY DEF Init, Holders, IsHolding, Idle
<1>5. Cardinality({}) = 0
  BY FS_EmptySet
<1>6. SlotsCover
  <2> SUFFICES ASSUME NEW k \in Keys PROVE Cardinality(Holders(k)) <= active[k]
    BY DEF SlotsCover
  <2>1. Cardinality(Holders(k)) = 0
    BY <1>4, <1>5, Zenon
  <2>2. active[k] = 0
    BY DEF Init
  <2> QED
    BY <2>1, <2>2
<1> QED
  BY <1>1, <1>2, <1>3, <1>6 DEF LaneInv

LEMMA TypeStep == LaneInv /\ [Next]_vars => TypeOK'
<1> SUFFICES ASSUME LaneInv, [Next]_vars PROVE TypeOK'
  OBVIOUS
<1> USE LaneAssumption
<1>0. TypeOK /\ LineSound
  BY DEF LaneInv
<1>1. ASSUME NEW t \in Tasks, NEW k \in Keys, AcquireNow(t, k) PROVE TypeOK'
  <2>1. Holding(k, generation) \in TaskState
    BY <1>0, CallerStates DEF TypeOK
  <2> QED
    BY <1>0, <1>1, <2>1 DEF AcquireNow, TypeOK
<1>2. ASSUME NEW t \in Tasks, NEW k \in Keys, AcquireQueued(t, k) PROVE TypeOK'
  <2>1. Waiting(k, generation) \in TaskState
    BY <1>0, CallerStates DEF TypeOK
  <2> QED
    BY <1>0, <1>2, <2>1 DEF AcquireQueued, TypeOK
<1>3. ASSUME NEW t \in Tasks, NEW k \in Keys, Timeout(t, k) PROVE TypeOK'
  <2>1. PICK i \in 1..Len(waiters[k]) :
          waiters' = [waiters EXCEPT ![k] = DropAt(@, i)]
    BY <1>3 DEF Timeout
  <2>2. DropAt(waiters[k], i) \in Seq(Tasks)
    BY <1>0, DropAtLine DEF TypeOK
  <2>3. Idle \in TaskState
    BY DEF TaskState
  <2> QED
    BY <1>0, <1>3, <2>1, <2>2, <2>3 DEF Timeout, TypeOK
<1>4. ASSUME NEW t \in Tasks, NEW k \in Keys, Release(t, k) PROVE TypeOK'
  <2>1. CASE HandOver(t, k)
    <3>1. /\ Head(waiters[k]) \in Tasks
          /\ Tail(waiters[k]) \in Seq(Tasks)
          /\ task[Head(waiters[k])].gen \in Nat
      BY <1>0, <2>1, HeadWaits, CallerStates DEF HandOver, TypeOK
    <3>2. Holding(k, task[Head(waiters[k])].gen) \in TaskState /\ Idle \in TaskState
      BY <3>1, CallerStates
    <3> QED
      BY <1>0, <1>4, <2>1, <3>1, <3>2 DEF HandOver, Release, TypeOK
  <2>2. CASE FreeSlot(t, k)
    <3>1. Idle \in TaskState
      BY DEF TaskState
    <3> QED
      BY <1>0, <1>4, <2>2, <3>1 DEF FreeSlot, Release, TypeOK
  <2>3. CASE task' = [task EXCEPT ![t] = Idle] /\ UNCHANGED <<active, waiters>>
    <3>1. Idle \in TaskState
      BY DEF TaskState
    <3> QED
      BY <1>0, <1>4, <2>3, <3>1 DEF Release, TypeOK
  <2> QED
    BY <1>4, <2>1, <2>2, <2>3 DEF Release
<1>5. CASE ResetGeneration
  BY <1>0, <1>5 DEF ResetGeneration, ClearWaiters, TypeOK, TaskState
<1>6. CASE Dispose
  BY <1>0, <1>6 DEF Dispose, ClearWaiters, TypeOK, TaskState
<1>7. CASE UNCHANGED vars
  BY <1>0, <1>7 DEF vars, TypeOK
<1> QED
  BY <1>1, <1>2, <1>3, <1>4, <1>5, <1>6, <1>7 DEF Next

\* LineSound says that a caller in a line is in one place only: its state names
\* the line, and a line holds nobody twice.
LEMMA InLine ==
    ASSUME TypeOK, LineSound, NEW l \in Keys, NEW i \in 1..Len(waiters[l])
    PROVE  /\ waiters[l][i] \in Tasks
           /\ task[waiters[l][i]] = Waiting(l, generation)
           /\ task[waiters[l][i]].at = "waiting"
           /\ task[waiters[l][i]].key = l
<1>1. waiters[l] \in Seq(Tasks) /\ generation \in Nat
  BY LaneAssumption DEF TypeOK
<1>2. task[waiters[l][i]] = Waiting(l, generation)
  BY DEF LineSound
<1> QED
  BY <1>1, <1>2, CallerStates

\* What a step must keep for LineSound, line by line: the place and the state of
\* those in line, and that whoever waits is in line.
LEMMA LineRule ==
    ASSUME \A l \in Keys :
             /\ \A i \in 1..Len(waiters'[l]) : task'[waiters'[l][i]] = Waiting(l, generation')
             /\ \A i, j \in 1..Len(waiters'[l]) : waiters'[l][i] = waiters'[l][j] => i = j
             /\ \A t \in Tasks : task'[t].at = "waiting" /\ task'[t].key = l
                                   => \E i \in 1..Len(waiters'[l]) : waiters'[l][i] = t
    PROVE  LineSound'
BY DEF LineSound, IsWaiting

\* acquire() that finds no slot: the caller goes to the end of the line.
LEMMA LineQueued ==
    ASSUME TypeOK, LineSound, NEW t \in Tasks, NEW k \in Keys, AcquireQueued(t, k)
    PROVE  LineSound'
<1> DEFINE w == waiters[k]
           a == Append(w, t)
<1>1. /\ w \in Seq(Tasks)
      /\ task'[t] = Waiting(k, generation)
      /\ \A u \in Tasks : u # t => task'[u] = task[u]
      /\ waiters'[k] = a
      /\ \A l \in Keys : l # k => waiters'[l] = waiters[l]
      /\ generation' = generation
  BY DEF AcquireQueued, TypeOK
<1>2. /\ Len(w) \in Nat
      /\ Len(a) = Len(w) + 1
      /\ a[Len(w) + 1] = t
      /\ \A i \in 1..Len(w) : a[i] = w[i]
  BY <1>1
<1>3. task[t].at = "idle"
  BY DEF AcquireQueued, IsIdle
<1>4. ASSUME NEW l \in Keys, NEW i \in 1..Len(waiters[l])
      PROVE  waiters[l][i] \in Tasks /\ waiters[l][i] # t
  BY <1>3, InLine
<1> HIDE DEF a
<1>5. ASSUME NEW l \in Keys, NEW i \in 1..Len(waiters'[l])
      PROVE  task'[waiters'[l][i]] = Waiting(l, generation')
  <2>1. CASE l = k /\ i = Len(w) + 1
    BY <1>1, <1>2, <2>1
  <2>2. CASE l = k /\ i # Len(w) + 1
    <3>1. i \in 1..Len(w) /\ waiters'[l][i] = w[i]
      BY <1>1, <1>2, <1>5, <2>2
    <3>2. task'[w[i]] = task[w[i]]
      BY <1>1, <1>4, <2>2, <3>1
    <3>3. task[w[i]] = Waiting(k, generation)
      BY <3>1, InLine
    <3> QED
      BY <1>1, <2>2, <3>1, <3>2, <3>3
  <2>3. CASE l # k
    <3>1. i \in 1..Len(waiters[l]) /\ waiters'[l][i] = waiters[l][i]
      BY <1>1, <1>5, <2>3
    <3>2. task'[waiters[l][i]] = task[waiters[l][i]]
      BY <1>1, <1>4, <3>1
    <3> QED
      BY <1>1, <3>1, <3>2, InLine
  <2> QED
    BY <2>1, <2>2, <2>3
<1>6. ASSUME NEW l \in Keys, NEW i \in 1..Len(waiters'[l]), NEW j \in 1..Len(waiters'[l]),
             waiters'[l][i] = waiters'[l][j]
      PROVE  i = j
  <2>1. CASE l = k
    <3>1. i \in 1..(Len(w) + 1) /\ j \in 1..(Len(w) + 1) /\ a[i] = a[j]
      BY <1>1, <1>2, <1>6, <2>1
    <3>2. \A m \in 1..Len(w) : w[m] # t
      BY <1>4
    <3>3. \A m, n \in 1..Len(w) : w[m] = w[n] => m = n
      BY DEF LineSound
    <3> QED
      BY <1>2, <3>1, <3>2, <3>3
  <2>2. CASE l # k
    BY <1>1, <1>6, <2>2 DEF LineSound
  <2> QED
    BY <2>1, <2>2
<1>7. ASSUME NEW l \in Keys, NEW u \in Tasks, task'[u].at = "waiting", task'[u].key = l
      PROVE  \E i \in 1..Len(waiters'[l]) : waiters'[l][i] = u
  <2>1. CASE u = t
    <3>1. l = k
      <4>1. generation \in Nat
        BY LaneAssumption DEF TypeOK
      <4> QED
        BY <1>1, <1>7, <2>1, <4>1, CallerStates
    <3>2. Len(w) + 1 \in 1..Len(a)
      BY <1>2
    <3> QED
      BY <1>1, <1>2, <2>1, <3>1, <3>2
  <2>2. CASE u # t
    <3>1. PICK i \in 1..Len(waiters[l]) : waiters[l][i] = u
      BY <1>1, <1>7, <2>2 DEF LineSound, IsWaiting
    <3>2. i \in 1..Len(waiters'[l]) /\ waiters'[l][i] = u
      BY <1>1, <1>2, <3>1
    <3> QED
      BY <3>2
  <2> QED
    BY <2>1, <2>2
<1> QED
  BY <1>5, <1>6, <1>7, LineRule

\* The timer of a waiter: the line closes up around the caller that left it.
LEMMA LineTimeout ==
    ASSUME TypeOK, LineSound, NEW t \in Tasks, NEW k \in Keys, Timeout(t, k)
    PROVE  LineSound'
<1>1. PICK p \in 1..Len(waiters[k]) :
        /\ waiters[k][p] = t
        /\ waiters' = [waiters EXCEPT ![k] = DropAt(@, p)]
  BY DEF Timeout
<1> DEFINE w == waiters[k]
           d == DropAt(w, p)
<1>2. /\ w \in Seq(Tasks)
      /\ task'[t].at = "idle"
      /\ \A u \in Tasks : u # t => task'[u] = task[u]
      /\ waiters'[k] = d
      /\ \A l \in Keys : l # k => waiters'[l] = waiters[l]
      /\ generation' = generation
  BY <1>1 DEF Timeout, TypeOK, Idle
<1>3. /\ Len(w) \in Nat
      /\ Len(d) = Len(w) - 1
      /\ \A j \in 1..(Len(w) - 1) : d[j] = IF j < p THEN w[j] ELSE w[j + 1]
  <2>1. w \in Seq(Tasks) /\ p \in 1..Len(w)
    BY <1>2
  <2>2. Len(w) \in Nat
    BY <1>2
  <2>3. /\ Len(DropAt(w, p)) = Len(w) - 1
        /\ \A j \in 1..(Len(w) - 1) : DropAt(w, p)[j] = IF j < p THEN w[j] ELSE w[j + 1]
    <3> HIDE DEF w
    <3> QED
      BY <2>1, DropAtLine, Zenon
  <2> QED
    BY <2>2, <2>3, Zenon
<1>4. \A i, j \in 1..Len(w) : w[i] = w[j] => i = j
  BY DEF LineSound
<1>5. ASSUME NEW l \in Keys, l # k, NEW i \in 1..Len(waiters[l])
      PROVE  waiters[l][i] # t
  BY <1>1, <1>5, InLine
<1> HIDE DEF d
\* The waiter now at j was at j or behind it before, and is not t.
<1>6. ASSUME NEW j \in 1..(Len(w) - 1)
      PROVE  \E i \in 1..Len(w) : /\ d[j] = w[i]
                                  /\ i # p
                                  /\ i = (IF j < p THEN j ELSE j + 1)
  BY <1>3
<1>7. ASSUME NEW l \in Keys, NEW i \in 1..Len(waiters'[l])
      PROVE  task'[waiters'[l][i]] = Waiting(l, generation')
  <2>1. CASE l = k
    <3>1. PICK m \in 1..Len(w) : d[i] = w[m] /\ m # p
      BY <1>2, <1>3, <1>6, <1>7, <2>1
    <3>2. w[m] \in Tasks /\ w[m] # t /\ task[w[m]] = Waiting(k, generation)
      BY <1>1, <1>4, <3>1, InLine
    <3> QED
      BY <1>2, <2>1, <3>1, <3>2
  <2>2. CASE l # k
    <3>1. i \in 1..Len(waiters[l]) /\ waiters'[l][i] = waiters[l][i]
      BY <1>2, <1>7, <2>2
    <3>2. waiters[l][i] \in Tasks /\ task[waiters[l][i]] = Waiting(l, generation)
      BY <3>1, InLine
    <3>3. waiters[l][i] # t
      BY <1>5, <2>2, <3>1
    <3> QED
      BY <1>2, <3>1, <3>2, <3>3
  <2> QED
    BY <2>1, <2>2
<1>8. ASSUME NEW l \in Keys, NEW i \in 1..Len(waiters'[l]), NEW j \in 1..Len(waiters'[l]),
             waiters'[l][i] = waiters'[l][j]
      PROVE  i = j
  <2>1. CASE l = k
    <3>1. i \in 1..(Len(w) - 1) /\ j \in 1..(Len(w) - 1) /\ d[i] = d[j]
      BY <1>2, <1>3, <1>8, <2>1
    <3>2. PICK m \in 1..Len(w) : d[i] = w[m] /\ m = (IF i < p THEN i ELSE i + 1)
      BY <1>6, <3>1
    <3>3. PICK n \in 1..Len(w) : d[j] = w[n] /\ n = (IF j < p THEN j ELSE j + 1)
      BY <1>6, <3>1
    <3>4. m = n
      BY <1>4, <3>1, <3>2, <3>3
    <3> QED
      BY <3>1, <3>2, <3>3, <3>4
  <2>2. CASE l # k
    BY <1>2, <1>8, <2>2 DEF LineSound
  <2> QED
    BY <2>1, <2>2
<1>9. ASSUME NEW l \in Keys, NEW u \in Tasks, task'[u].at = "waiting", task'[u].key = l
      PROVE  \E i \in 1..Len(waiters'[l]) : waiters'[l][i] = u
  <2>1. u # t /\ task[u].at = "waiting" /\ task[u].key = l
    BY <1>2, <1>9
  <2>2. PICK i \in 1..Len(waiters[l]) : waiters[l][i] = u
    BY <2>1 DEF LineSound, IsWaiting
  <2>3. CASE l # k
    BY <1>2, <2>2, <2>3
  <2>4. CASE l = k /\ i < p
    <3>1. i \in 1..Len(d) /\ d[i] = u
      BY <1>3, <2>2, <2>4
    <3> QED
      BY <1>2, <2>4, <3>1
  <2>5. CASE l = k /\ p < i
    <3>1. i - 1 \in 1..Len(d) /\ d[i - 1] = w[i]
      BY <1>3, <2>2, <2>5
    <3> QED
      BY <1>2, <2>2, <2>5, <3>1
  <2>6. l = k => i # p
    BY <1>1, <2>1, <2>2
  <2> QED
    BY <2>3, <2>4, <2>5, <2>6
<1> QED
  BY <1>7, <1>8, <1>9, LineRule

\* The hand-over: the head leaves the line and holds the slot.
LEMMA LineHandOver ==
    ASSUME TypeOK, LineSound, NEW t \in Tasks, NEW k \in Keys,
           IsHolding(t, k), HandOver(t, k), UNCHANGED generation
    PROVE  LineSound'
<1> DEFINE w == waiters[k]
           h == Head(w)
<1>1. /\ w \in Seq(Tasks) /\ w # <<>>
      /\ h \in Tasks /\ h = w[1] /\ 1 \in 1..Len(w)
      /\ task[h] = Waiting(k, generation)
      /\ task[h].at = "waiting" /\ task[h].key = k
      /\ task[t].at = "holding"
  BY HeadWaits DEF HandOver, IsHolding, IsWaiting, TypeOK
<1>2. /\ task'[h].at = "holding"
      /\ task'[t].at # "waiting"
      /\ \A u \in Tasks : u # t /\ u # h => task'[u] = task[u]
      /\ waiters'[k] = Tail(w)
      /\ \A l \in Keys : l # k => waiters'[l] = waiters[l]
      /\ generation' = generation
  BY <1>1 DEF HandOver, Idle, Holding, TypeOK
<1>3. /\ Len(w) \in Nat \ {0}
      /\ Len(Tail(w)) = Len(w) - 1
      /\ \A j \in 1..(Len(w) - 1) : Tail(w)[j] = w[j + 1]
  BY <1>1
<1>4. \A i, j \in 1..Len(w) : w[i] = w[j] => i = j
  BY DEF LineSound
<1>5. ASSUME NEW l \in Keys, l # k, NEW i \in 1..Len(waiters[l])
      PROVE  waiters[l][i] # t /\ waiters[l][i] # h
  BY <1>1, <1>5, InLine
<1>6. ASSUME NEW l \in Keys, NEW i \in 1..Len(waiters'[l])
      PROVE  task'[waiters'[l][i]] = Waiting(l, generation')
  <2>1. CASE l = k
    <3>1. i + 1 \in 1..Len(w) /\ i + 1 # 1 /\ waiters'[l][i] = w[i + 1]
      <4>1. waiters'[l] = Tail(w)
        BY <1>2, <2>1
      <4>2. i \in 1..(Len(w) - 1)
        BY <1>3, <1>6, <4>1
      <4> QED
        BY <1>3, <4>1, <4>2
    <3>2. /\ w[i + 1] \in Tasks
          /\ task[w[i + 1]] = Waiting(k, generation)
          /\ task[w[i + 1]].at = "waiting"
      BY <3>1, InLine
    <3>3. w[i + 1] # h /\ w[i + 1] # t
      BY <1>1, <1>4, <3>1, <3>2
    <3> QED
      BY <1>2, <2>1, <3>1, <3>2, <3>3
  <2>2. CASE l # k
    <3>1. i \in 1..Len(waiters[l]) /\ waiters'[l][i] = waiters[l][i]
      BY <1>2, <1>6, <2>2
    <3>2. waiters[l][i] \in Tasks /\ task[waiters[l][i]] = Waiting(l, generation)
      BY <3>1, InLine
    <3>3. waiters[l][i] # t /\ waiters[l][i] # h
      BY <1>5, <2>2, <3>1
    <3> QED
      BY <1>2, <3>1, <3>2, <3>3
  <2> QED
    BY <2>1, <2>2
<1>7. ASSUME NEW l \in Keys, NEW i \in 1..Len(waiters'[l]), NEW j \in 1..Len(waiters'[l]),
             waiters'[l][i] = waiters'[l][j]
      PROVE  i = j
  <2>1. CASE l = k
    <3>1. /\ i \in 1..(Len(w) - 1) /\ j \in 1..(Len(w) - 1)
          /\ w[i + 1] = w[j + 1]
      BY <1>2, <1>3, <1>7, <2>1
    <3> QED
      BY <1>3, <1>4, <3>1
  <2>2. CASE l # k
    BY <1>2, <1>7, <2>2 DEF LineSound
  <2> QED
    BY <2>1, <2>2
<1>8. ASSUME NEW l \in Keys, NEW u \in Tasks, task'[u].at = "waiting", task'[u].key = l
      PROVE  \E i \in 1..Len(waiters'[l]) : waiters'[l][i] = u
  <2>1. u # t /\ u # h
    BY <1>2, <1>8
  <2>2. PICK i \in 1..Len(waiters[l]) : waiters[l][i] = u
    BY <1>2, <1>8, <2>1 DEF LineSound, IsWaiting
  <2>3. CASE l = k
    <3>1. i \in 1..Len(w) /\ i # 1
      BY <1>1, <2>1, <2>2, <2>3
    <3>2. i - 1 \in 1..(Len(w) - 1) /\ Tail(w)[i - 1] = w[i]
      BY <1>3, <3>1
    <3> QED
      BY <1>2, <1>3, <2>2, <2>3, <3>2
  <2>4. CASE l # k
    BY <1>2, <2>2, <2>4
  <2> QED
    BY <2>3, <2>4
<1> QED
  BY <1>6, <1>7, <1>8, LineRule

\* A caller that neither waited nor waits changes its state: no line notices.
LEMMA LineKept ==
    ASSUME TypeOK, LineSound, NEW t \in Tasks,
           task[t].at # "waiting", task'[t].at # "waiting",
           \A u \in Tasks : u # t => task'[u] = task[u],
           UNCHANGED <<waiters, generation>>
    PROVE  LineSound'
<1>1. ASSUME NEW l \in Keys, NEW i \in 1..Len(waiters[l])
      PROVE  task'[waiters[l][i]] = Waiting(l, generation)
  BY InLine
<1>2. ASSUME NEW l \in Keys, NEW u \in Tasks, task'[u].at = "waiting", task'[u].key = l
      PROVE  \E i \in 1..Len(waiters[l]) : waiters[l][i] = u
  BY <1>2 DEF LineSound, IsWaiting
<1> QED
  BY <1>1, <1>2, LineRule DEF LineSound

LEMMA LineStep == LaneInv /\ [Next]_vars => LineSound'
<1> SUFFICES ASSUME TypeOK, LineSound, [Next]_vars PROVE LineSound'
  BY DEF LaneInv
<1>1. ASSUME NEW t \in Tasks, NEW k \in Keys, AcquireNow(t, k) PROVE LineSound'
  <2>1. /\ task[t].at = "idle"
        /\ task'[t].at = "holding"
        /\ \A u \in Tasks : u # t => task'[u] = task[u]
        /\ UNCHANGED <<waiters, generation>>
    BY <1>1 DEF AcquireNow, IsIdle, Holding, TypeOK
  <2> QED
    BY <2>1, LineKept
<1>2. ASSUME NEW t \in Tasks, NEW k \in Keys, AcquireQueued(t, k) PROVE LineSound'
  BY <1>2, LineQueued
<1>3. ASSUME NEW t \in Tasks, NEW k \in Keys, Timeout(t, k) PROVE LineSound'
  BY <1>3, LineTimeout
<1>4. ASSUME NEW t \in Tasks, NEW k \in Keys, Release(t, k) PROVE LineSound'
  <2>1. CASE HandOver(t, k)
    BY <1>4, <2>1, LineHandOver DEF Release
  <2>2. CASE task' = [task EXCEPT ![t] = Idle] /\ UNCHANGED <<waiters, generation>>
    <3>1. /\ task[t].at = "holding"
          /\ task'[t].at = "idle"
          /\ \A u \in Tasks : u # t => task'[u] = task[u]
      BY <1>4, <2>2 DEF Release, IsHolding, Idle, TypeOK
    <3> QED
      BY <2>2, <3>1, LineKept
  <2> QED
    BY <1>4, <2>1, <2>2 DEF Release, FreeSlot
<1>5. CASE ClearWaiters
  <2>1. /\ \A l \in Keys : waiters'[l] = <<>>
        /\ \A u \in Tasks : task'[u].at # "waiting"
    BY <1>5 DEF ClearWaiters, Idle
  <2>2. Len(<<>>) = 0
    OBVIOUS
  <2> QED
    BY <2>1, <2>2, LineRule
<1>6. CASE UNCHANGED vars
  BY <1>6 DEF vars, LineSound, IsWaiting
<1> QED
  BY <1>1, <1>2, <1>3, <1>4, <1>5, <1>6 DEF Next, ResetGeneration, Dispose

\* A line forms only when active is at the limit, and active leaves the limit
\* only when the line is empty.
LEMMA ConserveStep == LaneInv /\ [Next]_vars => WorkConserving'
<1> SUFFICES ASSUME TypeOK, WorkConserving, [Next]_vars PROVE WorkConserving'
  BY DEF LaneInv
<1> USE LaneAssumption
<1>1. ASSUME NEW t \in Tasks, NEW k \in Keys, AcquireNow(t, k) PROVE WorkConserving'
  BY <1>1 DEF AcquireNow, TypeOK, WorkConserving
<1>2. ASSUME NEW t \in Tasks, NEW k \in Keys, AcquireQueued(t, k) PROVE WorkConserving'
  <2>1. active[k] = MaxConcurrent
    BY <1>2 DEF AcquireQueued, TypeOK
  <2> QED
    BY <1>2, <2>1 DEF AcquireQueued, TypeOK, WorkConserving
<1>3. ASSUME NEW t \in Tasks, NEW k \in Keys, Timeout(t, k) PROVE WorkConserving'
  <2>1. /\ waiters[k] # <<>>
        /\ \A l \in Keys : l # k => waiters'[l] = waiters[l]
        /\ active' = active
    BY <1>3 DEF Timeout, TypeOK
  <2> QED
    BY <2>1 DEF WorkConserving
<1>4. ASSUME NEW t \in Tasks, NEW k \in Keys, Release(t, k) PROVE WorkConserving'
  <2>1. CASE HandOver(t, k)
    BY <2>1 DEF HandOver, TypeOK, WorkConserving
  <2>2. CASE FreeSlot(t, k)
    BY <2>2 DEF FreeSlot, TypeOK, WorkConserving
  <2>3. CASE UNCHANGED <<active, waiters>>
    BY <2>3 DEF WorkConserving
  <2> QED
    BY <1>4, <2>1, <2>2, <2>3 DEF Release
<1>5. CASE ClearWaiters
  BY <1>5 DEF ClearWaiters, WorkConserving
<1>6. CASE UNCHANGED vars
  BY <1>6 DEF vars, WorkConserving
<1> QED
  BY <1>1, <1>2, <1>3, <1>4, <1>5, <1>6 DEF Next, ResetGeneration, Dispose

-----------------------------------------------------------------------------
\* Who holds a slot of a key after one caller's state changed.
LEMMA HoldersOf ==
    ASSUME NEW k \in Keys
    PROVE  /\ IsFiniteSet(Holders(k))
           /\ Cardinality(Holders(k)) \in Nat
<1>1. Holders(k) \subseteq Tasks
  BY DEF Holders
<1>2. IsFiniteSet(Holders(k))
  BY <1>1, LaneAssumption, FS_Subset
<1> QED
  BY <1>2, FS_CardinalityType

LEMMA CoverStep == LaneInv /\ [Next]_vars => SlotsCover'
<1> SUFFICES ASSUME TypeOK, LineSound, SlotsCover, [Next]_vars, (disposals = 0)',
                    NEW l \in Keys
             PROVE  Cardinality(Holders(l)') <= active'[l]
  BY DEF LaneInv, SlotsCover
<1> USE LaneAssumption
<1>0. /\ disposals = 0 => Cardinality(Holders(l)) <= active[l]
      /\ active[l] \in Nat
      /\ IsFiniteSet(Holders(l))
      /\ Cardinality(Holders(l)) \in Nat
  BY HoldersOf DEF SlotsCover, TypeOK
<1>1. ASSUME NEW t \in Tasks, NEW k \in Keys, AcquireNow(t, k)
      PROVE  Cardinality(Holders(l)') <= active'[l]
  <2>0. disposals = 0 /\ task'[t].at = "holding" /\ task'[t].key = k
    BY <1>1 DEF AcquireNow, Holding, TypeOK
  <2>1. Holders(l)' = IF l = k THEN Holders(l) \cup {t} ELSE Holders(l)
    BY <1>1, <2>0 DEF AcquireNow, IsIdle, Holders, IsHolding, TypeOK
  <2>2. active'[l] = IF l = k THEN active[l] + 1 ELSE active[l]
    BY <1>1 DEF AcquireNow, TypeOK
  <2>3. Cardinality(Holders(l) \cup {t}) = IF t \in Holders(l) THEN Cardinality(Holders(l))
                                                                ELSE Cardinality(Holders(l)) + 1
    BY <1>0, FS_AddElement
  <2>4. Cardinality(Holders(l) \cup {t}) \in Nat
    BY <1>0, FS_AddElement, FS_CardinalityType
  <2> QED
    BY <1>0, <2>0, <2>1, <2>2, <2>3, <2>4
\* Every other step but a hand-over can only end a hold.
<1>2. ASSUME disposals = 0, Holders(l)' \subseteq Holders(l), active'[l] = active[l]
      PROVE  Cardinality(Holders(l)') <= active'[l]
  <2>1. /\ Cardinality(Holders(l)') <= Cardinality(Holders(l))
        /\ Cardinality(Holders(l)') \in Nat
    BY <1>0, <1>2, FS_Subset, FS_CardinalityType
  <2> QED
    BY <1>0, <1>2, <2>1
<1>3. ASSUME NEW t \in Tasks, NEW k \in Keys, AcquireQueued(t, k)
      PROVE  Cardinality(Holders(l)') <= active'[l]
  <2>1. disposals = 0 /\ task'[t].at = "waiting" /\ active'[l] = active[l]
    BY <1>3 DEF AcquireQueued, Waiting, TypeOK
  <2>2. Holders(l)' \subseteq Holders(l)
    BY <1>3, <2>1 DEF AcquireQueued, Holders, IsHolding, TypeOK
  <2> QED
    BY <1>2, <2>1, <2>2
<1>4. ASSUME NEW t \in Tasks, NEW k \in Keys, Timeout(t, k)
      PROVE  Cardinality(Holders(l)') <= active'[l]
  <2>1. disposals = 0 /\ task'[t].at = "idle" /\ active'[l] = active[l]
    BY <1>4 DEF Timeout, Idle, TypeOK
  <2>2. Holders(l)' \subseteq Holders(l)
    BY <1>4, <2>1 DEF Timeout, Holders, IsHolding, TypeOK
  <2> QED
    BY <1>2, <2>1, <2>2
<1>5. ASSUME NEW t \in Tasks, NEW k \in Keys, Release(t, k)
      PROVE  Cardinality(Holders(l)') <= active'[l]
  <2>0. disposals = 0 /\ t \in Holders(k) /\ task[t].at = "holding" /\ task[t].key = k
    BY <1>5 DEF Release, Holders, IsHolding
  <2>1. CASE HandOver(t, k)
    <3> DEFINE h == Head(waiters[k])
    <3>1. h \in Tasks /\ task[h].at = "waiting" /\ h # t
      BY <2>0, <2>1, HeadWaits DEF HandOver, IsWaiting
    <3>2. /\ task'[t].at = "idle"
          /\ task'[h].at = "holding" /\ task'[h].key = k
          /\ \A u \in Tasks : u # t /\ u # h => task'[u] = task[u]
          /\ active' = active
      BY <2>1, <3>1 DEF HandOver, Idle, Holding, TypeOK
    <3> HIDE DEF h
    <3>3. CASE l = k
      <4>1. Holders(k)' = (Holders(k) \ {t}) \cup {h}
        BY <2>0, <3>1, <3>2 DEF Holders, IsHolding
      <4>2. h \notin Holders(k) \ {t}
        BY <3>1 DEF Holders, IsHolding
      <4>3. /\ IsFiniteSet(Holders(k) \ {t})
            /\ Cardinality(Holders(k) \ {t}) = Cardinality(Holders(k)) - 1
        BY <1>0, <2>0, <3>3, FS_RemoveElement
      <4>4. Cardinality(Holders(k)') = Cardinality(Holders(k) \ {t}) + 1
        BY <4>1, <4>2, <4>3, FS_AddElement
      <4> QED
        BY <1>0, <2>0, <3>2, <3>3, <4>3, <4>4
    <3>4. CASE l # k
      <4>1. Holders(l)' = Holders(l)
        BY <2>0, <3>1, <3>2, <3>4 DEF Holders, IsHolding
      <4> QED
        BY <1>2, <2>0, <3>2, <4>1
    <3> QED
      BY <3>3, <3>4
  <2>2. CASE FreeSlot(t, k)
    <3>1. /\ task'[t].at = "idle"
          /\ \A u \in Tasks : u # t => task'[u] = task[u]
      BY <2>2 DEF FreeSlot, Idle, TypeOK
    <3>2. CASE l = k
      <4>1. Holders(k)' = Holders(k) \ {t}
        BY <3>1 DEF Holders, IsHolding
      <4>2. Cardinality(Holders(k)') = Cardinality(Holders(k)) - 1
        BY <1>0, <2>0, <3>2, <4>1, FS_RemoveElement, ZenonT(30)
      <4>3. active'[k] = IF active[k] <= 1 THEN 0 ELSE active[k] - 1
        BY <2>2 DEF FreeSlot, TypeOK
      <4> QED
        BY <1>0, <2>0, <3>2, <4>2, <4>3
    <3>3. CASE l # k
      <4>1. Holders(l)' = Holders(l) /\ active'[l] = active[l]
        BY <2>0, <2>2, <3>1, <3>3 DEF FreeSlot, Holders, IsHolding, TypeOK
      <4> QED
        BY <1>2, <2>0, <4>1
    <3> QED
      BY <3>2, <3>3
  <2>3. CASE task' = [task EXCEPT ![t] = Idle] /\ UNCHANGED <<active, waiters>>
    <3>1. /\ task'[t].at = "idle"
          /\ \A u \in Tasks : u # t => task'[u] = task[u]
      BY <2>3 DEF Idle, TypeOK
    <3>2. Holders(l)' \subseteq Holders(l)
      BY <3>1 DEF Holders, IsHolding
    <3> QED
      BY <1>2, <2>0, <2>3, <3>2
  <2> QED
    BY <1>5, <2>1, <2>2, <2>3 DEF Release
<1>6. CASE ResetGeneration
  <2>1. Holders(l)' \subseteq Holders(l)
    BY <1>6 DEF ResetGeneration, ClearWaiters, Holders, IsHolding, Idle
  <2> QED
    BY <1>2, <1>6, <2>1 DEF ResetGeneration
<1>7. CASE Dispose
  BY <1>7 DEF Dispose, TypeOK
<1>8. CASE UNCHANGED vars
  <2>1. Holders(l)' = Holders(l)
    BY <1>8 DEF vars, Holders, IsHolding
  <2> QED
    BY <1>2, <1>8, <2>1 DEF vars
<1> QED
  BY <1>1, <1>3, <1>4, <1>5, <1>6, <1>7, <1>8 DEF Next

-----------------------------------------------------------------------------
LEMMA InvStep == LaneInv /\ [Next]_vars => LaneInv'
BY TypeStep, LineStep, ConserveStep, CoverStep DEF LaneInv

\* Every reachable state of the lane satisfies the inductive invariant.
THEOREM InvariantHolds == Spec => []LaneInv
BY InitInv, InvStep, PTL DEF Spec

\* Types: in particular active stays between 0 and the limit of the lane, with
\* the releases that come in after a reset or a disposal.
THEOREM TypeCorrect == Spec => []TypeOK
<1>1. LaneInv => TypeOK
  BY DEF LaneInv
<1> QED
  BY <1>1, InvariantHolds, PTL

\* The lines hold exactly the waiting callers, once each (removeWaiter, shift
\* and clearWaiters never leave a dead entry behind).
THEOREM LinesSound == Spec => []LineSound
<1>1. LaneInv => LineSound
  BY DEF LaneInv
<1> QED
  BY <1>1, InvariantHolds, PTL

\* acquire() makes nobody wait while a slot is free.
THEOREM Conserving == Spec => []WorkConserving
<1>1. LaneInv => WorkConserving
  BY DEF LaneInv
<1> QED
  BY <1>1, InvariantHolds, PTL

\* Until dispose(), at most maxConcurrent callers of a key run at once.
THEOREM LimitHolds == Spec => []LimitRespected
<1>1. ASSUME LaneInv PROVE LimitRespected
  <2> SUFFICES ASSUME disposals = 0, NEW k \in Keys
               PROVE  Cardinality(Holders(k)) <= MaxConcurrent
    BY DEF LimitRespected
  <2>1. Cardinality(Holders(k)) <= active[k] /\ active[k] \in 0..MaxConcurrent
    BY <1>1 DEF LaneInv, SlotsCover, TypeOK
  <2>2. Cardinality(Holders(k)) \in Nat
    BY HoldersOf
  <2> QED
    BY <2>1, <2>2, LaneAssumption
<1> QED
  BY <1>1, InvariantHolds, PTL

\* release() neither loses a slot nor gives one out twice.
THEOREM SlotsHold == Spec => []SlotsAccounted
BY Conserving, LimitHolds, PTL DEF SlotsAccounted

\* No step, whichever it is, starts a caller past one that stands in the line.
THEOREM FirstComeFirstServed == Spec => NoOvertaking
<1> DEFINE Passes(k, t) == ~IsHolding(t, k) /\ IsHolding(t, k)'
                             => waiters[k] = <<>> \/ Head(waiters[k]) = t
<1>1. ASSUME LaneInv, Next, NEW l \in Keys, NEW u \in Tasks PROVE Passes(l, u)
  <2> SUFFICES ASSUME ~IsHolding(u, l), IsHolding(u, l)'
               PROVE  waiters[l] = <<>> \/ Head(waiters[l]) = u
    OBVIOUS
  <2>1. TypeOK /\ WorkConserving
    BY <1>1 DEF LaneInv
  <2>2. ASSUME NEW t \in Tasks, NEW k \in Keys, AcquireNow(t, k)
        PROVE  waiters[l] = <<>> \/ Head(waiters[l]) = u
    <3>1. /\ task'[t].key = k
          /\ \A v \in Tasks : v # t => task'[v] = task[v]
      BY <2>1, <2>2 DEF AcquireNow, Holding, TypeOK
    <3>2. u = t /\ l = k
      BY <3>1 DEF IsHolding
    <3>3. active[l] # MaxConcurrent
      BY <2>1, <2>2, <3>2, LaneAssumption DEF AcquireNow, TypeOK
    <3> QED
      BY <2>1, <3>3 DEF WorkConserving
  <2>3. ASSUME NEW t \in Tasks, NEW k \in Keys, Release(t, k)
        PROVE  waiters[l] = <<>> \/ Head(waiters[l]) = u
    <3>1. CASE HandOver(t, k)
      <4> DEFINE h == Head(waiters[k])
      <4>1. h \in Tasks /\ h # t
        BY <1>1, <2>3, <3>1, HeadWaits
           DEF LaneInv, HandOver, Release, IsHolding, IsWaiting
      <4>2. /\ task'[h].key = k /\ task'[t].at = "idle"
            /\ \A v \in Tasks : v # t /\ v # h => task'[v] = task[v]
        BY <2>1, <3>1, <4>1 DEF HandOver, Idle, Holding, TypeOK
      <4> HIDE DEF h
      <4>3. u = h /\ l = k
        BY <4>2 DEF IsHolding
      <4> QED
        BY <4>3 DEF h
    <3>2. CASE task' = [task EXCEPT ![t] = Idle]
      BY <2>1, <3>2 DEF IsHolding, Idle, TypeOK
    <3> QED
      BY <2>3, <3>1, <3>2 DEF Release, FreeSlot
  <2>4. ASSUME NEW t \in Tasks, NEW k \in Keys, AcquireQueued(t, k) \/ Timeout(t, k)
        PROVE  FALSE
    <3>1. /\ task'[t].at # "holding"
          /\ \A v \in Tasks : v # t => task'[v] = task[v]
      BY <2>1, <2>4 DEF AcquireQueued, Timeout, Waiting, Idle, TypeOK
    <3> QED
      BY <3>1 DEF IsHolding
  <2>5. CASE ClearWaiters
    BY <2>1, <2>5 DEF ClearWaiters, IsHolding, Idle, TypeOK
  <2> QED
    BY <1>1, <2>2, <2>3, <2>4, <2>5 DEF Next, ResetGeneration, Dispose
<1>2. LaneInv /\ [Next]_vars => [\A k \in Keys, t \in Tasks : Passes(k, t)]_vars
  BY <1>1
<1> QED
  BY <1>2, InvariantHolds, PTL DEF Spec, NoOvertaking

-----------------------------------------------------------------------------
\* For the slot pool, handles are of the past or of the present: a reset
\* revokes every one of them.
GensPast == \A t \in Tasks : task[t].at # "idle" => task[t].gen <= generation

LEMMA GensStep == LaneInv /\ GensPast /\ [Next]_vars => GensPast'
<1> SUFFICES ASSUME TypeOK, LineSound, GensPast, [Next]_vars PROVE GensPast'
  BY DEF LaneInv
<1> USE LaneAssumption
<1>0. /\ generation \in Nat /\ task \in [Tasks -> TaskState]
      /\ Idle.at = "idle"
      /\ \A k \in Keys : Waiting(k, generation).gen = generation
                           /\ Holding(k, generation).gen = generation
  <2>1. generation \in Nat /\ task \in [Tasks -> TaskState] /\ Idle.at = "idle"
    BY DEF TypeOK, Idle
  <2> QED
    BY <2>1, CallerStates
<1>1. ASSUME NEW t \in Tasks, NEW new,
             task' = [task EXCEPT ![t] = new], generation' = generation,
             new.at = "idle" \/ new.gen = generation
      PROVE  GensPast'
  BY <1>0, <1>1 DEF GensPast
<1>2. ASSUME NEW t \in Tasks, NEW k \in Keys, AcquireNow(t, k) PROVE GensPast'
  BY <1>0, <1>1, <1>2 DEF AcquireNow
<1>3. ASSUME NEW t \in Tasks, NEW k \in Keys, AcquireQueued(t, k) PROVE GensPast'
  BY <1>0, <1>1, <1>3 DEF AcquireQueued
<1>4. ASSUME NEW t \in Tasks, NEW k \in Keys, Timeout(t, k) PROVE GensPast'
  BY <1>0, <1>1, <1>4 DEF Timeout
<1>5. ASSUME NEW t \in Tasks, NEW k \in Keys, Release(t, k) PROVE GensPast'
  <2>1. CASE HandOver(t, k)
    <3> DEFINE h == Head(waiters[k])
    <3>1. h \in Tasks /\ task[h].gen = generation
      BY <1>0, <2>1, HeadWaits, CallerStates DEF HandOver
    <3>2. /\ task' = [task EXCEPT ![t] = Idle, ![h] = Holding(k, generation)]
          /\ generation' = generation
      BY <1>5, <2>1, <3>1 DEF HandOver, Release
    <3> HIDE DEF h
    <3>3. \A u \in Tasks : task'[u] \in {Idle, Holding(k, generation), task[u]}
      BY <1>0, <3>1, <3>2
    <3> QED
      BY <1>0, <3>2, <3>3 DEF GensPast
  <2>2. CASE task' = [task EXCEPT ![t] = Idle]
    BY <1>0, <1>1, <1>5, <2>2 DEF Release
  <2> QED
    BY <1>5, <2>1, <2>2 DEF Release, FreeSlot
<1>6. CASE ResetGeneration \/ Dispose
  <2>1. \A t \in Tasks : task'[t] = task[t] \/ task'[t].at = "idle"
    BY <1>0, <1>6 DEF ResetGeneration, Dispose, ClearWaiters
  <2>2. generation' \in Nat /\ generation' >= generation
    BY <1>0, <1>6 DEF ResetGeneration, Dispose
  <2>3. \A t \in Tasks : task[t].at # "idle" => task[t].gen \in Nat
    BY <1>0 DEF TaskState, Idle
  <2> QED
    BY <1>0, <2>1, <2>2, <2>3 DEF GensPast
<1>7. CASE UNCHANGED vars
  BY <1>7 DEF vars, GensPast
<1> QED
  BY <1>2, <1>3, <1>4, <1>5, <1>6, <1>7 DEF Next

\* The holders of the pool are finitely many callers.
LEMMA PoolHolders ==
    ASSUME NEW k \in Keys
    PROVE  /\ IsFiniteSet(CurrentHolders(k)) /\ Cardinality(CurrentHolders(k)) \in Nat
           /\ \A t : t \in CurrentHolders(k)
                       <=> t \in Tasks /\ IsHolding(t, k) /\ task[t].gen = generation
<1>1. CurrentHolders(k) \subseteq Holders(k)
  BY DEF CurrentHolders
<1>2. IsFiniteSet(CurrentHolders(k))
  BY <1>1, HoldersOf, FS_Subset
<1>3. \A t : t \in CurrentHolders(k)
               <=> t \in Tasks /\ IsHolding(t, k) /\ task[t].gen = generation
  BY DEF CurrentHolders, Holders
<1> QED
  BY <1>2, <1>3, FS_CardinalityType

\* Taking the i-th waiter out by splice(), or by joining what is around it.
LEMMA DropJoins ==
    ASSUME NEW q \in Seq(Tasks), NEW i \in 1..Len(q)
    PROVE  DropAt(q, i) = SubSeq(q, 1, i - 1) \o SubSeq(q, i + 1, Len(q))
<1> DEFINE a == SubSeq(q, 1, i - 1)
           b == SubSeq(q, i + 1, Len(q))
<1>1. /\ Len(q) \in Nat /\ i \in Nat /\ i <= Len(q) /\ i >= 1
  OBVIOUS
<1>2. /\ a \in Seq(Tasks) /\ Len(a) = i - 1
      /\ \A j \in 1..(i - 1) : a[j] = q[j]
  BY <1>1
<1>3. /\ b \in Seq(Tasks) /\ Len(b) = Len(q) - i
      /\ \A j \in 1..(Len(q) - i) : b[j] = q[i + j]
  BY <1>1
<1> HIDE DEF a, b
<1>4. /\ a \o b \in Seq(Tasks) /\ Len(a \o b) = Len(q) - 1
      /\ \A j \in 1..(Len(q) - 1) : (a \o b)[j] = IF j <= i - 1 THEN a[j] ELSE b[j - (i - 1)]
  <2>1. a \o b \in Seq(Tasks) /\ Len(a \o b) = Len(a) + Len(b)
        /\ \A j \in 1..(Len(a) + Len(b)) : (a \o b)[j] = IF j <= Len(a) THEN a[j] ELSE b[j - Len(a)]
    BY <1>2, <1>3, ConcatProperties
  <2>2. Len(a) + Len(b) = Len(q) - 1 /\ Len(a) = i - 1
    BY <1>1, <1>2, <1>3
  <2> QED
    BY <2>1, <2>2
<1>5. \A j \in 1..(Len(q) - 1) : (a \o b)[j] = IF j < i THEN q[j] ELSE q[j + 1]
  <2> TAKE j \in 1..(Len(q) - 1)
  <2>1. CASE j < i
    BY <1>1, <1>2, <1>4, <2>1
  <2>2. CASE ~(j < i)
    <3>1. /\ j - (i - 1) \in 1..(Len(q) - i) /\ i + (j - (i - 1)) = j + 1
          /\ ~(j <= i - 1)
      BY <1>1, <2>2
    <3>2. b[j - (i - 1)] = q[j + 1]
      BY <1>3, <3>1
    <3> QED
      BY <1>4, <2>2, <3>1, <3>2
  <2> QED
    BY <2>1, <2>2
<1>6. a \o b = [j \in 1..(Len(q) - 1) |-> IF j < i THEN q[j] ELSE q[j + 1]]
  <2> DEFINE c == a \o b
  <2>1. c \in Seq(Tasks) /\ Len(c) = Len(q) - 1
    BY <1>4
  <2> HIDE DEF c
  <2>2. c = [j \in 1..Len(c) |-> c[j]]
    BY <2>1
  <2>3. c = [j \in 1..(Len(q) - 1) |-> c[j]]
    BY <2>1, <2>2, Zenon
  <2> QED
    BY <1>5, <2>3 DEF c
<1> QED
  BY <1>6 DEF DropAt, a, b

-----------------------------------------------------------------------------
\* The pool counts its holders as the lane does.
LEMMA SameCount == \A S : Pool!Cardinality(S) = Cardinality(S)
BY DEF Pool!Cardinality, Cardinality

\* The operations of the lane, each as the step of the pool that it is.
LEMMA AcquireEnters ==
    ASSUME LaneInv, NEW t \in Tasks, NEW k \in Keys, AcquireNow(t, k)
    PROVE  Pool!Enter(t, k)
<1> USE LaneAssumption
<1>0. /\ TypeOK /\ LineSound /\ WorkConserving
      /\ task[t].at = "idle" /\ active[k] < MaxConcurrent
      /\ task' = [task EXCEPT ![t] = Holding(k, generation)]
      /\ active' = [active EXCEPT ![k] = @ + 1]
      /\ UNCHANGED <<generation, waiters>>
      /\ generation \in Nat
  BY DEF LaneInv, AcquireNow, IsIdle, TypeOK
<1>1. \A l \in Keys : t \notin CurrentHolders(l)
                        /\ \A i \in 1..Len(waiters[l]) : waiters[l][i] # t
  BY <1>0, PoolHolders, CallerStates DEF IsHolding, LineSound
<1>2. waiters[k] = <<>>
  BY <1>0 DEF WorkConserving, TypeOK
<1>3. Cardinality(CurrentHolders(k)) < MaxConcurrent - (active[k] - Cardinality(CurrentHolders(k)))
  BY <1>0, PoolHolders DEF TypeOK
<1>4. \A l \in Keys : CurrentHolders(l)'
                        = IF l = k THEN CurrentHolders(l) \cup {t} ELSE CurrentHolders(l)
  <2>1. \A u \in Tasks : u # t => task'[u] = task[u]
    BY <1>0 DEF TypeOK
  <2>2. task'[t] = Holding(k, generation)
    BY <1>0 DEF TypeOK
  <2>3. task'[t].at = "holding" /\ task'[t].key = k /\ task'[t].gen = generation
    BY <1>0, <2>2, CallerStates
  <2> QED
    BY <1>0, <2>1, <2>3, <1>1 DEF CurrentHolders, Holders, IsHolding
<1>5. \A l \in Keys : active'[l] - Cardinality(CurrentHolders(l)')
                        = active[l] - Cardinality(CurrentHolders(l))
  <2> TAKE l \in Keys
  <2>1. CASE l = k
    <3>1. Cardinality(CurrentHolders(k) \cup {t}) = Cardinality(CurrentHolders(k)) + 1
      BY <1>1, PoolHolders, FS_AddElement
    <3>2. active'[k] = active[k] + 1 /\ active[k] \in Nat
      BY <1>0 DEF TypeOK
    <3> QED
      <4>1. /\ Cardinality(CurrentHolders(l)') = Cardinality(CurrentHolders(l)) + 1
            /\ Cardinality(CurrentHolders(l)) \in Nat
        BY <1>4, <2>1, <3>1, PoolHolders
      <4> QED
        BY <2>1, <3>2, <4>1
  <2>2. CASE l # k
    BY <1>0, <1>4, <2>2 DEF TypeOK
  <2> QED
    BY <2>1, <2>2
<1>6. [l \in Keys |-> CurrentHolders(l)]'
        = [[l \in Keys |-> CurrentHolders(l)] EXCEPT ![k] = @ \cup {t}]
  BY <1>4
<1>7. [l \in Keys |-> MaxConcurrent - (active[l] - Cardinality(CurrentHolders(l)))]'
        = [l \in Keys |-> MaxConcurrent - (active[l] - Cardinality(CurrentHolders(l)))]
  BY <1>5
<1>8. Pool!Outside(t)
  BY <1>1 DEF Pool!Outside
<1> QED
  BY <1>0, <1>2, <1>3, <1>6, <1>7, <1>8, SameCount DEF Pool!Enter

\* What the pool sees when nobody starts, stops or is counted anew.
LEMMA PoolRests ==
    ASSUME \A k \in Keys : CurrentHolders(k)' = CurrentHolders(k), UNCHANGED active
    PROVE  /\ [k \in Keys |-> CurrentHolders(k)]' = [k \in Keys |-> CurrentHolders(k)]
           /\ [k \in Keys |-> MaxConcurrent - (active[k] - Cardinality(CurrentHolders(k)))]'
                = [k \in Keys |-> MaxConcurrent - (active[k] - Cardinality(CurrentHolders(k)))]
  OBVIOUS

LEMMA AcquireJoins ==
    ASSUME LaneInv, NEW t \in Tasks, NEW k \in Keys, AcquireQueued(t, k)
    PROVE  Pool!Join(t, k)
<1> USE LaneAssumption
<1>0. /\ TypeOK /\ LineSound
      /\ task[t].at = "idle" /\ active[k] >= MaxConcurrent
      /\ task' = [task EXCEPT ![t] = Waiting(k, generation)]
      /\ waiters' = [waiters EXCEPT ![k] = Append(@, t)]
      /\ UNCHANGED <<generation, active>>
      /\ generation \in Nat
  BY DEF LaneInv, AcquireQueued, IsIdle, TypeOK
<1>1. \A l \in Keys : t \notin CurrentHolders(l)
                        /\ \A i \in 1..Len(waiters[l]) : waiters[l][i] # t
  BY <1>0, PoolHolders, CallerStates DEF IsHolding, LineSound
<1>2. Cardinality(CurrentHolders(k)) = MaxConcurrent - (active[k] - Cardinality(CurrentHolders(k)))
  <2>1. active[k] = MaxConcurrent
    BY <1>0 DEF TypeOK
  <2> QED
    BY <2>1, PoolHolders
<1>3. \A l \in Keys : CurrentHolders(l)' = CurrentHolders(l)
  <2>1. \A u \in Tasks : u # t => task'[u] = task[u]
    BY <1>0 DEF TypeOK
  <2>2. task'[t].at = "waiting"
    BY <1>0, CallerStates DEF TypeOK
  <2> QED
    BY <1>0, <2>1, <2>2 DEF CurrentHolders, Holders, IsHolding
<1>4. Pool!Outside(t)
  BY <1>1 DEF Pool!Outside
<1> QED
  BY <1>0, <1>2, <1>3, <1>4, PoolRests, SameCount DEF Pool!Join

LEMMA TimeoutGivesUp ==
    ASSUME LaneInv, NEW t \in Tasks, NEW k \in Keys, Timeout(t, k)
    PROVE  Pool!GiveUp(t, k)
<1> USE LaneAssumption
<1>0. /\ TypeOK /\ task[t].at = "waiting"
      /\ task' = [task EXCEPT ![t] = Idle]
      /\ UNCHANGED <<generation, active>>
  BY DEF LaneInv, Timeout, IsWaiting
<1>1. PICK i \in 1..Len(waiters[k]) :
         waiters[k][i] = t /\ waiters' = [waiters EXCEPT ![k] = DropAt(@, i)]
  BY DEF Timeout
<1>2. DropAt(waiters[k], i)
        = SubSeq(waiters[k], 1, i - 1) \o SubSeq(waiters[k], i + 1, Len(waiters[k]))
  BY <1>0, DropJoins DEF TypeOK
<1>3. waiters' = [waiters EXCEPT ![k] = SubSeq(@, 1, i - 1) \o SubSeq(@, i + 1, Len(@))]
  BY <1>1, <1>2
<1>4. \A l \in Keys : CurrentHolders(l)' = CurrentHolders(l)
  <2>1. \A u \in Tasks : u # t => task'[u] = task[u]
    BY <1>0 DEF TypeOK
  <2>2. task'[t].at = "idle"
    BY <1>0 DEF TypeOK, Idle
  <2> QED
    BY <1>0, <2>1, <2>2 DEF CurrentHolders, Holders, IsHolding
<1> QED
  BY <1>0, <1>1, <1>3, <1>4, PoolRests DEF Pool!GiveUp

LEMMA ReleaseLeaves ==
    ASSUME LaneInv, disposals = 0, NEW t \in Tasks, NEW k \in Keys, Release(t, k),
           task[t].gen = generation
    PROVE  Pool!Leave(t, k)
<1> USE LaneAssumption
<1>0. /\ TypeOK /\ LineSound /\ IsHolding(t, k) /\ t \in CurrentHolders(k)
      /\ generation' = generation /\ generation \in Nat
      /\ HandOver(t, k) \/ FreeSlot(t, k)
  BY PoolHolders DEF LaneInv, Release, TypeOK
<1> DEFINE room(l) == MaxConcurrent - (active[l] - Cardinality(CurrentHolders(l)))
<1>1. CASE HandOver(t, k)
  <2> DEFINE h == Head(waiters[k])
  <2>1. /\ waiters[k] # <<>> /\ h \in Tasks /\ task[h] = Waiting(k, generation)
        /\ task[h].at = "waiting" /\ task[h].gen = generation /\ h # t
    BY <1>0, <1>1, HeadWaits, CallerStates DEF HandOver, IsHolding
  <2>2. /\ task' = [task EXCEPT ![t] = Idle, ![h] = Holding(k, generation)]
        /\ waiters' = [waiters EXCEPT ![k] = Tail(@)] /\ active' = active
    BY <1>1, <2>1 DEF HandOver
  <2> HIDE DEF h
  <2>3. /\ task'[t].at = "idle" /\ \A u \in Tasks \ {t, h} : task'[u] = task[u]
        /\ task'[h].at = "holding" /\ task'[h].key = k /\ task'[h].gen = generation
    <3>1. task'[h] = Holding(k, generation) /\ task'[t] = Idle
             /\ \A u \in Tasks \ {t, h} : task'[u] = task[u]
      BY <1>0, <2>1, <2>2 DEF TypeOK
    <3> QED
      BY <1>0, <3>1, CallerStates
  <2>4. \A l \in Keys : CurrentHolders(l)' = IF l = k THEN (CurrentHolders(k) \ {t}) \cup {h}
                                                      ELSE CurrentHolders(l)
    <3>1. \A l \in Keys, u \in Tasks : u \in CurrentHolders(l)'
             <=> task'[u].at = "holding" /\ task'[u].key = l /\ task'[u].gen = generation
      BY <1>0 DEF CurrentHolders, Holders, IsHolding
    <3>2. \A l \in Keys : CurrentHolders(l)' \subseteq Tasks /\ CurrentHolders(l) \subseteq Tasks
      BY DEF CurrentHolders, Holders
    <3>3. \A l \in Keys, u \in Tasks : u \in CurrentHolders(l)
             <=> task[u].at = "holding" /\ task[u].key = l /\ task[u].gen = generation
      BY DEF CurrentHolders, Holders, IsHolding
    <3>4. task[t].key = k
      BY <1>0 DEF IsHolding
    <3> TAKE l \in Keys
    <3> DEFINE now == IF l = k THEN (CurrentHolders(k) \ {t}) \cup {h} ELSE CurrentHolders(l)
    <3>5. ASSUME NEW u \in Tasks PROVE u \in CurrentHolders(l)' <=> u \in now
      <4>1. CASE u = t
        BY <2>1, <2>3, <3>1, <3>3, <3>4, <4>1
      <4>2. CASE u = h
        BY <2>1, <2>3, <3>1, <3>3, <4>2
      <4>3. CASE u \in Tasks \ {t, h}
        BY <2>3, <3>1, <3>3, <4>3
      <4> QED
        BY <4>1, <4>2, <4>3
    <3>6. now \subseteq Tasks
      BY <2>1, <3>2
    <3> QED
      BY <3>2, <3>5, <3>6
  <2>5. h \notin CurrentHolders(k)
    BY <2>1, PoolHolders DEF IsHolding
  <2>6. Cardinality((CurrentHolders(k) \ {t}) \cup {h}) = Cardinality(CurrentHolders(k))
    <3>1. /\ IsFiniteSet(CurrentHolders(k) \ {t})
          /\ Cardinality(CurrentHolders(k) \ {t}) = Cardinality(CurrentHolders(k)) - 1
      BY <1>0, PoolHolders, FS_RemoveElement
    <3>2. Cardinality((CurrentHolders(k) \ {t}) \cup {h})
            = Cardinality(CurrentHolders(k) \ {t}) + 1
      BY <2>5, <3>1, FS_AddElement
    <3> QED
      BY <3>1, <3>2, PoolHolders
  <2>7. \A l \in Keys : room(l)' = room(l)
    BY <2>2, <2>4, <2>6
  <2>8. [l \in Keys |-> CurrentHolders(l)]'
          = [[l \in Keys |-> CurrentHolders(l)] EXCEPT ![k] = (@ \ {t}) \cup {h}]
    BY <2>4
  <2>9. [l \in Keys |-> room(l)]' = [l \in Keys |-> room(l)]
    BY <2>7
  <2> QED
    BY <1>0, <2>1, <2>2, <2>8, <2>9 DEF Pool!Leave, h
<1>2. CASE FreeSlot(t, k)
  <2>1. /\ waiters[k] = <<>> /\ waiters' = waiters
        /\ active' = [active EXCEPT ![k] = IF @ <= 1 THEN 0 ELSE @ - 1]
        /\ task' = [task EXCEPT ![t] = Idle]
    BY <1>2 DEF FreeSlot
  <2>2. active'[k] = active[k] - 1 /\ active[k] \in Nat
    <3>1. t \in Holders(k)
      BY <1>0 DEF Holders
    <3>2. Cardinality(Holders(k)) <= active[k]
      BY DEF LaneInv, SlotsCover
    <3>3. Cardinality(Holders(k)) # 0 /\ Cardinality(Holders(k)) \in Nat
      BY <3>1, HoldersOf, FS_EmptySet
    <3>4. active[k] \in Nat /\ active'[k] = IF active[k] <= 1 THEN 0 ELSE active[k] - 1
      BY <1>0, <2>1 DEF TypeOK
    <3> QED
      BY <3>2, <3>3, <3>4
  <2>3. \A l \in Keys : CurrentHolders(l)'
                          = IF l = k THEN CurrentHolders(k) \ {t} ELSE CurrentHolders(l)
    <3>1. task'[t].at = "idle" /\ \A u \in Tasks \ {t} : task'[u] = task[u]
      BY <1>0, <2>1 DEF TypeOK, Idle
    <3>2. task[t].key = k
      BY <1>0 DEF IsHolding
    <3> QED
      BY <1>0, <3>1, <3>2 DEF CurrentHolders, Holders, IsHolding
  <2>4. Cardinality(CurrentHolders(k) \ {t}) = Cardinality(CurrentHolders(k)) - 1
    BY <1>0, PoolHolders, FS_RemoveElement
  <2>5. \A l \in Keys : room(l)' = room(l)
    <3> TAKE l \in Keys
    <3>1. CASE l = k
      <4>1. /\ Cardinality(CurrentHolders(l)') = Cardinality(CurrentHolders(l)) - 1
            /\ Cardinality(CurrentHolders(l)) \in Nat
        BY <2>3, <2>4, <3>1, PoolHolders
      <4> QED
        BY <2>2, <3>1, <4>1
    <3>2. CASE l # k
      <4>1. active'[l] = active[l]
        BY <1>0, <2>1, <3>2 DEF TypeOK
      <4> QED
        BY <2>3, <3>2, <4>1
    <3> QED
      BY <3>1, <3>2
  <2>6. [l \in Keys |-> CurrentHolders(l)]'
          = [[l \in Keys |-> CurrentHolders(l)] EXCEPT ![k] = @ \ {t}]
    BY <2>3
  <2>7. [l \in Keys |-> room(l)]' = [l \in Keys |-> room(l)]
    BY <2>5
  <2> QED
    BY <1>0, <2>1, <2>6, <2>7 DEF Pool!Leave
<1> QED
  BY <1>0, <1>1, <1>2

LEMMA StaleReleaseUnseen ==
    ASSUME LaneInv, NEW t \in Tasks, NEW k \in Keys, Release(t, k),
           task[t].gen # generation
    PROVE  UNCHANGED Pool!vars
<1>0. /\ task \in [Tasks -> TaskState] /\ task' = [task EXCEPT ![t] = Idle]
      /\ UNCHANGED <<generation, active, waiters>>
  BY DEF LaneInv, TypeOK, Release
<1>1. \A l \in Keys : CurrentHolders(l)' = CurrentHolders(l)
  <2>1. task'[t].at = "idle" /\ \A u \in Tasks \ {t} : task'[u] = task[u]
    BY <1>0 DEF Idle
  <2> QED
    BY <1>0, <2>1 DEF CurrentHolders, Holders, IsHolding
<1> QED
  BY <1>0, <1>1, PoolRests DEF Pool!vars

LEMMA ResetRevokes ==
    ASSUME LaneInv, GensPast, ResetGeneration
    PROVE  Pool!Revoke
<1> USE LaneAssumption
<1>0. /\ TypeOK /\ generation \in Nat /\ generation' = generation + 1
      /\ waiters' = [k \in Keys |-> <<>>] /\ active' = active
      /\ task' = [t \in Tasks |-> IF task[t].at = "waiting" THEN Idle ELSE task[t]]
  BY DEF LaneInv, TypeOK, ResetGeneration, ClearWaiters
<1>1. \A t \in Tasks : task'[t].at = "holding" => task'[t].gen # generation'
  <2> SUFFICES ASSUME NEW t \in Tasks, task'[t].at = "holding"
               PROVE  task'[t].gen # generation'
    OBVIOUS
  <2>1. task'[t] = task[t] /\ task[t].at = "holding"
    BY <1>0 DEF Idle
  <2>2. task[t].gen <= generation /\ task[t].gen \in Nat
    BY <1>0, <2>1 DEF GensPast, TypeOK, TaskState, Idle
  <2> QED
    BY <1>0, <2>1, <2>2
<1>2. \A k \in Keys : CurrentHolders(k)' = {}
  BY <1>1 DEF CurrentHolders, Holders, IsHolding
<1>3. \A k \in Keys : MaxConcurrent - (active'[k] - Cardinality(CurrentHolders(k)'))
         = MaxConcurrent - (active[k] - Cardinality(CurrentHolders(k)))
              - Cardinality(CurrentHolders(k))
  <2> TAKE k \in Keys
  <2>1. Cardinality(CurrentHolders(k)') = 0
    BY <1>2, FS_EmptySet
  <2>2. active'[k] = active[k] /\ active[k] \in Nat /\ Cardinality(CurrentHolders(k)) \in Nat
    BY <1>0, PoolHolders DEF TypeOK
  <2> QED
    BY <2>1, <2>2
<1>4. [k \in Keys |-> CurrentHolders(k)]' = [k \in Keys |-> {}]
  BY <1>2
<1>5. [k \in Keys |-> MaxConcurrent - (active[k] - Cardinality(CurrentHolders(k)))]'
        = [k \in Keys |->
             [l \in Keys |-> MaxConcurrent - (active[l] - Cardinality(CurrentHolders(l)))][k]
               - Cardinality([l \in Keys |-> CurrentHolders(l)][k])]
  BY <1>3
<1> QED
  BY <1>0, <1>4, <1>5, SameCount DEF Pool!Revoke

LEMMA PoolStep ==
    ASSUME LaneInv, GensPast, Next, disposals' = 0
    PROVE  Pool!Next \/ UNCHANGED Pool!vars
<1>1. ~Dispose
  BY LaneAssumption DEF Dispose, LaneInv, TypeOK
<1>2. disposals = 0
  BY <1>1 DEF Next, AcquireNow, AcquireQueued, Timeout, Release, ResetGeneration
<1>3. CASE ResetGeneration
  BY <1>3, ResetRevokes DEF Pool!Next
<1>4. ASSUME NEW t \in Tasks, NEW k \in Keys,
             AcquireNow(t, k) \/ AcquireQueued(t, k) \/ Timeout(t, k) \/ Release(t, k)
      PROVE  Pool!Next \/ UNCHANGED Pool!vars
  <2>1. \/ Pool!Enter(t, k) \/ Pool!Join(t, k) \/ Pool!GiveUp(t, k) \/ Pool!Leave(t, k)
        \/ UNCHANGED Pool!vars
    BY <1>2, <1>4, AcquireEnters, AcquireJoins, TimeoutGivesUp, ReleaseLeaves, StaleReleaseUnseen
  <2> QED
    BY <2>1 DEF Pool!Next
<1> QED
  BY <1>1, <1>3, <1>4 DEF Next

\* Until it is disposed of, the lane is a pool of slots with a first-come,
\* first-served line: every step of it is one of the pool, or unseen.
THEOREM LaneImplementsPool == Spec => ImplementsPool
<1>1. Init => Pool!Init
  <2> SUFFICES ASSUME Init PROVE Pool!Init
    OBVIOUS
  <2>1. \A k \in Keys : CurrentHolders(k) = {}
    BY DEF Init, CurrentHolders, Holders, IsHolding, Idle
  <2>2. \A k \in Keys : active[k] = 0 /\ Cardinality(CurrentHolders(k)) = 0
    BY <2>1, FS_EmptySet DEF Init
  <2>3. \A k \in Keys : MaxConcurrent - (active[k] - Cardinality(CurrentHolders(k)))
                          = MaxConcurrent
    BY <2>2, LaneAssumption
  <2> QED
    BY <2>1, <2>3 DEF Init, Pool!Init
<1>2. Init => GensPast
  BY DEF Init, GensPast, Idle
<1>3. LaneInv /\ GensPast /\ [Next]_vars => [disposals' = 0 => Pool!Next]_(Pool!vars)
  <2>1. UNCHANGED vars => UNCHANGED Pool!vars
    BY DEF vars, Pool!vars, CurrentHolders, Holders, IsHolding
  <2> QED
    BY <2>1, PoolStep
<1> QED
  BY <1>1, <1>2, <1>3, GensStep, InvariantHolds, PTL DEF Spec, ImplementsPool

-----------------------------------------------------------------------------
(* The fallback.                                                           *)

\* The breakers that runs can leave behind: none of them is half-open, because
\* the loop passes over open circuits and a retry comes before the reset timeout.
Steady == {b \in Breakers : b.state # "half-open"}

Ends == [at : {"idle"}, result : {"none", "ok", "exhausted", "circuit", "error"}]
Attempts == [at : {"call", "backoff"}, config : Configs, model : Nat, retry : 0..MaxRetries]

\* A run that waits to retry has heard of a failure since the reset timeout last
\* elapsed, and its model is one that its filters let through.
Placed(r) == run[r] \in Attempts =>
                /\ run[r].model \in EffectiveModels(run[r].config)
                /\ run[r].at = "backoff" =>
                     /\ ~circuits[Circuit(r)].cooled
                     /\ run[r].retry < MaxRetries

FallbackInv == /\ circuits \in [Providers -> Steady]
               /\ run \in [Runs -> Ends \cup Attempts]
               /\ \A r \in Runs : Placed(r)

-----------------------------------------------------------------------------
\* A set of numbers that has a member has a least one.
LEMMA LeastIsIn ==
    ASSUME NEW S, S \subseteq Nat, S # {}
    PROVE  Min(S) \in S
<1>1. PICK x \in S : \A y \in S : ~ (<<y, x>> \in OpToRel(<, Nat))
  BY NatLessThanWellFounded, WFMin
<1>2. \A y \in S : x =< y
  <2> SUFFICES ASSUME NEW y \in S PROVE x =< y
    OBVIOUS
  <2>1. x \in Nat /\ y \in Nat
    OBVIOUS
  <2>2. ~ (y < x)
    BY <1>1, <2>1 DEF OpToRel
  <2> QED
    BY <2>1, <2>2
<1> QED
  BY <1>1, <1>2 DEF Min

\* Every model that is tried stands in the chain and has a provider.
LEMMA ModelsHaveProviders ==
    ASSUME FallbackAssumption, NEW c \in Configs
    PROVE  /\ EffectiveModels(c) \subseteq Nat
           /\ \A i \in EffectiveModels(c) : ProviderAt(c, i) \in Providers
<1>1. c.models \in Seq(Models) /\ ProviderOf \in [Models -> Providers]
  BY DEF FallbackAssumption
<1>2. EffectiveModels(c) \subseteq DOMAIN c.models
  BY DEF EffectiveModels
<1>3. \A i \in DOMAIN c.models : i \in Nat /\ c.models[i] \in Models
  BY <1>1
<1> QED
  BY <1>1, <1>2, <1>3 DEF ProviderAt

\* What an outcome does to a breaker: a failure clears its reset timeout and
\* never closes it, a success leaves the timeout alone.
LEMMA OutcomesKeepSteady ==
    ASSUME BreakerAssumption, NEW b \in Steady
    PROVE  /\ AfterSuccess(b) \in Steady
           /\ AfterSuccess(b).cooled = b.cooled
           /\ AfterFailure(b) \in Steady
           /\ ~AfterFailure(b).cooled
           /\ b.state = "open" => AfterFailure(b).state = "open"
           /\ Cooled(b) \in Steady
           /\ NewBreaker \in Steady
<1> USE DEF Steady, Breakers
<1>1. FailureCap \in Nat /\ Threshold \in Nat /\ HalfOpenMax \in Nat
  BY DEF BreakerAssumption
<1>2. AfterSuccess(b) \in Steady /\ AfterSuccess(b).cooled = b.cooled
  <2>1. [b EXCEPT !.failures = 0] \in Steady
    BY <1>1
  <2>2. AfterSuccess(b) = [[b EXCEPT !.failures = 0] EXCEPT !.state = "closed"]
    BY Zenon DEF AfterSuccess
  <2> QED
    BY <2>1, <2>2
<1>3. /\ AfterFailure(b) \in Steady /\ ~AfterFailure(b).cooled
      /\ b.state = "open" => AfterFailure(b).state = "open"
  <2> DEFINE failures == IF b.failures < FailureCap THEN b.failures + 1 ELSE b.failures
             counted == [b EXCEPT !.failures = failures]
             timed == [counted EXCEPT !.cooled = FALSE]
  <2>1. failures \in 0..FailureCap
    BY <1>1
  <2> HIDE DEF failures
  <2>2. counted \in Steady /\ counted.state = b.state
    BY <2>1
  <2> HIDE DEF counted
  <2>3. timed \in Steady /\ timed.state = b.state /\ ~timed.cooled
    BY <2>2
  <2>4. AfterFailure(b) = [timed EXCEPT !.state = IF failures >= Threshold THEN "open" ELSE @]
    BY Zenon DEF AfterFailure, failures, counted
  <2> HIDE DEF timed
  <2> QED
    BY <2>3, <2>4
<1>4. Cooled(b) \in Steady
  BY DEF Cooled
<1>5. NewBreaker \in Steady
  BY <1>1 DEF NewBreaker
<1> QED
  BY <1>2, <1>3, <1>4, <1>5

-----------------------------------------------------------------------------
\* The loop over the models, on circuits none of which is half-open: the run
\* calls a model whose circuit is closed, or all that are left are open.
LEMMA LoopEnds ==
    ASSUME FallbackAssumption, NEW cs \in [Providers -> Steady],
           NEW r \in Runs, NEW c \in Configs, NEW i \in Nat, TryFrom(r, c, i, cs)
    PROVE  /\ circuits' = cs
           /\ \/ /\ run' = [run EXCEPT ![r] = Ended("exhausted")]
                 /\ \A j \in EffectiveModels(c) : j >= i => cs[ProviderAt(c, j)].state = "open"
              \/ \E j \in EffectiveModels(c) :
                    /\ cs[ProviderAt(c, j)].state # "open"
                    /\ run' = [run EXCEPT ![r] = Attempt("call", c, j, 0)]
<1>1. CASE Usable(c, i, cs) = {}
  <2>1. circuits' = cs /\ run' = [run EXCEPT ![r] = Ended("exhausted")]
    BY <1>1 DEF TryFrom
  <2>2. \A j \in EffectiveModels(c) : j >= i => cs[ProviderAt(c, j)].state = "open"
    BY <1>1 DEF Usable
  <2> QED
    BY <2>1, <2>2
<1>2. CASE Usable(c, i, cs) # {}
  <2> DEFINE j == Min(Usable(c, i, cs))
  <2>1. Usable(c, i, cs) \subseteq Nat
    BY ModelsHaveProviders DEF Usable
  <2>2. j \in Usable(c, i, cs)
    BY <1>2, <2>1, LeastIsIn
  <2>3. Execute(r, c, j, 0, cs)
    BY <1>2 DEF TryFrom
  <2> HIDE DEF j
  <2>4. j \in EffectiveModels(c) /\ cs[ProviderAt(c, j)].state # "open"
    BY <2>2 DEF Usable
  <2>5. ProviderAt(c, j) \in Providers
    BY <2>4, ModelsHaveProviders
  <2>6. cs[ProviderAt(c, j)].state = "closed"
    BY <2>4, <2>5 DEF Steady, Breakers
  <2>7. ~Refuses(cs[ProviderAt(c, j)]) /\ Admitted(cs[ProviderAt(c, j)]) = cs[ProviderAt(c, j)]
    BY <2>6 DEF Refuses, Admitted
  <2>8. /\ circuits' = [cs EXCEPT ![ProviderAt(c, j)] = Admitted(@)]
        /\ run' = [run EXCEPT ![r] = Attempt("call", c, j, 0)]
    BY <2>3, <2>7 DEF Execute
  <2>9. circuits' = cs
    BY <2>7, <2>8
  <2> QED
    BY <2>4, <2>8, <2>9
<1> QED
  BY <1>1, <1>2

-----------------------------------------------------------------------------
\* Where a step may leave run r, old being its place before the step and new the
\* one after it.
WellPlaced(new) ==
    new \in Attempts =>
       /\ new.model \in EffectiveModels(new.config)
       /\ new.at = "backoff" => /\ ~circuits'[ProviderAt(new.config, new.model)].cooled
                                /\ new.retry < MaxRetries

CallAllowed(new) ==
    new.at = "call" => LET b == circuits[ProviderAt(new.config, new.model)] IN
                       ~(b.state = "open" /\ ~b.cooled)

EndAllowed(old, new) ==
    new.at = "idle" =>
       /\ new.result = "exhausted" /\ old.at # "idle" =>
             \A j \in EffectiveModels(old.config) : j > old.model =>
                circuits'[ProviderAt(old.config, j)].state = "open"
       /\ new.result = "circuit" =>
             old.at = "backoff" /\ circuits[ProviderAt(old.config, old.model)].state = "open"

Moves(r) == /\ circuits' \in [Providers -> Steady]
            /\ \A p \in Providers : circuits'[p].cooled => circuits[p].cooled
            /\ \E new \in Ends \cup Attempts :
                  /\ run' = [run EXCEPT ![r] = new]
                  /\ WellPlaced(new) /\ CallAllowed(new) /\ EndAllowed(run[r], new)

\* The places of a run are records of two forms.
LEMMA Places ==
    /\ \A x \in {"none", "ok", "exhausted", "circuit", "error"} :
          /\ Ended(x) \in Ends /\ Ended(x) \notin Attempts
          /\ Ended(x).at = "idle" /\ Ended(x).result = x
    /\ \A at \in {"call", "backoff"}, c \in Configs, i \in Nat, k \in 0..MaxRetries :
          LET a == Attempt(at, c, i, k) IN
          /\ a \in Attempts
          /\ a.at = at /\ a.config = c /\ a.model = i /\ a.retry = k
    /\ \A e \in Ends : e.at = "idle" /\ e \notin Attempts
    /\ \A a \in Attempts : a.at \in {"call", "backoff"}
BY DEF Ended, Attempt, Ends, Attempts

\* fn fails or succeeds: the circuits that are left.
LEMMA SettledCircuits ==
    ASSUME FallbackAssumption, BreakerAssumption, FallbackInv,
           NEW r \in Runs, run[r] \in Attempts
    PROVE  /\ Circuit(r) \in Providers
           /\ LET cs == Settled(r, AfterSuccess) IN
              /\ cs \in [Providers -> Steady]
              /\ \A p \in Providers : cs[p].cooled => circuits[p].cooled
           /\ LET cs == Settled(r, AfterFailure) IN
              /\ cs \in [Providers -> Steady]
              /\ \A p \in Providers : cs[p].cooled => circuits[p].cooled
              /\ \A p \in Providers : circuits[p].state = "open" => cs[p].state = "open"
              /\ ~cs[Circuit(r)].cooled
<1>1. run[r].config \in Configs /\ run[r].model \in EffectiveModels(run[r].config)
  BY DEF FallbackInv, Placed, Attempts
<1>2. Circuit(r) \in Providers
  BY <1>1, ModelsHaveProviders DEF Circuit
<1>3. circuits \in [Providers -> Steady]
  BY DEF FallbackInv
<1>4. \A p \in Providers :
         /\ AfterSuccess(circuits[p]) \in Steady
         /\ AfterSuccess(circuits[p]).cooled = circuits[p].cooled
         /\ AfterFailure(circuits[p]) \in Steady
         /\ ~AfterFailure(circuits[p]).cooled
         /\ circuits[p].state = "open" => AfterFailure(circuits[p]).state = "open"
  BY <1>3, OutcomesKeepSteady
<1>5. LET cs == Settled(r, AfterSuccess) IN
      /\ cs \in [Providers -> Steady]
      /\ \A p \in Providers : cs[p].cooled => circuits[p].cooled
  BY <1>2, <1>3, <1>4 DEF Settled
<1>6. LET cs == Settled(r, AfterFailure) IN
      /\ cs \in [Providers -> Steady]
      /\ \A p \in Providers : cs[p].cooled => circuits[p].cooled
      /\ \A p \in Providers : circuits[p].state = "open" => cs[p].state = "open"
      /\ ~cs[Circuit(r)].cooled
  BY <1>2, <1>3, <1>4 DEF Settled
<1> QED
  BY <1>2, <1>5, <1>6

\* A run ends, whatever the circuits that the step leaves.
LEMMA EndMoves ==
    ASSUME NEW r \in Runs, NEW x \in {"ok", "error"},
           run' = [run EXCEPT ![r] = Ended(x)],
           circuits' \in [Providers -> Steady],
           \A p \in Providers : circuits'[p].cooled => circuits[p].cooled
    PROVE  Moves(r)
<1>1. Ended(x) \in Ends /\ Ended(x) \notin Attempts /\ Ended(x).at = "idle" /\ Ended(x).result = x
  BY Places
<1>2. WellPlaced(Ended(x)) /\ CallAllowed(Ended(x)) /\ EndAllowed(run[r], Ended(x))
  BY <1>1 DEF WellPlaced, CallAllowed, EndAllowed
<1> QED
  BY <1>1, <1>2 DEF Moves

\* The loop is entered from the start, or past the model of the run.
LEMMA LoopMoves ==
    ASSUME FallbackAssumption, FallbackInv, NEW cs \in [Providers -> Steady],
           NEW r \in Runs, NEW c \in Configs, NEW i \in Nat, TryFrom(r, c, i, cs),
           \A p \in Providers : cs[p].cooled => circuits[p].cooled,
           \A p \in Providers : circuits[p].state = "open" => cs[p].state = "open",
           run[r].at # "idle" => c = run[r].config /\ i = run[r].model + 1 /\ run[r].model \in Nat
    PROVE  Moves(r)
<1>1. circuits' = cs
  BY LoopEnds
<1>2. CASE /\ run' = [run EXCEPT ![r] = Ended("exhausted")]
           /\ \A j \in EffectiveModels(c) : j >= i => cs[ProviderAt(c, j)].state = "open"
  <2> DEFINE new == Ended("exhausted")
  <2>1. new \in Ends /\ new \notin Attempts /\ new.at = "idle" /\ new.result = "exhausted"
    BY Places
  <2> HIDE DEF new
  <2>2. WellPlaced(new) /\ CallAllowed(new)
    BY <2>1 DEF WellPlaced, CallAllowed
  <2>3. EndAllowed(run[r], new)
    <3> SUFFICES ASSUME run[r].at # "idle", NEW j \in EffectiveModels(run[r].config), j > run[r].model
                 PROVE  circuits'[ProviderAt(run[r].config, j)].state = "open"
      BY <2>1 DEF EndAllowed
    <3>1. j \in Nat
      BY ModelsHaveProviders
    <3> QED
      BY <1>1, <1>2, <3>1
  <2> QED
    BY <1>1, <1>2, <2>1, <2>2, <2>3 DEF Moves, new
<1>3. CASE \E j \in EffectiveModels(c) : /\ cs[ProviderAt(c, j)].state # "open"
                                         /\ run' = [run EXCEPT ![r] = Attempt("call", c, j, 0)]
  <2> PICK j \in EffectiveModels(c) : /\ cs[ProviderAt(c, j)].state # "open"
                                      /\ run' = [run EXCEPT ![r] = Attempt("call", c, j, 0)]
    BY <1>3
  <2> DEFINE new == Attempt("call", c, j, 0)
  <2>1. j \in Nat /\ ProviderAt(c, j) \in Providers /\ MaxRetries \in Nat
    BY ModelsHaveProviders DEF FallbackAssumption
  <2>2. new \in Attempts /\ new.at = "call" /\ new.config = c /\ new.model = j
    BY <2>1, Places
  <2>3. run' = [run EXCEPT ![r] = new]
    OBVIOUS
  <2> HIDE DEF new
  <2>4. WellPlaced(new) /\ CallAllowed(new) /\ EndAllowed(run[r], new)
    BY <2>1, <2>2 DEF WellPlaced, CallAllowed, EndAllowed
  <2> QED
    BY <1>1, <2>2, <2>3, <2>4 DEF Moves
<1> QED
  BY <1>2, <1>3, LoopEnds

\* Every step of a run is such a move.
LEMMA RunMoves ==
    ASSUME FallbackAssumption, BreakerAssumption, FallbackInv, NEW r \in Runs,
           Begin(r) \/ Settle(r) \/ Retry(r) \/ AbortBackoff(r)
    PROVE  Moves(r)
<1>1. /\ circuits \in [Providers -> Steady] /\ run \in [Runs -> Ends \cup Attempts]
      /\ Placed(r) /\ MaxRetries \in Nat
  BY DEF FallbackInv, FallbackAssumption
<1>2. run[r].at # "idle" => run[r] \in Attempts
  BY <1>1, Places
<1>3. run[r] \in Attempts =>
         /\ run[r].config \in Configs /\ run[r].model \in Nat /\ run[r].retry \in 0..MaxRetries
         /\ run[r].model \in EffectiveModels(run[r].config)
  BY <1>1 DEF Placed, Attempts
<1>4. CASE Begin(r)
  <2> PICK c \in Configs : TryFrom(r, c, 1, circuits)
    BY <1>4 DEF Begin
  <2>1. run[r].at = "idle"
    BY <1>4 DEF Begin
  <2> QED
    BY <1>1, <2>1, LoopMoves
<1>5. CASE Succeed(r)
  <2>1. run[r] \in Attempts
    BY <1>2, <1>5 DEF Succeed
  <2>2. circuits' = Settled(r, AfterSuccess) /\ run' = [run EXCEPT ![r] = Ended("ok")]
    BY <1>5 DEF Succeed
  <2> QED
    BY <2>1, <2>2, SettledCircuits, EndMoves
<1>6. CASE FailFatal(r)
  <2>1. run[r] \in Attempts
    BY <1>2, <1>6 DEF FailFatal
  <2>2. circuits' = Settled(r, AfterFailure) /\ run' = [run EXCEPT ![r] = Ended("error")]
    BY <1>6 DEF FailFatal
  <2> QED
    BY <2>1, <2>2, SettledCircuits, EndMoves
<1>7. CASE AbortBackoff(r)
  <2>1. circuits' = circuits /\ run' = [run EXCEPT ![r] = Ended("error")]
    BY <1>7 DEF AbortBackoff
  <2> QED
    BY <1>1, <2>1, EndMoves
<1>8. CASE FailTransient(r)
  <2> DEFINE cs == Settled(r, AfterFailure)
  <2>1. run[r] \in Attempts /\ run[r].at = "call"
    BY <1>2, <1>8 DEF FailTransient
  <2>2. /\ cs \in [Providers -> Steady] /\ Circuit(r) \in Providers
        /\ \A p \in Providers : cs[p].cooled => circuits[p].cooled
        /\ \A p \in Providers : circuits[p].state = "open" => cs[p].state = "open"
        /\ ~cs[Circuit(r)].cooled
    BY <2>1, SettledCircuits
  <2>3. IF run[r].retry < MaxRetries
          THEN circuits' = cs /\ run' = [run EXCEPT ![r].at = "backoff"]
          ELSE TryFrom(r, run[r].config, run[r].model + 1, cs)
    BY <1>8 DEF FailTransient
  <2> HIDE DEF cs
  <2>4. CASE run[r].retry < MaxRetries
    <3> DEFINE new == [run[r] EXCEPT !.at = "backoff"]
    <3>1. run' = [run EXCEPT ![r] = new] /\ circuits' = cs
      BY <1>1, <2>3, <2>4
    <3>2. /\ new \in Attempts /\ new.at = "backoff" /\ new.config = run[r].config
          /\ new.model = run[r].model /\ new.retry = run[r].retry
      BY <2>1 DEF Attempts
    <3> HIDE DEF new
    <3>3. ProviderAt(new.config, new.model) = Circuit(r)
      BY <3>2 DEF Circuit
    <3>4. WellPlaced(new) /\ CallAllowed(new) /\ EndAllowed(run[r], new)
      BY <1>3, <2>1, <2>2, <2>4, <3>1, <3>2, <3>3 DEF WellPlaced, CallAllowed, EndAllowed
    <3> QED
      BY <2>2, <3>1, <3>2, <3>4 DEF Moves
  <2>5. CASE ~(run[r].retry < MaxRetries)
    BY <1>3, <2>1, <2>2, <2>3, <2>5, LoopMoves
  <2> QED
    BY <2>4, <2>5
<1>9. CASE Retry(r)
  <2> DEFINE p == Circuit(r)
             new == Attempt("call", run[r].config, run[r].model, run[r].retry + 1)
  <2>1. run[r] \in Attempts /\ run[r].at = "backoff"
    BY <1>2, <1>9 DEF Retry
  <2>2. p \in Providers /\ p = ProviderAt(run[r].config, run[r].model)
    BY <2>1, SettledCircuits DEF Circuit
  <2>3. /\ circuits[p] \in Breakers /\ circuits[p].state \in {"closed", "open"}
        /\ ~circuits[p].cooled /\ run[r].retry < MaxRetries
    BY <1>1, <2>1, <2>2 DEF Steady, Breakers, Placed
  <2>4. Execute(r, run[r].config, run[r].model, run[r].retry + 1, circuits)
    BY <1>9 DEF Retry
  <2>5. CASE circuits[p].state = "open"
    <3>1. circuits' = circuits /\ run' = [run EXCEPT ![r] = Ended("circuit")]
      BY <2>2, <2>3, <2>4, <2>5 DEF Execute, Refuses
    <3>2. /\ Ended("circuit") \in Ends /\ Ended("circuit") \notin Attempts
          /\ Ended("circuit").at = "idle" /\ Ended("circuit").result = "circuit"
      BY Places
    <3>3. /\ WellPlaced(Ended("circuit")) /\ CallAllowed(Ended("circuit"))
          /\ EndAllowed(run[r], Ended("circuit"))
      BY <2>1, <2>2, <2>5, <3>2 DEF WellPlaced, CallAllowed, EndAllowed
    <3> QED
      BY <1>1, <3>1, <3>2, <3>3 DEF Moves
  <2>6. CASE circuits[p].state = "closed"
    <3>1. ~Refuses(circuits[p]) /\ Admitted(circuits[p]) = circuits[p]
      BY <2>6 DEF Refuses, Admitted
    <3>2. circuits' = circuits /\ run' = [run EXCEPT ![r] = new]
      BY <1>1, <2>2, <2>4, <3>1 DEF Execute
    <3>3. run[r].retry + 1 \in 0..MaxRetries
      BY <1>1, <1>3, <2>1, <2>3
    <3>4. new \in Attempts /\ new.at = "call" /\ new.config = run[r].config /\ new.model = run[r].model
      BY <1>3, <2>1, <3>3, Places
    <3> HIDE DEF new
    <3>5. WellPlaced(new) /\ CallAllowed(new) /\ EndAllowed(run[r], new)
      BY <1>3, <2>1, <2>2, <2>6, <3>4 DEF WellPlaced, CallAllowed, EndAllowed
    <3> QED
      BY <1>1, <3>2, <3>4, <3>5 DEF Moves
  <2> QED
    BY <2>3, <2>5, <2>6
<1> QED
  BY <1>4, <1>5, <1>6, <1>7, <1>8, <1>9 DEF Settle

-----------------------------------------------------------------------------
LEMMA FallbackInvInit ==
    ASSUME BreakerAssumption, FallbackInit
    PROVE  FallbackInv
<1>1. NewBreaker \in Steady
  BY DEF BreakerAssumption, NewBreaker, Steady, Breakers
<1>2. IdleRun \in Ends /\ IdleRun \notin Attempts
  BY DEF IdleRun, Ends, Attempts
<1> QED
  BY <1>1, <1>2 DEF FallbackInit, FallbackInv, Placed

LEMMA FallbackInvStep ==
    FallbackAssumption /\ BreakerAssumption => (FallbackInv /\ [FallbackNext]_fallbackVars => FallbackInv')
<1> SUFFICES ASSUME FallbackAssumption, BreakerAssumption, FallbackInv, [FallbackNext]_fallbackVars
             PROVE  FallbackInv'
  OBVIOUS
<1>1. /\ circuits \in [Providers -> Steady] /\ run \in [Runs -> Ends \cup Attempts]
      /\ \A r \in Runs : Placed(r)
  BY DEF FallbackInv
<1>2. ASSUME NEW r \in Runs, Begin(r) \/ Settle(r) \/ Retry(r) \/ AbortBackoff(r)
      PROVE  FallbackInv'
  <2>1. Moves(r)
    BY <1>2, RunMoves
  <2>2. PICK new \in Ends \cup Attempts : run' = [run EXCEPT ![r] = new] /\ WellPlaced(new)
    BY <2>1 DEF Moves
  <2>3. circuits' \in [Providers -> Steady] /\ run' \in [Runs -> Ends \cup Attempts]
    BY <1>1, <2>1, <2>2 DEF Moves
  <2>4. ASSUME NEW s \in Runs, run'[s] \in Attempts
        PROVE  /\ run'[s].model \in EffectiveModels(run'[s].config)
               /\ run'[s].at = "backoff" => ~circuits'[ProviderAt(run'[s].config, run'[s].model)].cooled
                                            /\ run'[s].retry < MaxRetries
    <3>1. CASE s = r
      BY <1>1, <2>2, <2>4, <3>1 DEF WellPlaced
    <3>2. CASE s # r
      <4>1. run'[s] = run[s]
        BY <1>1, <2>2, <3>2
      <4>2. run[s].config \in Configs /\ run[s].model \in EffectiveModels(run[s].config)
        BY <1>1, <2>4, <4>1 DEF Placed, Attempts
      <4>3. ProviderAt(run[s].config, run[s].model) \in Providers
        BY <4>2, ModelsHaveProviders
      <4> QED
        BY <1>1, <2>1, <2>4, <4>1, <4>2, <4>3 DEF Moves, Placed, Circuit
    <3> QED
      BY <3>1, <3>2
  <2> QED
    BY <2>3, <2>4 DEF FallbackInv, Placed, Circuit
<1>3. ASSUME NEW p \in Providers, CoolDown(p)
      PROVE  FallbackInv'
  <2>1. /\ circuits' = [circuits EXCEPT ![p] = Cooled(@)] /\ run' = run
        /\ \A r \in Runs : run[r].at # "backoff"
    BY <1>3 DEF CoolDown
  <2>2. circuits' \in [Providers -> Steady]
    BY <1>1, <2>1, OutcomesKeepSteady
  <2> QED
    BY <1>1, <2>1, <2>2 DEF FallbackInv, Placed, Circuit
<1>4. CASE UNCHANGED fallbackVars
  BY <1>1, <1>4 DEF fallbackVars, FallbackInv, Placed, Circuit
<1> QED
  BY <1>2, <1>3, <1>4 DEF FallbackNext

\* No circuit is ever half-open, and a run that waits to retry has heard of a
\* failure that is younger than the reset timeout.
\* (fallback.ts:138-160: the note on getState() and the retries)
THEOREM FallbackInvHolds ==
    ASSUME FallbackAssumption, BreakerAssumption
    PROVE  FallbackSpec => []FallbackInv
<1>1. FallbackInit => FallbackInv
  BY FallbackInvInit
<1>2. FallbackInv /\ [FallbackNext]_fallbackVars => FallbackInv'
  BY FallbackInvStep
<1> QED
  BY <1>1, <1>2, PTL DEF FallbackSpec

\* Breakers and runs have their types, and a run never stands at a model that
\* its filters exclude nor beyond its last retry. (fallback.ts:104: the chain)
THEOREM FallbackTypeCorrect ==
    ASSUME FallbackAssumption, BreakerAssumption
    PROVE  FallbackSpec => []FallbackTypeOK
<1>1. FallbackInv => FallbackTypeOK
  <2> SUFFICES ASSUME FallbackInv PROVE FallbackTypeOK
    OBVIOUS
  <2>1. circuits \in [Providers -> Breakers]
    BY DEF FallbackInv, Steady
  <2>2. \A r \in Runs : \/ run[r] \in Ends
                        \/ run[r] \in Attempts /\ run[r].model \in EffectiveModels(run[r].config)
    BY DEF FallbackInv, Placed
  <2> QED
    BY <2>1, <2>2 DEF FallbackTypeOK, Ends, Attempts
<1> QED
  BY <1>1, FallbackInvHolds, PTL

\* Every step calls only where it may and ends a run only when it must.
LEMMA StepTriesModels ==
    FallbackAssumption /\ BreakerAssumption =>
       (FallbackInv /\ [FallbackNext]_fallbackVars => [CallsOnlyWherePermitted /\ EndsOnlyWhenItMust]_fallbackVars)
<1> SUFFICES ASSUME FallbackAssumption, BreakerAssumption, FallbackInv, FallbackNext,
                    NEW r \in Runs, run[r] # run'[r]
             PROVE  /\ \A p \in Providers :
                          (circuits[p].state = "open" /\ ~circuits[p].cooled /\ run'[r].at = "call")
                             => Circuit(r)' # p
                    /\ EndAllowed(run[r], run'[r])
  BY DEF EndAllowed, Circuit, CallsOnlyWherePermitted, EndsOnlyWhenItMust
<1>1. run \in [Runs -> Ends \cup Attempts]
  BY DEF FallbackInv
<1>2. PICK s \in Runs : Begin(s) \/ Settle(s) \/ Retry(s) \/ AbortBackoff(s)
  BY DEF FallbackNext, CoolDown
<1>3. Moves(s)
  BY <1>2, RunMoves
<1>4. PICK new \in Ends \cup Attempts : /\ run' = [run EXCEPT ![s] = new]
                                        /\ CallAllowed(new) /\ EndAllowed(run[s], new)
  BY <1>3 DEF Moves
<1>5. s = r /\ run'[r] = new
  BY <1>1, <1>4
<1> QED
  BY <1>4, <1>5 DEF CallAllowed, Circuit

\* A run calls no provider while its circuit is open, passes no later model that
\* could be called, and meets the breaker's own error only at a retry.
\* (fallback.ts:135: the loop over the models)
THEOREM ModelsAreTried ==
    ASSUME FallbackAssumption, BreakerAssumption
    PROVE  FallbackSpec => ModelsTried
<1>1. FallbackInv /\ [FallbackNext]_fallbackVars => [CallsOnlyWherePermitted /\ EndsOnlyWhenItMust]_fallbackVars
  BY StepTriesModels
<1> QED
  BY <1>1, FallbackInvHolds, PTL DEF FallbackSpec, ModelsTried
=============================================================================
