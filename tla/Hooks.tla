--------------------------------- MODULE Hooks ---------------------------------
(***************************************************************************)
(* The two hook systems of the server: HookRegistry and its runners        *)
(* (packages/server/src/services/hooks), which bridgeEventBusToHooks()     *)
(* triggers for events of the bus without awaiting the result, and the     *)
(* hook runners that plugins tap (packages/server/src/plugins/hooks.ts).   *)
(* Handlers are awaited, so hooks come and go while others run, and        *)
(* several triggers are under way.                                         *)
(***************************************************************************)
EXTENDS Integers, Sequences, FiniteSets, Functions

CONSTANTS Hooks,       \* ids
          PriorityOf,  \* of each
          KeysOf,      \* which of "type" and "action" it is registered for
          Disabled,    \* hooks that are registered with enabled = false
          Triggers     \* events, and calls of fire(), that may be under way

HooksAssumption == /\ PriorityOf \in [Hooks -> Nat] /\ Disabled \subseteq Hooks
                   /\ KeysOf \in [Hooks -> SUBSET {"type", "action"}]

\* HookRegistry.trigger(), the modes of createServiceHookRunner() and those of
\* createHookRunner().
Timed == {"parallel", "sequential"}
OfRegistry == {"registry", "sync"} \cup Timed
OfPlugins == {"void", "modifying", "plugin sync"}
Serial == {"registry", "sequential", "modifying"}
Modes == OfRegistry \cup OfPlugins

VARIABLES handlers,  \* HookRegistry.handlers
          taps,      \* entries of a plugin's hook runner
          run        \* the triggers

vars == <<handlers, taps, run>>

-----------------------------------------------------------------------------
Idle == [mode |-> "none", queue |-> <<>>, started |-> <<>>, running |-> {},
         applied |-> <<>>, failed |-> {}, meant |-> {}]

Init == /\ handlers = [k \in {"type", "action"} |-> <<>>]
        /\ taps = <<>>
        /\ run = [t \in Triggers |-> Idle]

\* The places K of s by their keys, the smallest first; equal ones keep their order.
Before(key, i, j) == key[i] < key[j] \/ (key[i] = key[j] /\ i < j)
Place(K, key, n) == CHOOSE j \in K : Cardinality({i \in K : Before(key, i, j)}) = n - 1
Sorted(s, K, key) == [n \in 1..Cardinality(K) |-> s[Place(K, key, n)]]

Rising(s) == [i \in DOMAIN s |-> PriorityOf[s[i]]]
\* sortEntries(): the highest first.
Falling(s) == [i \in DOMAIN s |-> -PriorityOf[s[i]]]
AsListed(s) == [i \in DOMAIN s |-> i]

Insert(s, h) == LET all == Append(s, h) IN Sorted(all, DOMAIN all, Rising(all))
Without(s, h) == Sorted(s, {i \in DOMAIN s : s[i] # h}, AsListed(s))

\* register()
Register(h) == /\ \A k \in KeysOf[h] : h \notin Range(handlers[k])
               /\ handlers' = [k \in DOMAIN handlers |->
                                 IF k \in KeysOf[h] THEN Insert(handlers[k], h) ELSE handlers[k]]
               /\ UNCHANGED <<taps, run>>
\* unregister()
Unregister(h) == /\ \E k \in KeysOf[h] : h \in Range(handlers[k])
                 /\ handlers' = [k \in DOMAIN handlers |-> Without(handlers[k], h)]
                 /\ UNCHANGED <<taps, run>>
\* clear()
Clear == handlers' = [k \in DOMAIN handlers |-> <<>>] /\ UNCHANGED <<taps, run>>
\* tap()
Tap(h) == /\ h \notin Range(taps)
          /\ taps' = Append(taps, h)
          /\ UNCHANGED <<handlers, run>>

-----------------------------------------------------------------------------
Enabled(s) == {i \in DOMAIN s : s[i] \notin Disabled}

\* The handlers of a trigger, in their order: only HookRegistry.trigger() sorts
\* those of the two keys together.
Collected(mode) ==
    LET both == handlers["type"] \o handlers["action"] IN
    CASE mode \in OfPlugins  -> Sorted(taps, DOMAIN taps, Falling(taps))
      [] mode = "registry"   -> Sorted(both, Enabled(both), Rising(both))
      [] OTHER               -> Sorted(both, Enabled(both), AsListed(both))

\* The hooks that are there when it happens, and how often each.
Meant(mode) == {m \in Hooks \X DOMAIN handlers :
                  IF mode \in OfPlugins THEN m[2] = "type" /\ m[1] \in Range(taps)
                  ELSE m[1] \in Range(handlers[m[2]]) /\ m[1] \notin Disabled}

\* An event, or a call of fire().  Modes that do not wait start all handlers at once.
Fire(t, mode) ==
    LET all == Collected(mode) IN
    /\ run[t].mode = "none"
    /\ run' = [run EXCEPT ![t] = [Idle EXCEPT !.mode = mode, !.meant = Meant(mode),
                                    !.queue = IF mode \in Serial THEN all ELSE <<>>,
                                    !.started = IF mode \in Serial THEN <<>> ELSE all,
                                    !.running = IF mode \in Serial \cup {"sync", "plugin sync"} THEN {}
                                                ELSE DOMAIN all]]
    /\ UNCHANGED <<handlers, taps>>

\* A synchronous handler throws: the runner goes on, fire() of a plugin's hook does
\* not.
Throws(t, n) ==
    /\ run[t].mode = "plugin sync" /\ run[t].failed = {} /\ n \in DOMAIN run[t].started
    /\ run' = [run EXCEPT ![t].started = SubSeq(@, 1, n), ![t].failed = {n}]
    /\ UNCHANGED <<handlers, taps>>

\* The handler before it is over: the next one of the copy is called.
Starts(t) ==
    LET r == run[t] IN
    /\ r.mode \in Serial /\ r.running = {} /\ r.queue # <<>>
    /\ run' = [run EXCEPT ![t].started = Append(@, Head(r.queue)),
                          ![t].running = {Len(r.started) + 1}, ![t].queue = Tail(@)]
    /\ UNCHANGED <<handlers, taps>>

\* A handler settles, or it is not waited for any longer: its error is reported
\* to onError or the log, and a modifying hook keeps the payload before it.
Over(t, i, fails) ==
    /\ i \in run[t].running
    /\ run' = [run EXCEPT ![t].running = @ \ {i},
                          ![t].failed = IF fails THEN @ \cup {i} ELSE @,
                          ![t].applied = IF run[t].mode = "modifying" /\ ~fails
                                           THEN Append(@, i) ELSE @]
    /\ UNCHANGED <<handlers, taps>>

Done(t) == run[t].mode # "none" /\ run[t].running = {} /\ run[t].queue = <<>>
Settled(t) == /\ Done(t) /\ run' = [run EXCEPT ![t] = Idle]
              /\ UNCHANGED <<handlers, taps>>

Next == \/ \E h \in Hooks : Register(h) \/ Unregister(h) \/ Tap(h)
        \/ Clear
        \/ \E t \in Triggers : \/ \E mode \in Modes : Fire(t, mode)
                               \/ Starts(t) \/ Settled(t)
                               \/ \E i \in 1..2 * Cardinality(Hooks) :
                                    Throws(t, i) \/ \E fails \in BOOLEAN : Over(t, i, fails)

Spec == Init /\ [][Next]_vars

-----------------------------------------------------------------------------
Times(s, h) == Cardinality({i \in DOMAIN s : s[i] = h})
Reversed(mode) == mode \in OfPlugins

\* A trigger calls each hook that was there when it happened, once for every key
\* that it is registered for, also while hooks come and go: in the registry's own
\* trigger and in a plugin's hook the order is that of their priorities, and what a
\* modifying hook returns has passed through all handlers that did not fail, in
\* that order.  (services/hooks/registry.ts: trigger, runner.ts; plugins/hooks.ts: fire)
HooksRunOnce ==
    \A t \in Triggers : LET r == run[t] IN
      /\ Done(t) /\ ~(r.mode = "plugin sync" /\ r.failed # {}) =>
           \A h \in Hooks : Times(r.started, h) = Cardinality({m \in r.meant : m[1] = h})
      /\ r.mode \in OfPlugins \cup {"registry"} =>
           \A i, j \in DOMAIN r.started : i < j =>
             LET p == PriorityOf[r.started[i]] q == PriorityOf[r.started[j]] IN
             IF Reversed(r.mode) THEN p >= q ELSE p <= q
      /\ r.mode \in Serial => Cardinality(r.running) <= 1
      /\ r.mode = "modifying" => \A i, j \in DOMAIN r.applied : i < j => r.applied[i] < r.applied[j]
      /\ Done(t) /\ r.mode = "modifying" => Range(r.applied) = DOMAIN r.started \ r.failed
=============================================================================
