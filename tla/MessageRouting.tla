--------------------------- MODULE MessageRouting ---------------------------
(***************************************************************************)
(* MessageRouter (packages/server/src/process/message-router.ts) with its  *)
(* MessageQueue (message-queue.ts, mode "queue", drop policy "old") and    *)
(* its Dedupe of message ids: how inbound channel messages become calls of *)
(* onProcess, one at a time per session.                                   *)
(*                                                                         *)
(* A channel may deliver the same message id again at any time.  The lane  *)
(* of the router admits one holder per session; here only its count is     *)
(* kept, and NoLostWakeup says that acquire() never has to wait.           *)
(***************************************************************************)
EXTENDS Integers, Sequences, FiniteSets

CONSTANTS Msgs,          \* message ids
          Sessions,
          SessionOf,     \* [Msgs -> Sessions], deriveRoutingSessionKey()
          QueueMax,      \* MessageQueue maxSize
          DedupeMax,     \* Dedupe maxSize
          MaxEntries,    \* bound on the messages accepted
          MaxDisposals   \* bound on the calls of dispose()

ASSUME RoutingAssumption ==
    /\ SessionOf \in [Msgs -> Sessions]
    /\ QueueMax \in Nat \ {0}
    /\ DedupeMax \in Nat \ {0}
    /\ MaxEntries \in Nat
    /\ MaxDisposals \in Nat

VARIABLES seen,         \* Dedupe.inflight: the ids registered, oldest first
          accepted,     \* the messages accepted so far; entry n is accepted[n]
          queues,       \* MessageQueue.queues: entry numbers
          processing,   \* MessageQueue.processing
          jobs,         \* the processNext() calls under way
          lane,         \* active count of the lane per session
          controllers,  \* activeControllers: the entry a session's is for, or 0
          disposals

vars == <<seen, accepted, queues, processing, jobs, lane, controllers, disposals>>

-----------------------------------------------------------------------------
NoEntry == 0
Entries == 1..MaxEntries
Job(n, s, phase) == [entry |-> n, session |-> s, phase |-> phase]
JobsOf(s) == {j \in jobs : j.session = s}
Registered(m) == \E i \in 1..Len(seen) : seen[i] = m

Init == /\ seen = <<>>
        /\ accepted = <<>>
        /\ queues = [s \in Sessions |-> <<>>]
        /\ processing = {}
        /\ jobs = {}
        /\ lane = [s \in Sessions |-> 0]
        /\ controllers = [s \in Sessions |-> NoEntry]
        /\ disposals = 0

\* Faulty variant: over the limit the newest id is dropped, not the oldest.
RegisterNewest(m) ==
    LET ids == Append(seen, m) IN
    IF Len(ids) > DedupeMax THEN SubSeq(ids, 1, DedupeMax) ELSE ids

\* dedupe.execute(): the id is registered, the oldest one dropped over the limit.
Register(m) == LET ids == Append(seen, m) IN
               IF Len(ids) > DedupeMax THEN Tail(ids) ELSE ids

\* enqueue(): a full queue loses its oldest entry.
Pushed(q, n) == Append(IF Len(q) >= QueueMax THEN Tail(q) ELSE q, n)

\* processNext(s) up to its first await, on queue q: take the head, mark the
\* session, enter the lane.  others are the jobs that go on.
ProcessNext(s, q, others) ==
    /\ queues' = [queues EXCEPT ![s] = Tail(q)]
    /\ processing' = processing \cup {s}
    /\ jobs' = others \cup {Job(Head(q), s, "acquired")}

\* Faulty variant: the session is not looked at, every message is started.
RouteAlways(m) ==
    /\ Len(accepted) < MaxEntries
    /\ ~Registered(m)
    /\ seen' = Register(m)
    /\ accepted' = Append(accepted, m)
    /\ LET s == SessionOf[m] IN
          /\ ProcessNext(s, Pushed(queues[s], Len(accepted) + 1), jobs)
          /\ lane' = [lane EXCEPT ![s] = @ + 1]
    /\ UNCHANGED <<controllers, disposals>>

\* route(): a message whose id is registered is dropped, which changes nothing.
Route(m) ==
    /\ Len(accepted) < MaxEntries
    /\ ~Registered(m)
    /\ seen' = Register(m)
    /\ accepted' = Append(accepted, m)
    /\ LET s == SessionOf[m]
           q == Pushed(queues[s], Len(accepted) + 1)
       IN  IF s \in processing
             THEN /\ queues' = [queues EXCEPT ![s] = q]
                  /\ UNCHANGED <<processing, jobs, lane>>
             ELSE /\ ProcessNext(s, q, jobs)
                  /\ lane' = [lane EXCEPT ![s] = @ + 1]
    /\ UNCHANGED <<controllers, disposals>>

\* acquire() has resolved: the controller is made and onProcess is called.
StartProcess(j) ==
    /\ j \in jobs /\ j.phase = "acquired"
    /\ jobs' = (jobs \ {j}) \cup {Job(j.entry, j.session, "running")}
    /\ controllers' = [controllers EXCEPT ![j.session] = j.entry]
    /\ UNCHANGED <<seen, accepted, queues, processing, lane, disposals>>

Released(s) == IF lane[s] <= 1 THEN 0 ELSE lane[s] - 1

\* Faulty variant: the session is freed but the queue not looked at again.
FinishStops(j) ==
    /\ j \in jobs /\ j.phase = "running"
    /\ controllers' = [controllers EXCEPT ![j.session] = NoEntry]
    /\ processing' = processing \ {j.session}
    /\ jobs' = jobs \ {j}
    /\ lane' = [lane EXCEPT ![j.session] = Released(j.session)]
    /\ UNCHANGED <<seen, accepted, queues, disposals>>

\* onProcess settles, its error logged: the finally block releases the lane and
\* the session and, if messages came in meanwhile, starts the next one at once.
Finish(j) ==
    LET s == j.session IN
    /\ j \in jobs /\ j.phase = "running"
    /\ controllers' = [controllers EXCEPT ![s] = NoEntry]
    /\ IF queues[s] # <<>>
         THEN /\ ProcessNext(s, queues[s], jobs \ {j})
              /\ lane' = [lane EXCEPT ![s] = Released(s) + 1]
         ELSE /\ processing' = processing \ {s}
              /\ jobs' = jobs \ {j}
              /\ lane' = [lane EXCEPT ![s] = Released(s)]
              /\ UNCHANGED queues
    /\ UNCHANGED <<seen, accepted, disposals>>

\* dispose(): what runs is told to stop, but the queues stay and go on.
Dispose ==
    /\ disposals < MaxDisposals
    /\ disposals' = disposals + 1
    /\ controllers' = [s \in Sessions |-> NoEntry]
    /\ lane' = [s \in Sessions |-> 0]
    /\ seen' = <<>>
    /\ UNCHANGED <<accepted, queues, processing, jobs>>

Next == \/ \E m \in Msgs : Route(m)
        \/ \E j \in jobs : StartProcess(j) \/ Finish(j)
        \/ Dispose

Spec == Init /\ [][Next]_vars

\* The pipeline cuts an onProcess off after its timeout, so every job ends.
FairSpec == Spec /\ WF_vars(\E j \in jobs : StartProcess(j))
                 /\ \A s \in Sessions : WF_vars(\E j \in JobsOf(s) : Finish(j))

-----------------------------------------------------------------------------
\* Queues hold accepted entries only and never more than maxSize of them, nor the
\* map of ids more than its limit.
TypeOK ==
    /\ seen \in Seq(Msgs) /\ Len(seen) <= DedupeMax
    /\ accepted \in Seq(Msgs) /\ Len(accepted) <= MaxEntries
    /\ queues \in [Sessions -> Seq(Entries)]
    /\ \A s \in Sessions : Len(queues[s]) <= QueueMax
    /\ processing \subseteq Sessions
    /\ jobs \subseteq [entry : Entries, session : Sessions, phase : {"acquired", "running"}]
    /\ lane \in [Sessions -> Nat]
    /\ controllers \in [Sessions -> Entries \cup {NoEntry}]
    /\ disposals \in 0..MaxDisposals

\* One onProcess at a time per session: the agent never works on two messages
\* of a conversation at once.
SessionSerial ==
    \A i, j \in jobs : i.session = j.session => i = j

\* No wake-up is lost: a session with waiting messages is marked as processing,
\* exactly the marked sessions have a job that will look at the queue, and that
\* job never waits in the lane: the acquire() outside the try block, whose
\* timeout would leave the session marked for ever, finds the lane free.
NoLostWakeup ==
    \A s \in Sessions : /\ queues[s] # <<>> => s \in processing
                        /\ s \in processing <=> JobsOf(s) # {}
                        /\ lane[s] <= 1

\* Messages of a session are handled in the order in which they were accepted,
\* also when older ones are dropped from a full queue.
InOrder ==
    \A s \in Sessions :
      /\ \A i, j \in 1..Len(queues[s]) : i < j => queues[s][i] < queues[s][j]
      /\ \A i \in 1..Len(queues[s]), j \in JobsOf(s) : j.entry < queues[s][i]
      /\ \A i \in 1..Len(queues[s]) : SessionOf[accepted[queues[s][i]]] = s

\* All three together: each message of a session is handled in its turn, by one
\* worker, while others arrive, finish and are dropped.
\* (message-router.ts:142: processNext)
HandledInTurn == SessionSerial /\ NoLostWakeup /\ InOrder

\* A redelivered message is not handled twice, unless at least DedupeMax others
\* were accepted in between (and dispose() forgot nothing).
RedeliveryFiltered ==
    disposals = 0 =>
      \A i, j \in 1..Len(accepted) :
        i < j /\ accepted[i] = accepted[j]
          => Cardinality({accepted[n] : n \in (i + 1)..(j - 1)}) >= DedupeMax

\* Every accepted message leaves the queue: it is handled, or pushed out by
\* newer ones.
EveryMessageLeaves ==
    \A n \in Entries, s \in Sessions :
      (\E i \in 1..Len(queues[s]) : queues[s][i] = n)
        ~> ~(\E i \in 1..Len(queues[s]) : queues[s][i] = n)
=============================================================================
