------------------------ MODULE MessageRoutingProofs ------------------------
(***************************************************************************)
(* Safety of MessageRouting for any messages and sessions, any limits of   *)
(* the queue and of the id cache: one message of a session at a time, no   *)
(* lost wake-up, and the order of arrival.                                 *)
(***************************************************************************)
EXTENDS MessageRouting, FiniteSetTheorems, TLAPS

\* NoLostWakeup, with the lane of an idle session being free: what the next
\* acquire() of the session relies on.
Served ==
    \A s \in Sessions :
        /\ queues[s] # <<>> => s \in processing
        /\ s \in processing <=> \E j \in jobs : j.session = s
        /\ lane[s] <= 1
        /\ s \notin processing => lane[s] = 0

\* InOrder, with the entries being of messages that were accepted, so that
\* the number of the next message is above them all.
QueueSound ==
    \A s \in Sessions : \A i \in 1..Len(queues[s]) :
        /\ queues[s][i] <= Len(accepted)
        /\ SessionOf[accepted[queues[s][i]]] = s
        /\ \A k \in 1..Len(queues[s]) : i < k => queues[s][i] < queues[s][k]

JobsFirst ==
    \A j \in jobs : /\ j.entry <= Len(accepted)
                    /\ \A i \in 1..Len(queues[j.session]) : j.entry < queues[j.session][i]

RoutingInv == TypeOK /\ SessionSerial /\ Served /\ QueueSound /\ JobsFirst

USE RoutingAssumption

-----------------------------------------------------------------------------
\* A push keeps the newest entries in their order and puts the new one last.
LEMMA PushedLine ==
    ASSUME NEW q \in Seq(Entries), Len(q) <= QueueMax, NEW n \in Entries
    PROVE  /\ Pushed(q, n) \in Seq(Entries) /\ Len(Pushed(q, n)) \in 1..QueueMax
           /\ Pushed(q, n)[Len(Pushed(q, n))] = n
           /\ \E d \in {0, 1} :
                 /\ Len(Pushed(q, n)) = Len(q) - d + 1
                 /\ \A i \in 1..(Len(Pushed(q, n)) - 1) :
                       i + d \in 1..Len(q) /\ Pushed(q, n)[i] = q[i + d]
<1>1. CASE Len(q) >= QueueMax
  <2>1. /\ Tail(q) \in Seq(Entries) /\ Len(Tail(q)) = Len(q) - 1
        /\ \A i \in 1..(Len(q) - 1) : Tail(q)[i] = q[i + 1]
    BY <1>1
  <2>2. Pushed(q, n) = Append(Tail(q), n)
    BY <1>1 DEF Pushed
  <2>3. Len(q) \in Nat
    OBVIOUS
  <2>4. /\ Len(Pushed(q, n)) = Len(q) - 1 + 1
        /\ \A i \in 1..(Len(Pushed(q, n)) - 1) :
              i + 1 \in 1..Len(q) /\ Pushed(q, n)[i] = q[i + 1]
    BY <2>1, <2>2, <2>3
  <2>5. /\ Pushed(q, n) \in Seq(Entries) /\ Len(Pushed(q, n)) \in 1..QueueMax
        /\ Pushed(q, n)[Len(Pushed(q, n))] = n
    BY <1>1, <2>1, <2>2, <2>3
  <2> QED
    BY <2>4, <2>5
<1>2. CASE Len(q) < QueueMax
  <2>1. Pushed(q, n) = Append(q, n) /\ Len(q) \in Nat
    BY <1>2 DEF Pushed
  <2>2. /\ Len(Pushed(q, n)) = Len(q) - 0 + 1
        /\ \A i \in 1..(Len(Pushed(q, n)) - 1) :
              i + 0 \in 1..Len(q) /\ Pushed(q, n)[i] = q[i + 0]
    BY <2>1
  <2>3. /\ Pushed(q, n) \in Seq(Entries) /\ Len(Pushed(q, n)) \in 1..QueueMax
        /\ Pushed(q, n)[Len(Pushed(q, n))] = n
    BY <1>2, <2>1
  <2> QED
    BY <2>2, <2>3
<1> QED
  BY <1>1, <1>2

\* A message for an idle session is the only one of its queue.
LEMMA PushedAlone ==
    ASSUME NEW n \in Entries
    PROVE  Head(Pushed(<<>>, n)) = n /\ Tail(Pushed(<<>>, n)) = <<>>
  BY DEF Pushed

LEMMA RegisterType ==
    ASSUME seen \in Seq(Msgs), Len(seen) <= DedupeMax, NEW m \in Msgs
    PROVE  Register(m) \in Seq(Msgs) /\ Len(Register(m)) <= DedupeMax
<1> DEFINE ids == Append(seen, m)
<1>1. ids \in Seq(Msgs) /\ Len(ids) = Len(seen) + 1 /\ Len(seen) \in Nat
  OBVIOUS
<1>2. Len(ids) > DedupeMax => Tail(ids) \in Seq(Msgs) /\ Len(Tail(ids)) = Len(ids) - 1
  BY <1>1
<1> QED
  BY <1>1, <1>2 DEF Register

LEMMA JobType ==
    ASSUME NEW n \in Entries, NEW s \in Sessions, NEW phase \in {"acquired", "running"}
    PROVE  /\ Job(n, s, phase) \in [entry : Entries, session : Sessions,
                                    phase : {"acquired", "running"}]
           /\ Job(n, s, phase).entry = n /\ Job(n, s, phase).session = s
  BY DEF Job

LEMMA HeadTail ==
    ASSUME NEW q \in Seq(Entries), q # <<>>
    PROVE  /\ Head(q) \in Entries /\ Head(q) = q[1]
           /\ Tail(q) \in Seq(Entries) /\ Len(Tail(q)) = Len(q) - 1 /\ Len(q) \in Nat \ {0}
           /\ \A i \in 1..(Len(q) - 1) : Tail(q)[i] = q[i + 1]
  OBVIOUS

\* The two branches of route() and of the finally block, with what each needs
\* of the state before it.
LEMMA RouteCases ==
    ASSUME RoutingInv, NEW m \in Msgs, Route(m)
    PROVE  LET s == SessionOf[m]  n == Len(accepted) + 1 IN
           /\ s \in Sessions /\ n \in Entries
           /\ accepted' \in Seq(Msgs) /\ Len(accepted') = n /\ accepted'[n] = m
           /\ \A i \in 1..Len(accepted) : accepted'[i] = accepted[i]
           /\ \/ /\ s \in processing
                 /\ queues' = [queues EXCEPT ![s] = Pushed(queues[s], n)]
                 /\ UNCHANGED <<processing, jobs, lane>>
              \/ /\ s \notin processing /\ queues[s] = <<>> /\ lane[s] = 0
                 /\ queues' = [queues EXCEPT ![s] = <<>>]
                 /\ processing' = processing \cup {s}
                 /\ jobs' = jobs \cup {Job(n, s, "acquired")}
                 /\ lane' = [lane EXCEPT ![s] = @ + 1]
<1> DEFINE s == SessionOf[m]
           n == Len(accepted) + 1
<1>1. s \in Sessions /\ accepted \in Seq(Msgs) /\ Len(accepted) \in Nat
  BY DEF RoutingInv, TypeOK
<1>2. n \in Entries /\ accepted' = Append(accepted, m)
  BY <1>1 DEF Route, Entries
<1>3. /\ accepted' \in Seq(Msgs) /\ Len(accepted') = n /\ accepted'[n] = m
      /\ \A i \in 1..Len(accepted) : accepted'[i] = accepted[i]
  BY <1>1, <1>2
<1>4. CASE s \in processing
  BY <1>1, <1>2, <1>3, <1>4 DEF Route
<1>5. CASE s \notin processing
  <2>1. queues[s] = <<>> /\ lane[s] = 0
    BY <1>1, <1>5 DEF RoutingInv, Served
  <2>2. /\ ProcessNext(s, Pushed(<<>>, n), jobs)
        /\ lane' = [lane EXCEPT ![s] = @ + 1]
    BY <1>5, <2>1 DEF Route
  <2> QED
    BY <1>1, <1>2, <1>3, <1>5, <2>1, <2>2, PushedAlone DEF ProcessNext
<1> QED
  BY <1>4, <1>5

LEMMA FinishCases ==
    ASSUME RoutingInv, NEW j \in jobs, Finish(j)
    PROVE  LET s == j.session IN
           /\ s \in Sessions /\ lane[s] \in {0, 1}
           /\ \A i \in jobs \ {j} : i.session # s
           /\ UNCHANGED <<seen, accepted, disposals>>
           /\ \/ /\ queues[s] # <<>>
                 /\ queues' = [queues EXCEPT ![s] = Tail(queues[s])]
                 /\ processing' = processing \cup {s}
                 /\ jobs' = (jobs \ {j}) \cup {Job(Head(queues[s]), s, "acquired")}
                 /\ lane' = [lane EXCEPT ![s] = 1]
              \/ /\ queues[s] = <<>> /\ queues' = queues
                 /\ processing' = processing \ {s}
                 /\ jobs' = jobs \ {j}
                 /\ lane' = [lane EXCEPT ![s] = 0]
<1> DEFINE s == j.session
<1>1. s \in Sessions
  BY DEF RoutingInv, TypeOK
<1>2. lane[s] \in {0, 1} /\ \A i \in jobs \ {j} : i.session # s
  BY <1>1 DEF RoutingInv, TypeOK, Served, SessionSerial
<1>3. Released(s) = 0
  BY <1>2 DEF Released
<1> QED
  BY <1>1, <1>2, <1>3 DEF Finish, ProcessNext

LEMMA InitInv == Init => RoutingInv
<1> SUFFICES ASSUME Init PROVE RoutingInv
  OBVIOUS
<1>1. TypeOK
  BY DEF Init, TypeOK, NoEntry
<1> QED
  BY <1>1 DEF Init, RoutingInv, SessionSerial, Served, QueueSound, JobsFirst

-----------------------------------------------------------------------------
LEMMA TypeStep == RoutingInv /\ [Next]_vars => TypeOK'
<1> SUFFICES ASSUME RoutingInv, [Next]_vars PROVE TypeOK'
  OBVIOUS
<1>0. TypeOK
  BY DEF RoutingInv
<1> DEFINE JobSet == [entry : Entries, session : Sessions, phase : {"acquired", "running"}]
<1>1. ASSUME NEW m \in Msgs, Route(m) PROVE TypeOK'
  <2> DEFINE s == SessionOf[m]
             n == Len(accepted) + 1
  <2>1. /\ s \in Sessions /\ n \in Entries
        /\ accepted' \in Seq(Msgs) /\ Len(accepted') <= MaxEntries
    BY <1>1, RouteCases DEF Entries
  <2>2. seen' \in Seq(Msgs) /\ Len(seen') <= DedupeMax
    BY <1>0, <1>1, RegisterType DEF Route, TypeOK
  <2>3. UNCHANGED <<controllers, disposals>>
    BY <1>1 DEF Route
  <2>4. /\ queues' \in [Sessions -> Seq(Entries)]
        /\ \A t \in Sessions : Len(queues'[t]) <= QueueMax
    <3>1. /\ queues \in [Sessions -> Seq(Entries)]
          /\ \A t \in Sessions : Len(queues[t]) <= QueueMax
      BY <1>0 DEF TypeOK
    <3>2. \E q \in Seq(Entries) : Len(q) <= QueueMax /\ queues' = [queues EXCEPT ![s] = q]
      <4>1. Pushed(queues[s], n) \in Seq(Entries) /\ Len(Pushed(queues[s], n)) <= QueueMax
        BY <2>1, <3>1, PushedLine
      <4>2. <<>> \in Seq(Entries) /\ Len(<<>>) <= QueueMax
        OBVIOUS
      <4>3. \/ queues' = [queues EXCEPT ![s] = Pushed(queues[s], n)]
            \/ queues' = [queues EXCEPT ![s] = <<>>]
        BY <1>1, RouteCases
      <4> QED
        BY <4>1, <4>2, <4>3
    <3> QED
      BY <3>1, <3>2
  <2>5. processing' \subseteq Sessions /\ jobs' \subseteq JobSet /\ lane' \in [Sessions -> Nat]
    <3>1. processing \subseteq Sessions /\ jobs \subseteq JobSet /\ lane \in [Sessions -> Nat]
      BY <1>0 DEF TypeOK
    <3>2. Job(n, s, "acquired") \in JobSet
      BY <2>1, JobType
    <3>3. CASE UNCHANGED <<processing, jobs, lane>>
      BY <3>1, <3>3
    <3>4. CASE /\ processing' = processing \cup {s}
               /\ jobs' = jobs \cup {Job(n, s, "acquired")}
               /\ lane' = [lane EXCEPT ![s] = @ + 1]
      <4>1. processing' \subseteq Sessions /\ jobs' \subseteq JobSet
        BY <2>1, <3>1, <3>2, <3>4
      <4>2. lane' \in [Sessions -> Nat]
        BY <2>1, <3>1, <3>4
      <4> QED
        BY <4>1, <4>2
    <3> QED
      BY <1>1, <3>3, <3>4, RouteCases
  <2> QED
    BY <1>0, <2>1, <2>2, <2>3, <2>4, <2>5 DEF TypeOK
<1>2. ASSUME NEW j \in jobs, StartProcess(j) PROVE TypeOK'
  <2>1. j.entry \in Entries /\ j.session \in Sessions
    BY <1>0 DEF TypeOK
  <2>2. Job(j.entry, j.session, "running") \in JobSet
    BY <2>1, JobType
  <2> QED
    BY <1>0, <1>2, <2>1, <2>2 DEF StartProcess, TypeOK
<1>3. ASSUME NEW j \in jobs, Finish(j) PROVE TypeOK'
  <2> DEFINE s == j.session
  <2>1. s \in Sessions /\ UNCHANGED <<seen, accepted, disposals>>
    BY <1>3, FinishCases
  <2>2. controllers' \in [Sessions -> Entries \cup {NoEntry}]
    BY <1>0, <1>3 DEF Finish, TypeOK
  <2>3. lane' \in [Sessions -> Nat] /\ processing' \subseteq Sessions
    <3>1. lane \in [Sessions -> Nat] /\ processing \subseteq Sessions
      BY <1>0 DEF TypeOK
    <3>2. /\ lane' = [lane EXCEPT ![s] = 1] \/ lane' = [lane EXCEPT ![s] = 0]
          /\ processing' = processing \cup {s} \/ processing' = processing \ {s}
      BY <1>3, FinishCases
    <3> QED
      BY <2>1, <3>1, <3>2
  <2>4. CASE queues[s] = <<>>
    BY <1>0, <1>3, <2>1, <2>2, <2>3, <2>4, FinishCases DEF TypeOK
  <2>5. CASE queues[s] # <<>>
    <3>1. /\ queues \in [Sessions -> Seq(Entries)]
          /\ \A t \in Sessions : Len(queues[t]) <= QueueMax
      BY <1>0 DEF TypeOK
    <3>2. /\ Head(queues[s]) \in Entries /\ Tail(queues[s]) \in Seq(Entries)
          /\ Len(Tail(queues[s])) <= QueueMax
      BY <2>1, <2>5, <3>1, HeadTail
    <3>3. Job(Head(queues[s]), s, "acquired") \in JobSet
      BY <2>1, <3>2, JobType
    <3>4. /\ queues' = [queues EXCEPT ![s] = Tail(queues[s])]
          /\ jobs' = (jobs \ {j}) \cup {Job(Head(queues[s]), s, "acquired")}
      BY <1>3, <2>5, FinishCases
    <3>5. /\ queues' \in [Sessions -> Seq(Entries)]
          /\ \A t \in Sessions : Len(queues'[t]) <= QueueMax
      BY <3>1, <3>2, <3>4
    <3>6. jobs' \subseteq JobSet
      BY <1>0, <3>3, <3>4 DEF TypeOK
    <3> QED
      BY <1>0, <2>1, <2>2, <2>3, <3>5, <3>6 DEF TypeOK
  <2> QED
    BY <2>4, <2>5
<1>4. CASE Dispose
  <2>1. disposals' \in 0..MaxDisposals
    BY <1>0, <1>4 DEF Dispose, TypeOK
  <2>2. seen' \in Seq(Msgs) /\ Len(seen') <= DedupeMax
    BY <1>4 DEF Dispose
  <2> QED
    BY <1>0, <1>4, <2>1, <2>2 DEF Dispose, TypeOK
<1>5. CASE UNCHANGED vars
  BY <1>0, <1>5 DEF vars, TypeOK
<1> QED
  BY <1>1, <1>2, <1>3, <1>4, <1>5 DEF Next

\* A session is marked exactly while one job of it is under way, and only that
\* job takes its lane.
LEMMA ServedStep == RoutingInv /\ [Next]_vars => SessionSerial' /\ Served'
<1> SUFFICES ASSUME RoutingInv, [Next]_vars PROVE SessionSerial' /\ Served'
  OBVIOUS
<1>0. TypeOK /\ SessionSerial /\ Served
  BY DEF RoutingInv
<1>1. ASSUME NEW m \in Msgs, Route(m) PROVE SessionSerial' /\ Served'
  <2> DEFINE s == SessionOf[m]
             n == Len(accepted) + 1
  <2>0. s \in Sessions /\ n \in Entries
    BY <1>1, RouteCases
  <2>1. CASE s \in processing
    <3>1. /\ queues' = [queues EXCEPT ![s] = Pushed(queues[s], n)]
          /\ UNCHANGED <<processing, jobs, lane>>
      BY <1>1, <2>1, RouteCases
    <3>2. \A t \in Sessions : t # s => queues'[t] = queues[t]
      BY <1>0, <3>1 DEF TypeOK
    <3>3. SessionSerial'
      BY <1>0, <3>1 DEF SessionSerial
    <3>4. Served'
      BY <1>0, <2>1, <3>1, <3>2 DEF Served
    <3> QED
      BY <3>3, <3>4
  <2>2. CASE s \notin processing
    <3> DEFINE new == Job(n, s, "acquired")
    <3>1. /\ queues[s] = <<>> /\ lane[s] = 0
          /\ queues' = [queues EXCEPT ![s] = <<>>]
          /\ processing' = processing \cup {s}
          /\ jobs' = jobs \cup {new}
          /\ lane' = [lane EXCEPT ![s] = @ + 1]
      BY <1>1, <2>2, RouteCases
    <3>2. new.session = s
      BY DEF Job
    <3> HIDE DEF new
    <3>3. \A j \in jobs : j.session # s
      BY <1>0, <2>0, <2>2 DEF Served
    <3>4. SessionSerial'
      BY <1>0, <3>1, <3>2, <3>3 DEF SessionSerial
    <3>5. ASSUME NEW t \in Sessions
          PROVE  /\ queues'[t] # <<>> => t \in processing'
                 /\ t \in processing' <=> \E j \in jobs' : j.session = t
                 /\ lane'[t] <= 1
                 /\ t \notin processing' => lane'[t] = 0
      <4>1. CASE t = s
        BY <1>0, <2>0, <3>1, <3>2, <4>1 DEF TypeOK
      <4>2. CASE t # s
        <5>1. queues'[t] = queues[t] /\ lane'[t] = lane[t]
          BY <1>0, <3>1, <4>2 DEF TypeOK
        <5>2. t \in processing' <=> t \in processing
          BY <3>1, <4>2
        <5>3. (\E j \in jobs' : j.session = t) <=> \E j \in jobs : j.session = t
          BY <3>1, <3>2, <4>2
        <5> QED
          BY <1>0, <5>1, <5>2, <5>3 DEF Served
      <4> QED
        BY <4>1, <4>2
    <3>6. Served'
      BY <3>5 DEF Served
    <3> QED
      BY <3>4, <3>6
  <2> QED
    BY <2>1, <2>2
<1>2. ASSUME NEW j \in jobs, StartProcess(j) PROVE SessionSerial' /\ Served'
  <2> DEFINE new == Job(j.entry, j.session, "running")
  <2>1. jobs' = (jobs \ {j}) \cup {new} /\ UNCHANGED <<queues, processing, lane>>
    BY <1>2 DEF StartProcess
  <2>2. new.session = j.session
    BY DEF Job
  <2> HIDE DEF new
  <2>3. SessionSerial'
    BY <1>0, <2>1, <2>2 DEF SessionSerial
  <2>4. \A t \in Sessions : (\E i \in jobs' : i.session = t) <=> \E i \in jobs : i.session = t
    BY <2>1, <2>2
  <2>5. Served'
    BY <1>0, <2>1, <2>4 DEF Served
  <2> QED
    BY <2>3, <2>5
<1>3. ASSUME NEW j \in jobs, Finish(j) PROVE SessionSerial' /\ Served'
  <2> DEFINE s == j.session
             next == Job(Head(queues[s]), s, "acquired")
  <2>0. s \in Sessions /\ \A i \in jobs \ {j} : i.session # s
    BY <1>3, FinishCases
  <2>1. next.session = s
    BY DEF Job
  <2>2. CASE queues[s] # <<>>
    <3>1. /\ queues' = [queues EXCEPT ![s] = Tail(queues[s])]
          /\ processing' = processing \cup {s}
          /\ jobs' = (jobs \ {j}) \cup {next}
          /\ lane' = [lane EXCEPT ![s] = 1]
      BY <1>3, <2>2, FinishCases
    <3> HIDE DEF next
    <3>2. SessionSerial'
      BY <1>0, <2>0, <2>1, <3>1 DEF SessionSerial
    <3>3. ASSUME NEW t \in Sessions
          PROVE  /\ queues'[t] # <<>> => t \in processing'
                 /\ t \in processing' <=> \E i \in jobs' : i.session = t
                 /\ lane'[t] <= 1
                 /\ t \notin processing' => lane'[t] = 0
      <4>1. CASE t = s
        BY <1>0, <2>0, <2>1, <3>1, <4>1 DEF TypeOK
      <4>2. CASE t # s
        <5>1. queues'[t] = queues[t] /\ lane'[t] = lane[t]
          BY <1>0, <3>1, <4>2 DEF TypeOK
        <5>2. t \in processing' <=> t \in processing
          BY <3>1, <4>2
        <5>3. (\E i \in jobs' : i.session = t) <=> \E i \in jobs : i.session = t
          BY <2>1, <3>1, <4>2
        <5> QED
          BY <1>0, <5>1, <5>2, <5>3 DEF Served
      <4> QED
        BY <4>1, <4>2
    <3>4. Served'
      BY <3>3 DEF Served
    <3> QED
      BY <3>2, <3>4
  <2>3. CASE queues[s] = <<>>
    <3>1. /\ queues' = queues /\ processing' = processing \ {s} /\ jobs' = jobs \ {j}
          /\ lane' = [lane EXCEPT ![s] = 0]
      BY <1>3, <2>3, FinishCases
    <3>2. SessionSerial'
      BY <1>0, <3>1 DEF SessionSerial
    <3>3. ASSUME NEW t \in Sessions
          PROVE  /\ queues'[t] # <<>> => t \in processing'
                 /\ t \in processing' <=> \E i \in jobs' : i.session = t
                 /\ lane'[t] <= 1
                 /\ t \notin processing' => lane'[t] = 0
      <4>1. CASE t = s
        BY <1>0, <2>0, <2>3, <3>1, <4>1 DEF TypeOK
      <4>2. CASE t # s
        <5>1. lane'[t] = lane[t]
          BY <1>0, <3>1, <4>2 DEF TypeOK
        <5>2. t \in processing' <=> t \in processing
          BY <3>1, <4>2
        <5>3. (\E i \in jobs' : i.session = t) <=> \E i \in jobs : i.session = t
          BY <3>1, <4>2
        <5> QED
          BY <1>0, <3>1, <5>1, <5>2, <5>3 DEF Served
      <4> QED
        BY <4>1, <4>2
    <3>4. Served'
      BY <3>3 DEF Served
    <3> QED
      BY <3>2, <3>4
  <2> QED
    BY <2>2, <2>3
<1>4. CASE Dispose
  <2>1. UNCHANGED <<queues, processing, jobs>> /\ \A t \in Sessions : lane'[t] = 0
    BY <1>4 DEF Dispose
  <2> QED
    BY <1>0, <2>1 DEF SessionSerial, Served
<1>5. CASE UNCHANGED vars
  BY <1>0, <1>5 DEF vars, SessionSerial, Served
<1> QED
  BY <1>1, <1>2, <1>3, <1>4, <1>5 DEF Next

-----------------------------------------------------------------------------
\* The order of arrival, with the session of each entry: a new message has the
\* highest number, and what a job takes is the lowest of its queue.
LEMMA OrderStep == RoutingInv /\ [Next]_vars => QueueSound' /\ JobsFirst'
<1> SUFFICES ASSUME RoutingInv, [Next]_vars PROVE QueueSound' /\ JobsFirst'
  OBVIOUS
<1>0. TypeOK /\ QueueSound /\ JobsFirst
  BY DEF RoutingInv
<1>7. /\ queues \in [Sessions -> Seq(Entries)] /\ Len(accepted) \in Nat
      /\ \A t \in Sessions : Len(queues[t]) \in 0..QueueMax
      /\ \A t \in Sessions : \A i \in 1..Len(queues[t]) : queues[t][i] \in Entries
      /\ \A j \in jobs : j.session \in Sessions /\ j.entry \in Entries
  BY <1>0 DEF TypeOK
<1>8. \A n \in Entries : n \in Nat \ {0}
  BY DEF Entries
<1>1. ASSUME NEW m \in Msgs, Route(m) PROVE QueueSound' /\ JobsFirst'
  <2> DEFINE s == SessionOf[m]
             n == Len(accepted) + 1
             new == Job(n, s, "acquired")
  <2>0. /\ s \in Sessions /\ n \in Entries
        /\ Len(accepted') = n /\ accepted'[n] = m
        /\ \A i \in 1..Len(accepted) : accepted'[i] = accepted[i]
    BY <1>1, RouteCases
  <2>1. \A t \in Sessions : \A i \in 1..Len(queues[t]) :
           /\ queues[t][i] <= Len(accepted') /\ queues[t][i] < n
           /\ SessionOf[accepted'[queues[t][i]]] = t
    BY <1>0, <1>7, <1>8, <2>0 DEF QueueSound
  <2>2. CASE s \in processing
    <3> DEFINE q == Pushed(queues[s], n)
    <3>1. queues' = [queues EXCEPT ![s] = q] /\ jobs' = jobs
      BY <1>1, <2>2, RouteCases
    <3>2. /\ Len(q) \in 1..QueueMax /\ q[Len(q)] = n
          /\ \E d \in {0, 1} :
                /\ Len(q) = Len(queues[s]) - d + 1
                /\ \A i \in 1..(Len(q) - 1) : i + d \in 1..Len(queues[s]) /\ q[i] = queues[s][i + d]
      <4>1. queues[s] \in Seq(Entries) /\ Len(queues[s]) <= QueueMax
        BY <1>7, <2>0
      <4> QED
        BY <2>0, <4>1, PushedLine, ZenonT(30)
    <3> HIDE DEF q
    <3>3. \A i \in 1..Len(q) :
             /\ q[i] <= Len(accepted') /\ SessionOf[accepted'[q[i]]] = s
             /\ \A k \in 1..Len(q) : i < k => q[i] < q[k]
      <4>0. PICK d \in {0, 1} :
             \A i \in 1..(Len(q) - 1) : i + d \in 1..Len(queues[s]) /\ q[i] = queues[s][i + d]
        BY <3>2
      <4>3. d \in Nat /\ Len(q) \in Nat
        BY <3>2
      <4> TAKE i \in 1..Len(q)
      <4>1. CASE i = Len(q)
        BY <2>0, <3>2, <4>1
      <4>2. CASE i # Len(q)
        <5>1. i \in 1..(Len(q) - 1) /\ i + d \in 1..Len(queues[s]) /\ q[i] = queues[s][i + d]
          BY <4>0, <4>2, <4>3
        <5>2. /\ q[i] <= Len(accepted') /\ q[i] < n
              /\ SessionOf[accepted'[q[i]]] = s
          BY <2>0, <2>1, <5>1
        <5>3. ASSUME NEW k \in 1..Len(q), i < k PROVE q[i] < q[k]
          <6>1. CASE k = Len(q)
            BY <3>2, <5>2, <6>1
          <6>2. CASE k # Len(q)
            <7>1. k \in 1..(Len(q) - 1) /\ k + d \in 1..Len(queues[s]) /\ q[k] = queues[s][k + d]
              BY <4>0, <4>3, <6>2
            <7>2. i + d < k + d
              BY <3>2, <5>3
            <7> QED
              BY <1>0, <2>0, <5>1, <7>1, <7>2 DEF QueueSound
          <6> QED
            BY <6>1, <6>2
        <5> QED
          BY <5>2, <5>3
      <4> QED
        BY <4>1, <4>2
    <3>4. \A t \in Sessions : queues'[t] = IF t = s THEN q ELSE queues[t]
      BY <1>7, <3>1
    <3>5. QueueSound'
      <4> SUFFICES ASSUME NEW t \in Sessions, NEW i \in 1..Len(queues'[t])
                   PROVE  /\ queues'[t][i] <= Len(accepted')
                          /\ SessionOf[accepted'[queues'[t][i]]] = t
                          /\ \A k \in 1..Len(queues'[t]) : i < k => queues'[t][i] < queues'[t][k]
        BY DEF QueueSound
      <4>1. CASE t = s
        BY <3>3, <3>4, <4>1
      <4>2. CASE t # s
        BY <1>0, <2>1, <3>4, <4>2 DEF QueueSound
      <4> QED
        BY <4>1, <4>2
    <3>6. JobsFirst'
      <4> SUFFICES ASSUME NEW j \in jobs
                   PROVE  /\ j.entry <= Len(accepted')
                          /\ \A i \in 1..Len(queues'[j.session]) : j.entry < queues'[j.session][i]
        BY <3>1 DEF JobsFirst
      <4>1. /\ j.entry <= Len(accepted) /\ j.entry \in Nat /\ j.session \in Sessions
            /\ \A i \in 1..Len(queues[j.session]) : j.entry < queues[j.session][i]
        BY <1>0, <1>7, <1>8 DEF JobsFirst
      <4>2. CASE j.session = s
        <5> SUFFICES ASSUME NEW i \in 1..Len(queues'[j.session])
                     PROVE  j.entry < queues'[j.session][i]
          BY <2>0, <4>1
        <5>1. queues'[j.session] = q /\ i \in 1..Len(q)
          BY <3>4, <4>1, <4>2
        <5>2. CASE i = Len(q)
          BY <1>7, <2>0, <3>2, <4>1, <5>1, <5>2
        <5>3. CASE i # Len(q)
          <6>1. \E k \in 1..Len(queues[s]) : q[i] = queues[s][k]
            <7>1. PICK d \in {0, 1} : \A k \in 1..(Len(q) - 1) :
                     k + d \in 1..Len(queues[s]) /\ q[k] = queues[s][k + d]
              BY <3>2
            <7>2. i \in 1..(Len(q) - 1)
              BY <3>2, <5>1, <5>3
            <7> QED
              BY <7>1, <7>2
          <6> QED
            BY <1>7, <2>0, <4>1, <4>2, <5>1, <6>1
        <5> QED
          BY <5>2, <5>3
      <4>3. CASE j.session # s
        BY <1>7, <2>0, <3>4, <4>1, <4>3
      <4> QED
        BY <4>2, <4>3
    <3> QED
      BY <3>5, <3>6
  <2>3. CASE s \notin processing
    <3>1. /\ queues[s] = <<>> /\ queues' = [queues EXCEPT ![s] = <<>>]
          /\ jobs' = jobs \cup {new}
      BY <1>1, <2>3, RouteCases
    <3>2. queues' = queues
      BY <1>7, <3>1
    <3>3. new.session = s /\ new.entry = n
      BY DEF Job
    <3> HIDE DEF new
    <3>4. QueueSound'
      BY <1>0, <2>1, <3>2 DEF QueueSound
    <3>5. JobsFirst'
      BY <1>0, <1>7, <1>8, <2>0, <3>1, <3>2, <3>3 DEF JobsFirst
    <3> QED
      BY <3>4, <3>5
  <2> QED
    BY <2>2, <2>3
<1>2. ASSUME NEW j \in jobs, StartProcess(j) PROVE QueueSound' /\ JobsFirst'
  <2> DEFINE new == Job(j.entry, j.session, "running")
  <2>1. jobs' = (jobs \ {j}) \cup {new} /\ UNCHANGED <<queues, accepted>>
    BY <1>2 DEF StartProcess
  <2>2. new.session = j.session /\ new.entry = j.entry
    BY DEF Job
  <2> HIDE DEF new
  <2>3. QueueSound'
    BY <1>0, <2>1 DEF QueueSound
  <2>4. JobsFirst'
    BY <1>0, <2>1, <2>2 DEF JobsFirst
  <2> QED
    BY <2>3, <2>4
<1>3. ASSUME NEW j \in jobs, Finish(j) PROVE QueueSound' /\ JobsFirst'
  <2> DEFINE s == j.session
             q == queues[s]
             new == Job(Head(q), s, "acquired")
  <2>0. /\ s \in Sessions /\ accepted' = accepted
        /\ \A i \in jobs \ {j} : i.session # s
    BY <1>3, FinishCases
  <2>1. CASE queues[s] = <<>>
    <3>1. queues' = queues /\ jobs' \subseteq jobs
      BY <1>3, <2>1, FinishCases
    <3> QED
      BY <1>0, <2>0, <3>1 DEF QueueSound, JobsFirst
  <2>2. CASE queues[s] # <<>>
    <3>1. queues' = [queues EXCEPT ![s] = Tail(q)] /\ jobs' = (jobs \ {j}) \cup {new}
      BY <1>3, <2>2, FinishCases
    <3>2. /\ q \in Seq(Entries) /\ Head(q) = q[1] /\ Len(q) \in Nat \ {0}
          /\ Len(Tail(q)) = Len(q) - 1
          /\ \A i \in 1..(Len(q) - 1) : Tail(q)[i] = q[i + 1]
      BY <1>7, <2>0, <2>2, HeadTail
    <3>3. new.session = s /\ new.entry = q[1]
      BY <3>2 DEF Job
    <3>4. \A t \in Sessions : queues'[t] = IF t = s THEN Tail(q) ELSE queues[t]
      BY <1>7, <3>1
    <3>5. \A i \in 1..Len(q) :
             /\ q[i] <= Len(accepted) /\ SessionOf[accepted[q[i]]] = s
             /\ \A k \in 1..Len(q) : i < k => q[i] < q[k]
      BY <1>0, <2>0 DEF QueueSound
    <3> HIDE DEF new, q
    <3>6. QueueSound'
      <4> SUFFICES ASSUME NEW t \in Sessions, NEW i \in 1..Len(queues'[t])
                   PROVE  /\ queues'[t][i] <= Len(accepted')
                          /\ SessionOf[accepted'[queues'[t][i]]] = t
                          /\ \A k \in 1..Len(queues'[t]) : i < k => queues'[t][i] < queues'[t][k]
        BY DEF QueueSound
      <4>1. CASE t = s
        <5>1. queues'[t] = Tail(q) /\ i \in 1..(Len(q) - 1)
          BY <3>2, <3>4, <4>1
        <5>2. i + 1 \in 1..Len(q) /\ Tail(q)[i] = q[i + 1]
          BY <3>2, <5>1
        <5>3. ASSUME NEW k \in 1..Len(queues'[t]), i < k
              PROVE  queues'[t][i] < queues'[t][k]
          <6>1. k \in 1..(Len(q) - 1)
            BY <3>2, <5>1
          <6>2. k + 1 \in 1..Len(q) /\ Tail(q)[k] = q[k + 1] /\ i + 1 < k + 1
            BY <3>2, <5>1, <5>3, <6>1
          <6> QED
            BY <3>5, <5>1, <5>2, <6>2
        <5> QED
          BY <2>0, <3>5, <4>1, <5>1, <5>2, <5>3
      <4>2. CASE t # s
        BY <1>0, <2>0, <3>4, <4>2 DEF QueueSound
      <4> QED
        BY <4>1, <4>2
    <3>7. JobsFirst'
      <4> SUFFICES ASSUME NEW i \in jobs'
                   PROVE  /\ i.entry <= Len(accepted')
                          /\ \A k \in 1..Len(queues'[i.session]) : i.entry < queues'[i.session][k]
        BY DEF JobsFirst
      <4>1. CASE i = new
        <5>1. i.session = s /\ i.entry = q[1] /\ 1 \in 1..Len(q)
          BY <3>2, <3>3, <4>1
        <5>2. ASSUME NEW k \in 1..Len(queues'[i.session])
              PROVE  i.entry < queues'[i.session][k]
          <6>1. queues'[i.session] = Tail(q) /\ k \in 1..(Len(q) - 1)
            BY <2>0, <3>2, <3>4, <5>1
          <6>2. k + 1 \in 1..Len(q) /\ 1 < k + 1 /\ Tail(q)[k] = q[k + 1]
            BY <3>2, <6>1
          <6> QED
            BY <3>5, <5>1, <6>1, <6>2
        <5> QED
          BY <2>0, <3>5, <5>1, <5>2
      <4>2. CASE i # new
        <5>1. i \in jobs /\ i.session # s /\ i.session \in Sessions
          BY <1>7, <2>0, <3>1, <4>2
        <5> QED
          BY <1>0, <2>0, <3>4, <5>1 DEF JobsFirst
      <4> QED
        BY <4>1, <4>2
    <3> QED
      BY <3>6, <3>7
  <2> QED
    BY <2>1, <2>2
<1>4. CASE Dispose \/ UNCHANGED vars
  <2>1. UNCHANGED <<queues, accepted, jobs>>
    BY <1>4 DEF Dispose, vars
  <2> QED
    BY <1>0, <2>1 DEF QueueSound, JobsFirst
<1> QED
  BY <1>1, <1>2, <1>3, <1>4 DEF Next

-----------------------------------------------------------------------------
LEMMA RoutingInvStep == RoutingInv /\ [Next]_vars => RoutingInv'
BY TypeStep, ServedStep, OrderStep DEF RoutingInv

\* Every reachable state of the router satisfies the inductive invariant.
THEOREM RoutingInvHolds == Spec => []RoutingInv
BY InitInv, RoutingInvStep, PTL DEF Spec

\* Types: in particular no queue ever exceeds maxSize and the map of ids never
\* its limit.
THEOREM RoutingTypeCorrect == Spec => []TypeOK
<1>1. RoutingInv => TypeOK
  BY DEF RoutingInv
<1> QED
  BY <1>1, RoutingInvHolds, PTL

\* The agent never works on two messages of a conversation at once
\* (message-router.ts: processNext).
THEOREM SessionsSerial == Spec => []SessionSerial
<1>1. RoutingInv => SessionSerial
  BY DEF RoutingInv
<1> QED
  BY <1>1, RoutingInvHolds, PTL

\* No message waits in a session that nobody serves, and no job ever waits for
\* the lane.
THEOREM WakeupsKept == Spec => []NoLostWakeup
<1>1. ASSUME RoutingInv PROVE NoLostWakeup
  <2>1. \A s \in Sessions : JobsOf(s) # {} <=> \E j \in jobs : j.session = s
    BY DEF JobsOf
  <2> QED
    BY <1>1, <2>1 DEF RoutingInv, Served, NoLostWakeup
<1> QED
  BY <1>1, RoutingInvHolds, PTL

\* Messages of a session are handled in the order of their arrival.
THEOREM OrderKept == Spec => []InOrder
<1>1. ASSUME RoutingInv PROVE InOrder
  <2>1. \A s \in Sessions : \A j \in JobsOf(s) : j \in jobs /\ j.session = s
    BY DEF JobsOf
  <2> QED
    BY <1>1, <2>1 DEF RoutingInv, QueueSound, JobsFirst, InOrder
<1> QED
  BY <1>1, RoutingInvHolds, PTL

\* processNext() handles each message of a session in its turn.
THEOREM TurnsHold == Spec => []HandledInTurn
BY SessionsSerial, WakeupsKept, OrderKept, PTL DEF HandledInTurn

-----------------------------------------------------------------------------
\* What Dedupe remembers: the newest of the ids accepted, each once, all of them
\* as long as there is room.
Remembered ==
    /\ \A i, k \in 1..Len(seen) : seen[i] = seen[k] => i = k
    /\ disposals = 0 =>
         /\ Len(seen) <= Len(accepted)
         /\ Len(seen) < DedupeMax => Len(seen) = Len(accepted)
         /\ \A k \in 1..Len(seen) : seen[k] = accepted[Len(accepted) - Len(seen) + k]

DedupeInv == TypeOK /\ Remembered /\ RedeliveryFiltered

\* The ids between two entries are finitely many.
LEMMA IdsBetween ==
    ASSUME NEW q \in Seq(Msgs), NEW a \in Nat \ {0}, NEW b \in Int, b <= Len(q)
    PROVE  IsFiniteSet({q[n] : n \in a..b})
<1> DEFINE T == {q[n] : n \in a..b}
           f == [n \in a..b |-> q[n]]
<1>1. f \in Surjection(a..b, T)
  BY DEF Surjection
<1>2. IsFiniteSet(a..b)
  BY FS_Interval
<1> QED
  BY <1>1, <1>2, FS_Surjection

\* An id that is not remembered was accepted, if at all, before DedupeMax others.
LEMMA ForgottenLongAgo ==
    ASSUME TypeOK, Remembered, disposals = 0, NEW m \in Msgs, ~Registered(m),
           NEW i \in 1..Len(accepted), accepted[i] = m
    PROVE  Cardinality({accepted[n] : n \in (i + 1)..Len(accepted)}) >= DedupeMax
<1> DEFINE last == Len(accepted)
           kept == Len(seen)
           T == {accepted[n] : n \in (i + 1)..last}
           f == [k \in 1..kept |-> seen[k]]
<1>1. last \in Nat /\ kept \in Nat /\ i \in Nat \ {0} /\ kept <= last /\ kept <= DedupeMax
  <2>1. accepted \in Seq(Msgs) /\ seen \in Seq(Msgs) /\ kept <= DedupeMax
    BY DEF TypeOK
  <2>2. kept <= last
    BY DEF Remembered
  <2>3. last \in Nat /\ kept \in Nat /\ i \in Nat \ {0}
    BY <2>1
  <2> QED
    BY <2>1, <2>2, <2>3
<1>2. i <= last - kept
  <2> SUFFICES ASSUME i > last - kept PROVE FALSE
    BY <1>1
  <2> DEFINE k == i - (last - kept)
  <2>1. k \in 1..kept /\ last - kept + k = i
    BY <1>1
  <2>2. seen[k] = accepted[last - kept + k]
    BY <2>1 DEF Remembered
  <2>3. seen[k] = m
    BY <2>1, <2>2
  <2> QED
    BY <2>1, <2>3 DEF Registered
<1>3. kept = DedupeMax
  <2>1. kept < DedupeMax => kept = last
    BY DEF Remembered
  <2> QED
    BY <1>1, <1>2, <2>1
<1>4. f \in Injection(1..kept, T)
  <2>1. \A k \in 1..kept : seen[k] \in T
    <3> TAKE k \in 1..kept
    <3>1. last - kept + k \in (i + 1)..last
      BY <1>1, <1>2
    <3>2. seen[k] = accepted[last - kept + k]
      BY DEF Remembered
    <3> QED
      BY <3>1, <3>2
  <2>2. f \in [1..kept -> T]
    BY <2>1
  <2>3. \A a, b \in 1..kept : f[a] = f[b] => a = b
    BY DEF Remembered
  <2> QED
    BY <2>2, <2>3 DEF Injection, IsInjective
<1>5. IsFiniteSet(T)
  <2>1. accepted \in Seq(Msgs) /\ i + 1 \in Nat \ {0} /\ last \in Int /\ last <= Len(accepted)
    BY <1>1 DEF TypeOK
  <2> QED
    BY <2>1, IdsBetween
<1>6. Cardinality(1..kept) <= Cardinality(T)
  BY <1>4, <1>5, FS_Injection
<1>7. Cardinality(1..kept) = kept
  BY <1>1, <1>3, FS_Interval
<1>8. Cardinality(T) \in Nat
  BY <1>5, FS_CardinalityType
<1> QED
  BY <1>1, <1>3, <1>6, <1>7, <1>8

\* The id is registered last; the oldest one makes room for it.
LEMMA RegisterKeeps ==
    ASSUME seen \in Seq(Msgs), Len(seen) <= DedupeMax, NEW m \in Msgs
    PROVE  \E d \in {0, 1} :
              /\ Len(Register(m)) = Len(seen) - d + 1 /\ Len(seen) - d \in Nat
              /\ d = 1 <=> Len(seen) = DedupeMax
              /\ Register(m)[Len(Register(m))] = m
              /\ \A k \in 1..(Len(seen) - d) : Register(m)[k] = seen[k + d]
<1> DEFINE ids == Append(seen, m)
<1>1. /\ ids \in Seq(Msgs) /\ Len(ids) = Len(seen) + 1 /\ Len(seen) \in Nat
      /\ ids[Len(seen) + 1] = m
      /\ \A k \in 1..Len(seen) : ids[k] = seen[k]
  OBVIOUS
<1>2. CASE Len(ids) > DedupeMax
  <2>1. /\ Len(Tail(ids)) = Len(seen)
        /\ \A k \in 1..Len(seen) : Tail(ids)[k] = ids[k + 1]
    BY <1>1
  <2>2. Register(m) = Tail(ids) /\ Len(seen) = DedupeMax
    BY <1>1, <1>2 DEF Register
  <2> HIDE DEF ids
  <2>3. Len(Register(m)) = Len(seen) - 1 + 1 /\ Len(seen) - 1 \in Nat
    BY <1>1, <2>1, <2>2
  <2>4. Register(m)[Len(Register(m))] = m
    BY <1>1, <2>1, <2>2
  <2>5. \A k \in 1..(Len(seen) - 1) : Register(m)[k] = seen[k + 1]
    BY <1>1, <2>1, <2>2
  <2> QED
    BY <2>2, <2>3, <2>4, <2>5
<1>3. CASE Len(ids) <= DedupeMax
  <2>1. Register(m) = ids /\ Len(seen) # DedupeMax
    BY <1>1, <1>3 DEF Register
  <2> HIDE DEF ids
  <2>2. /\ Len(Register(m)) = Len(seen) - 0 + 1 /\ Len(seen) - 0 \in Nat
        /\ Register(m)[Len(Register(m))] = m
        /\ \A k \in 1..(Len(seen) - 0) : Register(m)[k] = seen[k + 0]
    BY <1>1, <2>1
  <2> QED
    BY <2>1, <2>2
<1> QED
  BY <1>1, <1>2, <1>3

LEMMA DedupeInit == Init => DedupeInv
<1> SUFFICES ASSUME Init PROVE DedupeInv
  OBVIOUS
<1>1. TypeOK
  BY InitInv DEF RoutingInv
<1>2. seen = <<>> /\ accepted = <<>>
  BY DEF Init
<1> QED
  BY <1>1, <1>2 DEF DedupeInv, Remembered, RedeliveryFiltered

LEMMA DedupeStep == DedupeInv /\ RoutingInv /\ [Next]_vars => DedupeInv'
<1> SUFFICES ASSUME DedupeInv, RoutingInv, [Next]_vars PROVE DedupeInv'
  OBVIOUS
<1>0. TypeOK /\ Remembered /\ RedeliveryFiltered /\ TypeOK'
  BY TypeStep DEF DedupeInv
<1>1. ASSUME NEW m \in Msgs, Route(m) PROVE Remembered' /\ RedeliveryFiltered'
  <2> DEFINE last == Len(accepted)
             kept == Len(seen)
  <2>1. /\ last \in Nat /\ kept \in Nat /\ kept <= DedupeMax
        /\ seen \in Seq(Msgs) /\ accepted \in Seq(Msgs)
    BY <1>0 DEF TypeOK
  <2>2. /\ accepted' = Append(accepted, m) /\ seen' = Register(m) /\ ~Registered(m)
        /\ disposals' = disposals
    BY <1>1 DEF Route
  <2>3. /\ accepted' \in Seq(Msgs) /\ Len(accepted') = last + 1 /\ accepted'[last + 1] = m
        /\ \A i \in 1..last : accepted'[i] = accepted[i]
    BY <2>1, <2>2
  <2>4. PICK d \in {0, 1} :
           /\ Len(seen') = kept - d + 1 /\ kept - d \in Nat
           /\ d = 1 <=> kept = DedupeMax
           /\ seen'[Len(seen')] = m
           /\ \A k \in 1..(kept - d) : seen'[k] = seen[k + d]
    BY <2>1, <2>2, RegisterKeeps
  <2>5. \A k \in 1..kept : seen[k] # m
    BY <2>2 DEF Registered
  <2>6. Remembered'
    <3>1. \A i, k \in 1..Len(seen') : seen'[i] = seen'[k] => i = k
      <4>0. d \in Nat
        OBVIOUS
      <4>1. \A i \in 1..(kept - d) : i + d \in 1..kept /\ seen'[i] = seen[i + d] /\ seen'[i] # m
        BY <2>1, <2>4, <2>5, <4>0
      <4>2. \A i, k \in 1..(kept - d) : seen'[i] = seen'[k] => i = k
        <5> TAKE i, k \in 1..(kept - d)
        <5>1. seen[i + d] = seen[k + d] => i + d = k + d
          BY <1>0, <4>1 DEF Remembered
        <5>2. i \in Int /\ k \in Int
          OBVIOUS
        <5>3. seen'[i] = seen[i + d] /\ seen'[k] = seen[k + d]
          BY <4>1
        <5> QED
          BY <4>0, <5>1, <5>2, <5>3
      <4>3. \A i \in 1..Len(seen') : i \in 1..(kept - d) \/ i = Len(seen')
        BY <2>4
      <4> QED
        BY <2>4, <4>1, <4>2, <4>3
    <3>2. ASSUME disposals' = 0
          PROVE  /\ Len(seen') <= Len(accepted')
                 /\ Len(seen') < DedupeMax => Len(seen') = Len(accepted')
                 /\ \A k \in 1..Len(seen') :
                       seen'[k] = accepted'[Len(accepted') - Len(seen') + k]
      <4>1. /\ kept <= last /\ (kept < DedupeMax => kept = last)
            /\ \A k \in 1..kept : seen[k] = accepted[last - kept + k]
        BY <1>0, <2>2, <3>2 DEF Remembered
      <4>2. Len(seen') <= Len(accepted') /\ (Len(seen') < DedupeMax => Len(seen') = Len(accepted'))
        BY <2>1, <2>3, <2>4, <4>1
      <4>3. ASSUME NEW k \in 1..Len(seen')
            PROVE  seen'[k] = accepted'[Len(accepted') - Len(seen') + k]
        <5>1. CASE k = Len(seen')
          <6>1. Len(accepted') - Len(seen') + k = last + 1
            BY <2>1, <2>3, <2>4, <5>1
          <6> QED
            BY <2>3, <2>4, <5>1, <6>1
        <5>2. CASE k # Len(seen')
          <6>1. k \in 1..(kept - d) /\ k + d \in 1..kept
            BY <2>1, <2>4, <5>2
          <6>2. /\ last - kept + (k + d) = Len(accepted') - Len(seen') + k
                /\ last - kept + (k + d) \in 1..last
            BY <2>1, <2>3, <2>4, <4>1, <6>1
          <6>3. seen'[k] = accepted[last - kept + (k + d)]
            BY <2>4, <4>1, <6>1
          <6> QED
            BY <2>3, <6>2, <6>3
        <5> QED
          BY <5>1, <5>2
      <4> QED
        BY <4>2, <4>3
    <3> QED
      BY <3>1, <3>2 DEF Remembered
  <2>7. RedeliveryFiltered'
    <3> SUFFICES ASSUME disposals' = 0,
                        NEW i \in 1..Len(accepted'), NEW j \in 1..Len(accepted'),
                        i < j, accepted'[i] = accepted'[j]
                 PROVE  Cardinality({accepted'[n] : n \in (i + 1)..(j - 1)}) >= DedupeMax
      BY DEF RedeliveryFiltered
    <3>1. \A n \in (i + 1)..(j - 1) : n \in 1..last
      BY <2>1, <2>3
    <3>2. {accepted'[n] : n \in (i + 1)..(j - 1)} = {accepted[n] : n \in (i + 1)..(j - 1)}
      BY <2>3, <3>1
    <3>3. i \in 1..last /\ disposals = 0
      BY <2>1, <2>2, <2>3
    <3>4. CASE j \in 1..last
      BY <1>0, <2>3, <3>2, <3>3, <3>4 DEF RedeliveryFiltered
    <3>5. CASE j = last + 1
      <4>1. accepted[i] = m /\ (i + 1)..(j - 1) = (i + 1)..last
        BY <2>1, <2>3, <3>3, <3>5
      <4> QED
        BY <1>0, <2>2, <3>2, <3>3, <4>1, ForgottenLongAgo
    <3> QED
      BY <2>3, <3>4, <3>5
  <2> QED
    BY <2>6, <2>7
<1>2. ASSUME UNCHANGED <<seen, accepted, disposals>>
      PROVE  Remembered' /\ RedeliveryFiltered'
  <2>1. seen' = seen /\ accepted' = accepted /\ disposals' = disposals
    BY <1>2
  <2>2. Remembered'
    BY <1>0, <2>1 DEF Remembered
  <2>3. \A i, j \in Int : {accepted'[n] : n \in (i + 1)..(j - 1)}
                            = {accepted[n] : n \in (i + 1)..(j - 1)}
    BY <2>1
  <2>4. RedeliveryFiltered'
    BY <1>0, <2>1, <2>3 DEF RedeliveryFiltered
  <2> QED
    BY <2>2, <2>4
<1>3. ASSUME NEW j \in jobs, StartProcess(j) \/ Finish(j)
      PROVE  UNCHANGED <<seen, accepted, disposals>>
  BY <1>3 DEF StartProcess, Finish
<1>4. CASE Dispose
  <2>1. seen' = <<>> /\ disposals' # 0
    <3>1. disposals' = disposals + 1 /\ seen' = <<>> /\ disposals \in Nat
      BY <1>0, <1>4 DEF Dispose, TypeOK
    <3> QED
      BY <3>1
  <2>2. Remembered'
    BY <2>1 DEF Remembered
  <2> QED
    BY <1>0, <2>1, <2>2 DEF DedupeInv, RedeliveryFiltered
<1>5. CASE UNCHANGED vars
  BY <1>0, <1>2, <1>5 DEF vars, DedupeInv
<1> QED
  BY <1>0, <1>1, <1>2, <1>3, <1>4, <1>5 DEF Next, DedupeInv

\* A message that a channel delivers again is handled a second time only after
\* DedupeMax other ids were accepted in between, for any size of the cache.
THEOREM RedeliveriesFiltered == Spec => []RedeliveryFiltered
<1>1. DedupeInv => RedeliveryFiltered
  BY DEF DedupeInv
<1> QED
  BY <1>1, DedupeInit, DedupeStep, RoutingInvHolds, PTL DEF Spec
=============================================================================
