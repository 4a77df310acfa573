---------------------------- MODULE ServicesProofs ----------------------------
(***************************************************************************)
(* Safety of the HTTP requests that the gateway serves (Traffic), for any  *)
(* callers, limits and bodies, of the plugins that it loads at its start   *)
(* (Plugins), for any directories, of the tables of the web page (Pages),  *)
(* for any rows and any traffic, and of services around the gateway for    *)
(* any processes, requests and limits: lock files (FileLocks), health      *)
(* checks (Readiness), the watcher of the prompt file (HotReload), the     *)
(* keys of a provider (KeyRotator), key profiles (Profiles), hooks (Hooks) *)
(* and the choice of memories for a turn (Recall).  None of them shares    *)
(* state with another, and each of the services is an instance of its own. *)
(***************************************************************************)
EXTENDS Traffic, Plugins, Pages, FiniteSetTheorems, SequenceTheorems, WellFoundedInduction, TLAPS

-----------------------------------------------------------------------------
(* HTTP requests and their limits.                                         *)

\* Who waits for whom is no matter here: a step of a request, or of the timers.
LEMMA TrafficSteps ==
    ASSUME Next
    PROVE  \/ Cleanup \/ Tick
           \/ Drain
           \/ \E r \in Requests, ip \in Callers : Arrives(r, ip)
           \/ \E r \in Requests : Fails(r)
           \/ \E r \in Requests, batch \in Bodies, level \in Granted : Calling(r, batch, level)
           \/ \E r \in Requests :
                /\ UNCHANGED limits
                /\ \/ Preflight(r) \/ \E ip \in Callers : Turned(r, ip) \/ Alive(r, ip)
                   \/ BadBody(r) \/ Refused(r) \/ Answered(r) \/ Over(r)
                   \/ \E i \in 1..MaxBatch : Returns(r, i)
  BY DEF Next, Serving, Preflight, Turned, Alive, BadBody, Refused, Answered, AnsweredEarly, Over, Returns

-----------------------------------------------------------------------------
Instants == [0..Window -> Nat]

\* What has left the window makes no difference later either.
LEMMA Windows ==
    ASSUME TrafficAssumption
    PROVE  /\ None \in Instants /\ NoKey \notin Instants /\ Young(None) = None
           /\ \A a \in Instants : /\ Young(a) \in Instants /\ WithOne(Young(a)) \in Instants /\ Aged(a) \in Instants
                                  /\ Young(Young(a)) = Young(a)
           /\ \A a, b \in Instants : Young(a) = Young(b) => Young(Aged(a)) = Young(Aged(b))
           /\ Young(Aged(None)) = None
<1>1. Window \in Nat \ {0}
  BY DEF TrafficAssumption
<1>2. None \in Instants /\ Young(None) = None
  BY <1>1 DEF None, Instants, Young
<1>3. NoKey \notin Instants
  <2>1. DOMAIN NoKey = {} /\ 0 \in 0..Window
    BY <1>1 DEF NoKey
  <2> QED
    BY <2>1 DEF Instants
<1>4. ASSUME NEW a \in Instants
      PROVE  /\ Young(a) \in Instants /\ WithOne(Young(a)) \in Instants /\ Aged(a) \in Instants
             /\ Young(Young(a)) = Young(a)
  <2>1. Young(a) \in Instants /\ Young(Young(a)) = Young(a)
    BY <1>1 DEF Instants, Young
  <2>2. WithOne(Young(a)) \in Instants
    BY <1>1, <2>1 DEF Instants, WithOne
  <2>3. Aged(a) \in Instants
    BY <1>1 DEF Instants, Aged
  <2> QED
    BY <2>1, <2>2, <2>3
<1>5. ASSUME NEW a \in Instants, NEW b \in Instants, Young(a) = Young(b)
      PROVE  Young(Aged(a)) = Young(Aged(b))
  <2>1. \A n \in 0..Window : n < Window => a[n] = b[n]
    <3> SUFFICES ASSUME NEW n \in 0..Window, n < Window
                 PROVE  a[n] = b[n]
      OBVIOUS
    <3>1. Young(a)[n] = a[n] /\ Young(b)[n] = b[n]
      BY <1>1 DEF Instants, Young
    <3> QED
      BY <1>5, <3>1
  <2>2. \A n \in 0..Window : Young(Aged(a))[n] = Young(Aged(b))[n]
    BY <1>1, <1>4, <2>1 DEF Instants, Young, Aged
  <2>3. Young(Aged(a)) \in Instants /\ Young(Aged(b)) \in Instants
    BY <1>4
  <2>4. ASSUME NEW f \in Instants, NEW g \in Instants, \A n \in 0..Window : f[n] = g[n]
        PROVE  f = g
    <3>1. f = [n \in 0..Window |-> f[n]] /\ g = [n \in 0..Window |-> g[n]]
      BY Zenon DEF Instants
    <3>2. [n \in 0..Window |-> f[n]] = [n \in 0..Window |-> g[n]]
      BY <2>4
    <3> QED
      BY <3>1, <3>2
  <2> QED
    BY <2>2, <2>3, <2>4
<1>6. Young(Aged(None)) = None
  BY <1>1 DEF None, Young, Aged
<1> QED
  BY <1>2, <1>3, <1>4, <1>5, <1>6

-----------------------------------------------------------------------------
\* The limiter has of each caller what its requests left, as far as it matters.
QuotaTypes == /\ windows \in [Callers -> Instants \cup {NoKey}]
              /\ passed \in [Callers -> Instants]
Tallied == \A c \in Callers : Young(passed[c]) = IF windows[c] = NoKey THEN None ELSE Young(windows[c])
QuotaInv == QuotaTypes /\ Tallied

LEMMA QuotaArrives ==
    ASSUME TrafficAssumption, QuotaInv, NEW r \in Requests, NEW ip \in Callers, Arrives(r, ip)
    PROVE  QuotaInv'
<1> DEFINE w == WithKey(ip)[ip]
<1>1. w \in Instants /\ Young(w) = Young(passed[ip])
  BY Windows DEF QuotaInv, QuotaTypes, Tallied, WithKey
<1>2. /\ windows' \in [Callers -> Instants \cup {NoKey}]
      /\ windows'[ip] = IF Allowed(ip) THEN WithOne(Young(w)) ELSE Young(w)
      /\ \A c \in Callers \ {ip} : windows'[c] = IF c \in Evicted(ip) THEN NoKey ELSE windows[c]
  <2>1. WithKey(ip) \in [Callers -> Instants \cup {NoKey}]
    BY Windows DEF QuotaInv, QuotaTypes, WithKey
  <2>2. windows' = [WithKey(ip) EXCEPT ![ip] = IF Allowed(ip) THEN WithOne(Young(w)) ELSE Young(w)]
    BY DEF Arrives, Check
  <2>3. (IF Allowed(ip) THEN WithOne(Young(w)) ELSE Young(w)) \in Instants
    BY <1>1, Windows
  <2>4. \A c \in Callers \ {ip} : WithKey(ip)[c] = IF c \in Evicted(ip) THEN NoKey ELSE windows[c]
    BY DEF WithKey
  <2> HIDE DEF w
  <2> QED
    BY <2>1, <2>2, <2>3, <2>4
<1>3. /\ passed' \in [Callers -> Instants]
      /\ passed'[ip] = IF Allowed(ip) THEN WithOne(Young(passed[ip])) ELSE passed[ip]
      /\ \A c \in Callers \ {ip} : passed'[c] = IF c \in Evicted(ip) THEN None ELSE passed[c]
  BY Windows DEF QuotaInv, QuotaTypes, Arrives, Admit
<1> HIDE DEF w
<1>4. ASSUME NEW c \in Callers
      PROVE  Young(passed'[c]) = IF windows'[c] = NoKey THEN None ELSE Young(windows'[c])
  <2>1. CASE c = ip
    <3>1. windows'[ip] \in Instants
      BY <1>1, <1>2, Windows
    <3>2. Young(passed'[ip]) = Young(windows'[ip])
      BY <1>1, <1>2, <1>3, Windows
    <3> QED
      BY <2>1, <3>1, <3>2, Windows
  <2>2. CASE c # ip
    BY <1>2, <1>3, <2>2, Windows DEF QuotaInv, Tallied
  <2> QED
    BY <2>1, <2>2
<1> QED
  BY <1>2, <1>3, <1>4 DEF QuotaInv, QuotaTypes, Tallied

LEMMA QuotaStep ==
    ASSUME TrafficAssumption, QuotaInv, [Next]_vars
    PROVE  QuotaInv'
<1>1. CASE Cleanup
  <2>1. /\ windows' = [c \in Callers |-> IF windows[c] = NoKey \/ Young(windows[c]) = None THEN NoKey
                                         ELSE Young(windows[c])]
        /\ passed' = [c \in Callers |-> Young(passed[c])]
    BY <1>1 DEF Cleanup
  <2>2. QuotaTypes'
    BY <2>1, Windows DEF QuotaInv, QuotaTypes
  <2>3. ASSUME NEW c \in Callers
        PROVE  Young(passed'[c]) = IF windows'[c] = NoKey THEN None ELSE Young(windows'[c])
    <3>1. Young(passed'[c]) = Young(passed[c])
      BY <2>1, Windows DEF QuotaInv, QuotaTypes
    <3>2. CASE windows[c] = NoKey \/ Young(windows[c]) = None
      BY <2>1, <3>1, <3>2 DEF QuotaInv, Tallied
    <3>3. CASE windows[c] # NoKey /\ Young(windows[c]) # None
      <4>1. windows[c] \in Instants /\ windows'[c] = Young(windows[c])
        BY <2>1, <3>3 DEF QuotaInv, QuotaTypes
      <4> QED
        BY <3>1, <3>3, <4>1, Windows DEF QuotaInv, Tallied
    <3> QED
      BY <3>2, <3>3
  <2> QED
    BY <2>2, <2>3 DEF QuotaInv, Tallied
<1>2. CASE Tick
  <2>1. /\ windows' = [c \in Callers |-> IF windows[c] = NoKey THEN NoKey ELSE Aged(windows[c])]
        /\ passed' = [c \in Callers |-> Aged(passed[c])]
    BY <1>2 DEF Tick
  <2>2. QuotaTypes'
    BY <2>1, Windows DEF QuotaInv, QuotaTypes
  <2>3. ASSUME NEW c \in Callers
        PROVE  Young(passed'[c]) = IF windows'[c] = NoKey THEN None ELSE Young(windows'[c])
    <3>1. passed[c] \in Instants /\ passed'[c] = Aged(passed[c])
      BY <2>1 DEF QuotaInv, QuotaTypes
    <3>2. CASE windows[c] = NoKey
      BY <2>1, <3>1, <3>2, Windows DEF QuotaInv, Tallied
    <3>3. CASE windows[c] # NoKey
      <4>1. windows[c] \in Instants /\ windows'[c] = Aged(windows[c]) /\ Aged(windows[c]) \in Instants
        BY <2>1, <3>3, Windows DEF QuotaInv, QuotaTypes
      <4> QED
        BY <3>1, <3>3, <4>1, Windows DEF QuotaInv, Tallied
    <3> QED
      BY <3>2, <3>3
  <2> QED
    BY <2>2, <2>3 DEF QuotaInv, Tallied
<1>3. CASE windows' = windows /\ passed' = passed
  BY <1>3 DEF QuotaInv, QuotaTypes, Tallied
<1> QED
  BY <1>1, <1>2, <1>3, QuotaArrives, TrafficSteps DEF vars, limits, Drain, Fails, Calling

\* A caller is refused for what was admitted in the window, and for nothing else.
LEMMA QuotaFollows ==
    ASSUME TrafficAssumption, QuotaInv
    PROVE  QuotaExact
<1> SUFFICES ASSUME NEW ip \in Callers
             PROVE  Allowed(ip) <=> Count(passed[ip]) < MaxRequests
  BY DEF QuotaExact
<1>1. Young(WithKey(ip)[ip]) = Young(passed[ip])
  BY Windows DEF QuotaInv, QuotaTypes, Tallied, WithKey
<1> QED
  BY <1>1 DEF Allowed, Count

-----------------------------------------------------------------------------
Outcomes == {"running", "error", "result"}
Statuses == {"none", "200", "204", "400", "401", "404", "429", "500", "503"}
Works == Seq(Outcomes)
Phases == {"none", "body", "running", "answered"}
RequestRows == [phase : Phases, ip : Callers \cup {""}, work : Works, answer : Statuses]

\* Nothing runs before the calls are known, nor once all is answered.
Whole(q) == /\ q.phase \in {"none", "body"} => q.work = <<>>
            /\ q.phase = "body" => q.ip \in Callers
            /\ q.phase = "answered" /\ q.answer = "200" => \A i \in DOMAIN q.work : q.work[i] # "running"
WholeInv == req \in [Requests -> RequestRows] /\ \A r \in Requests : Whole(req[r])

LEMMA NoWork == <<>> \in Works /\ DOMAIN <<>> = {}
  BY DEF Works

LEMMA IdleRow == Idle \in RequestRows /\ Whole(Idle)
  BY NoWork DEF Idle, RequestRows, Phases, Statuses, Whole

\* A request that changes is still one.
LEMMA RowMoves ==
    ASSUME NEW q \in RequestRows, NEW phase \in Phases, NEW ip \in Callers \cup {""}
    PROVE  LET z == [q EXCEPT !.phase = phase, !.ip = ip] IN
           z \in RequestRows /\ z.phase = phase /\ z.ip = ip /\ z.work = q.work /\ z.answer = q.answer
  BY DEF RequestRows

LEMMA RowEnds ==
    ASSUME NEW q \in RequestRows, NEW answer \in Statuses
    PROVE  LET z == [q EXCEPT !.phase = "answered", !.ip = "", !.answer = answer] IN
           z \in RequestRows /\ z.phase = "answered" /\ z.work = q.work /\ z.answer = answer
  BY DEF RequestRows, Phases

LEMMA RowWorks ==
    ASSUME NEW q \in RequestRows, NEW work \in Works
    PROVE  LET z == [q EXCEPT !.work = work] IN
           z \in RequestRows /\ z.phase = q.phase /\ z.ip = q.ip /\ z.work = work /\ z.answer = q.answer
  BY DEF RequestRows

LEMMA Served ==
    ASSUME WholeInv, NEW r \in Requests, NEW q \in RequestRows, Whole(q), Serve(r, q)
    PROVE  WholeInv'
<1>1. req' = [req EXCEPT ![r] = q] /\ req \in [Requests -> RequestRows]
  BY DEF WholeInv, Serve
<1>2. req' \in [Requests -> RequestRows]
  BY <1>1
<1>3. \A s \in Requests : req'[s] = IF s = r THEN q ELSE req[s]
  BY <1>1
<1> QED
  BY <1>2, <1>3 DEF WholeInv

\* A request that is answered before any call of it runs.
LEMMA AnsweredAtOnce ==
    ASSUME NEW answer \in Statuses
    PROVE  LET q == [Idle EXCEPT !.phase = "answered", !.answer = answer] IN q \in RequestRows /\ Whole(q)
<1> DEFINE q == [Idle EXCEPT !.phase = "answered", !.answer = answer]
<1>1. q \in RequestRows /\ q.phase = "answered" /\ q.work = <<>>
  <2>1. Idle \in RequestRows /\ Idle.work = <<>>
    BY IdleRow DEF Idle
  <2> QED
    BY <2>1 DEF RequestRows, Phases
<1> QED
  BY <1>1, NoWork DEF Whole

LEMMA Finished ==
    ASSUME WholeInv, NEW r \in Requests, NEW answer \in Statuses,
           \A i \in DOMAIN req[r].work : req[r].work[i] # "running"
    PROVE  Finish(r, answer) \in RequestRows /\ Whole(Finish(r, answer))
<1>1. req[r] \in RequestRows
  BY DEF WholeInv
<1>2. LET z == Finish(r, answer) IN
      z \in RequestRows /\ z.phase = "answered" /\ z.work = req[r].work /\ z.answer = answer
  BY <1>1, RowEnds DEF Finish
<1> QED
  BY <1>2 DEF Whole

LEMMA Dispatched ==
    ASSUME TrafficAssumption, WholeInv, NEW r \in Requests, req[r].phase = "body",
           NEW batch \in Bodies, NEW level \in Granted
    PROVE  Dispatch(r, batch, level) \in RequestRows /\ Whole(Dispatch(r, batch, level))
<1> DEFINE work == [i \in DOMAIN batch |-> IF batch[i] = "null" THEN "error" ELSE Verdict(batch[i], level)]
           q == [req[r] EXCEPT !.work = work]
           d == Dispatch(r, batch, level)
<1>1. req[r] \in RequestRows /\ req[r].work = <<>>
  BY DEF WholeInv, Whole
<1>2. batch \in Seq(Calls)
  BY DEF TrafficAssumption
<1>3. \A call \in Calls : Verdict(call, level) \in {"error", "running"}
  BY DEF Verdict
<1>4. work \in Works
  <2>1. DOMAIN batch = 1..Len(batch) /\ Len(batch) \in Nat
    BY <1>2
  <2>2. \A i \in 1..Len(batch) : work[i] \in Outcomes
    BY <1>2, <1>3, <2>1 DEF Outcomes
  <2>3. work \in [1..Len(batch) -> Outcomes]
    BY <2>1, <2>2
  <2> QED
    BY <2>1, <2>3 DEF Works
<1>5. CASE batch = <<>> \/ Len(batch) > MaxBatch
  <2>1. d = Finish(r, "200")
    BY <1>5 DEF Dispatch
  <2> HIDE DEF d
  <2>2. \A i \in DOMAIN req[r].work : req[r].work[i] # "running"
    BY <1>1, NoWork
  <2> QED
    BY <2>1, <2>2, Finished DEF Statuses, d
<1>6. CASE ~(batch = <<>> \/ Len(batch) > MaxBatch) /\ \E i \in DOMAIN batch : batch[i] = "null"
  <2>1. d = [q EXCEPT !.phase = "answered", !.ip = "", !.answer = "500"]
    BY <1>6 DEF Dispatch
  <2> HIDE DEF q, d, work
  <2>2. q \in RequestRows
    BY <1>1, <1>4, RowWorks DEF q
  <2>3. d \in RequestRows /\ d.phase = "answered" /\ d.answer = "500"
    BY <2>1, <2>2, RowEnds DEF Statuses
  <2>4. Whole(d)
    BY <2>3 DEF Whole
  <2> QED
    BY <2>3, <2>4 DEF d
<1>7. CASE ~(batch = <<>> \/ Len(batch) > MaxBatch) /\ ~\E i \in DOMAIN batch : batch[i] = "null"
  <2>1. d = [q EXCEPT !.phase = "running", !.ip = ""]
    BY <1>7 DEF Dispatch
  <2> HIDE DEF q, d, work
  <2>2. q \in RequestRows
    BY <1>1, <1>4, RowWorks DEF q
  <2>3. d \in RequestRows /\ d.phase = "running"
    BY <2>1, <2>2, RowMoves DEF Phases
  <2>4. Whole(d)
    BY <2>3 DEF Whole
  <2> QED
    BY <2>3, <2>4 DEF d
<1> QED
  BY <1>5, <1>6, <1>7

LEMMA WholeStep ==
    ASSUME TrafficAssumption, WholeInv, [Next]_vars
    PROVE  WholeInv'
<1>1. ASSUME NEW r \in Requests, NEW ip \in Callers, Arrives(r, ip)
      PROVE  WholeInv'
  <2> DEFINE q == [Idle EXCEPT !.phase = "body", !.ip = ip]
  <2>1. q \in RequestRows /\ q.phase = "body" /\ q.ip = ip /\ q.work = Idle.work
    BY IdleRow DEF RequestRows, Phases
  <2>2. Whole(q)
    BY <2>1 DEF Whole, Idle
  <2>3. LET z == [Idle EXCEPT !.phase = "answered", !.answer = "429"] IN z \in RequestRows /\ Whole(z)
    BY AnsweredAtOnce DEF Statuses
  <2>4. CASE Allowed(ip)
    <3>1. Serve(r, q)
      BY <1>1, <2>4 DEF Arrives
    <3> QED
      BY <2>1, <2>2, <3>1, Served
  <2>5. CASE ~Allowed(ip)
    <3>1. Serve(r, [Idle EXCEPT !.phase = "answered", !.answer = "429"])
      BY <1>1, <2>5 DEF Arrives
    <3> QED
      BY <2>3, <3>1, Served
  <2> QED
    BY <2>4, <2>5
<1>2. ASSUME NEW r \in Requests,
             Preflight(r) \/ \E ip \in Callers : Turned(r, ip) \/ Alive(r, ip)
      PROVE  WholeInv'
  <2>1. PICK answer \in Statuses : Serve(r, [Idle EXCEPT !.phase = "answered", !.answer = answer])
    BY <1>2 DEF Preflight, Turned, Alive, Statuses
  <2> QED
    BY <2>1, AnsweredAtOnce, Served
<1>3. ASSUME NEW r \in Requests, BadBody(r) \/ Refused(r) \/ Fails(r)
      PROVE  WholeInv'
  <2>1. req[r].work = <<>> /\ \E answer \in Statuses : Serve(r, Finish(r, answer))
    BY <1>3 DEF WholeInv, Whole, BadBody, Refused, Fails, Statuses
  <2>2. \A i \in DOMAIN req[r].work : req[r].work[i] # "running"
    BY <2>1, NoWork
  <2> QED
    BY <2>1, <2>2, Finished, Served
<1>4. ASSUME NEW r \in Requests, NEW batch \in Bodies, NEW level \in Granted, Calling(r, batch, level)
      PROVE  WholeInv'
  BY <1>4, Dispatched, Served DEF Calling
<1>5. ASSUME NEW r \in Requests, NEW i \in 1..MaxBatch, Returns(r, i)
      PROVE  WholeInv'
  <2>1. PICK outcome \in {"result", "error"} : Serve(r, [req[r] EXCEPT !.work[i] = outcome])
    BY <1>5 DEF Returns
  <2> DEFINE w == [req[r].work EXCEPT ![i] = outcome]
             q == [req[r] EXCEPT !.work = w]
  <2>2. req[r] \in RequestRows /\ Whole(req[r]) /\ i \in DOMAIN req[r].work
    BY <1>5 DEF WholeInv, Returns
  <2>3. w \in Works /\ DOMAIN w = DOMAIN req[r].work
        /\ \A j \in DOMAIN w : w[j] = IF j = i THEN outcome ELSE req[r].work[j]
    <3>1. req[r].work \in Works
      BY <2>2 DEF RequestRows
    <3>2. DOMAIN req[r].work = 1..Len(req[r].work) /\ Len(req[r].work) \in Nat
          /\ req[r].work \in [1..Len(req[r].work) -> Outcomes]
      BY <3>1 DEF Works
    <3>3. w \in [1..Len(req[r].work) -> Outcomes]
      BY <3>2 DEF Outcomes
    <3> QED
      BY <3>2, <3>3 DEF Works
  <2>4. Serve(r, q)
    BY <2>1
  <2> HIDE DEF w
  <2>5. q \in RequestRows /\ q.phase = req[r].phase /\ q.work = w /\ q.answer = req[r].answer
    BY <2>2, <2>3, RowWorks
  <2> HIDE DEF q
  <2>6. Whole(q)
    <3>1. q.phase \notin {"none", "body"}
      BY <2>2, <2>5, NoWork DEF Whole
    <3>2. ASSUME q.phase = "answered" /\ q.answer = "200", NEW j \in DOMAIN q.work
          PROVE  q.work[j] # "running"
      BY <2>1, <2>2, <2>3, <2>5, <3>2 DEF Whole
    <3> QED
      BY <3>1, <3>2 DEF Whole
  <2> QED
    BY <2>4, <2>5, <2>6, Served
<1>6. ASSUME NEW r \in Requests, Answered(r)
      PROVE  WholeInv'
  BY <1>6, Finished, Served DEF Answered, AnsweredEarly, Statuses
<1>7. ASSUME NEW r \in Requests, Over(r)
      PROVE  WholeInv'
  BY <1>7, IdleRow, Served DEF Over
<1>8. CASE req' = req
  BY <1>8 DEF WholeInv
<1> QED
  BY <1>1, <1>2, <1>3, <1>4, <1>5, <1>6, <1>7, <1>8, TrafficSteps DEF vars, Cleanup, Tick, Drain

\* A batch that was answered is whole.
LEMMA WholeFollows ==
    ASSUME WholeInv
    PROVE  AnswersWhole
<1> SUFFICES ASSUME NEW r \in Requests, req[r].phase = "answered", req[r].answer = "200",
                    NEW i \in DOMAIN req[r].work
             PROVE  req[r].work[i] \in {"result", "error"}
  BY DEF AnswersWhole
<1>1. req[r] \in RequestRows /\ req[r].work[i] # "running"
  BY DEF WholeInv, Whole
<1>2. req[r].work \in Works
  BY <1>1 DEF RequestRows
<1>3. req[r].work[i] \in Outcomes
  BY <1>2 DEF Works
<1> QED
  BY <1>1, <1>3 DEF Outcomes

-----------------------------------------------------------------------------
\* The failures of an address from the latest on, and what its entry has of them.
Ago(f, k) == f[Len(f) + 1 - k]

Ages == 0..AgeMax

\* The time that n failures take at most, each soon after the one before.
Span(n) == (n - 1) * FailWindow
Entries == [failures : 0..MaxFailures, age : 0..FailWindow + 1, block : 0..BlockTime]

Counted(e, f) ==
    LET n == e.failures IN
    /\ n = 0 => e = NoEntry /\ Len(f) = 0
    /\ n <= Len(f) /\ Len(f) <= MaxFailures
    /\ n > 0 => /\ e.age = IF Ago(f, 1) > FailWindow THEN FailWindow + 1 ELSE Ago(f, 1)
                /\ Ago(f, n) <= Ago(f, 1) + Span(n)
    /\ e.block = IF n = MaxFailures /\ Ago(f, 1) < BlockTime THEN BlockTime - Ago(f, 1) ELSE 0
    /\ \A k \in 1..n - 1 : Ago(f, k + 1) - Ago(f, k) <= FailWindow
    /\ n > 0 /\ n < Len(f) => Ago(f, n + 1) - Ago(f, n) > FailWindow \/ Ago(f, n + 1) = AgeMax

LEMMA AgeNumbers ==
    ASSUME TrafficAssumption
    PROVE  /\ MaxFailures \in Nat /\ MaxFailures > 1 /\ FailWindow \in Nat /\ BlockTime \in Nat \ {0}
           /\ AgeMax \in Nat /\ AgeMax > FailWindow /\ AgeMax >= BlockTime
<1>1. MaxFailures \in Nat /\ MaxFailures > 1 /\ FailWindow \in Nat /\ BlockTime \in Nat \ {0}
  BY DEF TrafficAssumption
<1>2. AgeMax = (MaxFailures - 1) * (FailWindow + 1) + (FailWindow + 1) + BlockTime
  BY <1>1 DEF AgeMax
<1>3. (MaxFailures - 1) * (FailWindow + 1) \in Nat
  BY <1>1
<1> QED
  BY <1>1, <1>2, <1>3

\* AgeMax is out of reach of as many failures, each soon after the one before.
LEMMA Spans ==
    ASSUME TrafficAssumption
    PROVE  /\ Span(1) = 0
           /\ \A n \in 1..MaxFailures : Span(n) \in Nat /\ Span(n + 1) = Span(n) + FailWindow
           /\ \A n \in 1..MaxFailures : Span(n) + FailWindow + BlockTime < AgeMax
<1>1. MaxFailures \in Nat /\ MaxFailures > 1 /\ FailWindow \in Nat /\ BlockTime \in Nat \ {0}
  BY AgeNumbers
<1>2. Span(1) = 0
  BY <1>1 DEF Span
<1>3. ASSUME NEW n \in 1..MaxFailures
      PROVE  /\ Span(n) \in Nat /\ Span(n + 1) = Span(n) + FailWindow
             /\ Span(n) + FailWindow + BlockTime < AgeMax
  <2>1. Span(n) \in Nat /\ Span(n + 1) = Span(n) + FailWindow
    BY <1>1 DEF Span
  <2>2. (MaxFailures - n) * FailWindow \in Nat
    BY <1>1
  <2>3. AgeMax = (MaxFailures - n) * FailWindow + Span(n) + FailWindow + MaxFailures + BlockTime
    BY <1>1 DEF AgeMax, Span
  <2> QED
    BY <1>1, <2>1, <2>2, <2>3
<1> QED
  BY <1>2, <1>3

LEMMA AgoTyped ==
    ASSUME NEW f \in Seq(Ages), NEW k \in 1..Len(f)
    PROVE  Ago(f, k) \in Ages
  BY DEF Ago

LEMMA KeptAgo ==
    ASSUME TrafficAssumption, NEW f \in Seq(Ages), Len(f) <= MaxFailures
    PROVE  LET g == Kept(Append(f, 0)) IN
           /\ g \in Seq(Ages) /\ Len(g) = IF Len(f) = MaxFailures THEN MaxFailures ELSE Len(f) + 1
           /\ Ago(g, 1) = 0 /\ \A k \in 1..Len(g) - 1 : Ago(g, k + 1) = Ago(f, k)
<1>1. Len(f) \in Nat /\ 0 \in Ages /\ MaxFailures \in Nat \ {0}
  BY AgeNumbers DEF Ages
<1> DEFINE h == Append(f, 0)
<1>2. h \in Seq(Ages) /\ Len(h) = Len(f) + 1 /\ h[Len(f) + 1] = 0 /\ \A i \in 1..Len(f) : h[i] = f[i]
  BY <1>1
<1> HIDE DEF h
<1>3. CASE Len(f) = MaxFailures
  <2>1. Kept(h) = Tail(h)
    BY <1>1, <1>2, <1>3 DEF Kept
  <2>2. Tail(h) \in Seq(Ages) /\ Len(Tail(h)) = Len(f) /\ \A i \in 1..Len(f) : Tail(h)[i] = h[i + 1]
    BY <1>1, <1>2, <1>3
  <2>3. Ago(Tail(h), 1) = 0 /\ \A k \in 1..Len(f) - 1 : Ago(Tail(h), k + 1) = Ago(f, k)
    <3>1. Len(Tail(h)) + 1 - 1 = Len(f) /\ Len(f) \in 1..Len(f)
      BY <1>1, <1>3, <2>2
    <3>2. Ago(Tail(h), 1) = 0
      BY <1>2, <2>2, <3>1 DEF Ago
    <3>3. ASSUME NEW k \in 1..Len(f) - 1
          PROVE  Ago(Tail(h), k + 1) = Ago(f, k)
      <4>1. Len(f) + 1 - (k + 1) \in 1..Len(f) /\ (Len(f) + 1 - (k + 1)) + 1 = Len(f) + 1 - k
            /\ Len(f) + 1 - k \in 1..Len(f)
        BY <1>1
      <4> QED
        BY <1>2, <2>2, <4>1 DEF Ago
    <3> QED
      BY <3>2, <3>3
  <2> QED
    BY <1>3, <2>1, <2>2, <2>3 DEF h
<1>4. CASE Len(f) # MaxFailures
  <2>1. Kept(h) = h
    BY <1>1, <1>2, <1>4 DEF Kept
  <2> QED
    BY <1>1, <1>2, <1>4, <2>1 DEF Ago, h
<1> QED
  BY <1>3, <1>4

LEMMA AgesAgo ==
    ASSUME TrafficAssumption, NEW f \in Seq(Ages)
    PROVE  LET g == [i \in DOMAIN f |-> AtMost(f[i], AgeMax)] IN
           /\ g \in Seq(Ages) /\ Len(g) = Len(f)
           /\ \A k \in 1..Len(f) : Ago(g, k) = AtMost(Ago(f, k), AgeMax)
<1> DEFINE g == [i \in DOMAIN f |-> AtMost(f[i], AgeMax)]
<1>1. Len(f) \in Nat /\ DOMAIN f = 1..Len(f) /\ AgeMax \in Nat
  BY AgeNumbers
<1>2. \A a \in Ages : AtMost(a, AgeMax) \in Ages
  BY <1>1 DEF AtMost, Ages
<1>3. \A i \in 1..Len(f) : g[i] \in Ages
  BY <1>1, <1>2
<1>4. g \in [1..Len(f) -> Ages]
  BY <1>1, <1>3
<1>5. g \in Seq(Ages) /\ Len(g) = Len(f)
  BY <1>1, <1>4
<1>6. \A k \in 1..Len(f) : Ago(g, k) = AtMost(Ago(f, k), AgeMax)
  BY <1>1, <1>5 DEF Ago
<1> QED
  BY <1>5, <1>6

-----------------------------------------------------------------------------
LEMMA CountedNone == TrafficAssumption => NoEntry \in Entries /\ <<>> \in Seq(Ages) /\ Counted(NoEntry, <<>>)
  BY AgeNumbers DEF Entries, NoEntry, Counted

LEMMA CountedFirst ==
    ASSUME TrafficAssumption, NEW f \in Seq(Ages), Len(f) <= MaxFailures
    PROVE  LET e == [failures |-> 1, age |-> 0, block |-> 0] IN
           /\ e \in Entries /\ Counted(e, <<0>>) /\ <<0>> \in Seq(Ages)
<1>1. <<0>> \in Seq(Ages) /\ Len(<<0>>) = 1 /\ Ago(<<0>>, 1) = 0
  BY AgeNumbers DEF Ages, Ago
<1>2. [failures |-> 1, age |-> 0, block |-> 0] \in Entries
  BY AgeNumbers DEF Entries
<1> QED
  BY <1>1, <1>2, AgeNumbers, Spans DEF Counted

\* One more failure, after a pause or not.
LEMMA CountedAgain ==
    ASSUME TrafficAssumption, NEW e \in Entries, NEW f \in Seq(Ages), Counted(e, f),
           e.failures > 0, e.failures < MaxFailures
    PROVE  /\ Failure(e) \in Entries /\ Kept(Append(f, 0)) \in Seq(Ages)
           /\ Counted(Failure(e), Kept(Append(f, 0)))
<1> DEFINE g == Kept(Append(f, 0))
           n == e.failures
           x == Failure(e)
<1>1. n \in 1..MaxFailures - 1 /\ n <= Len(f) /\ Len(f) <= MaxFailures /\ Len(f) \in Nat
  BY AgeNumbers DEF Entries, Counted
<1>2. /\ g \in Seq(Ages) /\ Len(g) = IF Len(f) = MaxFailures THEN MaxFailures ELSE Len(f) + 1
      /\ Ago(g, 1) = 0 /\ \A k \in 1..Len(g) - 1 : Ago(g, k + 1) = Ago(f, k)
  BY <1>1, KeptAgo
<1>3. \A k \in 1..Len(f) : Ago(f, k) \in 0..AgeMax
  BY AgoTyped DEF Ages
<1>4. /\ e.age = IF Ago(f, 1) > FailWindow THEN FailWindow + 1 ELSE Ago(f, 1)
      /\ Ago(f, n) <= Ago(f, 1) + Span(n)
      /\ \A k \in 1..n - 1 : Ago(f, k + 1) - Ago(f, k) <= FailWindow
      /\ n < Len(f) => Ago(f, n + 1) - Ago(f, n) > FailWindow \/ Ago(f, n + 1) = AgeMax
  BY <1>1, AgeNumbers DEF Counted
<1> HIDE DEF g
<1>5. CASE e.age > FailWindow
  <2>1. x.failures = 1 /\ x.age = 0 /\ x.block = 0 /\ x \in Entries
    BY <1>1, <1>5, AgeNumbers DEF Failure, Entries
  <2> HIDE DEF x, n
  <2>2. Ago(f, 1) > FailWindow
    BY <1>1, <1>3, <1>4, <1>5, AgeNumbers
  <2>3. Len(g) > 1 => Ago(g, 2) = Ago(f, 1)
    BY <1>1, <1>2, AgeNumbers
  <2>4. Len(g) \in Nat /\ 1 <= Len(g) /\ Len(g) <= MaxFailures /\ 1 # MaxFailures
    BY <1>1, <1>2, AgeNumbers
  <2>5. 1 < Len(g) => Ago(g, 1 + 1) - Ago(g, 1) > FailWindow
    BY <1>1, <1>2, <1>3, <2>2, <2>3, AgeNumbers
  <2>6. Ago(g, 1) <= Ago(g, 1) + Span(1) /\ ~(Ago(g, 1) > FailWindow)
    BY <1>2, AgeNumbers, Spans
  <2>7. Counted(x, g)
    BY <1>2, <2>1, <2>4, <2>5, <2>6 DEF Counted
  <2> QED
    BY <1>2, <2>1, <2>7 DEF g, x
<1>6. CASE ~(e.age > FailWindow)
  <2>1. /\ x.failures = n + 1 /\ x.age = 0 /\ x.block = IF n + 1 >= MaxFailures THEN BlockTime ELSE 0
        /\ x \in Entries
    BY <1>1, <1>6, AgeNumbers DEF Failure, Entries
  <2> HIDE DEF x, n
  <2>2. Ago(f, 1) <= FailWindow /\ Ago(f, 1) \in Nat
    BY <1>1, <1>3, <1>4, <1>6, AgeNumbers
  <2>3. Ago(g, n + 1) = Ago(f, n) /\ n + 1 <= Len(g) /\ Len(g) <= MaxFailures
    BY <1>1, <1>2, AgeNumbers
  <2>4. Ago(g, n + 1) <= Ago(g, 1) + Span(n + 1)
    <3>1. Span(n + 1) = Span(n) + FailWindow /\ Span(n) \in Nat
      BY <1>1, Spans, AgeNumbers
    <3>2. Ago(f, n) \in 0..AgeMax
      BY <1>1, <1>3
    <3> QED
      BY <1>2, <1>4, <2>2, <2>3, <3>1, <3>2, AgeNumbers
  <2>5. ASSUME NEW k \in 1..(n + 1) - 1
        PROVE  Ago(g, k + 1) - Ago(g, k) <= FailWindow
    <3>1. CASE k = 1
      BY <1>1, <1>2, <2>2, <2>3, <3>1
    <3>2. CASE k # 1
      <4>1. k - 1 \in 1..n - 1 /\ Ago(g, k + 1) = Ago(f, k)
        BY <1>1, <1>2, <2>3, <3>2
      <4>2. Ago(g, (k - 1) + 1) = Ago(f, k - 1)
        BY <1>1, <1>2, <2>3, <4>1
      <4>3. Ago(f, (k - 1) + 1) - Ago(f, k - 1) <= FailWindow
        BY <1>4, <4>1
      <4>4. (k - 1) + 1 = k
        BY <1>1
      <4> QED
        BY <4>1, <4>2, <4>3, <4>4
    <3> QED
      BY <3>1, <3>2
  <2>6. ASSUME n + 1 < Len(g)
        PROVE  Ago(g, (n + 1) + 1) - Ago(g, n + 1) > FailWindow \/ Ago(g, (n + 1) + 1) = AgeMax
    <3>1. n < Len(f) /\ Ago(g, (n + 1) + 1) = Ago(f, n + 1)
      BY <1>1, <1>2, <2>6
    <3> QED
      BY <1>4, <2>3, <3>1
  <2>7. x.block = IF x.failures = MaxFailures /\ Ago(g, 1) < BlockTime THEN BlockTime - Ago(g, 1) ELSE 0
    BY <1>1, <1>2, <2>1, AgeNumbers
  <2>8. x.age = IF Ago(g, 1) > FailWindow THEN FailWindow + 1 ELSE Ago(g, 1)
    BY <1>2, <2>1, AgeNumbers
  <2>9. Counted(x, g)
    BY <1>1, <2>1, <2>3, <2>4, <2>5, <2>6, <2>7, <2>8 DEF Counted
  <2> QED
    BY <1>2, <2>1, <2>9 DEF g, x
<1> QED
  BY <1>5, <1>6

\* Time makes an entry and its failures older together.
LEMMA CountedAges ==
    ASSUME TrafficAssumption, NEW e \in Entries, NEW f \in Seq(Ages), Counted(e, f)
    PROVE  LET x == IF e.failures = 0 THEN NoEntry
                    ELSE [e EXCEPT !.age = AtMost(@, FailWindow + 1), !.block = IF @ > 0 THEN @ - 1 ELSE 0]
               g == [i \in DOMAIN f |-> AtMost(f[i], AgeMax)]
           IN  x \in Entries /\ g \in Seq(Ages) /\ Counted(x, g)
<1> DEFINE n == e.failures
           x == IF n = 0 THEN NoEntry
                ELSE [e EXCEPT !.age = AtMost(@, FailWindow + 1), !.block = IF @ > 0 THEN @ - 1 ELSE 0]
           g == [i \in DOMAIN f |-> AtMost(f[i], AgeMax)]
<1>1. /\ g \in Seq(Ages) /\ Len(g) = Len(f)
      /\ \A k \in 1..Len(f) : Ago(g, k) = AtMost(Ago(f, k), AgeMax)
  BY AgesAgo
<1>2. n \in 0..MaxFailures /\ n <= Len(f) /\ Len(f) <= MaxFailures /\ Len(f) \in Nat
  BY AgeNumbers DEF Entries, Counted
<1>3. \A k \in 1..Len(f) : Ago(f, k) \in 0..AgeMax
  BY AgoTyped DEF Ages
<1> HIDE DEF g
<1>4. CASE n = 0
  <2>1. x = NoEntry /\ Len(g) = 0
    BY <1>1, <1>4 DEF Counted
  <2> HIDE DEF x, n
  <2>2. x \in Entries /\ Counted(x, g)
    BY <2>1, AgeNumbers DEF Counted, NoEntry, Entries
  <2> QED
    BY <1>1, <2>2 DEF x, g, n
<1>5. CASE n # 0
  <2>1. /\ e.age = IF Ago(f, 1) > FailWindow THEN FailWindow + 1 ELSE Ago(f, 1)
        /\ Ago(f, n) <= Ago(f, 1) + Span(n)
        /\ e.block = IF n = MaxFailures /\ Ago(f, 1) < BlockTime THEN BlockTime - Ago(f, 1) ELSE 0
        /\ \A k \in 1..n - 1 : Ago(f, k + 1) - Ago(f, k) <= FailWindow
        /\ n < Len(f) => Ago(f, n + 1) - Ago(f, n) > FailWindow \/ Ago(f, n + 1) = AgeMax
    BY <1>2, <1>5 DEF Counted
  <2>2. /\ x.failures = n /\ x.age = AtMost(e.age, FailWindow + 1)
        /\ x.block = IF e.block > 0 THEN e.block - 1 ELSE 0
        /\ x \in Entries
    <3>1. /\ AtMost(e.age, FailWindow + 1) \in 0..FailWindow + 1
          /\ (IF e.block > 0 THEN e.block - 1 ELSE 0) \in 0..BlockTime
      BY AgeNumbers DEF Entries, AtMost
    <3> QED
      BY <1>5, <3>1 DEF Entries
  <2> HIDE DEF x
  <2>3. e.failures = n
    OBVIOUS
  <2> HIDE DEF n
  <2>a. /\ Ago(f, 1) \in 0..AgeMax /\ Ago(g, 1) = AtMost(Ago(f, 1), AgeMax)
        /\ Ago(f, n) \in 0..AgeMax /\ Ago(g, n) = AtMost(Ago(f, n), AgeMax)
    <3>1. 1 \in 1..Len(f) /\ n \in 1..Len(f)
      BY <1>2, <1>5
    <3> QED
      BY <1>1, <1>3, <3>1
  <2>4. x.age = IF Ago(g, 1) > FailWindow THEN FailWindow + 1 ELSE Ago(g, 1)
    <3>1. e.age = IF Ago(f, 1) > FailWindow THEN FailWindow + 1 ELSE Ago(f, 1)
      BY <2>1
    <3> QED
      BY <2>a, <2>2, <3>1, AgeNumbers DEF AtMost
  <2>5. x.block = IF n = MaxFailures /\ Ago(g, 1) < BlockTime THEN BlockTime - Ago(g, 1) ELSE 0
    <3>1. e.block = IF n = MaxFailures /\ Ago(f, 1) < BlockTime THEN BlockTime - Ago(f, 1) ELSE 0
      BY <2>1
    <3> QED
      BY <2>a, <2>2, <3>1, AgeNumbers DEF AtMost
  <2>6. Ago(g, n) <= Ago(g, 1) + Span(n)
    <3>1. Span(n) \in Nat
      BY <1>2, <1>5, Spans
    <3>2. Ago(f, n) <= Ago(f, 1) + Span(n)
      BY <2>1
    <3> QED
      BY <2>a, <3>1, <3>2, AgeNumbers DEF AtMost
  <2>7. ASSUME NEW k \in 1..n - 1
        PROVE  Ago(g, k + 1) - Ago(g, k) <= FailWindow
    <3>1. k \in 1..Len(f) /\ k + 1 \in 1..Len(f) /\ Ago(f, k + 1) - Ago(f, k) <= FailWindow
      BY <1>2, <2>1
    <3> QED
      BY <1>1, <1>3, <3>1, AgeNumbers DEF AtMost
  <2>8. ASSUME n < Len(g)
        PROVE  Ago(g, n + 1) - Ago(g, n) > FailWindow \/ Ago(g, n + 1) = AgeMax
    <3>1. n \in 1..Len(f) /\ n + 1 \in 1..Len(f)
      BY <1>1, <1>2, <1>5, <2>8
    <3>2. Ago(f, n + 1) - Ago(f, n) > FailWindow \/ Ago(f, n + 1) = AgeMax
      BY <1>1, <2>1, <2>8
    <3> QED
      BY <1>1, <1>3, <3>1, <3>2, AgeNumbers DEF AtMost
  <2>9. Counted(x, g)
    BY <1>1, <1>2, <1>5, <2>2, <2>4, <2>5, <2>6, <2>7, <2>8 DEF Counted
  <2> QED
    BY <1>1, <2>2, <2>9 DEF x, g, n
<1> QED
  BY <1>4, <1>5

\* A block is there for as many failures as block, each soon after the one before.
LEMMA CountedBlocks ==
    ASSUME TrafficAssumption, NEW e \in Entries, NEW f \in Seq(Ages), Counted(e, f)
    PROVE  e.block > 0 <=> /\ Len(f) = MaxFailures /\ Last(f) < BlockTime
                           /\ \A i \in 1..Len(f) - 1 : f[i] - f[i + 1] <= FailWindow
<1> DEFINE n == e.failures
<1>1. n \in 0..MaxFailures /\ n <= Len(f) /\ Len(f) <= MaxFailures /\ Len(f) \in Nat
  BY AgeNumbers DEF Entries, Counted
<1>2. \A k \in 1..Len(f) : Ago(f, k) \in 0..AgeMax
  BY AgoTyped DEF Ages
<1>3. /\ n = 0 => Len(f) = 0
      /\ n > 0 => Ago(f, n) <= Ago(f, 1) + Span(n)
      /\ e.block = IF n = MaxFailures /\ Ago(f, 1) < BlockTime THEN BlockTime - Ago(f, 1) ELSE 0
      /\ \A k \in 1..n - 1 : Ago(f, k + 1) - Ago(f, k) <= FailWindow
      /\ n > 0 /\ n < Len(f) => Ago(f, n + 1) - Ago(f, n) > FailWindow \/ Ago(f, n + 1) = AgeMax
  BY DEF Counted
<1>4. Last(f) = Ago(f, 1)
  BY <1>1 DEF Last, Ago
<1> HIDE DEF n
<1>5. ASSUME e.block > 0
      PROVE  /\ Len(f) = MaxFailures /\ Last(f) < BlockTime
             /\ \A i \in 1..Len(f) - 1 : f[i] - f[i + 1] <= FailWindow
  <2>1. n = MaxFailures /\ Ago(f, 1) < BlockTime /\ Len(f) = MaxFailures
    BY <1>1, <1>3, <1>5
  <2>2. ASSUME NEW i \in 1..Len(f) - 1
        PROVE  f[i] - f[i + 1] <= FailWindow
    <3>1. Len(f) - i \in 1..n - 1 /\ Len(f) + 1 - (Len(f) - i) = i + 1 /\ Len(f) + 1 - ((Len(f) - i) + 1) = i
      BY <1>1, <2>1
    <3> QED
      BY <1>3, <3>1 DEF Ago
  <2> QED
    BY <1>4, <2>1, <2>2
<1>6. ASSUME Len(f) = MaxFailures, Last(f) < BlockTime,
             \A i \in 1..Len(f) - 1 : f[i] - f[i + 1] <= FailWindow
      PROVE  e.block > 0
  <2>1. n > 0 /\ Ago(f, 1) < BlockTime
    BY <1>1, <1>3, <1>4, <1>6, AgeNumbers
  <2>2. CASE n = MaxFailures
    <3>1. Ago(f, 1) \in 0..AgeMax
      BY <1>2, <1>6, AgeNumbers
    <3> QED
      BY <1>3, <2>1, <2>2, <3>1, AgeNumbers
  <2>3. CASE n # MaxFailures
    <3>1. n \in 1..Len(f) - 1 /\ n + 1 \in 1..Len(f) /\ n \in 1..Len(f) /\ 1 \in 1..Len(f)
      BY <1>1, <1>6, <2>1, <2>3
    <3>2. Ago(f, n + 1) - Ago(f, n) <= FailWindow
      <4>1. Len(f) - n \in 1..Len(f) - 1 /\ Len(f) + 1 - n = (Len(f) - n) + 1 /\ Len(f) + 1 - (n + 1) = Len(f) - n
        BY <1>1, <3>1
      <4> QED
        BY <1>6, <4>1 DEF Ago
    <3>3. Ago(f, 1) \in 0..AgeMax /\ Ago(f, n) \in 0..AgeMax /\ Ago(f, n + 1) \in 0..AgeMax
      BY <1>2, <3>1
    <3>4. Ago(f, n + 1) = AgeMax
      BY <1>1, <1>3, <1>6, <2>1, <2>3, <3>2, <3>3, AgeNumbers
    <3>5. Span(n) \in Nat /\ Span(n) + FailWindow + BlockTime < AgeMax
      BY <1>1, <1>6, <3>1, Spans
    <3> QED
      BY <1>3, <2>1, <3>2, <3>3, <3>4, <3>5, AgeNumbers
  <2> QED
    BY <2>2, <2>3
<1> QED
  BY <1>5, <1>6

-----------------------------------------------------------------------------
BlockTypes == entries \in [Callers -> Entries] /\ failed \in [Callers -> Seq(Ages)]
BlockInv == BlockTypes /\ \A c \in Callers : Counted(entries[c], failed[c])

\* A caller's entry and failures change together.
LEMMA BlockChanges ==
    ASSUME BlockInv, NEW ip \in Callers, NEW e \in Entries, NEW f \in Seq(Ages), Counted(e, f),
           entries' = [entries EXCEPT ![ip] = e], failed' = [failed EXCEPT ![ip] = f]
    PROVE  BlockInv'
<1>1. BlockTypes'
  BY DEF BlockInv, BlockTypes
<1>2. \A c \in Callers : /\ entries'[c] = IF c = ip THEN e ELSE entries[c]
                         /\ failed'[c] = IF c = ip THEN f ELSE failed[c]
  BY DEF BlockInv, BlockTypes
<1> QED
  BY <1>1, <1>2 DEF BlockInv

\* What isBlocked() leaves of the entry of a caller that is not blocked.
LEMMA Unblocks ==
    ASSUME TrafficAssumption, BlockInv, NEW ip \in Callers
    PROVE  LET e == entries[ip]  u == Unblocked(ip) IN
           /\ e \in Entries /\ failed[ip] \in Seq(Ages) /\ Len(failed[ip]) <= MaxFailures /\ Counted(e, failed[ip])
           /\ u # NoEntry => u = e /\ e.failures > 0 /\ e.failures < MaxFailures
<1>1. entries[ip] \in Entries /\ failed[ip] \in Seq(Ages) /\ Counted(entries[ip], failed[ip])
  BY DEF BlockInv, BlockTypes
<1>2. Len(failed[ip]) <= MaxFailures /\ (entries[ip].failures = 0 => entries[ip] = NoEntry)
  BY <1>1 DEF Counted
<1> QED
  BY <1>1, <1>2, AgeNumbers DEF Unblocked, Entries

LEMMA BlockFails ==
    ASSUME TrafficAssumption, BlockInv, WholeInv, NEW r \in Requests, Fails(r)
    PROVE  BlockInv'
<1> DEFINE ip == req[r].ip
           u == Unblocked(ip)
           f == failed[ip]
<1>1. ip \in Callers
  BY DEF WholeInv, Whole, Fails
<1>2. /\ entries' = [entries EXCEPT ![ip] = Failure(u)]
      /\ failed' = [failed EXCEPT ![ip] = IF u = NoEntry THEN <<0>> ELSE Kept(Append(f, 0))]
  BY DEF Fails
<1>3. /\ entries[ip] \in Entries /\ f \in Seq(Ages) /\ Len(f) <= MaxFailures /\ Counted(entries[ip], f)
      /\ u # NoEntry => u = entries[ip] /\ entries[ip].failures > 0 /\ entries[ip].failures < MaxFailures
  BY <1>1, Unblocks
<1>4. CASE u = NoEntry
  <2>1. Failure(u) = [failures |-> 1, age |-> 0, block |-> 0]
    BY <1>4 DEF Failure, NoEntry
  <2>2. Failure(u) \in Entries /\ <<0>> \in Seq(Ages) /\ Counted(Failure(u), <<0>>)
    BY <1>3, <2>1, CountedFirst
  <2>3. failed' = [failed EXCEPT ![ip] = <<0>>]
    BY <1>2, <1>4
  <2> HIDE DEF ip, u, f
  <2> QED
    BY <1>1, <1>2, <2>2, <2>3, BlockChanges
<1>5. CASE u # NoEntry
  <2>1. /\ Failure(u) \in Entries /\ Kept(Append(f, 0)) \in Seq(Ages)
        /\ Counted(Failure(u), Kept(Append(f, 0)))
    BY <1>3, <1>5, CountedAgain
  <2>2. failed' = [failed EXCEPT ![ip] = Kept(Append(f, 0))]
    BY <1>2, <1>5
  <2> HIDE DEF ip, u, f
  <2> QED
    BY <1>1, <1>2, <2>1, <2>2, BlockChanges
<1> QED
  BY <1>4, <1>5

LEMMA BlockCalling ==
    ASSUME TrafficAssumption, BlockInv, WholeInv, NEW r \in Requests, NEW batch, NEW level, Calling(r, batch, level)
    PROVE  BlockInv'
<1> DEFINE ip == req[r].ip
           u == Unblocked(ip)
           f == IF u = NoEntry THEN <<>> ELSE failed[ip]
<1>1. ip \in Callers
  BY DEF WholeInv, Whole, Calling
<1>2. entries' = [entries EXCEPT ![ip] = u] /\ failed' = [failed EXCEPT ![ip] = f]
  BY DEF Calling
<1>3. u \in Entries /\ f \in Seq(Ages) /\ Counted(u, f)
  BY <1>1, Unblocks, CountedNone
<1> HIDE DEF ip, u, f
<1> QED
  BY <1>1, <1>2, <1>3, BlockChanges

LEMMA BlockTick ==
    ASSUME TrafficAssumption, BlockInv, Tick
    PROVE  BlockInv'
<1> DEFINE Older(e) == IF e.failures = 0 THEN NoEntry
                       ELSE [e EXCEPT !.age = AtMost(@, FailWindow + 1), !.block = IF @ > 0 THEN @ - 1 ELSE 0]
           AllOlder(f) == [i \in DOMAIN f |-> AtMost(f[i], AgeMax)]
<1>1. /\ entries' = [c \in Callers |-> Older(entries[c])]
      /\ failed' = [c \in Callers |-> AllOlder(failed[c])]
  BY DEF Tick
<1>2. ASSUME NEW c \in Callers
      PROVE  /\ Older(entries[c]) \in Entries /\ AllOlder(failed[c]) \in Seq(Ages)
             /\ Counted(Older(entries[c]), AllOlder(failed[c]))
  <2>1. entries[c] \in Entries /\ failed[c] \in Seq(Ages) /\ Counted(entries[c], failed[c])
    BY DEF BlockInv, BlockTypes
  <2> QED
    BY <2>1, CountedAges
<1> HIDE DEF Older, AllOlder
<1> QED
  BY <1>1, <1>2 DEF BlockInv, BlockTypes

LEMMA BlockStep ==
    ASSUME TrafficAssumption, BlockInv, WholeInv, [Next]_vars
    PROVE  BlockInv'
<1>1. CASE entries' = entries /\ failed' = failed
  BY <1>1 DEF BlockInv, BlockTypes
<1> QED
  BY <1>1, BlockFails, BlockCalling, BlockTick, TrafficSteps DEF vars, limits, Cleanup, Drain, Arrives

LEMMA BlockFollows ==
    ASSUME TrafficAssumption, BlockInv
    PROVE  BlockExact
<1> SUFFICES ASSUME NEW ip \in Callers
             PROVE  LET f == failed[ip] IN
                    Blocked(ip) <=> /\ Len(f) = MaxFailures /\ Last(f) < BlockTime
                                    /\ \A i \in 1..Len(f) - 1 : f[i] - f[i + 1] <= FailWindow
  BY DEF BlockExact
<1>1. entries[ip] \in Entries /\ failed[ip] \in Seq(Ages) /\ Counted(entries[ip], failed[ip])
  BY DEF BlockInv, BlockTypes
<1> QED
  BY <1>1, CountedBlocks DEF Blocked

-----------------------------------------------------------------------------
LEMMA TrafficInit ==
    ASSUME TrafficAssumption, Init
    PROVE  QuotaInv /\ WholeInv /\ BlockInv
<1>1. QuotaInv
  BY Windows DEF Init, QuotaInv, QuotaTypes, Tallied
<1>2. WholeInv
  BY IdleRow DEF Init, WholeInv
<1>3. BlockInv
  BY CountedNone DEF Init, BlockInv, BlockTypes
<1> QED
  BY <1>1, <1>2, <1>3

\* Whatever requests, failures and pauses come, the limiters of the gateway know of a
\* caller exactly what they should: it is refused for its rate by what was admitted in the
\* window, and blocked by its last failures; and an answer with status 200 is whole.
THEOREM AnswersAreJustified == TrafficAssumption => (Spec => []AnswersJustified)
<1> SUFFICES ASSUME TrafficAssumption
             PROVE  Spec => []AnswersJustified
  OBVIOUS
<1> DEFINE Inv == QuotaInv /\ WholeInv /\ BlockInv
<1>1. Init => Inv
  BY TrafficInit
<1>2. Inv /\ [Next]_vars => Inv'
  BY QuotaStep, WholeStep, BlockStep
<1>3. Inv => AnswersJustified
  BY QuotaFollows, WholeFollows, BlockFollows DEF AnswersJustified
<1> QED
  BY <1>1, <1>2, <1>3, PTL DEF Spec

-----------------------------------------------------------------------------
(* The tables of the web page.                                            *)

\* Something of a set occurs in a list; something of Q after which nothing of P occurs.
Has(s, P) == \E i \in DOMAIN s : s[i] \in P
Ends(s, Q, P) == \E i \in DOMAIN s : s[i] \in Q /\ \A j \in DOMAIN s : j > i => s[j] \notin P

LEMMA OnAppended ==
    ASSUME NEW S, NEW s \in Seq(S), NEW e \in S, NEW P, NEW Q
    PROVE  /\ Append(s, e) \in Seq(S)
           /\ Has(Append(s, e), P) <=> Has(s, P) \/ e \in P
           /\ e \in Q => Ends(Append(s, e), Q, P)
           /\ e \notin P /\ Ends(s, Q, P) => Ends(Append(s, e), Q, P)
<1> DEFINE t == Append(s, e)
<1>1. /\ t \in Seq(S) /\ Len(s) \in Nat /\ DOMAIN s = 1..Len(s) /\ DOMAIN t = 1..(Len(s) + 1)
      /\ t[Len(s) + 1] = e /\ \A i \in 1..Len(s) : t[i] = s[i]
  OBVIOUS
<1> HIDE DEF t
<1>2. Has(t, P) <=> Has(s, P) \/ e \in P
  BY <1>1 DEF Has
<1>3. e \in Q => Ends(t, Q, P)
  BY <1>1 DEF Ends
<1>4. e \notin P /\ Ends(s, Q, P) => Ends(t, Q, P)
  BY <1>1 DEF Ends
<1> QED
  BY <1>1, <1>2, <1>3, <1>4 DEF t

LEMMA OnTaken ==
    ASSUME NEW S, NEW s \in Seq(S), s # <<>>, NEW P, NEW Q
    PROVE  /\ Tail(s) \in Seq(S) /\ Head(s) \in S
           /\ Has(s, P) <=> Has(Tail(s), P) \/ Head(s) \in P
           /\ Ends(s, Q, P) => Ends(Tail(s), Q, P) \/ (Head(s) \in Q /\ ~Has(Tail(s), P))
<1> DEFINE t == Tail(s)
<1>1. /\ t \in Seq(S) /\ Len(s) \in Nat /\ Len(s) > 0 /\ DOMAIN s = 1..Len(s) /\ DOMAIN t = 1..(Len(s) - 1)
      /\ Head(s) = s[1] /\ \A i \in 1..(Len(s) - 1) : t[i] = s[i + 1]
  OBVIOUS
<1>2. \A i \in DOMAIN s : i # 1 => i - 1 \in DOMAIN t /\ t[i - 1] = s[i]
  BY <1>1
<1>3. \A i \in DOMAIN t : i + 1 \in DOMAIN s /\ s[i + 1] = t[i]
  BY <1>1
<1> HIDE DEF t
<1>4. Has(s, P) <=> Has(t, P) \/ Head(s) \in P
  BY <1>1, <1>2, <1>3 DEF Has
<1>5. ASSUME Ends(s, Q, P)
      PROVE  Ends(t, Q, P) \/ (Head(s) \in Q /\ ~Has(t, P))
  <2>1. PICK i \in DOMAIN s : s[i] \in Q /\ \A j \in DOMAIN s : j > i => s[j] \notin P
    BY <1>5 DEF Ends
  <2>2. CASE i = 1
    <3>1. \A j \in DOMAIN t : t[j] \notin P
      BY <1>1, <1>3, <2>1, <2>2
    <3> QED
      BY <1>1, <2>1, <2>2, <3>1 DEF Has
  <2>3. CASE i # 1
    <3>1. i - 1 \in DOMAIN t /\ t[i - 1] \in Q
      BY <1>2, <2>1, <2>3
    <3>2. \A j \in DOMAIN t : j > i - 1 => t[j] \notin P
      BY <1>1, <1>3, <2>1
    <3> QED
      BY <3>1, <3>2 DEF Ends
  <2> QED
    BY <2>2, <2>3
<1> QED
  BY <1>1, <1>4, <1>5 DEF t

LEMMA OnJoined ==
    ASSUME NEW S, NEW s \in Seq(S), NEW t \in Seq(S), NEW P, NEW Q
    PROVE  /\ s \o t \in Seq(S)
           /\ Has(s \o t, P) <=> Has(s, P) \/ Has(t, P)
           /\ Ends(t, Q, P) => Ends(s \o t, Q, P)
           /\ ~Has(t, P) /\ Ends(s, Q, P) => Ends(s \o t, Q, P)
<1> DEFINE st == s \o t
<1>1. /\ st \in Seq(S) /\ Len(s) \in Nat /\ Len(t) \in Nat /\ DOMAIN s = 1..Len(s) /\ DOMAIN t = 1..Len(t)
      /\ DOMAIN st = 1..(Len(s) + Len(t))
      /\ \A i \in 1..Len(s) : st[i] = s[i]
      /\ \A i \in 1..Len(t) : st[Len(s) + i] = t[i]
  OBVIOUS
<1>2. \A i \in DOMAIN st : \/ i \in DOMAIN s /\ st[i] = s[i]
                           \/ i > Len(s) /\ i - Len(s) \in DOMAIN t /\ st[i] = t[i - Len(s)]
  BY <1>1
<1>3. \A i \in DOMAIN t : Len(s) + i \in DOMAIN st /\ st[Len(s) + i] = t[i] /\ Len(s) + i > Len(s)
  BY <1>1
<1>4. \A i \in DOMAIN s : i \in DOMAIN st /\ st[i] = s[i] /\ i <= Len(s)
  BY <1>1
<1> HIDE DEF st
<1>5. Has(st, P) <=> Has(s, P) \/ Has(t, P)
  BY <1>2, <1>3, <1>4 DEF Has
<1>6. ASSUME Ends(t, Q, P)
      PROVE  Ends(st, Q, P)
  <2>1. PICK i \in DOMAIN t : t[i] \in Q /\ \A j \in DOMAIN t : j > i => t[j] \notin P
    BY <1>6 DEF Ends
  <2>2. \A j \in DOMAIN st : j > Len(s) + i => st[j] \notin P
    BY <1>1, <1>2, <2>1
  <2> QED
    BY <1>3, <2>1, <2>2 DEF Ends
<1>7. ASSUME ~Has(t, P), Ends(s, Q, P)
      PROVE  Ends(st, Q, P)
  <2>1. PICK i \in DOMAIN s : s[i] \in Q /\ \A j \in DOMAIN s : j > i => s[j] \notin P
    BY <1>7 DEF Ends
  <2>2. \A j \in DOMAIN st : j > i => st[j] \notin P
    BY <1>1, <1>2, <1>7, <2>1 DEF Has
  <2> QED
    BY <1>4, <2>1, <2>2 DEF Ends
<1> QED
  BY <1>1, <1>5, <1>6, <1>7 DEF st

LEMMA OnMore ==
    ASSUME NEW S, NEW s \in Seq(S), NEW t \in Seq(S), NEW P, ~Has(t, P)
    PROVE  ~Has(s, P) => ~Has(s \o t, P)
  BY OnJoined

LEMMA OnMarked ==
    ASSUME NEW s, NEW t, DOMAIN t = DOMAIN s, NEW P, NEW Q,
           \A i \in DOMAIN s : (t[i] \in P => s[i] \in P) /\ (s[i] \in Q => t[i] \in Q)
    PROVE  /\ Has(t, P) => Has(s, P)
           /\ Has(s, Q) => Has(t, Q)
           /\ Ends(s, Q, P) => Ends(t, Q, P)
  BY DEF Has, Ends

-----------------------------------------------------------------------------
\* What is asked, and the answers: a right question (of Q) is the last of its kind (P)
\* under way, and nothing is lost (L) after it; or an answer will make the page ask (C);
\* or nothing is asked, and a right answer (R) is the last of its kind (A) to come, or
\* what has come is right.
Agrees(u, d, Q, P, L, R, A, C, right) ==
    \/ Ends(u, Q, P \cup L)
    \/ ~Has(u, L) /\ Has(d, C)
    \/ ~Has(u, L) /\ ~Has(u, P) /\ (Ends(d, R, A) \/ (~Has(d, A) /\ right))

LEMMA UnionHas == ASSUME NEW s, NEW P, NEW L PROVE Has(s, P \cup L) <=> Has(s, P) \/ Has(s, L)
  BY DEF Has

\* Other requests are made.
LEMMA AgreesAsking ==
    ASSUME NEW S, NEW u \in Seq(S), NEW x \in Seq(S), NEW d,
           NEW Q, NEW P, NEW L, NEW R, NEW A, NEW C, NEW right \in BOOLEAN,
           Agrees(u, d, Q, P, L, R, A, C, right), ~Has(x, P), ~Has(x, L)
    PROVE  Agrees(u \o x, d, Q, P, L, R, A, C, right)
<1>1. ~Has(x, P \cup L)
  BY UnionHas
<1>2. /\ Ends(u, Q, P \cup L) => Ends(u \o x, Q, P \cup L)
      /\ ~Has(u, L) => ~Has(u \o x, L)
      /\ ~Has(u, P) => ~Has(u \o x, P)
  BY <1>1, OnJoined
<1> QED
  BY <1>2 DEF Agrees

\* The right question is asked.
LEMMA AgreesAsked ==
    ASSUME NEW S, NEW u \in Seq(S), NEW x \in Seq(S), NEW d,
           NEW Q, NEW P, NEW L, NEW R, NEW A, NEW C, NEW right, Ends(x, Q, P \cup L)
    PROVE  Agrees(u \o x, d, Q, P, L, R, A, C, right)
  BY OnJoined DEF Agrees

\* A question is answered.
LEMMA AgreesAnswered ==
    ASSUME NEW S, NEW u \in Seq(S), u # <<>>, NEW T, NEW d \in Seq(T), NEW a \in T,
           NEW Q, NEW P, NEW L, NEW R, NEW A, NEW C, NEW right \in BOOLEAN,
           Agrees(u, d, Q, P, L, R, A, C, right), Head(u) \in P,
           Head(u) \in Q => a \in R
    PROVE  Agrees(Tail(u), Append(d, a), Q, P, L, R, A, C, right)
<1>1. Has(u, P) /\ (Has(Tail(u), L) => Has(u, L))
  BY OnTaken
<1>2. Ends(u, Q, P \cup L) => Ends(Tail(u), Q, P \cup L) \/ (a \in R /\ ~Has(Tail(u), P) /\ ~Has(Tail(u), L))
  BY OnTaken, UnionHas
<1>3. a \in R => Ends(Append(d, a), R, A)
  BY OnAppended
<1>4. Has(d, C) => Has(Append(d, a), C)
  BY OnAppended
<1> QED
  BY <1>1, <1>2, <1>3, <1>4 DEF Agrees

\* Another request is served: what it changes is told, or it was lost.
LEMMA AgreesServed ==
    ASSUME NEW S, NEW u \in Seq(S), u # <<>>, NEW d, NEW e,
           NEW Q, NEW P, NEW L, NEW R, NEW A, NEW C, NEW right \in BOOLEAN, Q \subseteq P,
           NEW R2, NEW right2 \in BOOLEAN,
           Agrees(u, d, Q, P, L, R, A, C, right), Head(u) \notin P,
           Has(d, C) => Has(e, C),
           \/ Head(u) \in L
           \/ Has(e, C)
           \/ /\ R2 = R /\ (Ends(d, R, A) => Ends(e, R, A))
              /\ ~Has(d, A) /\ right => ~Has(e, A) /\ right2
    PROVE  Agrees(Tail(u), e, Q, P, L, R2, A, C, right2)
<1>1. /\ Has(Tail(u), L) => Has(u, L)
      /\ Has(Tail(u), P) => Has(u, P)
      /\ Head(u) \in L => Has(u, L)
  BY OnTaken
<1>2. Ends(u, Q, P \cup L) => Ends(Tail(u), Q, P \cup L)
  BY OnTaken
<1> QED
  BY <1>1, <1>2 DEF Agrees

\* The page is told something.
LEMMA AgreesTold ==
    ASSUME NEW T, NEW d \in Seq(T), NEW a \in T, NEW u,
           NEW Q, NEW P, NEW L, NEW R, NEW A, NEW C, NEW right \in BOOLEAN,
           NEW R2, NEW right2 \in BOOLEAN,
           Agrees(u, d, Q, P, L, R, A, C, right), a \notin A,
           a \in C \/ (R2 = R /\ right2 = right)
    PROVE  Agrees(u, Append(d, a), Q, P, L, R2, A, C, right2)
<1>1. /\ Has(d, C) \/ a \in C => Has(Append(d, a), C)
      /\ Ends(d, R, A) => Ends(Append(d, a), R, A)
      /\ ~Has(d, A) => ~Has(Append(d, a), A)
  BY OnAppended
<1> QED
  BY <1>1 DEF Agrees

\* An answer comes in.
LEMMA AgreesGot ==
    ASSUME NEW T, NEW d \in Seq(T), d # <<>>, NEW u,
           NEW Q, NEW P, NEW L, NEW R, NEW A, NEW C, NEW right \in BOOLEAN, NEW right2 \in BOOLEAN,
           Agrees(u, d, Q, P, L, R, A, C, right), Head(d) \notin C, R \subseteq A,
           IF Head(d) \in A THEN Head(d) \in R => right2 ELSE right2 = right
    PROVE  Agrees(u, Tail(d), Q, P, L, R, A, C, right2)
<1>1. /\ Has(d, C) => Has(Tail(d), C)
      /\ Has(Tail(d), A) => Has(d, A)
      /\ Head(d) \in A => Has(d, A)
      /\ Ends(d, R, A) => Ends(Tail(d), R, A) \/ (Head(d) \in R /\ ~Has(Tail(d), A))
  BY OnTaken
<1> QED
  BY <1>1 DEF Agrees

\* Frames are marked.
LEMMA AgreesMarked ==
    ASSUME NEW u, NEW v, NEW d, NEW e, DOMAIN v = DOMAIN u, DOMAIN e = DOMAIN d,
           NEW Q, NEW P, NEW L, NEW R, NEW A, NEW C, NEW right \in BOOLEAN,
           Agrees(u, d, Q, P, L, R, A, C, right),
           \A i \in DOMAIN u : /\ v[i] \in P => u[i] \in P
                               /\ v[i] \in L => u[i] \in L
                               /\ u[i] \in Q => v[i] \in Q,
           \A i \in DOMAIN d : /\ e[i] \in A => d[i] \in A
                               /\ d[i] \in R => e[i] \in R
                               /\ d[i] \in C => e[i] \in C
    PROVE  Agrees(v, e, Q, P, L, R, A, C, right)
<1>1. Ends(u, Q, P \cup L) => Ends(v, Q, P \cup L)
  BY OnMarked
<1>2. (Has(v, L) => Has(u, L)) /\ (Has(v, P) => Has(u, P))
  BY DEF Has
<1>3. /\ Has(d, C) => Has(e, C)
      /\ Has(e, A) => Has(d, A)
  BY DEF Has
<1>4. Ends(d, R, A) => Ends(e, R, A)
  BY OnMarked
<1> QED
  BY <1>1, <1>2, <1>3, <1>4 DEF Agrees

-----------------------------------------------------------------------------
AllIds == Memories \cup Runs \cup Schedules \cup Alerts \cup {Nothing}
AllArgs == Types \cup Crons \cup {Nothing}
AllRows == SUBSET (AllIds \cup [id : AllIds, on : BOOLEAN])
Elements == {"page", "left", "gone"}
Frames == [kind : {"list", "get", "test", "run", "delete", "enable", "disable", "create", "submit"},
           of : Elements, table : Tables, id : AllIds, arg : AllArgs]
Answers == [kind : {"listed", "got", "tested", "done", "submitted", "completed"},
            of : Elements, table : Tables, id : AllIds, ok : BOOLEAN, rows : AllRows]

PageTypes ==
    /\ stored \in [Tables -> SUBSET AllIds] /\ shown \in [Tables -> AllRows]
    /\ up \in Seq(Frames) /\ pending \in Seq(Frames) /\ down \in Seq(Answers)
    /\ tab \in {"settings", "alerts"} /\ online \in BOOLEAN /\ typing \in BOOLEAN
    /\ filter \in Types \cup {Nothing} /\ current \subseteq Tables
    /\ form \in [at : {"closed", "open", "submitting"}, cron : Crons \cup {Nothing}, error : BOOLEAN]
    /\ expanded \in [id : AllIds, run : AllIds]

\* The tables of a view, and frames that are about none of them or about another table
\* than their kind.
OfTab(v) == IF v = "settings" THEN {"memories", "runs", "schedules"} ELSE {"alerts"}
Live == {f \in Frames : f.of # "gone"}
TableOf(f) == CASE f.kind \in {"submit", "enable", "disable"} -> "schedules"
                [] f.kind = "create" -> "alerts" [] OTHER -> f.table
StrayFrames(v) == {f \in Frames : \/ f.table # TableOf(f)
                                  \/ f \in Live /\ f.table \notin OfTab(v)}
StrayAnswers(v) == {a \in Answers : \/ a.table \notin OfTab(v)
                                    \/ a.kind = "submitted" /\ a.table # "schedules"
                                    \/ a.kind = "completed" /\ v # "settings"}

\* Without a connection nothing is under way; and what is, is about the open view.
Placed ==
    /\ current \subseteq OfTab(tab)
    /\ ~online => up = <<>> /\ down = <<>> /\ current = {} /\ ~Has(pending, Live)
    /\ ~Has(up, StrayFrames(tab)) /\ ~Has(pending, StrayFrames(tab)) /\ ~Has(down, StrayAnswers(tab))
    /\ \A t \in Tables : t \notin OfTab(tab) => shown[t] = {}
    /\ form.at # "closed" => tab = "settings"
    /\ typing => form.at # "closed"

\* Loads of a table, those with a filter, and changes that no page waits for.
Queries(t) == {f \in Live : f.kind = "list" /\ f.table = t}
Asking(t, choice) == {f \in Queries(t) : t = "memories" => f.arg = choice}
Lost == {f \in Frames : f.of = "gone" /\ f.kind \in {"delete", "enable", "disable", "create", "submit"}}

\* Lists of a table, those that are right, and what makes the page load the table.
Listings(t) == {a \in Answers : a.kind = "listed" /\ a.table = t}
Reports(t, rows) == {a \in Listings(t) : a.rows = rows}
Prompts(t) == {a \in Answers : \/ a.kind \in {"done", "submitted"} /\ a.ok /\ a.table = t
                               \/ a.kind = "completed" /\ t \in {"schedules", "runs"}}
Follows(u, d, t, choice, seen, rows) ==
    Agrees(u, d, Asking(t, choice), Queries(t), Lost, Reports(t, rows), Listings(t), Prompts(t), seen = rows)
TablesFollow == \A t \in current : Follows(up, down, t, filter, shown[t], Listed(t, filter))

\* Tests of expressions, those of one, and their verdicts.
Tests == {f \in Frames : f.kind = "test" /\ f.of = "page"}
Testing(cron) == {f \in Tests : f.arg = cron}
Verdicts == {a \in Answers : a.kind = "tested" /\ a.of = "page"}
VerdictOn(cron) == {a \in Verdicts : a.ok <=> cron \in ValidCrons}
Knows(u, d, cron, error) ==
    Agrees(u, d, Testing(cron), Tests, {}, VerdictOn(cron), Verdicts, {}, ~error => cron \in ValidCrons)
FormKnows == form.at # "closed" => typing \/ Knows(up, down, form.cron, form.error)

DetailIsOwn == expanded.run # Nothing => expanded.run = expanded.id

\* A form that is closed waits for nothing.
Submits == {f \in Frames : f.kind = "submit" /\ f.of = "page"}
Submitted == {a \in Answers : a.kind = "submitted" /\ a.of = "page"}
FormOwns ==
    /\ ~Has(pending, Submits)
    /\ form.at = "closed" => ~Has(up, Submits) /\ ~Has(down, Submitted)

PageInv == PageTypes /\ Placed /\ TablesFollow /\ FormKnows /\ FormOwns /\ DetailIsOwn

\* The invariant says of quiet pages what is claimed of them.
LEMMA QuietPages == PageInv => PagesFollow
<1> SUFFICES ASSUME PageInv, PageQuiet PROVE /\ \A t \in current : shown[t] = Listed(t, filter)
                                             /\ form.at = "open" /\ ~form.error => form.cron \in ValidCrons
  BY DEF PagesFollow, PageInv, DetailIsOwn
<1>1. up = <<>> /\ down = <<>> /\ ~typing
  BY DEF PageQuiet
<1>2. \A P, Q : ~Has(up, P) /\ ~Has(down, P) /\ ~Ends(up, Q, P) /\ ~Ends(down, Q, P)
  BY <1>1 DEF Has, Ends
<1>3. \A t \in current : shown[t] = Listed(t, filter)
  BY <1>2 DEF PageInv, TablesFollow, Follows, Agrees
<1>4. form.at = "open" /\ ~form.error => form.cron \in ValidCrons
  BY <1>1, <1>2 DEF PageInv, FormKnows, Knows, Agrees
<1> QED
  BY <1>3, <1>4

-----------------------------------------------------------------------------
LEMMA FrameIs ==
    ASSUME NEW kind \in {"list", "get", "test", "run", "delete", "enable", "disable", "create", "submit"},
           NEW t \in Tables, NEW id \in AllIds, NEW arg \in AllArgs
    PROVE  /\ Frame(kind, t, id, arg) \in Frames
           /\ Frame(kind, t, id, arg).kind = kind /\ Frame(kind, t, id, arg).of = "page"
           /\ Frame(kind, t, id, arg).table = t /\ Frame(kind, t, id, arg).arg = arg
  BY DEF Frame, Frames, Elements

LEMMA AnswerIs ==
    ASSUME NEW r, r.of \in Elements, r.table \in Tables,
           NEW kind \in {"listed", "got", "tested", "done", "submitted", "completed"},
           NEW id \in AllIds, NEW ok \in BOOLEAN, NEW rows \in AllRows
    PROVE  /\ Answer(r, kind, id, ok, rows) \in Answers
           /\ Answer(r, kind, id, ok, rows).kind = kind /\ Answer(r, kind, id, ok, rows).of = r.of
           /\ Answer(r, kind, id, ok, rows).table = r.table /\ Answer(r, kind, id, ok, rows).id = id
           /\ Answer(r, kind, id, ok, rows).ok = ok /\ Answer(r, kind, id, ok, rows).rows = rows
  BY DEF Answer, Answers

LEMMA OneFrame ==
    ASSUME NEW S, NEW f \in S
    PROVE  /\ <<f>> \in Seq(S)
           /\ \A P : Has(<<f>>, P) <=> f \in P
           /\ \A P, Q : f \in Q => Ends(<<f>>, Q, P)
<1>1. <<f>> \in Seq(S) /\ DOMAIN <<f>> = {1} /\ <<f>>[1] = f
  OBVIOUS
<1> QED
  BY <1>1 DEF Has, Ends

\* What a load asks.
LEMMA ListsAre ==
    ASSUME NEW ts \in Seq(Tables), \A i, j \in DOMAIN ts : ts[i] = ts[j] => i = j,
           NEW choice \in Types \cup {Nothing}
    PROVE  /\ Lists(ts, choice) \in Seq(Frames)
           /\ ~Has(Lists(ts, choice), Tests) /\ ~Has(Lists(ts, choice), Lost)
           /\ ~Has(Lists(ts, choice), Submits)
           /\ \A t : t \notin Members(ts) => ~Has(Lists(ts, choice), Queries(t))
           /\ \A t \in Members(ts) : Ends(Lists(ts, choice), Asking(t, choice), Queries(t) \cup Lost)
           /\ \A v : Members(ts) \subseteq OfTab(v) => ~Has(Lists(ts, choice), StrayFrames(v))
<1> DEFINE x == Lists(ts, choice)
<1>1. /\ Len(ts) \in Nat /\ DOMAIN ts = 1..Len(ts) /\ \A i \in DOMAIN ts : ts[i] \in Tables
      /\ Nothing \in AllIds /\ choice \in AllArgs /\ Nothing \in AllArgs
  BY DEF AllIds, AllArgs
<1>2. \A i \in DOMAIN ts : /\ ListOf(ts[i], choice) \in Frames
                           /\ ListOf(ts[i], choice).kind = "list" /\ ListOf(ts[i], choice).of = "page"
                           /\ ListOf(ts[i], choice).table = ts[i]
                           /\ ts[i] = "memories" => ListOf(ts[i], choice).arg = choice
  BY <1>1, FrameIs DEF ListOf
<1>3. /\ DOMAIN x = DOMAIN ts /\ \A i \in DOMAIN ts : x[i] = ListOf(ts[i], choice)
      /\ x = [i \in 1..Len(ts) |-> ListOf(ts[i], choice)]
  BY <1>1 DEF Lists
<1>4. x \in Seq(Frames)
  BY <1>1, <1>2, <1>3
<1> HIDE DEF x
<1>5. ~Has(x, Tests) /\ ~Has(x, Lost) /\ ~Has(x, Submits)
  BY <1>2, <1>3 DEF Has, Tests, Lost, Submits
<1>6. \A t : t \notin Members(ts) => ~Has(x, Queries(t))
  BY <1>2, <1>3 DEF Has, Queries, Members
<1>7. ASSUME NEW t \in Members(ts)
      PROVE  Ends(x, Asking(t, choice), Queries(t) \cup Lost)
  <2>1. PICK i \in DOMAIN ts : ts[i] = t
    BY <1>7 DEF Members
  <2>2. x[i] \in Asking(t, choice)
    BY <1>2, <1>3, <2>1 DEF Asking, Queries, Live
  <2>3. \A j \in DOMAIN x : j # i => x[j] \notin Queries(t) /\ x[j] \notin Lost
    BY <1>2, <1>3, <2>1 DEF Queries, Lost
  <2>4. \A j \in DOMAIN x : j > i => j # i
    BY <1>1, <1>3, <2>1
  <2> QED
    BY <1>3, <2>1, <2>2, <2>3, <2>4, ZenonT(30) DEF Ends
<1>8. \A v : Members(ts) \subseteq OfTab(v) => ~Has(x, StrayFrames(v))
  BY <1>2, <1>3 DEF Has, StrayFrames, TableOf, Members
<1> QED
  BY <1>4, <1>5, <1>6, <1>7, <1>8 DEF x

\* A page that asks something else, and one that loads tables.
LEMMA FollowsAsking ==
    ASSUME NEW u \in Seq(Frames), NEW x \in Seq(Frames), NEW d, NEW t, NEW choice, NEW seen, NEW rows,
           Follows(u, d, t, choice, seen, rows), ~Has(x, Queries(t)), ~Has(x, Lost)
    PROVE  Follows(u \o x, d, t, choice, seen, rows)
  BY AgreesAsking DEF Follows

LEMMA FollowsLoad ==
    ASSUME NEW u \in Seq(Frames), NEW d, NEW t, NEW choice \in Types \cup {Nothing}, NEW seen, NEW rows,
           NEW ts \in Seq(Tables), \A i, j \in DOMAIN ts : ts[i] = ts[j] => i = j,
           t \in Members(ts) \/ Follows(u, d, t, choice, seen, rows)
    PROVE  Follows(u \o Lists(ts, choice), d, t, choice, seen, rows)
<1> DEFINE x == Lists(ts, choice)
<1>1. /\ x \in Seq(Frames) /\ ~Has(x, Lost)
      /\ t \notin Members(ts) => ~Has(x, Queries(t))
      /\ t \in Members(ts) => Ends(x, Asking(t, choice), Queries(t) \cup Lost)
  BY ListsAre
<1> HIDE DEF x
<1>2. ASSUME t \in Members(ts)
      PROVE  Follows(u \o x, d, t, choice, seen, rows)
  BY <1>1, <1>2, AgreesAsked DEF Follows
<1>3. ASSUME t \notin Members(ts)
      PROVE  Follows(u \o x, d, t, choice, seen, rows)
  BY <1>1, <1>3, FollowsAsking
<1> QED
  BY <1>2, <1>3 DEF x

LEMMA KnowsAsking ==
    ASSUME NEW u \in Seq(Frames), NEW x \in Seq(Frames), NEW d, NEW cron, NEW error,
           Knows(u, d, cron, error), ~Has(x, Tests)
    PROVE  Knows(u \o x, d, cron, error)
<1>1. ~Has(x, {})
  BY DEF Has
<1> QED
  BY <1>1, AgreesAsking DEF Knows

LEMMA KnowsTesting ==
    ASSUME NEW u \in Seq(Frames), NEW d, NEW cron \in Crons \cup {Nothing}, NEW error
    PROVE  Knows(u \o <<Test(cron)>>, d, cron, error)
<1>1. Test(cron) \in Frames /\ Test(cron) \in Testing(cron)
  <2>1. cron \in AllArgs /\ Nothing \in AllIds /\ "schedules" \in Tables
    BY DEF AllArgs, AllIds, Tables
  <2> QED
    BY <2>1, FrameIs DEF Test, Testing, Tests
<1>2. <<Test(cron)>> \in Seq(Frames) /\ Ends(<<Test(cron)>>, Testing(cron), Tests \cup {})
  BY <1>1, OneFrame
<1> QED
  BY <1>2, AgreesAsked DEF Knows

-----------------------------------------------------------------------------
\* The page asks for something else than a table.
LEMMA AsksOne ==
    ASSUME PageInv, NEW f \in Frames, f.of = "page", f.kind # "list", f \notin StrayFrames(tab), online,
           up' = up \o <<f>>, UNCHANGED <<stored, enabled, pending, tab, online, down, shown, filter, current>>
    PROVE  /\ up' \in Seq(Frames) /\ ~Has(up', StrayFrames(tab))
           /\ TablesFollow'
           /\ \A cron, error : f \notin Tests /\ Knows(up, down, cron, error) => Knows(up', down, cron, error)
           /\ f.kind # "submit" /\ ~Has(up, Submits) => ~Has(up', Submits)
<1>1. up \in Seq(Frames) /\ <<f>> \in Seq(Frames)
  BY OneFrame DEF PageInv, PageTypes
<1>2. /\ ~Has(<<f>>, Lost) /\ \A t : ~Has(<<f>>, Queries(t))
      /\ ~Has(<<f>>, StrayFrames(tab)) /\ (f \notin Tests => ~Has(<<f>>, Tests))
      /\ (f.kind # "submit" => ~Has(<<f>>, Submits))
  <2>1. f \notin Lost /\ (\A t : f \notin Queries(t)) /\ (f.kind # "submit" => f \notin Submits)
    BY DEF Lost, Queries, Submits
  <2> QED
    BY <2>1, OneFrame
<1>3. up' \in Seq(Frames) /\ ~Has(up', StrayFrames(tab))
  BY <1>1, <1>2, OnJoined DEF PageInv, Placed
<1>4. ASSUME NEW t \in current
      PROVE  Follows(up', down, t, filter, shown[t], Listed(t, filter))
  BY <1>1, <1>2, FollowsAsking DEF PageInv, TablesFollow
<1>5. TablesFollow'
  BY <1>4 DEF TablesFollow, Listed
<1>6. \A cron, error : f \notin Tests /\ Knows(up, down, cron, error) => Knows(up', down, cron, error)
  BY <1>1, <1>2, KnowsAsking
<1>7. f.kind # "submit" /\ ~Has(up, Submits) => ~Has(up', Submits)
  BY <1>1, <1>2, OnJoined
<1> QED
  BY <1>3, <1>5, <1>6, <1>7

\* What stays when only requests are made.
LEMMA AsksMore ==
    ASSUME PageInv, up' \in Seq(Frames), ~Has(up', StrayFrames(tab)), online, TablesFollow',
           ~Has(up, Submits) => ~Has(up', Submits),
           \A cron, error : Knows(up, down, cron, error) => Knows(up', down, cron, error),
           UNCHANGED <<stored, pending, tab, online, down, shown, filter, current, form, typing>>
    PROVE  PageTypes' /\ Placed' /\ TablesFollow' /\ FormKnows' /\ FormOwns' <=> expanded' \in [id : AllIds, run : AllIds]
<1>1. PageTypes' <=> expanded' \in [id : AllIds, run : AllIds]
  BY DEF PageInv, PageTypes
<1>2. Placed'
  BY DEF PageInv, Placed
<1>3. FormKnows'
  BY DEF PageInv, FormKnows
<1>4. FormOwns'
  BY DEF PageInv, FormOwns
<1> QED
  BY <1>1, <1>2, <1>3, <1>4

LEMMA TablesAre == /\ Tables = {"memories", "runs", "schedules", "alerts"}
                   /\ \A v : OfTab(v) \subseteq Tables
                   /\ Nothing \in AllIds /\ Nothing \in AllArgs
  BY DEF Tables, OfTab, AllIds, AllArgs

\* A row's button, or a form's, that asks for a change.
LEMMA ChangeStep ==
    ASSUME PageInv, NEW kind \in {"run", "delete", "enable", "disable", "create"}, NEW t \in OfTab(tab),
           kind \in {"enable", "disable"} => t = "schedules", kind = "create" => t = "alerts",
           NEW id \in AllIds, Change(Frame(kind, t, id, Nothing))
    PROVE  PageInv'
<1> DEFINE f == Frame(kind, t, id, Nothing)
<1>1. f \in Frames /\ f.kind = kind /\ f.of = "page" /\ f.table = t
  BY FrameIs, TablesAre
<1> HIDE DEF f
<1>2. f \notin StrayFrames(tab) /\ f \notin Tests
  BY <1>1 DEF StrayFrames, TableOf, Tests
<1>3. /\ online /\ up' = up \o <<f>>
      /\ UNCHANGED <<stored, enabled, pending, tab, online, down, shown, filter, current, expanded, form, typing>>
  BY DEF Change, Ask, pageRest, server, f
<1>4. /\ up' \in Seq(Frames) /\ ~Has(up', StrayFrames(tab)) /\ TablesFollow'
      /\ \A cron, error : Knows(up, down, cron, error) => Knows(up', down, cron, error)
      /\ ~Has(up, Submits) => ~Has(up', Submits)
  BY <1>1, <1>2, <1>3, AsksOne
<1>5. PageTypes' /\ Placed' /\ FormKnows' /\ FormOwns'
  BY <1>3, <1>4, AsksMore DEF PageInv, PageTypes
<1>6. DetailIsOwn'
  BY <1>3 DEF PageInv, DetailIsOwn
<1> QED
  BY <1>4, <1>5, <1>6 DEF PageInv

LEMMA RowButtons ==
    ASSUME PageInv,
           \/ \E i \in Memories : DeleteMemory(i)
           \/ \E s \in [id : Schedules, on : BOOLEAN] : DeleteSchedule(s) \/ Toggle(s) \/ RunNow(s)
           \/ \E i \in Alerts : CreateAlert(i)
    PROVE  PageInv'
<1>1. \A t \in Tables : Visible(t) # {} => t \in OfTab(tab)
  BY DEF PageInv, Placed, Visible
<1>2. /\ Memories \subseteq AllIds /\ Alerts \subseteq AllIds
      /\ \A s \in [id : Schedules, on : BOOLEAN] : s.id \in AllIds
  BY DEF AllIds
<1>3. ASSUME NEW i \in Memories, DeleteMemory(i)
      PROVE  PageInv'
  <2>1. "memories" \in OfTab(tab)
    BY <1>1, <1>3, TablesAre DEF DeleteMemory, MemoryRows
  <2>2. Change(Frame("delete", "memories", i, Nothing)) /\ i \in AllIds
    BY <1>2, <1>3 DEF DeleteMemory
  <2> QED
    BY <2>1, <2>2, ChangeStep
<1>4. ASSUME NEW s \in [id : Schedules, on : BOOLEAN], DeleteSchedule(s) \/ Toggle(s) \/ RunNow(s)
      PROVE  PageInv'
  <2>1. "schedules" \in OfTab(tab)
    BY <1>1, <1>4, TablesAre DEF DeleteSchedule, Toggle, RunNow, ScheduleRows
  <2>2. PICK kind \in {"delete", "enable", "disable", "run"} : Change(Frame(kind, "schedules", s.id, Nothing))
    BY <1>4 DEF DeleteSchedule, Toggle, RunNow
  <2>3. s.id \in AllIds
    BY <1>2
  <2> QED
    BY <2>1, <2>2, <2>3, ChangeStep
<1>5. ASSUME NEW i \in Alerts, CreateAlert(i)
      PROVE  PageInv'
  <2>1. "alerts" \in OfTab(tab)
    BY <1>5 DEF CreateAlert, OfTab
  <2>2. Change(Frame("create", "alerts", i, Nothing)) /\ i \in AllIds
    BY <1>2, <1>5 DEF CreateAlert
  <2> QED
    BY <2>1, <2>2, ChangeStep
<1> QED
  BY <1>3, <1>4, <1>5

LEMMA ToggleRunStep ==
    ASSUME PageInv, NEW i \in Runs, ToggleRun(i)
    PROVE  PageInv'
<1>1. PageTypes /\ DetailIsOwn /\ i \in AllIds /\ Nothing \in AllIds
  BY DEF PageInv, AllIds
<1>2. UNCHANGED <<stored, enabled, pending, tab, online, down, shown, filter, current, form, typing>>
  BY DEF ToggleRun, pageRest, server
<1>3. /\ expanded' \in [id : AllIds, run : AllIds] /\ DetailIsOwn'
      /\ up' = up \/ up' = up \o <<Frame("get", "runs", i, Nothing)>>
  BY <1>1 DEF ToggleRun, PageTypes, DetailIsOwn, Nobody, Ask
<1>4. online /\ "runs" \in OfTab(tab)
  BY TablesAre DEF ToggleRun, RunRows, Visible, PageInv, Placed
<1>5. ASSUME up' = up
      PROVE  PageInv'
  <2>1. PageTypes'
    BY <1>1, <1>2, <1>3, <1>5 DEF PageTypes
  <2>2. Placed'
    BY <1>2, <1>5 DEF PageInv, Placed
  <2>3. TablesFollow' /\ FormKnows' /\ FormOwns'
    BY <1>2, <1>5 DEF PageInv, TablesFollow, FormKnows, FormOwns, Listed
  <2> QED
    BY <1>3, <2>1, <2>2, <2>3 DEF PageInv
<1>6. ASSUME up' = up \o <<Frame("get", "runs", i, Nothing)>>
      PROVE  PageInv'
  <2> DEFINE f == Frame("get", "runs", i, Nothing)
  <2>1. f \in Frames /\ f.kind = "get" /\ f.of = "page" /\ f.table = "runs"
    BY <1>1, FrameIs, TablesAre
  <2> HIDE DEF f
  <2>2. f \notin StrayFrames(tab) /\ f \notin Tests
    BY <1>4, <2>1 DEF StrayFrames, TableOf, Tests
  <2>3. up' = up \o <<f>>
    BY <1>6 DEF f
  <2>4. /\ up' \in Seq(Frames) /\ ~Has(up', StrayFrames(tab)) /\ TablesFollow'
        /\ \A cron, error : Knows(up, down, cron, error) => Knows(up', down, cron, error)
        /\ ~Has(up, Submits) => ~Has(up', Submits)
    BY <1>2, <1>4, <2>1, <2>2, <2>3, AsksOne
  <2>5. PageTypes' /\ Placed' /\ FormKnows' /\ FormOwns'
    BY <1>2, <1>3, <1>4, <2>4, AsksMore
  <2> QED
    BY <1>3, <2>4, <2>5 DEF PageInv
<1> QED
  BY <1>3, <1>5, <1>6

\* A test, which the form awaits from then on.
LEMMA TestStep ==
    ASSUME PageInv, NEW cron \in Crons \cup {Nothing}, tab = "settings", online, form'.cron = cron,
           form' \in [at : {"closed", "open", "submitting"}, cron : Crons \cup {Nothing}, error : BOOLEAN],
           typing' \in BOOLEAN, form'.at # "closed",
           up' = up \o <<Test(cron)>>,
           UNCHANGED <<stored, enabled, pending, tab, online, down, shown, filter, current, expanded>>
    PROVE  PageInv'
<1>1. /\ Test(cron) \in Frames /\ Test(cron).kind = "test" /\ Test(cron).of = "page"
      /\ Test(cron).table = "schedules"
  <2>1. cron \in AllArgs
    BY DEF AllArgs
  <2> QED
    BY <2>1, FrameIs, TablesAre DEF Test
<1>2. Test(cron) \notin StrayFrames(tab)
  BY <1>1 DEF StrayFrames, TableOf, OfTab
<1>3. up' \in Seq(Frames) /\ ~Has(up', StrayFrames(tab)) /\ TablesFollow'
  BY <1>1, <1>2, AsksOne
<1>4. PageTypes'
  BY <1>3 DEF PageInv, PageTypes
<1>5. Placed'
  BY <1>3 DEF PageInv, Placed
<1>6. Knows(up', down', cron, form'.error)
  <2>1. up \in Seq(Frames)
    BY DEF PageInv, PageTypes
  <2> QED
    BY <2>1, KnowsTesting
<1>7. FormKnows' /\ FormOwns' /\ DetailIsOwn'
  BY <1>6 DEF FormKnows, FormOwns, PageInv, DetailIsOwn
<1> QED
  BY <1>3, <1>4, <1>5, <1>7 DEF PageInv

LEMMA OpenFormStep ==
    ASSUME PageInv, OpenForm
    PROVE  PageInv'
<1>1. PICK cron \in ValidCrons : form' = [at |-> "open", cron |-> cron, error |-> FALSE]
  BY PagesAssumption DEF OpenForm, PagesAssumption
<1>2. /\ tab = "settings" /\ online /\ up' = up \o <<Test(cron)>> /\ typing' = FALSE
      /\ UNCHANGED <<stored, enabled, pending, tab, online, down, shown, filter, current, expanded>>
  BY <1>1 DEF OpenForm, formRest, pageRest, server, Ask
<1>3. /\ cron \in Crons \cup {Nothing} /\ form'.cron = cron /\ form'.at # "closed" /\ typing' \in BOOLEAN
      /\ form' \in [at : {"closed", "open", "submitting"}, cron : Crons \cup {Nothing}, error : BOOLEAN]
  BY <1>1, <1>2, PagesAssumption DEF PagesAssumption
<1> QED
  BY <1>2, <1>3, TestStep

LEMMA TypeStep ==
    ASSUME PageInv, NEW cron \in Crons, Type(cron)
    PROVE  PageInv'
<1>1. /\ form.at # "closed" /\ form' = [form EXCEPT !.cron = cron] /\ typing' = TRUE
      /\ UNCHANGED <<up, stored, enabled, pending, tab, online, down, shown, filter, current, expanded>>
  BY DEF Type, formRest, pageRest, server
<1>2. form' \in [at : {"closed", "open", "submitting"}, cron : Crons \cup {Nothing}, error : BOOLEAN]
      /\ form'.at = form.at
  BY <1>1 DEF PageInv, PageTypes
<1>3. PageTypes'
  BY <1>1, <1>2 DEF PageInv, PageTypes
<1>4. Placed'
  BY <1>1, <1>2 DEF PageInv, Placed
<1>5. TablesFollow' /\ FormKnows' /\ FormOwns' /\ DetailIsOwn'
  BY <1>1, <1>2 DEF PageInv, TablesFollow, Listed, FormKnows, FormOwns, DetailIsOwn
<1> QED
  BY <1>3, <1>4, <1>5 DEF PageInv

LEMMA PreviewStep ==
    ASSUME PageInv, NEW cron \in Crons \cup {Nothing}, form.at # "closed", Preview(cron), typing' \in BOOLEAN,
           UNCHANGED formRest
    PROVE  PageInv'
<1>1. UNCHANGED <<stored, enabled, pending, tab, online, down, shown, filter, current, expanded>>
  BY DEF formRest, pageRest, server
<1>2. tab = "settings" /\ PageTypes
  BY DEF PageInv, Placed
<1>3. form \in [at : {"closed", "open", "submitting"}, cron : Crons \cup {Nothing}, error : BOOLEAN]
  BY <1>2 DEF PageTypes
<1>4. ASSUME online
      PROVE  PageInv'
  <2>1. up' = up \o <<Test(cron)>> /\ form' = [form EXCEPT !.cron = cron]
    BY <1>4 DEF Preview, Ask
  <2>2. /\ form'.cron = cron /\ form'.at # "closed"
        /\ form' \in [at : {"closed", "open", "submitting"}, cron : Crons \cup {Nothing}, error : BOOLEAN]
    BY <1>3, <2>1
  <2> QED
    BY <1>1, <1>2, <1>4, <2>1, <2>2, TestStep
<1>5. ASSUME ~online
      PROVE  PageInv'
  <2>1. up' = up /\ form' = [form EXCEPT !.cron = cron, !.error = TRUE]
    BY <1>5 DEF Preview
  <2>2. /\ form' \in [at : {"closed", "open", "submitting"}, cron : Crons \cup {Nothing}, error : BOOLEAN]
        /\ form'.at = form.at /\ form'.error
    BY <1>3, <2>1
  <2>3. PageTypes'
    BY <1>1, <1>2, <2>1, <2>2 DEF PageTypes
  <2>4. Placed'
    BY <1>1, <2>1, <2>2 DEF PageInv, Placed
  <2>5. TablesFollow' /\ DetailIsOwn'
    BY <1>1, <2>1 DEF PageInv, TablesFollow, Listed, DetailIsOwn
  <2>6. \A P : ~Has(up', P) /\ ~Has(down', P)
    BY <1>1, <1>5, <2>1 DEF PageInv, Placed, Has
  <2>7. FormKnows' /\ FormOwns'
    BY <1>1, <2>2, <2>6 DEF FormKnows, Knows, Agrees, FormOwns, PageInv
  <2> QED
    BY <2>3, <2>4, <2>5, <2>7 DEF PageInv
<1> QED
  BY <1>4, <1>5

LEMMA PresetStep ==
    ASSUME PageInv, NEW cron \in Crons, Preset(cron)
    PROVE  PageInv'
<1>1. form.at # "closed" /\ Preview(cron) /\ UNCHANGED formRest /\ typing' = typing
  BY DEF Preset
<1>2. typing' \in BOOLEAN
  BY <1>1 DEF PageInv, PageTypes
<1> QED
  BY <1>1, <1>2, PreviewStep

LEMMA DebouncedStep ==
    ASSUME PageInv, Debounced
    PROVE  PageInv'
<1>1. typing /\ typing' \in BOOLEAN /\ Preview(form.cron) /\ UNCHANGED formRest
  BY DEF Debounced
<1>2. form.at # "closed" /\ form.cron \in Crons \cup {Nothing}
  BY <1>1 DEF PageInv, PageTypes, Placed
<1> QED
  BY <1>1, <1>2, PreviewStep

LEMMA SubmitStep ==
    ASSUME PageInv, NEW i \in Schedules, Submit(i)
    PROVE  PageInv'
<1> DEFINE f == Frame("submit", "schedules", i, form.cron)
<1>1. PageTypes /\ i \in AllIds /\ form.cron \in AllArgs
  BY DEF PageInv, PageTypes, AllIds, AllArgs
<1>2. /\ online /\ form.at = "open" /\ form' = [form EXCEPT !.at = "submitting"] /\ up' = up \o <<f>>
      /\ UNCHANGED <<typing, stored, enabled, pending, tab, online, down, shown, filter, current, expanded>>
  BY DEF Submit, Ask, formRest, pageRest, server
<1>3. f \in Frames /\ f.kind = "submit" /\ f.of = "page" /\ f.table = "schedules"
  BY <1>1, FrameIs, TablesAre
<1> HIDE DEF f
<1>4. tab = "settings"
  BY <1>2 DEF PageInv, Placed
<1>5. f \notin StrayFrames(tab) /\ f \notin Tests
  BY <1>3, <1>4 DEF StrayFrames, TableOf, OfTab, Tests
<1>6. /\ up' \in Seq(Frames) /\ ~Has(up', StrayFrames(tab)) /\ TablesFollow'
      /\ \A cron, error : Knows(up, down, cron, error) => Knows(up', down, cron, error)
  BY <1>2, <1>3, <1>5, AsksOne
<1>7. /\ form' \in [at : {"closed", "open", "submitting"}, cron : Crons \cup {Nothing}, error : BOOLEAN]
      /\ form'.at = "submitting" /\ form'.cron = form.cron /\ form'.error = form.error
  BY <1>1, <1>2 DEF PageTypes
<1>8. PageTypes'
  BY <1>1, <1>2, <1>6, <1>7 DEF PageTypes
<1>9. Placed'
  BY <1>2, <1>4, <1>6 DEF PageInv, Placed
<1>10. FormKnows' /\ FormOwns' /\ DetailIsOwn'
  BY <1>2, <1>6, <1>7 DEF PageInv, FormKnows, FormOwns, DetailIsOwn
<1> QED
  BY <1>6, <1>8, <1>9, <1>10 DEF PageInv

-----------------------------------------------------------------------------
\* Some tables are loaded, after something that left right what else is shown.
LEMMA LoadStep ==
    ASSUME NEW ts \in Seq(Tables), \A i, j \in DOMAIN ts : ts[i] = ts[j] => i = j,
           NEW view, Members(ts) \subseteq OfTab(view), NEW v \in Seq(Frames), ~Has(v, StrayFrames(view)),
           filter' \in Types \cup {Nothing}, up' = v \o Lists(ts, filter'),
           NEW old, old \subseteq OfTab(view), current' = old \cup Members(ts),
           \A t \in old : t \in Members(ts) \/ Follows(v, down', t, filter', shown'[t], Listed(t, filter)')
    PROVE  /\ up' \in Seq(Frames) /\ ~Has(up', StrayFrames(view)) /\ current' \subseteq OfTab(view)
           /\ TablesFollow'
           /\ \A cron, error : Knows(v, down', cron, error) => Knows(up', down', cron, error)
           /\ ~Has(v, Submits) => ~Has(up', Submits)
<1> DEFINE x == Lists(ts, filter')
<1>1. x \in Seq(Frames) /\ ~Has(x, Tests) /\ ~Has(x, Submits) /\ ~Has(x, StrayFrames(view))
  BY ListsAre
<1> HIDE DEF x
<1>2. up' = v \o x
  BY DEF x
<1>3. up' \in Seq(Frames) /\ ~Has(up', StrayFrames(view))
  BY <1>1, <1>2, OnMore
<1>4. ASSUME NEW t \in current'
      PROVE  Follows(up', down', t, filter', shown'[t], Listed(t, filter)')
  <2>1. t \in Members(ts) \/ Follows(v, down', t, filter', shown'[t], Listed(t, filter)')
    OBVIOUS
  <2> QED
    BY <2>1, FollowsLoad
<1>5. \A cron, error : Knows(v, down', cron, error) => Knows(up', down', cron, error)
  BY <1>1, <1>2, KnowsAsking
<1>6. TablesFollow'
  BY <1>4 DEF TablesFollow
<1>7. ~Has(v, Submits) => ~Has(up', Submits)
  BY <1>1, <1>2, OnMore
<1> QED
  BY <1>3, <1>5, <1>6, <1>7

LEMMA LoadMore ==
    ASSUME Placed, NEW ts \in Seq(Tables), \A i, j \in DOMAIN ts : ts[i] = ts[j] => i = j,
           Members(ts) \subseteq OfTab(tab), NEW v \in Seq(Frames), ~Has(v, StrayFrames(tab)),
           filter' \in Types \cup {Nothing}, up' = v \o Lists(ts, filter'),
           current' = current \cup Members(ts),
           \A t \in current : t \in Members(ts) \/ Follows(v, down', t, filter', shown'[t], Listed(t, filter)')
    PROVE  /\ up' \in Seq(Frames) /\ ~Has(up', StrayFrames(tab)) /\ current' \subseteq OfTab(tab)
           /\ TablesFollow'
           /\ \A cron, error : Knows(v, down', cron, error) => Knows(up', down', cron, error)
           /\ ~Has(v, Submits) => ~Has(up', Submits)
<1>1. current \subseteq OfTab(tab)
  BY DEF Placed
<1> QED
  BY <1>1, LoadStep

LEMMA OneTable ==
    ASSUME NEW t \in Tables
    PROVE  /\ <<t>> \in Seq(Tables) /\ Members(<<t>>) = {t}
           /\ \A i, j \in DOMAIN <<t>> : <<t>>[i] = <<t>>[j] => i = j
<1>1. <<t>> \in Seq(Tables) /\ DOMAIN <<t>> = {1} /\ <<t>>[1] = t
  OBVIOUS
<1> QED
  BY <1>1 DEF Members

LEMMA NeedsAre ==
    ASSUME NEW v \in {"settings", "alerts"}
    PROVE  /\ Needs[v] \in Seq(Tables) /\ Members(Needs[v]) = OfTab(v)
           /\ \A i, j \in DOMAIN Needs[v] : Needs[v][i] = Needs[v][j] => i = j
<1>1. CASE v = "settings"
  <2>1. Needs[v] = <<"memories", "runs", "schedules">>
    BY <1>1 DEF Needs
  <2> DEFINE s == <<"memories", "runs", "schedules">>
  <2>2. /\ s \in Seq(Tables) /\ DOMAIN s = {1, 2, 3}
        /\ s[1] = "memories" /\ s[2] = "runs" /\ s[3] = "schedules"
    BY DEF Tables
  <2> HIDE DEF s
  <2>3. Members(s) = {"memories", "runs", "schedules"} /\ \A i, j \in DOMAIN s : s[i] = s[j] => i = j
    BY <2>2 DEF Members
  <2> QED
    BY <1>1, <2>1, <2>2, <2>3 DEF s, OfTab
<1>2. CASE v = "alerts"
  <2>1. Needs[v] = <<"alerts">> /\ OfTab(v) = {"alerts"}
    BY <1>2 DEF Needs, OfTab
  <2> QED
    BY <2>1, OneTable, TablesAre
<1> QED
  BY <1>1, <1>2

\* What the page says of each table when only the lists of frames change.
LEMMA StillFollows ==
    ASSUME PageInv, UNCHANGED <<stored, enabled, shown, filter>>, NEW t \in current
    PROVE  /\ Follows(up, down, t, filter', shown'[t], Listed(t, filter)')
           /\ shown'[t] = shown[t] /\ Listed(t, filter)' = Listed(t, filter)
<1>1. Listed(t, filter)' = Listed(t, filter)
  BY DEF Listed
<1> QED
  BY <1>1 DEF PageInv, TablesFollow

LEMMA RefreshStep ==
    ASSUME PageInv, NEW t \in Tables, Refresh(t)
    PROVE  PageInv'
<1>1. /\ online /\ t \in OfTab(tab) /\ up' = up \o Lists(<<t>>, filter) /\ current' = current \cup Members(<<t>>)
      /\ UNCHANGED <<stored, enabled, pending, tab, online, down, shown, filter, expanded, form, typing>>
  BY NeedsAre DEF Refresh, LoadTables, LoadOf, Ask, pageRest, server, PageInv, PageTypes
<1>2. PageTypes /\ Placed /\ up \in Seq(Frames) /\ filter' \in Types \cup {Nothing}
  BY <1>1 DEF PageInv, PageTypes
<1>3. \A s \in current : Follows(up, down', s, filter', shown'[s], Listed(s, filter)')
  BY <1>1, StillFollows
<1>4. /\ up' \in Seq(Frames) /\ ~Has(up', StrayFrames(tab)) /\ current' \subseteq OfTab(tab) /\ TablesFollow'
      /\ \A cron, error : Knows(up, down', cron, error) => Knows(up', down', cron, error)
      /\ ~Has(up, Submits) => ~Has(up', Submits)
  <2>1. ~Has(up, StrayFrames(tab)) /\ current \subseteq OfTab(tab)
    BY <1>2 DEF Placed
  <2> HIDE DEF PageInv
  <2> QED
    BY <1>1, <1>2, <1>3, <2>1, OneTable, LoadMore
<1>5. PageTypes'
  BY <1>1, <1>2, <1>4, TablesAre DEF PageTypes
<1>6. Placed'
  BY <1>1, <1>2, <1>4 DEF Placed
<1>7. FormKnows' /\ FormOwns' /\ DetailIsOwn'
  BY <1>1, <1>4 DEF PageInv, FormKnows, FormOwns, DetailIsOwn
<1> QED
  BY <1>4, <1>5, <1>6, <1>7 DEF PageInv

LEMMA FilterStep ==
    ASSUME PageInv, NEW f \in Types \cup {Nothing}, Filter(f)
    PROVE  PageInv'
<1> DEFINE ts == <<"memories">>
<1>1. /\ online /\ tab = "settings" /\ filter' = f
      /\ up' = up \o Lists(ts, filter') /\ current' = current \cup Members(ts)
      /\ UNCHANGED <<stored, enabled, pending, tab, online, down, shown, expanded, form, typing>>
  BY DEF Filter, LoadOf, Ask, pageRest, server
<1>2. PageTypes /\ Placed /\ up \in Seq(Frames) /\ ~Has(up, StrayFrames(tab))
  BY DEF PageInv, PageTypes, Placed
<1>3. /\ ts \in Seq(Tables) /\ Members(ts) = {"memories"} /\ \A i, j \in DOMAIN ts : ts[i] = ts[j] => i = j
      /\ "memories" \in OfTab(tab)
  BY <1>1, OneTable, TablesAre DEF OfTab
<1> HIDE DEF ts
<1>4. ASSUME NEW s \in current
      PROVE  s \in Members(ts) \/ Follows(up, down', s, filter', shown'[s], Listed(s, filter)')
  <2> SUFFICES ASSUME s # "memories" PROVE Follows(up, down', s, filter', shown'[s], Listed(s, filter)')
    BY <1>3
  <2>1. Listed(s, filter)' = Listed(s, filter) /\ Asking(s, filter') = Asking(s, filter)
    BY <1>1 DEF Listed, Asking
  <2>2. Follows(up, down, s, filter, shown[s], Listed(s, filter))
    BY DEF PageInv, TablesFollow
  <2> QED
    BY <1>1, <2>1, <2>2 DEF Follows
<1>5. /\ up' \in Seq(Frames) /\ ~Has(up', StrayFrames(tab)) /\ current' \subseteq OfTab(tab) /\ TablesFollow'
      /\ \A cron, error : Knows(up, down', cron, error) => Knows(up', down', cron, error)
      /\ ~Has(up, Submits) => ~Has(up', Submits)
  BY <1>1, <1>2, <1>3, <1>4, LoadMore
<1>6. PageTypes'
  BY <1>1, <1>2, <1>5, TablesAre DEF PageTypes
<1>7. Placed'
  BY <1>1, <1>2, <1>5 DEF Placed
<1>8. FormKnows' /\ FormOwns' /\ DetailIsOwn'
  BY <1>1, <1>5 DEF PageInv, FormKnows, FormOwns, DetailIsOwn
<1> QED
  BY <1>5, <1>6, <1>7, <1>8 DEF PageInv

\* Frames whose element is another one.
LEMMA Marked ==
    ASSUME NEW s \in Seq(Frames), NEW m, m = [i \in DOMAIN s |-> m[i]],
           \A i \in DOMAIN s : \E of \in Elements : m[i] = [s[i] EXCEPT !.of = of]
    PROVE  /\ m \in Seq(Frames)
           /\ \A i \in DOMAIN s : /\ s[i] \in Frames /\ m[i] \in Frames /\ m[i].kind = s[i].kind
                                  /\ m[i].table = s[i].table /\ m[i].arg = s[i].arg
<1>1. Len(s) \in Nat /\ DOMAIN s = 1..Len(s) /\ \A i \in DOMAIN s : s[i] \in Frames
  OBVIOUS
<1>2. \A i \in DOMAIN s : /\ m[i] \in Frames /\ m[i].kind = s[i].kind
                          /\ m[i].table = s[i].table /\ m[i].arg = s[i].arg
  BY <1>1 DEF Frames
<1>3. m = [i \in 1..Len(s) |-> m[i]] /\ \A i \in 1..Len(s) : m[i] \in Frames
  BY <1>1, <1>2
<1>4. m \in Seq(Frames)
  BY <1>1, <1>3
<1> QED
  BY <1>1, <1>2, <1>4

LEMMA GoneAre ==
    ASSUME NEW s \in Seq(Frames)
    PROVE  /\ Becomes(s, "gone") \in Seq(Frames) /\ ~Has(Becomes(s, "gone"), Live)
           /\ \A v, w : ~Has(s, StrayFrames(v)) => ~Has(Becomes(s, "gone"), StrayFrames(w))
<1> DEFINE m == Becomes(s, "gone")
<1>1. DOMAIN m = DOMAIN s /\ \A i \in DOMAIN s : m[i] = [s[i] EXCEPT !.of = "gone"]
  BY DEF Becomes
<1>2. m = [i \in DOMAIN s |-> m[i]]
  BY DEF Becomes
<1> HIDE DEF m
<1>3. /\ m \in Seq(Frames)
      /\ \A i \in DOMAIN s : /\ s[i] \in Frames /\ m[i] \in Frames /\ m[i].kind = s[i].kind
                             /\ m[i].table = s[i].table
  <2>1. \A i \in DOMAIN s : \E of \in Elements : m[i] = [s[i] EXCEPT !.of = of]
    BY <1>1 DEF Elements
  <2>2. /\ m \in Seq(Frames)
        /\ \A i \in DOMAIN s : /\ s[i] \in Frames /\ m[i] \in Frames /\ m[i].kind = s[i].kind
                               /\ m[i].table = s[i].table /\ m[i].arg = s[i].arg
    BY <1>2, <2>1, Marked, ZenonT(30)
  <2> QED
    BY <2>2
<1>4. \A i \in DOMAIN s : m[i].of = "gone"
  BY <1>1, <1>3 DEF Frames
<1>5. \A v, w : \A i \in DOMAIN s : m[i] \notin Live /\ (m[i] \in StrayFrames(w) => s[i] \in StrayFrames(v))
  BY <1>3, <1>4 DEF Live, StrayFrames, TableOf
<1> QED
  BY <1>1, <1>3, <1>5 DEF m, Has

LEMMA LeftFrames ==
    ASSUME NEW s \in Seq(Frames)
    PROVE  /\ FormLeft(s) \in Seq(Frames) /\ DOMAIN FormLeft(s) = DOMAIN s
           /\ \A t, choice : \A i \in DOMAIN s :
                /\ FormLeft(s)[i] \in Queries(t) => s[i] \in Queries(t)
                /\ s[i] \in Asking(t, choice) => FormLeft(s)[i] \in Asking(t, choice)
                /\ FormLeft(s)[i] \in Lost => s[i] \in Lost
           /\ \A v : ~Has(s, StrayFrames(v)) => ~Has(FormLeft(s), StrayFrames(v))
           /\ ~Has(FormLeft(s), Submits)
<1> DEFINE m == FormLeft(s)
<1>1. DOMAIN m = DOMAIN s /\ \A i \in DOMAIN s : m[i] = [s[i] EXCEPT !.of = Orphan(s[i])]
  BY DEF FormLeft
<1>2. m = [i \in DOMAIN s |-> m[i]]
  BY DEF FormLeft
<1> HIDE DEF m
<1>3. \A f \in Frames : /\ Orphan(f) \in Elements
                        /\ Orphan(f) = "gone" => f.of = "gone" \/ f.kind = "test"
                        /\ f.of = "gone" => Orphan(f) = "gone"
                        /\ f.kind = "list" => Orphan(f) = f.of
                        /\ f.kind = "submit" => Orphan(f) # "page"
  <2> SUFFICES ASSUME NEW f \in Frames
               PROVE  /\ Orphan(f) \in Elements
                      /\ Orphan(f) = "gone" => f.of = "gone" \/ f.kind = "test"
                      /\ f.of = "gone" => Orphan(f) = "gone"
                      /\ f.kind = "list" => Orphan(f) = f.of
                      /\ f.kind = "submit" => Orphan(f) # "page"
    OBVIOUS
  <2>1. f.of \in {"page", "left", "gone"} /\ f.kind # "tested"
    BY DEF Frames, Elements
  <2> QED
    BY <2>1 DEF Orphan, Elements
<1>4. \A i \in DOMAIN s : s[i] \in Frames
  OBVIOUS
<1>5. /\ m \in Seq(Frames)
      /\ \A i \in DOMAIN s : /\ s[i] \in Frames /\ m[i] \in Frames /\ m[i].kind = s[i].kind
                             /\ m[i].table = s[i].table /\ m[i].arg = s[i].arg
  <2>1. \A i \in DOMAIN s : \E of \in Elements : m[i] = [s[i] EXCEPT !.of = of]
    BY <1>1, <1>3, <1>4
  <2> QED
    BY <1>2, <2>1, Marked, ZenonT(30)
<1>6. \A i \in DOMAIN s : m[i].of = Orphan(s[i])
  BY <1>1, <1>4 DEF Frames
<1>7. \A i \in DOMAIN s : /\ m[i].of = "gone" => s[i].of = "gone" \/ s[i].kind = "test"
                          /\ s[i].of = "gone" => m[i].of = "gone"
                          /\ s[i].kind = "list" => m[i].of = s[i].of
                          /\ s[i].kind = "submit" => m[i].of # "page"
  BY <1>3, <1>4, <1>6
<1>8. \A t, choice : \A i \in DOMAIN s : /\ m[i] \in Queries(t) => s[i] \in Queries(t)
                                         /\ s[i] \in Asking(t, choice) => m[i] \in Asking(t, choice)
                                         /\ m[i] \in Lost => s[i] \in Lost
  BY <1>5, <1>7 DEF Queries, Asking, Lost, Live
<1>9. \A v : \A i \in DOMAIN s : m[i] \in StrayFrames(v) => s[i] \in StrayFrames(v)
  BY <1>5, <1>7 DEF StrayFrames, TableOf, Live
<1>10. \A i \in DOMAIN s : m[i] \notin Submits
  BY <1>5, <1>7 DEF Submits
<1> QED
  BY <1>1, <1>5, <1>8, <1>9, <1>10 DEF m, Has

LEMMA LeftAnswers ==
    ASSUME NEW s \in Seq(Answers)
    PROVE  /\ FormLeft(s) \in Seq(Answers) /\ DOMAIN FormLeft(s) = DOMAIN s
           /\ \A t, rows : \A i \in DOMAIN s :
                /\ FormLeft(s)[i] \in Listings(t) => s[i] \in Listings(t)
                /\ s[i] \in Reports(t, rows) => FormLeft(s)[i] \in Reports(t, rows)
                /\ s[i] \in Prompts(t) => FormLeft(s)[i] \in Prompts(t)
           /\ \A v : ~Has(s, StrayAnswers(v)) => ~Has(FormLeft(s), StrayAnswers(v))
           /\ ~Has(FormLeft(s), Submitted)
<1> DEFINE m == FormLeft(s)
<1>1. DOMAIN m = DOMAIN s /\ \A i \in DOMAIN s : m[i] = [s[i] EXCEPT !.of = Orphan(s[i])]
  BY DEF FormLeft
<1>2. m = [i \in DOMAIN s |-> m[i]] /\ Len(s) \in Nat /\ DOMAIN s = 1..Len(s) /\ \A i \in DOMAIN s : s[i] \in Answers
  BY DEF FormLeft
<1> HIDE DEF m
<1>3. \A f \in Answers : Orphan(f) \in Elements /\ (f.kind = "submitted" => Orphan(f) # "page")
  <2>1. \A f \in Answers : f.of \in {"page", "left", "gone"}
    BY DEF Answers, Elements
  <2> QED
    BY <2>1 DEF Orphan, Elements
<1>4. \A i \in DOMAIN s : /\ m[i] \in Answers /\ m[i].kind = s[i].kind /\ m[i].table = s[i].table
                          /\ m[i].ok = s[i].ok /\ m[i].rows = s[i].rows /\ m[i].of = Orphan(s[i])
  BY <1>1, <1>2, <1>3 DEF Answers
<1>5. m = [i \in 1..Len(s) |-> m[i]] /\ \A i \in 1..Len(s) : m[i] \in Answers
  BY <1>2, <1>4
<1>6. m \in Seq(Answers)
  BY <1>2, <1>5
<1>7. \A t, rows : \A i \in DOMAIN s : /\ m[i] \in Listings(t) => s[i] \in Listings(t)
                                       /\ s[i] \in Reports(t, rows) => m[i] \in Reports(t, rows)
                                       /\ s[i] \in Prompts(t) => m[i] \in Prompts(t)
  BY <1>2, <1>4 DEF Listings, Reports, Prompts
<1>8. \A v : \A i \in DOMAIN s : m[i] \in StrayAnswers(v) => s[i] \in StrayAnswers(v)
  BY <1>2, <1>4 DEF StrayAnswers
<1>9. \A i \in DOMAIN s : m[i] \notin Submitted
  BY <1>2, <1>3, <1>4 DEF Submitted
<1> QED
  BY <1>1, <1>6, <1>7, <1>8, <1>9 DEF m, Has

LEMMA FollowsLeft ==
    ASSUME NEW u \in Seq(Frames), NEW d \in Seq(Answers), NEW t, NEW choice, NEW seen, NEW rows,
           Follows(u, d, t, choice, seen, rows)
    PROVE  Follows(FormLeft(u), FormLeft(d), t, choice, seen, rows)
<1>1. DOMAIN FormLeft(u) = DOMAIN u /\ DOMAIN FormLeft(d) = DOMAIN d
  BY LeftFrames, LeftAnswers
<1>2. \A i \in DOMAIN u : /\ FormLeft(u)[i] \in Queries(t) => u[i] \in Queries(t)
                          /\ FormLeft(u)[i] \in Lost => u[i] \in Lost
                          /\ u[i] \in Asking(t, choice) => FormLeft(u)[i] \in Asking(t, choice)
  BY LeftFrames
<1>3. \A i \in DOMAIN d : /\ FormLeft(d)[i] \in Listings(t) => d[i] \in Listings(t)
                          /\ d[i] \in Reports(t, rows) => FormLeft(d)[i] \in Reports(t, rows)
                          /\ d[i] \in Prompts(t) => FormLeft(d)[i] \in Prompts(t)
  BY LeftAnswers
<1> QED
  BY <1>1, <1>2, <1>3, AgreesMarked DEF Follows

LEMMA OpenedStep ==
    ASSUME PageInv, NEW view \in {"settings", "alerts"}, Opened(view)
    PROVE  PageInv'
<1>1. /\ tab' = view /\ shown' = [x \in Tables |-> {}] /\ filter' = Nothing /\ expanded' = Nobody
      /\ form' = NoForm /\ typing' = FALSE /\ down' = <<>>
      /\ up' = Becomes(up, "gone") \o (IF online THEN Lists(Needs[view], Nothing) ELSE <<>>)
      /\ current' = (IF online THEN Members(Needs[view]) ELSE {})
      /\ pending' = Becomes(pending, "gone")
      /\ UNCHANGED <<stored, enabled, online>>
  BY DEF Opened
<1>2. PageTypes /\ Placed /\ up \in Seq(Frames) /\ pending \in Seq(Frames)
  BY DEF PageInv, PageTypes
<1> DEFINE v == Becomes(up, "gone")
<1>3. /\ v \in Seq(Frames) /\ ~Has(v, StrayFrames(view))
      /\ pending' \in Seq(Frames) /\ ~Has(pending', Live) /\ ~Has(pending', StrayFrames(view))
      /\ ~Has(v, Live)
  BY <1>1, <1>2, GoneAre DEF Placed
<1> HIDE DEF v
<1>4. /\ up' \in Seq(Frames) /\ ~Has(up', StrayFrames(view)) /\ current' \subseteq OfTab(view) /\ TablesFollow'
      /\ (~online => up' = <<>>) /\ ~Has(up', Submits)
  <2>1. CASE online
    <3>1. /\ up' = v \o Lists(Needs[view], filter') /\ current' = {} \cup Members(Needs[view])
          /\ filter' \in Types \cup {Nothing}
      BY <1>1, <2>1 DEF v
    <3>2. Members(Needs[view]) \subseteq OfTab(view)
      BY NeedsAre
    <3> DEFINE ts == Needs[view]
    <3>3. /\ ts \in Seq(Tables) /\ Members(ts) \subseteq OfTab(view)
          /\ \A i, j \in DOMAIN ts : ts[i] = ts[j] => i = j
          /\ up' = v \o Lists(ts, filter') /\ current' = {} \cup Members(ts)
      BY <3>1, <3>2, NeedsAre
    <3> HIDE DEF ts
    <3>4. {} \subseteq OfTab(view) /\ \A t \in {} : t \in Members(ts) \/ Follows(v, down', t, filter', shown'[t], Listed(t, filter)')
      OBVIOUS
    <3>5. /\ up' \in Seq(Frames) /\ ~Has(up', StrayFrames(view)) /\ current' \subseteq OfTab(view) /\ TablesFollow'
          /\ \A cron, error : Knows(v, down', cron, error) => Knows(up', down', cron, error)
          /\ ~Has(v, Submits) => ~Has(up', Submits)
      BY <1>3, <3>1, <3>3, <3>4, LoadStep, ZenonT(30)
    <3>6. ~Has(v, Submits)
      BY <1>3 DEF Has, Submits, Live
    <3> QED
      BY <2>1, <3>5, <3>6
  <2>2. CASE ~online
    <3>1. up' = <<>>
      <4>1. up = <<>>
        BY <1>2, <2>2 DEF Placed
      <4>2. Becomes(up, "gone") = <<>>
        BY <4>1 DEF Becomes
      <4> QED
        BY <1>1, <2>2, <4>2
    <3>2. current' = {}
      BY <1>1, <2>2
    <3> QED
      BY <3>1, <3>2 DEF Has, TablesFollow
  <2> QED
    BY <2>1, <2>2
<1>5. PageTypes'
  <2>1. /\ filter' \in Types \cup {Nothing} /\ expanded' \in [id : AllIds, run : AllIds]
        /\ form' \in [at : {"closed", "open", "submitting"}, cron : Crons \cup {Nothing}, error : BOOLEAN]
        /\ shown' \in [Tables -> AllRows] /\ down' \in Seq(Answers)
    BY <1>1, TablesAre DEF NoForm, Nobody, AllRows
  <2> QED
    BY <1>1, <1>2, <1>3, <1>4, <2>1, TablesAre DEF PageTypes
<1>6. Placed'
  <2>1. ~Has(down', StrayAnswers(view))
    BY <1>1 DEF Has
  <2>2. form'.at = "closed"
    BY <1>1 DEF NoForm
  <2>3. ~online' => up' = <<>> /\ down' = <<>> /\ current' = {}
    BY <1>1, <1>4
  <2> QED
    BY <1>1, <1>3, <1>4, <2>1, <2>2, <2>3 DEF Placed
<1>7. FormKnows' /\ FormOwns' /\ DetailIsOwn'
  <2>1. ~Has(down', Submitted) /\ ~Has(pending', Submits)
    BY <1>1, <1>3 DEF Has, Submits, Live
  <2> QED
    BY <1>1, <1>4, <2>1 DEF FormKnows, FormOwns, DetailIsOwn, NoForm, Nobody
<1> QED
  BY <1>4, <1>5, <1>6, <1>7 DEF PageInv

LEMMA FormIsLeft ==
    ASSUME PageInv
    PROVE  /\ FormLeft(up) \in Seq(Frames) /\ ~Has(FormLeft(up), StrayFrames(tab))
           /\ FormLeft(down) \in Seq(Answers) /\ ~Has(FormLeft(down), StrayAnswers(tab))
           /\ ~Has(FormLeft(up), Submits) /\ ~Has(FormLeft(down), Submitted)
           /\ ~online => FormLeft(up) = <<>> /\ FormLeft(down) = <<>>
<1>1. up \in Seq(Frames) /\ down \in Seq(Answers) /\ Placed
  BY DEF PageInv, PageTypes
<1>2. ~online => up = <<>> /\ down = <<>>
  BY <1>1 DEF Placed
<1>3. FormLeft(<<>>) = <<>>
  BY DEF FormLeft
<1> QED
  BY <1>1, <1>2, <1>3, LeftFrames, LeftAnswers DEF Placed

LEMMA CloseFormStep ==
    ASSUME PageInv, CloseForm
    PROVE  PageInv'
<1>1. /\ form' = NoForm /\ typing' = FALSE /\ up' = FormLeft(up) /\ down' = FormLeft(down)
      /\ UNCHANGED <<stored, enabled, pending, tab, online, shown, filter, current, expanded>>
  BY DEF CloseForm, server
<1>2. /\ up' \in Seq(Frames) /\ ~Has(up', StrayFrames(tab))
      /\ down' \in Seq(Answers) /\ ~Has(down', StrayAnswers(tab))
      /\ ~Has(up', Submits) /\ ~Has(down', Submitted)
      /\ ~online => up' = <<>> /\ down' = <<>>
  BY <1>1, FormIsLeft
<1>3. form'.at = "closed"
      /\ form' \in [at : {"closed", "open", "submitting"}, cron : Crons \cup {Nothing}, error : BOOLEAN]
  BY <1>1 DEF NoForm
<1>4. PageTypes'
  BY <1>1, <1>2, <1>3 DEF PageInv, PageTypes
<1>5. Placed'
  BY <1>1, <1>2, <1>3 DEF PageInv, Placed
<1>6. TablesFollow'
  <2>1. up \in Seq(Frames) /\ down \in Seq(Answers)
    BY DEF PageInv, PageTypes
  <2>2. ASSUME NEW t \in current
        PROVE  Follows(FormLeft(up), FormLeft(down), t, filter', shown'[t], Listed(t, filter)')
    BY <1>1, <2>1, StillFollows, FollowsLeft
  <2> QED
    BY <1>1, <2>2 DEF TablesFollow
<1>7. FormKnows' /\ FormOwns' /\ DetailIsOwn'
  BY <1>1, <1>2, <1>3 DEF PageInv, FormKnows, FormOwns, DetailIsOwn
<1> QED
  BY <1>4, <1>5, <1>6, <1>7 DEF PageInv

LEMMA ElsewhereStep ==
    ASSUME PageInv, Elsewhere
    PROVE  PageInv'
<1>1. PICK t \in {"runs", "memories"}, rows \in SUBSET AllIds :
        stored' = [stored EXCEPT ![t] = rows] /\ current' = current \ {t}
  <2>1. PageTypes /\ Runs \subseteq AllIds /\ "runs" \in Tables /\ "memories" \in Tables
    BY DEF PageInv, AllIds, Tables
  <2>2. /\ \A i \in Runs : stored["runs"] \cup {i} \in SUBSET AllIds
        /\ \A i : stored["memories"] \ {i} \in SUBSET AllIds
    BY <2>1 DEF PageTypes
  <2>3. ASSUME NEW i \in Runs \ stored["runs"], stored' = [stored EXCEPT !["runs"] = @ \cup {i}],
               current' = current \ {"runs"}
        PROVE  \E x \in {"runs", "memories"}, rows \in SUBSET AllIds :
                 stored' = [stored EXCEPT ![x] = rows] /\ current' = current \ {x}
    <3>1. stored' = [stored EXCEPT !["runs"] = stored["runs"] \cup {i}]
      BY <2>3
    <3> QED
      BY <2>2, <2>3, <3>1, ZenonT(30)
  <2>4. ASSUME NEW i \in stored["memories"], stored' = [stored EXCEPT !["memories"] = @ \ {i}],
               current' = current \ {"memories"}
        PROVE  \E x \in {"runs", "memories"}, rows \in SUBSET AllIds :
                 stored' = [stored EXCEPT ![x] = rows] /\ current' = current \ {x}
    <3>1. /\ stored' = [stored EXCEPT !["memories"] = stored["memories"] \ {i}]
          /\ stored["memories"] \ {i} \in SUBSET AllIds
      BY <2>2, <2>4
    <3> QED
      BY <2>4, <3>1
  <2> QED
    BY <2>3, <2>4 DEF Elsewhere
<1>2. UNCHANGED <<enabled, pending, tab, online, up, down, shown, filter, expanded, form, typing>>
  BY DEF Elsewhere
<1>3. PageTypes'
  BY <1>1, <1>2, TablesAre DEF PageInv, PageTypes
<1>4. Placed'
  BY <1>1, <1>2 DEF PageInv, Placed
<1>5. TablesFollow'
  <2>1. \A s \in Tables : s # t => stored'[s] = stored[s]
    BY <1>1 DEF PageInv, PageTypes
  <2>2. ASSUME NEW s \in current'
        PROVE  Follows(up, down, s, filter, shown[s], Listed(s, filter)')
    <3>1. s \in current /\ s \in Tables /\ s # t
      BY <1>1 DEF PageInv, PageTypes
    <3>2. Listed(s, filter)' = Listed(s, filter)
      BY <1>2, <2>1, <3>1, TablesAre DEF Listed
    <3> QED
      BY <3>1, <3>2 DEF PageInv, TablesFollow
  <2> QED
    BY <1>2, <2>2 DEF TablesFollow, Listed
<1>6. FormKnows' /\ FormOwns' /\ DetailIsOwn'
  BY <1>2 DEF PageInv, FormKnows, FormOwns, DetailIsOwn
<1> QED
  BY <1>3, <1>4, <1>5, <1>6 DEF PageInv

-----------------------------------------------------------------------------
\* An answer is taken that says nothing of a table, or of the form.
LEMMA Taken ==
    ASSUME PageInv, down # <<>>
    PROVE  /\ Head(down) \in Answers /\ Head(down) \notin StrayAnswers(tab)
           /\ Tail(down) \in Seq(Answers) /\ ~Has(Tail(down), StrayAnswers(tab)) /\ online
           /\ ~Has(down, Submitted) => Head(down) \notin Submitted /\ ~Has(Tail(down), Submitted)
<1>1. down \in Seq(Answers) /\ ~Has(down, StrayAnswers(tab)) /\ online
  BY DEF PageInv, PageTypes, Placed
<1>2. /\ Has(down, StrayAnswers(tab)) <=> Has(Tail(down), StrayAnswers(tab)) \/ Head(down) \in StrayAnswers(tab)
      /\ Has(down, Submitted) <=> Has(Tail(down), Submitted) \/ Head(down) \in Submitted
  BY <1>1, OnTaken
<1> QED
  BY <1>1, <1>2, OnTaken

LEMMA FollowsTaken ==
    ASSUME PageInv, down # <<>>, NEW t \in current, Head(down) \notin Prompts(t), NEW seen,
           IF Head(down) \in Listings(t) THEN seen = Head(down).rows ELSE seen = shown[t]
    PROVE  Follows(up, Tail(down), t, filter, seen, Listed(t, filter))
<1> DEFINE rows == Listed(t, filter)
<1>1. down \in Seq(Answers) /\ Follows(up, down, t, filter, shown[t], rows)
  BY DEF PageInv, PageTypes, TablesFollow
<1> HIDE DEF rows
<1>2. Reports(t, rows) \subseteq Listings(t)
  BY DEF Reports
<1>3. /\ Head(down) \in Listings(t) /\ Head(down) \in Reports(t, rows) => seen = rows
      /\ Head(down) \notin Listings(t) => (seen = rows <=> shown[t] = rows)
  BY DEF Reports
<1> QED
  BY <1>1, <1>2, <1>3, AgreesGot DEF Follows, rows

LEMMA KnowsTaken ==
    ASSUME NEW d \in Seq(Answers), d # <<>>, NEW u, NEW cron, NEW error, Knows(u, d, cron, error), NEW new,
           IF Head(d) \in Verdicts THEN new = ~Head(d).ok ELSE new = error
    PROVE  Knows(u, Tail(d), cron, new)
<1>1. VerdictOn(cron) \subseteq Verdicts /\ Head(d) \notin {}
  BY DEF VerdictOn
<1>2. Head(d) \in Verdicts /\ Head(d) \in VerdictOn(cron) => (~new => cron \in ValidCrons)
  BY DEF VerdictOn
<1>3. Head(d) \notin Verdicts => (~new => cron \in ValidCrons) = (~error => cron \in ValidCrons)
  OBVIOUS
<1>4. IF Head(d) \in Verdicts THEN Head(d) \in VerdictOn(cron) => (~new => cron \in ValidCrons)
      ELSE (~new => cron \in ValidCrons) = (~error => cron \in ValidCrons)
  BY <1>2, <1>3
<1> QED
  BY <1>1, <1>4, AgreesGot DEF Knows

\* A page that has taken an answer and asks nothing.
LEMMA GotStep ==
    ASSUME PageInv, down # <<>>, down' = Tail(down), TablesFollow', FormKnows',
           form' \in [at : {"closed", "open", "submitting"}, cron : Crons \cup {Nothing}, error : BOOLEAN],
           form'.at = "closed" <=> form.at = "closed",
           shown' \in [Tables -> AllRows], \A t \in Tables : t \notin OfTab(tab) => shown'[t] = {},
           expanded' \in [id : AllIds, run : AllIds], DetailIsOwn',
           UNCHANGED <<stored, pending, tab, online, up, filter, current, typing>>
    PROVE  PageInv'
<1>1. /\ down' \in Seq(Answers) /\ ~Has(down', StrayAnswers(tab)) /\ online
      /\ ~Has(down, Submitted) => ~Has(down', Submitted)
  BY Taken
<1>2. PageTypes'
  BY <1>1 DEF PageInv, PageTypes
<1>3. Placed'
  BY <1>1 DEF PageInv, Placed
<1>4. FormOwns'
  BY <1>1 DEF PageInv, FormOwns
<1> QED
  BY <1>2, <1>3, <1>4 DEF PageInv

LEMMA StillKnows ==
    ASSUME PageInv, down # <<>>, Head(down) \notin Verdicts
    PROVE  form.at # "closed" => typing \/ Knows(up, Tail(down), form.cron, form.error)
<1>1. down \in Seq(Answers) /\ FormKnows
  BY DEF PageInv, PageTypes
<1> QED
  BY <1>1, KnowsTaken DEF FormKnows

LEMMA OnListedStep ==
    ASSUME PageInv, OnListed
    PROVE  PageInv'
<1> DEFINE a == Head(down)
<1>1. /\ down # <<>> /\ a.kind = "listed" /\ down' = Tail(down) /\ shown' = [shown EXCEPT ![a.table] = a.rows]
      /\ UNCHANGED <<stored, enabled, pending, tab, online, up, filter, current, expanded, form, typing>>
  BY DEF OnListed, Gets, server
<1>2. PageTypes /\ Placed /\ a \in Answers /\ a \notin StrayAnswers(tab)
  BY <1>1, Taken DEF PageInv
<1> HIDE DEF a
<1>3. a.table \in Tables /\ a.rows \in AllRows /\ a.table \in OfTab(tab)
  BY <1>2 DEF Answers, StrayAnswers
<1>4. shown \in [Tables -> AllRows]
  BY <1>2 DEF PageTypes
<1>5. /\ shown' \in [Tables -> AllRows] /\ shown'[a.table] = a.rows
      /\ \A t \in Tables : t # a.table => shown'[t] = shown[t]
  BY <1>1, <1>3, <1>4
<1>6. \A t \in Tables : t \notin OfTab(tab) => shown'[t] = {}
  BY <1>2, <1>3, <1>5 DEF Placed
<1>7. ASSUME NEW t \in current
      PROVE  Follows(up, Tail(down), t, filter, shown'[t], Listed(t, filter))
  <2>1. t \in Tables
    BY <1>2 DEF PageTypes
  <2>2. a \notin Prompts(t) /\ (a \in Listings(t) <=> t = a.table)
    BY <1>1, <1>2 DEF Prompts, Listings
  <2>3. IF a \in Listings(t) THEN shown'[t] = a.rows ELSE shown'[t] = shown[t]
    BY <1>5, <2>1, <2>2
  <2> QED
    BY <1>1, <2>2, <2>3, FollowsTaken DEF a
<1>8. TablesFollow'
  BY <1>1, <1>7 DEF TablesFollow, Listed
<1>9. a \notin Verdicts
  BY <1>1 DEF Verdicts
<1>10. FormKnows'
  BY <1>1, <1>9, StillKnows DEF FormKnows, a
<1>11. DetailIsOwn' /\ expanded' \in [id : AllIds, run : AllIds]
       /\ form' \in [at : {"closed", "open", "submitting"}, cron : Crons \cup {Nothing}, error : BOOLEAN]
       /\ form' = form
  BY <1>1, <1>2 DEF PageInv, DetailIsOwn, PageTypes
<1> QED
  BY <1>1, <1>5, <1>6, <1>8, <1>10, <1>11, GotStep

\* An answer that is neither a list nor makes the page ask leaves the tables.
LEMMA TablesStay ==
    ASSUME PageInv, down # <<>>, down' = Tail(down), Head(down).kind \in {"got", "tested", "done", "submitted"},
           Head(down).kind \in {"done", "submitted"} => ~Head(down).ok,
           UNCHANGED <<stored, enabled, up, shown, filter, current>>
    PROVE  TablesFollow'
<1>1. ASSUME NEW t \in current
      PROVE  Follows(up, Tail(down), t, filter, shown[t], Listed(t, filter))
  <2>1. Head(down) \notin Prompts(t) /\ Head(down) \notin Listings(t)
    BY DEF Prompts, Listings
  <2> QED
    BY <2>1, FollowsTaken
<1> QED
  BY <1>1 DEF TablesFollow, Listed

LEMMA OnGotStep ==
    ASSUME PageInv, OnGot
    PROVE  PageInv'
<1>1. /\ down # <<>> /\ Head(down).kind = "got" /\ down' = Tail(down) /\ expanded' = Detail(Head(down).id)
      /\ UNCHANGED <<stored, enabled, pending, tab, online, up, shown, filter, current, form, typing>>
  BY DEF OnGot, Gets, server
<1>2. PageTypes /\ Placed /\ Head(down) \in Answers
  BY <1>1, Taken DEF PageInv
<1>3. Head(down).id \in AllIds
  BY <1>2 DEF Answers
<1>4. expanded' \in [id : AllIds, run : AllIds] /\ DetailIsOwn'
  <2>1. expanded \in [id : AllIds, run : AllIds] /\ DetailIsOwn
    BY <1>2 DEF PageTypes, PageInv
  <2> QED
    BY <1>1, <1>3, <2>1 DEF Detail, DetailIsOwn
<1>5. TablesFollow'
  BY <1>1, TablesStay
<1>6. Head(down) \notin Verdicts
  BY <1>1 DEF Verdicts
<1>7. FormKnows'
  BY <1>1, <1>6, StillKnows DEF FormKnows
<1>8. /\ form' = form /\ shown' \in [Tables -> AllRows] /\ \A t \in Tables : t \notin OfTab(tab) => shown'[t] = {}
      /\ form' \in [at : {"closed", "open", "submitting"}, cron : Crons \cup {Nothing}, error : BOOLEAN]
  BY <1>1, <1>2 DEF PageTypes, Placed
<1> QED
  BY <1>1, <1>4, <1>5, <1>7, <1>8, GotStep

LEMMA OnTestedStep ==
    ASSUME PageInv, OnTested
    PROVE  PageInv'
<1> DEFINE a == Head(down)
<1>1. /\ down # <<>> /\ a.kind = "tested" /\ down' = Tail(down)
      /\ form' = IF a.of = "page" THEN [form EXCEPT !.error = ~a.ok] ELSE form
      /\ UNCHANGED <<stored, enabled, pending, tab, online, up, shown, filter, current, expanded, typing>>
  BY DEF OnTested, Gets, server
<1>2. PageTypes /\ Placed /\ a \in Answers /\ down \in Seq(Answers)
  BY <1>1, Taken DEF PageInv, PageTypes
<1>3. TablesFollow'
  BY <1>1, TablesStay
<1>4. /\ form' \in [at : {"closed", "open", "submitting"}, cron : Crons \cup {Nothing}, error : BOOLEAN]
      /\ form'.at = form.at /\ form'.cron = form.cron
      /\ IF a \in Verdicts THEN form'.error = ~a.ok ELSE form'.error = form.error
  <2>1. form \in [at : {"closed", "open", "submitting"}, cron : Crons \cup {Nothing}, error : BOOLEAN]
    BY <1>2 DEF PageTypes
  <2>2. a \in Verdicts <=> a.of = "page"
    BY <1>1, <1>2 DEF Verdicts
  <2>3. a.ok \in BOOLEAN
    BY <1>2 DEF Answers
  <2> HIDE DEF a
  <2>4. CASE a.of = "page"
    <3>1. form' = [form EXCEPT !.error = ~a.ok]
      BY <1>1, <2>4
    <3> QED
      BY <2>1, <2>2, <2>3, <2>4, <3>1
  <2>5. CASE a.of # "page"
    BY <1>1, <2>1, <2>2, <2>5
  <2> QED
    BY <2>4, <2>5
<1>5. FormKnows'
  <2> SUFFICES ASSUME form.at # "closed", ~typing PROVE Knows(up, Tail(down), form.cron, form'.error)
    BY <1>1, <1>4 DEF FormKnows
  <2>1. Knows(up, down, form.cron, form.error)
    BY DEF PageInv, FormKnows
  <2> QED
    BY <1>1, <1>2, <1>4, <2>1, KnowsTaken
<1>6. /\ shown' \in [Tables -> AllRows] /\ \A t \in Tables : t \notin OfTab(tab) => shown'[t] = {}
      /\ expanded' \in [id : AllIds, run : AllIds] /\ DetailIsOwn'
  BY <1>1, <1>2 DEF PageTypes, Placed, PageInv, DetailIsOwn
<1> QED
  BY <1>1, <1>3, <1>4, <1>5, <1>6, GotStep

-----------------------------------------------------------------------------
\* A page that has taken an answer and loads tables.
LEMMA LoadsStep ==
    ASSUME PageInv, down # <<>>, down' = Tail(down), online, Head(down).kind \in {"done", "completed"},
           NEW ts \in Seq(Tables), \A i, j \in DOMAIN ts : ts[i] = ts[j] => i = j,
           Members(ts) \subseteq OfTab(tab), \A t \in current : Head(down) \in Prompts(t) => t \in Members(ts),
           LoadTables(ts), UNCHANGED <<stored, enabled, pending, tab, online, shown, filter, expanded, form, typing>>
    PROVE  PageInv'
<1>1. /\ down' \in Seq(Answers) /\ ~Has(down', StrayAnswers(tab))
      /\ ~Has(down, Submitted) => ~Has(down', Submitted)
  BY Taken
<1>2. /\ up \in Seq(Frames) /\ ~Has(up, StrayFrames(tab)) /\ Placed /\ PageTypes
      /\ filter' \in Types \cup {Nothing}
  BY DEF PageInv, PageTypes, Placed
<1>3. up' = up \o Lists(ts, filter') /\ current' = current \cup Members(ts)
  BY DEF LoadTables, LoadOf, Ask
<1>4. ASSUME NEW t \in current
      PROVE  t \in Members(ts) \/ Follows(up, down', t, filter', shown'[t], Listed(t, filter)')
  <2>1. Head(down) \notin Listings(t)
    BY DEF Listings
  <2>2. Head(down) \notin Prompts(t) => Follows(up, Tail(down), t, filter, shown[t], Listed(t, filter))
    BY <2>1, FollowsTaken
  <2>3. Listed(t, filter)' = Listed(t, filter)
    BY DEF Listed
  <2> QED
    BY <2>2, <2>3
<1>5. /\ up' \in Seq(Frames) /\ ~Has(up', StrayFrames(tab)) /\ current' \subseteq OfTab(tab) /\ TablesFollow'
      /\ \A cron, error : Knows(up, down', cron, error) => Knows(up', down', cron, error)
      /\ ~Has(up, Submits) => ~Has(up', Submits)
  <2> HIDE DEF PageInv
  <2> QED
    BY <1>2, <1>3, <1>4, LoadMore
<1>6. PageTypes'
  BY <1>1, <1>2, <1>5, TablesAre DEF PageTypes
<1>7. Placed'
  BY <1>1, <1>2, <1>5 DEF Placed
<1>8. FormKnows'
  <2>1. Head(down) \notin Verdicts
    BY DEF Verdicts
  <2> QED
    BY <1>5, <2>1, StillKnows DEF FormKnows
<1>9. FormOwns' /\ DetailIsOwn'
  BY <1>1, <1>5 DEF PageInv, FormOwns, DetailIsOwn
<1> QED
  BY <1>5, <1>6, <1>7, <1>8, <1>9 DEF PageInv

LEMMA OnDoneStep ==
    ASSUME PageInv, OnDone
    PROVE  PageInv'
<1> DEFINE a == Head(down)
<1>1. /\ down # <<>> /\ a.kind = "done" /\ down' = Tail(down)
      /\ IF a.ok THEN LoadTables(<<a.table>>) ELSE UNCHANGED <<up, current>>
      /\ UNCHANGED <<stored, enabled, pending, tab, online, shown, filter, expanded, form, typing>>
  BY DEF OnDone, Gets, server
<1>2. PageTypes /\ Placed /\ a \in Answers /\ a \notin StrayAnswers(tab) /\ online
  BY <1>1, Taken DEF PageInv
<1>3. ASSUME a.ok
      PROVE  PageInv'
  <2>1. a.table \in Tables /\ a.table \in OfTab(tab)
    BY <1>2 DEF Answers, StrayAnswers
  <2>2. \A t \in current : a \in Prompts(t) => t \in Members(<<a.table>>)
    BY <1>1, <2>1, OneTable DEF Prompts
  <2>3. /\ <<a.table>> \in Seq(Tables) /\ Members(<<a.table>>) \subseteq OfTab(tab)
        /\ \A i, j \in DOMAIN <<a.table>> : <<a.table>>[i] = <<a.table>>[j] => i = j
    BY <2>1, OneTable
  <2> DEFINE ts == <<a.table>>
  <2>4. /\ ts \in Seq(Tables) /\ Members(ts) \subseteq OfTab(tab) /\ LoadTables(ts)
        /\ \A i, j \in DOMAIN ts : ts[i] = ts[j] => i = j
        /\ \A t \in current : a \in Prompts(t) => t \in Members(ts)
    BY <1>1, <1>3, <2>2, <2>3
  <2> HIDE DEF ts
  <2> QED
    BY <1>1, <1>2, <2>4, LoadsStep
<1>4. ASSUME ~a.ok
      PROVE  PageInv'
  <2>1. UNCHANGED <<up, current>>
    BY <1>1, <1>4
  <2>2. TablesFollow'
    BY <1>1, <1>4, <2>1, TablesStay
  <2>3. a \notin Verdicts
    BY <1>1 DEF Verdicts
  <2>4. FormKnows'
    BY <1>1, <2>1, <2>3, StillKnows DEF FormKnows
  <2>5. /\ shown' \in [Tables -> AllRows] /\ \A t \in Tables : t \notin OfTab(tab) => shown'[t] = {}
        /\ expanded' \in [id : AllIds, run : AllIds] /\ DetailIsOwn'
        /\ form' = form
        /\ form' \in [at : {"closed", "open", "submitting"}, cron : Crons \cup {Nothing}, error : BOOLEAN]
    BY <1>1, <1>2 DEF PageTypes, Placed, PageInv, DetailIsOwn
  <2> QED
    BY <1>1, <2>1, <2>2, <2>4, <2>5, GotStep
<1> QED
  BY <1>3, <1>4

LEMMA NotifiedAre ==
    /\ Notified \in Seq(Tables) /\ Members(Notified) = {"schedules", "runs"}
    /\ \A i, j \in DOMAIN Notified : Notified[i] = Notified[j] => i = j
<1>1. /\ Notified \in Seq(Tables) /\ DOMAIN Notified = {1, 2}
      /\ Notified[1] = "schedules" /\ Notified[2] = "runs"
  BY DEF Notified, Tables
<1> QED
  BY <1>1 DEF Members

LEMMA OnCompletedStep ==
    ASSUME PageInv, OnCompleted
    PROVE  PageInv'
<1> DEFINE a == Head(down)
<1>1. /\ down # <<>> /\ a.kind = "completed" /\ down' = Tail(down) /\ LoadTables(Notified)
      /\ UNCHANGED <<stored, enabled, pending, tab, online, shown, filter, expanded, form, typing>>
  BY DEF OnCompleted, Gets, server
<1>2. a \in Answers /\ a \notin StrayAnswers(tab) /\ online
  BY <1>1, Taken
<1>3. tab = "settings"
  BY <1>1, <1>2 DEF StrayAnswers
<1>4. Members(Notified) \subseteq OfTab(tab)
  BY <1>3, NotifiedAre DEF OfTab
<1>5. \A t \in current : a \in Prompts(t) => t \in Members(Notified)
  BY <1>1, NotifiedAre DEF Prompts
<1> QED
  BY <1>1, <1>2, <1>4, <1>5, NotifiedAre, LoadsStep

LEMMA OnSubmittedStep ==
    ASSUME PageInv, OnSubmitted
    PROVE  PageInv'
<1> DEFINE a == Head(down)
<1>1. /\ down # <<>> /\ a.kind = "submitted"
      /\ IF a.ok
         THEN /\ form' = NoForm /\ typing' = FALSE
              /\ up' = FormLeft(up) \o Lists(<<"schedules">>, filter) /\ down' = FormLeft(Tail(down))
              /\ current' = current \cup {"schedules"}
         ELSE /\ form' = IF a.of = "page" THEN [form EXCEPT !.at = "open"] ELSE form
              /\ down' = Tail(down) /\ UNCHANGED <<up, current, typing>>
      /\ UNCHANGED <<stored, enabled, pending, tab, online, shown, filter, expanded>>
  BY DEF OnSubmitted, server
<1>2. /\ PageTypes /\ Placed /\ a \in Answers /\ a \notin StrayAnswers(tab) /\ online
      /\ Tail(down) \in Seq(Answers) /\ ~Has(Tail(down), StrayAnswers(tab))
      /\ up \in Seq(Frames) /\ down \in Seq(Answers)
  BY <1>1, Taken DEF PageInv, PageTypes
<1>3. a.table = "schedules" /\ "schedules" \in OfTab(tab) /\ "schedules" \in Tables
  BY <1>1, <1>2, TablesAre DEF StrayAnswers
<1>4. ASSUME a.ok
      PROVE  PageInv'
  <2> DEFINE ts == <<"schedules">> v == FormLeft(up)
  <2>1. /\ ts \in Seq(Tables) /\ Members(ts) = {"schedules"} /\ Members(ts) \subseteq OfTab(tab)
        /\ \A i, j \in DOMAIN ts : ts[i] = ts[j] => i = j
    BY <1>3, OneTable
  <2>2. /\ v \in Seq(Frames) /\ ~Has(v, StrayFrames(tab)) /\ ~Has(v, Submits)
    BY FormIsLeft
  <2>3. down' \in Seq(Answers) /\ ~Has(down', StrayAnswers(tab)) /\ ~Has(down', Submitted)
    BY <1>1, <1>2, <1>4, LeftAnswers
  <2>4. ASSUME NEW t \in current
        PROVE  t \in Members(ts) \/ Follows(v, down', t, filter', shown'[t], Listed(t, filter)')
    <3> SUFFICES ASSUME t # "schedules" PROVE Follows(v, down', t, filter', shown'[t], Listed(t, filter)')
      BY <2>1
    <3>1. a \notin Prompts(t) /\ a \notin Listings(t)
      BY <1>1, <1>3 DEF Prompts, Listings
    <3>2. Follows(up, Tail(down), t, filter, shown[t], Listed(t, filter))
      BY <1>1, <3>1, FollowsTaken
    <3>3. Follows(v, FormLeft(Tail(down)), t, filter, shown[t], Listed(t, filter))
      BY <1>2, <3>2, FollowsLeft
    <3>4. Listed(t, filter)' = Listed(t, filter)
      BY <1>1 DEF Listed
    <3> QED
      BY <1>1, <1>4, <3>3, <3>4
  <2>5. up' = v \o Lists(ts, filter') /\ current' = current \cup Members(ts) /\ filter' \in Types \cup {Nothing}
    BY <1>1, <1>2, <1>4, <2>1 DEF PageTypes
  <2> HIDE DEF ts, v
  <2>6. /\ up' \in Seq(Frames) /\ ~Has(up', StrayFrames(tab)) /\ current' \subseteq OfTab(tab) /\ TablesFollow'
        /\ \A cron, error : Knows(v, down', cron, error) => Knows(up', down', cron, error)
        /\ ~Has(v, Submits) => ~Has(up', Submits)
    BY <1>2, <2>1, <2>2, <2>4, <2>5, LoadMore
  <2>7. /\ form'.at = "closed" /\ typing' = FALSE
        /\ form' \in [at : {"closed", "open", "submitting"}, cron : Crons \cup {Nothing}, error : BOOLEAN]
    <3>1. form' = NoForm /\ typing' = FALSE
      BY <1>1, <1>4
    <3> QED
      BY <3>1 DEF NoForm
  <2>8. PageTypes'
    BY <1>1, <1>2, <2>3, <2>6, <2>7, TablesAre DEF PageTypes
  <2>9. Placed'
    BY <1>1, <1>2, <2>3, <2>6, <2>7 DEF Placed
  <2>10. FormKnows' /\ FormOwns' /\ DetailIsOwn'
    BY <1>1, <2>2, <2>3, <2>6, <2>7 DEF FormKnows, FormOwns, DetailIsOwn, PageInv
  <2> QED
    BY <2>6, <2>8, <2>9, <2>10 DEF PageInv
<1>5. ASSUME ~a.ok
      PROVE  PageInv'
  <2>1. /\ form' = IF a.of = "page" THEN [form EXCEPT !.at = "open"] ELSE form
        /\ down' = Tail(down) /\ UNCHANGED <<up, current, typing>>
    BY <1>1, <1>5
  <2>2. TablesFollow'
    BY <1>1, <1>5, <2>1, TablesStay
  <2>3. a.of = "page" => form.at # "closed"
    <3>1. a.of = "page" => a \in Submitted
      BY <1>1, <1>2 DEF Submitted
    <3> QED
      BY <1>1, <3>1, Taken DEF PageInv, FormOwns
  <2>4. /\ form' \in [at : {"closed", "open", "submitting"}, cron : Crons \cup {Nothing}, error : BOOLEAN]
        /\ form'.cron = form.cron /\ form'.error = form.error
        /\ (form'.at = "closed" <=> form.at = "closed")
    <3>1. form \in [at : {"closed", "open", "submitting"}, cron : Crons \cup {Nothing}, error : BOOLEAN]
      BY <1>2 DEF PageTypes
    <3> HIDE DEF a
    <3>2. CASE a.of = "page"
      <4>1. form' = [form EXCEPT !.at = "open"]
        BY <2>1, <3>2
      <4> QED
        BY <2>3, <3>1, <3>2, <4>1
    <3>3. CASE a.of # "page"
      BY <2>1, <3>1, <3>3
    <3> QED
      BY <3>2, <3>3
  <2>5. a \notin Verdicts
    BY <1>1 DEF Verdicts
  <2>6. FormKnows'
    BY <1>1, <2>1, <2>4, <2>5, StillKnows DEF FormKnows
  <2>7. /\ shown' \in [Tables -> AllRows] /\ \A t \in Tables : t \notin OfTab(tab) => shown'[t] = {}
        /\ expanded' \in [id : AllIds, run : AllIds] /\ DetailIsOwn'
    BY <1>1, <1>2 DEF PageTypes, Placed, PageInv, DetailIsOwn
  <2> QED
    BY <1>1, <2>1, <2>2, <2>4, <2>6, <2>7, GotStep
<1> QED
  BY <1>4, <1>5

LEMMA BackStep ==
    ASSUME PageInv, Back
    PROVE  PageInv'
<1>1. /\ online' = TRUE
      /\ UNCHANGED <<stored, enabled, pending, tab, up, down, shown, filter, current, expanded, form, typing>>
  BY DEF Back, server
<1>2. PageTypes'
  BY <1>1 DEF PageInv, PageTypes
<1>3. Placed'
  BY <1>1 DEF PageInv, Placed
<1>4. TablesFollow' /\ FormKnows' /\ FormOwns' /\ DetailIsOwn'
  BY <1>1 DEF PageInv, TablesFollow, Listed, FormKnows, FormOwns, DetailIsOwn
<1> QED
  BY <1>2, <1>3, <1>4 DEF PageInv

\* A test or its verdict that was lost leaves an error behind.
LEMMA DropStep ==
    ASSUME PageInv, Drop
    PROVE  PageInv'
<1> DEFINE lost == Asked(up, "test") \/ Asked(down, "tested")
<1>1. /\ online /\ online' = FALSE /\ up' = <<>> /\ down' = <<>> /\ current' = {}
      /\ form' = [form EXCEPT !.at = IF @ = "submitting" THEN "open" ELSE @, !.error = @ \/ lost]
      /\ pending' = Becomes(pending, "gone")
      /\ UNCHANGED <<stored, enabled, tab, shown, filter, expanded, typing>>
  BY DEF Drop
<1>2. PageTypes /\ Placed /\ pending \in Seq(Frames) /\ up \in Seq(Frames) /\ down \in Seq(Answers)
  BY DEF PageInv, PageTypes
<1>3. /\ pending' \in Seq(Frames) /\ ~Has(pending', Live) /\ ~Has(pending', StrayFrames(tab))
  BY <1>1, <1>2, GoneAre DEF Placed
<1>4. lost \in BOOLEAN /\ (lost <=> Has(up, Tests) \/ Has(down, Verdicts))
  <2>1. (\A i \in DOMAIN up : up[i] \in Frames) /\ (\A i \in DOMAIN down : down[i] \in Answers)
    BY <1>2
  <2>2. Asked(up, "test") <=> Has(up, Tests)
    BY <2>1 DEF Asked, Has, Tests
  <2>3. Asked(down, "tested") <=> Has(down, Verdicts)
    BY <2>1 DEF Asked, Has, Verdicts
  <2> QED
    BY <2>2, <2>3
<1> HIDE DEF lost
<1>5. /\ form' \in [at : {"closed", "open", "submitting"}, cron : Crons \cup {Nothing}, error : BOOLEAN]
      /\ form'.cron = form.cron /\ (form'.error <=> form.error \/ lost)
      /\ (form'.at = "closed" <=> form.at = "closed")
  <2>1. form \in [at : {"closed", "open", "submitting"}, cron : Crons \cup {Nothing}, error : BOOLEAN]
    BY <1>2 DEF PageTypes
  <2>2. form' = [form EXCEPT !.at = IF form.at = "submitting" THEN "open" ELSE form.at, !.error = form.error \/ lost]
    BY <1>1
  <2> QED
    BY <1>4, <2>1, <2>2
<1>6. \A P : ~Has(up', P) /\ ~Has(down', P)
  BY <1>1 DEF Has
<1>7. PageTypes'
  <2>1. up' = <<>> /\ down' = <<>> /\ current' = {} /\ online' \in BOOLEAN
    BY <1>1
  <2>2. up' \in Seq(Frames) /\ down' \in Seq(Answers) /\ current' \subseteq Tables
    BY <2>1
  <2>3. UNCHANGED <<stored, tab, shown, filter, expanded, typing>>
    BY <1>1
  <2> QED
    BY <1>2, <1>3, <1>5, <2>1, <2>2, <2>3 DEF PageTypes
<1>8. Placed'
  BY <1>1, <1>2, <1>3, <1>5, <1>6 DEF Placed
<1>9. TablesFollow' /\ DetailIsOwn'
  BY <1>1 DEF TablesFollow, PageInv, DetailIsOwn
<1>10. FormKnows'
  <2> SUFFICES ASSUME form.at # "closed", ~typing PROVE Knows(up', down', form.cron, form'.error)
    BY <1>1, <1>5 DEF FormKnows
  <2>1. Knows(up, down, form.cron, form.error)
    BY DEF PageInv, FormKnows
  <2>2. ~form'.error => form.cron \in ValidCrons
    <3> SUFFICES ASSUME ~Has(up, Tests), ~Has(down, Verdicts), ~form.error PROVE form.cron \in ValidCrons
      BY <1>4, <1>5
    <3>1. ~Ends(up, Testing(form.cron), Tests \cup {}) /\ ~Ends(down, VerdictOn(form.cron), Verdicts)
      BY DEF Ends, Has, Testing, VerdictOn
    <3>2. ~Has(down, {})
      BY DEF Has
    <3> QED
      BY <2>1, <3>1, <3>2 DEF Knows, Agrees
  <2> QED
    BY <1>6, <2>2 DEF Knows, Agrees
<1>11. FormOwns'
  <2>1. ~Has(pending', Submits)
    BY <1>3 DEF Has, Live, Submits
  <2> QED
    BY <1>6, <2>1 DEF FormOwns
<1> QED
  BY <1>7, <1>8, <1>9, <1>10, <1>11 DEF PageInv

-----------------------------------------------------------------------------
\* A request is taken.
LEMMA Asks ==
    ASSUME PageInv, up # <<>>
    PROVE  /\ Head(up) \in Frames /\ Head(up) \notin StrayFrames(tab)
           /\ Tail(up) \in Seq(Frames) /\ ~Has(Tail(up), StrayFrames(tab)) /\ online
           /\ ~Has(up, Submits) => Head(up) \notin Submits /\ ~Has(Tail(up), Submits)
<1>1. up \in Seq(Frames) /\ ~Has(up, StrayFrames(tab)) /\ online
  BY DEF PageInv, PageTypes, Placed
<1>2. /\ Has(up, StrayFrames(tab)) <=> Has(Tail(up), StrayFrames(tab)) \/ Head(up) \in StrayFrames(tab)
      /\ Has(up, Submits) <=> Has(Tail(up), Submits) \/ Head(up) \in Submits
  BY <1>1, OnTaken
<1> QED
  BY <1>1, <1>2, OnTaken

LEMMA FollowsServed ==
    ASSUME PageInv, up # <<>>, NEW t \in current, Head(up) \notin Queries(t), NEW e, NEW rows,
           e = down \/ \E a \in Answers : e = Append(down, a) /\ a \notin Listings(t),
           rows = Listed(t, filter) \/ Head(up) \in Lost \/ Has(e, Prompts(t))
    PROVE  Follows(Tail(up), e, t, filter, shown[t], rows)
<1> DEFINE seen == shown[t] old == Listed(t, filter)
<1>1. up \in Seq(Frames) /\ down \in Seq(Answers) /\ Follows(up, down, t, filter, seen, old)
  BY DEF PageInv, PageTypes, TablesFollow
<1> HIDE DEF seen, old
<1>2. Asking(t, filter) \subseteq Queries(t) /\ Reports(t, old) \subseteq Listings(t)
  BY DEF Asking, Reports
<1>3. /\ Has(down, Prompts(t)) => Has(e, Prompts(t))
      /\ Ends(down, Reports(t, old), Listings(t)) => Ends(e, Reports(t, old), Listings(t))
      /\ ~Has(down, Listings(t)) => ~Has(e, Listings(t))
  <2>1. CASE e = down
    BY <2>1
  <2>2. ASSUME NEW a \in Answers, e = Append(down, a), a \notin Listings(t)
        PROVE  /\ Has(down, Prompts(t)) => Has(e, Prompts(t))
               /\ Ends(down, Reports(t, old), Listings(t)) => Ends(e, Reports(t, old), Listings(t))
               /\ ~Has(down, Listings(t)) => ~Has(e, Listings(t))
    BY <1>1, <2>2, OnAppended
  <2> QED
    BY <2>1, <2>2
<1>4. \/ Head(up) \in Lost
      \/ Has(e, Prompts(t))
      \/ /\ Reports(t, rows) = Reports(t, old)
         /\ (Ends(down, Reports(t, old), Listings(t)) => Ends(e, Reports(t, old), Listings(t)))
         /\ ~Has(down, Listings(t)) /\ seen = old => ~Has(e, Listings(t)) /\ seen = rows
  BY <1>3 DEF old
<1> QED
  BY <1>1, <1>2, <1>3, <1>4, AgreesServed DEF Follows, seen

LEMMA KnowsServed ==
    ASSUME NEW u \in Seq(Frames), NEW d \in Seq(Answers), u # <<>>, Head(u) \notin Tests, NEW e, NEW cron, NEW error,
           e = d \/ \E a \in Answers : e = Append(d, a) /\ a \notin Verdicts,
           Knows(u, d, cron, error)
    PROVE  Knows(Tail(u), e, cron, error)
<1> DEFINE none == {} Q == Testing(cron) R == VerdictOn(cron) right == ~error => cron \in ValidCrons
<1>1. Q \subseteq Tests /\ ~Has(d, none)
  BY DEF Testing, Has
<1>2. /\ Has(d, none) => Has(e, none)
      /\ Ends(d, R, Verdicts) => Ends(e, R, Verdicts)
      /\ ~Has(d, Verdicts) => ~Has(e, Verdicts)
  <2>1. CASE e = d
    BY <2>1
  <2>2. ASSUME NEW a \in Answers, e = Append(d, a), a \notin Verdicts
        PROVE  /\ Ends(d, R, Verdicts) => Ends(e, R, Verdicts)
               /\ ~Has(d, Verdicts) => ~Has(e, Verdicts)
    BY <2>2, OnAppended
  <2> QED
    BY <1>1, <2>1, <2>2
<1>3. right \in BOOLEAN /\ Agrees(u, d, Q, Tests, none, R, Verdicts, none, right)
  BY DEF Knows
<1> HIDE DEF none, Q, R, right
<1>4. \/ Head(u) \in none
      \/ Has(e, none)
      \/ /\ R = R /\ (Ends(d, R, Verdicts) => Ends(e, R, Verdicts))
         /\ ~Has(d, Verdicts) /\ right => ~Has(e, Verdicts) /\ right
  BY <1>2
<1>5. Agrees(Tail(u), e, Q, Tests, none, R, Verdicts, none, right)
  BY <1>1, <1>2, <1>3, <1>4, AgreesServed, ZenonT(30)
<1> QED
  BY <1>5 DEF Knows, none, Q, R, right

\* What stays when a request was served.
LEMMA ServedStep ==
    ASSUME PageInv, up # <<>>, up' = Tail(up), stored' \in [Tables -> SUBSET AllIds],
           pending' \in Seq(Frames), ~Has(pending', StrayFrames(tab)), ~Has(pending', Submits),
           \/ down' = down
           \/ \E a \in Answers : /\ down' = Append(down, a) /\ a \notin StrayAnswers(tab)
                                 /\ a \in Submitted => Head(up) \in Submits,
           TablesFollow', FormKnows', UNCHANGED <<tab, online, shown, filter, current, expanded, form, typing>>
    PROVE  PageInv'
<1>1. /\ up' \in Seq(Frames) /\ ~Has(up', StrayFrames(tab)) /\ online
      /\ ~Has(up, Submits) => Head(up) \notin Submits /\ ~Has(up', Submits)
  BY Asks
<1>2. /\ down' \in Seq(Answers) /\ ~Has(down', StrayAnswers(tab))
      /\ ~Has(down, Submitted) /\ Head(up) \notin Submits => ~Has(down', Submitted)
  <2>1. down \in Seq(Answers) /\ ~Has(down, StrayAnswers(tab))
    BY DEF PageInv, PageTypes, Placed
  <2>2. CASE down' = down
    BY <2>1, <2>2
  <2>3. ASSUME NEW a \in Answers, down' = Append(down, a), a \notin StrayAnswers(tab),
               a \in Submitted => Head(up) \in Submits
        PROVE  /\ down' \in Seq(Answers) /\ ~Has(down', StrayAnswers(tab))
               /\ ~Has(down, Submitted) /\ Head(up) \notin Submits => ~Has(down', Submitted)
    <3>1. /\ down' \in Seq(Answers)
          /\ Has(down', StrayAnswers(tab)) <=> Has(down, StrayAnswers(tab)) \/ a \in StrayAnswers(tab)
          /\ Has(down', Submitted) <=> Has(down, Submitted) \/ a \in Submitted
      BY <2>1, <2>3, OnAppended
    <3> QED
      BY <2>1, <2>3, <3>1
  <2> QED
    BY <2>2, <2>3
<1>3. PageTypes'
  BY <1>1, <1>2 DEF PageInv, PageTypes
<1>4. Placed'
  BY <1>1, <1>2 DEF PageInv, Placed
<1>5. FormOwns'
  BY <1>1, <1>2 DEF PageInv, FormOwns
<1>6. DetailIsOwn'
  BY DEF PageInv, DetailIsOwn
<1> QED
  BY <1>3, <1>4, <1>5, <1>6 DEF PageInv

LEMMA Pended ==
    ASSUME PageInv
    PROVE  /\ pending \in Seq(Frames) /\ ~Has(pending, StrayFrames(tab)) /\ ~Has(pending, Submits)
           /\ up \in Seq(Frames) /\ down \in Seq(Answers) /\ stored \in [Tables -> SUBSET AllIds]
           /\ shown \in [Tables -> AllRows] /\ current \subseteq Tables
  BY DEF PageInv, PageTypes, Placed, FormOwns

\* A table lists the same if its rows are the same.
LEMMA SameRows ==
    ASSUME NEW t \in Tables, stored'[t] = stored[t], t = "schedules" => enabled' = enabled, filter' = filter
    PROVE  Listed(t, filter)' = Listed(t, filter)
<1>1. CASE t = "memories"
  BY <1>1 DEF Listed
<1>2. CASE t = "schedules"
  BY <1>2 DEF Listed
<1>3. CASE t \notin {"memories", "schedules"}
  BY <1>3 DEF Listed
<1> QED
  BY <1>1, <1>2, <1>3

\* A change is answered: it was made, or the table is as it was.
LEMMA DoneStep ==
    ASSUME PageInv, up # <<>>, up' = Tail(up), Head(up).kind \in {"run", "delete", "enable", "disable", "create", "submit"},
           NEW ok \in BOOLEAN, Done(Head(up), ok), stored' \in [Tables -> SUBSET AllIds],
           \A t \in current : \/ Listed(t, filter)' = Listed(t, filter)
                              \/ Head(up).kind # "run" /\ ok /\ t = Head(up).table,
           UNCHANGED <<pending, tab, online, shown, filter, current, expanded, form, typing>>
    PROVE  PageInv'
<1> DEFINE r == Head(up) kind == IF r.kind = "submit" THEN "submitted" ELSE "done"
           a == Answer(r, kind, Nothing, ok, {})
<1>1. r \in Frames /\ r \notin StrayFrames(tab)
  BY Asks
<1>2. down' = IF r.of = "gone" THEN down ELSE Append(down, a)
  BY DEF Done, Reply
<1>3. r.of \in Elements /\ r.table \in Tables /\ kind \in {"done", "submitted"} /\ {} \in AllRows
  BY <1>1 DEF Frames, AllRows
<1>4. a \in Answers /\ a.kind = kind /\ a.of = r.of /\ a.table = r.table /\ a.ok = ok
  <2> HIDE DEF r, kind
  <2> QED
    BY <1>3, AnswerIs, TablesAre
<1>5. r.kind \in {"run", "delete", "enable", "disable", "create", "submit"}
  OBVIOUS
<1>6. kind = "submitted" <=> r.kind = "submit"
  OBVIOUS
<1> HIDE DEF a, kind
<1>7. r.of # "gone" => a \notin StrayAnswers(tab) /\ (a \in Submitted => r \in Submits)
  <2>1. r.of # "gone" => r.table \in OfTab(tab)
    BY <1>1 DEF StrayFrames, Live
  <2>2. r.kind = "submit" => r.table = "schedules"
    BY <1>1 DEF StrayFrames, TableOf
  <2> QED
    BY <1>1, <1>3, <1>4, <1>6, <2>1, <2>2 DEF StrayAnswers, Submitted, Submits
<1>8. ASSUME NEW t \in current
      PROVE  Follows(Tail(up), down', t, filter, shown[t], Listed(t, filter)')
  <2> DEFINE rows == Listed(t, filter)'
  <2>1. r \notin Queries(t) /\ a \notin Listings(t)
    BY <1>3, <1>4, <1>5 DEF Queries, Listings
  <2>2. rows = Listed(t, filter) \/ (r.kind # "run" /\ ok /\ t = r.table)
    OBVIOUS
  <2> HIDE DEF rows
  <2>3. r.of = "gone" /\ r.kind # "run" => r \in Lost
    BY <1>1, <1>5 DEF Lost
  <2>4. r.of # "gone" /\ ok /\ t = r.table => Has(down', Prompts(t))
    <3> SUFFICES ASSUME r.of # "gone", ok, t = r.table PROVE Has(down', Prompts(t))
      OBVIOUS
    <3>1. a \in Prompts(t)
      BY <1>3, <1>4 DEF Prompts
    <3>2. down' = Append(down, a) /\ down \in Seq(Answers)
      BY <1>2, Pended
    <3> QED
      BY <1>4, <3>1, <3>2, OnAppended, ZenonT(30)
  <2>5. rows = Listed(t, filter) \/ r \in Lost \/ Has(down', Prompts(t))
    BY <2>2, <2>3, <2>4
  <2>6. down' = down \/ \E x \in Answers : down' = Append(down, x) /\ x \notin Listings(t)
    BY <1>2, <1>4, <2>1
  <2> QED
    BY <2>1, <2>5, <2>6, FollowsServed DEF rows
<1>9. TablesFollow'
  BY <1>8 DEF TablesFollow
<1>10. FormKnows'
  <2> SUFFICES ASSUME form.at # "closed", ~typing PROVE Knows(Tail(up), down', form.cron, form.error)
    BY DEF FormKnows
  <2>1. Knows(up, down, form.cron, form.error)
    BY DEF PageInv, FormKnows
  <2>2. r \notin Tests /\ a \notin Verdicts
    BY <1>3, <1>4, <1>5 DEF Tests, Verdicts
  <2>3. down' = down \/ \E x \in Answers : down' = Append(down, x) /\ x \notin Verdicts
    BY <1>2, <1>4, <2>2
  <2> QED
    BY <2>1, <2>2, <2>3, Pended, KnowsServed
<1>11. \/ down' = down
       \/ \E x \in Answers : /\ down' = Append(down, x) /\ x \notin StrayAnswers(tab)
                             /\ x \in Submitted => r \in Submits
  BY <1>2, <1>4, <1>7
<1>12. pending' \in Seq(Frames) /\ ~Has(pending', StrayFrames(tab)) /\ ~Has(pending', Submits)
  BY Pended
<1> QED
  BY <1>9, <1>10, <1>11, <1>12, ServedStep

LEMMA ServeDeleteStep ==
    ASSUME PageInv, ServeDelete, UNCHANGED serverRest
    PROVE  PageInv'
<1> DEFINE r == Head(up)
<1>1. /\ up # <<>> /\ r.kind = "delete" /\ up' = Tail(up) /\ Done(r, TRUE)
      /\ stored' = [stored EXCEPT ![r.table] = @ \ {r.id}]
      /\ enabled' = IF r.table = "schedules" THEN enabled \ {r.id} ELSE enabled
      /\ UNCHANGED <<pending, tab, online, shown, filter, current, expanded, form, typing>>
  BY DEF ServeDelete, Takes, Request, serverRest
<1>2. r \in Frames /\ stored \in [Tables -> SUBSET AllIds] /\ current \subseteq Tables
  BY <1>1, Asks, Pended
<1> HIDE DEF r
<1>3. r.table \in Tables
  BY <1>2 DEF Frames
<1>4. stored' \in [Tables -> SUBSET AllIds] /\ \A t \in Tables : t # r.table => stored'[t] = stored[t]
  BY <1>1, <1>2, <1>3
<1>5. ASSUME NEW t \in current, t # r.table
      PROVE  Listed(t, filter)' = Listed(t, filter)
  BY <1>1, <1>2, <1>4, <1>5, SameRows
<1>6. \A t \in current : \/ Listed(t, filter)' = Listed(t, filter)
                         \/ r.kind # "run" /\ TRUE /\ t = r.table
  BY <1>1, <1>5
<1> QED
  BY <1>1, <1>4, <1>6, DoneStep DEF r

LEMMA ServeEnableStep ==
    ASSUME PageInv, ServeEnable, UNCHANGED serverRest
    PROVE  PageInv'
<1> DEFINE r == Head(up) ok == r.id \in stored["schedules"]
<1>1. /\ up # <<>> /\ r.kind \in {"enable", "disable"} /\ up' = Tail(up) /\ Done(r, ok)
      /\ ~ok => enabled' = enabled
      /\ UNCHANGED <<stored, pending, tab, online, shown, filter, current, expanded, form, typing>>
  BY DEF ServeEnable, Takes, Request, serverRest
<1>2. r \in Frames /\ r \notin StrayFrames(tab) /\ stored \in [Tables -> SUBSET AllIds] /\ current \subseteq Tables
  BY <1>1, Asks, Pended
<1>3. ok \in BOOLEAN
  OBVIOUS
<1> HIDE DEF r, ok
<1>4. r.table = "schedules"
  BY <1>1, <1>2 DEF StrayFrames, TableOf
<1>5. ASSUME NEW t \in current, t # r.table \/ ~ok
      PROVE  Listed(t, filter)' = Listed(t, filter)
  <2>1. t \in Tables /\ stored'[t] = stored[t] /\ (t = "schedules" => enabled' = enabled) /\ filter' = filter
    BY <1>1, <1>2, <1>4, <1>5
  <2> QED
    BY <2>1, SameRows
<1>6. \A t \in current : \/ Listed(t, filter)' = Listed(t, filter)
                         \/ r.kind # "run" /\ ok /\ t = r.table
  BY <1>1, <1>5
<1>7. stored' \in [Tables -> SUBSET AllIds] /\ r.kind \in {"run", "delete", "enable", "disable", "create", "submit"}
  BY <1>1, <1>2
<1> QED
  BY <1>1, <1>3, <1>6, <1>7, DoneStep DEF r

LEMMA ServeCreateStep ==
    ASSUME PageInv, ServeCreate, UNCHANGED serverRest
    PROVE  PageInv'
<1> DEFINE r == Head(up)
<1>1. /\ up # <<>> /\ r.kind = "create" /\ up' = Tail(up) /\ Done(r, TRUE)
      /\ stored' = [stored EXCEPT !["alerts"] = @ \cup {r.id}]
      /\ UNCHANGED <<enabled, pending, tab, online, shown, filter, current, expanded, form, typing>>
  BY DEF ServeCreate, Takes, Request, serverRest
<1>2. r \in Frames /\ r \notin StrayFrames(tab) /\ stored \in [Tables -> SUBSET AllIds] /\ current \subseteq Tables
  BY <1>1, Asks, Pended
<1> HIDE DEF r
<1>3. r.id \in AllIds /\ r.table = "alerts" /\ "alerts" \in Tables
  BY <1>1, <1>2, TablesAre DEF Frames, StrayFrames, TableOf
<1>4. stored' \in [Tables -> SUBSET AllIds] /\ \A t \in Tables : t # "alerts" => stored'[t] = stored[t]
  BY <1>1, <1>2, <1>3
<1>5. ASSUME NEW t \in current, t # r.table
      PROVE  Listed(t, filter)' = Listed(t, filter)
  BY <1>1, <1>2, <1>3, <1>4, <1>5, SameRows
<1>6. \A t \in current : \/ Listed(t, filter)' = Listed(t, filter)
                         \/ r.kind # "run" /\ TRUE /\ t = r.table
  BY <1>1, <1>5
<1> QED
  BY <1>1, <1>4, <1>6, DoneStep DEF r

LEMMA ServeSubmitStep ==
    ASSUME PageInv, ServeSubmit, UNCHANGED serverRest
    PROVE  PageInv'
<1> DEFINE r == Head(up) ok == r.arg \in ValidCrons
<1>1. /\ up # <<>> /\ r.kind = "submit" /\ up' = Tail(up) /\ Done(r, ok)
      /\ \/ ~ok /\ UNCHANGED <<stored, enabled>>
         \/ ok /\ stored' = [stored EXCEPT !["schedules"] = @ \cup {r.id}]
      /\ UNCHANGED <<pending, tab, online, shown, filter, current, expanded, form, typing>>
  BY DEF ServeSubmit, Takes, Request, serverRest
<1>2. r \in Frames /\ r \notin StrayFrames(tab) /\ stored \in [Tables -> SUBSET AllIds] /\ current \subseteq Tables
  BY <1>1, Asks, Pended
<1>3. ok \in BOOLEAN
  OBVIOUS
<1> HIDE DEF r, ok
<1>4. r.id \in AllIds /\ r.table = "schedules" /\ "schedules" \in Tables
  BY <1>1, <1>2, TablesAre DEF Frames, StrayFrames, TableOf
<1>5. /\ stored' \in [Tables -> SUBSET AllIds] /\ \A t \in Tables : t # "schedules" => stored'[t] = stored[t]
  <2>1. CASE UNCHANGED <<stored, enabled>>
    BY <1>2, <2>1
  <2>2. CASE stored' = [stored EXCEPT !["schedules"] = @ \cup {r.id}]
    BY <1>2, <1>4, <2>2
  <2> QED
    BY <1>1, <2>1, <2>2
<1>6. ASSUME NEW t \in current, t # r.table \/ ~ok
      PROVE  Listed(t, filter)' = Listed(t, filter)
  <2>1. t \in Tables /\ stored'[t] = stored[t] /\ (t = "schedules" => enabled' = enabled) /\ filter' = filter
    BY <1>1, <1>2, <1>4, <1>5, <1>6
  <2> QED
    BY <2>1, SameRows
<1>7. \A t \in current : \/ Listed(t, filter)' = Listed(t, filter)
                         \/ r.kind # "run" /\ ok /\ t = r.table
  BY <1>1, <1>6
<1>8. r.kind \in {"run", "delete", "enable", "disable", "create", "submit"}
  BY <1>1
<1> QED
  BY <1>1, <1>3, <1>5, <1>7, <1>8, DoneStep DEF r

\* A run that was asked for waits, or is refused at once.
LEMMA ServeRunStep ==
    ASSUME PageInv, ServeRun, UNCHANGED serverRest
    PROVE  PageInv'
<1> DEFINE r == Head(up)
<1>1. /\ up # <<>> /\ r.kind = "run" /\ up' = Tail(up)
      /\ \/ pending' = Append(pending, r) /\ down' = down
         \/ Done(r, FALSE) /\ pending' = pending
      /\ UNCHANGED <<stored, enabled, tab, online, shown, filter, current, expanded, form, typing>>
  BY DEF ServeRun, Takes, Request, serverRest
<1>2. /\ r \in Frames /\ r \notin StrayFrames(tab) /\ stored' \in [Tables -> SUBSET AllIds] /\ current \subseteq Tables
      /\ pending \in Seq(Frames) /\ ~Has(pending, StrayFrames(tab)) /\ ~Has(pending, Submits)
      /\ up \in Seq(Frames) /\ down \in Seq(Answers)
  BY <1>1, Asks, Pended
<1> HIDE DEF r
<1>3. r.kind \in {"run", "delete", "enable", "disable", "create", "submit"} /\ FALSE \in BOOLEAN
  BY <1>1
<1>4. \A t \in current : Listed(t, filter)' = Listed(t, filter)
  BY <1>1 DEF Listed
<1>5. CASE Done(r, FALSE) /\ pending' = pending
  <2>1. \A t \in current : \/ Listed(t, filter)' = Listed(t, filter)
                           \/ r.kind # "run" /\ FALSE /\ t = r.table
    BY <1>4
  <2> QED
    BY <1>1, <1>2, <1>3, <1>5, <2>1, DoneStep DEF r
<1>6. CASE pending' = Append(pending, r) /\ down' = down
  <2>1. /\ pending' \in Seq(Frames)
        /\ Has(pending', StrayFrames(tab)) <=> Has(pending, StrayFrames(tab)) \/ r \in StrayFrames(tab)
        /\ Has(pending', Submits) <=> Has(pending, Submits) \/ r \in Submits
    BY <1>2, <1>6, OnAppended
  <2>2. r \notin Submits /\ r \notin Tests /\ \A t : r \notin Queries(t)
    BY <1>1 DEF Submits, Tests, Queries
  <2>3. ASSUME NEW t \in current
        PROVE  Follows(Tail(up), down, t, filter, shown[t], Listed(t, filter))
    BY <1>1, <2>2, FollowsServed DEF r
  <2>4. TablesFollow'
    BY <1>1, <1>4, <1>6, <2>3 DEF TablesFollow
  <2>5. FormKnows'
    <3> SUFFICES ASSUME form.at # "closed", ~typing PROVE Knows(Tail(up), down, form.cron, form.error)
      BY <1>1, <1>6 DEF FormKnows
    <3>1. Knows(up, down, form.cron, form.error)
      BY DEF PageInv, FormKnows
    <3> QED
      BY <1>1, <1>2, <2>2, <3>1, KnowsServed DEF r
  <2> QED
    BY <1>1, <1>2, <1>6, <2>1, <2>2, <2>4, <2>5, ServedStep
<1> QED
  BY <1>1, <1>5, <1>6

\* Requests that change nothing are answered.
LEMMA AnsweredStep ==
    ASSUME PageInv, up # <<>>, up' = Tail(up), NEW kind \in {"listed", "got", "tested"}, NEW id \in AllIds,
           NEW ok \in BOOLEAN, NEW rows \in AllRows, NEW a, a = Answer(Head(up), kind, id, ok, rows), Reply(Head(up), a),
           kind = "listed" <=> Head(up).kind = "list",
           kind = "tested" <=> Head(up).kind = "test",
           \A t \in current : Head(up) \in Asking(t, filter) => rows = Listed(t, filter),
           Head(up).kind = "test" => (ok <=> Head(up).arg \in ValidCrons),
           UNCHANGED <<stored, enabled, pending, tab, online, shown, filter, current, expanded, form, typing>>
    PROVE  PageInv'
<1> DEFINE r == Head(up)
<1>1. /\ r \in Frames /\ r \notin StrayFrames(tab)
      /\ up \in Seq(Frames) /\ down \in Seq(Answers) /\ stored' \in [Tables -> SUBSET AllIds]
      /\ pending' \in Seq(Frames) /\ ~Has(pending', StrayFrames(tab)) /\ ~Has(pending', Submits)
  BY Asks, Pended
<1>2. /\ down' = (IF r.of = "gone" THEN down ELSE Append(down, a)) /\ a = Answer(r, kind, id, ok, rows)
      /\ kind = "listed" <=> r.kind = "list"
      /\ kind = "tested" <=> r.kind = "test"
      /\ \A t \in current : r \in Asking(t, filter) => rows = Listed(t, filter)
      /\ r.kind = "test" => (ok <=> r.arg \in ValidCrons)
  BY DEF Reply
<1> HIDE DEF r
<1>3. r.of \in Elements /\ r.table \in Tables
  BY <1>1 DEF Frames
<1>4. a \in Answers /\ a.kind = kind /\ a.of = r.of /\ a.table = r.table /\ a.ok = ok /\ a.rows = rows
  BY <1>2, <1>3, AnswerIs
<1>5. r.of # "gone" => a \notin StrayAnswers(tab) /\ a \notin Submitted
  <2>1. r.of # "gone" => r.table \in OfTab(tab)
    BY <1>1 DEF StrayFrames, Live
  <2> QED
    BY <1>4, <2>1 DEF StrayAnswers, Submitted
<1>6. ASSUME NEW t \in current
      PROVE  Follows(Tail(up), down', t, filter, shown[t], Listed(t, filter))
  <2> DEFINE listed == Listed(t, filter) seen == shown[t]
  <2>1. CASE r \in Queries(t)
    <3>1. r.of # "gone" /\ kind = "listed" /\ r.table = t
      BY <1>2, <2>1 DEF Queries, Live
    <3>2. r \in Asking(t, filter) => a \in Reports(t, listed)
      BY <1>2, <1>4, <3>1 DEF Reports, Listings
    <3>3. Agrees(up, down, Asking(t, filter), Queries(t), Lost, Reports(t, listed), Listings(t), Prompts(t), seen = listed)
      BY DEF PageInv, TablesFollow, Follows
    <3> HIDE DEF listed, seen
    <3>4. Agrees(Tail(up), Append(down, a), Asking(t, filter), Queries(t), Lost, Reports(t, listed), Listings(t),
                 Prompts(t), seen = listed)
      <4>1. up # <<>> /\ Head(up) \in Queries(t) /\ (Head(up) \in Asking(t, filter) => a \in Reports(t, listed))
        BY <2>1, <3>2 DEF r
      <4>2. (seen = listed) \in BOOLEAN
        OBVIOUS
      <4> QED
        BY <1>1, <1>4, <3>3, <4>1, <4>2, AgreesAnswered
    <3> QED
      BY <1>2, <3>1, <3>4 DEF Follows, listed, seen
  <2>2. CASE r \notin Queries(t)
    <3>1. r.of # "gone" => a \notin Listings(t)
      BY <1>1, <1>2, <1>4, <2>2 DEF Queries, Listings, Live
    <3>2. down' = down \/ \E x \in Answers : down' = Append(down, x) /\ x \notin Listings(t)
      BY <1>2, <1>4, <3>1
    <3> QED
      BY <2>2, <3>2, FollowsServed DEF r
  <2> QED
    BY <2>1, <2>2
<1>7. TablesFollow'
  <2>1. \A t : Listed(t, filter)' = Listed(t, filter)
    BY DEF Listed
  <2> QED
    BY <1>6, <2>1 DEF TablesFollow
<1>8. FormKnows'
  <2> SUFFICES ASSUME form.at # "closed", ~typing PROVE Knows(Tail(up), down', form.cron, form.error)
    BY DEF FormKnows
  <2> DEFINE cron == form.cron error == form.error
  <2>1. Knows(up, down, cron, error)
    BY DEF PageInv, FormKnows
  <2> HIDE DEF cron, error
  <2>2. CASE r \in Tests
    <3>1. r.of = "page" /\ kind = "tested" /\ (ok <=> r.arg \in ValidCrons)
      BY <1>2, <2>2 DEF Tests
    <3>2. r \in Testing(cron) => a \in VerdictOn(cron)
      BY <1>4, <3>1 DEF Testing, VerdictOn, Verdicts
    <3> DEFINE right == ~error => cron \in ValidCrons
    <3>3. right \in BOOLEAN /\ Agrees(up, down, Testing(cron), Tests, {}, VerdictOn(cron), Verdicts, {}, right)
      BY <2>1 DEF Knows
    <3> HIDE DEF right
    <3>4. up # <<>> /\ Head(up) \in Tests /\ (Head(up) \in Testing(cron) => a \in VerdictOn(cron))
      BY <2>2, <3>2 DEF r
    <3>5. Agrees(Tail(up), Append(down, a), Testing(cron), Tests, {}, VerdictOn(cron), Verdicts, {}, right)
      BY <1>1, <1>4, <3>3, <3>4, AgreesAnswered
    <3>6. down' = Append(down, a)
      BY <1>2, <3>1
    <3>7. Knows(Tail(up), Append(down, a), cron, error)
      BY <3>5 DEF Knows, right
    <3> QED
      BY <3>6, <3>7 DEF cron, error
  <2>3. CASE r \notin Tests
    <3>1. a \notin Verdicts
      BY <1>1, <1>2, <1>4, <2>3 DEF Tests, Verdicts
    <3>2. down' = down \/ \E x \in Answers : down' = Append(down, x) /\ x \notin Verdicts
      BY <1>2, <1>4, <3>1
    <3>3. Knows(Tail(up), down', cron, error)
      BY <1>1, <2>1, <2>3, <3>2, KnowsServed DEF r
    <3> QED
      BY <3>3 DEF cron, error
  <2> QED
    BY <2>2, <2>3
<1>9. \/ down' = down
      \/ \E x \in Answers : /\ down' = Append(down, x) /\ x \notin StrayAnswers(tab)
                            /\ x \in Submitted => Head(up) \in Submits
  BY <1>2, <1>4, <1>5
<1> QED
  BY <1>1, <1>7, <1>8, <1>9, ServedStep

LEMMA ListedIs ==
    ASSUME PageInv, NEW t \in Tables, NEW f
    PROVE  Listed(t, f) \in AllRows
<1>1. stored[t] \subseteq AllIds
  BY DEF PageInv, PageTypes
<1>2. CASE t = "memories"
  BY <1>1, <1>2 DEF Listed, AllRows
<1>3. CASE t = "schedules"
  <2>1. Listed(t, f) = {[id |-> i, on |-> i \in enabled] : i \in stored[t]}
    BY <1>3 DEF Listed
  <2>2. \A i \in stored[t] : [id |-> i, on |-> i \in enabled] \in [id : AllIds, on : BOOLEAN]
    BY <1>1
  <2>3. {[id |-> i, on |-> i \in enabled] : i \in stored[t]} \subseteq [id : AllIds, on : BOOLEAN]
    BY <2>2
  <2> QED
    BY <2>1, <2>3 DEF AllRows
<1>4. CASE t \notin {"memories", "schedules"}
  BY <1>1, <1>4 DEF Listed, AllRows
<1> QED
  BY <1>2, <1>3, <1>4

LEMMA ServeListStep ==
    ASSUME PageInv, ServeList, UNCHANGED serverRest
    PROVE  PageInv'
<1> DEFINE r == Head(up) rows == Listed(r.table, r.arg) a == Answer(r, "listed", Nothing, TRUE, rows)
<1>1. /\ up # <<>> /\ r.kind = "list" /\ up' = Tail(up) /\ Reply(r, a)
      /\ UNCHANGED <<stored, enabled, pending, tab, online, shown, filter, current, expanded, form, typing>>
  BY DEF ServeList, Takes, Request, serverRest, server
<1>2. r \in Frames
  BY <1>1, Asks
<1>3. r.table \in Tables
  BY <1>2 DEF Frames
<1>4. rows \in AllRows
  BY <1>3, ListedIs
<1>5. ASSUME NEW t \in current, r \in Asking(t, filter)
      PROVE  rows = Listed(t, filter)
  <2>1. r.table = t /\ (t = "memories" => r.arg = filter)
    BY <1>5 DEF Asking, Queries
  <2>2. CASE t = "memories"
    BY <2>1, <2>2
  <2>3. CASE t # "memories"
    BY <2>1, <2>3 DEF Listed
  <2> QED
    BY <2>2, <2>3
<1> HIDE DEF rows
<1>6. a = Answer(r, "listed", Nothing, TRUE, rows)
  OBVIOUS
<1> HIDE DEF a
<1>7. "listed" = "listed" <=> r.kind = "list"
  BY <1>1
<1>8. /\ "listed" = "tested" <=> r.kind = "test"
      /\ r.kind = "test" => (TRUE <=> r.arg \in ValidCrons)
      /\ Nothing \in AllIds
  BY <1>1, TablesAre
<1> QED
  BY <1>1, <1>4, <1>5, <1>6, <1>7, <1>8, AnsweredStep DEF r

LEMMA ServeGetStep ==
    ASSUME PageInv, ServeGet, UNCHANGED serverRest
    PROVE  PageInv'
<1> DEFINE r == Head(up) a == Answer(r, "got", r.id, TRUE, {})
<1>1. /\ up # <<>> /\ r.kind = "get" /\ up' = Tail(up) /\ Reply(r, a)
      /\ UNCHANGED <<stored, enabled, pending, tab, online, shown, filter, current, expanded, form, typing>>
  BY DEF ServeGet, Takes, Request, serverRest, server
<1>2. r \in Frames
  BY <1>1, Asks
<1>3. r.id \in AllIds /\ {} \in AllRows
  BY <1>2 DEF Frames, AllRows
<1>4. a = Answer(r, "got", r.id, TRUE, {})
  OBVIOUS
<1> HIDE DEF a
<1>5. /\ "got" = "listed" <=> r.kind = "list"
      /\ "got" = "tested" <=> r.kind = "test"
      /\ \A t \in current : r \in Asking(t, filter) => {} = Listed(t, filter)
      /\ r.kind = "test" => (TRUE <=> r.arg \in ValidCrons)
  BY <1>1 DEF Asking, Queries
<1> QED
  BY <1>1, <1>3, <1>4, <1>5, AnsweredStep DEF r

LEMMA ServeTestStep ==
    ASSUME PageInv, ServeTest, UNCHANGED serverRest
    PROVE  PageInv'
<1> DEFINE r == Head(up) ok == r.arg \in ValidCrons a == Answer(r, "tested", Nothing, ok, {})
<1>1. /\ up # <<>> /\ r.kind = "test" /\ up' = Tail(up) /\ Reply(r, a)
      /\ UNCHANGED <<stored, enabled, pending, tab, online, shown, filter, current, expanded, form, typing>>
  BY DEF ServeTest, Takes, Request, serverRest, server
<1>2. Nothing \in AllIds /\ {} \in AllRows /\ ok \in BOOLEAN
  BY TablesAre DEF AllRows
<1>3. a = Answer(r, "tested", Nothing, ok, {})
  OBVIOUS
<1> HIDE DEF a
<1>4. /\ "tested" = "listed" <=> r.kind = "list"
      /\ "tested" = "tested" <=> r.kind = "test"
      /\ \A t \in current : r \in Asking(t, filter) => {} = Listed(t, filter)
      /\ r.kind = "test" => (ok <=> r.arg \in ValidCrons)
  BY <1>1 DEF Asking, Queries
<1> HIDE DEF ok
<1> QED
  BY <1>1, <1>2, <1>3, <1>4, AnsweredStep DEF r

LEMMA ServesStep ==
    ASSUME PageInv, Serves
    PROVE  PageInv'
  BY ServeListStep, ServeGetStep, ServeTestStep, ServeRunStep, ServeDeleteStep, ServeEnableStep, ServeCreateStep,
     ServeSubmitStep DEF Serves

-----------------------------------------------------------------------------
\* The page is told something that nobody asked for, or of a run that has ended.
LEMMA FollowsTold ==
    ASSUME NEW u, NEW d \in Seq(Answers), NEW a \in Answers, NEW t, NEW choice, NEW seen, NEW rows, NEW new,
           Follows(u, d, t, choice, seen, rows), a \notin Listings(t), a \in Prompts(t) \/ new = rows
    PROVE  Follows(u, Append(d, a), t, choice, seen, new)
<1>1. a \in Prompts(t) \/ (Reports(t, new) = Reports(t, rows) /\ (seen = new) = (seen = rows))
  OBVIOUS
<1>2. (seen = rows) \in BOOLEAN /\ (seen = new) \in BOOLEAN
  OBVIOUS
<1> QED
  BY <1>1, <1>2, AgreesTold DEF Follows

LEMMA KnowsTold ==
    ASSUME NEW u, NEW d \in Seq(Answers), NEW a \in Answers, NEW cron, NEW error,
           Knows(u, d, cron, error), a \notin Verdicts
    PROVE  Knows(u, Append(d, a), cron, error)
<1> DEFINE right == ~error => cron \in ValidCrons
<1>1. right \in BOOLEAN
  OBVIOUS
<1> HIDE DEF right
<1> QED
  BY <1>1, AgreesTold DEF Knows, right

\* So it keeps what is known, whatever is appended to the answers.
LEMMA ToldStep ==
    ASSUME PageInv, stored' \in [Tables -> SUBSET AllIds],
           pending' \in Seq(Frames), ~Has(pending', StrayFrames(tab)), ~Has(pending', Submits),
           ~online => ~Has(pending', Live) /\ down' = <<>>,
           down' \in Seq(Answers), ~Has(down', StrayAnswers(tab)), ~Has(down', Submitted) \/ Has(down, Submitted),
           TablesFollow', form.at # "closed" /\ ~typing => Knows(up, down', form.cron, form.error),
           UNCHANGED <<up, tab, online, shown, filter, current, expanded, form, typing>>
    PROVE  PageInv'
<1>1. PageTypes'
  BY DEF PageInv, PageTypes
<1>2. Placed'
  BY DEF PageInv, Placed
<1>3. FormKnows' /\ FormOwns' /\ DetailIsOwn'
  BY DEF PageInv, FormKnows, FormOwns, DetailIsOwn
<1> QED
  BY <1>1, <1>2, <1>3 DEF PageInv

\* The request that has waited longest.
LEMMA Waited ==
    ASSUME PageInv, pending # <<>>
    PROVE  /\ Head(pending) \in Frames /\ Head(pending) \notin StrayFrames(tab) /\ Head(pending) \notin Submits
           /\ Tail(pending) \in Seq(Frames) /\ ~Has(Tail(pending), StrayFrames(tab)) /\ ~Has(Tail(pending), Submits)
           /\ ~online => Head(pending) \notin Live /\ ~Has(Tail(pending), Live)
<1>1. /\ pending \in Seq(Frames) /\ ~Has(pending, StrayFrames(tab)) /\ ~Has(pending, Submits)
      /\ ~online => ~Has(pending, Live)
  BY DEF PageInv, PageTypes, Placed, FormOwns
<1>2. \A P : Has(pending, P) <=> Has(Tail(pending), P) \/ Head(pending) \in P
  BY <1>1, OnTaken
<1> QED
  BY <1>1, <1>2, OnTaken

\* A request for a run is answered.
LEMMA RunAnswered ==
    ASSUME PageInv, pending # <<>>, Head(pending).of # "gone", NEW ok \in BOOLEAN,
           NEW kind \in {"done", "submitted"}, kind = "submitted" => Head(pending).kind = "submit"
    PROVE  LET a == Answer(Head(pending), kind, Nothing, ok, {})
           IN  /\ a \in Answers /\ a \notin StrayAnswers(tab) /\ a \notin Submitted /\ a \notin Verdicts /\ online
               /\ \A t : a \notin Listings(t)
<1> DEFINE r == Head(pending) a == Answer(r, kind, Nothing, ok, {})
<1>1. r \in Frames /\ r \notin StrayFrames(tab) /\ r \notin Submits /\ (~online => r \notin Live)
  BY Waited
<1>2. r.of \in Elements /\ r.table \in Tables /\ {} \in AllRows /\ online
  BY <1>1 DEF Frames, AllRows, Live
<1>3. r.of # "gone" /\ (kind = "submitted" => r.kind = "submit")
  OBVIOUS
<1> HIDE DEF r
<1>4. a \in Answers /\ a.kind = kind /\ a.of = r.of /\ a.table = r.table
  BY <1>2, AnswerIs, TablesAre
<1> HIDE DEF a
<1>5. r.table \in OfTab(tab) /\ (r.kind = "submit" => r.table = "schedules")
  BY <1>1, <1>3 DEF StrayFrames, TableOf, Live
<1>6. a \notin StrayAnswers(tab) /\ a \notin Submitted /\ a \notin Verdicts /\ \A t : a \notin Listings(t)
  BY <1>1, <1>3, <1>4, <1>5 DEF StrayAnswers, Submitted, Submits, Verdicts, Listings
<1> QED
  BY <1>2, <1>4, <1>6 DEF a, r

LEMMA RunRefusedStep ==
    ASSUME PageInv, RunRefused
    PROVE  PageInv'
<1> DEFINE r == Head(pending) kind == IF r.kind = "submit" THEN "submitted" ELSE "done"
           a == Answer(r, kind, Nothing, FALSE, {})
<1>1. /\ pending # <<>> /\ pending' = Tail(pending) /\ down' = IF r.of = "gone" THEN down ELSE Append(down, a)
      /\ UNCHANGED <<stored, enabled, up, tab, online, shown, filter, current, expanded, form, typing>>
  BY DEF RunRefused, Done, Reply, serverRest
<1>2. /\ down \in Seq(Answers) /\ ~Has(down, StrayAnswers(tab)) /\ (~online => down = <<>>)
      /\ stored' \in [Tables -> SUBSET AllIds]
  BY <1>1, Pended DEF PageInv, Placed
<1>3. /\ pending' \in Seq(Frames) /\ ~Has(pending', StrayFrames(tab)) /\ ~Has(pending', Submits)
      /\ ~online => ~Has(pending', Live)
  BY <1>1, Waited
<1>4. \A t : Listed(t, filter)' = Listed(t, filter)
  BY <1>1 DEF Listed
<1>5. CASE r.of = "gone"
  <2>1. down' = down
    BY <1>1, <1>5
  <2>2. TablesFollow'
    BY <1>1, <1>4, <2>1 DEF TablesFollow, PageInv
  <2>3. form.at # "closed" /\ ~typing => Knows(up, down', form.cron, form.error)
    BY <2>1 DEF PageInv, FormKnows
  <2> QED
    BY <1>1, <1>2, <1>3, <2>1, <2>2, <2>3, ToldStep
<1>6. CASE r.of # "gone"
  <2>1. down' = Append(down, a)
    BY <1>1, <1>6
  <2>2. /\ a \in Answers /\ a \notin StrayAnswers(tab) /\ a \notin Submitted /\ a \notin Verdicts /\ online
        /\ \A t : a \notin Listings(t)
    BY <1>1, <1>6, RunAnswered
  <2> HIDE DEF a
  <2>3. /\ down' \in Seq(Answers)
        /\ Has(down', StrayAnswers(tab)) <=> Has(down, StrayAnswers(tab)) \/ a \in StrayAnswers(tab)
        /\ Has(down', Submitted) <=> Has(down, Submitted) \/ a \in Submitted
    BY <1>2, <2>1, <2>2, OnAppended
  <2>4. ASSUME NEW t \in current
        PROVE  Follows(up, Append(down, a), t, filter, shown[t], Listed(t, filter))
    <3>1. Follows(up, down, t, filter, shown[t], Listed(t, filter))
      BY DEF PageInv, TablesFollow
    <3> QED
      BY <1>2, <2>2, <3>1, FollowsTold
  <2>5. TablesFollow'
    BY <1>1, <1>4, <2>1, <2>4 DEF TablesFollow
  <2>6. form.at # "closed" /\ ~typing => Knows(up, down', form.cron, form.error)
    BY <1>2, <2>1, <2>2, KnowsTold DEF PageInv, FormKnows
  <2> QED
    BY <1>1, <1>2, <1>3, <2>2, <2>3, <2>5, <2>6, ToldStep
<1> QED
  BY <1>5, <1>6

LEMMA CompletesStep ==
    ASSUME PageInv, NEW i \in Runs, Completes(i)
    PROVE  PageInv'
<1> DEFINE c == Answer([of |-> "page", table |-> "runs"], "completed", Nothing, TRUE, {})
           told == IF online /\ tab = "settings" THEN Append(down, c) ELSE down
           a == Answer(Head(pending), "done", Nothing, TRUE, {})
<1>1. /\ stored' = [stored EXCEPT !["runs"] = @ \cup {i}]
      /\ \/ down' = told /\ pending' = pending
         \/ /\ pending # <<>> /\ pending' = Tail(pending)
            /\ down' = IF Head(pending).of = "gone" THEN told ELSE Append(told, a)
      /\ UNCHANGED <<enabled, up, tab, online, shown, filter, current, expanded, form, typing>>
  BY DEF Completes, Notice, serverRest
<1>2. /\ pending \in Seq(Frames) /\ ~Has(pending, StrayFrames(tab)) /\ ~Has(pending, Submits)
      /\ down \in Seq(Answers) /\ ~Has(down, StrayAnswers(tab)) /\ stored \in [Tables -> SUBSET AllIds]
      /\ current \subseteq OfTab(tab) /\ current \subseteq Tables
      /\ ~online => down = <<>> /\ current = {} /\ ~Has(pending, Live)
  BY Pended DEF PageInv, Placed
<1>3. i \in AllIds
  BY DEF AllIds
<1>4. stored' \in [Tables -> SUBSET AllIds] /\ \A t \in Tables : t # "runs" => stored'[t] = stored[t]
  BY <1>1, <1>2, <1>3, TablesAre
<1>5. c \in Answers /\ c.kind = "completed" /\ c.of = "page" /\ c.table = "runs"
  <2> DEFINE r == [of |-> "page", table |-> "runs"]
  <2>1. r.of \in Elements /\ r.table \in Tables /\ r.of = "page" /\ r.table = "runs" /\ {} \in AllRows
    BY TablesAre DEF Elements, AllRows
  <2> HIDE DEF r
  <2> DEFINE kind == "completed" ok == TRUE
  <2>2. kind \in {"listed", "got", "tested", "done", "submitted", "completed"} /\ ok \in BOOLEAN
    OBVIOUS
  <2> HIDE DEF kind, ok
  <2>3. /\ Answer(r, kind, Nothing, ok, {}) \in Answers /\ Answer(r, kind, Nothing, ok, {}).kind = kind
        /\ Answer(r, kind, Nothing, ok, {}).of = r.of /\ Answer(r, kind, Nothing, ok, {}).table = r.table
    BY <2>1, <2>2, AnswerIs, TablesAre
  <2> QED
    BY <2>1, <2>3 DEF r, kind, ok
<1> HIDE DEF c
<1>6. /\ c \notin Submitted /\ c \notin Verdicts /\ \A t : c \notin Listings(t)
      /\ tab = "settings" => c \notin StrayAnswers(tab)
  BY <1>5 DEF Submitted, Verdicts, Listings, StrayAnswers, OfTab
<1>7. /\ told \in Seq(Answers) /\ ~Has(told, StrayAnswers(tab)) /\ (~online => told = <<>>)
      /\ ~Has(told, Submitted) \/ Has(down, Submitted)
  <2>1. /\ Append(down, c) \in Seq(Answers)
        /\ Has(Append(down, c), StrayAnswers(tab)) <=> Has(down, StrayAnswers(tab)) \/ c \in StrayAnswers(tab)
        /\ Has(Append(down, c), Submitted) <=> Has(down, Submitted) \/ c \in Submitted
    BY <1>2, <1>5, OnAppended
  <2> QED
    BY <1>2, <1>6, <2>1
<1>8. ASSUME NEW t \in current
      PROVE  Follows(up, told, t, filter, shown[t], Listed(t, filter)')
  <2>1. online /\ t \in OfTab(tab) /\ t \in Tables
    BY <1>2
  <2>2. Follows(up, down, t, filter, shown[t], Listed(t, filter))
    BY DEF PageInv, TablesFollow
  <2>3. t \notin {"runs", "schedules"} => Listed(t, filter)' = Listed(t, filter)
    BY <1>1, <1>4, <2>1, SameRows
  <2> DEFINE new == Listed(t, filter)'
  <2>4. CASE tab = "settings"
    <3>1. c \in Prompts(t) \/ new = Listed(t, filter)
      BY <1>5, <2>3 DEF Prompts
    <3>2. told = Append(down, c)
      BY <2>1, <2>4
    <3> HIDE DEF new
    <3> QED
      BY <1>2, <1>5, <1>6, <2>2, <3>1, <3>2, FollowsTold DEF new
  <2>5. CASE tab # "settings"
    <3>1. t \notin {"runs", "schedules"}
      BY <2>1, <2>5 DEF OfTab
    <3> QED
      BY <2>2, <2>3, <2>5, <3>1
  <2> QED
    BY <2>4, <2>5
<1>9. form.at # "closed" /\ ~typing => Knows(up, told, form.cron, form.error)
  <2> SUFFICES ASSUME form.at # "closed", ~typing PROVE Knows(up, told, form.cron, form.error)
    OBVIOUS
  <2>1. Knows(up, down, form.cron, form.error)
    BY DEF PageInv, FormKnows
  <2>2. Knows(up, Append(down, c), form.cron, form.error)
    BY <1>2, <1>5, <1>6, <2>1, KnowsTold
  <2> QED
    BY <2>1, <2>2
<1> HIDE DEF told
<1>10. CASE down' = told /\ (pending' = pending \/ (pending # <<>> /\ pending' = Tail(pending)))
  <2>1. /\ pending' \in Seq(Frames) /\ ~Has(pending', StrayFrames(tab)) /\ ~Has(pending', Submits)
        /\ ~online => ~Has(pending', Live)
    BY <1>2, <1>10, Waited
  <2>2. TablesFollow'
    BY <1>1, <1>8, <1>10 DEF TablesFollow
  <2> QED
    BY <1>1, <1>4, <1>7, <1>9, <1>10, <2>1, <2>2, ToldStep
<1>11. CASE pending # <<>> /\ pending' = Tail(pending) /\ Head(pending).of # "gone" /\ down' = Append(told, a)
  <2>1. "done" = "submitted" => Head(pending).kind = "submit"
    OBVIOUS
  <2>2. /\ a \in Answers /\ a \notin StrayAnswers(tab) /\ a \notin Submitted /\ a \notin Verdicts /\ online
        /\ \A t : a \notin Listings(t)
    BY <1>11, <2>1, RunAnswered
  <2> HIDE DEF a
  <2>3. /\ down' \in Seq(Answers)
        /\ Has(down', StrayAnswers(tab)) <=> Has(told, StrayAnswers(tab)) \/ a \in StrayAnswers(tab)
        /\ Has(down', Submitted) <=> Has(told, Submitted) \/ a \in Submitted
    BY <1>7, <1>11, <2>2, OnAppended
  <2>4. ASSUME NEW t \in current
        PROVE  Follows(up, Append(told, a), t, filter, shown[t], Listed(t, filter)')
    <3> DEFINE rows == Listed(t, filter)'
    <3>1. Follows(up, told, t, filter, shown[t], rows)
      BY <1>8
    <3> HIDE DEF rows
    <3>2. Follows(up, Append(told, a), t, filter, shown[t], rows)
      BY <1>7, <2>2, <3>1, FollowsTold
    <3> QED
      BY <3>2 DEF rows
  <2>5. TablesFollow'
    BY <1>1, <1>11, <2>4 DEF TablesFollow
  <2>6. form.at # "closed" /\ ~typing => Knows(up, down', form.cron, form.error)
    BY <1>7, <1>9, <1>11, <2>2, KnowsTold
  <2>7. pending' \in Seq(Frames) /\ ~Has(pending', StrayFrames(tab)) /\ ~Has(pending', Submits)
    BY <1>11, Waited
  <2> QED
    BY <1>1, <1>4, <1>7, <2>2, <2>3, <2>5, <2>6, <2>7, ToldStep
<1> QED
  BY <1>1, <1>10, <1>11

-----------------------------------------------------------------------------
LEMMA PagesStart == PagesInit => PageInv
<1> SUFFICES ASSUME PagesInit PROVE PageInv
  OBVIOUS
<1>1. /\ tab \in {"settings", "alerts"} /\ online \in BOOLEAN /\ pending = <<>> /\ down = <<>>
      /\ up = (IF online THEN Lists(Needs[tab], Nothing) ELSE <<>>)
      /\ shown = [t \in Tables |-> {}] /\ filter = Nothing
      /\ current = (IF online THEN Members(Needs[tab]) ELSE {})
      /\ expanded = Nobody /\ form = NoForm /\ typing = FALSE
  BY DEF PagesInit
<1> DEFINE ts == Needs[tab]
<1>2. /\ ts \in Seq(Tables) /\ Members(ts) = OfTab(tab) /\ \A i, j \in DOMAIN ts : ts[i] = ts[j] => i = j
  BY <1>1, NeedsAre
<1>3. Nothing \in Types \cup {Nothing}
  OBVIOUS
<1> HIDE DEF ts
<1>4. /\ Lists(ts, Nothing) \in Seq(Frames)
      /\ ~Has(Lists(ts, Nothing), Tests) /\ ~Has(Lists(ts, Nothing), Lost)
      /\ ~Has(Lists(ts, Nothing), Submits)
      /\ \A t : t \notin Members(ts) => ~Has(Lists(ts, Nothing), Queries(t))
      /\ \A t \in Members(ts) : Ends(Lists(ts, Nothing), Asking(t, Nothing), Queries(t) \cup Lost)
      /\ \A v : Members(ts) \subseteq OfTab(v) => ~Has(Lists(ts, Nothing), StrayFrames(v))
  BY <1>2, <1>3, ListsAre
<1>5. \A P : ~Has(<<>>, P)
  BY DEF Has
<1>6. <<>> \in Seq(Frames) /\ <<>> \in Seq(Answers)
  OBVIOUS
<1>7. up \in Seq(Frames) /\ ~Has(up, StrayFrames(tab)) /\ ~Has(up, Submits) /\ (~online => up = <<>>)
  <2>1. CASE online
    <3>1. up = Lists(ts, Nothing)
      BY <1>1, <2>1 DEF ts
    <3> QED
      BY <1>2, <1>4, <2>1, <3>1
  <2>2. CASE ~online
    <3>1. up = <<>>
      BY <1>1, <2>2
    <3> QED
      BY <1>5, <1>6, <2>2, <3>1
  <2> QED
    BY <2>1, <2>2
<1>8. current \subseteq OfTab(tab) /\ current \subseteq Tables /\ (~online => current = {})
  BY <1>1, <1>2, TablesAre DEF ts
<1>9. PageTypes
  <2>1. stored \in [Tables -> SUBSET AllIds]
    <3>1. PICK rows \in {<<{}, {}>>, <<Runs, Schedules>>} :
            stored = [memories |-> Memories, runs |-> rows[1], schedules |-> rows[2], alerts |-> {}]
      BY DEF PagesInit
    <3>2. /\ DOMAIN stored = Tables /\ stored["memories"] = Memories /\ stored["runs"] = rows[1]
          /\ stored["schedules"] = rows[2] /\ stored["alerts"] = {}
          /\ stored = [t \in Tables |-> stored[t]]
      BY <3>1 DEF Tables
    <3>3. rows[1] \subseteq AllIds /\ rows[2] \subseteq AllIds /\ Memories \subseteq AllIds
      BY DEF AllIds
    <3> QED
      BY <3>2, <3>3, TablesAre
  <2>2. shown \in [Tables -> AllRows]
    BY <1>1 DEF AllRows
  <2>3. /\ filter \in Types \cup {Nothing} /\ expanded \in [id : AllIds, run : AllIds]
        /\ form \in [at : {"closed", "open", "submitting"}, cron : Crons \cup {Nothing}, error : BOOLEAN]
    BY <1>1, TablesAre DEF NoForm, Nobody
  <2>4. pending \in Seq(Frames) /\ down \in Seq(Answers) /\ typing \in BOOLEAN
    BY <1>1, <1>6
  <2> QED
    BY <1>1, <1>7, <1>8, <2>1, <2>2, <2>3, <2>4 DEF PageTypes
<1>10. form.at = "closed" /\ ~typing /\ DetailIsOwn
  BY <1>1 DEF NoForm, Nobody, DetailIsOwn
<1>11. Placed
  <2>1. ~Has(pending, Live) /\ ~Has(pending, StrayFrames(tab)) /\ ~Has(down, StrayAnswers(tab)) /\ down = <<>>
    BY <1>1, <1>5
  <2>2. \A t \in Tables : shown[t] = {}
    BY <1>1
  <2> QED
    BY <1>7, <1>8, <1>10, <2>1, <2>2 DEF Placed
<1>12. TablesFollow
  <2> SUFFICES ASSUME NEW t \in current PROVE Follows(up, down, t, filter, shown[t], Listed(t, filter))
    BY DEF TablesFollow
  <2>1. online /\ up = Lists(ts, Nothing) /\ t \in Members(ts) /\ filter = Nothing
    BY <1>1 DEF ts
  <2> QED
    BY <1>4, <2>1 DEF Follows, Agrees
<1>13. FormKnows /\ FormOwns
  BY <1>1, <1>5, <1>7, <1>10 DEF FormKnows, FormOwns
<1> QED
  BY <1>9, <1>10, <1>11, <1>12, <1>13 DEF PageInv

LEMMA PageSteps == PageInv /\ [PagesNext]_pageVars => PageInv'
<1> SUFFICES ASSUME PageInv, [PagesNext]_pageVars PROVE PageInv'
  OBVIOUS
<1>1. CASE UNCHANGED pageVars
  <2>1. UNCHANGED <<stored, enabled, pending, tab, online, up, down, shown, filter, current, expanded, form, typing>>
    BY <1>1 DEF pageVars, server
  <2>2. PageTypes' /\ Placed'
    BY <2>1 DEF PageInv, PageTypes, Placed
  <2>3. TablesFollow' /\ FormKnows' /\ FormOwns' /\ DetailIsOwn'
    BY <2>1 DEF PageInv, TablesFollow, Listed, FormKnows, FormOwns, DetailIsOwn
  <2> QED
    BY <2>2, <2>3 DEF PageInv
<1>2. CASE User
  <2>1. CASE \/ \E i \in Memories : DeleteMemory(i)
             \/ \E s \in [id : Schedules, on : BOOLEAN] : DeleteSchedule(s) \/ Toggle(s) \/ RunNow(s)
             \/ \E i \in Alerts : CreateAlert(i)
    BY <2>1, RowButtons
  <2>2. CASE \/ \E t \in {"settings", "alerts"} : Opened(t)
             \/ \E t \in Tables : Refresh(t)
             \/ \E f \in Types \cup {Nothing} : Filter(f)
             \/ \E i \in Runs : ToggleRun(i)
    BY <2>2, OpenedStep, RefreshStep, FilterStep, ToggleRunStep
  <2>3. CASE \/ OpenForm \/ CloseForm \/ \E i \in Schedules : Submit(i)
             \/ \E c \in Crons : Type(c) \/ Preset(c)
    BY <2>3, OpenFormStep, CloseFormStep, SubmitStep, TypeStep, PresetStep
  <2> QED
    BY <1>2, <2>1, <2>2, <2>3 DEF User
<1>3. CASE Others
  BY <1>3, ElsewhereStep, RunRefusedStep, CompletesStep DEF Others
<1>4. CASE Steps
  BY <1>4, ServesStep, DebouncedStep, OnListedStep, OnGotStep, OnTestedStep, OnDoneStep, OnSubmittedStep, OnCompletedStep,
     DropStep, BackStep DEF Steps
<1> QED
  BY <1>1, <1>2, <1>3, <1>4 DEF PagesNext

\* A table of the web page that was loaded on the open socket, and that nobody but the page and
\* the scheduler changed since, shows what the server has once nothing is under way, whatever was
\* clicked, completed, failed or left in between; the schedule form knows whether its expression
\* is accepted; and the detail under a run is that run's.  (settings-view.ts, alerts-view.ts,
\* schedule-form.ts)
THEOREM PagesAlwaysFollow == PagesSpec => []PagesFollow
<1>1. PagesInit => PageInv
  BY PagesStart
<1>2. PageInv /\ [PagesNext]_pageVars => PageInv'
  BY PageSteps
<1>3. PageInv => PagesFollow
  BY QuietPages
<1> QED
  BY <1>1, <1>2, <1>3, PTL DEF PagesSpec

-----------------------------------------------------------------------------
(* Lock files.                                                             *)

CONSTANTS Procs, MaxFiles, MaxCount
VARIABLES kind, lock, locker, made, holes
Locks == INSTANCE FileLocks WITH file <- lock, proc <- locker

\* A process is nobody who is gone.
LocksAssumption == Locks!Gone \notin Procs

Files == [id : Nat \ {0}, by : Procs \cup {Locks!Gone}, written : BOOLEAN, age : 0..2]
LockerStates == [at : {"idle", "open", "read", "age", "stat", "wait"}]
         \cup [at : {"write"}, id : Nat \ {0}]
         \cup [at : {"unlink"}, id : Nat \ {0}]
         \cup [at : {"info"}, age : 0..2, id : Nat \ {0}]
         \cup [at : {"held"}, id : Nat \ {0}, count : Nat \ {0}]
OfFile == {"write", "unlink", "info", "held"}

LockTypes == /\ kind \in {"session", "gateway"}
             /\ lock \in Files \cup {Locks!NoFile} /\ made \in Nat
             /\ locker \in [Procs -> LockerStates]

\* What exists was created before.
Numbered == /\ lock.id <= made
            /\ \A p \in Procs : Locks!At(p) \in OfFile => locker[p].id <= made

Owns(p) == Locks!There /\ lock.id = locker[p].id /\ lock.by = p

\* As long as no lock was lost: the file of a process that creates or holds one is
\* there and its own, and one that is about to be removed is nobody's.
Owned == \A p \in Procs :
           /\ Locks!At(p) = "write" => Owns(p) /\ ~lock.written
           /\ Locks!At(p) = "held" => Owns(p) /\ lock.written
           /\ Locks!At(p) = "unlink" /\ Locks!There /\ lock.id = locker[p].id => lock.by = Locks!Gone

LockInv == LockTypes /\ Numbered /\ (holes = {} => Owned)

-----------------------------------------------------------------------------
LEMMA LocksInit ==
    ASSUME LocksAssumption, Locks!Init
    PROVE  LockInv
  BY SMT DEF LocksAssumption, LockInv, LockTypes, Numbered, Owned, Files, LockerStates, OfFile, Locks!Init, Locks!NoFile,
             Locks!Idle, Locks!At, Locks!There

LEMMA LocksAttempt ==
    ASSUME LocksAssumption, LockInv, NEW p \in Procs, Locks!Attempt(p)
    PROVE  LockInv'
<1>1. LockTypes'
  BY SMT DEF LockInv, LockTypes, Files, LockerStates, Locks!Attempt, Locks!NoFile, Locks!At, Locks!To
<1>2. Numbered'
  BY SMT DEF LockInv, LockTypes, Numbered, Files, LockerStates, OfFile, Locks!Attempt, Locks!NoFile,
          Locks!At, Locks!To
<1>3. holes' = {} => Owned'
  BY SMT DEF LocksAssumption, LockInv, LockTypes, Numbered, OfFile, Owned, Owns, Files, LockerStates,
          Locks!Attempt, Locks!There, Locks!Gone, Locks!At, Locks!To, Locks!NoFile
<1> QED
  BY <1>1, <1>2, <1>3 DEF LockInv

LEMMA LocksCreate ==
    ASSUME LocksAssumption, LockInv, NEW p \in Procs, Locks!Create(p)
    PROVE  LockInv'
<1>1. LockTypes'
  BY SMT DEF LockInv, LockTypes, Files, LockerStates, Locks!Create, Locks!NoFile, Locks!At, Locks!There,
          Locks!Young
<1>2. Numbered'
  BY SMT DEF LockInv, LockTypes, Numbered, Files, LockerStates, OfFile, Locks!Create, Locks!NoFile,
          Locks!At, Locks!There, Locks!Young
<1>3. holes' = {} => Owned'
  BY SMT DEF LocksAssumption, LockInv, LockTypes, Numbered, OfFile, Owned, Owns, Files, LockerStates,
          Locks!Create, Locks!There, Locks!Gone, Locks!At, Locks!Young, Locks!NoFile
<1> QED
  BY <1>1, <1>2, <1>3 DEF LockInv

LEMMA LocksExists ==
    ASSUME LocksAssumption, LockInv, NEW p \in Procs, Locks!Exists(p)
    PROVE  LockInv'
<1>1. LockTypes'
  BY SMT DEF LockInv, LockTypes, Files, LockerStates, Locks!Exists, Locks!NoFile, Locks!At, Locks!There,
          Locks!To
<1>2. Numbered'
  BY SMT DEF LockInv, LockTypes, Numbered, Files, LockerStates, OfFile, Locks!Exists, Locks!NoFile,
          Locks!At, Locks!There, Locks!To
<1>3. holes' = {} => Owned'
  BY SMT DEF LocksAssumption, LockInv, LockTypes, Numbered, OfFile, Owned, Owns, Files, LockerStates,
          Locks!Exists, Locks!There, Locks!Gone, Locks!At, Locks!To, Locks!NoFile
<1> QED
  BY <1>1, <1>2, <1>3 DEF LockInv

LEMMA LocksWrite ==
    ASSUME LocksAssumption, LockInv, NEW p \in Procs, Locks!Write(p)
    PROVE  LockInv'
<1>1. LockTypes'
  <2>1. lock \in Files => [lock EXCEPT !.written = TRUE] \in Files
    BY DEF Files
  <2>2. locker[p].id \in Nat \ {0}
    BY SMT DEF LockInv, LockTypes, LockerStates, Locks!Write, Locks!At
  <2>3. lock' \in Files \cup {Locks!NoFile}
    BY <2>1, SMT DEF LockInv, LockTypes, Locks!Write, Locks!There
  <2> QED
    BY <2>2, <2>3, SMT DEF LockInv, LockTypes, LockerStates, Locks!Write
<1>2. Numbered'
  BY SMT DEF LockInv, LockTypes, Numbered, Files, LockerStates, OfFile, Locks!Write, Locks!NoFile,
          Locks!At, Locks!There
<1>3. holes' = {} => Owned'
  BY SMT DEF LocksAssumption, LockInv, LockTypes, Numbered, OfFile, Owned, Owns, Files, LockerStates,
          Locks!Write, Locks!There, Locks!Gone, Locks!At, Locks!NoFile
<1> QED
  BY <1>1, <1>2, <1>3 DEF LockInv

LEMMA LocksRead ==
    ASSUME LocksAssumption, LockInv, NEW p \in Procs, Locks!Read(p)
    PROVE  LockInv'
<1>1. LockTypes'
  BY SMT DEF LockInv, LockTypes, Files, LockerStates, Locks!Read, Locks!NoFile, Locks!At, Locks!OwnerGone,
          Locks!Judges, Locks!To, Locks!There, Locks!Gone
<1>2. Numbered'
  BY SMT DEF LockInv, LockTypes, Numbered, Files, LockerStates, OfFile, Locks!Read, Locks!NoFile, Locks!At,
          Locks!OwnerGone, Locks!Judges, Locks!To, Locks!There, Locks!Gone
<1>3. holes' = {} => Owned'
  BY SMT DEF LocksAssumption, LockInv, LockTypes, Numbered, OfFile, Owned, Owns, Files, LockerStates,
          Locks!Read, Locks!There, Locks!Gone, Locks!At, Locks!OwnerGone, Locks!Judges, Locks!To,
          Locks!NoFile
<1> QED
  BY <1>1, <1>2, <1>3 DEF LockInv

LEMMA LocksAge ==
    ASSUME LocksAssumption, LockInv, NEW p \in Procs, Locks!Age(p)
    PROVE  LockInv'
<1>1. LockTypes'
  BY SMT DEF LockInv, LockTypes, Files, LockerStates, Locks!Age, Locks!NoFile, Locks!At, Locks!There,
          Locks!Stale, Locks!Judges, Locks!To
<1>2. Numbered'
  BY SMT DEF LockInv, LockTypes, Numbered, Files, LockerStates, OfFile, Locks!Age, Locks!NoFile, Locks!At,
          Locks!There, Locks!Stale, Locks!Judges, Locks!To
<1>3. holes' = {} => Owned'
  BY SMT DEF LocksAssumption, LockInv, LockTypes, Numbered, OfFile, Owned, Owns, Files, LockerStates,
          Locks!Age, Locks!There, Locks!Gone, Locks!At, Locks!Stale, Locks!Judges, Locks!To,
          Locks!NoFile
<1> QED
  BY <1>1, <1>2, <1>3 DEF LockInv

LEMMA LocksStat ==
    ASSUME LocksAssumption, LockInv, NEW p \in Procs, Locks!Stat(p)
    PROVE  LockInv'
<1>1. LockTypes'
  BY SMT DEF LockInv, LockTypes, Files, LockerStates, Locks!Stat, Locks!NoFile, Locks!At, Locks!There,
          Locks!Stale, Locks!To
<1>2. Numbered'
  BY SMT DEF LockInv, LockTypes, Numbered, Files, LockerStates, OfFile, Locks!Stat, Locks!NoFile, Locks!At,
          Locks!There, Locks!Stale, Locks!To
<1>3. holes' = {} => Owned'
  BY SMT DEF LocksAssumption, LockInv, LockTypes, Numbered, OfFile, Owned, Owns, Files, LockerStates,
          Locks!Stat, Locks!There, Locks!Gone, Locks!At, Locks!Stale, Locks!To, Locks!NoFile
<1> QED
  BY <1>1, <1>2, <1>3 DEF LockInv

LEMMA LocksInfo ==
    ASSUME LocksAssumption, LockInv, NEW p \in Procs, Locks!Info(p)
    PROVE  LockInv'
<1>1. LockTypes'
  BY SMT DEF LockInv, LockTypes, Files, LockerStates, Locks!Info, Locks!NoFile, Locks!At, Locks!OwnerGone,
          Locks!Judges, Locks!TwiceStale, Locks!To, Locks!There, Locks!Gone
<1>2. Numbered'
  BY SMT DEF LockInv, LockTypes, Numbered, Files, LockerStates, OfFile, Locks!Info, Locks!NoFile, Locks!At,
          Locks!OwnerGone, Locks!Judges, Locks!TwiceStale, Locks!To, Locks!There, Locks!Gone
<1>3. holes' = {} => Owned'
  BY SMT DEF LocksAssumption, LockInv, LockTypes, Numbered, OfFile, Owned, Owns, Files, LockerStates,
          Locks!Info, Locks!There, Locks!Gone, Locks!At, Locks!OwnerGone, Locks!Judges,
          Locks!TwiceStale, Locks!To, Locks!NoFile
<1> QED
  BY <1>1, <1>2, <1>3 DEF LockInv

LEMMA LocksUnlink ==
    ASSUME LocksAssumption, LockInv, NEW p \in Procs, Locks!Unlink(p)
    PROVE  LockInv'
<1>1. LockTypes'
  BY SMT DEF LockInv, LockTypes, Files, LockerStates, Locks!Unlink, Locks!NoFile, Locks!At, Locks!Removed,
          Locks!To, Locks!Waits, Locks!There
<1>2. Numbered'
  BY SMT DEF LockInv, LockTypes, Numbered, Files, LockerStates, OfFile, Locks!Unlink, Locks!NoFile,
          Locks!At, Locks!Removed, Locks!To, Locks!Waits, Locks!There
<1>3. ASSUME holes' = {}
      PROVE  Owned'
  <2>1. holes = {} /\ (Locks!There => lock.id = locker[p].id)
    BY <1>3 DEF Locks!Unlink, Locks!Removed
  <2>2. Locks!There => lock.by = Locks!Gone
    BY <2>1 DEF LockInv, Owned, Locks!Unlink
  <2>3. \A q \in Procs : Locks!At(q) \notin {"write", "held"}
    BY <2>1, <2>2 DEF LocksAssumption, LockInv, Owned, Owns
  <2>4. ~Locks!There' /\ \A q \in Procs : Locks!At(q)' \notin {"write", "held"}
    BY <2>3 DEF LockInv, LockTypes, Locks!Unlink, Locks!Removed, Locks!There, Locks!To, Locks!Waits, Locks!At
  <2> QED
    BY <2>4 DEF Owned
<1> QED
  BY <1>1, <1>2, <1>3 DEF LockInv

LEMMA LocksWait ==
    ASSUME LocksAssumption, LockInv, NEW p \in Procs, Locks!Wait(p)
    PROVE  LockInv'
<1>1. LockTypes'
  BY SMT DEF LockInv, LockTypes, Files, LockerStates, Locks!Wait, Locks!NoFile, Locks!At, Locks!To
<1>2. Numbered'
  BY SMT DEF LockInv, LockTypes, Numbered, Files, LockerStates, OfFile, Locks!Wait, Locks!NoFile, Locks!At,
          Locks!To
<1>3. holes' = {} => Owned'
  BY SMT DEF LocksAssumption, LockInv, LockTypes, Numbered, OfFile, Owned, Owns, Files, LockerStates,
          Locks!Wait, Locks!There, Locks!Gone, Locks!At, Locks!To, Locks!NoFile
<1> QED
  BY <1>1, <1>2, <1>3 DEF LockInv

LEMMA LocksGiveUp ==
    ASSUME LocksAssumption, LockInv, NEW p \in Procs, Locks!GiveUp(p)
    PROVE  LockInv'
<1>1. LockTypes'
  BY SMT DEF LockInv, LockTypes, Files, LockerStates, Locks!GiveUp, Locks!NoFile, Locks!At, Locks!To
<1>2. Numbered'
  BY SMT DEF LockInv, LockTypes, Numbered, Files, LockerStates, OfFile, Locks!GiveUp, Locks!NoFile,
          Locks!At, Locks!To
<1>3. holes' = {} => Owned'
  BY SMT DEF LocksAssumption, LockInv, LockTypes, Numbered, OfFile, Owned, Owns, Files, LockerStates,
          Locks!GiveUp, Locks!There, Locks!Gone, Locks!At, Locks!To, Locks!NoFile
<1> QED
  BY <1>1, <1>2, <1>3 DEF LockInv

LEMMA LocksReenter ==
    ASSUME LocksAssumption, LockInv, NEW p \in Procs, Locks!Reenter(p)
    PROVE  LockInv'
<1>1. LockTypes'
  BY SMT DEF LockInv, LockTypes, Files, LockerStates, Locks!Reenter, Locks!NoFile, Locks!At, Locks!There
<1>2. Numbered'
  BY SMT DEF LockInv, LockTypes, Numbered, Files, LockerStates, OfFile, Locks!Reenter, Locks!NoFile,
          Locks!At, Locks!There
<1>3. holes' = {} => Owned'
  BY SMT DEF LocksAssumption, LockInv, LockTypes, Numbered, OfFile, Owned, Owns, Files, LockerStates,
          Locks!Reenter, Locks!There, Locks!Gone, Locks!At, Locks!NoFile
<1> QED
  BY <1>1, <1>2, <1>3 DEF LockInv

LEMMA LocksRelease ==
    ASSUME LocksAssumption, LockInv, NEW p \in Procs, Locks!Release(p)
    PROVE  LockInv'
<1>1. LockTypes'
  BY SMT DEF LockInv, LockTypes, Files, LockerStates, Locks!Release, Locks!NoFile, Locks!At, Locks!To,
          Locks!Removed, Locks!There
<1>2. Numbered'
  BY SMT DEF LockInv, LockTypes, Numbered, Files, LockerStates, OfFile, Locks!Release, Locks!NoFile,
          Locks!At, Locks!To, Locks!Removed, Locks!There
<1>3. holes' = {} => Owned'
  BY SMT DEF LocksAssumption, LockInv, LockTypes, Numbered, OfFile, Owned, Owns, Files, LockerStates,
          Locks!Release, Locks!There, Locks!Gone, Locks!At, Locks!To, Locks!Removed, Locks!NoFile
<1> QED
  BY <1>1, <1>2, <1>3 DEF LockInv

LEMMA LocksEnds ==
    ASSUME LocksAssumption, LockInv, NEW p \in Procs, Locks!Ends(p)
    PROVE  LockInv'
<1>1. LockTypes'
  BY SMT DEF LockInv, LockTypes, Files, LockerStates, Locks!Ends, Locks!NoFile, Locks!Idle, Locks!There,
          Locks!Gone, Locks!At, Locks!Removed
<1>2. Numbered'
  BY SMT DEF LockInv, LockTypes, Numbered, Files, LockerStates, OfFile, Locks!Ends, Locks!NoFile,
          Locks!Idle, Locks!There, Locks!Gone, Locks!At, Locks!Removed
<1>3. holes' = {} => Owned'
  BY SMT DEF LocksAssumption, LockInv, LockTypes, Numbered, OfFile, Owned, Owns, Files, LockerStates,
          Locks!Ends, Locks!There, Locks!Gone, Locks!Idle, Locks!At, Locks!Removed, Locks!NoFile
<1> QED
  BY <1>1, <1>2, <1>3 DEF LockInv

LEMMA LocksAges ==
    ASSUME LockInv, Locks!Ages
    PROVE  LockInv'
<1>1. lock \in Files /\ lock.age \in {0, 1}
  BY SMT DEF LockInv, LockTypes, Files, Locks!Ages, Locks!There, Locks!TwiceStale
<1>2. lock' = [lock EXCEPT !.age = @ + 1] /\ lock' \in Files
  BY <1>1, SMT DEF Files, Locks!Ages
<1>3. lock'.id = lock.id /\ lock'.by = lock.by /\ lock'.written = lock.written
  BY <1>1, <1>2, SMT DEF Files
<1> QED
  BY <1>1, <1>2, <1>3, SMT
  DEF LockInv, LockTypes, Numbered, Owned, Owns, Files, Locks!Ages, Locks!At, Locks!There, Locks!NoFile

\* Without the exceptions there is one holder: two would own the same file.
LEMMA LocksExclude ==
    ASSUME LocksAssumption, LockInv
    PROVE  Locks!HoldersLock
  BY SMT DEF LockInv, Owned, Owns, Locks!Holders, Locks!HoldersLock

LEMMA LocksStep ==
    ASSUME LocksAssumption, LockInv, [Locks!Next]_(Locks!vars)
    PROVE  LockInv'
<1>1. CASE UNCHANGED Locks!vars
  BY <1>1 DEF Locks!vars, LockInv, LockTypes, Numbered, Owned, Owns, Locks!At, Locks!There
<1>2. CASE Locks!Ages
  BY <1>2, LocksAges
<1>3. ASSUME NEW p \in Procs,
             \/ Locks!Attempt(p) \/ Locks!Create(p) \/ Locks!Exists(p) \/ Locks!Write(p) \/ Locks!Read(p)
             \/ Locks!Age(p) \/ Locks!Stat(p) \/ Locks!Info(p) \/ Locks!Unlink(p) \/ Locks!Wait(p)
             \/ Locks!GiveUp(p) \/ Locks!Reenter(p) \/ Locks!Release(p) \/ Locks!Ends(p)
      PROVE  LockInv'
  BY <1>3, LocksAttempt, LocksCreate, LocksExists, LocksWrite, LocksRead, LocksAge, LocksStat, LocksInfo,
     LocksUnlink, LocksWait, LocksGiveUp, LocksReenter, LocksRelease, LocksEnds
<1> QED
  BY <1>1, <1>2, <1>3 DEF Locks!Next

\* For any processes and any number of files and re-entries: a lock has two holders
\* only after it was taken for being too old or after two removed the lock of a process
\* that had ended.  (write-lock.ts: acquireWriteLock; gateway-lock.ts: acquireGatewayLock)
THEOREM LockExclusive == LocksAssumption => (Locks!Spec => []Locks!HoldersLock)
<1> SUFFICES ASSUME LocksAssumption
             PROVE  Locks!Spec => []Locks!HoldersLock
  OBVIOUS
<1>1. Locks!Init => LockInv
  BY LocksInit
<1>2. LockInv /\ [Locks!Next]_(Locks!vars) => LockInv'
  BY LocksStep
<1>3. LockInv => Locks!HoldersLock
  BY LocksExclude
<1> QED
  BY <1>1, <1>2, <1>3, PTL DEF Locks!Spec

-----------------------------------------------------------------------------
(* Health checks.                                                          *)

CONSTANTS Probes, Ttl
VARIABLES database, embedding, cached, probe, unseen
Ready == INSTANCE Readiness

ReadyAssumption == Ttl \in Nat \ {0}

ReadyTypes == /\ embedding \in BOOLEAN /\ unseen \in Nat
              /\ cached \in [status : {"none", "healthy", "degraded"}, age : Nat]
              /\ probe \in [Probes -> {"none", "healthy", "unhealthy", "ok", "degraded", "error"}]

\* While the service answers it is seen, and a good result that is kept is no younger
\* than what it was seen by.
Seen == /\ embedding => unseen = 0
        /\ cached.status = "healthy" => unseen <= cached.age

ReadyInv == ReadyTypes /\ Seen /\ Ready!ReadyFresh

\* What a probe may find: "ok" from a result that is young and good, or from its own.
LEMMA ReadyProbe ==
    ASSUME ReadyAssumption, ReadyInv, NEW p \in Probes, Ready!Probe(p)
    PROVE  ReadyInv'
<1> DEFINE answer == IF Ready!Usable THEN Ready!Status(Ready!DatabaseStatus, cached.status) ELSE Ready!DatabaseStatus
<1>1. /\ answer \in {"healthy", "unhealthy", "ok", "degraded", "error"}
      /\ answer = "ok" => Ready!Usable /\ cached.status = "healthy"
  BY DEF ReadyInv, ReadyTypes, Ready!Usable, Ready!Status, Ready!DatabaseStatus
<1>2. answer = "ok" => unseen < Ttl
  BY <1>1 DEF ReadyAssumption, ReadyInv, ReadyTypes, Seen, Ready!Usable
<1>3. probe' = [probe EXCEPT ![p] = answer] /\ UNCHANGED <<embedding, cached, unseen>>
  BY DEF Ready!Probe
<1> HIDE DEF answer
<1> QED
  BY <1>1, <1>2, <1>3 DEF ReadyInv, ReadyTypes, Seen, Ready!ReadyFresh

LEMMA ReadyChecked ==
    ASSUME ReadyAssumption, ReadyInv, NEW p \in Probes, Ready!Checked(p)
    PROVE  ReadyInv'
<1> DEFINE answer == Ready!Status(probe[p], Ready!Remembered.status)
<1>1. /\ Ready!Remembered \in [status : {"healthy", "degraded"}, age : {0}]
      /\ Ready!Remembered.status = "healthy" => embedding
  BY DEF Ready!Remembered
<1>2. answer \in {"ok", "degraded", "error"} /\ (answer = "ok" => embedding)
  BY <1>1 DEF Ready!Checked, Ready!Status, Ready!Remembered
<1>3. probe' = [probe EXCEPT ![p] = answer] /\ cached' = Ready!Remembered /\ UNCHANGED <<embedding, unseen>>
  BY DEF Ready!Checked
<1> HIDE DEF answer
<1> QED
  BY <1>1, <1>2, <1>3 DEF ReadyAssumption, ReadyInv, ReadyTypes, Seen, Ready!ReadyFresh

LEMMA ReadyTick ==
    ASSUME ReadyAssumption, ReadyInv, Ready!Tick
    PROVE  ReadyInv'
<1>1. cached'.status = cached.status /\ cached' \in [status : {"none", "healthy", "degraded"}, age : Nat]
      /\ (cached.status # "none" => cached'.age = Ready!AtMost(cached.age, Ttl))
  BY DEF ReadyAssumption, ReadyInv, ReadyTypes, Ready!Tick, Ready!AtMost
<1>2. /\ \A p \in Probes : probe[p] # "ok"
      /\ unseen' = IF embedding THEN 0 ELSE Ready!AtMost(unseen, Ttl)
      /\ UNCHANGED <<embedding, probe>>
  BY DEF Ready!Tick
<1> QED
  BY <1>1, <1>2 DEF ReadyAssumption, ReadyInv, ReadyTypes, Seen, Ready!AtMost, Ready!ReadyFresh

LEMMA ReadyStep ==
    ASSUME ReadyAssumption, ReadyInv, [Ready!Next]_(Ready!vars)
    PROVE  ReadyInv'
<1>1. CASE UNCHANGED Ready!vars
  BY <1>1 DEF Ready!vars, ReadyInv, ReadyTypes, Seen, Ready!ReadyFresh
<1>2. CASE Ready!Flip
  <2>1. CASE embedding' = embedding /\ unseen' = unseen /\ UNCHANGED <<cached, probe>>
    BY <2>1 DEF ReadyInv, ReadyTypes, Seen, Ready!ReadyFresh
  <2>2. CASE embedding' = ~embedding /\ unseen' = 0 /\ UNCHANGED <<cached, probe>>
    <3>1. embedding' \in BOOLEAN /\ 0 \in Nat /\ 0 < Ttl
      BY <2>2 DEF ReadyAssumption
    <3>2. cached.status = "healthy" => 0 <= cached.age
      BY DEF ReadyInv, ReadyTypes
    <3> QED
      BY <2>2, <3>1, <3>2 DEF ReadyInv, ReadyTypes, Seen, Ready!ReadyFresh
  <2> QED
    BY <1>2, <2>1, <2>2 DEF Ready!Flip
<1>3. ASSUME NEW p \in Probes, Ready!Answered(p)
      PROVE  ReadyInv'
  BY <1>3 DEF ReadyInv, ReadyTypes, Seen, Ready!Answered, Ready!ReadyFresh
<1> QED
  BY <1>1, <1>2, <1>3, ReadyProbe, ReadyChecked, ReadyTick DEF Ready!Next

\* For any number of requests and any lifetime of a result: nobody is told "ok" unless
\* the embedding service answered within that lifetime, also when checks overlap and one
\* uses what another left.  (health.ts: createProviderHealthChecker)
THEOREM ReadyIsFresh == ReadyAssumption => (Ready!Spec => []Ready!ReadyFresh)
<1> SUFFICES ASSUME ReadyAssumption
             PROVE  Ready!Spec => []Ready!ReadyFresh
  OBVIOUS
<1>1. Ready!Init => ReadyInv
  BY DEF ReadyAssumption, Ready!Init, ReadyInv, ReadyTypes, Seen, Ready!ReadyFresh
<1>2. ReadyInv /\ [Ready!Next]_(Ready!vars) => ReadyInv'
  BY ReadyStep
<1>3. ReadyInv => Ready!ReadyFresh
  BY DEF ReadyInv
<1> QED
  BY <1>1, <1>2, <1>3, PTL DEF Ready!Spec

-----------------------------------------------------------------------------
(* The watcher of the prompt file.                                         *)

CONSTANTS Texts, Invalid, MaxWrites
VARIABLES file, event, timer, reads, watching, lastHash, told, stirred, writes
Reload == INSTANCE HotReload

Readable == Texts \cup {"none", "?"}

ReloadTypes == /\ file \in Texts \cup {"none"} /\ lastHash \in Texts \cup {"none"}
               /\ told \in Texts \cup {"none", "error"} /\ told \notin Invalid
               /\ event \in {"none", "change", "other"}
               /\ reads \in Seq(Readable)

\* What listeners heard of last is what is kept, unless it was an error.
Heard == told \in Texts => told = lastHash

\* Nothing is on its way from the watcher to a reading.
Calm == event = "none" /\ ~timer

\* Without overlapping readings or replaced files, and as long as it is watched: one
\* reading is under way at most; when nothing is to come, what it has read is the file,
\* and without one the file is the text that is kept, or cannot be.
Followed ==
    ~stirred =>
      /\ event # "other" /\ Len(reads) <= 1
      /\ file = "none" => Calm /\ reads = <<>> /\ lastHash = file
      /\ watching /\ Calm => /\ reads = <<>> => lastHash = file \/ file \in Invalid
                             /\ reads # <<>> => reads[1] \in {"?", file}

ReloadInv == ReloadTypes /\ Heard /\ Followed

LEMMA ReloadInit ==
    ASSUME Reload!HotReloadAssumption, Reload!Init
    PROVE  ReloadInv
  BY DEF Reload!HotReloadAssumption, Reload!Init, Reload!None, ReloadInv, ReloadTypes, Heard, Followed, Calm, Readable

LEMMA ReloadSave ==
    ASSUME Reload!HotReloadAssumption, ReloadInv, NEW text \in Texts \cup {"none"}, Reload!Save(text)
    PROVE  ReloadInv'
<1>1. ReloadTypes' /\ Heard'
  BY DEF ReloadInv, ReloadTypes, Heard, Reload!Save, Reload!None
<1>2. CASE event' = "other"
  <2>1. stirred'
    BY <1>2 DEF Reload!Save
  <2> QED
    BY <1>1, <2>1 DEF ReloadInv, Followed
<1>3. CASE event' = "change"
  <2>1. file' # "none" /\ reads' = reads /\ ~Calm'
    BY <1>3 DEF Reload!Save, Reload!None, Calm
  <2>2. ~stirred' => ~stirred
    BY <1>3 DEF Reload!Save
  <2> QED
    BY <1>1, <1>3, <2>1, <2>2 DEF ReloadInv, Followed
<1> QED
  BY <1>2, <1>3 DEF Reload!Save, Reload!None

LEMMA ReloadReport ==
    ASSUME Reload!HotReloadAssumption, ReloadInv, Reload!Report
    PROVE  ReloadInv'
<1>1. ReloadTypes' /\ Heard'
  BY DEF ReloadInv, ReloadTypes, Heard, Reload!Report, Reload!None, Reload!HandleChange, Reload!ghosts
<1>2. Followed'
  BY DEF ReloadInv, ReloadTypes, Followed, Calm, Reload!Report, Reload!None, Reload!HandleChange, Reload!ghosts
<1> QED
  BY <1>1, <1>2 DEF ReloadInv

LEMMA ReloadFires ==
    ASSUME Reload!HotReloadAssumption, ReloadInv, Reload!Fires
    PROVE  ReloadInv'
<1>1. ReloadTypes' /\ Heard'
  BY DEF ReloadInv, ReloadTypes, Heard, Readable, Reload!Fires
<1>2. CASE reads = <<>>
  <2>1. reads' = <<"?">>
    BY <1>2 DEF Reload!Fires
  <2>2. Len(reads') <= 1 /\ reads' # <<>> /\ reads'[1] = "?"
    BY <2>1
  <2>3. file' = file /\ event' = event /\ (~stirred' => ~stirred) /\ ~Calm
    BY DEF Reload!Fires, Calm
  <2> QED
    BY <1>1, <2>2, <2>3 DEF ReloadInv, Followed
<1>3. CASE reads # <<>>
  BY <1>1, <1>3 DEF ReloadInv, Followed, Reload!Fires
<1> QED
  BY <1>2, <1>3

LEMMA ReloadReads ==
    ASSUME Reload!HotReloadAssumption, ReloadInv, NEW i \in 1..MaxWrites, Reload!Reads(i)
    PROVE  ReloadInv'
<1>1. ReloadTypes' /\ Heard'
  BY DEF ReloadInv, ReloadTypes, Heard, Readable, Reload!Reads, Reload!ghosts
<1>2. Followed'
  BY DEF ReloadInv, ReloadTypes, Followed, Calm, Reload!Reads, Reload!ghosts
<1> QED
  BY <1>1, <1>2 DEF ReloadInv

\* What is told is valid and is kept.
LEMMA ReloadApplies ==
    ASSUME Reload!HotReloadAssumption, ReloadTypes, Heard, NEW text \in Texts \cup {"none"}, Reload!Apply(text)
    PROVE  /\ lastHash' \in Texts \cup {"none"}
           /\ told' \in Texts \cup {"none", "error"} /\ told' \notin Invalid
           /\ Heard'
           /\ text \in Texts => lastHash' = text \/ text \in Invalid
  BY DEF Reload!HotReloadAssumption, ReloadTypes, Heard, Reload!Apply, Reload!None

LEMMA ReloadContinues ==
    ASSUME Reload!HotReloadAssumption, ReloadInv, NEW i \in 1..MaxWrites, Reload!Continues(i)
    PROVE  ReloadInv'
<1>1. /\ i \in DOMAIN reads /\ reads[i] \in Texts \cup {"none"} /\ Reload!Apply(reads[i])
      /\ reads' = SubSeq(reads, 1, i - 1) \o SubSeq(reads, i + 1, Len(reads))
      /\ UNCHANGED <<file, event, timer, watching, stirred>>
  BY DEF ReloadInv, ReloadTypes, Readable, Reload!Continues, Reload!Without, Reload!ghosts
<1>2. reads' \in Seq(Readable) /\ Len(reads') = Len(reads) - 1
  <2> DEFINE before == SubSeq(reads, 1, i - 1)
             after == SubSeq(reads, i + 1, Len(reads))
  <2>1. reads \in Seq(Readable) /\ i \in 1..Len(reads) /\ Len(reads) \in Nat
    BY <1>1 DEF ReloadInv, ReloadTypes
  <2>2. before \in Seq(Readable) /\ Len(before) = i - 1
    BY <2>1
  <2>3. after \in Seq(Readable) /\ Len(after) = Len(reads) - i
    BY <2>1
  <2>4. reads' = before \o after
    BY <1>1
  <2>5. before \o after \in Seq(Readable) /\ Len(before \o after) = Len(before) + Len(after)
    BY <2>2, <2>3, ConcatProperties
  <2> HIDE DEF before, after
  <2>6. Len(before) + Len(after) = Len(reads) - 1
    BY <2>1, <2>2, <2>3, SMT
  <2> QED
    BY <2>4, <2>5, <2>6
<1>3. ReloadTypes' /\ Heard' /\ (reads[i] \in Texts => lastHash' = reads[i] \/ reads[i] \in Invalid)
  BY <1>1, <1>2, ReloadApplies DEF ReloadInv, ReloadTypes
<1>4. Followed'
  <2> SUFFICES ASSUME ~stirred
               PROVE  Followed'
    BY <1>1 DEF Followed
  <2>1. Len(reads) = 1 /\ i = 1
    <3> DEFINE n == Len(reads)
    <3>1. i \in 1..n /\ n \in Nat
      BY <1>1 DEF ReloadInv, ReloadTypes
    <3>2. n <= 1
      BY DEF ReloadInv, Followed
    <3> HIDE DEF n
    <3>3. n = 1 /\ i = 1
      BY <3>1, <3>2, SMT
    <3> QED
      BY <3>3 DEF n
  <2>2. reads' = <<>> /\ Len(reads') = 0
    BY <1>2, <2>1
  <2>3. file # "none" /\ event # "other" /\ reads # <<>>
    BY <2>1 DEF ReloadInv, Followed
  <2>4. CASE ~(watching /\ Calm)
    <3>1. ~(watching' /\ Calm')
      BY <1>1, <2>4 DEF Calm
    <3>2. file' # "none" /\ event' # "other"
      BY <1>1, <2>3
    <3>3. Len(reads') <= 1
      BY <2>2
    <3> QED
      BY <3>1, <3>2, <3>3 DEF Followed
  <2>5. CASE watching /\ Calm
    <3>1. reads[1] = file /\ file \in Texts
      BY <1>1, <2>1, <2>3, <2>5 DEF Reload!HotReloadAssumption, ReloadInv, ReloadTypes, Followed
    <3> QED
      BY <1>1, <1>3, <2>1, <2>2, <2>3, <3>1 DEF Followed, Calm
  <2> QED
    BY <2>4, <2>5
<1> QED
  BY <1>3, <1>4 DEF ReloadInv

LEMMA ReloadStep ==
    ASSUME Reload!HotReloadAssumption, ReloadInv, [Reload!Next]_(Reload!vars)
    PROVE  ReloadInv'
<1>1. CASE UNCHANGED Reload!vars
  BY <1>1 DEF Reload!vars, Reload!ghosts, ReloadInv, ReloadTypes, Heard, Followed, Calm
<1>2. CASE Reload!Stop
  BY <1>2 DEF Reload!Stop, Reload!ghosts, ReloadInv, ReloadTypes, Heard, Followed, Calm
<1> QED
  BY <1>1, <1>2, ReloadSave, ReloadReport, ReloadFires, ReloadReads, ReloadContinues DEF Reload!Next, Reload!None

\* For any texts and any number of changes: when nothing is under way, what is kept and
\* told is the file, unless readings overlapped, the file was replaced, or it is not
\* valid, and an invalid text is never told.  (hot-reload.ts: handleChange)
THEOREM ReloadFollowsFile == Reload!HotReloadAssumption => (Reload!Spec => []Reload!ReloadFollows)
<1> SUFFICES ASSUME Reload!HotReloadAssumption
             PROVE  Reload!Spec => []Reload!ReloadFollows
  OBVIOUS
<1>1. Reload!Init => ReloadInv
  BY ReloadInit
<1>2. ReloadInv /\ [Reload!Next]_(Reload!vars) => ReloadInv'
  BY ReloadStep
<1>3. ReloadInv => Reload!ReloadFollows
  BY DEF ReloadInv, ReloadTypes, Heard, Followed, Calm, Reload!ReloadFollows, Reload!Quiet, Reload!None
<1> QED
  BY <1>1, <1>2, <1>3, PTL DEF Reload!Spec

-----------------------------------------------------------------------------
(* The keys of a provider.                                                 *)

CONSTANTS Keys, Users, Threshold, Cooldown
VARIABLES cursor, failures, cooling, held, since
Rotator == INSTANCE KeyRotator WITH Callers <- Users, passed <- since

\* No key is listed twice.
KeysAssumption == Rotator!RotatorAssumption /\ Rotator!IsInjective(Keys)

Places == 1..Len(Keys)

\* How many places place j is after place i, in turn; a place is a whole turn after itself.
After(i, j) == IF j > i THEN j - i ELSE j - i + Len(Keys)

RotatorTypes == Rotator!TypeOK /\ since \in [Rotator!All -> Seq(Rotator!All)]

CoolingCounted == \A k \in Rotator!All : cooling[k] > 0 => failures[k] = Threshold

\* What passed a key lies between it and the cursor.
Between(i, s, c) == \A m \in DOMAIN s : \E j \in Places : s[m] = Keys[j] /\ After(i, j) < After(i, c)
TurnsKept == \A i \in Places : /\ Between(i, since[Keys[i]], cursor)
                               /\ Rotator!IsInjective(since[Keys[i]])

RotatorInv == RotatorTypes /\ CoolingCounted /\ TurnsKept

LEMMA KeyPlaces ==
    ASSUME KeysAssumption
    PROVE  /\ Keys \in Seq(Rotator!All) /\ Len(Keys) \in Nat \ {0}
           /\ Rotator!All = {Keys[i] : i \in Places}
           /\ \A i, j \in Places : Keys[i] = Keys[j] => i = j
           /\ Rotator!NoKey \notin Rotator!All
           /\ Threshold \in Nat \ {0} /\ Cooldown \in Nat \ {0}
<1>1. Keys \in Seq(Rotator!All) /\ Keys # <<>>
  BY DEF KeysAssumption, Rotator!RotatorAssumption
<1>2. Len(Keys) \in Nat \ {0} /\ DOMAIN Keys = Places
  BY <1>1 DEF Places
<1> QED
  BY <1>1, <1>2 DEF KeysAssumption, Rotator!RotatorAssumption, Rotator!All, Rotator!ToSet, Rotator!IsInjective

\* The remainder, within two turns.
LEMMA Wraps ==
    ASSUME NEW n \in Nat \ {0}, NEW x \in 0..(2 * n - 1)
    PROVE  x % n = IF x < n THEN x ELSE x - n
<1> DEFINE q == x \div n
           r == x % n
<1>1. q \in Nat /\ r \in 0..(n - 1) /\ x = n * q + r
  BY SMT
<1>2. CASE x < n
  BY <1>1, <1>2, SMT
<1>3. CASE x >= n
  BY <1>1, <1>3, SMT
<1> QED
  BY <1>1, <1>2, <1>3

LEMMA PlaceOf ==
    ASSUME KeysAssumption, cursor \in Places, NEW a \in 0..(Len(Keys) - 1)
    PROVE  Rotator!Place(a) = IF cursor + a <= Len(Keys) THEN cursor + a ELSE cursor + a - Len(Keys)
<1> DEFINE n == Len(Keys)
           x == cursor + a - 1
<1>1. n \in Nat \ {0} /\ cursor \in 1..n
  BY KeyPlaces DEF Places
<1>2. x \in 0..(2 * n - 1)
  BY <1>1
<1> HIDE DEF x
<1>3. x % n = IF x < n THEN x ELSE x - n
  BY <1>1, <1>2, Wraps
<1> QED
  BY <1>1, <1>3 DEF x, Rotator!Place

\* A search from the cursor finds a key that is not past any other free key: what it
\* gives is further from such a key than all that passed it before.
LEMMA FoundFirst ==
    ASSUME KeysAssumption, cursor \in Places, NEW a \in Rotator!Free, \A b \in Rotator!Free : a <= b,
           NEW i \in Places, cooling[Keys[i]] = 0, i # Rotator!Place(a)
    PROVE  After(i, cursor) <= After(i, Rotator!Place(a))
<1> DEFINE n == Len(Keys)
           b == IF i >= cursor THEN i - cursor ELSE i - cursor + n
<1>1. n \in Nat \ {0} /\ i \in 1..n /\ cursor \in 1..n
  BY KeyPlaces DEF Places
<1>2. b \in 0..(n - 1) /\ Rotator!Place(b) = i
  BY <1>1, PlaceOf
<1>3. a \in 0..(n - 1) /\ a <= b /\ a # b
  BY <1>2 DEF Rotator!Free
<1>4. Rotator!Place(a) = IF cursor + a <= n THEN cursor + a ELSE cursor + a - n
  BY <1>3, PlaceOf
<1> QED
  BY <1>1, <1>3, <1>4 DEF After

\* The cursor moves to the place after the one that was given.
LEMMA CursorMoves ==
    ASSUME KeysAssumption, NEW p \in Places
    PROVE  /\ (p % Len(Keys)) + 1 \in Places
           /\ \A i \in Places \ {p} : After(i, (p % Len(Keys)) + 1) = After(i, p) + 1
<1>1. Len(Keys) \in Nat \ {0} /\ p \in 0..(2 * Len(Keys) - 1)
  BY KeyPlaces DEF Places
<1>2. p % Len(Keys) = IF p < Len(Keys) THEN p ELSE p - Len(Keys)
  BY <1>1, Wraps
<1> QED
  BY <1>1, <1>2 DEF Places, After

LEMMA RotatorInit ==
    ASSUME KeysAssumption, Rotator!Init
    PROVE  RotatorInv
<1>1. /\ cursor \in Places /\ Rotator!TypeOK /\ CoolingCounted
      /\ \A k \in Rotator!All : since[k] = <<>>
  BY KeyPlaces DEF Rotator!Init, Rotator!TypeOK, CoolingCounted, Places
<1>2. since \in [Rotator!All -> Seq(Rotator!All)]
  BY DEF Rotator!Init
<1>3. TurnsKept
  BY <1>1, KeyPlaces DEF TurnsKept, Between, Rotator!IsInjective
<1> QED
  BY <1>1, <1>2, <1>3 DEF RotatorInv, RotatorTypes

\* One more key has passed the one at place i, and lies further than all before it.
LEMMA OneMore ==
    ASSUME KeysAssumption, NEW i \in Places, NEW p \in Places, NEW b \in Places, NEW c \in Places,
           NEW s \in Seq(Rotator!All), Between(i, s, b), Rotator!IsInjective(s),
           After(i, b) <= After(i, p), After(i, c) = After(i, p) + 1,
           NEW t, t = Append(s, Keys[p])
    PROVE  t \in Seq(Rotator!All) /\ Rotator!IsInjective(t) /\ Between(i, t, c)
<1>1. Keys[p] \in Rotator!All
  BY KeyPlaces
<1>2. /\ t \in Seq(Rotator!All) /\ Len(t) = Len(s) + 1 /\ Len(s) \in Nat
      /\ DOMAIN t = 1..(Len(s) + 1) /\ DOMAIN s = 1..Len(s)
      /\ \A m \in 1..Len(s) : t[m] = s[m]
      /\ t[Len(s) + 1] = Keys[p]
  BY <1>1
<1>3. \A j \in Places : After(i, j) \in Nat
  <2> DEFINE n == Len(Keys)
  <2>1. n \in Nat \ {0} /\ i \in 1..n /\ Places = 1..n
    BY KeyPlaces DEF Places
  <2> QED
    BY <2>1 DEF After
<1>4. \A m \in 1..Len(s) : s[m] # Keys[p]
  <2> SUFFICES ASSUME NEW m \in 1..Len(s), s[m] = Keys[p]
               PROVE  FALSE
    OBVIOUS
  <2>1. PICK j \in Places : s[m] = Keys[j] /\ After(i, j) < After(i, b)
    BY <1>2 DEF Between
  <2>2. j = p
    BY <2>1, KeyPlaces
  <2> QED
    BY <1>3, <2>1, <2>2
<1>5. Rotator!IsInjective(t)
  BY <1>2, <1>4 DEF Rotator!IsInjective
<1>6. ASSUME NEW m \in DOMAIN t
      PROVE  \E j \in Places : t[m] = Keys[j] /\ After(i, j) < After(i, c)
  <2>1. CASE m = Len(s) + 1
    BY <1>2, <1>3, <2>1
  <2>2. CASE m \in 1..Len(s)
    <3>1. PICK j \in Places : s[m] = Keys[j] /\ After(i, j) < After(i, b)
      BY <1>2, <2>2 DEF Between
    <3>2. t[m] = Keys[j] /\ After(i, j) < After(i, c)
      BY <1>2, <1>3, <2>2, <3>1
    <3> QED
      BY <3>2
  <2> QED
    BY <1>2, <1>6, <2>1, <2>2
<1> QED
  BY <1>2, <1>5, <1>6 DEF Between

LEMMA RotatorNext ==
    ASSUME KeysAssumption, RotatorInv, NEW c \in Users, Rotator!NextKey(c)
    PROVE  RotatorInv'
<1>1. PICK a \in Rotator!Free :
        /\ \A b \in Rotator!Free : a <= b
        /\ cursor' = (Rotator!Place(a) % Len(Keys)) + 1
        /\ held' = [held EXCEPT ![c] = Keys[Rotator!Place(a)]]
        /\ since' = Rotator!Waiting(Keys[Rotator!Place(a)], cooling)
  BY DEF Rotator!NextKey
<1> DEFINE p == Rotator!Place(a)
<1>2. cursor \in Places /\ Len(Keys) \in Nat \ {0} /\ a \in 0..(Len(Keys) - 1)
  BY KeyPlaces DEF RotatorInv, RotatorTypes, Rotator!TypeOK, Places, Rotator!Free
<1>3. p \in Places
  BY <1>2, PlaceOf DEF Places
<1> HIDE DEF p
<1>4. cursor' \in Places /\ Keys[p] \in Rotator!All /\ UNCHANGED <<failures, cooling>>
  BY <1>1, <1>3, CursorMoves, KeyPlaces DEF p, Rotator!NextKey
<1>5. Rotator!TypeOK'
  BY <1>1, <1>4 DEF p, RotatorInv, RotatorTypes, Rotator!TypeOK, Places
<1>6. ASSUME NEW i \in Places
      PROVE  /\ since'[Keys[i]] \in Seq(Rotator!All)
             /\ Between(i, since'[Keys[i]], cursor') /\ Rotator!IsInjective(since'[Keys[i]])
  <2>1. Keys[i] \in Rotator!All /\ since[Keys[i]] \in Seq(Rotator!All) /\ (Keys[i] = Keys[p] => i = p)
    BY <1>3, KeyPlaces DEF RotatorInv, RotatorTypes
  <2>2. CASE i = p \/ cooling[Keys[i]] > 0
    <3>1. since'[Keys[i]] = <<>>
      BY <1>1, <2>1, <2>2 DEF p, Rotator!Waiting
    <3> QED
      BY <3>1 DEF Between, Rotator!IsInjective
  <2>3. CASE i # p /\ ~(cooling[Keys[i]] > 0)
    <3>1. since'[Keys[i]] = Append(since[Keys[i]], Keys[p])
      BY <1>1, <1>4, <2>1, <2>3, KeyPlaces DEF p, Rotator!Waiting
    <3>2. cooling[Keys[i]] = 0
      <4>1. cooling[Keys[i]] \in 0..Cooldown
        BY <2>1 DEF RotatorInv, RotatorTypes, Rotator!TypeOK
      <4>2. Cooldown \in Nat
        BY KeyPlaces
      <4> QED
        BY <2>3, <4>1, <4>2
    <3>3. After(i, cursor) <= After(i, p) /\ After(i, cursor') = After(i, p) + 1
      BY <1>1, <1>2, <1>3, <2>3, <3>2, FoundFirst, CursorMoves DEF p
    <3>4. Between(i, since[Keys[i]], cursor) /\ Rotator!IsInjective(since[Keys[i]])
      BY DEF RotatorInv, TurnsKept
    <3> QED
      BY <1>2, <1>3, <1>4, <2>1, <3>1, <3>3, <3>4, OneMore
  <2> QED
    BY <2>2, <2>3
<1>7. since' \in [Rotator!All -> Seq(Rotator!All)]
  BY <1>1, <1>6, KeyPlaces DEF Rotator!Waiting
<1>8. TurnsKept'
  BY <1>6 DEF TurnsKept
<1>9. CoolingCounted'
  BY <1>4 DEF RotatorInv, CoolingCounted
<1> QED
  BY <1>5, <1>7, <1>8, <1>9 DEF RotatorInv, RotatorTypes

LEMMA RotatorSuccess ==
    ASSUME KeysAssumption, RotatorInv, NEW c \in Users, Rotator!MarkSuccess(c)
    PROVE  RotatorInv'
<1>1. held[c] \in Rotator!All /\ 0 \in 0..Threshold /\ 0 \in 0..Cooldown
  BY KeyPlaces DEF RotatorInv, RotatorTypes, Rotator!TypeOK, Rotator!MarkSuccess
<1>2. RotatorTypes' /\ CoolingCounted'
  BY <1>1 DEF RotatorInv, RotatorTypes, CoolingCounted, Rotator!TypeOK, Rotator!MarkSuccess
<1>3. TurnsKept'
  BY DEF RotatorInv, TurnsKept, Rotator!MarkSuccess
<1> QED
  BY <1>2, <1>3 DEF RotatorInv

LEMMA RotatorFailure ==
    ASSUME KeysAssumption, RotatorInv, NEW c \in Users, Rotator!MarkFailure(c)
    PROVE  RotatorInv'
<1> DEFINE k == held[c]
<1>1. k \in Rotator!All /\ failures[k] \in 0..Threshold /\ cooling[k] \in 0..Cooldown
  BY DEF RotatorInv, RotatorTypes, Rotator!TypeOK, Rotator!MarkFailure
<1>2. /\ failures' = [failures EXCEPT ![k] = IF failures[k] < Threshold THEN failures[k] + 1 ELSE failures[k]]
      /\ cooling' = [cooling EXCEPT ![k] = IF failures'[k] = Threshold THEN Cooldown ELSE cooling[k]]
      /\ held' = [held EXCEPT ![c] = Rotator!NoKey]
      /\ since' = Rotator!Waiting(Rotator!NoKey, cooling')
      /\ cursor' = cursor
  BY DEF Rotator!MarkFailure
<1> HIDE DEF k
<1>3. Threshold \in Nat \ {0} /\ Cooldown \in Nat \ {0} /\ Rotator!NoKey \notin Rotator!All
  BY KeyPlaces
<1>4. /\ failures' \in [Rotator!All -> 0..Threshold] /\ cooling' \in [Rotator!All -> 0..Cooldown]
      /\ \A x \in Rotator!All \ {k} : failures'[x] = failures[x] /\ cooling'[x] = cooling[x]
  BY <1>1, <1>2, <1>3 DEF RotatorInv, RotatorTypes, Rotator!TypeOK
<1>5. cooling'[k] > 0 => failures'[k] = Threshold
  BY <1>1, <1>2, <1>3 DEF RotatorInv, RotatorTypes, CoolingCounted, Rotator!TypeOK
<1>6. CoolingCounted'
  BY <1>4, <1>5 DEF RotatorInv, CoolingCounted
<1>7. \A x \in Rotator!All : since'[x] \in {<<>>, since[x]}
  BY <1>2, <1>3 DEF Rotator!Waiting
<1>8. since' \in [Rotator!All -> Seq(Rotator!All)]
  BY <1>2, <1>7 DEF RotatorInv, RotatorTypes, Rotator!Waiting
<1>9. ASSUME NEW i \in Places
      PROVE  Between(i, since'[Keys[i]], cursor') /\ Rotator!IsInjective(since'[Keys[i]])
  <2>1. since'[Keys[i]] \in {<<>>, since[Keys[i]]}
    BY <1>7, KeyPlaces
  <2>2. CASE since'[Keys[i]] = <<>>
    BY <2>2 DEF Between, Rotator!IsInjective
  <2>3. CASE since'[Keys[i]] = since[Keys[i]]
    BY <1>2, <2>3 DEF RotatorInv, TurnsKept
  <2> QED
    BY <2>1, <2>2, <2>3
<1>10. Rotator!TypeOK'
  BY <1>2, <1>4 DEF RotatorInv, RotatorTypes, Rotator!TypeOK
<1>11. TurnsKept'
  BY <1>9 DEF TurnsKept
<1> QED
  BY <1>6, <1>8, <1>10, <1>11 DEF RotatorInv, RotatorTypes

LEMMA RotatorTick ==
    ASSUME KeysAssumption, RotatorInv, Rotator!Tick
    PROVE  RotatorInv'
<1>1. \A k \in Rotator!All : cooling[k] \in 0..Cooldown /\ Cooldown \in Nat
  BY KeyPlaces DEF RotatorInv, RotatorTypes, Rotator!TypeOK
<1>2. RotatorTypes' /\ CoolingCounted'
  BY <1>1 DEF RotatorInv, RotatorTypes, CoolingCounted, Rotator!TypeOK, Rotator!Tick
<1>3. TurnsKept'
  BY DEF RotatorInv, TurnsKept, Rotator!Tick
<1> QED
  BY <1>2, <1>3 DEF RotatorInv

LEMMA RotatorStep ==
    ASSUME KeysAssumption, RotatorInv, [Rotator!Next]_(Rotator!vars)
    PROVE  RotatorInv'
<1>1. CASE UNCHANGED Rotator!vars
  BY <1>1 DEF Rotator!vars, RotatorInv, RotatorTypes, Rotator!TypeOK, CoolingCounted, TurnsKept
<1> QED
  BY <1>1, RotatorNext, RotatorSuccess, RotatorFailure, RotatorTick DEF Rotator!Next

\* For any keys, each listed once, any callers, threshold and cool-down: as long as a
\* key could be given and is not, no other is given twice, whatever keys begin and end
\* a cool-down meanwhile, and only failures begin one.  (key-rotator.ts: next, markFailure)
THEOREM KeysTakeTheirTurns == KeysAssumption => (Rotator!Spec => []Rotator!KeysTakeTurns)
<1> SUFFICES ASSUME KeysAssumption
             PROVE  Rotator!Spec => []Rotator!KeysTakeTurns
  OBVIOUS
<1>1. Rotator!Init => RotatorInv
  BY RotatorInit
<1>2. RotatorInv /\ [Rotator!Next]_(Rotator!vars) => RotatorInv'
  BY RotatorStep
<1>3. RotatorInv => Rotator!KeysTakeTurns
  <2>1. ASSUME RotatorInv, NEW k \in Rotator!All
        PROVE  Rotator!IsInjective(since[k])
    <3>1. PICK i \in Places : k = Keys[i]
      BY KeyPlaces
    <3> QED
      BY <2>1, <3>1 DEF RotatorInv, TurnsKept
  <2> QED
    BY <2>1 DEF RotatorInv, RotatorTypes, CoolingCounted, Rotator!KeysTakeTurns
<1> QED
  BY <1>1, <1>2, <1>3, PTL DEF Rotator!Spec

-----------------------------------------------------------------------------
(* Plugins.                                                                *)

\* How often something occurs in a list, and what becomes of that when something
\* is added.
Occurs(s, x) == Cardinality({i \in DOMAIN s : s[i] = x})

LEMMA PlacesFinite ==
    ASSUME NEW k \in Nat
    PROVE  IsFiniteSet(1..k)
<1>1. 1 \in Int /\ k \in Int
  OBVIOUS
<1> QED
  BY <1>1, FS_Interval, Zenon

LEMMA OneOccurs ==
    ASSUME NEW S, NEW s \in Seq(S), NEW e \in S, NEW x
    PROVE  /\ Occurs(s, x) \in Nat
           /\ Occurs(Append(s, e), x) = IF e = x THEN Occurs(s, x) + 1 ELSE Occurs(s, x)
<1> DEFINE t == Append(s, e)
           A == {i \in DOMAIN s : s[i] = x}
           B == {i \in DOMAIN t : t[i] = x}
           n == Len(s) + 1
<1>1. /\ Len(s) \in Nat /\ DOMAIN s = 1..Len(s) /\ DOMAIN t = 1..(Len(s) + 1)
      /\ t[Len(s) + 1] = e /\ \A i \in 1..Len(s) : t[i] = s[i]
  OBVIOUS
<1>2. IsFiniteSet(1..Len(s)) /\ A \in SUBSET (1..Len(s))
  <2>1. IsFiniteSet(1..Len(s))
    BY <1>1, PlacesFinite
  <2> QED
    BY <1>1, <2>1
<1>3. IsFiniteSet(A) /\ Cardinality(A) \in Nat /\ n \notin A
  BY <1>1, <1>2, FS_Subset, FS_CardinalityType
<1>4. B = IF e = x THEN A \cup {n} ELSE A
  BY <1>1
<1>5. Cardinality(A \cup {n}) = Cardinality(A) + 1
  <2> HIDE DEF A, n
  <2> QED
    BY <1>3, FS_AddElement
<1> QED
  BY <1>3, <1>4, <1>5 DEF Occurs

LEMMA OneMember ==
    ASSUME NEW S, NEW s \in Seq(S), NEW e \in S
    PROVE  /\ Append(s, e) \in Seq(S) /\ Len(Append(s, e)) = Len(s) + 1 /\ Len(s) \in Nat
           /\ ToSet(Append(s, e)) = ToSet(s) \cup {e}
<1> DEFINE t == Append(s, e)
           n == Len(s) + 1
<1>1. /\ t \in Seq(S) /\ Len(t) = n
      /\ Len(s) \in Nat /\ DOMAIN s = 1..Len(s) /\ DOMAIN t = 1..n
      /\ t[n] = e /\ \A i \in 1..Len(s) : t[i] = s[i]
  OBVIOUS
<1>2. ToSet(t) = {t[i] : i \in 1..n} /\ ToSet(s) = {s[i] : i \in 1..Len(s)}
  BY <1>1 DEF ToSet
<1>3. /\ \A i \in 1..n : i \in 1..Len(s) \/ i = n
      /\ \A i \in 1..Len(s) : i \in 1..n
      /\ n \in 1..n
  BY <1>1
<1> HIDE DEF t, n
<1>4. ToSet(t) = ToSet(s) \cup {e}
  <2>1. \A x \in ToSet(t) : x \in ToSet(s) \/ x = e
    BY <1>1, <1>2, <1>3
  <2>2. \A x \in ToSet(s) : x \in ToSet(t)
    BY <1>1, <1>2, <1>3
  <2>3. e \in ToSet(t)
    BY <1>1, <1>2, <1>3
  <2> QED
    BY <2>1, <2>2, <2>3
<1> QED
  BY <1>1, <1>4 DEF t, n

\* A set of numbers that has a member has a least one.
LEMMA LeastMember ==
    ASSUME NEW S, S \subseteq Nat, S # {}
    PROVE  \E x \in S : \A y \in S : x =< y
<1>1. PICK x \in S : \A y \in S : ~ (<<y, x>> \in OpToRel(<, Nat))
  BY NatLessThanWellFounded, WFMin
<1>2. \A y \in S : x =< y
  <2> SUFFICES ASSUME NEW y \in S PROVE x =< y
    OBVIOUS
  <2>1. x \in Nat /\ y \in Nat
    OBVIOUS
  <2>2. ~ (y < x)
    BY <1>1, <2>1 DEF OpToRel
  <2> QED
    BY <2>1, <2>2
<1> QED
  BY <1>2

-----------------------------------------------------------------------------
Entry == [name : PluginNames, status : {"active", "error"}]

PlugTypes ==
    /\ found \in Installs
    /\ at \in [dir : 1..(Len(found) + 1), server : Nat,
               step : {"read", "load", "connect", "list", "finish", "closing"}]
    /\ at.step \in {"connect", "list"} /\ at.dir <= Len(found) => at.server \in DOMAIN Dir.servers
    /\ slots \in [commands : Seq(PluginNames), plugins : Seq(Entry)]
    /\ errors \in Seq(PluginNames) /\ handles \in Seq(Nat \X Nat)
    /\ result \in [loaded : Seq(PluginNames), failed : Seq(PluginNames)]

\* What runs is kept, or a diagnostic tells of it, or its tools are listed now.
RunsOwned ==
    \A s \in running : \/ s \in ToSet(handles) \/ found[s[1]].name \in ToSet(errors)
                       \/ at.step = "list" /\ at.dir <= Len(found) /\ s = Here
Closing ==
    at.step = "closing" => /\ at.dir > Len(found) /\ at.server <= Len(handles)
                           /\ \A i \in 1..at.server : handles[i] \notin running

OutcomesCounted ==
    /\ Len(result.loaded) + Len(result.failed) = at.dir - 1
    /\ \A n \in PluginNames :
         /\ Occurs(result.loaded, n) = Occurs(slots.plugins, [name |-> n, status |-> "active"])
         /\ Occurs(result.failed, n) <= Occurs(errors, n)

PlugInv == PlugTypes /\ OutcomesCounted /\ ToolsOwned /\ RunsOwned /\ Closing

LEMMA OutcomesIs == OutcomesAgree <=> OutcomesCounted
  BY DEF OutcomesAgree, OutcomesCounted, HowOften, Occurs

LEMMA PlugSafe ==
    ASSUME PlugInv
    PROVE  PluginsAccounted
<1>1. OutcomesAgree /\ ToolsOwned
  BY OutcomesIs DEF PlugInv
<1>2. ServersClosed
  <2> SUFFICES ASSUME Loaded, at.step = "closing", at.server = Len(handles), NEW s \in running
               PROVE  s \notin ToSet(handles) /\ found[s[1]].name \in ToSet(errors)
    BY DEF ServersClosed
  <2>1. DOMAIN handles = 1..Len(handles)
    BY DEF PlugInv, PlugTypes
  <2>2. s \notin ToSet(handles)
    BY <2>1 DEF PlugInv, Closing, ToSet
  <2> QED
    BY <2>2 DEF PlugInv, RunsOwned
<1> QED
  BY <1>1, <1>2 DEF PluginsAccounted

LEMMA PlugInit ==
    ASSUME PluginsInit
    PROVE  PlugInv
<1>1. found \in Installs /\ Len(found) \in Nat
  BY PluginsAssumption DEF PluginsInit, IsList
<1>2. /\ at = Start /\ slots = [commands |-> <<>>, plugins |-> <<>>] /\ errors = <<>>
      /\ result = [loaded |-> <<>>, failed |-> <<>>] /\ tools = <<>> /\ running = {} /\ handles = <<>>
  BY DEF PluginsInit
<1>3. PlugTypes
  BY <1>1, <1>2 DEF PlugTypes, Start
<1>4. OutcomesCounted
  <2>1. \A x : Occurs(<<>>, x) = 0
    BY FS_EmptySet DEF Occurs
  <2> QED
    BY <1>2, <2>1 DEF OutcomesCounted, Start
<1>5. ToolsOwned /\ RunsOwned /\ Closing
  BY <1>2 DEF ToolsOwned, RunsOwned, Closing, Start
<1> QED
  BY <1>3, <1>4, <1>5 DEF PlugInv

\* What the directory in hand is.
LEMMA InHand ==
    ASSUME PlugInv, at.dir <= Len(found)
    PROVE  /\ Len(found) \in Nat /\ at.dir \in DOMAIN found /\ at.dir \in Nat /\ Dir.name \in PluginNames
           /\ Len(Dir.servers) \in Nat /\ DOMAIN Dir.servers = 1..Len(Dir.servers)
           /\ \A k \in DOMAIN Dir.servers : IsList(Dir.servers[k].tools)
<1>1. found \in Installs /\ at.dir \in 1..(Len(found) + 1)
  BY DEF PlugInv, PlugTypes
<1>2. IsList(found)
  BY <1>1, PluginsAssumption
<1>3. at.dir \in DOMAIN found
  BY <1>1, <1>2 DEF IsList
<1> QED
  BY <1>1, <1>2, <1>3, PluginsAssumption DEF IsList, Dir, PluginNames

\* Diagnostics take nothing from what is kept.
LEMMA MoreErrors ==
    ASSUME ToolsOwned, UNCHANGED <<found, tools, handles>>, ToSet(errors) \subseteq ToSet(errors')
    PROVE  ToolsOwned'
<1>1. \A s : Names(s)' = Names(s)
  BY DEF Names, ServerOf
<1> QED
  BY <1>1 DEF ToolsOwned

LEMMA DirMoves ==
    ASSUME PlugInv, at.dir <= Len(found), at' = NextDir, UNCHANGED found
    PROVE  /\ at' \in [dir : 1..(Len(found) + 1), server : Nat,
                       step : {"read", "load", "connect", "list", "finish", "closing"}]
           /\ at'.step = "read" /\ at'.dir = at.dir + 1
  BY InHand DEF NextDir, PlugInv, PlugTypes

\* A directory fails: what it registered stays, whatever that is.
DirectoryFails(commands, plugins) ==
    /\ plugins = slots.plugins \/ plugins = Append(slots.plugins, [name |-> Dir.name, status |-> "error"])
    /\ slots' = [commands |-> commands, plugins |-> plugins]
    /\ errors' = Diagnosed /\ result' = [result EXCEPT !.failed = Append(@, Dir.name)]
    /\ at' = NextDir /\ UNCHANGED <<found, tools, running, handles>>

LEMMA DirFails ==
    ASSUME PlugInv, at.dir <= Len(found), at.step \in {"read", "load"},
           NEW commands \in Seq(PluginNames), NEW plugins, DirectoryFails(commands, plugins)
    PROVE  PlugInv'
<1>0. found' = found /\ tools' = tools /\ running' = running /\ handles' = handles /\ at' = NextDir
  BY DEF DirectoryFails
<1> DEFINE name == Dir.name
           entry == [name |-> name, status |-> "error"]
<1>1. PlugTypes /\ OutcomesCounted /\ ToolsOwned /\ RunsOwned
  BY DEF PlugInv
<1>2. name \in PluginNames /\ Len(found) \in Nat /\ PluginNames' = PluginNames
  BY <1>0, InHand DEF PluginNames
<1>3. entry \in Entry /\ \A n : entry # [name |-> n, status |-> "active"]
  BY <1>2 DEF Entry
<1>4. /\ errors \in Seq(PluginNames) /\ result.failed \in Seq(PluginNames) /\ slots.plugins \in Seq(Entry)
      /\ result.loaded \in Seq(PluginNames) /\ errors' = Append(errors, name)
      /\ result' = [loaded |-> result.loaded, failed |-> Append(result.failed, name)]
  BY <1>1 DEF PlugTypes, Diagnosed, DirectoryFails
<1>5. /\ result'.failed = Append(result.failed, name) /\ result'.loaded = result.loaded
      /\ slots'.plugins = plugins /\ slots'.commands = commands
      /\ plugins = slots.plugins \/ plugins = Append(slots.plugins, entry)
  BY <1>4 DEF DirectoryFails
<1> HIDE DEF name, entry
<1>6. \A x : /\ Occurs(errors, x) \in Nat
             /\ Occurs(errors', x) = IF name = x THEN Occurs(errors, x) + 1 ELSE Occurs(errors, x)
  BY <1>2, <1>4, OneOccurs
<1>7. \A x : /\ Occurs(result.failed, x) \in Nat
             /\ Occurs(result'.failed, x) = IF name = x THEN Occurs(result.failed, x) + 1
                                                        ELSE Occurs(result.failed, x)
  BY <1>2, <1>4, <1>5, OneOccurs
<1>8. \A x : x # entry => Occurs(slots'.plugins, x) = Occurs(slots.plugins, x)
  <2>1. CASE plugins = Append(slots.plugins, entry)
    BY <1>3, <1>4, <1>5, <2>1, OneOccurs
  <2> QED
    BY <1>5, <2>1
<1>9. errors' \in Seq(PluginNames) /\ ToSet(errors') = ToSet(errors) \cup {name}
  <2>1. /\ Append(errors, name) \in Seq(PluginNames)
        /\ ToSet(Append(errors, name)) = ToSet(errors) \cup {name}
    BY <1>2, <1>4, OneMember
  <2>2. errors' = Append(errors, name)
    BY <1>4
  <2> QED
    BY <2>1, <2>2, Zenon
<1>10. /\ result'.failed \in Seq(PluginNames) /\ Len(result'.failed) = Len(result.failed) + 1
       /\ Len(result.failed) \in Nat /\ Len(result.loaded) \in Nat
  BY <1>2, <1>4, <1>5, OneMember
<1>11. plugins \in Seq(Entry)
  <2>1. Append(slots.plugins, entry) \in Seq(Entry) /\ slots.plugins \in Seq(Entry)
    BY <1>3, <1>4, OneMember
  <2> QED
    BY <1>5, <2>1, Zenon
<1>12. at'.step = "read" /\ at'.dir = at.dir + 1 /\ at.dir \in Nat
  BY <1>0, DirMoves, InHand
<1>13. OutcomesCounted'
  <2>1. Len(result'.loaded) + Len(result'.failed) = at'.dir - 1
    <3> DEFINE a == Len(result.loaded)
               b == Len(result.failed)
    <3>1. a + b = at.dir - 1 /\ Len(result'.loaded) = a
      BY <1>1, <1>5 DEF OutcomesCounted
    <3>2. a \in Nat /\ b \in Nat /\ Len(result'.failed) = b + 1
      BY <1>10
    <3> HIDE DEF a, b
    <3> QED
      BY <1>12, <3>1, <3>2
  <2>2. ASSUME NEW n \in PluginNames
        PROVE  /\ Occurs(result'.loaded, n) = Occurs(slots'.plugins, [name |-> n, status |-> "active"])
               /\ Occurs(result'.failed, n) <= Occurs(errors', n)
    <3>1. Occurs(slots'.plugins, [name |-> n, status |-> "active"])
            = Occurs(slots.plugins, [name |-> n, status |-> "active"])
      BY <1>3, <1>8
    <3>2. /\ Occurs(result.loaded, n) = Occurs(slots.plugins, [name |-> n, status |-> "active"])
          /\ Occurs(result.failed, n) <= Occurs(errors, n)
      BY <1>1 DEF OutcomesCounted
    <3>3. Occurs(result'.failed, n) <= Occurs(errors', n)
      BY <1>6, <1>7, <3>2
    <3> QED
      BY <1>5, <3>1, <3>2, <3>3
  <2> QED
    BY <1>2, <2>1, <2>2 DEF OutcomesCounted
<1>14. PlugTypes'
  <2>1. Entry' = Entry /\ found' = found /\ handles' = handles
    BY <1>0, <1>2 DEF Entry
  <2>2. result' \in [loaded : Seq(PluginNames), failed : Seq(PluginNames)]
    BY <1>4, <1>10
  <2>3. slots' \in [commands : Seq(PluginNames), plugins : Seq(Entry)]
    BY <1>11 DEF DirectoryFails
  <2> QED
    BY <1>1, <1>2, <1>9, <1>12, <2>1, <2>2, <2>3, <1>0, DirMoves DEF PlugTypes
<1>15. ToolsOwned' /\ RunsOwned' /\ Closing'
  <2>1. ToolsOwned'
    BY <1>0, <1>1, <1>9, MoreErrors
  <2>2. RunsOwned' /\ Closing'
    BY <1>0, <1>1, <1>9, <1>12 DEF RunsOwned, Closing
  <2> QED
    BY <2>1, <2>2
<1> QED
  BY <1>13, <1>14, <1>15 DEF PlugInv

\* What the steps leave alone.
LEMMA PlugFailAs ==
    ASSUME PlugInv, at.dir <= Len(found), at.step \in {"read", "load"}, NEW phase,
           FailAs(phase), UNCHANGED <<found, tools, running, handles>>
    PROVE  PlugInv'
<1>1. slots \in [commands : Seq(PluginNames), plugins : Seq(Entry)]
  BY DEF PlugInv, PlugTypes
<1>2. \/ slots' = [commands |-> slots.commands, plugins |-> slots.plugins]
      \/ slots' = [commands |-> slots.commands,
                   plugins |-> Append(slots.plugins, [name |-> Dir.name, status |-> "error"])]
  BY <1>1 DEF FailAs
<1>3. /\ errors' = Diagnosed /\ result' = [result EXCEPT !.failed = Append(@, Dir.name)] /\ at' = NextDir
      /\ slots.commands \in Seq(PluginNames)
  BY <1>1 DEF FailAs
<1> QED
  <2>1. \/ DirectoryFails(slots.commands, slots.plugins)
        \/ DirectoryFails(slots.commands, Append(slots.plugins, [name |-> Dir.name, status |-> "error"]))
    BY <1>2, <1>3 DEF DirectoryFails
  <2> QED
    BY <1>3, <2>1, DirFails

LEMMA PlugRead ==
    ASSUME PlugInv, Read
    PROVE  PlugInv'
<1>1. CASE FailAs(Dir.broken)
  BY <1>1, PlugFailAs DEF Read, At
<1>2. CASE at' = [at EXCEPT !.step = "load"] /\ UNCHANGED <<errors, result, slots>>
  <2>1. at.step = "read" /\ at'.step = "load" /\ at'.dir = at.dir /\ UNCHANGED <<found, tools, running, handles>>
    BY <1>2 DEF Read, At, PlugInv, PlugTypes
  <2>2. PlugTypes'
    <3>1. /\ Entry' = Entry /\ PluginNames' = PluginNames /\ UNCHANGED <<slots, errors, handles, result>>
          /\ at' \in [dir : 1..(Len(found) + 1), server : Nat,
                     step : {"read", "load", "connect", "list", "finish", "closing"}]
      BY <1>2, <2>1 DEF PlugInv, PlugTypes, Entry, PluginNames
    <3> QED
      BY <2>1, <3>1 DEF PlugInv, PlugTypes
  <2>3. OutcomesCounted'
    BY <1>2, <2>1 DEF PlugInv, OutcomesCounted, PluginNames
  <2>4. ToolsOwned'
    BY <1>2, <2>1, MoreErrors DEF PlugInv
  <2>5. RunsOwned' /\ Closing'
    BY <1>2, <2>1 DEF PlugInv, RunsOwned, Closing
  <2> QED
    BY <2>2, <2>3, <2>4, <2>5 DEF PlugInv
<1> QED
  BY <1>1, <1>2 DEF Read

\* A diagnostic is added, or not.
LEMMA Diagnoses ==
    ASSUME PlugInv, at.dir <= Len(found), errors' = errors \/ errors' = Diagnosed
    PROVE  /\ errors' \in Seq(PluginNames) /\ ToSet(errors) \subseteq ToSet(errors')
           /\ errors' = Diagnosed => Dir.name \in ToSet(errors')
           /\ \A n : Occurs(errors, n) \in Nat /\ Occurs(errors', n) \in Nat
                     /\ Occurs(errors, n) <= Occurs(errors', n)
<1> DEFINE name == Dir.name
<1>1. errors \in Seq(PluginNames) /\ name \in PluginNames
  BY InHand DEF PlugInv, PlugTypes
<1>2. errors' = errors \/ errors' = Append(errors, name)
  BY DEF Diagnosed
<1> HIDE DEF name
<1>3. /\ Append(errors, name) \in Seq(PluginNames)
      /\ ToSet(Append(errors, name)) = ToSet(errors) \cup {name}
  BY <1>1, OneMember
<1>4. \A n : /\ Occurs(errors, n) \in Nat
             /\ Occurs(Append(errors, name), n) = IF name = n THEN Occurs(errors, n) + 1 ELSE Occurs(errors, n)
  BY <1>1, OneOccurs
<1>5. \A n : /\ Occurs(Append(errors, name), n) \in Nat
             /\ Occurs(errors, n) <= Occurs(Append(errors, name), n)
  BY <1>4
<1>6. \A n : Occurs(errors, n) <= Occurs(errors, n)
  BY <1>4
<1>7. errors' \in Seq(PluginNames) /\ ToSet(errors) \subseteq ToSet(errors')
  BY <1>1, <1>2, <1>3, Zenon
<1>8. errors' = Diagnosed => Dir.name \in ToSet(errors')
  <2>1. Diagnosed = Append(errors, name)
    BY DEF Diagnosed, name
  <2>2. name \in ToSet(Append(errors, name))
    BY <1>3
  <2> QED
    BY <2>1, <2>2, Zenon DEF name
<1>9. \A n : /\ Occurs(errors', n) \in Nat /\ Occurs(errors, n) <= Occurs(errors', n)
  BY <1>2, <1>4, <1>5, <1>6, Zenon
<1> QED
  BY <1>4, <1>7, <1>8, <1>9, Zenon

\* The outcomes of the directories stay while one is in hand.
LEMMA OutcomesStay ==
    ASSUME PlugInv, at.dir <= Len(found), errors' = errors \/ errors' = Diagnosed,
           UNCHANGED <<found, result>>, slots'.plugins = slots.plugins, at'.dir = at.dir
    PROVE  OutcomesCounted'
<1>1. PluginNames' = PluginNames /\ OutcomesCounted /\ result' = result
  BY DEF PluginNames, PlugInv
<1>2. \A n : /\ Occurs(errors, n) \in Nat /\ Occurs(errors', n) \in Nat
             /\ Occurs(errors, n) <= Occurs(errors', n)
  BY Diagnoses
<1>3. result.failed \in Seq(PluginNames)
  BY DEF PlugInv, PlugTypes
<1>4. \A n : Occurs(result.failed, n) \in Nat
  <2>1. \A n : IsFiniteSet({i \in DOMAIN result.failed : result.failed[i] = n})
    <3>1. DOMAIN result.failed = 1..Len(result.failed) /\ Len(result.failed) \in Nat
      BY <1>3
    <3>2. IsFiniteSet(1..Len(result.failed))
      BY <3>1, PlacesFinite
    <3>3. \A n : {i \in DOMAIN result.failed : result.failed[i] = n} \in SUBSET (1..Len(result.failed))
      BY <3>1
    <3> QED
      BY <3>2, <3>3, FS_Subset
  <2> QED
    BY <2>1, FS_CardinalityType DEF Occurs
<1>5. \A n \in PluginNames : Occurs(result.failed, n) <= Occurs(errors, n)
  BY <1>1 DEF OutcomesCounted
<1>6. \A n \in PluginNames : Occurs(result.failed, n) <= Occurs(errors', n)
  BY <1>2, <1>4, <1>5
<1>7. Len(result'.loaded) + Len(result'.failed) = at'.dir - 1
  BY <1>1 DEF OutcomesCounted
<1>8. \A n \in PluginNames : Occurs(result'.loaded, n) = Occurs(slots'.plugins, [name |-> n, status |-> "active"])
  BY <1>1 DEF OutcomesCounted
<1> QED
  BY <1>1, <1>6, <1>7, <1>8 DEF OutcomesCounted

\* The next server of the directory, or its end.
LEMMA ServerMoves ==
    ASSUME PlugInv, at.dir <= Len(found), at' = NextServer, UNCHANGED found
    PROVE  /\ at' \in [dir : 1..(Len(found) + 1), server : Nat,
                       step : {"read", "load", "connect", "list", "finish", "closing"}]
           /\ at'.dir = at.dir /\ at'.step \in {"connect", "finish"}
           /\ at'.step = "connect" => at'.server \in DOMAIN Dir'.servers
<1>1. /\ at \in [dir : 1..(Len(found) + 1), server : Nat,
                 step : {"read", "load", "connect", "list", "finish", "closing"}]
      /\ Len(Dir.servers) \in Nat /\ DOMAIN Dir.servers = 1..Len(Dir.servers)
  BY InHand DEF PlugInv, PlugTypes
<1>2. at'.dir = at.dir /\ at'.server = at.server + 1 /\ Dir' = Dir
  BY <1>1 DEF NextServer, Dir
<1>3. at'.step = IF at.server < Len(Dir.servers) THEN "connect" ELSE "finish"
  BY <1>1 DEF NextServer
<1> DEFINE n == Len(Dir.servers)
<1>4. at.server < n => at.server + 1 \in 1..n
  <2> HIDE DEF n
  <2>1. at.server \in Nat /\ n \in Nat
    BY <1>1 DEF n
  <2> QED
    BY <2>1
<1>5. at'.step = "connect" => at'.server \in DOMAIN Dir'.servers
  BY <1>1, <1>2, <1>3, <1>4
<1>6. at' \in [dir : 1..(Len(found) + 1), server : Nat,
               step : {"read", "load", "connect", "list", "finish", "closing"}]
  <2>1. \E step \in {"connect", "finish"} :
           at' = [at EXCEPT !.server = at.server + 1, !.step = step]
    BY DEF NextServer
  <2>2. at.server + 1 \in Nat /\ at.dir \in 1..(Len(found) + 1)
    BY <1>1
  <2>3. \E step \in {"connect", "finish"} :
           at' = [dir |-> at.dir, server |-> at.server + 1, step |-> step]
    BY <1>1, <2>1
  <2> QED
    BY <2>2, <2>3
<1> QED
  BY <1>2, <1>3, <1>5, <1>6

LEMMA PlugLoad ==
    ASSUME PlugInv, Load
    PROVE  PlugInv'
<1>0. /\ at.dir <= Len(found) /\ at.step = "load" /\ UNCHANGED <<found, tools, running, handles>>
      /\ slots \in [commands : Seq(PluginNames), plugins : Seq(Entry)]
      /\ slots.commands \in Seq(PluginNames) /\ slots.plugins \in Seq(Entry)
  BY DEF Load, At, PlugInv, PlugTypes
<1>1. Registered \in Seq(PluginNames)
  BY <1>0, InHand, OneMember DEF Registered
<1>2. CASE FailAs("load")
  BY <1>0, <1>2, PlugFailAs
<1>3. CASE /\ slots' = [commands |-> Registered,
                        plugins |-> Append(slots.plugins, [name |-> Dir.name, status |-> "error"])]
           /\ errors' = Diagnosed
           /\ result' = [result EXCEPT !.failed = Append(@, Dir.name)]
           /\ at' = NextDir
  <2>1. DirectoryFails(Registered, Append(slots.plugins, [name |-> Dir.name, status |-> "error"]))
    BY <1>0, <1>3 DEF DirectoryFails
  <2> QED
    BY <1>0, <1>1, <2>1, DirFails
<1>4. CASE slots' = [slots EXCEPT !.commands = Registered] /\ at' = NextServer /\ UNCHANGED <<errors, result>>
  <2>1. /\ at'.dir = at.dir /\ at'.step \in {"connect", "finish"}
        /\ at'.step = "connect" => at'.server \in DOMAIN Dir'.servers
        /\ at' \in [dir : 1..(Len(found) + 1), server : Nat,
                    step : {"read", "load", "connect", "list", "finish", "closing"}]
    BY <1>0, <1>4, ServerMoves
  <2>2. slots' \in [commands : Seq(PluginNames), plugins : Seq(Entry)] /\ slots'.plugins = slots.plugins
    BY <1>0, <1>1, <1>4
  <2>3. Entry' = Entry /\ PluginNames' = PluginNames
    BY <1>0 DEF Entry, PluginNames
  <2>4. PlugTypes'
    BY <1>0, <1>4, <2>1, <2>2, <2>3 DEF PlugInv, PlugTypes
  <2>5. OutcomesCounted'
    BY <1>0, <1>4, <2>1, <2>2, OutcomesStay
  <2>6. ToolsOwned'
    BY <1>0, <1>4, MoreErrors DEF PlugInv
  <2>7. RunsOwned' /\ Closing'
    BY <1>0, <1>4, <2>1 DEF PlugInv, RunsOwned, Closing
  <2> QED
    BY <2>4, <2>5, <2>6, <2>7 DEF PlugInv
<1> QED
  BY <1>2, <1>3, <1>4 DEF Load

LEMMA ServerStep ==
    ASSUME PlugInv, at.dir <= Len(found), ServerFailed, UNCHANGED <<found, slots, result, handles>>
    PROVE  PlugTypes' /\ OutcomesCounted' /\ Closing'
<1>1. /\ errors' = Diagnosed /\ at' = NextServer
  BY DEF ServerFailed
<1>2. /\ at'.dir = at.dir /\ at'.step \in {"connect", "finish"}
      /\ at'.step = "connect" => at'.server \in DOMAIN Dir'.servers
      /\ at' \in [dir : 1..(Len(found) + 1), server : Nat,
                  step : {"read", "load", "connect", "list", "finish", "closing"}]
  BY <1>1, ServerMoves
<1>3. errors' \in Seq(PluginNames) /\ Entry' = Entry /\ PluginNames' = PluginNames
  BY <1>1, Diagnoses DEF Entry, PluginNames
<1>4. PlugTypes'
  BY <1>2, <1>3 DEF PlugInv, PlugTypes
<1>5. OutcomesCounted'
  BY <1>1, <1>2, OutcomesStay
<1> QED
  BY <1>2, <1>4, <1>5 DEF Closing

LEMMA PlugConnect ==
    ASSUME PlugInv, Connect
    PROVE  PlugInv'
<1>1. /\ at.dir <= Len(found) /\ at.step = "connect" /\ UNCHANGED <<found, slots, result, tools, handles>>
  BY DEF Connect, At
<1>2. CASE ServerFailed /\ UNCHANGED running
  <2>1. at' = NextServer /\ errors' = Diagnosed
    BY <1>2 DEF ServerFailed
  <2>2. PlugTypes' /\ OutcomesCounted' /\ Closing'
    BY <1>1, <1>2, ServerStep
  <2>3. ToSet(errors) \subseteq ToSet(errors')
    BY <1>1, <2>1, Diagnoses
  <2>4. ToolsOwned'
    BY <1>1, <2>3, MoreErrors DEF PlugInv
  <2>5. RunsOwned'
    BY <1>1, <1>2, <2>3 DEF PlugInv, RunsOwned
  <2> QED
    BY <2>2, <2>4, <2>5 DEF PlugInv
<1>3. CASE running' = running \cup {Here} /\ at' = [at EXCEPT !.step = "list"] /\ UNCHANGED errors
  <2>1. /\ at'.dir = at.dir /\ at'.server = at.server /\ at'.step = "list" /\ Dir' = Dir /\ Here' = Here
        /\ at' \in [dir : 1..(Len(found) + 1), server : Nat,
                    step : {"read", "load", "connect", "list", "finish", "closing"}]
    BY <1>1, <1>3 DEF PlugInv, PlugTypes, Dir, Here
  <2>2. Entry' = Entry /\ PluginNames' = PluginNames
    BY <1>1 DEF Entry, PluginNames
  <2>3. PlugTypes'
    BY <1>1, <1>3, <2>1, <2>2 DEF PlugInv, PlugTypes
  <2>4. OutcomesCounted'
    BY <1>1, <1>3, <2>1, OutcomesStay
  <2>5. ToolsOwned'
    BY <1>1, <1>3, MoreErrors DEF PlugInv
  <2>6. RunsOwned' /\ Closing'
    BY <1>1, <1>3, <2>1 DEF PlugInv, RunsOwned, Closing
  <2> QED
    BY <2>3, <2>4, <2>5, <2>6 DEF PlugInv
<1> QED
  BY <1>2, <1>3 DEF Connect

LEMMA PlugFinish ==
    ASSUME PlugInv, EndDirectory
    PROVE  PlugInv'
<1> DEFINE name == Dir.name
           entry == [name |-> name, status |-> "active"]
<1>0. /\ at.dir <= Len(found) /\ at.step = "finish" /\ at' = NextDir
      /\ UNCHANGED <<found, errors, tools, running, handles>>
  BY DEF EndDirectory, At
<1>1. PlugTypes /\ OutcomesCounted /\ ToolsOwned /\ RunsOwned
  BY DEF PlugInv
<1>2. name \in PluginNames /\ Len(found) \in Nat /\ PluginNames' = PluginNames
  BY <1>0, InHand DEF PluginNames
<1>3. entry \in Entry /\ \A n : entry = [name |-> n, status |-> "active"] <=> name = n
  BY <1>2 DEF Entry
<1>4. /\ result.failed \in Seq(PluginNames) /\ slots.plugins \in Seq(Entry) /\ result.loaded \in Seq(PluginNames)
      /\ result' = [loaded |-> Append(result.loaded, name), failed |-> result.failed]
      /\ slots' = [commands |-> slots.commands, plugins |-> Append(slots.plugins, entry)]
      /\ slots.commands \in Seq(PluginNames)
  BY <1>1 DEF PlugTypes, EndDirectory
<1>5. /\ result'.loaded = Append(result.loaded, name) /\ result'.failed = result.failed
      /\ slots'.plugins = Append(slots.plugins, entry)
  BY <1>4
<1> HIDE DEF name, entry
<1>6. \A x : /\ Occurs(result.loaded, x) \in Nat
             /\ Occurs(result'.loaded, x) = IF name = x THEN Occurs(result.loaded, x) + 1
                                                        ELSE Occurs(result.loaded, x)
  BY <1>2, <1>4, <1>5, OneOccurs
<1>7. \A x : /\ Occurs(slots.plugins, x) \in Nat
             /\ Occurs(slots'.plugins, x) = IF entry = x THEN Occurs(slots.plugins, x) + 1
                                                         ELSE Occurs(slots.plugins, x)
  BY <1>3, <1>4, <1>5, OneOccurs
<1>8. /\ result'.loaded \in Seq(PluginNames) /\ Len(result'.loaded) = Len(result.loaded) + 1
      /\ Len(result.failed) \in Nat /\ Len(result.loaded) \in Nat
  BY <1>2, <1>4, <1>5, OneMember
<1>9. Append(slots.plugins, entry) \in Seq(Entry)
  BY <1>3, <1>4, OneMember
<1>10. at'.step = "read" /\ at'.dir = at.dir + 1 /\ at.dir \in Nat
  BY <1>0, DirMoves, InHand
<1>11. OutcomesCounted'
  <2>1. Len(result'.loaded) + Len(result'.failed) = at'.dir - 1
    <3> DEFINE a == Len(result.loaded)
               b == Len(result.failed)
    <3>1. a + b = at.dir - 1 /\ Len(result'.failed) = b
      BY <1>1, <1>5 DEF OutcomesCounted
    <3>2. a \in Nat /\ b \in Nat /\ Len(result'.loaded) = a + 1
      BY <1>8
    <3> HIDE DEF a, b
    <3> QED
      BY <1>10, <3>1, <3>2
  <2>2. ASSUME NEW n \in PluginNames
        PROVE  /\ Occurs(result'.loaded, n) = Occurs(slots'.plugins, [name |-> n, status |-> "active"])
               /\ Occurs(result'.failed, n) <= Occurs(errors', n)
    <3> DEFINE x == [name |-> n, status |-> "active"]
    <3>1. Occurs(result.loaded, n) = Occurs(slots.plugins, x) /\ Occurs(result.failed, n) <= Occurs(errors, n)
      BY <1>1 DEF OutcomesCounted
    <3>2. entry = x <=> name = n
      BY <1>3
    <3> HIDE DEF x
    <3>3. Occurs(result'.loaded, n) = Occurs(slots'.plugins, x)
      BY <1>6, <1>7, <3>1, <3>2
    <3> QED
      BY <1>0, <1>5, <3>1, <3>3 DEF x
  <2> QED
    BY <1>2, <2>1, <2>2 DEF OutcomesCounted
<1>12. PlugTypes'
  <2>1. Entry' = Entry /\ found' = found /\ handles' = handles /\ errors' = errors
    BY <1>0, <1>2 DEF Entry
  <2>2. result' \in [loaded : Seq(PluginNames), failed : Seq(PluginNames)]
    <3>1. Append(result.loaded, name) \in Seq(PluginNames)
      BY <1>5, <1>8
    <3> QED
      BY <1>4, <3>1
  <2>3. slots' \in [commands : Seq(PluginNames), plugins : Seq(Entry)]
    BY <1>4, <1>9
  <2> QED
    BY <1>1, <1>2, <1>10, <2>1, <2>2, <2>3, <1>0, DirMoves DEF PlugTypes
<1>13. ToolsOwned' /\ RunsOwned' /\ Closing'
  <2>1. ToolsOwned'
    BY <1>0, <1>1, MoreErrors
  <2>2. RunsOwned' /\ Closing'
    BY <1>0, <1>1, <1>10 DEF RunsOwned, Closing
  <2> QED
    BY <2>1, <2>2
<1> QED
  BY <1>11, <1>12, <1>13 DEF PlugInv

\* If all of a server's tools can be registered, none of their names is taken.
LEMMA NoClash ==
    ASSUME NEW s, IsList(ServerOf(s).tools), Registrable(s) = Names(s)
    PROVE  /\ DOMAIN Names(s) = 1..Len(ServerOf(s).tools)
           /\ \A i \in DOMAIN Names(s) : Names(s)[i] \notin DOMAIN tools
<1> DEFINE names == Names(s)
           Clash(i) == names[i] \in DOMAIN tools \/ \E j \in 1..i - 1 : names[j] = names[i]
           clashes == {i \in DOMAIN names : Clash(i)}
           n == Len(ServerOf(s).tools)
           least == CHOOSE i \in clashes : \A j \in clashes : i <= j
<1>1. n \in Nat /\ DOMAIN names = 1..n
  BY DEF Names, IsList
<1>2. names \in Seq({names[i] : i \in 1..n}) /\ Len(names) = n
  <2>1. names = [i \in 1..n |-> names[i]]
    BY <1>1 DEF Names, IsList
  <2> HIDE DEF names, n
  <2> QED
    BY <1>1, <2>1
<1>3. Registrable(s) = IF clashes = {} THEN names ELSE SubSeq(names, 1, least - 1)
  BY DEF Registrable
<1>4. clashes = {}
  <2> SUFFICES ASSUME clashes # {} PROVE FALSE
    OBVIOUS
  <2>1. clashes \subseteq 1..n
    BY <1>1
  <2> HIDE DEF clashes, names, n
  <2>2. \E i \in clashes : \A j \in clashes : i <= j
    <3>1. clashes \subseteq Nat
      BY <1>1, <2>1
    <3> QED
      BY <3>1, LeastMember
  <2>3. least \in clashes
    BY <2>2
  <2> HIDE DEF least
  <2>4. least \in 1..n
    BY <2>1, <2>3
  <2>5. SubSeq(names, 1, least - 1) = names
    BY <1>3 DEF names
  <2>6. Len(SubSeq(names, 1, least - 1)) = least - 1
    BY <1>1, <1>2, <2>4, SubSeqProperties
  <2> QED
    BY <1>1, <1>2, <2>4, <2>5, <2>6
<1> QED
  BY <1>1, <1>4

\* What is registered joins the tools, and takes nothing from them.
LEMMA ToolsJoin ==
    ASSUME NEW s, tools' = Joined(s)
    PROVE  /\ \A n \in DOMAIN tools : n \in DOMAIN tools' /\ tools'[n] = tools[n]
           /\ \A n \in DOMAIN tools' : n \notin DOMAIN tools => tools'[n] = s
           /\ \A i \in DOMAIN Registrable(s) : Registrable(s)[i] \in DOMAIN tools'
  BY DEF Joined

LEMMA PlugList ==
    ASSUME PlugInv, List
    PROVE  PlugInv'
<1>1. /\ at.dir <= Len(found) /\ at.step = "list" /\ UNCHANGED <<found, slots, result, running>>
      /\ at.server \in DOMAIN Dir.servers /\ at.dir \in Nat /\ at.server \in Nat
  BY InHand DEF List, At, PlugInv, PlugTypes
<1>2. /\ \A s : Names(s)' = Names(s) /\ Here[1] = at.dir /\ found[Here[1]].name = Dir.name
      /\ ServerOf(Here) = Dir.servers[at.server] /\ Here \in Nat \X Nat
  BY <1>1 DEF Names, ServerOf, Here, Dir
<1>3. ToolsOwned /\ RunsOwned /\ handles \in Seq(Nat \X Nat)
  BY DEF PlugInv, PlugTypes
<1>4. CASE ServerFailed /\ UNCHANGED handles /\ (tools' = tools \/ tools' = Joined(Here))
  <2>1. at' = NextServer /\ errors' = Diagnosed
    BY <1>4 DEF ServerFailed
  <2>2. PlugTypes' /\ OutcomesCounted' /\ Closing'
    BY <1>1, <1>4, ServerStep
  <2>3. ToSet(errors) \subseteq ToSet(errors') /\ Dir.name \in ToSet(errors')
    BY <1>1, <2>1, Diagnoses
  <2>4. /\ \A n \in DOMAIN tools : n \in DOMAIN tools' /\ tools'[n] = tools[n]
        /\ \A n \in DOMAIN tools' : n \notin DOMAIN tools => tools'[n] = Here
    BY <1>4, ToolsJoin
  <2>5. ToolsOwned'
    <3>1. handles' = handles /\ found' = found
      BY <1>1, <1>4
    <3>2. \A i \in DOMAIN handles : \A j \in DOMAIN Names(handles[i]) :
             /\ Names(handles[i])[j] \in DOMAIN tools'
             /\ tools'[Names(handles[i])[j]] = handles[i]
      BY <1>3, <2>4 DEF ToolsOwned
    <3>3. \A n \in DOMAIN tools' : tools'[n] \in ToSet(handles) \/ found[tools'[n][1]].name \in ToSet(errors')
      BY <1>2, <1>3, <2>3, <2>4 DEF ToolsOwned
    <3> QED
      BY <1>2, <3>1, <3>2, <3>3 DEF ToolsOwned
  <2>6. RunsOwned'
    BY <1>1, <1>2, <1>3, <1>4, <2>3 DEF RunsOwned
  <2> QED
    BY <2>2, <2>5, <2>6 DEF PlugInv
<1>5. CASE /\ tools' = Joined(Here) /\ Registrable(Here) = Names(Here)
           /\ handles' = Append(handles, Here) /\ at' = NextServer /\ UNCHANGED errors
  <2>1. /\ at'.dir = at.dir /\ at'.step \in {"connect", "finish"}
        /\ at'.step = "connect" => at'.server \in DOMAIN Dir'.servers
        /\ at' \in [dir : 1..(Len(found) + 1), server : Nat,
                    step : {"read", "load", "connect", "list", "finish", "closing"}]
    BY <1>1, <1>5, ServerMoves
  <2>2. /\ handles' \in Seq(Nat \X Nat) /\ ToSet(handles') = ToSet(handles) \cup {Here}
        /\ DOMAIN handles' = DOMAIN handles \cup {Len(handles) + 1}
        /\ \A i \in DOMAIN handles : handles'[i] = handles[i]
        /\ handles'[Len(handles) + 1] = Here
    <3>1. /\ Append(handles, Here) \in Seq(Nat \X Nat)
          /\ ToSet(Append(handles, Here)) = ToSet(handles) \cup {Here}
      BY <1>2, <1>3, OneMember
    <3> DEFINE h == Here
    <3> HIDE DEF h
    <3>2. /\ DOMAIN Append(handles, h) = DOMAIN handles \cup {Len(handles) + 1}
          /\ \A i \in DOMAIN handles : Append(handles, h)[i] = handles[i]
          /\ Append(handles, h)[Len(handles) + 1] = h
      BY <1>3
    <3>3. handles' = Append(handles, Here) /\ h = Here
      BY <1>5 DEF h
    <3> QED
      BY <3>1, <3>2, <3>3, Zenon
  <2>3. Entry' = Entry /\ PluginNames' = PluginNames /\ UNCHANGED <<found, slots, result, running, errors>>
    BY <1>1, <1>5 DEF Entry, PluginNames
  <2>4. PlugTypes'
    BY <2>1, <2>2, <2>3 DEF PlugInv, PlugTypes
  <2>5. OutcomesCounted'
    BY <1>1, <2>1, <2>3, OutcomesStay
  <2>6. /\ \A n \in DOMAIN tools : n \in DOMAIN tools' /\ tools'[n] = tools[n]
        /\ \A n \in DOMAIN tools' : n \notin DOMAIN tools => tools'[n] = Here
        /\ \A i \in DOMAIN Names(Here) : Names(Here)[i] \in DOMAIN tools'
    BY <1>5, ToolsJoin
  <2>7. \A i \in DOMAIN Names(Here) : Names(Here)[i] \notin DOMAIN tools
    <3>1. IsList(ServerOf(Here).tools)
      BY <1>1, <1>2, InHand
    <3> QED
      BY <1>5, <3>1, NoClash
  <2>8. ToolsOwned'
    <3>1. \A i \in DOMAIN handles' : \A j \in DOMAIN Names(handles'[i]) :
             /\ Names(handles'[i])[j] \in DOMAIN tools'
             /\ tools'[Names(handles'[i])[j]] = handles'[i]
      <4> SUFFICES ASSUME NEW i \in DOMAIN handles', NEW j \in DOMAIN Names(handles'[i])
                   PROVE  /\ Names(handles'[i])[j] \in DOMAIN tools'
                          /\ tools'[Names(handles'[i])[j]] = handles'[i]
        OBVIOUS
      <4>1. CASE i \in DOMAIN handles
        <5>1. handles'[i] = handles[i]
          BY <2>2, <4>1
        <5>2. Names(handles[i])[j] \in DOMAIN tools /\ tools[Names(handles[i])[j]] = handles[i]
          BY <1>3, <4>1, <5>1 DEF ToolsOwned
        <5> QED
          BY <2>6, <5>1, <5>2
      <4>2. CASE handles'[i] = Here
        BY <2>6, <2>7, <4>2
      <4> QED
        BY <2>2, <4>1, <4>2
    <3>2. \A n \in DOMAIN tools' : tools'[n] \in ToSet(handles') \/ found[tools'[n][1]].name \in ToSet(errors)
      BY <1>3, <2>2, <2>6 DEF ToolsOwned
    <3> QED
      BY <1>2, <2>3, <3>1, <3>2 DEF ToolsOwned
  <2>9. RunsOwned' /\ Closing'
    BY <1>1, <1>3, <2>1, <2>2, <2>3 DEF RunsOwned, Closing
  <2> QED
    BY <2>4, <2>5, <2>8, <2>9 DEF PlugInv
<1> QED
  BY <1>4, <1>5 DEF List

\* A process ends, or the shutdown begins or goes on.
LEMMA PlugEnds ==
    ASSUME PlugInv, (\E s \in running : Dies(s)) \/ Shutdown \/ Close \/ UNCHANGED pluginVars
    PROVE  PlugInv'
<1>1. /\ UNCHANGED <<found, slots, errors, result, tools, handles>> /\ running' \subseteq running
  BY DEF Dies, Shutdown, Close, pluginVars
<1>2. Entry' = Entry /\ PluginNames' = PluginNames /\ (\A s : Names(s)' = Names(s))
  BY <1>1 DEF Entry, PluginNames, Names, ServerOf
<1>3. ToolsOwned'
  BY <1>1, <1>2 DEF PlugInv, ToolsOwned
<1>4. CASE (\E s \in running : Dies(s)) \/ UNCHANGED pluginVars
  <2>1. at' = at
    BY <1>4 DEF Dies, pluginVars
  <2>2. PlugTypes' /\ OutcomesCounted'
    BY <1>1, <1>2, <2>1 DEF PlugInv, PlugTypes, OutcomesCounted, Dir
  <2>3. RunsOwned' /\ Closing'
    BY <1>1, <2>1 DEF PlugInv, RunsOwned, Closing, Here
  <2> QED
    BY <1>3, <2>2, <2>3 DEF PlugInv
<1>5. CASE Shutdown \/ Close
  <2>1. /\ at.dir > Len(found) /\ at.dir \in 1..(Len(found) + 1) /\ at.server \in Nat
        /\ at = [dir |-> at.dir, server |-> at.server, step |-> at.step]
    BY <1>5 DEF Shutdown, Close, Loaded, PlugInv, PlugTypes
  <2>2. \/ at' = [dir |-> at.dir, server |-> 0, step |-> "closing"]
         \/ at' = [dir |-> at.dir, server |-> at.server + 1, step |-> "closing"]
    <3>1. CASE Shutdown
      <4>1. at' = [at EXCEPT !.step = "closing", !.server = 0]
        BY <3>1 DEF Shutdown
      <4> QED
        BY <2>1, <4>1, Zenon
    <3>2. CASE Close
      <4>1. at' = [at EXCEPT !.server = @ + 1] /\ at.step = "closing"
        BY <3>2 DEF Close
      <4> QED
        BY <2>1, <4>1
    <3> QED
      BY <1>5, <3>1, <3>2
  <2>3. /\ at.dir > Len(found) /\ at.dir \in 1..(Len(found) + 1) /\ at.server \in Nat
        /\ at' \in [dir : 1..(Len(found) + 1), server : Nat,
                    step : {"read", "load", "connect", "list", "finish", "closing"}]
        /\ at'.dir = at.dir /\ at'.step = "closing"
    BY <2>1, <2>2
  <2>4. PlugTypes' /\ OutcomesCounted'
    BY <1>1, <1>2, <2>3 DEF PlugInv, PlugTypes, OutcomesCounted
  <2>5. RunsOwned'
    <3>1. ~(at.dir <= Len(found))
      BY <1>5 DEF Shutdown, Close, Loaded, PlugInv, PlugTypes
    <3> QED
      BY <1>1, <3>1 DEF PlugInv, RunsOwned
  <2>6. Closing'
    <3>1. CASE Shutdown
      BY <1>1, <2>3, <3>1 DEF Shutdown, Closing, PlugInv, PlugTypes
    <3>2. CASE Close
      <4>1. /\ at'.server = at.server + 1 /\ at.server < Len(handles) /\ Len(handles) \in Nat
            /\ running' = running \ {handles[at.server + 1]}
            /\ \A i \in 1..at.server : handles[i] \notin running
        BY <3>2 DEF Close, Closing, PlugInv, PlugTypes
      <4>2. at'.server <= Len(handles) /\ \A i \in 1..at'.server : i \in 1..at.server \/ i = at.server + 1
        BY <2>3, <4>1
      <4> QED
        BY <1>1, <2>3, <4>1, <4>2 DEF Closing
    <3> QED
      BY <1>5, <3>1, <3>2
  <2> QED
    BY <1>3, <2>4, <2>5, <2>6 DEF PlugInv
<1> QED
  BY <1>4, <1>5

\* For any directories, whatever of theirs fails and whenever their servers end: each
\* directory is loaded or has failed, and the registry says the same; the tools of a
\* server that is kept are all there and its own; what the shutdown leaves running is
\* told by a diagnostic.  (loader.ts: loadPlugins, mcp-tool-bridge.ts: registerMCPTools)
THEOREM PluginsAreAccounted == PluginsSpec => []PluginsAccounted
<1>1. PluginsInit => PlugInv
  BY PlugInit
<1>2. PlugInv /\ [PluginsNext]_pluginVars => PlugInv'
  BY PlugRead, PlugLoad, PlugConnect, PlugList, PlugFinish, PlugEnds DEF PluginsNext
<1>3. PlugInv => PluginsAccounted
  BY PlugSafe
<1> QED
  BY <1>1, <1>2, <1>3, PTL DEF PluginsSpec

-----------------------------------------------------------------------------
(* The health of the agent's key profiles.                                 *)

CONSTANTS Profiles, PriorityOf, Resolvers, OtherSources, MaxKeyFailures, HealthWindow, Hour, Base,
          MaxBackoff, MaxResults, MaxRests
VARIABLES profile, rest, health, caller, results
Keyring == INSTANCE Profiles WITH Callers <- Resolvers, Others <- OtherSources, MaxFailures <- MaxKeyFailures,
                                  Window <- HealthWindow, Limit <- MaxBackoff

\* What is listed, what the monitor keeps, and the history.
KeyTables == [Profiles -> [there : BOOLEAN, active : BOOLEAN, used : Keyring!Ages]]
Records == [Keyring!Ages -> [BOOLEAN -> Nat]]
KeyResults == [success : BOOLEAN, age : Keyring!Ages]
Rests == [left : 0..Keyring!Most(Base, MaxBackoff), failures : 0..MaxRests]
Resolving == [step : {"none", "list", "profile", "other", "failed"},
              key : Profiles \cup {"none", Head(OtherSources)}, list : KeyTables \cup {<<>>}]

\* The places of the successes, and 0 before the first.
Successes(s) == {0} \cup {i \in DOMAIN s : s[i].success}
LastSuccess(s) == Keyring!LastIn(Successes(s))

KeyringTypes ==
    /\ profile \in KeyTables
    /\ rest \in [Profiles -> Rests]
    /\ health \in [Profiles -> [records : Records, failures : Nat]]
    /\ caller \in [Resolvers -> Resolving]
    /\ results \in [Profiles -> Seq(KeyResults)]
    /\ \A c \in Resolvers : /\ caller[c].step = "list" => caller[c].list \in KeyTables
                            /\ caller[c].step \in {"profile", "failed"} => caller[c].key \in Profiles

\* Records agree with a history within the window, and the failures with its end.
InWindow(records) == Keyring!Within(records, HealthWindow)
Judged(h, s) == /\ InWindow(h.records) = InWindow(Keyring!Tally(s))
                /\ LastSuccess(s) \in Nat
                /\ h.failures = Keyring!Trailing(s)
HealthKept == \A p \in Profiles : Judged(health[p], results[p])

KeyringInv == KeyringTypes /\ HealthKept

LEMMA AgesOfRecords ==
    ASSUME Keyring!ProfilesAssumption
    PROVE  /\ HealthWindow \in Nat \ {0} /\ Keyring!Oldest \in Nat /\ Keyring!Oldest > HealthWindow
           /\ Keyring!Ages = 0..Keyring!Oldest
           /\ Keyring!NoRecords \in Records
  BY DEF Keyring!ProfilesAssumption, Keyring!Oldest, Keyring!Ages, Keyring!NoRecords, Records

\* What is dropped is not within the window, and does not come back to it.
LEMMA RecordsWithin ==
    ASSUME Keyring!ProfilesAssumption, NEW r \in Records, NEW q \in Records, NEW b \in BOOLEAN
    PROVE  /\ InWindow(r) \in Records /\ InWindow(InWindow(r)) = InWindow(r)
           /\ Keyring!With(r, b) \in Records /\ Keyring!Aged(r) \in Records
           /\ InWindow(r) = InWindow(q) => /\ InWindow(Keyring!With(r, b)) = InWindow(Keyring!With(q, b))
                                       /\ InWindow(Keyring!Aged(r)) = InWindow(Keyring!Aged(q))
<1> DEFINE Plus(f) == [f EXCEPT ![b] = @ + 1]
<1>1. /\ HealthWindow \in Nat \ {0} /\ Keyring!Oldest \in Nat /\ Keyring!Oldest > HealthWindow
      /\ Keyring!Ages = 0..Keyring!Oldest /\ Keyring!NoRecords \in Records
  BY AgesOfRecords
<1>2. \A x \in Records : /\ InWindow(x) \in Records
                         /\ \A a \in Keyring!Ages :
                              InWindow(x)[a] = IF a <= HealthWindow THEN x[a] ELSE Keyring!NoRecords[a]
  BY <1>1 DEF InWindow, Keyring!Within, Records
<1>3. InWindow(InWindow(r)) = InWindow(r)
  <2>1. \A a \in Keyring!Ages : InWindow(InWindow(r))[a] = InWindow(r)[a]
    BY <1>1, <1>2
  <2> QED
    BY <1>2, <2>1 DEF Records
<1>4. \A x \in Records : /\ Keyring!With(x, b) \in Records
                         /\ \A a \in Keyring!Ages :
                              Keyring!With(x, b)[a] = IF a = 0 THEN Plus(x[0]) ELSE x[a]
  <2> TAKE x \in Records
  <2> DEFINE zero == x[0]
             more == Plus(zero)
  <2>1. 0 \in Keyring!Ages /\ x \in [Keyring!Ages -> [BOOLEAN -> Nat]]
    BY <1>1 DEF Records
  <2>2. zero \in [BOOLEAN -> Nat]
    BY <2>1
  <2>3. Keyring!With(x, b) = [x EXCEPT ![0] = more]
    BY <2>1 DEF Keyring!With
  <2> HIDE DEF zero
  <2>4. more \in [BOOLEAN -> Nat]
    BY <2>2
  <2> HIDE DEF more
  <2>5. /\ [x EXCEPT ![0] = more] \in [Keyring!Ages -> [BOOLEAN -> Nat]]
        /\ \A a \in Keyring!Ages : [x EXCEPT ![0] = more][a] = IF a = 0 THEN more ELSE x[a]
    BY <2>1, <2>4
  <2> QED
    BY <2>3, <2>5 DEF Records, more, zero
<1>5. \A x \in Records : /\ Keyring!Aged(x) \in Records
                         /\ \A a \in Keyring!Ages : \A s \in BOOLEAN :
                              Keyring!Aged(x)[a][s] = (IF a = 0 THEN 0 ELSE x[a - 1][s])
                                                      + (IF a = Keyring!Oldest THEN x[a][s] ELSE 0)
  <2> TAKE x \in Records
  <2>1. \A a \in Keyring!Ages : \A s \in BOOLEAN : /\ x[a][s] \in Nat
                                                   /\ a # 0 => a - 1 \in Keyring!Ages
    BY <1>1 DEF Records
  <2>2. \A a \in Keyring!Ages : \A s \in BOOLEAN :
          (IF a = 0 THEN 0 ELSE x[a - 1][s]) + (IF a = Keyring!Oldest THEN x[a][s] ELSE 0) \in Nat
    BY <2>1
  <2> QED
    BY <2>2 DEF Keyring!Aged, Records
<1>6. ASSUME InWindow(r) = InWindow(q)
      PROVE  /\ InWindow(Keyring!With(r, b)) = InWindow(Keyring!With(q, b))
             /\ InWindow(Keyring!Aged(r)) = InWindow(Keyring!Aged(q))
  <2>1. \A a \in Keyring!Ages : a <= HealthWindow => r[a] = q[a]
    BY <1>2, <1>6
  <2>2. \A a \in Keyring!Ages : InWindow(Keyring!With(r, b))[a] = InWindow(Keyring!With(q, b))[a]
    <3>1. r[0] = q[0]
      BY <1>1, <2>1
    <3>2. \A a \in Keyring!Ages : a <= HealthWindow => Keyring!With(r, b)[a] = Keyring!With(q, b)[a]
      <4>1. \A a \in Keyring!Ages : /\ Keyring!With(r, b)[a] = IF a = 0 THEN Plus(r[0]) ELSE r[a]
                                    /\ Keyring!With(q, b)[a] = IF a = 0 THEN Plus(q[0]) ELSE q[a]
        BY <1>4
      <4> HIDE DEF Plus
      <4> QED
        BY <2>1, <3>1, <4>1
    <3>3. Keyring!With(r, b) \in Records /\ Keyring!With(q, b) \in Records
      BY <1>4
    <3> QED
      BY <1>2, <3>2, <3>3
  <2>3. \A a \in Keyring!Ages : a <= HealthWindow => Keyring!Aged(r)[a] = Keyring!Aged(q)[a]
    <3> TAKE a \in Keyring!Ages
    <3> HAVE a <= HealthWindow
    <3>1. \A s \in BOOLEAN : Keyring!Aged(r)[a][s] = Keyring!Aged(q)[a][s]
      <4>1. a # 0 => a - 1 \in Keyring!Ages /\ a - 1 <= HealthWindow
        BY <1>1
      <4>2. a # Keyring!Oldest
        BY <1>1
      <4> QED
        BY <1>5, <2>1, <4>1, <4>2
    <3>2. Keyring!Aged(r)[a] \in [BOOLEAN -> Nat] /\ Keyring!Aged(q)[a] \in [BOOLEAN -> Nat]
      BY <1>5 DEF Records
    <3> QED
      BY <3>1, <3>2
  <2>4. \A a \in Keyring!Ages : InWindow(Keyring!Aged(r))[a] = InWindow(Keyring!Aged(q))[a]
    BY <1>2, <1>5, <2>3
  <2>5. /\ InWindow(Keyring!With(r, b)) \in Records /\ InWindow(Keyring!With(q, b)) \in Records
        /\ InWindow(Keyring!Aged(r)) \in Records /\ InWindow(Keyring!Aged(q)) \in Records
    BY <1>2, <1>4, <1>5
  <2> QED
    BY <2>2, <2>4, <2>5 DEF Records
<1> QED
  BY <1>2, <1>3, <1>4, <1>5, <1>6

LEMMA SameTimes == \A s, x : Keyring!Times(s, x) = Occurs(s, x)
<1>1. \A S : Keyring!Cardinality(S) = Cardinality(S)
  BY DEF Keyring!Cardinality, Cardinality
<1> QED
  BY <1>1 DEF Keyring!Times, Occurs

\* A result that is added, and a tick, are seen the same way in records and in the history.
LEMMA TallyOf ==
    ASSUME Keyring!ProfilesAssumption, NEW s \in Seq(KeyResults), NEW b \in BOOLEAN
    PROVE  /\ Keyring!Tally(s) \in Records
           /\ Keyring!Tally(Append(s, [success |-> b, age |-> 0])) = Keyring!With(Keyring!Tally(s), b)
<1> DEFINE e == [success |-> b, age |-> 0]
<1>1. Keyring!Ages = 0..Keyring!Oldest /\ Keyring!Oldest \in Nat /\ 0 \in Keyring!Ages
  BY AgesOfRecords
<1>2. e \in KeyResults /\ Append(s, e) \in Seq(KeyResults)
  BY <1>1 DEF KeyResults
<1>3. \A x : Occurs(s, x) \in Nat /\ Occurs(Append(s, e), x) = IF e = x THEN Occurs(s, x) + 1 ELSE Occurs(s, x)
  <2> TAKE x
  <2> HIDE DEF e
  <2> QED
    BY <1>2, OneOccurs
<1>4. \A t : Keyring!Tally(t) = [a \in Keyring!Ages |-> [u \in BOOLEAN |-> Occurs(t, [success |-> u, age |-> a])]]
  BY SameTimes DEF Keyring!Tally
<1>5. Keyring!Tally(s) \in Records
  BY <1>3, <1>4 DEF Records
<1>6. \A a \in Keyring!Ages : \A u \in BOOLEAN :
        Occurs(Append(s, e), [success |-> u, age |-> a]) =
          IF a = 0 /\ u = b THEN Occurs(s, [success |-> u, age |-> a]) + 1 ELSE Occurs(s, [success |-> u, age |-> a])
  BY <1>3
<1>7. Keyring!With(Keyring!Tally(s), b) =
        [a \in Keyring!Ages |-> [u \in BOOLEAN |->
          IF a = 0 /\ u = b THEN Occurs(s, [success |-> u, age |-> a]) + 1 ELSE Occurs(s, [success |-> u, age |-> a])]]
  <2> DEFINE T == [a \in Keyring!Ages |-> [u \in BOOLEAN |-> Occurs(s, [success |-> u, age |-> a])]]
  <2>1. [T EXCEPT ![0][b] = @ + 1] =
        [a \in Keyring!Ages |-> [u \in BOOLEAN |->
          IF a = 0 /\ u = b THEN T[a][u] + 1 ELSE T[a][u]]]
    <3>1. T \in Records
      BY <1>3 DEF Records
    <3> HIDE DEF T
    <3> QED
      BY <1>1, <3>1 DEF Records
  <2>2. Keyring!With(T, b) = [T EXCEPT ![0][b] = @ + 1]
    BY DEF Keyring!With
  <2>3. Keyring!Tally(s) = T
    BY <1>4
  <2>4. \A a \in Keyring!Ages : \A u \in BOOLEAN : T[a][u] = Occurs(s, [success |-> u, age |-> a])
    OBVIOUS
  <2> HIDE DEF T
  <2> QED
    BY <2>1, <2>2, <2>3, <2>4
<1>8. Keyring!Tally(Append(s, e)) = [a \in Keyring!Ages |-> [u \in BOOLEAN |->
                                       Occurs(Append(s, e), [success |-> u, age |-> a])]]
  BY <1>4
<1>9. [a \in Keyring!Ages |-> [u \in BOOLEAN |-> Occurs(Append(s, e), [success |-> u, age |-> a])]] =
        [a \in Keyring!Ages |-> [u \in BOOLEAN |->
          IF a = 0 /\ u = b THEN Occurs(s, [success |-> u, age |-> a]) + 1 ELSE Occurs(s, [success |-> u, age |-> a])]]
  <2> HIDE DEF e
  <2> QED
    BY <1>6
<1> QED
  BY <1>5, <1>7, <1>8, <1>9

LEMMA TallyAged ==
    ASSUME Keyring!ProfilesAssumption, NEW s \in Seq(KeyResults)
    PROVE  /\ Keyring!AllOlder(s) \in Seq(KeyResults)
           /\ InWindow(Keyring!Tally(Keyring!AllOlder(s))) = InWindow(Keyring!Aged(Keyring!Tally(s)))
<1> DEFINE t == Keyring!AllOlder(s)
           T == Keyring!Tally(s)
<1>1. /\ HealthWindow \in Nat \ {0} /\ Keyring!Oldest \in Nat /\ Keyring!Oldest > HealthWindow
      /\ Keyring!Ages = 0..Keyring!Oldest
  BY AgesOfRecords
<1>2. \A x \in Keyring!Ages : /\ Keyring!Older(x) \in Keyring!Ages /\ Keyring!Older(x) # 0
                              /\ \A a \in Keyring!Ages : a <= HealthWindow => (Keyring!Older(x) = a <=> x = a - 1)
  BY <1>1 DEF Keyring!Older
<1>3. Len(s) \in Nat /\ DOMAIN s = 1..Len(s) /\ \A i \in DOMAIN s : s[i] \in KeyResults
  OBVIOUS
<1>4. DOMAIN t = DOMAIN s /\ \A i \in DOMAIN s : t[i] = [success |-> s[i].success, age |-> Keyring!Older(s[i].age)]
  BY <1>3 DEF Keyring!AllOlder, KeyResults
<1>5. \A i \in DOMAIN s : t[i] \in KeyResults
  BY <1>2, <1>3, <1>4 DEF KeyResults
<1>6. t \in Seq(KeyResults)
  <2>1. t = [i \in 1..Len(s) |-> [s[i] EXCEPT !.age = Keyring!Older(@)]]
    BY <1>3 DEF Keyring!AllOlder
  <2>2. \A i \in 1..Len(s) : [s[i] EXCEPT !.age = Keyring!Older(@)] \in KeyResults
    BY <1>3, <1>4, <1>5, <2>1
  <2> QED
    BY <1>3, <2>1, <2>2, SeqDef
<1>7. T \in Records /\ Keyring!Tally(t) \in Records
  BY <1>6, TallyOf
<1>8. Keyring!Aged(T) \in Records
  BY <1>7, RecordsWithin
<1>9. \A a \in Keyring!Ages : a <= HealthWindow => Keyring!Tally(t)[a] = Keyring!Aged(T)[a]
  <2> TAKE a \in Keyring!Ages
  <2> HAVE a <= HealthWindow
  <2>1. ASSUME NEW u \in BOOLEAN
        PROVE  Keyring!Tally(t)[a][u] = Keyring!Aged(T)[a][u]
    <3> DEFINE A == {i \in DOMAIN t : t[i] = [success |-> u, age |-> a]}
               B == {i \in DOMAIN s : s[i] = [success |-> u, age |-> a - 1]}
    <3>0. \A x : \A n \in Keyring!Ages : Keyring!Tally(x)[n][u] = Keyring!Times(x, [success |-> u, age |-> n])
      BY DEF Keyring!Tally
    <3>1. Keyring!Tally(t)[a][u] = Cardinality(A)
      <4>1. Keyring!Times(t, [success |-> u, age |-> a]) = Cardinality(A)
        BY SameTimes DEF Occurs
      <4> HIDE DEF t, A
      <4> QED
        BY <3>0, <4>1
    <3>2. Keyring!Aged(T)[a][u] = (IF a = 0 THEN 0 ELSE T[a - 1][u]) + 0
      BY <1>1 DEF Keyring!Aged
    <3>3. \A i \in DOMAIN s : t[i] = [success |-> u, age |-> a] <=> s[i].success = u /\ Keyring!Older(s[i].age) = a
      BY <1>4
    <3>4. \A i \in DOMAIN s : s[i] = [success |-> u, age |-> a - 1] <=> s[i].success = u /\ s[i].age = a - 1
      BY <1>3 DEF KeyResults
    <3>5. \A i \in DOMAIN s : s[i].age \in Keyring!Ages
      BY <1>3 DEF KeyResults
    <3>6. \A i \in DOMAIN s : t[i] = [success |-> u, age |-> a] <=> s[i] = [success |-> u, age |-> a - 1]
      BY <1>2, <3>3, <3>4, <3>5
    <3>7. A = B
      BY <1>4, <3>6
    <3>8. CASE a = 0
      <4>1. A = {}
        <5>1. \A i \in DOMAIN s : Keyring!Older(s[i].age) # 0
          BY <1>2, <3>5
        <5>2. \A i \in DOMAIN t : t[i] # [success |-> u, age |-> a]
          BY <1>4, <3>3, <3>8, <5>1
        <5> QED
          BY <5>2
      <4>2. Cardinality(A) = 0
        BY <4>1, FS_EmptySet
      <4> HIDE DEF A, t, T
      <4> QED
        BY <3>1, <3>2, <3>8, <4>2
    <3>9. CASE a # 0
      <4>1. a - 1 \in Keyring!Ages
        BY <1>1, <3>9
      <4>2. T[a - 1][u] = Cardinality(B)
        <5>1. Keyring!Times(s, [success |-> u, age |-> a - 1]) = Cardinality(B)
          BY SameTimes DEF Occurs
        <5> HIDE DEF B
        <5> QED
          BY <3>0, <4>1, <5>1
      <4>3. T[a - 1][u] \in Nat
        BY <1>7, <4>1 DEF Records
      <4> HIDE DEF A, B, t, T
      <4> QED
        BY <3>1, <3>2, <3>7, <3>9, <4>2, <4>3
    <3> QED
      BY <3>8, <3>9
  <2>2. Keyring!Tally(t)[a] \in [BOOLEAN -> Nat] /\ Keyring!Aged(T)[a] \in [BOOLEAN -> Nat]
    BY <1>7, <1>8 DEF Records
  <2> QED
    BY <2>1, <2>2
<1>10. InWindow(Keyring!Tally(t)) = InWindow(Keyring!Aged(T))
  <2> HIDE DEF t, T
  <2> QED
    BY <1>9 DEF InWindow, Keyring!Within
<1> QED
  BY <1>6, <1>10

Healths == [records : Records, failures : Nat]

\* The successes of a history that a failure is added to, and of one that has grown older.
LEMMA FailuresEnd ==
    ASSUME NEW s \in Seq(KeyResults), NEW e \in KeyResults, LastSuccess(s) \in Nat
    PROVE  /\ LastSuccess(Append(s, e)) \in Nat
           /\ Keyring!Trailing(Append(s, e)) = IF e.success THEN 0 ELSE Keyring!Trailing(s) + 1
<1> DEFINE t == Append(s, e)
<1>1. /\ Len(s) \in Nat /\ DOMAIN s = 1..Len(s) /\ DOMAIN t = 1..(Len(s) + 1) /\ Len(t) = Len(s) + 1
      /\ t[Len(s) + 1] = e /\ \A i \in 1..Len(s) : t[i] = s[i]
  OBVIOUS
<1>2. \A x : /\ Keyring!Trailing(x) = Len(x) - LastSuccess(x)
             /\ LastSuccess(x) = CHOOSE n \in Successes(x) : \A m \in Successes(x) : m <= n
  BY DEF Keyring!Trailing, LastSuccess, Successes, Keyring!LastIn
<1>3. CASE ~e.success
  <2>1. Successes(t) = Successes(s)
    BY <1>1, <1>3 DEF Successes
  <2>2. LastSuccess(t) = LastSuccess(s)
    BY <2>1 DEF LastSuccess
  <2> HIDE DEF t
  <2>9. /\ LastSuccess(t) \in Nat
        /\ Keyring!Trailing(t) = IF e.success THEN 0 ELSE Keyring!Trailing(s) + 1
    <3>1. Keyring!Trailing(t) = Len(t) - LastSuccess(t) /\ Keyring!Trailing(s) = Len(s) - LastSuccess(s)
      BY <1>2
    <3> QED
      BY <1>1, <1>3, <2>2, <3>1
  <2> QED
    BY <2>9 DEF t
<1>4. CASE e.success
  <2> DEFINE n == Len(s) + 1
  <2>1. n \in Successes(t) /\ \A m \in Successes(t) : m \in Nat /\ m <= n
    BY <1>1, <1>4 DEF Successes
  <2>2. LastSuccess(t) \in Successes(t) /\ \A m \in Successes(t) : m <= LastSuccess(t)
    BY <1>2, <2>1
  <2>3. LastSuccess(t) = n
    <3> HIDE DEF t, n
    <3>1. n <= LastSuccess(t) /\ LastSuccess(t) <= n /\ LastSuccess(t) \in Nat
      BY <2>1, <2>2
    <3>2. n \in Nat
      BY <2>1
    <3> QED
      BY <3>1, <3>2
  <2> HIDE DEF t
  <2>9. /\ LastSuccess(t) \in Nat
        /\ Keyring!Trailing(t) = IF e.success THEN 0 ELSE Keyring!Trailing(s) + 1
    <3>1. Keyring!Trailing(t) = Len(t) - LastSuccess(t) /\ Keyring!Trailing(s) = Len(s) - LastSuccess(s)
      BY <1>2
    <3> QED
      BY <1>1, <1>4, <2>3, <3>1
  <2> QED
    BY <2>9 DEF t
<1> QED
  BY <1>3, <1>4 DEF KeyResults

LEMMA FailuresAge ==
    ASSUME Keyring!ProfilesAssumption, NEW s \in Seq(KeyResults)
    PROVE  /\ LastSuccess(Keyring!AllOlder(s)) = LastSuccess(s)
           /\ Keyring!Trailing(Keyring!AllOlder(s)) = Keyring!Trailing(s)
<1> DEFINE t == Keyring!AllOlder(s)
<1>1. /\ Len(s) \in Nat /\ DOMAIN s = 1..Len(s) /\ DOMAIN t = 1..Len(s) /\ Len(t) = Len(s)
      /\ \A i \in 1..Len(s) : s[i] \in KeyResults /\ t[i].success = s[i].success
  <2>1. DOMAIN t = DOMAIN s /\ \A i \in DOMAIN s : s[i] \in KeyResults /\ t[i].success = s[i].success
    <3>1. \A i \in DOMAIN s : s[i] \in KeyResults
      OBVIOUS
    <3>2. DOMAIN t = DOMAIN s /\ \A i \in DOMAIN s : t[i] = [s[i] EXCEPT !.age = Keyring!Older(@)]
      BY DEF Keyring!AllOlder
    <3> HIDE DEF t
    <3> QED
      BY <3>1, <3>2 DEF KeyResults
  <2>2. t \in Seq(KeyResults)
    BY TallyAged
  <2> HIDE DEF t
  <2> QED
    BY <2>1, <2>2
<1>2. Successes(t) = Successes(s)
  BY <1>1 DEF Successes
<1>3. \A x : Keyring!Trailing(x) = Len(x) - LastSuccess(x)
  BY DEF Keyring!Trailing, LastSuccess, Successes
<1>4. LastSuccess(t) = LastSuccess(s)
  BY <1>2 DEF LastSuccess
<1> HIDE DEF t
<1>5. Keyring!Trailing(t) = Keyring!Trailing(s)
  BY <1>1, <1>3, <1>4
<1> QED
  BY <1>4, <1>5 DEF t

\* What is kept is judged as the history is, when results come, records go, and both age.
LEMMA JudgedOn ==
    ASSUME Keyring!ProfilesAssumption, NEW h \in Healths, NEW s \in Seq(KeyResults), Judged(h, s)
    PROVE  /\ \A b \in BOOLEAN : LET t == Append(s, [success |-> b, age |-> 0]) IN
                Keyring!Recorded(h, b) \in Healths /\ t \in Seq(KeyResults) /\ Judged(Keyring!Recorded(h, b), t)
           /\ LET g == [h EXCEPT !.records = Keyring!Within(@, HealthWindow)] IN g \in Healths /\ Judged(g, s)
           /\ LET g == [h EXCEPT !.records = Keyring!Aged(@)] IN
                g \in Healths /\ Keyring!AllOlder(s) \in Seq(KeyResults) /\ Judged(g, Keyring!AllOlder(s))
<1>1. /\ h.records \in Records /\ h.failures \in Nat /\ LastSuccess(s) \in Nat
      /\ InWindow(h.records) = InWindow(Keyring!Tally(s)) /\ h.failures = Keyring!Trailing(s)
  BY DEF Judged, Healths
<1>2. Keyring!Tally(s) \in Records
  BY TallyOf
<1>3. ASSUME NEW b \in BOOLEAN
      PROVE  LET t == Append(s, [success |-> b, age |-> 0]) IN
                Keyring!Recorded(h, b) \in Healths /\ t \in Seq(KeyResults) /\ Judged(Keyring!Recorded(h, b), t)
  <2> DEFINE e == [success |-> b, age |-> 0]
             t == Append(s, e)
             g == Keyring!Recorded(h, b)
             w == Keyring!With(h.records, b)
  <2>1. e \in KeyResults /\ e.success = b
    BY AgesOfRecords DEF KeyResults
  <2>2. Keyring!Tally(t) = Keyring!With(Keyring!Tally(s), b)
    BY TallyOf
  <2>3. w \in Records /\ InWindow(w) = InWindow(Keyring!With(Keyring!Tally(s), b))
    BY <1>1, <1>2, RecordsWithin
  <2>4. InWindow(w) \in Records /\ InWindow(InWindow(w)) = InWindow(w)
    BY <2>3, RecordsWithin
  <2>5. g = [records |-> InWindow(w), failures |-> IF b THEN 0 ELSE h.failures + 1]
    BY DEF Keyring!Recorded, InWindow
  <2>6. g \in Healths
    <3> HIDE DEF w
    <3> QED
      BY <1>1, <2>4, <2>5 DEF Healths
  <2>7. LastSuccess(t) \in Nat /\ Keyring!Trailing(t) = IF b THEN 0 ELSE Keyring!Trailing(s) + 1
    <3> HIDE DEF e
    <3> QED
      BY <1>1, <2>1, FailuresEnd
  <2>8. t \in Seq(KeyResults)
    <3> HIDE DEF e
    <3> QED
      BY <2>1
  <2>9. Judged(g, t)
    <3> HIDE DEF e, t, w, g
    <3>1. g.records = InWindow(w) /\ g.failures = IF b THEN 0 ELSE h.failures + 1
      BY <2>5
    <3> QED
      BY <1>1, <2>2, <2>3, <2>4, <2>7, <3>1 DEF Judged
  <2> QED
    BY <2>6, <2>8, <2>9
<1>4. LET g == [h EXCEPT !.records = Keyring!Within(@, HealthWindow)] IN g \in Healths /\ Judged(g, s)
  <2> DEFINE g == [h EXCEPT !.records = Keyring!Within(@, HealthWindow)]
  <2>1. g = [records |-> InWindow(h.records), failures |-> h.failures]
    BY DEF Healths, InWindow
  <2>2. InWindow(h.records) \in Records /\ InWindow(InWindow(h.records)) = InWindow(h.records)
    BY <1>1, RecordsWithin
  <2> HIDE DEF g
  <2>3. g \in Healths /\ Judged(g, s)
    BY <1>1, <2>1, <2>2 DEF Healths, Judged
  <2> QED
    BY <2>3 DEF g
<1>5. LET g == [h EXCEPT !.records = Keyring!Aged(@)] IN
        g \in Healths /\ Keyring!AllOlder(s) \in Seq(KeyResults) /\ Judged(g, Keyring!AllOlder(s))
  <2> DEFINE g == [h EXCEPT !.records = Keyring!Aged(@)]
  <2>1. g = [records |-> Keyring!Aged(h.records), failures |-> h.failures]
    BY DEF Healths
  <2>2. /\ Keyring!Aged(h.records) \in Records
        /\ InWindow(Keyring!Aged(h.records)) = InWindow(Keyring!Aged(Keyring!Tally(s)))
    <3>1. \A b \in BOOLEAN :
            /\ Keyring!Aged(h.records) \in Records
            /\ InWindow(Keyring!Aged(h.records)) = InWindow(Keyring!Aged(Keyring!Tally(s)))
      BY <1>1, <1>2, RecordsWithin
    <3> QED
      BY <3>1
  <2> HIDE DEF g
  <2>3. g \in Healths /\ Keyring!AllOlder(s) \in Seq(KeyResults) /\ Judged(g, Keyring!AllOlder(s))
    <3>1. /\ Keyring!AllOlder(s) \in Seq(KeyResults)
          /\ InWindow(Keyring!Tally(Keyring!AllOlder(s))) = InWindow(Keyring!Aged(Keyring!Tally(s)))
      BY TallyAged
    <3>2. /\ LastSuccess(Keyring!AllOlder(s)) = LastSuccess(s)
          /\ Keyring!Trailing(Keyring!AllOlder(s)) = Keyring!Trailing(s)
      BY FailuresAge
    <3> QED
      BY <1>1, <2>1, <2>2, <3>1, <3>2 DEF Healths, Judged
  <2> QED
    BY <2>3 DEF g
<1> QED
  BY <1>3, <1>4, <1>5

LEMMA LongRests ==
    ASSUME Keyring!ProfilesAssumption, NEW n \in Nat \ {0}
    PROVE  /\ Keyring!Most(Base, MaxBackoff) \in Nat
           /\ Keyring!Least(Base * Keyring!Powers[Keyring!Least(n, 9)], Keyring!Most(Base, MaxBackoff))
                \in 0..Keyring!Most(Base, MaxBackoff)
<1> DEFINE k == Keyring!Powers[Keyring!Least(n, 9)]
           most == Keyring!Most(Base, MaxBackoff)
<1>1. Base \in Nat /\ most \in Nat
  BY DEF Keyring!ProfilesAssumption, Keyring!Most
<1>2. Keyring!Least(n, 9) \in 1..9
  BY DEF Keyring!Least
<1>3. \A i \in 1..9 : Keyring!Powers[i] \in Nat
  BY DEF Keyring!Powers
<1>4. k \in Nat
  BY <1>2, <1>3
<1> HIDE DEF k, most
<1>5. Base * k \in Nat
  BY <1>1, <1>4
<1>6. Keyring!Least(Base * k, most) \in 0..most
  <2> DEFINE x == Base * k
  <2>1. x \in Nat
    BY <1>5
  <2> HIDE DEF x
  <2>2. Keyring!Least(x, most) \in 0..most
    BY <1>1, <2>1 DEF Keyring!Least
  <2> QED
    BY <2>2 DEF x
<1> QED
  BY <1>1, <1>6 DEF k, most

LEMMA KeyringStart ==
    ASSUME Keyring!ProfilesAssumption, Keyring!Init
    PROVE  KeyringInv
<1>1. /\ Keyring!Ages = 0..Keyring!Oldest /\ Keyring!Oldest \in Nat /\ Keyring!NoRecords \in Records
      /\ Keyring!Most(Base, MaxBackoff) \in Nat /\ MaxRests \in Nat
  <2>1. 1 \in Nat \ {0}
    OBVIOUS
  <2> QED
    BY <2>1, AgesOfRecords, LongRests DEF Keyring!ProfilesAssumption
<1>2. KeyringTypes
  <2>1. profile \in KeyTables
    BY <1>1 DEF Keyring!Init, KeyTables
  <2>2. rest \in [Profiles -> Rests]
    BY <1>1 DEF Keyring!Init, Keyring!NoRest, Rests
  <2>3. health \in [Profiles -> [records : Records, failures : Nat]]
    BY <1>1 DEF Keyring!Init
  <2>4. caller \in [Resolvers -> Resolving] /\ \A c \in Resolvers : caller[c].step = "none"
    BY DEF Keyring!Init, Keyring!Idle, Resolving
  <2>5. results \in [Profiles -> Seq(KeyResults)]
    BY DEF Keyring!Init
  <2> QED
    BY <2>1, <2>2, <2>3, <2>4, <2>5 DEF KeyringTypes
<1>3. HealthKept
  <2>1. Keyring!Tally(<<>>) = Keyring!NoRecords
    <3>1. \A x : Occurs(<<>>, x) = 0
      <4>1. \A x : {i \in DOMAIN <<>> : <<>>[i] = x} = {}
        OBVIOUS
      <4> QED
        BY <4>1, FS_EmptySet DEF Occurs
    <3>2. \A x : Keyring!Times(<<>>, x) = 0
      BY <3>1, SameTimes
    <3> QED
      BY <3>2 DEF Keyring!Tally, Keyring!NoRecords
  <2>2. LastSuccess(<<>>) = 0
    <3>1. Successes(<<>>) = {0}
      BY DEF Successes
    <3> QED
      BY <3>1 DEF LastSuccess, Keyring!LastIn
  <2>3. Keyring!Trailing(<<>>) = 0
    <3>1. Keyring!Trailing(<<>>) = Len(<<>>) - LastSuccess(<<>>)
      BY DEF Keyring!Trailing, LastSuccess, Successes
    <3> QED
      BY <2>2, <3>1
  <2>4. \A p \in Profiles : /\ health[p] = [records |-> Keyring!NoRecords, failures |-> 0]
                            /\ results[p] = <<>>
    BY DEF Keyring!Init
  <2> QED
    BY <2>1, <2>2, <2>3, <2>4 DEF HealthKept, Judged
<1> QED
  BY <1>2, <1>3 DEF KeyringInv

\* Nothing of the monitor or the history changes.
LEMMA KeptAsIs ==
    ASSUME HealthKept, UNCHANGED <<health, results>>
    PROVE  HealthKept'
  BY DEF HealthKept

\* A look at the profiles drops what is old of some.
LEMMA KeptPruned ==
    ASSUME Keyring!ProfilesAssumption, KeyringInv, NEW list \in KeyTables,
           health' = Keyring!Pruned(list), UNCHANGED results
    PROVE  HealthKept' /\ health' \in [Profiles -> Healths]
<1>1. \A p \in Profiles : /\ health[p] \in Healths /\ results[p] \in Seq(KeyResults) /\ Judged(health[p], results[p])
  BY DEF KeyringInv, KeyringTypes, HealthKept, Healths
<1>2. ASSUME NEW p \in Profiles
      PROVE  health'[p] \in Healths /\ Judged(health'[p], results[p])
  <2> DEFINE g == [health[p] EXCEPT !.records = Keyring!Within(@, HealthWindow)]
  <2>1. g \in Healths /\ Judged(g, results[p])
    <3> DEFINE h == health[p]
               s == results[p]
    <3>1. h \in Healths /\ s \in Seq(KeyResults) /\ Judged(h, s)
      BY <1>1
    <3> HIDE DEF h, s
    <3>2. LET x == [h EXCEPT !.records = Keyring!Within(@, HealthWindow)] IN x \in Healths /\ Judged(x, s)
      BY <3>1, JudgedOn
    <3> QED
      BY <3>2 DEF h, s
  <2>2. health'[p] = g \/ health'[p] = health[p]
    BY DEF Keyring!Pruned
  <2> QED
    BY <1>1, <2>1, <2>2
<1>3. health' \in [Profiles -> Healths]
  <2>1. \E f : health' = [p \in Profiles |-> f[p]] /\ \A p \in Profiles : f[p] = health'[p]
    BY DEF Keyring!Pruned
  <2> QED
    BY <1>2, <2>1
<1>4. \A p \in Profiles : Judged(health'[p], results'[p])
  BY <1>2
<1> QED
  BY <1>3, <1>4 DEF HealthKept, Judged

LEMMA ListedKey ==
    ASSUME Keyring!ProfilesAssumption, KeyringInv, NEW c \in Resolvers, Keyring!Listed(c)
    PROVE  KeyringInv'
<1>1. KeyringTypes'
  BY DEF KeyringInv, KeyringTypes, Keyring!Listed, Keyring!Idle, Resolving
<1> QED
  BY <1>1, KeptAsIs DEF KeyringInv, Keyring!Listed

\* Cool-downs that have run out are forgotten.
LEMMA NoticedRests ==
    ASSUME Keyring!ProfilesAssumption, rest \in [Profiles -> Rests], NEW list
    PROVE  Keyring!Noticed(list) \in [Profiles -> Rests]
<1>1. Keyring!NoRest \in Rests
  <2>1. 1 \in Nat \ {0}
    OBVIOUS
  <2>2. Keyring!Most(Base, MaxBackoff) \in Nat /\ MaxRests \in Nat
    BY <2>1, LongRests DEF Keyring!ProfilesAssumption
  <2> QED
    BY <2>2 DEF Keyring!NoRest, Rests
<1> QED
  BY <1>1 DEF Keyring!Noticed

LEMMA SelectedKey ==
    ASSUME Keyring!ProfilesAssumption, KeyringInv, NEW c \in Resolvers, NEW p \in Profiles, Keyring!Selected(c, p)
    PROVE  KeyringInv'
<1> DEFINE list == caller[c].list
<1>1. list \in KeyTables
  BY DEF KeyringInv, KeyringTypes, Keyring!Selected
<1>2. HealthKept' /\ health' \in [Profiles -> Healths]
  <2>1. health' = Keyring!Pruned(list) /\ UNCHANGED results
    BY DEF Keyring!Selected
  <2> HIDE DEF list
  <2> QED
    BY <1>1, <2>1, KeptPruned
<1>3. rest' \in [Profiles -> Rests]
  BY NoticedRests DEF KeyringInv, KeyringTypes, Keyring!Selected
<1>4. profile' \in KeyTables
  <2>1. profile' = [profile EXCEPT ![p] = [list[p] EXCEPT !.used = 0]]
    BY DEF Keyring!Selected
  <2>2. 0 \in Keyring!Ages
    BY AgesOfRecords
  <2> HIDE DEF list
  <2> QED
    BY <1>1, <2>1, <2>2 DEF KeyringInv, KeyringTypes, KeyTables
<1>5. /\ caller' \in [Resolvers -> Resolving]
      /\ \A d \in Resolvers : /\ caller'[d].step = "list" => caller'[d].list \in KeyTables
                              /\ caller'[d].step \in {"profile", "failed"} => caller'[d].key \in Profiles
  BY DEF KeyringInv, KeyringTypes, Keyring!Selected, Keyring!Holding, Keyring!Idle, Resolving
<1>6. results' = results
  BY DEF Keyring!Selected
<1> QED
  BY <1>2, <1>3, <1>4, <1>5, <1>6 DEF KeyringInv, KeyringTypes, Healths

LEMMA ResolvedKey ==
    ASSUME Keyring!ProfilesAssumption, KeyringInv, NEW c \in Resolvers, Keyring!Resolved(c)
    PROVE  KeyringInv'
<1> DEFINE list == caller[c].list
<1>1. list \in KeyTables
  BY DEF KeyringInv, KeyringTypes, Keyring!Resolved
<1>2. HealthKept' /\ health' \in [Profiles -> Healths]
  <2>1. health' = Keyring!Pruned(list) /\ UNCHANGED results
    BY DEF Keyring!Resolved
  <2> HIDE DEF list
  <2> QED
    BY <1>1, <2>1, KeptPruned
<1>3. rest' \in [Profiles -> Rests]
  BY NoticedRests DEF KeyringInv, KeyringTypes, Keyring!Resolved
<1>4. /\ caller' \in [Resolvers -> Resolving]
      /\ \A d \in Resolvers : /\ caller'[d].step = "list" => caller'[d].list \in KeyTables
                              /\ caller'[d].step \in {"profile", "failed"} => caller'[d].key \in Profiles
  BY DEF KeyringInv, KeyringTypes, Keyring!Resolved, Keyring!Holding, Keyring!Idle, Resolving
<1>5. results' = results /\ profile' = profile
  BY DEF Keyring!Resolved
<1> QED
  BY <1>2, <1>3, <1>4, <1>5 DEF KeyringInv, KeyringTypes, Healths

LEMMA UsedKey ==
    ASSUME Keyring!ProfilesAssumption, KeyringInv, NEW c \in Resolvers, NEW b \in BOOLEAN, Keyring!Used(c, b)
    PROVE  KeyringInv'
<1> DEFINE p == caller[c].key
<1>1. p \in Profiles
  BY DEF KeyringInv, KeyringTypes, Keyring!Used
<1>2. /\ caller' \in [Resolvers -> Resolving] /\ rest' = rest
      /\ \A d \in Resolvers : /\ caller'[d].step = "list" => caller'[d].list \in KeyTables
                              /\ caller'[d].step \in {"profile", "failed"} => caller'[d].key \in Profiles
  BY <1>1 DEF KeyringInv, KeyringTypes, Keyring!Used, Keyring!Holding, Keyring!Idle, Resolving
<1>3. CASE UNCHANGED <<profile, health, results>>
  BY <1>2, <1>3, KeptAsIs DEF KeyringInv, KeyringTypes
<1>4. CASE /\ profile' = [profile EXCEPT ![p].used = 0]
           /\ health' = [health EXCEPT ![p] = Keyring!Recorded(@, b)]
           /\ results' = [results EXCEPT ![p] = Append(@, [success |-> b, age |-> 0])]
  <2> DEFINE h == health[p]
             s == results[p]
             t == Append(s, [success |-> b, age |-> 0])
             g == Keyring!Recorded(h, b)
  <2>1. /\ health \in [Profiles -> Healths] /\ results \in [Profiles -> Seq(KeyResults)]
        /\ profile \in KeyTables /\ rest \in [Profiles -> Rests]
        /\ \A q \in Profiles : Judged(health[q], results[q])
    BY DEF KeyringInv, KeyringTypes, HealthKept, Healths
  <2>2. h \in Healths /\ s \in Seq(KeyResults) /\ Judged(h, s)
    BY <1>1, <2>1
  <2>3. g \in Healths /\ t \in Seq(KeyResults) /\ Judged(g, t)
    <3> HIDE DEF h, s
    <3>1. LET x == Append(s, [success |-> b, age |-> 0]) IN
            Keyring!Recorded(h, b) \in Healths /\ x \in Seq(KeyResults) /\ Judged(Keyring!Recorded(h, b), x)
      BY <2>2, JudgedOn
    <3> QED
      BY <3>1
  <2>4. profile' \in KeyTables
    <3>1. 0 \in Keyring!Ages
      BY AgesOfRecords
    <3> HIDE DEF p
    <3> QED
      BY <1>1, <1>4, <2>1, <3>1 DEF KeyTables
  <2>5. health' = [health EXCEPT ![p] = g] /\ results' = [results EXCEPT ![p] = t]
    BY <1>4
  <2> HIDE DEF p, h, s, t, g
  <2>6. health' \in [Profiles -> Healths] /\ results' \in [Profiles -> Seq(KeyResults)]
    BY <1>1, <2>1, <2>3, <2>5
  <2>7. \A q \in Profiles : Judged(health'[q], results'[q])
    BY <1>1, <2>1, <2>3, <2>5
  <2>8. HealthKept'
    BY <2>7 DEF HealthKept, Judged
  <2> QED
    BY <1>2, <2>1, <2>4, <2>6, <2>8 DEF KeyringInv, KeyringTypes, Healths
<1> QED
  BY <1>3, <1>4 DEF Keyring!Used

LEMMA CooledKey ==
    ASSUME Keyring!ProfilesAssumption, KeyringInv, NEW c \in Resolvers, Keyring!SetCooldown(c)
    PROVE  KeyringInv'
<1> DEFINE p == caller[c].key
           n == rest[p].failures + 1
           left == Keyring!Least(Base * Keyring!Powers[Keyring!Least(n, 9)], Keyring!Most(Base, MaxBackoff))
<1>1. p \in Profiles /\ rest \in [Profiles -> Rests]
  BY DEF KeyringInv, KeyringTypes, Keyring!SetCooldown
<1>2. n \in Nat \ {0} /\ n <= MaxRests
  BY <1>1 DEF Rests, Keyring!SetCooldown
<1>3. left \in 0..Keyring!Most(Base, MaxBackoff)
  <2> HIDE DEF n
  <2> QED
    BY <1>2, LongRests
<1>4. rest' \in [Profiles -> Rests]
  <2>1. rest' = [rest EXCEPT ![p] = [left |-> left, failures |-> n]]
    BY DEF Keyring!SetCooldown
  <2>2. n \in 0..MaxRests
    BY <1>2 DEF Keyring!ProfilesAssumption
  <2> HIDE DEF p, n, left
  <2> QED
    BY <1>1, <1>3, <2>1, <2>2 DEF Rests
<1>5. /\ caller' \in [Resolvers -> Resolving]
      /\ \A d \in Resolvers : /\ caller'[d].step = "list" => caller'[d].list \in KeyTables
                              /\ caller'[d].step \in {"profile", "failed"} => caller'[d].key \in Profiles
  BY DEF KeyringInv, KeyringTypes, Keyring!SetCooldown, Keyring!Idle, Resolving
<1>6. UNCHANGED <<profile, health, results>>
  BY DEF Keyring!SetCooldown
<1> QED
  BY <1>4, <1>5, <1>6, KeptAsIs DEF KeyringInv, KeyringTypes

LEMMA ReleasedKey ==
    ASSUME Keyring!ProfilesAssumption, KeyringInv, NEW c \in Resolvers, Keyring!Released(c)
    PROVE  KeyringInv'
<1>1. KeyringTypes'
  BY DEF KeyringInv, KeyringTypes, Keyring!Released, Keyring!Idle, Resolving
<1> QED
  BY <1>1, KeptAsIs DEF KeyringInv, Keyring!Released

LEMMA EditedKey ==
    ASSUME Keyring!ProfilesAssumption, KeyringInv, NEW p \in Profiles, NEW b \in BOOLEAN,
           Keyring!Update(p, b) \/ Keyring!Delete(p)
    PROVE  KeyringInv'
<1>1. Keyring!Gone \in [there : BOOLEAN, active : BOOLEAN, used : Keyring!Ages]
  BY AgesOfRecords DEF Keyring!Gone
<1>2. KeyringTypes'
  BY <1>1, ZenonT(30) DEF KeyringInv, KeyringTypes, KeyTables, Keyring!Update, Keyring!Delete
<1> QED
  BY <1>2, KeptAsIs DEF KeyringInv, Keyring!Update, Keyring!Delete

LEMMA EarlierTables ==
    ASSUME Keyring!ProfilesAssumption, NEW table \in KeyTables
    PROVE  Keyring!AllUsedEarlier(table) \in KeyTables
<1>1. \A x \in Keyring!Ages : Keyring!Older(x) \in Keyring!Ages
  BY AgesOfRecords DEF Keyring!Older
<1> QED
  BY <1>1 DEF Keyring!AllUsedEarlier, KeyTables

LEMMA KeysAge ==
    ASSUME Keyring!ProfilesAssumption, KeyringInv, Keyring!Tick
    PROVE  KeyringInv'
<1>1. /\ profile' = Keyring!AllUsedEarlier(profile)
      /\ rest' = [p \in Profiles |-> [rest[p] EXCEPT !.left = IF @ = 0 THEN 0 ELSE @ - 1]]
      /\ health' = [p \in Profiles |-> [health[p] EXCEPT !.records = Keyring!Aged(@)]]
      /\ caller' = [c \in Resolvers |-> IF caller[c].step # "list" THEN caller[c]
                                        ELSE [caller[c] EXCEPT !.list = Keyring!AllUsedEarlier(@)]]
      /\ results' = [p \in Profiles |-> Keyring!AllOlder(results[p])]
  BY DEF Keyring!Tick
<1>2. profile' \in KeyTables
  BY <1>1, EarlierTables DEF KeyringInv, KeyringTypes
<1>3. rest' \in [Profiles -> Rests]
  <2>1. Keyring!Most(Base, MaxBackoff) \in Nat
    BY DEF Keyring!Most, Keyring!ProfilesAssumption
  <2> DEFINE most == Keyring!Most(Base, MaxBackoff)
  <2>2. ASSUME NEW p \in Profiles
        PROVE  [rest[p] EXCEPT !.left = IF @ = 0 THEN 0 ELSE @ - 1] \in Rests
    <3>1. rest[p] \in [left : 0..most, failures : 0..MaxRests] /\ most \in Nat
      BY <2>1 DEF KeyringInv, KeyringTypes, Rests
    <3> HIDE DEF most
    <3>2. [rest[p] EXCEPT !.left = IF @ = 0 THEN 0 ELSE @ - 1] \in [left : 0..most, failures : 0..MaxRests]
      BY <3>1
    <3> QED
      BY <3>2 DEF most, Rests
  <2> QED
    BY <1>1, <2>2
<1>4. ASSUME NEW c \in Resolvers
      PROVE  /\ caller'[c] \in Resolving
             /\ caller'[c].step = "list" => caller'[c].list \in KeyTables
             /\ caller'[c].step \in {"profile", "failed"} => caller'[c].key \in Profiles
  <2>1. /\ caller[c] \in Resolving
        /\ caller[c].step = "list" => caller[c].list \in KeyTables
        /\ caller[c].step \in {"profile", "failed"} => caller[c].key \in Profiles
    BY DEF KeyringInv, KeyringTypes
  <2>2. CASE caller[c].step # "list"
    BY <1>1, <2>1, <2>2
  <2>3. CASE caller[c].step = "list"
    <3>1. caller'[c] = [caller[c] EXCEPT !.list = Keyring!AllUsedEarlier(@)]
      BY <1>1, <2>3
    <3>2. Keyring!AllUsedEarlier(caller[c].list) \in KeyTables
      BY <2>1, <2>3, EarlierTables
    <3> QED
      BY <2>1, <2>3, <3>1, <3>2 DEF Resolving
  <2> QED
    BY <2>2, <2>3
<1>5. ASSUME NEW p \in Profiles
      PROVE  health'[p] \in Healths /\ results'[p] \in Seq(KeyResults) /\ Judged(health'[p], results'[p])
  <2> DEFINE h == health[p]
             s == results[p]
  <2>1. h \in Healths /\ s \in Seq(KeyResults) /\ Judged(h, s)
    BY DEF KeyringInv, KeyringTypes, HealthKept, Healths
  <2>2. health'[p] = [h EXCEPT !.records = Keyring!Aged(@)] /\ results'[p] = Keyring!AllOlder(s)
    BY <1>1
  <2> HIDE DEF h, s
  <2>3. LET g == [h EXCEPT !.records = Keyring!Aged(@)] IN
          g \in Healths /\ Keyring!AllOlder(s) \in Seq(KeyResults) /\ Judged(g, Keyring!AllOlder(s))
    BY <2>1, JudgedOn
  <2> QED
    BY <2>2, <2>3
<1>6. health' \in [Profiles -> Healths] /\ results' \in [Profiles -> Seq(KeyResults)]
  <2>1. /\ health' = [p \in Profiles |-> health'[p]]
        /\ results' = [p \in Profiles |-> results'[p]]
    BY <1>1
  <2> QED
    BY <1>5, <2>1
<1>7. caller' \in [Resolvers -> Resolving]
  <2>1. caller' = [c \in Resolvers |-> caller'[c]]
    BY <1>1
  <2> QED
    BY <1>4, <2>1
<1>8. HealthKept'
  BY <1>5 DEF HealthKept, Judged
<1> QED
  BY <1>2, <1>3, <1>4, <1>6, <1>7, <1>8 DEF KeyringInv, KeyringTypes, Healths

LEMMA KeyringSteps ==
    ASSUME Keyring!ProfilesAssumption, KeyringInv, [Keyring!Next]_(Keyring!vars)
    PROVE  KeyringInv'
<1>1. CASE \E c \in Resolvers : \/ Keyring!Listed(c) \/ Keyring!Resolved(c)
                                \/ Keyring!SetCooldown(c) \/ Keyring!Released(c)
  BY <1>1, ListedKey, ResolvedKey, CooledKey, ReleasedKey
<1>2. CASE \E c \in Resolvers, p \in Profiles : Keyring!Selected(c, p)
  BY <1>2, SelectedKey
<1>3. CASE \E c \in Resolvers, b \in BOOLEAN : Keyring!Used(c, b)
  BY <1>3, UsedKey
<1>4. CASE \E p \in Profiles : Keyring!Delete(p) \/ \E b \in BOOLEAN : Keyring!Update(p, b)
  BY <1>4, EditedKey
<1>5. CASE Keyring!Tick
  BY <1>5, KeysAge
<1>6. CASE UNCHANGED Keyring!vars
  <2>1. KeyringTypes'
    BY <1>6 DEF Keyring!vars, KeyringInv, KeyringTypes
  <2> QED
    BY <1>6, <2>1, KeptAsIs DEF Keyring!vars, KeyringInv
<1> QED
  BY <1>1, <1>2, <1>3, <1>4, <1>5, <1>6 DEF Keyring!Next

LEMMA KeyringExact ==
    ASSUME Keyring!ProfilesAssumption, KeyringInv
    PROVE  Keyring!HealthExact
<1>1. Keyring!TypeOK
  BY AgesOfRecords DEF KeyringInv, KeyringTypes, KeyTables, Rests, Resolving, Keyring!TypeOK
<1>2. ASSUME NEW p \in Profiles
      PROVE  Keyring!Health(p) = Keyring!HealthOf([records |-> Keyring!Within(Keyring!Tally(results[p]), HealthWindow),
                                                   failures |-> Keyring!Trailing(results[p])])
  <2>1. health[p] \in [records : Records, failures : Nat] /\ Judged(health[p], results[p])
    BY DEF KeyringInv, KeyringTypes, HealthKept
  <2>2. [health[p] EXCEPT !.records = Keyring!Within(@, HealthWindow)] =
        [records |-> Keyring!Within(Keyring!Tally(results[p]), HealthWindow), failures |-> Keyring!Trailing(results[p])]
    BY <2>1 DEF Judged, InWindow
  <2> QED
    BY <2>2 DEF Keyring!Health
<1> QED
  BY <1>1, <1>2 DEF Keyring!HealthExact

\* Whatever is pruned, listed late, deleted or cooled down in between, the health of a key profile
\* is that of all its results: disabled by the failures since its last success, otherwise judged
\* by those within the window.  (health.ts: recordResult, getHealth)
THEOREM HealthIsExact == Keyring!ProfilesAssumption => (Keyring!Spec => []Keyring!HealthExact)
<1> SUFFICES ASSUME Keyring!ProfilesAssumption
             PROVE  Keyring!Spec => []Keyring!HealthExact
  OBVIOUS
<1>1. Keyring!Init => KeyringInv
  BY KeyringStart
<1>2. KeyringInv /\ [Keyring!Next]_(Keyring!vars) => KeyringInv'
  BY KeyringSteps
<1>3. KeyringInv => Keyring!HealthExact
  BY KeyringExact
<1> QED
  BY <1>1, <1>2, <1>3, PTL DEF Keyring!Spec

-----------------------------------------------------------------------------
(* Hooks.                                                                  *)

CONSTANTS HookIds, HookPriority, HookKeys, SwitchedOff, Triggers
VARIABLES handlers, taps, run
Hook == INSTANCE Hooks WITH Hooks <- HookIds, PriorityOf <- HookPriority, KeysOf <- HookKeys,
                            Disabled <- SwitchedOff

LEMMA SameNumber ==
    ASSUME NEW A, NEW B, IsFiniteSet(A), NEW f \in [A -> B],
           \A a, c \in A : f[a] = f[c] => a = c, \A b \in B : \E a \in A : f[a] = b
    PROVE  Cardinality(A) = Cardinality(B)
<1>1. f \in Bijection(A, B)
  BY DEF Bijection, Injection, Surjection, IsInjective
<1>2. ExistsBijection(A, B)
  BY <1>1 DEF ExistsBijection
<1> QED
  BY <1>2, FS_Bijection

LEMMA HookNumbers == /\ \A S : Hook!Cardinality(S) = Cardinality(S)
                     /\ \A s, x : Hook!Times(s, x) = Occurs(s, x)
<1>1. \A S : Hook!Cardinality(S) = Cardinality(S)
  BY DEF Hook!Cardinality, Cardinality
<1> QED
  BY <1>1 DEF Hook!Times, Occurs

\* The n-th of K in an order R is the one that has n - 1 before it: each has a place
\* of its own, and no place is left out.
Ranked(K, R, n) == CHOOSE j \in K : Cardinality({i \in K : <<i, j>> \in R}) = n - 1

LEMMA EachRank ==
    ASSUME NEW K, IsFiniteSet(K), NEW R,
           \A i \in K : <<i, i>> \notin R,
           \A i, j, k \in K : <<i, j>> \in R /\ <<j, k>> \in R => <<i, k>> \in R,
           \A i, j \in K : i # j => <<i, j>> \in R \/ <<j, i>> \in R
    PROVE  /\ Cardinality(K) \in Nat
           /\ \A n \in 1..Cardinality(K) : Ranked(K, R, n) \in K
           /\ \A j \in K : \E n \in 1..Cardinality(K) : Ranked(K, R, n) = j
           /\ \A m, n \in 1..Cardinality(K) : m < n => <<Ranked(K, R, m), Ranked(K, R, n)>> \in R
<1> DEFINE c == Cardinality(K)
           Below(j) == {i \in K : <<i, j>> \in R}
           Height(j) == Cardinality(Below(j))
           P(n) == Ranked(K, R, n)
<1>1. IsFiniteSet(K) /\ c \in Nat
  BY FS_CardinalityType
<1>2. \A j \in K : IsFiniteSet(Below(j)) /\ Height(j) \in Nat
  <2> TAKE j \in K
  <2>1. Below(j) \in SUBSET K
    OBVIOUS
  <2> HIDE DEF Below
  <2> QED
    BY <1>1, <2>1, FS_Subset, FS_CardinalityType
<1>3. \A i, j \in K : <<i, j>> \in R => Height(i) < Height(j)
  <2> TAKE i, j \in K
  <2> HAVE <<i, j>> \in R
  <2>1. Below(i) \in SUBSET Below(j) /\ i \in Below(j) /\ i \notin Below(i)
    BY <1>1
  <2>2. IsFiniteSet(Below(j)) /\ Height(i) \in Nat /\ Height(j) \in Nat
    BY <1>2
  <2> DEFINE a == Below(i)
             b == Below(j)
  <2>3. Cardinality(a) <= Cardinality(b) /\ (Cardinality(b) = Cardinality(a) => b = a)
    <3>1. IsFiniteSet(b) /\ a \in SUBSET b
      BY <2>1, <2>2
    <3> HIDE DEF a, b
    <3> QED
      BY <3>1, FS_Subset
  <2>4. Height(i) <= Height(j) /\ Height(i) # Height(j)
    BY <2>1, <2>3
  <2> HIDE DEF Height, Below
  <2> QED
    BY <2>2, <2>4
<1>4. \A i, j \in K : i # j => Height(i) # Height(j)
  <2> TAKE i, j \in K
  <2> HAVE i # j
  <2>1. <<i, j>> \in R \/ <<j, i>> \in R
    BY <1>1
  <2>2. Height(i) < Height(j) \/ Height(j) < Height(i)
    BY <1>3, <2>1
  <2>3. Height(i) \in Nat /\ Height(j) \in Nat
    BY <1>2
  <2> HIDE DEF Height
  <2> QED
    BY <2>2, <2>3
<1>5. \A j \in K : Height(j) + 1 \in 1..c
  <2> TAKE j \in K
  <2>1. Below(j) \in SUBSET (K \ {j})
    BY <1>1
  <2>2. IsFiniteSet(K \ {j}) /\ Cardinality(K \ {j}) = c - 1
    BY <1>1, FS_RemoveElement
  <2> DEFINE b == Below(j)
  <2>3. Cardinality(b) <= c - 1
    <3>1. b \in SUBSET (K \ {j})
      BY <2>1
    <3> HIDE DEF b, c
    <3> QED
      BY <2>2, <3>1, FS_Subset
  <2>4. Height(j) \in Nat /\ Height(j) <= c - 1
    BY <1>2, <2>3
  <2> HIDE DEF Height, Below, b, c
  <2> QED
    BY <1>1, <2>4
<1> DEFINE f == [j \in K |-> Height(j) + 1]
<1>6. \A n \in 1..c : \E j \in K : Height(j) = n - 1
  <2>1. f \in [K -> 1..c] /\ \A i, j \in K : f[i] = f[j] => i = j
    <3>1. \A j \in K : f[j] = Height(j) + 1
      OBVIOUS
    <3>2. f \in [K -> 1..c]
      BY <1>5
    <3>3. ASSUME NEW i \in K, NEW j \in K, f[i] = f[j]
          PROVE  i = j
      <4>1. Height(i) + 1 = Height(j) + 1 /\ Height(i) \in Nat /\ Height(j) \in Nat
        BY <1>2, <3>1, <3>3
      <4> HIDE DEF Height
      <4>2. Height(i) = Height(j)
        BY <4>1
      <4> QED
        BY <1>4, <4>2
    <3> HIDE DEF f
    <3> QED
      BY <3>2, <3>3
  <2>2. f \in Injection(K, 1..c)
    <3> HIDE DEF f
    <3> QED
      BY <2>1 DEF Injection, IsInjective
  <2>3. IsFiniteSet(1..c) /\ Cardinality(1..c) = c
    <3>1. 1 \in Int /\ c \in Int /\ (IF 1 > c THEN 0 ELSE c - 1 + 1) = c
      BY <1>1
    <3> HIDE DEF c
    <3> QED
      BY <3>1, FS_Interval
  <2>4. f \in Surjection(K, 1..c)
    <3> HIDE DEF f
    <3> QED
      BY <2>2, <2>3, FS_Injection
  <2>5. \A n \in 1..c : \E j \in K : f[j] = n
    <3> HIDE DEF f
    <3> QED
      BY <2>4 DEF Surjection
  <2> TAKE n \in 1..c
  <2>6. PICK j \in K : f[j] = n
    BY <2>5
  <2>7. Height(j) \in Nat /\ Height(j) + 1 = n
    BY <1>2, <2>6
  <2>8. Height(j) = n - 1
    <3> HIDE DEF Height
    <3> QED
      BY <2>7
  <2> QED
    BY <2>8
<1>7. \A n \in 1..c : P(n) \in K /\ Height(P(n)) = n - 1
  <2>1. \A n : P(n) = CHOOSE j \in K : Height(j) = n - 1
    BY DEF Ranked
  <2> HIDE DEF P, Height
  <2> QED
    BY <1>6, <2>1
<1>8. \A j \in K : \E n \in 1..c : P(n) = j
  <2> TAKE j \in K
  <2> DEFINE n == Height(j) + 1
  <2>1. n \in 1..c /\ n - 1 = Height(j)
    <3>1. Height(j) \in Nat /\ Height(j) + 1 \in 1..c
      BY <1>2, <1>5
    <3> HIDE DEF Height
    <3> QED
      BY <3>1
  <2>2. P(n) \in K /\ Height(P(n)) = Height(j)
    <3> HIDE DEF Height, P, n
    <3> QED
      BY <1>7, <2>1
  <2>3. P(n) = j
    <3> HIDE DEF Height, P, n
    <3> QED
      BY <1>4, <2>2
  <2> QED
    BY <2>1, <2>3
<1>9. \A m, n \in 1..c : m < n => <<P(m), P(n)>> \in R
  <2> TAKE m, n \in 1..c
  <2> HAVE m < n
  <2>1. P(m) \in K /\ P(n) \in K /\ Height(P(m)) = m - 1 /\ Height(P(n)) = n - 1
    <3> HIDE DEF P, Height
    <3> QED
      BY <1>7
  <2>2. P(m) # P(n) /\ ~(Height(P(n)) < Height(P(m)))
    <3> HIDE DEF P, Height
    <3> QED
      BY <1>1, <2>1
  <2>3. <<P(m), P(n)>> \in R \/ <<P(n), P(m)>> \in R
    <3> HIDE DEF P, Height
    <3> QED
      BY <1>1, <2>1, <2>2
  <2> HIDE DEF P, Height
  <2> QED
    BY <1>3, <2>1, <2>2, <2>3
<1> QED
  BY <1>1, <1>7, <1>8, <1>9

\* Sorting takes every place once, in the order of the keys.
LEMMA EachPlace ==
    ASSUME NEW S, NEW s \in Seq(S), NEW K \in SUBSET DOMAIN s, NEW key \in [DOMAIN s -> Int]
    PROVE  /\ IsFiniteSet(K) /\ Cardinality(K) \in Nat
           /\ \A n \in 1..Cardinality(K) : Hook!Place(K, key, n) \in K
           /\ \A j \in K : \E n \in 1..Cardinality(K) : Hook!Place(K, key, n) = j
           /\ \A m, n \in 1..Cardinality(K) :
                m < n => Hook!Before(key, Hook!Place(K, key, m), Hook!Place(K, key, n))
<1> DEFINE R == {p \in K \X K : Hook!Before(key, p[1], p[2])}
<1>1. IsFiniteSet(K) /\ \A j \in K : j \in Nat /\ key[j] \in Int
  <2>1. Len(s) \in Nat /\ DOMAIN s = 1..Len(s)
    OBVIOUS
  <2>2. IsFiniteSet(1..Len(s))
    BY <2>1, PlacesFinite
  <2> QED
    BY <2>1, <2>2, FS_Subset
<1>2. \A i, j \in K : <<i, j>> \in R <=> Hook!Before(key, i, j)
  OBVIOUS
<1>3. \A n : Hook!Place(K, key, n) = Ranked(K, R, n)
  <2>1. \A j \in K : {i \in K : <<i, j>> \in R} = {i \in K : Hook!Before(key, i, j)}
    BY <1>2
  <2> HIDE DEF R
  <2> QED
    BY <2>1, HookNumbers DEF Hook!Place, Ranked
<1> HIDE DEF R
<1>4. /\ \A i \in K : <<i, i>> \notin R
      /\ \A i, j, k \in K : <<i, j>> \in R /\ <<j, k>> \in R => <<i, k>> \in R
      /\ \A i, j \in K : i # j => <<i, j>> \in R \/ <<j, i>> \in R
  <2>1. \A i, j \in K : <<i, j>> \in R <=> key[i] < key[j] \/ (key[i] = key[j] /\ i < j)
    BY <1>2 DEF Hook!Before
  <2>2. \A i \in K : <<i, i>> \notin R
    BY <1>1, <2>1
  <2>3. ASSUME NEW i \in K, NEW j \in K, NEW k \in K, <<i, j>> \in R, <<j, k>> \in R
        PROVE  <<i, k>> \in R
    <3>1. /\ key[i] < key[j] \/ (key[i] = key[j] /\ i < j)
          /\ key[j] < key[k] \/ (key[j] = key[k] /\ j < k)
      BY <2>1, <2>3
    <3>2. /\ i \in Nat /\ j \in Nat /\ k \in Nat
          /\ key[i] \in Int /\ key[j] \in Int /\ key[k] \in Int
      BY <1>1
    <3>3. key[i] < key[k] \/ (key[i] = key[k] /\ i < k)
      BY <3>1, <3>2
    <3> QED
      BY <2>1, <3>3
  <2>4. ASSUME NEW i \in K, NEW j \in K, i # j
        PROVE  <<i, j>> \in R \/ <<j, i>> \in R
    BY <1>1, <2>1, <2>4
  <2> QED
    BY <2>2, <2>3, <2>4
<1>5. /\ Cardinality(K) \in Nat
      /\ \A n \in 1..Cardinality(K) : Ranked(K, R, n) \in K
      /\ \A j \in K : \E n \in 1..Cardinality(K) : Ranked(K, R, n) = j
      /\ \A m, n \in 1..Cardinality(K) : m < n => <<Ranked(K, R, m), Ranked(K, R, n)>> \in R
  BY <1>1, <1>4, EachRank
<1> QED
  BY <1>1, <1>2, <1>3, <1>5

NoRepeats(s) == \A i, j \in DOMAIN s : s[i] = s[j] => i = j

\* t is the places K of s, in the order of their keys.
SortOf(t, S, s, K, key) ==
    /\ t \in Seq(S)
    /\ \A x : Occurs(t, x) = Cardinality({i \in K : s[i] = x})
    /\ NoRepeats(s) => NoRepeats(t)
    /\ \A n \in DOMAIN t : t[n] \in {s[i] : i \in K}
    /\ \A m, n \in DOMAIN t : m < n =>
         \E i, j \in K : /\ Hook!Before(key, i, j) /\ t[m] = s[i]
                         /\ t[n] = s[j]

\* Each occurrence at a place that is chosen is an occurrence in the sorted list.
LEMMA SortedList ==
    ASSUME NEW S, NEW s \in Seq(S), NEW K \in SUBSET DOMAIN s, NEW key \in [DOMAIN s -> Int]
    PROVE  SortOf(Hook!Sorted(s, K, key), S, s, K, key)
<1> DEFINE c == Cardinality(K)
           P(n) == Hook!Place(K, key, n)
           t == Hook!Sorted(s, K, key)
<1>1. /\ IsFiniteSet(K) /\ c \in Nat
      /\ \A n \in 1..c : P(n) \in K
      /\ \A j \in K : \E n \in 1..c : P(n) = j
      /\ \A m, n \in 1..c : m < n => Hook!Before(key, P(m), P(n))
  BY EachPlace
<1>2. t = [n \in 1..c |-> s[P(n)]]
  BY HookNumbers DEF Hook!Sorted
<1>3. \A m, n \in 1..c : P(m) = P(n) => m = n
  <2> TAKE m, n \in 1..c
  <2> HAVE P(m) = P(n)
  <2>1. m \in Nat /\ n \in Nat
    OBVIOUS
  <2>2. \A j : ~Hook!Before(key, j, j) \/ j \notin K
    <3>1. \A j \in K : j \in Nat /\ key[j] \in Int
      OBVIOUS
    <3> QED
      BY <3>1 DEF Hook!Before
  <2>3. ~(m < n) /\ ~(n < m)
    BY <1>1, <2>2
  <2> QED
    BY <2>1, <2>3
<1>4. \A i \in K : s[i] \in S
  OBVIOUS
<1>5. t \in Seq(S) /\ DOMAIN t = 1..c /\ \A n \in 1..c : t[n] = s[P(n)] /\ t[n] \in {s[i] : i \in K}
  <2> HIDE DEF t, P, c
  <2>1. \A n \in 1..c : s[P(n)] \in S
    BY <1>1, <1>4
  <2>2. t \in Seq(S)
    BY <1>1, <1>2, <2>1, SeqDef
  <2> QED
    BY <1>1, <1>2, <2>2
<1>6. ASSUME NEW x
      PROVE  Occurs(t, x) = Cardinality({i \in K : s[i] = x})
  <2> DEFINE A == {n \in DOMAIN t : t[n] = x}
             B == {i \in K : s[i] = x}
             f == [n \in A |-> P(n)]
  <2>1. IsFiniteSet(A)
    <3>1. IsFiniteSet(1..c)
      BY <1>1, PlacesFinite
    <3>2. A \in SUBSET (1..c)
      BY <1>5
    <3> HIDE DEF A
    <3> QED
      BY <3>1, <3>2, FS_Subset
  <2>2. f \in [A -> B]
    <3> HIDE DEF P
    <3> QED
      BY <1>1, <1>5
  <2>3. \A a, b \in A : f[a] = f[b] => a = b
    <3> HIDE DEF P, t
    <3> QED
      BY <1>3, <1>5
  <2>4. \A b \in B : \E a \in A : f[a] = b
    <3> HIDE DEF P, t
    <3> QED
      BY <1>1, <1>5
  <2>5. Cardinality(A) = Cardinality(B)
    <3> HIDE DEF A, B, f
    <3> QED
      BY <2>1, <2>2, <2>3, <2>4, SameNumber
  <2> QED
    BY <2>5 DEF Occurs
<1>7. NoRepeats(s) => NoRepeats(t)
  <2> HIDE DEF P, t
  <2> QED
    BY <1>1, <1>3, <1>5 DEF NoRepeats
<1>8. \A m, n \in DOMAIN t : m < n => \E i, j \in K : Hook!Before(key, i, j) /\ t[m] = s[i] /\ t[n] = s[j]
  <2> HIDE DEF P, t
  <2> QED
    BY <1>1, <1>5
<1>9. \A n \in DOMAIN t : t[n] \in {s[i] : i \in K}
  BY <1>5
<1>10. t \in Seq(S) /\ \A x : Occurs(t, x) = Cardinality({i \in K : s[i] = x})
  BY <1>5, <1>6
<1>11. SortOf(t, S, s, K, key)
  <2> HIDE DEF t
  <2> QED
    BY <1>7, <1>8, <1>9, <1>10 DEF SortOf
<1> QED
  BY <1>11

Events == {"type", "action"}
HandlersOK == /\ handlers \in [Events -> Seq(HookIds)] /\ taps \in Seq(HookIds)
              /\ NoRepeats(handlers["type"]) /\ NoRepeats(handlers["action"]) /\ NoRepeats(taps)

\* The order that the registry's trigger and a plugin's hook keep.
InTurn(mode, s) ==
    mode \in Hook!OfPlugins \cup {"registry"} =>
      \A i, j \in DOMAIN s : i < j => IF mode \in Hook!OfPlugins THEN HookPriority[s[i]] >= HookPriority[s[j]]
                                                                 ELSE HookPriority[s[i]] <= HookPriority[s[j]]
Called(s, meant) == \A x \in HookIds : Occurs(s, x) = Cardinality({m \in meant : m[1] = x})

LEMMA CollectedTaps ==
    ASSUME Hook!HooksAssumption, HandlersOK, NEW mode \in Hook!OfPlugins
    PROVE  /\ Hook!Collected(mode) \in Seq(HookIds) /\ Called(Hook!Collected(mode), Hook!Meant(mode))
           /\ InTurn(mode, Hook!Collected(mode))
<1> DEFINE K == DOMAIN taps
           key == Hook!Falling(taps)
           t == Hook!Sorted(taps, K, key)
<1>1. Hook!Collected(mode) = t
  <2>1. mode # "registry"
    BY DEF Hook!OfPlugins
  <2> QED
    BY <2>1 DEF Hook!Collected
<1>2. /\ taps \in Seq(HookIds) /\ NoRepeats(taps) /\ HookPriority \in [HookIds -> Nat]
      /\ \A i \in DOMAIN taps : taps[i] \in HookIds
  BY DEF HandlersOK, Hook!HooksAssumption
<1>3. key \in [DOMAIN taps -> Int] /\ \A i \in DOMAIN taps : key[i] = -HookPriority[taps[i]]
  BY <1>2 DEF Hook!Falling
<1>4. /\ t \in Seq(HookIds)
      /\ \A x : Occurs(t, x) = Cardinality({i \in K : taps[i] = x})
      /\ \A m, n \in DOMAIN t : m < n => \E i, j \in K : Hook!Before(key, i, j) /\ t[m] = taps[i] /\ t[n] = taps[j]
  <2>1. K \in SUBSET DOMAIN taps
    OBVIOUS
  <2>2. SortOf(t, HookIds, taps, K, key)
    <3> HIDE DEF K, key
    <3> QED
      BY <1>2, <1>3, <2>1, SortedList
  <2> HIDE DEF t, K, key
  <2> QED
    BY <2>2 DEF SortOf
<1>5. ASSUME NEW x \in HookIds
      PROVE  Occurs(t, x) = Cardinality({m \in Hook!Meant(mode) : m[1] = x})
  <2> DEFINE A == {i \in K : taps[i] = x}
             B == {m \in Hook!Meant(mode) : m[1] = x}
             f == [i \in A |-> <<taps[i], "type">>]
  <2>1. IsFiniteSet(A)
    <3>1. Len(taps) \in Nat /\ A \in SUBSET (1..Len(taps))
      BY <1>2
    <3>2. IsFiniteSet(1..Len(taps))
      BY <3>1, PlacesFinite
    <3> HIDE DEF A
    <3> QED
      BY <3>1, <3>2, FS_Subset
  <2>2. \A m : m \in B <=> m \in HookIds \X Events /\ m[2] = "type" /\ m[1] \in {taps[i] : i \in DOMAIN taps} /\ m[1] = x
    BY DEF Hook!Meant, Hook!Range, HandlersOK, Events
  <2>3. f \in [A -> B]
    <3>1. \A i \in A : <<taps[i], "type">> \in B
      BY <1>2, <2>2 DEF Events
    <3> HIDE DEF A, B
    <3> QED
      BY <3>1
  <2>4. \A a, b \in A : f[a] = f[b] => a = b
    BY <1>2 DEF NoRepeats
  <2>5. \A b \in B : \E a \in A : f[a] = b
    <3> TAKE b \in B
    <3>1. b = <<x, "type">> /\ x \in {taps[i] : i \in DOMAIN taps}
      BY <2>2
    <3>2. PICK i \in DOMAIN taps : taps[i] = x
      BY <3>1
    <3>3. i \in A /\ f[i] = <<x, "type">>
      BY <3>2
    <3> QED
      BY <3>1, <3>3
  <2>6. Cardinality(A) = Cardinality(B)
    <3> HIDE DEF A, B, f
    <3> QED
      BY <2>1, <2>3, <2>4, <2>5, SameNumber
  <2> QED
    BY <1>4, <2>6
<1>6. InTurn(mode, t)
  <2>1. ASSUME NEW m \in DOMAIN t, NEW n \in DOMAIN t, m < n
        PROVE  HookPriority[t[m]] >= HookPriority[t[n]]
    <3>1. PICK i, j \in K : Hook!Before(key, i, j) /\ t[m] = taps[i] /\ t[n] = taps[j]
      BY <1>4, <2>1
    <3>2. key[i] <= key[j] /\ HookPriority[taps[i]] \in Nat /\ HookPriority[taps[j]] \in Nat
      BY <1>2, <1>3, <3>1 DEF Hook!Before
    <3> HIDE DEF t, key
    <3> QED
      BY <1>3, <3>1, <3>2
  <2> HIDE DEF t
  <2> QED
    BY <2>1 DEF InTurn
<1> HIDE DEF t
<1>7. Called(t, Hook!Meant(mode))
  BY <1>5 DEF Called
<1> QED
  BY <1>1, <1>4, <1>6, <1>7

LEMMA CollectedHandlers ==
    ASSUME Hook!HooksAssumption, HandlersOK, NEW mode \in Hook!OfRegistry
    PROVE  /\ Hook!Collected(mode) \in Seq(HookIds) /\ Called(Hook!Collected(mode), Hook!Meant(mode))
           /\ InTurn(mode, Hook!Collected(mode))
<1> DEFINE first == handlers["type"]
           second == handlers["action"]
           both == first \o second
           K == Hook!Enabled(both)
           key == IF mode = "registry" THEN Hook!Rising(both) ELSE Hook!AsListed(both)
           t == Hook!Sorted(both, K, key)
<1>1. mode \notin Hook!OfPlugins
  BY DEF Hook!OfRegistry, Hook!OfPlugins, Hook!Timed
<1>2. Hook!Collected(mode) = t
  BY <1>1 DEF Hook!Collected
<1>3. /\ first \in Seq(HookIds) /\ second \in Seq(HookIds) /\ NoRepeats(first) /\ NoRepeats(second)
      /\ HookPriority \in [HookIds -> Nat]
  BY DEF HandlersOK, Hook!HooksAssumption, Events
<1> HIDE DEF first, second
<1>4. /\ both \in Seq(HookIds) /\ Len(first) \in Nat /\ Len(second) \in Nat
      /\ DOMAIN both = 1..(Len(first) + Len(second))
      /\ \A i \in DOMAIN both : /\ both[i] \in HookIds
                                /\ i <= Len(first) => i \in DOMAIN first /\ both[i] = first[i]
                                /\ i > Len(first) => /\ i - Len(first) \in DOMAIN second
                                                     /\ both[i] = second[i - Len(first)]
  <2>1. both \in Seq(HookIds)
    BY <1>3
  <2>2. /\ Len(first) \in Nat /\ Len(second) \in Nat /\ DOMAIN first = 1..Len(first) /\ DOMAIN second = 1..Len(second)
        /\ DOMAIN both = 1..(Len(first) + Len(second))
        /\ \A i \in DOMAIN both : both[i] = IF i <= Len(first) THEN first[i] ELSE second[i - Len(first)]
    BY <1>3
  <2>3. \A i \in DOMAIN both : both[i] \in HookIds
    BY <2>1
  <2> HIDE DEF both
  <2> QED
    BY <2>1, <2>2, <2>3
<1>5. /\ \A i \in DOMAIN first : i \in DOMAIN both /\ both[i] = first[i]
      /\ \A i \in DOMAIN second : i + Len(first) \in DOMAIN both /\ both[i + Len(first)] = second[i] /\ i + Len(first) > Len(first)
  BY <1>3, <1>4
<1> HIDE DEF both
<1>6. key \in [DOMAIN both -> Int] /\ (mode = "registry" => \A i \in DOMAIN both : key[i] = HookPriority[both[i]])
  <2>1. Hook!Rising(both) \in [DOMAIN both -> Int] /\ \A i \in DOMAIN both : Hook!Rising(both)[i] = HookPriority[both[i]]
    BY <1>3, <1>4 DEF Hook!Rising
  <2>2. Hook!AsListed(both) \in [DOMAIN both -> Int]
    BY <1>4 DEF Hook!AsListed
  <2> QED
    BY <2>1, <2>2
<1>7. K \in SUBSET DOMAIN both /\ \A i : i \in K <=> i \in DOMAIN both /\ both[i] \notin SwitchedOff
  BY DEF Hook!Enabled
<1> HIDE DEF K, key
<1>8. /\ t \in Seq(HookIds)
      /\ \A x : Occurs(t, x) = Cardinality({i \in K : both[i] = x})
      /\ \A m, n \in DOMAIN t : m < n => \E i, j \in K : Hook!Before(key, i, j) /\ t[m] = both[i] /\ t[n] = both[j]
  <2>1. SortOf(t, HookIds, both, K, key)
    BY <1>4, <1>6, <1>7, SortedList
  <2> HIDE DEF t
  <2> QED
    BY <2>1 DEF SortOf
<1>9. ASSUME NEW x \in HookIds
      PROVE  Occurs(t, x) = Cardinality({m \in Hook!Meant(mode) : m[1] = x})
  <2> DEFINE A == {i \in K : both[i] = x}
             B == {m \in Hook!Meant(mode) : m[1] = x}
             Of(i) == IF i <= Len(first) THEN "type" ELSE "action"
             f == [i \in A |-> <<both[i], Of(i)>>]
  <2>1. IsFiniteSet(A)
    <3>1. Len(both) \in Nat /\ A \in SUBSET (1..Len(both))
      BY <1>4, <1>7
    <3>2. IsFiniteSet(1..Len(both))
      BY <3>1, PlacesFinite
    <3> HIDE DEF A
    <3> QED
      BY <3>1, <3>2, FS_Subset
  <2>2. \A m : m \in B <=> /\ m \in HookIds \X Events /\ m[1] = x /\ x \notin SwitchedOff
                           /\ m[2] = "type" => \E i \in DOMAIN first : first[i] = x
                           /\ m[2] = "action" => \E i \in DOMAIN second : second[i] = x
    <3>1. DOMAIN handlers = Events
      BY DEF HandlersOK
    <3>2. Hook!Meant(mode) = {m \in HookIds \X Events : m[1] \in Hook!Range(handlers[m[2]]) /\ m[1] \notin SwitchedOff}
      BY <1>1, <3>1 DEF Hook!Meant
    <3>3. \A m \in HookIds \X Events : m[2] = "type" \/ m[2] = "action"
      BY DEF Events
    <3>4. /\ \A y : y \in Hook!Range(handlers["type"]) <=> \E i \in DOMAIN first : first[i] = y
          /\ \A y : y \in Hook!Range(handlers["action"]) <=> \E i \in DOMAIN second : second[i] = y
      BY DEF Hook!Range, first, second
    <3> QED
      BY <3>2, <3>3, <3>4
  <2>3. f \in [A -> B]
    <3>1. ASSUME NEW i \in A
          PROVE  <<both[i], Of(i)>> \in B
      <4>1. both[i] = x /\ x \notin SwitchedOff /\ i \in DOMAIN both
        BY <1>7
      <4>2. CASE i <= Len(first)
        BY <1>4, <2>2, <4>1, <4>2 DEF Events
      <4>3. CASE i > Len(first)
        BY <1>4, <2>2, <4>1, <4>3 DEF Events
      <4> QED
        BY <1>4, <4>1, <4>2, <4>3
    <3> HIDE DEF A, B, Of
    <3> QED
      BY <3>1
  <2>4. ASSUME NEW a \in A, NEW b \in A, f[a] = f[b]
        PROVE  a = b
    <3>1. both[a] = x /\ both[b] = x /\ Of(a) = Of(b) /\ a \in DOMAIN both /\ b \in DOMAIN both
      BY <1>7, <2>4
    <3>2. CASE a <= Len(first)
      <4>1. b <= Len(first)
        BY <1>4, <3>1, <3>2
      <4> QED
        BY <1>3, <1>4, <3>1, <3>2, <4>1 DEF NoRepeats
    <3>3. CASE a > Len(first)
      <4>1. b > Len(first)
        BY <1>4, <3>1, <3>3
      <4>2. a - Len(first) = b - Len(first)
        BY <1>3, <1>4, <3>1, <3>3, <4>1 DEF NoRepeats
      <4> QED
        BY <1>4, <3>1, <4>2
    <3> QED
      BY <1>4, <3>1, <3>2, <3>3
  <2>5. ASSUME NEW b \in B
        PROVE  \E a \in A : f[a] = b
    <3>1. b \in HookIds \X Events /\ b[1] = x /\ x \notin SwitchedOff
      BY <2>2
    <3>2. CASE b[2] = "type"
      <4>1. PICK i \in DOMAIN first : first[i] = x
        BY <2>2, <3>2
      <4>2. i \in A /\ Of(i) = "type"
        BY <1>3, <1>5, <1>7, <3>1, <4>1
      <4>3. f[i] = <<x, "type">>
        BY <4>2
      <4> QED
        BY <3>1, <3>2, <4>2, <4>3
    <3>3. CASE b[2] = "action"
      <4>1. PICK i \in DOMAIN second : second[i] = x
        BY <2>2, <3>3
      <4>2. i + Len(first) \in A /\ Of(i + Len(first)) = "action"
        BY <1>3, <1>4, <1>5, <1>7, <3>1, <4>1
      <4>3. f[i + Len(first)] = <<x, "action">>
        BY <4>2
      <4> QED
        BY <3>1, <3>3, <4>2, <4>3
    <3> QED
      BY <3>1, <3>2, <3>3 DEF Events
  <2>6. Cardinality(A) = Cardinality(B)
    <3> HIDE DEF A, B, f
    <3> QED
      BY <2>1, <2>3, <2>4, <2>5, SameNumber
  <2> QED
    BY <1>8, <2>6
<1>10. InTurn(mode, t)
  <2>1. ASSUME mode = "registry", NEW m \in DOMAIN t, NEW n \in DOMAIN t, m < n
        PROVE  HookPriority[t[m]] <= HookPriority[t[n]]
    <3>1. PICK i, j \in K : Hook!Before(key, i, j) /\ t[m] = both[i] /\ t[n] = both[j]
      BY <1>8, <2>1
    <3>2. key[i] <= key[j] /\ key[i] = HookPriority[both[i]] /\ key[j] = HookPriority[both[j]]
      BY <1>6, <1>7, <2>1, <3>1 DEF Hook!Before
    <3> HIDE DEF t
    <3> QED
      BY <3>1, <3>2
  <2> HIDE DEF t
  <2> QED
    BY <1>1, <2>1 DEF InTurn
<1> HIDE DEF t
<1>11. Called(t, Hook!Meant(mode))
  BY <1>9 DEF Called
<1> QED
  BY <1>2, <1>8, <1>10, <1>11

LEMMA OneMoves ==
    ASSUME NEW S, NEW s \in Seq(S), NEW q \in Seq(S)
    PROVE  /\ s \o q \in Seq(S) /\ <<>> \o q = q /\ s \o <<>> = s
           /\ q # <<>> => /\ Head(q) \in S /\ Tail(q) \in Seq(S)
                          /\ Append(s, Head(q)) \in Seq(S)
                          /\ Append(s, Head(q)) \o Tail(q) = s \o q
<1>1. s \o q \in Seq(S) /\ <<>> \o q = q /\ s \o <<>> = s
  BY EmptySeq, ConcatProperties, ConcatEmptySeq, Zenon
<1>2. ASSUME q # <<>>
      PROVE  /\ Head(q) \in S /\ Tail(q) \in Seq(S) /\ Append(s, Head(q)) \in Seq(S)
             /\ Append(s, Head(q)) \o Tail(q) = s \o q
  <2>1. /\ Head(q) \in S /\ Tail(q) \in Seq(S) /\ Append(s, Head(q)) \in Seq(S)
        /\ Len(q) \in Nat /\ Len(q) > 0 /\ Len(s) \in Nat /\ Len(Tail(q)) = Len(q) - 1
        /\ Head(q) = q[1] /\ \A i \in 1..(Len(q) - 1) : Tail(q)[i] = q[i + 1]
    BY <1>2
  <2> DEFINE a == Append(s, Head(q)) \o Tail(q)
             b == s \o q
  <2>2. a \in Seq(S) /\ b \in Seq(S) /\ Len(a) = Len(b) /\ Len(b) = Len(s) + Len(q)
    BY <2>1
  <2>3. ASSUME NEW i \in 1..Len(b)
        PROVE  a[i] = b[i]
    <3>1. CASE i <= Len(s)
      BY <2>1, <2>2, <3>1
    <3>2. CASE i = Len(s) + 1
      BY <2>1, <2>2, <3>2
    <3>3. CASE i > Len(s) + 1
      <4>1. i - (Len(s) + 1) \in 1..(Len(q) - 1) /\ (i - (Len(s) + 1)) + 1 = i - Len(s)
        BY <2>1, <2>2, <3>3
      <4>2. a[i] = Tail(q)[i - (Len(s) + 1)] /\ b[i] = q[i - Len(s)]
        BY <2>1, <2>2, <3>3
      <4> QED
        BY <2>1, <4>1, <4>2
    <3> QED
      BY <2>1, <2>2, <3>1, <3>2, <3>3
  <2>4. a = b
    <3> HIDE DEF a, b
    <3> QED
      BY <2>2, <2>3, SeqEqual
  <2> QED
    BY <2>1, <2>4
<1> QED
  BY <1>1, <1>2

-----------------------------------------------------------------------------
HookRuns == [mode : Hook!Modes \cup {"none"}, queue : Seq(HookIds), started : Seq(HookIds), running : SUBSET Nat,
         applied : Seq(Nat), failed : SUBSET Nat, meant : SUBSET (HookIds \X Events)]

\* What has been called and what is still to be called is what the trigger meant;
\* what has been applied is what is over and did not fail.
RunOK(r) ==
    /\ r \in HookRuns
    /\ r.running \subseteq DOMAIN r.started /\ r.failed \subseteq DOMAIN r.started \ r.running
    /\ r.mode = "plugin sync" => r.running = {}
    /\ IF r.mode \in Hook!Serial THEN r.running \subseteq {Len(r.started)} ELSE r.queue = <<>>
    /\ r.mode # "none" /\ ~(r.mode = "plugin sync" /\ r.failed # {}) => Called(r.started \o r.queue, r.meant)
    /\ InTurn(r.mode, r.started \o r.queue)
    /\ r.mode = "modifying" =>
         /\ {r.applied[i] : i \in DOMAIN r.applied} = DOMAIN r.started \ (r.failed \cup r.running)
         /\ \A i, j \in DOMAIN r.applied : i < j => r.applied[i] < r.applied[j]

HookInv == /\ HandlersOK
           /\ DOMAIN run = Triggers
           /\ \A t \in Triggers : RunOK(run[t])

LEMMA IdleOK == RunOK(Hook!Idle)
<1> DEFINE r == Hook!Idle
<1>1. /\ r = [mode |-> "none", queue |-> <<>>, started |-> <<>>, running |-> {},
              applied |-> <<>>, failed |-> {}, meant |-> {}]
  BY DEF Hook!Idle
<1>2. "none" \notin Hook!Serial /\ "none" \notin Hook!OfPlugins /\ "none" # "registry"
  BY DEF Hook!Serial, Hook!OfPlugins
<1>3. r \in HookRuns
  <2>1. <<>> \in Seq(HookIds) /\ <<>> \in Seq(Nat)
    BY EmptySeq
  <2> QED
    BY <1>1, <2>1 DEF HookRuns
<1>4. r.mode = "none" /\ r.running = {} /\ r.failed = {} /\ r.queue = <<>>
  BY <1>1
<1>5. InTurn(r.mode, r.started \o r.queue)
  BY <1>2, <1>4 DEF InTurn
<1> HIDE DEF r
<1>6. RunOK(r)
  BY <1>2, <1>3, <1>4, <1>5 DEF RunOK
<1> QED
  BY <1>6 DEF r

LEMMA HooksStart == Hook!Init => HookInv
<1> SUFFICES ASSUME Hook!Init PROVE HookInv
  OBVIOUS
<1>1. <<>> \in Seq(HookIds) /\ NoRepeats(<<>>)
  BY EmptySeq DEF NoRepeats
<1>2. HandlersOK
  BY <1>1 DEF Hook!Init, HandlersOK, Events
<1>3. DOMAIN run = Triggers /\ \A t \in Triggers : run[t] = Hook!Idle
  BY DEF Hook!Init
<1> QED
  BY <1>2, <1>3, IdleOK DEF HookInv

\* Nothing is listed twice, wherever a hook is put and whatever is taken out.
LEMMA InsertOnce ==
    ASSUME Hook!HooksAssumption, NEW s \in Seq(HookIds), NoRepeats(s), NEW h \in HookIds, h \notin Hook!Range(s)
    PROVE  Hook!Insert(s, h) \in Seq(HookIds) /\ NoRepeats(Hook!Insert(s, h))
<1> DEFINE all == Append(s, h)
           K == DOMAIN all
           key == Hook!Rising(all)
           t == Hook!Sorted(all, K, key)
<1>1. Hook!Insert(s, h) = t
  BY DEF Hook!Insert
<1>2. /\ all \in Seq(HookIds) /\ Len(s) \in Nat /\ DOMAIN all = 1..(Len(s) + 1) /\ DOMAIN s = 1..Len(s)
      /\ all[Len(s) + 1] = h /\ \A i \in DOMAIN s : all[i] = s[i] /\ s[i] # h
  BY DEF Hook!Range
<1>3. NoRepeats(all) /\ \A i \in DOMAIN all : all[i] \in HookIds
  <2>1. \A i \in DOMAIN all : all[i] \in HookIds
    BY <1>2
  <2> HIDE DEF all
  <2> QED
    BY <1>2, <2>1 DEF NoRepeats
<1>4. K \in SUBSET DOMAIN all
  OBVIOUS
<1> HIDE DEF all, K
<1>5. key \in [DOMAIN all -> Int]
  <2>1. \A i \in DOMAIN all : HookPriority[all[i]] \in Int
    BY <1>3 DEF Hook!HooksAssumption
  <2> QED
    BY <2>1 DEF Hook!Rising
<1> HIDE DEF key
<1>6. SortOf(t, HookIds, all, K, key)
  BY <1>2, <1>4, <1>5, SortedList
<1> HIDE DEF t
<1> QED
  BY <1>1, <1>3, <1>6 DEF SortOf

LEMMA WithoutOnce ==
    ASSUME NEW s \in Seq(HookIds), NoRepeats(s), NEW h
    PROVE  Hook!Without(s, h) \in Seq(HookIds) /\ NoRepeats(Hook!Without(s, h))
<1> DEFINE K == {i \in DOMAIN s : s[i] # h}
           key == Hook!AsListed(s)
           t == Hook!Sorted(s, K, key)
<1>1. Hook!Without(s, h) = t
  BY DEF Hook!Without
<1>2. K \in SUBSET DOMAIN s
  OBVIOUS
<1> HIDE DEF K
<1>3. key \in [DOMAIN s -> Int]
  BY DEF Hook!AsListed
<1> HIDE DEF key
<1>4. SortOf(t, HookIds, s, K, key)
  BY <1>2, <1>3, SortedList
<1> HIDE DEF t
<1> QED
  BY <1>1, <1>4 DEF SortOf

LEMMA ListsStay ==
    ASSUME Hook!HooksAssumption, HookInv, NEW h \in HookIds,
           Hook!Register(h) \/ Hook!Unregister(h) \/ Hook!Tap(h)
    PROVE  HookInv'
<1>1. HandlersOK
  BY DEF HookInv
<1>2. DOMAIN handlers = Events /\ \A k \in Events : handlers[k] \in Seq(HookIds) /\ NoRepeats(handlers[k])
  BY <1>1 DEF HandlersOK, Events
<1>3. CASE Hook!Register(h)
  <2>1. /\ \A k \in HookKeys[h] : h \notin Hook!Range(handlers[k])
        /\ handlers' = [k \in Events |-> IF k \in HookKeys[h] THEN Hook!Insert(handlers[k], h) ELSE handlers[k]]
        /\ taps' = taps /\ run' = run
    BY <1>2, <1>3 DEF Hook!Register
  <2>2. ASSUME NEW k \in Events
        PROVE  handlers'[k] \in Seq(HookIds) /\ NoRepeats(handlers'[k])
    <3>1. CASE k \in HookKeys[h]
      <4> DEFINE s == handlers[k]
      <4>1. s \in Seq(HookIds) /\ NoRepeats(s) /\ h \notin Hook!Range(s)
        BY <1>2, <2>1, <3>1
      <4>2. handlers'[k] = Hook!Insert(s, h)
        BY <2>1, <3>1
      <4> HIDE DEF s
      <4> QED
        BY <4>1, <4>2, InsertOnce
    <3>2. CASE k \notin HookKeys[h]
      BY <1>2, <2>1, <3>2
    <3> QED
      BY <3>1, <3>2
  <2>3. HandlersOK'
    BY <1>1, <2>1, <2>2 DEF HandlersOK, Events
  <2> QED
    BY <2>1, <2>3 DEF HookInv
<1>4. CASE Hook!Unregister(h)
  <2>1. /\ handlers' = [k \in Events |-> Hook!Without(handlers[k], h)]
        /\ taps' = taps /\ run' = run
    BY <1>2, <1>4 DEF Hook!Unregister
  <2>2. ASSUME NEW k \in Events
        PROVE  handlers'[k] \in Seq(HookIds) /\ NoRepeats(handlers'[k])
    <3> DEFINE s == handlers[k]
    <3>1. s \in Seq(HookIds) /\ NoRepeats(s) /\ handlers'[k] = Hook!Without(s, h)
      BY <1>2, <2>1
    <3> HIDE DEF s
    <3> QED
      BY <3>1, WithoutOnce
  <2>3. HandlersOK'
    BY <1>1, <2>1, <2>2 DEF HandlersOK, Events
  <2> QED
    BY <2>1, <2>3 DEF HookInv
<1>5. CASE Hook!Tap(h)
  <2>1. /\ h \notin Hook!Range(taps) /\ taps' = Append(taps, h)
        /\ handlers' = handlers /\ run' = run
    BY <1>5 DEF Hook!Tap
  <2>2. taps \in Seq(HookIds) /\ NoRepeats(taps) /\ \A i \in DOMAIN taps : taps[i] # h
    BY <1>1, <2>1 DEF HandlersOK, Hook!Range
  <2>3. taps' \in Seq(HookIds) /\ NoRepeats(taps')
    <3>1. /\ Len(taps) \in Nat /\ DOMAIN taps = 1..Len(taps) /\ DOMAIN taps' = 1..(Len(taps) + 1)
          /\ taps' \in Seq(HookIds)
          /\ taps'[Len(taps) + 1] = h /\ \A i \in DOMAIN taps : taps'[i] = taps[i]
      BY <2>1, <2>2
    <3> QED
      BY <2>2, <3>1 DEF NoRepeats
  <2>4. HandlersOK'
    BY <1>1, <2>1, <2>3 DEF HandlersOK
  <2> QED
    BY <2>1, <2>4 DEF HookInv
<1> QED
  BY <1>3, <1>4, <1>5

LEMMA ClearOK ==
    ASSUME HookInv, Hook!Clear
    PROVE  HookInv'
<1>0. HandlersOK /\ DOMAIN handlers = Events
  BY DEF HookInv, HandlersOK
<1>1. /\ handlers' = [k \in Events |-> <<>>] /\ taps' = taps /\ run' = run
  BY <1>0 DEF Hook!Clear
<1>2. <<>> \in Seq(HookIds) /\ NoRepeats(<<>>)
  BY EmptySeq DEF NoRepeats
<1>3. HandlersOK'
  BY <1>0, <1>1, <1>2 DEF HandlersOK, Events
<1> QED
  BY <1>1, <1>3 DEF HookInv

LEMMA FireOK ==
    ASSUME Hook!HooksAssumption, HandlersOK, NEW mode \in Hook!Modes
    PROVE  RunOK([Hook!Idle EXCEPT !.mode = mode, !.meant = Hook!Meant(mode),
                    !.queue = IF mode \in Hook!Serial THEN Hook!Collected(mode) ELSE <<>>,
                    !.started = IF mode \in Hook!Serial THEN <<>> ELSE Hook!Collected(mode),
                    !.running = IF mode \in Hook!Serial \cup {"sync", "plugin sync"} THEN {}
                                ELSE DOMAIN Hook!Collected(mode)])
<1> DEFINE all == Hook!Collected(mode)
           meant == Hook!Meant(mode)
           r == [Hook!Idle EXCEPT !.mode = mode, !.meant = meant,
                    !.queue = IF mode \in Hook!Serial THEN all ELSE <<>>,
                    !.started = IF mode \in Hook!Serial THEN <<>> ELSE all,
                    !.running = IF mode \in Hook!Serial \cup {"sync", "plugin sync"} THEN {} ELSE DOMAIN all]
<1>1. all \in Seq(HookIds) /\ Called(all, meant) /\ InTurn(mode, all)
  <2>1. mode \in Hook!OfPlugins \/ mode \in Hook!OfRegistry
    BY DEF Hook!Modes
  <2> QED
    BY <2>1, CollectedTaps, CollectedHandlers
<1>2. meant \in SUBSET (HookIds \X Events)
  <2>1. DOMAIN handlers = Events
    BY DEF HandlersOK
  <2> QED
    BY <2>1 DEF Hook!Meant
<1> HIDE DEF all, meant
<1>3. /\ r.mode = mode /\ r.meant = meant /\ r.applied = <<>> /\ r.failed = {}
      /\ r.queue = (IF mode \in Hook!Serial THEN all ELSE <<>>)
      /\ r.started = (IF mode \in Hook!Serial THEN <<>> ELSE all)
      /\ r.running = (IF mode \in Hook!Serial \cup {"sync", "plugin sync"} THEN {} ELSE DOMAIN all)
      /\ r \in HookRuns
  <2>1. <<>> \in Seq(HookIds) /\ <<>> \in Seq(Nat) /\ DOMAIN all \in SUBSET Nat
    BY <1>1, EmptySeq
  <2> QED
    BY <1>1, <1>2, <2>1 DEF Hook!Idle, HookRuns
<1>4. r.running \subseteq DOMAIN r.started /\ r.failed = {} /\ (r.mode = "plugin sync" => r.running = {})
  BY <1>3
<1>5. IF r.mode \in Hook!Serial THEN r.running \subseteq {Len(r.started)} ELSE r.queue = <<>>
  BY <1>3
<1>6. r.started \o r.queue = all
  BY <1>1, <1>3, OneMoves, EmptySeq
<1>7. r.mode = "modifying" =>
         /\ {r.applied[i] : i \in DOMAIN r.applied} = DOMAIN r.started \ (r.failed \cup r.running)
         /\ \A i, j \in DOMAIN r.applied : i < j => r.applied[i] < r.applied[j]
  <2>1. "modifying" \in Hook!Serial
    BY DEF Hook!Serial
  <2> HIDE DEF r
  <2> QED
    BY <1>3, <2>1
<1>8. RunOK(r)
  <2> HIDE DEF r
  <2> QED
    BY <1>1, <1>3, <1>4, <1>5, <1>6, <1>7 DEF RunOK
<1> QED
  BY <1>8 DEF all, meant

LEMMA OneRunChanges ==
    ASSUME HookInv, NEW t \in Triggers, NEW r, RunOK(r), run' = [run EXCEPT ![t] = r],
           UNCHANGED <<handlers, taps>>
    PROVE  HookInv'
<1>1. HandlersOK'
  BY DEF HookInv, HandlersOK
<1>2. DOMAIN run' = Triggers /\ \A u \in Triggers : run'[u] = IF u = t THEN r ELSE run[u]
  BY DEF HookInv
<1>3. \A u \in Triggers : RunOK(run'[u])
  BY <1>2 DEF HookInv
<1> QED
  BY <1>1, <1>2, <1>3 DEF HookInv

LEMMA FirstPlaces ==
    ASSUME NEW S, NEW b \in Seq(S), NEW n \in DOMAIN b
    PROVE  /\ n \in Nat /\ n \in 1..n /\ SubSeq(b, 1, n) \in Seq(S) /\ DOMAIN SubSeq(b, 1, n) = 1..n
           /\ \A i \in 1..n : i \in DOMAIN b /\ SubSeq(b, 1, n)[i] = b[i]
<1>1. n \in Nat /\ n > 0 /\ n <= Len(b) /\ Len(b) \in Nat /\ DOMAIN b = 1..Len(b)
  OBVIOUS
<1> QED
  BY <1>1, SubSeqProperties

LEMMA ThrowsOK ==
    ASSUME NEW r, RunOK(r), r.mode = "plugin sync", NEW n \in DOMAIN r.started
    PROVE  RunOK([r EXCEPT !.started = SubSeq(r.started, 1, n), !.failed = {n}])
<1> DEFINE b == r.started
           s == SubSeq(b, 1, n)
           z == [r EXCEPT !.started = s, !.failed = {n}]
<1>1. r.mode \notin Hook!Serial /\ r.mode # "modifying" /\ r.mode \in Hook!OfPlugins
  BY DEF Hook!Serial, Hook!OfPlugins
<1>2. r \in HookRuns /\ r.queue = <<>> /\ InTurn(r.mode, b \o r.queue) /\ r.running = {}
  BY <1>1 DEF RunOK
<1>3. b \in Seq(HookIds) /\ r.running \in SUBSET Nat /\ n \in DOMAIN b
  BY <1>2 DEF HookRuns
<1> HIDE DEF b
<1>4. /\ n \in Nat /\ n \in 1..n /\ s \in Seq(HookIds) /\ DOMAIN s = 1..n
      /\ \A i \in 1..n : i \in DOMAIN b /\ s[i] = b[i]
  BY <1>3, FirstPlaces
<1> HIDE DEF s
<1>5. z \in HookRuns /\ z.mode = r.mode /\ z.started = s /\ z.queue = r.queue /\ z.running = r.running /\ z.failed = {n}
  BY <1>2, <1>4 DEF HookRuns
<1>6. b \o r.queue = b /\ s \o z.queue = s
  BY <1>2, <1>3, <1>4, <1>5, OneMoves
<1>7. InTurn(z.mode, s \o z.queue)
  <2>1. InTurn(r.mode, b) /\ \A i, j \in 1..n : i \in DOMAIN b /\ j \in DOMAIN b
    BY <1>2, <1>4, <1>6
  <2> HIDE DEF z
  <2>2. InTurn(r.mode, s)
    BY <1>4, <2>1 DEF InTurn
  <2> QED
    BY <1>5, <1>6, <2>2
<1>8. z.running = {} /\ z.failed \subseteq DOMAIN z.started \ z.running
  <2> HIDE DEF z
  <2> QED
    BY <1>2, <1>4, <1>5
<1>9. RunOK(z)
  <2> HIDE DEF z
  <2> QED
    BY <1>1, <1>2, <1>5, <1>7, <1>8 DEF RunOK
<1> QED
  BY <1>9 DEF b, s

LEMMA StartsOK ==
    ASSUME NEW r, RunOK(r), r.mode \in Hook!Serial, r.running = {}, r.queue # <<>>
    PROVE  RunOK([r EXCEPT !.started = Append(r.started, Head(r.queue)),
                           !.running = {Len(r.started) + 1}, !.queue = Tail(r.queue)])
<1> DEFINE s == Append(r.started, Head(r.queue))
           q == Tail(r.queue)
           n == Len(r.started) + 1
           z == [r EXCEPT !.started = s, !.running = {n}, !.queue = q]
<1>1. r \in HookRuns
  BY DEF RunOK
<1>2. r.started \in Seq(HookIds) /\ r.queue \in Seq(HookIds) /\ Len(r.started) \in Nat
  BY <1>1 DEF HookRuns
<1>3. s \in Seq(HookIds) /\ q \in Seq(HookIds) /\ s \o q = r.started \o r.queue
  <2> DEFINE b == r.started
             k == r.queue
  <2>1. b \in Seq(HookIds) /\ k \in Seq(HookIds) /\ k # <<>>
    BY <1>2
  <2>2. Append(b, Head(k)) \in Seq(HookIds) /\ Tail(k) \in Seq(HookIds) /\ Append(b, Head(k)) \o Tail(k) = b \o k
    <3> HIDE DEF b, k
    <3> QED
      BY <2>1, OneMoves
  <2> QED
    BY <2>2
<1>4. n \in Nat /\ Len(s) = n /\ DOMAIN s = DOMAIN r.started \cup {n} /\ n \notin DOMAIN r.started
  BY <1>2
<1> HIDE DEF s, q, n
<1>5. /\ z \in HookRuns /\ z.mode = r.mode /\ z.started = s /\ z.queue = q /\ z.running = {n}
      /\ z.meant = r.meant /\ z.failed = r.failed /\ z.applied = r.applied
  BY <1>1, <1>3, <1>4 DEF HookRuns
<1> HIDE DEF z
<1>6. /\ r.mode = "modifying" =>
           /\ {r.applied[i] : i \in DOMAIN r.applied} = DOMAIN r.started \ (r.failed \cup r.running)
           /\ \A i, j \in DOMAIN r.applied : i < j => r.applied[i] < r.applied[j]
      /\ r.mode # "none" /\ ~(r.mode = "plugin sync" /\ r.failed # {}) => Called(r.started \o r.queue, r.meant)
      /\ InTurn(r.mode, r.started \o r.queue)
  BY DEF RunOK
<1>7. z.mode = "modifying" =>
           /\ {z.applied[i] : i \in DOMAIN z.applied} = DOMAIN z.started \ (z.failed \cup z.running)
           /\ \A i, j \in DOMAIN z.applied : i < j => z.applied[i] < z.applied[j]
  <2>1. DOMAIN z.started \ (z.failed \cup z.running) = DOMAIN r.started \ (r.failed \cup r.running)
    <3>1. z.failed = r.failed /\ z.running = {n} /\ r.running = {} /\ DOMAIN z.started = DOMAIN r.started \cup {n}
      BY <1>4, <1>5
    <3> QED
      BY <1>4, <3>1
  <2> QED
    BY <1>5, <1>6, <2>1
<1>8. /\ z.running \subseteq DOMAIN z.started /\ z.running \subseteq {Len(z.started)}
      /\ z.mode # "plugin sync" /\ z.failed \subseteq DOMAIN z.started \ z.running
  <2>2. r.failed \subseteq DOMAIN r.started
    BY DEF RunOK
  <2>1. "plugin sync" \notin Hook!Serial
    BY DEF Hook!Serial
  <2> QED
    BY <1>4, <1>5, <2>1, <2>2
<1>9. /\ z.mode # "none" /\ ~(z.mode = "plugin sync" /\ z.failed # {}) => Called(z.started \o z.queue, z.meant)
      /\ InTurn(z.mode, z.started \o z.queue)
  BY <1>3, <1>5, <1>6
<1>10. RunOK(z)
  BY <1>5, <1>7, <1>8, <1>9 DEF RunOK
<1> QED
  BY <1>10 DEF z, s, q, n

LEMMA OverOK ==
    ASSUME NEW r, RunOK(r), NEW i \in r.running, NEW fails \in BOOLEAN
    PROVE  RunOK([r EXCEPT !.running = r.running \ {i},
                           !.failed = IF fails THEN r.failed \cup {i} ELSE r.failed,
                           !.applied = IF r.mode = "modifying" /\ ~fails
                                         THEN Append(r.applied, i) ELSE r.applied])
<1> DEFINE left == r.running \ {i}
           broken == IF fails THEN r.failed \cup {i} ELSE r.failed
           b == r.applied
           applied == IF r.mode = "modifying" /\ ~fails THEN Append(b, i) ELSE b
           z == [r EXCEPT !.running = left, !.failed = broken, !.applied = applied]
<1>1. r \in HookRuns /\ r.running \subseteq DOMAIN r.started /\ r.mode # "plugin sync"
  BY DEF RunOK
<1>2. b \in Seq(Nat) /\ i \in Nat /\ r.running \in SUBSET Nat /\ r.failed \in SUBSET Nat /\ i \in DOMAIN r.started
  BY <1>1 DEF HookRuns
<1> HIDE DEF b
<1>3. applied \in Seq(Nat) /\ broken \in SUBSET Nat /\ left \in SUBSET Nat
  BY <1>2
<1>4. ASSUME r.mode = "modifying"
      PROVE  /\ {applied[k] : k \in DOMAIN applied} = DOMAIN r.started \ (broken \cup left)
             /\ \A j, k \in DOMAIN applied : j < k => applied[j] < applied[k]
  <2>1. /\ {b[k] : k \in DOMAIN b} = DOMAIN r.started \ (r.failed \cup r.running)
        /\ \A j, k \in DOMAIN b : j < k => b[j] < b[k]
    BY <1>4 DEF RunOK, b
  <2>2. r.running = {i} /\ i = Len(r.started) /\ r.started \in Seq(HookIds)
    <3>1. "modifying" \in Hook!Serial
      BY DEF Hook!Serial
    <3> QED
      BY <1>1, <1>4, <3>1 DEF RunOK, HookRuns
  <2>3. \A k \in DOMAIN b : b[k] \in DOMAIN r.started \ {i} /\ b[k] < i
    <3>1. \A k \in DOMAIN b : b[k] \in DOMAIN r.started \ {i}
      BY <2>1, <2>2
    <3>2. \A k \in DOMAIN r.started \ {i} : k < i
      BY <2>2
    <3> QED
      BY <3>1, <3>2
  <2>4. CASE fails
    <3>1. applied = b /\ broken \cup left = r.failed \cup r.running
      BY <2>2, <2>4
    <3> HIDE DEF applied, broken, left
    <3> QED
      BY <2>1, <3>1
  <2>5. CASE ~fails
    <3> DEFINE n == Len(b) + 1
    <3>1. /\ DOMAIN applied = DOMAIN b \cup {n} /\ applied[n] = i /\ \A k \in DOMAIN b : applied[k] = b[k]
          /\ \A k \in DOMAIN b : k \in Nat /\ k < n
          /\ n \in Nat
      BY <1>2, <1>4, <2>5
    <3>2. broken \cup left = r.failed /\ i \notin r.failed
      <4>1. i \notin r.failed
        BY <1>4 DEF RunOK
      <4> QED
        BY <2>2, <2>5, <4>1
    <3> HIDE DEF applied, broken, left, n
    <3>3. {applied[k] : k \in DOMAIN applied} = {b[k] : k \in DOMAIN b} \cup {i}
      BY <3>1
    <3>4. {b[k] : k \in DOMAIN b} \cup {i} = DOMAIN r.started \ r.failed
      BY <1>2, <2>1, <2>2, <3>2
    <3>5. \A j, k \in DOMAIN applied : j < k => applied[j] < applied[k]
      <4> TAKE j, k \in DOMAIN applied
      <4> HAVE j < k
      <4>1. j \in DOMAIN b
        BY <3>1
      <4>2. CASE k \in DOMAIN b
        BY <2>1, <3>1, <4>1, <4>2
      <4>3. CASE k = n
        BY <2>3, <3>1, <4>1, <4>3
      <4> QED
        BY <3>1, <4>2, <4>3
    <3> QED
      BY <3>2, <3>3, <3>4, <3>5
  <2> QED
    BY <2>4, <2>5
<1> HIDE DEF applied, broken, left
<1>5. /\ z \in HookRuns /\ z.mode = r.mode /\ z.started = r.started /\ z.queue = r.queue /\ z.running = left
      /\ z.meant = r.meant /\ z.failed = broken /\ z.applied = applied
  BY <1>1, <1>3 DEF HookRuns
<1> HIDE DEF z
<1>6. /\ left \subseteq DOMAIN r.started /\ broken \subseteq DOMAIN r.started \ left
      /\ r.mode \in Hook!Serial => left \subseteq {Len(r.started)}
  <2>1. /\ r.failed \subseteq DOMAIN r.started \ r.running
        /\ r.mode \in Hook!Serial => r.running \subseteq {Len(r.started)}
    BY DEF RunOK
  <2> QED
    BY <1>1, <1>2, <2>1 DEF left, broken
<1>7. /\ r.mode \notin Hook!Serial => r.queue = <<>>
      /\ r.mode # "none" => Called(r.started \o r.queue, r.meant)
      /\ InTurn(r.mode, r.started \o r.queue)
  BY <1>1 DEF RunOK
<1>8. RunOK(z)
  <2>1. /\ z.running \subseteq DOMAIN z.started /\ z.failed \subseteq DOMAIN z.started \ z.running
        /\ z.mode # "plugin sync"
    BY <1>1, <1>5, <1>6
  <2>2. IF z.mode \in Hook!Serial THEN z.running \subseteq {Len(z.started)} ELSE z.queue = <<>>
    BY <1>5, <1>6, <1>7
  <2>3. /\ z.mode # "none" => Called(z.started \o z.queue, z.meant)
        /\ InTurn(z.mode, z.started \o z.queue)
    BY <1>5, <1>7
  <2>4. z.mode = "modifying" =>
          /\ {z.applied[k] : k \in DOMAIN z.applied} = DOMAIN z.started \ (z.failed \cup z.running)
          /\ \A j, k \in DOMAIN z.applied : j < k => z.applied[j] < z.applied[k]
    BY <1>4, <1>5
  <2> QED
    BY <1>5, <2>1, <2>2, <2>3, <2>4 DEF RunOK
<1> QED
  BY <1>8 DEF z, left, broken, applied, b


LEMMA HooksStep == Hook!HooksAssumption /\ HookInv /\ [Hook!Next]_(Hook!vars) => HookInv'
<1> SUFFICES ASSUME Hook!HooksAssumption, HookInv, [Hook!Next]_(Hook!vars) PROVE HookInv'
  OBVIOUS
<1>1. HandlersOK /\ DOMAIN run = Triggers /\ \A t \in Triggers : RunOK(run[t])
  BY DEF HookInv
<1>2. CASE \E h \in HookIds : Hook!Register(h) \/ Hook!Unregister(h) \/ Hook!Tap(h)
  BY <1>2, ListsStay
<1>3. CASE Hook!Clear
  BY <1>3, ClearOK
<1>4. ASSUME NEW t \in Triggers, NEW mode \in Hook!Modes, Hook!Fire(t, mode)
      PROVE  HookInv'
  <2> DEFINE r == [Hook!Idle EXCEPT !.mode = mode, !.meant = Hook!Meant(mode),
                     !.queue = IF mode \in Hook!Serial THEN Hook!Collected(mode) ELSE <<>>,
                     !.started = IF mode \in Hook!Serial THEN <<>> ELSE Hook!Collected(mode),
                     !.running = IF mode \in Hook!Serial \cup {"sync", "plugin sync"} THEN {}
                                 ELSE DOMAIN Hook!Collected(mode)]
  <2>1. run' = [run EXCEPT ![t] = r] /\ UNCHANGED <<handlers, taps>>
    BY <1>4 DEF Hook!Fire
  <2>2. RunOK(r)
    BY <1>1, FireOK
  <2> HIDE DEF r
  <2> QED
    BY <2>1, <2>2, OneRunChanges
<1>5. ASSUME NEW t \in Triggers, Hook!Starts(t)
      PROVE  HookInv'
  <2> DEFINE r == run[t]
             z == [r EXCEPT !.started = Append(r.started, Head(r.queue)),
                            !.running = {Len(r.started) + 1}, !.queue = Tail(r.queue)]
  <2>1. r.mode \in Hook!Serial /\ r.running = {} /\ r.queue # <<>> /\ RunOK(r)
    BY <1>1, <1>5 DEF Hook!Starts
  <2>2. run' = [run EXCEPT ![t] = z] /\ UNCHANGED <<handlers, taps>>
    BY <1>1, <1>5 DEF Hook!Starts
  <2>3. RunOK(z)
    <3> HIDE DEF r
    <3> QED
      BY <2>1, StartsOK
  <2> HIDE DEF z
  <2> QED
    BY <2>2, <2>3, OneRunChanges
<1>6. ASSUME NEW t \in Triggers, Hook!Settled(t)
      PROVE  HookInv'
  <2>1. run' = [run EXCEPT ![t] = Hook!Idle] /\ UNCHANGED <<handlers, taps>>
    BY <1>6 DEF Hook!Settled
  <2> QED
    BY <2>1, IdleOK, OneRunChanges
<1>7. ASSUME NEW t \in Triggers, NEW n, Hook!Throws(t, n)
      PROVE  HookInv'
  <2> DEFINE r == run[t]
             z == [r EXCEPT !.started = SubSeq(r.started, 1, n), !.failed = {n}]
  <2>1. r.mode = "plugin sync" /\ n \in DOMAIN r.started /\ RunOK(r)
    BY <1>1, <1>7 DEF Hook!Throws
  <2>2. run' = [run EXCEPT ![t] = z] /\ UNCHANGED <<handlers, taps>>
    BY <1>1, <1>7 DEF Hook!Throws
  <2>3. RunOK(z)
    <3> HIDE DEF r
    <3> QED
      BY <2>1, ThrowsOK
  <2> HIDE DEF z
  <2> QED
    BY <2>2, <2>3, OneRunChanges
<1>8. ASSUME NEW t \in Triggers, NEW i, NEW fails \in BOOLEAN, Hook!Over(t, i, fails)
      PROVE  HookInv'
  <2> DEFINE r == run[t]
             z == [r EXCEPT !.running = r.running \ {i},
                            !.failed = IF fails THEN r.failed \cup {i} ELSE r.failed,
                            !.applied = IF r.mode = "modifying" /\ ~fails
                                          THEN Append(r.applied, i) ELSE r.applied]
  <2>1. i \in r.running /\ RunOK(r)
    BY <1>1, <1>8 DEF Hook!Over
  <2>2. run' = [run EXCEPT ![t] = z] /\ UNCHANGED <<handlers, taps>>
    BY <1>1, <1>8 DEF Hook!Over
  <2>3. RunOK(z)
    <3> HIDE DEF r
    <3> QED
      BY <2>1, OverOK
  <2> HIDE DEF z
  <2> QED
    BY <2>2, <2>3, OneRunChanges
<1>9. CASE UNCHANGED Hook!vars
  <2>1. UNCHANGED <<handlers, taps, run>>
    BY <1>9 DEF Hook!vars
  <2> QED
    BY <2>1 DEF HookInv, HandlersOK
<1> QED
  BY <1>2, <1>3, <1>4, <1>5, <1>6, <1>7, <1>8, <1>9 DEF Hook!Next

LEMMA HookInvSays == Hook!HooksAssumption /\ HookInv => Hook!HooksRunOnce
<1> SUFFICES ASSUME Hook!HooksAssumption, HookInv, NEW t \in Triggers
             PROVE  LET r == run[t] IN
                    /\ Hook!Done(t) /\ ~(r.mode = "plugin sync" /\ r.failed # {}) =>
                         \A h \in HookIds : Hook!Times(r.started, h) = Hook!Cardinality({m \in r.meant : m[1] = h})
                    /\ r.mode \in Hook!OfPlugins \cup {"registry"} =>
                         \A i, j \in DOMAIN r.started : i < j =>
                           LET p == HookPriority[r.started[i]] q == HookPriority[r.started[j]] IN
                           IF Hook!Reversed(r.mode) THEN p >= q ELSE p <= q
                    /\ r.mode \in Hook!Serial => Hook!Cardinality(r.running) <= 1
                    /\ r.mode = "modifying" => \A i, j \in DOMAIN r.applied : i < j => r.applied[i] < r.applied[j]
                    /\ Hook!Done(t) /\ r.mode = "modifying" =>
                         Hook!Range(r.applied) = DOMAIN r.started \ r.failed
  BY DEF Hook!HooksRunOnce
<1> DEFINE r == run[t]
<1>1. RunOK(r) /\ r.started \in Seq(HookIds) /\ r.queue \in Seq(HookIds)
  BY DEF HookInv, RunOK, HookRuns
<1>2. Hook!Done(t) <=> r.mode # "none" /\ r.running = {} /\ r.queue = <<>>
  BY DEF Hook!Done
<1> HIDE DEF r
<1>3. ASSUME r.mode # "none", r.queue = <<>>, ~(r.mode = "plugin sync" /\ r.failed # {}), NEW h \in HookIds
      PROVE  Hook!Times(r.started, h) = Hook!Cardinality({m \in r.meant : m[1] = h})
  <2>1. r.started \o r.queue = r.started
    BY <1>1, <1>3, OneMoves
  <2>2. Called(r.started, r.meant)
    BY <1>1, <1>3, <2>1 DEF RunOK
  <2> QED
    BY <2>2, HookNumbers DEF Called
<1>4. ASSUME r.mode \in Hook!OfPlugins \cup {"registry"}, NEW i \in DOMAIN r.started, NEW j \in DOMAIN r.started, i < j
      PROVE  LET p == HookPriority[r.started[i]] q == HookPriority[r.started[j]] IN
             IF Hook!Reversed(r.mode) THEN p >= q ELSE p <= q
  <2> DEFINE b == r.started
             k == r.queue
             s == b \o k
  <2>1. InTurn(r.mode, s)
    BY <1>1 DEF RunOK
  <2>2. i \in DOMAIN s /\ j \in DOMAIN s /\ s[i] = b[i] /\ s[j] = b[j]
    <3>1. b \in Seq(HookIds) /\ k \in Seq(HookIds) /\ i \in DOMAIN b /\ j \in DOMAIN b
      BY <1>1
    <3> HIDE DEF b, k
    <3> QED
      BY <3>1
  <2>3. IF r.mode \in Hook!OfPlugins THEN HookPriority[s[i]] >= HookPriority[s[j]]
        ELSE HookPriority[s[i]] <= HookPriority[s[j]]
    <3> HIDE DEF s
    <3> QED
      BY <1>4, <2>1, <2>2 DEF InTurn
  <2> QED
    BY <2>2, <2>3 DEF Hook!Reversed
<1>5. ASSUME r.mode \in Hook!Serial
      PROVE  Hook!Cardinality(r.running) <= 1
  <2>1. r.running = {} \/ r.running = {Len(r.started)}
    BY <1>1, <1>5 DEF RunOK
  <2>2. Cardinality(r.running) <= 1
    <3> DEFINE n == Len(r.started)
               c == r.running
    <3>1. c = {} \/ c = {n}
      BY <2>1
    <3> HIDE DEF n, c
    <3>2. Cardinality({}) = 0 /\ Cardinality({n}) = 1
      BY FS_EmptySet, FS_Singleton
    <3>3. Cardinality(c) = 0 \/ Cardinality(c) = 1
      BY <3>1, <3>2
    <3>4. Cardinality(c) <= 1
      BY <3>3
    <3> QED
      BY <3>4 DEF c
  <2> QED
    BY <2>2, HookNumbers
<1>6. r.mode = "modifying" =>
        /\ {r.applied[i] : i \in DOMAIN r.applied} = DOMAIN r.started \ (r.failed \cup r.running)
        /\ \A i, j \in DOMAIN r.applied : i < j => r.applied[i] < r.applied[j]
  BY <1>1 DEF RunOK
<1>7. ASSUME r.mode = "modifying", r.running = {}
      PROVE  Hook!Range(r.applied) = DOMAIN r.started \ r.failed
  BY <1>6, <1>7 DEF Hook!Range
<1>8. /\ Hook!Done(t) /\ ~(r.mode = "plugin sync" /\ r.failed # {}) =>
           \A h \in HookIds : Hook!Times(r.started, h) = Hook!Cardinality({m \in r.meant : m[1] = h})
      /\ r.mode \in Hook!OfPlugins \cup {"registry"} =>
           \A i, j \in DOMAIN r.started : i < j =>
             LET p == HookPriority[r.started[i]] q == HookPriority[r.started[j]] IN
             IF Hook!Reversed(r.mode) THEN p >= q ELSE p <= q
      /\ r.mode \in Hook!Serial => Hook!Cardinality(r.running) <= 1
      /\ r.mode = "modifying" => \A i, j \in DOMAIN r.applied : i < j => r.applied[i] < r.applied[j]
      /\ Hook!Done(t) /\ r.mode = "modifying" =>
           Hook!Range(r.applied) = DOMAIN r.started \ r.failed
  BY <1>2, <1>3, <1>4, <1>5, <1>6, <1>7
<1> QED
  BY <1>8 DEF r

\* Each trigger calls every hook that is there when it happens, as often as it is
\* registered, in the order of the priorities where one is kept, one after the other
\* where the mode says so, and the payload of a modifying hook passes through the
\* handlers that did not fail in that order, for any hooks, priorities and triggers,
\* while hooks come and go.  (services/hooks/registry.ts, runner.ts; plugins/hooks.ts)
THEOREM HooksAlwaysRunOnce == Hook!HooksAssumption => (Hook!Spec => []Hook!HooksRunOnce)
<1> SUFFICES ASSUME Hook!HooksAssumption PROVE Hook!Spec => []Hook!HooksRunOnce
  OBVIOUS
<1>1. Hook!Init => HookInv
  BY HooksStart
<1>2. HookInv /\ [Hook!Next]_(Hook!vars) => HookInv'
  BY HooksStep
<1>3. HookInv => Hook!HooksRunOnce
  BY HookInvSays
<1> QED
  BY <1>1, <1>2, <1>3, PTL DEF Hook!Spec

-----------------------------------------------------------------------------
(* Which memories are recalled for a turn.                                 *)

CONSTANTS Chunks, Similarities, TextScores, Searchables, Freshness, Fetch, MinScore, Injected, PoolSize
VARIABLES near, match, searchable, stage, method, merged, snippets
Recalled == INSTANCE Recall WITH Threshold <- MinScore, at <- stage, mode <- method

LEMMA RecalledNumbers == \A S : Recalled!Cardinality(S) = Cardinality(S)
  BY DEF Recalled!Cardinality, Cardinality

InList(s, x) == \E n \in DOMAIN s : s[n] = x

\* t is the first k of K, or all if there are not so many.
TopOf(t, K, key, place, k) ==
    /\ t \in Seq(K) /\ NoRepeats(t) /\ Len(t) <= k
    /\ \A m, n \in DOMAIN t : m < n => Recalled!Before(key, place, t[m], t[n])
    /\ \A x \in K : InList(t, x) \/ (Len(t) = k /\ \A n \in DOMAIN t : Recalled!Before(key, place, t[n], x))

LEMMA FirstOfOrder ==
    ASSUME NEW K, IsFiniteSet(K), NEW key, NEW place, NEW k \in Nat,
           \A i \in K : key[i] \in Int /\ place[i] \in Int,
           \A i, j \in K : place[i] = place[j] => i = j
    PROVE  TopOf(Recalled!First(Recalled!Ordered(K, key, place), k), K, key, place, k)
<1> DEFINE R == {p \in K \X K : Recalled!Before(key, place, p[1], p[2])}
           c == Cardinality(K)
           s == Recalled!Ordered(K, key, place)
           t == Recalled!First(s, k)
<1>1. \A i, j \in K : <<i, j>> \in R <=> Recalled!Before(key, place, i, j)
  OBVIOUS
<1>2. s = [n \in 1..c |-> Ranked(K, R, n)]
  <2>1. \A j \in K : {i \in K : <<i, j>> \in R} = {i \in K : Recalled!Before(key, place, i, j)}
    BY <1>1
  <2> DEFINE P(n) == CHOOSE j \in K : Recalled!Cardinality({i \in K : Recalled!Before(key, place, i, j)}) = n - 1
  <2>2. \A n : P(n) = Ranked(K, R, n)
    <3> HIDE DEF R
    <3> QED
      BY <2>1, RecalledNumbers DEF Ranked
  <2>3. s = [n \in 1..c |-> P(n)]
    BY RecalledNumbers DEF Recalled!Ordered
  <2> HIDE DEF R, P, s, c
  <2> QED
    BY <2>2, <2>3
<1> HIDE DEF R
<1>3. /\ \A i \in K : <<i, i>> \notin R
      /\ \A i, j, l \in K : <<i, j>> \in R /\ <<j, l>> \in R => <<i, l>> \in R
      /\ \A i, j \in K : i # j => <<i, j>> \in R \/ <<j, i>> \in R
  BY <1>1 DEF Recalled!Before
<1>4. /\ c \in Nat
      /\ \A n \in 1..c : Ranked(K, R, n) \in K
      /\ \A j \in K : \E n \in 1..c : Ranked(K, R, n) = j
      /\ \A m, n \in 1..c : m < n => <<Ranked(K, R, m), Ranked(K, R, n)>> \in R
  BY <1>3, EachRank
<1> HIDE DEF c, s
<1>5. /\ s \in Seq(K) /\ Len(s) = c /\ DOMAIN s = 1..c
      /\ \A j \in K : \E n \in 1..c : s[n] = j
      /\ \A m, n \in 1..c : m < n => Recalled!Before(key, place, s[m], s[n])
  <2>1. s \in Seq(K) /\ DOMAIN s = 1..c /\ \A n \in 1..c : s[n] = Ranked(K, R, n) /\ s[n] \in K
    BY <1>2, <1>4, SeqDef
  <2>2. Len(s) = c
    BY <1>4, <2>1
  <2> QED
    BY <1>1, <1>4, <2>1, <2>2
<1>6. \A m, n \in 1..c : s[m] = s[n] => m = n
  <2> TAKE m, n \in 1..c
  <2> HAVE s[m] = s[n]
  <2>1. s[m] \in K /\ s[n] \in K /\ m \in Nat /\ n \in Nat
    BY <1>4, <1>5
  <2>2. \A j \in K : ~Recalled!Before(key, place, j, j)
    BY <1>1, <1>3
  <2>3. ~(m < n) /\ ~(n < m)
    BY <1>5, <2>1, <2>2
  <2> QED
    BY <2>1, <2>3
<1> DEFINE q == IF Len(s) < k THEN Len(s) ELSE k
<1>7. q \in Nat /\ q <= c /\ q <= k /\ (q = k \/ q = c)
  BY <1>4, <1>5
<1>8. t \in Seq(K) /\ DOMAIN t = 1..q /\ Len(t) = q /\ \A n \in 1..q : n \in 1..c /\ t[n] = s[n]
  <2>1. t = SubSeq(s, 1, q)
    BY DEF Recalled!First
  <2> HIDE DEF t, q
  <2>2. \A n \in 1..q : n \in 1..c
    BY <1>4, <1>7
  <2>3. /\ SubSeq(s, 1, q) \in Seq(K) /\ Len(SubSeq(s, 1, q)) = q
        /\ \A n \in 1..q : SubSeq(s, 1, q)[n] = s[n]
    <3>1. \A n \in 1..q : s[n] \in K
      BY <1>5, <2>2
    <3>2. SubSeq(s, 1, q) = [n \in 1..q |-> s[n]]
      BY <1>4, <1>5, <1>7
    <3> QED
      BY <1>7, <3>1, <3>2, SeqDef
  <2> QED
    BY <1>7, <2>1, <2>2, <2>3
<1> HIDE DEF t, q
<1>9. ASSUME NEW x \in K
      PROVE  InList(t, x) \/ (Len(t) = k /\ \A n \in DOMAIN t : Recalled!Before(key, place, t[n], x))
  <2>1. PICK m \in 1..c : s[m] = x
    BY <1>5
  <2>2. CASE m <= q
    <3>1. m \in 1..q
      BY <1>4, <1>7, <2>2
    <3>2. m \in DOMAIN t /\ t[m] = x
      BY <1>8, <2>1, <3>1
    <3> QED
      BY <3>2 DEF InList
  <2>3. CASE m > q
    <3>1. q = k
      BY <1>4, <1>7, <2>3
    <3>2. \A n \in 1..q : n < m /\ n \in 1..c
      BY <1>4, <1>7, <1>8, <2>3
    <3>3. \A n \in DOMAIN t : Recalled!Before(key, place, t[n], x)
      <4>1. \A n \in 1..q : Recalled!Before(key, place, s[n], s[m])
        BY <1>5, <2>1, <3>2
      <4> QED
        BY <1>8, <2>1, <4>1
    <3> QED
      BY <1>8, <3>1, <3>3
  <2> QED
    BY <1>4, <1>7, <2>2, <2>3
<1>10. NoRepeats(t) /\ \A m, n \in DOMAIN t : m < n => Recalled!Before(key, place, t[m], t[n])
  BY <1>5, <1>6, <1>8 DEF NoRepeats
<1>11. TopOf(t, K, key, place, k)
  BY <1>7, <1>8, <1>9, <1>10 DEF TopOf
<1> QED
  BY <1>11 DEF t, s

LEMMA ListSize ==
    ASSUME NEW K, NEW t \in Seq(K), NoRepeats(t)
    PROVE  /\ IsFiniteSet({t[n] : n \in DOMAIN t})
           /\ Cardinality({t[n] : n \in DOMAIN t}) = Len(t)
<1> DEFINE S == {t[n] : n \in DOMAIN t}
           l == Len(t)
<1>1. l \in Nat /\ DOMAIN t = 1..l
  OBVIOUS
<1> HIDE DEF l
<1>2. IsFiniteSet(1..l) /\ Cardinality(1..l) = l
  <2>1. 1 \in Int /\ l \in Int /\ (IF 1 > l THEN 0 ELSE l - 1 + 1) = l
    BY <1>1
  <2> QED
    BY <2>1, FS_Interval
<1>3. t \in [1..l -> S] /\ \A a, b \in 1..l : t[a] = t[b] => a = b
  BY <1>1 DEF NoRepeats
<1>4. \A b \in S : \E a \in 1..l : t[a] = b
  BY <1>1
<1> HIDE DEF S
<1>5. t \in Bijection(1..l, S)
  BY <1>3, <1>4 DEF Bijection, Injection, Surjection, IsInjective
<1>6. ExistsBijection(1..l, S)
  BY <1>5 DEF ExistsBijection
<1>7. IsFiniteSet(S) /\ Cardinality(S) = l
  BY <1>2, <1>6, FS_Bijection
<1> QED
  BY <1>7 DEF S, l

\* Where one is left out, more are not worse than may be kept.
LEMMA LeftOut ==
    ASSUME NEW K, NEW key, NEW place, NEW k \in Nat, NEW t, TopOf(t, K, key, place, k),
           NEW x \in K, ~InList(t, x), NEW D, IsFiniteSet(D), x \in D, \A n \in DOMAIN t : t[n] \in D
    PROVE  Cardinality(D) > k
<1> DEFINE S == {t[n] : n \in DOMAIN t}
<1>1. t \in Seq(K) /\ NoRepeats(t) /\ Len(t) = k
  BY DEF TopOf
<1>2. IsFiniteSet(S) /\ Cardinality(S) = k
  BY <1>1, ListSize
<1>3. x \notin S /\ S \cup {x} \in SUBSET D
  BY DEF InList
<1> HIDE DEF S
<1>4. Cardinality(S \cup {x}) = k + 1
  BY <1>2, <1>3, FS_AddElement
<1>5. Cardinality(S \cup {x}) <= Cardinality(D) /\ Cardinality(D) \in Nat
  BY <1>3, FS_Subset, FS_CardinalityType
<1> QED
  BY <1>4, <1>5

\* A finite set of integers that is not empty has a largest member and a least.
LargestOf(S, m) == m \in S /\ \A x \in S : m >= x
LeastOf(S, m) == m \in S /\ \A x \in S : m =< x

LEMMA HasLargest ==
    ASSUME NEW S \in SUBSET Int, IsFiniteSet(S), S # {}
    PROVE  LargestOf(S, Recalled!Max(S)) /\ LeastOf(S, Recalled!Min(S))
<1> DEFINE Bigger == {p \in S \X S : p[1] > p[2]}
           Smaller == {p \in S \X S : p[1] < p[2]}
           c == Cardinality(S)
<1>1. /\ \A i, j \in S : <<i, j>> \in Bigger <=> i > j
      /\ \A i, j \in S : <<i, j>> \in Smaller <=> i < j
  OBVIOUS
<1> HIDE DEF Bigger, Smaller
<1>2. c \in Nat /\ c # 0
  BY FS_CardinalityType, FS_EmptySet
<1>3. \E m : LargestOf(S, m)
  <2>1. /\ \A i \in S : <<i, i>> \notin Bigger
        /\ \A i, j, l \in S : <<i, j>> \in Bigger /\ <<j, l>> \in Bigger => <<i, l>> \in Bigger
        /\ \A i, j \in S : i # j => <<i, j>> \in Bigger \/ <<j, i>> \in Bigger
    BY <1>1
  <2>2. /\ \A n \in 1..c : Ranked(S, Bigger, n) \in S
        /\ \A j \in S : \E n \in 1..c : Ranked(S, Bigger, n) = j
        /\ \A m, n \in 1..c : m < n => <<Ranked(S, Bigger, m), Ranked(S, Bigger, n)>> \in Bigger
    BY <2>1, EachRank
  <2> HIDE DEF c
  <2> DEFINE m == Ranked(S, Bigger, 1)
  <2>3. m \in S
    BY <1>2, <2>2
  <2>4. ASSUME NEW x \in S
        PROVE  m >= x
    <3>1. PICK n \in 1..c : Ranked(S, Bigger, n) = x
      BY <2>2
    <3>2. x = m \/ <<m, x>> \in Bigger
      <4>1. n = 1 \/ (1 < n /\ 1 \in 1..c)
        BY <1>2
      <4> QED
        BY <2>2, <3>1, <4>1
    <3>3. m \in Int /\ x \in Int
      BY <2>3
    <3> HIDE DEF m
    <3> QED
      BY <1>1, <2>3, <3>2, <3>3
  <2> QED
    BY <2>3, <2>4 DEF LargestOf
<1>4. \E m : LeastOf(S, m)
  <2>1. /\ \A i \in S : <<i, i>> \notin Smaller
        /\ \A i, j, l \in S : <<i, j>> \in Smaller /\ <<j, l>> \in Smaller => <<i, l>> \in Smaller
        /\ \A i, j \in S : i # j => <<i, j>> \in Smaller \/ <<j, i>> \in Smaller
    BY <1>1
  <2>2. /\ \A n \in 1..c : Ranked(S, Smaller, n) \in S
        /\ \A j \in S : \E n \in 1..c : Ranked(S, Smaller, n) = j
        /\ \A m, n \in 1..c : m < n => <<Ranked(S, Smaller, m), Ranked(S, Smaller, n)>> \in Smaller
    BY <2>1, EachRank
  <2> HIDE DEF c
  <2> DEFINE m == Ranked(S, Smaller, 1)
  <2>3. m \in S
    BY <1>2, <2>2
  <2>4. ASSUME NEW x \in S
        PROVE  m =< x
    <3>1. PICK n \in 1..c : Ranked(S, Smaller, n) = x
      BY <2>2
    <3>2. x = m \/ <<m, x>> \in Smaller
      <4>1. n = 1 \/ (1 < n /\ 1 \in 1..c)
        BY <1>2
      <4> QED
        BY <2>2, <3>1, <4>1
    <3>3. m \in Int /\ x \in Int
      BY <2>3
    <3> HIDE DEF m
    <3> QED
      BY <1>1, <2>3, <3>2, <3>3
  <2> QED
    BY <2>3, <2>4 DEF LeastOf
<1> QED
  BY <1>3, <1>4 DEF Recalled!Max, Recalled!Min, LargestOf, LeastOf

\* What a sequence lists is finite.
LEMMA ListedFinite ==
    ASSUME NEW S, NEW s \in Seq(S), NEW K \in SUBSET DOMAIN s, NEW f \in [DOMAIN s -> Int]
    PROVE  IsFiniteSet(K) /\ IsFiniteSet({f[n] : n \in K})
<1> DEFINE T == {f[n] : n \in K}
           g == [n \in K |-> f[n]]
<1>1. IsFiniteSet(K)
  <2>1. Len(s) \in Nat /\ DOMAIN s = 1..Len(s)
    OBVIOUS
  <2> QED
    BY <2>1, PlacesFinite, FS_Subset
<1>2. g \in Surjection(K, T)
  BY DEF Surjection
<1> HIDE DEF T, g
<1>3. IsFiniteSet(T)
  BY <1>1, <1>2, FS_Surjection
<1> QED
  BY <1>1, <1>3 DEF T

\* The two indexes, from any values of the chunks that the program can be in.
RecalledType ==
    /\ near \in [DOMAIN Chunks -> Similarities \union {Recalled!None}]
    /\ match \in [DOMAIN Chunks -> TextScores \union {Recalled!None}]

RecallNumbers == /\ Chunks \in Seq(Recalled!Range(Chunks)) /\ Freshness \in [Recalled!Range(Chunks) -> Nat]
                 /\ \A c \in DOMAIN Chunks : near[c] \in Int /\ match[c] \in Int /\ (match[c] = -100 \/ match[c] \in Nat)
                 /\ \A c \in DOMAIN Chunks : 3 * match[c] < MinScore
                 /\ Fetch \in Nat /\ MinScore \in Nat /\ MinScore > 0 /\ PoolSize \in Nat /\ Injected \in Nat

LEMMA RecallIntegers ==
    ASSUME Recalled!RecallAssumption, RecalledType
    PROVE  RecallNumbers
<1>1. Similarities \subseteq Int /\ TextScores \subseteq Nat /\ MinScore \in Nat /\ Recalled!None = -100
      /\ \A n \in TextScores : 3 * n < MinScore
  BY DEF Recalled!RecallAssumption, Recalled!None, Recalled!TextWeight
<1>2. \A c \in DOMAIN Chunks : /\ near[c] \in Similarities \cup {-100}
                               /\ match[c] \in TextScores \cup {-100}
  BY <1>1 DEF RecalledType
<1>3. ASSUME NEW c \in DOMAIN Chunks
      PROVE  near[c] \in Int /\ match[c] \in Int /\ (match[c] = -100 \/ match[c] \in Nat)
  <2>1. near[c] \in Int
    <3>1. near[c] \in Similarities \/ near[c] = -100
      BY <1>2
    <3>2. \A n \in Similarities : n \in Int
      BY <1>1
    <3> QED
      BY <3>1, <3>2
  <2>2. match[c] \in Nat \/ match[c] = -100
    BY <1>1, <1>2
  <2> QED
    BY <2>1, <2>2
<1>4. ASSUME NEW c \in DOMAIN Chunks
      PROVE  3 * match[c] < MinScore
  <2>1. CASE match[c] \in TextScores
    BY <1>1, <2>1
  <2>2. CASE match[c] = -100
    BY <1>1, <2>2
  <2> QED
    BY <1>2, <2>1, <2>2
<1> QED
  BY <1>3, <1>4 DEF RecallNumbers, Recalled!RecallAssumption

WithVector == {c \in DOMAIN Chunks : near[c] # -100}
WithText == {c \in DOMAIN Chunks : match[c] # -100}
TextKey == [c \in DOMAIN Chunks |-> -match[c]]

LEMMA IndexResults ==
    ASSUME RecallNumbers
    PROVE  /\ TopOf(Recalled!VectorResults, WithVector, near, Recalled!Rows, Fetch)
           /\ TopOf(Recalled!TextResults, WithText, TextKey, Recalled!Rows, Fetch)
           /\ IsFiniteSet(DOMAIN Chunks)
<1>1. IsFiniteSet(DOMAIN Chunks) /\ DOMAIN Chunks \subseteq Nat
  <2>1. Len(Chunks) \in Nat /\ DOMAIN Chunks = 1..Len(Chunks)
    BY DEF RecallNumbers
  <2> QED
    BY <2>1, PlacesFinite
<1>2. IsFiniteSet(WithVector) /\ IsFiniteSet(WithText)
  <2>1. WithVector \in SUBSET DOMAIN Chunks /\ WithText \in SUBSET DOMAIN Chunks
    BY DEF WithVector, WithText
  <2> QED
    BY <1>1, <2>1, FS_Subset
<1>3. /\ \A i \in WithVector : near[i] \in Int /\ Recalled!Rows[i] \in Int
      /\ \A i \in WithText : TextKey[i] \in Int /\ Recalled!Rows[i] \in Int
      /\ \A i, j \in WithVector : Recalled!Rows[i] = Recalled!Rows[j] => i = j
      /\ \A i, j \in WithText : Recalled!Rows[i] = Recalled!Rows[j] => i = j
  BY <1>1 DEF RecallNumbers, WithVector, WithText, TextKey, Recalled!Rows
<1>4. Fetch \in Nat
  BY DEF RecallNumbers
<1>5. TopOf(Recalled!First(Recalled!Ordered(WithVector, near, Recalled!Rows), Fetch),
            WithVector, near, Recalled!Rows, Fetch)
  BY <1>2, <1>3, <1>4, FirstOfOrder
<1>6. TopOf(Recalled!First(Recalled!Ordered(WithText, TextKey, Recalled!Rows), Fetch),
            WithText, TextKey, Recalled!Rows, Fetch)
  BY <1>2, <1>3, <1>4, FirstOfOrder
<1>7. /\ Recalled!VectorResults = Recalled!First(Recalled!Ordered(WithVector, near, Recalled!Rows), Fetch)
      /\ Recalled!TextResults = Recalled!First(Recalled!Ordered(WithText, TextKey, Recalled!Rows), Fetch)
  BY DEF Recalled!VectorResults, Recalled!TextResults, WithVector, WithText, TextKey, Recalled!None
<1> QED
  BY <1>1, <1>5, <1>6, <1>7

\* An index gives a chunk that the limits have not cut off.
LEMMA IndexedUnlessCut ==
    ASSUME RecallNumbers, NEW c \in DOMAIN Chunks, ~Recalled!CutOff(c)
    PROVE  /\ near[c] # -100 => InList(Recalled!VectorResults, c)
           /\ match[c] # -100 => InList(Recalled!TextResults, c)
<1> DEFINE V == Recalled!VectorResults
           T == Recalled!TextResults
           Nearer == {d \in DOMAIN Chunks : near[d] >= near[c]}
           Matching == {d \in DOMAIN Chunks : match[d] # -100 /\ match[d] <= match[c]}
<1>1. /\ TopOf(V, WithVector, near, Recalled!Rows, Fetch) /\ TopOf(T, WithText, TextKey, Recalled!Rows, Fetch)
      /\ IsFiniteSet(DOMAIN Chunks)
  BY IndexResults
<1>2. /\ near[c] # -100 => ~(Cardinality(Nearer) > Fetch)
      /\ match[c] # -100 => ~(Cardinality(Matching) > Fetch)
  BY RecalledNumbers DEF Recalled!CutOff, Recalled!None
<1>3. IsFiniteSet(Nearer) /\ IsFiniteSet(Matching)
  BY <1>1, FS_Subset
<1>4. Fetch \in Nat /\ \A d \in DOMAIN Chunks : near[d] \in Int /\ match[d] \in Int
  BY DEF RecallNumbers
<1> HIDE DEF V, T
<1>5. ASSUME near[c] # -100, ~InList(V, c)
      PROVE  FALSE
  <2>1. c \in WithVector /\ V \in Seq(WithVector)
    BY <1>1, <1>5 DEF WithVector, TopOf
  <2>2. \A n \in DOMAIN V : Recalled!Before(near, Recalled!Rows, V[n], c)
    BY <1>1, <1>5, <2>1 DEF TopOf
  <2>3. ASSUME NEW n \in DOMAIN V
        PROVE  V[n] \in Nearer
    <3>1. V[n] \in WithVector /\ Recalled!Before(near, Recalled!Rows, V[n], c)
      BY <2>1, <2>2
    <3> QED
      BY <1>4, <3>1 DEF WithVector, Recalled!Before
  <2>4. c \in Nearer
    BY <1>4
  <2> HIDE DEF Nearer
  <2>5. Cardinality(Nearer) > Fetch
    BY <1>1, <1>3, <1>4, <1>5, <2>1, <2>3, <2>4, LeftOut
  <2> QED
    BY <1>2, <1>5, <2>5
<1>6. ASSUME match[c] # -100, ~InList(T, c)
      PROVE  FALSE
  <2>1. c \in WithText /\ T \in Seq(WithText)
    BY <1>1, <1>6 DEF WithText, TopOf
  <2>2. \A n \in DOMAIN T : Recalled!Before(TextKey, Recalled!Rows, T[n], c)
    BY <1>1, <1>6, <2>1 DEF TopOf
  <2>3. ASSUME NEW n \in DOMAIN T
        PROVE  T[n] \in Matching
    <3>1. T[n] \in WithText /\ Recalled!Before(TextKey, Recalled!Rows, T[n], c)
      BY <2>1, <2>2
    <3>2. -match[T[n]] >= -match[c]
      BY <1>4, <3>1 DEF WithText, Recalled!Before, TextKey
    <3> QED
      BY <1>4, <3>1, <3>2 DEF WithText
  <2>4. c \in Matching
    BY <1>4, <1>6
  <2> HIDE DEF Matching
  <2>5. Cardinality(Matching) > Fetch
    BY <1>1, <1>3, <1>4, <1>6, <2>1, <2>3, <2>4, LeftOut
  <2> QED
    BY <1>2, <1>6, <2>5
<1> QED
  BY <1>5, <1>6 DEF V, T

\* The chunks found count no more than they would in full, and none is missing that
\* counts enough and has not been cut off.
AllKept ==
    /\ merged \in Seq([chunk : DOMAIN Chunks, score : Int])
    /\ \A n \in DOMAIN merged :
         merged[n].score >= MinScore => Recalled!FullScore(merged[n].chunk) >= merged[n].score
    /\ \A c \in DOMAIN Chunks : Recalled!FullScore(c) >= MinScore =>
         \/ Recalled!CutOff(c)
         \/ \E n \in DOMAIN merged : merged[n].chunk = c /\ merged[n].score = Recalled!FullScore(c)

\* t lists the chunks of s with their scores.
ScoredOf(t, s, score, S) ==
    /\ t \in Seq([chunk : DOMAIN Chunks, score : Int]) /\ DOMAIN t = DOMAIN s
    /\ \A n \in DOMAIN s : s[n] \in S /\ t[n].chunk = s[n] /\ t[n].score = score[s[n]]

LEMMA ScoredList ==
    ASSUME NEW S, NEW s \in Seq(S), S \subseteq DOMAIN Chunks, NEW score, \A c \in S : score[c] \in Int
    PROVE  ScoredOf(Recalled!Scored(s, score), s, score, S)
<1> DEFINE t == Recalled!Scored(s, score)
<1>1. t = [n \in DOMAIN s |-> [chunk |-> s[n], score |-> score[s[n]]]]
  BY DEF Recalled!Scored
<1> HIDE DEF t
<1>2. DOMAIN s = 1..Len(s) /\ Len(s) \in Nat /\ \A n \in DOMAIN s : s[n] \in S
  OBVIOUS
<1>3. \A n \in DOMAIN s : t[n] = [chunk |-> s[n], score |-> score[s[n]]]
  BY <1>1
<1>4. ASSUME NEW n \in DOMAIN s
      PROVE  t[n] \in [chunk : DOMAIN Chunks, score : Int]
  <2> DEFINE a == s[n]
             b == score[a]
  <2>1. a \in DOMAIN Chunks /\ b \in Int
    BY <1>2
  <2>2. t[n] = [chunk |-> a, score |-> b]
    BY <1>3
  <2> HIDE DEF a, b
  <2> QED
    BY <2>1, <2>2
<1>5. t \in Seq([chunk : DOMAIN Chunks, score : Int])
  BY <1>1, <1>2, <1>4, SeqDef
<1> QED
  BY <1>1, <1>2, <1>3, <1>5 DEF t, ScoredOf

LEMMA TextKept ==
    ASSUME RecallNumbers, method = "fts-only", merged = Recalled!TextOnly
    PROVE  AllKept
<1> DEFINE T == Recalled!TextResults
           score == [c \in DOMAIN Chunks |-> 10 * match[c]]
<1>1. T \in Seq(WithText) /\ WithText \subseteq DOMAIN Chunks
  BY IndexResults DEF TopOf, WithText
<1>2. \A c \in WithText : score[c] \in Int /\ score[c] = 10 * match[c] /\ Recalled!FullScore(c) = score[c]
  BY DEF RecallNumbers, WithText, Recalled!FullScore, Recalled!None
<1>3. merged = Recalled!Scored(T, score)
  BY DEF Recalled!TextOnly
<1> HIDE DEF T, score
<1>4. /\ merged \in Seq([chunk : DOMAIN Chunks, score : Int]) /\ DOMAIN merged = DOMAIN T
      /\ \A n \in DOMAIN T : T[n] \in WithText /\ merged[n].chunk = T[n] /\ merged[n].score = score[T[n]]
  <2>1. \A c \in WithText : score[c] \in Int
    BY <1>2
  <2>2. ScoredOf(Recalled!Scored(T, score), T, score, WithText)
    BY <1>1, <2>1, ScoredList
  <2> QED
    BY <1>3, <2>2 DEF ScoredOf
<1>5. \A n \in DOMAIN merged : Recalled!FullScore(merged[n].chunk) = merged[n].score
  BY <1>2, <1>4
<1>6. ASSUME NEW c \in DOMAIN Chunks, Recalled!FullScore(c) >= MinScore, ~Recalled!CutOff(c)
      PROVE  \E n \in DOMAIN merged : merged[n].chunk = c /\ merged[n].score = Recalled!FullScore(c)
  <2>1. match[c] # -100
    BY <1>6 DEF RecallNumbers, Recalled!FullScore, Recalled!None
  <2>2. PICK n \in DOMAIN T : T[n] = c
    BY <1>6, <2>1, IndexedUnlessCut DEF T, InList
  <2> QED
    BY <1>2, <1>4, <2>2
<1>7. \A n \in DOMAIN merged : merged[n].score \in Int
  BY <1>2, <1>4
<1> QED
  BY <1>4, <1>5, <1>6, <1>7 DEF AllKept

\* The chunks of either list, with their scores and places before they are sorted.
FoundChunks == Recalled!Found(Recalled!VectorResults, Recalled!TextResults)
FoundScores == Recalled!Combined(Recalled!VectorResults, Recalled!TextResults)
FoundPlaces == Recalled!Listed(Recalled!VectorResults, Recalled!TextResults)

\* What the two lists together tell of a chunk: all there is to know if it counts enough.
LEMMA CombinedCounts ==
    ASSUME RecallNumbers, method = "hybrid"
    PROVE  /\ FoundChunks \subseteq DOMAIN Chunks
           /\ \A c : c \in FoundChunks <=> InList(Recalled!VectorResults, c) \/ InList(Recalled!TextResults, c)
           /\ \A c \in DOMAIN Chunks : Recalled!FullScore(c) \in Int
           /\ \A c \in FoundChunks : FoundScores[c] \in Int
           /\ \A c \in FoundChunks : FoundScores[c] >= MinScore =>
                                          Recalled!FullScore(c) >= FoundScores[c]
           /\ \A c \in DOMAIN Chunks : Recalled!FullScore(c) >= MinScore /\ ~Recalled!CutOff(c) =>
                                          c \in FoundChunks /\ FoundScores[c] = Recalled!FullScore(c)
<1> DEFINE V == Recalled!VectorResults
           T == Recalled!TextResults
           InV(c) == InList(V, c)
           InT(c) == InList(T, c)
           Partial(c) == (IF InV(c) THEN 7 * near[c] ELSE 0) + (IF InT(c) THEN 3 * match[c] ELSE 0)
           Total(c) == (IF near[c] = -100 THEN 0 ELSE 7 * near[c]) + (IF match[c] = -100 THEN 0 ELSE 3 * match[c])
<1>1. V \in Seq(WithVector) /\ T \in Seq(WithText)
  BY IndexResults DEF TopOf
<1>2. /\ \A c : c \in Recalled!Range(V) <=> InV(c)
      /\ \A c : c \in Recalled!Range(T) <=> InT(c)
  BY DEF Recalled!Range, InList
<1>3. \A c : c \in FoundChunks <=> InV(c) \/ InT(c)
  BY <1>2 DEF FoundChunks, Recalled!Found
<1>4. \A c \in FoundChunks : FoundScores[c] = Partial(c)
  <2> HIDE DEF V, T, InV, InT
  <2> QED
    BY <1>2 DEF FoundChunks, FoundScores, Recalled!Combined, Recalled!VectorWeight, Recalled!TextWeight, V, T
<1>5. \A c \in DOMAIN Chunks : Recalled!FullScore(c) = Total(c)
  BY DEF Recalled!FullScore, Recalled!None, Recalled!VectorWeight, Recalled!TextWeight
<1>6. /\ \A c : InV(c) => c \in DOMAIN Chunks /\ near[c] # -100
      /\ \A c : InT(c) => c \in DOMAIN Chunks /\ match[c] # -100
  BY <1>1 DEF WithVector, WithText, InList
<1>7. \A c \in DOMAIN Chunks : ~Recalled!CutOff(c) => (near[c] # -100 => InV(c)) /\ (match[c] # -100 => InT(c))
  BY IndexedUnlessCut
<1>8. /\ MinScore \in Nat /\ MinScore > 0
      /\ \A c \in DOMAIN Chunks : /\ near[c] \in Int /\ match[c] \in Int
                                  /\ match[c] = -100 \/ match[c] \in Nat
                                  /\ 3 * match[c] < MinScore
  BY DEF RecallNumbers
<1> HIDE DEF V, T, InV, InT
<1>9. FoundChunks \subseteq DOMAIN Chunks
  BY <1>3, <1>6
<1>10. ASSUME NEW c \in FoundChunks
       PROVE  Partial(c) \in Int /\ (Partial(c) >= MinScore => Total(c) >= Partial(c))
  BY <1>3, <1>6, <1>8, <1>9
<1>11. ASSUME NEW c \in DOMAIN Chunks
       PROVE  /\ Total(c) \in Int
              /\ Total(c) >= MinScore /\ ~Recalled!CutOff(c) => c \in FoundChunks /\ Partial(c) = Total(c)
  BY <1>3, <1>6, <1>7, <1>8
<1> HIDE DEF Partial, Total
<1> QED
  BY <1>3, <1>4, <1>5, <1>9, <1>10, <1>11 DEF V, T, InV, InT

\* Each chunk found has a place of its own in the list that is joined.
LEMMA ListedOnce ==
    ASSUME RecallNumbers, method = "hybrid"
    PROVE  /\ \A c \in FoundChunks : FoundPlaces[c] \in Int
           /\ \A c, d \in FoundChunks : FoundPlaces[c] = FoundPlaces[d] => c = d
<1> DEFINE V == Recalled!VectorResults
           T == Recalled!TextResults
           InV(c) == InList(V, c)
           pv(c) == Recalled!PlaceIn(V, c)
           pt(c) == Recalled!PlaceIn(T, c)
<1>1. V \in Seq(WithVector) /\ T \in Seq(WithText)
  BY IndexResults DEF TopOf
<1>2. \A c \in FoundChunks : InV(c) \/ InList(T, c)
  BY CombinedCounts
<1>3. \A c : c \in Recalled!Range(V) <=> InV(c)
  BY DEF Recalled!Range, InList
<1>4. /\ \A c : InV(c) => pv(c) \in DOMAIN V /\ V[pv(c)] = c
      /\ \A c : InList(T, c) => pt(c) \in DOMAIN T /\ T[pt(c)] = c
  BY DEF Recalled!PlaceIn, InList
<1>5. \A c \in FoundChunks : FoundPlaces[c] = IF InV(c) THEN pv(c) ELSE Len(V) + pt(c)
  <2> HIDE DEF V, T, InV
  <2> QED
    BY <1>3 DEF FoundChunks, FoundPlaces, Recalled!Listed, V, T
<1> HIDE DEF V, T, InV, pv, pt
<1>6. /\ Len(V) \in Nat /\ DOMAIN V = 1..Len(V)
      /\ Len(T) \in Nat /\ DOMAIN T = 1..Len(T)
  BY <1>1
<1>7. \A c : /\ InV(c) => pv(c) \in Int /\ pv(c) <= Len(V)
             /\ InList(T, c) => pt(c) \in Int /\ pt(c) > 0
  BY <1>4, <1>6
<1>8. ASSUME NEW c \in FoundChunks, NEW d \in FoundChunks, FoundPlaces[c] = FoundPlaces[d]
      PROVE  c = d
  <2>1. CASE InV(c) /\ InV(d)
    <3>1. V[pv(c)] = c /\ V[pv(d)] = d
      BY <1>4, <2>1
    <3>2. pv(c) = pv(d)
      BY <1>5, <1>8, <2>1
    <3> QED
      BY <3>1, <3>2
  <2>2. CASE ~InV(c) /\ ~InV(d)
    <3>1. pt(c) = pt(d)
      BY <1>2, <1>5, <1>6, <1>7, <1>8, <2>2
    <3> QED
      BY <1>2, <1>4, <2>2, <3>1
  <2>3. ASSUME NEW x \in FoundChunks, NEW y \in FoundChunks, InV(x), ~InV(y)
        PROVE  FoundPlaces[x] # FoundPlaces[y]
    <3>1. FoundPlaces[x] = pv(x) /\ FoundPlaces[y] = Len(V) + pt(y)
      BY <1>5, <2>3
    <3>2. pv(x) \in Int /\ pv(x) <= Len(V) /\ pt(y) \in Int /\ pt(y) > 0
      BY <1>2, <1>7, <2>3
    <3> QED
      BY <1>6, <3>1, <3>2
  <2> QED
    BY <1>8, <2>1, <2>2, <2>3
<1>9. \A c \in FoundChunks : FoundPlaces[c] \in Int
  BY <1>2, <1>5, <1>6, <1>7
<1> QED
  BY <1>8, <1>9

LEMMA HybridKept ==
    ASSUME RecallNumbers, method = "hybrid", merged = Recalled!Hybrid
    PROVE  AllKept
<1> DEFINE Full(c) == Recalled!FullScore(c)
           score == FoundScores
           K == {c \in FoundChunks : score[c] >= 0}
           F == Recalled!First(Recalled!Ordered(K, score, FoundPlaces), Fetch)
<1>1. /\ K \subseteq FoundChunks /\ K \subseteq DOMAIN Chunks /\ IsFiniteSet(K)
  <2>1. K \subseteq FoundChunks /\ K \subseteq DOMAIN Chunks
    BY CombinedCounts
  <2> QED
    BY <2>1, IndexResults, FS_Subset
<1>2. /\ \A c \in FoundChunks : score[c] \in Int
      /\ \A c \in FoundChunks : score[c] >= MinScore => Full(c) >= score[c]
      /\ \A c \in DOMAIN Chunks : Full(c) \in Int
      /\ \A c \in DOMAIN Chunks : Full(c) >= MinScore /\ ~Recalled!CutOff(c) =>
                                    c \in FoundChunks /\ score[c] = Full(c)
  BY CombinedCounts
<1>3. /\ \A c \in FoundChunks : FoundPlaces[c] \in Int
      /\ \A c, d \in FoundChunks : FoundPlaces[c] = FoundPlaces[d] => c = d
  BY ListedOnce
<1>4. Fetch \in Nat /\ MinScore \in Nat
  BY DEF RecallNumbers
<1>5. merged = Recalled!Scored(F, score)
  BY DEF Recalled!Hybrid, FoundChunks, FoundScores, FoundPlaces
<1>6. \A c \in K : c \in FoundChunks /\ score[c] \in Int /\ score[c] >= 0
  BY <1>2
<1>7. \A c \in FoundChunks : score[c] >= MinScore => c \in K
  BY <1>2, <1>4
<1> HIDE DEF K, score
<1>8. TopOf(F, K, score, FoundPlaces, Fetch)
  BY <1>1, <1>3, <1>4, <1>6, FirstOfOrder
<1> HIDE DEF F, Full
<1>9. F \in Seq(K)
  BY <1>8 DEF TopOf
<1>10. /\ merged \in Seq([chunk : DOMAIN Chunks, score : Int]) /\ DOMAIN merged = DOMAIN F
       /\ \A n \in DOMAIN F : F[n] \in K /\ merged[n].chunk = F[n] /\ merged[n].score = score[F[n]]
  <2>1. \A c \in K : score[c] \in Int
    BY <1>6
  <2>2. ScoredOf(Recalled!Scored(F, score), F, score, K)
    BY <1>1, <1>9, <2>1, ScoredList
  <2> QED
    BY <1>5, <2>2 DEF ScoredOf
<1>11. \A n \in DOMAIN merged : merged[n].score >= MinScore => Full(merged[n].chunk) >= merged[n].score
  BY <1>2, <1>6, <1>10
<1>12. ASSUME NEW c \in DOMAIN Chunks, Full(c) >= MinScore, ~Recalled!CutOff(c)
       PROVE  \E n \in DOMAIN merged : merged[n].chunk = c /\ merged[n].score = Full(c)
  <2>1. c \in K /\ score[c] = Full(c)
    BY <1>2, <1>7, <1>12
  <2> DEFINE D == {d \in DOMAIN Chunks : Full(d) >= Full(c)}
  <2>2. IsFiniteSet(D) /\ c \in D
    <3>1. D \in SUBSET DOMAIN Chunks /\ c \in D
      BY <1>2
    <3> QED
      BY <3>1, IndexResults, FS_Subset
  <2>3. ~(Cardinality(D) > Fetch)
    BY <1>12, RecalledNumbers DEF Recalled!CutOff, Full
  <2>4. InList(F, c)
    <3> SUFFICES ASSUME ~InList(F, c)
                 PROVE  FALSE
      OBVIOUS
    <3>1. \A n \in DOMAIN F : Recalled!Before(score, FoundPlaces, F[n], c)
      BY <1>8, <2>1 DEF TopOf
    <3>2. ASSUME NEW n \in DOMAIN F
          PROVE  F[n] \in D
      <4>1. F[n] \in K /\ score[F[n]] \in Int /\ F[n] \in DOMAIN Chunks /\ F[n] \in FoundChunks
        BY <1>1, <1>6, <1>10
      <4>2. score[F[n]] >= Full(c)
        BY <1>2, <2>1, <3>1, <4>1 DEF Recalled!Before
      <4>3. Full(F[n]) >= score[F[n]] /\ Full(F[n]) \in Int /\ Full(c) \in Int
        BY <1>2, <1>4, <1>12, <4>1, <4>2
      <4> QED
        BY <4>1, <4>2, <4>3
    <3> HIDE DEF D
    <3>3. Cardinality(D) > Fetch
      BY <1>4, <1>8, <2>1, <2>2, <3>2, LeftOut
    <3> QED
      BY <2>3, <3>3
  <2>5. PICK n \in DOMAIN F : F[n] = c
    BY <2>4 DEF InList
  <2> QED
    BY <1>10, <2>1, <2>5
<1> QED
  BY <1>10, <1>11, <1>12 DEF AllKept, Full

\* A memory counts by its best chunk, whose place is its own.
Kinds == Recalled!Range(Chunks)

BestOf(id) ==
    /\ \E n \in DOMAIN merged : Recalled!Memory(n) = id /\ merged[n].score = Recalled!BestScore(id)
    /\ \A n \in DOMAIN merged : Recalled!Memory(n) = id => Recalled!BestScore(id) >= merged[n].score
    /\ Recalled!BestScore(id) \in Int
    /\ Recalled!FirstPlace(id) \in DOMAIN merged /\ Recalled!Memory(Recalled!FirstPlace(id)) = id

LEMMA BestCounts ==
    ASSUME RecallNumbers, AllKept
    PROVE  /\ IsFiniteSet(Recalled!Memories) /\ Recalled!Memories \subseteq Kinds
           /\ \A id \in Recalled!Memories : BestOf(id)
           /\ DOMAIN merged \subseteq Int
<1> DEFINE Scoring == [chunk : DOMAIN Chunks, score : Int]
           score == [n \in DOMAIN merged |-> merged[n].score]
           place == [n \in DOMAIN merged |-> n]
<1>1. merged \in Seq(Scoring) /\ DOMAIN merged = 1..Len(merged) /\ Len(merged) \in Nat
  BY DEF AllKept
<1>2. \A n \in DOMAIN merged : merged[n].chunk \in DOMAIN Chunks /\ merged[n].score \in Int /\ n \in Int
  <2> TAKE n \in DOMAIN merged
  <2>1. merged[n] \in Scoring
    <3> HIDE DEF Scoring
    <3> QED
      BY <1>1
  <2> QED
    BY <1>1, <2>1
<1>3. /\ score \in [DOMAIN merged -> Int] /\ place \in [DOMAIN merged -> Int]
      /\ \A n \in DOMAIN merged : score[n] = merged[n].score /\ place[n] = n
  BY <1>2
<1> HIDE DEF score, place, Scoring
<1>4. Recalled!Memories \subseteq Kinds
  BY <1>2 DEF Recalled!Memories, Recalled!Memory, Recalled!Range, Kinds
<1>5. IsFiniteSet(Kinds)
  <2> DEFINE f == [c \in DOMAIN Chunks |-> Chunks[c]]
  <2>1. f \in Surjection(DOMAIN Chunks, Kinds)
    BY DEF Surjection, Kinds, Recalled!Range
  <2> HIDE DEF f
  <2> QED
    BY <2>1, IndexResults, FS_Surjection
<1>6. IsFiniteSet(Recalled!Memories)
  BY <1>4, <1>5, FS_Subset
<1>7. ASSUME NEW id \in Recalled!Memories
      PROVE  BestOf(id)
  <2> DEFINE P == {n \in DOMAIN merged : Recalled!Memory(n) = id}
             S == {score[n] : n \in P}
             Q == {place[n] : n \in P}
  <2>1. P \in SUBSET DOMAIN merged /\ P # {}
    BY DEF Recalled!Memories
  <2>2. Recalled!BestScore(id) = Recalled!Max(S)
    <3>1. S = {merged[n].score : n \in P}
      BY <1>3, <2>1
    <3> QED
      BY <3>1 DEF Recalled!BestScore
  <2>3. Recalled!FirstPlace(id) = Recalled!Min(Q)
    <3>1. Q = P
      BY <1>3, <2>1
    <3> QED
      BY <3>1 DEF Recalled!FirstPlace
  <2> HIDE DEF P
  <2>4. IsFiniteSet(S) /\ IsFiniteSet(Q)
    BY <1>1, <1>3, <2>1, ListedFinite, ZenonT(30)
  <2>5. S \in SUBSET Int /\ Q \in SUBSET Int /\ S # {} /\ Q # {}
    BY <1>3, <2>1
  <2>6. LargestOf(S, Recalled!BestScore(id)) /\ LeastOf(Q, Recalled!FirstPlace(id))
    <3> HIDE DEF S, Q
    <3> QED
      BY <2>2, <2>3, <2>4, <2>5, HasLargest
  <2>7. PICK n \in P : score[n] = Recalled!BestScore(id)
    BY <2>6 DEF LargestOf
  <2>8. n \in DOMAIN merged /\ Recalled!Memory(n) = id /\ merged[n].score = Recalled!BestScore(id)
    BY <1>3, <2>1, <2>7 DEF P
  <2>9. ASSUME NEW m \in DOMAIN merged, Recalled!Memory(m) = id
        PROVE  Recalled!BestScore(id) >= merged[m].score
    <3>1. m \in P /\ score[m] = merged[m].score
      BY <1>3, <2>9 DEF P
    <3> QED
      BY <2>6, <3>1 DEF LargestOf
  <2>10. Recalled!FirstPlace(id) \in DOMAIN merged /\ Recalled!Memory(Recalled!FirstPlace(id)) = id
    <3>1. PICK m \in P : place[m] = Recalled!FirstPlace(id)
      BY <2>6 DEF LeastOf
    <3>2. m = Recalled!FirstPlace(id)
      BY <1>3, <2>1, <3>1
    <3> QED
      BY <3>1, <3>2 DEF P
  <2> QED
    BY <1>2, <2>8, <2>9, <2>10 DEF BestOf
<1> QED
  BY <1>1, <1>4, <1>6, <1>7

\* The candidates: memories of a searchable type whose best chunk reaches the threshold.
Fit == {id \in Recalled!Memories : Recalled!BestScore(id) >= MinScore /\ id \in searchable}
FitKey == [id \in Recalled!Memories |-> Recalled!BestScore(id) * Freshness[id]]
FitPlace == [id \in Recalled!Memories |-> Recalled!FirstPlace(id)]

LEMMA FirstCandidates ==
    ASSUME RecallNumbers, AllKept, NEW k \in Nat
    PROVE  TopOf(Recalled!First(Recalled!Candidates, k), Fit, FitKey, FitPlace, k)
<1>1. /\ IsFiniteSet(Recalled!Memories) /\ Recalled!Memories \subseteq Kinds
      /\ \A id \in Recalled!Memories : BestOf(id)
      /\ DOMAIN merged \subseteq Int
  BY BestCounts
<1>2. Fit \subseteq Recalled!Memories /\ IsFiniteSet(Fit)
  <2>1. Fit \in SUBSET Recalled!Memories
    BY DEF Fit
  <2> QED
    BY <1>1, <2>1, FS_Subset
<1>3. ASSUME NEW id \in Fit
      PROVE  FitKey[id] \in Int /\ FitPlace[id] \in Int
  <2>1. Recalled!BestScore(id) \in Int /\ Recalled!FirstPlace(id) \in Int /\ id \in Recalled!Memories
    BY <1>1, <1>2 DEF BestOf
  <2>2. Freshness[id] \in Int
    BY <1>1, <1>2 DEF RecallNumbers, Kinds
  <2>3. \A a, b \in Int : a * b \in Int
    OBVIOUS
  <2> QED
    BY <2>1, <2>2, <2>3 DEF FitKey, FitPlace
<1>4. \A id, other \in Fit : FitPlace[id] = FitPlace[other] => id = other
  BY <1>1, <1>2 DEF FitPlace, BestOf
<1>5. Recalled!Candidates = Recalled!Ordered(Fit, FitKey, FitPlace)
  BY DEF Recalled!Candidates, Fit, FitKey, FitPlace
<1> QED
  BY <1>2, <1>3, <1>4, <1>5, FirstOfOrder

\* What BestRecalled says of a choice w made at a stage.
Chosen(w, where) ==
    LET given == Recalled!Range(w) IN
    /\ Recalled!IsInjective(w)
    /\ given \subseteq {id \in searchable : Recalled!Full(id) >= MinScore}
    /\ \A id \in searchable \ given : \A c \in Recalled!ChunksOf(id) :
          \/ Recalled!FullScore(c) < MinScore \/ Recalled!CutOff(c)
          \/ /\ Recalled!Cardinality(given) = IF where = "reranked" /\ PoolSize < Injected THEN PoolSize ELSE Injected
             /\ where = "taken" => \A other \in given :
                  Recalled!Full(other) * Freshness[other] >= Recalled!FullScore(c) * Freshness[id]

\* A candidate counts in full no less than the search says, and a memory is a candidate
\* that counts no less than any chunk of it that counts enough and is not cut off.
Worth(id, c) == /\ id \in Fit
                /\ Recalled!BestScore(id) >= Recalled!FullScore(c)

LEMMA FullCounts ==
    ASSUME RecallNumbers, AllKept
    PROVE  /\ \A c \in DOMAIN Chunks : Recalled!FullScore(c) \in Int
           /\ \A id \in Fit : /\ Recalled!Full(id) \in Int /\ Recalled!BestScore(id) \in Int
                              /\ Recalled!Full(id) >= Recalled!BestScore(id)
                              /\ Recalled!BestScore(id) >= MinScore /\ MinScore \in Int
                              /\ id \in searchable /\ Freshness[id] \in Nat
           /\ \A id \in searchable : \A c \in Recalled!ChunksOf(id) :
                Recalled!FullScore(c) < MinScore \/ Recalled!CutOff(c) \/ Worth(id, c)
<1>1. \A c \in DOMAIN Chunks : Recalled!FullScore(c) \in Int
  <2> TAKE c \in DOMAIN Chunks
  <2> DEFINE n == near[c]
             m == match[c]
             one == IF m = -100 THEN -100 ELSE 10 * m
             two == (IF n = -100 THEN 0 ELSE 7 * n) + (IF m = -100 THEN 0 ELSE 3 * m)
  <2>1. n \in Int /\ m \in Int
    BY DEF RecallNumbers
  <2>2. Recalled!FullScore(c) = IF method = "hybrid" THEN two ELSE one
    BY DEF Recalled!FullScore, Recalled!None, Recalled!VectorWeight, Recalled!TextWeight
  <2> HIDE DEF n, m
  <2>3. one \in Int /\ two \in Int
    BY <2>1
  <2> HIDE DEF one, two
  <2> QED
    BY <2>2, <2>3
<1>2. /\ Recalled!Memories \subseteq Kinds /\ \A id \in Recalled!Memories : BestOf(id)
  BY BestCounts
<1>3. /\ Chunks \in Seq(Recalled!Range(Chunks)) /\ Freshness \in [Kinds -> Nat] /\ MinScore \in Int
      /\ merged \in Seq([chunk : DOMAIN Chunks, score : Int])
      /\ \A n \in DOMAIN merged : merged[n].score >= MinScore => Recalled!FullScore(merged[n].chunk) >= merged[n].score
      /\ \A c \in DOMAIN Chunks : Recalled!FullScore(c) >= MinScore =>
           \/ Recalled!CutOff(c)
           \/ \E n \in DOMAIN merged : merged[n].chunk = c /\ merged[n].score = Recalled!FullScore(c)
  BY DEF RecallNumbers, Kinds, AllKept
<1>4. \A n \in DOMAIN merged : merged[n].chunk \in DOMAIN Chunks /\ merged[n].score \in Int
  <2> DEFINE Scoring == [chunk : DOMAIN Chunks, score : Int]
  <2> TAKE n \in DOMAIN merged
  <2>1. merged[n] \in Scoring
    <3>1. merged \in Seq(Scoring)
      BY <1>3
    <3> HIDE DEF Scoring
    <3> QED
      BY <3>1
  <2> QED
    BY <2>1
<1>5. ASSUME NEW id \in Fit
      PROVE  /\ Recalled!Full(id) \in Int /\ Recalled!BestScore(id) \in Int
             /\ Recalled!Full(id) >= Recalled!BestScore(id)
             /\ Recalled!BestScore(id) >= MinScore
             /\ id \in searchable /\ Freshness[id] \in Nat
  <2>1. id \in Recalled!Memories /\ Recalled!BestScore(id) >= MinScore /\ id \in searchable
    BY DEF Fit
  <2>2. BestOf(id) /\ Freshness[id] \in Nat
    BY <1>2, <1>3, <2>1
  <2>3. PICK n \in DOMAIN merged : Recalled!Memory(n) = id /\ merged[n].score = Recalled!BestScore(id)
    BY <2>2 DEF BestOf
  <2> DEFINE C == Recalled!ChunksOf(id)
             f == [c \in DOMAIN Chunks |-> Recalled!FullScore(c)]
             S == {f[c] : c \in C}
             m == merged[n].chunk
  <2>4. C \in SUBSET DOMAIN Chunks /\ m \in C
    BY <1>4, <2>3 DEF Recalled!ChunksOf, Recalled!Memory
  <2>5. f \in [DOMAIN Chunks -> Int] /\ \A c \in DOMAIN Chunks : f[c] = Recalled!FullScore(c)
    BY <1>1
  <2>6. Recalled!Full(id) = Recalled!Max(S)
    <3>1. S = {Recalled!FullScore(c) : c \in C}
      BY <2>4
    <3> QED
      BY <3>1 DEF Recalled!Full
  <2> HIDE DEF f, C
  <2>7. IsFiniteSet(S)
    BY <1>3, <2>4, <2>5, ListedFinite, ZenonT(30)
  <2>8. S \in SUBSET Int /\ S # {} /\ f[m] \in S
    BY <2>4, <2>5
  <2> HIDE DEF S
  <2>9. LargestOf(S, Recalled!Full(id))
    BY <2>6, <2>7, <2>8, HasLargest
  <2>10. Recalled!Full(id) \in Int /\ Recalled!Full(id) >= f[m]
    BY <2>8, <2>9 DEF LargestOf
  <2>11. f[m] >= Recalled!BestScore(id) /\ f[m] \in Int /\ Recalled!BestScore(id) \in Int
    BY <1>1, <1>3, <1>4, <2>1, <2>3, <2>5
  <2>12. Recalled!Full(id) >= Recalled!BestScore(id)
    BY <2>10, <2>11
  <2> QED
    BY <2>1, <2>2, <2>10, <2>11, <2>12
<1>6. ASSUME NEW id \in searchable, NEW c \in Recalled!ChunksOf(id),
             ~(Recalled!FullScore(c) < MinScore), ~Recalled!CutOff(c)
      PROVE  Worth(id, c)
  <2>1. c \in DOMAIN Chunks /\ Chunks[c] = id /\ Recalled!FullScore(c) \in Int
    BY <1>1 DEF Recalled!ChunksOf
  <2>2. Recalled!FullScore(c) >= MinScore
    BY <1>3, <1>6, <2>1
  <2>3. PICK n \in DOMAIN merged : merged[n].chunk = c /\ merged[n].score = Recalled!FullScore(c)
    BY <1>3, <1>6, <2>1, <2>2
  <2>4. Recalled!Memory(n) = id /\ id \in Recalled!Memories
    BY <2>1, <2>3 DEF Recalled!Memory, Recalled!Memories
  <2>5. Recalled!BestScore(id) >= Recalled!FullScore(c) /\ Recalled!BestScore(id) \in Int
    BY <1>2, <2>3, <2>4 DEF BestOf
  <2>6. Recalled!BestScore(id) >= MinScore
    BY <1>3, <2>1, <2>2, <2>5
  <2> QED
    BY <2>4, <2>5, <2>6 DEF Worth, Fit
<1> QED
  BY <1>1, <1>3, <1>5, <1>6

LEMMA MoreTimesMore ==
    ASSUME NEW a \in Int, NEW b \in Int, NEW f \in Nat, a >= b
    PROVE  a * f >= b * f
<1>1. (a - b) * f >= 0
  OBVIOUS
<1>2. (a - b) * f = a * f - b * f
  OBVIOUS
<1> QED
  BY <1>1, <1>2

\* A list without repetitions, of candidates only, that leaves out none without cause.
LEMMA ChosenIf ==
    ASSUME RecallNumbers, AllKept, NEW where, NEW w \in Seq(Fit), NoRepeats(w),
           \A id \in Fit : ~InList(w, id) =>
               /\ Len(w) = IF where = "reranked" /\ PoolSize < Injected THEN PoolSize ELSE Injected
               /\ where = "taken" => \A n \in DOMAIN w : FitKey[w[n]] >= FitKey[id]
    PROVE  Chosen(w, where)
<1> DEFINE given == Recalled!Range(w)
           Full(id) == Recalled!Full(id)
           Best(id) == Recalled!BestScore(id)
           Expected == IF where = "reranked" /\ PoolSize < Injected THEN PoolSize ELSE Injected
<1>1. /\ \A x : x \in given <=> InList(w, x)
      /\ given = {w[n] : n \in DOMAIN w}
  BY DEF Recalled!Range, InList
<1>2. /\ \A c \in DOMAIN Chunks : Recalled!FullScore(c) \in Int
      /\ \A id \in Fit : /\ Full(id) \in Int /\ Best(id) \in Int
                         /\ Full(id) >= Best(id) /\ Best(id) >= MinScore /\ MinScore \in Int
                         /\ id \in searchable /\ Freshness[id] \in Nat
      /\ \A id \in searchable : \A c \in Recalled!ChunksOf(id) :
           Recalled!FullScore(c) < MinScore \/ Recalled!CutOff(c) \/ Worth(id, c)
  BY FullCounts
<1>3. \A id \in Fit : FitKey[id] = Best(id) * Freshness[id]
  BY DEF FitKey, Fit
<1>4. \A n \in DOMAIN w : w[n] \in Fit
  OBVIOUS
<1>5. \A id \in given : id \in searchable /\ Full(id) >= MinScore
  <2> TAKE id \in given
  <2>1. id \in Fit
    BY <1>1, <1>4
  <2> HIDE DEF Full, Best, given
  <2>2. id \in searchable /\ Full(id) \in Int /\ Best(id) \in Int /\ Full(id) >= Best(id)
        /\ Best(id) >= MinScore /\ MinScore \in Int
    BY <1>2, <2>1
  <2> QED
    BY <2>2
<1>6. Recalled!Cardinality(given) = Len(w)
  BY <1>1, RecalledNumbers, ListSize
<1>7. Recalled!IsInjective(w)
  BY DEF NoRepeats, Recalled!IsInjective
<1> HIDE DEF given, Full, Best, Expected
<1>8. ASSUME NEW id \in searchable \ given, NEW c \in Recalled!ChunksOf(id),
             ~(Recalled!FullScore(c) < MinScore), ~Recalled!CutOff(c)
      PROVE  /\ Recalled!Cardinality(given) = Expected
             /\ where = "taken" => \A other \in given :
                  Full(other) * Freshness[other] >= Recalled!FullScore(c) * Freshness[id]
  <2>1. id \in Fit /\ Best(id) >= Recalled!FullScore(c)
    BY <1>2, <1>8 DEF Worth, Best
  <2>2. ~InList(w, id)
    BY <1>1
  <2>3. Recalled!Cardinality(given) = Expected
    BY <1>6, <2>1, <2>2 DEF Expected
  <2>4. ASSUME where = "taken", NEW other \in given
        PROVE  Full(other) * Freshness[other] >= Recalled!FullScore(c) * Freshness[id]
    <3>1. PICK n \in DOMAIN w : w[n] = other
      BY <1>1 DEF InList
    <3>2. other \in Fit /\ FitKey[other] >= FitKey[id]
      BY <1>4, <2>1, <2>2, <2>4, <3>1
    <3> DEFINE fo == Freshness[other]
               fi == Freshness[id]
               s == Recalled!FullScore(c)
               bo == Best(other)
               bi == Best(id)
               u == Full(other)
    <3>3. fo \in Nat /\ fi \in Nat /\ u \in Int /\ bo \in Int /\ bi \in Int /\ s \in Int /\ u >= bo /\ bi >= s
      <4>1. s \in Int
        BY <1>2 DEF Recalled!ChunksOf
      <4> QED
        BY <1>2, <2>1, <3>2, <4>1
    <3>4. bo * fo >= bi * fi
      BY <1>3, <2>1, <3>2
    <3> HIDE DEF fo, fi, s, bo, bi, u
    <3>5. u * fo >= bo * fo /\ bi * fi >= s * fi
      BY <3>3, MoreTimesMore
    <3>6. u * fo \in Int /\ bo * fo \in Int /\ bi * fi \in Int /\ s * fi \in Int
      BY <3>3
    <3>7. u * fo >= s * fi
      <4> DEFINE e == u * fo
                 g == bo * fo
                 h == bi * fi
                 i == s * fi
      <4>1. e \in Int /\ g \in Int /\ h \in Int /\ i \in Int /\ e >= g /\ g >= h /\ h >= i
        BY <3>4, <3>5, <3>6
      <4> HIDE DEF e, g, h, i
      <4>2. e >= i
        BY <4>1
      <4> QED
        BY <4>2 DEF e, i
    <3> QED
      BY <3>7 DEF u, fo, s, fi
  <2> QED
    BY <2>3, <2>4
<1> QED
  BY <1>5, <1>7, <1>8 DEF Chosen, given, Full, Expected

LEMMA TakenBest ==
    ASSUME RecallNumbers, AllKept
    PROVE  Chosen(Recalled!First(Recalled!Candidates, Injected), "taken")
<1> DEFINE w == Recalled!First(Recalled!Candidates, Injected)
<1>1. TopOf(w, Fit, FitKey, FitPlace, Injected)
  <2>1. Injected \in Nat
    BY DEF RecallNumbers
  <2> QED
    BY <2>1, FirstCandidates
<1> HIDE DEF w
<1>2. w \in Seq(Fit) /\ NoRepeats(w)
  BY <1>1 DEF TopOf
<1>3. \A id \in Fit : FitKey[id] \in Int
  <2> TAKE id \in Fit
  <2>1. Recalled!BestScore(id) \in Int /\ Freshness[id] \in Int
    BY FullCounts
  <2>2. \A a, b \in Int : a * b \in Int
    OBVIOUS
  <2> QED
    BY <2>1, <2>2 DEF FitKey, Fit
<1>4. ASSUME NEW id \in Fit, ~InList(w, id)
      PROVE  Len(w) = Injected /\ \A n \in DOMAIN w : FitKey[w[n]] >= FitKey[id]
  <2>1. Len(w) = Injected /\ \A n \in DOMAIN w : Recalled!Before(FitKey, FitPlace, w[n], id)
    BY <1>1, <1>4 DEF TopOf
  <2>2. \A n \in DOMAIN w : FitKey[w[n]] \in Int
    BY <1>2, <1>3
  <2> QED
    BY <1>3, <2>1, <2>2 DEF Recalled!Before
<1>5. Chosen(w, "taken")
  BY <1>2, <1>4, ChosenIf
<1> QED
  BY <1>5 DEF w

\* The reranker's order is one of the pool: none is doubled, none is lost.
LEMMA EveryPlace ==
    ASSUME NEW l \in Nat, NEW perm \in [1..l -> 1..l],
           \A i, j \in 1..l : perm[i] = perm[j] => i = j
    PROVE  \A m \in 1..l : \E i \in 1..l : perm[i] = m
<1>1. perm \in Injection(1..l, 1..l)
  BY DEF Injection, IsInjective
<1>2. perm \in Surjection(1..l, 1..l)
  BY <1>1, PlacesFinite, FS_Injection
<1> QED
  BY <1>2 DEF Surjection

LEMMA RerankedBest ==
    ASSUME RecallNumbers, AllKept, NEW pool, pool = Recalled!First(Recalled!Candidates, PoolSize),
           NEW perm \in [DOMAIN pool -> DOMAIN pool], Recalled!IsInjective(perm)
    PROVE  Chosen(Recalled!First([i \in DOMAIN pool |-> pool[perm[i]]], Injected), "reranked")
<1> DEFINE l == Len(pool)
           s == [i \in DOMAIN pool |-> pool[perm[i]]]
           q == IF Len(s) < Injected THEN Len(s) ELSE Injected
           w == Recalled!First(s, Injected)
<1>1. PoolSize \in Nat /\ Injected \in Nat
  BY DEF RecallNumbers
<1>2. TopOf(pool, Fit, FitKey, FitPlace, PoolSize)
  BY <1>1, FirstCandidates
<1>3. /\ pool \in Seq(Fit) /\ NoRepeats(pool) /\ l <= PoolSize /\ l \in Nat /\ DOMAIN pool = 1..l
      /\ \A id \in Fit : InList(pool, id) \/ l = PoolSize
  BY <1>2 DEF TopOf
<1>4. \A i, j \in 1..l : perm[i] = perm[j] => i = j
  BY <1>3 DEF Recalled!IsInjective
<1>5. \A m \in 1..l : \E i \in 1..l : perm[i] = m
  <2>1. perm \in [1..l -> 1..l]
    BY <1>3
  <2> HIDE DEF l
  <2> QED
    BY <1>3, <1>4, <2>1, EveryPlace
<1>6. /\ s \in Seq(Fit) /\ Len(s) = l /\ DOMAIN s = 1..l
      /\ \A i \in 1..l : perm[i] \in 1..l /\ s[i] = pool[perm[i]]
  <2>1. \A i \in 1..l : perm[i] \in 1..l /\ pool[perm[i]] \in Fit
    BY <1>3
  <2>2. s = [i \in 1..l |-> pool[perm[i]]]
    BY <1>3
  <2> HIDE DEF s, l
  <2> QED
    BY <1>3, <2>1, <2>2, SeqDef
<1> HIDE DEF l, s
<1>7. q \in Nat /\ q <= l /\ (q = l \/ (q = Injected /\ q < l)) /\ (q = l => l <= Injected) /\ q <= Injected
  BY <1>1, <1>3, <1>6
<1>8. w \in Seq(Fit) /\ Len(w) = q /\ DOMAIN w = 1..q /\ \A i \in 1..q : i \in 1..l /\ w[i] = s[i]
  <2>1. w = SubSeq(s, 1, q)
    BY DEF Recalled!First
  <2> HIDE DEF w, q
  <2>2. \A i \in 1..q : i \in 1..l /\ s[i] \in Fit
    BY <1>3, <1>6, <1>7
  <2>3. SubSeq(s, 1, q) = [i \in 1..q |-> s[i]]
    BY <1>3, <1>6, <1>7
  <2> QED
    BY <1>7, <2>1, <2>2, <2>3, SeqDef
<1> HIDE DEF w, q
<1>9. NoRepeats(w)
  <2>1. ASSUME NEW i \in 1..q, NEW j \in 1..q, w[i] = w[j]
        PROVE  i = j
    <3>1. i \in 1..l /\ j \in 1..l /\ pool[perm[i]] = pool[perm[j]]
      BY <1>6, <1>8, <2>1
    <3>2. perm[i] \in DOMAIN pool /\ perm[j] \in DOMAIN pool
      BY <1>3, <1>6, <3>1
    <3>3. perm[i] = perm[j]
      BY <1>3, <3>1, <3>2 DEF NoRepeats
    <3> QED
      BY <1>4, <3>1, <3>3
  <2> QED
    BY <1>8, <2>1 DEF NoRepeats
<1>10. ASSUME NEW id \in Fit, ~InList(w, id)
       PROVE  Len(w) = IF PoolSize < Injected THEN PoolSize ELSE Injected
  <2>1. CASE ~InList(pool, id)
    <3>1. l = PoolSize
      BY <1>3, <2>1
    <3> QED
      BY <1>1, <1>7, <1>8, <3>1
  <2>2. CASE InList(pool, id)
    <3>1. PICK m \in 1..l : pool[m] = id
      BY <1>3, <2>2 DEF InList
    <3>2. PICK i \in 1..l : perm[i] = m
      BY <1>5
    <3>3. s[i] = id
      BY <1>6, <3>1, <3>2
    <3>4. i \notin 1..q
      <4> SUFFICES ASSUME i \in 1..q
                   PROVE  InList(w, id)
        BY <1>10
      <4>1. i \in DOMAIN w /\ w[i] = id
        BY <1>8, <3>3
      <4> QED
        BY <4>1 DEF InList
    <3>5. q < l /\ q = Injected
      BY <1>3, <1>7, <3>4
    <3> QED
      BY <1>1, <1>3, <1>8, <3>5
  <2> QED
    BY <2>1, <2>2
<1>11. Chosen(w, "reranked")
  BY <1>8, <1>9, <1>10, ChosenIf
<1> QED
  BY <1>11 DEF w, s

RecallInv ==
    /\ RecalledType
    /\ method \in {"hybrid", "fts-only"}
    /\ stage \in {"idle", "embedding"} => method = "hybrid"
    /\ stage = "found" => merged = IF method = "hybrid" THEN Recalled!Hybrid ELSE Recalled!TextOnly
    /\ Recalled!BestRecalled

LEMMA RecallStart ==
    ASSUME Recalled!Init
    PROVE  RecallInv
BY DEF Recalled!Init, RecallInv, RecalledType, Recalled!BestRecalled

LEMMA FoundKept ==
    ASSUME Recalled!RecallAssumption, RecallInv, stage = "found"
    PROVE  RecallNumbers /\ AllKept
<1>1. RecallNumbers
  BY RecallIntegers DEF RecallInv
<1>2. CASE method = "hybrid"
  BY <1>1, <1>2, HybridKept DEF RecallInv
<1>3. CASE method = "fts-only"
  BY <1>1, <1>3, TextKept DEF RecallInv
<1> QED
  BY <1>1, <1>2, <1>3 DEF RecallInv

LEMMA ChoiceHolds ==
    ASSUME RecallInv, NEW where, Chosen(snippets', where), stage' = where, where \in {"taken", "reranked"},
           UNCHANGED <<near, match, searchable, method, merged>>
    PROVE  RecallInv'
<1>1. /\ \A c : Recalled!FullScore(c)' = Recalled!FullScore(c)
      /\ \A c : Recalled!CutOff(c)' <=> Recalled!CutOff(c)
      /\ \A id : Recalled!ChunksOf(id)' = Recalled!ChunksOf(id)
      /\ \A id : Recalled!Full(id)' = Recalled!Full(id)
  BY DEF Recalled!FullScore, Recalled!CutOff, Recalled!ChunksOf, Recalled!Full
<1>2. Recalled!BestRecalled'
  BY <1>1 DEF Chosen, Recalled!BestRecalled
<1>3. RecalledType' /\ method' \in {"hybrid", "fts-only"} /\ stage' \notin {"idle", "embedding", "found"}
  BY DEF RecallInv, RecalledType
<1> QED
  BY <1>2, <1>3 DEF RecallInv

LEMMA RecallStep ==
    ASSUME Recalled!RecallAssumption, RecallInv, [Recalled!Next]_(Recalled!vars)
    PROVE  RecallInv'
<1>1. CASE Recalled!Ask
  BY <1>1 DEF Recalled!Ask, RecallInv, RecalledType, Recalled!BestRecalled
<1>2. CASE Recalled!Embedded
  <2>1. merged' = Recalled!Hybrid /\ Recalled!Hybrid' = Recalled!Hybrid
    BY <1>2 DEF Recalled!Embedded, Recalled!Hybrid, Recalled!Combined, Recalled!Listed, Recalled!Found,
                Recalled!VectorResults, Recalled!TextResults
  <2> QED
    BY <1>2, <2>1 DEF Recalled!Embedded, RecallInv, RecalledType, Recalled!BestRecalled
<1>3. CASE Recalled!FtsOnly
  <2>1. merged' = Recalled!TextOnly /\ Recalled!TextOnly' = Recalled!TextOnly
    BY <1>3 DEF Recalled!FtsOnly, Recalled!TextOnly, Recalled!TextResults
  <2> QED
    BY <1>3, <2>1 DEF Recalled!FtsOnly, RecallInv, RecalledType, Recalled!BestRecalled
<1>4. CASE Recalled!Take
  <2>1. RecallNumbers /\ AllKept
    BY <1>4, FoundKept DEF Recalled!Take
  <2>2. Chosen(Recalled!First(Recalled!Candidates, Injected), "taken")
    BY <2>1, TakenBest
  <2>3. Chosen(snippets', "taken") /\ stage' = "taken" /\ UNCHANGED <<near, match, searchable, method, merged>>
    BY <1>4, <2>2 DEF Recalled!Take
  <2> QED
    BY <2>3, ChoiceHolds
<1>5. CASE Recalled!Rerank
  <2>1. RecallNumbers /\ AllKept
    BY <1>5, FoundKept DEF Recalled!Rerank
  <2> DEFINE pool == Recalled!First(Recalled!Candidates, PoolSize)
  <2>2. PICK perm \in {p \in [DOMAIN pool -> DOMAIN pool] : Recalled!IsInjective(p)} :
          snippets' = Recalled!First([i \in DOMAIN pool |-> pool[perm[i]]], Injected)
    BY <1>5 DEF Recalled!Rerank
  <2>3. Chosen(Recalled!First([i \in DOMAIN pool |-> pool[perm[i]]], Injected), "reranked")
    <3>1. perm \in [DOMAIN pool -> DOMAIN pool] /\ Recalled!IsInjective(perm)
      OBVIOUS
    <3> QED
      BY <2>1, <3>1, RerankedBest
  <2>4. Chosen(snippets', "reranked")
    <3> HIDE DEF pool
    <3> QED
      BY <2>2, <2>3
  <2>5. stage' = "reranked" /\ UNCHANGED <<near, match, searchable, method, merged>>
    BY <1>5 DEF Recalled!Rerank
  <2> QED
    BY <2>4, <2>5, ChoiceHolds
<1>6. CASE UNCHANGED Recalled!vars
  <2>1. UNCHANGED <<near, match, searchable, stage, method, merged, snippets>>
    BY <1>6 DEF Recalled!vars
  <2>2. Recalled!BestRecalled'
    <3>1. Recalled!BestRecalled
      BY DEF RecallInv
    <3>2. /\ \A c : Recalled!FullScore(c)' = Recalled!FullScore(c)
          /\ \A c : Recalled!CutOff(c)' <=> Recalled!CutOff(c)
          /\ \A id : Recalled!ChunksOf(id)' = Recalled!ChunksOf(id)
          /\ \A id : Recalled!Full(id)' = Recalled!Full(id)
      BY <2>1 DEF Recalled!FullScore, Recalled!CutOff, Recalled!ChunksOf, Recalled!Full
    <3> QED
      BY <2>1, <3>1, <3>2 DEF Recalled!BestRecalled
  <2>3. Recalled!Hybrid' = Recalled!Hybrid /\ Recalled!TextOnly' = Recalled!TextOnly
    BY <2>1 DEF Recalled!Hybrid, Recalled!Combined, Recalled!Listed, Recalled!Found,
                Recalled!VectorResults, Recalled!TextResults, Recalled!TextOnly
  <2> QED
    BY <2>1, <2>2, <2>3 DEF RecallInv, RecalledType
<1> QED
  BY <1>1, <1>2, <1>3, <1>4, <1>5, <1>6 DEF Recalled!Next

\* The memories put in front of a turn are the best there are, whatever the chunks and
\* scores and wherever the limits lie: another that counts enough is missing only where
\* the limits on chunks hide it, or where there is room for no more, and then it counts
\* no more than those given, unless a reranker chose among them.
\* (memory-retrieval.ts: searchRelevant; hybrid.ts: mergeHybridResults)
THEOREM BestAreRecalled == Recalled!RecallAssumption => (Recalled!Spec => []Recalled!BestRecalled)
<1> SUFFICES ASSUME Recalled!RecallAssumption
             PROVE  Recalled!Spec => []Recalled!BestRecalled
  OBVIOUS
<1>1. Recalled!Init => RecallInv
  BY RecallStart
<1>2. RecallInv /\ [Recalled!Next]_(Recalled!vars) => RecallInv'
  BY RecallStep
<1>3. RecallInv => Recalled!BestRecalled
  BY DEF RecallInv
<1> QED
  BY <1>1, <1>2, <1>3, PTL DEF Recalled!Spec
=============================================================================
