-------------------------------- MODULE Traffic --------------------------------
(***************************************************************************)
(* The HTTP requests that the gateway serves: how handleHttpRequest()      *)
(* (packages/server/src/gateway/router.ts) routes one, the two limiters    *)
(* of POST /rpc, and the dispatch of one call or a batch to the methods.   *)
(*                                                                         *)
(* A handler is split where it awaits something of the outside: the body   *)
(* and the methods.  authenticate() awaits nothing: from the body to the   *)
(* start of the methods there is one step.  Instants are kept as ages, in  *)
(* ticks, up to the age that makes no difference.                          *)
(***************************************************************************)
EXTENDS Integers, Sequences, SequencesExt

CONSTANTS Callers,      \* remote addresses
          Requests,     \* requests that are served at a time
          MaxRequests,  \* rateLimit.maxRequests ...
          Window,       \* ... in rateLimit.windowMs
          MaxKeys,      \* rateLimit.maxKeys
          Lapsing,      \* callers whose credential may be out of date
          MaxFailures,  \* authentication failures ...
          FailWindow,   \* ... each this soon after the one before ...
          BlockTime,    \* ... block an address for so long
          Bodies,       \* bodies of POST /rpc: the calls of a batch
          MaxBatch      \* rpc.maxBatchSize

\* Bodies that a caller may send to /rpc: what one element of it asks for.
Calls == {"null", "oldVersion", "absent", "open", "guarded", "malformed"}

\* The first failure never blocks, whatever the limit is.
TrafficAssumption == /\ {MaxRequests, Window, MaxKeys, MaxFailures, BlockTime, MaxBatch} \subseteq Nat \ {0}
                     /\ FailWindow \in Nat /\ MaxFailures # 1 /\ Bodies \subseteq Seq(Calls)

VARIABLES draining,   \* ctx.isDraining
          windows,    \* RequestRateLimiter.windows: how many instants of each age, or NoKey
          order,      \* its keys in the order of insertion
          entries,    \* AuthRateLimiter.entries
          req,        \* the requests that are served
          passed,     \* a caller's requests since its key was made, by age
          failed      \* ages of its latest failures, since its last block

limits == <<windows, order, entries, passed, failed>>
vars == <<draining, limits, req>>

-----------------------------------------------------------------------------
\* Instants of a caller by their age; those of age Window have left the window.
None == [n \in 0..Window |-> 0]
Young(ages) == [ages EXCEPT ![Window] = 0]
WithOne(ages) == [ages EXCEPT ![0] = @ + 1]
Aged(ages) == [n \in 0..Window |-> IF n = 0 THEN 0
                                   ELSE IF n < Window THEN ages[n - 1] ELSE ages[n - 1] + ages[n]]
Count(ages) == SumFunction(Young(ages))

NoKey == [n \in {} |-> 0]

NoEntry == [failures |-> 0, age |-> 0, block |-> 0]
AgeMax == MaxFailures * (FailWindow + 1) + BlockTime

\* authenticate(): what a valid token, a valid key, or neither gives.
OfToken == "token"
OfApiKey == "api_key"
Granted == {OfToken, OfApiKey, "none"}

Levels == <<"none", "api_key", "token", "session">>
Rank(level) == CHOOSE i \in DOMAIN Levels : Levels[i] = level
HasRequiredAuth(level, required) == Rank(level) >= Rank(required)

Idle == [phase |-> "none", ip |-> "", work |-> <<>>, answer |-> "none"]

Init == /\ draining = FALSE
        /\ windows = [ip \in Callers |-> NoKey] /\ order = <<>> /\ passed = [ip \in Callers |-> None]
        /\ entries = [ip \in Callers |-> NoEntry] /\ failed = [ip \in Callers |-> <<>>]
        /\ req = [r \in Requests |-> Idle]

-----------------------------------------------------------------------------
(* RequestRateLimiter.                                                     *)

\* A new address takes the place of the key that was made first when the map is full.
Evicted(ip) == IF windows[ip] = NoKey /\ Len(order) >= MaxKeys THEN {Head(order)} ELSE {}
WithKey(ip) == [c \in Callers |-> IF c = ip THEN IF windows[ip] = NoKey THEN None ELSE windows[ip]
                                  ELSE IF c \in Evicted(ip) THEN NoKey ELSE windows[c]]
OrderWith(ip) == IF windows[ip] # NoKey THEN order
                 ELSE Append(IF Evicted(ip) = {} THEN order ELSE Tail(order), ip)

Allowed(ip) == Count(WithKey(ip)[ip]) < MaxRequests

\* Faulty variant: a refused request counts, too.
CheckCountsAll(ip) == /\ windows' = [WithKey(ip) EXCEPT ![ip] = WithOne(Young(@))]
                      /\ order' = OrderWith(ip)

\* check(): a refused request leaves no trace.
Check(ip) == /\ windows' = [WithKey(ip) EXCEPT ![ip] = IF Allowed(ip) THEN WithOne(Young(@)) ELSE Young(@)]
             /\ order' = OrderWith(ip)

\* What check() admits, and whom it forgets.
Admit(ip) ==
    passed' = [c \in Callers |->
                 IF c = ip THEN IF Allowed(ip) THEN WithOne(Young(passed[ip])) ELSE passed[ip]
                 ELSE IF c \in Evicted(ip) THEN None ELSE passed[c]]

\* The interval of 5 min: keys without a request in the window go.
Cleanup == /\ windows' = [c \in Callers |-> IF windows[c] = NoKey \/ Young(windows[c]) = None THEN NoKey
                                            ELSE Young(windows[c])]
           /\ order' = SelectSeq(order, LAMBDA c : windows'[c] # NoKey)
           /\ passed' = [c \in Callers |-> Young(passed[c])]
           /\ UNCHANGED <<draining, entries, failed, req>>

-----------------------------------------------------------------------------
(* AuthRateLimiter.                                                        *)
Blocked(ip) == entries[ip].block > 0

\* Faulty variant: the count is not started again after a pause.
FailureWithoutPause(e) ==
    LET n == e.failures + 1 IN
    [failures |-> n, age |-> 0, block |-> IF n >= MaxFailures THEN BlockTime ELSE 0]

\* recordFailure()
Failure(e) ==
    IF e.failures = 0 \/ e.age > FailWindow THEN [failures |-> 1, age |-> 0, block |-> 0]
    ELSE LET n == e.failures + 1 IN
         [failures |-> n, age |-> 0, block |-> IF n >= MaxFailures THEN BlockTime ELSE 0]

\* isBlocked() removes an entry whose block is over.
Unblocked(ip) == IF entries[ip].failures >= MaxFailures THEN NoEntry ELSE entries[ip]

Kept(ages) == IF Len(ages) > MaxFailures THEN Tail(ages) ELSE ages

-----------------------------------------------------------------------------
(* dispatchRpc(): what becomes of one call, up to its method.              *)
Verdict(call, level) ==
    CASE call = "oldVersion"                                       -> "error"
      [] call = "absent"                                           -> "error"
      [] call = "guarded" /\ ~HasRequiredAuth(level, "token")      -> "error"
      [] call = "malformed"                                        -> "error"
      [] OTHER                                                     -> "running"

Finish(r, answer) == [req[r] EXCEPT !.phase = "answered", !.ip = "", !.answer = answer]

\* A batch: its calls start together.  A call that is no object makes dispatchRpc()
\* reject, and the request is answered at once while the other methods go on.
Dispatch(r, batch, level) ==
    IF batch = <<>> \/ Len(batch) > MaxBatch THEN Finish(r, "200")
    ELSE LET work == [i \in DOMAIN batch |-> IF batch[i] = "null" THEN "error" ELSE Verdict(batch[i], level)]
             q == [req[r] EXCEPT !.work = work] IN
         IF \E i \in DOMAIN batch : batch[i] = "null"
           THEN [q EXCEPT !.phase = "answered", !.ip = "", !.answer = "500"]
         ELSE [q EXCEPT !.phase = "running", !.ip = ""]

-----------------------------------------------------------------------------
Serve(r, q) == req' = [req EXCEPT ![r] = q]

\* handleCors(): a preflight of an origin that is not listed is not answered by
\* anybody, and is not modelled.
Preflight(r) == /\ req[r].phase = "none"
                /\ Serve(r, [Idle EXCEPT !.phase = "answered", !.answer = "204"])
                /\ UNCHANGED <<draining, limits>>

\* handleHttpRequest(): a drain, or no such route.
Turned(r, ip) == /\ req[r].phase = "none"
                 /\ Serve(r, [Idle EXCEPT !.phase = "answered", !.answer = IF draining THEN "503" ELSE "404"])
                 /\ UNCHANGED <<draining, limits>>

\* GET /health, /info and /healthz (which the route of /health takes) answer
\* at once; a drain leaves /healthz alone.
Alive(r, ip) == /\ req[r].phase = "none"
                /\ Serve(r, [Idle EXCEPT !.phase = "answered", !.answer = "200"])
                /\ UNCHANGED <<draining, limits>>

\* POST /rpc: the rate limit comes before the body.
Arrives(r, ip) ==
    /\ req[r].phase = "none" /\ ~draining
    /\ Check(ip) /\ Admit(ip)
    /\ Serve(r, IF Allowed(ip) THEN [Idle EXCEPT !.phase = "body", !.ip = ip]
                ELSE [Idle EXCEPT !.phase = "answered", !.answer = "429"])
    /\ UNCHANGED <<draining, entries, failed>>

\* The body cannot be read, or is not JSON.
BadBody(r) == /\ req[r].phase = "body"
              /\ Serve(r, Finish(r, "400"))
              /\ UNCHANGED <<draining, limits>>

\* The body is there, and its caller failed too often.
Refused(r) == /\ req[r].phase = "body" /\ Blocked(req[r].ip)
              /\ Serve(r, Finish(r, "401"))
              /\ UNCHANGED <<draining, limits>>

\* The credential is not valid.
Fails(r) == LET ip == req[r].ip IN
            /\ req[r].phase = "body" /\ ~Blocked(ip) /\ ip \in Lapsing
            /\ entries' = [entries EXCEPT ![ip] = Failure(Unblocked(ip))]
            /\ failed' = [failed EXCEPT ![ip] = IF Unblocked(ip) = NoEntry THEN <<0>> ELSE Kept(Append(@, 0))]
            /\ Serve(r, Finish(r, "401"))
            /\ UNCHANGED <<draining, windows, order, passed>>

\* The credential gives its caller a level; no credential is level "none".
\* A success does not clear the failures.
Calling(r, batch, level) ==
    LET ip == req[r].ip IN
    /\ req[r].phase = "body" /\ ~Blocked(ip)
    /\ entries' = [entries EXCEPT ![ip] = Unblocked(ip)]
    /\ failed' = [failed EXCEPT ![ip] = IF Unblocked(ip) = NoEntry THEN <<>> ELSE @]
    /\ Serve(r, Dispatch(r, batch, level))
    /\ UNCHANGED <<draining, windows, order, passed>>

\* A method returns or throws, also one whose request was answered already.
Returns(r, i) == /\ i \in DOMAIN req[r].work /\ req[r].work[i] = "running"
                 /\ \E outcome \in {"result", "error"} : Serve(r, [req[r] EXCEPT !.work[i] = outcome])
                 /\ UNCHANGED <<draining, limits>>

\* Faulty variant: a batch is answered when its first call is done.
AnsweredEarly(r) ==
    /\ req[r].phase = "running" /\ \E i \in DOMAIN req[r].work : req[r].work[i] # "running"
    /\ Serve(r, Finish(r, "200"))
    /\ UNCHANGED <<draining, limits>>

\* Promise.all(): every call of the batch is done.
Answered(r) == /\ req[r].phase = "running" /\ \A i \in DOMAIN req[r].work : req[r].work[i] # "running"
               /\ AnsweredEarly(r)

\* The response has gone, and no method of the request runs.
Over(r) == /\ req[r].phase = "answered" /\ \A i \in DOMAIN req[r].work : req[r].work[i] # "running"
           /\ Serve(r, Idle)
           /\ UNCHANGED <<draining, limits>>

-----------------------------------------------------------------------------
\* stop() of the gateway server begins.
Drain == /\ ~draining /\ draining' = TRUE
         /\ UNCHANGED <<limits, req>>

AtMost(n, limit) == IF n < limit THEN n + 1 ELSE limit

\* A refusal may not lie between requests whose answer waits: time passes once
\* responses have gone.
Tick == /\ \A r \in Requests : req[r].phase # "answered"
        /\ windows' = [c \in Callers |-> IF windows[c] = NoKey THEN NoKey ELSE Aged(windows[c])]
        /\ passed' = [c \in Callers |-> Aged(passed[c])]
        /\ entries' = [c \in Callers |->
                         IF entries[c].failures = 0 THEN NoEntry
                         ELSE [entries[c] EXCEPT !.age = AtMost(@, FailWindow + 1),
                                                 !.block = IF @ > 0 THEN @ - 1 ELSE 0]]
        /\ failed' = [c \in Callers |-> [i \in DOMAIN failed[c] |-> AtMost(failed[c][i], AgeMax)]]
        /\ UNCHANGED <<draining, order, req>>
-----------------------------------------------------------------------------
Serving(r) ==
    \/ Preflight(r) \/ \E ip \in Callers : Turned(r, ip) \/ Alive(r, ip) \/ Arrives(r, ip)
    \/ BadBody(r) \/ Refused(r) \/ Fails(r)
    \/ \E batch \in Bodies, level \in Granted : Calling(r, batch, level)
    \/ \E i \in 1..MaxBatch : Returns(r, i)
    \/ Answered(r) \/ Over(r)

Next == Cleanup \/ Drain \/ Tick \/ \E r \in Requests : Serving(r)

Spec == Init /\ [][Next]_vars

-----------------------------------------------------------------------------
\* A caller is refused for its rate exactly when as many of its requests as the
\* limit allows were admitted within the window, whatever was refused, cleaned
\* up or evicted in between.  (rate-limit.ts: check, cleanup)
QuotaExact == \A ip \in Callers : Allowed(ip) <=> Count(passed[ip]) < MaxRequests

\* A caller is blocked exactly while the last of MaxFailures failures, each at
\* most FailWindow after the one before, is younger than BlockTime.
\* (auth/rate-limit.ts: isBlocked, recordFailure)
BlockExact ==
    \A ip \in Callers : LET f == failed[ip] IN
      Blocked(ip) <=> /\ Len(f) = MaxFailures /\ Last(f) < BlockTime
                      /\ \A i \in 1..Len(f) - 1 : f[i] - f[i + 1] <= FailWindow

\* A response with status 200 has the outcome of every call.  (rpc/index.ts: dispatchRpc)
AnswersWhole ==
    \A r \in Requests : req[r].phase = "answered" /\ req[r].answer = "200" =>
      \A i \in DOMAIN req[r].work : req[r].work[i] \in {"result", "error"}

\* The answers that the gateway gives follow from what happened before.
AnswersJustified == QuotaExact /\ BlockExact /\ AnswersWhole
=============================================================================
