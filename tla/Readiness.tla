------------------------------- MODULE Readiness -------------------------------
(***************************************************************************)
(* GET /readyz (packages/server/src/gateway/health.ts): every request      *)
(* runs the registered checkers.  The database is asked without waiting    *)
(* (SELECT 1); the embedding service is asked over the network, and its    *)
(* result is used again for 60 s by all requests.                          *)
(***************************************************************************)
EXTENDS Integers

CONSTANTS Probes,  \* GET /readyz requests that are served at a time
          Ttl      \* TTL_MS, in ticks

VARIABLES database,   \* the database answers now
          embedding,  \* the embedding service answers now
          cached,     \* what createProviderHealthChecker() keeps
          probe,      \* each request, and what it knows of the database
          unseen      \* ticks since the embedding service last answered

vars == <<database, embedding, cached, probe, unseen>>

-----------------------------------------------------------------------------
AtMost(n, limit) == IF n < limit THEN n + 1 ELSE limit

Init == /\ database = TRUE /\ embedding = TRUE
        /\ cached = [status |-> "none", age |-> 0]
        /\ probe = [p \in Probes |-> "none"]
        /\ unseen = 0

\* checkReadiness(): "error" with an unhealthy part, "degraded" with a degraded one.
Status(databaseStatus, embeddingStatus) ==
    IF databaseStatus = "unhealthy" THEN "error"
    ELSE IF embeddingStatus = "degraded" THEN "degraded" ELSE "ok"

\* createDbHealthChecker()
DatabaseStatus == IF database THEN "healthy" ELSE "unhealthy"

Usable == cached.status # "none" /\ cached.age < Ttl

\* The request is there: a young result of the embedding service is used again.
Probe(p) == /\ probe[p] = "none"
            /\ probe' = [probe EXCEPT ![p] = IF Usable THEN Status(DatabaseStatus, cached.status)
                                             ELSE DatabaseStatus]
            /\ UNCHANGED <<database, embedding, cached, unseen>>

\* Faulty variant: a check that fails leaves the result before it in place.
RememberedHealthy == [status |-> IF embedding \/ cached.status = "healthy" THEN "healthy" ELSE "degraded",
                      age |-> 0]

\* The result of a check, as of its end.
Remembered == [status |-> IF embedding THEN "healthy" ELSE "degraded", age |-> 0]

\* The embedding service has answered, or not.  Checks of several requests
\* overlap, and the one that ends last decides what is kept.
Checked(p) == /\ probe[p] \in {"healthy", "unhealthy"}
              /\ cached' = Remembered
              /\ probe' = [probe EXCEPT ![p] = Status(@, Remembered.status)]
              /\ UNCHANGED <<database, embedding, unseen>>

Answered(p) == /\ probe[p] \in {"ok", "degraded", "error"}
               /\ probe' = [probe EXCEPT ![p] = "none"]
               /\ UNCHANGED <<database, embedding, cached, unseen>>

\* The parts come and go.
Flip == /\ \/ database' = ~database /\ UNCHANGED <<embedding, unseen>>
           \/ embedding' = ~embedding /\ unseen' = 0 /\ UNCHANGED database
        /\ UNCHANGED <<cached, probe>>

\* Responses are sent in no time.
Tick == /\ \A p \in Probes : probe[p] \notin {"ok", "degraded", "error"}
        /\ cached' = [cached EXCEPT !.age = IF cached.status = "none" THEN 0 ELSE AtMost(@, Ttl)]
        /\ unseen' = IF embedding THEN 0 ELSE AtMost(unseen, Ttl)
        /\ UNCHANGED <<database, embedding, probe>>

Next == Flip \/ Tick \/ \E p \in Probes : Probe(p) \/ Checked(p) \/ Answered(p)

Spec == Init /\ [][Next]_vars

-----------------------------------------------------------------------------
\* A request is told "ok" only when the embedding service answered somebody less
\* than Ttl ago, also when checks of several requests overlap and a result that
\* one of them left is used by another.  (health.ts: createProviderHealthChecker)
ReadyFresh == \A p \in Probes : probe[p] = "ok" => unseen < Ttl
=============================================================================
