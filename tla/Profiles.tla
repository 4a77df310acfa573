-------------------------------- MODULE Profiles --------------------------------
(***************************************************************************)
(* The key profiles of packages/agent/src/auth: InMemoryAuthProfileStore,  *)
(* CooldownTracker, ProfileHealthMonitor and the resolver that asks them.  *)
(* selectNext() awaits the list of the profiles before it looks at cool-   *)
(* downs and health, and writes back the profile as it was listed.         *)
(* Instants are kept as ages, in ticks.                                    *)
(***************************************************************************)
EXTENDS Integers, Sequences, FiniteSetsExt

CONSTANTS Profiles,    \* ids, from create()
          PriorityOf,  \* of each
          Callers,     \* of resolveApiKeyForProvider
          Others,      \* the sources that have a key besides the profiles, in their order
          MaxFailures, \* maxConsecutiveFailures
          Window,      \* windowSizeMs of the health monitor
          Hour,        \* the window that the status command asks for
          Base, Limit, \* of a cool-down: its base time and MAX_BACKOFF_MS
          MaxResults,  \* bound on the results of each profile
          MaxRests     \* bound on consecutive cool-downs

ProfilesAssumption == /\ {MaxFailures, Window, Base, MaxResults, MaxRests} \subseteq Nat \ {0}
                      /\ Hour \in Nat /\ Limit \in Nat /\ Limit <= 256 * Base /\ PriorityOf \in [Profiles -> Nat]

VARIABLES profile,  \* the profiles map
          rest,     \* CooldownTracker: ticks left, consecutive failures; NoRest without an entry
          health,   \* ProfileHealthMonitor: so many records of each age, and consecutive failures
          caller,   \* what each caller awaits or holds
          results   \* all results of each profile

vars == <<profile, rest, health, caller, results>>

-----------------------------------------------------------------------------
Oldest == IF Hour > Window THEN Hour + 1 ELSE Window + 1   \* ages are not told apart beyond
Ages == 0..Oldest
NoRecords == [age \in Ages |-> [success \in BOOLEAN |-> 0]]
Gone == [there |-> FALSE, active |-> FALSE, used |-> 0]
NoRest == [left |-> 0, failures |-> 0]
Idle == [step |-> "none", key |-> "none", list |-> <<>>]
Holding(step, key) == [Idle EXCEPT !.step = step, !.key = key]

Init == /\ profile = [p \in Profiles |-> [there |-> TRUE, active |-> TRUE, used |-> Oldest]]
        /\ rest = [p \in Profiles |-> NoRest]
        /\ health = [p \in Profiles |-> [records |-> NoRecords, failures |-> 0]]
        /\ caller = [c \in Callers |-> Idle]
        /\ results = [p \in Profiles |-> <<>>]

-----------------------------------------------------------------------------
(* Health.                                                                 *)
Within(records, window) == [age \in Ages |-> IF age <= window THEN records[age] ELSE NoRecords[age]]
With(records, success) == [records EXCEPT ![0][success] = @ + 1]
Counted(records, successes) == MapThenSumSet(LAMBDA r : records[r[1]][r[2]], Ages \X successes)
Failed(records) == Counted(records, {FALSE})
All(records) == Counted(records, BOOLEAN)

\* computeHealth()
HealthOf(h) ==
    IF h.failures >= MaxFailures THEN "disabled"
    ELSE IF All(h.records) = 0 THEN "healthy"
    ELSE IF 10 * Failed(h.records) >= 7 * All(h.records) THEN "unhealthy"
    ELSE IF 10 * Failed(h.records) >= 3 * All(h.records) THEN "degraded" ELSE "healthy"

\* getHealth() drops what has left the window.
Health(p) == HealthOf([health[p] EXCEPT !.records = Within(@, Window)])

\* getModelBreakdown(): the calls of the last hour, as far as the monitor still has them.
Breakdown(p) == All(Within(health[p].records, Hour))

\* Faulty variant: failures are forgotten as they leave the window.
RecordedInWindow(h, success) ==
    LET kept == Within(With(h.records, success), Window)
    IN  [records |-> kept, failures |-> IF success THEN 0 ELSE Failed(kept)]

\* recordResult()
Recorded(h, success) ==
    [records |-> Within(With(h.records, success), Window),
     failures |-> IF success THEN 0 ELSE h.failures + 1]

-----------------------------------------------------------------------------
(* Selection.                                                              *)

\* selectNext() awaits list().
Listed(c) == /\ caller[c] = Idle
             /\ caller' = [caller EXCEPT ![c] = [Idle EXCEPT !.step = "list", !.list = profile]]
             /\ UNCHANGED <<profile, rest, health, results>>

Available(list) == {p \in Profiles : /\ list[p].there /\ list[p].active
                                     /\ rest[p].left = 0 /\ Health(p) # "disabled"}

\* The highest priority, and of those the one that was used the longest time ago.
Best(list) == {p \in Available(list) : \A q \in Available(list) :
                 \/ PriorityOf[p] > PriorityOf[q]
                 \/ PriorityOf[p] = PriorityOf[q] /\ list[p].used >= list[q].used}

\* isInCooldown() forgets an entry that has run out, of the active profiles that are listed.
Noticed(list) == [p \in Profiles |-> IF list[p].active /\ rest[p].left = 0 THEN NoRest ELSE rest[p]]

\* getHealth() drops old records of those that it is asked for.
Pruned(list) == [p \in Profiles |-> IF list[p].active /\ rest[p].left = 0
                                    THEN [health[p] EXCEPT !.records = Within(@, Window)] ELSE health[p]]

\* The rest of selectNext(), and of the resolver that it returns to.
Selected(c, p) ==
    /\ caller[c].step = "list" /\ p \in Best(caller[c].list)
    /\ profile' = [profile EXCEPT ![p] = [caller[c].list[p] EXCEPT !.used = 0]]
    /\ rest' = Noticed(caller[c].list) /\ health' = Pruned(caller[c].list)
    /\ caller' = [caller EXCEPT ![c] = Holding("profile", p)]
    /\ UNCHANGED results

\* Without a profile the resolver takes the first other source, or throws.
Resolved(c) ==
    /\ caller[c].step = "list" /\ Available(caller[c].list) = {}
    /\ rest' = Noticed(caller[c].list) /\ health' = Pruned(caller[c].list)
    /\ caller' = [caller EXCEPT ![c] = IF Others = <<>> THEN Idle ELSE Holding("other", Head(Others))]
    /\ UNCHANGED <<profile, results>>

-----------------------------------------------------------------------------
(* The outcome of a call.                                                  *)

\* recordUsage(); nothing for a profile that was deleted meanwhile.
Used(c, success) ==
    LET p == caller[c].key IN
    /\ caller[c].step = "profile" /\ Len(results[p]) < MaxResults
    /\ caller' = [caller EXCEPT ![c] = IF success THEN Idle ELSE Holding("failed", p)]
    /\ IF ~profile[p].there THEN UNCHANGED <<profile, health, results>>
       ELSE /\ profile' = [profile EXCEPT ![p].used = 0]
            /\ health' = [health EXCEPT ![p] = Recorded(@, success)]
            /\ results' = [results EXCEPT ![p] = Append(@, [success |-> success, age |-> 0])]
    /\ UNCHANGED rest

\* Doublings; nine of them are past every limit.
Powers == <<1, 2, 4, 8, 16, 32, 64, 128, 256>>
Least(a, b) == IF a < b THEN a ELSE b
Most(a, b) == IF a > b THEN a ELSE b

\* setCooldown(), which may follow a failure: doubled with each cool-down whose end
\* nobody has noticed yet, up to a limit that the base may exceed.
SetCooldown(c) ==
    LET p == caller[c].key
        n == rest[p].failures + 1 IN
    /\ caller[c].step = "failed" /\ n <= MaxRests
    /\ rest' = [rest EXCEPT ![p] = [left |-> Least(Base * Powers[Least(n, 9)], Most(Base, Limit)), failures |-> n]]
    /\ caller' = [caller EXCEPT ![c] = Idle]
    /\ UNCHANGED <<profile, health, results>>

Released(c) == /\ caller[c].step \in {"failed", "other"} /\ caller' = [caller EXCEPT ![c] = Idle]
               /\ UNCHANGED <<profile, rest, health, results>>

\* update() and delete()
Update(p, active) == /\ profile[p].there /\ profile[p].active # active
                     /\ profile' = [profile EXCEPT ![p].active = active]
                     /\ UNCHANGED <<rest, health, caller, results>>
Delete(p) == /\ profile[p].there /\ profile' = [profile EXCEPT ![p] = Gone]
             /\ UNCHANGED <<rest, health, caller, results>>

-----------------------------------------------------------------------------
Older(age) == IF age < Oldest THEN age + 1 ELSE Oldest
\* What has gained an age, and what stays at the last one.
Aged(records) == [age \in Ages |-> [success \in BOOLEAN |->
                    (IF age = 0 THEN 0 ELSE records[age - 1][success])
                    + (IF age = Oldest THEN records[age][success] ELSE 0)]]
AllOlder(s) == [i \in DOMAIN s |-> [s[i] EXCEPT !.age = Older(@)]]
AllUsedEarlier(ps) == [p \in Profiles |-> IF ps[p].there THEN [ps[p] EXCEPT !.used = Older(@)] ELSE ps[p]]

Tick == LET Later == [profile |-> AllUsedEarlier(profile),
                      rest |-> [p \in Profiles |-> [rest[p] EXCEPT !.left = IF @ = 0 THEN 0 ELSE @ - 1]],
                      health |-> [p \in Profiles |-> [health[p] EXCEPT !.records = Aged(@)]],
                      caller |-> [c \in Callers |-> IF caller[c].step # "list" THEN caller[c]
                                                    ELSE [caller[c] EXCEPT !.list = AllUsedEarlier(@)]],
                      results |-> [p \in Profiles |-> AllOlder(results[p])]] IN
        /\ profile' = Later.profile /\ rest' = Later.rest /\ health' = Later.health
        /\ caller' = Later.caller /\ results' = Later.results

Next == \/ \E c \in Callers : \/ Listed(c) \/ Resolved(c) \/ SetCooldown(c) \/ Released(c)
                              \/ \E p \in Profiles : Selected(c, p)
                              \/ \E success \in BOOLEAN : Used(c, success)
        \/ \E p \in Profiles : \/ Delete(p) \/ \E active \in BOOLEAN : Update(p, active)
        \/ Tick

Spec == Init /\ [][Next]_vars

-----------------------------------------------------------------------------
TypeOK == /\ profile \in [Profiles -> [there : BOOLEAN, active : BOOLEAN, used : 0..Oldest]]
          /\ \A p \in Profiles : rest[p].left \in 0..Most(Base, Limit) /\ rest[p].failures \in 0..MaxRests
          /\ \A c \in Callers : caller[c].step \in {"none", "list", "profile", "other", "failed"}

LastIn(S) == CHOOSE n \in S : \A m \in S : m <= n

\* How many results of each age there are.
Times(s, result) == Cardinality({i \in DOMAIN s : s[i] = result})
Tally(s) == [age \in Ages |-> [success \in BOOLEAN |-> Times(s, [success |-> success, age |-> age])]]

\* The failures since the last success.
Trailing(s) == Len(s) - LastIn({0} \cup {i \in DOMAIN s : s[i].success})

\* Whatever is pruned when, the health that decides whether a profile may be chosen is
\* that of all its results: disabled by the failures at their end, however old, and
\* otherwise judged by those within the window (health.ts, computeHealth).
HealthExact ==
    /\ TypeOK
    /\ \A p \in Profiles : Health(p) = HealthOf([records |-> Within(Tally(results[p]), Window),
                                                 failures |-> Trailing(results[p])])

\* "calls within the last sinceMs", apart from windowSizeMs (health.ts:131, getModelBreakdown).
CallsOfTheHour == \A p \in Profiles : Breakdown(p) = All(Within(Tally(results[p]), Hour))
=============================================================================
