---------------------------- MODULE ModelFallback ----------------------------
(***************************************************************************)
(* runWithModelFallback (packages/agent/src/models/fallback.ts): agent     *)
(* runs that try the models of a chain in turn, each behind the circuit    *)
(* breaker of its provider (packages/agent/src/providers/adapter.ts),      *)
(* which all runs of the process share.                                    *)
(***************************************************************************)
EXTENDS BreakerState, Sequences, FiniteSetsExt

CONSTANTS Runs,        \* concurrent calls of runWithModelFallback()
          Models,      \* model ids
          Providers,
          ProviderOf,  \* [Models -> Providers], resolve(ref).provider
          TierOf,      \* [Models -> 0..2], TIER_RANK[modelIdToTier(id)]
          Configs,     \* the FallbackConfigs runs are started with
          MaxRetries   \* maxRetriesPerModel

NoFloor == -1

FallbackAssumption ==
    /\ ProviderOf \in [Models -> Providers]
    /\ TierOf \in [Models -> 0..2]
    /\ MaxRetries \in Nat
    /\ \A c \in Configs : /\ c.models \in Seq(Models) /\ c.models # <<>>
                          /\ c.floor \in {NoFloor} \cup 0..2
                          /\ c.strict \in BOOLEAN
                          /\ c.crossProvider \in BOOLEAN

VARIABLES circuits,  \* the breaker of each provider
          run        \* where each run is

fallbackVars == <<circuits, run>>

-----------------------------------------------------------------------------
\* The models of the chain that are tried, as positions in it: the floor and, for
\* automations, the strict tier first, then only the provider of the first model
\* that is left.
EffectiveModels(c) ==
    LET InTier(m) == \/ c.floor = NoFloor
                     \/ c.strict /\ TierOf[m] = c.floor
                     \/ ~c.strict /\ TierOf[m] >= c.floor
        tiered == {i \in DOMAIN c.models : InTier(c.models[i])}
    IN  {i \in tiered : \/ c.crossProvider
                        \/ ProviderOf[c.models[i]] = ProviderOf[c.models[Min(tiered)]]}

IdleRun == [at |-> "idle", result |-> "none"]
Ended(result) == [at |-> "idle", result |-> result]

\* A run in fn ("call") or in the back-off before a retry ("backoff").
Attempt(at, config, i, retry) ==
    [at |-> at, config |-> config, model |-> i, retry |-> retry]

\* getBreakerForProvider() of the i-th model.
ProviderAt(c, i) == ProviderOf[c.models[i]]
Circuit(r) == ProviderAt(run[r].config, run[r].model)

FallbackInit == /\ circuits = [p \in Providers |-> NewBreaker]
                /\ run = [r \in Runs |-> IdleRun]

-----------------------------------------------------------------------------
\* circuit.execute(): fn is called, or the breaker's own error, which
\* classifyFallbackError does not know, is thrown out of the whole run.
\* cs are the circuits as this step has left them so far.
Execute(r, config, i, retry, cs) ==
    LET p == ProviderAt(config, i) IN
    IF Refuses(cs[p])
      THEN /\ circuits' = cs
           /\ run' = [run EXCEPT ![r] = Ended("circuit")]
      ELSE /\ circuits' = [cs EXCEPT ![p] = Admitted(@)]
           /\ run' = [run EXCEPT ![r] = Attempt("call", config, i, retry)]

\* Faulty variant: the loop ends at the first open circuit.
UsableUpToOpen(config, i, cs) ==
    LET left == {j \in EffectiveModels(config) : j >= i} IN
    {j \in left : \A k \in left : k <= j => cs[ProviderAt(config, k)].state # "open"}

\* The models from the i-th on whose circuit is not open; open ones are passed
\* over without a word.
Usable(config, i, cs) ==
    {j \in EffectiveModels(config) : j >= i /\ cs[ProviderAt(config, j)].state # "open"}

\* The for loop over the models, entered at i.
TryFrom(r, config, i, cs) ==
    LET usable == Usable(config, i, cs) IN
    IF usable = {}
      THEN /\ circuits' = cs
           /\ run' = [run EXCEPT ![r] = Ended("exhausted")]
      ELSE Execute(r, config, Min(usable), 0, cs)

Begin(r) ==
    /\ run[r].at = "idle"
    /\ \E c \in Configs : TryFrom(r, c, 1, circuits)

\* fn settles; the breaker hears of every outcome, cancellation included.
Settled(r, After(_)) == [circuits EXCEPT ![Circuit(r)] = After(@)]

Succeed(r) ==
    /\ run[r].at = "call"
    /\ circuits' = Settled(r, AfterSuccess)
    /\ run' = [run EXCEPT ![r] = Ended("ok")]

\* Faulty variant: the retries of a model start over.
FailTransientForever(r) ==
    /\ run[r].at = "call"
    /\ TryFrom(r, run[r].config, run[r].model, Settled(r, AfterFailure))

\* A failure that fallbackOn names: wait and retry, or go to the next model.
FailTransient(r) ==
    /\ run[r].at = "call"
    /\ LET cs == Settled(r, AfterFailure) IN
       IF run[r].retry < MaxRetries
         THEN /\ circuits' = cs
              /\ run' = [run EXCEPT ![r].at = "backoff"]
         ELSE TryFrom(r, run[r].config, run[r].model + 1, cs)

\* Any other failure (authentication, context overflow, a lane timeout) and
\* the cancellation of the run are thrown at once.
FailFatal(r) ==
    /\ run[r].at = "call"
    /\ circuits' = Settled(r, AfterFailure)
    /\ run' = [run EXCEPT ![r] = Ended("error")]

\* The run is cancelled while it sleeps.
AbortBackoff(r) ==
    /\ run[r].at = "backoff"
    /\ run' = [run EXCEPT ![r] = Ended("error")]
    /\ UNCHANGED circuits

\* The back-off is over: the same model again, without a look at getState().
Retry(r) ==
    /\ run[r].at = "backoff"
    /\ Execute(r, run[r].config, run[r].model, run[r].retry + 1, circuits)

\* The reset timeout (30 s) elapses.  A back-off lasts about half a second, so
\* none spans it.
CoolDown(p) ==
    /\ circuits[p].state = "open" /\ ~circuits[p].cooled
    /\ \A r \in Runs : run[r].at # "backoff"
    /\ circuits' = [circuits EXCEPT ![p] = Cooled(@)]
    /\ UNCHANGED run

Settle(r) == Succeed(r) \/ FailTransient(r) \/ FailFatal(r)

FallbackNext == \/ \E r \in Runs : Begin(r) \/ Settle(r) \/ Retry(r) \/ AbortBackoff(r)
                \/ \E p \in Providers : CoolDown(p)

FallbackSpec == FallbackInit /\ [][FallbackNext]_fallbackVars

\* fn settles (its abort timer sees to that), timers fire, and users keep
\* sending requests.
FallbackFairSpec == /\ FallbackSpec
                    /\ \A r \in Runs : WF_fallbackVars(Begin(r)) /\ WF_fallbackVars(Settle(r)) /\ WF_fallbackVars(Retry(r))
                    /\ \A p \in Providers : WF_fallbackVars(CoolDown(p))

-----------------------------------------------------------------------------
\* Breakers and runs have their types; a run never stands at a model that its
\* filters exclude nor beyond its last retry.
FallbackTypeOK ==
    /\ circuits \in [Providers -> Breakers]
    /\ \A r \in Runs :
         \/ run[r] \in [at : {"idle"}, result : {"none", "ok", "exhausted", "circuit", "error"}]
         \/ /\ run[r] \in [at : {"call", "backoff"}, config : Configs,
                           model : Nat, retry : 0..MaxRetries]
            /\ run[r].model \in EffectiveModels(run[r].config)

\* No request reaches a provider in the 30 s after its circuit opened, whether
\* it is a first attempt, a retry or a change of models.
CallsOnlyWherePermitted ==
    \A r \in Runs, p \in Providers :
       (/\ circuits[p].state = "open" /\ ~circuits[p].cooled
        /\ run[r] # run'[r] /\ run'[r].at = "call")
          => Circuit(r)' # p

\* A run passes to no later model, and so ends, only if the circuits of all the
\* later ones are open, however the order of the chain mixes providers; and the
\* breaker's own error, which no fallback handles, ends it only when it retries
\* after its circuit has opened: the note at fallback.ts:138 takes this error for
\* impossible.
EndsOnlyWhenItMust ==
    \A r \in Runs : run[r] # run'[r] /\ run'[r].at = "idle" =>
       /\ run'[r].result = "exhausted" /\ run[r].at # "idle" =>
            \A j \in EffectiveModels(run[r].config) : j > run[r].model =>
               circuits'[ProviderAt(run[r].config, j)].state = "open"
       /\ run'[r].result = "circuit" =>
            run[r].at = "backoff" /\ circuits[Circuit(r)].state = "open"

\* A run gives up only when it must, and calls only where it may.
\* (fallback.ts:135: the loop over the models)
ModelsTried == [][CallsOnlyWherePermitted /\ EndsOnlyWhenItMust]_fallbackVars

\* Every run ends: retries and models are finite in number.
RunEnds == \A r \in Runs : run[r].at # "idle" ~> run[r].at = "idle"

-----------------------------------------------------------------------------
\* "Try again in about 60 seconds" (rpc/methods/agent.ts:465), and the wait of
\* 30 s "for open to half-open" (circuit-breaker.ts:8): a provider whose
\* circuit is open is tried again.
OpenCircuitIsTried ==
    \A p \in Providers : circuits[p].state = "open" ~> circuits[p].state # "open"
=============================================================================
