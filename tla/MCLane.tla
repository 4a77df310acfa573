------------------------------- MODULE MCLane -------------------------------
(***************************************************************************)
(* Small instances for TLC of what keeps agent runs apart: the lanes of    *)
(* Lane and the circuit breakers of ModelFallback.  A behaviour exercises  *)
(* one of them, chosen at the start, while the other rests: they share no  *)
(* state.                                                                  *)
(***************************************************************************)
EXTENDS Lane, ModelFallback

CONSTANTS opus, sonnet, haiku, gpt, anthropic, openai

MCModels == {opus, sonnet, haiku, gpt}
MCProviderOf == [m \in MCModels |-> IF m = gpt THEN openai ELSE anthropic]
MCTierOf == [m \in MCModels |-> CASE m = opus -> 2 [] m = haiku -> 0 [] OTHER -> 1]

Config(models, floor, strict, cross) ==
    [models |-> models, floor |-> floor, strict |-> strict, crossProvider |-> cross]

\* The chains the code passes, and each of the filters once.
Chains == {Config(<<opus, sonnet, gpt>>, -1, FALSE, FALSE),
           Config(<<haiku, opus, gpt, sonnet>>, 1, FALSE, TRUE),
           Config(<<haiku, gpt, sonnet>>, 1, FALSE, FALSE),
           Config(<<opus, sonnet, haiku>>, 1, TRUE, FALSE),
           Config(<<haiku>>, 2, FALSE, FALSE)}

\* One vendor, as in production.
OneVendor == {Config(<<opus, sonnet, haiku>>, -1, FALSE, FALSE)}

VARIABLE scope  \* the part that this behaviour exercises

ASSUME FallbackAssumption /\ BreakerAssumption

all == <<scope, vars, fallbackVars>>

MCInit == scope \in {"lane", "fallback"} /\ Init /\ FallbackInit

MCNext == /\ UNCHANGED scope
          /\ \/ scope = "lane" /\ Next /\ UNCHANGED fallbackVars
             \/ scope = "fallback" /\ FallbackNext /\ UNCHANGED vars

InLane == scope = "lane" /\ UNCHANGED <<scope, fallbackVars>>
InFallback == scope = "fallback" /\ UNCHANGED <<scope, vars>>

\* A task holds the slot of one key, and a run is at one place: the fairness is
\* that of Lane and of ModelFallback.
Goes(r) == Begin(r) \/ Settle(r) \/ Retry(r)

MCSpec == /\ MCInit /\ [][MCNext]_all
          /\ \A t \in Tasks : WF_all(InLane /\ \E k \in Keys : Release(t, k))
          /\ \A r \in Runs : WF_all(InFallback /\ Goes(r))
          /\ \A p \in Providers : WF_all(InFallback /\ CoolDown(p))
=============================================================================
