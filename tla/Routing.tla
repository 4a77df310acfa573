------------------------------- MODULE Routing -------------------------------
(***************************************************************************)
(* Choice of the model and of the tools offered to it                      *)
(* (packages/agent/src/models/routing.ts), with the chain of models a run  *)
(* may fall back to (auto-reply/router-helper.ts, rpc/methods/agent.ts).   *)
(* A tier is its rank: haiku 0, sonnet 1, opus 2.                          *)
(***************************************************************************)
EXTENDS Integers, Sequences, FiniteSets, FiniteSetsExt, SequencesExt

CONSTANTS Tools,            \* names in the tool registry
          MinModel,         \* [Tools -> Tiers], ToolMetadata.minModel
          Preferred,        \* [roles -> Tiers], cfg.roles[role].preferred
          AllowClientHint,  \* cfg.override.allowClientHint
          RespectMinModel,  \* cfg.override.respectMinModel
          FallbackChain     \* tiers of DEFAULT_FALLBACK_CHAIN

Tiers == 0..2
NoHint == -1

ASSUME RoutingAssumption ==
    /\ MinModel \in [Tools -> Tiers]
    /\ \A role \in DOMAIN Preferred : Preferred[role] \in Tiers
    /\ AllowClientHint \in BOOLEAN
    /\ RespectMinModel \in BOOLEAN
    /\ FallbackChain \in Seq(Tiers)

\* The highest of some ranks, haiku for none.
MaxTier(ranks) == Max(ranks \cup {0})

\* The rank no model of the run may be below.
ComputeFloor(tools) == MaxTier({MinModel[t] : t \in tools})

\* resolveModelForRequest(): a tool above the tier the role or the hint asks
\* for is left out, or, without respectMinModel, raises the tier.
ResolveModelForRequest(role, userHint, available) ==
    LET hinted == AllowClientHint /\ userHint # NoHint
        effective == IF hinted THEN userHint ELSE Preferred[role]
        allowed == IF RespectMinModel
                   THEN {t \in available : MinModel[t] <= effective}
                   ELSE available
        floor == ComputeFloor(allowed)
    IN  [tier |-> MaxTier({effective, floor}), floor |-> floor, allowed |-> allowed]

\* The other models of the chain.
OtherModels(tier) ==
    FoldLeft(LAMBDA others, t : IF t # tier THEN Append(others, t) ELSE others, <<>>, FallbackChain)

\* The routed model first, then the others, of all those that the floor leaves
\* (the first part of runWithModelFallback).
ChainOf(route) ==
    FoldLeft(LAMBDA models, t : IF t >= route.floor THEN Append(models, t) ELSE models, <<>>,
             <<route.tier>> \o OtherModels(route.tier))
=============================================================================
