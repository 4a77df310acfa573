----------------------------- MODULE ToolPolicy ------------------------------
(***************************************************************************)
(* The policy pipeline of the tool registry                                *)
(* (packages/agent/src/agents/tools/policy.ts): a sequence of rules, in    *)
(* the order of addPolicyRule(), and the verdict on a tool for a caller.   *)
(***************************************************************************)
EXTENDS Integers, Sequences, FiniteSets

CONSTANTS GroupOf,        \* the group of each tool, also its glob pattern's prefix
          PrefixOf,       \* what stands before the ":" of each tool's name
          Transactional   \* tools that move money

Anyone == "anyone"   \* no such field in the rule's scope

\* A pattern is a tool's name, "*", or a glob "<prefix>:*".
Every == [kind |-> "all", of |-> "*"]
Glob(prefix) == [kind |-> "glob", of |-> prefix]
Name(tool) == [kind |-> "name", of |-> tool]

\* A rule's scope names a user and a channel, or leaves them open.
PolicyRule == [pattern : [kind : {"all", "glob", "name"}, of : STRING],
               verdict : {"allow", "deny", "require-approval"}, priority : Int,
               user : STRING, channel : STRING]

MatchToolPattern(pattern, tool) ==
    \/ pattern = Every
    \/ pattern = Glob(PrefixOf[tool])
    \/ pattern = Name(tool)

Unscoped(rule) == rule.user = Anyone /\ rule.channel = Anyone

\* The verdict of the rule of highest priority, the oldest of equals, among
\* the matched ones; none without a rule.
TopVerdict(rules, matched) ==
    LET first == {i \in matched :
                    \A j \in matched \ {i} :
                      \/ rules[i].priority > rules[j].priority
                      \/ rules[i].priority = rules[j].priority /\ i < j}
    IN  {rules[i].verdict : i \in first}

\* What the nine stages say. The allow lists of stages 2 and 4 and the
\* default of stage 9 end nothing, so only the other stages count.
StageVerdicts(rules, tool, user, channel) ==
    LET matching == {i \in DOMAIN rules : MatchToolPattern(rules[i].pattern, tool)}
        unscoped == {i \in matching : Unscoped(rules[i])}
        denying == {i \in matching : rules[i].verdict = "deny"}
        ofUser == {i \in matching : rules[i].user = user}
        ofChannel == {i \in matching : rules[i].channel = channel}
        ofGroup == {i \in unscoped : rules[i].pattern \in {Every, Glob(GroupOf[tool])}}
        ofTool == {i \in unscoped : rules[i].pattern = Name(tool)}
        deciding == {denying \intersect unscoped, denying \intersect ofUser,
                     ofChannel, ofGroup, ofTool}
    IN  UNION {TopVerdict(rules, matched) : matched \in deciding}
        \cup (IF tool \in Transactional THEN {"require-approval"} ELSE {})

\* Faulty variant: the rule of highest priority decides alone.
EvaluateByPriority(rules, tool, user, channel) ==
    LET matching == {i \in DOMAIN rules : MatchToolPattern(rules[i].pattern, tool)}
    IN  IF TopVerdict(rules, matching) = {"deny"} THEN "deny" ELSE "allow"

\* evaluateToolPolicy(): the first deny ends the pipeline, an approval is kept
\* for its end.
EvaluateToolPolicy(rules, tool, user, channel) ==
    LET said == StageVerdicts(rules, tool, user, channel)
    IN  CASE "deny" \in said -> "deny"
          [] "deny" \notin said /\ "require-approval" \in said -> "require-approval"
          [] OTHER -> "allow"
=============================================================================
