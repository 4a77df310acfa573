------------------------------ MODULE AgentLoop ------------------------------
(***************************************************************************)
(* One agent.run (packages/server/src/gateway/rpc/methods/agent.ts): the   *)
(* request is routed to a model and to the tools that model may be offered,*)
(* Runner.execute() (packages/agent/src/execution/runner.ts) alternates    *)
(* between a streamed answer of the model and the tools it calls, and      *)
(* runWithModelFallback() starts the whole loop again when it failed.      *)
(* The lane around a run, the breaker of the provider and the saving of    *)
(* the answer are modelled in Lane, ModelFallback and Memory.              *)
(***************************************************************************)
EXTENDS Routing, ToolPolicy, Functions

CONSTANTS Requests,     \* [role, hint]
          RuleSets,     \* sequences of policy rules
          Providers,    \* adapters the runner is built with
          Enforced,     \* tools with enforceStructuredOutput
          Required,     \* [Enforced -> fields outputSchema requires]
          Outputs,      \* [Tools -> fields of what the executor returns]
          MaxBlocks,    \* bound: blocks of one answer
          MaxTurns, MaxTries, MaxRetriesPerModel

ASSUME LoopAssumption ==
    /\ Requests \subseteq [role : DOMAIN Preferred, hint : Tiers \cup {NoHint}]
    /\ RuleSets \subseteq Seq(PolicyRule)
    /\ Enforced \subseteq Tools
    /\ MaxTurns \in Nat \ {0} /\ MaxTries \in Nat \ {0}
    /\ MaxRetriesPerModel \in Nat

VARIABLES
    provider,    \* the adapter of this runner
    rules,       \* the registry's policy rules
    phase,       \* where the run is
    route,       \* the router's decision
    chain,       \* models left: the current one first
    again,       \* retries of the current model
    turns, tries,
    msgs,        \* messages of this execute() after the prompt
    violations,  \* structured output violations of each tool
    force,       \* nextForceToolName, as a set
    jobs,        \* the answer's calls: where each tool execution is
    aborted,     \* abortController.signal.aborted
    ran,         \* calls of this execute() whose executor was called
    recorded          \* what addAgentRun() was given

request == <<provider, rules, route>>
fallback == <<chain, again>>
talk == <<msgs, violations, force>>
loop == <<turns, tries, talk, jobs, ran>>
vars == <<request, fallback, loop, phase, aborted, recorded>>

NoRow == [error |-> "none", calls |-> <<>>]
NoRoute == [tier |-> 0, floor |-> 0, allowed |-> {}]
Text == "text"
User == "agent-run"      \* userId and channelId of agent.run

-----------------------------------------------------------------------------
\* What the adapters make of an answer. A block is a text or a tool call,
\* whose input is cut off when the answer reaches max_tokens.
Block == [tool : Tools \cup {Text}, cut : BOOLEAN]
IsCall(block) == block.tool # Text

\* Answers the model gives: it calls tools that were offered, the forced one
\* if there is one, and only the last block can be cut off.
Answers(offered, forced) ==
    {blocks \in UNION {[1..n -> Block] : n \in 0..MaxBlocks} :
        /\ \A i \in DOMAIN blocks :
             /\ blocks[i].tool \in offered \cup {Text}
             /\ blocks[i].cut => i = Len(blocks) /\ IsCall(blocks[i])
        /\ forced # {} => \E i \in DOMAIN blocks : blocks[i].tool \in forced}

\* Faulty variant: a call that is complete stays pending.
FeedKeepsPending(blocks, buffer, chunk) ==
    CASE chunk.type = "start" -> [buffer EXCEPT !.pending = {chunk.of}]
      [] chunk.type = "end" /\ buffer.pending # {} ->
           [buffer EXCEPT !.done = Append(@, CHOOSE k \in buffer.pending : TRUE)]
      [] OTHER -> buffer

\* ToolInputBuffer.feed(), one chunk at a time: one pending call, and an
\* input that does not parse is an error.
Feed(blocks, buffer, chunk) ==
    CASE chunk.type = "start" ->
           [buffer EXCEPT !.pending = {chunk.of}]
      [] chunk.type = "delta" -> buffer
      [] chunk.type = "end" /\ buffer.pending = {} -> buffer
      [] chunk.type = "end" /\ buffer.pending # {} ->
           LET i == CHOOSE k \in buffer.pending : TRUE
           IN  [buffer EXCEPT !.pending = {},
                              !.done = Append(@, i),
                              !.broken = @ \/ blocks[i].cut]

NewBuffer == [pending |-> {}, done |-> <<>>, broken |-> FALSE]
Started(blocks, buffer, i) ==
    Feed(blocks, Feed(blocks, buffer, [type |-> "start", of |-> i]), [type |-> "delta", of |-> i])
Ended(blocks, buffer, i) == Feed(blocks, buffer, [type |-> "end", of |-> i])
Places(blocks) == [i \in DOMAIN blocks |-> i]

\* mapAnthropicStreamEvent(): one block after the other, and the end of every
\* block, of texts too, is a tool_use_end.
AnthropicStream(blocks) ==
    FoldLeft(LAMBDA buffer, i :
                Ended(blocks, IF IsCall(blocks[i]) THEN Started(blocks, buffer, i) ELSE buffer, i),
             NewBuffer, Places(blocks))

\* OpenAIAdapter.streamCompletion(): the calls start one after the other, and
\* all end with the answer.
OpenAIStarts(blocks) ==
    FoldLeft(LAMBDA buffer, i : IF IsCall(blocks[i]) THEN Started(blocks, buffer, i) ELSE buffer,
             NewBuffer, Places(blocks))
OpenAIStream(blocks) ==
    FoldLeft(LAMBDA buffer, i : IF IsCall(blocks[i]) THEN Ended(blocks, buffer, i) ELSE buffer,
             OpenAIStarts(blocks), Places(blocks))

\* streamLLMCall(): the calls that came out of a whole answer.
Received(blocks) ==
    IF provider = "anthropic" THEN AnthropicStream(blocks) ELSE OpenAIStream(blocks)

\* A call of this answer, with the id the provider gave it.
CallOf(blocks, i) == [id |-> <<turns, i>>, tool |-> blocks[i].tool]

\* The calls that the model made, in their order.
Made(blocks) ==
    FoldLeft(LAMBDA calls, i : IF IsCall(blocks[i]) THEN Append(calls, CallOf(blocks, i)) ELSE calls,
             <<>>, Places(blocks))

-----------------------------------------------------------------------------
Init == /\ provider \in Providers
        /\ rules \in RuleSets
        /\ phase = "idle" /\ route = NoRoute /\ chain = <<>>
        /\ again = 0 /\ turns = 0 /\ tries = 0
        /\ msgs = <<>>
        /\ violations = [t \in Enforced |-> 0]
        /\ force = {} /\ jobs = <<>>
        /\ aborted = FALSE /\ ran = {} /\ recorded = NoRow

\* execute() with a fresh state of its own.
Execute ==
    /\ phase' = "turn"
    /\ turns' = 0 /\ tries' = 0 /\ msgs' = <<>>
    /\ violations' = [t \in Enforced |-> 0]
    /\ force' = {} /\ jobs' = <<>> /\ ran' = {}

\* agent.run: the router decides, the tools it leaves are offered, and the
\* first model of the chain runs. With no model left the run fails.
Run(req) ==
    /\ phase = "idle"
    /\ route' = ResolveModelForRequest(req.role, req.hint, Tools)
    /\ chain' = ChainOf(route')
    /\ again' = 0
    /\ Execute
    /\ UNCHANGED <<provider, rules, aborted, recorded>>

\* The run's timer, or a caller that gave up.
Abort ==
    /\ phase \notin {"idle", "over"} /\ ~aborted
    /\ aborted' = TRUE
    /\ UNCHANGED <<request, fallback, loop, phase, recorded>>

-----------------------------------------------------------------------------
\* Ends of agent.run. collectToolCalls() pairs the calls with their results.
ResultOf(call, i) ==
    IF i < Len(msgs) /\ \E r \in DOMAIN msgs[i + 1].results :
                            msgs[i + 1].results[r].id = call.id
    THEN msgs[i + 1].results[CHOOSE r \in DOMAIN msgs[i + 1].results :
                                msgs[i + 1].results[r].id = call.id].outcome
    ELSE "none"

CollectToolCalls ==
    FoldLeft(LAMBDA row, i : row \o [k \in DOMAIN msgs[i].calls |->
                [id |-> msgs[i].calls[k].id, tool |-> msgs[i].calls[k].tool,
                 outcome |-> ResultOf(msgs[i].calls[k], i)]],
             <<>>, Places(msgs))

\* buildResult() and the rest of agent.run: the row holds the calls.
Return ==
    /\ phase' = "over"
    /\ recorded' = [error |-> "no", calls |-> CollectToolCalls]

\* The error goes through agent.run's catch: the row holds the error only.
Throw(error) ==
    /\ phase' = "over"
    /\ recorded' = [error |-> error, calls |-> <<>>]

\* An error of execute() that the fallback may answer is left to it.
Fail(error) ==
    IF error \in {"transient", "overloaded"}
    THEN /\ phase' = "failed"
         /\ UNCHANGED recorded
    ELSE Throw(error)

-----------------------------------------------------------------------------
\* The head of the loop.
EndAborted ==
    /\ phase = "turn" /\ turns < MaxTurns /\ aborted
    /\ Return
    /\ UNCHANGED <<request, fallback, loop, aborted>>

EndMaxTurns ==
    /\ phase = "turn" /\ turns = MaxTurns
    /\ Return
    /\ UNCHANGED <<request, fallback, loop, aborted>>

StartTurn ==
    /\ phase = "turn" /\ turns < MaxTurns /\ ~aborted
    /\ turns' = turns + 1 /\ tries' = 1
    /\ phase' = "call"
    /\ UNCHANGED <<request, fallback, talk, jobs, ran, aborted, recorded>>

\* A whole answer: its calls start together, one without calls ends the run,
\* and one whose input does not parse fails it.
Answered(blocks) ==
    LET received == Received(blocks)
        calls == [k \in DOMAIN received.done |-> CallOf(blocks, received.done[k])]
    IN  /\ phase = "call" /\ ~aborted
        /\ blocks \in Answers(route.allowed, force)
        /\ force' = {}
        /\ IF received.broken
           THEN Fail("syntax") /\ UNCHANGED <<msgs, jobs>>
           ELSE /\ msgs' = Append(msgs, [calls |-> calls, made |-> Made(blocks), results |-> <<>>])
                /\ jobs' = [k \in DOMAIN calls |-> "running"]
                /\ phase' = IF calls = <<>> THEN "answered" ELSE "tools"
                /\ UNCHANGED recorded
        /\ UNCHANGED <<request, fallback, turns, tries, violations, ran, aborted>>

EndCompleted ==
    /\ phase = "answered"
    /\ Return
    /\ UNCHANGED <<request, fallback, loop, aborted>>

\* The stream breaks off: retry() repeats rate limits, server errors and time
\* outs, not an overloaded model, a rejected request or an abort.
StreamFails(error) ==
    /\ phase = "call"
    /\ aborted <=> error = "abort"
    /\ IF error = "transient" /\ tries < MaxTries
       THEN phase' = "backoff" /\ UNCHANGED recorded
       ELSE Fail(error)
    /\ UNCHANGED <<request, fallback, loop, aborted>>

\* Faulty variant: the back-off waits on when the run is aborted.
RetryIgnoresAbort ==
    /\ phase = "backoff" /\ ~aborted
    /\ phase' = "call" /\ tries' = tries + 1
    /\ UNCHANGED <<request, fallback, talk, turns, jobs, ran, aborted, recorded>>

\* sleepWithAbort() of retry(): over, or cut short by the signal.
Retry ==
    /\ phase = "backoff"
    /\ IF aborted
       THEN Throw("abort") /\ UNCHANGED tries
       ELSE phase' = "call" /\ tries' = tries + 1 /\ UNCHANGED recorded
    /\ UNCHANGED <<request, fallback, talk, turns, jobs, ran, aborted>>

-----------------------------------------------------------------------------
\* executeAll(): every call in InMemoryToolRegistry.execute() on its own.
Calls == msgs[Len(msgs)].calls

\* The input does not fit the tool's schema, or the policy denies the tool:
\* the executor is not called.
Refuse(k) ==
    LET tool == Calls[k].tool
        denied == EvaluateToolPolicy(rules, tool, User, User) = "deny"
    IN  /\ phase = "tools" /\ jobs[k] = "running"
        /\ \E outcome \in {"badInput"} \cup (IF denied THEN {"denied"} ELSE {}) :
              jobs' = [jobs EXCEPT ![k] = outcome]
        /\ UNCHANGED <<request, fallback, talk, turns, tries, ran, phase, aborted, recorded>>

\* The executor is called under a timer.
Call(k) ==
    /\ phase = "tools" /\ jobs[k] = "running"
    /\ EvaluateToolPolicy(rules, Calls[k].tool, User, User) # "deny"
    /\ jobs' = [jobs EXCEPT ![k] = "called"]
    /\ ran' = ran \cup {Calls[k]}
    /\ UNCHANGED <<request, fallback, talk, turns, tries, phase, aborted, recorded>>

\* The executor settles: its timer and the run's abort only signal it to stop,
\* and execute() waits on until it does.
Settle(k, outcome) ==
    /\ phase = "tools" /\ jobs[k] = "called"
    /\ jobs' = [jobs EXCEPT ![k] = outcome]
    /\ UNCHANGED <<request, fallback, talk, turns, tries, ran, phase, aborted, recorded>>

\* executeSingle() checks what comes back. The registry's isError is lost on
\* the way (buildDispatcher), so an error of an enforced tool is an output
\* that does not fit the schema.
Conforms(tool, outcome) == outcome = "ok" /\ Required[tool] \subseteq Outputs[tool]

Violates(k) == /\ Calls[k].tool \in Enforced
               /\ ~Conforms(Calls[k].tool, jobs[k])

\* The violations of an answer, in the order of its calls.
Judge ==
    LET Step(state, k) ==
            LET tool == Calls[k].tool
            IN  IF ~Violates(k) \/ state.thrown THEN state
                ELSE IF state.counts[tool] >= 1 THEN [state EXCEPT !.thrown = TRUE]
                ELSE [state EXCEPT !.counts[tool] = @ + 1, !.force = {tool}]
    IN  FoldLeft(Step, [counts |-> violations, force |-> {}, thrown |-> FALSE],
                 [k \in DOMAIN jobs |-> k])

\* Faulty variant: outputs that do not fit the schema are left out.
ResultsAccepted ==
    LET accepted == SelectSeq([k \in DOMAIN jobs |-> k], LAMBDA k : ~Violates(k))
    IN  [n \in DOMAIN accepted |->
           [id |-> Calls[accepted[n]].id, outcome |-> jobs[accepted[n]]]]

\* Promise.all(): one result for each call, in the order of the calls.
Results == [k \in DOMAIN jobs |-> [id |-> Calls[k].id, outcome |-> jobs[k]]]

Settled(k) == jobs[k] \notin {"running", "called"}
\* Faulty variant: Promise.race() for Promise.all().
OneSettled == \E k \in DOMAIN jobs : Settled(k)
AllSettled == \A k \in DOMAIN jobs : Settled(k)

\* All have settled: a second violation of a tool fails the run, otherwise
\* the results go back to the model, which is forced to repeat the tool.
ToolsDone ==
    /\ phase = "tools"
    /\ AllSettled
    /\ IF Judge.thrown
       THEN Fail("structured") /\ UNCHANGED talk
       ELSE /\ msgs' = Append(msgs,
                  [calls |-> <<>>, made |-> <<>>, results |-> Results])
            /\ violations' = Judge.counts
            /\ force' = Judge.force
            /\ phase' = "turn"
            /\ UNCHANGED recorded
    /\ jobs' = <<>>
    /\ UNCHANGED <<request, fallback, turns, tries, ran, aborted>>

-----------------------------------------------------------------------------
\* runWithModelFallback() after an error of execute() that it may answer.
SameModel ==
    /\ phase = "failed" /\ again < MaxRetriesPerModel
    /\ IF aborted
       THEN Throw("abort")
            /\ UNCHANGED <<again, loop>>
       ELSE Execute /\ again' = again + 1 /\ UNCHANGED recorded
    /\ UNCHANGED <<request, chain, aborted>>

NextModel ==
    /\ phase = "failed" /\ again = MaxRetriesPerModel /\ Len(chain) > 1
    /\ chain' = Tail(chain) /\ again' = 0
    /\ Execute
    /\ UNCHANGED <<request, aborted, recorded>>

Exhausted ==
    /\ phase = "failed" /\ again = MaxRetriesPerModel /\ Len(chain) = 1
    /\ Throw("exhausted")
    /\ UNCHANGED <<request, fallback, loop, aborted>>

-----------------------------------------------------------------------------
Progress ==
    \/ EndAborted \/ EndMaxTurns \/ StartTurn \/ EndCompleted \/ Retry
    \/ \E blocks \in Answers(route.allowed, force) : Answered(blocks)
    \/ \E error \in {"transient", "overloaded", "rejected", "abort"} : StreamFails(error)
    \/ \E k \in DOMAIN jobs :
          \/ Refuse(k) \/ Call(k)
          \/ \E outcome \in {"ok", "failed"} : Settle(k, outcome)
    \/ ToolsDone \/ SameModel \/ NextModel \/ Exhausted

Next == \/ \E req \in Requests : Run(req)
        \/ Abort
        \/ Progress

Spec == Init /\ [][Next]_vars

\* A request to the model and an executor end by their own time limits, the
\* rest is the event loop going on: a run that can move does move.
FairSpec == Spec /\ WF_vars(Progress)

-----------------------------------------------------------------------------
\* First part of HistoryAccepted. The history the model is sent is one it
\* accepts (providers/anthropic.ts):
\* the calls of an answer are followed at once by their results, one each and
\* in the order of the calls, whatever order the tools settle in and whichever
\* of them are refused, fail or outlive an abort.
CallsAnswered ==
    \A i \in DOMAIN msgs :
        LET ids(calls) == [k \in DOMAIN calls |-> calls[k].id]
        IN  /\ msgs[i].calls # <<>> /\ (i < Len(msgs) \/ phase \in {"turn", "answered"}) =>
                 i < Len(msgs) /\ ids(msgs[i + 1].results) = ids(msgs[i].calls)
            /\ msgs[i].results # <<>> => i > 1 /\ msgs[i - 1].calls # <<>>

\* Second part. The buffer of one pending call loses none of the calls of an answer that
\* Anthropic streams, texts between them included. Of the parallel calls of
\* an answer that OpenAI streams it keeps the last only (openai.ts:155 ends
\* all of them with the answer, tool-input-buffer.ts:31 has room for one).
CallsKept ==
    \A i \in DOMAIN msgs :
        LET made == msgs[i].made
        IN  msgs[i].calls = IF provider = "anthropic" \/ made = <<>> THEN made
                            ELSE <<made[Len(made)]>>

\* Whatever order the tools settle in and whoever aborts, the conversation
\* sent back to the model answers every call it made, once and in order.
HistoryAccepted == CallsAnswered /\ CallsKept

\* No executor is called for a tool that a global deny rule or one for the
\* caller matches, whatever rules of higher priority allow it, nor for a tool
\* whose minModel is above the model that runs, also after the run has fallen
\* back to another model (routing.ts:26, fallback.ts:104).
OnlyPermitted ==
    \A call \in ran :
        /\ \A i \in DOMAIN rules :
             ~ /\ rules[i].verdict = "deny" /\ rules[i].channel = Anyone
               /\ rules[i].user \in {Anyone, User}
               /\ MatchToolPattern(rules[i].pattern, call.tool)
        /\ RespectMinModel => \A i \in DOMAIN chain : MinModel[call.tool] <= chain[i]

\* The row of a run that returned holds exactly the calls whose executors its
\* last execute() called, each with the outcome it had, and a result for every
\* other call. (A run that failed leaves no call in its row, and what earlier
\* attempts of the fallback executed is in no row: fallback.ts:190.)
EffectsRecorded ==
    recorded.error = "no" =>
             LET took == {k \in DOMAIN recorded.calls : recorded.calls[k].outcome \in {"ok", "failed"}}
             IN  /\ {[id |-> recorded.calls[k].id, tool |-> recorded.calls[k].tool] : k \in took} = ran
                 /\ \A k \in DOMAIN recorded.calls : recorded.calls[k].outcome # "none"

\* Every run is over at some time: streams that break off, retries, forced
\* repetitions, fallbacks and an abort at any point included.
LoopEnds == (phase # "idle") ~> (phase = "over")

\* news/tools.ts:151: what analyze_market returns is an object of its schema,
\* so an analysis that succeeded is not taken for a violation.
AnalysisAccepted ==
    phase = "tools" => \A k \in DOMAIN jobs : jobs[k] = "ok" => ~Violates(k)

=============================================================================
