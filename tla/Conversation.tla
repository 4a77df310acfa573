---------------------------- MODULE Conversation ----------------------------
(***************************************************************************)
(* One conversation of a channel: AutoReplyPipeline (packages/server/src/  *)
(* auto-reply/pipeline.ts) takes an inbound message through its stages,    *)
(* RunnerExecutionAdapter (execution-adapter.ts) loads the history, lets   *)
(* the Runner (packages/agent/src/execution/runner.ts) talk to the model   *)
(* and to the tools, stores the history again, and the answer is sent.     *)
(*                                                                         *)
(* MessageRouting shows that process() runs once at a time per session, so *)
(* one turn is under way.  What interleaves with it is the abort signal    *)
(* (the 60 s timeout or the router), failures of model, tools, database    *)
(* and channel, and the death of the process.  A step of the model is what *)
(* the code does between two awaits that really wait; the SQLite calls are *)
(* synchronous and do not.                                                 *)
(***************************************************************************)
EXTENDS Integers, Sequences

CONSTANTS Limit,        \* historyLimit: messages loaded into a run
          MaxSteps,     \* maxTurns of the Runner: model calls per run
          MaxAttempts,  \* runs per message that model fallback may start
          MaxReceived   \* bound on the messages received

ASSUME ConversationAssumption ==
    /\ Limit \in Nat \ {0}
    /\ MaxSteps \in Nat \ {0}
    /\ MaxAttempts \in Nat \ {0}
    /\ MaxReceived \in Nat

VARIABLES history,   \* rows of the messages table, in insertion order
          received,  \* messages processed so far; the turn's own number
          turn,      \* where the pipeline is, and what it knows there
          aborted,   \* combinedSignal.aborted
          typing,    \* the interval of startTyping() is sending
          sent       \* answers that reached the channel

conversationVars == <<history, received, turn, aborted, typing, sent>>

-----------------------------------------------------------------------------
(* A message is known by the turn that made it, the model call it belongs  *)
(* to, and its role: the user's text, an assistant message with a tool_use *)
(* block, the tool message with its result, or the final answer.           *)
Msg(step, role) == [turn |-> received, step |-> step, role |-> role]
Messages == [turn : 1..MaxReceived, step : 0..MaxSteps,
             role : {"user", "call", "result", "answer"}]

Idle == [at |-> "idle"]
Stage(at) == [at |-> at]
RunStages == {"calling", "tools", "backoff"}
Running == turn.at \in RunStages

\* Faulty variant: slice(0, limit), the oldest messages are kept.
WindowOldest(h) == SubSeq(h, 1, IF Len(h) > Limit THEN Limit ELSE Len(h))

\* Faulty variant: slice(-limit), an orphaned result may come first.
WindowCutsPairs(h) == SubSeq(h, (IF Len(h) > Limit THEN Len(h) - Limit ELSE 0) + 1, Len(h))

\* sliceHistoryRespectingToolPairs(): the last Limit messages, without the
\* results in front whose calls were cut off.
Window(h) ==
    LET cut == IF Len(h) > Limit THEN Len(h) - Limit ELSE 0
        first == CHOOSE i \in (cut + 1)..(Len(h) + 1) :
                    /\ i = Len(h) + 1 \/ h[i].role # "result"
                    /\ \A j \in (cut + 1)..(i - 1) : h[j].role = "result"
    IN  SubSeq(h, first, Len(h))

\* extractAssistantText(): the turn whose assistant message comes last, 0 if none.
TextOf(h) ==
    LET said == {i \in 1..Len(h) : h[i].role \in {"call", "answer"}}
    IN  IF said = {} THEN 0
        ELSE h[CHOOSE i \in said : \A j \in said : j <= i].turn

-----------------------------------------------------------------------------
ConversationInit ==
    /\ history = <<>>
    /\ received = 0
    /\ turn = Idle
    /\ aborted = FALSE
    /\ typing = FALSE
    /\ sent = <<>>

\* process() is called: normalize and command run through, memory capture waits.
Process == /\ turn = Idle
           /\ received < MaxReceived
           /\ received' = received + 1
           /\ turn' = Stage("capturing")
           /\ aborted' = FALSE
           /\ UNCHANGED <<history, typing, sent>>

\* "!finclaw reset" is executed in the command stage, a failure swallowed, and
\* ends the pipeline (skip).  Its reply text is not sent.
ResetCommand == /\ turn = Idle
                /\ received < MaxReceived
                /\ received' = received + 1
                /\ history' \in {<<>>, history}
                /\ aborted' = FALSE
                /\ UNCHANGED <<turn, typing, sent>>

\* The pipeline is left, with typing?.seal() where a controller exists.
Leave == turn' = Idle /\ typing' = FALSE

\* Memory capture never fails; the abort check of the ack stage follows.
Captured == /\ turn.at = "capturing"
            /\ turn' = IF aborted THEN Idle ELSE Stage("acking")
            /\ UNCHANGED <<history, received, aborted, typing, sent>>

\* Faulty variant: the abort exit before the context stage forgets the seal.
AckedUnsealed == /\ turn.at = "acking"
                 /\ turn' = IF aborted THEN Idle ELSE Stage("context")
                 /\ typing' = TRUE
                 /\ UNCHANGED <<history, received, aborted, sent>>

\* The reaction was added, or not; the indicator starts, and an abort seals it.
Acked == /\ turn.at = "acking"
         /\ IF aborted THEN Leave
                       ELSE turn' = Stage("context") /\ typing' = TRUE
         /\ UNCHANGED <<history, received, aborted, sent>>

\* enrichContext() settles; if it throws, the pipeline ends.
Enriched == /\ turn.at = "context"
            /\ \/ turn' = Stage("retrieving") /\ UNCHANGED typing
               \/ Leave
            /\ UNCHANGED <<history, received, aborted, sent>>

-----------------------------------------------------------------------------
\* while (turns < maxTurns)
LoopEnds(step) == step > MaxSteps

\* Faulty variant: no abort check between execute and deliver.
CompleteUnchecked(msgs) ==
    /\ history' \in {msgs, history}
    /\ typing' = FALSE
    /\ turn' \in {Idle, [at |-> "sending", text |-> TextOf(msgs)]}

\* The run has a result, also one that was aborted or ran out of model calls:
\* persistHistory() replaces all rows (or fails, which is logged), the answer
\* may carry NO_REPLY or SILENT_REPLY, and an abort stops it before delivery.
Complete(msgs) ==
    /\ history' \in {msgs, history}
    /\ typing' = FALSE
    /\ turn' \in {Idle} \cup (IF aborted THEN {}
                              ELSE {[at |-> "sending", text |-> TextOf(msgs)]})

\* The head of the Runner's loop: step is the model call to make next.
Loop(msgs, step, base, attempt, loaded) ==
    IF LoopEnds(step) \/ aborted
      THEN Complete(msgs)
      ELSE /\ turn' = [at |-> "calling", msgs |-> msgs, step |-> step,
                       base |-> base, attempt |-> attempt, loaded |-> loaded]
           /\ UNCHANGED <<history, typing>>

\* Retrieval settles, its error swallowed.  The execute stage loads the history,
\* an empty one if that fails, and the first run starts.
Retrieved ==
    /\ turn.at = "retrieving"
    /\ IF aborted
         THEN Leave /\ UNCHANGED history
         ELSE \E loaded \in BOOLEAN :
                LET base == Append(IF loaded THEN Window(history) ELSE <<>>, Msg(0, "user"))
                IN  Loop(base, 1, base, 1, loaded)
    /\ UNCHANGED <<received, aborted, sent>>

\* The stream ends without a tool call: the run is completed.
Answered == /\ turn.at = "calling"
            /\ Complete(Append(turn.msgs, Msg(turn.step, "answer")))
            /\ UNCHANGED <<received, aborted, sent>>

\* The stream ends with tool calls, which are executed.
ToolsCalled == /\ turn.at = "calling"
               /\ turn' = [turn EXCEPT !.at = "tools",
                                       !.msgs = Append(@, Msg(turn.step, "call"))]
               /\ UNCHANGED <<history, received, aborted, typing, sent>>

\* Every tool has an answer, errors included, and the loop goes on.
ToolsDone == /\ turn.at = "tools"
             /\ Loop(Append(turn.msgs, Msg(turn.step, "result")), turn.step + 1,
                     turn.base, turn.attempt, turn.loaded)
             /\ UNCHANGED <<received, aborted, sent>>

\* The model call fails in a way that model fallback handles: another run over
\* the same messages, with the next model at once or the same one after a wait.
RunFails == /\ turn.at = "calling"
            /\ turn.attempt < MaxAttempts
            /\ \/ Loop(turn.base, 1, turn.base, turn.attempt + 1, turn.loaded)
               \/ /\ turn' = [turn EXCEPT !.at = "backoff"]
                  /\ UNCHANGED <<history, typing>>
            /\ UNCHANGED <<received, aborted, sent>>

\* sleepWithAbort() is over; when aborted it throws instead (RunThrows).
BackoffOver == /\ turn.at = "backoff"
               /\ ~aborted
               /\ Loop(turn.base, 1, turn.base, turn.attempt + 1, turn.loaded)
               /\ UNCHANGED <<received, aborted, sent>>

\* Any other error, a second schema violation of a tool, an abort during the
\* call or the wait, or no attempt left: execute() rejects and nothing is stored.
RunThrows == /\ \/ turn.at \in {"calling", "tools"}
                \/ turn.at = "backoff" /\ aborted
             /\ Leave
             /\ UNCHANGED <<history, received, aborted, sent>>

\* The parts went out one after the other; a part that fails is only logged.
Delivered == /\ turn.at = "sending"
             /\ \/ sent' = Append(sent, [for |-> received, text |-> turn.text])
                \/ UNCHANGED sent
             /\ Leave
             /\ UNCHANGED <<history, received, aborted>>

\* AbortSignal.any: the timeout of the pipeline, or the router's controller.
Abort == /\ turn.at # "idle" /\ ~aborted
         /\ aborted' = TRUE
         /\ UNCHANGED <<history, received, turn, typing, sent>>

\* The time to live of the typing controller.
TypingExpires == /\ typing
                 /\ typing' = FALSE
                 /\ UNCHANGED <<history, received, turn, aborted, sent>>

\* The process dies and starts again; what it was working on is gone.
Crash == /\ turn # Idle
         /\ Leave
         /\ UNCHANGED <<history, received, aborted, sent>>

-----------------------------------------------------------------------------
Advance == \/ Captured
           \/ Acked
           \/ Enriched
           \/ Retrieved
           \/ Answered
           \/ ToolsCalled
           \/ ToolsDone
           \/ RunFails
           \/ BackoffOver
           \/ RunThrows
           \/ Delivered

ConversationNext ==
    \/ Process
    \/ ResetCommand
    \/ Advance
    \/ Abort
    \/ TypingExpires
    \/ Crash

ConversationSpec == ConversationInit /\ [][ConversationNext]_conversationVars

\* Whatever is awaited settles in the end (requests carry the abort signal or
\* the runtime's own timeouts).  Nothing is assumed of the typing timer.
ConversationFairSpec == ConversationSpec /\ WF_conversationVars(Advance)

-----------------------------------------------------------------------------
\* Rows, answers and the pipeline's place have their types; no run goes beyond
\* maxTurns model calls or the attempts that model fallback allows.
ConversationTypeOK ==
    /\ history \in Seq(Messages)
    /\ received \in 0..MaxReceived
    /\ aborted \in BOOLEAN
    /\ typing \in BOOLEAN
    /\ sent \in Seq([for : 1..MaxReceived, text : 0..MaxReceived])
    /\ \/ turn \in [at : {"idle", "capturing", "acking", "context", "retrieving"}]
       \/ turn \in [at : {"sending"}, text : 0..MaxReceived]
       \/ turn \in [at : RunStages, msgs : Seq(Messages), base : Seq(Messages),
                    step : 1..MaxSteps, attempt : 1..MaxAttempts, loaded : BOOLEAN]

\* Every tool call is directly followed by its result, and every result
\* directly preceded by its call.
PairedUp(h) ==
    \A i \in 1..Len(h) :
      /\ h[i].role = "call" =>
           i < Len(h) /\ h[i + 1] = [h[i] EXCEPT !.role = "result"]
      /\ h[i].role = "result" =>
           i > 1 /\ h[i - 1] = [h[i] EXCEPT !.role = "call"]

\* Nothing is stored twice or out of order.
Sorted(h) ==
    \A i, j \in 1..Len(h) : i < j =>
      \/ h[i].turn < h[j].turn
      \/ h[i].turn = h[j].turn /\ h[i].step < h[j].step
      \/ h[i].turn = h[j].turn /\ h[i].step = h[j].step
           /\ h[i].role = "call" /\ h[j].role = "result"

\* What the next run loads and what is sent to the model is a conversation the
\* provider accepts, whatever was cut off, aborted, retried or lost before: the
\* API answers 400 to an unpaired tool result and the session would be stuck.
HistoryCoherent ==
    /\ ConversationTypeOK
    /\ PairedUp(history) /\ Sorted(history)
    /\ turn.at \in {"calling", "backoff"} => PairedUp(turn.msgs) /\ Sorted(turn.msgs)

\* The text that is sent was written for the message it answers.  An aborted run
\* has no text of its own, and extractAssistantText() then finds the answer to an
\* earlier message in its history.
AnswerIsOwn == \A i \in 1..Len(sent) : sent[i].text = sent[i].for

\* Both together: what a conversation keeps and says is in order.
HistoryKept == HistoryCoherent /\ AnswerIsOwn

\* The conversation remembers: of the last Limit messages nothing is ever lost
\* but results whose call was cut off, except by the reset command and by a run
\* whose load failed and which then stores its own messages over all others.
RecentRemembered ==
    [][(history' # <<>> /\ (Running => turn.loaded \/ history = history')) =>
         \A i \in 1..Len(history) :
           \/ i <= Len(history) - Limit
           \/ \E j \in 1..Len(history') : history'[j] = history[i]
           \/ /\ history[i].role = "result"
              /\ i = Len(history) - Limit + 1]_conversationVars

\* Every message's turn ends, and by then the typing indicator is off without
\* help from its own timer: each exit of the pipeline seals it.
TurnEnds == turn # Idle ~> (turn = Idle /\ ~typing)
=============================================================================
