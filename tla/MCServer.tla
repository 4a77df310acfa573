------------------------------ MODULE MCServer ------------------------------
(***************************************************************************)
(* Small instances for TLC of the server process: the agent loop           *)
(* (AgentLoop), the gateway with a page, from boot to exit (Gateway), the  *)
(* terminal with its chat sessions (Terminal), schedules (Scheduler) and   *)
(* their cron expressions (Cron).  A behaviour exercises one of them,      *)
(* chosen at the start, while the others rest: they share no state.        *)
(***************************************************************************)
EXTENDS AgentLoop, Scheduler, Gateway

VARIABLE scope  \* the part that this behaviour exercises

-----------------------------------------------------------------------------
\* One tool of each minModel. analyze_market enforces its output; what its
\* executor returns and what its schema requires are those of news/tools.ts.
MCTools == {"get_stock_price", "analyze_market"}
MCMinModel == [t \in MCTools |-> IF t = "analyze_market" THEN 2 ELSE 0]
MCGroupOf == [t \in MCTools |-> "finance"]
MCPrefixOf == [t \in MCTools |-> "none"]
MCPreferred == [role \in {"fetch", "analysis"} |-> IF role = "fetch" THEN 0 ELSE 2]
MCChain == <<2, 1, 0>>
MCRequired == [t \in {"analyze_market"} |-> {"trend", "volatility", "drivers"}]
MCOutputs == [t \in MCTools |->
                IF t = "analyze_market"
                THEN {"summary", "sentiment", "keyFactors", "risks", "opportunities",
                      "timeHorizon", "dataGaps", "analyzedAt", "newsCount", "symbols"}
                ELSE {"price"}]
MCRequests == {[role |-> "fetch", hint |-> NoHint], [role |-> "analysis", hint |-> NoHint],
               [role |-> "analysis", hint |-> 1]}

Rule(pattern, verdict, priority, user, channel) ==
    [pattern |-> pattern, verdict |-> verdict, priority |-> priority,
     user |-> user, channel |-> channel]

\* The rule of main.ts, and rules as the tests of policy.ts give them: a deny
\* below an allow of higher priority, and one for a channel.
McpRule == Rule(Glob("mcp"), "require-approval", 100, Anyone, Anyone)
MCRuleSets == {<<McpRule>>,
               <<McpRule, Rule(Every, "allow", 50, Anyone, Anyone),
                 Rule(Name("get_stock_price"), "deny", 10, User, Anyone)>>}

-----------------------------------------------------------------------------
VARIABLES line, ws, retries, app, start, chats, sessionId, failures
Term == INSTANCE Terminal WITH Sockets <- {"t1", "t2", "t3"}, MaxConnections <- 2, MaxBreaks <- 2, None <- "none",
                               sock <- line, timers <- retries, sessions <- chats, breaks <- failures
termVars == <<line, ws, retries, app, start, chats, sessionId, failures>>

-----------------------------------------------------------------------------
\* Hours of two minutes, days of two hours, weeks of three days; a year has a month of
\* two days and one of a single day, or, every fourth year, of two.
Months == <<<<2, 1>>, <<2, 1>>, <<2, 1>>, <<2, 2>>>>
Dates == FlattenSeq([y \in 1..4 |-> FlattenSeq([m \in 1..2 |-> [d \in 1..Months[y][m] |-> <<m, d>>]])])
Minutes == [t \in 1..(4 * Len(Dates)) |->
              LET days == (t - 1) \div 4 IN
              [minute |-> (t - 1) % 2, hour |-> ((t - 1) \div 2) % 2, weekday |-> days % 3,
               day |-> Dates[days + 1][2], month |-> Dates[days + 1][1]]]
Ranges == [minute |-> 0..1, hour |-> 0..1, day |-> 1..2, month |-> 1..2, weekday |-> 0..2]

All == [form |-> "all"]
One(n) == [form |-> "one", lo |-> n]
Span(m, n) == [form |-> "range", lo |-> m, hi |-> n]
Step(part, n) == [form |-> "step", of |-> part, step |-> n]

\* Every form of a part, those included that are refused, in one field; and several
\* fields restricted at a time.
Forms(f) == LET last == Max(Ranges[f]) IN
            {<<Step(All, 2)>>, <<Span(Min(Ranges[f]), last)>>, <<Step(One(1), 2), One(1)>>, <<Span(2, 1), All>>,
             <<Step(Span(2, 1), 1)>>, <<Step(All, 0)>>, <<One(last + 1)>>, <<[form |-> "other"]>>}
Lists(f) == {<<All>>, <<One(Max(Ranges[f]))>>, <<Step(All, 2)>>}
Lines == UNION {{[f \in DOMAIN Ranges |-> IF f = g THEN s ELSE <<All>>] : s \in Forms(g)} : g \in {"minute", "day"}}
         \cup {[minute |-> <<One(1)>>, hour |-> <<One(0)>>, day |-> d, month |-> m, weekday |-> w] :
                  d \in Lists("day"), m \in Lists("month"), w \in Lists("weekday")}

VARIABLES expr, cron, now, next, up, since, fired
Cron == INSTANCE Cron WITH Calendar <- Minutes, FieldRange <- Ranges, Year <- 16, Exprs <- Lines
cronVars == <<expr, cron, now, next, up, since, fired>>

-----------------------------------------------------------------------------
ASSUME GatewayAssumption /\ Term!TerminalAssumption /\ SchedulerAssumption

all == <<scope, vars, gatewayVars, termVars, schedulerVars, cronVars>>

\* What rests has one of its initial states.
MCInit == /\ scope \in {"agent", "gateway", "terminal", "schedules", "cron"}
          /\ Init /\ (scope # "agent" => provider = "anthropic" /\ rules = <<McpRule>>)
          /\ GatewayInit /\ Term!Init /\ SchedulerInit
          /\ expr \in (IF scope = "cron" THEN Lines ELSE {CHOOSE e \in Lines : TRUE})
          /\ Cron!Init /\ (scope # "cron" => now = 1)

MCNext == /\ UNCHANGED scope
          /\ IF scope = "agent" THEN Next ELSE UNCHANGED vars
          /\ IF scope = "gateway" THEN GatewayNext ELSE UNCHANGED gatewayVars
          /\ IF scope = "terminal" THEN Term!Next ELSE UNCHANGED termVars
          /\ IF scope = "schedules" THEN SchedulerNext ELSE UNCHANGED schedulerVars
          /\ IF scope = "cron" THEN Cron!Next ELSE UNCHANGED cronVars

\* The fairness of each part, in the behaviours that exercise it.
MCSpec == /\ MCInit /\ [][MCNext]_all
          /\ WF_vars(scope = "agent" /\ Progress)
          /\ WF_gatewayVars(scope = "gateway" /\ Heartbeat)
          /\ \A s \in Sockets : /\ WF_gatewayVars(scope = "gateway" /\ Moves(s))
                              /\ WF_gatewayVars(scope = "gateway" /\ Pong(s))
          /\ WF_termVars(scope = "terminal" /\ Term!TimerFires)
          /\ \A s \in {"t1", "t2", "t3"} : WF_termVars(scope = "terminal" /\ Term!Moves(s))
          /\ WF_schedulerVars(scope = "schedules" /\ Tick)
          /\ \A s \in Ids : WF_schedulerVars(scope = "schedules" /\ RunStep(s))

\* A run that can move on ends.  (See AgentLoop.)
EveryRunEnds == scope = "agent" => LoopEnds

\* A page whose socket is gone gets to a registered connection again, and the
\* terminal to a session on a connection that stands, with as many ways as its
\* failures explain.  (See Gateway and Terminal.)
BothReconnect == /\ Reconnects
                 /\ scope = "terminal" => Term!GetsSession
                 /\ [](scope = "terminal" => Term!WaysKept)

\* A schedule starts in the minutes that its expression says.  (See Cron.)
FiresAsWritten == Cron!FiresAsWritten

\* An enabled schedule that is left alone is run again and again.  (See Scheduler.)
SchedulesRun == scope = "schedules" => KeepsRunning
=============================================================================
