------------------------------- MODULE Gateway -------------------------------
(***************************************************************************)
(* The gateway process and one web page that talks to it.                  *)
(*                                                                         *)
(* main() (packages/server/src/main.ts) starts the parts one after the     *)
(* other and registers a cleanup for most of them with ProcessLifecycle;   *)
(* a signal runs the cleanups in reverse order.  createGatewayServer()     *)
(* (gateway/server.ts) accepts WebSockets and HTTP requests; the page's    *)
(* AppGateway (packages/web/src/app-gateway.ts) keeps one socket open.     *)
(*                                                                         *)
(* The two ends of a socket are separate state: each learns on its own     *)
(* that the path between them is gone, the server by its heartbeat.  A     *)
(* socket or request is reused once both ends are done with it, so only    *)
(* path failures need a bound.  Time is counted, in the 5 s of the drain,  *)
(* from the signal on.                                                     *)
(***************************************************************************)
EXTENDS Integers, Sequences, SequencesExt, FiniteSets

CONSTANTS Sockets,         \* WebSocket connections, of the one page
          Frames,          \* frames the page sends on them
          Posts,           \* HTTP POST /rpc requests of other callers
          MaxConnections,  \* ws.maxConnections
          MaxBreaks,       \* bound on path failures
          Left             \* stands for the chat sessions of closed sockets

GatewayAssumption ==
    /\ IsFiniteSet(Sockets) /\ Left \notin Sockets
    /\ MaxConnections \in Nat \ {0}
    /\ MaxBreaks \in Nat

VARIABLES process,   \* phase of the process
          step,      \* the step of main() that comes next
          cleanups,  \* registered cleanups that have not run yet
          stage,     \* where the cleanup that is awaited stands
          db,        \* the database is open
          listening, \* the HTTP server accepts connections
          ticking,   \* the scheduler's poller is on
          runs,      \* its active set is not empty
          sessions,  \* ChatRegistry.sessions, by socket
          sock,      \* both ends of every socket, and the path between
          page,      \* the page's element: new, attached, removed
          timers,    \* reconnect timers of the page that are pending
          ask,       \* requests on the sockets
          post,      \* HTTP requests
          breaks     \* path failures so far

procVars == <<process, step, cleanups, stage, db, ticking, runs>>
netVars == <<sock, page, timers, ask, breaks>>
gatewayVars == <<procVars, listening, sessions, netVars, post>>

-----------------------------------------------------------------------------
Parts == {"storage", "discord", "alerts", "plugins", "scheduler", "accessLog",
          "gateway", "hotReload"}

NoSocket == [client |-> "none", server |-> "none", path |-> TRUE, alive |-> TRUE]
NoRequest == [pending |-> FALSE, on |-> Left, server |-> "none"]

Up == process \in {"serving", "stopping"}
Draining == process = "stopping" /\ ~Contains(cleanups, "gateway")
Beating == Up /\ stage # "closing" /\ (Contains(cleanups, "gateway") \/ stage = "draining")
Connections == {s \in Sockets : sock[s].server \in {"registered", "closing"}}
Channel == {s \in Sockets : sock[s].client \in {"connecting", "open"}}
Attached == page = "attached"

GatewayInit == /\ process = "booting" /\ step = 1 /\ cleanups = <<>>
               /\ stage = "none"
               /\ db = FALSE /\ listening = FALSE /\ ticking = FALSE /\ runs = FALSE
               /\ sessions = {}
               /\ sock = [s \in Sockets |-> NoSocket]
               /\ page = "new" /\ timers = 0 /\ breaks = 0
               /\ ask = [r \in Frames |-> NoRequest]
               /\ post = [p \in Posts |-> "none"]

-----------------------------------------------------------------------------
(* Starting.  Each step of main() registers the cleanups of what it made.  *)
Boot(n, made) == /\ process = "booting" /\ step = n
                 /\ step' = n + 1
                 /\ cleanups' = cleanups \o made
                 /\ UNCHANGED <<process, stage, ticking, runs, listening, sessions, netVars, post>>

\* The environment is checked, loadConfig() validates.
LoadConfig == Boot(1, <<>>) /\ UNCHANGED db

\* createStorage() opens and migrates the database; without an embedding
\* provider the search falls back to text.
OpenStorage == Boot(2, <<"storage">>) /\ db' = TRUE

\* The Discord client logs in.
LoginDiscord == Boot(3, <<"discord">>) /\ UNCHANGED db

\* Market, news and alert skills register as far as there are keys for them;
\* alerts need the other two.
RegisterSkills == (Boot(4, <<"alerts">>) \/ Boot(4, <<>>)) /\ UNCHANGED db

\* Policy rule, then plugins with their MCP servers.
LoadPlugins == Boot(5, <<"plugins">>) /\ UNCHANGED db

\* Lanes, scheduler, gateway server, purge timer, and hot reload outside production.
WireGateway == /\ \/ Boot(6, <<"scheduler", "accessLog", "gateway">>)
                  \/ Boot(6, <<"scheduler", "accessLog", "gateway", "hotReload">>)
               /\ UNCHANGED db

\* lifecycle.init(), gateway.start(), scheduler.start().
Serve == /\ process = "booting" /\ step = 7
         /\ process' = "serving"
         /\ listening' = TRUE
         /\ ticking' = TRUE
         /\ UNCHANGED <<step, cleanups, stage, db, runs, sessions, netVars, post>>

(* The process is gone, and with it the server's end of everything.        *)
Gone(how) == /\ process' = how
             /\ cleanups' = <<>> /\ stage' = "none"
             /\ db' = FALSE /\ listening' = FALSE /\ ticking' = FALSE /\ runs' = FALSE
             /\ sessions' = {}
             /\ sock' = [s \in Sockets |-> [sock[s] EXCEPT !.server = "none"]]
             /\ ask' = [r \in Frames |-> [ask[r] EXCEPT !.server = "none"]]
             /\ post' = [p \in Posts |-> "none"]
             /\ UNCHANGED <<step, page, timers, breaks>>

\* main() rejects and exits, or a signal comes before lifecycle.init().
BootFails == process = "booting" /\ Gone("killed")

\* Somebody starts the process again.
Respawn == /\ process \in {"exited", "killed"}
           /\ process' = "booting" /\ step' = 1
           /\ UNCHANGED <<cleanups, stage, db, ticking, runs, listening,
                          sessions, netVars, post>>

-----------------------------------------------------------------------------
(* Stopping.                                                               *)
Signal == /\ process = "serving"
          /\ process' = "stopping"
          /\ UNCHANGED <<step, cleanups, stage, db, ticking, runs, listening,
                         sessions, netVars, post>>

\* toReversed(): the cleanup that was registered last.
NextCleanup == Last(cleanups)

\* The handler's loop takes the next cleanup once the one before is done.
Takes(part) == /\ process = "stopping" /\ stage = "none" /\ cleanups # <<>>
               /\ NextCleanup = part
               /\ cleanups' = Front(cleanups)
               /\ UNCHANGED <<process, step>>

\* Cleanups that nothing in this model waits for or is changed by.
StopPart == /\ \E part \in {"hotReload", "accessLog", "plugins", "alerts", "discord"} : Takes(part)
            /\ UNCHANGED <<stage, db, ticking, runs, listening, sessions, netVars, post>>

\* The steps of stop() after the drain: no more heartbeat, close frames to all
\* sockets, close() of the HTTP server.
CloseServer == /\ stage' = "closing"
               /\ listening' = FALSE
               /\ sock' = [s \in Sockets |->
                             IF sock[s].server = "registered"
                               THEN [sock[s] EXCEPT !.server = "closing"] ELSE sock[s]]

\* stop() up to the drain, which is left out when there are no connections.
StopGateway == /\ Takes("gateway")
               /\ sessions' = {}
               /\ IF Connections = {} THEN CloseServer
                  ELSE stage' = "draining" /\ UNCHANGED <<listening, sock>>
               /\ UNCHANGED <<db, ticking, runs, page, timers, ask, breaks, post>>

\* The drain's 5 s are over.
Drained == /\ stage = "draining"
           /\ CloseServer
           /\ UNCHANGED <<process, step, cleanups, db, ticking, runs, sessions,
                          page, timers, ask, breaks, post>>

\* Faulty variant: stop() does not wait for the HTTP server's connections.
GatewayStoppedEarly == /\ stage = "closing"
                       /\ stage' = "none"
                       /\ sessions' = {}
                       /\ UNCHANGED <<process, step, cleanups, db, ticking, runs,
                                      listening, netVars, post>>

\* The callback of close(): no socket and no request with a caller is left.
GatewayStopped == /\ \A s \in Sockets : sock[s].server = "none"
                  /\ \A p \in Posts : post[p] # "running"
                  /\ GatewayStoppedEarly

\* SchedulerService.stop() waits for its active runs.  Its own limit of 60 s
\* is not modelled: the handler's 30 s are over first.
StopScheduler == /\ Takes("scheduler")
                 /\ ticking' = FALSE
                 /\ stage' = "waiting"
                 /\ UNCHANGED <<db, runs, listening, sessions, netVars, post>>
SchedulerStopped == /\ stage = "waiting" /\ ~runs
                    /\ stage' = "none"
                    /\ UNCHANGED <<process, step, cleanups, db, ticking, runs,
                                   listening, sessions, netVars, post>>

CloseStorage == /\ Takes("storage")
                /\ db' = FALSE
                /\ UNCHANGED <<stage, ticking, runs, listening, sessions, netVars, post>>

\* All cleanups ran: exit(0).
ExitCleanly == process = "stopping" /\ stage = "none" /\ cleanups = <<>> /\ Gone("exited")

\* The 30 s are over, or a second signal comes: exit(1).
ForceExit == process = "stopping" /\ Gone("killed")

-----------------------------------------------------------------------------
(* The page: connectedCallback() connects once, disconnectedCallback()     *)
(* disconnects for good.                                                   *)
Free(s) == sock[s].client = "none" /\ sock[s].server = "none"

\* doConnect()
Opens(s) == /\ Free(s)
            /\ sock' = [sock EXCEPT ![s] = [NoSocket EXCEPT !.client = "connecting"]]
            /\ UNCHANGED <<procVars, listening, sessions, ask, breaks, post>>

Attach(s) == /\ page = "new"
             /\ page' = "attached"
             /\ Opens(s) /\ UNCHANGED timers

\* The callback of the reconnect timer.
Reconnect(s) == /\ timers > 0
                /\ timers' = timers - 1
                /\ Opens(s) /\ UNCHANGED page

\* A request when its page's socket is gone: what travels is lost, a handler goes on.
Cut(r) == [ask[r] EXCEPT !.pending = FALSE,
                         !.server = IF @ = "running" THEN @ ELSE "none"]

\* Faulty variant, the code of the terminal's client (packages/tui): a failed
\* attempt schedules the next one in the close event and in the catch block.
ClosedTwice(s) ==
    /\ timers' = timers + (IF sock[s].client = "connecting" THEN 2 ELSE 1)
    /\ ask' = [r \in Frames |-> Cut(r)]

\* The close event: every pending request is rejected, and the next attempt is
\* scheduled unless the page closed the socket itself.
Closed(s) == /\ timers' = IF Attached THEN timers + 1 ELSE timers
             /\ ask' = [r \in Frames |-> Cut(r)]

\* What the server does for a new connection: too many, or registered.
Admission == IF Cardinality(Connections) >= MaxConnections THEN "refused" ELSE "registered"

\* The upgrade succeeds, and the server sees the connection.  The page's token is valid.
Upgraded(s) == /\ sock[s].client = "connecting" /\ listening
               /\ sock' = [sock EXCEPT ![s] = [NoSocket EXCEPT !.client = "open", !.server = Admission]]
               /\ UNCHANGED <<procVars, listening, sessions, page, timers, ask, breaks, post>>

\* The attempt fails: nobody listens, or the network does not reach the host.
ConnectFails(s) == /\ sock[s].client = "connecting"
                   /\ listening => breaks < MaxBreaks
                   /\ breaks' = IF listening THEN breaks + 1 ELSE breaks
                   /\ sock' = [sock EXCEPT ![s] = NoSocket]
                   /\ Closed(s)
                   /\ UNCHANGED <<procVars, listening, sessions, page, post>>

\* disconnect(): the timer is cleared and the socket closes.
Detach == /\ Attached
          /\ page' = "removed" /\ timers' = 0
          /\ sock' = [s \in Sockets |-> IF s \in Channel THEN [sock[s] EXCEPT !.client = "closing"]
                                                         ELSE sock[s]]
          /\ UNCHANGED <<procVars, listening, sessions, ask, breaks, post>>

-----------------------------------------------------------------------------
(* The ends of a socket.                                                   *)

\* A close frame of either end, or a terminated connection, reaches both ends
\* over a path that works; the server's close handler forgets the connection
\* and leaves its chat session.
SocketCloses(s) == /\ \/ sock[s].client = "closing"
                      \/ sock[s].client = "open" /\ sock[s].server # "registered"
                   /\ sock[s].path
                   /\ sock' = [sock EXCEPT ![s] = NoSocket]
                   /\ sessions' = {IF x = s THEN Left ELSE x : x \in sessions}
                   /\ Closed(s)
                   /\ UNCHANGED <<procVars, listening, page, breaks, post>>

\* The path goes silent, and frames on it are lost.
Break(s) == /\ breaks < MaxBreaks /\ breaks' = breaks + 1
            /\ sock[s].client \in {"open", "closing"} /\ sock[s].path
            /\ sock' = [sock EXCEPT ![s].path = FALSE]
            /\ ask' = [r \in Frames |->
                         IF ask[r].on = s /\ ask[r].server \in {"sent", "replied"}
                           THEN [ask[r] EXCEPT !.server = "none"] ELSE ask[r]]
            /\ UNCHANGED <<procVars, listening, sessions, page, timers, post>>

\* The page's system gives the connection up.
PageNotices(s) == /\ sock[s].client \in {"open", "closing"} /\ ~sock[s].path
                  /\ sock' = [sock EXCEPT ![s].client = "none"]
                  /\ Closed(s)
                  /\ UNCHANGED <<procVars, listening, sessions, page, breaks, post>>

\* The WebSocket library gives up waiting for the answer to a close frame.
CloseTimeout(s) == /\ sock[s].server \in {"refused", "closing"} /\ ~sock[s].path
                   /\ sock' = [sock EXCEPT ![s].server = "none"]
                   /\ sessions' = {IF x = s THEN Left ELSE x : x \in sessions}
                   /\ UNCHANGED <<procVars, listening, page, timers, ask, breaks, post>>

\* Faulty variant: isAlive is never cleared, so no silence is noticed.
BeatForgets(s) == sock[s]

\* A socket without a pong since the last beat is terminated, the others are asked.
Beat(s) == IF sock[s].server = "none" THEN sock[s]
           ELSE IF sock[s].alive THEN [sock[s] EXCEPT !.alive = FALSE]
           ELSE [sock[s] EXCEPT !.server = "none"]

\* The interval is 30 s: a peer that can answer has answered the last ping.
Heartbeat == /\ Beating
             /\ \A s \in Sockets : sock[s].client = "open" /\ sock[s].path => sock[s].alive
             /\ sock' = [s \in Sockets |-> Beat(s)]
             /\ sessions' = {IF x # Left /\ Beat(x).server = "none" THEN Left ELSE x : x \in sessions}
             /\ UNCHANGED <<procVars, listening, page, timers, ask, breaks, post>>

Pong(s) == /\ sock[s].client = "open" /\ sock[s].path /\ ~sock[s].alive
           /\ sock' = [sock EXCEPT ![s].alive = TRUE]
           /\ UNCHANGED <<procVars, listening, sessions, page, timers, ask, breaks, post>>

-----------------------------------------------------------------------------
(* Requests.  The id of a request is new: it is modelled as free once both *)
(* ends are done with it.                                                  *)
AskVars(r, s, pending, server) ==
    /\ ask' = [ask EXCEPT ![r] = [pending |-> pending, on |-> s, server |-> server]]
    /\ UNCHANGED <<process, step, cleanups, stage, db, ticking, listening, sock, page, timers, breaks, post>>

\* send(): the page's socket is open.
Send(r, s) == /\ ~ask[r].pending /\ ask[r].server = "none"
              /\ sock[s].client = "open" /\ Attached
              /\ AskVars(r, s, TRUE, IF sock[s].path THEN "sent" ELSE "none")
              /\ UNCHANGED <<sessions, runs>>

\* A connection that was refused, or is gone, has no message handler.
Unheard(r) == /\ ask[r].server = "sent" /\ ask[r].on \notin Connections
              /\ AskVars(r, ask[r].on, ask[r].pending, "none")
              /\ UNCHANGED <<sessions, runs>>

\* The message handler: dispatchRpc() checks the request and starts its method.
\* chat.start adds a session unless the connection has one; schedule.runNow
\* starts a run.  Requests are served during the drain, too.
Receive(r) == /\ ask[r].server = "sent" /\ ask[r].on \in Connections
              /\ AskVars(r, ask[r].on, ask[r].pending, "running")
              /\ \/ UNCHANGED <<sessions, runs>>
                 \/ sessions' = sessions \cup {ask[r].on} /\ UNCHANGED runs
                 \/ runs' = TRUE /\ UNCHANGED sessions

\* The handler is done, in any order of the requests; ws.send() on a socket
\* that is not open does nothing.
Respond(r) == LET s == ask[r].on IN
              /\ ask[r].server = "running"
              /\ AskVars(r, s, ask[r].pending,
                         IF sock[s].server = "registered" /\ sock[s].path /\ sock[s].client = "open"
                           THEN "replied" ELSE "none")
              /\ UNCHANGED <<sessions, runs>>

\* handleMessage(): the answer settles its request, if that still waits.
AnswerArrives(r) == /\ ask[r].server = "replied"
                    /\ AskVars(r, ask[r].on, FALSE, "none")
                    /\ UNCHANGED <<sessions, runs>>

\* The 30 s of send().
AskTimeout(r) == /\ ask[r].pending
                 /\ AskVars(r, ask[r].on, FALSE, ask[r].server)
                 /\ UNCHANGED <<sessions, runs>>

\* The time to live of a chat session ends, or its cleanup finds it.
SessionExpires == /\ \E x \in sessions : sessions' = sessions \ {x}
                  /\ UNCHANGED <<procVars, listening, netVars, post>>

Posted(p, from, to) == /\ post[p] = from
                       /\ post' = [post EXCEPT ![p] = to]
                       /\ UNCHANGED <<procVars, listening, sessions, netVars>>

\* handleHttpRequest() and handleRpcRequest(): a drain refuses (503), as do the
\* rate limits, the parser and authenticate(); then the method runs.
PostArrives(p) == listening /\ ~Draining /\ Posted(p, "none", "running")
\* The caller gives up; the handler goes on without it.
PostDropped(p) == Posted(p, "running", "orphan")
PostAnswered(p) == Posted(p, "running", "none") \/ Posted(p, "orphan", "none")

\* A due schedule, or schedule.runNow in a POST whose body has arrived.
RunStarts == /\ ticking \/ \E p \in Posts : post[p] = "running"
             /\ runs' = TRUE
             /\ UNCHANGED <<process, step, cleanups, stage, db, ticking, listening, sessions, netVars, post>>
RunsEnd == /\ runs /\ runs' = FALSE
           /\ UNCHANGED <<process, step, cleanups, stage, db, ticking, listening, sessions, netVars, post>>

-----------------------------------------------------------------------------
Starting == \/ LoadConfig \/ OpenStorage \/ LoginDiscord \/ RegisterSkills \/ LoadPlugins
            \/ WireGateway \/ Serve \/ BootFails \/ Respawn
Stopping == \/ Signal \/ StopPart \/ StopGateway \/ Drained \/ GatewayStopped \/ StopScheduler
            \/ SchedulerStopped \/ CloseStorage \/ ExitCleanly \/ ForceExit
Page(s) == Attach(s) \/ Reconnect(s) \/ Upgraded(s) \/ ConnectFails(s)
Ends(s) == SocketCloses(s) \/ Break(s) \/ PageNotices(s) \/ CloseTimeout(s) \/ Pong(s)
Asking(r) == Unheard(r) \/ Receive(r) \/ Respond(r) \/ AnswerArrives(r) \/ AskTimeout(r)
Posting(p) == PostArrives(p) \/ PostDropped(p) \/ PostAnswered(p)

GatewayNext == \/ Starting \/ Stopping
               \/ Detach \/ Heartbeat \/ SessionExpires \/ RunStarts \/ RunsEnd
               \/ \E s \in Sockets : Page(s) \/ Ends(s) \/ \E r \in Frames : Send(r, s)
               \/ \E r \in Frames : Asking(r)
               \/ \E p \in Posts : Posting(p)

\* Timers of both ends fire, connection attempts have an outcome, close frames
\* and pongs arrive over a path that works: each socket that can move on does.
Moves(s) == \/ Reconnect(s) \/ Upgraded(s) \/ ConnectFails(s)
            \/ SocketCloses(s) \/ CloseTimeout(s)
Fairness == /\ WF_gatewayVars(Heartbeat)
            /\ \A s \in Sockets : WF_gatewayVars(Moves(s)) /\ WF_gatewayVars(Pong(s))

GatewaySpec == GatewayInit /\ [][GatewayNext]_gatewayVars
GatewayFairSpec == GatewaySpec /\ Fairness

-----------------------------------------------------------------------------
GatewayTypeOK ==
    /\ process \in {"booting", "serving", "stopping", "exited", "killed"} /\ step \in 1..7
    /\ cleanups \in Seq(Parts) /\ stage \in {"none", "draining", "closing", "waiting"}
    /\ {db, listening, ticking, runs} \subseteq BOOLEAN
    /\ sessions \subseteq Sockets \cup {Left}
    /\ sock \in [Sockets -> [client : {"none", "connecting", "open", "closing"},
                             server : {"none", "registered", "refused", "closing"},
                             path : BOOLEAN, alive : BOOLEAN]]
    /\ page \in {"new", "attached", "removed"} /\ timers \in Nat /\ breaks \in 0..MaxBreaks
    /\ ask \in [Frames -> [pending : BOOLEAN, on : Sockets \cup {Left},
                           server : {"none", "sent", "running", "replied"}]]
    /\ post \in [Posts -> {"none", "running", "orphan"}]

\* The page has one way to the server at a time: while it is attached there is
\* either one socket that connects or is open, or one reconnect timer, never
\* both or none; and every request that waits does so on the open socket, so
\* that an answer or the close event of that socket settles it.
\* (app-gateway.ts: doConnect, scheduleReconnect, disconnect)
ClientCoherent ==
    /\ GatewayTypeOK
    /\ Attached => Cardinality(Channel) + timers = 1
    /\ ~Attached => Channel = {} /\ timers = 0
    /\ Attached => \A r \in Frames : ask[r].pending => sock[ask[r].on].client = "open"

\* The cleanups of a signal cut nothing off that they were to end before: when
\* the scheduler is stopped nobody can reach the gateway any more, and when the
\* storage closes no schedule runs, the poller is off, and no chat session is
\* left.  (main.ts: lifecycle.register; server.ts: stop; lifecycle.ts: init)
NothingCutOff ==
    process = "stopping" =>
      /\ ~Contains(cleanups, "scheduler") =>
           /\ ~listening /\ Connections = {} /\ sessions = {}
           /\ \A p \in Posts : post[p] # "running"
      /\ ~db => ~ticking /\ ~runs /\ stage = "none"

\* The page keeps its way to the server, and the server its order when it goes.
ConnectionsKept == ClientCoherent /\ NothingCutOff

\* A page whose socket is gone gets to a registered connection again, also past
\* the slot that its own silent connection still takes: the heartbeat frees it.
\* (app-gateway.ts: scheduleReconnect; server.ts: wss connection; heartbeat.ts)
Reconnects ==
    (Attached /\ process = "serving" /\ \A s \in Sockets : sock[s].client # "open")
      ~> (~Attached \/ process # "serving" \/ \E s \in Sockets : sock[s].server = "registered" /\ sock[s].client = "open")
=============================================================================
