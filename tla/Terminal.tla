------------------------------ MODULE Terminal ------------------------------
(***************************************************************************)
(* The terminal's client (packages/tui/src/gateway-client.ts, App.tsx) and *)
(* the chat sessions it starts (packages/server/src/gateway/registry.ts,   *)
(* rpc/methods/chat.ts).  Every way to the server is a socket or a timer   *)
(* that will open one.  An attempt that fails schedules two more, in the   *)
(* close event and in the catch block, so that after an outage several     *)
(* sockets open side by side; requests go to the latest of them.           *)
(*                                                                         *)
(* A session is named after its connection, which has one at most.         *)
(***************************************************************************)
EXTENDS Integers, FiniteSets

CONSTANTS Sockets,         \* sockets at a time
          MaxConnections,  \* config.ws.maxConnections
          MaxBreaks,       \* failures of the network or the server
          None

TerminalAssumption == None \notin Sockets /\ {MaxConnections, MaxBreaks} \subseteq Nat

VARIABLES sock,       \* each socket: how its ends see it
          ws,         \* the latest socket
          timers,     \* reconnect timers
          app,        \* the mounted application
          start,      \* the chat.start of each socket's open event
          sessions,   \* connections with a running session
          sessionId,  \* the session that the application uses
          breaks

vars == <<sock, ws, timers, app, start, sessions, sessionId, breaks>>

-----------------------------------------------------------------------------
NoSocket == [client |-> "none", server |-> "none", again |-> FALSE]
NoStart == [at |-> "none", on |-> None]

Init == /\ sock = [s \in Sockets |-> NoSocket]
        /\ ws = None /\ timers = 0 /\ app = "new"
        /\ start = [s \in Sockets |-> NoStart]
        /\ sessions = {} /\ sessionId = None /\ breaks = 0

\* Nothing of an earlier use of the name is left.
Free(s) == /\ sock[s].client = "none" /\ sock[s].server = "none" /\ start[s] = NoStart
           /\ \A o \in Sockets : start[o].on # s

\* Free names are alike: one of them is taken.
Fresh == CHOOSE s \in Sockets : Free(s)

Open(s) == s # None /\ sock[s].client = "open"

\* doConnect(): for connect(), or for a timer whose catch block waits for its
\* outcome (again).
Connects(again) ==
    /\ \E s \in Sockets : Free(s)
    /\ sock' = [sock EXCEPT ![Fresh] = [client |-> "connecting", server |-> "none", again |-> again]]
    /\ ws' = Fresh
    /\ sessionId' = IF sessionId = Fresh THEN None ELSE sessionId
    /\ UNCHANGED <<start, sessions, breaks>>

Mount == app = "new" /\ app' = "mounted" /\ Connects(FALSE) /\ UNCHANGED timers

TimerFires == timers > 0 /\ timers' = timers - 1 /\ Connects(TRUE) /\ UNCHANGED app

\* The close event schedules the next attempt; the catch block of a timer whose
\* attempt has failed does so as well.
Closed(s) == timers' = timers + (IF sock[s].again THEN 2 ELSE 1)

\* The attempt fails: error event and close event.
ConnectFails(s) ==
    /\ sock[s].client = "connecting"
    /\ breaks < MaxBreaks /\ breaks' = breaks + 1
    /\ sock' = [sock EXCEPT ![s] = NoSocket]
    /\ Closed(s)
    /\ UNCHANGED <<ws, app, start, sessions, sessionId>>

Registered == {s \in Sockets : sock[s].server = "registered"}

\* request(): on the latest socket, unless that does not stand yet.
Request(s) == IF s = ws \/ Open(ws) THEN [at |-> "sent", on |-> ws] ELSE NoStart

\* The connection stands, and the handlers of the open event ask for a session.
Opens(s) ==
    /\ sock[s].client = "connecting"
    /\ sock' = [sock EXCEPT ![s] =
                  [client |-> "open", again |-> FALSE,
                   server |-> IF Cardinality(Registered) < MaxConnections THEN "registered" ELSE "refused"]]
    /\ start' = [start EXCEPT ![s] = Request(s)]
    /\ UNCHANGED <<ws, timers, app, sessions, sessionId, breaks>>

\* The socket closes: refused, closed by disconnect(), or the path is cut.
ClientCloses(s) ==
    /\ \/ sock[s].client = "open" /\ sock[s].server # "registered" /\ UNCHANGED breaks
       \/ sock[s].client = "closing" /\ UNCHANGED breaks
       \/ sock[s].client = "open" /\ breaks < MaxBreaks /\ breaks' = breaks + 1
    /\ sock' = [sock EXCEPT ![s].client = "none"]
    /\ Closed(s)
    /\ UNCHANGED <<ws, app, start, sessions, sessionId>>

\* The server sees the connection closed, or its heartbeat finds it silent.  Its
\* session stays until its time to live ends, out of the terminal's reach.
ServerCloses(s) ==
    /\ sock[s].server # "none" /\ sock[s].client \notin {"open", "connecting"}
    /\ sock' = [sock EXCEPT ![s].server = "none"]
    /\ sessions' = sessions \ {s}
    /\ UNCHANGED <<ws, timers, app, start, sessionId, breaks>>

\* chat.start: startSession() refuses a second session of a connection.
StartSession(o) ==
    LET s == start[o].on IN
    /\ start[o].at = "sent" /\ s \in Registered
    /\ sessions' = sessions \union {s}
    /\ start' = [start EXCEPT ![o].at = IF s \in sessions THEN "refused" ELSE "started"]
    /\ UNCHANGED <<sock, ws, timers, app, sessionId, breaks>>

\* The answer arrives, and with an error or after 30 s without one the catch block does nothing.
StartAnswered(o) ==
    /\ \/ start[o].at \in {"started", "refused"}
       \/ start[o].at = "sent" /\ ~Open(start[o].on)
    /\ sessionId' = IF start[o].at = "started" /\ Open(start[o].on) THEN start[o].on ELSE sessionId
    /\ start' = [start EXCEPT ![o] = NoStart]
    /\ UNCHANGED <<sock, ws, timers, app, sessions, breaks>>

\* The time to live ends, or cleanup() finds it over.
Expires(s) == /\ s \in sessions /\ sessions' = sessions \ {s}
              /\ UNCHANGED <<sock, ws, timers, app, start, sessionId, breaks>>

\* disconnect(): clears the last timer that was set and closes the latest socket.
Disconnect ==
    /\ app = "mounted" /\ app' = "left"
    /\ \E cleared \in {0, 1} : cleared <= timers /\ timers' = timers - cleared
    /\ ws' = None
    /\ sock' = IF ws # None /\ sock[ws].client \in {"open", "connecting"}
                 THEN [sock EXCEPT ![ws].client = "closing"] ELSE sock
    /\ UNCHANGED <<start, sessions, sessionId, breaks>>

-----------------------------------------------------------------------------
Ends(s) == ClientCloses(s) \/ ServerCloses(s)
Answer(o) == StartSession(o) \/ StartAnswered(o)

Next == \/ Mount \/ TimerFires \/ Disconnect
        \/ \E s \in Sockets : Opens(s) \/ ConnectFails(s) \/ Ends(s) \/ Answer(s) \/ Expires(s)

\* Timers fire; attempts have an outcome, both ends learn of a socket's end, and its
\* request is served.
Moves(s) == \/ Opens(s) \/ ServerCloses(s) \/ Answer(s)
            \/ sock[s].server # "registered" /\ ClientCloses(s)
Fairness == WF_vars(TimerFires) /\ \A s \in Sockets : WF_vars(Moves(s))

Spec == Init /\ [][Next]_vars /\ Fairness

-----------------------------------------------------------------------------
Ways == Cardinality({s \in Sockets : sock[s].client \in {"connecting", "open"}}) + timers

\* The mounted terminal is never without a way to the server, nor with more ways
\* than its failures explain: whatever closes is followed by an attempt, and only
\* an attempt that failed by two.  (gateway-client.ts: scheduleReconnect)
WaysKept == app = "mounted" => Ways \in 1 .. 1 + breaks

\* The terminal uses a session that it started on a connection which still stands.
Serving == Open(sessionId) /\ sock[sessionId].server = "registered"

\* Whatever is cut, it gets such a session again: also when several sockets open
\* in any order and answers of older ones arrive late; unless its own ways are
\* more than the server has connections for.  (App.tsx: onConnected)
GetsSession == <>(app = "left" \/ Ways > MaxConnections) \/ [](app = "mounted" => <>Serving)
=============================================================================
