--------------------------------- MODULE Pages ---------------------------------
(***************************************************************************)
(* The tables of the web page besides the portfolio's: memories, runs and  *)
(* schedules of the settings view, the alerts view                         *)
(* (packages/web/src/views/settings-view.ts, alerts-view.ts), and the form *)
(* for a new schedule (schedule-form.ts).                                  *)
(*                                                                         *)
(* A table is asked for when its view opens, after the page's own changes, *)
(* and, for runs and schedules, when schedule.completed is notified.       *)
(* Frames keep their order on the page's socket, which may drop; a socket  *)
(* that is silent for the 30 s of a request counts as dropped.             *)
(***************************************************************************)
EXTENDS Integers, Sequences

CONSTANTS Memories, Runs, Schedules, Alerts,  \* ids of rows
          TypeOf,     \* of a memory
          Crons,      \* expressions that the form may hold
          ValidCrons, \* those that the server accepts
          MaxFrames,  \* bound on frames under way, for the user's clicks
          MaxEvents   \* bound on clicks and on what happens elsewhere

ASSUME PagesAssumption == /\ ValidCrons \subseteq Crons /\ ValidCrons # {}
                          /\ {MaxFrames, MaxEvents} \subseteq Nat

Tables == {"memories", "runs", "schedules", "alerts"}

VARIABLES stored,    \* the rows that the server has
          enabled,   \* the schedules among them that are enabled
          pending,   \* requests whose run has not ended yet
          tab,       \* the view that is open
          online,    \* gateway.isConnected
          up, down,  \* frames to the server and to the page
          shown,     \* rows of each table, and the enabled schedules among them
          filter,    \* memoryFilter
          current,   \* tables whose last load began on this socket, without a change
                     \* since then that nobody notifies
          expanded,  \* expandedRunId and expandedRun
          form,      \* the schedule form: open, its expression, what is known of it
          typing,    \* its cronDebounce is pending
          events     \* so many clicks and changes elsewhere there were

server == <<stored, enabled, pending>>
pageVars == <<server, tab, online, up, down, shown, filter, current, expanded, form, typing, events>>

-----------------------------------------------------------------------------
Nothing == "none"
NoForm == [at |-> "closed", cron |-> Nothing, error |-> FALSE]
Nobody == [id |-> Nothing, run |-> Nothing]
Types == {TypeOf[i] : i \in Memories}

\* What the *.list methods return; a filter is of one type, or none.
Listed(t, f) == CASE t = "memories"  -> {i \in stored[t] : f \in {Nothing, TypeOf[i]}}
                  [] t = "schedules" -> {[id |-> i, on |-> i \in enabled] : i \in stored[t]}
                  [] OTHER           -> stored[t]

-----------------------------------------------------------------------------
(* Frames: of which element, "gone" if that is no longer there, and "left" *)
(* for what a form submitted that was closed while its view is there; about *)
(* which table and row; "arg" is a filter or an expression.                *)
Frame(kind, t, id, arg) == [kind |-> kind, of |-> "page", table |-> t, id |-> id, arg |-> arg]
ListOf(t, f) == Frame("list", t, Nothing, IF t = "memories" THEN f ELSE Nothing)
Lists(ts, f) == [i \in DOMAIN ts |-> ListOf(ts[i], f)]
Members(ts) == {ts[i] : i \in DOMAIN ts}

Becomes(frames, of) == [i \in DOMAIN frames |-> [frames[i] EXCEPT !.of = of]]

\* What becomes of a frame when the form is removed.
Orphan(f) == IF f.of # "page" THEN f.of
             ELSE CASE f.kind \in {"test", "tested"} -> "gone"
                    [] f.kind \in {"submit", "submitted"} -> "left"
                    [] OTHER -> "page"
FormLeft(frames) == [i \in DOMAIN frames |-> [frames[i] EXCEPT !.of = Orphan(frames[i])]]

Needs == [settings |-> <<"memories", "runs", "schedules">>, alerts |-> <<"alerts">>]

PagesInit ==
    /\ \E rows \in {<<{}, {}>>, <<Runs, Schedules>>} :
         /\ stored = [memories |-> Memories, runs |-> rows[1], schedules |-> rows[2], alerts |-> {}]
         /\ enabled = rows[2] /\ pending = <<>>
    /\ tab \in {"settings", "alerts"} /\ online \in BOOLEAN
    /\ up = (IF online THEN Lists(Needs[tab], Nothing) ELSE <<>>) /\ down = <<>>
    /\ shown = [t \in Tables |-> {}] /\ filter = Nothing
    /\ current = (IF online THEN Members(Needs[tab]) ELSE {})
    /\ expanded = Nobody /\ form = NoForm /\ typing = FALSE /\ events = 0

-----------------------------------------------------------------------------
(* Loads.                                                                  *)
Ask(frames) == up' = up \o frames
Free == Len(up) + Len(down) < MaxFrames
pageRest == <<server, tab, online, down>>

\* load...(): nothing without a connection.
LoadOf(ts, f) == IF online THEN Ask(Lists(ts, f)) /\ current' = current \cup Members(ts)
                           ELSE UNCHANGED <<up, current>>
LoadTables(ts) == LoadOf(ts, filter)

\* A click on a tab: a new element takes the place of the old one, and loads
\* if there is a connection.
Opened(t) == /\ Free /\ t # tab /\ tab' = t
             /\ shown' = [x \in Tables |-> {}] /\ filter' = Nothing /\ expanded' = Nobody
             /\ form' = NoForm /\ typing' = FALSE
             /\ up' = Becomes(up, "gone") \o (IF online THEN Lists(Needs[t], Nothing) ELSE <<>>)
             /\ down' = <<>>
             /\ current' = IF online THEN Members(Needs[t]) ELSE {}
             /\ pending' = Becomes(pending, "gone")
             /\ UNCHANGED <<stored, enabled, online>>

\* The refresh buttons, which are there only with a connection.
Refresh(t) == /\ Free /\ online /\ t \in Members(Needs[tab]) \ {"alerts"} /\ LoadTables(<<t>>)
              /\ UNCHANGED <<pageRest, shown, filter, expanded, form, typing>>

\* onMemoryFilterChange()
Filter(f) == /\ Free /\ online /\ tab = "settings" /\ filter' = f
             /\ LoadOf(<<"memories">>, f)
             /\ UNCHANGED <<pageRest, shown, expanded, form, typing>>

-----------------------------------------------------------------------------
(* The page's changes: one request, and a load once it is answered.        *)
Visible(t) == IF online THEN shown[t] ELSE {}

\* The rows that are rendered, each with its buttons.
MemoryRows == Visible("memories")
ScheduleRows == Visible("schedules")
RunRows == Visible("runs")

Change(frame) == /\ Free /\ online /\ Ask(<<frame>>)
                 /\ UNCHANGED <<pageRest, shown, filter, current, expanded, form, typing>>

\* onMemoryDelete(), confirmed.
DeleteMemory(i) == i \in MemoryRows /\ Change(Frame("delete", "memories", i, Nothing))
\* onScheduleDelete(), confirmed.
DeleteSchedule(s) == s \in ScheduleRows /\ Change(Frame("delete", "schedules", s.id, Nothing))
\* onScheduleToggle(): the row decides, as it is shown.
Toggle(s) == s \in ScheduleRows /\ Change(Frame(IF s.on THEN "disable" ELSE "enable", "schedules", s.id, Nothing))
\* onScheduleRunNow()
RunNow(s) == s \in ScheduleRows /\ Change(Frame("run", "schedules", s.id, Nothing))
\* onSubmit() of the alerts view.
CreateAlert(i) == /\ tab = "alerts" /\ i \notin stored["alerts"]
                  /\ Change(Frame("create", "alerts", i, Nothing))

-----------------------------------------------------------------------------
(* The detail of a run.                                                    *)

\* toggleRun(): a second click closes the row.
ToggleRun(i) ==
    /\ Free /\ i \in RunRows
    /\ IF expanded.id = i THEN expanded' = Nobody /\ UNCHANGED up
       ELSE expanded' = [id |-> i, run |-> Nothing] /\ Ask(<<Frame("get", "runs", i, Nothing)>>)
    /\ UNCHANGED <<pageRest, shown, filter, current, form, typing>>

\* toggleRun() goes on: is it still this row?
Detail(i) == [expanded EXCEPT !.run = IF expanded.id = i THEN i ELSE @]

-----------------------------------------------------------------------------
(* The form for a schedule.                                                *)
Test(cron) == Frame("test", "schedules", Nothing, cron)
formRest == <<pageRest, shown, filter, current, expanded>>

\* connectedCallback(): the first expression is tested at once.
OpenForm == /\ Free /\ online /\ tab = "settings" /\ form.at = "closed"
            /\ form' = [at |-> "open", cron |-> CHOOSE c \in ValidCrons : TRUE, error |-> FALSE]
            /\ Ask(<<Test(form'.cron)>>) /\ typing' = FALSE
            /\ UNCHANGED formRest

\* onCronChange(): the test waits 250 ms.
Type(cron) == /\ form.at # "closed"
              /\ form' = [form EXCEPT !.cron = cron] /\ typing' = TRUE
              /\ UNCHANGED <<formRest, up>>

\* refreshPreview(): a test that cannot be asked for is an error at once.
Preview(cron) ==
    IF online THEN Ask(<<Test(cron)>>) /\ form' = [form EXCEPT !.cron = cron]
              ELSE UNCHANGED up /\ form' = [form EXCEPT !.cron = cron, !.error = TRUE]

\* It is called by the timer, and by applyPreset().
Debounced == typing /\ typing' = FALSE /\ Preview(form.cron) /\ UNCHANGED formRest
Preset(cron) == /\ Free /\ form.at # "closed" /\ cron \in ValidCrons /\ Preview(cron)
                /\ UNCHANGED <<formRest, typing>>

\* onSubmit(): not with an expression that is known to be wrong.
Submit(i) == /\ Free /\ online /\ form.at = "open" /\ ~form.error /\ i \notin stored["schedules"]
             /\ form' = [form EXCEPT !.at = "submitting"]
             /\ Ask(<<Frame("submit", "schedules", i, form.cron)>>)
             /\ UNCHANGED <<formRest, typing>>

CloseForm == /\ form.at # "closed"
             /\ form' = NoForm /\ typing' = FALSE
             /\ up' = FormLeft(up) /\ down' = FormLeft(down)
             /\ UNCHANGED <<server, tab, online, shown, filter, current, expanded>>

-----------------------------------------------------------------------------
(* The server answers in order, but for schedule.runNow, which waits.      *)
Answer(r, kind, id, ok, rows) ==
    [kind |-> kind, of |-> r.of, table |-> r.table, id |-> id, ok |-> ok, rows |-> rows]
Reply(r, answer) == down' = IF r.of = "gone" THEN down ELSE Append(down, answer)
Done(r, ok) == Reply(r, Answer(r, IF r.kind = "submit" THEN "submitted" ELSE "done", Nothing, ok, {}))

Request == Head(up)
Takes(kinds) == up # <<>> /\ Request.kind \in kinds /\ up' = Tail(up)

ServeList == /\ Takes({"list"}) /\ UNCHANGED server
             /\ Reply(Request, Answer(Request, "listed", Nothing, TRUE, Listed(Request.table, Request.arg)))
ServeGet == /\ Takes({"get"}) /\ UNCHANGED server
            /\ Reply(Request, Answer(Request, "got", Request.id, TRUE, {}))
ServeTest == /\ Takes({"test"}) /\ UNCHANGED server
             /\ Reply(Request, Answer(Request, "tested", Nothing, Request.arg \in ValidCrons, {}))
ServeRun == /\ Takes({"run"}) /\ UNCHANGED <<stored, enabled>>
            /\ IF Request.id \in stored["schedules"]
                 THEN pending' = Append(pending, Request) /\ UNCHANGED down
                 ELSE Done(Request, FALSE) /\ UNCHANGED pending
ServeDelete == /\ Takes({"delete"}) /\ Done(Request, TRUE) /\ UNCHANGED pending
               /\ stored' = [stored EXCEPT ![Request.table] = @ \ {Request.id}]
               /\ enabled' = IF Request.table = "schedules" THEN enabled \ {Request.id} ELSE enabled
ServeEnable == /\ Takes({"enable", "disable"}) /\ UNCHANGED <<stored, pending>>
               /\ Done(Request, Request.id \in stored["schedules"])
               /\ enabled' = IF Request.id \notin stored["schedules"] THEN enabled
                             ELSE IF Request.kind = "enable" THEN enabled \cup {Request.id} ELSE enabled \ {Request.id}
ServeCreate == /\ Takes({"create"}) /\ Done(Request, TRUE) /\ UNCHANGED <<enabled, pending>>
               /\ stored' = [stored EXCEPT !["alerts"] = @ \cup {Request.id}]
ServeSubmit == /\ Takes({"submit"}) /\ Done(Request, Request.arg \in ValidCrons) /\ UNCHANGED pending
               /\ IF Request.arg \notin ValidCrons THEN UNCHANGED <<stored, enabled>>
                  ELSE /\ stored' = [stored EXCEPT !["schedules"] = @ \cup {Request.id}]
                       /\ enabled' = enabled \cup {Request.id}

serverRest == <<tab, online, shown, filter, current, expanded, form, typing>>
Serves == /\ ServeList \/ ServeGet \/ ServeTest \/ ServeRun \/ ServeDelete \/ ServeEnable \/ ServeCreate \/ ServeSubmit
          /\ UNCHANGED serverRest

\* A schedule's run ends: its row is there before schedule.completed is sent, and
\* that before the answer to who asked for the run.
Notice == IF online /\ tab = "settings"
          THEN Append(down, Answer([of |-> "page", table |-> "runs"], "completed", Nothing, TRUE, {})) ELSE down
Completes(i) ==
    /\ i \notin stored["runs"] /\ Len(down) < MaxFrames
    /\ stored' = [stored EXCEPT !["runs"] = @ \cup {i}]
    /\ \/ stored["schedules"] # {} /\ down' = Notice /\ UNCHANGED pending
       \/ /\ pending # <<>> /\ pending' = Tail(pending)
          /\ down' = IF Head(pending).of = "gone" THEN Notice
                     ELSE Append(Notice, Answer(Head(pending), "done", Nothing, TRUE, {}))
    /\ UNCHANGED <<enabled, up, serverRest>>

\* The request for a run fails: after 30 s at the page, or because the schedule
\* was deleted meanwhile.
RunRefused == /\ pending # <<>> /\ pending' = Tail(pending)
              /\ Done(Head(pending), FALSE)
              /\ UNCHANGED <<stored, enabled, up, serverRest>>

\* Somebody else adds a run or removes a memory, which nobody notifies.
Elsewhere == /\ \/ \E i \in Runs \ stored["runs"] : stored' = [stored EXCEPT !["runs"] = @ \cup {i}] /\ current' = current \ {"runs"}
                \/ \E i \in stored["memories"] : stored' = [stored EXCEPT !["memories"] = @ \ {i}] /\ current' = current \ {"memories"}
             /\ UNCHANGED <<enabled, pending, tab, online, up, down, shown, filter, expanded, form, typing>>

-----------------------------------------------------------------------------
(* The page gets the frames in order.                                      *)
Gets(kind) == down # <<>> /\ Head(down).kind = kind /\ down' = Tail(down)

OnListed == /\ Gets("listed")
            /\ shown' = [shown EXCEPT ![Head(down).table] = Head(down).rows]
            /\ UNCHANGED <<server, tab, online, up, filter, current, expanded, form, typing>>

OnGot == /\ Gets("got")
         /\ expanded' = Detail(Head(down).id)
         /\ UNCHANGED <<server, tab, online, up, shown, filter, current, form, typing>>

OnTested == /\ Gets("tested")
            /\ form' = IF Head(down).of = "page" THEN [form EXCEPT !.error = ~Head(down).ok] ELSE form
            /\ UNCHANGED <<server, tab, online, up, shown, filter, current, expanded, typing>>

\* A change was answered: the table is loaded, or an error is shown.
OnDone == /\ Gets("done")
          /\ IF Head(down).ok THEN LoadTables(<<Head(down).table>>) ELSE UNCHANGED <<up, current>>
          /\ UNCHANGED <<server, tab, online, shown, filter, expanded, form, typing>>

\* The event schedule-created reaches the view also from a form that was left
\* meanwhile, and closes whatever form is open now.
OnSubmitted ==
    LET a == Head(down) IN
    /\ down # <<>> /\ a.kind = "submitted"   \* hence there is a connection
    /\ IF a.ok
         THEN /\ form' = NoForm /\ typing' = FALSE
              /\ up' = FormLeft(up) \o Lists(<<"schedules">>, filter) /\ down' = FormLeft(Tail(down))
              /\ current' = current \cup {"schedules"}
         ELSE /\ form' = IF a.of = "page" THEN [form EXCEPT !.at = "open"] ELSE form
              /\ down' = Tail(down) /\ UNCHANGED <<up, current, typing>>
    /\ UNCHANGED <<server, tab, online, shown, filter, expanded>>

\* Faulty variant: a finished run loads the schedules alone.
NotifiedSchedules == <<"schedules">>

\* onNotification() loads these.
Notified == <<"schedules", "runs">>
OnCompleted == /\ Gets("completed")
               /\ LoadTables(Notified)
               /\ UNCHANGED <<server, tab, online, shown, filter, expanded, form, typing>>

\* A request of the page that waits for its answer.
Asked(frames, kind) == \E i \in DOMAIN frames : frames[i].kind = kind /\ frames[i].of = "page"

\* The socket drops: requests are rejected, an error takes the place of rows to come.
Drop == /\ online /\ online' = FALSE /\ up' = <<>> /\ down' = <<>> /\ current' = {}
        /\ form' = [form EXCEPT !.at = IF @ = "submitting" THEN "open" ELSE @,
                                !.error = @ \/ Asked(up, "test") \/ Asked(down, "tested")]
        /\ pending' = Becomes(pending, "gone")
        /\ UNCHANGED <<stored, enabled, tab, shown, filter, expanded, typing>>
\* The views do not load again.
Back == /\ ~online /\ online' = TRUE
        /\ UNCHANGED <<server, tab, up, down, shown, filter, current, expanded, form, typing>>

-----------------------------------------------------------------------------
User == \/ \E t \in {"settings", "alerts"} : Opened(t)
        \/ \E t \in Tables : Refresh(t)
        \/ \E f \in Types \cup {Nothing} : Filter(f)
        \/ \E i \in Memories : DeleteMemory(i)
        \/ \E s \in [id : Schedules, on : BOOLEAN] : DeleteSchedule(s) \/ Toggle(s) \/ RunNow(s)
        \/ \E i \in Alerts : CreateAlert(i)
        \/ \E i \in Runs : ToggleRun(i)
        \/ OpenForm \/ CloseForm \/ \E i \in Schedules : Submit(i)
        \/ \E c \in Crons : Type(c) \/ Preset(c)
Others == Elsewhere \/ RunRefused \/ \E i \in Runs : Completes(i)
Steps == Serves \/ Debounced \/ OnListed \/ OnGot \/ OnTested \/ OnDone \/ OnSubmitted \/ OnCompleted \/ Drop \/ Back
PagesNext == \/ (User \/ Others) /\ events < MaxEvents /\ events' = events + 1
             \/ Steps /\ UNCHANGED events

PagesSpec == PagesInit /\ [][PagesNext]_pageVars

-----------------------------------------------------------------------------
\* Once nothing is under way, the tables of the open view show what the server
\* has, of memories those of the chosen type, if the socket stayed open since
\* their last load and nobody but the page and the scheduler changed them since;
\* the form knows whether the server takes its expression; and at any time the
\* detail under a run's row is that run's, whatever was clicked while answers
\* were under way.  (settings-view.ts: loadMemories, onNotification, toggleRun;
\* alerts-view.ts: load; schedule-form.ts: refreshPreview)
PageQuiet == up = <<>> /\ down = <<>> /\ pending = <<>> /\ ~typing
PagesFollow ==
    /\ expanded.run # Nothing => expanded.run = expanded.id
    /\ PageQuiet => \A t \in current : shown[t] = Listed(t, filter)
    /\ PageQuiet /\ form.at = "open" /\ ~form.error => form.cron \in ValidCrons
=============================================================================
