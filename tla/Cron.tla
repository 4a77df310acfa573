-------------------------------- MODULE Cron --------------------------------
(***************************************************************************)
(* Cron expressions (packages/server/src/automation/cron.ts) and when a    *)
(* schedule with one is started by the poller.  Scheduler models the runs, *)
(* with a period in place of the expression.                               *)
(*                                                                         *)
(* The calendar is a sequence of minutes, each with its local minute,      *)
(* hour, day, month and weekday.  An expression gives each of these a list *)
(* of parts: "*", a number, a range, or a step of one of them.             *)
(***************************************************************************)
EXTENDS Integers, Sequences, FiniteSets, FiniteSetsExt, SequencesExt

CONSTANTS Calendar,    \* of each minute, [minute, hour, day, month, weekday]
          FieldRange,  \* FIELD_RANGES, the values of each field
          Year,        \* the minutes that nextRunAt() searches
          Exprs        \* what users write

VARIABLES expr,  \* what the user wrote
          cron,  \* what parseCron() made of it
          now,   \* the minute
          next,  \* next_run_at
          up,    \* the poller is on
          since, \* for the property: when next was computed
          fired  \* the schedule was started in this minute

vars == <<expr, cron, now, next, up, since, fired>>

-----------------------------------------------------------------------------
Fields == DOMAIN FieldRange
\* CronParseError: a field, or an expression, without values.
Invalid == {}
Rejected == [f \in Fields |-> Invalid]
Never == 0

\* The values of a part: a step without an end goes to the end of the range.
Low(part, r) == IF part.form = "all" THEN Min(r) ELSE part.lo
High(part, r) == CASE part.form = "all" -> Max(r)
                   [] part.form = "one" -> part.lo
                   [] OTHER -> part.hi
Values(part, r) ==
    IF part.form # "step" THEN Low(part, r)..High(part, r)
    ELSE {v \in Low(part.of, r)..(IF part.of.form = "one" THEN Max(r) ELSE High(part.of, r)) :
             (v - Low(part.of, r)) % part.step = 0}

Refused(part) == \/ part.form = "other"
                 \/ part.form = "range" /\ part.lo > part.hi
                 \/ part.form = "step" /\ part.step = 0

\* expandField(): a reversed range with a step is no error, it is just empty.
ExpandField(parts, r) ==
    IF \E i \in DOMAIN parts : Refused(parts[i]) THEN Invalid
    ELSE LET out == UNION {Values(parts[i], r) : i \in DOMAIN parts} IN
         IF out \subseteq r THEN out ELSE Invalid

ParseCron(e) ==
    LET fields == [f \in Fields |-> ExpandField(e[f], FieldRange[f])] IN
    IF \E f \in Fields : fields[f] = Invalid THEN Rejected ELSE fields

\* Faulty variant: a day has to be one of both lists.
MatchesBoth(c, t) == \A f \in Fields : Calendar[t][f] \in c[f]

\* matches(): the two fields for days widen each other when both are restricted.
Matches(c, t) ==
    LET at == Calendar[t]
        restricted == {f \in {"day", "weekday"} : c[f] # FieldRange[f]} IN
    /\ \A f \in {"minute", "hour", "month"} : at[f] \in c[f]
    /\ restricted = {} \/ \E f \in restricted : at[f] \in c[f]

\* nextRunAt(): strictly later, and within a year.
NextRunAt(c, from) ==
    LET found == {t \in (from + 1)..(from + Year) : t \in DOMAIN Calendar /\ Matches(c, t)} IN
    IF found = {} THEN Never ELSE Min(found)

-----------------------------------------------------------------------------
Init == /\ expr \in Exprs /\ now \in 1..Year
        /\ cron = ParseCron(expr)
        /\ next = IF cron = Rejected THEN Never ELSE NextRunAt(cron, now)
        /\ since = now /\ up = TRUE /\ fired = FALSE

\* A minute passes: the poller starts what is due, and computes the next time.
Tick == /\ cron # Rejected /\ now + Year < Len(Calendar)
        /\ now' = now + 1
        /\ LET due == up /\ next # Never /\ next <= now' IN
           /\ fired' = due
           /\ next' = IF due THEN NextRunAt(cron, now') ELSE next
           /\ since' = IF due THEN now' ELSE since
        /\ UNCHANGED <<expr, cron, up>>

\* The process ends, or starts again.
Switch == /\ cron # Rejected /\ up' = ~up /\ fired' = FALSE
          /\ UNCHANGED <<expr, cron, now, next, since>>

Next == Tick \/ Switch
Spec == Init /\ [][Next]_vars

-----------------------------------------------------------------------------
\* What an expression says of an instant, part by part, in the words of cron.ts:1-3 and
\* of the comment on days in matches().
SaysPart(part, r, v) == CASE part.form = "all" -> TRUE
                      [] part.form = "one" -> v = part.lo
                      [] part.form = "range" -> part.lo <= v /\ v <= part.hi
                      [] part.form = "step" ->
                            /\ \E k \in 0..Cardinality(r) : v = Low(part.of, r) + k * part.step
                            /\ part.of.form = "range" => v <= part.of.hi
SaysField(f, v) == \E i \in DOMAIN expr[f] : SaysPart(expr[f][i], FieldRange[f], v)
Says(t) ==
    LET holds(f) == SaysField(f, Calendar[t][f])
        star(f) == \A v \in FieldRange[f] : SaysField(f, v) IN
    /\ holds("minute") /\ holds("hour") /\ holds("month")
    /\ IF star("day") \/ star("weekday") THEN holds("day") /\ holds("weekday")
                                         ELSE holds("day") \/ holds("weekday")

\* A schedule whose expression was accepted is started in each minute that the expression
\* says, and in no other, while the poller is on; what passes while it is off is made up
\* for by one start.  Only an expression that says no minute within a year of the last
\* start is never started again.  (cron.ts; scheduler.ts: tick, runOne)
FiresAsWritten ==
    [][now' # now =>
         (fired' <=> up /\ \E t \in (since + 1)..Min({now', since + Year}) : Says(t))]_vars
=============================================================================
