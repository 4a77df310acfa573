----------------------------- MODULE Transcript -----------------------------
(***************************************************************************)
(* The transcript of a session: entries are appended while calls of tools  *)
(* are open, the context guard asks for a compaction, the process may end  *)
(* with an entry lost or written twice, and a transcript that is loaded    *)
(* again is examined and repaired (packages/agent/src/agents/session/      *)
(* transcript-repair.ts, context/window-guard.ts, context/compaction.ts).  *)
(*                                                                         *)
(* Entries have different times.  What an entry says is its kind, which    *)
(* has a size in tokens.                                                   *)
(***************************************************************************)
EXTENDS Integers, Sequences, FiniteSets, SequencesExt

CONSTANTS MaxEntries,  \* bound on the entries that are appended
          MaxCrashes,  \* bound on the exits
          Recent,      \* preserveRecentMessages
          Target,      \* targetTokens
          Safe,        \* what a summary may take of them
          Critical,    \* tokens at which the window counts as critical
          Minimum      \* tokens up to which nothing is compacted

TranscriptAssumption == /\ {MaxEntries, MaxCrashes, Target, Critical, Minimum} \subseteq Nat
                        /\ Recent \in Nat \ {0} /\ Safe \in Int \ {0} /\ Safe < Target

VARIABLES log,      \* the entries
          open,     \* ids of calls whose results the process waits for
          up,       \* the process runs, with a transcript that was loaded
          appended, crashes

vars == <<log, open, up, appended, crashes>>

-----------------------------------------------------------------------------
None == 0  \* no toolUseId

Entry(role, says, time, id) == [role |-> role, says |-> says, time |-> time, id |-> id]

\* Tokens of what an entry says: a prompt, a message, a result, an empty result,
\* texts that stand for another one, and summaries.
Size == [prompt |-> 1, message |-> 2, result |-> 3, empty |-> 0, truncated |-> 1, aborted |-> 1,
         unavailable |-> 1, synthetic |-> 1, brief |-> 1, long |-> 3]
Summaries == {"brief", "long"}
Tokens(s) == FoldLeft(LAMBDA n, e : n + Size[e.says], 0, s)

Without(s, indices) == FoldLeftDomain(LAMBDA t, i : IF i \in indices THEN t ELSE Append(t, s[i]), <<>>, s)
Splice(s, i, e) == IF i <= Len(s) + 1 THEN InsertAt(s, i, e) ELSE s
Before(i, indices) == Cardinality({j \in indices : j < i})

-----------------------------------------------------------------------------
\* detectCorruption(), of each kind the indices in ascending order.  A role out of
\* sequence is only reported.
IsDuplicate(s, i) == \E j \in 1..(i - 1) : [s[j] EXCEPT !.id = s[i].id] = s[i]

\* Ids of the calls that wait for a result before entry i.
Pending(s, i) ==
    FoldLeft(LAMBDA ids, e : IF e.role = "assistant" THEN ids \cup ({e.id} \ {None})
                             ELSE IF e.role = "tool" THEN ids \ {e.id} ELSE ids, {}, SubSeq(s, 1, i - 1))
IsOrphan(s, i) == s[i].role = "tool" /\ s[i].id \notin Pending(s, i)
LacksResult(s, i) == /\ s[i].role = "assistant" /\ s[i].id \in Pending(s, Len(s) + 1)
                     /\ \A j \in 1..(i - 1) : s[j].role = "assistant" => s[j].id # s[i].id

Report(s) == [duplicates |-> {i \in DOMAIN s : IsDuplicate(s, i)},
              orphans |-> SelectSeq([i \in DOMAIN s |-> i], LAMBDA i : IsOrphan(s, i)),
              missing |-> SelectSeq([i \in DOMAIN s |-> i], LAMBDA i : LacksResult(s, i))]

\* A call is put before each orphan; an orphan that was the last and a duplicate is gone.
WithCalls(s, report) ==
    FoldLeft(LAMBDA r, i : LET k == i - Before(i, report.duplicates) + r.added IN
                           IF k > Len(r.log) THEN r
                           ELSE [log |-> InsertAt(r.log, k, Entry("assistant", "synthetic", r.log[k].time, r.log[k].id)),
                                 added |-> r.added + 1],
             [log |-> s, added |-> 0], report.orphans)

\* A result is put after each call that lacks it, by the count of all entries that were
\* added so far, wherever they were.
WithResults(r, report, entries) ==
    FoldLeft(LAMBDA t, i : [log |-> Splice(t.log, i - Before(i, report.duplicates) + t.added + 1,
                                           Entry("tool", "unavailable", entries[i].time, entries[i].id)),
                            added |-> t.added + 1], r, report.missing).log

Marked(s) == [i \in DOMAIN s |-> IF s[i].role = "tool" /\ s[i].says = "empty" THEN [s[i] EXCEPT !.says = "aborted"]
                                 ELSE s[i]]

\* Faulty variant: the entries that were put in before are not counted.
RepairedByIndex(s, report) ==
    WithResults([WithCalls(Marked(Without(s, report.duplicates)), report) EXCEPT !.added = 0], report, s)

\* repairTranscript(): the report speaks of indices before any of its changes.
Repaired(s, report) == WithResults(WithCalls(Marked(Without(s, report.duplicates)), report), report, s)

-----------------------------------------------------------------------------
\* evaluateContextWindow()
CompactionNeeded(s) == Tokens(s) >= Critical /\ Tokens(s) > Minimum

\* The oldest entries go until enough tokens have gone with them.
Truncated(s, excess) == Without(s, {i \in DOMAIN s : Tokens(SubSeq(s, 1, i - 1)) < excess})

\* compactWithFallback(): a summary of all, or of parts, which has to fit; each may
\* fail, and then the oldest go.
Summarized(s) == {<<Entry("system", t, appended + 1, None)>> : t \in {u \in Summaries : Size[u] <= Safe}}
                 \cup {Truncated(s, Tokens(s) - Safe)}

IsPrompt(e) == e.role = "system" /\ e.says \notin Summaries
Recents(s) == SubSeq(s, Len(s) - (IF Recent < Len(s) THEN Recent ELSE Len(s)) + 1, Len(s))
Older(s) == SubSeq(s, 1, Len(s) - Len(Recents(s)))

\* compactContext(): the strategies on what may be compacted of s.
Shortened(s) == [i \in DOMAIN s |-> IF s[i].role = "tool" THEN [s[i] EXCEPT !.says = "truncated"] ELSE s[i]]
Compacted(strategy, s, excess) ==
    CASE strategy = "truncate-tools" -> {Shortened(s)}
      [] strategy = "truncate-oldest" -> {Truncated(s, excess)}
      [] strategy = "summarize" -> Summarized(s)
      [] strategy = "hybrid" -> IF 5 * excess < Tokens(log) THEN {Shortened(s)} ELSE Summarized(s)
Strategies == {"truncate-tools", "truncate-oldest", "summarize", "hybrid"}

Compact(strategy, keepPrompt) ==
    LET excess == Tokens(log) - Target
        kept == SelectSeq(Older(log), LAMBDA e : keepPrompt /\ IsPrompt(e))
        rest == SelectSeq(Older(log), LAMBDA e : ~(keepPrompt /\ IsPrompt(e))) IN
    /\ up /\ appended < MaxEntries /\ CompactionNeeded(log) /\ excess > 0
    /\ \E c \in Compacted(strategy, rest, excess) : log' = kept \o c \o Recents(log)
    /\ appended' = appended + 1
    /\ UNCHANGED <<open, up, crashes>>

-----------------------------------------------------------------------------
Init == /\ log = <<Entry("system", "prompt", 0, None)>>
        /\ open = {} /\ up = TRUE /\ appended = 0 /\ crashes = 0

Writes(role, says, id) == /\ up /\ appended < MaxEntries
                          /\ appended' = appended + 1
                          /\ log' = Append(log, Entry(role, says, appended', id))
                          /\ UNCHANGED <<up, crashes>>

Ask == open = {} /\ Writes("user", "message", None) /\ UNCHANGED open
Reply == open = {} /\ Writes("assistant", "message", None) /\ UNCHANGED open
\* Calls of one answer have an entry each.
CallTool == Writes("assistant", "message", appended + 1) /\ open' = open \cup {appended + 1}
Result(id) == id \in open /\ open' = open \ {id} /\ \E says \in {"result", "empty"} : Writes("tool", says, id)

\* The process ends: an entry was never written, or the last was written again.
Crash == /\ up /\ crashes < MaxCrashes
         /\ \/ \E i \in DOMAIN log : log' = RemoveAt(log, i)
            \/ log # <<>> /\ log' = Append(log, Last(log))
            \/ UNCHANGED log
         /\ up' = FALSE /\ open' = {} /\ crashes' = crashes + 1
         /\ UNCHANGED appended

Load == /\ ~up /\ up' = TRUE
        /\ log' = Repaired(log, Report(log))
        /\ UNCHANGED <<open, appended, crashes>>

Next == \/ Ask \/ Reply \/ CallTool \/ Crash \/ Load
        \/ \E id \in open : Result(id)
        \/ \E strategy \in Strategies, keepPrompt \in BOOLEAN : Compact(strategy, keepPrompt)

Spec == Init /\ [][Next]_vars

-----------------------------------------------------------------------------
Times(s) == [i \in DOMAIN s |-> s[i].time]
Real(s) == SelectSeq(s, LAMBDA e : e.says \notin {"synthetic", "unavailable"})
Positions(s, role, id) == {i \in DOMAIN s : s[i].role = role /\ s[i].id = id}
Ids(s) == {s[i].id : i \in DOMAIN s} \ {None}

\* Whatever was lost, doubled or compacted before: in a transcript that was loaded
\* each call has one result, after it, and each result its call; of what was written
\* nothing is gone or has moved.
LoadedPaired ==
    [][~up /\ up' =>
         /\ \A id \in Ids(log') : \E i, j \in DOMAIN log' : /\ Positions(log', "assistant", id) = {i}
                                                            /\ Positions(log', "tool", id) = {j} /\ i < j
         /\ Times(Real(log')) = Times(Real(Without(log, Report(log).duplicates)))]_vars
=============================================================================
