------------------------------- MODULE HotReload -------------------------------
(***************************************************************************)
(* The watcher of the prompt file in development                           *)
(* (packages/server/src/gateway/hot-reload.ts): a change starts a timer    *)
(* again, which reads the file and, if its hash is another one, tells      *)
(* listeners, bus and clients.  Reading is awaited, so that a change may   *)
(* come before the reading for the one before it is over.                  *)
(***************************************************************************)
EXTENDS Naturals, Sequences, FiniteSets

CONSTANTS Texts,     \* what the file may hold
          Invalid,   \* what validate() refuses
          MaxWrites  \* bound on writes

HotReloadAssumption == /\ Invalid \subseteq Texts /\ MaxWrites \in Nat
                       /\ {"none", "?", "error"} \cap Texts = {}

VARIABLES file,      \* its text, or "none"
          event,     \* a write that the watcher has not reported yet: none, change, other
          timer,     \* debounceTimer is set
          reads,     \* readings under way, each with the text, once it is known
          watching,  \* the watcher is there
          lastHash,
          told,      \* what listeners heard of last: a text, or "error"
          stirred,   \* two readings overlapped, or a write was none that is reported
          writes

ghosts == <<stirred, writes>>
vars == <<file, event, timer, reads, watching, lastHash, told, ghosts>>

-----------------------------------------------------------------------------
None == "none"

\* start(): an error of the first reading is an empty hash.
Init == /\ file \in Texts \cup {None} /\ lastHash = file
        /\ event = None /\ timer = FALSE /\ reads = <<>> /\ watching = TRUE
        /\ told = None /\ stirred = FALSE /\ writes = 0

\* Somebody saves the file, or replaces it, or it goes.  awaitWriteFinish delays the
\* report until the file has been still for 200 ms; only "change" is listened to.
Save(text) ==
    /\ writes < MaxWrites /\ writes' = writes + 1
    /\ file' = text
    /\ event' = IF file # None /\ text # None THEN "change" ELSE "other"
    /\ stirred' = (stirred \/ event' = "other")
    /\ UNCHANGED <<timer, reads, watching, lastHash, told>>

\* Faulty variant: a change is ignored while the file is read.
HandleChangeBusy == timer' = (timer \/ reads = <<>>) /\ UNCHANGED reads

\* handleChange(): the timer starts again.
HandleChange == timer' = TRUE /\ UNCHANGED reads

\* The watcher reports.
Report == /\ watching /\ event # None
          /\ event' = None
          /\ IF event = "change" THEN HandleChange ELSE UNCHANGED <<timer, reads>>
          /\ UNCHANGED <<file, watching, lastHash, told, ghosts>>

\* The timer fires, and reading begins.
Fires == /\ timer /\ timer' = FALSE
         /\ reads' = Append(reads, "?")
         /\ stirred' = (stirred \/ reads # <<>>)
         /\ UNCHANGED <<file, event, watching, lastHash, told, writes>>

\* The file system reads the file for a reading that is under way.
Reads(i) == /\ i \in DOMAIN reads /\ reads[i] = "?"
            /\ reads' = [reads EXCEPT ![i] = file]
            /\ UNCHANGED <<file, event, timer, watching, lastHash, told, ghosts>>

Without(s, i) == SubSeq(s, 1, i - 1) \o SubSeq(s, i + 1, Len(s))

\* The callback goes on, also after stop(): an unchanged text is not told, one that
\* is not valid is an error and is not kept.
Apply(text) ==
    IF text = None \/ text \in Invalid \ {lastHash} THEN told' = "error" /\ UNCHANGED lastHash
    ELSE IF text = lastHash THEN UNCHANGED <<told, lastHash>>
    ELSE told' = text /\ lastHash' = text

Continues(i) == /\ i \in DOMAIN reads /\ reads[i] # "?"
                /\ Apply(reads[i])
                /\ reads' = Without(reads, i)
                /\ UNCHANGED <<file, event, timer, watching, ghosts>>

\* stop() lets a reading that is under way go on.
Stop == /\ watching /\ watching' = FALSE /\ timer' = FALSE
        /\ UNCHANGED <<file, event, reads, lastHash, told, ghosts>>

Next == \/ \E text \in Texts \cup {None} : Save(text)
        \/ Report \/ Fires \/ Stop
        \/ \E i \in 1..MaxWrites : Reads(i) \/ Continues(i)

Spec == Init /\ [][Next]_vars

-----------------------------------------------------------------------------
\* When nothing is under way, the hash that is kept is that of the file, unless the
\* file cannot be used, and listeners heard of it last, unless they heard an error;
\* readings that overlap, and a file that was replaced, are the exceptions, and a
\* text that is not valid is never told.  (hot-reload.ts: handleChange)
Quiet == watching /\ event = None /\ ~timer /\ reads = <<>>
ReloadFollows ==
    /\ Quiet /\ ~stirred => lastHash = file \/ file \in Invalid
    /\ Quiet /\ ~stirred /\ told \in Texts => told = lastHash
    /\ told \notin Invalid
=============================================================================
