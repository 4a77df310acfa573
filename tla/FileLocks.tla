------------------------------ MODULE FileLocks ------------------------------
(***************************************************************************)
(* Lock files between processes: the lock of a session's transcript        *)
(* (agent/src/agents/session/write-lock.ts) and that of the gateway        *)
(* (infra/src/gateway-lock.ts).  A process that finds the file looks       *)
(* whether its owner is gone or the file is old, and then removes it; the  *)
(* calls of the file system in between are steps of their own, and what is *)
(* removed is whatever has the name by then.                               *)
(***************************************************************************)
EXTENDS Naturals

CONSTANTS Procs,     \* processes; one that crashes comes back with a new pid
          MaxFiles,  \* bound on the files created
          MaxCount   \* bound on re-entries

VARIABLES kind,   \* "session" or "gateway"
          file,   \* what has the name of the lock
          proc,   \* of each process: where acquire() or release() is
          made,   \* files created so far
          holes   \* for the property: how a lock was lost

vars == <<kind, file, proc, made, holes>>

-----------------------------------------------------------------------------
NoFile == [id |-> 0]
Gone == "gone"        \* a process that has ended

There == file # NoFile
Young == 0
Stale == 1            \* older than staleAfterMs, staleThresholdMs
TwiceStale == 2       \* older than twice that

At(p) == proc[p].at
Idle == [at |-> "idle"]
To(p, at) == proc' = [proc EXCEPT ![p] = [at |-> at]]
Judges(p, id) == proc' = [proc EXCEPT ![p] = [at |-> "unlink", id |-> id]]

Init == /\ kind \in {"session", "gateway"}
        /\ file = NoFile /\ proc = [p \in Procs |-> Idle]
        /\ made = 0 /\ holes = {}

Attempt(p) == At(p) = "idle" /\ To(p, "open") /\ UNCHANGED <<kind, file, made, holes>>

\* open(path, 'wx'), and then the pid is written.
Create(p) == /\ At(p) = "open" /\ ~There /\ made < MaxFiles
             /\ made' = made + 1
             /\ file' = [id |-> made', by |-> p, written |-> FALSE, age |-> Young]
             /\ proc' = [proc EXCEPT ![p] = [at |-> "write", id |-> made']]
             /\ UNCHANGED <<kind, holes>>
Exists(p) == /\ At(p) = "open" /\ There
             /\ To(p, IF kind = "session" THEN "read" ELSE "stat")
             /\ UNCHANGED <<kind, file, made, holes>>
Write(p) == /\ At(p) = "write"
            /\ file' = IF There /\ file.id = proc[p].id THEN [file EXCEPT !.written = TRUE] ELSE file
            /\ proc' = [proc EXCEPT ![p] = [at |-> "held", id |-> proc[p].id, count |-> 1]]
            /\ UNCHANGED <<kind, made, holes>>

Waits == IF kind = "session" THEN "open" ELSE "wait"

\* Faulty variant: it is not looked whether the owner lives.
OwnerGoneAlways == There /\ file.written

\* The pid in the file is not one of a process.
OwnerGone == There /\ file.written /\ file.by = Gone

\* acquireWriteLock(): a file that is gone again, or empty, is tried again at once.
Read(p) == /\ At(p) = "read"
           /\ IF OwnerGone THEN Judges(p, file.id)
              ELSE To(p, IF There /\ file.written THEN "age" ELSE "open")
           /\ UNCHANGED <<kind, file, made, holes>>
Age(p) == /\ At(p) = "age"
          /\ IF There /\ file.age >= Stale
               THEN Judges(p, file.id) /\ holes' = holes \cup {"tooOld"}
               ELSE To(p, IF There THEN "wait" ELSE "open") /\ UNCHANGED holes
          /\ UNCHANGED <<kind, file, made>>

\* handleExistingLock(): first the age, then the owner.
Stat(p) == /\ At(p) = "stat"
           /\ IF There /\ file.age >= Stale
                THEN proc' = [proc EXCEPT ![p] = [at |-> "info", age |-> file.age, id |-> file.id]]
                ELSE To(p, "wait")
           /\ UNCHANGED <<kind, file, made, holes>>
Info(p) == /\ At(p) = "info"
           /\ IF OwnerGone THEN Judges(p, file.id) /\ UNCHANGED holes
              ELSE IF proc[p].age = TwiceStale THEN Judges(p, proc[p].id) /\ holes' = holes \cup {"tooOld"}
              ELSE To(p, "wait") /\ UNCHANGED holes
           /\ UNCHANGED <<kind, file, made>>

\* unlink(): what has the name now.
Removed(id) == /\ file' = NoFile
               /\ holes' = IF There /\ file.id # id THEN holes \cup {"otherFile"} ELSE holes
Unlink(p) == /\ At(p) = "unlink"
             /\ Removed(proc[p].id)
             /\ To(p, Waits)
             /\ UNCHANGED <<kind, made>>

Wait(p) == At(p) = "wait" /\ To(p, "open") /\ UNCHANGED <<kind, file, made, holes>>

\* The time is over, or the signal aborts: the loop asks before each attempt.
GiveUp(p) == At(p) = "open" /\ To(p, "idle") /\ UNCHANGED <<kind, file, made, holes>>

\* A process may take a session's lock again, and releases it as often.
Reenter(p) == /\ kind = "session" /\ At(p) = "held" /\ proc[p].count < MaxCount
              /\ There /\ file.written /\ file.by = p
              /\ proc' = [proc EXCEPT ![p].count = @ + 1]
              /\ UNCHANGED <<kind, file, made, holes>>

Release(p) == /\ At(p) = "held"
              /\ IF proc[p].count > 1
                   THEN proc' = [proc EXCEPT ![p].count = @ - 1] /\ UNCHANGED <<file, holes>>
                   ELSE To(p, "idle") /\ Removed(proc[p].id)
              /\ UNCHANGED <<kind, made>>

\* The process ends; on a signal it tries to remove the file of a session it holds.
Ends(p) == /\ proc' = [proc EXCEPT ![p] = Idle]
           /\ \/ /\ file' = IF There /\ file.by = p THEN [file EXCEPT !.by = Gone] ELSE file
                 /\ UNCHANGED holes
              \/ kind = "session" /\ At(p) = "held" /\ Removed(proc[p].id)
           /\ UNCHANGED <<kind, made>>

Ages == /\ There /\ file.age < TwiceStale
        /\ file' = [file EXCEPT !.age = @ + 1]
        /\ UNCHANGED <<kind, proc, made, holes>>

Next == \/ Ages
        \/ \E p \in Procs : \/ Attempt(p) \/ Create(p) \/ Exists(p) \/ Write(p) \/ Read(p) \/ Age(p)
                            \/ Stat(p) \/ Info(p) \/ Unlink(p) \/ Wait(p) \/ GiveUp(p)
                            \/ Reenter(p) \/ Release(p) \/ Ends(p)

Spec == Init /\ [][Next]_vars

-----------------------------------------------------------------------------
Holders == {p \in Procs : At(p) = "held"}

\* Two processes hold a lock in two cases only: one was taken from its owner for being
\* too old, or two found the lock of a process that had ended, and one removed what the
\* other had put in its place.  Otherwise the file is there, and is the holder's.
\* (write-lock.ts: acquireWriteLock; gateway-lock.ts: acquireGatewayLock)
HoldersLock == holes = {} =>
    /\ \A p, q \in Holders : p = q
    /\ \A p \in Holders : There /\ file.by = p /\ file.written
=============================================================================
