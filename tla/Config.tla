--------------------------------- MODULE Config ---------------------------------
(***************************************************************************)
(* The configuration (packages/config/src): a file with $include, values   *)
(* of the environment, defaults and overrides at run time, read through a  *)
(* cache of 200 ms, and written by a rename.  A load is one step; a write  *)
(* is awaited.                                                             *)
(***************************************************************************)
EXTENDS Naturals, Sequences, FiniteSets

CONSTANTS Files, Root,  \* configuration files, and the one that is loaded
          Contents,     \* what a file may hold
          Initial,      \* Contents of the files at the start
          Writers,      \* calls of writeConfigFile()
          Ttl,          \* of the cache, in ticks
          MaxDepth,     \* MAX_INCLUDE_DEPTH
          MaxChanges    \* bound on what happens to the files from outside

\* A content: what it includes, the value of one setting, and a list setting.
None == "none"
Missing == [include |-> None, value |-> "missing", list |-> <<>>]
ConfigAssumption ==
    /\ Root \in Files /\ {Ttl, MaxDepth, MaxChanges} \subseteq Nat /\ Ttl > 0
    /\ \A c \in Contents : c.include \in Files \cup {None} /\ DOMAIN c = {"include", "value", "list"}

VARIABLES disk,      \* the files, or Missing
          env,       \* the variable that ${...} names is set
          override,  \* setOverride() of the setting
          cache,     \* the configuration in the cache, and its age
          writer,    \* what each call of writeConfigFile() waits for, and its content
          past,      \* what a load would have given, in this tick and those before
          since,     \* ... since a write was last over
          changes    \* from outside

files == <<disk, env, override>>
ghosts == <<past, since>>
vars == <<files, cache, writer, ghosts, changes>>

-----------------------------------------------------------------------------
Failed == [ok |-> FALSE, value |-> None, list |-> <<>>]
Defaults == [include |-> None, value |-> "default", list |-> <<>>]

\* Faulty variant: the file that is included wins.
MergeBackwards(target, source) == [value |-> IF target.value # None THEN target.value ELSE source.value,
                                   list |-> target.list \o source.list]

\* deepMerge() and mergeConfig(): of two values the second, of two lists both.
Merge(target, source) == [value |-> IF source.value # None THEN source.value ELSE target.value,
                          list |-> target.list \o source.list]

\* resolveIncludes(): the chain holds the files that were included on the way here;
\* the first file is not in it.
Reading == [disk : [Files -> Contents \cup {Missing}], chain : Seq(Files)]
Resolve[d \in Reading] ==
    LET file == IF d.chain = <<>> THEN Root ELSE d.chain[Len(d.chain)]
        raw == d.disk[file]
        next == Resolve[[d EXCEPT !.chain = Append(@, raw.include)]] IN
    IF Len(d.chain) > MaxDepth \/ raw = Missing THEN Failed
    ELSE IF raw.include = None THEN [ok |-> TRUE, value |-> raw.value, list |-> raw.list]
    ELSE IF raw.include \in {d.chain[i] : i \in DOMAIN d.chain} \/ ~next.ok THEN Failed
    ELSE [ok |-> TRUE, value |-> Merge(next, raw).value, list |-> Merge(next, raw).list]

\* resolveEnvVars(): a variable that is not set is an error.
Unset(value, e) == value = "${VAR}" /\ ~e
Substituted(value) == IF value = "${VAR}" THEN "VAR" ELSE value

\* applyOverrides(), last.
Overridden(value, o) == IF o # None THEN o ELSE value

\* loadConfigInternal() without the cache: no file is an empty one.
Loaded(d, e, o) ==
    LET read == IF d[Root] = Missing THEN [ok |-> TRUE, value |-> None, list |-> <<>>]
                ELSE Resolve[[disk |-> d, chain |-> <<>>]]
        full == Merge(Defaults, read) IN
    IF ~read.ok \/ Unset(read.value, e) THEN Failed
    ELSE [ok |-> TRUE, list |-> full.list, value |-> Overridden(Substituted(full.value), o)]

Init == /\ disk \in Initial /\ env \in BOOLEAN /\ override = None
        /\ cache = [config |-> Failed, age |-> Ttl]
        /\ writer = [w \in Writers |-> [step |-> "none", content |-> Missing]]
        /\ since = {Loaded(disk, env, None)} /\ past = <<since>>
        /\ changes = 0

-----------------------------------------------------------------------------
Seen == /\ past' = [past EXCEPT ![1] = @ \cup {Loaded(disk', env', override')}]
        /\ since' = since \cup {Loaded(disk', env', override')}

\* Somebody edits a file, or the program sets an override: the cache stays.
Edit(f, c) == /\ changes < MaxChanges /\ changes' = changes + 1
              /\ disk' = [disk EXCEPT ![f] = c] /\ UNCHANGED <<env, override>>
              /\ Seen
              /\ UNCHANGED <<cache, writer>>
SetOverride(v) == /\ changes < MaxChanges /\ changes' = changes + 1
                  /\ override' = v /\ UNCHANGED <<disk, env>>
                  /\ Seen
                  /\ UNCHANGED <<cache, writer>>

\* loadConfig(): an error leaves the cache as it is.
Answer == IF cache.age < Ttl THEN cache.config ELSE Loaded(disk, env, override)
Load == /\ cache' = IF cache.age < Ttl \/ ~Answer.ok THEN cache ELSE [config |-> Answer, age |-> 0]
        /\ UNCHANGED <<files, writer, ghosts, changes>>

\* writeConfigFile(): the temporary file, the rename, and back in the caller.
Write(w, c) == /\ writer[w].step = "none"
               /\ writer' = [writer EXCEPT ![w] = [step |-> "writing", content |-> c]]
               /\ UNCHANGED <<files, cache, ghosts, changes>>
Rename(w) == /\ writer[w].step = "writing"
             /\ disk' = [disk EXCEPT ![Root] = writer[w].content] /\ UNCHANGED <<env, override>>
             /\ writer' = [writer EXCEPT ![w].step = "renamed"]
             /\ Seen
             /\ UNCHANGED <<cache, changes>>
Invalidate(w) == /\ writer[w].step = "renamed"
                 /\ cache' = [cache EXCEPT !.age = Ttl]
                 /\ writer' = [writer EXCEPT ![w] = [step |-> "none", content |-> Missing]]
                 /\ since' = {Loaded(disk, env, override)}
                 /\ UNCHANGED <<files, past, changes>>

Tick == /\ cache' = [cache EXCEPT !.age = IF @ < Ttl THEN @ + 1 ELSE Ttl]
        /\ past' = SubSeq(<<{Loaded(disk, env, override)}>> \o past, 1,
                          IF Len(past) < Ttl THEN Len(past) + 1 ELSE Ttl)
        /\ UNCHANGED <<files, writer, since, changes>>

Next == \/ \E f \in Files, c \in Contents \cup {Missing} : Edit(f, c)
        \/ \E v \in {None, "override"} : SetOverride(v)
        \/ Load \/ Tick
        \/ \E w \in Writers : Rename(w) \/ Invalidate(w) \/ \E c \in Contents : Write(w, c)

Spec == Init /\ [][Next]_vars

-----------------------------------------------------------------------------
\* The files from the first one along their includes, each once, the last without.
Way(p) == /\ p[1] = Root /\ \A i \in DOMAIN p : disk[p[i]] # Missing
          /\ \A i, j \in DOMAIN p : i # j => p[i] # p[j]
          /\ \A i \in DOMAIN p : disk[p[i]].include = IF i = Len(p) THEN None ELSE p[i + 1]
Ways == {p \in UNION {[1..n -> Files] : n \in 1..Cardinality(Files)} : Len(p) <= MaxDepth + 1 /\ Way(p)}

\* A setting comes from an override, or from the first file on that way that has it,
\* or from the defaults; a file that is missing, or that includes itself over
\* others, is an error.
Precedence ==
    LET result == Loaded(disk, env, override)
        with(p) == {i \in DOMAIN p : disk[p[i]].value # None}
        first(p) == CHOOSE i \in with(p) : \A j \in with(p) : i <= j IN
    /\ disk[Root] # Missing => (result.ok <=> \E p \in Ways : with(p) # {} /\ disk[p[first(p)]].value = "${VAR}" => env)
    /\ \A p \in Ways : result.ok =>
         result.value = IF override # None THEN override ELSE IF with(p) = {} THEN "default"
                        ELSE IF disk[p[first(p)]].value = "${VAR}" THEN "VAR" ELSE disk[p[first(p)]].value

\* What loadConfig() gives was right less than Ttl ago, and is not older than a write
\* that is over, whatever loads and other writes ran meanwhile; and what is right
\* follows the precedence of files.  (io.ts: loadConfig, writeConfigFile; includes.ts)
ConfigFresh == /\ Answer \in UNION {past[i] : i \in DOMAIN past} /\ Answer \in since
               /\ Precedence
=============================================================================
