----------------------------- MODULE MCServices -----------------------------
(***************************************************************************)
(* Small instances for TLC of the services around the gateway: HTTP        *)
(* requests and their limits (Traffic), health checks (Readiness), the     *)
(* configuration file (Config) and its watcher (HotReload), plugins        *)
(* (Plugins) and hooks (Hooks), the settings and alerts pages (Pages),     *)
(* keys, those of a provider (KeyRotator) and key profiles (Profiles), and *)
(* the files of sessions: their locks (FileLocks), their entries           *)
(* (Transcript).                                                           *)
(* A behaviour exercises one of them, chosen at the start, while the       *)
(* others rest: they share no state.                                       *)
(***************************************************************************)
EXTENDS Traffic, Plugins, Pages

CONSTANT KeyHour  \* the hour that a key profile's calls are counted over

VARIABLE scope  \* the part that this behaviour exercises

\* Bodies of POST /rpc.
MCBodies == {<<>>, <<"open">>, <<"guarded", "open">>, <<"null", "open">>,
             <<"absent", "malformed">>, <<"oldVersion", "open", "open">>}

VARIABLES database, embedding, cached, probe, unseen
Ready == INSTANCE Readiness WITH Probes <- {"p1", "p2"}, Ttl <- 2
readyVars == <<database, embedding, cached, probe, unseen>>

-----------------------------------------------------------------------------
Setting(include, value, list) == [include |-> include, value |-> value, list |-> list]
Texts == {Setting("b", "none", <<>>), Setting("none", "x", <<"l">>), Setting("a", "${VAR}", <<>>)}
Layouts == {[f \in {"a", "b"} |-> IF f = "a" THEN c ELSE d] :
              c, d \in Texts \cup {Setting("none", "missing", <<>>)}}

VARIABLES disk, env, override, cache, writer, past, since, changes
Cfg == INSTANCE Config WITH Files <- {"a", "b"}, Root <- "a", Writers <- {"w1", "w2"}, Ttl <- 1,
                            MaxDepth <- 10, MaxChanges <- 1, Contents <- Texts, Initial <- Layouts
cfgVars == <<disk, env, override, cache, writer, past, since, changes>>

VARIABLES file, event, timer, reads, watching, lastHash, told, stirred, writes
Reload == INSTANCE HotReload WITH Texts <- {"v1", "v2", "bad"}, Invalid <- {"bad"}, MaxWrites <- 3
reloadVars == <<file, event, timer, reads, watching, lastHash, told, stirred, writes>>

-----------------------------------------------------------------------------
Server(id, names, fails) == [id |-> id, tools |-> names, fails |-> fails]
Plugin(name, broken, servers) == [name |-> name, broken |-> broken, servers |-> servers]
Failures == {"no", "connect", "list"}

\* Two directories, of the same or of different plugins, each with what may be wrong.
SomePlugins ==
    {Plugin("p", b, <<>>) : b \in {"manifest", "security", "load", "register", "nothing"}}
    \cup {Plugin("p", "nothing", <<Server("s", <<"a", "b">>, "no"), Server("t", <<"b">>, f)>>) : f \in Failures}
    \cup {Plugin("q", "nothing", <<Server("s", <<"b", "c">>, f)>>) : f \in Failures}
    \cup {Plugin("q", "nothing", <<Server("u", <<"c", "c">>, "no")>>)}
TwoPlugins == {<<p, q>> : p, q \in SomePlugins}
NoPlugins == <<Plugin("p", "nothing", <<>>), Plugin("p", "nothing", <<>>)>>

HookIds == {"h1", "h2", "h3"}
Priorities == [h \in HookIds |-> IF h = "h2" THEN 0 ELSE 100]
HookKeys == [h \in HookIds |-> CASE h = "h1" -> {"type"} [] h = "h2" -> {"action"} [] OTHER -> {"type", "action"}]

VARIABLES handlers, taps, run
Hook == INSTANCE Hooks WITH Hooks <- HookIds, PriorityOf <- Priorities, KeysOf <- HookKeys,
                            Disabled <- {}, Triggers <- {"t1"}
hookVars == <<handlers, taps, run>>

-----------------------------------------------------------------------------
TypeOfMemory == [i \in {"m1", "m2"} |-> IF i = "m1" THEN "fact" ELSE "summary"]

-----------------------------------------------------------------------------
MCKeys == <<"a", "b", "c">>

VARIABLES cursor, failures, cooling, held, given
Rotator == INSTANCE KeyRotator WITH Keys <- MCKeys, Callers <- {"c1", "c2", "c3"}, Threshold <- 2,
                                    Cooldown <- 2, passed <- given
rotatorVars == <<cursor, failures, cooling, held, given>>

SamePriority == [p \in {"p1", "p2"} |-> 0]

VARIABLES profile, rest, health, caller, results
Keyring == INSTANCE Profiles WITH Profiles <- {"p1", "p2"}, PriorityOf <- SamePriority, Callers <- {"c1"},
                                  Others <- <<"environment">>, MaxFailures <- 2, Window <- 1, Hour <- KeyHour,
                                  Base <- 1, Limit <- 2, MaxResults <- 2, MaxRests <- 2
keyringVars == <<profile, rest, health, caller, results>>

-----------------------------------------------------------------------------
VARIABLES kind, lock, locker, made, holes
Locks == INSTANCE FileLocks WITH Procs <- {"q1", "q2", "q3"}, MaxFiles <- 3, MaxCount <- 2,
                                 file <- lock, proc <- locker
lockVars == <<kind, lock, locker, made, holes>>

VARIABLES log, calls, loaded, appended, exits
Session == INSTANCE Transcript WITH MaxEntries <- 5, MaxCrashes <- 2, Recent <- 2, Target <- 5, Safe <- 2,
                                    Critical <- 6, Minimum <- 3, open <- calls, up <- loaded, crashes <- exits
sessionVars == <<log, calls, loaded, appended, exits>>

-----------------------------------------------------------------------------
ASSUME /\ Session!TranscriptAssumption
       /\ TrafficAssumption /\ Cfg!ConfigAssumption /\ Reload!HotReloadAssumption
       /\ Hook!HooksAssumption
       /\ Rotator!RotatorAssumption /\ Keyring!ProfilesAssumption

all == <<scope, vars, readyVars, cfgVars, reloadVars, pluginVars, hookVars, pageVars, rotatorVars, keyringVars,
         lockVars, sessionVars>>

Scopes == {"traffic", "readiness", "config", "reload", "plugins", "hooks", "pages", "rotator", "keyring", "locks", "transcript"}

\* What rests has one of its initial states.
MCInit == /\ scope \in Scopes
          /\ Init /\ Ready!Init /\ Hook!Init /\ Rotator!Init /\ Keyring!Init /\ Session!Init
          /\ Locks!Init /\ (scope # "locks" => kind = "gateway")
          /\ found \in (IF scope = "plugins" THEN TwoPlugins ELSE {NoPlugins}) /\ PluginsInit
          /\ disk \in (IF scope = "config" THEN Layouts ELSE {[f \in {"a", "b"} |-> Cfg!Missing]})
          /\ Cfg!Init /\ (scope # "config" => ~env)
          /\ Reload!Init /\ (scope # "reload" => file = Reload!None)
          /\ PagesInit /\ (scope # "pages" => enabled = {} /\ tab = "alerts" /\ ~online)

MCNext == /\ UNCHANGED scope
          /\ IF scope = "traffic" THEN Next ELSE UNCHANGED vars
          /\ IF scope = "readiness" THEN Ready!Next ELSE UNCHANGED readyVars
          /\ IF scope = "config" THEN Cfg!Next ELSE UNCHANGED cfgVars
          /\ IF scope = "reload" THEN Reload!Next ELSE UNCHANGED reloadVars
          /\ IF scope = "plugins" THEN PluginsNext ELSE UNCHANGED pluginVars
          /\ IF scope = "hooks" THEN Hook!Next ELSE UNCHANGED hookVars
          /\ IF scope = "pages" THEN PagesNext ELSE UNCHANGED pageVars
          /\ IF scope = "rotator" THEN Rotator!Next ELSE UNCHANGED rotatorVars
          /\ IF scope = "keyring" THEN Keyring!Next ELSE UNCHANGED keyringVars
          /\ IF scope = "locks" THEN Locks!Next ELSE UNCHANGED lockVars
          /\ IF scope = "transcript" THEN Session!Next ELSE UNCHANGED sessionVars

MCSpec == MCInit /\ [][MCNext]_all

-----------------------------------------------------------------------------
\* What a request is told is so, and is in time: the configuration in use is the one of
\* the file, and nobody is told ready of old.  (See Config, HotReload and Readiness.)
ConfigFollows == /\ scope = "config" => Cfg!ConfigFresh
                 /\ scope = "reload" => Reload!ReloadFollows
                 /\ scope = "readiness" => Ready!ReadyFresh

\* Keys, key profiles and hooks have their turns as their whole history says.
\* (See KeyRotator, Profiles and Hooks.)
TurnsTaken == /\ scope = "rotator" => Rotator!KeysTakeTurns
              /\ scope = "keyring" => Keyring!HealthExact
              /\ scope = "hooks" => Hook!HooksRunOnce

\* The calls of the last hour, also when it is longer than the window of the health
\* check.  (See Profiles.)
CallsOfTheHour == scope = "keyring" => Keyring!CallsOfTheHour

\* A session's file has one writer, and is in order when it is loaded again.
\* (See FileLocks and Transcript.)
SessionsKept == /\ [](scope = "locks" => Locks!HoldersLock)
                /\ Session!LoadedPaired
=============================================================================
