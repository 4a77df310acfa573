-------------------------------- MODULE Plugins --------------------------------
(***************************************************************************)
(* Loading of the plugins at the start of the server                       *)
(* (packages/server/src/plugins): one directory after the other, its       *)
(* manifest, its module, and the MCP servers that it names, each a child   *)
(* process whose tools join the tool registry.  Nothing of the plugins'    *)
(* registry is taken back when a plugin fails half-way.                    *)
(***************************************************************************)
EXTENDS Naturals, Sequences, SequencesExt, FiniteSets

\* What discoverPlugins() may find: sequences of directories, each with the name
\* of its plugin, how far it gets, and its servers: id, tools, and which await of
\* theirs fails.
CONSTANT Installs

Broken == {"manifest", "security", "load", "register"}
IsList(s) == Len(s) \in Nat /\ DOMAIN s = 1 .. Len(s)
ASSUME PluginsAssumption ==
    \A installed \in Installs :
      /\ IsList(installed)
      /\ \A i \in DOMAIN installed :
           /\ installed[i].broken \in Broken \cup {"nothing"} /\ IsList(installed[i].servers)
           /\ \A k \in DOMAIN installed[i].servers : IsList(installed[i].servers[k].tools)

VARIABLES found,    \* discoverPlugins()
          at,       \* the directory, the server in it, and the await that is next
          slots,    \* commands and plugins of the registry
          errors,   \* plugins of the diagnostics with severity "error"
          result,   \* loaded and failed
          tools,    \* tools of the registry, and the server that executes each
          running,  \* servers whose process runs
          handles   \* mcpHandles

pluginVars == <<found, at, slots, errors, result, tools, running, handles>>

-----------------------------------------------------------------------------
Start == [dir |-> 1, server |-> 0, step |-> "read"]

PluginsInit == /\ found \in Installs
               /\ at = Start
               /\ slots = [commands |-> <<>>, plugins |-> <<>>] /\ errors = <<>>
               /\ result = [loaded |-> <<>>, failed |-> <<>>]
               /\ tools = <<>> /\ running = {} /\ handles = <<>>

Dir == found[at.dir]
ServerOf(s) == found[s[1]].servers[s[2]]
Here == <<at.dir, at.server>>
At(step) == at.dir <= Len(found) /\ at.step = step

NextDir == [dir |-> at.dir + 1, server |-> 0, step |-> "read"]
NextServer == [at EXCEPT !.server = @ + 1,
                         !.step = IF at.server < Len(Dir.servers) THEN "connect" ELSE "finish"]

\* recordDiagnostic()
Diagnosed == Append(errors, Dir.name)
\* validatePluginPath() refuses the file.
Insecure == Dir.broken = "security"

\* A manifest that cannot be parsed leaves no entry among the plugins, other
\* failures do.
FailAs(phase) ==
    /\ errors' = Diagnosed
    /\ result' = [result EXCEPT !.failed = Append(@, Dir.name)]
    /\ slots' = IF phase = "manifest" THEN slots
                ELSE [slots EXCEPT !.plugins = Append(@, [name |-> Dir.name, status |-> "error"])]
    /\ at' = NextDir

-----------------------------------------------------------------------------
(* loadPlugins().                                                          *)

\* The manifest and the path are checked at once; then the module is awaited.
Read == /\ At("read")
        /\ IF Insecure \/ Dir.broken = "manifest" THEN FailAs(Dir.broken)
           ELSE at' = [at EXCEPT !.step = "load"] /\ UNCHANGED <<errors, result, slots>>
        /\ UNCHANGED <<found, tools, running, handles>>

\* loadPluginModule(): no way of loading the module works.
Unloadable == Dir.broken = "load"
\* What a plugin registers through its PluginBuildApi.
Registered == Append(slots.commands, Dir.name)

\* register() or activate(): what it put in the registry stays there also when it throws.
Load == /\ At("load")
        /\ IF Unloadable THEN FailAs("load")
           ELSE IF Dir.broken = "register"
             THEN /\ slots' = [commands |-> Registered,
                               plugins |-> Append(slots.plugins, [name |-> Dir.name, status |-> "error"])]
                  /\ errors' = Diagnosed
                  /\ result' = [result EXCEPT !.failed = Append(@, Dir.name)]
                  /\ at' = NextDir
             ELSE /\ slots' = [slots EXCEPT !.commands = Registered]
                  /\ at' = NextServer
                  /\ UNCHANGED <<errors, result>>
        /\ UNCHANGED <<found, tools, running, handles>>

ServerFailed == errors' = Diagnosed /\ at' = NextServer

\* createMCPClient()
Connect == /\ At("connect")
           /\ IF ServerOf(Here).fails = "connect"
                THEN ServerFailed /\ UNCHANGED running
                ELSE running' = running \cup {Here} /\ at' = [at EXCEPT !.step = "list"] /\ UNCHANGED errors
           /\ UNCHANGED <<found, slots, result, tools, handles>>

\* The tools that registerMCPTools() takes before one throws whose name is there
\* already: mcp:<id>:<tool>.
Names(s) == [i \in DOMAIN ServerOf(s).tools |-> <<ServerOf(s).id, ServerOf(s).tools[i]>>]
Registrable(s) ==
    LET names == Names(s)
        Clash(i) == names[i] \in DOMAIN tools \/ \E j \in 1..i - 1 : names[j] = names[i]
        clashes == {i \in DOMAIN names : Clash(i)} IN
    IF clashes = {} THEN names ELSE SubSeq(names, 1, (CHOOSE i \in clashes : \A j \in clashes : i <= j) - 1)

Joined(s) == [n \in DOMAIN tools \cup {Registrable(s)[i] : i \in DOMAIN Registrable(s)} |->
                IF n \in DOMAIN tools THEN tools[n] ELSE s]

\* Faulty variant: the client is kept before its tools are listed.
ListKeepsFirst ==
    /\ At("list")
    /\ handles' = Append(handles, Here)
    /\ IF ServerOf(Here).fails = "list" \/ Here \notin running
         THEN ServerFailed /\ UNCHANGED tools
         ELSE /\ tools' = Joined(Here)
              /\ IF Registrable(Here) = Names(Here) THEN at' = NextServer /\ UNCHANGED errors ELSE ServerFailed
    /\ UNCHANGED <<found, slots, result, running>>

\* bridgeMCPTools() and registerMCPTools(): a client is kept once all its tools
\* are in the registry; those of a server that fails half-way stay there.
List == /\ At("list")
        /\ IF ServerOf(Here).fails = "list" \/ Here \notin running
             THEN ServerFailed /\ UNCHANGED <<tools, handles>>
             ELSE /\ tools' = Joined(Here)
                  /\ IF Registrable(Here) = Names(Here)
                       THEN handles' = Append(handles, Here) /\ at' = NextServer /\ UNCHANGED errors
                       ELSE ServerFailed /\ UNCHANGED handles
        /\ UNCHANGED <<found, slots, result, running>>

EndDirectory ==
    /\ At("finish")
    /\ slots' = [slots EXCEPT !.plugins = Append(@, [name |-> Dir.name, status |-> "active"])]
    /\ result' = [result EXCEPT !.loaded = Append(@, Dir.name)]
    /\ at' = NextDir
    /\ UNCHANGED <<found, errors, tools, running, handles>>

-----------------------------------------------------------------------------
\* A server's process ends by itself: calls of its tools fail from then on.
Dies(s) == /\ s \in running /\ running' = running \ {s}
           /\ UNCHANGED <<found, at, slots, errors, result, tools, handles>>

\* The shutdown closes the clients that were kept, one after the other.
Loaded == at.dir > Len(found)
Shutdown == /\ Loaded /\ at.step = "read" /\ at' = [at EXCEPT !.step = "closing", !.server = 0]
            /\ UNCHANGED <<found, slots, errors, result, tools, running, handles>>
Close == /\ Loaded /\ at.step = "closing" /\ at.server < Len(handles)
         /\ at' = [at EXCEPT !.server = @ + 1]
         /\ running' = running \ {handles[at.server + 1]}
         /\ UNCHANGED <<found, slots, errors, result, tools, handles>>

PluginsNext == Read \/ Load \/ Connect \/ List \/ EndDirectory \/ Shutdown \/ Close
               \/ \E s \in running : Dies(s)

PluginsSpec == PluginsInit /\ [][PluginsNext]_pluginVars

-----------------------------------------------------------------------------
HowOften(s, Is(_)) == Cardinality({i \in DOMAIN s : Is(s[i])})
PluginNames == {found[i].name : i \in DOMAIN found}

\* A directory is loaded or it failed, never both or neither, and the registry
\* says the same of it, but for manifests that could not be read.
OutcomesAgree ==
    /\ Len(result.loaded) + Len(result.failed) = at.dir - 1
    /\ \A n \in PluginNames :
         /\ HowOften(result.loaded, LAMBDA x : x = n)
              = HowOften(slots.plugins, LAMBDA x : x = [name |-> n, status |-> "active"])
         /\ HowOften(result.failed, LAMBDA x : x = n) <= HowOften(errors, LAMBDA x : x = n)

\* All tools of a server that is kept are in the registry, and its own process
\* executes them; of the others, one that has a tool there failed half-way, which
\* a diagnostic tells.
ToolsOwned ==
    /\ \A i \in DOMAIN handles : \A j \in DOMAIN Names(handles[i]) :
         Names(handles[i])[j] \in DOMAIN tools /\ tools[Names(handles[i])[j]] = handles[i]
    /\ \A n \in DOMAIN tools : tools[n] \in ToSet(handles) \/ found[tools[n][1]].name \in ToSet(errors)

\* When the shutdown is over, a server that still runs is one that failed.
ServersClosed ==
    Loaded /\ at.step = "closing" /\ at.server = Len(handles) =>
      \A s \in running : s \notin ToSet(handles) /\ found[s[1]].name \in ToSet(errors)

\* What plugins leave behind, whichever of them fail and in whatever order their
\* servers die.  (loader.ts: loadPlugins, mcp-tool-bridge.ts: registerMCPTools)
PluginsAccounted == OutcomesAgree /\ ToolsOwned /\ ServersClosed
=============================================================================
