-------------------------------- MODULE Topology --------------------------------
(***************************************************************************)
(* The topology panel of the dashboard.  Commands change the VFS and the   *)
(* agent registry under two locks and publish events; the panel asks for   *)
(* the topology again on an event, once per change of its connection, and  *)
(* at an interval while it is not connected.  The route that answers makes *)
(* its requests one after the other, each of which may fail by itself,     *)
(* and combines what they returned.  The MCP server keeps everything in    *)
(* memory: when it goes down, VFS, registry, running commands and streams  *)
(* are gone.  The stream is what module Dashboard promises of useSSE.      *)
(***************************************************************************)
EXTENDS Naturals, Sequences, FiniteSets, SequencesExt

CONSTANTS
  Agents,     \* none of them has the id of a fixed node: orca, mcp, backend, watsonx
  MaxFiles,   \* an agent proposes at a time
  Calls,      \* commands and tool calls
  Capacity,   \* of a subscriber's channel
  Loads,      \* requests for the topology that can be in flight
  MaxFaults,  \* the server going down, streams breaking, requests failing
  None

\* What a call can have to do: changes under the locks of VFS and registry, and events.
Events == {"vfs_update", "agent_registered", "agent_removed", "command_result"}
Changes == {"clear", "setIdle", "propose", "touch", "register", "clearVFS", "clearRegistry"}
Steps == [op : Changes, arg : Agents \cup {None}] \cup [op : {"publish"}, arg : Events]

\* What the route can return.
Views ==
  [mcp : BOOLEAN,
   nodes : UNION {[S -> [status : {"active", "idle"}, files : 0..MaxFiles]] : S \in SUBSET Agents}]

ASSUME TopologyAssumption ==
  /\ MaxFiles \in Nat \ {0} /\ Capacity \in Nat \ {0} /\ MaxFaults \in Nat
  /\ IsFiniteSet(Agents)
  /\ None \notin Loads \cup Seq(Steps) /\ Loads \cap Views = {}

VARIABLES
  up,        \* the MCP server answers
  vfs,       \* the number of files each agent has pending
  registry,  \* the status of each agent, "unknown" if it is not registered
  calls,     \* what each call has still to do, None before it begins
  stream,    \* the event stream and its channel
  panel,     \* TopologyPanel and its requests
  faults,    \* how many there have been
  newest,    \* history: the last request sent or, once it arrived, what it returned
  untold     \* history: something has changed since, of which no event will tell

vars == <<up, vfs, registry, calls, stream, panel, faults, newest, untold>>

EmptyVFS == [a \in Agents |-> 0]
EmptyRegistry == [a \in Agents |-> "unknown"]
Registered(agents) == {a \in Agents : agents[a] # "unknown"}

\* What the route makes of its four answers: the registered agents with the files they
\* have pending or, if there are none, the agents with pending files.
View(mcp, agents, files) ==
  LET Pending == {a \in Agents : files[a] > 0}
  IN [mcp |-> mcp,
      nodes |-> IF Registered(agents) # {}
                THEN [a \in Registered(agents) |-> [status |-> agents[a], files |-> files[a]]]
                ELSE [a \in Pending |-> [status |-> "active", files |-> files[a]]]]

Current == View(up, registry, vfs)

NoLoad == [pc |-> "idle", mcp |-> FALSE, agents |-> EmptyRegistry, files |-> EmptyVFS]
Begun == [NoLoad EXCEPT !.pc = "mcp"]

\* The dashboard is opened when the server has worked for some time.
Init ==
  /\ up = TRUE
  /\ vfs \in [Agents -> 0..MaxFiles]
  /\ registry \in [Agents -> {"unknown", "active"}]
  /\ calls = [c \in Calls |-> None]
  /\ stream = [subscribed |-> FALSE, connected |-> FALSE, queue |-> <<>>]
  /\ panel = [shown |-> None, error |-> FALSE,
              polling |-> FALSE, sawConnected |-> None, loads |-> [l \in Loads |-> NoLoad]]
  /\ faults = 0 /\ newest = None /\ untold = FALSE
-----------------------------------------------------------------------------
(***************************************************************************)
(* The MCP server.  A call is the sequence of its steps, one per lock.     *)
(***************************************************************************)

Step(op, a) == [op |-> op, arg |-> a]
Publish(type) == Step("publish", type)
VFSUpdate == Publish("vfs_update")
Result == Publish("command_result")

\* Mutant of ClearAgent: the state is published before the status is set.
ClearAgentEarly(a) == <<Step("clear", a), VFSUpdate, Step("setIdle", a), Result>>

\* cmdClearAgent, and cmdMicroCommit once the policy has allowed it.
ClearAgent(a) == <<Step("clear", a), Step("setIdle", a), VFSUpdate, Result>>

ProposeFiles(a) == <<Step("propose", a), VFSUpdate, Result>>

\* IngestPush proposes under the name of branch and user; the user, who need not be an
\* agent, is touched.
RegisterPush(mirror, user) ==
  <<Step("propose", mirror), Step("touch", user), VFSUpdate, Result>>

RegisterAgent(a) == <<Step("register", a), Publish("agent_registered"), Result>>

ClearDemo == <<Step("clearVFS", None), Step("clearRegistry", None),
               VFSUpdate, Publish("agent_removed"), Result>>

\* Each agent is registered and proposes, one after the other.
SeedDemo ==
  LET agents == SetToSeq(Agents)
      n == Len(agents)
  IN [i \in 1..(2 * n) |-> Step(IF i % 2 = 1 THEN "register" ELSE "propose", agents[(i + 1) \div 2])]
     \o <<VFSUpdate>>
     \o [i \in 1..n |-> Publish("agent_registered")]
     \o <<Result>>

\* Commands that only read, and those that are refused, still have a result.
Reads == <<Result>>

\* The MCP tools and the git API change the VFS and publish nothing, not even a result.
Tools(a) == {<<Step("propose", a)>>, <<Step("clear", a)>>}
Silent(program) == \A i \in DOMAIN program : program[i].op # "publish"

Programs ==
  {ClearDemo, SeedDemo, Reads}
  \cup (UNION {{ClearAgent(a), ProposeFiles(a), RegisterAgent(a)} \cup Tools(a) : a \in Agents})
  \cup (UNION {{RegisterPush(a, user) : user \in (Agents \ {a}) \cup {None}} : a \in Agents})

Begin(c) ==
  /\ calls[c] = None /\ up
  /\ \E program \in Programs : calls' = [calls EXCEPT ![c] = program]
  /\ UNCHANGED <<up, vfs, registry, stream, panel, faults, newest, untold>>

Running(c) == calls[c] # None /\ calls[c] # <<>>

\* The statuses Register, Touch, SetStatus and Clear leave.
Registry(step) ==
  CASE step.op = "register" -> [registry EXCEPT ![step.arg] = "active"]
    [] step.op = "touch" /\ step.arg \in Registered(registry) ->
         [registry EXCEPT ![step.arg] = "active"]
    [] step.op = "setIdle" /\ step.arg \in Registered(registry) ->
         [registry EXCEPT ![step.arg] = "idle"]
    [] step.op = "clearRegistry" -> EmptyRegistry
    [] OTHER -> registry

\* What Propose, Clear and ClearAll leave.
VFSs(step) ==
  CASE step.op = "propose" -> {[vfs EXCEPT ![step.arg] = n] : n \in 1..MaxFiles}
    [] step.op = "clear" -> {[vfs EXCEPT ![step.arg] = 0]}
    [] step.op = "clearVFS" -> {EmptyVFS}
    [] OTHER -> {vfs}

\* An event reaches a subscriber whose channel has room.
Deliver(type) ==
  IF stream.subscribed /\ Len(stream.queue) < Capacity
  THEN /\ stream' = [stream EXCEPT !.queue = Append(@, type)]
       /\ UNCHANGED untold
  ELSE /\ untold' = (untold \/ type # "command_result")
       /\ UNCHANGED stream

DoStep(c) ==
  /\ Running(c)
  /\ LET step == Head(calls[c]) IN
     /\ vfs' \in VFSs(step)
     /\ registry' = Registry(step)
     /\ IF step.op = "publish" THEN Deliver(step.arg)
        ELSE /\ untold' = (untold \/ Silent(calls[c]))
             /\ UNCHANGED stream
  /\ calls' = [calls EXCEPT ![c] = Tail(@)]
  /\ UNCHANGED <<up, panel, faults, newest>>

\* The MCP server goes down, and its memory, its calls and its streams go with it.
GoDown ==
  /\ up /\ faults < MaxFaults
  /\ up' = FALSE
  /\ faults' = faults + 1
  /\ untold' = TRUE
  /\ vfs' = EmptyVFS /\ registry' = EmptyRegistry
  /\ calls' = [c \in Calls |-> IF Running(c) THEN <<>> ELSE calls[c]]
  /\ stream' = [stream EXCEPT !.subscribed = FALSE, !.queue = <<>>]
  /\ UNCHANGED <<panel, newest>>

ComeUp ==
  /\ ~up
  /\ up' = TRUE
  /\ untold' = TRUE
  /\ UNCHANGED <<vfs, registry, calls, stream, panel, faults, newest>>
-----------------------------------------------------------------------------
(***************************************************************************)
(* The stream, as useSSE keeps it.                                         *)
(***************************************************************************)

Subscribe ==
  /\ ~stream.subscribed /\ up
  /\ stream' = [stream EXCEPT !.subscribed = TRUE]
  /\ UNCHANGED <<up, vfs, registry, calls, panel, faults, newest, untold>>

OnOpen ==
  /\ stream.subscribed /\ ~stream.connected
  /\ stream' = [stream EXCEPT !.connected = TRUE]
  /\ UNCHANGED <<up, vfs, registry, calls, panel, faults, newest, untold>>

\* An open stream is replaced by a new one, after a reconnection: nobody is told.
Replace ==
  /\ stream.subscribed /\ stream.connected /\ faults < MaxFaults
  /\ stream' = [stream EXCEPT !.subscribed = FALSE, !.queue = <<>>]
  /\ faults' = faults + 1
  /\ untold' = (untold \/ stream.queue # <<>>)
  /\ UNCHANGED <<up, vfs, registry, calls, panel, newest>>

\* The stream breaks by itself, or because the server has gone.
OnError ==
  /\ stream.connected
  /\ IF stream.subscribed
     THEN faults < MaxFaults /\ faults' = faults + 1
     ELSE ~up /\ UNCHANGED faults
  /\ stream' = [subscribed |-> FALSE, connected |-> FALSE, queue |-> <<>>]
  /\ untold' = (untold \/ stream.queue # <<>>)
  /\ UNCHANGED <<up, vfs, registry, calls, panel, newest>>
-----------------------------------------------------------------------------
(***************************************************************************)
(* The panel and the route it asks.                                        *)
(***************************************************************************)

Idle(l) == panel.loads[l].pc = "idle"

\* load() is called: the newest request from now on.
Send(l, asking) ==
  /\ panel' = [asking EXCEPT !.loads[l] = Begun]
  /\ newest' = l
  /\ untold' = FALSE

HandleSSE(type, l) ==
  IF type \in {"vfs_update", "agent_registered", "agent_removed"}
  THEN Send(l, panel)
  ELSE UNCHANGED <<panel, newest, untold>>

OnEvent(l) ==
  /\ Idle(l)
  /\ stream.connected /\ stream.queue # <<>>
  /\ stream' = [stream EXCEPT !.queue = Tail(@)]
  /\ HandleSSE(Head(stream.queue), l)
  /\ UNCHANGED <<up, vfs, registry, calls, faults>>

\* Mutant of RunEffect: the interval is set up when the panel is connected.
RunEffectSwapped(l) ==
  /\ Idle(l)
  /\ panel.sawConnected # stream.connected
  /\ Send(l, [panel EXCEPT !.sawConnected = stream.connected, !.polling = stream.connected])
  /\ UNCHANGED <<up, vfs, registry, calls, stream, faults>>

\* The effect that depends on connected: load once, and poll unless there is a stream.
RunEffect(l) ==
  /\ Idle(l)
  /\ panel.sawConnected # stream.connected
  /\ Send(l, [panel EXCEPT !.sawConnected = stream.connected, !.polling = ~stream.connected])
  /\ UNCHANGED <<up, vfs, registry, calls, stream, faults>>

Poll(l) ==
  /\ Idle(l) /\ panel.polling /\ panel.sawConnected = stream.connected
  /\ Send(l, panel)
  /\ UNCHANGED <<up, vfs, registry, calls, stream, faults>>

\* One request of the route: what it returns, or what stands for it when it fails.
Answer(l) ==
  CASE panel.loads[l].pc = "mcp" ->
         [panel.loads[l] EXCEPT !.pc = "agents", !.mcp = up]
    [] panel.loads[l].pc = "agents" ->
         [panel.loads[l] EXCEPT !.pc = "files", !.agents = registry]
    [] panel.loads[l].pc = "files" ->
         [panel.loads[l] EXCEPT !.pc = "answered", !.files = vfs]

NoAnswer(l) ==
  CASE panel.loads[l].pc = "mcp" -> [panel.loads[l] EXCEPT !.pc = "agents"]
    [] panel.loads[l].pc = "agents" -> [panel.loads[l] EXCEPT !.pc = "files"]
    [] panel.loads[l].pc = "files" -> [panel.loads[l] EXCEPT !.pc = "answered"]

Asking(l) == panel.loads[l].pc \in {"mcp", "agents", "files"}

GET(l) ==
  /\ Asking(l)
  /\ panel' = [panel EXCEPT !.loads[l] = Answer(l)]
  /\ UNCHANGED <<up, vfs, registry, calls, stream, faults, newest, untold>>

\* A request of the route times out or is refused: the route goes on without it.
GETWithout(l) ==
  /\ Asking(l) /\ faults < MaxFaults
  /\ faults' = faults + 1
  /\ panel' = [panel EXCEPT !.loads[l] = NoAnswer(l)]
  /\ untold' = TRUE
  /\ UNCHANGED <<up, vfs, registry, calls, stream, newest>>

Seen(l) == LET load == panel.loads[l] IN View(load.mcp, load.agents, load.files)

Load(l) ==
  /\ panel.loads[l].pc = "answered"
  /\ panel' = [panel EXCEPT !.shown = Seen(l), !.error = FALSE, !.loads[l] = NoLoad]
  /\ newest' = IF newest = l THEN Seen(l) ELSE newest
  /\ UNCHANGED <<up, vfs, registry, calls, stream, faults, untold>>

LoadFails(l) ==
  /\ ~Idle(l) /\ faults < MaxFaults
  /\ faults' = faults + 1
  /\ panel' = [panel EXCEPT !.error = TRUE, !.loads[l] = NoLoad]
  /\ newest' = IF newest = l THEN None ELSE newest
  /\ untold' = TRUE
  /\ UNCHANGED <<up, vfs, registry, calls, stream>>
-----------------------------------------------------------------------------
(***************************************************************************)
(* What the panel draws.                                                   *)
(***************************************************************************)

\* Fixed nodes keep their places, agents stand on a half circle around the MCP server.
Place(node, agents) ==
  CASE node = "orca" -> "center"
    [] node = "mcp" -> "right"
    [] node = "backend" -> "left"
    [] node = "watsonx" -> "above mcp"
    [] OTHER -> <<"ring", CHOOSE i \in DOMAIN agents : agents[i] = node>>

Drawn ==
  IF panel.shown = None THEN {}
  ELSE {"orca", "mcp", "backend", "watsonx"} \cup DOMAIN panel.shown.nodes

Edges ==
  IF panel.shown = None THEN {}
  ELSE {<<"orca", "mcp">>, <<"orca", "backend">>, <<"watsonx", "mcp">>}
       \cup {<<a, "mcp">> : a \in DOMAIN panel.shown.nodes}

\* The health of the analysis backend, one more request of the route, is left out.
Status(node) ==
  CASE node = "orca" -> "online"
    [] node = "watsonx" -> "unknown"
    [] node = "mcp" -> IF panel.shown.mcp THEN "online" ELSE "offline"
    [] OTHER -> panel.shown.nodes[node].status

Screen ==
  [places |-> [n \in Drawn |-> Place(n, SetToSeq(DOMAIN panel.shown.nodes))],
   status |-> [n \in Drawn \ {"backend"} |-> Status(n)],
   edges |-> Edges, error |-> panel.error,
   source |-> IF stream.connected THEN "SSE" ELSE "POLL"]
-----------------------------------------------------------------------------
Server == \E c \in Calls : Begin(c) \/ DoStep(c)
Stream == Subscribe \/ OnOpen \/ Replace \/ OnError
Route(l) == GET(l) \/ GETWithout(l)
Panel(l) == OnEvent(l) \/ RunEffect(l) \/ Poll(l) \/ Load(l) \/ LoadFails(l)

Next == Server \/ GoDown \/ ComeUp \/ Stream \/ (\E l \in Loads : Route(l) \/ Panel(l))

Spec == Init /\ [][Next]_vars

\* Handlers run to their end, effects run, and the interval fires although every load
\* may be slower than the interval.
Fairness ==
  /\ \A c \in Calls : WF_vars(DoStep(c))
  /\ \A l \in Loads : WF_vars(GET(l)) /\ WF_vars(Load(l)) /\ WF_vars(RunEffect(l)) /\ SF_vars(Poll(l))

FairSpec == Spec /\ Fairness
-----------------------------------------------------------------------------
(***************************************************************************)
(* Properties.                                                             *)
(***************************************************************************)

AtRest ==
  /\ \A c \in Calls : ~Running(c)
  /\ \A l \in Loads : Idle(l)
  /\ stream.queue = <<>> /\ panel.sawConnected = stream.connected

\* topology-panel.tsx "SSE triggers a re-fetch when topology-relevant events arrive": the
\* registry and the VFS change under locks of their own, two requests read them, and only
\* events tell the panel.  When all is at rest, and nothing happened that nobody
\* publishes, the last request the panel has sent returned the topology as it is.
AsksAfterEveryChange == AtRest /\ ~untold /\ newest \notin Loads \cup {None} => newest = Current

\* topology-panel.tsx "Fallback polling when SSE is down": a panel that stays without a
\* stream ends up showing the topology and no error, whatever failed before, also after
\* the server lost everything, and in whatever order its requests are answered.
FallbackConverges ==
  <>[](~stream.connected) => <>[](panel.shown = Current /\ ~panel.error)
=============================================================================
