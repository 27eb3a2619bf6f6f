----------------------------- MODULE ControlProofs -----------------------------
(***************************************************************************)
(* Proofs about the controls of the MCP server: the button that starts it, *)
(* for any number of browsers, child processes, polls and failures; and    *)
(* the command console, for any number of calls, lines and outages.  They  *)
(* share no state; each has its own specification.                         *)
(***************************************************************************)
EXTENDS ServerControl, Console, TLAPS
-----------------------------------------------------------------------------
(***************************************************************************)
(* The route handler that starts the server.  Nothing is said of the       *)
(* requests: an answer never touches the handle, and its status is one the *)
(* handler has just read or "running".                                     *)
(***************************************************************************)

ChildStates == {"none", "compiling", "up", "exited", "unspawnable"}

\* The types of the handle, of the status and of the processes.
RouteType ==
  /\ route \in [process : Children \cup {None}, status : Statuses]
  /\ children \in [Children -> [state : ChildStates, line : BOOLEAN]]

\* The strengthening: the process whose events will end the start is still known.
RouteInv == RouteType /\ StartingHasProcess

\* Nothing is being started at first.
LEMMA InitRouteInv == Init => RouteInv
BY ServerAssumption
   DEF Init, NoChild, RouteInv, RouteType, ChildStates, Statuses, StartingHasProcess

\* The events of a process: whatever a former child reports, the status it leaves is not
\* "starting", and a process that has not exited keeps its place in the table.
LEMMA ChildKeepsRouteInv ==
  ASSUME RouteInv, NEW c \in Children, Events(c) \/ Die(c)
  PROVE  RouteInv'
<1> USE ServerAssumption
    DEF RouteInv, RouteType, ChildStates, Statuses, StartingHasProcess
<1>1. CASE Compiled(c)
  BY <1>1 DEF Compiled
<1>2. CASE OnData(c)
  BY <1>2 DEF OnData
<1>3. CASE OnExit(c)
  BY <1>3 DEF OnExit, NoChild
<1>4. CASE Bind(c)
  BY <1>4 DEF Bind, Exit
<1>5. CASE Die(c)
  BY <1>5 DEF Die, Exit
<1> QED
  BY <1>1, <1>2, <1>3, <1>4, <1>5 DEF Events

\* The handlers: only Spawn makes the status "starting", together with the process; a
\* correction by a probe leaves it or ends it.
LEMMA HandlerKeepsRouteInv ==
  ASSUME RouteInv, NEW q \in Slots, Handler(q) \/ SpawnThrows(q)
  PROVE  RouteInv'
<1> USE ServerAssumption
    DEF RouteInv, RouteType, ChildStates, Statuses, StartingHasProcess
<1>1. CASE GET(q)
  BY <1>1 DEF GET, Corrected
<1>2. CASE AlreadyRunning(q)
  BY <1>2 DEF AlreadyRunning
<1>3. CASE StartingUp(q)
  BY <1>3 DEF StartingUp
<1>4. CASE Spawn(q)
  <2>1. PICK c \in Children, state \in {"compiling", "unspawnable"} :
          /\ children' = [children EXCEPT ![c].state = state]
          /\ route' = [process |-> c, status |-> "starting"]
    BY <1>4 DEF Spawn
  <2> QED
    BY <2>1
<1>5. CASE ProbeAgain(q)
  BY <1>5 DEF ProbeAgain
<1>6. CASE POST(q)
  BY <1>6 DEF POST
<1>7. CASE SpawnThrows(q)
  BY <1>7 DEF SpawnThrows
<1> QED
  BY <1>1, <1>2, <1>3, <1>4, <1>5, <1>6, <1>7 DEF Handler

\* The browsers change neither the route nor the processes.
LEMMA BrowserKeepsRouteInv ==
  ASSUME RouteInv, NEW b \in Shells,
         Browser(b) \/ PollFails(b) \/ HandleStart(b) \/ StartLoop(b)
  PROVE  RouteInv'
<1>1. UNCHANGED <<route, children>>
  BY DEF Browser, PollStatus, Polled, PollFails, HandleStart, StartLoop, StartPoll,
         StartAnswered, StartFails
<1> QED
  BY <1>1 DEF RouteInv, RouteType, StartingHasProcess

\* route.ts: the status "starting", which disables the button that would start another
\* process, never outlives the process whose output or exit will change it.
THEOREM StartsAreNeverOrphaned == Spec => []StartingHasProcess
<1>1. RouteInv /\ [Next]_vars => RouteInv'
  <2> SUFFICES ASSUME RouteInv, [Next]_vars PROVE RouteInv'
    OBVIOUS
  <2>1. CASE Next
    BY <2>1, ChildKeepsRouteInv, HandlerKeepsRouteInv, BrowserKeepsRouteInv DEF Next
  <2>2. CASE UNCHANGED vars
    BY <2>2 DEF vars, RouteInv, RouteType, StartingHasProcess
  <2> QED
    BY <2>1, <2>2
<1>2. RouteInv => StartingHasProcess
  BY DEF RouteInv
<1> QED
  BY <1>1, <1>2, InitRouteInv, PTL DEF Spec
-----------------------------------------------------------------------------
(***************************************************************************)
(* The console.                                                            *)
(***************************************************************************)

CallType ==
  [line : Sendable \cup {Blank}, server : {"sent", "analysing", "done", "never"},
   success : BOOLEAN, did : BOOLEAN, proxy : {"waiting", "answered", "closed"},
   thrown : BOOLEAN, mine : BOOLEAN]

EntryType == [input : Lines, success : BOOLEAN, from : {"panel", "server", "outage"}, did : BOOLEAN]

TerminalType ==
  [mounted : BOOLEAN, input : Lines \cup {Blank}, running : BOOLEAN,
   history : Seq(EntryType), cmdHistory : Seq(Lines), cursor : Nat]

\* What is true of a call: nothing is done before it is answered, success is having done
\* the work, and what is passed on as an answer is one.
CallOK(call) ==
  /\ call \in CallType
  /\ call.server # "done" => ~call.did
  /\ call.server = "done" /\ call.line \in Changing => call.success = call.did
  /\ call.proxy = "answered" /\ ~call.thrown => call.server = "done"
  /\ call.mine => call.proxy # "closed" /\ call.line \in Sendable

\* What is true of an entry.
EntryOK(e) ==
  e.input \in Changing => (e.success => e.did) /\ (e.from = "server" /\ e.did => e.success)

\* The panel waits for one call, that of its last line.
MineOK(c) ==
  /\ terminal.mounted /\ terminal.running
  /\ Len(terminal.cmdHistory) > 0
  /\ calls[c].line = terminal.cmdHistory[Len(terminal.cmdHistory)]
  /\ \A d \in Calls : calls[d].mine => d = c

\* The output h shows the lines after the k-th, which is the last clear-screen, but for the
\* w at the end that are running.
Shows(h, lines, w, k) ==
  /\ k + Len(h) + w = Len(lines)
  /\ k # 0 => lines[k] = "clear-screen"
  /\ \A i \in (k + 1)..Len(lines) : lines[i] # "clear-screen"
  /\ \A i \in 1..Len(h) : h[i].input = lines[k + i]

Follows(t, k) == Shows(t.history, t.cmdHistory, IF t.running THEN 1 ELSE 0, k)

TerminalOK(t) ==
  /\ t \in TerminalType
  /\ t.cursor <= Len(t.cmdHistory)
  /\ \A i \in 1..Len(t.history) : EntryOK(t.history[i])
  /\ \E k \in 0..Len(t.cmdHistory) : Follows(t, k)

ConsoleInv ==
  /\ pending \in BOOLEAN
  /\ calls \in [Calls -> CallType] /\ \A c \in Calls : CallOK(calls[c])
  /\ TerminalOK(terminal)
  /\ \A c \in Calls : calls[c].mine => MineOK(c)

\* A slot without a call, and a panel that was just mounted.
LEMMA EmptyConsole ==
  /\ CallOK(NoCall) /\ ~NoCall.mine
  /\ TerminalOK(NewTerminal)
  /\ TerminalOK([NewTerminal EXCEPT !.mounted = FALSE])
<1>1. CallOK(NoCall) /\ ~NoCall.mine
  BY DEF NoCall, CallOK, CallType
<1>2. ASSUME NEW t \in TerminalType,
             t.history = <<>>, t.cmdHistory = <<>>, ~t.running, t.cursor = 0
      PROVE  TerminalOK(t)
  <2>1. Follows(t, 0)
    BY <1>2 DEF Follows, Shows
  <2>2. 0 \in 0..Len(t.cmdHistory)
    BY <1>2
  <2>3. t.cursor <= Len(t.cmdHistory) /\ \A i \in 1..Len(t.history) : EntryOK(t.history[i])
    BY <1>2
  <2> QED
    BY <1>2, <2>1, <2>2, <2>3 DEF TerminalOK
<1>3. TerminalOK(NewTerminal)
  <2>1. NewTerminal \in TerminalType
    BY DEF NewTerminal, TerminalType
  <2>2. /\ NewTerminal.history = <<>> /\ NewTerminal.cmdHistory = <<>>
        /\ ~NewTerminal.running /\ NewTerminal.cursor = 0
    BY DEF NewTerminal
  <2> QED
    BY <1>2, <2>1, <2>2
<1>4. TerminalOK([NewTerminal EXCEPT !.mounted = FALSE])
  <2> DEFINE t == [NewTerminal EXCEPT !.mounted = FALSE]
  <2>1. t \in TerminalType
    <3>1. NewTerminal \in TerminalType
      BY DEF NewTerminal, TerminalType
    <3> QED
      BY <3>1 DEF TerminalType
  <2>2. t.history = <<>> /\ t.cmdHistory = <<>> /\ ~t.running /\ t.cursor = 0
    BY DEF NewTerminal
  <2> HIDE DEF t
  <2>3. TerminalOK(t)
    BY <1>2, <2>1, <2>2
  <2> QED
    BY <2>3 DEF t
<1> QED
  BY <1>1, <1>3, <1>4

LEMMA InitConsole == ConsoleInit => ConsoleInv
<1> SUFFICES ASSUME ConsoleInit PROVE ConsoleInv
  OBVIOUS
<1>1. NoCall \in CallType
  BY EmptyConsole DEF CallOK
<1> QED
  BY <1>1, EmptyConsole DEF ConsoleInit, ConsoleInv

\* Nothing is lost with what is not kept of a call that is over.
LEMMA SettledOK ==
  ASSUME NEW call, CallOK(call)
  PROVE  /\ CallOK(Settled(call))
         /\ Settled(call).mine => call.mine /\ Settled(call).line = call.line
BY EmptyConsole DEF Settled, CallOK

\* A step of one call that the terminal does not see.
LEMMA QuietCall ==
  ASSUME ConsoleInv, NEW c \in Calls, NEW call, CallOK(call),
         calls' = [calls EXCEPT ![c] = call],
         call.mine => calls[c].mine /\ call.line = calls[c].line,
         pending' \in BOOLEAN, terminal' = terminal
  PROVE  ConsoleInv'
<1>1. /\ calls' \in [Calls -> CallType]
      /\ calls'[c] = call /\ \A d \in Calls \ {c} : calls'[d] = calls[d]
  BY DEF ConsoleInv, CallOK
<1>2. \A d \in Calls : CallOK(calls'[d])
  BY <1>1 DEF ConsoleInv
<1>3. \A d \in Calls : calls'[d].mine => calls[d].mine /\ calls'[d].line = calls[d].line
  BY <1>1
<1>4. ASSUME NEW d \in Calls, calls'[d].mine PROVE MineOK(d)'
  BY <1>3, <1>4 DEF ConsoleInv, MineOK
<1> QED
  BY <1>1, <1>2, <1>4 DEF ConsoleInv
\* The server's steps.
LEMMA ServerStep ==
  ASSUME ConsoleInv, NEW c \in Calls, Server(c)
  PROVE  ConsoleInv'
<1>0. /\ CallOK(calls[c]) /\ calls[c] \in CallType /\ calls \in [Calls -> CallType]
      /\ pending \in BOOLEAN
  BY DEF ConsoleInv
<1>1. ASSUME NEW success \in BOOLEAN, NEW did \in BOOLEAN, Responded(c, success, did),
             calls[c].line \in Changing => success = did,
             pending' \in BOOLEAN, terminal' = terminal
      PROVE  ConsoleInv'
  <2> DEFINE call == [calls[c] EXCEPT !.server = "done", !.success = success, !.did = did]
  <2>1. CallOK(call) /\ call.mine = calls[c].mine /\ call.line = calls[c].line
    BY <1>0, <1>1 DEF CallOK, CallType
  <2>2. calls' = [calls EXCEPT ![c] = Settled(call)]
    BY <1>1 DEF Responded
  <2> HIDE DEF call
  <2>3. CallOK(Settled(call)) /\ (Settled(call).mine => calls[c].mine /\ Settled(call).line = calls[c].line)
    BY <2>1, SettledOK
  <2> QED
    BY <1>1, <2>2, <2>3, QuietCall
<1>2. CASE cmdQuery(c)
  BY <1>0, <1>1, <1>2 DEF cmdQuery, Changing
<1>3. CASE cmdClearAgent(c)
  BY <1>1, <1>3 DEF cmdClearAgent
<1>4. CASE FilesForAgent(c) /\ ~pending
  BY <1>0, <1>1, <1>4 DEF FilesForAgent
<1>5. CASE FilesForAgent(c) /\ pending
  <2> DEFINE call == [calls[c] EXCEPT !.server = "analysing"]
  <2>1. CallOK(call) /\ call.mine = calls[c].mine /\ call.line = calls[c].line
    BY <1>0, <1>5 DEF CallOK, CallType, FilesForAgent
  <2>2. calls' = [calls EXCEPT ![c] = call]
    BY <1>0, <1>5 DEF FilesForAgent
  <2>3. pending' = pending /\ terminal' = terminal
    BY <1>5 DEF FilesForAgent
  <2> HIDE DEF call
  <2> QED
    BY <1>0, <2>1, <2>2, <2>3, QuietCall
<1>6. CASE Rejected(c)
  BY <1>0, <1>1, <1>6 DEF Rejected
<1>7. CASE Committed(c)
  BY <1>1, <1>7 DEF Committed
<1> QED
  BY <1>2, <1>3, <1>4, <1>5, <1>6, <1>7 DEF Server

\* The route handler: what it passes on without an error is an answer.
LEMMA ProxyStep ==
  ASSUME ConsoleInv, NEW c \in Calls, proxyMcpPost(c)
  PROVE  ConsoleInv'
<1>0. /\ CallOK(calls[c]) /\ calls[c] \in CallType /\ calls \in [Calls -> CallType]
      /\ pending \in BOOLEAN
  BY DEF ConsoleInv
<1>1. PICK outcome \in Possible(c) :
        \E now \in {calls[c].server}
                  \cup (IF outcome = "refused" /\ calls[c].server = "sent" THEN {"never"} ELSE {}) :
          calls' = [calls EXCEPT ![c].proxy = "answered", ![c].server = now,
                                 ![c].thrown = Thrown(Relayed(outcome, 200))]
  BY DEF proxyMcpPost
<1>2. PICK now \in {calls[c].server}
                  \cup (IF outcome = "refused" /\ calls[c].server = "sent" THEN {"never"} ELSE {}) :
          calls' = [calls EXCEPT ![c].proxy = "answered", ![c].server = now,
                                 ![c].thrown = Thrown(Relayed(outcome, 200))]
  BY <1>1
<1>a. \/ now = calls[c].server
      \/ now = "never" /\ outcome = "refused" /\ calls[c].server = "sent"
  OBVIOUS
<1> DEFINE thrown == Thrown(Relayed(outcome, 200))
           call == [calls[c] EXCEPT !.proxy = "answered", !.server = now, !.thrown = thrown]
<1>3. thrown \in BOOLEAN /\ (~thrown => outcome = "answered")
  <2>1. outcome \in Outcomes
    BY ConsoleAssumption DEF Possible, Outcomes
  <2> QED
    BY <2>1 DEF Thrown, Relayed, FetchStatus, BodyStatus, Outcomes
<1>4. ~thrown => calls[c].server = "done" /\ now = "done"
  BY <1>3, <1>a DEF Possible
<1>5. calls' = [calls EXCEPT ![c] = call]
  BY <1>0, <1>2
<1> HIDE DEF thrown
<1>6. CallOK(call) /\ call.mine = calls[c].mine /\ call.line = calls[c].line
  BY <1>0, <1>a, <1>3, <1>4 DEF CallOK, CallType
<1>7. pending' = pending /\ terminal' = terminal
  BY DEF proxyMcpPost
<1> HIDE DEF call
<1> QED
  BY <1>0, <1>5, <1>6, <1>7, QuietCall
\* What the panel keeps for each step of its own: what it waits for, and a terminal that is
\* all right.
LEMMA TerminalStep ==
  ASSUME ConsoleInv, TerminalOK(terminal'), UNCHANGED <<pending, calls>>,
         terminal'.mounted = terminal.mounted, terminal'.running = terminal.running,
         terminal.running => terminal'.cmdHistory = terminal.cmdHistory
  PROVE  ConsoleInv'
<1>1. ASSUME NEW c \in Calls, calls[c].mine PROVE MineOK(c)'
  BY <1>1 DEF ConsoleInv, MineOK
<1> QED
  BY <1>1 DEF ConsoleInv

\* Typing and the arrows.
LEMMA KeyStep ==
  ASSUME ConsoleInv, (\E line \in Lines : Type(line)) \/ ArrowUp \/ ArrowDown
  PROVE  ConsoleInv'
<1>0. /\ terminal \in TerminalType /\ terminal.cursor <= Len(terminal.cmdHistory)
      /\ \A i \in 1..Len(terminal.history) : EntryOK(terminal.history[i])
      /\ \E k \in 0..Len(terminal.cmdHistory) : Follows(terminal, k)
  BY DEF ConsoleInv, TerminalOK
<1>1. /\ terminal.cmdHistory \in Seq(Lines) /\ terminal.cursor \in Nat
      /\ Len(terminal.cmdHistory) \in Nat
  BY <1>0 DEF TerminalType
<1>2. ASSUME NEW input \in Lines \cup {Blank}, NEW cursor \in Nat,
             cursor <= Len(terminal.cmdHistory),
             terminal' = [terminal EXCEPT !.input = input, !.cursor = cursor],
             UNCHANGED <<pending, calls>>
      PROVE  ConsoleInv'
  <2>1. /\ terminal' \in TerminalType /\ terminal'.cursor = cursor
        /\ terminal'.cmdHistory = terminal.cmdHistory /\ terminal'.history = terminal.history
        /\ terminal'.running = terminal.running /\ terminal'.mounted = terminal.mounted
    BY <1>0, <1>2 DEF TerminalType
  <2>2. \A k : Follows(terminal, k) => Follows(terminal', k)
    BY <2>1 DEF Follows
  <2>3. TerminalOK(terminal')
    BY <1>0, <1>2, <2>1, <2>2 DEF TerminalOK
  <2> QED
    BY <1>2, <2>1, <2>3, TerminalStep
<1>3. ASSUME NEW line \in Lines, Type(line) PROVE ConsoleInv'
  <2>1. terminal' = [terminal EXCEPT !.input = line, !.cursor = terminal.cursor]
    BY <1>0, <1>3 DEF Type, TerminalType
  <2> QED
    BY <1>0, <1>1, <1>2, <1>3, <2>1 DEF Type
<1>4. CASE ArrowUp
  <2> DEFINE next == Older(terminal.cursor)
  <2>1. Len(terminal.cmdHistory) # 0
    BY <1>1, <1>4 DEF ArrowUp
  <2>2. next \in 1..Len(terminal.cmdHistory)
    BY <1>0, <1>1, <2>1 DEF Older
  <2>3. terminal.cmdHistory[next] \in Lines
    BY <1>1, <2>2
  <2>4. terminal' = [terminal EXCEPT !.input = terminal.cmdHistory[next], !.cursor = next]
    BY <1>0, <1>4 DEF ArrowUp, TerminalType
  <2>5. UNCHANGED <<pending, calls>>
    BY <1>4 DEF ArrowUp
  <2> HIDE DEF next
  <2>6. next \in Nat /\ next <= Len(terminal.cmdHistory)
    BY <1>1, <2>2
  <2> QED
    BY <1>2, <2>3, <2>4, <2>5, <2>6
<1>5. CASE ArrowDown
  <2> DEFINE next == terminal.cursor + 1
  <2>1. UNCHANGED <<pending, calls>>
    BY <1>5 DEF ArrowDown
  <2>2. CASE next > Len(terminal.cmdHistory)
    <3>1. terminal' = [terminal EXCEPT !.input = Blank, !.cursor = 0]
      BY <1>0, <1>5, <2>2 DEF ArrowDown, TerminalType
    <3>2. 0 \in Nat /\ 0 <= Len(terminal.cmdHistory) /\ Blank \in Lines \cup {Blank}
      BY <1>1
    <3> HIDE DEF next
    <3> QED
      BY <1>2, <2>1, <3>1, <3>2
  <2>3. CASE ~(next > Len(terminal.cmdHistory))
    <3>1. next \in 1..Len(terminal.cmdHistory)
      BY <1>1, <2>3
    <3>2. terminal.cmdHistory[next] \in Lines
      BY <1>1, <3>1
    <3>3. terminal' = [terminal EXCEPT !.input = terminal.cmdHistory[next], !.cursor = next]
      BY <1>0, <1>5, <2>3 DEF ArrowDown, TerminalType
    <3> HIDE DEF next
    <3>4. next \in Nat /\ next <= Len(terminal.cmdHistory)
      BY <1>1, <3>1
    <3> QED
      BY <1>2, <2>1, <3>2, <3>3, <3>4
  <2> QED
    BY <2>2, <2>3
<1> QED
  BY <1>3, <1>4, <1>5

\* The other tab and back.
LEMMA MountStep ==
  ASSUME ConsoleInv, Mount \/ Unmount
  PROVE  ConsoleInv'
<1>0. calls \in [Calls -> CallType] /\ pending \in BOOLEAN /\ \A c \in Calls : CallOK(calls[c])
  BY DEF ConsoleInv
<1>1. CASE Mount
  <2>1. TerminalOK(terminal') /\ UNCHANGED <<pending, calls>>
    BY <1>1, EmptyConsole DEF Mount
  <2>2. \A c \in Calls : ~calls[c].mine
    BY <1>1 DEF Mount, ConsoleInv, MineOK
  <2> QED
    BY <2>1, <2>2 DEF ConsoleInv
<1>2. CASE Unmount
  <2>1. TerminalOK(terminal') /\ pending' = pending
    BY <1>2, EmptyConsole DEF Unmount
  <2>2. /\ calls' \in [Calls -> CallType]
        /\ \A c \in Calls : CallOK(calls'[c]) /\ ~calls'[c].mine
    <3>1. ASSUME NEW call, CallOK(call)
          PROVE  CallOK([call EXCEPT !.mine = FALSE]) /\ ~[call EXCEPT !.mine = FALSE].mine
      BY <3>1 DEF CallOK, CallType
    <3>2. calls' = [c \in Calls |-> [calls[c] EXCEPT !.mine = FALSE]]
      BY <1>2 DEF Unmount
    <3>3. \A c \in Calls : CallOK(calls'[c]) /\ ~calls'[c].mine
      BY <1>0, <3>1, <3>2
    <3>4. \A c \in Calls : calls'[c] \in CallType
      BY <3>3 DEF CallOK
    <3> QED
      BY <3>2, <3>3, <3>4
  <2> QED
    BY <1>0, <2>1, <2>2 DEF ConsoleInv
<1> QED
  BY <1>1, <1>2
\* A line that clears nothing is taken over into the list of lines.
LEMMA LineTaken ==
  ASSUME NEW h \in Seq(EntryType), NEW lines \in Seq(Lines), NEW k \in 0..Len(lines),
         Shows(h, lines, 0, k), NEW line \in Lines, line # "clear-screen"
  PROVE  /\ Append(lines, line) \in Seq(Lines)
         /\ Append(lines, line)[Len(Append(lines, line))] = line
         /\ k \in 0..Len(Append(lines, line)) /\ Len(Append(lines, line)) = Len(lines) + 1
         /\ Shows(h, Append(lines, line), 1, k)
<1> DEFINE more == Append(lines, line)
<1>1. /\ more \in Seq(Lines) /\ Len(more) = Len(lines) + 1 /\ more[Len(lines) + 1] = line
      /\ \A i \in 1..Len(lines) : more[i] = lines[i]
      /\ Len(lines) \in Nat /\ Len(h) \in Nat
  OBVIOUS
<1> HIDE DEF more
<1>2. k + Len(h) + 1 = Len(more)
  <2>1. k + Len(h) + 0 = Len(lines)
    BY DEF Shows
  <2>2. k \in Nat
    OBVIOUS
  <2> QED
    BY <1>1, <2>1, <2>2
<1>3. k # 0 => more[k] = "clear-screen"
  BY <1>1 DEF Shows
<1>4. \A i \in (k + 1)..Len(more) : more[i] # "clear-screen"
  <2> SUFFICES ASSUME NEW i \in (k + 1)..Len(more) PROVE more[i] # "clear-screen"
    OBVIOUS
  <2>1. CASE i = Len(more)
    BY <1>1, <2>1
  <2>2. CASE i # Len(more)
    <3>1. i \in (k + 1)..Len(lines) /\ i \in 1..Len(lines)
      BY <1>1, <2>2
    <3> QED
      BY <1>1, <3>1 DEF Shows
  <2> QED
    BY <2>1, <2>2
<1>5. \A i \in 1..Len(h) : h[i].input = more[k + i]
  <2> SUFFICES ASSUME NEW i \in 1..Len(h) PROVE h[i].input = more[k + i]
    OBVIOUS
  <2>1. k + i \in 1..Len(lines)
    BY <1>1 DEF Shows
  <2> QED
    BY <1>1, <2>1 DEF Shows
<1>6. k \in 0..Len(more)
  BY <1>1
<1>7. Shows(h, more, 1, k)
  BY <1>2, <1>3, <1>4, <1>5 DEF Shows
<1> QED
  BY <1>1, <1>6, <1>7 DEF more

\* The entry of the line that was running is made.
LEMMA EntryMade ==
  ASSUME NEW h \in Seq(EntryType), NEW lines \in Seq(Lines), NEW k \in 0..Len(lines),
         Shows(h, lines, 1, k), NEW e \in EntryType, e.input = lines[Len(lines)]
  PROVE  Shows(Append(h, e), lines, 0, k)
<1> DEFINE g == Append(h, e)
<1>1. /\ Len(g) = Len(h) + 1 /\ g[Len(h) + 1] = e /\ \A i \in 1..Len(h) : g[i] = h[i]
      /\ Len(lines) \in Nat /\ Len(h) \in Nat
  OBVIOUS
<1> HIDE DEF g
<1>2. k + Len(g) + 0 = Len(lines)
  BY <1>1 DEF Shows
<1>3. \A i \in 1..Len(g) : g[i].input = lines[k + i]
  <2> SUFFICES ASSUME NEW i \in 1..Len(g) PROVE g[i].input = lines[k + i]
    OBVIOUS
  <2>1. CASE i = Len(g)
    <3>1. k + i = Len(lines) /\ g[i] = e
      BY <1>1, <1>2, <2>1
    <3> QED
      BY <3>1
  <2>2. CASE i # Len(g)
    <3>1. i \in 1..Len(h)
      BY <1>1, <2>2
    <3> QED
      BY <1>1, <3>1 DEF Shows
  <2> QED
    BY <2>1, <2>2
<1>4. Shows(g, lines, 0, k)
  BY <1>2, <1>3 DEF Shows
<1> QED
  BY <1>4 DEF g

\* A line is taken over into the list of lines.
LEMMA TakenType ==
  ASSUME ConsoleInv, Submittable
  PROVE  /\ terminal \in TerminalType /\ Taken \in TerminalType
         /\ terminal.input \in Lines /\ terminal.mounted /\ ~terminal.running
         /\ Taken.cmdHistory = Append(terminal.cmdHistory, terminal.input)
         /\ Taken.history = terminal.history /\ Taken.cursor = 0
         /\ Taken.mounted = terminal.mounted /\ Taken.running = FALSE
         /\ \A c \in Calls : ~calls[c].mine
<1>1. terminal \in TerminalType /\ terminal.mounted /\ ~terminal.running
      /\ terminal.input \in Lines
  BY DEF ConsoleInv, TerminalOK, Submittable, Listening, TerminalType
<1>2. Append(terminal.cmdHistory, terminal.input) \in Seq(Lines)
  BY <1>1 DEF TerminalType
<1>3. \A c \in Calls : ~calls[c].mine
  BY <1>1 DEF ConsoleInv, MineOK
<1> QED
  BY <1>1, <1>2, <1>3 DEF TerminalType, Taken

\* The lines that send nothing.
LEMMA SubmitLocalStep ==
  ASSUME ConsoleInv, SubmitLocal
  PROVE  ConsoleInv'
<1> DEFINE line == terminal.input
           h == terminal.history
           cmds == terminal.cmdHistory
           h1 == Local(line)
<1>0. /\ Submittable /\ line \notin Sendable
      /\ terminal' = [Taken EXCEPT !.history = h1] /\ UNCHANGED <<pending, calls>>
  BY DEF SubmitLocal
<1>1. line \in {"help", "clear-screen", "invalid"}
  BY <1>0, TakenType DEF Lines
<1>2. /\ h \in Seq(EntryType) /\ cmds \in Seq(Lines) /\ line \in Lines
      /\ \A i \in 1..Len(h) : EntryOK(h[i])
      /\ ~terminal.running
  BY <1>0, TakenType DEF TerminalType, ConsoleInv, TerminalOK
<1>3. PICK k \in 0..Len(cmds) : Shows(h, cmds, 0, k)
  BY <1>2 DEF ConsoleInv, TerminalOK, Follows
<1> DEFINE e == Entry(line, line = "help", "panel", FALSE)
<1>5. e \in EntryType /\ EntryOK(e) /\ e.input = line
  BY <1>1 DEF Entry, EntryType, EntryOK, Lines, Changing
<1>6. IF line = "clear-screen" THEN h1 = <<>> ELSE h1 = Append(h, e)
  BY <1>1 DEF Local
<1> HIDE DEF e, h1
<1>7. h1 \in Seq(EntryType) /\ \A i \in 1..Len(h1) : EntryOK(h1[i])
  <2>1. CASE line = "clear-screen"
    <3>1. h1 = <<>> /\ <<>> \in Seq(EntryType) /\ Len(<<>>) = 0
      BY <1>6, <2>1
    <3> QED
      BY <3>1
  <2>2. CASE line # "clear-screen"
    <3>1. h1 = Append(h, e)
      BY <1>6, <2>2
    <3>2. /\ h1 \in Seq(EntryType) /\ Len(h1) = Len(h) + 1 /\ h1[Len(h) + 1] = e
          /\ \A i \in 1..Len(h) : h1[i] = h[i]
          /\ Len(h) \in Nat
      BY <1>2, <1>5, <3>1
    <3>3. ASSUME NEW i \in 1..Len(h1) PROVE EntryOK(h1[i])
      <4>1. i = Len(h) + 1 \/ i \in 1..Len(h)
        BY <3>2
      <4> QED
        BY <1>2, <1>5, <3>2, <4>1
    <3> QED
      BY <3>2, <3>3
  <2> QED
    BY <2>1, <2>2
<1>8. /\ terminal' \in TerminalType /\ terminal'.history = h1
      /\ terminal'.cmdHistory = Append(cmds, line) /\ terminal'.cursor = 0
      /\ terminal'.mounted = terminal.mounted /\ terminal'.running = FALSE
  <2>1. Taken \in TerminalType
    BY <1>0, TakenType
  <2>2. terminal' \in TerminalType /\ terminal'.history = h1
        /\ terminal'.cmdHistory = Taken.cmdHistory /\ terminal'.cursor = Taken.cursor
        /\ terminal'.mounted = Taken.mounted /\ terminal'.running = Taken.running
    BY <1>0, <1>7, <2>1 DEF TerminalType
  <2> QED
    BY <1>0, <2>2, TakenType
<1>9. \E j \in 0..Len(terminal'.cmdHistory) : Follows(terminal', j)
  <2> SUFFICES \E j \in 0..Len(Append(cmds, line)) : Shows(h1, Append(cmds, line), 0, j)
    BY <1>8 DEF Follows
  <2>1. CASE line = "clear-screen"
    <3> DEFINE more == Append(cmds, line)
    <3>1. /\ Len(more) = Len(cmds) + 1 /\ more[Len(cmds) + 1] = line /\ Len(cmds) \in Nat
      BY <1>2
    <3>2. h1 = <<>> /\ Len(h1) = 0
      BY <1>6, <2>1
    <3> HIDE DEF more, cmds, line
    <3>3. Shows(h1, more, 0, Len(more))
      BY <2>1, <3>1, <3>2 DEF Shows
    <3>4. Len(more) \in 0..Len(more)
      BY <3>1
    <3> QED
      BY <3>3, <3>4 DEF more
  <2>2. CASE line # "clear-screen"
    <3>1. h1 = Append(h, e)
      BY <1>6, <2>2
    <3> HIDE DEF h, cmds, line
    <3>2. /\ Append(cmds, line) \in Seq(Lines) /\ k \in 0..Len(Append(cmds, line))
          /\ Append(cmds, line)[Len(Append(cmds, line))] = line
          /\ Shows(h, Append(cmds, line), 1, k)
      BY <1>2, <1>3, <2>2, LineTaken
    <3>3. Shows(Append(h, e), Append(cmds, line), 0, k)
      BY <1>2, <1>5, <3>2, EntryMade
    <3> QED
      BY <3>1, <3>2, <3>3
  <2> QED
    BY <2>1, <2>2
<1>10. TerminalOK(terminal')
  <2>1. terminal'.cursor <= Len(terminal'.cmdHistory)
    BY <1>8 DEF TerminalType
  <2> QED
    BY <1>7, <1>8, <1>9, <2>1 DEF TerminalOK
<1>11. terminal.running = FALSE
  BY <1>0, TakenType DEF TerminalType
<1> QED
  BY <1>0, <1>8, <1>10, <1>11, TerminalStep

\* A line that is sent: one call waits, and it is that of the last line.
LEMMA SubmitCommandStep ==
  ASSUME ConsoleInv, NEW c \in Calls, SubmitCommand(c)
  PROVE  ConsoleInv'
<1> DEFINE line == terminal.input
           h == terminal.history
           cmds == terminal.cmdHistory
           more == Append(cmds, line)
           call == [NoCall EXCEPT !.line = line, !.server = "sent",
                                  !.proxy = "waiting", !.mine = TRUE]
<1>0. /\ Submittable /\ line \in Sendable /\ pending' = pending
      /\ terminal' = [Taken EXCEPT !.running = TRUE]
      /\ calls' = [calls EXCEPT ![c] = call]
  BY DEF SubmitCommand
<1>1. /\ h \in Seq(EntryType) /\ cmds \in Seq(Lines) /\ line \in Lines
      /\ \A i \in 1..Len(h) : EntryOK(h[i])
      /\ ~terminal.running /\ terminal.mounted
  BY <1>0, TakenType DEF TerminalType, ConsoleInv, TerminalOK
<1>2. PICK k \in 0..Len(cmds) : Shows(h, cmds, 0, k)
  BY <1>1 DEF ConsoleInv, TerminalOK, Follows
<1>3. line # "clear-screen"
  BY <1>0 DEF Sendable, Changing
<1>4. /\ call \in CallType /\ CallOK(call) /\ call.mine /\ call.line = line
  BY <1>0 DEF CallType, CallOK, NoCall
<1>5. /\ terminal' \in TerminalType /\ terminal'.history = h
      /\ terminal'.cmdHistory = more /\ terminal'.cursor = 0
      /\ terminal'.mounted /\ terminal'.running
  <2>1. Taken \in TerminalType
    BY <1>0, TakenType
  <2>2. terminal' \in TerminalType /\ terminal'.history = Taken.history
        /\ terminal'.cmdHistory = Taken.cmdHistory /\ terminal'.cursor = Taken.cursor
        /\ terminal'.mounted = Taken.mounted /\ terminal'.running
    BY <1>0, <2>1 DEF TerminalType
  <2> QED
    BY <1>0, <1>1, <2>2, TakenType
<1> HIDE DEF call, h, cmds, line
<1>6. /\ more \in Seq(Lines) /\ more[Len(more)] = line /\ k \in 0..Len(more)
      /\ Len(more) = Len(cmds) + 1 /\ Shows(h, more, 1, k)
  BY <1>1, <1>2, <1>3, LineTaken
<1>7. Len(cmds) \in Nat
  BY <1>1
<1> HIDE DEF more
<1>8. TerminalOK(terminal')
  <2>1. Follows(terminal', k)
    BY <1>5, <1>6 DEF Follows
  <2>2. terminal'.cursor <= Len(terminal'.cmdHistory)
    BY <1>5, <1>6, <1>7
  <2> QED
    BY <1>1, <1>5, <1>6, <2>1, <2>2 DEF TerminalOK
<1>9. /\ calls' \in [Calls -> CallType] /\ calls'[c] = call
      /\ \A d \in Calls \ {c} : calls'[d] = calls[d]
  BY <1>0, <1>4 DEF ConsoleInv
<1>10. \A d \in Calls : CallOK(calls'[d])
  BY <1>4, <1>9 DEF ConsoleInv
<1>11. \A d \in Calls : calls'[d].mine => d = c
  BY <1>0, <1>9, TakenType
<1>12. MineOK(c)'
  BY <1>4, <1>5, <1>6, <1>7, <1>9, <1>11 DEF MineOK
<1>13. pending' \in BOOLEAN
  BY <1>0 DEF ConsoleInv
<1> QED
  BY <1>8, <1>9, <1>10, <1>11, <1>12, <1>13 DEF ConsoleInv

\* The answer of a call, or the browser's error, reaches the panel.
LEMMA FinishStep ==
  ASSUME ConsoleInv, NEW c \in Calls, NEW e, Finish(c, e),
         calls[c].mine => e \in EntryType /\ EntryOK(e) /\ e.input = calls[c].line
  PROVE  ConsoleInv'
<1> DEFINE over == [calls[c] EXCEPT !.proxy = "closed", !.mine = FALSE]
<1>0. /\ calls' = [calls EXCEPT ![c] = Settled(over)] /\ pending' = pending
      /\ calls \in [Calls -> CallType] /\ CallOK(calls[c]) /\ calls[c] \in CallType
      /\ pending \in BOOLEAN
  BY DEF Finish, ConsoleInv
<1>1. CallOK(over) /\ ~over.mine
  BY <1>0 DEF CallOK, CallType
<1> HIDE DEF over
<1>2. CallOK(Settled(over)) /\ ~Settled(over).mine /\ Settled(over) \in CallType
  <2>1. CallOK(Settled(over)) /\ ~Settled(over).mine
    BY <1>1, SettledOK
  <2> QED
    BY <2>1 DEF CallOK
<1>3. CASE ~calls[c].mine
  <2>1. terminal' = terminal
    BY <1>3 DEF Finish
  <2> QED
    BY <1>0, <1>2, <2>1, QuietCall
<1>4. CASE calls[c].mine
  <2> DEFINE h == terminal.history
             cmds == terminal.cmdHistory
             more == Append(h, e)
  <2>1. /\ e \in EntryType /\ EntryOK(e) /\ e.input = cmds[Len(cmds)]
        /\ terminal.running /\ \A d \in Calls : calls[d].mine => d = c
    BY <1>4 DEF ConsoleInv, MineOK
  <2>2. /\ terminal \in TerminalType /\ terminal.cursor <= Len(cmds)
        /\ h \in Seq(EntryType) /\ cmds \in Seq(Lines)
        /\ \A i \in 1..Len(h) : EntryOK(h[i])
    BY DEF ConsoleInv, TerminalOK, TerminalType
  <2>3. PICK k \in 0..Len(cmds) : Shows(h, cmds, 1, k)
    BY <2>1 DEF ConsoleInv, TerminalOK, Follows
  <2>4. /\ more \in Seq(EntryType) /\ Len(more) = Len(h) + 1 /\ more[Len(h) + 1] = e
        /\ \A i \in 1..Len(h) : more[i] = h[i] /\ Len(h) \in Nat
    BY <2>1, <2>2
  <2>a. Len(h) \in Nat
    BY <2>2
  <2>5. Shows(more, cmds, 0, k)
    <3> HIDE DEF h, cmds
    <3> QED
      BY <2>1, <2>2, <2>3, EntryMade
  <2>6. \A i \in 1..Len(more) : EntryOK(more[i])
    <3> SUFFICES ASSUME NEW i \in 1..Len(more) PROVE EntryOK(more[i])
      OBVIOUS
    <3> HIDE DEF more
    <3>1. i = Len(h) + 1 \/ i \in 1..Len(h)
      BY <2>4, <2>a
    <3> QED
      BY <2>1, <2>2, <2>4, <3>1
  <2>7. terminal' = [terminal EXCEPT !.history = more, !.running = FALSE]
    BY <1>4 DEF Finish
  <2> HIDE DEF more
  <2>8. /\ terminal' \in TerminalType /\ terminal'.history = more
        /\ terminal'.cmdHistory = cmds /\ terminal'.running = FALSE
        /\ terminal'.cursor = terminal.cursor
    BY <2>2, <2>4, <2>7 DEF TerminalType
  <2>9. TerminalOK(terminal')
    <3>1. Follows(terminal', k)
      BY <2>5, <2>8 DEF Follows
    <3> QED
      BY <2>2, <2>6, <2>8, <3>1 DEF TerminalOK
  <2>10. /\ calls' \in [Calls -> CallType] /\ \A d \in Calls : CallOK(calls'[d])
         /\ \A d \in Calls : ~calls'[d].mine
    BY <1>0, <1>2, <2>1 DEF ConsoleInv
  <2> QED
    BY <1>0, <2>9, <2>10 DEF ConsoleInv
<1> QED
  BY <1>3, <1>4

\* The entry says what the server has done, or that nobody knows.
LEMMA ArrivalStep ==
  ASSUME ConsoleInv, NEW c \in Calls, Arrive(c) \/ RequestFails(c)
  PROVE  ConsoleInv'
<1>0. CallOK(calls[c]) /\ calls[c] \in CallType
  BY DEF ConsoleInv
<1>1. calls[c].mine => calls[c].line \in Sendable /\ calls[c].line \in Lines
  BY <1>0 DEF CallOK, Lines
<1>2. CASE Arrive(c)
  <2> DEFINE e == Result(c)
  <2>1. calls[c].mine => e \in EntryType /\ EntryOK(e) /\ e.input = calls[c].line
    <3> SUFFICES ASSUME calls[c].mine PROVE e \in EntryType /\ EntryOK(e) /\ e.input = calls[c].line
      OBVIOUS
    <3>1. CASE calls[c].thrown
      BY <1>0, <1>1, <3>1 DEF Result, Entry, EntryType, EntryOK, CallType
    <3>2. CASE ~calls[c].thrown
      <4>1. calls[c].server = "done"
        BY <1>0, <1>2, <3>2 DEF Arrive, CallOK
      <4> QED
        BY <1>0, <1>1, <3>2, <4>1 DEF Result, Entry, EntryType, EntryOK, CallType, CallOK
    <3> QED
      BY <3>1, <3>2
  <2>2. Finish(c, e)
    BY <1>2 DEF Arrive
  <2> HIDE DEF e
  <2> QED
    BY <2>1, <2>2, FinishStep
<1>3. CASE RequestFails(c)
  <2> DEFINE e == Entry(calls[c].line, FALSE, "outage", calls[c].did)
  <2>1. calls[c].mine => e \in EntryType /\ EntryOK(e) /\ e.input = calls[c].line
    BY <1>0, <1>1 DEF Entry, EntryType, EntryOK, CallType
  <2>2. Finish(c, e)
    BY <1>3 DEF RequestFails
  <2> HIDE DEF e
  <2> QED
    BY <2>1, <2>2, FinishStep
<1> QED
  BY <1>2, <1>3

\* The invariant of the console.
LEMMA ConsoleInvariant == ConsoleSpec => []ConsoleInv
<1>1. ConsoleInv /\ [ConsoleNext]_consoleVars => ConsoleInv'
  <2> SUFFICES ASSUME ConsoleInv, [ConsoleNext]_consoleVars PROVE ConsoleInv'
    OBVIOUS
  <2>1. CASE Propose
    <3>1. pending' \in BOOLEAN /\ UNCHANGED <<calls, terminal>>
      BY <2>1 DEF Propose
    <3> QED
      BY <3>1 DEF ConsoleInv, MineOK
  <2>2. CASE UNCHANGED consoleVars
    BY <2>2 DEF consoleVars, ConsoleInv, MineOK
  <2>3. CASE ConsoleNext
    BY <2>1, <2>3, KeyStep, SubmitLocalStep, MountStep, SubmitCommandStep, ServerStep, ProxyStep,
       ArrivalStep DEF ConsoleNext
  <2> QED
    BY <2>2, <2>3
<1> QED
  BY <1>1, InitConsole, PTL DEF ConsoleSpec

\* handleSubmit and cmdCommit: for a command that changes the VFS, a green entry means that
\* the server has done it, and a red one with the server's own answer that it has not;
\* only an outage leaves it open.
THEOREM ConsoleTellsTheTruth == ConsoleSpec => []EntriesTellTheTruth
<1>1. ConsoleInv => EntriesTellTheTruth
  <2> SUFFICES ASSUME ConsoleInv PROVE EntriesTellTheTruth
    OBVIOUS
  <2>1. terminal.history \in Seq(EntryType) /\ \A i \in 1..Len(terminal.history) : EntryOK(terminal.history[i])
    BY DEF ConsoleInv, TerminalOK, TerminalType
  <2>2. DOMAIN terminal.history = 1..Len(terminal.history)
    BY <2>1
  <2> QED
    BY <2>1, <2>2 DEF EntriesTellTheTruth, EntryOK
<1> QED
  BY <1>1, ConsoleInvariant, PTL

\* The position that Follows speaks of is the one SelectLastInSeq finds.
LEMMA LastClearScreen ==
  ASSUME NEW lines \in Seq(Lines), NEW k \in 0..Len(lines),
         k # 0 => lines[k] = "clear-screen",
         \A i \in (k + 1)..Len(lines) : lines[i] # "clear-screen"
  PROVE  SelectLastInSeq(lines, LAMBDA line : line = "clear-screen") = k
<1> DEFINE I == {i \in 1..Len(lines) : lines[i] = "clear-screen"}
<1>1. SelectLastInSeq(lines, LAMBDA line : line = "clear-screen") = IF I # {} THEN Max(I) ELSE 0
  BY DEF SelectLastInSeq
<1>2. Len(lines) \in Nat
  OBVIOUS
<1>3. \A i \in I : i \in Nat /\ i <= k /\ i # 0
  <2> SUFFICES ASSUME NEW i \in I PROVE i \in Nat /\ i <= k /\ i # 0
    OBVIOUS
  <2>1. i \in 1..Len(lines) /\ lines[i] = "clear-screen"
    OBVIOUS
  <2>2. ~(i \in (k + 1)..Len(lines))
    BY <2>1
  <2> QED
    BY <1>2, <2>1, <2>2
<1>4. CASE k = 0
  <2>1. I = {}
    BY <1>3, <1>4
  <2> QED
    BY <1>1, <1>4, <2>1
<1>5. CASE k # 0
  <2>1. k \in I
    BY <1>2, <1>5
  <2> HIDE DEF I
  <2>2. \A x \in I : (\A y \in I : x >= y) => x = k
    BY <1>2, <1>3, <2>1
  <2>3. \A y \in I : k >= y
    BY <1>2, <1>3
  <2>4. Max(I) = k
    BY <2>1, <2>2, <2>3 DEF Max
  <2> QED
    BY <1>1, <2>1, <2>4
<1> QED
  BY <1>4, <1>5

\* handleSubmit: the output holds the lines since the last clear-screen that the arrows can
\* recall, in their order, but for the one that is running.
THEOREM OutputIsInput == ConsoleSpec => []OutputFollowsInput
<1>1. ConsoleInv => OutputFollowsInput
  <2> SUFFICES ASSUME ConsoleInv PROVE OutputFollowsInput
    OBVIOUS
  <2> DEFINE h == terminal.history
             submitted == terminal.cmdHistory
             last == SelectLastInSeq(submitted, LAMBDA line : line = "clear-screen")
             since == SubSeq(submitted, last + 1, Len(submitted))
             shown == [i \in DOMAIN h |-> h[i].input]
             w == IF terminal.running THEN 1 ELSE 0
  <2>1. /\ h \in Seq(EntryType) /\ submitted \in Seq(Lines) /\ terminal.running \in BOOLEAN
    BY DEF ConsoleInv, TerminalOK, TerminalType
  <2>2. PICK k \in 0..Len(submitted) : Shows(h, submitted, w, k)
    BY DEF ConsoleInv, TerminalOK, Follows
  <2>a. Len(submitted) \in Nat /\ Len(h) \in Nat /\ k \in Nat /\ DOMAIN h = 1..Len(h)
    BY <2>1, <2>2
  <2>3. last = k
    <3> HIDE DEF submitted
    <3> QED
      BY <2>1, <2>2, LastClearScreen DEF Shows
  <2>4. since = SubSeq(submitted, k + 1, Len(submitted))
    BY <2>3
  <2> HIDE DEF last
  <2>5. k + Len(h) + w = Len(submitted) /\ \A i \in 1..Len(h) : h[i].input = submitted[k + i]
    BY <2>2 DEF Shows
  <2> DEFINE rest == [i \in 1..Len(h) |-> submitted[k + i]]
  <2>6. shown = rest
    BY <2>a, <2>5
  <2>7. /\ since \in Seq(Lines) /\ Len(since) = Len(submitted) - k
        /\ \A i \in 1..(Len(submitted) - k) : since[i] = submitted[k + i]
    <3> HIDE DEF submitted, since
    <3> QED
      BY <2>1, <2>4, <2>a
  <2> HIDE DEF since, submitted, h, rest, shown
  <2>8. CASE ~terminal.running
    <3>1. Len(since) = Len(h)
      BY <2>5, <2>7, <2>8, <2>a
    <3> HIDE DEF w
    <3>2. since = [i \in 1..Len(since) |-> since[i]]
      BY <2>7
    <3>3. \A i \in 1..Len(h) : since[i] = submitted[k + i]
      BY <2>7, <3>1
    <3>4. since = rest
      BY <3>1, <3>2, <3>3 DEF rest
    <3>5. shown = since
      BY <2>6, <3>4
    <3> QED
      BY <2>8, <3>5 DEF OutputFollowsInput, Screen, shown, h, since, submitted, last
  <2>9. CASE terminal.running
    <3> DEFINE front == SubSeq(since, 1, Len(since) - 1)
    <3>1. Len(since) = Len(h) + 1
      BY <2>5, <2>7, <2>9, <2>a
    <3>2. /\ front = [i \in 1..Len(front) |-> front[i]] /\ Len(front) = Len(h)
          /\ \A i \in 1..Len(h) : front[i] = since[i]
      <4> HIDE DEF w
      <4>a. Len(since) - 1 = Len(h) /\ Len(h) \in Nat /\ Len(since) \in Nat
        BY <2>a, <3>1
      <4>1. front = SubSeq(since, 1, Len(h))
        BY <4>a
      <4> HIDE DEF front
      <4>0. front \in Seq(Lines) /\ Len(front) = Len(h)
        BY <2>7, <4>a, <4>1
      <4>2. \A i \in 1..Len(h) : front[i] = since[i]
        BY <2>7, <4>a, <4>1
      <4>3. front = [i \in 1..Len(front) |-> front[i]]
        BY <4>0
      <4> QED
        BY <4>0, <4>2, <4>3
    <3> HIDE DEF front, w
    <3>3. \A i \in 1..Len(h) : front[i] = submitted[k + i]
      <4>1. Len(submitted) - k = Len(h) + 1 /\ Len(h) \in Nat
        BY <2>7, <2>a, <3>1
      <4>2. \A i \in 1..Len(h) : i \in 1..(Len(submitted) - k)
        BY <4>1
      <4> QED
        BY <2>7, <3>2, <4>2
    <3>4. front = rest
      BY <3>2, <3>3 DEF rest
    <3>5. shown = Front(since)
      BY <2>6, <3>4 DEF Front, front
    <3> QED
      BY <2>9, <3>5 DEF OutputFollowsInput, Screen, shown, h, since, submitted, last
  <2> QED
    BY <2>8, <2>9
<1> QED
  BY <1>1, ConsoleInvariant, PTL
=============================================================================
