------------------------------ MODULE ServerControl ------------------------------
(***************************************************************************)
(* Starting the MCP server from the dashboard.  The route handler keeps    *)
(* the handle and the status of one child process; GET and POST first wait *)
(* for a probe of the server and go on with whatever the status has become *)
(* meanwhile.  The child reports through events: a line it prints before   *)
(* it binds its server, a failure to be spawned, its exit.  Every browser   *)
(* polls the status, and shows a button that starts the server and polls   *)
(* on its own until the server is reachable.                               *)
(***************************************************************************)
EXTENDS Naturals, FiniteSets

CONSTANTS
  Shells,    \* browsers that show the dashboard
  Children,  \* child processes that exist at a time
  Tries,     \* polls of one click on Start, 6 in the code
  MaxFailures, \* requests that fail in the browser while the handler goes on
  None

ASSUME ServerAssumption ==
  /\ Tries \in Nat \ {0}
  /\ MaxFailures \in Nat
  /\ None \notin Children

VARIABLES
  route,     \* the route handler's mcpProcess and mcpStatus
  children,  \* the processes, with what the route handler has not heard of them
  server,    \* the process that listens
  requests,  \* of every browser: of its interval, of its Start button, and one it gave up
  shells,    \* DashboardShell: what it shows, and how far a click on Start is
  failures   \* requests that have failed so far

vars == <<route, children, server, requests, shells, failures>>

Statuses == {"stopped", "starting", "running", "error"}
Slots == Shells \X {"poll", "start", "lost"}
Abandoned == Shells \X {"lost"}  \* nobody waits for their answers
Answer(status, reachable) == [status |-> status, reachable |-> reachable]

\* live is the answer of the latest probe; answer is what the handler returns.
NoRequest == [method |-> "none", pc |-> "none", live |-> FALSE,
              answer |-> Answer("stopped", FALSE)]

\* A handler begins with a probe of the port; what it finds is used some time later.
Sent(method) == [NoRequest EXCEPT !.method = method, !.pc = "probed", !.live = server # None]
NoChild == [state |-> "none", line |-> FALSE]

Init ==
  /\ route = [process |-> None, status |-> "stopped"]
  /\ children = [c \in Children |-> NoChild]
  /\ server = None
  /\ requests = [q \in Slots |-> NoRequest]
  /\ shells = [b \in Shells |-> [shown |-> Answer("stopped", FALSE),
                                 starting |-> FALSE, tries |-> 0]]
  /\ failures = 0
-----------------------------------------------------------------------------
(***************************************************************************)
(* The child process.                                                      *)
(***************************************************************************)
Alive(c) == children[c].state \in {"compiling", "up"}

Exit(c) ==
  /\ children' = [children EXCEPT ![c].state = "exited"]
  /\ server' = IF server = c THEN None ELSE server

\* Compiled: its first log line is on its way before anything listens.
Compiled(c) ==
  /\ children[c].state = "compiling"
  /\ children' = [children EXCEPT ![c].state = "up", ![c].line = TRUE]
  /\ UNCHANGED <<route, server, requests, shells, failures>>

\* The HTTP port and the SSE port are bound within moments, a process that finds the
\* SSE port taken exits: the two are one resource here.
Bind(c) ==
  /\ children[c].state = "up" /\ server # c
  /\ IF server = None THEN server' = c /\ UNCHANGED children ELSE Exit(c)
  /\ UNCHANGED <<route, requests, shells, failures>>

\* It does not compile, crashes or is killed.
Die(c) ==
  /\ Alive(c)
  /\ Exit(c)
  /\ UNCHANGED <<route, requests, shells, failures>>

\* Its output may be read after its exit has been reported.
OnData(c) ==
  /\ children[c].line
  /\ children' = [children EXCEPT ![c].line = FALSE]
  /\ route' = [route EXCEPT !.status = "running"]
  /\ UNCHANGED <<server, requests, shells, failures>>

\* Mutant of OnExit: only the handle is dropped.
OnExitKeepStatus(c) ==
  /\ children[c].state \in {"exited", "unspawnable"}
  /\ children' = [children EXCEPT ![c] = [NoChild EXCEPT !.line = children[c].line]]
  /\ route' = [route EXCEPT !.process = None]
  /\ UNCHANGED <<server, requests, shells, failures>>

\* Whichever child it was, the handle and the status of the current one are reset.
OnExit(c) ==
  /\ children[c].state \in {"exited", "unspawnable"}
  /\ children' = [children EXCEPT ![c] = [NoChild EXCEPT !.line = children[c].line]]
  /\ route' = [process |-> None,
               status |-> IF children[c].state = "exited" THEN "stopped" ELSE "error"]
  /\ UNCHANGED <<server, requests, shells, failures>>
-----------------------------------------------------------------------------
(***************************************************************************)
(* The route handler.                                                      *)
(***************************************************************************)

Answered(q, request) ==
  requests' = [requests EXCEPT ![q] = IF q \in Abandoned THEN NoRequest ELSE request]

Answers(q, status) ==
  Answered(q, [requests[q] EXCEPT !.pc = "answered", !.live = FALSE,
                                  !.answer = Answer(status, requests[q].live)])

\* Mutant of Corrected: a server that answers does not change the status.
OnlyLowered(status, process, live) ==
  IF ~live /\ status = "running" /\ process = None THEN "stopped" ELSE status

\* The status after a probe in GET.
Corrected(status, process, live) ==
  CASE live -> "running"
    [] ~live /\ status = "running" /\ process = None -> "stopped"
    [] OTHER -> status

GET(q) ==
  /\ requests[q].method = "GET" /\ requests[q].pc = "probed"
  /\ LET status == Corrected(route.status, route.process, requests[q].live) IN
     /\ route' = [route EXCEPT !.status = status]
     /\ Answers(q, status)
  /\ UNCHANGED <<children, server, shells, failures>>

InPOST(q, pc) == requests[q].method = "POST" /\ requests[q].pc = pc

AlreadyRunning(q) ==
  /\ InPOST(q, "probed") /\ requests[q].live
  /\ route' = [route EXCEPT !.status = "running"]
  /\ Answers(q, "running")
  /\ UNCHANGED <<children, server, shells, failures>>

BeingStarted == route.process # None /\ route.status = "starting"

StartingUp(q) ==
  /\ InPOST(q, "probed") /\ ~requests[q].live /\ BeingStarted
  /\ Answers(q, "starting")
  /\ UNCHANGED <<route, children, server, shells, failures>>

Free(c) == children[c] = NoChild

\* That go cannot be run is reported later, by an event.
Spawn(q) ==
  /\ InPOST(q, "probed") /\ ~requests[q].live /\ ~BeingStarted
  /\ \E c \in Children, state \in {"compiling", "unspawnable"} :
       /\ Free(c)
       /\ children' = [children EXCEPT ![c].state = state]
       /\ route' = [process |-> c, status |-> "starting"]
  /\ requests' = [requests EXCEPT ![q].pc = "waiting"]
  /\ UNCHANGED <<server, shells, failures>>

SpawnThrows(q) ==
  /\ InPOST(q, "probed") /\ ~requests[q].live /\ ~BeingStarted
  /\ route' = [process |-> None, status |-> "error"]
  /\ Answered(q, [requests[q] EXCEPT !.pc = "failed"])
  /\ UNCHANGED <<children, server, shells, failures>>

\* 3 s later the port is probed again.
ProbeAgain(q) ==
  /\ InPOST(q, "waiting")
  /\ requests' = [requests EXCEPT ![q].pc = "waited", ![q].live = server # None]
  /\ UNCHANGED <<route, children, server, shells, failures>>

POST(q) ==
  /\ InPOST(q, "waited")
  /\ LET status == IF requests[q].live THEN "running" ELSE route.status IN
     /\ route' = [route EXCEPT !.status = status]
     /\ Answers(q, status)
  /\ UNCHANGED <<children, server, shells, failures>>
-----------------------------------------------------------------------------
(***************************************************************************)
(* The dashboard.                                                          *)
(***************************************************************************)
Quiet(q) == requests[q].pc = "none"

\* Every browser's interval; a poll is answered long before the next one is due.
PollStatus(b) ==
  /\ Quiet(<<b, "poll">>)
  /\ requests' = [requests EXCEPT ![<<b, "poll">>] = Sent("GET")]
  /\ UNCHANGED <<route, children, server, shells, failures>>

Polled(b) ==
  LET q == <<b, "poll">> IN
  /\ requests[q].pc = "answered"
  /\ shells' = [shells EXCEPT ![b].shown = requests[q].answer]
  /\ requests' = [requests EXCEPT ![q] = NoRequest]
  /\ UNCHANGED <<route, children, server, failures>>

Fail == failures < MaxFailures /\ failures' = failures + 1

PollFails(b) ==
  /\ ~Quiet(<<b, "poll">>) /\ Fail
  /\ shells' = [shells EXCEPT ![b].shown.reachable = FALSE]
  /\ requests' = [requests EXCEPT ![<<b, "poll">>] = NoRequest]
  /\ UNCHANGED <<route, children, server>>

\* The button is rendered and enabled.
CanStart(b) ==
  /\ ~shells[b].shown.reachable
  /\ ~shells[b].starting /\ shells[b].shown.status # "starting"

\* Bound: there is a process for every POST that may spawn one.
Room == Cardinality({q \in Slots : requests[q].method = "POST"}) < Cardinality({c \in Children : Free(c)})

HandleStart(b) ==
  /\ CanStart(b) /\ Room
  /\ shells' = [shells EXCEPT ![b].starting = TRUE, ![b].tries = 0]
  /\ requests' = [requests EXCEPT ![<<b, "start">>] = Sent("POST")]
  /\ UNCHANGED <<route, children, server, failures>>

StartPoll(b) ==
  /\ shells[b].starting /\ Quiet(<<b, "start">>)
  /\ shells' = [shells EXCEPT ![b].tries = @ + 1]
  /\ requests' = [requests EXCEPT ![<<b, "start">>] = Sent("GET")]
  /\ UNCHANGED <<route, children, server, failures>>

\* Mutant of StartAnswered: polls until the server is reachable.
StartAnsweredInsists(b) ==
  LET q == <<b, "start">>
      more == requests[q].method = "POST" \/ ~requests[q].answer.reachable
  IN
  /\ requests[q].pc = "answered"
  /\ shells' = [shells EXCEPT ![b].shown = requests[q].answer, ![b].starting = more, ![b].tries = 0]
  /\ requests' = [requests EXCEPT ![q] = NoRequest]
  /\ UNCHANGED <<route, children, server, failures>>

\* The loop of polls ends when one finds the server or the last one has been made.
StartAnswered(b) ==
  LET q == <<b, "start">>
      more == \/ requests[q].method = "POST"
              \/ ~requests[q].answer.reachable /\ shells[b].tries < Tries
  IN
  /\ requests[q].pc = "answered"
  /\ shells' = [shells EXCEPT ![b].shown = requests[q].answer, ![b].starting = more,
                              ![b].tries = IF more THEN @ ELSE 0]
  /\ requests' = [requests EXCEPT ![q] = NoRequest]
  /\ UNCHANGED <<route, children, server, failures>>

\* POST fails, or a request is lost on its way: the browser sees an error, but the
\* handler of a lost POST goes on.
StartFails(b) ==
  LET q == <<b, "start">>
      lost == IF InPOST(q, "probed") \/ InPOST(q, "waiting") \/ InPOST(q, "waited")
              THEN requests[q] ELSE NoRequest
  IN
  /\ \/ /\ requests[q].pc = "failed"
        /\ requests' = [requests EXCEPT ![q] = NoRequest]
        /\ UNCHANGED failures
     \/ /\ ~Quiet(q) /\ Quiet(<<b, "lost">>) /\ Fail
        /\ requests' = [requests EXCEPT ![q] = NoRequest, ![<<b, "lost">>] = lost]
  /\ shells' = [shells EXCEPT ![b].shown.status = "error", ![b].starting = FALSE, ![b].tries = 0]
  /\ UNCHANGED <<route, children, server>>
-----------------------------------------------------------------------------
Events(c) == Compiled(c) \/ OnData(c) \/ OnExit(c) \/ Bind(c)
Handler(q) == GET(q) \/ AlreadyRunning(q) \/ StartingUp(q) \/ Spawn(q) \/ ProbeAgain(q) \/ POST(q)
Browser(b) == PollStatus(b) \/ Polled(b)
StartLoop(b) == StartPoll(b) \/ StartAnswered(b) \/ StartFails(b)

Next ==
  \/ \E c \in Children : Events(c) \/ Die(c)
  \/ \E q \in Slots : Handler(q) \/ SpawnThrows(q)
  \/ \E b \in Shells : Browser(b) \/ PollFails(b) \/ HandleStart(b) \/ StartLoop(b)

Spec == Init /\ [][Next]_vars

\* A process goes on, events are delivered, probes end within 2 s, handlers continue,
\* timers fire.  Nobody has to click, and nothing has to fail.
Fairness ==
  /\ \A c \in Children : WF_vars(Compiled(c)) /\ WF_vars(OnData(c))
                          /\ WF_vars(OnExit(c)) /\ WF_vars(Bind(c))
  /\ \A q \in Slots : WF_vars(Handler(q))
  /\ \A b \in Shells : WF_vars(PollStatus(b)) /\ WF_vars(Polled(b)) /\ WF_vars(StartLoop(b))

FairSpec == Spec /\ Fairness
-----------------------------------------------------------------------------
(***************************************************************************)
(* Properties.                                                             *)
(***************************************************************************)
\* dashboard-shell.tsx disables the button while the status is "starting": that status
\* must never outlive the process whose events will change it, although handlers of a
\* former child, probes and other starts interleave.
StartingHasProcess ==
  route.status = "starting" =>
    route.process # None /\ children[route.process].state # "none"

\* When a server stays up, every browser ends up showing it, whatever
\* answers to earlier polls and events of other children come late.
ShowsRunning ==
  \A b \in Shells :
    <>[](server # None) => <>[](shells[b].shown = Answer("running", TRUE))

\* When no process is left, every browser can start one again and again: neither a click
\* whose requests failed nor a status that came late disables the button for ever.
StartableAgain ==
  \A b \in Shells : <>[](\A c \in Children : ~Alive(c)) => []<>CanStart(b)
=============================================================================
