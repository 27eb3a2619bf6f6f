--------------------------------- MODULE Console ---------------------------------
(***************************************************************************)
(* The command console of the dashboard: the terminal panel, the route     *)
(* handler that passes its commands on, and the command handler of the MCP *)
(* server, for one agent whose proposals arrive from elsewhere.  The proxy *)
(* gives up after 15 s while the server goes on, connections break at any  *)
(* time, and changing the tab unmounts the panel but stops nothing.        *)
(***************************************************************************)
EXTENDS Naturals, Sequences, SequencesExt, Proxy

CONSTANTS
  Calls,         \* commands that can be under way
  Outages,       \* the outcomes other than "answered" a call can have
  MaxCommands    \* lines submitted to one terminal

ASSUME ConsoleAssumption ==
  /\ Outages \subseteq Outcomes \ {"answered"}
  /\ MaxCommands \in Nat

VARIABLES
  pending,   \* whether the agent has a proposal in the VFS
  calls,     \* every call: how far the server, and how far the route handler is
  terminal   \* TerminalPanel

consoleVars == <<pending, calls, terminal>>

\* Submitted lines by what handleSubmit makes of them; a line is invalid when its command
\* is unknown or its arguments are missing.
Changing == {"commit", "clear"}
Sendable == Changing \cup {"query"}
Lines == Sendable \cup {"help", "clear-screen", "invalid"}
Blank == ""

\* An answer: RunCommand's three kinds are success, a refusal with data, and an error.
NoCall == [line |-> Blank, server |-> "done", success |-> FALSE, did |-> FALSE,
           proxy |-> "closed", thrown |-> FALSE, mine |-> FALSE]

\* Nothing is kept of a call that is over on both sides.
Settled(call) ==
  IF call.proxy = "closed" /\ call.server \in {"done", "never"} THEN NoCall ELSE call

NewTerminal == [mounted |-> TRUE, input |-> Blank, running |-> FALSE,
                history |-> <<>>, cmdHistory |-> <<>>, cursor |-> 0]

ConsoleInit ==
  /\ pending = FALSE
  /\ calls = [c \in Calls |-> NoCall]
  /\ terminal = NewTerminal
-----------------------------------------------------------------------------
(***************************************************************************)
(* The terminal.  A disabled input gets no keys.                           *)
(***************************************************************************)
Listening == terminal.mounted /\ ~terminal.running

Type(line) ==
  /\ Listening
  /\ terminal' = [terminal EXCEPT !.input = line]
  /\ UNCHANGED <<pending, calls>>

\* from: who says so, did: whether the command has done its work by now.
Entry(line, success, from, did) ==
  [input |-> line, success |-> success, from |-> from, did |-> did]

\* The part of handleSubmit before its cases.
Taken == [terminal EXCEPT !.input = Blank, !.cursor = 0,
                          !.cmdHistory = Append(@, terminal.input)]

\* Mutant of Local: an invalid line leaves no entry.
LocalSilently(line) ==
  CASE line = "clear-screen" -> <<>>
    [] line = "help" -> Append(terminal.history, Entry(line, TRUE, "panel", FALSE))
    [] line = "invalid" -> terminal.history

\* The lines that send nothing.
Local(line) ==
  CASE line = "clear-screen" -> <<>>
    [] line \in {"help", "invalid"} ->
         Append(terminal.history, Entry(line, line = "help", "panel", FALSE))

Submittable == Listening /\ terminal.input # Blank /\ Len(terminal.cmdHistory) < MaxCommands

SubmitLocal ==
  /\ Submittable /\ terminal.input \notin Sendable
  /\ terminal' = [Taken EXCEPT !.history = Local(terminal.input)]
  /\ UNCHANGED <<pending, calls>>

\* sendMcpCommand: one slot per call still under way anywhere.
Over(c) == calls[c] = NoCall

SubmitCommand(c) ==
  /\ Submittable /\ terminal.input \in Sendable
  /\ Over(c)
  /\ terminal' = [Taken EXCEPT !.running = TRUE]
  /\ calls' = [calls EXCEPT ![c] = [NoCall EXCEPT !.line = terminal.input, !.server = "sent",
                                                  !.proxy = "waiting", !.mine = TRUE]]
  /\ UNCHANGED pending

\* Positions count from 1, and 0 stands for -1, no position.
Older(cursor) == CASE cursor = 0 -> Len(terminal.cmdHistory)
                   [] cursor = 1 -> 1
                   [] OTHER -> cursor - 1

ArrowUp ==
  /\ Listening /\ terminal.cmdHistory # <<>>
  /\ LET next == Older(terminal.cursor) IN
     terminal' = [terminal EXCEPT !.cursor = next, !.input = terminal.cmdHistory[next]]
  /\ UNCHANGED <<pending, calls>>

ArrowDown ==
  /\ Listening /\ terminal.cursor # 0
  /\ LET next == terminal.cursor + 1 IN
     terminal' = IF next > Len(terminal.cmdHistory)
                 THEN [terminal EXCEPT !.cursor = 0, !.input = Blank]
                 ELSE [terminal EXCEPT !.cursor = next, !.input = terminal.cmdHistory[next]]
  /\ UNCHANGED <<pending, calls>>

\* The other tab is chosen: the panel's state is gone, its calls are not.
Unmount ==
  /\ terminal.mounted
  /\ terminal' = [NewTerminal EXCEPT !.mounted = FALSE]
  /\ calls' = [c \in Calls |-> [calls[c] EXCEPT !.mine = FALSE]]
  /\ UNCHANGED pending

Mount ==
  /\ ~terminal.mounted
  /\ terminal' = NewTerminal
  /\ UNCHANGED <<pending, calls>>
-----------------------------------------------------------------------------
(***************************************************************************)
(* The MCP server.                                                         *)
(***************************************************************************)
Propose ==
  /\ pending' = TRUE
  /\ UNCHANGED <<calls, terminal>>

Responded(c, success, did) ==
  calls' = [calls EXCEPT ![c] = Settled([@ EXCEPT !.server = "done", !.success = success, !.did = did])]

\* Reads, and what fails at once.
cmdQuery(c) ==
  /\ calls[c].server = "sent" /\ calls[c].line = "query"
  /\ \E success \in BOOLEAN : Responded(c, success, FALSE)
  /\ UNCHANGED <<pending, terminal>>

cmdClearAgent(c) ==
  /\ calls[c].server = "sent" /\ calls[c].line = "clear"
  /\ pending' = FALSE
  /\ Responded(c, TRUE, TRUE)
  /\ UNCHANGED terminal

FilesForAgent(c) ==
  /\ calls[c].server = "sent" /\ calls[c].line = "commit"
  /\ IF ~pending THEN Responded(c, FALSE, FALSE)
     ELSE calls' = [calls EXCEPT ![c].server = "analysing"]
  /\ UNCHANGED <<pending, terminal>>

\* The analysis fails, or the policy blocks the commit.
Rejected(c) ==
  /\ calls[c].server = "analysing"
  /\ Responded(c, FALSE, FALSE)
  /\ UNCHANGED <<pending, terminal>>

Committed(c) ==
  /\ calls[c].server = "analysing"
  /\ pending' = FALSE
  /\ Responded(c, TRUE, TRUE)
  /\ UNCHANGED terminal

Server(c) == cmdQuery(c) \/ cmdClearAgent(c) \/ FilesForAgent(c) \/ Rejected(c) \/ Committed(c)
-----------------------------------------------------------------------------
(***************************************************************************)
(* The route handler and the way back.                                     *)
(***************************************************************************)

\* Which outcomes a call can have at this moment.
Possible(c) ==
  {o \in Outages \cup {"answered"} : calls[c].server = "done" \/ o \in {"silent", "refused"}}

\* A refused call may have been taken before the connection broke, or never.
proxyMcpPost(c) ==
  /\ calls[c].proxy = "waiting"
  /\ \E outcome \in Possible(c) :
       \E server \in {calls[c].server}
                       \cup (IF outcome = "refused" /\ calls[c].server = "sent" THEN {"never"} ELSE {}) :
         calls' = [calls EXCEPT ![c].proxy = "answered", ![c].server = server,
                                       ![c].thrown = Thrown(Relayed(outcome, 200))]
  /\ UNCHANGED <<pending, terminal>>

\* Mutant of Result: an answer without an error counts as success.
ResultOptimistic(c) ==
  IF calls[c].thrown
  THEN Entry(calls[c].line, calls[c].server # "never", "outage", calls[c].did)
  ELSE Entry(calls[c].line, calls[c].success, "server", calls[c].did)

\* The entry for what sendMcpCommand returns or throws.
Result(c) ==
  IF calls[c].thrown
  THEN Entry(calls[c].line, FALSE, "outage", calls[c].did)
  ELSE Entry(calls[c].line, calls[c].success, "server", calls[c].did)

\* Mutant of Finish: running is reset only when the call has succeeded.
FinishOnSuccess(c, entry) ==
  /\ terminal' = IF calls[c].mine
                 THEN [terminal EXCEPT !.history = Append(@, entry), !.running = ~entry.success]
                 ELSE terminal
  /\ calls' = [calls EXCEPT ![c] = Settled([@ EXCEPT !.proxy = "closed", !.mine = FALSE])]
  /\ UNCHANGED pending

\* An unmounted panel shows nothing of it.
Finish(c, entry) ==
  /\ terminal' = IF calls[c].mine
                 THEN [terminal EXCEPT !.history = Append(@, entry), !.running = FALSE]
                 ELSE terminal
  /\ calls' = [calls EXCEPT ![c] = Settled([@ EXCEPT !.proxy = "closed", !.mine = FALSE])]
  /\ UNCHANGED pending

Arrive(c) ==
  /\ calls[c].proxy = "answered"
  /\ Finish(c, Result(c))

\* The browser loses its connection to the route handler.
RequestFails(c) ==
  /\ calls[c].proxy \in {"waiting", "answered"} /\ Outages # {}
  /\ Finish(c, Entry(calls[c].line, FALSE, "outage", calls[c].did))
-----------------------------------------------------------------------------
ConsoleNext ==
  \/ \E line \in Lines : Type(line)
  \/ SubmitLocal
  \/ ArrowUp \/ ArrowDown
  \/ Unmount \/ Mount
  \/ Propose
  \/ \E c \in Calls : SubmitCommand(c) \/ Server(c) \/ proxyMcpPost(c) \/ Arrive(c) \/ RequestFails(c)

ConsoleSpec == ConsoleInit /\ [][ConsoleNext]_consoleVars

\* The abort timer of the route handler fires and its answers arrive; the server may
\* hang for ever, and nobody has to type.
ConsoleFairness == \A c \in Calls : WF_consoleVars(proxyMcpPost(c)) /\ WF_consoleVars(Arrive(c))

ConsoleFairSpec == ConsoleSpec /\ ConsoleFairness
-----------------------------------------------------------------------------
(***************************************************************************)
(* Properties.                                                             *)
(***************************************************************************)
\* What the terminal shows of a command that changes the VFS: an entry that is not red
\* means that the server did it, and a red one with the server's own answer means that it
\* did not.  Only the proxy's and the browser's errors leave it open.
EntriesTellTheTruth ==
  \A i \in DOMAIN terminal.history :
    LET e == terminal.history[i] IN
    e.input \in Changing =>
      /\ e.success => e.did
      /\ e.from = "server" /\ e.did => e.success

\* What the panel displays: the output, or a welcome, and a cursor while a command runs.
Screen == [welcome |-> terminal.history = <<>>, entries |-> terminal.history,
           running |-> terminal.running]

\* The output and the lines the arrows recall are two lists: after the last clear-screen
\* they hold the same lines in the same order, but for the one that is running.
OutputFollowsInput ==
  LET submitted == terminal.cmdHistory
      last == SelectLastInSeq(submitted, LAMBDA line : line = "clear-screen")
      since == SubSeq(submitted, last + 1, Len(submitted))
      shown == [i \in DOMAIN Screen.entries |-> Screen.entries[i].input]
  IN shown = IF Screen.running THEN Front(since) ELSE since

\* lib/mcp.ts aborts after 15 s: the input comes back, whatever the server does.
InputComesBack == terminal.running ~> ~terminal.running
=============================================================================
