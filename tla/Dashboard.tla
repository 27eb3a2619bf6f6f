-------------------------------- MODULE Dashboard --------------------------------
(***************************************************************************)
(* What the VFS panel of the dashboard shows.  Commands change the VFS,    *)
(* read it and publish what they read, under three different locks; the    *)
(* event bus copies an event into the bounded channel of every subscriber; *)
(* a stream carries them to the browser.  The panel shows the last thing   *)
(* that arrived: an event, or the answer to one of its own fetches, which  *)
(* it makes once per change of its connection state and, while it is not   *)
(* connected, at an interval.  useSSE keeps one stream open; React runs    *)
(* its effects some time after the state they depend on has changed.       *)
(*                                                                         *)
(* The VFS is abstracted to a version, the number of changes made to it.   *)
(***************************************************************************)
EXTENDS Naturals, Sequences, FiniteSets, SequencesExt

CONSTANTS
  Commands,   \* calls that change the VFS
  Silent,     \* those that come as MCP tools or over the git API: nothing is published
  Streams,    \* event streams that can exist at a time, closed ones included
  Capacity,   \* of a subscriber's channel
  Fetches,    \* fetches the panel can have in flight
  Failing,    \* those that may fail
  None

ASSUME DashboardAssumption ==
  /\ Silent \subseteq Commands
  /\ Failing \subseteq Fetches
  /\ Capacity \in Nat \ {0}
  /\ None \notin Streams \cup Nat \cup BOOLEAN

VARIABLES
  vfs,       \* the version of the VFS
  commands,  \* the running commands, with the state they read
  streams,   \* from the browser's EventSource to the bus's channel
  hook,      \* useSSE: its state, its refs, and the state its last effects saw
  panel      \* VfsPanel: what it shows, its interval and its fetches

vars == <<vfs, commands, streams, hook, panel>>

Versions == 0..Cardinality(Commands)

\* An event is the state it carries, or None: every event but vfs_update is ignored by
\* the panel, and still takes its place in the channel.
Events == Versions \cup {None}

NoFetch == [pc |-> "idle", state |-> None]
Sent == [pc |-> "sent", state |-> None]

Free == [state |-> "free", queue |-> <<>>]
Requested == [state |-> "requested", queue |-> <<>>]

Init ==
  /\ vfs = 0
  /\ commands = [c \in Commands |-> [pc |-> "idle", state |-> None]]
  /\ streams = [s \in Streams |-> Free]
  /\ hook = [source |-> None, connected |-> FALSE, retries |-> 0, timer |-> FALSE,
             sawRetries |-> None, sawConnected |-> None]
  /\ panel = [shown |-> None, loading |-> TRUE, polling |-> FALSE,
              fetches |-> [f \in Fetches |-> NoFetch]]
-----------------------------------------------------------------------------
(***************************************************************************)
(* The MCP server: commands and the event bus.                             *)
(***************************************************************************)

\* vfs.Propose, Clear or ClearAll on behalf of some caller.
ChangeVFS(c) ==
  /\ commands[c].pc = "idle"
  /\ vfs' = vfs + 1
  /\ commands' = [commands EXCEPT ![c].pc = IF c \in Silent THEN "done" ELSE "changed"]
  /\ UNCHANGED <<streams, hook, panel>>

\* The argument of Publish is evaluated before Publish takes its lock.
ReadState(c) ==
  /\ commands[c].pc = "changed"
  /\ commands' = [commands EXCEPT ![c] = [pc |-> "read", state |-> vfs]]
  /\ UNCHANGED <<vfs, streams, hook, panel>>

Subscribed(s) == streams[s].state \in {"subscribed", "open"}

\* bus.Publish: a full channel drops the event.
Deliver(event) ==
  streams' = [s \in Streams |->
                IF Subscribed(s) /\ Len(streams[s].queue) < Capacity
                THEN [streams[s] EXCEPT !.queue = Append(@, event)]
                ELSE streams[s]]

Publish(c) ==
  /\ commands[c].pc = "read"
  /\ Deliver(commands[c].state)
  /\ commands' = [commands EXCEPT ![c] = [pc |-> "published", state |-> None]]
  /\ UNCHANGED <<vfs, hook, panel>>

PublishResult(c) ==
  /\ commands[c].pc = "published"
  /\ Deliver(None)
  /\ commands' = [commands EXCEPT ![c].pc = "done"]
  /\ UNCHANGED <<vfs, hook, panel>>

\* The handler of a stream subscribes before it writes the response's head.
Subscribe(s) ==
  /\ streams[s].state = "requested"
  /\ streams' = [streams EXCEPT ![s].state = "subscribed"]
  /\ UNCHANGED <<vfs, commands, hook, panel>>

\* The handler notices that its client is gone, and unsubscribes.
Unsubscribe(s) ==
  /\ streams[s].state = "closed"
  /\ streams' = [streams EXCEPT ![s] = Free]
  /\ UNCHANGED <<vfs, commands, hook, panel>>
-----------------------------------------------------------------------------
(***************************************************************************)
(* useSSE.                                                                 *)
(***************************************************************************)

\* Streams when the hook's current source is closed and stream s requested, if any.
Replaced(s) ==
  [x \in Streams |-> IF x = hook.source THEN [state |-> "closed", queue |-> <<>>]
                     ELSE IF x = s THEN Requested ELSE streams[x]]

FreeStream(s) == s \in Streams /\ streams[s].state = "free"

OnOpen ==
  /\ hook.source # None /\ streams[hook.source].state = "subscribed"
  /\ streams' = [streams EXCEPT ![hook.source].state = "open"]
  /\ hook' = [hook EXCEPT !.connected = TRUE, !.retries = 0]
  /\ UNCHANGED <<vfs, commands, panel>>

\* The panel's handleSSE shows the state of a vfs_update.
OnEvent ==
  /\ hook.source # None /\ streams[hook.source].state = "open"
  /\ LET queue == streams[hook.source].queue IN
     /\ queue # <<>>
     /\ streams' = [streams EXCEPT ![hook.source].queue = Tail(queue)]
     /\ panel' = IF Head(queue) = None THEN panel
                 ELSE [panel EXCEPT !.shown = Head(queue)]
  /\ UNCHANGED <<vfs, commands, hook>>

\* Only whether retries is zero and whether it changed matters: 1 and 2 alternate.
OneMore(retries) == IF retries = 1 THEN 2 ELSE 1

\* Mutant of OnError: nothing is scheduled and no state depends on the failure.
OnErrorGivesUp ==
  /\ hook.source # None
  /\ streams' = Replaced(None)
  /\ hook' = [hook EXCEPT !.source = None, !.connected = FALSE]
  /\ UNCHANGED <<vfs, commands, panel>>

\* The stream ends, or never opens: what is in its channel is lost.
OnError ==
  /\ hook.source # None
  /\ streams' = Replaced(None)
  /\ hook' = [hook EXCEPT !.source = None, !.connected = FALSE, !.timer = TRUE,
                          !.retries = OneMore(@)]
  /\ UNCHANGED <<vfs, commands, panel>>

\* The timeout set by onerror calls connect.
Reconnect ==
  /\ hook.timer
  /\ \E s \in Streams :
       /\ FreeStream(s)
       /\ streams' = Replaced(s)
       /\ hook' = [hook EXCEPT !.source = s, !.timer = FALSE]
  /\ UNCHANGED <<vfs, commands, panel>>

\* connect is a new function whenever retries has changed, so the effect that depends
\* on it is cleaned up and run again: source closed, timeout cancelled, connect called.
ConnectChanged == hook.sawRetries # hook.retries
ConnectedChanged == hook.sawConnected # hook.connected

Idle(f) == f \in Fetches /\ panel.fetches[f] = NoFetch

\* Mutant of RunEffects: the panel's interval is never started.
RunEffectsOnce ==
  /\ ConnectChanged \/ ConnectedChanged
  /\ \E s \in Streams, f \in Fetches :
       /\ FreeStream(s) /\ Idle(f)
       /\ IF ConnectChanged
          THEN /\ streams' = Replaced(s)
               /\ hook' = [hook EXCEPT !.source = s, !.timer = FALSE,
                                       !.sawRetries = hook.retries,
                                       !.sawConnected = hook.connected]
          ELSE /\ UNCHANGED streams
               /\ hook' = [hook EXCEPT !.sawConnected = hook.connected]
       /\ panel' = IF ConnectedChanged THEN [panel EXCEPT !.fetches[f] = Sent] ELSE panel
  /\ UNCHANGED <<vfs, commands>>

\* Mutant of RunEffects: the cleanup does not cancel the timeout.
RunEffectsKeepTimer ==
  /\ ConnectChanged \/ ConnectedChanged
  /\ \E s \in Streams, f \in Fetches :
       /\ FreeStream(s) /\ Idle(f)
       /\ IF ConnectChanged
          THEN /\ streams' = Replaced(s)
               /\ hook' = [hook EXCEPT !.source = s, !.sawRetries = hook.retries,
                                       !.sawConnected = hook.connected]
          ELSE /\ UNCHANGED streams
               /\ hook' = [hook EXCEPT !.sawConnected = hook.connected]
       /\ panel' = IF ConnectedChanged
                   THEN [panel EXCEPT !.fetches[f] = Sent, !.polling = ~hook.connected]
                   ELSE panel
  /\ UNCHANGED <<vfs, commands>>

\* After a render: the hook's effect if connect has changed, then the panel's if
\* connected has, which loads once and polls as long as there is no connection.
RunEffects ==
  /\ ConnectChanged \/ ConnectedChanged
  /\ \E s \in Streams, f \in Fetches :
       /\ FreeStream(s) /\ Idle(f)
       /\ IF ConnectChanged
          THEN /\ streams' = Replaced(s)
               /\ hook' = [hook EXCEPT !.source = s, !.timer = FALSE,
                                       !.sawRetries = hook.retries,
                                       !.sawConnected = hook.connected]
          ELSE /\ UNCHANGED streams
               /\ hook' = [hook EXCEPT !.sawConnected = hook.connected]
       /\ panel' = IF ConnectedChanged
                   THEN [panel EXCEPT !.fetches[f] = Sent, !.polling = ~hook.connected]
                   ELSE panel
  /\ UNCHANGED <<vfs, commands>>
-----------------------------------------------------------------------------
(***************************************************************************)
(* The panel's fetches.                                                    *)
(***************************************************************************)

\* The interval fires.
Poll(f) ==
  /\ panel.polling /\ Idle(f)
  /\ ~ConnectedChanged
  /\ panel' = [panel EXCEPT !.fetches[f] = Sent]
  /\ UNCHANGED <<vfs, commands, streams, hook>>

\* The server answers a fetch with the state of this moment.
GetVFS(f) ==
  /\ panel.fetches[f].pc = "sent"
  /\ panel' = [panel EXCEPT !.fetches[f] = [pc |-> "answered", state |-> vfs]]
  /\ UNCHANGED <<vfs, commands, streams, hook>>

\* The answer arrives, whatever has arrived since it was sent.
Load(f) ==
  /\ panel.fetches[f].pc = "answered"
  /\ panel' = [panel EXCEPT !.shown = panel.fetches[f].state, !.loading = FALSE,
                            !.fetches[f] = NoFetch]
  /\ UNCHANGED <<vfs, commands, streams, hook>>

LoadFails(f) ==
  /\ f \in Failing /\ ~Idle(f)
  /\ panel' = [panel EXCEPT !.loading = FALSE, !.fetches[f] = NoFetch]
  /\ UNCHANGED <<vfs, commands, streams, hook>>

\* The Refresh button.
Refresh(f) ==
  /\ Idle(f) /\ hook.sawConnected # None
  /\ panel' = [panel EXCEPT !.fetches[f] = Sent]
  /\ UNCHANGED <<vfs, commands, streams, hook>>

\* What the panel displays.  The message of a failed fetch, which goes with the next
\* answer or event, is left out.
Screen ==
  [status |-> IF panel.loading THEN "LOADING" ELSE IF hook.connected THEN "SSE LIVE"
              ELSE "POLLING",
   cards |-> panel.shown,
   seedOffered |-> panel.shown = 0,
   clearOffered |-> panel.shown \notin {None, 0}]
-----------------------------------------------------------------------------
Next ==
  \/ \E c \in Commands : ChangeVFS(c) \/ ReadState(c) \/ Publish(c) \/ PublishResult(c)
  \/ \E s \in Streams : Subscribe(s) \/ Unsubscribe(s)
  \/ OnOpen
  \/ OnEvent
  \/ OnError
  \/ Reconnect
  \/ RunEffects
  \/ \E f \in Fetches : Poll(f) \/ Refresh(f) \/ GetVFS(f) \/ Load(f) \/ LoadFails(f)

Spec == Init /\ [][Next]_vars

\* Handlers run to their end, React runs its effects, events of an open stream are
\* dispatched, timers fire.  A fetch may fail, but not for ever when it is repeated.
Fairness ==
  /\ \A c \in Commands : WF_vars(ReadState(c) \/ Publish(c) \/ PublishResult(c))
  /\ \A s \in Streams : WF_vars(Subscribe(s)) /\ WF_vars(Unsubscribe(s))
  /\ WF_vars(OnOpen) /\ WF_vars(OnEvent) /\ WF_vars(Reconnect) /\ SF_vars(RunEffects)
  /\ \A f \in Fetches : SF_vars(Poll(f)) /\ SF_vars(GetVFS(f)) /\ SF_vars(Load(f))

FairSpec == Spec /\ Fairness
-----------------------------------------------------------------------------
(***************************************************************************)
(* Properties.                                                             *)
(***************************************************************************)

\* use-sse.ts "Auto-reconnects on disconnect": the panel always has a stream, a
\* timeout that will open one, or an effect to run that will; it believes itself
\* connected only with a stream, and polls whenever its last effects saw it was not.
NeverDeaf ==
  /\ hook.source = None => hook.timer \/ ConnectChanged
  /\ hook.connected => hook.source # None
  /\ hook.sawConnected # None => panel.polling = ~hook.sawConnected

\* Timeouts and effects both open streams: the browser never holds two, and no timeout is
\* left behind that would close a stream an effect has opened.
OneStream ==
  /\ \A s \in Streams :
       streams[s].state \in {"requested", "subscribed", "open"} => s = hook.source
  /\ hook.timer => hook.source = None

\* use-sse.ts "Falls back gracefully if the SSE endpoint is unavailable": a panel that
\* stays disconnected ends up showing the VFS, whichever events and fetches are lost
\* and in whatever order the answers to its overlapping polls arrive.
FallbackConverges == <>[](~hook.connected) => <>[](panel.shown = vfs)
=============================================================================
