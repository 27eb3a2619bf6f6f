---------------------------- MODULE DashboardProofs ----------------------------
(***************************************************************************)
(* Proofs about useSSE, for any number of commands, streams and fetches,   *)
(* any capacity of a channel and any fetches that fail: the panel never    *)
(* stays without a stream and never holds two.                             *)
(***************************************************************************)
EXTENDS Dashboard, TLAPS

Snapshots == Nat \cup {None}
StreamStates == {"free", "requested", "subscribed", "open", "closed"}

\* What the hook and the streams are made of; of the panel only its interval matters, and
\* of an event only that it is one.
HookType ==
  [source : Streams \cup {None}, connected : BOOLEAN, retries : Nat, timer : BOOLEAN,
   sawRetries : Snapshots, sawConnected : BOOLEAN \cup {None}]

FetchType == [pc : {"idle", "sent", "answered"}, state : Snapshots]

DashboardType ==
  /\ vfs \in Nat
  /\ commands \in [Commands -> [pc : {"idle", "changed", "read", "published", "done"},
                                state : Snapshots]]
  /\ streams \in [Streams -> [state : StreamStates, queue : Seq(Snapshots)]]
  /\ hook \in HookType
  /\ panel \in [shown : Snapshots, loading : BOOLEAN, polling : BOOLEAN,
                fetches : [Fetches -> FetchType]]

DashboardInv == DashboardType /\ NeverDeaf /\ OneStream
-----------------------------------------------------------------------------
(***************************************************************************)
(* Types.                                                                  *)
(***************************************************************************)

LEMMA InitType == Init => DashboardType
BY DashboardAssumption
   DEF Init, DashboardType, HookType, FetchType, Snapshots, StreamStates, Free, NoFetch

\* Publish keeps the channels in their type, whichever of them are full.
LEMMA DeliverType ==
  ASSUME DashboardType, NEW event \in Snapshots, Deliver(event)
  PROVE  streams' \in [Streams -> [state : StreamStates, queue : Seq(Snapshots)]]
<1>1. ASSUME NEW s \in Streams
      PROVE  streams'[s] \in [state : StreamStates, queue : Seq(Snapshots)]
  <2>1. streams[s] \in [state : StreamStates, queue : Seq(Snapshots)]
    BY DEF DashboardType
  <2>2. Append(streams[s].queue, event) \in Seq(Snapshots)
    BY <2>1
  <2> QED
    BY <2>1, <2>2 DEF Deliver
<1> QED
  BY <1>1 DEF Deliver

\* Closing the hook's stream and requesting another one.
LEMMA ReplacedType ==
  ASSUME DashboardType, NEW s
  PROVE  Replaced(s) \in [Streams -> [state : StreamStates, queue : Seq(Snapshots)]]
BY DEF Replaced, Requested, DashboardType, StreamStates

LEMMA CommandType ==
  ASSUME DashboardType, NEW c \in Commands,
         ChangeVFS(c) \/ ReadState(c) \/ Publish(c) \/ PublishResult(c)
  PROVE  DashboardType'
<1> USE DEF DashboardType, Snapshots
<1>1. CASE ChangeVFS(c)
  <2> DEFINE next == IF c \in Silent THEN "done" ELSE "changed"
  <2>1. next \in {"done", "changed"}
    OBVIOUS
  <2>2. /\ commands' = [commands EXCEPT ![c].pc = next]
        /\ vfs' = vfs + 1
        /\ UNCHANGED <<streams, hook, panel>>
    BY <1>1, Zenon DEF ChangeVFS
  <2> HIDE DEF next
  <2>3. commands' \in [Commands -> [pc : {"idle", "changed", "read", "published", "done"},
                                    state : Snapshots]]
    BY <2>1, <2>2
  <2>4. vfs' \in Nat
    BY <2>2
  <2> QED
    BY <2>2, <2>3, <2>4
<1>2. CASE ReadState(c)
  BY <1>2 DEF ReadState
<1>3. CASE Publish(c)
  <2>1. commands[c].state \in Snapshots
    BY DEF DashboardType
  <2>2. streams' \in [Streams -> [state : StreamStates, queue : Seq(Snapshots)]]
    BY <1>3, <2>1, DeliverType DEF Publish
  <2> QED
    BY <1>3, <2>2 DEF Publish
<1>4. CASE PublishResult(c)
  <2>1. streams' \in [Streams -> [state : StreamStates, queue : Seq(Snapshots)]]
    BY <1>4, DeliverType DEF PublishResult
  <2> QED
    BY <1>4, <2>1 DEF PublishResult
<1> QED
  BY <1>1, <1>2, <1>3, <1>4

LEMMA StreamType ==
  ASSUME DashboardType,
         \/ \E s \in Streams : Subscribe(s) \/ Unsubscribe(s)
         \/ OnOpen \/ OnEvent \/ OnError \/ Reconnect \/ RunEffects
  PROVE  DashboardType'
<1> USE DashboardAssumption
<1>1. ASSUME NEW s \in Streams, Subscribe(s) PROVE DashboardType'
  BY <1>1 DEF Subscribe, DashboardType, StreamStates
<1>2. ASSUME NEW s \in Streams, Unsubscribe(s) PROVE DashboardType'
  BY <1>2 DEF Unsubscribe, Free, DashboardType, StreamStates
<1>3. CASE OnOpen
  <2>1. streams' \in [Streams -> [state : StreamStates, queue : Seq(Snapshots)]]
    BY <1>3 DEF OnOpen, DashboardType, StreamStates
  <2>2. hook' \in HookType
    BY <1>3 DEF OnOpen, DashboardType, HookType
  <2>3. UNCHANGED <<vfs, commands, panel>>
    BY <1>3 DEF OnOpen
  <2> QED
    BY <2>1, <2>2, <2>3 DEF DashboardType
<1>4. CASE OnEvent
  <2> DEFINE queue == streams[hook.source].queue
  <2>1. hook.source \in Streams /\ queue \in Seq(Snapshots) /\ queue # <<>>
    BY <1>4 DEF OnEvent, DashboardType, HookType
  <2>2. Tail(queue) \in Seq(Snapshots) /\ Head(queue) \in Snapshots
    BY <2>1
  <2>3. streams' = [streams EXCEPT ![hook.source].queue = Tail(queue)]
    BY <1>4 DEF OnEvent
  <2>4. panel' = panel \/ panel' = [panel EXCEPT !.shown = Head(queue)]
    BY <1>4 DEF OnEvent
  <2>5. streams' \in [Streams -> [state : StreamStates, queue : Seq(Snapshots)]]
    <3> HIDE DEF queue
    <3> QED
      BY <2>1, <2>2, <2>3 DEF DashboardType
  <2>6. panel' \in [shown : Snapshots, loading : BOOLEAN, polling : BOOLEAN,
                    fetches : [Fetches -> FetchType]]
    <3> HIDE DEF queue
    <3> QED
      BY <2>2, <2>4 DEF DashboardType
  <2> QED
    BY <1>4, <2>5, <2>6 DEF OnEvent, DashboardType
<1>5. CASE OnError
  <2>1. hook' \in HookType
    BY <1>5 DEF OnError, OneMore, DashboardType, HookType
  <2>2. streams' \in [Streams -> [state : StreamStates, queue : Seq(Snapshots)]]
    BY <1>5, ReplacedType DEF OnError
  <2> QED
    BY <1>5, <2>1, <2>2 DEF OnError, DashboardType
<1>6. CASE Reconnect
  <2>1. PICK s \in Streams :
          /\ streams' = Replaced(s)
          /\ hook' = [hook EXCEPT !.source = s, !.timer = FALSE]
    BY <1>6 DEF Reconnect
  <2>2. hook' \in HookType
    BY <2>1 DEF DashboardType, HookType
  <2>3. streams' \in [Streams -> [state : StreamStates, queue : Seq(Snapshots)]]
    BY <2>1, ReplacedType
  <2> QED
    BY <1>6, <2>2, <2>3 DEF Reconnect, DashboardType
<1>7. CASE RunEffects
  <2>1. PICK s \in Streams, f \in Fetches :
          /\ IF ConnectChanged
             THEN /\ streams' = Replaced(s)
                  /\ hook' = [hook EXCEPT !.source = s, !.timer = FALSE,
                                          !.sawRetries = hook.retries,
                                          !.sawConnected = hook.connected]
             ELSE /\ UNCHANGED streams
                  /\ hook' = [hook EXCEPT !.sawConnected = hook.connected]
          /\ panel' = IF ConnectedChanged
                      THEN [panel EXCEPT !.fetches[f] = Sent, !.polling = ~hook.connected]
                      ELSE panel
    BY <1>7 DEF RunEffects
  <2>2. hook' \in HookType
    <3>1. hook.connected \in BOOLEAN \cup {None}
      BY Zenon DEF DashboardType, HookType
    <3> DEFINE seen == hook.connected
    <3> HIDE DEF seen
    <3>2. hook' = IF ConnectChanged
                  THEN [hook EXCEPT !.source = s, !.timer = FALSE,
                                    !.sawRetries = hook.retries, !.sawConnected = seen]
                  ELSE [hook EXCEPT !.sawConnected = seen]
      BY <2>1, Zenon DEF seen
    <3>3. seen \in BOOLEAN \cup {None}
      BY <3>1, Zenon DEF seen
    <3> QED
      BY <3>2, <3>3 DEF DashboardType, HookType, Snapshots
  <2>3. streams' \in [Streams -> [state : StreamStates, queue : Seq(Snapshots)]]
    BY <2>1, ReplacedType DEF DashboardType
  <2>4. panel' \in [shown : Snapshots, loading : BOOLEAN, polling : BOOLEAN,
                    fetches : [Fetches -> FetchType]]
    BY <2>1 DEF DashboardType, FetchType, Sent, Snapshots, HookType
  <2> QED
    BY <1>7, <2>2, <2>3, <2>4 DEF RunEffects, DashboardType
<1> QED
  BY <1>1, <1>2, <1>3, <1>4, <1>5, <1>6, <1>7

LEMMA FetchStepType ==
  ASSUME DashboardType, NEW f \in Fetches,
         Poll(f) \/ Refresh(f) \/ GetVFS(f) \/ Load(f) \/ LoadFails(f)
  PROVE  DashboardType' /\ panel'.polling = panel.polling
<1> USE DEF DashboardType, FetchType, Snapshots, Sent, NoFetch
<1>1. CASE Poll(f)
  BY <1>1 DEF Poll
<1>2. CASE Refresh(f)
  BY <1>2 DEF Refresh
<1>3. CASE GetVFS(f)
  BY <1>3 DEF GetVFS
<1>4. CASE Load(f)
  BY <1>4 DEF Load
<1>5. CASE LoadFails(f)
  BY <1>5 DEF LoadFails
<1> QED
  BY <1>1, <1>2, <1>3, <1>4, <1>5

\* Every step keeps the types.
LEMMA NextType == DashboardType /\ [Next]_vars => DashboardType'
<1> SUFFICES ASSUME DashboardType, [Next]_vars
             PROVE  DashboardType'
  OBVIOUS
<1>1. ASSUME NEW c \in Commands,
             ChangeVFS(c) \/ ReadState(c) \/ Publish(c) \/ PublishResult(c)
      PROVE  DashboardType'
  BY <1>1, CommandType
<1>2. ASSUME \/ \E s \in Streams : Subscribe(s) \/ Unsubscribe(s)
             \/ OnOpen \/ OnEvent \/ OnError \/ Reconnect \/ RunEffects
      PROVE  DashboardType'
  BY <1>2, StreamType
<1>3. ASSUME NEW f \in Fetches,
             Poll(f) \/ Refresh(f) \/ GetVFS(f) \/ Load(f) \/ LoadFails(f)
      PROVE  DashboardType'
  BY <1>3, FetchStepType
<1>4. CASE UNCHANGED vars
  BY <1>4 DEF vars, DashboardType
<1> QED
  BY <1>1, <1>2, <1>3, <1>4 DEF Next
-----------------------------------------------------------------------------
(***************************************************************************)
(* The two invariants.  Neither is inductive alone: that an effect leaves  *)
(* no timeout behind is what makes a timeout find no source, and a source  *)
(* that is always closed before another one is requested is what makes     *)
(* the error of the one stream the error of all.                           *)
(***************************************************************************)

LiveStates == {"requested", "subscribed", "open"}
Live(s) == streams[s].state \in LiveStates

\* connect closes the stream it replaces, so the one it asks for is the only live one.
LEMMA ReplacedIsAlone ==
  ASSUME DashboardInv, NEW s, NEW x \in Streams, Replaced(s)[x].state \in LiveStates
  PROVE  x = s
<1>1. x # hook.source
  BY DEF Replaced, LiveStates
<1>2. CASE x # s
  <2>1. streams[x].state \in LiveStates
    BY <1>1, <1>2 DEF Replaced
  <2> QED
    BY <2>1, <1>1 DEF DashboardInv, OneStream, LiveStates
<1> QED
  BY <1>2

\* A step that leaves the hook and the interval alone and makes no stream live.
LEMMA HookStands ==
  ASSUME DashboardInv, UNCHANGED hook, panel'.polling = panel.polling,
         \A s \in Streams : Live(s)' => Live(s)
  PROVE  NeverDeaf' /\ OneStream'
<1>1. NeverDeaf'
  BY DEF DashboardInv, NeverDeaf, ConnectChanged
<1>2. OneStream'
  BY DEF DashboardInv, OneStream, Live, LiveStates
<1> QED
  BY <1>1, <1>2

\* Publishing fills channels; the server's ends of the streams are its own.
LEMMA ServerKeepsStream ==
  ASSUME DashboardInv,
         \/ \E c \in Commands :
              ChangeVFS(c) \/ ReadState(c) \/ Publish(c) \/ PublishResult(c)
         \/ \E s \in Streams : Subscribe(s) \/ Unsubscribe(s)
         \/ OnEvent
         \/ \E f \in Fetches :
              Poll(f) \/ Refresh(f) \/ GetVFS(f) \/ Load(f) \/ LoadFails(f)
  PROVE  NeverDeaf' /\ OneStream'
<1> USE DEF Live, LiveStates
<1> DashboardType
  BY DEF DashboardInv
<1>1. ASSUME NEW event, Deliver(event), NEW x \in Streams
      PROVE  streams'[x].state = streams[x].state
  BY <1>1 DEF Deliver, DashboardType
<1>2. ASSUME NEW c \in Commands,
             ChangeVFS(c) \/ ReadState(c) \/ Publish(c) \/ PublishResult(c)
      PROVE  NeverDeaf' /\ OneStream'
  <2>1. UNCHANGED <<hook, panel>>
    BY <1>2 DEF ChangeVFS, ReadState, Publish, PublishResult
  <2>2. UNCHANGED streams \/ \E event : Deliver(event)
    BY <1>2 DEF ChangeVFS, ReadState, Publish, PublishResult
  <2>3. \A x \in Streams : Live(x)' => Live(x)
    BY <1>1, <2>2
  <2> QED
    BY <2>1, <2>3, HookStands
<1>3. ASSUME NEW s \in Streams, Subscribe(s) \/ Unsubscribe(s)
      PROVE  NeverDeaf' /\ OneStream'
  <2>1. UNCHANGED hook /\ panel'.polling = panel.polling
    BY <1>3 DEF Subscribe, Unsubscribe
  <2>2. CASE Subscribe(s)
    BY <2>1, <2>2, HookStands DEF Subscribe, DashboardType
  <2>3. CASE Unsubscribe(s)
    BY <2>1, <2>3, HookStands DEF Unsubscribe, Free, DashboardType
  <2> QED
    BY <1>3, <2>2, <2>3
<1>4. CASE OnEvent
  <2>1. UNCHANGED hook /\ panel'.polling = panel.polling
    BY <1>4 DEF OnEvent, DashboardType
  <2>2. \A x \in Streams : streams'[x].state = streams[x].state
    BY <1>4 DEF OnEvent, DashboardType
  <2> QED
    BY <2>1, <2>2, HookStands
<1>5. ASSUME NEW f \in Fetches,
             Poll(f) \/ Refresh(f) \/ GetVFS(f) \/ Load(f) \/ LoadFails(f)
      PROVE  NeverDeaf' /\ OneStream'
  <2>1. UNCHANGED <<hook, streams>>
    BY <1>5 DEF Poll, Refresh, GetVFS, Load, LoadFails
  <2>2. panel'.polling = panel.polling
    BY <1>5, FetchStepType
  <2> QED
    BY <2>1, <2>2, HookStands
<1> QED
  BY <1>2, <1>3, <1>4, <1>5

\* onopen and onerror: a timeout that is set finds no source.
LEMMA ConnectionKeepsStream ==
  ASSUME DashboardInv, OnOpen \/ OnError \/ Reconnect
  PROVE  NeverDeaf' /\ OneStream'
<1> DashboardType
  BY DEF DashboardInv
<1> USE DashboardAssumption DEF DashboardType, HookType
<1>1. CASE OnOpen
  <2>1. NeverDeaf'
    BY <1>1 DEF OnOpen, DashboardInv, NeverDeaf, ConnectChanged
  <2>2. OneStream'
    BY <1>1 DEF OnOpen, DashboardInv, OneStream
  <2> QED
    BY <2>1, <2>2
<1>2. CASE OnError
  <2>1. NeverDeaf'
    BY <1>2 DEF OnError, DashboardInv, NeverDeaf
  <2>2. \A x \in Streams : streams'[x].state \notin LiveStates
    BY <1>2, ReplacedIsAlone DEF OnError
  <2>3. OneStream'
    BY <1>2, <2>2 DEF OnError, OneStream, LiveStates
  <2> QED
    BY <2>1, <2>3
<1>3. CASE Reconnect
  <2>1. PICK s \in Streams :
          /\ streams' = Replaced(s)
          /\ hook' = [hook EXCEPT !.source = s, !.timer = FALSE]
          /\ UNCHANGED panel
    BY <1>3 DEF Reconnect
  <2>2. NeverDeaf'
    BY <2>1 DEF DashboardInv, NeverDeaf, ConnectChanged
  <2>3. OneStream'
    BY <2>1, ReplacedIsAlone DEF OneStream, LiveStates
  <2> QED
    BY <2>2, <2>3
<1> QED
  BY <1>1, <1>2, <1>3

\* The effects: the hook's opens a stream and cancels the timeout, the panel's brings the
\* interval into line with the connection.
LEMMA EffectsKeepStream ==
  ASSUME DashboardInv, RunEffects
  PROVE  NeverDeaf' /\ OneStream'
<1> DashboardType
  BY DEF DashboardInv
<1> USE DashboardAssumption
<1>1. PICK s \in Streams, f \in Fetches :
        /\ IF ConnectChanged
           THEN /\ streams' = Replaced(s)
                /\ hook' = [hook EXCEPT !.source = s, !.timer = FALSE,
                                        !.sawRetries = hook.retries,
                                        !.sawConnected = hook.connected]
           ELSE /\ UNCHANGED streams
                /\ hook' = [hook EXCEPT !.sawConnected = hook.connected]
        /\ panel' = IF ConnectedChanged
                    THEN [panel EXCEPT !.fetches[f] = Sent, !.polling = ~hook.connected]
                    ELSE panel
  BY DEF RunEffects
<1>2. /\ hook'.sawConnected = hook.connected
      /\ hook'.connected = hook.connected
      /\ hook'.retries = hook.retries
  BY <1>1, Zenon DEF DashboardType, HookType
<1>3. /\ ConnectChanged => hook'.source = s /\ hook'.timer = FALSE
      /\ ~ConnectChanged => /\ hook'.source = hook.source /\ hook'.timer = hook.timer
                            /\ hook'.sawRetries = hook.sawRetries
  BY <1>1, Zenon DEF DashboardType, HookType
<1>4. panel'.polling = ~hook.connected
  <2>1. CASE ConnectedChanged
    BY <1>1, <2>1, Zenon DEF DashboardType
  <2>2. CASE ~ConnectedChanged
    <3>1. hook.sawConnected = hook.connected /\ hook.connected # None
      BY <2>2, Zenon DEF ConnectedChanged, DashboardType, HookType, DashboardAssumption
    <3> QED
      BY <1>1, <2>2, <3>1, Zenon DEF DashboardInv, NeverDeaf
  <2> QED
    BY <2>1, <2>2
<1>5. hook'.source = None => hook'.timer \/ ConnectChanged'
  BY <1>2, <1>3 DEF DashboardInv, NeverDeaf, ConnectChanged
<1>6. NeverDeaf'
  <2>1. hook'.connected => hook'.source # None
    BY <1>2, <1>3 DEF DashboardInv, NeverDeaf
  <2>2. hook'.sawConnected # None => panel'.polling = ~hook'.sawConnected
    BY <1>2, <1>4, Zenon
  <2> QED
    BY <1>5, <2>1, <2>2, Zenon DEF NeverDeaf
<1>7. OneStream'
  <2>1. CASE ConnectChanged
    BY <1>1, <1>3, <2>1, ReplacedIsAlone DEF OneStream, LiveStates
  <2>2. CASE ~ConnectChanged
    BY <1>1, <1>3, <2>2 DEF DashboardInv, OneStream
  <2> QED
    BY <2>1, <2>2
<1> QED
  BY <1>6, <1>7

LEMMA InitDashboard == Init => DashboardInv
<1> SUFFICES ASSUME Init
             PROVE  NeverDeaf /\ OneStream
  BY InitType DEF DashboardInv
<1>1. NeverDeaf
  BY DashboardAssumption DEF Init, NeverDeaf, ConnectChanged
<1>2. OneStream
  BY DEF Init, OneStream, Free
<1> QED
  BY <1>1, <1>2

LEMMA DashboardStep == DashboardInv /\ [Next]_vars => DashboardInv'
<1> SUFFICES ASSUME DashboardInv, [Next]_vars
             PROVE  NeverDeaf' /\ OneStream'
  BY NextType DEF DashboardInv
<1>1. CASE Next
  BY <1>1, ServerKeepsStream, ConnectionKeepsStream, EffectsKeepStream DEF Next
<1>2. CASE UNCHANGED vars
  BY <1>2, HookStands DEF vars, Live
<1> QED
  BY <1>1, <1>2

LEMMA DashboardInvariant == Spec => []DashboardInv
BY InitDashboard, DashboardStep, PTL DEF Spec

\* However commands, streams, failures, timeouts and effects interleave, the hook has a
\* stream, or a timeout or an effect that will open one, and the panel polls whenever
\* the last effects saw no connection.
THEOREM PanelIsNeverDeaf == Spec => []NeverDeaf
<1>1. DashboardInv => NeverDeaf
  BY DEF DashboardInv
<1> QED
  BY <1>1, DashboardInvariant, PTL

\* Whichever of timeouts and effects run first, the browser never holds two streams.
THEOREM BrowserHoldsOneStream == Spec => []OneStream
<1>1. DashboardInv => OneStream
  BY DEF DashboardInv
<1> QED
  BY <1>1, DashboardInvariant, PTL
=============================================================================
