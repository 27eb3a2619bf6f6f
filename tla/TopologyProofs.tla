----------------------------- MODULE TopologyProofs -----------------------------
(***************************************************************************)
(* Proofs about the topology panel, for any agents, calls, requests in     *)
(* flight and faults and any capacity of a channel: the panel asks again   *)
(* after every change that an event tells of.                              *)
(***************************************************************************)
EXTENDS Topology, TLAPS, FiniteSetTheorems

Statuses == {"unknown", "active", "idle"}
VFSType == [Agents -> 0..MaxFiles]
RegistryType == [Agents -> Statuses]
LoadType == [pc : {"idle", "mcp", "agents", "files", "answered"},
             mcp : BOOLEAN, agents : RegistryType, files : VFSType]
PanelType == [shown : Views \cup {None}, error : BOOLEAN, polling : BOOLEAN,
              sawConnected : BOOLEAN \cup {None}, loads : [Loads -> LoadType]]
StreamType == [subscribed : BOOLEAN, connected : BOOLEAN, queue : Seq(Events)]

TopologyType ==
  /\ up \in BOOLEAN /\ vfs \in VFSType /\ registry \in RegistryType
  /\ stream \in StreamType /\ panel \in PanelType
  /\ untold \in BOOLEAN

\* An event makes the panel ask again.
Telling(step) == step.op = "publish" /\ step.arg # "command_result"

\* What a call has still to do tells of everything it has still to change, or of nothing.
Announced(rest) ==
  \A i \in DOMAIN rest :
    rest[i].op # "publish" => \E j \in DOMAIN rest : j > i /\ Telling(rest[j])

CallOK(rest) == rest \in Seq(Steps) /\ (Silent(rest) \/ Announced(rest))

\* A change of which the panel is still to be told.
WillTell(rest) == rest # None /\ \E i \in DOMAIN rest : Telling(rest[i])
Tells(queue) == \E i \in DOMAIN queue : queue[i] # "command_result"
Pending == (\E c \in Calls : WillTell(calls[c])) \/ Tells(stream.queue)

\* What a request has returned so far is as it is.
HasRead(load) ==
  /\ load.pc # "mcp" => load.mcp = up
  /\ load.pc \in {"files", "answered"} => load.agents = registry
  /\ load.pc = "answered" => load.files = vfs

Fresh ==
  /\ newest \in Loads => HasRead(panel.loads[newest])
  /\ newest \notin Loads \cup {None} => newest = Current

\* What the calls have still to do.
CallsOK ==
  /\ calls \in [Calls -> Seq(Steps) \cup {None}]
  /\ \A c \in Calls : calls[c] = None \/ CallOK(calls[c])

\* Of a request that is on its way, or of what it returned.
NewestOK ==
  /\ newest \in Loads => ~Idle(newest)
  /\ ~untold /\ ~Pending => Fresh

TopologyInv == TopologyType /\ CallsOK /\ NewestOK
-----------------------------------------------------------------------------
(***************************************************************************)
(* Programs.                                                               *)
(***************************************************************************)

\* Events are steps.
LEMMA PublishIsStep ==
  \A type \in Events : Publish(type) \in Steps /\ Publish(type).op = "publish" /\ Publish(type).arg = type
BY DEF Publish, Step, Steps

LEMMA ChangeIsStep ==
  \A op \in Changes, a \in Agents \cup {None} : Step(op, a) \in Steps /\ Step(op, a).op = op
BY DEF Step, Steps

\* Whatever comes first, an event that is followed by nothing but events tells of it.
LEMMA AnnouncedByLast ==
  ASSUME NEW rest \in Seq(Steps), NEW j \in DOMAIN rest, Telling(rest[j]),
         \A i \in DOMAIN rest : i > j => rest[i].op = "publish"
  PROVE  CallOK(rest)
<1>1. DOMAIN rest = 1..Len(rest) /\ Len(rest) \in Nat
  OBVIOUS
<1>2. ASSUME NEW i \in DOMAIN rest, rest[i].op # "publish" PROVE j > i
  BY <1>1, <1>2 DEF Telling
<1> QED
  BY <1>2 DEF CallOK, Announced

\* The agents of the demo seed in the order of their keys.
LEMMA AgentsInOrder ==
  /\ SetToSeq(Agents) \in Seq(Agents) /\ Len(SetToSeq(Agents)) \in Nat
<1>1. IsFiniteSet(Agents)
  BY TopologyAssumption
<1>2. Cardinality(Agents) \in Nat
  BY <1>1, FS_CardinalityType
<1>a. PICK n \in Nat : ExistsBijection(1..n, Agents)
  BY <1>1, FS_NatBijection
<1>b. Cardinality(Agents) = n
  BY <1>a, FS_CountingElements
<1>3. PICK f : f \in Bijection(1..Cardinality(Agents), Agents)
  BY <1>a, <1>b DEF ExistsBijection
<1>4. f \in [1..Cardinality(Agents) -> Agents] /\ IsInjective(f)
  BY <1>3 DEF Bijection, Injection, IsInjective, Surjection
<1>5. SetToSeq(Agents) \in [1..Cardinality(Agents) -> Agents]
  BY <1>4 DEF SetToSeq
<1> QED
  BY <1>2, <1>5

LEMMA Concatenation ==
  ASSUME NEW S, NEW s \in Seq(S), NEW t \in Seq(S)
  PROVE  /\ s \o t \in Seq(S) /\ Len(s \o t) = Len(s) + Len(t)
         /\ \A i \in 1..Len(s) : (s \o t)[i] = s[i]
         /\ \A i \in 1..Len(t) : (s \o t)[Len(s) + i] = t[i]
OBVIOUS

\* The demo seed: the agents' changes, the state, and an event for each agent.
LEMMA SeedAnnounces == CallOK(SeedDemo)
<1> DEFINE agents == SetToSeq(Agents)
           n == Len(agents)
           first == [i \in 1..(2 * n) |->
                       Step(IF i % 2 = 1 THEN "register" ELSE "propose", agents[(i + 1) \div 2])]
           last == [i \in 1..n |-> Publish("agent_registered")]
<1>1. agents \in Seq(Agents) /\ n \in Nat
  BY AgentsInOrder
<1> HIDE DEF n, agents, first
<1>2. first \in Seq(Steps) /\ Len(first) = 2 * n
  <2>1. ASSUME NEW i \in 1..(2 * n)
        PROVE  Step(IF i % 2 = 1 THEN "register" ELSE "propose", agents[(i + 1) \div 2]) \in Steps
    <3>1. (i + 1) \div 2 \in 1..n
      <4>1. i \in Int /\ 1 <= i /\ i <= 2 * n
        BY <1>1
      <4> QED
        BY <1>1, <4>1
    <3>2. agents[(i + 1) \div 2] \in Agents
      BY <1>1, <3>1 DEF n
    <3> QED
      BY <3>2, ChangeIsStep DEF Changes
  <2>2. 2 * n \in Nat
    BY <1>1
  <2> QED
    BY <2>1, <2>2 DEF first
<1>3. last \in Seq(Steps) /\ Len(last) = n /\ \A i \in 1..n : last[i].op = "publish"
  BY <1>1, PublishIsStep DEF Events
<1>4. /\ VFSUpdate \in Steps /\ VFSUpdate.op = "publish" /\ VFSUpdate.arg = "vfs_update"
      /\ Result \in Steps /\ Result.op = "publish"
  BY PublishIsStep DEF VFSUpdate, Result, Events
<1> HIDE DEF first, last
<1> DEFINE seed == first \o <<VFSUpdate>> \o last \o <<Result>>
<1>5. /\ seed \in Seq(Steps) /\ Len(seed) = 2 * n + n + 2
      /\ seed[2 * n + 1] = VFSUpdate /\ seed[2 * n + n + 2] = Result
      /\ \A i \in 1..n : seed[2 * n + 1 + i] = last[i]
  <2> DEFINE front == first \o <<VFSUpdate>>
             most == front \o last
  <2>1. /\ front \in Seq(Steps) /\ Len(front) = 2 * n + 1 /\ front[2 * n + 1] = VFSUpdate
    BY <1>1, <1>2, <1>4
  <2> HIDE DEF front
  <2>2. /\ most \in Seq(Steps) /\ Len(most) = 2 * n + 1 + n /\ most[2 * n + 1] = VFSUpdate
        /\ \A i \in 1..n : most[2 * n + 1 + i] = last[i]
    <3>1. /\ most \in Seq(Steps) /\ Len(most) = Len(front) + Len(last)
          /\ \A i \in 1..Len(front) : most[i] = front[i]
          /\ \A i \in 1..Len(last) : most[Len(front) + i] = last[i]
      <4>1. front \in Seq(Steps) /\ last \in Seq(Steps)
        BY <1>3, <2>1
      <4> QED
        BY <4>1, Concatenation
    <3>2. 2 * n + 1 \in 1..Len(front)
      BY <1>1, <2>1
    <3> HIDE DEF most
    <3> QED
      BY <1>3, <2>1, <3>1, <3>2
  <2>3. seed = most \o <<Result>>
    BY DEF front
  <2> HIDE DEF seed, most
  <2> DEFINE end == <<Result>>
  <2>4. end \in Seq(Steps) /\ Len(end) = 1 /\ end[1] = Result
    BY <1>4
  <2>5. seed = most \o end
    BY <2>3
  <2> HIDE DEF end
  <2>6. /\ seed \in Seq(Steps) /\ Len(seed) = Len(most) + Len(end)
        /\ \A i \in 1..Len(most) : seed[i] = most[i]
        /\ \A i \in 1..Len(end) : seed[Len(most) + i] = end[i]
    <3>1. most \in Seq(Steps) /\ end \in Seq(Steps)
      BY <2>2, <2>4
    <3>2. /\ most \o end \in Seq(Steps) /\ Len(most \o end) = Len(most) + Len(end)
          /\ \A i \in 1..Len(most) : (most \o end)[i] = most[i]
          /\ \A i \in 1..Len(end) : (most \o end)[Len(most) + i] = end[i]
      BY <3>1, Concatenation
    <3> QED
      BY ONLY <2>5, <3>2
  <2>7. Len(most) = 2 * n + 1 + n /\ Len(end) = 1 /\ 2 * n + 1 + n + 1 = 2 * n + n + 2
    BY <1>1, <2>2, <2>4
  <2>8. Len(seed) = 2 * n + n + 2 /\ seed[2 * n + n + 2] = Result
    <3>1. Len(seed) = 2 * n + n + 2
      BY <1>1, <2>6, <2>7
    <3>2. seed[Len(most) + 1] = end[1]
      BY <2>6, <2>7
    <3>3. Len(most) + 1 = 2 * n + n + 2
      BY <1>1, <2>7
    <3> QED
      BY <2>4, <3>1, <3>2, <3>3
  <2>9. 2 * n + 1 \in 1..Len(most) /\ \A i \in 1..n : 2 * n + 1 + i \in 1..Len(most)
    BY <1>1, <2>7
  <2> QED
    BY <2>2, <2>6, <2>8, <2>9
<1> HIDE DEF seed
<1>6. \A i \in DOMAIN seed : i > 2 * n + 1 => seed[i].op = "publish"
  <2> SUFFICES ASSUME NEW i \in DOMAIN seed, i > 2 * n + 1 PROVE seed[i].op = "publish"
    OBVIOUS
  <2>1. CASE i = 2 * n + n + 2
    BY <1>4, <1>5, <2>1
  <2>2. CASE i # 2 * n + n + 2
    <3> DEFINE k == i - (2 * n + 1)
    <3>1. k \in 1..n /\ i = 2 * n + 1 + k
      BY <1>1, <1>5, <2>2
    <3> HIDE DEF k
    <3> QED
      BY <1>3, <1>5, <3>1
  <2> QED
    BY <2>1, <2>2
<1>7. 2 * n + 1 \in DOMAIN seed /\ Telling(seed[2 * n + 1])
  BY <1>1, <1>4, <1>5 DEF Telling
<1>8. CallOK(seed)
  BY <1>5, <1>6, <1>7, AnnouncedByLast
<1>9. seed = SeedDemo
  BY DEF seed, first, last, n, agents, SeedDemo
<1> QED
  BY <1>8, <1>9

\* Every command tells of what it changes, and a tool tells of nothing.
LEMMA ProgramsAnnounce == \A program \in Programs : CallOK(program)
<1>1. /\ VFSUpdate \in Steps /\ Telling(VFSUpdate) /\ VFSUpdate.op = "publish"
      /\ Result \in Steps /\ Result.op = "publish"
      /\ \A type \in {"agent_registered", "agent_removed"} :
           Publish(type) \in Steps /\ Telling(Publish(type)) /\ Publish(type).op = "publish"
  BY PublishIsStep DEF VFSUpdate, Result, Events, Telling
<1>2. \A op \in Changes, a \in Agents \cup {None} : Step(op, a) \in Steps
  BY ChangeIsStep
<1> USE <1>1, <1>2 DEF Changes
<1> HIDE DEF Changes
<1>3. ASSUME NEW a \in Agents PROVE CallOK(ClearAgent(a))
  <2> DEFINE p == ClearAgent(a)
  <2>1. p \in Seq(Steps) /\ DOMAIN p = 1..4 /\ p[3] = VFSUpdate /\ p[4] = Result
    BY DEF ClearAgent, Changes
  <2> HIDE DEF p
  <2>2. CallOK(p)
    BY <2>1, AnnouncedByLast
  <2> QED
    BY <2>2 DEF p
<1>4. ASSUME NEW a \in Agents PROVE CallOK(ProposeFiles(a))
  <2> DEFINE p == ProposeFiles(a)
  <2>1. p \in Seq(Steps) /\ DOMAIN p = 1..3 /\ p[2] = VFSUpdate /\ p[3] = Result
    BY DEF ProposeFiles, Changes
  <2> HIDE DEF p
  <2>2. CallOK(p)
    BY <2>1, AnnouncedByLast
  <2> QED
    BY <2>2 DEF p
<1>5. ASSUME NEW a \in Agents, NEW user \in Agents \cup {None} PROVE CallOK(RegisterPush(a, user))
  <2> DEFINE p == RegisterPush(a, user)
  <2>1. p \in Seq(Steps) /\ DOMAIN p = 1..4 /\ p[3] = VFSUpdate /\ p[4] = Result
    BY DEF RegisterPush, Changes
  <2> HIDE DEF p
  <2>2. CallOK(p)
    BY <2>1, AnnouncedByLast
  <2> QED
    BY <2>2 DEF p
<1>6. ASSUME NEW a \in Agents PROVE CallOK(RegisterAgent(a))
  <2> DEFINE p == RegisterAgent(a)
  <2>1. p \in Seq(Steps) /\ DOMAIN p = 1..3 /\ p[2] = Publish("agent_registered") /\ p[3] = Result
    BY DEF RegisterAgent, Changes
  <2> HIDE DEF p
  <2>2. CallOK(p)
    BY <2>1, AnnouncedByLast
  <2> QED
    BY <2>2 DEF p
<1>7. CallOK(ClearDemo)
  <2> DEFINE p == ClearDemo
  <2>1. /\ p \in Seq(Steps) /\ DOMAIN p = 1..5
        /\ p[3] = VFSUpdate /\ p[4] = Publish("agent_removed") /\ p[5] = Result
    BY DEF ClearDemo, Changes
  <2> HIDE DEF p
  <2>2. CallOK(p)
    BY <2>1, AnnouncedByLast
  <2> QED
    BY <2>2 DEF p
<1>8. CallOK(Reads)
  <2>1. Reads \in Seq(Steps) /\ DOMAIN Reads = 1..1 /\ Reads[1] = Result
    BY DEF Reads
  <2> QED
    BY <2>1 DEF CallOK, Announced
<1>9. ASSUME NEW a \in Agents, NEW p \in Tools(a) PROVE CallOK(p)
  <2>1. PICK op \in {"propose", "clear"} : p = <<Step(op, a)>>
    BY Zenon DEF Tools
  <2>2. p \in Seq(Steps) /\ DOMAIN p = 1..1 /\ p[1].op = op
    BY <2>1, ChangeIsStep DEF Changes
  <2> QED
    BY <2>2 DEF CallOK, Silent
<1>10. \A program \in UNION {{ClearAgent(a), ProposeFiles(a), RegisterAgent(a)} \cup Tools(a) : a \in Agents} :
          CallOK(program)
  BY ONLY <1>3, <1>4, <1>6, <1>9
<1>11. \A program \in UNION {{RegisterPush(a, user) : user \in (Agents \ {a}) \cup {None}} : a \in Agents} :
          CallOK(program)
  BY ONLY <1>5
<1> QED
  BY ONLY <1>7, <1>8, <1>10, <1>11, SeedAnnounces DEF Programs
-----------------------------------------------------------------------------
(***************************************************************************)
(* The server.                                                             *)
(***************************************************************************)

LEMMA InitTopology == Init => TopologyInv
<1> SUFFICES ASSUME Init PROVE TopologyInv
  OBVIOUS
<1>1. EmptyVFS \in VFSType /\ EmptyRegistry \in RegistryType
  BY TopologyAssumption DEF EmptyVFS, EmptyRegistry, VFSType, RegistryType, Statuses
<1>2. TopologyType
  <2>1. up \in BOOLEAN /\ vfs \in VFSType /\ untold \in BOOLEAN
    BY DEF Init, VFSType
  <2>2. registry \in RegistryType
    <3>1. registry \in [Agents -> {"unknown", "active"}]
      BY DEF Init
    <3> QED
      BY <3>1 DEF RegistryType, Statuses
  <2>3. stream \in StreamType
    <3>1. <<>> \in Seq(Events)
      OBVIOUS
    <3> QED
      BY <3>1 DEF Init, StreamType
  <2>4. NoLoad \in LoadType
    BY <1>1 DEF NoLoad, LoadType
  <2>5. panel \in PanelType
    <3>1. [l \in Loads |-> NoLoad] \in [Loads -> LoadType]
      BY <2>4
    <3> HIDE DEF NoLoad, LoadType
    <3> QED
      BY <3>1 DEF Init, PanelType
  <2> QED
    BY <2>1, <2>2, <2>3, <2>5 DEF TopologyType
<1>3. CallsOK
  BY DEF Init, CallsOK
<1>4. NewestOK
  BY TopologyAssumption DEF Init, NewestOK, Fresh
<1> QED
  BY <1>2, <1>3, <1>4 DEF TopologyInv

\* One step of a call less to do.
LEMMA RestOK ==
  ASSUME NEW rest, CallOK(rest), rest # <<>>
  PROVE  /\ Head(rest) \in Steps /\ CallOK(Tail(rest))
         /\ Head(rest).op # "publish" /\ ~Silent(rest) => WillTell(Tail(rest))
         /\ ~Telling(Head(rest)) /\ WillTell(rest) => WillTell(Tail(rest))
<1>1. /\ rest \in Seq(Steps) /\ Head(rest) = rest[1] /\ Head(rest) \in Steps
      /\ 1 \in DOMAIN rest /\ Tail(rest) \in Seq(Steps)
      /\ \A i \in DOMAIN Tail(rest) : i \in Nat /\ i + 1 \in DOMAIN rest /\ Tail(rest)[i] = rest[i + 1]
      /\ \A i \in DOMAIN rest : i \in Nat
      /\ \A i \in DOMAIN rest : i # 1 => i - 1 \in DOMAIN Tail(rest) /\ Tail(rest)[i - 1] = rest[i]
  BY DEF CallOK
<1>2. Tail(rest) # None
  BY <1>1, TopologyAssumption
<1>3. ASSUME NEW j \in DOMAIN rest, j > 1, Telling(rest[j]) PROVE WillTell(Tail(rest))
  <2>1. j - 1 \in DOMAIN Tail(rest) /\ Tail(rest)[j - 1] = rest[j]
    BY <1>1, <1>3
  <2> QED
    BY <1>2, <1>3, <2>1 DEF WillTell
<1>4. CallOK(Tail(rest))
  <2>1. CASE Silent(rest)
    <3>1. Silent(Tail(rest))
      BY <1>1, <2>1 DEF Silent
    <3> QED
      BY <1>1, <3>1 DEF CallOK
  <2>2. CASE Announced(rest)
    <3>1. ASSUME NEW i \in DOMAIN Tail(rest), Tail(rest)[i].op # "publish"
          PROVE  \E j \in DOMAIN Tail(rest) : j > i /\ Telling(Tail(rest)[j])
      <4>1. PICK j \in DOMAIN rest : j > i + 1 /\ Telling(rest[j])
        BY <1>1, <2>2, <3>1 DEF Announced
      <4>2. j - 1 \in DOMAIN Tail(rest) /\ Tail(rest)[j - 1] = rest[j] /\ j - 1 > i
        BY <1>1, <4>1
      <4> QED
        BY <4>1, <4>2
    <3>2. Announced(Tail(rest))
      BY <3>1 DEF Announced
    <3> QED
      BY <1>1, <3>2 DEF CallOK
  <2> QED
    BY <2>1, <2>2 DEF CallOK
<1>5. ASSUME Head(rest).op # "publish", ~Silent(rest) PROVE WillTell(Tail(rest))
  <2>1. Announced(rest)
    BY <1>5 DEF CallOK
  <2>2. PICK j \in DOMAIN rest : j > 1 /\ Telling(rest[j])
    BY <1>1, <1>5, <2>1 DEF Announced
  <2> QED
    BY <1>3, <2>2
<1>6. ASSUME ~Telling(Head(rest)), WillTell(rest) PROVE WillTell(Tail(rest))
  <2>1. PICK j \in DOMAIN rest : Telling(rest[j])
    BY <1>6 DEF WillTell
  <2>2. j > 1
    BY <1>1, <1>6, <2>1
  <2> QED
    BY <1>3, <2>1, <2>2
<1> QED
  BY <1>1, <1>4, <1>5, <1>6

\* A step after which the panel knows no less, and what it is still to be told is no less.
LEMMA QuietStep ==
  ASSUME NewestOK, UNCHANGED <<up, vfs, registry, panel, newest>>,
         ~untold' /\ ~Pending' => ~untold /\ ~Pending
  PROVE  NewestOK'
BY DEF NewestOK, Fresh, HasRead, Idle, Current

\* A step after which the panel is still to be told.
LEMMA ToldLater ==
  ASSUME NewestOK, UNCHANGED <<panel, newest>>, untold' \/ Pending'
  PROVE  NewestOK'
BY DEF NewestOK, Idle

LEMMA BeginStep ==
  ASSUME TopologyInv, NEW c \in Calls, Begin(c)
  PROVE  TopologyInv'
<1>1. PICK program \in Programs : calls' = [calls EXCEPT ![c] = program]
  BY DEF Begin
<1>2. CallOK(program) /\ program \in Seq(Steps)
  BY ProgramsAnnounce DEF CallOK
<1>3. CallsOK'
  BY <1>1, <1>2 DEF TopologyInv, CallsOK
<1>4. calls[c] = None /\ UNCHANGED <<up, vfs, registry, stream, panel, faults, newest, untold>>
  BY DEF Begin
<1>5. Pending => Pending'
  <2>1. ASSUME NEW d \in Calls, WillTell(calls[d]) PROVE WillTell(calls'[d])
    <3>1. d # c
      BY <1>4, <2>1 DEF WillTell
    <3> QED
      BY <1>1, <2>1, <3>1 DEF TopologyInv, CallsOK
  <2> QED
    BY <1>4, <2>1 DEF Pending
<1>6. NewestOK'
  BY <1>4, <1>5, QuietStep DEF TopologyInv
<1>7. TopologyType'
  BY <1>4 DEF TopologyInv, TopologyType
<1> QED
  BY <1>3, <1>6, <1>7 DEF TopologyInv

\* What the tables hold after a step.
LEMMA TablesType ==
  ASSUME TopologyType, NEW step
  PROVE  Registry(step) \in RegistryType /\ \A files \in VFSs(step) : files \in VFSType
<1>1. vfs \in VFSType /\ registry \in RegistryType /\ MaxFiles \in Nat
  BY TopologyAssumption DEF TopologyType
<1>2. ASSUME NEW a, NEW status \in Statuses PROVE [registry EXCEPT ![a] = status] \in RegistryType
  BY <1>1 DEF RegistryType
<1>3. ASSUME NEW a, NEW n \in 0..MaxFiles PROVE [vfs EXCEPT ![a] = n] \in VFSType
  BY <1>1 DEF VFSType
<1>4. EmptyVFS \in VFSType /\ EmptyRegistry \in RegistryType
  BY <1>1 DEF EmptyVFS, EmptyRegistry, VFSType, RegistryType, Statuses
<1>5. Registry(step) \in RegistryType
  <2>1. /\ [registry EXCEPT ![step.arg] = "active"] \in RegistryType
        /\ [registry EXCEPT ![step.arg] = "idle"] \in RegistryType
    BY <1>2 DEF Statuses
  <2> QED
    BY <1>1, <1>4, <2>1 DEF Registry
<1>6. \A files \in VFSs(step) : files \in VFSType
  <2>1. [vfs EXCEPT ![step.arg] = 0] \in VFSType
    BY <1>1, <1>3
  <2>2. \A n \in 1..MaxFiles : [vfs EXCEPT ![step.arg] = n] \in VFSType
    BY <1>1, <1>3
  <2> QED
    BY <1>1, <1>4, <2>1, <2>2 DEF VFSs
<1> QED
  BY <1>5, <1>6
LEMMA DoStepStep ==
  ASSUME TopologyInv, NEW c \in Calls, DoStep(c)
  PROVE  TopologyInv'
<1> DEFINE step == Head(calls[c])
           rest == Tail(calls[c])
<1>1. TopologyType /\ CallsOK /\ NewestOK
  BY DEF TopologyInv
<1>2. CallOK(calls[c]) /\ calls[c] # <<>>
  BY <1>1 DEF CallsOK, DoStep, Running
<1>3. /\ step \in Steps /\ CallOK(rest) /\ rest \in Seq(Steps)
      /\ step.op # "publish" /\ ~Silent(calls[c]) => WillTell(rest)
      /\ ~Telling(step) /\ WillTell(calls[c]) => WillTell(rest)
  BY <1>2, RestOK DEF CallOK
<1>4. /\ vfs' \in VFSs(step) /\ registry' = Registry(step)
      /\ IF step.op = "publish" THEN Deliver(step.arg)
         ELSE untold' = (untold \/ Silent(calls[c])) /\ UNCHANGED stream
      /\ calls' = [calls EXCEPT ![c] = rest]
      /\ UNCHANGED <<up, panel, faults, newest>>
  BY DEF DoStep
<1> HIDE DEF step, rest
<1>5. CallsOK'
  BY <1>1, <1>3, <1>4 DEF CallsOK
<1>6. calls'[c] = rest /\ \A d \in Calls : d # c => calls'[d] = calls[d]
  BY <1>1, <1>4 DEF CallsOK
<1>7. stream \in StreamType /\ stream.queue \in Seq(Events) /\ untold \in BOOLEAN
  BY <1>1 DEF TopologyType, StreamType
<1>8. CASE step.op # "publish"
  <2>1. stream' = stream /\ untold' = (untold \/ Silent(calls[c]))
    BY <1>4, <1>8
  <2>2. untold' \/ Pending'
    BY <1>3, <1>6, <1>8, <2>1 DEF Pending
  <2>3. NewestOK'
    BY <1>1, <1>4, <2>2, ToldLater
  <2>4. untold' \in BOOLEAN
    BY <2>1
  <2>5. TopologyType'
    BY <1>1, <1>4, <2>1, <2>4, TablesType DEF TopologyType
  <2> QED
    BY <1>5, <2>3, <2>5 DEF TopologyInv
<1>9. CASE step.op = "publish"
  <2>1. Deliver(step.arg) /\ step.arg \in Events
    BY <1>3, <1>4, <1>9 DEF Steps, Changes
  <2>2. vfs' = vfs /\ registry' = registry
    <3>1. VFSs(step) = {vfs} /\ Registry(step) = registry
      BY <1>9 DEF VFSs, Registry
    <3> QED
      BY <1>4, <3>1
  <2>3. \/ /\ stream' = [stream EXCEPT !.queue = Append(stream.queue, step.arg)]
           /\ untold' = untold
        \/ /\ untold' = (untold \/ step.arg # "command_result")
           /\ stream' = stream
    BY <2>1 DEF Deliver
  <2>4. TopologyType'
    <3>1. stream' \in StreamType
      BY <1>7, <2>1, <2>3 DEF StreamType
    <3>2. untold' \in BOOLEAN
      BY <1>7, <2>3
    <3> QED
      BY <1>1, <1>4, <2>2, <3>1, <3>2 DEF TopologyType
  <2>5. Tells(stream.queue) => Tells(stream'.queue)
    <3>1. CASE stream'.queue = stream.queue
      BY <3>1
    <3>2. CASE stream'.queue = Append(stream.queue, step.arg)
      <4>1. \A i \in DOMAIN stream.queue :
              i \in DOMAIN stream'.queue /\ stream'.queue[i] = stream.queue[i]
        BY <1>7, <2>1, <3>2
      <4> QED
        BY <4>1 DEF Tells
    <3> QED
      BY <1>7, <2>3, <3>1, <3>2 DEF StreamType
  <2>6. CASE Telling(step)
    <3>1. untold' \/ Tells(stream'.queue)
      <4>1. CASE stream' = [stream EXCEPT !.queue = Append(stream.queue, step.arg)]
        <5>1. stream'.queue = Append(stream.queue, step.arg)
          BY <1>7, <4>1 DEF StreamType
        <5>2. /\ Len(stream.queue) + 1 \in DOMAIN stream'.queue
              /\ stream'.queue[Len(stream.queue) + 1] = step.arg
          BY <1>7, <2>1, <5>1
        <5> QED
          BY <2>6, <5>2 DEF Tells, Telling
      <4>2. CASE untold' = (untold \/ step.arg # "command_result")
        BY <2>6, <4>2 DEF Telling
      <4> QED
        BY <2>3, <4>1, <4>2
    <3>2. NewestOK'
      BY <1>1, <1>4, <3>1, ToldLater DEF Pending
    <3> QED
      BY <1>5, <2>4, <3>2 DEF TopologyInv
  <2>7. CASE ~Telling(step)
    <3>1. untold' = untold
      BY <1>7, <1>9, <2>3, <2>7 DEF Telling
    <3>2. Pending => Pending'
      <4>1. \A d \in Calls : WillTell(calls[d]) => WillTell(calls'[d])
        BY <1>3, <1>6, <2>7
      <4> QED
        BY <2>5, <4>1 DEF Pending
    <3>3. NewestOK'
      BY <1>1, <1>4, <2>2, <3>1, <3>2, QuietStep
    <3> QED
      BY <1>5, <2>4, <3>3 DEF TopologyInv
  <2> QED
    BY <2>6, <2>7
<1> QED
  BY <1>8, <1>9

LEMMA GoDownStep ==
  ASSUME TopologyInv, GoDown
  PROVE  TopologyInv'
<1>1. TopologyType /\ CallsOK /\ NewestOK
  BY DEF TopologyInv
<1>2. EmptyVFS \in VFSType /\ EmptyRegistry \in RegistryType
  BY TopologyAssumption DEF EmptyVFS, EmptyRegistry, VFSType, RegistryType, Statuses
<1>3. TopologyType'
  <2>1. stream' \in StreamType
    <3>1. <<>> \in Seq(Events)
      OBVIOUS
    <3> QED
      BY <1>1, <3>1 DEF GoDown, TopologyType, StreamType
  <2> QED
    BY <1>1, <1>2, <2>1 DEF GoDown, TopologyType
<1>4. CallsOK'
  <2>1. CallOK(<<>>) /\ <<>> \in Seq(Steps)
    BY DEF CallOK, Silent
  <2>2. calls' = [c \in Calls |-> IF Running(c) THEN <<>> ELSE calls[c]]
    BY DEF GoDown
  <2> QED
    BY <1>1, <2>1, <2>2 DEF CallsOK
<1>5. NewestOK'
  BY <1>1, ToldLater DEF GoDown
<1> QED
  BY <1>3, <1>4, <1>5 DEF TopologyInv

LEMMA ComeUpStep ==
  ASSUME TopologyInv, ComeUp
  PROVE  TopologyInv'
<1>1. TopologyType' /\ CallsOK'
  BY DEF TopologyInv, ComeUp, TopologyType, CallsOK
<1>2. NewestOK'
  BY ToldLater DEF TopologyInv, ComeUp
<1> QED
  BY <1>1, <1>2 DEF TopologyInv
-----------------------------------------------------------------------------
(***************************************************************************)
(* The stream.                                                             *)
(***************************************************************************)

LEMMA StreamStep ==
  ASSUME TopologyInv, Stream
  PROVE  TopologyInv'
<1>1. TopologyType /\ CallsOK /\ NewestOK /\ stream \in StreamType /\ untold \in BOOLEAN
  BY DEF TopologyInv, TopologyType
<1>2. UNCHANGED <<up, vfs, registry, calls, panel, newest>>
  BY DEF Stream, Subscribe, OnOpen, Replace, OnError
<1>3. CallsOK'
  BY <1>1, <1>2 DEF CallsOK
<1>4. <<>> \in Seq(Events)
  OBVIOUS
<1>5. stream' \in StreamType /\ untold' \in BOOLEAN
  <2>1. CASE Subscribe \/ OnOpen
    BY <1>1, <2>1 DEF Subscribe, OnOpen, StreamType
  <2>2. CASE Replace
    BY <1>1, <1>4, <2>2 DEF Replace, StreamType
  <2>3. CASE OnError
    BY <1>1, <1>4, <2>3 DEF OnError, StreamType
  <2> QED
    BY <2>1, <2>2, <2>3 DEF Stream
<1>6. TopologyType'
  BY <1>1, <1>2, <1>5 DEF TopologyType
<1>7. \/ untold' = untold /\ stream'.queue = stream.queue
      \/ untold' = (untold \/ stream.queue # <<>>)
  BY <1>1 DEF Stream, Subscribe, OnOpen, Replace, OnError, StreamType
<1>8. ~untold' /\ ~Pending' => ~untold /\ ~Pending
  <2>1. stream.queue = <<>> => ~Tells(stream.queue)
    BY DEF Tells
  <2> QED
    BY <1>1, <1>2, <1>7, <2>1 DEF Pending
<1>9. NewestOK'
  BY <1>1, <1>2, <1>8, QuietStep
<1> QED
  BY <1>3, <1>6, <1>9 DEF TopologyInv
-----------------------------------------------------------------------------
(***************************************************************************)
(* The panel and the route.                                                *)
(***************************************************************************)

\* A request that is sent is the newest, and has read nothing yet.
LEMMA SendStep ==
  ASSUME NEW l \in Loads, NEW asking \in PanelType, Send(l, asking)
  PROVE  panel' \in PanelType /\ untold' \in BOOLEAN /\ NewestOK'
<1>1. EmptyVFS \in VFSType /\ EmptyRegistry \in RegistryType
  BY TopologyAssumption DEF EmptyVFS, EmptyRegistry, VFSType, RegistryType, Statuses
<1>2. Begun \in LoadType /\ Begun.pc = "mcp"
  BY <1>1 DEF Begun, NoLoad, LoadType
<1>3. panel' = [asking EXCEPT !.loads[l] = Begun] /\ newest' = l /\ untold' = FALSE
  BY DEF Send
<1> HIDE DEF Begun
<1>4. panel' \in PanelType /\ panel'.loads[l] = Begun
  <2>1. [asking.loads EXCEPT ![l] = Begun] \in [Loads -> LoadType] /\ asking.loads \in [Loads -> LoadType]
    BY <1>2 DEF PanelType
  <2> HIDE DEF LoadType
  <2> QED
    BY <1>3, <2>1 DEF PanelType
<1>5. NewestOK'
  <2>1. HasRead(panel.loads[newest])'
    BY <1>2, <1>3, <1>4 DEF HasRead
  <2> QED
    BY <1>2, <1>3, <1>4, <2>1 DEF NewestOK, Fresh, Idle
<1> QED
  BY <1>3, <1>4, <1>5

LEMMA OnEventStep ==
  ASSUME TopologyInv, NEW l \in Loads, OnEvent(l)
  PROVE  TopologyInv'
<1>1. TopologyType /\ CallsOK /\ NewestOK /\ stream \in StreamType /\ panel \in PanelType
  BY DEF TopologyInv, TopologyType
<1>2. /\ stream.queue # <<>> /\ stream' = [stream EXCEPT !.queue = Tail(stream.queue)]
      /\ HandleSSE(Head(stream.queue), l)
      /\ UNCHANGED <<up, vfs, registry, calls>>
  BY DEF OnEvent
<1>3. stream.queue \in Seq(Events) /\ stream' \in StreamType /\ stream'.queue = Tail(stream.queue)
  <2>1. stream \in StreamType /\ stream.queue \in Seq(Events)
    BY <1>1 DEF StreamType
  <2>2. stream' = [stream EXCEPT !.queue = Tail(stream.queue)] /\ stream.queue # <<>>
    BY <1>2
  <2>3. Tail(stream.queue) \in Seq(Events)
    BY <2>1, <2>2
  <2>4. stream'.queue = Tail(stream.queue) /\ stream' \in StreamType
    BY ONLY <2>1, <2>2, <2>3 DEF StreamType
  <2> QED
    BY <2>1, <2>4
<1>4. CallsOK'
  BY <1>1, <1>2 DEF CallsOK
<1>5. CASE Send(l, panel)
  <2>1. panel' \in PanelType /\ untold' \in BOOLEAN /\ NewestOK'
    BY <1>1, <1>5, SendStep
  <2> QED
    BY <1>1, <1>2, <1>3, <1>4, <2>1 DEF TopologyInv, TopologyType
<1>6. CASE ~Send(l, panel)
  <2>1. /\ Head(stream.queue) \notin {"vfs_update", "agent_registered", "agent_removed"}
        /\ UNCHANGED <<panel, newest, untold>>
    BY <1>2, <1>6 DEF HandleSSE
  <2>2. Head(stream.queue) = stream.queue[1] /\ stream.queue[1] = "command_result"
    BY <1>2, <1>3, <2>1 DEF Events
  <2>3. Tells(stream.queue) => Tells(stream'.queue)
    <3> SUFFICES ASSUME NEW i \in DOMAIN stream.queue, stream.queue[i] # "command_result"
                 PROVE  Tells(stream'.queue)
      BY DEF Tells
    <3>1. i # 1 /\ i - 1 \in DOMAIN stream'.queue /\ stream'.queue[i - 1] = stream.queue[i]
      BY <1>2, <1>3, <2>2
    <3> QED
      BY <3>1 DEF Tells
  <2>4. Pending => Pending'
    BY <1>2, <2>3 DEF Pending
  <2>5. NewestOK'
    BY <1>1, <1>2, <2>1, <2>4, QuietStep
  <2> QED
    BY <1>1, <1>2, <1>3, <1>4, <2>1, <2>5 DEF TopologyInv, TopologyType
<1> QED
  BY <1>5, <1>6

LEMMA AskStep ==
  ASSUME TopologyInv, NEW l \in Loads, RunEffect(l) \/ Poll(l)
  PROVE  TopologyInv'
<1>1. TopologyType /\ CallsOK /\ panel \in PanelType /\ stream \in StreamType
  BY DEF TopologyInv, TopologyType
<1>2. UNCHANGED <<up, vfs, registry, calls, stream>>
  BY DEF RunEffect, Poll
<1>3. PICK asking \in PanelType : Send(l, asking)
  <2>1. CASE RunEffect(l)
    <3>1. [panel EXCEPT !.sawConnected = stream.connected, !.polling = ~stream.connected] \in PanelType
      BY <1>1 DEF PanelType, StreamType
    <3> QED
      BY <2>1, <3>1 DEF RunEffect
  <2>2. CASE Poll(l)
    BY <1>1, <2>2 DEF Poll
  <2> QED
    BY <2>1, <2>2
<1>4. panel' \in PanelType /\ untold' \in BOOLEAN /\ NewestOK'
  BY <1>3, SendStep
<1>5. CallsOK'
  BY <1>1, <1>2 DEF CallsOK
<1> QED
  BY <1>1, <1>2, <1>4, <1>5 DEF TopologyInv, TopologyType

\* A request of the route that is answered has read what is there.
LEMMA GETStep ==
  ASSUME TopologyInv, NEW l \in Loads, GET(l)
  PROVE  TopologyInv'
<1>1. TopologyType /\ CallsOK /\ NewestOK /\ panel \in PanelType
  BY DEF TopologyInv, TopologyType
<1>2. panel.loads \in [Loads -> LoadType] /\ panel.loads[l] \in LoadType
  BY <1>1 DEF PanelType
<1>3. /\ panel' = [panel EXCEPT !.loads[l] = Answer(l)]
      /\ panel.loads[l].pc \in {"mcp", "agents", "files"}
      /\ UNCHANGED <<up, vfs, registry, calls, stream, faults, newest, untold>>
  BY DEF GET, Asking
<1>4. up \in BOOLEAN /\ registry \in RegistryType /\ vfs \in VFSType
  BY <1>1 DEF TopologyType
<1>5. /\ Answer(l) \in LoadType /\ Answer(l).pc # "idle"
      /\ HasRead(panel.loads[l]) => HasRead(Answer(l))
  <2> DEFINE load == panel.loads[l]
  <2>1. CASE load.pc = "mcp"
    <3>1. Answer(l) = [load EXCEPT !.pc = "agents", !.mcp = up]
      BY <2>1 DEF Answer
    <3> QED
      BY <1>2, <1>4, <2>1, <3>1 DEF LoadType, HasRead
  <2>2. CASE load.pc = "agents"
    <3>1. Answer(l) = [load EXCEPT !.pc = "files", !.agents = registry]
      BY <2>2 DEF Answer
    <3> QED
      BY <1>2, <1>4, <2>2, <3>1 DEF LoadType, HasRead
  <2>3. CASE load.pc = "files"
    <3>1. Answer(l) = [load EXCEPT !.pc = "answered", !.files = vfs]
      BY <2>3 DEF Answer
    <3> QED
      BY <1>2, <1>4, <2>3, <3>1 DEF LoadType, HasRead
  <2> QED
    BY <1>3, <2>1, <2>2, <2>3
<1>6. /\ panel' \in PanelType /\ panel'.loads[l] = Answer(l)
      /\ \A m \in Loads : m # l => panel'.loads[m] = panel.loads[m]
  <2>1. [panel.loads EXCEPT ![l] = Answer(l)] \in [Loads -> LoadType]
    BY <1>2, <1>5
  <2> HIDE DEF LoadType
  <2> QED
    BY <1>1, <1>2, <1>3, <2>1 DEF PanelType
<1>7. NewestOK'
  <2>1. Pending' = Pending /\ Current' = Current
    BY <1>3 DEF Pending, Current
  <2>2. ASSUME newest \in Loads PROVE ~Idle(newest)'
    BY <1>1, <1>3, <1>5, <1>6, <2>2 DEF NewestOK, Idle
  <2>3. ASSUME newest \in Loads, HasRead(panel.loads[newest]) PROVE HasRead(panel.loads[newest])'
    <3>1. HasRead(panel'.loads[newest])
      BY <1>5, <1>6, <2>3
    <3> QED
      BY <1>3, <3>1 DEF HasRead
  <2> QED
    BY <1>1, <1>3, <2>1, <2>2, <2>3 DEF NewestOK, Fresh
<1> QED
  BY <1>1, <1>3, <1>6, <1>7 DEF TopologyInv, TopologyType, CallsOK

LEMMA GETWithoutStep ==
  ASSUME TopologyInv, NEW l \in Loads, GETWithout(l)
  PROVE  TopologyInv'
<1>1. TopologyType /\ CallsOK /\ NewestOK /\ panel \in PanelType
  BY DEF TopologyInv, TopologyType
<1>2. panel.loads \in [Loads -> LoadType] /\ panel.loads[l] \in LoadType
  BY <1>1 DEF PanelType
<1>3. /\ panel' = [panel EXCEPT !.loads[l] = NoAnswer(l)]
      /\ panel.loads[l].pc \in {"mcp", "agents", "files"}
      /\ UNCHANGED <<up, vfs, registry, calls, stream, newest>> /\ untold' = TRUE
  BY DEF GETWithout, Asking
<1>4. NoAnswer(l) \in LoadType /\ NoAnswer(l).pc # "idle"
  BY <1>2, <1>3 DEF NoAnswer, LoadType
<1>5. /\ panel' \in PanelType /\ panel'.loads[l] = NoAnswer(l)
      /\ \A m \in Loads : m # l => panel'.loads[m] = panel.loads[m]
  <2>1. [panel.loads EXCEPT ![l] = NoAnswer(l)] \in [Loads -> LoadType]
    BY <1>2, <1>4
  <2> HIDE DEF LoadType
  <2> QED
    BY <1>1, <1>2, <1>3, <2>1 DEF PanelType
<1>6. NewestOK'
  BY <1>1, <1>3, <1>4, <1>5 DEF NewestOK, Idle
<1> QED
  BY <1>1, <1>3, <1>5, <1>6 DEF TopologyInv, TopologyType, CallsOK

\* What the route returns.
LEMMA ViewType ==
  ASSUME NEW mcp \in BOOLEAN, NEW agents \in RegistryType, NEW files \in VFSType
  PROVE  View(mcp, agents, files) \in Views
<1> DEFINE Waiting == {a \in Agents : files[a] > 0}
           nodes == IF Registered(agents) # {}
                    THEN [a \in Registered(agents) |-> [status |-> agents[a], files |-> files[a]]]
                    ELSE [a \in Waiting |-> [status |-> "active", files |-> files[a]]]
           Node == [status : {"active", "idle"}, files : 0..MaxFiles]
<1>1. \A a \in Registered(agents) : [status |-> agents[a], files |-> files[a]] \in Node
  BY DEF Registered, RegistryType, Statuses, VFSType
<1>2. \A a \in Waiting : [status |-> "active", files |-> files[a]] \in Node
  BY DEF VFSType
<1>3. Registered(agents) \in SUBSET Agents /\ Waiting \in SUBSET Agents
  BY DEF Registered
<1> HIDE DEF Node
<1>4. nodes \in UNION {[S -> Node] : S \in SUBSET Agents}
  <2>1. CASE Registered(agents) # {}
    <3>1. nodes \in [Registered(agents) -> Node]
      BY <1>1, <2>1
    <3> HIDE DEF nodes
    <3> QED
      BY <1>3, <3>1
  <2>2. CASE Registered(agents) = {}
    <3>1. nodes \in [Waiting -> Node]
      BY <1>2, <2>2
    <3> HIDE DEF nodes, Waiting
    <3> QED
      BY <1>3, <3>1
  <2> QED
    BY <2>1, <2>2
<1>5. View(mcp, agents, files) = [mcp |-> mcp, nodes |-> nodes]
  BY DEF View
<1> HIDE DEF nodes
<1> QED
  BY <1>4, <1>5 DEF Views, Node

\* The newest request returns what it has read.
LEMMA LoadStep ==
  ASSUME TopologyInv, NEW l \in Loads, Load(l)
  PROVE  TopologyInv'
<1>1. TopologyType /\ CallsOK /\ NewestOK /\ panel \in PanelType
  BY DEF TopologyInv, TopologyType
<1>2. panel.loads \in [Loads -> LoadType] /\ panel.loads[l] \in LoadType
  BY <1>1 DEF PanelType
<1>3. /\ panel' = [panel EXCEPT !.shown = Seen(l), !.error = FALSE, !.loads[l] = NoLoad]
      /\ panel.loads[l].pc = "answered"
      /\ newest' = IF newest = l THEN Seen(l) ELSE newest
      /\ UNCHANGED <<up, vfs, registry, calls, stream, faults, untold>>
  BY DEF Load
<1>4. Seen(l) \in Views /\ Seen(l) \notin Loads
  BY <1>2, ViewType, TopologyAssumption DEF Seen, LoadType
<1>5. NoLoad \in LoadType
  BY TopologyAssumption
     DEF NoLoad, LoadType, EmptyVFS, EmptyRegistry, VFSType, RegistryType, Statuses
<1>6. panel' \in PanelType /\ \A m \in Loads : m # l => panel'.loads[m] = panel.loads[m]
  <2>1. [panel.loads EXCEPT ![l] = NoLoad] \in [Loads -> LoadType]
    BY <1>2, <1>5
  <2> HIDE DEF LoadType, NoLoad, Views
  <2> QED
    BY <1>1, <1>2, <1>3, <1>4, <2>1 DEF PanelType
<1>7. Pending' = Pending /\ Current' = Current
  BY <1>3 DEF Pending, Current
<1>8. NewestOK'
  <2>1. CASE newest = l
    <3>1. newest' = Seen(l) /\ newest' \notin Loads
      BY <1>3, <1>4, <2>1
    <3>2. HasRead(panel.loads[l]) => Seen(l) = Current
      BY <1>3 DEF HasRead, Seen, Current
    <3> QED
      BY <1>1, <1>3, <1>7, <2>1, <3>1, <3>2 DEF NewestOK, Fresh
  <2>2. CASE newest # l
    <3>1. newest' = newest
      BY <1>3, <2>2
    <3>2. newest \in Loads => panel'.loads[newest] = panel.loads[newest]
      BY <1>6, <2>2
    <3> QED
      BY <1>1, <1>3, <1>7, <3>1, <3>2 DEF NewestOK, Fresh, Idle, HasRead
  <2> QED
    BY <2>1, <2>2
<1> QED
  BY <1>1, <1>3, <1>6, <1>8 DEF TopologyInv, TopologyType, CallsOK

LEMMA LoadFailsStep ==
  ASSUME TopologyInv, NEW l \in Loads, LoadFails(l)
  PROVE  TopologyInv'
<1>1. TopologyType /\ CallsOK /\ NewestOK /\ panel \in PanelType
  BY DEF TopologyInv, TopologyType
<1>2. panel.loads \in [Loads -> LoadType]
  BY <1>1 DEF PanelType
<1>3. /\ panel' = [panel EXCEPT !.error = TRUE, !.loads[l] = NoLoad]
      /\ newest' = (IF newest = l THEN None ELSE newest) /\ untold' = TRUE
      /\ UNCHANGED <<up, vfs, registry, calls, stream>>
  BY DEF LoadFails
<1>4. NoLoad \in LoadType
  BY TopologyAssumption
     DEF NoLoad, LoadType, EmptyVFS, EmptyRegistry, VFSType, RegistryType, Statuses
<1>5. panel' \in PanelType /\ \A m \in Loads : m # l => panel'.loads[m] = panel.loads[m]
  <2>1. [panel.loads EXCEPT ![l] = NoLoad] \in [Loads -> LoadType]
    BY <1>2, <1>4
  <2> HIDE DEF LoadType, NoLoad, Views
  <2> QED
    BY <1>1, <1>2, <1>3, <2>1 DEF PanelType
<1>6. NewestOK'
  <2>1. newest' \in Loads => newest' = newest /\ newest # l
    BY <1>3, TopologyAssumption
  <2> QED
    BY <1>1, <1>3, <1>5, <2>1 DEF NewestOK, Idle
<1> QED
  BY <1>1, <1>3, <1>5, <1>6 DEF TopologyInv, TopologyType, CallsOK
-----------------------------------------------------------------------------
LEMMA StutterTopology ==
  ASSUME TopologyInv, UNCHANGED vars
  PROVE  TopologyInv'
<1>1. TopologyType' /\ CallsOK'
  BY DEF TopologyInv, TopologyType, CallsOK, vars
<1>2. NewestOK'
  BY QuietStep DEF TopologyInv, Pending, vars
<1> QED
  BY <1>1, <1>2 DEF TopologyInv

\* While the panel may miss nothing, the newest request has read what is there.
THEOREM TopologyInvariant == Spec => []TopologyInv
<1>1. TopologyInv /\ [Next]_vars => TopologyInv'
  <2> SUFFICES ASSUME TopologyInv, [Next]_vars PROVE TopologyInv'
    OBVIOUS
  <2>1. CASE Server
    BY <2>1, BeginStep, DoStepStep DEF Server
  <2>2. CASE GoDown \/ ComeUp
    BY <2>2, GoDownStep, ComeUpStep
  <2>3. CASE Stream
    BY <2>3, StreamStep
  <2>4. ASSUME NEW l \in Loads, Route(l) PROVE TopologyInv'
    BY <2>4, GETStep, GETWithoutStep DEF Route
  <2>5. ASSUME NEW l \in Loads, Panel(l) PROVE TopologyInv'
    BY <2>5, OnEventStep, AskStep, LoadStep, LoadFailsStep DEF Panel
  <2>6. CASE UNCHANGED vars
    BY <2>6, StutterTopology
  <2> QED
    BY <2>1, <2>2, <2>3, <2>4, <2>5, <2>6 DEF Next
<1> QED
  BY <1>1, InitTopology, PTL DEF Spec

\* topology-panel.tsx "SSE triggers a re-fetch when topology-relevant events arrive":
\* whatever calls interleave, however many requests overtake each other, when all is at
\* rest the last request the panel has sent returned the topology as it is.
THEOREM PanelAsksAgain == Spec => []AsksAfterEveryChange
<1>1. TopologyInv => AsksAfterEveryChange
  <2> SUFFICES ASSUME TopologyInv, AtRest, ~untold, newest \notin Loads \cup {None}
               PROVE  newest = Current
    BY DEF AsksAfterEveryChange
  <2>1. ASSUME NEW c \in Calls PROVE ~WillTell(calls[c])
    BY DEF AtRest, Running, WillTell
  <2>2. ~Tells(stream.queue)
    BY DEF AtRest, Tells
  <2> QED
    BY <2>1, <2>2 DEF TopologyInv, NewestOK, Pending, Fresh
<1> QED
  BY <1>1, TopologyInvariant, PTL
=============================================================================
