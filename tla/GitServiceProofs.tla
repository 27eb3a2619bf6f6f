---------------------------- MODULE GitServiceProofs ----------------------------
(***************************************************************************)
(* Proofs about the git service, for any number of pushes of any length,   *)
(* merges, commits and files, awaited or not, and whatever the handlers'   *)
(* interleaving: what a registered push promises, how nodes leave the      *)
(* active set, and that no decision about an awaited file is lost.         *)
(***************************************************************************)
EXTENDS GitService, TLAPS

Bases == Contents \cup {None}

\* What some of the files contain.
FileContents == UNION {[D -> Bases] : D \in SUBSET Files}

NodeRecords == [file : Files, parent : NodeIds \cup {None}, from : Bases, to : Contents,
                status : {"active", "superseded", "merged"}]
IngestRecords == [pc : {"files", "failed", "changed", "patched", "registered", "done"},
                  file : Nat \ {0}, base : Bases]
MergeRecords == [pc : {"idle", "failed", "changed", "patched", "added",
                       "superseding", "merged", "done"},
                 ids : SUBSET NodeIds, base : Bases]
CommitRecords == [pc : {"idle", "preparing", "reading", "failed", "recorded", "marked", "done"},
                  resolved : SUBSET Files, files : FileContents]

GitType ==
  /\ tracked \in [Files -> [head : NodeIds \cup {None}, base : Bases]]
  /\ nodes \in [DOMAIN nodes -> NodeRecords] /\ DOMAIN nodes \subseteq NodeIds
  /\ DOMAIN mirror = Users
  /\ ingests \in [Pushes -> IngestRecords]
  /\ merges \in [Merges -> MergeRecords]
  /\ commits \in [Commits -> CommitRecords]

PushNodes == UNION {NodesOf(p) : p \in Pushes}

\* IngestPush stores the nodes of a push one by one and registers it after the last.
PushOk(p) ==
  /\ ingests[p].pc \in {"changed", "patched"} => ingests[p].file <= Len(PushFiles[p])
  /\ \A i \in DOMAIN PushFiles[p] :
       /\ PushNode(p, i) \in DOMAIN nodes <=> i < ingests[p].file
       /\ PushNode(p, i) \in DOMAIN nodes => nodes[PushNode(p, i)].file = PushFiles[p][i].file
  /\ p \in DOMAIN pushSets => NodesOf(p) \subseteq DOMAIN nodes
  /\ ingests[p].pc = "registered" => p \in DOMAIN pushSets

PushInv == \A p \in Pushes : PushOk(p)

\* A commit is recorded before its push is marked, and never recorded again.
CommitOk(c) ==
  /\ c \in DOMAIN records => commits[c].pc \notin {"idle", "preparing", "reading"}
  /\ commits[c].pc = "recorded" => c \in DOMAIN records /\ records[c].status = "created"
  /\ commits[c].pc # "idle" => CommitPush[c] \in DOMAIN pushSets

CommitInv ==
  /\ \A c \in Commits : CommitOk(c)
  /\ DOMAIN records \subseteq Commits /\ DOMAIN pushSets \subseteq Pushes

\* A merge has a node from AddMergeNode on, and supersedes nodes of its file.
MergeOk(m) ==
  /\ MergeNode(m) \in DOMAIN nodes
       <=> merges[m].pc \in {"added", "superseding", "merged", "done"}
  /\ MergeNode(m) \in DOMAIN nodes =>
       nodes[MergeNode(m)].file = MergeFile[m] /\ nodes[MergeNode(m)].to = Decided[m]
  /\ merges[m].pc = "superseding" =>
       \A n \in merges[m].ids : n \in DOMAIN nodes /\ nodes[n].file = MergeFile[m]

MergeInv == \A m \in Merges : MergeOk(m)

\* One caller awaits every answer about an awaited file.
AwaitInv ==
  \A m \in Merges : MergeFile[m] \in Awaited /\ Merging(m) =>
    /\ \A x \in Merges : MergeFile[x] = MergeFile[m] /\ Merging(x) => x = m
    /\ \A c \in Commits : Committing(c) => MergeFile[m] \notin FilesOf(CommitPush[c])

\* So a running merge of an awaited file is alone: its node and patch are made from the
\* head that it replaces, and nobody lists that node before it is merged.  Afterwards, as
\* long as it is the head, only the next promotion may supersede it.
AwaitedMergeOk(m) ==
  LET file == tracked[MergeFile[m]]
      node == nodes[MergeNode(m)]
  IN /\ merges[m].pc \in {"changed", "patched", "added", "superseding"} =>
          MergeNode(m) \notin merges[m].ids
     /\ Merging(m) => file.base # None
     /\ merges[m].pc = "patched" => merges[m].base = file.base
     /\ merges[m].pc \in {"added", "superseding", "merged"} =>
          node.parent = file.head /\ node.from = file.base
     /\ merges[m].pc \in {"added", "superseding"} => node.status = "active"
     /\ merges[m].pc = "merged" => node.status = "merged"
     /\ merges[m].pc = "done" /\ file.head = MergeNode(m) =>
          \/ node.status = "merged"
          \/ node.status = "superseded" /\ Promoting(MergeFile[m])

AwaitedMergeInv == \A m \in Merges : MergeFile[m] \in Awaited => AwaitedMergeOk(m)

Finished(m, f) == m \in Merges /\ MergeFile[m] = f /\ merges[m].pc = "done"

\* The base of an awaited file is what a merge decided.
IsDecided(f) == \E m \in Merges : Finished(m, f) /\ tracked[f].base = Decided[m]

\* The head of an awaited file is the node of a finished merge, and where a node has left
\* the active set a merge has finished, or is about to.
HeadOk(f) ==
  tracked[f].head # None =>
    \E m \in Merges : /\ Finished(m, f) /\ tracked[f].head = MergeNode(m)
                      /\ tracked[f].base = Decided[m]

HeadInv ==
  /\ \A f \in Awaited : HeadOk(f)
  /\ \A f \in Awaited, n \in DOMAIN nodes :
       nodes[n].file = f /\ nodes[n].status # "active" => IsDecided(f) \/ Promoting(f)

\* What all_resolved means as long as the commit goes on.
ResolvedOk(c) ==
  /\ \A f \in commits[c].resolved \cap Awaited : IsDecided(f)
  /\ commits[c].pc # "preparing" =>
       commits[c].resolved \in {{}, FilesOf(CommitPush[c])}
  /\ commits[c].pc \in {"idle", "preparing"} => DOMAIN commits[c].files = {}
  /\ commits[c].resolved # {} =>
       \A f \in DOMAIN commits[c].files \cap Awaited :
         \E m \in Merges : Finished(m, f) /\ commits[c].files[f] = Decided[m]

ResolvedInv == \A c \in Commits : ResolvedOk(c)

GitInv ==
  /\ GitType /\ PushInv /\ CommitInv /\ MergeInv
  /\ AwaitInv /\ AwaitedMergeInv /\ HeadInv /\ ResolvedInv
  /\ RegisteredPushesAreComplete /\ ResolvedCommitsAreDecided
-----------------------------------------------------------------------------
(***************************************************************************)
(* Node ids, and the trees of nodes.                                       *)
(***************************************************************************)

\* Every file of a push and every merge has an id of its own.
LEMMA PushNodeIds ==
  ASSUME NEW p \in Pushes, NEW i \in DOMAIN PushFiles[p]
  PROVE  PushNode(p, i) \in NodesOf(p) /\ PushNode(p, i) \in PushNodes
         /\ PushNode(p, i) \in NodeIds
BY DEF NodesOf, NodeIds, PushNodes

LEMMA MergeNodeIds == \A m \in Merges : MergeNode(m) \in NodeIds
BY DEF NodeIds

LEMMA NodesOfPush ==
  ASSUME NEW p \in Pushes
  PROVE  /\ NodesOf(p) \subseteq PushNodes /\ PushNodes \subseteq NodeIds
         /\ \A n \in NodesOf(p) : \E i \in DOMAIN PushFiles[p] : n = PushNode(p, i)
BY DEF NodesOf, NodeIds, PushNodes

LEMMA IdsDiffer ==
  /\ \A p, q, i, j : PushNode(p, i) = PushNode(q, j) => p = q /\ i = j
  /\ \A m, x : MergeNode(m) = MergeNode(x) => m = x
  /\ \A p \in Pushes, m \in Merges : \A i : PushNode(p, i) # MergeNode(m)
BY GitAssumption DEF PushNode, MergeNode

LEMMA MergeNodesAreNoPushNodes ==
  ASSUME NEW m \in Merges
  PROVE  MergeNode(m) \notin PushNodes
BY IdsDiffer DEF PushNodes, NodesOf

\* The files of a push.
LEMMA PushFileFacts ==
  ASSUME NEW p \in Pushes
  PROVE  /\ Len(PushFiles[p]) \in Nat /\ DOMAIN PushFiles[p] = 1..Len(PushFiles[p])
         /\ \A i \in DOMAIN PushFiles[p] :
              /\ PushFiles[p][i].file \in Files /\ PushFiles[p][i].file \in FilesOf(p)
              /\ PushFiles[p][i].base \in Contents /\ PushFiles[p][i].new \in Contents
         /\ FilesOf(p) \subseteq Files
<1>1. PushFiles[p] \in Seq(FileChanges)
  BY GitAssumption
<1>2. \A i \in DOMAIN PushFiles[p] : PushFiles[p][i] \in FileChanges
  BY <1>1
<1> QED
  BY <1>1, <1>2 DEF FilesOf, FileChanges

\* Storing one more.
LEMMA ExtendFacts ==
  ASSUME NEW fn, NEW key, NEW value
  PROVE  /\ DOMAIN Extend(fn, key, value) = DOMAIN fn \cup {key}
         /\ Extend(fn, key, value)[key] = value
         /\ \A k \in DOMAIN fn : k # key => Extend(fn, key, value)[k] = fn[k]
BY DEF Extend

LEMMA ExtendType ==
  ASSUME NEW S, NEW D, NEW fn \in [D -> S], NEW key, NEW value \in S
  PROVE  Extend(fn, key, value) \in [D \cup {key} -> S]
BY DEF Extend
-----------------------------------------------------------------------------
(***************************************************************************)
(* Types.                                                                  *)
(***************************************************************************)

LEMMA InitGitType == Init => GitType
<1> SUFFICES ASSUME Init
             PROVE  GitType
  OBVIOUS
<1> USE DEF Init, Bases
<1>1. tracked \in [Files -> [head : NodeIds \cup {None}, base : Bases]]
  OBVIOUS
<1>2. nodes \in [DOMAIN nodes -> NodeRecords] /\ DOMAIN nodes \subseteq NodeIds
  OBVIOUS
<1>3. ingests \in [Pushes -> IngestRecords]
  BY DEF IngestRecords
<1>4. merges \in [Merges -> MergeRecords]
  BY DEF MergeRecords
<1>5. <<>> \in FileContents
  <2>1. <<>> \in [{} -> Bases]
    OBVIOUS
  <2> QED
    BY <2>1 DEF FileContents
<1>6. commits \in [Commits -> CommitRecords]
  BY <1>5 DEF CommitRecords
<1>7. DOMAIN mirror = Users
  OBVIOUS
<1> QED
  BY <1>1, <1>2, <1>3, <1>4, <1>6, <1>7 DEF GitType

\* The file that a push is at.
LEMMA ChangeFacts ==
  ASSUME GitType, PushInv, NEW p \in Pushes,
         \/ ingests[p].pc \in {"changed", "patched"}
         \/ ingests[p].file <= Len(PushFiles[p])
  PROVE  /\ ingests[p].file \in DOMAIN PushFiles[p]
         /\ Change(p).file \in Files /\ Change(p).base \in Contents /\ Change(p).new \in Contents
<1>1. ingests[p].file \in DOMAIN PushFiles[p]
  BY PushFileFacts DEF GitType, IngestRecords, PushInv, PushOk
<1> QED
  BY <1>1, PushFileFacts DEF Change

LEMMA PutNodeType ==
  ASSUME GitType, NEW id \in NodeIds, NEW f \in Files, NEW from \in Bases, NEW to \in Contents,
         PutNode(id, f, from, to)
  PROVE  nodes' \in [DOMAIN nodes' -> NodeRecords] /\ DOMAIN nodes' \subseteq NodeIds
<1> DEFINE node == [file |-> f, parent |-> tracked[f].head, from |-> from, to |-> to,
                    status |-> "active"]
<1>1. node \in NodeRecords
  BY DEF NodeRecords, GitType
<1>2. nodes' = Extend(nodes, id, node)
  BY DEF PutNode
<1> HIDE DEF node
<1>3. nodes' \in [DOMAIN nodes \cup {id} -> NodeRecords]
  BY <1>1, <1>2, ExtendType DEF GitType
<1>4. DOMAIN nodes' = DOMAIN nodes \cup {id}
  BY <1>2, ExtendFacts
<1> QED
  BY <1>3, <1>4 DEF GitType

LEMMA SetStatusType ==
  ASSUME GitType, NEW id, NEW to \in {"superseded", "merged"}, SetStatus(id, to)
  PROVE  /\ nodes' \in [DOMAIN nodes' -> NodeRecords] /\ DOMAIN nodes' = DOMAIN nodes
BY DEF SetStatus, GitType, NodeRecords

LEMMA IngestType ==
  ASSUME GitType, PushInv, NEW p \in Pushes,
         \/ DiffFile(p) \/ CreatePatch(p) \/ AddPushNode(p)
         \/ PutPushSet(p) \/ ProposeMirror(p)
  PROVE  GitType'
<1>1. CASE DiffFile(p)
  <2> DEFINE c    == Change(p)
             base == IF tracked[c.file].base = None THEN c.base ELSE tracked[c.file].base
             next == IF base = c.new THEN "failed" ELSE "changed"
  <2>1. c.file \in Files /\ base \in Bases
    BY <1>1, ChangeFacts DEF DiffFile, GitType, Bases
  <2>2. next \in {"failed", "changed"}
    OBVIOUS
  <2>3. /\ tracked' = [tracked EXCEPT ![c.file].base = base]
        /\ ingests' = [ingests EXCEPT ![p].pc = next]
        /\ UNCHANGED <<nodes, pushSets, records, mirror, merges, commits>>
    BY <1>1, Zenon DEF DiffFile
  <2> HIDE DEF c, base, next
  <2>4. tracked' \in [Files -> [head : NodeIds \cup {None}, base : Bases]]
    BY <2>1, <2>3 DEF GitType
  <2>5. ingests' \in [Pushes -> IngestRecords]
    BY <2>2, <2>3 DEF GitType, IngestRecords
  <2> QED
    BY <2>3, <2>4, <2>5 DEF GitType
<1>2. CASE CreatePatch(p)
  <2>1. tracked[Change(p).file].base \in Bases
    BY <1>2, ChangeFacts DEF CreatePatch, GitType
  <2>2. ingests' \in [Pushes -> IngestRecords]
    BY <1>2, <2>1 DEF CreatePatch, GitType, IngestRecords
  <2> QED
    BY <1>2, <2>2 DEF CreatePatch, GitType
<1>3. CASE AddPushNode(p)
  <2>1. /\ PushNode(p, ingests[p].file) \in NodeIds
        /\ Change(p).file \in Files /\ Change(p).new \in Contents
    BY <1>3, ChangeFacts, PushNodeIds DEF AddPushNode
  <2>2. ingests[p].base \in Bases
    BY DEF GitType, IngestRecords
  <2>3. nodes' \in [DOMAIN nodes' -> NodeRecords] /\ DOMAIN nodes' \subseteq NodeIds
    BY <1>3, <2>1, <2>2, PutNodeType DEF AddPushNode
  <2>4. ingests' \in [Pushes -> IngestRecords]
    BY <1>3 DEF AddPushNode, GitType, IngestRecords, Bases
  <2> QED
    BY <1>3, <2>3, <2>4 DEF AddPushNode, GitType
<1>4. CASE PutPushSet(p)
  BY <1>4 DEF PutPushSet, GitType, IngestRecords
<1>5. CASE ProposeMirror(p)
  BY <1>5 DEF ProposeMirror, GitType, IngestRecords
<1> QED
  BY <1>1, <1>2, <1>3, <1>4, <1>5

LEMMA MergeType ==
  ASSUME GitType, MergeInv, DOMAIN pushSets \subseteq Pushes, NEW m \in Merges,
         \/ ApplyMergeResult(m) \/ CreateMergePatch(m)
         \/ AddMergeNode(m) \/ CollectSuperseded(m)
         \/ \E n \in NodeIds : Supersede(m, n)
         \/ MarkMerged(m) \/ SetBranchFileHead(m)
  PROVE  GitType'
<1> MergeFile[m] \in Files /\ Decided[m] \in Contents
  BY GitAssumption
<1> Active(MergeFile[m]) \subseteq NodeIds
  BY DEF Active, GitType
<1>2. CASE ApplyMergeResult(m)
  <2>1. \/ merges' = [merges EXCEPT ![m].pc = "failed"]
        \/ \E ids \in SUBSET DOMAIN nodes :
             merges' = [merges EXCEPT ![m].pc = "changed", ![m].ids = ids]
    BY <1>2, Zenon DEF ApplyMergeResult
  <2>2. CASE merges' = [merges EXCEPT ![m].pc = "failed"]
    BY <1>2, <2>2 DEF ApplyMergeResult, GitType, MergeRecords
  <2>3. ASSUME NEW ids \in SUBSET DOMAIN nodes,
               merges' = [merges EXCEPT ![m].pc = "changed", ![m].ids = ids]
        PROVE  GitType'
    <3>1. merges' \in [Merges -> MergeRecords]
      BY <2>3 DEF GitType, MergeRecords
    <3> QED
      BY <1>2, <3>1 DEF ApplyMergeResult, GitType
  <2> QED
    BY <2>1, <2>2, <2>3
<1>3. CASE CreateMergePatch(m)
  <2>1. merges' \in [Merges -> MergeRecords]
    BY <1>3 DEF CreateMergePatch, GitType, MergeRecords
  <2> QED
    BY <1>3, <2>1 DEF CreateMergePatch, GitType
<1>4. CASE AddMergeNode(m)
  <2>1. merges[m].base \in Bases
    BY DEF GitType, MergeRecords
  <2>2. nodes' \in [DOMAIN nodes' -> NodeRecords] /\ DOMAIN nodes' \subseteq NodeIds
    BY <1>4, <2>1, MergeNodeIds, PutNodeType DEF AddMergeNode
  <2>3. merges' \in [Merges -> MergeRecords]
    BY <1>4 DEF AddMergeNode, GitType, MergeRecords
  <2> QED
    BY <1>4, <2>2, <2>3 DEF AddMergeNode, GitType
<1>5. CASE CollectSuperseded(m)
  <2> DEFINE left == IF merges[m].ids = {} THEN Active(MergeFile[m]) \ {MergeNode(m)}
                     ELSE {n \in merges[m].ids \cap DOMAIN nodes : nodes[n].file = MergeFile[m]}
  <2>1. merges' = [merges EXCEPT ![m].pc = "superseding", ![m].ids = left]
    BY <1>5 DEF CollectSuperseded
  <2>2. left \subseteq NodeIds
    BY DEF GitType
  <2> HIDE DEF left
  <2>3. merges' \in [Merges -> MergeRecords]
    BY <2>1, <2>2 DEF GitType, MergeRecords
  <2> QED
    BY <1>5, <2>3 DEF CollectSuperseded, GitType
<1>6. ASSUME NEW n \in NodeIds, Supersede(m, n)
      PROVE  GitType'
  <2>1. merges' \in [Merges -> MergeRecords]
    BY <1>6 DEF Supersede, GitType, MergeRecords
  <2> QED
    BY <1>6, <2>1, SetStatusType DEF Supersede, GitType
<1>7. CASE MarkMerged(m)
  <2>1. merges' \in [Merges -> MergeRecords]
    BY <1>7 DEF MarkMerged, GitType, MergeRecords
  <2> QED
    BY <1>7, <2>1, SetStatusType DEF MarkMerged, GitType
<1>8. CASE SetBranchFileHead(m)
  <2>1. merges' \in [Merges -> MergeRecords]
    BY <1>8 DEF SetBranchFileHead, GitType, MergeRecords
  <2>2. tracked' \in [Files -> [head : NodeIds \cup {None}, base : Bases]]
    BY <1>8, MergeNodeIds, SMTT(30) DEF SetBranchFileHead, GitType, Bases
  <2> QED
    BY <1>8, <2>1, <2>2 DEF SetBranchFileHead, GitType
<1> QED
  BY <1>2, <1>3, <1>4, <1>5, <1>6, <1>7, <1>8

LEMMA CommitType ==
  ASSUME GitType, NEW c \in Commits,
         \/ PrepareCommit(c) \/ CreateGroupedCommit(c)
         \/ \E f \in Files : CheckFile(c, f) \/ ReadFile(c, f)
         \/ GitFails(c) \/ PutCommitRecord(c) \/ MarkCommitted(c) \/ ClearMirror(c)
  PROVE  GitType'
<1>1. UNCHANGED <<tracked, nodes, ingests, merges>> /\ DOMAIN mirror' = DOMAIN mirror
  BY DEF PrepareCommit, CreateGroupedCommit, CheckFile, ReadFile, GitFails, PutCommitRecord,
         MarkCommitted, ClearMirror
<1> SUFFICES commits' \in [Commits -> CommitRecords]
  BY <1>1 DEF GitType
<1> USE DEF GitType, CommitRecords
<1>2. CASE PrepareCommit(c)
  BY <1>2 DEF PrepareCommit
<1>3. CASE CreateGroupedCommit(c)
  BY <1>3 DEF CreateGroupedCommit
<1>4. ASSUME NEW f \in Files, CheckFile(c, f)
      PROVE  commits' \in [Commits -> CommitRecords]
  <2>1. PICK next \in {"preparing", "idle"}, resolved \in SUBSET Files :
          commits' = [commits EXCEPT ![c].pc = next, ![c].resolved = resolved]
    <3> DEFINE resolved == commits[c].resolved \cup {f}
               next == IF Active(f) = {} /\ resolved # FilesOf(CommitPush[c])
                       THEN "preparing" ELSE "idle"
               now  == IF Active(f) = {} THEN resolved ELSE {}
    <3>1. next \in {"preparing", "idle"} /\ now \in SUBSET Files
      OBVIOUS
    <3>2. commits' = [commits EXCEPT ![c].pc = next, ![c].resolved = now]
      BY <1>4, Zenon DEF CheckFile
    <3> QED
      BY <3>1, <3>2, Zenon
  <2> QED
    BY <2>1
<1>5. ASSUME NEW f \in Files, ReadFile(c, f)
      PROVE  commits' \in [Commits -> CommitRecords]
  <2> DEFINE files == Extend(commits[c].files, f, tracked[f].base)
  <2>1. files \in FileContents
    <3> commits[c].files \in FileContents
      OBVIOUS
    <3>1. PICK D \in SUBSET Files : commits[c].files \in [D -> Bases]
      BY Zenon DEF FileContents
    <3>2. files \in [D \cup {f} -> Bases]
      BY <3>1 DEF Extend
    <3>3. D \cup {f} \in SUBSET Files
      OBVIOUS
    <3> QED
      BY <3>2, <3>3 DEF FileContents
  <2>2. commits' = [commits EXCEPT ![c].files = files]
    BY <1>5 DEF ReadFile
  <2> HIDE DEF files
  <2> QED
    BY <1>5, <2>1, <2>2 DEF ReadFile
<1>6. CASE GitFails(c)
  BY <1>6 DEF GitFails
<1>7. CASE PutCommitRecord(c)
  BY <1>7 DEF PutCommitRecord
<1>8. CASE MarkCommitted(c)
  BY <1>8 DEF MarkCommitted
<1>9. CASE ClearMirror(c)
  BY <1>9 DEF ClearMirror
<1> QED
  BY <1>2, <1>3, <1>4, <1>5, <1>6, <1>7, <1>8, <1>9
-----------------------------------------------------------------------------
(***************************************************************************)
(* What the steps change.                                                  *)
(***************************************************************************)

IngestStep(p) == DiffFile(p) \/ CreatePatch(p) \/ AddPushNode(p) \/ PutPushSet(p) \/ ProposeMirror(p)

MergeStep(m) ==
  \/ ApplyMergeResult(m) \/ CreateMergePatch(m) \/ AddMergeNode(m)
  \/ CollectSuperseded(m) \/ (\E n \in NodeIds : Supersede(m, n))
  \/ MarkMerged(m) \/ SetBranchFileHead(m)

CommitStep(c) ==
  \/ PrepareCommit(c) \/ CreateGroupedCommit(c)
  \/ (\E f \in Files : CheckFile(c, f) \/ ReadFile(c, f))
  \/ GitFails(c) \/ PutCommitRecord(c) \/ MarkCommitted(c) \/ ClearMirror(c)

LEMMA StepsOfNext ==
  ASSUME [Next]_vars
  PROVE  \/ UNCHANGED vars
         \/ \E p \in Pushes : IngestStep(p)
         \/ \E m \in Merges : MergeStep(m)
         \/ \E c \in Commits : CommitStep(c)
BY Zenon DEF Next, IngestStep, MergeStep, CommitStep

\* The only steps that change nodes, and what they do to them.
LEMMA IngestFrame ==
  ASSUME NEW p, IngestStep(p)
  PROVE  /\ UNCHANGED <<records, merges, commits>>
         /\ UNCHANGED tracked \/ DiffFile(p)
         /\ UNCHANGED nodes \/ AddPushNode(p)
         /\ UNCHANGED pushSets \/ PutPushSet(p)
         /\ UNCHANGED mirror \/ ProposeMirror(p)
BY DEF IngestStep, DiffFile, CreatePatch, AddPushNode, PutPushSet, ProposeMirror

LEMMA MergeFrame ==
  ASSUME NEW m, MergeStep(m)
  PROVE  /\ UNCHANGED <<pushSets, records, mirror, ingests, commits>>
         /\ UNCHANGED tracked \/ SetBranchFileHead(m)
         /\ UNCHANGED nodes \/ AddMergeNode(m) \/ (\E n \in NodeIds : Supersede(m, n)) \/ MarkMerged(m)
BY DEF MergeStep, ApplyMergeResult, CreateMergePatch, AddMergeNode,
       CollectSuperseded, Supersede, MarkMerged, SetBranchFileHead

LEMMA CommitFrame ==
  ASSUME NEW c, CommitStep(c)
  PROVE  /\ UNCHANGED <<tracked, nodes, ingests, merges>>
         /\ UNCHANGED pushSets \/ MarkCommitted(c)
         /\ UNCHANGED records \/ GitFails(c) \/ PutCommitRecord(c)
         /\ UNCHANGED mirror \/ ClearMirror(c)
BY DEF CommitStep, PrepareCommit, CreateGroupedCommit, CheckFile, ReadFile, GitFails,
       PutCommitRecord, MarkCommitted, ClearMirror

LEMMA PutNodeFacts ==
  ASSUME NEW id, NEW f, NEW from, NEW to, PutNode(id, f, from, to)
  PROVE  /\ DOMAIN nodes' = DOMAIN nodes \cup {id}
         /\ \A n \in DOMAIN nodes : n # id => nodes'[n] = nodes[n]
         /\ nodes'[id].file = f /\ nodes'[id].parent = tracked[f].head
         /\ nodes'[id].from = from /\ nodes'[id].to = to /\ nodes'[id].status = "active"
<1> DEFINE node == [file |-> f, parent |-> tracked[f].head, from |-> from, to |-> to,
                    status |-> "active"]
<1>1. nodes' = Extend(nodes, id, node)
  BY DEF PutNode
<1> HIDE DEF node
<1>2. /\ DOMAIN nodes' = DOMAIN nodes \cup {id}
      /\ \A n \in DOMAIN nodes : n # id => nodes'[n] = nodes[n]
      /\ nodes'[id] = node
  BY <1>1 DEF Extend
<1> QED
  BY <1>2 DEF node

LEMMA SetStatusFacts ==
  ASSUME GitType, NEW id, NEW to, SetStatus(id, to)
  PROVE  /\ DOMAIN nodes' = DOMAIN nodes
         /\ \A n \in DOMAIN nodes :
              /\ nodes'[n].file = nodes[n].file /\ nodes'[n].parent = nodes[n].parent
              /\ nodes'[n].from = nodes[n].from /\ nodes'[n].to = nodes[n].to
              /\ n # id => nodes'[n].status = nodes[n].status
         /\ id \in DOMAIN nodes => nodes'[id].status = to
BY DEF SetStatus, GitType, NodeRecords

\* Nothing is ever removed, and only the status of a node changes.
LEMMA NodesStay ==
  ASSUME GitInv, [Next]_vars
  PROVE  \A n \in DOMAIN nodes :
           /\ n \in DOMAIN nodes' /\ nodes'[n].file = nodes[n].file
           /\ nodes'[n].parent = nodes[n].parent /\ nodes'[n].from = nodes[n].from
           /\ nodes'[n].to = nodes[n].to
<1>1. ASSUME NEW p \in Pushes, AddPushNode(p)
      PROVE  /\ DOMAIN nodes' = DOMAIN nodes \cup {PushNode(p, ingests[p].file)}
             /\ \A n \in DOMAIN nodes : nodes'[n] = nodes[n]
  <2>1. ingests[p].file \in DOMAIN PushFiles[p]
    BY <1>1, ChangeFacts DEF AddPushNode, GitInv
  <2>2. ~(ingests[p].file < ingests[p].file)
    BY DEF GitInv, GitType, IngestRecords
  <2>3. PushNode(p, ingests[p].file) \notin DOMAIN nodes
    BY <2>1, <2>2 DEF GitInv, PushInv, PushOk
  <2> QED
    BY <1>1, <2>3 DEF AddPushNode, PutNode, Extend
<1>2. ASSUME NEW m \in Merges, AddMergeNode(m)
      PROVE  \A n \in DOMAIN nodes : n \in DOMAIN nodes' /\ nodes'[n] = nodes[n]
  <2>1. MergeNode(m) \notin DOMAIN nodes
    BY <1>2 DEF GitInv, MergeInv, MergeOk, AddMergeNode
  <2> QED
    BY <1>2, <2>1, PutNodeFacts DEF AddMergeNode
<1>3. ASSUME NEW m \in Merges, NEW n \in NodeIds, Supersede(m, n)
      PROVE  SetStatus(n, "superseded")
  BY <1>3 DEF Supersede
<1>4. ASSUME NEW m \in Merges, MarkMerged(m)
      PROVE  SetStatus(MergeNode(m), "merged")
  BY <1>4 DEF MarkMerged
<1>5. GitType
  BY DEF GitInv
<1>6. CASE UNCHANGED nodes
  BY <1>6
<1>7. ASSUME NEW p \in Pushes, IngestStep(p)
      PROVE  UNCHANGED nodes \/ \A n \in DOMAIN nodes : n \in DOMAIN nodes' /\ nodes'[n] = nodes[n]
  BY <1>1, <1>7, IngestFrame
<1>8. ASSUME NEW m \in Merges, MergeStep(m)
      PROVE  \/ UNCHANGED nodes
             \/ \A n \in DOMAIN nodes : n \in DOMAIN nodes' /\ nodes'[n] = nodes[n]
             \/ \E id, to : SetStatus(id, to)
  BY <1>2, <1>3, <1>4, <1>8, MergeFrame
<1>9. \/ UNCHANGED nodes
      \/ \A n \in DOMAIN nodes : n \in DOMAIN nodes' /\ nodes'[n] = nodes[n]
      \/ \E id, to : SetStatus(id, to)
  BY <1>7, <1>8, StepsOfNext, CommitFrame DEF vars
<1> QED
  BY <1>5, <1>6, <1>9, SetStatusFacts

\* Which steps make nodes.
LEMMA NewNodes ==
  ASSUME GitInv
  PROVE  /\ \A p \in Pushes : AddPushNode(p) =>
              DOMAIN nodes' = DOMAIN nodes \cup {PushNode(p, ingests[p].file)}
         /\ \A p \in Pushes : IngestStep(p) /\ ~AddPushNode(p) => DOMAIN nodes' = DOMAIN nodes
         /\ \A m \in Merges : AddMergeNode(m) => DOMAIN nodes' = DOMAIN nodes \cup {MergeNode(m)}
         /\ \A m \in Merges : MergeStep(m) /\ ~AddMergeNode(m) => DOMAIN nodes' = DOMAIN nodes
<1>1. ASSUME NEW p \in Pushes, AddPushNode(p)
      PROVE  DOMAIN nodes' = DOMAIN nodes \cup {PushNode(p, ingests[p].file)}
  BY <1>1, PutNodeFacts DEF AddPushNode
<1>2. ASSUME NEW m \in Merges, AddMergeNode(m)
      PROVE  DOMAIN nodes' = DOMAIN nodes \cup {MergeNode(m)}
  BY <1>2, PutNodeFacts DEF AddMergeNode
<1>3. ASSUME NEW m \in Merges, MergeStep(m), ~AddMergeNode(m)
      PROVE  DOMAIN nodes' = DOMAIN nodes
  <2>1. UNCHANGED nodes \/ \E id, to : SetStatus(id, to)
    BY <1>3, MergeFrame DEF Supersede, MarkMerged
  <2> QED
    BY <2>1 DEF SetStatus
<1> QED
  BY <1>1, <1>2, <1>3, IngestFrame
-----------------------------------------------------------------------------
(***************************************************************************)
(* A push is registered when all its nodes are stored.                     *)
(***************************************************************************)

LEMMA PushStep ==
  ASSUME GitInv, [Next]_vars
  PROVE  PushInv'
<1> SUFFICES ASSUME NEW q \in Pushes
             PROVE  PushOk(q)'
  BY DEF PushInv
<1>1. GitType /\ PushInv /\ PushOk(q)
  BY DEF GitInv, PushInv
<1>2. /\ ingests[q].file \in Nat /\ Len(PushFiles[q]) \in Nat
      /\ DOMAIN PushFiles[q] = 1..Len(PushFiles[q])
  BY <1>1, PushFileFacts DEF GitType, IngestRecords
<1>3. \A i \in DOMAIN PushFiles[q] :
        PushNode(q, i) \in DOMAIN nodes => /\ PushNode(q, i) \in DOMAIN nodes'
                                           /\ nodes'[PushNode(q, i)].file = PushFiles[q][i].file
  BY <1>1, NodesStay DEF PushOk
<1>4. ASSUME ingests'[q].file = ingests[q].file,
             ingests'[q].pc \in {"changed", "patched"} => ingests[q].file <= Len(PushFiles[q]),
             \A i \in DOMAIN PushFiles[q] :
               PushNode(q, i) \in DOMAIN nodes' => PushNode(q, i) \in DOMAIN nodes,
             q \in DOMAIN pushSets' => NodesOf(q) \subseteq DOMAIN nodes',
             ingests'[q].pc = "registered" => q \in DOMAIN pushSets'
      PROVE  PushOk(q)'
  BY <1>1, <1>3, <1>4 DEF PushOk
<1>5. q \in DOMAIN pushSets => NodesOf(q) \subseteq DOMAIN nodes'
  BY <1>1, NodesStay DEF PushOk
<1>6. ASSUME UNCHANGED ingests, DOMAIN pushSets' = DOMAIN pushSets,
             \A i \in DOMAIN PushFiles[q] :
               PushNode(q, i) \in DOMAIN nodes' => PushNode(q, i) \in DOMAIN nodes
      PROVE  PushOk(q)'
  BY <1>1, <1>4, <1>5, <1>6 DEF PushOk
<1>7. ASSUME NEW p \in Pushes, IngestStep(p)
      PROVE  PushOk(q)'
  <2>1. CASE DiffFile(p)
    <3>1. /\ UNCHANGED <<nodes, pushSets>>
          /\ \E next \in {"failed", "changed"} : ingests' = [ingests EXCEPT ![p].pc = next]
          /\ ingests[p].file <= Len(PushFiles[p])
      BY <2>1, Zenon DEF DiffFile
    <3>2. ingests'[q].file = ingests[q].file /\ ingests'[q].pc \in {ingests[q].pc, "failed", "changed"}
      BY <1>1, <3>1 DEF GitType, IngestRecords
    <3>3. ingests'[q].pc # ingests[q].pc => q = p
      BY <1>1, <3>1 DEF GitType, IngestRecords
    <3> QED
      BY <1>1, <1>4, <3>1, <3>2, <3>3 DEF PushOk
  <2>2. CASE CreatePatch(p)
    <3>1. /\ ingests'[q].file = ingests[q].file
          /\ ingests'[q].pc = IF p = q THEN "patched" ELSE ingests[q].pc
      BY <1>1, <2>2 DEF CreatePatch, GitType, IngestRecords
    <3>2. UNCHANGED <<nodes, pushSets>> /\ ingests[p].pc = "changed"
      BY <2>2 DEF CreatePatch
    <3> QED
      BY <1>1, <1>4, <1>5, <3>1, <3>2 DEF PushOk
  <2>3. CASE AddPushNode(p)
    <3>1. /\ DOMAIN nodes' = DOMAIN nodes \cup {PushNode(p, ingests[p].file)}
          /\ ingests[p].file \in DOMAIN PushFiles[p]
          /\ UNCHANGED pushSets
      BY <1>1, <2>3, NewNodes, ChangeFacts DEF AddPushNode
    <3>2. CASE p = q
      <4>1. ingests'[q].file = ingests[q].file + 1 /\ ingests'[q].pc = "files"
        BY <1>1, <2>3, <3>2 DEF AddPushNode, GitType, IngestRecords
      <4>2. \A i \in DOMAIN PushFiles[q] :
              PushNode(q, i) \in DOMAIN nodes' <=> i < ingests[q].file \/ i = ingests[q].file
        <5> TAKE i \in DOMAIN PushFiles[q]
        <5>1. PushNode(q, i) = PushNode(p, ingests[p].file) <=> i = ingests[q].file
          BY <3>2, IdsDiffer, Zenon
        <5>2. PushNode(q, i) \in DOMAIN nodes <=> i < ingests[q].file
          BY <1>1 DEF PushOk
        <5> QED
          BY <3>1, <5>1, <5>2
      <4>3. nodes'[PushNode(q, ingests[q].file)].file = PushFiles[q][ingests[q].file].file
        <5>1. PutNode(PushNode(q, ingests[q].file), PushFiles[q][ingests[q].file].file,
                      ingests[q].base, PushFiles[q][ingests[q].file].new)
          BY <2>3, <3>2 DEF AddPushNode, Change
        <5> QED
          BY <5>1 DEF PutNode, Extend
      <4>4. \A i \in DOMAIN PushFiles[q] : PushNode(q, i) \in DOMAIN nodes' =>
              nodes'[PushNode(q, i)].file = PushFiles[q][i].file
        BY <1>1, <1>3, <4>2, <4>3 DEF PushOk
      <4>5. \A i \in DOMAIN PushFiles[q] : i < ingests'[q].file <=> i < ingests[q].file \/ i = ingests[q].file
        BY <1>2, <4>1
      <4> QED
        BY <1>5, <3>1, <4>1, <4>2, <4>4, <4>5 DEF PushOk
    <3>3. CASE p # q
      <4>1. ingests'[q] = ingests[q]
        BY <1>1, <2>3, <3>3 DEF AddPushNode, GitType
      <4>2. \A i \in DOMAIN PushFiles[q] :
              PushNode(q, i) \in DOMAIN nodes' => PushNode(q, i) \in DOMAIN nodes
        BY <3>1, <3>3, IdsDiffer
      <4> QED
        BY <1>1, <1>4, <1>5, <3>1, <4>1, <4>2 DEF PushOk
    <3> QED
      BY <3>2, <3>3
  <2>4. CASE PutPushSet(p)
    <3>1. /\ DOMAIN pushSets' = DOMAIN pushSets \cup {p}
          /\ UNCHANGED nodes
          /\ ingests'[q].file = ingests[q].file
          /\ ingests'[q].pc = IF p = q THEN "registered" ELSE ingests[q].pc
      <4>1. DOMAIN pushSets' = DOMAIN pushSets \cup {p} /\ UNCHANGED nodes
        BY <2>4 DEF PutPushSet, Extend
      <4>2. ingests' = [ingests EXCEPT ![p].pc = "registered"]
        BY <2>4 DEF PutPushSet
      <4> QED
        BY <1>1, <4>1, <4>2 DEF GitType, IngestRecords
    <3>2. p = q => NodesOf(q) \subseteq DOMAIN nodes
      BY <1>1, <1>2, <2>4 DEF PutPushSet, PushOk, NodesOf
    <3> QED
      BY <1>1, <1>4, <1>5, <3>1, <3>2 DEF PushOk
  <2>5. CASE ProposeMirror(p)
    <3>1. /\ UNCHANGED <<nodes, pushSets>>
          /\ ingests'[q].file = ingests[q].file
          /\ ingests'[q].pc = IF p = q THEN "done" ELSE ingests[q].pc
      BY <1>1, <2>5 DEF ProposeMirror, GitType, IngestRecords
    <3> QED
      BY <1>1, <1>4, <1>5, <3>1 DEF PushOk
  <2> QED
    BY <1>7, <2>1, <2>2, <2>3, <2>4, <2>5 DEF IngestStep
<1>8. ASSUME NEW m \in Merges, MergeStep(m)
      PROVE  PushOk(q)'
  <2>1. DOMAIN nodes' \subseteq DOMAIN nodes \cup {MergeNode(m)}
    BY <1>8, NewNodes
  <2>2. \A i \in DOMAIN PushFiles[q] : PushNode(q, i) # MergeNode(m)
    BY IdsDiffer
  <2> QED
    BY <1>6, <1>8, <2>1, <2>2, MergeFrame
<1>9. ASSUME NEW c \in Commits, CommitStep(c)
      PROVE  PushOk(q)'
  BY <1>6, <1>9, CommitFrame DEF MarkCommitted
<1>10. CASE UNCHANGED vars
  BY <1>6, <1>10 DEF vars
<1> QED
  BY <1>7, <1>8, <1>9, <1>10, StepsOfNext

\* Registered pushes stay registered.
LEMMA PushSetsGrow ==
  ASSUME GitInv, [Next]_vars
  PROVE  DOMAIN pushSets \subseteq DOMAIN pushSets' /\ DOMAIN pushSets' \subseteq Pushes
<1>1. \A p \in Pushes : PutPushSet(p) => DOMAIN pushSets' = DOMAIN pushSets \cup {p}
  BY DEF PutPushSet, Extend
<1>2. \A c \in Commits : MarkCommitted(c) => DOMAIN pushSets' = DOMAIN pushSets
  BY DEF MarkCommitted
<1>3. DOMAIN pushSets \subseteq Pushes
  BY DEF GitInv, CommitInv
<1> QED
  BY <1>1, <1>2, <1>3, StepsOfNext, IngestFrame, MergeFrame, CommitFrame DEF vars

\* A commit's record is made by GitFails or PutCommitRecord, when all files are read.
LEMMA RecordKeeps ==
  ASSUME NEW c, NEW status, Record(c, status)
  PROVE  /\ DOMAIN records' = DOMAIN records \cup {c}
         /\ \A d \in DOMAIN records : d # c => records'[d] = records[d]
BY DEF Record, Extend

LEMMA RecordFacts ==
  ASSUME NEW c, NEW status, Record(c, status)
  PROVE  /\ records'[c].status = status /\ records'[c].files = commits[c].files
         /\ records'[c].resolved <=> commits[c].resolved # {}
<1> DEFINE now == commits[c].resolved # {}
           record == [status |-> status, resolved |-> now, files |-> commits[c].files]
<1>1. record.status = status /\ record.files = commits[c].files /\ record.resolved = now
  <2> HIDE DEF now
  <2> QED
    BY Zenon
<1>2. records' = Extend(records, c, record)
  BY DEF Record
<1> HIDE DEF record
<1>3. records'[c] = record
  BY <1>2 DEF Extend
<1> QED
  BY <1>1, <1>3, Zenon

LEMMA RecordedStep ==
  ASSUME GitInv, [Next]_vars
  PROVE  CommitInv'
<1>1. GitType /\ CommitInv
  BY DEF GitInv
<1>2. ASSUME UNCHANGED <<records, commits>>
      PROVE  CommitInv'
  BY <1>1, <1>2, PushSetsGrow DEF CommitInv, CommitOk
<1>3. ASSUME NEW c \in Commits, CommitStep(c)
      PROVE  CommitInv'
  <2>1. UNCHANGED records \/ \E status : Record(c, status)
    BY <1>3, CommitFrame DEF GitFails, PutCommitRecord
  <2>2. \/ UNCHANGED records
        \/ /\ DOMAIN records' = DOMAIN records \cup {c}
           /\ \A d \in DOMAIN records : d # c => records'[d] = records[d]
    BY <2>1 DEF Record, Extend
  <2>3. ASSUME NEW d \in Commits
        PROVE  CommitOk(d)'
    <3>1. CommitOk(d) /\ CommitOk(c)
      BY <1>1 DEF CommitInv
    <3>2. CASE d # c
      <4>1. commits'[d] = commits[d]
        BY <1>1, <1>3, <3>2 DEF GitType, CommitStep, PrepareCommit, CreateGroupedCommit,
                                CheckFile, ReadFile, GitFails, PutCommitRecord, MarkCommitted,
                                ClearMirror
      <4>2. /\ d \in DOMAIN records' <=> d \in DOMAIN records
            /\ d \in DOMAIN records => records'[d] = records[d]
        BY <2>2, <3>2
      <4> QED
        BY <3>1, <4>1, <4>2, PushSetsGrow DEF CommitOk
    <3>3. CASE d = c
      <4>1. CASE PrepareCommit(c) \/ CreateGroupedCommit(c)
        <5>1. /\ UNCHANGED records /\ commits[c].pc = "idle"
              /\ commits'[c].pc \in {"preparing", "reading"}
              /\ CommitPush[c] \in DOMAIN pushSets
          BY <1>1, <4>1 DEF PrepareCommit, CreateGroupedCommit, MayCommit, GitType, CommitRecords
        <5> QED
          BY <3>1, <3>3, <5>1, PushSetsGrow DEF CommitOk
      <4>2. ASSUME NEW f \in Files, CheckFile(c, f) \/ ReadFile(c, f)
            PROVE  CommitOk(d)'
        <5>1. /\ UNCHANGED records /\ commits[c].pc \in {"preparing", "reading"}
              /\ commits'[c].pc \in {"idle", "preparing", "reading"}
          BY <1>1, <4>2 DEF CheckFile, ReadFile, GitType, CommitRecords
        <5> QED
          BY <3>1, <3>3, <5>1, PushSetsGrow DEF CommitOk
      <4>3. CASE GitFails(c)
        <5>1. commits[c].pc = "reading" /\ commits'[c].pc = "failed"
          BY <1>1, <4>3 DEF GitFails, FilesRead, GitType, CommitRecords
        <5> QED
          BY <3>1, <3>3, <5>1, PushSetsGrow DEF CommitOk
      <4>4. CASE PutCommitRecord(c)
        <5>1. commits[c].pc = "reading" /\ commits'[c].pc = "recorded"
          BY <1>1, <4>4 DEF PutCommitRecord, FilesRead, GitType, CommitRecords
        <5>2. c \in DOMAIN records' /\ records'[c].status = "created"
          BY <4>4, RecordKeeps, RecordFacts, Zenon DEF PutCommitRecord
        <5> QED
          BY <3>1, <3>3, <5>1, <5>2, PushSetsGrow DEF CommitOk
      <4>5. CASE MarkCommitted(c) \/ ClearMirror(c)
        <5>1. /\ UNCHANGED records /\ commits[c].pc \in {"recorded", "marked"}
              /\ commits'[c].pc \in {"marked", "done"}
          BY <1>1, <4>5 DEF MarkCommitted, ClearMirror, GitType, CommitRecords
        <5> QED
          BY <3>1, <3>3, <5>1, PushSetsGrow DEF CommitOk
      <4> QED
        BY <1>3, <4>1, <4>2, <4>3, <4>4, <4>5 DEF CommitStep
    <3> QED
      BY <3>2, <3>3
  <2> QED
    BY <1>1, <2>2, <2>3, PushSetsGrow DEF CommitInv
<1> QED
  BY <1>2, <1>3, StepsOfNext, IngestFrame, MergeFrame DEF vars

\* The status of a push is "committed" only after its record, and the mirror names only
\* registered pushes.
LEMMA RegisteredStep ==
  ASSUME GitInv, [Next]_vars
  PROVE  RegisteredPushesAreComplete'
<1>1. GitType /\ CommitInv /\ PushInv /\ RegisteredPushesAreComplete
  BY DEF GitInv
<1>2. \A p \in DOMAIN pushSets' : NodesOf(p) \subseteq DOMAIN nodes'
  BY PushStep, PushSetsGrow DEF PushInv, PushOk
<1>3. ASSUME NEW x \in DOMAIN records, records[x].status = "created"
      PROVE  x \in DOMAIN records' /\ records'[x].status = "created"
  <2>1. ASSUME NEW c \in Commits, FilesRead(c)
        PROVE  c # x
    BY <1>1, <2>1 DEF CommitInv, CommitOk, FilesRead
  <2>2. \/ UNCHANGED records
        \/ \E c \in Commits : \E status : Record(c, status) /\ FilesRead(c)
    BY StepsOfNext, IngestFrame, MergeFrame, CommitFrame DEF vars, GitFails, PutCommitRecord
  <2> QED
    BY <1>3, <2>1, <2>2, RecordKeeps
<1>4. ASSUME NEW p \in DOMAIN pushSets', pushSets'[p] = "committed"
      PROVE  \E x \in DOMAIN records' : CommitPush[x] = p /\ records'[x].status = "created"
  <2>1. CASE p \in DOMAIN pushSets /\ pushSets[p] = "committed"
    BY <1>1, <1>3, <2>1 DEF RegisteredPushesAreComplete
  <2>2. CASE ~(p \in DOMAIN pushSets /\ pushSets[p] = "committed")
    <3>1. ~ \E q \in Pushes : PutPushSet(q)
      BY <1>4, <2>2 DEF PutPushSet, Extend
    <3>2. PICK c \in Commits : MarkCommitted(c)
      BY <1>4, <2>2, <3>1, StepsOfNext, IngestFrame, MergeFrame, CommitFrame DEF vars
    <3>3. CommitPush[c] = p
      BY <1>4, <2>2, <3>2 DEF MarkCommitted
    <3>4. c \in DOMAIN records /\ records[c].status = "created"
      BY <1>1, <3>2 DEF CommitInv, CommitOk, MarkCommitted
    <3> QED
      BY <3>2, <3>3, <3>4 DEF MarkCommitted
  <2> QED
    BY <2>1, <2>2
<1>5. ASSUME NEW u \in Users, mirror'[u] # None
      PROVE  mirror'[u] \in DOMAIN pushSets' /\ PushUser[mirror'[u]] = u
  <2>1. CASE mirror'[u] = mirror[u]
    BY <1>1, <1>5, <2>1, PushSetsGrow DEF RegisteredPushesAreComplete
  <2>2. CASE mirror'[u] # mirror[u]
    <3>1. ~ \E c \in Commits : ClearMirror(c)
      BY <1>1, <1>5, <2>2 DEF ClearMirror, GitType
    <3>2. PICK p \in Pushes : ProposeMirror(p)
      BY <2>2, <3>1, StepsOfNext, IngestFrame, MergeFrame, CommitFrame DEF vars
    <3>3. mirror'[u] = p /\ PushUser[p] = u
      BY <1>1, <2>2, <3>2 DEF ProposeMirror, GitType
    <3>4. p \in DOMAIN pushSets
      BY <1>1, <3>2 DEF PushInv, PushOk, ProposeMirror
    <3> QED
      BY <3>3, <3>4, PushSetsGrow
  <2> QED
    BY <2>1, <2>2
<1> QED
  BY <1>2, <1>4, <1>5 DEF RegisteredPushesAreComplete
-----------------------------------------------------------------------------
(***************************************************************************)
(* Merges.                                                                 *)
(***************************************************************************)

\* What a step of a merge does to its locals, and that it leaves the others' alone.
LEMMA MergeLocals ==
  ASSUME GitType, NEW m \in Merges, MergeStep(m)
  PROVE  /\ \A x \in Merges : x # m => merges'[x] = merges[x]
         /\ ApplyMergeResult(m) =>
              /\ merges[m].pc = "idle" /\ merges'[m].pc \in {"failed", "changed"}
              /\ merges'[m].pc = "changed" => merges'[m].ids \subseteq DOMAIN nodes
         /\ CreateMergePatch(m) =>
              /\ merges[m].pc = "changed" /\ merges'[m].pc = "patched"
              /\ merges'[m].ids = merges[m].ids
              /\ merges'[m].base = tracked[MergeFile[m]].base
         /\ AddMergeNode(m) =>
              /\ merges[m].pc = "patched" /\ merges'[m].pc = "added"
              /\ merges'[m].ids = merges[m].ids
         /\ CollectSuperseded(m) =>
              /\ merges[m].pc = "added" /\ merges'[m].pc = "superseding"
              /\ merges'[m].ids =
                   IF merges[m].ids = {} THEN Active(MergeFile[m]) \ {MergeNode(m)}
                   ELSE {n \in merges[m].ids \cap DOMAIN nodes : nodes[n].file = MergeFile[m]}
         /\ \A n \in NodeIds : Supersede(m, n) =>
              /\ merges[m].pc = "superseding" /\ merges'[m].pc = "superseding"
              /\ merges'[m].ids = merges[m].ids \ {n}
         /\ MarkMerged(m) =>
              /\ merges[m].pc = "superseding" /\ merges'[m].pc = "merged"
              /\ merges'[m].ids = merges[m].ids
         /\ SetBranchFileHead(m) =>
              /\ merges[m].pc = "merged" /\ merges'[m].pc = "done"
              /\ merges'[m].ids = merges[m].ids
<1> USE DEF GitType, MergeRecords
<1>1. \A x \in Merges : x # m => merges'[x] = merges[x]
  BY DEF MergeStep, ApplyMergeResult, CreateMergePatch, AddMergeNode,
         CollectSuperseded, Supersede, MarkMerged, SetBranchFileHead
<1>2. ASSUME ApplyMergeResult(m)
      PROVE  /\ merges[m].pc = "idle" /\ merges'[m].pc \in {"failed", "changed"}
             /\ merges'[m].pc = "changed" => merges'[m].ids \subseteq DOMAIN nodes
  BY <1>2 DEF ApplyMergeResult
<1>3. ASSUME CollectSuperseded(m)
      PROVE  /\ merges[m].pc = "added" /\ merges'[m].pc = "superseding"
             /\ merges'[m].ids =
                  IF merges[m].ids = {} THEN Active(MergeFile[m]) \ {MergeNode(m)}
                  ELSE {n \in merges[m].ids \cap DOMAIN nodes : nodes[n].file = MergeFile[m]}
  BY <1>3 DEF CollectSuperseded
<1>4. ASSUME NEW n \in NodeIds, Supersede(m, n)
      PROVE  /\ merges[m].pc = "superseding" /\ merges'[m].pc = "superseding"
             /\ merges'[m].ids = merges[m].ids \ {n}
  BY <1>4 DEF Supersede
<1>5. CreateMergePatch(m) =>
           /\ merges[m].pc = "changed" /\ merges'[m].pc = "patched"
           /\ merges'[m].ids = merges[m].ids
           /\ merges'[m].base = tracked[MergeFile[m]].base
  BY DEF CreateMergePatch
<1>6. /\ AddMergeNode(m) =>
           /\ merges[m].pc = "patched" /\ merges'[m].pc = "added"
           /\ merges'[m].ids = merges[m].ids
      /\ MarkMerged(m) =>
           /\ merges[m].pc = "superseding" /\ merges'[m].pc = "merged"
           /\ merges'[m].ids = merges[m].ids
      /\ SetBranchFileHead(m) =>
           /\ merges[m].pc = "merged" /\ merges'[m].pc = "done"
           /\ merges'[m].ids = merges[m].ids
  BY DEF AddMergeNode, MarkMerged, SetBranchFileHead
<1> QED
  BY <1>1, <1>2, <1>3, <1>4, <1>5, <1>6, Zenon

\* The pcs of a merge, and that only three steps bring it into a state that others notice.
LEMMA MergeNodeStays ==
  ASSUME GitInv, [Next]_vars, NEW x \in Merges
  PROVE  /\ MergeNode(x) \in DOMAIN nodes => MergeNode(x) \in DOMAIN nodes'
         /\ MergeNode(x) \in DOMAIN nodes' \ DOMAIN nodes => AddMergeNode(x)
<1>1. GitType
  BY DEF GitInv
<1>2. ASSUME NEW p \in Pushes, IngestStep(p)
      PROVE  MergeNode(x) \in DOMAIN nodes' => MergeNode(x) \in DOMAIN nodes
  <2>1. DOMAIN nodes' \subseteq DOMAIN nodes \cup {PushNode(p, ingests[p].file)}
    BY <1>2, NewNodes
  <2>2. MergeNode(x) # PushNode(p, ingests[p].file)
    BY IdsDiffer
  <2> QED
    BY <2>1, <2>2
<1>3. ASSUME NEW m \in Merges, MergeStep(m), MergeNode(x) \in DOMAIN nodes' \ DOMAIN nodes
      PROVE  AddMergeNode(x)
  <2>1. AddMergeNode(m)
    BY <1>3, NewNodes
  <2>2. DOMAIN nodes' = DOMAIN nodes \cup {MergeNode(m)}
    BY <2>1, NewNodes
  <2>3. MergeNode(x) = MergeNode(m)
    BY <1>3, <2>2
  <2>4. x = m
    BY <2>3, IdsDiffer
  <2> QED
    BY <2>1, <2>4
<1>4. MergeNode(x) \in DOMAIN nodes' \ DOMAIN nodes => AddMergeNode(x)
  BY <1>2, <1>3, StepsOfNext, CommitFrame DEF vars
<1> QED
  BY <1>4, NodesStay

LEMMA MergesStep ==
  ASSUME GitInv, [Next]_vars
  PROVE  MergeInv'
<1> SUFFICES ASSUME NEW x \in Merges
             PROVE  MergeOk(x)'
  BY DEF MergeInv
<1>1. GitType /\ MergeInv /\ MergeOk(x)
  BY DEF GitInv, MergeInv
<1>2. CASE merges'[x] = merges[x]
  <2>1. ~AddMergeNode(x)
    BY <1>1, <1>2 DEF AddMergeNode, GitType, MergeRecords
  <2> QED
    BY <1>1, <1>2, <2>1, NodesStay, MergeNodeStays DEF MergeOk
<1>3. CASE merges'[x] # merges[x]
  <2>1. MergeStep(x)
    <3>1. PICK m \in Merges : MergeStep(m)
      BY <1>3, StepsOfNext, IngestFrame, CommitFrame DEF vars
    <3>2. m = x
      BY <1>1, <1>3, <3>1, MergeLocals
    <3> QED
      BY <3>1, <3>2
  <2>2. CASE AddMergeNode(x)
    <3>1. MergeNode(x) \in DOMAIN nodes'
      BY <2>2, NewNodes
    <3>2. nodes'[MergeNode(x)].file = MergeFile[x] /\ nodes'[MergeNode(x)].to = Decided[x]
      BY <2>2 DEF AddMergeNode, PutNode, Extend
    <3>3. merges'[x].pc = "added"
      BY <1>1, <2>1, <2>2, MergeLocals
    <3> QED
      BY <3>1, <3>2, <3>3 DEF MergeOk
  <2>3. CASE ~AddMergeNode(x)
    <3>1. MergeNode(x) \in DOMAIN nodes' <=> MergeNode(x) \in DOMAIN nodes
      BY <2>3, MergeNodeStays
    <3>2. merges'[x].pc \in {"added", "superseding", "merged", "done"}
            <=> merges[x].pc \in {"added", "superseding", "merged", "done"}
      BY <1>1, <2>1, <2>3, MergeLocals DEF MergeStep
    <3>3. ASSUME merges'[x].pc = "superseding", NEW n \in merges'[x].ids
          PROVE  n \in DOMAIN nodes /\ nodes[n].file = MergeFile[x]
      <4>1. CASE CollectSuperseded(x)
        BY <1>1, <2>1, <3>3, <4>1, MergeLocals DEF Active
      <4>2. CASE ~CollectSuperseded(x)
        <5>1. merges[x].pc = "superseding" /\ n \in merges[x].ids
          BY <1>1, <2>1, <2>3, <3>3, <4>2, MergeLocals DEF MergeStep
        <5> QED
          BY <1>1, <5>1 DEF MergeOk
      <4> QED
        BY <4>1, <4>2
    <3> QED
      BY <1>1, <3>1, <3>2, <3>3, NodesStay DEF MergeOk
  <2> QED
    BY <2>2, <2>3
<1> QED
  BY <1>2, <1>3
-----------------------------------------------------------------------------
(***************************************************************************)
(* The caller of an awaited file.                                          *)
(***************************************************************************)

\* What a step of a commit does to its locals.
LEMMA CommitLocals ==
  ASSUME GitType, NEW c \in Commits, CommitStep(c)
  PROVE  /\ \A d \in Commits : d # c => commits'[d] = commits[d]
         /\ PrepareCommit(c) =>
              /\ commits[c].pc = "idle" /\ commits'[c].pc = "preparing"
              /\ commits'[c].resolved = {} /\ commits'[c].files = commits[c].files
         /\ CreateGroupedCommit(c) =>
              /\ commits[c].pc = "idle" /\ commits'[c].pc = "reading"
              /\ commits'[c].resolved = commits[c].resolved
              /\ commits'[c].files = commits[c].files
         /\ \A f \in Files : CheckFile(c, f) =>
              /\ commits[c].pc = "preparing" /\ commits'[c].pc \in {"preparing", "idle"}
              /\ commits'[c].files = commits[c].files
              /\ \/ commits'[c].resolved = {}
                 \/ /\ Active(f) = {} /\ f \in FilesOf(CommitPush[c])
                    /\ commits'[c].resolved = commits[c].resolved \cup {f}
                    /\ commits'[c].resolved # FilesOf(CommitPush[c]) => commits'[c].pc = "preparing"
         /\ \A f \in Files : ReadFile(c, f) =>
              /\ commits[c].pc = "reading" /\ commits'[c].pc = "reading"
              /\ commits'[c].resolved = commits[c].resolved
              /\ f \in FilesOf(CommitPush[c])
              /\ commits'[c].files = Extend(commits[c].files, f, tracked[f].base)
         /\ GitFails(c) \/ PutCommitRecord(c) \/ MarkCommitted(c) \/ ClearMirror(c) =>
              /\ commits[c].pc \in {"reading", "recorded", "marked"}
              /\ commits'[c].pc \in {"failed", "recorded", "marked", "done"}
              /\ commits'[c].resolved = commits[c].resolved
              /\ commits'[c].files = commits[c].files
<1> USE DEF GitType, CommitRecords
<1>1. \A d \in Commits : d # c => commits'[d] = commits[d]
  BY DEF CommitStep, PrepareCommit, CreateGroupedCommit, CheckFile, ReadFile, GitFails,
         PutCommitRecord, MarkCommitted, ClearMirror
<1>2. /\ PrepareCommit(c) =>
           /\ commits[c].pc = "idle" /\ commits'[c].pc = "preparing"
           /\ commits'[c].resolved = {} /\ commits'[c].files = commits[c].files
      /\ CreateGroupedCommit(c) =>
           /\ commits[c].pc = "idle" /\ commits'[c].pc = "reading"
           /\ commits'[c].resolved = commits[c].resolved
           /\ commits'[c].files = commits[c].files
  BY DEF PrepareCommit, CreateGroupedCommit
<1>3. ASSUME NEW f \in Files, CheckFile(c, f)
      PROVE  /\ commits[c].pc = "preparing" /\ commits'[c].pc \in {"preparing", "idle"}
             /\ commits'[c].files = commits[c].files
             /\ \/ commits'[c].resolved = {}
                \/ /\ Active(f) = {} /\ f \in FilesOf(CommitPush[c])
                   /\ commits'[c].resolved = commits[c].resolved \cup {f}
                   /\ commits'[c].resolved # FilesOf(CommitPush[c]) => commits'[c].pc = "preparing"
  BY <1>3 DEF CheckFile
<1>4. ASSUME NEW f \in Files, ReadFile(c, f)
      PROVE  /\ commits[c].pc = "reading" /\ commits'[c].pc = "reading"
             /\ commits'[c].resolved = commits[c].resolved
             /\ f \in FilesOf(CommitPush[c])
             /\ commits'[c].files = Extend(commits[c].files, f, tracked[f].base)
  BY <1>4 DEF ReadFile
<1>5. GitFails(c) \/ PutCommitRecord(c) \/ MarkCommitted(c) \/ ClearMirror(c) =>
        /\ commits[c].pc \in {"reading", "recorded", "marked"}
        /\ commits'[c].pc \in {"failed", "recorded", "marked", "done"}
        /\ commits'[c].resolved = commits[c].resolved
        /\ commits'[c].files = commits[c].files
  BY DEF GitFails, PutCommitRecord, MarkCommitted, ClearMirror, FilesRead
<1> QED
  BY <1>1, <1>2, <1>3, <1>4, <1>5, Zenon

\* A call of the merge flow starts with ApplyMergeResult, and nothing else happens then.
LEMMA StartsMerging ==
  ASSUME GitType, [Next]_vars, NEW m \in Merges, Merging(m)', ~Merging(m)
  PROVE  /\ MayCall(MergeFile[m]) /\ tracked[MergeFile[m]].base # None
         /\ UNCHANGED <<tracked, nodes, commits>>
         /\ \A x \in Merges : x # m => merges'[x] = merges[x]
<1>1. PICK x \in Merges : MergeStep(x)
  BY StepsOfNext, IngestFrame, CommitFrame DEF vars, Merging
<1>2. x = m
  BY <1>1, MergeLocals DEF Merging
<1>3. ApplyMergeResult(m)
  BY <1>1, <1>2, MergeLocals DEF Merging, MergeStep
<1> QED
  BY <1>1, <1>2, <1>3, MergeLocals DEF ApplyMergeResult

LEMMA StartsCommitting ==
  ASSUME GitType, [Next]_vars, NEW c \in Commits, Committing(c)', ~Committing(c)
  PROVE  MayCommit(c) /\ UNCHANGED merges
<1>1. PICK d \in Commits : CommitStep(d)
  BY StepsOfNext, IngestFrame, MergeFrame DEF vars, Committing
<1>2. d = c
  BY <1>1, CommitLocals DEF Committing
<1>3. PrepareCommit(c) \/ CreateGroupedCommit(c)
  BY <1>1, <1>2, CommitLocals DEF Committing, CommitStep
<1> QED
  BY <1>1, <1>3, CommitFrame DEF PrepareCommit, CreateGroupedCommit

LEMMA AwaitStep ==
  ASSUME GitInv, [Next]_vars
  PROVE  AwaitInv'
<1> GitType /\ AwaitInv
  BY DEF GitInv
<1> SUFFICES ASSUME NEW m \in Merges, MergeFile[m] \in Awaited, Merging(m)'
             PROVE  /\ \A x \in Merges : MergeFile[x] = MergeFile[m] /\ Merging(x)' => x = m
                    /\ \A c \in Commits : Committing(c)' => MergeFile[m] \notin FilesOf(CommitPush[c])
  BY DEF AwaitInv
<1>1. ASSUME NEW x \in Merges, MergeFile[x] = MergeFile[m], Merging(x)'
      PROVE  x = m
  <2>1. CASE Merging(m) /\ Merging(x)
    BY <1>1, <2>1 DEF AwaitInv
  <2>2. CASE ~Merging(m)
    <3>1. MayCall(MergeFile[m]) /\ (x # m => merges'[x] = merges[x])
      BY <2>2, StartsMerging
    <3>2. x # m => Merging(x)
      BY <1>1, <3>1 DEF Merging
    <3> QED
      BY <1>1, <3>1, <3>2 DEF MayCall
  <2>3. CASE ~Merging(x)
    <3>1. MayCall(MergeFile[x]) /\ (x # m => merges'[m] = merges[m])
      BY <1>1, <2>3, StartsMerging
    <3>2. x # m => Merging(m)
      BY <3>1 DEF Merging
    <3> QED
      BY <1>1, <3>1, <3>2 DEF MayCall
  <2> QED
    BY <2>1, <2>2, <2>3
<1>2. ASSUME NEW c \in Commits, Committing(c)'
      PROVE  MergeFile[m] \notin FilesOf(CommitPush[c])
  <2>1. CASE Merging(m) /\ Committing(c)
    BY <2>1 DEF AwaitInv
  <2>2. CASE ~Merging(m)
    <3>1. MayCall(MergeFile[m]) /\ UNCHANGED commits
      BY <2>2, StartsMerging
    <3> QED
      BY <1>2, <3>1 DEF MayCall, Committing
  <2>3. CASE ~Committing(c)
    <3>1. MayCommit(c) /\ UNCHANGED merges
      BY <1>2, <2>3, StartsCommitting
    <3>2. Merging(m)
      BY <3>1 DEF Merging
    <3> QED
      BY <3>1, <3>2 DEF MayCommit, MayCall
  <2> QED
    BY <2>1, <2>2, <2>3
<1> QED
  BY <1>1, <1>2
-----------------------------------------------------------------------------
(***************************************************************************)
(* Awaited files: what a running merge has read stays true, and developers *)
(* never see its node leave before it is merged.                           *)
(***************************************************************************)

\* A base that has been set is only changed by a promotion.
LEMMA FileStands ==
  ASSUME GitType, [Next]_vars, NEW f \in Files,
         ~ \E m \in Merges : MergeFile[m] = f /\ SetBranchFileHead(m)
  PROVE  /\ tracked'[f].head = tracked[f].head
         /\ tracked[f].base # None => tracked'[f].base = tracked[f].base
<1>1. ASSUME NEW p \in Pushes, DiffFile(p)
      PROVE  /\ tracked'[f].head = tracked[f].head
             /\ tracked[f].base # None => tracked'[f].base = tracked[f].base
  <2>1. \E base : /\ tracked[Change(p).file].base # None => base = tracked[Change(p).file].base
                  /\ tracked' = [tracked EXCEPT ![Change(p).file].base = base]
    BY <1>1, Zenon DEF DiffFile
  <2> QED
    BY <2>1 DEF GitType
<1>2. ASSUME NEW m \in Merges, SetBranchFileHead(m)
      PROVE  tracked'[f] = tracked[f]
  BY <1>2 DEF SetBranchFileHead, GitType
<1> QED
  BY <1>1, <1>2, StepsOfNext, IngestFrame, MergeFrame, CommitFrame DEF vars

\* A running merge of an awaited file is the one that promotes.
LEMMA FileStandsForMerge ==
  ASSUME GitInv, [Next]_vars, NEW m \in Merges, MergeFile[m] \in Awaited, Merging(m),
         ~SetBranchFileHead(m)
  PROVE  /\ tracked'[MergeFile[m]].head = tracked[MergeFile[m]].head
         /\ tracked'[MergeFile[m]].base = tracked[MergeFile[m]].base
<1>1. GitType /\ MergeFile[m] \in Files /\ tracked[MergeFile[m]].base # None
  BY GitAssumption DEF GitInv, AwaitedMergeInv, AwaitedMergeOk
<1>2. ASSUME NEW x \in Merges, MergeFile[x] = MergeFile[m], SetBranchFileHead(x)
      PROVE  FALSE
  <2>1. Merging(x)
    BY <1>2 DEF SetBranchFileHead, Merging
  <2> QED
    BY <1>2, <2>1 DEF GitInv, AwaitInv
<1> QED
  BY <1>1, <1>2, FileStands

\* A merge that is done stays so, and every merge goes forward.
LEMMA FinishedStays ==
  ASSUME GitInv, [Next]_vars, NEW m \in Merges
  PROVE  /\ merges[m].pc = "done" => merges'[m].pc = "done"
         /\ SetBranchFileHead(m) => merges'[m].pc = "done"
         /\ merges[m].pc \in {"superseding", "merged"} =>
              SetBranchFileHead(m) \/ merges'[m].pc \in {"superseding", "merged"}
<1>1. GitType
  BY DEF GitInv
<1>2. CASE merges'[m] = merges[m]
  <2>1. ~SetBranchFileHead(m)
    BY <1>1, <1>2 DEF SetBranchFileHead, GitType, MergeRecords
  <2> QED
    BY <1>2, <2>1
<1>3. CASE merges'[m] # merges[m]
  <2>1. PICK x \in Merges : MergeStep(x)
    BY <1>3, StepsOfNext, IngestFrame, CommitFrame DEF vars
  <2>2. x = m
    BY <1>1, <1>3, <2>1, MergeLocals
  <2> QED
    BY <1>1, <2>1, <2>2, MergeLocals DEF MergeStep
<1> QED
  BY <1>2, <1>3

LEMMA PromotionDecides ==
  ASSUME GitInv, [Next]_vars, NEW m \in Merges, SetBranchFileHead(m)
  PROVE  /\ tracked'[MergeFile[m]].head = MergeNode(m)
         /\ tracked'[MergeFile[m]].base = Decided[m]
         /\ Finished(m, MergeFile[m])' /\ IsDecided(MergeFile[m])'
<1>1. /\ tracked'[MergeFile[m]].head = MergeNode(m)
      /\ tracked'[MergeFile[m]].base = Decided[m]
  BY GitAssumption DEF GitInv, GitType, SetBranchFileHead
<1>2. Finished(m, MergeFile[m])'
  BY FinishedStays DEF Finished
<1> QED
  BY <1>1, <1>2 DEF IsDecided

\* The status of the node of a merge changes when the merge says so, or when a merge of
\* the file was given its id.
LEMMA MergeNodeStatus ==
  ASSUME GitInv, [Next]_vars, NEW x \in Merges,
         MergeNode(x) \in DOMAIN nodes, ~MarkMerged(x),
         ~ \E m \in Merges : MergeFile[m] = MergeFile[x] /\ Supersede(m, MergeNode(x))
  PROVE  nodes'[MergeNode(x)].status = nodes[MergeNode(x)].status
<1>1. GitType /\ MergeInv /\ MergeOk(x)
  BY DEF GitInv, MergeInv
<1>2. ASSUME NEW p \in Pushes, AddPushNode(p)
      PROVE  nodes'[MergeNode(x)] = nodes[MergeNode(x)]
  <2>1. MergeNode(x) # PushNode(p, ingests[p].file)
    BY IdsDiffer
  <2> QED
    BY <1>2, <2>1 DEF AddPushNode, PutNode, Extend
<1>3. ASSUME NEW m \in Merges, AddMergeNode(m)
      PROVE  nodes'[MergeNode(x)] = nodes[MergeNode(x)]
  <2>1. MergeNode(m) \notin DOMAIN nodes
    BY <1>1, <1>3 DEF MergeInv, MergeOk, AddMergeNode
  <2> QED
    BY <1>3, <2>1 DEF AddMergeNode, PutNode, Extend
<1>4. ASSUME NEW m \in Merges, NEW n \in NodeIds, Supersede(m, n)
      PROVE  nodes'[MergeNode(x)].status = nodes[MergeNode(x)].status
  <2>1. /\ merges[m].pc = "superseding" /\ n \in merges[m].ids
        /\ SetStatus(n, "superseded")
    BY <1>4 DEF Supersede
  <2>2. nodes[n].file = MergeFile[m]
    BY <1>1, <2>1 DEF MergeInv, MergeOk
  <2>3. n # MergeNode(x)
    BY <1>1, <1>4, <2>2 DEF MergeOk
  <2> QED
    BY <1>1, <2>1, <2>3, SetStatusFacts
<1>5. ASSUME NEW m \in Merges, MarkMerged(m)
      PROVE  nodes'[MergeNode(x)].status = nodes[MergeNode(x)].status
  <2>1. SetStatus(MergeNode(m), "merged") /\ m # x
    BY <1>5 DEF MarkMerged
  <2>2. MergeNode(m) # MergeNode(x)
    BY <2>1, IdsDiffer
  <2> QED
    BY <1>1, <2>1, <2>2, SetStatusFacts
<1>6. CASE UNCHANGED nodes
  BY <1>6
<1>7. ASSUME NEW p \in Pushes, IngestStep(p)
      PROVE  nodes'[MergeNode(x)].status = nodes[MergeNode(x)].status
  BY <1>2, <1>6, <1>7, IngestFrame
<1>8. ASSUME NEW m \in Merges, MergeStep(m)
      PROVE  nodes'[MergeNode(x)].status = nodes[MergeNode(x)].status
  BY <1>3, <1>4, <1>5, <1>6, <1>8, MergeFrame
<1> QED
  BY <1>6, <1>7, <1>8, StepsOfNext, CommitFrame DEF vars

LEMMA AwaitedMergeStep ==
  ASSUME GitInv, [Next]_vars
  PROVE  AwaitedMergeInv'
<1> SUFFICES ASSUME NEW x \in Merges, MergeFile[x] \in Awaited
             PROVE  AwaitedMergeOk(x)'
  BY DEF AwaitedMergeInv
<1> DEFINE f == MergeFile[x]
           node == MergeNode(x)
<1>1. GitType /\ MergeOk(x) /\ AwaitedMergeOk(x) /\ f \in Files /\ DOMAIN pushSets \subseteq Pushes
  BY GitAssumption DEF GitInv, MergeInv, AwaitedMergeInv, CommitInv
<1>2. merges'[x] = merges[x] \/ MergeStep(x)
  <2>1. CASE UNCHANGED merges
    BY <2>1
  <2>2. CASE ~UNCHANGED merges
    <3>1. PICK m \in Merges : MergeStep(m)
      BY <2>2, StepsOfNext, IngestFrame, CommitFrame DEF vars
    <3> QED
      BY <1>1, <3>1, MergeLocals
  <2> QED
    BY <2>1, <2>2
<1>3. ASSUME merges'[x].pc \in {"changed", "patched", "added", "superseding"}
      PROVE  node \notin merges'[x].ids
  <2>1. CASE ApplyMergeResult(x)
    <3>1. merges[x].pc = "idle" /\ merges'[x].pc \in {"failed", "changed"}
          /\ (merges'[x].pc = "changed" => merges'[x].ids \subseteq DOMAIN nodes)
      BY <1>1, <2>1, MergeLocals DEF MergeStep
    <3>2. node \notin DOMAIN nodes
      BY <1>1, <3>1 DEF MergeOk
    <3> QED
      BY <1>3, <3>1, <3>2
  <2>2. CASE CollectSuperseded(x)
    <3>1. /\ merges[x].pc = "added"
          /\ merges'[x].ids \subseteq merges[x].ids \cup (Active(f) \ {node})
      BY <1>1, <2>2, MergeLocals DEF MergeStep
    <3> QED
      BY <1>1, <3>1 DEF AwaitedMergeOk
  <2>3. CASE ~ApplyMergeResult(x) /\ ~CollectSuperseded(x)
    <3>1. /\ merges[x].pc \in {"changed", "patched", "added", "superseding"}
          /\ merges'[x].ids \subseteq merges[x].ids
      BY <1>1, <1>2, <1>3, <2>3, MergeLocals DEF MergeStep
    <3> QED
      BY <1>1, <3>1 DEF AwaitedMergeOk
  <2> QED
    BY <2>1, <2>2, <2>3
<1>4. Merging(x)' => tracked'[f].base # None
  <2>1. CASE ~Merging(x)
    BY <1>1, <2>1, StartsMerging
  <2>2. CASE Merging(x) /\ SetBranchFileHead(x)
    BY <1>1, <2>2, MergeLocals DEF MergeStep, Merging
  <2>3. CASE Merging(x) /\ ~SetBranchFileHead(x)
    BY <1>1, <2>3, FileStandsForMerge DEF AwaitedMergeOk
  <2> QED
    BY <2>1, <2>2, <2>3
<1>5. merges'[x].pc = "patched" => merges'[x].base = tracked'[f].base
  <2>1. CASE CreateMergePatch(x)
    <3>1. UNCHANGED tracked
      BY <2>1 DEF CreateMergePatch
    <3> QED
      BY <1>1, <2>1, <3>1, MergeLocals DEF MergeStep
  <2>2. CASE ~CreateMergePatch(x) /\ merges'[x].pc = "patched"
    <3>1. merges'[x] = merges[x]
      BY <1>1, <1>2, <2>2, MergeLocals DEF MergeStep
    <3>2. merges[x].pc = "patched" /\ Merging(x) /\ ~SetBranchFileHead(x)
      BY <2>2, <3>1 DEF Merging, SetBranchFileHead
    <3> QED
      BY <1>1, <3>1, <3>2, FileStandsForMerge DEF AwaitedMergeOk
  <2> QED
    BY <2>1, <2>2
<1>6. ASSUME merges'[x].pc \in {"added", "superseding", "merged"}
      PROVE  nodes'[node].parent = tracked'[f].head /\ nodes'[node].from = tracked'[f].base
  <2>1. CASE AddMergeNode(x)
    <3>1. /\ nodes'[node].parent = tracked[f].head /\ nodes'[node].from = merges[x].base
          /\ merges[x].pc = "patched" /\ UNCHANGED tracked
      BY <2>1 DEF AddMergeNode, PutNode, Extend
    <3> QED
      BY <1>1, <3>1 DEF AwaitedMergeOk
  <2>2. CASE ~AddMergeNode(x)
    <3>1. merges[x].pc \in {"added", "superseding", "merged"} /\ ~SetBranchFileHead(x)
      BY <1>1, <1>2, <1>6, <2>2, MergeLocals DEF MergeStep
    <3>2. Merging(x) /\ node \in DOMAIN nodes
      BY <1>1, <3>1 DEF Merging, MergeOk
    <3> QED
      BY <1>1, <3>1, <3>2, FileStandsForMerge, NodesStay DEF AwaitedMergeOk
  <2> QED
    BY <2>1, <2>2
<1>7. ASSUME NEW m \in Merges, MergeFile[m] = f, Supersede(m, node)
      PROVE  merges[x].pc \notin {"added", "superseding", "merged"}
  <2>1. Merging(m) /\ merges[m].pc = "superseding" /\ node \in merges[m].ids
    BY <1>7 DEF Supersede, Merging
  <2>2. Merging(x) => m = x
    BY <1>7, <2>1 DEF GitInv, AwaitInv
  <2>3. m # x
    BY <1>1, <2>1 DEF AwaitedMergeOk
  <2> QED
    BY <2>2, <2>3 DEF Merging
<1>8. /\ merges'[x].pc \in {"added", "superseding"} => nodes'[node].status = "active"
      /\ merges'[x].pc = "merged" => nodes'[node].status = "merged"
  <2>1. CASE AddMergeNode(x)
    <3>1. nodes'[node].status = "active"
      BY <2>1 DEF AddMergeNode, PutNode, Extend
    <3>2. merges'[x].pc = "added"
      BY <1>1, <2>1, MergeLocals DEF MergeStep
    <3> QED
      BY <3>1, <3>2
  <2>2. CASE MarkMerged(x)
    <3>1. merges[x].pc = "superseding" /\ merges'[x].pc = "merged"
      BY <1>1, <2>2, MergeLocals DEF MergeStep
    <3>2. nodes'[node].status = "merged"
      BY <1>1, <2>2, <3>1, SetStatusFacts DEF MarkMerged, MergeOk
    <3> QED
      BY <3>1, <3>2
  <2>3. CASE /\ ~AddMergeNode(x) /\ ~MarkMerged(x)
             /\ merges'[x].pc \in {"added", "superseding", "merged"}
    <3>1. /\ merges'[x].pc \in {"added", "superseding"} => merges[x].pc \in {"added", "superseding"}
          /\ merges'[x].pc = "merged" => merges[x].pc = "merged"
      BY <1>1, <1>2, <2>3, MergeLocals DEF MergeStep
    <3>2. node \in DOMAIN nodes
      BY <1>1, <2>3, <3>1 DEF MergeOk
    <3>3. nodes'[node].status = nodes[node].status
      BY <1>7, <2>3, <3>1, <3>2, MergeNodeStatus
    <3> QED
      BY <1>1, <3>1, <3>3 DEF AwaitedMergeOk
  <2> QED
    BY <2>1, <2>2, <2>3
<1>9. ASSUME merges'[x].pc = "done", tracked'[f].head = node
      PROVE  \/ nodes'[node].status = "merged"
             \/ nodes'[node].status = "superseded" /\ Promoting(f)'
  <2>1. CASE SetBranchFileHead(x)
    <3>1. merges[x].pc = "merged" /\ UNCHANGED nodes
      BY <2>1 DEF SetBranchFileHead
    <3> QED
      BY <1>1, <3>1 DEF AwaitedMergeOk
  <2>2. CASE ~SetBranchFileHead(x)
    <3>1. merges[x].pc = "done" /\ node \in DOMAIN nodes /\ ~MarkMerged(x)
      <4>1. merges[x].pc = "done"
        BY <1>1, <1>2, <1>9, <2>2, MergeLocals DEF MergeStep
      <4> QED
        BY <1>1, <4>1 DEF MergeOk, MarkMerged
    <3>2. ~ \E m \in Merges : MergeFile[m] = f /\ SetBranchFileHead(m)
      BY <1>9, <2>2, PromotionDecides, IdsDiffer
    <3>3. tracked[f].head = node
      BY <1>1, <1>9, <3>2, FileStands
    <3>4. CASE \E m \in Merges : MergeFile[m] = f /\ Supersede(m, node)
      <4>1. PICK m \in Merges : MergeFile[m] = f /\ Supersede(m, node)
        BY <3>4
      <4>2. node \in NodeIds
        BY MergeNodeIds
      <4>3. merges'[m].pc = "superseding"
        BY <1>1, <4>1, <4>2, MergeLocals DEF MergeStep
      <4>4. nodes'[node].status = "superseded"
        BY <1>1, <3>1, <4>1, SetStatusFacts DEF Supersede
      <4> QED
        BY <4>1, <4>3, <4>4 DEF Promoting
    <3>5. CASE ~ \E m \in Merges : MergeFile[m] = f /\ Supersede(m, node)
      <4>1. nodes'[node].status = nodes[node].status
        BY <3>1, <3>5, MergeNodeStatus
      <4>2. Promoting(f) => Promoting(f)'
        BY <3>2, FinishedStays DEF Promoting
      <4> QED
        BY <1>1, <3>1, <3>3, <4>1, <4>2 DEF AwaitedMergeOk
    <3> QED
      BY <3>4, <3>5
  <2> QED
    BY <2>1, <2>2
<1> QED
  BY <1>3, <1>4, <1>5, <1>6, <1>8, <1>9 DEF AwaitedMergeOk
-----------------------------------------------------------------------------
(***************************************************************************)
(* Heads: once a merge has been decided, the base stays a decided one.     *)
(***************************************************************************)

\* A file that a merge has decided about stays decided.
LEMMA DecidedStays ==
  ASSUME GitInv, [Next]_vars, NEW f \in Files, IsDecided(f)
  PROVE  IsDecided(f)'
<1>1. CASE \E m \in Merges : MergeFile[m] = f /\ SetBranchFileHead(m)
  BY <1>1, PromotionDecides
<1>2. CASE ~ \E m \in Merges : MergeFile[m] = f /\ SetBranchFileHead(m)
  <2>1. PICK m \in Merges : Finished(m, f) /\ tracked[f].base = Decided[m]
    BY DEF IsDecided
  <2>2. tracked[f].base # None
    BY <2>1, GitAssumption
  <2>3. tracked'[f].base = Decided[m]
    BY <1>2, <2>1, <2>2, FileStands DEF GitInv
  <2>4. Finished(m, f)'
    BY <2>1, FinishedStays DEF Finished
  <2> QED
    BY <2>3, <2>4 DEF IsDecided
<1> QED
  BY <1>1, <1>2

\* How a node leaves the active set.
LEMMA StatusChanges ==
  ASSUME GitInv, [Next]_vars, NEW n \in DOMAIN nodes, nodes'[n].status # nodes[n].status
  PROVE  /\ nodes'[n].status # "active"
         /\ \E m \in Merges : /\ MergeFile[m] = nodes[n].file /\ merges[m].pc = "superseding"
                              /\ merges'[m].pc \in {"superseding", "merged"}
<1>1. GitType /\ PushInv /\ MergeInv
  BY DEF GitInv
<1>2. ASSUME NEW p \in Pushes, AddPushNode(p)
      PROVE  FALSE
  <2>1. ingests[p].file \in DOMAIN PushFiles[p]
    BY <1>1, <1>2, ChangeFacts DEF AddPushNode
  <2>2. ~(ingests[p].file < ingests[p].file)
    BY <1>1 DEF GitType, IngestRecords
  <2>3. PushNode(p, ingests[p].file) \notin DOMAIN nodes
    BY <1>1, <2>1, <2>2 DEF PushInv, PushOk
  <2> QED
    BY <1>2, <2>3 DEF AddPushNode, PutNode, Extend
<1>3. ASSUME NEW m \in Merges, AddMergeNode(m)
      PROVE  FALSE
  <2>1. MergeNode(m) \notin DOMAIN nodes
    BY <1>1, <1>3 DEF MergeInv, MergeOk, AddMergeNode
  <2> QED
    BY <1>3, <2>1 DEF AddMergeNode, PutNode, Extend
<1>4. PICK m \in Merges : MergeStep(m) /\ ((\E x \in NodeIds : Supersede(m, x)) \/ MarkMerged(m))
  BY <1>2, <1>3, StepsOfNext, IngestFrame, MergeFrame, CommitFrame DEF vars
<1>5. ASSUME NEW x \in NodeIds, Supersede(m, x)
      PROVE  /\ nodes'[n].status # "active" /\ MergeFile[m] = nodes[n].file
             /\ merges[m].pc = "superseding" /\ merges'[m].pc = "superseding"
  <2>1. SetStatus(x, "superseded") /\ x \in merges[m].ids
    BY <1>5 DEF Supersede
  <2>2. merges[m].pc = "superseding" /\ merges'[m].pc = "superseding"
    BY <1>1, <1>4, <1>5, MergeLocals
  <2>3. x = n
    BY <1>1, <2>1, SetStatusFacts
  <2>4. nodes'[n].status = "superseded"
    BY <1>1, <2>1, <2>3, SetStatusFacts
  <2> QED
    BY <1>1, <2>1, <2>2, <2>3, <2>4 DEF MergeInv, MergeOk
<1>6. ASSUME MarkMerged(m)
      PROVE  /\ nodes'[n].status # "active" /\ MergeFile[m] = nodes[n].file
             /\ merges[m].pc = "superseding" /\ merges'[m].pc = "merged"
  <2>1. SetStatus(MergeNode(m), "merged")
    BY <1>6 DEF MarkMerged
  <2>2. merges[m].pc = "superseding" /\ merges'[m].pc = "merged"
    BY <1>1, <1>4, <1>6, MergeLocals
  <2>3. MergeNode(m) = n
    BY <1>1, <2>1, SetStatusFacts
  <2>4. nodes'[n].status = "merged"
    BY <1>1, <2>1, <2>3, SetStatusFacts
  <2> QED
    BY <1>1, <2>2, <2>3, <2>4 DEF MergeInv, MergeOk
<1> QED
  BY <1>4, <1>5, <1>6

LEMMA NewNodeIsActive ==
  ASSUME GitInv, [Next]_vars, NEW n \in DOMAIN nodes' \ DOMAIN nodes
  PROVE  nodes'[n].status = "active"
<1>1. ASSUME NEW p \in Pushes, AddPushNode(p)
      PROVE  nodes'[n].status = "active"
  BY <1>1 DEF AddPushNode, PutNode, Extend
<1>2. ASSUME NEW m \in Merges, AddMergeNode(m)
      PROVE  nodes'[n].status = "active"
  BY <1>2 DEF AddMergeNode, PutNode, Extend
<1>3. \/ \E p \in Pushes : AddPushNode(p)
      \/ \E m \in Merges : AddMergeNode(m)
  <2>1. ASSUME NEW p \in Pushes, IngestStep(p)
        PROVE  AddPushNode(p)
    BY <2>1, IngestFrame
  <2>2. ASSUME NEW m \in Merges, MergeStep(m)
        PROVE  AddMergeNode(m)
    BY <2>2, NewNodes
  <2> QED
    BY <2>1, <2>2, StepsOfNext, CommitFrame DEF vars
<1> QED
  BY <1>1, <1>2, <1>3

LEMMA HeadStep ==
  ASSUME GitInv, [Next]_vars
  PROVE  HeadInv'
<1>1. ASSUME NEW f \in Awaited
      PROVE  HeadOk(f)'
  <2>1. f \in Files /\ HeadOk(f)
    BY GitAssumption DEF GitInv, HeadInv
  <2>2. CASE \E m \in Merges : MergeFile[m] = f /\ SetBranchFileHead(m)
    BY <2>2, PromotionDecides DEF HeadOk
  <2>3. CASE ~ \E m \in Merges : MergeFile[m] = f /\ SetBranchFileHead(m)
    <3> SUFFICES ASSUME tracked'[f].head # None
                 PROVE  \E m \in Merges : /\ Finished(m, f)' /\ tracked'[f].head = MergeNode(m)
                                          /\ tracked'[f].base = Decided[m]
      BY DEF HeadOk
    <3>1. tracked'[f].head = tracked[f].head
      BY <2>1, <2>3, FileStands DEF GitInv
    <3>2. PICK m \in Merges : /\ Finished(m, f) /\ tracked[f].head = MergeNode(m)
                              /\ tracked[f].base = Decided[m]
      BY <2>1, <3>1 DEF HeadOk
    <3>3. tracked'[f].base = Decided[m]
      BY <2>1, <2>3, <3>2, GitAssumption, FileStands DEF GitInv
    <3>4. Finished(m, f)'
      BY <3>2, FinishedStays DEF Finished
    <3> QED
      BY <3>1, <3>2, <3>3, <3>4
  <2> QED
    BY <2>2, <2>3
<1>2. ASSUME NEW f \in Awaited, NEW n \in DOMAIN nodes',
             nodes'[n].file = f, nodes'[n].status # "active"
      PROVE  IsDecided(f)' \/ Promoting(f)'
  <2>1. n \in DOMAIN nodes
    BY <1>2, NewNodeIsActive
  <2>2. nodes[n].file = f
    BY <1>2, <2>1, NodesStay
  <2>3. CASE nodes'[n].status # nodes[n].status
    BY <2>1, <2>2, <2>3, StatusChanges DEF Promoting
  <2>4. CASE nodes'[n].status = nodes[n].status
    <3>1. IsDecided(f) \/ Promoting(f)
      BY <1>2, <2>1, <2>2, <2>4 DEF GitInv, HeadInv
    <3>2. CASE IsDecided(f)
      BY <3>2, DecidedStays, GitAssumption
    <3>3. CASE Promoting(f)
      <4>1. PICK m \in Merges : MergeFile[m] = f /\ merges[m].pc \in {"superseding", "merged"}
        BY <3>3 DEF Promoting
      <4>2. CASE SetBranchFileHead(m)
        BY <4>1, <4>2, PromotionDecides
      <4>3. CASE merges'[m].pc \in {"superseding", "merged"}
        BY <4>1, <4>3 DEF Promoting
      <4> QED
        BY <4>1, <4>2, <4>3, FinishedStays
    <3> QED
      BY <3>1, <3>2, <3>3
  <2> QED
    BY <2>3, <2>4
<1> QED
  BY <1>1, <1>2 DEF HeadInv
-----------------------------------------------------------------------------
(***************************************************************************)
(* Commits: all_resolved was true when it was answered, and stays so for   *)
(* the awaited files.                                                      *)
(***************************************************************************)

\* A file of a registered push without an active node has been decided about, unless a
\* merge of it is just being promoted.
LEMMA ResolvedMeansDecided ==
  ASSUME GitInv, NEW c \in Commits, commits[c].pc = "preparing",
         NEW f \in FilesOf(CommitPush[c]) \cap Awaited, Active(f) = {}
  PROVE  IsDecided(f)
<1>1. /\ CommitPush[c] \in Pushes
      /\ NodesOf(CommitPush[c]) \subseteq DOMAIN nodes
  BY GitAssumption DEF GitInv, CommitInv, CommitOk, PushInv, PushOk
<1>2. PICK i \in DOMAIN PushFiles[CommitPush[c]] : f = PushFiles[CommitPush[c]][i].file
  BY DEF FilesOf
<1> DEFINE n == PushNode(CommitPush[c], i)
<1>3. n \in DOMAIN nodes /\ nodes[n].file = f
  BY <1>1, <1>2, PushNodeIds DEF GitInv, PushInv, PushOk
<1>4. nodes[n].status # "active"
  BY <1>3 DEF Active
<1>5. ~Promoting(f)
  <2>1. Committing(c)
    BY DEF Committing
  <2>2. ASSUME NEW m \in Merges, MergeFile[m] = f, merges[m].pc \in {"superseding", "merged"}
        PROVE  FALSE
    <3>1. Merging(m)
      BY <2>2 DEF Merging
    <3> QED
      BY <2>1, <2>2, <3>1 DEF GitInv, AwaitInv
  <2> QED
    BY <2>2 DEF Promoting
<1> QED
  BY <1>3, <1>4, <1>5 DEF GitInv, HeadInv

LEMMA ResolvedStep ==
  ASSUME GitInv, [Next]_vars
  PROVE  ResolvedInv'
<1> SUFFICES ASSUME NEW c \in Commits
             PROVE  ResolvedOk(c)'
  BY DEF ResolvedInv
<1>1. GitType /\ ResolvedOk(c)
  BY DEF GitInv, ResolvedInv
<1>2. ASSUME NEW f \in Awaited, IsDecided(f)
      PROVE  IsDecided(f)'
  BY <1>2, DecidedStays, GitAssumption
<1>3. ASSUME NEW m \in Merges, NEW f, Finished(m, f)
      PROVE  Finished(m, f)'
  BY <1>3, FinishedStays DEF Finished
<1>4. CASE commits'[c] = commits[c]
  BY <1>1, <1>2, <1>3, <1>4 DEF ResolvedOk
<1>5. CASE commits'[c] # commits[c]
  <2>1. PICK d \in Commits : CommitStep(d)
    BY <1>5, StepsOfNext, IngestFrame, MergeFrame DEF vars
  <2>2. d = c
    BY <1>1, <1>5, <2>1, CommitLocals
  <2>3. CASE PrepareCommit(c)
    <3>1. /\ commits[c].pc = "idle" /\ commits'[c].pc = "preparing"
          /\ commits'[c].resolved = {} /\ commits'[c].files = commits[c].files
      BY <1>1, <2>1, <2>2, <2>3, CommitLocals
    <3> QED
      BY <1>1, <3>1 DEF ResolvedOk
  <2>4. CASE CreateGroupedCommit(c)
    <3>1. /\ commits[c].pc = "idle" /\ commits'[c].pc = "reading"
          /\ commits'[c].resolved = commits[c].resolved
          /\ commits'[c].files = commits[c].files
      BY <1>1, <2>1, <2>2, <2>4, CommitLocals
    <3> QED
      BY <1>1, <1>2, <3>1 DEF ResolvedOk
  <2>5. ASSUME NEW f \in Files, CheckFile(c, f)
        PROVE  ResolvedOk(c)'
    <3>1. /\ commits[c].pc = "preparing" /\ commits'[c].pc \in {"preparing", "idle"}
          /\ commits'[c].files = commits[c].files
          /\ \/ commits'[c].resolved = {}
             \/ /\ Active(f) = {} /\ f \in FilesOf(CommitPush[c])
                /\ commits'[c].resolved = commits[c].resolved \cup {f}
                /\ commits'[c].resolved # FilesOf(CommitPush[c]) => commits'[c].pc = "preparing"
      BY <1>1, <2>1, <2>2, <2>5, CommitLocals
    <3>2. f \in commits'[c].resolved \cap Awaited => f \in commits[c].resolved \/ IsDecided(f)
      <4>1. CASE commits'[c].resolved = {}
        BY <4>1
      <4>2. CASE Active(f) = {} /\ f \in FilesOf(CommitPush[c])
        BY <3>1, <4>2, ResolvedMeansDecided
      <4> QED
        BY <3>1, <4>1, <4>2
    <3>3. \A x \in commits'[c].resolved \cap Awaited : IsDecided(x)
      BY <1>1, <3>1, <3>2 DEF ResolvedOk
    <3>4. DOMAIN commits'[c].files = {}
      BY <1>1, <3>1 DEF ResolvedOk
    <3>5. commits'[c].pc # "preparing" => commits'[c].resolved \in {{}, FilesOf(CommitPush[c])}
      BY <3>1
    <3> QED
      BY <1>2, <3>3, <3>4, <3>5 DEF ResolvedOk
  <2>6. ASSUME NEW f \in Files, ReadFile(c, f)
        PROVE  ResolvedOk(c)'
    <3>1. /\ commits[c].pc = "reading" /\ commits'[c].pc = "reading"
          /\ commits'[c].resolved = commits[c].resolved
          /\ f \in FilesOf(CommitPush[c])
          /\ commits'[c].files = Extend(commits[c].files, f, tracked[f].base)
      BY <1>1, <2>1, <2>2, <2>6, CommitLocals
    <3>2. ASSUME commits'[c].resolved # {}, NEW x \in DOMAIN commits'[c].files \cap Awaited
          PROVE  \E m \in Merges : Finished(m, x) /\ commits'[c].files[x] = Decided[m]
      <4>1. CASE x = f
        <5>1. commits[c].resolved = FilesOf(CommitPush[c])
          BY <1>1, <3>1, <3>2 DEF ResolvedOk
        <5>2. IsDecided(f)
          BY <1>1, <3>1, <3>2, <4>1, <5>1 DEF ResolvedOk
        <5>3. commits'[c].files[f] = tracked[f].base
          BY <3>1 DEF Extend
        <5> QED
          BY <4>1, <5>2, <5>3 DEF IsDecided
      <4>2. CASE x # f
        <5>1. x \in DOMAIN commits[c].files /\ commits'[c].files[x] = commits[c].files[x]
          BY <3>1, <3>2, <4>2 DEF Extend
        <5> QED
          BY <1>1, <3>1, <3>2, <5>1 DEF ResolvedOk
      <4> QED
        BY <4>1, <4>2
    <3> QED
      BY <1>1, <1>2, <1>3, <3>1, <3>2 DEF ResolvedOk
  <2>7. CASE GitFails(c) \/ PutCommitRecord(c) \/ MarkCommitted(c) \/ ClearMirror(c)
    <3>1. /\ commits[c].pc \in {"reading", "recorded", "marked"}
          /\ commits'[c].pc \in {"failed", "recorded", "marked", "done"}
          /\ commits'[c].resolved = commits[c].resolved
          /\ commits'[c].files = commits[c].files
      BY <1>1, <2>1, <2>2, <2>7, CommitLocals
    <3> QED
      BY <1>1, <1>2, <1>3, <3>1 DEF ResolvedOk
  <2> QED
    BY <2>1, <2>2, <2>3, <2>4, <2>5, <2>6, <2>7 DEF CommitStep
<1> QED
  BY <1>4, <1>5

LEMMA ResolvedCommitsStep ==
  ASSUME GitInv, [Next]_vars
  PROVE  ResolvedCommitsAreDecided'
<1> SUFFICES ASSUME NEW c \in DOMAIN records', records'[c].resolved,
                    NEW f \in FilesOf(CommitPush[c]) \cap Awaited
             PROVE  \E m \in Merges : /\ Finished(m, f)'
                                      /\ records'[c].files[f] = Decided[m]
  BY DEF ResolvedCommitsAreDecided, Finished
<1>1. CASE c \in DOMAIN records /\ records'[c] = records[c]
  <2>1. PICK m \in Merges : /\ MergeFile[m] = f /\ merges[m].pc = "done"
                            /\ records[c].files[f] = Decided[m]
    BY <1>1 DEF GitInv, ResolvedCommitsAreDecided
  <2> QED
    BY <1>1, <2>1, FinishedStays DEF Finished
<1>2. CASE ~(c \in DOMAIN records /\ records'[c] = records[c])
  <2>1. PICK d \in Commits : FilesRead(d) /\ \E status : Record(d, status)
    BY <1>2, StepsOfNext, IngestFrame, MergeFrame, CommitFrame DEF vars, GitFails, PutCommitRecord
  <2>2. d = c
    BY <1>2, <2>1 DEF Record, Extend
  <2>3. records'[c].files = commits[c].files /\ commits[c].resolved # {}
    BY <2>1, <2>2, RecordFacts, Zenon
  <2>4. f \in DOMAIN commits[c].files
    BY <2>1, <2>2 DEF FilesRead
  <2>5. \E m \in Merges : Finished(m, f) /\ commits[c].files[f] = Decided[m]
    BY <2>2, <2>3, <2>4 DEF GitInv, ResolvedInv, ResolvedOk
  <2> QED
    BY <2>3, <2>5, FinishedStays DEF Finished
<1> QED
  BY <1>1, <1>2
-----------------------------------------------------------------------------
(***************************************************************************)
(* The invariant, and what follows from it.                                *)
(***************************************************************************)

LEMMA InitGit == Init => GitInv
<1> SUFFICES ASSUME Init
             PROVE  GitInv
  OBVIOUS
<1> USE DEF Init
<1>1. GitType
  BY InitGitType
<1>2. PushInv
  BY PushFileFacts DEF PushInv, PushOk
<1>3. CommitInv
  BY DEF CommitInv, CommitOk
<1>4. MergeInv /\ AwaitInv
  BY DEF MergeInv, MergeOk, AwaitInv, Merging
<1>5. AwaitedMergeInv
  BY DEF AwaitedMergeInv, AwaitedMergeOk, Merging
<1>6. HeadInv
  BY GitAssumption DEF HeadInv, HeadOk
<1>7. ResolvedInv
  BY DEF ResolvedInv, ResolvedOk
<1>8. RegisteredPushesAreComplete /\ ResolvedCommitsAreDecided
  BY DEF RegisteredPushesAreComplete, ResolvedCommitsAreDecided
<1> QED
  BY <1>1, <1>2, <1>3, <1>4, <1>5, <1>6, <1>7, <1>8 DEF GitInv

LEMMA TypeStep == GitInv /\ [Next]_vars => GitType'
<1> SUFFICES ASSUME GitInv, [Next]_vars
             PROVE  GitType'
  OBVIOUS
<1>1. GitType /\ PushInv /\ MergeInv /\ DOMAIN pushSets \subseteq Pushes
  BY DEF GitInv, CommitInv
<1>2. ASSUME NEW p \in Pushes, IngestStep(p)
      PROVE  GitType'
  BY <1>1, <1>2, IngestType DEF IngestStep
<1>3. ASSUME NEW m \in Merges, MergeStep(m)
      PROVE  GitType'
  BY <1>1, <1>3, MergeType DEF MergeStep
<1>4. ASSUME NEW c \in Commits, CommitStep(c)
      PROVE  GitType'
  BY <1>1, <1>4, CommitType DEF CommitStep
<1>5. CASE UNCHANGED vars
  BY <1>1, <1>5 DEF vars, GitType
<1> QED
  BY <1>2, <1>3, <1>4, <1>5, StepsOfNext

LEMMA GitStep == GitInv /\ [Next]_vars => GitInv'
BY TypeStep, PushStep, RecordedStep, MergesStep, AwaitStep, AwaitedMergeStep, HeadStep,
   ResolvedStep, RegisteredStep, ResolvedCommitsStep DEF GitInv

LEMMA GitInvariant == Spec => []GitInv
BY InitGit, GitStep, PTL DEF Spec

\* A registered push has all its nodes, a committed one a commit that git made, and the
\* VFS mirrors registered pushes of the right user.
THEOREM PushesAreComplete == Spec => []RegisteredPushesAreComplete
<1>1. GitInv => RegisteredPushesAreComplete
  BY DEF GitInv
<1> QED
  BY <1>1, GitInvariant, PTL

\* The head of an awaited file holds the file's base, and is a merged node that only the
\* promotion of the next one may have superseded.
THEOREM HeadsAreMerged == Spec => []HeadIsMerged
<1>1. ASSUME GitInv
      PROVE  HeadIsMerged
  <2> SUFFICES ASSUME NEW f \in Awaited, tracked[f].head # None
               PROVE  LET head == tracked[f].head IN
                      /\ nodes[head].file = f /\ nodes[head].to = tracked[f].base
                      /\ \/ nodes[head].status = "merged"
                         \/ nodes[head].status = "superseded" /\ Promoting(f)
    BY DEF HeadIsMerged
  <2>1. PICK m \in Merges : /\ Finished(m, f) /\ tracked[f].head = MergeNode(m)
                            /\ tracked[f].base = Decided[m]
    BY <1>1 DEF GitInv, HeadInv, HeadOk
  <2>2. MergeOk(m) /\ AwaitedMergeOk(m)
    BY <1>1, <2>1 DEF GitInv, MergeInv, AwaitedMergeInv, Finished
  <2> QED
    BY <2>1, <2>2 DEF MergeOk, AwaitedMergeOk, Finished
<1>2. GitInv => HeadIsMerged
  BY <1>1
<1> QED
  BY <1>2, GitInvariant, PTL

\* A commit made after all_resolved holds, for every awaited file, what a merge decided.
THEOREM CommitsAreDecided == Spec => []ResolvedCommitsAreDecided
<1>1. GitInv => ResolvedCommitsAreDecided
  BY DEF GitInv
<1> QED
  BY <1>1, GitInvariant, PTL

\* Nodes leave the active set while a merge of their own file supersedes, and never return.
THEOREM NodesLeave == Spec => NodesLeaveWithTheirFile
<1> DEFINE Leave ==
      \A n \in DOMAIN nodes :
        (nodes[n].status = "active") # (nodes'[n].status = "active") =>
          /\ nodes[n].status = "active"
          /\ \E m \in Merges : MergeFile[m] = nodes[n].file /\ merges[m].pc = "superseding"
<1>1. GitInv /\ [Next]_vars => [Leave]_vars
  BY StatusChanges
<1> QED
  BY <1>1, GitInvariant, PTL DEF Spec, NodesLeaveWithTheirFile

\* A promotion of an awaited file builds on the head and the base that it replaces.
THEOREM PromotionsExtend == Spec => PromotionsExtendTheHead
<1> DEFINE Extends ==
      \A f \in Awaited :
        tracked'[f].head # tracked[f].head =>
          /\ nodes[tracked'[f].head].parent = tracked[f].head
          /\ nodes[tracked'[f].head].from = tracked[f].base
<1>1. GitInv /\ [Next]_vars => [Extends]_vars
  <2> SUFFICES ASSUME GitInv, [Next]_vars, NEW f \in Awaited,
                      tracked'[f].head # tracked[f].head
               PROVE  /\ nodes[tracked'[f].head].parent = tracked[f].head
                      /\ nodes[tracked'[f].head].from = tracked[f].base
    OBVIOUS
  <2>1. PICK m \in Merges : MergeFile[m] = f /\ SetBranchFileHead(m)
    BY FileStands, GitAssumption DEF GitInv
  <2>2. tracked'[f].head = MergeNode(m)
    BY <2>1, PromotionDecides
  <2>3. AwaitedMergeOk(m) /\ merges[m].pc = "merged"
    BY <2>1 DEF GitInv, AwaitedMergeInv, SetBranchFileHead
  <2> QED
    BY <2>1, <2>2, <2>3 DEF AwaitedMergeOk
<1> QED
  BY <1>1, GitInvariant, PTL DEF Spec, PromotionsExtendTheHead
=============================================================================
