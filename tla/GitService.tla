------------------------------ MODULE GitService ------------------------------
(***************************************************************************)
(* The git service: per-file trees of proposed diffs, merges decided by an *)
(* external caller, grouped commits, and the mirror of pushes in the VFS.  *)
(*                                                                         *)
(* Every handler runs in its own goroutine, and the only atomic units are  *)
(* the methods of the store; a step below is one of them with the unlocked *)
(* reads and writes around it.  One branch is modelled (branches share     *)
(* nothing but the git working tree), and git itself is an oracle that     *)
(* succeeds or fails.                                                      *)
(*                                                                         *)
(* On the files of Awaited a single orchestrator makes the calls of the    *)
(* merge flow and awaits each answer before it makes the next; pushes      *)
(* arrive at any time, and on all other files anything overlaps.           *)
(***************************************************************************)
EXTENDS Naturals, Sequences, FiniteSets

CONSTANTS
  Files,       \* paths on the branch
  Users,
  Contents,    \* what a file can contain
  Pushes,      \* register_push calls, and the push ids they return
  PushUser,    \* who pushes
  PushFiles,   \* the (file, base, new) of each push, in order
  Merges,      \* apply_merge_result calls
  MergeFile,   \* the file of each merge
  Decided,     \* the content each merge decides on
  Commits,     \* create_commit calls
  CommitPush,  \* the push each of them is for
  Awaited,     \* files of which one caller awaits every answer
  MaxListed,   \* bound on the node ids that one apply_merge_result lists
  None

FileChanges == [file : Files, base : Contents, new : Contents]

ASSUME GitAssumption ==
  /\ PushUser \in [Pushes -> Users]
  /\ PushFiles \in [Pushes -> Seq(FileChanges)]
  /\ \A p \in Pushes : PushFiles[p] # <<>>
  /\ MergeFile \in [Merges -> Files] /\ Decided \in [Merges -> Contents]
  /\ CommitPush \in [Commits -> Pushes]
  /\ Awaited \subseteq Files /\ MaxListed \in Nat
  /\ None \notin Contents /\ None \notin Pushes
  /\ Pushes \cap Merges = {}

VARIABLES
  tracked,   \* the BranchFile of each path: its head node and base content
  nodes,     \* the FileNodes with their patches, by node id
  pushSets,  \* the status of every registered push
  records,   \* the commit records, with the contents that were committed
  mirror,    \* the VFS entry of each user's pushes
  ingests, merges, commits   \* the locals of the running handlers

vars == <<tracked, nodes, pushSets, records, mirror, ingests, merges, commits>>

\* Node ids are fresh UUIDs: one for each file of a push, one for each merge.
PushNode(p, i) == <<p, i>>
MergeNode(m) == <<m, 0>>
NodesOf(p) == {PushNode(p, i) : i \in DOMAIN PushFiles[p]}
NodeIds == (UNION {NodesOf(p) : p \in Pushes}) \cup {MergeNode(m) : m \in Merges}

FilesOf(p) == {PushFiles[p][i].file : i \in DOMAIN PushFiles[p]}

Active(f) == {n \in DOMAIN nodes : nodes[n].file = f /\ nodes[n].status = "active"}

Extend(fn, key, value) == [k \in DOMAIN fn \cup {key} |-> IF k = key THEN value ELSE fn[k]]

Init ==
  /\ tracked = [f \in Files |-> [head |-> None, base |-> None]]
  /\ nodes = [n \in {} |-> None]
  /\ pushSets = [p \in {} |-> None]
  /\ records = [c \in {} |-> None]
  /\ mirror = [u \in Users |-> None]
  /\ ingests = [p \in Pushes |-> [pc |-> "files", file |-> 1, base |-> None]]
  /\ merges = [m \in Merges |-> [pc |-> "idle", ids |-> {}, base |-> None]]
  /\ commits = [c \in Commits |-> [pc |-> "idle", resolved |-> {}, files |-> <<>>]]

\* filetree.AddNode's PutFileNode: the parent is the head of this moment.
PutNode(id, f, from, to) ==
  nodes' = Extend(nodes, id, [file |-> f, parent |-> tracked[f].head,
                              from |-> from, to |-> to, status |-> "active"])

SetStatus(id, to) == nodes' = [nodes EXCEPT ![id].status = to]

\* A call of the merge flow about the file is running.
Merging(m) == merges[m].pc \notin {"idle", "failed", "done"}
Committing(c) ==
  commits[c].pc \in {"preparing", "reading", "recorded", "marked"}

\* The caller that awaits its answers makes no call on f while another one runs.
MayCall(f) ==
  f \in Awaited => /\ \A m \in Merges : Merging(m) => MergeFile[m] # f
                   /\ \A c \in Commits : Committing(c) => f \notin FilesOf(CommitPush[c])
-----------------------------------------------------------------------------
(***************************************************************************)
(* IngestPush.  AddNode reads the file's base twice and then its head, all *)
(* through a live pointer and without a lock.                              *)
(***************************************************************************)

Change(p) == PushFiles[p][ingests[p].file]

\* The push's next file is found or created, and compared with its base; the first
\* file without a change ends the call, whatever was stored for the files before.
DiffFile(p) ==
  /\ ingests[p].pc = "files" /\ ingests[p].file <= Len(PushFiles[p])
  /\ LET c    == Change(p)
         base == IF tracked[c.file].base = None THEN c.base ELSE tracked[c.file].base
     IN /\ tracked' = [tracked EXCEPT ![c.file].base = base]
        /\ ingests' = [ingests EXCEPT ![p].pc = IF base = c.new THEN "failed" ELSE "changed"]
  /\ UNCHANGED <<nodes, pushSets, records, mirror, merges, commits>>

CreatePatch(p) ==
  /\ ingests[p].pc = "changed"
  /\ ingests' = [ingests EXCEPT ![p].pc = "patched", ![p].base = tracked[Change(p).file].base]
  /\ UNCHANGED <<tracked, nodes, pushSets, records, mirror, merges, commits>>

AddPushNode(p) ==
  /\ ingests[p].pc = "patched"
  /\ PutNode(PushNode(p, ingests[p].file), Change(p).file, ingests[p].base, Change(p).new)
  /\ ingests' = [ingests EXCEPT ![p] = [pc |-> "files", file |-> @.file + 1, base |-> None]]
  /\ UNCHANGED <<tracked, pushSets, records, mirror, merges, commits>>

\* Mutant of PutPushSet: the push is registered before its nodes.
PutPushSetFirst(p) ==
  /\ ingests[p].pc = "files" /\ p \notin DOMAIN pushSets
  /\ pushSets' = Extend(pushSets, p, "pending")
  /\ UNCHANGED <<tracked, nodes, records, mirror, ingests, merges, commits>>

PutPushSet(p) ==
  /\ ingests[p].pc = "files" /\ ingests[p].file > Len(PushFiles[p])
  /\ pushSets' = Extend(pushSets, p, "pending")
  /\ ingests' = [ingests EXCEPT ![p].pc = "registered"]
  /\ UNCHANGED <<tracked, nodes, records, mirror, merges, commits>>

\* vfs.Propose under the key of branch and user.
ProposeMirror(p) ==
  /\ ingests[p].pc = "registered"
  /\ mirror' = [mirror EXCEPT ![PushUser[p]] = p]
  /\ ingests' = [ingests EXCEPT ![p].pc = "done"]
  /\ UNCHANGED <<tracked, nodes, pushSets, records, merges, commits>>
-----------------------------------------------------------------------------
(***************************************************************************)
(* ApplyMergeResult.  The context that the caller decides upon, however    *)
(* old, is a read: it only tells the caller ids that it may list.          *)
(***************************************************************************)

\* The caller supersedes all active nodes (no ids) or lists ids that it was ever told:
\* nodes of any file, of any status, the head too.  A result that equals the base is refused.
ApplyMergeResult(m) ==
  /\ merges[m].pc = "idle"
  /\ MayCall(MergeFile[m])
  /\ tracked[MergeFile[m]].base # None
  /\ \/ /\ tracked[MergeFile[m]].base = Decided[m]
        /\ merges' = [merges EXCEPT ![m].pc = "failed"]
     \/ /\ tracked[MergeFile[m]].base # Decided[m]
        /\ \E ids \in {S \in SUBSET DOMAIN nodes : Cardinality(S) <= MaxListed} :
             merges' = [merges EXCEPT ![m].pc = "changed", ![m].ids = ids]
  /\ UNCHANGED <<tracked, nodes, pushSets, records, mirror, ingests, commits>>

CreateMergePatch(m) ==
  /\ merges[m].pc = "changed"
  /\ merges' = [merges EXCEPT ![m].pc = "patched", ![m].base = tracked[MergeFile[m]].base]
  /\ UNCHANGED <<tracked, nodes, pushSets, records, mirror, ingests, commits>>

\* Mutant of AddMergeNode: the node's parent is not set.
AddRootNode(m) ==
  /\ merges[m].pc = "patched"
  /\ nodes' = Extend(nodes, MergeNode(m),
                     [file |-> MergeFile[m], parent |-> None, from |-> merges[m].base,
                      to |-> Decided[m], status |-> "active"])
  /\ merges' = [merges EXCEPT ![m].pc = "added"]
  /\ UNCHANGED <<tracked, pushSets, records, mirror, ingests, commits>>

\* The merge node is active until all nodes it replaces are superseded.
AddMergeNode(m) ==
  /\ merges[m].pc = "patched"
  /\ PutNode(MergeNode(m), MergeFile[m], merges[m].base, Decided[m])
  /\ merges' = [merges EXCEPT ![m].pc = "added"]
  /\ UNCHANGED <<tracked, pushSets, records, mirror, ingests, commits>>

\* Mutant of CollectSuperseded: the file of the listed nodes is not compared.
CollectAnyFile(m) ==
  /\ merges[m].pc = "added"
  /\ merges' = [merges EXCEPT
       ![m].pc  = "superseding",
       ![m].ids = IF @ = {} THEN Active(MergeFile[m]) \ {MergeNode(m)} ELSE @ \cap DOMAIN nodes]
  /\ UNCHANGED <<tracked, nodes, pushSets, records, mirror, ingests, commits>>

\* The listed nodes of this file, whatever their status, or all active siblings.
CollectSuperseded(m) ==
  /\ merges[m].pc = "added"
  /\ merges' = [merges EXCEPT
       ![m].pc  = "superseding",
       ![m].ids = IF @ = {} THEN Active(MergeFile[m]) \ {MergeNode(m)}
                  ELSE {n \in @ \cap DOMAIN nodes : nodes[n].file = MergeFile[m]}]
  /\ UNCHANGED <<tracked, nodes, pushSets, records, mirror, ingests, commits>>

Supersede(m, n) ==
  /\ merges[m].pc = "superseding" /\ n \in merges[m].ids
  /\ SetStatus(n, "superseded")
  /\ merges' = [merges EXCEPT ![m].ids = @ \ {n}]
  /\ UNCHANGED <<tracked, pushSets, records, mirror, ingests, commits>>

\* Mutant of MarkMerged: the merge node stays active.
LeaveActive(m) ==
  /\ merges[m].pc = "superseding" /\ merges[m].ids = {}
  /\ merges' = [merges EXCEPT ![m].pc = "merged"]
  /\ UNCHANGED <<tracked, nodes, pushSets, records, mirror, ingests, commits>>

MarkMerged(m) ==
  /\ merges[m].pc = "superseding" /\ merges[m].ids = {}
  /\ SetStatus(MergeNode(m), "merged")
  /\ merges' = [merges EXCEPT ![m].pc = "merged"]
  /\ UNCHANGED <<tracked, pushSets, records, mirror, ingests, commits>>

SetBranchFileHead(m) ==
  /\ merges[m].pc = "merged"
  /\ tracked' = [tracked EXCEPT ![MergeFile[m]] = [head |-> MergeNode(m), base |-> Decided[m]]]
  /\ merges' = [merges EXCEPT ![m].pc = "done"]
  /\ UNCHANGED <<nodes, pushSets, records, mirror, ingests, commits>>
-----------------------------------------------------------------------------
(***************************************************************************)
(* PrepareCommit and CreateGroupedCommit.                                  *)
(***************************************************************************)

MayCommit(c) ==
  /\ CommitPush[c] \in DOMAIN pushSets
  /\ \A f \in FilesOf(CommitPush[c]) : MayCall(f)

PrepareCommit(c) ==
  /\ commits[c].pc = "idle"
  /\ MayCommit(c)
  /\ commits' = [commits EXCEPT ![c].pc = "preparing", ![c].resolved = {}]
  /\ UNCHANGED <<tracked, nodes, pushSets, records, mirror, ingests, merges>>

\* PrepareCommit goes through the files of the push, each under a lock of its own:
\* all_resolved is the answer when none of them had an active node when it was read.
CheckFile(c, f) ==
  /\ commits[c].pc = "preparing"
  /\ f \in FilesOf(CommitPush[c]) \ commits[c].resolved
  /\ LET resolved == commits[c].resolved \cup {f} IN
     commits' = [commits EXCEPT
       ![c].pc       = IF Active(f) = {} /\ resolved # FilesOf(CommitPush[c])
                       THEN "preparing" ELSE "idle",
       ![c].resolved = IF Active(f) = {} THEN resolved ELSE {}]
  /\ UNCHANGED <<tracked, nodes, pushSets, records, mirror, ingests, merges>>

\* all_resolved is advice: the caller may have asked for it or not, and the state may
\* have changed since.
CreateGroupedCommit(c) ==
  /\ commits[c].pc = "idle"
  /\ MayCommit(c)
  /\ commits' = [commits EXCEPT ![c].pc = "reading"]
  /\ UNCHANGED <<tracked, nodes, pushSets, records, mirror, ingests, merges>>

\* Mutant of ReadFile: the proposed content is committed, not the file's base.
ReadProposal(c, f) ==
  /\ commits[c].pc = "reading"
  /\ f \in FilesOf(CommitPush[c]) \ DOMAIN commits[c].files
  /\ LET n == CHOOSE n \in NodesOf(CommitPush[c]) : nodes[n].file = f IN
     commits' = [commits EXCEPT ![c].files = Extend(@, f, nodes[n].to)]
  /\ UNCHANGED <<tracked, nodes, pushSets, records, mirror, ingests, merges>>

\* The base content of every file of the push, resolved or not.
ReadFile(c, f) ==
  /\ commits[c].pc = "reading"
  /\ f \in FilesOf(CommitPush[c]) \ DOMAIN commits[c].files
  /\ commits' = [commits EXCEPT ![c].files = Extend(@, f, tracked[f].base)]
  /\ UNCHANGED <<tracked, nodes, pushSets, records, mirror, ingests, merges>>

FilesRead(c) ==
  commits[c].pc = "reading" /\ DOMAIN commits[c].files = FilesOf(CommitPush[c])

Record(c, status) ==
  records' = Extend(records, c, [status   |-> status,
                                 resolved |-> commits[c].resolved # {},
                                 files    |-> commits[c].files])

\* Checkout, write or stage fails (no trace), or git commit does (a failed record).
GitFails(c) ==
  /\ FilesRead(c)
  /\ \/ UNCHANGED records
     \/ Record(c, "push_failed")
  /\ commits' = [commits EXCEPT ![c].pc = "failed"]
  /\ UNCHANGED <<tracked, nodes, pushSets, mirror, ingests, merges>>

\* Git commits, or there is no repository at all.
PutCommitRecord(c) ==
  /\ FilesRead(c)
  /\ Record(c, "created")
  /\ commits' = [commits EXCEPT ![c].pc = "recorded"]
  /\ UNCHANGED <<tracked, nodes, pushSets, mirror, ingests, merges>>

MarkCommitted(c) ==
  /\ commits[c].pc = "recorded"
  /\ pushSets' = [pushSets EXCEPT ![CommitPush[c]] = "committed"]
  /\ commits' = [commits EXCEPT ![c].pc = "marked"]
  /\ UNCHANGED <<tracked, nodes, records, mirror, ingests, merges>>

\* vfs.Clear of the user's key, whichever push it mirrors.
ClearMirror(c) ==
  /\ commits[c].pc = "marked"
  /\ mirror' = [mirror EXCEPT ![PushUser[CommitPush[c]]] = None]
  /\ commits' = [commits EXCEPT ![c].pc = "done"]
  /\ UNCHANGED <<tracked, nodes, pushSets, records, ingests, merges>>
-----------------------------------------------------------------------------
Next ==
  \/ \E p \in Pushes : 
       \/ DiffFile(p)
       \/ CreatePatch(p)
       \/ AddPushNode(p)
       \/ PutPushSet(p)
       \/ ProposeMirror(p)
  \/ \E m \in Merges :
       \/ ApplyMergeResult(m)
       \/ CreateMergePatch(m)
       \/ AddMergeNode(m)
       \/ CollectSuperseded(m)
       \/ \E n \in NodeIds : Supersede(m, n)
       \/ MarkMerged(m)
       \/ SetBranchFileHead(m)
  \/ \E c \in Commits :
       \/ PrepareCommit(c)
       \/ CreateGroupedCommit(c)
       \/ \E f \in Files : CheckFile(c, f) \/ ReadFile(c, f)
       \/ GitFails(c)
       \/ PutCommitRecord(c)
       \/ MarkCommitted(c)
       \/ ClearMirror(c)

Spec == Init /\ [][Next]_vars
-----------------------------------------------------------------------------
(***************************************************************************)
(* Properties.                                                             *)
(***************************************************************************)

\* What register_push answers can be relied on: a registered push has all its
\* nodes, a committed one has a commit that git made, and the VFS only mirrors
\* registered pushes of the right user, however handlers interleave and wherever
\* one of them fails.
RegisteredPushesAreComplete ==
  /\ \A p \in DOMAIN pushSets :
       /\ NodesOf(p) \subseteq DOMAIN nodes
       /\ pushSets[p] = "committed" =>
            \E c \in DOMAIN records : CommitPush[c] = p /\ records[c].status = "created"
  /\ \A u \in Users :
       mirror[u] # None => mirror[u] \in DOMAIN pushSets /\ PushUser[mirror[u]] = u

\* A developer's node leaves the active set only while a merge of its own file
\* supersedes nodes, also when the caller lists the nodes of a whole push; and no
\* node is ever active again.
NodesLeaveWithTheirFile ==
  [][\A n \in DOMAIN nodes :
       (nodes[n].status = "active") # (nodes'[n].status = "active") =>
         /\ nodes[n].status = "active"
         /\ \E m \in Merges : MergeFile[m] = nodes[n].file /\ merges[m].pc = "superseding"]_vars

\* A merge of the file has begun to supersede, and has not set its head yet.
Promoting(f) == \E m \in Merges : MergeFile[m] = f /\ merges[m].pc \in {"superseding", "merged"}

\* PromoteHead and SetBranchFileHead: the head of an awaited file always holds the file's
\* base, and is a merged node, whatever ids callers list: only a merge that is just
\* replacing the head, and was given its id, may have superseded it already.
HeadIsMerged ==
  \A f \in Awaited :
    LET head == tracked[f].head IN
    head # None => /\ nodes[head].file = f /\ nodes[head].to = tracked[f].base
                   /\ \/ nodes[head].status = "merged"
                      \/ nodes[head].status = "superseded" /\ Promoting(f)

\* No decision is lost: each promotion on an awaited file builds on the head it
\* replaces, as parent and as base of its patch, although pushes come in between.
PromotionsExtendTheHead ==
  [][\A f \in Awaited :
       tracked'[f].head # tracked[f].head =>
         /\ nodes[tracked'[f].head].parent = tracked[f].head
         /\ nodes[tracked'[f].head].from = tracked[f].base]_vars

\* git_service.go, PrepareCommit: all_resolved means no active nodes remain.  A
\* commit made after that answer contains, for every awaited file of the push, the
\* result of a completed merge and never a base that no decision was made about.
ResolvedCommitsAreDecided ==
  \A c \in DOMAIN records :
    records[c].resolved =>
      \A f \in FilesOf(CommitPush[c]) \cap Awaited :
        \E m \in Merges : /\ MergeFile[m] = f /\ merges[m].pc = "done"
                          /\ records[c].files[f] = Decided[m]
=============================================================================
