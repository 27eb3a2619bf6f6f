--------------------------- MODULE WorkingTreeProofs ---------------------------
(***************************************************************************)
(* What the records of CreateGroupedCommit and PushCommit are worth as     *)
(* long as the calls keep out of each other's way: for any branches,       *)
(* files, calls and faults.  The invariant says what index and working     *)
(* tree hold at each stage of the one call that is in the repository.      *)
(***************************************************************************)
EXTENDS WorkingTree, TLAPS

Snapshots == [Files -> Contents]
GitCommits == [snapshot : Snapshots, by : Commits \cup {None}]
Logs == {log \in Seq(GitCommits) : log # <<>>}
Places == Branches \cup {Main}

CommitCalls ==
  [pc : {"checkout", "write", "commit", "sha", "record", "done", "failed"},
   written : SUBSET Files, by : Commits \cup {None}]
PushCalls ==
  [pc : {"idle", "push", "pushed", "push_failed", "done"},
   commit : Commits \cup {None}, attempts : Nat]

\* The repository has a checked-out branch, and every branch a commit.
GitOK ==
  /\ git \in [branch : Places, index : Snapshots, tree : Snapshots,
              log : [DOMAIN git.log -> Logs]]
  /\ git.branch \in DOMAIN git.log

TypeOK ==
  /\ GitOK
  /\ remote \in [Branches -> Seq(GitCommits)]
  /\ commits \in [Commits -> CommitCalls]
  /\ records \in [Commits -> {None} \cup Records]
  /\ pushes \in [Calls -> PushCalls]
  /\ \A p \in Calls :
       pushes[p].pc # "idle" => /\ pushes[p].commit \in Commits
                                /\ records[pushes[p].commit] \in Records

\* The commit of a call is in a log.
MadeIn(log, c) == \E i \in 2..Len(log) : log[i].by = c /\ Changed(log, i, c)

Made(c) == BranchOf[c] \in DOMAIN git.log /\ MadeIn(git.log[BranchOf[c]], c)

Clean == git.index = HEAD.snapshot /\ git.tree = HEAD.snapshot

\* One call is in the repository, or none, and then nothing is left of the others.
AloneInv ==
  /\ \A c, d \in Commits : InRepository(c) /\ InRepository(d) => c = d
  /\ (\A c \in Commits : ~InRepository(c)) => Clean

\* What it has done so far is all that index and tree hold.
CallOK(c) ==
  /\ commits[c].pc = "checkout" => commits[c].written = {}
  /\ InRepository(c) => git.branch = BranchOf[c]
  /\ commits[c].pc = "write" =>
       /\ git.index = HEAD.snapshot
       /\ git.tree = Overwritten(HEAD.snapshot, c, commits[c].written)
  /\ commits[c].pc = "commit" =>
       /\ git.index = git.tree
       /\ git.tree = Overwritten(HEAD.snapshot, c, DOMAIN Changes[c])
  /\ commits[c].pc = "sha" => Clean /\ Made(c) /\ HEAD.by = c
  /\ commits[c].pc = "record" => Clean /\ Made(c) /\ commits[c].by = c

\* A record is written last, and a commit it names is in the repository.
RecordOK(c) ==
  records[c] # None =>
    /\ commits[c].pc \in {"done", "failed"}
    /\ records[c].sha # None =>
         /\ records[c].sha = c /\ Made(c)
         /\ records[c].status = "pushed" => MadeIn(remote[BranchOf[c]], c)

\* A push call that has pushed has pushed the commit of the record.
PushOK(p) ==
  pushes[p].pc # "idle" =>
    LET c == pushes[p].commit
    IN pushes[p].pc = "pushed" /\ records[c].sha # None => MadeIn(remote[BranchOf[c]], c)

\* What holds as long as all steps are tidy.
InOrder ==
  /\ AloneInv
  /\ \A c \in Commits : CallOK(c) /\ RecordOK(c)
  /\ \A p \in Calls : PushOK(p)

TidyInv == tidy => InOrder

RecordsInv == TypeOK /\ TidyInv
-----------------------------------------------------------------------------
(***************************************************************************)
(* Types.                                                                  *)
(***************************************************************************)

\* The parts of the repository.
LEMMA GitFacts ==
  ASSUME TypeOK
  PROVE  /\ git.branch \in Places /\ git.branch \in DOMAIN git.log
         /\ git.index \in Snapshots /\ git.tree \in Snapshots
         /\ git = [branch |-> git.branch, index |-> git.index, tree |-> git.tree,
                   log |-> git.log]
         /\ git.log \in [DOMAIN git.log -> Logs]
         /\ \A b \in DOMAIN git.log : /\ git.log[b] \in Seq(GitCommits)
                                      /\ Len(git.log[b]) \in Nat \ {0}
                                      /\ Last(git.log[b]) \in GitCommits
                                      /\ Snapshot(b) \in Snapshots
         /\ HEAD \in GitCommits /\ HEAD.snapshot \in Snapshots
<1>1. /\ git.branch \in Places /\ git.branch \in DOMAIN git.log
      /\ git.index \in Snapshots /\ git.tree \in Snapshots
      /\ git = [branch |-> git.branch, index |-> git.index, tree |-> git.tree,
                log |-> git.log]
      /\ git.log \in [DOMAIN git.log -> Logs]
  BY DEF TypeOK, GitOK
<1>2. ASSUME NEW b \in DOMAIN git.log
      PROVE  /\ git.log[b] \in Seq(GitCommits)
             /\ Len(git.log[b]) \in Nat \ {0}
             /\ Last(git.log[b]) \in GitCommits
             /\ Snapshot(b) \in Snapshots
  <2>1. git.log[b] \in Logs
    BY <1>1
  <2>2. git.log[b] \in Seq(GitCommits) /\ git.log[b] # <<>>
    BY <2>1 DEF Logs
  <2>3. Len(git.log[b]) \in Nat \ {0}
    BY <2>2
  <2>4. Last(git.log[b]) \in GitCommits
    BY <2>2, <2>3 DEF Last
  <2>5. \A x \in GitCommits : x.snapshot \in Snapshots
    BY DEF GitCommits
  <2> QED
    BY <2>2, <2>3, <2>4, <2>5 DEF Snapshot
<1> QED
  BY <1>1, <1>2 DEF HEAD, Snapshot

\* Some files of a snapshot replaced make a snapshot.
LEMMA OverwrittenType ==
  ASSUME NEW s \in Snapshots, NEW c \in Commits, NEW F \in SUBSET DOMAIN Changes[c]
  PROVE  Overwritten(s, c, F) \in Snapshots
<1>1. Changes[c] \in UNION {[G -> Contents] : G \in SUBSET Files}
  BY WorkingTreeAssumption
<1>2. \A f \in DOMAIN Changes[c] : Changes[c][f] \in Contents
  BY <1>1
<1> QED
  BY <1>2 DEF Snapshots, Overwritten

\* One commit more makes a log of a log.
LEMMA LogGrows ==
  ASSUME NEW log \in Logs, NEW x \in GitCommits
  PROVE  /\ Append(log, x) \in Logs /\ Len(Append(log, x)) = Len(log) + 1
         /\ Last(Append(log, x)) = x
         /\ \A i \in 1..Len(log) : Append(log, x)[i] = log[i]
         /\ Append(log, x)[Len(log) + 1] = x
<1>1. log \in Seq(GitCommits) /\ Len(log) \in Nat
  BY DEF Logs
<1>2. /\ Append(log, x) \in Seq(GitCommits) /\ Len(Append(log, x)) = Len(log) + 1
      /\ \A i \in 1..Len(log) : Append(log, x)[i] = log[i]
      /\ Append(log, x)[Len(log) + 1] = x
  BY <1>1
<1>3. Append(log, x) # <<>>
  BY <1>1, <1>2
<1>4. Last(Append(log, x)) = x
  BY <1>2 DEF Last
<1> QED
  BY <1>2, <1>3, <1>4 DEF Logs

\* The initial values have the right types.
LEMMA InitType == Init => TypeOK
<1> SUFFICES ASSUME Init PROVE TypeOK
  OBVIOUS
<1>1. First \in GitCommits /\ First.snapshot \in Snapshots
  BY WorkingTreeAssumption DEF First, GitCommits, Snapshots
<1>2. <<First>> \in Logs
  BY <1>1 DEF Logs
<1>3. /\ git.branch = Main /\ git.index = First.snapshot /\ git.tree = First.snapshot
      /\ git.log = [b \in {Main} |-> <<First>>]
      /\ git = [branch |-> Main, index |-> First.snapshot, tree |-> First.snapshot,
                log |-> [b \in {Main} |-> <<First>>]]
  BY DEF Init
<1>4. git.log \in [DOMAIN git.log -> Logs] /\ git.branch \in DOMAIN git.log
  BY <1>2, <1>3
<1>5. git \in [branch : Places, index : Snapshots, tree : Snapshots,
               log : [DOMAIN git.log -> Logs]]
  BY <1>1, <1>3, <1>4 DEF Places
<1>6. remote \in [Branches -> Seq(GitCommits)]
  BY DEF Init
<1>7. commits \in [Commits -> CommitCalls]
  BY DEF Init, CommitCalls
<1>8. records \in [Commits -> {None} \cup Records]
  BY DEF Init
<1>9. pushes \in [Calls -> PushCalls] /\ \A p \in Calls : pushes[p].pc = "idle"
  BY DEF Init, PushCalls
<1> QED
  BY <1>4, <1>5, <1>6, <1>7, <1>8, <1>9 DEF TypeOK, GitOK

\* A repository that is made of these parts.
Parts(b, i, t, l) ==
  git' = [branch |-> b, index |-> i, tree |-> t, log |-> l]

\* It has the right types when the parts have.
LEMMA PartsType ==
  ASSUME NEW b \in Places, NEW i \in Snapshots, NEW t \in Snapshots, NEW l,
         l \in [DOMAIN l -> Logs], b \in DOMAIN l, Parts(b, i, t, l)
  PROVE  GitOK'
<1>1. git' \in [branch : Places, index : Snapshots, tree : Snapshots,
                log : [DOMAIN l -> Logs]]
  BY DEF Parts
<1>2. git'.log = l /\ git'.branch = b
  BY DEF Parts
<1> QED
  BY <1>1, <1>2 DEF GitOK

\* A checkout changes all parts but the logs.
LEMMA SwitchParts ==
  ASSUME TypeOK, NEW b \in Branches, b \in DOMAIN git.log, git' = SwitchedTo(b)
  PROVE  \E i, t \in Snapshots : Parts(b, i, t, git.log)
<1> DEFINE Carried(content, f) ==
             IF content = HEAD.snapshot[f] THEN Snapshot(b)[f] ELSE content
           i == [f \in Files |-> Carried(git.index[f], f)]
           t == [f \in Files |-> Carried(git.tree[f], f)]
<1>1. /\ git.index \in Snapshots /\ git.tree \in Snapshots /\ Snapshot(b) \in Snapshots
      /\ git = [branch |-> git.branch, index |-> git.index, tree |-> git.tree,
                log |-> git.log]
  BY GitFacts
<1>2. i \in Snapshots /\ t \in Snapshots
  BY <1>1 DEF Snapshots
<1>3. git' = [git EXCEPT !.branch = b, !.index = i, !.tree = t]
  BY DEF SwitchedTo
<1> HIDE DEF i, t
<1>4. Parts(b, i, t, git.log)
  BY <1>1, <1>3 DEF Parts
<1> QED
  BY <1>2, <1>4

\* The logs with one more that is that of HEAD.
LogsWith(b) ==
  [a \in DOMAIN git.log \cup {b} |->
     IF a \in DOMAIN git.log THEN git.log[a] ELSE git.log[git.branch]]

\* A branch that is created has them.
LEMMA CreatedParts ==
  ASSUME TypeOK, NEW b \in Branches, git' = CreatedFromHead(b)
  PROVE  /\ Parts(b, git.index, git.tree, LogsWith(b))
         /\ LogsWith(b) \in [DOMAIN LogsWith(b) -> Logs] /\ b \in DOMAIN LogsWith(b)
<1>1. /\ git.index \in Snapshots /\ git.tree \in Snapshots
      /\ git = [branch |-> git.branch, index |-> git.index, tree |-> git.tree,
                log |-> git.log]
      /\ git.log \in [DOMAIN git.log -> Logs] /\ git.branch \in DOMAIN git.log
  BY GitFacts
<1>2. git' = [git EXCEPT !.branch = b, !.log = LogsWith(b)]
  BY DEF CreatedFromHead, LogsWith
<1>3. Parts(b, git.index, git.tree, LogsWith(b))
  BY <1>1, <1>2 DEF Parts
<1>4. \A a \in DOMAIN git.log \cup {b} :
        (IF a \in DOMAIN git.log THEN git.log[a] ELSE git.log[git.branch]) \in Logs
  BY <1>1
<1> QED
  BY <1>3, <1>4 DEF LogsWith

\* A file that is written changes the working tree only.
LEMMA WriteParts ==
  ASSUME TypeOK, NEW c \in Commits, NEW f \in Files, f \in DOMAIN Changes[c],
         git' = [git EXCEPT !.tree[f] = Changes[c][f]]
  PROVE  /\ Parts(git.branch, git.index, [git.tree EXCEPT ![f] = Changes[c][f]], git.log)
         /\ [git.tree EXCEPT ![f] = Changes[c][f]] \in Snapshots
<1>1. /\ git.tree \in Snapshots
      /\ git = [branch |-> git.branch, index |-> git.index, tree |-> git.tree,
                log |-> git.log]
  BY GitFacts
<1>2. Changes[c] \in UNION {[G -> Contents] : G \in SUBSET Files}
  BY WorkingTreeAssumption
<1>3. Changes[c][f] \in Contents
  BY <1>2
<1>4. [git.tree EXCEPT ![f] = Changes[c][f]] \in Snapshots
  BY <1>1, <1>3 DEF Snapshots
<1> DEFINE t == [git.tree EXCEPT ![f] = Changes[c][f]]
<1>5. git' = [git EXCEPT !.tree = t]
  OBVIOUS
<1> HIDE DEF t
<1>6. Parts(git.branch, git.index, t, git.log)
  BY <1>1, <1>5 DEF Parts
<1> QED
  BY <1>4, <1>6 DEF t

\* The index with the files of a push as the working tree has them.
Staged(c) == [f \in Files |-> IF f \in DOMAIN Changes[c] THEN git.tree[f] ELSE git.index[f]]

\* Staging changes the index only.
LEMMA StageParts ==
  ASSUME TypeOK, NEW c \in Commits, StageFiles(c)
  PROVE  Parts(git.branch, Staged(c), git.tree, git.log) /\ Staged(c) \in Snapshots
<1>1. /\ git.tree \in Snapshots /\ git.index \in Snapshots
      /\ git = [branch |-> git.branch, index |-> git.index, tree |-> git.tree,
                log |-> git.log]
  BY GitFacts
<1>2. Staged(c) \in Snapshots
  BY <1>1 DEF Staged, Snapshots
<1>3. git' = [git EXCEPT !.index = Staged(c)]
  BY DEF StageFiles, Staged
<1>4. Parts(git.branch, Staged(c), git.tree, git.log)
  BY <1>1, <1>3 DEF Parts
<1> QED
  BY <1>2, <1>4

\* The commit a call makes, and the logs with it.
NewCommit(c) == [snapshot |-> git.index, by |-> c]
LogsAfter(c) ==
  [git.log EXCEPT ![git.branch] = Append(git.log[git.branch], NewCommit(c))]

\* A commit changes the logs only.
LEMMA CommitParts ==
  ASSUME TypeOK, NEW c \in Commits, Commit(c)
  PROVE  /\ Parts(git.branch, git.index, git.tree, LogsAfter(c))
         /\ LogsAfter(c) \in [DOMAIN git.log -> Logs]
         /\ NewCommit(c) \in GitCommits
<1>1. /\ git.tree \in Snapshots /\ git.index \in Snapshots
      /\ git = [branch |-> git.branch, index |-> git.index, tree |-> git.tree,
                log |-> git.log]
      /\ git.log \in [DOMAIN git.log -> Logs] /\ git.branch \in DOMAIN git.log
  BY GitFacts
<1>2. git' = [git EXCEPT !.log = LogsAfter(c)]
  <2>1. git' = [git EXCEPT !.log[git.branch] =
                  Append(git.log[git.branch], [snapshot |-> git.index, by |-> c])]
    BY DEF Commit
  <2> QED
    BY <2>1 DEF LogsAfter, NewCommit
<1>3. Parts(git.branch, git.index, git.tree, LogsAfter(c))
  BY <1>1, <1>2 DEF Parts
<1>4. NewCommit(c) \in GitCommits
  BY <1>1 DEF NewCommit, GitCommits
<1>5. Append(git.log[git.branch], NewCommit(c)) \in Logs
  BY <1>1, <1>4, LogGrows
<1>6. LogsAfter(c) \in [DOMAIN git.log -> Logs]
  BY <1>1, <1>5 DEF LogsAfter
<1> QED
  BY <1>3, <1>4, <1>6
\* A step of CreateGroupedCommit keeps the types.
LEMMA GroupedCommitType ==
  ASSUME TypeOK, NEW c \in Commits, GroupedCommit(c)
  PROVE  TypeOK'
<1> USE DEF CommitCalls
<1>0. /\ commits \in [Commits -> CommitCalls] /\ records \in [Commits -> {None} \cup Records]
      /\ BranchOf[c] \in Branches /\ Branches \subseteq Places
      /\ git.log \in [DOMAIN git.log -> Logs] /\ git.branch \in DOMAIN git.log
      /\ git.branch \in Places /\ git.index \in Snapshots /\ git.tree \in Snapshots
  BY GitFacts, WorkingTreeAssumption DEF TypeOK, Places
<1>1. GitOK'
  <2>0. UNCHANGED git => GitOK'
    BY DEF TypeOK, GitOK
  <2>1. CASE CheckoutBranch(c)
    <3>1. CASE git' = SwitchedTo(BranchOf[c]) /\ BranchOf[c] \in DOMAIN git.log
      BY <1>0, <3>1, SwitchParts, PartsType
    <3>2. CASE git' = CreatedFromHead(BranchOf[c])
      BY <1>0, <3>2, CreatedParts, PartsType
    <3> QED
      BY <2>0, <2>1, <3>1, <3>2 DEF CheckoutBranch
  <2>2. ASSUME NEW f \in Files, WriteFile(c, f) PROVE GitOK'
    <3>1. f \in DOMAIN Changes[c] /\ git' = [git EXCEPT !.tree[f] = Changes[c][f]]
      BY <2>2 DEF WriteFile
    <3> QED
      BY <1>0, <3>1, WriteParts, PartsType
  <2>3. CASE StageFiles(c)
    BY <1>0, <2>3, StageParts, PartsType
  <2>4. CASE Commit(c)
    <3>1. DOMAIN LogsAfter(c) = DOMAIN git.log
      BY <1>0 DEF LogsAfter
    <3> QED
      BY <1>0, <2>4, <3>1, CommitParts, PartsType
  <2>5. CASE HeadSHA(c) \/ PutCommitRecord(c) \/ CommandFails(c) \/ CommitFails(c)
    BY <2>0, <2>5 DEF HeadSHA, PutCommitRecord, CommandFails, CommitFails
  <2> QED
    BY <2>1, <2>2, <2>3, <2>4, <2>5 DEF GroupedCommit
<1>2. commits' \in [Commits -> CommitCalls]
  <2>1. \A pc \in {"write", "commit", "sha", "record", "done", "failed"} :
          Goto(c, pc) => commits' \in [Commits -> CommitCalls]
    BY <1>0 DEF Goto
  <2>2. ASSUME NEW f \in Files, WriteFile(c, f) PROVE commits' \in [Commits -> CommitCalls]
    BY <1>0, <2>2 DEF WriteFile
  <2>3. CASE HeadSHA(c)
    <3>1. HEAD.by \in Commits \cup {None}
      BY GitFacts DEF GitCommits
    <3> QED
      BY <1>0, <2>3, <3>1 DEF HeadSHA
  <2> QED
    BY <2>1, <2>2, <2>3 DEF GroupedCommit, CheckoutBranch, StageFiles, Commit, PutCommitRecord,
       CommandFails, CommitFails
<1>3. /\ records' \in [Commits -> {None} \cup Records]
      /\ \A d \in Commits : records[d] \in Records => records'[d] \in Records
  <2>1. commits[c].by \in Commits \cup {None}
    BY <1>0
  <2>2. CASE records' = [records EXCEPT ![c] = [status |-> "created", sha |-> commits[c].by]]
    <3>1. [status |-> "created", sha |-> commits[c].by] \in Records
      BY <2>1 DEF Records
    <3> QED
      BY <1>0, <2>2, <3>1
  <2>3. CASE records' = [records EXCEPT ![c] = [status |-> "push_failed", sha |-> None]]
    <3>1. [status |-> "push_failed", sha |-> None] \in Records
      BY DEF Records
    <3> QED
      BY <1>0, <2>3, <3>1
  <2>4. CASE UNCHANGED records
    BY <1>0, <2>4
  <2> QED
    BY <2>2, <2>3, <2>4 DEF GroupedCommit, CheckoutBranch, WriteFile, StageFiles, Commit,
       HeadSHA, PutCommitRecord, CommandFails, CommitFails
<1>4. UNCHANGED <<remote, pushes>>
  BY DEF GroupedCommit, CheckoutBranch, WriteFile, StageFiles, Commit, HeadSHA,
     PutCommitRecord, CommandFails, CommitFails
<1> QED
  BY <1>0, <1>1, <1>2, <1>3, <1>4 DEF TypeOK

\* What a push call does to the types.
LEMMA PushType ==
  ASSUME TypeOK, NEW p \in Calls,
         (\E c \in Commits : PushCommit(p, c)) \/ Push(p) \/ UpdateCommitRecord(p)
  PROVE  TypeOK'
<1>0. /\ pushes \in [Calls -> PushCalls] /\ records \in [Commits -> {None} \cup Records]
      /\ remote \in [Branches -> Seq(GitCommits)]
      /\ \A q \in Calls :
           pushes[q].pc # "idle" => /\ pushes[q].commit \in Commits
                                    /\ records[pushes[q].commit] \in Records
  BY DEF TypeOK
<1>1. UNCHANGED <<git, commits>>
  BY DEF PushCommit, Push, UpdateCommitRecord
<1>2. remote' \in [Branches -> Seq(GitCommits)]
  <2>1. \A b \in DOMAIN git.log : git.log[b] \in Seq(GitCommits)
    BY GitFacts
  <2> QED
    BY <1>0, <2>1 DEF PushCommit, Push, UpdateCommitRecord
<1>3. /\ pushes' \in [Calls -> PushCalls] /\ records' \in [Commits -> {None} \cup Records]
      /\ \A q \in Calls :
           pushes'[q].pc # "idle" => /\ pushes'[q].commit \in Commits
                                     /\ records'[pushes'[q].commit] \in Records
  <2>1. ASSUME NEW c \in Commits, PushCommit(p, c) PROVE
        /\ pushes' \in [Calls -> PushCalls] /\ records' \in [Commits -> {None} \cup Records]
        /\ \A q \in Calls :
             pushes'[q].pc # "idle" => /\ pushes'[q].commit \in Commits
                                       /\ records'[pushes'[q].commit] \in Records
    BY <1>0, <2>1 DEF PushCommit, PushCalls
  <2>2. CASE Push(p)
    <3>1. pushes[p].pc = "push" /\ UNCHANGED records
      BY <2>2 DEF Push
    <3>2. /\ pushes' \in [Calls -> PushCalls]
          /\ \A q \in Calls : /\ pushes'[q].commit = pushes[q].commit
                              /\ q # p => pushes'[q].pc = pushes[q].pc
      <4>1. CASE pushes' = [pushes EXCEPT ![p].pc = "pushed"]
        BY <1>0, <4>1 DEF PushCalls
      <4>2. CASE pushes' = [pushes EXCEPT ![p] =
                   [pc |-> IF @.attempts = 2 THEN "push_failed" ELSE "push",
                    commit |-> @.commit, attempts |-> @.attempts + 1]]
        BY <1>0, <4>2 DEF PushCalls
      <4> QED
        BY <2>2, <4>1, <4>2 DEF Push
    <3> QED
      BY <1>0, <3>1, <3>2
  <2>3. CASE UpdateCommitRecord(p)
    <3> DEFINE c == pushes[p].commit
    <3>1. /\ c \in Commits /\ records[c] \in Records
          /\ pushes[p].pc \in {"pushed", "push_failed"}
      BY <1>0, <2>3 DEF UpdateCommitRecord
    <3>2. [records[c] EXCEPT !.status = pushes[p].pc] \in Records
      BY <3>1 DEF Records
    <3>3. records' = [records EXCEPT ![c] = [records[c] EXCEPT !.status = pushes[p].pc]]
      BY <2>3 DEF UpdateCommitRecord
    <3>4. /\ records' \in [Commits -> {None} \cup Records]
          /\ \A d \in Commits : records[d] \in Records => records'[d] \in Records
      BY <1>0, <3>1, <3>2, <3>3
    <3>5. pushes' = [pushes EXCEPT ![p].pc = "done"]
      BY <2>3 DEF UpdateCommitRecord
    <3>6. pushes' \in [Calls -> PushCalls]
      BY <1>0, <3>5 DEF PushCalls
    <3>7. \A q \in Calls : /\ pushes'[q].commit = pushes[q].commit
                           /\ pushes'[q].pc # "idle" => pushes[q].pc # "idle"
      BY <1>0, <3>1, <3>5 DEF PushCalls
    <3> QED
      BY <1>0, <3>4, <3>6, <3>7
  <2> QED
    BY <2>1, <2>2, <2>3
<1>4. GitOK'
  BY <1>1 DEF TypeOK, GitOK
<1> QED
  BY <1>1, <1>2, <1>3, <1>4 DEF TypeOK
-----------------------------------------------------------------------------
(***************************************************************************)
(* What a step of one call leaves to the others.                           *)
(***************************************************************************)

\* A commit that is in a log stays there.
LEMMA MadeGrows ==
  ASSUME NEW log \in Logs, NEW x \in GitCommits, NEW c \in Commits, MadeIn(log, c)
  PROVE  MadeIn(Append(log, x), c)
<1>1. PICK i \in 2..Len(log) : log[i].by = c /\ Changed(log, i, c)
  BY DEF MadeIn
<1>2. Len(log) \in Nat
  BY DEF Logs
<1>3. i \in 1..Len(log) /\ i - 1 \in 1..Len(log) /\ i \in 2..(Len(log) + 1)
  BY <1>2
<1>4. /\ Append(log, x)[i] = log[i] /\ Append(log, x)[i - 1] = log[i - 1]
      /\ Len(Append(log, x)) = Len(log) + 1
  BY <1>3, LogGrows
<1>5. i \in 2..Len(Append(log, x))
  BY <1>3, <1>4
<1>6. Append(log, x)[i].by = c /\ Changed(Append(log, x), i, c)
  BY <1>1, <1>4 DEF Changed
<1> QED
  BY <1>5, <1>6 DEF MadeIn

\* A step of the call c.
StepOf(c) ==
  /\ \A d \in Commits : d # c => commits'[d] = commits[d] /\ records'[d] = records[d]
  /\ UNCHANGED <<remote, pushes>>
  /\ commits[c].pc \notin {"done", "failed"}
  /\ \A d \in Commits : Made(d) => Made(d)'

\* As long as a call has no record, the records, and what has been pushed, are those of others.
LEMMA RecordsStay ==
  ASSUME TypeOK, InOrder, NEW c \in Commits, StepOf(c), RecordOK(c)'
  PROVE  (\A d \in Commits : RecordOK(d)') /\ (\A p \in Calls : PushOK(p)')
<1>1. ASSUME NEW d \in Commits, d # c PROVE RecordOK(d)'
  <2>1. RecordOK(d) /\ commits'[d] = commits[d] /\ records'[d] = records[d] /\ remote' = remote
    BY <1>1 DEF InOrder, StepOf
  <2>2. Made(d) => Made(d)'
    BY DEF StepOf
  <2> QED
    BY <2>1, <2>2 DEF RecordOK
<1>2. records[c] \notin Records
  <2>1. records[c] = None
    BY DEF InOrder, RecordOK, StepOf
  <2> QED
    BY <2>1, WorkingTreeAssumption
<1>3. ASSUME NEW p \in Calls PROVE PushOK(p)'
  <2>1. CASE pushes[p].pc = "idle"
    BY <2>1 DEF PushOK, StepOf
  <2>2. CASE pushes[p].pc # "idle"
    <3> DEFINE d == pushes[p].commit
    <3>1. d \in Commits /\ d # c
      BY <1>2, <2>2 DEF TypeOK
    <3>2. PushOK(p) /\ records'[d] = records[d] /\ pushes' = pushes /\ remote' = remote
      BY <3>1 DEF InOrder, StepOf
    <3> QED
      BY <3>2 DEF PushOK
  <2> QED
    BY <2>1, <2>2
<1> QED
  BY <1>1, <1>3

\* A step of the call that is in the repository, or enters it.
LEMMA StepInside ==
  ASSUME TypeOK, InOrder, Tidy, NEW c \in Commits, StepOf(c),
         InRepository(c) \/ InRepository(c)',
         CallOK(c)', RecordOK(c)', ~InRepository(c)' => Clean'
  PROVE  InOrder'
<1>1. ASSUME NEW d \in Commits, d # c PROVE ~InRepository(d)'
  <2>1. commits'[d] = commits[d]
    BY <1>1 DEF StepOf
  <2>2. InRepository(d)' = InRepository(d)
    BY <2>1 DEF InRepository
  <2>3. ~(InRepository(c) /\ InRepository(d))
    BY <1>1 DEF InOrder, AloneInv
  <2>4. ~(InRepository(c)' /\ InRepository(d)')
    BY <1>1 DEF Tidy
  <2> QED
    BY <2>2, <2>3, <2>4
<1>2. ASSUME NEW d \in Commits, d # c PROVE CallOK(d)'
  <2>1. commits'[d] = commits[d] /\ CallOK(d)
    BY <1>2 DEF StepOf, InOrder
  <2>2. ~InRepository(d)'
    BY <1>1, <1>2
  <2> QED
    BY <2>1, <2>2 DEF CallOK, InRepository
<1>3. AloneInv'
  <2>1. \A d, e \in Commits : InRepository(d)' /\ InRepository(e)' => d = e
    BY <1>1
  <2>2. (\A d \in Commits : ~InRepository(d)') => Clean'
    OBVIOUS
  <2> QED
    BY <2>1, <2>2 DEF AloneInv
<1> QED
  BY <1>2, <1>3, RecordsStay DEF InOrder

\* A step beside the repository: the call fails before it enters it.
LEMMA StepOutside ==
  ASSUME TypeOK, InOrder, NEW c \in Commits, StepOf(c), UNCHANGED git,
         ~InRepository(c), ~InRepository(c)', commits'[c].pc # "checkout", RecordOK(c)'
  PROVE  InOrder'
<1>1. \A d \in Commits : InRepository(d)' = InRepository(d)
  BY DEF StepOf, InRepository
<1>2. Clean' = Clean
  BY DEF Clean, HEAD
<1>3. AloneInv'
  BY <1>1, <1>2 DEF InOrder, AloneInv
<1>4. CallOK(c)'
  BY DEF CallOK, InRepository
<1>5. ASSUME NEW d \in Commits, d # c PROVE CallOK(d)'
  <2>1. CallOK(d) /\ commits'[d] = commits[d]
    BY <1>5 DEF InOrder, StepOf
  <2>2. HEAD' = HEAD /\ Made(d)' = Made(d) /\ git' = git
    BY DEF HEAD, Made
  <2> QED
    BY <1>1, <1>2, <2>1, <2>2 DEF CallOK
<1> QED
  BY <1>3, <1>4, <1>5, RecordsStay DEF InOrder
-----------------------------------------------------------------------------
(***************************************************************************)
(* CreateGroupedCommit, step by step.                                      *)
(***************************************************************************)

\* What a call is before a step of its own.
LEMMA CallFacts ==
  ASSUME TypeOK, InOrder, NEW c \in Commits
  PROVE  /\ AloneInv /\ CallOK(c) /\ RecordOK(c)
         /\ commits \in [Commits -> CommitCalls] /\ commits[c] \in CommitCalls
         /\ records \in [Commits -> {None} \cup Records] /\ BranchOf[c] \in Branches
         /\ commits[c].pc \notin {"done", "failed"} => records[c] = None
<1>1. AloneInv /\ CallOK(c) /\ RecordOK(c)
  BY DEF InOrder
<1>2. /\ commits \in [Commits -> CommitCalls] /\ records \in [Commits -> {None} \cup Records]
      /\ BranchOf[c] \in Branches
  BY WorkingTreeAssumption DEF TypeOK
<1> QED
  BY <1>1, <1>2 DEF RecordOK

\* As long as it has no record, there is nothing to say of it.
LEMMA NoRecordYet ==
  ASSUME TypeOK, InOrder, NEW c \in Commits,
         commits[c].pc \notin {"done", "failed"}, records' = records
  PROVE  RecordOK(c)'
<1>1. records'[c] = None
  BY CallFacts
<1> QED
  BY <1>1 DEF RecordOK

\* A checkout in a clean repository leaves it clean.
LEMMA SwitchClean ==
  ASSUME TypeOK, Clean, NEW b \in Branches, b \in DOMAIN git.log, git' = SwitchedTo(b)
  PROVE  /\ git'.branch = b /\ git'.log = git.log
         /\ git'.index = Snapshot(b) /\ git'.tree = Snapshot(b)
<1> DEFINE Carried(content, f) ==
             IF content = HEAD.snapshot[f] THEN Snapshot(b)[f] ELSE content
           i == [f \in Files |-> Carried(git.index[f], f)]
           t == [f \in Files |-> Carried(git.tree[f], f)]
<1>1. /\ Snapshot(b) \in Snapshots
      /\ git = [branch |-> git.branch, index |-> git.index, tree |-> git.tree,
                log |-> git.log]
  BY GitFacts
<1>2. i = [f \in Files |-> Snapshot(b)[f]] /\ t = [f \in Files |-> Snapshot(b)[f]]
  BY DEF Clean
<1>3. [f \in Files |-> Snapshot(b)[f]] = Snapshot(b)
  BY <1>1 DEF Snapshots
<1>4. git' = [git EXCEPT !.branch = b, !.index = i, !.tree = t]
  BY DEF SwitchedTo
<1>5. i = Snapshot(b) /\ t = Snapshot(b)
  BY <1>2, <1>3
<1> HIDE DEF i, t
<1>6. git' = [branch |-> b, index |-> i, tree |-> t, log |-> git.log]
  BY <1>1, <1>4
<1> QED
  BY <1>5, <1>6

\* A branch that is created has what HEAD has.
LEMMA CreateClean ==
  ASSUME TypeOK, Clean, NEW b \in Branches, b \notin DOMAIN git.log, git' = CreatedFromHead(b)
  PROVE  /\ git'.branch = b /\ b \in DOMAIN git'.log
         /\ Last(git'.log[b]) = HEAD
         /\ git'.index = HEAD.snapshot /\ git'.tree = HEAD.snapshot
         /\ \A a \in DOMAIN git.log : a \in DOMAIN git'.log /\ git'.log[a] = git.log[a]
<1>1. git' = [branch |-> b, index |-> git.index, tree |-> git.tree, log |-> LogsWith(b)]
  BY CreatedParts DEF Parts
<1>2. /\ git'.branch = b /\ git'.index = git.index /\ git'.tree = git.tree
      /\ git'.log = LogsWith(b)
  BY <1>1
<1>3. LogsWith(b)[b] = git.log[git.branch]
  BY DEF LogsWith
<1>4. \A a \in DOMAIN git.log : a \in DOMAIN LogsWith(b) /\ LogsWith(b)[a] = git.log[a]
  BY DEF LogsWith
<1>5. b \in DOMAIN LogsWith(b)
  BY DEF LogsWith
<1> QED
  BY <1>2, <1>3, <1>4, <1>5 DEF Clean, HEAD

\* The call that enters the repository finds it clean and leaves it so.
LEMMA CheckoutKeepsOrder ==
  ASSUME TypeOK, InOrder, Tidy, NEW c \in Commits, CheckoutBranch(c)
  PROVE  InOrder'
<1> DEFINE b == BranchOf[c]
<1>1. /\ commits[c].pc = "checkout" /\ commits[c].written = {} /\ ~InRepository(c)
      /\ UNCHANGED <<remote, records, pushes>>
  BY CallFacts DEF CheckoutBranch, CallOK, InRepository
<1>2. RecordOK(c)'
  BY <1>1, NoRecordYet
<1>3. \A d \in Commits : d # c => commits'[d] = commits[d] /\ records'[d] = records[d]
  BY <1>1, CallFacts DEF CheckoutBranch, Goto
<1>4. CASE Goto(c, "failed") /\ UNCHANGED git
  <2>1. \A d \in Commits : Made(d) => Made(d)'
    BY <1>4 DEF Made
  <2>2. StepOf(c)
    BY <1>1, <1>3, <2>1 DEF StepOf
  <2>3. commits'[c].pc = "failed"
    BY <1>4, CallFacts DEF Goto
  <2> QED
    BY <1>1, <1>2, <1>4, <2>2, <2>3, StepOutside DEF InRepository
<1>5. CASE Goto(c, "write")
  <2>1. commits'[c].pc = "write" /\ commits'[c].written = {} /\ InRepository(c)'
    BY <1>1, <1>5, CallFacts DEF Goto, InRepository, CommitCalls
  <2>2. Clean
    <3>1. \A d \in Commits : ~InRepository(d)
      <4>1. ASSUME NEW d \in Commits, InRepository(d) PROVE FALSE
        <5>1. d # c
          BY <1>1, <4>1
        <5>2. InRepository(d)'
          BY <1>3, <4>1, <5>1 DEF InRepository
        <5> QED
          BY <2>1, <5>1, <5>2 DEF Tidy
      <4> QED
        BY <4>1
    <3> QED
      BY <3>1, CallFacts DEF AloneInv
  <2>3. /\ git'.branch = b /\ b \in DOMAIN git'.log
        /\ Last(git'.log[b]).snapshot \in Snapshots
        /\ git'.index = Last(git'.log[b]).snapshot /\ git'.tree = Last(git'.log[b]).snapshot
        /\ \A a \in DOMAIN git.log : a \in DOMAIN git'.log /\ git'.log[a] = git.log[a]
    <3>1. CASE b \in DOMAIN git.log
      <4>1. git' = SwitchedTo(b)
        <5>1. ~Goto(c, "failed")
          BY <2>1, CallFacts DEF Goto, CommitCalls
        <5> QED
          BY <3>1, <5>1 DEF CheckoutBranch
      <4> QED
        BY <2>2, <3>1, <4>1, CallFacts, SwitchClean, GitFacts DEF Snapshot
    <3>2. CASE b \notin DOMAIN git.log
      <4>1. git' = CreatedFromHead(b)
        BY <3>2 DEF CheckoutBranch
      <4> QED
        BY <2>2, <3>2, <4>1, CallFacts, CreateClean, GitFacts
    <3> QED
      BY <3>1, <3>2
  <2>4. HEAD' = Last(git'.log[b])
    BY <2>3 DEF HEAD
  <2>5. \A s \in Snapshots : Overwritten(s, c, {}) = s
    BY DEF Overwritten, Snapshots
  <2>6. CallOK(c)'
    <3>1. git'.tree = Overwritten(HEAD'.snapshot, c, commits'[c].written)
      BY <2>1, <2>3, <2>4, <2>5
    <3> QED
      BY <2>1, <2>3, <2>4, <3>1 DEF CallOK
  <2>7. \A d \in Commits : Made(d) => Made(d)'
    BY <2>3 DEF Made
  <2>8. StepOf(c)
    BY <1>1, <1>3, <2>7 DEF StepOf
  <2> QED
    BY <1>2, <2>1, <2>6, <2>8, StepInside
<1> QED
  BY <1>4, <1>5 DEF CheckoutBranch

\* A file more is written, and nothing else has changed.
LEMMA WriteKeepsOrder ==
  ASSUME TypeOK, InOrder, Tidy, NEW c \in Commits, NEW f \in Files, WriteFile(c, f)
  PROVE  InOrder'
<1> DEFINE W == commits[c].written
           t == [git.tree EXCEPT ![f] = Changes[c][f]]
<1>1. /\ commits[c].pc = "write" /\ InRepository(c) /\ f \in DOMAIN Changes[c]
      /\ UNCHANGED <<remote, records, pushes>>
  BY DEF WriteFile, InRepository
<1>2. /\ git'.branch = git.branch /\ git'.index = git.index /\ git'.log = git.log
      /\ git'.tree = t
  <2>1. Parts(git.branch, git.index, t, git.log)
    BY <1>1, WriteParts DEF WriteFile
  <2> HIDE DEF t
  <2> QED
    BY <2>1 DEF Parts
<1>3. commits'[c].pc = "write" /\ commits'[c].written = W \cup {f} /\ InRepository(c)'
  BY <1>1, CallFacts DEF WriteFile, InRepository, CommitCalls
<1>4. \A d \in Commits : d # c => commits'[d] = commits[d] /\ records'[d] = records[d]
  BY <1>1, CallFacts DEF WriteFile
<1>5. HEAD' = HEAD /\ \A d \in Commits : Made(d) => Made(d)'
  BY <1>2 DEF HEAD, Made
<1>6. /\ git.branch = BranchOf[c] /\ git.index = HEAD.snapshot
      /\ git.tree = Overwritten(HEAD.snapshot, c, W)
  BY <1>1, CallFacts DEF CallOK
<1>7. t = Overwritten(HEAD.snapshot, c, W \cup {f})
  BY <1>6 DEF Overwritten
<1>8. CallOK(c)'
  <2> HIDE DEF t
  <2> QED
    BY <1>2, <1>3, <1>5, <1>6, <1>7 DEF CallOK
<1>9. StepOf(c)
  BY <1>1, <1>4, <1>5 DEF StepOf
<1> QED
  BY <1>1, <1>3, <1>8, <1>9, NoRecordYet, StepInside

\* What is staged is HEAD with the files of the push, which is what the working tree holds.
LEMMA StageKeepsOrder ==
  ASSUME TypeOK, InOrder, Tidy, NEW c \in Commits, StageFiles(c)
  PROVE  InOrder'
<1>1. /\ commits[c].pc = "write" /\ commits[c].written = DOMAIN Changes[c] /\ InRepository(c)
      /\ UNCHANGED <<remote, records, pushes>> /\ Goto(c, "commit")
  BY DEF StageFiles, InRepository
<1>2. /\ git'.branch = git.branch /\ git'.index = Staged(c) /\ git'.log = git.log
      /\ git'.tree = git.tree
  BY StageParts DEF Parts
<1>3. commits'[c].pc = "commit" /\ InRepository(c)'
  BY <1>1, CallFacts DEF Goto, InRepository, CommitCalls
<1>4. \A d \in Commits : d # c => commits'[d] = commits[d] /\ records'[d] = records[d]
  BY <1>1, CallFacts DEF Goto
<1>5. HEAD' = HEAD /\ \A d \in Commits : Made(d) => Made(d)'
  BY <1>2 DEF HEAD, Made
<1>6. /\ git.branch = BranchOf[c] /\ git.index = HEAD.snapshot
      /\ git.tree = Overwritten(HEAD.snapshot, c, DOMAIN Changes[c])
  BY <1>1, CallFacts DEF CallOK
<1>7. Staged(c) = git.tree
  <2>1. \A f \in Files : (IF f \in DOMAIN Changes[c] THEN git.tree[f] ELSE git.index[f])
                         = (IF f \in DOMAIN Changes[c] THEN Changes[c][f] ELSE HEAD.snapshot[f])
    BY <1>6 DEF Overwritten
  <2> QED
    BY <1>6, <2>1 DEF Staged, Overwritten
<1>8. CallOK(c)'
  BY <1>2, <1>3, <1>5, <1>6, <1>7 DEF CallOK
<1>9. StepOf(c)
  BY <1>1, <1>4, <1>5 DEF StepOf
<1> QED
  BY <1>1, <1>3, <1>8, <1>9, NoRecordYet, StepInside
\* What is committed is HEAD with the files of the push, and the repository is clean again.
LEMMA CommitKeepsOrder ==
  ASSUME TypeOK, InOrder, Tidy, NEW c \in Commits, Commit(c)
  PROVE  InOrder'
<1> DEFINE b == git.branch
           log == git.log[b]
           new == NewCommit(c)
<1>1. /\ commits[c].pc = "commit" /\ InRepository(c)
      /\ UNCHANGED <<remote, records, pushes>> /\ Goto(c, "sha")
  BY DEF Commit, InRepository
<1>2. /\ git'.branch = b /\ git'.index = git.index /\ git'.tree = git.tree
      /\ git'.log = LogsAfter(c) /\ new \in GitCommits
  BY CommitParts DEF Parts
<1>3. commits'[c].pc = "sha" /\ InRepository(c)'
  BY <1>1, CallFacts DEF Goto, InRepository, CommitCalls
<1>4. \A d \in Commits : d # c => commits'[d] = commits[d] /\ records'[d] = records[d]
  BY <1>1, CallFacts DEF Goto
<1>5. /\ b = BranchOf[c] /\ git.index = git.tree
      /\ git.tree = Overwritten(HEAD.snapshot, c, DOMAIN Changes[c])
  BY <1>1, CallFacts DEF CallOK
<1>6. /\ git.log \in [DOMAIN git.log -> Logs] /\ b \in DOMAIN git.log
      /\ log \in Logs /\ log \in Seq(GitCommits) /\ Len(log) \in Nat \ {0}
  BY GitFacts
<1>7. /\ LogsAfter(c)[b] = Append(log, new) /\ DOMAIN LogsAfter(c) = DOMAIN git.log
      /\ \A a \in DOMAIN git.log : a # b => LogsAfter(c)[a] = git.log[a]
  BY <1>6 DEF LogsAfter
<1>8. /\ Len(Append(log, new)) = Len(log) + 1 /\ Last(Append(log, new)) = new
      /\ Append(log, new)[Len(log)] = log[Len(log)]
      /\ Append(log, new)[Len(log) + 1] = new
  <2>1. Len(log) \in 1..Len(log)
    BY <1>6
  <2> QED
    BY ONLY <1>2, <1>6, <2>1, LogGrows
<1>9. new.by = c /\ new.snapshot = git.index
  BY DEF NewCommit
<1>10. HEAD' = new
  <2>1. HEAD' = Last(git'.log[git'.branch])
    BY DEF HEAD
  <2> QED
    BY ONLY <1>2, <1>7, <1>8, <2>1
<1>11. MadeIn(Append(log, new), c)
  <2>1. HEAD = log[Len(log)]
    BY DEF HEAD, Last
  <2>2. Len(log) + 1 \in 2..(Len(log) + 1) /\ Len(log) + 1 - 1 = Len(log)
    BY <1>6
  <2> HIDE DEF new, log
  <2>3. Changed(Append(log, new), Len(log) + 1, c)
    <3> DEFINE x == Append(log, new)
               n == Len(log) + 1
    <3>1. x[n].snapshot = Overwritten(HEAD.snapshot, c, DOMAIN Changes[c])
      BY <1>5, <1>8, <1>9
    <3>2. n - 1 = Len(log)
      BY <2>2
    <3>3. x[Len(log)] = HEAD
      BY <1>8, <2>1
    <3> HIDE DEF x, n
    <3>4. Changed(x, n, c)
      BY ONLY <3>1, <3>2, <3>3 DEF Changed
    <3> QED
      BY <3>4 DEF x, n
  <2> QED
    BY <1>8, <1>9, <2>2, <2>3 DEF MadeIn
<1>12. Made(c)'
  BY <1>2, <1>5, <1>6, <1>7, <1>11 DEF Made
<1>13. ASSUME NEW d \in Commits, Made(d) PROVE Made(d)'
  <2>1. BranchOf[d] \in DOMAIN git.log /\ MadeIn(git.log[BranchOf[d]], d)
    BY <1>13 DEF Made
  <2>2. MadeIn(LogsAfter(c)[BranchOf[d]], d)
    <3>1. CASE BranchOf[d] = b
      <4>1. MadeIn(Append(log, new), d)
        BY <1>2, <1>6, <2>1, <3>1, MadeGrows
      <4> QED
        BY <1>7, <3>1, <4>1
    <3>2. CASE BranchOf[d] # b
      BY <1>7, <2>1, <3>2
    <3> QED
      BY <3>1, <3>2
  <2> QED
    BY <1>2, <1>7, <2>1, <2>2 DEF Made
<1>14. Clean'
  BY <1>2, <1>5, <1>9, <1>10 DEF Clean
<1>15. CallOK(c)'
  BY <1>2, <1>3, <1>5, <1>9, <1>10, <1>12, <1>14 DEF CallOK
<1>16. StepOf(c)
  BY <1>1, <1>4, <1>13 DEF StepOf
<1> QED
  BY <1>1, <1>3, <1>15, <1>16, NoRecordYet, StepInside

\* The commit whose SHA is read is the one the call has made.
LEMMA HeadSHAKeepsOrder ==
  ASSUME TypeOK, InOrder, Tidy, NEW c \in Commits, HeadSHA(c)
  PROVE  InOrder'
<1>1. commits[c].pc = "sha" /\ InRepository(c) /\ UNCHANGED <<git, remote, records, pushes>>
  BY DEF HeadSHA, InRepository
<1>2. Clean /\ Made(c) /\ HEAD.by = c /\ git.branch = BranchOf[c]
  BY <1>1, CallFacts DEF CallOK
<1>3. commits'[c].pc = "record" /\ commits'[c].by = c /\ InRepository(c)'
  BY <1>2, CallFacts DEF HeadSHA, InRepository, CommitCalls
<1>4. \A d \in Commits : d # c => commits'[d] = commits[d] /\ records'[d] = records[d]
  BY <1>1, CallFacts DEF HeadSHA
<1>5. HEAD' = HEAD /\ Clean' = Clean /\ \A d \in Commits : Made(d)' = Made(d)
  BY <1>1 DEF HEAD, Clean, Made
<1>6. CallOK(c)'
  BY <1>1, <1>2, <1>3, <1>5 DEF CallOK
<1>7. StepOf(c)
  BY <1>1, <1>4, <1>5 DEF StepOf
<1> QED
  BY <1>1, <1>3, <1>6, <1>7, NoRecordYet, StepInside

\* The record names it.
LEMMA RecordKeepsOrder ==
  ASSUME TypeOK, InOrder, Tidy, NEW c \in Commits, PutCommitRecord(c)
  PROVE  InOrder'
<1>1. commits[c].pc = "record" /\ InRepository(c) /\ UNCHANGED <<git, remote, pushes>>
  BY DEF PutCommitRecord, InRepository
<1>2. Clean /\ Made(c) /\ commits[c].by = c
  BY <1>1, CallFacts DEF CallOK
<1>3. commits'[c].pc = "done" /\ ~InRepository(c)'
  BY CallFacts DEF PutCommitRecord, Goto, InRepository, CommitCalls
<1>4. \A d \in Commits : d # c => commits'[d] = commits[d] /\ records'[d] = records[d]
  BY CallFacts DEF PutCommitRecord, Goto
<1>5. HEAD' = HEAD /\ Clean' = Clean /\ \A d \in Commits : Made(d)' = Made(d)
  BY <1>1 DEF HEAD, Clean, Made
<1>6. RecordOK(c)'
  <2>1. records'[c] = [status |-> "created", sha |-> c]
    BY <1>2, CallFacts DEF PutCommitRecord
  <2> QED
    BY <1>2, <1>3, <1>5, <2>1 DEF RecordOK
<1>7. CallOK(c)'
  BY <1>3 DEF CallOK, InRepository
<1>8. StepOf(c)
  BY <1>1, <1>4, <1>5 DEF StepOf
<1> QED
  BY <1>1, <1>2, <1>5, <1>6, <1>7, <1>8, StepInside

\* A tidy call that fails leaves a clean repository and a record without a commit.
LEMMA FailureKeepsOrder ==
  ASSUME TypeOK, InOrder, Tidy, NEW c \in Commits, CommandFails(c) \/ CommitFails(c)
  PROVE  InOrder'
<1>1. /\ commits[c].pc \in {"checkout", "write", "commit", "sha"}
      /\ UNCHANGED <<git, remote, pushes>> /\ Goto(c, "failed")
  BY DEF CommandFails, CommitFails
<1>2. commits'[c].pc = "failed" /\ ~InRepository(c)'
  BY <1>1, CallFacts DEF Goto, InRepository, CommitCalls
<1>3. \A d \in Commits : d # c => commits'[d] = commits[d] /\ records'[d] = records[d]
  BY <1>1, CallFacts DEF CommandFails, CommitFails, Goto
<1>4. HEAD' = HEAD /\ Clean' = Clean /\ \A d \in Commits : Made(d)' = Made(d)
  BY <1>1 DEF HEAD, Clean, Made
<1>5. RecordOK(c)'
  <2>1. CASE CommandFails(c)
    BY <1>1, <2>1, NoRecordYet DEF CommandFails
  <2>2. CASE CommitFails(c)
    <3>1. records'[c] = [status |-> "push_failed", sha |-> None]
      BY <2>2, CallFacts DEF CommitFails
    <3> QED
      BY <1>2, <3>1 DEF RecordOK
  <2> QED
    BY <2>1, <2>2
<1>6. StepOf(c)
  BY <1>1, <1>3, <1>4 DEF StepOf
<1>7. CASE commits[c].pc = "checkout"
  <2>1. ~InRepository(c)
    BY <1>7 DEF InRepository
  <2> QED
    BY <1>1, <1>2, <1>5, <1>6, <2>1, StepOutside
<1>8. CASE commits[c].pc # "checkout"
  <2>1. InRepository(c)
    BY <1>1, <1>8 DEF InRepository
  <2>2. Clean
    <3>1. git.tree = HEAD.snapshot
      BY <1>1, <1>2 DEF Tidy
    <3> QED
      BY <1>1, <1>8, <3>1, CallFacts DEF CallOK, Clean
  <2>3. CallOK(c)'
    BY <1>2 DEF CallOK, InRepository
  <2> QED
    BY <1>4, <1>5, <1>6, <2>1, <2>2, <2>3, StepInside
<1> QED
  BY <1>7, <1>8
\* Every step of CreateGroupedCommit keeps the order.
LEMMA CallKeepsOrder ==
  ASSUME TypeOK, InOrder, Tidy, NEW c \in Commits, GroupedCommit(c)
  PROVE  InOrder'
BY CheckoutKeepsOrder, WriteKeepsOrder, StageKeepsOrder, CommitKeepsOrder,
   HeadSHAKeepsOrder, RecordKeepsOrder, FailureKeepsOrder DEF GroupedCommit
-----------------------------------------------------------------------------
(***************************************************************************)
(* PushCommit, step by step.                                               *)
(***************************************************************************)

\* A push call leaves the repository alone.
LEMMA RepositoryStays ==
  ASSUME InOrder, UNCHANGED <<git, commits>>
  PROVE  AloneInv' /\ (\A c \in Commits : CallOK(c)' /\ Made(c)' = Made(c))
<1>1. HEAD' = HEAD /\ Clean' = Clean /\ \A c \in Commits : Made(c)' = Made(c)
  BY DEF HEAD, Clean, Made
<1>2. \A c \in Commits : InRepository(c)' = InRepository(c)
  BY DEF InRepository
<1>3. AloneInv'
  BY <1>1, <1>2 DEF InOrder, AloneInv
<1>4. ASSUME NEW c \in Commits PROVE CallOK(c)'
  <2>1. CallOK(c)
    BY DEF InOrder
  <2> QED
    BY <1>1, <1>2, <2>1 DEF CallOK
<1> QED
  BY <1>1, <1>3, <1>4

\* A push call that begins has pushed nothing yet.
LEMMA PushCommitKeepsOrder ==
  ASSUME TypeOK, InOrder, NEW p \in Calls, NEW c \in Commits, PushCommit(p, c)
  PROVE  InOrder'
<1>1. UNCHANGED <<git, commits, records, remote>>
  BY DEF PushCommit
<1>2. pushes'[p].pc # "pushed" /\ \A q \in Calls : q # p => pushes'[q] = pushes[q]
  BY DEF PushCommit, TypeOK
<1>3. \A d \in Commits : RecordOK(d)'
  <2>1. \A d \in Commits : RecordOK(d) /\ Made(d)' = Made(d)
    BY <1>1, RepositoryStays DEF InOrder
  <2> QED
    BY <1>1, <2>1 DEF RecordOK
<1>4. ASSUME NEW q \in Calls PROVE PushOK(q)'
  <2>1. CASE q = p
    BY <1>2, <2>1 DEF PushOK
  <2>2. CASE q # p
    <3>1. PushOK(q) /\ pushes'[q] = pushes[q]
      BY <1>2, <2>2 DEF InOrder
    <3> QED
      BY <1>1, <3>1 DEF PushOK
  <2> QED
    BY <2>1, <2>2
<1> QED
  BY <1>1, <1>3, <1>4, RepositoryStays DEF InOrder

\* What is pushed holds every commit that is made, and what was pushed before.
LEMMA PushKeepsOrder ==
  ASSUME TypeOK, InOrder, NEW p \in Calls, Push(p)
  PROVE  InOrder'
<1> DEFINE b == BranchOf[pushes[p].commit]
<1>1. UNCHANGED <<git, commits, records>> /\ pushes[p].pc = "push" /\ b \in DOMAIN git.log
  BY DEF Push
<1>2. remote' = remote \/ remote' = [remote EXCEPT ![b] = git.log[b]]
  BY DEF Push
\* What is made is pushed with its branch, and what was pushed remains.
<1>3. ASSUME NEW d \in Commits, Made(d), MadeIn(remote[BranchOf[d]], d)
      PROVE  MadeIn(remote'[BranchOf[d]], d)
  <2>1. BranchOf[d] \in Branches /\ remote \in [Branches -> Seq(GitCommits)]
    BY WorkingTreeAssumption DEF TypeOK
  <2>2. MadeIn(git.log[BranchOf[d]], d)
    BY <1>3 DEF Made
  <2>3. remote'[BranchOf[d]] \in {remote[BranchOf[d]], git.log[BranchOf[d]]}
    BY <1>2, <2>1
  <2> QED
    BY <1>3, <2>2, <2>3
<1>4. \A d \in Commits : RecordOK(d) /\ Made(d)' = Made(d)
  BY <1>1, RepositoryStays DEF InOrder
<1>5. ASSUME NEW d \in Commits PROVE RecordOK(d)'
  BY <1>1, <1>3, <1>4 DEF RecordOK
<1>6. ASSUME NEW q \in Calls PROVE PushOK(q)'
  <2> DEFINE d == pushes[q].commit
  <2>1. pushes'[q].commit = d /\ (q # p => pushes'[q] = pushes[q])
    BY DEF Push, TypeOK, PushCalls
  <2>2. SUFFICES ASSUME pushes'[q].pc = "pushed", records[d].sha # None
                 PROVE  MadeIn(remote'[BranchOf[d]], d)
    BY <1>1, <2>1 DEF PushOK
  <2>3. pushes[q].pc # "idle"
    BY <1>1, <2>1, <2>2
  <2>4. d \in Commits /\ records[d] # None /\ Made(d)
    <3>1. d \in Commits /\ records[d] \in Records
      BY <2>3 DEF TypeOK
    <3>2. records[d] # None
      BY <3>1, WorkingTreeAssumption
    <3> QED
      BY <1>4, <2>2, <3>1, <3>2 DEF RecordOK
  <2>5. CASE q # p
    <3>1. MadeIn(remote[BranchOf[d]], d)
      <4>1. PushOK(q) /\ pushes[q].pc = "pushed"
        BY <2>1, <2>2, <2>5 DEF InOrder
      <4> QED
        BY <2>2, <4>1 DEF PushOK
    <3> QED
      BY <1>3, <2>4, <3>1
  <2>6. CASE q = p
    <3>1. remote' = [remote EXCEPT ![b] = git.log[b]]
      BY <2>2, <2>6 DEF Push, TypeOK, PushCalls
    <3>2. BranchOf[d] \in Branches /\ remote \in [Branches -> Seq(GitCommits)] /\ b = BranchOf[d]
      BY <2>4, <2>6, WorkingTreeAssumption DEF TypeOK
    <3>3. remote'[BranchOf[d]] = git.log[BranchOf[d]]
      BY <3>1, <3>2
    <3> QED
      BY <2>4, <3>3 DEF Made
  <2> QED
    BY <2>5, <2>6
<1> QED
  BY <1>1, <1>5, <1>6, RepositoryStays DEF InOrder

\* The status says pushed only when the remote has the commit.
LEMMA UpdateKeepsOrder ==
  ASSUME TypeOK, InOrder, NEW p \in Calls, UpdateCommitRecord(p)
  PROVE  InOrder'
<1> DEFINE c == pushes[p].commit
<1>1. /\ UNCHANGED <<git, commits, remote>> /\ pushes[p].pc \in {"pushed", "push_failed"}
      /\ records' = [records EXCEPT ![c] = [records[c] EXCEPT !.status = pushes[p].pc]]
  BY DEF UpdateCommitRecord
<1>2. c \in Commits /\ records[c] \in Records /\ records[c] # None
  <2>1. c \in Commits /\ records[c] \in Records
    BY <1>1 DEF TypeOK
  <2> QED
    BY <2>1, WorkingTreeAssumption
<1>3. /\ records'[c].sha = records[c].sha /\ records'[c].status = pushes[p].pc
      /\ \A d \in Commits : d # c => records'[d] = records[d]
  BY <1>1, <1>2 DEF TypeOK, Records
<1>4. /\ pushes'[p].pc # "pushed"
      /\ \A q \in Calls : q # p => pushes'[q] = pushes[q]
  BY DEF UpdateCommitRecord, TypeOK, PushCalls
<1>5. \A d \in Commits : RecordOK(d) /\ Made(d)' = Made(d)
  BY <1>1, RepositoryStays DEF InOrder
<1>6. ASSUME NEW d \in Commits PROVE RecordOK(d)'
  <2>1. CASE d # c
    <3>1. records'[d] = records[d]
      BY <1>3, <2>1
    <3> QED
      BY <1>1, <1>5, <3>1 DEF RecordOK
  <2>2. CASE d = c
    <3>1. PushOK(p)
      BY DEF InOrder
    <3>2. pushes[p].pc = "pushed" /\ records[c].sha # None => MadeIn(remote[BranchOf[c]], c)
      BY <1>1, <3>1 DEF PushOK
    <3> QED
      BY <1>1, <1>2, <1>3, <1>5, <2>2, <3>2 DEF RecordOK
  <2> QED
    BY <2>1, <2>2
<1>7. ASSUME NEW q \in Calls PROVE PushOK(q)'
  <2>1. CASE q = p
    BY <1>4, <2>1 DEF PushOK
  <2>2. CASE q # p
    <3> DEFINE d == pushes[q].commit
    <3>1. PushOK(q) /\ pushes'[q] = pushes[q]
      BY <1>4, <2>2 DEF InOrder
    <3>2. pushes[q].pc # "idle" => d \in Commits
      BY DEF TypeOK
    <3>3. d \in Commits => records'[d].sha = records[d].sha
      BY <1>3
    <3> QED
      BY <1>1, <3>1, <3>2, <3>3 DEF PushOK
  <2> QED
    BY <2>1, <2>2
<1> QED
  BY <1>1, <1>6, <1>7, RepositoryStays DEF InOrder
-----------------------------------------------------------------------------
(***************************************************************************)
(* The invariant.                                                          *)
(***************************************************************************)

\* At first nothing is running and the repository is clean.
LEMMA InitOrder == Init => InOrder
<1> SUFFICES ASSUME Init PROVE InOrder
  OBVIOUS
<1>1. /\ \A c \in Commits : /\ commits[c].pc = "checkout" /\ commits[c].written = {}
                            /\ records[c] = None
      /\ \A p \in Calls : pushes[p].pc = "idle"
  BY DEF Init
<1>2. Clean
  <2>1. Last(<<First>>) = First
    BY DEF Last
  <2>2. HEAD = First
    BY <2>1 DEF Init, HEAD
  <2> QED
    BY <2>2 DEF Init, Clean
<1>3. AloneInv
  BY <1>1, <1>2 DEF AloneInv, InRepository
<1> QED
  BY <1>1, <1>3 DEF InOrder, CallOK, RecordOK, PushOK, InRepository

\* Every step keeps the types, and tidy ones the order.
LEMMA RecordsStep == RecordsInv /\ [Next]_vars => RecordsInv'
<1> SUFFICES ASSUME RecordsInv, [Next]_vars PROVE RecordsInv'
  OBVIOUS
<1>1. TypeOK /\ (tidy => InOrder)
  BY DEF RecordsInv, TidyInv
<1>2. CASE UNCHANGED vars
  <2>1. TypeOK'
    BY <1>1, <1>2 DEF TypeOK, GitOK, vars
  <2>2. InOrder' = InOrder
    BY <1>2 DEF InOrder, AloneInv, CallOK, RecordOK, PushOK, InRepository, Clean, HEAD, Made, vars
  <2> QED
    BY <1>1, <1>2, <2>1, <2>2 DEF RecordsInv, TidyInv, vars
<1>3. CASE Next
  <2>1. Step /\ (tidy' => tidy /\ Tidy)
    BY <1>3 DEF Next
  <2>2. TypeOK'
    BY <1>1, <2>1, GroupedCommitType, PushType DEF Step
  <2>3. ASSUME tidy' PROVE InOrder'
    <3>1. InOrder /\ Tidy
      BY <1>1, <2>1, <2>3
    <3> QED
      BY <1>1, <2>1, <3>1, CallKeepsOrder, PushCommitKeepsOrder, PushKeepsOrder,
         UpdateKeepsOrder DEF Step
  <2> QED
    BY <2>2, <2>3 DEF RecordsInv, TidyInv
<1> QED
  BY <1>2, <1>3

\* The types, and the order as long as all steps are tidy.
LEMMA RecordsInvariant == Spec => []RecordsInv
<1>1. Init => RecordsInv
  BY InitType, InitOrder DEF RecordsInv, TidyInv
<1> QED
  BY <1>1, RecordsStep, PTL DEF Spec

\* As long as no two calls of CreateGroupedCommit have been in the repository at a time and
\* none has failed with changes, a record names the commit of its push, on its branch, with
\* its files and no others, and the remote has it when the status says so.
THEOREM TidyRecordsAreTrue == Spec => []TidyRecordsTellTheTruth
<1>1. RecordsInv => TidyRecordsTellTheTruth
  <2> SUFFICES ASSUME RecordsInv, tidy, NEW c \in Commits,
                      records[c] # None, records[c].sha # None
               PROVE  /\ BranchOf[c] \in DOMAIN git.log /\ Holds(git.log[BranchOf[c]], c)
                      /\ records[c].status = "pushed" => Holds(remote[BranchOf[c]], c)
    BY DEF TidyRecordsTellTheTruth, RecordsTellTheTruth
  <2>1. RecordOK(c)
    BY DEF RecordsInv, TidyInv, InOrder
  <2>2. \A log : MadeIn(log, c) /\ records[c].sha = c => Holds(log, c)
    BY DEF MadeIn, Holds
  <2> QED
    BY <2>1, <2>2 DEF RecordOK, Made
<1> QED
  BY <1>1, RecordsInvariant, PTL
================================================================================
