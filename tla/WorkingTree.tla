------------------------------- MODULE WorkingTree -------------------------------
(***************************************************************************)
(* The git side of CreateGroupedCommit, and PushCommit.  All handlers run  *)
(* git in one repository: one checked-out branch, one working tree, one    *)
(* index.  A grouped commit is a sequence of git commands and file writes, *)
(* each of which may fail and ends the handler there; nothing it has done  *)
(* before is undone.  A snapshot is the content of every file.             *)
(***************************************************************************)
EXTENDS Naturals, Sequences, FiniteSets, SequencesExt

CONSTANTS
  Branches,   \* that handlers commit to
  Main,       \* the branch checked out at the start
  Files,
  Contents,   \* "old" is what every file holds at first
  Commits,    \* calls of CreateGroupedCommit, named as their pushes and their records
  BranchOf,   \* of each push
  Changes,    \* of each push: its files and their resolved contents
  Calls,      \* calls of PushCommit
  MaxFaults,  \* git commands and writes that fail
  None

\* A commit record: its status and the call whose commit its SHA is.
Records ==
  [status : {"created", "pushed", "push_failed"}, sha : Commits \cup {None}]

ASSUME WorkingTreeAssumption ==
  /\ Main \notin Branches
  /\ "old" \in Contents
  /\ BranchOf \in [Commits -> Branches]
  /\ \A c \in Commits : Changes[c] \in UNION {[F -> Contents] : F \in SUBSET Files}
  /\ None \notin Commits \cup Records

VARIABLES
  git,      \* the repository: branch, index, working tree, commits of each branch
  remote,   \* the commits of each branch at the remote
  commits,  \* the running calls of CreateGroupedCommit
  records,  \* the commit records
  pushes,   \* the running calls of PushCommit
  faults,
  tidy      \* history: all steps so far were Tidy

vars == <<git, remote, commits, records, pushes, faults, tidy>>

\* A commit is its snapshot and the call that made it, which stands for its SHA.
First == [snapshot |-> [f \in Files |-> "old"], by |-> None]

Init ==
  /\ git = [branch |-> Main, index |-> First.snapshot, tree |-> First.snapshot,
            log |-> [b \in {Main} |-> <<First>>]]
  /\ remote = [b \in Branches |-> <<>>]
  /\ commits = [c \in Commits |-> [pc |-> "checkout", written |-> {}, by |-> None]]
  /\ records = [c \in Commits |-> None]
  /\ pushes = [p \in Calls |-> [pc |-> "idle", commit |-> None, attempts |-> 0]]
  /\ faults = 0
  /\ tidy = TRUE
-----------------------------------------------------------------------------
(***************************************************************************)
(* git.                                                                    *)
(***************************************************************************)

Snapshot(branch) == Last(git.log[branch]).snapshot
HEAD == Last(git.log[git.branch])

\* git checkout takes local changes along, and refuses when it would overwrite them.
CanSwitch(branch) ==
  \A f \in Files :
    \/ git.tree[f] = HEAD.snapshot[f] /\ git.index[f] = HEAD.snapshot[f]
    \/ Snapshot(branch)[f] = HEAD.snapshot[f]

SwitchedTo(branch) ==
  LET Carried(content, f) == IF content = HEAD.snapshot[f] THEN Snapshot(branch)[f] ELSE content
  IN [git EXCEPT !.branch = branch,
                 !.index = [f \in Files |-> Carried(git.index[f], f)],
                 !.tree = [f \in Files |-> Carried(git.tree[f], f)]]

\* Mutant of CreatedFromHead: git branch instead of git checkout -b.
CreatedNotSwitched(branch) ==
  [git EXCEPT !.log = [b \in DOMAIN @ \cup {branch} |->
                         IF b \in DOMAIN @ THEN @[b] ELSE git.log[git.branch]]]

\* A branch that does not exist is created where HEAD is.
CreatedFromHead(branch) ==
  [git EXCEPT !.branch = branch,
              !.log = [b \in DOMAIN @ \cup {branch} |->
                         IF b \in DOMAIN @ THEN @[b] ELSE git.log[git.branch]]]

Fails == faults < MaxFaults /\ faults' = faults + 1
-----------------------------------------------------------------------------
(***************************************************************************)
(* CreateGroupedCommit, from the checkout on.                              *)
(***************************************************************************)

Goto(c, pc) == commits' = [commits EXCEPT ![c].pc = pc]

CheckoutBranch(c) ==
  LET branch == BranchOf[c] IN
  /\ commits[c].pc = "checkout"
  /\ \/ /\ branch \in DOMAIN git.log /\ CanSwitch(branch)
        /\ git' = SwitchedTo(branch)
        /\ Goto(c, "write")
     \/ /\ branch \notin DOMAIN git.log
        /\ git' = CreatedFromHead(branch)
        /\ Goto(c, "write")
     \/ /\ branch \in DOMAIN git.log /\ ~CanSwitch(branch)
        /\ Goto(c, "failed")
        /\ UNCHANGED git
  /\ UNCHANGED <<remote, records, pushes, faults>>

WriteFile(c, f) ==
  /\ commits[c].pc = "write" /\ f \in DOMAIN Changes[c] \ commits[c].written
  /\ git' = [git EXCEPT !.tree[f] = Changes[c][f]]
  /\ commits' = [commits EXCEPT ![c].written = @ \cup {f}]
  /\ UNCHANGED <<remote, records, pushes, faults>>

\* git add of the paths, as the working tree has them now.
StageFiles(c) ==
  /\ commits[c].pc = "write" /\ commits[c].written = DOMAIN Changes[c]
  /\ git' = [git EXCEPT !.index =
                [f \in Files |-> IF f \in DOMAIN Changes[c] THEN git.tree[f] ELSE @[f]]]
  /\ Goto(c, "commit")
  /\ UNCHANGED <<remote, records, pushes, faults>>

\* git commit of the whole index, on whichever branch is checked out.
Commit(c) ==
  /\ commits[c].pc = "commit" /\ git.index # HEAD.snapshot
  /\ git' = [git EXCEPT !.log[git.branch] = Append(@, [snapshot |-> git.index, by |-> c])]
  /\ Goto(c, "sha")
  /\ UNCHANGED <<remote, records, pushes, faults>>

\* The SHA is asked for afterwards.
HeadSHA(c) ==
  /\ commits[c].pc = "sha"
  /\ commits' = [commits EXCEPT ![c].by = HEAD.by, ![c].pc = "record"]
  /\ UNCHANGED <<git, remote, records, pushes, faults>>

PutCommitRecord(c) ==
  /\ commits[c].pc = "record"
  /\ records' = [records EXCEPT ![c] = [status |-> "created", sha |-> commits[c].by]]
  /\ Goto(c, "done")
  /\ UNCHANGED <<git, remote, pushes, faults>>

\* Checkout, write and stage just fail.
CommandFails(c) ==
  /\ commits[c].pc \in {"checkout", "write"}
  /\ Fails
  /\ Goto(c, "failed")
  /\ UNCHANGED <<git, remote, records, pushes>>

\* A commit that fails, also for want of anything to commit, leaves a record.
CommitFails(c) ==
  /\ \/ commits[c].pc \in {"commit", "sha"} /\ Fails
     \/ commits[c].pc = "commit" /\ git.index = HEAD.snapshot /\ UNCHANGED faults
  /\ records' = [records EXCEPT ![c] = [status |-> "push_failed", sha |-> None]]
  /\ Goto(c, "failed")
  /\ UNCHANGED <<git, remote, pushes>>
-----------------------------------------------------------------------------
(***************************************************************************)
(* PushCommit.                                                             *)
(***************************************************************************)

PushCommit(p, c) ==
  /\ pushes[p].pc = "idle" /\ records[c] # None
  /\ pushes' = [pushes EXCEPT ![p] =
       [pc |-> IF records[c].status = "pushed" THEN "done" ELSE "push",
        commit |-> c, attempts |-> 0]]
  /\ UNCHANGED <<git, remote, commits, records, faults>>

\* One attempt of PushWithRetry, which makes three.
Push(p) ==
  LET branch == BranchOf[pushes[p].commit] IN
  /\ pushes[p].pc = "push" /\ branch \in DOMAIN git.log
  /\ \/ /\ remote' = [remote EXCEPT ![branch] = git.log[branch]]
        /\ pushes' = [pushes EXCEPT ![p].pc = "pushed"]
        /\ UNCHANGED faults
     \/ /\ Fails
        /\ pushes' = [pushes EXCEPT ![p] =
             [pc |-> IF @.attempts = 2 THEN "push_failed" ELSE "push",
              commit |-> @.commit, attempts |-> @.attempts + 1]]
        /\ UNCHANGED remote
  /\ UNCHANGED <<git, commits, records>>

UpdateCommitRecord(p) ==
  /\ pushes[p].pc \in {"pushed", "push_failed"}
  /\ records' = [records EXCEPT ![pushes[p].commit].status = pushes[p].pc]
  /\ pushes' = [pushes EXCEPT ![p].pc = "done"]
  /\ UNCHANGED <<git, remote, commits, faults>>
-----------------------------------------------------------------------------
GroupedCommit(c) ==
  \/ CheckoutBranch(c)
  \/ \E f \in Files : WriteFile(c, f)
  \/ StageFiles(c) \/ Commit(c) \/ HeadSHA(c) \/ PutCommitRecord(c)
  \/ CommandFails(c) \/ CommitFails(c)

Step ==
  \/ \E c \in Commits : GroupedCommit(c)
  \/ \E p \in Calls : (\E c \in Commits : PushCommit(p, c)) \/ Push(p) \/ UpdateCommitRecord(p)

InRepository(c) == commits[c].pc \in {"write", "commit", "sha", "record"}

\* No two calls are in the repository at a time, and none fails when it has changed files
\* and not committed them.  Nothing in the code sees to it: this is what whoever calls it has to.
Tidy ==
  /\ \A c, d \in Commits : InRepository(c)' /\ InRepository(d)' => c = d
  /\ \A c \in Commits :
       commits[c].pc # "failed" /\ commits'[c].pc = "failed" => git.tree = HEAD.snapshot

Next == Step /\ tidy' = (tidy /\ Tidy)

Spec == Init /\ [][Next]_vars
-----------------------------------------------------------------------------
(***************************************************************************)
(* What the records say.                                                   *)
(***************************************************************************)

\* A snapshot with the files of a push, or some of them, replaced.
Overwritten(snapshot, c, files) ==
  [f \in Files |-> IF f \in files THEN Changes[c][f] ELSE snapshot[f]]

\* Commit i of a branch is the one before with the changes of a push.
Changed(log, i, c) == log[i].snapshot = Overwritten(log[i - 1].snapshot, c, DOMAIN Changes[c])

Holds(log, c) == \E i \in 2..Len(log) : log[i].by = records[c].sha /\ Changed(log, i, c)

\* git_service.go "It writes files to the working tree, stages, commits, and records the
\* result": the commit of a record is on the branch of its push and changes the files of
\* the push and no others, also when handlers of other pushes use the repository or have
\* failed in it; and when its status is pushed, the remote has it.
RecordsTellTheTruth ==
  \A c \in Commits :
    records[c] # None /\ records[c].sha # None =>
      /\ BranchOf[c] \in DOMAIN git.log /\ Holds(git.log[BranchOf[c]], c)
      /\ records[c].status = "pushed" => Holds(remote[BranchOf[c]], c)

\* They do as long as no two calls have used the repository at a time and none has failed
\* with changes: pushes may be attempted, repeated and fail as they like meanwhile, a
\* branch may be created where another push has left HEAD, and a git commit may be refused.
TidyRecordsTellTheTruth == tidy => RecordsTellTheTruth
=============================================================================
