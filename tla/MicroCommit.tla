------------------------------ MODULE MicroCommit ------------------------------
(***************************************************************************)
(* The virtual file system and the micro-commits that empty it.            *)
(*                                                                         *)
(* The VFS keeps at most one pending proposal per agent.  Every VFS        *)
(* operation is atomic (one mutex per call), but a micro-commit request is *)
(* not: it reads the agent's files, reads all change sets, waits for the   *)
(* backend's analysis, evaluates the policy, commits the files it read     *)
(* first, and clears whatever the agent's entry then is.  The MCP tool and *)
(* the dashboard command run the same steps.  Requests run concurrently    *)
(* with each other and with every other VFS operation.                     *)
(*                                                                         *)
(* A proposal stands for one PendingChange value.  Agents in Disciplined   *)
(* are those nobody makes another call about while one of their            *)
(* micro-commit requests is running; about all others anything goes.       *)
(***************************************************************************)
EXTENDS Policy

CONSTANTS
  Proposals,     \* every proposal ever submitted
  Author,        \* the agent each proposal is submitted for
  Content,       \* the files of each proposal
  Requests,      \* every micro-commit call ever made
  Disciplined,   \* agents whose clients wait for a running request
  None           \* no proposal

ASSUME GateAssumption ==
  /\ Author \in [Proposals -> Agents]
  /\ Content \in [Proposals -> Seq(FileInputs)]
  /\ Disciplined \subseteq Agents
  /\ None \notin Proposals /\ None \notin Agents

VARIABLES
  pending,    \* the VFS: the proposal under each agent's key, or None
  requests,   \* the local state of each request
  commits,    \* history: the commits handed to the coordinator
  fate        \* history: what became of each proposal

vars == <<pending, requests, commits, fate>>

Optional == Proposals \cup {None}

Snapshots == [Agents -> Optional]

Answered == {"failed", "blocked", "done"}
Running == {"filesRead", "changesetsRead", "allowed", "committed"}

Fates == {"new", "pending", "replaced", "discarded", "cleared"}

RequestType == [pc : Answered \cup Running \cup {"idle"}, agent : Agents \cup {None},
                files : Optional, snapshot : Snapshots]

CommitType == [request : Requests, agent : Agents, proposal : Proposals, basis : Snapshots]

Nothing == [a \in Agents |-> None]

\* A request without locals: not begun, or answered.
Inactive(pc) == [pc |-> pc, agent |-> None, files |-> None, snapshot |-> Nothing]

\* A request that has read the files of agent a and nothing else.
Begun(a) == [pc |-> "filesRead", agent |-> a, files |-> pending[a], snapshot |-> Nothing]

Init ==
  /\ pending = Nothing
  /\ requests = [r \in Requests |-> Inactive("idle")]
  /\ commits = {}
  /\ fate = [p \in Proposals |-> "new"]

InFlight(a) == \E r \in Requests : requests[r].pc \in Running /\ requests[r].agent = a

\* The discipline of the clients of a.
MayCall(a) == a \in Disciplined => ~InFlight(a)

Goto(r, to) == requests' = [requests EXCEPT ![r].pc = to]

\* The handler returns: its locals are gone, its answer remains.
Answer(r, with) == requests' = [requests EXCEPT ![r] = Inactive(with)]

\* The proposals that leave the VFS when the entries of S are deleted.
Retire(S, how) ==
  fate' = [p \in Proposals |->
             IF Author[p] \in S /\ fate[p] = "pending" THEN how ELSE fate[p]]
-----------------------------------------------------------------------------
(***************************************************************************)
(* The other clients of the VFS.                                           *)
(***************************************************************************)

\* vfs.Propose, behind propose_files and register_push: the entry is replaced.
ProposeFiles(a) ==
  /\ MayCall(a)
  /\ \E p \in Proposals :
       /\ Author[p] = a
       /\ fate[p] = "new"
       /\ pending' = [pending EXCEPT ![a] = p]
       /\ fate' = [q \in Proposals |->
                     IF q = p THEN "pending"
                     ELSE IF Author[q] = a /\ fate[q] = "pending" THEN "replaced"
                     ELSE fate[q]]
  /\ UNCHANGED <<requests, commits>>

\* vfs.Clear, behind clear_agent_state and a grouped git commit.
ClearAgent(a) ==
  /\ MayCall(a)
  /\ pending' = [pending EXCEPT ![a] = None]
  /\ Retire({a}, "discarded")
  /\ UNCHANGED <<requests, commits>>

\* vfs.ClearAll, behind clear_demo.
ClearDemo ==
  /\ \A a \in Agents : MayCall(a)
  /\ pending' = Nothing
  /\ Retire(Agents, "discarded")
  /\ UNCHANGED <<requests, commits>>
-----------------------------------------------------------------------------
(***************************************************************************)
(* One micro-commit request, lock by lock.                                 *)
(***************************************************************************)

\* FilesForAgent copies the agent's files, or ends the request with an error.
RequestMicroCommit(r, a) ==
  /\ requests[r].pc = "idle"
  /\ MayCall(a)
  /\ IF pending[a] = None
     THEN Answer(r, "failed")
     ELSE requests' = [requests EXCEPT ![r] = Begun(a)]
  /\ UNCHANGED <<pending, commits, fate>>

\* Mutant of ReadChangeSets: the other agents only.
ReadOtherChangeSets(r) ==
  /\ requests[r].pc = "filesRead"
  /\ requests' = [requests EXCEPT
       ![r].pc = "changesetsRead",
       ![r].snapshot = [pending EXCEPT ![requests[r].agent] = None]]
  /\ UNCHANGED <<pending, commits, fate>>

\* ChangeSetsForAnalysis copies the whole VFS, under a lock of its own.
ReadChangeSets(r) ==
  /\ requests[r].pc = "filesRead"
  /\ requests' = [requests EXCEPT ![r].pc = "changesetsRead", ![r].snapshot = pending]
  /\ UNCHANGED <<pending, commits, fate>>

\* The request body made from a snapshot of the VFS.
ChangeSetsOf(snapshot) ==
  [a \in {b \in Agents : snapshot[b] # None} |-> Content[snapshot[a]]]

\* The policy's verdict on a snapshot, when the backend answers or is not needed.
Passes(snapshot) == Decision(ChangeSetsOf(snapshot)).allowed

\* The backend answers (or is not asked) and the policy is evaluated.
EvaluatePolicy(r) ==
  /\ requests[r].pc = "changesetsRead"
  /\ IF Passes(requests[r].snapshot) THEN Goto(r, "allowed") ELSE Answer(r, "blocked")
  /\ UNCHANGED <<pending, commits, fate>>

\* Mutants of AnalysisFails: the gate fails open, or waits for ever.
AnalysisFailsOpen(r) ==
  /\ requests[r].pc = "changesetsRead"
  /\ NeedsAnalysis(ChangeSetsOf(requests[r].snapshot))
  /\ Goto(r, "allowed")
  /\ UNCHANGED <<pending, commits, fate>>

AnalysisHangs(r) ==
  /\ requests[r].pc = "changesetsRead"
  /\ NeedsAnalysis(ChangeSetsOf(requests[r].snapshot))
  /\ UNCHANGED vars

\* The call to the backend fails, or its context's timeout expires.
AnalysisFails(r) ==
  /\ requests[r].pc = "changesetsRead"
  /\ NeedsAnalysis(ChangeSetsOf(requests[r].snapshot))
  /\ Answer(r, "failed")
  /\ UNCHANGED <<pending, commits, fate>>

\* Commits.Commit always accepts: the files read at the start are committed.
Commit(r) ==
  /\ requests[r].pc = "allowed"
  /\ commits' = commits \cup {[request  |-> r,
                               agent    |-> requests[r].agent,
                               proposal |-> requests[r].files,
                               basis    |-> requests[r].snapshot]}
  /\ Goto(r, "committed")
  /\ UNCHANGED <<pending, fate>>

\* Mutants of ClearCommitted: every entry is cleared, or none.
ClearEverything(r) ==
  /\ requests[r].pc = "committed"
  /\ pending' = Nothing
  /\ Retire(Agents, "cleared")
  /\ Answer(r, "done")
  /\ UNCHANGED commits

ClearNothing(r) ==
  /\ requests[r].pc = "committed"
  /\ Answer(r, "done")
  /\ UNCHANGED <<pending, commits, fate>>

\* vfs.Clear deletes the agent's entry, whichever proposal it now holds.
ClearCommitted(r) ==
  /\ requests[r].pc = "committed"
  /\ pending' = [pending EXCEPT ![requests[r].agent] = None]
  /\ Retire({requests[r].agent}, "cleared")
  /\ Answer(r, "done")
  /\ UNCHANGED commits
-----------------------------------------------------------------------------
Next ==
  \/ \E a \in Agents : ProposeFiles(a) \/ ClearAgent(a)
  \/ ClearDemo
  \/ \E r \in Requests :
       \/ \E a \in Agents : RequestMicroCommit(r, a)
       \/ ReadChangeSets(r)
       \/ EvaluatePolicy(r)
       \/ AnalysisFails(r)
       \/ Commit(r)
       \/ ClearCommitted(r)

Spec == Init /\ [][Next]_vars

\* A goroutine runs its handler to the end, but the backend need not answer: the
\* only step it is sure to see while it waits is its own timeout.
Fairness ==
  \A r \in Requests :
    /\ WF_vars(ReadChangeSets(r))
    /\ WF_vars(~NeedsAnalysis(ChangeSetsOf(requests[r].snapshot)) /\ EvaluatePolicy(r))
    /\ WF_vars(AnalysisFails(r))
    /\ WF_vars(Commit(r))
    /\ WF_vars(ClearCommitted(r))

FairSpec == Spec /\ Fairness
-----------------------------------------------------------------------------
(***************************************************************************)
(* Properties.                                                             *)
(***************************************************************************)

\* Every variable has its type.  In particular only real proposals are committed:
\* a request without pending work ends before it reaches the coordinator.
TypeOK ==
  /\ pending \in Snapshots
  /\ requests \in [Requests -> RequestType]
  /\ commits \subseteq CommitType
  /\ fate \in [Proposals -> Fates]

Committed(p) == \E c \in commits : c.proposal = p

\* vfs.go: "Every proposed file change from an agent is stored here until it is
\* either committed (micro-commit) or discarded."  The Clear that ends a
\* micro-commit never removes a proposal that was not committed.
StoredUntilCommitted(p) == fate[p] = "cleared" => Committed(p)

\* Without any discipline of the clients, the claim as vfs.go makes it.
NothingLost == \A p \in Proposals : StoredUntilCommitted(p)

\* The claim for the agents whose own clients wait for a running request,
\* whatever all other clients do at the same time.
NothingDisciplinedLost ==
  \A p \in Proposals : Author[p] \in Disciplined => StoredUntilCommitted(p)

\* A proposal of a disciplined agent is committed by at most one request, also
\* when the agent asks again after an answer.
CommittedOnce ==
  \A c, d \in commits : c.proposal = d.proposal /\ c.agent \in Disciplined => c = d

\* The files that are committed are the files that were analysed, although they
\* are read under two different locks, and they are the agent's own.
CommittedIsAnalysed ==
  \A c \in commits :
    c.agent \in Disciplined => c.basis[c.agent] = c.proposal /\ Author[c.proposal] = c.agent

\* A verdict can only be outdated by arrivals: at the moment of a commit, the
\* entries that are still the ones the request analysed pass the policy together.
\* No failed analysis and no withdrawal lets a blocked set of proposals through.
OutdatedOnlyByArrivals ==
  [][\A c \in commits' \ commits :
       Passes([a \in Agents |-> IF pending[a] = c.basis[a] THEN pending[a] ELSE None])]_vars

\* Every request is answered, even if the backend never answers it.
EveryRequestAnswered ==
  \A r \in Requests : requests[r].pc \in Running ~> requests[r].pc \in Answered

\* The shape of the shared state that keeps the claims above: it is inductive.
PendingInv ==
  /\ \A p \in Proposals : fate[p] = "pending" <=> pending[Author[p]] = p
  /\ \A a \in Agents : pending[a] # None => Author[pending[a]] = a

\* A running request of a disciplined agent is that agent's only one, holds the
\* agent's current proposal, and knows whether that proposal is committed already.
OnlyRequestOf(r, a) ==
  \A s \in Requests : requests[s].pc \in Running /\ requests[s].agent = a => s = r

HoldsProposal(r) ==
  LET a == requests[r].agent
      p == requests[r].files
  IN /\ a \in Agents /\ p \in Proposals /\ Author[p] = a
     /\ a \in Disciplined =>
          /\ pending[a] = p
          /\ requests[r].pc # "filesRead" => requests[r].snapshot[a] = p
          /\ requests[r].pc = "committed" <=> Committed(p)
          /\ OnlyRequestOf(r, a)

RequestInv == \A r \in Requests : requests[r].pc \in Running => HoldsProposal(r)

\* A committed proposal of a disciplined agent has left the VFS, or the request that
\* committed it is just about to clear it.
CommitInv ==
  \A c \in commits :
    /\ Author[c.proposal] = c.agent
    /\ c.agent \in Disciplined =>
         /\ c.basis[c.agent] = c.proposal
         /\ \/ fate[c.proposal] = "cleared"
            \/ \E r \in Requests : requests[r].pc = "committed" /\ requests[r].files = c.proposal

GateInv ==
  /\ TypeOK /\ PendingInv /\ RequestInv /\ CommitInv
  /\ CommittedOnce /\ NothingDisciplinedLost

\* The abstract ledger, for the proposals of the disciplined agents: committing is
\* the one instant at which a proposal leaves it, not the later Clear.
Tracked == {p \in Proposals : Author[p] \in Disciplined}

Entry(fateOf, done) ==
  IF done THEN "committed"
  ELSE CASE fateOf = "new" -> "new"
         [] fateOf = "pending" -> "open"
         [] fateOf \in {"replaced", "discarded"} -> "withdrawn"
         [] fateOf = "cleared" -> "lost"

LedgerStatus == [p \in Tracked |-> Entry(fate[p], Committed(p))]

Ledger == INSTANCE ProposalLedger WITH
            Proposals <- Tracked, Authors <- Disciplined, Author <- Author,
            status <- LedgerStatus

\* Concurrent micro-commits of disciplined agents implement the atomic ledger.
ImplementsLedger == Ledger!Spec
=============================================================================
