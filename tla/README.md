# Orca AI: specifications, model checking and proofs

Orca AI lets several coding agents change one repository at the same time. Their
proposed files are held in a shadow workspace (the VFS) of a Go server, a Python
backend finds the symbols that two agents both change and scores the files, and a
policy decides whether an agent may micro-commit. Beside that gate, a git service keeps
a tree of proposed diffs for every file of a branch, takes merge decisions from outside,
and makes grouped commits; a task tree coordinates manager, coder and merge agents; a
front end shows it all, starts the server and sends commands to it.

The source paths below are relative to `src/`.

## 1. Inventory

| Part | Source | State | Operations | Talks to |
|---|---|---|---|---|
| Overlap analysis, risk engine | `backend/app/core/overlap_service.py`, `risk_engine.py`, `api/routes.py` | none | `POST /analyze/overlaps` | called by the micro-commit gate and `identify_overlaps` |
| Parsers | `backend/app/parsers/` | none | text to symbols | called by the analysis |
| Commit policy | `mcp/internal/policy` | thresholds | `Evaluate` | called by the gate |
| VFS | `mcp/internal/vfs` | one pending change per agent, one mutex | `Propose`, `Clear`, `ClearAll`, `State`, `FilesForAgent`, `ChangeSetsForAnalysis` | shared by gate, dashboard, git service |
| Micro-commit gate | `mcp/internal/tools/request_micro_commit.go`, `httpapi/dashboard.go`, `commits` | locals of the running requests | read, analyse, evaluate, commit, clear | VFS, backend, policy |
| Store, file tree, git service | `mcp/internal/storage`, `filetree`, `service` | branches, branch files, nodes, patches, push sets, commit records | `IngestPush`, `PrepareMergeContext`, `ApplyMergeResult`, `PrepareCommit`, `CreateGroupedCommit`, `PushCommit` | VFS, git, callers that decide merges |
| Git executor | `mcp/internal/gitcontrol` | one working tree, one index | checkout, write, stage, commit, push with retry | git |
| Event bus, registry | `mcp/internal/events`, `agents` | subscriber channels (64 events), agent status | `Subscribe`, `Publish`, `Register`, `Touch`, `SetStatus` | dashboard commands, SSE |
| Task tree and agents | `backend/app/core/tree_store.py`, `api/tree_routes.py`, `tools/mcp_tools.py`, `agents/*.yaml` | nodes with parent, status, diff | create, read, siblings, status, diff, merge | agents over HTTP |
| Merge service | `backend/app/core/merge_service.py` | none | apply unified diffs in order | task tree |
| Dashboard panels | `frontend/hooks/use-sse.ts`, `components/dashboard/` | what each panel shows, its stream, its requests in flight | fetch, poll, SSE handler, reconnect | route handlers, SSE |
| Process control | `frontend/app/api/mcp/server/route.ts`, `dashboard-shell.tsx` | handle and status of one child process | `GET`, `POST`, exit and output handlers, polls | the child, its port |
| Console and proxies | `terminal-panel.tsx`, `lib/mcp.ts`, `lib/backend.ts`, `lib/api.ts` | input, two histories, calls under way | submit, arrow keys, relay with a 15 s timeout | MCP server, backend |
| Test page | `app/testNode`, `components/backend-panel.tsx` and the graph components | a graph of nodes, a panel of health checks | add, remove, select; check, analyse | backend |
| Site pages | `app/`, `components/` | page, theme, timers of the landing page | navigate, reload, toggle, ticks | none |
| Component kit | `components/ui/`, `hooks/use-toast.ts`, `hooks/use-mobile.tsx` | toast store, sidebar, carousel | dispatch, toggle, scroll | Radix, Embla, the window |

Where it is hard:

- **Concurrency.** Every HTTP or MCP call runs in its own goroutine; the atomic units are
  the methods of the VFS, of the store and of the registry. Handlers call several of them
  in a row and act on what an earlier one returned. The backend call in the middle of a
  micro-commit may last for seconds. The git service works in one git repository for all
  handlers.
- **Shared pointers.** The store hands out pointers to its records: the git service reads
  `BaseContent` and `CurrentHeadNodeID` of a file through them at any later time.
- **Partial failure.** A push can fail at its third file, git can fail at any command, the
  backend can fail or never answer, and the topology route combines requests that fail
  one by one.
- **Ordering.** Snapshots are taken and published under different locks; fetches and
  pushed events race in the browser; polls, probes and health checks overlap.
- **Timeouts and retries.** A client that did not see an answer asks again; a tool or a
  proxy that has given up reports a failure of something that happens later.
- **Closures.** Effects, timers and listeners in the browser act on the values of the
  render that made them.

What makes each part correct: a severity is a distance in lines (analysis); a decision is
supported by the report and monotone in withdrawals (policy); a proposal stays until it is
committed or discarded, is committed once, as analysed (VFS and gate); a registered push
is complete, a head is a merged node that extends the head it replaces, only decided
content is committed after `all_resolved` (git service); a record names a commit that is
really there (git executor); a finished task has a diff, and a merge uses finished diffs
(task tree); merging diffs of disjoint regions applies each of them (merge service);
panels catch up and are never left without a stream (bus, dashboard, topology); a status
that disables a button does not outlive its cause (process control); what the console
says happened did happen (console). The list of hazards, each at its line, is in
`PROJECT.json`.

## 2. Modules

| Module | Models |
|---|---|
| `OverlapAnalysis` | the backend's analysis as operators: occurrences, `Classify`, `DetectOverlaps`, `ComputeFileRisks`, `AnalyzeOverlaps` |
| `Policy` | `Evaluate`, and `Decision`: the gate with its shortcut below two change sets |
| `Analysis`, `MCAnalysis` | the analysis under the inputs it can get: a VFS that agents fill and empty, the sample of the test page among the submissions |
| `ProposalLedger` | abstract specification: a proposal is open, then committed or withdrawn, each in one step |
| `MicroCommit`, `MCMicroCommit` | VFS and concurrent micro-commit requests, lock by lock |
| `GitService`, `MCGitService` | store, file tree, git service and its mirror in the VFS, store call by store call |
| `WorkingTree`, `MCWorkingTree` | the git side of `CreateGroupedCommit`, command by command, and `PushCommit` |
| `MergeDiffs` | the merge service as operators, with a reference definition of what the diffs intend |
| `TaskTree`, `MCTaskTree` | the task tree, its tools with their timeouts, and the manager, coder and merge agents |
| `Dashboard` | commands that publish, the event bus, its streams, `useSSE` and the VFS panel |
| `Topology` | registry and VFS, their events, the topology route and the topology panel |
| `ServerControl` | the route that starts the MCP server, its child processes, and the browsers that poll it |
| `Proxy`, `Console` | the proxy of the MCP server, and the command console behind it |
| `BackendProxy`, `BackendPanel` | the proxy of the backend, and the panel of health checks and sample analyses |
| `GraphEditor` | the node editor of the test page |
| `Site` | pages, theme and the timers of the landing page |
| `Toasts`, `Sidebar`, `Carousel` | the components of the kit that keep state across events |
| `DashboardCards` | tab, cards, seeding and selected node of the dashboard |
| `FrontPages` | composition of the last five, and of editor and panel of the test page |

The theorems are in modules of their own:

| Module | Proves about |
|---|---|
| `GateProofs` | the operators of `OverlapAnalysis` and `Policy` (finiteness, types, sums and maxima, and what a part of the VFS has of the whole); `Analysis`: severities, withdrawals, what an allowed VFS shares, what the report and the tab say of a decision; `MicroCommit`: its inductive invariant, the verdicts, and that it implements `ProposalLedger` |
| `GitServiceProofs` | `GitService`: complete pushes, heads, decided commits, and how nodes leave |
| `WorkingTreeProofs` | `WorkingTree`: what the records say when grouped commits come one at a time |
| `TaskTreeProofs` | `TaskTree`: diffs of complete nodes, and what is merged; `MergeDiffs`: that a merge of orderly diffs is the intended one |
| `DashboardProofs` | `Dashboard`: the streams of `useSSE` |
| `TopologyProofs` | `Topology`: the panel asks again after every change that an event tells of |
| `ControlProofs` | the controls of the MCP server, each with a specification of its own: `ServerControl` and `Console` |
| `FrontPagesProofs` | `FrontPages`, by way of the specifications of its components: `GraphEditor`, `BackendPanel`, `Carousel`, `Sidebar`, `DashboardCards`, `Toasts` |

`Policy` extends `OverlapAnalysis`; `Analysis` and `MicroCommit` both extend `Policy`, so the
gate of `MicroCommit` judges by the same operators that `Analysis` checks. `TaskTree` extends
`MergeDiffs`, `Console` extends `Proxy`, `BackendPanel` extends `BackendProxy`. A model without
an MC module is instantiated by its `.cfg` alone.

### The gate (`MicroCommit`)

`pending` is `Manager.pending`. A request goes through the steps between the locks that
the handler takes: `RequestMicroCommit` (`FilesForAgent`), `ReadChangeSets`
(`ChangeSetsForAnalysis`), `EvaluatePolicy` or `AnalysisFails` (the backend's answer and the
policy, or an error or the timeout of the context), `Commit`, `ClearCommitted`. The MCP tool
and the dashboard's command run the same steps. `ProposeFiles`, `ClearAgent` and `ClearDemo`
are the other writers of the VFS. `commits` and `fate` are history: what was committed on
which basis, and how each proposal left the VFS. A proposal is a value of its own, so two
submissions of the same text are two proposals.

*Discipline.* Some guarantees depend on the clients: an agent whose own clients wait for
the answer of its micro-commit before they submit again (constant `Disciplined`) is told
apart from one about which anything is called at any time. Both kinds live in one run:
the guarantees of the first hold whatever the second does. Without the discipline they
fail, which is what `lost_proposal` shows.

### The git service (`GitService`)

`tracked` holds the head and the base content of each `BranchFile`, `nodes` the `FileNode`s with
the two contents their patch was made from, `pushSets`, `records` and `mirror` (the VFS entry
under branch and user) the rest; `ingests`, `merges`, `commits` are the locals of running
handlers. One action is one store method with the unlocked reads around it; in particular
`AddNode` reads the base for `HasChanges` (`DiffFile`, `ApplyMergeResult`), again for the
patch (`CreatePatch`, `CreateMergePatch`), and the head when it builds the node
(`AddPushNode`, `AddMergeNode`). `PrepareCommit` and `CreateGroupedCommit` go through the files
of a push one at a time (`CheckFile`, `ReadFile`). `PrepareMergeContext` and `GetFileState` are
reads and have no action: their answers, however old, tell the caller node ids, and
`ApplyMergeResult` takes any ids of existing nodes, of pushes and of merges, of this file and
of others, active or not. The head's id is among those that the API hands out, so that a
merge may supersede the head before it sets the next one (`Promoting`); `HeadIsMerged` says
that this is the only time when a head is not a merged node.

*Discipline.* On the files of `Awaited`, one orchestrator makes the calls of the merge flow
and awaits each answer; pushes still arrive at any time. On other files merges overlap
freely. The properties about heads and decisions are stated for awaited files. Only
`RegisteredPushesAreComplete` and `NodesLeaveWithTheirFile` are about all files. What the
discipline excludes is not guarded by the code, and listed under "hazards" without a
property: two merges of one file at once, and a commit between the supersession of the last
active node and the new head.

*External.* Git is an oracle that succeeds or fails here (`GitFails`); diff-match-patch
returns the proposed content on the base of the patch and anything on another one.

### The working tree (`WorkingTree`)

What is an oracle in `GitService` is the subject here: `git` is the checked-out branch, the
index, the working tree and the commits of each branch. A call of `CreateGroupedCommit` is
`CheckoutBranch`, a `WriteFile` per file, `StageFiles`, `Commit`, `HeadSHA`, `PutCommitRecord`; each
may fail, ends the handler there and undoes nothing. `PushCommit` makes three attempts
(`Push`) and then writes a status (`UpdateCommitRecord`). What the doc comment promises,
that the recorded commit holds the push (`RecordsTellTheTruth`), is violated.

*Discipline.* The history variable `tidy` says that all steps so far were `Tidy`: no two calls
were in the repository at a time, and none failed when it had changed files and not committed
them. Nothing in the code sees to this; a caller that awaits each call, and cleans up after one
that failed, does. `TidyRecordsTellTheTruth` is the same claim for such a caller. It is no
matter of course: a branch is still created wherever the push before has left HEAD, a commit is
refused when its files hold what they held before, its SHA may not be found, and pushes are
attempted and repeated at any time, also while a commit is being made on their branch.

### The task tree (`TaskTree`, `MergeDiffs`)

`nodes` is the `TreeStore` for the leaves of one file. A tool call of an agent is one request,
which is carried out and answered, or fails, or is given up by the tool (`late`): the agent
then goes on as after an error, while the backend may still carry the request out later
(`CarryOut`). The manager's `GetKnownChild` and `GetSiblings` are the two requests of
`get_node_children`; `Reset` and `DispatchAgain` follow `agents/manager_agent.yaml`, the coder's steps
`agents/coder_agent.yaml`. `MergeAll` is the merge service's `merge_diffs` with Python's slice
semantics (`AssignSlice`, `Bound`).

*Reference definition.* `Intended` says where every line is meant to be, region by region of
the base, without reference to offsets. The merge agrees with it when the diffs are
`Orderly`: the hunks of each follow each other (`Ascending`, as in every unified diff; the
offset would be wrong otherwise), no two diffs touch the same lines, and none shifts the
lines of a later one. That last condition is what the code needs and its documentation does
not say. A `Diff` is any sequence of hunks, with any `start`, of any lines (`Text`).

*Discipline.* After a retry two coders may work at one node, and a merged diff may be replaced
while it is merged; `MergesTheComplete` is stated for managers that have not retried.

### The dashboard (`Dashboard`)

`vfs` is a version of the VFS, the number of changes made to it: only which state a
snapshot shows matters. `commands` are the handlers that change the VFS, read it and publish
what they read, each under another lock (`ChangeVFS`, `ReadState`, `Publish`, `PublishResult`);
calls in `Silent` are MCP tools and the git API, which publish nothing. `streams` runs from the
browser's `EventSource` to the subscriber's channel and holds the events under way; `Deliver` drops
an event when a channel is full, and `OnError` loses what is in it. `hook` is `useSSE`: its
source, its state, its timeout, and the values its last effects saw. React runs effects
some time after the state they depend on has changed, so `RunEffects` is a step of its
own: it replaces the stream when `retries`, and with it `connect`, has changed, and loads and
starts or stops the interval when `connected` has. `panel` is what is on screen, the
interval and the fetches, whose answer is taken at one time (`GetVFS`) and shown at another
(`Load`).

Two things in this code contradict its comments and are visible in the model. The
backoff after an error is never waited for: the cleanup of the effect cancels the
timeout and the effect connects at once (`Reconnect` happens only when the timeout beats the
effect). And after a reconnection `setRetries(0)` makes the effect replace the stream that
has just opened, while `connected` stays true and nothing is fetched again.

### The topology panel (`Topology`)

`vfs` and `registry` are the two tables, each with a lock of its own; `calls` holds what a command
still has to do, one lock or one event after the other (`DoStep`). The route makes its requests
in turn (`GET`, `GETWithout`), each of which can fail by itself, and combines what they returned
(`View`), which the browser shows some time later (`Load`). The stream is what `Dashboard` establishes of `useSSE`: it is connected or
not, and its channel is bounded. The MCP server may go down, which empties everything. Two
history variables state the property: `newest`, what the last request sent has returned,
and `untold`, that something has happened since of which no event tells (a silent call, a
dropped event, a failed request).

### Process control (`ServerControl`)

`route` is the module state of the route handler, `children` the processes with what the
handler has not heard of them yet (a line of output, an exit), `server` the process that
listens. A `GET` or a `POST` is a probe, then the rest of the handler on whatever the status has
become meanwhile. A browser polls at an interval (`PollStatus`), and a click on Start
(`HandleStart`) runs a loop of its own polls; a request may fail in the browser while its
handler goes on (`"lost"`).

### Console and proxies (`Console`, `Proxy`)

A call has two sides: how far the server is and how far the route handler is. The route
handler gives up after 15 s (`"silent"`), the connection may be refused or break off; the server
goes on in the first and last case. `terminal` is the panel: `history` is the output and
`cmdHistory` what the arrow keys recall. `Unmount` and `Mount` are the change of the tab; what a
command returns to a panel that is no longer there is dropped.

### Test page (`GraphEditor`, `BackendPanel`, `BackendProxy`)

A node has the ids it connects to and those that connect to it. `NextNodeId` counts from the
number of nodes, so an id is given again after a removal. In the panel, health checks start
at an interval and on Retry, and their answers arrive in any order; a call's fate is decided
by the backend (`DecideCheck`) some time before the browser hears of it.

### Pages and kit (`Site`, `DashboardCards`, `Toasts`, `Sidebar`, `Carousel`, `FrontPages`)

Following a link unmounts one page and mounts another (`Navigate`), and effects run some time
after (`RunEffects`); `numbers` keeps the scrambled number of every visit, since the cleanup of
its effect stops the timeout but not the interval that timeout has started. `Toasts` has
the store outside React, whose order (the newest first) is that of the ids, and the
`Toaster`, which is told of changes only from `Listen` on. An update may give a toast any
props: it may open one again that has been dismissed and whose timeout is pending, close one
that has none, and replace `onOpenChange`, so that closing it on the screen no longer
dismisses it (`closes`). `dismissed` is history: the code keeps no such flag.
`Sidebar` keeps beside the provider's state what the keyboard listener has captured (`handler`).
`Carousel` is told by Embla (external) what was selected. `DashboardCards` has the cards, which
React keeps by their agent, under listings in any order, and the selected node of the
topology. They share no state, neither with each other nor with editor and panel of the test
page, and no page uses the three kit components; `FrontPages` therefore explores each of the
seven alone (`subject`), in one run.

## 3. Runs

| Run | Instance | Shows |
|---|---|---|
| `analysis` | 3 agents; submissions at all interesting distances (same line, 3 lines, 4 lines), a file named twice, a file without symbols, the sample of the test page | severities are distances, withdrawing never blocks, an allowed VFS has no shared line, decision and report agree |
| `micro_commit` | 2 agents (one disciplined), 3 proposals, 3 requests, a backend that may fail or hang | nothing lost, nothing committed twice, committed is analysed, verdicts are outdated only by arrivals, every request is answered, and the disciplined agent's view refines the ledger |
| `lost_proposal` | 1 request, no discipline | **violated**: the final `Clear` deletes a newer proposal |
| `git_service` | 2 awaited files; 2 pushes, one of which fails at its second file; 3 merges that list up to 2 ids each, one of which may be refused; 1 grouped commit | a head is a merged node with the file's base, which only its own replacement supersedes, promotions extend the head, nodes leave with a merge of their own file, registered pushes are complete, a commit after `all_resolved` has decided content only |
| `tidy_records` | 3 pushes to 2 branches, one of which leaves a file as it is; 2 calls of `PushCommit`, 3 faults | as long as grouped commits come one at a time and leave nothing behind, a record names a commit of its push, on its branch, and the remote has it when the status says so |
| `working_tree` | the same with one fault | **violated**: the commit recorded for a push is on another branch or holds files of another push |
| `task_tree` | 2 leaves of a file of five lines, 8 combinations of diffs, 3 coder runs, 2 faults | a complete node has a diff, what is merged is complete, an orderly merge is what the authors meant |
| `dashboard` | a command that publishes and a silent call, channels of one event, 2 streams, 2 fetches that may fail | the panel always has a stream or will open one, never two, and while it stays disconnected it ends up showing the VFS |
| `topology` | 1 agent, 1 call, channels of two events, 2 requests in flight, 1 fault | at rest, the last request returned the topology as it is unless nothing told the panel; without a stream the panel still converges |
| `server_control` | 1 browser, 2 child processes, one poll per click, one request that fails in the browser | "starting" has a process, a server that stays up is shown, and Start becomes usable again |
| `console` | 2 calls, 3 kinds of outage, 2 lines | entries tell what happened, output follows input, the input comes back |
| `front_pages` | 2 visits to the landing page, 3 toasts with a limit of one, all modes of the sidebar, up to 3 slides, 3 agents; an editor with up to 3 nodes; 2 overlapping health checks and a backend that comes and goes | timers come to rest, toasts come and go, toggles change what is shown, buttons tell the truth, cards open by a click only; edges agree at both ends and form a forest; the panel tells what is going on and converges |

The two violated runs are places where the code does not do what a comment says; the other
disagreements met while modelling are in `PROJECT.json` under "findings", with the lines they
quote.

**Bounds.** The constants above are the only bounds, with the counters named here:
`MaxFaults` (failures in `Topology`, `TaskTree` and `WorkingTree`), `MaxFailures` (requests that fail in the
browser), `MaxCommands`, `MaxNodes`, `MaxVisits`, `MaxToasts`, and
`MaxListed` (node ids that one merge lists).

- *Gate.* Three requests are one more than two that race, so that a third can follow an
  answer (retry). Three proposals let the disciplined agent replace its own.
- *Analysis.* Severity depends on two symbols only, risk saturates with three overlaps of
  weight 40.
- *Git.* Two merges of one file and one of another are what a supersession of the wrong file
  needs; a push of two files is the smallest that can be half-done. Two listed ids
  (`MaxListed`) are the nodes of a push of two files, or the head with another node; all
  subsets were explored as well, with one base for both pushes, in 3.5 minutes.
- *Working tree.* Two pushes to one branch with one to another between them, in any order;
  three faults are what one `PushCommit` needs to give up its three attempts.
- *Task tree.* Two leaves are a conflict, three coders one after a retry and one beside it;
  the diffs of the second leaf lie above, below and in the place of the first one's.
- *Dashboard.* A channel of one event is full when a command publishes its second; two
  streams are the one in use and the one being closed; two fetches can answer in the wrong
  order; `retries` is kept as zero, one or two, since only its changes and whether it is
  zero count.
- *Topology.* One agent, so that the touch of a registered agent by the push of another one
  is not reached; the instance with two agents and channels of one event has 8.7 million
  states and passes as well, but takes longer than a regular run should. With one call and
  channels of two events only the result of a command finds its channel full; the loss of
  an event that matters is reached in the larger instance, and in `dashboard`.
- *Process control.* Two processes are a former and a present child. One poll per click
  instead of six: a loop that is over earlier or later than the answer it waits for is
  already there with one.
- *Console, panels, kit.* Two calls are one that was given up and one that follows.

**Deadlock** is checked where somebody can always act: the analysis, the gate, the dashboard and
process control. It is off for `git_service`, `console`, `topology`, `task_tree`,
`tidy_records`, `working_tree` and `front_pages`: there calls, lines, faults or visits are used up at some point, or
everything has come to rest, and nothing more happens.

**Fairness.**

- `micro_commit`: a goroutine runs its handler to the end, so every local step of a request
  is weakly fair. The backend need not answer, so `EvaluatePolicy` is fair only when it is not
  asked; the step that is sure to happen while it is asked is the expiry of the client's
  timeout (10 s, within a context of 30 s), `AnalysisFails`. No client is fair.
- `dashboard`: handlers finish, an `EventSource` opens or fails, events of an open stream are
  dispatched and timers fire (weak fairness); `RunEffects`, `Poll`, `GetVFS` and `Load` are strongly
  fair. For `RunEffects` and `Poll` that only says that they do happen although the model's pool
  of streams and fetches is empty at times. For the fetches it is an assumption on the
  network: one that is repeated for ever succeeds eventually. Streams may break for ever,
  and nothing makes a client change the VFS.
- `topology`: calls finish, requests are answered or fail (their number is bounded by
  `MaxFaults`), the effect runs; the interval's `Poll` is strongly fair for the same reason as above.
- `server_control`: a process that compiles goes on to bind or to exit, its events are
  delivered, handlers end, and the interval fires. Nobody is made to click.
- `console`: every call ends at its answer or at the proxy's timeout of 15 s, and its result
  reaches the browser. The server's own progress is not fair.
- `front_pages`: React runs its effects, intervals and timeouts fire, and Radix closes a toast
  after its duration, if `toast()`'s `onOpenChange` is still its own. In the panel of the test page the health interval fires, and every check
  and analysis ends, at the latest by the proxy's timeout. No user is fair.

**Mutants.** Every property is violated when the definition `PROJECT.json` names is replaced
by the mutant next to it, a plausible bug in that code.

## 4. Proofs

The theorems hold for every value of the constants that satisfies the assumptions of the
module, which TLC evaluates in every run; what they say is types, that `None` is no other
value, and limits that are at least one. Except where a paragraph says otherwise, nothing
else is assumed.

**The gate** (`GateProofs`). For every number of agents, proposals and requests,
every policy threshold and every content of the files: `GateInvariant`, `Spec => []GateInv`,
and with it `TypeCorrect`, `DisciplinedAgentsLoseNothing`, `CommitsAreUnique` and
`CommitsAreAnalysed`; `VerdictsAgeByArrivals`, `Spec => OutdatedOnlyByArrivals`; and
`GateImplementsLedger`, `Spec => ImplementsLedger`: seen by the disciplined agents, the gate
is `ProposalLedger`.

*Assumptions:* `GateAssumption`, `PolicyAssumption` and `WeightAssumption` (types of the
constants; `None` is neither an agent nor a proposal).

*Argument.* The claims are not inductive: nothing in "no committed proposal is committed
again" says why a second request cannot read a committed proposal. `GateInv` adds why.
`PendingInv`: history and VFS agree, a proposal is pending exactly when it is its author's
entry. `RequestInv`: a running request of a disciplined agent is the only one of that agent,
holds the agent's current entry, and is past its commit exactly when that entry is
committed. `CommitInv`: a committed proposal has left the VFS, or its request stands right
before the `Clear`. The proof has one lemma per action and, for the actions of the other
clients, `QuietStep`: a step that leaves the entries of agents with running requests alone
preserves what those requests know.

*Verdicts.* `VerdictInv` adds that a request which is allowed holds a snapshot that passes
the policy, and that only finitely many agents hold anything at a time, without which the
number of a policy's overlaps means nothing. The entries that are still those of the
snapshot are a part of it, and the first part of the module shows that a part of a VFS that passes passes
(`PartIsAllowed`). This is said of every client, disciplined or not.

*Refinement.* A proposal leaves the ledger at `Commit` and not at the `Clear` after it:
`NewIsUncommitted` shows that what is committed was still open, and `GateInv` that the entry
which `ClearCommitted` removes is the committed one, so that this step is invisible. Every
other step is a submission, a withdrawal or a stutter.

**Analysis and policy** (`GateProofs`). `SeverityTellsTheDistance`,
`WithdrawalsAreSafe`, `AllowedIsDisjoint` and `DecisionTellsTheStory`, for any agents,
submissions, weights and thresholds. The state is a function from agents to submissions, and
`AnalysisInv` says no more than that it is well typed: what has to be shown is about the
operators. Two symbols of one key have exactly one overlap, although their pair is met in
both orders (`OneOverlapPerPair`, `OverlapIsSymmetric`). The overlaps of a part of the VFS
are those of the whole between the agents of the part, and a sum or a maximum over fewer of
them is no greater (`PartOverlaps`, `RiskGrows`, `PartRisks`); withdrawing is a part. A line
claimed twice is a critical overlap in the report (`AllowedSharesNoLine`).

*Assumption of one theorem:* `DecisionTellsTheStory` is for a `RiskThreshold` of at least
69. The gate blocks above its threshold, which is configurable (70 by default), and the
tab's bar is red from 70 on, which is fixed: with a lower threshold a file that blocks may
be drawn in orange.

**The git service** (`GitServiceProofs`). `PushesAreComplete`, `HeadsAreMerged`,
`CommitsAreDecided`, and the action properties `NodesLeave` and `PromotionsExtend`, for any
number of pushes of any length, merges, commits and files. `GitInv` is about the locals of
the running handlers. `PushInv`: a push has exactly the nodes before the file it is at, and
is registered after the last. `CommitInv`, `MergeInv`: what a handler has stored by the step
it is at. `AwaitInv`: a merge of an awaited file runs alone, and beside no commit of that
file. `AwaitedMergeInv`: such a merge still knows the head and the base as they are, and
its node is in no list until it is merged; this is what the orchestrator's waiting buys, as
a merge that is not awaited may promote over a newer head. Once it is done and its node is
the head, the node is merged, or superseded by a merge that is promoting right then and
replaces it as its last step. `HeadInv`: the head is the node of a merge that is done, and a
node is inactive only after a promotion, or during one. `ResolvedInv`: from
`PrepareCommit`'s answer to the record, each file found resolved keeps a completed merge,
and what was read is its result.

**The working tree** (`WorkingTreeProofs`). `TidyRecordsAreTrue`, for any branches, files,
contents, pushes, calls and faults. The invariant `RecordsInv` is `TypeOK` and, while `tidy`,
`InOrder`. `AloneInv`: one call is in the repository at most, and when there is none, index and
tree are the snapshot of HEAD. `CallOK`: in front of its commit, a call is on the branch of its
push, and the tree is that snapshot with the files it has written so far, then also the index;
after it, HEAD is its commit, which is what makes `HeadSHA` find the right one. `RecordOK`: a
recorded commit is on the branch of its push and changes the files of the push only, and no
record is there before its call has ended. `PushOK`: the remote has the commit of a record
before the status is written, since what `git push` takes is the whole branch, and branches
only grow (`MadeGrows`). A step of a call concerns the others in two ways, for which there is one
lemma each: it enters, uses or leaves the repository (`StepInside`), or does not touch it
(`StepOutside`). *Assumption:* `WorkingTreeAssumption` (the types of the pushes; `Main` is no branch
that handlers commit to).

**The task tree** (`TaskTreeProofs`). `CompleteNodesHaveDiffs` and `MergesAreOfTheComplete`,
for any sequence of leaves, any number of coders and faults, and any diffs. What is
difficult is `late`: a request that its tool has given up may be carried out at any later
time. `DiffInv`: a late "complete" names a node that has its diff already, as the coder
sends it after the diff was accepted, and no step takes a diff away, not even `Reset`.
`CreationInv`, `CreatedInv`: which requests can be late before and after the manager has
created the nodes. `FirstRunInv`: until a retry each node has one coder, and a complete node
no late request, so that `MergeInv` can say that what the manager has verified and the
merger has collected is what the nodes hold.

`MergesAreIntended`, for any base, any number of diffs and any hunks in them. The invariant
(`ResultInv`) only says that a result is `MergeAll` of some diffs of nodes; the rest is about
the operators of `MergeDiffs`. (1) *Recursion.* `FoldLeft`, which runs over hunks and diffs, and
`FlattenSeq` are defined by recursive functions, and the library's facts about these cannot be
instantiated; `LeastNumber`, `Induction`, `FoldIsDefined` and `Recursion` derive what is needed
from the facts about sets: a number that is least, and a set that is closed is everything.
(2) *Pieces.* `Pieces` cuts the base into one per line, of which the first line of a hunk holds all
that it adds and its other lines nothing; `Made` is what the first k of them make together, and
`ReplacedIsMade` says that all of them make what is `Intended`. (3) *One hunk.* One more hunk changes the pieces of
its own lines only (`PiecesChange`), and so replaces a slice of the text (`Splice`,
`MadeWithOneMore`), which is the slice that `AssignSlice` replaces (`HunkPlaced`), as long as the
offset says how much the hunks before it have grown. (4) *One diff.* By induction over its
hunks, as they ascend, it does (`HunksInTurn`, `DiffPlaced`). (5) *All diffs.* The next diff starts
with offset 0, which is right because what was applied before has not shifted its lines
(`DiffsInTurn`, `OrderlyMerge`).

**The streams** (`DashboardProofs`). `PanelIsNeverDeaf` and `BrowserHoldsOneStream`, for any
number of commands, streams and fetches and any capacity of a channel. The two carry each
other: that an effect or a timeout will open a stream is kept because no second one is there
to close it, and the invariant is their conjunction with the types (`DashboardInv`).

**The topology panel** (`TopologyProofs`). `PanelAsksAgain`, for any agents, calls, requests in
flight, faults and any capacity of a channel. The property speaks of rest; `TopologyInv` says
what keeps it true on the way there: unless something is still to be told (`Pending`: an event
that a running call has still to publish, or one in the channel), the newest request has read
what is there as far as it has got (`Fresh`). `CallsOK` is why a change leaves something to be
told: what a call has still to do announces everything it has still to change, or is silent
(`ProgramsAnnounce`, shown for every command, the demo seed of any number of agents among
them). A change by a silent call, or an event that is dropped, sets `untold` instead.
*Assumption:* `TopologyAssumption` (finitely many agents; requests are no topologies).

**The controls** (`ControlProofs`). `StartsAreNeverOrphaned` of the process control, for
any number of browsers, children, polls and failures: `RouteInv` adds to
`StartingHasProcess` the types of the handle and of the children. `ConsoleTellsTheTruth` and
`OutputIsInput` of the console, for any number of calls, lines and outages: in `ConsoleInv`,
`CallOK` says how far the two sides of a call can be apart (nothing is done before it is
answered, and what is relayed as an answer is one), `MineOK` that the panel waits for one
call, that of its last line, and `Follows` that the output starts after the last
clear-screen and is one line short exactly while a command runs. A reply to a panel that was
unmounted is dropped, which is why a call has to know whether it is `mine`. *Assumption:*
`ConsoleAssumption` (outages are no answers).

**The pages** (`FrontPagesProofs`). Everything is proved of a component by itself (`GraphSpec`,
`BackendSpec`, `CarouselSpec`, `SidebarSpec`, `CardsSpec`, `ToastsSpec`), and `PartsAlone` shows that a
behaviour of `FrontPages` is one of each, as its initial states are among theirs and a step of
another component leaves their variables alone; the theorems are about `FrontPages`.

`GraphTypes`, `EdgesAlwaysAgree`, `GraphIsForest` and `PanelIsTruthful` of the test page, for any
number of nodes, any additions and removals and any overlapping checks; and
`ConnectKeepsAgreement`: the same agreement for `connectNodes`, which no component calls yet, as
long as it joins two different nodes. For the forest, `Acyclic` and `OneParent` speak of sets of
nodes instead of paths (every set of nodes has one that connects to none of the set), which
is something that one step of a helper can be seen to keep; `NextIdIsFree` shows that
`NextNodeId`, which counts from the number of nodes, never hits a node that is there.

`ButtonsAreTruthful`, `TogglesChangeTheScreen`, `CardsAreOpenedByClicks` and
`DismissedToastsAreTimed`, for any number of slides, agents and toasts. For the sidebar,
`SidebarInv` adds what the listener has captured: once the first effects are over, it is what
the last render has shown, because every later change goes through a render and its effects.
For the toasts, `ToastsInv` adds that no id beyond the last one given is known to the store, to
a timeout or to the Toaster, so that a new toast never meets an old timeout. Whether a toast
is open says nothing of its timeout, since an update may change it. *Assumptions:*
those of the components (`Undefined` is no truth value, `NoSelection` no number).

**Only model-checked.** Liveness under fairness, `ENABLED` and induction over data are out
of the prover's reach. This concerns `EveryRequestAnswered`, the convergence properties
(`ToastsComeAndGo` and `LandingSettles` among them) and `InputComesBack`. Every safety
property of a passing run is a theorem; the safety part of `ToastsComeAndGo`, `DismissedAreTimed`,
is `DismissedToastsAreTimed`.

## 5. Not modelled

- `vfs.AddFile` has no caller outside tests, `agents.Remove`, `Fetch` and `CommitWithAuthor` have none;
  `State` and the other pure reads change nothing.
- Parsers, JSON, HTTP routing, configuration and logging. The demo seed is a sequence of
  `Propose`.
- `PatchApply` of diff-match-patch on another base than the patch's own can return anything; no
  property is stated about it.
- The Go data races on `BaseContent` are modelled as reads of the old or the new value; a torn
  string is not.
- The commit coordinator's answer is always "allowed" in the present code, so the branch for
  a refusal is dead.
- React is modelled as its production build runs: the double invocation of effects and
  updaters in development's strict mode is left out.
- The other components of `components/ui/`, styled wrappers of Radix components without state of
  their own, and `components/ui/use-toast.ts`, a copy of the hook that `Toasts` models. The platform
  page and the sections of text: nothing in them changes.
- Places on the screen, positions and endless animations; the text of a node of the editor.

## 6. Plan

*Done:* analysis and policy; VFS and gate with its ledger; git service and working tree;
task tree and merge service; dashboard and topology; process control, console and
proxies; test page; pages and kit. Proofs of their safety properties.

What is left are the hazards without a property in `PROJECT.json`, each with the reason, and
the parts of section 5. Most of them are places where the code lets happen what the hazard
says, so that no property that holds could name them: an overlap of merges, a snapshot or an
event that is lost or comes late while the panel is connected, a slower failure recorded
over a success.
