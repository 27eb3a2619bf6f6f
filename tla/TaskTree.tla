-------------------------------- MODULE TaskTree --------------------------------
(***************************************************************************)
(* The task tree: a manager creates the leaf nodes of a file, dispatches a *)
(* coder agent for each, polls them, resets and dispatches again what      *)
(* looks stuck, and dispatches a merge agent when all are complete.  The   *)
(* agents follow their instructions (agents/*.yaml) and act through tools, *)
(* each of which makes an HTTP request to the backend.  A request that     *)
(* times out is an error for the agent, and may still be carried out, at   *)
(* once or later.  Nodes live in the memory of the backend.                *)
(***************************************************************************)
EXTENDS MergeDiffs

CONSTANTS
  Leaves,     \* the leaf nodes of one file, in the order of their creation
  Diffs,      \* of each leaf: the diffs a coder may come up with
  Text,       \* what a line can be
  Base,       \* the lines of the file
  Coders,     \* runs of the coder agent
  MaxFaults,  \* requests that time out or fail
  None

\* A diff as the merge service parses it: its hunks, in any order and of any lines.
Diff == Seq([start : Int, remove : Seq(Text), add : Seq(Text)])

ASSUME TaskTreeAssumption ==
  /\ Leaves \in Seq(ToSet(Leaves)) /\ Len(Leaves) > 0
  /\ Base \in Seq(Text)
  /\ \A n \in ToSet(Leaves) : None \notin Diffs[n] /\ Diffs[n] \subseteq Diff
  /\ MaxFaults \in Nat

VARIABLES
  nodes,    \* the TreeStore: status and diff of each node
  late,     \* requests given up by their tool that the backend may still carry out
  manager,  \* its phase, the node it creates or looks into, what it was told, and,
            \* as history, whether it has decided to retry a node
  coders,   \* the step and the node of each run
  merger,   \* the merge agent: what it has collected, and the result
  faults

vars == <<nodes, late, manager, coders, merger, faults>>

Nodes == ToSet(Leaves)
Absent == [status |-> "absent", diff |-> None]

New == [status |-> "pending", diff |-> None]
NoResult == [content |-> <<>>, index |-> 0, conflicts |-> <<>>]

Init ==
  /\ nodes = [n \in Nodes |-> Absent]
  /\ late = {}
  /\ manager = [pc |-> "create", next |-> 1, child |-> None, stuck |-> None,
                retried |-> FALSE]
  /\ coders = [c \in Coders |-> [pc |-> "unused", node |-> None]]
  /\ merger = [pc |-> "unused", diffs |-> <<>>, result |-> NoResult]
  /\ faults = 0
-----------------------------------------------------------------------------
(***************************************************************************)
(* The tree's routes and the tools.                                        *)
(***************************************************************************)

\* create_node overwrites; set_status and set_diff accept every status in every state.
Applied(request) ==
  LET n == request.node IN
  CASE request.op = "create" -> [nodes EXCEPT ![n] = New]
    [] request.op = "status" /\ nodes[n] # Absent -> [nodes EXCEPT ![n].status = request.value]
    [] request.op = "diff" /\ nodes[n] # Absent -> [nodes EXCEPT ![n].diff = request.value]
    [] OTHER -> nodes

\* What a tool that writes does, and whether it returns an error: carried out and
\* answered, lost, or carried out later than the tool waits.
Call(request, error) ==
  \/ /\ ~error
     /\ nodes' = Applied(request)
     /\ UNCHANGED <<late, faults>>
  \/ /\ error /\ faults < MaxFaults
     /\ faults' = faults + 1
     /\ late' \in {late, late \cup {request}}
     /\ UNCHANGED nodes

\* What a tool that reads does.
Read(error) ==
  /\ \/ ~error /\ UNCHANGED faults
     \/ error /\ faults < MaxFaults /\ faults' = faults + 1
  /\ UNCHANGED <<nodes, late>>

CarryOut(request) ==
  /\ request \in late
  /\ nodes' = Applied(request)
  /\ late' = late \ {request}
  /\ UNCHANGED <<manager, coders, merger, faults>>

Create(n) == [op |-> "create", node |-> n, value |-> None]
SetStatus(n, status) == [op |-> "status", node |-> n, value |-> status]
SetDiff(n, diff) == [op |-> "diff", node |-> n, value |-> diff]
-----------------------------------------------------------------------------
(***************************************************************************)
(* The coder agent.                                                        *)
(***************************************************************************)

After(c, error, pc) ==
  coders' = [coders EXCEPT ![c].pc = IF error THEN "stopped" ELSE pc]

FetchTask(c) ==
  /\ coders[c].pc = "fetch"
  /\ \E error \in BOOLEAN : Read(error) /\ After(c, error, "mark")
  /\ UNCHANGED <<manager, merger>>

MarkInProgress(c) ==
  /\ coders[c].pc = "mark"
  /\ \E error \in BOOLEAN :
       /\ Call(SetStatus(coders[c].node, "in_progress"), error)
       /\ After(c, error, "write")
  /\ UNCHANGED <<manager, merger>>

\* Mutant of WriteDiff: the coder goes on when the tool has returned an error.
WriteDiffAnyway(c) ==
  /\ coders[c].pc = "write"
  /\ \E error \in BOOLEAN, d \in Diffs[coders[c].node] :
       /\ Call(SetDiff(coders[c].node, d), error)
       /\ After(c, FALSE, "complete")
  /\ UNCHANGED <<manager, merger>>

WriteDiff(c) ==
  /\ coders[c].pc = "write"
  /\ \E error \in BOOLEAN, d \in Diffs[coders[c].node] :
       /\ Call(SetDiff(coders[c].node, d), error)
       /\ After(c, error, "complete")
  /\ UNCHANGED <<manager, merger>>

MarkComplete(c) ==
  /\ coders[c].pc = "complete"
  /\ \E error \in BOOLEAN :
       /\ Call(SetStatus(coders[c].node, "complete"), error)
       /\ After(c, error, "done")
  /\ UNCHANGED <<manager, merger>>

\* The agent, a language model, fails silently in the middle of its work.
GiveUp(c) ==
  /\ coders[c].pc = "write" /\ faults < MaxFaults
  /\ coders' = [coders EXCEPT ![c].pc = "stopped"]
  /\ faults' = faults + 1
  /\ UNCHANGED <<nodes, late, manager, merger>>
-----------------------------------------------------------------------------
(***************************************************************************)
(* The manager agent.                                                      *)
(***************************************************************************)

Start == [pc |-> "fetch", node |-> None]

\* The first leaf is the known child the manager asks for the others.
Known == Leaves[1]

CreateNode ==
  /\ manager.pc = "create" /\ manager.next <= Len(Leaves)
  /\ \E error \in BOOLEAN :
       /\ Call(Create(Leaves[manager.next]), error)
       /\ manager' = IF error THEN [manager EXCEPT !.pc = "stopped"]
                     ELSE [manager EXCEPT !.next = @ + 1]
  /\ UNCHANGED <<coders, merger>>

\* The whole tree is created before a coder is dispatched, one for each leaf.
DispatchAll ==
  /\ manager.pc = "create" /\ manager.next > Len(Leaves)
  /\ \E f \in [Nodes -> Coders] :
       /\ IsInjective(f)
       /\ coders' = [c \in Coders |->
                       IF \E n \in Nodes : f[n] = c
                       THEN [Start EXCEPT !.node = CHOOSE n \in Nodes : f[n] = c]
                       ELSE coders[c]]
  /\ manager' = [manager EXCEPT !.pc = "child"]
  /\ UNCHANGED <<nodes, late, merger, faults>>

\* Mutant of Done: a node counts when it has a diff.
DoneWithDiff(node) == node.diff # None

Done(node) == node.status = "complete" /\ node.diff # None
LooksStuck(node) == node.status = "in_progress" /\ node.diff = None

\* get_node_children asks for one child and then for its siblings.
GetKnownChild ==
  /\ manager.pc = "child"
  /\ \E error \in BOOLEAN :
       /\ Read(error)
       /\ manager' = IF error THEN manager
                     ELSE [manager EXCEPT !.pc = "siblings", !.child = nodes[Known]]
  /\ UNCHANGED <<coders, merger>>

\* When all are done the manager verifies; otherwise it polls again, or looks into a
\* node that has been in progress without a diff for some polls.
GetSiblings ==
  /\ manager.pc = "siblings"
  /\ LET children == [n \in Nodes |-> IF n = Known THEN manager.child ELSE nodes[n]] IN
     \E error \in BOOLEAN :
       /\ Read(error)
       /\ IF ~error /\ \A n \in Nodes : Done(children[n])
          THEN manager' = [manager EXCEPT !.pc = "verify", !.child = None]
          ELSE \/ manager' = [manager EXCEPT !.pc = "child", !.child = None]
               \/ /\ ~error
                  /\ \E n \in Nodes : /\ LooksStuck(children[n])
                                      /\ manager' = [manager EXCEPT !.pc = "inspect",
                                                       !.child = None, !.stuck = n]
  /\ UNCHANGED <<coders, merger>>

Inspect ==
  /\ manager.pc = "inspect"
  /\ \E error \in BOOLEAN :
       /\ Read(error)
       /\ manager' = IF ~error /\ LooksStuck(nodes[manager.stuck])
                     THEN [manager EXCEPT !.pc = "reset", !.retried = TRUE]
                     ELSE [manager EXCEPT !.pc = "child", !.stuck = None]
  /\ UNCHANGED <<coders, merger>>

\* Option A resets the node first, option B does not.
Reset ==
  /\ manager.pc = "reset"
  /\ \/ \E error \in BOOLEAN :
          /\ Call(SetStatus(manager.stuck, "pending"), error)
          /\ manager' = IF error THEN [manager EXCEPT !.pc = "child", !.stuck = None]
                        ELSE [manager EXCEPT !.pc = "dispatch"]
     \/ /\ manager' = [manager EXCEPT !.pc = "dispatch"]
        /\ UNCHANGED <<nodes, late, faults>>
  /\ UNCHANGED <<coders, merger>>

\* Another run for the node, or the manager reports it as unresolvable.
DispatchAgain ==
  /\ manager.pc = "dispatch"
  /\ \/ \E c \in Coders :
          /\ coders[c].pc = "unused"
          /\ coders' = [coders EXCEPT ![c] = [Start EXCEPT !.node = manager.stuck]]
          /\ manager' = [manager EXCEPT !.pc = "child", !.stuck = None]
     \/ /\ manager' = [manager EXCEPT !.pc = "stopped"]
        /\ UNCHANGED coders
  /\ UNCHANGED <<nodes, late, merger, faults>>

\* The authoritative list is the list of the siblings: without the node asked about.
Verify ==
  /\ manager.pc = "verify"
  /\ \E error \in BOOLEAN :
       /\ Read(error)
       /\ IF ~error /\ \A n \in Nodes \ {Known} : Done(nodes[n])
          THEN /\ manager' = [manager EXCEPT !.pc = "merging"]
               /\ merger' = [merger EXCEPT !.pc = "collect"]
          ELSE /\ manager' = [manager EXCEPT !.pc = "child"]
               /\ UNCHANGED merger
  /\ UNCHANGED coders
-----------------------------------------------------------------------------
(***************************************************************************)
(* The merge agent.                                                        *)
(***************************************************************************)

Collect ==
  /\ merger.pc = "collect" /\ Len(merger.diffs) < Len(Leaves)
  /\ LET diff == nodes[Leaves[Len(merger.diffs) + 1]].diff IN
     \E error \in BOOLEAN :
       /\ Read(error)
       /\ merger' = IF error \/ diff \in {None, <<>>} THEN [merger EXCEPT !.pc = "stopped"]
                    ELSE [merger EXCEPT !.diffs = Append(@, diff)]
  /\ UNCHANGED <<manager, coders>>

TriggerMerge ==
  /\ merger.pc = "collect" /\ Len(merger.diffs) = Len(Leaves)
  /\ \E error \in BOOLEAN :
       /\ Read(error)
       /\ merger' = IF error THEN [merger EXCEPT !.pc = "stopped"]
                    ELSE [merger EXCEPT !.pc = "merged", !.result = MergeAll(Base, merger.diffs)]
  /\ UNCHANGED <<manager, coders>>

MergeReported ==
  /\ manager.pc = "merging" /\ merger.pc \in {"merged", "stopped"}
  /\ manager' = [manager EXCEPT !.pc = "stopped"]
  /\ UNCHANGED <<nodes, late, coders, merger, faults>>
-----------------------------------------------------------------------------
Coder(c) == FetchTask(c) \/ MarkInProgress(c) \/ WriteDiff(c) \/ MarkComplete(c) \/ GiveUp(c)

Manager ==
  \/ CreateNode \/ DispatchAll
  \/ GetKnownChild \/ GetSiblings
  \/ Inspect \/ Reset \/ DispatchAgain
  \/ Verify \/ MergeReported

Merger == Collect \/ TriggerMerge

Next ==
  \/ \E c \in Coders : Coder(c)
  \/ Manager
  \/ Merger
  \/ \E request \in late : CarryOut(request)

Spec == Init /\ [][Next]_vars
-----------------------------------------------------------------------------
(***************************************************************************)
(* Properties.                                                             *)
(***************************************************************************)

\* tools/mcp_tools.py "Never mark a node complete without a diff": through late and lost
\* requests, resets and several coders at one node, a complete node has a diff.
CompleteHasDiff == \A n \in Nodes : nodes[n].status = "complete" => nodes[n].diff # None

\* agents/manager_agent.yaml "Never merge a group that has even one node that is not
\* complete": although the manager puts its list together from two requests and verifies
\* it without the node it asks about, what is merged is what all nodes hold, complete,
\* as long as it has not retried a node.
MergesTheComplete ==
  merger.pc = "merged" /\ ~manager.retried =>
    \A i \in DOMAIN Leaves :
      nodes[Leaves[i]] = [status |-> "complete", diff |-> merger.diffs[i]]

\* tools/mcp_tools.py "Diffs from sibling nodes must touch non-overlapping code regions to
\* merge cleanly": then, as long as no diff shifts the lines of a later one, the merge is
\* clean and every line is where its author meant it to be.
MergeIsIntended ==
  merger.pc = "merged" /\ Orderly(Base, merger.diffs) =>
    /\ merger.result.conflicts = <<>>
    /\ merger.result.content = Intended(Base, merger.diffs)
=============================================================================
