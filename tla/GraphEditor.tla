------------------------------- MODULE GraphEditor -------------------------------
(***************************************************************************)
(* The node editor of the test page: a graph whose edges are kept at both  *)
(* ends, and ids that are given again once their node is gone.  An id is   *)
(* its number: "manager" is 0 and "node-k" is k.  The text of a node, on   *)
(* which nothing depends, is left out, and with it the panel's text field. *)
(***************************************************************************)
EXTENDS Naturals, FiniteSets

CONSTANTS
  NoSelection,
  MaxNodes      \* nodes beyond which none is added

ASSUME GraphAssumption == NoSelection \notin Nat /\ MaxNodes \in Nat

VARIABLES
  nodes,      \* the nodes by id
  selected    \* selectedNodeId

graphVars == <<nodes, selected>>

Manager == 0
Node(connectsTo, connectedFrom) == [connectsTo |-> connectsTo, connectedFrom |-> connectedFrom]

GraphInit ==
  /\ nodes = [id \in 0..2 |-> IF id = Manager THEN Node({1, 2}, {}) ELSE Node({}, {Manager})]
  /\ selected = NoSelection
-----------------------------------------------------------------------------
\* getNextNodeId: counting starts behind the number of nodes, not behind the largest id.
NextNodeId(graph) ==
  LET first == Cardinality(DOMAIN graph) + 1 IN
  CHOOSE id \in first..(2 * first) :
    id \notin DOMAIN graph /\ \A earlier \in first..(id - 1) : earlier \in DOMAIN graph

\* Mutant of addNode: the new node does not know its parent.
addNodeOneEnd(graph, parent, id) ==
  IF parent \notin DOMAIN graph \/ id \in DOMAIN graph THEN graph
  ELSE [n \in DOMAIN graph \cup {id} |->
          IF n = id THEN Node({}, {})
          ELSE IF n = parent THEN Node(graph[n].connectsTo \cup {id}, graph[n].connectedFrom)
          ELSE graph[n]]

\* addNode: unchanged without a parent, or when the id is taken.
addNode(graph, parent, id) ==
  IF parent \notin DOMAIN graph \/ id \in DOMAIN graph THEN graph
  ELSE [n \in DOMAIN graph \cup {id} |->
          IF n = id THEN Node({}, {parent})
          ELSE IF n = parent THEN Node(graph[n].connectsTo \cup {id}, graph[n].connectedFrom)
          ELSE graph[n]]

\* Mutant of removeNode: the edges that lead to the node stay.
removeNodeOnly(graph, id) ==
  [n \in DOMAIN graph \ {id} |-> Node(graph[n].connectsTo, graph[n].connectedFrom \ {id})]

removeNode(graph, id) ==
  [n \in DOMAIN graph \ {id} |->
     Node(graph[n].connectsTo \ {id}, graph[n].connectedFrom \ {id})]

\* connectNodes, which no component calls: one of the two branches for every node.
connectNodes(graph, source, target) ==
  IF {source, target} \subseteq DOMAIN graph
  THEN [n \in DOMAIN graph |->
          IF n = source THEN Node(graph[n].connectsTo \cup {target}, graph[n].connectedFrom)
          ELSE IF n = target THEN Node(graph[n].connectsTo, graph[n].connectedFrom \cup {source})
          ELSE graph[n]]
  ELSE graph
-----------------------------------------------------------------------------
SelectNode(id) ==
  /\ id \in DOMAIN nodes
  /\ selected' = id
  /\ UNCHANGED nodes

DeselectNode ==
  /\ selected' = NoSelection
  /\ UNCHANGED nodes

\* The side panel is there, with its two buttons, as long as a node is selected.
AddNode ==
  /\ selected # NoSelection
  /\ Cardinality(DOMAIN nodes) < MaxNodes
  /\ nodes' = addNode(nodes, selected, NextNodeId(nodes))
  /\ UNCHANGED selected

\* Mutant of RemoveNode: the selection stays with the id.
RemoveNodeKeepSelection ==
  /\ selected # NoSelection
  /\ nodes' = removeNode(nodes, selected)
  /\ UNCHANGED selected

RemoveNode ==
  /\ selected # NoSelection
  /\ nodes' = removeNode(nodes, selected)
  /\ selected' = NoSelection

GraphNext ==
  \/ \E id \in DOMAIN nodes : SelectNode(id)
  \/ DeselectNode
  \/ AddNode
  \/ RemoveNode

GraphSpec == GraphInit /\ [][GraphNext]_graphVars
-----------------------------------------------------------------------------
\* What Graph draws: a line for every entry of connectsTo whose two ends have a place.
Lines(graph) ==
  {line \in (DOMAIN graph) \X (DOMAIN graph) : line[2] \in graph[line[1]].connectsTo}

GraphTypeOK ==
  /\ IsFiniteSet(DOMAIN nodes) /\ DOMAIN nodes \subseteq Nat
  /\ nodes \in [DOMAIN nodes -> [connectsTo : SUBSET Nat, connectedFrom : SUBSET Nat]]
  /\ selected \in DOMAIN nodes \cup {NoSelection}

\* The two lists of an edge agree and both ends exist.
Agree(graph) ==
  \A n \in DOMAIN graph :
    /\ graph[n].connectsTo \cup graph[n].connectedFrom \subseteq DOMAIN graph
    /\ \A m \in DOMAIN graph : m \in graph[n].connectsTo <=> n \in graph[m].connectedFrom

\* addNode and removeNode keep an edge in two nodes of the graph: the two entries agree
\* whatever was removed and however often an id was given again.
EdgesAgree == Agree(nodes)

\* Nodes are only added below others and never moved: nobody has two parents, and no
\* path of drawn lines leads back to where it began, also when ids are given again.
Forest ==
  /\ \A n \in DOMAIN nodes : Cardinality({line \in Lines(nodes) : line[2] = n}) <= 1
  /\ \A S \in (SUBSET DOMAIN nodes) \ {{}} :
       \E n \in S : \A m \in S : <<n, m>> \notin Lines(nodes)
=============================================================================
