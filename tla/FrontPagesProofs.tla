---------------------------- MODULE FrontPagesProofs ----------------------------
(***************************************************************************)
(* Proofs about what FrontPages puts together.  Of the editor of the test  *)
(* page: what adding and removing a node do to a graph of any size.  Of    *)
(* its panel: what it shows, for any number of checks.  Of the component   *)
(* kit: carousel and sidebar; and the cards of the VFS panel, for any      *)
(* agents.  Each is proved of the component by itself; a behaviour of      *)
(* FrontPages is one of each component.                                    *)
(***************************************************************************)
EXTENDS FrontPages, TLAPS, FiniteSetTheorems, WellFoundedInduction

-----------------------------------------------------------------------------
(***************************************************************************)
(* Small sets and least numbers.                                           *)
(***************************************************************************)

\* A set whose elements are all the same has at most one.
LEMMA AtMostOne ==
  ASSUME NEW S, \A x, y \in S : x = y
  PROVE  Cardinality(S) <= 1
<1>1. CASE S = {}
  BY <1>1, FS_EmptySet
<1>2. CASE S # {}
  <2>1. PICK x \in S : TRUE
    BY <1>2
  <2>2. S = {x}
    OBVIOUS
  <2> QED
    BY <2>2, FS_Singleton
<1> QED
  BY <1>1, <1>2

\* A set of natural numbers that is not empty has a least one.
LEMMA LeastNumber ==
  ASSUME NEW T \in SUBSET Nat, T # {}
  PROVE  \E x \in T : \A y \in T : x <= y
<1>1. \E x \in T : \A y \in T : ~(<<y, x>> \in OpToRel(<, Nat))
  BY NatLessThanWellFounded, WFMin
<1>2. \A x, y \in Nat : <<y, x>> \in OpToRel(<, Nat) <=> y < x
  BY DEF OpToRel
<1>3. PICK x \in T : \A y \in T : ~(<<y, x>> \in OpToRel(<, Nat))
  BY <1>1
<1>4. ASSUME NEW y \in T PROVE x <= y
  <2>1. x \in Nat /\ y \in Nat /\ ~(y < x)
    BY <1>2, <1>3
  <2> QED
    BY <2>1
<1> QED
  BY <1>3, <1>4
-----------------------------------------------------------------------------
(***************************************************************************)
(* The helpers of the editor.                                              *)
(***************************************************************************)

\* A number of nodes with their two lists, the shape of what the helpers return.
IsGraph(g) ==
  g = [n \in DOMAIN g |-> Node(g[n].connectsTo, g[n].connectedFrom)]

\* A node is what it lists.
LEMMA NodeFields ==
  ASSUME NEW to, NEW from
  PROVE  Node(to, from).connectsTo = to /\ Node(to, from).connectedFrom = from
BY DEF Node

\* Two nodes instead of one is all that addNode changes: the new leaf and its parent,
\* each of which lists the other.
LEMMA AddKeepsAgreement ==
  ASSUME NEW g, IsGraph(g), Agree(g), NEW parent, NEW id
  PROVE  IsGraph(addNode(g, parent, id)) /\ Agree(addNode(g, parent, id))
<1> DEFINE new == addNode(g, parent, id)
<1>1. CASE parent \notin DOMAIN g \/ id \in DOMAIN g
  BY <1>1 DEF addNode
<1>2. CASE parent \in DOMAIN g /\ id \notin DOMAIN g
  <2>1. DOMAIN new = DOMAIN g \cup {id}
    BY <1>2 DEF addNode
  <2>2. new[id] = Node({}, {parent})
    BY <1>2 DEF addNode
  <2>3. new[parent] = Node(g[parent].connectsTo \cup {id}, g[parent].connectedFrom)
    BY <1>2 DEF addNode
  <2>4. \A n \in DOMAIN g \ {parent} : new[n] = g[n]
    BY <1>2 DEF addNode
  <2>5. \A n \in DOMAIN new : new[n] = Node(new[n].connectsTo, new[n].connectedFrom)
    <3>1. \A n \in DOMAIN g : g[n] = Node(g[n].connectsTo, g[n].connectedFrom)
      BY DEF IsGraph
    <3>2. QED
      BY <1>2, <2>1, <2>2, <2>3, <2>4, <3>1, NodeFields
  <2>6. IsGraph(new)
    <3>1. new = [n \in DOMAIN new |-> new[n]]
      BY <1>2 DEF addNode
    <3>2. QED
      BY <3>1, <2>5 DEF IsGraph
  <2>7. \A n \in DOMAIN new :
          new[n].connectsTo \cup new[n].connectedFrom \subseteq DOMAIN new
    BY <1>2, <2>1, <2>2, <2>3, <2>4, NodeFields DEF Agree
  <2>8. \A n, m \in DOMAIN new : m \in new[n].connectsTo <=> n \in new[m].connectedFrom
    BY <1>2, <2>1, <2>2, <2>3, <2>4, NodeFields DEF Agree
  <2>9. QED
    BY <2>6, <2>7, <2>8 DEF Agree
<1>3. QED
  BY <1>1, <1>2

\* Nobody who stays lists the node that goes.
LEMMA RemoveKeepsAgreement ==
  ASSUME NEW g, Agree(g), NEW id
  PROVE  IsGraph(removeNode(g, id)) /\ Agree(removeNode(g, id))
<1> DEFINE new == removeNode(g, id)
<1>1. DOMAIN new = DOMAIN g \ {id}
  BY DEF removeNode
<1>2. \A n \in DOMAIN new :
        new[n] = Node(g[n].connectsTo \ {id}, g[n].connectedFrom \ {id})
  BY DEF removeNode
<1>3. \A n \in DOMAIN new : /\ new[n].connectsTo = g[n].connectsTo \ {id}
                            /\ new[n].connectedFrom = g[n].connectedFrom \ {id}
  BY <1>2 DEF Node
<1>4. IsGraph(new)
  <2>1. new = [n \in DOMAIN new |-> new[n]]
    BY DEF removeNode
  <2>2. QED
    BY <2>1, <1>2, <1>3 DEF IsGraph
<1>5. Agree(new)
  BY <1>1, <1>3 DEF Agree
<1>6. QED
  BY <1>4, <1>5

\* connectNodes keeps the entries agreeing between two different nodes.  With a node and
\* itself it would not: only connectsTo gets its entry.
THEOREM ConnectKeepsAgreement ==
  ASSUME NEW g, IsGraph(g), Agree(g), NEW source, NEW target, source # target
  PROVE  Agree(connectNodes(g, source, target))
<1> DEFINE new == connectNodes(g, source, target)
<1>1. CASE ~({source, target} \subseteq DOMAIN g)
  BY <1>1 DEF connectNodes
<1>2. CASE {source, target} \subseteq DOMAIN g
  <2>1. DOMAIN new = DOMAIN g
    BY <1>2 DEF connectNodes
  <2>2. \A n \in DOMAIN g :
          /\ new[n].connectsTo = IF n = source THEN g[n].connectsTo \cup {target}
                                 ELSE g[n].connectsTo
          /\ new[n].connectedFrom = IF n = target THEN g[n].connectedFrom \cup {source}
                                    ELSE g[n].connectedFrom
    BY <1>2, NodeFields DEF connectNodes
  <2>3. ASSUME NEW n \in DOMAIN new
        PROVE  new[n].connectsTo \cup new[n].connectedFrom \subseteq DOMAIN new
    <3>1. g[n].connectsTo \cup g[n].connectedFrom \subseteq DOMAIN g
      BY <2>1, <2>3 DEF Agree
    <3>2. new[n].connectsTo \subseteq g[n].connectsTo \cup {target}
      BY <2>1, <2>2, <2>3
    <3>3. new[n].connectedFrom \subseteq g[n].connectedFrom \cup {source}
      BY <2>1, <2>2, <2>3
    <3>4. {source, target} \subseteq DOMAIN g
      BY <1>2
    <3>5. QED
      BY <2>1, <3>1, <3>2, <3>3, <3>4
  <2>4. ASSUME NEW n \in DOMAIN new, NEW m \in DOMAIN new
        PROVE  m \in new[n].connectsTo <=> n \in new[m].connectedFrom
    <3>1. m \in g[n].connectsTo <=> n \in g[m].connectedFrom
      BY <2>1, <2>4 DEF Agree
    <3>2. m \in new[n].connectsTo <=> m \in g[n].connectsTo \/ (n = source /\ m = target)
      BY <2>1, <2>2, <2>4
    <3>3. n \in new[m].connectedFrom <=> n \in g[m].connectedFrom \/ (m = target /\ n = source)
      BY <2>1, <2>2, <2>4
    <3>4. QED
      BY <3>1, <3>2, <3>3
  <2>5. QED
    BY <2>3, <2>4 DEF Agree
<1>3. QED
  BY <1>1, <1>2

\* Nobody has two parents, and every set of nodes has one without a child in the set.
OneParent(g) ==
  \A n, p, q \in DOMAIN g :
    n \in g[p].connectsTo /\ n \in g[q].connectsTo => p = q

Acyclic(g) ==
  \A S \in (SUBSET DOMAIN g) \ {{}} :
    \E n \in S : \A m \in S : m \notin g[n].connectsTo

\* A new node is a leaf: the only line to it is its parent's, for nobody of a graph
\* whose entries agree lists a node that is not there.
LEMMA AddKeepsForest ==
  ASSUME NEW g, Agree(g), OneParent(g), Acyclic(g), NEW parent, NEW id
  PROVE  OneParent(addNode(g, parent, id)) /\ Acyclic(addNode(g, parent, id))
<1> DEFINE new == addNode(g, parent, id)
<1>1. CASE parent \notin DOMAIN g \/ id \in DOMAIN g
  BY <1>1 DEF addNode
<1>2. CASE parent \in DOMAIN g /\ id \notin DOMAIN g
  <2>1. DOMAIN new = DOMAIN g \cup {id} /\ new[id].connectsTo = {}
    BY <1>2 DEF addNode, Node
  <2>2. new[parent].connectsTo = g[parent].connectsTo \cup {id}
    BY <1>2, NodeFields DEF addNode
  <2>3. \A n \in DOMAIN g \ {parent} : new[n] = g[n]
    BY <1>2 DEF addNode
  <2>4. \A n \in DOMAIN g : id \notin g[n].connectsTo
    BY <1>2 DEF Agree
  <2> HIDE DEF new
  <2>5. \A n, m \in DOMAIN new : m \in new[n].connectsTo =>
          \/ n = parent /\ m = id
          \/ n \in DOMAIN g /\ m \in DOMAIN g /\ m \in g[n].connectsTo
    BY <2>1, <2>2, <2>3, <2>4
  <2>6. OneParent(new)
    BY <1>2, <2>5 DEF OneParent
  <2>7. Acyclic(new)
    <3> SUFFICES ASSUME NEW S \in (SUBSET DOMAIN new) \ {{}}
                 PROVE  \E n \in S : \A m \in S : m \notin new[n].connectsTo
      BY DEF Acyclic
    <3>1. CASE id \in S
      BY <2>1, <3>1
    <3>2. CASE id \notin S
      <4>1. S \in (SUBSET DOMAIN g) \ {{}}
        BY <2>1, <3>2
      <4>2. PICK n \in S : \A m \in S : m \notin g[n].connectsTo
        BY <4>1 DEF Acyclic
      <4> QED
        BY <2>1, <2>5, <3>2, <4>2
    <3> QED
      BY <3>1, <3>2
  <2> QED
    BY <2>6, <2>7 DEF new
<1> QED
  BY <1>1, <1>2

\* What is left of a forest without one of its nodes is one.
LEMMA RemoveKeepsForest ==
  ASSUME NEW g, OneParent(g), Acyclic(g), NEW id
  PROVE  OneParent(removeNode(g, id)) /\ Acyclic(removeNode(g, id))
<1> DEFINE new == removeNode(g, id)
<1>1. DOMAIN new = DOMAIN g \ {id}
  BY DEF removeNode
<1>2. \A n \in DOMAIN new : new[n].connectsTo = g[n].connectsTo \ {id}
  BY NodeFields DEF removeNode
<1> HIDE DEF new
<1>3. OneParent(new)
  BY <1>1, <1>2 DEF OneParent
<1>4. Acyclic(new)
  <2> SUFFICES ASSUME NEW S \in (SUBSET DOMAIN new) \ {{}}
               PROVE  \E n \in S : \A m \in S : m \notin new[n].connectsTo
    BY DEF Acyclic
  <2>1. PICK n \in S : \A m \in S : m \notin g[n].connectsTo
    BY <1>1 DEF Acyclic
  <2> QED
    BY <1>1, <1>2, <2>1
<1> QED
  BY <1>3, <1>4 DEF new

\* The next id is a number that no node has: counting starts behind the number of the
\* nodes, so it meets a free one before it has counted them all once more.
LEMMA NextIdIsFree ==
  ASSUME NEW g, IsFiniteSet(DOMAIN g), DOMAIN g \subseteq Nat
  PROVE  NextNodeId(g) \in Nat \ DOMAIN g
<1> DEFINE first == Cardinality(DOMAIN g) + 1
           Free == {id \in first..(2 * first) : id \notin DOMAIN g}
<1>1. Cardinality(DOMAIN g) \in Nat
  BY FS_CardinalityType
<1>2. first \in Nat /\ first <= 2 * first
  BY <1>1
<1>3. Free # {}
  <2> SUFFICES ASSUME Free = {} PROVE FALSE
    OBVIOUS
  <2>1. first..(2 * first) \in SUBSET DOMAIN g
    OBVIOUS
  <2>2. Cardinality(first..(2 * first)) = first + 1
    <3>1. first \in Int /\ 2 * first \in Int
      BY <1>2
    <3>2. Cardinality(first..(2 * first)) =
            IF first > 2 * first THEN 0 ELSE 2 * first - first + 1
      BY <3>1, FS_Interval
    <3> QED
      BY <1>2, <3>2
  <2>3. Cardinality(first..(2 * first)) <= Cardinality(DOMAIN g)
    BY <2>1, FS_Subset
  <2> QED
    BY <1>1, <2>2, <2>3
<1>4. PICK id \in Free : \A other \in Free : id <= other
  <2>1. Free \in SUBSET Nat
    BY <1>2
  <2> QED
    BY <1>3, <2>1, LeastNumber
<1>5. \A earlier \in first..(id - 1) : earlier \in DOMAIN g
  <2> SUFFICES ASSUME NEW earlier \in first..(id - 1), earlier \notin DOMAIN g
               PROVE  FALSE
    OBVIOUS
  <2>1. id \in first..(2 * first)
    OBVIOUS
  <2>2. earlier \in Free /\ earlier < id
    BY <1>2, <2>1
  <2> QED
    BY <1>2, <1>4, <2>2
<1>6. \E x \in first..(2 * first) :
        x \notin DOMAIN g /\ \A earlier \in first..(x - 1) : earlier \in DOMAIN g
  BY <1>5
<1>7. NextNodeId(g) \in first..(2 * first) /\ NextNodeId(g) \notin DOMAIN g
  BY <1>6 DEF NextNodeId
<1> QED
  BY <1>2, <1>7

-----------------------------------------------------------------------------
(***************************************************************************)
(* The editor.                                                             *)
(***************************************************************************)

\* What every state of the editor satisfies.
GraphInv ==
  /\ IsFiniteSet(DOMAIN nodes) /\ DOMAIN nodes \subseteq Nat
  /\ selected \in DOMAIN nodes \cup {NoSelection}
  /\ IsGraph(nodes) /\ Agree(nodes)
  /\ OneParent(nodes) /\ Acyclic(nodes)

\* The graph the page begins with.
LEMMA GraphInitInv ==
  ASSUME GraphInit
  PROVE  GraphInv
<1>1. DOMAIN nodes = 0..2
  BY DEF GraphInit
<1>2. \A n \in 0..2 : nodes[n] = IF n = 0 THEN Node({1, 2}, {}) ELSE Node({}, {0})
  BY DEF GraphInit, Manager
<1>3. \A n \in 0..2 : /\ nodes[n].connectsTo = IF n = 0 THEN {1, 2} ELSE {}
                      /\ nodes[n].connectedFrom = IF n = 0 THEN {} ELSE {0}
  BY <1>2, NodeFields
<1>4. IsGraph(nodes)
  <2>1. nodes = [n \in DOMAIN nodes |-> nodes[n]]
    BY DEF GraphInit
  <2>2. \A n \in DOMAIN nodes : nodes[n] = Node(nodes[n].connectsTo, nodes[n].connectedFrom)
    BY <1>1, <1>2, <1>3
  <2>3. QED
    BY <2>1, <2>2 DEF IsGraph
<1>5. Agree(nodes)
  BY <1>1, <1>3 DEF Agree
<1>6. OneParent(nodes)
  BY <1>1, <1>3 DEF OneParent
<1>7. Acyclic(nodes)
  <2> SUFFICES ASSUME NEW S \in (SUBSET DOMAIN nodes) \ {{}}
               PROVE  \E n \in S : \A m \in S : m \notin nodes[n].connectsTo
    BY DEF Acyclic
  <2>1. CASE S \cap {1, 2} # {}
    <3>1. PICK n \in S : n \in {1, 2}
      BY <2>1
    <3> QED
      BY <1>3, <3>1
  <2>2. CASE S \cap {1, 2} = {}
    <3>1. S = {0}
      BY <1>1, <2>2
    <3> QED
      BY <1>3, <3>1
  <2> QED
    BY <2>1, <2>2
<1>8. IsFiniteSet(DOMAIN nodes) /\ DOMAIN nodes \subseteq Nat /\ selected = NoSelection
  <2>1. IsFiniteSet(0..2)
    <3>1. 0 \in Int /\ 2 \in Int
      OBVIOUS
    <3> QED
      BY <3>1, FS_Interval
  <2> QED
    BY <1>1, <2>1 DEF GraphInit
<1> QED
  BY <1>4, <1>5, <1>6, <1>7, <1>8 DEF GraphInv

\* Whatever the user does, the graph is what one of the helpers made of it.
LEMMA GraphStepInv ==
  ASSUME GraphInv, [GraphNext]_graphVars
  PROVE  GraphInv'
<1> USE DEF GraphInv
<1>1. CASE UNCHANGED nodes /\ selected' \in DOMAIN nodes \cup {NoSelection}
  BY <1>1
<1>2. CASE AddNode
  <2> DEFINE id == NextNodeId(nodes)
             new == addNode(nodes, selected, id)
  <2>1. nodes' = new /\ selected' = selected
    BY <1>2 DEF AddNode
  <2>2. id \in Nat \ DOMAIN nodes
    BY NextIdIsFree
  <2>3. IsGraph(new) /\ Agree(new)
    BY AddKeepsAgreement
  <2>4. OneParent(new) /\ Acyclic(new)
    BY AddKeepsForest
  <2>5. DOMAIN new = DOMAIN nodes \/ DOMAIN new = DOMAIN nodes \cup {id}
    BY DEF addNode
  <2> HIDE DEF new, id
  <2>6. IsFiniteSet(DOMAIN new) /\ DOMAIN new \subseteq Nat
    BY <2>2, <2>5, FS_AddElement
  <2> QED
    BY <2>1, <2>3, <2>4, <2>5, <2>6
<1>3. CASE RemoveNode
  <2> DEFINE new == removeNode(nodes, selected)
  <2>1. nodes' = new /\ selected' = NoSelection
    BY <1>3 DEF RemoveNode
  <2>2. IsGraph(new) /\ Agree(new)
    BY RemoveKeepsAgreement
  <2>3. OneParent(new) /\ Acyclic(new)
    BY RemoveKeepsForest
  <2>4. DOMAIN new = DOMAIN nodes \ {selected}
    BY DEF removeNode
  <2> HIDE DEF new
  <2>5. IsFiniteSet(DOMAIN new) /\ DOMAIN new \subseteq Nat
    BY <2>4, FS_RemoveElement
  <2> QED
    BY <2>1, <2>2, <2>3, <2>5
<1> QED
  BY <1>1, <1>2, <1>3 DEF GraphNext, SelectNode, DeselectNode, graphVars

\* What the invariant means for the lines that are drawn.
LEMMA GraphInvMeans == GraphInv => GraphTypeOK /\ EdgesAgree /\ Forest
<1> SUFFICES ASSUME GraphInv PROVE GraphTypeOK /\ EdgesAgree /\ Forest
  OBVIOUS
<1>1. GraphTypeOK
  <2>1. \A n \in DOMAIN nodes :
          nodes[n].connectsTo \in SUBSET Nat /\ nodes[n].connectedFrom \in SUBSET Nat
    BY DEF GraphInv, Agree
  <2>2. \A n \in DOMAIN nodes : Node(nodes[n].connectsTo, nodes[n].connectedFrom)
                                 \in [connectsTo : SUBSET Nat, connectedFrom : SUBSET Nat]
    BY <2>1 DEF Node
  <2>3. nodes \in [DOMAIN nodes -> [connectsTo : SUBSET Nat, connectedFrom : SUBSET Nat]]
    <3>1. nodes = [n \in DOMAIN nodes |-> Node(nodes[n].connectsTo, nodes[n].connectedFrom)]
      BY DEF GraphInv, IsGraph
    <3> QED
      BY <2>2, <3>1
  <2> QED
    BY <2>3 DEF GraphInv, GraphTypeOK
<1>2. Forest
  <2>1. ASSUME NEW n \in DOMAIN nodes
        PROVE  Cardinality({line \in Lines(nodes) : line[2] = n}) <= 1
    <3> DEFINE S == {line \in Lines(nodes) : line[2] = n}
    <3>1. ASSUME NEW x \in S, NEW y \in S PROVE x = y
      <4>1. PICK p \in DOMAIN nodes, q \in DOMAIN nodes :
              x = <<p, n>> /\ y = <<q, n>>
              /\ n \in nodes[p].connectsTo /\ n \in nodes[q].connectsTo
        BY DEF Lines
      <4> QED
        BY <4>1 DEF GraphInv, OneParent
    <3> HIDE DEF S
    <3>2. Cardinality(S) <= 1
      BY <3>1, AtMostOne
    <3> QED
      BY <3>2 DEF S
  <2>2. ASSUME NEW S \in (SUBSET DOMAIN nodes) \ {{}}
        PROVE  \E n \in S : \A m \in S : <<n, m>> \notin Lines(nodes)
    <3>1. PICK n \in S : \A m \in S : m \notin nodes[n].connectsTo
      BY DEF GraphInv, Acyclic
    <3>2. \A m \in S : <<n, m>> \notin Lines(nodes)
      BY <3>1 DEF Lines
    <3> QED
      BY <3>2
  <2> QED
    BY <2>1, <2>2 DEF Forest
<1> QED
  BY <1>1, <1>2 DEF GraphInv, EdgesAgree

-----------------------------------------------------------------------------
(***************************************************************************)
(* The backend panel.                                                      *)
(***************************************************************************)

\* The strengthening: what the buttons, the spinner and the messages are set to together.
PanelInv ==
  /\ BackendTypeOK
  /\ panel.health = "checking" /\ panel.interval => \E k \in Checks : checks[k] # "idle"
  /\ panel.health = "error" => panel.healthError # Fine
  /\ panel.loading <=> analysis # "idle"
  /\ panel.loading => panel.error = Fine /\ ~panel.result
  /\ ~(panel.error # Fine /\ panel.result)

LEMMA BackendInitInv == BackendInit => PanelInv
BY DEF BackendInit, PanelInv, BackendTypeOK, CallStates, BackendOutcomes, HealthState, Fine

\* What a health check and its answer do to the panel.
LEMMA CheckKeepsPanel ==
  ASSUME PanelInv, NEW k \in Checks,
         checkHealth(k) \/ DecideCheck(k) \/ CheckSucceeds(k) \/ CheckFails(k)
  PROVE  PanelInv'
<1> USE DEF PanelInv, BackendTypeOK, CallStates, BackendOutcomes, HealthState, Fine
<1>1. CASE checkHealth(k)
  BY <1>1 DEF checkHealth
<1>2. CASE DecideCheck(k)
  BY <1>2 DEF DecideCheck
<1>3. CASE CheckSucceeds(k)
  BY <1>3 DEF CheckSucceeds
<1>4. CASE CheckFails(k)
  BY <1>4 DEF CheckFails, Decided
<1> QED
  BY <1>1, <1>2, <1>3, <1>4

\* What the sample analysis and the clicks do.
LEMMA AnalysisKeepsPanel ==
  ASSUME PanelInv,
         \/ Toggle \/ DecideAnalysis \/ AnalysisEnds \/ runAnalysis \/ ToggleOpen \/ ChooseTab
  PROVE  PanelInv'
<1> USE DEF PanelInv, BackendTypeOK, CallStates, BackendOutcomes, HealthState, Fine
<1>1. CASE Toggle
  BY <1>1 DEF Toggle
<1>2. CASE DecideAnalysis
  BY <1>2 DEF DecideAnalysis
<1>3. CASE AnalysisEnds
  BY <1>3 DEF AnalysisEnds, Decided
<1>4. CASE runAnalysis
  BY <1>4 DEF runAnalysis
<1>5. CASE ToggleOpen
  BY <1>5 DEF ToggleOpen
<1>6. CASE ChooseTab
  BY <1>6 DEF ChooseTab
<1> QED
  BY <1>1, <1>2, <1>3, <1>4, <1>5, <1>6

LEMMA BackendStepInv ==
  ASSUME PanelInv, [BackendNext]_backendVars
  PROVE  PanelInv'
<1>1. CASE BackendNext
  BY <1>1, CheckKeepsPanel, AnalysisKeepsPanel
     DEF BackendNext, AnalysisProceeds, MountPanel, Tick, Retry, Settles
<1>2. CASE UNCHANGED backendVars
  BY <1>2 DEF backendVars, PanelInv, BackendTypeOK
<1> QED
  BY <1>1, <1>2

\* Of the spinner, the error and the results there is at most one.
LEMMA PanelInvMeans == PanelInv => PanelTellsTheTruth
<1> SUFFICES ASSUME PanelInv PROVE PanelTellsTheTruth
  OBVIOUS
<1> DEFINE S == {x \in {"spinner", "error", "results"} :
                   CASE x = "spinner" -> AnalysisTab.spinner
                     [] x = "error" -> AnalysisTab.error # Fine
                     [] x = "results" -> AnalysisTab.results}
<1>1. /\ AnalysisTab.spinner = panel.loading /\ AnalysisTab.error = panel.error
      /\ AnalysisTab.results = panel.result
  BY DEF AnalysisTab
<1>2. \A x, y \in S : x = y
  BY <1>1 DEF PanelInv, BackendTypeOK
<1> HIDE DEF S
<1>3. Cardinality(S) <= 1
  BY <1>2, AtMostOne
<1> QED
  BY <1>1, <1>3 DEF S, PanelInv, BackendTypeOK, PanelTellsTheTruth, HealthTab

-----------------------------------------------------------------------------
LEMMA GraphInvariant == GraphSpec => []GraphInv
BY GraphInitInv, GraphStepInv, PTL DEF GraphSpec

LEMMA PanelInvariant == BackendSpec => []PanelInv
BY BackendInitInv, BackendStepInv, PTL DEF BackendSpec
-----------------------------------------------------------------------------
(***************************************************************************)
(* The carousel.                                                           *)
(***************************************************************************)

CarouselType ==
  /\ embla \in [slides : 1..MaxSlides, selected : 1..MaxSlides, loop : BOOLEAN]
  /\ embla.selected <= embla.slides
  /\ carousel \in [api : BOOLEAN, listening : BOOLEAN, canScrollPrev : BOOLEAN, canScrollNext : BOOLEAN]

CarouselInv == CarouselType /\ ButtonsTellTheTruth

\* The slide that Embla goes to is one of its slides.
LEMMA TargetIsSlide ==
  ASSUME CarouselType, NEW next \in BOOLEAN
  PROVE  Target(embla, next) \in 1..embla.slides
<1>1. /\ embla.slides \in Nat /\ embla.selected \in Nat /\ embla.selected >= 1
      /\ embla.selected <= embla.slides /\ embla.loop \in BOOLEAN
  BY CarouselAssumption DEF CarouselType
<1> QED
  BY <1>1 DEF Target

\* Whatever Embla emits, a component that listens has its two flags set by it.
LEMMA EmitStep ==
  ASSUME CarouselInv, NEW e, Emit(e),
         e \in [slides : 1..MaxSlides, selected : 1..MaxSlides, loop : BOOLEAN],
         e.selected <= e.slides
  PROVE  CarouselInv'
<1>1. CarouselType
  BY DEF CarouselInv
<1>2. CASE carousel.listening
  <2>1. embla' = e /\ carousel' = onSelect(e, carousel)
    BY <1>2 DEF Emit
  <2>2. CanScroll(e, FALSE) \in BOOLEAN /\ CanScroll(e, TRUE) \in BOOLEAN
    BY DEF CanScroll
  <2>3. /\ carousel' \in [api : BOOLEAN, listening : BOOLEAN, canScrollPrev : BOOLEAN, canScrollNext : BOOLEAN]
        /\ onSelect(e, carousel') = carousel'
    BY <1>1, <2>1, <2>2 DEF onSelect, CarouselType
  <2> QED
    BY <2>1, <2>3 DEF CarouselInv, CarouselType, ButtonsTellTheTruth
<1>3. CASE ~carousel.listening
  BY <1>1, <1>3 DEF Emit, CarouselInv, CarouselType, ButtonsTellTheTruth
<1> QED
  BY <1>2, <1>3

LEMMA ScrollStep ==
  ASSUME CarouselInv, NEW next \in BOOLEAN, Scroll(next)
  PROVE  CarouselInv'
<1> DEFINE e == [embla EXCEPT !.selected = Target(embla, next)]
<1>1. CarouselType /\ Target(embla, next) \in 1..embla.slides
  BY TargetIsSlide DEF CarouselInv
<1>2. /\ e \in [slides : 1..MaxSlides, selected : 1..MaxSlides, loop : BOOLEAN]
      /\ e.selected <= e.slides
  BY <1>1, CarouselAssumption DEF CarouselType
<1>3. Emit(e)
  BY DEF Scroll
<1> QED
  BY <1>2, <1>3, EmitStep

\* The carousel by itself.
LEMMA CarouselTellsTheTruth == CarouselSpec => []ButtonsTellTheTruth
<1>1. CarouselInit => CarouselInv
  BY CarouselAssumption DEF CarouselInit, CarouselInv, CarouselType, ButtonsTellTheTruth
<1>2. CarouselInv /\ [CarouselNext]_carouselVars => CarouselInv'
  <2> SUFFICES ASSUME CarouselInv, [CarouselNext]_carouselVars PROVE CarouselInv'
    OBVIOUS
  <2>1. CASE GetApi
    <3>1. onSelect(embla, carousel) = carousel => onSelect(embla', carousel') = carousel'
      BY <2>1 DEF GetApi, onSelect, CarouselInv, CarouselType
    <3> QED
      BY <2>1, <3>1 DEF GetApi, CarouselInv, CarouselType, ButtonsTellTheTruth
  <2>2. CASE Subscribe
    <3>1. CanScroll(embla, FALSE) \in BOOLEAN /\ CanScroll(embla, TRUE) \in BOOLEAN
      BY DEF CanScroll
    <3> QED
      BY <2>2, <3>1 DEF Subscribe, onSelect, CarouselInv, CarouselType, ButtonsTellTheTruth
  <2>3. CASE ReInit
    <3>1. PICK n \in 1..MaxSlides :
            Emit([embla EXCEPT !.slides = n, !.selected = IF embla.selected > n THEN n ELSE embla.selected])
      BY <2>3 DEF ReInit
    <3> DEFINE e == [embla EXCEPT !.slides = n, !.selected = IF embla.selected > n THEN n ELSE embla.selected]
    <3>2. /\ e \in [slides : 1..MaxSlides, selected : 1..MaxSlides, loop : BOOLEAN]
          /\ e.selected <= e.slides
      <4>1. /\ embla \in [slides : 1..MaxSlides, selected : 1..MaxSlides, loop : BOOLEAN]
            /\ embla.selected \in Nat /\ n \in Nat
        BY CarouselAssumption DEF CarouselInv, CarouselType
      <4>2. (IF embla.selected > n THEN n ELSE embla.selected) \in 1..MaxSlides
        BY <4>1
      <4>3. (IF embla.selected > n THEN n ELSE embla.selected) <= n
        BY <4>1
      <4> QED
        BY <4>1, <4>2, <4>3
    <3> HIDE DEF e
    <3>3. Emit(e)
      BY <3>1 DEF e
    <3> QED
      BY <3>2, <3>3, EmitStep
  <2>4. CASE KeyOrDrag \/ Previous \/ Next_
    BY <2>4, ScrollStep DEF KeyOrDrag, Previous, Next_
  <2>5. CASE UNCHANGED carouselVars
    BY <2>5 DEF carouselVars, CarouselInv, CarouselType, ButtonsTellTheTruth
  <2> QED
    BY <2>1, <2>2, <2>3, <2>4, <2>5 DEF CarouselNext
<1>3. CarouselInv => ButtonsTellTheTruth
  BY DEF CarouselInv
<1> QED
  BY <1>1, <1>2, <1>3, PTL DEF CarouselSpec
-----------------------------------------------------------------------------
(***************************************************************************)
(* The sidebar.                                                            *)
(***************************************************************************)

PropsType ==
  [collapsible : {"offcanvas", "icon", "none"}, open : BOOLEAN \cup {Undefined}, onOpenChange : BOOLEAN]
StateType ==
  [isMobile : BOOLEAN, open : BOOLEAN, openMobile : BOOLEAN, phase : {"rendered", "measured", "ready"}]

\* Once the first effects are over, the listener of the shortcut knows what is rendered.
SidebarInv ==
  /\ narrow \in BOOLEAN /\ given \in PropsType /\ sidebar \in StateType
  /\ sidebar.phase = "ready" => handler = Captured(given, sidebar)

LEMMA OpenIsBoolean ==
  ASSUME NEW props \in PropsType, NEW state \in StateType
  PROVE  IsOpen(props, state) \in BOOLEAN
BY DEF IsOpen, PropsType, StateType

\* After a render the listener knows what was rendered.
LEMMA RenderStep ==
  ASSUME NEW props \in PropsType, NEW state \in StateType, Render(props, state), narrow' \in BOOLEAN
  PROVE  SidebarInv'
<1>1. given' = props /\ sidebar' = state /\ handler' = Captured(props, state)
  BY DEF Render
<1>2. Captured(given, sidebar)' = Captured(given', sidebar')
  BY DEF Captured, IsOpen
<1> QED
  BY <1>1, <1>2 DEF SidebarInv

LEMMA SetOpenStep ==
  ASSUME SidebarInv, NEW value \in BOOLEAN, setOpen(value)
  PROVE  SidebarInv'
<1>1. /\ [given EXCEPT !.open = IF given.open = Undefined THEN Undefined ELSE value] \in PropsType
      /\ [sidebar EXCEPT !.phase = "ready"] \in StateType
      /\ [sidebar EXCEPT !.open = value, !.phase = "ready"] \in StateType
      /\ given \in PropsType /\ narrow \in BOOLEAN
  BY DEF SidebarInv, PropsType, StateType
<1>2. narrow' = narrow
  BY DEF setOpen
<1>3. CASE given.onOpenChange
  BY <1>1, <1>2, <1>3, RenderStep DEF setOpen
<1>4. CASE ~given.onOpenChange
  BY <1>1, <1>2, <1>4, RenderStep DEF setOpen
<1> QED
  BY <1>3, <1>4

LEMMA SetOpenMobileStep ==
  ASSUME SidebarInv, NEW value \in BOOLEAN, setOpenMobile(value)
  PROVE  SidebarInv'
<1>1. [sidebar EXCEPT !.openMobile = value, !.phase = "ready"] \in StateType
  BY DEF SidebarInv, StateType
<1> QED
  BY <1>1, RenderStep DEF SidebarInv, setOpenMobile

LEMMA ToggleStep ==
  ASSUME SidebarInv, NEW known, toggleSidebar(known)
  PROVE  SidebarInv'
<1>1. (~known.open) \in BOOLEAN /\ (~sidebar.openMobile) \in BOOLEAN
  OBVIOUS
<1> QED
  BY <1>1, SetOpenStep, SetOpenMobileStep DEF toggleSidebar

LEMMA SidebarKeepsInv ==
  ASSUME SidebarInv, [SidebarNext]_sidebarVars
  PROVE  SidebarInv'
<1>1. narrow \in BOOLEAN /\ given \in PropsType /\ sidebar \in StateType
  BY DEF SidebarInv
<1>2. CASE Measure
  BY <1>1, <1>2 DEF Measure, SidebarInv, StateType
<1>3. CASE SecondRender
  <2>1. [sidebar EXCEPT !.phase = "ready"] \in StateType
    BY <1>1 DEF StateType
  <2> QED
    BY <1>1, <1>3, <2>1, RenderStep DEF SecondRender
<1>4. CASE Click \/ Shortcut
  BY <1>4, ToggleStep DEF Click, Shortcut
<1>5. CASE CloseSheet
  BY <1>5, SetOpenMobileStep DEF CloseSheet
<1>6. CASE Resize
  BY <1>1, <1>6 DEF Resize, SidebarInv, Captured, IsOpen
<1>7. CASE MediaChange
  <2>1. [sidebar EXCEPT !.isMobile = narrow, !.phase = "ready"] \in StateType
    BY <1>1 DEF StateType
  <2> QED
    BY <1>1, <1>7, <2>1, RenderStep DEF MediaChange
<1>8. CASE UNCHANGED sidebarVars
  BY <1>8 DEF sidebarVars, SidebarInv, Captured, IsOpen
<1> QED
  BY <1>2, <1>3, <1>4, <1>5, <1>6, <1>7, <1>8 DEF SidebarNext

\* What a toggle by what is rendered changes.
LEMMA ToggleShows ==
  ASSUME SidebarInv, Wired, given.collapsible # "none", NEW known,
         known.isMobile = sidebar.isMobile, known.open = open, toggleSidebar(known)
  PROVE  /\ Shown' # Shown
         /\ cookie' = IF sidebar.isMobile THEN cookie ELSE open'
         /\ Shown' = "icons" => ~TooltipHidden'
<1>1. given \in PropsType /\ sidebar \in StateType /\ open \in BOOLEAN
  BY OpenIsBoolean DEF SidebarInv, open
<1>2. open' = IsOpen(given', sidebar')
  BY DEF open, IsOpen
<1>3. CASE sidebar.isMobile
  <2>1. /\ given' = given /\ cookie' = cookie
        /\ sidebar' = [sidebar EXCEPT !.openMobile = ~sidebar.openMobile, !.phase = "ready"]
    BY <1>3 DEF toggleSidebar, setOpenMobile, Render
  <2>2. sidebar'.isMobile /\ sidebar'.openMobile = ~sidebar.openMobile
    BY <1>1, <1>3, <2>1 DEF StateType
  <2> QED
    BY <1>1, <1>3, <2>1, <2>2 DEF Shown, TooltipHidden, StateType
<1>4. CASE ~sidebar.isMobile
  <2>1. setOpen(~open) /\ cookie' = ~open
    BY <1>4 DEF toggleSidebar, setOpen
  <2>2. /\ given'.collapsible = given.collapsible /\ ~sidebar'.isMobile
        /\ open' = ~open
    <3>1. CASE given.onOpenChange
      <4>1. /\ given' = [given EXCEPT !.open = IF given.open = Undefined THEN Undefined ELSE ~open]
            /\ sidebar' = [sidebar EXCEPT !.phase = "ready"]
        BY <2>1, <3>1 DEF setOpen, Render
      <4>2. given.open # Undefined /\ (~open) \in BOOLEAN
        BY <1>1, <3>1 DEF Wired
      <4>3. given'.open = ~open /\ given'.open # Undefined
        BY <1>1, <4>1, <4>2, SidebarAssumption DEF PropsType
      <4> QED
        BY <1>1, <1>2, <1>4, <4>1, <4>3 DEF IsOpen, PropsType, StateType
    <3>2. CASE ~given.onOpenChange
      <4>1. given' = given /\ sidebar' = [sidebar EXCEPT !.open = ~open, !.phase = "ready"]
        BY <2>1, <3>2 DEF setOpen, Render
      <4>2. given.open = Undefined
        BY <3>2 DEF Wired
      <4> QED
        BY <1>1, <1>2, <1>4, <4>1, <4>2 DEF IsOpen, PropsType, StateType
    <3> QED
      BY <3>1, <3>2
  <2>3. Shown' # Shown
    BY <1>1, <1>4, <2>2 DEF Shown
  <2>4. Shown' = "icons" => ~TooltipHidden'
    BY <2>2 DEF Shown, TooltipHidden
  <2> QED
    BY <1>4, <2>1, <2>2, <2>3, <2>4
<1> QED
  BY <1>3, <1>4

\* The sidebar by itself.
LEMMA SidebarToggles == SidebarSpec => TogglesWhatIsShown
<1>1. SidebarInit => SidebarInv
  BY DEF SidebarInit, SidebarInv, PropsType, StateType
<1>2. SidebarInv /\ [SidebarNext]_sidebarVars => SidebarInv'
  BY SidebarKeepsInv
<1>3. SidebarInv /\ [SidebarNext]_sidebarVars =>
        [sidebar.phase = "ready" /\ Wired /\ given.collapsible # "none" /\ (Click \/ Shortcut) =>
           /\ Shown' # Shown
           /\ cookie' = IF sidebar.isMobile THEN cookie ELSE open'
           /\ Shown' = "icons" => ~TooltipHidden']_sidebarVars
  <2> SUFFICES ASSUME SidebarInv, sidebar.phase = "ready", Wired, given.collapsible # "none",
                      Click \/ Shortcut
               PROVE  /\ Shown' # Shown
                      /\ cookie' = IF sidebar.isMobile THEN cookie ELSE open'
                      /\ Shown' = "icons" => ~TooltipHidden'
    OBVIOUS
  <2> DEFINE rendered == [isMobile |-> sidebar.isMobile, open |-> open]
  <2>1. handler = rendered
    BY DEF SidebarInv, Captured, open
  <2>2. toggleSidebar(rendered)
    BY <2>1 DEF Click, Shortcut
  <2>3. rendered.isMobile = sidebar.isMobile /\ rendered.open = open
    OBVIOUS
  <2> HIDE DEF rendered
  <2> QED
    BY <2>2, <2>3, ToggleShows
<1> QED
  BY <1>1, <1>2, <1>3, PTL DEF SidebarSpec, TogglesWhatIsShown
-----------------------------------------------------------------------------
(***************************************************************************)
(* The cards of the VFS panel.                                             *)
(***************************************************************************)

CardsType ==
  cards \in [listed : Listings \cup {Nothing}, expanded : SUBSET Agents, error : BOOLEAN, seeding : BOOLEAN]

\* A load opens no card, and closes those of agents that are gone.
LEMMA LoadsCloseOnly ==
  ASSUME CardsType, NEW c \in Loads(cards) \cup {cards}
  PROVE  /\ c \in [listed : Listings \cup {Nothing}, expanded : SUBSET Agents,
                   error : BOOLEAN, seeding : BOOLEAN]
         /\ c.expanded \subseteq cards.expanded
         /\ \A a \in cards.expanded \ c.expanded : a \notin Listed(c)
<1>1. CASE c = cards
  BY <1>1 DEF CardsType
<1>2. CASE c = Failed(cards)
  BY <1>2 DEF CardsType, Failed
<1>3. ASSUME NEW order \in Listings, c = Loaded(cards, order)
      PROVE  /\ c \in [listed : Listings \cup {Nothing}, expanded : SUBSET Agents,
                       error : BOOLEAN, seeding : BOOLEAN]
             /\ c.listed = order /\ c.expanded = cards.expanded \cap ToSet(order)
  <2> HIDE DEF Listings
  <2>1. cards.expanded \cap ToSet(order) \in SUBSET Agents
    BY DEF CardsType
  <2> QED
    BY <1>3, <2>1 DEF CardsType, Loaded
<1>4. CASE \E order \in Listings : c = Loaded(cards, order)
  BY <1>3, <1>4 DEF Listed
<1> QED
  BY <1>1, <1>2, <1>4 DEF Loads

\* The cards by themselves.
LEMMA CardsOpen == CardsSpec => CardsOpenByClick
<1> DEFINE Card == [listed : Listings \cup {Nothing}, expanded : SUBSET Agents,
                    error : BOOLEAN, seeding : BOOLEAN]
           ByClick == \A a \in Agents :
                        /\ a \in cards'.expanded \ cards.expanded => ToggleCard(a)
                        /\ a \in cards.expanded \ cards'.expanded => ToggleCard(a) \/ a \notin Listed(cards')
<1>1. CardsInit => CardsType
  BY DEF CardsInit, NoCards, CardsType
<1>2. ASSUME CardsType, CardsNext PROVE CardsType' /\ ByClick
  <2>1. CASE SetTab
    <3>1. cards' = NoCards
      BY <2>1 DEF SetTab
    <3> QED
      BY <3>1 DEF NoCards, CardsType, Listed
  <2>2. CASE LoadCards \/ HandleClear
    <3>1. cards' \in Loads(cards) \cup {cards}
      BY <2>2 DEF LoadCards, HandleClear
    <3> QED
      BY <1>2, <3>1, LoadsCloseOnly DEF CardsType
  <2>3. CASE SeedEnds
    <3>1. PICK c \in Loads(cards) \cup {cards} : cards' = [c EXCEPT !.seeding = FALSE]
      BY <2>3 DEF SeedEnds
    <3>2. c \in Card /\ c.expanded \subseteq cards.expanded
          /\ \A a \in cards.expanded \ c.expanded : a \notin Listed(c)
      BY <1>2, LoadsCloseOnly
    <3>3. cards' \in Card /\ cards'.expanded = c.expanded /\ cards'.listed = c.listed
      BY <3>1, <3>2
    <3> QED
      BY <3>2, <3>3 DEF CardsType, Listed
  <2>4. CASE HandleSeed
    BY <1>2, <2>4 DEF HandleSeed, CardsType
  <2>5. ASSUME NEW a \in Agents, ToggleCard(a) PROVE CardsType' /\ ByClick
    <3>1. cards' = [cards EXCEPT !.expanded =
                      IF a \in cards.expanded THEN cards.expanded \ {a} ELSE cards.expanded \cup {a}]
      BY <2>5 DEF ToggleCard
    <3>2. CardsType' /\ \A b \in Agents : b # a => (b \in cards'.expanded <=> b \in cards.expanded)
      BY <1>2, <3>1 DEF CardsType
    <3> QED
      BY <2>5, <3>2
  <2>6. CASE UNCHANGED cards
    BY <1>2, <2>6 DEF CardsType
  <2>7. LoadGraph \/ Deselect \/ CloseDetails \/ (\E a \in Agents : Select(a)) => UNCHANGED cards
    BY DEF LoadGraph, Deselect, CloseDetails, Select, OnTopology
  <2> QED
    BY <1>2, <2>1, <2>2, <2>3, <2>4, <2>5, <2>6, <2>7 DEF CardsNext
<1>3. CardsType /\ [CardsNext]_cardVars => CardsType' /\ [ByClick]_cardVars
  <2>1. CardsType /\ UNCHANGED cardVars => CardsType'
    BY DEF CardsType, cardVars
  <2> QED
    BY <1>2, <2>1
<1> QED
  BY <1>1, <1>3, PTL DEF CardsSpec, CardsOpenByClick
-----------------------------------------------------------------------------
(***************************************************************************)
(* The notifications.                                                      *)
(***************************************************************************)

ToastType == [id : 1..count, open : BOOLEAN, closes : BOOLEAN, dismissed : BOOLEAN]

\* No id beyond the last one is known to anybody.
ToastsInv ==
  /\ count \in Nat
  /\ memoryState \subseteq ToastType /\ toaster.shown \subseteq ToastType
  /\ toaster \in [mounted : BOOLEAN, listening : BOOLEAN, shown : {toaster.shown}]
  /\ toastTimeouts \subseteq 1..count
  /\ DismissedAreTimed

\* A change of the store, whose toasts the Toaster shows or not.
LEMMA DispatchStep ==
  ASSUME ToastsInv, NEW toasts, dispatch(toasts), count' \in Nat, count <= count',
         toasts \subseteq ToastType', toastTimeouts' \subseteq 1..count',
         \A t \in toasts : t.dismissed <=> t.id \in toastTimeouts'
  PROVE  ToastsInv'
<1>1. ToastType \subseteq ToastType'
  BY DEF ToastsInv, ToastType
<1>2. memoryState' = toasts /\ DismissedAreTimed'
  BY DEF dispatch, DismissedAreTimed
<1>3. /\ toaster'.shown \in {toasts, toaster.shown}
      /\ toaster' \in [mounted : BOOLEAN, listening : BOOLEAN, shown : {toaster'.shown}]
  <2>1. CASE toaster.listening
    BY <2>1 DEF dispatch, ToastsInv
  <2>2. CASE ~toaster.listening
    BY <2>2 DEF dispatch, ToastsInv
  <2> QED
    BY <2>1, <2>2
<1> QED
  BY <1>1, <1>2, <1>3 DEF ToastsInv

\* Whoever closes toasts knows their ids.
LEMMA DismissStep ==
  ASSUME ToastsInv, NEW ids \in SUBSET (1..count), Dismiss(ids)
  PROVE  ToastsInv'
<1>1. count' = count /\ toastTimeouts' = toastTimeouts \cup ids /\ dispatch(Closed(ids))
  BY DEF Dismiss
<1>2. ToastType' = ToastType
  BY <1>1 DEF ToastType
<1>3. ASSUME NEW u \in Closed(ids)
      PROVE  u \in ToastType /\ (u.dismissed <=> u.id \in toastTimeouts')
  <2>1. PICK t \in memoryState :
          u = IF t.id \in ids THEN [t EXCEPT !.open = FALSE, !.dismissed = TRUE] ELSE t
    BY DEF Closed
  <2>2. t \in ToastType /\ (t.dismissed <=> t.id \in toastTimeouts)
    BY DEF ToastsInv, DismissedAreTimed
  <2>3. u \in ToastType /\ u.id = t.id /\ (u.dismissed <=> t.dismissed \/ t.id \in ids)
    <3>1. CASE t.id \in ids
      <4>1. u = [id |-> t.id, open |-> FALSE, closes |-> t.closes, dismissed |-> TRUE]
        BY <2>1, <2>2, <3>1 DEF ToastType
      <4> QED
        BY <2>2, <3>1, <4>1 DEF ToastType
    <3>2. CASE t.id \notin ids
      BY <2>1, <2>2, <3>2
    <3> QED
      BY <3>1, <3>2
  <2> QED
    BY <1>1, <2>2, <2>3
<1>4. toastTimeouts' \subseteq 1..count' /\ count' \in Nat /\ count <= count'
  BY <1>1 DEF ToastsInv
<1>5. Closed(ids) \subseteq ToastType'
  BY <1>2, <1>3
<1> QED
  BY <1>1, <1>3, <1>4, <1>5, DispatchStep

LEMMA ToastsKeepInv ==
  ASSUME ToastsInv, [ToastsNext]_toastVars
  PROVE  ToastsInv'
<1>0. /\ count \in Nat /\ memoryState \subseteq ToastType /\ toaster.shown \subseteq ToastType
      /\ toastTimeouts \subseteq 1..count
      /\ \A t \in memoryState : t.dismissed <=> t.id \in toastTimeouts
  BY DEF ToastsInv, DismissedAreTimed
<1>1. CASE toast
  <2> DEFINE new == [id |-> genId, open |-> TRUE, closes |-> TRUE, dismissed |-> FALSE]
             kept == Newest(memoryState \cup {new})
  <2>1. count' = count + 1 /\ toastTimeouts' = toastTimeouts /\ dispatch(kept)
    BY <1>1 DEF toast, genId
  <2>2. ToastType \subseteq ToastType' /\ new \in ToastType' /\ new.id = count + 1 /\ ~new.dismissed
    <3>1. ToastType' = [id : 1..(count + 1), open : BOOLEAN, closes : BOOLEAN,
                        dismissed : BOOLEAN]
      BY <2>1 DEF ToastType
    <3>2. 1..count \subseteq 1..(count + 1) /\ count + 1 \in 1..(count + 1)
      BY <1>0
    <3>3. new = [id |-> count + 1, open |-> TRUE, closes |-> TRUE, dismissed |-> FALSE]
      BY DEF genId
    <3> QED
      BY <3>1, <3>2, <3>3 DEF ToastType
  <2> HIDE DEF new
  <2>3. kept \subseteq memoryState \cup {new}
    BY DEF Newest
  <2> HIDE DEF kept
  <2>4. new.id \notin toastTimeouts
    <3>1. count + 1 \notin 1..count
      BY <1>0
    <3> QED
      BY <1>0, <2>2, <3>1
  <2>5. \A t \in kept : t.dismissed <=> t.id \in toastTimeouts'
    BY <1>0, <2>1, <2>2, <2>3, <2>4
  <2>6. kept \subseteq ToastType'
    BY <1>0, <2>2, <2>3
  <2>7. count' \in Nat /\ count <= count' /\ toastTimeouts' \subseteq 1..count'
    <3>1. count + 1 \in Nat /\ count <= count + 1 /\ 1..count \subseteq 1..(count + 1)
      BY <1>0
    <3> QED
      BY <1>0, <2>1, <3>1
  <2> QED
    BY <2>1, <2>5, <2>6, <2>7, DispatchStep
<1>2. ASSUME NEW i \in Ids, update(i) PROVE ToastsInv'
  <2>1. PICK opened \in BOOLEAN, closing \in BOOLEAN :
          dispatch(Updated(i, opened, closing)) /\ UNCHANGED <<count, toastTimeouts>>
    BY <1>2 DEF update
  <2>2. ToastType' = ToastType
    BY <2>1 DEF ToastType
  <2>3. ASSUME NEW u \in Updated(i, opened, closing)
        PROVE  u \in ToastType /\ (u.dismissed <=> u.id \in toastTimeouts)
    <3>1. PICK t \in memoryState :
            u = IF t.id = i THEN [t EXCEPT !.open = opened, !.closes = closing] ELSE t
      BY DEF Updated
    <3>2. t \in ToastType /\ (t.dismissed <=> t.id \in toastTimeouts)
      BY <1>0
    <3>3. CASE t.id = i
      <4>1. u = [id |-> t.id, open |-> opened, closes |-> closing, dismissed |-> t.dismissed]
        BY <3>1, <3>2, <3>3 DEF ToastType
      <4> QED
        BY <3>2, <4>1 DEF ToastType
    <3>4. CASE t.id # i
      BY <3>1, <3>2, <3>4
    <3> QED
      BY <3>3, <3>4
  <2>4. Updated(i, opened, closing) \subseteq ToastType'
    BY <2>2, <2>3
  <2>5. count' \in Nat /\ count <= count' /\ toastTimeouts' \subseteq 1..count'
    BY <1>0, <2>1
  <2>6. \A u \in Updated(i, opened, closing) : u.dismissed <=> u.id \in toastTimeouts'
    BY <2>1, <2>3
  <2> QED
    BY <2>1, <2>4, <2>5, <2>6, DispatchStep
<1>3. CASE dismissAll
  <2>1. {t.id : t \in memoryState} \in SUBSET (1..count)
    BY <1>0 DEF ToastType
  <2> QED
    BY <1>3, <2>1, DismissStep DEF dismissAll
<1>4. ASSUME NEW i \in Ids, dismiss(i) PROVE ToastsInv'
  <2>1. {i} \in SUBSET (1..count)
    BY <1>0, <1>4, ToastAssumption DEF dismiss, Ids
  <2> QED
    BY <1>4, <2>1, DismissStep DEF dismiss
<1>5. ASSUME NEW i \in Ids, Close(i) PROVE ToastsInv'
  <2>1. {i} \in SUBSET (1..count)
    BY <1>0, <1>5 DEF Close, Open, ToastType
  <2> QED
    BY <1>5, <2>1, DismissStep DEF Close
<1>6. ASSUME NEW i \in Ids, Expire(i) PROVE ToastsInv'
  <2> DEFINE left == {t \in memoryState : t.id # i}
  <2>1. count' = count /\ toastTimeouts' = toastTimeouts \ {i} /\ dispatch(left)
    BY <1>6 DEF Expire
  <2>2. ToastType' = ToastType
    BY <2>1 DEF ToastType
  <2>3. left \subseteq ToastType' /\ \A t \in left : t.dismissed <=> t.id \in toastTimeouts'
    BY <1>0, <2>1, <2>2
  <2> HIDE DEF left
  <2>4. count' \in Nat /\ count <= count' /\ toastTimeouts' \subseteq 1..count'
    <3>1. count \in Nat /\ count' = count
      BY <1>0, <2>1
    <3>2. toastTimeouts' \subseteq 1..count
      BY <1>0, <2>1
    <3> QED
      BY ONLY <3>1, <3>2
  <2> QED
    BY <2>1, <2>3, <2>4, DispatchStep
<1>7. CASE MountToaster \/ Listen \/ UnmountToaster \/ UNCHANGED toastVars
  <2>1. UNCHANGED <<memoryState, count, toastTimeouts>>
    BY <1>7 DEF MountToaster, Listen, UnmountToaster, toastVars
  <2>2. ToastType' = ToastType /\ DismissedAreTimed'
    BY <2>1 DEF ToastType, ToastsInv, DismissedAreTimed
  <2>3. toaster \in [mounted : BOOLEAN, listening : BOOLEAN, shown : {toaster.shown}]
    BY DEF ToastsInv
  <2>4. /\ toaster'.shown \in {{}, memoryState, toaster.shown}
        /\ toaster' \in [mounted : BOOLEAN, listening : BOOLEAN, shown : {toaster'.shown}]
    <3>1. CASE MountToaster
      BY ONLY <3>1 DEF MountToaster
    <3>2. CASE Listen
      BY ONLY <2>3, <3>2 DEF Listen
    <3>3. CASE UnmountToaster
      BY ONLY <3>3 DEF UnmountToaster
    <3>4. CASE UNCHANGED toastVars
      BY ONLY <2>3, <3>4 DEF toastVars
    <3> QED
      BY <1>7, <3>1, <3>2, <3>3, <3>4
  <2> QED
    BY <1>0, <2>1, <2>2, <2>4 DEF ToastsInv
<1> QED
  BY <1>1, <1>2, <1>3, <1>4, <1>5, <1>6, <1>7 DEF ToastsNext

\* The notifications by themselves.
LEMMA ToastsAreTimed == ToastsSpec => []DismissedAreTimed
<1>1. ToastsInit => ToastsInv
  BY DEF ToastsInit, ToastsInv, DismissedAreTimed
<1>2. ToastsInv /\ [ToastsNext]_toastVars => ToastsInv'
  BY ToastsKeepInv
<1>3. ToastsInv => DismissedAreTimed
  BY DEF ToastsInv
<1> QED
  BY <1>1, <1>2, <1>3, PTL DEF ToastsSpec
-----------------------------------------------------------------------------
(***************************************************************************)
(* The pages.                                                              *)
(***************************************************************************)

\* A behaviour of all is a behaviour of each: a step of another one changes nothing of it.
LEMMA PartsAlone ==
  Spec => /\ GraphSpec /\ BackendSpec /\ CarouselSpec /\ SidebarSpec /\ CardsSpec
          /\ ToastsSpec
<1>1. Init => /\ GraphInit /\ BackendInit /\ CarouselInit /\ SidebarInit /\ CardsInit
                /\ ToastsInit
  BY DEF Init
<1>2. [Next]_vars => /\ [GraphNext]_graphVars /\ [BackendNext]_backendVars
                     /\ [CarouselNext]_carouselVars /\ [SidebarNext]_sidebarVars
                     /\ [CardsNext]_cardVars /\ [ToastsNext]_toastVars
  BY DEF Next, vars, kitVars, testVars, SiteStep, CardStep, ToastStep, SidebarStep,
         CarouselStep, EditorStep, BackendStep
<1> QED
  BY <1>1, <1>2, PTL
     DEF Spec, GraphSpec, BackendSpec, CarouselSpec, SidebarSpec, CardsSpec, ToastsSpec

\* Nodes have the shape of nodes and the selection is one of them, whatever was removed.
THEOREM GraphTypes == Spec => []GraphTypeOK
BY GraphInvMeans, GraphInvariant, PartsAlone, PTL

\* The edges of the editor agree at both ends in every reachable graph, for every bound
\* on its size.
THEOREM EdgesAlwaysAgree == Spec => []EdgesAgree
BY GraphInvMeans, GraphInvariant, PartsAlone, PTL

\* However often ids are given again, no node has two parents and no lines run in a circle.
THEOREM GraphIsForest == Spec => []Forest
BY GraphInvMeans, GraphInvariant, PartsAlone, PTL

\* Whatever order the answers of overlapping checks come in, a pulsing dot means a check
\* under way, a red one has its reason, and a spinner stands for one analysis that runs.
THEOREM PanelIsTruthful == Spec => []PanelTellsTheTruth
BY PanelInvMeans, PanelInvariant, PartsAlone, PTL

\* carousel.tsx: for any number of slides, however they come and go, whatever is dragged
\* before the component listens, a button is enabled exactly when Embla can go there.
THEOREM ButtonsAreTruthful == Spec => []ButtonsTellTheTruth
BY CarouselTellsTheTruth, PartsAlone, PTL

\* sidebar.tsx "Helper to toggle the sidebar": whenever the window is resized, for every kind
\* of sidebar and whoever holds its state, trigger, rail and shortcut change what is shown,
\* and the cookie holds what was chosen.
THEOREM TogglesChangeTheScreen == Spec => TogglesWhatIsShown
BY SidebarToggles, PartsAlone, PTL

\* vfs-panel.tsx: a card opens only by a click on it, and closes only by a click or because
\* its agent has gone, whatever is loaded in whichever order.
THEOREM CardsAreOpenedByClicks == Spec => CardsOpenByClick
BY CardsOpen, PartsAlone, PTL

\* use-toast.ts: whatever is shown, closed, updated and replaced, and whatever the Toaster has
\* missed, the toasts of the store that have a timeout are those that have been dismissed.
THEOREM DismissedToastsAreTimed == Spec => []DismissedAreTimed
BY ToastsAreTimed, PartsAlone, PTL
=============================================================================
