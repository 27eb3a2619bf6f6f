---------------------------- MODULE DashboardCards ----------------------------
(***************************************************************************)
(* What an operator has opened on the dashboard: the tab, the cards of the *)
(* VFS panel, which React keeps by the agent's id, the seeding of an empty *)
(* VFS, and the selected node of the topology panel.  How the panels come  *)
(* by what they show is the matter of Dashboard and Topology; here a load  *)
(* brings any agents in any order, as the server lists a Go map.           *)
(***************************************************************************)
EXTENDS Naturals, Sequences, FiniteSets, SequencesExt

CONSTANTS Agents, Nothing

VARIABLES
  tab,
  cards,  \* of the VFS panel: the agents listed (or Nothing), which are expanded, its flags
  graph   \* of the topology panel: the nodes drawn (or Nothing) and the selected one

cardVars == <<tab, cards, graph>>

Listings == {order \in SeqOf(Agents, Cardinality(Agents)) : IsInjective(order)}

NoCards == [listed |-> Nothing, expanded |-> {}, error |-> FALSE, seeding |-> FALSE]
NoGraph == [nodes |-> Nothing, selectedId |-> Nothing]

CardsInit == tab = "vfs" /\ cards = NoCards /\ graph = NoGraph

\* The panel of the other tab is mounted afresh.
SetTab ==
  /\ tab' = IF tab = "vfs" THEN "topology" ELSE "vfs"
  /\ cards' = NoCards
  /\ graph' = NoGraph
-----------------------------------------------------------------------------
OnVfs == tab = "vfs" /\ UNCHANGED <<tab, graph>>

Listed(c) == IF c.listed = Nothing THEN {} ELSE ToSet(c.listed)

\* Mutant of Loaded: the cards are kept by their place in the list.
LoadedByPlace(c, order) ==
  [c EXCEPT !.listed = order, !.error = FALSE,
            !.expanded = {order[i] : i \in {j \in DOMAIN order :
                            c.listed # Nothing /\ j \in DOMAIN c.listed /\ c.listed[j] \in @}}]

\* A card whose agent is listed again stays as it was; another one goes.
Loaded(c, order) ==
  [c EXCEPT !.listed = order, !.error = FALSE, !.expanded = @ \cap ToSet(order)]

Failed(c) == [c EXCEPT !.error = TRUE]

Loads(c) == {Loaded(c, order) : order \in Listings} \cup {Failed(c)}

LoadCards == OnVfs /\ cards' \in Loads(cards)

ToggleCard(a) ==
  /\ OnVfs /\ a \in Listed(cards)
  /\ cards' = [cards EXCEPT !.expanded = IF a \in @ THEN @ \ {a} ELSE @ \cup {a}]

IsEmpty == ~cards.error /\ cards.listed = <<>>

HandleSeed ==
  /\ OnVfs /\ cards.listed # Nothing /\ IsEmpty /\ ~cards.seeding
  /\ cards' = [cards EXCEPT !.seeding = TRUE]

\* The seeding fails, or a load follows, which may fail.
SeedEnds ==
  /\ OnVfs /\ cards.seeding
  /\ \E c \in Loads(cards) \cup {cards} : cards' = [c EXCEPT !.seeding = FALSE]

\* A failed clearing is ignored.
HandleClear == OnVfs /\ Listed(cards) # {} /\ cards' \in Loads(cards) \cup {cards}
-----------------------------------------------------------------------------
OnTopology == tab = "topology" /\ UNCHANGED <<tab, cards>>

\* The choice is not touched by what is loaded.
LoadGraph == OnTopology /\ \E S \in SUBSET Agents : graph' = [graph EXCEPT !.nodes = S]

Select(a) ==
  /\ OnTopology /\ graph.nodes # Nothing /\ a \in graph.nodes
  /\ graph' = [graph EXCEPT !.selectedId = a]

\* A click beside the nodes.
Deselect == OnTopology /\ graph' = [graph EXCEPT !.selectedId = Nothing]

\* The details show the selected node as the last load had it, if it did.
Details ==
  IF graph.nodes # Nothing /\ graph.selectedId \in graph.nodes THEN graph.selectedId ELSE Nothing

CloseDetails == Details # Nothing /\ Deselect

CardsNext ==
  \/ SetTab \/ LoadCards \/ HandleSeed \/ SeedEnds \/ HandleClear
  \/ LoadGraph \/ Deselect \/ CloseDetails
  \/ \E a \in Agents : ToggleCard(a) \/ Select(a)

CardsSpec == CardsInit /\ [][CardsNext]_cardVars
-----------------------------------------------------------------------------
\* vfs-panel.tsx: whatever arrives and in whichever order the server lists it, a card opens
\* only by a click on it, and closes only by a click or because its agent has gone; an
\* agent that comes back finds its card closed.
CardsOpenByClick ==
  [][\A a \in Agents :
       /\ a \in cards'.expanded \ cards.expanded => ToggleCard(a)
       /\ a \in cards.expanded \ cards'.expanded => ToggleCard(a) \/ a \notin Listed(cards')
    ]_cardVars
=============================================================================
