------------------------------ MODULE Namespace ------------------------------
(***************************************************************************)
(* External: the address space of an OPC server, a tree of nodes, as the   *)
(* client sees it through browse names and item IDs. Every browser of the  *)
(* repository (inventory, native pages, compatibility browse) walks one.   *)
(***************************************************************************)
EXTENDS Naturals, FiniteSets, Sequences, SequencesExt

CONSTANTS
  Nodes, Root,
  Kids,          \* [Nodes -> Seq(Nodes)]
  Name,          \* browse name under the parent; cousins may share one
  Id,            \* item ID of every node but the root; leaves may share one
  Branches,      \* nodes listed as branches
  Items          \* nodes that are items (a node may be both)

KidsOf(n) == ToSet(Kids[n])

Parent(n) == CHOOSE p \in Nodes : n \in KidsOf(p)

\* The browse names from the root to a node, and the nodes on the way.
TrailTo[n \in Nodes] == IF n = Root THEN <<>> ELSE Append(TrailTo[Parent(n)], Name[n])

Above[n \in Nodes] == IF n = Root THEN {} ELSE Above[Parent(n)] \cup {Parent(n)}

ASSUME NamespaceAssumption ==
  /\ Root \in Branches \ Items
  /\ Branches \cup Items = Nodes
  /\ IsFiniteSet(Nodes)
  /\ Kids \in [Nodes -> Seq(Nodes)]
  /\ \A n \in Nodes : Root \notin KidsOf(n) /\ (KidsOf(n) # {} => n \in Branches)
  /\ \A m, n \in Nodes : m # n => KidsOf(m) \cap KidsOf(n) = {}
  /\ \A n \in Nodes : \A k, l \in KidsOf(n) : Name[k] = Name[l] => k = l
  /\ \A m, n \in Branches : Id[m] = Id[n] => m = n

\* Every node hangs below the root at some depth, so that the two recursions
\* above end: they are what their equations say.
ASSUME TreeAssumption ==
  /\ \A n \in Nodes \ {Root} : \E p \in Nodes : n \in KidsOf(p)
  /\ TrailTo \in [Nodes -> Seq({Name[n] : n \in Nodes})]
  /\ \A n \in Nodes :
       TrailTo[n] = IF n = Root THEN <<>> ELSE Append(TrailTo[Parent(n)], Name[n])
  /\ \A n \in Nodes :
       Above[n] = IF n = Root THEN {} ELSE Above[Parent(n)] \cup {Parent(n)}

\* The child of n that a browse name denotes (none or one).
ChildNamed(n, name) == {k \in KidsOf(n) : Name[k] = name}

\* The nodes a path of browse names leads to from n (none or one).
Walk(n, path) == {m \in Nodes : TrailTo[m] = TrailTo[n] \o path}

BranchWithId(id) == CHOOSE n \in Branches \ {Root} : Id[n] = id

ItemsBelow(n) == {i \in Items : n \in Above[i]}

\* BrowseOPCItemIDs at n: the names of its children in S, in some order.
NamesOf(n, S) == SetToSeq({Name[k] : k \in KidsOf(n) \cap S})

=============================================================================
