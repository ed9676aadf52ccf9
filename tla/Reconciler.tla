------------------------------ MODULE Reconciler ------------------------------
(***************************************************************************)
(* DiffAndPatch of ui/state/reconciler.go, and a render target that does   *)
(* to what is on the screen what the mutations it is handed say.           *)
(*                                                                         *)
(* A node is known by its position in the tree: the root by <<>>, the      *)
(* k-th child of the node at p by Append(p, k).  A tree is a function      *)
(* from positions to nodes, and NoTree is nil.                             *)
(***************************************************************************)
EXTENDS Naturals, FiniteSets, SequencesExt

WidgetNode(id, props, children) == [id |-> id, props |-> props, children |-> children]

NoTree == <<>>

Parent(tree, p) == IF p = <<>> THEN "" ELSE tree[Front(p)].id

\* The props of a node are a map.
IsMap(f) == f = [x \in DOMAIN f |-> f[x]]

\* The positions are those the nodes have children for.
IsTree(tree) ==
  /\ IsFiniteSet(DOMAIN tree)
  /\ tree # NoTree => <<>> \in DOMAIN tree
  /\ \A p \in DOMAIN tree :
       /\ p \in Seq(Nat) /\ tree[p].children \in Nat /\ IsMap(tree[p].props)
       /\ p # <<>> => /\ Front(p) \in DOMAIN tree
                      /\ p[Len(p)] \in 1..tree[Front(p)].children
       /\ \A k \in 1..tree[p].children : Append(p, k) \in DOMAIN tree

CONSTANT Trees  \* the trees the application builds

ASSUME TreesAssumption == \A tree \in Trees : IsTree(tree)

VARIABLES
  currentTree,  \* r.currentTree
  target        \* what the target shows: the parent and the props of each node

reconcilerVars == <<currentTree, target>>

------------------------------------------------------------------------------
(* The target                                                              *)

\* What shows a tree: its nodes by their ids.
Shown(tree) ==
  [id \in {tree[p].id : p \in DOMAIN tree} |->
     LET p == CHOOSE p \in DOMAIN tree : tree[p].id = id
     IN  [parent |-> Parent(tree, p), props |-> tree[p].props]]

\* A node goes with everything below it.
Gone(s, id) ==
  LET reach[k \in 0..Cardinality(DOMAIN s)] ==
        IF k = 0 THEN {id}
        ELSE LET above == reach[k - 1] IN above \cup {n \in DOMAIN s : s[n].parent \in above}
  IN  reach[Cardinality(DOMAIN s)]

\* f where it is defined, g elsewhere.
Over(f, g) == [x \in DOMAIN f \cup DOMAIN g |-> IF x \in DOMAIN f THEN f[x] ELSE g[x]]

Applied(s, m) ==
  CASE m.kind = "add" ->
         Over([n \in {m.id} |-> [parent |-> m.parent, props |-> m.props]], s)
    [] m.kind = "remove" ->
         [n \in DOMAIN s \ Gone(s, m.id) |-> s[n]]
    [] m.kind = "props" ->
         IF m.id \in DOMAIN s
         THEN [s EXCEPT ![m.id].props = Over(m.props, @)] ELSE s

\* What is shown after the first k mutations.
Patched(s, mutations) ==
  LET shown[k \in 0..Len(mutations)] ==
        IF k = 0 THEN s ELSE Applied(shown[k - 1], mutations[k])
  IN  shown

------------------------------------------------------------------------------
(* The diff                                                                *)

AddNode(parent, n) ==
  [kind |-> "add", id |-> n.id, parent |-> parent, props |-> n.props]

RemoveNode(n) ==
  [kind |-> "remove", id |-> n.id, parent |-> "", props |-> <<>>]

\* Slip: only new props reported.
ChangedNew(old, new) == DOMAIN new.props \ DOMAIN old.props

\* The props that are new or differ.
Changed(old, new) ==
  {k \in DOMAIN new.props :
     k \in DOMAIN old.props => old.props[k] # new.props[k]}

UpdateProps(old, new) ==
  IF Changed(old, new) = {} THEN <<>>
  ELSE <<[kind |-> "props", id |-> new.id, parent |-> "",
          props |-> [k \in Changed(old, new) |-> new.props[k]]]>>

Larger(m, n) == IF n > m THEN n ELSE m

\* Nodes are compared by position, whatever their ids, and nothing below a
\* node that is in one of the trees only.
DiffNodes(old, new) ==
  LET diff[p \in DOMAIN old \cup DOMAIN new] ==
        IF p \notin DOMAIN old THEN <<AddNode(Parent(new, p), new[p])>>
        ELSE IF p \notin DOMAIN new THEN <<RemoveNode(old[p])>>
        ELSE UpdateProps(old[p], new[p])
               \o FlattenSeq([k \in 1..Larger(old[p].children, new[p].children) |->
                                diff[Append(p, k)]])
  IN  IF old = NoTree /\ new = NoTree THEN <<>> ELSE diff[<<>>]

------------------------------------------------------------------------------

\* SetTree with the first tree, which the target has drawn.
ReconcilerInit ==
  /\ currentTree \in Trees
  /\ target = Shown(currentTree)

DiffAndPatch(new) ==
  LET mutations == DiffNodes(currentTree, new) IN
    /\ currentTree' = new
    /\ target' = Patched(target, mutations)[Len(mutations)]

ReconcilerNext == \E tree \in Trees : DiffAndPatch(tree)

ReconcilerSpec == ReconcilerInit /\ [][ReconcilerNext]_reconcilerVars

------------------------------------------------------------------------------
(* Properties                                                              *)

\* No id of the one tree is at another position of the other.
Apart(t, u) == \A p \in DOMAIN t, q \in DOMAIN u : t[p].id = u[q].id => p = q

Named(tree) == \A p \in DOMAIN tree : tree[p].id # ""

\* Within a tree and from one to the other no id is in two places.
StayInPlace(old, new) ==
  Named(old) /\ Named(new) /\ Apart(old, old) /\ Apart(new, new) /\ Apart(old, new)

SameIds(old, new) == \A p \in DOMAIN old \cap DOMAIN new : old[p].id = new[p].id

\* What diffNodes has a mutation for: a node in the place of another, a prop
\* that is dropped, and what is below a node that is added, it never reports.
Reported(old, new) ==
  /\ SameIds(old, new)
  /\ \A p \in DOMAIN old \cap DOMAIN new : DOMAIN old[p].props \subseteq DOMAIN new[p].props
  /\ \A p \in DOMAIN new \ DOMAIN old : new[p].children = 0

\* A patch of what shows the current tree, from any tree to any other.
PatchRight ==
  LET mutations == DiffNodes(currentTree, currentTree')
      shown     == Patched(target, mutations)
  IN  target = Shown(currentTree) /\ StayInPlace(currentTree, currentTree') =>
        /\ target' = Shown(currentTree') <=> Reported(currentTree, currentTree')
        /\ SameIds(currentTree, currentTree') =>
             \A k \in 1..Len(mutations) : shown[k] # shown[k - 1]

\* Where no node moves, a patch of a target that is current leaves it current
\* if the difference is one that diffNodes reports, whatever is added, removed
\* with all below it, and changed; if not, the screen is stale.  And while no
\* node is replaced the changes are minimal: each mutation changes what the ones
\* before it left to see (diffNodes, DiffAndPatch).
PatchesRight == [][PatchRight]_reconcilerVars

==============================================================================
