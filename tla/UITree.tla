-------------------------------- MODULE UITree --------------------------------
(***************************************************************************)
(* The tree of ui/engine/tree.go as a value: its root (0 for none), the    *)
(* stack of the nodes that are open, and its nodes in the order they were  *)
(* made, each known by its number, which its id holds.                     *)
(***************************************************************************)
EXTENDS Layout

------------------------------------------------------------------------------
(* The calls a program makes                                               *)

Node(type) ==
  [type |-> type, props |-> <<>>, children |-> <<>>, bounds |-> NoRect, events |-> {}]

NewUITree == [root |-> 0, stack |-> <<>>, nodes |-> <<>>]

\* A node begun when none is open is in the tree only if it is the first.
BeginNode(t, type) ==
  LET id == Len(t.nodes) + 1
      nodes == Append(t.nodes, Node(type))
  IN  [root  |-> IF t.stack = <<>> /\ t.root = 0 THEN id ELSE t.root,
       stack |-> Append(t.stack, id),
       nodes |-> IF t.stack = <<>> THEN nodes
                 ELSE [nodes EXCEPT ![Last(t.stack)].children = Append(@, id)]]

SetProp(t, key, value) ==
  IF t.stack = <<>> THEN t
  ELSE [t EXCEPT !.nodes[Last(t.stack)].props =
          [k \in DOMAIN @ \cup {key} |-> IF k = key THEN value ELSE @[k]]]

SetEvent(t, name) ==
  IF t.stack = <<>> THEN t
  ELSE [t EXCEPT !.nodes[Last(t.stack)].events = @ \cup {name}]

EndNode(t) == IF t.stack = <<>> THEN t ELSE [t EXCEPT !.stack = Front(@)]

Made(t, call) ==
  CASE call.op = "begin" -> BeginNode(t, call.arg)
    [] call.op = "prop"  -> SetProp(t, call.arg, call.value)
    [] call.op = "event" -> SetEvent(t, call.arg)
    [] call.op = "end"   -> EndNode(t)

------------------------------------------------------------------------------
(* Touches and drawing                                                     *)

Covers(rect, p) ==
  \A axis \in Axes : rect.at[axis] <= p[axis] /\ p[axis] <= rect.at[axis] + rect.size[axis]

\* Slip: the children asked first to last.
HitForward(nodes, p, among) ==
  LET hit[id \in DOMAIN nodes] ==
        LET hits  == [i \in DOMAIN nodes[id].children |-> hit[nodes[id].children[i]]]
            found == {i \in DOMAIN hits : hits[i] # 0}
        IN  IF found # {} THEN hits[Min(found)]
            ELSE IF Covers(nodes[id].bounds, p) /\ id \in among THEN id ELSE 0
  IN  hit

\* For each node, what a touch of it and of what is below it finds: its children
\* are asked last to first and then the node itself, for one of those in "among"
\* that covers the point; 0 when there is none.
Hit(nodes, p, among) ==
  LET hit[id \in DOMAIN nodes] ==
        LET hits  == [i \in DOMAIN nodes[id].children |-> hit[nodes[id].children[i]]]
            found == {i \in DOMAIN hits : hits[i] # 0}
        IN  IF found # {} THEN hits[Max(found)]
            ELSE IF Covers(nodes[id].bounds, p) /\ id \in among THEN id ELSE 0
  IN  hit

HitTest(t, p) == IF t.root = 0 THEN 0 ELSE Hit(t.nodes, p, DOMAIN t.nodes)[t.root]

Clickable(t) == {id \in DOMAIN t.nodes : "onClick" \in t.nodes[id].events}

\* The node whose handler DispatchTouch runs; TriggerEvent refuses without one.
DispatchTouch(t, p) == IF t.root = 0 THEN 0 ELSE Hit(t.nodes, p, Clickable(t))[t.root]

\* For each node, the order the renderer draws it in: the node, and then its
\* children over it.
TraverseNode(nodes) ==
  LET drawn[id \in DOMAIN nodes] ==
        <<id>> \o FlattenSeq([i \in DOMAIN nodes[id].children |-> drawn[nodes[id].children[i]]])
  IN  drawn

==============================================================================
