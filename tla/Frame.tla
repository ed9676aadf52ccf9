-------------------------------- MODULE Frame ---------------------------------
(***************************************************************************)
(* A program builds its tree with the calls of ui/engine/tree.go, and then *)
(* frames of it are laid out and drawn, each at the size of its window     *)
(* (RenderCurrentFrame of platform/onuron/adapter.go), and touched.        *)
(***************************************************************************)
EXTENDS UITree

BuildCalls ==
  [op : {"begin", "prop", "event", "end"}, arg : STRING, value : [n : Int, s : STRING]]

CONSTANTS
  Scripts,  \* the calls programs make to build a tree, and then the root
  Screens   \* the sizes a frame is rendered at

ASSUME FrameAssumption == Scripts \subseteq Seq(BuildCalls) /\ Screens \subseteq Nat \X Nat

\* Programs that set no number below zero.
NaturalCalls == {call \in BuildCalls : call.value.n \in Nat}

NoneNegative == Scripts \subseteq Seq(NaturalCalls)

VARIABLES
  frame,    \* the tree: its root (0 for none), the stack and the nodes
  calls,    \* the calls of the program still to be made
  screen    \* what the last frame was rendered at

frameVars == <<frame, calls, screen>>

------------------------------------------------------------------------------

FrameInit ==
  /\ frame = NewUITree
  /\ calls \in Scripts
  /\ screen = <<0, 0>>

\* The program makes its next call.
Build ==
  /\ calls # <<>>
  /\ frame' = Made(frame, Head(calls))
  /\ calls' = Tail(calls)
  /\ UNCHANGED screen

\* RenderCurrentFrame lays the tree out at the size of its window.
ComputeUILayout(size) ==
  /\ calls = <<>>
  /\ frame.root # 0
  /\ screen' = size
  /\ frame' = [frame EXCEPT !.nodes = ComputeLayout(@, frame.root, size[1], size[2])]
  /\ UNCHANGED calls

FrameNext == Build \/ \E size \in Screens : ComputeUILayout(size)

FrameSpec == FrameInit /\ [][FrameNext]_frameVars

------------------------------------------------------------------------------
(* Properties                                                              *)

Drawn == IF frame.root = 0 THEN <<>> ELSE TraverseNode(frame.nodes)[frame.root]

\* The last drawn of the nodes, of those in "among", that cover a point.
Topmost(p, among) ==
  LET drawn == Drawn
      covering == {i \in DOMAIN drawn :
                     drawn[i] \in among /\ Covers(frame.nodes[drawn[i]].bounds, p)}
  IN  IF covering = {} THEN 0 ELSE drawn[Max(covering)]

\* The corners and the middle of what is drawn.
Points ==
  UNION {LET r == frame.nodes[id].bounds IN
           {[across |-> r.at.across + a, down |-> r.at.down + d] :
              a \in {0, r.size.across \div 2, r.size.across},
              d \in {0, r.size.down \div 2, r.size.down}} : id \in Range(Drawn)}

\* Wherever it lands, a touch runs the handler of the node that was drawn last
\* of the clickable ones there, and a hit test finds the one drawn last of all:
\* tree.go goes through the children backwards (lines 129 and 157) while the
\* renderer goes through them forwards.
TouchTopmost ==
  \A p \in Points :
    /\ DispatchTouch(frame, p) = Topmost(p, Clickable(frame))
    /\ HitTest(frame, p) = Topmost(p, DOMAIN frame.nodes)

\* The rows and columns that were given bounds.
Boxed ==
  {id \in Range(Drawn) :
     /\ screen # <<0, 0>>
     /\ Flexes(frame.nodes[id])
     /\ frame.nodes[id].children # <<>>
     /\ \/ id = frame.root
        \/ \E parent \in Range(Drawn) :
             /\ Flexes(frame.nodes[parent])
             /\ id \in Range(frame.nodes[parent].children)}

Near(rect, axis) == rect.at[axis]
Far(rect, axis)   == rect.at[axis] + rect.size[axis]

\* Whether the bounds of a child are less than its box, which has room for its
\* margins as well.
Marginal(node) ==
  /\ ~Flexes(node)
  /\ \E axis \in Axes : \E side \in {Before(axis), After(axis)} :
       Inset(node, "margin", side, Both(axis)) # 0

\* Every part of the room left is in one of the shares.
SharesWhole(node, children, content) ==
  \A i \in DOMAIN children :
    Grow(children[i]) > 0 =>
      (Grow(children[i]) * Remaining(node, children, content)) % TotalGrow(children) = 0

\* There is room for what the node shares out, and for the margins inside it.
Roomy(id) ==
  LET node     == frame.nodes[id]
      children == Children(frame.nodes, id)
      content  == Content(node, node.bounds)
      main     == Main(node)
  IN  /\ FixedMain(children, main, content) + Spacing(node) * (Len(children) - 1)
           <= content.size[main]
      /\ \A i \in DOMAIN children :
           Measure(children[i], Cross(main), content.size[Cross(main)]) <= content.size[Cross(main)]
      /\ \A i \in DOMAIN children :
           Marginal(children[i]) => \A axis \in Axes : children[i].bounds.size[axis] > 0

\* Whatever is grown, justified and aligned, the children of a row or column
\* with room for them lie inside its padding, in order and at least its spacing
\* apart, and fill it when one of them grows, unless a margin is inside or a
\* share is rounded (layoutFlex, line 102).
ChildrenFit ==
  \A id \in Boxed :
    LET node     == frame.nodes[id]
        children == Children(frame.nodes, id)
        content  == Content(node, node.bounds)
        main     == Main(node)
        Bounds(i) == children[i].bounds
        n        == Len(children)
    IN  Roomy(id) =>
          /\ \A i \in 1..n, axis \in Axes :
               /\ Near(content, axis) <= Near(Bounds(i), axis)
               /\ Far(Bounds(i), axis) <= Far(content, axis)
          /\ \A i \in 1..(n - 1) :
               Far(Bounds(i), main) + Spacing(node) <= Near(Bounds(i + 1), main)
          /\ /\ TotalGrow(children) > 0 /\ SharesWhole(node, children, content)
             /\ \A i \in 1..n : ~Marginal(children[i])
             =>
               /\ Near(Bounds(1), main) = Near(content, main)
               /\ Far(Bounds(n), main) = Far(content, main)

==============================================================================
