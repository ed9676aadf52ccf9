-------------------------------- MODULE Layout --------------------------------
(***************************************************************************)
(* ComputeLayout of ui/layout/layout.go over the nodes of a tree, which    *)
(* UITree builds: rows and columns are one case, told apart by their main  *)
(* axis.  A rectangle is an origin and a size on each axis, in parts of a  *)
(* pixel small enough that the sizes of an instance divide evenly.         *)
(***************************************************************************)
EXTENDS Integers, Sequences, SequencesExt, FiniteSetsExt

CONSTANT Pixel  \* parts in a pixel

ASSUME PixelAssumption == Pixel \in Nat

Axes == {"across", "down"}

Cross(axis) == IF axis = "down" THEN "across" ELSE "down"

Rect(across, down, width, height) ==
  [at   |-> [across |-> across, down |-> down],
   size |-> [across |-> width, down |-> height]]

NoRect == Rect(0, 0, 0, 0)

AtLeast(low, n) == IF n < low THEN low ELSE n

\* The number or the string a prop is, or what stands for one that is not there
\* (GetFloatProp): a record with an n or an s.
Prop(node, key, default) == IF key \in DOMAIN node.props THEN node.props[key].n ELSE default

Word(node, key, default) == IF key \in DOMAIN node.props THEN node.props[key].s ELSE default

------------------------------------------------------------------------------
(* Margins and paddings: each side is a prop of its own, "margin top", and  *)
(* "margin vertical" stands before both of its sides.                       *)

Before(axis) == IF axis = "down" THEN "top" ELSE "left"
After(axis)  == IF axis = "down" THEN "bottom" ELSE "right"
Both(axis)   == IF axis = "down" THEN "vertical" ELSE "horizontal"

Inset(node, kind, side, both) ==
  Prop(node, kind \o " " \o both, Prop(node, kind \o " " \o side, 0))

\* A rectangle without the insets of a node of the given kind.
Within(rect, node, kind) ==
  LET Lead(axis)  == Inset(node, kind, Before(axis), Both(axis))
      Trail(axis) == Inset(node, kind, After(axis), Both(axis))
  IN  [at   |-> [axis \in Axes |-> rect.at[axis] + Lead(axis)],
       size |-> [axis \in Axes |-> AtLeast(0, rect.size[axis] - (Lead(axis) + Trail(axis)))]]

------------------------------------------------------------------------------
(* Measuring                                                               *)

FontSize(node) == Prop(node, "fontSize", 14 * Pixel)

\* Six tenths of the font size for each character of "text" (its length here),
\* at most what is available and then at least twenty pixels.
TextWidth(node, available) ==
  LET wide == (Prop(node, "text", 0) * FontSize(node) * 6) \div 10 IN
  IF wide > available /\ available > 0 THEN available ELSE AtLeast(20 * Pixel, wide)

Fixed ==
  [type \in {"Button", "TextInput", "Divider", "Spacer"} |->
     CASE type = "Button"    -> 40 * Pixel
       [] type = "TextInput" -> 44 * Pixel
       [] type = "Divider"   -> Pixel
       [] type = "Spacer"    -> 0]

MeasureWidth(node, available) ==
  CASE Prop(node, "width", 0) > 0 -> Prop(node, "width", 0)
    [] Prop(node, "width", 0) <= 0 /\ node.type = "Text" -> TextWidth(node, available)
    [] Prop(node, "width", 0) <= 0 /\ node.type # "Text" -> available

MeasureHeight(node, available) ==
  CASE Prop(node, "height", 0) > 0 -> Prop(node, "height", 0)
    [] Prop(node, "height", 0) <= 0 /\ node.type = "Text" -> (FontSize(node) * 14) \div 10
    [] Prop(node, "height", 0) <= 0 /\ node.type # "Text" ->
         IF node.type \in DOMAIN Fixed THEN Fixed[node.type] ELSE available

Measure(node, axis, available) ==
  IF axis = "down" THEN MeasureHeight(node, available) ELSE MeasureWidth(node, available)

\* What a child takes of the space the fixed ones leave; a Spacer takes a share.
Grow(node) ==
  LET grow == Prop(node, "flexGrow", 0) IN
  IF node.type = "Spacer" /\ grow = 0 THEN 1 ELSE grow

------------------------------------------------------------------------------
(* Rows and columns                                                        *)

Main(node) == IF node.type = "Row" THEN "across" ELSE "down"

Flexes(node) == node.type \in {"Row", "Column"}

\* What a loop that adds up numbers has after each.
Sums(f) ==
  LET sum[n \in 0..Len(f)] == IF n = 0 THEN 0 ELSE sum[n - 1] + f[n] IN sum

Total(f) == Sums(f)[Len(f)]

Children(nodes, id) == [i \in DOMAIN nodes[id].children |-> nodes[nodes[id].children[i]]]

TotalGrow(children) == Total([i \in DOMAIN children |-> AtLeast(0, Grow(children[i]))])

\* The main axis the children without a share take up.
FixedMain(children, axis, content) ==
  Total([i \in DOMAIN children |->
           IF Grow(children[i]) > 0 THEN 0
           ELSE Measure(children[i], axis, content.size[axis])])

Spacing(node) == Prop(node, "spacing", 0)

\* Slip: the spacing between the children forgotten.
RemainingUnspaced(node, children, content) ==
  AtLeast(0, content.size[Main(node)] - FixedMain(children, Main(node), content))

Remaining(node, children, content) ==
  AtLeast(0, content.size[Main(node)]
               - (FixedMain(children, Main(node), content)
                    + AtLeast(0, Spacing(node) * (Len(children) - 1))))

MainSize(node, child, children, content) ==
  IF Grow(child) > 0
  THEN (Grow(child) * Remaining(node, children, content)) \div TotalGrow(children)
  ELSE Measure(child, Main(node), content.size[Main(node)])

\* Where the first child starts and what is left between two, by justifyContent;
\* "space-evenly" is read and then treated as the start is, like any other word.
Justified(node, children, content) ==
  LET left    == Remaining(node, children, content)
      n       == Len(children)
      justify == Word(node, "justifyContent", "flex-start")
      Gaps(lead, between) == [lead |-> lead, gap |-> Spacing(node) + between]
  IN  IF TotalGrow(children) # 0 THEN Gaps(0, 0)
      ELSE CASE justify = "center"                      -> Gaps(left \div 2, 0)
             [] justify = "flex-end"                    -> Gaps(left, 0)
             [] justify = "space-between" /\ n > 1      -> Gaps(0, left \div (n - 1))
             [] justify = "space-around"                -> Gaps((left \div n) \div 2, left \div n)
             [] OTHER                                    -> Gaps(0, 0)

\* The origin and the size of a child on the cross axis.
Aligned(node, child, content) ==
  LET axis  == Cross(Main(node))
      room  == content.size[axis]
      size  == Measure(child, axis, room)
      align == Word(node, "alignItems", "flex-start")
      Span(offset, extent) == [at |-> content.at[axis] + offset, size |-> extent]
  IN  CASE align = "center"     -> Span((room - size) \div 2, size)
        [] align = "flex-end"   -> Span(room - size, size)
        [] align = "stretch"    -> Span(0, room)
        [] OTHER                -> Span(0, size)

\* The rectangles of the children, one after the other along the main axis.
Flexed(node, children, content) ==
  LET main == Main(node)
      gaps == Justified(node, children, content)
      extent == [i \in DOMAIN children |-> MainSize(node, children[i], children, content)]
      start == [i \in DOMAIN children |->
                  content.at[main] + gaps.lead + Sums(extent)[i - 1] + gaps.gap * (i - 1)]
      Box(i) == LET span == Aligned(node, children[i], content) IN
        [at   |-> [axis \in Axes |-> IF axis = main THEN start[i] ELSE span.at],
         size |-> [axis \in Axes |-> IF axis = main THEN extent[i] ELSE span.size]]
  IN  [i \in DOMAIN children |-> Box(i)]

------------------------------------------------------------------------------
(* LayoutNode, called for the root with the screen, calls itself for each   *)
(* node with the room it has: its box, in a row or a column, and otherwise  *)
(* what the margins of the node around it leave.  A row or a column is      *)
(* given no bounds by itself: its own come from the row or column it is in. *)

Rects == [at : [Axes -> Int], size : [Axes -> Int]]

\* Where a node is: the nodes it is in, each with its place among the children.
Spots(nodes, id) ==
  UNION {{<<around, i>> : i \in {j \in DOMAIN nodes[around].children :
                                   nodes[around].children[j] = id}} : around \in DOMAIN nodes}

Content(node, room) == Within(Within(room, node, "margin"), node, "padding")

\* The room of the i-th child of a node.
RoomIn(nodes, id, i, room) ==
  IF Flexes(nodes[id])
  THEN Flexed(nodes[id], Children(nodes, id), Content(nodes[id], room))[i]
  ELSE Within(room, nodes[id], "margin")

\* The rooms LayoutNode is called with for each node, none for one not below the
\* root.
LayoutNode(nodes, root, screen) ==
  LET rooms[id \in DOMAIN nodes] ==
        IF id = root THEN {screen}
        ELSE UNION {{RoomIn(nodes, at[1], at[2], room) : room \in rooms[at[1]]} :
                      at \in Spots(nodes, id)}
  IN  rooms

Given(nodes, root, id) ==
  ~Flexes(nodes[id]) \/ id = root \/ \E at \in Spots(nodes, id) : Flexes(nodes[at[1]])

\* The bounds of every node; one that is given none keeps what it had.
ComputeLayout(nodes, root, width, height) ==
  LET rooms == LayoutNode(nodes, root, Rect(0, 0, width, height))
      Bounds(id) ==
        LET room == CHOOSE r \in rooms[id] : TRUE IN
        IF Flexes(nodes[id]) THEN room ELSE Within(room, nodes[id], "margin")
  IN  [id \in DOMAIN nodes |->
         IF rooms[id] # {} /\ Given(nodes, root, id)
         THEN [nodes[id] EXCEPT !.bounds = Bounds(id)]
         ELSE nodes[id]]

==============================================================================
