--------------------------------- MODULE MCUI ---------------------------------
(* Instances of Host, Signal, Reconciler and Frame for TLC.  They share no  *)
(* variable, so each runs alone: the first state says which.                *)
EXTENDS Host, Signal, Reconciler, Frame

CONSTANTS t1, t2, t3, p1, p2, l1, l2, ui

VARIABLE part

------------------------------------------------------------------------------
(* Reconciler                                                              *)

On   == [text |-> "on"]
Off  == [text |-> "off"]
Bold == [text |-> "on", weight |-> "bold"]

\* A title over a row of up to two cells, with an icon in the last of them or
\* not.  Nodes have ids by their position; a list may stand in the row's place.
CellIds == <<"cell1", "cell2">>
Page(title, row, cells, icons) ==
  << >> :> WidgetNode("page", On, 2)
    @@ <<1>> :> WidgetNode("title", title, 0)
    @@ <<2>> :> WidgetNode(row, On, Len(cells))
    @@ [p \in {<<2, i>> : i \in 1..Len(cells)} |->
          WidgetNode(CellIds[p[2]], cells[p[2]], IF p[2] = Len(cells) THEN icons ELSE 0)]
    @@ [p \in {<<2, Len(cells), i>> : i \in 1..icons} |-> WidgetNode("icon" \o ToString(p[2]), Off, 0)]

MCTrees ==
  {NoTree, << >> :> WidgetNode("page", Off, 0)}
    \cup {Page(title, row, <<>>, 0) : title \in {On, Off, Bold}, row \in {"row", "list"}}
    \cup {Page(title, row, cells, icons) :
            title \in {On, Off, Bold}, row \in {"row", "list"},
            cells \in UNION {[1..n -> {On, Off}] : n \in 1..2}, icons \in 0..1}

------------------------------------------------------------------------------
(* Frame: the calls that make a node, and those inside it                  *)

MakeCall(op, arg, n, s) == <<[op |-> op, arg |-> arg, value |-> [n |-> n, s |-> s]]>>

With(key, n) == MakeCall("prop", key, n, "")
Says(key, s) == MakeCall("prop", key, 0, s)
Click        == MakeCall("event", "onClick", 0, "")

Widget(type, inside) == MakeCall("begin", type, 0, "") \o inside \o MakeCall("end", "", 0, "")

Px(n) == n * Pixel

Label  == Widget("Text", With("text", 4) \o With("fontSize", Px(10)) \o Click)
Wide   == Widget("Text", With("text", 90))
Ok     == Widget("Button", With("width", Px(60)) \o Click)
Rule   == Widget("Divider", With("margin horizontal", Px(2)) \o With("margin left", Px(9)) \o With("width", Px(30)))
Gap    == Widget("Spacer", With("width", Px(12)))
Filler == Widget("Card", With("flexGrow", 2) \o With("width", Px(60)) \o With("height", Px(60)) \o Click)
Pair   == Widget("Row", With("width", Px(120)) \o With("height", Px(60)) \o With("spacing", Px(6))
                          \o Label \o Ok)
Stack  == Widget("Card", Click \o Label \o Widget("Column", Click \o Ok))

Insides == {<<>>, Label, Ok \o Wide, Label \o Gap \o Ok, Gap \o Filler \o Label, Pair \o Rule \o Ok,
            Stack \o Filler, Rule \o Label \o Filler}

Styles ==
  {Says("justifyContent", j) \o Says("alignItems", a) \o With("spacing", Px(6)) :
     j \in {"center", "flex-end", "space-between", "space-around", "space-evenly"},
     a \in {"center", "flex-end", "stretch", "flex-start"}}
    \cup {With("padding top", Px(6)) \o With("padding vertical", Px(12)) \o With("padding right", Px(24)) \o Click}

\* A component around a row or column, the row or column alone, or one inside
\* another; and a node that is begun after the root has ended.
MCScripts ==
  {Widget(type, style \o inside) : type \in {"Row", "Column"}, style \in Styles, inside \in Insides}
    \cup {Widget("App", Widget("Column", style \o Pair \o Stack)) \o Ok : style \in Styles}

MCScreens == {<<Px(200), Px(200)>>, <<Px(100), Px(300)>>}

ASSUME NoneNegative

------------------------------------------------------------------------------

\* One program whose handlers are touched, one that fails half way.
MCPrograms == {<<"quiet", "builds">>, <<"quiet", "throw">>}

allVars == <<part, vars, signalVars, reconcilerVars, frameVars>>

\* The parts that do not run begin in one state.
MCInit ==
  /\ part \in {"host", "signal", "reconciler", "frame"}
  /\ Init
  /\ SignalInit
  /\ IF part = "reconciler" THEN ReconcilerInit
     ELSE currentTree = NoTree /\ target = <<>>
  /\ IF part = "frame" THEN FrameInit
     ELSE frame = NewUITree /\ calls = <<>> /\ screen = <<0, 0>>

HostPart == part = "host" /\ Next /\ UNCHANGED <<part, signalVars, reconcilerVars, frameVars>>
SignalPart == part = "signal" /\ SignalNext /\ UNCHANGED <<part, vars, reconcilerVars, frameVars>>
\* Of a target that is stale the properties say nothing.
ReconcilerPart ==
  /\ part = "reconciler" /\ target = Shown(currentTree)
  /\ ReconcilerNext /\ UNCHANGED <<part, vars, signalVars, frameVars>>
FramePart == part = "frame" /\ FrameNext /\ UNCHANGED <<part, vars, signalVars, reconcilerVars>>

MCNext == HostPart \/ SignalPart \/ ReconcilerPart \/ FramePart

MCSpec == MCInit /\ [][MCNext]_allVars /\ Fairness

==============================================================================
