------------------------------ MODULE MCPackages ------------------------------
EXTENDS Packages

CONSTANTS p1, p2

V(range, number) == [range |-> range, number |-> number]

UI == <<"ui">>
MyUI == <<"my", "ui">>
Quoted == <<"quote", "ui", "quote">>

MCNames == {UI, MyUI}

\* An empty one; one with sections before and after the dependencies, a blank
\* line in them and a name in quotes.
MCManifests ==
  {<<>>,
   <<Line(FALSE, <<"name">>, V("", "app")), Header, Entry(MyUI, V("~", "1")),
     Line(FALSE, <<>>, NoValue), Entry(Quoted, V("", "2")), Entry(UI, NoValue),
     Line(FALSE, <<"scripts">>, NoValue), Entry(<<"build">>, V("", "all"))>>}

MCVersions == {V("^", "1")}

MCLocks == {Locked(UI :> V("^", "9"))}

Symmetry == Permutations(Processes)

==============================================================================
