-------------------------------- MODULE MCVM ---------------------------------
(* Programs for TLC: syntax trees as the parser builds them.               *)
EXTENDS VMCorrect

------------------------------------------------------------------------------
(* Trees                                                                   *)

I(n)            == [is |-> "int", n |-> n]
S(s)            == [is |-> "string", s |-> s]
Lit(k)          == [is |-> k]
V(x)            == [is |-> "ident", name |-> x]
Bin(l, op, r)   == [is |-> "binary", op |-> op, left |-> l, right |-> r]
Set(x, op, e)   == [is |-> "assign", op |-> op, left |-> V(x), right |-> e]
Member(o, name) == [is |-> "member", object |-> o, name |-> name]
At(o, i)        == [is |-> "index", object |-> o, index |-> i]
Apply(f, args)  == [is |-> "call", callee |-> f, args |-> args]
Send(o, m, as)  == Apply(Member(o, m), as)
List(es)        == [is |-> "array", elements |-> es]
Pair(x, e)      == [name |-> x, value |-> e]
Arrow(ps, b)    == [is |-> "arrow", params |-> ps, body |-> b]

Do(e)           == [is |-> "expr", expr |-> e]
Say(args)       == Do(Apply(V("print"), args))
Let(x, e)       == [is |-> "var", name |-> x, init |-> <<e>>]
Fn(f, ps, b)    == [is |-> "function", name |-> f, params |-> ps, body |-> b]
Give(e)         == [is |-> "return", value |-> <<e>>]
If(c, a, b)     == [is |-> "if", test |-> c, then |-> a, else |-> b]
Stop(k)         == [is |-> k]
Case(e, arms)   == [is |-> "match", subject |-> e, arms |-> arms]
Arm(p, b)       == [pattern |-> p, body |-> b]

\* x runs over 1, 2, 3.
Loop(kind, x, body) ==
  LET next == Do(Set(x, "+=", I(1))) IN
  CASE kind = "while" ->
         <<Let(x, I(0)), [is |-> "while", test |-> Bin(V(x), "<", I(3)),
                          body |-> <<next>> \o body]>>
    [] kind = "for" ->
         <<[is |-> "for", init |-> <<Let(x, I(1))>>, test |-> <<Bin(V(x), "<=", I(3))>>,
            update |-> <<Set(x, "+=", I(1))>>, body |-> body]>>
    [] kind = "forin" ->
         <<[is |-> "forin", name |-> x, iterable |-> List(<<I(1), I(2), I(3)>>),
            body |-> body]>>
    [] kind = "loop" ->
         <<Let(x, I(0)),
           [is |-> "loop", body |-> <<next, If(Bin(V(x), ">", I(3)), <<Stop("break")>>, <<>>)>>
                                      \o body]>>

Kinds == <<"while", "for", "forin", "loop">>

------------------------------------------------------------------------------
(* Loops in loops, in a function whose caller is in the middle of a sum    *)

Count == Do(Set("s", "+=", Bin(Bin(V("i"), "*", I(10)), "+", V("j"))))
At2(body) == If(Bin(V("j"), "==", I(2)), body, <<>>)

Bodies == <<
  <<Count>>,
  <<At2(<<Stop("break")>>), Count>>,
  <<At2(<<Stop("continue")>>), Count>>,
  <<Count, At2(<<Give(V("s"))>>)>>,
  <<If(Bin(V("j"), "==", V("i")), <<Stop("continue")>>, <<Count>>)>>,
  <<Case(V("j"), <<Arm(V("i"), <<Stop("continue")>>), Arm(I(3), <<Stop("break")>>)>>), Count>> >>

Sum(outer, inner, body) ==
  <<Fn("f", <<"n">>,
       <<Let("s", V("n"))>> \o Loop(outer, "i", Loop(inner, "j", body)) \o <<Give(V("s"))>>),
    Say(<<Bin(I(1000), "-", Apply(V("f"), <<I(5)>>))>>)>>

Nested ==
  [k \in 1..96 |-> Sum(Kinds[((k - 1) \div 24) + 1], Kinds[(((k - 1) \div 6) % 4) + 1],
                       Bodies[((k - 1) % 6) + 1])]

\* The same at the top level, printing.
Printed ==
  [k \in 1..24 |->
     Loop(Kinds[((k - 1) \div 6) + 1], "i",
       <<If(Bin(V("i"), "==", I(((k - 1) % 3) + 1)),
            <<Stop(IF (k - 1) % 6 < 3 THEN "break" ELSE "continue")>>, <<Say(<<V("i")>>)>>)>>)
     \o <<Say(<<S("end")>>)>>]

------------------------------------------------------------------------------
(* Operators, and the rest                                                 *)

Ops == <<"+", "-", "*", "/", "%", "==", "!=", "<", ">", "<=", ">=", "&&", "||">>

Calculations ==
  [k \in DOMAIN Ops |->
     <<Say([i \in 1..9 |-> Bin(I((i - 1) \div 3 - 1), Ops[k], I(2 * ((i - 1) % 3) - 1))])>>]

\* Expressions in expressions: a sum of three, with a call, an assignment, a
\* choice or an array among the operands, in a function and in its caller.
Leaves == <<
  I(7), Set("x", "=", I(3)), Set("x", "+=", I(1)), Apply(V("half"), <<V("x")>>),
  [is |-> "ternary", test |-> Bin(V("x"), ">", I(4)), then |-> V("x"), else |-> I(1)],
  At(List(<<V("x"), Apply(V("half"), <<I(6)>>)>>), I(1)) >>

Sums ==
  [k \in 1..216 |->
     LET a == Leaves[((k - 1) \div 36) + 1]
         b == Leaves[(((k - 1) \div 6) % 6) + 1]
         c == Leaves[((k - 1) % 6) + 1]
     IN  <<Fn("half", <<"n">>, <<Let("m", I(0)),
                 [is |-> "for", init |-> <<>>, test |-> <<Bin(V("n"), ">", I(1))>>,
                  update |-> <<Set("n", "-=", I(2))>>, body |-> <<Do(Set("m", "+=", I(1)))>>],
                 Give(V("m"))>>),
           Fn("f", <<"x">>, <<Give(Bin(a, "-", Bin(b, "*", c)))>>),
           Let("x", I(5)),
           Say(<<Bin(Bin(a, "-", b), "*", c), Bin(I(1), "+", Apply(V("f"), <<I(4)>>)), V("x")>>)>>]

Power ==
  <<Fn("power", <<"b", "e">>,
       <<If(Bin(V("e"), "==", I(0)), <<Give(I(1))>>, <<>>),
         Give(Bin(V("b"), "*", Apply(V("power"), <<V("b"), Bin(V("e"), "-", I(1))>>)))>>),
    Say(<<Bin(S("2^3 = "), "+", Send(Apply(V("power"), <<I(2), I(3)>>), "toString", <<>>))>>)>>

Objects ==
  <<Let("o", [is |-> "object", fields |-> <<Pair("a", I(1)), Pair("b", I(2))>>]),
    Do([is |-> "assign", op |-> "+=", left |-> Member(V("o"), "a"), right |-> I(5)]),
    Do(Send(V("o"), "set", <<S("c"), I(9)>>)),
    Do(Send(V("o"), "delete", <<S("b")>>)),
    Say(<<Member(V("o"), "a"), Send(V("o"), "get", <<S("c")>>), Send(V("o"), "size", <<>>),
          Send(V("o"), "has", <<S("b")>>), At(V("o"), S("a"))>>),
    [is |-> "class", name |-> "K"],
    Say(<<Member(V("K"), "__class__")>>)>>

Arrays ==
  <<Let("a", List(<<I(3), I(1), I(2)>>)),
    Say(<<Member(V("a"), "length"), At(V("a"), I(1)), At(V("a"), I(7)), V("a")>>),
    Say(<<Send(V("a"), "indexOf", <<I(2)>>), Send(V("a"), "includes", <<I(4)>>),
          Send(V("a"), "join", <<S("-")>>), Send(V("a"), "slice", <<I(1)>>)>>),
    Do(Send(V("a"), "reverse", <<>>)),
    Say(<<V("a"), Member(S("abc"), "length"), At(S("abc"), I(1))>>)>>

Values3 ==
  <<Let("double", Arrow(<<"x">>, <<Give(Bin(V("x"), "*", I(2)))>>)),
    Fn("one", <<>>, <<Give(I(1))>>),
    Fn("two", <<>>, <<Do(Set("g", "=", I(7))), [is |-> "return", value |-> <<>>]>>),
    Let("r", Apply(V("two"), <<>>)),
    Say(<<Apply(V("double"), <<I(4)>>), Send(V("one"), "call", <<>>), V("r"), V("g")>>),
    Say(<<[is |-> "ternary", test |-> Lit("false"), then |-> I(1), else |-> Lit("null")],
          [is |-> "not", operand |-> Lit("true")], [is |-> "neg", operand |-> I(4)],
          [is |-> "await", operand |-> I(3)]>>)>>

Errors ==
  <<Fn("bad", <<>>, <<[is |-> "throw", value |-> S("no")]>>),
    Do(Send(V("bad"), "call", <<>>)),
    [is |-> "try", try |-> <<Say(<<S("tried")>>)>>,
     catch |-> <<[name |-> "e", body |-> <<Say(<<V("e")>>)>>]>>, finally |-> <<Say(<<S("done")>>)>>],
    Do(Apply(V("bad"), <<>>)),
    Say(<<S("never")>>)>>

Tasks ==
  <<[is |-> "send", channel |-> Lit("null"), value |-> I(1)],
    Let("x", [is |-> "receive", channel |-> Lit("null")]),
    Fn("work", <<"n">>, <<Give(Bin(V("n"), "+", I(1)))>>),
    [is |-> "spawn", call |-> Apply(V("work"), <<I(1)>>)],
    [is |-> "block", body |-> <<Say(<<V("x")>>)>>],
    [is |-> "task", body |-> <<Say(<<S("task")>>)>>]>>

Family == Nested \o Printed \o Calculations \o Sums
            \o <<Power, Objects, Arrays, Values3, Errors, Tasks>>

Generated == [p \in DOMAIN Family |-> GenerateProgram(Family[p])]

------------------------------------------------------------------------------
(* The discipline of their functions                                       *)

\* The heights at which a function comes to its instructions, followed from
\* those in "todo".
RECURSIVE Heights(_, _, _)
Heights(code, height, todo) ==
  IF todo = {} THEN height
  ELSE LET ip   == CHOOSE i \in todo : TRUE
           ins  == code[ip + 1]
           next == Nexts(ip, ins) \ DOMAIN height
       IN  Heights(code, height @@ [i \in next |-> height[ip] - Pops(ins) + Pushes(ins)],
                   (todo \ {ip}) \cup next)

\* In all programs but one no function that is called, nor any task, touches the
\* operands of its caller.
ASSUME FamilyDisciplined ==
  \A p \in DOMAIN Family \ {Len(Family)} : \A f \in DOMAIN Generated[p] :
    LET code == Generated[p][f].code IN
    /\ \A i \in DOMAIN code : code[i].op # "SPAWN_TASK"
    /\ f > 1 => KeepsTo(code, Heights(code, 0 :> 0, {0}))

\* examples/calculator/main.nil: a function that reports an error by printing
\* it, and a caller that adds to what it returns.
Printing ==
  <<<<Fn("calc", <<"b">>,
         <<If(Bin(V("b"), "==", I(0)), <<Say(<<S("Error: division by zero!")>>)>>, <<>>),
           Give(I(5))>>),
      Say(<<Bin(I(1), "+", Apply(V("calc"), <<I(0)>>))>>)>>>>

==============================================================================
