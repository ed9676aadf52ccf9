------------------------------- MODULE Meaning -------------------------------
(***************************************************************************)
(* What a NilLang program means, by its syntax tree: blocks have scopes of *)
(* their own, a call evaluates its function's body to the value returned,  *)
(* break and continue leave and go on with the innermost loop.  A machine  *)
(* m has the scopes (the globals first), the functions, the heap, the lines*)
(* printed, the last value and how the last statement ended.               *)
(***************************************************************************)
EXTENDS Codegen, Values, FiniteSetsExt

Then(m, F(_)) == IF m.ctl = "go" THEN F(m) ELSE m
Yield(m, v)   == [m EXCEPT !.v = v]
Fails(m)      == [m EXCEPT !.ctl = "throw"]

Visible(m, name) == {k \in DOMAIN m.scopes : name \in DOMAIN m.scopes[k]}
Lookup(m, name)  ==
  IF Visible(m, name) = {} THEN Nil ELSE m.scopes[Max(Visible(m, name))][name]

Bind(m, k, name, v) == [m EXCEPT !.scopes[k] = (name :> v) @@ @]
Declare(m, name, v) == Bind(m, Len(m.scopes), name, v)
\* A name declared nowhere is a global.
Assign(m, name, v)  == Bind(m, Max({1} \cup Visible(m, name)), name, v)

RECURSIVE Eval(_, _), Exec(_, _), Iterate(_, _, _, _), Repeat(_, _, _, _)

\* The values of expressions, from left to right.
EvalAll(m, es) ==
  FoldLeft(LAMBDA a, e : Then(a, LAMBDA b :
             LET c == Eval(b, e) IN [c EXCEPT !.vs = Append(b.vs, c.v)]),
           [m EXCEPT !.vs = <<>>], es)

ExecAll(m, body) == FoldLeft(LAMBDA a, s : Then(a, LAMBDA b : Exec(b, s)), m, body)

EnterBlock(m) == [m EXCEPT !.scopes = Append(@, <<>>)]
LeaveBlock(m) == [m EXCEPT !.scopes = Front(@)]

ExecBlock(m, body) == LeaveBlock(ExecAll(EnterBlock(m), body))

\* A function sees its parameters and the globals.
ScopeOf(fn, args) ==
  FoldLeft(LAMBDA sc, i : (fn.params[i] :> IF i \in DOMAIN args THEN args[i] ELSE Nil) @@ sc,
           <<>>, [i \in DOMAIN fn.params |-> i])

\* Its caller m goes on with the value returned where it ended.
Returned(m, end) ==
  [end EXCEPT !.scopes = <<end.scopes[1]>> \o Tail(m.scopes),
              !.v      = IF end.ctl = "return" THEN @ ELSE Nil,
              !.ctl    = IF @ = "throw" THEN @ ELSE "go"]

CallValue(m, f, args) ==
  IF f.kind # "func" THEN Fails(m) ELSE
  LET fn == m.functions[f.n]
  IN  Returned(m, ExecAll([m EXCEPT !.scopes = <<m.scopes[1], ScopeOf(fn, args)>>], fn.body))

\* What reading a field or calling a method gave.
Got(m, got) == [m EXCEPT !.heap = got.heap, !.v = got.value]

\* A method of a function value swallows its errors.
Swallowed(m) == IF m.ctl = "go" THEN m ELSE [m EXCEPT !.ctl = "go", !.v = Nil]

EvalBinary(m, e) ==
  Then(Eval(m, e.left), LAMBDA l :
    CASE e.op = "&&" -> IF Truthy(l.v) THEN Eval(l, e.right) ELSE l
      [] e.op = "||" -> IF Truthy(l.v) THEN l ELSE Eval(l, e.right)
      [] e.op = "??" -> IF l.v # Nil THEN l ELSE Eval(l, e.right)
      [] OTHER -> Then(Eval(l, e.right), LAMBDA r :
                    Yield(r, Binary(r.heap, BinaryOpcode[e.op], l.v, r.v))))

EvalAssign(m, e) ==
  Then(IF e.op = "=" THEN Eval(m, e.right)
       ELSE Then(Eval(m, e.left), LAMBDA l :
              Then(Eval(l, e.right), LAMBDA r :
                Yield(r, Binary(r.heap, CompoundOpcode[e.op], l.v, r.v)))),
       LAMBDA a :
         IF e.left.is = "ident" THEN Assign(a, e.left.name, a.v)
         ELSE Then(Eval(a, e.left.object), LAMBDA o :
                [o EXCEPT !.heap = IF o.v.kind = "object"
                                   THEN SetField(@, o.v, e.left.name, a.v) ELSE @,
                          !.v = a.v]))

EvalCall(m, e) ==
  CASE e.callee.is = "ident" /\ e.callee.name = "print" ->
         Then(EvalAll(m, e.args), LAMBDA a :
           [a EXCEPT !.out = Append(@, [i \in DOMAIN a.vs |-> Text(a.heap, a.vs[i])]),
                     !.v = Nil])
    [] e.callee.is = "member" ->
         Then(Eval(m, e.callee.object), LAMBDA o :
           Then(EvalAll(o, e.args), LAMBDA a :
             IF o.v.kind = "func"
             THEN Swallowed(CallValue(a, o.v, a.vs))
             ELSE Got(a, Method(a.heap, o.v, e.callee.name, a.vs))))
    [] OTHER ->
         Then(Eval(m, e.callee), LAMBDA f :
           Then(EvalAll(f, e.args), LAMBDA a : CallValue(a, f.v, a.vs)))

EvalObject(m, e) ==
  Then(EvalAll(m, [i \in DOMAIN e.fields |-> e.fields[i].value]), LAMBDA a :
    LET fields == FoldLeft(LAMBDA fs, i : (e.fields[i].name :> a.vs[i]) @@ fs, <<>>,
                           [i \in DOMAIN e.fields |-> i])
    IN  [a EXCEPT !.heap = NewFields(@, fields), !.v = ObjVal(Len(a.heap) + 1)])

Eval(m, e) ==
  CASE e.is = "int"     -> Yield(m, IntVal(e.n))
    [] e.is = "string"  -> Yield(m, StrVal(e.s))
    [] e.is = "true"    -> Yield(m, BoolVal(TRUE))
    [] e.is = "false"   -> Yield(m, BoolVal(FALSE))
    [] e.is = "null"    -> Yield(m, Nil)
    [] e.is = "ident"   -> Yield(m, Lookup(m, e.name))
    [] e.is = "binary"  -> EvalBinary(m, e)
    [] e.is = "not"     -> Then(Eval(m, e.operand), LAMBDA a : Yield(a, Unary("NOT", a.v)))
    [] e.is = "neg"     -> Then(Eval(m, e.operand), LAMBDA a : Yield(a, Unary("NEG", a.v)))
    [] e.is = "assign"  -> EvalAssign(m, e)
    [] e.is = "call"    -> EvalCall(m, e)
    [] e.is = "member"  -> Then(Eval(m, e.object), LAMBDA a : Got(a, Field(a.heap, a.v, e.name)))
    [] e.is = "index"   -> Then(Eval(m, e.object), LAMBDA a :
                             Then(Eval(a, e.index), LAMBDA i :
                               Yield(i, Index(i.heap, a.v, i.v))))
    [] e.is = "array"   -> Then(EvalAll(m, e.elements), LAMBDA a :
                             [a EXCEPT !.heap = NewElems(@, a.vs),
                                       !.v = ArrayVal(Len(a.heap) + 1, 0, Len(a.vs))])
    [] e.is = "object"  -> EvalObject(m, e)
    [] e.is = "await"   -> Eval(m, e.operand)
    [] e.is = "receive" -> Then(Eval(m, e.channel), LAMBDA a : Yield(a, Nil))
    [] e.is = "ternary" -> Then(Eval(m, e.test), LAMBDA a :
                             Eval(a, IF Truthy(a.v) THEN e.then ELSE e.else))
    [] e.is = "arrow"   -> [m EXCEPT !.functions = Append(@, e),
                                     !.v = FuncVal(Len(m.functions) + 1, "")]

------------------------------------------------------------------------------
(* Statements                                                              *)

LeaveLoopBody(m) == IF m.ctl \in {"break", "continue"} THEN [m EXCEPT !.ctl = "go"] ELSE m

\* A loop with its test and its update, each of which may be missing.
Iterate(m, test, body, update) ==
  Then(IF test = <<>> THEN Yield(m, BoolVal(TRUE)) ELSE Eval(m, test[1]), LAMBDA t :
    IF Truthy(t.v) THEN Repeat(ExecBlock(t, body), test, body, update) ELSE t)

\* The rest of the loop, once its body has run.
Repeat(m, test, body, update) ==
  IF m.ctl \in {"return", "throw", "break"} THEN LeaveLoopBody(m)
  ELSE Then(IF update = <<>> THEN LeaveLoopBody(m) ELSE Eval(LeaveLoopBody(m), update[1]),
            LAMBDA u : Iterate(u, test, body, update))

\* A sequence of rounds, until one is the last or leaves.
Go(m)      == [m |-> m, done |-> FALSE]
Over(a)    == a.done \/ a.m.ctl # "go"
Round(end) == [m |-> LeaveLoopBody(end), done |-> end.ctl = "break"]

BindTo(name, value) == [is |-> "bind", name |-> name, value |-> value]

\* The elements in turn; after a break none.
IterateOver(m, name, v, body) ==
  FoldLeft(LAMBDA a, i :
             IF Over(a) THEN a
             ELSE Round(ExecBlock(a.m, <<BindTo(name, Index(a.m.heap, v, IntVal(i - 1)))>> \o body)),
           Go(m), [i \in 1..Field(m.heap, v, "length").value.n |-> i]).m

\* The body of the first arm whose pattern equals the subject.
TryArm(p, arm, v) ==
  IF p.ctl = "go" /\ Equal(v, p.v) THEN [m |-> ExecBlock(p, arm.body), done |-> TRUE] ELSE Go(p)

ExecMatch(m, arms, v) ==
  FoldLeft(LAMBDA a, arm : IF Over(a) THEN a ELSE TryArm(Eval(a.m, arm.pattern), arm, v),
           Go(m), arms).m

\* An error runs the handler; the last block runs whatever happened.
ExecCatch(m, catch) ==
  IF m.ctl # "throw" \/ catch = <<>> THEN m
  ELSE ExecBlock([m EXCEPT !.ctl = "go"], <<BindTo(catch[1].name, m.v)>> \o catch[1].body)

Resumed(m, last) == IF last.ctl = "go" THEN [last EXCEPT !.ctl = m.ctl, !.v = m.v] ELSE last

ExecFinally(m, body) == Resumed(m, ExecBlock([m EXCEPT !.ctl = "go"], body))

Exec(m, s) ==
  CASE s.is = "var"      -> Then(IF s.init = <<>> THEN Yield(m, Nil) ELSE Eval(m, s.init[1]),
                                 LAMBDA a : Declare(a, s.name, a.v))
    [] s.is = "bind"     -> Declare(m, s.name, s.value)
    [] s.is = "function" -> m
    [] s.is = "expr"     -> Eval(m, s.expr)
    [] s.is = "return"   -> Then(IF s.value = <<>> THEN Yield(m, Nil) ELSE Eval(m, s.value[1]),
                                 LAMBDA a : [a EXCEPT !.ctl = "return"])
    [] s.is = "if"       -> Then(Eval(m, s.test), LAMBDA a :
                              ExecBlock(a, IF Truthy(a.v) THEN s.then ELSE s.else))
    [] s.is = "while"    -> Iterate(m, <<s.test>>, s.body, <<>>)
    [] s.is = "for"      -> LeaveBlock(Iterate(ExecAll(EnterBlock(m), s.init), s.test, s.body, s.update))
    [] s.is = "forin"    -> Then(Eval(m, s.iterable), LAMBDA a :
                              IterateOver(a, s.name, a.v, s.body))
    [] s.is = "loop"     -> Iterate(m, <<>>, s.body, <<>>)
    [] s.is \in {"break", "continue"} -> [m EXCEPT !.ctl = s.is]
    [] s.is = "block"    -> ExecBlock(m, s.body)
    [] s.is = "throw"    -> Then(Eval(m, s.value), Fails)
    [] s.is = "try"      -> ExecFinally(ExecCatch(ExecBlock(m, s.try), s.catch), s.finally)
    [] s.is = "match"    -> Then(Eval(m, s.subject), LAMBDA a : ExecMatch(a, s.arms, a.v))
    [] s.is = "spawn"    -> Eval(m, s.call)
    [] s.is = "task"     -> CallValue([m EXCEPT !.functions =
                                         Append(@, [params |-> <<>>, body |-> s.body])],
                                      FuncVal(Len(m.functions) + 1, ""), <<>>)
    [] s.is = "send"     -> EvalAll(m, <<s.channel, s.value>>)
    [] s.is = "class"    -> Declare([m EXCEPT !.heap =
                                       NewFields(@, "__class__" :> StrVal(s.name))],
                                    s.name, ObjVal(Len(m.heap) + 1))

\* The functions a program declares at its top.
Declared(p) == SelectSeq(p, LAMBDA s : s.is = "function")

MeaningOf(p) ==
  LET fns     == Declared(p)
      names   == {fns[i].name : i \in DOMAIN fns}
      globals == [name \in names |->
                    FuncVal(CHOOSE i \in DOMAIN fns : fns[i].name = name, name)]
  IN  ExecAll([scopes |-> <<globals, <<>>>>, functions |-> fns, heap |-> <<>>,
               out |-> <<>>, v |-> Nil, vs |-> <<>>, ctl |-> "go"], p)

==============================================================================
