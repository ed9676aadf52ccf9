-------------------------------- MODULE Syntax --------------------------------
(***************************************************************************)
(* NilLang written down: the words of a syntax tree of module Parser, with *)
(* the parentheses the precedence of the operators asks for and no others, *)
(* and without optional semicolons.  What the parser reads back from them  *)
(* must be the tree.  This is the reference for the parser, not a part of  *)
(* the program.                                                            *)
(***************************************************************************)
EXTENDS Integers, Sequences, SequencesExt, TLC

RECURSIVE Expr(_), Stmt(_), Type(_), Widget(_)

Opt(flag, word) == IF flag THEN <<word>> ELSE <<>>

\* The words of some things, one after the other or with commas between.
All(xs, W(_)) == FoldLeft(LAMBDA ws, x : ws \o W(x), <<>>, xs)

Commas(xs, W(_)) ==
  FoldLeft(LAMBDA ws, i : ws \o Opt(i > 1, ",") \o W(xs[i]), <<>>, [i \in DOMAIN xs |-> i])

Before(word, xs, W(_)) == All(xs, LAMBDA x : <<word>> \o W(x))
One(x)    == <<x>>

AnExpr(x)  == Expr(x)
AStmt(x)   == Stmt(x)
AType(x)   == Type(x)
AWidget(x) == Widget(x)

Angles(xs, W(_))   == IF xs = <<>> THEN <<>> ELSE <<"<">> \o Commas(xs, W) \o <<">">>
Parens(xs, W(_))   == <<"(">> \o Commas(xs, W) \o <<")">>
Braces(words)      == <<"{">> \o words \o <<"}">>
IfAny(xs, W(_))    == IF xs = <<>> THEN <<>> ELSE Parens(xs, W)

------------------------------------------------------------------------------
(* Types and parameters                                                    *)

Type(t) ==
  (CASE t.name = "tuple" -> <<"[">> \o Commas(t.args, AType) \o <<"]">>
     [] t.name = "func"  -> Parens(t.args, AType) \o <<"=>">> \o All(t.returns, AType)
     [] OTHER -> <<t.name>> \o Angles(t.args, AType))
  \o (IF t.array THEN <<"[", "]">> ELSE <<>>) \o Opt(t.nullable, "?")

Typed(types)   == Before(":", types, AType)
Default(exprs) == Before("=", exprs, AnExpr)

Param(p) ==
  Opt(p.rest, "...") \o <<p.name>> \o Opt(p.optional, "?") \o Typed(p.type) \o Default(p.default)

Signature(f) == Parens(f.params, Param) \o Typed(f.returns)
Decorator(d) == <<"@", d.name>> \o IfAny(d.args, AnExpr)

------------------------------------------------------------------------------
(* Expressions                                                             *)

Binding ==
  "??" :> 2 @@ "||" :> 3 @@ "&&" :> 4 @@ "==" :> 5 @@ "!=" :> 5 @@ "<" :> 6 @@ ">" :> 6
    @@ "<=" :> 6 @@ ">=" :> 6 @@ "+" :> 7 @@ "-" :> 7 @@ "*" :> 8 @@ "/" :> 8 @@ "%" :> 8

Precedence(e) ==
  CASE e.is \in {"assign", "send", "arrow"} -> 0
    [] e.is = "ternary" -> 1
    [] e.is = "binary"  -> Binding[e.op]
    [] e.is = "unary"   -> 9
    [] OTHER -> 10

\* An expression where only those that bind at least so tightly may stand.
At(least, e) == IF Precedence(e) < least THEN <<"(">> \o Expr(e) \o <<")">> ELSE Expr(e)

Expr(e) ==
  CASE e.is = "literal" -> <<IF e.type = "STRING" THEN "\"" \o e.value \o "\"" ELSE e.value>>
    [] e.is = "ident"   -> <<e.name>>
    [] e.is = "assign"  -> At(1, e.left) \o <<e.op>> \o Expr(e.right)
    [] e.is = "send"    -> At(1, e.channel) \o <<"<-">> \o Expr(e.value)
    [] e.is = "ternary" -> At(2, e.test) \o <<"?">> \o Expr(e.then) \o <<":">> \o Expr(e.else)
    [] e.is = "binary"  -> At(Binding[e.op], e.left) \o <<e.op>> \o At(Binding[e.op] + 1, e.right)
    [] e.is = "unary"   -> <<e.op>> \o At(9, e.operand)
    [] e.is = "member"  -> At(10, e.object) \o Opt(e.optional, "?") \o <<".", e.name>>
    [] e.is = "index"   -> At(10, e.object) \o <<"[">> \o Expr(e.index) \o <<"]">>
    [] e.is = "call"    -> At(10, e.callee) \o Angles(e.types, AType) \o Parens(e.args, AnExpr)
    [] e.is = "as"      -> At(10, e.value) \o <<"as">> \o Type(e.type)
    [] e.is = "new"     -> <<"new", e.name>> \o Angles(e.types, AType) \o Parens(e.args, AnExpr)
    [] e.is = "array"   -> <<"[">> \o Commas(e.elements, AnExpr) \o <<"]">>
    [] e.is = "object"  ->
         Braces(Commas(e.fields, LAMBDA f : <<f.name, ":">> \o Expr(f.value)))
    [] e.is = "arrow"   ->
         Signature(e) \o <<"=>">> \o (IF e.body.is = "block" THEN Stmt(e.body) ELSE Expr(e.body))

------------------------------------------------------------------------------
(* Declarations                                                            *)

Imports(names) == Braces(Commas(names, LAMBDA n : <<n.name>> \o Before("as", n.alias, One)))
Quoted(s)      == <<"\"" \o s \o "\"">>

Function(f) ==
  Opt(f.async, "async") \o <<"function", f.name>> \o Angles(f.typeParams, One) \o Signature(f)
    \o Stmt(f.body)

\* A method outside a class; a field with its type.
Method(m) == Opt(m.async, "async") \o <<"function", m.name>> \o Signature(m) \o Stmt(m.body)
Field(f)  == <<f.name>> \o Opt(f.optional, "?") \o <<":">> \o Type(f.type)

ClassMember(m) ==
  IF m.is = "constructor" THEN <<"constructor">> \o Parens(m.params, Param) \o Stmt(m.body)
  ELSE All(m.decorators, Decorator) \o Opt(m.access # "public", m.access)
         \o Opt(m.static, "static")
         \o (IF m.is = "method"
             THEN Opt(m.async, "async") \o <<m.name>> \o Signature(m) \o Stmt(m.body)
             ELSE Opt(m.readonly, "readonly") \o <<m.name>> \o Opt(m.optional, "?")
                    \o Typed(m.type) \o Default(m.init))

Handler(h) ==
  <<h.name, "=>">> \o (IF h.handler.is = "arrow" /\ h.handler.params = <<>>
                       THEN Stmt(h.handler.body) ELSE Expr(h.handler))

Widget(w) ==
  <<w.name>> \o IfAny(w.args, AnExpr)
    \o (IF w.children \o w.handlers = <<>> THEN <<>>
        ELSE Braces(All(w.children, AWidget) \o All(w.handlers, Handler)))
    \o All(w.modifiers, LAMBDA m : <<".", m.name>> \o IfAny(m.args, AnExpr))

StateField(kind, f) == <<"@", kind, f.name, ":">> \o Type(f.type) \o Default(f.init)

Component(c) ==
  (IF c.entry THEN <<"@", "Entry">> ELSE <<>>) \o <<"component", c.name>> \o
  Braces(All(c.props, LAMBDA f : StateField("Prop", f))
           \o All(c.states, LAMBDA f : StateField("State", f))
           \o All(c.lifecycle, LAMBDA m : Opt(m.async, "async") \o <<"function", m.name>>
                                            \o Parens(m.params, Param) \o Stmt(m.body))
           \o All(c.build, LAMBDA w : <<"build", "(", ")">> \o Braces(Widget(w))))

Declaration(s) ==
  CASE s.is = "import" -> <<"import">> \o Imports(s.names) \o <<"from">> \o Quoted(s.from)
    [] s.is = "export" ->
         <<"export">> \o (IF s.declaration # <<>> THEN All(s.declaration, AStmt)
                          ELSE Imports(s.names) \o Before("from", s.from, Quoted))
    [] s.is = "function" -> All(s.decorators, Decorator) \o Function(s)
    [] s.is = "class" ->
         All(s.decorators, Decorator) \o <<"class", s.name>> \o Angles(s.typeParams, One)
           \o Before("extends", s.super, One)
           \o (IF s.implements = <<>> THEN <<>>
               ELSE <<"implements">> \o Commas(s.implements, One))
           \o Braces(All(s.members, ClassMember))
    [] s.is = "struct" ->
         All(s.decorators, Decorator) \o <<"struct", s.name>> \o Braces(All(s.fields, Field))
    [] s.is = "interface" ->
         <<"interface", s.name>> \o Angles(s.typeParams, One)
           \o Braces(All(s.methods, LAMBDA m : Opt(m.async, "async") \o <<m.name>> \o Signature(m))
                       \o All(s.fields, Field))
    [] s.is = "enum" ->
         <<"enum", s.name>> \o
           Braces(Commas(s.members, LAMBDA m : <<m.name>> \o Default(m.value)))
    [] s.is = "typedecl" ->
         <<"type", s.name>> \o Angles(s.typeParams, One) \o <<"=">> \o Type(s.type)
    [] s.is = "actor" ->
         <<"actor", s.name>> \o
           Braces(All(s.fields, LAMBDA f : <<"let">> \o Field(f))
                    \o All(s.handlers, LAMBDA h : <<"on", h.name>> \o Parens(h.params, Param)
                                                    \o Stmt(h.body)))
    [] s.is = "store" ->
         <<"store", s.name>> \o Braces(All(s.fields, Field) \o All(s.methods, Method))
    [] s.is = "component" -> Component(s)

Declarations == {"import", "export", "function", "class", "struct", "interface", "enum",
                 "typedecl", "actor", "store", "component"}

------------------------------------------------------------------------------
(* Statements                                                              *)

For(s) ==
  <<"for", "(">> \o All(s.init, AStmt) \o <<";">> \o All(s.test, AnExpr) \o <<";">>
    \o All(s.update, AnExpr) \o <<")">> \o Stmt(s.body)

Catch(c) == <<"catch">> \o IfAny(c[1], Param) \o Stmt(c[2])

Stmt(s) ==
  CASE s.is \in Declarations -> Declaration(s)
    [] s.is = "var"    -> <<s.kind, s.name>> \o Typed(s.type) \o Default(s.init)
    [] s.is = "expr"   -> Expr(s.expr)
    [] s.is = "return" -> <<"return">> \o All(s.value, AnExpr)
    [] s.is = "throw"  -> <<"throw">> \o Expr(s.value)
    [] s.is = "spawn"  -> <<"spawn">> \o Expr(s.call)
    [] s.is = "block"  -> Braces(All(s.body, AStmt))
    [] s.is = "if"     -> <<"if">> \o Expr(s.test) \o Stmt(s.then) \o Before("else", s.else, AStmt)
    [] s.is = "while"  -> <<"while">> \o Expr(s.test) \o Stmt(s.body)
    [] s.is = "for"    -> For(s)
    [] s.is = "forin"  -> <<"for", s.name, "in">> \o Expr(s.iterable) \o Stmt(s.body)
    [] s.is = "try"    ->
         <<"try">> \o Stmt(s.try) \o (IF s.catch = <<>> THEN <<>> ELSE Catch(s.catch))
           \o Before("finally", s.finally, AStmt)
    [] s.is = "match"  ->
         <<"match">> \o Expr(s.subject)
           \o Braces(All(s.arms, LAMBDA a : Expr(a.pattern) \o <<"=>">> \o Stmt(a.body)))
    [] s.is \in {"loop", "task"}      -> <<s.is>> \o Stmt(s.body)
    [] s.is \in {"break", "continue"} -> <<s.is>>

WordsOf(statements) == All(statements, AStmt)

==============================================================================
