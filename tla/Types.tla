-------------------------------- MODULE Types --------------------------------
(***************************************************************************)
(* compiler/types/types.go: the checker of the trees of module Parser.  A  *)
(* checker c has the named types, the fields of the classes (their type is *)
(* shared and filled in as the class is checked), the scopes with the      *)
(* innermost last, the type of the expression just checked, the names it   *)
(* found undefined and the number of its other errors.  Left out: the      *)
(* names of types, which only error messages show.                         *)
(***************************************************************************)
EXTENDS Integers, Sequences, SequencesExt, TLC

NoFields == [x \in {} |-> x]
T(kind)  == [kind |-> kind, elem |-> <<>>, fields |-> NoFields, class |-> "", nullable |-> FALSE]

AnyType  == T("any")
VoidType == T("void")

ArrayOf(elem)    == [T("array") EXCEPT !.elem = <<elem>>]
FutureOf(result) == [T("future") EXCEPT !.elem = <<result>>]
NullableOf(t)    == [t EXCEPT !.nullable = TRUE]
ClassNamed(name) == [T("class") EXCEPT !.class = name]

\* The element of an array or the result of a function; any without one.
Elem(t) == IF t.elem = <<>> THEN AnyType ELSE t.elem[1]

Builtins ==
  [name \in {"void", "bool", "i8", "i16", "i32", "i64", "u8", "u16", "u32", "u64", "f32", "f64",
             "bigint", "char", "string", "bytes", "null", "undefined", "any", "never"} |-> T(name)]
  @@ "number" :> T("i64") @@ "Map" :> T("map") @@ "Set" :> T("set") @@ "Channel" :> T("channel")
  @@ "Future" :> T("future") @@ "Result" :> T("result")

Printer == [T("func") EXCEPT !.elem = <<VoidType>>]

NewChecker ==
  [types |-> Builtins, fields |-> NoFields, scopes |-> <<"print" :> Printer @@ "log" :> Printer>>,
   type |-> VoidType, undefined |-> {}, errors |-> 0, crashed |-> FALSE]

------------------------------------------------------------------------------
(* Scopes                                                                  *)

Enter(c) == [c EXCEPT !.scopes = Append(@, NoFields)]
Leave(c) == [c EXCEPT !.scopes = Front(@)]

Define(c, name, t) == [c EXCEPT !.scopes[Len(c.scopes)] = (name :> t) @@ @]

Defining(c, name) == {i \in DOMAIN c.scopes : name \in DOMAIN c.scopes[i]}

\* The innermost scope that defines a name says its type.
Lookup(c, name) ==
  LET found == Defining(c, name)
  IN  IF found = {} THEN [c EXCEPT !.undefined = @ \cup {name}, !.type = AnyType]
      ELSE [c EXCEPT !.type = c.scopes[CHOOSE i \in found : \A j \in found : j <= i][name]]

Typed(c, t) == [c EXCEPT !.type = t]
Alarm(c)    == [c EXCEPT !.errors = @ + 1]

------------------------------------------------------------------------------
(* Types                                                                   *)

Named(c, name) == IF name \in DOMAIN c.types THEN c.types[name] ELSE T("unknown")

\* An array is not nullable.  (A union is resolved by resolving its
\* alternatives, of which it is one itself: see Crashes.)
ResolveTypeAnnotation(c, ann) ==
  CASE ann.array -> ArrayOf(Named(c, ann.name))
    [] ~ann.array /\ ann.nullable -> NullableOf(Named(c, ann.name))
    [] OTHER -> Named(c, ann.name)

\* The recursion of a union has no end: the stack overflows, and the process
\* is gone.
Crashes(ann) == ann.union # <<>>
Resolving(c, ann) == IF Crashes(ann) THEN [c EXCEPT !.crashed = TRUE] ELSE c

\* An optional annotation: any without one.
Declared(c, type) == IF type = <<>> THEN AnyType ELSE ResolveTypeAnnotation(c, type[1])
Declaring(c, type) == IF type = <<>> THEN c ELSE Resolving(c, type[1])

BuildFuncType(c, params, returns, async) ==
  LET result   == IF returns = <<>> THEN VoidType ELSE ResolveTypeAnnotation(c, returns[1])
      resolved == FoldLeft(LAMBDA d, p : Declaring(d, p.type), Declaring(c, returns), params)
  IN  Typed(resolved, [T("func") EXCEPT !.elem = <<IF async THEN FutureOf(result) ELSE result>>])

FieldType(c, f) ==
  LET t == ResolveTypeAnnotation(c, f.type) IN IF f.optional THEN NullableOf(t) ELSE t

BuildStructType(c, s) ==
  Typed(FoldLeft(LAMBDA d, f : Resolving(d, f.type), c, s.fields),
        [T("struct") EXCEPT !.fields =
           FoldLeft(LAMBDA fs, f : (f.name :> FieldType(c, f)) @@ fs, NoFields, s.fields)])

Numeric == {"i8", "i16", "i32", "i64", "u8", "u16", "u32", "u64", "f32", "f64"}
Width   == "i8" :> 1 @@ "i16" :> 2 @@ "i32" :> 3 @@ "i64" :> 4 @@ "f32" :> 5 @@ "f64" :> 6

\* Kinds are compared and what they are made of is not; a signed number goes
\* where a wider one or a float may.
IsAssignable(target, source) ==
  \/ target.kind = "any" \/ source.kind = "any" \/ target.kind = source.kind
  \/ target.nullable /\ source.kind = "null"
  \/ {target.kind, source.kind} \subseteq DOMAIN Width /\ Width[source.kind] <= Width[target.kind]

------------------------------------------------------------------------------
(* Declarations of the top level, before any body                          *)

Register(c, name, t) == [Define(c, name, t) EXCEPT !.types = (name :> t) @@ @]

RECURSIVE RegisterDecl(_, _)
RegisterDecl(c, s) ==
  CASE s.is = "function" ->
         LET d == BuildFuncType(c, s.params, s.returns, s.async) IN Define(d, s.name, d.type)
    [] s.is = "struct" -> LET d == BuildStructType(c, s) IN Register(d, s.name, d.type)
    [] s.is \in {"class", "component", "actor"} ->
         Register([c EXCEPT !.fields = (s.name :> NoFields) @@ @], s.name, ClassNamed(s.name))
    [] s.is \in {"interface", "enum"} -> Register(c, s.name, T(s.is))
    [] s.is = "typedecl" ->
         [Resolving(c, s.type) EXCEPT !.types =
            (s.name :> ResolveTypeAnnotation(c, s.type)) @@ @]
    [] s.is = "export" -> FoldLeft(LAMBDA d, x : RegisterDecl(d, x), c, s.declaration)
    [] OTHER -> c

------------------------------------------------------------------------------
(* Expressions: the type is left in c.type                                 *)

RECURSIVE CheckExpr(_, _), CheckStmt(_, _)

LiteralType ==
  "INT" :> "i64" @@ "FLOAT" :> "f64" @@ "STRING" :> "string" @@ "BOOL" :> "bool"
    @@ "null" :> "null"

CheckBinary(c, op, left, right) ==
  LET numbers == {left.kind, right.kind} \subseteq Numeric IN
  CASE op = "+" ->
         Typed(c, IF "string" \in {left.kind, right.kind} THEN T("string")
                  ELSE IF numbers THEN left ELSE AnyType)
    [] op \in {"-", "*", "/", "%"} -> IF numbers THEN Typed(c, left) ELSE Alarm(Typed(c, AnyType))
    [] op = "??" -> Typed(c, left)
    [] OTHER -> Typed(c, T("bool"))

\* The type of the left operand is that of the first of the two checks.
CheckBinaryExpr(c, e) ==
  LET left  == CheckExpr(c, e.left)
      right == CheckExpr(left, e.right)
  IN  CheckBinary(right, e.op, left.type, right.type)

CheckAssign(c, e) ==
  LET left  == CheckExpr(c, e.left)
      right == CheckExpr(left, e.right)
      typed == Typed(right, left.type)
  IN  IF IsAssignable(left.type, right.type) THEN typed ELSE Alarm(typed)

CheckUnary(c, e) ==
  LET d == CheckExpr(c, e.operand)
      t == d.type
  IN  Typed(d, CASE e.op = "!" -> T("bool")
                 [] e.op = "await" /\ t.kind = "future" /\ t.elem # <<>> -> Elem(t)
                 [] e.op = "<-" -> IF t.kind = "channel" THEN Elem(t) ELSE AnyType
                 [] OTHER -> t)

\* The arguments of a call are not checked.
CheckCall(c, e) ==
  LET d == CheckExpr(c, e.callee) IN Typed(d, IF d.type.kind = "func" THEN Elem(d.type) ELSE AnyType)

CheckMember(c, e) ==
  LET d  == CheckExpr(c, e.object)
      fs == IF d.type.kind = "class" THEN d.fields[d.type.class] ELSE d.type.fields
  IN  Typed(d, IF e.name \in DOMAIN fs THEN fs[e.name] ELSE AnyType)

CheckIndex(c, e) ==
  LET d == CheckExpr(c, e.object) IN Typed(d, IF d.type.kind = "array" THEN Elem(d.type) ELSE AnyType)

\* Of an array the first element is checked.
CheckArray(c, e) ==
  IF e.elements = <<>> THEN Typed(c, ArrayOf(AnyType))
  ELSE LET d == CheckExpr(c, e.elements[1]) IN Typed(d, ArrayOf(d.type))

CheckObject(c, e) ==
  LET all == FoldLeft(LAMBDA s, f : LET d == CheckExpr(s.c, f.value)
                                    IN  [c |-> d, fields |-> (f.name :> d.type) @@ s.fields],
                      [c |-> c, fields |-> NoFields], e.fields)
  IN  Typed(all.c, [T("struct") EXCEPT !.fields = all.fields])

CheckTernary(c, e) ==
  LET then == CheckExpr(CheckExpr(c, e.test), e.then)
  IN  Typed(CheckExpr(then, e.else), then.type)

\* The body of an arrow function is not checked.
CheckExpr(c, e) ==
  CASE e.is = "literal" -> Typed(c, T(LiteralType[e.type]))
    [] e.is = "ident"   -> Lookup(c, e.name)
    [] e.is = "array"   -> CheckArray(c, e)
    [] e.is = "object"  -> CheckObject(c, e)
    [] e.is = "binary"  -> CheckBinaryExpr(c, e)
    [] e.is = "unary"   -> CheckUnary(c, e)
    [] e.is = "assign"  -> CheckAssign(c, e)
    [] e.is = "call"    -> CheckCall(c, e)
    [] e.is = "member"  -> CheckMember(c, e)
    [] e.is = "index"   -> CheckIndex(c, e)
    [] e.is = "new"     -> Typed(c, IF e.name \in DOMAIN c.types THEN c.types[e.name] ELSE AnyType)
    [] e.is = "as"      -> Typed(Resolving(c, e.type), ResolveTypeAnnotation(c, e.type))
    [] e.is = "arrow"   -> BuildFuncType(c, e.params, e.returns, FALSE)
    [] e.is = "ternary" -> CheckTernary(c, e)
    [] e.is = "send"    -> Typed(CheckExpr(CheckExpr(c, e.channel), e.value), VoidType)

CheckExprs(c, es) == FoldLeft(LAMBDA d, x : CheckExpr(d, x), c, es)
CheckStmts(c, ss) == FoldLeft(LAMBDA d, x : CheckStmt(d, x), c, ss)

------------------------------------------------------------------------------
(* Statements                                                              *)

CheckBlock(c, block) == Leave(CheckStmts(Enter(c), block.body))

\* A block in a scope that already has these names.
CheckBlockWith(c, params, block) ==
  LET inner == FoldLeft(LAMBDA d, p : Define(Declaring(d, p.type), p.name, Declared(d, p.type)),
                        Enter(c), params)
  IN  Leave(CheckBlock(inner, block))

CheckVarDecl(c, s) ==
  LET declared == Declared(c, s.type)
      d        == CheckExprs(Declaring(c, s.type), s.init)
      wrong    == s.type # <<>> /\ s.init # <<>> /\ ~IsAssignable(declared, d.type)
      type     == IF s.type = <<>> /\ s.init # <<>> THEN d.type ELSE declared
  IN  Define(IF wrong THEN Alarm(d) ELSE d, s.name, type)

CheckIf(c, s) ==
  LET then == CheckBlock(CheckExpr(c, s.test), s.then)
  IN  CheckStmts(then, s.else)

CheckFor(c, s) ==
  LET head == CheckExprs(CheckExprs(CheckStmts(Enter(c), s.init), s.test), s.update)
  IN  Leave(CheckBlock(head, s.body))

\* Slip: the scope of the name ends before the body.
CheckForInEarly(c, s) ==
  LET d == CheckExpr(c, s.iterable) IN CheckBlock(Leave(Define(Enter(d), s.name, AnyType)), s.body)

CheckForIn(c, s) ==
  LET d == CheckExpr(c, s.iterable)
      t == IF d.type.kind = "array" THEN Elem(d.type) ELSE AnyType
  IN  Leave(CheckBlock(Define(Enter(d), s.name, t), s.body))

\* catch is <<>> or <<parameter, block>>, the parameter <<>> or <<param>>.
CheckTryCatch(c, s) ==
  LET tried  == CheckBlock(c, s.try)
      caught == IF s.catch = <<>> THEN tried
                ELSE Leave(CheckBlock(
                       FoldLeft(LAMBDA d, p : Define(d, p.name, AnyType), Enter(tried), s.catch[1]),
                       s.catch[2]))
  IN  CheckStmts(caught, s.finally)

CheckMatch(c, s) ==
  FoldLeft(LAMBDA d, arm : Leave(CheckBlock(CheckExpr(Enter(d), arm.pattern), arm.body)),
           CheckExpr(c, s.subject), s.arms)

\* Methods are checked, and fields enter the type of the class as they come.
CheckClassMember(c, name, m) ==
  CASE m.is = "method" -> CheckBlockWith(c, m.params, m.body)
    [] m.is = "field" ->
         [Declaring(c, m.type) EXCEPT !.fields[name] = (m.name :> Declared(c, m.type)) @@ @]
    [] OTHER -> c

CheckClassDecl(c, s) ==
  LET known == IF s.name \in DOMAIN c.types THEN c
               ELSE [c EXCEPT !.fields = (s.name :> NoFields) @@ @]
      inner == Define(Enter(known), "this", ClassNamed(s.name))
  IN  Leave(FoldLeft(LAMBDA d, m : CheckClassMember(d, s.name, m), inner, s.members))

\* The state of a component is in scope in its functions, their parameters
\* and the props are not, and what it builds is not checked.
CheckComponentDecl(c, s) ==
  LET inner == FoldLeft(LAMBDA d, f : Define(Resolving(d, f.type), f.name,
                                             ResolveTypeAnnotation(d, f.type)),
                        Enter(c), s.states)
  IN  Leave(FoldLeft(LAMBDA d, m : Leave(CheckBlock(Enter(d), m.body)), inner, s.lifecycle))

\* A function in a function is checked, and its name is not defined.
CheckStmt(c, s) ==
  CASE s.is = "var"       -> CheckVarDecl(c, s)
    [] s.is = "function"  -> CheckBlockWith(c, s.params, s.body)
    [] s.is = "expr"      -> CheckExpr(c, s.expr)
    [] s.is = "return"    -> CheckExprs(c, s.value)
    [] s.is = "if"        -> CheckIf(c, s)
    [] s.is = "while"     -> CheckBlock(CheckExpr(c, s.test), s.body)
    [] s.is = "for"       -> CheckFor(c, s)
    [] s.is = "forin"     -> CheckForIn(c, s)
    [] s.is \in {"loop", "task"} -> CheckBlock(c, s.body)
    [] s.is = "block"     -> CheckBlock(c, s)
    [] s.is = "class"     -> CheckClassDecl(c, s)
    [] s.is = "try"       -> CheckTryCatch(c, s)
    [] s.is = "match"     -> CheckMatch(c, s)
    [] s.is = "spawn"     -> CheckExpr(c, s.call)
    [] s.is = "throw"     -> CheckExpr(c, s.value)
    [] s.is = "component" -> CheckComponentDecl(c, s)
    [] s.is = "export"    -> CheckStmts(c, s.declaration)
    [] OTHER -> c

\* Two passes: the declarations of the top level, then everything.
CheckProgram(statements) ==
  CheckStmts(FoldLeft(LAMBDA d, x : RegisterDecl(d, x), NewChecker, statements), statements)

==============================================================================
