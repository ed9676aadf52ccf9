------------------------------- MODULE Parser --------------------------------
(***************************************************************************)
(* compiler/parser/parser.go: tokens to NilLang syntax trees.  A token is  *)
(* [t, v]: a type ("IDENT", "INT", "FLOAT", "STRING", "BOOL", or what the  *)
(* keyword or the operator is written as) and a literal.  A parser p has   *)
(* the position of the next token, the number of errors, and the values    *)
(* the parse functions returned that wait for the tree above them.         *)
(*                                                                         *)
(* A parse function is a list of forms, the steps the Go code takes from   *)
(* left to right: Do is what each of them does.  A loop that comes round   *)
(* without having consumed a token would go on forever: the parser is      *)
(* stuck, and sees nothing but the end of the file.  Left out: positions,  *)
(* and the texts of the errors.                                            *)
(***************************************************************************)
EXTENDS Integers, Sequences, SequencesExt, TLC

New(tokens) == [tokens |-> tokens, pos |-> 1, errors |-> 0, vals |-> <<>>, stuck |-> FALSE]

------------------------------------------------------------------------------
(* Tokens                                                                  *)

PeekAt(p, offset) ==
  IF p.stuck \/ p.pos + offset > Len(p.tokens) THEN "EOF" ELSE p.tokens[p.pos + offset].t

Peek(p)    == PeekAt(p, 0)
Literal(p) == IF Peek(p) = "EOF" THEN "" ELSE p.tokens[p.pos].v
Advance(p) == IF Peek(p) = "EOF" THEN p ELSE [p EXCEPT !.pos = @ + 1]
Failed(p)  == [p EXCEPT !.errors = @ + 1]

\* Slip: what is not the token expected is left for the caller.
ConsumeStays(p, t) == IF Peek(p) = t THEN Advance(p) ELSE Failed(p)

Consume(p, t) == Advance(IF Peek(p) = t THEN p ELSE Failed(p))

RECURSIVE SkipSemicolon(_)
SkipSemicolon(p) == IF Peek(p) = ";" THEN SkipSemicolon(Advance(p)) ELSE p

ContextualIdents ==
  {"from", "as", "on", "of", "state", "prop", "build", "entry", "app", "store", "actor",
   "match", "loop", "void", "any", "native", "type", "try"}

Push(p, v) == [p EXCEPT !.vals = Append(@, v)]

ParseIdent(p) ==
  LET named == Peek(p) \in {"IDENT"} \cup ContextualIdents
  IN  Push(Advance(IF named THEN p ELSE Failed(p)), Literal(p))

------------------------------------------------------------------------------
(* Forms: t is a token type or a set of them, of and or are lists of forms *)

Form(form, t, of, or) == [form |-> form, t |-> t, of |-> of, or |-> or]

Key(t)             == Form("key", t, <<>>, <<>>)      \* consume t
Word(t)            == Form("word", t, <<>>, <<>>)     \* consume t, keep its literal
Take               == Form("take", "", <<>>, <<>>)    \* advance, keep the literal
Semicolons         == Form("semicolons", "", <<>>, <<>>)
Flag(t)            == Form("flag", t, <<>>, <<>>)     \* was there a t?
Either(ts, of, or) == Form("either", ts, of, or)      \* of before one of ts, else or
Many(close, of)    == Form("many", close, of, <<>>)   \* of until close
List(close, of)    == Form("list", close, of, <<>>)   \* the same, with commas
While(t, of)       == Form("while", t, of, <<>>)      \* of as long as t is next
Parse(function)    == Form(function, "", <<>>, <<>>)  \* call a parse function

Name           == Word("IDENT")
Ident          == Parse("Ident")
Expression     == Parse("Expression")
Statement      == Parse("Statement")
TypeAnnotation == Parse("TypeAnnotation")
Block          == Parse("Block")
ParamList      == Parse("ParamList")
Mark           == Flag("")                           \* tells two alternatives apart
Decorators     == While("@", <<Parse("Decorator")>>)
If(t, of)      == Either({t}, <<Key(t)>> \o of, <<>>)
TypeParams     == If("<", <<List(">", <<Ident>>), Key(">")>>)
Returns        == If(":", <<TypeAnnotation>>)
Initial        == If("=", <<Expression>>)
Arguments      == If("(", <<List(")", <<Expression>>), Key(")")>>)

RECURSIVE Do(_, _), Loop(_, _), Run(_, _)
Run(p, forms) == IF forms = <<>> THEN p ELSE Do(Run(p, Front(forms)), Last(forms))

\* What the forms return, as one value; as one tree.
Node(p, forms, Make(_)) ==
  LET q == Run([p EXCEPT !.vals = <<>>], forms)
  IN  [q EXCEPT !.vals = Append(p.vals, Make(q.vals))]

Group(p, forms) == Node(p, forms, LAMBDA v : v)

\* The last n values become one tree.
Reduce(p, n, Make(_)) ==
  LET kept == Len(p.vals) - n
  IN  [p EXCEPT !.vals = Append(SubSeq(@, 1, kept), Make(SubSeq(@, kept + 1, Len(@))))]

\* The one value of an optional part, or what stands for none.
Only(v, none) == IF v = <<>> THEN none ELSE v[1]
Those(vs, kind) == SelectSeq(vs, LAMBDA x : x.is = kind)

------------------------------------------------------------------------------
(* Functions, parameters, types                                            *)

ParseDecorator(p) ==
  Node(p, <<Key("@"), Name, Arguments>>,
       LAMBDA v : [is |-> "decorator", name |-> v[1], args |-> Only(v[2], <<>>)])

ParseFunctionDecl(p, decorators) ==
  Node(p, <<Flag("async"), Key("function"), Ident, TypeParams, ParamList, Returns, Block>>,
       LAMBDA v : [is |-> "function", decorators |-> decorators, async |-> v[1], name |-> v[2],
                   typeParams |-> Only(v[3], <<>>), params |-> v[4], returns |-> v[5],
                   body |-> v[6]])

ParseParamList(p) == Run(p, <<Key("("), List(")", <<Parse("Param")>>), Key(")")>>)

ParseParam(p) ==
  Node(p, <<Flag("..."), Ident, Flag("?"), Returns, Initial>>,
       LAMBDA v : [is |-> "param", rest |-> v[1], name |-> v[2], optional |-> v[3],
                   type |-> v[4], default |-> v[5]])

Type(name, args, returns, v) ==
  [is |-> "type", name |-> name, args |-> args, returns |-> returns, union |-> <<>>,
   array |-> v[1], nullable |-> v[2]]

\* T[], more than once or not, and T?
TypeSuffixes == <<Parse("Brackets"), Flag("?")>>

RECURSIVE ParseBrackets(_)
ParseBrackets(p) ==
  IF Peek(p) = "[" /\ PeekAt(p, 1) = "]"
  THEN Reduce(ParseBrackets(Advance(Advance(p))), 1, LAMBDA v : TRUE)
  ELSE Push(p, FALSE)

\* Of the parameters of a function type the last one is kept.
ParseSingleType(p) ==
  CASE Peek(p) = "STRING" ->
         Node(p, <<Take>> \o TypeSuffixes,
              LAMBDA v : Type("\"" \o v[1] \o "\"", <<>>, <<>>, Tail(v)))
    [] Peek(p) = "[" ->
         Node(p, <<Key("["), List("]", <<TypeAnnotation>>), Key("]")>> \o TypeSuffixes,
              LAMBDA v : Type("tuple", v[1], <<>>, Tail(v)))
    [] Peek(p) = "(" ->
         Node(p, <<Key("("), List(")", <<TypeAnnotation>>), Key(")"), Key("=>"),
                   TypeAnnotation>> \o TypeSuffixes,
              LAMBDA v : Type("func", IF v[1] = <<>> THEN <<>> ELSE <<Last(v[1])>>,
                              <<v[2]>>, Tail(Tail(v))))
    [] Peek(p) \in {"void", "any"} ->
         Node(p, <<Take>> \o TypeSuffixes, LAMBDA v : Type(v[1], <<>>, <<>>, Tail(v)))
    [] OTHER ->
         Node(p, <<Name, If("<", <<List(">", <<TypeAnnotation>>), Key(">")>>)>> \o TypeSuffixes,
              LAMBDA v : Type(v[1], Only(v[2], <<>>), <<>>, Tail(Tail(v))))

\* A union is written into its first alternative, whose name it takes and
\* which is then an alternative of itself.
Itself == [is |-> "itself"]

ParseTypeAnnotation(p) ==
  Node(p, <<Parse("SingleType"), While("|", <<Key("|"), Parse("SingleType")>>)>>,
       LAMBDA v : IF v[2] = <<>> THEN v[1]
                  ELSE [v[1] EXCEPT !.name = "union", !.union = <<Itself>> \o v[2]])

------------------------------------------------------------------------------
(* Declarations                                                            *)

Imported == <<Name, If("as", <<Name>>)>>
ImportName(v) == [is |-> "name", name |-> v[1], alias |-> v[2]]
Names == <<Key("{"), List("}", <<Parse("ImportName")>>), Key("}")>>

ParseImportName(p) == Node(p, Imported, ImportName)

ParseImport(p) ==
  Node(p, <<Key("import"), Either({"{"}, Names, <<>>), Key("from"), Word("STRING"), Semicolons>>,
       LAMBDA v : [is |-> "import", names |-> Only(v[1], <<>>), from |-> v[2]])

ParseExport(p) ==
  Node(p, <<Key("export"),
            Either({"{"}, Names \o <<If("from", <<Word("STRING")>>)>>, <<Statement>>),
            Semicolons>>,
       LAMBDA v : IF Len(v[1]) = 2
                  THEN [is |-> "export", names |-> v[1][1], from |-> v[1][2], declaration |-> <<>>]
                  ELSE [is |-> "export", names |-> <<>>, from |-> <<>>, declaration |-> v[1]])

ParseClassDecl(p, decorators) ==
  Node(p, <<Key("class"), Name, TypeParams, If("extends", <<Name>>),
            If("implements", <<Name, While(",", <<Key(","), Name>>)>>),
            Key("{"), Many("}", <<Parse("ClassMember")>>), Key("}")>>,
       LAMBDA v : [is |-> "class", decorators |-> decorators, name |-> v[1],
                   typeParams |-> Only(v[2], <<>>), super |-> v[3], members |-> v[5],
                   implements |-> IF v[4] = <<>> THEN <<>> ELSE <<v[4][1]>> \o v[4][2]])

\* What follows the modifiers of a member.
ParseMember(p) ==
  IF Literal(p) = "constructor"
  THEN Node(p, <<Take, ParamList, Block>>,
            LAMBDA v : [is |-> "constructor", params |-> v[2], body |-> v[3]])
  ELSE Node(p, <<Name, Either({"("}, <<ParamList, Returns, Block, Mark>>,
                              <<Flag("?"), Returns, Initial, Semicolons>>)>>,
            LAMBDA v : IF Len(v[2]) = 4
                       THEN [is |-> "method", name |-> v[1], params |-> v[2][1],
                             returns |-> v[2][2], body |-> v[2][3]]
                       ELSE [is |-> "field", name |-> v[1], optional |-> v[2][1],
                             type |-> v[2][2], init |-> v[2][3]])

ParseClassMember(p) ==
  Node(p, <<Decorators, Either({"public", "private", "protected"}, <<Take>>, <<>>),
            Flag("static"), Flag("async"), Flag("readonly"), Parse("Member")>>,
       LAMBDA v :
         LET shared == [decorators |-> v[1], access |-> Only(v[2], "public"), static |-> v[3]]
         IN  CASE v[6].is = "constructor" -> v[6]
               [] v[6].is = "method" -> v[6] @@ shared @@ [async |-> v[4]]
               [] v[6].is = "field"  -> v[6] @@ shared @@ [readonly |-> v[5]])

StructField(name, optional, type) ==
  [is |-> "field", name |-> name, optional |-> optional, type |-> type]

ParseStructField(p) ==
  Node(p, <<Name, Flag("?"), Key(":"), TypeAnnotation, Semicolons>>,
       LAMBDA v : StructField(v[1], v[2], v[3]))

ParseStructDecl(p, decorators) ==
  Node(p, <<Key("struct"), Name, Key("{"), Many("}", <<Parse("StructField")>>), Key("}")>>,
       LAMBDA v : [is |-> "struct", decorators |-> decorators, name |-> v[1], fields |-> v[2]])

\* A member without parameters and without a type is not kept.
ParseInterfaceMember(p) ==
  LET named == Run([p EXCEPT !.vals = <<>>], <<Flag("async"), Name>>)
      async == named.vals[1]
      name  == named.vals[2]
      q     == [named EXCEPT !.vals = p.vals]
  IN  CASE Peek(q) = "(" ->
             Node(q, <<ParamList, Returns, Semicolons>>,
                  LAMBDA v : [is |-> "method", name |-> name, params |-> v[1],
                              returns |-> v[2], async |-> async])
        [] Peek(q) \in {":", "?"} ->
             Node(q, <<Flag("?"), Key(":"), TypeAnnotation, Semicolons>>,
                  LAMBDA v : StructField(name, v[1], v[2]))
        [] OTHER -> q

ParseInterfaceDecl(p) ==
  Node(p, <<Key("interface"), Name, TypeParams, Key("{"),
            Many("}", <<Parse("InterfaceMember")>>), Key("}")>>,
       LAMBDA v : [is |-> "interface", name |-> v[1], typeParams |-> Only(v[2], <<>>),
                   methods |-> Those(v[3], "method"), fields |-> Those(v[3], "field")])

ParseEnumMember(p) ==
  Node(p, <<Name, Initial>>, LAMBDA v : [is |-> "member", name |-> v[1], value |-> v[2]])

ParseEnumDecl(p) ==
  Node(p, <<Key("enum"), Name, Key("{"), List("}", <<Parse("EnumMember")>>), Key("}")>>,
       LAMBDA v : [is |-> "enum", name |-> v[1], members |-> v[2]])

ParseTypeDecl(p) ==
  Node(p, <<Key("type"), Name, TypeParams, Key("="), TypeAnnotation, Semicolons>>,
       LAMBDA v : [is |-> "typedecl", name |-> v[1], typeParams |-> Only(v[2], <<>>),
                   type |-> v[3]])

\* What is neither a handler nor a field is passed over, token by token.
ParseActorMember(p) ==
  CASE Peek(p) = "on" ->
         Node(p, <<Key("on"), Name, ParamList, Block>>,
              LAMBDA v : [is |-> "handler", name |-> v[1], params |-> v[2], body |-> v[3]])
    [] Peek(p) \in {"let", "const", "private"} ->
         Node(p, <<Take, Name, Key(":"), TypeAnnotation, Semicolons>>,
              LAMBDA v : StructField(v[2], FALSE, v[3]))
    [] OTHER -> Advance(p)

ParseActorDecl(p) ==
  Node(p, <<Key("actor"), Name, Key("{"), Many("}", <<Parse("ActorMember")>>), Key("}")>>,
       LAMBDA v : [is |-> "actor", name |-> v[1], handlers |-> Those(v[2], "handler"),
                   fields |-> Those(v[2], "field")])

\* The initial value of a field is parsed and dropped.
ParseStoreMember(p) ==
  IF Peek(p) \in {"async", "function"}
  THEN Reduce(ParseFunctionDecl(p, <<>>), 1,
              LAMBDA v : [is |-> "method", name |-> v[1].name, params |-> v[1].params,
                          returns |-> v[1].returns, body |-> v[1].body, async |-> v[1].async])
  ELSE Node(p, <<Name, Flag("?"), Key(":"), TypeAnnotation, Initial, Semicolons>>,
            LAMBDA v : StructField(v[1], v[2], v[3]))

ParseStoreDecl(p) ==
  Node(p, <<Key("store"), Name, Key("{"), Many("}", <<Parse("StoreMember")>>), Key("}")>>,
       LAMBDA v : [is |-> "store", name |-> v[1], methods |-> Those(v[2], "method"),
                   fields |-> Those(v[2], "field")])

------------------------------------------------------------------------------
(* Components                                                              *)

Folded(name) == CASE name = "Entry" -> "entry" [] name = "Prop" -> "prop" [] OTHER -> name

\* A field is a prop if the last of its decorators says so, else state.
ParseComponentField(p, decorators) ==
  Node(p, <<Name, Key(":"), TypeAnnotation, Initial, Semicolons>>,
       LAMBDA v : [is |-> IF decorators # <<>> /\ Folded(Last(decorators).name) = "prop"
                          THEN "prop" ELSE "state",
                   name |-> v[1], type |-> v[2], init |-> v[3]])

ParseComponentMember(p) ==
  LET decorated == Run([p EXCEPT !.vals = <<>>], <<Decorators>>)
      q == [decorated EXCEPT !.vals = p.vals]
  IN  CASE Peek(q) = "build" ->
             Node(q, <<Key("build"), Key("("), Key(")"), Key("{"), Parse("UINode"), Key("}")>>,
                  LAMBDA v : [is |-> "build", root |-> v[1]])
        [] Peek(q) \in {"async", "function"} ->
             Reduce(ParseFunctionDecl(q, <<>>), 1,
                    LAMBDA v : [is |-> "method", name |-> v[1].name, params |-> v[1].params,
                                body |-> v[1].body, async |-> v[1].async])
        [] Peek(q) = "IDENT" -> ParseComponentField(q, decorated.vals[1])
        [] OTHER -> Advance(q)

ParseComponentDecl(p, decorators) ==
  Node(p, <<Key("component"), Name, Key("{"), Many("}", <<Parse("ComponentMember")>>), Key("}")>>,
       LAMBDA v :
         LET builds == Those(v[2], "build")
         IN  [is |-> "component", name |-> v[1],
              entry |-> \E i \in DOMAIN decorators : Folded(decorators[i].name) = "entry",
              states |-> Those(v[2], "state"), props |-> Those(v[2], "prop"),
              lifecycle |-> Those(v[2], "method"),
              build |-> IF builds = <<>> THEN <<>> ELSE <<Last(builds).root>>])

EventNames == {"onClick", "onChange", "onFocus", "onBlur", "onSubmit", "onDrag", "onScroll",
               "onLongPress"}

ArrowFunc(params, returns, body) ==
  [is |-> "arrow", params |-> params, returns |-> returns, body |-> body]

\* A handler, a child, or a token passed over.
ParseUIItem(p) ==
  CASE Peek(p) = "IDENT" /\ Literal(p) \in EventNames /\ PeekAt(p, 1) = "=>" ->
         Node(p, <<Take, Key("=>"), Either({"{"}, <<Block, Mark>>, <<Expression>>)>>,
              LAMBDA v : [is |-> "event", name |-> v[1],
                          handler |-> IF Len(v[2]) = 2 THEN ArrowFunc(<<>>, <<>>, v[2][1])
                                      ELSE v[2][1]])
    [] Peek(p) \in {"IDENT"} \cup ContextualIdents
         /\ ~(Literal(p) \in EventNames /\ PeekAt(p, 1) = "=>") -> Do(p, Parse("UINode"))
    [] OTHER -> Advance(p)

UIModifiers == While(".", <<Parse("UIModifier")>>)

ParseUIModifier(p) ==
  Node(p, <<Key("."), Ident, Arguments>>,
       LAMBDA v : [is |-> "modifier", name |-> v[1], args |-> Only(v[2], <<>>)])

ParseUINode(p) ==
  Node(p, <<Ident, Arguments, UIModifiers,
            If("{", <<Many("}", <<Parse("UIItem")>>), Key("}")>>), UIModifiers>>,
       LAMBDA v : LET items == Only(v[4], <<>>) IN
         [is |-> "widget", name |-> v[1], args |-> Only(v[2], <<>>), modifiers |-> v[3] \o v[5],
          handlers |-> Those(items, "event"), children |-> Those(items, "widget")])

------------------------------------------------------------------------------
(* Statements                                                              *)

ParseVarDecl(p) ==
  Node(p, <<Take, Ident, Returns, Initial>>,
       LAMBDA v : [is |-> "var", kind |-> v[1], name |-> v[2], type |-> v[3], init |-> v[4]])

ParseReturn(p) ==
  Node(p, <<Key("return"), Either({";", "}", "EOF"}, <<>>, <<Expression>>), Semicolons>>,
       LAMBDA v : [is |-> "return", value |-> v[1]])

ParseIf(p) ==
  Node(p, <<Key("if"), Expression, Block,
            If("else", <<Either({"if"}, <<Statement>>, <<Block>>)>>)>>,
       LAMBDA v : [is |-> "if", test |-> v[1], then |-> v[2],
                   else |-> IF v[3] = <<>> THEN <<>> ELSE v[3][1]])

ParseWhile(p) ==
  Node(p, <<Key("while"), Expression, Block>>,
       LAMBDA v : [is |-> "while", test |-> v[1], body |-> v[2]])

ParseFor(p) ==
  IF PeekAt(p, 1) = "IDENT" /\ PeekAt(p, 2) = "in"
  THEN Node(p, <<Key("for"), Take, Key("in"), Expression, Block>>,
            LAMBDA v : [is |-> "forin", name |-> v[1], iterable |-> v[2], body |-> v[3]])
  ELSE Node(p, <<Key("for"), Flag("("),
                 Either({"let", "const", "var"}, <<Parse("VarDecl")>>, <<>>), Semicolons,
                 Either({";"}, <<>>, <<Expression>>), Semicolons,
                 Either({")", "{"}, <<>>, <<Expression>>), Flag(")"), Block>>,
            LAMBDA v : [is |-> "for", init |-> v[2], test |-> v[3], update |-> v[4],
                        body |-> v[6]])

ParseThrow(p) ==
  Node(p, <<Key("throw"), Expression, Semicolons>>,
       LAMBDA v : [is |-> "throw", value |-> v[1]])

ParseTryCatch(p) ==
  Node(p, <<Key("try"), Block,
            If("catch", <<If("(", <<Parse("Param"), Key(")")>>), Block>>),
            If("finally", <<Block>>)>>,
       LAMBDA v : [is |-> "try", try |-> v[1], catch |-> v[2], finally |-> v[3]])

ParseMatchArm(p) ==
  Node(p, <<Expression, Key("=>"), Block>>,
       LAMBDA v : [is |-> "arm", pattern |-> v[1], body |-> v[2]])

ParseMatch(p) ==
  Node(p, <<Key("match"), Expression, Key("{"), Many("}", <<Parse("MatchArm")>>), Key("}")>>,
       LAMBDA v : [is |-> "match", subject |-> v[1], arms |-> v[2]])

ParseSpawn(p) ==
  Node(p, <<Key("spawn"), Expression, Semicolons>>,
       LAMBDA v : [is |-> "spawn", call |-> v[1]])

\* loop and task: a keyword and a block.
ParseBody(p, t) ==
  Node(p, <<Key(t), Block>>, LAMBDA v : [is |-> t, body |-> v[1]])

\* break and continue.
ParseJump(p, t) == Node(p, <<Key(t), Semicolons>>, LAMBDA v : [is |-> t])

ParseBlock(p) ==
  Node(p, <<Key("{"), Many("}", <<Semicolons, Either({"}"}, <<>>, <<Statement>>)>>), Key("}")>>,
       LAMBDA v : [is |-> "block", body |-> FlattenSeq(v[1])])

ParseExprStatement(p) ==
  LET q == Node(p, <<Expression, Semicolons>>, LAMBDA v : [is |-> "expr", expr |-> v[1]])
  IN  IF q.pos = p.pos THEN Advance(q) ELSE q

\* Decorators are for functions, classes, structs and components; before
\* anything else they are parsed and dropped.
ParseDecorated(q, decs) ==
  LET t == Peek(q) IN
  CASE t = "import"    -> ParseImport(q)
    [] t = "export"    -> ParseExport(q)
    [] t = "function"  -> ParseFunctionDecl(q, decs)
    [] t = "class"     -> ParseClassDecl(q, decs)
    [] t = "struct"    -> ParseStructDecl(q, decs)
    [] t = "interface" -> ParseInterfaceDecl(q)
    [] t = "enum"      -> ParseEnumDecl(q)
    [] t = "type"      -> ParseTypeDecl(q)
    [] t = "actor"     -> ParseActorDecl(q)
    [] t = "store"     -> ParseStoreDecl(q)
    [] t = "component" -> ParseComponentDecl(q, decs)
    [] t \in {"let", "const", "var"} -> SkipSemicolon(ParseVarDecl(q))
    [] t = "return"    -> ParseReturn(q)
    [] t = "if"        -> ParseIf(q)
    [] t = "while"     -> ParseWhile(q)
    [] t = "for"       -> ParseFor(q)
    [] t \in {"loop", "task"} -> ParseBody(q, t)
    [] t \in {"break", "continue"} -> ParseJump(q, t)
    [] t = "throw"     -> ParseThrow(q)
    [] t = "try"       -> ParseTryCatch(q)
    [] t = "match"     -> ParseMatch(q)
    [] t = "spawn"     -> ParseSpawn(q)
    [] t = "{"         -> ParseBlock(q)
    [] OTHER           -> ParseExprStatement(q)

ParseStatement(p) ==
  LET decorated == Run([p EXCEPT !.vals = <<>>], <<Decorators>>)
  IN  ParseDecorated([decorated EXCEPT !.vals = p.vals], decorated.vals[1])

------------------------------------------------------------------------------
(* Expressions                                                             *)

Unary(op, operand)       == [is |-> "unary", op |-> op, operand |-> operand]
Binary(op, left, right)  == [is |-> "binary", op |-> op, left |-> left, right |-> right]

AssignOps == {"=", "+=", "-=", "*=", "/=", "%=", "&=", "|="}

RECURSIVE ParseAssignment(_), ParseOperators(_, _), ParseUnary(_), ParsePostfix(_),
          SkipParens(_, _)

TernaryFrom(q) ==
  IF Peek(q) # "?" THEN q
  ELSE Reduce(Run(q, <<Key("?"), Expression, Key(":"), Expression>>), 3,
              LAMBDA v : [is |-> "ternary", test |-> v[1], then |-> v[2], else |-> v[3]])

ParseTernary(p) == TernaryFrom(ParseOperators(ParseUnary(p), 1))

\* An assignment takes another one on its right; ch <- v sends v.
AssignmentFrom(q) ==
  CASE Peek(q) \in AssignOps ->
         Reduce(ParseAssignment(Advance(q)), 2,
                LAMBDA v : [is |-> "assign", op |-> Literal(q), left |-> v[1], right |-> v[2]])
    [] Peek(q) = "<-" ->
         Reduce(Run(q, <<Key("<-"), Expression>>), 2,
                LAMBDA v : [is |-> "send", channel |-> v[1], value |-> v[2]])
    [] OTHER -> q

ParseAssignment(p) == AssignmentFrom(ParseTernary(p))

\* The binary operators, the loosest first.
Levels == <<{"??"}, {"||"}, {"&&"}, {"==", "!="}, {"<", ">", "<=", ">="}, {"+", "-"},
            {"*", "/", "%"}>>

Level(t) == IF \E k \in DOMAIN Levels : t \in Levels[k]
            THEN CHOOSE k \in DOMAIN Levels : t \in Levels[k] ELSE 0

\* Slip: operators of one level that group to the right.
ParseOperatorsRight(p, k) ==
  LET j == Level(Peek(p))
  IN  IF j = 0 \/ j < k THEN p
      ELSE ParseOperators(Reduce(ParseOperators(ParseUnary(Advance(p)), j), 2,
                                 LAMBDA v : Binary(Literal(p), v[1], v[2])), k)

\* Past its first operand: the operators of the level k and tighter, those of
\* one level from the left.
ParseOperators(p, k) ==
  LET j == Level(Peek(p))
  IN  IF j = 0 \/ j < k THEN p
      ELSE ParseOperators(Reduce(ParseOperators(ParseUnary(Advance(p)), j + 1), 2,
                                 LAMBDA v : Binary(Literal(p), v[1], v[2])), k)

UnaryOps == {"!", "-", "await", "try", "<-"}

\* Is the < of a call with type arguments next?
IsTypeArg(p) == PeekAt(p, 1) = "IDENT" /\ PeekAt(p, 2) \in {">", ",", "["}

TypeArguments == <<Key("<"), TypeAnnotation, While(",", <<Key(","), TypeAnnotation>>), Key(">")>>
ArgList       == <<Key("("), List(")", <<Expression>>), Key(")")>>

Call(callee, types, args) == [is |-> "call", callee |-> callee, types |-> types, args |-> args]

ParsePostfix(p) ==
  CASE Peek(p) = "." \/ (Peek(p) = "?" /\ PeekAt(p, 1) = ".") ->
         ParsePostfix(Reduce(Run(p, <<Flag("?"), Key("."), Ident>>), 3,
           LAMBDA v : [is |-> "member", object |-> v[1], optional |-> v[2], name |-> v[3]]))
    [] Peek(p) = "[" ->
         ParsePostfix(Reduce(Run(p, <<Key("["), Expression, Key("]")>>), 2,
           LAMBDA v : [is |-> "index", object |-> v[1], index |-> v[2]]))
    [] Peek(p) = "(" ->
         ParsePostfix(Reduce(Run(p, ArgList), 2, LAMBDA v : Call(v[1], <<>>, v[2])))
    [] Peek(p) = "<" /\ IsTypeArg(p) ->
         ParsePostfix(Reduce(Run(p, TypeArguments \o ArgList), 4,
           LAMBDA v : Call(v[1], <<v[2]>> \o v[3], v[4])))
    [] Peek(p) = "as" ->
         ParsePostfix(Reduce(Run(p, <<Key("as"), TypeAnnotation>>), 2,
           LAMBDA v : [is |-> "as", value |-> v[1], type |-> v[2]]))
    [] OTHER -> p

Literals == {"INT", "FLOAT", "STRING", "BOOL", "null"}

ParseNew(p) ==
  Node(p, <<Key("new"), Ident, Either({"<"}, TypeArguments, <<>>)>> \o ArgList,
       LAMBDA v : [is |-> "new", name |-> v[1], args |-> v[3],
                   types |-> IF v[2] = <<>> THEN <<>> ELSE <<v[2][1]>> \o v[2][2]])

ParseObjectField(p) ==
  Node(p, <<Ident, Key(":"), Expression>>,
       LAMBDA v : [is |-> "entry", name |-> v[1], value |-> v[2]])

\* Past the parenthesis that closes depth of them.
SkipParens(p, depth) ==
  IF depth = 0 \/ Peek(p) = "EOF" THEN p
  ELSE SkipParens(Advance(p), CASE Peek(p) = "(" -> depth + 1
                                [] Peek(p) = ")" -> depth - 1
                                [] OTHER -> depth)

IsArrowFunc(p) == Peek(SkipParens(Advance(p), 1)) = "=>"

ParseArrowFunc(p) ==
  Node(p, <<ParamList, Returns, Key("=>"), Either({"{"}, <<Block>>, <<Expression>>)>>,
       LAMBDA v : ArrowFunc(v[1], v[2], v[3][1]))

ParsePrimary(p) ==
  LET t == Peek(p) IN
  CASE t \in Literals ->
         Push(Advance(p), [is |-> "literal", type |-> t, value |-> Literal(p)])
    [] t \in {"IDENT", "this", "super"} \cup ContextualIdents ->
         Push(Advance(p), [is |-> "ident", name |-> Literal(p)])
    [] t = "new" -> ParseNew(p)
    [] t = "[" ->
         Node(p, <<Key("["), List("]", <<Expression>>), Key("]")>>,
              LAMBDA v : [is |-> "array", elements |-> v[1]])
    [] t = "{" ->
         Node(p, <<Key("{"), List("}", <<Parse("ObjectField")>>), Key("}")>>,
              LAMBDA v : [is |-> "object", fields |-> v[1]])
    [] t = "(" /\ IsArrowFunc(p)  -> ParseArrowFunc(p)
    [] t = "(" /\ ~IsArrowFunc(p) -> Run(p, <<Key("("), Expression, Key(")")>>)
    [] OTHER -> Push(Advance(Failed(p)), [is |-> "literal", type |-> "null", value |-> "null"])

ParseUnary(p) ==
  IF Peek(p) \notin UnaryOps THEN ParsePostfix(ParsePrimary(p))
  ELSE Reduce(ParseUnary(Advance(p)), 1, LAMBDA v : Unary(Literal(p), v[1]))

------------------------------------------------------------------------------
(* The forms                                                               *)

\* Once round a loop: in a list, a comma unless it closes.
Round(p, f) ==
  LET q == Run(p, f.of)
  IN  IF f.form = "list" /\ Peek(q) # f.t THEN Consume(q, ",") ELSE q

LoopDone(p, f) == IF f.form = "while" THEN Peek(p) # f.t ELSE Peek(p) \in {f.t, "EOF"}

Loop(p, f) ==
  IF LoopDone(p, f) THEN p
  ELSE LET q == Round(p, f)
       IN  IF q.pos = p.pos THEN [q EXCEPT !.stuck = TRUE] ELSE Loop(q, f)

Do(p, f) ==
  CASE f.form = "key"        -> Consume(p, f.t)
    [] f.form = "word"       -> Push(Consume(p, f.t), Literal(p))
    [] f.form = "take"       -> Push(Advance(p), Literal(p))
    [] f.form = "semicolons" -> SkipSemicolon(p)
    [] f.form = "flag"       -> Push(IF Peek(p) = f.t THEN Advance(p) ELSE p, Peek(p) = f.t)
    [] f.form = "either"     -> Group(p, IF Peek(p) \in f.t THEN f.of ELSE f.or)
    [] f.form \in {"many", "list", "while"} ->
         LET q == Loop([p EXCEPT !.vals = <<>>], f)
         IN  [q EXCEPT !.vals = Append(p.vals, q.vals)]
    [] f.form = "Ident"           -> ParseIdent(p)
    [] f.form = "Expression"      -> ParseAssignment(p)
    [] f.form = "Statement"       -> ParseStatement(p)
    [] f.form = "Block"           -> ParseBlock(p)
    [] f.form = "TypeAnnotation"  -> ParseTypeAnnotation(p)
    [] f.form = "SingleType"      -> ParseSingleType(p)
    [] f.form = "Brackets"        -> ParseBrackets(p)
    [] f.form = "ParamList"       -> ParseParamList(p)
    [] f.form = "Param"           -> ParseParam(p)
    [] f.form = "Decorator"       -> ParseDecorator(p)
    [] f.form = "ImportName"      -> ParseImportName(p)
    [] f.form = "ClassMember"     -> ParseClassMember(p)
    [] f.form = "Member"          -> ParseMember(p)
    [] f.form = "StructField"     -> ParseStructField(p)
    [] f.form = "InterfaceMember" -> ParseInterfaceMember(p)
    [] f.form = "EnumMember"      -> ParseEnumMember(p)
    [] f.form = "ActorMember"     -> ParseActorMember(p)
    [] f.form = "StoreMember"     -> ParseStoreMember(p)
    [] f.form = "ComponentMember" -> ParseComponentMember(p)
    [] f.form = "UINode"          -> ParseUINode(p)
    [] f.form = "UIItem"          -> ParseUIItem(p)
    [] f.form = "UIModifier"      -> ParseUIModifier(p)
    [] f.form = "VarDecl"         -> ParseVarDecl(p)
    [] f.form = "MatchArm"        -> ParseMatchArm(p)
    [] f.form = "ObjectField"     -> ParseObjectField(p)

\* The program: statements to the end of the file.
Program == Many("EOF", <<Semicolons, Either({"EOF"}, <<>>, <<Statement>>)>>)

ParseProgram(tokens) ==
  LET p == Run(New(tokens), <<Program>>)
  IN  [statements |-> FlattenSeq(p.vals[1]), errors |-> p.errors,
       ended |-> ~p.stuck /\ p.pos > Len(tokens)]

==============================================================================
