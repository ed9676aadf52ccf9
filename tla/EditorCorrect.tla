---------------------------- MODULE EditorCorrect -----------------------------
(* What the language server, the lexer, the parser and the checker promise. *)
EXTENDS Documents, LanguageServer

CONSTANT Canonical  \* texts as Syntax writes them

S == INSTANCE Syntax

\* What was last published of a document, if anything.
Published(u) == published[u].of # ""

\* The tokens as they are written.
Lexeme(token) == IF token.t = "STRING" THEN "\"" \o token.v \o "\"" ELSE token.v
Lexemes(tokens) == [i \in DOMAIN tokens |-> Lexeme(tokens[i])]

Essential(words) == SelectSeq(words, LAMBDA w : w \notin {"(", ")", ";", ","})

\* The parser gets to the end of every text, right or wrong: each of its loops
\* over statements, members, arguments and types consumes a token each time
\* round (Parse, parseBlock, consume and the rest of parser.go).
ParserEnds == \A u \in Uris : Published(u) => published[u].found.program.ended

\* A text in its canonical form has no errors, and the tree the parser makes
\* of it is the one that is written so: precedence, grouping, and every
\* optional part of every declaration, statement and expression.
ParsesBack ==
  \A u \in Uris : (Published(u) /\ published[u].of \in Canonical) =>
    /\ published[u].found.lexed.errors = 0
    /\ published[u].found.program.errors = 0
    /\ S!WordsOf(published[u].found.program.statements) = Lexemes(published[u].found.lexed.tokens)

\* Where the parser drops what it has read: of these declarations it keeps
\* what it understands, of a union the first name, of a function type the last
\* parameter, of decorators those it has a use for, and no empty brackets.
Dropping == {"import", "export", "class", "interface", "actor", "store", "component", "|", "@"}

Keeping(tokens) ==
  \A i \in DOMAIN tokens : /\ tokens[i].t \notin Dropping
                           /\ i > 1 => <<tokens[i - 1].t, tokens[i].t>>
                                         \notin {<<":", "(">>, <<"<", ">">>, <<"]", "[">>}

\* Whatever is typed, if the parser finds no error it drops nothing: all the
\* words of the text are in the tree, in order, except for what punctuation
\* leaves open (parseStatement and parseExpression and all below them).
NothingLost ==
  \A u \in Uris :
    (Published(u) /\ published[u].found.program.errors = 0 /\ Keeping(published[u].found.lexed.tokens)) =>
      Essential(S!WordsOf(published[u].found.program.statements))
        = Essential(Lexemes(published[u].found.lexed.tokens))

\* The tree is the text: one written in the canonical form comes back as it
\* was, and of any other without errors nothing is lost (parser.go).
TreeIsText == ParsesBack /\ NothingLost

------------------------------------------------------------------------------
(* Names that no declaration around them or before them binds              *)

Bound(params) == {params[i].name : i \in DOMAIN params}

RECURSIVE Free(_, _), FreeIn(_, _), Declares(_)
FreeAll(es, bound) == UNION {Free(es[i], bound) : i \in DOMAIN es}

\* What a statement adds to the names of the block it stands in.
Declares(s) ==
  CASE s.is \in {"var", "function", "class", "struct", "enum", "interface", "component", "actor"} ->
         {s.name}
    [] s.is = "import" -> Bound(s.names)
    [] s.is = "export" -> UNION {Declares(s.declaration[i]) : i \in DOMAIN s.declaration}
    [] OTHER -> {}

\* Of a list of statements.
FreeIn(body, bound) ==
  FoldLeft(LAMBDA a, s : [free |-> a.free \cup Free(s, a.bound),
                          bound |-> a.bound \cup Declares(s)],
           [free |-> {}, bound |-> bound], body).free

Free(n, bound) ==
  CASE n.is = "ident"   -> {n.name} \ bound
    [] n.is = "block"   -> FreeIn(n.body, bound)
    [] n.is = "var"     -> FreeAll(n.init, bound)
    [] n.is = "expr"    -> Free(n.expr, bound)
    [] n.is \in {"return", "throw"} ->
         IF n.is = "throw" THEN Free(n.value, bound) ELSE FreeAll(n.value, bound)
    [] n.is = "spawn"   -> Free(n.call, bound)
    [] n.is \in {"function", "method", "arrow"} -> Free(n.body, bound \cup Bound(n.params))
    [] n.is \in {"loop", "task"} -> Free(n.body, bound)
    [] n.is = "while"   -> Free(n.test, bound) \cup Free(n.body, bound)
    [] n.is = "if"      -> FreeAll(<<n.test, n.then>> \o n.else, bound)
    [] n.is = "forin"   -> Free(n.iterable, bound) \cup Free(n.body, bound \cup {n.name})
    [] n.is = "for"     -> FreeIn(n.init \o n.test \o n.update \o <<n.body>>, bound)
    [] n.is = "try"     ->
         Free(n.try, bound) \cup FreeAll(n.finally, bound)
           \cup (IF n.catch = <<>> THEN {} ELSE Free(n.catch[2], bound \cup Bound(n.catch[1])))
    [] n.is = "match"   -> Free(n.subject, bound) \cup FreeAll(n.arms, bound)
    [] n.is = "arm"     -> Free(n.pattern, bound) \cup Free(n.body, bound)
    [] n.is = "class"   -> FreeAll(SelectSeq(n.members, LAMBDA m : m.is = "method"),
                                   bound \cup {"this"})
    [] n.is = "component" -> FreeAll(n.lifecycle, bound \cup Bound(n.states))
    [] n.is = "export"  -> FreeAll(n.declaration, bound)
    [] n.is = "binary"  -> Free(n.left, bound) \cup Free(n.right, bound)
    [] n.is = "assign"  -> Free(n.left, bound) \cup Free(n.right, bound)
    [] n.is = "unary"   -> Free(n.operand, bound)
    [] n.is = "call"    -> Free(n.callee, bound) \cup FreeAll(n.args, bound)
    [] n.is = "member"  -> Free(n.object, bound)
    [] n.is = "index"   -> Free(n.object, bound) \cup Free(n.index, bound)
    [] n.is = "ternary" -> FreeAll(<<n.test, n.then, n.else>>, bound)
    [] n.is = "array"   -> FreeAll(n.elements, bound)
    [] n.is = "object"  -> UNION {Free(n.fields[i].value, bound) : i \in DOMAIN n.fields}
    [] n.is = "new"     -> FreeAll(n.args, bound)
    [] n.is = "as"      -> Free(n.value, bound)
    [] n.is = "send"    -> Free(n.channel, bound) \cup Free(n.value, bound)
    [] OTHER -> {}

\* The functions and types of the top level are known from its start.
Hoisted(statements) ==
  UNION {Declares(statements[i]) : i \in {i \in DOMAIN statements : statements[i].is # "var"}}

\* A name the checker calls undefined is one: nothing around it, nothing
\* before it in its block and nothing at the top level declares it (the
\* environments of checkStmt, checkBlock and checkFunctionDecl).
AlarmsRight ==
  \A u \in Uris : (Published(u) /\ published[u].found.program.errors = 0) =>
    published[u].found.checked.undefined \subseteq
      FreeIn(published[u].found.program.statements,
             {"print", "log"} \cup Hoisted(published[u].found.program.statements))

------------------------------------------------------------------------------
(* The server                                                              *)

\* The server goes on after a text with the types the documentation of the
\* language shows (resolveTypeAnnotation on the unions of parseTypeAnnotation).
KeepsRunning == running

Answered(method) == {i \in DOMAIN answers : answers[i].method = method}

\* No string in the text has a colon: there FormatLine puts a blank.
NoColonQuoted(tokens) == \A i \in DOMAIN tokens : tokens[i].t = "STRING" => ~Mentions(tokens[i].v, ":")

\* Formatting keeps the tokens of a text, and what is formatted stays as it
\* is when it is formatted again (Format, formatLine, countLeadingClosers).
FormatKeeps ==
  \A i \in Answered("formatting") :
    LET before == L!Tokenize(answers[i].for)
        after  == answers[i].result[1]
    IN  NoColonQuoted(before.tokens) =>
          L!Tokenize(after) = before /\ Format(after) = after

Word(a) == GetWordAtPosition(a.for, a.pos)

\* A name that is no part of another word or of a comment.
Alone(src, word) ==
  LET tokens == L!Tokenize(src).tokens
      same   == {i \in DOMAIN tokens : tokens[i] = [t |-> "IDENT", v |-> word]}
  IN  /\ same # {}
      /\ \A i \in DOMAIN tokens \ same : ~Mentions(tokens[i].v, word)
      /\ Cardinality({i \in 1..Len(src) : Index(src, word, i) = i}) = Cardinality(same)

\* Renaming a name that is no part of another one renames it everywhere and
\* changes nothing else; its definition, if one is found, is where the name
\* stands behind a word that declares it (findReferences, findDefinition).
NavigationRight ==
  /\ \A i \in Answered("rename") :
       LET a == answers[i]
           t == L!Tokenize(a.for).tokens
       IN  Alone(a.for, Word(a)) =>
             L!Tokenize(Renamed(a.for, a.result)).tokens =
               [k \in DOMAIN t |-> IF t[k] = [t |-> "IDENT", v |-> Word(a)]
                                   THEN [t[k] EXCEPT !.v = NewName] ELSE t[k]]
  /\ \A i \in Answered("definition") :
       LET a    == answers[i]
           at   == a.result[1]
           line == SplitLines(a.for)[at.line]
       IN  (Alone(a.for, Word(a)) /\ at # Nowhere) =>
             /\ SubSeq(line, at.from, at.to) = Word(a)
             /\ \E d \in Declarators : /\ at.from > Len(d)
                                       /\ SubSeq(line, at.from - Len(d), at.from - 1) = d

\* What the client is given to apply keeps its text what it is: a formatting
\* keeps the tokens, a rename changes one name and no other (handleRequest).
AnswersRight == FormatKeeps /\ NavigationRight

==============================================================================
