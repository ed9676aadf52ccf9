-------------------------------- MODULE Lexer --------------------------------
(***************************************************************************)
(* compiler/lexer/lexer.go and token.go: text to tokens [t, v], a type and *)
(* a literal; the type of a keyword or an operator is how it is written.   *)
(* A lexer l has the text, the position of the next character, the number  *)
(* of errors, the literal being read and the tokens read before.  Left     *)
(* out: positions in lines and columns, characters beyond ASCII and the    *)
(* character 0, which the Go code takes for the end; here the end is "".   *)
(***************************************************************************)
EXTENDS Integers, Sequences, TLC

Characters(s) == {SubSeq(s, i, i) : i \in 1..Len(s)}

Letters == Characters("abcdefghijklmnopqrstuvwxyzABCDEFGHIJKLMNOPQRSTUVWXYZ")
Digits  == Characters("0123456789")
Backquote == "$"       \* strings of TLA+ have no such character; $ is in no token
Blanks  == {" ", "\t", "\r", "\n"}

Keywords ==
  {"function", "return", "let", "const", "var", "if", "else", "while", "for", "in", "break",
   "continue", "import", "export", "from", "as", "class", "struct", "interface", "enum", "type",
   "new", "this", "super", "implements", "extends", "public", "private", "protected", "readonly",
   "static", "abstract", "async", "await", "task", "spawn", "actor", "on", "select", "match",
   "loop", "void", "any", "sendable", "native", "null", "undefined", "try", "throw", "catch",
   "finally", "typeof", "instanceof", "of", "component", "build", "state", "prop", "computed",
   "store", "app", "router", "route", "theme"}

LookupIdent(s) ==
  CASE s \in {"true", "false"} -> "BOOL" [] s \in Keywords -> s [] OTHER -> "IDENT"

Operators ==
  {"+", "+=", "-", "-=", "->", "*", "**", "*=", "/", "/=", "%", "%=", "&", "&&", "&=", "|", "||",
   "|=", "!", "!=", "=", "==", "=>", "<", "<-", "<<", "<=", ">", ">>", ">=", "?", "??", ".", "..",
   "...", "(", ")", "{", "}", "[", "]", ":", ";", ",", "@", "#", "^", "~"}

------------------------------------------------------------------------------
(* Characters and blanks                                                   *)

NewLexer(text) == [text |-> text, pos |-> 1, errors |-> 0, lit |-> "",
                    tokens |-> <<>>, end |-> FALSE]

PeekAt(l, k) ==
  IF l.pos + k > Len(l.text) THEN "" ELSE SubSeq(l.text, l.pos + k, l.pos + k)

Peek(l)       == PeekAt(l, 0)
Advance(l, n) == [l EXCEPT !.pos = @ + n]
Failed(l)     == [l EXCEPT !.errors = @ + 1]
Write(l, s)   == [l EXCEPT !.lit = @ \o s]

RECURSIVE SkipBlanks(_), SkipLine(_), SkipComment(_), SkipAll(_, _)

SkipAll(l, chars) == IF Peek(l) \in chars THEN SkipAll(Advance(l, 1), chars) ELSE l

SkipLine(l) == IF Peek(l) \in {"", "\n"} THEN l ELSE SkipLine(Advance(l, 1))

SkipComment(l) ==
  CASE Peek(l) = "" -> Failed(l)
    [] Peek(l) = "*" /\ PeekAt(l, 1) = "/" -> Advance(l, 2)
    [] OTHER -> SkipComment(Advance(l, 1))

SkipBlanks(l) ==
  CASE Peek(l) \in Blanks -> SkipBlanks(Advance(l, 1))
    [] Peek(l) = "/" /\ PeekAt(l, 1) = "/" -> SkipBlanks(SkipLine(l))
    [] Peek(l) = "/" /\ PeekAt(l, 1) = "*" -> SkipBlanks(SkipComment(Advance(l, 2)))
    [] OTHER -> l

------------------------------------------------------------------------------
(* Tokens: a reader returns the lexer past the token and its type          *)

Read(l, t) == [lexer |-> l, t |-> t]

Escaped(c) ==
  CASE c = "n" -> "\n" [] c = "t" -> "\t" [] c = "r" -> "\r" [] c = "0" -> "0"
    [] c \in {"\\", "\"", "'", Backquote} -> c
    [] OTHER -> "\\" \o c

\* A template keeps its escapes as they are written.
RECURSIVE ReadString(_, _)
ReadString(l, quote) ==
  LET c == Peek(l)
      e == PeekAt(l, 1)
  IN  CASE c = ""    -> Failed(l)
        [] c = quote -> Advance(l, 1)
        [] c = "\\"  -> ReadString(Write(Advance(l, IF e = "" THEN 1 ELSE 2),
                                         IF quote = Backquote THEN "\\" \o e ELSE Escaped(e)), quote)
        [] OTHER     -> ReadString(Write(Advance(l, 1), c), quote)

ReadChar(l) ==
  LET escape == Peek(l) = "\\"
      read   == Advance(l, IF escape THEN 2 ELSE 1)
      c      == PeekAt(l, IF escape THEN 1 ELSE 0)
      wrote  == Write(read, IF escape /\ c \in {"n", "t"} THEN Escaped(c) ELSE c)
  IN  IF Peek(wrote) = "'" THEN Advance(wrote, 1) ELSE Failed(wrote)

Spelled(from, to) == Write(to, SubSeq(from.text, from.pos, to.pos - 1))

\* 1, 1.5, 1e9, 1.5e-9: an exponent may have no digits.
ReadNumber(l) ==
  LET whole    == SkipAll(l, Digits)
      point    == Peek(whole) = "." /\ PeekAt(whole, 1) \in Digits
      fraction == IF point THEN SkipAll(Advance(whole, 1), Digits) ELSE whole
      exponent == Peek(fraction) \in {"e", "E"}
      signed   == Advance(fraction, IF PeekAt(fraction, 1) \in {"+", "-"} THEN 2 ELSE 1)
  IN  Read(Spelled(l, IF exponent THEN SkipAll(signed, Digits) ELSE fraction),
           IF point \/ exponent THEN "FLOAT" ELSE "INT")

ReadIdent(l) ==
  LET end == Spelled(l, SkipAll(l, Letters \cup Digits \cup {"_"}))
  IN  Read(end, LookupIdent(end.lit))

\* The longest operator there is.
ReadOperator(l) ==
  LET two   == Peek(l) \o PeekAt(l, 1)
      three == two \o PeekAt(l, 2)
      op    == CASE three \in Operators -> three
                 [] two \in Operators /\ three \notin Operators -> two
                 [] OTHER -> Peek(l)
  IN  Read(Write(Advance(l, Len(op)), op), op)

\* After SkipBlanks, and before the end.
NextToken(l) ==
  LET c == Peek(l) IN
  CASE c \in Letters \cup {"_"} -> ReadIdent(l)
    [] c \in Digits -> ReadNumber(l)
    [] c \in {"\"", Backquote} -> Read(ReadString(Advance(l, 1), c), "STRING")
    [] c = "'" /\ PeekAt(l, 1) # "'" -> Read(ReadChar(Advance(l, 1)), "CHAR")
    [] c = "'" /\ PeekAt(l, 1) = "'" -> Read(ReadString(Advance(l, 1), c), "STRING")
    [] c \in Operators -> ReadOperator(l)
    [] OTHER -> Read(Write(Failed(Advance(l, 1)), c), "ILLEGAL")

\* As many tokens as there are, but at most 2^k: the recursion is k deep.
RECURSIVE Tokens(_, _)
Tokens(l, k) ==
  LET at   == SkipBlanks([l EXCEPT !.lit = ""])
      next == NextToken(at)
      half == Tokens(l, k - 1)
  IN  CASE k > 0 /\ half.end -> half
        [] k > 0 /\ ~half.end -> Tokens(half, k - 1)
        [] k = 0 /\ Peek(at) = "" -> [at EXCEPT !.end = TRUE]
        [] k = 0 /\ Peek(at) # "" ->
             [next.lexer EXCEPT !.tokens = Append(@, [t |-> next.t, v |-> next.lexer.lit])]

\* Bound: 1024 tokens.
Tokenize(text) ==
  LET l == Tokens(NewLexer(text), 10) IN [tokens |-> l.tokens, errors |-> l.errors]

==============================================================================
