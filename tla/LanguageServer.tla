---------------------------- MODULE LanguageServer ----------------------------
(***************************************************************************)
(* compiler/lsp/server.go and compiler/formatter/formatter.go: what nills, *)
(* the language server, finds in a text and answers about it; Documents    *)
(* has the requests.  A text is a string; lines and characters count from  *)
(* 1 here, from 0 there.                                                   *)
(***************************************************************************)
EXTENDS Integers, Sequences, SequencesExt, TLC

CONSTANT NewName  \* the new name in a rename

L == INSTANCE Lexer
P == INSTANCE Parser
C == INSTANCE Types

Nowhere == [line |-> 0, from |-> 0, to |-> 0]

------------------------------------------------------------------------------
(* Lines and words                                                         *)

JoinLines(lines) ==
  FoldLeft(LAMBDA s, i : IF i = 1 THEN lines[1] ELSE s \o "\n" \o lines[i], "",
           [i \in DOMAIN lines |-> i])

\* Where the word first is from a place on; 0 if it is nowhere.
Index(line, word, from) ==
  LET at == {i \in from..(Len(line) - Len(word) + 1) : SubSeq(line, i, i + Len(word) - 1) = word}
  IN  IF at = {} THEN 0 ELSE CHOOSE i \in at : \A j \in at : i <= j

\* The text cut at its line ends.
RECURSIVE SplitLines(_)
SplitLines(s) ==
  LET at == Index(s, "\n", 1)
  IN  IF at = 0 THEN <<s>> ELSE <<SubSeq(s, 1, at - 1)>> \o SplitLines(SubSeq(s, at + 1, Len(s)))

Mentions(line, word) == Index(line, word, 1) # 0

IdentChars == L!Letters \cup L!Digits \cup {"_"}

CharAt(line, i) == IF i \in 1..Len(line) THEN SubSeq(line, i, i) ELSE ""

\* The letters, digits and underscores around a place; "" beyond the line.
GetWordAtPosition(src, pos) ==
  LET lines == SplitLines(src)
      line  == lines[pos.line]
      inside(i, j) == \A k \in i..j : CharAt(line, k) \in IdentChars
      start == CHOOSE i \in 1..pos.character : /\ inside(i, pos.character - 1)
                                               /\ ~inside(i - 1, pos.character - 1)
      end   == CHOOSE j \in (pos.character - 1)..Len(line) :
                 inside(pos.character, j) /\ ~inside(pos.character, j + 1)
  IN  IF pos.line > Len(lines) \/ pos.character > Len(line) THEN "" ELSE SubSeq(line, start, end)

Declarators == {"function ", "struct ", "component ", "let ", "const "}

Place(line, at, word) == [line |-> line, from |-> at, to |-> at + Len(word) - 1]

\* The first line that declares the word, or one that begins with it; where
\* the word first is on that line.
FindDefinition(src, pos) ==
  LET word  == GetWordAtPosition(src, pos)
      lines == SplitLines(src)
      where == {i \in DOMAIN lines : \E d \in Declarators : Mentions(lines[i], d \o word)}
      first == CHOOSE i \in where : \A j \in where : i <= j
      at    == Index(lines[first], word, 1)
  IN  IF word = "" \/ where = {} THEN Nowhere
      ELSE Place(first, at, word)

RECURSIVE Occurrences(_, _, _)
Occurrences(line, word, from) ==
  LET at == Index(line, word, from)
  IN  IF at = 0 THEN <<>> ELSE <<at>> \o Occurrences(line, word, at + Len(word))

\* Every place where the word is written, as a word or as part of one.
FindReferences(src, pos) ==
  LET word  == GetWordAtPosition(src, pos)
      lines == SplitLines(src)
      on(i) == LET at == Occurrences(lines[i], word, 1)
               IN  [k \in DOMAIN at |-> Place(i, at[k], word)]
  IN  IF word = "" THEN <<>>
      ELSE FoldLeft(LAMBDA found, i : found \o on(i), <<>>, [i \in DOMAIN lines |-> i])

------------------------------------------------------------------------------
(* Formatting                                                              *)

RECURSIVE TrimSpace(_)
TrimSpace(s) ==
  CASE s = "" -> s
    [] CharAt(s, 1) \in L!Blanks -> TrimSpace(SubSeq(s, 2, Len(s)))
    [] CharAt(s, Len(s)) \in L!Blanks -> TrimSpace(SubSeq(s, 1, Len(s) - 1))
    [] OTHER -> s

Count(s, chars) == Cardinality({i \in 1..Len(s) : CharAt(s, i) \in chars})

CountLeadingClosers(s) ==
  LET other == {i \in 1..Len(s) : CharAt(s, i) \notin {"}", ")", " ", "\t"}}
      end   == IF other = {} THEN Len(s) ELSE (CHOOSE i \in other : \A j \in other : i <= j) - 1
  IN  Count(SubSeq(s, 1, end), {"}", ")"})

RECURSIVE BlankAfter(_, _)

\* A blank after each colon that is not followed by one of those characters.
BlankAfter(s, but) ==
  LET colons == {i \in 1..Len(s) : CharAt(s, i) = ":" /\ CharAt(s, i + 1) \notin but}
      at     == CHOOSE i \in colons : \A j \in colons : i <= j
  IN  IF colons = {} THEN s
      ELSE SubSeq(s, 1, at) \o " " \o BlankAfter(SubSeq(s, at + 1, Len(s)), but)

\* Slip: a blank after a colon that has one.
FormatLineAgain(s) == BlankAfter(s, {})

FormatLine(s) == BlankAfter(s, {"", " ", ":"})

Below(a, b) == IF a < b THEN 0 ELSE a - b

Indented(n, s) == FoldLeft(LAMBDA t, i : "    " \o t, s, [i \in 1..n |-> i])

\* One line after those formatted: its own indentation, and that of the next.
FormatNext(f, line) ==
  LET s        == TrimSpace(line)
      comment  == f.comment \/ SubSeq(s \o "  ", 1, 2) = "/*"
      write(n, t) == [f EXCEPT !.lines = Append(@, Indented(n, t))]
  IN  CASE s = "" -> [f EXCEPT !.lines = Append(@, "")]
        [] s # "" /\ comment ->
             [write(f.indent, s) EXCEPT !.comment = ~Mentions(s, "*/")]
        [] s # "" /\ ~comment /\ SubSeq(s \o "  ", 1, 2) = "//" -> write(f.indent, s)
        [] OTHER ->
             [write(Below(f.indent, CountLeadingClosers(s)), FormatLine(s)) EXCEPT !.indent =
                Below(f.indent + Count(s, {"{", "("}), Count(s, {"}", ")"}))]

Format(src) ==
  JoinLines(FoldLeft(FormatNext, [lines |-> <<>>, indent |-> 0, comment |-> FALSE],
                     SplitLines(src)).lines)

------------------------------------------------------------------------------
(* The server and its client                                               *)

\* What the lexer, the parser and the checker say of a text.
Diagnose(src) ==
  LET lexed   == L!Tokenize(src)
      program == P!ParseProgram(lexed.tokens)
  IN  [lexed |-> lexed, program |-> program, checked |-> C!CheckProgram(program.statements)]

\* The cursor is at the first character of a word.
Positions(t) ==
  LET lines == SplitLines(t) IN
  UNION {{[line |-> i, character |-> k] :
            k \in {k \in 1..Len(lines[i]) : /\ CharAt(lines[i], k) \in L!Letters
                                            /\ CharAt(lines[i], k - 1) \notin IdentChars}} :
         i \in DOMAIN lines}

\* The edits of a rename, made from the last to the first.
Renamed(t, places) ==
  JoinLines(FoldRight(LAMBDA e, lines : [lines EXCEPT ![e.line] =
                        SubSeq(@, 1, e.from - 1) \o NewName \o SubSeq(@, e.to + 1, Len(@))],
                      places, SplitLines(t)))
==============================================================================
