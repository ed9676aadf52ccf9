------------------------------- MODULE Values --------------------------------
(***************************************************************************)
(* The values of runtime/vm/vm.go and the operations on them.  A value has *)
(* a kind, a number (of an int, bool or float; the index of a function; the*)
(* place of an array or an object in the heap) and a string; an array is a *)
(* window of "len" elements after the first "off" of its place, as a Go    *)
(* slice is.  Left out: fractions (and so division of what is no integer), *)
(* bytes, native functions, channels (the VM never makes one), 64-bit      *)
(* overflow, the methods of strings, and what shows the order of a Go map. *)
(***************************************************************************)
EXTENDS Integers, Sequences, SequencesExt, TLC

Values == [kind : STRING, n : Int, s : STRING, off : Int, len : Int]

Value(kind, n, s) == [kind |-> kind, n |-> n, s |-> s, off |-> 0, len |-> 0]

Nil              == Value("nil", 0, "")
BoolVal(b)       == Value("bool", IF b THEN 1 ELSE 0, "")
IntVal(n)        == Value("int", n, "")
FloatVal(n)      == Value("float", n, "")
StrVal(s)        == Value("string", 0, s)
FuncVal(i, name) == Value("func", i, name)
ObjVal(place)    == Value("object", place, "")
ArrayVal(place, off, len) ==
  [Value("array", place, "") EXCEPT !.off = off, !.len = len]

\* The integer and the string of a value of any kind.
IntOf(v) == IF v.kind = "int" THEN v.n ELSE 0
StrOf(v) == IF v.kind = "string" THEN v.s ELSE ""

------------------------------------------------------------------------------
(* The heap: the elements of arrays and the fields of objects, by place.   *)

NewElems(heap, es)  == Append(heap, [elems |-> es, fields |-> <<>>])
NewFields(heap, fs) == Append(heap, [elems |-> <<>>, fields |-> fs])

Elems(heap, v)  == SubSeq(heap[v.n].elems, v.off + 1, v.off + v.len)
Fields(heap, v) == heap[v.n].fields

\* With the elements from "from" on, counted in the place, replaced by es.
Overwritten(heap, place, from, es) ==
  [heap EXCEPT ![place].elems =
     [i \in DOMAIN @ |-> IF i - from \in DOMAIN es THEN es[i - from] ELSE @[i]]]

SetField(heap, v, name, value) ==
  [heap EXCEPT ![v.n].fields = (name :> value) @@ @]

------------------------------------------------------------------------------
(* Reading and comparing                                                   *)

ToFloat(v) == IF v.kind \in {"int", "float"} THEN v.n ELSE 0

Truthy(v) ==
  CASE v.kind = "nil"                      -> FALSE
    [] v.kind \in {"bool", "int", "float"} -> v.n # 0
    [] v.kind = "string"                   -> v.s # ""
    [] v.kind = "array"                    -> v.len > 0
    [] OTHER                               -> TRUE

\* Values of two kinds other than nil are compared as numbers.
Equal(v, w) ==
  CASE v.kind # w.kind -> "nil" \notin {v.kind, w.kind} /\ ToFloat(v) = ToFloat(w)
    [] v.kind = w.kind -> v.kind \in {"nil", "bool", "int", "float", "string"}
                            /\ v.n = w.n /\ v.s = w.s

Join(texts, sep) ==
  IF texts = <<>> THEN ""
  ELSE FoldLeft(LAMBDA s, x : s \o sep \o x, Head(texts), Tail(texts))

\* An array is written with its elements in it; one that is in itself has no
\* text (the code recurses without end).
Text(heap, v) ==
  LET text[w \in Values] ==
        CASE w.kind = "nil"              -> "null"
          [] w.kind = "bool"             -> IF w.n = 1 THEN "true" ELSE "false"
          [] w.kind \in {"int", "float"} -> ToString(w.n)
          [] w.kind = "string"           -> w.s
          [] w.kind = "func"             -> "<fn:" \o w.s \o ">"
          [] w.kind = "array" ->
               "[" \o Join([i \in 1..w.len |-> text[Elems(heap, w)[i]]], ", ") \o "]"
  IN  text[v]

------------------------------------------------------------------------------
(* Operators                                                               *)

Magnitude(n) == IF n < 0 THEN -n ELSE n

\* Division rounds towards zero.
Quotient(a, b) ==
  LET q == Magnitude(a) \div Magnitude(b) IN IF (a < 0) # (b < 0) THEN -q ELSE q

Number(v, w, n) == IF v.kind = "int" /\ w.kind = "int" THEN IntVal(n) ELSE FloatVal(n)

Binary(heap, op, v, w) ==
  LET a == ToFloat(v)
      b == ToFloat(w)
  IN CASE op = "ADD" -> IF "string" \in {v.kind, w.kind}
                        THEN StrVal(Text(heap, v) \o Text(heap, w))
                        ELSE Number(v, w, a + b)
       [] op = "SUB" -> Number(v, w, a - b)
       [] op = "MUL" -> Number(v, w, a * b)
       [] op = "DIV" -> IF b = 0 THEN Nil ELSE Number(v, w, Quotient(a, b))
       [] op = "MOD" -> IF b = 0 THEN Nil ELSE Number(v, w, a - b * Quotient(a, b))
       [] op = "AND" -> IF Truthy(v) THEN w ELSE v
       [] op = "OR"  -> IF Truthy(v) THEN v ELSE w
       [] op = "EQ"  -> BoolVal(Equal(v, w))
       [] op = "NEQ" -> BoolVal(~Equal(v, w))
       [] op = "LT"  -> BoolVal(a < b)
       [] op = "GT"  -> BoolVal(a > b)
       [] op = "LTE" -> BoolVal(a <= b)
       [] op = "GTE" -> BoolVal(a >= b)

Operators == {"ADD", "SUB", "MUL", "DIV", "MOD", "AND", "OR",
              "EQ", "NEQ", "LT", "GT", "LTE", "GTE"}

Unary(op, v) ==
  CASE op = "NOT" -> BoolVal(~Truthy(v))
    [] op = "NEG" -> IF v.kind = "int" THEN IntVal(-v.n)
                     ELSE FloatVal(IF v.kind = "float" THEN -v.n ELSE 0)

------------------------------------------------------------------------------
(* Methods: the heap after one and the value it returns                    *)

\* The method works on a copy of the window: push writes what still fits in
\* the place of the array and otherwise changes nothing, pop nothing at all.
ArrayMethod(heap, v, name, args) ==
  LET es     == Elems(heap, v)
      found  == {i \in 1..v.len : args # <<>> /\ Equal(es[i], args[1])}
      Arg(i, default) == IF i \in DOMAIN args THEN IntOf(args[i]) ELSE default
      Yields(w) == [heap |-> heap, value |-> w]
  IN CASE name = "push" ->
            [heap  |-> Overwritten(heap, v.n, v.off + v.len, args),
             value |-> IntVal(v.len + Len(args))]
       [] name = "pop"      -> Yields(IF v.len = 0 THEN Nil ELSE es[v.len])
       [] name = "length"   -> Yields(IntVal(v.len))
       [] name = "includes" -> Yields(BoolVal(found # {}))
       [] name = "indexOf"  ->
            Yields(IntVal(IF found = {} THEN -1
                       ELSE (CHOOSE i \in found : \A j \in found : i <= j) - 1))
       [] name = "join"     ->
            Yields(StrVal(Join([i \in 1..v.len |-> Text(heap, es[i])],
                               IF args = <<>> THEN ", " ELSE StrOf(args[1]))))
       [] name = "reverse"  ->
            [heap |-> Overwritten(heap, v.n, v.off, Reverse(es)), value |-> v]
       [] name = "slice"    ->
            Yields(ArrayVal(v.n, v.off + Arg(1, 0), Arg(2, v.len) - Arg(1, 0)))
       [] OTHER             -> Yields(Nil)

\* A window outside of its place panics.
SlicePanics(heap, v, args) ==
  LET start == IF 1 \in DOMAIN args THEN IntOf(args[1]) ELSE 0
      end   == IF 2 \in DOMAIN args THEN IntOf(args[2]) ELSE v.len
  IN  ~(0 <= start /\ start <= end /\ end <= Len(heap[v.n].elems) - v.off)

MapMethod(heap, v, name, args) ==
  LET fields == Fields(heap, v)
      key    == IF args = <<>> THEN "" ELSE Text(heap, args[1])
      Yields(w) == [heap |-> heap, value |-> w]
  IN CASE name = "get" ->
            Yields(IF args # <<>> /\ key \in DOMAIN fields THEN fields[key] ELSE Nil)
       [] name = "has" -> Yields(BoolVal(args # <<>> /\ key \in DOMAIN fields))
       [] name = "set" ->
            [heap  |-> IF Len(args) < 2 THEN heap ELSE SetField(heap, v, key, args[2]),
             value |-> v]
       [] name = "delete" ->
            [heap  |-> IF args = <<>> THEN heap
                       ELSE [heap EXCEPT ![v.n].fields =
                               [k \in DOMAIN @ \ {key} |-> @[k]]],
             value |-> v]
       [] name \in {"size", "length"} -> Yields(IntVal(Cardinality(DOMAIN fields)))
       [] name \notin {"get", "has", "set", "delete", "size", "length", "keys", "values"} ->
            Yields(Nil)

Method(heap, v, name, args) ==
  LET Yields(w) == [heap |-> heap, value |-> w]
  IN CASE name = "toString" -> Yields(StrVal(Text(heap, v)))
       [] name # "toString" /\ v.kind = "array"  -> ArrayMethod(heap, v, name, args)
       [] name # "toString" /\ v.kind = "object" -> MapMethod(heap, v, name, args)
       [] name = "length"   /\ v.kind = "string" -> Yields(IntVal(Len(v.s)))
       [] name # "toString" /\ v.kind \notin {"array", "object", "string"} -> Yields(Nil)

\* A field of an array or of a string is a method called without arguments.
Field(heap, v, name) ==
  CASE v.kind = "object" ->
         [heap  |-> heap,
          value |-> IF name \in DOMAIN Fields(heap, v) THEN Fields(heap, v)[name]
                    ELSE IF name = "length"
                    THEN IntVal(Cardinality(DOMAIN Fields(heap, v))) ELSE Nil]
    [] v.kind \in {"array", "string"} -> Method(heap, v, name, <<>>)
    [] OTHER -> [heap |-> heap, value |-> Nil]

Index(heap, v, index) ==
  LET i   == IntOf(index)
      key == StrOf(index)
  IN CASE v.kind = "array"  -> IF i \in 0..(v.len - 1) THEN Elems(heap, v)[i + 1] ELSE Nil
       [] v.kind = "object" -> IF key \in DOMAIN Fields(heap, v) THEN Fields(heap, v)[key]
                               ELSE Nil
       [] v.kind = "string" -> IF i \in 0..(Len(v.s) - 1)
                               THEN StrVal(SubSeq(v.s, i + 1, i + 1)) ELSE Nil
       [] OTHER             -> Nil

==============================================================================
