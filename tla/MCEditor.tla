------------------------------- MODULE MCEditor -------------------------------
(* Texts for TLC: words with a blank or a line end between them.            *)
EXTENDS EditorCorrect

\* The words of a text, half by half.
RECURSIVE Split(_)
Split(s) ==
  LET blanks == {i \in 1..Len(s) : SubSeq(s, i, i) \in {" ", "\n"}}
      half   == {i \in blanks : 2 * i >= Len(s)}
      at     == IF half = {} THEN CHOOSE i \in blanks : \A j \in blanks : j <= i
                ELSE CHOOSE i \in half : \A j \in half : i <= j
  IN  CASE s = "" -> <<>>
        [] s # "" /\ blanks = {} -> <<s>>
        [] OTHER -> Split(SubSeq(s, 1, at - 1)) \o Split(SubSeq(s, at + 1, Len(s)))

\* A line ends after a brace that opens or closes.
RECURSIVE Joined(_)
Joined(words) ==
  LET half  == Len(words) \div 2
      left  == SubSeq(words, 1, half)
      blank == IF words[half] \in {"{", "}"} THEN "\n" ELSE " "
  IN  CASE words = <<>> -> ""
        [] Len(words) = 1 -> words[1]
        [] OTHER -> Joined(left) \o blank \o Joined(SubSeq(words, half + 1, Len(words)))

InLines(s) == Joined(Split(s))

Declared == <<
  "import { a , b as c } from \"m\"",
  "export { a as b } from \"m\"",
  "export function f ( ) { }",
  "@ Memo ( 1 , \"k\" ) function f < T > ( a : i32 , ... b : Map < K , V > [] ? ) : ( void ) => any { }",
  "function f ( a ? : [ i32 , string ] = 1 ) : bool { return }",
  "@ Table class A < T > extends B implements C , D { @ Id private static readonly x : i32 = 1 y ? : any "
    \o "protected async m ( a ) : void { return this . x } constructor ( n : i32 ) { this . x = n } static s ( ) { } }",
  "struct P { x : f64 y ? : string }",
  "interface I < T > { m ( a : T ) : bool async n ( ) x : i32 y ? : T }",
  "enum E { A , B = 2 , C }",
  "type U < T > = Map < string , T > ?",
  "actor A { let n : i32 on inc ( by : i32 ) { n += by } on get ( ) { return n } }",
  "store S { n : i32 o ? : bool function inc ( ) : void { n += 1 } async function load ( ) { } }",
  "@ Entry component C { @ Prop p : string @ State n : i32 = 0 function onMount ( ) { n = 1 } "
    \o "build ( ) { Column ( 8 ) { Text ( p ) . font ( 2 ) . bold Row { state } onClick => { n += 1 } "
    \o "onChange => n } . width ( \"9\" ) } }" >>

Statements == <<
  "if a { b = 1 } else if ! c { d } else { }",
  "while a < b { a += 1 if a == 2 { break } continue }",
  "for ( let i = 0 ; i < 3 ; i += 1 ) { print ( i ) }",
  "for x in [ 1 , 2 ] { print ( x ) }",
  "loop { break }",
  "try { throw \"no\" } catch ( e ) { print ( e ) } finally { done ( ) }",
  "match s { \"a\" => { 1 } b . c => { return } }",
  "task { spawn f ( 1 ) }",
  "const f = ( a , b : i32 ) => a + b",
  "let g = ( ) => { return { a : 1 , b : [ ] } }",
  "let h : i32 = await try <- ch . next ( ) ?? - 1",
  "ch <- a ? b : c ? d : ! e",
  "a = b += c . d ? . e [ i ] ( x , y ) as T [] ?",
  "f < T , U [] > ( new List < T > ( 1.5 , null , true ) ) . of ( from )" >>

\* Two binary operators, grouped one way and the other.
Ops == <<"??", "||", "&&", "==", "!=", "<", ">", "<=", ">=", "+", "-", "*", "/", "%">>

Grouped(o, p) ==
  LET loose == S!Binding[o]
      tight == S!Binding[p]
  IN  <<IF loose >= tight THEN "x " \o o \o " 1 " \o p \o " z" ELSE "( x " \o o \o " 1 ) " \o p \o " z",
        IF tight > loose THEN "x " \o o \o " 1 " \o p \o " z" ELSE "x " \o o \o " ( 1 " \o p \o " z )">>

Grouping == UNION {Range(Grouped(Ops[i], Ops[j])) : i, j \in DOMAIN Ops}

\* Names in and out of scope, and types.
Scoped == <<
  "let a : number = 1 function f ( b ) { let c = a for d in [ c ] { c = d } try { b } catch ( e ) { e } } f ( a )",
  "function g ( n : i64 ) : f64 { if n < 1 { let k = n k } else { n } n - 1 } let r : f64 = g ( 2 ) g = g",
  "class K { v : i64 m ( w ) { this . v = w . x } } let k : K = new K ( ) k . v - 1 let s = \"a\" s + 1 s" >>

\* To ask about, line by line.
Asked == <<
  "function total(price: i64, n: i64) {\n  let sum = price * n\n    if sum < 9 { return { a:sum,\nb: n } }\n  return sum\n}\nlet t = total(2, 3)",
  "/* two\n  lines */\ncomponent App {\n// sums\nconst xs = [x, xs]\n}\nstruct P { x:f64 }\n\n})\n  ",
  "let url = \"http://a\"\nlet x = url + x1e5 // url" >>

Family(s) == {InLines(s[i]) : i \in DOMAIN s}

\* TLC enumerates such a set once.
Listed(all) == {t : t \in all}

Edited      == Listed(Family(Declared) \cup Family(Statements))
MCCanonical == Listed(Edited \cup Grouping)
MCTexts     == Listed(MCCanonical \cup Family(Scoped) \cup Range(Asked))
MCAskable   == Listed(Range(Asked))

\* An example of the documentation of the language.
MCDocumented == {"type Status = \"idle\" | \"loading\" | \"ready\" | \"error\""}

Wrong == {")", "}", "<", "x", ",", "as"}

\* One word left out, doubled, or another one in its place.
Edits(t) ==
  LET ws == Split(t)
      put(i, mid) == Joined(SubSeq(ws, 1, i - 1) \o mid \o SubSeq(ws, i + 1, Len(ws)))
  IN  UNION {{put(i, <<>>), put(i, <<ws[i], ws[i]>>)} \cup {put(i, <<w>>) : w \in Wrong} :
             i \in DOMAIN ws}

MCTyped(t) == IF t \in Edited THEN Edits(t) ELSE {}
==============================================================================
