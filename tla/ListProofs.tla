------------------------------ MODULE ListProofs ------------------------------
(***************************************************************************)
(* Facts about sequences, about the flattening of a sequence of them, and  *)
(* about induction and recursion over numbers, that proofs share.          *)
(***************************************************************************)
EXTENDS SequencesExt, FiniteSetsExt, SequenceTheorems, WellFoundedInduction, TLAPS

\* A sequence, of whatever elements.
IsList(s) == s \in Seq({s[i] : i \in DOMAIN s})

LEMMA ListOfSeq ==
  ASSUME NEW S, NEW s \in Seq(S)
  PROVE  IsList(s)
<1>1. /\ Len(s) \in Nat /\ DOMAIN s = 1..Len(s)
      /\ s \in [1..Len(s) -> S]
  OBVIOUS
<1>2. s \in [1..Len(s) -> {s[i] : i \in DOMAIN s}]
  BY <1>1
<1> QED
  BY <1>1, <1>2, SeqDef DEF IsList

LEMMA ListLength ==
  ASSUME NEW s, IsList(s)
  PROVE  Len(s) \in Nat /\ DOMAIN s = 1..Len(s)
  BY DEF IsList

LEMMA ListOfFunction ==
  ASSUME NEW n \in Nat, NEW s, s = [i \in 1..n |-> s[i]]
  PROVE  IsList(s) /\ Len(s) = n /\ DOMAIN s = 1..n
<1>1. DOMAIN s = 1..n
  OBVIOUS
<1>2. s \in [1..n -> {s[i] : i \in DOMAIN s}]
  BY <1>1
<1>3. s \in Seq({s[i] : i \in DOMAIN s})
  BY <1>2, SeqDef
<1>4. Len(s) = n
  BY <1>1, <1>3, LenProperties
<1> QED
  BY <1>1, <1>3, <1>4 DEF IsList

\* The places of a sequence longer by an element, and of its tail.
LEMMA ListAppend ==
  ASSUME NEW s, IsList(s), NEW e
  PROVE  /\ IsList(Append(s, e))
         /\ Len(s) \in Nat /\ DOMAIN s = 1..Len(s) /\ DOMAIN Append(s, e) = 1..(Len(s) + 1)
         /\ \A i \in 1..Len(s) : Append(s, e)[i] = s[i]
         /\ Append(s, e)[Len(s) + 1] = e
<1> DEFINE S == {s[i] : i \in DOMAIN s} \cup {e}
<1>1. s \in Seq(S) /\ e \in S
  <2>1. s \in Seq({s[i] : i \in DOMAIN s})
    BY DEF IsList
  <2>2. Len(s) \in Nat /\ s \in [1..Len(s) -> {s[i] : i \in DOMAIN s}]
    BY <2>1
  <2>3. s \in [1..Len(s) -> S]
    BY <2>2
  <2> QED
    BY <2>2, <2>3, SeqDef
<1> HIDE DEF S
<1>2. /\ Append(s, e) \in Seq(S)
      /\ Len(s) \in Nat /\ DOMAIN s = 1..Len(s) /\ DOMAIN Append(s, e) = 1..(Len(s) + 1)
      /\ \A i \in 1..Len(s) : Append(s, e)[i] = s[i]
      /\ Append(s, e)[Len(s) + 1] = e
  BY <1>1
<1> QED
  BY <1>2, ListOfSeq

LEMMA ListTail ==
  ASSUME NEW s, IsList(s), s # <<>>
  PROVE  /\ IsList(Tail(s))
         /\ Len(s) \in Nat \ {0} /\ DOMAIN s = 1..Len(s) /\ DOMAIN Tail(s) = 1..(Len(s) - 1)
         /\ Head(s) = s[1]
         /\ \A i \in 1..(Len(s) - 1) : Tail(s)[i] = s[i + 1]
<1> DEFINE S == {s[i] : i \in DOMAIN s}
<1>1. s \in Seq(S)
  BY DEF IsList
<1> HIDE DEF S
<1>2. /\ Tail(s) \in Seq(S)
      /\ Len(s) \in Nat \ {0} /\ DOMAIN s = 1..Len(s) /\ DOMAIN Tail(s) = 1..(Len(s) - 1)
      /\ Head(s) = s[1]
      /\ \A i \in 1..(Len(s) - 1) : Tail(s)[i] = s[i + 1]
  BY <1>1
<1> QED
  BY <1>2, ListOfSeq

LEMMA SetInduction ==
  ASSUME NEW S \in SUBSET Nat, 0 \in S, \A n \in S : n + 1 \in S
  PROVE  S = Nat
<1> SUFFICES ASSUME Nat \ S # {} PROVE FALSE
  OBVIOUS
<1>1. IsWellFoundedOn(OpToRel(<, Nat), Nat)
  BY NatLessThanWellFounded
<1>2. \E x \in Nat \ S : \A y \in Nat \ S : ~(<<y, x>> \in OpToRel(<, Nat))
  BY <1>1, WFMin
<1>3. PICK x \in Nat \ S : \A y \in Nat \ S : ~(<<y, x>> \in OpToRel(<, Nat))
  BY <1>2
<1>4. \A y \in Nat \ S : ~(y < x)
  BY <1>3 DEF OpToRel
<1>5. x # 0
  OBVIOUS
<1>6. x - 1 \in Nat /\ x - 1 < x
  BY <1>5
<1>7. x - 1 \in S
  BY <1>4, <1>6
<1>8. (x - 1) + 1 \in S
  BY <1>7
<1> QED
  BY <1>8

\* The flattening of the pieces up to the n-th.
Flattens(g, pieces, n) ==
  g = [i \in 1..n |-> IF i = 1 THEN pieces[i] ELSE g[i - 1] \o pieces[i]]

LEMMA FlatteningExists ==
  ASSUME NEW pieces, NEW N \in Nat
  PROVE  \E g : Flattens(g, pieces, N)
<1> DEFINE S == {n \in Nat : \E g : Flattens(g, pieces, n)}
<1>1. 0 \in S
  <2> DEFINE g == [i \in 1..0 |-> i]
  <2>1. Flattens(g, pieces, 0)
    BY DEF Flattens
  <2> QED
    BY <2>1
<1>2. ASSUME NEW n \in S PROVE n + 1 \in S
  <2>1. PICK g : Flattens(g, pieces, n)
    OBVIOUS
  <2> DEFINE last == IF n + 1 = 1 THEN pieces[n + 1] ELSE g[n] \o pieces[n + 1]
             h    == [i \in 1..(n + 1) |-> IF i = n + 1 THEN last ELSE g[i]]
  <2> HIDE DEF last
  <2>2. ASSUME NEW i \in 1..(n + 1)
        PROVE  h[i] = IF i = 1 THEN pieces[i] ELSE h[i - 1] \o pieces[i]
    <3>1. CASE i = n + 1
      <4>1. h[i] = last
        BY <3>1
      <4>2. i # 1 => i - 1 = n /\ n \in 1..(n + 1) /\ n # n + 1
        BY <3>1
      <4>3. i # 1 => h[i - 1] = g[n]
        BY <4>2
      <4> QED
        BY <3>1, <4>1, <4>3 DEF last
    <3>2. CASE i # n + 1
      <4>1. i \in 1..n /\ h[i] = g[i]
        BY <3>2
      <4>2. g[i] = IF i = 1 THEN pieces[i] ELSE g[i - 1] \o pieces[i]
        BY <2>1, <4>1 DEF Flattens
      <4>3. i # 1 => i - 1 \in 1..(n + 1) /\ i - 1 # n + 1
        BY <4>1
      <4>4. i # 1 => h[i - 1] = g[i - 1]
        BY <4>3
      <4> QED
        BY <4>1, <4>2, <4>4
    <3> QED
      BY <3>1, <3>2
  <2>3. h = [i \in 1..(n + 1) |-> h[i]]
    OBVIOUS
  <2> HIDE DEF h
  <2>4. Flattens(h, pieces, n + 1)
    BY <2>2, <2>3 DEF Flattens
  <2> QED
    BY <2>4
<1> HIDE DEF S
<1>3. S = Nat
  BY <1>1, <1>2, SetInduction DEF S
<1> QED
  BY <1>3 DEF S

LEMMA FlatteningIs ==
  ASSUME NEW pieces, Len(pieces) \in Nat \ {0}
  PROVE  \E g : Flattens(g, pieces, Len(pieces)) /\ FlattenSeq(pieces) = g[Len(pieces)]
<1> DEFINE R(h) == h = [i \in 1..Len(pieces) |->
                          IF i = 1 THEN pieces[i] ELSE h[i - 1] \o pieces[i]]
<1>1. FlattenSeq(pieces) = (CHOOSE h : R(h))[Len(pieces)]
  BY Zenon DEF FlattenSeq
<1>2. R(CHOOSE h : R(h))
  <2>1. \E h : R(h)
    BY FlatteningExists DEF Flattens
  <2> HIDE DEF R
  <2> QED
    BY <2>1
<1> QED
  BY <1>1, <1>2 DEF Flattens

\* The elements of t are those of the first n pieces, in their order: the j-th
\* of t is the k[j]-th of piece p[j].
InPlace(t, pieces, n, p, k) ==
  /\ p \in [1..Len(t) -> 1..n] /\ k \in [1..Len(t) -> Nat]
  /\ \A j \in 1..Len(t) : k[j] \in 1..Len(pieces[p[j]]) /\ t[j] = pieces[p[j]][k[j]]
  /\ \A i, j \in 1..Len(t) : i < j => p[i] < p[j] \/ (p[i] = p[j] /\ k[i] < k[j])
  /\ \A i \in 1..n : \A m \in 1..Len(pieces[i]) : \E j \in 1..Len(t) : p[j] = i /\ k[j] = m

LEMMA OneMorePiece ==
  ASSUME NEW S, NEW pieces, NEW n \in Nat, NEW t \in Seq(S), NEW p, NEW k,
         InPlace(t, pieces, n, p, k), pieces[n + 1] \in Seq(S)
  PROVE  \E q, m : InPlace(t \o pieces[n + 1], pieces, n + 1, q, m)
<1> DEFINE x == pieces[n + 1]
           u == t \o x
           q == [j \in 1..Len(u) |-> IF j <= Len(t) THEN p[j] ELSE n + 1]
           m == [j \in 1..Len(u) |-> IF j <= Len(t) THEN k[j] ELSE j - Len(t)]
<1>1. /\ Len(t) \in Nat /\ Len(x) \in Nat /\ Len(u) = Len(t) + Len(x)
      /\ \A j \in 1..Len(u) : u[j] = IF j <= Len(t) THEN t[j] ELSE x[j - Len(t)]
  OBVIOUS
<1> HIDE DEF u, x
<1>2. ASSUME NEW j \in 1..Len(u), j <= Len(t)
      PROVE  j \in 1..Len(t) /\ q[j] = p[j] /\ m[j] = k[j] /\ u[j] = t[j] /\ p[j] \in 1..n /\ k[j] \in Nat
  <2>1. j \in 1..Len(t)
    BY <1>1, <1>2
  <2>2. q[j] = p[j] /\ m[j] = k[j] /\ u[j] = t[j]
    BY <1>1, <1>2
  <2> QED
    BY <2>1, <2>2 DEF InPlace
<1>3. ASSUME NEW j \in 1..Len(u), ~(j <= Len(t))
      PROVE  /\ q[j] = n + 1 /\ m[j] = j - Len(t) /\ m[j] \in 1..Len(x)
             /\ u[j] = x[m[j]]
  <2>1. q[j] = n + 1 /\ m[j] = j - Len(t)
    BY <1>3
  <2>2. j - Len(t) \in 1..Len(x)
    BY <1>1, <1>3
  <2> QED
    BY <1>1, <1>3, <2>1, <2>2
<1>4. q \in [1..Len(u) -> 1..(n + 1)] /\ m \in [1..Len(u) -> Nat]
  <2>1. ASSUME NEW j \in 1..Len(u) PROVE q[j] \in 1..(n + 1) /\ m[j] \in Nat
    BY <1>1, <1>2, <1>3
  <2> QED
    BY <2>1
<1>5. \A i \in 1..Len(t) : i \in 1..Len(u) /\ i <= Len(t)
  BY <1>1
<1>6. \A i \in 1..Len(x) : i + Len(t) \in 1..Len(u) /\ ~(i + Len(t) <= Len(t)) /\ (i + Len(t)) - Len(t) = i
  BY <1>1
<1> HIDE DEF q, m
<1>7. ASSUME NEW j \in 1..Len(u)
      PROVE  m[j] \in 1..Len(pieces[q[j]]) /\ u[j] = pieces[q[j]][m[j]]
  <2>1. CASE j <= Len(t)
    BY <1>2, <2>1 DEF InPlace
  <2>2. CASE ~(j <= Len(t))
    BY <1>3, <2>2 DEF x
  <2> QED
    BY <2>1, <2>2
<1>8. ASSUME NEW i \in 1..Len(u), NEW j \in 1..Len(u), i < j
      PROVE  q[i] < q[j] \/ (q[i] = q[j] /\ m[i] < m[j])
  <2>1. CASE j <= Len(t)
    <3>1. i <= Len(t)
      BY <1>1, <1>8, <2>1
    <3> QED
      BY <1>2, <1>8, <2>1, <3>1 DEF InPlace
  <2>2. CASE ~(j <= Len(t)) /\ i <= Len(t)
    BY <1>2, <1>3, <2>2
  <2>3. CASE ~(j <= Len(t)) /\ ~(i <= Len(t))
    <3>1. q[i] = n + 1 /\ q[j] = n + 1 /\ m[i] = i - Len(t) /\ m[j] = j - Len(t)
      BY <1>3, <2>3
    <3>2. i - Len(t) < j - Len(t)
      BY <1>1, <1>8
    <3> QED
      BY <3>1, <3>2
  <2> QED
    BY <2>1, <2>2, <2>3
<1>9. ASSUME NEW i \in 1..(n + 1), NEW l \in 1..Len(pieces[i])
      PROVE  \E j \in 1..Len(u) : q[j] = i /\ m[j] = l
  <2>1. CASE i = n + 1
    <3>1. l \in 1..Len(x)
      BY <1>9, <2>1 DEF x
    <3>2. q[l + Len(t)] = n + 1 /\ m[l + Len(t)] = l
      BY <1>3, <1>6, <3>1
    <3> QED
      BY <1>6, <2>1, <3>1, <3>2
  <2>2. CASE i # n + 1
    <3>1. i \in 1..n
      BY <2>2
    <3>2. PICK j \in 1..Len(t) : p[j] = i /\ k[j] = l
      BY <1>9, <3>1 DEF InPlace
    <3> QED
      BY <1>2, <1>5, <3>2
  <2> QED
    BY <2>1, <2>2
<1>10. InPlace(u, pieces, n + 1, q, m)
  BY <1>4, <1>7, <1>8, <1>9 DEF InPlace
<1> QED
  BY <1>10 DEF u, x

LEMMA Flattened ==
  ASSUME NEW S, NEW pieces \in Seq(Seq(S)), pieces # <<>>
  PROVE  /\ FlattenSeq(pieces) \in Seq(S)
         /\ \E p, k : InPlace(FlattenSeq(pieces), pieces, Len(pieces), p, k)
<1> DEFINE N == Len(pieces)
<1>1. N \in Nat \ {0} /\ \A i \in 1..N : pieces[i] \in Seq(S)
  OBVIOUS
<1>2. PICK g : Flattens(g, pieces, N) /\ FlattenSeq(pieces) = g[N]
  BY <1>1, FlatteningIs
<1>3. \A i \in 1..N : g[i] = IF i = 1 THEN pieces[i] ELSE g[i - 1] \o pieces[i]
  BY <1>2 DEF Flattens
<1> HIDE DEF N
<1> DEFINE Good(n) == g[n] \in Seq(S) /\ \E p, k : InPlace(g[n], pieces, n, p, k)
           T == {n \in Nat : n + 1 \in 1..N => Good(n + 1)}
<1>4. \E p, k : InPlace(<<>>, pieces, 0, p, k)
  <2> DEFINE none == [j \in 1..0 |-> 0]
  <2>1. Len(<<>>) = 0 /\ 1..0 = {}
    OBVIOUS
  <2>2. InPlace(<<>>, pieces, 0, none, none)
    BY <2>1 DEF InPlace
  <2> QED
    BY <2>2
<1>5. 0 \in T
  <2>1. g[1] = pieces[1] /\ pieces[1] \in Seq(S)
    BY <1>1, <1>3
  <2>2. <<>> \in Seq(S) /\ <<>> \o pieces[1] = pieces[1] /\ 0 + 1 = 1
    BY <2>1
  <2>3. PICK p, k : InPlace(<<>>, pieces, 0, p, k)
    BY <1>4
  <2>4. \E q, m : InPlace(<<>> \o pieces[0 + 1], pieces, 0 + 1, q, m)
    BY <2>1, <2>2, <2>3, OneMorePiece
  <2> QED
    BY <2>1, <2>2, <2>4
<1>6. ASSUME NEW n \in T PROVE n + 1 \in T
  <2> SUFFICES ASSUME (n + 1) + 1 \in 1..N PROVE Good((n + 1) + 1)
    OBVIOUS
  <2>1. /\ n + 1 \in 1..N /\ n + 1 \in Nat /\ (n + 1) + 1 # 1 /\ ((n + 1) + 1) - 1 = n + 1
    BY <1>1
  <2>2. g[(n + 1) + 1] = g[n + 1] \o pieces[(n + 1) + 1] /\ pieces[(n + 1) + 1] \in Seq(S)
    BY <1>1, <1>3, <2>1
  <2>3. Good(n + 1)
    BY <2>1
  <2>4. PICK p, k : InPlace(g[n + 1], pieces, n + 1, p, k)
    BY <2>3
  <2>5. \E q, m : InPlace(g[n + 1] \o pieces[(n + 1) + 1], pieces, (n + 1) + 1, q, m)
    BY <2>1, <2>2, <2>3, <2>4, OneMorePiece
  <2>6. g[n + 1] \o pieces[(n + 1) + 1] \in Seq(S)
    BY <2>2, <2>3
  <2> QED
    BY <2>2, <2>5, <2>6
<1> HIDE DEF T
<1>7. T = Nat
  BY <1>5, <1>6, SetInduction DEF T
<1>8. N - 1 \in Nat /\ (N - 1) + 1 = N /\ N \in 1..N
  BY <1>1
<1>9. Good(N)
  BY <1>7, <1>8 DEF T
<1> QED
  BY <1>2, <1>9 DEF N

------------------------------------------------------------------------------
(* The last of a sequence                                                  *)

\* Numbers that have a bound and are not none have a greatest.
LEMMA GreatestIs ==
  ASSUME NEW n \in Nat, NEW S \in SUBSET (1..n), S # {}
  PROVE  Max(S) \in S /\ \A i \in S : i <= Max(S)
<1> DEFINE T == {m \in Nat : \A R \in SUBSET (1..m) : R # {} => \E x \in R : \A y \in R : x >= y}
<1>1. 0 \in T
  <2>1. 1..0 = {}
    OBVIOUS
  <2> QED
    BY <2>1
<1>2. ASSUME NEW m \in T PROVE m + 1 \in T
  <2> SUFFICES ASSUME NEW R \in SUBSET (1..(m + 1)), R # {}
               PROVE  \E x \in R : \A y \in R : x >= y
    OBVIOUS
  <2>1. CASE m + 1 \in R
    BY <2>1
  <2>2. CASE m + 1 \notin R
    <3>1. R \in SUBSET (1..m)
      BY <2>2
    <3> QED
      BY <3>1
  <2> QED
    BY <2>1, <2>2
<1> HIDE DEF T
<1>3. T = Nat
  BY <1>1, <1>2, SetInduction DEF T
<1>4. \E x \in S : \A y \in S : x >= y
  BY <1>3 DEF T
<1>5. Max(S) \in S /\ \A y \in S : Max(S) >= y
  BY <1>4 DEF Max
<1> QED
  BY <1>5

\* The places of a sequence that hold one of C, and the element at the last of
\* them, or 0.
Places(s, C) == {i \in DOMAIN s : s[i] \in C}

LastOf(s, C) == IF Places(s, C) = {} THEN 0 ELSE s[Max(Places(s, C))]

LEMMA LastIs ==
  ASSUME NEW s, Len(s) \in Nat, DOMAIN s = 1..Len(s), NEW C,
         NEW i \in DOMAIN s, s[i] \in C, \A j \in DOMAIN s : s[j] \in C => j <= i
  PROVE  LastOf(s, C) = s[i]
<1>1. Places(s, C) \in SUBSET (1..Len(s)) /\ i \in Places(s, C)
  BY DEF Places
<1>2. Max(Places(s, C)) \in Places(s, C) /\ i <= Max(Places(s, C))
  BY <1>1, GreatestIs
<1>3. Max(Places(s, C)) <= i /\ Max(Places(s, C)) \in 1..Len(s)
  BY <1>2 DEF Places
<1>4. Max(Places(s, C)) = i
  BY <1>2, <1>3
<1> QED
  BY <1>1, <1>4 DEF LastOf

LEMMA LastOfOneMore ==
  ASSUME NEW S, NEW s \in Seq(S), NEW e \in S, NEW C, 0 \notin C
  PROVE  /\ <<e>> \o s \in Seq(S)
         /\ LastOf(<<e>> \o s, C)
              = IF LastOf(s, C) # 0 THEN LastOf(s, C) ELSE IF e \in C THEN e ELSE 0
<1> DEFINE t == <<e>> \o s
<1>1. /\ Len(s) \in Nat /\ DOMAIN s = 1..Len(s) /\ t \in Seq(S)
      /\ Len(t) = Len(s) + 1 /\ DOMAIN t = 1..(Len(s) + 1)
      /\ t[1] = e /\ \A i \in 1..Len(s) : t[i + 1] = s[i]
  OBVIOUS
<1> HIDE DEF t
<1>2. ASSUME NEW j \in DOMAIN t, j # 1 PROVE j - 1 \in 1..Len(s) /\ t[j] = s[j - 1]
  <2>1. j - 1 \in 1..Len(s) /\ (j - 1) + 1 = j
    BY <1>1, <1>2
  <2> QED
    BY <1>1, <2>1
<1>3. CASE Places(s, C) # {}
  <2> DEFINE m == Max(Places(s, C))
  <2>1. Places(s, C) \in SUBSET (1..Len(s))
    BY <1>1 DEF Places
  <2>2. m \in Places(s, C) /\ \A i \in Places(s, C) : i <= m
    BY <1>1, <1>3, <2>1, GreatestIs
  <2>3. m \in 1..Len(s) /\ s[m] \in C /\ LastOf(s, C) = s[m]
    BY <1>3, <2>1, <2>2 DEF LastOf, Places
  <2> HIDE DEF m
  <2>4. m + 1 \in DOMAIN t /\ t[m + 1] = s[m]
    BY <1>1, <2>3
  <2>5. ASSUME NEW j \in DOMAIN t, t[j] \in C PROVE j <= m + 1
    <3>1. CASE j = 1
      BY <2>3, <3>1
    <3>2. CASE j # 1
      <4>1. j - 1 \in Places(s, C)
        BY <1>1, <1>2, <2>5, <3>2 DEF Places
      <4> QED
        BY <1>1, <2>2, <2>3, <4>1
    <3> QED
      BY <3>1, <3>2
  <2>6. LastOf(t, C) = t[m + 1]
    <3>1. Len(t) \in Nat /\ DOMAIN t = 1..Len(t)
      BY <1>1
    <3> QED
      BY <2>3, <2>4, <2>5, <3>1, LastIs
  <2> QED
    BY <1>1, <2>3, <2>4, <2>6 DEF t
<1>4. CASE Places(s, C) = {}
  <2>1. LastOf(s, C) = 0 /\ \A i \in 1..Len(s) : s[i] \notin C
    BY <1>1, <1>4 DEF LastOf, Places
  <2>2. \A j \in DOMAIN t : t[j] \in C => j = 1
    BY <1>2, <2>1
  <2>3. CASE e \in C
    <3>1. LastOf(t, C) = t[1]
      BY <1>1, <2>2, <2>3, LastIs
    <3> QED
      BY <1>1, <2>1, <2>3, <3>1 DEF t
  <2>4. CASE e \notin C
    <3>1. Places(t, C) = {}
      BY <1>1, <2>2, <2>4 DEF Places
    <3> QED
      BY <1>1, <2>1, <2>4, <3>1 DEF t, LastOf
  <2> QED
    BY <2>3, <2>4
<1> QED
  BY <1>3, <1>4

\* The last of a flattened sequence is that of the last piece that has one.
Having(pieces, C) == {i \in DOMAIN pieces : LastOf(pieces[i], C) # 0}

LEMMA LastOfFlattened ==
  ASSUME NEW S, NEW pieces \in Seq(Seq(S)), NEW C, 0 \notin C
  PROVE  /\ FlattenSeq(pieces) \in Seq(S)
         /\ LastOf(FlattenSeq(pieces), C)
              = IF Having(pieces, C) = {} THEN 0
                ELSE LastOf(pieces[Max(Having(pieces, C))], C)
<1> DEFINE t == FlattenSeq(pieces)
           found == Having(pieces, C)
<1>0. found = {i \in DOMAIN pieces : LastOf(pieces[i], C) # 0}
  BY DEF Having
<1> HIDE DEF found
<1>1. CASE pieces = <<>>
  <2>1. t = <<>> /\ found = {}
    BY <1>0, <1>1 DEF FlattenSeq
  <2>2. Places(<<>>, C) = {}
    BY DEF Places
  <2>3. <<>> \in Seq(S)
    OBVIOUS
  <2> QED
    BY <2>1, <2>2, <2>3 DEF LastOf, found
<1>2. CASE pieces # <<>>
  <2>1. /\ Len(pieces) \in Nat /\ DOMAIN pieces = 1..Len(pieces)
        /\ \A i \in DOMAIN pieces : /\ Len(pieces[i]) \in Nat
                                    /\ DOMAIN pieces[i] = 1..Len(pieces[i])
    <3>1. \A i \in DOMAIN pieces : pieces[i] \in Seq(S)
      OBVIOUS
    <3> QED
      BY <3>1
  <2>2. t \in Seq(S) /\ \E p, k : InPlace(t, pieces, Len(pieces), p, k)
    BY <1>2, Flattened
  <2>3. PICK p, k : InPlace(t, pieces, Len(pieces), p, k)
    BY <2>2
  <2>4. Len(t) \in Nat /\ DOMAIN t = 1..Len(t)
    BY <2>2
  <2> HIDE DEF t
  <2>5. \A i \in DOMAIN pieces : Places(pieces[i], C) # {} => i \in found
    <3> SUFFICES ASSUME NEW i \in DOMAIN pieces, Places(pieces[i], C) # {}
                 PROVE  LastOf(pieces[i], C) # 0
      BY <1>0
    <3>1. Max(Places(pieces[i], C)) \in Places(pieces[i], C)
      <4>1. Places(pieces[i], C) \in SUBSET (1..Len(pieces[i]))
        BY <2>1 DEF Places
      <4> QED
        BY <2>1, <4>1, GreatestIs
    <3> QED
      BY <3>1 DEF LastOf, Places
  <2>6. CASE found = {}
    <3>1. ASSUME NEW j \in DOMAIN t PROVE t[j] \notin C
      <4>1. p[j] \in DOMAIN pieces /\ k[j] \in DOMAIN pieces[p[j]] /\ t[j] = pieces[p[j]][k[j]]
        BY <2>1, <2>3, <2>4 DEF InPlace
      <4>2. Places(pieces[p[j]], C) = {}
        BY <2>5, <2>6, <4>1
      <4> QED
        BY <4>1, <4>2 DEF Places
    <3>2. Places(t, C) = {}
      BY <3>1 DEF Places
    <3> QED
      BY <2>2, <2>6, <3>2 DEF LastOf, t, found
  <2>7. CASE found # {}
    <3> DEFINE last == Max(found)
               x == pieces[last]
               m == Max(Places(x, C))
    <3>1. last \in found /\ \A i \in found : i <= last
      BY <1>0, <2>1, <2>7, GreatestIs
    <3>2. last \in DOMAIN pieces /\ LastOf(x, C) # 0
      BY <1>0, <3>1
    <3> HIDE DEF last
    <3>3. Places(x, C) # {} /\ Places(x, C) \in SUBSET (1..Len(x)) /\ Len(x) \in Nat
      BY <2>1, <3>2 DEF LastOf, Places
    <3>4. m \in Places(x, C) /\ \A i \in Places(x, C) : i <= m
      BY <3>3, GreatestIs
    <3>5. m \in 1..Len(x) /\ x[m] \in C /\ LastOf(x, C) = x[m]
      BY <3>3, <3>4 DEF LastOf, Places
    <3> HIDE DEF m
    <3>6. PICK j \in 1..Len(t) : p[j] = last /\ k[j] = m
      BY <2>1, <2>3, <3>2, <3>5 DEF InPlace
    <3>7. t[j] = x[m]
      BY <2>3, <3>6 DEF InPlace
    <3>8. ASSUME NEW i \in DOMAIN t, t[i] \in C PROVE i <= j
      <4>1. p[i] \in DOMAIN pieces /\ k[i] \in DOMAIN pieces[p[i]] /\ t[i] = pieces[p[i]][k[i]]
        BY <2>1, <2>3, <2>4 DEF InPlace
      <4>2. k[i] \in Places(pieces[p[i]], C)
        BY <3>8, <4>1 DEF Places
      <4>3. p[i] <= last /\ p[i] \in Nat
        BY <1>0, <2>1, <2>5, <3>1, <4>1, <4>2
      <4>4. p[i] = last => k[i] <= m /\ k[i] \in Nat
        BY <2>1, <3>4, <4>1, <4>2
      <4>5. j < i => last < p[i] \/ (last = p[i] /\ m < k[i])
        BY <2>3, <2>4, <3>6 DEF InPlace
      <4>6. ~(j < i)
        BY <2>1, <3>2, <3>5, <4>3, <4>4, <4>5
      <4> QED
        BY <2>4, <4>6
    <3>9. LastOf(t, C) = t[j]
      BY <2>4, <3>5, <3>7, <3>8, LastIs
    <3> QED
      BY <2>2, <2>7, <3>5, <3>7, <3>9 DEF t, last, found
  <2> QED
    BY <2>6, <2>7
<1> QED
  BY <1>1, <1>2

LEMMA FlattenedType ==
  ASSUME NEW S, NEW pieces \in Seq(Seq(S))
  PROVE  FlattenSeq(pieces) \in Seq(S)
<1>1. pieces # <<>> => FlattenSeq(pieces) \in Seq(S)
  BY Flattened
<1>2. pieces = <<>> => FlattenSeq(pieces) = <<>>
  BY DEF FlattenSeq
<1>3. <<>> \in Seq(S)
  OBVIOUS
<1> QED
  BY <1>1, <1>2, <1>3

------------------------------------------------------------------------------
(* Recursion from the last to the first                                    *)

\* F says for each number what comes, in V, of what came of the number before.
StaysIn(F, n, V) == \A k \in 1..n : \A w \in V : F[k][w] \in V

Continues(g, F, n) == \A k \in 1..n : g[k] = F[k][g[k - 1]]

\* Then there is a function that goes on from each number as F says.
LEMMA ForwardRecursion ==
  ASSUME NEW n \in Nat, NEW V, NEW v \in V, NEW F, StaysIn(F, n, V)
  PROVE  \E g \in [0..n -> V] : g[0] = v /\ Continues(g, F, n)
<1>a. \A k \in 1..n : \A w \in V : F[k][w] \in V
  BY DEF StaysIn
<1> DEFINE Solves(g, m) == g[0] = v /\ \A k \in 1..m : g[k] = F[k][g[k - 1]]
           T == {m \in Nat : m <= n => \E g \in [0..n -> V] : Solves(g, m)}
<1>1. 0 \in T
  <2> DEFINE g == [k \in 0..n |-> v]
  <2>1. g \in [0..n -> V] /\ g[0] = v
    OBVIOUS
  <2>2. 1..0 = {}
    OBVIOUS
  <2> HIDE DEF g
  <2>3. Solves(g, 0)
    BY <2>1, <2>2
  <2> QED
    BY <2>1, <2>3
<1>2. ASSUME NEW m \in T PROVE m + 1 \in T
  <2> SUFFICES ASSUME m + 1 <= n PROVE \E g \in [0..n -> V] : Solves(g, m + 1)
    OBVIOUS
  <2>1. PICK g \in [0..n -> V] : Solves(g, m)
    OBVIOUS
  <2>2. m \in 0..n /\ m + 1 \in 1..n /\ m + 1 \in 0..n /\ (m + 1) - 1 = m
    OBVIOUS
  <2> DEFINE e == F[m + 1][g[m]]
             h == [g EXCEPT ![m + 1] = e]
  <2>3. e \in V
    BY <1>a, <2>2
  <2> HIDE DEF e
  <2>4. h \in [0..n -> V] /\ h[m + 1] = e /\ \A k \in 0..n : k # m + 1 => h[k] = g[k]
    BY <2>2, <2>3
  <2> HIDE DEF h
  <2>5. h[0] = v
    BY <2>1, <2>2, <2>4
  <2>6. ASSUME NEW k \in 1..(m + 1) PROVE h[k] = F[k][h[k - 1]]
    <3>1. k - 1 \in 0..n /\ k - 1 # m + 1 /\ h[k - 1] = g[k - 1]
      BY <2>2, <2>4
    <3>2. CASE k = m + 1
      BY <2>2, <2>4, <3>1, <3>2 DEF e
    <3>3. CASE k # m + 1
      <4>1. k \in 1..m /\ k \in 0..n
        BY <2>2, <3>3
      <4> QED
        BY <2>1, <2>4, <3>1, <3>3, <4>1
    <3> QED
      BY <3>2, <3>3
  <2> QED
    BY <2>4, <2>5, <2>6
<1> HIDE DEF T
<1>3. T = Nat
  BY <1>1, <1>2, SetInduction DEF T
<1> HIDE DEF Solves
<1>4. \E g \in [0..n -> V] : Solves(g, n)
  BY <1>3 DEF T
<1> QED
  BY <1>4 DEF Solves, Continues

\* F says for each number how its value is found, in V, from a function on all
\* of them; FromLater, that only the values at greater numbers count.
Maps(n, V) == [1..n -> V]

FindsIn(F, n, V) == \A id \in 1..n : \A g \in Maps(n, V) : F[id][g] \in V

FromLater(F, n, V) ==
  \A id \in 1..n : \A g, h \in Maps(n, V) :
    (\A j \in (id + 1)..n : g[j] = h[j]) => F[id][g] = F[id][h]

Settled(F, n, g) == \A id \in 1..n : g[id] = F[id][g]

\* Then there is a function that has at each number what F finds from it.
LEMMA BackwardRecursion ==
  ASSUME NEW n \in Nat, NEW V, V # {}, NEW F, FindsIn(F, n, V), FromLater(F, n, V)
  PROVE  \E g \in Maps(n, V) : Settled(F, n, g)
<1>a. \A id \in 1..n : \A g \in [1..n -> V] : F[id][g] \in V
  BY DEF FindsIn, Maps
<1>b. \A id \in 1..n : \A g, h \in [1..n -> V] :
        (\A j \in (id + 1)..n : g[j] = h[j]) => F[id][g] = F[id][h]
  BY DEF FromLater, Maps
<1> DEFINE Solves(g, m) == \A id \in (n - m + 1)..n : g[id] = F[id][g]
           T == {m \in Nat : m <= n => \E g \in [1..n -> V] : Solves(g, m)}
<1>1. 0 \in T
  <2>1. PICK v : v \in V
    OBVIOUS
  <2>2. [i \in 1..n |-> v] \in [1..n -> V]
    BY <2>1
  <2>3. (n - 0 + 1)..n = {}
    OBVIOUS
  <2> QED
    BY <2>2, <2>3
<1>2. ASSUME NEW m \in T PROVE m + 1 \in T
  <2> SUFFICES ASSUME m + 1 <= n PROVE \E g \in [1..n -> V] : Solves(g, m + 1)
    OBVIOUS
  <2>1. PICK g \in [1..n -> V] : Solves(g, m)
    OBVIOUS
  <2> DEFINE k == n - m
             h == [g EXCEPT ![k] = F[k][g]]
  <2>2. k \in 1..n /\ n - m + 1 = k + 1 /\ n - (m + 1) + 1 = k
    OBVIOUS
  <2>3. h \in [1..n -> V]
    BY <1>a, <2>2
  <2> HIDE DEF k
  <2>4. h[k] = F[k][g] /\ \A i \in 1..n : i # k => h[i] = g[i]
    BY <2>2
  <2> HIDE DEF h
  <2>5. ASSUME NEW id \in k..n PROVE h[id] = F[id][h]
    <3>1. id \in 1..n /\ \A j \in (id + 1)..n : h[j] = g[j]
      BY <2>2, <2>4
    <3>2. F[id][h] = F[id][g]
      BY <1>b, <2>3, <3>1
    <3>3. CASE id = k
      BY <2>4, <3>2, <3>3
    <3>4. CASE id # k
      <4>1. id \in (k + 1)..n
        BY <2>2, <3>4
      <4>2. g[id] = F[id][g]
        BY <2>1, <2>2, <4>1
      <4> QED
        BY <2>4, <3>1, <3>2, <3>4, <4>2
    <3> QED
      BY <3>3, <3>4
  <2> QED
    BY <2>2, <2>3, <2>5
<1> HIDE DEF T
<1>3. T = Nat
  BY <1>1, <1>2, SetInduction DEF T
<1>4. PICK g \in [1..n -> V] : Solves(g, n)
  <2>1. n \in T /\ n <= n
    BY <1>3
  <2> HIDE DEF Solves
  <2> QED
    BY <2>1 DEF T
<1>5. n - n + 1 = 1
  OBVIOUS
<1> QED
  BY <1>4, <1>5 DEF Maps, Settled

\* What holds at each number when it holds at the greater ones holds at all.
LEMMA BackwardInduction ==
  ASSUME NEW n \in Nat, NEW S \in SUBSET (1..n),
         \A id \in 1..n : (\A j \in (id + 1)..n : j \in S) => id \in S
  PROVE  S = 1..n
<1> DEFINE T == {m \in Nat : \A id \in 1..n : id > n - m => id \in S}
<1>1. 0 \in T
  OBVIOUS
<1>2. ASSUME NEW m \in T PROVE m + 1 \in T
  <2> SUFFICES ASSUME NEW id \in 1..n, id > n - (m + 1) PROVE id \in S
    OBVIOUS
  <2>1. \A j \in (id + 1)..n : j \in 1..n /\ j > n - m
    OBVIOUS
  <2> QED
    BY <2>1
<1> HIDE DEF T
<1>3. T = Nat
  BY <1>1, <1>2, SetInduction DEF T
<1>4. \A id \in 1..n : id > n - n
  OBVIOUS
<1> QED
  BY <1>3, <1>4 DEF T

------------------------------------------------------------------------------
(* Sequences that begin with one another                                   *)

\* A sequence begins with another, said of their elements.
Starts(a, p) == Len(a) <= Len(p) /\ \A i \in 1..Len(a) : a[i] = p[i]

LEMMA StartsIs ==
  ASSUME NEW S, NEW a \in Seq(S), NEW p \in Seq(S)
  PROVE  /\ IsPrefix(a, p) <=> Starts(a, p)
         /\ a = p <=> Starts(a, p) /\ Len(a) = Len(p)
<1>1. Len(a) \in Nat /\ Len(p) \in Nat /\ DOMAIN a = 1..Len(a) /\ DOMAIN p = 1..Len(p)
  OBVIOUS
<1>2. ASSUME NEW s \in Seq(S), NEW n \in Nat, n <= Len(s)
      PROVE  /\ SubSeq(s, 1, n) \in Seq(S) /\ Len(SubSeq(s, 1, n)) = n
             /\ \A i \in 1..n : SubSeq(s, 1, n)[i] = s[i]
  <2>1. \A i \in 1..n : s[i] \in S
    BY <1>2
  <2>2. /\ SubSeq(s, 1, n) \in Seq(S)
        /\ Len(SubSeq(s, 1, n)) = IF 1 <= n THEN n - 1 + 1 ELSE 0
        /\ \A i \in 1..(n - 1 + 1) : SubSeq(s, 1, n)[i] = s[1 + i - 1]
    BY <2>1, SubSeqProperties
  <2>3. \A i \in 1..n : i \in 1..(n - 1 + 1) /\ 1 + i - 1 = i
    OBVIOUS
  <2>4. \A i \in 1..n : SubSeq(s, 1, n)[i] = s[i]
    BY <2>2, <2>3
  <2>5. Len(SubSeq(s, 1, n)) = n
    BY <2>2
  <2> QED
    BY <2>2, <2>4, <2>5
<1>3. ASSUME NEW s \in Seq(S), NEW t \in Seq(S), Len(s) = Len(t),
             \A i \in 1..Len(s) : s[i] = t[i]
      PROVE  s = t
  BY <1>3, SeqEqual
<1>4. a = p <=> Starts(a, p) /\ Len(a) = Len(p)
  <2>1. a = p => Starts(a, p) /\ Len(a) = Len(p)
    BY <1>1 DEF Starts
  <2>2. ASSUME Starts(a, p), Len(a) = Len(p) PROVE a = p
    BY <1>3, <2>2 DEF Starts
  <2> QED
    BY <2>1, <2>2
<1>5. ASSUME Len(a) <= Len(p)
      PROVE  SubSeq(a, 1, Len(a)) = SubSeq(p, 1, Len(a)) <=> \A i \in 1..Len(a) : a[i] = p[i]
  <2> DEFINE s == SubSeq(a, 1, Len(a))
             t == SubSeq(p, 1, Len(a))
  <2>1. s \in Seq(S) /\ Len(s) = Len(a) /\ \A i \in 1..Len(a) : s[i] = a[i]
    BY <1>1, <1>2
  <2>2. t \in Seq(S) /\ Len(t) = Len(a) /\ \A i \in 1..Len(a) : t[i] = p[i]
    BY <1>1, <1>2, <1>5
  <2> HIDE DEF s, t
  <2>3. (\A i \in 1..Len(a) : a[i] = p[i]) => s = t
    BY <1>3, <2>1, <2>2
  <2>4. s = t => \A i \in 1..Len(a) : a[i] = p[i]
    BY <2>1, <2>2
  <2> QED
    BY <2>3, <2>4 DEF s, t
<1> QED
  BY <1>4, <1>5 DEF IsPrefix, Starts

LEMMA StartsNext ==
  ASSUME NEW S, NEW a \in Seq(S), NEW p \in Seq(S), NEW c \in S
  PROVE  /\ Append(a, c) \in Seq(S) /\ Len(Append(a, c)) = Len(a) + 1
         /\ DOMAIN Append(a, c) = 1..(Len(a) + 1)
         /\ \A i \in 1..Len(a) : Append(a, c)[i] = a[i]
         /\ Append(a, c)[Len(a) + 1] = c
         /\ Starts(Append(a, c), p) <=> Starts(a, p) /\ Len(a) < Len(p) /\ p[Len(a) + 1] = c
<1> DEFINE b == Append(a, c)
<1>1. /\ b \in Seq(S) /\ Len(b) = Len(a) + 1 /\ DOMAIN b = 1..(Len(a) + 1)
      /\ \A i \in 1..Len(a) : b[i] = a[i]
      /\ b[Len(a) + 1] = c
      /\ Len(a) \in Nat /\ Len(p) \in Nat
  OBVIOUS
<1> HIDE DEF b
<1>2. Starts(b, p) => Starts(a, p) /\ Len(a) < Len(p) /\ p[Len(a) + 1] = c
  BY <1>1 DEF Starts
<1>3. Starts(a, p) /\ Len(a) < Len(p) /\ p[Len(a) + 1] = c => Starts(b, p)
  <2> SUFFICES ASSUME Starts(a, p), Len(a) < Len(p), p[Len(a) + 1] = c PROVE Starts(b, p)
    OBVIOUS
  <2>1. ASSUME NEW i \in 1..(Len(a) + 1) PROVE b[i] = p[i]
    <3>1. i = Len(a) + 1 \/ i \in 1..Len(a)
      BY <1>1
    <3> QED
      BY <1>1, <3>1 DEF Starts
  <2> QED
    BY <1>1, <2>1 DEF Starts
<1> QED
  BY <1>1, <1>2, <1>3 DEF b

LEMMA StartsOrder ==
  ASSUME NEW S, NEW a \in Seq(S), NEW b \in Seq(S), NEW p \in Seq(S),
         Starts(a, p), Starts(b, p), Len(a) <= Len(b)
  PROVE  Starts(a, b)
<1>1. Len(a) \in Nat /\ Len(b) \in Nat
  OBVIOUS
<1> QED
  BY <1>1 DEF Starts

LEMMA StartsThrough ==
  ASSUME NEW a, NEW b, NEW p, IsList(a), IsList(b), IsList(p), Starts(a, b), Starts(b, p)
  PROVE  Starts(a, p)
<1>1. Len(a) \in Nat /\ Len(b) \in Nat /\ Len(p) \in Nat
  BY DEF IsList
<1> QED
  BY <1>1 DEF Starts

\* Two sequences of whatever elements.
LEMMA ListStarts ==
  ASSUME NEW a, IsList(a), NEW p, IsList(p)
  PROVE  /\ IsPrefix(a, p) <=> Starts(a, p)
         /\ a = p <=> Starts(a, p) /\ Len(a) = Len(p)
<1> DEFINE A == {a[i] : i \in DOMAIN a}
           P == {p[i] : i \in DOMAIN p}
<1>1. a \in Seq(A) /\ p \in Seq(P)
  BY DEF IsList
<1> HIDE DEF A, P
<1>2. a \in Seq(A \cup P) /\ p \in Seq(A \cup P)
  BY <1>1
<1> QED
  BY <1>2, StartsIs

\* The first m elements of a sequence, none if m is less than one.
LEMMA ListBeginning ==
  ASSUME NEW s, IsList(s), NEW m \in Int, m <= Len(s)
  PROVE  /\ IsList(SubSeq(s, 1, m)) /\ Starts(SubSeq(s, 1, m), s)
         /\ Len(SubSeq(s, 1, m)) = IF m < 0 THEN 0 ELSE m
         /\ DOMAIN SubSeq(s, 1, m) = 1..m
         /\ \A i \in 1..m : SubSeq(s, 1, m)[i] = s[i]
<1> DEFINE S == {s[i] : i \in DOMAIN s}
           b == SubSeq(s, 1, m)
<1>1. s \in Seq(S)
  BY DEF IsList
<1> HIDE DEF S
<1>2. Len(s) \in Nat /\ \A i \in 1..m : s[i] \in S
  BY <1>1
<1>3. /\ b \in Seq(S)
      /\ Len(b) = IF 1 <= m THEN m - 1 + 1 ELSE 0
      /\ \A i \in 1..(m - 1 + 1) : b[i] = s[1 + i - 1]
  BY <1>1, <1>2, SubSeqProperties
<1> HIDE DEF b
<1>4. \A i \in 1..m : i \in 1..(m - 1 + 1) /\ 1 + i - 1 = i
  OBVIOUS
<1>5. \A i \in 1..m : b[i] = s[i]
  BY <1>3, <1>4
<1>6. Len(b) = (IF m < 0 THEN 0 ELSE m) /\ DOMAIN b = 1..Len(b) /\ 1..Len(b) = 1..m
  BY <1>3
<1>7. IsList(b)
  BY <1>3, ListOfSeq
<1>8. Starts(b, s)
  BY <1>2, <1>5, <1>6 DEF Starts
<1> QED
  BY <1>5, <1>6, <1>7, <1>8 DEF b

==============================================================================
