------------------------------- MODULE VMProofs -------------------------------
(***************************************************************************)
(* Proofs about the machine, for every module it is given and every state  *)
(* its program comes to: functions that keep the discipline leave their    *)
(* callers the stack as it was, as long as one goroutine uses it.          *)
(***************************************************************************)
EXTENDS Discipline, ListProofs, TLAPS

------------------------------------------------------------------------------
(* What holds of the frames and the stack beneath them                     *)

\* The hypotheses: no task has been spawned, what is called keeps the
\* discipline, and no step drops an error, that is, ends calls that do not
\* return and lets the one who made them go on.
OneThread == DOMAIN threads = {1}

CallsDisciplined ==
  \A t \in DOMAIN threads : \A k \in DOMAIN Frames(t) :
    k > 1 => Disciplined(module[Frames(t)[k].fn].code)

ErrorDropped ==
  \E t \in DOMAIN threads :
    /\ Fetch(t, {"CALL", "CALL_METHOD", "THROW"})
    /\ Len(threads'[t].frames) \in 1..(Len(Frames(t)) - 1)

IsFrame(fr) ==
  fr = [fn |-> fr.fn, ip |-> fr.ip, kept |-> fr.kept, swallow |-> fr.swallow,
        locals |-> fr.locals]

\* The heights of a function's instructions, and of the stack where a frame is.
Height(mod, f) == CHOOSE height : KeepsTo(mod[f].code, height)
Above(mod, fr) == Len(fr.kept) + Height(mod, fr.fn)[fr.ip]

\* An error that is dropped leaves what the calls it ended had pushed, so that
\* the stack may be higher than it should.
Reaches(strict, n, m) == n >= m /\ (strict => n = m)

\* A frame that has called another waits for one value.
Placed(strict, mod, fs, s, k) ==
  /\ fs[k].ip \in DOMAIN Height(mod, fs[k].fn)
  /\ IF k = Len(fs) THEN Reaches(strict, Len(s), Above(mod, fs[k]))
     ELSE Reaches(strict, Len(fs[k + 1].kept) + 1, Above(mod, fs[k]))

Fits(strict, mod, fs, s) ==
  /\ IsList(fs) /\ IsList(s)
  /\ \A k \in DOMAIN fs :
       /\ IsFrame(fs[k]) /\ fs[k].ip \in Nat
       /\ IsList(fs[k].kept) /\ Starts(fs[k].kept, s)
       /\ k = 1 => fs[k].fn = 1 /\ fs[k].kept = <<>>
       /\ k > 1 => Disciplined(mod[fs[k].fn].code) /\ Placed(strict, mod, fs, s, k)
  /\ \A j, k \in DOMAIN fs : j <= k => Len(fs[j].kept) <= Len(fs[k].kept)

MachineInv(strict) ==
  /\ module \in Seq(Functions) /\ module # <<>>
  /\ threads = <<[task |-> <<>>, frames |-> Frames(1), failed |-> threads[1].failed]>>
  /\ Fits(strict, module, Frames(1), stack)

LEMMA HeightKept ==
  ASSUME NEW mod, NEW f, Disciplined(mod[f].code)
  PROVE  KeepsTo(mod[f].code, Height(mod, f))
  BY DEF Disciplined, Height

\* A stack that has lost some of its values, and got others on top.
Works(s, r, pops, pushes) ==
  /\ IsList(r)
  /\ pops \in 0..Len(s) =>
       Len(r) = Len(s) - pops + pushes /\ \A i \in 1..(Len(s) - pops) : r[i] = s[i]

\* What begins the stack still does when only values above it are taken.
LEMMA StillStarts ==
  ASSUME NEW s, IsList(s), NEW r, NEW pops, NEW pushes \in Nat, Works(s, r, pops, pushes),
         NEW a, IsList(a), Starts(a, s), pops \in 0..(Len(s) - Len(a))
  PROVE  Starts(a, r)
<1>1. Len(a) \in Nat /\ Len(s) \in Nat
  BY DEF IsList
<1>2. pops \in 0..Len(s)
  BY <1>1
<1>3. Len(r) = Len(s) - pops + pushes /\ \A i \in 1..(Len(s) - pops) : r[i] = s[i]
  BY <1>2 DEF Works
<1>4. Len(a) <= Len(r) /\ \A i \in 1..Len(a) : i \in 1..(Len(s) - pops) /\ i \in 1..Len(a)
  BY <1>1, <1>2, <1>3
<1> QED
  BY <1>3, <1>4 DEF Starts

\* The frame on top goes on to another place, the stack above it changes.
LEMMA Moved ==
  ASSUME NEW strict \in BOOLEAN, NEW mod, NEW fs, NEW s, Fits(strict, mod, fs, s), fs # <<>>,
         NEW fr, IsFrame(fr), fr.fn = fs[Len(fs)].fn, fr.kept = fs[Len(fs)].kept, fr.ip \in Nat,
         NEW r, IsList(r), Starts(fr.kept, r),
         Len(fs) > 1 => /\ fr.ip \in DOMAIN Height(mod, fr.fn)
                        /\ Reaches(strict, Len(r), Above(mod, fr))
  PROVE  Fits(strict, mod, [fs EXCEPT ![Len(fs)] = fr], r)
<1> DEFINE n == Len(fs)
           gs == [fs EXCEPT ![n] = fr]
<1>1. n \in Nat /\ n >= 1 /\ DOMAIN fs = 1..n
  <2>1. IsList(fs)
    BY DEF Fits
  <2> QED
    BY <2>1, ListTail
<1> HIDE DEF n
<1>2. DOMAIN gs = 1..n /\ gs[n] = fr /\ \A k \in 1..n : k # n => gs[k] = fs[k]
  BY <1>1
<1>3. IsList(gs) /\ Len(gs) = n
  <2>1. gs = [i \in 1..n |-> gs[i]]
    BY <1>1
  <2> HIDE DEF gs
  <2> QED
    BY <1>1, <2>1, ListOfFunction
<1> HIDE DEF gs
<1>4. \A k \in 1..n : gs[k].kept = fs[k].kept /\ gs[k].fn = fs[k].fn
  <2>1. fs[n] = fs[Len(fs)]
    BY DEF n
  <2> QED
    BY <1>2, <2>1
<1>5. \A k \in 1..n : Len(fs[k].kept) \in Nat /\ Len(fs[k].kept) <= Len(fs[n].kept)
  <2>1. \A k \in 1..n : IsList(fs[k].kept) /\ Len(fs[k].kept) <= Len(fs[n].kept)
    BY <1>1 DEF Fits
  <2> QED
    BY <2>1, ListLength
<1>6. ASSUME NEW k \in 1..n PROVE Starts(gs[k].kept, r)
  <2>1. Starts(fs[k].kept, s) /\ Starts(fs[n].kept, s)
    BY <1>1 DEF Fits
  <2>2. Starts(fs[k].kept, fs[n].kept)
    BY <1>5, <2>1 DEF Starts
  <2>3. IsList(fs[k].kept) /\ IsList(fs[n].kept)
    BY <1>1 DEF Fits
  <2>4. Starts(fs[k].kept, r)
    <3>1. Starts(fs[n].kept, r)
      BY DEF n
    <3> QED
      BY <2>2, <2>3, <3>1, StartsThrough
  <2> QED
    BY <1>4, <2>4
<1>7. ASSUME NEW k \in 1..n
      PROVE  /\ IsFrame(gs[k]) /\ gs[k].ip \in Nat
             /\ IsList(gs[k].kept) /\ Starts(gs[k].kept, r)
             /\ k = 1 => gs[k].fn = 1 /\ gs[k].kept = <<>>
             /\ k > 1 => Disciplined(mod[gs[k].fn].code) /\ Placed(strict, mod, gs, r, k)
  <2>1. IsFrame(gs[k]) /\ gs[k].ip \in Nat
    BY <1>1, <1>2 DEF Fits
  <2>2. IsList(gs[k].kept) /\ (k = 1 => gs[k].fn = 1 /\ gs[k].kept = <<>>)
    BY <1>1, <1>4 DEF Fits
  <2>3. ASSUME k > 1 PROVE Disciplined(mod[gs[k].fn].code) /\ Placed(strict, mod, gs, r, k)
    <3>1. Disciplined(mod[fs[k].fn].code) /\ Placed(strict, mod, fs, s, k)
      BY <1>1, <2>3 DEF Fits
    <3>2. CASE k = n
      <4>1. gs[k] = fr /\ fr.fn = fs[k].fn /\ n > 1 /\ n = Len(fs)
        BY <1>2, <2>3, <3>2 DEF n
      <4> QED
        BY <1>3, <3>1, <3>2, <4>1 DEF Placed
    <3>3. CASE k # n
      <4>1. gs[k] = fs[k] /\ k + 1 \in 1..n
        BY <1>1, <1>2, <3>3
      <4>2. gs[k + 1].kept = fs[k + 1].kept
        BY <1>4, <4>1
      <4>3. n = Len(fs)
        BY DEF n
      <4> QED
        BY <1>3, <3>1, <3>3, <4>1, <4>2, <4>3 DEF Placed, Above
    <3> QED
      BY <3>2, <3>3
  <2> QED
    BY <1>6, <2>1, <2>2, <2>3
<1>8. \A j, k \in 1..n : j <= k => Len(gs[j].kept) <= Len(gs[k].kept)
  BY <1>1, <1>4 DEF Fits
<1>9. Fits(strict, mod, gs, r)
  BY <1>2, <1>3, <1>7, <1>8 DEF Fits
<1> QED
  BY <1>9 DEF gs, n

LEMMA ListAppended ==
  ASSUME NEW s, IsList(s), NEW e
  PROVE  IsList(Append(s, e)) /\ Len(Append(s, e)) = Len(s) + 1 /\ Len(s) \in Nat
<1> DEFINE t == Append(s, e)
<1>1. IsList(t) /\ DOMAIN t = 1..(Len(s) + 1) /\ Len(s) \in Nat
  BY ListAppend
<1> HIDE DEF t
<1>2. Len(t) \in Nat /\ DOMAIN t = 1..Len(t)
  BY <1>1, ListLength
<1>3. Len(t) = Len(s) + 1
  BY <1>1, <1>2
<1> QED
  BY <1>1, <1>3 DEF t

\* The frame on top calls a function, which begins above what is left.
LEMMA Entered ==
  ASSUME NEW strict \in BOOLEAN, NEW mod, NEW fs, NEW left, IsList(left), NEW v,
         Fits(strict, mod, fs, Append(left, v)), fs # <<>>, Len(fs[Len(fs)].kept) <= Len(left),
         NEW fr, IsFrame(fr), fr.ip = 0, fr.kept = left, Disciplined(mod[fr.fn].code)
  PROVE  Fits(strict, mod, Append(fs, fr), left)
<1> DEFINE n == Len(fs)
           s == Append(left, v)
           gs == Append(fs, fr)
<1>1. IsList(fs) /\ n \in Nat /\ n >= 1 /\ DOMAIN fs = 1..n
  <2>1. IsList(fs)
    BY DEF Fits
  <2> QED
    BY <2>1, ListTail
<1>2. IsList(gs) /\ Len(gs) = n + 1 /\ DOMAIN gs = 1..(n + 1) /\ gs[n + 1] = fr
      /\ \A k \in 1..n : gs[k] = fs[k]
  BY <1>1, ListAppend, ListAppended
<1>3. /\ IsList(s) /\ Len(s) = Len(left) + 1 /\ Len(left) \in Nat
      /\ \A i \in 1..Len(left) : s[i] = left[i]
  BY ListAppend, ListAppended
<1>4. \A k \in 1..n : /\ IsFrame(fs[k]) /\ fs[k].ip \in Nat
                      /\ IsList(fs[k].kept) /\ Starts(fs[k].kept, s)
                      /\ k = 1 => fs[k].fn = 1 /\ fs[k].kept = <<>>
                      /\ k > 1 => Disciplined(mod[fs[k].fn].code) /\ Placed(strict, mod, fs, s, k)
  BY <1>1 DEF Fits
<1>5. \A j, k \in 1..n : j <= k => Len(fs[j].kept) <= Len(fs[k].kept)
  BY <1>1 DEF Fits
<1>6. n = Len(fs)
  OBVIOUS
<1> HIDE DEF n, s, gs
<1>7. \A k \in 1..n : Len(fs[k].kept) \in Nat /\ Len(fs[k].kept) <= Len(left)
  <2>1. \A k \in 1..n : Len(fs[k].kept) <= Len(fs[n].kept)
    BY <1>1, <1>5
  <2>2. \A k \in 1..n : Len(fs[k].kept) \in Nat
    BY <1>4, ListLength
  <2> QED
    BY <1>1, <1>3, <1>6, <2>1, <2>2
<1>8. ASSUME NEW k \in 1..n PROVE Starts(fs[k].kept, left)
  BY <1>3, <1>4, <1>7 DEF Starts
<1>9. KeepsTo(mod[fr.fn].code, Height(mod, fr.fn))
  BY HeightKept
<1>10. 0 \in DOMAIN Height(mod, fr.fn) /\ Height(mod, fr.fn)[0] = 0
  BY <1>9 DEF KeepsTo
<1>11. ASSUME NEW k \in 1..(n + 1)
       PROVE  /\ IsFrame(gs[k]) /\ gs[k].ip \in Nat
              /\ IsList(gs[k].kept) /\ Starts(gs[k].kept, left)
              /\ k = 1 => gs[k].fn = 1 /\ gs[k].kept = <<>>
              /\ k > 1 => Disciplined(mod[gs[k].fn].code) /\ Placed(strict, mod, gs, left, k)
  <2>1. CASE k = n + 1
    <3>1. Starts(left, left)
      BY <1>3 DEF Starts
    <3>2. Reaches(strict, Len(left), Above(mod, fr))
      BY <1>3, <1>10 DEF Reaches, Above
    <3>3. Placed(strict, mod, gs, left, k)
      BY <1>2, <1>10, <2>1, <3>2 DEF Placed
    <3> QED
      BY <1>1, <1>2, <2>1, <3>1, <3>3
  <2>2. CASE k \in 1..n
    <3>1. gs[k] = fs[k]
      BY <1>2, <2>2
    <3>2. k > 1 => Placed(strict, mod, gs, left, k)
      <4> SUFFICES ASSUME k > 1 PROVE Placed(strict, mod, gs, left, k)
        OBVIOUS
      <4>1. Placed(strict, mod, fs, s, k)
        BY <1>4, <2>2
      <4>2. CASE k = n
        <5>1. gs[k + 1].kept = left /\ k # Len(gs)
          BY <1>1, <1>2, <4>2
        <5> QED
          BY <1>3, <1>6, <3>1, <4>1, <4>2, <5>1 DEF Placed
      <4>3. CASE k # n
        <5>1. k + 1 \in 1..n /\ k # n + 1
          BY <1>1, <2>2, <4>3
        <5>2. gs[k + 1] = fs[k + 1]
          BY <1>2, <5>1
        <5>3. k # Len(gs) /\ k # Len(fs)
          BY <1>2, <1>6, <4>3, <5>1
        <5> QED
          BY <3>1, <4>1, <5>2, <5>3 DEF Placed
      <4> QED
        BY <4>2, <4>3
    <3> QED
      BY <1>4, <1>8, <2>2, <3>1, <3>2
  <2> QED
    BY <1>1, <2>1, <2>2
<1>12. ASSUME NEW j \in 1..(n + 1), NEW k \in 1..(n + 1), j <= k
       PROVE  Len(gs[j].kept) <= Len(gs[k].kept)
  <2>1. CASE k = n + 1
    <3>1. gs[k].kept = left
      BY <1>2, <2>1
    <3>2. CASE j = n + 1
      BY <1>2, <1>3, <2>1, <3>2
    <3>3. CASE j \in 1..n
      BY <1>2, <1>7, <3>1, <3>3
    <3> QED
      BY <1>1, <3>2, <3>3
  <2>2. CASE k # n + 1
    <3>1. j \in 1..n /\ k \in 1..n
      BY <1>1, <1>12, <2>2
    <3> QED
      BY <1>2, <1>5, <1>12, <3>1
  <2> QED
    BY <2>1, <2>2
<1>13. Fits(strict, mod, gs, left)
  BY <1>2, <1>3, <1>11, <1>12 DEF Fits
<1> QED
  BY <1>13 DEF gs

\* The calls above the m-th frame end; it gets a value above what was kept for
\* the first of them.
LEMMA Left ==
  ASSUME NEW strict \in BOOLEAN, NEW mod, NEW fs, NEW s, Fits(strict, mod, fs, s),
         NEW m \in Nat, m < Len(fs),
         NEW r, IsList(r), Starts(fs[m + 1].kept, r),
         Reaches(strict, Len(r), Len(fs[m + 1].kept) + 1)
  PROVE  Fits(strict, mod, SubSeq(fs, 1, m), r)
<1> DEFINE gs == SubSeq(fs, 1, m)
<1>1. IsList(fs)
  BY DEF Fits
<1>2. Len(fs) \in Nat /\ DOMAIN fs = 1..Len(fs)
  BY <1>1, ListLength
<1>3. IsList(gs) /\ Len(gs) = m /\ DOMAIN gs = 1..m /\ \A k \in 1..m : gs[k] = fs[k]
  BY <1>1, <1>2, ListBeginning
<1> HIDE DEF gs
<1>4. \A k \in 1..(m + 1) :
        /\ k \in DOMAIN fs /\ IsFrame(fs[k]) /\ fs[k].ip \in Nat
        /\ IsList(fs[k].kept) /\ Starts(fs[k].kept, s)
        /\ k = 1 => fs[k].fn = 1 /\ fs[k].kept = <<>>
        /\ k > 1 => Disciplined(mod[fs[k].fn].code) /\ Placed(strict, mod, fs, s, k)
  BY <1>2 DEF Fits
<1>5. \A j, k \in 1..(m + 1) : j <= k => Len(fs[j].kept) <= Len(fs[k].kept)
  BY <1>2 DEF Fits
<1>6. \A k \in 1..(m + 1) : Len(fs[k].kept) \in Nat
  BY <1>4, ListLength
<1>7. ASSUME NEW k \in 1..m PROVE Starts(fs[k].kept, r)
  <2>a. k \in 1..(m + 1) /\ m + 1 \in 1..(m + 1) /\ k <= m + 1
    OBVIOUS
  <2>1. Starts(fs[k].kept, s) /\ Starts(fs[m + 1].kept, s) /\ Len(fs[k].kept) <= Len(fs[m + 1].kept)
    BY <1>4, <1>5, <2>a, Zenon
  <2>b. Len(fs[k].kept) \in Nat /\ Len(fs[m + 1].kept) \in Nat
    BY <1>6, <2>a, Zenon
  <2>2. Starts(fs[k].kept, fs[m + 1].kept)
    <3> DEFINE a == fs[k].kept
               p == fs[m + 1].kept
    <3>1. /\ Len(a) \in Nat /\ Len(p) \in Nat /\ Len(a) <= Len(p)
          /\ \A i \in 1..Len(a) : a[i] = s[i]
          /\ \A i \in 1..Len(p) : p[i] = s[i]
      BY <2>1, <2>b, Zenon DEF Starts
    <3> HIDE DEF a, p
    <3>2. Starts(a, p)
      BY <3>1 DEF Starts
    <3> QED
      BY <3>2 DEF a, p
  <2>3. IsList(fs[k].kept) /\ IsList(fs[m + 1].kept)
    BY <1>4
  <2> QED
    BY <2>2, <2>3, StartsThrough
<1>8. ASSUME NEW k \in 1..m, k > 1 PROVE Placed(strict, mod, gs, r, k)
  <2>0. k \in 1..(m + 1)
    OBVIOUS
  <2>a. k # Len(fs)
    <3>1. k \in Int /\ k <= m /\ Len(fs) \in Int
      BY <1>2
    <3> QED
      BY <3>1
  <2>b. Placed(strict, mod, fs, s, k)
    BY <1>4, <1>8, <2>0
  <2>1. Placed(strict, mod, fs, s, k) /\ gs[k] = fs[k] /\ k # Len(fs)
    BY <1>3, <2>a, <2>b
  <2>2. CASE k = m
    <3>1. /\ fs[k].ip \in DOMAIN Height(mod, fs[k].fn)
          /\ Reaches(strict, Len(fs[m + 1].kept) + 1, Above(mod, fs[k]))
      BY <2>1, <2>2 DEF Placed
    <3>2. Len(r) \in Nat /\ Len(fs[m + 1].kept) \in Nat
      BY <1>6, ListLength
    <3>3. Above(mod, fs[k]) \in Int
      <4>1. KeepsTo(mod[fs[k].fn].code, Height(mod, fs[k].fn))
        BY <1>4, <1>8, HeightKept
      <4>2. Height(mod, fs[k].fn)[fs[k].ip] \in Nat
        BY <3>1, <4>1 DEF KeepsTo
      <4> QED
        BY <1>6, <4>2 DEF Above
    <3>4. Reaches(strict, Len(r), Above(mod, fs[k]))
      BY <3>1, <3>2, <3>3 DEF Reaches
    <3> QED
      BY <1>3, <2>1, <2>2, <3>1, <3>4 DEF Placed
  <2>3. CASE k # m
    <3>1. gs[k + 1] = fs[k + 1]
      BY <1>3, <2>3
    <3> QED
      BY <1>3, <2>1, <2>3, <3>1 DEF Placed
  <2> QED
    BY <2>2, <2>3
<1>9. \A k \in 1..m : /\ IsFrame(gs[k]) /\ gs[k].ip \in Nat
                      /\ IsList(gs[k].kept) /\ Starts(gs[k].kept, r)
                      /\ k = 1 => gs[k].fn = 1 /\ gs[k].kept = <<>>
                      /\ k > 1 => Disciplined(mod[gs[k].fn].code) /\ Placed(strict, mod, gs, r, k)
  BY <1>3, <1>4, <1>7, <1>8
<1>10. \A j, k \in 1..m : j <= k => Len(gs[j].kept) <= Len(gs[k].kept)
  BY <1>3, <1>5
<1>11. Fits(strict, mod, gs, r)
  BY <1>3, <1>9, <1>10 DEF Fits
<1> QED
  BY <1>11 DEF gs

------------------------------------------------------------------------------
(* The instruction the frame on top comes to                               *)

Comes(strict, mod, fs, s, f, ins) ==
  /\ mod \in Seq(Functions) /\ mod # <<>>
  /\ Fits(strict, mod, fs, s)
  /\ fs # <<>> /\ f = fs[Len(fs)]
  /\ f.ip < Len(mod[f.fn].code) /\ ins = mod[f.fn].code[f.ip + 1]

LEMMA OnTop ==
  ASSUME NEW strict \in BOOLEAN, NEW mod, NEW fs, NEW s, NEW f, NEW ins,
         Comes(strict, mod, fs, s, f, ins)
  PROVE  /\ Len(fs) \in Nat \ {0} /\ DOMAIN fs = 1..Len(fs) /\ IsList(s) /\ Len(s) \in Nat
         /\ Len(fs) = 1 \/ Len(fs) > 1
         /\ IsFrame(f) /\ f.ip \in Nat
         /\ IsList(f.kept) /\ Len(f.kept) \in Nat /\ Starts(f.kept, s)
         /\ Pops(ins) \in Nat /\ Nexts(f.ip, ins) \subseteq Nat
         /\ Len(fs) = 1 => f.kept = <<>>
         /\ Len(fs) > 1 =>
              /\ KeepsTo(mod[f.fn].code, Height(mod, f.fn)) /\ f.ip \in DOMAIN Height(mod, f.fn)
              /\ Reaches(strict, Len(s), Above(mod, f))
              /\ Height(mod, f.fn)[f.ip] \in Nat /\ Pops(ins) \in 0..Height(mod, f.fn)[f.ip]
<1> USE DEF Comes
<1>1. IsList(fs) /\ IsList(s)
  BY DEF Fits
<1>2. Len(fs) \in Nat \ {0} /\ DOMAIN fs = 1..Len(fs) /\ Len(s) \in Nat
  BY <1>1, ListTail, ListLength
<1>3. /\ IsFrame(f) /\ f.ip \in Nat /\ IsList(f.kept) /\ Starts(f.kept, s)
      /\ Len(fs) = 1 => f.fn = 1 /\ f.kept = <<>>
      /\ Len(fs) > 1 => Disciplined(mod[f.fn].code) /\ Placed(strict, mod, fs, s, Len(fs))
  <2>1. Len(fs) \in DOMAIN fs
    BY <1>2
  <2> QED
    BY <1>2, <2>1 DEF Fits
<1>4. Len(f.kept) \in Nat
  BY <1>3, ListLength
<1>5. ASSUME Len(fs) > 1
      PROVE  /\ KeepsTo(mod[f.fn].code, Height(mod, f.fn)) /\ f.ip \in DOMAIN Height(mod, f.fn)
             /\ Reaches(strict, Len(s), Above(mod, f))
             /\ Height(mod, f.fn)[f.ip] \in Nat /\ Pops(ins) \in 0..Height(mod, f.fn)[f.ip]
             /\ \A next \in Nexts(f.ip, ins) : next \in DOMAIN Height(mod, f.fn)
             /\ DOMAIN Height(mod, f.fn) \subseteq Nat
  <2>1. KeepsTo(mod[f.fn].code, Height(mod, f.fn))
    BY <1>3, <1>5, HeightKept
  <2>2. f.ip \in DOMAIN Height(mod, f.fn) /\ Reaches(strict, Len(s), Above(mod, f))
    BY <1>3, <1>5 DEF Placed
  <2>3. /\ Height(mod, f.fn)[f.ip] \in Nat /\ Pops(ins) \in 0..Height(mod, f.fn)[f.ip]
        /\ \A next \in Nexts(f.ip, ins) : next \in DOMAIN Height(mod, f.fn)
    BY <2>1, <2>2 DEF KeepsTo
  <2>4. DOMAIN Height(mod, f.fn) \subseteq Nat
    <3>1. \A ip \in DOMAIN Height(mod, f.fn) : ip \in 0..(Len(mod[f.fn].code) - 1)
      BY <2>1 DEF KeepsTo
    <3>2. \A ip, n : ip \in 0..n => ip \in Nat
      OBVIOUS
    <3> QED
      BY <3>1, <3>2
  <2> QED
    BY <2>1, <2>2, <2>3, <2>4, Zenon
<1>6. ASSUME Len(fs) = 1 PROVE Pops(ins) \in Nat /\ Nexts(f.ip, ins) \subseteq Nat
  <2>1. Len(mod) \in Nat \ {0} /\ DOMAIN mod = 1..Len(mod) /\ \A i \in DOMAIN mod : mod[i] \in Functions
    OBVIOUS
  <2>2. mod[f.fn] \in Functions
    BY <1>3, <1>6, <2>1
  <2>3. /\ mod[f.fn].code \in Seq(Instructions)
        /\ \A i \in DOMAIN mod[f.fn].code :
             mod[f.fn].code[i].op # "LOAD_INT" => mod[f.fn].code[i].n \in Nat
    BY <2>2 DEF Functions
  <2>4. f.ip + 1 \in DOMAIN mod[f.fn].code
    BY <1>3, <2>3
  <2>5. ins.op # "LOAD_INT" => ins.n \in Nat
    BY <2>3, <2>4
  <2>6. Pops(ins) \in Nat
    <3>1. CASE ins.op = "LOAD_INT"
      BY <3>1 DEF Pops, Operators
    <3>2. CASE ins.op # "LOAD_INT"
      <4>1. ins.n \in Nat /\ ins.n + 1 \in Nat /\ ins.n + 2 \in Nat /\ 2 * ins.n \in Nat
        <5>1. \A n \in Nat : n + 1 \in Nat /\ n + 2 \in Nat /\ 2 * n \in Nat
          OBVIOUS
        <5> QED
          BY <2>5, <3>2, <5>1
      <4> QED
        BY <4>1 DEF Pops
    <3> QED
      BY <3>1, <3>2
  <2>7. Nexts(f.ip, ins) \subseteq Nat
    <3>1. Nexts(f.ip, ins) \in {{ins.n}, {f.ip + 1, ins.n}, {f.ip + 1}, {}}
      BY DEF Nexts
    <3>2. ins.op \notin {"JUMP", "JUMP_IF_FALSE"} => Nexts(f.ip, ins) \in {{f.ip + 1}, {}}
      BY DEF Nexts
    <3>3. f.ip + 1 \in Nat
      BY <1>3
    <3>4. ins.op \in {"JUMP", "JUMP_IF_FALSE"} => ins.n \in Nat
      BY <2>5
    <3> QED
      BY <3>1, <3>2, <3>3, <3>4
  <2> QED
    BY <2>6, <2>7
<1>7. Pops(ins) \in Nat /\ Nexts(f.ip, ins) \subseteq Nat
  <2>1. CASE Len(fs) = 1
    BY <1>6, <2>1
  <2>2. CASE Len(fs) > 1
    <3>1. Nexts(f.ip, ins) \subseteq Nat
      BY <1>5, <2>2, Zenon
    <3>2. Pops(ins) \in 0..Height(mod, f.fn)[f.ip]
      BY <1>5, <2>2
    <3>3. \A i, n : i \in 0..n => i \in Nat
      OBVIOUS
    <3> QED
      BY <3>1, <3>2, <3>3
  <2> QED
    BY <1>2, <2>1, <2>2
<1>8. Len(fs) = 1 \/ Len(fs) > 1
  BY <1>2
<1> QED
  BY <1>1, <1>2, <1>3, <1>4, <1>5, <1>7, <1>8

\* An instruction that takes and puts what it says leaves the frames as they
\* should be.
LEMMA Worked ==
  ASSUME NEW strict \in BOOLEAN, NEW mod, NEW fs, NEW s, NEW f, NEW ins,
         Comes(strict, mod, fs, s, f, ins),
         NEW fr, IsFrame(fr), fr.fn = f.fn, fr.kept = f.kept, fr.ip \in Nexts(f.ip, ins),
         NEW r, Works(s, r, Pops(ins), Pushes(ins))
  PROVE  Fits(strict, mod, [fs EXCEPT ![Len(fs)] = fr], r)
<1>1. /\ Len(fs) \in Nat \ {0} /\ DOMAIN fs = 1..Len(fs) /\ IsList(s) /\ Len(s) \in Nat
      /\ IsList(f.kept) /\ Len(f.kept) \in Nat /\ Starts(f.kept, s) /\ fr.ip \in Nat
      /\ Pops(ins) \in Nat
      /\ Len(fs) = 1 => f.kept = <<>>
  BY OnTop
<1>0. Fits(strict, mod, fs, s) /\ fs # <<>> /\ f = fs[Len(fs)]
  BY DEF Comes
<1>2. IsList(r) /\ Len(r) \in Nat
  BY ListLength DEF Works
<1>3. Pushes(ins) \in Nat
  BY DEF Pushes
<1>4. CASE Len(fs) = 1
  <2>1. fr.kept = <<>>
    BY <1>1, <1>4
  <2>2. Len(fr.kept) = 0
    BY <2>1
  <2>3. Starts(fr.kept, r)
    BY <1>2, <2>2 DEF Starts
  <2>4. ~(Len(fs) > 1)
    BY <1>4
  <2> QED
    BY <1>0, <1>1, <1>2, <2>3, <2>4, Moved
<1>5. CASE Len(fs) > 1
  <2> DEFINE height == Height(mod, f.fn)
  <2>1. /\ KeepsTo(mod[f.fn].code, height) /\ f.ip \in DOMAIN height
        /\ Reaches(strict, Len(s), Above(mod, f))
        /\ height[f.ip] \in Nat /\ Pops(ins) \in 0..height[f.ip]
    BY <1>5, OnTop
  <2>2. fr.ip \in DOMAIN height /\ height[fr.ip] = height[f.ip] - Pops(ins) + Pushes(ins)
    <3>1. ins = mod[f.fn].code[f.ip + 1]
      BY DEF Comes
    <3> QED
      BY <2>1, <3>1 DEF KeepsTo
  <2>3. Reaches(strict, Len(s), Len(f.kept) + height[f.ip])
    BY <2>1 DEF Above
  <2>4. Above(mod, fr) = Len(f.kept) + height[fr.ip]
    BY DEF Above
  <2> HIDE DEF height
  <2>a. Len(s) >= Len(f.kept) + height[f.ip] /\ (strict => Len(s) = Len(f.kept) + height[f.ip])
    BY <2>3 DEF Reaches
  <2>b. height[f.ip] \in Nat /\ Pops(ins) \in 0..height[f.ip]
    BY <2>1
  <2>5. Pops(ins) \in 0..(Len(s) - Len(f.kept)) /\ Pops(ins) \in 0..Len(s)
    BY <1>1, <2>a, <2>b
  <2>6. Starts(f.kept, r)
    BY <1>1, <1>3, <2>5, StillStarts
  <2>7. Len(r) = Len(s) - Pops(ins) + Pushes(ins)
    BY <2>5 DEF Works
  <2>8. Reaches(strict, Len(r), Above(mod, fr))
    <3>1. Pops(ins) \in Int /\ Pushes(ins) \in Int /\ Len(f.kept) \in Int /\ height[f.ip] \in Int
      BY <1>1, <1>3, <2>b
    <3> DEFINE l == Len(r)
               n == Len(s)
               p == Pops(ins)
               q == Pushes(ins)
               k == Len(f.kept)
               h == height[f.ip]
               g == height[fr.ip]
    <3>2. g = h - p + q /\ l = n - p + q
      BY <2>2, <2>7
    <3>3. n \in Int /\ p \in Int /\ q \in Int /\ k \in Int /\ h \in Int
      BY <1>1, <3>1
    <3>4. n >= k + h /\ (strict => n = k + h)
      BY <2>a
    <3> HIDE DEF l, n, p, q, k, h, g
    <3>5. (n >= k + h => l >= k + g) /\ (n = k + h => l = k + g)
      BY <3>2, <3>3
    <3>6. l >= k + g /\ (strict => l = k + g)
      BY <3>4, <3>5
    <3> QED
      BY <2>4, <3>6 DEF Reaches, l, k, g
  <2> QED
    BY <1>0, <1>1, <1>2, <1>5, <2>2, <2>6, <2>8, Moved DEF height
<1> QED
  BY <1>1, <1>4, <1>5

------------------------------------------------------------------------------
(* What the instructions do to the stack                                   *)

LEMMA Taken ==
  ASSUME NEW s, IsList(s), NEW k \in Nat
  PROVE  /\ IsList(SubSeq(s, 1, Len(s) - k))
         /\ k \in 0..Len(s) => Len(SubSeq(s, 1, Len(s) - k)) = Len(s) - k
         /\ Works(s, SubSeq(s, 1, Len(s) - k), k, 0)
         /\ \A v : Works(s, Append(SubSeq(s, 1, Len(s) - k), v), k, 1)
<1> DEFINE m == Len(s) - k
           r == SubSeq(s, 1, m)
<1>1. Len(s) \in Nat /\ m \in Int /\ m <= Len(s)
  BY ListLength
<1>2. IsList(r) /\ Len(r) = (IF m < 0 THEN 0 ELSE m) /\ \A i \in 1..m : r[i] = s[i]
  BY <1>1, ListBeginning
<1>3. k \in 0..Len(s) => m >= 0 /\ m = Len(s) - k + 0 /\ m + 1 = Len(s) - k + 1
  BY <1>1
<1>4. Works(s, r, k, 0)
  <2>1. k \in 0..Len(s) => Len(r) = Len(s) - k + 0
    BY <1>1, <1>2, <1>3
  <2> QED
    BY <1>2, <2>1 DEF Works
<1>5. ASSUME NEW v PROVE Works(s, Append(r, v), k, 1)
  <2>1. /\ IsList(Append(r, v)) /\ Len(Append(r, v)) = Len(r) + 1
        /\ \A i \in 1..Len(r) : Append(r, v)[i] = r[i]
    BY <1>2, ListAppend, ListAppended
  <2> DEFINE t == Append(r, v)
  <2> HIDE DEF t, r
  <2>2. ASSUME k \in 0..Len(s)
        PROVE  Len(t) = Len(s) - k + 1 /\ \A i \in 1..(Len(s) - k) : t[i] = s[i]
    <3>1. Len(r) = m
      BY <1>1, <1>2, <1>3, <2>2
    <3> QED
      BY <1>1, <1>2, <2>1, <3>1 DEF t
  <2> QED
    BY <2>1, <2>2 DEF Works, t
<1>6. k \in 0..Len(s) => Len(r) = m
  BY <1>1, <1>2, <1>3
<1> QED
  BY <1>2, <1>4, <1>5, <1>6

\* Others look at what they take, or leave a value of it.
LEMMA Looked ==
  ASSUME NEW s, IsList(s)
  PROVE  /\ Works(s, s, 0, 0) /\ Works(s, SubSeq(s, 1, Len(s) - 2), 3, 1)
         /\ \A v : Works(s, Append(s, v), 0, 1) /\ Works(s, Append(s, v), 1, 2)
<1>1. Len(s) \in Nat
  BY ListLength
<1>2. Works(s, s, 0, 0)
  BY <1>1 DEF Works
<1>3. Works(s, SubSeq(s, 1, Len(s) - 2), 3, 1)
  <2> DEFINE m == Len(s) - 2
             r == SubSeq(s, 1, m)
  <2>1. IsList(r) /\ Len(r) = (IF m < 0 THEN 0 ELSE m) /\ \A i \in 1..m : r[i] = s[i]
    BY <1>1, ListBeginning
  <2>2. 3 \in 0..Len(s) => m >= 0 /\ m = Len(s) - 3 + 1 /\ 1..(Len(s) - 3) \subseteq 1..m
    BY <1>1
  <2> HIDE DEF m, r
  <2>3. ASSUME 3 \in 0..Len(s)
        PROVE  Len(r) = Len(s) - 3 + 1 /\ \A i \in 1..(Len(s) - 3) : r[i] = s[i]
    <3>1. Len(r) = m
      BY <1>1, <2>1, <2>2, <2>3
    <3> QED
      BY <2>1, <2>2, <2>3, <3>1
  <2>4. Works(s, r, 3, 1)
    BY <2>1, <2>3 DEF Works
  <2> QED
    BY <2>4 DEF m, r
<1>4. ASSUME NEW v PROVE Works(s, Append(s, v), 0, 1) /\ Works(s, Append(s, v), 1, 2)
  <2> DEFINE t == Append(s, v)
  <2>1. IsList(t) /\ Len(t) = Len(s) + 1 /\ \A i \in 1..Len(s) : t[i] = s[i]
    BY ListAppend, ListAppended
  <2> HIDE DEF t
  <2>2. 0 \in 0..Len(s) => Len(t) = Len(s) - 0 + 1 /\ \A i \in 1..(Len(s) - 0) : t[i] = s[i]
    BY <1>1, <2>1
  <2>3. 1 \in 0..Len(s) => Len(t) = Len(s) - 1 + 2 /\ \A i \in 1..(Len(s) - 1) : t[i] = s[i]
    BY <1>1, <2>1
  <2>4. Works(s, t, 0, 1) /\ Works(s, t, 1, 2)
    BY <2>1, <2>2, <2>3 DEF Works
  <2> QED
    BY <2>4 DEF t
<1> QED
  BY <1>2, <1>3, <1>4

------------------------------------------------------------------------------
(* Steps                                                                   *)

LEMMA Fetched ==
  ASSUME NEW strict \in BOOLEAN, MachineInv(strict), NEW ops, Fetch(1, ops)
  PROVE  /\ Comes(strict, module, Frames(1), stack, Frame(1), Ins(1))
         /\ Ins(1).op \in ops
  BY DEF MachineInv, Fetch, Running, Comes, Frame, Code, Ins, Last

LEMMA PutIs ==
  ASSUME NEW strict \in BOOLEAN, MachineInv(strict), NEW fs, Put(1, fs)
  PROVE  /\ threads' = <<[task |-> <<>>, frames |-> fs, failed |-> threads[1].failed]>>
         /\ Frames(1)' = fs /\ threads'[1].failed = threads[1].failed
<1>1. threads = <<[task |-> <<>>, frames |-> Frames(1), failed |-> threads[1].failed]>>
  BY DEF MachineInv
<1>2. DOMAIN threads = {1}
      /\ threads[1] = [task |-> <<>>, frames |-> Frames(1), failed |-> threads[1].failed]
  BY <1>1
<1>3. threads' = [threads EXCEPT ![1].frames = fs]
  BY DEF Put
<1>4. threads'[1] = [task |-> <<>>, frames |-> fs, failed |-> threads[1].failed]
  BY <1>2, <1>3
<1>5. threads' = <<[task |-> <<>>, frames |-> fs, failed |-> threads[1].failed]>>
  <2>1. threads' = [i \in {1} |-> threads'[i]]
    BY <1>2, <1>3
  <2> QED
    BY <1>4, <2>1
<1> QED
  BY <1>4, <1>5 DEF Frames

LEMMA Remains ==
  ASSUME NEW strict \in BOOLEAN, MachineInv(strict), NEW fs, Put(1, fs), UNCHANGED module,
         Fits(strict, module, fs, stack')
  PROVE  MachineInv(strict)'
<1>1. /\ threads' = <<[task |-> <<>>, frames |-> fs, failed |-> threads[1].failed]>>
      /\ Frames(1)' = fs /\ threads'[1].failed = threads[1].failed
  BY PutIs
<1>2. module' = module /\ module \in Seq(Functions) /\ module # <<>>
  BY DEF MachineInv
<1>3. Fits(strict, module', Frames(1)', stack')
  BY <1>1, <1>2
<1> QED
  BY <1>1, <1>2, <1>3 DEF MachineInv

\* The frame on top goes on.
LEMMA Goes ==
  ASSUME NEW strict \in BOOLEAN, MachineInv(strict), NEW ops, Fetch(1, ops), UNCHANGED module,
         Works(stack, stack', Pops(Ins(1)), Pushes(Ins(1))),
         NEW fr, IsFrame(fr), fr.fn = Frame(1).fn, fr.kept = Frame(1).kept,
         fr.ip \in Nexts(Frame(1).ip, Ins(1)),
         Put(1, With(1, fr))
  PROVE  MachineInv(strict)'
<1>1. Comes(strict, module, Frames(1), stack, Frame(1), Ins(1))
  BY Fetched
<1>2. Fits(strict, module, With(1, fr), stack')
  BY <1>1, Worked DEF With
<1> QED
  BY <1>2, Remains

LEMMA Continues1 ==
  ASSUME NEW strict \in BOOLEAN, MachineInv(strict), NEW ops, Fetch(1, ops), UNCHANGED module,
         Works(stack, stack', Pops(Ins(1)), Pushes(Ins(1))),
         Frame(1).ip + 1 \in Nexts(Frame(1).ip, Ins(1)),
         Continue(1)
  PROVE  MachineInv(strict)'
<1>1. Comes(strict, module, Frames(1), stack, Frame(1), Ins(1))
  BY Fetched
<1>2. IsFrame(Frame(1))
  BY <1>1, OnTop
<1> DEFINE fr == [Frame(1) EXCEPT !.ip = @ + 1]
<1>3. IsFrame(fr) /\ fr.fn = Frame(1).fn /\ fr.kept = Frame(1).kept /\ fr.ip = Frame(1).ip + 1
  BY <1>2 DEF IsFrame
<1>4. Put(1, With(1, fr))
  BY DEF Continue, Advanced
<1> HIDE DEF fr
<1> QED
  BY <1>3, <1>4, Goes


LEMMA StackSteps ==
  ASSUME NEW strict \in BOOLEAN, MachineInv(strict)
  PROVE  /\ Load(1) => MachineInv(strict)'
         /\ LoadGlobal(1) => MachineInv(strict)'
         /\ StoreGlobal(1) => MachineInv(strict)'
         /\ LoadField(1) => MachineInv(strict)'
         /\ StoreField(1) => MachineInv(strict)'
         /\ LoadIndex(1) => MachineInv(strict)'
         /\ Pop(1) => MachineInv(strict)'
         /\ BinaryOp(1) => MachineInv(strict)'
         /\ UnaryOp(1) => MachineInv(strict)'
         /\ NewArray(1) => MachineInv(strict)'
         /\ NewObject(1) => MachineInv(strict)'
         /\ NewClass(1) => MachineInv(strict)'
         /\ PrintLine(1) => MachineInv(strict)'
         /\ ChanSend(1) => MachineInv(strict)'
         /\ ChanRecv(1) => MachineInv(strict)'
         /\ Nothing(1) => MachineInv(strict)'
<1> USE DEF Rest
<1>1. IsList(stack)
  BY DEF MachineInv, Fits
<1> DEFINE ip == Frame(1).ip
<1>2. ASSUME Load(1) PROVE MachineInv(strict)'
  <2> DEFINE ops == {"LOAD_NULL", "LOAD_TRUE", "LOAD_FALSE", "LOAD_INT", "LOAD_CONST",
                     "LOAD_LOCAL", "DUP"}
  <2>1. Fetch(1, ops) /\ UNCHANGED module /\ Continue(1) /\ stack' = Append(stack, Literal(1))
    BY <1>2 DEF Load
  <2>2. Ins(1).op \in ops
    BY <2>1, Fetched
  <2>3. /\ Nexts(ip, Ins(1)) = {ip + 1}
        /\ \/ Pops(Ins(1)) = 0 /\ Pushes(Ins(1)) = 1
           \/ Pops(Ins(1)) = 1 /\ Pushes(Ins(1)) = 2
    BY <2>2 DEF Pops, Pushes, Nexts, Operators
  <2>4. Works(stack, stack', Pops(Ins(1)), Pushes(Ins(1)))
    BY <1>1, <2>1, <2>3, Looked
  <2> QED
    BY <2>1, <2>3, <2>4, Continues1
<1>3. ASSUME LoadGlobal(1) PROVE MachineInv(strict)'
  <2> DEFINE ops == {"LOAD_GLOBAL"}
  <2>1. Fetch(1, ops) /\ UNCHANGED module /\ Continue(1) /\ \E v : stack' = Append(Rest(1), v)
    BY <1>3 DEF LoadGlobal
  <2>2. Ins(1).op \in ops /\ Comes(strict, module, Frames(1), stack, Frame(1), Ins(1))
    BY <2>1, Fetched
  <2>3. Nexts(ip, Ins(1)) = {ip + 1} /\ Pops(Ins(1)) = 1 /\ Pushes(Ins(1)) = 1
    BY <2>2 DEF Pops, Pushes, Nexts, Operators
  <2>4. Pops(Ins(1)) \in Nat
    BY <2>2, OnTop
  <2>5. Works(stack, stack', Pops(Ins(1)), Pushes(Ins(1)))
    BY <1>1, <2>1, <2>3, <2>4, Taken
  <2> QED
    BY <2>1, <2>3, <2>5, Continues1
<1>4. ASSUME StoreGlobal(1) PROVE MachineInv(strict)'
  <2> DEFINE ops == {"STORE_GLOBAL"}
  <2>1. Fetch(1, ops) /\ UNCHANGED module /\ Continue(1) /\ stack' = Rest(2)
    BY <1>4 DEF StoreGlobal
  <2>2. Ins(1).op \in ops /\ Comes(strict, module, Frames(1), stack, Frame(1), Ins(1))
    BY <2>1, Fetched
  <2>3. Nexts(ip, Ins(1)) = {ip + 1} /\ Pops(Ins(1)) = 2 /\ Pushes(Ins(1)) = 0
    BY <2>2 DEF Pops, Pushes, Nexts, Operators
  <2>4. Pops(Ins(1)) \in Nat
    BY <2>2, OnTop
  <2>5. Works(stack, stack', Pops(Ins(1)), Pushes(Ins(1)))
    BY <1>1, <2>1, <2>3, <2>4, Taken
  <2> QED
    BY <2>1, <2>3, <2>5, Continues1
<1>5. ASSUME LoadField(1) PROVE MachineInv(strict)'
  <2> DEFINE ops == {"LOAD_FIELD"}
  <2>1. Fetch(1, ops) /\ UNCHANGED module /\ Continue(1) /\ \E v : stack' = Append(Rest(2), v)
    BY <1>5 DEF LoadField
  <2>2. Ins(1).op \in ops /\ Comes(strict, module, Frames(1), stack, Frame(1), Ins(1))
    BY <2>1, Fetched
  <2>3. Nexts(ip, Ins(1)) = {ip + 1} /\ Pops(Ins(1)) = 2 /\ Pushes(Ins(1)) = 1
    BY <2>2 DEF Pops, Pushes, Nexts, Operators
  <2>4. Pops(Ins(1)) \in Nat
    BY <2>2, OnTop
  <2>5. Works(stack, stack', Pops(Ins(1)), Pushes(Ins(1)))
    BY <1>1, <2>1, <2>3, <2>4, Taken
  <2> QED
    BY <2>1, <2>3, <2>5, Continues1
<1>6. ASSUME StoreField(1) PROVE MachineInv(strict)'
  <2> DEFINE ops == {"STORE_FIELD"}
  <2>1. Fetch(1, ops) /\ UNCHANGED module /\ Continue(1) /\ stack' = Rest(2)
    BY <1>6 DEF StoreField
  <2>2. Ins(1).op \in ops /\ Comes(strict, module, Frames(1), stack, Frame(1), Ins(1))
    BY <2>1, Fetched
  <2>3. Nexts(ip, Ins(1)) = {ip + 1} /\ Pops(Ins(1)) = 3 /\ Pushes(Ins(1)) = 1
    BY <2>2 DEF Pops, Pushes, Nexts, Operators
  <2>4. Pops(Ins(1)) \in Nat
    BY <2>2, OnTop
  <2>5. Works(stack, stack', Pops(Ins(1)), Pushes(Ins(1)))
    BY <1>1, <2>1, <2>3, <2>4, Looked
  <2> QED
    BY <2>1, <2>3, <2>5, Continues1
<1>7. ASSUME LoadIndex(1) PROVE MachineInv(strict)'
  <2> DEFINE ops == {"LOAD_INDEX"}
  <2>1. Fetch(1, ops) /\ UNCHANGED module /\ Continue(1) /\ \E v : stack' = Append(Rest(2), v)
    BY <1>7 DEF LoadIndex
  <2>2. Ins(1).op \in ops /\ Comes(strict, module, Frames(1), stack, Frame(1), Ins(1))
    BY <2>1, Fetched
  <2>3. Nexts(ip, Ins(1)) = {ip + 1} /\ Pops(Ins(1)) = 2 /\ Pushes(Ins(1)) = 1
    BY <2>2 DEF Pops, Pushes, Nexts, Operators
  <2>4. Pops(Ins(1)) \in Nat
    BY <2>2, OnTop
  <2>5. Works(stack, stack', Pops(Ins(1)), Pushes(Ins(1)))
    BY <1>1, <2>1, <2>3, <2>4, Taken
  <2> QED
    BY <2>1, <2>3, <2>5, Continues1
<1>8. ASSUME Pop(1) PROVE MachineInv(strict)'
  <2> DEFINE ops == {"POP"}
  <2>1. Fetch(1, ops) /\ UNCHANGED module /\ Continue(1) /\ stack' = Rest(1)
    BY <1>8 DEF Pop
  <2>2. Ins(1).op \in ops /\ Comes(strict, module, Frames(1), stack, Frame(1), Ins(1))
    BY <2>1, Fetched
  <2>3. Nexts(ip, Ins(1)) = {ip + 1} /\ Pops(Ins(1)) = 1 /\ Pushes(Ins(1)) = 0
    BY <2>2 DEF Pops, Pushes, Nexts, Operators
  <2>4. Pops(Ins(1)) \in Nat
    BY <2>2, OnTop
  <2>5. Works(stack, stack', Pops(Ins(1)), Pushes(Ins(1)))
    BY <1>1, <2>1, <2>3, <2>4, Taken
  <2> QED
    BY <2>1, <2>3, <2>5, Continues1
<1>9. ASSUME BinaryOp(1) PROVE MachineInv(strict)'
  <2> DEFINE ops == Operators
  <2>1. Fetch(1, ops) /\ UNCHANGED module /\ Continue(1) /\ \E v : stack' = Append(Rest(2), v)
    BY <1>9 DEF BinaryOp
  <2>2. Ins(1).op \in ops /\ Comes(strict, module, Frames(1), stack, Frame(1), Ins(1))
    BY <2>1, Fetched
  <2>3. Nexts(ip, Ins(1)) = {ip + 1} /\ Pops(Ins(1)) = 2 /\ Pushes(Ins(1)) = 1
    BY <2>2 DEF Pops, Pushes, Nexts, Operators
  <2>4. Pops(Ins(1)) \in Nat
    BY <2>2, OnTop
  <2>5. Works(stack, stack', Pops(Ins(1)), Pushes(Ins(1)))
    BY <1>1, <2>1, <2>3, <2>4, Taken
  <2> QED
    BY <2>1, <2>3, <2>5, Continues1
<1>10. ASSUME UnaryOp(1) PROVE MachineInv(strict)'
  <2> DEFINE ops == {"NOT", "NEG"}
  <2>1. Fetch(1, ops) /\ UNCHANGED module /\ Continue(1) /\ \E v : stack' = Append(Rest(1), v)
    BY <1>10 DEF UnaryOp
  <2>2. Ins(1).op \in ops /\ Comes(strict, module, Frames(1), stack, Frame(1), Ins(1))
    BY <2>1, Fetched
  <2>3. Nexts(ip, Ins(1)) = {ip + 1} /\ Pops(Ins(1)) = 1 /\ Pushes(Ins(1)) = 1
    BY <2>2 DEF Pops, Pushes, Nexts, Operators
  <2>4. Pops(Ins(1)) \in Nat
    BY <2>2, OnTop
  <2>5. Works(stack, stack', Pops(Ins(1)), Pushes(Ins(1)))
    BY <1>1, <2>1, <2>3, <2>4, Taken
  <2> QED
    BY <2>1, <2>3, <2>5, Continues1
<1>11. ASSUME NewArray(1) PROVE MachineInv(strict)'
  <2> DEFINE ops == {"NEW_ARRAY"}
  <2>1. Fetch(1, ops) /\ UNCHANGED module /\ Continue(1) /\ \E v : stack' = Append(Rest(Ins(1).n), v)
    BY <1>11 DEF NewArray
  <2>2. Ins(1).op \in ops /\ Comes(strict, module, Frames(1), stack, Frame(1), Ins(1))
    BY <2>1, Fetched
  <2>3. Nexts(ip, Ins(1)) = {ip + 1} /\ Pops(Ins(1)) = Ins(1).n /\ Pushes(Ins(1)) = 1
    BY <2>2 DEF Pops, Pushes, Nexts, Operators
  <2>4. Pops(Ins(1)) \in Nat
    BY <2>2, OnTop
  <2>5. Works(stack, stack', Pops(Ins(1)), Pushes(Ins(1)))
    BY <1>1, <2>1, <2>3, <2>4, Taken
  <2> QED
    BY <2>1, <2>3, <2>5, Continues1
<1>12. ASSUME NewObject(1) PROVE MachineInv(strict)'
  <2> DEFINE ops == {"NEW_OBJECT"}
  <2>1. Fetch(1, ops) /\ UNCHANGED module /\ Continue(1) /\ \E v : stack' = Append(Rest(2 * Ins(1).n), v)
    BY <1>12 DEF NewObject
  <2>2. Ins(1).op \in ops /\ Comes(strict, module, Frames(1), stack, Frame(1), Ins(1))
    BY <2>1, Fetched
  <2>3. Nexts(ip, Ins(1)) = {ip + 1} /\ Pops(Ins(1)) = 2 * Ins(1).n /\ Pushes(Ins(1)) = 1
    BY <2>2 DEF Pops, Pushes, Nexts, Operators
  <2>4. Pops(Ins(1)) \in Nat
    BY <2>2, OnTop
  <2>5. Works(stack, stack', Pops(Ins(1)), Pushes(Ins(1)))
    BY <1>1, <2>1, <2>3, <2>4, Taken
  <2> QED
    BY <2>1, <2>3, <2>5, Continues1
<1>13. ASSUME NewClass(1) PROVE MachineInv(strict)'
  <2> DEFINE ops == {"NEW_CLASS"}
  <2>1. Fetch(1, ops) /\ UNCHANGED module /\ Continue(1) /\ \E v : stack' = Append(Rest(1), v)
    BY <1>13 DEF NewClass
  <2>2. Ins(1).op \in ops /\ Comes(strict, module, Frames(1), stack, Frame(1), Ins(1))
    BY <2>1, Fetched
  <2>3. Nexts(ip, Ins(1)) = {ip + 1} /\ Pops(Ins(1)) = 1 /\ Pushes(Ins(1)) = 1
    BY <2>2 DEF Pops, Pushes, Nexts, Operators
  <2>4. Pops(Ins(1)) \in Nat
    BY <2>2, OnTop
  <2>5. Works(stack, stack', Pops(Ins(1)), Pushes(Ins(1)))
    BY <1>1, <2>1, <2>3, <2>4, Taken
  <2> QED
    BY <2>1, <2>3, <2>5, Continues1
<1>14. ASSUME PrintLine(1) PROVE MachineInv(strict)'
  <2> DEFINE ops == {"PRINT"}
  <2>1. Fetch(1, ops) /\ UNCHANGED module /\ Continue(1) /\ stack' = Rest(Ins(1).n)
    BY <1>14 DEF PrintLine
  <2>2. Ins(1).op \in ops /\ Comes(strict, module, Frames(1), stack, Frame(1), Ins(1))
    BY <2>1, Fetched
  <2>3. Nexts(ip, Ins(1)) = {ip + 1} /\ Pops(Ins(1)) = Ins(1).n /\ Pushes(Ins(1)) = 0
    BY <2>2 DEF Pops, Pushes, Nexts, Operators
  <2>4. Pops(Ins(1)) \in Nat
    BY <2>2, OnTop
  <2>5. Works(stack, stack', Pops(Ins(1)), Pushes(Ins(1)))
    BY <1>1, <2>1, <2>3, <2>4, Taken
  <2> QED
    BY <2>1, <2>3, <2>5, Continues1
<1>15. ASSUME ChanSend(1) PROVE MachineInv(strict)'
  <2> DEFINE ops == {"CHAN_SEND"}
  <2>1. Fetch(1, ops) /\ UNCHANGED module /\ Continue(1) /\ stack' = Rest(2)
    BY <1>15 DEF ChanSend
  <2>2. Ins(1).op \in ops /\ Comes(strict, module, Frames(1), stack, Frame(1), Ins(1))
    BY <2>1, Fetched
  <2>3. Nexts(ip, Ins(1)) = {ip + 1} /\ Pops(Ins(1)) = 2 /\ Pushes(Ins(1)) = 0
    BY <2>2 DEF Pops, Pushes, Nexts, Operators
  <2>4. Pops(Ins(1)) \in Nat
    BY <2>2, OnTop
  <2>5. Works(stack, stack', Pops(Ins(1)), Pushes(Ins(1)))
    BY <1>1, <2>1, <2>3, <2>4, Taken
  <2> QED
    BY <2>1, <2>3, <2>5, Continues1
<1>16. ASSUME ChanRecv(1) PROVE MachineInv(strict)'
  <2> DEFINE ops == {"CHAN_RECV"}
  <2>1. Fetch(1, ops) /\ UNCHANGED module /\ Continue(1) /\ \E v : stack' = Append(Rest(1), v)
    BY <1>16 DEF ChanRecv
  <2>2. Ins(1).op \in ops /\ Comes(strict, module, Frames(1), stack, Frame(1), Ins(1))
    BY <2>1, Fetched
  <2>3. Nexts(ip, Ins(1)) = {ip + 1} /\ Pops(Ins(1)) = 1 /\ Pushes(Ins(1)) = 1
    BY <2>2 DEF Pops, Pushes, Nexts, Operators
  <2>4. Pops(Ins(1)) \in Nat
    BY <2>2, OnTop
  <2>5. Works(stack, stack', Pops(Ins(1)), Pushes(Ins(1)))
    BY <1>1, <2>1, <2>3, <2>4, Taken
  <2> QED
    BY <2>1, <2>3, <2>5, Continues1
<1>17. ASSUME Nothing(1) PROVE MachineInv(strict)'
  <2> DEFINE ops == {"AWAIT", "TRY_BEGIN", "TRY_END", "CATCH_BEGIN"}
  <2>1. Fetch(1, ops) /\ UNCHANGED module /\ Continue(1) /\ stack' = stack
    BY <1>17 DEF Nothing
  <2>2. Ins(1).op \in ops /\ Comes(strict, module, Frames(1), stack, Frame(1), Ins(1))
    BY <2>1, Fetched
  <2>3. Nexts(ip, Ins(1)) = {ip + 1} /\ Pops(Ins(1)) = 0 /\ Pushes(Ins(1)) = 0
    BY <2>2 DEF Pops, Pushes, Nexts, Operators
  <2>4. Pops(Ins(1)) \in Nat
    BY <2>2, OnTop
  <2>5. Works(stack, stack', Pops(Ins(1)), Pushes(Ins(1)))
    BY <1>1, <2>1, <2>3, <2>4, Looked
  <2> QED
    BY <2>1, <2>3, <2>5, Continues1
<1> QED
  BY <1>2, <1>3, <1>4, <1>5, <1>6, <1>7, <1>8, <1>9, <1>10, <1>11, <1>12, <1>13, <1>14, <1>15, <1>16, <1>17


LEMMA StartsMore ==
  ASSUME NEW a, IsList(a), NEW s, IsList(s), Starts(a, s), NEW v
  PROVE  Starts(a, Append(s, v))
<1>1. Len(a) \in Nat /\ Len(s) \in Nat
  BY ListLength
<1>2. Len(Append(s, v)) = Len(s) + 1 /\ \A i \in 1..Len(s) : Append(s, v)[i] = s[i]
  BY ListAppend, ListAppended
<1>3. Len(a) <= Len(s) /\ \A i \in 1..Len(a) : i \in 1..Len(s) /\ a[i] = s[i]
  BY <1>1 DEF Starts
<1> QED
  BY <1>1, <1>2, <1>3 DEF Starts

Without(s, k) == SubSeq(s, 1, Len(s) - k)
Lost(s, r, k) == Len(r) = Len(s) - k

\* What was kept for the frame on top is there under what its instruction takes.
LEMMA KeptUnder ==
  ASSUME NEW strict \in BOOLEAN, NEW mod, NEW fs, NEW s, NEW f, NEW ins,
         Comes(strict, mod, fs, s, f, ins)
  PROVE  /\ IsList(Without(s, Pops(ins))) /\ Starts(f.kept, Without(s, Pops(ins)))
         /\ Len(fs) > 1 => Lost(s, Without(s, Pops(ins)), Pops(ins))
<1> DEFINE left == Without(s, Pops(ins))
<1>1. /\ Len(fs) = 1 \/ Len(fs) > 1
      /\ IsList(s) /\ Len(s) \in Nat /\ Pops(ins) \in Nat
      /\ IsList(f.kept) /\ Len(f.kept) \in Nat /\ Starts(f.kept, s)
      /\ Len(fs) = 1 => f.kept = <<>>
  BY OnTop
<1>2. /\ IsList(left) /\ Works(s, left, Pops(ins), 0)
      /\ Pops(ins) \in 0..Len(s) => Len(left) = Len(s) - Pops(ins)
  BY <1>1, Taken DEF Without
<1> HIDE DEF left
<1>3. ASSUME Len(fs) = 1
      PROVE  Starts(f.kept, left) /\ (Len(fs) > 1 => Len(left) = Len(s) - Pops(ins))
  <2>1. Len(f.kept) = 0 /\ Len(left) \in Nat
    BY <1>1, <1>2, <1>3, ListLength
  <2>2. Starts(f.kept, left)
    BY <2>1 DEF Starts
  <2>3. ~(Len(fs) > 1)
    BY <1>3
  <2> QED
    BY <2>2, <2>3
<1>4. ASSUME Len(fs) > 1
      PROVE  Starts(f.kept, left) /\ (Len(fs) > 1 => Len(left) = Len(s) - Pops(ins))
  <2> DEFINE h == Height(mod, f.fn)[f.ip]
  <2>1. /\ Reaches(strict, Len(s), Above(mod, f))
        /\ h \in Nat /\ Pops(ins) \in 0..h
    BY <1>4, OnTop
  <2>2. Len(s) >= Len(f.kept) + h
    BY <2>1 DEF Reaches, Above
  <2> HIDE DEF h
  <2>3. Pops(ins) \in 0..(Len(s) - Len(f.kept)) /\ Pops(ins) \in 0..Len(s)
    BY <1>1, <2>1, <2>2
  <2>4. Starts(f.kept, left)
    BY <1>1, <1>2, <2>3, StillStarts
  <2> QED
    BY <1>2, <2>3, <2>4
<1>5. Starts(f.kept, left) /\ (Len(fs) > 1 => Len(left) = Len(s) - Pops(ins))
  BY <1>1, <1>3, <1>4
<1> QED
  BY <1>2, <1>5 DEF left, Lost

\* And what was kept for those beneath it.
LEMMA AllStart ==
  ASSUME NEW strict \in BOOLEAN, NEW mod, NEW fs, NEW s, Fits(strict, mod, fs, s), fs # <<>>,
         NEW r, IsList(r), Starts(fs[Len(fs)].kept, r)
  PROVE  \A k \in DOMAIN fs : Starts(fs[k].kept, r)
<1> DEFINE n == Len(fs)
<1>1. n \in Nat \ {0} /\ DOMAIN fs = 1..n
  <2>1. IsList(fs)
    BY DEF Fits
  <2> QED
    BY <2>1, ListTail
<1>2. n = Len(fs)
  OBVIOUS
<1> HIDE DEF n
<1>3. SUFFICES ASSUME NEW k \in 1..n PROVE Starts(fs[k].kept, r)
  BY <1>1
<1>4. k \in 1..n /\ n \in 1..n /\ k <= n
  BY <1>1
<1>5. /\ IsList(fs[k].kept) /\ Starts(fs[k].kept, s)
      /\ IsList(fs[n].kept) /\ Starts(fs[n].kept, s)
      /\ Len(fs[k].kept) <= Len(fs[n].kept)
  BY <1>1, <1>4 DEF Fits
<1>6. Len(fs[k].kept) \in Nat /\ Len(fs[n].kept) \in Nat
  BY <1>5, ListLength
<1>7. Starts(fs[k].kept, fs[n].kept)
  BY <1>5, <1>6 DEF Starts
<1> QED
  BY <1>2, <1>5, <1>7, StartsThrough

LEMMA EmptyList == IsList(<<>>) /\ Len(<<>>) = 0
<1>1. \A S : <<>> \in Seq(S)
  OBVIOUS
<1> QED
  BY <1>1 DEF IsList

LEMMA NoFrames ==
  ASSUME NEW strict, NEW mod, NEW fs, IsList(fs), Len(fs) = 0, NEW s, IsList(s)
  PROVE  Fits(strict, mod, fs, s)
<1>1. DOMAIN fs = {}
  BY ListLength
<1> QED
  BY <1>1 DEF Fits

LEMMA EndedGoroutine ==
  ASSUME NEW ts, ts = <<[task |-> <<>>, frames |-> ts[1].frames, failed |-> ts[1].failed]>>,
         NEW e, NEW us, us = [ts EXCEPT ![1].frames = <<>>, ![1].failed = e]
  PROVE  us = <<[task |-> <<>>, frames |-> <<>>, failed |-> e]>>
  OBVIOUS

\* An error: it ends the goroutine, or the calls up to the one that drops it.
LEMMA Failed ==
  ASSUME NEW strict \in BOOLEAN, MachineInv(strict), UNCHANGED module,
         NEW fs, NEW s, Fits(strict, module, fs, s), NEW left, IsList(left),
         \A k \in DOMAIN fs : Starts(fs[k].kept, left),
         strict => Len(Frames(1)') \notin 1..(Len(fs) - 1),
         Fail(1, fs, left)
  PROVE  MachineInv(strict)'
<1> DEFINE calls == {k \in DOMAIN fs : fs[k].swallow}
<1>1. CASE calls = {}
  <2>1. /\ threads' = [threads EXCEPT ![1].frames = <<>>, ![1].failed = TRUE]
        /\ stack' = left
    BY <1>1 DEF Fail
  <2>2. threads = <<[task |-> <<>>, frames |-> Frames(1), failed |-> threads[1].failed]>>
    BY DEF MachineInv
  <2>3. \A e : threads' = [threads EXCEPT ![1].frames = <<>>, ![1].failed = e] =>
               threads' = <<[task |-> <<>>, frames |-> <<>>, failed |-> e]>>
    BY <2>2, EndedGoroutine DEF Frames
  <2>4. threads' = <<[task |-> <<>>, frames |-> <<>>, failed |-> TRUE]>>
    BY <2>1, <2>3, Zenon
  <2>5. threads' = <<[task |-> <<>>, frames |-> Frames(1)', failed |-> threads'[1].failed]>>
        /\ Frames(1)' = <<>>
    <3>1. threads'[1] = [task |-> <<>>, frames |-> <<>>, failed |-> TRUE]
      BY <2>4
    <3>2. Frames(1)' = <<>> /\ threads'[1].failed = TRUE
      BY <3>1 DEF Frames
    <3> QED
      BY <2>4, <3>2
  <2>6. IsList(<<>>) /\ Len(<<>>) = 0
    BY EmptyList
  <2>7. Fits(strict, module', Frames(1)', stack')
    <3>1. Fits(strict, module, <<>>, left)
      BY <2>6, NoFrames
    <3>2. module' = module /\ Frames(1)' = <<>> /\ stack' = left
      BY <2>1, <2>5
    <3> QED
      BY <3>1, <3>2
  <2>8. module' \in Seq(Functions) /\ module' # <<>>
    BY DEF MachineInv
  <2> QED
    BY <2>5, <2>7, <2>8 DEF MachineInv
<1>2. CASE calls # {}
  <2> DEFINE m == Max(calls) - 1
             r == Append(left, Nil)
  <2>1. Put(1, SubSeq(fs, 1, m)) /\ stack' = r
    BY <1>2 DEF Fail
  <2>2. IsList(fs) /\ Len(fs) \in Nat /\ DOMAIN fs = 1..Len(fs)
    BY ListLength DEF Fits
  <2>3. Max(calls) \in calls
    BY <1>2, <2>2, GreatestIs
  <2>4. m \in Nat /\ m < Len(fs) /\ m + 1 \in DOMAIN fs
    BY <2>2, <2>3
  <2>6. Starts(fs[m + 1].kept, left) /\ IsList(fs[m + 1].kept)
    BY <2>4 DEF Fits
  <2>7. IsList(r) /\ Len(r) = Len(left) + 1 /\ Starts(fs[m + 1].kept, r)
    BY <2>6, ListAppended, StartsMore
  <2> HIDE DEF m, r
  <2> DEFINE gs == SubSeq(fs, 1, m)
  <2>a. IsList(gs) /\ Len(gs) = m
    BY <2>2, <2>4, ListBeginning
  <2> HIDE DEF gs
  <2>b. Put(1, gs)
    BY <2>1 DEF gs
  <2>5. CASE m = 0
    <3>1. Fits(strict, module, gs, stack')
      BY <2>1, <2>5, <2>7, <2>a, NoFrames
    <3> QED
      BY <2>b, <3>1, Remains
  <2>c. ASSUME m # 0 PROVE strict = FALSE
    <3>1. Frames(1)' = gs
      BY <2>b, PutIs
    <3>2. m \in 1..(Len(fs) - 1)
      BY <2>2, <2>4, <2>c
    <3> QED
      BY <2>a, <3>1, <3>2
  <2>8. ASSUME m # 0 PROVE Reaches(strict, Len(r), Len(fs[m + 1].kept) + 1)
    <3>1. Len(fs[m + 1].kept) \in Nat /\ Len(left) \in Nat /\ Len(fs[m + 1].kept) <= Len(left)
      BY <2>6, ListLength DEF Starts
    <3> QED
      BY <2>c, <2>7, <2>8, <3>1 DEF Reaches
  <2>9. CASE m # 0
    <3>1. Fits(strict, module, gs, stack')
      BY <2>1, <2>4, <2>7, <2>8, <2>9, Left DEF gs
    <3> QED
      BY <2>b, <3>1, Remains
  <2> QED
    BY <2>5, <2>9
<1> QED
  BY <1>1, <1>2

\* The frame on top is left with a stack that begins as it found it.
LEMMA Leaves ==
  ASSUME NEW strict \in BOOLEAN, MachineInv(strict), NEW ops, Fetch(1, ops), UNCHANGED module,
         NEW left, IsList(left), Starts(Frame(1).kept, left),
         strict /\ Len(Frames(1)) > 1 => Len(left) <= Len(Frame(1).kept) + 1,
         Leave(1, left)
  PROVE  MachineInv(strict)'
<1> DEFINE fs == Frames(1)
           n == Len(fs)
           m == n - 1
           kept == Frame(1).kept
<1>1. Comes(strict, module, fs, stack, Frame(1), Ins(1))
  BY Fetched
<1>2. n \in Nat \ {0} /\ (n = 1 \/ n > 1) /\ IsList(kept) /\ Len(kept) \in Nat /\ IsList(fs)
      /\ fs # <<>> /\ Fits(strict, module, fs, stack) /\ Frame(1) = fs[n]
  <2>1. n \in Nat \ {0} /\ (n = 1 \/ n > 1) /\ IsList(kept) /\ Len(kept) \in Nat
    BY <1>1, OnTop
  <2> QED
    BY <1>1, <2>1 DEF Comes, Fits
<1>3. Put(1, SubSeq(fs, 1, m))
  BY DEF Leave, Front
<1>4. /\ n > 1 => stack' = IF Len(left) > Len(kept) THEN left ELSE Append(left, Nil)
      /\ n = 1 => stack' = left
  BY <1>2 DEF Leave
<1>5. m \in Nat /\ m < n /\ m + 1 = n
  BY <1>2
<1>6. Len(left) \in Nat /\ Len(kept) <= Len(left)
  BY ListLength DEF Starts
<1>7. CASE n = 1
  <2>1. IsList(SubSeq(fs, 1, m)) /\ Len(SubSeq(fs, 1, m)) = 0
    <3>1. m = 0
      BY <1>7
    <3> QED
      BY <1>2, <1>5, <3>1, ListBeginning
  <2>2. Fits(strict, module, SubSeq(fs, 1, m), stack')
    BY <1>4, <1>7, <2>1, NoFrames
  <2> QED
    BY <1>3, <2>2, Remains
<1>8. CASE n > 1
  <2>1. /\ IsList(stack') /\ Starts(kept, stack')
        /\ Len(stack') = IF Len(left) > Len(kept) THEN Len(left) ELSE Len(left) + 1
    BY <1>2, <1>4, <1>8, ListAppended, StartsMore
  <2>2. strict => Len(left) <= Len(kept) + 1
    BY <1>8
  <2> HIDE DEF kept
  <2>3. Len(stack') >= Len(kept) + 1 /\ (strict => Len(stack') = Len(kept) + 1)
    BY <1>2, <1>6, <2>1, <2>2
  <2>4. Reaches(strict, Len(stack'), Len(kept) + 1)
    BY <2>3 DEF Reaches
  <2>5. fs[m + 1].kept = kept
    BY <1>2, <1>5 DEF kept
  <2> HIDE DEF m, n, fs
  <2>6. Fits(strict, module, SubSeq(fs, 1, m), stack')
    BY <1>2, <1>5, <2>1, <2>4, <2>5, Left DEF n
  <2> QED
    BY <1>3, <2>6, Remains DEF fs
<1> QED
  BY <1>2, <1>7, <1>8


LEMMA VariableSteps ==
  ASSUME NEW strict \in BOOLEAN, MachineInv(strict)
  PROVE  /\ StoreLocal(1) => MachineInv(strict)'
         /\ Jump(1) => MachineInv(strict)'
         /\ JumpIfFalse(1) => MachineInv(strict)'
<1> USE DEF Rest
<1>1. IsList(stack)
  BY DEF MachineInv, Fits
<1> DEFINE ip == Frame(1).ip
<1>2. ASSUME StoreLocal(1) PROVE MachineInv(strict)'
  <2> DEFINE locals == (Ins(1).n :> Top(1)) @@ Frame(1).locals
             fr == [Frame(1) EXCEPT !.ip = @ + 1, !.locals = (Ins(1).n :> Top(1)) @@ @]
  <2>1. Fetch(1, {"STORE_LOCAL"}) /\ UNCHANGED module /\ stack' = Rest(1) /\ Put(1, With(1, fr))
    BY <1>2 DEF StoreLocal
  <2>2. Ins(1).op = "STORE_LOCAL" /\ Comes(strict, module, Frames(1), stack, Frame(1), Ins(1))
    BY <2>1, Fetched
  <2>3. Nexts(ip, Ins(1)) = {ip + 1} /\ Pops(Ins(1)) = 1 /\ Pushes(Ins(1)) = 0
    BY <2>2 DEF Pops, Pushes, Nexts, Operators
  <2>4. IsFrame(Frame(1))
    BY <2>2, OnTop
  <2>5. IsFrame(fr) /\ fr.fn = Frame(1).fn /\ fr.kept = Frame(1).kept /\ fr.ip = ip + 1
    <3>1. fr = [Frame(1) EXCEPT !.ip = ip + 1, !.locals = locals]
      OBVIOUS
    <3> HIDE DEF fr, locals
    <3>2. Frame(1) = [fn |-> Frame(1).fn, ip |-> ip, kept |-> Frame(1).kept,
                      swallow |-> Frame(1).swallow, locals |-> Frame(1).locals]
      BY <2>4 DEF IsFrame
    <3>3. fr = [fn |-> Frame(1).fn, ip |-> ip + 1, kept |-> Frame(1).kept,
                swallow |-> Frame(1).swallow, locals |-> locals]
      BY <3>1, <3>2
    <3> QED
      BY <3>3 DEF IsFrame
  <2> HIDE DEF fr
  <2>6. Works(stack, stack', Pops(Ins(1)), Pushes(Ins(1)))
    BY <1>1, <2>1, <2>3, Taken
  <2> QED
    BY <2>1, <2>3, <2>5, <2>6, Goes
<1>3. ASSUME NEW target, NEW ops, Fetch(1, ops), UNCHANGED module, Goto(1, target),
             Works(stack, stack', Pops(Ins(1)), Pushes(Ins(1))),
             target \in Nexts(ip, Ins(1))
      PROVE  MachineInv(strict)'
  <2> DEFINE fr == [Frame(1) EXCEPT !.ip = target]
  <2>1. Put(1, With(1, fr))
    BY <1>3 DEF Goto
  <2>2. IsFrame(Frame(1))
    BY <1>3, Fetched, OnTop
  <2>3. IsFrame(fr) /\ fr.fn = Frame(1).fn /\ fr.kept = Frame(1).kept /\ fr.ip = target
    BY <2>2 DEF IsFrame
  <2> HIDE DEF fr
  <2> QED
    BY <1>3, <2>1, <2>3, Goes
<1>4. ASSUME Jump(1) PROVE MachineInv(strict)'
  <2>1. Fetch(1, {"JUMP"}) /\ UNCHANGED module /\ stack' = stack /\ Goto(1, Ins(1).n)
    BY <1>4 DEF Jump
  <2>2. Ins(1).op = "JUMP"
    BY <2>1, Fetched
  <2>3. Nexts(ip, Ins(1)) = {Ins(1).n} /\ Pops(Ins(1)) = 0 /\ Pushes(Ins(1)) = 0
    BY <2>2 DEF Pops, Pushes, Nexts, Operators
  <2>4. Works(stack, stack', Pops(Ins(1)), Pushes(Ins(1)))
    BY <1>1, <2>1, <2>3, Looked
  <2> QED
    BY <1>3, <2>1, <2>3, <2>4
<1>5. ASSUME JumpIfFalse(1) PROVE MachineInv(strict)'
  <2>1. /\ Fetch(1, {"JUMP_IF_FALSE"}) /\ UNCHANGED module /\ stack' = Rest(1)
        /\ Continue(1) \/ Goto(1, Ins(1).n)
    BY <1>5 DEF JumpIfFalse
  <2>2. Ins(1).op = "JUMP_IF_FALSE"
    BY <2>1, Fetched
  <2>3. Nexts(ip, Ins(1)) = {ip + 1, Ins(1).n} /\ Pops(Ins(1)) = 1 /\ Pushes(Ins(1)) = 0
    BY <2>2 DEF Pops, Pushes, Nexts, Operators
  <2>4. Works(stack, stack', Pops(Ins(1)), Pushes(Ins(1)))
    BY <1>1, <2>1, <2>3, Taken
  <2>5. CASE Continue(1)
    BY <2>1, <2>3, <2>4, <2>5, Continues1
  <2>6. CASE Goto(1, Ins(1).n)
    BY <1>3, <2>1, <2>3, <2>4, <2>6
  <2> QED
    BY <2>1, <2>5, <2>6
<1> QED
  BY <1>2, <1>4, <1>5

LEMMA NotDropped ==
  ASSUME NEW strict \in BOOLEAN, MachineInv(strict), strict => ~ErrorDropped,
         Fetch(1, {"CALL", "CALL_METHOD", "THROW"})
  PROVE  strict => Len(Frames(1)') \notin 1..(Len(Frames(1)) - 1)
<1>1. threads = <<[task |-> <<>>, frames |-> Frames(1), failed |-> threads[1].failed]>>
  BY DEF MachineInv
<1>2. 1 \in DOMAIN threads
  BY <1>1
<1> QED
  BY <1>2 DEF ErrorDropped, Frames

\* A call: the value called takes its arguments, or there is an error.
LEMMA Invoked ==
  ASSUME NEW strict \in BOOLEAN, MachineInv(strict), UNCHANGED module,
         CallsDisciplined', strict => ~ErrorDropped,
         NEW ops, Fetch(1, ops), ops \subseteq {"CALL", "CALL_METHOD"}, Pushes(Ins(1)) = 1,
         Nexts(Frame(1).ip, Ins(1)) = {Frame(1).ip + 1},
         NEW callee, NEW args, NEW swallow \in BOOLEAN,
         Invoke(1, callee, args, Rest(Pops(Ins(1))), swallow)
  PROVE  MachineInv(strict)'
<1> DEFINE left == Rest(Pops(Ins(1)))
           fs == Frames(1)
           n == Len(fs)
           kept == Frame(1).kept
           fr == [Frame(1) EXCEPT !.ip = @ + 1]
           gs == [fs EXCEPT ![n] = fr]
           r == Append(left, Nil)
<1>1. Comes(strict, module, fs, stack, Frame(1), Ins(1))
  BY Fetched
<1>2. /\ n \in Nat \ {0} /\ IsList(stack) /\ IsFrame(Frame(1)) /\ Pops(Ins(1)) \in Nat
      /\ IsList(kept) /\ Len(kept) \in Nat /\ fs # <<>> /\ IsList(fs) /\ DOMAIN fs = 1..n
      /\ Frame(1) = fs[n] /\ Fits(strict, module, fs, stack)
  <2>1. /\ n \in Nat \ {0} /\ IsList(stack) /\ IsFrame(Frame(1)) /\ Pops(Ins(1)) \in Nat
        /\ IsList(kept) /\ Len(kept) \in Nat /\ DOMAIN fs = 1..n
    BY <1>1, OnTop
  <2> QED
    BY <1>1, <2>1 DEF Comes, Fits
<1>3. IsList(left) /\ Starts(kept, left) /\ Works(stack, r, Pops(Ins(1)), 1)
  <2>1. IsList(left) /\ Starts(kept, left)
    BY <1>1, KeptUnder DEF Rest, Without
  <2>2. Works(stack, r, Pops(Ins(1)), 1)
    BY <1>2, Taken DEF Rest
  <2> QED
    BY <2>1, <2>2
<1>4. IsFrame(fr) /\ fr.fn = Frame(1).fn /\ fr.kept = kept /\ fr.ip = Frame(1).ip + 1
  BY <1>2 DEF IsFrame
<1>5. Advanced(1) = gs
  BY DEF Advanced, With
<1> HIDE DEF fr
<1>6. Fits(strict, module, gs, r)
  <2>1. fr.ip \in Nexts(Frame(1).ip, Ins(1)) /\ Works(stack, r, Pops(Ins(1)), Pushes(Ins(1)))
    BY <1>3, <1>4
  <2> HIDE DEF r
  <2> QED
    BY <1>1, <1>4, <2>1, Worked
<1>7. gs[n] = fr /\ DOMAIN gs = 1..n /\ \A k \in 1..n : k # n => gs[k] = fs[k]
  BY <1>2
<1>8. IsList(gs) /\ Len(gs) = n /\ gs # <<>>
  <2>1. gs = [i \in 1..n |-> gs[i]]
    BY <1>7
  <2> HIDE DEF gs, n
  <2>2. IsList(gs) /\ Len(gs) = n
    BY <1>2, <2>1, ListOfFunction
  <2> QED
    BY <1>2, <2>2, EmptyList
<1>9. Len(kept) <= Len(left)
  BY <1>3 DEF Starts
<1>10. Invoke(1, callee, args, left, swallow)
  OBVIOUS
<1>11. module \in Seq(Functions)
  BY <1>1 DEF Comes
<1> HIDE DEF gs, left, r
<1>12. CASE callee.kind = "func"
  <2> DEFINE new == NewFrame(callee.n, args, left, swallow)
  <2>1. Put(1, Append(gs, new)) /\ stack' = left
    BY <1>5, <1>10, <1>12 DEF Invoke
  <2>2. IsFrame(new) /\ new.ip = 0 /\ new.kept = left
    BY DEF IsFrame, NewFrame
  <2> HIDE DEF new
  <2>3. Disciplined(module[new.fn].code)
    <3>1. Frames(1)' = Append(gs, new) /\ DOMAIN threads' = {1}
      <4>1. threads' = <<[task |-> <<>>, frames |-> Append(gs, new),
                          failed |-> threads[1].failed]>>
            /\ Frames(1)' = Append(gs, new)
        BY <2>1, PutIs
      <4>2. DOMAIN threads' = {1}
        BY <4>1
      <4> QED
        BY <4>1, <4>2
    <3>2. DOMAIN Append(gs, new) = 1..(n + 1) /\ Append(gs, new)[n + 1] = new
      BY <1>8, ListAppend
    <3>3. n + 1 \in 1..(n + 1) /\ n + 1 > 1
      BY <1>2
    <3>4. \A k \in DOMAIN Append(gs, new) :
             k > 1 => Disciplined(module[Append(gs, new)[k].fn].code)
      BY <3>1 DEF CallsDisciplined
    <3> HIDE DEF n
    <3> QED
      BY <3>2, <3>3, <3>4
  <2>4. Len(gs[Len(gs)].kept) <= Len(left)
    BY <1>4, <1>7, <1>8, <1>9
  <2>5. Fits(strict, module, Append(gs, new), left)
    BY <1>3, <1>6, <1>8, <2>2, <2>3, <2>4, Entered DEF r
  <2> QED
    BY <2>1, <2>5, Remains
<1>13. CASE callee.kind # "func" /\ swallow
  <2>1. Put(1, gs) /\ stack' = r
    BY <1>5, <1>10, <1>13 DEF Invoke, Continue, r
  <2> QED
    BY <1>6, <2>1, Remains
<1>14. CASE callee.kind # "func" /\ ~swallow
  <2>1. Fail(1, gs, left)
    BY <1>5, <1>10, <1>14 DEF Invoke
  <2>2. Starts(gs[Len(gs)].kept, left)
    BY <1>3, <1>4, <1>7, <1>8
  <2>3. \A k \in DOMAIN gs : Starts(gs[k].kept, left)
    BY <1>3, <1>6, <1>8, <2>2, AllStart
  <2>4. strict => Len(Frames(1)') \notin 1..(Len(gs) - 1)
    <3>1. Fetch(1, {"CALL", "CALL_METHOD", "THROW"})
      BY DEF Fetch
    <3> QED
      BY <1>8, <3>1, NotDropped
  <2> QED
    BY <1>3, <1>6, <2>1, <2>3, <2>4, Failed
<1> QED
  BY <1>12, <1>13, <1>14


\* Where a called function returns it has pushed what it returns, and no more.
LEMMA Exact ==
  ASSUME MachineInv(TRUE), NEW ops, Fetch(1, ops), Len(Frames(1)) > 1
  PROVE  /\ Len(Frame(1).kept) \in Nat
         /\ Ins(1).op = "RETURN" => Len(stack) = Len(Frame(1).kept) + 1
         /\ Ins(1).op \in {"RETURN_VOID", "HALT"} => Len(stack) = Len(Frame(1).kept)
<1> DEFINE f == Frame(1)
           height == Height(module, f.fn)
<1>1. Comes(TRUE, module, Frames(1), stack, f, Ins(1))
  BY Fetched
<1>2. Len(f.kept) \in Nat
  BY <1>1, OnTop
<1>3. /\ KeepsTo(module[f.fn].code, height) /\ f.ip \in DOMAIN height
      /\ Reaches(TRUE, Len(stack), Above(module, f))
  BY <1>1, OnTop
<1>4. Len(stack) = Len(f.kept) + height[f.ip]
  BY <1>3 DEF Reaches, Above
<1>5. Ins(1) = module[f.fn].code[f.ip + 1]
  BY <1>1 DEF Comes
<1>6. /\ Ins(1).op = "RETURN" => height[f.ip] = 1
      /\ Ins(1).op \in {"RETURN_VOID", "HALT"} => height[f.ip] = 0
  BY <1>3, <1>5 DEF KeepsTo
<1> QED
  BY <1>2, <1>4, <1>6

LEMMA CallSteps ==
  ASSUME NEW strict \in BOOLEAN, MachineInv(strict),
         CallsDisciplined', strict => ~ErrorDropped
  PROVE  /\ Call(1) => MachineInv(strict)'
         /\ CallFunc(1) => MachineInv(strict)'
         /\ CallMethod(1) => MachineInv(strict)'
         /\ Throw(1) => MachineInv(strict)'
<1>1. IsList(stack) /\ IsList(Frames(1)) /\ DOMAIN threads = {1}
  <2>1. threads = <<[task |-> <<>>, frames |-> Frames(1), failed |-> threads[1].failed]>>
    BY DEF MachineInv
  <2>2. DOMAIN threads = {1}
    BY <2>1
  <2> QED
    BY <2>2 DEF MachineInv, Fits
<1> DEFINE ip == Frame(1).ip
           n == Ins(1).n
<1>2. ASSUME Call(1) PROVE MachineInv(strict)'
  <2>1. /\ Fetch(1, {"CALL"}) /\ UNCHANGED module
        /\ Invoke(1, Resolve(Top(n + 1)), Popped(n, 0), Rest(n + 1), FALSE)
    BY <1>2 DEF Call
  <2>2. Ins(1).op = "CALL"
    BY <2>1, Fetched
  <2>3. Nexts(ip, Ins(1)) = {ip + 1} /\ Pops(Ins(1)) = n + 1 /\ Pushes(Ins(1)) = 1
    BY <2>2 DEF Pops, Pushes, Nexts, Operators
  <2> DEFINE callee == Resolve(Top(n + 1))
             args == Popped(n, 0)
  <2>4. Invoke(1, callee, args, Rest(Pops(Ins(1))), FALSE) /\ FALSE \in BOOLEAN
    BY <2>1, <2>3
  <2> HIDE DEF callee, args
  <2> QED
    BY <2>1, <2>3, <2>4, Invoked
<1>3. ASSUME CallFunc(1) PROVE MachineInv(strict)'
  <2>1. /\ Fetch(1, {"CALL_METHOD"}) /\ UNCHANGED module
        /\ Invoke(1, Top(n + 2), Popped(n, 1), Rest(n + 2), TRUE)
    BY <1>3 DEF CallFunc
  <2>2. Ins(1).op = "CALL_METHOD"
    BY <2>1, Fetched
  <2>3. Nexts(ip, Ins(1)) = {ip + 1} /\ Pops(Ins(1)) = n + 2 /\ Pushes(Ins(1)) = 1
    BY <2>2 DEF Pops, Pushes, Nexts, Operators
  <2> DEFINE callee == Top(n + 2)
             args == Popped(n, 1)
  <2>4. Invoke(1, callee, args, Rest(Pops(Ins(1))), TRUE) /\ TRUE \in BOOLEAN
    BY <2>1, <2>3
  <2> HIDE DEF callee, args
  <2> QED
    BY <2>1, <2>3, <2>4, Invoked
<1>4. ASSUME CallMethod(1) PROVE MachineInv(strict)'
  <2>1. /\ Fetch(1, {"CALL_METHOD"}) /\ UNCHANGED module
        /\ \/ UNCHANGED <<stack, threads>>
           \/ Continue(1) /\ \E v : stack' = Append(Rest(n + 2), v)
    BY <1>4 DEF CallMethod
  <2>2. Ins(1).op = "CALL_METHOD" /\ Comes(strict, module, Frames(1), stack, Frame(1), Ins(1))
    BY <2>1, Fetched
  <2>3. Nexts(ip, Ins(1)) = {ip + 1} /\ Pops(Ins(1)) = n + 2 /\ Pushes(Ins(1)) = 1
    BY <2>2 DEF Pops, Pushes, Nexts, Operators
  <2>4. CASE UNCHANGED <<stack, threads>>
    BY <2>1, <2>4 DEF MachineInv, Frames
  <2>5. CASE Continue(1) /\ \E v : stack' = Append(Rest(n + 2), v)
    <3>1. Pops(Ins(1)) \in Nat
      BY <2>2, OnTop
    <3>2. Works(stack, stack', Pops(Ins(1)), Pushes(Ins(1)))
      <4>1. PICK v : stack' = Append(Rest(Pops(Ins(1))), v)
        BY <2>3, <2>5
      <4>2. Works(stack, Append(Rest(Pops(Ins(1))), v), Pops(Ins(1)), 1)
        BY <1>1, <3>1, Taken DEF Rest
      <4> QED
        BY <2>3, <4>1, <4>2
    <3> QED
      BY <2>1, <2>3, <2>5, <3>2, Continues1
  <2> QED
    BY <2>1, <2>4, <2>5
<1>5. ASSUME Throw(1) PROVE MachineInv(strict)'
  <2>1. Fetch(1, {"THROW"}) /\ UNCHANGED module /\ Fail(1, Frames(1), Rest(1))
    BY <1>5 DEF Throw
  <2>2. Ins(1).op = "THROW" /\ Comes(strict, module, Frames(1), stack, Frame(1), Ins(1))
    BY <2>1, Fetched
  <2>3. Pops(Ins(1)) = 1
    BY <2>2 DEF Pops, Operators
  <2>4. IsList(Rest(1)) /\ Starts(Frame(1).kept, Rest(1))
    <3>1. IsList(Rest(Pops(Ins(1)))) /\ Starts(Frame(1).kept, Rest(Pops(Ins(1))))
      BY <2>2, KeptUnder DEF Rest, Without
    <3> QED
      BY <2>3, <3>1
  <2>5. /\ Fits(strict, module, Frames(1), stack) /\ Frames(1) # <<>>
        /\ Frame(1) = Frames(1)[Len(Frames(1))]
    BY <2>2 DEF Comes
  <2>6. \A k \in DOMAIN Frames(1) : Starts(Frames(1)[k].kept, Rest(1))
    BY <2>4, <2>5, AllStart
  <2>7. strict => Len(Frames(1)') \notin 1..(Len(Frames(1)) - 1)
    <3>1. Fetch(1, {"CALL", "CALL_METHOD", "THROW"})
      BY <2>1 DEF Fetch
    <3> QED
      BY <3>1, NotDropped
  <2> QED
    BY <2>1, <2>4, <2>5, <2>6, <2>7, Failed
<1> QED
  BY <1>2, <1>3, <1>4, <1>5

LEMMA ReturnSteps ==
  ASSUME NEW strict \in BOOLEAN, MachineInv(strict)
  PROVE  /\ Return(1) => MachineInv(strict)'
         /\ ReturnVoid(1) => MachineInv(strict)'
         /\ Halt(1) => MachineInv(strict)'
<1>1. IsList(stack) /\ Len(stack) \in Nat
  BY ListLength DEF MachineInv, Fits
<1> DEFINE kept == Frame(1).kept
<1>2. ASSUME Return(1) PROVE MachineInv(strict)'
  <2> DEFINE left == Append(Rest(1), Top(1))
  <2>1. Fetch(1, {"RETURN"}) /\ UNCHANGED module /\ Leave(1, left)
    BY <1>2 DEF Return
  <2>2. Ins(1).op = "RETURN" /\ Comes(strict, module, Frames(1), stack, Frame(1), Ins(1))
    BY <2>1, Fetched
  <2>3. Pops(Ins(1)) = 1
    BY <2>2 DEF Pops, Operators
  <2>4. IsList(Rest(1)) /\ Starts(kept, Rest(1))
        /\ (Len(Frames(1)) > 1 => Len(Rest(1)) = Len(stack) - 1)
    <3>1. /\ IsList(Rest(Pops(Ins(1)))) /\ Starts(kept, Rest(Pops(Ins(1))))
          /\ Len(Frames(1)) > 1 => Len(Rest(Pops(Ins(1)))) = Len(stack) - Pops(Ins(1))
      <4> DEFINE r == Without(stack, Pops(Ins(1)))
      <4>1. Comes(strict, module, Frames(1), stack, Frame(1), Ins(1))
        BY <2>2
      <4>2. IsList(r) /\ Starts(kept, r)
        BY <4>1, KeptUnder
      <4>3. Len(Frames(1)) > 1 => Len(r) = Len(stack) - Pops(Ins(1))
        <5>1. Len(Frames(1)) > 1 => Lost(stack, r, Pops(Ins(1)))
          BY <4>1, KeptUnder
        <5> HIDE DEF r
        <5> QED
          BY <5>1 DEF Lost
      <4>4. Rest(Pops(Ins(1))) = r
        BY DEF Rest, Without
      <4> HIDE DEF r
      <4> QED
        BY <4>2, <4>3, <4>4
    <3> QED
      BY <2>3, <3>1
  <2>5. IsList(kept)
    BY <2>2, OnTop
  <2>6. IsList(left) /\ Len(left) = Len(Rest(1)) + 1 /\ Starts(kept, left)
    BY <2>4, <2>5, ListAppended, StartsMore
  <2> HIDE DEF left
  <2>7. ASSUME strict, Len(Frames(1)) > 1 PROVE Len(left) <= Len(kept) + 1
    <3>1. strict = TRUE
      BY <2>7
    <3>2. Len(kept) \in Nat /\ Len(stack) = Len(kept) + 1
      BY <2>1, <2>2, <2>7, <3>1, Exact
    <3> QED
      BY <2>4, <2>6, <2>7, <3>2
  <2> QED
    BY <2>1, <2>6, <2>7, Leaves
<1>3. ASSUME ReturnVoid(1) PROVE MachineInv(strict)'
  <2> DEFINE left == Append(stack, Nil)
  <2>1. Fetch(1, {"RETURN_VOID"}) /\ UNCHANGED module /\ Leave(1, left)
    BY <1>3 DEF ReturnVoid
  <2>2. Ins(1).op = "RETURN_VOID" /\ Comes(strict, module, Frames(1), stack, Frame(1), Ins(1))
    BY <2>1, Fetched
  <2>3. IsList(kept) /\ Starts(kept, stack)
    BY <2>2, OnTop
  <2>4. IsList(left) /\ Len(left) = Len(stack) + 1 /\ Starts(kept, left)
    BY <1>1, <2>3, ListAppended, StartsMore
  <2> HIDE DEF left
  <2>5. ASSUME strict, Len(Frames(1)) > 1 PROVE Len(left) <= Len(kept) + 1
    <3>1. strict = TRUE
      BY <2>5
    <3>2. Len(kept) \in Nat /\ Len(stack) = Len(kept)
      BY <2>1, <2>2, <2>5, <3>1, Exact
    <3> QED
      BY <2>4, <3>2
  <2> QED
    BY <2>1, <2>4, <2>5, Leaves
<1>4. ASSUME Halt(1) PROVE MachineInv(strict)'
  <2>1. Fetch(1, {"HALT"}) /\ UNCHANGED module /\ Leave(1, stack)
    BY <1>4 DEF Halt
  <2>2. Ins(1).op = "HALT" /\ Comes(strict, module, Frames(1), stack, Frame(1), Ins(1))
    BY <2>1, Fetched
  <2>3. Starts(kept, stack)
    BY <2>2, OnTop
  <2>4. ASSUME strict, Len(Frames(1)) > 1 PROVE Len(stack) <= Len(kept) + 1
    <3>1. strict = TRUE
      BY <2>4
    <3>2. Len(kept) \in Nat /\ Len(stack) = Len(kept)
      BY <2>1, <2>2, <2>4, <3>1, Exact
    <3> QED
      BY <3>2
  <2> QED
    BY <1>1, <2>1, <2>3, <2>4, Leaves
<1> QED
  BY <1>2, <1>3, <1>4

\* With one goroutine none is spawned, and none is waiting to start.
LEMMA TaskSteps ==
  ASSUME NEW strict \in BOOLEAN, MachineInv(strict), OneThread'
  PROVE  ~SpawnTask(1) /\ ~StartTask(1)
<1>1. threads = <<[task |-> <<>>, frames |-> Frames(1), failed |-> threads[1].failed]>>
  BY DEF MachineInv
<1>2. DOMAIN threads = 1..1 /\ threads = [i \in 1..1 |-> threads[i]] /\ threads[1].task = <<>>
  BY <1>1
<1>3. ~StartTask(1)
  BY <1>2 DEF StartTask
<1>4. ASSUME SpawnTask(1) PROVE FALSE
  <2> DEFINE ts == [threads EXCEPT ![1].frames = Advanced(1)]
             new == Goroutine(<<Top(1)>>, <<>>)
  <2>1. threads' = Append(ts, new)
    BY <1>4 DEF SpawnTask
  <2>a. DOMAIN ts = DOMAIN threads
    OBVIOUS
  <2>2. DOMAIN ts = 1..1 /\ ts = [i \in 1..1 |-> ts[i]]
    BY <1>2, <2>a
  <2> HIDE DEF ts, new
  <2>3. IsList(ts) /\ Len(ts) = 1
    BY <2>2, ListOfFunction
  <2>4. DOMAIN threads' = 1..2
    <3>1. DOMAIN Append(ts, new) = 1..(Len(ts) + 1)
      BY <2>3, ListAppend
    <3> QED
      BY <2>1, <2>3, <3>1
  <2>5. 2 \in DOMAIN threads'
    BY <2>4
  <2> QED
    BY <2>5 DEF OneThread
<1> QED
  BY <1>3, <1>4


------------------------------------------------------------------------------
(* The machine                                                             *)

LEMMA MachineInit ==
  ASSUME NEW strict \in BOOLEAN, Init
  PROVE  MachineInv(strict)
<1> DEFINE fr == NewFrame(1, <<>>, <<>>, FALSE)
           fs == <<fr>>
<1>1. module \in Seq(Functions) /\ module # <<>>
  BY ModulesAssumption DEF Init
<1>2. threads = <<[task |-> <<>>, frames |-> fs, failed |-> FALSE]>> /\ stack = <<>>
  BY DEF Init, Goroutine
<1>3. IsFrame(fr) /\ fr.ip = 0 /\ fr.fn = 1 /\ fr.kept = <<>>
  BY DEF IsFrame, NewFrame
<1> HIDE DEF fr
<1>4. threads[1] = [task |-> <<>>, frames |-> fs, failed |-> FALSE]
  BY <1>2
<1>5. Frames(1) = fs /\ threads[1].failed = FALSE
  BY <1>4 DEF Frames
<1>6. DOMAIN fs = {1} /\ fs[1] = fr /\ IsList(fs)
  <2>1. DOMAIN fs = {1} /\ fs[1] = fr /\ fs \in Seq({fr})
    OBVIOUS
  <2> QED
    BY <2>1, ListOfSeq
<1> HIDE DEF fs
<1>7. Starts(<<>>, <<>>)
  BY DEF Starts
<1>8. Fits(strict, module, fs, <<>>)
  <2>1. \A k \in DOMAIN fs : k = 1
    BY <1>6
  <2>2. Len(<<>>) <= Len(<<>>)
    BY EmptyList
  <2> QED
    BY <1>3, <1>6, <1>7, <2>1, <2>2, EmptyList DEF Fits
<1> QED
  BY <1>1, <1>2, <1>5, <1>8 DEF MachineInv

LEMMA MachineStep ==
  ASSUME NEW strict \in BOOLEAN, MachineInv(strict), OneThread',
         CallsDisciplined', strict => ~ErrorDropped,
         [Next]_vars
  PROVE  MachineInv(strict)'
<1>1. CASE UNCHANGED vars
  BY <1>1 DEF MachineInv, Frames, vars
<1>2. CASE Next
  <2>1. DOMAIN threads = {1}
    <3>1. threads = <<[task |-> <<>>, frames |-> Frames(1), failed |-> threads[1].failed]>>
      BY DEF MachineInv
    <3> QED
      BY <3>1
  <2>2. Step(1)
    BY <1>2, <2>1 DEF Next
  <2> QED
    BY <2>2, StackSteps, VariableSteps, CallSteps, ReturnSteps, TaskSteps DEF Step
<1> QED
  BY <1>1, <1>2

LEMMA InvKeeps ==
  ASSUME MachineInv(FALSE)
  PROVE  OperandsKept
<1>1. DOMAIN threads = {1} /\ Fits(FALSE, module, Frames(1), stack)
  <2>1. threads = <<[task |-> <<>>, frames |-> Frames(1), failed |-> threads[1].failed]>>
    BY DEF MachineInv
  <2>2. DOMAIN threads = {1}
    BY <2>1
  <2> QED
    BY <2>2 DEF MachineInv
<1>2. ASSUME NEW k \in DOMAIN Frames(1) PROVE IsPrefix(Frames(1)[k].kept, stack)
  <2>1. IsList(stack) /\ IsList(Frames(1)[k].kept) /\ Starts(Frames(1)[k].kept, stack)
    BY <1>1 DEF Fits
  <2> QED
    BY <2>1, ListStarts
<1> QED
  BY <1>1, <1>2 DEF OperandsKept

\* As long as one goroutine runs and what is called keeps the discipline, no
\* function ever takes a value its callers had pushed for an expression they
\* are in the middle of, whatever it does, returns or throws (execute, invoke).
THEOREM OperandsStay == Spec /\ []OneThread /\ []CallsDisciplined => []OperandsKept
<1>1. Init => MachineInv(FALSE)
  BY MachineInit
<1>2. MachineInv(FALSE) /\ OneThread' /\ CallsDisciplined' /\ [Next]_vars => MachineInv(FALSE)'
  BY MachineStep
<1>3. MachineInv(FALSE) => OperandsKept
  BY InvKeeps
<1> QED
  BY <1>1, <1>2, <1>3, PTL DEF Spec

LEMMA ReturnedValue ==
  ASSUME MachineInv(TRUE), OneThread', Next,
         Fetch(1, {"RETURN", "RETURN_VOID"}), Len(Frames(1)) > 1
  PROVE  stack' = Append(Frame(1).kept, IF Ins(1).op = "RETURN" THEN Top(1) ELSE Nil)
<1> DEFINE kept == Frame(1).kept
<1>1. DOMAIN threads = {1}
  <2>1. threads = <<[task |-> <<>>, frames |-> Frames(1), failed |-> threads[1].failed]>>
    BY DEF MachineInv
  <2> QED
    BY <2>1
<1>2. Step(1)
  BY <1>1 DEF Next
<1>3. /\ Ins(1).op \in {"RETURN", "RETURN_VOID"}
      /\ Comes(TRUE, module, Frames(1), stack, Frame(1), Ins(1))
  BY Fetched
<1>4. IsList(stack) /\ Len(stack) \in Nat /\ IsList(kept) /\ Starts(kept, stack)
  BY <1>3, OnTop
<1>5. /\ Len(kept) \in Nat
      /\ Ins(1).op = "RETURN" => Len(stack) = Len(kept) + 1
      /\ Ins(1).op \in {"RETURN_VOID", "HALT"} => Len(stack) = Len(kept)
  BY Exact
<1>6. \A ops : Fetch(1, ops) => Ins(1).op \in ops
  BY DEF Fetch, Ins
<1>7. \/ Ins(1).op = "RETURN" /\ Return(1)
      \/ Ins(1).op = "RETURN_VOID" /\ ReturnVoid(1)
  <2>1. Return(1) \/ ReturnVoid(1)
    <3>1. ~(\/ Load(1) \/ StoreLocal(1) \/ LoadGlobal(1) \/ StoreGlobal(1)
            \/ LoadField(1) \/ StoreField(1) \/ LoadIndex(1) \/ Pop(1)
            \/ BinaryOp(1) \/ UnaryOp(1) \/ NewArray(1) \/ NewObject(1) \/ NewClass(1))
      <4> USE <1>3, <1>6
      <4>1. ~Load(1)
        BY DEF Load
      <4>2. ~StoreLocal(1) /\ ~LoadGlobal(1) /\ ~StoreGlobal(1)
        BY DEF StoreLocal, LoadGlobal, StoreGlobal
      <4>3. ~LoadField(1) /\ ~StoreField(1) /\ ~LoadIndex(1)
        BY DEF LoadField, StoreField, LoadIndex
      <4>4. ~Pop(1) /\ ~BinaryOp(1) /\ ~UnaryOp(1)
        BY DEF Pop, BinaryOp, UnaryOp, Operators
      <4>5. ~NewArray(1) /\ ~NewObject(1) /\ ~NewClass(1)
        BY DEF NewArray, NewObject, NewClass
      <4> QED
        BY <4>1, <4>2, <4>3, <4>4, <4>5
    <3>2. ~(\/ PrintLine(1) \/ ChanSend(1) \/ ChanRecv(1) \/ Nothing(1)
            \/ Jump(1) \/ JumpIfFalse(1) \/ Call(1) \/ CallFunc(1) \/ CallMethod(1)
            \/ Throw(1) \/ Halt(1))
      <4> USE <1>3, <1>6
      <4>1. ~PrintLine(1) /\ ~ChanSend(1) /\ ~ChanRecv(1) /\ ~Nothing(1)
        BY DEF PrintLine, ChanSend, ChanRecv, Nothing
      <4>2. ~Jump(1) /\ ~JumpIfFalse(1) /\ ~Throw(1) /\ ~Halt(1)
        BY DEF Jump, JumpIfFalse, Throw, Halt
      <4>3. ~Call(1) /\ ~CallFunc(1) /\ ~CallMethod(1)
        BY DEF Call, CallFunc, CallMethod
      <4> QED
        BY <4>1, <4>2, <4>3
    <3>3. ~SpawnTask(1) /\ ~StartTask(1)
      BY TaskSteps
    <3> QED
      BY <1>2, <3>1, <3>2, <3>3 DEF Step
  <2>2. Return(1) => Ins(1).op = "RETURN"
    BY <1>6 DEF Return
  <2>3. ReturnVoid(1) => Ins(1).op = "RETURN_VOID"
    BY <1>6 DEF ReturnVoid
  <2> QED
    BY <2>1, <2>2, <2>3
<1>8. CASE Ins(1).op = "RETURN" /\ Return(1)
  <2> DEFINE left == Append(Rest(1), Top(1))
  <2>1. Leave(1, left)
    BY <1>8 DEF Return
  <2>2. Pops(Ins(1)) = 1
    BY <1>8 DEF Pops, Operators
  <2>3. IsList(Rest(1)) /\ Starts(kept, Rest(1)) /\ Len(Rest(1)) = Len(kept)
    <3> DEFINE r == Without(stack, Pops(Ins(1)))
    <3>1. IsList(r) /\ Starts(kept, r) /\ Lost(stack, r, Pops(Ins(1)))
      BY <1>3, KeptUnder
    <3>2. r = Rest(1)
      BY <2>2 DEF Rest, Without
    <3> HIDE DEF r
    <3>3. Len(r) = Len(kept)
      BY <1>5, <1>8, <2>2, <3>1 DEF Lost
    <3> QED
      BY <3>1, <3>2, <3>3
  <2>4. Rest(1) = kept
    BY <1>4, <2>3, ListStarts
  <2>5. Len(left) = Len(kept) + 1
    BY <2>3, ListAppended
  <2>6. stack' = left
    <3>1. Len(left) > Len(kept)
      BY <1>5, <2>5
    <3> HIDE DEF left
    <3> QED
      BY <2>1, <3>1 DEF Leave
  <2> QED
    BY <1>8, <2>4, <2>6
<1>9. CASE Ins(1).op = "RETURN_VOID" /\ ReturnVoid(1)
  <2> DEFINE left == Append(stack, Nil)
  <2>1. Leave(1, left)
    BY <1>9 DEF ReturnVoid
  <2>2. stack = kept
    BY <1>4, <1>5, <1>9, ListStarts
  <2>3. Len(left) = Len(kept) + 1
    BY <1>4, <1>5, <1>9, ListAppended
  <2>4. stack' = left
    <3>1. Len(left) > Len(kept)
      BY <1>5, <2>3
    <3> HIDE DEF left
    <3> QED
      BY <2>1, <3>1 DEF Leave
  <2> QED
    BY <1>9, <2>2, <2>4
<1> QED
  BY <1>7, <1>8, <1>9

\* If moreover no step drops an error, what a function returns is all it adds
\* to the stack of its caller, wherever it returns from (RETURN, RETURN_VOID).
THEOREM ValuesReturned ==
  Spec /\ []OneThread /\ []CallsDisciplined /\ [][~ErrorDropped]_vars => ReturnsValue
<1> DEFINE Returned ==
             \A t \in DOMAIN threads :
               (Fetch(t, {"RETURN", "RETURN_VOID"}) /\ Len(Frames(t)) > 1
                  /\ Len(threads'[t].frames) < Len(Frames(t))) =>
                 stack' = Append(Frame(t).kept, IF Ins(t).op = "RETURN" THEN Top(1) ELSE Nil)
<1>1. Init => MachineInv(TRUE)
  BY MachineInit
<1>2. /\ MachineInv(TRUE) /\ OneThread' /\ CallsDisciplined' /\ [~ErrorDropped]_vars
      /\ [Next]_vars
      => MachineInv(TRUE)'
  <2>1. CASE UNCHANGED vars
    BY <2>1 DEF MachineInv, Frames, vars
  <2>2. CASE ~UNCHANGED vars
    BY <2>2, MachineStep
  <2> QED
    BY <2>1, <2>2
<1>3. MachineInv(TRUE) /\ OneThread /\ OneThread' /\ [Next]_vars => [Returned]_vars
  <2> SUFFICES ASSUME MachineInv(TRUE), OneThread, OneThread', Next PROVE Returned
    OBVIOUS
  <2> SUFFICES ASSUME Fetch(1, {"RETURN", "RETURN_VOID"}), Len(Frames(1)) > 1
               PROVE  stack' = Append(Frame(1).kept,
                                      IF Ins(1).op = "RETURN" THEN Top(1) ELSE Nil)
    BY DEF OneThread
  <2> QED
    BY ReturnedValue
<1>4. ReturnsValue <=> [][Returned]_vars
  BY DEF ReturnsValue
<1> HIDE DEF Returned
<1> QED
  BY <1>1, <1>2, <1>3, <1>4, PTL DEF Spec

==============================================================================
