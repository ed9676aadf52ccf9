------------------------------ MODULE WebProofs ------------------------------
(* The limiter for every limit, window and set of keys; the server, and the  *)
(* routes its requests find, for every program that adds them; the           *)
(* websockets for every set of clients, ids and calls.                       *)
EXTENDS WebServer, WebSocket, ListProofs, FiniteSetTheorems, TLAPS

------------------------------------------------------------------------------
(* The limiter is exact                                                    *)

\* The times of the grants do not go back, nor beyond the clock.
Ordered ==
  \A k \in Keys : /\ \A i \in DOMAIN granted[k] : granted[k][i] <= now
                  /\ \A i, j \in DOMAIN granted[k] : i <= j => granted[k][i] <= granted[k][j]

\* What is remembered was granted, and all that still counts is remembered.
Remembered ==
  \A k \in Keys :
    /\ IsFiniteSet(hits[k])
    /\ \A h \in hits[k] : h.n \in DOMAIN granted[k] /\ h.at = granted[k][h.n]
    /\ \A i \in DOMAIN granted[k] : granted[k][i] > now - Win => Hit(i, granted[k][i]) \in hits[k]

LimiterInv == LimiterTypeOK /\ Ordered /\ Remembered /\ LimitHolds /\ RefusedRight

LEMMA ValidMembers ==
  ASSUME LimiterTypeOK, NEW k \in Keys, NEW h
  PROVE  h \in Valid(k) <=> h \in hits[k] /\ h.at > now - Win
  BY DEF Valid

\* The hits that count are finitely many, and as many of them as of grants in
\* the window that ends now.
LEMMA ValidFinite ==
  ASSUME LimiterTypeOK, Remembered, NEW k \in Keys
  PROVE  IsFiniteSet(Valid(k)) /\ Cardinality(Valid(k)) \in Nat
<1>1. Valid(k) \in SUBSET hits[k]
  BY DEF Valid
<1>2. IsFiniteSet(hits[k])
  BY DEF Remembered
<1>3. IsFiniteSet(Valid(k))
  BY <1>1, <1>2, FS_Subset
<1> QED
  BY <1>3, FS_CardinalityType

LEMMA WindowFinite ==
  ASSUME LimiterTypeOK, NEW k \in Keys, NEW t
  PROVE  IsFiniteSet(InWindow(k, t)) /\ Cardinality(InWindow(k, t)) \in Nat
<1>1. granted[k] \in Seq(Nat) /\ Len(granted[k]) \in Nat
  BY DEF LimiterTypeOK
<1>2. InWindow(k, t) \in SUBSET (1..Len(granted[k]))
  BY <1>1 DEF InWindow
<1>3. IsFiniteSet(1..Len(granted[k]))
  BY <1>1, FS_Interval
<1>4. IsFiniteSet(InWindow(k, t))
  BY <1>2, <1>3, FS_Subset
<1> QED
  BY <1>4, FS_CardinalityType

\* Every hit that counts is a grant of the window.
LEMMA ValidInWindow ==
  ASSUME LimiterTypeOK, Ordered, Remembered, NEW k \in Keys
  PROVE  Cardinality(Valid(k)) <= Cardinality(InWindow(k, now))
<1> DEFINE number == [h \in Valid(k) |-> h.n]
<1>1. ASSUME NEW h \in Valid(k)
      PROVE  /\ h \in [n : Nat, at : Nat] /\ h.at = granted[k][h.n]
             /\ h.n \in InWindow(k, now)
  <2>1. h \in hits[k] /\ h.at > now - Win
    BY <1>1, ValidMembers
  <2>2. h \in [n : Nat, at : Nat]
    BY <2>1 DEF LimiterTypeOK
  <2>3. h.n \in DOMAIN granted[k] /\ h.at = granted[k][h.n]
    BY <2>1 DEF Remembered
  <2>4. granted[k][h.n] <= now
    BY <2>3 DEF Ordered
  <2>5. now \in Nat /\ Win \in Nat
    BY LimiterAssumption DEF LimiterTypeOK, LimiterAssumption
  <2>6. h.n \in InWindow(k, now)
    BY <2>1, <2>2, <2>3, <2>4, <2>5 DEF InWindow
  <2> QED
    BY <2>2, <2>3, <2>6
<1>2. number \in [Valid(k) -> InWindow(k, now)]
  BY <1>1
<1>3. ASSUME NEW g \in Valid(k), NEW h \in Valid(k), number[g] = number[h]
      PROVE  g = h
  <2>1. g.n = h.n
    BY <1>3
  <2>2. g.at = h.at
    BY <2>1, <1>1
  <2> QED
    BY <2>1, <2>2, <1>1
<1>4. number \in Injection(Valid(k), InWindow(k, now))
  BY <1>2, <1>3 DEF Injection, IsInjective
<1> HIDE DEF number
<1> QED
  BY <1>4, WindowFinite, FS_Injection

\* If a grant still counts, so do those after it.
LEMMA CountedSince ==
  ASSUME LimiterTypeOK, Ordered, Remembered, NEW k \in Keys,
         NEW i \in DOMAIN granted[k], granted[k][i] > now - Win
  PROVE  Cardinality(Valid(k)) >= Len(granted[k]) - i + 1
<1> DEFINE last == Len(granted[k])
           hit  == [j \in i..last |-> Hit(j, granted[k][j])]
<1>1. granted[k] \in Seq(Nat) /\ last \in Nat /\ i \in Nat /\ i <= last /\ DOMAIN granted[k] = 1..last
  BY DEF LimiterTypeOK
<1>2. now \in Nat /\ Win \in Nat
  BY LimiterAssumption DEF LimiterTypeOK, LimiterAssumption
<1>3. ASSUME NEW j \in i..last
      PROVE  Hit(j, granted[k][j]) \in Valid(k)
  <2>1. j \in DOMAIN granted[k] /\ i <= j
    BY <1>1, <1>3
  <2>2. granted[k][i] <= granted[k][j]
    BY <2>1 DEF Ordered
  <2>3. granted[k][j] \in Nat /\ granted[k][i] \in Nat
    BY <1>1, <2>1
  <2>4. granted[k][j] > now - Win
    BY <2>2, <2>3, <1>2
  <2>5. Hit(j, granted[k][j]) \in hits[k]
    BY <2>1, <2>4 DEF Remembered
  <2>6. Hit(j, granted[k][j]).at = granted[k][j]
    BY DEF Hit
  <2> QED
    BY <2>4, <2>5, <2>6, ValidMembers
<1>4. hit \in [i..last -> Valid(k)]
  BY <1>3
<1>5. ASSUME NEW a \in i..last, NEW b \in i..last, hit[a] = hit[b]
      PROVE  a = b
  BY <1>5 DEF Hit
<1>6. hit \in Injection(i..last, Valid(k))
  BY <1>4, <1>5 DEF Injection, IsInjective
<1>7. Cardinality(i..last) = last - i + 1
  BY <1>1, FS_Interval
<1> HIDE DEF hit
<1>8. Cardinality(i..last) <= Cardinality(Valid(k))
  BY <1>6, ValidFinite, FS_Injection
<1> QED
  BY <1>1, <1>7, <1>8, ValidFinite

LEMMA InitInv == LimiterInit => LimiterInv
<1> SUFFICES ASSUME LimiterInit PROVE LimiterInv
  OBVIOUS
<1>1. \A k \in Keys : hits[k] = {} /\ granted[k] = <<>> /\ refused[k] = {}
  BY DEF LimiterInit
<1>2. LimiterTypeOK
  BY DEF LimiterInit, LimiterTypeOK
<1>3. Ordered /\ RefusedRight
  BY <1>1 DEF Ordered, RefusedRight
<1>4. Remembered
  BY <1>1, FS_EmptySet DEF Remembered
<1>5. LimitHolds
  BY <1>1, LimiterAssumption DEF LimitHolds, LimiterAssumption
<1> QED
  BY <1>2, <1>3, <1>4, <1>5 DEF LimiterInv

\* A grant leaves the grants of the other keys alone.
LEMMA GrantFacts ==
  ASSUME LimiterInv, NEW k \in Keys, Grant(k)
  PROVE  /\ now' = now /\ refused' = refused
         /\ hits'[k] = Valid(k) \cup {Hit(Len(granted[k]) + 1, now)}
         /\ granted'[k] = Append(granted[k], now)
         /\ \A j \in Keys \ {k} : hits'[j] = hits[j] /\ granted'[j] = granted[j]
         /\ Len(granted[k]) \in Nat /\ Len(granted'[k]) = Len(granted[k]) + 1
         /\ \A i \in DOMAIN granted[k] : granted'[k][i] = granted[k][i]
         /\ granted'[k][Len(granted[k]) + 1] = now
         /\ DOMAIN granted[k] = 1..Len(granted[k])
         /\ DOMAIN granted'[k] = 1..(Len(granted[k]) + 1)
<1>1. /\ hits \in [Keys -> SUBSET [n : Nat, at : Nat]]
      /\ granted \in [Keys -> Seq(Nat)] /\ now \in Nat
  BY DEF LimiterInv, LimiterTypeOK
<1>2. /\ hits' = [hits EXCEPT ![k] = Valid(k) \cup {Hit(Len(granted[k]) + 1, now)}]
      /\ granted' = [granted EXCEPT ![k] = Append(@, now)]
      /\ now' = now /\ refused' = refused
  BY DEF Grant
<1>3. granted'[k] = Append(granted[k], now)
  BY <1>1, <1>2
<1>4. granted[k] \in Seq(Nat)
  BY <1>1
<1> QED
  BY <1>1, <1>2, <1>3, <1>4

LEMMA GrantTypes ==
  ASSUME LimiterInv, NEW k \in Keys, Grant(k)
  PROVE  LimiterTypeOK'
<1>1. /\ hits \in [Keys -> SUBSET [n : Nat, at : Nat]] /\ now \in Nat
      /\ granted \in [Keys -> Seq(Nat)] /\ refused \in [Keys -> SUBSET Nat]
  BY DEF LimiterInv, LimiterTypeOK
<1>2. Valid(k) \in SUBSET [n : Nat, at : Nat]
  BY <1>1 DEF Valid
<1>3. Hit(Len(granted[k]) + 1, now) \in [n : Nat, at : Nat]
  BY <1>1 DEF Hit
<1>4. hits' \in [Keys -> SUBSET [n : Nat, at : Nat]]
  BY <1>1, <1>2, <1>3 DEF Grant
<1>5. granted' \in [Keys -> Seq(Nat)]
  BY <1>1 DEF Grant
<1> QED
  BY <1>1, <1>4, <1>5, GrantFacts DEF LimiterTypeOK

LEMMA GrantOrdered ==
  ASSUME LimiterInv, NEW k \in Keys, Grant(k)
  PROVE  Ordered'
<1>1. now \in Nat /\ \A i \in DOMAIN granted[k] : granted[k][i] \in Nat
  BY DEF LimiterInv, LimiterTypeOK
<1>2. Ordered
  BY DEF LimiterInv
<1> SUFFICES ASSUME NEW j \in Keys
    PROVE  /\ \A i \in DOMAIN granted'[j] : granted'[j][i] <= now
           /\ \A a, b \in DOMAIN granted'[j] : a <= b => granted'[j][a] <= granted'[j][b]
  BY GrantFacts DEF Ordered
<1>3. CASE j # k
  BY <1>2, <1>3, GrantFacts DEF Ordered
<1>4. CASE j = k
  <2>1. \A i \in DOMAIN granted[k] : granted[k][i] <= now
    BY <1>2 DEF Ordered
  <2>2. \A a, b \in DOMAIN granted[k] : a <= b => granted[k][a] <= granted[k][b]
    BY <1>2 DEF Ordered
  <2>3. \A i \in DOMAIN granted'[k] : i \in DOMAIN granted[k] \/ i = Len(granted[k]) + 1
    BY GrantFacts
  <2>4. \A i \in DOMAIN granted'[k] : granted'[k][i] <= now
    BY <1>1, <2>1, <2>3, GrantFacts
  <2>5. ASSUME NEW a \in DOMAIN granted'[k], NEW b \in DOMAIN granted'[k], a <= b
        PROVE  granted'[k][a] <= granted'[k][b]
    <3>1. CASE b = Len(granted[k]) + 1
      BY <3>1, <2>4, GrantFacts
    <3>2. CASE b \in DOMAIN granted[k]
      <4>1. a \in DOMAIN granted[k]
        BY <3>2, <2>5, GrantFacts
      <4> QED
        BY <4>1, <3>2, <2>2, <2>5, GrantFacts
    <3> QED
      BY <3>1, <3>2, <2>3
  <2> QED
    BY <1>4, <2>4, <2>5
<1> QED
  BY <1>3, <1>4

LEMMA GrantRemembered ==
  ASSUME LimiterInv, NEW k \in Keys, Grant(k)
  PROVE  Remembered'
<1> DEFINE new == Hit(Len(granted[k]) + 1, now)
<1>1. LimiterTypeOK /\ Ordered /\ Remembered
  BY DEF LimiterInv
<1>2. now \in Nat /\ Win \in Nat
  BY <1>1, LimiterAssumption DEF LimiterAssumption, LimiterTypeOK
<1> SUFFICES ASSUME NEW j \in Keys
    PROVE  /\ IsFiniteSet(hits'[j])
           /\ \A h \in hits'[j] : h.n \in DOMAIN granted'[j] /\ h.at = granted'[j][h.n]
           /\ \A i \in DOMAIN granted'[j] :
                granted'[j][i] > now - Win => Hit(i, granted'[j][i]) \in hits'[j]
  BY GrantFacts DEF Remembered
<1>3. CASE j # k
  <2>1. hits'[j] = hits[j] /\ granted'[j] = granted[j]
    BY <1>3, GrantFacts
  <2> QED
    BY <2>1, <1>1 DEF Remembered
<1>4. CASE j = k
  <2>1. IsFiniteSet(hits'[k])
    <3>1. IsFiniteSet(Valid(k) \cup {new})
      BY <1>1, ValidFinite, FS_AddElement
    <3> QED
      BY <3>1, GrantFacts
  <2>2. ASSUME NEW h \in hits'[k]
        PROVE  h.n \in DOMAIN granted'[k] /\ h.at = granted'[k][h.n]
    <3>1. CASE h = new
      BY <3>1, GrantFacts DEF Hit
    <3>2. CASE h \in Valid(k)
      <4>1. h \in hits[k]
        BY <3>2 DEF Valid
      <4>2. h.n \in DOMAIN granted[k] /\ h.at = granted[k][h.n]
        BY <4>1, <1>1 DEF Remembered
      <4> QED
        BY <4>2, GrantFacts
    <3> QED
      BY <3>1, <3>2, GrantFacts
  <2>3. ASSUME NEW i \in DOMAIN granted'[k], granted'[k][i] > now - Win
        PROVE  Hit(i, granted'[k][i]) \in hits'[k]
    <3>1. CASE i = Len(granted[k]) + 1
      BY <3>1, GrantFacts
    <3>2. CASE i \in DOMAIN granted[k]
      <4>1. granted'[k][i] = granted[k][i]
        BY <3>2, GrantFacts
      <4>2. Hit(i, granted[k][i]) \in hits[k]
        BY <4>1, <2>3, <3>2, <1>1 DEF Remembered
      <4>3. Hit(i, granted[k][i]).at = granted[k][i]
        BY DEF Hit
      <4>4. Hit(i, granted[k][i]) \in Valid(k)
        BY <4>1, <4>2, <4>3, <2>3 DEF Valid
      <4> QED
        BY <4>1, <4>4, GrantFacts
    <3> QED
      BY <3>1, <3>2, GrantFacts
  <2> QED
    BY <1>4, <2>1, <2>2, <2>3
<1> QED
  BY <1>3, <1>4

\* The new grant is a window later than the one Limit grants before it: did
\* that one still count, there would be Limit hits that count.
LEMMA GrantLimit ==
  ASSUME LimiterInv, NEW k \in Keys, Grant(k)
  PROVE  LimitHolds'
<1>1. LimiterTypeOK /\ Ordered /\ Remembered /\ LimitHolds
  BY DEF LimiterInv
<1>2. now \in Nat /\ Win \in Nat /\ Limit \in Nat
  BY <1>1, LimiterAssumption DEF LimiterAssumption, LimiterTypeOK
<1> SUFFICES ASSUME NEW j \in Keys, NEW i \in 1..(Len(granted'[j]) - Limit)
    PROVE  granted'[j][i + Limit] - granted'[j][i] >= Win
  BY DEF LimitHolds
<1>3. CASE j # k
  <2>1. granted'[j] = granted[j]
    BY <1>3, GrantFacts
  <2> QED
    BY <2>1, <1>1 DEF LimitHolds
<1>4. CASE j = k /\ i \in 1..(Len(granted[k]) - Limit)
  <2>1. i \in DOMAIN granted[k] /\ i + Limit \in DOMAIN granted[k]
    BY <1>2, <1>4, GrantFacts
  <2>2. granted[k][i + Limit] - granted[k][i] >= Win
    BY <1>1, <1>4 DEF LimitHolds
  <2> QED
    BY <2>1, <2>2, <1>4, GrantFacts
<1>5. CASE j = k /\ i \notin 1..(Len(granted[k]) - Limit)
  <2>a. Len(granted[k]) \in Nat /\ Len(granted'[k]) = Len(granted[k]) + 1
    BY GrantFacts
  <2>b. i \in 1..(Len(granted'[k]) - Limit)
    BY <1>5
  <2>1. i + Limit = Len(granted[k]) + 1 /\ i \in Nat /\ i >= 1
    BY <2>a, <2>b, <1>2, <1>5
  <2>2. Cardinality(Valid(k)) < Limit /\ Cardinality(Valid(k)) \in Nat
    BY <1>1, ValidFinite DEF Grant
  <2>3. i \in DOMAIN granted[k]
    BY <1>2, <2>1, <2>2, GrantFacts
  <2>4. granted[k][i] \in Nat
    BY <2>3, <1>1 DEF LimiterTypeOK
  <2>5. ~(granted[k][i] > now - Win)
    <3> SUFFICES ASSUME granted[k][i] > now - Win PROVE FALSE
      OBVIOUS
    <3>1. Cardinality(Valid(k)) >= Len(granted[k]) - i + 1
      BY <1>1, <2>3, CountedSince
    <3> QED
      BY <3>1, <2>1, <2>2, <1>2, GrantFacts
  <2>6. granted'[k][i + Limit] = now /\ granted'[k][i] = granted[k][i]
    BY <2>1, <2>3, GrantFacts
  <2>7. now - granted[k][i] >= Win
    BY <2>4, <2>5, <1>2
  <2> QED
    BY <2>6, <2>7, <1>5
<1> QED
  BY <1>3, <1>4, <1>5

\* The windows in which something was refused only fill up.
LEMMA GrantRefused ==
  ASSUME LimiterInv, NEW k \in Keys, Grant(k)
  PROVE  RefusedRight'
<1>1. LimiterTypeOK /\ RefusedRight /\ LimiterTypeOK'
  BY GrantTypes DEF LimiterInv
<1> SUFFICES ASSUME NEW j \in Keys, NEW t \in refused[j]
    PROVE  Cardinality(InWindow(j, t)') >= Limit
  BY GrantFacts DEF RefusedRight
<1>2. InWindow(j, t) \in SUBSET InWindow(j, t)'
  <2>1. CASE j # k
    BY <2>1, GrantFacts DEF InWindow
  <2>2. CASE j = k
    BY <2>2, GrantFacts DEF InWindow
  <2> QED
    BY <2>1, <2>2
<1>3. IsFiniteSet(InWindow(j, t)') /\ Cardinality(InWindow(j, t)') \in Nat
  <2>1. granted'[j] \in Seq(Nat) /\ Len(granted'[j]) \in Nat
    BY <1>1 DEF LimiterTypeOK
  <2>2. InWindow(j, t)' \in SUBSET (1..Len(granted'[j]))
    BY <2>1 DEF InWindow
  <2>3. IsFiniteSet(1..Len(granted'[j]))
    BY <2>1, FS_Interval
  <2>4. IsFiniteSet(InWindow(j, t)')
    BY <2>2, <2>3, FS_Subset
  <2> QED
    BY <2>4, FS_CardinalityType
<1>4. Cardinality(InWindow(j, t)) <= Cardinality(InWindow(j, t)')
  BY <1>2, <1>3, FS_Subset
<1>5. Cardinality(InWindow(j, t)) >= Limit /\ Cardinality(InWindow(j, t)) \in Nat
  BY <1>1, WindowFinite DEF RefusedRight
<1> QED
  BY <1>3, <1>4, <1>5, LimiterAssumption DEF LimiterAssumption

LEMMA RefuseInv ==
  ASSUME LimiterInv, NEW k \in Keys, Refuse(k)
  PROVE  LimiterInv'
<1>1. LimiterTypeOK /\ Ordered /\ Remembered /\ LimitHolds /\ RefusedRight
  BY DEF LimiterInv
<1>2. now \in Nat /\ Win \in Nat /\ Limit \in Nat
  BY <1>1, LimiterAssumption DEF LimiterAssumption, LimiterTypeOK
<1>3. now' = now /\ granted' = granted
  BY DEF Refuse
<1>4. /\ hits'[k] = Valid(k) /\ refused'[k] = refused[k] \cup {now}
      /\ \A j \in Keys \ {k} : hits'[j] = hits[j] /\ refused'[j] = refused[j]
  BY <1>1 DEF Refuse, LimiterTypeOK
<1>5. Valid(k) \in SUBSET hits[k]
  BY DEF Valid
<1>6. LimiterTypeOK'
  <2>1. hits' \in [Keys -> SUBSET [n : Nat, at : Nat]]
    BY <1>1, <1>5 DEF Refuse, LimiterTypeOK
  <2>2. refused' \in [Keys -> SUBSET Nat]
    BY <1>1 DEF Refuse, LimiterTypeOK
  <2> QED
    BY <1>1, <1>3, <2>1, <2>2 DEF LimiterTypeOK
<1>7. Ordered'
  BY <1>1, <1>3 DEF Ordered
<1>8. Remembered'
  <2> SUFFICES ASSUME NEW j \in Keys
      PROVE  /\ IsFiniteSet(hits'[j])
             /\ \A h \in hits'[j] : h.n \in DOMAIN granted[j] /\ h.at = granted[j][h.n]
             /\ \A i \in DOMAIN granted[j] :
                  granted[j][i] > now - Win => Hit(i, granted[j][i]) \in hits'[j]
    BY <1>3 DEF Remembered
  <2>1. CASE j # k
    BY <2>1, <1>1, <1>4 DEF Remembered
  <2>2. CASE j = k
    <3>1. IsFiniteSet(hits'[k])
      BY <1>1, <1>4, ValidFinite
    <3>2. \A h \in hits'[k] : h.n \in DOMAIN granted[k] /\ h.at = granted[k][h.n]
      BY <1>1, <1>4, <1>5 DEF Remembered
    <3>3. ASSUME NEW i \in DOMAIN granted[k], granted[k][i] > now - Win
          PROVE  Hit(i, granted[k][i]) \in hits'[k]
      <4>1. Hit(i, granted[k][i]) \in hits[k]
        BY <3>3, <1>1 DEF Remembered
      <4>2. Hit(i, granted[k][i]).at = granted[k][i]
        BY DEF Hit
      <4> QED
        BY <4>1, <4>2, <3>3, <1>4 DEF Valid
    <3> QED
      BY <2>2, <3>1, <3>2, <3>3
  <2> QED
    BY <2>1, <2>2
<1>9. LimitHolds'
  BY <1>1, <1>3 DEF LimitHolds
<1>10. RefusedRight'
  <2> SUFFICES ASSUME NEW j \in Keys, NEW t \in refused'[j]
      PROVE  Cardinality(InWindow(j, t)') >= Limit
    BY DEF RefusedRight
  <2>1. InWindow(j, t)' = InWindow(j, t)
    BY <1>3 DEF InWindow
  <2>2. CASE t \in refused[j]
    BY <2>1, <2>2, <1>1 DEF RefusedRight
  <2>3. CASE t \notin refused[j]
    <3>1. j = k /\ t = now
      BY <2>3, <1>4
    <3>2. Cardinality(Valid(k)) >= Limit /\ Cardinality(Valid(k)) \in Nat
      BY <1>1, ValidFinite DEF Refuse
    <3>3. Cardinality(Valid(k)) <= Cardinality(InWindow(k, now))
      BY <1>1, ValidInWindow
    <3>4. Cardinality(InWindow(k, now)) \in Nat
      BY <1>1, WindowFinite
    <3> QED
      BY <2>1, <3>1, <3>2, <3>3, <3>4, <1>2
  <2> QED
    BY <2>2, <2>3
<1> QED
  BY <1>6, <1>7, <1>8, <1>9, <1>10 DEF LimiterInv

LEMMA TickInv ==
  ASSUME LimiterInv, Tick
  PROVE  LimiterInv'
<1>1. LimiterTypeOK /\ Ordered /\ Remembered /\ LimitHolds /\ RefusedRight
  BY DEF LimiterInv
<1>2. now \in Nat /\ Win \in Nat
  BY <1>1, LimiterAssumption DEF LimiterAssumption, LimiterTypeOK
<1>3. now' = now + 1 /\ hits' = hits /\ granted' = granted /\ refused' = refused
  BY DEF Tick
<1>4. \A k \in Keys : \A i \in DOMAIN granted[k] : granted[k][i] \in Nat
  BY <1>1 DEF LimiterTypeOK
<1>5. LimiterTypeOK'
  BY <1>1, <1>3 DEF LimiterTypeOK
<1>6. Ordered'
  BY <1>1, <1>2, <1>3, <1>4 DEF Ordered
<1>7. Remembered'
  BY <1>1, <1>2, <1>3, <1>4 DEF Remembered
<1>8. LimitHolds' /\ RefusedRight'
  BY <1>1, <1>3 DEF LimitHolds, RefusedRight, InWindow
<1> QED
  BY <1>5, <1>6, <1>7, <1>8 DEF LimiterInv

LEMMA LimiterStep == LimiterInv /\ [LimiterNext]_limiter => LimiterInv'
<1> SUFFICES ASSUME LimiterInv, [LimiterNext]_limiter PROVE LimiterInv'
  OBVIOUS
<1>1. CASE Tick
  BY <1>1, TickInv
<1>2. ASSUME NEW k \in Keys, Grant(k) PROVE LimiterInv'
  BY <1>2, GrantTypes, GrantOrdered, GrantRemembered, GrantLimit, GrantRefused DEF LimiterInv
<1>3. ASSUME NEW k \in Keys, Refuse(k) PROVE LimiterInv'
  BY <1>3, RefuseInv
<1>4. CASE UNCHANGED limiter
  BY <1>4 DEF limiter, LimiterInv, LimiterTypeOK, Ordered, Remembered, LimitHolds, RefusedRight,
              InWindow
<1> QED
  BY <1>1, <1>2, <1>3, <1>4 DEF LimiterNext

\* Whatever the limit, the window and the clients: no window has more than
\* Limit grants of a key, and whoever is refused had Limit requests granted in
\* the window before (Allow).
THEOREM LimiterIsExact == LimiterSpec => []LimitExact
<1>1. LimiterInv => LimitExact
  BY DEF LimiterInv, LimitExact
<1> QED
  BY <1>1, InitInv, LimiterStep, PTL DEF LimiterSpec

------------------------------------------------------------------------------
(* What a request goes through shows in its answer                         *)

ServingTypeOK ==
  /\ pc \in [Goroutines -> {"idle", "dispatch", "chain", "done"}]
  /\ DOMAIN request = Goroutines /\ DOMAIN route = Goroutines /\ DOMAIN answer = Goroutines
  /\ \A g \in Goroutines : pc[g] # "idle" => request[g] \in Requests

\* Who was refused or granted something stays so.
Counting(k) ==
  /\ refused[k] # {} => refused'[k] # {}
  /\ granted[k] # <<>> => granted'[k] # <<>>

LEMMA LimiterCounts ==
  ASSUME LimiterTypeOK, NEW k \in Keys,
         UNCHANGED limiter \/ Tick \/ \E h \in Keys : Grant(h) \/ Refuse(h)
  PROVE  Counting(k)
<1>1. CASE UNCHANGED limiter \/ Tick
  BY <1>1 DEF limiter, Tick, Counting
<1>2. ASSUME NEW h \in Keys, Grant(h) PROVE Counting(k)
  <2>1. granted[h] \in Seq(Nat) /\ now \in Nat
    BY DEF LimiterTypeOK
  <2>2. Append(granted[h], now) # <<>>
    BY <2>1
  <2> QED
    BY <1>2, <2>2 DEF Grant, Counting, LimiterTypeOK
<1>3. ASSUME NEW h \in Keys, Refuse(h) PROVE Counting(k)
  BY <1>3 DEF Refuse, Counting, LimiterTypeOK
<1> QED
  BY <1>1, <1>2, <1>3

LEMMA ReplyStays ==
  ASSUME NEW g, ReplyRight(g), NoOther(g), Counting(request[g].from),
         route'[g] = route[g], request'[g] = request[g], answer'[g] = answer[g]
  PROVE  ReplyRight(g)' /\ NoOther(g)'
<1>1. Stack(g)' = Stack(g)
  BY DEF Stack
<1>2. \A m : Carries(g, m) => Carries(g, m)'
  BY DEF Carries
<1>3. NoOther(g)'
  BY <1>1 DEF NoOther
<1> QED
  BY <1>1, <1>2, <1>3 DEF ReplyRight, Counting

\* What middlewares wrote into the headers is in any answer made of them, and
\* nothing is there that no one wrote.
LEMMA SentRight ==
  ASSUME ServingTypeOK, NEW g \in Goroutines, request[g] \in Requests, NEW status,
         NEW some \in SUBSET DOMAIN Stack(g), Reply(g, status, Headers(g, some)),
         UNCHANGED <<route, request>>
  PROVE  /\ answer'[g].status = status
         /\ \A i \in some : Carries(g, Stack(g)[i])'
         /\ NoOther(g)'
         /\ some = {} => \A n \in DOMAIN answer'[g].headers : answer'[g].headers[n] = "client"
<1> DEFINE written == UNION {Writes(Stack(g)[i]) : i \in some}
           passed  == {h \in Headers(g, some) : h.name \in Forwarded}
<1>1. PICK sent \in Sent(Headers(g, some)) :
        answer' = [answer EXCEPT ![g] = [status |-> status, headers |-> sent]]
  BY DEF Reply
<1>2. answer'[g].status = status /\ answer'[g].headers = sent
  BY <1>1 DEF ServingTypeOK
<1>3. /\ DOMAIN sent = {Canonical(h.name) : h \in passed}
      /\ \A n \in DOMAIN sent : \E h \in passed : Canonical(h.name) = n /\ h.by = sent[n]
  BY <1>1 DEF Sent
<1>4. Headers(g, some) = [name : request[g].headers \ written, by : {"client"}]
                           \cup [name : written, by : {"server"}]
  BY DEF Headers
<1>5. /\ "X-Request-ID" \notin request[g].headers
      /\ "Referrer-Policy" \notin Forwarded
      /\ \A m : Writes(m) \ {"Referrer-Policy"} \subseteq Forwarded
  <2>1. /\ "X-Request-ID" \notin request[g].headers
        /\ "Referrer-Policy" \notin Forwarded
        /\ \A m \in {"requestid", "security", "cors"} : Writes(m) \ {"Referrer-Policy"} \subseteq Forwarded
    BY ServingAssumption DEF Forwarded
  <2>2. \A m : m \notin {"requestid", "security", "cors"} => Writes(m) = {}
    BY DEF Writes
  <2> QED
    BY <2>1, <2>2
<1>6. UNCHANGED <<route[g], request[g], Stack(g)>>
  BY DEF Stack
<1> HIDE DEF written, passed
\* A forwarded header, and a name it has in the answer.
<1>7. ASSUME NEW h \in passed
      PROVE  /\ h.name \in Forwarded
             /\ \/ h.by = "client" /\ h.name \in request[g].headers /\ h.name \notin written
                \/ h.by = "server" /\ h.name \in written
  BY <1>4, <1>7 DEF passed
<1>8. ASSUME NEW w \in written, w # "Referrer-Policy" PROVE [name |-> w, by |-> "server"] \in passed
  BY <1>4, <1>5, <1>8 DEF passed, written
<1>9. ASSUME NEW i \in some PROVE Carries(g, Stack(g)[i])'
  <2> SUFFICES ASSUME NEW n \in Writes(Stack(g)[i]) \ {"Referrer-Policy"}
               PROVE  /\ Canonical(n) \in DOMAIN sent
                      /\ \/ sent[Canonical(n)] = "server"
                         \/ n = "X-Request-ID" /\ "X-Request-Id" \in request[g].headers
    BY <1>2, <1>6 DEF Carries
  <2>1. n \in written
    BY <1>9 DEF written
  <2>2. Canonical(n) \in DOMAIN sent
    <3>1. PICK h \in passed : h.name = n
      BY <1>8, <2>1
    <3> QED
      BY <1>3, <3>1
  <2>3. PICK h \in passed : Canonical(h.name) = Canonical(n) /\ h.by = sent[Canonical(n)]
    BY <1>3, <2>2
  <2>4. CASE h.name = n
    BY <1>7, <2>1, <2>2, <2>3, <2>4
  <2>5. CASE h.name # n
    <3>1. \/ h.name = "X-Request-Id" /\ n = "X-Request-ID"
          \/ h.name = "X-Request-ID" /\ n = "X-Request-Id"
      BY <2>3, <2>5 DEF Canonical
    <3>2. n # "X-Request-Id"
      BY DEF Writes
    <3> QED
      BY <1>7, <2>2, <2>3, <3>1, <3>2
  <2> QED
    BY <2>4, <2>5
<1>10. NoOther(g)'
  <2> SUFFICES ASSUME NEW n \in DOMAIN sent
               PROVE  /\ n # "Referrer-Policy"
                      /\ sent[n] = "client" => n \in request[g].headers
                      /\ sent[n] = "server" =>
                           \E i \in DOMAIN Stack(g) : \E w \in Writes(Stack(g)[i]) : Canonical(w) = n
    BY <1>2, <1>6 DEF NoOther
  <2>1. PICK h \in passed : Canonical(h.name) = n /\ h.by = sent[n]
    BY <1>3
  <2>2. n # "Referrer-Policy"
    BY <1>5, <1>7, <2>1 DEF Canonical
  <2>3. sent[n] = "client" => n \in request[g].headers
    BY <1>5, <1>7, <2>1 DEF Canonical
  <2>4. sent[n] = "server" => \E i \in DOMAIN Stack(g) : \E w \in Writes(Stack(g)[i]) : Canonical(w) = n
    BY <1>7, <2>1 DEF written
  <2> QED
    BY <2>2, <2>3, <2>4
<1>11. some = {} => \A n \in DOMAIN sent : sent[n] = "client"
  BY <1>3, <1>7 DEF written
<1> QED
  BY <1>2, <1>9, <1>10, <1>11

\* What a handler or the middleware before it answers.
LEMMA HandleRight ==
  ASSUME ServingTypeOK, NEW g \in Goroutines, request[g] \in Requests,
         Handle(g), UNCHANGED <<route, request>>,
         Limiters(g) # {} => granted'[request[g].from] # <<>>
  PROVE  ReplyRight(g)' /\ NoOther(g)'
<1> DEFINE all == {Stack(g)[i] : i \in DOMAIN Stack(g)}
           options == request[g].method = "OPTIONS"
           reached == {i \in DOMAIN Stack(g) :
                         options => \A j \in DOMAIN Stack(g) : j < i => Stack(g)[j] # "cors"}
<1>1. Outer(g) = reached /\ Outer(g) \subseteq DOMAIN Stack(g)
  BY DEF Outer, Answering
<1>2. Answering(g) = {} <=> ~(options /\ "cors" \in all)
  BY DEF Answering
<1>3. \A i \in reached : Stack(g)[i] = "ratelimit" => Limiters(g) # {}
  BY <1>1 DEF Limiters
<1>4. Status(route[g].handler) \in {200, 401, 500}
  BY DEF Status
<1>5. UNCHANGED <<route[g], request[g], Stack(g)>>
  BY DEF Stack
<1>6. ASSUME NEW status \in {200, 401, 500}, Reply(g, status, Headers(g, Outer(g))),
             status = IF options /\ "cors" \in all THEN 200 ELSE Status(route[g].handler)
      PROVE  ReplyRight(g)' /\ NoOther(g)'
  <2>1. /\ answer'[g].status = status
        /\ \A i \in reached : Carries(g, Stack(g)[i])'
        /\ NoOther(g)'
    BY <1>1, <1>6, SentRight
  <2> QED
    BY <1>3, <1>5, <1>6, <2>1 DEF ReplyRight
<1>7. CASE Answering(g) # {}
  <2>1. Reply(g, 200, Headers(g, Outer(g)))
    BY <1>7 DEF Handle
  <2> QED
    BY <1>2, <1>6, <1>7, <2>1
<1>8. CASE Answering(g) = {} /\ route[g].handler = "panics" /\ "recovery" \notin all
  <2>1. Reply(g, 0, {})
    BY <1>8 DEF Handle
  <2>2. PICK sent \in Sent({}) : answer' = [answer EXCEPT ![g] = [status |-> 0, headers |-> sent]]
    BY <2>1 DEF Reply
  <2>3. answer'[g].status = 0 /\ answer'[g].headers = sent
    BY <2>2 DEF ServingTypeOK
  <2>4. DOMAIN sent = {}
    BY <2>2 DEF Sent
  <2>5. NoOther(g)'
    BY <2>3, <2>4 DEF NoOther
  <2> QED
    BY <1>5, <1>8, <2>3, <2>5 DEF ReplyRight
<1>9. CASE Answering(g) = {} /\ ~(route[g].handler = "panics" /\ "recovery" \notin all)
  <2>1. Reply(g, Status(route[g].handler), Headers(g, Outer(g)))
    BY <1>9 DEF Handle
  <2> QED
    BY <1>2, <1>4, <1>6, <1>9, <2>1
<1> QED
  BY <1>7, <1>8, <1>9

\* What the limiter answers, if CORS lets the request get to it.
LEMMA RefusalRight ==
  ASSUME LimiterTypeOK, ServingTypeOK, NEW g \in Goroutines, request[g] \in Requests,
         request[g].from \in Keys, Refused(g)
  PROVE  ReplyRight(g)' /\ NoOther(g)'
<1>1. PICK i \in Limiters(g) : Reply(g, 429, Headers(g, {j \in DOMAIN Stack(g) : j <= i}))
  BY DEF Refused
<1>2. UNCHANGED <<route, request, route[g], request[g], Stack(g)>>
  BY DEF Refused, Stack
<1>3. refused'[request[g].from] # {}
  BY DEF Refused, Refuse, LimiterTypeOK
<1>4. i \in DOMAIN Stack(g) /\ Stack(g)[i] = "ratelimit" /\ ~\E j \in Answering(g) : j < i
  BY DEF Limiters, Outer
<1>5. request[g].method = "OPTIONS" => \A j \in DOMAIN Stack(g) : j < i => Stack(g)[j] # "cors"
  BY <1>4 DEF Answering
<1>6. /\ answer'[g].status = 429
      /\ \A j \in {k \in DOMAIN Stack(g) : k <= i} : Carries(g, Stack(g)[j])'
      /\ NoOther(g)'
  <2> DEFINE some == {j \in DOMAIN Stack(g) : j <= i}
  <2>1. some \in SUBSET DOMAIN Stack(g)
    OBVIOUS
  <2> HIDE DEF some
  <2>2. Reply(g, 429, Headers(g, some))
    BY <1>1 DEF some
  <2>3. answer'[g].status = 429 /\ (\A j \in some : Carries(g, Stack(g)[j])') /\ NoOther(g)'
    BY <1>2, <2>1, <2>2, SentRight
  <2> QED
    BY <2>3 DEF some
<1> QED
  BY <1>2, <1>3, <1>4, <1>5, <1>6 DEF ReplyRight

\* Who finds no route gets back what it sent.
LEMMA MissedRight ==
  ASSUME ServingTypeOK, NEW g \in Goroutines, request[g] \in Requests,
         Reply(g, 404, Headers(g, {})), UNCHANGED <<route, request>>
  PROVE  ReplyRight(g)' /\ NoOther(g)'
<1>1. {} \in SUBSET DOMAIN Stack(g)
  OBVIOUS
<1>2. /\ answer'[g].status = 404 /\ NoOther(g)'
      /\ \A n \in DOMAIN answer'[g].headers : answer'[g].headers[n] = "client"
  BY <1>1, SentRight
<1> QED
  BY <1>2 DEF ReplyRight

ServingInv == ServingTypeOK /\ LimiterInv /\ RepliesRight

\* Of the other goroutines nothing changes but the limiter.
LEMMA OthersRight ==
  ASSUME ServingInv, NEW g \in Goroutines,
         pc'[g] = pc[g], route'[g] = route[g], request'[g] = request[g], answer'[g] = answer[g],
         UNCHANGED limiter \/ Tick \/ \E h \in Keys : Grant(h) \/ Refuse(h)
  PROVE  pc'[g] = "done" => ReplyRight(g)' /\ NoOther(g)'
<1> SUFFICES ASSUME pc[g] = "done" PROVE ReplyRight(g)' /\ NoOther(g)'
  OBVIOUS
<1>1. request[g].from \in Keys
  BY ServingAssumption DEF ServingInv, ServingTypeOK
<1>2. Counting(request[g].from)
  BY <1>1, LimiterCounts DEF ServingInv, LimiterInv
<1> QED
  BY <1>2, ReplyStays DEF ServingInv, RepliesRight

LEMMA ServingStep == ServingInv /\ [Next]_vars => ServingInv'
<1> SUFFICES ASSUME ServingInv, [Next]_vars PROVE ServingInv'
  OBVIOUS
<1> USE DEF ServingInv
<1>1. UNCHANGED limiter \/ Tick \/ \E k \in Keys : Grant(k) \/ Refuse(k)
  <2>1. ASSUME NEW g \in Goroutines, pc[g] = "chain" PROVE request[g].from \in Keys
    BY <2>1, ServingAssumption DEF ServingTypeOK
  <2> QED
    BY <2>1 DEF Next, vars, Use, Add, Time, Arrive, Dispatch, Unlimited, Granted, Refused
<1>2. LimiterInv'
  BY <1>1, LimiterStep DEF LimiterNext, limiter
<1>3. ASSUME UNCHANGED serving PROVE ServingInv'
  <2>1. ServingTypeOK'
    BY <1>3 DEF serving, ServingTypeOK
  <2>2. RepliesRight'
    BY <1>1, <1>3, OthersRight DEF serving, RepliesRight
  <2> QED
    BY <1>2, <2>1, <2>2
\* One goroutine moves: it remains to show that its reply is right.
<1>4. ASSUME NEW g \in Goroutines, ServingTypeOK',
             \A h \in Goroutines \ {g} : /\ pc'[h] = pc[h] /\ route'[h] = route[h]
                                         /\ request'[h] = request[h] /\ answer'[h] = answer[h],
             pc'[g] = "done" => ReplyRight(g)' /\ NoOther(g)'
      PROVE  ServingInv'
  <2>1. ASSUME NEW h \in Goroutines \ {g}
        PROVE  pc'[h] = "done" => ReplyRight(h)' /\ NoOther(h)'
    BY <1>1, <1>4, <2>1, OthersRight
  <2>2. RepliesRight'
    BY <1>4, <2>1 DEF RepliesRight
  <2> QED
    BY <1>2, <1>4, <2>2
<1>5. ASSUME NEW g \in Goroutines, Arrive(g) PROVE ServingInv'
  <2>1. ServingTypeOK' /\ pc'[g] # "done"
    BY <1>5 DEF Arrive, ServingTypeOK
  <2>2. \A h \in Goroutines \ {g} : /\ pc'[h] = pc[h] /\ route'[h] = route[h]
                                    /\ request'[h] = request[h] /\ answer'[h] = answer[h]
    BY <1>5 DEF Arrive, ServingTypeOK
  <2> QED
    BY <1>4, <2>1, <2>2
<1>6. ASSUME NEW g \in Goroutines, Dispatch(g) PROVE ServingInv'
  <2>1. /\ ServingTypeOK'
        /\ \A h \in Goroutines \ {g} : /\ pc'[h] = pc[h] /\ route'[h] = route[h]
                                       /\ request'[h] = request[h] /\ answer'[h] = answer[h]
        /\ pc'[g] = "done" => ReplyRight(g)' /\ NoOther(g)'
    <3>1. CASE Reply(g, 404, Headers(g, {})) /\ UNCHANGED route
      <4>1. request[g] \in Requests /\ UNCHANGED request
        BY <1>6 DEF Dispatch, ServingTypeOK
      <4>2. ReplyRight(g)' /\ NoOther(g)'
        BY <3>1, <4>1, MissedRight
      <4> QED
        BY <1>6, <3>1, <4>2 DEF Dispatch, Reply, ServingTypeOK
    <3>2. CASE /\ \E m : route' = [route EXCEPT ![g] = m]
               /\ pc' = [pc EXCEPT ![g] = "chain"] /\ UNCHANGED answer
      BY <1>6, <3>2 DEF Dispatch, ServingTypeOK
    <3> QED
      BY <1>6, <3>1, <3>2 DEF Dispatch
  <2> QED
    BY <1>4, <2>1
<1>7. ASSUME NEW g \in Goroutines, NEW status, NEW headers,
             pc[g] = "chain", Reply(g, status, headers), UNCHANGED <<request, route>>,
             ReplyRight(g)' /\ NoOther(g)'
      PROVE  ServingInv'
  <2>1. /\ ServingTypeOK'
        /\ \A h \in Goroutines \ {g} : /\ pc'[h] = pc[h] /\ route'[h] = route[h]
                                       /\ request'[h] = request[h] /\ answer'[h] = answer[h]
    BY <1>7 DEF Reply, ServingTypeOK
  <2> QED
    BY <1>4, <1>7, <2>1
<1>8. ASSUME NEW g, Handle(g) PROVE \E status, headers : Reply(g, status, headers)
  <2>1. CASE Answering(g) # {}
    BY <1>8, <2>1 DEF Handle
  <2>2. CASE Answering(g) = {}
    BY <1>8, <2>2 DEF Handle
  <2> QED
    BY <2>1, <2>2
<1>9. ASSUME NEW g \in Goroutines, Unlimited(g) PROVE ServingInv'
  <2>1. ReplyRight(g)' /\ NoOther(g)'
    BY <1>9, HandleRight DEF Unlimited, ServingTypeOK
  <2> QED
    BY <1>7, <1>8, <1>9, <2>1 DEF Unlimited
<1>10. ASSUME NEW g \in Goroutines, Granted(g) PROVE ServingInv'
  <2>1. request[g].from \in Keys
    BY <1>10, ServingAssumption DEF Granted, ServingTypeOK
  <2>2. granted'[request[g].from] # <<>>
    <3>1. granted[request[g].from] \in Seq(Nat) /\ now \in Nat
      BY <2>1 DEF LimiterInv, LimiterTypeOK
    <3>2. Append(granted[request[g].from], now) # <<>>
      BY <3>1
    <3> QED
      BY <1>10, <2>1, <3>2 DEF Granted, Grant, LimiterInv, LimiterTypeOK
  <2>3. ReplyRight(g)' /\ NoOther(g)'
    BY <1>10, <2>2, HandleRight DEF Granted, ServingTypeOK
  <2> QED
    BY <1>7, <1>8, <1>10, <2>3 DEF Granted
<1>11. ASSUME NEW g \in Goroutines, Refused(g) PROVE ServingInv'
  <2>1. request[g].from \in Keys
    BY <1>11, ServingAssumption DEF Refused, ServingTypeOK
  <2>2. ReplyRight(g)' /\ NoOther(g)'
    BY <1>11, <2>1, RefusalRight DEF Refused, ServingTypeOK, LimiterInv
  <2> QED
    BY <1>7, <1>11, <2>2 DEF Refused
<1>12. CASE Use \/ Add \/ Time \/ UNCHANGED vars
  BY <1>3, <1>12 DEF Use, Add, Time, vars
<1> QED
  BY <1>5, <1>6, <1>9, <1>10, <1>11, <1>12 DEF Next

LEMMA ServingInit == Init => ServingInv
<1>1. Init => LimiterInv
  BY InitInv DEF Init
<1>2. Init => ServingTypeOK
  BY DEF Init, ServingTypeOK
<1>3. Init => \A g \in Goroutines : pc[g] # "done"
  BY DEF Init
<1> QED
  BY <1>1, <1>2, <1>3 DEF ServingInv, RepliesRight

\* Whatever routes and middlewares a program adds while requests are served, and
\* however they are matched: a panic inside a Recovery is a 500, CORS answers an
\* OPTIONS, who is limited is told so or was counted, and an answer has the
\* headers of the middlewares on the way in that ServeHTTP forwards, and no
\* others but the client's own (ServeHTTP and the middlewares); and the limiter
\* behind them all lets through what it should.
THEOREM RepliesAreRight == Spec => []RepliesRight /\ []LimitExact
<1>1. ServingInv => RepliesRight /\ LimitExact
  BY DEF ServingInv, LimiterInv, LimitExact
<1> QED
  BY <1>1, ServingInit, ServingStep, PTL DEF Spec

------------------------------------------------------------------------------
(* What a search computes                                                  *)

\* A tree as AddRoute grows it.
Grows(tree) ==
  /\ DOMAIN tree \subseteq Seq(Segments) /\ <<>> \in DOMAIN tree
  /\ \A at \in DOMAIN tree : tree[at].children \in Seq(Segments)
  /\ \A at \in DOMAIN tree : \A k \in DOMAIN tree[at].children :
       Append(at, tree[at].children[k]) \in DOMAIN tree

States(tree)  == (DOMAIN tree) \X Params(tree)
Results(tree) == [node : {<<>>} \cup {<<at>> : at \in DOMAIN tree}, params : Params(tree)]

LEMMA ResultsAre ==
  ASSUME NEW tree
  PROVE  /\ \A params \in Params(tree) : Missed(params) \in Results(tree)
         /\ \A at \in DOMAIN tree, params \in Params(tree) : Found(at, params) \in Results(tree)
         /\ \A r \in Results(tree) : r.params \in Params(tree)
  BY DEF Missed, Found, Results

LEMMA ParamsAre ==
  ASSUME NEW tree, NEW params \in Params(tree), NEW name, NEW value \in Seq(STRING)
  PROVE  [params EXCEPT ![name] = value] \in Params(tree)
  BY DEF Params

LEMMA TryIs ==
  ASSUME NEW tree, NEW at \in DOMAIN tree, NEW child \in Segments, Append(at, child) \in DOMAIN tree,
         NEW rest \in Seq(STRING), rest # <<>>, NEW params \in Params(tree),
         NEW below \in [States(tree) -> Results(tree)]
  PROVE  Try(at, child, rest, params, below) \in Results(tree)
<1> DEFINE next  == Append(at, child)
           value == [params EXCEPT ![child.part] = <<rest[1]>>]
           bound == below[<<next, value>>]
<1>1. rest[1] \in STRING /\ <<rest[1]>> \in Seq(STRING) /\ <<>> \in Seq(STRING)
  OBVIOUS
<1>2. value \in Params(tree)
  BY <1>1, ParamsAre
<1>3. <<next, value>> \in States(tree) /\ <<next, params>> \in States(tree)
  BY <1>2 DEF States
<1>4. bound \in Results(tree) /\ below[<<next, params>>] \in Results(tree)
  BY <1>3
<1>5. [bound.params EXCEPT ![child.part] = <<>>] \in Params(tree)
  BY <1>1, <1>4, ParamsAre, ResultsAre
<1>6. [params EXCEPT ![child.part] = rest] \in Params(tree)
  BY ParamsAre
<1>7. child.kind \in {"static", "param", "wildcard"}
  BY DEF Segments
<1> HIDE DEF value, bound
<1>8. CASE child.kind = "static"
  <2>1. Try(at, child, rest, params, below)
          = IF rest[1] = child.part THEN below[<<next, params>>] ELSE Missed(params)
    BY <1>8 DEF Try
  <2> QED
    BY <1>4, <2>1, ResultsAre
<1>9. CASE child.kind = "param"
  <2>1. Try(at, child, rest, params, below)
          = IF ~MatchesConstraint(rest[1], child.constraint) THEN Missed(params)
            ELSE IF bound.node # <<>> THEN bound
            ELSE Missed([bound.params EXCEPT ![child.part] = <<>>])
    BY <1>9 DEF Try, bound, value
  <2> QED
    BY <1>4, <1>5, <2>1, ResultsAre
<1>10. CASE child.kind = "wildcard"
  <2>1. Try(at, child, rest, params, below) = Found(next, [params EXCEPT ![child.part] = rest])
    BY <1>10 DEF Try
  <2> QED
    BY <1>6, <2>1, ResultsAre
<1> QED
  BY <1>7, <1>8, <1>9, <1>10

\* What trying the first k of the children has come to.
LoopSteps(g, kind, at, children, rest, params, below) ==
  /\ g[0] = Missed(params)
  /\ \A k \in 1..Len(children) :
       g[k] = IF g[k - 1].node # <<>> \/ children[k].kind # kind THEN g[k - 1]
              ELSE Try(at, children[k], rest, g[k - 1].params, below)

\* What trying all of them comes to.
LoopComes(tree, kind, at, children, rest, params, below) ==
  \E g \in [0..Len(children) -> Results(tree)] :
    /\ LoopSteps(g, kind, at, children, rest, params, below)
    /\ Loop(kind, at, children, rest, params, below) = g[Len(children)]

LEMMA LoopIs ==
  ASSUME NEW tree, Grows(tree), NEW at \in DOMAIN tree, NEW kind,
         NEW rest \in Seq(STRING), rest # <<>>, NEW params \in Params(tree),
         NEW below \in [States(tree) -> Results(tree)],
         NEW children, children = tree[at].children
  PROVE  LoopComes(tree, kind, at, children, rest, params, below)
<1> DEFINE n == Len(children)
           V == Results(tree)
           Pass(k, r) == IF r.node # <<>> \/ children[k].kind # kind THEN r
                         ELSE Try(at, children[k], rest, r.params, below)
           F == [k \in 1..n |-> [r \in V |-> Pass(k, r)]]
           R(g) == g = [k \in 0..n |->
                          IF k = 0 THEN Missed(params)
                          ELSE IF g[k - 1].node # <<>> \/ children[k].kind # kind THEN g[k - 1]
                          ELSE Try(at, children[k], rest, g[k - 1].params, below)]
<1>1. children \in Seq(Segments) /\ n \in Nat /\ DOMAIN children = 1..n
  BY DEF Grows
<1>2. ASSUME NEW k \in 1..n, NEW r \in V PROVE Pass(k, r) \in V
  <2>1. children[k] \in Segments /\ Append(at, children[k]) \in DOMAIN tree
    BY <1>1 DEF Grows
  <2>2. r.params \in Params(tree)
    BY ResultsAre
  <2> HIDE DEF V
  <2>3. Try(at, children[k], rest, r.params, below) \in Results(tree)
    BY <2>1, <2>2, TryIs
  <2> QED
    BY <2>3 DEF V
<1>3. Missed(params) \in V
  BY ResultsAre
<1> HIDE DEF n, V
<1>4. \A k \in 1..n : \A r \in V : F[k][r] = Pass(k, r) /\ F[k][r] \in V
  BY <1>2
<1> HIDE DEF F
<1>5. PICK g \in [0..n -> V] : g[0] = Missed(params) /\ \A k \in 1..n : g[k] = F[k][g[k - 1]]
  <2> DEFINE none == Missed(params)
  <2>1. StaysIn(F, n, V)
    BY <1>4 DEF StaysIn
  <2>2. none \in V /\ n \in Nat
    BY <1>1, <1>3
  <2> HIDE DEF none
  <2>3. \E g \in [0..n -> V] : g[0] = none /\ Continues(g, F, n)
    BY <2>1, <2>2, ForwardRecursion
  <2> QED
    BY <2>3 DEF none, Continues
<1>6. \A k \in 1..n : g[k - 1] \in V /\ g[k] = Pass(k, g[k - 1])
  <2>1. \A k \in 1..n : k - 1 \in 0..n
    BY <1>1
  <2> QED
    BY <1>4, <1>5, <2>1
<1>7. R(g)
  <2>1. ASSUME NEW k \in 0..n
        PROVE  g[k] = IF k = 0 THEN Missed(params)
                      ELSE IF g[k - 1].node # <<>> \/ children[k].kind # kind THEN g[k - 1]
                      ELSE Try(at, children[k], rest, g[k - 1].params, below)
    <3>1. k # 0 => k \in 1..n
      BY <1>1
    <3> QED
      BY <1>5, <1>6, <3>1
  <2>2. g = [k \in 0..n |-> g[k]]
    BY <1>5
  <2> QED
    BY <2>1, <2>2
<1>8. R(CHOOSE h : R(h))
  <2> HIDE DEF R
  <2> QED
    BY <1>7
<1> DEFINE h == CHOOSE h : R(h)
<1>9. Loop(kind, at, children, rest, params, below) = h[n]
  BY Zenon DEF Loop, n
<1> HIDE DEF h
<1>10. R(h)
  BY <1>8 DEF h
<1>11. h[0] = Missed(params) /\ \A k \in 1..n : h[k] = Pass(k, h[k - 1])
  <2>1. 0 \in 0..n /\ \A k \in 1..n : k \in 0..n /\ k # 0
    BY <1>1
  <2>2. \A k \in 0..n : h[k] = IF k = 0 THEN Missed(params)
                               ELSE IF h[k - 1].node # <<>> \/ children[k].kind # kind THEN h[k - 1]
                               ELSE Try(at, children[k], rest, h[k - 1].params, below)
    BY <1>10
  <2> QED
    BY <2>1, <2>2
<1>12. h \in [0..n -> V]
  <2> DEFINE T == {k \in Nat : k <= n => h[k] \in V}
  <2>1. 0 \in T
    BY <1>3, <1>11
  <2>2. ASSUME NEW k \in T PROVE k + 1 \in T
    <3> SUFFICES ASSUME k + 1 <= n PROVE h[k + 1] \in V
      OBVIOUS
    <3>1. k + 1 \in 1..n /\ (k + 1) - 1 = k /\ h[k] \in V
      BY <1>1
    <3>2. h[k + 1] = Pass(k + 1, h[k])
      BY <1>11, <3>1
    <3> QED
      BY <1>2, <3>1, <3>2
  <2> HIDE DEF T
  <2>3. T = Nat
    BY <2>1, <2>2, SetInduction DEF T
  <2>4. \A k \in 0..n : h[k] \in V
    BY <1>1, <2>3 DEF T
  <2>5. h = [k \in 0..n |-> h[k]]
    BY <1>10
  <2> QED
    BY <2>4, <2>5
<1>13. LoopSteps(h, kind, at, children, rest, params, below)
  BY <1>11 DEF LoopSteps, n
<1> QED
  BY <1>9, <1>12, <1>13 DEF n, V, LoopComes

LEMMA BranchIs ==
  ASSUME NEW tree, Grows(tree), NEW at \in DOMAIN tree,
         NEW rest \in Seq(STRING), rest # <<>>, NEW params \in Params(tree),
         NEW below \in [States(tree) -> Results(tree)]
  PROVE  Branch(at, tree[at].children, rest, params, below) \in Results(tree)
<1> DEFINE children == tree[at].children
           static == Loop("static", at, children, rest, params, below)
           param  == IF static.node # <<>> THEN static
                     ELSE Loop("param", at, children, rest, static.params, below)
<1>0. Len(children) \in Nat /\ children = tree[at].children
  BY DEF Grows
<1> HIDE DEF children
<1>1. ASSUME NEW kind, NEW q \in Params(tree)
      PROVE  Loop(kind, at, children, rest, q, below) \in Results(tree)
  <2>1. LoopComes(tree, kind, at, children, rest, q, below)
    BY <1>0, LoopIs
  <2> QED
    BY <1>0, <2>1 DEF LoopComes
<1>2. static \in Results(tree) /\ static.params \in Params(tree)
  BY <1>1, ResultsAre
<1> HIDE DEF static
<1>3. param \in Results(tree) /\ param.params \in Params(tree)
  BY <1>1, <1>2, ResultsAre
<1>4. Branch(at, children, rest, params, below)
        = IF param.node # <<>> THEN param
          ELSE Loop("wildcard", at, children, rest, param.params, below)
  BY DEF Branch, static
<1> HIDE DEF param
<1> QED
  BY <1>1, <1>3, <1>4 DEF children

\* What is found for a path from its i-th part on, if "below" says what is found
\* from the part after it on.
Level(tree, path, i, s, below) ==
  IF i <= Len(path)
  THEN Branch(s[1], tree[s[1]].children, SubSeq(path, i, Len(path)), s[2], below)
  ELSE IF tree[s[1]].handlers = None THEN Missed(s[2]) ELSE Found(s[1], s[2])

LEMMA RestIs ==
  ASSUME NEW path \in Seq(STRING), NEW i \in 1..Len(path)
  PROVE  /\ SubSeq(path, i, Len(path)) \in Seq(STRING) /\ SubSeq(path, i, Len(path)) # <<>>
         /\ SubSeq(path, i, Len(path))[1] = path[i]
<1> DEFINE s == SubSeq(path, i, Len(path))
           n == Len(path)
<1>1. n \in Nat /\ i \in Int /\ n \in Int /\ \A j \in i..n : path[j] \in STRING
  OBVIOUS
<1>2. /\ s \in Seq(STRING) /\ Len(s) = IF i <= n THEN n - i + 1 ELSE 0
      /\ \A j \in 1..(n - i + 1) : s[j] = path[i + j - 1]
  BY <1>1, SubSeqProperties
<1> HIDE DEF s
<1>3. 1 \in 1..(n - i + 1) /\ i + 1 - 1 = i /\ Len(s) # 0
  BY <1>1, <1>2
<1>4. s[1] = path[i] /\ s # <<>>
  BY <1>2, <1>3
<1> QED
  BY <1>2, <1>4 DEF s

LEMMA LevelIs ==
  ASSUME NEW tree, Grows(tree), NEW path \in Seq(STRING), NEW i \in 1..(Len(path) + 1),
         NEW s \in States(tree), NEW below, i <= Len(path) => below \in [States(tree) -> Results(tree)]
  PROVE  Level(tree, path, i, s, below) \in Results(tree)
<1>1. s[1] \in DOMAIN tree /\ s[2] \in Params(tree)
  BY DEF States
<1>2. CASE i <= Len(path)
  <2>1. i \in 1..Len(path)
    BY <1>2
  <2>2. Branch(s[1], tree[s[1]].children, SubSeq(path, i, Len(path)), s[2], below) \in Results(tree)
    BY <1>1, <1>2, <2>1, RestIs, BranchIs
  <2> QED
    BY <1>2, <2>2 DEF Level
<1>3. CASE ~(i <= Len(path))
  BY <1>1, <1>3, ResultsAre DEF Level
<1> QED
  BY <1>2, <1>3

\* Each level of a search is found from the one below it.
SearchSteps(g, tree, path) ==
  \A i \in 1..(Len(path) + 1) : \A s \in States(tree) :
    g[i][s] = Level(tree, path, i, s, g[i + 1])

LEMMA SearchIs ==
  ASSUME NEW tree, Grows(tree), NEW path \in Seq(STRING)
  PROVE  \E g \in [1..(Len(path) + 1) -> [States(tree) -> Results(tree)]] :
           /\ SearchSteps(g, tree, path)
           /\ Search(tree, path) = g[1][<< <<>>, [name \in Names(tree) |-> <<>>] >>]
<1> DEFINE n == Len(path) + 1
           V == [States(tree) -> Results(tree)]
           L(i, s, below) == Level(tree, path, i, s, below)
           F == [i \in 1..n |-> [g \in Maps(n, V) |-> [s \in States(tree) |-> L(i, s, g[i + 1])]]]
           Q(g) == g = [i \in 1..n |-> [s \in States(tree) |-> L(i, s, g[i + 1])]]
           R(g) == g = [i \in 1..n |->
             [s \in (DOMAIN tree) \X Params(tree) |->
               IF i <= Len(path)
               THEN Branch(s[1], tree[s[1]].children, SubSeq(path, i, Len(path)), s[2], g[i + 1])
               ELSE IF tree[s[1]].handlers = None THEN Missed(s[2]) ELSE Found(s[1], s[2])]]
           search == CHOOSE g : R(g)
<1>0. Len(path) \in Nat /\ n \in Nat /\ n = Len(path) + 1
  OBVIOUS
<1>1. ASSUME NEW i \in 1..n, NEW s \in States(tree), NEW below, i < n => below \in V
      PROVE  L(i, s, below) \in Results(tree)
  <2>1. i \in 1..(Len(path) + 1) /\ (i <= Len(path) => i < n)
    BY <1>0
  <2> QED
    BY <1>1, <2>1, LevelIs
<1>2. ASSUME NEW i \in 1..n, NEW s \in States(tree), NEW b, NEW c, i < n => b = c
      PROVE  L(i, s, b) = L(i, s, c)
  <2>1. i <= Len(path) => i < n
    BY <1>0
  <2> QED
    BY <1>2, <2>1 DEF Level
<1>a. \A g : R(g) <=> Q(g)
  BY DEF Level, States
<1>b. Search(tree, path) = search[1][<< <<>>, [name \in Names(tree) |-> <<>>] >>]
  BY Zenon DEF Search
<1> HIDE DEF n, L, R
<1>3. V # {}
  <2>1. [s \in States(tree) |-> Missed(s[2])] \in V
    <3>1. \A s \in States(tree) : Missed(s[2]) \in Results(tree)
      BY ResultsAre DEF States
    <3> QED
      BY <3>1
  <2> QED
    BY <2>1
<1>4. \A i \in 1..n : \A g \in Maps(n, V) : F[i][g] = [s \in States(tree) |-> L(i, s, g[i + 1])]
  OBVIOUS
<1>5. \A i \in 1..n : \A g \in Maps(n, V) : i < n => g[i + 1] \in V
  BY <1>0 DEF Maps
<1> HIDE DEF F
<1>6. FindsIn(F, n, V)
  <2>1. ASSUME NEW i \in 1..n, NEW g \in Maps(n, V) PROVE F[i][g] \in V
    <3>1. \A s \in States(tree) : L(i, s, g[i + 1]) \in Results(tree)
      BY <1>1, <1>5
    <3>2. [s \in States(tree) |-> L(i, s, g[i + 1])] \in V
      BY <3>1
    <3> QED
      BY <1>4, <3>2, Zenon
  <2> QED
    BY <2>1 DEF FindsIn
<1>7. FromLater(F, n, V)
  <2>1. ASSUME NEW i \in 1..n, NEW g \in Maps(n, V), NEW h \in Maps(n, V),
               \A j \in (i + 1)..n : g[j] = h[j]
        PROVE  F[i][g] = F[i][h]
    <3>1. i < n => i + 1 \in (i + 1)..n
      BY <1>0
    <3>2. \A s \in States(tree) : L(i, s, g[i + 1]) = L(i, s, h[i + 1])
      BY <1>2, <2>1, <3>1
    <3>3. [s \in States(tree) |-> L(i, s, g[i + 1])] = [s \in States(tree) |-> L(i, s, h[i + 1])]
      BY <3>2
    <3>4. F[i][g] = [s \in States(tree) |-> L(i, s, g[i + 1])]
      BY <1>4
    <3>5. F[i][h] = [s \in States(tree) |-> L(i, s, h[i + 1])]
      BY <1>4
    <3> QED
      BY <3>3, <3>4, <3>5, Zenon
  <2> QED
    BY <2>1 DEF FromLater
<1> HIDE DEF V
<1>8. PICK g \in Maps(n, V) : Settled(F, n, g)
  BY <1>0, <1>3, <1>6, <1>7, BackwardRecursion
<1>9. Q(g)
  <2>1. \A i \in 1..n : g[i] = [s \in States(tree) |-> L(i, s, g[i + 1])]
    BY <1>4, <1>8 DEF Settled
  <2>2. g = [i \in 1..n |-> g[i]]
    BY DEF Maps
  <2> QED
    BY <2>1, <2>2
<1>10. R(search)
  BY <1>9, <1>a
<1>11. Q(search)
  BY <1>10, <1>a
<1> HIDE DEF search
<1>12. \A i \in 1..n : search[i] = [s \in States(tree) |-> L(i, s, search[i + 1])]
  BY <1>11
<1>13. search = [i \in 1..n |-> search[i]]
  BY <1>11
<1>14. search \in [1..n -> V]
  <2> DEFINE T == {i \in 1..n : search[i] \in V}
  <2>1. ASSUME NEW i \in 1..n, \A j \in (i + 1)..n : j \in T PROVE i \in T
    <3>1. i < n => i + 1 \in (i + 1)..n
      BY <1>0
    <3>2. i < n => search[i + 1] \in V
      BY <2>1, <3>1
    <3>3. \A s \in States(tree) : L(i, s, search[i + 1]) \in Results(tree)
      BY <1>1, <3>2
    <3> QED
      BY <1>12, <3>3 DEF V
  <2> HIDE DEF T
  <2>2. T \in SUBSET (1..n)
    BY DEF T
  <2>3. T = 1..n
    BY <1>0, <2>1, <2>2, BackwardInduction
  <2> QED
    BY <1>13, <2>3 DEF T
<1>15. SearchSteps(search, tree, path)
  BY <1>12 DEF SearchSteps, n, L
<1> QED
  BY <1>14, <1>15, <1>b DEF n, V

------------------------------------------------------------------------------
(* What a path gives the parameters of a pattern                           *)

\* Where a pattern binds a name, and the value a path has there.
BindsAt(name, at) == {i \in DOMAIN at : at[i].kind # "static" /\ at[i].part = name}

ValueOf(name, at, path) ==
  IF BindsAt(name, at) = {} THEN <<>>
  ELSE LET i == CHOOSE i \in BindsAt(name, at) : TRUE
       IN  IF at[i].kind = "param" THEN <<path[i]>> ELSE SubSeq(path, i, Len(path))

Bindings(tree, at, path) == [name \in Names(tree) |-> ValueOf(name, at, path)]

LEMMA BindingsType ==
  ASSUME NEW tree, NEW at \in Seq(Segments), NEW path \in Seq(STRING), Len(at) <= Len(path)
  PROVE  Bindings(tree, at, path) \in Params(tree)
<1> SUFFICES ASSUME NEW name PROVE ValueOf(name, at, path) \in Seq(STRING)
  BY DEF Bindings, Params
<1>1. CASE BindsAt(name, at) = {}
  BY <1>1 DEF ValueOf
<1>2. CASE BindsAt(name, at) # {}
  <2> DEFINE i == CHOOSE i \in BindsAt(name, at) : TRUE
  <2>1. i \in BindsAt(name, at)
    BY <1>2
  <2>2. ValueOf(name, at, path) = IF at[i].kind = "param" THEN <<path[i]>> ELSE SubSeq(path, i, Len(path))
    BY <1>2 DEF ValueOf
  <2> HIDE DEF i
  <2>3. i \in 1..Len(path)
    BY <2>1 DEF BindsAt
  <2>4. path[i] \in STRING
    BY <2>3
  <2>5. <<path[i]>> \in Seq(STRING)
    BY <2>4
  <2> QED
    BY <2>2, <2>3, <2>5, RestIs
<1> QED
  BY <1>1, <1>2

\* One segment more binds its own name, which had none, or nothing.
LEMMA BindsNext ==
  ASSUME NEW at \in Seq(Segments), NEW c \in Segments, WellFormed(Append(at, c)), NEW name
  PROVE  /\ c.kind = "static" \/ name # c.part => BindsAt(name, Append(at, c)) = BindsAt(name, at)
         /\ c.kind # "static" => BindsAt(c.part, at) = {} /\ BindsAt(c.part, Append(at, c)) = {Len(at) + 1}
<1> DEFINE b == Append(at, c)
           n == Len(at)
<1>1. /\ n \in Nat /\ DOMAIN at = 1..n /\ DOMAIN b = 1..(n + 1)
      /\ \A i \in 1..n : b[i] = at[i]
      /\ b[n + 1] = c
  BY StartsNext
<1>2. WellFormed(b)
  OBVIOUS
<1> HIDE DEF b, n
<1>3. \A i \in 1..(n + 1) : i = n + 1 \/ i \in 1..n
  BY <1>1
<1>4. \A i \in 1..n : i \in 1..(n + 1) /\ i # n + 1
  BY <1>1
<1>5. n + 1 \in 1..(n + 1)
  BY <1>1
<1>6. c.kind = "static" \/ name # c.part => BindsAt(name, b) = BindsAt(name, at)
  BY <1>1, <1>3, <1>4 DEF BindsAt
<1>7. ASSUME c.kind # "static" PROVE BindsAt(c.part, at) = {} /\ BindsAt(c.part, b) = {n + 1}
  <2>1. ASSUME NEW i \in BindsAt(c.part, at) PROVE FALSE
    <3>1. i \in 1..n /\ at[i].kind # "static" /\ at[i].part = c.part
      BY <1>1, <2>1 DEF BindsAt
    <3>2. b[i] = at[i] /\ i \in DOMAIN b /\ n + 1 \in DOMAIN b /\ i # n + 1 /\ b[n + 1] = c
      BY <1>1, <1>4, <1>5, <3>1
    <3>3. "static" \notin {b[i].kind, b[n + 1].kind}
      BY <1>7, <3>1, <3>2
    <3>4. b[i].part # b[n + 1].part
      BY <1>2, <3>2, <3>3 DEF WellFormed
    <3> QED
      BY <3>1, <3>2, <3>4
  <2>2. n + 1 \in BindsAt(c.part, b)
    BY <1>1, <1>5, <1>7 DEF BindsAt
  <2>3. ASSUME NEW i \in BindsAt(c.part, b) PROVE i = n + 1
    <3>1. i \in 1..n => i \in BindsAt(c.part, at)
      BY <1>1, <2>3 DEF BindsAt
    <3> QED
      BY <1>1, <1>3, <2>1, <2>3, <3>1 DEF BindsAt
  <2> QED
    BY <2>1, <2>2, <2>3
<1> QED
  BY <1>6, <1>7 DEF b, n

LEMMA ValueNext ==
  ASSUME NEW at \in Seq(Segments), NEW c \in Segments, WellFormed(Append(at, c)), NEW name,
         NEW path
  PROVE  /\ c.kind = "static" \/ name # c.part =>
              ValueOf(name, Append(at, c), path) = ValueOf(name, at, path)
         /\ c.kind # "static" => ValueOf(c.part, at, path) = <<>>
         /\ c.kind = "param" => ValueOf(c.part, Append(at, c), path) = <<path[Len(at) + 1]>>
         /\ c.kind = "wildcard" =>
              ValueOf(c.part, Append(at, c), path) = SubSeq(path, Len(at) + 1, Len(path))
<1> DEFINE b == Append(at, c)
           n == Len(at)
<1>1. /\ n \in Nat /\ DOMAIN at = 1..n /\ DOMAIN b = 1..(n + 1)
      /\ \A i \in 1..n : b[i] = at[i]
      /\ b[n + 1] = c
  BY StartsNext
<1>2. /\ c.kind = "static" \/ name # c.part => BindsAt(name, b) = BindsAt(name, at)
      /\ c.kind # "static" => BindsAt(c.part, at) = {} /\ BindsAt(c.part, b) = {n + 1}
  BY BindsNext
<1> HIDE DEF b, n
<1>3. ASSUME c.kind = "static" \/ name # c.part
      PROVE  ValueOf(name, b, path) = ValueOf(name, at, path)
  <2>1. BindsAt(name, b) = BindsAt(name, at)
    BY <1>2, <1>3
  <2> DEFINE i == CHOOSE i \in BindsAt(name, at) : TRUE
  <2>2. BindsAt(name, at) # {} => i \in 1..n
    BY <1>1 DEF BindsAt
  <2>3. ValueOf(name, at, path)
          = IF BindsAt(name, at) = {} THEN <<>>
            ELSE IF at[i].kind = "param" THEN <<path[i]>> ELSE SubSeq(path, i, Len(path))
    BY DEF ValueOf
  <2>4. ValueOf(name, b, path)
          = IF BindsAt(name, at) = {} THEN <<>>
            ELSE IF b[i].kind = "param" THEN <<path[i]>> ELSE SubSeq(path, i, Len(path))
    BY <2>1 DEF ValueOf
  <2> HIDE DEF i
  <2> QED
    BY <1>1, <2>2, <2>3, <2>4
<1>4. c.kind # "static" => ValueOf(c.part, at, path) = <<>>
  BY <1>2 DEF ValueOf
<1>5. ASSUME c.kind # "static"
      PROVE  ValueOf(c.part, b, path)
               = IF c.kind = "param" THEN <<path[n + 1]>> ELSE SubSeq(path, n + 1, Len(path))
  <2>1. BindsAt(c.part, b) = {n + 1}
    BY <1>2, <1>5
  <2>2. (CHOOSE i \in BindsAt(c.part, b) : TRUE) = n + 1
    BY <2>1
  <2> QED
    BY <1>1, <2>1, <2>2 DEF ValueOf
<1>6. c.kind = "param" => ValueOf(c.part, b, path) = <<path[n + 1]>>
  BY <1>5
<1>7. c.kind = "wildcard" => ValueOf(c.part, b, path) = SubSeq(path, n + 1, Len(path))
  BY <1>5
<1> QED
  BY <1>3, <1>4, <1>6, <1>7 DEF b, n

\* What a segment for the i-th part of a path makes of the bindings; so a
\* parameter that is bound and then forgotten leaves what there was.
Rebinds(old, new, c, path, i) ==
  /\ c.kind = "static" => new = old
  /\ c.kind = "param" => /\ new = [old EXCEPT ![c.part] = <<path[i]>>]
                         /\ old = [new EXCEPT ![c.part] = <<>>]
  /\ c.kind = "wildcard" => new = [old EXCEPT ![c.part] = SubSeq(path, i, Len(path))]

LEMMA BindingsNext ==
  ASSUME NEW tree, NEW at \in Seq(Segments), NEW c \in Segments, WellFormed(Append(at, c)), NEW path,
         c.part \in Names(tree)
  PROVE  Rebinds(Bindings(tree, at, path), Bindings(tree, Append(at, c), path), c, path, Len(at) + 1)
<1> DEFINE b == Append(at, c)
           rest == SubSeq(path, Len(at) + 1, Len(path))
           part == <<path[Len(at) + 1]>>
           old == Bindings(tree, at, path)
           new == Bindings(tree, b, path)
<1>1. /\ \A name : c.kind = "static" \/ name # c.part => ValueOf(name, b, path) = ValueOf(name, at, path)
      /\ c.kind # "static" => ValueOf(c.part, at, path) = <<>>
      /\ c.kind = "param" => ValueOf(c.part, b, path) = part
      /\ c.kind = "wildcard" => ValueOf(c.part, b, path) = rest
  BY ValueNext
<1>2. /\ old = [name \in Names(tree) |-> ValueOf(name, at, path)]
      /\ new = [name \in Names(tree) |-> ValueOf(name, b, path)]
  BY DEF Bindings
<1> HIDE DEF b, rest, part, old, new
<1>3. c.kind = "static" => new = old
  BY <1>1, <1>2
<1>4. c.kind = "param" => new = [old EXCEPT ![c.part] = part]
  BY <1>1, <1>2
<1>5. c.kind = "param" => old = [new EXCEPT ![c.part] = <<>>]
  BY <1>1, <1>2
<1>6. c.kind = "wildcard" => new = [old EXCEPT ![c.part] = rest]
  BY <1>1, <1>2
<1> QED
  BY <1>3, <1>4, <1>5, <1>6 DEF b, rest, part, old, new, Rebinds

------------------------------------------------------------------------------
(* A search finds the first of what there is                               *)

\* A tree whose nodes lead to well-formed patterns: the way to each of them is
\* there, each has as children the segments that lead on from it, and a
\* wildcard is the end of a pattern.
GoodTree(tree) ==
  /\ Grows(tree)
  /\ \A at \in DOMAIN tree : WellFormed(at) /\ DOMAIN tree[at] = {"children", "handlers"}
  /\ \A p \in DOMAIN tree : \A at \in Seq(Segments) : Starts(at, p) => at \in DOMAIN tree
  /\ \A at, p \in DOMAIN tree : Starts(at, p) /\ Len(at) < Len(p) =>
       \E k \in DOMAIN tree[at].children : tree[at].children[k] = p[Len(at) + 1]
  /\ \A at \in DOMAIN tree : \A i \in DOMAIN at :
       at[i].kind = "wildcard" => tree[at].handlers # None

\* Segments without a wildcard that stand for the first parts of a path.
Fits(at, path) ==
  /\ Len(at) <= Len(path)
  /\ \A i \in DOMAIN at :
       /\ at[i].kind # "wildcard"
       /\ at[i].kind = "static" => path[i] = at[i].part
       /\ at[i].kind = "param" => MatchesConstraint(path[i], at[i].constraint)

\* The patterns for a path that begin so.
Below(tree, at, path) ==
  {p \in DOMAIN tree : Starts(at, p) /\ tree[p].handlers # None /\ Covers(p, path)}

\* A search comes to p before it comes to q.
Earlier(tree, p, q) ==
  \E at \in DOMAIN tree : \E k, l \in DOMAIN tree[at].children :
    LET c == tree[at].children[k]
        d == tree[at].children[l]
    IN  /\ Starts(Append(at, c), p) /\ Starts(Append(at, d), q) /\ k # l
        /\ Weight[c.kind] < Weight[d.kind] \/ (Weight[c.kind] = Weight[d.kind] /\ k < l)

Leads(tree, p, among) == \A q \in among : q # p => Earlier(tree, p, q)

\* Either there is nothing below and the parameters are as given, or the first
\* of what there is was found, and what the path gives its parameters.
Outcome(tree, path, r, at, params) ==
  \/ r.node = <<>> /\ r.params = params /\ Below(tree, at, path) = {}
  \/ \E p \in Below(tree, at, path) :
       /\ r.node = <<p>> /\ r.params = Bindings(tree, p, path)
       /\ Leads(tree, p, Below(tree, at, path))

LEMMA Weights ==
  Weight["static"] = 1 /\ Weight["param"] = 2 /\ Weight["wildcard"] = 3
  BY DEF Weight

\* The kinds of segments.
Kinds == {"static", "param", "wildcard"}

LEMMA OwnWeight ==
  ASSUME NEW k \in Kinds, NEW l \in Kinds
  PROVE  Weight[k] \in Nat /\ (Weight[k] = Weight[l] => k = l)
<1>1. CASE k = "static"
  BY <1>1, Weights DEF Kinds
<1>2. CASE k = "param"
  BY <1>2, Weights DEF Kinds
<1>3. CASE k = "wildcard"
  BY <1>3, Weights DEF Kinds
<1> QED
  BY <1>1, <1>2, <1>3 DEF Kinds

LEMMA CoversIs ==
  ASSUME NEW p \in Seq(Segments), NEW path \in Seq(STRING), Covers(p, path)
  PROVE  /\ Len(p) <= Len(path)
         /\ Len(p) = Len(path) \/ \E i \in DOMAIN p : p[i].kind = "wildcard"
         /\ \A i \in DOMAIN p :
              /\ p[i].kind = "static" => path[i] = p[i].part
              /\ p[i].kind = "param" => MatchesConstraint(path[i], p[i].constraint)
<1> DEFINE wild == {i \in DOMAIN p : p[i].kind = "wildcard"}
<1>1. IF wild = {} THEN Len(p) = Len(path) ELSE Len(p) <= Len(path)
  BY DEF Covers
<1>2. \A i \in DOMAIN p :
        /\ p[i].kind = "static" => path[i] = p[i].part
        /\ p[i].kind = "param" => MatchesConstraint(path[i], p[i].constraint)
  BY DEF Covers
<1> QED
  BY <1>1, <1>2

\* What a node leads to by itself.
LEMMA FitsCovers ==
  ASSUME NEW at \in Seq(Segments), NEW path \in Seq(STRING), Fits(at, path), Len(at) = Len(path)
  PROVE  Covers(at, path)
<1>1. \A i \in DOMAIN at : at[i] \in Segments /\ at[i].kind \in {"static", "param"}
  <2> SUFFICES ASSUME NEW i \in DOMAIN at
               PROVE  at[i] \in Segments /\ at[i].kind \in {"static", "param"}
    OBVIOUS
  <2>1. at[i] \in Segments
    OBVIOUS
  <2> QED
    BY <2>1 DEF Fits, Segments
<1>2. \A i \in DOMAIN at : at[i].kind # "wildcard"
  BY <1>1
<1>3. \A i \in DOMAIN at :
        /\ at[i].kind = "static" => path[i] = at[i].part
        /\ at[i].kind = "param" => MatchesConstraint(path[i], at[i].constraint)
  BY DEF Fits
<1> QED
  BY <1>1, <1>2, <1>3 DEF Covers

LEMMA FitsNext ==
  ASSUME NEW at \in Seq(Segments), NEW c \in Segments, NEW path \in Seq(STRING),
         Fits(at, path), Len(at) < Len(path), c.kind # "wildcard",
         c.kind = "static" => path[Len(at) + 1] = c.part,
         c.kind = "param" => MatchesConstraint(path[Len(at) + 1], c.constraint)
  PROVE  Fits(Append(at, c), path)
<1> DEFINE b == Append(at, c)
           n == Len(at)
<1>1. /\ n \in Nat /\ DOMAIN at = 1..n /\ DOMAIN b = 1..(n + 1) /\ Len(b) = n + 1
      /\ \A i \in 1..n : b[i] = at[i]
      /\ b[n + 1] = c /\ Len(path) \in Nat
  BY StartsNext
<1> HIDE DEF b
<1>2. \A i \in DOMAIN b : i = n + 1 \/ i \in DOMAIN at
  BY <1>1
<1>3. Len(b) <= Len(path)
  BY <1>1
<1>4. \A i \in DOMAIN b :
        /\ b[i].kind # "wildcard"
        /\ b[i].kind = "static" => path[i] = b[i].part
        /\ b[i].kind = "param" => MatchesConstraint(path[i], b[i].constraint)
  BY <1>1, <1>2 DEF Fits
<1> QED
  BY <1>3, <1>4 DEF Fits, b

\* What is below a child is for the path only if the child is.
LEMMA BelowNext ==
  ASSUME NEW tree, GoodTree(tree), NEW at \in DOMAIN tree, NEW c \in Segments,
         NEW path \in Seq(STRING), NEW p \in Below(tree, Append(at, c), path)
  PROVE  /\ p \in Below(tree, at, path) /\ p \in Seq(Segments)
         /\ Len(at) < Len(p) /\ p[Len(at) + 1] = c
         /\ c.kind = "static" => path[Len(at) + 1] = c.part
         /\ c.kind = "param" => MatchesConstraint(path[Len(at) + 1], c.constraint)
<1>1. p \in DOMAIN tree /\ Starts(Append(at, c), p) /\ tree[p].handlers # None /\ Covers(p, path)
  BY DEF Below
<1>2. at \in Seq(Segments) /\ p \in Seq(Segments)
  BY <1>1 DEF GoodTree, Grows
<1>3. Starts(at, p) /\ Len(at) < Len(p) /\ p[Len(at) + 1] = c
  BY <1>1, <1>2, StartsNext
<1>4. Len(at) + 1 \in DOMAIN p
  BY <1>2, <1>3
<1> QED
  BY <1>1, <1>2, <1>3, <1>4, CoversIs DEF Below

\* A wildcard is for the whole rest of a path, and alone.
LEMMA WildcardIs ==
  ASSUME NEW tree, GoodTree(tree), NEW at \in DOMAIN tree, NEW c \in Segments,
         Append(at, c) \in DOMAIN tree, c.kind = "wildcard",
         NEW path \in Seq(STRING), Fits(at, path), Len(at) < Len(path)
  PROVE  Below(tree, Append(at, c), path) = {Append(at, c)}
<1> DEFINE b == Append(at, c)
           n == Len(at)
<1>1. at \in Seq(Segments)
  BY DEF GoodTree, Grows
<1>2. /\ n \in Nat /\ DOMAIN at = 1..n /\ DOMAIN b = 1..(n + 1) /\ Len(b) = n + 1
      /\ b \in Seq(Segments)
      /\ \A i \in 1..n : b[i] = at[i]
      /\ b[n + 1] = c /\ Len(path) \in Nat
  BY <1>1, StartsNext
<1>3. b \in DOMAIN tree
  OBVIOUS
<1> HIDE DEF b
<1>4. Covers(b, path)
  <2>1. n + 1 \in DOMAIN b /\ b[n + 1].kind = "wildcard"
    BY <1>2
  <2>2. Len(b) <= Len(path)
    BY <1>2
  <2>3. ASSUME NEW i \in DOMAIN b
        PROVE  CASE b[i].kind = "static" -> path[i] = b[i].part
                 [] b[i].kind = "param" -> MatchesConstraint(path[i], b[i].constraint)
                 [] b[i].kind = "wildcard" -> TRUE
    <3>1. CASE i = n + 1
      BY <1>2, <3>1
    <3>2. CASE i # n + 1
      <4>1. i \in DOMAIN at /\ b[i] = at[i] /\ at[i] \in Segments
        BY <1>1, <1>2, <3>2
      <4>2. at[i].kind \in {"static", "param"}
        BY <4>1 DEF Fits, Segments
      <4> QED
        BY <4>1, <4>2 DEF Fits
    <3> QED
      BY <3>1, <3>2
  <2> QED
    BY <2>1, <2>2, <2>3 DEF Covers
<1>5. tree[b].handlers # None
  <2>1. n + 1 \in DOMAIN b /\ b[n + 1].kind = "wildcard"
    BY <1>2
  <2> QED
    BY <1>3, <2>1 DEF GoodTree
<1>6. b \in Below(tree, b, path)
  BY <1>2, <1>3, <1>4, <1>5 DEF Below, Starts
<1>7. ASSUME NEW p \in Below(tree, b, path) PROVE p = b
  <2>1. p \in DOMAIN tree /\ Starts(b, p)
    BY DEF Below
  <2>2. p \in Seq(Segments) /\ WellFormed(p)
    BY <2>1 DEF GoodTree, Grows
  <2>3. n + 1 \in DOMAIN p /\ p[n + 1] = c
    <3>1. n + 1 \in 1..Len(b) /\ n + 1 <= Len(p)
      BY <1>2, <2>1, <2>2 DEF Starts
    <3> QED
      BY <1>2, <2>1, <2>2, <3>1 DEF Starts
  <2>4. Len(p) = n + 1
    BY <2>2, <2>3 DEF WellFormed
  <2> QED
    BY <1>2, <2>1, <2>2, <2>4, StartsIs
<1> QED
  BY <1>6, <1>7 DEF b

LEMMA NameIs ==
  ASSUME NEW tree, GoodTree(tree), NEW at \in DOMAIN tree, NEW c \in Segments,
         Append(at, c) \in DOMAIN tree
  PROVE  c.part \in Names(tree)
<1> DEFINE b == Append(at, c)
<1>1. at \in Seq(Segments)
  BY DEF GoodTree, Grows
<1>2. Len(at) + 1 \in DOMAIN b /\ b[Len(at) + 1] = c
  BY <1>1, StartsNext
<1>3. b \in DOMAIN tree
  OBVIOUS
<1> HIDE DEF b
<1>4. c \in Range(b)
  BY <1>2 DEF Range
<1> QED
  BY <1>3, <1>4 DEF Names

LEMMA TryRight ==
  ASSUME NEW tree, GoodTree(tree), NEW at \in DOMAIN tree, NEW c \in Segments,
         Append(at, c) \in DOMAIN tree,
         NEW path \in Seq(STRING), Fits(at, path), Len(at) < Len(path),
         NEW below,
         Fits(Append(at, c), path) =>
           Outcome(tree, path, below[<<Append(at, c), Bindings(tree, Append(at, c), path)>>],
                   Append(at, c), Bindings(tree, Append(at, c), path))
  PROVE  Outcome(tree, path,
                 Try(at, c, SubSeq(path, Len(at) + 1, Len(path)), Bindings(tree, at, path), below),
                 Append(at, c), Bindings(tree, at, path))
<1> DEFINE next == Append(at, c)
           rest == SubSeq(path, Len(at) + 1, Len(path))
           old  == Bindings(tree, at, path)
           new  == Bindings(tree, next, path)
           r    == Try(at, c, rest, old, below)
<1> SUFFICES Outcome(tree, path, r, next, old)
  OBVIOUS
<1>1. at \in Seq(Segments) /\ WellFormed(next) /\ c.part \in Names(tree) /\ Len(at) \in Nat
  <2>1. c.part \in Names(tree)
    BY NameIs
  <2>2. next \in DOMAIN tree
    OBVIOUS
  <2> HIDE DEF next
  <2>3. WellFormed(next)
    BY <2>2 DEF GoodTree
  <2>4. at \in Seq(Segments)
    BY DEF GoodTree, Grows
  <2> QED
    BY <2>1, <2>3, <2>4
<1>2. /\ c.kind = "static" => new = old
      /\ c.kind = "param" => /\ new = [old EXCEPT ![c.part] = <<path[Len(at) + 1]>>]
                             /\ old = [new EXCEPT ![c.part] = <<>>]
      /\ c.kind = "wildcard" => new = [old EXCEPT ![c.part] = rest]
  <2>1. Rebinds(old, new, c, path, Len(at) + 1)
    BY <1>1, BindingsNext
  <2> QED
    BY <2>1 DEF Rebinds
<1>3. Len(at) + 1 \in 1..Len(path)
  BY <1>1
<1>4. rest[1] = path[Len(at) + 1]
  BY <1>3, RestIs
<1>5. c.kind \in {"static", "param", "wildcard"}
  BY DEF Segments
<1>6. Fits(next, path) => Outcome(tree, path, below[<<next, new>>], next, new)
  OBVIOUS
<1>7. ASSUME Below(tree, next, path) = {}, r = Missed(old) PROVE Outcome(tree, path, r, next, old)
  BY <1>7 DEF Outcome, Missed
<1>8. CASE c.kind = "static"
  <2>1. r = IF rest[1] = c.part THEN below[<<next, old>>] ELSE Missed(old)
    BY <1>8 DEF Try
  <2>2. CASE rest[1] = c.part
    <3>1. Fits(next, path)
      BY <1>1, <1>4, <1>8, <2>2, FitsNext
    <3> HIDE DEF next, rest, old, new, r
    <3> QED
      BY <1>2, <1>6, <1>8, <2>1, <2>2, <3>1
  <2>3. CASE rest[1] # c.part
    <3>1. Below(tree, next, path) = {}
      BY <1>4, <1>8, <2>3, BelowNext
    <3> HIDE DEF next, rest, old, new, r
    <3> QED
      BY <1>7, <2>1, <2>3, <3>1
  <2> QED
    BY <2>2, <2>3
<1>9. CASE c.kind = "param"
  <2> DEFINE bound == below[<<next, new>>]
  <2>0. /\ [old EXCEPT ![c.part] = <<rest[1]>>] = new
        /\ [new EXCEPT ![c.part] = <<>>] = old
    BY <1>2, <1>4, <1>9
  <2>1. r = IF ~MatchesConstraint(rest[1], c.constraint) THEN Missed(old)
            ELSE IF bound.node # <<>> THEN bound
            ELSE Missed([bound.params EXCEPT ![c.part] = <<>>])
    <3> HIDE DEF old, rest, new
    <3> QED
      BY <1>9, <2>0 DEF Try
  <2>2. CASE ~MatchesConstraint(rest[1], c.constraint)
    <3>1. Below(tree, next, path) = {}
      BY <1>4, <1>9, <2>2, BelowNext
    <3> HIDE DEF next, rest, old, new, r, bound
    <3> QED
      BY <1>7, <2>1, <2>2, <3>1
  <2>3. CASE MatchesConstraint(rest[1], c.constraint)
    <3>1. Fits(next, path)
      BY <1>1, <1>4, <1>9, <2>3, FitsNext
    <3>2. Outcome(tree, path, bound, next, new)
      BY <1>6, <3>1
    <3> HIDE DEF next, rest, old, new, r, bound
    <3>3. CASE bound.node = <<>>
      <4>1. bound.params = new /\ Below(tree, next, path) = {}
        BY <3>2, <3>3 DEF Outcome
      <4>2. r = Missed(old)
        BY <2>0, <2>1, <2>3, <3>3, <4>1
      <4> QED
        BY <1>7, <4>1, <4>2
    <3>4. CASE bound.node # <<>>
      <4>1. r = bound
        BY <2>1, <2>3, <3>4
      <4> QED
        BY <3>2, <3>4, <4>1 DEF Outcome
    <3> QED
      BY <3>3, <3>4
  <2> QED
    BY <2>2, <2>3
<1>10. CASE c.kind = "wildcard"
  <2>1. r = Found(next, [old EXCEPT ![c.part] = rest])
    BY <1>10 DEF Try
  <2>2. r = Found(next, new)
    BY <1>2, <1>10, <2>1
  <2>3. Below(tree, next, path) = {next}
    BY <1>10, WildcardIs
  <2> HIDE DEF next, rest, old, new, r
  <2> QED
    BY <2>2, <2>3 DEF Outcome, Found, Leads, new
<1> QED
  BY <1>5, <1>8, <1>9, <1>10

\* There is nothing for the path below the first k of the children of a kind.
NoneUpTo(tree, path, at, kind, k) ==
  \A l \in 1..k : tree[at].children[l].kind = kind =>
    Below(tree, Append(at, tree[at].children[l]), path) = {}

\* A child of a kind, after such, has the first of what is below it found.
FoundAt(tree, path, r, at, kind, k) ==
  \E l \in 1..k :
    LET c == tree[at].children[l] IN
    /\ c.kind = kind /\ NoneUpTo(tree, path, at, kind, l - 1)
    /\ \E p \in Below(tree, Append(at, c), path) :
         /\ r.node = <<p>> /\ r.params = Bindings(tree, p, path)
         /\ Leads(tree, p, Below(tree, Append(at, c), path))

LoopOutcome(tree, path, r, at, kind, k) ==
  \/ r = Missed(Bindings(tree, at, path)) /\ NoneUpTo(tree, path, at, kind, k)
  \/ r.node # <<>> /\ FoundAt(tree, path, r, at, kind, k)

\* What is found below the children.
RightBelow(tree, path, at, below) ==
  \A k \in DOMAIN tree[at].children :
    LET next == Append(at, tree[at].children[k])
        params == Bindings(tree, next, path)
    IN  Fits(next, path) => Outcome(tree, path, below[<<next, params>>], next, params)

LEMMA LoopRight ==
  ASSUME NEW tree, GoodTree(tree), NEW at \in DOMAIN tree, NEW kind,
         NEW path \in Seq(STRING), Fits(at, path), Len(at) < Len(path),
         NEW below \in [States(tree) -> Results(tree)],
         RightBelow(tree, path, at, below)
  PROVE  LoopOutcome(tree, path,
                     Loop(kind, at, tree[at].children, SubSeq(path, Len(at) + 1, Len(path)),
                          Bindings(tree, at, path), below),
                     at, kind, Len(tree[at].children))
<1> DEFINE children == tree[at].children
           rest == SubSeq(path, Len(at) + 1, Len(path))
           params == Bindings(tree, at, path)
           n == Len(children)
<1>1. at \in Seq(Segments) /\ Grows(tree) /\ Len(at) + 1 \in 1..Len(path)
      /\ children \in Seq(Segments) /\ n \in Nat /\ DOMAIN children = 1..n
  BY DEF GoodTree, Grows
<1>2. rest \in Seq(STRING) /\ rest # <<>> /\ params \in Params(tree)
  BY <1>1, RestIs, BindingsType
<1>3. ASSUME NEW k \in 1..n
      PROVE  Outcome(tree, path, Try(at, children[k], rest, params, below),
                     Append(at, children[k]), params)
  <2>1. k \in DOMAIN children /\ children[k] \in Segments /\ Append(at, children[k]) \in DOMAIN tree
    BY <1>1 DEF Grows
  <2>2. Fits(Append(at, children[k]), path) =>
          Outcome(tree, path, below[<<Append(at, children[k]), Bindings(tree, Append(at, children[k]), path)>>],
                  Append(at, children[k]), Bindings(tree, Append(at, children[k]), path))
    BY <2>1 DEF RightBelow
  <2> QED
    BY <2>1, <2>2, TryRight
<1>4. children = tree[at].children
  OBVIOUS
<1> HIDE DEF children, rest, params, n
<1>5. LoopComes(tree, kind, at, children, rest, params, below)
  BY <1>1, <1>2, <1>4, LoopIs
<1>6. PICK g \in [0..n -> Results(tree)] :
        /\ LoopSteps(g, kind, at, children, rest, params, below)
        /\ Loop(kind, at, children, rest, params, below) = g[n]
  BY <1>5 DEF LoopComes, n
<1>7. /\ g[0] = Missed(params)
      /\ \A k \in 1..n :
           g[k] = IF g[k - 1].node # <<>> \/ children[k].kind # kind THEN g[k - 1]
                  ELSE Try(at, children[k], rest, g[k - 1].params, below)
  BY <1>6 DEF LoopSteps, n
<1> DEFINE T == {k \in Nat : k <= n => LoopOutcome(tree, path, g[k], at, kind, k)}
<1>8. 0 \in T
  <2>1. NoneUpTo(tree, path, at, kind, 0)
    BY DEF NoneUpTo
  <2> QED
    BY <1>7, <2>1 DEF LoopOutcome, params
<1>9. ASSUME NEW k \in T PROVE k + 1 \in T
  <2> SUFFICES ASSUME k + 1 <= n PROVE LoopOutcome(tree, path, g[k + 1], at, kind, k + 1)
    OBVIOUS
  <2>1. k + 1 \in 1..n /\ (k + 1) - 1 = k /\ LoopOutcome(tree, path, g[k], at, kind, k)
    BY <1>1
  <2>2. \A l \in 1..(k + 1) : l \in 1..k \/ l = k + 1
    OBVIOUS
  <2>3. \A l \in 1..k : l \in 1..(k + 1)
    OBVIOUS
  <2>4. g[k + 1] = IF g[k].node # <<>> \/ children[k + 1].kind # kind THEN g[k]
                   ELSE Try(at, children[k + 1], rest, g[k].params, below)
    BY <1>7, <2>1
  <2>5. CASE g[k].node # <<>>
    <3>1. g[k + 1] = g[k]
      BY <2>4, <2>5
    <3>2. FoundAt(tree, path, g[k], at, kind, k)
      BY <2>1, <2>5 DEF LoopOutcome, Missed
    <3>3. FoundAt(tree, path, g[k], at, kind, k + 1)
      BY <2>3, <3>2 DEF FoundAt
    <3> QED
      BY <2>5, <3>1, <3>3 DEF LoopOutcome
  <2>6. CASE g[k].node = <<>>
    <3>1. g[k] = Missed(params) /\ NoneUpTo(tree, path, at, kind, k)
      BY <2>1, <2>6 DEF LoopOutcome, params
    <3>2. CASE children[k + 1].kind # kind
      <4>1. g[k + 1] = Missed(params)
        BY <2>4, <3>1, <3>2
      <4>2. NoneUpTo(tree, path, at, kind, k + 1)
        BY <1>4, <2>2, <3>1, <3>2 DEF NoneUpTo
      <4> QED
        BY <4>1, <4>2 DEF LoopOutcome, params
    <3>3. CASE children[k + 1].kind = kind
      <4>1. g[k].params = params
        BY <3>1 DEF Missed
      <4>2. g[k + 1] = Try(at, children[k + 1], rest, params, below)
        BY <2>4, <2>6, <3>3, <4>1
      <4>3. Outcome(tree, path, g[k + 1], Append(at, children[k + 1]), params)
        BY <1>3, <2>1, <4>2
      <4>4. g[k + 1] \in Results(tree)
        BY <1>6, <2>1
      <4>5. CASE g[k + 1].node = <<>>
        <5>1. g[k + 1].params = params /\ Below(tree, Append(at, children[k + 1]), path) = {}
          BY <4>3, <4>5 DEF Outcome
        <5>2. g[k + 1] = Missed(params)
          BY <4>4, <4>5, <5>1 DEF Results, Missed
        <5>3. NoneUpTo(tree, path, at, kind, k + 1)
          BY <1>4, <2>2, <3>1, <5>1 DEF NoneUpTo
        <5> QED
          BY <5>2, <5>3 DEF LoopOutcome, params
      <4>6. CASE g[k + 1].node # <<>>
        <5>1. \E p \in Below(tree, Append(at, children[k + 1]), path) :
                /\ g[k + 1].node = <<p>> /\ g[k + 1].params = Bindings(tree, p, path)
                /\ Leads(tree, p, Below(tree, Append(at, children[k + 1]), path))
          BY <4>3, <4>6 DEF Outcome
        <5>2. k + 1 \in 1..(k + 1)
          OBVIOUS
        <5>3. FoundAt(tree, path, g[k + 1], at, kind, k + 1)
          BY <1>4, <2>1, <3>1, <3>3, <5>1, <5>2 DEF FoundAt
        <5> QED
          BY <4>6, <5>3 DEF LoopOutcome
      <4> QED
        BY <4>5, <4>6
    <3> QED
      BY <3>2, <3>3
  <2> QED
    BY <2>5, <2>6
<1> HIDE DEF T
<1>10. T = Nat
  BY <1>8, <1>9, SetInduction DEF T
<1>11. LoopOutcome(tree, path, g[n], at, kind, n)
  BY <1>1, <1>10 DEF T
<1> QED
  BY <1>6, <1>11 DEF children, rest, params, n

\* What is below a node that a path goes on from is below one of its children.
LEMMA BelowChild ==
  ASSUME NEW tree, GoodTree(tree), NEW at \in DOMAIN tree,
         NEW path \in Seq(STRING), Fits(at, path), Len(at) < Len(path), NEW p \in Below(tree, at, path)
  PROVE  \E k \in 1..Len(tree[at].children) : p \in Below(tree, Append(at, tree[at].children[k]), path)
<1>1. p \in DOMAIN tree /\ Starts(at, p) /\ tree[p].handlers # None /\ Covers(p, path)
  BY DEF Below
<1>2. at \in Seq(Segments) /\ p \in Seq(Segments) /\ tree[at].children \in Seq(Segments)
  BY <1>1 DEF GoodTree, Grows
<1>3. Len(at) < Len(p)
  <2> SUFFICES ASSUME ~(Len(at) < Len(p)) PROVE FALSE
    OBVIOUS
  <2>1. Len(at) = Len(p)
    BY <1>1, <1>2 DEF Starts
  <2>2. at = p
    BY <1>1, <1>2, <2>1, StartsIs
  <2>3. \E i \in DOMAIN p : p[i].kind = "wildcard"
    BY <1>1, <1>2, <2>1, CoversIs
  <2> QED
    BY <2>2, <2>3 DEF Fits
<1>4. PICK k \in DOMAIN tree[at].children : tree[at].children[k] = p[Len(at) + 1]
  BY <1>1, <1>3 DEF GoodTree
<1>5. k \in 1..Len(tree[at].children) /\ tree[at].children[k] \in Segments
  BY <1>2
<1>6. Starts(Append(at, tree[at].children[k]), p)
  BY <1>1, <1>2, <1>3, <1>4, <1>5, StartsNext
<1>7. p \in Below(tree, Append(at, tree[at].children[k]), path)
  BY <1>1, <1>6 DEF Below
<1> QED
  BY <1>5, <1>7

LEMMA FoundFirst ==
  ASSUME NEW tree, GoodTree(tree), NEW at \in DOMAIN tree, NEW kind \in Kinds,
         NEW path \in Seq(STRING), Fits(at, path), Len(at) < Len(path), NEW r, NEW params,
         FoundAt(tree, path, r, at, kind, Len(tree[at].children)),
         \A d \in Kinds : Weight[d] < Weight[kind] =>
           NoneUpTo(tree, path, at, d, Len(tree[at].children))
  PROVE  Outcome(tree, path, r, at, params)
<1> DEFINE children == tree[at].children
           n == Len(children)
           B(k) == Below(tree, Append(at, children[k]), path)
<1>1. /\ at \in Seq(Segments) /\ children \in Seq(Segments) /\ n \in Nat /\ DOMAIN children = 1..n
      /\ \A k \in 1..n : children[k] \in Segments /\ children[k].kind \in Kinds
  <2>1. at \in Seq(Segments) /\ children \in Seq(Segments)
    BY DEF GoodTree, Grows
  <2> HIDE DEF children
  <2>2. \A k \in 1..n : children[k] \in Segments
    BY <2>1
  <2> QED
    BY <2>1, <2>2 DEF Segments, Kinds
<1>2. PICK l \in 1..n : /\ children[l].kind = kind /\ NoneUpTo(tree, path, at, kind, l - 1)
                        /\ \E p \in B(l) : /\ r.node = <<p>> /\ r.params = Bindings(tree, p, path)
                                           /\ Leads(tree, p, B(l))
  BY DEF FoundAt
<1>3. PICK p \in B(l) : r.node = <<p>> /\ r.params = Bindings(tree, p, path) /\ Leads(tree, p, B(l))
  BY <1>2
<1>4. p \in Below(tree, at, path)
  BY <1>1, BelowNext
<1>5. ASSUME NEW q \in Below(tree, at, path), q # p PROVE Earlier(tree, p, q)
  <2>1. PICK m \in 1..n : q \in B(m)
    BY <1>5, BelowChild
  <2>2. CASE m = l
    BY <1>3, <1>5, <2>1, <2>2 DEF Leads
  <2>3. CASE m # l
    <3> DEFINE d == children[m].kind
    <3>1. d \in Kinds
      BY <1>1
    <3>2. ~(Weight[d] < Weight[kind])
      <4> SUFFICES ASSUME Weight[d] < Weight[kind] PROVE FALSE
        OBVIOUS
      <4>1. NoneUpTo(tree, path, at, d, n)
        BY <3>1
      <4> QED
        BY <2>1, <4>1 DEF NoneUpTo
    <3>3. Weight[d] = Weight[kind] => l < m
      <4> SUFFICES ASSUME Weight[d] = Weight[kind], ~(l < m) PROVE FALSE
        OBVIOUS
      <4>1. d = kind
        BY <3>1, OwnWeight
      <4>2. m \in 1..(l - 1)
        BY <1>1, <2>3
      <4> QED
        BY <1>2, <2>1, <4>1, <4>2 DEF NoneUpTo
    <3>4. Weight[kind] < Weight[d] \/ (Weight[kind] = Weight[d] /\ l < m)
      <4>1. Weight[kind] \in Nat /\ Weight[d] \in Nat
        BY <3>1, OwnWeight
      <4> HIDE DEF d
      <4> QED
        BY <3>2, <3>3, <4>1
    <3>5. Starts(Append(at, children[l]), p) /\ Starts(Append(at, children[m]), q)
      BY <1>3, <2>1 DEF Below
    <3>6. l \in DOMAIN children /\ m \in DOMAIN children
      BY <1>1
    <3> QED
      BY <1>2, <2>3, <3>4, <3>5, <3>6 DEF Earlier
  <2> QED
    BY <2>2, <2>3
<1> QED
  BY <1>3, <1>4, <1>5 DEF Outcome, Leads

LEMMA BranchRight ==
  ASSUME NEW tree, GoodTree(tree), NEW at \in DOMAIN tree,
         NEW path \in Seq(STRING), Fits(at, path), Len(at) < Len(path),
         NEW below \in [States(tree) -> Results(tree)],
         RightBelow(tree, path, at, below)
  PROVE  Outcome(tree, path,
                 Branch(at, tree[at].children, SubSeq(path, Len(at) + 1, Len(path)),
                        Bindings(tree, at, path), below),
                 at, Bindings(tree, at, path))
<1> DEFINE children == tree[at].children
           rest == SubSeq(path, Len(at) + 1, Len(path))
           params == Bindings(tree, at, path)
           n == Len(children)
           Of(kind) == Loop(kind, at, children, rest, params, below)
<1> SUFFICES Outcome(tree, path, Branch(at, children, rest, params, below), at, params)
  OBVIOUS
<1>1. \A kind : LoopOutcome(tree, path, Of(kind), at, kind, n)
  BY LoopRight
<1>2. Missed(params).params = params /\ Missed(params).node = <<>>
  BY DEF Missed
<1>3. \A kind : Of(kind) = Missed(params) \/ Of(kind).node # <<>>
  BY <1>1 DEF LoopOutcome
<1> DEFINE static == Of("static")
           param  == IF static.node # <<>> THEN static
                     ELSE Loop("param", at, children, rest, static.params, below)
<1>4. Branch(at, children, rest, params, below)
        = IF param.node # <<>> THEN param
          ELSE Loop("wildcard", at, children, rest, param.params, below)
  BY DEF Branch
<1>5. static.node = <<>> => static.params = params
  BY <1>2, <1>3
<1> HIDE DEF children, rest, params, n
<1>6. param = IF static.node # <<>> THEN static ELSE Of("param")
  BY <1>5
<1>7. param.node = <<>> => param.params = params
  BY <1>2, <1>3, <1>5, <1>6
<1> HIDE DEF param
<1>8. Branch(at, children, rest, params, below) = IF param.node # <<>> THEN param ELSE Of("wildcard")
  BY <1>4, <1>7
<1> HIDE DEF static, Of
<1>9. \A kind : LoopOutcome(tree, path, Of(kind), at, kind, Len(tree[at].children))
  BY <1>1 DEF n, children
<1>10. static = Of("static")
  BY DEF static
<1>11. \A kind : Of(kind).node # <<>> => FoundAt(tree, path, Of(kind), at, kind, Len(tree[at].children))
  BY <1>2, <1>9 DEF LoopOutcome, params
<1>12. \A kind : Of(kind).node = <<>> => NoneUpTo(tree, path, at, kind, Len(tree[at].children))
  BY <1>9 DEF LoopOutcome
<1> HIDE DEF Outcome
<1>13. CASE Of("static").node # <<>>
  <2>1. \A d \in Kinds : ~(Weight[d] < Weight["static"])
    BY Weights DEF Kinds
  <2>2. Outcome(tree, path, Of("static"), at, params)
    BY <1>11, <1>13, <2>1, FoundFirst DEF Kinds
  <2> QED
    BY <1>6, <1>8, <1>10, <1>13, <2>2
<1>14. CASE Of("static").node = <<>> /\ Of("param").node # <<>>
  <2>1. \A d \in Kinds : Weight[d] < Weight["param"] => d = "static"
    BY Weights DEF Kinds
  <2>2. \A d \in Kinds : Weight[d] < Weight["param"] =>
          NoneUpTo(tree, path, at, d, Len(tree[at].children))
    BY <1>12, <1>14, <2>1
  <2>3. Outcome(tree, path, Of("param"), at, params)
    BY <1>11, <1>14, <2>2, FoundFirst DEF Kinds
  <2> QED
    BY <1>6, <1>8, <1>10, <1>14, <2>3
<1>15. CASE Of("static").node = <<>> /\ Of("param").node = <<>> /\ Of("wildcard").node # <<>>
  <2>1. \A d \in Kinds : Weight[d] < Weight["wildcard"] => d = "static" \/ d = "param"
    BY Weights DEF Kinds
  <2>2. \A d \in Kinds : Weight[d] < Weight["wildcard"] =>
          NoneUpTo(tree, path, at, d, Len(tree[at].children))
    BY <1>12, <1>15, <2>1
  <2>3. Outcome(tree, path, Of("wildcard"), at, params)
    BY <1>11, <1>15, <2>2, FoundFirst DEF Kinds
  <2> QED
    BY <1>6, <1>8, <1>10, <1>15, <2>3
<1>16. CASE Of("static").node = <<>> /\ Of("param").node = <<>> /\ Of("wildcard").node = <<>>
  <2>1. \A d \in Kinds : NoneUpTo(tree, path, at, d, Len(tree[at].children))
    BY <1>12, <1>16 DEF Kinds
  <2>2. ASSUME NEW p \in Below(tree, at, path) PROVE FALSE
    <3>1. PICK k \in 1..Len(tree[at].children) : p \in Below(tree, Append(at, tree[at].children[k]), path)
      BY BelowChild
    <3>2. tree[at].children \in Seq(Segments)
      BY DEF GoodTree, Grows
    <3>3. tree[at].children[k] \in Segments
      BY <3>2
    <3>4. tree[at].children[k].kind \in Kinds
      BY <3>3 DEF Segments, Kinds
    <3> QED
      BY <2>1, <3>1, <3>4 DEF NoneUpTo
  <2>3. Of("wildcard").params = params
    BY <1>2, <1>3, <1>16
  <2>4. Outcome(tree, path, Of("wildcard"), at, params)
    BY <1>16, <2>2, <2>3 DEF Outcome
  <2> QED
    BY <1>6, <1>8, <1>10, <1>16, <2>4
<1> QED
  BY <1>13, <1>14, <1>15, <1>16

\* A search of a tree finds the first of the patterns for a path, with what the
\* path gives its parameters, or nothing because there is none.
LEMMA SearchRight ==
  ASSUME NEW tree, GoodTree(tree), NEW path \in Seq(STRING)
  PROVE  Outcome(tree, path, Search(tree, path), <<>>, [name \in Names(tree) |-> <<>>])
<1> DEFINE n == Len(path) + 1
           none == [name \in Names(tree) |-> <<>>]
<1>0. Grows(tree) /\ n \in Nat /\ Len(path) \in Nat
  BY DEF GoodTree
<1>1. PICK g \in [1..n -> [States(tree) -> Results(tree)]] :
        SearchSteps(g, tree, path) /\ Search(tree, path) = g[1][<< <<>>, none >>]
  BY <1>0, SearchIs
<1>2. ASSUME NEW at \in DOMAIN tree, Fits(at, path)
      PROVE  /\ at \in Seq(Segments) /\ <<at, Bindings(tree, at, path)>> \in States(tree)
             /\ Len(at) + 1 \in 1..n
  <2>1. at \in Seq(Segments) /\ Len(at) <= Len(path)
    BY <1>2 DEF GoodTree, Grows, Fits
  <2>2. Bindings(tree, at, path) \in Params(tree)
    BY <2>1, BindingsType
  <2> QED
    BY <1>0, <2>1, <2>2 DEF States
<1> DEFINE Right(i) == \A at \in DOMAIN tree : Fits(at, path) /\ Len(at) + 1 = i =>
                         Outcome(tree, path, g[i][<<at, Bindings(tree, at, path)>>],
                                 at, Bindings(tree, at, path))
           T == {i \in 1..n : Right(i)}
<1>3. ASSUME NEW i \in 1..n, \A j \in (i + 1)..n : j \in T PROVE i \in T
  <2> SUFFICES ASSUME NEW at \in DOMAIN tree, Fits(at, path), Len(at) + 1 = i
               PROVE  Outcome(tree, path, g[i][<<at, Bindings(tree, at, path)>>],
                              at, Bindings(tree, at, path))
    OBVIOUS
  <2> DEFINE params == Bindings(tree, at, path)
             s == <<at, params>>
  <2>1. at \in Seq(Segments) /\ s \in States(tree) /\ Len(at) \in Nat
    BY <1>2
  <2>2. g[i][s] = Level(tree, path, i, s, g[i + 1])
    BY <1>1, <2>1 DEF SearchSteps
  <2>3. s[1] = at /\ s[2] = params
    OBVIOUS
  <2> HIDE DEF params, s
  <2>4. CASE i <= Len(path)
    <3>1. g[i][s] = Branch(at, tree[at].children, SubSeq(path, Len(at) + 1, Len(path)), params, g[i + 1])
      BY <2>2, <2>3, <2>4 DEF Level
    <3>2. i + 1 \in (i + 1)..n /\ i + 1 \in 1..n
      BY <1>0, <2>4
    <3>3. g[i + 1] \in [States(tree) -> Results(tree)] /\ Right(i + 1)
      BY <1>1, <1>3, <3>2
    <3>4. RightBelow(tree, path, at, g[i + 1])
      <4> SUFFICES ASSUME NEW k \in DOMAIN tree[at].children,
                          Fits(Append(at, tree[at].children[k]), path)
                   PROVE  Outcome(tree, path,
                            g[i + 1][<<Append(at, tree[at].children[k]),
                                       Bindings(tree, Append(at, tree[at].children[k]), path)>>],
                            Append(at, tree[at].children[k]),
                            Bindings(tree, Append(at, tree[at].children[k]), path))
        BY DEF RightBelow
      <4> DEFINE next == Append(at, tree[at].children[k])
      <4>1. next \in DOMAIN tree /\ Fits(next, path) /\ tree[at].children[k] \in Segments
        BY <1>0 DEF Grows
      <4>2. Len(next) + 1 = i + 1
        BY <2>1, <4>1, StartsNext
      <4> HIDE DEF next
      <4>3. Outcome(tree, path, g[i + 1][<<next, Bindings(tree, next, path)>>],
                    next, Bindings(tree, next, path))
        BY <3>3, <4>1, <4>2
      <4> QED
        BY <4>3 DEF next
    <3>5. Len(at) < Len(path)
      BY <1>0, <2>1, <2>4
    <3>6. Outcome(tree, path,
                  Branch(at, tree[at].children, SubSeq(path, Len(at) + 1, Len(path)),
                         Bindings(tree, at, path), g[i + 1]),
                  at, Bindings(tree, at, path))
      BY <3>3, <3>4, <3>5, BranchRight
    <3> QED
      BY <3>1, <3>6 DEF params, s
  <2>5. CASE ~(i <= Len(path))
    <3>1. Len(at) = Len(path)
      BY <1>0, <1>2, <2>1, <2>5 DEF Fits
    <3>2. g[i][s] = IF tree[at].handlers = None THEN Missed(params) ELSE Found(at, params)
      BY <2>2, <2>3, <2>5 DEF Level
    <3>3. ASSUME NEW p \in Below(tree, at, path) PROVE p = at
      <4>1. p \in DOMAIN tree /\ Starts(at, p) /\ Covers(p, path)
        BY DEF Below
      <4>2. p \in Seq(Segments)
        BY <4>1 DEF GoodTree, Grows
      <4>3. Len(p) = Len(at)
        BY <2>1, <3>1, <4>1, <4>2, CoversIs DEF Starts
      <4> QED
        BY <2>1, <4>1, <4>2, <4>3, StartsIs
    <3>4. tree[at].handlers # None => at \in Below(tree, at, path)
      BY <2>1, <3>1, FitsCovers DEF Below, Starts
    <3>5. CASE tree[at].handlers = None
      <4>1. Below(tree, at, path) = {}
        BY <3>3, <3>5 DEF Below
      <4> QED
        BY <3>2, <3>5, <4>1 DEF Outcome, Missed, params, s
    <3>6. CASE tree[at].handlers # None
      <4>1. g[i][s] = Found(at, params) /\ at \in Below(tree, at, path)
        BY <3>2, <3>4, <3>6
      <4>2. Leads(tree, at, Below(tree, at, path))
        BY <3>3 DEF Leads
      <4> QED
        BY <4>1, <4>2 DEF Outcome, Found, params, s
    <3> QED
      BY <3>5, <3>6
  <2> QED
    BY <2>4, <2>5
<1> HIDE DEF T
<1>4. T \in SUBSET (1..n)
  BY DEF T
<1>5. T = 1..n
  BY <1>0, <1>3, <1>4, BackwardInduction
<1>6. <<>> \in DOMAIN tree /\ Fits(<<>>, path) /\ Len(<<>>) + 1 = 1 /\ 1 \in 1..n
  BY <1>0 DEF Grows, Fits
<1>7. Bindings(tree, <<>>, path) = none
  <2>1. \A name : BindsAt(name, <<>>) = {}
    BY DEF BindsAt
  <2> QED
    BY <2>1 DEF Bindings, ValueOf
<1>8. Outcome(tree, path, g[1][<< <<>>, Bindings(tree, <<>>, path) >>],
              <<>>, Bindings(tree, <<>>, path))
  BY <1>5, <1>6 DEF T
<1> QED
  BY <1>1, <1>7, <1>8

------------------------------------------------------------------------------
(* A route more                                                            *)

\* The nodes a pattern leads through are those it begins with.
LEMMA OnTheWay ==
  ASSUME NEW pattern \in Seq(Segments)
  PROVE  {SubSeq(pattern, 1, n) : n \in 0..Len(pattern)} = {at \in Seq(Segments) : Starts(at, pattern)}
<1>1. ASSUME NEW n \in 0..Len(pattern)
      PROVE  SubSeq(pattern, 1, n) \in Seq(Segments) /\ Starts(SubSeq(pattern, 1, n), pattern)
  <2> DEFINE s == SubSeq(pattern, 1, n)
  <2>1. Len(pattern) \in Nat /\ n \in Int /\ 1 \in Int /\ \A i \in 1..n : pattern[i] \in Segments
    OBVIOUS
  <2>2. /\ s \in Seq(Segments) /\ Len(s) = IF 1 <= n THEN n - 1 + 1 ELSE 0
        /\ \A i \in 1..(n - 1 + 1) : s[i] = pattern[1 + i - 1]
    BY <2>1, SubSeqProperties
  <2> HIDE DEF s
  <2>3. Len(s) = n /\ \A i \in 1..n : s[i] = pattern[i]
    <3>1. \A i \in 1..n : i \in 1..(n - 1 + 1) /\ 1 + i - 1 = i
      BY <2>1
    <3>2. \A i \in 1..n : s[i] = pattern[i]
      BY <2>2, <3>1
    <3> QED
      BY <2>2, <3>2
  <2> QED
    BY <2>1, <2>2, <2>3 DEF Starts, s
<1>2. ASSUME NEW at \in Seq(Segments), Starts(at, pattern)
      PROVE  Len(at) \in 0..Len(pattern) /\ at = SubSeq(pattern, 1, Len(at))
  <2>1. Len(at) \in 0..Len(pattern)
    BY <1>2 DEF Starts
  <2> DEFINE s == SubSeq(pattern, 1, Len(at))
  <2>2. s \in Seq(Segments) /\ Starts(s, pattern)
    BY <1>1, <2>1
  <2>3. Len(s) = Len(at)
    BY <2>1
  <2> HIDE DEF s
  <2>4. Starts(at, s)
    BY <1>2, <2>2, <2>3, StartsOrder
  <2>5. at = s
    BY <2>2, <2>3, <2>4, StartsIs
  <2> QED
    BY <2>1, <2>5 DEF s
<1> QED
  BY <1>1, <1>2

\* What a route makes of a tree: a child more for one of its nodes, and a
\* handler.
IsNext(tree, pattern, at) ==
  /\ Starts(at, pattern) /\ at # pattern
  /\ pattern[Len(at) + 1] \notin Range(NodeAt(tree, at).children)

WithOne(tree, pattern, method, given, new) ==
  /\ DOMAIN new = (DOMAIN tree) \cup {at \in Seq(Segments) : Starts(at, pattern)}
  /\ \A at \in DOMAIN new :
       /\ DOMAIN new[at] = {"children", "handlers"}
       /\ new[at].children = IF IsNext(tree, pattern, at)
                             THEN Append(NodeAt(tree, at).children, pattern[Len(at) + 1])
                             ELSE NodeAt(tree, at).children
       /\ at # pattern => new[at].handlers = NodeAt(tree, at).handlers
  /\ LET old == NodeAt(tree, pattern).handlers IN
     new[pattern].handlers = [m \in (DOMAIN old) \cup {method} |-> IF m = method THEN given ELSE old[m]]

LEMMA NodeIs ==
  ASSUME NEW tree, GoodTree(tree), NEW at \in Seq(Segments)
  PROVE  /\ DOMAIN NodeAt(tree, at) = {"children", "handlers"}
         /\ NodeAt(tree, at).children \in Seq(Segments)
         /\ at \in DOMAIN tree => NodeAt(tree, at) = tree[at]
         /\ at \notin DOMAIN tree => NodeAt(tree, at).children = <<>> /\ NodeAt(tree, at).handlers = None
<1>1. CASE at \in DOMAIN tree
  BY <1>1 DEF NodeAt, GoodTree, Grows
<1>2. CASE at \notin DOMAIN tree
  <2>1. NodeAt(tree, at) = [children |-> <<>>, handlers |-> None]
    BY <1>2 DEF NodeAt, NewNode
  <2>2. <<>> \in Seq(Segments)
    OBVIOUS
  <2> QED
    BY <1>2, <2>1, <2>2
<1> QED
  BY <1>1, <1>2

LEMMA AddRouteIs ==
  ASSUME NEW tree, GoodTree(tree), NEW pattern \in Seq(Segments), NEW method, NEW given
  PROVE  WithOne(tree, pattern, method, given, AddRoute(tree, pattern, method, given))
<1> DEFINE new == AddRoute(tree, pattern, method, given)
           on == {at \in Seq(Segments) : Starts(at, pattern)}
           Made(at) ==
             LET node == NodeAt(tree, at)
                 next == pattern[Len(at) + 1]
             IN  CASE at = pattern ->
                        [node EXCEPT !.handlers =
                           [m \in (DOMAIN @) \cup {method} |-> IF m = method THEN given ELSE @[m]]]
                   [] at \in on \ {pattern} /\ next \notin Range(node.children) ->
                        [node EXCEPT !.children = Append(@, next)]
                   [] OTHER -> node
<1>1. new = [at \in (DOMAIN tree) \cup on |-> Made(at)]
  BY OnTheWay DEF AddRoute
<1>2. DOMAIN new = (DOMAIN tree) \cup on /\ \A at \in DOMAIN new : new[at] = Made(at)
  BY <1>1
<1>3. DOMAIN new \subseteq Seq(Segments)
  BY <1>2 DEF GoodTree, Grows
<1>4. Len(pattern) \in Nat /\ pattern \in on
  BY DEF Starts
<1> HIDE DEF new
<1>5. ASSUME NEW at \in DOMAIN new, at # pattern
      PROVE  /\ DOMAIN new[at] = {"children", "handlers"}
             /\ new[at].children = IF IsNext(tree, pattern, at)
                                   THEN Append(NodeAt(tree, at).children, pattern[Len(at) + 1])
                                   ELSE NodeAt(tree, at).children
             /\ new[at].handlers = NodeAt(tree, at).handlers
  <2> DEFINE node == NodeAt(tree, at)
             next == pattern[Len(at) + 1]
  <2>1. DOMAIN node = {"children", "handlers"}
    BY <1>3, NodeIs
  <2>2. IsNext(tree, pattern, at) <=> at \in on \ {pattern} /\ next \notin Range(node.children)
    BY <1>3, <1>5 DEF IsNext
  <2>3. new[at] = IF at \in on \ {pattern} /\ next \notin Range(node.children)
                  THEN [node EXCEPT !.children = Append(@, next)] ELSE node
    BY <1>2, <1>5
  <2> HIDE DEF node, next, on
  <2>4. /\ DOMAIN new[at] = {"children", "handlers"}
        /\ new[at].children = IF IsNext(tree, pattern, at) THEN Append(node.children, next) ELSE node.children
        /\ new[at].handlers = node.handlers
    BY <2>1, <2>2, <2>3
  <2> QED
    BY <2>4 DEF node, next
<1>6. LET old == NodeAt(tree, pattern).handlers IN
      /\ DOMAIN new[pattern] = {"children", "handlers"}
      /\ new[pattern].children = NodeAt(tree, pattern).children
      /\ new[pattern].handlers = [m \in (DOMAIN old) \cup {method} |-> IF m = method THEN given ELSE old[m]]
  <2> DEFINE node == NodeAt(tree, pattern)
             handlers == [m \in (DOMAIN node.handlers) \cup {method} |->
                            IF m = method THEN given ELSE node.handlers[m]]
  <2>1. DOMAIN node = {"children", "handlers"}
    BY NodeIs
  <2>2. new[pattern] = [node EXCEPT !.handlers = handlers]
    BY <1>2, <1>4
  <2> HIDE DEF handlers
  <2>3. /\ DOMAIN new[pattern] = {"children", "handlers"}
        /\ new[pattern].children = node.children
        /\ new[pattern].handlers = handlers
    <3> HIDE DEF node
    <3> QED
      BY <2>1, <2>2
  <2> QED
    BY <2>3 DEF handlers
<1>7. ~IsNext(tree, pattern, pattern)
  BY DEF IsNext
<1> QED
  BY <1>2, <1>5, <1>6, <1>7 DEF WithOne, new

LEMMA BeginningWellFormed ==
  ASSUME NEW pattern \in Seq(Segments), WellFormed(pattern), NEW at \in Seq(Segments), Starts(at, pattern)
  PROVE  /\ WellFormed(at)
         /\ (\E i \in DOMAIN at : at[i].kind = "wildcard") => at = pattern
<1>1. /\ Len(at) \in Nat /\ Len(pattern) \in Nat /\ Len(at) <= Len(pattern)
      /\ DOMAIN at = 1..Len(at) /\ DOMAIN pattern = 1..Len(pattern)
      /\ \A i \in DOMAIN at : i \in DOMAIN pattern /\ at[i] = pattern[i]
  BY DEF Starts
<1>2. \A i \in DOMAIN at : at[i].kind = "wildcard" => i = Len(at) /\ Len(at) = Len(pattern)
  <2> SUFFICES ASSUME NEW i \in DOMAIN at, at[i].kind = "wildcard"
               PROVE  i = Len(at) /\ Len(at) = Len(pattern)
    OBVIOUS
  <2>1. i = Len(pattern)
    BY <1>1 DEF WellFormed
  <2>2. i \in 1..Len(at) /\ Len(at) \in Nat /\ Len(pattern) \in Nat /\ Len(at) <= Len(pattern)
    BY <1>1
  <2> QED
    BY <2>1, <2>2
<1>3. WellFormed(at)
  BY <1>1, <1>2 DEF WellFormed
<1> QED
  BY <1>2, <1>3, StartsIs

LEMMA AddRouteGood ==
  ASSUME NEW tree, GoodTree(tree), NEW pattern \in Seq(Segments), WellFormed(pattern),
         NEW method, NEW given, NEW new, WithOne(tree, pattern, method, given, new)
  PROVE  GoodTree(new)
<1> DEFINE Kids(at) == NodeAt(tree, at).children
<1>1. /\ DOMAIN new = (DOMAIN tree) \cup {at \in Seq(Segments) : Starts(at, pattern)}
      /\ DOMAIN tree \subseteq Seq(Segments) /\ DOMAIN new \subseteq Seq(Segments)
      /\ <<>> \in DOMAIN new
  BY DEF WithOne, GoodTree, Grows
<1>2. ASSUME NEW at \in DOMAIN new
      PROVE  /\ at \in Seq(Segments) /\ Kids(at) \in Seq(Segments) /\ new[at].children \in Seq(Segments)
             /\ Len(Kids(at)) \in Nat
             /\ IsNext(tree, pattern, at) =>
                  /\ pattern[Len(at) + 1] \in Segments /\ Append(at, pattern[Len(at) + 1]) \in DOMAIN new
                  /\ new[at].children = Append(Kids(at), pattern[Len(at) + 1])
             /\ ~IsNext(tree, pattern, at) => new[at].children = Kids(at)
  <2>1. at \in Seq(Segments) /\ Kids(at) \in Seq(Segments)
    BY <1>1, NodeIs
  <2>2. new[at].children = IF IsNext(tree, pattern, at) THEN Append(Kids(at), pattern[Len(at) + 1])
                           ELSE Kids(at)
    BY DEF WithOne
  <2>3. ASSUME IsNext(tree, pattern, at)
        PROVE  pattern[Len(at) + 1] \in Segments /\ Append(at, pattern[Len(at) + 1]) \in DOMAIN new
    <3>1. Starts(at, pattern) /\ Len(at) < Len(pattern)
      BY <2>1, <2>3, StartsIs DEF IsNext, Starts
    <3>2. pattern[Len(at) + 1] \in Segments
      BY <2>1, <3>1
    <3>3. /\ Append(at, pattern[Len(at) + 1]) \in Seq(Segments)
          /\ Starts(Append(at, pattern[Len(at) + 1]), pattern)
      BY <2>1, <3>1, <3>2, StartsNext
    <3> QED
      BY <1>1, <3>2, <3>3
  <2> HIDE DEF Kids
  <2> QED
    BY <2>1, <2>2, <2>3
<1>3. ASSUME NEW at \in DOMAIN new, NEW k \in DOMAIN Kids(at)
      PROVE  /\ Append(at, Kids(at)[k]) \in DOMAIN new
             /\ k \in DOMAIN new[at].children /\ new[at].children[k] = Kids(at)[k]
  <2>1. at \in DOMAIN tree
    <3> SUFFICES ASSUME at \notin DOMAIN tree PROVE FALSE
      OBVIOUS
    <3>1. Kids(at) = <<>>
      BY <1>1, NodeIs
    <3> QED
      BY <1>3, <3>1
  <2>2. Kids(at) = tree[at].children
    BY <1>1, <2>1, NodeIs
  <2>3. Append(at, Kids(at)[k]) \in DOMAIN tree
    BY <2>1, <2>2 DEF GoodTree, Grows
  <2>4. k \in DOMAIN new[at].children /\ new[at].children[k] = Kids(at)[k]
    <3> DEFINE old == Kids(at)
               next == pattern[Len(at) + 1]
               kids == new[at].children
    <3>1. /\ old \in Seq(Segments) /\ k \in DOMAIN old
          /\ IsNext(tree, pattern, at) => next \in Segments /\ kids = Append(old, next)
          /\ ~IsNext(tree, pattern, at) => kids = old
      BY <1>2
    <3> HIDE DEF old, next, kids
    <3>2. CASE kids = old
      BY <3>1, <3>2 DEF old, kids
    <3>3. CASE next \in Segments /\ kids = Append(old, next)
      <4>1. k \in DOMAIN Append(old, next) /\ Append(old, next)[k] = old[k]
        BY <3>1, <3>3
      <4>2. k \in DOMAIN kids /\ kids[k] = old[k]
        BY <3>3, <4>1
      <4> QED
        BY <4>2 DEF old, kids
    <3> QED
      BY <3>1, <3>2, <3>3
  <2> QED
    BY <1>1, <2>3, <2>4
<1>4. Grows(new)
  <2>1. ASSUME NEW at \in DOMAIN new, NEW k \in DOMAIN new[at].children
        PROVE  Append(at, new[at].children[k]) \in DOMAIN new
    <3>1. CASE k \in DOMAIN Kids(at)
      BY <1>3, <3>1
    <3>2. CASE k \notin DOMAIN Kids(at)
      <4> HIDE DEF Kids
      <4>1. IsNext(tree, pattern, at)
        BY <1>2, <2>1, <3>2
      <4>2. new[at].children[k] = pattern[Len(at) + 1]
        BY <1>2, <2>1, <3>2, <4>1
      <4> QED
        BY <1>2, <4>1, <4>2
    <3> QED
      BY <3>1, <3>2
  <2> QED
    BY <1>1, <1>2, <2>1 DEF Grows
<1>5. ASSUME NEW at \in DOMAIN new
      PROVE  WellFormed(at) /\ DOMAIN new[at] = {"children", "handlers"}
  <2>1. at \in DOMAIN tree \/ Starts(at, pattern)
    BY <1>1
  <2>2. WellFormed(at)
    BY <1>1, <2>1, BeginningWellFormed DEF GoodTree
  <2> QED
    BY <2>2 DEF WithOne
<1>6. ASSUME NEW p \in DOMAIN new, NEW at \in Seq(Segments), Starts(at, p) PROVE at \in DOMAIN new
  <2>1. CASE p \in DOMAIN tree
    BY <1>1, <1>6, <2>1 DEF GoodTree
  <2>2. CASE Starts(p, pattern)
    <3>1. Starts(at, pattern)
      <4>1. Len(at) \in Nat /\ Len(p) \in Nat /\ Len(pattern) \in Nat
        BY <1>1
      <4> QED
        BY <1>6, <2>2, <4>1 DEF Starts
    <3> QED
      BY <1>1, <3>1
  <2> QED
    BY <1>1, <2>1, <2>2
<1>7. ASSUME NEW at \in DOMAIN new, NEW p \in DOMAIN new, Starts(at, p), Len(at) < Len(p)
      PROVE  \E k \in DOMAIN new[at].children : new[at].children[k] = p[Len(at) + 1]
  <2>0. at \in Seq(Segments) /\ p \in Seq(Segments) /\ Len(at) \in Nat /\ Len(p) \in Nat /\ Len(pattern) \in Nat
    BY <1>1
  <2>1. CASE p \in DOMAIN tree
    <3>1. at \in DOMAIN tree
      BY <1>1, <1>7, <2>1 DEF GoodTree
    <3>2. PICK k \in DOMAIN tree[at].children : tree[at].children[k] = p[Len(at) + 1]
      BY <1>7, <2>1, <3>1 DEF GoodTree
    <3>3. Kids(at) = tree[at].children
      BY <1>1, <3>1, NodeIs
    <3> HIDE DEF Kids
    <3> QED
      BY <1>3, <3>2, <3>3
  <2>2. CASE Starts(p, pattern)
    <3>0. Len(at) + 1 \in 1..Len(p) /\ Len(p) <= Len(pattern)
      BY <1>7, <2>0, <2>2 DEF Starts
    <3>a. Starts(at, pattern)
      BY <1>7, <2>0, <2>2 DEF Starts
    <3>1. Starts(at, pattern) /\ Len(at) < Len(pattern) /\ p[Len(at) + 1] = pattern[Len(at) + 1]
      BY <1>7, <2>0, <2>2, <3>0, <3>a DEF Starts
    <3>2. CASE IsNext(tree, pattern, at)
      <4> HIDE DEF Kids
      <4>1. /\ Len(Kids(at)) + 1 \in DOMAIN new[at].children
            /\ new[at].children[Len(Kids(at)) + 1] = pattern[Len(at) + 1]
        BY <1>2, <3>2
      <4> QED
        BY <3>1, <4>1
    <3>3. CASE ~IsNext(tree, pattern, at)
      <4>1. pattern[Len(at) + 1] \in Range(Kids(at))
        BY <3>1, <3>3 DEF IsNext
      <4>2. PICK k \in DOMAIN Kids(at) : Kids(at)[k] = pattern[Len(at) + 1]
        BY <4>1 DEF Range
      <4> HIDE DEF Kids
      <4> QED
        BY <1>3, <3>1, <4>2
    <3> QED
      BY <3>2, <3>3
  <2> QED
    BY <1>1, <2>1, <2>2
<1>8. ASSUME NEW at \in DOMAIN new, NEW i \in DOMAIN at, at[i].kind = "wildcard"
      PROVE  new[at].handlers # None
  <2>1. CASE at = pattern
    <3>1. method \in DOMAIN new[pattern].handlers
      BY DEF WithOne
    <3> QED
      BY <2>1, <3>1 DEF None
  <2>2. CASE at # pattern
    <3>1. at \in DOMAIN tree
      BY <1>1, <1>8, <2>2, BeginningWellFormed
    <3>2. tree[at].handlers # None
      BY <1>8, <3>1 DEF GoodTree
    <3>3. new[at].handlers = NodeAt(tree, at).handlers
      BY <2>2 DEF WithOne
    <3> QED
      BY <1>1, <3>1, <3>2, <3>3, NodeIs
  <2> QED
    BY <2>1, <2>2
<1> QED
  BY <1>4, <1>5, <1>6, <1>7, <1>8 DEF GoodTree

------------------------------------------------------------------------------
(* The tree has the routes that were added, in their order                 *)

Script == script \in Seq(ScriptCalls)

LEMMA CallsAre ==
  ASSUME Script, NEW n \in 0..Len(script), NEW i \in Routes(n)
  PROVE  /\ i \in Nat /\ 1 <= i /\ i <= n /\ i \in Routes(Len(script))
         /\ script[i].pattern \in Seq(Segments) /\ WellFormed(script[i].pattern)
         /\ script[i].middlewares \in Seq(STRING)
<1>1. i \in 1..n /\ script[i].call = "AddRoute" /\ n \in Nat /\ n <= Len(script) /\ Len(script) \in Nat
  BY DEF Script, Routes
<1>2. i \in 1..Len(script)
  BY <1>1
<1>3. script[i] \in ScriptCalls
  BY <1>2 DEF Script
<1>4. script[i] \in [call : {"AddRoute"}, method : STRING, pattern : {p \in Seq(Segments) : WellFormed(p)},
                     handler : STRING, middlewares : Seq(STRING)]
  BY <1>1, <1>3 DEF ScriptCalls
<1> QED
  BY <1>1, <1>2, <1>4 DEF Routes

\* A route added so begins with "at".
Begun(at, n) == {i \in Routes(n) : Starts(at, script[i].pattern)}

LEMMA FirstBegun ==
  ASSUME Script, NEW at, NEW n \in Nat, Begun(at, n) # {}
  PROVE  \E a \in Begun(at, n) : \A b \in Begun(at, n) : a <= b
<1> DEFINE T == {m \in Nat : Begun(at, m) # {} => \E a \in Begun(at, m) : \A b \in Begun(at, m) : a <= b}
<1>1. 0 \in T
  BY DEF Begun, Routes
<1>2. ASSUME NEW m \in T PROVE m + 1 \in T
  <2>1. m \in Nat /\ (Begun(at, m) # {} => \E a \in Begun(at, m) : \A b \in Begun(at, m) : a <= b)
    OBVIOUS
  <2>2. Begun(at, m) \subseteq 1..m /\ Begun(at, m + 1) \subseteq 1..(m + 1)
    BY DEF Begun, Routes
  <2>3. \A b \in 1..(m + 1) : b \in 1..m \/ b = m + 1
    BY <2>1
  <2>3a. 1..m \subseteq 1..(m + 1)
    BY <2>1
  <2>4. /\ \A b \in Begun(at, m + 1) : b \in Begun(at, m) \/ b = m + 1
        /\ Begun(at, m) \subseteq Begun(at, m + 1)
    BY <2>3, <2>3a DEF Begun, Routes
  <2> HIDE DEF T
  <2>5. CASE Begun(at, m) = {}
    <3>1. Begun(at, m + 1) # {} => m + 1 \in Begun(at, m + 1) /\ \A b \in Begun(at, m + 1) : m + 1 <= b
      BY <2>1, <2>4, <2>5
    <3> QED
      BY <2>1, <3>1 DEF T
  <2>6. CASE Begun(at, m) # {}
    <3>1. PICK a \in Begun(at, m) : \A b \in Begun(at, m) : a <= b
      BY <2>1, <2>6
    <3>2. a \in Begun(at, m + 1) /\ \A b \in Begun(at, m + 1) : a <= b
      BY <2>1, <2>2, <2>4, <3>1
    <3> QED
      BY <2>1, <3>2 DEF T
  <2> QED
    BY <2>5, <2>6
<1> HIDE DEF T
<1>3. T = Nat
  BY <1>1, <1>2, SetInduction DEF T
<1> QED
  BY <1>3 DEF T

\* Since when there is a pattern that begins so.
LEMMA SinceIs ==
  ASSUME Script, NEW at \in Seq(Segments), NEW n \in 0..Len(script), Begun(at, n) # {}
  PROVE  Since(at) \in Begun(at, n) /\ \A b \in Begun(at, n) : Since(at) <= b
<1> DEFINE all == Len(script)
           First(a) == /\ a \in Routes(all) /\ IsPrefix(at, script[a].pattern)
                       /\ \A b \in Routes(a - 1) : ~IsPrefix(at, script[b].pattern)
<1>0. all \in Nat /\ n \in Nat /\ n <= all
  BY DEF Script
<1>1. \A a \in Routes(all) : a \in 1..all /\ (IsPrefix(at, script[a].pattern) <=> Starts(at, script[a].pattern))
  <2> SUFFICES ASSUME NEW a \in Routes(all)
               PROVE  a \in 1..all /\ (IsPrefix(at, script[a].pattern) <=> Starts(at, script[a].pattern))
    OBVIOUS
  <2>1. a \in Nat /\ 1 <= a /\ a <= all /\ script[a].pattern \in Seq(Segments)
    BY <1>0, CallsAre
  <2> QED
    BY <1>0, <2>1, StartsIs
<1>2. Begun(at, n) \subseteq Begun(at, all)
  BY <1>0 DEF Begun, Routes
<1>3. PICK a \in Begun(at, all) : \A b \in Begun(at, all) : a <= b
  BY <1>0, <1>2, FirstBegun
<1>4. First(a)
  <2>1. a \in Routes(all) /\ Starts(at, script[a].pattern)
    BY DEF Begun
  <2>2. ASSUME NEW b \in Routes(a - 1) PROVE ~IsPrefix(at, script[b].pattern)
    <3>1. b \in Routes(all) /\ b < a
      BY <1>0, <1>1, <2>1 DEF Routes
    <3> QED
      BY <1>0, <1>1, <1>3, <2>1, <3>1 DEF Begun
  <2> QED
    BY <1>1, <2>1, <2>2
<1>5. Since(at) = CHOOSE c \in {c \in Routes(all) : First(c)} : TRUE
  <2>1. {c \in Routes(all) : First(c)}
          = {c \in Routes(all) : /\ IsPrefix(at, script[c].pattern)
                                /\ \A b \in Routes(c - 1) : ~IsPrefix(at, script[b].pattern)}
    OBVIOUS
  <2> QED
    BY <2>1 DEF Since, Only
<1>6. First(Since(at))
  BY <1>4, <1>5
<1>7. Since(at) = a
  <2>1. Since(at) \in Begun(at, all)
    BY <1>1, <1>6 DEF Begun
  <2>2. a <= Since(at) /\ a \in 1..all /\ Since(at) \in 1..all
    BY <1>1, <1>3, <2>1 DEF Begun
  <2>3. ~(a < Since(at))
    <3> SUFFICES ASSUME a < Since(at) PROVE FALSE
      OBVIOUS
    <3>1. a \in Routes(Since(at) - 1)
      BY <2>2 DEF Begun, Routes
    <3> QED
      BY <1>1, <1>6, <3>1 DEF Begun
  <2> QED
    BY <2>2, <2>3
<1>8. PICK b \in Begun(at, n) : TRUE
  OBVIOUS
<1>9. a <= b /\ a \in Nat /\ b \in Nat /\ b <= n /\ a >= 1
  BY <1>0, <1>1, <1>2, <1>3, <1>8 DEF Begun, Routes
<1>10. a \in Begun(at, n)
  BY <1>0, <1>9 DEF Begun, Routes
<1> QED
  BY <1>2, <1>3, <1>7, <1>10

LEMMA PrefixIs ==
  ASSUME NEW p \in Seq(Segments), NEW at \in Seq(Segments), Starts(at, p)
  PROVE  Len(at) \in 0..Len(p) /\ Prefix(p, Len(at)) = at
<1>1. Len(at) \in 0..Len(p)
  BY DEF Starts
<1> DEFINE s == Prefix(p, Len(at))
<1>2. s \in Seq(Segments) /\ Starts(s, p)
  BY <1>1, OnTheWay DEF Prefix
<1>3. Len(s) = Len(at)
  BY <1>1 DEF Prefix
<1> HIDE DEF s
<1>4. Starts(at, s)
  BY <1>2, <1>3, StartsOrder
<1>5. at = s
  BY <1>2, <1>3, <1>4, StartsIs
<1> QED
  BY <1>1, <1>5 DEF s

\* Children came one after the other: since when a route begins with each.
Aged(tree, n) ==
  \A at \in DOMAIN tree : \A k, l \in DOMAIN tree[at].children :
    k < l => \E a \in Begun(Append(at, tree[at].children[k]), n) :
               \A b \in Begun(Append(at, tree[at].children[l]), n) : a < b

Methods(at, n) == {script[i].method : i \in {i \in Routes(n) : script[i].pattern = at}}

\* What the calls have made of the handlers of a pattern.
RouteOf(i) == [handler |-> script[i].handler, middlewares |-> Around(i)]

Handlers(at, n) ==
  [m \in Methods(at, n) |-> RouteOf(Only(Latest(at, m, n)))]

\* The tree that n calls have made.
TreeRight(tree, n) ==
  /\ GoodTree(tree)
  /\ \A at \in Seq(Segments) : at \in DOMAIN tree <=> at = <<>> \/ Begun(at, n) # {}
  /\ Aged(tree, n)
  /\ \A at \in DOMAIN tree : tree[at].handlers = Handlers(at, n)

LEMMA ChildrenBegun ==
  ASSUME Script, NEW n \in 0..Len(script), NEW tree, TreeRight(tree, n), NEW at \in DOMAIN tree,
         NEW k \in DOMAIN tree[at].children
  PROVE  /\ at \in Seq(Segments) /\ tree[at].children[k] \in Segments
         /\ Append(at, tree[at].children[k]) \in Seq(Segments)
         /\ Begun(Append(at, tree[at].children[k]), n) # {}
<1>1. /\ at \in Seq(Segments) /\ tree[at].children \in Seq(Segments)
      /\ Append(at, tree[at].children[k]) \in DOMAIN tree
      /\ DOMAIN tree \subseteq Seq(Segments)
  BY DEF TreeRight, GoodTree, Grows
<1>2. tree[at].children[k] \in Segments
  BY <1>1
<1> DEFINE b == Append(at, tree[at].children[k])
<1>3. b \in Seq(Segments) /\ Len(b) = Len(at) + 1 /\ Len(at) \in Nat
  BY <1>1, <1>2, StartsNext
<1>4. b \in DOMAIN tree
  BY <1>1
<1> HIDE DEF b
<1>5. b # <<>>
  BY <1>3
<1>6. Begun(b, n) # {}
  BY <1>3, <1>4, <1>5 DEF TreeRight
<1> QED
  BY <1>1, <1>2, <1>3, <1>6 DEF b

\* The order in which a tree is searched is the order of the patterns.
LEMMA EarlierIsBefore ==
  ASSUME Script, NEW n \in 0..Len(script), NEW tree, TreeRight(tree, n),
         NEW p \in DOMAIN tree, NEW q \in DOMAIN tree, Earlier(tree, p, q)
  PROVE  Before(p, q)
<1>1. p \in Seq(Segments) /\ q \in Seq(Segments) /\ DOMAIN tree \subseteq Seq(Segments)
  BY DEF TreeRight, GoodTree, Grows
<1>2. PICK at \in DOMAIN tree : \E k, l \in DOMAIN tree[at].children :
        LET c == tree[at].children[k]
            d == tree[at].children[l]
        IN  /\ Starts(Append(at, c), p) /\ Starts(Append(at, d), q) /\ k # l
            /\ Weight[c.kind] < Weight[d.kind] \/ (Weight[c.kind] = Weight[d.kind] /\ k < l)
  BY DEF Earlier
<1>3. PICK k, l \in DOMAIN tree[at].children :
        LET c == tree[at].children[k]
            d == tree[at].children[l]
        IN  /\ Starts(Append(at, c), p) /\ Starts(Append(at, d), q) /\ k # l
            /\ Weight[c.kind] < Weight[d.kind] \/ (Weight[c.kind] = Weight[d.kind] /\ k < l)
  BY <1>2
<1> DEFINE c == tree[at].children[k]
           d == tree[at].children[l]
           i == Len(at) + 1
<1>4. /\ at \in Seq(Segments) /\ c \in Segments /\ d \in Segments
      /\ Append(at, c) \in Seq(Segments) /\ Append(at, d) \in Seq(Segments)
      /\ Begun(Append(at, c), n) # {} /\ Begun(Append(at, d), n) # {}
  BY ChildrenBegun
<1>5. /\ Starts(Append(at, c), p) /\ Starts(Append(at, d), q)
      /\ Weight[c.kind] < Weight[d.kind] \/ (Weight[c.kind] = Weight[d.kind] /\ k < l)
  BY <1>3
<1>5a. k < l => \E a \in Begun(Append(at, c), n) : \A b \in Begun(Append(at, d), n) : a < b
  BY DEF TreeRight, Aged
<1> HIDE DEF c, d
<1>6. /\ Len(Append(at, c)) = i /\ Len(Append(at, d)) = i
      /\ Starts(at, p) /\ Starts(at, q) /\ p[i] = c /\ q[i] = d
      /\ Len(at) < Len(p) /\ Len(at) < Len(q) /\ Len(at) \in Nat
  BY <1>1, <1>4, <1>5, StartsNext
<1>7. /\ Prefix(p, Len(at)) = at /\ Prefix(q, Len(at)) = at
      /\ Prefix(p, i) = Append(at, c) /\ Prefix(q, i) = Append(at, d)
  BY <1>1, <1>4, <1>5, <1>6, PrefixIs
<1>8. i \in DOMAIN p \cap DOMAIN q /\ i - 1 = Len(at)
  BY <1>1, <1>6
<1>9. ASSUME k < l PROVE Since(Append(at, c)) < Since(Append(at, d)) /\ c # d
  <2>1. PICK a \in Begun(Append(at, c), n) : \A b \in Begun(Append(at, d), n) : a < b
    BY <1>5a, <1>9
  <2>2. Since(Append(at, c)) \in Begun(Append(at, c), n) /\ Since(Append(at, c)) <= a
    BY <1>4, SinceIs
  <2>3. Since(Append(at, d)) \in Begun(Append(at, d), n)
    BY <1>4, SinceIs
  <2>4. Begun(Append(at, c), n) \subseteq Nat /\ Begun(Append(at, d), n) \subseteq Nat
    BY DEF Begun, Routes
  <2>5. a < Since(Append(at, d))
    BY <2>1, <2>3
  <2>6. ~(a < a)
    BY <2>1, <2>4
  <2> QED
    BY <2>1, <2>2, <2>3, <2>4, <2>5, <2>6
<1>10. c.kind \in Kinds /\ d.kind \in Kinds
  BY <1>4 DEF Segments, Kinds
<1>11. Weight[c.kind] \in Int /\ Weight[d.kind] \in Int
  BY <1>10, Weights DEF Kinds
<1>12. c # d
  BY <1>5, <1>9, <1>11
<1> HIDE DEF i
<1> QED
  BY <1>5, <1>6, <1>7, <1>8, <1>9, <1>12 DEF Before

\* Of two patterns, at most one is before the other.
LEMMA BeforeOneWay ==
  ASSUME Script, NEW n \in 0..Len(script), NEW p \in Seq(Segments), NEW q \in Seq(Segments),
         Begun(p, n) # {}, Begun(q, n) # {}, Before(p, q), Before(q, p)
  PROVE  FALSE
<1>1. PICK i \in DOMAIN p \cap DOMAIN q :
        /\ Prefix(p, i - 1) = Prefix(q, i - 1) /\ p[i] # q[i]
        /\ \/ Weight[p[i].kind] < Weight[q[i].kind]
           \/ Weight[p[i].kind] = Weight[q[i].kind] /\ Since(Prefix(p, i)) < Since(Prefix(q, i))
  BY DEF Before
<1>2. PICK j \in DOMAIN q \cap DOMAIN p :
        /\ Prefix(q, j - 1) = Prefix(p, j - 1) /\ q[j] # p[j]
        /\ \/ Weight[q[j].kind] < Weight[p[j].kind]
           \/ Weight[q[j].kind] = Weight[p[j].kind] /\ Since(Prefix(q, j)) < Since(Prefix(p, j))
  BY DEF Before
<1>3. ASSUME NEW a \in DOMAIN p \cap DOMAIN q, NEW b \in DOMAIN p \cap DOMAIN q, a < b,
             Prefix(p, b - 1) = Prefix(q, b - 1)
      PROVE  p[a] = q[a]
  <2>1. /\ a \in Nat /\ b \in Nat /\ 1 <= a /\ b <= Len(p) /\ b <= Len(q)
        /\ Len(p) \in Nat /\ Len(q) \in Nat
    OBVIOUS
  <2>2. \A s \in Seq(Segments) : b - 1 \in 0..Len(s) => Prefix(s, b - 1)[a] = s[a]
    <3> SUFFICES ASSUME NEW s \in Seq(Segments), b - 1 \in 0..Len(s) PROVE Prefix(s, b - 1)[a] = s[a]
      OBVIOUS
    <3> DEFINE t == Prefix(s, b - 1)
    <3>1. t \in Seq(Segments) /\ Starts(t, s)
      BY OnTheWay DEF Prefix
    <3>2. Len(t) = b - 1
      BY DEF Prefix
    <3> HIDE DEF t
    <3>3. a \in 1..Len(t)
      BY <1>3, <2>1, <3>2
    <3>4. t[a] = s[a]
      BY <3>1, <3>3 DEF Starts
    <3> QED
      BY <3>4 DEF t
  <2> QED
    BY <1>3, <2>1, <2>2
<1>4. i = j
  <2>1. i \in Nat /\ j \in Nat
    OBVIOUS
  <2>2. ~(i < j)
    BY <1>1, <1>2, <1>3
  <2>3. ~(j < i)
    BY <1>1, <1>2, <1>3
  <2> QED
    BY <2>1, <2>2, <2>3
<1>5. ASSUME NEW s \in Seq(Segments), Begun(s, n) # {}, i \in DOMAIN s
      PROVE  Since(Prefix(s, i)) \in Nat /\ Weight[s[i].kind] \in Nat
  <2>1. i \in 0..Len(s)
    BY <1>5
  <2>2. Prefix(s, i) \in Seq(Segments) /\ Starts(Prefix(s, i), s)
    BY <2>1, OnTheWay DEF Prefix
  <2>3. PICK r \in Begun(s, n) : TRUE
    BY <1>5
  <2>4. script[r].pattern \in Seq(Segments) /\ Starts(s, script[r].pattern) /\ r \in Routes(n)
    BY <2>3, CallsAre DEF Begun
  <2>5. Starts(Prefix(s, i), script[r].pattern)
    <3> DEFINE t == Prefix(s, i)
               u == script[r].pattern
    <3>1. t \in Seq(Segments) /\ s \in Seq(Segments) /\ u \in Seq(Segments) /\ Starts(t, s) /\ Starts(s, u)
      BY <2>2, <2>4
    <3> HIDE DEF t, u
    <3>2. Len(t) \in Nat /\ Len(s) \in Nat /\ Len(u) \in Nat
      BY <3>1
    <3>3. Starts(t, u)
      BY <3>1, <3>2 DEF Starts
    <3> QED
      BY <3>3 DEF t, u
  <2>6. Begun(Prefix(s, i), n) # {}
    BY <2>4, <2>5 DEF Begun
  <2>7. Since(Prefix(s, i)) \in Nat
    BY <2>2, <2>6, SinceIs DEF Begun, Routes
  <2>8. s[i] \in Segments
    BY <1>5
  <2>9. s[i].kind \in Kinds
    BY <2>8 DEF Segments, Kinds
  <2>10. Weight[s[i].kind] \in Nat
    BY <2>9, OwnWeight
  <2> QED
    BY <2>7, <2>10
<1>6. /\ Since(Prefix(p, i)) \in Nat /\ Weight[p[i].kind] \in Nat
      /\ Since(Prefix(q, i)) \in Nat /\ Weight[q[i].kind] \in Nat
  BY <1>5
<1> QED
  BY <1>1, <1>2, <1>4, <1>6

------------------------------------------------------------------------------
(* A match gives a request what there is for it                            *)

LEMMA LatestIs ==
  ASSUME Script, NEW n \in 0..Len(script), NEW at, NEW m \in Methods(at, n)
  PROVE  \E i \in Routes(n) : /\ Latest(at, m, n) = {i}
                              /\ script[i].pattern = at /\ script[i].method = m
<1> DEFINE Same(k) == {i \in Routes(k) : script[i].pattern = at /\ script[i].method = m}
           T == {k \in Nat : k <= n /\ Same(k) # {} => \E i \in Same(k) : \A j \in Same(k) : j <= i}
<1>0. n \in Nat
  BY DEF Script
<1>1. 0 \in T
  BY DEF Routes
<1>2. ASSUME NEW k \in T PROVE k + 1 \in T
  <2>1. Same(k) \subseteq 1..k /\ Same(k + 1) \subseteq 1..(k + 1) /\ k \in Nat
    BY DEF Routes
  <2>2. (\A b \in 1..(k + 1) : b \in 1..k \/ b = k + 1) /\ 1..k \subseteq 1..(k + 1)
    BY <2>1
  <2>3. /\ \A b \in Same(k + 1) : b \in Same(k) \/ b = k + 1
        /\ Same(k) \subseteq Same(k + 1)
    BY <2>2 DEF Routes
  <2>4. k <= n /\ Same(k) # {} => \E i \in Same(k) : \A j \in Same(k) : j <= i
    OBVIOUS
  <2> HIDE DEF T, Same
  <2>5. CASE k + 1 \in Same(k + 1)
    <3>1. \A j \in Same(k + 1) : j <= k + 1
      BY <2>1
    <3> QED
      BY <2>1, <2>5, <3>1 DEF T
  <2>6. CASE k + 1 \notin Same(k + 1)
    <3>1. Same(k + 1) = Same(k)
      BY <2>3, <2>6
    <3>2. k + 1 <= n => k <= n
      BY <1>0, <2>1
    <3> QED
      BY <2>1, <2>4, <3>1, <3>2 DEF T
  <2> QED
    BY <2>5, <2>6
<1> HIDE DEF T
<1>3. T = Nat
  BY <1>1, <1>2, SetInduction DEF T
<1>4. PICK r \in Routes(n) : script[r].pattern = at /\ script[r].method = m
  BY DEF Methods
<1>5. r \in Same(n)
  BY <1>4
<1>6. PICK i \in Same(n) : \A j \in Same(n) : j <= i
  BY <1>0, <1>3, <1>5 DEF T
<1>7. Same(n) \subseteq Int
  BY DEF Routes
<1>8. Latest(at, m, n) = {j \in Same(n) : \A k \in Same(n) : k <= j}
  BY DEF Latest
<1>9. i \in Routes(n) /\ script[i].pattern = at /\ script[i].method = m
  BY <1>6
<1> HIDE DEF Same
<1>10. Latest(at, m, n) = {i}
  BY <1>6, <1>7, <1>8
<1> QED
  BY <1>9, <1>10

LEMMA NotLatest ==
  ASSUME NEW n, NEW at, NEW m, m \notin Methods(at, n)
  PROVE  Latest(at, m, n) = {}
BY DEF Latest, Methods

\* What the handlers of a pattern that was added are.
LEMMA HandlersAre ==
  ASSUME Script, NEW n \in 0..Len(script), NEW at
  PROVE  /\ DOMAIN Handlers(at, n) = Methods(at, n)
         /\ Handlers(at, n) = None <=> \A i \in Routes(n) : script[i].pattern # at
         /\ \A m \in Methods(at, n) : \E i \in Routes(n) :
              /\ Latest(at, m, n) = {i} /\ script[i].pattern = at
              /\ Handlers(at, n)[m].handler = script[i].handler
              /\ Handlers(at, n)[m].middlewares = Around(i)
<1>1. DOMAIN Handlers(at, n) = Methods(at, n)
  BY DEF Handlers
<1>2. Handlers(at, n) = None <=> Methods(at, n) = {}
  <2>1. ASSUME Methods(at, n) = {} PROVE Handlers(at, n) = None
    <3> DEFINE F(m) == RouteOf(Only(Latest(at, m, n)))
    <3>1. Handlers(at, n) = [m \in {} |-> F(m)]
      BY <2>1 DEF Handlers
    <3> HIDE DEF F
    <3>2. [m \in {} |-> F(m)] = [m \in {} |-> m]
      OBVIOUS
    <3> QED
      BY <3>1, <3>2 DEF None
  <2>2. DOMAIN None = {}
    BY DEF None
  <2> QED
    BY <1>1, <2>1, <2>2
<1>3. Methods(at, n) = {} <=> \A i \in Routes(n) : script[i].pattern # at
  BY DEF Methods
<1>4. ASSUME NEW m \in Methods(at, n)
      PROVE  \E i \in Routes(n) :
               /\ Latest(at, m, n) = {i} /\ script[i].pattern = at
               /\ Handlers(at, n)[m].handler = script[i].handler
               /\ Handlers(at, n)[m].middlewares = Around(i)
  <2>1. PICK i \in Routes(n) : Latest(at, m, n) = {i} /\ script[i].pattern = at
    BY LatestIs
  <2>2. Only(Latest(at, m, n)) = i
    BY <2>1 DEF Only
  <2>3. Handlers(at, n)[m] = RouteOf(i)
    BY <2>2 DEF Handlers
  <2> QED
    BY <2>1, <2>3 DEF RouteOf
<1> QED
  BY <1>1, <1>2, <1>3, <1>4

\* The patterns for a path, of those added, are those below the root.
LEMMA BelowRoot ==
  ASSUME Script, NEW n \in 0..Len(script), NEW tree, TreeRight(tree, n), NEW path
  PROVE  Below(tree, <<>>, path) = {p \in {script[i].pattern : i \in Routes(n)} : Covers(p, path)}
<1>1. ASSUME NEW p \in DOMAIN tree
      PROVE  Starts(<<>>, p) /\ (tree[p].handlers # None <=> \E i \in Routes(n) : script[i].pattern = p)
  <2>1. p \in Seq(Segments)
    BY DEF TreeRight, GoodTree, Grows
  <2>2. Len(p) \in Nat /\ Len(<<>>) = 0 /\ 1..0 = {}
    BY <2>1
  <2>3. Starts(<<>>, p)
    BY <2>2 DEF Starts
  <2>4. tree[p].handlers = Handlers(p, n)
    BY DEF TreeRight
  <2> QED
    BY <2>3, <2>4, HandlersAre
<1>2. ASSUME NEW i \in Routes(n) PROVE script[i].pattern \in DOMAIN tree
  <2> DEFINE p == script[i].pattern
  <2>1. p \in Seq(Segments) /\ Len(p) \in Nat
    BY CallsAre
  <2>2. Starts(p, p)
    BY <2>1 DEF Starts
  <2>3. Begun(p, n) # {}
    BY <2>2 DEF Begun
  <2> QED
    BY <2>1, <2>3 DEF TreeRight
<1> QED
  BY <1>1, <1>2 DEF Below

\* What is found is what is best, and best alone.
LEMMA FoundIsBest ==
  ASSUME Script, NEW n \in 0..Len(script), NEW tree, TreeRight(tree, n), NEW path \in Seq(STRING),
         NEW p \in Below(tree, <<>>, path), Leads(tree, p, Below(tree, <<>>, path))
  PROVE  Best(path, n) = {p} /\ p \in Seq(Segments) /\ WellFormed(p) /\ p \in DOMAIN tree
<1> DEFINE all == Below(tree, <<>>, path)
<1>1. all = {q \in {script[i].pattern : i \in Routes(n)} : Covers(q, path)}
  BY BelowRoot
<1>2. all \subseteq DOMAIN tree
  BY DEF Below
<1>3. \A q \in all : q # p => Before(p, q)
  BY <1>2, EarlierIsBefore DEF Leads
<1>4. ASSUME NEW q \in all
      PROVE  q \in Seq(Segments) /\ WellFormed(q) /\ Begun(q, n) # {}
  <2>1. PICK i \in Routes(n) : script[i].pattern = q
    BY <1>1
  <2>2. q \in Seq(Segments) /\ WellFormed(q)
    BY <2>1, CallsAre
  <2>3. Starts(q, q)
    BY <2>2 DEF Starts
  <2> QED
    BY <2>1, <2>2, <2>3 DEF Begun
<1>5. Best(path, n) = {r \in all : \A q \in all : q # r => Before(r, q)}
  BY <1>1 DEF Best
<1>6. p \in all
  OBVIOUS
<1> HIDE DEF all
<1>7. ASSUME NEW r \in Best(path, n) PROVE r = p
  <2> SUFFICES ASSUME r # p PROVE FALSE
    OBVIOUS
  <2>1. r \in all /\ Before(r, p) /\ Before(p, r)
    BY <1>3, <1>5, <1>6
  <2> QED
    BY <1>4, <1>6, <2>1, BeforeOneWay
<1>8. p \in Best(path, n)
  BY <1>3, <1>5, <1>6
<1> QED
  BY <1>2, <1>4, <1>6, <1>7, <1>8

\* The parameters a pattern binds have a value, and the others none.
LEMMA ParamsRight ==
  ASSUME NEW tree, NEW p \in DOMAIN tree, p \in Seq(Segments), WellFormed(p),
         NEW path \in Seq(STRING), Len(p) <= Len(path), NEW handler, NEW middlewares
  PROVE  Matched(handler, middlewares, Bindings(tree, p, path)).params = Bound(p, path)
<1> DEFINE b == Bindings(tree, p, path)
           Binding == {i \in DOMAIN p : p[i].kind # "static"}
           bound == {p[i].part : i \in Binding}
           At(name) == CHOOSE i \in DOMAIN p : p[i].kind # "static" /\ p[i].part = name
           Value(name) == IF p[At(name)].kind = "param" THEN <<path[At(name)]>>
                          ELSE SubSeq(path, At(name), Len(path))
<1>1. ASSUME NEW name PROVE name \in bound <=> BindsAt(name, p) # {}
  BY DEF BindsAt
<1>2. ASSUME NEW name \in bound
      PROVE  ValueOf(name, p, path) = Value(name) /\ Value(name) # <<>>
  <2>1. PICK i \in DOMAIN p : p[i].kind # "static" /\ p[i].part = name
    OBVIOUS
  <2>2. ASSUME NEW j \in DOMAIN p, p[j].kind # "static", p[j].part = name PROVE j = i
    <3> SUFFICES ASSUME j # i PROVE FALSE
      OBVIOUS
    <3>1. "static" \notin {p[i].kind, p[j].kind}
      BY <2>1, <2>2
    <3> QED
      BY <2>1, <2>2, <3>1 DEF WellFormed
  <2>3. At(name) = i
    BY <2>1, <2>2
  <2>4. BindsAt(name, p) = {i}
    BY <2>1, <2>2 DEF BindsAt
  <2>5. (CHOOSE j \in BindsAt(name, p) : TRUE) = i
    BY <2>4
  <2>6. ValueOf(name, p, path) = IF p[i].kind = "param" THEN <<path[i]>> ELSE SubSeq(path, i, Len(path))
    BY <2>4, <2>5 DEF ValueOf
  <2>7. Value(name) = IF p[i].kind = "param" THEN <<path[i]>> ELSE SubSeq(path, i, Len(path))
    BY <2>3
  <2>8. i \in 1..Len(path)
    OBVIOUS
  <2>9. SubSeq(path, i, Len(path)) # <<>> /\ <<path[i]>> # <<>>
    BY <2>8, RestIs
  <2> QED
    BY <2>6, <2>7, <2>9
<1>3. bound \subseteq Names(tree)
  <2> SUFFICES ASSUME NEW i \in DOMAIN p PROVE p[i].part \in Names(tree)
    OBVIOUS
  <2>1. p[i] \in Range(p)
    BY DEF Range
  <2> QED
    BY <2>1 DEF Names
<1>4. Bound(p, path) = [name \in bound |-> Value(name)]
  BY DEF Bound
<1> HIDE DEF bound, Value, Binding
<1>5. DOMAIN b = Names(tree) /\ \A name \in Names(tree) : b[name] = ValueOf(name, p, path)
  BY DEF Bindings
<1> HIDE DEF b
<1>6. \A name : name \notin bound => ValueOf(name, p, path) = <<>>
  BY <1>1 DEF ValueOf
<1>7. {name \in DOMAIN b : b[name] # <<>>} = bound
  BY <1>2, <1>3, <1>5, <1>6
<1>8. Matched(handler, middlewares, b).params = [name \in bound |-> b[name]]
  BY <1>7 DEF Matched
<1>9. \A name \in bound : b[name] = Value(name)
  BY <1>2, <1>3, <1>5
<1> QED
  BY <1>4, <1>8, <1>9 DEF b

\* Match returns nothing if there is nothing for a request, and else what it
\* must be given.
LEMMA MatchRight ==
  ASSUME Script, NEW n \in 0..Len(script), NEW tree, TreeRight(tree, n), NEW r, r.path \in Seq(STRING)
  PROVE  /\ Match(tree, r.method, r.path) = {} => Nowhere(r, n)
         /\ \A m \in Match(tree, r.method, r.path) : ~Nowhere(r, n) /\ Reaches(r, n, m)
<1> DEFINE found == Search(tree, r.path)
           none == [name \in Names(tree) |-> <<>>]
           handlers == tree[found.node[1]].handlers
           all == Below(tree, <<>>, r.path)
           matches == Match(tree, r.method, r.path)
<1>1. Outcome(tree, r.path, found, <<>>, none)
  BY SearchRight DEF TreeRight
<1>2. CASE found.node = <<>>
  <2>1. all = {}
    BY <1>1, <1>2 DEF Outcome
  <2>2. Best(r.path, n) = {}
    BY <2>1, BelowRoot DEF Best
  <2>3. matches = {}
    BY <1>2 DEF Match
  <2> QED
    BY <2>2, <2>3 DEF Nowhere
<1>3. CASE found.node # <<>>
  <2>1. PICK p \in all : /\ found.node = <<p>> /\ found.params = Bindings(tree, p, r.path)
                         /\ Leads(tree, p, all)
    BY <1>1, <1>3 DEF Outcome
  <2>2. Best(r.path, n) = {p} /\ p \in Seq(Segments) /\ WellFormed(p) /\ p \in DOMAIN tree
    BY <2>1, FoundIsBest
  <2>3. Chosen(r, n) = p
    BY <2>2 DEF Chosen, Only
  <2>4. Covers(p, r.path) /\ tree[p].handlers # None
    BY DEF Below
  <2>5. handlers = Handlers(p, n)
    BY <2>1, <2>2 DEF TreeRight
  <2>6. Len(p) <= Len(r.path)
    BY <2>2, <2>4, CoversIs
  <2>7. \A handler, middlewares :
          /\ Matched(handler, middlewares, found.params).handler = handler
          /\ Matched(handler, middlewares, found.params).middlewares = middlewares
          /\ Matched(handler, middlewares, found.params).params = Bound(p, r.path)
    <3> TAKE handler, middlewares
    <3>1. Matched(handler, middlewares, found.params).params = Bound(p, r.path)
      BY <2>1, <2>2, <2>6, ParamsRight
    <3> QED
      BY <3>1 DEF Matched
  <2>8. DOMAIN handlers = Methods(p, n) /\ Methods(p, n) # {}
    <3>1. Handlers(p, n) # None
      BY <2>2, <2>4 DEF TreeRight
    <3>2. PICK i \in Routes(n) : script[i].pattern = p
      BY <3>1, HandlersAre
    <3>3. script[i].method \in Methods(p, n)
      BY <3>2 DEF Methods
    <3> QED
      BY <2>5, <3>3, HandlersAre
  <2>9. /\ \A m \in Methods(p, n) : \E i \in Routes(n) :
             /\ Latest(p, m, n) = {i} /\ script[i].pattern = p
             /\ handlers[m].handler = script[i].handler
             /\ handlers[m].middlewares = Around(i)
        /\ \A m : m \notin Methods(p, n) => Latest(p, m, n) = {}
    BY <2>5, HandlersAre, NotLatest
  <2>10. /\ Exact(r, n) = Latest(p, r.method, n) /\ Fallback(r, n) = Latest(p, "*", n)
         /\ Nowhere(r, n) <=> Exact(r, n) = {} /\ Fallback(r, n) = {} /\ r.method # "OPTIONS"
    BY <2>2, <2>3 DEF Exact, Fallback, Nowhere
  <2> DEFINE params == found.params
  <2>11. matches = CASE r.method \in DOMAIN handlers ->
                          {Matched(handlers[r.method].handler, handlers[r.method].middlewares, params)}
                     [] r.method \notin DOMAIN handlers /\ "*" \in DOMAIN handlers ->
                          {Matched(handlers["*"].handler, <<>>, params)}
                     [] DOMAIN handlers \cap {r.method, "*"} = {} ->
                          {Matched("preflight", handlers[m].middlewares, params) :
                             m \in {m \in DOMAIN handlers : r.method = "OPTIONS"}}
    <3>1. found.node # <<>>
      BY <1>3
    <3> HIDE DEF found
    <3>2. CASE r.method \in DOMAIN handlers
      <4>1. matches = {Matched(handlers[r.method].handler, handlers[r.method].middlewares, params)}
        BY <3>1, <3>2 DEF Match, found
      <4> QED
        BY <3>2, <4>1
    <3>3. CASE r.method \notin DOMAIN handlers /\ "*" \in DOMAIN handlers
      <4>1. matches = {Matched(handlers["*"].handler, <<>>, params)}
        BY <3>1, <3>3 DEF Match, found
      <4> QED
        BY <3>3, <4>1
    <3>4. CASE DOMAIN handlers \cap {r.method, "*"} = {}
      <4>1. matches = {Matched("preflight", handlers[m].middlewares, params) :
                         m \in {m \in DOMAIN handlers : r.method = "OPTIONS"}}
        BY <3>1, <3>4 DEF Match, found
      <4> QED
        BY <3>4, <4>1
    <3> QED
      BY <3>2, <3>3, <3>4
  <2> HIDE DEF matches, handlers, params, found
  <2>12. CASE r.method \in DOMAIN handlers
    <3> DEFINE m == Matched(handlers[r.method].handler, handlers[r.method].middlewares, params)
    <3>1. matches = {m}
      BY <2>11, <2>12
    <3>2. PICK i \in Routes(n) : /\ Latest(p, r.method, n) = {i}
                                 /\ handlers[r.method].handler = script[i].handler
                                 /\ handlers[r.method].middlewares = Around(i)
      BY <2>8, <2>9, <2>12
    <3>3. Exact(r, n) = {i}
      BY <2>10, <3>2
    <3>4. m.handler = script[i].handler /\ m.middlewares = Around(i) /\ m.params = Bound(p, r.path)
      BY <2>7, <3>2 DEF params
    <3> HIDE DEF m
    <3>5. ~Nowhere(r, n) /\ Reaches(r, n, m)
      BY <2>3, <2>10, <3>3, <3>4 DEF Reaches
    <3> QED
      BY <3>1, <3>5 DEF matches
  <2>13. CASE r.method \notin DOMAIN handlers /\ "*" \in DOMAIN handlers
    <3> DEFINE m == Matched(handlers["*"].handler, <<>>, params)
    <3>1. matches = {m}
      BY <2>11, <2>13
    <3>2. PICK i \in Routes(n) : Latest(p, "*", n) = {i} /\ handlers["*"].handler = script[i].handler
      BY <2>8, <2>9, <2>13
    <3>3. Exact(r, n) = {} /\ Fallback(r, n) = {i}
      BY <2>8, <2>9, <2>10, <2>13, <3>2
    <3>4. m.handler = script[i].handler /\ m.params = Bound(p, r.path)
      BY <2>7, <3>2 DEF params
    <3> HIDE DEF m
    <3>5. ~Nowhere(r, n) /\ Reaches(r, n, m)
      BY <2>3, <2>10, <3>3, <3>4 DEF Reaches
    <3> QED
      BY <3>1, <3>5 DEF matches
  <2>14. CASE DOMAIN handlers \cap {r.method, "*"} = {}
    <3>1. matches = {Matched("preflight", handlers[m].middlewares, params) :
                       m \in {m \in DOMAIN handlers : r.method = "OPTIONS"}}
      BY <2>11, <2>14
    <3>2. Exact(r, n) = {} /\ Fallback(r, n) = {}
      BY <2>8, <2>9, <2>10, <2>14
    <3>3. matches = {} => Nowhere(r, n)
      BY <2>8, <2>10, <3>1, <3>2
    <3>4. ASSUME NEW m \in matches PROVE ~Nowhere(r, n) /\ Reaches(r, n, m)
      <4>1. PICK d \in DOMAIN handlers :
              r.method = "OPTIONS" /\ m = Matched("preflight", handlers[d].middlewares, params)
        BY <3>1
      <4>2. PICK i \in Routes(n) : script[i].pattern = p /\ handlers[d].middlewares = Around(i)
        BY <2>8, <2>9
      <4>3. m.middlewares = Around(i) /\ m.params = Bound(p, r.path)
        BY <2>7, <4>1, <4>2 DEF params
      <4> QED
        BY <2>3, <2>10, <3>2, <4>1, <4>2, <4>3 DEF Reaches
    <3> QED
      BY <3>3, <3>4 DEF matches
  <2> QED
    BY <2>12, <2>13, <2>14
<1> QED
  BY <1>2, <1>3

------------------------------------------------------------------------------
(* The calls of a program, one after the other                             *)

LEMMA UsesFinite ==
  ASSUME NEW n \in Nat
  PROVE  IsFiniteSet(Uses(n)) /\ Cardinality(Uses(n)) \in Nat
<1>1. Uses(n) \in SUBSET (1..n) /\ IsFiniteSet(1..n)
  BY FS_Interval DEF Uses
<1>2. IsFiniteSet(Uses(n))
  BY <1>1, FS_Subset
<1> QED
  BY <1>2, FS_CardinalityType

\* A Use more is the last of the middlewares of the router.
LEMMA UsedNext ==
  ASSUME NEW n \in Nat, script[n + 1].call = "Use", IsList(Used(n))
  PROVE  Used(n + 1) = Append(Used(n), script[n + 1].middleware)
<1> DEFINE c == Cardinality(Uses(n))
           M(k) == script[Only(Ranked(n, k))].middleware
           N(k) == script[Only(Ranked(n + 1, k))].middleware
           first == <<"recovery", "requestid", "security">>
           e == script[n + 1].middleware
<1>1. Uses(n + 1) = Uses(n) \cup {n + 1} /\ n + 1 \notin Uses(n)
  <2>1. \A j \in 1..(n + 1) : j \in 1..n \/ j = n + 1
    OBVIOUS
  <2>2. 1..n \subseteq 1..(n + 1) /\ n + 1 \in 1..(n + 1) /\ n + 1 \notin 1..n
    OBVIOUS
  <2> QED
    BY <2>1, <2>2 DEF Uses
<1>2. Cardinality(Uses(n + 1)) = c + 1 /\ c \in Nat
  BY <1>1, UsesFinite, FS_AddElement
<1>3. ASSUME NEW j \in Uses(n) PROVE Cardinality(Uses(j)) <= c /\ Cardinality(Uses(j)) \in Nat
  <2>1. j \in 1..n /\ j \in Nat
    BY DEF Uses
  <2>2. 1..j \subseteq 1..n
    BY <2>1
  <2>3. Uses(j) \in SUBSET Uses(n)
    BY <2>2 DEF Uses
  <2>4. Cardinality(Uses(j)) <= Cardinality(Uses(n))
    BY <2>3, UsesFinite, FS_Subset
  <2> QED
    BY <2>1, <2>4, UsesFinite
<1>4. ASSUME NEW k \in 1..c PROVE N(k) = M(k)
  <2>1. k # c + 1
    BY <1>2
  <2>2. Ranked(n + 1, k) = Ranked(n, k)
    BY <1>1, <1>2, <2>1 DEF Ranked
  <2> QED
    BY <2>2
<1>5. N(c + 1) = e
  <2>1. \A j \in Uses(n) : Cardinality(Uses(j)) # c + 1
    BY <1>2, <1>3
  <2>2. Ranked(n + 1, c + 1) = {n + 1}
    BY <1>1, <1>2, <2>1 DEF Ranked
  <2> QED
    BY <2>2 DEF Only
<1> HIDE DEF M, N, first, e
<1> DEFINE old == [k \in 1..c |-> M(k)]
           new == [k \in 1..(c + 1) |-> N(k)]
           V == {M(k) : k \in 1..c} \cup {e} \cup {"recovery", "requestid", "security"}
<1>6. Used(n) = first \o old /\ Used(n + 1) = first \o new
  BY <1>2 DEF Used, M, N, first
<1> HIDE DEF c
<1>7. first \in Seq(V) /\ Len(first) = 3
  BY DEF first
<1>8. old \in Seq(V) /\ Len(old) = c
  BY <1>2
<1>9. new \in Seq(V) /\ Len(new) = c + 1
  <2>1. \A k \in 1..(c + 1) : k \in 1..c \/ k = c + 1
    BY <1>2
  <2>2. \A k \in 1..(c + 1) : N(k) \in V
    BY <1>4, <1>5, <2>1
  <2> QED
    BY <1>2, <2>2
<1>10. e \in V
  OBVIOUS
<1> HIDE DEF V, old
<1>10a. \A k \in 1..c : old[k] = M(k)
  BY DEF old
<1>11. new = Append(old, e)
  <2>1. Append(old, e) \in Seq(V) /\ Len(Append(old, e)) = c + 1
    BY <1>8, <1>10
  <2>2. ASSUME NEW k \in 1..(c + 1) PROVE new[k] = Append(old, e)[k]
    <3>1. CASE k = c + 1
      BY <1>2, <1>5, <1>8, <3>1
    <3>2. CASE k # c + 1
      <4>1. k \in 1..c
        BY <1>2, <3>2
      <4>2. new[k] = N(k) /\ old[k] = M(k)
        BY <1>10a, <4>1
      <4>3. Append(old, e)[k] = old[k]
        BY <1>8, <1>10, <4>1
      <4> QED
        BY <1>4, <4>1, <4>2, <4>3
    <3> QED
      BY <3>1, <3>2
  <2> QED
    BY <1>9, <2>1, <2>2, SeqEqual
<1> HIDE DEF new
<1>12. first \o Append(old, e) = Append(first \o old, e)
  BY <1>7, <1>8, <1>10
<1> QED
  BY <1>6, <1>11, <1>12 DEF e

\* A call that adds a route uses nothing.
LEMMA UsedStays ==
  ASSUME NEW n \in Nat, script[n + 1].call # "Use"
  PROVE  Used(n + 1) = Used(n)
<1>1. \A j \in 1..(n + 1) : j \in 1..n \/ j = n + 1
  OBVIOUS
<1>2. 1..n \subseteq 1..(n + 1)
  OBVIOUS
<1>3. Uses(n + 1) = Uses(n)
  BY <1>1, <1>2 DEF Uses
<1>4. \A k : Ranked(n + 1, k) = Ranked(n, k)
  BY <1>3 DEF Ranked
<1>5. [k \in 1..Cardinality(Uses(n)) |-> script[Only(Ranked(n + 1, k))].middleware]
        = [k \in 1..Cardinality(Uses(n)) |-> script[Only(Ranked(n, k))].middleware]
  BY <1>4
<1> QED
  BY <1>3, <1>5 DEF Used

\* A Use leaves the tree right, and a route more makes it so again.
LEMMA UseRight ==
  ASSUME NEW n \in Nat, script[n + 1].call = "Use", NEW tree, TreeRight(tree, n)
  PROVE  TreeRight(tree, n + 1)
<1>1. \A j \in 1..(n + 1) : j \in 1..n \/ j = n + 1
  OBVIOUS
<1>2. 1..n \subseteq 1..(n + 1)
  OBVIOUS
<1>3. Routes(n + 1) = Routes(n)
  BY <1>1, <1>2 DEF Routes
<1>4. \A at : Begun(at, n + 1) = Begun(at, n) /\ Methods(at, n + 1) = Methods(at, n)
  BY <1>3 DEF Begun, Methods
<1>5. \A at, m : Latest(at, m, n + 1) = Latest(at, m, n)
  BY <1>3 DEF Latest
<1>6. \A at : Handlers(at, n + 1) = Handlers(at, n)
  BY <1>4, <1>5 DEF Handlers
<1>7. Aged(tree, n + 1)
  <2> SUFFICES ASSUME NEW at \in DOMAIN tree, NEW k \in DOMAIN tree[at].children,
                      NEW l \in DOMAIN tree[at].children, k < l
               PROVE  \E a \in Begun(Append(at, tree[at].children[k]), n + 1) :
                        \A b \in Begun(Append(at, tree[at].children[l]), n + 1) : a < b
    BY DEF Aged
  <2>1. PICK a \in Begun(Append(at, tree[at].children[k]), n) :
          \A b \in Begun(Append(at, tree[at].children[l]), n) : a < b
    BY DEF TreeRight, Aged
  <2> QED
    BY <1>4, <2>1
<1>8. \A at \in Seq(Segments) : at \in DOMAIN tree <=> at = <<>> \/ Begun(at, n + 1) # {}
  BY <1>4 DEF TreeRight
<1>9. \A at \in DOMAIN tree : tree[at].handlers = Handlers(at, n + 1)
  BY <1>6 DEF TreeRight
<1> QED
  BY <1>7, <1>8, <1>9 DEF TreeRight

LEMMA HandlersNext ==
  ASSUME NEW n \in Nat, script[n + 1].call = "AddRoute", NEW at
  PROVE  /\ at # script[n + 1].pattern => Handlers(at, n + 1) = Handlers(at, n)
         /\ at = script[n + 1].pattern =>
              LET method == script[n + 1].method
                  old == Handlers(at, n)
              IN  Handlers(at, n + 1) = [m \in (DOMAIN old) \cup {method} |->
                                           IF m = method THEN RouteOf(n + 1) ELSE old[m]]
<1> DEFINE method == script[n + 1].method
<1>1. Routes(n + 1) = Routes(n) \cup {n + 1} /\ \A i \in Routes(n) : i \in Nat /\ i < n + 1
  <2>1. \A j \in 1..(n + 1) : j \in 1..n \/ j = n + 1
    OBVIOUS
  <2>2. 1..n \subseteq 1..(n + 1) /\ n + 1 \in 1..(n + 1)
    OBVIOUS
  <2>3. \A i \in 1..n : i \in Nat /\ i < n + 1
    OBVIOUS
  <2> QED
    BY <2>1, <2>2, <2>3 DEF Routes
<1>2. ASSUME NEW m, at # script[n + 1].pattern \/ m # method
      PROVE  Latest(at, m, n + 1) = Latest(at, m, n)
  BY <1>1, <1>2 DEF Latest
<1>3. ASSUME at # script[n + 1].pattern
      PROVE  Handlers(at, n + 1) = Handlers(at, n)
  <2>1. Methods(at, n + 1) = Methods(at, n)
    BY <1>1, <1>3 DEF Methods
  <2> QED
    BY <1>2, <1>3, <2>1 DEF Handlers
<1>4. ASSUME at = script[n + 1].pattern
      PROVE  Handlers(at, n + 1) = [m \in (DOMAIN Handlers(at, n)) \cup {method} |->
                                      IF m = method THEN RouteOf(n + 1) ELSE Handlers(at, n)[m]]
  <2>1. Methods(at, n + 1) = Methods(at, n) \cup {method}
    BY <1>1, <1>4 DEF Methods
  <2>2. Latest(at, method, n + 1) = {n + 1}
    <3> DEFINE same == {i \in Routes(n + 1) : script[i].pattern = at /\ script[i].method = method}
    <3>1. n + 1 \in same /\ \A i \in same : i \in Nat /\ i <= n + 1
      BY <1>1, <1>4
    <3>2. Latest(at, method, n + 1) = {i \in same : \A j \in same : j <= i}
      BY DEF Latest
    <3> HIDE DEF same
    <3>3. \A i \in same : (\A j \in same : j <= i) <=> i = n + 1
      BY <3>1
    <3> QED
      BY <3>1, <3>2, <3>3
  <2>3. Only(Latest(at, method, n + 1)) = n + 1
    BY <2>2 DEF Only
  <2>4. DOMAIN Handlers(at, n) = Methods(at, n)
    BY DEF Handlers
  <2> DEFINE G(m) == RouteOf(Only(Latest(at, m, n + 1)))
             F(m) == RouteOf(Only(Latest(at, m, n)))
             H(m) == IF m = method THEN RouteOf(n + 1) ELSE Handlers(at, n)[m]
  <2>5. G(method) = RouteOf(n + 1)
    BY <2>3
  <2>6. \A m : m # method => G(m) = F(m)
    BY <1>2
  <2>7. /\ Handlers(at, n + 1) = [m \in Methods(at, n) \cup {method} |-> G(m)]
        /\ \A m \in Methods(at, n) : Handlers(at, n)[m] = F(m)
    BY <2>1 DEF Handlers
  <2> HIDE DEF F, G
  <2>8. \A m \in Methods(at, n) \cup {method} : G(m) = H(m)
    BY <2>5, <2>6, <2>7
  <2> HIDE DEF H
  <2>9. Handlers(at, n + 1) = [m \in Methods(at, n) \cup {method} |-> H(m)]
    BY <2>7, <2>8
  <2> QED
    BY <2>4, <2>9 DEF H
<1> QED
  BY <1>3, <1>4

LEMMA AddRight ==
  ASSUME Script, NEW n \in Nat, n < Len(script), script[n + 1].call = "AddRoute",
         NEW tree, TreeRight(tree, n)
  PROVE  TreeRight(AddRoute(tree, script[n + 1].pattern, script[n + 1].method, RouteOf(n + 1)), n + 1)
<1> DEFINE pattern == script[n + 1].pattern
           method == script[n + 1].method
           new == AddRoute(tree, pattern, method, RouteOf(n + 1))
<1>1. GoodTree(tree)
  BY DEF TreeRight
<1>2. Len(script) \in Nat /\ n + 1 \in 0..Len(script) /\ n \in 0..Len(script)
  BY DEF Script
<1>3. Routes(n + 1) = Routes(n) \cup {n + 1} /\ \A i \in Routes(n) : i \in Nat /\ i < n + 1
  <2>1. \A j \in 1..(n + 1) : j \in 1..n \/ j = n + 1
    OBVIOUS
  <2>2. 1..n \subseteq 1..(n + 1) /\ n + 1 \in 1..(n + 1)
    OBVIOUS
  <2>3. \A i \in 1..n : i \in Nat /\ i < n + 1
    OBVIOUS
  <2> QED
    BY <2>1, <2>2, <2>3 DEF Routes
<1>4. pattern \in Seq(Segments) /\ WellFormed(pattern)
  BY <1>2, <1>3, CallsAre
<1>5. WithOne(tree, pattern, method, RouteOf(n + 1), new)
  BY <1>1, <1>4, AddRouteIs
<1> HIDE DEF new
<1>6. GoodTree(new)
  BY <1>1, <1>4, <1>5, AddRouteGood
<1>7. \A at : Begun(at, n + 1) = Begun(at, n) \cup (IF Starts(at, pattern) THEN {n + 1} ELSE {})
  BY <1>3 DEF Begun
<1>8. \A at \in Seq(Segments) : at \in DOMAIN new <=> at = <<>> \/ Begun(at, n + 1) # {}
  <2>1. DOMAIN new = (DOMAIN tree) \cup {at \in Seq(Segments) : Starts(at, pattern)}
    BY <1>5 DEF WithOne
  <2>2. \A at \in Seq(Segments) : at \in DOMAIN tree <=> at = <<>> \/ Begun(at, n) # {}
    BY DEF TreeRight
  <2> QED
    BY <1>7, <2>1, <2>2
<1>9. DOMAIN new \subseteq Seq(Segments)
  BY <1>6 DEF GoodTree, Grows
<1>10. Aged(new, n + 1)
  <2> SUFFICES ASSUME NEW at \in DOMAIN new, NEW k \in DOMAIN new[at].children,
                      NEW l \in DOMAIN new[at].children, k < l
               PROVE  \E a \in Begun(Append(at, new[at].children[k]), n + 1) :
                        \A b \in Begun(Append(at, new[at].children[l]), n + 1) : a < b
    BY DEF Aged
  <2> DEFINE kids == NodeAt(tree, at).children
             next == pattern[Len(at) + 1]
             c == new[at].children[k]
             d == new[at].children[l]
  <2>1. at \in Seq(Segments) /\ kids \in Seq(Segments)
    BY <1>1, <1>9, NodeIs
  <2>2. new[at].children = IF IsNext(tree, pattern, at) THEN Append(kids, next) ELSE kids
    BY <1>5 DEF WithOne
  <2>3. IsNext(tree, pattern, at) => Len(at) + 1 \in DOMAIN pattern /\ next \in Segments
    <3> SUFFICES ASSUME IsNext(tree, pattern, at)
                 PROVE  Len(at) + 1 \in DOMAIN pattern /\ next \in Segments
      OBVIOUS
    <3>1. Starts(at, pattern) /\ at # pattern
      BY DEF IsNext
    <3>2. Len(at) < Len(pattern) /\ Len(at) \in Nat /\ Len(pattern) \in Nat
      BY <1>4, <2>1, <3>1, StartsIs DEF Starts
    <3>3. Len(at) + 1 \in DOMAIN pattern
      BY <1>4, <3>2
    <3> QED
      BY <1>4, <3>3
  <2>4. /\ k \in DOMAIN kids /\ c = kids[k]
        /\ \/ l \in DOMAIN kids /\ d = kids[l]
           \/ IsNext(tree, pattern, at) /\ d = next
    <3> HIDE DEF kids, next
    <3>1. CASE IsNext(tree, pattern, at)
      <4>1. new[at].children = Append(kids, next) /\ next \in Segments
        BY <2>2, <2>3, <3>1
      <4>2. k \in 1..(Len(kids) + 1) /\ l \in 1..(Len(kids) + 1) /\ Len(kids) \in Nat
        BY <2>1, <4>1
      <4>3. k \in 1..Len(kids) /\ (l \in 1..Len(kids) \/ l = Len(kids) + 1)
        BY <4>2
      <4>4. c = kids[k]
        BY <2>1, <4>1, <4>3
      <4>5. l \in 1..Len(kids) => d = kids[l]
        BY <2>1, <4>1
      <4>6. l = Len(kids) + 1 => d = next
        BY <2>1, <4>1
      <4> QED
        BY <2>1, <3>1, <4>3, <4>4, <4>5, <4>6
    <3>2. CASE ~IsNext(tree, pattern, at)
      BY <2>2, <3>2
    <3> QED
      BY <3>1, <3>2
  <2>5. at \in DOMAIN tree /\ kids = tree[at].children
    <3>1. at \in DOMAIN tree
      <4> SUFFICES ASSUME at \notin DOMAIN tree PROVE FALSE
        OBVIOUS
      <4>1. kids = <<>>
        BY <1>1, <2>1, NodeIs
      <4> QED
        BY <2>4, <4>1
    <3> QED
      BY <1>1, <2>1, <3>1, NodeIs
  <2> HIDE DEF kids, next, c, d
  <2>6. Begun(Append(at, c), n) \subseteq Begun(Append(at, c), n + 1)
    BY <1>7
  <2>7. Begun(Append(at, c), n) # {} /\ Append(at, c) \in Seq(Segments)
    BY <1>2, <2>4, <2>5, ChildrenBegun
  <2>8. CASE l \in DOMAIN kids /\ d = kids[l]
    <3>1. PICK a \in Begun(Append(at, c), n) : \A b \in Begun(Append(at, d), n) : a < b
      BY <2>4, <2>5, <2>8 DEF TreeRight, Aged
    <3>2. a < n + 1
      BY <1>3 DEF Begun
    <3>3. \A b \in Begun(Append(at, d), n + 1) : a < b
      BY <1>7, <3>1, <3>2
    <3> QED
      BY <2>6, <3>1, <3>3 DEF c, d
  <2>9. CASE IsNext(tree, pattern, at) /\ d = next
    <3>1. PICK a \in Begun(Append(at, c), n) : TRUE
      BY <2>7
    <3>2. a < n + 1
      BY <1>3 DEF Begun
    <3>3. ASSUME NEW b \in Begun(Append(at, d), n) PROVE FALSE
      <4>1. b \in Routes(n) /\ Starts(Append(at, d), script[b].pattern)
        BY DEF Begun
      <4>2. script[b].pattern \in Seq(Segments) /\ d \in Segments
        BY <1>2, <2>3, <2>9, <4>1, CallsAre
      <4>3. Append(at, d) \in Seq(Segments)
        BY <2>1, <4>2, StartsNext
      <4>4. Append(at, d) \in DOMAIN tree
        BY <3>3, <4>3 DEF TreeRight
      <4>5. Starts(at, Append(at, d)) /\ Len(at) < Len(Append(at, d)) /\ Append(at, d)[Len(at) + 1] = d
        <5> DEFINE way == Append(at, d)
        <5>1. /\ Len(way) = Len(at) + 1 /\ Len(at) \in Nat /\ way[Len(at) + 1] = d
              /\ \A i \in 1..Len(at) : way[i] = at[i]
          BY <2>1, <4>2
        <5> HIDE DEF way
        <5>2. Starts(at, way)
          BY <5>1 DEF Starts
        <5> QED
          BY <5>1, <5>2 DEF way
      <4>6. \E i \in DOMAIN tree[at].children : tree[at].children[i] = d
        BY <1>1, <2>5, <4>4, <4>5 DEF GoodTree
      <4>7. d \notin Range(kids)
        BY <2>9 DEF IsNext, kids, next
      <4> QED
        BY <2>5, <4>6, <4>7 DEF Range
    <3>4. \A b \in Begun(Append(at, d), n + 1) : a < b
      BY <1>7, <3>2, <3>3
    <3> QED
      BY <2>6, <3>1, <3>4 DEF c, d
  <2> QED
    BY <2>4, <2>8, <2>9
<1>11. ASSUME NEW at \in DOMAIN new PROVE new[at].handlers = Handlers(at, n + 1)
  <2>1. at \in Seq(Segments)
    BY <1>9
  <2>2. NodeAt(tree, at).handlers = Handlers(at, n)
    <3>1. CASE at \in DOMAIN tree
      BY <1>1, <2>1, <3>1, NodeIs DEF TreeRight
    <3>2. CASE at \notin DOMAIN tree
      <4>1. ASSUME NEW i \in Routes(n) PROVE script[i].pattern # at
        <5>1. at # script[i].pattern \/ Starts(at, script[i].pattern)
          BY <2>1 DEF Starts
        <5>2. ~Starts(at, script[i].pattern)
          BY <2>1, <3>2 DEF TreeRight, Begun
        <5> QED
          BY <5>1, <5>2
      <4>2. Handlers(at, n) = None
        BY <1>2, <4>1, HandlersAre
      <4> QED
        BY <1>1, <2>1, <3>2, <4>2, NodeIs
    <3> QED
      BY <3>1, <3>2
  <2>3. CASE at # pattern
    <3>1. new[at].handlers = NodeAt(tree, at).handlers
      BY <1>5, <2>3 DEF WithOne
    <3>2. Handlers(at, n + 1) = Handlers(at, n)
      BY <2>3, HandlersNext
    <3> QED
      BY <2>2, <3>1, <3>2
  <2>4. CASE at = pattern
    <3> DEFINE old == NodeAt(tree, pattern).handlers
    <3>1. new[pattern].handlers = [m \in (DOMAIN old) \cup {method} |->
                                     IF m = method THEN RouteOf(n + 1) ELSE old[m]]
      BY <1>5 DEF WithOne
    <3>2. old = Handlers(pattern, n)
      BY <2>2, <2>4
    <3>3. Handlers(pattern, n + 1) = [m \in (DOMAIN Handlers(pattern, n)) \cup {method} |->
                                        IF m = method THEN RouteOf(n + 1) ELSE Handlers(pattern, n)[m]]
      BY <2>4, HandlersNext
    <3> HIDE DEF old, pattern, method
    <3> QED
      BY <2>4, <3>1, <3>2, <3>3
  <2> QED
    BY <2>3, <2>4
<1> QED
  BY <1>6, <1>8, <1>10, <1>11 DEF TreeRight, new

LEMMA RootRight == Script => TreeRight(Root, 0)
<1>1. DOMAIN Root = {<<>>} /\ Root[<<>>] = NewNode
  BY DEF Root
<1>2. NewNode.children = <<>> /\ NewNode.handlers = None /\ DOMAIN NewNode = {"children", "handlers"}
  BY DEF NewNode
<1>3. <<>> \in Seq(Segments) /\ DOMAIN (<<>>) = {} /\ Len(<<>>) = 0
  OBVIOUS
<1>4. Grows(Root)
  BY <1>1, <1>2, <1>3 DEF Grows
<1>5. WellFormed(<<>>)
  BY <1>3 DEF WellFormed
<1>6. \A at \in Seq(Segments) : Starts(at, <<>>) => at = <<>>
  <2> SUFFICES ASSUME NEW at \in Seq(Segments), Len(at) <= 0 PROVE at = <<>>
    BY <1>3 DEF Starts
  <2>1. Len(at) = 0
    OBVIOUS
  <2> QED
    BY <2>1
<1>7. GoodTree(Root)
  BY <1>1, <1>2, <1>3, <1>4, <1>5, <1>6 DEF GoodTree
<1>8. Routes(0) = {}
  BY DEF Routes
<1>9. \A at : Begun(at, 0) = {} /\ Methods(at, 0) = {}
  BY <1>8 DEF Begun, Methods
<1>10. Aged(Root, 0)
  BY <1>1, <1>2, <1>3 DEF Aged
<1>11. Handlers(<<>>, 0) = None
  <2> DEFINE F(m) == RouteOf(Only(Latest(<<>>, m, 0)))
  <2>1. Handlers(<<>>, 0) = [m \in {} |-> F(m)]
    BY <1>9 DEF Handlers
  <2> HIDE DEF F
  <2>2. [m \in {} |-> F(m)] = [m \in {} |-> m]
    OBVIOUS
  <2> QED
    BY <2>1, <2>2 DEF None
<1> QED
  BY <1>1, <1>2, <1>7, <1>9, <1>10, <1>11 DEF TreeRight

------------------------------------------------------------------------------
(* A request reaches the handler it should                                 *)

RouterTypeOK ==
  /\ Script /\ added \in 0..Len(script)
  /\ DOMAIN known = Goroutines
  /\ IsList(uses)

\* The router is what the calls made so far have made it.
RouterRight ==
  \A n, tree, list : added = n /\ root = tree /\ uses = list => list = Used(n) /\ TreeRight(tree, n)

\* A request that is served was given what it must be.
Given(at, status, r, n, to) ==
  /\ at = "chain" => ~Nowhere(r, n) /\ Reaches(r, n, to)
  /\ at = "done" => IF Nowhere(r, n) THEN status = 404 ELSE Reaches(r, n, to)

GivenRight ==
  \A g \in Goroutines : \A at, status, r, n, to :
    pc[g] = at /\ answer[g].status = status /\ request[g] = r /\ known[g] = n /\ route[g] = to =>
      Given(at, status, r, n, to)

RoutingInv == RouterTypeOK /\ RouterRight /\ GivenRight

LEMMA RoutingInit == Init => RoutingInv
<1> SUFFICES ASSUME Init PROVE RoutingInv
  OBVIOUS
<1>0. /\ script \in Scripts /\ added = 0 /\ root = Root /\ uses = <<"recovery", "requestid", "security">>
      /\ DOMAIN known = Goroutines /\ \A g \in Goroutines : pc[g] = "idle"
  BY Zenon DEF Init
<1>1. Script /\ added = 0 /\ root = Root
  BY <1>0, RoutesAssumption DEF Script
<1> DEFINE V == {"recovery", "requestid", "security"}
           first == <<"recovery", "requestid", "security">>
<1>2. first \in Seq(V)
  OBVIOUS
<1>3. Used(0) = first
  <2>1. Uses(0) = {}
    BY DEF Uses
  <2>2. Cardinality(Uses(0)) = 0
    BY <2>1, FS_EmptySet
  <2> DEFINE F(k) == script[Only(Ranked(0, k))].middleware
  <2>3. Used(0) = first \o [k \in 1..0 |-> F(k)]
    BY <2>2 DEF Used
  <2> HIDE DEF F, first
  <2>4. 1..0 = {}
    OBVIOUS
  <2>5. [k \in 1..0 |-> F(k)] = <<>>
    BY <2>4
  <2> QED
    BY <1>2, <2>3, <2>5, ConcatEmptySeq
<1> HIDE DEF V
<1>4. RouterTypeOK
  <2>1. Len(script) \in Nat
    BY <1>1 DEF Script
  <2>2. IsList(first)
    BY <1>2, ListOfSeq
  <2>3. DOMAIN known = Goroutines /\ uses = first
    BY <1>0
  <2> QED
    BY <1>1, <2>1, <2>2, <2>3 DEF RouterTypeOK
<1>5. RouterRight
  BY <1>0, <1>1, <1>3, RootRight DEF RouterRight
<1>6. GivenRight
  BY <1>0 DEF GivenRight, Given
<1> QED
  BY <1>4, <1>5, <1>6 DEF RoutingInv

\* What is asked of the script does not change with the rest of the state.
LEMMA SameScript ==
  ASSUME script' = script
  PROVE  /\ \A at, status, r, n, to : Given(at, status, r, n, to)' <=> Given(at, status, r, n, to)
         /\ \A tree, n : TreeRight(tree, n)' <=> TreeRight(tree, n)
         /\ \A n : Used(n)' = Used(n)
<1>1. \A n : Routes(n)' = Routes(n) /\ Uses(n)' = Uses(n)
  BY DEF Routes, Uses
<1>2. \A at, n : Begun(at, n)' = Begun(at, n) /\ Methods(at, n)' = Methods(at, n)
  BY <1>1 DEF Begun, Methods
<1>3. \A at, m, n : Latest(at, m, n)' = Latest(at, m, n)
  BY <1>1 DEF Latest
<1>4. \A n, k : Ranked(n, k)' = Ranked(n, k)
  BY <1>1 DEF Ranked
<1>5. \A n : Used(n)' = Used(n)
  <2> TAKE n
  <2>1. [k \in 1..Cardinality(Uses(n)) |-> script'[Only(Ranked(n, k)')].middleware]
          = [k \in 1..Cardinality(Uses(n)) |-> script[Only(Ranked(n, k))].middleware]
    BY <1>4
  <2> QED
    BY <1>1, <2>1 DEF Used
<1>6. \A i : Around(i)' = Around(i) /\ RouteOf(i)' = RouteOf(i)
  <2>1. \A i : Around(i)' = Around(i)
    BY <1>5 DEF Around
  <2> QED
    BY <2>1 DEF RouteOf
<1>7. \A at, n : Handlers(at, n)' = Handlers(at, n)
  BY <1>2, <1>3, <1>6 DEF Handlers
<1>8. \A tree, n : Aged(tree, n)' <=> Aged(tree, n)
  <2> TAKE tree, n
  <2>1. \A s : Begun(s, n)' = Begun(s, n)
    BY <1>2
  <2>2. ASSUME Aged(tree, n) PROVE Aged(tree, n)'
    <3> SUFFICES ASSUME NEW at \in DOMAIN tree, NEW k \in DOMAIN tree[at].children,
                        NEW l \in DOMAIN tree[at].children, k < l
                 PROVE  \E a \in Begun(Append(at, tree[at].children[k]), n)' :
                          \A b \in Begun(Append(at, tree[at].children[l]), n)' : a < b
      BY DEF Aged
    <3>1. \E a \in Begun(Append(at, tree[at].children[k]), n) :
            \A b \in Begun(Append(at, tree[at].children[l]), n) : a < b
      BY <2>2 DEF Aged
    <3> QED
      BY <2>1, <3>1
  <2>3. ASSUME Aged(tree, n)' PROVE Aged(tree, n)
    <3> SUFFICES ASSUME NEW at \in DOMAIN tree, NEW k \in DOMAIN tree[at].children,
                        NEW l \in DOMAIN tree[at].children, k < l
                 PROVE  \E a \in Begun(Append(at, tree[at].children[k]), n) :
                          \A b \in Begun(Append(at, tree[at].children[l]), n) : a < b
      BY DEF Aged
    <3>1. \E a \in Begun(Append(at, tree[at].children[k]), n)' :
            \A b \in Begun(Append(at, tree[at].children[l]), n)' : a < b
      BY <2>3 DEF Aged
    <3> QED
      BY <2>1, <3>1
  <2> QED
    BY <2>2, <2>3
<1>9. \A tree, n : TreeRight(tree, n)' <=> TreeRight(tree, n)
  BY <1>2, <1>7, <1>8 DEF TreeRight
<1>10. \A beginning : Since(beginning)' = Since(beginning)
  BY <1>1 DEF Since
<1>11. \A p, q : Before(p, q)' <=> Before(p, q)
  BY <1>10 DEF Before
<1>12. \A path, n : Best(path, n)' = Best(path, n)
  BY <1>1, <1>11 DEF Best
<1>13. \A r, n : Chosen(r, n)' = Chosen(r, n)
  BY <1>12 DEF Chosen
<1>14. \A r, n : Exact(r, n)' = Exact(r, n) /\ Fallback(r, n)' = Fallback(r, n)
  BY <1>3, <1>13 DEF Exact, Fallback
<1>15. \A r, n : Nowhere(r, n)' <=> Nowhere(r, n)
  BY <1>12, <1>14 DEF Nowhere
<1>16. \A r, n, to : Reaches(r, n, to)' <=> Reaches(r, n, to)
  BY <1>1, <1>6, <1>13, <1>14 DEF Reaches
<1>17. \A at, status, r, n, to : Given(at, status, r, n, to)' <=> Given(at, status, r, n, to)
  BY <1>15, <1>16 DEF Given
<1> QED
  BY <1>5, <1>9, <1>17

\* A request keeps what it was given while the router changes, and when it is
\* answered.
LEMMA GivenStays ==
  ASSUME GivenRight, script' = script, NEW g \in Goroutines,
         pc'[g] = "chain" => pc[g] = "chain",
         pc'[g] = "done" => pc[g] = "chain" \/ (pc[g] = "done" /\ answer'[g] = answer[g]),
         pc[g] \in {"chain", "done"} =>
           request'[g] = request[g] /\ known'[g] = known[g] /\ route'[g] = route[g],
         NEW at, NEW status, NEW r, NEW n, NEW to,
         pc'[g] = at, answer'[g].status = status, request'[g] = r, known'[g] = n, route'[g] = to
  PROVE  Given(at, status, r, n, to)'
<1>1. CASE at = "chain"
  <2>1. Given("chain", answer[g].status, r, n, to)
    BY <1>1 DEF GivenRight
  <2>2. Given(at, status, r, n, to)
    BY <1>1, <2>1 DEF Given
  <2> QED
    BY <2>2, SameScript
<1>2. CASE at = "done" /\ pc[g] = "chain"
  <2>1. Given("chain", answer[g].status, r, n, to)
    BY <1>2 DEF GivenRight
  <2>2. Given(at, status, r, n, to)
    BY <1>2, <2>1 DEF Given
  <2> QED
    BY <2>2, SameScript
<1>3. CASE at = "done" /\ pc[g] # "chain"
  <2>1. Given(at, status, r, n, to)
    BY <1>3 DEF GivenRight
  <2> QED
    BY <2>1, SameScript
<1>4. CASE at \notin {"chain", "done"}
  <2>1. Given(at, status, r, n, to)
    BY <1>4 DEF Given
  <2> QED
    BY <2>1, SameScript
<1> QED
  BY <1>1, <1>2, <1>3, <1>4

LEMMA RouterStays ==
  ASSUME RouterTypeOK, RouterRight, UNCHANGED router, DOMAIN known' = Goroutines
  PROVE  RouterTypeOK' /\ RouterRight'
<1>1. script' = script /\ added' = added /\ root' = root /\ uses' = uses
  BY DEF router
<1>2. RouterTypeOK'
  BY <1>1 DEF RouterTypeOK, Script, IsList
<1>3. RouterRight'
  BY <1>1, SameScript DEF RouterRight
<1> QED
  BY <1>2, <1>3

LEMMA RouterStep ==
  ASSUME RouterTypeOK, RouterRight, Use \/ Add
  PROVE  RouterTypeOK' /\ RouterRight'
<1> DEFINE n == added
<1>1. /\ n \in Nat /\ Script /\ Len(script) \in Nat /\ uses = Used(n) /\ TreeRight(root, n)
      /\ IsList(uses)
  BY DEF RouterTypeOK, RouterRight, Script
<1>2. /\ n < Len(script) /\ added' = n + 1 /\ script' = script /\ known' = known
      /\ n + 1 \in 0..Len(script)
  BY <1>1 DEF Use, Add, serving
<1>3. ASSUME TreeRight(root', n + 1), uses' = Used(n + 1), IsList(uses')
      PROVE  RouterTypeOK' /\ RouterRight'
  <2>1. RouterTypeOK'
    BY <1>1, <1>2, <1>3 DEF RouterTypeOK, Script, IsList
  <2>2. RouterRight'
    BY <1>2, <1>3, SameScript DEF RouterRight
  <2> QED
    BY <2>1, <2>2
<1>4. CASE Use
  <2>1. /\ script[n + 1].call = "Use" /\ uses' = Append(uses, script[n + 1].middleware) /\ root' = root
    BY <1>4 DEF Use, Call
  <2>2. TreeRight(root, n + 1)
    BY <1>1, <2>1, UseRight
  <2>3. uses' = Used(n + 1)
    BY <1>1, <2>1, UsedNext
  <2>4. IsList(Append(uses, script[n + 1].middleware))
    BY <1>1, ListAppend
  <2> QED
    BY <1>3, <2>1, <2>2, <2>3, <2>4
<1>5. CASE Add
  <2> DEFINE pattern == script[n + 1].pattern
             method == script[n + 1].method
             new == [handler |-> script[n + 1].handler, middlewares |-> uses \o script[n + 1].middlewares]
  <2>1. script[n + 1].call = "AddRoute" /\ root' = AddRoute(root, pattern, method, new) /\ uses' = uses
    BY <1>5 DEF Add, Call
  <2>2. Used(n + 1) = uses
    BY <1>1, <2>1, UsedStays
  <2>3. new = RouteOf(n + 1)
    BY <2>2 DEF RouteOf, Around
  <2> HIDE DEF new
  <2>4. TreeRight(AddRoute(root, pattern, method, RouteOf(n + 1)), n + 1)
    BY <1>1, <1>2, <2>1, AddRight
  <2> QED
    BY <1>1, <1>3, <2>1, <2>2, <2>3, <2>4
<1> QED
  BY <1>4, <1>5

LEMMA RoutingStep == ServingTypeOK /\ RoutingInv /\ [Next]_vars => RoutingInv'
<1> SUFFICES ASSUME ServingTypeOK, RoutingInv, [Next]_vars PROVE RoutingInv'
  OBVIOUS
<1>1. RouterTypeOK /\ RouterRight /\ GivenRight
  BY DEF RoutingInv
<1>2. /\ pc \in [Goroutines -> {"idle", "dispatch", "chain", "done"}]
      /\ DOMAIN request = Goroutines /\ DOMAIN route = Goroutines /\ DOMAIN answer = Goroutines
      /\ \A g \in Goroutines : pc[g] # "idle" => request[g] \in Requests
      /\ DOMAIN known = Goroutines
  BY <1>1 DEF ServingTypeOK, RouterTypeOK
<1>3. CASE Use \/ Add
  <2>1. RouterTypeOK' /\ RouterRight'
    BY <1>1, <1>3, RouterStep
  <2>2. script' = script /\ UNCHANGED serving
    BY <1>3 DEF Use, Add
  <2>3. GivenRight'
    <3> SUFFICES ASSUME NEW g \in Goroutines, NEW at, NEW status, NEW r, NEW n, NEW to,
                        pc'[g] = at, answer'[g].status = status, request'[g] = r, known'[g] = n,
                        route'[g] = to
                 PROVE  Given(at, status, r, n, to)'
      BY DEF GivenRight
    <3> QED
      BY <1>1, <2>2, GivenStays DEF serving
  <2> QED
    BY <2>1, <2>3 DEF RoutingInv
<1>4. ASSUME UNCHANGED router, NEW h \in Goroutines,
             \A g \in Goroutines \ {h} : /\ pc'[g] = pc[g] /\ request'[g] = request[g] /\ route'[g] = route[g]
                                         /\ known'[g] = known[g] /\ answer'[g] = answer[g],
             \A at, status, r, n, to :
               /\ pc'[h] = at /\ answer'[h].status = status /\ request'[h] = r
               /\ known'[h] = n /\ route'[h] = to
               => Given(at, status, r, n, to)',
             DOMAIN known' = Goroutines
      PROVE  RoutingInv'
  <2>1. RouterTypeOK' /\ RouterRight'
    BY <1>1, <1>4, RouterStays
  <2>2. GivenRight'
    <3> SUFFICES ASSUME NEW g \in Goroutines, NEW at, NEW status, NEW r, NEW n, NEW to,
                        pc'[g] = at, answer'[g].status = status, request'[g] = r, known'[g] = n,
                        route'[g] = to
                 PROVE  Given(at, status, r, n, to)'
      BY DEF GivenRight
    <3>1. CASE g = h
      BY <1>4, <3>1
    <3>2. CASE g # h
      <4>1. script' = script
        BY <1>4 DEF router
      <4> QED
        BY <1>1, <1>4, <3>2, <4>1, GivenStays
    <3> QED
      BY <3>1, <3>2
  <2> QED
    BY <2>1, <2>2 DEF RoutingInv
<1>5. CASE Time \/ UNCHANGED vars
  <2>1. UNCHANGED router /\ UNCHANGED serving
    BY <1>5 DEF Time, vars
  <2>2. RouterTypeOK' /\ RouterRight'
    BY <1>1, <1>2, <2>1, RouterStays DEF serving
  <2>3. script' = script
    BY <2>1 DEF router
  <2>4. GivenRight'
    <3> SUFFICES ASSUME NEW g \in Goroutines, NEW at, NEW status, NEW r, NEW n, NEW to,
                        pc'[g] = at, answer'[g].status = status, request'[g] = r, known'[g] = n,
                        route'[g] = to
                 PROVE  Given(at, status, r, n, to)'
      BY DEF GivenRight
    <3> QED
      BY <1>1, <2>1, <2>3, GivenStays DEF serving
  <2> QED
    BY <2>2, <2>4 DEF RoutingInv
<1>6. ASSUME NEW h \in Goroutines, Arrive(h) PROVE RoutingInv'
  <2>1. /\ UNCHANGED router /\ pc' = [pc EXCEPT ![h] = "dispatch"] /\ UNCHANGED <<route, known, answer>>
        /\ \E r \in Requests : request' = [request EXCEPT ![h] = r]
    BY <1>6 DEF Arrive
  <2>2. pc'[h] = "dispatch"
    BY <1>2, <2>1
  <2>3. \A status, r, n, to : Given("dispatch", status, r, n, to)'
    BY DEF Given
  <2> QED
    BY <1>2, <1>4, <2>1, <2>2, <2>3
<1>7. ASSUME NEW h \in Goroutines, Dispatch(h) PROVE RoutingInv'
  <2> DEFINE r == request[h]
             matches == Match(root, request[h].method, request[h].path)
  <2>1. /\ pc[h] = "dispatch" /\ UNCHANGED router /\ request' = request
        /\ known' = [known EXCEPT ![h] = added]
        /\ \/ matches = {} /\ Reply(h, 404, Headers(h, {})) /\ UNCHANGED route
           \/ /\ \E m \in matches : route' = [route EXCEPT ![h] = m]
              /\ pc' = [pc EXCEPT ![h] = "chain"] /\ UNCHANGED answer
    BY <1>7 DEF Dispatch
  <2>2. r.path \in Seq(STRING)
    BY <1>2, <2>1, RoutesAssumption
  <2>3. TreeRight(root, added) /\ Script /\ added \in 0..Len(script)
    BY <1>1 DEF RouterTypeOK, RouterRight
  <2>4. /\ matches = {} => Nowhere(r, added)
        /\ \A m \in matches : ~Nowhere(r, added) /\ Reaches(r, added, m)
    BY <2>2, <2>3, MatchRight
  <2>5. known'[h] = added /\ request'[h] = r /\ script' = script
    BY <1>2, <2>1 DEF router
  <2> HIDE DEF r, matches
  <2>6. CASE matches = {} /\ Reply(h, 404, Headers(h, {})) /\ UNCHANGED route
    <3>1. /\ pc' = [pc EXCEPT ![h] = "done"]
          /\ \E sent : answer' = [answer EXCEPT ![h] = [status |-> 404, headers |-> sent]]
      BY <2>6 DEF Reply
    <3>2. pc'[h] = "done" /\ answer'[h].status = 404
      BY <1>2, <3>1
    <3>3. \A to : Given("done", 404, r, added, to)
      BY <2>4, <2>6 DEF Given
    <3> QED
      BY <1>2, <1>4, <2>1, <2>5, <2>6, <3>1, <3>2, <3>3, SameScript
  <2>7. ASSUME NEW m \in matches, route' = [route EXCEPT ![h] = m],
               pc' = [pc EXCEPT ![h] = "chain"], UNCHANGED answer
        PROVE  RoutingInv'
    <3>1. pc'[h] = "chain" /\ route'[h] = m
      BY <1>2, <2>7
    <3>2. \A status : Given("chain", status, r, added, m)
      BY <2>4, <2>7 DEF Given
    <3> QED
      BY <1>2, <1>4, <2>1, <2>5, <2>7, <3>1, <3>2, SameScript
  <2> QED
    BY <2>1, <2>6, <2>7
<1>8. ASSUME NEW h \in Goroutines, Unlimited(h) \/ Granted(h) \/ Refused(h) PROVE RoutingInv'
  <2>1. /\ pc[h] = "chain" /\ UNCHANGED <<router, request, route, known>>
        /\ \E status, headers : Reply(h, status, headers)
    BY <1>8 DEF Unlimited, Granted, Refused, Handle
  <2>2. PICK status, headers : Reply(h, status, headers)
    BY <2>1
  <2>3. /\ pc' = [pc EXCEPT ![h] = "done"]
        /\ \A g \in Goroutines \ {h} : answer'[g] = answer[g]
    BY <1>2, <2>2 DEF Reply
  <2>4. pc'[h] = "done" /\ script' = script
    BY <1>2, <2>1, <2>3 DEF router
  <2>5. \A at, s, r, n, to :
          pc'[h] = at /\ answer'[h].status = s /\ request'[h] = r /\ known'[h] = n /\ route'[h] = to =>
            Given(at, s, r, n, to)'
    BY <1>1, <2>1, <2>4, GivenStays
  <2> QED
    BY <1>2, <1>4, <2>1, <2>3, <2>5
<1> QED
  BY <1>3, <1>5, <1>6, <1>7, <1>8 DEF Next

\* Whatever routes and middlewares a program adds while requests are served,
\* in whatever order, a request reaches the handler of the most specific
\* pattern for its path, of those added before it was matched, with the
\* parameters the path gives it and inside the middlewares of that route, or
\* is answered that there is none (AddRoute, Use, Match, search and Dispatch).
THEOREM RoutesAreRight == Spec => []RoutesRight
<1>1. Init => ServingInv
  BY ServingInit
<1>2. ServingInv => ServingTypeOK
  BY DEF ServingInv
<1>3. RoutingInv => RoutesRight
  BY DEF RoutingInv, GivenRight, Given, RoutesRight
<1> QED
  BY <1>1, <1>2, <1>3, ServingStep, RoutingInit, RoutingStep, PTL DEF Spec

------------------------------------------------------------------------------
(* No broadcast sends on a closed channel                                  *)

SocketsTypeOK ==
  /\ state \in [Clients -> {"new", "live", "gone"}]
  /\ cast \in [Casts -> {"new", "running", "done"}]
  /\ left \in [Casts -> SUBSET Clients]
  /\ closed \in SUBSET Clients

\* A client is in the table under its own id, and only while it is connected.
Tabled == \A i \in DOMAIN clients : /\ clients[i] \in Clients
                                    /\ state[clients[i]] = "live" /\ Id[clients[i]] = i

ClosedGone == \A c \in closed : state[c] = "gone"

\* Whom a Broadcast has still to serve is connected: the lock keeps them so.
LeftLive ==
  \A b \in Casts : /\ \A c \in left[b] : state[c] = "live"
                   /\ cast[b] # "running" => left[b] = {}

SocketsInv == SocketsTypeOK /\ Tabled /\ ClosedGone /\ LeftLive /\ NeverOnClosed

LEMMA SocketsInitInv == SocketsInit => SocketsInv
BY DEF SocketsInit, SocketsInv, SocketsTypeOK, Tabled, ClosedGone, LeftLive, NeverOnClosed

\* While nobody holds the lock for reading no Broadcast has anyone to serve.
LEMMA NoneLeft ==
  ASSUME SocketsInv, Unread, NEW b \in Casts
  PROVE  left[b] = {}
BY DEF SocketsInv, LeftLive, Unread

LEMMA RegisterInv ==
  ASSUME SocketsInv, NEW c \in Clients, Register(c)
  PROVE  SocketsInv'
<1>1. SocketsTypeOK /\ Tabled /\ ClosedGone /\ LeftLive /\ NeverOnClosed
  BY DEF SocketsInv
<1>2. /\ state[c] = "new" /\ Unread /\ state' = [state EXCEPT ![c] = "live"]
      /\ clients' = Put(clients, Id[c], c)
      /\ closed' = closed /\ cast' = cast /\ left' = left /\ crashed' = crashed
  BY DEF Register
<1>3. SocketsTypeOK'
  BY <1>1, <1>2 DEF SocketsTypeOK
<1>4. Tabled'
  <2> SUFFICES ASSUME NEW i \in DOMAIN clients'
      PROVE  clients'[i] \in Clients /\ state'[clients'[i]] = "live" /\ Id[clients'[i]] = i
    BY DEF Tabled
  <2>1. CASE i = Id[c]
    <3>1. clients'[i] = c
      BY <1>2, <2>1 DEF Put
    <3> QED
      BY <1>1, <1>2, <2>1, <3>1 DEF SocketsTypeOK
  <2>2. CASE i # Id[c]
    <3>1. i \in DOMAIN clients /\ clients'[i] = clients[i]
      BY <1>2, <2>2 DEF Put
    <3>2. clients[i] \in Clients /\ state[clients[i]] = "live" /\ Id[clients[i]] = i
      BY <1>1, <3>1 DEF Tabled
    <3> QED
      BY <1>1, <1>2, <3>1, <3>2 DEF SocketsTypeOK
  <2> QED
    BY <2>1, <2>2
<1>5. ClosedGone'
  BY <1>1, <1>2 DEF ClosedGone, SocketsTypeOK
<1>6. LeftLive'
  BY <1>1, <1>2, NoneLeft DEF LeftLive
<1>7. NeverOnClosed'
  BY <1>1, <1>2 DEF NeverOnClosed
<1> QED
  BY <1>3, <1>4, <1>5, <1>6, <1>7 DEF SocketsInv

\* Who has the id leaves the table with the channel: it is the client itself
\* or one that still has its own.
LEMMA UnregisterInv ==
  ASSUME SocketsInv, NEW c \in Clients, Unregister(c)
  PROVE  SocketsInv'
<1>1. SocketsTypeOK /\ Tabled /\ ClosedGone /\ LeftLive /\ NeverOnClosed
  BY DEF SocketsInv
<1>2. /\ Unread /\ state' = [state EXCEPT ![c] = "gone"]
      /\ clients' = Drop(clients, Id[c]) /\ closed' = closed \cup {c}
      /\ cast' = cast /\ left' = left /\ crashed' = crashed
  BY DEF Unregister
<1>3. SocketsTypeOK'
  BY <1>1, <1>2 DEF SocketsTypeOK
<1>4. Tabled'
  <2> SUFFICES ASSUME NEW i \in DOMAIN clients'
      PROVE  clients'[i] \in Clients /\ state'[clients'[i]] = "live" /\ Id[clients'[i]] = i
    BY DEF Tabled
  <2>1. i \in DOMAIN clients /\ i # Id[c] /\ clients'[i] = clients[i]
    BY <1>2 DEF Drop
  <2>2. clients[i] \in Clients /\ state[clients[i]] = "live" /\ Id[clients[i]] = i
    BY <1>1, <2>1 DEF Tabled
  <2>3. clients[i] # c
    BY <2>1, <2>2
  <2> QED
    BY <1>1, <1>2, <2>1, <2>2, <2>3 DEF SocketsTypeOK
<1>5. ClosedGone'
  BY <1>1, <1>2 DEF ClosedGone, SocketsTypeOK
<1>6. LeftLive'
  BY <1>1, <1>2, NoneLeft DEF LeftLive
<1>7. NeverOnClosed'
  BY <1>1, <1>2 DEF NeverOnClosed
<1> QED
  BY <1>3, <1>4, <1>5, <1>6, <1>7 DEF SocketsInv

LEMMA BroadcastInv ==
  ASSUME SocketsInv, NEW b \in Casts, Broadcast(b)
  PROVE  SocketsInv'
<1>1. SocketsTypeOK /\ Tabled /\ ClosedGone /\ LeftLive /\ NeverOnClosed
  BY DEF SocketsInv
<1>2. /\ cast' = [cast EXCEPT ![b] = "running"] /\ left' = [left EXCEPT ![b] = Listed]
      /\ clients' = clients /\ closed' = closed /\ state' = state /\ crashed' = crashed
  BY DEF Broadcast
<1>3. \A c \in Listed : c \in Clients /\ state[c] = "live"
  BY <1>1 DEF Tabled, Listed
<1>4. SocketsTypeOK'
  BY <1>1, <1>2, <1>3 DEF SocketsTypeOK
<1>5. Tabled' /\ ClosedGone' /\ NeverOnClosed'
  BY <1>1, <1>2 DEF Tabled, ClosedGone, NeverOnClosed
<1>6. LeftLive'
  BY <1>1, <1>2, <1>3 DEF LeftLive, SocketsTypeOK
<1> QED
  BY <1>4, <1>5, <1>6 DEF SocketsInv

LEMMA DeliverInv ==
  ASSUME SocketsInv, NEW b \in Casts, NEW c \in Clients, Deliver(b, c)
  PROVE  SocketsInv'
<1>1. SocketsTypeOK /\ Tabled /\ ClosedGone /\ LeftLive /\ NeverOnClosed
  BY DEF SocketsInv
<1>2. /\ c \in left[b] /\ left' = [left EXCEPT ![b] = @ \ {c}]
      /\ crashed' = (crashed \/ c \in closed)
      /\ clients' = clients /\ closed' = closed /\ state' = state /\ cast' = cast
  BY DEF Deliver
<1>3. c \notin closed
  <2>1. state[c] = "live"
    BY <1>1, <1>2 DEF LeftLive
  <2> QED
    BY <1>1, <2>1 DEF ClosedGone
<1>4. SocketsTypeOK'
  BY <1>1, <1>2 DEF SocketsTypeOK
<1>5. Tabled' /\ ClosedGone'
  BY <1>1, <1>2 DEF Tabled, ClosedGone
<1>6. LeftLive'
  BY <1>1, <1>2 DEF LeftLive, SocketsTypeOK
<1>7. NeverOnClosed'
  BY <1>1, <1>2, <1>3 DEF NeverOnClosed
<1> QED
  BY <1>4, <1>5, <1>6, <1>7 DEF SocketsInv

LEMMA SocketsStep == SocketsInv /\ [SocketsNext]_sockets => SocketsInv'
<1> SUFFICES ASSUME SocketsInv, [SocketsNext]_sockets PROVE SocketsInv'
  OBVIOUS
<1> USE DEF SocketsInv, SocketsTypeOK, Tabled, ClosedGone, LeftLive, NeverOnClosed
<1>1. ASSUME NEW c \in Clients, Register(c) PROVE SocketsInv'
  BY <1>1, RegisterInv
<1>2. ASSUME NEW c \in Clients, Unregister(c) PROVE SocketsInv'
  BY <1>2, UnregisterInv
<1>3. ASSUME NEW c \in Clients, Receive(c) PROVE SocketsInv'
  BY <1>3 DEF Receive
<1>4. ASSUME NEW b \in Casts, Broadcast(b) PROVE SocketsInv'
  BY <1>4, BroadcastInv
<1>5. ASSUME NEW b \in Casts, Return(b) PROVE SocketsInv'
  BY <1>5 DEF Return
<1>6. ASSUME NEW b \in Casts, NEW c \in Clients, Deliver(b, c) PROVE SocketsInv'
  BY <1>6, DeliverInv
<1>7. CASE UNCHANGED sockets
  BY <1>7 DEF sockets
<1> QED
  BY <1>1, <1>2, <1>3, <1>4, <1>5, <1>6, <1>7 DEF SocketsNext

\* Whatever ids the clients have and however many broadcasts run at once: a
\* client leaves the table as its channel is closed, and none is closed during
\* a Broadcast (Register, Unregister, Broadcast).
THEOREM NoSendOnClosed == SocketsSpec => []NeverOnClosed
<1>1. SocketsInv => NeverOnClosed
  BY DEF SocketsInv
<1> QED
  BY <1>1, SocketsInitInv, SocketsStep, PTL DEF SocketsSpec

------------------------------------------------------------------------------
(* Who is to get a message gets it once, or has no room for it             *)

Has(s, b) == \E i \in DOMAIN s : s[i] = b

HistoryTypeOK ==
  /\ got \in [Clients -> Seq(Casts)]
  /\ missed \in [Clients -> SUBSET Casts]
  /\ due \in [Casts -> SUBSET Clients]

\* Who never shared its id is in the table, and no rival can take it out.
OwnId == \A c \in Live \ shared : Id[c] \in DOMAIN clients /\ clients[Id[c]] = c

Rivals == \A c, d \in Live : Id[c] = Id[d] /\ c # d => c \in shared

\* Whom a Broadcast has still to serve has heard nothing of it; whoever it was
\* due to and it has served got it or missed it, never both.
Served ==
  \A b \in Casts, c \in Clients :
    /\ \A i, j \in DOMAIN got[c] : got[c][i] = b /\ got[c][j] = b => i = j
    /\ cast[b] = "new" \/ c \in left[b] => ~Has(got[c], b) /\ b \notin missed[c]
    /\ Has(got[c], b) => b \notin missed[c]
    /\ c \in due[b] /\ cast[b] # "new" => c \in left[b] \/ Has(got[c], b) \/ b \in missed[c]

ServedInv == HistoryTypeOK /\ OwnId /\ Rivals /\ Served

LEMMA OccursOnce ==
  ASSUME NEW s, NEW b, \A i, j \in DOMAIN s : s[i] = b /\ s[j] = b => i = j
  PROVE  Occurrences(s, b) <= 1 /\ (Occurrences(s, b) = 1 <=> Has(s, b))
<1>1. CASE Has(s, b)
  <2>1. PICK i \in DOMAIN s : s[i] = b
    BY <1>1 DEF Has
  <2>2. {j \in DOMAIN s : s[j] = b} = {i}
    BY <2>1
  <2>3. Occurrences(s, b) = 1
    BY <2>2, FS_Singleton DEF Occurrences
  <2> QED
    BY <1>1, <2>3
<1>2. CASE ~Has(s, b)
  <2>1. {j \in DOMAIN s : s[j] = b} = {}
    BY <1>2 DEF Has
  <2>2. Occurrences(s, b) = 0
    BY <2>1, FS_EmptySet DEF Occurrences
  <2> QED
    BY <1>2, <2>2
<1> QED
  BY <1>1, <1>2

LEMMA AppendHas ==
  ASSUME NEW S, NEW s \in Seq(S), NEW a \in S
  PROVE  /\ DOMAIN Append(s, a) = 1..(Len(s) + 1) /\ DOMAIN s = 1..Len(s) /\ Len(s) \in Nat
         /\ \A i \in 1..Len(s) : Append(s, a)[i] = s[i]
         /\ Append(s, a)[Len(s) + 1] = a
         /\ \A b : Has(Append(s, a), b) <=> Has(s, b) \/ b = a
<1>1. /\ DOMAIN Append(s, a) = 1..(Len(s) + 1) /\ DOMAIN s = 1..Len(s) /\ Len(s) \in Nat
      /\ \A i \in 1..Len(s) : Append(s, a)[i] = s[i]
      /\ Append(s, a)[Len(s) + 1] = a
  OBVIOUS
<1>2. /\ \A i \in 1..(Len(s) + 1) : i \in 1..Len(s) \/ i = Len(s) + 1
      /\ 1..Len(s) \subseteq 1..(Len(s) + 1) /\ Len(s) + 1 \in 1..(Len(s) + 1)
  BY <1>1
<1>3. ASSUME NEW b PROVE Has(Append(s, a), b) <=> Has(s, b) \/ b = a
  BY <1>1, <1>2 DEF Has
<1> QED
  BY <1>1, <1>3

LEMMA ServedInitInv == SocketsInit => ServedInv
BY DEF SocketsInit, ServedInv, HistoryTypeOK, OwnId, Rivals, Served, Live, Has

\* Who registers under an id in use shares it from then on, and so does
\* everybody connected who has it.
LEMMA RegisterServed ==
  ASSUME SocketsInv, ServedInv, NEW c \in Clients, Register(c)
  PROVE  ServedInv'
<1>1. SocketsTypeOK /\ HistoryTypeOK /\ OwnId /\ Rivals /\ Served
  BY DEF SocketsInv, ServedInv
<1> DEFINE same == {d \in Live : Id[d] = Id[c]}
<1>2. /\ state[c] = "new" /\ state' = [state EXCEPT ![c] = "live"]
      /\ clients' = Put(clients, Id[c], c)
      /\ shared' = shared \cup same \cup (IF same = {} THEN {} ELSE {c})
      /\ UNCHANGED <<cast, left, got, due, missed>>
  BY DEF Register
<1>3. Live' = Live \cup {c} /\ c \notin Live
  BY <1>1, <1>2 DEF Live, SocketsTypeOK
<1>4. OwnId'
  <2> SUFFICES ASSUME NEW d \in Live', d \notin shared'
               PROVE  Id[d] \in DOMAIN clients' /\ clients'[Id[d]] = d
    BY DEF OwnId
  <2>1. CASE d = c
    BY <1>2, <2>1 DEF Put
  <2>2. CASE d # c
    <3>1. d \in Live /\ d \notin shared /\ Id[d] # Id[c]
      BY <1>2, <1>3, <2>2
    <3>2. Id[d] \in DOMAIN clients /\ clients[Id[d]] = d
      BY <1>1, <3>1 DEF OwnId
    <3> QED
      BY <1>2, <3>1, <3>2 DEF Put
  <2> QED
    BY <2>1, <2>2
<1>5. Rivals'
  <2> SUFFICES ASSUME NEW d \in Live', NEW e \in Live', Id[d] = Id[e], d # e
               PROVE  d \in shared'
    BY DEF Rivals
  <2>1. CASE d = c
    BY <1>2, <1>3, <2>1
  <2>2. CASE e = c
    BY <1>2, <1>3, <2>2
  <2>3. CASE d # c /\ e # c
    BY <1>1, <1>2, <1>3, <2>3 DEF Rivals
  <2> QED
    BY <2>1, <2>2, <2>3
<1>6. HistoryTypeOK' /\ Served'
  BY <1>1, <1>2 DEF HistoryTypeOK, Served
<1> QED
  BY <1>4, <1>5, <1>6 DEF ServedInv

\* Whom the table loses besides has shared its id.
LEMMA UnregisterServed ==
  ASSUME SocketsInv, ServedInv, NEW c \in Clients, Unregister(c)
  PROVE  ServedInv'
<1>1. SocketsTypeOK /\ HistoryTypeOK /\ OwnId /\ Rivals /\ Served
  BY DEF SocketsInv, ServedInv
<1>2. /\ state[c] = "live" /\ state' = [state EXCEPT ![c] = "gone"]
      /\ clients' = Drop(clients, Id[c])
      /\ UNCHANGED <<shared, cast, left, got, due, missed>>
  BY DEF Unregister
<1>3. Live' = Live \ {c} /\ c \in Live
  BY <1>1, <1>2 DEF Live, SocketsTypeOK
<1>4. OwnId'
  <2> SUFFICES ASSUME NEW d \in Live', d \notin shared'
               PROVE  Id[d] \in DOMAIN clients' /\ clients'[Id[d]] = d
    BY DEF OwnId
  <2>1. d \in Live /\ d \notin shared /\ d # c
    BY <1>2, <1>3
  <2>2. Id[d] # Id[c]
    BY <1>1, <1>3, <2>1 DEF Rivals
  <2>3. Id[d] \in DOMAIN clients /\ clients[Id[d]] = d
    BY <1>1, <2>1 DEF OwnId
  <2> QED
    BY <1>2, <2>2, <2>3 DEF Drop
<1>5. Rivals'
  BY <1>1, <1>2, <1>3 DEF Rivals
<1>6. HistoryTypeOK' /\ Served'
  BY <1>1, <1>2 DEF HistoryTypeOK, Served
<1> QED
  BY <1>4, <1>5, <1>6 DEF ServedInv

LEMMA BroadcastServed ==
  ASSUME SocketsInv, ServedInv, NEW b \in Casts, Broadcast(b)
  PROVE  ServedInv'
<1>1. SocketsTypeOK /\ HistoryTypeOK /\ OwnId /\ Rivals /\ Served
  BY DEF SocketsInv, ServedInv
<1>2. /\ cast[b] = "new" /\ cast' = [cast EXCEPT ![b] = "running"]
      /\ left' = [left EXCEPT ![b] = Listed] /\ due' = [due EXCEPT ![b] = Live \ shared]
      /\ UNCHANGED <<clients, state, shared, got, missed>>
  BY DEF Broadcast
<1>3. Live \ shared \subseteq Listed
  BY <1>1 DEF OwnId, Listed
<1>4. HistoryTypeOK' /\ OwnId' /\ Rivals'
  BY <1>1, <1>2 DEF HistoryTypeOK, OwnId, Rivals, Live
<1>5. Served'
  <2> SUFFICES ASSUME NEW a \in Casts, NEW c \in Clients
               PROVE  /\ \A i, j \in DOMAIN got[c] : got[c][i] = a /\ got[c][j] = a => i = j
                      /\ cast'[a] = "new" \/ c \in left'[a] => ~Has(got[c], a) /\ a \notin missed[c]
                      /\ Has(got[c], a) => a \notin missed[c]
                      /\ c \in due'[a] /\ cast'[a] # "new" =>
                           c \in left'[a] \/ Has(got[c], a) \/ a \in missed[c]
    BY <1>2 DEF Served
  <2>1. CASE a = b
    <3>1. due'[b] = Live \ shared /\ left'[b] = Listed
      BY <1>1, <1>2 DEF SocketsTypeOK, HistoryTypeOK
    <3> QED
      BY <1>1, <1>2, <1>3, <2>1, <3>1 DEF Served
  <2>2. CASE a # b
    <3>1. due'[a] = due[a] /\ left'[a] = left[a] /\ cast'[a] = cast[a]
      BY <1>1, <1>2, <2>2 DEF SocketsTypeOK, HistoryTypeOK
    <3> QED
      BY <1>1, <3>1 DEF Served
  <2> QED
    BY <2>1, <2>2
<1> QED
  BY <1>4, <1>5 DEF ServedInv

LEMMA DeliverServed ==
  ASSUME SocketsInv, ServedInv, NEW b \in Casts, NEW c \in Clients, Deliver(b, c)
  PROVE  ServedInv'
<1>1. SocketsTypeOK /\ LeftLive /\ HistoryTypeOK /\ OwnId /\ Rivals /\ Served
  BY DEF SocketsInv, ServedInv
<1>2. /\ c \in left[b] /\ left' = [left EXCEPT ![b] = @ \ {c}]
      /\ UNCHANGED <<clients, state, shared, cast, due>>
      /\ \/ got' = [got EXCEPT ![c] = Append(@, b)] /\ missed' = missed
         \/ missed' = [missed EXCEPT ![c] = @ \cup {b}] /\ got' = got
  BY DEF Deliver
<1>3. OwnId' /\ Rivals'
  BY <1>1, <1>2 DEF OwnId, Rivals, Live
<1>4. HistoryTypeOK'
  <2>1. Append(got[c], b) \in Seq(Casts)
    BY <1>1 DEF HistoryTypeOK
  <2>2. CASE got' = [got EXCEPT ![c] = Append(@, b)] /\ missed' = missed
    BY <1>1, <1>2, <2>1, <2>2 DEF HistoryTypeOK
  <2>3. CASE missed' = [missed EXCEPT ![c] = @ \cup {b}] /\ got' = got
    BY <1>1, <1>2, <2>3 DEF HistoryTypeOK
  <2> QED
    BY <1>2, <2>2, <2>3
<1>5. cast[b] # "new" /\ ~Has(got[c], b) /\ b \notin missed[c]
  BY <1>1, <1>2 DEF Served, LeftLive
<1>6. /\ left'[b] = left[b] \ {c}
      /\ \A a \in Casts : a # b => left'[a] = left[a]
      /\ \A d \in Clients : d # c => got'[d] = got[d] /\ missed'[d] = missed[d]
  BY <1>1, <1>2 DEF SocketsTypeOK, HistoryTypeOK
<1>7. \/ got'[c] = Append(got[c], b) /\ missed'[c] = missed[c]
      \/ missed'[c] = missed[c] \cup {b} /\ got'[c] = got[c]
  BY <1>1, <1>2 DEF HistoryTypeOK
<1>8. got[c] \in Seq(Casts)
  BY <1>1 DEF HistoryTypeOK
<1>9. Served'
  <2> SUFFICES ASSUME NEW a \in Casts, NEW d \in Clients
               PROVE  /\ \A i, j \in DOMAIN got'[d] : got'[d][i] = a /\ got'[d][j] = a => i = j
                      /\ cast[a] = "new" \/ d \in left'[a] => ~Has(got'[d], a) /\ a \notin missed'[d]
                      /\ Has(got'[d], a) => a \notin missed'[d]
                      /\ d \in due[a] /\ cast[a] # "new" =>
                           d \in left'[a] \/ Has(got'[d], a) \/ a \in missed'[d]
    BY <1>2 DEF Served
  <2>1. CASE d # c
    <3>1. d \in left'[a] <=> d \in left[a]
      BY <1>6, <2>1
    <3> QED
      BY <1>1, <1>6, <2>1, <3>1 DEF Served
  <2>2. CASE d = c /\ a # b
    <3>1. left'[a] = left[a] /\ (a \in missed'[c] <=> a \in missed[c])
      BY <1>6, <1>7, <2>2
    <3>2. /\ Has(got'[c], a) <=> Has(got[c], a)
          /\ \A i, j \in DOMAIN got'[c] : got'[c][i] = a /\ got'[c][j] = a => i = j
      <4>1. CASE got'[c] = got[c]
        BY <1>1, <4>1 DEF Served
      <4>2. CASE got'[c] = Append(got[c], b)
        <5>1. \A i \in DOMAIN got'[c] : got'[c][i] = a => i \in DOMAIN got[c] /\ got[c][i] = a
          BY <1>8, <2>2, <4>2, AppendHas
        <5> QED
          BY <1>1, <1>8, <2>2, <4>2, <5>1, AppendHas DEF Served
      <4> QED
        BY <1>7, <4>1, <4>2
    <3> QED
      BY <1>1, <2>2, <3>1, <3>2 DEF Served
  <2>3. CASE d = c /\ a = b
    <3>1. c \notin left'[b]
      BY <1>6
    <3>2. CASE missed'[c] = missed[c] \cup {b} /\ got'[c] = got[c]
      BY <1>1, <1>5, <2>3, <3>1, <3>2 DEF Served
    <3>3. CASE got'[c] = Append(got[c], b) /\ missed'[c] = missed[c]
      <4>1. Has(got'[c], b)
        BY <1>8, <3>3, AppendHas
      <4>2. \A i \in DOMAIN got'[c] : got'[c][i] = b => i = Len(got[c]) + 1
        BY <1>5, <1>8, <3>3, AppendHas DEF Has
      <4> QED
        BY <1>5, <2>3, <3>1, <3>3, <4>1, <4>2
    <3> QED
      BY <1>7, <3>2, <3>3
  <2> QED
    BY <2>1, <2>2, <2>3
<1> QED
  BY <1>3, <1>4, <1>9 DEF ServedInv

LEMMA ServedStep == SocketsInv /\ ServedInv /\ [SocketsNext]_sockets => ServedInv'
<1> SUFFICES ASSUME SocketsInv, ServedInv, [SocketsNext]_sockets PROVE ServedInv'
  OBVIOUS
<1>1. ASSUME NEW c \in Clients, Register(c) PROVE ServedInv'
  BY <1>1, RegisterServed
<1>2. ASSUME NEW c \in Clients, Unregister(c) PROVE ServedInv'
  BY <1>2, UnregisterServed
<1>3. ASSUME NEW c \in Clients, Receive(c) PROVE ServedInv'
  BY <1>3 DEF Receive, ServedInv, HistoryTypeOK, OwnId, Rivals, Served, Live
<1>4. ASSUME NEW b \in Casts, Broadcast(b) PROVE ServedInv'
  BY <1>4, BroadcastServed
<1>5. ASSUME NEW b \in Casts, Return(b) PROVE ServedInv'
  <2>1. /\ cast[b] = "running" /\ cast' = [cast EXCEPT ![b] = "done"]
        /\ UNCHANGED <<clients, state, shared, left, got, due, missed>>
    BY <1>5 DEF Return
  <2>2. \A a \in Casts : cast'[a] = "new" <=> cast[a] = "new"
    BY <2>1 DEF SocketsInv, SocketsTypeOK
  <2>3. HistoryTypeOK' /\ OwnId' /\ Rivals'
    BY <2>1 DEF ServedInv, HistoryTypeOK, OwnId, Rivals, Live
  <2>4. Served'
    BY <2>1, <2>2 DEF ServedInv, Served
  <2> QED
    BY <2>3, <2>4 DEF ServedInv
<1>6. ASSUME NEW b \in Casts, NEW c \in Clients, Deliver(b, c) PROVE ServedInv'
  BY <1>6, DeliverServed
<1>7. CASE UNCHANGED sockets
  BY <1>7 DEF sockets, ServedInv, HistoryTypeOK, OwnId, Rivals, Served, Live
<1> QED
  BY <1>1, <1>2, <1>3, <1>4, <1>5, <1>6, <1>7 DEF SocketsNext

\* Whoever comes and goes under whatever ids while broadcasts run: nobody gets
\* a message twice, and who was connected under an id of its own when a
\* Broadcast began has got it or had no room for it when the Broadcast ends.
THEOREM SocketsServed == SocketsSpec => []SocketsRight
<1>1. SocketsInv /\ ServedInv => EachOnce
  <2> SUFFICES ASSUME SocketsInv, ServedInv, NEW b \in Casts, NEW c \in Clients
               PROVE  /\ Occurrences(got[c], b) <= 1
                      /\ cast[b] = "done" /\ c \in due[b] =>
                           (b \in missed[c]) # (Occurrences(got[c], b) = 1)
    BY DEF EachOnce
  <2>1. Occurrences(got[c], b) <= 1 /\ (Occurrences(got[c], b) = 1 <=> Has(got[c], b))
    BY OccursOnce DEF ServedInv, Served
  <2>2. cast[b] = "done" => c \notin left[b]
    BY DEF SocketsInv, LeftLive
  <2>3. cast[b] = "done" /\ c \in due[b] => (b \in missed[c] <=> ~Has(got[c], b))
    BY <2>2 DEF ServedInv, Served
  <2> QED
    BY <2>1, <2>3
<1>2. SocketsInv => NeverOnClosed
  BY DEF SocketsInv
<1>3. SocketsSpec => [](SocketsInv /\ ServedInv)
  BY SocketsInitInv, SocketsStep, ServedInitInv, ServedStep, PTL DEF SocketsSpec
<1>4. SocketsInv /\ ServedInv => SocketsRight
  BY <1>1, <1>2 DEF SocketsRight
<1> QED
  BY <1>3, <1>4, PTL

==============================================================================
