------------------------------ MODULE ToolsProofs ------------------------------
(* The tools around a program.  The package manager, for any number of        *)
(* processes and commands, and whatever they fail or are killed at: a command *)
(* that ran by itself leaves the right lockfile.  The language server, for    *)
(* any texts and edits, and whatever it finds in them: it is behind the       *)
(* editor by no more than what it has not read.                               *)
EXTENDS Packages, Documents, ListProofs, SequenceTheorems, TLAPS

------------------------------------------------------------------------------
(* Packages                                                                *)

\* A command counts as alone only while no other is under way.
OneAlone == \A p, q \in Processes : alone[p] /\ q # p => pc[q] = "idle"

\* Such a command has in hand the manifest as it is.
HandCurrent ==
  \A p \in Processes : alone[p] /\ pc[p] = "lock" => text[p] = manifest[ManifestPath]

\* Nothing is under way when the last command settled the lockfile.
Quiet == settled => \A p \in Processes : pc[p] = "idle"

PackagesTypeOK ==
  /\ pc \in [Processes -> {"idle", "edit", "install", "lock"}]
  /\ alone \in [Processes -> BOOLEAN]
  /\ DOMAIN text = Processes
  /\ DOMAIN manifest = Flavours
  /\ DOMAIN lock = Flavours
  /\ path \in [Processes -> Flavours]
  /\ settled \in BOOLEAN

PackagesInv == PackagesTypeOK /\ OneAlone /\ HandCurrent /\ Quiet /\ LockCurrent

\* The lockfile that was written is the one found afterwards: a project has one
\* of the two names, and keeps it.
LEMMA LockStays ==
  ASSUME DOMAIN lock = Flavours, NEW new, new # Absent,
         lock' = [lock EXCEPT ![LockfilePath] = new], manifest' = manifest
  PROVE  LockfilePath' = LockfilePath /\ lock'[LockfilePath'] = new
<1>1. LockfilePath \in Flavours
  BY DEF LockfilePath, Flavours
<1>2. lock'[LockfilePath] = new
  BY <1>1
<1>3. \A f \in Flavours : f # LockfilePath => lock'[f] = lock[f]
  OBVIOUS
<1>4. CASE lock["alap"] # Absent
  <2>1. LockfilePath = "alap"
    BY <1>4 DEF LockfilePath
  <2>2. LockfilePath' = "alap"
    BY <1>2, <2>1 DEF LockfilePath
  <2> QED
    BY <1>2, <2>1, <2>2
<1>5. CASE lock["alap"] = Absent
  <2>1. CASE LockfilePath = "alap"
    <3>1. LockfilePath' = "alap"
      BY <1>2, <2>1 DEF LockfilePath
    <3> QED
      BY <1>2, <2>1, <3>1
  <2>2. CASE LockfilePath = "nilx"
    <3>1. lock'["alap"] = Absent /\ lock'["nilx"] # Absent
      BY <1>2, <1>3, <1>5, <2>2 DEF Flavours
    <3>2. LockfilePath' = "nilx"
      BY <3>1 DEF LockfilePath
    <3> QED
      BY <1>2, <2>2, <3>2
  <2> QED
    BY <1>1, <2>1, <2>2 DEF Flavours
<1> QED
  BY <1>4, <1>5

LEMMA PackagesInit == Init => PackagesInv
<1> SUFFICES ASSUME Init PROVE PackagesInv
  OBVIOUS
<1>1. PackagesTypeOK
  BY DEF Init, PackagesTypeOK, Flavours
<1>2. \A p \in Processes : ~alone[p]
  BY DEF Init
<1>3. ~settled
  BY DEF Init
<1> QED
  BY <1>1, <1>2, <1>3 DEF PackagesInv, OneAlone, HandCurrent, Quiet, LockCurrent

\* The command of p is over: nobody else comes to be alone or at work by that.
LEMMA EndsInv ==
  ASSUME PackagesTypeOK, OneAlone, HandCurrent, NEW p \in Processes, NEW from, Ends(p, from)
  PROVE  /\ pc' \in [Processes -> {"idle", "edit", "install", "lock"}]
         /\ alone' \in [Processes -> BOOLEAN] /\ path' \in [Processes -> Flavours]
         /\ DOMAIN text' = Processes
         /\ OneAlone'
         /\ \A q \in Processes : alone'[q] => q # p /\ alone[q] /\ pc'[q] = pc[q] /\ text'[q] = text[q]
         /\ pc'[p] = "idle" /\ \A q \in Processes : q # p => pc'[q] = pc[q]
BY DEF Ends, Goto, PackagesTypeOK, OneAlone, Flavours

\* Only the one alone is at work, so what another command writes or empties was
\* in no such hand.
LEMMA NobodyAlone ==
  ASSUME OneAlone, NEW p \in Processes, NEW q \in Processes, pc[p] # "idle", alone[q]
  PROVE  q = p
BY DEF OneAlone

LEMMA BeginInv ==
  ASSUME PackagesInv, NEW p \in Processes, NEW to \in {"edit", "install"}, Begin(p, to),
         UNCHANGED <<manifest, lock>>, path' \in [Processes -> Flavours],
         DOMAIN text' = Processes
  PROVE  PackagesInv'
<1>1. PackagesTypeOK'
  BY DEF PackagesInv, PackagesTypeOK, Begin, Goto
<1>2. \A q \in Processes : alone'[q] => q = p /\ \A r \in Processes : pc[r] = "idle"
  BY DEF Begin
<1>3. pc'[p] = to /\ \A q \in Processes : q # p => pc'[q] = pc[q]
  BY DEF PackagesInv, PackagesTypeOK, Begin, Goto
<1>4. OneAlone' /\ HandCurrent'
  BY <1>2, <1>3 DEF OneAlone, HandCurrent
<1>5. ~settled'
  BY DEF Begin
<1> QED
  BY <1>1, <1>4, <1>5 DEF PackagesInv, Quiet, LockCurrent

\* While a process is at work nothing counts as settled.
LEMMA Unsettled ==
  ASSUME PackagesInv, NEW p \in Processes, pc[p] # "idle"
  PROVE  ~settled
BY DEF PackagesInv, Quiet

LEMMA WriteManifestInv ==
  ASSUME PackagesInv, NEW p \in Processes, WriteManifest(p)
  PROVE  PackagesInv'
<1>1. pc[p] = "edit" /\ ~settled'
  BY Unsettled DEF WriteManifest, Goto, Ends
<1>2. \A q \in Processes : alone[q] => q = p
  BY <1>1, NobodyAlone DEF PackagesInv
<1>3. DOMAIN manifest' = Flavours /\ DOMAIN lock' = Flavours
  BY DEF WriteManifest, PackagesInv, PackagesTypeOK
<1>4. CASE Ends(p, "edit")
  <2>1. /\ PackagesTypeOK' /\ OneAlone'
        /\ \A q \in Processes : alone'[q] => q # p /\ alone[q]
    BY <1>1, <1>3, <1>4, EndsInv DEF PackagesInv, PackagesTypeOK, WriteManifest
  <2>2. HandCurrent'
    BY <1>2, <2>1 DEF HandCurrent
  <2> QED
    BY <1>1, <2>1, <2>2 DEF PackagesInv, Quiet, LockCurrent
<1>5. CASE Goto(p, "edit", "install") /\ UNCHANGED <<path, text, installs, runs, alone>>
  <2>1. PackagesTypeOK' /\ OneAlone'
    BY <1>1, <1>3, <1>5 DEF WriteManifest, Goto, PackagesInv, PackagesTypeOK, OneAlone
  <2>2. HandCurrent'
    BY <1>2, <1>5 DEF HandCurrent, Goto, PackagesInv, PackagesTypeOK
  <2> QED
    BY <1>1, <2>1, <2>2 DEF PackagesInv, Quiet, LockCurrent
<1> QED
  BY <1>4, <1>5 DEF WriteManifest

LEMMA ReadManifestInv ==
  ASSUME PackagesInv, NEW p \in Processes, ReadManifest(p)
  PROVE  PackagesInv'
<1>1. pc[p] = "install" /\ ~settled'
  BY Unsettled DEF ReadManifest, Goto
<1>2. ManifestPath' = ManifestPath /\ manifest' = manifest
  BY DEF ReadManifest, ManifestPath
<1>3. PackagesTypeOK' /\ OneAlone'
  BY <1>1 DEF ReadManifest, Goto, PackagesInv, PackagesTypeOK, OneAlone
<1>4. \A q \in Processes : alone'[q] => q = p
  BY <1>1, NobodyAlone DEF PackagesInv, ReadManifest
<1>5. text'[p] = manifest[ManifestPath]
  BY DEF ReadManifest, PackagesInv, PackagesTypeOK
<1>6. HandCurrent'
  BY <1>2, <1>4, <1>5 DEF HandCurrent
<1> QED
  BY <1>1, <1>3, <1>6 DEF PackagesInv, Quiet, LockCurrent

\* The lockfile is written by the one alone, from the manifest as it is, or it
\* settles nothing.
LEMMA WriteLockInv ==
  ASSUME PackagesInv, NEW p \in Processes, WriteLock(p), \A deps : Locked(deps) # Absent
  PROVE  PackagesInv'
<1>1. Ends(p, "lock") /\ pc[p] = "lock" /\ manifest' = manifest /\ settled' = alone[p]
  BY DEF WriteLock, Ends, Goto
<1>2. \A q \in Processes : ~alone'[q]
  BY <1>1, EndsInv, NobodyAlone DEF PackagesInv
<1>3. PackagesTypeOK' /\ OneAlone'
  BY <1>1, EndsInv DEF WriteLock, PackagesInv, PackagesTypeOK
<1>4. HandCurrent'
  BY <1>2 DEF HandCurrent
<1>5. ASSUME settled' PROVE Quiet' /\ LockCurrent'
  <2>1. alone[p] /\ text[p] = manifest[ManifestPath]
    BY <1>1, <1>5 DEF PackagesInv, HandCurrent
  <2>2. \A q \in Processes : pc'[q] = "idle"
    BY <1>1, <2>1, EndsInv DEF PackagesInv, OneAlone
  <2>3. lock' = [lock EXCEPT ![LockfilePath] = Locked(ParseDependencies(text[p]))]
    BY DEF WriteLock
  <2>4. lock'[LockfilePath'] = Locked(ParseDependencies(text[p]))
    BY <1>1, <2>3, LockStays DEF PackagesInv, PackagesTypeOK
  <2>5. manifest'[ManifestPath'] = manifest[ManifestPath]
    BY <1>1 DEF ManifestPath
  <2> QED
    BY <2>1, <2>2, <2>4, <2>5 DEF Quiet, LockCurrent
<1> QED
  BY <1>3, <1>4, <1>5 DEF PackagesInv, Quiet, LockCurrent

LEMMA FailInv ==
  ASSUME PackagesInv, NEW p \in Processes, NEW from, Ends(p, from), pc[p] # "idle", UNCHANGED settled,
         DOMAIN manifest' = Flavours, DOMAIN lock' = Flavours
  PROVE  PackagesInv'
<1>1. \A q \in Processes : ~alone'[q]
  BY EndsInv, NobodyAlone DEF PackagesInv
<1>2. ~settled'
  BY Unsettled
<1> QED
  BY <1>1, <1>2, EndsInv DEF PackagesInv, PackagesTypeOK, HandCurrent, Quiet, LockCurrent

LEMMA PackagesStep ==
  ASSUME PackagesInv, [Next]_vars, \A deps : Locked(deps) # Absent
  PROVE  PackagesInv'
<1>1. CASE UNCHANGED vars
  BY <1>1 DEF vars, PackagesInv, PackagesTypeOK, OneAlone, HandCurrent, Quiet, LockCurrent,
     LockfilePath, ManifestPath
<1>2. ASSUME NEW p \in Processes, Install(p) PROVE PackagesInv'
  BY <1>2, BeginInv DEF Install, PackagesInv, PackagesTypeOK
<1>3. ASSUME NEW p \in Processes, NEW lines, NEW goesOn, Edits(p, lines, goesOn) PROVE PackagesInv'
  <2>1. path' \in [Processes -> Flavours]
    BY <1>3 DEF Edits, PackagesInv, PackagesTypeOK, ManifestPath, Flavours
  <2> QED
    BY <1>3, <2>1, BeginInv DEF Edits, PackagesInv, PackagesTypeOK
<1>4. ASSUME NEW p \in Processes, NoManifest(p) PROVE PackagesInv'
  <2>1. Ends(p, "install") /\ pc[p] = "install"
    BY <1>4 DEF NoManifest, Ends, Goto
  <2> QED
    BY <1>4, <2>1, FailInv DEF NoManifest, PackagesInv, PackagesTypeOK
<1>5. ASSUME NEW p \in Processes, Fail(p) PROVE PackagesInv'
  <2>1. DOMAIN manifest' = Flavours /\ DOMAIN lock' = Flavours
    BY <1>5 DEF Fail, PackagesInv, PackagesTypeOK
  <2> QED
    BY <1>5, <2>1, FailInv DEF Fail
<1>6. ASSUME NEW p \in Processes, NEW name \in Names,
             RemovePackage(p, name) \/ CmdAdd(p, name) \/ \E v \in Versions : Add(p, name, v)
      PROVE  PackagesInv'
  <2>1. \E lines, goesOn : Edits(p, lines, goesOn)
    BY <1>6 DEF RemovePackage, CmdAdd, Add
  <2> QED
    BY <2>1, <1>3
<1>7. ASSUME NEW p \in Processes, WriteManifest(p) \/ ReadManifest(p) \/ WriteLock(p)
      PROVE  PackagesInv'
  BY <1>7, WriteManifestInv, ReadManifestInv, WriteLockInv
<1> QED
  BY <1>1, <1>2, <1>4, <1>5, <1>6, <1>7 DEF Next

\* A command that installs and runs by itself leaves the lockfile of the
\* manifest, whatever others did before it (Install): for any number of
\* processes, packages and commands, if a lockfile is never taken for none.
THEOREM LockFollowsManifest ==
  ASSUME \A deps : Locked(deps) # Absent
  PROVE  Spec => []LockCurrent
<1>1. PackagesInv /\ [Next]_vars => PackagesInv'
  BY PackagesStep
<1>2. PackagesInv => LockCurrent
  BY DEF PackagesInv
<1> QED
  BY <1>1, <1>2, PackagesInit, PTL DEF Spec

------------------------------------------------------------------------------
(* Edits of manifests                                                      *)

\* t is s with lines left out and others put in that begin and end no section:
\* line j of t, if it is one of the old lines, is line f[j] of s.
Woven(s, t, f, old) ==
  /\ Len(s) \in Nat /\ DOMAIN s = 1..Len(s) /\ Len(t) \in Nat /\ DOMAIN t = 1..Len(t)
  /\ f \in [1..Len(t) -> 1..Len(s)] /\ old \subseteq 1..Len(t)
  /\ \A j \in old : t[j] = s[f[j]]
  /\ \A j \in 1..Len(t) : j \notin old => ~IsHeader(t[j]) /\ Within(t[j])
  /\ \A i, j \in 1..Len(t) : i < j => f[i] < f[j] \/ (f[i] = f[j] /\ i \in old /\ j \notin old)
  /\ \A i \in 1..Len(s) : (\E j \in old : f[j] = i) \/ (~IsHeader(s[i]) /\ Within(s[i]))

LEMMA WovenOrder ==
  ASSUME NEW s, NEW t, NEW f, NEW old, Woven(s, t, f, old),
         NEW i \in 1..Len(t), NEW j \in old, f[i] < f[j] \/ i < j
  PROVE  i < j /\ f[i] < f[j]
<1>1. j \in 1..Len(t) /\ f[i] \in 1..Len(s) /\ f[j] \in 1..Len(s) /\ Len(t) \in Nat /\ Len(s) \in Nat
  BY DEF Woven
<1>2. i < j => f[i] < f[j]
  BY <1>1 DEF Woven
<1>3. j < i => f[j] < f[i] \/ f[j] = f[i]
  BY <1>1 DEF Woven
<1>4. i < j \/ j < i \/ i = j
  BY <1>1
<1>5. f[i] < f[j] => ~(f[j] < f[i] \/ f[j] = f[i])
  BY <1>1
<1> QED
  BY <1>2, <1>3, <1>4, <1>5

LEMMA WovenSection ==
  ASSUME NEW s, NEW t, NEW f, NEW old, Woven(s, t, f, old), NEW j \in old
  PROVE  InDependencies(t, j) <=> InDependencies(s, f[j])
<1>1. /\ j \in 1..Len(t) /\ f[j] \in 1..Len(s) /\ Len(t) \in Nat /\ Len(s) \in Nat
      /\ \A i \in old : i \in 1..Len(t) /\ f[i] \in 1..Len(s)
      /\ \A i \in 1..Len(t) : f[i] \in 1..Len(s)
  BY DEF Woven
<1>2. ASSUME InDependencies(t, j) PROVE InDependencies(s, f[j])
  <2>1. PICK h \in 1..(j - 1) : IsHeader(t[h]) /\ \A i \in (h + 1)..(j - 1) : Within(t[i])
    BY <1>2 DEF InDependencies
  <2>2. h \in 1..Len(t) /\ h < j
    BY <1>1, <2>1
  <2>3. h \in old /\ t[h] = s[f[h]]
    BY <2>1, <2>2 DEF Woven
  <2>4. f[h] < f[j]
    BY <2>2, WovenOrder
  <2>5. f[h] \in 1..(f[j] - 1)
    BY <1>1, <2>2, <2>4
  <2>6. ASSUME NEW i \in (f[h] + 1)..(f[j] - 1) PROVE Within(s[i])
    <3>1. i \in 1..Len(s) /\ f[h] < i /\ i < f[j]
      BY <1>1, <2>2, <2>6
    <3>2. CASE \E k \in old : f[k] = i
      <4>1. PICK k \in old : f[k] = i
        BY <3>2
      <4>2. k \in 1..Len(t) /\ t[k] = s[i]
        BY <1>1, <4>1 DEF Woven
      <4>3. h < k /\ k < j
        BY <2>2, <2>3, <3>1, <4>1, <4>2, WovenOrder
      <4>4. k \in (h + 1)..(j - 1)
        BY <1>1, <2>2, <4>2, <4>3
      <4> QED
        BY <2>1, <4>2, <4>4
    <3> QED
      BY <3>1, <3>2 DEF Woven
  <2> QED
    BY <2>1, <2>3, <2>5, <2>6 DEF InDependencies
<1>3. ASSUME InDependencies(s, f[j]) PROVE InDependencies(t, j)
  <2>1. PICK h \in 1..(f[j] - 1) : IsHeader(s[h]) /\ \A i \in (h + 1)..(f[j] - 1) : Within(s[i])
    BY <1>3 DEF InDependencies
  <2>2. h \in 1..Len(s) /\ h < f[j]
    BY <1>1, <2>1
  <2>3. PICK g \in old : f[g] = h
    BY <2>1, <2>2 DEF Woven
  <2>4. g \in 1..Len(t) /\ t[g] = s[h]
    BY <1>1, <2>3 DEF Woven
  <2>5. g < j
    BY <2>2, <2>3, <2>4, WovenOrder
  <2>6. g \in 1..(j - 1)
    BY <1>1, <2>4, <2>5
  <2>7. ASSUME NEW i \in (g + 1)..(j - 1) PROVE Within(t[i])
    <3>1. i \in 1..Len(t) /\ g < i /\ i < j
      BY <1>1, <2>4, <2>7
    <3>2. CASE i \in old
      <4>1. t[i] = s[f[i]] /\ f[i] \in 1..Len(s)
        BY <1>1, <3>1, <3>2 DEF Woven
      <4>2. h < f[i] /\ f[i] < f[j]
        BY <2>3, <2>4, <3>1, <3>2, WovenOrder
      <4>3. f[i] \in (h + 1)..(f[j] - 1)
        BY <1>1, <2>2, <4>1, <4>2
      <4> QED
        BY <2>1, <4>1, <4>3
    <3> QED
      BY <3>1, <3>2 DEF Woven
  <2> QED
    BY <2>1, <2>4, <2>6, <2>7 DEF InDependencies
<1> QED
  BY <1>2, <1>3

LEMMA WovenListed ==
  ASSUME NEW s, NEW t, NEW f, NEW old, Woven(s, t, f, old), NEW j \in old
  PROVE  j \in Listed(t) <=> f[j] \in Listed(s)
<1>1. j \in DOMAIN t /\ f[j] \in DOMAIN s /\ t[j] = s[f[j]]
  BY DEF Woven
<1> QED
  BY <1>1, WovenSection DEF Listed

\* The last line that lists a package says its version.
LEMMA LastListed ==
  ASSUME NEW lines, NEW i \in Listed(lines), Listed(lines) \subseteq Nat,
         \A j \in Listed(lines) : lines[j].key = lines[i].key => j <= i
  PROVE  /\ lines[i].key \in DOMAIN ParseDependencies(lines)
         /\ ParseDependencies(lines)[lines[i].key] = lines[i].value
<1> DEFINE name == lines[i].key
           Q(k) == k \in Listed(lines) /\ lines[k].key = name
                     /\ \A j \in Listed(lines) : lines[j].key = name => j <= k
           last == CHOOSE k \in Listed(lines) :
                     lines[k].key = name /\ \A j \in Listed(lines) : lines[j].key = name => j <= k
<1>1. /\ last \in Listed(lines) /\ lines[last].key = name
      /\ \A j \in Listed(lines) : lines[j].key = name => j <= last
  <2>1. Q(i)
    OBVIOUS
  <2> QED
    BY <2>1
<1>2. last = i
  <2>1. last <= i /\ i <= last
    BY <1>1
  <2>2. last \in Nat /\ i \in Nat
    BY <1>1
  <2> HIDE DEF last
  <2> QED
    BY <2>1, <2>2
<1>3. name \in {lines[k].key : k \in Listed(lines)}
  OBVIOUS
<1>4. ParseDependencies(lines)[name] = lines[last].value /\ name \in DOMAIN ParseDependencies(lines)
  BY <1>3 DEF ParseDependencies
<1> HIDE DEF last
<1> QED
  BY <1>2, <1>4

LEMMA LastExists ==
  ASSUME NEW N \in Nat, NEW S \in SUBSET (1..N), S # {}
  PROVE  \E m \in S : \A j \in S : j <= m
<1> DEFINE T == {n \in Nat : \E m \in S : m >= n}
<1> SUFFICES ASSUME ~\E m \in S : \A j \in S : j <= m PROVE FALSE
  OBVIOUS
<1>1. \A m \in S : m \in Nat /\ m <= N
  OBVIOUS
<1>2. 0 \in T
  <2>1. PICK m : m \in S
    OBVIOUS
  <2> QED
    BY <1>1, <2>1
<1>3. ASSUME NEW n \in T PROVE n + 1 \in T
  <2>1. PICK m \in S : m >= n
    OBVIOUS
  <2>2. PICK j \in S : ~(j <= m)
    OBVIOUS
  <2>3. j >= n + 1
    BY <1>1, <2>1, <2>2
  <2> QED
    BY <2>3
<1> HIDE DEF T
<1>4. T = Nat
  BY <1>2, <1>3, SetInduction DEF T
<1>5. N + 1 \in T
  BY <1>4
<1> QED
  BY <1>1, <1>5 DEF T

\* What a manifest says of a package: the last line that lists it.
LEMMA LastSays ==
  ASSUME NEW lines, Len(lines) \in Nat, DOMAIN lines = 1..Len(lines), NEW name,
         name \in DOMAIN ParseDependencies(lines)
  PROVE  \E i \in Listed(lines) :
           /\ lines[i].key = name
           /\ \A j \in Listed(lines) : lines[j].key = name => j <= i
           /\ ParseDependencies(lines)[name] = lines[i].value
<1> DEFINE S == {i \in Listed(lines) : lines[i].key = name}
<1>1. S \in SUBSET (1..Len(lines))
  BY DEF Listed
<1>2. S # {}
  BY DEF ParseDependencies
<1>3. PICK i \in S : \A j \in S : j <= i
  BY <1>1, <1>2, LastExists
<1>4. i \in Listed(lines) /\ lines[i].key = name
      /\ \A j \in Listed(lines) : lines[j].key = name => j <= i
  BY <1>3
<1>5. Listed(lines) \subseteq Nat
  BY DEF Listed
<1> QED
  BY <1>4, <1>5, LastListed

\* A package none of whose lines was put in or left out is listed as before.
LEMMA WovenSays ==
  ASSUME NEW s, NEW t, NEW f, NEW old, Woven(s, t, f, old), NEW name,
         \A j \in Listed(t) : t[j].key = name => j \in old,
         \A i \in Listed(s) : s[i].key = name => \E j \in old : f[j] = i
  PROVE  /\ name \in DOMAIN ParseDependencies(t) <=> name \in DOMAIN ParseDependencies(s)
         /\ name \in DOMAIN ParseDependencies(s) =>
              ParseDependencies(t)[name] = ParseDependencies(s)[name]
<1>1. /\ Len(s) \in Nat /\ DOMAIN s = 1..Len(s) /\ Len(t) \in Nat /\ DOMAIN t = 1..Len(t)
      /\ \A j \in old : j \in 1..Len(t) /\ f[j] \in 1..Len(s) /\ t[j] = s[f[j]]
  BY DEF Woven
<1>2. Listed(t) \subseteq 1..Len(t) /\ Listed(t) \subseteq Nat
  BY <1>1 DEF Listed
<1>3. ASSUME name \in DOMAIN ParseDependencies(t) PROVE name \in DOMAIN ParseDependencies(s)
  <2>1. PICK j \in Listed(t) : t[j].key = name
    BY <1>3 DEF ParseDependencies
  <2>2. j \in old /\ f[j] \in Listed(s) /\ s[f[j]].key = name
    BY <1>1, <2>1, WovenListed
  <2> QED
    BY <2>2 DEF ParseDependencies
<1>4. ASSUME name \in DOMAIN ParseDependencies(s)
      PROVE  /\ name \in DOMAIN ParseDependencies(t)
             /\ ParseDependencies(t)[name] = ParseDependencies(s)[name]
  <2>1. PICK i \in Listed(s) : /\ s[i].key = name
                               /\ \A k \in Listed(s) : s[k].key = name => k <= i
                               /\ ParseDependencies(s)[name] = s[i].value
    BY <1>1, <1>4, LastSays
  <2>2. PICK j \in old : f[j] = i
    BY <2>1
  <2>3. j \in Listed(t) /\ t[j] = s[i]
    BY <1>1, <2>2, WovenListed
  <2>4. ASSUME NEW k \in Listed(t), t[k].key = t[j].key PROVE k <= j
    <3>1. k \in old
      BY <2>1, <2>3, <2>4
    <3>2. f[k] \in Listed(s) /\ s[f[k]].key = name
      BY <1>1, <2>1, <2>3, <2>4, <3>1, WovenListed
    <3>3. f[k] <= f[j]
      BY <2>1, <2>2, <3>2
    <3>4. ~(j < k)
      <4>1. j < k => f[j] < f[k]
        BY <1>1, <2>2, <3>1, WovenOrder
      <4>2. f[j] \in Nat /\ f[k] \in Nat
        BY <1>1, <3>1
      <4> QED
        BY <3>3, <4>1, <4>2
    <3> QED
      BY <1>2, <2>3, <3>4
  <2>5. /\ t[j].key \in DOMAIN ParseDependencies(t)
        /\ ParseDependencies(t)[t[j].key] = t[j].value
    BY <1>2, <2>3, <2>4, LastListed
  <2> QED
    BY <2>1, <2>3, <2>5
<1> QED
  BY <1>3, <1>4

LEMMA SmallSeqs ==
  ASSUME NEW x, NEW y
  PROVE  /\ <<x>> # <<>> /\ <<x, y>> # <<>>
         /\ Len(<<x>>) = 1 /\ Len(<<x, y>>) = 2
OBVIOUS

\* Each line of s is left out, or kept, or kept with e after it.
Pieces(s, e, pieces) ==
  /\ pieces = [i \in 1..Len(s) |-> pieces[i]]
  /\ ~IsHeader(e) /\ Within(e)
  /\ \A i \in 1..Len(s) : \/ pieces[i] = <<>> /\ ~IsHeader(s[i]) /\ Within(s[i])
                          \/ pieces[i] = <<s[i]>>
                          \/ pieces[i] = <<s[i], e>>

\* t is the pieces, one after another.
Laid(s, e, pieces, t, f, old) ==
  /\ Woven(s, t, f, old)
  /\ \A j \in old : pieces[f[j]] # <<>>
  /\ \A j \in 1..Len(t) : j \notin old => t[j] = e /\ pieces[f[j]] = <<s[f[j]], e>>
  /\ \A i \in 1..Len(s) : pieces[i] # <<>> => \E j \in old : f[j] = i
  /\ \A i \in 1..Len(s) : pieces[i] = <<s[i], e>> => \E j \in 1..Len(t) : j \notin old /\ f[j] = i

LEMMA PiecesWoven ==
  ASSUME NEW s, IsList(s), s # <<>>, NEW e, NEW pieces, Pieces(s, e, pieces),
         NEW t, t = FlattenSeq(pieces)
  PROVE  /\ IsList(t) /\ \A j \in 1..Len(t) : t[j] = e \/ \E i \in 1..Len(s) : t[j] = s[i]
         /\ \E f, old : Laid(s, e, pieces, t, f, old)
<1> DEFINE S == {s[i] : i \in DOMAIN s} \cup {e}
<1>1. Len(s) \in Nat \ {0} /\ DOMAIN s = 1..Len(s) /\ \A i \in 1..Len(s) : s[i] \in S
  BY DEF IsList
<1>2. e \in S
  OBVIOUS
<1> HIDE DEF S
<1>3. \A i \in 1..Len(s) :
        /\ pieces[i] \in Seq(S)
        /\ \/ Len(pieces[i]) = 0 /\ pieces[i] = <<>> /\ ~IsHeader(s[i]) /\ Within(s[i])
           \/ Len(pieces[i]) = 1 /\ pieces[i][1] = s[i] /\ pieces[i] = <<s[i]>>
           \/ Len(pieces[i]) = 2 /\ pieces[i][1] = s[i] /\ pieces[i][2] = e /\ pieces[i] = <<s[i], e>>
  <2> SUFFICES ASSUME NEW i \in 1..Len(s)
               PROVE  /\ pieces[i] \in Seq(S)
                      /\ \/ Len(pieces[i]) = 0 /\ pieces[i] = <<>> /\ ~IsHeader(s[i]) /\ Within(s[i])
                         \/ Len(pieces[i]) = 1 /\ pieces[i][1] = s[i] /\ pieces[i] = <<s[i]>>
                         \/ /\ Len(pieces[i]) = 2 /\ pieces[i][1] = s[i] /\ pieces[i][2] = e
                            /\ pieces[i] = <<s[i], e>>
    OBVIOUS
  <2>1. CASE pieces[i] = <<>> /\ ~IsHeader(s[i]) /\ Within(s[i])
    BY <2>1
  <2>2. CASE pieces[i] = <<s[i]>>
    BY <1>1, <2>2
  <2>3. CASE pieces[i] = <<s[i], e>>
    BY <1>1, <1>2, <2>3
  <2> QED
    BY <2>1, <2>2, <2>3 DEF Pieces
<1>4. pieces \in Seq(Seq(S)) /\ Len(pieces) = Len(s) /\ pieces # <<>>
  <2>1. pieces \in [1..Len(s) -> Seq(S)]
    BY <1>3 DEF Pieces
  <2>2. pieces \in Seq(Seq(S)) /\ Len(pieces) = Len(s)
    BY <1>1, <2>1
  <2> QED
    BY <1>1, <2>2
<1>5. t \in Seq(S) /\ \E p, k : InPlace(t, pieces, Len(pieces), p, k)
  BY <1>4, Flattened
<1>6. PICK f, k : InPlace(t, pieces, Len(s), f, k)
  BY <1>4, <1>5
<1> DEFINE old == {j \in 1..Len(t) : k[j] = 1}
<1>7. /\ Len(t) \in Nat /\ DOMAIN t = 1..Len(t) /\ t \in [1..Len(t) -> S]
      /\ f \in [1..Len(t) -> 1..Len(s)] /\ k \in [1..Len(t) -> Nat]
  BY <1>5, <1>6 DEF InPlace
<1>8. ASSUME NEW j \in 1..Len(t)
      PROVE  \/ k[j] = 1 /\ t[j] = s[f[j]] /\ pieces[f[j]] # <<>>
             \/ k[j] = 2 /\ t[j] = e /\ pieces[f[j]] = <<s[f[j]], e>>
  <2>1. f[j] \in 1..Len(s) /\ k[j] \in 1..Len(pieces[f[j]]) /\ t[j] = pieces[f[j]][k[j]]
    BY <1>6, <1>7 DEF InPlace
  <2>2. CASE Len(pieces[f[j]]) = 0
    BY <2>1, <2>2
  <2>3. CASE Len(pieces[f[j]]) = 1 /\ pieces[f[j]][1] = s[f[j]] /\ pieces[f[j]] = <<s[f[j]]>>
    BY <2>1, <2>3
  <2>4. CASE Len(pieces[f[j]]) = 2 /\ pieces[f[j]][1] = s[f[j]] /\ pieces[f[j]][2] = e
             /\ pieces[f[j]] = <<s[f[j]], e>>
    BY <2>1, <2>4
  <2> QED
    BY <1>3, <2>1, <2>2, <2>3, <2>4
<1>9. \A i \in 1..Len(s) : pieces[i] # <<>> => \E j \in old : f[j] = i
  <2> SUFFICES ASSUME NEW i \in 1..Len(s), pieces[i] # <<>> PROVE \E j \in old : f[j] = i
    OBVIOUS
  <2>1. 1 \in 1..Len(pieces[i])
    BY <1>3
  <2>2. PICK j \in 1..Len(t) : f[j] = i /\ k[j] = 1
    BY <1>6, <2>1 DEF InPlace
  <2> QED
    BY <2>2
<1>10. \A i \in 1..Len(s) : pieces[i] = <<s[i], e>> => \E j \in 1..Len(t) : j \notin old /\ f[j] = i
  <2> SUFFICES ASSUME NEW i \in 1..Len(s), pieces[i] = <<s[i], e>>
               PROVE  \E j \in 1..Len(t) : j \notin old /\ f[j] = i
    OBVIOUS
  <2>1. 2 \in 1..Len(pieces[i])
    <3>1. Len(pieces[i]) = 2
      BY SmallSeqs, Zenon
    <3> QED
      BY <3>1
  <2>2. PICK j \in 1..Len(t) : f[j] = i /\ k[j] = 2
    <3>1. \A m \in 1..Len(pieces[i]) : \E j \in 1..Len(t) : f[j] = i /\ k[j] = m
      BY <1>6 DEF InPlace
    <3> QED
      BY <2>1, <3>1
  <2> QED
    BY <2>2
<1>11. Woven(s, t, f, old)
  <2>1. \A j \in old : t[j] = s[f[j]]
    BY <1>8
  <2>2. \A j \in 1..Len(t) : j \notin old => ~IsHeader(t[j]) /\ Within(t[j])
    BY <1>8 DEF Pieces
  <2>3. ASSUME NEW i \in 1..Len(t), NEW j \in 1..Len(t), i < j
        PROVE  f[i] < f[j] \/ (f[i] = f[j] /\ i \in old /\ j \notin old)
    <3>1. f[i] < f[j] \/ (f[i] = f[j] /\ k[i] < k[j])
      BY <1>6, <2>3 DEF InPlace
    <3>2. k[i] \in {1, 2} /\ k[j] \in {1, 2}
      BY <1>8
    <3>3. k[i] < k[j] => k[i] = 1 /\ k[j] # 1
      BY <3>2
    <3> QED
      BY <3>1, <3>3
  <2>4. \A i \in 1..Len(s) : (\E j \in old : f[j] = i) \/ (~IsHeader(s[i]) /\ Within(s[i]))
    BY <1>3, <1>9
  <2> HIDE DEF old
  <2>5. old \subseteq 1..Len(t)
    BY DEF old
  <2> QED
    BY <1>1, <1>7, <2>1, <2>2, <2>3, <2>4, <2>5 DEF Woven
<1>12. IsList(t)
  BY <1>5, ListOfSeq
<1>13. \A j \in 1..Len(t) : t[j] = e \/ \E i \in 1..Len(s) : t[j] = s[i]
  BY <1>7, <1>8
<1>14. /\ \A j \in old : pieces[f[j]] # <<>>
       /\ \A j \in 1..Len(t) : j \notin old => t[j] = e /\ pieces[f[j]] = <<s[f[j]], e>>
  <2>1. \A j \in old : j \in 1..Len(t) /\ k[j] # 2
    OBVIOUS
  <2>2. \A j \in 1..Len(t) : j \notin old => k[j] # 1
    OBVIOUS
  <2> HIDE DEF old
  <2>3. \A j \in old : pieces[f[j]] # <<>>
    BY <1>8, <2>1, Zenon
  <2>4. \A j \in 1..Len(t) : j \notin old => t[j] = e /\ pieces[f[j]] = <<s[f[j]], e>>
    BY <1>8, <2>2, Zenon
  <2> QED
    BY <2>3, <2>4
<1> HIDE DEF old
<1>15. Laid(s, e, pieces, t, f, old)
  BY <1>9, <1>10, <1>11, <1>14 DEF Laid
<1> QED
  BY <1>12, <1>13, <1>15

\* A line put in after a header is in the section it begins.
LEMMA PutInSection ==
  ASSUME NEW s, NEW t, NEW f, NEW old, Woven(s, t, f, old),
         NEW j \in 1..Len(t), j \notin old, IsHeader(s[f[j]])
  PROVE  InDependencies(t, j)
<1>1. /\ Len(t) \in Nat /\ Len(s) \in Nat /\ \A i \in 1..Len(t) : f[i] \in 1..Len(s)
  BY DEF Woven
<1>2. PICK h \in old : f[h] = f[j]
  BY <1>1 DEF Woven
<1>3. h \in 1..Len(t) /\ IsHeader(t[h])
  BY <1>2 DEF Woven
<1>4. h < j
  <2>1. ~(j < h)
    <3>1. ~(f[j] < f[h])
      BY <1>1, <1>2
    <3> QED
      BY <1>3, <3>1 DEF Woven
  <2>2. h # j
    OBVIOUS
  <2> QED
    BY <1>1, <1>3, <2>1, <2>2
<1>5. ASSUME NEW m \in (h + 1)..(j - 1) PROVE FALSE
  <2>1. m \in 1..Len(t) /\ h < m /\ m < j
    BY <1>1, <1>3, <1>5
  <2>2. f[h] < f[m] \/ (f[h] = f[m] /\ m \notin old)
    BY <1>3, <2>1 DEF Woven
  <2>3. f[m] < f[j] \/ (f[m] = f[j] /\ m \in old)
    BY <2>1 DEF Woven
  <2>4. f[h] \in Nat /\ f[m] \in Nat /\ f[j] \in Nat
    BY <1>1, <1>3, <2>1
  <2>5. f[h] = f[m] /\ f[m] = f[j]
    BY <1>2, <2>2, <2>3, <2>4
  <2> QED
    BY <2>2, <2>3, <2>4, <2>5
<1>6. h \in 1..(j - 1)
  BY <1>1, <1>3, <1>4
<1> QED
  BY <1>3, <1>5, <1>6 DEF InDependencies

\* No line that begins or ends a section is one that Remove takes.
Regular(lines) ==
  /\ IsList(lines)
  /\ \A name \in Names : \A i \in DOMAIN lines :
       IsHeader(lines[i]) \/ ~Within(lines[i]) => ~IsSuffix(name, lines[i].key)

LEMMA ParsedIsFunction ==
  ASSUME NEW lines
  PROVE  ParseDependencies(lines) =
           [n \in DOMAIN ParseDependencies(lines) |-> ParseDependencies(lines)[n]]
BY DEF ParseDependencies

\* A line that lists a package in whatever section it is put in.
Lists(e, name, v) ==
  /\ ~IsHeader(e) /\ Within(e) /\ e.indented = TRUE
  /\ e.key = name /\ e.value = v /\ e.key # <<>>

LEMMA EntryLists ==
  ASSUME NEW name \in Names, NEW v
  PROVE  Lists(Entry(name, v), name, v)
BY PackagesAssumption DEF Entry, Line, IsHeader, Within, Header, Lists

LEMMA HeaderStays ==
  ASSUME NEW name \in Names
  PROVE  ~IsSuffix(name, Header.key)
<1>1. NewManifest[2] = Header /\ 2 \in DOMAIN NewManifest
  BY DEF NewManifest
<1>2. IsHeader(Header)
  BY DEF IsHeader, Header, Line
<1> QED
  BY <1>1, <1>2, PackagesAssumption

LEMMA Nothing ==
  ASSUME NEW lines, DOMAIN lines = {}
  PROVE  Listed(lines) = {} /\ DOMAIN ParseDependencies(lines) = {}
BY DEF Listed, ParseDependencies

LEMMA RemovedRight ==
  ASSUME NEW s, Regular(s), NEW name \in Names, NEW t, t = Removed(s, name)
  PROVE  /\ Regular(t)
         /\ ParseDependencies(t)
              = Without(ParseDependencies(s), {n \in DOMAIN ParseDependencies(s) : IsSuffix(name, n)})
<1> DEFINE pieces == [i \in DOMAIN s |-> IF IsSuffix(name, s[i].key) THEN <<>> ELSE <<s[i]>>]
           e == Entry(name, NoValue)
           gone == {n \in DOMAIN ParseDependencies(s) : IsSuffix(name, n)}
<1>1. t = FlattenSeq(pieces)
  BY DEF Removed
<1>2. /\ IsList(s) /\ Len(s) \in Nat /\ DOMAIN s = 1..Len(s)
      /\ \A i \in 1..Len(s) : IsHeader(s[i]) \/ ~Within(s[i]) => ~IsSuffix(name, s[i].key)
  BY DEF Regular, IsList
<1>3. CASE s = <<>>
  <2>1. DOMAIN s = {} /\ Len(s) = 0
    BY <1>3
  <2>2. pieces = <<>>
    BY <2>1
  <2>3. t = <<>>
    BY <1>1, <2>2 DEF FlattenSeq
  <2>4. Regular(t) /\ DOMAIN ParseDependencies(t) = {} /\ DOMAIN ParseDependencies(s) = {}
    BY <1>3, <2>1, <2>3, Nothing
  <2>5. ParseDependencies(t) = [n \in {} |-> ParseDependencies(t)[n]]
    BY <2>4, ParsedIsFunction
  <2>6. Without(ParseDependencies(s), gone) = [n \in {} |-> ParseDependencies(s)[n]]
    BY <2>4 DEF Without
  <2> QED
    BY <2>4, <2>5, <2>6
<1>4. CASE s # <<>>
  <2>1. ~IsHeader(e) /\ Within(e)
    BY EntryLists DEF Lists
  <2> HIDE DEF e
  <2>2. \A i \in 1..Len(s) : /\ IsSuffix(name, s[i].key) => pieces[i] = <<>>
                             /\ ~IsSuffix(name, s[i].key) => pieces[i] = <<s[i]>>
    BY <1>2
  <2>3. pieces = [i \in 1..Len(s) |-> pieces[i]]
    BY <1>2
  <2> HIDE DEF pieces
  <2>4. Pieces(s, e, pieces)
    BY <1>2, <2>1, <2>2, <2>3 DEF Pieces
  <2>5. /\ IsList(t) /\ \A j \in 1..Len(t) : t[j] = e \/ \E i \in 1..Len(s) : t[j] = s[i]
        /\ \E f, old : Laid(s, e, pieces, t, f, old)
    BY <1>1, <1>2, <1>4, <2>4, PiecesWoven
  <2>6. PICK f, old : Laid(s, e, pieces, t, f, old)
    BY <2>5
  <2>7. /\ Woven(s, t, f, old) /\ old \subseteq 1..Len(t)
        /\ \A j \in 1..Len(t) : f[j] \in 1..Len(s)
        /\ \A j \in old : t[j] = s[f[j]] /\ pieces[f[j]] # <<>>
        /\ DOMAIN t = 1..Len(t)
    BY <2>6 DEF Laid, Woven
  <2>8. \A i \in 1..Len(s) : pieces[i] # <<s[i], e>>
    BY <2>2
  <2>9. \A j \in 1..Len(t) : j \in old
    BY <2>6, <2>7, <2>8 DEF Laid
  <2>10. Regular(t)
    BY <1>2, <2>5, <2>7, <2>9 DEF Regular
  <2>11. \A j \in Listed(t) : j \in old /\ ~IsSuffix(name, t[j].key)
    BY <2>2, <2>7, <2>9 DEF Listed
  <2>12. ASSUME NEW n, ~IsSuffix(name, n)
         PROVE  /\ n \in DOMAIN ParseDependencies(t) <=> n \in DOMAIN ParseDependencies(s)
                /\ n \in DOMAIN ParseDependencies(s) =>
                     ParseDependencies(t)[n] = ParseDependencies(s)[n]
    <3>1. \A j \in Listed(t) : t[j].key = n => j \in old
      BY <2>11
    <3>2. ASSUME NEW i \in Listed(s), s[i].key = n PROVE \E j \in old : f[j] = i
      <4>1. i \in 1..Len(s) /\ pieces[i] = <<s[i]>>
        BY <1>2, <2>2, <2>12, <3>2 DEF Listed
      <4>2. pieces[i] # <<>>
        BY <4>1
      <4> QED
        BY <2>6, <4>1, <4>2 DEF Laid
    <3> QED
      BY <2>7, <3>1, <3>2, WovenSays
  <2>13. ASSUME NEW n, IsSuffix(name, n) PROVE n \notin DOMAIN ParseDependencies(t)
    BY <2>11, <2>13 DEF ParseDependencies
  <2>14. DOMAIN ParseDependencies(t) = DOMAIN ParseDependencies(s) \ gone
    BY <2>12, <2>13
  <2>15. \A n \in DOMAIN ParseDependencies(t) : ParseDependencies(t)[n] = ParseDependencies(s)[n]
    BY <2>12, <2>13
  <2>16. Without(ParseDependencies(s), gone)
           = [n \in DOMAIN ParseDependencies(t) |-> ParseDependencies(s)[n]]
    BY <2>14 DEF Without
  <2>17. ParseDependencies(t) = [n \in DOMAIN ParseDependencies(t) |-> ParseDependencies(t)[n]]
    BY ParsedIsFunction
  <2> QED
    BY <2>10, <2>15, <2>16, <2>17
<1> QED
  BY <1>3, <1>4

SectionAppended(s, name, v, t) ==
  /\ Regular(t) /\ Listed(s) = {}
  /\ v # NoValue => Listed(t) # {} /\ \A j \in Listed(t) : t[j] = Entry(name, v)
  /\ \A j \in Listed(t) : t[j].key = name

\* A manifest without dependencies gets its section at the end.
LEMMA AppendedRight ==
  ASSUME NEW s, Regular(s), NEW name \in Names, NEW v,
         ~\E i \in DOMAIN s : IsHeader(s[i]), NEW t, t = s \o <<Header, Entry(name, v)>>
  PROVE  SectionAppended(s, name, v, t)
<1> DEFINE e == Entry(name, v)
           S == {s[i] : i \in DOMAIN s} \cup {Header, e}
<1>1. IsList(s) /\ Len(s) \in Nat /\ DOMAIN s = 1..Len(s)
  BY DEF Regular, IsList
<1>2. ~IsHeader(e) /\ Within(e) /\ e.indented = TRUE /\ e.key = name /\ e.value = v /\ e.key # <<>>
  <2>1. Lists(e, name, v)
    BY EntryLists, Zenon
  <2> HIDE DEF e
  <2> QED
    BY <2>1 DEF Lists
<1>3. e = Entry(name, v)
  OBVIOUS
<1> HIDE DEF e
<1>4. s \in Seq(S) /\ Header \in S /\ e \in S
  <2>1. s \in [1..Len(s) -> {s[i] : i \in DOMAIN s}]
    BY <1>1 DEF IsList
  <2>2. s \in [1..Len(s) -> S] /\ Header \in S /\ e \in S
    BY <2>1
  <2> HIDE DEF S
  <2> QED
    BY <1>1, <2>2, SeqDef
<1> HIDE DEF S
<1>5. /\ t \in Seq(S) /\ Len(t) = Len(s) + 2 /\ DOMAIN t = 1..(Len(s) + 2)
      /\ \A j \in 1..Len(s) : t[j] = s[j]
      /\ t[Len(s) + 1] = Header /\ t[Len(s) + 2] = e
  BY <1>1, <1>3, <1>4
<1>6. Listed(s) = {}
  BY <1>1 DEF Listed, InDependencies
<1>7. Regular(t)
  <2>1. IsList(t)
    BY <1>5, ListOfSeq
  <2> SUFFICES ASSUME NEW n \in Names, NEW i \in DOMAIN t, IsHeader(t[i]) \/ ~Within(t[i])
               PROVE  ~IsSuffix(n, t[i].key)
    BY <2>1 DEF Regular
  <2>2. i \in 1..Len(s) \/ i = Len(s) + 1 \/ i = Len(s) + 2
    BY <1>1, <1>5
  <2>3. CASE i \in 1..Len(s)
    BY <1>1, <1>5, <2>3 DEF Regular
  <2>4. CASE i = Len(s) + 1
    BY <1>5, <2>4, HeaderStays
  <2>5. CASE i = Len(s) + 2
    BY <1>2, <1>5, <2>5
  <2> QED
    BY <2>2, <2>3, <2>4, <2>5
<1>8. \A j \in Listed(t) : t[j] = e
  <2> SUFFICES ASSUME NEW j \in Listed(t), j # Len(s) + 2 PROVE FALSE
    BY <1>5
  <2>1. j \in 1..(Len(s) + 2) /\ ~IsHeader(t[j]) /\ InDependencies(t, j)
    BY <1>5 DEF Listed
  <2>2. j # Len(s) + 1
    BY <1>5, <2>1 DEF IsHeader, Header, Line
  <2>3. j \in 1..Len(s)
    BY <1>1, <2>1, <2>2
  <2>4. PICK h \in 1..(j - 1) : IsHeader(t[h])
    BY <2>1 DEF InDependencies
  <2>5. h \in 1..Len(s)
    BY <1>1, <2>3
  <2> QED
    BY <1>1, <1>5, <2>4, <2>5
<1>9. ASSUME v # NoValue PROVE Len(s) + 2 \in Listed(t)
  <2>1. IsHeader(Header)
    BY DEF IsHeader, Header, Line
  <2>2. InDependencies(t, Len(s) + 2)
    <3>1. Len(s) + 1 \in 1..((Len(s) + 2) - 1)
      BY <1>1
    <3>2. ((Len(s) + 1) + 1)..((Len(s) + 2) - 1) = {}
      BY <1>1
    <3> QED
      BY <1>5, <2>1, <3>1, <3>2 DEF InDependencies
  <2>3. Len(s) + 2 \in DOMAIN t
    BY <1>1, <1>5
  <2> QED
    BY <1>2, <1>5, <1>9, <2>2, <2>3 DEF Listed
<1> QED
  BY <1>2, <1>3, <1>6, <1>7, <1>8, <1>9 DEF SectionAppended

LEMMA AddedRight ==
  ASSUME NEW s, Regular(s), NEW name \in Names, NEW v, NEW t, t = Added(s, name, v)
  PROVE  /\ Regular(t)
         /\ v # NoValue =>
              /\ name \in DOMAIN ParseDependencies(t)
              /\ name \notin DOMAIN ParseDependencies(s) => ParseDependencies(t)[name] = v
         /\ Without(ParseDependencies(t), {name}) = Without(ParseDependencies(s), {name})
<1> DEFINE e == Entry(name, v)
           pieces == [i \in DOMAIN s |-> IF IsHeader(s[i]) THEN <<s[i], e>> ELSE <<s[i]>>]
<1>1. /\ IsList(s) /\ Len(s) \in Nat /\ DOMAIN s = 1..Len(s)
      /\ \A n \in Names : \A i \in 1..Len(s) :
           IsHeader(s[i]) \/ ~Within(s[i]) => ~IsSuffix(n, s[i].key)
  BY DEF Regular, IsList
<1>2. ~IsHeader(e) /\ Within(e) /\ e.indented = TRUE /\ e.key = name /\ e.value = v /\ e.key # <<>>
  <2>1. Lists(e, name, v)
    BY EntryLists, Zenon
  <2> HIDE DEF e
  <2> QED
    BY <2>1 DEF Lists
<1>3. ASSUME /\ DOMAIN ParseDependencies(t) \ {name} = DOMAIN ParseDependencies(s) \ {name}
             /\ \A n \in DOMAIN ParseDependencies(s) \ {name} :
                  ParseDependencies(t)[n] = ParseDependencies(s)[n]
      PROVE  Without(ParseDependencies(t), {name}) = Without(ParseDependencies(s), {name})
  BY <1>3 DEF Without
<1>4. CASE ~\E i \in DOMAIN s : IsHeader(s[i])
  <2>1. t = s \o <<Header, Entry(name, v)>>
    BY <1>4 DEF Added
  <2>2. /\ Regular(t) /\ Listed(s) = {}
        /\ v # NoValue => Listed(t) # {} /\ \A j \in Listed(t) : t[j] = Entry(name, v)
        /\ \A j \in Listed(t) : t[j].key = name
    <3>1. SectionAppended(s, name, v, t)
      BY Zenon, <1>4, <2>1, AppendedRight
    <3> QED
      BY <3>1 DEF SectionAppended
  <2>3. DOMAIN ParseDependencies(s) = {} /\ DOMAIN ParseDependencies(t) \subseteq {name}
    BY <2>2 DEF ParseDependencies
  <2>4. ASSUME v # NoValue
        PROVE  name \in DOMAIN ParseDependencies(t) /\ ParseDependencies(t)[name] = v
    <3>1. name \in DOMAIN ParseDependencies(t)
      BY <2>2, <2>4 DEF ParseDependencies
    <3>2. IsList(t) /\ Len(t) \in Nat /\ DOMAIN t = 1..Len(t)
      BY <2>2 DEF Regular, IsList
    <3>3. PICK i \in Listed(t) : ParseDependencies(t)[name] = t[i].value
      BY <3>1, <3>2, LastSays
    <3> QED
      BY <1>2, <2>2, <2>4, <3>1, <3>3
  <2> QED
    BY <1>3, <2>2, <2>3, <2>4
<1>5. CASE \E i \in DOMAIN s : IsHeader(s[i])
  <2>1. t = FlattenSeq(pieces)
    BY <1>5 DEF Added
  <2>2. s # <<>>
    BY <1>5
  <2> HIDE DEF e
  <2>3. \A i \in 1..Len(s) : /\ IsHeader(s[i]) => pieces[i] = <<s[i], e>>
                             /\ ~IsHeader(s[i]) => pieces[i] = <<s[i]>>
    BY <1>1
  <2>4. pieces = [i \in 1..Len(s) |-> pieces[i]]
    BY <1>1
  <2> HIDE DEF pieces
  <2>5. Pieces(s, e, pieces)
    BY <1>2, <2>3, <2>4 DEF Pieces
  <2>6. /\ IsList(t) /\ \A j \in 1..Len(t) : t[j] = e \/ \E i \in 1..Len(s) : t[j] = s[i]
        /\ \E f, old : Laid(s, e, pieces, t, f, old)
    BY <1>1, <2>1, <2>2, <2>5, PiecesWoven
  <2>7. PICK f, old : Laid(s, e, pieces, t, f, old)
    BY <2>6
  <2>8. /\ Woven(s, t, f, old) /\ old \subseteq 1..Len(t)
        /\ \A j \in 1..Len(t) : f[j] \in 1..Len(s)
        /\ \A j \in 1..Len(t) : j \notin old => t[j] = e
        /\ DOMAIN t = 1..Len(t) /\ Len(t) \in Nat
    BY <2>7 DEF Laid, Woven
  <2>9. \A i \in 1..Len(s) : pieces[i] # <<>>
    BY <2>3, SmallSeqs, Zenon
  <2>10. \A i \in 1..Len(s) : \E j \in old : f[j] = i
    BY <2>7, <2>9 DEF Laid
  <2>11. Regular(t)
    BY <1>1, <1>2, <2>6, <2>8 DEF Regular
  <2>12. ASSUME NEW n, n # name
         PROVE  /\ n \in DOMAIN ParseDependencies(t) <=> n \in DOMAIN ParseDependencies(s)
                /\ n \in DOMAIN ParseDependencies(s) =>
                     ParseDependencies(t)[n] = ParseDependencies(s)[n]
    <3>1. \A j \in Listed(t) : t[j].key = n => j \in old
      BY <1>2, <2>8, <2>12 DEF Listed
    <3>2. \A i \in Listed(s) : \E j \in old : f[j] = i
      BY <1>1, <2>10 DEF Listed
    <3> QED
      BY <2>8, <3>1, <3>2, WovenSays
  <2>13. ASSUME v # NoValue PROVE name \in DOMAIN ParseDependencies(t)
    <3>1. PICK i \in 1..Len(s) : IsHeader(s[i])
      BY <1>1, <1>5
    <3>2. PICK j \in 1..Len(t) : j \notin old /\ f[j] = i
      BY <2>3, <2>7, <3>1 DEF Laid
    <3>3. InDependencies(t, j) /\ t[j] = e
      BY <2>8, <3>1, <3>2, PutInSection
    <3>4. j \in Listed(t) /\ t[j].key = name
      BY <1>2, <2>8, <2>13, <3>2, <3>3 DEF Listed
    <3> QED
      BY <3>4 DEF ParseDependencies
  <2>14. ASSUME v # NoValue, name \notin DOMAIN ParseDependencies(s)
         PROVE  ParseDependencies(t)[name] = v
    <3>1. PICK i \in Listed(t) : t[i].key = name /\ ParseDependencies(t)[name] = t[i].value
      BY <2>8, <2>13, <2>14, LastSays
    <3>2. i \in 1..Len(t)
      BY <2>8 DEF Listed
    <3>3. CASE i \in old
      <4>1. f[i] \in Listed(s) /\ s[f[i]].key = name
        BY <2>8, <3>1, <3>3, WovenListed DEF Woven
      <4> QED
        BY <2>14, <4>1 DEF ParseDependencies
    <3>4. CASE i \notin old
      BY <1>2, <2>8, <3>1, <3>2, <3>4
    <3> QED
      BY <3>3, <3>4
  <2>15. /\ DOMAIN ParseDependencies(t) \ {name} = DOMAIN ParseDependencies(s) \ {name}
         /\ \A n \in DOMAIN ParseDependencies(s) \ {name} :
              ParseDependencies(t)[n] = ParseDependencies(s)[n]
    BY <2>12
  <2> QED
    BY <1>3, <2>11, <2>13, <2>14, <2>15
<1> QED
  BY <1>4, <1>5

\* Removing a package takes that package itself.
LEMMA EndsInItself ==
  ASSUME NEW name \in Names
  PROVE  IsSuffix(name, name)
<1>1. name \in Seq(Range(name))
  BY PackagesAssumption
<1>2. Len(Reverse(name)) \in Nat
  BY <1>1 DEF Reverse
<1> QED
  BY <1>2 DEF IsSuffix, IsPrefix

\* In a regular manifest every edit is exact.
LEMMA RegularExact ==
  ASSUME \A file \in Flavours : manifest[file] # Absent => Regular(manifest[file])
  PROVE  EditsExact
<1>1. ASSUME NEW lines, Regular(lines), NEW name \in Names, NEW v \in Versions
      PROVE  /\ name \in DOMAIN ParseDependencies(Added(lines, name, v))
             /\ name \notin DOMAIN ParseDependencies(lines) =>
                  ParseDependencies(Added(lines, name, v))[name] = v
             /\ Without(ParseDependencies(Added(lines, name, v)), {name})
                  = Without(ParseDependencies(lines), {name})
  <2>1. v # NoValue
    BY PackagesAssumption
  <2> QED
    BY <1>1, <2>1, AddedRight
<1>2. ASSUME NEW lines, Regular(lines), NEW name \in Names,
             \A n \in DOMAIN ParseDependencies(lines) : IsSuffix(name, n) => n = name
      PROVE  ParseDependencies(Removed(lines, name)) = Without(ParseDependencies(lines), {name})
  <2> DEFINE deps == ParseDependencies(lines)
             gone == {n \in DOMAIN deps : IsSuffix(name, n)}
  <2>1. ParseDependencies(Removed(lines, name)) = Without(deps, gone)
    BY <1>2, RemovedRight
  <2>2. DOMAIN deps \ gone = DOMAIN deps \ {name}
    BY <1>2, EndsInItself
  <2> QED
    BY <2>1, <2>2 DEF Without
<1>3. \A lines \in {manifest[file] : file \in Flavours} \ {Absent} : Regular(lines)
  OBVIOUS
<1> QED
  BY <1>1, <1>2, <1>3, Zenon DEF EditsExact

\* Every manifest there is, or will be, is regular.
ManifestsRegular ==
  /\ \A file \in Flavours : manifest[file] # Absent => Regular(manifest[file])
  /\ \A p \in Processes : pc[p] = "edit" => Regular(text[p])

LEMMA PackagesTypeStep ==
  ASSUME PackagesTypeOK, [Next]_vars
  PROVE  PackagesTypeOK'
<1>1. CASE UNCHANGED vars
  BY <1>1 DEF vars, PackagesTypeOK
<1>2. ASSUME NEW p \in Processes, NEW to \in {"edit", "install"}, Begin(p, to),
             UNCHANGED <<manifest, lock>>, path' \in [Processes -> Flavours], DOMAIN text' = Processes
      PROVE  PackagesTypeOK'
  BY <1>2 DEF Begin, Goto, PackagesTypeOK
<1>3. ASSUME NEW p \in Processes, NEW lines, NEW goesOn, Edits(p, lines, goesOn) PROVE PackagesTypeOK'
  <2>1. path' \in [Processes -> Flavours] /\ DOMAIN text' = Processes
    BY <1>3 DEF Edits, PackagesTypeOK, ManifestPath, Flavours
  <2> QED
    BY <1>2, <1>3, <2>1 DEF Edits
<1>4. ASSUME NEW p \in Processes, NEW from, Ends(p, from), settled' \in BOOLEAN,
             DOMAIN manifest' = Flavours, DOMAIN lock' = Flavours
      PROVE  PackagesTypeOK'
  BY <1>4 DEF Ends, Goto, PackagesTypeOK, Flavours
<1>5. ASSUME NEW p \in Processes, NoManifest(p) \/ WriteLock(p) \/ Fail(p) PROVE PackagesTypeOK'
  <2>1. \E from : Ends(p, from)
    BY <1>5 DEF NoManifest, WriteLock, Fail
  <2>2. settled' \in BOOLEAN /\ DOMAIN manifest' = Flavours /\ DOMAIN lock' = Flavours
    BY <1>5 DEF NoManifest, WriteLock, Fail, PackagesTypeOK
  <2> QED
    BY <1>4, <2>1, <2>2
<1>6. ASSUME NEW p \in Processes, WriteManifest(p) PROVE PackagesTypeOK'
  <2>1. settled' \in BOOLEAN /\ DOMAIN manifest' = Flavours /\ DOMAIN lock' = Flavours
    BY <1>6 DEF WriteManifest, PackagesTypeOK
  <2>2. CASE Ends(p, "edit")
    BY <1>4, <2>1, <2>2
  <2>3. CASE Goto(p, "edit", "install") /\ UNCHANGED <<path, text, installs, runs, alone>>
    BY <2>1, <2>3 DEF Goto, PackagesTypeOK
  <2> QED
    BY <1>6, <2>2, <2>3 DEF WriteManifest
<1>7. ASSUME NEW p \in Processes, ReadManifest(p) PROVE PackagesTypeOK'
  BY <1>7 DEF ReadManifest, Goto, PackagesTypeOK
<1>8. ASSUME NEW p \in Processes, NEW name \in Names,
             RemovePackage(p, name) \/ CmdAdd(p, name) \/ \E v \in Versions : Add(p, name, v)
      PROVE  PackagesTypeOK'
  <2>1. \E lines, goesOn : Edits(p, lines, goesOn)
    BY <1>8 DEF RemovePackage, CmdAdd, Add
  <2> QED
    BY <1>3, <2>1
<1>9. ASSUME NEW p \in Processes, Install(p) PROVE PackagesTypeOK'
  BY <1>2, <1>9 DEF Install, PackagesTypeOK
<1> QED
  BY <1>1, <1>5, <1>6, <1>7, <1>8, <1>9 DEF Next

LEMMA ManifestsRegularInit == Init => ManifestsRegular
<1> SUFFICES ASSUME Init PROVE ManifestsRegular
  OBVIOUS
<1>1. ASSUME NEW lines \in Manifests PROVE Regular(lines)
  <2>1. IsList(lines)
    BY PackagesAssumption, ListOfSeq
  <2>2. Len(lines) \in Nat /\ DOMAIN lines = 1..Len(lines)
    BY <2>1 DEF IsList
  <2> QED
    BY <2>1, <2>2, PackagesAssumption DEF Regular
<1>2. \A file \in Flavours : manifest[file] # Absent => manifest[file] \in Manifests
  BY DEF Init
<1>3. \A p \in Processes : pc[p] # "edit"
  BY DEF Init
<1> QED
  BY <1>1, <1>2, <1>3 DEF ManifestsRegular

\* So is the one that Add begins, and an empty file.
LEMMA NewRegular == Regular(NewManifest) /\ Regular(<<>>)
<1>1. NewManifest \in Seq({NewManifest[1], NewManifest[2]}) /\ Len(NewManifest) = 2 /\ DOMAIN NewManifest = 1..2
  BY DEF NewManifest
<1>2. IsList(NewManifest)
  BY <1>1, ListOfSeq
<1>3. Regular(NewManifest)
  BY <1>1, <1>2, PackagesAssumption DEF Regular
<1>4. <<>> \in Seq({}) /\ Len(<<>>) = 0
  OBVIOUS
<1>5. IsList(<<>>)
  BY <1>4, ListOfSeq
<1>6. Regular(<<>>)
  BY <1>4, <1>5 DEF Regular
<1> QED
  BY <1>3, <1>6

LEMMA EditsRegular ==
  ASSUME PackagesTypeOK, ManifestsRegular, NEW p \in Processes, NEW lines, Regular(lines), NEW goesOn,
         Edits(p, lines, goesOn)
  PROVE  ManifestsRegular'
BY DEF Edits, Begin, Goto, PackagesTypeOK, ManifestsRegular

LEMMA ManifestsRegularStep ==
  ASSUME PackagesTypeOK, ManifestsRegular, [Next]_vars
  PROVE  ManifestsRegular'
<1>1. CASE UNCHANGED vars
  BY <1>1 DEF vars, ManifestsRegular
<1>2. ASSUME NEW p \in Processes, NEW name \in Names, RemovePackage(p, name) PROVE ManifestsRegular'
  <2>1. Regular(manifest[ManifestPath])
    BY <1>2 DEF RemovePackage, ManifestsRegular, ManifestPath, Flavours
  <2>2. Regular(Removed(manifest[ManifestPath], name))
    BY <2>1, RemovedRight
  <2> QED
    BY <1>2, <2>2, EditsRegular DEF RemovePackage
<1>3. ASSUME NEW p \in Processes, NEW name \in Names, NEW v, NEW lines, NEW goesOn, Regular(lines),
             Edits(p, Added(lines, name, v), goesOn)
      PROVE  ManifestsRegular'
  <2>1. Regular(Added(lines, name, v))
    BY <1>3, AddedRight
  <2> QED
    BY <1>3, <2>1, EditsRegular
<1>4. ASSUME NEW p \in Processes, NEW name \in Names, CmdAdd(p, name) PROVE ManifestsRegular'
  <2>1. Regular(manifest[ManifestPath])
    BY <1>4 DEF CmdAdd, ManifestsRegular, ManifestPath, Flavours
  <2> QED
    BY <1>3, <1>4, <2>1 DEF CmdAdd
<1>5. ASSUME NEW p \in Processes, NEW name \in Names, NEW v, Add(p, name, v) PROVE ManifestsRegular'
  <2> DEFINE lines == IF manifest[ManifestPath] = Absent THEN NewManifest ELSE manifest[ManifestPath]
  <2>1. Regular(lines)
    BY NewRegular DEF ManifestsRegular, ManifestPath, Flavours
  <2>2. Edits(p, Added(lines, name, v), TRUE)
    BY <1>5 DEF Add
  <2> HIDE DEF lines
  <2> QED
    BY <1>3, <2>1, <2>2
<1>6. ASSUME NEW p \in Processes, WriteManifest(p) PROVE ManifestsRegular'
  <2>1. pc[p] = "edit" /\ Regular(text[p]) /\ pc'[p] # "edit" /\ \A q \in Processes : q # p => pc'[q] = pc[q] /\ text'[q] = text[q]
    BY <1>6 DEF WriteManifest, Goto, Ends, ManifestsRegular, PackagesTypeOK
  <2>2. manifest' = [manifest EXCEPT ![path[p]] = text[p]] /\ path[p] \in Flavours
    BY <1>6 DEF WriteManifest, PackagesTypeOK
  <2> QED
    BY <2>1, <2>2 DEF ManifestsRegular, PackagesTypeOK
<1>7. ASSUME NEW p \in Processes, NEW from, Ends(p, from), manifest' = manifest PROVE ManifestsRegular'
  BY <1>7 DEF Ends, Goto, ManifestsRegular, PackagesTypeOK
<1>8. ASSUME NEW p \in Processes, Fail(p) PROVE ManifestsRegular'
  <2>1. CASE manifest' = manifest
    BY <1>7, <1>8, <2>1 DEF Fail
  <2>2. CASE manifest' = [manifest EXCEPT ![path[p]] = <<>>]
    <3>1. pc'[p] # "edit" /\ \A q \in Processes : q # p => pc'[q] = pc[q] /\ text'[q] = text[q]
      BY <1>8 DEF Fail, Ends, Goto, PackagesTypeOK
    <3>2. path[p] \in Flavours
      BY DEF PackagesTypeOK
    <3> QED
      BY <2>2, <3>1, <3>2, NewRegular DEF ManifestsRegular, PackagesTypeOK
  <2> QED
    BY <1>8, <2>1, <2>2 DEF Fail
<1>9. ASSUME NEW p \in Processes, Install(p) \/ ReadManifest(p) PROVE ManifestsRegular'
  BY <1>9 DEF Install, Begin, ReadManifest, Goto, ManifestsRegular, PackagesTypeOK
<1> QED
  BY <1>1, <1>2, <1>4, <1>5, <1>6, <1>7, <1>8, <1>9 DEF Next, NoManifest, WriteLock

\* In whatever shape commands, failures and users leave a manifest, adding a
\* package that is not listed lists it with its version, removing one that no
\* other listed name ends in takes it from the list, and neither changes another
\* (Add, Remove and cmdAdd, with parseDependencies): for any manifests, packages,
\* processes and commands.
THEOREM EveryEditExact == Spec => []EditsExact
<1> DEFINE Held == PackagesTypeOK /\ ManifestsRegular
<1>1. Init => Held
  BY PackagesInit, ManifestsRegularInit DEF PackagesInv
<1>2. Held /\ [Next]_vars => Held'
  BY PackagesTypeStep, ManifestsRegularStep
<1>3. Held => EditsExact
  BY RegularExact DEF ManifestsRegular
<1> QED
  BY <1>1, <1>2, <1>3, PTL DEF Spec

------------------------------------------------------------------------------
(* Documents                                                                *)

DocsTypeOK ==
  /\ IsList(inbox) /\ IsList(answers) /\ running \in BOOLEAN
  /\ DOMAIN published = Uris /\ DOMAIN screen = Uris
  /\ \A i \in DOMAIN inbox : inbox[i].uri \in Uris
  /\ \A i \in DOMAIN answers : answers[i].uri \in Uris /\ answers[i].method \in Questions

\* Request i shows an edit of u; it is a question.
EditOf(u, i)  == inbox[i].uri = u /\ inbox[i].method \in Changing
IsQuestion(i) == inbox[i].method \in Questions

\* What a document says is what the server has, or in the last edit of it
\* that the server has not read.
Followed ==
  \A u \in Uris : running = TRUE /\ screen[u] # NoText =>
    \/ /\ \A i \in DOMAIN inbox : ~EditOf(u, i)
       /\ u \in DOMAIN documents /\ documents[u] = screen[u] /\ published[u].of = screen[u]
    \/ \E i \in DOMAIN inbox : /\ EditOf(u, i) /\ inbox[i].text = screen[u]
                               /\ \A j \in DOMAIN inbox : j > i => ~EditOf(u, j)

\* One question or answer at a time.
OneQuestion ==
  /\ \A i, j \in DOMAIN inbox : IsQuestion(i) /\ IsQuestion(j) => i = j
  /\ answers # <<>> => Len(answers) = 1 /\ \A i \in DOMAIN inbox : ~IsQuestion(i)

\* No edit of the document follows a question about it.
QuestionFits ==
  \A i \in DOMAIN inbox : IsQuestion(i) =>
    /\ screen[inbox[i].uri] \in Askable
    /\ \A j \in DOMAIN inbox : j > i => ~EditOf(inbox[i].uri, j)

AnswerFits ==
  \A i \in DOMAIN answers : /\ answers[i].for = screen[answers[i].uri]
                            /\ screen[answers[i].uri] \in Askable

DocsInv == DocsTypeOK /\ Followed /\ OneQuestion /\ QuestionFits /\ AnswerFits

\* At first no document is open.
LEMMA DocsInitInv == DocsInit => DocsInv
<1> SUFFICES ASSUME DocsInit PROVE DocsInv
  OBVIOUS
<1>1. /\ inbox = <<>> /\ answers = <<>> /\ screen = [u \in Uris |-> NoText] /\ running = TRUE
      /\ published = [u \in Uris |-> Unpublished]
  BY DEF DocsInit
<1>2. IsList(inbox) /\ IsList(answers)
  <2>1. \A S : <<>> \in Seq(S)
    OBVIOUS
  <2> QED
    BY <1>1, <2>1 DEF IsList
<1>3. DocsTypeOK
  <2>1. DOMAIN inbox = {} /\ DOMAIN answers = {}
    <3>1. DOMAIN <<>> = {}
      OBVIOUS
    <3> QED
      BY <1>1, <3>1
  <2> QED
    BY <1>1, <1>2, <2>1 DEF DocsTypeOK
<1>4. DOMAIN inbox = {} /\ DOMAIN answers = {}
  <2>1. DOMAIN <<>> = {}
    OBVIOUS
  <2> QED
    BY <1>1, <2>1
<1>5. Followed
  BY <1>1 DEF Followed
<1> QED
  BY <1>1, <1>3, <1>4, <1>5 DEF DocsInv, OneQuestion, QuestionFits, AnswerFits

\* The server takes the first request.
LEMMA Received ==
  ASSUME IsList(inbox), inbox # <<>>, inbox' = Tail(inbox)
  PROVE  /\ IsList(inbox') /\ Head(inbox) = inbox[1] /\ 1 \in DOMAIN inbox
         /\ (\A i \in DOMAIN inbox : i \in Nat) /\ (\A i \in DOMAIN inbox' : i \in Nat)
         /\ \A i \in DOMAIN inbox' : i + 1 \in DOMAIN inbox /\ inbox'[i] = inbox[i + 1]
         /\ \A i \in DOMAIN inbox : i # 1 => i - 1 \in DOMAIN inbox' /\ inbox'[i - 1] = inbox[i]
                                             /\ i > 1
<1>1. /\ IsList(Tail(inbox))
      /\ Len(inbox) \in Nat \ {0} /\ DOMAIN inbox = 1..Len(inbox)
      /\ DOMAIN Tail(inbox) = 1..(Len(inbox) - 1)
      /\ Head(inbox) = inbox[1]
      /\ \A i \in 1..(Len(inbox) - 1) : Tail(inbox)[i] = inbox[i + 1]
  BY ListTail
<1>2. ASSUME NEW i \in DOMAIN inbox, i # 1
      PROVE  i - 1 \in DOMAIN Tail(inbox) /\ Tail(inbox)[i - 1] = inbox[i] /\ i > 1
  <2>1. i - 1 \in 1..(Len(inbox) - 1) /\ (i - 1) + 1 = i /\ i > 1
    BY <1>1, <1>2
  <2> QED
    BY <1>1, <2>1
<1>3. \A i \in DOMAIN Tail(inbox) : i + 1 \in DOMAIN inbox /\ Tail(inbox)[i] = inbox[i + 1]
  BY <1>1
<1>4. /\ 1 \in DOMAIN inbox /\ \A i \in DOMAIN inbox : i \in Nat
      /\ \A i \in DOMAIN Tail(inbox) : i \in Nat
  BY <1>1
<1> QED
  BY <1>1, <1>2, <1>3, <1>4

\* The client sends one.
LEMMA Sent ==
  ASSUME IsList(inbox), NEW r, Send(r)
  PROVE  /\ IsList(inbox') /\ Len(inbox) + 1 \in DOMAIN inbox' /\ inbox'[Len(inbox) + 1] = r
         /\ DOMAIN inbox' = DOMAIN inbox \cup {Len(inbox) + 1}
         /\ \A i \in DOMAIN inbox : inbox'[i] = inbox[i] /\ i \in Nat /\ i < Len(inbox) + 1
<1>1. /\ IsList(Append(inbox, r))
      /\ Len(inbox) \in Nat /\ DOMAIN inbox = 1..Len(inbox)
      /\ DOMAIN Append(inbox, r) = 1..(Len(inbox) + 1)
      /\ \A i \in 1..Len(inbox) : Append(inbox, r)[i] = inbox[i]
      /\ Append(inbox, r)[Len(inbox) + 1] = r
  BY ListAppend
<1>2. inbox' = Append(inbox, r)
  BY DEF Send
<1>3. 1..(Len(inbox) + 1) = 1..Len(inbox) \cup {Len(inbox) + 1}
  BY <1>1
<1> QED
  BY <1>1, <1>2, <1>3

\* A question of the document u, with the screen it is about, once asked.
LEMMA HeadFits ==
  ASSUME DocsInv, NoText \notin Askable, inbox # <<>>, running = TRUE, IsQuestion(1)
  PROVE  LET u == inbox[1].uri IN
         /\ u \in Uris /\ u \in DOMAIN documents /\ documents[u] = screen[u] /\ screen[u] \in Askable
<1>1. 1 \in DOMAIN inbox /\ \A i \in DOMAIN inbox : i # 1 => i > 1
  <2>1. Len(inbox) \in Nat \ {0} /\ DOMAIN inbox = 1..Len(inbox)
    BY ListTail DEF DocsInv, DocsTypeOK
  <2>2. \A n \in Nat \ {0} : 1 \in 1..n /\ \A i \in 1..n : i # 1 => i > 1
    OBVIOUS
  <2> QED
    BY <2>1, <2>2
<1>2. inbox[1].uri \in Uris
  BY <1>1 DEF DocsInv, DocsTypeOK
<1>3. screen[inbox[1].uri] \in Askable /\ \A j \in DOMAIN inbox : j > 1 => ~EditOf(inbox[1].uri, j)
  BY <1>1 DEF DocsInv, QuestionFits
<1>4. ~EditOf(inbox[1].uri, 1)
  BY DEF EditOf, IsQuestion, Changing, Questions
<1>5. \A i \in DOMAIN inbox : ~EditOf(inbox[1].uri, i)
  BY <1>1, <1>3, <1>4
<1> QED
  BY <1>2, <1>3, <1>5 DEF DocsInv, Followed

\* What is still to be read keeps its place when a question has been read.
LEMMA ReceivedFollowed ==
  ASSUME DocsInv, inbox # <<>>, inbox' = Tail(inbox), NEW u \in Uris,
         running = TRUE, screen[u] # NoText, screen'[u] = screen[u], ~EditOf(u, 1),
         u \in DOMAIN documents => u \in DOMAIN documents' /\ documents'[u] = documents[u],
         published'[u] = published[u]
  PROVE  \/ /\ \A i \in DOMAIN inbox' : ~EditOf(u, i)'
            /\ u \in DOMAIN documents' /\ documents'[u] = screen'[u] /\ published'[u].of = screen'[u]
         \/ \E i \in DOMAIN inbox' : /\ EditOf(u, i)' /\ inbox'[i].text = screen'[u]
                                     /\ \A j \in DOMAIN inbox' : j > i => ~EditOf(u, j)'
<1>1. /\ (\A i \in DOMAIN inbox : i \in Nat) /\ (\A i \in DOMAIN inbox' : i \in Nat)
      /\ \A i \in DOMAIN inbox' : i + 1 \in DOMAIN inbox /\ inbox'[i] = inbox[i + 1]
      /\ \A i \in DOMAIN inbox : i # 1 => i - 1 \in DOMAIN inbox' /\ inbox'[i - 1] = inbox[i] /\ i > 1
  BY Received DEF DocsInv, DocsTypeOK
<1>2. /\ \A i \in DOMAIN inbox' : EditOf(u, i)' <=> EditOf(u, i + 1)
      /\ \A i \in DOMAIN inbox : i # 1 => (EditOf(u, i - 1)' <=> EditOf(u, i))
  BY <1>1 DEF EditOf
<1>3. CASE /\ \A i \in DOMAIN inbox : ~EditOf(u, i)
           /\ u \in DOMAIN documents /\ documents[u] = screen[u] /\ published[u].of = screen[u]
  BY <1>1, <1>2, <1>3
<1>4. ASSUME NEW i \in DOMAIN inbox, EditOf(u, i), inbox[i].text = screen[u],
             \A j \in DOMAIN inbox : j > i => ~EditOf(u, j)
      PROVE  \E k \in DOMAIN inbox' : /\ EditOf(u, k)' /\ inbox'[k].text = screen'[u]
                                      /\ \A j \in DOMAIN inbox' : j > k => ~EditOf(u, j)'
  <2>1. i # 1
    BY <1>4
  <2>2. i - 1 \in DOMAIN inbox' /\ EditOf(u, i - 1)' /\ inbox'[i - 1].text = screen'[u]
    BY <1>1, <1>2, <1>4, <2>1
  <2>3. \A j \in DOMAIN inbox' : j > i - 1 => ~EditOf(u, j)'
    <3> SUFFICES ASSUME NEW j \in DOMAIN inbox', j > i - 1 PROVE ~EditOf(u, j + 1)
      BY <1>2
    <3>1. j \in Nat /\ i \in Nat /\ j + 1 \in DOMAIN inbox
      BY <1>1
    <3>2. \A a, b \in Nat : a > b - 1 => a + 1 > b
      OBVIOUS
    <3>3. j + 1 > i
      BY <3>1, <3>2
    <3> QED
      BY <1>4, <3>1, <3>3
  <2> QED
    BY <2>2, <2>3
<1> QED
  BY <1>3, <1>4 DEF DocsInv, Followed

\* The server takes an edit.
LEMMA DidChangeInv ==
  ASSUME DocsInv, DidChange
  PROVE  DocsInv'
<1> DEFINE r == inbox[1]
<1>1. /\ IsList(inbox') /\ Head(inbox) = r /\ 1 \in DOMAIN inbox
      /\ (\A i \in DOMAIN inbox : i \in Nat) /\ (\A i \in DOMAIN inbox' : i \in Nat)
      /\ \A i \in DOMAIN inbox' : i + 1 \in DOMAIN inbox /\ inbox'[i] = inbox[i + 1]
      /\ \A i \in DOMAIN inbox : i # 1 => i - 1 \in DOMAIN inbox' /\ inbox'[i - 1] = inbox[i] /\ i > 1
  BY Received DEF DidChange, Reading, DocsInv, DocsTypeOK
<1>2. /\ inbox # <<>> /\ inbox' = Tail(inbox) /\ running = TRUE
      /\ answers' = answers /\ screen' = screen
      /\ r.method \in Changing /\ Keep(r.uri, r.text) /\ Publish(r.uri, r.text)
  BY <1>1 DEF DidChange, Reading, client, DocsInv, DocsTypeOK
<1>3. r.uri \in Uris /\ DOMAIN published = Uris
  BY <1>1 DEF DocsInv, DocsTypeOK
<1>4. /\ DOMAIN documents' = DOMAIN documents \cup {r.uri} /\ documents'[r.uri] = r.text
      /\ \A u \in DOMAIN documents : u # r.uri => documents'[u] = documents[u]
  BY <1>2 DEF Keep
<1>5. /\ DOMAIN published' = Uris /\ running' \in BOOLEAN
      /\ running' = TRUE => /\ published'[r.uri].of = r.text
                            /\ \A u \in Uris : u # r.uri => published'[u] = published[u]
  <2>1. CASE running' = FALSE /\ published' = published
    BY <1>3, <2>1
  <2>2. CASE /\ published' = [published EXCEPT ![r.uri] = [of |-> r.text, found |-> Finds(r.text)]]
             /\ running' = running
    BY <1>2, <1>3, <2>2
  <2> QED
    BY <1>2, <2>1, <2>2 DEF Publish
<1> HIDE DEF r
<1>6. DocsTypeOK'
  BY <1>1, <1>2, <1>5 DEF DocsInv, DocsTypeOK
<1>7. Followed'
  <2> SUFFICES ASSUME NEW u \in Uris, running' = TRUE, screen'[u] # NoText
               PROVE  \/ /\ \A i \in DOMAIN inbox' : ~EditOf(u, i)'
                         /\ u \in DOMAIN documents' /\ documents'[u] = screen'[u]
                         /\ published'[u].of = screen'[u]
                      \/ \E i \in DOMAIN inbox' : /\ EditOf(u, i)' /\ inbox'[i].text = screen'[u]
                                                  /\ \A j \in DOMAIN inbox' : j > i => ~EditOf(u, j)'
    BY DEF Followed
  <2>1. CASE u # r.uri
    <3>1. ~EditOf(u, 1)
      BY <2>1 DEF EditOf, r
    <3> QED
      BY <1>2, <1>4, <1>5, <2>1, <3>1, ReceivedFollowed
  <2>2. CASE u = r.uri
    <3>1. EditOf(u, 1)
      BY <1>2, <2>2 DEF EditOf, r
    <3>2. PICK i \in DOMAIN inbox : /\ EditOf(u, i) /\ inbox[i].text = screen[u]
                                    /\ \A j \in DOMAIN inbox : j > i => ~EditOf(u, j)
      BY <1>1, <1>2, <3>1 DEF DocsInv, Followed
    <3>3. CASE i = 1
      <4>1. \A j \in DOMAIN inbox' : ~EditOf(u, j + 1)
        <5> SUFFICES ASSUME NEW j \in DOMAIN inbox' PROVE j + 1 \in DOMAIN inbox /\ j + 1 > 1
          BY <3>2, <3>3
        <5>1. j + 1 \in DOMAIN inbox /\ j \in Nat
          BY <1>1
        <5>2. \A n \in Nat : n + 1 # 1 => n + 1 > 1
          OBVIOUS
        <5>3. j # 0
          <6>1. 0 \notin DOMAIN inbox'
            BY ListTail DEF DocsInv, DocsTypeOK, DidChange, Reading
          <6> QED
            BY <6>1
        <5> QED
          BY <5>1, <5>2, <5>3
      <4>2. \A j \in DOMAIN inbox' : ~EditOf(u, j)'
        BY <1>1, <4>1 DEF EditOf
      <4> QED
        BY <1>2, <1>4, <1>5, <2>2, <3>2, <3>3, <4>2 DEF r
    <3>4. CASE i # 1
      <4>1. i - 1 \in DOMAIN inbox' /\ inbox'[i - 1] = inbox[i] /\ i \in Nat
        BY <1>1, <3>4
      <4>2. EditOf(u, i - 1)' /\ inbox'[i - 1].text = screen'[u]
        BY <1>2, <3>2, <4>1 DEF EditOf
      <4>3. \A j \in DOMAIN inbox' : j > i - 1 => ~EditOf(u, j)'
        <5> SUFFICES ASSUME NEW j \in DOMAIN inbox', j > i - 1 PROVE ~EditOf(u, j)'
          OBVIOUS
        <5>1. j + 1 \in DOMAIN inbox /\ inbox'[j] = inbox[j + 1] /\ j \in Nat
          BY <1>1
        <5>2. j + 1 > i
          BY <4>1, <5>1
        <5>3. ~EditOf(u, j + 1)
          BY <3>2, <5>1, <5>2
        <5> QED
          BY <5>1, <5>3 DEF EditOf
      <4> QED
        BY <4>1, <4>2, <4>3
    <3> QED
      BY <3>3, <3>4
  <2> QED
    BY <2>1, <2>2
<1>8. \A i \in DOMAIN inbox' : /\ IsQuestion(i)' <=> IsQuestion(i + 1)
                               /\ \A u : EditOf(u, i)' <=> EditOf(u, i + 1)
  BY <1>1 DEF IsQuestion, EditOf
<1>9. OneQuestion' /\ AnswerFits'
  <2>1. \A i, j \in DOMAIN inbox' : IsQuestion(i)' /\ IsQuestion(j)' => i = j
    <3> SUFFICES ASSUME NEW i \in DOMAIN inbox', NEW j \in DOMAIN inbox',
                        IsQuestion(i)', IsQuestion(j)'
                 PROVE  i = j
      OBVIOUS
    <3>1. i + 1 = j + 1
      BY <1>1, <1>8 DEF DocsInv, OneQuestion
    <3> QED
      BY <1>1, <3>1
  <2>2. answers' # <<>> => Len(answers') = 1 /\ \A i \in DOMAIN inbox' : ~IsQuestion(i)'
    BY <1>1, <1>2, <1>8 DEF DocsInv, OneQuestion
  <2> QED
    BY <1>2, <2>1, <2>2 DEF DocsInv, OneQuestion, AnswerFits
<1>10. QuestionFits'
  <2> SUFFICES ASSUME NEW i \in DOMAIN inbox', IsQuestion(i)'
               PROVE  /\ screen'[inbox'[i].uri] \in Askable
                      /\ \A j \in DOMAIN inbox' : j > i => ~EditOf(inbox[i].uri, j)'
    BY DEF QuestionFits
  <2>1. /\ screen[inbox[i + 1].uri] \in Askable
        /\ \A j \in DOMAIN inbox : j > i + 1 => ~EditOf(inbox[i + 1].uri, j)
    BY <1>1, <1>8 DEF DocsInv, QuestionFits
  <2>2. inbox'[i].uri = inbox[i + 1].uri
    BY <1>1
  <2>3. ASSUME NEW j \in DOMAIN inbox', j > i PROVE ~EditOf(inbox[i].uri, j)'
    <3>1. i \in Nat /\ j \in Nat /\ j + 1 \in DOMAIN inbox
      BY <1>1
    <3>2. j + 1 > i + 1
      BY <2>3, <3>1
    <3>3. ~EditOf(inbox[i + 1].uri, j + 1) /\ inbox'[j] = inbox[j + 1]
      BY <1>1, <2>1, <3>1, <3>2
    <3> QED
      BY <2>2, <3>3 DEF EditOf
  <2> QED
    BY <1>2, <2>1, <2>2, <2>3
<1> QED
  BY <1>6, <1>7, <1>9, <1>10 DEF DocsInv

\* The server answers a question: no edit of its document follows, so what it
\* answers from is the text on the screen.
LEMMA AnswerInv ==
  ASSUME DocsInv, NoText \notin Askable,
         inbox # <<>>, inbox' = Tail(inbox), running = TRUE, IsQuestion(1),
         UNCHANGED <<documents, running, published, screen>>,
         NEW a, a.uri = inbox[1].uri, a.method \in Questions, a.for = documents[inbox[1].uri],
         answers' = Append(answers, a)
  PROVE  DocsInv'
<1>1. /\ IsList(inbox') /\ 1 \in DOMAIN inbox
      /\ (\A i \in DOMAIN inbox : i \in Nat) /\ (\A i \in DOMAIN inbox' : i \in Nat)
      /\ \A i \in DOMAIN inbox' : i + 1 \in DOMAIN inbox /\ inbox'[i] = inbox[i + 1]
  BY Received DEF DocsInv, DocsTypeOK
<1>2. answers = <<>>
  BY <1>1 DEF DocsInv, OneQuestion
<1>3. a.uri \in Uris /\ a.for = screen[a.uri] /\ screen[a.uri] \in Askable
  BY HeadFits
<1>4. IsList(answers') /\ Len(answers') = 1 /\ DOMAIN answers' = {1} /\ answers'[1] = a
  <2>1. answers' = <<a>>
    BY <1>2
  <2>2. /\ IsList(answers') /\ DOMAIN answers' = 1..(Len(answers) + 1) /\ Len(answers) = 0
    BY <1>2, ListAppend DEF DocsInv, DocsTypeOK
  <2> QED
    BY <2>1, <2>2
<1>5. \A i \in DOMAIN inbox' : ~IsQuestion(i)'
  <2> SUFFICES ASSUME NEW i \in DOMAIN inbox', IsQuestion(i)' PROVE FALSE
    OBVIOUS
  <2>1. i + 1 \in DOMAIN inbox /\ IsQuestion(i + 1) /\ i \in Nat
    BY <1>1 DEF IsQuestion
  <2>2. i + 1 = 1
    BY <1>1, <2>1 DEF DocsInv, OneQuestion
  <2>3. 0 \notin DOMAIN inbox'
    BY ListTail DEF DocsInv, DocsTypeOK
  <2> QED
    BY <2>1, <2>2, <2>3
<1>6. DocsTypeOK'
  BY <1>1, <1>3, <1>4 DEF DocsInv, DocsTypeOK
<1>7. Followed'
  <2> SUFFICES ASSUME NEW u \in Uris, running' = TRUE, screen'[u] # NoText
               PROVE  \/ /\ \A i \in DOMAIN inbox' : ~EditOf(u, i)'
                         /\ u \in DOMAIN documents' /\ documents'[u] = screen'[u]
                         /\ published'[u].of = screen'[u]
                      \/ \E i \in DOMAIN inbox' : /\ EditOf(u, i)' /\ inbox'[i].text = screen'[u]
                                                  /\ \A j \in DOMAIN inbox' : j > i => ~EditOf(u, j)'
    BY DEF Followed
  <2>1. ~EditOf(u, 1)
    BY DEF EditOf, IsQuestion, Changing, Questions
  <2> QED
    BY <2>1, ReceivedFollowed
<1>8. OneQuestion' /\ QuestionFits' /\ AnswerFits'
  BY <1>3, <1>4, <1>5 DEF OneQuestion, QuestionFits, AnswerFits
<1> QED
  BY <1>6, <1>7, <1>8 DEF DocsInv

\* The client shows a text, and sends it: nobody is asked, or the document
\* was not open.
LEMMA ShownInv ==
  ASSUME DocsInv, NEW u \in Uris, NEW t, NEW m \in Changing, NEW r,
         r.uri = u, r.text = t, r.method = m, Send(r),
         screen' = [screen EXCEPT ![u] = t],
         UNCHANGED <<documents, running, published>>,
         IsList(answers'), \A i \in DOMAIN answers' : i \in DOMAIN answers /\ answers'[i] = answers[i],
         answers' = answers \/ answers' = <<>>,
         \A i \in DOMAIN inbox : IsQuestion(i) => inbox[i].uri # u,
         \A i \in DOMAIN answers' : answers'[i].uri # u
  PROVE  DocsInv'
<1>1. /\ IsList(inbox') /\ Len(inbox) + 1 \in DOMAIN inbox' /\ inbox'[Len(inbox) + 1] = r
      /\ DOMAIN inbox' = DOMAIN inbox \cup {Len(inbox) + 1}
      /\ \A i \in DOMAIN inbox : inbox'[i] = inbox[i] /\ i \in Nat /\ i < Len(inbox) + 1
      /\ Len(inbox) \in Nat
  BY Sent, ListAppend DEF DocsInv, DocsTypeOK
<1>2. PICK n \in Nat : /\ n \in DOMAIN inbox' /\ inbox'[n] = r
                       /\ DOMAIN inbox' = DOMAIN inbox \cup {n}
                       /\ \A i \in DOMAIN inbox : i < n
  BY <1>1
<1>3. /\ \A i \in DOMAIN inbox : /\ IsQuestion(i)' <=> IsQuestion(i)
                                 /\ \A v : EditOf(v, i)' <=> EditOf(v, i)
      /\ ~IsQuestion(n)' /\ \A v : EditOf(v, n)' <=> v = u
  BY <1>1, <1>2 DEF IsQuestion, EditOf, Changing, Questions
<1>4. /\ DOMAIN screen' = Uris /\ screen'[u] = t
      /\ \A v \in Uris : v # u => screen'[v] = screen[v]
  BY DEF DocsInv, DocsTypeOK
<1>5. DocsTypeOK'
  BY <1>1, <1>2, <1>4 DEF DocsInv, DocsTypeOK
<1>6. Followed'
  <2> SUFFICES ASSUME NEW v \in Uris, running' = TRUE, screen'[v] # NoText
               PROVE  \/ /\ \A i \in DOMAIN inbox' : ~EditOf(v, i)'
                         /\ v \in DOMAIN documents' /\ documents'[v] = screen'[v]
                         /\ published'[v].of = screen'[v]
                      \/ \E i \in DOMAIN inbox' : /\ EditOf(v, i)' /\ inbox'[i].text = screen'[v]
                                                  /\ \A j \in DOMAIN inbox' : j > i => ~EditOf(v, j)'
    BY DEF Followed
  <2>1. CASE v = u
    <3>1. EditOf(v, n)' /\ inbox'[n].text = screen'[v]
      BY <1>2, <1>3, <1>4, <2>1
    <3>2. \A j \in DOMAIN inbox' : ~(j > n)
      <4> SUFFICES ASSUME NEW j \in DOMAIN inbox PROVE ~(j > n)
        BY <1>2
      <4>1. j \in Nat /\ j < n
        BY <1>1, <1>2
      <4> QED
        BY <1>2, <4>1
    <3> QED
      BY <1>2, <3>1, <3>2
  <2>2. CASE v # u
    <3>1. CASE /\ \A i \in DOMAIN inbox : ~EditOf(v, i)
               /\ v \in DOMAIN documents /\ documents[v] = screen[v] /\ published[v].of = screen[v]
      BY <1>2, <1>3, <1>4, <2>2, <3>1
    <3>2. ASSUME NEW i \in DOMAIN inbox, EditOf(v, i), inbox[i].text = screen[v],
                 \A j \in DOMAIN inbox : j > i => ~EditOf(v, j)
          PROVE  /\ i \in DOMAIN inbox' /\ EditOf(v, i)' /\ inbox'[i].text = screen'[v]
                 /\ \A j \in DOMAIN inbox' : j > i => ~EditOf(v, j)'
      BY <1>1, <1>2, <1>3, <1>4, <2>2, <3>2
    <3> QED
      BY <1>4, <2>2, <3>1, <3>2 DEF DocsInv, Followed
  <2> QED
    BY <2>1, <2>2
<1>7. OneQuestion'
  <2>1. \A i, j \in DOMAIN inbox' : IsQuestion(i)' /\ IsQuestion(j)' => i = j
    BY <1>2, <1>3 DEF DocsInv, OneQuestion
  <2>2. answers' # <<>> => Len(answers') = 1 /\ \A i \in DOMAIN inbox' : ~IsQuestion(i)'
    BY <1>2, <1>3 DEF DocsInv, OneQuestion
  <2> QED
    BY <2>1, <2>2 DEF OneQuestion
<1>8. QuestionFits'
  <2> SUFFICES ASSUME NEW i \in DOMAIN inbox', IsQuestion(i)'
               PROVE  /\ screen'[inbox'[i].uri] \in Askable
                      /\ \A j \in DOMAIN inbox' : j > i => ~EditOf(inbox[i].uri, j)'
    BY DEF QuestionFits
  <2>1. i \in DOMAIN inbox /\ IsQuestion(i) /\ inbox'[i] = inbox[i]
    BY <1>1, <1>2, <1>3
  <2>2. inbox[i].uri \in Uris /\ inbox[i].uri # u
    BY <2>1 DEF DocsInv, DocsTypeOK
  <2>3. /\ screen[inbox[i].uri] \in Askable
        /\ \A j \in DOMAIN inbox : j > i => ~EditOf(inbox[i].uri, j)
    BY <2>1 DEF DocsInv, QuestionFits
  <2>4. ASSUME NEW j \in DOMAIN inbox', j > i PROVE ~EditOf(inbox[i].uri, j)'
    <3>1. CASE j \in DOMAIN inbox
      <4>1. ~EditOf(inbox[i].uri, j) /\ inbox'[j] = inbox[j]
        BY <1>1, <2>3, <2>4, <3>1
      <4> QED
        BY <2>1, <4>1 DEF EditOf
    <3>2. CASE j = n
      BY <1>2, <2>1, <2>2, <3>2 DEF EditOf
    <3> QED
      BY <1>2, <3>1, <3>2
  <2> QED
    BY <1>4, <2>1, <2>2, <2>3, <2>4
<1>9. AnswerFits'
  <2> SUFFICES ASSUME NEW i \in DOMAIN answers'
               PROVE  /\ answers'[i].for = screen'[answers'[i].uri]
                      /\ screen'[answers'[i].uri] \in Askable
    BY DEF AnswerFits
  <2>1. answers[i].uri \in Uris /\ answers[i].uri # u
    BY DEF DocsInv, DocsTypeOK
  <2> QED
    BY <1>4, <2>1 DEF DocsInv, AnswerFits
<1> QED
  BY <1>5, <1>6, <1>7, <1>8, <1>9 DEF DocsInv

\* Whoever may be asked about a document has it on the screen.
LEMMA ClosedNotAsked ==
  ASSUME DocsInv, NoText \notin Askable, NEW u \in Uris, screen[u] = NoText
  PROVE  /\ \A i \in DOMAIN inbox : IsQuestion(i) => inbox[i].uri # u
         /\ \A i \in DOMAIN answers : answers[i].uri # u
BY DEF DocsInv, QuestionFits, AnswerFits

\* Opening, asking, and reading an answer, which may show an edit.
LEMMA OpenInv ==
  ASSUME DocsInv, NoText \notin Askable, NEW u \in Uris, Open(u)
  PROVE  DocsInv'
<1>1. PICK t \in Texts :
        /\ screen' = [screen EXCEPT ![u] = t]
        /\ Send([method |-> "didOpen", uri |-> u, text |-> t, pos |-> Somewhere])
  BY DEF Open
<1>2. screen[u] = NoText /\ UNCHANGED <<documents, running, published>> /\ answers' = answers
  BY DEF Open, server
<1>3. PICK r : r.uri = u /\ r.text = t /\ r.method = "didOpen" /\ Send(r)
  BY <1>1
<1>4. "didOpen" \in Changing /\ IsList(answers')
  BY <1>2 DEF Changing, DocsInv, DocsTypeOK
<1> QED
  BY <1>1, <1>2, <1>3, <1>4, ClosedNotAsked, ShownInv

\* The client shows an edit, when nothing is asked any more.
LEMMA ShowsInv ==
  ASSUME DocsInv, NEW u \in Uris, NEW t, Shows(u, t), answers' = <<>>,
         \A i \in DOMAIN inbox : ~IsQuestion(i),
         UNCHANGED <<documents, running, published>>
  PROVE  DocsInv'
<1>1. screen' = [screen EXCEPT ![u] = t]
  BY DEF Shows
<1>2. PICK r : r.uri = u /\ r.text = t /\ r.method = "didChange" /\ Send(r)
  BY DEF Shows
<1>3. "didChange" \in Changing /\ IsList(answers') /\ DOMAIN answers' = {}
  <2>1. \A S : <<>> \in Seq(S)
    OBVIOUS
  <2>2. DOMAIN <<>> = {}
    OBVIOUS
  <2> QED
    BY <2>1, <2>2 DEF Changing, IsList
<1> QED
  BY <1>1, <1>2, <1>3, ShownInv

LEMMA AskInv ==
  ASSUME DocsInv, NEW u \in Uris, NEW m \in Questions, Ask(u, m)
  PROVE  DocsInv'
<1>1. /\ answers = <<>> /\ answers' = answers /\ screen' = screen
      /\ \A i \in DOMAIN inbox : ~IsQuestion(i)
      /\ screen[u] \in Askable /\ UNCHANGED <<documents, running, published>>
  BY DEF Ask, Idle, server, IsQuestion, Changing, Questions
<1>2. PICK r : r.uri = u /\ r.method = m /\ Send(r)
  <2>1. PICK pos : Send([method |-> m, uri |-> u, text |-> NoText, pos |-> pos])
    BY DEF Ask
  <2> QED
    BY <2>1
<1>3. /\ IsList(inbox') /\ Len(inbox) + 1 \in DOMAIN inbox' /\ inbox'[Len(inbox) + 1] = r
      /\ DOMAIN inbox' = DOMAIN inbox \cup {Len(inbox) + 1}
      /\ \A i \in DOMAIN inbox : inbox'[i] = inbox[i] /\ i \in Nat /\ i < Len(inbox) + 1
      /\ Len(inbox) \in Nat
  BY <1>2, Sent, ListAppend DEF DocsInv, DocsTypeOK
<1>4. PICK n \in Nat : /\ n \in DOMAIN inbox' /\ inbox'[n] = r
                       /\ DOMAIN inbox' = DOMAIN inbox \cup {n}
                       /\ \A i \in DOMAIN inbox : i < n
  BY <1>3
<1>5. /\ \A i \in DOMAIN inbox : /\ ~IsQuestion(i)'
                                 /\ \A v : EditOf(v, i)' <=> EditOf(v, i)
      /\ \A v : ~EditOf(v, n)'
  BY <1>1, <1>2, <1>3, <1>4 DEF IsQuestion, EditOf, Changing, Questions
<1>6. DocsTypeOK'
  BY <1>1, <1>2, <1>3, <1>4 DEF DocsInv, DocsTypeOK
<1>7. Followed'
  <2> SUFFICES ASSUME NEW v \in Uris, running' = TRUE, screen'[v] # NoText
               PROVE  \/ /\ \A i \in DOMAIN inbox' : ~EditOf(v, i)'
                         /\ v \in DOMAIN documents' /\ documents'[v] = screen'[v]
                         /\ published'[v].of = screen'[v]
                      \/ \E i \in DOMAIN inbox' : /\ EditOf(v, i)' /\ inbox'[i].text = screen'[v]
                                                  /\ \A j \in DOMAIN inbox' : j > i => ~EditOf(v, j)'
    BY DEF Followed
  <2>1. CASE /\ \A i \in DOMAIN inbox : ~EditOf(v, i)
             /\ v \in DOMAIN documents /\ documents[v] = screen[v] /\ published[v].of = screen[v]
    BY <1>1, <1>4, <1>5, <2>1
  <2>2. ASSUME NEW i \in DOMAIN inbox, EditOf(v, i), inbox[i].text = screen[v],
               \A j \in DOMAIN inbox : j > i => ~EditOf(v, j)
        PROVE  /\ i \in DOMAIN inbox' /\ EditOf(v, i)' /\ inbox'[i].text = screen'[v]
               /\ \A j \in DOMAIN inbox' : j > i => ~EditOf(v, j)'
    BY <1>1, <1>3, <1>4, <1>5, <2>2
  <2> QED
    BY <1>1, <2>1, <2>2 DEF DocsInv, Followed
<1>8. OneQuestion' /\ AnswerFits'
  <2>1. DOMAIN answers' = {}
    <3>1. DOMAIN <<>> = {}
      OBVIOUS
    <3> QED
      BY <1>1, <3>1
  <2> QED
    BY <1>1, <1>4, <1>5, <2>1 DEF OneQuestion, AnswerFits
<1>9. QuestionFits'
  <2> SUFFICES ASSUME NEW i \in DOMAIN inbox', IsQuestion(i)'
               PROVE  /\ screen'[inbox'[i].uri] \in Askable
                      /\ \A j \in DOMAIN inbox' : j > i => ~EditOf(inbox[i].uri, j)'
    BY DEF QuestionFits
  <2>1. i = n /\ inbox'[i].uri = u
    BY <1>2, <1>4, <1>5
  <2>2. \A j \in DOMAIN inbox' : ~(j > n)
    BY <1>3, <1>4
  <2> QED
    BY <1>1, <2>1, <2>2
<1> QED
  BY <1>6, <1>7, <1>8, <1>9 DEF DocsInv

LEMMA ReadInv ==
  ASSUME DocsInv, Read
  PROVE  DocsInv'
<1> DEFINE a == answers[1]
<1>1. /\ answers # <<>> /\ answers' = <<>> /\ Head(answers) = a /\ 1 \in DOMAIN answers
      /\ \A i \in DOMAIN inbox : ~IsQuestion(i)
  <2>1. answers # <<>> /\ answers' = Tail(answers)
    BY DEF Read
  <2>2. /\ Len(answers) = 1 /\ \A i \in DOMAIN inbox : ~IsQuestion(i)
    BY <2>1 DEF DocsInv, OneQuestion
  <2>3. /\ IsList(Tail(answers)) /\ DOMAIN answers = 1..Len(answers)
        /\ DOMAIN Tail(answers) = 1..(Len(answers) - 1) /\ Head(answers) = answers[1]
    BY <2>1, ListTail DEF DocsInv, DocsTypeOK
  <2>4. Tail(answers) = <<>>
    BY <2>2, <2>3 DEF IsList
  <2> QED
    BY <2>1, <2>2, <2>3, <2>4
<1>2. a.uri \in Uris /\ a.method \in Questions
  BY <1>1 DEF DocsInv, DocsTypeOK
<1>3. UNCHANGED <<documents, running, published>>
  BY DEF Read, server
<1> HIDE DEF a
<1>4. \/ Shows(a.uri, a.result[1])
      \/ Shows(a.uri, Renaming(screen[a.uri], a.result))
      \/ UNCHANGED <<screen, inbox>>
  BY <1>1, <1>2 DEF Read, Questions
<1>5. CASE UNCHANGED <<screen, inbox>>
  <2>1. IsList(answers') /\ DOMAIN answers' = {}
    <3>1. \A S : <<>> \in Seq(S)
      OBVIOUS
    <3>2. DOMAIN <<>> = {}
      OBVIOUS
    <3> QED
      BY <1>1, <3>1, <3>2 DEF IsList
  <2>2. \A i : (IsQuestion(i)' <=> IsQuestion(i)) /\ \A u : EditOf(u, i)' <=> EditOf(u, i)
    BY <1>5 DEF IsQuestion, EditOf
  <2>3. DocsTypeOK'
    BY <1>3, <1>5, <2>1 DEF DocsInv, DocsTypeOK
  <2>4. Followed'
    BY <1>3, <1>5, <2>2 DEF DocsInv, Followed
  <2>5. OneQuestion' /\ QuestionFits' /\ AnswerFits'
    BY <1>1, <1>5, <2>1, <2>2 DEF OneQuestion, QuestionFits, AnswerFits
  <2> QED
    BY <2>3, <2>4, <2>5 DEF DocsInv
<1> QED
  BY <1>1, <1>2, <1>3, <1>4, <1>5, ShowsInv

\* Every step.
LEMMA DocsStep ==
  ASSUME DocsInv, NoText \notin Askable, [DocsNext]_docsVars
  PROVE  DocsInv'
<1>1. CASE UNCHANGED docsVars
  <2>1. UNCHANGED <<documents, running, published, inbox, answers, screen>>
    BY <1>1 DEF docsVars, server, client
  <2>2. \A i : (IsQuestion(i)' <=> IsQuestion(i)) /\ \A u : EditOf(u, i)' <=> EditOf(u, i)
    BY <2>1 DEF IsQuestion, EditOf
  <2>3. DocsTypeOK' /\ Followed'
    BY <2>1, <2>2 DEF DocsInv, DocsTypeOK, Followed
  <2>4. OneQuestion' /\ QuestionFits' /\ AnswerFits'
    BY <2>1, <2>2 DEF DocsInv, OneQuestion, QuestionFits, AnswerFits, EditOf
  <2> QED
    BY <2>3, <2>4 DEF DocsInv
<1>2. ASSUME NEW m \in Questions, NEW Result(_, _), Answer(m, Result)
      PROVE  DocsInv'
  <2>1. /\ inbox # <<>> /\ inbox' = Tail(inbox) /\ running = TRUE /\ Head(inbox).method = m
        /\ UNCHANGED <<documents, running, published, screen>>
    BY <1>2 DEF Answer, Reading, server, client, DocsInv, DocsTypeOK
  <2>2. Head(inbox) = inbox[1]
    BY <2>1, Received DEF DocsInv, DocsTypeOK
  <2>3. IsQuestion(1)
    BY <2>1, <2>2 DEF IsQuestion
  <2>4. inbox[1].uri \in DOMAIN documents
    BY <2>1, <2>3, HeadFits
  <2>5. answers' = Append(answers,
                     [method |-> m, uri |-> inbox[1].uri, for |-> documents[inbox[1].uri],
                      pos |-> inbox[1].pos,
                      result |-> Result(documents[inbox[1].uri], inbox[1].pos)])
    BY <1>2, <2>2, <2>4 DEF Answer
  <2>6. PICK a : /\ a.uri = inbox[1].uri /\ a.method = m /\ a.for = documents[inbox[1].uri]
                 /\ answers' = Append(answers, a)
    BY <2>5
  <2> QED
    BY <2>1, <2>3, <2>6, AnswerInv
<1>3. CASE Handle
  <2>1. "definition" \in Questions /\ "rename" \in Questions /\ "formatting" \in Questions
    BY DEF Questions
  <2>2. CASE Definition
    BY <1>2, <2>1, <2>2 DEF Definition
  <2>3. CASE Rename
    BY <1>2, <2>1, <2>3 DEF Rename
  <2>4. CASE Formatting
    BY <1>2, <2>1, <2>4 DEF Formatting
  <2> QED
    BY <1>3, <2>2, <2>3, <2>4, DidChangeInv DEF Handle
<1>4. ASSUME NEW u \in Uris, Type(u) PROVE DocsInv'
  <2>1. /\ answers = <<>> /\ answers' = answers /\ UNCHANGED <<documents, running, published>>
        /\ \A i \in DOMAIN inbox : ~IsQuestion(i)
    BY <1>4 DEF Type, Idle, server, IsQuestion, Changing, Questions
  <2>2. PICK t : Shows(u, t)
    BY <1>4 DEF Type
  <2> QED
    BY <2>1, <2>2, ShowsInv
<1> QED
  BY <1>1, <1>3, <1>4, ReadInv, OpenInv, AskInv DEF DocsNext

\* Whatever the texts, the edits and what the server finds in them: once the
\* server has read what was typed it has the text of the screen and has published
\* what it finds in that, and every answer is about the text it comes back to
\* (didOpen, didChange, publishDiagnostics and the requests of handleRequest).
THEOREM ServerIsCurrent == DocsSpec => []Current
<1>1. DocsInv /\ [DocsNext]_docsVars => DocsInv'
  BY DocsStep, DocumentsAssumption
<1>2. DocsInv => Current
  <2> SUFFICES ASSUME DocsInv PROVE Diagnosed /\ EditsFit
    BY DEF Current
  <2>1. EditsFit
    BY DEF DocsInv, AnswerFits, EditsFit
  <2>2. Diagnosed
    BY DEF DocsInv, DocsTypeOK, Followed, Diagnosed
  <2> QED
    BY <2>1, <2>2
<1> QED
  BY <1>1, <1>2, DocsInitInv, PTL DEF DocsSpec

==============================================================================
