------------------------------- MODULE UIProofs -------------------------------
(***************************************************************************)
(* Proofs about the interface.  Host, for every number of goroutines,      *)
(* contexts and programs.  Signal, for every set of setters and listeners  *)
(* and any number of Sets, when subscriptions are undone in reverse order. *)
(* Frame, for any calls that build a tree, any size it is laid out at and  *)
(* wherever it is touched; its layout, for any numbers not below zero.     *)
(* Reconciler, for any trees, and any patch in which no node moves.        *)
(***************************************************************************)
EXTENDS Host, Signal, Reconciler, Frame, ListProofs, SequenceTheorems, FiniteSetTheorems, TLAPS

------------------------------------------------------------------------------
(* Contexts and handlers                                                   *)

Machines == [program : Seq(Calls), made : Nat, state : {"running", "ended", "failed"},
             of : Handles \cup {Adapter}]

HostPlaces == {"idle", "new", "start", "run", "call", "publish", "touch", "hit", "quiet", "builds", "stuck"}

AtWork == {"new", "start", "run", "call", "publish"}

HostTypeOK ==
  /\ handles \in SUBSET Handles
  /\ next \in Nat \ {0}
  /\ ctxVM \in [Handles -> Nat]
  /\ ctxTree \in [Handles -> Nat]
  /\ activeVM \in Nat
  /\ vms \in Seq(Machines)
  /\ pc \in [Threads -> HostPlaces]
  /\ on \in [Threads -> Handles \cup {Adapter}]
  /\ in \in [Threads -> Nat]

\* A host runs one program at a time in each context.
OneAtWork ==
  \A t, u \in Threads : pc[t] \in AtWork /\ pc[u] \in AtWork /\ on[t] = on[u] => t = u

\* The VM of a context is the last one made in it.
NewestHeld == \A m \in DOMAIN vms : vms[m].of # Adapter => m <= ctxVM[vms[m].of]

\* The VM of a context, in the given state.
HoldsVM(h, state) ==
  ctxVM[h] \in DOMAIN vms /\ vms[ctxVM[h]].of = h /\ vms[ctxVM[h]].state = state

\* What a goroutine works on is as far as its program counter says.
AtItsPlace(t) ==
  /\ pc[t] \in {"new", "start", "publish", "touch"} => on[t] \in Handles
  /\ pc[t] = "start" => HoldsVM(on[t], "running")
  /\ pc[t] = "publish" => HoldsVM(on[t], "ended")
  /\ pc[t] \in {"run", "call"} =>
       /\ in[t] \in DOMAIN vms /\ vms[in[t]].of = on[t] /\ vms[in[t]].state = "running"
       /\ on[t] # Adapter => in[t] = ctxVM[on[t]]
  /\ pc[t] \in {"hit", "quiet", "builds", "stuck"} =>
       /\ in[t] \in DOMAIN vms /\ vms[in[t]].of = on[t]
       /\ on[t] # Adapter => vms[in[t]].state = "ended"

AllPlaced == \A t \in Threads : AtItsPlace(t)

ActiveMade == activeVM # None => activeVM \in DOMAIN vms /\ vms[activeVM].of = Adapter

\* TreesWhole without its set.
ShownEnded ==
  \A h \in Handles : ctxTree[h] # None =>
    ctxTree[h] \in DOMAIN vms /\ vms[ctxTree[h]].of = h /\ vms[ctxTree[h]].state = "ended"

EndedShown ==
  \A m \in DOMAIN vms :
    vms[m].state = "ended" /\ vms[m].of # Adapter =>
      m <= ctxTree[vms[m].of] \/ (Publishing(vms[m].of) /\ m <= ctxVM[vms[m].of])

HostInv ==
  /\ HostTypeOK
  /\ OneAtWork
  /\ NewestHeld
  /\ AllPlaced
  /\ ActiveMade
  /\ ShownEnded
  /\ EndedShown

LEMMA InvWhole == ASSUME HostInv PROVE TreesWhole /\ HandlersAfterRun
<1>1. TreesWhole
  <2> SUFFICES ASSUME NEW h \in Handles
      PROVE  /\ ctxTree[h] # None => ctxTree[h] \in Ended(h)
             /\ ~Publishing(h) => \A m \in Ended(h) : m <= ctxTree[h]
    BY DEF TreesWhole
  <2>1. ctxTree[h] # None => ctxTree[h] \in Ended(h)
    BY DEF HostInv, ShownEnded, Ended
  <2>2. ASSUME ~Publishing(h), NEW m \in Ended(h) PROVE m <= ctxTree[h]
    <3>1. m \in DOMAIN vms /\ vms[m].of = h /\ vms[m].state = "ended" /\ h # Adapter
      BY <2>2, HostAssumption DEF Ended, Handles, Adapter
    <3> QED
      BY <2>2, <3>1 DEF HostInv, EndedShown
  <2> QED
    BY <2>1, <2>2
<1>2. HandlersAfterRun
  BY DEF HostInv, AllPlaced, AtItsPlace, HandlersAfterRun
<1> QED
  BY <1>1, <1>2

LEMMA HostInitInv == Init => HostInv
<1> SUFFICES ASSUME Init PROVE HostInv
  OBVIOUS
<1>1. HostTypeOK
  BY HostAssumption DEF Init, HostTypeOK, HostPlaces, None, Adapter, Handles
<1>2. DOMAIN vms = {}
  BY DEF Init
<1>3. \A t \in Threads : pc[t] = "idle"
  BY DEF Init
<1>4. OneAtWork /\ AllPlaced
  BY <1>3 DEF OneAtWork, AllPlaced, AtItsPlace, AtWork
<1>5. NewestHeld /\ EndedShown
  BY <1>2 DEF NewestHeld, EndedShown
<1>6. ActiveMade /\ ShownEnded
  BY DEF Init, ActiveMade, ShownEnded
<1> QED
  BY <1>1, <1>4, <1>5, <1>6 DEF HostInv

------------------------------------------------------------------------------
(* What one goroutine does disturbs no other.                              *)

LEMMA VarsTyped ==
  ASSUME HostInv
  PROVE  /\ pc \in [Threads -> HostPlaces]
         /\ on \in [Threads -> Handles \cup {Adapter}]
         /\ in \in [Threads -> Nat]
         /\ ctxVM \in [Handles -> Nat]
         /\ ctxTree \in [Handles -> Nat]
         /\ vms \in Seq(Machines)
         /\ Adapter \notin Handles
  BY HostAssumption DEF HostInv, HostTypeOK, Adapter, Handles

\* A step that leaves contexts, trees and VMs alone.
LEMMA LocalStep ==
  ASSUME HostInv, NEW t \in Threads,
         NEW p \in HostPlaces, NEW o \in Handles \cup {Adapter}, NEW i \in Nat,
         handles' \in SUBSET Handles, next' \in Nat \ {0},
         UNCHANGED <<ctxVM, ctxTree, activeVM, vms>>,
         pc' = [pc EXCEPT ![t] = p],
         on' = [on EXCEPT ![t] = o],
         in' = [in EXCEPT ![t] = i],
         AtItsPlace(t)',
         pc[t] # "publish",
         p \in AtWork => (pc[t] \in AtWork /\ o = on[t]) \/ ~Busy(o)
  PROVE  HostInv'
<1>1. HostTypeOK'
  BY VarsTyped DEF HostInv, HostTypeOK
<1>2. \A u \in Threads : u # t => pc'[u] = pc[u] /\ on'[u] = on[u] /\ in'[u] = in[u]
  BY VarsTyped
<1>3. pc'[t] = p /\ on'[t] = o
  BY VarsTyped
<1>4. \A u \in Threads : u # t => AtItsPlace(u)'
  BY <1>2 DEF HostInv, AllPlaced, AtItsPlace, HoldsVM
<1>5. AllPlaced'
  BY <1>4 DEF AllPlaced
<1>6. \A u \in Threads : p \in AtWork /\ pc[u] \in AtWork /\ on[u] = o => u = t
  <2> SUFFICES ASSUME NEW u \in Threads, p \in AtWork, pc[u] \in AtWork, on[u] = o
      PROVE  u = t
    OBVIOUS
  <2>1. CASE pc[t] \in AtWork /\ o = on[t]
    BY <2>1 DEF HostInv, OneAtWork
  <2>2. CASE ~Busy(o)
    BY <2>2 DEF Busy, AtWork
  <2> QED
    BY <2>1, <2>2
<1>7. OneAtWork'
  <2> SUFFICES ASSUME NEW u \in Threads, NEW v \in Threads,
                      pc'[u] \in AtWork, pc'[v] \in AtWork, on'[u] = on'[v]
      PROVE  u = v
    BY DEF OneAtWork
  <2>1. CASE u = t
    BY <2>1, <1>2, <1>3, <1>6
  <2>2. CASE v = t
    BY <2>2, <1>2, <1>3, <1>6
  <2>3. CASE u # t /\ v # t
    BY <2>3, <1>2 DEF HostInv, OneAtWork
  <2> QED
    BY <2>1, <2>2, <2>3
<1>8. \A h : Publishing(h) => Publishing(h)'
  BY <1>2 DEF Publishing
<1>9. EndedShown'
  BY <1>8 DEF HostInv, EndedShown
<1>10. NewestHeld' /\ ActiveMade' /\ ShownEnded'
  BY DEF HostInv, NewestHeld, ActiveMade, ShownEnded
<1> QED
  BY <1>1, <1>5, <1>7, <1>9, <1>10 DEF HostInv

LEMMA TablesInv ==
  ASSUME HostInv, NEW t \in Threads, CreateRuntime(t) \/ \E h \in Handles : DestroyRuntime(t, h)
  PROVE  HostInv'
<1>1. UNCHANGED <<ctxVM, ctxTree, activeVM, vms, pc, on, in>>
  BY DEF CreateRuntime, DestroyRuntime
<1>2. handles' \in SUBSET Handles /\ next' \in Nat \ {0}
  <2>1. CASE CreateRuntime(t)
    <3>1. next \in Handles
      <4>1. next \in Nat /\ next # 0
        BY DEF HostInv, HostTypeOK
      <4> QED
        BY <4>1, <2>1, HostAssumption DEF CreateRuntime, Handles
    <3> QED
      BY <3>1, <2>1 DEF CreateRuntime, HostInv, HostTypeOK
  <2>2. CASE \E h \in Handles : DestroyRuntime(t, h)
    BY <2>2 DEF DestroyRuntime, HostInv, HostTypeOK
  <2> QED
    BY <2>1, <2>2
<1>3. HostTypeOK'
  BY <1>1, <1>2 DEF HostInv, HostTypeOK
<1>4. OneAtWork' /\ NewestHeld' /\ ActiveMade' /\ ShownEnded'
  BY <1>1 DEF HostInv, OneAtWork, NewestHeld, ActiveMade, ShownEnded
<1>5. AllPlaced' /\ EndedShown'
  BY <1>1 DEF HostInv, AllPlaced, AtItsPlace, HoldsVM, EndedShown, Publishing
<1> QED
  BY <1>3, <1>4, <1>5 DEF HostInv

LEMMA LocalActions ==
  ASSUME HostInv, NEW t \in Threads,
         \/ \E h \in Handles : ExecuteBytecode(t, h) \/ DispatchTouchEvent(t, h)
         \/ Start(t) \/ CallLock(t)
         \/ TouchEmpty(t) \/ TouchTree(t) \/ TouchAdapter(t)
         \/ Miss(t) \/ Quiet(t) \/ Builds(t)
         \/ \E handler \in {"quiet", "builds"} : TouchHit(t, handler)
  PROVE  HostInv'
<1>1. /\ on[t] \in Handles \cup {Adapter}
      /\ in[t] \in Nat /\ None \in Nat
      /\ \A h \in Handles : ctxVM[h] \in Nat /\ ctxTree[h] \in Nat
      /\ activeVM \in Nat
      /\ on = [on EXCEPT ![t] = on[t]] /\ in = [in EXCEPT ![t] = in[t]]
  BY VarsTyped DEF None, HostInv, HostTypeOK
<1>2. handles \in SUBSET Handles /\ next \in Nat \ {0}
  BY DEF HostInv, HostTypeOK
<1>3. AtItsPlace(t)
  BY DEF HostInv, AllPlaced
<1>4. ASSUME NEW h \in Handles, ExecuteBytecode(t, h) PROVE HostInv'
  <2>1. pc[t] = "idle" /\ ~Busy(h) /\ pc' = [pc EXCEPT ![t] = "new"] /\ on' = [on EXCEPT ![t] = h] /\ in' = in
    BY <1>4 DEF ExecuteBytecode, Goto
  <2>2. UNCHANGED <<handles, next, ctxVM, ctxTree, activeVM, vms>>
    BY <1>4 DEF ExecuteBytecode, contexts
  <2>3. AtItsPlace(t)'
    BY <2>1, VarsTyped DEF AtItsPlace
  <2> QED
    BY <2>1, <2>2, <2>3, <1>1, <1>2, LocalStep DEF HostPlaces
<1>5. ASSUME NEW h \in Handles, DispatchTouchEvent(t, h) PROVE HostInv'
  <2>1. pc[t] = "idle" /\ pc' = [pc EXCEPT ![t] = "touch"] /\ on' = [on EXCEPT ![t] = h] /\ in' = in
    BY <1>5 DEF DispatchTouchEvent, Goto
  <2>2. UNCHANGED <<handles, next, ctxVM, ctxTree, activeVM, vms>>
    BY <1>5 DEF DispatchTouchEvent, contexts
  <2>3. AtItsPlace(t)'
    BY <2>1, VarsTyped DEF AtItsPlace
  <2> QED
    BY <2>1, <2>2, <2>3, <1>1, <1>2, LocalStep DEF HostPlaces, AtWork
<1>6. ASSUME Start(t) PROVE HostInv'
  <2>1. pc[t] = "start" /\ pc' = [pc EXCEPT ![t] = "run"] /\ on' = on /\ in' = [in EXCEPT ![t] = ctxVM[on[t]]]
    BY <1>6 DEF Start, Goto
  <2>2. UNCHANGED <<handles, next, ctxVM, ctxTree, activeVM, vms>>
    BY <1>6 DEF Start, contexts
  <2>3. on[t] \in Handles /\ HoldsVM(on[t], "running") /\ ctxVM[on[t]] \in Nat
    BY <2>1, <1>1, <1>3 DEF AtItsPlace
  <2>4. AtItsPlace(t)'
    BY <2>1, <2>2, <2>3, VarsTyped DEF AtItsPlace, HoldsVM
  <2> QED
    BY <2>1, <2>2, <2>3, <2>4, <1>1, <1>2, LocalStep DEF HostPlaces, AtWork
<1>7. ASSUME CallLock(t) PROVE HostInv'
  <2>1. pc[t] = "run" /\ pc' = [pc EXCEPT ![t] = "call"] /\ on' = on /\ in' = in
    BY <1>7 DEF CallLock, Goto
  <2>2. UNCHANGED <<handles, next, ctxVM, ctxTree, activeVM, vms>>
    BY <1>7 DEF CallLock, contexts
  <2>3. AtItsPlace(t)'
    BY <2>1, <2>2, <1>3, VarsTyped DEF AtItsPlace
  <2> QED
    BY <2>1, <2>2, <2>3, <1>1, <1>2, LocalStep DEF HostPlaces, AtWork
<1>8. ASSUME TouchEmpty(t) \/ Miss(t) \/ Quiet(t) PROVE HostInv'
  <2>1. /\ pc[t] \in {"touch", "hit", "quiet"} /\ pc' = [pc EXCEPT ![t] = "idle"]
        /\ on' = [on EXCEPT ![t] = Adapter] /\ in' = [in EXCEPT ![t] = None]
    BY <1>8 DEF TouchEmpty, Miss, Quiet, TouchReturns, Return, Goto
  <2>2. UNCHANGED <<handles, next, ctxVM, ctxTree, activeVM, vms>>
    BY <1>8 DEF TouchEmpty, Miss, Quiet, TouchReturns, contexts
  <2>3. AtItsPlace(t)'
    BY <2>1, VarsTyped DEF AtItsPlace
  <2> QED
    BY <2>1, <2>2, <2>3, <1>1, <1>2, LocalStep DEF HostPlaces, AtWork
<1>9. ASSUME TouchTree(t) PROVE HostInv'
  <2>1. /\ pc[t] = "touch" /\ pc' = [pc EXCEPT ![t] = "hit"] /\ on' = on
        /\ in' = [in EXCEPT ![t] = ctxTree[on[t]]] /\ ctxTree[on[t]] # None
    BY <1>9 DEF TouchTree, Goto
  <2>2. UNCHANGED <<handles, next, ctxVM, ctxTree, activeVM, vms>>
    BY <1>9 DEF TouchTree, contexts
  <2>3. on[t] \in Handles /\ ctxTree[on[t]] \in Nat
    BY <2>1, <1>1, <1>3 DEF AtItsPlace
  <2>4. ctxTree[on[t]] \in DOMAIN vms /\ vms[ctxTree[on[t]]].of = on[t] /\ vms[ctxTree[on[t]]].state = "ended"
    BY <2>1, <2>3 DEF HostInv, ShownEnded
  <2>5. AtItsPlace(t)'
    BY <2>1, <2>2, <2>4, VarsTyped DEF AtItsPlace
  <2> QED
    BY <2>1, <2>2, <2>3, <2>5, <1>1, <1>2, LocalStep DEF HostPlaces, AtWork
<1>10. ASSUME TouchAdapter(t) PROVE HostInv'
  <2>1. /\ pc[t] = "idle" /\ pc' = [pc EXCEPT ![t] = "hit"] /\ on' = [on EXCEPT ![t] = Adapter]
        /\ in' = [in EXCEPT ![t] = activeVM] /\ activeVM # None
    BY <1>10 DEF TouchAdapter, Goto
  <2>2. UNCHANGED <<handles, next, ctxVM, ctxTree, activeVM, vms>>
    BY <1>10 DEF TouchAdapter, contexts
  <2>3. activeVM \in DOMAIN vms /\ vms[activeVM].of = Adapter
    BY <2>1 DEF HostInv, ActiveMade
  <2>4. AtItsPlace(t)'
    BY <2>1, <2>2, <2>3, VarsTyped DEF AtItsPlace
  <2> QED
    BY <2>1, <2>2, <2>4, <1>1, <1>2, LocalStep DEF HostPlaces, AtWork
<1>11. ASSUME NEW p \in {"quiet", "builds", "stuck"}, pc[t] \in {"hit", "builds"},
              pc' = [pc EXCEPT ![t] = p], on' = on, in' = in,
              UNCHANGED <<handles, next, ctxVM, ctxTree, activeVM, vms>>
       PROVE  HostInv'
  <2>1. AtItsPlace(t)'
    BY <1>3, <1>11, VarsTyped DEF AtItsPlace
  <2>2. p \in HostPlaces /\ p \notin AtWork
    BY <1>11 DEF HostPlaces, AtWork
  <2> QED
    BY <2>1, <2>2, <1>1, <1>2, <1>11, LocalStep
<1>12. ASSUME Builds(t) PROVE HostInv'
  BY <1>11, <1>12 DEF Builds, Goto, contexts
<1>13. ASSUME NEW handler \in {"quiet", "builds"}, TouchHit(t, handler) PROVE HostInv'
  BY <1>11, <1>13 DEF TouchHit, Goto, contexts
<1> QED
  BY <1>4, <1>5, <1>6, <1>7, <1>8, <1>9, <1>10, <1>12, <1>13

------------------------------------------------------------------------------
(* Steps of a program, and of the contexts that run one.                   *)

\* A step that changes the VM its goroutine runs.
LEMMA StateStep ==
  ASSUME HostInv, NEW t \in Threads, pc[t] \in {"run", "call"},
         NEW w \in Machines, w.of = vms[in[t]].of,
         NEW p \in HostPlaces, NEW o \in Handles \cup {Adapter}, NEW i \in Nat,
         UNCHANGED <<handles, next, ctxVM, ctxTree, activeVM>>,
         vms' = [vms EXCEPT ![in[t]] = w],
         pc' = [pc EXCEPT ![t] = p],
         on' = [on EXCEPT ![t] = o],
         in' = [in EXCEPT ![t] = i],
         AtItsPlace(t)',
         p \in AtWork => o = on[t],
         w.state = "ended" => on[t] = Adapter \/ (p = "publish" /\ o = on[t])
  PROVE  HostInv'
<1> DEFINE m == in[t]
<1>1. m \in DOMAIN vms /\ vms[m].of = on[t] /\ vms[m].state = "running"
  BY DEF HostInv, AllPlaced, AtItsPlace
<1>2. on[t] # Adapter => m = ctxVM[on[t]]
  BY DEF HostInv, AllPlaced, AtItsPlace
<1>3. vms' \in Seq(Machines) /\ DOMAIN vms' = DOMAIN vms
  <2>1. vms \in Seq(Machines)
    BY VarsTyped
  <2> QED
    BY <2>1, <1>1
<1>4. vms'[m] = w /\ \A n \in DOMAIN vms : n # m => vms'[n] = vms[n]
  BY <1>1, VarsTyped
<1>5. HostTypeOK'
  BY <1>3, VarsTyped DEF HostInv, HostTypeOK
<1>6. \A u \in Threads : u # t => pc'[u] = pc[u] /\ on'[u] = on[u] /\ in'[u] = in[u]
  BY VarsTyped
<1>7. pc'[t] = p /\ on'[t] = o
  BY VarsTyped
<1>8. pc[t] \in AtWork
  BY DEF AtWork
<1>9. OneAtWork'
  <2> SUFFICES ASSUME NEW u \in Threads, NEW v \in Threads,
                      pc'[u] \in AtWork, pc'[v] \in AtWork, on'[u] = on'[v]
      PROVE  u = v
    BY DEF OneAtWork
  <2>1. pc[u] \in AtWork /\ pc[v] \in AtWork /\ on[u] = on[v]
    BY <1>6, <1>7, <1>8
  <2> QED
    BY <2>1 DEF HostInv, OneAtWork
<1>10. \A n \in DOMAIN vms : vms'[n].of = vms[n].of
  BY <1>1, <1>4
<1>11. NewestHeld' /\ ActiveMade'
  BY <1>3, <1>10 DEF HostInv, NewestHeld, ActiveMade
<1>12. ShownEnded'
  BY <1>1, <1>3, <1>4 DEF HostInv, ShownEnded
<1>13. ASSUME NEW u \in Threads, u # t PROVE AtItsPlace(u)'
  <2>1. AtItsPlace(u)
    BY DEF HostInv, AllPlaced
  <2>2. pc[u] \in AtWork => on[u] # on[t]
    BY <1>8, <1>13 DEF HostInv, OneAtWork
  <2>3. pc[u] = "start" => HoldsVM(on[u], "running")'
    <3> SUFFICES ASSUME pc[u] = "start" PROVE HoldsVM(on[u], "running")'
      OBVIOUS
    <3>1. HoldsVM(on[u], "running") /\ on[u] # on[t]
      BY <2>1, <2>2 DEF AtItsPlace, AtWork
    <3>2. ctxVM[on[u]] # m
      BY <3>1, <1>1 DEF HoldsVM
    <3> QED
      BY <3>1, <3>2, <1>3, <1>4, <1>6, <1>13 DEF HoldsVM
  <2>4. pc[u] = "publish" => HoldsVM(on[u], "ended")'
    <3> SUFFICES ASSUME pc[u] = "publish" PROVE HoldsVM(on[u], "ended")'
      OBVIOUS
    <3>1. HoldsVM(on[u], "ended")
      BY <2>1 DEF AtItsPlace
    <3>2. ctxVM[on[u]] # m
      BY <3>1, <1>1 DEF HoldsVM
    <3> QED
      BY <3>1, <3>2, <1>3, <1>4, <1>6, <1>13 DEF HoldsVM
  <2>5. pc[u] \in {"run", "call"} =>
          /\ in[u] \in DOMAIN vms' /\ vms'[in[u]].of = on[u] /\ vms'[in[u]].state = "running"
          /\ on[u] # Adapter => in[u] = ctxVM[on[u]]
    <3> SUFFICES ASSUME pc[u] \in {"run", "call"}
        PROVE  /\ in[u] \in DOMAIN vms' /\ vms'[in[u]].of = on[u] /\ vms'[in[u]].state = "running"
               /\ on[u] # Adapter => in[u] = ctxVM[on[u]]
      OBVIOUS
    <3>1. in[u] # m
      BY <2>1, <2>2, <1>1 DEF AtItsPlace, AtWork
    <3> QED
      BY <3>1, <2>1, <1>3, <1>4 DEF AtItsPlace
  <2>6. pc[u] \in {"hit", "quiet", "builds", "stuck"} =>
          /\ in[u] \in DOMAIN vms' /\ vms'[in[u]].of = on[u]
          /\ on[u] # Adapter => vms'[in[u]].state = "ended"
    BY <2>1, <1>1, <1>3, <1>4, <1>10 DEF AtItsPlace
  <2> QED
    BY <2>1, <2>3, <2>4, <2>5, <2>6, <1>6, <1>13 DEF AtItsPlace
<1>14. AllPlaced'
  BY <1>13 DEF AllPlaced
<1>15. EndedShown'
  <2>1. ASSUME NEW h, Publishing(h) PROVE Publishing(h)'
    <3>1. PICK u \in Threads : on[u] = h /\ pc[u] = "publish"
      BY <2>1 DEF Publishing
    <3>2. u # t
      BY <3>1
    <3> QED
      BY <3>1, <3>2, <1>6 DEF Publishing
  <2>2. ASSUME NEW n \in DOMAIN vms', n # m, vms'[n].state = "ended", vms'[n].of # Adapter
        PROVE  n <= ctxTree[vms'[n].of] \/ ((Publishing(vms[n].of))' /\ n <= ctxVM[vms'[n].of])
    <3>1. n \in DOMAIN vms /\ vms'[n] = vms[n]
      BY <2>2, <1>3, <1>4
    <3>2. n <= ctxTree[vms[n].of] \/ (Publishing(vms[n].of) /\ n <= ctxVM[vms[n].of])
      BY <2>2, <3>1 DEF HostInv, EndedShown
    <3>3. Publishing(vms[n].of) => (Publishing(vms[n].of))'
      BY <2>1, <3>1 DEF Publishing
    <3> QED
      BY <3>1, <3>2, <3>3
  <2>3. ASSUME NEW n \in DOMAIN vms', n = m, vms'[n].state = "ended", vms'[n].of # Adapter
        PROVE  n <= ctxTree[vms'[n].of] \/ ((Publishing(vms[n].of))' /\ n <= ctxVM[vms'[n].of])
    <3>1. p = "publish" /\ o = on[t] /\ vms'[n].of = on[t] /\ n = ctxVM[on[t]]
      BY <2>3, <1>1, <1>2, <1>4
    <3>2. n \in Nat
      BY <2>3, VarsTyped
    <3>3. on'[t] = vms'[n].of /\ pc'[t] = "publish"
      BY <3>1, <1>7
    <3>4. n <= ctxVM[vms'[n].of]
      BY <3>1, <3>2
    <3> QED
      BY <3>3, <3>4 DEF Publishing
  <2>4. ASSUME NEW n \in DOMAIN vms', vms'[n].state = "ended", vms'[n].of # Adapter
        PROVE  n <= ctxTree'[vms'[n].of] \/ ((Publishing(vms[n].of))' /\ n <= ctxVM'[vms'[n].of])
    <3>1. CASE n = m
      BY <2>3, <2>4, <3>1
    <3>2. CASE n # m
      BY <2>2, <2>4, <3>2
    <3> QED
      BY <3>1, <3>2
  <2> QED
    BY <2>4 DEF EndedShown
<1> QED
  BY <1>5, <1>9, <1>11, <1>12, <1>14, <1>15 DEF HostInv

LEMMA ProgramSteps ==
  ASSUME HostInv, NEW t \in Threads, Call(t) \/ Throw(t) \/ End(t)
  PROVE  HostInv'
<1>1. /\ on[t] \in Handles \cup {Adapter}
      /\ in[t] \in Nat /\ None \in Nat
      /\ on = [on EXCEPT ![t] = on[t]] /\ in = [in EXCEPT ![t] = in[t]]
  BY VarsTyped DEF None
<1>2. AtItsPlace(t)
  BY DEF HostInv, AllPlaced
<1> DEFINE v == vms[in[t]]
<1>3. pc[t] \in {"run", "call"}
  BY DEF Call, Throw, End, Goto, Return
<1>4. in[t] \in DOMAIN vms /\ v \in Machines /\ v.state = "running"
  BY <1>2, <1>3, VarsTyped DEF AtItsPlace
<1>5. ASSUME Call(t) PROVE HostInv'
  <2> DEFINE w == [v EXCEPT !.made = @ + 1]
  <2>1. w \in Machines /\ w.of = v.of /\ w.state = "running"
    BY <1>4 DEF Machines
  <2>2. pc' = [pc EXCEPT ![t] = "run"] /\ on' = on /\ in' = in /\ vms' = [vms EXCEPT ![in[t]] = w] /\ pc[t] = "call"
    BY <1>5 DEF Call, Goto
  <2>3. UNCHANGED <<handles, next, ctxVM, ctxTree, activeVM>>
    BY <1>5 DEF Call, contexts
  <2>4. AtItsPlace(t)'
    <3>1. DOMAIN vms' = DOMAIN vms /\ vms'[in[t]] = w
      BY <2>2, <1>4, VarsTyped
    <3> QED
      BY <3>1, <2>1, <2>2, <2>3, <1>2, VarsTyped DEF AtItsPlace
  <2> QED
    BY <2>1, <2>2, <2>3, <2>4, <1>1, <1>3, StateStep DEF HostPlaces
<1>6. ASSUME NEW w \in Machines, w.of = v.of,
             vms' = [vms EXCEPT ![in[t]] = w],
             UNCHANGED <<handles, next, ctxVM, ctxTree, activeVM>>,
             Return(t, "run"), w.state = "ended" => on[t] = Adapter
      PROVE  HostInv'
  <2>1. pc' = [pc EXCEPT ![t] = "idle"] /\ on' = [on EXCEPT ![t] = Adapter] /\ in' = [in EXCEPT ![t] = None]
    BY <1>6 DEF Return, Goto
  <2>2. AtItsPlace(t)'
    BY <2>1, VarsTyped DEF AtItsPlace
  <2> QED
    BY <1>6, <2>1, <2>2, <1>1, <1>3, StateStep DEF HostPlaces, AtWork
<1>7. ASSUME Throw(t) PROVE HostInv'
  <2> DEFINE w == [v EXCEPT !.state = "failed"]
  <2>1. w \in Machines /\ w.of = v.of /\ w.state = "failed"
    BY <1>4 DEF Machines
  <2>2. vms' = [vms EXCEPT ![in[t]] = w] /\ Return(t, "run") /\ UNCHANGED <<handles, next, ctxVM, ctxTree, activeVM>>
    BY <1>7 DEF Throw, contexts
  <2> QED
    BY <2>1, <2>2, <1>6
<1>8. ASSUME End(t) PROVE HostInv'
  <2> DEFINE w == [v EXCEPT !.state = "ended"]
  <2>1. w \in Machines /\ w.of = v.of /\ w.state = "ended"
    BY <1>4 DEF Machines
  <2>2. vms' = [vms EXCEPT ![in[t]] = w] /\ UNCHANGED <<handles, next, ctxVM, ctxTree, activeVM>>
    BY <1>8 DEF End, contexts
  <2>3. CASE on[t] = Adapter /\ Return(t, "run")
    BY <2>1, <2>2, <2>3, <1>6
  <2>4. CASE on[t] # Adapter /\ Goto(t, "run", "publish") /\ UNCHANGED <<on, in>>
    <3>1. pc[t] = "run" /\ pc' = [pc EXCEPT ![t] = "publish"] /\ on' = on /\ in' = in
      BY <2>4 DEF Goto
    <3>2. DOMAIN vms' = DOMAIN vms /\ vms'[in[t]] = w
      BY <2>2, <1>4, VarsTyped
    <3>3. in[t] = ctxVM[on[t]] /\ v.of = on[t] /\ on[t] \in Handles
      BY <3>1, <2>4, <1>1, <1>2 DEF AtItsPlace
    <3>4. AtItsPlace(t)'
      BY <3>1, <3>2, <3>3, <2>1, <2>2, <1>4, VarsTyped DEF AtItsPlace, HoldsVM
    <3> QED
      BY <3>1, <3>4, <2>1, <2>2, <1>1, <1>3, StateStep DEF HostPlaces
  <2> QED
    BY <1>8, <2>3, <2>4 DEF End
<1> QED
  BY <1>5, <1>7, <1>8

LEMMA MadeVM ==
  ASSUME HostInv, NEW w \in Machines, vms' = Append(vms, w)
  PROVE  /\ vms' \in Seq(Machines)
         /\ Len(vms) + 1 \in Nat \ {0}
         /\ Len(vms) + 1 \in DOMAIN vms'
         /\ vms'[Len(vms) + 1] = w
         /\ \A n \in DOMAIN vms : n \in DOMAIN vms' /\ vms'[n] = vms[n] /\ n < Len(vms) + 1
         /\ \A n \in DOMAIN vms' : n \in DOMAIN vms \/ n = Len(vms) + 1
  BY VarsTyped

LEMMA NewInv ==
  ASSUME HostInv, NEW t \in Threads, NEW program \in Programs, New(t, program)
  PROVE  HostInv'
<1> DEFINE w == NewVM(program, on[t])
           k == Len(vms) + 1
<1>1. pc[t] = "new" /\ on[t] \in Handles
  BY DEF New, Goto, HostInv, AllPlaced, AtItsPlace
<1>2. w \in Machines /\ w.of = on[t] /\ w.state = "running"
  BY <1>1, HostAssumption DEF NewVM, Machines
<1>3. /\ vms' = Append(vms, w) /\ pc' = [pc EXCEPT ![t] = "start"]
      /\ ctxVM' = [ctxVM EXCEPT ![on[t]] = k]
      /\ UNCHANGED <<handles, next, ctxTree, activeVM, on, in>>
  BY DEF New, Goto
<1>4. /\ vms' \in Seq(Machines) /\ k \in Nat /\ k \in DOMAIN vms' /\ vms'[k] = w
      /\ \A n \in DOMAIN vms : n \in DOMAIN vms' /\ vms'[n] = vms[n] /\ n < k /\ n # k
      /\ \A n \in DOMAIN vms' : n \in DOMAIN vms \/ n = k
  BY <1>2, <1>3, MadeVM, VarsTyped
<1>5. ctxVM' \in [Handles -> Nat] /\ ctxVM'[on[t]] = k /\ \A h \in Handles : h # on[t] => ctxVM'[h] = ctxVM[h]
  BY <1>1, <1>3, <1>4, VarsTyped
<1>6. \A u \in Threads : u # t => pc'[u] = pc[u]
  BY <1>3, VarsTyped
<1>7. pc'[t] = "start"
  BY <1>3, VarsTyped
<1>8. HostTypeOK'
  <2>1. pc' \in [Threads -> HostPlaces]
    BY <1>3, VarsTyped DEF HostPlaces
  <2> QED
    BY <2>1, <1>3, <1>4, <1>5, VarsTyped DEF HostInv, HostTypeOK
<1>9. \A u \in Threads : pc'[u] \in AtWork => pc[u] \in AtWork
  BY <1>1, <1>6 DEF AtWork
<1>10. OneAtWork'
  BY <1>3, <1>9 DEF HostInv, OneAtWork
<1>11. \A u \in Threads : u # t /\ pc[u] \in AtWork => on[u] # on[t]
  BY <1>1 DEF HostInv, OneAtWork, AtWork
<1>12. NewestHeld'
  <2> SUFFICES ASSUME NEW n \in DOMAIN vms', vms'[n].of # Adapter
      PROVE  n <= ctxVM'[vms'[n].of]
    BY DEF NewestHeld
  <2>1. CASE n = k
    BY <2>1, <1>2, <1>4, <1>5
  <2>2. CASE n \in DOMAIN vms
    <3>1. vms'[n] = vms[n] /\ n < k /\ n \in Nat /\ vms[n] \in Machines
      BY <2>2, <1>4, VarsTyped
    <3>2. n <= ctxVM[vms[n].of] /\ vms[n].of \in Handles
      BY <2>2, <3>1 DEF HostInv, NewestHeld, Machines
    <3>3. CASE vms[n].of = on[t]
      BY <3>1, <3>3, <1>4, <1>5
    <3>4. CASE vms[n].of # on[t]
      BY <3>1, <3>2, <3>4, <1>5
    <3> QED
      BY <3>3, <3>4
  <2> QED
    BY <2>1, <2>2, <1>4
<1>13. AtItsPlace(t)'
  BY <1>1, <1>2, <1>3, <1>4, <1>5, <1>7 DEF AtItsPlace, HoldsVM
<1>14. ASSUME NEW u \in Threads, u # t PROVE AtItsPlace(u)'
  <2>1. AtItsPlace(u) /\ pc'[u] = pc[u] /\ on'[u] = on[u] /\ in'[u] = in[u]
    BY <1>3, <1>6, <1>14 DEF HostInv, AllPlaced
  <2>2. pc[u] \in AtWork /\ on[u] \in Handles => ctxVM'[on[u]] = ctxVM[on[u]]
    BY <1>5, <1>11, <1>14
  <2>3. on[u] \in Handles \cup {Adapter}
    BY VarsTyped
  <2>4. pc[u] = "start" => HoldsVM(on[u], "running")'
    BY <2>1, <2>2, <1>4 DEF AtItsPlace, HoldsVM, AtWork
  <2>5. pc[u] = "publish" => HoldsVM(on[u], "ended")'
    BY <2>1, <2>2, <1>4 DEF AtItsPlace, HoldsVM, AtWork
  <2>6. pc[u] \in {"run", "call"} =>
          /\ in[u] \in DOMAIN vms' /\ vms'[in[u]].of = on[u] /\ vms'[in[u]].state = "running"
          /\ on[u] # Adapter => in[u] = ctxVM'[on[u]]
    BY <2>1, <2>2, <2>3, <1>4 DEF AtItsPlace, AtWork
  <2>7. pc[u] \in {"hit", "quiet", "builds", "stuck"} =>
          /\ in[u] \in DOMAIN vms' /\ vms'[in[u]].of = on[u]
          /\ on[u] # Adapter => vms'[in[u]].state = "ended"
    BY <2>1, <1>4 DEF AtItsPlace
  <2> QED
    BY <2>1, <2>4, <2>5, <2>6, <2>7 DEF AtItsPlace
<1>15. AllPlaced'
  BY <1>13, <1>14 DEF AllPlaced
<1>16. ActiveMade' /\ ShownEnded'
  BY <1>3, <1>4 DEF HostInv, ActiveMade, ShownEnded
<1>17. EndedShown'
  <2>1. ASSUME NEW n \in DOMAIN vms', vms'[n].state = "ended", vms'[n].of # Adapter
        PROVE  n <= ctxTree'[vms'[n].of] \/ ((Publishing(vms[n].of))' /\ n <= ctxVM'[vms'[n].of])
    <3>1. n \in DOMAIN vms /\ vms'[n] = vms[n]
      BY <2>1, <1>2, <1>4
    <3>2. CASE n <= ctxTree[vms[n].of]
      BY <3>1, <3>2, <1>3
    <3>3. CASE Publishing(vms[n].of) /\ n <= ctxVM[vms[n].of]
      <4>1. PICK u \in Threads : on[u] = vms[n].of /\ pc[u] = "publish"
        BY <3>3 DEF Publishing
      <4>2. u # t /\ on[u] # on[t]
        BY <4>1, <1>1, <1>11 DEF AtWork
      <4>3. (Publishing(vms[n].of))'
        BY <3>1, <4>1, <4>2, <1>3, <1>6 DEF Publishing
      <4>4. vms[n].of \in Handles
        <5>1. vms[n] \in Machines /\ vms[n].of # Adapter
          BY <3>1, <2>1, VarsTyped
        <5> QED
          BY <5>1 DEF Machines
      <4>5. n <= ctxVM'[vms'[n].of]
        BY <3>1, <3>3, <4>1, <4>2, <4>4, <1>5
      <4> QED
        BY <4>3, <4>5
    <3>4. n <= ctxTree[vms[n].of] \/ (Publishing(vms[n].of) /\ n <= ctxVM[vms[n].of])
      BY <2>1, <3>1 DEF HostInv, EndedShown
    <3> QED
      BY <3>2, <3>3, <3>4
  <2> QED
    BY <2>1 DEF EndedShown
<1> QED
  BY <1>8, <1>10, <1>12, <1>15, <1>16, <1>17 DEF HostInv

LEMMA RunAppInv ==
  ASSUME HostInv, NEW t \in Threads, NEW program \in Programs, RunApp(t, program)
  PROVE  HostInv'
<1> DEFINE w == NewVM(program, Adapter)
           k == Len(vms) + 1
<1>1. pc[t] = "idle" /\ ~Busy(Adapter)
  BY DEF RunApp, Goto
<1>2. w \in Machines /\ w.of = Adapter /\ w.state = "running"
  BY HostAssumption DEF NewVM, Machines
<1>3. /\ vms' = Append(vms, w) /\ pc' = [pc EXCEPT ![t] = "run"] /\ activeVM' = k
      /\ on' = [on EXCEPT ![t] = Adapter] /\ in' = [in EXCEPT ![t] = k]
      /\ UNCHANGED <<handles, next, ctxVM, ctxTree>>
  BY DEF RunApp, Goto
<1>4. /\ vms' \in Seq(Machines) /\ k \in Nat /\ k \in DOMAIN vms' /\ vms'[k] = w
      /\ \A n \in DOMAIN vms : n \in DOMAIN vms' /\ vms'[n] = vms[n]
      /\ \A n \in DOMAIN vms' : n \in DOMAIN vms \/ n = k
  BY <1>2, <1>3, MadeVM
<1>5. \A u \in Threads : u # t => pc'[u] = pc[u] /\ on'[u] = on[u] /\ in'[u] = in[u]
  BY <1>3, VarsTyped
<1>6. pc'[t] = "run" /\ on'[t] = Adapter /\ in'[t] = k
  BY <1>3, VarsTyped
<1>7. HostTypeOK'
  <2>1. pc' \in [Threads -> HostPlaces]
    BY <1>3, VarsTyped DEF HostPlaces
  <2>2. on' \in [Threads -> Handles \cup {Adapter}] /\ in' \in [Threads -> Nat]
    BY <1>3, <1>4, VarsTyped
  <2> QED
    BY <2>1, <2>2, <1>3, <1>4 DEF HostInv, HostTypeOK
<1>8. \A u \in Threads : pc[u] \in AtWork => on[u] # Adapter
  BY <1>1 DEF Busy, AtWork
<1>9. OneAtWork'
  <2> SUFFICES ASSUME NEW u \in Threads, NEW v \in Threads,
                      pc'[u] \in AtWork, pc'[v] \in AtWork, on'[u] = on'[v]
      PROVE  u = v
    BY DEF OneAtWork
  <2>1. CASE u # t /\ v # t
    BY <2>1, <1>5 DEF HostInv, OneAtWork
  <2>2. CASE u = t \/ v = t
    BY <2>2, <1>5, <1>6, <1>8
  <2> QED
    BY <2>1, <2>2
<1>10. NewestHeld' /\ ActiveMade' /\ ShownEnded'
  BY <1>2, <1>3, <1>4 DEF HostInv, NewestHeld, ActiveMade, ShownEnded
<1>11. AtItsPlace(t)'
  BY <1>2, <1>4, <1>6 DEF AtItsPlace
<1>12. \A u \in Threads : u # t => AtItsPlace(u)'
  BY <1>3, <1>4, <1>5 DEF HostInv, AllPlaced, AtItsPlace, HoldsVM
<1>13. AllPlaced'
  BY <1>11, <1>12 DEF AllPlaced
<1>14. EndedShown'
  <2>1. ASSUME NEW n \in DOMAIN vms', vms'[n].state = "ended", vms'[n].of # Adapter
        PROVE  n <= ctxTree'[vms'[n].of] \/ ((Publishing(vms[n].of))' /\ n <= ctxVM'[vms'[n].of])
    <3>1. n \in DOMAIN vms /\ vms'[n] = vms[n]
      BY <2>1, <1>2, <1>4
    <3>2. n <= ctxTree[vms[n].of] \/ (Publishing(vms[n].of) /\ n <= ctxVM[vms[n].of])
      BY <2>1, <3>1 DEF HostInv, EndedShown
    <3>3. Publishing(vms[n].of) => (Publishing(vms[n].of))'
      BY <3>1, <1>1, <1>5 DEF Publishing
    <3> QED
      BY <3>1, <3>2, <3>3, <1>3
  <2> QED
    BY <2>1 DEF EndedShown
<1> QED
  BY <1>7, <1>9, <1>10, <1>13, <1>14 DEF HostInv

LEMMA PublishInv ==
  ASSUME HostInv, NEW t \in Threads, Publish(t)
  PROVE  HostInv'
<1> DEFINE h == on[t]
<1>1. pc[t] = "publish" /\ h \in Handles /\ HoldsVM(h, "ended")
  BY DEF Publish, Return, Goto, HostInv, AllPlaced, AtItsPlace
<1>2. /\ pc' = [pc EXCEPT ![t] = "idle"] /\ on' = [on EXCEPT ![t] = Adapter]
      /\ in' = [in EXCEPT ![t] = None]
      /\ ctxTree' = [ctxTree EXCEPT ![h] = ctxVM[h]]
      /\ UNCHANGED <<handles, next, ctxVM, activeVM, vms>>
  BY DEF Publish, Return, Goto
<1>3. \A u \in Threads : u # t => pc'[u] = pc[u] /\ on'[u] = on[u] /\ in'[u] = in[u]
  BY <1>2, VarsTyped
<1>4. pc'[t] = "idle"
  BY <1>2, VarsTyped
<1>5. /\ ctxTree' \in [Handles -> Nat] /\ ctxTree'[h] = ctxVM[h]
      /\ \A g \in Handles : g # h => ctxTree'[g] = ctxTree[g]
  BY <1>1, <1>2, VarsTyped
<1>6. HostTypeOK'
  <2>1. pc' \in [Threads -> HostPlaces] /\ None \in Nat
    BY <1>2, VarsTyped DEF HostPlaces, None
  <2>2. on' \in [Threads -> Handles \cup {Adapter}] /\ in' \in [Threads -> Nat]
    BY <2>1, <1>2, VarsTyped
  <2> QED
    BY <2>1, <2>2, <1>2, <1>5 DEF HostInv, HostTypeOK
<1>7. OneAtWork'
  BY <1>3, <1>4 DEF HostInv, OneAtWork, AtWork
<1>8. NewestHeld' /\ ActiveMade'
  BY <1>2 DEF HostInv, NewestHeld, ActiveMade
<1>9. ShownEnded'
  BY <1>1, <1>2, <1>5 DEF HostInv, ShownEnded, HoldsVM
<1>10. AtItsPlace(t)'
  BY <1>4 DEF AtItsPlace
<1>11. \A u \in Threads : u # t => AtItsPlace(u)'
  BY <1>2, <1>3 DEF HostInv, AllPlaced, AtItsPlace, HoldsVM
<1>12. AllPlaced'
  BY <1>10, <1>11 DEF AllPlaced
<1>13. EndedShown'
  <2>1. ASSUME NEW n \in DOMAIN vms, vms[n].state = "ended", vms[n].of # Adapter
        PROVE  n <= ctxTree'[vms[n].of] \/ ((Publishing(vms[n].of))' /\ n <= ctxVM[vms[n].of])
    <3>1. CASE vms[n].of = h
      BY <3>1, <2>1, <1>5 DEF HostInv, NewestHeld
    <3>2. CASE vms[n].of # h
      <4>1. vms[n].of \in Handles
        <5>1. vms[n] \in Machines
          BY VarsTyped
        <5> QED
          BY <5>1, <2>1 DEF Machines
      <4>2. n <= ctxTree[vms[n].of] \/ (Publishing(vms[n].of) /\ n <= ctxVM[vms[n].of])
        BY <2>1 DEF HostInv, EndedShown
      <4>3. ASSUME Publishing(vms[n].of) PROVE (Publishing(vms[n].of))'
        <5>1. PICK u \in Threads : on[u] = vms[n].of /\ pc[u] = "publish"
          BY <4>3 DEF Publishing
        <5>2. u # t
          BY <5>1, <3>2
        <5> QED
          BY <5>1, <5>2, <1>2, <1>3 DEF Publishing
      <4> QED
        BY <4>1, <4>2, <4>3, <3>2, <1>5
    <3> QED
      BY <3>1, <3>2
  <2> QED
    BY <2>1, <1>2 DEF EndedShown
<1> QED
  BY <1>6, <1>7, <1>8, <1>9, <1>12, <1>13 DEF HostInv

------------------------------------------------------------------------------

LEMMA HostNextInv == HostInv /\ [Next]_vars => HostInv'
<1> SUFFICES ASSUME HostInv, [Next]_vars PROVE HostInv'
  OBVIOUS
<1>1. CASE UNCHANGED vars
  BY <1>1 DEF vars, HostInv, HostTypeOK, OneAtWork, NewestHeld, AllPlaced, AtItsPlace, HoldsVM,
       ActiveMade, ShownEnded, EndedShown, Publishing
<1>2. CASE Next
  <2> SUFFICES ASSUME NEW t \in Threads,
        \/ CreateRuntime(t) \/ TouchAdapter(t) \/ Step(t)
        \/ \E h \in Handles : DestroyRuntime(t, h) \/ ExecuteBytecode(t, h) \/ DispatchTouchEvent(t, h)
        \/ \E program \in Programs : RunApp(t, program)
      PROVE HostInv'
    BY <1>2 DEF Next
  <2>1. CASE CreateRuntime(t) \/ \E h \in Handles : DestroyRuntime(t, h)
    BY <2>1, TablesInv
  <2>2. CASE TouchAdapter(t) \/ \E h \in Handles : ExecuteBytecode(t, h) \/ DispatchTouchEvent(t, h)
    BY <2>2, LocalActions
  <2>3. CASE \E program \in Programs : RunApp(t, program)
    BY <2>3, RunAppInv
  <2>4. CASE Step(t)
    BY <2>4, NewInv, LocalActions, ProgramSteps, PublishInv DEF Step
  <2> QED
    BY <2>1, <2>2, <2>3, <2>4
<1> QED
  BY <1>1, <1>2

\* However many goroutines run programs and touch trees, a context shows no
\* tree that is half built, or that an older program made.
THEOREM TreesShownWhole == Spec => []TreesWhole
<1>1. HostInv => TreesWhole
  BY InvWhole
<1> QED
  BY <1>1, HostInitInv, HostNextInv, PTL DEF Spec

\* A handler touched through a handle never runs beside its program.
THEOREM HandlersRunAfter == Spec => []HandlersAfterRun
<1>1. HostInv => HandlersAfterRun
  BY InvWhole
<1> QED
  BY <1>1, HostInitInv, HostNextInv, PTL DEF Spec

------------------------------------------------------------------------------
(* Signals                                                                 *)

\* What a listener has been called with, and what a setter has still to call.
Heard(l, n) == \E i \in DOMAIN seen[l] : seen[l][i] = n

InTodo(p, l) == \E i \in DOMAIN todo[p] : todo[p][i] = l

SignalTypeOK ==
  /\ sets \in 0..MaxSets /\ value = sets
  /\ listeners \in Seq(Listeners)
  /\ sub \in [Listeners -> {"never", "on", "off"}]
  /\ index \in [Listeners -> Nat]
  /\ parted \in [Listeners -> Nat]
  /\ val \in [Setters -> 0..MaxSets]
  /\ todo \in [Setters -> Seq(Listeners)]
  /\ built \in [Setters -> 0..NotBuilt]
  /\ seen \in [Listeners -> Seq(1..MaxSets)]
  /\ due \in [1..MaxSets -> SUBSET Listeners]
  /\ beside \in [1..MaxSets -> BOOLEAN]
  /\ tree \in 0..MaxSets /\ shown \in 0..MaxSets

\* Each subscribed listener is in the list at the place its index says, and
\* nobody else is: so the newest is the last, and leaving moves no one.
Placed ==
  /\ \A l \in Listeners : sub[l] = "on" =>
       index[l] \in DOMAIN listeners /\ listeners[index[l]] = l
  /\ \A i \in DOMAIN listeners : sub[listeners[i]] = "on" /\ index[listeners[i]] = i

\* A setter that has listeners to call has a value of its own for them, and
\* calls each of them once.
Calling ==
  /\ \A p \in Setters : val[p] <= sets /\ (todo[p] # <<>> => val[p] # 0)
  /\ \A p, q \in Setters : val[p] = val[q] /\ val[p] # 0 => p = q
  /\ \A p \in Setters : \A i, j \in DOMAIN todo[p] : todo[p][i] = todo[p][j] => i = j

\* Who is due a value has heard it or will, not both; nobody else hears it.
Delivery ==
  /\ \A l \in Listeners : \A i \in DOMAIN seen[l] : seen[l][i] <= sets
  /\ \A l \in Listeners : \A i, j \in DOMAIN seen[l] : seen[l][i] = seen[l][j] => i = j
  /\ \A l \in Listeners, n \in 1..sets : Heard(l, n) => l \in due[n]
  /\ \A l \in Listeners, p \in Setters : InTodo(p, l) =>
       l \in due[val[p]] /\ ~Heard(l, val[p])
  /\ \A n \in 1..sets : \A l \in due[n] :
       Heard(l, n) \/ \E p \in Setters : val[p] = n /\ InTodo(p, l)

\* What was stored after an owner unsubscribed is not due to its listener.
Parting ==
  \A l \in Listeners : sub[l] = "off" => \A n \in 1..sets : l \in due[n] => n <= parted[l]

\* A rebuilt tree is no older than the value its setter stored, and the setter
\* has the component's call in hand.
Building ==
  \A p \in Setters : built[p] # NotBuilt =>
    /\ built[p] \in val[p]..sets
    /\ todo[p] # <<>> /\ Head(todo[p]) = Component

\* What the component was called with, or newer, has been on the screen.
Showing == \A n \in 1..sets : Component \in Listeners /\ Heard(Component, n) => shown >= n

\* After a value that was stored with no rebuild in hand every rebuild is as new
\* as it, and so is the tree once the component was called with it.
Following ==
  \A n \in 1..sets : beside[n] = FALSE =>
    /\ \A p \in Setters : built[p] # NotBuilt => built[p] >= n
    /\ Component \in Listeners /\ Heard(Component, n) => tree >= n

SignalInv ==
  /\ SignalTypeOK /\ Placed /\ Calling /\ Delivery /\ Parting
  /\ Building /\ Showing /\ Following

LEMMA TimesOnce ==
  ASSUME NEW s, NEW x, \A i, j \in DOMAIN s : s[i] = x /\ s[j] = x => i = j
  PROVE  Times(x, s) = IF \E i \in DOMAIN s : s[i] = x THEN 1 ELSE 0
<1>1. CASE \E i \in DOMAIN s : s[i] = x
  <2>1. PICK i \in DOMAIN s : s[i] = x
    BY <1>1
  <2>2. {j \in DOMAIN s : s[j] = x} = {i}
    BY <2>1
  <2>3. Times(x, s) = 1
    BY <2>2, FS_Singleton DEF Times
  <2>4. QED
    BY <1>1, <2>3
<1>2. CASE ~\E i \in DOMAIN s : s[i] = x
  <2>1. {j \in DOMAIN s : s[j] = x} = {}
    BY <1>2
  <2>2. Times(x, s) = 0
    BY <2>1, FS_EmptySet DEF Times
  <2>3. QED
    BY <1>2, <2>2
<1>3. QED
  BY <1>1, <1>2

LEMMA AppendFacts ==
  ASSUME NEW S, NEW s \in Seq(S), NEW a \in S
  PROVE  /\ DOMAIN Append(s, a) = 1..(Len(s) + 1) /\ DOMAIN s = 1..Len(s) /\ Len(s) \in Nat
         /\ \A i \in 1..Len(s) : Append(s, a)[i] = s[i]
         /\ Append(s, a)[Len(s) + 1] = a
         /\ \A i \in 1..(Len(s) + 1) : i \in 1..Len(s) \/ i = Len(s) + 1
         /\ 1..Len(s) \subseteq 1..(Len(s) + 1) /\ Len(s) + 1 \in 1..(Len(s) + 1)
         /\ Append(s, a) \in Seq(S)
<1>1. /\ DOMAIN Append(s, a) = 1..(Len(s) + 1) /\ DOMAIN s = 1..Len(s) /\ Len(s) \in Nat
      /\ \A i \in 1..Len(s) : Append(s, a)[i] = s[i]
      /\ Append(s, a)[Len(s) + 1] = a
      /\ Append(s, a) \in Seq(S)
  OBVIOUS
<1>2. QED
  BY <1>1

LEMMA TailFacts ==
  ASSUME NEW S, NEW s \in Seq(S), s # <<>>
  PROVE  /\ Tail(s) \in Seq(S) /\ DOMAIN Tail(s) = 1..(Len(s) - 1) /\ DOMAIN s = 1..Len(s)
         /\ Len(s) \in Nat \ {0} /\ Head(s) = s[1] /\ Head(s) \in S
         /\ \A i \in 1..(Len(s) - 1) : Tail(s)[i] = s[i + 1] /\ i + 1 \in 1..Len(s)
         /\ \A i \in 1..Len(s) : i = 1 \/ (i - 1 \in 1..(Len(s) - 1) /\ Tail(s)[i - 1] = s[i])
<1>1. /\ Tail(s) \in Seq(S) /\ DOMAIN Tail(s) = 1..(Len(s) - 1) /\ DOMAIN s = 1..Len(s)
      /\ Len(s) \in Nat \ {0} /\ Head(s) = s[1] /\ Head(s) \in S
      /\ \A i \in 1..(Len(s) - 1) : Tail(s)[i] = s[i + 1]
  OBVIOUS
<1>2. ASSUME NEW i \in 1..Len(s), i # 1
      PROVE  i - 1 \in 1..(Len(s) - 1) /\ Tail(s)[i - 1] = s[i]
  <2>1. i - 1 \in 1..(Len(s) - 1) /\ (i - 1) + 1 = i
    BY <1>1, <1>2
  <2>2. QED
    BY <1>1, <2>1
<1>3. QED
  BY <1>1, <1>2

\* The last of a sequence removed.
LEMMA RemoveLast ==
  ASSUME NEW S, NEW s \in Seq(S), Len(s) # 0
  PROVE  /\ RemoveAt(s, Len(s)) \in Seq(S)
         /\ DOMAIN RemoveAt(s, Len(s)) = 1..(Len(s) - 1)
         /\ \A i \in 1..(Len(s) - 1) : RemoveAt(s, Len(s))[i] = s[i]
<1> DEFINE n == Len(s)
           t == SubSeq(s, 1, n - 1)
<1>1. n \in Nat \ {0}
  OBVIOUS
<1>2. t \in Seq(S) /\ Len(t) = n - 1 /\ \A i \in 1..(n - 1) : t[i] = s[i]
  <2>1. \A i \in 1..(n - 1) : s[i] \in S
    BY <1>1
  <2>2. /\ t \in Seq(S)
        /\ Len(t) = IF 1 <= n - 1 THEN n - 1 - 1 + 1 ELSE 0
        /\ \A i \in 1..(n - 1 - 1 + 1) : t[i] = s[1 + i - 1]
    BY <1>1, <2>1, SubSeqProperties
  <2> HIDE DEF n, t
  <2>3. n - 1 - 1 + 1 = n - 1 /\ (~(1 <= n - 1) => n - 1 = 0)
    BY <1>1
  <2>4. \A i \in 1..(n - 1) : 1 + i - 1 = i
    BY <1>1
  <2>5. QED
    BY <2>2, <2>3, <2>4
<1>3. SubSeq(s, n + 1, n) = <<>>
  BY <1>1
<1>4. t \o <<>> = t
  BY <1>2
<1>5. RemoveAt(s, Len(s)) = t
  BY <1>3, <1>4 DEF RemoveAt
<1>6. QED
  BY <1>1, <1>2, <1>5

------------------------------------------------------------------------------
(* The initial state and the steps                                         *)

LEMMA SignalInvInit == MaxSets \in Nat /\ SignalInit => SignalInv
<1> SUFFICES ASSUME MaxSets \in Nat, SignalInit PROVE SignalInv
  OBVIOUS
<1>1. SignalTypeOK
  BY DEF SignalInit, SignalTypeOK, NotBuilt
<1>2. Placed /\ Calling /\ Parting /\ Building
  BY DEF SignalInit, Placed, Calling, Parting, Building
<1>3. Delivery /\ Showing /\ Following
  BY DEF SignalInit, Delivery, Showing, Following, Heard, InTodo
<1>4. QED
  BY <1>1, <1>2, <1>3 DEF SignalInv

\* Steps that touch the subscriptions alone.
LEMMA CallsKept ==
  ASSUME Calling, Delivery, Building, Showing, Following,
         UNCHANGED <<value, sets, val, todo, built, tree, seen, due, beside, shown>>
  PROVE  Calling' /\ Delivery' /\ Building' /\ Showing' /\ Following'
<1>1. \A l \in Listeners, n \in 1..sets : Heard(l, n)' <=> Heard(l, n)
  BY DEF Heard
<1>2. \A p \in Setters : \A l : InTodo(p, l)' <=> InTodo(p, l)
  BY DEF InTodo
<1>3. Calling' /\ Building'
  BY DEF Calling, Building
<1>4. Delivery' /\ Showing'
  BY DEF Delivery, Showing, Heard, InTodo
<1>5. Following'
  BY DEF Following, Heard
<1>6. QED
  BY <1>3, <1>4, <1>5

LEMMA SubscribeInv ==
  ASSUME MaxSets \in Nat, SignalInv, NEW l \in Listeners, Subscribe(l)
  PROVE  SignalInv'
<1>1. SignalTypeOK /\ Placed /\ Calling /\ Delivery /\ Parting /\ Building /\ Showing /\ Following
  BY DEF SignalInv
<1>2. /\ sub[l] = "never" /\ sub' = [sub EXCEPT ![l] = "on"]
      /\ listeners' = Append(listeners, l)
      /\ index' = [index EXCEPT ![l] = Len(listeners) + 1]
      /\ UNCHANGED <<value, sets, val, todo, built, tree, seen, due, beside, shown, parted>>
  BY DEF Subscribe
<1>3. Calling' /\ Delivery' /\ Building' /\ Showing' /\ Following'
  BY <1>1, <1>2, CallsKept
<1>4. /\ DOMAIN listeners' = 1..(Len(listeners) + 1) /\ DOMAIN listeners = 1..Len(listeners)
      /\ \A i \in 1..Len(listeners) : listeners'[i] = listeners[i]
      /\ listeners'[Len(listeners) + 1] = l
      /\ \A i \in 1..(Len(listeners) + 1) : i \in 1..Len(listeners) \/ i = Len(listeners) + 1
      /\ 1..Len(listeners) \subseteq 1..(Len(listeners) + 1)
      /\ Len(listeners) + 1 \in 1..(Len(listeners) + 1)
      /\ listeners' \in Seq(Listeners) /\ Len(listeners) \in Nat
  BY <1>1, <1>2, AppendFacts DEF SignalTypeOK
<1>5. SignalTypeOK'
  BY <1>1, <1>2, <1>4 DEF SignalTypeOK
<1>6. /\ sub'[l] = "on" /\ index'[l] = Len(listeners) + 1
      /\ \A k \in Listeners : k # l => sub'[k] = sub[k] /\ index'[k] = index[k]
  BY <1>1, <1>2 DEF SignalTypeOK
<1>7. Placed'
  <2>1. ASSUME NEW k \in Listeners, sub'[k] = "on"
        PROVE  index'[k] \in DOMAIN listeners' /\ listeners'[index'[k]] = k
    <3>1. CASE k = l
      BY <1>4, <1>6, <3>1
    <3>2. CASE k # l
      BY <1>1, <1>4, <1>6, <2>1, <3>2 DEF Placed
    <3>3. QED
      BY <3>1, <3>2
  <2>2. ASSUME NEW i \in DOMAIN listeners'
        PROVE  sub'[listeners'[i]] = "on" /\ index'[listeners'[i]] = i
    <3>1. CASE i = Len(listeners) + 1
      BY <1>4, <1>6, <3>1
    <3>2. CASE i \in 1..Len(listeners)
      <4>1. listeners[i] \in Listeners /\ sub[listeners[i]] = "on" /\ index[listeners[i]] = i
        BY <1>1, <1>4, <3>2 DEF Placed, SignalTypeOK
      <4>2. listeners[i] # l
        BY <1>2, <4>1
      <4>3. QED
        BY <1>4, <1>6, <3>2, <4>1, <4>2
    <3>3. QED
      BY <1>4, <2>2, <3>1, <3>2
  <2>3. QED
    BY <2>1, <2>2 DEF Placed
<1>8. Parting'
  BY <1>1, <1>2, <1>6 DEF Parting
<1>9. QED
  BY <1>3, <1>5, <1>7, <1>8 DEF SignalInv

\* The newest subscription is the last in the list, and leaves its end.
LEMMA UnsubscribeInv ==
  ASSUME MaxSets \in Nat, LastFirst, SignalInv, NEW l \in Listeners, Unsubscribe(l)
  PROVE  SignalInv'
<1>1. SignalTypeOK /\ Placed /\ Calling /\ Delivery /\ Parting /\ Building /\ Showing /\ Following
  BY DEF SignalInv
<1>2. /\ sub[l] = "on" /\ sub' = [sub EXCEPT ![l] = "off"]
      /\ \A k \in Listeners : sub[k] = "on" => index[k] <= index[l]
      /\ listeners' = IF index[l] <= Len(listeners)
                      THEN RemoveAt(listeners, index[l]) ELSE listeners
      /\ parted' = [parted EXCEPT ![l] = sets]
      /\ UNCHANGED <<value, sets, index, val, todo, built, tree, seen, due, beside, shown>>
  BY DEF Unsubscribe, Newest
<1>3. Calling' /\ Delivery' /\ Building' /\ Showing' /\ Following'
  BY <1>1, <1>2, CallsKept
<1>4. /\ DOMAIN listeners = 1..Len(listeners) /\ Len(listeners) \in Nat
      /\ listeners \in Seq(Listeners)
      /\ \A i \in 1..Len(listeners) : listeners[i] \in Listeners
  BY <1>1 DEF SignalTypeOK
<1>5. index[l] = Len(listeners) /\ Len(listeners) # 0
  <2>1. index[l] \in 1..Len(listeners)
    BY <1>1, <1>2, <1>4 DEF Placed
  <2>2. Len(listeners) \in 1..Len(listeners)
    BY <1>4, <2>1
  <2>3. sub[listeners[Len(listeners)]] = "on" /\ index[listeners[Len(listeners)]] = Len(listeners)
    BY <1>1, <1>4, <2>2 DEF Placed
  <2>4. Len(listeners) <= index[l]
    BY <1>2, <1>4, <2>2, <2>3
  <2>5. QED
    BY <1>4, <2>1, <2>4
<1>6. /\ listeners' \in Seq(Listeners)
      /\ DOMAIN listeners' = 1..(Len(listeners) - 1)
      /\ \A i \in 1..(Len(listeners) - 1) : listeners'[i] = listeners[i] /\ i \in 1..Len(listeners)
  <2>1. listeners' = RemoveAt(listeners, Len(listeners))
    BY <1>2, <1>4, <1>5
  <2>2. QED
    BY <1>4, <1>5, <2>1, RemoveLast
<1>7. SignalTypeOK'
  BY <1>1, <1>2, <1>6 DEF SignalTypeOK
<1>8. /\ sub'[l] = "off" /\ index' = index
      /\ \A k \in Listeners : k # l => sub'[k] = sub[k]
  BY <1>1, <1>2 DEF SignalTypeOK
<1>9. Placed'
  <2>1. ASSUME NEW k \in Listeners, sub'[k] = "on"
        PROVE  index[k] \in DOMAIN listeners' /\ listeners'[index[k]] = k
    <3>1. k # l /\ sub[k] = "on"
      BY <1>8, <2>1
    <3>2. index[k] \in 1..Len(listeners) /\ listeners[index[k]] = k /\ listeners[index[l]] = l
      BY <1>1, <1>2, <1>4, <3>1 DEF Placed
    <3>3. index[k] # Len(listeners)
      BY <1>5, <3>1, <3>2
    <3>4. index[k] \in 1..(Len(listeners) - 1)
      BY <1>4, <3>2, <3>3
    <3>5. QED
      BY <1>6, <3>2, <3>4
  <2>2. ASSUME NEW i \in DOMAIN listeners'
        PROVE  sub'[listeners'[i]] = "on" /\ index[listeners'[i]] = i
    <3>1. i \in 1..Len(listeners) /\ i # Len(listeners) /\ listeners'[i] = listeners[i]
      BY <1>4, <1>6, <2>2
    <3>2. sub[listeners[i]] = "on" /\ index[listeners[i]] = i /\ listeners[i] \in Listeners
      BY <1>1, <1>4, <3>1 DEF Placed
    <3>3. listeners[i] # l
      BY <1>5, <3>1, <3>2
    <3>4. QED
      BY <1>8, <3>1, <3>2, <3>3
  <2>3. QED
    BY <1>8, <2>1, <2>2 DEF Placed
<1>10. Parting'
  <2> SUFFICES ASSUME NEW k \in Listeners, sub'[k] = "off", NEW n \in 1..sets, k \in due[n]
               PROVE  n <= parted'[k]
    BY <1>2 DEF Parting
  <2>1. CASE k = l
    BY <1>1, <1>2, <2>1 DEF SignalTypeOK
  <2>2. CASE k # l
    BY <1>1, <1>2, <1>8, <2>2 DEF Parting, SignalTypeOK
  <2>3. QED
    BY <2>1, <2>2
<1>11. QED
  BY <1>3, <1>7, <1>9, <1>10 DEF SignalInv

\* Set copies the list: who is due the new value is who is in the copy.
LEMMA SetStoreInv ==
  ASSUME MaxSets \in Nat, SignalInv, NEW p \in Setters, SetStore(p)
  PROVE  SignalInv'
<1>1. SignalTypeOK /\ Placed /\ Calling /\ Delivery /\ Parting /\ Building /\ Showing /\ Following
  BY DEF SignalInv
<1>2. /\ todo[p] = <<>> /\ sets < MaxSets /\ sets' = sets + 1 /\ value' = sets + 1
      /\ val' = [val EXCEPT ![p] = sets + 1]
      /\ todo' = [todo EXCEPT ![p] = listeners]
      /\ due' = [due EXCEPT ![sets + 1] = {l \in Listeners : sub[l] = "on"}]
      /\ beside' = [beside EXCEPT ![sets + 1] = \E q \in Setters : built[q] # NotBuilt]
      /\ UNCHANGED <<listeners, index, sub, parted, built, tree, seen, shown>>
  BY DEF SetStore, Idle, subVars
<1>3. /\ sets \in Nat /\ sets + 1 \in 1..MaxSets
      /\ \A n \in 1..(sets + 1) : n \in 1..sets \/ n = sets + 1
      /\ \A n \in 1..sets : n # sets + 1 /\ n \in 1..MaxSets /\ n \in 1..(sets + 1)
  BY <1>1, <1>2 DEF SignalTypeOK
<1>4. /\ val'[p] = sets + 1 /\ todo'[p] = listeners
      /\ \A q \in Setters : q # p => val'[q] = val[q] /\ todo'[q] = todo[q]
      /\ due'[sets + 1] = {l \in Listeners : sub[l] = "on"}
      /\ \A n \in 1..sets : due'[n] = due[n]
      /\ beside'[sets + 1] = FALSE => \A q \in Setters : built[q] = NotBuilt
      /\ \A n \in 1..sets : beside'[n] = beside[n]
  BY <1>1, <1>2, <1>3 DEF SignalTypeOK
<1>5. SignalTypeOK'
  <2>1. (\E q \in Setters : built[q] # NotBuilt) \in BOOLEAN
    OBVIOUS
  <2>2. beside' \in [1..MaxSets -> BOOLEAN]
    BY <1>1, <1>2, <1>3, <2>1 DEF SignalTypeOK
  <2>3. /\ sets' = sets + 1 /\ value' = sets + 1
        /\ val' = [val EXCEPT ![p] = sets + 1]
        /\ todo' = [todo EXCEPT ![p] = listeners]
        /\ due' = [due EXCEPT ![sets + 1] = {l \in Listeners : sub[l] = "on"}]
        /\ UNCHANGED <<listeners, index, sub, parted, built, tree, seen, shown>>
    BY <1>2
  <2>4. QED
    BY <1>1, <1>3, <2>2, <2>3 DEF SignalTypeOK
<1>6. Placed'
  BY <1>1, <1>2 DEF Placed
<1>7. \A q \in Setters : val[q] \in 0..sets /\ val[q] # sets + 1
  BY <1>1, <1>3 DEF Calling, SignalTypeOK
<1>8. Calling'
  <2>1. \A q \in Setters : val'[q] <= sets' /\ (todo'[q] # <<>> => val'[q] # 0)
    BY <1>1, <1>2, <1>3, <1>4, <1>7 DEF Calling
  <2>2. \A q, r \in Setters : val'[q] = val'[r] /\ val'[q] # 0 => q = r
    BY <1>1, <1>4, <1>7 DEF Calling
  <2>3. \A i, j \in DOMAIN listeners : listeners[i] = listeners[j] => i = j
    BY <1>1 DEF Placed
  <2>4. \A q \in Setters : \A i, j \in DOMAIN todo'[q] : todo'[q][i] = todo'[q][j] => i = j
    BY <1>1, <1>4, <2>3 DEF Calling
  <2>5. QED
    BY <2>1, <2>2, <2>4 DEF Calling
<1>9. /\ \A l \in Listeners : \A n : Heard(l, n)' <=> Heard(l, n)
      /\ \A l \in Listeners : ~Heard(l, sets + 1)
  BY <1>1, <1>2, <1>3 DEF Heard, Delivery, SignalTypeOK
<1>10. /\ \A q \in Setters : \A l : q # p => (InTodo(q, l)' <=> InTodo(q, l))
       /\ \A l : ~InTodo(p, l)
       /\ \A l \in Listeners : InTodo(p, l)' <=> sub[l] = "on"
  <2>1. \A l : ~InTodo(p, l)
    BY <1>2 DEF InTodo
  <2>2. \A q \in Setters : \A l : q # p => (InTodo(q, l)' <=> InTodo(q, l))
    BY <1>4 DEF InTodo
  <2>3. \A l \in Listeners : (\E i \in DOMAIN listeners : listeners[i] = l) <=> sub[l] = "on"
    BY <1>1 DEF Placed
  <2>4. \A l : InTodo(p, l)' <=> \E i \in DOMAIN listeners : listeners[i] = l
    BY <1>4 DEF InTodo
  <2>5. QED
    BY <2>1, <2>2, <2>3, <2>4
<1>11. Delivery'
  <2>1. /\ \A l \in Listeners : \A i \in DOMAIN seen[l] : seen[l][i] <= sets + 1
        /\ \A l \in Listeners : \A i, j \in DOMAIN seen[l] : seen[l][i] = seen[l][j] => i = j
    <3>1. \A l \in Listeners : \A i \in DOMAIN seen[l] : seen[l][i] \in Nat /\ seen[l][i] <= sets
      BY <1>1 DEF Delivery, SignalTypeOK
    <3>2. QED
      BY <1>1, <1>3, <3>1 DEF Delivery
  <2>2. ASSUME NEW l \in Listeners, NEW n \in 1..(sets + 1), Heard(l, n) PROVE l \in due'[n]
    BY <1>1, <1>3, <1>4, <1>9, <2>2 DEF Delivery
  <2>3. ASSUME NEW l \in Listeners, NEW q \in Setters, InTodo(q, l)'
        PROVE  l \in due'[val'[q]] /\ ~Heard(l, val'[q])
    <3>1. CASE q = p
      BY <1>4, <1>9, <1>10, <2>3, <3>1
    <3>2. CASE q # p
      <4>1. InTodo(q, l) /\ val'[q] = val[q]
        BY <1>4, <1>10, <2>3, <3>2
      <4>2. val[q] \in 1..sets
        BY <1>1, <1>7, <4>1 DEF Calling, InTodo
      <4>3. QED
        BY <1>1, <1>4, <4>1, <4>2 DEF Delivery
    <3>3. QED
      BY <3>1, <3>2
  <2>4. ASSUME NEW n \in 1..(sets + 1), NEW l \in due'[n]
        PROVE  Heard(l, n) \/ \E q \in Setters : val'[q] = n /\ InTodo(q, l)'
    <3>1. CASE n = sets + 1
      BY <1>4, <1>10, <2>4, <3>1
    <3>2. CASE n \in 1..sets
      <4>1. l \in due[n]
        BY <1>4, <2>4, <3>2
      <4>2. Heard(l, n) \/ \E q \in Setters : val[q] = n /\ InTodo(q, l)
        BY <1>1, <3>2, <4>1 DEF Delivery
      <4>3. QED
        BY <1>4, <1>10, <4>2
    <3>3. QED
      BY <1>3, <3>1, <3>2
  <2>6. QED
    BY <1>2, <1>9, <2>1, <2>2, <2>3, <2>4, <1>5 DEF Delivery, SignalTypeOK
<1>12. Parting'
  BY <1>1, <1>2, <1>3, <1>4 DEF Parting
<1>13. Building'
  <2> SUFFICES ASSUME NEW q \in Setters, built[q] # NotBuilt
               PROVE  /\ built[q] \in val'[q]..(sets + 1)
                      /\ todo'[q] # <<>> /\ Head(todo'[q]) = Component
    BY <1>2 DEF Building
  <2>1. built[q] \in val[q]..sets /\ todo[q] # <<>> /\ Head(todo[q]) = Component
    BY <1>1 DEF Building
  <2>2. q # p
    BY <1>2, <2>1
  <2>3. built[q] \in val[q]..(sets + 1)
    BY <1>3, <1>7, <2>1
  <2>4. QED
    BY <1>4, <2>1, <2>2, <2>3
<1>14. Showing'
  BY <1>1, <1>2, <1>3, <1>9 DEF Showing
<1>15. Following'
  <2> SUFFICES ASSUME NEW n \in 1..(sets + 1), beside'[n] = FALSE
               PROVE  /\ \A q \in Setters : built[q] # NotBuilt => built[q] >= n
                      /\ Component \in Listeners /\ Heard(Component, n) => tree >= n
    BY <1>2, <1>9 DEF Following
  <2>1. CASE n = sets + 1
    BY <1>4, <1>9, <2>1
  <2>2. CASE n \in 1..sets
    BY <1>1, <1>4, <2>2 DEF Following
  <2>3. QED
    BY <1>3, <2>1, <2>2
<1>16. QED
  BY <1>5, <1>6, <1>8, <1>11, <1>12, <1>13, <1>14, <1>15 DEF SignalInv

\* A listener is called: it has heard the value and is off the setter's list.
LEMMA CalledFacts ==
  ASSUME SignalTypeOK, Calling, NEW p \in Setters, todo[p] # <<>>, Called(p)
  PROVE  /\ todo' \in [Setters -> Seq(Listeners)]
         /\ seen' \in [Listeners -> Seq(1..MaxSets)]
         /\ Head(todo[p]) \in Listeners /\ InTodo(p, Head(todo[p])) /\ val[p] \in 1..sets
         /\ \A q \in Setters : q # p => todo'[q] = todo[q]
         /\ todo'[p] = Tail(todo[p])
         /\ \A l \in Listeners : l # Head(todo[p]) => seen'[l] = seen[l]
         /\ seen'[Head(todo[p])] = Append(seen[Head(todo[p])], val[p])
         /\ \A l \in Listeners : \A n : Heard(l, n)' <=> Heard(l, n) \/ (l = Head(todo[p]) /\ n = val[p])
         /\ \A q \in Setters : \A l : InTodo(q, l)' <=> InTodo(q, l) /\ ~(q = p /\ l = Head(todo[p]))
<1> DEFINE h == Head(todo[p])
<1>1. /\ todo[p] \in Seq(Listeners) /\ todo[p] # <<>>
      /\ val[p] \in 1..MaxSets /\ val[p] \in 1..sets
  BY DEF SignalTypeOK, Calling
<1>2. /\ h \in Listeners /\ h = todo[p][1] /\ Tail(todo[p]) \in Seq(Listeners)
      /\ DOMAIN todo[p] = 1..Len(todo[p]) /\ DOMAIN Tail(todo[p]) = 1..(Len(todo[p]) - 1)
      /\ Len(todo[p]) \in Nat \ {0} /\ 1 \in 1..Len(todo[p])
      /\ \A i \in 1..(Len(todo[p]) - 1) :
           Tail(todo[p])[i] = todo[p][i + 1] /\ i + 1 \in 1..Len(todo[p]) /\ i + 1 # 1
      /\ \A i \in 1..Len(todo[p]) :
           i = 1 \/ (i - 1 \in 1..(Len(todo[p]) - 1) /\ Tail(todo[p])[i - 1] = todo[p][i])
  BY <1>1, TailFacts
<1>3. InTodo(p, h)
  BY <1>2 DEF InTodo
<1>4. /\ todo' = [todo EXCEPT ![p] = Tail(@)] /\ seen' = [seen EXCEPT ![h] = Append(@, val[p])]
      /\ seen \in [Listeners -> Seq(1..MaxSets)] /\ todo \in [Setters -> Seq(Listeners)]
  BY DEF Called, SignalTypeOK
<1>5. /\ todo'[p] = Tail(todo[p]) /\ \A q \in Setters : q # p => todo'[q] = todo[q]
      /\ seen'[h] = Append(seen[h], val[p]) /\ \A l \in Listeners : l # h => seen'[l] = seen[l]
  BY <1>2, <1>4
<1>6. seen[h] \in Seq(1..MaxSets) /\ Append(seen[h], val[p]) \in Seq(1..MaxSets)
  BY <1>1, <1>2, <1>4, AppendFacts
<1>7. todo' \in [Setters -> Seq(Listeners)] /\ seen' \in [Listeners -> Seq(1..MaxSets)]
  BY <1>2, <1>4, <1>6
<1>8. ASSUME NEW l \in Listeners, NEW n
      PROVE  Heard(l, n)' <=> Heard(l, n) \/ (l = h /\ n = val[p])
  <2>1. CASE l = h
    <3>1. (\E i \in DOMAIN Append(seen[h], val[p]) : Append(seen[h], val[p])[i] = n)
            <=> (\E i \in DOMAIN seen[h] : seen[h][i] = n) \/ n = val[p]
      <4> DEFINE s == seen[h]
                 t == Append(s, val[p])
      <4>a. s \in Seq(1..MaxSets) /\ val[p] \in 1..MaxSets
        BY <1>1, <1>6
      <4> HIDE DEF s
      <4>1. /\ DOMAIN t = 1..(Len(s) + 1) /\ DOMAIN s = 1..Len(s)
            /\ \A i \in 1..Len(s) : t[i] = s[i]
            /\ t[Len(s) + 1] = val[p]
            /\ \A i \in 1..(Len(s) + 1) : i \in 1..Len(s) \/ i = Len(s) + 1
            /\ 1..Len(s) \subseteq 1..(Len(s) + 1) /\ Len(s) + 1 \in 1..(Len(s) + 1)
        BY <4>a, AppendFacts
      <4> HIDE DEF s, t
      <4>2. (\E i \in DOMAIN t : t[i] = n) <=> (\E i \in DOMAIN s : s[i] = n) \/ n = val[p]
        BY <4>1
      <4>3. QED
        BY <4>2 DEF s, t
    <3>2. QED
      BY <1>5, <2>1, <3>1 DEF Heard
  <2>2. CASE l # h
    BY <1>5, <2>2 DEF Heard
  <2>3. QED
    BY <2>1, <2>2
<1>9. ASSUME NEW q \in Setters, NEW l
      PROVE  InTodo(q, l)' <=> InTodo(q, l) /\ ~(q = p /\ l = h)
  <2>1. CASE q = p
    <3>1. \A i, j \in DOMAIN todo[p] : todo[p][i] = todo[p][j] => i = j
      BY DEF Calling
    <3>2. (\E i \in DOMAIN Tail(todo[p]) : Tail(todo[p])[i] = l)
            <=> (\E i \in DOMAIN todo[p] : todo[p][i] = l) /\ l # h
      <4>1. ASSUME NEW i \in 1..(Len(todo[p]) - 1)
            PROVE  i + 1 \in 1..Len(todo[p]) /\ todo[p][i + 1] = Tail(todo[p])[i] /\ Tail(todo[p])[i] # h
        <5>1. i + 1 \in 1..Len(todo[p]) /\ i + 1 # 1 /\ Tail(todo[p])[i] = todo[p][i + 1]
          BY <1>2
        <5>2. QED
          BY <1>2, <3>1, <5>1
      <4>2. ASSUME NEW i \in 1..Len(todo[p]), todo[p][i] # h
            PROVE  i - 1 \in 1..(Len(todo[p]) - 1) /\ Tail(todo[p])[i - 1] = todo[p][i]
        BY <1>2, <4>2
      <4>3. ASSUME NEW i \in DOMAIN Tail(todo[p]), Tail(todo[p])[i] = l
            PROVE  (\E j \in DOMAIN todo[p] : todo[p][j] = l) /\ l # h
        BY <1>2, <4>1, <4>3
      <4>4. ASSUME NEW i \in DOMAIN todo[p], todo[p][i] = l, l # h
            PROVE  \E j \in DOMAIN Tail(todo[p]) : Tail(todo[p])[j] = l
        BY <1>2, <4>2, <4>4
      <4>5. QED
        BY <4>3, <4>4
    <3>3. QED
      BY <1>5, <2>1, <3>2 DEF InTodo
  <2>2. CASE q # p
    BY <1>5, <2>2 DEF InTodo
  <2>3. QED
    BY <2>1, <2>2
<1>10. QED
  BY <1>1, <1>2, <1>3, <1>5, <1>7, <1>8, <1>9

LEMMA CalledDelivery ==
  ASSUME MaxSets \in Nat, SignalTypeOK, Calling, Delivery,
         NEW p \in Setters, todo[p] # <<>>, Called(p), UNCHANGED <<sets, val, due>>
  PROVE  Calling' /\ Delivery'
<1> DEFINE h == Head(todo[p])
<1>1. /\ h \in Listeners /\ InTodo(p, h) /\ val[p] \in 1..sets
      /\ \A q \in Setters : q # p => todo'[q] = todo[q]
      /\ todo'[p] = Tail(todo[p])
      /\ \A l \in Listeners : l # h => seen'[l] = seen[l]
      /\ seen'[h] = Append(seen[h], val[p])
  BY CalledFacts
<1>2. /\ \A l \in Listeners : \A n : Heard(l, n)' <=> Heard(l, n) \/ (l = h /\ n = val[p])
      /\ \A q \in Setters : \A l : InTodo(q, l)' <=> InTodo(q, l) /\ ~(q = p /\ l = h)
  BY CalledFacts
<1>3. ~Heard(h, val[p]) /\ h \in due[val[p]]
  BY <1>1 DEF Delivery
<1>4. Calling'
  <2>1. todo[p] \in Seq(Listeners)
    BY DEF SignalTypeOK
  <2>2. /\ DOMAIN Tail(todo[p]) = 1..(Len(todo[p]) - 1) /\ DOMAIN todo[p] = 1..Len(todo[p])
        /\ Len(todo[p]) \in Nat \ {0}
        /\ \A i \in 1..(Len(todo[p]) - 1) : Tail(todo[p])[i] = todo[p][i + 1] /\ i + 1 \in 1..Len(todo[p])
    BY <2>1, TailFacts
  <2>3. \A i, j \in DOMAIN todo[p] : todo[p][i] = todo[p][j] => i = j
    BY DEF Calling
  <2>4. \A i, j \in DOMAIN Tail(todo[p]) : Tail(todo[p])[i] = Tail(todo[p])[j] => i = j
    <3> SUFFICES ASSUME NEW i \in 1..(Len(todo[p]) - 1), NEW j \in 1..(Len(todo[p]) - 1),
                        Tail(todo[p])[i] = Tail(todo[p])[j]
                 PROVE  i = j
      BY <2>2
    <3>1. todo[p][i + 1] = todo[p][j + 1] /\ i + 1 \in DOMAIN todo[p] /\ j + 1 \in DOMAIN todo[p]
      BY <2>2
    <3>2. i + 1 = j + 1
      BY <2>3, <3>1
    <3>3. QED
      BY <2>2, <3>2
  <2>5. \A q \in Setters : \A i, j \in DOMAIN todo'[q] : todo'[q][i] = todo'[q][j] => i = j
    BY <1>1, <2>4 DEF Calling
  <2>6. \A q \in Setters : val[q] <= sets /\ (todo'[q] # <<>> => val[q] # 0)
    BY <1>1 DEF Calling
  <2>7. QED
    BY <2>5, <2>6 DEF Calling
<1>5. \A l \in Listeners : /\ \A i \in DOMAIN seen'[l] : seen'[l][i] <= sets
                           /\ \A i, j \in DOMAIN seen'[l] : seen'[l][i] = seen'[l][j] => i = j
  <2> SUFFICES ASSUME NEW l \in Listeners
               PROVE  /\ \A i \in DOMAIN seen'[l] : seen'[l][i] <= sets
                      /\ \A i, j \in DOMAIN seen'[l] : seen'[l][i] = seen'[l][j] => i = j
    OBVIOUS
  <2>1. CASE l # h
    BY <1>1, <2>1 DEF Delivery
  <2>2. CASE l = h
    <3>1. seen[h] \in Seq(1..MaxSets) /\ val[p] \in 1..MaxSets
      BY <1>1 DEF SignalTypeOK
    <3>2. /\ DOMAIN seen'[h] = 1..(Len(seen[h]) + 1) /\ DOMAIN seen[h] = 1..Len(seen[h])
          /\ \A i \in 1..Len(seen[h]) : seen'[h][i] = seen[h][i]
          /\ seen'[h][Len(seen[h]) + 1] = val[p]
          /\ \A i \in 1..(Len(seen[h]) + 1) : i \in 1..Len(seen[h]) \/ i = Len(seen[h]) + 1
      <4> DEFINE s == seen[h]
                 t == Append(s, val[p])
      <4>a. s \in Seq(1..MaxSets) /\ val[p] \in 1..MaxSets
        BY <3>1
      <4> HIDE DEF s
      <4>1. /\ DOMAIN t = 1..(Len(s) + 1) /\ DOMAIN s = 1..Len(s)
            /\ \A i \in 1..Len(s) : t[i] = s[i]
            /\ t[Len(s) + 1] = val[p]
            /\ \A i \in 1..(Len(s) + 1) : i \in 1..Len(s) \/ i = Len(s) + 1
        BY <4>a, AppendFacts
      <4>2. seen'[h] = t
        BY <1>1 DEF s
      <4> HIDE DEF t
      <4>3. QED
        BY <4>1, <4>2 DEF s
    <3>3. \A i \in DOMAIN seen[h] : seen[h][i] # val[p] /\ seen[h][i] <= sets
      BY <1>1, <1>3 DEF Heard, Delivery
    <3>4. \A i \in DOMAIN seen'[h] : seen'[h][i] <= sets
      <4>1. val[p] <= sets
        BY <1>1
      <4> SUFFICES ASSUME NEW i \in DOMAIN seen'[h]
                   PROVE  seen'[h][i] <= sets
        OBVIOUS
      <4>2. CASE i \in 1..Len(seen[h])
        BY <4>2, <3>2, <3>3
      <4>3. CASE i = Len(seen[h]) + 1
        BY <4>1, <4>3, <3>2
      <4>4. QED
        BY <3>2, <4>2, <4>3
    <3>5. \A i, j \in 1..Len(seen[h]) : seen[h][i] = seen[h][j] => i = j
      BY <1>1, <3>2 DEF Delivery
    <3>6. \A i, j \in DOMAIN seen'[h] : seen'[h][i] = seen'[h][j] => i = j
      <4> SUFFICES ASSUME NEW i \in DOMAIN seen'[h], NEW j \in DOMAIN seen'[h],
                          seen'[h][i] = seen'[h][j]
                   PROVE  i = j
        OBVIOUS
      <4>1. CASE i \in 1..Len(seen[h]) /\ j \in 1..Len(seen[h])
        BY <4>1, <3>2, <3>5
      <4>2. CASE i \in 1..Len(seen[h]) /\ j = Len(seen[h]) + 1
        BY <4>2, <3>2, <3>3
      <4>3. CASE i = Len(seen[h]) + 1 /\ j \in 1..Len(seen[h])
        BY <4>3, <3>2, <3>3
      <4>4. CASE i = Len(seen[h]) + 1 /\ j = Len(seen[h]) + 1
        BY <4>4
      <4>5. QED
        BY <3>2, <4>1, <4>2, <4>3, <4>4
    <3>7. QED
      BY <2>2, <3>4, <3>6
  <2>3. QED
    BY <2>1, <2>2
<1>6. \A l \in Listeners, n \in 1..sets : Heard(l, n)' => l \in due[n]
  BY <1>2, <1>3 DEF Delivery
<1>7. \A l \in Listeners, q \in Setters : InTodo(q, l)' => l \in due[val[q]] /\ ~Heard(l, val[q])'
  <2> SUFFICES ASSUME NEW l \in Listeners, NEW q \in Setters, InTodo(q, l)'
               PROVE  l \in due[val[q]] /\ ~Heard(l, val[q])'
    OBVIOUS
  <2>1. InTodo(q, l) /\ ~(q = p /\ l = h)
    BY <1>2
  <2>2. l \in due[val[q]] /\ ~Heard(l, val[q])
    BY <2>1 DEF Delivery
  <2>3. ~(l = h /\ val[q] = val[p])
    BY <1>1, <2>1 DEF Calling
  <2>4. QED
    BY <1>2, <2>2, <2>3
<1>8. \A n \in 1..sets : \A l \in due[n] :
        Heard(l, n)' \/ \E q \in Setters : val[q] = n /\ InTodo(q, l)'
  <2> SUFFICES ASSUME NEW n \in 1..sets, NEW l \in due[n]
               PROVE  Heard(l, n)' \/ \E q \in Setters : val[q] = n /\ InTodo(q, l)'
    OBVIOUS
  <2>1. l \in Listeners
    <3>1. n \in 1..MaxSets
      BY DEF SignalTypeOK
    <3>2. QED
      BY <3>1 DEF SignalTypeOK
  <2>2. CASE Heard(l, n)
    BY <1>2, <2>1, <2>2
  <2>3. ASSUME NEW q \in Setters, val[q] = n, InTodo(q, l)
        PROVE  Heard(l, n)' \/ InTodo(q, l)'
    BY <1>2, <2>1, <2>3
  <2>4. QED
    BY <2>2, <2>3 DEF Delivery
<1>9. Delivery'
  BY <1>5, <1>6, <1>7, <1>8 DEF Delivery
<1>10. QED
  BY <1>4, <1>9

LEMMA NotifyInv ==
  ASSUME MaxSets \in Nat, SignalInv, NEW p \in Setters, Notify(p)
  PROVE  SignalInv'
<1>1. SignalTypeOK /\ Placed /\ Calling /\ Delivery /\ Parting /\ Building /\ Showing /\ Following
  BY DEF SignalInv
<1>2. /\ todo[p] # <<>> /\ Head(todo[p]) # Component /\ Called(p)
      /\ UNCHANGED <<value, listeners, sets, index, sub, parted, val, built, tree, due, beside, shown>>
  BY DEF Notify, Idle, subVars
<1>3. /\ todo' \in [Setters -> Seq(Listeners)]
      /\ seen' \in [Listeners -> Seq(1..MaxSets)]
      /\ \A q \in Setters : q # p => todo'[q] = todo[q]
      /\ \A l \in Listeners : \A n : Heard(l, n)' <=> Heard(l, n) \/ (l = Head(todo[p]) /\ n = val[p])
      /\ \A q \in Setters : \A l : InTodo(q, l)' <=> InTodo(q, l) /\ ~(q = p /\ l = Head(todo[p]))
  BY <1>1, <1>2, CalledFacts
<1>4. SignalTypeOK'
  BY <1>1, <1>2, <1>3 DEF SignalTypeOK
<1>5. Calling' /\ Delivery'
  BY <1>1, <1>2, CalledDelivery
<1>6. Placed' /\ Parting'
  BY <1>1, <1>2 DEF Placed, Parting
<1>7. Building'
  BY <1>1, <1>2, <1>3 DEF Building
<1>8. Showing'
  BY <1>1, <1>2, <1>3 DEF Showing
<1>9. Following'
  BY <1>1, <1>2, <1>3 DEF Following
<1>10. QED
  BY <1>4, <1>5, <1>6, <1>7, <1>8, <1>9 DEF SignalInv

\* What is rebuilt is the signal as it is, so no older than the setter's value.
LEMMA RebuildInv ==
  ASSUME MaxSets \in Nat, SignalInv, NEW p \in Setters, Rebuild(p)
  PROVE  SignalInv'
<1>1. SignalTypeOK /\ Placed /\ Calling /\ Delivery /\ Parting /\ Building /\ Showing /\ Following
  BY DEF SignalInv
<1>2. /\ todo[p] # <<>> /\ Head(todo[p]) = Component
      /\ built' = [built EXCEPT ![p] = value]
      /\ UNCHANGED <<value, listeners, sets, index, sub, parted, val, todo, tree, seen, due, beside, shown>>
  BY DEF Rebuild, Idle, subVars
<1>3. value = sets /\ sets \in 0..NotBuilt /\ val[p] <= sets /\ val[p] \in Nat
  BY <1>1 DEF SignalTypeOK, Calling, NotBuilt
<1>4. SignalTypeOK'
  BY <1>1, <1>2, <1>3 DEF SignalTypeOK
<1>5. Building'
  <2>1. built'[p] = sets /\ \A q \in Setters : q # p => built'[q] = built[q]
    BY <1>1, <1>2, <1>3 DEF SignalTypeOK
  <2>2. sets \in val[p]..sets
    BY <1>1, <1>3 DEF SignalTypeOK
  <2>3. QED
    BY <1>1, <1>2, <2>1, <2>2 DEF Building
<1>6. Placed' /\ Calling' /\ Parting'
  BY <1>1, <1>2 DEF Placed, Calling, Parting
<1>7. Delivery' /\ Showing'
  BY <1>1, <1>2 DEF Delivery, Showing, Heard, InTodo
<1>8. Following'
  <2> SUFFICES ASSUME NEW n \in 1..sets, beside[n] = FALSE
               PROVE  /\ \A q \in Setters : built'[q] # NotBuilt => built'[q] >= n
                      /\ Component \in Listeners /\ Heard(Component, n) => tree >= n
    BY <1>2 DEF Following, Heard
  <2>1. built'[p] = sets /\ \A q \in Setters : q # p => built'[q] = built[q]
    BY <1>1, <1>2, <1>3 DEF SignalTypeOK
  <2>2. sets >= n
    BY <1>3
  <2>3. QED
    BY <1>1, <2>1, <2>2 DEF Following
<1>9. QED
  BY <1>4, <1>5, <1>6, <1>7, <1>8 DEF SignalInv

\* The component has heard the setter's value, and the tree shows it or newer.
LEMMA PatchInv ==
  ASSUME MaxSets \in Nat, SignalInv, NEW p \in Setters, Patch(p)
  PROVE  SignalInv'
<1>1. SignalTypeOK /\ Placed /\ Calling /\ Delivery /\ Parting /\ Building /\ Showing /\ Following
  BY DEF SignalInv
<1>2. /\ built[p] # NotBuilt /\ Called(p) /\ tree' = built[p]
      /\ built' = [built EXCEPT ![p] = NotBuilt]
      /\ shown' = IF built[p] > shown THEN built[p] ELSE shown
      /\ UNCHANGED <<value, listeners, sets, index, sub, parted, val, due, beside>>
  BY DEF Patch, subVars
<1>3. built[p] \in val[p]..sets /\ todo[p] # <<>> /\ Head(todo[p]) = Component
  BY <1>1, <1>2 DEF Building
<1>4. /\ todo' \in [Setters -> Seq(Listeners)]
      /\ seen' \in [Listeners -> Seq(1..MaxSets)]
      /\ val[p] \in 1..sets
      /\ \A q \in Setters : q # p => todo'[q] = todo[q]
      /\ \A l \in Listeners : \A n : Heard(l, n)' <=> Heard(l, n) \/ (l = Component /\ n = val[p])
  BY <1>1, <1>2, <1>3, CalledFacts
<1>5. /\ sets \in 0..MaxSets /\ shown \in 0..MaxSets /\ shown' \in 0..MaxSets
      /\ tree' \in 0..MaxSets /\ tree' >= val[p]
      /\ shown' >= shown /\ shown' >= val[p]
  <2>1. sets \in 0..MaxSets /\ shown \in 0..MaxSets
    BY <1>1 DEF SignalTypeOK
  <2>2. /\ built[p] \in 0..MaxSets /\ built[p] >= val[p]
        /\ val[p] \in Nat /\ built[p] \in Nat /\ shown \in Nat
    BY <1>3, <1>4, <2>1
  <2>3. QED
    BY <1>2, <2>1, <2>2
<1>6. SignalTypeOK'
  <2>1. NotBuilt \in 0..NotBuilt
    BY DEF NotBuilt
  <2>2. QED
    BY <1>1, <1>2, <1>4, <1>5, <2>1 DEF SignalTypeOK
<1>7. Calling' /\ Delivery'
  BY <1>1, <1>2, <1>3, CalledDelivery
<1>8. Placed' /\ Parting'
  BY <1>1, <1>2 DEF Placed, Parting
<1>9. Building'
  <2>1. built'[p] = NotBuilt /\ \A q \in Setters : q # p => built'[q] = built[q]
    BY <1>1, <1>2 DEF SignalTypeOK
  <2>2. QED
    BY <1>1, <1>2, <1>4, <2>1 DEF Building
<1>10. Showing'
  <2> SUFFICES ASSUME NEW n \in 1..sets, Component \in Listeners, Heard(Component, n)'
               PROVE  shown' >= n
    BY <1>2 DEF Showing
  <2>1. CASE n = val[p]
    BY <1>5, <2>1
  <2>2. CASE n # val[p]
    <3>1. shown >= n
      BY <1>1, <1>4, <2>2 DEF Showing
    <3>2. QED
      BY <1>5, <3>1
  <2>3. QED
    BY <2>1, <2>2
<1>11. Following'
  <2> SUFFICES ASSUME NEW n \in 1..sets, beside[n] = FALSE
               PROVE  /\ \A q \in Setters : built'[q] # NotBuilt => built'[q] >= n
                      /\ tree' >= n
    BY <1>2 DEF Following
  <2>1. \A q \in Setters : built[q] # NotBuilt => built[q] >= n
    BY <1>1 DEF Following
  <2>2. built'[p] = NotBuilt /\ \A q \in Setters : q # p => built'[q] = built[q]
    BY <1>1, <1>2 DEF SignalTypeOK
  <2>3. QED
    BY <1>2, <2>1, <2>2
<1>12. QED
  BY <1>6, <1>7, <1>8, <1>9, <1>10, <1>11 DEF SignalInv

LEMMA SignalStep ==
  ASSUME MaxSets \in Nat, LastFirst, SignalInv, [SignalNext]_signalVars
  PROVE  SignalInv'
<1>1. ASSUME NEW l \in Listeners, Subscribe(l) PROVE SignalInv'
  BY <1>1, SubscribeInv
<1>2. ASSUME NEW l \in Listeners, Unsubscribe(l) PROVE SignalInv'
  BY <1>2, UnsubscribeInv
<1>3. ASSUME NEW p \in Setters, SetStore(p) PROVE SignalInv'
  BY <1>3, SetStoreInv
<1>4. ASSUME NEW p \in Setters, Notify(p) PROVE SignalInv'
  BY <1>4, NotifyInv
<1>5. ASSUME NEW p \in Setters, Rebuild(p) PROVE SignalInv'
  BY <1>5, RebuildInv
<1>6. ASSUME NEW p \in Setters, Patch(p) PROVE SignalInv'
  BY <1>6, PatchInv
<1>7. CASE UNCHANGED signalVars
  <2>1. Calling' /\ Delivery' /\ Building' /\ Showing' /\ Following'
    BY <1>7, CallsKept DEF SignalInv, signalVars
  <2>2. SignalTypeOK'
    BY <1>7 DEF signalVars, SignalInv, SignalTypeOK
  <2>3. Placed' /\ Parting'
    BY <1>7 DEF signalVars, SignalInv, Placed, Parting
  <2>4. QED
    BY <2>1, <2>2, <2>3 DEF SignalInv
<1>8. QED
  BY <1>1, <1>2, <1>3, <1>4, <1>5, <1>6, <1>7 DEF SignalNext

LEMMA Signalled == ASSUME LastFirst PROVE SignalSpec => []SignalInv
<1>1. SignalInit => SignalInv
  BY SignalInvInit, SignalAssumption
<1>2. SignalInv /\ [SignalNext]_signalVars => SignalInv'
  BY SignalStep, SignalAssumption
<1>3. QED
  BY <1>1, <1>2, PTL DEF SignalSpec

------------------------------------------------------------------------------
(* What SignalInv means for the listeners and the component                *)

LEMMA RegisteredHolds == ASSUME SignalInv PROVE Registered
<1> SUFFICES ASSUME NEW l \in Listeners
             PROVE  Times(l, listeners) = IF sub[l] = "on" THEN 1 ELSE 0
  BY DEF Registered
<1>1. \A i, j \in DOMAIN listeners : listeners[i] = l /\ listeners[j] = l => i = j
  BY DEF SignalInv, Placed
<1>2. (\E i \in DOMAIN listeners : listeners[i] = l) <=> sub[l] = "on"
  BY DEF SignalInv, Placed
<1>3. Times(l, listeners) = IF \E i \in DOMAIN listeners : listeners[i] = l THEN 1 ELSE 0
  BY <1>1, TimesOnce
<1>4. QED
  BY <1>2, <1>3

LEMMA DeliveredHolds == ASSUME SignalInv PROVE DeliveredOnce
<1> SUFFICES ASSUME NEW l \in Listeners, NEW n \in 1..sets
             PROVE  Times(n, seen[l])
                      + Cardinality({p \in Setters : val[p] = n /\ Times(l, todo[p]) = 1})
                    = IF l \in due[n] THEN 1 ELSE 0
  BY DEF DeliveredOnce
<1> DEFINE calling == {p \in Setters : val[p] = n /\ Times(l, todo[p]) = 1}
<1>1. Calling /\ Delivery /\ n # 0 /\ 0 # 1
  BY DEF SignalInv
<1>2. Times(n, seen[l]) = IF Heard(l, n) THEN 1 ELSE 0
  <2>1. \A i, j \in DOMAIN seen[l] : seen[l][i] = n /\ seen[l][j] = n => i = j
    BY <1>1 DEF Delivery
  <2>2. QED
    BY <2>1, TimesOnce DEF Heard
<1>3. \A p \in Setters : Times(l, todo[p]) = 1 <=> InTodo(p, l)
  <2> SUFFICES ASSUME NEW p \in Setters PROVE Times(l, todo[p]) = 1 <=> InTodo(p, l)
    OBVIOUS
  <2>1. \A i, j \in DOMAIN todo[p] : todo[p][i] = l /\ todo[p][j] = l => i = j
    BY <1>1 DEF Calling
  <2>2. Times(l, todo[p]) = IF InTodo(p, l) THEN 1 ELSE 0
    BY <2>1, TimesOnce DEF InTodo
  <2>3. QED
    BY <2>2
<1>4. calling = {p \in Setters : val[p] = n /\ InTodo(p, l)}
  BY <1>3
<1>5. CASE \E p \in Setters : val[p] = n /\ InTodo(p, l)
  <2>1. PICK p \in Setters : val[p] = n /\ InTodo(p, l)
    BY <1>5
  <2>2. calling = {p}
    BY <1>1, <1>4, <2>1 DEF Calling
  <2>3. Cardinality(calling) = 1
    BY <2>2, FS_Singleton
  <2>4. l \in due[n] /\ ~Heard(l, n)
    BY <1>1, <2>1 DEF Delivery
  <2>5. QED
    BY <1>2, <2>3, <2>4
<1>6. CASE ~\E p \in Setters : val[p] = n /\ InTodo(p, l)
  <2>1. calling = {}
    BY <1>4, <1>6
  <2>2. Cardinality(calling) = 0
    BY <2>1, FS_EmptySet
  <2>3. l \in due[n] <=> Heard(l, n)
    BY <1>1, <1>6 DEF Delivery
  <2>4. QED
    BY <1>2, <2>2, <2>3
<1>7. QED
  BY <1>5, <1>6

LEMMA QuietHolds == ASSUME SignalInv PROVE QuietAfterUnsubscribe
<1> SUFFICES ASSUME NEW l \in Listeners, sub[l] = "off", NEW i \in DOMAIN seen[l]
             PROVE  seen[l][i] <= parted[l]
  BY DEF QuietAfterUnsubscribe
<1>1. seen[l] \in Seq(1..MaxSets) /\ sets \in 0..MaxSets
  BY DEF SignalInv, SignalTypeOK
<1>2. seen[l][i] \in 1..sets
  <2>1. seen[l][i] \in 1..MaxSets
    <3>1. i \in 1..Len(seen[l])
      BY <1>1
    <3>2. QED
      BY <1>1, <3>1, ElementOfSeq
  <2>2. seen[l][i] <= sets
    BY DEF SignalInv, Delivery
  <2>3. QED
    BY <1>1, <2>1, <2>2
<1>3. l \in due[seen[l][i]]
  BY <1>2 DEF SignalInv, Delivery, Heard
<1>4. QED
  BY <1>2, <1>3 DEF SignalInv, Parting

\* The component has heard what it was due when the Set returns.
LEMMA ReturnedHeard ==
  ASSUME SignalInv, NEW n \in 1..sets, Component \in due[n], Returned(n)
  PROVE  Component \in Listeners /\ Heard(Component, n)
<1>1. n \in 1..MaxSets
  BY SignalAssumption DEF SignalAssumption, SignalInv, SignalTypeOK
<1>2. Component \in Listeners
  BY <1>1 DEF SignalInv, SignalTypeOK
<1>3. \A p \in Setters : val[p] = n => ~InTodo(p, Component)
  BY DEF Returned, Idle, InTodo
<1>4. QED
  BY <1>2, <1>3 DEF SignalInv, Delivery

LEMMA FollowsHolds == ASSUME SignalInv PROVE ComponentFollows
<1>1. ShownWhenReturned
  BY ReturnedHeard DEF ShownWhenReturned, SignalInv, Showing
<1>2. BehindOnlyBeside
  <2> SUFFICES ASSUME NEW n \in 1..sets, Component \in due[n], Returned(n), ~beside[n]
               PROVE  tree >= n
    BY DEF BehindOnlyBeside
  <2>1. n \in 1..MaxSets
    BY SignalAssumption DEF SignalAssumption, SignalInv, SignalTypeOK
  <2>2. beside[n] = FALSE
    BY <2>1 DEF SignalInv, SignalTypeOK
  <2>3. QED
    BY <2>2, ReturnedHeard DEF SignalInv, Following
<1>3. QED
  BY <1>1, <1>2 DEF ComponentFollows

\* However many goroutines set the signal while listeners come and, in reverse
\* order, go: each listener hears each value stored while it was subscribed,
\* once, and none stored after it left (Set, Subscribe).
THEOREM ListenersAreServed ==
  ASSUME LastFirst PROVE SignalSpec => []ListenersServed
<1>1. SignalInv => ListenersServed
  BY RegisteredHolds, DeliveredHolds, QuietHolds DEF ListenersServed
<1>2. QED
  BY <1>1, Signalled, PTL

\* However many Sets rebuild the bound component at once: when a Set returns its
\* value or a newer one has been shown, and from then on the tree is no older,
\* unless a rebuild waited to be patched in as the value was stored
\* (BindSignalToComponent, DiffAndPatch).
THEOREM ComponentIsCurrent ==
  ASSUME LastFirst PROVE SignalSpec => []ComponentFollows
<1>1. SignalInv => ComponentFollows
  BY FollowsHolds
<1>2. QED
  BY <1>1, Signalled, PTL

------------------------------------------------------------------------------
(* What a touch finds                                                      *)

\* The children of a node were begun after it.
Grown(nodes) ==
  /\ Len(nodes) \in Nat /\ DOMAIN nodes = 1..Len(nodes)
  /\ \A id \in DOMAIN nodes : nodes[id].children \in Seq((id + 1)..Len(nodes))

\* Each child of a node is a node with a greater number.
LEMMA ChildrenLater ==
  ASSUME NEW nodes, Grown(nodes), NEW id \in DOMAIN nodes, NEW i \in DOMAIN nodes[id].children
  PROVE  nodes[id].children[i] \in (id + 1)..Len(nodes) /\ nodes[id].children[i] \in DOMAIN nodes
<1>1. nodes[id].children[i] \in (id + 1)..Len(nodes)
  BY DEF Grown
<1> QED
  BY <1>1 DEF Grown

\* What is drawn below a node, once it is known for its children.
Under(drawn, nodes, id) ==
  [i \in DOMAIN nodes[id].children |-> drawn[nodes[id].children[i]]]

LEMMA UnderIs ==
  ASSUME NEW nodes, Grown(nodes), NEW id \in DOMAIN nodes, NEW drawn, NEW S,
         \A j \in (id + 1)..Len(nodes) : drawn[j] \in Seq(S)
  PROVE  Under(drawn, nodes, id) \in Seq(Seq(S))
<1>1. /\ Len(nodes[id].children) \in Nat
      /\ DOMAIN nodes[id].children = 1..Len(nodes[id].children)
  BY DEF Grown
<1>2. Under(drawn, nodes, id) \in [1..Len(nodes[id].children) -> Seq(S)]
  BY <1>1, ChildrenLater DEF Under
<1> QED
  BY <1>1, <1>2, SeqDef

Draws(drawn, nodes) ==
  drawn = [id \in DOMAIN nodes |-> <<id>> \o FlattenSeq(Under(drawn, nodes, id))]

\* The renderer comes to an end, and draws each node where the code says.
LEMMA TraverseIs ==
  ASSUME NEW nodes, Grown(nodes)
  PROVE  /\ Draws(TraverseNode(nodes), nodes)
         /\ \A id \in DOMAIN nodes : TraverseNode(nodes)[id] \in Seq(1..Len(nodes))
<1> DEFINE n == Len(nodes)
           V == Seq(1..n)
           F == [id \in 1..n |-> [g \in [1..n -> V] |-> <<id>> \o FlattenSeq(Under(g, nodes, id))]]
<1>1. n \in Nat /\ DOMAIN nodes = 1..n
  BY DEF Grown
<1> HIDE DEF n
<1>2. ASSUME NEW id \in 1..n, NEW g, \A j \in (id + 1)..n : g[j] \in V
      PROVE  <<id>> \o FlattenSeq(Under(g, nodes, id)) \in V
  <2>1. Under(g, nodes, id) \in Seq(Seq(1..n))
    BY <1>1, <1>2, UnderIs DEF n
  <2>2. FlattenSeq(Under(g, nodes, id)) \in Seq(1..n)
    BY <2>1, FlattenedType
  <2> QED
    BY <2>2
<1>3. FindsIn(F, n, V)
  <2> SUFFICES ASSUME NEW id \in 1..n, NEW g \in [1..n -> V]
               PROVE  <<id>> \o FlattenSeq(Under(g, nodes, id)) \in V
    BY DEF FindsIn, Maps
  <2>1. \A j \in (id + 1)..n : j \in 1..n
    BY <1>1
  <2>2. \A j \in (id + 1)..n : g[j] \in V
    BY <2>1
  <2> QED
    BY <1>2, <2>2
<1>4. FromLater(F, n, V)
  <2> SUFFICES ASSUME NEW id \in 1..n, NEW g \in [1..n -> V], NEW h \in [1..n -> V],
                      \A j \in (id + 1)..n : g[j] = h[j]
               PROVE  Under(g, nodes, id) = Under(h, nodes, id)
    BY DEF FromLater, Maps
  <2> QED
    BY <1>1, ChildrenLater DEF Under, n
<1>5. PICK g \in Maps(n, V) : Settled(F, n, g)
  <2>1. <<>> \in V
    OBVIOUS
  <2> HIDE DEF F, V
  <2>2. V # {}
    BY <2>1
  <2> QED
    BY <1>1, <1>3, <1>4, <2>2, BackwardRecursion
<1>6. \E h : Draws(h, nodes)
  <2>1. g \in [1..n -> V] /\ \A id \in 1..n : g[id] = F[id][g]
    BY <1>5 DEF Maps, Settled
  <2> HIDE DEF V
  <2>2. \A id \in 1..n : g[id] = <<id>> \o FlattenSeq(Under(g, nodes, id))
    BY <2>1
  <2>3. Draws(g, nodes)
    BY <1>1, <2>1, <2>2 DEF Draws
  <2> QED
    BY <2>3
<1> HIDE DEF F
<1>7. Draws(TraverseNode(nodes), nodes)
  <2>1. TraverseNode(nodes) = CHOOSE h : Draws(h, nodes)
    BY DEF TraverseNode, Draws, Under
  <2> QED
    BY <1>6, <2>1
<1> DEFINE S == {id \in 1..n : TraverseNode(nodes)[id] \in V}
<1>8. S = 1..n
  <2>1. ASSUME NEW id \in 1..n, \A j \in (id + 1)..n : j \in S PROVE id \in S
    <3>1. <<id>> \o FlattenSeq(Under(TraverseNode(nodes), nodes, id)) \in V
      BY <1>2, <2>1
    <3>2. TraverseNode(nodes)[id] = <<id>> \o FlattenSeq(Under(TraverseNode(nodes), nodes, id))
      BY <1>1, <1>7 DEF Draws
    <3> QED
      BY <3>1, <3>2
  <2> HIDE DEF S
  <2> QED
    BY <1>1, <2>1, BackwardInduction DEF S
<1> QED
  BY <1>1, <1>7, <1>8 DEF n

\* The places of the children at or below which something is hit.
Struck(hit, nodes, id) ==
  {i \in DOMAIN nodes[id].children : hit[nodes[id].children[i]] # 0}

HitAt(hit, nodes, p, among, id) ==
  IF Struck(hit, nodes, id) # {} THEN hit[nodes[id].children[Max(Struck(hit, nodes, id))]]
  ELSE IF Covers(nodes[id].bounds, p) /\ id \in among THEN id ELSE 0

\* A touch comes to an end, and asks the nodes as the code says.
LEMMA HitIs ==
  ASSUME NEW nodes, Grown(nodes), NEW p, NEW among
  PROVE  \A id \in DOMAIN nodes :
           Hit(nodes, p, among)[id] = HitAt(Hit(nodes, p, among), nodes, p, among, id)
<1> DEFINE n == Len(nodes)
           V == 0..n
           F == [id \in 1..n |-> [g \in [1..n -> V] |-> HitAt(g, nodes, p, among, id)]]
           R(g) == g = [id \in DOMAIN nodes |-> HitAt(g, nodes, p, among, id)]
<1>1. n \in Nat /\ DOMAIN nodes = 1..n
  BY DEF Grown
<1> HIDE DEF n
<1>2. ASSUME NEW id \in 1..n, NEW g, Struck(g, nodes, id) # {}
      PROVE  Max(Struck(g, nodes, id)) \in DOMAIN nodes[id].children
  <2>1. /\ Len(nodes[id].children) \in Nat
        /\ DOMAIN nodes[id].children = 1..Len(nodes[id].children)
    BY <1>1 DEF Grown
  <2>2. Struck(g, nodes, id) \in SUBSET (1..Len(nodes[id].children))
    BY <2>1 DEF Struck
  <2> QED
    BY <1>2, <2>1, <2>2, GreatestIs
<1>3. FindsIn(F, n, V)
  <2> SUFFICES ASSUME NEW id \in 1..n, NEW g \in [1..n -> V]
               PROVE  HitAt(g, nodes, p, among, id) \in V
    BY DEF FindsIn, Maps
  <2>1. Struck(g, nodes, id) # {} =>
          nodes[id].children[Max(Struck(g, nodes, id))] \in 1..n
    BY <1>1, <1>2, ChildrenLater
  <2>2. id \in V /\ 0 \in V
    BY <1>1
  <2> HIDE DEF V
  <2> QED
    BY <2>1, <2>2 DEF HitAt
<1>4. FromLater(F, n, V)
  <2> SUFFICES ASSUME NEW id \in 1..n, NEW g \in [1..n -> V], NEW h \in [1..n -> V],
                      \A j \in (id + 1)..n : g[j] = h[j]
               PROVE  HitAt(g, nodes, p, among, id) = HitAt(h, nodes, p, among, id)
    BY DEF FromLater, Maps
  <2>1. \A i \in DOMAIN nodes[id].children :
          g[nodes[id].children[i]] = h[nodes[id].children[i]]
    BY <1>1, ChildrenLater DEF n
  <2>2. Struck(g, nodes, id) = Struck(h, nodes, id)
    BY <2>1 DEF Struck
  <2> QED
    BY <1>2, <2>1, <2>2 DEF HitAt
<1>5. PICK g \in Maps(n, V) : Settled(F, n, g)
  <2>1. 0 \in V
    BY <1>1
  <2> HIDE DEF F, V
  <2>2. V # {}
    BY <2>1
  <2> QED
    BY <1>1, <1>3, <1>4, <2>2, BackwardRecursion
<1>6. \E h : R(h)
  <2>1. g \in [1..n -> V] /\ \A id \in 1..n : g[id] = F[id][g]
    BY <1>5 DEF Maps, Settled
  <2> HIDE DEF V
  <2>2. \A id \in 1..n : g[id] = HitAt(g, nodes, p, among, id)
    BY <2>1
  <2>3. R(g)
    BY <1>1, <2>1, <2>2
  <2> HIDE DEF R
  <2> QED
    BY <2>3
<1>7. R(Hit(nodes, p, among))
  <2> DEFINE Q(f) == f = [id \in DOMAIN nodes |->
                LET hits  == [i \in DOMAIN nodes[id].children |-> f[nodes[id].children[i]]]
                    found == {i \in DOMAIN hits : hits[i] # 0}
                IN  IF found # {} THEN hits[Max(found)]
                    ELSE IF Covers(nodes[id].bounds, p) /\ id \in among THEN id ELSE 0]
  <2>1. Hit(nodes, p, among) = CHOOSE f : Q(f)
    BY DEF Hit
  <2>2. \A f : Q(f) <=> R(f)
    <3> SUFFICES ASSUME NEW f PROVE Q(f) <=> R(f)
      OBVIOUS
    <3> DEFINE hits(id) == [i \in DOMAIN nodes[id].children |-> f[nodes[id].children[i]]]
               found(id) == {i \in DOMAIN hits(id) : hits(id)[i] # 0}
    <3>1. ASSUME NEW id \in DOMAIN nodes
          PROVE  /\ found(id) = Struck(f, nodes, id)
                 /\ found(id) # {} =>
                      hits(id)[Max(found(id))]
                        = f[nodes[id].children[Max(Struck(f, nodes, id))]]
      <4>1. found(id) = Struck(f, nodes, id)
        BY DEF Struck
      <4> HIDE DEF found
      <4> QED
        BY <1>1, <1>2, <4>1
    <3>2. ASSUME NEW id \in DOMAIN nodes
          PROVE  (IF found(id) # {} THEN hits(id)[Max(found(id))]
                  ELSE IF Covers(nodes[id].bounds, p) /\ id \in among THEN id ELSE 0)
                    = HitAt(f, nodes, p, among, id)
      <4>1. found(id) = Struck(f, nodes, id)
        BY <3>1
      <4>2. found(id) # {} => hits(id)[Max(found(id))]
                               = f[nodes[id].children[Max(Struck(f, nodes, id))]]
        BY <3>1
      <4> HIDE DEF found, hits
      <4> QED
        BY <4>1, <4>2 DEF HitAt
    <3>3. Q(f) <=> f = [id \in DOMAIN nodes |->
                          IF found(id) # {} THEN hits(id)[Max(found(id))]
                          ELSE IF Covers(nodes[id].bounds, p) /\ id \in among THEN id ELSE 0]
      OBVIOUS
    <3> HIDE DEF Q, found, hits
    <3> QED
      BY <3>2, <3>3
  <2> HIDE DEF Q, R
  <2>3. \E f : Q(f)
    BY <1>6, <2>2
  <2>4. Q(CHOOSE f : Q(f))
    BY <2>3
  <2> QED
    BY <2>1, <2>2, <2>4
<1> QED
  BY <1>7

\* The nodes that a touch may find.
Touched(nodes, p, among) == {id \in among : Covers(nodes[id].bounds, p)}

\* It finds the one of them that was drawn last.
LEMMA HitIsLastDrawn ==
  ASSUME NEW nodes, Grown(nodes), NEW p, NEW among \in SUBSET DOMAIN nodes,
         NEW root \in DOMAIN nodes
  PROVE  Hit(nodes, p, among)[root]
           = LastOf(TraverseNode(nodes)[root], Touched(nodes, p, among))
<1> DEFINE n == Len(nodes)
           C == Touched(nodes, p, among)
           hit == Hit(nodes, p, among)
           drawn == TraverseNode(nodes)
           S == {id \in 1..n : hit[id] = LastOf(drawn[id], C)}
<1>1. n \in Nat /\ DOMAIN nodes = 1..n
  BY DEF Grown
<1>2. 0 \notin C /\ \A id : id \in C <=> id \in among /\ Covers(nodes[id].bounds, p)
  BY <1>1 DEF Touched
<1>3. \A id \in 1..n : hit[id] = HitAt(hit, nodes, p, among, id)
  BY <1>1, HitIs
<1>4. \A id \in 1..n : drawn[id] = <<id>> \o FlattenSeq(Under(drawn, nodes, id))
  BY <1>1, TraverseIs DEF Draws
<1>5. \A id \in 1..n : drawn[id] \in Seq(1..n)
  BY <1>1, TraverseIs
<1>6. \A id \in 1..n : \A i \in DOMAIN nodes[id].children :
        nodes[id].children[i] \in (id + 1)..n
  BY <1>1, ChildrenLater
<1>7. \A id \in 1..n : Under(drawn, nodes, id) \in Seq(Seq(1..n))
  <2>1. \A id \in 1..n : \A j \in (id + 1)..n : j \in 1..n
    BY <1>1
  <2> QED
    BY <1>1, <1>5, <2>1, UnderIs
<1> HIDE DEF n, C, hit, drawn
<1>8. ASSUME NEW id \in 1..n, \A j \in (id + 1)..n : j \in S PROVE id \in S
  <2> DEFINE pieces == Under(drawn, nodes, id)
             found == Having(pieces, C)
             below == FlattenSeq(pieces)
  <2>1. /\ DOMAIN pieces = DOMAIN nodes[id].children
        /\ \A i \in DOMAIN pieces : pieces[i] = drawn[nodes[id].children[i]]
    BY DEF Under
  <2>2. \A i \in DOMAIN pieces : LastOf(pieces[i], C) = hit[nodes[id].children[i]]
    BY <1>6, <1>8, <2>1
  <2>3. /\ below \in Seq(1..n)
        /\ LastOf(below, C) = IF found = {} THEN 0 ELSE LastOf(pieces[Max(found)], C)
    <3>1. pieces \in Seq(Seq(1..n))
      BY <1>7
    <3>2. 0 \notin C /\ n \in Nat
      BY <1>1, <1>2
    <3> HIDE DEF pieces
    <3> QED
      BY <3>1, <3>2, LastOfFlattened
  <2>4. LastOf(drawn[id], C)
          = IF LastOf(below, C) # 0 THEN LastOf(below, C) ELSE IF id \in C THEN id ELSE 0
    <3>1. drawn[id] = <<id>> \o below
      BY <1>4
    <3>2. below \in Seq(1..n) /\ 0 \notin C /\ n \in Nat
      BY <1>1, <1>2, <2>3
    <3> HIDE DEF below
    <3>3. LastOf(<<id>> \o below, C)
            = IF LastOf(below, C) # 0 THEN LastOf(below, C) ELSE IF id \in C THEN id ELSE 0
      BY <3>2, LastOfOneMore
    <3> QED
      BY <3>1, <3>3
  <2>5. found = Struck(hit, nodes, id)
    <3> HIDE DEF pieces
    <3> QED
      BY <2>1, <2>2 DEF Struck, Having
  <2>6. found # {} => Max(found) \in found
    <3>1. Len(pieces) \in Nat /\ DOMAIN pieces = 1..Len(pieces)
      BY <1>7
    <3> HIDE DEF pieces
    <3>2. found \in SUBSET (1..Len(pieces))
      BY <3>1 DEF Having
    <3> QED
      BY <3>1, <3>2, GreatestIs
  <2> HIDE DEF pieces, below
  <2>7. CASE found # {}
    <3>1. /\ Max(found) \in DOMAIN pieces /\ LastOf(pieces[Max(found)], C) # 0
      BY <2>6, <2>7 DEF Having
    <3>2. hit[id] = hit[nodes[id].children[Max(found)]]
      BY <1>3, <2>5, <2>7 DEF HitAt
    <3>3. hit[id] = LastOf(pieces[Max(found)], C)
      BY <2>2, <3>1, <3>2
    <3> QED
      BY <2>3, <2>4, <2>7, <3>1, <3>3
  <2>8. CASE found = {}
    <3>1. hit[id] = IF id \in C THEN id ELSE 0
      BY <1>2, <1>3, <2>5, <2>8 DEF HitAt
    <3> QED
      BY <2>3, <2>4, <2>8, <3>1
  <2> QED
    BY <2>7, <2>8
<1>9. S = 1..n
  <2> HIDE DEF S
  <2> QED
    BY <1>1, <1>8, BackwardInduction DEF S
<1> QED
  BY <1>1, <1>9 DEF n, C, hit, drawn

------------------------------------------------------------------------------
(* The tree a program builds                                               *)

Fields == {"type", "props", "children", "bounds", "events"}

\* A tree in the making: the children of a node were begun after it, and what is
\* on the stack and at the root are nodes of it.
Shaped(t) ==
  /\ DOMAIN t = {"root", "stack", "nodes"}
  /\ IsList(t.nodes) /\ Grown(t.nodes)
  /\ \A id \in DOMAIN t.nodes : DOMAIN t.nodes[id] = Fields
  /\ t.stack \in Seq(DOMAIN t.nodes)
  /\ t.root \in {0} \cup DOMAIN t.nodes

FrameInv == Shaped(frame) /\ calls \in Seq(BuildCalls)

LEMMA SeqWider ==
  ASSUME NEW A, NEW B, A \subseteq B, NEW s \in Seq(A)
  PROVE  s \in Seq(B)
<1>1. Len(s) \in Nat /\ s \in [1..Len(s) -> A]
  OBVIOUS
<1>2. s \in [1..Len(s) -> B]
  BY <1>1
<1> QED
  BY <1>1, <1>2, SeqDef

\* Nodes that keep their places, their children and their fields.
LEMMA SameShape ==
  ASSUME NEW t, Shaped(t), NEW f, f = [id \in DOMAIN t.nodes |-> f[id]],
         \A id \in DOMAIN t.nodes : DOMAIN f[id] = Fields /\ f[id].children = t.nodes[id].children
  PROVE  Shaped([t EXCEPT !.nodes = f])
<1> DEFINE u == [t EXCEPT !.nodes = f]
<1>1. /\ DOMAIN u = {"root", "stack", "nodes"}
      /\ u.nodes = f /\ u.stack = t.stack /\ u.root = t.root
  BY DEF Shaped
<1> HIDE DEF u
<1>2. Len(t.nodes) \in Nat /\ DOMAIN t.nodes = 1..Len(t.nodes)
  BY DEF Shaped, Grown
<1>3. IsList(f) /\ Len(f) = Len(t.nodes) /\ DOMAIN f = DOMAIN t.nodes
  BY <1>2, ListOfFunction
<1>4. Grown(f)
  BY <1>2, <1>3 DEF Shaped, Grown
<1>5. Shaped(u)
  BY <1>1, <1>3, <1>4 DEF Shaped
<1> QED
  BY <1>5 DEF u

\* The node that is open.
LEMMA LastOpen ==
  ASSUME NEW t, Shaped(t), t.stack # <<>>
  PROVE  Last(t.stack) \in DOMAIN t.nodes /\ Front(t.stack) \in Seq(DOMAIN t.nodes)
<1> DEFINE S == DOMAIN t.nodes
<1>1. t.stack \in Seq(S)
  BY DEF Shaped
<1> HIDE DEF S
<1>2. Last(t.stack) \in S
  BY <1>1 DEF Last
<1>3. Front(t.stack) \in Seq(S)
  <2>1. Len(t.stack) \in Nat \ {0} /\ t.stack \in [1..Len(t.stack) -> S]
    BY <1>1
  <2>2. [i \in 1..(Len(t.stack) - 1) |-> t.stack[i]] \in [1..(Len(t.stack) - 1) -> S]
    BY <2>1
  <2>3. Len(t.stack) - 1 \in Nat
    BY <2>1
  <2> QED
    BY <2>2, <2>3, SeqDef DEF Front
<1> QED
  BY <1>2, <1>3 DEF S

LEMMA BeginShaped ==
  ASSUME NEW t, Shaped(t), NEW type
  PROVE  Shaped(BeginNode(t, type))
<1> DEFINE u == BeginNode(t, type)
           n == Len(t.nodes)
           longer == Append(t.nodes, Node(type))
           top == Last(t.stack)
<1>1. /\ n \in Nat /\ DOMAIN t.nodes = 1..n
      /\ DOMAIN longer = 1..(n + 1) /\ IsList(longer)
      /\ \A i \in 1..n : longer[i] = t.nodes[i]
      /\ longer[n + 1] = Node(type)
  BY ListAppend DEF Shaped
<1>2. Len(longer) = n + 1
  <2>1. longer \in Seq({longer[i] : i \in DOMAIN longer})
    BY <1>1 DEF IsList
  <2> HIDE DEF longer
  <2>2. DOMAIN longer = 1..Len(longer) /\ Len(longer) \in Nat
    BY <2>1
  <2> QED
    BY <1>1, <2>2
<1>3. /\ DOMAIN u = {"root", "stack", "nodes"}
      /\ u.root = IF t.stack = <<>> /\ t.root = 0 THEN n + 1 ELSE t.root
      /\ u.stack = Append(t.stack, n + 1)
      /\ u.nodes = IF t.stack = <<>> THEN longer
                   ELSE [longer EXCEPT ![top].children = Append(@, n + 1)]
  BY DEF BeginNode
<1>4. DOMAIN Node(type) = Fields /\ Node(type).children = <<>>
  BY DEF Node, Fields
<1> HIDE DEF u, n, longer
<1>5. \A id \in 1..(n + 1) :
        DOMAIN longer[id] = Fields /\ longer[id].children \in Seq((id + 1)..(n + 1))
  <2> SUFFICES ASSUME NEW id \in 1..(n + 1)
               PROVE  DOMAIN longer[id] = Fields /\ longer[id].children \in Seq((id + 1)..(n + 1))
    OBVIOUS
  <2>1. CASE id = n + 1
    <3>1. <<>> \in Seq((id + 1)..(n + 1))
      OBVIOUS
    <3> QED
      BY <1>1, <1>4, <2>1, <3>1
  <2>2. CASE id # n + 1
    <3>1. id \in 1..n /\ longer[id] = t.nodes[id]
      BY <1>1, <2>2
    <3>2. DOMAIN t.nodes[id] = Fields /\ t.nodes[id].children \in Seq((id + 1)..n)
      BY <1>1, <3>1 DEF Shaped, Grown, n
    <3>3. (id + 1)..n \subseteq (id + 1)..(n + 1)
      BY <1>1
    <3> DEFINE A == (id + 1)..n
               B == (id + 1)..(n + 1)
    <3>4. A \subseteq B /\ t.nodes[id].children \in Seq(A)
      BY <3>2, <3>3
    <3> HIDE DEF A, B
    <3>5. t.nodes[id].children \in Seq(B)
      BY <3>4, SeqWider
    <3> QED
      BY <3>1, <3>2, <3>5 DEF B
  <2> QED
    BY <2>1, <2>2
<1>6. u.stack \in Seq(1..(n + 1)) /\ u.root \in {0} \cup 1..(n + 1)
  <2>1. t.stack \in Seq(1..n) /\ t.root \in {0} \cup 1..n
    BY <1>1 DEF Shaped
  <2>2. t.stack \in Seq(1..(n + 1))
    BY <1>1, <2>1
  <2>3. Append(t.stack, n + 1) \in Seq(1..(n + 1))
    BY <1>1, <2>2
  <2> QED
    BY <1>1, <1>3, <2>1, <2>3
<1>7. u.nodes = [id \in 1..(n + 1) |-> u.nodes[id]]
  <2>1. longer = [id \in 1..(n + 1) |-> longer[id]]
    BY <1>1, <1>2 DEF IsList
  <2> QED
    BY <1>3, <2>1
<1>8. \A id \in 1..(n + 1) :
        DOMAIN u.nodes[id] = Fields /\ u.nodes[id].children \in Seq((id + 1)..(n + 1))
  <2>1. CASE t.stack = <<>>
    BY <1>3, <1>5, <2>1
  <2>2. CASE t.stack # <<>>
    <3>1. top \in 1..n
      BY <1>1, <2>2, LastOpen
    <3>a. top \in DOMAIN longer
      BY <1>1, <3>1
    <3>b. u.nodes = [longer EXCEPT ![top] = [longer[top] EXCEPT !.children = Append(@, n + 1)]]
      BY <1>3, <2>2
    <3> HIDE DEF top
    <3>2. \A id \in 1..(n + 1) : id # top => u.nodes[id] = longer[id]
      BY <1>1, <3>b
    <3>3. u.nodes[top] = [longer[top] EXCEPT !.children = Append(@, n + 1)]
      BY <3>a, <3>b
    <3>4. DOMAIN u.nodes[top] = Fields
          /\ u.nodes[top].children = Append(longer[top].children, n + 1)
      BY <1>1, <1>5, <3>1, <3>3 DEF Fields
    <3>5. n + 1 \in (top + 1)..(n + 1) /\ top \in 1..(n + 1)
      BY <1>1, <3>1
    <3>6. Append(longer[top].children, n + 1) \in Seq((top + 1)..(n + 1))
      BY <1>5, <3>5
    <3> QED
      BY <1>5, <3>2, <3>4, <3>6
  <2> QED
    BY <2>1, <2>2
<1>9. IsList(u.nodes) /\ Len(u.nodes) = n + 1 /\ DOMAIN u.nodes = 1..(n + 1)
  <2>1. n + 1 \in Nat
    BY <1>1
  <2> QED
    BY <1>7, <2>1, ListOfFunction
<1>10. Shaped(u)
  BY <1>1, <1>3, <1>6, <1>8, <1>9 DEF Shaped, Grown
<1> QED
  BY <1>10 DEF u

\* The open node becomes another with the same children.
LEMMA TopShaped ==
  ASSUME NEW t, Shaped(t), t.stack # <<>>, NEW node, DOMAIN node = Fields,
         node.children = t.nodes[Last(t.stack)].children
  PROVE  Shaped([t EXCEPT !.nodes = [@ EXCEPT ![Last(t.stack)] = node]])
<1> DEFINE top == Last(t.stack)
           f == [t.nodes EXCEPT ![top] = node]
<1>1. top \in DOMAIN t.nodes
  BY LastOpen
<1>2. t.nodes = [id \in DOMAIN t.nodes |-> t.nodes[id]]
  BY DEF Shaped, IsList
<1>3. f = [id \in DOMAIN t.nodes |-> f[id]]
  BY <1>2
<1>4. \A id \in DOMAIN t.nodes : f[id] = IF id = top THEN node ELSE t.nodes[id]
  BY <1>2
<1> HIDE DEF f
<1>5. \A id \in DOMAIN t.nodes : DOMAIN f[id] = Fields /\ f[id].children = t.nodes[id].children
  BY <1>4 DEF Shaped
<1>6. Shaped([t EXCEPT !.nodes = f])
  BY <1>3, <1>5, SameShape
<1> QED
  BY <1>6 DEF f, Shaped

LEMMA MadeShaped ==
  ASSUME NEW t, Shaped(t), NEW call \in BuildCalls
  PROVE  Shaped(Made(t, call))
<1>1. CASE call.op = "begin"
  BY <1>1, BeginShaped DEF Made
<1>2. CASE call.op = "prop"
  <2>1. Made(t, call) = SetProp(t, call.arg, call.value)
    BY <1>2 DEF Made
  <2>2. CASE t.stack = <<>>
    BY <2>1, <2>2 DEF SetProp
  <2>3. CASE t.stack # <<>>
    <3> DEFINE old == t.nodes[Last(t.stack)].props
               new == [k \in DOMAIN old \cup {call.arg} |-> IF k = call.arg THEN call.value ELSE old[k]]
               node == [t.nodes[Last(t.stack)] EXCEPT !.props = new]
    <3>1. Last(t.stack) \in DOMAIN t.nodes
      BY <2>3, LastOpen
    <3>2. DOMAIN t.nodes[Last(t.stack)] = Fields
      BY <3>1 DEF Shaped
    <3>3. SetProp(t, call.arg, call.value) = [t EXCEPT !.nodes = [@ EXCEPT ![Last(t.stack)] = node]]
      BY <2>3, <3>1, <3>2 DEF SetProp, Fields, Shaped
    <3> HIDE DEF new
    <3>4. DOMAIN node = Fields /\ node.children = t.nodes[Last(t.stack)].children
      BY <3>2 DEF Fields
    <3> HIDE DEF node
    <3> QED
      BY <2>1, <2>3, <3>3, <3>4, TopShaped
  <2> QED
    BY <2>2, <2>3
<1>3. CASE call.op = "event"
  <2>1. Made(t, call) = SetEvent(t, call.arg)
    BY <1>3 DEF Made
  <2>2. CASE t.stack = <<>>
    BY <2>1, <2>2 DEF SetEvent
  <2>3. CASE t.stack # <<>>
    <3> DEFINE new == t.nodes[Last(t.stack)].events \cup {call.arg}
               node == [t.nodes[Last(t.stack)] EXCEPT !.events = new]
    <3>1. Last(t.stack) \in DOMAIN t.nodes
      BY <2>3, LastOpen
    <3>2. DOMAIN t.nodes[Last(t.stack)] = Fields
      BY <3>1 DEF Shaped
    <3>3. SetEvent(t, call.arg) = [t EXCEPT !.nodes = [@ EXCEPT ![Last(t.stack)] = node]]
      BY <2>3, <3>1, <3>2 DEF SetEvent, Fields, Shaped
    <3> HIDE DEF new
    <3>4. DOMAIN node = Fields /\ node.children = t.nodes[Last(t.stack)].children
      BY <3>2 DEF Fields
    <3> HIDE DEF node
    <3> QED
      BY <2>1, <2>3, <3>3, <3>4, TopShaped
  <2> QED
    BY <2>2, <2>3
<1>4. CASE call.op = "end"
  <2>1. Made(t, call) = EndNode(t)
    BY <1>4 DEF Made
  <2>2. CASE t.stack = <<>>
    BY <2>1, <2>2 DEF EndNode
  <2>3. CASE t.stack # <<>>
    <3>1. Front(t.stack) \in Seq(DOMAIN t.nodes)
      BY <2>3, LastOpen
    <3>2. EndNode(t) = [t EXCEPT !.stack = Front(t.stack)]
      BY <2>3 DEF EndNode
    <3> QED
      BY <2>1, <3>1, <3>2 DEF Shaped
  <2> QED
    BY <2>2, <2>3
<1> QED
  BY <1>1, <1>2, <1>3, <1>4 DEF BuildCalls

\* Laying a tree out moves its nodes and leaves them where they are in it.
LEMMA LaidShaped ==
  ASSUME NEW t, Shaped(t), NEW width, NEW height
  PROVE  Shaped([t EXCEPT !.nodes = ComputeLayout(t.nodes, t.root, width, height)])
<1> DEFINE f == ComputeLayout(t.nodes, t.root, width, height)
<1>1. /\ f = [id \in DOMAIN t.nodes |-> f[id]]
      /\ \A id \in DOMAIN t.nodes :
           f[id] = t.nodes[id] \/ \E bounds : f[id] = [t.nodes[id] EXCEPT !.bounds = bounds]
  BY DEF ComputeLayout
<1> HIDE DEF f
<1>2. f = [id \in DOMAIN t.nodes |-> f[id]]
  BY <1>1
<1>3. \A id \in DOMAIN t.nodes : DOMAIN f[id] = Fields /\ f[id].children = t.nodes[id].children
  <2> SUFFICES ASSUME NEW id \in DOMAIN t.nodes
               PROVE  DOMAIN f[id] = Fields /\ f[id].children = t.nodes[id].children
    OBVIOUS
  <2>1. DOMAIN t.nodes[id] = Fields
    BY DEF Shaped
  <2>2. f[id] = t.nodes[id] \/ \E bounds : f[id] = [t.nodes[id] EXCEPT !.bounds = bounds]
    BY <1>1
  <2> QED
    BY <2>1, <2>2 DEF Fields
<1>4. Shaped([t EXCEPT !.nodes = f])
  BY <1>2, <1>3, SameShape
<1> QED
  BY <1>4 DEF f

LEMMA FrameInvInit == FrameInit => FrameInv
<1> SUFFICES ASSUME FrameInit PROVE FrameInv
  OBVIOUS
<1>1. frame = [root |-> 0, stack |-> <<>>, nodes |-> <<>>]
  BY DEF FrameInit, NewUITree
<1>2. DOMAIN <<>> = {} /\ Len(<<>>) = 0 /\ 1..0 = {} /\ \A S : <<>> \in Seq(S)
  OBVIOUS
<1>3. Grown(<<>>) /\ IsList(<<>>)
  BY <1>2 DEF Grown, IsList
<1>4. Shaped(frame)
  BY <1>1, <1>2, <1>3 DEF Shaped
<1> QED
  BY <1>4, FrameAssumption DEF FrameInit, FrameInv

LEMMA FrameInvStep == FrameInv /\ [FrameNext]_frameVars => FrameInv'
<1> SUFFICES ASSUME FrameInv, [FrameNext]_frameVars PROVE FrameInv'
  OBVIOUS
<1>1. CASE Build
  <2>1. Head(calls) \in BuildCalls /\ Tail(calls) \in Seq(BuildCalls)
    BY <1>1 DEF FrameInv, Build
  <2> QED
    BY <1>1, <2>1, MadeShaped DEF FrameInv, Build
<1>2. ASSUME NEW size \in Screens, ComputeUILayout(size) PROVE FrameInv'
  BY <1>2, LaidShaped DEF FrameInv, ComputeUILayout
<1>3. CASE UNCHANGED frameVars
  BY <1>3 DEF frameVars, FrameInv
<1> QED
  BY <1>1, <1>2, <1>3 DEF FrameNext

LEMMA TouchHolds == FrameInv => TouchTopmost
<1> SUFFICES ASSUME FrameInv, NEW p
             PROVE  /\ DispatchTouch(frame, p) = Topmost(p, Clickable(frame))
                    /\ HitTest(frame, p) = Topmost(p, DOMAIN frame.nodes)
  BY DEF TouchTopmost
<1>1. ASSUME NEW among \in SUBSET DOMAIN frame.nodes
      PROVE  (IF frame.root = 0 THEN 0 ELSE Hit(frame.nodes, p, among)[frame.root])
               = Topmost(p, among)
  <2> DEFINE C == Touched(frame.nodes, p, among)
  <2>1. Topmost(p, among) = LastOf(Drawn, C)
    <3>1. {i \in DOMAIN Drawn : Drawn[i] \in among /\ Covers(frame.nodes[Drawn[i]].bounds, p)}
            = Places(Drawn, C)
      BY DEF Places, Touched
    <3> QED
      BY <3>1 DEF Topmost, LastOf
  <2>2. CASE frame.root = 0
    <3>1. Drawn = <<>>
      BY <2>2 DEF Drawn
    <3>2. Places(<<>>, C) = {}
      BY DEF Places
    <3> QED
      BY <2>1, <2>2, <3>1, <3>2 DEF LastOf
  <2>3. CASE frame.root # 0
    <3>1. frame.root \in DOMAIN frame.nodes /\ Grown(frame.nodes)
      BY <2>3 DEF FrameInv, Shaped
    <3>2. Drawn = TraverseNode(frame.nodes)[frame.root]
      BY <2>3 DEF Drawn
    <3> QED
      BY <2>1, <2>3, <3>1, <3>2, HitIsLastDrawn
  <2> QED
    BY <2>2, <2>3
<1>2. Clickable(frame) \in SUBSET DOMAIN frame.nodes
  BY DEF Clickable
<1> QED
  BY <1>1, <1>2 DEF DispatchTouch, HitTest

\* However a program nests its nodes, whatever sizes the tree is laid out at, a
\* touch runs the handler of the node that was drawn last of the clickable ones
\* there, and a hit test finds the one drawn last of all (hitTestAndTrigger,
\* hitTestNode and the renderer's traverseNode).
THEOREM TouchesFindTopmost == FrameSpec => []TouchTopmost
<1> QED
  BY FrameInvInit, FrameInvStep, TouchHolds, PTL DEF FrameSpec

------------------------------------------------------------------------------
(* Sums                                                                    *)

\* What the loop has after each number, as Sums has it.
AddsUp(g, f, n) == g = [k \in 0..n |-> IF k = 0 THEN 0 ELSE g[k - 1] + f[k]]

LEMMA AddingExists ==
  ASSUME NEW f, NEW N \in Nat
  PROVE  \E g : AddsUp(g, f, N)
<1> DEFINE S == {n \in Nat : \E g : AddsUp(g, f, n)}
<1>1. 0 \in S
  <2> DEFINE g == [k \in 0..0 |-> 0]
  <2>1. \A k \in 0..0 : k = 0 /\ g[k] = 0
    OBVIOUS
  <2>2. g = [k \in 0..0 |-> g[k]]
    OBVIOUS
  <2> HIDE DEF g
  <2>3. AddsUp(g, f, 0)
    BY <2>1, <2>2 DEF AddsUp
  <2> QED
    BY <2>3
<1>2. ASSUME NEW n \in S PROVE n + 1 \in S
  <2>1. PICK g : AddsUp(g, f, n)
    OBVIOUS
  <2> DEFINE last == g[n] + f[n + 1]
             h    == [k \in 0..(n + 1) |-> IF k = n + 1 THEN last ELSE g[k]]
  <2> HIDE DEF last
  <2>2. ASSUME NEW k \in 0..(n + 1)
        PROVE  h[k] = IF k = 0 THEN 0 ELSE h[k - 1] + f[k]
    <3>1. CASE k = n + 1
      <4>1. h[k] = last
        BY <3>1
      <4>2. k # 0 /\ k - 1 = n /\ n \in 0..(n + 1) /\ n # n + 1
        BY <3>1
      <4>3. h[k - 1] = g[n]
        BY <4>2
      <4> QED
        BY <3>1, <4>1, <4>2, <4>3 DEF last
    <3>2. CASE k # n + 1
      <4>1. k \in 0..n /\ h[k] = g[k]
        BY <3>2
      <4>2. g[k] = IF k = 0 THEN 0 ELSE g[k - 1] + f[k]
        BY <2>1, <4>1 DEF AddsUp
      <4>3. k # 0 => k - 1 \in 0..(n + 1) /\ k - 1 # n + 1
        BY <4>1
      <4>4. k # 0 => h[k - 1] = g[k - 1]
        BY <4>3
      <4> QED
        BY <4>1, <4>2, <4>4
    <3> QED
      BY <3>1, <3>2
  <2>3. h = [k \in 0..(n + 1) |-> h[k]]
    OBVIOUS
  <2> HIDE DEF h
  <2>4. AddsUp(h, f, n + 1)
    BY <2>2, <2>3 DEF AddsUp
  <2> QED
    BY <2>4
<1> HIDE DEF S
<1>3. S = Nat
  BY <1>1, <1>2, SetInduction DEF S
<1> QED
  BY <1>3 DEF S

LEMMA SumsIs ==
  ASSUME NEW n \in Nat, NEW f \in [1..n -> Nat]
  PROVE  /\ Len(f) = n
         /\ Total(f) = Sums(f)[n]
         /\ Sums(f)[0] = 0
         /\ \A k \in 1..n : Sums(f)[k] = Sums(f)[k - 1] + f[k]
         /\ \A k \in 0..n : Sums(f)[k] \in Nat
<1>0. Len(f) = n
  <2>1. f = [i \in 1..n |-> f[i]]
    OBVIOUS
  <2> QED
    BY <2>1, ListOfFunction
<1> DEFINE R(h) == h = [k \in 0..Len(f) |-> IF k = 0 THEN 0 ELSE h[k - 1] + f[k]]
           g == Sums(f)
<1>1. Sums(f) = CHOOSE h : R(h)
  BY Zenon DEF Sums
<1>2. R(CHOOSE h : R(h))
  <2>1. PICK h : AddsUp(h, f, Len(f))
    BY <1>0, AddingExists
  <2>2. R(h)
    BY <2>1 DEF AddsUp
  <2> HIDE DEF R
  <2> QED
    BY <2>2
<1>3. g = [k \in 0..n |-> IF k = 0 THEN 0 ELSE g[k - 1] + f[k]]
  BY <1>0, <1>1, <1>2
<1> HIDE DEF g
<1>4. g[0] = 0 /\ \A k \in 1..n : g[k] = g[k - 1] + f[k]
  <2>1. 0 \in 0..n /\ \A k \in 1..n : k \in 0..n /\ k # 0
    OBVIOUS
  <2> QED
    BY <1>3, <2>1
<1> DEFINE S == {k \in Nat : k <= n => g[k] \in Nat}
<1>5. S = Nat
  <2>1. 0 \in S
    BY <1>4
  <2>2. ASSUME NEW k \in S PROVE k + 1 \in S
    <3> SUFFICES ASSUME k + 1 <= n PROVE g[k + 1] \in Nat
      OBVIOUS
    <3>1. k + 1 \in 1..n /\ (k + 1) - 1 = k /\ f[k + 1] \in Nat /\ g[k] \in Nat
      OBVIOUS
    <3> QED
      BY <1>4, <3>1
  <2> HIDE DEF S
  <2> QED
    BY <2>1, <2>2, SetInduction DEF S
<1>6. \A k \in 0..n : g[k] \in Nat
  BY <1>5
<1> QED
  BY <1>0, <1>4, <1>6 DEF g, Total

\* A sum grows from each of the numbers to the next.
LEMMA SumsGrow ==
  ASSUME NEW n \in Nat, NEW f \in [1..n -> Nat], NEW i \in 0..n
  PROVE  Sums(f)[i] <= Total(f)
<1> DEFINE g == Sums(f)
           S == {k \in Nat : i + k <= n => g[i] <= g[i + k]}
<1>1. /\ Total(f) = g[n] /\ \A k \in 1..n : g[k] = g[k - 1] + f[k]
      /\ \A k \in 0..n : g[k] \in Nat
  BY SumsIs
<1> HIDE DEF g
<1>2. 0 \in S
  BY <1>1
<1>3. ASSUME NEW k \in S PROVE k + 1 \in S
  <2> SUFFICES ASSUME i + (k + 1) <= n PROVE g[i] <= g[i + (k + 1)]
    OBVIOUS
  <2>1. /\ i + (k + 1) \in 1..n /\ (i + (k + 1)) - 1 = i + k
        /\ i + k \in 0..n /\ g[i] <= g[i + k]
    OBVIOUS
  <2>2. g[i + (k + 1)] = g[i + k] + f[i + (k + 1)] /\ f[i + (k + 1)] \in Nat
    BY <1>1, <2>1
  <2> QED
    BY <1>1, <2>1, <2>2
<1> HIDE DEF S
<1>4. S = Nat
  BY <1>2, <1>3, SetInduction DEF S
<1>5. n - i \in Nat /\ i + (n - i) = n
  OBVIOUS
<1>6. n - i \in S
  BY <1>4, <1>5
<1>7. g[i] <= g[i + (n - i)]
  BY <1>5, <1>6 DEF S
<1> QED
  BY <1>1, <1>5, <1>7 DEF g

\* A share of a room, and what shares come to.
LEMMA ShareIs ==
  ASSUME NEW G \in Nat \ {0}, NEW R \in Nat, NEW g \in Nat
  PROVE  /\ (g * R) \div G \in Nat
         /\ G * ((g * R) \div G) <= R * g
         /\ (g * R) % G = 0 => G * ((g * R) \div G) = R * g
<1> DEFINE a == g * R
<1>1. a \in Nat /\ a = R * g
  OBVIOUS
<1> HIDE DEF a
<1>2. /\ a \div G \in Nat
      /\ G * (a \div G) <= a
      /\ a % G = 0 => G * (a \div G) = a
  BY <1>1
<1> QED
  BY <1>1, <1>2 DEF a

LEMMA ShareAdds ==
  ASSUME NEW G \in Nat, NEW R \in Nat, NEW more \in Nat, NEW fixed \in Nat, NEW grow \in Nat,
         NEW e \in Nat, NEW f \in Nat, NEW g \in Nat,
         G * (more - fixed) <= R * grow, G * (e - f) <= R * g
  PROVE  G * ((more + e) - (fixed + f)) <= R * (grow + g)
<1>1. /\ G * ((more + e) - (fixed + f)) = G * (more - fixed) + G * (e - f)
      /\ R * (grow + g) = R * grow + R * g
  OBVIOUS
<1>2. /\ G * (more - fixed) \in Int /\ G * (e - f) \in Int
      /\ R * grow \in Int /\ R * g \in Int
  OBVIOUS
<1> QED
  BY <1>1, <1>2

LEMMA WholeShareAdds ==
  ASSUME NEW G \in Nat, NEW R \in Nat, NEW more \in Nat, NEW fixed \in Nat, NEW grow \in Nat,
         NEW e \in Nat, NEW f \in Nat, NEW g \in Nat,
         G * (more - fixed) = R * grow, G * (e - f) = R * g
  PROVE  G * ((more + e) - (fixed + f)) = R * (grow + g)
<1>1. /\ G * ((more + e) - (fixed + f)) = G * (more - fixed) + G * (e - f)
      /\ R * (grow + g) = R * grow + R * g
  OBVIOUS
<1>2. /\ G * (more - fixed) \in Int /\ G * (e - f) \in Int
      /\ R * grow \in Int /\ R * g \in Int
  OBVIOUS
<1> QED
  BY <1>1, <1>2

LEMMA ShareCancels ==
  ASSUME NEW G \in Nat \ {0}, NEW R \in Nat, NEW more \in Nat, NEW fixed \in Nat
  PROVE  /\ G * (more - fixed) <= R * G => more <= fixed + R
         /\ G * (more - fixed) = R * G => more = fixed + R
  OBVIOUS

\* The numbers an element with a share has: its share of the room, and another
\* what is fixed.
Shared(extent, fixed, grow, room, i) ==
  /\ grow[i] = 0 => extent[i] = fixed[i]
  /\ grow[i] > 0 => fixed[i] = 0 /\ extent[i] = (grow[i] * room) \div Total(grow)

\* Shares take what is left when each is whole, and otherwise no more.
LEMMA SharesSum ==
  ASSUME NEW n \in Nat, NEW R \in Nat, NEW extent \in [1..n -> Nat],
         NEW fixed \in [1..n -> Nat], NEW grow \in [1..n -> Nat],
         \A i \in 1..n : Shared(extent, fixed, grow, R, i)
  PROVE  /\ Total(grow) = 0 => Total(extent) = Total(fixed)
         /\ Total(grow) > 0 => Total(extent) <= Total(fixed) + R
         /\ Total(grow) > 0 /\ (\A i \in 1..n : grow[i] > 0 => (grow[i] * R) % Total(grow) = 0)
              => Total(extent) = Total(fixed) + R
<1> DEFINE E == Sums(extent)
           P == Sums(fixed)
           Q == Sums(grow)
           G == Total(grow)
<1>a. /\ E[0] = 0 /\ Total(extent) = E[n] /\ \A k \in 1..n : E[k] = E[k - 1] + extent[k]
      /\ \A k \in 0..n : E[k] \in Nat
  BY SumsIs
<1>b. /\ P[0] = 0 /\ Total(fixed) = P[n] /\ \A k \in 1..n : P[k] = P[k - 1] + fixed[k]
      /\ \A k \in 0..n : P[k] \in Nat
  BY SumsIs
<1>c. /\ Q[0] = 0 /\ G = Q[n] /\ \A k \in 1..n : Q[k] = Q[k - 1] + grow[k]
      /\ \A k \in 0..n : Q[k] \in Nat
  BY SumsIs
<1>d. \A i \in 0..n : Q[i] <= G
  BY SumsGrow
<1>e. \A i \in 1..n : Shared(extent, fixed, grow, R, i)
  OBVIOUS
<1> HIDE DEF E, P, Q, G
<1>1. /\ E[0] = 0 /\ Total(extent) = E[n] /\ \A k \in 1..n : E[k] = E[k - 1] + extent[k]
      /\ P[0] = 0 /\ Total(fixed) = P[n] /\ \A k \in 1..n : P[k] = P[k - 1] + fixed[k]
      /\ Q[0] = 0 /\ G = Q[n] /\ \A k \in 1..n : Q[k] = Q[k - 1] + grow[k]
      /\ \A k \in 0..n : E[k] \in Nat /\ P[k] \in Nat /\ Q[k] \in Nat
  BY <1>a, <1>b, <1>c
<1>2. G \in Nat
  BY <1>1
<1>3. \A i \in 1..n : /\ grow[i] = 0 => extent[i] = fixed[i]
                      /\ grow[i] > 0 => fixed[i] = 0 /\ extent[i] = (grow[i] * R) \div G
  BY <1>e DEF Shared, G
<1>4. \A i \in 1..n : grow[i] <= G
  <2> SUFFICES ASSUME NEW i \in 1..n PROVE grow[i] <= G
    OBVIOUS
  <2>1. i \in 0..n /\ i - 1 \in 0..n
    OBVIOUS
  <2>2. Q[i] <= G /\ Q[i] = Q[i - 1] + grow[i] /\ Q[i - 1] \in Nat
    BY <1>1, <1>d, <2>1
  <2> QED
    BY <1>2, <2>2
<1>5. ASSUME G = 0 PROVE E[n] = P[n]
  <2> DEFINE S == {k \in Nat : k <= n => E[k] = P[k]}
  <2>1. 0 \in S
    BY <1>1
  <2>2. ASSUME NEW k \in S PROVE k + 1 \in S
    <3> SUFFICES ASSUME k + 1 <= n PROVE E[k + 1] = P[k + 1]
      OBVIOUS
    <3>1. k + 1 \in 1..n /\ (k + 1) - 1 = k /\ E[k] = P[k] /\ grow[k + 1] \in Nat
      OBVIOUS
    <3>2. grow[k + 1] = 0
      BY <1>4, <1>5, <3>1
    <3>3. extent[k + 1] = fixed[k + 1]
      BY <1>3, <3>1, <3>2
    <3> QED
      BY <1>1, <3>1, <3>3
  <2> HIDE DEF S
  <2>3. S = Nat
    BY <2>1, <2>2, SetInduction DEF S
  <2> QED
    BY <2>3 DEF S
<1>6. ASSUME G > 0, NEW i \in 1..n
      PROVE  /\ G * (extent[i] - fixed[i]) <= R * grow[i]
             /\ (grow[i] > 0 => (grow[i] * R) % G = 0) => G * (extent[i] - fixed[i]) = R * grow[i]
  <2> DEFINE g == grow[i]
             e == extent[i]
             f == fixed[i]
  <2>1. g \in Nat /\ e \in Nat /\ f \in Nat /\ G \in Nat \ {0}
    BY <1>2, <1>6
  <2>2. /\ g = 0 => e = f
        /\ g > 0 => f = 0 /\ e = (g * R) \div G
    BY <1>3
  <2> HIDE DEF g, e, f
  <2>3. CASE g = 0
    <3>1. e - f = 0
      BY <2>1, <2>2, <2>3
    <3> QED
      BY <2>1, <2>3, <3>1 DEF g, e, f
  <2>4. CASE g > 0
    <3>1. e - f = (g * R) \div G
      BY <2>1, <2>2, <2>4
    <3>2. /\ G * ((g * R) \div G) <= R * g
          /\ (g * R) % G = 0 => G * ((g * R) \div G) = R * g
      BY <2>1, ShareIs
    <3>3. /\ G * (e - f) <= R * g
          /\ (g * R) % G = 0 => G * (e - f) = R * g
      BY <3>1, <3>2
    <3> QED
      BY <2>4, <3>3 DEF g, e, f
  <2> QED
    BY <2>1, <2>3, <2>4
<1>7. ASSUME G > 0 PROVE E[n] <= P[n] + R
  <2> DEFINE S == {k \in Nat : k <= n => G * (E[k] - P[k]) <= R * Q[k]}
  <2>1. 0 \in S
    BY <1>1, <1>2
  <2>2. ASSUME NEW k \in S PROVE k + 1 \in S
    <3> SUFFICES ASSUME k + 1 <= n PROVE G * (E[k + 1] - P[k + 1]) <= R * Q[k + 1]
      OBVIOUS
    <3>1. k + 1 \in 1..n /\ k \in 0..n /\ (k + 1) - 1 = k /\ G * (E[k] - P[k]) <= R * Q[k]
      OBVIOUS
    <3>2. /\ E[k + 1] = E[k] + extent[k + 1] /\ P[k + 1] = P[k] + fixed[k + 1]
          /\ Q[k + 1] = Q[k] + grow[k + 1]
          /\ E[k] \in Nat /\ P[k] \in Nat /\ Q[k] \in Nat
          /\ extent[k + 1] \in Nat /\ fixed[k + 1] \in Nat /\ grow[k + 1] \in Nat
      BY <1>1, <3>1
    <3>3. G * (extent[k + 1] - fixed[k + 1]) <= R * grow[k + 1]
      BY <1>6, <1>7, <3>1
    <3> DEFINE e == extent[k + 1]
               f == fixed[k + 1]
               g == grow[k + 1]
               more == E[k]
               less == P[k]
               sum == Q[k]
    <3>4. /\ E[k + 1] = more + e /\ P[k + 1] = less + f /\ Q[k + 1] = sum + g
          /\ e \in Nat /\ f \in Nat /\ g \in Nat /\ more \in Nat /\ less \in Nat /\ sum \in Nat
          /\ G * (more - less) <= R * sum /\ G * (e - f) <= R * g
      BY <3>1, <3>2, <3>3
    <3> HIDE DEF e, f, g, more, less, sum
    <3>5. G * ((more + e) - (less + f)) <= R * (sum + g)
      BY <1>2, <3>4, ShareAdds
    <3> QED
      BY <3>4, <3>5
  <2> HIDE DEF S
  <2>3. S = Nat
    BY <2>1, <2>2, SetInduction DEF S
  <2>4. n \in S
    BY <2>3
  <2>6. G * (E[n] - P[n]) <= R * G
    BY <1>1, <2>4 DEF S
  <2>5. E[n] \in Nat /\ P[n] \in Nat /\ G \in Nat \ {0}
    BY <1>1, <1>2, <1>7
  <2> QED
    BY <2>6, <2>5, ShareCancels
<1>8. ASSUME G > 0, \A i \in 1..n : grow[i] > 0 => (grow[i] * R) % G = 0
      PROVE  E[n] = P[n] + R
  <2> DEFINE S == {k \in Nat : k <= n => G * (E[k] - P[k]) = R * Q[k]}
  <2>1. 0 \in S
    BY <1>1, <1>2
  <2>2. ASSUME NEW k \in S PROVE k + 1 \in S
    <3> SUFFICES ASSUME k + 1 <= n PROVE G * (E[k + 1] - P[k + 1]) = R * Q[k + 1]
      OBVIOUS
    <3>1. k + 1 \in 1..n /\ k \in 0..n /\ (k + 1) - 1 = k /\ G * (E[k] - P[k]) = R * Q[k]
      OBVIOUS
    <3>2. /\ E[k + 1] = E[k] + extent[k + 1] /\ P[k + 1] = P[k] + fixed[k + 1]
          /\ Q[k + 1] = Q[k] + grow[k + 1]
          /\ E[k] \in Nat /\ P[k] \in Nat /\ Q[k] \in Nat
          /\ extent[k + 1] \in Nat /\ fixed[k + 1] \in Nat /\ grow[k + 1] \in Nat
      BY <1>1, <3>1
    <3>3. G * (extent[k + 1] - fixed[k + 1]) = R * grow[k + 1]
      BY <1>6, <1>8, <3>1
    <3> DEFINE e == extent[k + 1]
               f == fixed[k + 1]
               g == grow[k + 1]
               more == E[k]
               less == P[k]
               sum == Q[k]
    <3>4. /\ E[k + 1] = more + e /\ P[k + 1] = less + f /\ Q[k + 1] = sum + g
          /\ e \in Nat /\ f \in Nat /\ g \in Nat /\ more \in Nat /\ less \in Nat /\ sum \in Nat
          /\ G * (more - less) = R * sum /\ G * (e - f) = R * g
      BY <3>1, <3>2, <3>3
    <3> HIDE DEF e, f, g, more, less, sum
    <3>5. G * ((more + e) - (less + f)) = R * (sum + g)
      BY <1>2, <3>4, WholeShareAdds
    <3> QED
      BY <3>4, <3>5
  <2> HIDE DEF S
  <2>3. S = Nat
    BY <2>1, <2>2, SetInduction DEF S
  <2>4. n \in S
    BY <2>3
  <2>6. G * (E[n] - P[n]) = R * G
    BY <1>1, <2>4 DEF S
  <2>5. E[n] \in Nat /\ P[n] \in Nat /\ G \in Nat \ {0}
    BY <1>1, <1>2, <1>8
  <2> QED
    BY <2>6, <2>5, ShareCancels
<1>9. Total(extent) = E[n] /\ Total(fixed) = P[n]
  BY <1>1
<1> QED
  BY <1>5, <1>7, <1>8, <1>9 DEF G

------------------------------------------------------------------------------
(* Sizes                                                                   *)

\* Nodes whose numbers are none of them below zero, and rectangles like that.
Sized(node) == \A key \in DOMAIN node.props : node.props[key].n \in Nat

Boxes == [at : [Axes -> Int], size : [Axes -> Nat]]

LEMMA PropIs ==
  ASSUME NEW node, Sized(node), NEW key, NEW default \in Nat
  PROVE  Prop(node, key, default) \in Nat
  BY DEF Sized, Prop

LEMMA InsetIs ==
  ASSUME NEW node, Sized(node), NEW kind, NEW side, NEW both
  PROVE  Inset(node, kind, side, both) \in Nat
  BY PropIs DEF Inset

LEMMA AxesAre ==
  /\ \A axis \in Axes : axis = "down" \/ axis = "across"
  /\ \A axis \in Axes : Cross(axis) \in Axes /\ Cross(axis) # axis /\ Cross(Cross(axis)) = axis
  /\ \A axis, other \in Axes : other = axis \/ other = Cross(axis)
  BY DEF Axes, Cross

\* What the insets of a node leave of a rectangle lies in it, but for a side that
\* is left nothing.
LEMMA WithinIs ==
  ASSUME NEW node, Sized(node), NEW kind, NEW rect \in Rects
  PROVE  /\ Within(rect, node, kind) \in Boxes
         /\ \A axis \in Axes :
              /\ rect.at[axis] <= Within(rect, node, kind).at[axis]
              /\ Within(rect, node, kind).size[axis] > 0 =>
                   Within(rect, node, kind).at[axis] + Within(rect, node, kind).size[axis]
                     <= rect.at[axis] + rect.size[axis]
<1> DEFINE Lead(axis)  == Inset(node, kind, Before(axis), Both(axis))
           Trail(axis) == Inset(node, kind, After(axis), Both(axis))
           w == Within(rect, node, kind)
<1>1. w = [at   |-> [axis \in Axes |-> rect.at[axis] + Lead(axis)],
           size |-> [axis \in Axes |-> AtLeast(0, rect.size[axis] - (Lead(axis) + Trail(axis)))]]
  BY DEF Within
<1>2. \A axis \in Axes : Lead(axis) \in Nat /\ Trail(axis) \in Nat
  BY InsetIs
<1>3. rect.at \in [Axes -> Int] /\ rect.size \in [Axes -> Int]
  BY DEF Rects
<1> HIDE DEF Lead, Trail, w
<1>4. \A axis \in Axes :
        /\ w.at[axis] = rect.at[axis] + Lead(axis)
        /\ w.size[axis] = AtLeast(0, rect.size[axis] - (Lead(axis) + Trail(axis)))
  BY <1>1
<1>5. \A axis \in Axes : w.at[axis] \in Int /\ w.size[axis] \in Nat
  BY <1>2, <1>3, <1>4 DEF AtLeast
<1>6. w \in Boxes
  <2>1. w.at \in [Axes -> Int] /\ w.size \in [Axes -> Nat]
    BY <1>1, <1>5
  <2> QED
    BY <1>1, <2>1 DEF Boxes
<1>7. \A axis \in Axes :
        /\ rect.at[axis] <= w.at[axis]
        /\ w.size[axis] > 0 => w.at[axis] + w.size[axis] <= rect.at[axis] + rect.size[axis]
  BY <1>2, <1>3, <1>4 DEF AtLeast
<1> QED
  BY <1>6, <1>7 DEF w

\* Without insets there is all of it.
LEMMA WithinAll ==
  ASSUME NEW node, NEW kind, NEW box \in Boxes,
         \A axis \in Axes : /\ Inset(node, kind, Before(axis), Both(axis)) = 0
                            /\ Inset(node, kind, After(axis), Both(axis)) = 0
  PROVE  Within(box, node, kind) = box
<1>1. /\ box.at \in [Axes -> Int] /\ box.size \in [Axes -> Nat]
      /\ box = [at |-> box.at, size |-> box.size]
  BY DEF Boxes
<1>2. [axis \in Axes |-> box.at[axis] + Inset(node, kind, Before(axis), Both(axis))] = box.at
  BY <1>1
<1>3. [axis \in Axes |-> AtLeast(0, box.size[axis] - (Inset(node, kind, Before(axis), Both(axis))
                                                    + Inset(node, kind, After(axis), Both(axis))))]
        = box.size
  BY <1>1 DEF AtLeast
<1> QED
  BY <1>1, <1>2, <1>3 DEF Within

LEMMA BoxesAreRects == Boxes \subseteq Rects
  BY DEF Boxes, Rects

LEMMA GrowIs ==
  ASSUME NEW node, Sized(node)
  PROVE  Grow(node) \in Nat /\ Spacing(node) \in Nat
  BY PropIs DEF Grow, Spacing

\* A measure is a size.
LEMMA MeasureIs ==
  ASSUME NEW node, Sized(node), NEW axis, NEW available \in Nat
  PROVE  Measure(node, axis, available) \in Nat
<1> DEFINE size == FontSize(node)
           text == Prop(node, "text", 0)
           width == Prop(node, "width", 0)
           height == Prop(node, "height", 0)
<1>1. size \in Nat /\ text \in Nat /\ width \in Nat /\ height \in Nat
  <2>1. 14 * Pixel \in Nat
    BY PixelAssumption
  <2> QED
    BY <2>1, PropIs DEF FontSize
<1>2. TextWidth(node, available) \in Nat
  <2> HIDE DEF size, text
  <2> DEFINE wide == (text * size * 6) \div 10
  <2>1. wide \in Nat
    <3>1. text * size \in Nat
      BY <1>1
    <3> QED
      BY <3>1
  <2> HIDE DEF wide
  <2>2. AtLeast(20 * Pixel, wide) \in Nat
    BY <2>1, PixelAssumption DEF AtLeast
  <2> QED
    BY <2>2 DEF TextWidth, wide, text, size
<1>3. (size * 14) \div 10 \in Nat
  <2> HIDE DEF size
  <2> QED
    BY <1>1
<1>4. node.type \in DOMAIN Fixed => Fixed[node.type] \in Nat
  <2>1. /\ 40 * Pixel \in Nat /\ 44 * Pixel \in Nat /\ Pixel \in Nat
    BY PixelAssumption
  <2> QED
    BY <2>1 DEF Fixed
<1> HIDE DEF size, text, width, height
<1>5. MeasureWidth(node, available) \in Nat
  <2>1. CASE width > 0
    BY <1>1, <2>1 DEF MeasureWidth, width
  <2>2. CASE ~(width > 0) /\ node.type = "Text"
    <3>1. width <= 0
      BY <1>1, <2>2
    <3> QED
      BY <1>2, <2>2, <3>1 DEF MeasureWidth, width
  <2>3. CASE ~(width > 0) /\ node.type # "Text"
    <3>1. width <= 0
      BY <1>1, <2>3
    <3> QED
      BY <2>3, <3>1 DEF MeasureWidth, width
  <2> QED
    BY <2>1, <2>2, <2>3
<1>6. MeasureHeight(node, available) \in Nat
  <2>1. CASE height > 0
    BY <1>1, <2>1 DEF MeasureHeight, height
  <2>2. CASE ~(height > 0) /\ node.type = "Text"
    <3>1. height <= 0
      BY <1>1, <2>2
    <3> QED
      BY <1>3, <2>2, <3>1 DEF MeasureHeight, height, size
  <2>3. CASE ~(height > 0) /\ node.type # "Text"
    <3>1. height <= 0
      BY <1>1, <2>3
    <3> QED
      BY <1>4, <2>3, <3>1 DEF MeasureHeight, height
  <2> QED
    BY <2>1, <2>2, <2>3
<1> QED
  BY <1>5, <1>6 DEF Measure

------------------------------------------------------------------------------
(* A row or a column                                                       *)

\* What a row or a column is laid out from: it, its children, and its content.
Flexing(node, children, content, n) ==
  /\ n \in Nat \ {0}
  /\ Sized(node)
  /\ children = [i \in 1..n |-> children[i]]
  /\ \A i \in 1..n : Sized(children[i])
  /\ content \in Boxes

Extents(node, children, content) ==
  [i \in DOMAIN children |-> MainSize(node, children[i], children, content)]

LEMMA MainAxis ==
  ASSUME NEW node, NEW content \in Boxes
  PROVE  /\ Main(node) \in Axes /\ Cross(Main(node)) \in Axes /\ Cross(Main(node)) # Main(node)
         /\ \A axis \in Axes : axis = Main(node) \/ axis = Cross(Main(node))
         /\ \A axis \in Axes : content.size[axis] \in Nat /\ content.at[axis] \in Int
  BY DEF Main, Axes, Cross, Boxes

\* The children of a row or a column take what they have been measured for, and
\* those with a share no more than what is left, all of it when each is whole.
LEMMA ExtentsAre ==
  ASSUME NEW node, NEW children, NEW content, NEW n, Flexing(node, children, content, n)
  PROVE  /\ Len(children) = n /\ DOMAIN children = 1..n
         /\ Extents(node, children, content) \in [1..n -> Nat]
         /\ TotalGrow(children) \in Nat
         /\ FixedMain(children, Main(node), content) \in Nat
         /\ Remaining(node, children, content) \in Nat
         /\ LET taken == Total(Extents(node, children, content))
                fixed == FixedMain(children, Main(node), content)
                left  == Remaining(node, children, content)
            IN  /\ TotalGrow(children) = 0 => taken = fixed
                /\ TotalGrow(children) > 0 => taken <= fixed + left
                /\ TotalGrow(children) > 0 /\ SharesWhole(node, children, content)
                     => taken = fixed + left
<1> DEFINE main == Main(node)
           G == TotalGrow(children)
           R == Remaining(node, children, content)
           measured == [i \in 1..n |-> Measure(children[i], main, content.size[main])]
           grow == [i \in 1..n |-> AtLeast(0, Grow(children[i]))]
           fixed == [i \in 1..n |-> IF Grow(children[i]) > 0 THEN 0
                                    ELSE Measure(children[i], main, content.size[main])]
           extent == Extents(node, children, content)
<1>1. /\ n \in Nat \ {0} /\ Sized(node) /\ \A i \in 1..n : Sized(children[i])
      /\ children = [i \in 1..n |-> children[i]]
  BY DEF Flexing
<1>2. Len(children) = n /\ DOMAIN children = 1..n
  BY <1>1, ListOfFunction
<1>3. content.size[main] \in Nat
  BY MainAxis DEF Flexing
<1>4. \A i \in 1..n : Grow(children[i]) \in Nat /\ Measure(children[i], main, content.size[main]) \in Nat
  BY <1>1, <1>3, GrowIs, MeasureIs
<1>5. grow \in [1..n -> Nat] /\ fixed \in [1..n -> Nat] /\ \A i \in 1..n : grow[i] = Grow(children[i])
  BY <1>4 DEF AtLeast
<1>6. G = Total(grow) /\ FixedMain(children, main, content) = Total(fixed)
  BY <1>2 DEF TotalGrow, FixedMain
<1>7. G \in Nat /\ Total(fixed) \in Nat
  <2>1. Total(grow) \in Nat
    <3>1. n \in Nat /\ n \in 0..n
      BY <1>1
    <3> HIDE DEF grow
    <3> QED
      BY <1>5, <3>1, SumsIs
  <2>2. Total(fixed) \in Nat
    <3>1. n \in Nat /\ n \in 0..n
      BY <1>1
    <3> HIDE DEF fixed
    <3> QED
      BY <1>5, <3>1, SumsIs
  <2> QED
    BY <1>6, <2>1, <2>2
<1>8. R \in Nat
  <2> DEFINE spaces == Spacing(node) * (n - 1)
  <2>1. spaces \in Nat
    <3>1. Spacing(node) \in Nat /\ n - 1 \in Nat
      BY <1>1, GrowIs
    <3> QED
      BY <3>1
  <2> HIDE DEF spaces
  <2>2. R = AtLeast(0, content.size[main] - (Total(fixed) + AtLeast(0, spaces)))
    BY <1>2, <1>6 DEF Remaining, spaces
  <2> QED
    BY <1>3, <1>7, <2>1, <2>2 DEF AtLeast
<1>9. \A i \in 1..n : grow[i] <= G
  <2> HIDE DEF grow, G
  <2> SUFFICES ASSUME NEW i \in 1..n PROVE grow[i] <= G
    OBVIOUS
  <2>1. i \in 0..n /\ i - 1 \in 0..n /\ n \in Nat
    BY <1>1
  <2>2. Sums(grow)[i] <= G
    BY <1>5, <1>6, <2>1, SumsGrow
  <2>3. grow \in [1..n -> Nat] /\ n \in Nat
    BY <1>5, <2>1
  <2>4. /\ \A k \in 1..n : Sums(grow)[k] = Sums(grow)[k - 1] + grow[k]
        /\ \A k \in 0..n : Sums(grow)[k] \in Nat
    BY <2>3, SumsIs, Zenon
  <2>5. /\ Sums(grow)[i] = Sums(grow)[i - 1] + grow[i]
        /\ Sums(grow)[i - 1] \in Nat /\ grow[i] \in Nat
    BY <2>1, <2>3, <2>4
  <2> QED
    BY <1>7, <2>2, <2>5
<1>10. \A i \in 1..n : extent[i] = IF Grow(children[i]) > 0 THEN (Grow(children[i]) * R) \div G
                                   ELSE Measure(children[i], main, content.size[main])
  BY <1>2 DEF Extents, MainSize
<1>11. \A i \in 1..n : fixed[i] = IF Grow(children[i]) > 0 THEN 0
                                   ELSE Measure(children[i], main, content.size[main])
  OBVIOUS
<1>12. DOMAIN extent = 1..n /\ extent = [i \in 1..n |-> extent[i]]
  BY <1>2 DEF Extents
<1> HIDE DEF G, R, grow, fixed, extent, main
<1>13. \A i \in 1..n : extent[i] \in Nat
  <2> SUFFICES ASSUME NEW i \in 1..n PROVE extent[i] \in Nat
    OBVIOUS
  <2>1. CASE Grow(children[i]) > 0
    <3>1. G \in Nat \ {0} /\ Grow(children[i]) \in Nat
      BY <1>4, <1>5, <1>7, <1>9, <2>1
    <3>2. (Grow(children[i]) * R) \div G \in Nat
      BY <1>8, <3>1, ShareIs
    <3> QED
      BY <1>10, <2>1, <3>2
  <2>2. CASE ~(Grow(children[i]) > 0)
    BY <1>4, <1>10, <2>2
  <2> QED
    BY <2>1, <2>2
<1>14. extent \in [1..n -> Nat]
  BY <1>12, <1>13
<1>15. \A i \in 1..n : Shared(extent, fixed, grow, R, i)
  BY <1>4, <1>5, <1>6, <1>10, <1>11 DEF Shared
<1>16. /\ Total(grow) = 0 => Total(extent) = Total(fixed)
       /\ Total(grow) > 0 => Total(extent) <= Total(fixed) + R
       /\ Total(grow) > 0 /\ (\A i \in 1..n : grow[i] > 0 => (grow[i] * R) % Total(grow) = 0)
            => Total(extent) = Total(fixed) + R
  <2>1. n \in Nat
    BY <1>1
  <2> QED
    BY <1>5, <1>8, <1>14, <1>15, <2>1, SharesSum
<1>17. SharesWhole(node, children, content)
         => \A i \in 1..n : grow[i] > 0 => (grow[i] * R) % Total(grow) = 0
  BY <1>2, <1>5, <1>6 DEF SharesWhole, R, G
<1> QED
  BY <1>2, <1>6, <1>7, <1>8, <1>14, <1>16, <1>17 DEF G, R, extent, main

\* What comes before the first child and between two is no more than what is left.
LEMMA JustifiedIs ==
  ASSUME NEW node, NEW children, NEW content, NEW n, Flexing(node, children, content, n)
  PROVE  LET gaps == Justified(node, children, content)
             left == Remaining(node, children, content)
         IN  /\ gaps.lead \in Nat /\ gaps.gap \in Nat /\ gaps.gap >= Spacing(node)
             /\ TotalGrow(children) # 0 => gaps.lead = 0 /\ gaps.gap = Spacing(node)
             /\ TotalGrow(children) = 0 =>
                  gaps.lead + gaps.gap * (n - 1) <= left + Spacing(node) * (n - 1)
<1> DEFINE left == Remaining(node, children, content)
           sp == Spacing(node)
           justify == Word(node, "justifyContent", "flex-start")
           gaps == Justified(node, children, content)
           Fits(lead, gap) == /\ lead \in Nat /\ gap \in Nat /\ gap >= sp
                              /\ lead + gap * (n - 1) <= left + sp * (n - 1)
<1>1. n \in Nat \ {0} /\ left \in Nat /\ sp \in Nat /\ Len(children) = n
  BY ExtentsAre, GrowIs DEF Flexing
<1>2. TotalGrow(children) # 0 => gaps.lead = 0 /\ gaps.gap = sp
  BY <1>1 DEF Justified
<1>3. TotalGrow(children) = 0 =>
        gaps = CASE justify = "center"                  -> [lead |-> left \div 2, gap |-> sp + 0]
                 [] justify = "flex-end"                -> [lead |-> left, gap |-> sp + 0]
                 [] justify = "space-between" /\ n > 1 -> [lead |-> 0, gap |-> sp + left \div (n - 1)]
                 [] justify = "space-around" ->
                      [lead |-> (left \div n) \div 2, gap |-> sp + left \div n]
                 [] OTHER                               -> [lead |-> 0, gap |-> sp + 0]
  BY <1>1, Zenon DEF Justified
<1>4. TotalGrow(children) = 0 =>
        \/ gaps.lead = left \div 2 /\ gaps.gap = sp
        \/ gaps.lead = left /\ gaps.gap = sp
        \/ n > 1 /\ gaps.lead = 0 /\ gaps.gap = sp + left \div (n - 1)
        \/ gaps.lead = (left \div n) \div 2 /\ gaps.gap = sp + left \div n
        \/ gaps.lead = 0 /\ gaps.gap = sp
  <2> HIDE DEF left, sp, justify, gaps
  <2> QED
    BY <1>1, <1>3
<1> HIDE DEF left, sp, justify, gaps
<1>5. left \div 2 \in Nat /\ left \div 2 <= left /\ Fits(left \div 2, sp)
  <2>1. left \div 2 \in Nat /\ left \div 2 <= left
    BY <1>1
  <2>2. sp * (n - 1) \in Nat
    BY <1>1
  <2> QED
    BY <1>1, <2>1, <2>2
<1>6. Fits(left, sp) /\ Fits(0, sp)
  <2>1. sp * (n - 1) \in Nat
    BY <1>1
  <2> QED
    BY <1>1, <2>1
<1>7. n > 1 => Fits(0, sp + left \div (n - 1))
  <2> SUFFICES ASSUME n > 1 PROVE Fits(0, sp + left \div (n - 1))
    OBVIOUS
  <2> DEFINE m == n - 1
             q == left \div m
  <2>1. m \in Nat \ {0}
    BY <1>1
  <2> HIDE DEF m
  <2>2. q \in Nat /\ q * m <= left
    BY <1>1, <2>1
  <2> HIDE DEF q
  <2>3. (sp + q) * m = sp * m + q * m /\ sp * m \in Nat /\ q * m \in Nat
    BY <1>1, <2>1, <2>2
  <2>4. 0 + (sp + q) * m <= left + sp * m
    BY <1>1, <2>2, <2>3
  <2>5. sp + q \in Nat /\ sp + q >= sp
    BY <1>1, <2>2
  <2> QED
    BY <2>4, <2>5 DEF m, q
<1>8. Fits((left \div n) \div 2, sp + left \div n)
  <2> DEFINE q == left \div n
             h == q \div 2
             m == n - 1
  <2>1. q \in Nat /\ q * n <= left
    BY <1>1
  <2> HIDE DEF q
  <2>2. h \in Nat /\ h <= q
    BY <2>1
  <2> HIDE DEF h
  <2>3. m \in Nat /\ n = m + 1
    BY <1>1
  <2> HIDE DEF m
  <2>4. q * n = q * m + q /\ (sp + q) * m = sp * m + q * m /\ sp * m \in Nat /\ q * m \in Nat
    BY <1>1, <2>1, <2>3
  <2>5. h + (sp + q) * m <= left + sp * m
    BY <1>1, <2>1, <2>2, <2>4
  <2>6. sp + q \in Nat /\ sp + q >= sp
    BY <1>1, <2>1
  <2> QED
    BY <2>2, <2>5, <2>6 DEF m, q, h
<1>9. TotalGrow(children) = 0 => Fits(gaps.lead, gaps.gap)
  <2> HIDE DEF Fits
  <2> QED
    BY <1>4, <1>5, <1>6, <1>7, <1>8
<1> QED
  BY <1>1, <1>2, <1>9 DEF left, sp, gaps

\* Across, a child with room for it lies in the content.
LEMMA AlignedIs ==
  ASSUME NEW node, NEW child, Sized(child), NEW content \in Boxes
  PROVE  LET axis == Cross(Main(node))
             span == Aligned(node, child, content)
         IN  /\ span.at \in Int /\ span.size \in Nat
             /\ Measure(child, axis, content.size[axis]) <= content.size[axis] =>
                  /\ content.at[axis] <= span.at
                  /\ span.at + span.size <= content.at[axis] + content.size[axis]
<1> DEFINE axis == Cross(Main(node))
           room == content.size[axis]
           at == content.at[axis]
           size == Measure(child, axis, room)
           align == Word(node, "alignItems", "flex-start")
           span == Aligned(node, child, content)
<1>1. room \in Nat /\ at \in Int
  BY MainAxis
<1>2. size \in Nat
  BY <1>1, MeasureIs
<1>3. span = CASE align = "center"   -> [at |-> at + (room - size) \div 2, size |-> size]
               [] align = "flex-end" -> [at |-> at + (room - size), size |-> size]
               [] align = "stretch"  -> [at |-> at + 0, size |-> room]
               [] OTHER              -> [at |-> at + 0, size |-> size]
  BY Zenon DEF Aligned
<1> HIDE DEF room, at, size, align, span
<1>4. \/ span.at = at + (room - size) \div 2 /\ span.size = size
      \/ span.at = at + (room - size) /\ span.size = size
      \/ span.at = at + 0 /\ span.size = room
      \/ span.at = at + 0 /\ span.size = size
  BY <1>3
<1>5. /\ (room - size) \div 2 \in Int
      /\ size <= room => 0 <= (room - size) \div 2 /\ (room - size) \div 2 <= room - size
  BY <1>1, <1>2
<1>6. /\ span.at \in Int /\ span.size \in Nat
      /\ size <= room => at <= span.at /\ span.at + span.size <= at + room
  BY <1>1, <1>2, <1>4, <1>5
<1> QED
  BY <1>6 DEF room, at, size, span

\* The boxes of the children.
LEMMA FlexedIs ==
  ASSUME NEW node, NEW children, NEW content, NEW n, Flexing(node, children, content, n),
         NEW i \in 1..n
  PROVE  LET box    == Flexed(node, children, content)[i]
             main   == Main(node)
             gaps   == Justified(node, children, content)
             extent == Extents(node, children, content)
             span   == Aligned(node, children[i], content)
         IN  /\ box \in Boxes
             /\ box.at[main] = content.at[main] + gaps.lead + Sums(extent)[i - 1] + gaps.gap * (i - 1)
             /\ box.size[main] = extent[i]
             /\ box.at[Cross(main)] = span.at /\ box.size[Cross(main)] = span.size
<1> DEFINE box == Flexed(node, children, content)[i]
           main == Main(node)
           gaps == Justified(node, children, content)
           extent == Extents(node, children, content)
           span == Aligned(node, children[i], content)
           start == content.at[main] + gaps.lead + Sums(extent)[i - 1] + gaps.gap * (i - 1)
<1>1. /\ DOMAIN children = 1..n /\ n \in Nat \ {0} /\ Sized(children[i]) /\ content \in Boxes
      /\ extent \in [1..n -> Nat]
  BY ExtentsAre DEF Flexing
<1>2. box = [at   |-> [axis \in Axes |-> IF axis = main THEN start ELSE span.at],
             size |-> [axis \in Axes |-> IF axis = main THEN extent[i] ELSE span.size]]
  BY <1>1 DEF Flexed, Extents
<1>3. span.at \in Int /\ span.size \in Nat
  BY <1>1, AlignedIs
<1>4. /\ main \in Axes /\ Cross(main) \in Axes /\ Cross(main) # main /\ content.at[main] \in Int
  BY <1>1, MainAxis
<1>5. extent[i] \in Nat
  BY <1>1
<1>6. gaps.lead \in Nat /\ gaps.gap \in Nat
  BY JustifiedIs
<1>7. Sums(extent)[i - 1] \in Nat
  <2>1. i - 1 \in 0..n /\ n \in Nat
    BY <1>1
  <2> HIDE DEF extent
  <2> QED
    BY <1>1, <2>1, SumsIs
<1>8. start \in Int
  <2>1. gaps.gap * (i - 1) \in Int
    BY <1>1, <1>6
  <2> HIDE DEF gaps, extent, main
  <2> QED
    BY <1>4, <1>6, <1>7, <2>1
<1> HIDE DEF box, start, extent, span, main
<1>9. box \in Boxes
  <2>1. [axis \in Axes |-> IF axis = main THEN start ELSE span.at] \in [Axes -> Int]
    BY <1>3, <1>8
  <2>2. [axis \in Axes |-> IF axis = main THEN extent[i] ELSE span.size] \in [Axes -> Nat]
    BY <1>3, <1>5
  <2> QED
    BY <1>2, <2>1, <2>2 DEF Boxes
<1>10. /\ box.at[main] = start /\ box.size[main] = extent[i]
       /\ box.at[Cross(main)] = span.at /\ box.size[Cross(main)] = span.size
  BY <1>2, <1>4
<1> QED
  BY <1>9, <1>10 DEF box, start, extent, span, main

\* With room for them, the boxes lie one after the other in the content, the
\* spacing apart, and fill it when shares do.
LEMMA BoxesFit ==
  ASSUME NEW node, NEW children, NEW content, NEW n, Flexing(node, children, content, n),
         FixedMain(children, Main(node), content) + Spacing(node) * (n - 1)
           <= content.size[Main(node)]
  PROVE  LET box(i) == Flexed(node, children, content)[i]
             main   == Main(node)
         IN  /\ \A i \in 1..n : /\ Near(content, main) <= Near(box(i), main)
                                 /\ Far(box(i), main) <= Far(content, main)
             /\ \A i \in 1..(n - 1) :
                  Far(box(i), main) + Spacing(node) <= Near(box(i + 1), main)
             /\ TotalGrow(children) > 0 /\ SharesWhole(node, children, content) =>
                  Near(box(1), main) = Near(content, main) /\ Far(box(n), main) = Far(content, main)
<1> DEFINE box(i) == Flexed(node, children, content)[i]
           main == Main(node)
           gaps == Justified(node, children, content)
           extent == Extents(node, children, content)
           X == content.at[main]
           S == content.size[main]
           P == Sums(extent)
           G == TotalGrow(children)
           F == FixedMain(children, main, content)
           R == Remaining(node, children, content)
           sp == Spacing(node)
           lead == gaps.lead
           gap == gaps.gap
           start(i) == X + lead + P[i - 1] + gap * (i - 1)
<1>1. /\ n \in Nat \ {0} /\ Len(children) = n /\ extent \in [1..n -> Nat]
      /\ G \in Nat /\ F \in Nat /\ R \in Nat /\ sp \in Nat
      /\ X \in Int /\ S \in Nat
  BY ExtentsAre, GrowIs, MainAxis DEF Flexing
<1>2. /\ G = 0 => Total(extent) = F
      /\ G > 0 => Total(extent) <= F + R
      /\ G > 0 /\ SharesWhole(node, children, content) => Total(extent) = F + R
  BY ExtentsAre
<1>3. /\ lead \in Nat /\ gap \in Nat /\ gap >= sp
      /\ G # 0 => lead = 0 /\ gap = sp
      /\ G = 0 => lead + gap * (n - 1) <= R + sp * (n - 1)
  BY JustifiedIs
<1>4. sp * (n - 1) \in Nat
  <2> HIDE DEF sp
  <2> QED
    BY <1>1
<1>5. F + sp * (n - 1) + R = S
  <2>1. R = AtLeast(0, S - (F + AtLeast(0, sp * (n - 1))))
    BY <1>1 DEF Remaining
  <2>2. F + sp * (n - 1) <= S
    OBVIOUS
  <2> HIDE DEF R, S, F, sp
  <2> QED
    BY <1>1, <1>4, <2>1, <2>2 DEF AtLeast
<1>6. /\ P[0] = 0 /\ P[n] = Total(extent)
      /\ \A k \in 1..n : P[k] = P[k - 1] + extent[k]
      /\ \A k \in 0..n : P[k] \in Nat
  <2>1. n \in Nat
    BY <1>1
  <2> HIDE DEF extent
  <2> QED
    BY <1>1, <2>1, SumsIs
<1>7. \A i \in 0..n : P[i] <= Total(extent)
  <2>1. n \in Nat
    BY <1>1
  <2> HIDE DEF extent
  <2> QED
    BY <1>1, <2>1, SumsGrow
<1>8. \A i \in 1..n : box(i).at[main] = start(i) /\ box(i).size[main] = extent[i]
  BY FlexedIs
<1> HIDE DEF main, extent, X, S, P, G, F, R, sp, lead, gap, box
<1>9. \A i \in 1..n : gap * (i - 1) \in Nat /\ gap * (i - 1) <= gap * (n - 1)
  BY <1>1, <1>3
<1>10. lead + Total(extent) + gap * (n - 1) <= S
  <2>1. CASE G = 0
    <3> DEFINE a == gap * (n - 1)
               b == sp * (n - 1)
    <3>1. a \in Nat /\ b \in Nat
      BY <1>1, <1>3, <1>4
    <3>2. Total(extent) = F /\ lead + a <= R + b /\ F + b + R = S
      BY <1>2, <1>3, <1>5, <2>1
    <3> HIDE DEF a, b
    <3>3. lead + Total(extent) + a <= S
      BY <1>1, <1>3, <3>1, <3>2
    <3> QED
      BY <3>3 DEF a
  <2>2. CASE G # 0
    <3> DEFINE b == sp * (n - 1)
    <3>1. b \in Nat /\ F + b + R = S
      BY <1>4, <1>5
    <3>2. Total(extent) <= F + R /\ lead = 0 /\ gap * (n - 1) = b /\ Total(extent) \in Nat
      BY <1>1, <1>2, <1>3, <1>6, <2>2
    <3> HIDE DEF b
    <3>3. 0 + Total(extent) + b <= S
      BY <1>1, <3>1, <3>2
    <3> QED
      BY <3>2, <3>3
  <2> QED
    BY <2>1, <2>2
<1>11. ASSUME NEW i \in 1..n
       PROVE  X <= start(i) /\ start(i) + extent[i] <= X + S
  <2> DEFINE a == gap * (i - 1)
             b == gap * (n - 1)
  <2>1. i - 1 \in 0..n /\ i \in 0..n /\ a \in Nat /\ b \in Nat /\ a <= b
    BY <1>1, <1>3, <1>9
  <2>2. /\ P[i - 1] \in Nat /\ P[i] \in Nat /\ P[i] = P[i - 1] + extent[i]
        /\ P[i] <= Total(extent) /\ Total(extent) \in Nat /\ extent[i] \in Nat
    BY <1>1, <1>6, <1>7, <2>1
  <2>3. lead + Total(extent) + b <= S
    BY <1>10
  <2> DEFINE p == P[i - 1]
             e == extent[i]
             t == Total(extent)
  <2>4. /\ p \in Nat /\ e \in Nat /\ t \in Nat /\ p + e <= t /\ lead + t + b <= S
        /\ X \in Int /\ S \in Nat /\ lead \in Nat
    BY <1>1, <1>3, <2>2, <2>3
  <2> HIDE DEF a, b, p, e, t
  <2>5. X <= X + lead + p + a /\ X + lead + p + a + e <= X + S
    BY <2>1, <2>4
  <2> QED
    BY <2>5 DEF a, p, e
<1>12. ASSUME NEW i \in 1..(n - 1)
       PROVE  start(i) + extent[i] + sp <= start(i + 1)
  <2> DEFINE a == gap * (i - 1)
             b == gap * i
  <2>1. i - 1 \in 0..n /\ i \in 1..n /\ i \in 0..n /\ i + 1 \in 1..n /\ (i + 1) - 1 = i
    BY <1>1
  <2>2. a \in Nat /\ b = a + gap
    BY <1>3, <2>1
  <2>3. P[i - 1] \in Nat /\ P[i] = P[i - 1] + extent[i] /\ extent[i] \in Nat
    BY <1>1, <1>6, <2>1
  <2>4. start(i + 1) = X + lead + P[i] + b
    BY <2>1
  <2> HIDE DEF a, b
  <2>5. X + lead + P[i - 1] + a + extent[i] + sp <= X + lead + P[i] + b
    BY <1>1, <1>3, <2>2, <2>3
  <2> QED
    BY <2>4, <2>5 DEF a
<1>13. ASSUME G > 0, SharesWhole(node, children, content)
       PROVE  start(1) = X /\ start(n) + extent[n] = X + S
  <2> DEFINE b == sp * (n - 1)
  <2>1. lead = 0 /\ gap = sp /\ Total(extent) = F + R
    BY <1>1, <1>2, <1>3, <1>13
  <2>2. /\ P[n] = P[n - 1] + extent[n] /\ P[n - 1] \in Nat /\ extent[n] \in Nat
        /\ P[n] = Total(extent)
    <3>1. n \in 1..n /\ n - 1 \in 0..n
      BY <1>1
    <3> QED
      BY <1>1, <1>6, <3>1
  <2>3. start(1) = X
    <3>1. 1 - 1 = 0 /\ gap * 0 = 0
      BY <1>3
    <3> QED
      BY <1>1, <1>6, <2>1, <3>1
  <2>4. start(n) = X + 0 + P[n - 1] + b
    BY <2>1
  <2>5. b \in Nat /\ F + b + R = S
    BY <1>4, <1>5
  <2> HIDE DEF b
  <2> DEFINE p == P[n - 1]
             e == extent[n]
  <2>6. /\ p \in Nat /\ e \in Nat /\ p + e = F + R
        /\ F \in Nat /\ R \in Nat /\ X \in Int /\ S \in Nat
    BY <1>1, <2>1, <2>2
  <2> HIDE DEF p, e
  <2>7. X + 0 + p + b + e = X + S
    BY <2>5, <2>6
  <2> QED
    BY <2>3, <2>4, <2>7 DEF p, e
<1>14. /\ \A i \in 1..n : Near(content, main) <= Near(box(i), main)
                         /\ Far(box(i), main) <= Far(content, main)
       /\ \A i \in 1..(n - 1) : Far(box(i), main) + sp <= Near(box(i + 1), main)
       /\ G > 0 /\ SharesWhole(node, children, content) =>
            Near(box(1), main) = Near(content, main) /\ Far(box(n), main) = Far(content, main)
  <2>1. \A i \in 1..n : Near(box(i), main) = start(i) /\ Far(box(i), main) = start(i) + extent[i]
    BY <1>8 DEF Near, Far
  <2>2. Near(content, main) = X /\ Far(content, main) = X + S
    BY DEF Near, Far, X, S
  <2>3. /\ 1 \in 1..n /\ n \in 1..n
        /\ \A i \in 1..(n - 1) : i \in 1..n /\ i + 1 \in 1..n
    BY <1>1
  <2> HIDE DEF start
  <2> QED
    BY <1>11, <1>12, <1>13, <2>1, <2>2, <2>3
<1> QED
  BY <1>14 DEF main, G, sp, box

------------------------------------------------------------------------------
(* Rooms                                                                   *)

\* A node is where a node around it has it, and that one was begun before.
LEMMA SpotsAre ==
  ASSUME NEW nodes, Grown(nodes), NEW id \in DOMAIN nodes
  PROVE  /\ \A at \in Spots(nodes, id) :
              /\ at[1] \in DOMAIN nodes /\ at[1] < id
              /\ at[2] \in DOMAIN nodes[at[1]].children
              /\ nodes[at[1]].children[at[2]] = id
         /\ \A around \in DOMAIN nodes : \A i \in DOMAIN nodes[around].children :
              nodes[around].children[i] = id => <<around, i>> \in Spots(nodes, id)
<1>1. Len(nodes) \in Nat /\ DOMAIN nodes = 1..Len(nodes)
  BY DEF Grown
<1>2. ASSUME NEW at \in Spots(nodes, id)
      PROVE  /\ at[1] \in DOMAIN nodes /\ at[2] \in DOMAIN nodes[at[1]].children
             /\ nodes[at[1]].children[at[2]] = id
  BY DEF Spots
<1>3. ASSUME NEW at \in Spots(nodes, id) PROVE at[1] < id
  <2>1. id \in (at[1] + 1)..Len(nodes) /\ at[1] \in 1..Len(nodes)
    BY <1>1, <1>2, ChildrenLater
  <2> QED
    BY <1>1, <2>1
<1>4. ASSUME NEW around \in DOMAIN nodes, NEW i \in DOMAIN nodes[around].children,
             nodes[around].children[i] = id
      PROVE  <<around, i>> \in Spots(nodes, id)
  BY <1>4 DEF Spots
<1> QED
  BY <1>2, <1>3, <1>4

\* The rooms of a node, once they are known for those around it.
RoomsFrom(rooms, nodes, id) ==
  UNION {{RoomIn(nodes, at[1], at[2], room) : room \in rooms[at[1]]} : at \in Spots(nodes, id)}

Rooms(rooms, nodes, root, window, n) ==
  rooms = [id \in 1..n |-> IF id = root THEN {window} ELSE RoomsFrom(rooms, nodes, id)]

LEMMA RoomsExist ==
  ASSUME NEW nodes, Grown(nodes), NEW root, NEW window
  PROVE  \E rooms : Rooms(rooms, nodes, root, window, Len(nodes))
<1> DEFINE N == Len(nodes)
           S == {n \in Nat : n <= N => \E g : Rooms(g, nodes, root, window, n)}
<1>1. N \in Nat /\ DOMAIN nodes = 1..N
  BY DEF Grown
<1>2. 0 \in S
  <2> DEFINE g == [k \in 1..0 |-> {}]
  <2>1. g = [k \in 1..0 |-> IF k = root THEN {window} ELSE RoomsFrom(g, nodes, k)]
    OBVIOUS
  <2> HIDE DEF g
  <2>2. Rooms(g, nodes, root, window, 0)
    BY <2>1 DEF Rooms
  <2> QED
    BY <2>2
<1>3. ASSUME NEW n \in S PROVE n + 1 \in S
  <2> SUFFICES ASSUME n + 1 <= N PROVE \E g : Rooms(g, nodes, root, window, n + 1)
    OBVIOUS
  <2>1. PICK g : Rooms(g, nodes, root, window, n)
    BY <1>1
  <2> DEFINE last == IF n + 1 = root THEN {window} ELSE RoomsFrom(g, nodes, n + 1)
             h    == [k \in 1..(n + 1) |-> IF k = n + 1 THEN last ELSE g[k]]
  <2>2. ASSUME NEW k \in 1..(n + 1) PROVE RoomsFrom(h, nodes, k) = RoomsFrom(g, nodes, k)
    <3>1. k \in DOMAIN nodes
      BY <1>1
    <3>2. \A at \in Spots(nodes, k) : at[1] \in 1..(n + 1) /\ at[1] # n + 1
      BY <1>1, <3>1, SpotsAre
    <3>3. \A at \in Spots(nodes, k) : h[at[1]] = g[at[1]]
      BY <3>2
    <3> HIDE DEF h
    <3> QED
      BY <3>3 DEF RoomsFrom
  <2>3. ASSUME NEW k \in 1..(n + 1)
        PROVE  h[k] = IF k = root THEN {window} ELSE RoomsFrom(g, nodes, k)
    <3>1. CASE k = n + 1
      BY <3>1
    <3>2. CASE k # n + 1
      <4>1. k \in 1..n /\ h[k] = g[k]
        BY <3>2
      <4> HIDE DEF h
      <4> QED
        BY <2>1, <4>1 DEF Rooms
    <3> QED
      BY <3>1, <3>2
  <2>4. h = [k \in 1..(n + 1) |-> h[k]]
    OBVIOUS
  <2> HIDE DEF h
  <2>5. Rooms(h, nodes, root, window, n + 1)
    BY <2>2, <2>3, <2>4 DEF Rooms
  <2> QED
    BY <2>5
<1> HIDE DEF S
<1>4. S = Nat
  BY <1>2, <1>3, SetInduction DEF S
<1> QED
  BY <1>1, <1>4 DEF S

\* The layout comes to an end, and goes to each node as the code says.
LEMMA RoomsAre ==
  ASSUME NEW nodes, Grown(nodes), NEW root, NEW window
  PROVE  Rooms(LayoutNode(nodes, root, window), nodes, root, window, Len(nodes))
<1> DEFINE N == Len(nodes)
           R(g) == g = [id \in DOMAIN nodes |->
                          IF id = root THEN {window}
                          ELSE UNION {{RoomIn(nodes, at[1], at[2], room) : room \in g[at[1]]} :
                                        at \in Spots(nodes, id)}]
<1>1. N \in Nat /\ DOMAIN nodes = 1..N
  BY DEF Grown
<1>2. LayoutNode(nodes, root, window) = CHOOSE g : R(g)
  BY Zenon DEF LayoutNode
<1>3. R(CHOOSE g : R(g))
  <2>1. PICK g : Rooms(g, nodes, root, window, N)
    BY RoomsExist
  <2>2. R(g)
    BY <1>1, <2>1 DEF Rooms, RoomsFrom
  <2> HIDE DEF R
  <2> QED
    BY <2>2
<1> DEFINE g == LayoutNode(nodes, root, window)
<1>4. g = [id \in DOMAIN nodes |-> IF id = root THEN {window} ELSE RoomsFrom(g, nodes, id)]
  <2>1. R(g)
    <3> HIDE DEF R
    <3> QED
      BY <1>2, <1>3
  <2> HIDE DEF g
  <2> QED
    BY <2>1 DEF RoomsFrom
<1> HIDE DEF g
<1>5. Rooms(g, nodes, root, window, N)
  BY <1>1, <1>4 DEF Rooms
<1> QED
  BY <1>5 DEF g

------------------------------------------------------------------------------
(* Where a node is does not change where its room is                       *)

LooksAs(a, b) == a.type = b.type /\ a.props = b.props

LEMMA SameLooks ==
  ASSUME NEW a, NEW b, LooksAs(a, b)
  PROVE  /\ \A key, default : Prop(a, key, default) = Prop(b, key, default)
         /\ \A key, default : Word(a, key, default) = Word(b, key, default)
         /\ \A kind, side, both : Inset(a, kind, side, both) = Inset(b, kind, side, both)
         /\ \A rect, kind : Within(rect, a, kind) = Within(rect, b, kind)
         /\ \A room : Content(a, room) = Content(b, room)
         /\ Grow(a) = Grow(b) /\ Spacing(a) = Spacing(b)
         /\ Main(a) = Main(b) /\ Flexes(a) = Flexes(b)
         /\ \A axis, available : Measure(a, axis, available) = Measure(b, axis, available)
<1>1. \A key, default : Prop(a, key, default) = Prop(b, key, default)
  BY DEF LooksAs, Prop
<1>2. \A key, default : Word(a, key, default) = Word(b, key, default)
  BY DEF LooksAs, Word
<1>3. \A kind, side, both : Inset(a, kind, side, both) = Inset(b, kind, side, both)
  BY <1>1 DEF Inset
<1>4. \A rect, kind : Within(rect, a, kind) = Within(rect, b, kind)
  BY <1>3 DEF Within
<1>5. \A room : Content(a, room) = Content(b, room)
  BY <1>4 DEF Content
<1>6. Grow(a) = Grow(b) /\ Spacing(a) = Spacing(b) /\ Main(a) = Main(b) /\ Flexes(a) = Flexes(b)
  BY <1>1 DEF LooksAs, Grow, Spacing, Main, Flexes
<1>7. FontSize(a) = FontSize(b)
  BY <1>1 DEF FontSize
<1>8. \A available : TextWidth(a, available) = TextWidth(b, available)
  BY <1>1, <1>7 DEF TextWidth
<1>9. \A available : MeasureWidth(a, available) = MeasureWidth(b, available)
  BY <1>1, <1>8 DEF LooksAs, MeasureWidth
<1>10. \A available : MeasureHeight(a, available) = MeasureHeight(b, available)
  BY <1>1, <1>7 DEF LooksAs, MeasureHeight
<1>11. \A axis, available : Measure(a, axis, available) = Measure(b, axis, available)
  BY <1>9, <1>10 DEF Measure
<1> QED
  BY <1>1, <1>2, <1>3, <1>4, <1>5, <1>6, <1>11

LEMMA SameBoxes ==
  ASSUME NEW a, NEW b, LooksAs(a, b), NEW n \in Nat, NEW f, NEW g,
         f = [i \in 1..n |-> f[i]], g = [i \in 1..n |-> g[i]],
         \A i \in 1..n : LooksAs(f[i], g[i]), NEW content
  PROVE  /\ TotalGrow(f) = TotalGrow(g)
         /\ \A axis : FixedMain(f, axis, content) = FixedMain(g, axis, content)
         /\ Remaining(a, f, content) = Remaining(b, g, content)
         /\ SharesWhole(a, f, content) <=> SharesWhole(b, g, content)
         /\ Flexed(a, f, content) = Flexed(b, g, content)
<1>1. /\ DOMAIN f = 1..n /\ DOMAIN g = 1..n /\ Len(f) = n /\ Len(g) = n
  BY ListOfFunction
<1>2. \A i \in 1..n : Grow(f[i]) = Grow(g[i])
  BY SameLooks
<1>3. \A i \in 1..n : \A axis, available : Measure(f[i], axis, available) = Measure(g[i], axis, available)
  BY SameLooks
<1>4. Main(a) = Main(b) /\ Spacing(a) = Spacing(b)
  BY SameLooks
<1>5. TotalGrow(f) = TotalGrow(g)
  <2>1. [i \in DOMAIN f |-> AtLeast(0, Grow(f[i]))] = [i \in DOMAIN g |-> AtLeast(0, Grow(g[i]))]
    BY <1>1, <1>2
  <2> QED
    BY <2>1 DEF TotalGrow
<1>6. \A axis : FixedMain(f, axis, content) = FixedMain(g, axis, content)
  <2> SUFFICES ASSUME NEW axis PROVE FixedMain(f, axis, content) = FixedMain(g, axis, content)
    OBVIOUS
  <2>1. [i \in DOMAIN f |-> IF Grow(f[i]) > 0 THEN 0 ELSE Measure(f[i], axis, content.size[axis])]
          = [i \in DOMAIN g |-> IF Grow(g[i]) > 0 THEN 0 ELSE Measure(g[i], axis, content.size[axis])]
    BY <1>1, <1>2, <1>3
  <2> QED
    BY <2>1 DEF FixedMain
<1>7. Remaining(a, f, content) = Remaining(b, g, content)
  BY <1>1, <1>4, <1>6 DEF Remaining
<1>8. SharesWhole(a, f, content) <=> SharesWhole(b, g, content)
  BY <1>1, <1>2, <1>5, <1>7 DEF SharesWhole
<1>9. \A i \in 1..n : MainSize(a, f[i], f, content) = MainSize(b, g[i], g, content)
  BY <1>2, <1>3, <1>4, <1>5, <1>7 DEF MainSize
<1>10. Justified(a, f, content) = Justified(b, g, content)
  <2>1. Word(a, "justifyContent", "flex-start") = Word(b, "justifyContent", "flex-start")
    BY SameLooks
  <2> QED
    BY <1>1, <1>4, <1>5, <1>7, <2>1 DEF Justified
<1>11. \A i \in 1..n : Aligned(a, f[i], content) = Aligned(b, g[i], content)
  <2>1. Word(a, "alignItems", "flex-start") = Word(b, "alignItems", "flex-start")
    BY SameLooks
  <2> QED
    BY <1>3, <1>4, <2>1 DEF Aligned
<1>12. Flexed(a, f, content) = Flexed(b, g, content)
  <2> DEFINE e == [i \in 1..n |-> MainSize(a, f[i], f, content)]
             h == [i \in 1..n |-> MainSize(b, g[i], g, content)]
  <2>1. e = h
    BY <1>9
  <2> DEFINE box(x, extent, gaps, main, span) ==
               [at   |-> [axis \in Axes |->
                            IF axis = main
                            THEN content.at[main] + gaps.lead + Sums(extent)[x - 1] + gaps.gap * (x - 1)
                            ELSE span.at],
                size |-> [axis \in Axes |-> IF axis = main THEN extent[x] ELSE span.size]]
  <2>2. Flexed(a, f, content)
          = [i \in 1..n |-> box(i, e, Justified(a, f, content), Main(a), Aligned(a, f[i], content))]
    BY <1>1 DEF Flexed
  <2>3. Flexed(b, g, content)
          = [i \in 1..n |-> box(i, h, Justified(b, g, content), Main(b), Aligned(b, g[i], content))]
    BY <1>1 DEF Flexed
  <2> HIDE DEF e, h, box
  <2> QED
    BY <1>4, <1>10, <1>11, <2>1, <2>2, <2>3
<1> QED
  BY <1>5, <1>6, <1>7, <1>8, <1>12

\* Nodes with the same widgets and children.
SameTree(nodes, others) ==
  /\ DOMAIN nodes = DOMAIN others
  /\ \A id \in DOMAIN nodes : LooksAs(nodes[id], others[id]) /\ nodes[id].children = others[id].children

LEMMA SameRooms ==
  ASSUME NEW nodes, NEW others, Grown(nodes), Grown(others), SameTree(nodes, others)
  PROVE  /\ \A id \in DOMAIN nodes : Spots(nodes, id) = Spots(others, id)
         /\ \A room : \A id \in DOMAIN nodes : \A i \in DOMAIN nodes[id].children :
              RoomIn(nodes, id, i, room) = RoomIn(others, id, i, room)
         /\ \A root : \A id \in DOMAIN nodes : Given(nodes, root, id) <=> Given(others, root, id)
<1>1. \A id \in DOMAIN nodes : Spots(nodes, id) = Spots(others, id)
  BY DEF Spots, SameTree
<1>2. ASSUME NEW id \in DOMAIN nodes, NEW room, NEW i \in DOMAIN nodes[id].children
      PROVE  RoomIn(nodes, id, i, room) = RoomIn(others, id, i, room)
  <2> DEFINE f == Children(nodes, id)
             g == Children(others, id)
             n == Len(nodes[id].children)
             content == Content(nodes[id], room)
  <2>1. /\ n \in Nat /\ DOMAIN nodes[id].children = 1..n
        /\ others[id].children = nodes[id].children /\ LooksAs(nodes[id], others[id])
    BY DEF Grown, SameTree
  <2>2. /\ f = [j \in 1..n |-> nodes[nodes[id].children[j]]]
        /\ g = [j \in 1..n |-> others[nodes[id].children[j]]]
    BY <2>1 DEF Children
  <2>3. \A j \in 1..n : LooksAs(nodes[nodes[id].children[j]], others[nodes[id].children[j]])
    BY <2>1, ChildrenLater DEF SameTree
  <2>4. /\ f = [j \in 1..n |-> f[j]] /\ g = [j \in 1..n |-> g[j]]
        /\ \A j \in 1..n : LooksAs(f[j], g[j])
    BY <2>2, <2>3
  <2>5. Content(others[id], room) = content /\ Within(room, nodes[id], "margin") = Within(room, others[id], "margin")
        /\ Flexes(nodes[id]) = Flexes(others[id])
    BY <2>1, SameLooks
  <2> HIDE DEF f, g, n, content
  <2>6. Flexed(nodes[id], f, content) = Flexed(others[id], g, content)
    BY <2>1, <2>4, SameBoxes
  <2> QED
    BY <2>5, <2>6 DEF RoomIn, f, g, content
<1>3. ASSUME NEW root, NEW id \in DOMAIN nodes
      PROVE  Given(nodes, root, id) <=> Given(others, root, id)
  <2>1. \A k \in DOMAIN nodes : Flexes(nodes[k]) = Flexes(others[k])
    BY SameLooks DEF SameTree
  <2>2. \A at \in Spots(nodes, id) : at[1] \in DOMAIN nodes
    BY SpotsAre
  <2> QED
    BY <1>1, <2>1, <2>2 DEF Given
<1> QED
  BY <1>1, <1>2, <1>3

------------------------------------------------------------------------------
(* Each node has at most one room, and what is drawn has one               *)

\* A node is in one place of one node, and the root in none.
OnePlace(nodes, root) ==
  /\ \A a, b \in DOMAIN nodes : \A i \in DOMAIN nodes[a].children : \A j \in DOMAIN nodes[b].children :
       nodes[a].children[i] = nodes[b].children[j] => a = b /\ i = j
  /\ \A a \in DOMAIN nodes : \A i \in DOMAIN nodes[a].children : nodes[a].children[i] # root

AllSized(nodes) == \A id \in DOMAIN nodes : Sized(nodes[id])

LEMMA EarlierInduction ==
  ASSUME NEW n \in Nat, NEW S \in SUBSET (1..n),
         \A id \in 1..n : (\A j \in 1..n : j < id => j \in S) => id \in S
  PROVE  S = 1..n
<1> DEFINE T == {m \in Nat : \A id \in 1..n : id <= m => id \in S}
<1>1. 0 \in T
  OBVIOUS
<1>2. ASSUME NEW m \in T PROVE m + 1 \in T
  <2> SUFFICES ASSUME NEW id \in 1..n, id <= m + 1 PROVE id \in S
    OBVIOUS
  <2>1. \A j \in 1..n : j < id => j \in S
    OBVIOUS
  <2> QED
    BY <2>1
<1> HIDE DEF T
<1>3. T = Nat
  BY <1>1, <1>2, SetInduction DEF T
<1>4. n \in T /\ \A id \in 1..n : id <= n
  BY <1>3
<1> QED
  BY <1>4 DEF T

LEMMA OneRoom ==
  ASSUME NEW nodes, Grown(nodes), NEW root, OnePlace(nodes, root), NEW window
  PROVE  \A id \in DOMAIN nodes : \A r, q \in LayoutNode(nodes, root, window)[id] : r = q
<1> DEFINE n == Len(nodes)
           rooms == LayoutNode(nodes, root, window)
           S == {id \in 1..n : \A r, q \in rooms[id] : r = q}
<1>1. n \in Nat /\ DOMAIN nodes = 1..n
  BY DEF Grown
<1>2. \A id \in 1..n : rooms[id] = IF id = root THEN {window} ELSE RoomsFrom(rooms, nodes, id)
  <2>1. Rooms(rooms, nodes, root, window, n)
    BY RoomsAre
  <2> HIDE DEF rooms, n
  <2> QED
    BY <2>1 DEF Rooms
<1>3. \A id \in 1..n : \A x, y \in Spots(nodes, id) : x[1] = y[1] /\ x[2] = y[2]
  BY <1>1, SpotsAre DEF OnePlace
<1>4. \A id \in 1..n : \A at \in Spots(nodes, id) : at[1] \in 1..n /\ at[1] < id
  BY <1>1, SpotsAre
<1> HIDE DEF n, rooms
<1>5. ASSUME NEW id \in 1..n, \A j \in 1..n : j < id => j \in S PROVE id \in S
  <2> SUFFICES ASSUME NEW r \in rooms[id], NEW q \in rooms[id] PROVE r = q
    OBVIOUS
  <2>1. CASE id = root
    BY <1>2, <2>1
  <2>2. CASE id # root
    <3>1. r \in RoomsFrom(rooms, nodes, id) /\ q \in RoomsFrom(rooms, nodes, id)
      BY <1>2, <2>2
    <3>2. PICK x \in Spots(nodes, id) : \E room \in rooms[x[1]] : r = RoomIn(nodes, x[1], x[2], room)
      BY <3>1 DEF RoomsFrom
    <3>3. PICK y \in Spots(nodes, id) : \E room \in rooms[y[1]] : q = RoomIn(nodes, y[1], y[2], room)
      BY <3>1 DEF RoomsFrom
    <3>4. x[1] = y[1] /\ x[2] = y[2] /\ x[1] \in S
      BY <1>3, <1>4, <1>5
    <3> QED
      BY <3>2, <3>3, <3>4
  <2> QED
    BY <2>1, <2>2
<1> HIDE DEF S
<1>6. S = 1..n
  BY <1>1, <1>5, EarlierInduction DEF S
<1> QED
  BY <1>1, <1>6 DEF S, rooms

\* A node with a room, and its i-th child.
LEMMA RoomBelow ==
  ASSUME NEW nodes, Grown(nodes), NEW root, NEW window, NEW id \in DOMAIN nodes,
         NEW i \in DOMAIN nodes[id].children, nodes[id].children[i] # root,
         NEW room \in LayoutNode(nodes, root, window)[id]
  PROVE  RoomIn(nodes, id, i, room) \in LayoutNode(nodes, root, window)[nodes[id].children[i]]
<1> DEFINE rooms == LayoutNode(nodes, root, window)
           child == nodes[id].children[i]
<1>1. child \in DOMAIN nodes
  BY ChildrenLater
<1>2. rooms[child] = RoomsFrom(rooms, nodes, child)
  <2>1. Rooms(rooms, nodes, root, window, Len(nodes)) /\ child \in 1..Len(nodes) /\ child # root
    BY <1>1, RoomsAre DEF Grown
  <2> HIDE DEF rooms, child
  <2> QED
    BY <2>1 DEF Rooms
<1>3. <<id, i>> \in Spots(nodes, child)
  BY <1>1, SpotsAre
<1>4. RoomIn(nodes, id, i, room) \in RoomsFrom(rooms, nodes, child)
  <2> DEFINE at == <<id, i>>
  <2>1. at[1] = id /\ at[2] = i /\ at \in Spots(nodes, child) /\ room \in rooms[at[1]]
    BY <1>3
  <2> HIDE DEF at, rooms, child
  <2> QED
    BY <2>1 DEF RoomsFrom
<1> QED
  BY <1>2, <1>4

\* What a row or a column has of its tree.
LEMMA FlexingIs ==
  ASSUME NEW nodes, Grown(nodes), AllSized(nodes), NEW id \in DOMAIN nodes,
         nodes[id].children # <<>>, NEW room \in Boxes
  PROVE  Flexing(nodes[id], Children(nodes, id), Content(nodes[id], room), Len(nodes[id].children))
<1> DEFINE n == Len(nodes[id].children)
           f == Children(nodes, id)
<1>1. n \in Nat \ {0} /\ DOMAIN nodes[id].children = 1..n
  BY DEF Grown
<1>2. f = [i \in 1..n |-> nodes[nodes[id].children[i]]]
  BY <1>1 DEF Children
<1>3. \A i \in 1..n : Sized(f[i])
  BY <1>1, <1>2, ChildrenLater DEF AllSized
<1>4. Content(nodes[id], room) \in Boxes
  <2>1. Sized(nodes[id])
    BY DEF AllSized
  <2>2. Within(room, nodes[id], "margin") \in Boxes
    BY <2>1, BoxesAreRects, WithinIs
  <2>3. Within(Within(room, nodes[id], "margin"), nodes[id], "padding") \in Boxes
    BY <2>1, <2>2, BoxesAreRects, WithinIs
  <2> QED
    BY <2>3 DEF Content
<1>5. f = [i \in 1..n |-> f[i]]
  BY <1>2
<1> HIDE DEF n, f
<1> QED
  BY <1>1, <1>3, <1>4, <1>5 DEF Flexing, AllSized, n, f

LEMMA RoomsAreBoxes ==
  ASSUME NEW nodes, Grown(nodes), AllSized(nodes), NEW root, NEW window \in Boxes
  PROVE  \A id \in DOMAIN nodes : LayoutNode(nodes, root, window)[id] \subseteq Boxes
<1> DEFINE n == Len(nodes)
           rooms == LayoutNode(nodes, root, window)
           S == {id \in 1..n : rooms[id] \subseteq Boxes}
<1>1. n \in Nat /\ DOMAIN nodes = 1..n
  BY DEF Grown
<1>2. \A id \in 1..n : rooms[id] = IF id = root THEN {window} ELSE RoomsFrom(rooms, nodes, id)
  <2>1. Rooms(rooms, nodes, root, window, n)
    BY RoomsAre
  <2> HIDE DEF rooms, n
  <2> QED
    BY <2>1 DEF Rooms
<1>3. \A id \in 1..n : \A at \in Spots(nodes, id) :
        at[1] \in 1..n /\ at[1] < id /\ at[2] \in DOMAIN nodes[at[1]].children
  BY <1>1, SpotsAre
<1>4. ASSUME NEW id \in 1..n, NEW i \in DOMAIN nodes[id].children, NEW room \in Boxes
      PROVE  RoomIn(nodes, id, i, room) \in Boxes
  <2>1. CASE Flexes(nodes[id])
    <3>1. nodes[id].children # <<>> /\ i \in 1..Len(nodes[id].children)
      BY <1>1, <1>4 DEF Grown
    <3>2. Flexing(nodes[id], Children(nodes, id), Content(nodes[id], room), Len(nodes[id].children))
      BY <1>1, <3>1, FlexingIs
    <3>3. Flexed(nodes[id], Children(nodes, id), Content(nodes[id], room))[i] \in Boxes
      BY <3>1, <3>2, FlexedIs
    <3> QED
      BY <2>1, <3>3 DEF RoomIn
  <2>2. CASE ~Flexes(nodes[id])
    <3>1. Within(room, nodes[id], "margin") \in Boxes
      BY <1>1, BoxesAreRects, WithinIs DEF AllSized
    <3> QED
      BY <2>2, <3>1 DEF RoomIn
  <2> QED
    BY <2>1, <2>2
<1> HIDE DEF n, rooms
<1>5. ASSUME NEW id \in 1..n, \A j \in 1..n : j < id => j \in S PROVE id \in S
  <2> SUFFICES ASSUME NEW r \in rooms[id] PROVE r \in Boxes
    OBVIOUS
  <2>1. CASE id = root
    BY <1>2, <2>1
  <2>2. CASE id # root
    <3>1. r \in RoomsFrom(rooms, nodes, id)
      BY <1>2, <2>2
    <3>2. PICK x \in Spots(nodes, id) : \E room \in rooms[x[1]] : r = RoomIn(nodes, x[1], x[2], room)
      BY <3>1 DEF RoomsFrom
    <3>3. x[1] \in S /\ x[1] \in 1..n /\ x[2] \in DOMAIN nodes[x[1]].children
      BY <1>3, <1>5
    <3> QED
      BY <1>4, <3>2, <3>3
  <2> QED
    BY <2>1, <2>2
<1> HIDE DEF S
<1>6. S = 1..n
  BY <1>1, <1>5, EarlierInduction DEF S
<1> QED
  BY <1>1, <1>6 DEF S, rooms

\* The same widgets have the same rooms.
LEMMA SameLayout ==
  ASSUME NEW nodes, NEW others, Grown(nodes), Grown(others), SameTree(nodes, others),
         NEW root, NEW window
  PROVE  \A id \in DOMAIN nodes :
           LayoutNode(nodes, root, window)[id] = LayoutNode(others, root, window)[id]
<1> DEFINE n == Len(nodes)
           rooms == LayoutNode(nodes, root, window)
           likes == LayoutNode(others, root, window)
           S == {id \in 1..n : rooms[id] = likes[id]}
<1>1. n \in Nat /\ DOMAIN nodes = 1..n /\ DOMAIN others = 1..n /\ Len(others) = n
  <2>1. /\ n \in Nat /\ DOMAIN nodes = 1..n /\ DOMAIN others = 1..n
        /\ Len(others) \in Nat /\ 1..Len(others) = 1..n
    BY DEF Grown, SameTree
  <2>2. \A a, b \in Nat : 1..a = 1..b => a <= b
    <3> SUFFICES ASSUME NEW a \in Nat, NEW b \in Nat, 1..a = 1..b, a > b PROVE FALSE
      OBVIOUS
    <3>1. a \in 1..a /\ a \notin 1..b
      OBVIOUS
    <3> QED
      BY <3>1
  <2>3. Len(others) <= n /\ n <= Len(others)
    BY <2>1, <2>2
  <2> QED
    BY <2>1, <2>3
<1>2. \A id \in 1..n :
        /\ rooms[id] = IF id = root THEN {window} ELSE RoomsFrom(rooms, nodes, id)
        /\ likes[id] = IF id = root THEN {window} ELSE RoomsFrom(likes, others, id)
  <2>1. Rooms(rooms, nodes, root, window, n) /\ Rooms(likes, others, root, window, n)
    BY <1>1, RoomsAre
  <2> HIDE DEF rooms, likes, n
  <2> QED
    BY <2>1 DEF Rooms
<1>3. \A id \in 1..n : \A at \in Spots(nodes, id) :
        at[1] \in 1..n /\ at[1] < id /\ at[2] \in DOMAIN nodes[at[1]].children
  BY <1>1, SpotsAre
<1>4. /\ \A id \in 1..n : Spots(nodes, id) = Spots(others, id)
      /\ \A room : \A id \in 1..n : \A i \in DOMAIN nodes[id].children :
           RoomIn(nodes, id, i, room) = RoomIn(others, id, i, room)
  BY <1>1, SameRooms
<1> HIDE DEF n, rooms, likes
<1>5. ASSUME NEW id \in 1..n, \A j \in 1..n : j < id => j \in S PROVE id \in S
  <2>1. \A at \in Spots(nodes, id) : rooms[at[1]] = likes[at[1]]
    BY <1>3, <1>5
  <2>2. \A at \in Spots(nodes, id) : \A room :
          RoomIn(nodes, at[1], at[2], room) = RoomIn(others, at[1], at[2], room)
    BY <1>3, <1>4
  <2>3. RoomsFrom(rooms, nodes, id) = RoomsFrom(likes, others, id)
    <3>1. \A r : r \in RoomsFrom(rooms, nodes, id) <=>
                 \E at \in Spots(nodes, id) : \E room \in rooms[at[1]] :
                   r = RoomIn(nodes, at[1], at[2], room)
      BY DEF RoomsFrom
    <3>2. \A r : r \in RoomsFrom(likes, others, id) <=>
                 \E at \in Spots(others, id) : \E room \in likes[at[1]] :
                   r = RoomIn(others, at[1], at[2], room)
      BY DEF RoomsFrom
    <3>3. Spots(nodes, id) = Spots(others, id)
      BY <1>4
    <3>4. ASSUME NEW r
          PROVE  r \in RoomsFrom(rooms, nodes, id) <=> r \in RoomsFrom(likes, others, id)
      <4>1. ASSUME NEW at \in Spots(nodes, id)
            PROVE  (\E room \in rooms[at[1]] : r = RoomIn(nodes, at[1], at[2], room))
                     <=> \E room \in likes[at[1]] : r = RoomIn(others, at[1], at[2], room)
        BY <2>1, <2>2
      <4> QED
        BY <3>1, <3>2, <3>3, <4>1
    <3> QED
      BY <3>4
  <2> QED
    BY <1>2, <2>3
<1>6. S \in SUBSET (1..n)
  OBVIOUS
<1> HIDE DEF S
<1>7. S = 1..n
  BY <1>1, <1>5, <1>6, EarlierInduction
<1> QED
  BY <1>1, <1>7 DEF S, rooms, likes

\* What is drawn of a node that has a room has one.
LEMMA DrawnHaveRooms ==
  ASSUME NEW nodes, Grown(nodes), NEW root, OnePlace(nodes, root), NEW window,
         NEW id \in DOMAIN nodes, LayoutNode(nodes, root, window)[id] # {}
  PROVE  \A k \in Range(TraverseNode(nodes)[id]) :
           k \in DOMAIN nodes /\ LayoutNode(nodes, root, window)[k] # {}
<1> DEFINE n == Len(nodes)
           rooms == LayoutNode(nodes, root, window)
           drawn == TraverseNode(nodes)
           H == {k \in 1..n : rooms[k] # {}}
           S == {k \in 1..n : rooms[k] # {} => drawn[k] \in Seq(H)}
<1>1. n \in Nat /\ DOMAIN nodes = 1..n
  BY DEF Grown
<1>2. \A k \in 1..n : drawn[k] = <<k>> \o FlattenSeq(Under(drawn, nodes, k))
  BY <1>1, TraverseIs DEF Draws
<1>3. \A k \in 1..n : \A i \in DOMAIN nodes[k].children :
        /\ nodes[k].children[i] \in (k + 1)..n /\ nodes[k].children[i] \in 1..n
        /\ rooms[k] # {} => rooms[nodes[k].children[i]] # {}
  BY <1>1, ChildrenLater, RoomBelow DEF OnePlace
<1>4. \A k \in 1..n : /\ Len(nodes[k].children) \in Nat
                      /\ DOMAIN nodes[k].children = 1..Len(nodes[k].children)
  BY <1>1 DEF Grown
<1> HIDE DEF n, rooms, drawn
<1>5. ASSUME NEW k \in 1..n, \A j \in (k + 1)..n : j \in S PROVE k \in S
  <2> SUFFICES ASSUME rooms[k] # {} PROVE drawn[k] \in Seq(H)
    OBVIOUS
  <2>1. \A i \in DOMAIN nodes[k].children : drawn[nodes[k].children[i]] \in Seq(H)
    BY <1>3, <1>5
  <2>2. k \in H
    OBVIOUS
  <2> HIDE DEF H
  <2>3. Under(drawn, nodes, k) \in Seq(Seq(H))
    <3>1. Under(drawn, nodes, k) \in [1..Len(nodes[k].children) -> Seq(H)]
      BY <1>4, <2>1 DEF Under
    <3> QED
      BY <1>4, <3>1, SeqDef
  <2>4. FlattenSeq(Under(drawn, nodes, k)) \in Seq(H)
    BY <2>3, FlattenedType
  <2>5. <<k>> \o FlattenSeq(Under(drawn, nodes, k)) \in Seq(H)
    <3> DEFINE below == FlattenSeq(Under(drawn, nodes, k))
    <3>1. below \in Seq(H) /\ <<k>> \in Seq(H)
      BY <2>2, <2>4
    <3> HIDE DEF below
    <3>2. <<k>> \o below \in Seq(H)
      BY <3>1
    <3> QED
      BY <3>2 DEF below
  <2> QED
    BY <1>2, <2>5
<1>6. S = 1..n
  <2> HIDE DEF S
  <2> QED
    BY <1>1, <1>5, BackwardInduction DEF S
<1>7. drawn[id] \in Seq(H)
  BY <1>1, <1>6 DEF rooms
<1>8. \A k \in Range(drawn[id]) : k \in H
  <2> HIDE DEF H
  <2> QED
    BY <1>7 DEF Range
<1> QED
  BY <1>1, <1>8 DEF drawn, rooms

------------------------------------------------------------------------------
(* Laid out frames                                                         *)

\* The bounds LayoutNode gives a node in its room.
BoundsIn(node, room) == IF Flexes(node) THEN room ELSE Within(room, node, "margin")

LaidOut(nodes, root, window) ==
  \A id \in DOMAIN nodes : \A room \in LayoutNode(nodes, root, window)[id] :
    Given(nodes, root, id) => nodes[id].bounds = BoundsIn(nodes[id], room)

\* Every frame is a tree with natural numbers, and once it has been laid out no
\* call changes it, so that its nodes have the bounds of their rooms.
FitInv ==
  /\ FrameInv
  /\ calls \in Seq(NaturalCalls)
  /\ AllSized(frame.nodes) /\ OnePlace(frame.nodes, frame.root)
  /\ screen \in Nat \X Nat
  /\ screen # <<0, 0>> => /\ calls = <<>> /\ frame.root # 0
                          /\ LaidOut(frame.nodes, frame.root, Rect(0, 0, screen[1], screen[2]))

LEMMA FitInvInit == NoneNegative /\ FrameInit => FitInv
<1> SUFFICES ASSUME NoneNegative, FrameInit PROVE FitInv
  OBVIOUS
<1>1. FrameInv
  BY FrameInvInit
<1>2. frame.nodes = <<>> /\ DOMAIN <<>> = {}
  BY DEF FrameInit, NewUITree
<1>3. AllSized(frame.nodes) /\ OnePlace(frame.nodes, frame.root)
  BY <1>2 DEF AllSized, OnePlace
<1>4. calls \in Seq(NaturalCalls) /\ screen = <<0, 0>>
  BY DEF FrameInit, NoneNegative
<1> QED
  BY <1>1, <1>3, <1>4 DEF FitInv

LEMMA BeginFits ==
  ASSUME NEW t, Shaped(t), AllSized(t.nodes), OnePlace(t.nodes, t.root), NEW type
  PROVE  /\ AllSized(BeginNode(t, type).nodes)
         /\ OnePlace(BeginNode(t, type).nodes, BeginNode(t, type).root)
<1> DEFINE u == BeginNode(t, type)
           n == Len(t.nodes)
           longer == Append(t.nodes, Node(type))
           top == Last(t.stack)
<1>1. /\ n \in Nat /\ DOMAIN t.nodes = 1..n
      /\ DOMAIN longer = 1..(n + 1) /\ IsList(longer)
      /\ \A i \in 1..n : longer[i] = t.nodes[i]
      /\ longer[n + 1] = Node(type)
  BY ListAppend DEF Shaped
<1>2. /\ u.root = IF t.stack = <<>> /\ t.root = 0 THEN n + 1 ELSE t.root
      /\ u.nodes = IF t.stack = <<>> THEN longer
                   ELSE [longer EXCEPT ![top].children = Append(@, n + 1)]
  BY DEF BeginNode
<1>3. t.root \in 0..n /\ (t.stack # <<>> => top \in 1..n)
  BY <1>1, LastOpen DEF Shaped
<1>4. /\ \A id \in 1..n : /\ DOMAIN t.nodes[id] = Fields
                           /\ t.nodes[id].children \in Seq(1..n)
      /\ Node(type).props = <<>> /\ Node(type).children = <<>>
  <2>1. \A id \in 1..n : t.nodes[id].children \in Seq((id + 1)..n)
    BY <1>1 DEF Shaped, Grown
  <2>2. ASSUME NEW id \in 1..n PROVE t.nodes[id].children \in Seq(1..n)
    <3>1. (id + 1)..n \subseteq 1..n
      BY <1>1
    <3> DEFINE A == (id + 1)..n
               B == 1..n
    <3>2. A \subseteq B /\ t.nodes[id].children \in Seq(A)
      BY <2>1, <3>1
    <3> HIDE DEF A, B
    <3>3. t.nodes[id].children \in Seq(B)
      BY <3>2, SeqWider
    <3> QED
      BY <3>3 DEF B
  <2> QED
    BY <1>1, <2>2 DEF Shaped, Node
<1> HIDE DEF u, n, longer, top
<1>5. /\ DOMAIN u.nodes = 1..(n + 1)
      /\ \A id \in 1..(n + 1) :
           IF t.stack # <<>> /\ id = top
           THEN /\ u.nodes[id].props = t.nodes[id].props
                /\ u.nodes[id].children = Append(t.nodes[id].children, n + 1)
           ELSE u.nodes[id] = longer[id]
  <2>1. CASE t.stack = <<>>
    BY <1>1, <1>2, <2>1
  <2>2. CASE t.stack # <<>>
    <3>1. top \in DOMAIN longer /\ longer[top] = t.nodes[top] /\ DOMAIN t.nodes[top] = Fields
      BY <1>1, <1>3, <1>4, <2>2
    <3>2. u.nodes = [longer EXCEPT ![top] = [longer[top] EXCEPT !.children = Append(@, n + 1)]]
      BY <1>2, <2>2
    <3>3. \A id \in 1..(n + 1) : id # top => u.nodes[id] = longer[id]
      BY <1>1, <3>2
    <3>4. u.nodes[top] = [t.nodes[top] EXCEPT !.children = Append(@, n + 1)]
      BY <3>1, <3>2
    <3>5. /\ u.nodes[top].props = t.nodes[top].props
          /\ u.nodes[top].children = Append(t.nodes[top].children, n + 1)
      BY <3>1, <3>4 DEF Fields
    <3>6. DOMAIN u.nodes = 1..(n + 1)
      BY <1>1, <3>2
    <3> QED
      BY <2>2, <3>3, <3>5, <3>6
  <2> QED
    BY <2>1, <2>2
<1>6. AllSized(u.nodes)
  <2> SUFFICES ASSUME NEW id \in 1..(n + 1) PROVE Sized(u.nodes[id])
    BY <1>5 DEF AllSized
  <2>1. CASE id = n + 1
    <3>1. u.nodes[id].props = <<>> /\ DOMAIN <<>> = {}
      BY <1>1, <1>3, <1>4, <1>5, <2>1
    <3> QED
      BY <3>1 DEF Sized
  <2>2. CASE id # n + 1
    <3>1. id \in 1..n /\ u.nodes[id].props = t.nodes[id].props
      BY <1>1, <1>5, <2>2
    <3>2. Sized(t.nodes[id])
      BY <1>1, <3>1 DEF AllSized
    <3> QED
      BY <3>1, <3>2 DEF Sized
  <2> QED
    BY <2>1, <2>2
\* A child is one that was there, in its place, or the new node.
<1>7. ASSUME NEW a \in 1..(n + 1), NEW i \in DOMAIN u.nodes[a].children
      PROVE  \/ /\ a \in 1..n /\ i \in DOMAIN t.nodes[a].children
                /\ u.nodes[a].children[i] = t.nodes[a].children[i]
                /\ u.nodes[a].children[i] \in 1..n
             \/ /\ t.stack # <<>> /\ a = top /\ i = Len(t.nodes[top].children) + 1
                /\ u.nodes[a].children[i] = n + 1
  <2>1. CASE t.stack # <<>> /\ a = top
    <3> DEFINE cs == t.nodes[top].children
    <3>1. cs \in Seq(1..n) /\ top \in 1..n
      BY <1>3, <1>4, <2>1
    <3>2. u.nodes[a].children = Append(cs, n + 1)
      BY <1>5, <2>1
    <3> HIDE DEF cs
    <3> DEFINE B == 1..n
    <3>a. cs \in Seq(B)
      BY <3>1
    <3>b. n + 1 \in Nat
      BY <1>1
    <3> DEFINE m == n + 1
    <3> HIDE DEF B, m
    <3>c. /\ Len(cs) \in Nat /\ DOMAIN cs = 1..Len(cs) /\ \A j \in 1..Len(cs) : cs[j] \in B
      BY <3>a
    <3>d. cs \in Seq(B \cup {m})
      BY <3>a, SeqWider, B \subseteq B \cup {m}
    <3>e. /\ DOMAIN Append(cs, m) = 1..(Len(cs) + 1)
          /\ \A j \in 1..Len(cs) : Append(cs, m)[j] = cs[j]
          /\ Append(cs, m)[Len(cs) + 1] = m
      BY <3>c, <3>d
    <3>3. /\ Len(cs) \in Nat /\ DOMAIN cs = 1..Len(cs) /\ DOMAIN Append(cs, n + 1) = 1..(Len(cs) + 1)
          /\ \A j \in 1..Len(cs) : Append(cs, n + 1)[j] = cs[j] /\ cs[j] \in 1..n
          /\ Append(cs, n + 1)[Len(cs) + 1] = n + 1
      BY <3>c, <3>e DEF B, m
    <3>4. i \in 1..Len(cs) \/ i = Len(cs) + 1
      BY <3>2, <3>3
    <3> QED
      BY <2>1, <3>1, <3>2, <3>3, <3>4 DEF cs
  <2>2. CASE ~(t.stack # <<>> /\ a = top)
    <3>1. u.nodes[a] = longer[a]
      BY <1>5, <2>2
    <3>2. a # n + 1
      <4>1. a = n + 1 => DOMAIN u.nodes[a].children = {}
        BY <1>1, <1>4, <3>1
      <4> QED
        BY <4>1
    <3>3. a \in 1..n /\ u.nodes[a] = t.nodes[a]
      BY <1>1, <3>1, <3>2
    <3>4. t.nodes[a].children[i] \in 1..n
      <4> DEFINE cs == t.nodes[a].children
                 B == 1..n
      <4>1. cs \in Seq(B) /\ i \in DOMAIN cs
        BY <1>4, <3>3
      <4> HIDE DEF cs, B
      <4>2. cs[i] \in B
        BY <4>1
      <4> QED
        BY <4>2 DEF cs, B
    <3> QED
      BY <3>3, <3>4
  <2> QED
    BY <2>1, <2>2
<1>8. /\ \A a, b \in 1..n : \A i \in DOMAIN t.nodes[a].children : \A j \in DOMAIN t.nodes[b].children :
           t.nodes[a].children[i] = t.nodes[b].children[j] => a = b /\ i = j
      /\ \A a \in 1..n : \A i \in DOMAIN t.nodes[a].children : t.nodes[a].children[i] # t.root
  BY <1>1 DEF OnePlace
<1>9. n + 1 \notin 1..n
  BY <1>1
<1>10. ASSUME NEW a \in 1..(n + 1), NEW b \in 1..(n + 1), NEW i \in DOMAIN u.nodes[a].children,
              NEW j \in DOMAIN u.nodes[b].children, u.nodes[a].children[i] = u.nodes[b].children[j]
       PROVE  a = b /\ i = j
  <2>1. CASE u.nodes[a].children[i] = n + 1
    BY <1>7, <1>9, <1>10, <2>1
  <2>2. CASE u.nodes[a].children[i] # n + 1
    BY <1>7, <1>8, <1>10, <2>2
  <2> QED
    BY <2>1, <2>2
<1>11. ASSUME NEW a \in 1..(n + 1), NEW i \in DOMAIN u.nodes[a].children
       PROVE  u.nodes[a].children[i] # u.root
  <2>1. CASE u.nodes[a].children[i] = n + 1
    <3>1. t.stack # <<>>
      BY <1>7, <1>9, <2>1
    <3>2. u.root \in 0..n
      BY <1>2, <1>3, <3>1
    <3> QED
      BY <1>1, <2>1, <3>2
  <2>2. CASE u.nodes[a].children[i] # n + 1
    BY <1>2, <1>7, <1>8, <2>2
  <2> QED
    BY <2>1, <2>2
<1> QED
  BY <1>5, <1>6, <1>10, <1>11 DEF OnePlace, u

\* Nodes with the same children, and natural numbers still.
LEMMA KeptFits ==
  ASSUME NEW nodes, NEW others, NEW root, OnePlace(nodes, root),
         DOMAIN others = DOMAIN nodes,
         \A id \in DOMAIN nodes : others[id].children = nodes[id].children /\ Sized(others[id])
  PROVE  AllSized(others) /\ OnePlace(others, root)
  BY DEF OnePlace, AllSized

\* The open node becomes another with the same children.
LEMMA TopFits ==
  ASSUME NEW t, Shaped(t), AllSized(t.nodes), OnePlace(t.nodes, t.root), t.stack # <<>>,
         NEW node, Sized(node), node.children = t.nodes[Last(t.stack)].children,
         NEW u, u = [t EXCEPT !.nodes = [@ EXCEPT ![Last(t.stack)] = node]]
  PROVE  AllSized(u.nodes) /\ OnePlace(u.nodes, u.root)
<1> DEFINE top == Last(t.stack)
           f == [t.nodes EXCEPT ![top] = node]
<1>0. t.nodes = [id \in DOMAIN t.nodes |-> t.nodes[id]]
  BY DEF Shaped, IsList
<1>1. t.nodes = [id \in DOMAIN t.nodes |-> t.nodes[id]] /\ top \in DOMAIN t.nodes
  BY <1>0, LastOpen
<1>2. DOMAIN f = DOMAIN t.nodes
      /\ \A id \in DOMAIN t.nodes : f[id] = IF id = top THEN node ELSE t.nodes[id]
  BY <1>1
<1>3. u.nodes = f /\ u.root = t.root
  BY DEF Shaped
<1> HIDE DEF f
<1>4. \A id \in DOMAIN t.nodes : f[id].children = t.nodes[id].children /\ Sized(f[id])
  BY <1>2 DEF AllSized
<1> QED
  BY <1>2, <1>3, <1>4, KeptFits

\* A node whose prop is set to a natural number.
LEMMA PropFits ==
  ASSUME NEW node, DOMAIN node = Fields, Sized(node), NEW key, NEW number, number.n \in Nat,
         NEW new, new = [k \in DOMAIN node.props \cup {key} |->
                           IF k = key THEN number ELSE node.props[k]]
  PROVE  Sized([node EXCEPT !.props = new])
<1>1. [node EXCEPT !.props = new].props = new
  BY DEF Fields
<1>2. \A k \in DOMAIN new : new[k].n \in Nat
  BY DEF Sized
<1> QED
  BY <1>1, <1>2 DEF Sized

LEMMA MadeFits ==
  ASSUME NEW t, Shaped(t), AllSized(t.nodes), OnePlace(t.nodes, t.root), NEW call \in NaturalCalls
  PROVE  AllSized(Made(t, call).nodes) /\ OnePlace(Made(t, call).nodes, Made(t, call).root)
<1>0. call \in BuildCalls /\ call.value.n \in Nat
  BY DEF NaturalCalls
<1>1. CASE call.op = "begin"
  BY <1>1, BeginFits DEF Made
<1>2. CASE call.op = "prop"
  <2>1. Made(t, call) = SetProp(t, call.arg, call.value)
    BY <1>2 DEF Made
  <2>2. CASE t.stack = <<>>
    BY <2>1, <2>2 DEF SetProp
  <2>3. CASE t.stack # <<>>
    <3> DEFINE open == t.nodes[Last(t.stack)]
               new == [k \in DOMAIN open.props \cup {call.arg} |->
                         IF k = call.arg THEN call.value ELSE open.props[k]]
               node == [open EXCEPT !.props = new]
    <3>1. Last(t.stack) \in DOMAIN t.nodes
      BY <2>3, LastOpen
    <3>2. DOMAIN open = Fields /\ Sized(open)
      BY <3>1 DEF Shaped, AllSized
    <3>3. Made(t, call) = [t EXCEPT !.nodes = [@ EXCEPT ![Last(t.stack)] = node]]
      BY <2>1, <2>3, <3>1, <3>2 DEF SetProp, Fields, Shaped
    <3>4. Sized(node)
      <4>1. \E g : g = new
        OBVIOUS
      <4> HIDE DEF open
      <4> QED
        BY <1>0, <3>2, PropFits
    <3>5. node.children = open.children
      <4> HIDE DEF open, new
      <4> QED
        BY <3>2 DEF Fields
    <3> HIDE DEF node
    <3> QED
      BY <2>3, <3>3, <3>4, <3>5, TopFits
  <2> QED
    BY <2>2, <2>3
<1>3. CASE call.op = "event"
  <2>1. Made(t, call) = SetEvent(t, call.arg)
    BY <1>3 DEF Made
  <2>2. CASE t.stack = <<>>
    BY <2>1, <2>2 DEF SetEvent
  <2>3. CASE t.stack # <<>>
    <3> DEFINE open == t.nodes[Last(t.stack)]
               node == [open EXCEPT !.events = open.events \cup {call.arg}]
    <3>1. Last(t.stack) \in DOMAIN t.nodes
      BY <2>3, LastOpen
    <3>2. DOMAIN open = Fields /\ Sized(open)
      BY <3>1 DEF Shaped, AllSized
    <3>3. Made(t, call) = [t EXCEPT !.nodes = [@ EXCEPT ![Last(t.stack)] = node]]
      BY <2>1, <2>3, <3>1, <3>2 DEF SetEvent, Fields, Shaped
    <3>4. node.children = open.children /\ node.props = open.props
      <4> HIDE DEF open
      <4> QED
        BY <3>2 DEF Fields
    <3>5. Sized(node)
      BY <3>2, <3>4 DEF Sized
    <3> HIDE DEF node
    <3> QED
      BY <2>3, <3>3, <3>4, <3>5, TopFits
  <2> QED
    BY <2>2, <2>3
<1>4. CASE call.op = "end"
  <2>1. Made(t, call).nodes = t.nodes /\ Made(t, call).root = t.root
    BY <1>4 DEF Made, EndNode, Shaped
  <2> QED
    BY <2>1
<1> QED
  BY <1>0, <1>1, <1>2, <1>3, <1>4 DEF BuildCalls

\* Laying a tree out gives its nodes the bounds of their rooms, and keeps the rest.
LEMMA LaidFits ==
  ASSUME NEW t, Shaped(t), AllSized(t.nodes), OnePlace(t.nodes, t.root),
         NEW width, NEW height, NEW f, f = ComputeLayout(t.nodes, t.root, width, height)
  PROVE  /\ AllSized(f) /\ OnePlace(f, t.root)
         /\ LaidOut(f, t.root, Rect(0, 0, width, height))
<1> DEFINE window == Rect(0, 0, width, height)
           rooms == LayoutNode(t.nodes, t.root, window)
           room(id) == CHOOSE r \in rooms[id] : TRUE
<1>1. /\ DOMAIN f = DOMAIN t.nodes
      /\ \A id \in DOMAIN t.nodes :
           f[id] = IF rooms[id] # {} /\ Given(t.nodes, t.root, id)
                   THEN [t.nodes[id] EXCEPT !.bounds = BoundsIn(t.nodes[id], room(id))]
                   ELSE t.nodes[id]
  BY DEF ComputeLayout, BoundsIn
<1>2. Grown(t.nodes) /\ \A id \in DOMAIN t.nodes : DOMAIN t.nodes[id] = Fields
  BY DEF Shaped
<1>3. \A id \in DOMAIN t.nodes : \A r \in rooms[id] : r = room(id)
  <2>1. \A id \in DOMAIN t.nodes : \A r, q \in rooms[id] : r = q
    BY <1>2, OneRoom
  <2> HIDE DEF rooms
  <2> QED
    BY <2>1
<1>4. Grown(f)
  <2> DEFINE u == [t EXCEPT !.nodes = f]
  <2>1. Shaped(u)
    BY LaidShaped
  <2>2. u.nodes = f
    BY DEF Shaped
  <2> HIDE DEF u
  <2> QED
    BY <2>1, <2>2 DEF Shaped
<1> HIDE DEF room, rooms, window
<1>5. \A id \in DOMAIN t.nodes : LooksAs(f[id], t.nodes[id]) /\ f[id].children = t.nodes[id].children
  BY <1>1, <1>2 DEF Fields, LooksAs
<1>6. SameTree(f, t.nodes)
  BY <1>1, <1>5 DEF SameTree
<1>7. AllSized(f) /\ OnePlace(f, t.root)
  <2>1. \A id \in DOMAIN t.nodes : Sized(f[id])
    BY <1>5 DEF AllSized, Sized, LooksAs
  <2> QED
    BY <1>1, <1>5, <2>1, KeptFits
<1>8. LaidOut(f, t.root, window)
  <2> SUFFICES ASSUME NEW id \in DOMAIN t.nodes, NEW r \in LayoutNode(f, t.root, window)[id],
                      Given(f, t.root, id)
               PROVE  f[id].bounds = BoundsIn(f[id], r)
    BY <1>1 DEF LaidOut
  <2>1. LayoutNode(f, t.root, window)[id] = rooms[id]
    BY <1>1, <1>2, <1>4, <1>6, SameLayout DEF rooms
  <2>2. Given(t.nodes, t.root, id)
    BY <1>1, <1>2, <1>4, <1>6, SameRooms
  <2>3. f[id] = [t.nodes[id] EXCEPT !.bounds = BoundsIn(t.nodes[id], room(id))] /\ r = room(id)
    BY <1>1, <1>3, <2>1, <2>2
  <2>4. f[id].bounds = BoundsIn(t.nodes[id], r)
    BY <1>2, <2>3 DEF Fields
  <2>5. BoundsIn(f[id], r) = BoundsIn(t.nodes[id], r)
    BY <1>5, SameLooks DEF BoundsIn
  <2> QED
    BY <2>4, <2>5
<1> QED
  BY <1>7, <1>8 DEF window

LEMMA FitInvStep == FitInv /\ [FrameNext]_frameVars => FitInv'
<1> SUFFICES ASSUME FitInv, [FrameNext]_frameVars PROVE FitInv'
  OBVIOUS
<1>1. FrameInv'
  BY FrameInvStep DEF FitInv
<1>2. CASE Build
  <2>1. Head(calls) \in NaturalCalls /\ Tail(calls) \in Seq(NaturalCalls)
    BY <1>2 DEF FitInv, Build
  <2>2. screen = <<0, 0>> /\ screen' = screen
    BY <1>2 DEF FitInv, Build
  <2>3. AllSized(frame'.nodes) /\ OnePlace(frame'.nodes, frame'.root)
    BY <1>2, <2>1, MadeFits DEF Build, FitInv, FrameInv
  <2> QED
    BY <1>1, <1>2, <2>1, <2>2, <2>3 DEF Build, FitInv
<1>3. ASSUME NEW size \in Screens, ComputeUILayout(size) PROVE FitInv'
  <2> DEFINE f == ComputeLayout(frame.nodes, frame.root, size[1], size[2])
  <2>1. frame' = [frame EXCEPT !.nodes = f] /\ calls' = calls /\ calls = <<>> /\ screen' = size
        /\ frame.root # 0
    BY <1>3 DEF ComputeUILayout
  <2>2. frame'.nodes = f /\ frame'.root = frame.root
    BY <2>1 DEF FitInv, FrameInv, Shaped
  <2>3. AllSized(f) /\ OnePlace(f, frame.root)
        /\ LaidOut(f, frame.root, Rect(0, 0, size[1], size[2]))
    BY LaidFits DEF FitInv, FrameInv
  <2>4. size \in Nat \X Nat
    BY FrameAssumption
  <2> HIDE DEF f
  <2> QED
    BY <1>1, <2>1, <2>2, <2>3, <2>4 DEF FitInv
<1>4. CASE UNCHANGED frameVars
  BY <1>1, <1>4 DEF frameVars, FitInv
<1> QED
  BY <1>2, <1>3, <1>4 DEF FrameNext

\* A child lies in its box, and fills it when it has no margins.
LEMMA InBox ==
  ASSUME NEW child, Sized(child), NEW box \in Boxes,
         Marginal(child) => \A axis \in Axes : BoundsIn(child, box).size[axis] > 0
  PROVE  /\ BoundsIn(child, box) \in Boxes
         /\ \A axis \in Axes : /\ Near(box, axis) <= Near(BoundsIn(child, box), axis)
                               /\ Far(BoundsIn(child, box), axis) <= Far(box, axis)
         /\ ~Marginal(child) => BoundsIn(child, box) = box
<1>1. CASE Marginal(child)
  <2>1. BoundsIn(child, box) = Within(box, child, "margin")
    BY <1>1 DEF Marginal, BoundsIn
  <2>2. \A axis \in Axes : Within(box, child, "margin").size[axis] > 0
    BY <1>1, <2>1
  <2>3. /\ Within(box, child, "margin") \in Boxes
        /\ \A axis \in Axes :
             /\ box.at[axis] <= Within(box, child, "margin").at[axis]
             /\ Within(box, child, "margin").at[axis] + Within(box, child, "margin").size[axis]
                  <= box.at[axis] + box.size[axis]
    BY <2>2, BoxesAreRects, WithinIs
  <2> QED
    BY <1>1, <2>1, <2>3 DEF Near, Far
<1>2. CASE ~Marginal(child)
  <2>1. BoundsIn(child, box) = box
    <3>1. CASE Flexes(child)
      BY <3>1 DEF BoundsIn
    <3>2. CASE ~Flexes(child)
      <4>1. \A axis \in Axes : /\ Inset(child, "margin", Before(axis), Both(axis)) = 0
                               /\ Inset(child, "margin", After(axis), Both(axis)) = 0
        BY <1>2, <3>2 DEF Marginal
      <4>2. Within(box, child, "margin") = box
        BY <4>1, WithinAll
      <4> QED
        BY <3>2, <4>2 DEF BoundsIn
    <3> QED
      BY <3>1, <3>2
  <2>2. \A axis \in Axes : box.at[axis] \in Int /\ box.size[axis] \in Nat
    BY DEF Boxes
  <2>3. \A axis \in Axes : Near(box, axis) <= Near(box, axis) /\ Far(box, axis) <= Far(box, axis)
    BY <2>2 DEF Near, Far
  <2> QED
    BY <2>1, <2>3
<1> QED
  BY <1>1, <1>2

\* What is drawn has the bounds of its room, a row or column with bounds its own.
LEMMA BoxedRoom ==
  ASSUME FitInv, NEW id \in Boxed
  PROVE  LET window == Rect(0, 0, screen[1], screen[2])
         IN  /\ id \in DOMAIN frame.nodes /\ frame.nodes[id].children # <<>>
             /\ frame.nodes[id].bounds \in Boxes
             /\ \A i \in 1..Len(frame.nodes[id].children) :
                  Children(frame.nodes, id)[i].bounds
                    = BoundsIn(Children(frame.nodes, id)[i],
                               Flexed(frame.nodes[id], Children(frame.nodes, id),
                                      Content(frame.nodes[id], frame.nodes[id].bounds))[i])
<1> DEFINE nodes == frame.nodes
           root == frame.root
           window == Rect(0, 0, screen[1], screen[2])
           rooms == LayoutNode(nodes, root, window)
           cs == nodes[id].children
<1>1. /\ Grown(nodes) /\ AllSized(nodes) /\ OnePlace(nodes, root)
      /\ screen \in Nat \X Nat
  BY DEF FitInv, FrameInv, Shaped
<1>2. root # 0 /\ LaidOut(nodes, root, window)
  BY DEF FitInv, Boxed
<1>3. root \in DOMAIN nodes
  BY <1>2 DEF FitInv, FrameInv, Shaped
<1>4. Flexes(nodes[id]) /\ cs # <<>> /\ id \in Range(Drawn)
      /\ \/ id = root
         \/ \E parent \in Range(Drawn) : Flexes(nodes[parent]) /\ id \in Range(nodes[parent].children)
  BY DEF Boxed
<1>5. Drawn = TraverseNode(nodes)[root]
  BY <1>2 DEF Drawn
<1>6. window \in Boxes
  BY <1>1 DEF Boxes, Rect, Axes
<1> HIDE DEF nodes, root, window
<1>7. rooms[root] # {}
  <2>1. Rooms(rooms, nodes, root, window, Len(nodes))
    BY <1>1, RoomsAre
  <2>2. DOMAIN nodes = 1..Len(nodes)
    BY <1>1 DEF Grown
  <2> HIDE DEF rooms
  <2> QED
    BY <1>3, <2>1, <2>2 DEF Rooms
<1>8. \A k \in Range(Drawn) : k \in DOMAIN nodes /\ rooms[k] # {}
  BY <1>1, <1>3, <1>5, <1>7, DrawnHaveRooms
<1>9. id \in DOMAIN nodes /\ rooms[id] \subseteq Boxes
  BY <1>1, <1>4, <1>6, <1>8, RoomsAreBoxes
<1>10. PICK room \in rooms[id] : room \in Boxes
  BY <1>4, <1>8, <1>9
<1>11. Given(nodes, root, id)
  <2>1. CASE id = root
    BY <2>1 DEF Given
  <2>2. CASE id # root
    <3>1. PICK parent \in Range(Drawn) : Flexes(nodes[parent]) /\ id \in Range(nodes[parent].children)
      BY <1>4, <2>2
    <3>2. PICK i \in DOMAIN nodes[parent].children : nodes[parent].children[i] = id
      BY <3>1 DEF Range
    <3>3. <<parent, i>> \in Spots(nodes, id)
      BY <1>1, <1>8, <1>9, <3>2, SpotsAre
    <3>4. \E at \in Spots(nodes, id) : Flexes(nodes[at[1]])
      BY <3>1, <3>3
    <3> QED
      BY <3>4 DEF Given
  <2> QED
    BY <2>1, <2>2
<1>12. nodes[id].bounds = room
  BY <1>2, <1>4, <1>9, <1>10, <1>11 DEF LaidOut, BoundsIn, rooms
<1>13. Len(cs) \in Nat /\ DOMAIN cs = 1..Len(cs)
  BY <1>1, <1>9 DEF Grown
<1> HIDE DEF rooms, cs
<1>14. ASSUME NEW i \in 1..Len(cs)
       PROVE  nodes[cs[i]].bounds
                = BoundsIn(nodes[cs[i]], Flexed(nodes[id], Children(nodes, id), Content(nodes[id], room))[i])
  <2>1. cs[i] \in DOMAIN nodes /\ cs[i] # root
    BY <1>1, <1>9, <1>13, ChildrenLater DEF OnePlace, cs
  <2>2. RoomIn(nodes, id, i, room) \in rooms[cs[i]]
    BY <1>1, <1>9, <1>10, <1>13, <2>1, RoomBelow DEF rooms, cs
  <2>3. RoomIn(nodes, id, i, room) = Flexed(nodes[id], Children(nodes, id), Content(nodes[id], room))[i]
    BY <1>4 DEF RoomIn
  <2>4. <<id, i>> \in Spots(nodes, cs[i])
    BY <1>1, <1>9, <1>13, <2>1, SpotsAre DEF cs
  <2>5. Given(nodes, root, cs[i])
    <3>1. \E at \in Spots(nodes, cs[i]) : Flexes(nodes[at[1]])
      BY <1>4, <2>4
    <3> QED
      BY <3>1 DEF Given
  <2> QED
    BY <1>2, <2>1, <2>2, <2>3, <2>5 DEF LaidOut, rooms
<1>15. \A i \in 1..Len(cs) : Children(nodes, id)[i] = nodes[cs[i]]
  BY <1>13 DEF Children, cs
<1> QED
  BY <1>4, <1>9, <1>10, <1>12, <1>14, <1>15 DEF nodes, cs

LEMMA FitHolds == FitInv => ChildrenFit
<1> SUFFICES ASSUME FitInv, NEW id \in Boxed, Roomy(id)
             PROVE  LET node     == frame.nodes[id]
                        children == Children(frame.nodes, id)
                        content  == Content(node, node.bounds)
                        main     == Main(node)
                        Bounds(i) == children[i].bounds
                        n        == Len(children)
                    IN  /\ \A i \in 1..n, axis \in Axes :
                             /\ Near(content, axis) <= Near(Bounds(i), axis)
                             /\ Far(Bounds(i), axis) <= Far(content, axis)
                        /\ \A i \in 1..(n - 1) :
                             Far(Bounds(i), main) + Spacing(node) <= Near(Bounds(i + 1), main)
                        /\ /\ TotalGrow(children) > 0 /\ SharesWhole(node, children, content)
                           /\ \A i \in 1..n : ~Marginal(children[i])
                           =>
                             /\ Near(Bounds(1), main) = Near(content, main)
                             /\ Far(Bounds(n), main) = Far(content, main)
  BY DEF ChildrenFit
<1> DEFINE node == frame.nodes[id]
           children == Children(frame.nodes, id)
           content == Content(node, node.bounds)
           main == Main(node)
           Bounds(i) == children[i].bounds
           n == Len(children)
           box(i) == Flexed(node, children, content)[i]
<1>1. Flexing(node, children, content, Len(node.children))
  BY BoxedRoom, FlexingIs DEF FitInv, FrameInv, Shaped
<1>2. n = Len(node.children)
  BY <1>1, ExtentsAre
<1>3. Flexing(node, children, content, n) /\ n \in Nat \ {0}
  BY <1>1, <1>2 DEF Flexing
<1>4. \A i \in 1..n : Bounds(i) = BoundsIn(children[i], box(i))
  BY <1>2, BoxedRoom
<1>5. /\ FixedMain(children, main, content) + Spacing(node) * (n - 1) <= content.size[main]
      /\ \A i \in 1..n :
           /\ Measure(children[i], Cross(main), content.size[Cross(main)]) <= content.size[Cross(main)]
           /\ Marginal(children[i]) => \A axis \in Axes : Bounds(i).size[axis] > 0
  <2>1. DOMAIN children = 1..n
    BY <1>3, ExtentsAre
  <2> QED
    BY <2>1 DEF Roomy
<1>6. Spacing(node) \in Nat /\ content \in Boxes /\ \A i \in 1..n : Sized(children[i])
  BY <1>3, GrowIs DEF Flexing
<1> HIDE DEF node, children, content, n
<1>7. \A i \in 1..n : box(i) \in Boxes
  BY <1>3, FlexedIs
<1>8. ASSUME NEW i \in 1..n
      PROVE  /\ Bounds(i) \in Boxes
             /\ \A axis \in Axes : /\ Near(box(i), axis) <= Near(Bounds(i), axis)
                                   /\ Far(Bounds(i), axis) <= Far(box(i), axis)
             /\ ~Marginal(children[i]) => Bounds(i) = box(i)
  <2>1. /\ box(i) \in Boxes /\ Sized(children[i]) /\ Bounds(i) = BoundsIn(children[i], box(i))
        /\ Marginal(children[i]) => \A axis \in Axes : Bounds(i).size[axis] > 0
    BY <1>4, <1>5, <1>6, <1>7
  <2> HIDE DEF box, Bounds
  <2> QED
    BY <2>1, InBox
<1>9. /\ \A i \in 1..n : /\ Near(content, main) <= Near(box(i), main)
                         /\ Far(box(i), main) <= Far(content, main)
      /\ \A i \in 1..(n - 1) : Far(box(i), main) + Spacing(node) <= Near(box(i + 1), main)
      /\ TotalGrow(children) > 0 /\ SharesWhole(node, children, content) =>
           Near(box(1), main) = Near(content, main) /\ Far(box(n), main) = Far(content, main)
  BY <1>3, <1>5, BoxesFit
<1>10. ASSUME NEW i \in 1..n
       PROVE  /\ Near(content, Cross(main)) <= Near(box(i), Cross(main))
              /\ Far(box(i), Cross(main)) <= Far(content, Cross(main))
  <2>1. /\ box(i).at[Cross(main)] = Aligned(node, children[i], content).at
        /\ box(i).size[Cross(main)] = Aligned(node, children[i], content).size
    BY <1>3, FlexedIs
  <2>2. LET span == Aligned(node, children[i], content)
        IN  /\ content.at[Cross(main)] <= span.at
            /\ span.at + span.size <= content.at[Cross(main)] + content.size[Cross(main)]
    BY <1>5, <1>6, AlignedIs
  <2> QED
    BY <2>1, <2>2 DEF Near, Far
<1>11. /\ main \in Axes /\ \A axis \in Axes : axis = main \/ axis = Cross(main)
  BY <1>6, MainAxis
<1> HIDE DEF main, Bounds, box
<1>12. \A other \in Boxes : \A axis \in Axes : Near(other, axis) \in Int /\ Far(other, axis) \in Int
  BY DEF Boxes, Near, Far
<1>13. ASSUME NEW i \in 1..n, NEW axis \in Axes
       PROVE  Near(content, axis) <= Near(Bounds(i), axis) /\ Far(Bounds(i), axis) <= Far(content, axis)
  <2>1. /\ Near(content, axis) <= Near(box(i), axis) /\ Far(box(i), axis) <= Far(content, axis)
    BY <1>9, <1>10, <1>11
  <2>2. /\ Near(box(i), axis) <= Near(Bounds(i), axis) /\ Far(Bounds(i), axis) <= Far(box(i), axis)
    BY <1>8
  <2>3. /\ Near(content, axis) \in Int /\ Near(box(i), axis) \in Int /\ Near(Bounds(i), axis) \in Int
        /\ Far(content, axis) \in Int /\ Far(box(i), axis) \in Int /\ Far(Bounds(i), axis) \in Int
    BY <1>6, <1>7, <1>8, <1>12
  <2> QED
    BY <2>1, <2>2, <2>3
<1>14. ASSUME NEW i \in 1..(n - 1)
       PROVE  Far(Bounds(i), main) + Spacing(node) <= Near(Bounds(i + 1), main)
  <2>1. i \in 1..n /\ i + 1 \in 1..n
    BY <1>3
  <2>2. Far(box(i), main) + Spacing(node) <= Near(box(i + 1), main)
    BY <1>9
  <2>3. /\ Far(Bounds(i), main) <= Far(box(i), main) /\ Near(box(i + 1), main) <= Near(Bounds(i + 1), main)
    BY <1>8, <1>11, <2>1
  <2>4. /\ Far(Bounds(i), main) \in Int /\ Far(box(i), main) \in Int
        /\ Near(box(i + 1), main) \in Int /\ Near(Bounds(i + 1), main) \in Int
    BY <1>7, <1>8, <1>11, <1>12, <2>1
  <2> QED
    BY <1>6, <2>2, <2>3, <2>4
<1>15. ASSUME TotalGrow(children) > 0, SharesWhole(node, children, content),
              \A i \in 1..n : ~Marginal(children[i])
       PROVE  Near(Bounds(1), main) = Near(content, main) /\ Far(Bounds(n), main) = Far(content, main)
  <2>1. 1 \in 1..n /\ n \in 1..n
    BY <1>3
  <2>2. Bounds(1) = box(1) /\ Bounds(n) = box(n)
    BY <1>8, <1>15, <2>1
  <2> QED
    BY <1>9, <1>15, <2>2
<1> QED
  BY <1>13, <1>14, <1>15 DEF node, children, content, n, main, Bounds

\* However a program nests its rows and columns, whatever grows, justifies and
\* aligns them and at whatever sizes the tree is laid out, when none of its
\* numbers is below zero the children of one with room for them lie inside its
\* padding, in order and its spacing apart, and fill it when they share it whole
\* (layoutFlex).
THEOREM ChildrenAlwaysFit == ASSUME NoneNegative PROVE FrameSpec => []ChildrenFit
<1>1. FrameInit => FitInv
  BY FitInvInit
<1> QED
  BY <1>1, FitInvStep, FitHolds, PTL DEF FrameSpec

------------------------------------------------------------------------------
(* Patches                                                                 *)

\* What is shown after each of the first n mutations, as Patched has it.
Shows(g, s, mutations, n) ==
  g = [k \in 0..n |-> IF k = 0 THEN s ELSE Applied(g[k - 1], mutations[k])]

LEMMA ShowingExists ==
  ASSUME NEW s, NEW mutations, NEW N \in Nat
  PROVE  \E g : Shows(g, s, mutations, N)
<1> DEFINE S == {n \in Nat : \E g : Shows(g, s, mutations, n)}
<1>1. 0 \in S
  <2> DEFINE g == [k \in 0..0 |-> s]
  <2>1. \A k \in 0..0 : k = 0 /\ g[k] = s
    OBVIOUS
  <2>2. g = [k \in 0..0 |-> g[k]]
    OBVIOUS
  <2> HIDE DEF g
  <2>3. Shows(g, s, mutations, 0)
    BY <2>1, <2>2 DEF Shows
  <2> QED
    BY <2>3
<1>2. ASSUME NEW n \in S PROVE n + 1 \in S
  <2>1. PICK g : Shows(g, s, mutations, n)
    OBVIOUS
  <2> DEFINE last == Applied(g[n], mutations[n + 1])
             h    == [k \in 0..(n + 1) |-> IF k = n + 1 THEN last ELSE g[k]]
  <2> HIDE DEF last
  <2>2. ASSUME NEW k \in 0..(n + 1)
        PROVE  h[k] = IF k = 0 THEN s ELSE Applied(h[k - 1], mutations[k])
    <3>1. CASE k = n + 1
      <4>1. h[k] = last
        BY <3>1
      <4>2. k # 0 /\ k - 1 = n /\ n \in 0..(n + 1) /\ n # n + 1
        BY <3>1
      <4>3. h[k - 1] = g[n]
        BY <4>2
      <4> QED
        BY <3>1, <4>1, <4>2, <4>3 DEF last
    <3>2. CASE k # n + 1
      <4>1. k \in 0..n /\ h[k] = g[k]
        BY <3>2
      <4>2. g[k] = IF k = 0 THEN s ELSE Applied(g[k - 1], mutations[k])
        BY <2>1, <4>1 DEF Shows
      <4>3. k # 0 => k - 1 \in 0..(n + 1) /\ k - 1 # n + 1
        BY <4>1
      <4>4. k # 0 => h[k - 1] = g[k - 1]
        BY <4>3
      <4> QED
        BY <4>1, <4>2, <4>4
    <3> QED
      BY <3>1, <3>2
  <2>3. h = [k \in 0..(n + 1) |-> h[k]]
    OBVIOUS
  <2> HIDE DEF h
  <2>4. Shows(h, s, mutations, n + 1)
    BY <2>2, <2>3 DEF Shows
  <2> QED
    BY <2>4
<1> HIDE DEF S
<1>3. S = Nat
  BY <1>1, <1>2, SetInduction DEF S
<1> QED
  BY <1>3 DEF S

LEMMA PatchedIs ==
  ASSUME NEW s, NEW mutations, Len(mutations) \in Nat
  PROVE  /\ Patched(s, mutations)[0] = s
         /\ \A k \in 1..Len(mutations) :
              Patched(s, mutations)[k] = Applied(Patched(s, mutations)[k - 1], mutations[k])
<1> DEFINE R(h) == h = [k \in 0..Len(mutations) |->
                          IF k = 0 THEN s ELSE Applied(h[k - 1], mutations[k])]
<1>1. Patched(s, mutations) = CHOOSE h : R(h)
  BY Zenon DEF Patched
<1>2. R(CHOOSE h : R(h))
  <2>1. PICK h : Shows(h, s, mutations, Len(mutations))
    BY ShowingExists
  <2>2. R(h)
    BY <2>1 DEF Shows
  <2> HIDE DEF R
  <2> QED
    BY <2>2
<1> DEFINE g == Patched(s, mutations)
<1>3. g = [k \in 0..Len(mutations) |-> IF k = 0 THEN s ELSE Applied(g[k - 1], mutations[k])]
  BY <1>1, <1>2
<1> HIDE DEF g
<1>4. g[0] = s /\ \A k \in 1..Len(mutations) : g[k] = Applied(g[k - 1], mutations[k])
  <2>1. 0 \in 0..Len(mutations) /\ \A k \in 1..Len(mutations) : k \in 0..Len(mutations) /\ k # 0
    OBVIOUS
  <2> QED
    BY <1>3, <2>1
<1> QED
  BY <1>4 DEF g

\* Whatever does to a target what the mutations say shows the same.
LEMMA PatchedOnly ==
  ASSUME NEW s, NEW mutations, Len(mutations) \in Nat, NEW n \in 0..Len(mutations), NEW g,
         g[0] = s, \A k \in 1..n : g[k] = Applied(g[k - 1], mutations[k])
  PROVE  \A k \in 0..n : Patched(s, mutations)[k] = g[k]
<1> DEFINE h == Patched(s, mutations)
           T == {k \in Nat : k <= n => h[k] = g[k]}
<1>1. h[0] = s /\ \A k \in 1..Len(mutations) : h[k] = Applied(h[k - 1], mutations[k])
  BY PatchedIs
<1> HIDE DEF h
<1>2. 0 \in T
  BY <1>1
<1>3. ASSUME NEW k \in T PROVE k + 1 \in T
  <2> SUFFICES ASSUME k + 1 <= n PROVE h[k + 1] = g[k + 1]
    OBVIOUS
  <2>1. k + 1 \in 1..n /\ k + 1 \in 1..Len(mutations) /\ (k + 1) - 1 = k /\ h[k] = g[k]
    OBVIOUS
  <2> QED
    BY <1>1, <2>1
<1> HIDE DEF T
<1>4. T = Nat
  BY <1>2, <1>3, SetInduction DEF T
<1> QED
  BY <1>4 DEF T, h

\* The mutations lead from s to u, and, if each must, none leaves what is shown
\* as it is.
Leads(s, mutations, u, each) ==
  /\ Patched(s, mutations)[Len(mutations)] = u
  /\ each => \A k \in 1..Len(mutations) : Patched(s, mutations)[k] # Patched(s, mutations)[k - 1]

LEMMA LeadsNowhere ==
  ASSUME NEW s, NEW each
  PROVE  Leads(s, <<>>, s, each)
<1>1. Len(<<>>) = 0 /\ 1..0 = {}
  OBVIOUS
<1>2. Patched(s, <<>>)[0] = s
  BY <1>1, PatchedIs
<1> QED
  BY <1>1, <1>2 DEF Leads

LEMMA LeadsOnce ==
  ASSUME NEW s, NEW m, NEW each, each => Applied(s, m) # s
  PROVE  Leads(s, <<m>>, Applied(s, m), each)
<1>1. Len(<<m>>) = 1 /\ <<m>>[1] = m /\ 1..1 = {1}
  OBVIOUS
<1> DEFINE ms == <<m>>
<1> HIDE DEF ms
<1>2. Len(ms) = 1 /\ ms[1] = m /\ Len(ms) \in Nat
  BY <1>1 DEF ms
<1>3. /\ Patched(s, ms)[0] = s
      /\ \A k \in 1..Len(ms) : Patched(s, ms)[k] = Applied(Patched(s, ms)[k - 1], ms[k])
  BY <1>2, PatchedIs
<1>4. Patched(s, ms)[1] = Applied(s, m)
  <2>1. 1 \in 1..Len(ms) /\ 1 - 1 = 0
    BY <1>2
  <2>2. Patched(s, ms)[1] = Applied(Patched(s, ms)[1 - 1], ms[1])
    BY <1>3, <2>1
  <2> QED
    BY <1>2, <1>3, <2>1, <2>2
<1>5. Leads(s, ms, Applied(s, m), each)
  BY <1>1, <1>2, <1>3, <1>4 DEF Leads
<1> QED
  BY <1>5 DEF ms

LEMMA LeadsOn ==
  ASSUME NEW M, NEW a \in Seq(M), NEW b \in Seq(M), NEW s, NEW u, NEW v, NEW each,
         Leads(s, a, u, each), Leads(u, b, v, each)
  PROVE  Leads(s, a \o b, v, each)
<1> DEFINE c == a \o b
           m == Len(a)
           n == Len(b)
           f == Patched(s, a)
           g == Patched(u, b)
           h == Patched(s, c)
<1>1. /\ m \in Nat /\ n \in Nat /\ Len(c) = m + n
      /\ \A k \in 1..m : c[k] = a[k]
      /\ \A k \in 1..n : c[m + k] = b[k]
  OBVIOUS
<1>2. /\ f[0] = s /\ \A k \in 1..m : f[k] = Applied(f[k - 1], a[k])
      /\ g[0] = u /\ \A k \in 1..n : g[k] = Applied(g[k - 1], b[k])
      /\ f[m] = u /\ (each => \A k \in 1..m : f[k] # f[k - 1])
      /\ g[n] = v /\ (each => \A k \in 1..n : g[k] # g[k - 1])
  <2>1. f[0] = s /\ \A k \in 1..m : f[k] = Applied(f[k - 1], a[k])
    BY <1>1, PatchedIs
  <2>2. g[0] = u /\ \A k \in 1..n : g[k] = Applied(g[k - 1], b[k])
    BY <1>1, PatchedIs
  <2>3. /\ f[m] = u /\ (each => \A k \in 1..m : f[k] # f[k - 1])
        /\ g[n] = v /\ (each => \A k \in 1..n : g[k] # g[k - 1])
    BY DEF Leads
  <2> QED
    BY <2>1, <2>2, <2>3
<1> HIDE DEF c, m, n, f, g
<1> DEFINE e == [k \in 0..(m + n) |-> IF k <= m THEN f[k] ELSE g[k - m]]
<1>3. ASSUME NEW k \in 1..m PROVE e[k] = f[k] /\ e[k - 1] = f[k - 1] /\ c[k] = a[k]
  BY <1>1
<1>4. ASSUME NEW k \in (m + 1)..(m + n)
      PROVE  e[k] = g[k - m] /\ e[k - 1] = g[(k - m) - 1] /\ c[k] = b[k - m] /\ k - m \in 1..n
  <2>1. k - m \in 1..n /\ k \in 0..(m + n) /\ k - 1 \in 0..(m + n) /\ ~(k <= m) /\ m + (k - m) = k
    BY <1>1
  <2>2. k - 1 <= m => k - 1 = m /\ (k - m) - 1 = 0
    BY <1>1
  <2>3. (k - 1) - m = (k - m) - 1
    BY <1>1
  <2>4. e[k - 1] = g[(k - m) - 1]
    BY <1>2, <2>1, <2>2, <2>3
  <2> QED
    BY <1>1, <2>1, <2>4
<1>5. e[0] = s /\ e[m + n] = v
  <2>1. 0 \in 0..(m + n) /\ 0 <= m /\ m + n \in 0..(m + n) /\ (m + n) - m = n
    BY <1>1
  <2>2. m + n <= m => n = 0 /\ m + n = m
    BY <1>1
  <2> QED
    BY <1>2, <2>1, <2>2
<1> HIDE DEF e
<1>6. \A k \in 1..(m + n) : e[k] = Applied(e[k - 1], c[k]) /\ (each => e[k] # e[k - 1])
  <2> SUFFICES ASSUME NEW k \in 1..(m + n)
               PROVE  e[k] = Applied(e[k - 1], c[k]) /\ (each => e[k] # e[k - 1])
    OBVIOUS
  <2>1. k \in 1..m \/ k \in (m + 1)..(m + n)
    BY <1>1
  <2> QED
    BY <1>2, <1>3, <1>4, <2>1
<1>7. Len(c) \in Nat /\ Len(c) \in 0..Len(c) /\ 1..Len(c) = 1..(m + n)
  BY <1>1
<1>8. \A k \in 0..Len(c) : h[k] = e[k]
  <2>1. \A k \in 1..Len(c) : e[k] = Applied(e[k - 1], c[k])
    BY <1>6, <1>7
  <2>2. Len(c) \in Nat /\ Len(c) \in 0..Len(c) /\ e[0] = s
    BY <1>5, <1>7
  <2>3. \A k \in 0..Len(c) : Patched(s, c)[k] = e[k]
    BY <2>1, <2>2, PatchedOnly
  <2> QED
    BY <2>3 DEF h
<1> HIDE DEF h
<1>9. h[Len(c)] = v /\ (each => \A k \in 1..Len(c) : h[k] # h[k - 1])
  <2>1. \A k \in 1..Len(c) : k \in 0..Len(c) /\ k - 1 \in 0..Len(c)
    BY <1>7
  <2> QED
    BY <1>1, <1>5, <1>6, <1>7, <1>8, <2>1
<1> QED
  BY <1>9 DEF Leads, h, c

------------------------------------------------------------------------------
(* Positions                                                               *)

LEMMA Deepest ==
  ASSUME NEW S, IsFiniteSet(S), \A p \in S : Len(p) \in Nat
  PROVE  \E d \in Nat : \A p \in S : Len(p) <= d
<1>1. PICK n \in Nat : ExistsSurjection(1..n, S)
  BY FS_NatSurjection
<1>2. PICK f \in Surjection(1..n, S) : TRUE
  BY <1>1 DEF ExistsSurjection
<1>3. f \in [1..n -> S] /\ \A p \in S : \E i \in 1..n : f[i] = p
  BY <1>2 DEF Surjection
<1> DEFINE Bound(k) == \E d \in Nat : \A i \in 1..n : i <= k => Len(f[i]) <= d
           T == {k \in Nat : Bound(k)}
<1>4. Bound(0)
  OBVIOUS
<1>5. ASSUME NEW k \in Nat, Bound(k) PROVE Bound(k + 1)
  <2>1. PICK d \in Nat : \A i \in 1..n : i <= k => Len(f[i]) <= d
    BY <1>5
  <2>2. CASE k + 1 \in 1..n
    <3>1. Len(f[k + 1]) \in Nat
      BY <1>3, <2>2
    <3> DEFINE e == d + Len(f[k + 1])
    <3>2. e \in Nat /\ d <= e /\ Len(f[k + 1]) <= e
      BY <3>1
    <3> HIDE DEF e
    <3>3. ASSUME NEW i \in 1..n, i <= k + 1 PROVE Len(f[i]) <= e
      <4>1. i <= k \/ i = k + 1
        BY <3>3
      <4>2. Len(f[i]) \in Nat
        BY <1>3
      <4> QED
        BY <2>1, <3>2, <4>1, <4>2
    <3> QED
      BY <3>2, <3>3
  <2>3. CASE k + 1 \notin 1..n
    <3>1. \A i \in 1..n : i <= k + 1 => i <= k
      BY <2>3
    <3>2. \A i \in 1..n : i <= k + 1 => Len(f[i]) <= d
      BY <2>1, <3>1
    <3> QED
      BY <3>2
  <2> QED
    BY <2>2, <2>3
<1> HIDE DEF Bound
<1>6. T = Nat
  <2>1. 0 \in T /\ \A k \in T : k + 1 \in T
    BY <1>4, <1>5
  <2> HIDE DEF T
  <2>2. T \in SUBSET Nat
    BY DEF T
  <2> QED
    BY <2>1, <2>2, SetInduction
<1>7. PICK d \in Nat : \A i \in 1..n : i <= n => Len(f[i]) <= d
  <2>1. Bound(n)
    BY <1>6
  <2> QED
    BY <2>1 DEF Bound
<1>8. \A i \in 1..n : Len(f[i]) <= d
  BY <1>7
<1> QED
  BY <1>3, <1>8

LEMMA FrontIs ==
  ASSUME NEW S, NEW p \in Seq(S), p # <<>>
  PROVE  /\ Front(p) \in Seq(S) /\ Len(Front(p)) = Len(p) - 1 /\ Len(p) \in Nat \ {0}
         /\ \A i \in 1..(Len(p) - 1) : Front(p)[i] = p[i]
<1>1. Len(p) \in Nat \ {0} /\ \A i \in 1..Len(p) : p[i] \in S
  OBVIOUS
<1>2. /\ SubSeq(p, 1, Len(p) - 1) \in Seq(S)
      /\ Len(SubSeq(p, 1, Len(p) - 1)) = IF 1 <= Len(p) - 1 THEN (Len(p) - 1) - 1 + 1 ELSE 0
      /\ \A i \in 1..((Len(p) - 1) - 1 + 1) : SubSeq(p, 1, Len(p) - 1)[i] = p[1 + i - 1]
  <2>1. Len(p) - 1 \in Int /\ 1 \in Int /\ \A i \in 1..(Len(p) - 1) : p[i] \in S
    BY <1>1
  <2> QED
    BY <2>1, SubSeqProperties
<1>3. (Len(p) - 1) - 1 + 1 = Len(p) - 1 /\ \A i \in 1..(Len(p) - 1) : 1 + i - 1 = i
  BY <1>1
<1>4. Len(Front(p)) = Len(p) - 1
  BY <1>1, <1>2, <1>3 DEF Front
<1> QED
  BY <1>1, <1>2, <1>3, <1>4 DEF Front

LEMMA FrontAppend ==
  ASSUME NEW S, NEW p \in Seq(S), NEW k \in S
  PROVE  /\ Append(p, k) \in Seq(S) /\ Append(p, k) # <<>>
         /\ Front(Append(p, k)) = p
         /\ Append(p, k)[Len(Append(p, k))] = k
<1> DEFINE q == Append(p, k)
<1>1. /\ q \in Seq(S) /\ Len(q) = Len(p) + 1 /\ Len(p) \in Nat /\ q[Len(p) + 1] = k
      /\ \A i \in 1..Len(p) : q[i] = p[i]
  OBVIOUS
<1> HIDE DEF q
<1>2. q # <<>>
  BY <1>1
<1>3. /\ Front(q) \in Seq(S) /\ Len(Front(q)) = Len(p)
      /\ \A i \in 1..Len(p) : Front(q)[i] = p[i]
  BY <1>1, <1>2, FrontIs
<1>4. Front(q) = p
  BY <1>1, <1>3
<1> QED
  BY <1>1, <1>2, <1>4 DEF q

\* What is above a node is in its tree.
LEMMA AboveIn ==
  ASSUME NEW t, IsTree(t), NEW q \in DOMAIN t, NEW p \in Seq(Nat), Starts(p, q)
  PROVE  p \in DOMAIN t
<1>1. \A r \in DOMAIN t :
        r \in Seq(Nat) /\ (r # <<>> => Front(r) \in DOMAIN t)
  BY DEF IsTree
<1> DEFINE T == {n \in Nat : \A r \in DOMAIN t : Len(r) = n /\ Starts(p, r) => p \in DOMAIN t}
<1>2. \A r \in DOMAIN t : Starts(p, r) /\ Len(p) = Len(r) => p \in DOMAIN t
  BY <1>1, StartsIs
<1>3. Len(p) \in Nat
  OBVIOUS
<1>4. 0 \in T
  <2> SUFFICES ASSUME NEW r \in DOMAIN t, Len(r) = 0, Starts(p, r) PROVE p \in DOMAIN t
    OBVIOUS
  <2>1. Len(p) <= 0
    BY DEF Starts
  <2> QED
    BY <1>2, <1>3, <2>1
<1>5. ASSUME NEW n \in T PROVE n + 1 \in T
  <2> SUFFICES ASSUME NEW r \in DOMAIN t, Len(r) = n + 1, Starts(p, r) PROVE p \in DOMAIN t
    OBVIOUS
  <2>1. CASE Len(p) = Len(r)
    BY <1>2, <2>1
  <2>2. CASE Len(p) # Len(r)
    <3>1. r \in Seq(Nat) /\ r # <<>>
      BY <1>1
    <3>2. Front(r) \in DOMAIN t /\ Len(Front(r)) = n /\ \A i \in 1..n : Front(r)[i] = r[i]
      <4>1. (n + 1) - 1 = n
        OBVIOUS
      <4>2. /\ Len(Front(r)) = Len(r) - 1
            /\ \A i \in 1..(Len(r) - 1) : Front(r)[i] = r[i]
        BY <3>1, FrontIs
      <4> QED
        BY <1>1, <3>1, <4>1, <4>2
    <3>3. Len(p) <= n
      BY <1>3, <2>2 DEF Starts
    <3>4. Starts(p, Front(r))
      BY <1>3, <3>2, <3>3 DEF Starts
    <3> QED
      BY <3>2, <3>4
  <2> QED
    BY <2>1, <2>2
<1> HIDE DEF T
<1>6. T = Nat
  BY <1>4, <1>5, SetInduction DEF T
<1>7. Len(q) \in Nat
  BY <1>1
<1> QED
  BY <1>6, <1>7 DEF T

\* And so is the child on the way to it.
LEMMA OnTheWay ==
  ASSUME NEW t, IsTree(t), NEW q \in DOMAIN t, NEW p \in Seq(Nat), Starts(p, q), p # q
  PROVE  /\ p \in DOMAIN t
         /\ q[Len(p) + 1] \in 1..t[p].children
         /\ Starts(Append(p, q[Len(p) + 1]), q)
<1>1. p \in DOMAIN t
  BY AboveIn
<1>2. q \in Seq(Nat)
  BY DEF IsTree
<1>3. Len(p) \in Nat /\ Len(q) \in Nat /\ Len(p) < Len(q)
  <2>1. Len(p) # Len(q)
    BY <1>2, StartsIs
  <2> QED
    BY <1>2, <2>1 DEF Starts
<1> DEFINE k == q[Len(p) + 1]
<1>4. k \in Nat
  BY <1>2, <1>3
<1>5. Starts(Append(p, k), q)
  BY <1>2, <1>3, <1>4, StartsNext
<1>6. Append(p, k) \in DOMAIN t
  <2>1. Append(p, k) \in Seq(Nat)
    BY <1>4
  <2> QED
    BY <1>5, <2>1, AboveIn
<1> HIDE DEF k
<1>7. Front(Append(p, k)) = p /\ Append(p, k) # <<>> /\ Append(p, k)[Len(Append(p, k))] = k
  BY <1>4, FrontAppend
<1>8. Append(p, k)[Len(Append(p, k))] \in 1..t[Front(Append(p, k))].children
  BY <1>6, <1>7 DEF IsTree
<1> QED
  BY <1>1, <1>5, <1>7, <1>8 DEF k

Positions(old, new) == DOMAIN old \cup DOMAIN new

\* What is compared below a node of both trees.
Most(old, new, p) == Larger(old[p].children, new[p].children)

\* The mutations for a node, from those for the nodes below it.
DiffOf(old, new, p, d) ==
  IF p \notin DOMAIN old THEN <<AddNode(Parent(new, p), new[p])>>
  ELSE IF p \notin DOMAIN new THEN <<RemoveNode(old[p])>>
  ELSE UpdateProps(old[p], new[p])
         \o FlattenSeq([k \in 1..Larger(old[p].children, new[p].children) |-> d[Append(p, k)]])

LEMMA TreeFacts ==
  ASSUME NEW old, NEW new, IsTree(old), IsTree(new)
  PROVE  /\ \A p \in Positions(old, new) : p \in Seq(Nat) /\ Len(p) \in Nat
         /\ IsFiniteSet(Positions(old, new))
         /\ Positions(old, new) # {} => <<>> \in Positions(old, new)
         /\ \A p \in DOMAIN old \cap DOMAIN new :
              /\ Most(old, new, p) \in Nat
              /\ \A k \in Nat : k \in 1..Most(old, new, p) <=>
                                  k \in 1..old[p].children \/ k \in 1..new[p].children
              /\ \A k \in 1..Most(old, new, p) : Append(p, k) \in Positions(old, new)
<1>1. \A p \in Positions(old, new) : p \in Seq(Nat)
  BY DEF IsTree, Positions
<1>2. \A p \in Positions(old, new) : Len(p) \in Nat
  BY <1>1
<1>3. IsFiniteSet(Positions(old, new))
  BY FS_Union DEF IsTree, Positions
<1>4. ASSUME Positions(old, new) # {} PROVE <<>> \in Positions(old, new)
  <2>1. PICK p : p \in DOMAIN old \/ p \in DOMAIN new
    BY <1>4 DEF Positions
  <2>2. DOMAIN NoTree = {}
    BY DEF NoTree
  <2>3. old # NoTree \/ new # NoTree
    BY <2>1, <2>2
  <2> QED
    BY <2>3 DEF IsTree, Positions
<1>5. ASSUME NEW p \in DOMAIN old \cap DOMAIN new
      PROVE  /\ Most(old, new, p) \in Nat
             /\ \A k \in Nat : k \in 1..Most(old, new, p) <=>
                                 k \in 1..old[p].children \/ k \in 1..new[p].children
             /\ \A k \in 1..Most(old, new, p) : Append(p, k) \in Positions(old, new)
  <2>1. /\ old[p].children \in Nat /\ new[p].children \in Nat
        /\ \A k \in 1..old[p].children : Append(p, k) \in DOMAIN old
        /\ \A k \in 1..new[p].children : Append(p, k) \in DOMAIN new
    BY DEF IsTree
  <2>2. /\ Most(old, new, p) \in Nat
        /\ \A k \in Nat : k \in 1..Most(old, new, p) <=>
                            k \in 1..old[p].children \/ k \in 1..new[p].children
    BY <2>1 DEF Most, Larger
  <2>3. \A k \in 1..Most(old, new, p) : Append(p, k) \in Positions(old, new)
    BY <2>1, <2>2 DEF Positions
  <2> QED
    BY <2>2, <2>3
<1> QED
  BY <1>1, <1>2, <1>3, <1>4, <1>5

\* Only the mutations for the children of a node count.
LEMMA DiffFromBelow ==
  ASSUME NEW old, NEW new, NEW p, NEW d, NEW e,
         p \in DOMAIN old \cap DOMAIN new =>
           \A k \in 1..Most(old, new, p) : d[Append(p, k)] = e[Append(p, k)]
  PROVE  DiffOf(old, new, p, d) = DiffOf(old, new, p, e)
<1>1. CASE p \in DOMAIN old \cap DOMAIN new
  <2>1. [k \in 1..Most(old, new, p) |-> d[Append(p, k)]] = [k \in 1..Most(old, new, p) |-> e[Append(p, k)]]
    BY <1>1
  <2> QED
    BY <1>1, <2>1 DEF DiffOf, Most
<1>2. CASE p \notin DOMAIN old \cap DOMAIN new
  BY <1>2 DEF DiffOf
<1> QED
  BY <1>1, <1>2

LEMMA DiffExists ==
  ASSUME NEW old, NEW new, IsTree(old), IsTree(new)
  PROVE  \E d : d = [p \in Positions(old, new) |-> DiffOf(old, new, p, d)]
<1> DEFINE S == Positions(old, new)
<1>1. \A p \in S : p \in Seq(Nat) /\ Len(p) \in Nat
  BY TreeFacts
<1>2. PICK depth \in Nat : \A p \in S : Len(p) <= depth
  BY <1>1, TreeFacts, Deepest
<1> DEFINE R(n) == {p \in S : Len(p) + n > depth}
           T == {n \in Nat : \E d : d = [p \in R(n) |-> DiffOf(old, new, p, d)]}
<1>3. 0 \in T
  <2> DEFINE d == [p \in {} |-> p]
  <2>1. R(0) = {}
    BY <1>1, <1>2
  <2>2. d = [p \in R(0) |-> DiffOf(old, new, p, d)]
    BY <2>1
  <2> QED
    BY <2>2
<1>4. ASSUME NEW n \in T PROVE n + 1 \in T
  <2>1. PICK d : d = [p \in R(n) |-> DiffOf(old, new, p, d)]
    OBVIOUS
  <2> DEFINE e == [p \in R(n + 1) |-> DiffOf(old, new, p, d)]
  <2>2. ASSUME NEW q \in R(n) PROVE q \in R(n + 1) /\ d[q] = e[q]
    <3>1. Len(q) + n > depth /\ Len(q) \in Nat /\ n \in Nat
      BY <1>1
    <3>2. q \in R(n + 1)
      BY <3>1, <1>2
    <3>3. d[q] = DiffOf(old, new, q, d)
      BY <2>1
    <3> QED
      BY <3>2, <3>3
  <2>3. ASSUME NEW p \in R(n + 1), p \in DOMAIN old \cap DOMAIN new,
               NEW k \in 1..Most(old, new, p)
        PROVE  Append(p, k) \in R(n)
    <3>1. Append(p, k) \in S /\ k \in Nat
      BY <2>3, TreeFacts
    <3>2. p \in Seq(Nat) /\ Len(p) \in Nat /\ Len(p) + (n + 1) > depth /\ n \in Nat
      BY <1>1
    <3>3. Len(Append(p, k)) = Len(p) + 1
      BY <3>1, <3>2
    <3> QED
      BY <1>2, <3>1, <3>2, <3>3
  <2>4. \A p \in R(n + 1) : e[p] = DiffOf(old, new, p, d)
    OBVIOUS
  <2>5. e = [p \in R(n + 1) |-> e[p]]
    OBVIOUS
  <2> HIDE DEF e, R, T
  <2>6. ASSUME NEW p \in R(n + 1) PROVE DiffOf(old, new, p, d) = DiffOf(old, new, p, e)
    <3>1. p \in DOMAIN old \cap DOMAIN new =>
            \A k \in 1..Most(old, new, p) : d[Append(p, k)] = e[Append(p, k)]
      BY <2>2, <2>3
    <3> QED
      BY <3>1, DiffFromBelow
  <2>7. \A p \in R(n + 1) : e[p] = DiffOf(old, new, p, e)
    BY <2>4, <2>6
  <2>8. e = [p \in R(n + 1) |-> DiffOf(old, new, p, e)]
    BY <2>5, <2>7
  <2>9. n + 1 \in Nat
    BY DEF T
  <2> QED
    BY <2>8, <2>9 DEF T
<1> HIDE DEF T
<1>5. T = Nat
  BY <1>3, <1>4, SetInduction DEF T
<1>6. R(depth + 1) = S
  BY <1>1, <1>2
<1>7. depth + 1 \in T
  BY <1>5
<1>8. \E d : d = [p \in R(depth + 1) |-> DiffOf(old, new, p, d)]
  BY <1>7 DEF T
<1> QED
  BY <1>6, <1>8

LEMMA DiffIs ==
  ASSUME NEW old, NEW new, IsTree(old), IsTree(new)
  PROVE  \E d : /\ \A p \in Positions(old, new) : d[p] = DiffOf(old, new, p, d)
                /\ DiffNodes(old, new) = IF old = NoTree /\ new = NoTree THEN <<>> ELSE d[<<>>]
<1> DEFINE R(h) == h = [p \in DOMAIN old \cup DOMAIN new |->
                          IF p \notin DOMAIN old THEN <<AddNode(Parent(new, p), new[p])>>
                          ELSE IF p \notin DOMAIN new THEN <<RemoveNode(old[p])>>
                          ELSE UpdateProps(old[p], new[p])
                                 \o FlattenSeq([k \in 1..Larger(old[p].children, new[p].children) |->
                                                  h[Append(p, k)]])]
           d == CHOOSE h : R(h)
<1>1. DiffNodes(old, new) = IF old = NoTree /\ new = NoTree THEN <<>> ELSE d[<<>>]
  BY Zenon DEF DiffNodes
<1>2. R(d)
  <2>1. PICK h : h = [p \in Positions(old, new) |-> DiffOf(old, new, p, h)]
    BY DiffExists
  <2>2. R(h)
    BY <2>1 DEF DiffOf, Positions
  <2> HIDE DEF R
  <2> QED
    BY <2>2
<1> HIDE DEF d
<1>3. \A p \in Positions(old, new) : d[p] = DiffOf(old, new, p, d)
  BY <1>2 DEF DiffOf, Positions
<1> QED
  BY <1>1, <1>3

------------------------------------------------------------------------------
------------------------------------------------------------------------------
(* Trees whose nodes stay in place, patched node by node                   *)

\* The two trees of a patch.
Paired(old, new) == IsTree(old) /\ IsTree(new) /\ StayInPlace(old, new)

\* The positions at and below one.
Below(S, p) == {q \in S : Starts(p, q)}

\* What is shown of a node, and of one that stays after it was compared.
Entry(t, p) == [parent |-> Parent(t, p), props |-> t[p].props]
Kept(old, new, p) ==
  [parent |-> Parent(old, p),
   props  |-> IF old[p].id = new[p].id THEN Over(new[p].props, old[p].props) ELSE old[p].props]

\* The nodes that are added by a mutation: the others are below such ones.
Joined(old, new) == {p \in DOMAIN new \ DOMAIN old : p # <<>> => Front(p) \in DOMAIN old}

\* The nodes at the positions done are shown as the patch leaves them, the
\* others as in the old tree.
Mixed(s, old, new, done) ==
  /\ IsMap(s)
  /\ \A id : id \in DOMAIN s <=> \/ \E p \in DOMAIN old \ (done \ DOMAIN new) : id = old[p].id
                                 \/ \E p \in Joined(old, new) \cap done : id = new[p].id
  /\ \A p \in DOMAIN old \ done : s[old[p].id] = Entry(old, p)
  /\ \A p \in (DOMAIN old \cap DOMAIN new) \cap done : s[old[p].id] = Kept(old, new, p)
  /\ \A p \in Joined(old, new) \cap done : s[new[p].id] = Entry(new, p)

LEMMA ShownFacts ==
  ASSUME NEW t, Apart(t, t)
  PROVE  /\ IsMap(Shown(t))
         /\ \A id : id \in DOMAIN Shown(t) <=> \E p \in DOMAIN t : id = t[p].id
         /\ \A p \in DOMAIN t : Shown(t)[t[p].id] = Entry(t, p)
<1>1. /\ IsMap(Shown(t))
      /\ \A id : id \in DOMAIN Shown(t) <=> \E p \in DOMAIN t : id = t[p].id
  BY DEF Shown, IsMap
<1>2. ASSUME NEW p \in DOMAIN t PROVE Shown(t)[t[p].id] = Entry(t, p)
  <2> DEFINE q == CHOOSE q \in DOMAIN t : t[q].id = t[p].id
  <2>1. q \in DOMAIN t /\ t[q].id = t[p].id
    OBVIOUS
  <2>2. q = p
    BY <2>1 DEF Apart
  <2>3. Shown(t)[t[p].id] = [parent |-> Parent(t, q), props |-> t[q].props]
    BY DEF Shown
  <2> HIDE DEF q
  <2> QED
    BY <2>2, <2>3 DEF Entry
<1> QED
  BY <1>1, <1>2

LEMMA NothingDone ==
  ASSUME NEW old, NEW new, Paired(old, new)
  PROVE  Mixed(Shown(old), old, new, {})
<1>1. /\ IsMap(Shown(old))
      /\ \A id : id \in DOMAIN Shown(old) <=> \E p \in DOMAIN old : id = old[p].id
      /\ \A p \in DOMAIN old : Shown(old)[old[p].id] = Entry(old, p)
  BY ShownFacts DEF Paired, StayInPlace
<1>2. DOMAIN old \ ({} \ DOMAIN new) = DOMAIN old
  OBVIOUS
<1> QED
  BY <1>1, <1>2 DEF Mixed

LEMMA OverIs ==
  ASSUME NEW f, NEW g
  PROVE  /\ IsMap(Over(f, g)) /\ DOMAIN Over(f, g) = DOMAIN f \cup DOMAIN g
         /\ \A k \in DOMAIN f : Over(f, g)[k] = f[k]
         /\ \A k \in DOMAIN g \ DOMAIN f : Over(f, g)[k] = g[k]
BY DEF Over, IsMap

LEMMA SameMap ==
  ASSUME NEW f, NEW g, IsMap(f), IsMap(g), DOMAIN f = DOMAIN g, \A k \in DOMAIN f : f[k] = g[k]
  PROVE  f = g
<1>1. [k \in DOMAIN f |-> f[k]] = [k \in DOMAIN g |-> g[k]]
  OBVIOUS
<1> QED
  BY <1>1 DEF IsMap

\* What a whole patch leaves is the new tree if, and only if, it reported all
\* there is to report.
LEMMA AllDone ==
  ASSUME NEW old, NEW new, Paired(old, new), NEW s, Mixed(s, old, new, Positions(old, new))
  PROVE  s = Shown(new) <=> Reported(old, new)
<1> DEFINE C == DOMAIN old \cap DOMAIN new
<1>1. /\ IsTree(old) /\ IsTree(new) /\ Named(old) /\ Named(new)
      /\ Apart(old, old) /\ Apart(new, new) /\ Apart(old, new)
  BY DEF Paired, StayInPlace
<1>2. /\ IsMap(Shown(new))
      /\ \A id : id \in DOMAIN Shown(new) <=> \E p \in DOMAIN new : id = new[p].id
      /\ \A p \in DOMAIN new : Shown(new)[new[p].id] = Entry(new, p)
  BY <1>1, ShownFacts
<1>3. /\ DOMAIN old \ (Positions(old, new) \ DOMAIN new) = C
      /\ C \cap Positions(old, new) = C
      /\ Joined(old, new) \cap Positions(old, new) = Joined(old, new)
  BY DEF Positions, Joined
<1>4. /\ IsMap(s)
      /\ \A id : id \in DOMAIN s <=> \/ \E p \in C : id = old[p].id
                                     \/ \E p \in Joined(old, new) : id = new[p].id
      /\ \A p \in C : s[old[p].id] = Kept(old, new, p)
      /\ \A p \in Joined(old, new) : s[new[p].id] = Entry(new, p)
  BY <1>3 DEF Mixed
<1>5. \A p \in C : IsMap(old[p].props) /\ IsMap(new[p].props)
  BY <1>1 DEF IsTree
<1>6. ASSUME s = Shown(new) PROVE Reported(old, new)
  <2>1. ASSUME NEW p \in C PROVE old[p].id = new[p].id
    <3>1. old[p].id \in DOMAIN Shown(new)
      BY <1>4, <1>6
    <3>2. PICK q \in DOMAIN new : old[p].id = new[q].id
      BY <1>2, <3>1
    <3> QED
      BY <1>1, <3>2 DEF Apart
  <2>2. ASSUME NEW p \in C PROVE DOMAIN old[p].props \subseteq DOMAIN new[p].props
    <3>1. Kept(old, new, p) = Entry(new, p)
      BY <1>2, <1>4, <1>6, <2>1, <2>2
    <3>2. Over(new[p].props, old[p].props) = new[p].props
      BY <2>1, <2>2, <3>1 DEF Kept, Entry
    <3>3. DOMAIN Over(new[p].props, old[p].props) = DOMAIN new[p].props \cup DOMAIN old[p].props
      BY OverIs
    <3> QED
      BY <3>2, <3>3
  <2>3. ASSUME NEW p \in DOMAIN new \ DOMAIN old PROVE new[p].children = 0
    <3> SUFFICES ASSUME new[p].children # 0 PROVE FALSE
      OBVIOUS
    <3>1. p \in Seq(Nat) /\ new[p].children \in Nat /\ \A k \in 1..new[p].children : Append(p, k) \in DOMAIN new
      BY <1>1 DEF IsTree
    <3>2. 1 \in 1..new[p].children
      BY <3>1
    <3> DEFINE q == Append(p, 1)
    <3>3. q \in DOMAIN new /\ q # <<>> /\ Front(q) = p
      BY <3>1, <3>2, FrontAppend
    <3> HIDE DEF q
    <3>4. q \notin DOMAIN old
      BY <1>1, <3>3 DEF IsTree
    <3>5. q \notin Joined(old, new)
      BY <3>3 DEF Joined
    <3>6. new[q].id \in DOMAIN s
      BY <1>2, <1>6, <3>3
    <3>7. CASE \E r \in C : new[q].id = old[r].id
      BY <1>1, <3>3, <3>4, <3>7 DEF Apart
    <3>8. CASE \E r \in Joined(old, new) : new[q].id = new[r].id
      BY <1>1, <3>3, <3>5, <3>8 DEF Apart, Joined
    <3> QED
      BY <1>4, <3>6, <3>7, <3>8
  <2> QED
    BY <2>1, <2>2, <2>3 DEF Reported, SameIds
<1>7. ASSUME Reported(old, new) PROVE s = Shown(new)
  <2>1. /\ \A p \in C : old[p].id = new[p].id /\ DOMAIN old[p].props \subseteq DOMAIN new[p].props
        /\ \A p \in DOMAIN new \ DOMAIN old : new[p].children = 0
    BY <1>7 DEF Reported, SameIds
  <2>2. ASSUME NEW p \in DOMAIN new \ DOMAIN old PROVE p \in Joined(old, new)
    <3>1. p # <<>> => Front(p) \in DOMAIN new /\ p[Len(p)] \in 1..new[Front(p)].children
      BY <1>1 DEF IsTree
    <3>2. \A k : k \notin 1..0
      OBVIOUS
    <3> QED
      BY <2>1, <3>1, <3>2 DEF Joined
  <2>3. ASSUME NEW p \in C PROVE Kept(old, new, p) = Entry(new, p)
    <3>1. p # <<>> => Front(p) \in C
      BY <1>1 DEF IsTree
    <3>2. Parent(old, p) = Parent(new, p)
      BY <2>1, <3>1 DEF Parent
    <3>3. /\ IsMap(Over(new[p].props, old[p].props))
          /\ DOMAIN Over(new[p].props, old[p].props) = DOMAIN new[p].props
          /\ \A k \in DOMAIN new[p].props : Over(new[p].props, old[p].props)[k] = new[p].props[k]
      <4> DEFINE a == old[p].props
                 b == new[p].props
      <4>1. DOMAIN a \subseteq DOMAIN b
        BY <2>1, <2>3
      <4> HIDE DEF a, b
      <4>2. /\ IsMap(Over(b, a)) /\ DOMAIN Over(b, a) = DOMAIN b \cup DOMAIN a
            /\ \A k \in DOMAIN b : Over(b, a)[k] = b[k]
        BY OverIs
      <4>3. DOMAIN b \cup DOMAIN a = DOMAIN b
        BY <4>1
      <4> QED
        BY <4>2, <4>3 DEF a, b
    <3>4. Over(new[p].props, old[p].props) = new[p].props
      BY <1>5, <3>3, SameMap
    <3> QED
      BY <2>1, <2>3, <3>2, <3>4 DEF Kept, Entry
  <2>4. \A id : id \in DOMAIN s <=> \E p \in DOMAIN new : id = new[p].id
    BY <1>4, <2>1, <2>2 DEF Joined
  <2>5. \A p \in DOMAIN new : s[new[p].id] = Entry(new, p)
    BY <1>4, <2>1, <2>2, <2>3
  <2>6. DOMAIN s = DOMAIN Shown(new)
    BY <1>2, <2>4
  <2>7. \A id \in DOMAIN s : s[id] = Shown(new)[id]
    BY <1>2, <2>4, <2>5
  <2> QED
    BY <1>2, <1>4, <2>6, <2>7, SameMap
<1> QED
  BY <1>6, <1>7

\* Below a node of one tree only there are nodes of that tree only.
LEMMA BelowAlone ==
  ASSUME NEW t, IsTree(t), NEW S, NEW p \in Seq(Nat), p \notin DOMAIN t
  PROVE  Below(S, p) \cap DOMAIN t = {}
BY AboveIn DEF Below

\* A node with a mutation that adds it is added, and nothing below it.
LEMMA AddMixed ==
  ASSUME NEW old, NEW new, Paired(old, new), NEW s, NEW done, Mixed(s, old, new, done),
         NEW p \in Joined(old, new), p \notin done
  PROVE  /\ Applied(s, AddNode(Parent(new, p), new[p])) # s
         /\ Mixed(Applied(s, AddNode(Parent(new, p), new[p])), old, new,
                  done \cup Below(Positions(old, new), p))
<1> DEFINE m == AddNode(Parent(new, p), new[p])
           u == Applied(s, m)
           x == new[p].id
           area == Below(Positions(old, new), p)
<1>1. /\ \A q \in DOMAIN old : old[q].id # x
      /\ \A q \in DOMAIN new : q # p => new[q].id # x
      /\ p \in DOMAIN new /\ p \notin DOMAIN old
      /\ IsTree(old) /\ IsTree(new) /\ p \in Seq(Nat)
  BY DEF Paired, StayInPlace, Apart, Joined, IsTree
<1>2. m.kind = "add" /\ m.id = x /\ m.parent = Parent(new, p) /\ m.props = new[p].props
  BY DEF AddNode
<1>3. u = Over([n \in {x} |-> Entry(new, p)], s)
  BY <1>2 DEF Applied, Entry
<1>4. x \notin DOMAIN s
  BY <1>1 DEF Mixed, Joined
<1>5. /\ IsMap(u)
      /\ DOMAIN u = {x} \cup DOMAIN s
      /\ u[x] = Entry(new, p)
      /\ \A id \in DOMAIN s : u[id] = s[id]
  <2> DEFINE f == [n \in {x} |-> Entry(new, p)]
  <2>1. DOMAIN f = {x} /\ f[x] = Entry(new, p)
    OBVIOUS
  <2> HIDE DEF f, u, x
  <2>2. /\ IsMap(Over(f, s)) /\ DOMAIN Over(f, s) = DOMAIN f \cup DOMAIN s
        /\ \A k \in DOMAIN f : Over(f, s)[k] = f[k]
        /\ \A k \in DOMAIN s \ DOMAIN f : Over(f, s)[k] = s[k]
    BY OverIs
  <2> QED
    BY <1>3, <1>4, <2>1, <2>2 DEF f
<1>6. u # s
  BY <1>4, <1>5
<1>7. area \cap DOMAIN old = {}
  BY <1>1, BelowAlone
<1>8. p \in area
  BY <1>1, StartsIs DEF Below, Positions
<1>9. ASSUME NEW q \in Joined(old, new), q \in area PROVE q = p
  <2> SUFFICES ASSUME q # p PROVE FALSE
    OBVIOUS
  <2>1. q \in Seq(Nat) /\ q \in DOMAIN new /\ Starts(p, q)
    BY <1>1, <1>9 DEF Joined, IsTree, Below
  <2>2. Len(p) \in Nat /\ Len(q) \in Nat /\ Len(p) < Len(q)
    <3>1. Len(p) # Len(q)
      BY <1>1, <2>1, StartsIs
    <3> QED
      BY <1>1, <2>1, <3>1 DEF Starts
  <2>3. q # <<>>
    BY <2>2
  <2>4. Front(q) \in DOMAIN old
    BY <2>3 DEF Joined
  <2>5. /\ Len(Front(q)) = Len(q) - 1
        /\ \A i \in 1..(Len(q) - 1) : Front(q)[i] = q[i]
    BY <2>1, <2>3, FrontIs
  <2>6. Starts(p, Front(q))
    BY <2>1, <2>2, <2>5 DEF Starts
  <2> QED
    BY <1>1, <2>4, <2>6, AboveIn
<1> HIDE DEF m, u, area
<1>10. /\ DOMAIN old \ ((done \cup area) \ DOMAIN new) = DOMAIN old \ (done \ DOMAIN new)
       /\ DOMAIN old \ (done \cup area) = DOMAIN old \ done
       /\ (DOMAIN old \cap DOMAIN new) \cap (done \cup area) = (DOMAIN old \cap DOMAIN new) \cap done
       /\ Joined(old, new) \cap (done \cup area) = (Joined(old, new) \cap done) \cup {p}
  BY <1>7, <1>8, <1>9
<1>11. \A id : id \in DOMAIN u <=> \/ \E q \in DOMAIN old \ ((done \cup area) \ DOMAIN new) : id = old[q].id
                                   \/ \E q \in Joined(old, new) \cap (done \cup area) : id = new[q].id
  BY <1>5, <1>10 DEF Mixed
<1>12. \A q \in DOMAIN old \ (done \cup area) : u[old[q].id] = Entry(old, q)
  BY <1>5, <1>10 DEF Mixed
<1>13. \A q \in (DOMAIN old \cap DOMAIN new) \cap (done \cup area) : u[old[q].id] = Kept(old, new, q)
  BY <1>5, <1>10 DEF Mixed
<1>14. \A q \in Joined(old, new) \cap (done \cup area) : u[new[q].id] = Entry(new, q)
  BY <1>5, <1>10 DEF Mixed
<1>15. Mixed(u, old, new, done \cup area)
  BY <1>5, <1>11, <1>12, <1>13, <1>14 DEF Mixed
<1> QED
  BY <1>6, <1>15 DEF u, m, area

\* What goes with a node: the least that holds the node and, with a node, all
\* that are shown inside it.
LEMMA GoneIs ==
  ASSUME NEW s, IsFiniteSet(DOMAIN s), NEW x \in DOMAIN s
  PROVE  /\ x \in Gone(s, x) /\ Gone(s, x) \subseteq DOMAIN s
         /\ \A n \in DOMAIN s : s[n].parent \in Gone(s, x) => n \in Gone(s, x)
         /\ \A B : x \in B /\ (\A n \in DOMAIN s : s[n].parent \in B => n \in B) => Gone(s, x) \subseteq B
<1> DEFINE D == DOMAIN s
           N == Cardinality(D)
           Lower(above) == above \cup {n \in DOMAIN s : s[n].parent \in above}
           R(h) == h = [k \in 0..N |-> IF k = 0 THEN {x} ELSE Lower(h[k - 1])]
           F == [k \in 1..N |-> [w \in SUBSET D |-> Lower(w)]]
<1>1. N \in Nat /\ x \in D
  BY FS_CardinalityType
<1>2. \A w \in SUBSET D : Lower(w) \in SUBSET D
  OBVIOUS
<1>3. \A w : \A n : n \in Lower(w) <=> n \in w \/ (n \in D /\ s[n].parent \in w)
  OBVIOUS
<1>4. Gone(s, x) = (CHOOSE h : R(h))[N]
  BY Zenon DEF Gone
<1> DEFINE h == CHOOSE h : R(h)
<1> HIDE DEF Lower, N
<1>5. \E g : R(g)
  <2>1. StaysIn(F, N, SUBSET D)
    BY <1>2 DEF StaysIn
  <2>2. {x} \in SUBSET D
    BY <1>1
  <2> HIDE DEF F
  <2>3. PICK g \in [0..N -> SUBSET D] : g[0] = {x} /\ Continues(g, F, N)
    BY <1>1, <2>1, <2>2, ForwardRecursion
  <2>4. ASSUME NEW k \in 0..N PROVE g[k] = IF k = 0 THEN {x} ELSE Lower(g[k - 1])
    <3>1. CASE k = 0
      BY <2>3, <3>1
    <3>2. CASE k # 0
      <4>1. k \in 1..N /\ k - 1 \in 0..N
        BY <1>1, <3>2
      <4>2. g[k] = F[k][g[k - 1]] /\ g[k - 1] \in SUBSET D
        BY <2>3, <4>1 DEF Continues
      <4>3. F[k][g[k - 1]] = Lower(g[k - 1])
        BY <4>1, <4>2 DEF F
      <4> QED
        BY <3>2, <4>2, <4>3
    <3> QED
      BY <3>1, <3>2
  <2>5. g = [k \in 0..N |-> g[k]]
    BY <2>3
  <2> HIDE DEF D
  <2>6. g = [k \in 0..N |-> IF k = 0 THEN {x} ELSE Lower(g[k - 1])]
    BY <2>4, <2>5
  <2> QED
    BY <2>6
<1>6. R(h)
  <2> HIDE DEF R
  <2> QED
    BY <1>5
<1> HIDE DEF h
<1>7. h[0] = {x} /\ \A k \in Nat : k + 1 <= N => h[k + 1] = Lower(h[k])
  <2>1. 0 \in 0..N
    BY <1>1
  <2>2. \A k \in Nat : k + 1 <= N => k + 1 \in 0..N /\ k + 1 # 0 /\ (k + 1) - 1 = k
    BY <1>1
  <2> QED
    BY <1>6, <2>1, <2>2
<1> DEFINE Closed(A) == \A n \in D : s[n].parent \in A => n \in A
           T == {k \in Nat : k <= N => /\ x \in h[k] /\ h[k] \subseteq D
                                       /\ Closed(h[k]) \/ k + 1 <= Cardinality(h[k])}
<1>8. T = Nat
  <2>1. 0 \in T
    <3>1. Cardinality({x}) = 1 /\ 0 + 1 <= 1
      BY FS_Singleton
    <3> QED
      BY <1>1, <1>7, <3>1
  <2>2. ASSUME NEW k \in T PROVE k + 1 \in T
    <3> SUFFICES ASSUME k + 1 <= N
                 PROVE  /\ x \in h[k + 1] /\ h[k + 1] \subseteq D
                        /\ Closed(h[k + 1]) \/ (k + 1) + 1 <= Cardinality(h[k + 1])
      OBVIOUS
    <3>1. /\ k \in Nat /\ x \in h[k] /\ h[k] \subseteq D
          /\ Closed(h[k]) \/ k + 1 <= Cardinality(h[k])
      BY <1>1
    <3>2. h[k + 1] = Lower(h[k])
      BY <1>7, <3>1
    <3> HIDE DEF T, D
    <3>3. x \in h[k + 1] /\ h[k + 1] \subseteq D /\ h[k] \subseteq h[k + 1]
      BY <1>3, <3>1, <3>2
    <3>4. CASE Closed(h[k])
      <4>1. h[k + 1] = h[k]
        BY <1>3, <3>2, <3>4
      <4> QED
        BY <3>3, <3>4, <4>1
    <3>5. CASE ~Closed(h[k])
      <4>1. PICK n \in D : s[n].parent \in h[k] /\ n \notin h[k]
        BY <3>5
      <4>2. h[k] \cup {n} \subseteq h[k + 1]
        BY <1>3, <3>2, <3>3, <4>1
      <4>3. IsFiniteSet(h[k]) /\ IsFiniteSet(h[k + 1])
        BY <3>1, <3>3, FS_Subset DEF D
      <4>4. Cardinality(h[k] \cup {n}) = Cardinality(h[k]) + 1
        BY <4>1, <4>3, FS_AddElement
      <4>5. Cardinality(h[k] \cup {n}) <= Cardinality(h[k + 1])
        BY <4>2, <4>3, FS_Subset
      <4>6. Cardinality(h[k]) \in Nat /\ Cardinality(h[k + 1]) \in Nat
        BY <4>3, FS_CardinalityType
      <4> QED
        BY <3>1, <3>3, <3>5, <4>4, <4>5, <4>6
    <3> QED
      BY <3>4, <3>5
  <2>3. T \in SUBSET Nat
    OBVIOUS
  <2> HIDE DEF T
  <2> QED
    BY <2>1, <2>2, <2>3, SetInduction
<1>9. x \in h[N] /\ h[N] \subseteq D /\ (Closed(h[N]) \/ N + 1 <= Cardinality(h[N]))
  BY <1>1, <1>8
<1>10. Closed(h[N])
  <2>1. Cardinality(h[N]) <= N /\ Cardinality(h[N]) \in Nat
    BY <1>9, FS_Subset, FS_CardinalityType DEF N
  <2> QED
    BY <1>1, <1>9, <2>1
<1>11. ASSUME NEW B, x \in B, \A n \in DOMAIN s : s[n].parent \in B => n \in B PROVE h[N] \subseteq B
  <2> DEFINE U == {k \in Nat : k <= N => h[k] \subseteq B}
  <2>1. 0 \in U
    BY <1>7, <1>11
  <2>2. ASSUME NEW k \in U PROVE k + 1 \in U
    <3> SUFFICES ASSUME k + 1 <= N PROVE h[k + 1] \subseteq B
      OBVIOUS
    <3>1. k \in Nat /\ h[k] \subseteq B
      BY <1>1
    <3>2. h[k + 1] = Lower(h[k])
      BY <1>7, <3>1
    <3> QED
      BY <1>3, <1>11, <3>1, <3>2
  <2>3. U \in SUBSET Nat
    OBVIOUS
  <2> HIDE DEF U
  <2>4. U = Nat
    BY <2>1, <2>2, <2>3, SetInduction
  <2> QED
    BY <1>1, <2>4 DEF U
<1>12. Gone(s, x) = h[N]
  BY <1>4 DEF h
<1> QED
  BY <1>9, <1>10, <1>11, <1>12
LEMMA ImageFinite ==
  ASSUME NEW S, IsFiniteSet(S), NEW f
  PROVE  IsFiniteSet({f[x] : x \in S})
<1> DEFINE T == {f[x] : x \in S}
           g == [x \in S |-> f[x]]
<1>1. g \in [S -> T] /\ \A y \in T : \E x \in S : g[x] = y
  OBVIOUS
<1>2. g \in Surjection(S, T)
  BY <1>1 DEF Surjection
<1> HIDE DEF g, T
<1>3. IsFiniteSet(T)
  BY <1>2, FS_Surjection
<1> QED
  BY <1>3 DEF T

\* What is shown in the middle of a patch is finite.
LEMMA MixedFinite ==
  ASSUME NEW old, NEW new, Paired(old, new), NEW s, NEW done, Mixed(s, old, new, done)
  PROVE  IsFiniteSet(DOMAIN s)
<1> DEFINE f == [q \in DOMAIN old |-> old[q].id]
           g == [q \in DOMAIN new |-> new[q].id]
           A == DOMAIN old \ (done \ DOMAIN new)
           B == Joined(old, new) \cap done
<1>1. IsFiniteSet(DOMAIN old) /\ IsFiniteSet(DOMAIN new)
  BY DEF Paired, IsTree
<1>2. A \subseteq DOMAIN old /\ B \subseteq DOMAIN new
  BY DEF Joined
<1>3. IsFiniteSet(A) /\ IsFiniteSet(B)
  BY <1>1, <1>2, FS_Subset
<1>4. DOMAIN s = {f[q] : q \in A} \cup {g[q] : q \in B}
  BY <1>2 DEF Mixed
<1> HIDE DEF f, g, A, B
<1>5. IsFiniteSet({f[q] : q \in A}) /\ IsFiniteSet({g[q] : q \in B})
  BY <1>3, ImageFinite
<1> DEFINE X == {f[q] : q \in A}
           Y == {g[q] : q \in B}
<1> HIDE DEF X, Y
<1>6. IsFiniteSet(X \cup Y)
  BY <1>5, FS_Union DEF X, Y
<1> QED
  BY <1>4, <1>6 DEF X, Y

\* With a node that is in the old tree only goes all that is below it there,
\* and nothing else.
LEMMA GoneBelow ==
  ASSUME NEW old, NEW new, Paired(old, new), NEW s, NEW done, Mixed(s, old, new, done),
         NEW p \in DOMAIN old \ DOMAIN new, Below(Positions(old, new), p) \cap done = {}
  PROVE  \A id : id \in Gone(s, old[p].id) <=>
                   \E q \in Below(Positions(old, new), p) : id = old[q].id
<1> DEFINE x == old[p].id
           area == Below(Positions(old, new), p)
           A == {old[q].id : q \in area}
<1>1. /\ IsTree(old) /\ IsTree(new) /\ Named(old)
      /\ \A q, r \in DOMAIN old : old[q].id = old[r].id => q = r
      /\ \A q \in DOMAIN old, r \in DOMAIN new : old[q].id = new[r].id => q = r
  BY DEF Paired, StayInPlace, Apart
<1>2. p \in Seq(Nat) /\ \A q \in DOMAIN old : q \in Seq(Nat) /\ Len(q) \in Nat
  BY <1>1 DEF IsTree
<1>3. /\ \A q \in DOMAIN old : q # <<>> => Front(q) \in DOMAIN old
      /\ \A q \in DOMAIN new : q # <<>> => Front(q) \in DOMAIN new
  BY <1>1 DEF IsTree
<1>4. area \cap DOMAIN new = {}
  BY <1>1, <1>2, BelowAlone
<1>5. \A q : q \in area <=> q \in DOMAIN old /\ Starts(p, q)
  BY <1>4 DEF Below, Positions
<1>6. p \in area
  BY <1>2, <1>5, StartsIs
<1>7. \A q \in area : q \notin done
  OBVIOUS
<1> HIDE DEF area
<1>8. ASSUME NEW q \in area PROVE old[q].id \in DOMAIN s /\ s[old[q].id].parent = Parent(old, q)
  <2>1. q \in DOMAIN old \ done /\ q \in DOMAIN old \ (done \ DOMAIN new)
    BY <1>5, <1>7
  <2>2. s[old[q].id] = Entry(old, q)
    BY <2>1 DEF Mixed
  <2> QED
    BY <2>1, <2>2 DEF Mixed, Entry
<1>9. IsFiniteSet(DOMAIN s)
  BY MixedFinite
<1>10. x \in DOMAIN s
  BY <1>6, <1>8
<1>11. /\ x \in Gone(s, x)
       /\ \A n \in DOMAIN s : s[n].parent \in Gone(s, x) => n \in Gone(s, x)
       /\ \A B : x \in B /\ (\A n \in DOMAIN s : s[n].parent \in B => n \in B) => Gone(s, x) \subseteq B
  BY <1>9, <1>10, GoneIs
<1>12. ASSUME NEW n \in DOMAIN s, s[n].parent \in A PROVE n \in A
  <2>1. PICK r \in area : s[n].parent = old[r].id
    BY <1>12
  <2>2. r \in DOMAIN old /\ Starts(p, r) /\ old[r].id # ""
    BY <1>1, <1>5, <2>1 DEF Named
  <2>3. CASE \E q \in DOMAIN old \ (done \ DOMAIN new) : n = old[q].id
    <3>1. PICK q \in DOMAIN old \ (done \ DOMAIN new) : n = old[q].id
      BY <2>3
    <3>2. s[n] = Entry(old, q) \/ s[n] = Kept(old, new, q)
      BY <3>1 DEF Mixed
    <3>3. Parent(old, q) = old[r].id
      BY <2>1, <3>2 DEF Entry, Kept
    <3>4. q # <<>> /\ old[Front(q)].id = old[r].id
      BY <2>2, <3>3 DEF Parent
    <3>5. Front(q) = r
      BY <1>1, <1>3, <2>2, <3>4
    <3>6. q \in Seq(Nat)
      BY <1>2
    <3>7. /\ Len(r) = Len(q) - 1 /\ Len(q) \in Nat /\ Len(p) \in Nat
          /\ \A i \in 1..(Len(q) - 1) : r[i] = q[i]
      BY <1>2, <3>4, <3>5, <3>6, FrontIs
    <3>8. Starts(p, q)
      <4>1. Len(p) <= Len(r) /\ \A i \in 1..Len(p) : r[i] = p[i]
        BY <2>2 DEF Starts
      <4>2. Len(p) <= Len(q) /\ \A i \in 1..Len(p) : i \in 1..(Len(q) - 1)
        BY <3>7, <4>1
      <4> QED
        BY <3>7, <4>1, <4>2 DEF Starts
    <3> QED
      BY <1>5, <3>1, <3>8
  <2>4. CASE \E q \in Joined(old, new) \cap done : n = new[q].id
    <3>1. PICK q \in Joined(old, new) \cap done : n = new[q].id
      BY <2>4
    <3>2. s[n] = Entry(new, q) /\ q \in DOMAIN new
      BY <3>1 DEF Mixed, Joined
    <3>3. Parent(new, q) = old[r].id
      BY <2>1, <3>2 DEF Entry
    <3>4. q # <<>> /\ new[Front(q)].id = old[r].id
      BY <2>2, <3>3 DEF Parent
    <3>5. Front(q) = r /\ Front(q) \in DOMAIN new
      BY <1>1, <1>3, <2>2, <3>2, <3>4
    <3> QED
      BY <1>4, <2>1, <3>5
  <2> QED
    BY <2>3, <2>4 DEF Mixed
<1>13. Gone(s, x) \subseteq A
  <2>1. x \in A
    BY <1>6
  <2> HIDE DEF A
  <2> QED
    BY <1>11, <1>12, <2>1
<1> DEFINE T == {n \in Nat : \A q \in area : Len(q) = Len(p) + n => old[q].id \in Gone(s, x)}
<1> HIDE DEF A, x
<1>14. T = Nat
  <2>1. 0 \in T
    <3> SUFFICES ASSUME NEW q \in area, Len(q) = Len(p) + 0 PROVE old[q].id \in Gone(s, x)
      OBVIOUS
    <3>1. q = p
      BY <1>2, <1>5, StartsIs
    <3> QED
      BY <1>11, <3>1 DEF x
  <2>2. ASSUME NEW n \in T PROVE n + 1 \in T
    <3> SUFFICES ASSUME NEW q \in area, Len(q) = Len(p) + (n + 1) PROVE old[q].id \in Gone(s, x)
      OBVIOUS
    <3>1. q \in DOMAIN old /\ Starts(p, q) /\ q \in Seq(Nat) /\ Len(q) \in Nat /\ Len(p) \in Nat /\ n \in Nat
      BY <1>2, <1>5
    <3>2. q # <<>>
      BY <3>1
    <3>3. Len(Front(q)) = Len(q) - 1 /\ \A i \in 1..(Len(q) - 1) : Front(q)[i] = q[i]
      BY <3>1, <3>2, FrontIs
    <3>4. Starts(p, Front(q)) /\ Len(Front(q)) = Len(p) + n
      <4>1. Len(p) <= Len(q) /\ \A i \in 1..Len(p) : q[i] = p[i]
        BY <3>1 DEF Starts
      <4>2. Len(q) - 1 = Len(p) + n /\ Len(p) <= Len(q) - 1 /\ \A i \in 1..Len(p) : i \in 1..(Len(q) - 1)
        BY <3>1, <4>1
      <4> QED
        BY <3>3, <4>1, <4>2 DEF Starts
    <3>5. Front(q) \in area
      BY <1>3, <1>5, <3>1, <3>2, <3>4
    <3>6. old[Front(q)].id \in Gone(s, x)
      BY <3>4, <3>5
    <3>7. s[old[q].id].parent = old[Front(q)].id /\ old[q].id \in DOMAIN s
      BY <1>8, <3>2 DEF Parent
    <3> QED
      BY <1>11, <3>6, <3>7
  <2>3. T \in SUBSET Nat
    OBVIOUS
  <2> HIDE DEF T
  <2> QED
    BY <2>1, <2>2, <2>3, SetInduction
<1>15. ASSUME NEW q \in area PROVE old[q].id \in Gone(s, x)
  <2>1. Len(p) \in Nat /\ Len(q) \in Nat /\ Len(p) <= Len(q)
    <3>1. q \in DOMAIN old /\ Starts(p, q)
      BY <1>5
    <3> QED
      BY <1>2, <3>1 DEF Starts
  <2>2. PICK n \in Nat : Len(q) = Len(p) + n
    <3>1. Len(q) - Len(p) \in Nat /\ Len(q) = Len(p) + (Len(q) - Len(p))
      BY <2>1
    <3> QED
      BY <3>1
  <2> QED
    BY <1>14, <2>2
<1> QED
  BY <1>13, <1>15 DEF A, x, area

\* A node that is in the old tree only is removed with all below it.
LEMMA RemoveMixed ==
  ASSUME NEW old, NEW new, Paired(old, new), NEW s, NEW done, Mixed(s, old, new, done),
         NEW p \in DOMAIN old \ DOMAIN new, Below(Positions(old, new), p) \cap done = {}
  PROVE  /\ Applied(s, RemoveNode(old[p])) # s
         /\ Mixed(Applied(s, RemoveNode(old[p])), old, new,
                  done \cup Below(Positions(old, new), p))
<1> DEFINE m == RemoveNode(old[p])
           u == Applied(s, m)
           x == old[p].id
           area == Below(Positions(old, new), p)
<1>1. /\ IsTree(old) /\ IsTree(new)
      /\ \A q, r \in DOMAIN old : old[q].id = old[r].id => q = r
      /\ \A q \in DOMAIN old, r \in DOMAIN new : old[q].id = new[r].id => q = r
  BY DEF Paired, StayInPlace, Apart
<1>2. p \in Seq(Nat)
  BY <1>1 DEF IsTree
<1>3. m.kind = "remove" /\ m.id = x
  BY DEF RemoveNode
<1>4. u = [n \in DOMAIN s \ Gone(s, x) |-> s[n]]
  BY <1>3 DEF Applied
<1>5. area \cap DOMAIN new = {}
  BY <1>1, <1>2, BelowAlone
<1>6. p \in area /\ area \subseteq DOMAIN old
  BY <1>2, <1>5, StartsIs DEF Below, Positions
<1>7. \A id : id \in Gone(s, x) <=> \E q \in area : id = old[q].id
  BY GoneBelow
<1>8. x \in DOMAIN s
  <2>1. p \in DOMAIN old \ (done \ DOMAIN new)
    BY <1>6
  <2> QED
    BY <2>1 DEF Mixed
<1>9. /\ IsMap(u)
      /\ \A id : id \in DOMAIN u <=> id \in DOMAIN s /\ ~ \E q \in area : id = old[q].id
      /\ \A id \in DOMAIN u : u[id] = s[id]
  BY <1>4, <1>7 DEF IsMap
<1>10. \A q \in area : q \notin done
  OBVIOUS
<1> HIDE DEF m, u, area
<1>11. u # s
  BY <1>6, <1>8, <1>9
<1>12. /\ \A q \in DOMAIN old : (\E r \in area : old[q].id = old[r].id) <=> q \in area
       /\ \A q \in DOMAIN new : ~ \E r \in area : new[q].id = old[r].id
  BY <1>1, <1>5, <1>6
<1>13. /\ DOMAIN old \ ((done \cup area) \ DOMAIN new) = (DOMAIN old \ (done \ DOMAIN new)) \ area
       /\ DOMAIN old \ (done \cup area) = (DOMAIN old \ done) \ area
       /\ (DOMAIN old \cap DOMAIN new) \cap (done \cup area) = (DOMAIN old \cap DOMAIN new) \cap done
       /\ Joined(old, new) \cap (done \cup area) = Joined(old, new) \cap done
       /\ Joined(old, new) \subseteq DOMAIN new
  BY <1>5 DEF Joined
<1>14. \A id : id \in DOMAIN u <=> \/ \E q \in DOMAIN old \ ((done \cup area) \ DOMAIN new) : id = old[q].id
                                   \/ \E q \in Joined(old, new) \cap (done \cup area) : id = new[q].id
  <2>1. \A id : id \in DOMAIN s <=> \/ \E q \in DOMAIN old \ (done \ DOMAIN new) : id = old[q].id
                                    \/ \E q \in Joined(old, new) \cap done : id = new[q].id
    BY DEF Mixed
  <2> QED
    BY <1>9, <1>12, <1>13, <2>1
<1>15. \A q \in DOMAIN old \ (done \cup area) : u[old[q].id] = Entry(old, q)
  <2> SUFFICES ASSUME NEW q \in DOMAIN old \ (done \cup area) PROVE u[old[q].id] = Entry(old, q)
    OBVIOUS
  <2>1. old[q].id \in DOMAIN u
    BY <1>13, <1>14
  <2> QED
    BY <1>9, <1>13, <2>1 DEF Mixed
<1>16. \A q \in (DOMAIN old \cap DOMAIN new) \cap (done \cup area) : u[old[q].id] = Kept(old, new, q)
  <2> SUFFICES ASSUME NEW q \in (DOMAIN old \cap DOMAIN new) \cap (done \cup area)
               PROVE  u[old[q].id] = Kept(old, new, q)
    OBVIOUS
  <2>1. old[q].id \in DOMAIN u
    BY <1>5, <1>13, <1>14
  <2> QED
    BY <1>9, <1>13, <2>1 DEF Mixed
<1>17. \A q \in Joined(old, new) \cap (done \cup area) : u[new[q].id] = Entry(new, q)
  <2> SUFFICES ASSUME NEW q \in Joined(old, new) \cap (done \cup area)
               PROVE  u[new[q].id] = Entry(new, q)
    OBVIOUS
  <2>1. new[q].id \in DOMAIN u
    BY <1>14
  <2> QED
    BY <1>9, <1>13, <2>1 DEF Mixed
<1>18. Mixed(u, old, new, done \cup area)
  BY <1>9, <1>14, <1>15, <1>16, <1>17 DEF Mixed
<1> QED
  BY <1>11, <1>18 DEF u, m, area

\* Of a node in both trees the props that differ are set, if its id is the same.
LEMMA UpdateMixed ==
  ASSUME NEW old, NEW new, Paired(old, new), NEW s, NEW done, Mixed(s, old, new, done),
         NEW p \in DOMAIN old \cap DOMAIN new, p \notin done
  PROVE  \E u : /\ Leads(s, UpdateProps(old[p], new[p]), u, SameIds(old, new))
                /\ Mixed(u, old, new, done \cup {p})
<1> DEFINE x == new[p].id
           y == old[p].id
           a == old[p].props
           b == new[p].props
           ch == Changed(old[p], new[p])
           c == [k \in ch |-> b[k]]
           m == [kind |-> "props", id |-> x, parent |-> "", props |-> c]
<1>1. /\ \A q \in DOMAIN old : q # p => old[q].id # y
      /\ \A q \in DOMAIN new : q # p => new[q].id # y
      /\ \A q \in DOMAIN old : q # p => old[q].id # x
      /\ \A q \in DOMAIN new : q # p => new[q].id # x
      /\ IsMap(a) /\ IsMap(b)
  BY DEF Paired, StayInPlace, Apart, IsTree
<1>2. \A q \in Joined(old, new) : q # p /\ q \in DOMAIN new
  BY DEF Joined
<1>3. ch = {k \in DOMAIN b : k \in DOMAIN a => a[k] # b[k]}
  BY DEF Changed
<1>4. IsMap(s) /\ y \in DOMAIN s /\ s[y] = [parent |-> Parent(old, p), props |-> a]
  BY DEF Mixed, Entry
<1>5. /\ DOMAIN old \ ((done \cup {p}) \ DOMAIN new) = DOMAIN old \ (done \ DOMAIN new)
      /\ DOMAIN old \ (done \cup {p}) = (DOMAIN old \ done) \ {p}
      /\ (DOMAIN old \cap DOMAIN new) \cap (done \cup {p})
           = ((DOMAIN old \cap DOMAIN new) \cap done) \cup {p}
      /\ Joined(old, new) \cap (done \cup {p}) = Joined(old, new) \cap done
  BY <1>2
<1>6. UpdateProps(old[p], new[p]) = IF ch = {} THEN <<>> ELSE <<m>>
  BY DEF UpdateProps
<1>7. m.kind = "props" /\ m.id = x /\ m.props = c
  OBVIOUS
<1> HIDE DEF m
<1>8. ASSUME NEW u, IsMap(u), DOMAIN u = DOMAIN s, u[y] = Kept(old, new, p),
             \A n \in DOMAIN s \ {y} : u[n] = s[n]
      PROVE  Mixed(u, old, new, done \cup {p})
  <2>1. \A id : id \in DOMAIN s <=> \/ \E q \in DOMAIN old \ (done \ DOMAIN new) : id = old[q].id
                                    \/ \E q \in Joined(old, new) \cap done : id = new[q].id
    BY DEF Mixed
  <2>2. \A id : id \in DOMAIN u <=> \/ \E q \in DOMAIN old \ ((done \cup {p}) \ DOMAIN new) : id = old[q].id
                                    \/ \E q \in Joined(old, new) \cap (done \cup {p}) : id = new[q].id
    BY <1>5, <1>8, <2>1
  <2>3. \A q \in DOMAIN old \ (done \cup {p}) : u[old[q].id] = Entry(old, q)
    <3> SUFFICES ASSUME NEW q \in DOMAIN old \ (done \cup {p}) PROVE u[old[q].id] = Entry(old, q)
      OBVIOUS
    <3>1. q \in DOMAIN old \ (done \ DOMAIN new) /\ q # p /\ q \in DOMAIN old \ done
      OBVIOUS
    <3>2. old[q].id \in DOMAIN s \ {y}
      BY <1>1, <2>1, <3>1
    <3> QED
      BY <1>8, <3>1, <3>2 DEF Mixed
  <2>4. \A q \in (DOMAIN old \cap DOMAIN new) \cap (done \cup {p}) : u[old[q].id] = Kept(old, new, q)
    <3> SUFFICES ASSUME NEW q \in (DOMAIN old \cap DOMAIN new) \cap done, q # p
                 PROVE  u[old[q].id] = Kept(old, new, q)
      BY <1>5, <1>8
    <3>1. q \in DOMAIN old \ (done \ DOMAIN new)
      OBVIOUS
    <3>2. old[q].id \in DOMAIN s \ {y}
      BY <1>1, <2>1, <3>1
    <3> QED
      BY <1>8, <3>2 DEF Mixed
  <2>5. \A q \in Joined(old, new) \cap (done \cup {p}) : u[new[q].id] = Entry(new, q)
    <3> SUFFICES ASSUME NEW q \in Joined(old, new) \cap done PROVE u[new[q].id] = Entry(new, q)
      BY <1>5
    <3>1. new[q].id \in DOMAIN s \ {y}
      BY <1>1, <1>2, <2>1
    <3> QED
      BY <1>8, <3>1 DEF Mixed
  <2> QED
    BY <1>8, <2>2, <2>3, <2>4, <2>5 DEF Mixed
<1>9. CASE x # y
  <2>1. ~SameIds(old, new)
    BY <1>9 DEF SameIds
  <2>2. x \notin DOMAIN s
    <3>1. \A q \in DOMAIN old : old[q].id # x
      BY <1>1, <1>9
    <3> QED
      BY <1>1, <1>2, <3>1 DEF Mixed
  <2>3. Applied(s, m) = s
    BY <1>7, <2>2 DEF Applied
  <2>4. s[y] = Kept(old, new, p)
    BY <1>4, <1>9 DEF Kept
  <2>5. Mixed(s, old, new, done \cup {p})
    BY <1>4, <1>8, <2>4
  <2>6. Leads(s, <<m>>, s, SameIds(old, new))
    BY <2>1, <2>3, LeadsOnce
  <2>7. Leads(s, <<>>, s, SameIds(old, new))
    BY LeadsNowhere
  <2> QED
    BY <1>6, <2>5, <2>6, <2>7
<1>10. CASE x = y /\ ch = {}
  <2>1. \A k \in DOMAIN b : k \in DOMAIN a /\ a[k] = b[k]
    BY <1>3, <1>10
  <2> HIDE DEF a, b, ch, x, y
  <2>2. /\ IsMap(Over(b, a)) /\ DOMAIN Over(b, a) = DOMAIN b \cup DOMAIN a
        /\ \A k \in DOMAIN b : Over(b, a)[k] = b[k]
        /\ \A k \in DOMAIN a \ DOMAIN b : Over(b, a)[k] = a[k]
    BY OverIs
  <2>3. DOMAIN Over(b, a) = DOMAIN a /\ \A k \in DOMAIN a : Over(b, a)[k] = a[k]
    BY <2>1, <2>2
  <2>4. Over(b, a) = a
    BY <1>1, <2>2, <2>3, SameMap
  <2>5. s[y] = Kept(old, new, p)
    BY <1>4, <1>10, <2>4 DEF Kept, a, b, x, y
  <2>6. Mixed(s, old, new, done \cup {p})
    BY <1>4, <1>8, <2>5
  <2> QED
    BY <1>6, <1>10, <2>6, LeadsNowhere
<1>11. CASE x = y /\ ch # {}
  <2> DEFINE u == Applied(s, m)
  <2>1. u = [s EXCEPT ![y].props = Over(c, @)]
    BY <1>4, <1>7, <1>11 DEF Applied
  <2>2. DOMAIN c = ch /\ ch \subseteq DOMAIN b /\ \A k \in ch : c[k] = b[k]
    BY <1>3
  <2> HIDE DEF a, b, c, ch, x, y, u
  <2>3. /\ IsMap(Over(b, a)) /\ DOMAIN Over(b, a) = DOMAIN b \cup DOMAIN a
        /\ \A k \in DOMAIN b : Over(b, a)[k] = b[k]
        /\ \A k \in DOMAIN a \ DOMAIN b : Over(b, a)[k] = a[k]
    BY OverIs
  <2>4. /\ IsMap(Over(c, a)) /\ DOMAIN Over(c, a) = DOMAIN c \cup DOMAIN a
        /\ \A k \in DOMAIN c : Over(c, a)[k] = c[k]
        /\ \A k \in DOMAIN a \ DOMAIN c : Over(c, a)[k] = a[k]
    BY OverIs
  <2>5. DOMAIN Over(c, a) = DOMAIN Over(b, a)
    BY <1>3, <2>2, <2>3, <2>4
  <2>6. \A k \in DOMAIN Over(c, a) : Over(c, a)[k] = Over(b, a)[k]
    BY <1>3, <2>2, <2>3, <2>4
  <2>7. Over(c, a) = Over(b, a)
    BY <2>3, <2>4, <2>5, <2>6, SameMap
  <2>8. u[y] = Kept(old, new, p)
    <3>1. u[y] = [parent |-> Parent(old, p), props |-> Over(b, a)]
      BY <1>4, <2>1, <2>7 DEF IsMap
    <3> QED
      BY <1>11, <3>1 DEF Kept, a, b, x, y
  <2>9. IsMap(u) /\ DOMAIN u = DOMAIN s /\ \A n \in DOMAIN s \ {y} : u[n] = s[n]
    BY <1>4, <2>1 DEF IsMap
  <2>10. u # s
    <3>1. PICK k \in ch : TRUE
      BY <1>11
    <3>2. Over(b, a) # a
      BY <1>3, <2>3, <3>1
    <3>3. s[y].props = a /\ u[y].props = Over(b, a)
      BY <1>4, <1>11, <2>8 DEF Kept, a, b, x, y
    <3> QED
      BY <3>2, <3>3
  <2>11. Mixed(u, old, new, done \cup {p})
    BY <1>8, <2>8, <2>9
  <2>12. Leads(s, <<m>>, u, SameIds(old, new))
    BY <2>10, LeadsOnce DEF u
  <2> QED
    BY <1>6, <1>11, <2>11, <2>12
<1> QED
  BY <1>9, <1>10, <1>11

\* Mutations that bring the nodes at the positions in area up to date.
Takes(mutations, old, new, area) ==
  \A s, done : Mixed(s, old, new, done) /\ done \cap area = {} =>
    \E u : Leads(s, mutations, u, SameIds(old, new)) /\ Mixed(u, old, new, done \cup area)

LEMMA TakesNothing ==
  ASSUME NEW old, NEW new
  PROVE  Takes(<<>>, old, new, {})
<1> SUFFICES ASSUME NEW s, NEW done, Mixed(s, old, new, done)
             PROVE  \E u : Leads(s, <<>>, u, SameIds(old, new)) /\ Mixed(u, old, new, done \cup {})
  BY DEF Takes
<1>1. done \cup {} = done
  OBVIOUS
<1> QED
  BY <1>1, LeadsNowhere

LEMMA TakesOn ==
  ASSUME NEW old, NEW new, NEW M, NEW a \in Seq(M), NEW b \in Seq(M), NEW A, NEW B,
         Takes(a, old, new, A), Takes(b, old, new, B), A \cap B = {}
  PROVE  Takes(a \o b, old, new, A \cup B)
<1> SUFFICES ASSUME NEW s, NEW done, Mixed(s, old, new, done), done \cap (A \cup B) = {}
             PROVE  \E v : Leads(s, a \o b, v, SameIds(old, new)) /\ Mixed(v, old, new, done \cup (A \cup B))
  BY DEF Takes
<1>1. done \cap A = {} /\ (done \cup A) \cap B = {} /\ (done \cup A) \cup B = done \cup (A \cup B)
  OBVIOUS
<1>2. PICK u : Leads(s, a, u, SameIds(old, new)) /\ Mixed(u, old, new, done \cup A)
  BY <1>1 DEF Takes
<1>3. PICK v : Leads(u, b, v, SameIds(old, new)) /\ Mixed(v, old, new, (done \cup A) \cup B)
  BY <1>1, <1>2 DEF Takes
<1>4. Leads(s, a \o b, v, SameIds(old, new))
  BY <1>2, <1>3, LeadsOn
<1> QED
  BY <1>1, <1>3, <1>4

LEMMA TakesFlattened ==
  ASSUME NEW old, NEW new, NEW M, NEW pieces \in Seq(Seq(M)), NEW areas,
         \A i \in 1..Len(pieces) : Takes(pieces[i], old, new, areas[i]),
         \A i, j \in 1..Len(pieces) : i # j => areas[i] \cap areas[j] = {},
         NEW all, \A q : q \in all <=> \E i \in 1..Len(pieces) : q \in areas[i]
  PROVE  Takes(FlattenSeq(pieces), old, new, all)
<1> DEFINE N == Len(pieces)
           Upto(n) == UNION {areas[i] : i \in 1..n}
<1>0. Upto(N) = all
  OBVIOUS
<1>1. N \in Nat /\ \A i \in 1..N : pieces[i] \in Seq(M)
  OBVIOUS
<1>2. CASE N = 0
  <2>1. FlattenSeq(pieces) = <<>>
    <3>1. pieces = <<>>
      BY <1>2
    <3> QED
      BY <3>1 DEF FlattenSeq
  <2>2. Upto(N) = {}
    <3>1. 1..0 = {}
      OBVIOUS
    <3> QED
      BY <1>2, <3>1
  <2> QED
    BY <1>0, <2>1, <2>2, TakesNothing
<1>3. CASE N # 0
  <2>1. PICK g : Flattens(g, pieces, N) /\ FlattenSeq(pieces) = g[N]
    BY <1>1, <1>3, FlatteningIs
  <2>2. \A i \in 1..N : g[i] = IF i = 1 THEN pieces[i] ELSE g[i - 1] \o pieces[i]
    BY <2>1 DEF Flattens
  <2> DEFINE T == {n \in Nat : n + 1 \in 1..N => g[n + 1] \in Seq(M) /\ Takes(g[n + 1], old, new, Upto(n + 1))}
  <2>3. 0 \in T
    <3>1. 1 \in 1..N /\ 0 + 1 = 1
      BY <1>1, <1>3
    <3>2. g[1] = pieces[1]
      BY <2>2, <3>1
    <3>3. Upto(1) = areas[1]
      <4>1. 1..1 = {1}
        OBVIOUS
      <4> QED
        BY <4>1
    <3> HIDE DEF Upto
    <3>4. g[1] \in Seq(M) /\ Takes(g[1], old, new, Upto(1))
      BY <1>1, <3>1, <3>2, <3>3
    <3> QED
      BY <3>1, <3>4
  <2>4. ASSUME NEW n \in T PROVE n + 1 \in T
    <3> SUFFICES ASSUME (n + 1) + 1 \in 1..N
                 PROVE  g[(n + 1) + 1] \in Seq(M) /\ Takes(g[(n + 1) + 1], old, new, Upto((n + 1) + 1))
      OBVIOUS
    <3> DEFINE k == n + 1
    <3>1. k \in 1..N /\ k + 1 \in 1..N /\ k + 1 # 1 /\ (k + 1) - 1 = k /\ k \in Nat
      BY <1>1
    <3>2. g[k] \in Seq(M) /\ Takes(g[k], old, new, Upto(k))
      BY <3>1
    <3> HIDE DEF k, T
    <3>3. g[k + 1] = g[k] \o pieces[k + 1]
      BY <2>2, <3>1
    <3>4. Upto(k + 1) = Upto(k) \cup areas[k + 1]
      <4>1. 1..(k + 1) = 1..k \cup {k + 1}
        BY <3>1
      <4> QED
        BY <4>1
    <3>5. Upto(k) \cap areas[k + 1] = {}
      <4>1. \A i \in 1..k : i \in 1..N /\ i # k + 1
        BY <1>1, <3>1
      <4> QED
        BY <3>1, <4>1
    <3>6. pieces[k + 1] \in Seq(M) /\ Takes(pieces[k + 1], old, new, areas[k + 1])
      BY <1>1, <3>1
    <3> HIDE DEF Upto
    <3>7. Takes(g[k] \o pieces[k + 1], old, new, Upto(k) \cup areas[k + 1])
      BY <3>2, <3>5, <3>6, TakesOn
    <3>8. g[k] \o pieces[k + 1] \in Seq(M)
      BY <3>2, <3>6
    <3> QED
      BY <3>3, <3>4, <3>7, <3>8 DEF k
  <2> HIDE DEF T
  <2>5. T = Nat
    BY <2>3, <2>4, SetInduction DEF T
  <2>6. N - 1 \in Nat /\ (N - 1) + 1 = N /\ N \in 1..N
    BY <1>1, <1>3
  <2> QED
    BY <1>0, <2>1, <2>5, <2>6 DEF T
<1> QED
  BY <1>2, <1>3

LEMMA BelowNode ==
  ASSUME NEW old, NEW new, Paired(old, new), NEW p \in DOMAIN old \cap DOMAIN new
  PROVE  LET S == Positions(old, new)
             n == Most(old, new, p)
         IN  /\ Below(S, p) = {p} \cup UNION {Below(S, Append(p, k)) : k \in 1..n}
             /\ \A k \in 1..n : p \notin Below(S, Append(p, k))
             /\ \A i, k \in 1..n : i # k => Below(S, Append(p, i)) \cap Below(S, Append(p, k)) = {}
<1> DEFINE S == Positions(old, new)
           n == Most(old, new, p)
<1>1. IsTree(old) /\ IsTree(new)
  BY DEF Paired
<1>2. p \in S /\ \A q \in S : q \in Seq(Nat) /\ Len(q) \in Nat
  BY <1>1, TreeFacts DEF Positions
<1>3. /\ n \in Nat
      /\ \A k \in Nat : k \in 1..n <=> k \in 1..old[p].children \/ k \in 1..new[p].children
      /\ \A k \in 1..n : Append(p, k) \in S
  BY <1>1, TreeFacts
<1>4. ASSUME NEW k \in 1..n, NEW q \in S, Starts(Append(p, k), q)
      PROVE  Starts(p, q) /\ Len(p) < Len(q) /\ q[Len(p) + 1] = k
  <2>1. p \in Seq(Nat) /\ q \in Seq(Nat) /\ k \in Nat
    BY <1>2, <1>3
  <2> QED
    BY <1>4, <2>1, StartsNext
<1>5. ASSUME NEW q \in S, Starts(p, q), q # p
      PROVE  \E k \in 1..n : Starts(Append(p, k), q)
  <2>1. q \in DOMAIN old => q[Len(p) + 1] \in 1..old[p].children /\ Starts(Append(p, q[Len(p) + 1]), q)
    BY <1>1, <1>2, <1>5, OnTheWay
  <2>2. q \in DOMAIN new => q[Len(p) + 1] \in 1..new[p].children /\ Starts(Append(p, q[Len(p) + 1]), q)
    BY <1>1, <1>2, <1>5, OnTheWay
  <2>3. q \in DOMAIN old \/ q \in DOMAIN new
    BY DEF Positions
  <2>4. old[p].children \in Nat /\ new[p].children \in Nat
    BY <1>1 DEF IsTree
  <2>5. q[Len(p) + 1] \in Nat
    BY <2>1, <2>2, <2>3, <2>4
  <2> QED
    BY <1>3, <2>1, <2>2, <2>3, <2>5
<1>6. Starts(p, p)
  BY <1>2, StartsIs
<1> HIDE DEF S, n
<1>7. Below(S, p) = {p} \cup UNION {Below(S, Append(p, k)) : k \in 1..n}
  <2>1. \A q \in Below(S, p) : q = p \/ \E k \in 1..n : q \in Below(S, Append(p, k))
    BY <1>5 DEF Below
  <2>2. p \in Below(S, p) /\ \A k \in 1..n : \A q \in Below(S, Append(p, k)) : q \in Below(S, p)
    BY <1>2, <1>4, <1>6 DEF Below
  <2> QED
    BY <2>1, <2>2
<1>8. \A k \in 1..n : p \notin Below(S, Append(p, k))
  <2> SUFFICES ASSUME NEW k \in 1..n, p \in Below(S, Append(p, k)) PROVE FALSE
    OBVIOUS
  <2>1. Len(p) < Len(p)
    BY <1>2, <1>4 DEF Below
  <2> QED
    BY <1>2, <2>1
<1>9. \A i, k \in 1..n : i # k => Below(S, Append(p, i)) \cap Below(S, Append(p, k)) = {}
  <2> SUFFICES ASSUME NEW i \in 1..n, NEW k \in 1..n, NEW q \in S,
                      Starts(Append(p, i), q), Starts(Append(p, k), q)
               PROVE  i = k
    BY DEF Below
  <2> QED
    BY <1>4
<1> QED
  BY <1>7, <1>8, <1>9 DEF S, n

\* The mutations there may be between two trees.
Patches(old, new) ==
  {AddNode(Parent(new, p), new[p]) : p \in DOMAIN new}
    \cup {RemoveNode(old[p]) : p \in DOMAIN old}
    \cup {[kind |-> "props", id |-> new[p].id, parent |-> "",
           props |-> [k \in Changed(old[p], new[p]) |-> new[p].props[k]]] : p \in DOMAIN new}

LEMMA AddTakes ==
  ASSUME NEW old, NEW new, Paired(old, new), NEW p \in Joined(old, new)
  PROVE  /\ <<AddNode(Parent(new, p), new[p])>> \in Seq(Patches(old, new))
         /\ Takes(<<AddNode(Parent(new, p), new[p])>>, old, new, Below(Positions(old, new), p))
<1>1. <<AddNode(Parent(new, p), new[p])>> \in Seq(Patches(old, new))
  <2>1. AddNode(Parent(new, p), new[p]) \in Patches(old, new)
    BY DEF Patches, Joined
  <2> HIDE DEF Patches
  <2> QED
    BY <2>1
<1>2. p \in Below(Positions(old, new), p)
  <2>1. p \in Seq(Nat) /\ p \in Positions(old, new)
    BY DEF Paired, IsTree, Positions, Joined
  <2> QED
    BY <2>1, StartsIs DEF Below
<1> DEFINE area == Below(Positions(old, new), p)
<1>3. ASSUME NEW s, NEW done, Mixed(s, old, new, done), done \cap area = {}
      PROVE  \E u : /\ Leads(s, <<AddNode(Parent(new, p), new[p])>>, u, SameIds(old, new))
                    /\ Mixed(u, old, new, done \cup area)
  <2>1. p \notin done /\ area \cap done = {}
    BY <1>2, <1>3
  <2>2. /\ Applied(s, AddNode(Parent(new, p), new[p])) # s
        /\ Mixed(Applied(s, AddNode(Parent(new, p), new[p])), old, new, done \cup area)
    BY <1>3, <2>1, AddMixed
  <2>3. Leads(s, <<AddNode(Parent(new, p), new[p])>>, Applied(s, AddNode(Parent(new, p), new[p])), SameIds(old, new))
    BY <2>2, LeadsOnce
  <2> QED
    BY <2>2, <2>3
<1> QED
  BY <1>1, <1>3 DEF Takes

LEMMA RemoveTakes ==
  ASSUME NEW old, NEW new, Paired(old, new), NEW p \in DOMAIN old \ DOMAIN new
  PROVE  /\ <<RemoveNode(old[p])>> \in Seq(Patches(old, new))
         /\ Takes(<<RemoveNode(old[p])>>, old, new, Below(Positions(old, new), p))
<1>1. <<RemoveNode(old[p])>> \in Seq(Patches(old, new))
  <2>1. RemoveNode(old[p]) \in Patches(old, new)
    BY DEF Patches
  <2> HIDE DEF Patches
  <2> QED
    BY <2>1
<1>2. p \in Below(Positions(old, new), p)
  <2>1. p \in Seq(Nat) /\ p \in Positions(old, new)
    BY DEF Paired, IsTree, Positions
  <2> QED
    BY <2>1, StartsIs DEF Below
<1> DEFINE area == Below(Positions(old, new), p)
<1>3. ASSUME NEW s, NEW done, Mixed(s, old, new, done), done \cap area = {}
      PROVE  \E u : /\ Leads(s, <<RemoveNode(old[p])>>, u, SameIds(old, new))
                    /\ Mixed(u, old, new, done \cup area)
  <2>1. p \notin done /\ area \cap done = {}
    BY <1>2, <1>3
  <2>2. /\ Applied(s, RemoveNode(old[p])) # s
        /\ Mixed(Applied(s, RemoveNode(old[p])), old, new, done \cup area)
    BY <1>3, <2>1, RemoveMixed
  <2>3. Leads(s, <<RemoveNode(old[p])>>, Applied(s, RemoveNode(old[p])), SameIds(old, new))
    BY <2>2, LeadsOnce
  <2> QED
    BY <2>2, <2>3
<1> QED
  BY <1>1, <1>3 DEF Takes

LEMMA UpdateTakes ==
  ASSUME NEW old, NEW new, Paired(old, new), NEW p \in DOMAIN old \cap DOMAIN new
  PROVE  /\ UpdateProps(old[p], new[p]) \in Seq(Patches(old, new))
         /\ Takes(UpdateProps(old[p], new[p]), old, new, {p})
<1>1. UpdateProps(old[p], new[p]) \in Seq(Patches(old, new))
  <2> DEFINE m == [kind |-> "props", id |-> new[p].id, parent |-> "",
                   props |-> [k \in Changed(old[p], new[p]) |-> new[p].props[k]]]
  <2>1. m \in Patches(old, new)
    BY DEF Patches
  <2>2. UpdateProps(old[p], new[p]) = <<>> \/ UpdateProps(old[p], new[p]) = <<m>>
    BY DEF UpdateProps
  <2> HIDE DEF m, Patches
  <2>3. <<>> \in Seq(Patches(old, new)) /\ <<m>> \in Seq(Patches(old, new))
    BY <2>1
  <2> QED
    BY <2>2, <2>3
<1>2. ASSUME NEW s, NEW done, Mixed(s, old, new, done), done \cap {p} = {}
      PROVE  \E u : Leads(s, UpdateProps(old[p], new[p]), u, SameIds(old, new)) /\ Mixed(u, old, new, done \cup {p})
  <2>1. p \notin done
    BY <1>2
  <2> QED
    BY <1>2, <2>1, UpdateMixed
<1> QED
  BY <1>1, <1>2 DEF Takes

\* The mutations for a node bring it and all below it up to date.
LEMMA DiffTakes ==
  ASSUME NEW old, NEW new, Paired(old, new), NEW d,
         \A p \in Positions(old, new) : d[p] = DiffOf(old, new, p, d)
  PROVE  \A p \in DOMAIN old \cup Joined(old, new) :
           d[p] \in Seq(Patches(old, new)) /\ Takes(d[p], old, new, Below(Positions(old, new), p))
<1> DEFINE S == Positions(old, new)
           E == DOMAIN old \cup Joined(old, new)
           M == Patches(old, new)
           Good(p) == d[p] \in Seq(M) /\ Takes(d[p], old, new, Below(S, p))
<1>1. IsTree(old) /\ IsTree(new)
  BY DEF Paired
<1>0. E \subseteq S
  BY DEF Joined, Positions
<1>2. \A p \in S : p \in Seq(Nat) /\ Len(p) \in Nat
  BY <1>1, TreeFacts
<1>3. PICK depth \in Nat : \A p \in S : Len(p) <= depth
  BY <1>1, <1>2, TreeFacts, Deepest
<1>4. ASSUME NEW p \in DOMAIN old \cap DOMAIN new,
             \A k \in 1..Most(old, new, p) : Good(Append(p, k))
      PROVE  Good(p)
  <2> DEFINE n      == Most(old, new, p)
             pieces == [k \in 1..n |-> d[Append(p, k)]]
             areas  == [k \in 1..n |-> Below(S, Append(p, k))]
             all    == UNION {areas[k] : k \in 1..n}
  <2>1. d[p] = UpdateProps(old[p], new[p]) \o FlattenSeq(pieces)
    BY DEF DiffOf, Most, Positions
  <2>2. n \in Nat
    BY <1>1, TreeFacts
  <2>3. /\ Below(S, p) = {p} \cup UNION {Below(S, Append(p, k)) : k \in 1..n}
        /\ \A k \in 1..n : p \notin Below(S, Append(p, k))
        /\ \A i, k \in 1..n : i # k => Below(S, Append(p, i)) \cap Below(S, Append(p, k)) = {}
    BY BelowNode
  <2> HIDE DEF n, S, M
  <2>4. pieces \in Seq(Seq(M)) /\ Len(pieces) = n
    BY <1>4, <2>2 DEF n
  <2>5. \A k \in 1..n : Takes(pieces[k], old, new, areas[k])
    BY <1>4 DEF n
  <2>6. \A i, k \in 1..n : i # k => areas[i] \cap areas[k] = {}
    BY <2>3
  <2>7. all = UNION {Below(S, Append(p, k)) : k \in 1..n}
    OBVIOUS
  <2>8. {p} \cap all = {}
    BY <2>3, <2>7
  <2> HIDE DEF pieces, areas
  <2>9. FlattenSeq(pieces) \in Seq(M)
    BY <2>4, FlattenedType
  <2>10. Takes(FlattenSeq(pieces), old, new, all)
    <3>1. /\ \A k \in 1..Len(pieces) : Takes(pieces[k], old, new, areas[k])
          /\ \A i, k \in 1..Len(pieces) : i # k => areas[i] \cap areas[k] = {}
      BY <2>4, <2>5, <2>6
    <3>2. \A q : q \in all <=> \E k \in 1..Len(pieces) : q \in areas[k]
      BY <2>4
    <3>3. pieces \in Seq(Seq(M))
      BY <2>4
    <3> HIDE DEF all
    <3> QED
      BY <3>1, <3>2, <3>3, TakesFlattened
  <2> HIDE DEF all
  <2>11. UpdateProps(old[p], new[p]) \in Seq(M) /\ Takes(UpdateProps(old[p], new[p]), old, new, {p})
    BY UpdateTakes DEF M
  <2>12. Takes(UpdateProps(old[p], new[p]) \o FlattenSeq(pieces), old, new, {p} \cup all)
    BY <2>8, <2>9, <2>10, <2>11, TakesOn
  <2>13. UpdateProps(old[p], new[p]) \o FlattenSeq(pieces) \in Seq(M)
    BY <2>9, <2>11
  <2> QED
    BY <2>1, <2>3, <2>7, <2>12, <2>13
<1>5. ASSUME NEW p \in E, ~(p \in DOMAIN old /\ p \in DOMAIN new) PROVE Good(p)
  <2>1. CASE p \notin DOMAIN old
    <3>1. p \in Joined(old, new) /\ p \in S
      BY <2>1 DEF Joined, Positions
    <3>2. d[p] = <<AddNode(Parent(new, p), new[p])>>
      BY <2>1, <3>1 DEF DiffOf
    <3> QED
      BY <3>1, <3>2, AddTakes
  <2>2. CASE p \in DOMAIN old
    <3>1. p \in DOMAIN old \ DOMAIN new /\ p \in S
      BY <1>5, <2>2 DEF Positions
    <3>2. d[p] = <<RemoveNode(old[p])>>
      BY <3>1 DEF DiffOf
    <3> QED
      BY <3>1, <3>2, RemoveTakes
  <2> QED
    BY <2>1, <2>2
<1> DEFINE T == {n \in Nat : \A p \in E : Len(p) + n > depth => Good(p)}
<1> HIDE DEF Good
<1>6. 0 \in T
  BY <1>0, <1>2, <1>3
<1>7. ASSUME NEW n \in T PROVE n + 1 \in T
  <2> SUFFICES ASSUME NEW p \in E, Len(p) + (n + 1) > depth PROVE Good(p)
    OBVIOUS
  <2>1. ASSUME p \in DOMAIN old, p \in DOMAIN new, NEW k \in 1..Most(old, new, p)
        PROVE  Good(Append(p, k))
    <3>1. Append(p, k) \in S /\ k \in Nat
      BY <1>1, <2>1, TreeFacts
    <3>2. p \in Seq(Nat) /\ Len(p) \in Nat /\ n \in Nat
      BY <1>0, <1>2
    <3>3. Len(Append(p, k)) = Len(p) + 1
      BY <3>1, <3>2
    <3>4. Len(Append(p, k)) + n > depth
      BY <1>3, <3>2, <3>3
    <3>5. Append(p, k) \in E
      <4>1. Front(Append(p, k)) = p
        BY <3>1, <3>2, FrontAppend
      <4> QED
        BY <2>1, <3>1, <4>1 DEF Joined, Positions
    <3> QED
      BY <3>4, <3>5
  <2> QED
    BY <1>4, <1>5, <2>1
<1> HIDE DEF T
<1>8. T = Nat
  BY <1>6, <1>7, SetInduction DEF T
<1>9. depth + 1 \in T
  BY <1>8
<1>10. \A p \in E : Good(p)
  BY <1>0, <1>2, <1>3, <1>9 DEF T
<1> QED
  BY <1>10 DEF Good

\* A patch of what shows a tree leads to what shows the next, if it reported
\* all there is to report, and to something else, if not.
LEMMA PatchLeads ==
  ASSUME NEW old, NEW new, Paired(old, new)
  PROVE  \E u : /\ Leads(Shown(old), DiffNodes(old, new), u, SameIds(old, new))
                /\ u = Shown(new) <=> Reported(old, new)
<1> DEFINE S == Positions(old, new)
<1>1. IsTree(old) /\ IsTree(new)
  BY DEF Paired
<1>2. PICK d : /\ \A p \in S : d[p] = DiffOf(old, new, p, d)
               /\ DiffNodes(old, new) = IF old = NoTree /\ new = NoTree THEN <<>> ELSE d[<<>>]
  BY <1>1, DiffIs
<1>3. CASE old = NoTree /\ new = NoTree
  <2>1. Reported(old, new)
    <3>1. DOMAIN old = {} /\ DOMAIN new = {}
      BY <1>3 DEF NoTree
    <3> QED
      BY <3>1 DEF Reported, SameIds
  <2> QED
    BY <1>2, <1>3, <2>1, LeadsNowhere
<1>4. CASE ~(old = NoTree /\ new = NoTree)
  <2>1. <<>> \in DOMAIN old \cup Joined(old, new)
    BY <1>1, <1>4 DEF IsTree, Joined
  <2>2. Takes(d[<<>>], old, new, Below(S, <<>>))
    BY <1>2, <2>1, DiffTakes
  <2>3. Below(S, <<>>) = S
    <3>1. \A p \in S : Starts(<<>>, p)
      <4>1. \A p \in S : Len(p) \in Nat
        BY <1>1, TreeFacts
      <4>2. Len(<<>>) = 0 /\ 1..0 = {}
        OBVIOUS
      <4> QED
        BY <4>1, <4>2 DEF Starts
    <3> QED
      BY <3>1 DEF Below
  <2>4. Mixed(Shown(old), old, new, {})
    BY NothingDone
  <2>5. {} \cap S = {} /\ {} \cup S = S
    OBVIOUS
  <2>6. PICK u : Leads(Shown(old), d[<<>>], u, SameIds(old, new)) /\ Mixed(u, old, new, S)
    BY <2>2, <2>3, <2>4, <2>5 DEF Takes
  <2>7. u = Shown(new) <=> Reported(old, new)
    BY <2>6, AllDone
  <2> QED
    BY <1>2, <1>4, <2>6, <2>7
<1> QED
  BY <1>3, <1>4

TreeBuilt == currentTree \in Trees

LEMMA TreeIsBuilt == ReconcilerSpec => []TreeBuilt
<1>1. ReconcilerInit => TreeBuilt
  BY DEF ReconcilerInit, TreeBuilt
<1>2. TreeBuilt /\ [ReconcilerNext]_reconcilerVars => TreeBuilt'
  BY DEF TreeBuilt, ReconcilerNext, DiffAndPatch, reconcilerVars
<1> QED
  BY <1>1, <1>2, PTL DEF ReconcilerSpec

LEMMA PatchesHold ==
  ASSUME TreeBuilt, NEW t \in Trees, DiffAndPatch(t)
  PROVE  PatchRight
<1> DEFINE ms == DiffNodes(currentTree, t)
<1>1. currentTree' = t /\ target' = Patched(target, ms)[Len(ms)]
  BY DEF DiffAndPatch
<1>2. IsTree(currentTree) /\ IsTree(t)
  BY TreesAssumption DEF TreeBuilt
<1>3. ASSUME target = Shown(currentTree), StayInPlace(currentTree, t)
      PROVE  /\ target' = Shown(t) <=> Reported(currentTree, t)
             /\ SameIds(currentTree, t) =>
                  \A k \in 1..Len(ms) : Patched(target, ms)[k] # Patched(target, ms)[k - 1]
  <2>1. Paired(currentTree, t)
    BY <1>2, <1>3 DEF Paired
  <2>2. PICK u : /\ Leads(target, ms, u, SameIds(currentTree, t))
                 /\ u = Shown(t) <=> Reported(currentTree, t)
    BY <1>3, <2>1, PatchLeads
  <2> QED
    BY <1>1, <2>2 DEF Leads
<1> QED
  BY <1>1, <1>3 DEF PatchRight

\* Whatever trees an application builds one after the other, a patch between two
\* whose nodes do not move leaves the target showing the new one exactly when
\* diffNodes reports all that differs, and while ids stay no mutation is for
\* nothing (diffNodes, DiffAndPatch).
THEOREM PatchesAreRight == ReconcilerSpec => PatchesRight
<1>1. TreeBuilt /\ [ReconcilerNext]_reconcilerVars => [PatchRight]_reconcilerVars
  BY PatchesHold DEF ReconcilerNext
<1> QED
  BY <1>1, TreeIsBuilt, PTL DEF ReconcilerSpec, PatchesRight

==============================================================================
