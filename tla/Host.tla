--------------------------------- MODULE Host ---------------------------------
(***************************************************************************)
(* The goroutines of a host application that runs programs and passes      *)
(* touches to the trees they build: through the handles of abi/bridge.go,  *)
(* and as the one app of platform/onuron/adapter.go.  A step ends where    *)
(* another goroutine can get in between: at a lock, or where a context is  *)
(* read or written without one.  A program is the calls it makes on its    *)
(* tree; which node a touch hits is left open.  A host never runs two      *)
(* programs in one context at once: that is assumed of it.                 *)
(***************************************************************************)
EXTENDS Naturals, Sequences, FiniteSets, RWMutex

CONSTANTS
  Threads,     \* the goroutines of the host
  Programs,    \* sequences of calls
  MaxHandles,  \* bound: contexts created
  MaxVMs       \* bound: programs run

\* A node; a handler that leaves the tree alone, and one that makes nodes; a throw.
Calls == {"node", "quiet", "builds", "throw"}

ASSUME HostAssumption ==
  /\ Programs \subseteq Seq(Calls)
  /\ MaxHandles \in Nat
  /\ MaxVMs \in Nat

Handles == 1..MaxHandles
VMs     == 1..MaxVMs
Adapter == 0  \* in place of a handle: the app of the Onuron adapter
None    == 0  \* in place of a VM

VARIABLES
  handles,   \* the handles registered
  next,      \* nextHandle
  ctxVM,     \* the VM of each context
  ctxTree,   \* the VM whose tree each context shows; None for the empty tree
  activeVM,  \* a.activeVM
  vms,       \* the VMs made: program, calls made, how it went, where it was run
  mu,        \* the lock of each VM's tree
  pc,        \* where each goroutine is
  on,        \* the context it works on
  in         \* the VM it works on

vars == <<handles, next, ctxVM, ctxTree, activeVM, vms, mu, pc, on, in>>

contexts == <<handles, next, ctxVM, ctxTree, activeVM>>

NewVM(program, place) == [program |-> program, made |-> 0, state |-> "running", of |-> place]

Goto(t, from, to) == pc[t] = from /\ pc' = [pc EXCEPT ![t] = to]

\* The call of t returns; what it worked on is forgotten.
Return(t, from) ==
  /\ Goto(t, from, "idle")
  /\ on' = [on EXCEPT ![t] = Adapter]
  /\ in' = [in EXCEPT ![t] = None]

------------------------------------------------------------------------------
(* Handles                                                                 *)

CreateRuntime(t) ==
  /\ pc[t] = "idle"
  /\ next <= MaxHandles
  /\ handles' = handles \cup {next}
  /\ next' = next + 1
  /\ UNCHANGED <<ctxVM, ctxTree, activeVM, vms, mu, pc, on, in>>

\* Whoever holds the context goes on with it.
DestroyRuntime(t, h) ==
  /\ pc[t] = "idle"
  /\ handles' = handles \ {h}
  /\ handles' # handles
  /\ UNCHANGED <<next, ctxVM, ctxTree, activeVM, vms, mu, pc, on, in>>

------------------------------------------------------------------------------
(* Running a program                                                       *)

Busy(place) == \E t \in Threads : on[t] = place /\ pc[t] \in {"new", "start", "run", "call", "publish"}

\* The bound leaves room for the VMs of those about to make one.
Room == Len(vms) + Cardinality({t \in Threads : pc[t] = "new"}) < MaxVMs

ExecuteBytecode(t, h) ==
  /\ Room
  /\ h \in handles
  /\ ~Busy(h)
  /\ Goto(t, "idle", "new")
  /\ on' = [on EXCEPT ![t] = h]
  /\ UNCHANGED <<contexts, vms, mu, in>>

\* ctx.VM = vm.New(mod)
New(t, program) ==
  /\ Goto(t, "new", "start")
  /\ vms' = Append(vms, NewVM(program, on[t]))
  /\ ctxVM' = [ctxVM EXCEPT ![on[t]] = Len(vms) + 1]
  /\ UNCHANGED <<handles, next, ctxTree, activeVM, mu, on, in>>

\* Slip: the tree shown while the program builds it, as the adapter does.
StartShows(t) ==
  /\ Goto(t, "start", "run")
  /\ in' = [in EXCEPT ![t] = ctxVM[on[t]]]
  /\ ctxTree' = [ctxTree EXCEPT ![on[t]] = ctxVM[on[t]]]
  /\ UNCHANGED <<handles, next, ctxVM, activeVM, vms, mu, on>>

\* ctx.VM.Run()
Start(t) ==
  /\ Goto(t, "start", "run")
  /\ in' = [in EXCEPT ![t] = ctxVM[on[t]]]
  /\ UNCHANGED <<contexts, vms, mu, on>>

\* RunApp has the adapter pass touches to the VM before it runs.
RunApp(t, program) ==
  /\ Room
  /\ ~Busy(Adapter)
  /\ Goto(t, "idle", "run")
  /\ vms' = Append(vms, NewVM(program, Adapter))
  /\ activeVM' = Len(vms) + 1
  /\ on' = [on EXCEPT ![t] = Adapter]
  /\ in' = [in EXCEPT ![t] = Len(vms) + 1]
  /\ UNCHANGED <<handles, next, ctxVM, ctxTree, mu>>

Running(t)    == vms[in[t]]
NextCall(t)   == Running(t).program[Running(t).made + 1]
HasCalls(t)   == Running(t).made < Len(Running(t).program)

\* The program calls on its tree, and waits for the lock.
CallLock(t) ==
  /\ Goto(t, "run", "call")
  /\ HasCalls(t)
  /\ NextCall(t) # "throw"
  /\ CanAnnounce(mu[in[t]])
  /\ mu' = [mu EXCEPT ![in[t]] = Announce(@, t)]
  /\ UNCHANGED <<contexts, vms, on, in>>

Call(t) ==
  /\ Goto(t, "call", "run")
  /\ HoldsWrite(mu[in[t]], t)
  /\ mu' = [mu EXCEPT ![in[t]] = Unlock(@)]
  /\ vms' = [vms EXCEPT ![in[t]].made = @ + 1]
  /\ UNCHANGED <<contexts, on, in>>

\* Run returns an error, and ExecuteBytecode and RunApp with it.
Throw(t) ==
  /\ Return(t, "run")
  /\ HasCalls(t)
  /\ NextCall(t) = "throw"
  /\ vms' = [vms EXCEPT ![in[t]].state = "failed"]
  /\ UNCHANGED <<contexts, mu>>

End(t) ==
  /\ \/ on[t] = Adapter /\ Return(t, "run")
     \/ on[t] # Adapter /\ Goto(t, "run", "publish") /\ UNCHANGED <<on, in>>
  /\ ~HasCalls(t)
  /\ vms' = [vms EXCEPT ![in[t]].state = "ended"]
  /\ UNCHANGED <<contexts, mu>>

\* ctx.UITree = ctx.VM.GetUITree()
Publish(t) ==
  /\ Return(t, "publish")
  /\ ctxTree' = [ctxTree EXCEPT ![on[t]] = ctxVM[on[t]]]
  /\ UNCHANGED <<handles, next, ctxVM, activeVM, vms, mu>>

------------------------------------------------------------------------------
(* Touches                                                                 *)

\* GetContext returns before the tree is read.
DispatchTouchEvent(t, h) ==
  /\ h \in handles
  /\ Goto(t, "idle", "touch")
  /\ on' = [on EXCEPT ![t] = h]
  /\ UNCHANGED <<contexts, vms, mu, in>>

\* The tree of CreateRuntime has no root to touch.
TouchEmpty(t) ==
  /\ Return(t, "touch")
  /\ ctxTree[on[t]] = None
  /\ UNCHANGED <<contexts, vms, mu>>

TouchTree(t) ==
  /\ Goto(t, "touch", "hit")
  /\ ctxTree[on[t]] # None
  /\ in' = [in EXCEPT ![t] = ctxTree[on[t]]]
  /\ mu' = [mu EXCEPT ![ctxTree[on[t]]] = RLock(@, t)]
  /\ UNCHANGED <<contexts, vms, on>>

\* The adapter reads its VM, and the VM its tree.
TouchAdapter(t) ==
  /\ activeVM # None
  /\ Goto(t, "idle", "hit")
  /\ on' = [on EXCEPT ![t] = Adapter]
  /\ in' = [in EXCEPT ![t] = activeVM]
  /\ mu' = [mu EXCEPT ![activeVM] = RLock(@, t)]
  /\ UNCHANGED <<contexts, vms>>

TouchReturns(t, from) ==
  /\ Return(t, from)
  /\ HoldsRead(mu[in[t]], t)
  /\ mu' = [mu EXCEPT ![in[t]] = RUnlock(@, t)]
  /\ UNCHANGED <<contexts, vms>>

Miss(t) == TouchReturns(t, "hit")

\* The handlers the tree has so far: the touch runs one with the lock held.
HandlersOf(m) == {vms[m].program[i] : i \in 1..vms[m].made} \cap {"quiet", "builds"}

TouchHit(t, handler) ==
  /\ Goto(t, "hit", handler)
  /\ HoldsRead(mu[in[t]], t)
  /\ handler \in HandlersOf(in[t])
  /\ UNCHANGED <<contexts, vms, mu, on, in>>

\* Slip: the read lock kept.
QuietKeeps(t) ==
  /\ Return(t, "quiet")
  /\ UNCHANGED <<contexts, vms, mu>>

Quiet(t) == TouchReturns(t, "quiet")

\* The handler calls BeginNode, which waits for the lock that its own touch
\* holds: the goroutine stays in "stuck".
Builds(t) ==
  /\ Goto(t, "builds", "stuck")
  /\ CanAnnounce(mu[in[t]])
  /\ mu' = [mu EXCEPT ![in[t]] = Announce(@, t)]
  /\ UNCHANGED <<contexts, vms, on, in>>

------------------------------------------------------------------------------

Init ==
  /\ handles = {}
  /\ next = 1
  /\ ctxVM = [h \in Handles |-> None]
  /\ ctxTree = [h \in Handles |-> None]
  /\ activeVM = None
  /\ vms = <<>>
  /\ mu = [m \in VMs |-> Unlocked]
  /\ pc = [t \in Threads |-> "idle"]
  /\ on = [t \in Threads |-> Adapter]
  /\ in = [t \in Threads |-> None]

\* What a goroutine does once it has called.
Step(t) ==
  \/ \E program \in Programs : New(t, program)
  \/ Start(t) \/ CallLock(t) \/ Call(t) \/ Throw(t) \/ End(t) \/ Publish(t)
  \/ TouchEmpty(t) \/ TouchTree(t) \/ Miss(t) \/ Quiet(t) \/ Builds(t)
  \/ \E handler \in {"quiet", "builds"} : TouchHit(t, handler)

Next ==
  \E t \in Threads :
    \/ CreateRuntime(t) \/ TouchAdapter(t) \/ Step(t)
    \/ \E h \in Handles : DestroyRuntime(t, h) \/ ExecuteBytecode(t, h) \/ DispatchTouchEvent(t, h)
    \/ \E program \in Programs : RunApp(t, program)

\* A goroutine that can go on does.
Fairness == \A t \in Threads : WF_vars(Step(t))

Spec == Init /\ [][Next]_vars /\ Fairness

------------------------------------------------------------------------------
(* Properties                                                              *)

\* The VMs that ran to their end in a context.
Ended(h) == {m \in DOMAIN vms : vms[m].of = h /\ vms[m].state = "ended"}

Publishing(h) == \E t \in Threads : on[t] = h /\ pc[t] = "publish"

\* Through a handle nobody meets a tree that is half built: a context shows the
\* tree of the last program that ran to its end in it, also while the next one
\* runs and when that one fails (lines 77 to 81 of abi/bridge.go).
TreesWhole ==
  \A h \in Handles :
    /\ ctxTree[h] # None => ctxTree[h] \in Ended(h)
    /\ ~Publishing(h) => \A m \in Ended(h) : m <= ctxTree[h]

\* A handler touched through a handle has its VM to itself as far as Run goes:
\* no program is still running on the stack it uses.
HandlersAfterRun ==
  \A t \in Threads :
    pc[t] \in {"quiet", "builds", "stuck"} /\ on[t] # Adapter => vms[in[t]].state = "ended"

Stuck(m) == \E t \in Threads : pc[t] = "stuck" /\ in[t] = m

\* ExecuteBytecode always returns: it builds a tree nobody can touch yet.  A
\* touch, and RunApp, whose tree can be touched meanwhile, return unless a
\* handler that makes nodes has been touched in that tree (tree.go, line 143).
CallsReturn ==
  \A t \in Threads :
    /\ (pc[t] = "new") ~> (pc[t] = "idle")
    /\ (pc[t] \in {"hit", "run"}) ~> (pc[t] = "idle" \/ Stuck(in[t]))

==============================================================================
