-------------------------------- MODULE Signal --------------------------------
(***************************************************************************)
(* A reactive signal of ui/state/state.go, set by several goroutines while *)
(* listeners come and go, and the component that BindSignalToComponent of  *)
(* ui/state/reconciler.go re-renders from it.  The sections under s.mu and *)
(* r.mu block on nothing else and are one step each; Set calls the         *)
(* listeners after it has released the lock.  Values are the numbers of    *)
(* the Sets that stored them, a tree is the value it was rebuilt from.     *)
(***************************************************************************)
EXTENDS Naturals, FiniteSets, SequencesExt

CONSTANTS
  Setters,    \* goroutines that call Set
  Listeners,  \* each is subscribed and unsubscribed at most once
  Component,  \* the listener that rebuilds and patches the tree
  MaxSets,    \* bound: calls of Set
  LastFirst   \* whether subscriptions are undone in reverse order

ASSUME SignalAssumption == MaxSets \in Nat /\ LastFirst \in BOOLEAN

Values == 0..MaxSets
NotBuilt == MaxSets + 1

VARIABLES
  value,      \* s.value
  listeners,  \* s.listeners
  sets,       \* how many Sets have stored their value
  index,      \* the idx each unsubscribe function closed over, from 1
  sub,        \* whether each listener is subscribed, as its owner sees it
  val,        \* the value each setter passes to the listeners
  todo,       \* the listeners each setter has still to call
  built,      \* the tree a setter inside the component's listener has rebuilt
  tree,       \* r.currentTree
  seen,       \* history: the values each listener was called with
  due,        \* history: who was subscribed when each value was stored
  beside,     \* history: the values stored while a rebuilt tree waited to be patched in
  shown,      \* history: the newest tree patched in
  parted      \* history: how many Sets had stored when each owner unsubscribed

signalVars == <<value, listeners, sets, index, sub, val, todo, built, tree, seen, due,
                beside, shown, parted>>

subVars == <<index, sub, parted>>

------------------------------------------------------------------------------
(* Subscribe and the function it returns                                   *)

Subscribe(l) ==
  /\ sub[l] = "never"
  /\ listeners' = Append(listeners, l)
  /\ index' = [index EXCEPT ![l] = Len(listeners) + 1]
  /\ sub' = [sub EXCEPT ![l] = "on"]
  /\ UNCHANGED <<value, sets, val, todo, built, tree, seen, due, beside, shown, parted>>

\* Nobody who subscribed after l is subscribed still.
Newest(l) == \A k \in Listeners : sub[k] = "on" => index[k] <= index[l]

\* Slip: a bound that keeps the last listener.
UnsubscribeShort(l) ==
  /\ sub[l] = "on"
  /\ LastFirst => Newest(l)
  /\ listeners' = IF index[l] < Len(listeners)
                  THEN RemoveAt(listeners, index[l]) ELSE listeners
  /\ sub' = [sub EXCEPT ![l] = "off"]
  /\ parted' = [parted EXCEPT ![l] = sets]
  /\ UNCHANGED <<value, sets, index, val, todo, built, tree, seen, due,
                 beside, shown>>

\* The index was right when l subscribed; the listeners may have moved since.
Unsubscribe(l) ==
  /\ sub[l] = "on"
  /\ LastFirst => Newest(l)
  /\ listeners' = IF index[l] <= Len(listeners)
                  THEN RemoveAt(listeners, index[l]) ELSE listeners
  /\ sub' = [sub EXCEPT ![l] = "off"]
  /\ parted' = [parted EXCEPT ![l] = sets]
  /\ UNCHANGED <<value, sets, index, val, todo, built, tree, seen, due,
                 beside, shown>>

------------------------------------------------------------------------------
(* Set                                                                     *)

Idle(p) == todo[p] = <<>>

\* Under the lock the value is stored and the listeners are copied.
SetStore(p) ==
  /\ Idle(p)
  /\ sets < MaxSets
  /\ sets' = sets + 1
  /\ value' = sets + 1
  /\ val' = [val EXCEPT ![p] = sets + 1]
  /\ todo' = [todo EXCEPT ![p] = listeners]
  /\ due' = [due EXCEPT ![sets + 1] = {l \in Listeners : sub[l] = "on"}]
  /\ beside' = [beside EXCEPT ![sets + 1] = \E q \in Setters : built[q] # NotBuilt]
  /\ UNCHANGED <<listeners, subVars, built, tree, seen, shown>>

\* The listener at the head of the copy has been called with val[p].
Called(p) ==
  /\ todo' = [todo EXCEPT ![p] = Tail(@)]
  /\ seen' = [seen EXCEPT ![Head(todo[p])] = Append(@, val[p])]

Notify(p) ==
  /\ ~Idle(p)
  /\ Head(todo[p]) # Component
  /\ Called(p)
  /\ UNCHANGED <<value, listeners, sets, subVars, val, built, tree, due, beside,
                 shown>>

\* rebuild() reads the signal as it is now.
Rebuild(p) ==
  /\ ~Idle(p)
  /\ Head(todo[p]) = Component
  /\ built[p] = NotBuilt
  /\ built' = [built EXCEPT ![p] = value]
  /\ UNCHANGED <<value, listeners, sets, subVars, val, todo, tree, seen, due,
                 beside, shown>>

\* Slip: the new tree is diffed and not kept.
PatchForgets(p) ==
  /\ built[p] # NotBuilt
  /\ Called(p)
  /\ built' = [built EXCEPT ![p] = NotBuilt]
  /\ shown' = IF built[p] > shown THEN built[p] ELSE shown
  /\ UNCHANGED <<value, listeners, sets, subVars, val, tree, due, beside>>

\* DiffAndPatch makes the rebuilt tree the current one.
Patch(p) ==
  /\ built[p] # NotBuilt
  /\ Called(p)
  /\ tree' = built[p]
  /\ built' = [built EXCEPT ![p] = NotBuilt]
  /\ shown' = IF built[p] > shown THEN built[p] ELSE shown
  /\ UNCHANGED <<value, listeners, sets, subVars, val, due, beside>>

------------------------------------------------------------------------------

SignalInit ==
  /\ value = 0
  /\ listeners = <<>>
  /\ sets = 0
  /\ index = [l \in Listeners |-> 0]
  /\ sub = [l \in Listeners |-> "never"]
  /\ val = [p \in Setters |-> 0]
  /\ todo = [p \in Setters |-> <<>>]
  /\ built = [p \in Setters |-> NotBuilt]
  /\ tree = 0
  /\ seen = [l \in Listeners |-> <<>>]
  /\ due = [n \in 1..MaxSets |-> {}]
  /\ beside = [n \in 1..MaxSets |-> FALSE]
  /\ shown = 0
  /\ parted = [l \in Listeners |-> 0]

SignalNext ==
  \/ \E l \in Listeners : Subscribe(l) \/ Unsubscribe(l)
  \/ \E p \in Setters : SetStore(p) \/ Notify(p) \/ Rebuild(p) \/ Patch(p)

SignalSpec == SignalInit /\ [][SignalNext]_signalVars

------------------------------------------------------------------------------
(* Properties                                                              *)

Times(x, s) == Cardinality({i \in DOMAIN s : s[i] = x})

\* Undone in reverse order, subscriptions leave in the list exactly those who
\* are subscribed, each once (Subscribe, lines 49 to 58).
Registered ==
  \A l \in Listeners : Times(l, listeners) = IF sub[l] = "on" THEN 1 ELSE 0

\* Whoever was subscribed when a value was stored is called with it exactly
\* once, whatever subscribes, unsubscribes or is set meanwhile: Set goes
\* through a copy of the list (lines 37 to 43).
DeliveredOnce ==
  \A l \in Listeners, n \in 1..sets :
    Times(n, seen[l])
      + Cardinality({p \in Setters : val[p] = n /\ Times(l, todo[p]) = 1})
    = IF l \in due[n] THEN 1 ELSE 0

\* A listener is not called with a value stored after its owner unsubscribed.
QuietAfterUnsubscribe ==
  \A l \in Listeners :
    sub[l] = "off" => \A i \in DOMAIN seen[l] : seen[l][i] <= parted[l]

\* The Set that stored n has returned.
Returned(n) == \A p \in Setters : val[p] = n => Idle(p)

\* When a Set returns, its value or a newer one has been on the screen at some
\* time, however many Sets rebuild the component at the same time.
ShownWhenReturned ==
  \A n \in 1..sets : Component \in due[n] /\ Returned(n) => shown >= n

\* From its return on the screen is no older than a Set: but for a value stored
\* while another setter had rebuilt and not yet patched, whose older tree may
\* come on the screen after it (reconciler.go, lines 142 and 143).  Sets that
\* overlap otherwise, or come one after another, by whatever setters, never leave
\* the tree behind.
BehindOnlyBeside ==
  \A n \in 1..sets :
    Component \in due[n] /\ Returned(n) /\ ~beside[n] => tree >= n

\* Each listener hears the values it is due, once, and none after it left.
ListenersServed == DeliveredOnce /\ Registered /\ QuietAfterUnsubscribe

\* The bound component shows each value that was set, and is left behind only
\* by a rebuild that was waiting to be patched when the value was stored.
ComponentFollows == ShownWhenReturned /\ BehindOnlyBeside

==============================================================================
