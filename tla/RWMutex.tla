------------------------------- MODULE RWMutex -------------------------------
(***************************************************************************)
(* The promise of Go's sync.RWMutex, as far as the programs of this        *)
(* repository can tell: any number of readers or one writer, and a writer  *)
(* that has called Lock keeps new readers out even while it still waits    *)
(* for the old ones.  A lock is a record                                   *)
(*                                                                         *)
(*   readers   the goroutines holding the read lock                        *)
(*   writer    the one goroutine that called Lock and has not unlocked     *)
(*   blocked   the goroutines parked inside RLock behind that writer       *)
(*                                                                         *)
(* The operators are pure: a module keeps its locks in variables of its    *)
(* own.  RLock is one step, after which the goroutine goes on as soon as   *)
(* HoldsRead; Lock is the step Announce (guarded by CanAnnounce), after    *)
(* which the goroutine goes on as soon as HoldsWrite.                      *)
(***************************************************************************)

Unlocked == [readers |-> {}, writer |-> {}, blocked |-> {}]

RWMutexes(P) ==
  [readers : SUBSET P, writer : SUBSET P, blocked : SUBSET P]

\* A reader that meets a writer parks; otherwise it has the lock at once.
RLock(m, p) ==
  IF m.writer = {} THEN [m EXCEPT !.readers = @ \cup {p}]
                   ELSE [m EXCEPT !.blocked = @ \cup {p}]

HoldsRead(m, p) == p \in m.readers

RUnlock(m, p) == [m EXCEPT !.readers = @ \ {p}]

\* Writers queue on an inner mutex, so one at a time announces itself.
CanAnnounce(m) == m.writer = {}

Announce(m, p) == [m EXCEPT !.writer = {p}]

HoldsWrite(m, p) == m.writer = {p} /\ m.readers = {}

\* Unlock hands the lock to every reader that parked behind the writer.
Unlock(m) == [readers |-> m.blocked, writer |-> {}, blocked |-> {}]

==============================================================================
