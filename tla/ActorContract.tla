---------------------------- MODULE ActorContract ----------------------------
(***************************************************************************)
(* What the callers of an actor may rely on, whatever the locks, channels  *)
(* and loops inside it do: a message is accepted at most once, taken from  *)
(* the mailbox in the order of acceptance and finished at most once; until *)
(* the actor is closed it is finished in that order too; an answer comes   *)
(* only from a finished message; a refused call leaves no message behind.  *)
(***************************************************************************)
EXTENDS Naturals, Sequences

CONSTANTS Clients, Calls, Messages

VARIABLES
  accepted,   \* the messages accepted, in order
  taken,      \* how many of them have left the mailbox
  finished,   \* the positions in accepted that have been processed
  closed,     \* Stop has been called
  result      \* what each call returned

contractVars == <<accepted, taken, finished, closed, result>>

Pending(c, k) == result[c][k] = "none"

Unsent(c, k) ==
  \A i \in 1..Len(accepted) : ~(accepted[i].from = c /\ accepted[i].seq = k)

Returns(c, k, value) ==
  /\ Pending(c, k)
  /\ result' = [result EXCEPT ![c][k] = value]

Init ==
  /\ accepted = <<>>
  /\ taken = 0
  /\ finished = {}
  /\ closed = FALSE
  /\ result = [c \in Clients |-> [k \in Calls |-> "none"]]

\* A Send returns as its message is accepted; an Ask goes on waiting.
Accept(m) ==
  /\ Unsent(m.from, m.seq)
  /\ Pending(m.from, m.seq)
  /\ accepted' = Append(accepted, m)
  /\ \/ m.ask /\ UNCHANGED result
     \/ ~m.ask /\ Returns(m.from, m.seq, "ok")
  /\ UNCHANGED <<taken, finished, closed>>

Refused(c, k) ==
  /\ Unsent(c, k)
  /\ Returns(c, k, "notRunning")
  /\ UNCHANGED <<accepted, taken, finished, closed>>

Take ==
  /\ taken < Len(accepted)
  /\ taken' = taken + 1
  /\ UNCHANGED <<accepted, finished, closed, result>>

Finish(i) ==
  /\ i \notin finished
  /\ closed \/ 1..(i-1) \subseteq finished
  /\ finished' = finished \cup {i}
  /\ UNCHANGED <<accepted, taken, closed, result>>

Answer(i, value) ==
  /\ accepted[i].ask
  /\ i \in finished
  /\ Returns(accepted[i].from, accepted[i].seq, value)
  /\ UNCHANGED <<accepted, taken, finished, closed>>

Abandon(i) ==
  /\ accepted[i].ask
  /\ closed
  /\ Returns(accepted[i].from, accepted[i].seq, "stopped")
  /\ UNCHANGED <<accepted, taken, finished, closed>>

\* Start, On and Stop involve no message.
Control(c, k) ==
  /\ Unsent(c, k)
  /\ Returns(c, k, "done")
  /\ UNCHANGED <<accepted, taken, finished, closed>>

Close ==
  /\ closed' = TRUE
  /\ UNCHANGED <<accepted, taken, finished, result>>

Next ==
  \/ \E m \in Messages : Accept(m)
  \/ \E c \in Clients, k \in Calls : Refused(c, k) \/ Control(c, k)
  \/ Take
  \/ \E i \in 1..taken : Finish(i)
  \/ \E i \in 1..taken, value \in {"value", "nil"} : Answer(i, value)
  \/ \E i \in 1..Len(accepted) : Abandon(i)
  \/ Close

Spec == Init /\ [][Next]_contractVars

==============================================================================
