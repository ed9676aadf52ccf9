-------------------------------- MODULE Actor --------------------------------
(***************************************************************************)
(* One actor of runtime/actor/actor.go: the goroutines that call Start,    *)
(* On, Send, Ask and Stop on it, and the event loops Start spawns.  A step *)
(* ends where another goroutine can get in between: at a lock operation, a *)
(* channel operation, a select, or the go statement.                       *)
(*                                                                         *)
(* A message is identified by its sender and the number of the call that   *)
(* made it.  What a handler computes is left out; that it ran, and for     *)
(* which message, is kept in log.                                          *)
(***************************************************************************)
EXTENDS Naturals, Sequences, RWMutex

CONSTANTS
  Clients,      \* the goroutines that use the actor
  Loops,        \* identities for the goroutines Start spawns
  Types,        \* message types
  Capacity,     \* mailboxCapacity
  MaxOps,       \* bound: calls each client makes
  CallsOf,      \* the methods each client may choose from at each of its calls
  Registered,   \* types given a handler before the actor is shared
  NoMessage

Methods == {"Start", "On", "Send", "Ask", "Stop"}

ASSUME ActorAssumption ==
  /\ Capacity \in Nat \ {0}
  /\ MaxOps \in Nat \ {0}
  /\ CallsOf \in [Clients -> [1..MaxOps -> SUBSET Methods]]
  /\ Registered \subseteq Types
  /\ Clients \cap Loops = {}

Calls    == 1..MaxOps
Messages == [from : Clients, seq : Calls, type : Types, ask : BOOLEAN]
Procs    == Clients \cup Loops

ASSUME NoMessageAssumption == NoMessage \notin Messages

VARIABLES
  mu,         \* a.mu
  running,    \* a.running
  cancelled,  \* a.ctx is done
  handlers,   \* the types in a.handlers
  mailbox,    \* a.mailbox
  pc,         \* where each goroutine is
  cur,        \* the message each goroutine has in hand
  found,      \* what each loop's lookup in handlers returned
  op,         \* how many calls each client has begun
  reply,      \* the reply channel each Ask made: empty or holding one value
  result,     \* what each call returned
  sent,       \* history: every message put in the mailbox, in order
  log         \* history: every message processed, in order of completion

vars == <<mu, running, cancelled, handlers, mailbox, pc, cur, found, op,
          reply, result, sent, log>>

lockVars == <<running, cancelled, handlers>>
msgVars  == <<mailbox, cur, found, reply, sent, log>>

Goto(p, from, to) == pc[p] = from /\ pc' = [pc EXCEPT ![p] = to]

------------------------------------------------------------------------------
(* Calls.  Every call takes the next number of its client.                 *)

Begin(c, method, label) ==
  /\ pc[c] = "idle"
  /\ op[c] < MaxOps
  /\ method \in CallsOf[c][op[c] + 1]
  /\ op' = [op EXCEPT ![c] = @ + 1]
  /\ pc' = [pc EXCEPT ![c] = label]

\* The message of the call that begins.
Envelope(c, t, ask) ==
  [from |-> c, seq |-> op[c] + 1, type |-> t, ask |-> ask]

Return(c, value) ==
  /\ pc' = [pc EXCEPT ![c] = "idle"]
  /\ result' = [result EXCEPT ![c][op[c]] = value]

------------------------------------------------------------------------------
(* Start                                                                   *)

StartLock(c) ==
  /\ Begin(c, "Start", "start")
  /\ CanAnnounce(mu)
  /\ mu' = Announce(mu, c)
  /\ UNCHANGED <<lockVars, msgVars, result>>

\* Slip: the running test of Start forgotten.
StartBodyNoTest(c) ==
  /\ pc[c] = "start"
  /\ HoldsWrite(mu, c)
  /\ mu' = Unlock(mu)
  /\ running' = TRUE
  /\ Goto(c, "start", "go")
  /\ UNCHANGED <<cancelled, handlers, op, result, msgVars>>

StartBody(c) ==
  /\ pc[c] = "start"
  /\ HoldsWrite(mu, c)
  /\ mu' = Unlock(mu)
  /\ \/ /\ running
        /\ Return(c, "done")
        /\ UNCHANGED running
     \/ /\ ~running
        /\ running' = TRUE
        /\ Goto(c, "start", "go")
        /\ UNCHANGED result
  /\ UNCHANGED <<cancelled, handlers, op, msgVars>>

\* go a.loop()
StartLoop(c) ==
  /\ pc[c] = "go"
  /\ \E l \in Loops :
       /\ pc[l] = "unborn"
       /\ pc' = [pc EXCEPT ![c] = "idle", ![l] = "select"]
  /\ result' = [result EXCEPT ![c][op[c]] = "done"]
  /\ UNCHANGED <<mu, lockVars, op, msgVars>>

------------------------------------------------------------------------------
(* On                                                                      *)

\* The type being registered travels in cur until the lock is granted.
OnLock(c, t) ==
  /\ Begin(c, "On", "on")
  /\ CanAnnounce(mu)
  /\ mu' = Announce(mu, c)
  /\ cur' = [cur EXCEPT ![c] = Envelope(c, t, FALSE)]
  /\ UNCHANGED <<lockVars, mailbox, found, reply, result, sent, log>>

OnBody(c) ==
  /\ pc[c] = "on"
  /\ HoldsWrite(mu, c)
  /\ handlers' = handlers \cup {cur[c].type}
  /\ mu' = Unlock(mu)
  /\ cur' = [cur EXCEPT ![c] = NoMessage]
  /\ Return(c, "done")
  /\ UNCHANGED <<running, cancelled, op, mailbox, found, reply, sent, log>>

------------------------------------------------------------------------------
(* Send and Ask                                                            *)

\* a.mu.RLock() at the head of either method.
Post(c, t, ask, label) ==
  /\ Begin(c, IF ask THEN "Ask" ELSE "Send", label)
  /\ mu' = RLock(mu, c)
  /\ cur' = [cur EXCEPT ![c] = Envelope(c, t, ask)]
  /\ UNCHANGED <<lockVars, mailbox, found, reply, result, sent, log>>

\* The running test fails: the read lock is released and an error returned.
Refuse(c) ==
  /\ ~running
  /\ mu' = RUnlock(mu, c)
  /\ cur' = [cur EXCEPT ![c] = NoMessage]
  /\ Return(c, "notRunning")
  /\ UNCHANGED <<lockVars, op, mailbox, found, reply, sent, log>>

\* Slips: a mailbox used as a stack; a full mailbox that drops.
EnqueueFront(c) ==
  /\ Len(mailbox) < Capacity
  /\ mailbox' = <<cur[c]>> \o mailbox
  /\ sent' = Append(sent, cur[c])

EnqueueOrDrop(c) ==
  \/ /\ Len(mailbox) < Capacity
     /\ mailbox' = Append(mailbox, cur[c])
     /\ sent' = Append(sent, cur[c])
  \/ /\ Len(mailbox) = Capacity
     /\ UNCHANGED <<mailbox, sent>>

\* a.mailbox <- msg
Enqueue(c) ==
  /\ Len(mailbox) < Capacity
  /\ mailbox' = Append(mailbox, cur[c])
  /\ sent' = Append(sent, cur[c])

SendLock(c, t) == Post(c, t, FALSE, "send")

\* The read lock is kept (deferred unlock) while the channel send blocks.
SendCheck(c) ==
  /\ pc[c] = "send"
  /\ HoldsRead(mu, c)
  /\ \/ Refuse(c)
     \/ /\ running
        /\ Goto(c, "send", "sendPush")
        /\ UNCHANGED <<mu, lockVars, op, result, msgVars>>

SendPush(c) ==
  /\ pc[c] = "sendPush"
  /\ Enqueue(c)
  /\ mu' = RUnlock(mu, c)
  /\ cur' = [cur EXCEPT ![c] = NoMessage]
  /\ Return(c, "ok")
  /\ UNCHANGED <<lockVars, op, found, reply, log>>

AskLock(c, t) == Post(c, t, TRUE, "ask")

AskCheck(c) ==
  /\ pc[c] = "ask"
  /\ HoldsRead(mu, c)
  /\ \/ Refuse(c)
     \/ /\ running
        /\ mu' = RUnlock(mu, c)
        /\ Goto(c, "ask", "askPush")
        /\ UNCHANGED <<lockVars, op, result, msgVars>>

AskPush(c) ==
  /\ Goto(c, "askPush", "askWait")
  /\ Enqueue(c)
  /\ UNCHANGED <<mu, lockVars, op, cur, found, reply, result, log>>

\* The select of Ask: with both channels ready either branch is taken.
AskStopped(c) ==
  /\ pc[c] = "askWait"
  /\ cancelled
  /\ cur' = [cur EXCEPT ![c] = NoMessage]
  /\ Return(c, "stopped")
  /\ UNCHANGED <<mu, lockVars, op, mailbox, found, reply, sent, log>>

AskAnswered(c) ==
  /\ pc[c] = "askWait"
  /\ reply[c][op[c]] # "empty"
  /\ cur' = [cur EXCEPT ![c] = NoMessage]
  /\ Return(c, reply[c][op[c]])
  /\ reply' = [reply EXCEPT ![c][op[c]] = "empty"]
  /\ UNCHANGED <<mu, lockVars, op, mailbox, found, sent, log>>

------------------------------------------------------------------------------
(* Stop                                                                    *)

StopCancel(c) ==
  /\ Begin(c, "Stop", "stop")
  /\ cancelled' = TRUE
  /\ UNCHANGED <<mu, running, handlers, result, msgVars>>

StopLock(c) ==
  /\ Goto(c, "stop", "stopped")
  /\ CanAnnounce(mu)
  /\ mu' = Announce(mu, c)
  /\ UNCHANGED <<lockVars, op, result, msgVars>>

StopBody(c) ==
  /\ pc[c] = "stopped"
  /\ HoldsWrite(mu, c)
  /\ running' = FALSE
  /\ mu' = Unlock(mu)
  /\ Return(c, "done")
  /\ UNCHANGED <<cancelled, handlers, op, msgVars>>

------------------------------------------------------------------------------
(* The event loop.  Its select may take a message even when ctx is done.   *)

\* Slips: a loop that looks at the running flag instead of the context; a loop
\* that leaves when it finds the mailbox empty.
LoopExitRunning(l) ==
  /\ Goto(l, "select", "exited")
  /\ cancelled /\ running
  /\ UNCHANGED <<mu, lockVars, op, result, msgVars>>

LoopExitEmpty(l) ==
  /\ Goto(l, "select", "exited")
  /\ cancelled \/ mailbox = <<>>
  /\ UNCHANGED <<mu, lockVars, op, result, msgVars>>

LoopExit(l) ==
  /\ Goto(l, "select", "exited")
  /\ cancelled
  /\ UNCHANGED <<mu, lockVars, op, result, msgVars>>

LoopTake(l) ==
  /\ Goto(l, "select", "process")
  /\ mailbox # <<>>
  /\ mailbox' = Tail(mailbox)
  /\ cur' = [cur EXCEPT ![l] = Head(mailbox)]
  /\ UNCHANGED <<mu, lockVars, op, found, reply, result, sent, log>>

ProcessLock(l) ==
  /\ Goto(l, "process", "lookup")
  /\ mu' = RLock(mu, l)
  /\ UNCHANGED <<lockVars, op, result, msgVars>>

ProcessLookup(l) ==
  /\ Goto(l, "lookup", "handle")
  /\ HoldsRead(mu, l)
  /\ found' = [found EXCEPT ![l] = cur[l].type \in handlers]
  /\ mu' = RUnlock(mu, l)
  /\ UNCHANGED <<lockVars, op, mailbox, cur, reply, result, sent, log>>

\* Slip: no answer for a message type without a handler.
ProcessReplyHandled(l) ==
  /\ Goto(l, "handle", "select")
  /\ LET m == cur[l] IN
       /\ reply' = IF m.ask /\ found[l]
                   THEN [reply EXCEPT ![m.from][m.seq] = "value"]
                   ELSE reply
       /\ log' = Append(log, m)
  /\ cur' = [cur EXCEPT ![l] = NoMessage]
  /\ found' = [found EXCEPT ![l] = FALSE]
  /\ UNCHANGED <<mu, lockVars, op, mailbox, result, sent>>

\* The handler, if there is one, returns; the answer to an Ask goes into its
\* reply channel, which has room for one value.
ProcessReply(l) ==
  /\ Goto(l, "handle", "select")
  /\ LET m == cur[l] IN
       /\ m.ask => reply[m.from][m.seq] = "empty"
       /\ reply' = IF m.ask
                   THEN [reply EXCEPT ![m.from][m.seq] =
                           IF found[l] THEN "value" ELSE "nil"]
                   ELSE reply
       /\ log' = Append(log, m)
  /\ cur' = [cur EXCEPT ![l] = NoMessage]
  /\ found' = [found EXCEPT ![l] = FALSE]
  /\ UNCHANGED <<mu, lockVars, op, mailbox, result, sent>>

------------------------------------------------------------------------------

Init ==
  /\ mu = Unlocked
  /\ running = FALSE
  /\ cancelled = FALSE
  /\ handlers = Registered
  /\ mailbox = <<>>
  /\ pc = [p \in Procs |-> IF p \in Clients THEN "idle" ELSE "unborn"]
  /\ cur = [p \in Procs |-> NoMessage]
  /\ found = [l \in Loops |-> FALSE]
  /\ op = [c \in Clients |-> 0]
  /\ reply = [c \in Clients |-> [k \in Calls |-> "empty"]]
  /\ result = [c \in Clients |-> [k \in Calls |-> "none"]]
  /\ sent = <<>>
  /\ log = <<>>

BeginCall(c) ==
  \/ StartLock(c)
  \/ \E t \in Types : OnLock(c, t) \/ SendLock(c, t) \/ AskLock(c, t)
  \/ StopCancel(c)

\* The steps a client takes once inside a call.
ClientStep(c) ==
  \/ StartBody(c) \/ StartLoop(c)
  \/ OnBody(c)
  \/ SendCheck(c) \/ SendPush(c)
  \/ AskCheck(c) \/ AskPush(c) \/ AskStopped(c) \/ AskAnswered(c)
  \/ StopLock(c) \/ StopBody(c)

LoopStep(l) ==
  \/ LoopExit(l) \/ LoopTake(l)
  \/ ProcessLock(l) \/ ProcessLookup(l) \/ ProcessReply(l)

\* Every client made its calls: the program has no more use for the actor.
Finished ==
  /\ \A c \in Clients :
       pc[c] = "idle" /\ (op[c] < MaxOps => CallsOf[c][op[c] + 1] = {})
  /\ UNCHANGED vars

Next ==
  \/ \E c \in Clients : BeginCall(c) \/ ClientStep(c)
  \/ \E l \in Loops : LoopStep(l)
  \/ Finished

Spec == Init /\ [][Next]_vars

\* The Go scheduler runs every goroutine that can run, and select picks among
\* its ready branches at random, so an exit that is offered again and again is
\* taken in the end.  Nothing obliges a client to make a call.
Fairness ==
  /\ \A c \in Clients : WF_vars(ClientStep(c))
  /\ \A l \in Loops : WF_vars(LoopStep(l)) /\ SF_vars(LoopExit(l))

FairSpec == Spec /\ Fairness

------------------------------------------------------------------------------
(* Properties                                                              *)

LoopLabels == {"select", "process", "lookup", "handle"}

ClientLabels ==
  {"idle", "start", "go", "on", "send", "sendPush", "ask", "askPush",
   "askWait", "stop", "stopped"}

Answers == {"value", "nil"}
Results == {"none", "done", "ok", "notRunning", "stopped"} \cup Answers

\* Every variable has a value of the shape the code gives it.
TypeOK ==
  /\ mu \in RWMutexes(Procs)
  /\ running \in BOOLEAN
  /\ cancelled \in BOOLEAN
  /\ handlers \subseteq Types
  /\ mailbox \in Seq(Messages) /\ Len(mailbox) <= Capacity
  /\ pc \in [Procs -> ClientLabels \cup LoopLabels \cup {"unborn", "exited"}]
  /\ \A c \in Clients : pc[c] \in ClientLabels
  /\ \A l \in Loops : pc[l] \in LoopLabels \cup {"unborn", "exited"}
  /\ cur \in [Procs -> Messages \cup {NoMessage}]
  /\ found \in [Loops -> BOOLEAN]
  /\ op \in [Clients -> 0..MaxOps]
  /\ reply \in [Clients -> [Calls -> {"empty"} \cup Answers]]
  /\ result \in [Clients -> [Calls -> Results]]
  /\ sent \in Seq(Messages)
  /\ log \in Seq(Messages)

\* A goroutine that is the event loop, or is about to spawn it.
Serving(p) == pc[p] \in LoopLabels \cup {"go"}

\* However many goroutines race in Start, one loop is all they get, as long as
\* nobody has called Stop (the running flag of Start, line 54).
OneLoopUntilStopped ==
  ~cancelled => \A p, q \in Procs : Serving(p) /\ Serving(q) => p = q

\* Until a Stop, an actor that says it is running has a loop to serve it, so
\* that no accepted message waits for a loop nobody will spawn.
RunningIsServed ==
  running /\ ~cancelled => \E p \in Procs : Serving(p)

\* Until a Stop, whoever starts the actor and however many do it at once, it
\* has one loop, neither none nor two (Start and loop, lines 52 to 76).
ServedByOne == OneLoopUntilStopped /\ RunningIsServed

\* A Send that saw the actor running finds it running when it puts its message
\* in the mailbox, however long the mailbox made it wait: the read lock it
\* keeps holds the running = false of Stop back (lines 95 to 100 and 127).
SendersPinRunning ==
  \A c \in Clients : pc[c] = "sendPush" => running

\* The message some loop has in hand, as a sequence.
InHand(f) ==
  IF \E l \in Loops : f[l] # NoMessage
  THEN <<f[CHOOSE l \in Loops : f[l] # NoMessage]>> ELSE <<>>

\* Until a Stop, what was accepted is what was processed, then what is being
\* processed, then what waits, in the order of acceptance: nothing is lost,
\* duplicated or overtaken.
InOrder ==
  ~cancelled => sent = log \o InHand(cur) \o mailbox

\* The actor keeps the contract its callers rely on, through every Stop and
\* every Start after it.
FinishedPositions ==
  {i \in 1..Len(sent) : \E j \in 1..Len(log) : log[j] = sent[i]}

Contract == INSTANCE ActorContract
  WITH accepted <- sent,
       taken <- Len(sent) - Len(mailbox),
       finished <- FinishedPositions,
       closed <- cancelled

KeepsContract == Contract!Spec

\* A Stop that finds callers waiting on a full mailbox strands them: the loop
\* leaves, and a Send among them keeps the read lock for ever (lines 95 to 100
\* and 114).
Stranded(labels) ==
  cancelled /\ \E c \in Clients : pc[c] \in labels

\* Every call returns, Asks answered or not, unless a Stop strands a caller.
CallsReturn ==
  \A c \in Clients :
    pc[c] # "idle" ~> pc[c] = "idle" \/ []Stranded({"sendPush", "askPush"})

\* Every accepted message is processed in the end, unless the actor is stopped.
MessagesProcessed ==
  \A i \in 1..(MaxOps * 2) :
    Len(sent) >= i ~> Len(log) >= i \/ cancelled

\* Once Stop has cancelled the context every loop exits and none comes back,
\* whatever waits in the mailbox, unless a Send is stranded.
LoopsExit ==
  cancelled ~> \/ [](\A l \in Loops : pc[l] \in {"unborn", "exited"})
               \/ []Stranded({"sendPush"})

\* A Send returns: it is fire-and-forget.
SendsReturn ==
  \A c \in Clients : pc[c] \in {"send", "sendPush"} ~> pc[c] = "idle"

==============================================================================
