----------------------------- MODULE ActorProofs -----------------------------
(***************************************************************************)
(* Proofs about Actor, for every set of clients, loops and types, every    *)
(* capacity and every assignment of calls.                                 *)
(***************************************************************************)
EXTENDS Actor, SequenceTheorems, TLAPS

------------------------------------------------------------------------------
(* The lock: each of its operators maps a lock to a lock, and does this to  *)
(* the readers and the writer.                                             *)

LEMMA UnlockedType ==
  ASSUME NEW P PROVE Unlocked \in RWMutexes(P)
BY DEF Unlocked, RWMutexes

LEMMA RLockFacts ==
  ASSUME NEW P, NEW m \in RWMutexes(P), NEW p \in P
  PROVE  /\ RLock(m, p) \in RWMutexes(P)
         /\ RLock(m, p).writer = m.writer
         /\ m.readers \subseteq RLock(m, p).readers
         /\ RLock(m, p).readers \subseteq m.readers \cup {p}
         /\ p \in RLock(m, p).readers \cup RLock(m, p).blocked
BY DEF RLock, RWMutexes

LEMMA RUnlockFacts ==
  ASSUME NEW P, NEW m \in RWMutexes(P), NEW p \in P
  PROVE  /\ RUnlock(m, p) \in RWMutexes(P)
         /\ RUnlock(m, p).writer = m.writer
         /\ RUnlock(m, p).readers = m.readers \ {p}
BY DEF RUnlock, RWMutexes

LEMMA AnnounceFacts ==
  ASSUME NEW P, NEW m \in RWMutexes(P), NEW p \in P
  PROVE  /\ Announce(m, p) \in RWMutexes(P)
         /\ Announce(m, p).writer = {p}
         /\ Announce(m, p).readers = m.readers
BY DEF Announce, RWMutexes

LEMMA UnlockFacts ==
  ASSUME NEW P, NEW m \in RWMutexes(P)
  PROVE  /\ Unlock(m) \in RWMutexes(P)
         /\ Unlock(m).writer = {}
         /\ Unlock(m).readers = m.blocked
BY DEF Unlock, RWMutexes

------------------------------------------------------------------------------
(* The actor                                                               *)

\* The message a goroutine works on is there while its label says so, and
\* carries the number of the call that made it.
InCall == {"on", "send", "sendPush", "ask", "askPush", "askWait"}
InLoop == {"process", "lookup", "handle"}

HandInv ==
  /\ \A c \in Clients : pc[c] # "idle" => op[c] \in Calls
  /\ \A c \in Clients : pc[c] \in InCall => cur[c] \in Messages
  /\ \A l \in Loops : pc[l] \in InLoop => cur[l] \in Messages

\* A sender between its test and its channel send holds the read lock.
PinInv ==
  \A c \in Clients : pc[c] = "sendPush" => c \in mu.readers /\ running

\* Until Stop cancels the context, the running flag says exactly whether there
\* is a goroutine to serve the mailbox.
LoopInv ==
  /\ \A c \in Clients : pc[c] \in {"stop", "stopped"} => cancelled
  /\ running /\ ~cancelled => \E p \in Procs : Serving(p)
  /\ ~running /\ ~cancelled => \A p \in Procs : ~Serving(p)
  /\ ~cancelled => \A p, q \in Procs : Serving(p) /\ Serving(q) => p = q

\* The inductive strengthening of TypeOK.
TypeInv == TypeOK /\ HandInv

LEMMA TypeInvInit == Init => TypeInv
<1> SUFFICES ASSUME Init PROVE TypeInv
  OBVIOUS
<1>1. mu \in RWMutexes(Procs)
  BY UnlockedType DEF Init
<1>2. mailbox \in Seq(Messages) /\ Len(mailbox) <= Capacity
  BY ActorAssumption DEF ActorAssumption, Init
<1>3. op \in [Clients -> 0..MaxOps]
  BY ActorAssumption DEF ActorAssumption, Init
<1>4. /\ reply \in [Clients -> [Calls -> {"empty"} \cup Answers]]
      /\ result \in [Clients -> [Calls -> Results]]
  BY DEF Init, Results
<1>5. QED
  BY <1>1, <1>2, <1>3, <1>4, ActorAssumption
  DEF ActorAssumption, Init, TypeInv, TypeOK, HandInv, Procs, ClientLabels,
      LoopLabels, InCall, InLoop

LEMMA EnvelopeType ==
  ASSUME op \in [Clients -> 0..MaxOps], NEW c \in Clients, op[c] < MaxOps,
         NEW t \in Types, NEW ask \in BOOLEAN
  PROVE  Envelope(c, t, ask) \in Messages
BY ActorAssumption DEF ActorAssumption, Envelope, Messages, Calls

\* A return leaves its client idle and notes the outcome.
LEMMA ReturnFacts ==
  ASSUME TypeInv, NEW c \in Clients, NEW value \in Results, Return(c, value),
         pc[c] # "idle"
  PROVE  /\ result' \in [Clients -> [Calls -> Results]]
         /\ pc' = [pc EXCEPT ![c] = "idle"]
BY DEF TypeInv, TypeOK, HandInv, Return

LEMMA TypeInvStep == TypeInv /\ [Next]_vars => TypeInv'
<1> SUFFICES ASSUME TypeInv, [Next]_vars PROVE TypeInv'
  OBVIOUS
<1>a. \A n \in 0..MaxOps : n < MaxOps => n + 1 \in 0..MaxOps /\ n + 1 \in Calls
  BY ActorAssumption DEF ActorAssumption, Calls
<1>b. {"done", "ok", "notRunning", "stopped", "value", "nil"} \subseteq Results
  BY DEF Results, Answers
<1>c. Clients \cap Loops = {}
  BY ActorAssumption DEF ActorAssumption
<1>d. mu \in RWMutexes(Procs)
  BY DEF TypeInv, TypeOK
<1> USE <1>a, <1>b, <1>c
    DEF TypeInv, TypeOK, HandInv, Procs, ClientLabels, LoopLabels, InCall,
        InLoop
<1>1. ASSUME NEW c \in Clients, StartLock(c) PROVE TypeInv'
  BY <1>1, AnnounceFacts DEF StartLock, Begin, lockVars, msgVars
<1>2. ASSUME NEW c \in Clients, StartBody(c) PROVE TypeInv'
  <2>1. mu' \in RWMutexes(Procs)
    BY <1>2, <1>d, UnlockFacts DEF StartBody
  <2>2. CASE running
    <3>1. /\ result' \in [Clients -> [Calls -> Results]]
          /\ pc' = [pc EXCEPT ![c] = "idle"]
      BY <1>2, <2>2, ReturnFacts DEF StartBody
    <3> QED
      BY <1>2, <2>1, <2>2, <3>1 DEF StartBody, msgVars
  <2>3. CASE ~running
    BY <1>2, <2>1, <2>3 DEF StartBody, Goto, msgVars
  <2> QED
    BY <2>2, <2>3
<1>3. ASSUME NEW c \in Clients, StartLoop(c) PROVE TypeInv'
  BY <1>3 DEF StartLoop, lockVars, msgVars
<1>4. ASSUME NEW c \in Clients, NEW t \in Types, OnLock(c, t) PROVE TypeInv'
  <2>1. mu' \in RWMutexes(Procs)
    BY <1>4, <1>d, AnnounceFacts DEF OnLock
  <2>2. Envelope(c, t, FALSE) \in Messages
    BY <1>4, EnvelopeType DEF OnLock, Begin
  <2> QED
    BY <1>4, <2>1, <2>2 DEF OnLock, Begin, lockVars
<1>5. ASSUME NEW c \in Clients, OnBody(c) PROVE TypeInv'
  <2>1. mu' \in RWMutexes(Procs)
    BY <1>5, <1>d, UnlockFacts DEF OnBody
  <2>2. /\ result' \in [Clients -> [Calls -> Results]]
        /\ pc' = [pc EXCEPT ![c] = "idle"]
    BY <1>5, ReturnFacts DEF OnBody
  <2>3. cur[c].type \in Types
    BY <1>5 DEF OnBody, Messages
  <2> QED
    BY <1>5, <2>1, <2>2, <2>3 DEF OnBody
<1>6. ASSUME NEW c \in Clients, NEW t \in Types, SendLock(c, t) PROVE TypeInv'
  <2>1. mu' \in RWMutexes(Procs)
    BY <1>6, <1>d, RLockFacts DEF SendLock, Post
  <2>2. Envelope(c, t, FALSE) \in Messages
    BY <1>6, EnvelopeType DEF SendLock, Post, Begin
  <2> QED
    BY <1>6, <2>1, <2>2 DEF SendLock, Post, Begin, lockVars
<1>7. ASSUME NEW c \in Clients, SendCheck(c) PROVE TypeInv'
  <2>1. CASE Refuse(c)
    <3>1. mu' \in RWMutexes(Procs)
      BY <2>1, <1>d, RUnlockFacts DEF Refuse
    <3>2. /\ result' \in [Clients -> [Calls -> Results]]
          /\ pc' = [pc EXCEPT ![c] = "idle"]
      BY <1>7, <2>1, ReturnFacts DEF SendCheck, Refuse
    <3> QED
      BY <2>1, <3>1, <3>2 DEF Refuse, lockVars
  <2>2. CASE ~Refuse(c)
    <3>1. mu' \in RWMutexes(Procs)
      BY <1>7, <2>2, <1>d, RUnlockFacts DEF SendCheck
    <3> QED
      BY <1>7, <2>2, <3>1 DEF SendCheck, Goto, lockVars, msgVars
  <2> QED
    BY <2>1, <2>2
<1>8. ASSUME NEW c \in Clients, SendPush(c) PROVE TypeInv'
  <2>1. mu' \in RWMutexes(Procs)
    BY <1>8, <1>d, RUnlockFacts DEF SendPush
  <2>2. /\ result' \in [Clients -> [Calls -> Results]]
        /\ pc' = [pc EXCEPT ![c] = "idle"]
    BY <1>8, ReturnFacts DEF SendPush
  <2>3. /\ mailbox' \in Seq(Messages) /\ Len(mailbox') <= Capacity
        /\ sent' \in Seq(Messages)
    BY <1>8, ActorAssumption DEF SendPush, Enqueue, ActorAssumption
  <2> QED
    BY <1>8, <2>1, <2>2, <2>3 DEF SendPush, lockVars
<1>9. ASSUME NEW c \in Clients, NEW t \in Types, AskLock(c, t) PROVE TypeInv'
  <2>1. mu' \in RWMutexes(Procs)
    BY <1>9, <1>d, RLockFacts DEF AskLock, Post
  <2>2. Envelope(c, t, TRUE) \in Messages
    BY <1>9, EnvelopeType DEF AskLock, Post, Begin
  <2> QED
    BY <1>9, <2>1, <2>2 DEF AskLock, Post, Begin, lockVars
<1>10. ASSUME NEW c \in Clients, AskCheck(c) PROVE TypeInv'
  <2>1. CASE Refuse(c)
    <3>1. mu' \in RWMutexes(Procs)
      BY <2>1, <1>d, RUnlockFacts DEF Refuse
    <3>2. /\ result' \in [Clients -> [Calls -> Results]]
          /\ pc' = [pc EXCEPT ![c] = "idle"]
      BY <1>10, <2>1, ReturnFacts DEF AskCheck, Refuse
    <3> QED
      BY <2>1, <3>1, <3>2 DEF Refuse, lockVars
  <2>2. CASE ~Refuse(c)
    <3>1. mu' \in RWMutexes(Procs)
      BY <1>10, <2>2, <1>d, RUnlockFacts DEF AskCheck
    <3> QED
      BY <1>10, <2>2, <3>1 DEF AskCheck, Goto, lockVars, msgVars
  <2> QED
    BY <2>1, <2>2
<1>11. ASSUME NEW c \in Clients, AskPush(c) PROVE TypeInv'
  <2>1. /\ mailbox' \in Seq(Messages) /\ Len(mailbox') <= Capacity
        /\ sent' \in Seq(Messages)
    BY <1>11, ActorAssumption DEF AskPush, Goto, Enqueue, ActorAssumption
  <2> QED
    BY <1>11, <2>1 DEF AskPush, Goto, lockVars
<1>12. ASSUME NEW c \in Clients, AskStopped(c) PROVE TypeInv'
  <2>1. /\ result' \in [Clients -> [Calls -> Results]]
        /\ pc' = [pc EXCEPT ![c] = "idle"]
    BY <1>12, ReturnFacts DEF AskStopped
  <2> QED
    BY <1>12, <2>1 DEF AskStopped, lockVars
<1>13. ASSUME NEW c \in Clients, AskAnswered(c) PROVE TypeInv'
  <2>1. op[c] \in Calls
    BY <1>13 DEF AskAnswered
  <2>2. reply[c][op[c]] \in Results
    BY <1>13, <2>1 DEF AskAnswered, Results
  <2>3. /\ result' \in [Clients -> [Calls -> Results]]
        /\ pc' = [pc EXCEPT ![c] = "idle"]
    BY <1>13, <2>2, ReturnFacts DEF AskAnswered
  <2>4. reply' \in [Clients -> [Calls -> {"empty"} \cup Answers]]
    BY <1>13, <2>1 DEF AskAnswered
  <2> QED
    BY <1>13, <2>3, <2>4 DEF AskAnswered, lockVars
<1>14. ASSUME NEW c \in Clients, StopCancel(c) PROVE TypeInv'
  BY <1>14 DEF StopCancel, Begin, msgVars
<1>15. ASSUME NEW c \in Clients, StopLock(c) PROVE TypeInv'
  BY <1>15, AnnounceFacts DEF StopLock, Goto, lockVars, msgVars
<1>16. ASSUME NEW c \in Clients, StopBody(c) PROVE TypeInv'
  <2>1. mu' \in RWMutexes(Procs)
    BY <1>16, <1>d, UnlockFacts DEF StopBody
  <2>2. /\ result' \in [Clients -> [Calls -> Results]]
        /\ pc' = [pc EXCEPT ![c] = "idle"]
    BY <1>16, ReturnFacts DEF StopBody
  <2> QED
    BY <1>16, <2>1, <2>2 DEF StopBody, msgVars
<1>17. ASSUME NEW l \in Loops, LoopExit(l) PROVE TypeInv'
  BY <1>17 DEF LoopExit, Goto, lockVars, msgVars
<1>18. ASSUME NEW l \in Loops, LoopTake(l) PROVE TypeInv'
  <2>1. Head(mailbox) \in Messages /\ Len(Tail(mailbox)) <= Capacity
    BY <1>18, ActorAssumption DEF LoopTake, ActorAssumption
  <2> QED
    BY <1>18, <2>1 DEF LoopTake, Goto, lockVars
<1>19. ASSUME NEW l \in Loops, ProcessLock(l) PROVE TypeInv'
  BY <1>19, RLockFacts DEF ProcessLock, Goto, lockVars, msgVars
<1>20. ASSUME NEW l \in Loops, ProcessLookup(l) PROVE TypeInv'
  BY <1>20, RUnlockFacts DEF ProcessLookup, Goto, lockVars
<1>21. ASSUME NEW l \in Loops, ProcessReply(l) PROVE TypeInv'
  <2>1. /\ cur[l] \in Messages
        /\ cur[l].from \in Clients
        /\ cur[l].seq \in Calls
    BY <1>21 DEF ProcessReply, Goto, Messages
  <2>2. reply' \in [Clients -> [Calls -> {"empty"} \cup Answers]]
    BY <1>21, <2>1 DEF ProcessReply, Answers
  <2>3. log' \in Seq(Messages)
    BY <1>21, <2>1 DEF ProcessReply
  <2> QED
    BY <1>21, <2>2, <2>3 DEF ProcessReply, Goto, lockVars
<1>22. CASE UNCHANGED vars
  BY <1>22 DEF vars
<1>23. QED
  BY <1>1, <1>2, <1>3, <1>4, <1>5, <1>6, <1>7, <1>8, <1>9, <1>10, <1>11,
     <1>12, <1>13, <1>14, <1>15, <1>16, <1>17, <1>18, <1>19, <1>20, <1>21,
     <1>22
  DEF Next, BeginCall, ClientStep, LoopStep, Finished

\* Every variable of the actor keeps the shape the code gives it: the mailbox
\* within its capacity, the lock a lock, every call with a known outcome.
THEOREM TypeCorrect == Spec => []TypeOK
<1>1. Spec => []TypeInv
  BY TypeInvInit, TypeInvStep, PTL DEF Spec
<1>2. TypeInv => TypeOK
  BY DEF TypeInv
<1>3. QED
  BY <1>1, <1>2, PTL

\* The part of TypeInv the next two proofs need.
LEMMA Shapes ==
  TypeInv => /\ mu \in RWMutexes(Procs)
             /\ pc \in [Procs -> ClientLabels \cup LoopLabels \cup {"unborn", "exited"}]
             /\ Clients \cap Loops = {}
             /\ \A c \in Clients : pc[c] \in ClientLabels
             /\ \A l \in Loops : pc[l] \in LoopLabels \cup {"unborn", "exited"}
BY ActorAssumption DEF TypeInv, TypeOK, ActorAssumption

LEMMA PinInvStep == TypeInv /\ PinInv /\ [Next]_vars => PinInv'
<1> SUFFICES ASSUME TypeInv, PinInv, [Next]_vars PROVE PinInv'
  OBVIOUS
<1>0. /\ mu \in RWMutexes(Procs)
      /\ pc \in [Procs -> ClientLabels \cup LoopLabels \cup {"unborn", "exited"}]
      /\ Clients \cap Loops = {}
  BY Shapes
<1> USE <1>0 DEF PinInv, Procs
<1>1. ASSUME NEW c \in Clients, StartLock(c) PROVE PinInv'
  <2>1. mu'.readers = mu.readers
    BY <1>1 DEF StartLock, Announce, RWMutexes
  <2> QED
    BY <1>1, <2>1 DEF StartLock, Begin, lockVars
<1>2. ASSUME NEW c \in Clients, StartBody(c) PROVE PinInv'
  BY <1>2, UnlockFacts DEF StartBody, Return, Goto, HoldsWrite, HoldsRead
<1>3. ASSUME NEW c \in Clients, StartLoop(c) PROVE PinInv'
  BY <1>3 DEF StartLoop, lockVars
<1>4. ASSUME NEW c \in Clients, NEW t \in Types, OnLock(c, t) PROVE PinInv'
  <2>1. mu'.readers = mu.readers
    BY <1>4 DEF OnLock, Announce, RWMutexes
  <2> QED
    BY <1>4, <2>1 DEF OnLock, Begin, lockVars
<1>5. ASSUME NEW c \in Clients, OnBody(c) PROVE PinInv'
  BY <1>5, UnlockFacts DEF OnBody, Return, HoldsWrite, HoldsRead
<1>6. ASSUME NEW c \in Clients, NEW t \in Types, SendLock(c, t) PROVE PinInv'
  BY <1>6, RLockFacts DEF SendLock, Post, Begin, lockVars
<1>7. ASSUME NEW c \in Clients, SendCheck(c) PROVE PinInv'
  BY <1>7, RUnlockFacts DEF SendCheck, Refuse, Return, Goto, lockVars, HoldsWrite, HoldsRead
<1>8. ASSUME NEW c \in Clients, SendPush(c) PROVE PinInv'
  BY <1>8, RUnlockFacts DEF SendPush, Return, lockVars
<1>9. ASSUME NEW c \in Clients, NEW t \in Types, AskLock(c, t) PROVE PinInv'
  BY <1>9, RLockFacts DEF AskLock, Post, Begin, lockVars
<1>10. ASSUME NEW c \in Clients, AskCheck(c) PROVE PinInv'
  BY <1>10, RUnlockFacts DEF AskCheck, Refuse, Return, Goto, lockVars, HoldsWrite, HoldsRead
<1>11. ASSUME NEW c \in Clients, AskPush(c) PROVE PinInv'
  BY <1>11 DEF AskPush, Goto, lockVars
<1>12. ASSUME NEW c \in Clients, AskStopped(c) PROVE PinInv'
  BY <1>12 DEF AskStopped, Return, lockVars
<1>13. ASSUME NEW c \in Clients, AskAnswered(c) PROVE PinInv'
  BY <1>13 DEF AskAnswered, Return, lockVars
<1>14. ASSUME NEW c \in Clients, StopCancel(c) PROVE PinInv'
  BY <1>14 DEF StopCancel, Begin
<1>15. ASSUME NEW c \in Clients, StopLock(c) PROVE PinInv'
  <2>1. mu'.readers = mu.readers
    BY <1>15 DEF StopLock, Announce, RWMutexes
  <2> QED
    BY <1>15, <2>1 DEF StopLock, Goto, lockVars
<1>16. ASSUME NEW c \in Clients, StopBody(c) PROVE PinInv'
  BY <1>16, UnlockFacts DEF StopBody, Return, HoldsWrite, HoldsRead
<1>17. ASSUME NEW l \in Loops, LoopExit(l) PROVE PinInv'
  BY <1>17 DEF LoopExit, Goto, lockVars
<1>18. ASSUME NEW l \in Loops, LoopTake(l) PROVE PinInv'
  BY <1>18 DEF LoopTake, Goto, lockVars
<1>19. ASSUME NEW l \in Loops, ProcessLock(l) PROVE PinInv'
  BY <1>19, RLockFacts DEF ProcessLock, Goto, lockVars
<1>20. ASSUME NEW l \in Loops, ProcessLookup(l) PROVE PinInv'
  BY <1>20, RUnlockFacts DEF ProcessLookup, Goto, lockVars
<1>21. ASSUME NEW l \in Loops, ProcessReply(l) PROVE PinInv'
  BY <1>21 DEF ProcessReply, Goto, lockVars
<1>22. CASE UNCHANGED vars
  BY <1>22 DEF vars
<1>23. QED
  BY <1>1, <1>2, <1>3, <1>4, <1>5, <1>6, <1>7, <1>8, <1>9, <1>10, <1>11,
     <1>12, <1>13, <1>14, <1>15, <1>16, <1>17, <1>18, <1>19, <1>20, <1>21,
     <1>22
  DEF Next, BeginCall, ClientStep, LoopStep, Finished

LEMMA LoopInvStep == TypeInv /\ LoopInv /\ [Next]_vars => LoopInv'
<1> SUFFICES ASSUME TypeInv, LoopInv, [Next]_vars PROVE LoopInv'
  OBVIOUS
<1>0. /\ pc \in [Procs -> ClientLabels \cup LoopLabels \cup {"unborn", "exited"}]
      /\ Clients \cap Loops = {}
  BY Shapes
<1> USE <1>0 DEF LoopInv, Procs, Serving, LoopLabels
<1>1. ASSUME NEW c \in Clients, StartLock(c) PROVE LoopInv'
  BY <1>1 DEF StartLock, Begin, lockVars
<1>2. ASSUME NEW c \in Clients, StartBody(c) PROVE LoopInv'
  BY <1>2 DEF StartBody, Return, Goto
<1>3. ASSUME NEW c \in Clients, StartLoop(c) PROVE LoopInv'
  BY <1>3 DEF StartLoop, lockVars
<1>4. ASSUME NEW c \in Clients, NEW t \in Types, OnLock(c, t) PROVE LoopInv'
  BY <1>4 DEF OnLock, Begin, lockVars
<1>5. ASSUME NEW c \in Clients, OnBody(c) PROVE LoopInv'
  BY <1>5 DEF OnBody, Return
<1>6. ASSUME NEW c \in Clients, NEW t \in Types, SendLock(c, t) PROVE LoopInv'
  BY <1>6 DEF SendLock, Post, Begin, lockVars
<1>7. ASSUME NEW c \in Clients, SendCheck(c) PROVE LoopInv'
  BY <1>7 DEF SendCheck, Refuse, Return, Goto, lockVars
<1>8. ASSUME NEW c \in Clients, SendPush(c) PROVE LoopInv'
  BY <1>8 DEF SendPush, Return, lockVars
<1>9. ASSUME NEW c \in Clients, NEW t \in Types, AskLock(c, t) PROVE LoopInv'
  BY <1>9 DEF AskLock, Post, Begin, lockVars
<1>10. ASSUME NEW c \in Clients, AskCheck(c) PROVE LoopInv'
  BY <1>10 DEF AskCheck, Refuse, Return, Goto, lockVars
<1>11. ASSUME NEW c \in Clients, AskPush(c) PROVE LoopInv'
  BY <1>11 DEF AskPush, Goto, lockVars
<1>12. ASSUME NEW c \in Clients, AskStopped(c) PROVE LoopInv'
  BY <1>12 DEF AskStopped, Return, lockVars
<1>13. ASSUME NEW c \in Clients, AskAnswered(c) PROVE LoopInv'
  BY <1>13 DEF AskAnswered, Return, lockVars
<1>14. ASSUME NEW c \in Clients, StopCancel(c) PROVE LoopInv'
  BY <1>14 DEF StopCancel, Begin
<1>15. ASSUME NEW c \in Clients, StopLock(c) PROVE LoopInv'
  BY <1>15 DEF StopLock, Goto, lockVars
<1>16. ASSUME NEW c \in Clients, StopBody(c) PROVE LoopInv'
  BY <1>16 DEF StopBody, Return
<1>17. ASSUME NEW l \in Loops, LoopExit(l) PROVE LoopInv'
  BY <1>17 DEF LoopExit, Goto, lockVars
<1>18. ASSUME NEW l \in Loops, LoopTake(l) PROVE LoopInv'
  BY <1>18 DEF LoopTake, Goto, lockVars
<1>19. ASSUME NEW l \in Loops, ProcessLock(l) PROVE LoopInv'
  BY <1>19 DEF ProcessLock, Goto, lockVars
<1>20. ASSUME NEW l \in Loops, ProcessLookup(l) PROVE LoopInv'
  BY <1>20 DEF ProcessLookup, Goto, lockVars
<1>21. ASSUME NEW l \in Loops, ProcessReply(l) PROVE LoopInv'
  BY <1>21 DEF ProcessReply, Goto, lockVars
<1>22. CASE UNCHANGED vars
  BY <1>22 DEF vars
<1>23. QED
  BY <1>1, <1>2, <1>3, <1>4, <1>5, <1>6, <1>7, <1>8, <1>9, <1>10, <1>11,
     <1>12, <1>13, <1>14, <1>15, <1>16, <1>17, <1>18, <1>19, <1>20, <1>21,
     <1>22
  DEF Next, BeginCall, ClientStep, LoopStep, Finished

\* The invariants together, from the initial state on.
LEMMA Invariants == Spec => [](TypeInv /\ PinInv /\ LoopInv)
<1>1. Init => PinInv /\ LoopInv
  BY DEF Init, PinInv, LoopInv, Serving, Procs, LoopLabels
<1>2. QED
  BY <1>1, TypeInvInit, TypeInvStep, PinInvStep, LoopInvStep, PTL DEF Spec

\* A Send that saw the actor running finds it running at its channel send.
THEOREM SendersPinned == Spec => []SendersPinRunning
<1>1. PinInv => SendersPinRunning
  BY DEF PinInv, SendersPinRunning
<1>2. QED
  BY <1>1, Invariants, PTL

\* Racing Starts leave one event loop, as long as nobody has called Stop.
THEOREM OneLoop == Spec => []OneLoopUntilStopped
<1>1. LoopInv => OneLoopUntilStopped
  BY DEF LoopInv, OneLoopUntilStopped
<1>2. QED
  BY <1>1, Invariants, PTL

\* Until a Stop, a running actor has a goroutine that serves its mailbox.
THEOREM Served == Spec => []RunningIsServed
<1>1. LoopInv => RunningIsServed
  BY DEF LoopInv, RunningIsServed
<1>2. QED
  BY <1>1, Invariants, PTL

\* Until a Stop, a running actor has one goroutine that serves its mailbox,
\* however many of them race in Start.
THEOREM OneLoopServes == Spec => []ServedByOne
<1>1. OneLoopUntilStopped /\ RunningIsServed => ServedByOne
  BY DEF ServedByOne
<1>2. QED
  BY <1>1, OneLoop, Served, PTL

------------------------------------------------------------------------------
(* Until a Stop messages are processed in the order of acceptance          *)

\* A loop has a message in hand exactly while its label says so.
CurInv == \A l \in Loops : cur[l] # NoMessage <=> pc[l] \in InLoop

LEMMA InHandOne ==
  ASSUME NEW f, NEW l \in Loops, f[l] # NoMessage,
         \A k \in Loops : f[k] # NoMessage => k = l
  PROVE  InHand(f) = <<f[l]>>
BY DEF InHand

LEMMA InHandNone ==
  ASSUME NEW f, \A l \in Loops : f[l] = NoMessage
  PROVE  InHand(f) = <<>>
BY DEF InHand

\* Two assignments that agree on the loops, of which one holds a message.
LEMMA InHandSame ==
  ASSUME NEW f, NEW g, \A l \in Loops : g[l] = f[l],
         \A l, k \in Loops : f[l] # NoMessage /\ f[k] # NoMessage => l = k
  PROVE  InHand(g) = InHand(f)
<1>1. CASE \A l \in Loops : f[l] = NoMessage
  BY <1>1, InHandNone
<1>2. CASE \E l \in Loops : f[l] # NoMessage
  <2>1. PICK l \in Loops : f[l] # NoMessage
    BY <1>2
  <2>2. InHand(f) = <<f[l]>>
    BY <2>1, InHandOne
  <2>3. InHand(g) = <<g[l]>>
    BY <2>1, InHandOne
  <2>4. QED
    BY <2>2, <2>3
<1>3. QED
  BY <1>1, <1>2

LEMMA HeadToHand ==
  ASSUME NEW S, NEW s \in Seq(S), NEW t \in Seq(S), t # <<>>
  PROVE  (s \o <<>>) \o t = (s \o <<Head(t)>>) \o Tail(t)
<1>1. t = <<Head(t)>> \o Tail(t) /\ <<Head(t)>> \in Seq(S) /\ Tail(t) \in Seq(S)
  OBVIOUS
<1>2. s \o <<>> = s
  BY ConcatEmptySeq
<1>3. s \o (<<Head(t)>> \o Tail(t)) = (s \o <<Head(t)>>) \o Tail(t)
  BY <1>1, ConcatAssociative
<1>4. QED
  BY <1>1, <1>2, <1>3, Zenon

LEMMA HandToLog ==
  ASSUME NEW S, NEW s \in Seq(S), NEW t \in Seq(S), NEW e \in S
  PROVE  (s \o <<e>>) \o t = (Append(s, e) \o <<>>) \o t
<1>1. Append(s, e) = s \o <<e>> /\ Append(s, e) \in Seq(S)
  BY AppendIsConcat, AppendProperties
<1>2. Append(s, e) \o <<>> = Append(s, e)
  BY <1>1, ConcatEmptySeq
<1>3. QED
  BY <1>1, <1>2, Zenon

LEMMA OneInHand ==
  ASSUME TypeInv, LoopInv, CurInv, ~cancelled
  PROVE  \A l, k \in Loops : cur[l] # NoMessage /\ cur[k] # NoMessage => l = k
BY DEF LoopInv, CurInv, Serving, LoopLabels, InLoop, Procs

\* A step that accepts, takes or finishes no message.
LEMMA OrderFrame ==
  ASSUME TypeInv, LoopInv, CurInv, InOrder, UNCHANGED <<sent, log, mailbox>>,
         cancelled => cancelled',
         \A l \in Loops : cur'[l] = cur[l] /\ (pc'[l] \in InLoop <=> pc[l] \in InLoop)
  PROVE  CurInv' /\ InOrder'
<1>1. CurInv'
  BY DEF CurInv
<1>2. ASSUME ~cancelled PROVE InHand(cur') = InHand(cur)
  BY <1>2, OneInHand, InHandSame
<1>3. InOrder'
  BY <1>2 DEF InOrder
<1>4. QED
  BY <1>1, <1>3

\* An accepted message goes to the end of the mailbox.
LEMMA OrderEnqueue ==
  ASSUME TypeInv, LoopInv, CurInv, InOrder, NEW c \in Clients, Enqueue(c),
         cur[c] \in Messages, UNCHANGED <<log, cancelled>>,
         \A l \in Loops : cur'[l] = cur[l] /\ pc'[l] = pc[l]
  PROVE  CurInv' /\ InOrder'
<1>1. CurInv'
  BY DEF CurInv
<1>2. ASSUME ~cancelled PROVE sent' = log' \o InHand(cur') \o mailbox'
  <2>1. InHand(cur') = InHand(cur)
    BY <1>2, OneInHand, InHandSame
  <2>2. sent = log \o InHand(cur) \o mailbox
    BY <1>2 DEF InOrder
  <2>3. /\ log \in Seq(Messages) /\ mailbox \in Seq(Messages)
        /\ cur \in [Procs -> Messages \cup {NoMessage}]
    BY DEF TypeInv, TypeOK
  <2>4. InHand(cur) \in Seq(Messages)
    BY <2>3 DEF InHand, Procs
  <2>5. log \o InHand(cur) \in Seq(Messages)
    BY <2>3, <2>4
  <2>6. <<cur[c]>> \in Seq(Messages)
    OBVIOUS
  <2>7. sent' = (log \o InHand(cur)) \o mailbox'
    <3>1. mailbox' = mailbox \o <<cur[c]>>
      BY <2>3, AppendIsConcat DEF Enqueue
    <3>2. sent' = sent \o <<cur[c]>>
      BY AppendIsConcat DEF Enqueue, TypeInv, TypeOK
    <3>3. ((log \o InHand(cur)) \o mailbox) \o <<cur[c]>>
            = (log \o InHand(cur)) \o (mailbox \o <<cur[c]>>)
      BY <2>3, <2>5, <2>6, ConcatAssociative
    <3>4. QED
      BY <2>2, <3>1, <3>2, <3>3, Zenon
  <2>8. QED
    BY <2>1, <2>7
<1>3. QED
  BY <1>1, <1>2 DEF InOrder

\* The head of the mailbox goes into the hand of the only loop.
LEMMA OrderTake ==
  ASSUME TypeInv, LoopInv, CurInv, InOrder, NEW l \in Loops, LoopTake(l)
  PROVE  CurInv' /\ InOrder'
<1>1. /\ pc[l] = "select" /\ pc' = [pc EXCEPT ![l] = "process"]
      /\ mailbox # <<>> /\ mailbox' = Tail(mailbox)
      /\ cur' = [cur EXCEPT ![l] = Head(mailbox)]
      /\ UNCHANGED <<sent, log, cancelled>>
  BY DEF LoopTake, Goto, lockVars
<1>2. /\ cur \in [Procs -> Messages \cup {NoMessage}]
      /\ pc \in [Procs -> ClientLabels \cup LoopLabels \cup {"unborn", "exited"}]
      /\ mailbox \in Seq(Messages) /\ log \in Seq(Messages) /\ l \in Procs
  BY DEF TypeInv, TypeOK, Procs
<1>3. /\ Head(mailbox) \in Messages /\ Tail(mailbox) \in Seq(Messages)
      /\ mailbox = <<Head(mailbox)>> \o Tail(mailbox)
  BY <1>1, <1>2
<1>4. Head(mailbox) # NoMessage
  BY <1>3, NoMessageAssumption DEF NoMessageAssumption
<1>5. CurInv'
  BY <1>1, <1>2, <1>4 DEF CurInv, InLoop, Procs
<1>6. ASSUME ~cancelled PROVE sent' = log' \o InHand(cur') \o mailbox'
  <2>1. \A k \in Loops : k # l => pc[k] \notin InLoop
    BY <1>1, <1>6 DEF LoopInv, Serving, LoopLabels, InLoop, Procs
  <2>2. \A k \in Loops : cur[k] = NoMessage
    BY <1>1, <2>1 DEF CurInv, InLoop
  <2>3. InHand(cur) = <<>>
    BY <2>2, InHandNone
  <2>4. /\ cur'[l] = Head(mailbox)
        /\ \A k \in Loops : cur'[k] # NoMessage => k = l
    BY <1>1, <1>2, <2>2 DEF Procs
  <2>5. InHand(cur') = <<Head(mailbox)>>
    BY <1>4, <2>4, InHandOne
  <2>6. sent = log \o <<>> \o mailbox
    BY <1>6, <2>3 DEF InOrder
  <2>7. log \o <<>> \o mailbox = log \o <<Head(mailbox)>> \o Tail(mailbox)
    BY <1>1, <1>2, HeadToHand
  <2>8. QED
    BY <1>1, <2>5, <2>6, <2>7
<1>7. QED
  BY <1>1, <1>5, <1>6 DEF InOrder

\* The message in the hand of the only loop goes to the end of the log.
LEMMA OrderFinish ==
  ASSUME TypeInv, LoopInv, CurInv, InOrder, NEW l \in Loops, ProcessReply(l)
  PROVE  CurInv' /\ InOrder'
<1>1. /\ pc[l] = "handle" /\ pc' = [pc EXCEPT ![l] = "select"]
      /\ log' = Append(log, cur[l])
      /\ cur' = [cur EXCEPT ![l] = NoMessage]
      /\ UNCHANGED <<sent, mailbox, cancelled>>
  BY DEF ProcessReply, Goto, lockVars
<1>2. /\ cur \in [Procs -> Messages \cup {NoMessage}]
      /\ pc \in [Procs -> ClientLabels \cup LoopLabels \cup {"unborn", "exited"}]
      /\ mailbox \in Seq(Messages) /\ log \in Seq(Messages) /\ l \in Procs
  BY DEF TypeInv, TypeOK, Procs
<1>3. cur[l] # NoMessage /\ cur[l] \in Messages
  BY <1>1, <1>2 DEF CurInv, InLoop
<1>4. CurInv'
  BY <1>1, <1>2 DEF CurInv, InLoop, Procs
<1>5. ASSUME ~cancelled PROVE sent' = log' \o InHand(cur') \o mailbox'
  <2>1. \A k \in Loops : cur[k] # NoMessage => k = l
    BY <1>3, <1>5, OneInHand
  <2>2. InHand(cur) = <<cur[l]>>
    BY <1>3, <2>1, InHandOne
  <2>3. \A k \in Loops : cur'[k] = NoMessage
    BY <1>1, <1>2, <2>1 DEF Procs
  <2>4. InHand(cur') = <<>>
    BY <2>3, InHandNone
  <2>5. sent = log \o <<cur[l]>> \o mailbox
    BY <1>5, <2>2 DEF InOrder
  <2>6. log \o <<cur[l]>> \o mailbox = Append(log, cur[l]) \o <<>> \o mailbox
    BY <1>2, <1>3, HandToLog
  <2>7. QED
    BY <1>1, <2>4, <2>5, <2>6
<1>6. QED
  BY <1>1, <1>4, <1>5 DEF InOrder

LEMMA OrderStep ==
  TypeInv /\ LoopInv /\ CurInv /\ InOrder /\ [Next]_vars => CurInv' /\ InOrder'
<1> SUFFICES ASSUME TypeInv, LoopInv, CurInv, InOrder, [Next]_vars
             PROVE  CurInv' /\ InOrder'
  OBVIOUS
<1>a. /\ cur \in [Procs -> Messages \cup {NoMessage}]
      /\ pc \in [Procs -> ClientLabels \cup LoopLabels \cup {"unborn", "exited"}]
      /\ \A c \in Clients : c \in Procs /\ c \notin Loops
      /\ \A l \in Loops : l \in Procs
      /\ \A c \in Clients : pc[c] \in {"sendPush", "askPush"} => cur[c] \in Messages
  BY ActorAssumption DEF TypeInv, TypeOK, HandInv, InCall, Procs, ActorAssumption
<1>1. ASSUME NEW c \in Clients, SendPush(c) \/ AskPush(c) PROVE CurInv' /\ InOrder'
  <2>1. cur[c] \in Messages
    BY <1>1, <1>a DEF SendPush, AskPush, Goto
  <2>2. /\ Enqueue(c)
        /\ UNCHANGED <<log, cancelled>>
        /\ \A l \in Loops : cur'[l] = cur[l] /\ pc'[l] = pc[l]
    BY <1>1, <1>a DEF SendPush, AskPush, Goto, Return, lockVars
  <2>3. QED
    BY <2>1, <2>2, OrderEnqueue
<1>2. ASSUME NEW l \in Loops, LoopTake(l) PROVE CurInv' /\ InOrder'
  BY <1>2, OrderTake
<1>3. ASSUME NEW l \in Loops, ProcessReply(l) PROVE CurInv' /\ InOrder'
  BY <1>3, OrderFinish
<1>4. ASSUME NEW c \in Clients,
             \/ StartLock(c) \/ StartBody(c) \/ StartLoop(c) \/ StopCancel(c)
             \/ StopLock(c) \/ StopBody(c) \/ OnBody(c) \/ AskStopped(c)
             \/ AskAnswered(c) \/ SendCheck(c) \/ AskCheck(c)
             \/ \E t \in Types : OnLock(c, t) \/ SendLock(c, t) \/ AskLock(c, t)
      PROVE  CurInv' /\ InOrder'
  <2>1. UNCHANGED <<sent, log, mailbox>> /\ (cancelled => cancelled')
    <3>1. ASSUME StartLock(c) \/ StartBody(c) \/ StartLoop(c) \/ StopCancel(c)
                 \/ StopLock(c) \/ StopBody(c) \/ OnBody(c)
          PROVE  UNCHANGED <<sent, log, mailbox>> /\ (cancelled => cancelled')
      BY <3>1 DEF StartLock, StartBody, StartLoop, StopCancel, StopLock, StopBody,
         OnBody, lockVars, msgVars
    <3>2. ASSUME AskStopped(c) \/ AskAnswered(c) \/ SendCheck(c) \/ AskCheck(c)
          PROVE  UNCHANGED <<sent, log, mailbox, cancelled>>
      BY <3>2 DEF AskStopped, AskAnswered, SendCheck, AskCheck, Refuse, lockVars,
         msgVars
    <3>3. ASSUME NEW t \in Types, OnLock(c, t) \/ SendLock(c, t) \/ AskLock(c, t)
          PROVE  UNCHANGED <<sent, log, mailbox, cancelled>>
      BY <3>3 DEF OnLock, SendLock, AskLock, Post, lockVars
    <3>4. QED
      BY <1>4, <3>1, <3>2, <3>3
  <2>2. \A l \in Loops : cur'[l] = cur[l]
    BY <1>4, <1>a DEF StartLock, StartBody, StartLoop, StopCancel, StopLock,
       StopBody, OnLock, OnBody, SendLock, AskLock, Post, AskStopped,
       AskAnswered, SendCheck, AskCheck, Refuse, msgVars
  <2>3. \A l \in Loops : pc'[l] \in InLoop <=> pc[l] \in InLoop
    BY <1>4, <1>a DEF StartLock, StartBody, StartLoop, StopCancel, StopLock,
       StopBody, OnLock, OnBody, SendLock, AskLock, Post, AskStopped,
       AskAnswered, SendCheck, AskCheck, Refuse, Begin, Return, Goto, InLoop
  <2>4. QED
    BY <2>1, <2>2, <2>3, OrderFrame
<1>5. ASSUME NEW l \in Loops, LoopExit(l) \/ ProcessLock(l) \/ ProcessLookup(l)
      PROVE  CurInv' /\ InOrder'
  <2>1. /\ UNCHANGED <<sent, log, mailbox, cancelled, cur>>
        /\ \A k \in Loops : pc'[k] \in InLoop <=> pc[k] \in InLoop
    BY <1>5, <1>a DEF LoopExit, ProcessLock, ProcessLookup, Goto, lockVars,
       msgVars, InLoop
  <2>2. QED
    BY <2>1, OrderFrame
<1>6. CASE UNCHANGED vars
  BY <1>6, OrderFrame DEF vars
<1>7. QED
  BY <1>1, <1>2, <1>3, <1>4, <1>5, <1>6
  DEF Next, BeginCall, ClientStep, LoopStep, Finished

\* Nothing is lost, duplicated or overtaken until somebody calls Stop.
THEOREM Ordered == Spec => []InOrder
<1>1. Init => CurInv /\ InOrder
  <2>1. Init => \A l \in Loops : cur[l] = NoMessage /\ pc[l] \in {"idle", "unborn"}
    BY DEF Init, Procs
  <2>2. Init => sent = log \o InHand(cur) \o mailbox
    <3> SUFFICES ASSUME Init PROVE sent = log \o InHand(cur) \o mailbox
      OBVIOUS
    <3>1. InHand(cur) = <<>>
      BY <2>1, InHandNone
    <3>2. <<>> = <<>> \o <<>> \o <<>>
      OBVIOUS
    <3>3. QED
      BY <3>1, <3>2 DEF Init
  <2>3. QED
    BY <2>1, <2>2 DEF CurInv, InLoop, InOrder
<1>2. QED
  BY <1>1, OrderStep, Invariants, PTL DEF Spec

------------------------------------------------------------------------------
(* The actor keeps its contract, through every Stop and restart            *)

\* How many of the accepted messages have left the mailbox.
Taken == Len(sent) - Len(mailbox)

Posting == {"send", "sendPush", "ask", "askPush", "askWait"}

\* What a client is inside has returned nothing yet, and posts its own message.
CallsPending ==
  \A c \in Clients : \A k \in Calls :
    k > op[c] \/ (k = op[c] /\ pc[c] # "idle") => result[c][k] = "none"

Letters ==
  \A c \in Clients : pc[c] \in Posting =>
    /\ cur[c].from = c /\ cur[c].seq = op[c]
    /\ cur[c].ask <=> pc[c] \in {"ask", "askPush", "askWait"}

\* A call has sent its message only once it has returned or waits for the answer.
SentBy ==
  /\ \A i \in DOMAIN sent : LET m == sent[i] IN
       m.seq <= op[m.from] /\ (m.seq = op[m.from] => pc[m.from] \in {"idle", "askWait"})
  /\ \A c \in Clients : pc[c] = "askWait" => \E i \in DOMAIN sent : sent[i] = cur[c]

\* No call sends two messages.
SentOnce ==
  \A i, j \in DOMAIN sent : sent[i].from = sent[j].from /\ sent[i].seq = sent[j].seq => i = j

\* The mailbox is the end of what was accepted; the rest is in the log or in
\* the hand of one loop, even when a Stop has left several.
Placed ==
  /\ Taken \in Nat
  /\ \A k \in DOMAIN mailbox : mailbox[k] = sent[Taken + k]
  /\ \A j \in DOMAIN log : \E i \in 1..Taken : log[j] = sent[i]

HandsApart ==
  \A l \in Loops : pc[l] \in InLoop =>
    /\ \E i \in 1..Taken : cur[l] = sent[i]
    /\ \A j \in DOMAIN log : log[j] # cur[l]
    /\ \A k \in Loops : pc[k] \in InLoop /\ cur[k] = cur[l] => k = l

\* An answer waits only for a message that has been processed.
AnswersLogged ==
  \A c \in Clients, k \in Calls : reply[c][k] # "empty" =>
    \E j \in DOMAIN log : log[j].from = c /\ log[j].seq = k /\ log[j].ask

\* With TypeInv it is inductive, and every step it allows is one of Contract.
MessageInv ==
  /\ CallsPending /\ Letters /\ SentBy /\ SentOnce
  /\ Placed /\ HandsApart /\ AnswersLogged

LEMMA MessageInvInit == Init => MessageInv
<1> SUFFICES ASSUME Init PROVE MessageInv
  OBVIOUS
<1>1. /\ sent = <<>> /\ mailbox = <<>> /\ log = <<>>
      /\ \A c \in Clients : pc[c] = "idle" /\ op[c] = 0
      /\ \A l \in Loops : pc[l] \in {"idle", "unborn"}
      /\ \A c \in Clients, k \in Calls : result[c][k] = "none" /\ reply[c][k] = "empty"
  BY DEF Init, Procs
<1>2. CallsPending /\ Letters /\ SentBy /\ SentOnce
  BY <1>1 DEF CallsPending, Letters, SentBy, SentOnce, Posting
<1>3. Placed /\ HandsApart /\ AnswersLogged
  BY <1>1 DEF Placed, Taken, HandsApart, InLoop, AnswersLogged
<1>4. QED
  BY <1>2, <1>3 DEF MessageInv

------------------------------------------------------------------------------
(* What a step may do to the calls and to the messages                     *)

\* A step of client c changes no other client and no loop that has a message.
Alone(c) ==
  /\ \A d \in Clients : d # c =>
       pc'[d] = pc[d] /\ op'[d] = op[d] /\ cur'[d] = cur[d] /\ result'[d] = result[d]
  /\ \A l \in Loops : cur'[l] = cur[l] /\ (pc'[l] \in InLoop <=> pc[l] \in InLoop)

Quiet(c) ==
  /\ Alone(c)
  /\ UNCHANGED <<sent, log, mailbox>>
  /\ \A d \in Clients, k \in Calls : reply'[d][k] # "empty" => reply'[d][k] = reply[d][k]

Opens(c) ==
  /\ pc[c] = "idle" /\ pc'[c] \in {"start", "on", "send", "ask", "stop"}
  /\ op'[c] = op[c] + 1
  /\ result'[c] = result[c]
  /\ pc'[c] \in {"send", "ask"} =>
       cur'[c].from = c /\ cur'[c].seq = op'[c] /\ (cur'[c].ask <=> pc'[c] = "ask")

Moves(c) ==
  /\ \/ pc[c] = "send" /\ pc'[c] = "sendPush"
     \/ pc[c] = "ask" /\ pc'[c] = "askPush"
     \/ pc[c] \in {"start", "stop"} /\ pc'[c] \in {"go", "stopped"}
  /\ op'[c] = op[c] /\ cur'[c] = cur[c] /\ result'[c] = result[c]

Leaves(c, value) ==
  /\ pc[c] # "idle" /\ pc'[c] = "idle"
  /\ op'[c] = op[c]
  /\ result'[c][op[c]] = value
  /\ \A k \in Calls : k # op[c] => result'[c][k] = result[c][k]

LEMMA BeginOpens ==
  ASSUME TypeInv, NEW c \in Clients, NEW method, NEW label,
         label \in {"start", "on", "send", "ask", "stop"},
         Begin(c, method, label), UNCHANGED <<mailbox, reply, result, sent, log>>,
         \/ label \in {"start", "stop"} /\ cur' = cur
         \/ \E t \in Types, ask \in BOOLEAN :
              /\ cur' = [cur EXCEPT ![c] = Envelope(c, t, ask)]
              /\ label = "send" => ~ask
              /\ label = "ask" => ask
  PROVE  Quiet(c) /\ Opens(c)
<1>1. /\ pc \in [Procs -> ClientLabels \cup LoopLabels \cup {"unborn", "exited"}]
      /\ cur \in [Procs -> Messages \cup {NoMessage}]
      /\ op \in [Clients -> 0..MaxOps]
      /\ c \in Procs /\ Clients \subseteq Procs /\ Loops \subseteq Procs /\ c \notin Loops
  BY ActorAssumption DEF ActorAssumption, TypeInv, TypeOK, Procs
<1>2. /\ pc[c] = "idle" /\ pc'[c] = label /\ op'[c] = op[c] + 1
      /\ \A p \in Procs : p # c => pc'[p] = pc[p]
      /\ \A d \in Clients : d # c => op'[d] = op[d]
  BY <1>1 DEF Begin
<1>3. \A p \in Procs : p # c => cur'[p] = cur[p]
  BY <1>1
<1>4. label \in {"send", "ask"} =>
        cur'[c].from = c /\ cur'[c].seq = op[c] + 1 /\ (cur'[c].ask <=> label = "ask")
  <2> SUFFICES ASSUME label \in {"send", "ask"}
               PROVE  /\ cur'[c].from = c /\ cur'[c].seq = op[c] + 1
                      /\ cur'[c].ask <=> label = "ask"
    OBVIOUS
  <2>1. PICK t \in Types, ask \in BOOLEAN :
          cur'[c] = Envelope(c, t, ask) /\ (label = "send" => ~ask) /\ (label = "ask" => ask)
    BY <1>1
  <2>2. /\ cur'[c].from = c /\ cur'[c].seq = op[c] + 1 /\ cur'[c].ask = ask
    BY <2>1 DEF Envelope
  <2>3. QED
    BY <2>1, <2>2
<1>5. QED
  BY <1>1, <1>2, <1>3, <1>4 DEF Quiet, Alone, Opens

LEMMA ReturnLeaves ==
  ASSUME TypeInv, NEW c \in Clients, NEW value, pc[c] # "idle", Return(c, value),
         UNCHANGED <<op, mailbox, sent, log>>,
         cur' = cur \/ cur' = [cur EXCEPT ![c] = NoMessage],
         reply' = reply \/ reply' = [reply EXCEPT ![c][op[c]] = "empty"]
  PROVE  Quiet(c) /\ Leaves(c, value)
<1>1. /\ pc \in [Procs -> ClientLabels \cup LoopLabels \cup {"unborn", "exited"}]
      /\ cur \in [Procs -> Messages \cup {NoMessage}]
      /\ result \in [Clients -> [Calls -> Results]]
      /\ reply \in [Clients -> [Calls -> {"empty"} \cup Answers]]
      /\ op[c] \in Calls
      /\ c \in Procs /\ Clients \subseteq Procs /\ Loops \subseteq Procs /\ c \notin Loops
  BY ActorAssumption DEF ActorAssumption, TypeInv, TypeOK, HandInv, Procs
<1>2. /\ pc'[c] = "idle"
      /\ \A p \in Procs : p # c => pc'[p] = pc[p] /\ cur'[p] = cur[p]
  BY <1>1 DEF Return
<1>3. /\ result'[c][op[c]] = value
      /\ \A k \in Calls : k # op[c] => result'[c][k] = result[c][k]
      /\ \A d \in Clients : d # c => result'[d] = result[d]
  BY <1>1 DEF Return
<1>4. \A d \in Clients, k \in Calls : reply'[d][k] # "empty" => reply'[d][k] = reply[d][k]
  BY <1>1
<1>5. QED
  BY <1>1, <1>2, <1>3, <1>4 DEF Quiet, Alone, Leaves

LEMMA GotoMoves ==
  ASSUME TypeInv, NEW c \in Clients, NEW from, NEW to, Goto(c, from, to),
         \/ <<from, to>> \in {<<"send", "sendPush">>, <<"ask", "askPush">>}
         \/ <<from, to>> \in {<<"start", "go">>, <<"stop", "stopped">>},
         UNCHANGED <<op, result, msgVars>>
  PROVE  Quiet(c) /\ Moves(c)
<1>1. /\ pc \in [Procs -> ClientLabels \cup LoopLabels \cup {"unborn", "exited"}]
      /\ c \in Procs /\ Clients \subseteq Procs /\ Loops \subseteq Procs /\ c \notin Loops
  BY ActorAssumption DEF ActorAssumption, TypeInv, TypeOK, Procs
<1>2. pc[c] = from /\ pc'[c] = to /\ \A p \in Procs : p # c => pc'[p] = pc[p]
  BY <1>1 DEF Goto
<1>3. QED
  BY <1>1, <1>2 DEF Quiet, Alone, Moves, msgVars

LEMMA GoLeaves ==
  ASSUME TypeInv, NEW c \in Clients, StartLoop(c)
  PROVE  Quiet(c) /\ Leaves(c, "done")
<1>1. /\ pc \in [Procs -> ClientLabels \cup LoopLabels \cup {"unborn", "exited"}]
      /\ result \in [Clients -> [Calls -> Results]]
      /\ op[c] \in Calls
      /\ c \in Procs /\ Clients \subseteq Procs /\ Loops \subseteq Procs
      /\ Clients \cap Loops = {}
  BY ActorAssumption DEF ActorAssumption, TypeInv, TypeOK, HandInv, Procs, StartLoop
<1>2. PICK l \in Loops :
        pc[l] = "unborn" /\ pc' = [pc EXCEPT ![c] = "idle", ![l] = "select"]
  BY DEF StartLoop
<1>3. /\ pc[c] = "go" /\ pc'[c] = "idle"
      /\ \A d \in Clients : d # c => pc'[d] = pc[d]
      /\ \A k \in Loops : pc'[k] \in InLoop <=> pc[k] \in InLoop
  BY <1>1, <1>2 DEF StartLoop, InLoop
<1>4. /\ result'[c][op[c]] = "done"
      /\ \A k \in Calls : k # op[c] => result'[c][k] = result[c][k]
      /\ \A d \in Clients : d # c => result'[d] = result[d]
  BY <1>1 DEF StartLoop
<1>5. UNCHANGED <<op, mailbox, cur, found, reply, sent, log>>
  BY DEF StartLoop, msgVars
<1>6. QED
  BY <1>1, <1>3, <1>4, <1>5 DEF Quiet, Alone, Leaves

------------------------------------------------------------------------------
(* MessageInv is inductive                                                 *)

LEMMA MessageShapes ==
  ASSUME TypeInv
  PROVE  /\ mailbox \in Seq(Messages) /\ sent \in Seq(Messages) /\ log \in Seq(Messages)
         /\ pc \in [Procs -> ClientLabels \cup LoopLabels \cup {"unborn", "exited"}]
         /\ cur \in [Procs -> Messages \cup {NoMessage}]
         /\ op \in [Clients -> 0..MaxOps]
         /\ reply \in [Clients -> [Calls -> {"empty"} \cup Answers]]
         /\ result \in [Clients -> [Calls -> Results]]
         /\ Clients \subseteq Procs /\ Loops \subseteq Procs /\ Clients \cap Loops = {}
         /\ MaxOps \in Nat /\ Calls = 1..MaxOps
         /\ \A m \in Messages : m.from \in Clients /\ m.seq \in Calls /\ m.ask \in BOOLEAN
         /\ \A i \in DOMAIN sent : sent[i] \in Messages
         /\ \A i \in DOMAIN log : log[i] \in Messages
<1>1. /\ mailbox \in Seq(Messages) /\ sent \in Seq(Messages) /\ log \in Seq(Messages)
      /\ pc \in [Procs -> ClientLabels \cup LoopLabels \cup {"unborn", "exited"}]
      /\ cur \in [Procs -> Messages \cup {NoMessage}]
      /\ op \in [Clients -> 0..MaxOps]
      /\ reply \in [Clients -> [Calls -> {"empty"} \cup Answers]]
      /\ result \in [Clients -> [Calls -> Results]]
  BY DEF TypeInv, TypeOK
<1>2. /\ Clients \subseteq Procs /\ Loops \subseteq Procs /\ Clients \cap Loops = {}
      /\ MaxOps \in Nat /\ Calls = 1..MaxOps
  BY ActorAssumption DEF ActorAssumption, Procs, Calls
<1>3. \A m \in Messages : m.from \in Clients /\ m.seq \in Calls /\ m.ask \in BOOLEAN
  BY DEF Messages
<1>4. \A q \in Seq(Messages) : \A i \in DOMAIN q : q[i] \in Messages
  OBVIOUS
<1>5. QED
  BY <1>1, <1>2, <1>3, <1>4, Zenon

\* Steps of a client that send nothing.
LEMMA QuietKeeps ==
  ASSUME TypeInv, MessageInv, NEW c \in Clients, Quiet(c),
         Opens(c) \/ Moves(c) \/ \E value : Leaves(c, value)
  PROVE  MessageInv'
<1>1. /\ op[c] \in Nat
      /\ \A d \in Clients : op[d] \in Nat
      /\ \A k \in Calls : k \in Nat
      /\ \A i \in DOMAIN sent : sent[i].from \in Clients /\ sent[i].seq \in Calls
      /\ pc[c] # "idle" => op[c] \in Calls
  BY MessageShapes DEF TypeInv, HandInv
<1>2. /\ \A d \in Clients : d # c =>
           pc'[d] = pc[d] /\ op'[d] = op[d] /\ cur'[d] = cur[d] /\ result'[d] = result[d]
      /\ \A l \in Loops : cur'[l] = cur[l] /\ (pc'[l] \in InLoop <=> pc[l] \in InLoop)
      /\ sent' = sent /\ log' = log /\ mailbox' = mailbox
  BY DEF Quiet, Alone
<1>3. CallsPending'
  <2>1. CASE Opens(c)
    BY <1>1, <1>2, <2>1 DEF MessageInv, CallsPending, Opens
  <2>2. CASE Moves(c)
    BY <1>1, <1>2, <2>2 DEF MessageInv, CallsPending, Moves
  <2>3. ASSUME NEW value, Leaves(c, value) PROVE CallsPending'
    BY <1>1, <1>2, <2>3 DEF MessageInv, CallsPending, Leaves
  <2>4. QED
    BY <2>1, <2>2, <2>3
<1>4. Letters'
  <2>1. CASE Opens(c)
    BY <1>2, <2>1 DEF MessageInv, Letters, Posting, Opens
  <2>2. CASE Moves(c)
    BY <1>2, <2>2 DEF MessageInv, Letters, Posting, Moves
  <2>3. ASSUME NEW value, Leaves(c, value) PROVE Letters'
    BY <1>2, <2>3 DEF MessageInv, Letters, Posting, Leaves
  <2>4. QED
    BY <2>1, <2>2, <2>3
<1>5. SentBy'
  <2>1. CASE Opens(c)
    BY <1>1, <1>2, <2>1 DEF MessageInv, SentBy, Opens
  <2>2. CASE Moves(c)
    BY <1>1, <1>2, <2>2 DEF MessageInv, SentBy, Moves
  <2>3. ASSUME NEW value, Leaves(c, value) PROVE SentBy'
    BY <1>1, <1>2, <2>3 DEF MessageInv, SentBy, Leaves
  <2>4. QED
    BY <2>1, <2>2, <2>3
<1>6. SentOnce' /\ Placed' /\ HandsApart'
  BY <1>2 DEF MessageInv, SentOnce, Placed, Taken, HandsApart
<1>7. AnswersLogged'
  BY <1>2 DEF MessageInv, AnswersLogged, Quiet
<1>8. QED
  BY <1>3, <1>4, <1>5, <1>6, <1>7 DEF MessageInv

\* A message is accepted: it is new, and comes last in the mailbox and in sent.
LEMMA AcceptFacts ==
  ASSUME TypeInv, NEW c \in Clients, SendPush(c) \/ AskPush(c)
  PROVE  /\ Alone(c) /\ UNCHANGED <<op, reply, log, cancelled>>
         /\ cur[c] \in Messages /\ op[c] \in Calls
         /\ sent' = Append(sent, cur[c]) /\ mailbox' = Append(mailbox, cur[c])
         /\ \/ /\ pc[c] = "sendPush" /\ pc'[c] = "idle"
               /\ result' = [result EXCEPT ![c][op[c]] = "ok"]
            \/ /\ pc[c] = "askPush" /\ pc'[c] = "askWait"
               /\ cur'[c] = cur[c] /\ result' = result
<1>1. /\ pc \in [Procs -> ClientLabels \cup LoopLabels \cup {"unborn", "exited"}]
      /\ cur \in [Procs -> Messages \cup {NoMessage}]
      /\ result \in [Clients -> [Calls -> Results]]
      /\ Clients \subseteq Procs /\ Loops \subseteq Procs /\ Clients \cap Loops = {}
  BY MessageShapes
<1>2. cur[c] \in Messages /\ op[c] \in Calls
  BY DEF SendPush, AskPush, Goto, TypeInv, HandInv, InCall
<1>3. CASE SendPush(c)
  BY <1>1, <1>2, <1>3 DEF SendPush, Return, Enqueue, Alone, lockVars
<1>4. CASE AskPush(c)
  BY <1>1, <1>2, <1>4 DEF AskPush, Goto, Enqueue, Alone, lockVars
<1>5. QED
  BY <1>3, <1>4

LEMMA AcceptKeeps ==
  ASSUME TypeInv, MessageInv, NEW c \in Clients, SendPush(c) \/ AskPush(c)
  PROVE  MessageInv'
<1>1. /\ Alone(c) /\ UNCHANGED <<op, reply, log>>
      /\ cur[c] \in Messages /\ op[c] \in Calls
      /\ sent' = Append(sent, cur[c]) /\ mailbox' = Append(mailbox, cur[c])
  BY AcceptFacts
<1>2. \/ /\ pc[c] = "sendPush" /\ pc'[c] = "idle"
         /\ result' = [result EXCEPT ![c][op[c]] = "ok"]
      \/ /\ pc[c] = "askPush" /\ pc'[c] = "askWait"
         /\ cur'[c] = cur[c] /\ result' = result
  BY AcceptFacts
<1>3. /\ sent \in Seq(Messages) /\ mailbox \in Seq(Messages)
      /\ \A d \in Clients : op[d] \in Nat
      /\ \A k \in Calls : k \in Nat
      /\ \A i \in DOMAIN sent : sent[i].from \in Clients /\ sent[i].seq \in Calls
      /\ result \in [Clients -> [Calls -> Results]]
  BY MessageShapes
<1>4. cur[c].from = c /\ cur[c].seq = op[c]
  BY <1>2 DEF MessageInv, Letters, Posting
<1>5. /\ DOMAIN sent = 1..Len(sent) /\ DOMAIN sent' = 1..(Len(sent) + 1) /\ Len(sent) \in Nat
      /\ \A i \in 1..Len(sent) : sent'[i] = sent[i]
      /\ sent'[Len(sent) + 1] = cur[c]
      /\ Len(sent') = Len(sent) + 1
  BY <1>1, <1>3
<1>6. \A i \in 1..Len(sent) : sent[i].from = c => sent[i].seq < op[c]
  <2> SUFFICES ASSUME NEW i \in 1..Len(sent), sent[i].from = c PROVE sent[i].seq < op[c]
    OBVIOUS
  <2>1. sent[i].seq <= op[c] /\ sent[i].seq # op[c]
    BY <1>2, <1>5 DEF MessageInv, SentBy
  <2>2. sent[i].seq \in Nat /\ op[c] \in Nat
    BY <1>3, <1>5
  <2>3. QED
    BY <2>1, <2>2
<1>7. CallsPending'
  <2> SUFFICES ASSUME NEW d \in Clients, NEW k \in Calls,
                      k > op[d] \/ (k = op[d] /\ pc'[d] # "idle")
               PROVE  result'[d][k] = "none"
    BY <1>1 DEF CallsPending
  <2>1. CASE d # c
    BY <1>1, <2>1 DEF MessageInv, CallsPending, Alone
  <2>2. CASE d = c
    <3>1. result[c][k] = "none"
      BY <1>2, <2>2 DEF MessageInv, CallsPending
    <3>2. pc'[c] = "idle" => k # op[c]
      BY <1>3, <2>2
    <3>3. QED
      BY <1>1, <1>2, <1>3, <2>2, <3>1, <3>2
  <2>3. QED
    BY <2>1, <2>2
<1>8. Letters'
  BY <1>1, <1>2 DEF MessageInv, Letters, Posting, Alone
<1>9. SentBy'
  <2>1. \A d \in Clients : d # c => pc'[d] = pc[d] /\ cur'[d] = cur[d]
    BY <1>1 DEF Alone
  <2>2. \A i \in DOMAIN sent' : LET m == sent'[i] IN
          m.seq <= op'[m.from] /\ (m.seq = op'[m.from] => pc'[m.from] \in {"idle", "askWait"})
    <3> SUFFICES ASSUME NEW i \in 1..(Len(sent) + 1)
                 PROVE  /\ sent'[i].seq <= op[sent'[i].from]
                        /\ sent'[i].seq = op[sent'[i].from] =>
                             pc'[sent'[i].from] \in {"idle", "askWait"}
      BY <1>1, <1>5
    <3>1. CASE i = Len(sent) + 1
      BY <1>2, <1>3, <1>4, <1>5, <3>1
    <3>2. CASE i \in 1..Len(sent) /\ sent[i].from = c
      <4>1. sent'[i] = sent[i] /\ sent[i].seq < op[c] /\ sent[i].seq \in Nat /\ op[c] \in Nat
        BY <1>3, <1>5, <1>6, <3>2
      <4>2. QED
        BY <3>2, <4>1
    <3>3. CASE i \in 1..Len(sent) /\ sent[i].from # c
      <4>1. /\ sent[i].seq <= op[sent[i].from]
            /\ sent[i].seq = op[sent[i].from] => pc[sent[i].from] \in {"idle", "askWait"}
        BY <1>5, <3>3 DEF MessageInv, SentBy
      <4>2. sent'[i] = sent[i] /\ pc'[sent[i].from] = pc[sent[i].from]
        BY <1>3, <1>5, <2>1, <3>3
      <4>3. QED
        BY <4>1, <4>2
    <3>4. QED
      BY <1>5, <3>1, <3>2, <3>3
  <2>3. \A d \in Clients : pc'[d] = "askWait" => \E i \in DOMAIN sent' : sent'[i] = cur'[d]
    <3>1. ASSUME NEW d \in Clients, d # c, pc[d] = "askWait"
          PROVE  \E i \in 1..Len(sent) : sent[i] = cur[d]
      BY <1>5, <3>1 DEF MessageInv, SentBy
    <3>2. pc'[c] = "askWait" => sent'[Len(sent) + 1] = cur'[c]
      BY <1>2, <1>5
    <3>3. QED
      BY <1>5, <2>1, <3>1, <3>2
  <2>4. QED
    BY <2>2, <2>3 DEF SentBy
<1>10. SentOnce'
  <2> SUFFICES ASSUME NEW i \in 1..(Len(sent) + 1), NEW j \in 1..(Len(sent) + 1),
                      sent'[i].from = sent'[j].from, sent'[i].seq = sent'[j].seq
               PROVE  i = j
    BY <1>5 DEF SentOnce
  <2>1. CASE i \in 1..Len(sent) /\ j \in 1..Len(sent)
    BY <1>5, <2>1 DEF MessageInv, SentOnce
  <2>2. CASE i \in 1..Len(sent) /\ j = Len(sent) + 1
    BY <1>3, <1>4, <1>5, <1>6, <2>2
  <2>3. CASE j \in 1..Len(sent) /\ i = Len(sent) + 1
    BY <1>3, <1>4, <1>5, <1>6, <2>3
  <2>4. QED
    BY <1>5, <2>1, <2>2, <2>3
<1>11. Taken' = Taken /\ Taken \in 0..Len(sent) /\ Taken = Len(sent) - Len(mailbox)
  BY <1>1, <1>3, <1>5 DEF MessageInv, Placed, Taken
<1>12. Placed'
  <2>1. ASSUME NEW k \in DOMAIN mailbox' PROVE mailbox'[k] = sent'[Taken + k]
    <3>1. CASE k \in 1..Len(mailbox)
      <4>1. mailbox'[k] = mailbox[k] /\ mailbox[k] = sent[Taken + k]
        BY <1>1, <1>3, <3>1 DEF MessageInv, Placed
      <4>2. Taken + k \in 1..Len(sent)
        BY <1>3, <1>11, <3>1
      <4>3. QED
        BY <1>5, <4>1, <4>2
    <3>2. CASE k = Len(mailbox) + 1
      BY <1>1, <1>3, <1>5, <1>11, <3>2
    <3>3. QED
      <4>1. DOMAIN mailbox' = 1..(Len(mailbox) + 1) /\ Len(mailbox) \in Nat
        BY <1>1, <1>3
      <4>2. k \in 1..Len(mailbox) \/ k = Len(mailbox) + 1
        BY <2>1, <4>1
      <4>3. QED
        BY <3>1, <3>2, <4>2
  <2>2. ASSUME NEW j \in DOMAIN log PROVE \E i \in 1..Taken : log[j] = sent'[i]
    BY <1>5, <1>11, <2>2 DEF MessageInv, Placed
  <2>3. QED
    BY <1>1, <1>11, <2>1, <2>2 DEF Placed
<1>13. HandsApart'
  <2>1. /\ \A l \in Loops : cur'[l] = cur[l] /\ (pc'[l] \in InLoop <=> pc[l] \in InLoop)
        /\ \A i \in 1..Taken : sent'[i] = sent[i]
    BY <1>1, <1>5, <1>11 DEF Alone
  <2>2. QED
    BY <1>1, <1>11, <2>1 DEF MessageInv, HandsApart
<1>14. AnswersLogged'
  BY <1>1 DEF MessageInv, AnswersLogged
<1>15. QED
  BY <1>7, <1>8, <1>9, <1>10, <1>12, <1>13, <1>14 DEF MessageInv

\* A step of a loop leaves the calls, and what was sent, alone.
LoopAlone(l) ==
  /\ \A c \in Clients : pc'[c] = pc[c] /\ cur'[c] = cur[c]
  /\ \A k \in Loops : k # l => pc'[k] = pc[k] /\ cur'[k] = cur[k]
  /\ UNCHANGED <<op, result, sent, cancelled>>

LEMMA LoopAloneKeeps ==
  ASSUME TypeInv, MessageInv, NEW l \in Loops, LoopAlone(l)
  PROVE  CallsPending' /\ Letters' /\ SentBy' /\ SentOnce'
<1>1. CallsPending' /\ Letters'
  BY DEF LoopAlone, MessageInv, CallsPending, Letters, Posting
<1>2. SentBy'
  <2>1. sent' = sent /\ op' = op /\ \A c \in Clients : pc'[c] = pc[c] /\ cur'[c] = cur[c]
    BY DEF LoopAlone
  <2>2. \A i \in DOMAIN sent : sent[i].from \in Clients
    BY MessageShapes
  <2>3. QED
    BY <2>1, <2>2 DEF MessageInv, SentBy
<1>3. SentOnce'
  BY DEF LoopAlone, MessageInv, SentOnce
<1>4. QED
  BY <1>1, <1>2, <1>3

\* LoopExit, ProcessLock and ProcessLookup.
LEMMA LoopMovesKeeps ==
  ASSUME TypeInv, MessageInv, NEW l \in Loops, LoopAlone(l),
         UNCHANGED <<mailbox, cur, reply, log>>,
         pc'[l] \in InLoop => pc[l] \in InLoop
  PROVE  MessageInv'
<1>1. CallsPending' /\ Letters' /\ SentBy' /\ SentOnce'
  BY LoopAloneKeeps
<1>2. /\ sent' = sent /\ mailbox' = mailbox /\ log' = log /\ cur' = cur /\ reply' = reply
      /\ \A k \in Loops : pc'[k] \in InLoop => pc[k] \in InLoop
  BY DEF LoopAlone
<1>3. Placed' /\ HandsApart' /\ AnswersLogged'
  BY <1>2 DEF MessageInv, Placed, Taken, HandsApart, AnswersLogged
<1>4. QED
  BY <1>1, <1>3 DEF MessageInv

LEMMA TakeFacts ==
  ASSUME TypeInv, MessageInv, NEW l \in Loops, LoopTake(l)
  PROVE  /\ LoopAlone(l) /\ UNCHANGED <<reply, log>>
         /\ pc[l] = "select" /\ pc'[l] = "process"
         /\ Taken \in 0..(Len(sent) - 1) /\ Taken' = Taken + 1
         /\ cur'[l] = sent[Taken + 1]
         /\ Len(mailbox') = Len(mailbox) - 1
         /\ \A k \in DOMAIN mailbox' : mailbox'[k] = sent[Taken + 1 + k]
<1>1. /\ pc \in [Procs -> ClientLabels \cup LoopLabels \cup {"unborn", "exited"}]
      /\ cur \in [Procs -> Messages \cup {NoMessage}]
      /\ mailbox \in Seq(Messages) /\ sent \in Seq(Messages)
      /\ Clients \subseteq Procs /\ Loops \subseteq Procs /\ Clients \cap Loops = {}
  BY MessageShapes
<1>2. /\ pc[l] = "select" /\ pc' = [pc EXCEPT ![l] = "process"]
      /\ mailbox # <<>> /\ mailbox' = Tail(mailbox)
      /\ cur' = [cur EXCEPT ![l] = Head(mailbox)]
      /\ UNCHANGED <<cancelled, op, reply, result, sent, log>>
  BY DEF LoopTake, Goto, lockVars
<1>3. LoopAlone(l)
  BY <1>1, <1>2 DEF LoopAlone
<1>4. /\ Len(mailbox) \in Nat \ {0} /\ Len(mailbox') = Len(mailbox) - 1
      /\ Head(mailbox) = mailbox[1]
      /\ \A k \in 1..(Len(mailbox) - 1) : mailbox'[k] = mailbox[k + 1]
      /\ DOMAIN mailbox' = 1..(Len(mailbox) - 1) /\ DOMAIN mailbox = 1..Len(mailbox)
  BY <1>1, <1>2
<1>5. /\ Taken = Len(sent) - Len(mailbox) /\ Taken \in Nat /\ Len(sent) \in Nat
      /\ \A k \in 1..Len(mailbox) : mailbox[k] = sent[Taken + k]
  BY <1>1, <1>4 DEF MessageInv, Placed, Taken
<1>6. Taken \in 0..(Len(sent) - 1) /\ Taken' = Taken + 1
  BY <1>2, <1>4, <1>5 DEF Taken
<1>7. cur'[l] = sent[Taken + 1]
  BY <1>1, <1>2, <1>4, <1>5
<1>8. \A k \in DOMAIN mailbox' : mailbox'[k] = sent[Taken + 1 + k]
  <2> SUFFICES ASSUME NEW k \in 1..(Len(mailbox) - 1) PROVE mailbox'[k] = sent[Taken + 1 + k]
    BY <1>4
  <2>1. mailbox'[k] = mailbox[k + 1] /\ k + 1 \in 1..Len(mailbox)
    BY <1>4
  <2>2. mailbox[k + 1] = sent[Taken + (k + 1)] /\ Taken + (k + 1) = Taken + 1 + k
    BY <1>5, <2>1
  <2>3. QED
    BY <2>1, <2>2
<1>9. QED
  BY <1>1, <1>2, <1>3, <1>4, <1>6, <1>7, <1>8

LEMMA TakeKeeps ==
  ASSUME TypeInv, MessageInv, NEW l \in Loops, LoopTake(l)
  PROVE  MessageInv'
<1>1. /\ LoopAlone(l) /\ reply' = reply /\ log' = log /\ sent' = sent
      /\ pc[l] = "select" /\ pc'[l] = "process"
      /\ Taken \in 0..(Len(sent) - 1) /\ Taken' = Taken + 1
      /\ cur'[l] = sent[Taken + 1]
      /\ \A k \in DOMAIN mailbox' : mailbox'[k] = sent[Taken + 1 + k]
  BY TakeFacts DEF LoopAlone
<1>2. sent \in Seq(Messages) /\ DOMAIN sent = 1..Len(sent) /\ Len(sent) \in Nat
  BY MessageShapes
<1>3. CallsPending' /\ Letters' /\ SentBy' /\ SentOnce'
  BY <1>1, LoopAloneKeeps
<1>4. 1..Taken \subseteq 1..(Taken + 1)
  BY <1>1
<1>5. Placed'
  <2>1. ASSUME NEW j \in DOMAIN log PROVE \E i \in 1..(Taken + 1) : log[j] = sent[i]
    BY <1>4 DEF MessageInv, Placed
  <2>2. QED
    BY <1>1, <2>1 DEF Placed
<1>6. \A i \in 1..Taken : sent[i] # sent[Taken + 1]
  BY <1>1, <1>2 DEF MessageInv, SentOnce
<1>7. HandsApart'
  <2>1. \A k \in Loops : k # l => pc'[k] = pc[k] /\ cur'[k] = cur[k]
    BY <1>1 DEF LoopAlone
  <2>2. \A k \in Loops : k # l /\ pc[k] \in InLoop =>
          /\ \E i \in 1..Taken : cur[k] = sent[i]
          /\ \A j \in DOMAIN log : log[j] # cur[k]
    BY DEF MessageInv, HandsApart
  <2>3. \A j \in DOMAIN log : log[j] # sent[Taken + 1]
    BY <1>6 DEF MessageInv, Placed
  <2>4. ASSUME NEW k \in Loops, pc'[k] \in InLoop
        PROVE  /\ \E i \in 1..(Taken + 1) : cur'[k] = sent[i]
               /\ \A j \in DOMAIN log : log[j] # cur'[k]
    <3>1. CASE k = l
      BY <1>1, <2>3, <3>1
    <3>2. CASE k # l
      BY <1>4, <2>1, <2>2, <2>4, <3>2
    <3>3. QED
      BY <3>1, <3>2
  <2>5. ASSUME NEW k \in Loops, pc'[k] \in InLoop, NEW h \in Loops, pc'[h] \in InLoop,
               cur'[k] = cur'[h]
        PROVE  k = h
    <3>1. CASE k # l /\ h # l
      BY <2>1, <2>5, <3>1 DEF MessageInv, HandsApart
    <3>2. CASE k = l /\ h # l
      BY <1>1, <1>6, <2>1, <2>2, <2>5, <3>2
    <3>3. CASE k # l /\ h = l
      BY <1>1, <1>6, <2>1, <2>2, <2>5, <3>3
    <3>4. QED
      BY <3>1, <3>2, <3>3
  <2>6. QED
    BY <1>1, <2>4, <2>5 DEF HandsApart
<1>8. AnswersLogged'
  BY <1>1 DEF MessageInv, AnswersLogged
<1>9. QED
  BY <1>3, <1>5, <1>7, <1>8 DEF MessageInv

LEMMA FinishFacts ==
  ASSUME TypeInv, NEW l \in Loops, ProcessReply(l)
  PROVE  /\ LoopAlone(l) /\ UNCHANGED mailbox
         /\ pc[l] = "handle" /\ pc'[l] = "select"
         /\ cur[l] \in Messages /\ log' = Append(log, cur[l])
         /\ reply' = reply \/ (cur[l].ask /\ \E v : reply' = [reply EXCEPT ![cur[l].from][cur[l].seq] = v])
<1>1. /\ pc \in [Procs -> ClientLabels \cup LoopLabels \cup {"unborn", "exited"}]
      /\ cur \in [Procs -> Messages \cup {NoMessage}]
      /\ Clients \subseteq Procs /\ Loops \subseteq Procs /\ Clients \cap Loops = {}
  BY MessageShapes
<1>2. /\ pc[l] = "handle" /\ pc' = [pc EXCEPT ![l] = "select"]
      /\ cur' = [cur EXCEPT ![l] = NoMessage]
      /\ log' = Append(log, cur[l])
      /\ UNCHANGED <<cancelled, op, mailbox, result, sent>>
  BY DEF ProcessReply, Goto, lockVars
<1>3. cur[l] \in Messages
  BY <1>2 DEF TypeInv, HandInv, InLoop
<1>4. LoopAlone(l) /\ pc'[l] = "select"
  BY <1>1, <1>2 DEF LoopAlone
<1>5. reply' = reply \/ (cur[l].ask /\ \E v : reply' = [reply EXCEPT ![cur[l].from][cur[l].seq] = v])
  BY DEF ProcessReply
<1>6. QED
  BY <1>2, <1>3, <1>4, <1>5

LEMMA FinishKeeps ==
  ASSUME TypeInv, MessageInv, NEW l \in Loops, ProcessReply(l)
  PROVE  MessageInv'
<1>1. /\ LoopAlone(l) /\ mailbox' = mailbox /\ sent' = sent
      /\ pc[l] = "handle" /\ pc'[l] = "select"
      /\ cur[l] \in Messages /\ log' = Append(log, cur[l])
  BY FinishFacts DEF LoopAlone
<1>2. reply' = reply \/ (cur[l].ask /\ \E v : reply' = [reply EXCEPT ![cur[l].from][cur[l].seq] = v])
  BY FinishFacts
<1>3. /\ log \in Seq(Messages)
      /\ reply \in [Clients -> [Calls -> {"empty"} \cup Answers]]
      /\ cur[l].from \in Clients /\ cur[l].seq \in Calls
  BY <1>1, MessageShapes
<1>4. /\ DOMAIN log = 1..Len(log) /\ Len(log) \in Nat /\ DOMAIN log' = 1..(Len(log) + 1)
      /\ \A j \in 1..Len(log) : log'[j] = log[j]
      /\ log'[Len(log) + 1] = cur[l]
      /\ \A j \in 1..(Len(log) + 1) : j \in 1..Len(log) \/ j = Len(log) + 1
  BY <1>1, <1>3
<1>5. CallsPending' /\ Letters' /\ SentBy' /\ SentOnce'
  BY <1>1, LoopAloneKeeps
<1>6. /\ \E i \in 1..Taken : cur[l] = sent[i]
      /\ \A k \in Loops : pc[k] \in InLoop /\ cur[k] = cur[l] => k = l
  BY <1>1 DEF MessageInv, HandsApart, InLoop
<1>7. Taken' = Taken
  BY <1>1 DEF Taken
<1>8. Placed'
  <2>1. ASSUME NEW j \in 1..(Len(log) + 1) PROVE \E i \in 1..Taken : log'[j] = sent[i]
    <3>1. CASE j \in 1..Len(log)
      BY <1>4, <3>1 DEF MessageInv, Placed
    <3>2. QED
      BY <1>4, <1>6, <3>1
  <2>2. QED
    BY <1>1, <1>4, <1>7, <2>1 DEF MessageInv, Placed
<1>9. HandsApart'
  <2>1. \A k \in Loops : pc'[k] \in InLoop => k # l
    BY <1>1 DEF InLoop
  <2>2. \A k \in Loops : k # l => pc'[k] = pc[k] /\ cur'[k] = cur[k]
    BY <1>1 DEF LoopAlone
  <2>3. ASSUME NEW k \in Loops, k # l, pc[k] \in InLoop, NEW j \in 1..(Len(log) + 1)
        PROVE  log'[j] # cur[k]
    <3>1. CASE j \in 1..Len(log)
      BY <1>4, <2>3, <3>1 DEF MessageInv, HandsApart
    <3>2. QED
      BY <1>4, <1>6, <2>3, <3>1
  <2>4. QED
    BY <1>1, <1>4, <1>7, <2>1, <2>2, <2>3 DEF MessageInv, HandsApart
<1>10. AnswersLogged'
  <2> SUFFICES ASSUME NEW c \in Clients, NEW k \in Calls, reply'[c][k] # "empty"
               PROVE  \E j \in DOMAIN log' : log'[j].from = c /\ log'[j].seq = k /\ log'[j].ask
    BY DEF AnswersLogged
  <2>1. CASE reply[c][k] # "empty"
    BY <1>4, <2>1 DEF MessageInv, AnswersLogged
  <2>2. CASE reply[c][k] = "empty"
    <3>1. PICK v : cur[l].ask /\ reply' = [reply EXCEPT ![cur[l].from][cur[l].seq] = v]
      BY <1>2, <2>2
    <3>2. c # cur[l].from => reply'[c] = reply[c]
      BY <1>3, <3>1
    <3>3. c = cur[l].from /\ k # cur[l].seq => reply'[c][k] = reply[c][k]
      BY <1>3, <3>1
    <3>4. QED
      BY <1>4, <2>2, <3>1, <3>2, <3>3
  <2>3. QED
    BY <2>1, <2>2
<1>11. QED
  BY <1>5, <1>8, <1>9, <1>10 DEF MessageInv

\* A step in which a call returns and sends nothing.
Ends(c, value) ==
  /\ Quiet(c) /\ Leaves(c, value)
  /\ result' = [result EXCEPT ![c][op[c]] = value]
  /\ cancelled' = cancelled

LEMMA BeginSteps ==
  ASSUME TypeInv, NEW c \in Clients, BeginCall(c)
  PROVE  Quiet(c) /\ Opens(c) /\ result' = result /\ (cancelled' = cancelled \/ cancelled' = TRUE)
<1>1. CASE StartLock(c)
  BY <1>1, BeginOpens DEF StartLock, lockVars, msgVars
<1>2. CASE StopCancel(c)
  BY <1>2, BeginOpens DEF StopCancel, msgVars
<1>3. ASSUME NEW t \in Types, OnLock(c, t)
      PROVE  Quiet(c) /\ Opens(c) /\ result' = result /\ cancelled' = cancelled
  <2>1. /\ Begin(c, "On", "on")
        /\ cur' = [cur EXCEPT ![c] = Envelope(c, t, FALSE)]
        /\ UNCHANGED <<mailbox, reply, result, sent, log, cancelled>>
    BY <1>3 DEF OnLock, lockVars
  <2>2. QED
    BY <2>1, BeginOpens
<1>4. ASSUME NEW t \in Types, SendLock(c, t)
      PROVE  Quiet(c) /\ Opens(c) /\ result' = result /\ cancelled' = cancelled
  <2>1. /\ Begin(c, "Send", "send")
        /\ cur' = [cur EXCEPT ![c] = Envelope(c, t, FALSE)]
        /\ UNCHANGED <<mailbox, reply, result, sent, log, cancelled>>
    BY <1>4 DEF SendLock, Post, lockVars
  <2>2. QED
    BY <2>1, BeginOpens
<1>5. ASSUME NEW t \in Types, AskLock(c, t)
      PROVE  Quiet(c) /\ Opens(c) /\ result' = result /\ cancelled' = cancelled
  <2>1. /\ Begin(c, "Ask", "ask")
        /\ cur' = [cur EXCEPT ![c] = Envelope(c, t, TRUE)]
        /\ UNCHANGED <<mailbox, reply, result, sent, log, cancelled>>
    BY <1>5 DEF AskLock, Post, lockVars
  <2>2. QED
    BY <2>1, BeginOpens
<1>6. QED
  BY <1>1, <1>2, <1>3, <1>4, <1>5 DEF BeginCall

LEMMA QuietSteps ==
  ASSUME TypeInv, NEW c \in Clients,
         \/ StartBody(c) \/ StartLoop(c) \/ OnBody(c) \/ SendCheck(c) \/ AskCheck(c)
         \/ AskStopped(c) \/ AskAnswered(c) \/ StopLock(c) \/ StopBody(c)
  PROVE  \/ Quiet(c) /\ Moves(c) /\ result' = result /\ cancelled' = cancelled
         \/ pc[c] \notin {"idle", "askWait"} /\ Ends(c, "done")
         \/ pc[c] \notin {"idle", "askWait"} /\ Ends(c, "notRunning")
         \/ pc[c] = "askWait" /\ cancelled /\ Ends(c, "stopped")
         \/ pc[c] = "askWait" /\ reply[c][op[c]] # "empty" /\ Ends(c, reply[c][op[c]])
<1>1. ASSUME NEW value, pc[c] # "idle", Return(c, value),
             UNCHANGED <<op, mailbox, sent, log, cancelled>>,
             cur' = cur \/ cur' = [cur EXCEPT ![c] = NoMessage],
             reply' = reply \/ reply' = [reply EXCEPT ![c][op[c]] = "empty"]
      PROVE  Ends(c, value)
  BY <1>1, ReturnLeaves DEF Ends, Return
<1>2. CASE StartBody(c)
  <2>1. CASE running
    BY <1>1, <1>2, <2>1 DEF StartBody, msgVars
  <2>2. CASE ~running
    <3>1. Goto(c, "start", "go") /\ UNCHANGED <<op, result, msgVars>> /\ cancelled' = cancelled
      BY <1>2, <2>2 DEF StartBody
    <3>2. QED
      BY <3>1, GotoMoves
  <2>3. QED
    BY <2>1, <2>2
<1>3. CASE StartLoop(c)
  BY <1>3, GoLeaves DEF StartLoop, Ends, lockVars
<1>4. CASE OnBody(c)
  BY <1>1, <1>4 DEF OnBody
<1>5. CASE SendCheck(c) /\ Refuse(c)
  BY <1>1, <1>5 DEF SendCheck, Refuse, lockVars
<1>6. CASE SendCheck(c) /\ ~Refuse(c)
  <2>1. Goto(c, "send", "sendPush") /\ UNCHANGED <<op, result, msgVars>> /\ cancelled' = cancelled
    BY <1>6 DEF SendCheck, lockVars
  <2>2. QED
    BY <2>1, GotoMoves
<1>7. CASE AskCheck(c) /\ Refuse(c)
  BY <1>1, <1>7 DEF AskCheck, Refuse, lockVars
<1>8. CASE AskCheck(c) /\ ~Refuse(c)
  <2>1. Goto(c, "ask", "askPush") /\ UNCHANGED <<op, result, msgVars>> /\ cancelled' = cancelled
    BY <1>8 DEF AskCheck, lockVars
  <2>2. QED
    BY <2>1, GotoMoves
<1>9. CASE AskStopped(c)
  BY <1>1, <1>9 DEF AskStopped, lockVars
<1>10. CASE AskAnswered(c)
  BY <1>1, <1>10 DEF AskAnswered, lockVars
<1>11. CASE StopLock(c)
  <2>1. Goto(c, "stop", "stopped") /\ UNCHANGED <<op, result, msgVars>> /\ cancelled' = cancelled
    BY <1>11 DEF StopLock, lockVars
  <2>2. QED
    BY <2>1, GotoMoves
<1>12. CASE StopBody(c)
  BY <1>1, <1>12 DEF StopBody, msgVars
<1>13. QED
  BY <1>2, <1>3, <1>4, <1>5, <1>6, <1>7, <1>8, <1>9, <1>10, <1>11, <1>12

\* LoopExit, ProcessLock and ProcessLookup touch no message.
LEMMA LoopSteps ==
  ASSUME TypeInv, NEW l \in Loops, LoopExit(l) \/ ProcessLock(l) \/ ProcessLookup(l)
  PROVE  /\ LoopAlone(l) /\ UNCHANGED <<mailbox, cur, reply, log>>
         /\ pc'[l] \in InLoop => pc[l] \in InLoop
<1>1. /\ pc \in [Procs -> ClientLabels \cup LoopLabels \cup {"unborn", "exited"}]
      /\ Clients \subseteq Procs /\ Loops \subseteq Procs /\ Clients \cap Loops = {}
  BY MessageShapes
<1>2. QED
  BY <1>1 DEF LoopExit, ProcessLock, ProcessLookup, Goto, LoopAlone, InLoop, lockVars, msgVars

LEMMA MessageStep == TypeInv /\ MessageInv /\ [Next]_vars => MessageInv'
<1> SUFFICES ASSUME TypeInv, MessageInv, [Next]_vars PROVE MessageInv'
  OBVIOUS
<1>1. ASSUME NEW c \in Clients, BeginCall(c) PROVE MessageInv'
  BY <1>1, BeginSteps, QuietKeeps
<1>2. ASSUME NEW c \in Clients, SendPush(c) \/ AskPush(c) PROVE MessageInv'
  BY <1>2, AcceptKeeps
<1>3. ASSUME NEW c \in Clients,
             \/ StartBody(c) \/ StartLoop(c) \/ OnBody(c) \/ SendCheck(c) \/ AskCheck(c)
             \/ AskStopped(c) \/ AskAnswered(c) \/ StopLock(c) \/ StopBody(c)
      PROVE  MessageInv'
  <2>1. Quiet(c) /\ (Moves(c) \/ \E value : Leaves(c, value))
    BY <1>3, QuietSteps DEF Ends
  <2>2. QED
    BY <2>1, QuietKeeps
<1>4. ASSUME NEW l \in Loops, LoopTake(l) PROVE MessageInv'
  BY <1>4, TakeKeeps
<1>5. ASSUME NEW l \in Loops, ProcessReply(l) PROVE MessageInv'
  BY <1>5, FinishKeeps
<1>6. ASSUME NEW l \in Loops, LoopExit(l) \/ ProcessLock(l) \/ ProcessLookup(l)
      PROVE  MessageInv'
  BY <1>6, LoopSteps, LoopMovesKeeps
<1>7. CASE UNCHANGED vars
  BY <1>7 DEF vars, MessageInv, CallsPending, Letters, Posting, SentBy, SentOnce, Placed,
     Taken, HandsApart, AnswersLogged
<1>8. QED
  BY <1>1, <1>2, <1>3, <1>4, <1>5, <1>6, <1>7 DEF Next, ClientStep, LoopStep, Finished

------------------------------------------------------------------------------
(* Every step of the actor is one of the contract, or none of its business *)

LEMMA CallsUnsent ==
  ASSUME TypeInv, MessageInv, NEW c \in Clients, pc[c] # "idle"
  PROVE  /\ op[c] \in Calls
         /\ Contract!Pending(c, op[c])
         /\ pc[c] # "askWait" => Contract!Unsent(c, op[c])
<1>1. op[c] \in Calls /\ result[c][op[c]] = "none"
  BY DEF TypeInv, HandInv, MessageInv, CallsPending
<1>2. sent \in Seq(Messages) /\ DOMAIN sent = 1..Len(sent)
  BY MessageShapes
<1>3. ASSUME pc[c] # "askWait", NEW i \in 1..Len(sent)
      PROVE  ~(sent[i].from = c /\ sent[i].seq = op[c])
  BY <1>2, <1>3 DEF MessageInv, SentBy
<1>4. QED
  BY <1>1, <1>3 DEF Contract!Pending, Contract!Unsent

\* Where the mailbox and the log do not change, nothing is taken or finished.
LEMMA QuietContract ==
  ASSUME UNCHANGED <<sent, mailbox, log>>
  PROVE  /\ sent' = sent /\ (Len(sent) - Len(mailbox))' = Len(sent) - Len(mailbox)
         /\ FinishedPositions' = FinishedPositions
BY DEF FinishedPositions

\* What was processed is known by its place among the accepted messages.
LEMMA FinishedBelow ==
  ASSUME TypeInv, MessageInv, NEW i \in 1..Len(sent), NEW j \in DOMAIN log, log[j] = sent[i]
  PROVE  i \in 1..Taken /\ i \in FinishedPositions
<1>1. /\ sent \in Seq(Messages) /\ log \in Seq(Messages) /\ mailbox \in Seq(Messages)
      /\ DOMAIN sent = 1..Len(sent) /\ DOMAIN log = 1..Len(log)
  BY MessageShapes
<1>2. PICK k \in 1..Taken : log[j] = sent[k]
  BY DEF MessageInv, Placed
<1>3. Taken \in Nat /\ k \in 1..Len(sent)
  BY <1>1, <1>2 DEF MessageInv, Placed, Taken
<1>4. k = i
  BY <1>1, <1>2, <1>3 DEF MessageInv, SentOnce
<1>5. QED
  BY <1>1, <1>2, <1>4 DEF FinishedPositions

LEMMA EndsContract ==
  ASSUME TypeInv, MessageInv, NEW c \in Clients, pc[c] # "idle",
         NEW value, Ends(c, value),
         \/ pc[c] # "askWait" /\ value \in {"done", "notRunning"}
         \/ pc[c] = "askWait" /\ cancelled /\ value = "stopped"
         \/ pc[c] = "askWait" /\ reply[c][op[c]] # "empty" /\ value = reply[c][op[c]]
  PROVE  Contract!Next
<1>1. /\ sent' = sent /\ (Len(sent) - Len(mailbox))' = Len(sent) - Len(mailbox)
      /\ FinishedPositions' = FinishedPositions /\ cancelled' = cancelled
  BY QuietContract DEF Ends, Quiet
<1>2. op[c] \in Calls /\ Contract!Returns(c, op[c], value)
  BY CallsUnsent DEF Ends, Contract!Returns
<1>3. /\ sent \in Seq(Messages) /\ log \in Seq(Messages)
      /\ DOMAIN sent = 1..Len(sent) /\ DOMAIN log = 1..Len(log)
      /\ reply \in [Clients -> [Calls -> {"empty"} \cup Answers]]
  BY MessageShapes
<1>4. CASE pc[c] # "askWait" /\ value = "done"
  <2>1. Contract!Control(c, op[c])
    BY <1>1, <1>2, <1>4, CallsUnsent DEF Contract!Control
  <2>2. QED
    BY <1>2, <2>1 DEF Contract!Next
<1>5. CASE pc[c] # "askWait" /\ value = "notRunning"
  <2>1. Contract!Refused(c, op[c])
    BY <1>1, <1>2, <1>5, CallsUnsent DEF Contract!Refused
  <2>2. QED
    BY <1>2, <2>1 DEF Contract!Next
<1>6. CASE pc[c] = "askWait" /\ cancelled /\ value = "stopped"
  <2>1. PICK i \in 1..Len(sent) : sent[i] = cur[c]
    BY <1>3, <1>6 DEF MessageInv, SentBy
  <2>2. sent[i].from = c /\ sent[i].seq = op[c] /\ sent[i].ask
    BY <1>6, <2>1 DEF MessageInv, Letters, Posting
  <2>3. Contract!Abandon(i)
    BY <1>1, <1>2, <1>6, <2>2 DEF Contract!Abandon
  <2>4. QED
    BY <2>1, <2>3 DEF Contract!Next
<1>7. CASE pc[c] = "askWait" /\ reply[c][op[c]] # "empty" /\ value = reply[c][op[c]]
  <2>1. PICK j \in DOMAIN log : log[j].from = c /\ log[j].seq = op[c] /\ log[j].ask
    BY <1>2, <1>7 DEF MessageInv, AnswersLogged
  <2>2. PICK i \in 1..Taken : log[j] = sent[i]
    BY DEF MessageInv, Placed
  <2>3. i \in 1..Len(sent)
    BY <1>3, <2>2, MessageShapes DEF MessageInv, Placed, Taken
  <2>4. i \in FinishedPositions
    BY <2>2, <2>3, FinishedBelow
  <2>5. value \in {"value", "nil"}
    BY <1>2, <1>3, <1>7 DEF Answers
  <2>6. Contract!Answer(i, value)
    BY <1>1, <1>2, <2>1, <2>2, <2>4 DEF Contract!Answer
  <2>7. QED
    BY <2>2, <2>5, <2>6 DEF Contract!Next, Taken
<1>8. QED
  BY <1>4, <1>5, <1>6, <1>7

LEMMA AcceptContract ==
  ASSUME TypeInv, MessageInv, MessageInv', NEW c \in Clients, SendPush(c) \/ AskPush(c)
  PROVE  Contract!Next
<1>1. /\ UNCHANGED <<op, reply, log, cancelled>>
      /\ cur[c] \in Messages /\ op[c] \in Calls
      /\ sent' = Append(sent, cur[c]) /\ mailbox' = Append(mailbox, cur[c])
  BY AcceptFacts
<1>2. \/ /\ pc[c] = "sendPush" /\ pc'[c] = "idle"
         /\ result' = [result EXCEPT ![c][op[c]] = "ok"]
      \/ /\ pc[c] = "askPush" /\ pc'[c] = "askWait"
         /\ cur'[c] = cur[c] /\ result' = result
  BY AcceptFacts
<1>3. /\ sent \in Seq(Messages) /\ mailbox \in Seq(Messages) /\ log \in Seq(Messages)
      /\ DOMAIN log = 1..Len(log)
  BY MessageShapes
<1>4. cur[c].from = c /\ cur[c].seq = op[c] /\ (cur[c].ask <=> pc[c] = "askPush")
  BY <1>2 DEF MessageInv, Letters, Posting
<1>5. Contract!Unsent(c, op[c]) /\ Contract!Pending(c, op[c])
  BY <1>2, CallsUnsent
<1>6. /\ Len(sent') = Len(sent) + 1 /\ Len(mailbox') = Len(mailbox) + 1
      /\ DOMAIN sent' = 1..(Len(sent) + 1) /\ Len(sent) \in Nat /\ Len(mailbox) \in Nat
      /\ \A i \in 1..Len(sent) : sent'[i] = sent[i]
      /\ Taken \in 0..Len(sent)
  BY <1>1, <1>3 DEF MessageInv, Placed, Taken
<1>7. (Len(sent) - Len(mailbox))' = Len(sent) - Len(mailbox)
  BY <1>6
<1>8. FinishedPositions' = FinishedPositions
  <2>1. ASSUME NEW j \in 1..Len(log) PROVE log[j] # sent'[Len(sent) + 1]
    <3>1. PICK i \in 1..Taken : log[j] = sent[i]
      BY <1>3 DEF MessageInv, Placed
    <3>2. i \in 1..Len(sent) /\ i # Len(sent) + 1
      BY <1>6, <3>1
    <3>3. log[j] = sent'[i] /\ sent'[i].from = sent[i].from
      BY <1>6, <3>1, <3>2
    <3>4. QED
      BY <1>6, <3>2, <3>3 DEF MessageInv, SentOnce
  <2>2. FinishedPositions' = {i \in 1..(Len(sent) + 1) : \E j \in 1..Len(log) : log[j] = sent'[i]}
    BY <1>1, <1>6 DEF FinishedPositions
  <2>3. \A i \in 1..(Len(sent) + 1) : i \in 1..Len(sent) \/ i = Len(sent) + 1
    BY <1>6
  <2>4. 1..Len(sent) \subseteq 1..(Len(sent) + 1)
    BY <1>6
  <2>5. QED
    BY <1>6, <2>1, <2>2, <2>3, <2>4 DEF FinishedPositions
<1>9. \/ cur[c].ask /\ UNCHANGED result
      \/ ~cur[c].ask /\ Contract!Returns(c, op[c], "ok")
  BY <1>2, <1>4, <1>5 DEF Contract!Returns
<1>10. Contract!Accept(cur[c])
  BY <1>1, <1>4, <1>5, <1>7, <1>8, <1>9 DEF Contract!Accept
<1>11. QED
  BY <1>1, <1>10 DEF Contract!Next

LEMMA TakeContract ==
  ASSUME TypeInv, MessageInv, NEW l \in Loops, LoopTake(l)
  PROVE  Contract!Next
<1>1. /\ log' = log /\ sent' = sent /\ result' = result /\ cancelled' = cancelled
      /\ Taken \in 0..(Len(sent) - 1) /\ Taken' = Taken + 1
  BY TakeFacts DEF LoopAlone
<1>2. FinishedPositions' = FinishedPositions
  BY <1>1 DEF FinishedPositions
<1>3. Len(sent) \in Nat
  BY MessageShapes
<1>4. Contract!Take
  BY <1>1, <1>2, <1>3 DEF Contract!Take, Taken
<1>5. QED
  BY <1>4 DEF Contract!Next

\* Until a Stop the message in hand is the first that is not processed.
LEMMA HandIsNext ==
  ASSUME TypeInv, LoopInv, CurInv, InOrder, MessageInv, ~cancelled,
         NEW l \in Loops, pc[l] \in InLoop, NEW i \in 1..Len(sent), cur[l] = sent[i]
  PROVE  1..(i - 1) \subseteq FinishedPositions
<1>1. /\ sent \in Seq(Messages) /\ log \in Seq(Messages) /\ mailbox \in Seq(Messages)
      /\ DOMAIN sent = 1..Len(sent) /\ DOMAIN log = 1..Len(log) /\ Len(log) \in Nat
  BY MessageShapes
<1>2. cur[l] # NoMessage /\ cur[l] \in Messages
  BY <1>1 DEF CurInv, TypeInv, HandInv
<1>3. InHand(cur) = <<cur[l]>>
  BY <1>2, OneInHand, InHandOne
<1>4. sent = log \o <<cur[l]>> \o mailbox
  BY <1>3 DEF InOrder
<1>5. /\ Len(log) + 1 \in 1..Len(sent)
      /\ sent[Len(log) + 1] = cur[l]
      /\ \A j \in 1..Len(log) : sent[j] = log[j]
  BY <1>1, <1>2, <1>4
<1>6. i = Len(log) + 1
  BY <1>1, <1>5 DEF MessageInv, SentOnce
<1>7. QED
  BY <1>1, <1>5, <1>6 DEF FinishedPositions

LEMMA FinishContract ==
  ASSUME TypeInv, LoopInv, CurInv, InOrder, MessageInv, NEW l \in Loops, ProcessReply(l)
  PROVE  Contract!Next
<1>1. /\ mailbox' = mailbox /\ sent' = sent /\ result' = result /\ cancelled' = cancelled
      /\ pc[l] = "handle" /\ cur[l] \in Messages /\ log' = Append(log, cur[l])
  BY FinishFacts DEF LoopAlone
<1>2. /\ log \in Seq(Messages) /\ sent \in Seq(Messages) /\ mailbox \in Seq(Messages)
      /\ DOMAIN sent = 1..Len(sent) /\ Len(log) \in Nat
  BY MessageShapes
<1>3. PICK i \in 1..Taken : cur[l] = sent[i]
  BY <1>1 DEF MessageInv, HandsApart, InLoop
<1>4. i \in 1..Len(sent)
  BY <1>2, <1>3 DEF MessageInv, Placed, Taken
<1>5. i \notin FinishedPositions
  BY <1>1, <1>2, <1>3 DEF FinishedPositions, MessageInv, HandsApart, InLoop
<1>6. cancelled \/ 1..(i - 1) \subseteq FinishedPositions
  BY <1>1, <1>3, <1>4, HandIsNext DEF InLoop
<1>7. FinishedPositions' = FinishedPositions \cup {i}
  <2>1. /\ Len(log') = Len(log) + 1 /\ log'[Len(log) + 1] = cur[l]
        /\ \A j \in 1..Len(log) : log'[j] = log[j]
        /\ \A j \in 1..(Len(log) + 1) : j \in 1..Len(log) \/ j = Len(log) + 1
        /\ 1..Len(log) \subseteq 1..(Len(log) + 1) /\ Len(log) + 1 \in 1..(Len(log) + 1)
    BY <1>1, <1>2
  <2>2. FinishedPositions' = {q \in 1..Len(sent) : \E j \in 1..(Len(log) + 1) : log'[j] = sent[q]}
    BY <1>1, <2>1 DEF FinishedPositions
  <2>3. \A q \in 1..Len(sent) : sent[q] = cur[l] => q = i
    BY <1>2, <1>3, <1>4 DEF MessageInv, SentOnce
  <2>4. ASSUME NEW q \in 1..Len(sent)
        PROVE  (\E j \in 1..(Len(log) + 1) : log'[j] = sent[q])
                 <=> (\E j \in 1..Len(log) : log[j] = sent[q]) \/ q = i
    BY <1>3, <2>1, <2>3
  <2>5. QED
    BY <1>4, <2>2, <2>4 DEF FinishedPositions
<1>8. Contract!Finish(i)
  BY <1>1, <1>5, <1>6, <1>7 DEF Contract!Finish
<1>9. QED
  BY <1>3, <1>8 DEF Contract!Next, Taken

LEMMA ContractStep ==
  ASSUME TypeInv, LoopInv, CurInv, InOrder, MessageInv, MessageInv', [Next]_vars
  PROVE  Contract!Next \/ UNCHANGED Contract!contractVars
<1>1. ASSUME UNCHANGED <<sent, mailbox, log, result, cancelled>>
      PROVE  UNCHANGED Contract!contractVars
  BY <1>1, QuietContract DEF Contract!contractVars
<1>2. ASSUME NEW c \in Clients, BeginCall(c)
      PROVE  Contract!Next \/ UNCHANGED Contract!contractVars
  <2>1. Quiet(c) /\ result' = result /\ (cancelled' = cancelled \/ cancelled' = TRUE)
    BY <1>2, BeginSteps
  <2>2. CASE cancelled' = cancelled
    BY <1>1, <2>1, <2>2 DEF Quiet
  <2>3. CASE cancelled' = TRUE
    <3>1. Contract!Close
      BY <2>1, <2>3, QuietContract DEF Contract!Close, Quiet
    <3>2. QED
      BY <3>1 DEF Contract!Next
  <2>4. QED
    BY <2>1, <2>2, <2>3
<1>3. ASSUME NEW c \in Clients, SendPush(c) \/ AskPush(c) PROVE Contract!Next
  BY <1>3, AcceptContract
<1>4. ASSUME NEW c \in Clients,
             \/ StartBody(c) \/ StartLoop(c) \/ OnBody(c) \/ SendCheck(c) \/ AskCheck(c)
             \/ AskStopped(c) \/ AskAnswered(c) \/ StopLock(c) \/ StopBody(c)
      PROVE  Contract!Next \/ UNCHANGED Contract!contractVars
  <2>1. CASE Quiet(c) /\ Moves(c) /\ result' = result /\ cancelled' = cancelled
    BY <1>1, <2>1 DEF Quiet
  <2>2. ASSUME NEW value, pc[c] # "idle", Ends(c, value),
               \/ pc[c] # "askWait" /\ value \in {"done", "notRunning"}
               \/ pc[c] = "askWait" /\ cancelled /\ value = "stopped"
               \/ pc[c] = "askWait" /\ reply[c][op[c]] # "empty" /\ value = reply[c][op[c]]
        PROVE  Contract!Next
    BY <2>2, EndsContract
  <2>3. QED
    BY <1>4, <2>1, <2>2, QuietSteps
<1>5. ASSUME NEW l \in Loops, LoopTake(l) PROVE Contract!Next
  BY <1>5, TakeContract
<1>6. ASSUME NEW l \in Loops, ProcessReply(l) PROVE Contract!Next
  BY <1>6, FinishContract
<1>7. ASSUME NEW l \in Loops, LoopExit(l) \/ ProcessLock(l) \/ ProcessLookup(l)
      PROVE  UNCHANGED Contract!contractVars
  BY <1>1, <1>7, LoopSteps DEF LoopAlone
<1>8. CASE UNCHANGED vars
  BY <1>1, <1>8 DEF vars
<1>9. QED
  BY <1>2, <1>3, <1>4, <1>5, <1>6, <1>7, <1>8 DEF Next, ClientStep, LoopStep, Finished

LEMMA ContractInit == Init => Contract!Init
BY DEF Init, Contract!Init, FinishedPositions

\* MessageInv holds from the initial state on, beside what was proved before.
LEMMA Messaging == Spec => [](TypeInv /\ LoopInv /\ CurInv /\ InOrder /\ MessageInv)
<1>1. Init => CurInv
  BY DEF Init, CurInv, InLoop, Procs
<1>2. Spec => []CurInv
  BY <1>1, OrderStep, Invariants, Ordered, PTL DEF Spec
<1>3. QED
  BY <1>2, MessageInvInit, MessageStep, Invariants, Ordered, PTL DEF Spec

\* The actor keeps the contract its callers rely on, through every Stop and
\* every restart: accepted at most once, finished at most once and until a
\* Stop in order, answered only when finished, refused without a trace.
THEOREM KeepsItsContract == Spec => KeepsContract
<1>1. TypeInv /\ LoopInv /\ CurInv /\ InOrder /\ MessageInv /\ MessageInv' /\ [Next]_vars
        => [Contract!Next]_(Contract!contractVars)
  BY ContractStep
<1>2. QED
  BY <1>1, ContractInit, Messaging, PTL DEF Spec, KeepsContract, Contract!Spec

\* The channel of an Ask has room for its answer: no loop waits to reply.
THEOREM ReplyNeverBlocks ==
  Spec => [](\A l \in Loops : pc[l] = "handle" /\ cur[l].ask =>
               reply[cur[l].from][cur[l].seq] = "empty")
<1>1. TypeInv /\ MessageInv =>
        \A l \in Loops : pc[l] = "handle" /\ cur[l].ask =>
          reply[cur[l].from][cur[l].seq] = "empty"
  <2> SUFFICES ASSUME TypeInv, MessageInv, NEW l \in Loops, pc[l] = "handle",
                      reply[cur[l].from][cur[l].seq] # "empty"
               PROVE  FALSE
    OBVIOUS
  <2>1. cur[l] \in Messages /\ cur[l].from \in Clients /\ cur[l].seq \in Calls
    BY MessageShapes DEF TypeInv, HandInv, InLoop
  <2>2. PICK j \in DOMAIN log : log[j].from = cur[l].from /\ log[j].seq = cur[l].seq
    BY <2>1 DEF MessageInv, AnswersLogged
  <2>3. PICK i \in 1..Taken, k \in 1..Taken : cur[l] = sent[i] /\ log[j] = sent[k]
    BY <2>2 DEF MessageInv, HandsApart, Placed, InLoop
  <2>4. i \in DOMAIN sent /\ k \in DOMAIN sent
    BY <2>3, MessageShapes DEF MessageInv, Placed, Taken
  <2>5. log[j] = cur[l]
    BY <2>2, <2>3, <2>4 DEF MessageInv, SentOnce
  <2>6. QED
    BY <2>2, <2>5 DEF MessageInv, HandsApart, InLoop
<1>2. QED
  BY <1>1, Messaging, PTL

==============================================================================
