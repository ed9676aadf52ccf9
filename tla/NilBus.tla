-------------------------------- MODULE NilBus --------------------------------
(***************************************************************************)
(* The RPC client of platform/onuron/nilbus/client.go under the adapter of *)
(* platform/onuron/adapter.go: Init and Shutdown, goroutines that send a   *)
(* notification (one Call, and another on the legacy service if the first  *)
(* fails), the read loop of each connection, and the bus, which answers a  *)
(* request once, late or never, and may hang up.  Each caller sends one    *)
(* notification, so a Call is identified by its caller and the attempt it  *)
(* is.  A frame is two reads: a header with an id, and a payload with the  *)
(* Call it answers.                                                        *)
(***************************************************************************)
EXTENDS Naturals, Sequences

CONSTANTS
  Callers,
  MaxConns,   \* bound: connections dialled
  Shutdowns,  \* bound: calls of Shutdown
  IdSpace,    \* 2^32, the values of seqID
  NoCall, Garbage

Attempts == {1, 2}
Calls    == Callers \X Attempts
Ids      == 0..(IdSpace - 1)
Conns    == 1..MaxConns
Loops    == Conns   \* the read loop Connect spawns for each connection

ASSUME NilBusAssumption ==
  /\ MaxConns \in Nat /\ Shutdowns \in Nat
  /\ IdSpace \in Nat \ {0}
  /\ NoCall \notin Calls /\ Garbage \notin Calls

VARIABLES
  initialized,  \* a.initialized
  granted,      \* the notifications capability
  connected,    \* c.connected
  isMock,       \* c.isMock
  conn,         \* the connection in c.conn, 0 for nil
  open,         \* the connections that are not closed
  up,           \* the connections the bus has not hung up on
  shut,         \* how often Shutdown has been called
  seqID,        \* c.seqID
  pending,      \* c.pendingCalls
  pc, attempt,  \* where each caller is, and in which Call
  id, via,      \* the reqID and the connection of that Call
  chan,         \* the respChan of each Call, with room for one payload
  outcome,      \* what the Call, and in the end SendNotification, returned
  lpc, on,      \* where each read loop is, and the connection it reads
  hold, target, payload, \* the id, the channel and the payload it has
  stream,       \* what the bus has written on each connection
  requests,     \* the requests the bus has received and not handled
  posted        \* history: the Calls whose notification was posted

adapterVars == <<initialized, granted, connected, isMock, conn, open, shut>>
callVars    == <<pc, attempt, id, via, outcome>>
loopVars    == <<lpc, on, hold, target, payload>>
busVars     == <<up, stream, requests, posted>>

vars == <<adapterVars, seqID, pending, callVars, chan, loopVars, busVars>>

Call(p) == <<p, attempt[p]>>

Goto(p, from, to) == pc[p] = from /\ pc' = [pc EXCEPT ![p] = to]

LoopGoto(l, from, to) == lpc[l] = from /\ lpc' = [lpc EXCEPT ![l] = to]

------------------------------------------------------------------------------
(* Init and Shutdown                                                       *)

InitBus ==
  /\ ~initialized
  /\ initialized' = TRUE
  /\ granted' = TRUE
  /\ connected' = TRUE
  /\ \/ /\ conn < MaxConns
        /\ conn' = conn + 1
        /\ open' = open \cup {conn + 1}
        /\ isMock' = FALSE
        /\ LoopGoto(conn + 1, "unborn", "header")
     \/ /\ isMock' = TRUE   \* the dial failed
        /\ UNCHANGED <<conn, open, lpc>>
  /\ UNCHANGED <<shut, seqID, pending, callVars, chan, on, hold, target, payload,
                 busVars>>

Shutdown ==
  /\ initialized
  /\ shut < Shutdowns
  /\ shut' = shut + 1
  /\ initialized' = FALSE
  /\ connected' = FALSE
  /\ open' = open \ {conn}
  /\ UNCHANGED <<granted, isMock, conn, seqID, pending, callVars, chan, loopVars,
                 busVars>>

------------------------------------------------------------------------------
(* SendNotification and Call                                               *)

Notify(p) ==
  /\ pc[p] = "idle"
  /\ \/ /\ granted
        /\ pc' = [pc EXCEPT ![p] = "check"]
        /\ attempt' = [attempt EXCEPT ![p] = 1]
        /\ UNCHANGED outcome
     \/ /\ ~granted
        /\ pc' = [pc EXCEPT ![p] = "done"]
        /\ outcome' = [outcome EXCEPT ![p] = "denied"]
        /\ UNCHANGED attempt
  /\ UNCHANGED <<adapterVars, seqID, pending, id, via, chan, loopVars, busVars>>

\* The Call ends with this outcome; "posted" stands for the in-process answer.
Ends(p, value, to) ==
  /\ pc' = [pc EXCEPT ![p] = to]
  /\ outcome' = [outcome EXCEPT ![p] = value]

CallCheck(p) ==
  /\ pc[p] = "check"
  /\ \/ ~connected /\ Ends(p, "error", "returned") /\ UNCHANGED posted
     \/ connected /\ isMock /\ Ends(p, "ok", "returned")
          /\ posted' = posted \cup {Call(p)}
     \/ connected /\ ~isMock /\ Goto(p, "check", "number")
          /\ UNCHANGED <<outcome, posted>>
  /\ UNCHANGED <<adapterVars, seqID, pending, attempt, id, via, chan, loopVars,
                 up, stream, requests>>

\* Slip: the id read and not incremented.
CallNumberSame(p) ==
  /\ Goto(p, "number", "register")
  /\ UNCHANGED seqID
  /\ id' = [id EXCEPT ![p] = seqID]
  /\ UNCHANGED <<adapterVars, pending, attempt, via, outcome, chan, loopVars, busVars>>

CallNumber(p) ==
  /\ Goto(p, "number", "register")
  /\ seqID' = (seqID + 1) % IdSpace
  /\ id' = [id EXCEPT ![p] = seqID']
  /\ UNCHANGED <<adapterVars, pending, attempt, via, outcome, chan, loopVars, busVars>>

CallRegister(p) ==
  /\ Goto(p, "register", "conn")
  /\ pending' = [pending EXCEPT ![id[p]] = Call(p)]
  /\ UNCHANGED <<adapterVars, seqID, attempt, id, via, outcome, chan, loopVars, busVars>>

CallConn(p) ==
  /\ Goto(p, "conn", "write")
  /\ via' = [via EXCEPT ![p] = conn]
  /\ UNCHANGED <<adapterVars, seqID, pending, attempt, id, outcome, chan, loopVars,
                 busVars>>

\* Slip: a failed write returns past the removal of the pending entry.
CallWriteLeaks(p) ==
  /\ pc[p] = "write"
  /\ \/ via[p] \in open \cap up /\ Goto(p, "write", "wait")
          /\ requests' = requests \cup {[conn |-> via[p], id |-> id[p], call |-> Call(p)]}
          /\ UNCHANGED outcome
     \/ via[p] \notin open \cap up /\ Ends(p, "error", "returned") /\ UNCHANGED requests
  /\ UNCHANGED <<adapterVars, seqID, pending, attempt, id, via, chan, loopVars,
                 up, stream, posted>>

CallWrite(p) ==
  /\ pc[p] = "write"
  /\ \/ via[p] \in open \cap up /\ Goto(p, "write", "wait")
          /\ requests' = requests \cup {[conn |-> via[p], id |-> id[p], call |-> Call(p)]}
          /\ UNCHANGED outcome
     \/ via[p] \notin open \cap up /\ Ends(p, "error", "unregister") /\ UNCHANGED requests
  /\ UNCHANGED <<adapterVars, seqID, pending, attempt, id, via, chan, loopVars,
                 up, stream, posted>>

\* The select: with an answer and the timer both ready either is taken.
CallAnswered(p) ==
  /\ pc[p] = "wait"
  /\ chan[Call(p)] # <<>>
  /\ Ends(p, IF chan[Call(p)] = <<Call(p)>> THEN "ok" ELSE "wrong", "unregister")
  /\ chan' = [chan EXCEPT ![Call(p)] = <<>>]
  /\ UNCHANGED <<adapterVars, seqID, pending, attempt, id, via, loopVars, busVars>>

\* Slip: Call waits for its answer alone.
CallTimeoutNever(p) == FALSE /\ UNCHANGED vars

CallTimeout(p) ==
  /\ pc[p] = "wait"
  /\ Ends(p, "error", "unregister")
  /\ UNCHANGED <<adapterVars, seqID, pending, attempt, id, via, chan, loopVars, busVars>>

CallUnregister(p) ==
  /\ Goto(p, "unregister", "returned")
  /\ pending' = [pending EXCEPT ![id[p]] = NoCall]
  /\ UNCHANGED <<adapterVars, seqID, attempt, id, via, outcome, chan, loopVars, busVars>>

\* Slip: the error of the second Call dropped.
NotifyReturnOK(p) ==
  /\ pc[p] = "returned"
  /\ IF outcome[p] = "error" /\ attempt[p] = 1
     THEN attempt' = [attempt EXCEPT ![p] = 2] /\ Goto(p, "returned", "check")
            /\ UNCHANGED outcome
     ELSE Ends(p, "ok", "done") /\ UNCHANGED attempt
  /\ UNCHANGED <<adapterVars, seqID, pending, id, via, chan, loopVars, busVars>>

\* A Call that failed, for whatever reason, is made again on the legacy name.
NotifyReturn(p) ==
  /\ pc[p] = "returned"
  /\ IF outcome[p] = "error" /\ attempt[p] = 1
     THEN attempt' = [attempt EXCEPT ![p] = 2] /\ Goto(p, "returned", "check")
     ELSE UNCHANGED attempt /\ Goto(p, "returned", "done")
  /\ UNCHANGED <<adapterVars, seqID, pending, id, via, outcome, chan, loopVars,
                 busVars>>

------------------------------------------------------------------------------
(* readLoop: each read begins with the connection c.conn has at the time   *)

LoopConn(l) ==
  /\ LoopGoto(l, "header", "readHeader") \/ LoopGoto(l, "payload", "readPayload")
  /\ on' = [on EXCEPT ![l] = conn]
  /\ UNCHANGED <<adapterVars, seqID, pending, callVars, chan, hold, target, payload,
                 busVars>>

LoopExit(l) ==
  /\ LoopGoto(l, "readHeader", "exited") \/ LoopGoto(l, "readPayload", "exited")
  /\ on[l] \notin open \/ (on[l] \notin up /\ stream[on[l]] = <<>>)
  /\ UNCHANGED <<adapterVars, seqID, pending, callVars, chan, on, hold, target,
                 payload, busVars>>

Reads(l) ==
  /\ on[l] \in open
  /\ stream[on[l]] # <<>>
  /\ stream' = [stream EXCEPT ![on[l]] = Tail(@)]

NextToken(l) == Head(stream[on[l]])

\* What does not begin with the magic number is skipped.
LoopHeader(l) ==
  /\ Reads(l)
  /\ \/ NextToken(l).kind = "header" /\ LoopGoto(l, "readHeader", "payload")
          /\ hold' = [hold EXCEPT ![l] = NextToken(l).id]
     \/ NextToken(l).kind = "payload" /\ LoopGoto(l, "readHeader", "header")
          /\ UNCHANGED hold
  /\ UNCHANGED <<adapterVars, seqID, pending, callVars, chan, on, target, payload,
                 up, requests, posted>>

\* As many bytes as the header said, whatever they are.
LoopPayload(l) ==
  /\ Reads(l)
  /\ LoopGoto(l, "readPayload", "lookup")
  /\ payload' = [payload EXCEPT ![l] =
       IF NextToken(l).kind = "payload" THEN NextToken(l).call ELSE Garbage]
  /\ UNCHANGED <<adapterVars, seqID, pending, callVars, chan, on, hold, target,
                 up, requests, posted>>

LoopLookup(l) ==
  /\ \/ pending[hold[l]] # NoCall /\ LoopGoto(l, "lookup", "deliver")
     \/ pending[hold[l]] = NoCall /\ LoopGoto(l, "lookup", "header")
  /\ target' = [target EXCEPT ![l] = pending[hold[l]]]
  /\ UNCHANGED <<adapterVars, seqID, pending, callVars, chan, on, hold, payload,
                 busVars>>

\* Slip: a response channel without room, which needs its caller to be there.
LoopDeliverUnbuffered(l) ==
  /\ LoopGoto(l, "deliver", "header")
  /\ chan[target[l]] = <<>>
  /\ \E p \in Callers : target[l] = Call(p) /\ pc[p] = "wait"
  /\ chan' = [chan EXCEPT ![target[l]] = <<payload[l]>>]
  /\ UNCHANGED <<adapterVars, seqID, pending, callVars, on, hold, target, payload,
                 busVars>>

\* The channel has room for one response.
LoopDeliver(l) ==
  /\ LoopGoto(l, "deliver", "header")
  /\ chan[target[l]] = <<>>
  /\ chan' = [chan EXCEPT ![target[l]] = <<payload[l]>>]
  /\ UNCHANGED <<adapterVars, seqID, pending, callVars, on, hold, target, payload,
                 busVars>>

------------------------------------------------------------------------------
(* The bus                                                                 *)

\* The service posts the notification and its answer is put on the wire.
BusAnswer(r) ==
  /\ r \in requests
  /\ r.conn \in open \cap up
  /\ requests' = requests \ {r}
  /\ posted' = posted \cup {r.call}
  /\ stream' = [stream EXCEPT ![r.conn] =
       @ \o <<[kind |-> "header", id |-> r.id], [kind |-> "payload", call |-> r.call]>>]
  /\ UNCHANGED <<adapterVars, seqID, pending, callVars, chan, loopVars, up>>

\* The bus goes away; what it wrote before can still be read.
BusHangUp(c) ==
  /\ c \in open \cap up
  /\ up' = up \ {c}
  /\ UNCHANGED <<adapterVars, seqID, pending, callVars, chan, loopVars, stream,
                 requests, posted>>

------------------------------------------------------------------------------

Init ==
  /\ initialized = FALSE /\ granted = FALSE /\ connected = FALSE /\ isMock = FALSE
  /\ conn = 0 /\ open = {} /\ up = Conns /\ shut = 0 /\ seqID = 0
  /\ pending = [i \in Ids |-> NoCall]
  /\ pc = [p \in Callers |-> "idle"]
  /\ attempt = [p \in Callers |-> 1]
  /\ id = [p \in Callers |-> 0]
  /\ via = [p \in Callers |-> 0]
  /\ chan = [c \in Calls |-> <<>>]
  /\ outcome = [p \in Callers |-> "none"]
  /\ lpc = [l \in Loops |-> "unborn"]
  /\ on = [l \in Loops |-> 0]
  /\ hold = [l \in Loops |-> 0]
  /\ target = [l \in Loops |-> NoCall]
  /\ payload = [l \in Loops |-> Garbage]
  /\ stream = [c \in Conns |-> <<>>]
  /\ requests = {}
  /\ posted = {}

CallStep(p) ==
  \/ CallCheck(p) \/ CallNumber(p) \/ CallRegister(p) \/ CallConn(p)
  \/ CallWrite(p) \/ CallAnswered(p) \/ CallTimeout(p) \/ CallUnregister(p)
  \/ NotifyReturn(p)

LoopStep(l) ==
  \/ LoopConn(l) \/ LoopExit(l) \/ LoopHeader(l) \/ LoopPayload(l)
  \/ LoopLookup(l) \/ LoopDeliver(l)

Next ==
  \/ InitBus \/ Shutdown
  \/ \E p \in Callers : Notify(p) \/ CallStep(p)
  \/ \E l \in Loops : LoopStep(l)
  \/ \E r \in requests : BusAnswer(r)
  \/ \E c \in Conns : BusHangUp(c)

Spec == Init /\ [][Next]_vars

\* Goroutines that can run are run and timers fire; the bus owes nothing.
FairSpec ==
  /\ Spec
  /\ \A p \in Callers : WF_vars(CallStep(p))
  /\ \A l \in Loops : WF_vars(LoopStep(l))

------------------------------------------------------------------------------
(* Properties                                                              *)

Registered == {"conn", "write", "wait", "unregister"}

\* The table of pending calls holds exactly the Calls in progress, under their
\* own ids: none is left behind by an error, a timeout or a Shutdown, and none
\* is taken for another (lines 111 to 119).
PendingInProgress ==
  /\ \A p \in Callers : pc[p] \in Registered => pending[id[p]] = Call(p)
  /\ \A i \in Ids : pending[i] # NoCall =>
       \E p \in Callers : pc[p] \in Registered /\ id[p] = i

\* A Call that returns an answer returns the answer to its own request, late
\* answers to Calls that timed out notwithstanding.
AnswersOwn == \A p \in Callers : outcome[p] # "wrong"

\* A SendNotification that succeeds has posted its notification.
SuccessPosted ==
  \A p \in Callers :
    pc[p] = "done" /\ outcome[p] = "ok" => \E a \in Attempts : <<p, a>> \in posted

\* Every SendNotification returns, whatever the bus does.
CallsReturn ==
  \A p \in Callers : pc[p] \notin {"idle", "done"} ~> pc[p] = "done"

\* A read loop with a response in hand goes on reading: no caller that went
\* away can hold it up (lines 109 and 230).
LoopsGoOn ==
  \A l \in Loops : lpc[l] = "deliver" ~> lpc[l] = "header"

==============================================================================
