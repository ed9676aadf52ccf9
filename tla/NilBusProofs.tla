----------------------------- MODULE NilBusProofs -----------------------------
(* For any number of callers: the table of pending calls, what an answer is  *)
(* the answer to, and what success means.                                    *)
EXTENDS NilBus, FiniteSetTheorems, TLAPS

Places == {"idle", "check", "number", "register", "conn", "write", "wait", "unregister", "returned", "done"}

LoopPlaces == {"unborn", "header", "readHeader", "payload", "readPayload", "lookup", "deliver", "exited"}

Outcomes == {"none", "ok", "error", "wrong", "denied"}

Tokens == [kind : {"header"}, id : Ids] \cup [kind : {"payload"}, call : Calls]

CallTypes ==
  /\ pc \in [Callers -> Places]
  /\ attempt \in [Callers -> Attempts]
  /\ id \in [Callers -> Ids]
  /\ outcome \in [Callers -> Outcomes]
  /\ seqID \in Ids
  /\ pending \in [Ids -> Calls \cup {NoCall}]
  /\ \A p \in Callers : pc[p] = "idle" => attempt[p] = 1

WireTypes ==
  /\ conn \in Conns \cup {0}
  /\ open \in SUBSET Conns
  /\ via \in [Callers -> Conns \cup {0}]
  /\ lpc \in [Loops -> LoopPlaces]
  /\ on \in [Loops -> Conns \cup {0}]
  /\ hold \in [Loops -> Ids]
  /\ target \in [Loops -> Calls \cup {NoCall}]
  /\ payload \in [Loops -> Calls \cup {Garbage}]
  /\ chan \in [Calls -> Seq(Calls \cup {Garbage})]
  /\ stream \in [Conns -> Seq(Tokens)]
  /\ requests \in SUBSET [conn : Conns, id : Ids, call : Calls]
  /\ posted \in SUBSET Calls
  /\ \A l \in Loops : lpc[l] = "deliver" => target[l] \in Calls

------------------------------------------------------------------------------
(* The table                                                               *)

\* A Call has a number of its own from here to there.
Numbered == {"register"} \cup Registered

\* The Calls that may still draw a number.
Undrawn ==
  {c \in Calls : \/ attempt[c[1]] < c[2]
                 \/ attempt[c[1]] = c[2] /\ pc[c[1]] \in {"idle", "check", "number"}}

\* There are numbers enough for them.
Enough == IsFiniteSet(Undrawn) /\ seqID + Cardinality(Undrawn) <= Cardinality(Calls)

NumbersOwn ==
  /\ \A p \in Callers : pc[p] \in Numbered => id[p] \in 1..seqID
  /\ \A p, q \in Callers :
       pc[p] \in Numbered /\ pc[q] \in Numbered /\ id[p] = id[q] => p = q

TableInv == CallTypes /\ Enough /\ NumbersOwn /\ PendingInProgress

------------------------------------------------------------------------------
(* What was posted                                                         *)

\* Every answer on its way is one to a request that was posted.
AnswersPosted ==
  /\ \A c \in Conns : \A k \in DOMAIN stream[c] :
       stream[c][k].kind = "payload" => stream[c][k].call \in posted
  /\ \A l \in Loops : payload[l] \in posted \cup {Garbage}
  /\ \A c \in Calls : chan[c] = <<>> \/ \E v \in posted \cup {Garbage} : chan[c] = <<v>>
  /\ \A p \in Callers : outcome[p] = "ok" => Call(p) \in posted

PostedInv == CallTypes /\ WireTypes /\ AnswersPosted

------------------------------------------------------------------------------
(* Whose answer it is, on one connection                                   *)

\* A number stands for one Call, now and for good.
Tied(i, c) ==
  /\ i \in 1..seqID
  /\ pending[i] \in {NoCall, c}
  /\ \A p \in Callers : pc[p] \in Numbered /\ id[p] = i => Call(p) = c

\* A header is followed by its payload, and a payload by the next header.
Framed(s) ==
  \A k \in DOMAIN s :
    /\ s[k].kind = "header" => /\ k + 1 \in DOMAIN s
                               /\ s[k + 1].kind = "payload" /\ Tied(s[k].id, s[k + 1].call)
    /\ s[k].kind = "payload" /\ k + 1 \in DOMAIN s => s[k + 1].kind = "header"

\* The loop is where the stream is.
InStep(l, s) ==
  /\ lpc[l] \in {"unborn", "header", "readHeader", "lookup", "deliver"} /\ s # <<>> =>
       s[1].kind = "header"
  /\ lpc[l] \in {"payload", "readPayload"} =>
       s # <<>> /\ s[1].kind = "payload" /\ Tied(hold[l], s[1].call)

InHand(l) ==
  /\ lpc[l] = "lookup" => Tied(hold[l], payload[l])
  /\ lpc[l] = "deliver" => target[l] = payload[l]

OwnInv ==
  /\ \A r \in requests : Tied(r.id, r.call)
  /\ \A c \in Conns : Framed(stream[c]) /\ InStep(c, stream[c]) /\ InHand(c)
  /\ \A c \in Calls : chan[c] = <<>> \/ chan[c] = <<c>>
  /\ AnswersOwn

------------------------------------------------------------------------------
(* What a step does to the Calls and to their table                        *)

book == <<seqID, pending, pc, attempt, id, outcome>>

\* p goes from one place to another, and no other caller moves.
Moves(p, from, to) ==
  /\ pc[p] \in from /\ pc' = [pc EXCEPT ![p] = pc'[p]] /\ pc'[p] \in to

Walks(p) ==
  /\ UNCHANGED <<seqID, pending, attempt, id>>
  /\ \/ Moves(p, {"idle", "check"}, {"check", "number", "returned", "done"}) /\ pc'[p] # pc[p]
     \/ Moves(p, {"conn", "write", "wait"}, {"write", "wait", "unregister"})
     \/ Moves(p, {"returned"}, {"done"})

Retries(p) ==
  /\ UNCHANGED <<seqID, pending, id>>
  /\ Moves(p, {"returned"}, {"check"})
  /\ attempt[p] = 1 /\ attempt' = [attempt EXCEPT ![p] = 2]

\* The loops, the bus and the adapter leave the Calls alone.
LEMMA OthersFrame ==
  ASSUME \/ InitBus \/ Shutdown \/ UNCHANGED vars
         \/ \E l \in Loops : LoopStep(l)
         \/ \E r \in requests : BusAnswer(r)
         \/ \E c \in Conns : BusHangUp(c)
  PROVE  UNCHANGED book
BY DEF book, vars, callVars, loopVars, adapterVars, busVars, InitBus, Shutdown, LoopStep, LoopConn, LoopExit,
   LoopHeader, LoopPayload, LoopLookup, LoopDeliver, BusAnswer, BusHangUp, Reads, LoopGoto

LEMMA CallerMoves ==
  ASSUME CallTypes, NEW p \in Callers, Notify(p) \/ CallStep(p)
  PROVE  Walks(p) \/ Retries(p) \/ CallNumber(p) \/ CallRegister(p) \/ CallUnregister(p)
<1>1. CASE Notify(p)
  <2>1. attempt' = attempt
    BY <1>1 DEF Notify, CallTypes
  <2> QED
    BY <1>1, <2>1 DEF Notify, Walks, Moves, CallTypes
<1>2. CASE CallCheck(p)
  BY <1>2 DEF CallCheck, Ends, Goto, Walks, Moves, CallTypes
<1>3. CASE CallConn(p) \/ CallWrite(p) \/ CallAnswered(p) \/ CallTimeout(p)
  BY <1>3 DEF CallConn, CallWrite, CallAnswered, CallTimeout, Ends, Goto, Walks, Moves, CallTypes
<1>4. CASE NotifyReturn(p)
  BY <1>4 DEF NotifyReturn, Goto, Walks, Retries, Moves, CallTypes
<1> QED
  BY <1>1, <1>2, <1>3, <1>4 DEF CallStep

LEMMA CallTypesStep == CallTypes /\ [Next]_vars => CallTypes'
<1> SUFFICES ASSUME CallTypes, [Next]_vars PROVE CallTypes'
  OBVIOUS
<1>1. CASE UNCHANGED book
  BY <1>1 DEF CallTypes, book
<1>2. ASSUME NEW p \in Callers, Notify(p) \/ CallStep(p) PROVE CallTypes'
  <2>1. outcome' \in [Callers -> Outcomes]
    BY <1>2 DEF Notify, CallStep, CallCheck, CallNumber, CallRegister, CallConn, CallWrite, CallAnswered,
       CallTimeout, CallUnregister, NotifyReturn, Ends, CallTypes, Outcomes
  <2>2. CASE Walks(p) \/ Retries(p)
    BY <2>1, <2>2 DEF Walks, Retries, Moves, CallTypes, Places, Attempts
  <2>3. CASE CallNumber(p)
    <3>1. seqID' \in Ids
      BY <2>3, NilBusAssumption DEF CallNumber, CallTypes, Ids
    <3> QED
      BY <2>1, <2>3, <3>1 DEF CallNumber, Goto, CallTypes, Places
  <2>4. CASE CallRegister(p) \/ CallUnregister(p)
    <3>1. Call(p) \in Calls
      BY DEF Call, Calls, CallTypes
    <3> QED
      BY <2>1, <2>4, <3>1 DEF CallRegister, CallUnregister, Goto, CallTypes, Places
  <2> QED
    BY <1>2, <2>2, <2>3, <2>4, CallerMoves
<1> QED
  BY <1>1, <1>2, OthersFrame DEF Next

------------------------------------------------------------------------------
(* The table holds the Calls in progress                                   *)

\* The Calls that may draw a number become fewer.
LEMMA UndrawnShrinks ==
  ASSUME CallTypes, NEW p \in Callers,
         Walks(p) \/ Retries(p) \/ CallNumber(p) \/ CallRegister(p) \/ CallUnregister(p)
  PROVE  /\ Undrawn' \subseteq Undrawn
         /\ CallNumber(p) => Call(p) \in Undrawn \ Undrawn'
<1> SUFFICES /\ \A c \in Calls : c \in Undrawn' => c \in Undrawn
             /\ CallNumber(p) => Call(p) \in Undrawn /\ Call(p) \notin Undrawn'
  BY DEF Undrawn
<1>1. /\ \A c \in Calls : c[1] \in Callers /\ c[2] \in {1, 2} /\ attempt[c[1]] \in {1, 2}
      /\ Call(p) \in Calls /\ Call(p)[1] = p /\ Call(p)[2] = attempt[p] /\ attempt[p] \in {1, 2}
  BY DEF Calls, Attempts, Call, CallTypes
<1>2. CASE Walks(p)
  <2>1. CallNumber(p) => FALSE
    BY <1>2 DEF Walks, Moves, CallNumber, Goto
  <2> QED
    BY <1>1, <1>2, <2>1 DEF Walks, Moves, Undrawn, CallTypes
<1>3. CASE Retries(p)
  <2>1. CallNumber(p) => FALSE
    BY <1>3 DEF Retries, Moves, CallNumber, Goto
  <2> QED
    BY <1>1, <1>3, <2>1 DEF Retries, Moves, Undrawn, CallTypes
<1>4. CASE CallNumber(p)
  <2>1. attempt' = attempt /\ pc[p] = "number" /\ pc' = [pc EXCEPT ![p] = "register"]
    BY <1>4 DEF CallNumber, Goto
  <2>2. Call(p) \in Undrawn
    BY <1>1, <2>1 DEF Undrawn
  <2>3. Call(p) \notin Undrawn'
    BY <1>1, <2>1 DEF Undrawn, CallTypes
  <2>4. \A c \in Calls : c \in Undrawn' => c \in Undrawn
    BY <1>1, <2>1 DEF Undrawn, CallTypes
  <2> QED
    BY <2>2, <2>3, <2>4
<1>5. CASE CallRegister(p) \/ CallUnregister(p)
  <2>1. CallNumber(p) => FALSE
    BY <1>5 DEF CallRegister, CallUnregister, CallNumber, Goto
  <2> QED
    BY <1>1, <1>5, <2>1 DEF CallRegister, CallUnregister, Goto, Undrawn, CallTypes
<1> QED
  BY <1>2, <1>3, <1>4, <1>5

\* The ids do not come round: there are 2^32, and the Calls are not as many.
IdsLast == IsFiniteSet(Calls) /\ Cardinality(Calls) < IdSpace

LEMMA TableInit == ASSUME IdsLast, Init PROVE TableInv
<1>1. CallTypes
  BY NilBusAssumption DEF Init, CallTypes, Places, Attempts, Outcomes, Ids
<1>2. Undrawn \subseteq Calls /\ IsFiniteSet(Calls) /\ Cardinality(Calls) \in Nat
  BY FS_CardinalityType DEF IdsLast, Undrawn
<1>3. IsFiniteSet(Undrawn) /\ Cardinality(Undrawn) <= Cardinality(Calls) /\ Cardinality(Undrawn) \in Nat
  BY <1>2, FS_Subset, FS_CardinalityType
<1>4. Enough
  BY <1>2, <1>3 DEF Enough, Init
<1>5. NumbersOwn /\ PendingInProgress
  BY DEF Init, NumbersOwn, PendingInProgress, Numbered, Registered
<1> QED
  BY <1>1, <1>4, <1>5 DEF TableInv

\* A number is drawn that no Call has had.
LEMMA NumberGrows ==
  ASSUME IdsLast, CallTypes, Enough, NEW p \in Callers, CallNumber(p)
  PROVE  seqID' = seqID + 1 /\ id' = [id EXCEPT ![p] = seqID + 1] /\ Enough'
<1>1. Undrawn' \subseteq Undrawn \ {Call(p)} /\ Call(p) \in Undrawn
  BY UndrawnShrinks
<1>2. IsFiniteSet(Undrawn) /\ IsFiniteSet(Undrawn \ {Call(p)}) /\ IsFiniteSet(Undrawn')
  BY <1>1, FS_RemoveElement, FS_Subset DEF Enough
<1>3. Cardinality(Undrawn \ {Call(p)}) = Cardinality(Undrawn) - 1
  BY <1>1, FS_RemoveElement DEF Enough
<1>4. Cardinality(Undrawn') <= Cardinality(Undrawn \ {Call(p)})
  BY <1>1, <1>2, FS_Subset
<1>5. /\ Cardinality(Undrawn) \in Nat /\ Cardinality(Undrawn') \in Nat /\ Cardinality(Calls) \in Nat
      /\ Cardinality(Undrawn \ {Call(p)}) \in Nat
  BY <1>2, FS_CardinalityType DEF IdsLast
<1>6. seqID \in Nat /\ seqID + 1 < IdSpace /\ IdSpace \in Nat
  BY <1>3, <1>5, NilBusAssumption DEF Enough, IdsLast, CallTypes, Ids
<1>7. seqID' = seqID + 1
  BY <1>6 DEF CallNumber
<1>8. Enough'
  BY <1>2, <1>3, <1>4, <1>5, <1>6, <1>7 DEF Enough
<1> QED
  BY <1>7, <1>8 DEF CallNumber

LEMMA EnoughKept ==
  ASSUME IdsLast, CallTypes, Enough, Undrawn' \subseteq Undrawn, seqID' = seqID
  PROVE  Enough'
<1>1. IsFiniteSet(Undrawn') /\ Cardinality(Undrawn') <= Cardinality(Undrawn)
  BY FS_Subset DEF Enough
<1>2. /\ Cardinality(Undrawn') \in Nat /\ Cardinality(Undrawn) \in Nat /\ seqID \in Nat
      /\ Cardinality(Calls) \in Nat
  BY <1>1, FS_CardinalityType DEF Enough, CallTypes, Ids, IdsLast
<1> QED
  BY <1>1, <1>2 DEF Enough

LEMMA TableStep ==
  ASSUME IdsLast, TableInv, [Next]_vars
  PROVE  TableInv'
<1>1. CallTypes'
  BY CallTypesStep DEF TableInv
<1>2. CASE UNCHANGED book
  <2>1. Undrawn' = Undrawn
    BY <1>2 DEF Undrawn, book
  <2> QED
    BY <1>1, <1>2, <2>1 DEF TableInv, Enough, NumbersOwn, PendingInProgress, book, Call
<1>3. ASSUME NEW p \in Callers, Walks(p) \/ Retries(p) PROVE TableInv'
  <2>1. Enough'
    BY <1>3, UndrawnShrinks, EnoughKept DEF TableInv, Walks, Retries
  <2>2. \A q \in Callers : /\ pc'[q] \in Numbered <=> pc[q] \in Numbered
                           /\ pc'[q] \in Registered <=> pc[q] \in Registered
                           /\ pc[q] \in Registered => attempt'[q] = attempt[q]
    BY <1>3 DEF Walks, Retries, Moves, Numbered, Registered, TableInv, CallTypes
  <2>3. seqID' = seqID /\ pending' = pending /\ id' = id
    BY <1>3 DEF Walks, Retries
  <2>4. NumbersOwn'
    BY <2>2, <2>3 DEF NumbersOwn, TableInv
  <2>5. PendingInProgress'
    BY <2>2, <2>3 DEF PendingInProgress, TableInv, Call
  <2> QED
    BY <1>1, <2>1, <2>4, <2>5 DEF TableInv
<1>4. ASSUME NEW p \in Callers, CallNumber(p) PROVE TableInv'
  <2>1. seqID' = seqID + 1 /\ id' = [id EXCEPT ![p] = seqID + 1] /\ Enough'
    BY <1>4, NumberGrows DEF TableInv
  <2>2. pc[p] = "number" /\ pc' = [pc EXCEPT ![p] = "register"] /\ UNCHANGED <<pending, attempt>>
    BY <1>4 DEF CallNumber, Goto
  <2>3. seqID \in Nat
    BY DEF TableInv, CallTypes, Ids
  <2>4. \A q \in Callers : pc[q] \in Numbered => id[q] \in 1..seqID
    BY DEF TableInv, NumbersOwn
  <2>5. NumbersOwn'
    BY <2>1, <2>2, <2>3, <2>4 DEF NumbersOwn, TableInv, CallTypes
  <2>6. \A q \in Callers : pc'[q] \in Registered => q # p /\ pc[q] \in Registered /\ id'[q] = id[q]
    BY <2>1, <2>2 DEF TableInv, CallTypes, Registered
  <2>7. \A q \in Callers : pc[q] \in Registered => q # p /\ pc'[q] \in Registered /\ id'[q] = id[q]
    BY <2>1, <2>2 DEF TableInv, CallTypes, Registered
  <2>8. PendingInProgress'
    <3>1. PendingInProgress
      BY DEF TableInv
    <3>2. \A q \in Callers : pc'[q] \in Registered => pending'[id'[q]] = Call(q)'
      BY <2>2, <2>6, <3>1 DEF PendingInProgress, Call
    <3>3. \A i \in Ids : pending'[i] # NoCall => \E q \in Callers : pc'[q] \in Registered /\ id'[q] = i
      BY <2>2, <2>7, <3>1 DEF PendingInProgress
    <3> QED
      BY <3>2, <3>3 DEF PendingInProgress
  <2> QED
    BY <1>1, <2>1, <2>5, <2>8 DEF TableInv
<1>5. ASSUME NEW p \in Callers, CallRegister(p) \/ CallUnregister(p) PROVE TableInv'
  <2>1. UNCHANGED <<seqID, attempt, id>>
    BY <1>5 DEF CallRegister, CallUnregister
  <2>2. Enough'
    BY <1>5, <2>1, UndrawnShrinks, EnoughKept DEF TableInv
  <2>3. \A q \in Callers : pc'[q] \in Numbered => pc[q] \in Numbered
    BY <1>5 DEF CallRegister, CallUnregister, Goto, Numbered, Registered, TableInv, CallTypes
  <2>4. NumbersOwn'
    BY <2>1, <2>3 DEF NumbersOwn, TableInv
  <2>5. pc[p] \in Numbered /\ id[p] \in Ids
    BY <1>5 DEF CallRegister, CallUnregister, Goto, Numbered, Registered, TableInv, CallTypes
  <2>6. \A q \in Callers : pc[q] \in Registered /\ q # p => id[q] # id[p]
    BY <2>5 DEF TableInv, NumbersOwn, Numbered
  <2>7. \A q \in Callers : q # p => pc'[q] = pc[q]
    BY <1>5 DEF CallRegister, CallUnregister, Goto, TableInv, CallTypes
  <2>8. CASE CallRegister(p)
    <3>1. pc'[p] = "conn" /\ pending' = [pending EXCEPT ![id[p]] = Call(p)]
      BY <2>8 DEF CallRegister, Goto, TableInv, CallTypes
    <3> QED
      BY <1>1, <2>1, <2>2, <2>4, <2>5, <2>6, <2>7, <3>1
         DEF TableInv, PendingInProgress, Registered, Call, CallTypes
  <2>9. CASE CallUnregister(p)
    <3>1. pc'[p] = "returned" /\ pending' = [pending EXCEPT ![id[p]] = NoCall]
      BY <2>9 DEF CallUnregister, Goto, TableInv, CallTypes
    <3> QED
      BY <1>1, <2>1, <2>2, <2>4, <2>5, <2>6, <2>7, <3>1
         DEF TableInv, PendingInProgress, Registered, Call, CallTypes
  <2> QED
    BY <1>5, <2>8, <2>9
<1>6. ASSUME NEW p \in Callers, Notify(p) \/ CallStep(p) PROVE TableInv'
  BY <1>3, <1>4, <1>5, <1>6, CallerMoves DEF TableInv
<1> QED
  BY <1>2, <1>6, OthersFrame DEF Next

\* The table of pending calls holds the Calls in progress and no other, for any
\* number of callers, connections and Shutdowns, while the ids last (Call,
\* lines 100 to 119).
THEOREM PendingExact ==
  ASSUME IdsLast
  PROVE  Spec => []PendingInProgress
<1>1. Init => TableInv
  BY TableInit
<1>2. TableInv /\ [Next]_vars => TableInv'
  BY TableStep
<1>3. TableInv => PendingInProgress
  BY DEF TableInv
<1> QED
  BY <1>1, <1>2, <1>3, PTL DEF Spec

------------------------------------------------------------------------------
(* What is on the wire                                                     *)

LEMMA WireInit == Init => WireTypes
BY NilBusAssumption DEF Init, WireTypes, Conns, Loops, LoopPlaces, Ids, Calls

wire == <<open, up, conn, via, lpc, on, hold, target, payload, chan, stream, requests, posted>>

\* What a read takes off a stream.
LEMMA ReadFacts ==
  ASSUME WireTypes, NEW l \in Loops, Reads(l)
  PROVE  /\ on[l] \in Conns /\ stream[on[l]] \in Seq(Tokens) /\ stream[on[l]] # <<>>
         /\ NextToken(l) \in Tokens /\ NextToken(l) = stream[on[l]][1]
         /\ stream' = [stream EXCEPT ![on[l]] = Tail(stream[on[l]])]
         /\ Tail(stream[on[l]]) \in Seq(Tokens)
         /\ Len(Tail(stream[on[l]])) = Len(stream[on[l]]) - 1
         /\ \A k \in DOMAIN Tail(stream[on[l]]) :
              k + 1 \in DOMAIN stream[on[l]] /\ Tail(stream[on[l]])[k] = stream[on[l]][k + 1]
<1>1. on[l] \in Conns /\ stream[on[l]] \in Seq(Tokens) /\ stream[on[l]] # <<>>
  BY DEF Reads, WireTypes
<1>2. \A s \in Seq(Tokens) : s # <<>> =>
        /\ Head(s) \in Tokens /\ Head(s) = s[1] /\ Tail(s) \in Seq(Tokens) /\ Len(Tail(s)) = Len(s) - 1
        /\ \A k \in DOMAIN Tail(s) : k + 1 \in DOMAIN s /\ Tail(s)[k] = s[k + 1]
  OBVIOUS
<1> QED
  BY <1>1, <1>2 DEF Reads, NextToken

LEMMA LoopTypes ==
  ASSUME CallTypes, WireTypes, NEW l \in Loops, LoopStep(l)
  PROVE  WireTypes'
<1>1. CASE LoopConn(l)
  BY <1>1 DEF LoopConn, LoopGoto, WireTypes, LoopPlaces, adapterVars, callVars, busVars
<1>2. CASE LoopExit(l)
  BY <1>2 DEF LoopExit, LoopGoto, WireTypes, LoopPlaces, adapterVars, callVars, busVars
<1>3. CASE LoopHeader(l)
  <2>1. NextToken(l).kind = "header" => NextToken(l).id \in Ids
    BY <1>3, ReadFacts DEF LoopHeader, Tokens
  <2>2. stream' \in [Conns -> Seq(Tokens)]
    <3>1. /\ stream' = [stream EXCEPT ![on[l]] = Tail(stream[on[l]])]
          /\ Tail(stream[on[l]]) \in Seq(Tokens)
      BY <1>3, ReadFacts DEF LoopHeader
    <3> QED
      BY <3>1 DEF WireTypes
  <2> QED
    BY <1>3, <2>1, <2>2 DEF LoopHeader, LoopGoto, WireTypes, LoopPlaces, adapterVars, callVars
<1>4. CASE LoopPayload(l)
  <2>1. NextToken(l).kind = "payload" => NextToken(l).call \in Calls
    BY <1>4, ReadFacts DEF LoopPayload, Tokens
  <2>2. stream' \in [Conns -> Seq(Tokens)]
    <3>1. /\ stream' = [stream EXCEPT ![on[l]] = Tail(stream[on[l]])]
          /\ Tail(stream[on[l]]) \in Seq(Tokens)
      BY <1>4, ReadFacts DEF LoopPayload
    <3> QED
      BY <3>1 DEF WireTypes
  <2> QED
    BY <1>4, <2>1, <2>2 DEF LoopPayload, LoopGoto, WireTypes, LoopPlaces, adapterVars, callVars
<1>5. CASE LoopLookup(l)
  <2>1. pending[hold[l]] \in Calls \cup {NoCall}
    BY DEF CallTypes, WireTypes
  <2> QED
    BY <1>5, <2>1 DEF LoopLookup, LoopGoto, WireTypes, LoopPlaces, adapterVars, callVars, busVars
<1>6. CASE LoopDeliver(l)
  <2>1. <<payload[l]>> \in Seq(Calls \cup {Garbage})
    BY DEF WireTypes
  <2>2. chan' \in [Calls -> Seq(Calls \cup {Garbage})]
    BY <1>6, <2>1 DEF LoopDeliver, WireTypes
  <2> QED
    BY <1>6, <2>2 DEF LoopDeliver, LoopGoto, WireTypes, LoopPlaces, adapterVars, callVars, busVars
<1> QED
  BY <1>1, <1>2, <1>3, <1>4, <1>5, <1>6 DEF LoopStep

\* What an answer puts on a stream.
LEMMA AnswerFacts ==
  ASSUME WireTypes, NEW r \in requests, BusAnswer(r)
  PROVE  /\ r \in [conn : Conns, id : Ids, call : Calls]
         /\ stream' = [stream EXCEPT ![r.conn] = stream'[r.conn]]
         /\ stream'[r.conn] \in Seq(Tokens) /\ Len(stream'[r.conn]) = Len(stream[r.conn]) + 2
         /\ \A k \in DOMAIN stream[r.conn] : stream'[r.conn][k] = stream[r.conn][k]
         /\ stream'[r.conn][Len(stream[r.conn]) + 1] = [kind |-> "header", id |-> r.id]
         /\ stream'[r.conn][Len(stream[r.conn]) + 2] = [kind |-> "payload", call |-> r.call]
<1> DEFINE head == [kind |-> "header", id |-> r.id]
           body == [kind |-> "payload", call |-> r.call]
<1>1. r \in [conn : Conns, id : Ids, call : Calls]
  BY DEF WireTypes
<1>2. head \in Tokens /\ body \in Tokens
  BY <1>1 DEF Tokens
<1> HIDE DEF head, body
<1>3. stream[r.conn] \in Seq(Tokens) /\ stream' = [stream EXCEPT ![r.conn] = @ \o <<head, body>>]
  BY <1>1 DEF BusAnswer, WireTypes, head, body
<1>4. stream'[r.conn] = stream[r.conn] \o <<head, body>>
  BY <1>1, <1>3 DEF WireTypes
<1>5. \A s \in Seq(Tokens) :
        /\ s \o <<head, body>> \in Seq(Tokens) /\ Len(s \o <<head, body>>) = Len(s) + 2
        /\ \A k \in DOMAIN s : (s \o <<head, body>>)[k] = s[k]
        /\ (s \o <<head, body>>)[Len(s) + 1] = head /\ (s \o <<head, body>>)[Len(s) + 2] = body
  BY <1>2
<1> QED
  BY <1>1, <1>3, <1>4, <1>5 DEF head, body

LEMMA WireStep ==
  ASSUME CallTypes, WireTypes, [Next]_vars
  PROVE  WireTypes'
<1>1. CASE UNCHANGED vars
  BY <1>1 DEF vars, adapterVars, callVars, loopVars, busVars, WireTypes
<1>2. CASE InitBus \/ Shutdown
  <2>1. CASE Shutdown
    BY <1>2, <2>1 DEF Shutdown, WireTypes, callVars, busVars, loopVars
  <2>2. CASE InitBus
    <3>1. conn' \in Conns \cup {0} /\ open' \in SUBSET Conns
      <4>1. conn < MaxConns => conn + 1 \in Conns
        BY NilBusAssumption DEF WireTypes, Conns
      <4> QED
        BY <2>2, <4>1 DEF InitBus, WireTypes
    <3>2. lpc' \in [Loops -> LoopPlaces] /\ \A l \in Loops : lpc'[l] = "deliver" => lpc[l] = "deliver"
      BY <2>2 DEF InitBus, LoopGoto, WireTypes, LoopPlaces
    <3> QED
      BY <2>2, <3>1, <3>2 DEF InitBus, WireTypes, callVars, busVars
  <2> QED
    BY <1>2, <2>1, <2>2
<1>3. ASSUME NEW p \in Callers, Notify(p) \/ CallStep(p) PROVE WireTypes'
  <2>1. Call(p) \in Calls
    BY DEF Call, Calls, CallTypes
  <2>2. CASE Notify(p) \/ CallNumber(p) \/ CallRegister(p) \/ CallTimeout(p) \/ CallUnregister(p) \/ NotifyReturn(p)
    BY <2>2 DEF Notify, CallNumber, CallRegister, CallTimeout, CallUnregister, NotifyReturn,
       WireTypes, adapterVars, loopVars, busVars
  <2>3. CASE CallCheck(p)
    BY <2>1, <2>3 DEF CallCheck, WireTypes, adapterVars, loopVars
  <2>4. CASE CallConn(p)
    BY <2>4 DEF CallConn, WireTypes, adapterVars, loopVars, busVars
  <2>5. CASE CallWrite(p)
    <3>1. via[p] \in open => [conn |-> via[p], id |-> id[p], call |-> Call(p)] \in [conn : Conns, id : Ids, call : Calls]
      BY <2>1 DEF WireTypes, CallTypes
    <3> QED
      BY <2>5, <3>1 DEF CallWrite, WireTypes, adapterVars, loopVars
  <2>6. CASE CallAnswered(p)
    <3>1. <<>> \in Seq(Calls \cup {Garbage})
      OBVIOUS
    <3>2. chan' \in [Calls -> Seq(Calls \cup {Garbage})]
      BY <2>6, <3>1 DEF CallAnswered, WireTypes
    <3> QED
      BY <2>6, <3>2 DEF CallAnswered, WireTypes, adapterVars, loopVars, busVars
  <2> QED
    BY <1>3, <2>2, <2>3, <2>4, <2>5, <2>6 DEF CallStep
<1>4. ASSUME NEW r \in requests, BusAnswer(r) PROVE WireTypes'
  <2>1. stream' \in [Conns -> Seq(Tokens)] /\ r.call \in Calls
    BY <1>4, AnswerFacts DEF WireTypes
  <2> QED
    BY <1>4, <2>1 DEF BusAnswer, WireTypes, adapterVars, callVars, loopVars
<1>5. ASSUME NEW c \in Conns, BusHangUp(c) PROVE WireTypes'
  BY <1>5 DEF BusHangUp, WireTypes, adapterVars, callVars, loopVars
<1> QED
  BY <1>1, <1>2, <1>3, <1>4, <1>5, LoopTypes DEF Next

------------------------------------------------------------------------------
(* Success means posted                                                    *)

LEMMA PostedInit == Init => PostedInv
<1> SUFFICES ASSUME Init PROVE PostedInv
  OBVIOUS
<1>1. CallTypes
  BY NilBusAssumption DEF Init, CallTypes, Places, Attempts, Outcomes, Ids
<1>2. AnswersPosted
  BY DEF Init, AnswersPosted
<1> QED
  BY <1>1, <1>2, WireInit DEF PostedInv

\* Nothing posted is forgotten.
LEMMA PostedGrows == ASSUME [Next]_vars PROVE posted \subseteq posted'
BY DEF Next, vars, busVars, loopVars, InitBus, Shutdown, Notify, CallStep, CallCheck, CallNumber, CallRegister, CallConn,
   CallWrite, CallAnswered, CallTimeout, CallUnregister, NotifyReturn, LoopStep, LoopConn, LoopExit, LoopHeader,
   LoopPayload, LoopLookup, LoopDeliver, BusAnswer, BusHangUp

OutcomesPosted == \A p \in Callers : outcome[p] = "ok" => Call(p) \in posted

OnWirePosted ==
  \A c \in Conns : \A k \in DOMAIN stream[c] :
    stream[c][k].kind = "payload" => stream[c][k].call \in posted

HeldPosted ==
  /\ \A l \in Loops : payload[l] \in posted \cup {Garbage}
  /\ \A c \in Calls : chan[c] = <<>> \/ \E v \in posted \cup {Garbage} : chan[c] = <<v>>

LEMMA OutcomesPostedStep ==
  ASSUME PostedInv, [Next]_vars
  PROVE  OutcomesPosted'
<1>1. OutcomesPosted /\ posted \subseteq posted'
  BY PostedGrows DEF PostedInv, AnswersPosted, OutcomesPosted
<1>2. CASE UNCHANGED book
  BY <1>1, <1>2 DEF OutcomesPosted, book, Call
<1>3. ASSUME NEW p \in Callers, Notify(p) \/ CallStep(p) PROVE OutcomesPosted'
  <2>1. \A q \in Callers : q # p => attempt'[q] = attempt[q] /\ outcome'[q] = outcome[q]
    BY <1>3 DEF Notify, CallStep, CallCheck, CallNumber, CallRegister, CallConn, CallWrite, CallAnswered,
       CallTimeout, CallUnregister, NotifyReturn, Ends, PostedInv, CallTypes
  <2>2. ASSUME outcome'[p] = "ok" PROVE <<p, attempt'[p]>> \in posted'
    <3>1. CASE CallCheck(p)
      BY <1>1, <2>2, <3>1 DEF CallCheck, Ends, OutcomesPosted, Call, PostedInv, CallTypes
    <3>2. CASE CallAnswered(p)
      <4>1. chan[Call(p)] = <<Call(p)>> /\ Call(p) \in Calls /\ attempt' = attempt
        BY <2>2, <3>2 DEF CallAnswered, Ends, PostedInv, CallTypes, Call, Calls
      <4>2. PICK v \in posted \cup {Garbage} : chan[Call(p)] = <<v>>
        BY <4>1 DEF PostedInv, AnswersPosted
      <4>3. v = Call(p)
        BY <4>1, <4>2
      <4> QED
        BY <1>1, <4>1, <4>3, NilBusAssumption DEF Call
    <3>3. CASE ~CallCheck(p) /\ ~CallAnswered(p)
      <4>1. outcome[p] = "ok" /\ attempt'[p] = attempt[p]
        BY <1>3, <2>2, <3>3 DEF Notify, CallStep, CallNumber, CallRegister, CallConn, CallWrite, CallTimeout,
           CallUnregister, NotifyReturn, Ends, PostedInv, CallTypes
      <4> QED
        BY <1>1, <4>1 DEF OutcomesPosted, Call
    <3> QED
      BY <3>1, <3>2, <3>3
  <2> QED
    BY <1>1, <2>1, <2>2 DEF OutcomesPosted, Call
<1> QED
  BY <1>2, <1>3, OthersFrame DEF Next

LEMMA OnWirePostedStep ==
  ASSUME PostedInv, [Next]_vars
  PROVE  OnWirePosted'
<1>1. OnWirePosted /\ posted \subseteq posted' /\ WireTypes
  BY PostedGrows DEF PostedInv, AnswersPosted, OnWirePosted
<1>2. CASE stream' = stream
  BY <1>1, <1>2 DEF OnWirePosted
<1>3. ASSUME NEW l \in Loops, Reads(l) PROVE OnWirePosted'
  <2> DEFINE old == stream[on[l]]
  <2>1. /\ on[l] \in Conns /\ stream' = [stream EXCEPT ![on[l]] = Tail(old)]
        /\ \A k \in DOMAIN Tail(old) : k + 1 \in DOMAIN old /\ Tail(old)[k] = old[k + 1]
    BY <1>1, <1>3, ReadFacts
  <2>2. \A c \in Conns : stream'[c] = IF c = on[l] THEN Tail(old) ELSE stream[c]
    BY <1>1, <2>1 DEF WireTypes
  <2> QED
    BY <1>1, <2>1, <2>2 DEF OnWirePosted
<1>4. ASSUME NEW r \in requests, BusAnswer(r) PROVE OnWirePosted'
  <2> DEFINE old == stream[r.conn]
             new == stream'[r.conn]
  <2>1. r.call \in posted' /\ r.conn \in Conns /\ Len(old) \in Nat /\ DOMAIN old = 1..Len(old)
    BY <1>1, <1>4 DEF BusAnswer, WireTypes
  <2>2. /\ stream' = [stream EXCEPT ![r.conn] = new]
        /\ DOMAIN new = 1..(Len(old) + 2) /\ \A k \in DOMAIN old : new[k] = old[k]
        /\ new[Len(old) + 1].kind = "header" /\ new[Len(old) + 2].call = r.call
    <3>1. /\ stream' = [stream EXCEPT ![r.conn] = new] /\ new \in Seq(Tokens) /\ Len(new) = Len(old) + 2
          /\ \A k \in DOMAIN old : new[k] = old[k]
          /\ new[Len(old) + 1] = [kind |-> "header", id |-> r.id]
          /\ new[Len(old) + 2] = [kind |-> "payload", call |-> r.call]
      BY <1>1, <1>4, AnswerFacts
    <3> QED
      BY <3>1
  <2>3. \A c \in Conns : c # r.conn => stream'[c] = stream[c]
    BY <1>1, <2>2 DEF WireTypes
  <2>4. \A k \in DOMAIN old : old[k].kind = "payload" => old[k].call \in posted'
    BY <1>1, <2>1 DEF OnWirePosted
  <2> HIDE DEF old, new
  <2>5. \A k \in DOMAIN new : new[k].kind = "payload" => new[k].call \in posted'
    BY <2>1, <2>2, <2>4
  <2> USE DEF new
  <2> QED
    BY <1>1, <2>3, <2>5 DEF OnWirePosted
<1> QED
  BY <1>2, <1>3, <1>4 DEF Next, vars, busVars, InitBus, Shutdown, Notify, CallStep, CallCheck, CallNumber, CallRegister,
     CallConn, CallWrite, CallAnswered, CallTimeout, CallUnregister, NotifyReturn, LoopStep, LoopConn, LoopExit,
     LoopHeader, LoopPayload, LoopLookup, LoopDeliver, BusHangUp

LEMMA HeldPostedStep ==
  ASSUME PostedInv, [Next]_vars
  PROVE  HeldPosted'
<1>1. HeldPosted /\ posted \subseteq posted' /\ WireTypes
  BY PostedGrows DEF PostedInv, AnswersPosted, HeldPosted
<1>2. CASE payload' = payload /\ chan' = chan
  BY <1>1, <1>2 DEF HeldPosted
<1>3. ASSUME NEW p \in Callers, CallAnswered(p) PROVE HeldPosted'
  <2>1. payload' = payload /\ chan' = [chan EXCEPT ![Call(p)] = <<>>]
    BY <1>3 DEF CallAnswered, loopVars
  <2> QED
    BY <1>1, <2>1 DEF HeldPosted, WireTypes
<1>4. ASSUME NEW l \in Loops, LoopPayload(l) PROVE HeldPosted'
  <2>1. NextToken(l).kind = "payload" => NextToken(l).call \in posted
    <3>1. 1 \in DOMAIN stream[on[l]]
      BY <1>1, <1>4, ReadFacts DEF LoopPayload
    <3> QED
      BY <1>1, <1>4, <3>1, ReadFacts DEF LoopPayload, PostedInv, AnswersPosted
  <2> QED
    BY <1>1, <1>4, <2>1 DEF LoopPayload, HeldPosted, WireTypes
<1>5. ASSUME NEW l \in Loops, LoopDeliver(l) PROVE HeldPosted'
  <2>1. payload' = payload /\ chan' = [chan EXCEPT ![target[l]] = <<payload[l]>>]
    BY <1>5 DEF LoopDeliver
  <2> QED
    BY <1>1, <2>1 DEF HeldPosted, WireTypes
<1> QED
  BY <1>2, <1>3, <1>4, <1>5 DEF Next, vars, loopVars, InitBus, Shutdown, Notify, CallStep, CallCheck, CallNumber,
     CallRegister, CallConn, CallWrite, CallTimeout, CallUnregister, NotifyReturn, LoopStep, LoopConn, LoopExit,
     LoopHeader, LoopLookup, BusAnswer, BusHangUp

\* A SendNotification that says it succeeded has posted its notification, for
\* any number of callers, connections, Shutdowns and ids (SendNotification,
\* line 144 of adapter.go).
THEOREM SuccessMeansPosted == Spec => []SuccessPosted
<1>1. PostedInv /\ [Next]_vars => PostedInv'
  BY CallTypesStep, WireStep, OutcomesPostedStep, OnWirePostedStep, HeldPostedStep
     DEF PostedInv, AnswersPosted, OutcomesPosted, OnWirePosted, HeldPosted
<1>2. PostedInv => SuccessPosted
  BY DEF PostedInv, AnswersPosted, SuccessPosted, Call, CallTypes
<1> QED
  BY <1>1, <1>2, PostedInit, PTL DEF Spec

------------------------------------------------------------------------------
(* Whose answer it is                                                      *)

LEMMA TiedKept ==
  ASSUME IdsLast, TableInv, [Next]_vars, NEW i, NEW c, Tied(i, c)
  PROVE  Tied(i, c)'
<1>1. /\ i \in 1..seqID /\ pending[i] \in {NoCall, c} /\ seqID \in Nat /\ i \in Ids
      /\ \A q \in Callers : pc[q] \in Numbered /\ id[q] = i => Call(q) = c
  BY NilBusAssumption DEF Tied, TableInv, CallTypes, Ids
<1>2. CASE UNCHANGED book
  BY <1>1, <1>2 DEF Tied, book, Call
<1>3. ASSUME NEW p \in Callers, Walks(p) \/ Retries(p) PROVE Tied(i, c)'
  <2>1. \A q \in Callers : /\ pc'[q] \in Numbered <=> pc[q] \in Numbered
                           /\ pc[q] \in Numbered => attempt'[q] = attempt[q]
    BY <1>3 DEF Walks, Retries, Moves, Numbered, Registered, TableInv, CallTypes
  <2> QED
    BY <1>1, <1>3, <2>1 DEF Tied, Walks, Retries, Call
<1>4. ASSUME NEW p \in Callers, CallNumber(p) PROVE Tied(i, c)'
  <2>1. seqID' = seqID + 1 /\ id' = [id EXCEPT ![p] = seqID + 1]
    BY <1>4, NumberGrows DEF TableInv
  <2>2. pc[p] = "number" /\ pc' = [pc EXCEPT ![p] = "register"] /\ UNCHANGED <<pending, attempt>>
    BY <1>4 DEF CallNumber, Goto
  <2> QED
    BY <1>1, <2>1, <2>2 DEF Tied, Call, TableInv, CallTypes
<1>5. ASSUME NEW p \in Callers, CallRegister(p) \/ CallUnregister(p) PROVE Tied(i, c)'
  <2>1. /\ UNCHANGED <<seqID, attempt, id>> /\ pc[p] \in Numbered
        /\ \A q \in Callers : pc'[q] \in Numbered => pc[q] \in Numbered
    BY <1>5 DEF CallRegister, CallUnregister, Goto, Numbered, Registered, TableInv, CallTypes
  <2>2. pending'[i] \in {NoCall, c}
    BY <1>1, <1>5, <2>1 DEF CallRegister, CallUnregister, TableInv, CallTypes
  <2> QED
    BY <1>1, <2>1, <2>2 DEF Tied, Call
<1> QED
  BY <1>2, <1>3, <1>4, <1>5, CallerMoves, OthersFrame DEF Next, TableInv

LEMMA RequestsTied ==
  ASSUME IdsLast, TableInv, OwnInv, [Next]_vars
  PROVE  \A r \in requests' : Tied(r.id, r.call)'
<1>1. \A i, c : Tied(i, c) => Tied(i, c)'
  BY TiedKept
<1>2. \A r \in requests : Tied(r.id, r.call)
  BY DEF OwnInv
<1>3. CASE requests' \subseteq requests
  BY <1>1, <1>2, <1>3
<1>4. ASSUME NEW p \in Callers, CallWrite(p), ~(requests' \subseteq requests)
      PROVE  \A r \in requests' : Tied(r.id, r.call)'
  <2>1. requests' = requests \cup {[conn |-> via[p], id |-> id[p], call |-> Call(p)]} /\ pc[p] = "write"
    BY <1>4 DEF CallWrite
  <2>2. Tied(id[p], Call(p))
    BY <2>1 DEF Tied, TableInv, NumbersOwn, PendingInProgress, Numbered, Registered
  <2> QED
    BY <1>1, <1>2, <2>1, <2>2
<1> QED
  BY <1>3, <1>4 DEF Next, vars, busVars, InitBus, Shutdown, Notify, CallStep, CallCheck, CallNumber, CallRegister,
     CallConn, CallAnswered, CallTimeout, CallUnregister, NotifyReturn, LoopStep, LoopConn, LoopExit,
     LoopHeader, LoopPayload, LoopLookup, LoopDeliver, BusAnswer, BusHangUp

OwnChans == \A c \in Calls : chan[c] = <<>> \/ chan[c] = <<c>>

LEMMA ChansStep ==
  ASSUME TableInv, WireTypes, OwnInv, [Next]_vars
  PROVE  OwnChans'
<1>1. OwnChans
  BY DEF OwnInv, OwnChans
<1>2. CASE chan' = chan
  BY <1>1, <1>2 DEF OwnChans
<1>3. ASSUME NEW p \in Callers, CallAnswered(p) PROVE OwnChans'
  BY <1>1, <1>3 DEF CallAnswered, OwnChans, WireTypes
<1>4. ASSUME NEW l \in Loops, LoopDeliver(l) PROVE OwnChans'
  <2>1. target[l] = payload[l]
    BY <1>4 DEF LoopDeliver, LoopGoto, OwnInv, InHand, Loops
  <2> QED
    BY <1>1, <1>4, <2>1 DEF LoopDeliver, OwnChans, WireTypes
<1> QED
  BY <1>2, <1>3, <1>4 DEF Next, vars, InitBus, Shutdown, Notify, CallStep, CallCheck, CallNumber, CallRegister,
     CallConn, CallWrite, CallTimeout, CallUnregister, NotifyReturn, LoopStep, LoopConn, LoopExit,
     LoopHeader, LoopPayload, LoopLookup, BusAnswer, BusHangUp

LEMMA AnswersStep ==
  ASSUME TableInv, OwnInv, [Next]_vars
  PROVE  AnswersOwn'
<1>1. AnswersOwn
  BY DEF OwnInv
<1>2. CASE UNCHANGED book
  BY <1>1, <1>2 DEF AnswersOwn, book
<1>3. ASSUME NEW p \in Callers, CallAnswered(p) PROVE AnswersOwn'
  <2>1. chan[Call(p)] = <<Call(p)>>
    BY <1>3 DEF CallAnswered, OwnInv, Call, Calls, TableInv, CallTypes
  <2> QED
    BY <1>1, <1>3, <2>1 DEF CallAnswered, Ends, AnswersOwn, TableInv, CallTypes
<1>4. ASSUME NEW p \in Callers, (Notify(p) \/ CallStep(p)) /\ ~CallAnswered(p) PROVE AnswersOwn'
  BY <1>1, <1>4 DEF AnswersOwn, Notify, CallStep, CallCheck, CallNumber, CallRegister, CallConn, CallWrite,
     CallTimeout, CallUnregister, NotifyReturn, Ends, TableInv, CallTypes
<1> QED
  BY <1>2, <1>3, <1>4, OthersFrame DEF Next

\* A stream without its first token, and with another answer at its end.
LEMMA FramedTail ==
  ASSUME NEW s \in Seq(Tokens), s # <<>>, Framed(s)
  PROVE  /\ Framed(Tail(s))
         /\ s[1].kind = "header" => /\ Tail(s) # <<>> /\ Tail(s)[1].kind = "payload"
                                    /\ Tied(s[1].id, Tail(s)[1].call)
         /\ s[1].kind = "payload" /\ Tail(s) # <<>> => Tail(s)[1].kind = "header"
<1>1. /\ 1 \in DOMAIN s /\ Len(Tail(s)) = Len(s) - 1 /\ DOMAIN Tail(s) = 1..(Len(s) - 1) /\ DOMAIN s = 1..Len(s)
      /\ \A k \in DOMAIN Tail(s) : k + 1 \in DOMAIN s /\ Tail(s)[k] = s[k + 1]
      /\ \A k \in Nat : k + 1 \in DOMAIN s /\ k # 0 => k \in DOMAIN Tail(s)
      /\ Tail(s) # <<>> <=> 2 \in DOMAIN s
  <2>1. /\ Len(s) \in Nat /\ Len(s) # 0 /\ DOMAIN s = 1..Len(s) /\ Tail(s) \in Seq(Tokens)
        /\ Len(Tail(s)) = Len(s) - 1 /\ DOMAIN Tail(s) = 1..(Len(s) - 1)
    OBVIOUS
  <2>2. \A k \in 1..(Len(s) - 1) : Tail(s)[k] = s[k + 1]
    OBVIOUS
  <2>3. Tail(s) # <<>> <=> Len(Tail(s)) # 0
    BY <2>1
  <2> QED
    BY <2>1, <2>2, <2>3
<1>2. \A k \in DOMAIN Tail(s) : /\ k \in Nat /\ k + 1 \in Nat /\ (k + 1) + 1 \in DOMAIN s => k + 1 \in DOMAIN Tail(s)
  BY <1>1
<1>3. Framed(Tail(s))
  <2> DEFINE u == Tail(s)
  <2>1. \A k \in DOMAIN u : k + 1 \in DOMAIN s /\ u[k] = s[k + 1]
    BY <1>1
  <2>2. \A k \in DOMAIN u : k + 1 \in DOMAIN u => (k + 1) + 1 \in DOMAIN s /\ u[k + 1] = s[(k + 1) + 1]
    BY <2>1
  <2>3. \A k \in DOMAIN u : /\ u[k].kind = "header" => /\ (k + 1) + 1 \in DOMAIN s
                                                       /\ s[(k + 1) + 1].kind = "payload"
                                                       /\ Tied(u[k].id, s[(k + 1) + 1].call)
                            /\ u[k].kind = "payload" /\ (k + 1) + 1 \in DOMAIN s => s[(k + 1) + 1].kind = "header"
    BY <2>1 DEF Framed
  <2> HIDE DEF u
  <2>4. \A k \in DOMAIN u : (k + 1) + 1 \in DOMAIN s => k + 1 \in DOMAIN u
    BY <1>2 DEF u
  <2>5. Framed(u)
    BY <2>2, <2>3, <2>4 DEF Framed
  <2> QED
    BY <2>5 DEF u
<1>4. /\ s[1].kind = "header" => 2 \in DOMAIN s /\ s[2].kind = "payload" /\ Tied(s[1].id, s[2].call)
      /\ s[1].kind = "payload" /\ 2 \in DOMAIN s => s[2].kind = "header"
  <2>1. 1 + 1 = 2
    OBVIOUS
  <2> QED
    BY <1>1, <2>1 DEF Framed
<1>5. 2 \in DOMAIN s => Tail(s)[1] = s[2]
  BY <1>1
<1> QED
  BY <1>1, <1>3, <1>4, <1>5

LEMMA FramedAnswer ==
  ASSUME NEW s \in Seq(Tokens), NEW t \in Seq(Tokens), NEW i, NEW c, Framed(s), Tied(i, c),
         Len(t) = Len(s) + 2, \A k \in DOMAIN s : t[k] = s[k],
         t[Len(s) + 1] = [kind |-> "header", id |-> i], t[Len(s) + 2] = [kind |-> "payload", call |-> c]
  PROVE  Framed(t)
<1> DEFINE n == Len(s)
<1>1. n \in Nat /\ DOMAIN s = 1..n /\ DOMAIN t = 1..(n + 2)
  OBVIOUS
<1>2. /\ t[n + 1].kind = "header" /\ t[n + 1].id = i
      /\ t[n + 2].kind = "payload" /\ t[n + 2].call = c
  OBVIOUS
<1> HIDE DEF n
<1> SUFFICES ASSUME NEW k \in DOMAIN t
    PROVE  /\ t[k].kind = "header" => /\ k + 1 \in DOMAIN t
                                      /\ t[k + 1].kind = "payload" /\ Tied(t[k].id, t[k + 1].call)
           /\ t[k].kind = "payload" /\ k + 1 \in DOMAIN t => t[k + 1].kind = "header"
  BY DEF Framed
<1>3. CASE k \in 1..n
  <2>1. /\ t[k] = s[k] /\ k \in DOMAIN s
        /\ s[k].kind = "header" => k + 1 \in DOMAIN s /\ s[k + 1].kind = "payload" /\ Tied(s[k].id, s[k + 1].call)
        /\ s[k].kind = "payload" /\ k + 1 \in DOMAIN s => s[k + 1].kind = "header"
    BY <1>1, <1>3 DEF Framed
  <2>2. CASE k + 1 \in DOMAIN s
    <3>1. t[k + 1] = s[k + 1] /\ k + 1 \in DOMAIN t
      BY <1>1, <2>2
    <3> QED
      BY <2>1, <2>2, <3>1
  <2>3. CASE k + 1 \notin DOMAIN s
    <3>1. k = n
      BY <1>1, <1>3, <2>3
    <3> QED
      BY <1>1, <1>2, <2>1, <2>3, <3>1
  <2> QED
    BY <2>2, <2>3
<1>4. CASE k = n + 1
  <2>1. k + 1 = n + 2
    BY <1>1, <1>4
  <2> QED
    BY <1>1, <1>2, <1>4, <2>1
<1>5. CASE k = n + 2
  <2>1. k + 1 \notin DOMAIN t
    BY <1>1, <1>5
  <2> QED
    BY <1>2, <1>5, <2>1
<1> QED
  BY <1>1, <1>3, <1>4, <1>5

\* What the loop reads and holds, as long as nobody else reads.
Reading == Framed(stream[1]) /\ InStep(1, stream[1]) /\ InHand(1)

LEMMA ReadingKept ==
  ASSUME IdsLast, TableInv, [Next]_vars, Reading, UNCHANGED <<stream, hold, target, payload>>,
         \/ lpc'[1] = lpc[1] \/ lpc'[1] = "exited"
         \/ lpc[1] = "unborn" /\ lpc'[1] = "header"
         \/ lpc[1] = "header" /\ lpc'[1] = "readHeader"
         \/ lpc[1] = "payload" /\ lpc'[1] = "readPayload"
         \/ lpc[1] \in {"lookup", "deliver"} /\ lpc'[1] = "header"
  PROVE  Reading'
<1>1. \A i, c : Tied(i, c) => Tied(i, c)'
  BY TiedKept
<1>2. Framed(stream[1])'
  BY <1>1 DEF Reading, Framed
<1>3. InStep(1, stream[1])' /\ InHand(1)'
  BY <1>1 DEF Reading, InStep, InHand
<1> QED
  BY <1>2, <1>3 DEF Reading

\* With one connection there is one loop.
OneConn == MaxConns = 1

LEMMA LoopReading ==
  ASSUME IdsLast, OneConn, TableInv, WireTypes, Reading, [Next]_vars, NEW l \in Loops, LoopStep(l)
  PROVE  Reading'
<1>1. l = 1 /\ Conns = {1}
  BY DEF OneConn, Loops, Conns
<1>2. \A i, c : Tied(i, c) => Tied(i, c)'
  BY TiedKept
<1>3. lpc[1] \in LoopPlaces /\ stream[1] \in Seq(Tokens) /\ lpc \in [Loops -> LoopPlaces] /\ 1 \in Loops
  BY <1>1 DEF WireTypes
<1>4. CASE LoopConn(l) \/ LoopExit(l) \/ LoopDeliver(l)
  BY <1>1, <1>3, <1>4, ReadingKept DEF LoopConn, LoopExit, LoopDeliver, LoopGoto, busVars
<1>5. CASE Reads(l)
  <2> DEFINE s == stream[1]
  <2>1. /\ on[l] = 1 /\ s # <<>> /\ NextToken(l) = s[1] /\ stream' = [stream EXCEPT ![1] = Tail(s)]
        /\ s[1] \in Tokens
    <3>1. /\ on[l] \in Conns /\ stream[on[l]] # <<>>
          /\ NextToken(l) \in Tokens /\ NextToken(l) = stream[on[l]][1]
          /\ stream' = [stream EXCEPT ![on[l]] = Tail(stream[on[l]])]
      BY <1>5, ReadFacts
    <3>2. on[l] = 1
      BY <1>1, <3>1
    <3> QED
      BY <3>1, <3>2
  <2>2. stream'[1] = Tail(s)
    BY <1>1, <2>1 DEF WireTypes
  <2>3. /\ Framed(Tail(s))
        /\ s[1].kind = "header" => /\ Tail(s) # <<>> /\ Tail(s)[1].kind = "payload"
                                   /\ Tied(s[1].id, Tail(s)[1].call)
        /\ s[1].kind = "payload" /\ Tail(s) # <<>> => Tail(s)[1].kind = "header"
    BY <1>3, <2>1, FramedTail DEF Reading
  <2> HIDE DEF s
  <2>4. Framed(stream[1])'
    BY <1>2, <2>2, <2>3 DEF Framed
  <2>5. CASE LoopHeader(l)
    <3>1. lpc[1] = "readHeader" /\ s[1].kind = "header"
      BY <1>1, <2>1, <2>5 DEF LoopHeader, LoopGoto, Reading, InStep, s
    <3>2. lpc'[1] = "payload" /\ hold'[1] = s[1].id
      BY <1>1, <1>3, <2>1, <2>5, <3>1 DEF LoopHeader, LoopGoto, WireTypes
    <3>3. InStep(1, stream[1])' /\ InHand(1)'
      BY <1>2, <2>2, <2>3, <3>1, <3>2 DEF InStep, InHand
    <3> QED
      BY <2>4, <3>3 DEF Reading
  <2>6. CASE LoopPayload(l)
    <3>1. lpc[1] = "readPayload" /\ s[1].kind = "payload" /\ Tied(hold[1], s[1].call)
      BY <1>1, <2>6 DEF LoopPayload, LoopGoto, Reading, InStep, s
    <3>2. lpc'[1] = "lookup" /\ payload'[1] = s[1].call /\ hold' = hold
      BY <1>1, <1>3, <2>1, <2>6, <3>1 DEF LoopPayload, LoopGoto, WireTypes
    <3>3. InStep(1, stream[1])' /\ InHand(1)'
      BY <1>2, <2>2, <2>3, <3>1, <3>2 DEF InStep, InHand
    <3> QED
      BY <2>4, <3>3 DEF Reading
  <2>7. CASE ~LoopHeader(l) /\ ~LoopPayload(l)
    <3>1. stream' = stream
      BY <2>7 DEF LoopStep, LoopConn, LoopExit, LoopLookup, LoopDeliver, busVars
    <3>2. Len(Tail(s)) = Len(s) - 1 /\ Len(s) \in Nat
      BY <1>3, <2>1 DEF s
    <3>3. stream'[1] = s
      BY <3>1 DEF s
    <3> QED
      BY <2>2, <3>2, <3>3
  <2> QED
    BY <2>5, <2>6, <2>7
<1>6. CASE LoopLookup(l)
  <2>1. /\ lpc[1] = "lookup" /\ UNCHANGED <<stream, hold, payload>>
        /\ lpc'[1] = "header" \/ (lpc'[1] = "deliver" /\ pending[hold[1]] # NoCall)
        /\ target'[1] = pending[hold[1]]
    BY <1>1, <1>3, <1>6 DEF LoopLookup, LoopGoto, WireTypes, busVars
  <2>2. Tied(hold[1], payload[1])
    BY <2>1 DEF Reading, InHand
  <2>3. lpc'[1] = "deliver" => target'[1] = payload[1]
    BY <2>1, <2>2 DEF Tied
  <2>4. Framed(stream[1])'
    BY <1>2, <2>1 DEF Framed, Reading
  <2>5. InStep(1, stream[1])'
    BY <2>1 DEF InStep, Reading
  <2> QED
    BY <2>1, <2>3, <2>4, <2>5 DEF Reading, InHand
<1> QED
  BY <1>4, <1>5, <1>6 DEF LoopStep, LoopHeader, LoopPayload

LEMMA BusReading ==
  ASSUME IdsLast, OneConn, TableInv, WireTypes, Reading, [Next]_vars, NEW r \in requests, BusAnswer(r),
         Tied(r.id, r.call)
  PROVE  Reading'
<1> DEFINE s == stream[1]
           t == stream'[1]
<1>1. Conns = {1} /\ s \in Seq(Tokens)
  BY DEF OneConn, Conns, WireTypes
<1>2. /\ t \in Seq(Tokens) /\ Len(t) = Len(s) + 2 /\ \A k \in DOMAIN s : t[k] = s[k]
      /\ t[Len(s) + 1] = [kind |-> "header", id |-> r.id]
      /\ t[Len(s) + 2] = [kind |-> "payload", call |-> r.call]
  <2>1. /\ r \in [conn : Conns, id : Ids, call : Calls]
        /\ stream'[r.conn] \in Seq(Tokens) /\ Len(stream'[r.conn]) = Len(stream[r.conn]) + 2
        /\ \A k \in DOMAIN stream[r.conn] : stream'[r.conn][k] = stream[r.conn][k]
        /\ stream'[r.conn][Len(stream[r.conn]) + 1] = [kind |-> "header", id |-> r.id]
        /\ stream'[r.conn][Len(stream[r.conn]) + 2] = [kind |-> "payload", call |-> r.call]
    BY AnswerFacts
  <2>2. r.conn = 1
    BY <1>1, <2>1
  <2> QED
    BY <2>1, <2>2
<1>3. Framed(t)
  BY <1>1, <1>2, FramedAnswer DEF Reading
<1>4. \A i, c : Tied(i, c) => Tied(i, c)'
  BY TiedKept
<1>5. /\ s # <<>> => t # <<>> /\ t[1] = s[1]
      /\ s = <<>> => t[1].kind = "header"
  <2>1. s # <<>> => 1 \in DOMAIN s
    BY <1>1
  <2>2. s = <<>> => Len(s) = 0
    OBVIOUS
  <2>3. t # <<>>
    BY <1>1, <1>2
  <2>4. [kind |-> "header", id |-> r.id].kind = "header"
    OBVIOUS
  <2>5. s = <<>> => t[1] = [kind |-> "header", id |-> r.id]
    BY <1>2, <2>2
  <2> QED
    BY <1>2, <2>1, <2>3, <2>4, <2>5
<1> HIDE DEF s, t
<1>6. UNCHANGED <<lpc, hold, target, payload>>
  BY DEF BusAnswer, loopVars
<1>7. Framed(stream[1])'
  BY <1>3, <1>4 DEF Framed, t
<1>8. InStep(1, stream[1])' /\ InHand(1)'
  BY <1>4, <1>5, <1>6 DEF InStep, InHand, Reading, s, t
<1> QED
  BY <1>7, <1>8 DEF Reading

LEMMA OwnStep ==
  ASSUME IdsLast, OneConn, TableInv, WireTypes, OwnInv, [Next]_vars
  PROVE  OwnInv'
<1>1. Conns = {1} /\ Loops = {1} /\ Reading
  BY DEF OneConn, Conns, Loops, OwnInv, Reading
<1>2. ASSUME UNCHANGED <<stream, hold, target, payload>>,
             lpc'[1] = lpc[1] \/ (lpc[1] = "unborn" /\ lpc'[1] = "header")
      PROVE  Reading'
  BY <1>1, <1>2, ReadingKept
<1>3. ASSUME InitBus PROVE Reading'
  <2>1. UNCHANGED <<stream, hold, target, payload>>
    BY <1>3 DEF InitBus, busVars
  <2>2. lpc'[1] = lpc[1] \/ (lpc[1] = "unborn" /\ lpc'[1] = "header")
    BY <1>1, <1>3 DEF InitBus, LoopGoto, WireTypes
  <2> QED
    BY <1>2, <2>1, <2>2
<1>4. ASSUME NEW r \in requests, BusAnswer(r) PROVE Reading'
  BY <1>1, <1>4, BusReading DEF OwnInv
<1>5. ASSUME NEW l \in Loops, LoopStep(l) PROVE Reading'
  BY <1>1, <1>5, LoopReading
<1>6. ASSUME NEW p \in Callers, Notify(p) \/ CallStep(p) PROVE Reading'
  <2>1. UNCHANGED <<stream, hold, target, payload>> /\ lpc' = lpc
    BY <1>6 DEF loopVars, busVars, Notify, CallStep, CallCheck, CallNumber, CallRegister, CallConn, CallWrite,
       CallAnswered, CallTimeout, CallUnregister, NotifyReturn
  <2> QED
    BY <1>2, <2>1
<1>7. ASSUME Shutdown \/ UNCHANGED vars \/ \E c \in Conns : BusHangUp(c) PROVE Reading'
  <2>1. UNCHANGED <<stream, hold, target, payload>> /\ lpc' = lpc
    BY <1>7 DEF vars, loopVars, busVars, Shutdown, BusHangUp
  <2> QED
    BY <1>2, <2>1
<1>8. Reading'
  BY <1>3, <1>4, <1>5, <1>6, <1>7 DEF Next
<1>9. \A c \in Conns : Framed(stream[c])' /\ InStep(c, stream[c])' /\ InHand(c)'
  BY <1>1, <1>8 DEF Reading
<1>10. (\A r \in requests : Tied(r.id, r.call))'
  BY RequestsTied
<1>11. (\A c \in Calls : chan[c] = <<>> \/ chan[c] = <<c>>)'
  BY ChansStep DEF OwnChans
<1>12. AnswersOwn'
  BY AnswersStep
<1> QED
  BY <1>9, <1>10, <1>11, <1>12 DEF OwnInv

\* On one connection a Call returns the answer to its own request or an error,
\* for any number of callers and however late answers come, while the ids last
\* (Call and readLoop).  With a second connection it does not: see the run
\* NilBusReconnect.
THEOREM OwnAnswers ==
  ASSUME IdsLast, OneConn
  PROVE  Spec => []AnswersOwn
<1> DEFINE Inv == TableInv /\ WireTypes /\ OwnInv
<1>1. Init => Inv
  <2>1. Init => OwnInv
    BY DEF Init, OwnInv, Framed, InStep, InHand, AnswersOwn, Loops
  <2> QED
    BY <2>1, TableInit, WireInit
<1>2. Inv /\ [Next]_vars => Inv'
  BY TableStep, WireStep, OwnStep DEF TableInv
<1>3. Inv => AnswersOwn
  BY DEF OwnInv
<1> HIDE DEF Inv
<1> QED
  BY <1>1, <1>2, <1>3, PTL DEF Spec

==============================================================================
