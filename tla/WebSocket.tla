------------------------------ MODULE WebSocket -------------------------------
(***************************************************************************)
(* web/websocket/websocket.go: a Manager has a table of the clients by id; *)
(* Broadcast holds its lock for reading and puts a message in the queue of *)
(* each client that has room, in no particular order; Register and         *)
(* Unregister hold it for writing.  A client is registered and, later,     *)
(* unregistered once, by the connection it belongs to, which also empties  *)
(* its queue (external).  Two clients may have one id.  Left out: the      *)
(* rooms, which nothing fills.                                             *)
(***************************************************************************)
EXTENDS Integers, Sequences, FiniteSets

CONSTANTS Clients,   \* connections
          Id,        \* client -> its ID
          Casts,     \* calls of Broadcast, each with a message of its own
          Capacity   \* of a Send channel

VARIABLES clients,  \* the table: id -> client
          closed,   \* the clients whose Send channel is closed
          send,     \* client -> the messages in its Send channel
          state,    \* client -> "new", "live" or "gone"
          shared,   \* clients that had their id together with another one
          cast,     \* Broadcast -> "new", "running" or "done"
          left,     \* Broadcast -> the clients it has still to serve
          crashed,  \* something was sent on a closed channel
          got,      \* client -> the messages ever put in its channel
          due,      \* Broadcast -> who was to get its message
          missed    \* client -> the messages its channel had no room for

sockets == <<clients, closed, send, state, shared, cast, left, crashed, got, due, missed>>

\* A function without one of its arguments.
Drop(f, x) == [y \in DOMAIN f \ {x} |-> f[y]]

Put(f, x, v) == [y \in DOMAIN f \cup {x} |-> IF y = x THEN v ELSE f[y]]

Listed == {clients[i] : i \in DOMAIN clients}

SocketsInit ==
  /\ clients = [i \in {} |-> i] /\ closed = {} /\ crashed = FALSE /\ shared = {}
  /\ send = [c \in Clients |-> <<>>] /\ got = [c \in Clients |-> <<>>]
  /\ state = [c \in Clients |-> "new"] /\ missed = [c \in Clients |-> {}]
  /\ cast = [b \in Casts |-> "new"] /\ left = [b \in Casts |-> {}] /\ due = [b \in Casts |-> {}]

\* Nobody holds the lock for reading.
Unread == \A b \in Casts : cast[b] # "running"

Live == {c \in Clients : state[c] = "live"}

Register(c) ==
  /\ state[c] = "new" /\ Unread
  /\ clients' = Put(clients, Id[c], c)
  /\ state' = [state EXCEPT ![c] = "live"]
  /\ LET same == {d \in Live : Id[d] = Id[c]}
     IN  shared' = shared \cup same \cup (IF same = {} THEN {} ELSE {c})
  /\ UNCHANGED <<closed, send, cast, left, crashed, got, due, missed>>

\* Slip: the channel is closed and the client stays in the table.
UnregisterKeeps(c) ==
  /\ state[c] = "live" /\ Unread
  /\ closed' = closed \cup {c}
  /\ state' = [state EXCEPT ![c] = "gone"]
  /\ UNCHANGED <<clients, send, shared, cast, left, crashed, got, due, missed>>

\* Whoever has the id leaves the table.
Unregister(c) ==
  /\ state[c] = "live" /\ Unread
  /\ clients' = Drop(clients, Id[c])
  /\ closed' = closed \cup {c}
  /\ state' = [state EXCEPT ![c] = "gone"]
  /\ UNCHANGED <<send, shared, cast, left, crashed, got, due, missed>>

Broadcast(b) ==
  /\ cast[b] = "new"
  /\ cast' = [cast EXCEPT ![b] = "running"]
  /\ left' = [left EXCEPT ![b] = Listed]
  /\ due' = [due EXCEPT ![b] = Live \ shared]
  /\ UNCHANGED <<clients, closed, send, state, shared, crashed, got, missed>>

\* Slip: a client without room is waited for.
DeliverWaits(b, c) ==
  /\ c \in left[b] /\ Len(send[c]) < Capacity
  /\ left' = [left EXCEPT ![b] = @ \ {c}]
  /\ send' = [send EXCEPT ![c] = Append(@, b)]
  /\ got' = [got EXCEPT ![c] = Append(@, b)]
  /\ UNCHANGED <<clients, closed, state, shared, cast, crashed, due, missed>>

\* One client: a send on a closed channel takes the process down, room or not.
Deliver(b, c) ==
  /\ c \in left[b]
  /\ left' = [left EXCEPT ![b] = @ \ {c}]
  /\ crashed' = (crashed \/ c \in closed)
  /\ IF Len(send[c]) < Capacity
     THEN /\ send' = [send EXCEPT ![c] = Append(@, b)]
          /\ got' = [got EXCEPT ![c] = Append(@, b)]
          /\ UNCHANGED missed
     ELSE /\ missed' = [missed EXCEPT ![c] = @ \cup {b}]
          /\ UNCHANGED <<send, got>>
  /\ UNCHANGED <<clients, closed, state, shared, cast, due>>

Return(b) ==
  /\ cast[b] = "running" /\ left[b] = {}
  /\ cast' = [cast EXCEPT ![b] = "done"]
  /\ UNCHANGED <<clients, closed, send, state, shared, left, crashed, got, due, missed>>

\* The connection takes a message from the channel, as long as it likes to.
Receive(c) ==
  /\ send[c] # <<>>
  /\ send' = [send EXCEPT ![c] = Tail(@)]
  /\ UNCHANGED <<clients, closed, state, shared, cast, left, crashed, got, due, missed>>

SocketsNext ==
  \/ \E c \in Clients : Register(c) \/ Unregister(c) \/ Receive(c)
  \/ \E b \in Casts : Broadcast(b) \/ Return(b) \/ \E c \in Clients : Deliver(b, c)

SocketsSpec == SocketsInit /\ [][SocketsNext]_sockets

\* The goroutine in Broadcast is scheduled; connections need not read.
SocketsFairness ==
  \A b \in Casts : /\ WF_sockets(Return(b))
                   /\ \A c \in Clients : WF_sockets(Deliver(b, c))

------------------------------------------------------------------------------

\* No message is sent on a closed channel, which would end the process,
\* whatever ids the clients have: a client leaves the table before or as its
\* channel is closed (Unregister, Broadcast).
NeverOnClosed == ~crashed

Occurrences(s, b) == Cardinality({i \in DOMAIN s : s[i] = b})

\* Who was connected when a Broadcast began, and never shared its id, got the
\* message once or had no room for it; and nobody gets a message twice
\* (Register, Unregister, Broadcast).
EachOnce ==
  \A b \in Casts : \A c \in Clients :
    /\ Occurrences(got[c], b) <= 1
    /\ (cast[b] = "done" /\ c \in due[b]) =>
         (b \in missed[c]) # (Occurrences(got[c], b) = 1)

\* Clients come and go under any ids, and each hears each message once.
SocketsRight == NeverOnClosed /\ EachOnce

\* A Broadcast returns, however slow its clients are.
BroadcastsReturn == \A b \in Casts : cast[b] = "running" ~> cast[b] = "done"

==============================================================================
