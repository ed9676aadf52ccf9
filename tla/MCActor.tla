------------------------------- MODULE MCActor -------------------------------
(* Instances of Actor for TLC.                                             *)
EXTENDS Actor, TLC

CONSTANTS c1, c2, c3, l1, l2, t1

Talk == {"Send", "Ask"}

\* c1 may start the actor, stop it and register a handler, c2 may start it
\* with the first of its calls: two Starts race, and a Stop and the restart
\* after it race with Sends and Asks.  Two loops are enough.
RestartCalls ==
  [c \in Clients |-> [k \in 1..MaxOps |->
     CASE k = 1 -> IF c = c1 THEN Methods ELSE Talk \cup {"Start"}
       [] k = 2 -> IF c = c1 THEN Talk \cup {"Stop"} ELSE Talk
       [] OTHER -> IF c = c1 THEN {} ELSE Talk]]

\* c1 starts the actor and then registers a handler, the others send.
LateOnCalls ==
  [c \in Clients |-> [k \in 1..MaxOps |->
     IF c # c1 THEN {"Send"} ELSE
     CASE k = 1 -> {"Start"} [] k = 2 -> {"On"} [] OTHER -> {}]]

==============================================================================
