------------------------------ MODULE Discipline ------------------------------
(* What the functions of a module may do to the stack they share with their  *)
(* callers (runtime/vm/vm.go: push, pop, invoke), and what the callers keep. *)
EXTENDS VM

\* The values an instruction takes off the stack, and those it puts there; a
\* call counts with what it brings back.
Pops(ins) ==
  CASE ins.op \in {"LOAD_GLOBAL", "NOT", "NEG", "NEW_CLASS", "CHAN_RECV", "DUP", "POP",
                   "STORE_LOCAL", "JUMP_IF_FALSE", "SPAWN_TASK", "THROW", "RETURN"} -> 1
    [] ins.op \in Operators \cup {"LOAD_FIELD", "LOAD_INDEX", "STORE_GLOBAL", "CHAN_SEND"} -> 2
    [] ins.op = "STORE_FIELD"            -> 3
    [] ins.op \in {"NEW_ARRAY", "PRINT"} -> ins.n
    [] ins.op = "NEW_OBJECT"             -> 2 * ins.n
    [] ins.op = "CALL"                   -> ins.n + 1
    [] ins.op = "CALL_METHOD"            -> ins.n + 2
    [] OTHER                             -> 0

Pushes(ins) ==
  CASE ins.op = "DUP" -> 2
    [] ins.op \in {"POP", "STORE_LOCAL", "JUMP_IF_FALSE", "SPAWN_TASK", "THROW", "RETURN",
                   "STORE_GLOBAL", "CHAN_SEND", "PRINT", "RETURN_VOID", "HALT", "JUMP",
                   "AWAIT", "TRY_BEGIN", "TRY_END", "CATCH_BEGIN"} -> 0
    [] OTHER -> 1

\* Where the function goes on from an instruction.
Nexts(ip, ins) ==
  CASE ins.op = "JUMP"          -> {ins.n}
    [] ins.op = "JUMP_IF_FALSE" -> {ip + 1, ins.n}
    [] ins.op \in {"RETURN", "RETURN_VOID", "HALT", "THROW"} -> {}
    [] OTHER                    -> {ip + 1}

\* A function keeps to these heights, counted from the stack of its caller:
\* wherever it comes it has as many values of its own whichever way it came,
\* takes no more than those, and leaves with none but the one it returns.
KeepsTo(code, height) ==
  /\ 0 \in DOMAIN height /\ height[0] = 0
  /\ \A ip \in DOMAIN height :
       /\ ip \in 0..(Len(code) - 1) /\ height[ip] \in Nat
       /\ LET ins == code[ip + 1] IN
          /\ Pops(ins) \in 0..height[ip]
          /\ \A next \in Nexts(ip, ins) :
               next \in DOMAIN height /\ height[next] = height[ip] - Pops(ins) + Pushes(ins)
          /\ ins.op = "RETURN" => height[ip] = 1
          /\ ins.op \in {"RETURN_VOID", "HALT"} => height[ip] = 0

Disciplined(code) == \E height : KeepsTo(code, height)

\* A function works above the stack of its caller: what the caller had pushed
\* for an expression it is in the middle of is there until the function is
\* done (invoke's stackBefore, and the POP of every statement).
OperandsKept ==
  \A t \in DOMAIN threads : \A k \in DOMAIN Frames(t) : IsPrefix(Frames(t)[k].kept, stack)

\* A function that returns leaves its caller the stack it was called with and
\* the value returned, whatever loops and blocks it returns from.
ReturnsValue ==
  [][\A t \in DOMAIN threads :
       (Fetch(t, {"RETURN", "RETURN_VOID"}) /\ Len(Frames(t)) > 1
          /\ Len(threads'[t].frames) < Len(Frames(t))) =>
         stack' = Append(Frame(t).kept, IF Ins(t).op = "RETURN" THEN Top(1) ELSE Nil)]_vars

==============================================================================
