--------------------------------- MODULE VM ----------------------------------
(***************************************************************************)
(* runtime/vm/vm.go: the virtual machine, one instruction a step, on the   *)
(* module of the program it runs.  A thread is one goroutine and its       *)
(* frames: the first is Run's, SPAWN_TASK adds one, and all of them share  *)
(* the stack, the globals and the heap.  A frame keeps the stack beneath   *)
(* its call; its length is the code's stackBefore.  Left out: the UI       *)
(* instructions, native functions, those instructions that are never       *)
(* generated, and the races of two tasks within one instruction.           *)
(***************************************************************************)
EXTENDS Values, FiniteSetsExt

CONSTANT Modules  \* of each program its functions, the first of them __main__

Instructions == [op : STRING, n : Int, s : STRING]

\* Only an integer may be negative: what is counted is not, nor where a jump
\* leads to.
Functions ==
  {f \in [name : STRING, code : Seq(Instructions), slots : Nat] :
     \A i \in DOMAIN f.code : f.code[i].op # "LOAD_INT" => f.code[i].n \in Nat}

ASSUME ModulesAssumption ==
  \A p \in DOMAIN Modules : Modules[p] \in Seq(Functions) /\ Modules[p] # <<>>

VARIABLES prog,      \* which program runs
          module,    \* vm.module
          threads,   \* the goroutines, each [task, frames, failed]
          stack,     \* vm.stack
          globals,   \* vm.globals
          heap,      \* what arrays and objects refer to
          output,    \* the lines printed, each a sequence of texts
          panicked   \* the process died

vars == <<prog, module, threads, stack, globals, heap, output, panicked>>

------------------------------------------------------------------------------
(* Functions and frames                                                    *)

Named(name) == {f \in DOMAIN module : module[f].name = name}

\* Of two functions of one name the global is the last and findFunction's the
\* first.
NewGlobals ==
  [name \in {module[f].name : f \in DOMAIN module} |->
     FuncVal(Max(Named(name)), name)]
  @@ "__nil__" :> Nil @@ "__true__" :> BoolVal(TRUE) @@ "__false__" :> BoolVal(FALSE)

FindFunction(name) == FuncVal(Min(Named(name)), name)

\* What a call of this value calls.
Resolve(callee) ==
  CASE callee.kind = "string" /\ Named(callee.s) # {} -> FindFunction(callee.s)
    [] callee.kind = "string" /\ Named(callee.s) = {}
         /\ callee.s \in DOMAIN globals -> globals[callee.s]
    [] OTHER -> callee

\* Arguments past the locals are dropped.
NewFrame(f, args, base, swallow) ==
  [fn |-> f, ip |-> 0, kept |-> base, swallow |-> swallow,
   locals |-> [i \in 0..(module[f].slots - 1) |->
                 IF i < Len(args) THEN args[i + 1] ELSE Nil]]

\* A goroutine that has still to call a value, or is in these frames.
Goroutine(task, frames) == [task |-> task, frames |-> frames, failed |-> FALSE]

Frames(t) == threads[t].frames
Frame(t)  == Last(Frames(t))
Code(t)   == module[Frame(t).fn].code

Running(t) == ~panicked /\ Frames(t) # <<>>
Fetch(t, ops) ==
  /\ Running(t)
  /\ Frame(t).ip < Len(Code(t))
  /\ Code(t)[Frame(t).ip + 1].op \in ops

Ins(t) == Code(t)[Frame(t).ip + 1]

\* Popping an empty stack gives Nil.
Top(k)  == IF k <= Len(stack) THEN stack[Len(stack) + 1 - k] ELSE Nil
Rest(k) == SubSeq(stack, 1, Len(stack) - k)

\* The n values beneath the k topmost, in the order they were pushed.
Popped(n, k) == [i \in 1..n |-> Top(k + n + 1 - i)]

With(t, frame)   == [Frames(t) EXCEPT ![Len(Frames(t))] = frame]
Advanced(t)      == With(t, [Frame(t) EXCEPT !.ip = @ + 1])
Put(t, frames)   == threads' = [threads EXCEPT ![t].frames = frames]
Continue(t)      == Put(t, Advanced(t))
Goto(t, target)  == Put(t, With(t, [Frame(t) EXCEPT !.ip = target]))

Init ==
  /\ prog \in DOMAIN Modules
  /\ module = Modules[prog]
  /\ threads = <<Goroutine(<<>>, <<NewFrame(1, <<>>, <<>>, FALSE)>>)>>
  /\ stack = <<>>
  /\ globals = NewGlobals
  /\ heap = <<>>
  /\ output = <<>>
  /\ panicked = FALSE

------------------------------------------------------------------------------
(* Instructions on the stack, the variables and the heap                   *)

\* What an instruction of these pushes.
Literal(t) ==
  LET op == Ins(t).op IN
  CASE op = "LOAD_NULL"  -> Nil
    [] op = "LOAD_TRUE"  -> BoolVal(TRUE)
    [] op = "LOAD_FALSE" -> BoolVal(FALSE)
    [] op = "LOAD_INT"   -> IntVal(Ins(t).n)
    [] op = "LOAD_CONST" -> StrVal(Ins(t).s)
    [] op = "LOAD_LOCAL" -> IF Ins(t).n \in DOMAIN Frame(t).locals
                            THEN Frame(t).locals[Ins(t).n] ELSE Nil
    [] op = "DUP"        -> Top(1)

Load(t) ==
  /\ Fetch(t, {"LOAD_NULL", "LOAD_TRUE", "LOAD_FALSE", "LOAD_INT", "LOAD_CONST",
               "LOAD_LOCAL", "DUP"})
  /\ stack' = Append(stack, Literal(t))
  /\ Continue(t)
  /\ UNCHANGED <<prog, module, globals, heap, output, panicked>>

StoreLocal(t) ==
  /\ Fetch(t, {"STORE_LOCAL"})
  /\ stack' = Rest(1)
  /\ Put(t, With(t, [Frame(t) EXCEPT !.ip = @ + 1,
                                     !.locals = (Ins(t).n :> Top(1)) @@ @]))
  /\ UNCHANGED <<prog, module, globals, heap, output, panicked>>

LoadGlobal(t) ==
  /\ Fetch(t, {"LOAD_GLOBAL"})
  /\ stack' = Append(Rest(1),
       CASE StrOf(Top(1)) \in DOMAIN globals -> globals[StrOf(Top(1))]
         [] OTHER                            -> Nil)
  /\ Continue(t)
  /\ UNCHANGED <<prog, module, globals, heap, output, panicked>>

StoreGlobal(t) ==
  /\ Fetch(t, {"STORE_GLOBAL"})
  /\ globals' = (StrOf(Top(1)) :> Top(2)) @@ globals
  /\ stack' = Rest(2)
  /\ Continue(t)
  /\ UNCHANGED <<prog, module, heap, output, panicked>>

LoadField(t) ==
  LET got == Field(heap, Top(2), StrOf(Top(1))) IN
  /\ Fetch(t, {"LOAD_FIELD"})
  /\ stack' = Append(Rest(2), got.value)
  /\ heap' = got.heap
  /\ Continue(t)
  /\ UNCHANGED <<prog, module, globals, output, panicked>>

\* The value stored stays on the stack; only an object keeps it.
StoreField(t) ==
  /\ Fetch(t, {"STORE_FIELD"})
  /\ stack' = Rest(2)
  /\ heap' = IF Top(2).kind = "object" THEN SetField(heap, Top(2), StrOf(Top(1)), Top(3))
             ELSE heap
  /\ Continue(t)
  /\ UNCHANGED <<prog, module, globals, output, panicked>>

LoadIndex(t) ==
  /\ Fetch(t, {"LOAD_INDEX"})
  /\ stack' = Append(Rest(2), Index(heap, Top(2), Top(1)))
  /\ Continue(t)
  /\ UNCHANGED <<prog, module, globals, heap, output, panicked>>

\* Slip: one value too many.
PopTwo(t) ==
  /\ Fetch(t, {"POP"})
  /\ stack' = Rest(2)
  /\ Continue(t)
  /\ UNCHANGED <<prog, module, globals, heap, output, panicked>>

Pop(t) ==
  /\ Fetch(t, {"POP"})
  /\ stack' = Rest(1)
  /\ Continue(t)
  /\ UNCHANGED <<prog, module, globals, heap, output, panicked>>

BinaryOp(t) ==
  /\ Fetch(t, Operators)
  /\ stack' = Append(Rest(2), Binary(heap, Ins(t).op, Top(2), Top(1)))
  /\ Continue(t)
  /\ UNCHANGED <<prog, module, globals, heap, output, panicked>>

UnaryOp(t) ==
  /\ Fetch(t, {"NOT", "NEG"})
  /\ stack' = Append(Rest(1), Unary(Ins(t).op, Top(1)))
  /\ Continue(t)
  /\ UNCHANGED <<prog, module, globals, heap, output, panicked>>

NewArray(t) ==
  LET n == Ins(t).n IN
  /\ Fetch(t, {"NEW_ARRAY"})
  /\ heap' = NewElems(heap, Popped(n, 0))
  /\ stack' = Append(Rest(n), ArrayVal(Len(heap'), 0, n))
  /\ Continue(t)
  /\ UNCHANGED <<prog, module, globals, output, panicked>>

\* n keys, each with its value above it; a later pair replaces an earlier one.
NewObject(t) ==
  LET n == Ins(t).n
      fields == FoldLeft(LAMBDA fs, i : (Text(heap, Popped(2 * n, 0)[2 * i - 1]) :>
                                           Popped(2 * n, 0)[2 * i]) @@ fs,
                         <<>>, [i \in 1..n |-> i])
  IN
  /\ Fetch(t, {"NEW_OBJECT"})
  /\ heap' = NewFields(heap, fields)
  /\ stack' = Append(Rest(2 * n), ObjVal(Len(heap')))
  /\ Continue(t)
  /\ UNCHANGED <<prog, module, globals, output, panicked>>

NewClass(t) ==
  /\ Fetch(t, {"NEW_CLASS"})
  /\ heap' = NewFields(heap, "__class__" :> Top(1))
  /\ stack' = Append(Rest(1), ObjVal(Len(heap')))
  /\ Continue(t)
  /\ UNCHANGED <<prog, module, globals, output, panicked>>

\* Nothing is pushed.
PrintLine(t) ==
  LET n == Ins(t).n IN
  /\ Fetch(t, {"PRINT"})
  /\ output' = Append(output, [i \in 1..n |-> Text(heap, Popped(n, 0)[i])])
  /\ stack' = Rest(n)
  /\ Continue(t)
  /\ UNCHANGED <<prog, module, globals, heap, panicked>>

\* No value is a channel.
ChanSend(t) ==
  /\ Fetch(t, {"CHAN_SEND"})
  /\ stack' = Rest(2)
  /\ Continue(t)
  /\ UNCHANGED <<prog, module, globals, heap, output, panicked>>

ChanRecv(t) ==
  /\ Fetch(t, {"CHAN_RECV"})
  /\ stack' = Append(Rest(1), Nil)
  /\ Continue(t)
  /\ UNCHANGED <<prog, module, globals, heap, output, panicked>>

------------------------------------------------------------------------------
(* Control                                                                 *)

\* Await, try and catch do nothing: no handler is ever installed.
Nothing(t) ==
  /\ Fetch(t, {"AWAIT", "TRY_BEGIN", "TRY_END", "CATCH_BEGIN"})
  /\ Continue(t)
  /\ UNCHANGED <<prog, module, stack, globals, heap, output, panicked>>

Jump(t) ==
  /\ Fetch(t, {"JUMP"})
  /\ Goto(t, Ins(t).n)
  /\ UNCHANGED <<prog, module, stack, globals, heap, output, panicked>>

\* Slip: the condition is looked at and left.
JumpIfFalsePeeks(t) ==
  /\ Fetch(t, {"JUMP_IF_FALSE"})
  /\ IF Truthy(Top(1)) THEN Continue(t) ELSE Goto(t, Ins(t).n)
  /\ UNCHANGED <<prog, module, stack, globals, heap, output, panicked>>

JumpIfFalse(t) ==
  /\ Fetch(t, {"JUMP_IF_FALSE"})
  /\ stack' = Rest(1)
  /\ IF Truthy(Top(1)) THEN Continue(t) ELSE Goto(t, Ins(t).n)
  /\ UNCHANGED <<prog, module, globals, heap, output, panicked>>

\* An error ends every call up to a method call, which gives Nil instead, or
\* the goroutine; what the calls had pushed stays.
Fail(t, frames, left) ==
  LET calls == {k \in DOMAIN frames : frames[k].swallow} IN
  IF calls = {}
  THEN /\ threads' = [threads EXCEPT ![t].frames = <<>>, ![t].failed = TRUE]
       /\ stack' = left
  ELSE /\ Put(t, SubSeq(frames, 1, Max(calls) - 1))
       /\ stack' = Append(left, Nil)

Invoke(t, callee, args, left, swallow) ==
  IF callee.kind = "func"
  THEN /\ Put(t, Append(Advanced(t), NewFrame(callee.n, args, left, swallow)))
       /\ stack' = left
  ELSE IF swallow
  THEN Continue(t) /\ stack' = Append(left, Nil)
  ELSE Fail(t, Advanced(t), left)

Call(t) ==
  LET n == Ins(t).n IN
  /\ Fetch(t, {"CALL"})
  /\ Invoke(t, Resolve(Top(n + 1)), Popped(n, 0), Rest(n + 1), FALSE)
  /\ UNCHANGED <<prog, module, globals, heap, output, panicked>>

\* f.call(...): the error of the function is dropped.
CallFunc(t) ==
  LET n == Ins(t).n IN
  /\ Fetch(t, {"CALL_METHOD"})
  /\ Top(n + 2).kind = "func" /\ StrOf(Top(1)) \in {"call", "apply"}
  /\ Invoke(t, Top(n + 2), Popped(n, 1), Rest(n + 2), TRUE)
  /\ UNCHANGED <<prog, module, globals, heap, output, panicked>>

CallMethod(t) ==
  LET n    == Ins(t).n
      name == StrOf(Top(1))
      got  == Method(heap, Top(n + 2), name, Popped(n, 1))
  IN
  /\ Fetch(t, {"CALL_METHOD"})
  /\ ~(Top(n + 2).kind = "func" /\ name \in {"call", "apply"})
  /\ IF Top(n + 2).kind = "array" /\ name = "slice"
          /\ SlicePanics(heap, Top(n + 2), Popped(n, 1))
     THEN panicked' = TRUE /\ UNCHANGED <<stack, heap, threads>>
     ELSE /\ stack' = Append(Rest(n + 2), got.value)
          /\ heap' = got.heap
          /\ Continue(t)
          /\ UNCHANGED panicked
  /\ UNCHANGED <<prog, module, globals, output>>

Throw(t) ==
  /\ Fetch(t, {"THROW"})
  /\ Fail(t, Frames(t), Rest(1))
  /\ UNCHANGED <<prog, module, globals, heap, output, panicked>>

\* Leaves the frame with this stack: the caller takes the topmost value, or
\* Nil if the stack is no longer than it was; a task drops it.
Leave(t, left) ==
  LET more == Len(left) > Len(Frame(t).kept) IN
  /\ Put(t, Front(Frames(t)))
  /\ stack' = CASE Len(Frames(t)) > 1           -> IF more THEN left ELSE Append(left, Nil)
                [] Len(Frames(t)) = 1 /\ t = 1  -> left
                [] Len(Frames(t)) = 1 /\ t > 1  -> IF more THEN Front(left) ELSE left

Return(t) ==
  /\ Fetch(t, {"RETURN"})
  /\ Leave(t, Append(Rest(1), Top(1)))
  /\ UNCHANGED <<prog, module, globals, heap, output, panicked>>

ReturnVoid(t) ==
  /\ Fetch(t, {"RETURN_VOID"})
  /\ Leave(t, Append(stack, Nil))
  /\ UNCHANGED <<prog, module, globals, heap, output, panicked>>

Halt(t) ==
  /\ Fetch(t, {"HALT"})
  /\ Leave(t, stack)
  /\ UNCHANGED <<prog, module, globals, heap, output, panicked>>

SpawnTask(t) ==
  /\ Fetch(t, {"SPAWN_TASK"})
  /\ threads' = Append([threads EXCEPT ![t].frames = Advanced(t)], Goroutine(<<Top(1)>>, <<>>))
  /\ stack' = Rest(1)
  /\ UNCHANGED <<prog, module, globals, heap, output, panicked>>

\* A spawned goroutine begins; one that cannot call its value ends.
StartTask(t) ==
  LET callee == Resolve(threads[t].task[1]) IN
  /\ ~panicked
  /\ threads[t].task # <<>>
  /\ threads' = [threads EXCEPT ![t] =
       IF callee.kind = "func"
       THEN Goroutine(<<>>, <<NewFrame(callee.n, <<>>, stack, FALSE)>>)
       ELSE [Goroutine(<<>>, <<>>) EXCEPT !.failed = TRUE]]
  /\ UNCHANGED <<prog, module, stack, globals, heap, output, panicked>>

Step(t) ==
  \/ Load(t) \/ StoreLocal(t) \/ LoadGlobal(t) \/ StoreGlobal(t)
  \/ LoadField(t) \/ StoreField(t) \/ LoadIndex(t) \/ Pop(t)
  \/ BinaryOp(t) \/ UnaryOp(t) \/ NewArray(t) \/ NewObject(t) \/ NewClass(t)
  \/ PrintLine(t) \/ ChanSend(t) \/ ChanRecv(t) \/ Nothing(t)
  \/ Jump(t) \/ JumpIfFalse(t) \/ Call(t) \/ CallFunc(t) \/ CallMethod(t)
  \/ Throw(t) \/ Return(t) \/ ReturnVoid(t) \/ Halt(t) \/ SpawnTask(t) \/ StartTask(t)

Next == \E t \in DOMAIN threads : Step(t)

Spec == Init /\ [][Next]_vars

\* Some goroutine that can run always runs.
FairSpec == Spec /\ WF_vars(Next)

==============================================================================
