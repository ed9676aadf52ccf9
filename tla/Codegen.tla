------------------------------- MODULE Codegen -------------------------------
(***************************************************************************)
(* compiler/codegen/codegen.go: NilLang syntax trees to NABC code.  A tree *)
(* is a record whose "is" names its kind; a generator g has the code, the  *)
(* locals and the number of slots of the current function, the jumps that  *)
(* wait for their target (the Go code keeps them in variables), those that *)
(* break and continue left open in each loop around it, and the functions  *)
(* done so far.  Jump targets count from 0.  A constant is its value, not  *)
(* its index in the pool.  Left out: the UI statements, floats and "**",   *)
(* integers beyond LOAD_INT, and a jump patched beyond the code (a panic). *)
(***************************************************************************)
EXTENDS Integers, Sequences, SequencesExt, TLC

New == [code |-> <<>>, locals |-> <<>>, slots |-> 0, open |-> <<>>,
        breaks |-> <<>>, continues |-> <<>>, functions |-> <<>>]

------------------------------------------------------------------------------
(* Emitting and patching                                                   *)

Emitted(g, ins) == [g EXCEPT !.code = Append(@, ins)]

Emit(g, op)        == Emitted(g, [op |-> op, n |-> 0, s |-> ""])
EmitInt(g, op, n)  == Emitted(g, [op |-> op, n |-> n, s |-> ""])
EmitConst(g, s)    == Emitted(g, [op |-> "LOAD_CONST", n |-> 0, s |-> s])

CurrentPos(g) == Len(g.code)

Patch(g, jumps, target) ==
  [g EXCEPT !.code = [i \in DOMAIN g.code |->
     IF i - 1 \in jumps THEN [g.code[i] EXCEPT !.n = target] ELSE g.code[i]]]

\* A jump to be patched; the last one left open leads here; so does the one
\* before it.
OpenJump(g, op) == EmitInt([g EXCEPT !.open = Append(@, CurrentPos(g))], op, 0)

Land(g) ==
  [Patch(g, {Last(g.open)}, CurrentPos(g)) EXCEPT !.open = Front(@)]

LandFirst(g) ==
  [Patch(g, {Last(Front(g.open))}, CurrentPos(g))
     EXCEPT !.open = Append(Front(Front(@)), Last(@))]

DefineLocal(g, name) ==
  [g EXCEPT !.locals = (name :> g.slots) @@ @, !.slots = @ + 1]

\* A value on the stack into a new local.
StoreNew(g, name) ==
  EmitInt(DefineLocal(g, name), "STORE_LOCAL", g.slots)

LookupLocal(g, name) == name \in DOMAIN g.locals

EnterLoop(g) ==
  [g EXCEPT !.breaks = Append(@, {}), !.continues = Append(@, {})]

\* break and continue jump from here to where the innermost loop says.
GenBreak(g) ==
  IF g.breaks = <<>> THEN g
  ELSE EmitInt([g EXCEPT !.breaks[Len(g.breaks)] = @ \cup {CurrentPos(g)}], "JUMP", 0)

GenContinue(g) ==
  IF g.continues = <<>> THEN g
  ELSE EmitInt([g EXCEPT !.continues[Len(g.continues)] =
                       @ \cup {CurrentPos(g)}], "JUMP", 0)

ContinueAt(g, target) == Patch(g, Last(g.continues), target)
ContinueHere(g)       == ContinueAt(g, CurrentPos(g))

\* Every break leaves the loop for here.
LeaveLoop(g) ==
  [Patch(g, Last(g.breaks), CurrentPos(g))
     EXCEPT !.breaks = Front(@), !.continues = Front(@)]

------------------------------------------------------------------------------
(* Expressions                                                             *)

RECURSIVE GenExpr(_, _), GenStmt(_, _)

GenExprs(g, es)   == FoldLeft(GenExpr, g, es)
GenBlock(g, body) == FoldLeft(GenStmt, g, body)

BinaryOpcode ==
  "+" :> "ADD" @@ "-" :> "SUB" @@ "*" :> "MUL" @@ "/" :> "DIV" @@ "%" :> "MOD"
    @@ "==" :> "EQ" @@ "!=" :> "NEQ" @@ "<" :> "LT" @@ ">" :> "GT"
    @@ "<=" :> "LTE" @@ ">=" :> "GTE"
    @@ "&&" :> "AND" @@ "||" :> "OR" @@ "??" :> "OR"

\* The operator of a compound assignment; "=" has none.
CompoundOpcode ==
  "+=" :> "ADD" @@ "-=" :> "SUB" @@ "*=" :> "MUL" @@ "/=" :> "DIV" @@ "%=" :> "MOD"

\* Slip: the operands the other way round.
GenBinarySwapped(g, e) ==
  Emit(GenExpr(GenExpr(g, e.right), e.left), BinaryOpcode[e.op])

\* Both operands are evaluated, those of && and || too.
GenBinary(g, e) ==
  Emit(GenExpr(GenExpr(g, e.left), e.right), BinaryOpcode[e.op])

GenIdentifier(g, e) ==
  IF e.name = "print" THEN g
  ELSE IF LookupLocal(g, e.name)
  THEN EmitInt(g, "LOAD_LOCAL", g.locals[e.name])
  ELSE Emit(EmitConst(g, e.name), "LOAD_GLOBAL")

\* The value stays on the stack; an element of an array is not stored.
GenAssign(g, e) ==
  LET value == IF e.op = "=" THEN GenExpr(g, e.right)
               ELSE Emit(GenExpr(GenExpr(g, e.left), e.right), CompoundOpcode[e.op])
      name  == e.left.name
  IN CASE e.left.is = "ident" /\ LookupLocal(value, name) ->
            EmitInt(Emit(value, "DUP"), "STORE_LOCAL", value.locals[name])
       [] e.left.is = "ident" /\ ~LookupLocal(value, name) ->
            Emit(EmitConst(Emit(value, "DUP"), name), "STORE_GLOBAL")
       [] e.left.is = "member" ->
            Emit(EmitConst(GenExpr(value, e.left.object), name), "STORE_FIELD")
       [] OTHER -> value

GenCall(g, e) ==
  LET argc == Len(e.args) IN
  CASE e.callee.is = "ident" /\ e.callee.name = "print" ->
         EmitInt(GenExprs(g, e.args), "PRINT", argc)
    [] e.callee.is = "member" ->
         EmitInt(EmitConst(GenExprs(GenExpr(g, e.callee.object), e.args),
                           e.callee.name), "CALL_METHOD", argc)
    [] OTHER ->
         EmitInt(GenExprs(GenExpr(g, e.callee), e.args), "CALL", argc)

GenTernary(g, e) ==
  LET then == GenExpr(OpenJump(GenExpr(g, e.test), "JUMP_IF_FALSE"), e.then)
  IN  Land(GenExpr(LandFirst(OpenJump(then, "JUMP")), e.else))

\* Back in the function g, with fn done.
Closed(g, fn, name, params) ==
  [g EXCEPT !.breaks = fn.breaks, !.continues = fn.continues,
            !.functions = Append(fn.functions,
     [name |-> name, code |-> fn.code, slots |-> fn.slots + Len(params) + 4])]

\* A function of its own, with the slots of its parameters first.  It knows
\* the loops around it: its break is left for the innermost of them to patch.
GenFunction(g, name, params, body) ==
  LET start == FoldLeft(DefineLocal, [g EXCEPT !.code = <<>>, !.locals = <<>>, !.slots = 0],
                        params)
  IN  Closed(g, Emit(GenBlock(start, body), "RETURN_VOID"), name, params)

\* An anonymous function is named for the functions there are, __main__ among
\* them, before its body is generated; its value is its name.
GenAnonymousFunc(g, params, body) ==
  LET name == "__anon_" \o ToString(Len(g.functions) + 1) \o "__"
  IN  EmitConst(GenFunction(g, name, params, body), name)

GenObject(g, e) ==
  EmitInt(FoldLeft(LAMBDA h, f : GenExpr(EmitConst(h, f.name), f.value), g, e.fields),
          "NEW_OBJECT", Len(e.fields))

\* The name of the class comes after the arguments.
GenNew(g, e) ==
  EmitInt(EmitConst(GenExprs(g, e.args), e.name), "NEW_OBJECT", Len(e.args))

GenExpr(g, e) ==
  CASE e.is = "int"     -> EmitInt(g, "LOAD_INT", e.n)
    [] e.is = "string"  -> EmitConst(g, e.s)
    [] e.is = "true"    -> Emit(g, "LOAD_TRUE")
    [] e.is = "false"   -> Emit(g, "LOAD_FALSE")
    [] e.is = "null"    -> Emit(g, "LOAD_NULL")
    [] e.is = "ident"   -> GenIdentifier(g, e)
    [] e.is = "binary"  -> GenBinary(g, e)
    [] e.is = "not"     -> Emit(GenExpr(g, e.operand), "NOT")
    [] e.is = "neg"     -> Emit(GenExpr(g, e.operand), "NEG")
    [] e.is = "assign"  -> GenAssign(g, e)
    [] e.is = "call"    -> GenCall(g, e)
    [] e.is = "member"  -> Emit(EmitConst(GenExpr(g, e.object), e.name), "LOAD_FIELD")
    [] e.is = "index"   -> Emit(GenExpr(GenExpr(g, e.object), e.index), "LOAD_INDEX")
    [] e.is = "new"     -> GenNew(g, e)
    [] e.is = "array"   -> EmitInt(GenExprs(g, e.elements), "NEW_ARRAY", Len(e.elements))
    [] e.is = "object"  -> GenObject(g, e)
    [] e.is = "await"   -> Emit(GenExpr(g, e.operand), "AWAIT")
    [] e.is = "receive" -> Emit(GenExpr(g, e.channel), "CHAN_RECV")
    [] e.is \in {"try", "as"} -> GenExpr(g, e.operand)
    [] e.is = "ternary" -> GenTernary(g, e)
    [] e.is = "arrow"   -> GenAnonymousFunc(g, e.params, e.body)

------------------------------------------------------------------------------
(* Statements                                                              *)

GenExprStatement(g, s) == Emit(GenExpr(g, s.expr), "POP")

GenReturn(g, s) ==
  IF s.value = <<>> THEN Emit(g, "RETURN_VOID")
  ELSE Emit(GenExpr(g, s.value[1]), "RETURN")

GenThen(g, s) == GenBlock(OpenJump(GenExpr(g, s.test), "JUMP_IF_FALSE"), s.then)

GenIf(g, s) ==
  IF s.else = <<>> THEN Land(GenThen(g, s))
  ELSE Land(GenBlock(LandFirst(OpenJump(GenThen(g, s), "JUMP")), s.else))

GenWhile(g, s) ==
  LET test == OpenJump(GenExpr(EnterLoop(g), s.test), "JUMP_IF_FALSE")
      body == ContinueAt(GenBlock(test, s.body), CurrentPos(g))
  IN  LeaveLoop(Land(EmitInt(body, "JUMP", CurrentPos(g))))

\* A condition and an update may be missing.
GenTest(g, test) ==
  IF test = <<>> THEN g ELSE OpenJump(GenExpr(g, test[1]), "JUMP_IF_FALSE")

LandTest(g, test) == IF test = <<>> THEN g ELSE Land(g)

GenUpdate(g, update) ==
  IF update = <<>> THEN g ELSE Emit(GenExpr(g, update[1]), "POP")

\* Slip: continue leads past the update.
GenForFromSkips(g, s) ==
  LET body == GenBlock(GenTest(g, s.test), s.body)
      next == GenUpdate(ContinueAt(body, CurrentPos(g)), s.update)
  IN  LeaveLoop(LandTest(EmitInt(next, "JUMP", CurrentPos(g)), s.test))

\* The loop, from its test on.
GenForFrom(g, s) ==
  LET body == GenBlock(GenTest(g, s.test), s.body)
      next == GenUpdate(ContinueHere(body), s.update)
  IN  LeaveLoop(LandTest(EmitInt(next, "JUMP", CurrentPos(g)), s.test))

GenFor(g, s) == GenForFrom(EnterLoop(GenBlock(g, s.init)), s)

\* The loop, from its test on, with the array and the index in these slots.
GenForInFrom(g, s, array, index) ==
  LET both == EmitInt(EmitInt(EnterLoop(g), "LOAD_LOCAL", index), "LOAD_LOCAL", array)
      test == OpenJump(Emit(Emit(EmitConst(both, "length"), "LOAD_FIELD"), "LT"),
                   "JUMP_IF_FALSE")
      elem == Emit(EmitInt(EmitInt(test, "LOAD_LOCAL", array), "LOAD_LOCAL", index),
                   "LOAD_INDEX")
      body == GenBlock(StoreNew(elem, s.name), s.body)
      next == EmitInt(EmitInt(ContinueHere(body), "LOAD_LOCAL", index), "LOAD_INT", 1)
  IN  LeaveLoop(Land(EmitInt(EmitInt(Emit(next, "ADD"), "STORE_LOCAL", index),
                             "JUMP", CurrentPos(g))))

\* The array and the index are kept in two locals of their own.
GenForIn(g, s) ==
  LET slots == DefineLocal(DefineLocal(GenExpr(g, s.iterable), "__forin_idx__"),
                           "__forin_arr__")
      init  == EmitInt(EmitInt(slots, "STORE_LOCAL", g.slots + 1), "LOAD_INT", 0)
  IN  GenForInFrom(EmitInt(init, "STORE_LOCAL", g.slots), s, g.slots + 1, g.slots)

GenLoop(g, s) ==
  LET body == GenBlock(EnterLoop(g), s.body)
  IN  LeaveLoop(EmitInt(ContinueHere(body), "JUMP", CurrentPos(g)))

\* What the handler does with the error that CATCH_BEGIN should have pushed.
GenCatch(g, c) ==
  LET begin == Emit(g, "CATCH_BEGIN")
  IN  GenBlock(IF c.name = "" THEN Emit(begin, "POP") ELSE StoreNew(begin, c.name), c.body)

GenTryCatch(g, s) ==
  LET try   == Emit(GenBlock(OpenJump(g, "TRY_BEGIN"), s.try), "TRY_END")
      catch == FoldLeft(GenCatch, LandFirst(OpenJump(try, "JUMP")), s.catch)
  IN  GenBlock(Land(catch), s.finally)

\* Each arm compares the subject anew and ends with a jump past the last.
GenArm(g, arm, subject) ==
  LET test == Emit(GenExpr(EmitInt(g, "LOAD_LOCAL", subject), arm.pattern), "EQ")
      body == GenBlock(OpenJump(test, "JUMP_IF_FALSE"), arm.body)
  IN  LandFirst(OpenJump(body, "JUMP"))

GenMatch(g, s) ==
  LET arms == FoldLeft(LAMBDA h, arm : GenArm(h, arm, g.slots),
                       StoreNew(GenExpr(g, s.subject), "__match_subj__"), s.arms)
  IN  FoldLeft(LAMBDA h, arm : Land(h), arms, s.arms)

GenStmt(g, s) ==
  CASE s.is = "var"      -> StoreNew(IF s.init = <<>> THEN Emit(g, "LOAD_NULL")
                                     ELSE GenExpr(g, s.init[1]), s.name)
    [] s.is = "function" -> GenFunction(g, s.name, s.params, s.body)
    [] s.is = "expr"     -> GenExprStatement(g, s)
    [] s.is = "return"   -> GenReturn(g, s)
    [] s.is = "if"       -> GenIf(g, s)
    [] s.is = "while"    -> GenWhile(g, s)
    [] s.is = "for"      -> GenFor(g, s)
    [] s.is = "forin"    -> GenForIn(g, s)
    [] s.is = "loop"     -> GenLoop(g, s)
    [] s.is = "break"    -> GenBreak(g)
    [] s.is = "continue" -> GenContinue(g)
    [] s.is = "block"    -> GenBlock(g, s.body)
    [] s.is = "throw"    -> Emit(GenExpr(g, s.value), "THROW")
    [] s.is = "try"      -> GenTryCatch(g, s)
    [] s.is = "spawn"    -> Emit(GenExpr(g, s.call), "SPAWN_TASK")
    [] s.is = "task"     -> Emit(GenAnonymousFunc(g, <<>>, s.body), "SPAWN_TASK")
    [] s.is = "send"     -> Emit(GenExpr(GenExpr(g, s.channel), s.value), "CHAN_SEND")
    [] s.is = "class"    -> StoreNew(Emit(EmitConst(g, s.name), "NEW_CLASS"), s.name)
    [] s.is = "match"    -> GenMatch(g, s)

\* The functions of a module, __main__ first.
GenerateProgram(prog) ==
  LET g == Emit(GenBlock(New, prog), "HALT")
  IN  <<[name |-> "__main__", code |-> g.code, slots |-> g.slots + 4]>> \o g.functions

==============================================================================
