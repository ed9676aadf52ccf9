------------------------------ MODULE VMCorrect ------------------------------
(* What the code generator and the machine promise together.               *)
EXTENDS Discipline, Meaning

CONSTANT Programs   \* a sequence of syntax trees

\* The machine runs what the generator makes of them.
ASSUME GeneratedAssumption == Modules = [p \in DOMAIN Programs |-> GenerateProgram(Programs[p])]

Meanings ==
  FoldLeft(LAMBDA ms, p : LET m == MeaningOf(p) IN Append(ms, [out |-> m.out, ctl |-> m.ctl]),
           <<>>, Programs)

Done(t) == Frames(t) = <<>> /\ threads[t].task = <<>>
Ended   == panicked \/ \A t \in DOMAIN threads : Done(t)

Prints(meaning) ==
  /\ IsPrefix(output, meaning.out)
  /\ Ended => /\ output = meaning.out
              /\ threads[1].failed = (meaning.ctl = "throw")

\* What the program prints is what its syntax tree means, line by line, and
\* the run fails exactly if the program does: code generation (genStmt and
\* genExpr) and execute together keep the meaning.
PrintsMeaning == Prints(Meanings[prog])

\* Every run of a program that ends in its meaning ends: no jump leads back
\* past what makes a loop go on.
RunEnds == <>Ended

==============================================================================
