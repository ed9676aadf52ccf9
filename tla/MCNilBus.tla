------------------------------- MODULE MCNilBus -------------------------------
EXTENDS NilBus, TLC

CONSTANTS p1, p2

\* The callers are interchangeable.
Symmetry == Permutations(Callers)

==============================================================================
