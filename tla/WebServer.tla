------------------------------- MODULE WebServer -------------------------------
(* The web server with its router: which route a path is for, said without  *)
(* the tree, and what requests must find.                                   *)
EXTENDS Serving

\* The patterns the router is for: a wildcard is their end, and no name stands
\* for two of their parts.  The code takes others, but it finds no handler
\* behind a wildcard, and a name that comes twice has one value.
WellFormed(pattern) ==
  /\ \A i \in DOMAIN pattern : pattern[i].kind = "wildcard" => i = Len(pattern)
  /\ \A i, j \in DOMAIN pattern :
       i # j /\ "static" \notin {pattern[i].kind, pattern[j].kind} => pattern[i].part # pattern[j].part

ScriptCalls ==
  [call : {"Use"}, middleware : STRING]
    \cup [call : {"AddRoute"}, method : STRING, pattern : {p \in Seq(Segments) : WellFormed(p)},
          handler : STRING, middlewares : Seq(STRING)]

ASSUME RoutesAssumption ==
  /\ Scripts \subseteq Seq(ScriptCalls)
  /\ \A r \in Requests : r.path \in Seq(STRING)

\* Of a set of one.
Only(set) == CHOOSE x \in set : TRUE

Routes(n) == {i \in 1..n : script[i].call = "AddRoute"}

\* Does a pattern stand for a path?
Covers(pattern, path) ==
  LET wild == {i \in DOMAIN pattern : pattern[i].kind = "wildcard"} IN
  /\ IF wild = {} THEN Len(pattern) = Len(path) ELSE Len(pattern) <= Len(path)
  /\ \A i \in DOMAIN pattern :
       CASE pattern[i].kind = "static" -> path[i] = pattern[i].part
         [] pattern[i].kind = "param" -> MatchesConstraint(path[i], pattern[i].constraint)
         [] pattern[i].kind = "wildcard" -> TRUE

Prefix(pattern, i) == SubSeq(pattern, 1, i)

\* When a pattern that begins so was first added.
Since(beginning) ==
  Only({a \in Routes(Len(script)) :
          /\ IsPrefix(beginning, script[a].pattern)
          /\ \A b \in Routes(a - 1) : ~IsPrefix(beginning, script[b].pattern)})

Weight == [static |-> 1, param |-> 2, wildcard |-> 3]

\* The first segment in which two patterns differ decides between them: a
\* static one before a parameter, that before a wildcard, the older first.
Before(p, q) ==
  \E i \in DOMAIN p \cap DOMAIN q :
    /\ Prefix(p, i - 1) = Prefix(q, i - 1) /\ p[i] # q[i]
    /\ \/ Weight[p[i].kind] < Weight[q[i].kind]
       \/ Weight[p[i].kind] = Weight[q[i].kind] /\ Since(Prefix(p, i)) < Since(Prefix(q, i))

\* The pattern for a path, among the first n calls: the method has no say.
Best(path, n) ==
  LET all == {p \in {script[i].pattern : i \in Routes(n)} : Covers(p, path)}
  IN  {p \in all : \A q \in all : q # p => Before(p, q)}

\* The call that last added a method to a pattern.
Latest(pattern, method, n) ==
  LET same == {i \in Routes(n) : script[i].pattern = pattern /\ script[i].method = method}
  IN  {i \in same : \A j \in same : j <= i}

Bound(pattern, path) ==
  [name \in {pattern[i].part : i \in {i \in DOMAIN pattern : pattern[i].kind # "static"}} |->
     LET i == CHOOSE i \in DOMAIN pattern : pattern[i].kind # "static" /\ pattern[i].part = name
     IN  IF pattern[i].kind = "param" THEN <<path[i]>> ELSE SubSeq(path, i, Len(path))]

\* The calls of Use among the first n.
Uses(n) == {j \in 1..n : script[j].call = "Use"}

\* The k-th of them, alone.
Ranked(n, k) == {j \in Uses(n) : Cardinality(Uses(j)) = k}

\* The middlewares around a route: those of the router when it was added, in
\* their order, then its own.
Used(n) ==
  <<"recovery", "requestid", "security">>
    \o [k \in 1..Cardinality(Uses(n)) |-> script[Only(Ranked(n, k))].middleware]

Around(i) == Used(i) \o script[i].middlewares

Chosen(r, n) == Only(Best(r.path, n))

Exact(r, n) == Latest(Chosen(r, n), r.method, n)
Fallback(r, n) == Latest(Chosen(r, n), "*", n)

\* There is nothing for a request among the first n calls; an OPTIONS gets an
\* answer where any method is served.
Nowhere(r, n) ==
  Best(r.path, n) = {} \/ (Exact(r, n) = {} /\ Fallback(r, n) = {} /\ r.method # "OPTIONS")

\* What a request must be given of what there is for it.
Reaches(r, n, to) ==
  /\ to.params = Bound(Chosen(r, n), r.path)
  /\ Exact(r, n) # {} =>
       \E i \in Exact(r, n) : to.handler = script[i].handler /\ to.middlewares = Around(i)
  /\ Exact(r, n) = {} /\ Fallback(r, n) # {} => \E i \in Fallback(r, n) : to.handler = script[i].handler
  /\ Exact(r, n) = {} /\ Fallback(r, n) = {} =>
       \E i \in Routes(n) : script[i].pattern = Chosen(r, n) /\ to.middlewares = Around(i)

\* A request reaches the handler of the most specific pattern for its path, of
\* those added before it was matched, with the parameters the path gives it,
\* inside the middlewares of that route; it is not found if that pattern does
\* not have its method (Match, search and AddRoute, and Dispatch).  A handler
\* for all methods runs without the middlewares.
RoutesRight ==
  \A g \in Goroutines : pc[g] \in {"chain", "done"} =>
    IF Nowhere(request[g], known[g]) THEN answer[g].status = 404
    ELSE Reaches(request[g], known[g], route[g])

================================================================================
