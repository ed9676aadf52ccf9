-------------------------------- MODULE Router --------------------------------
(***************************************************************************)
(* web/router/router.go: a tree of path segments, and which route a        *)
(* request matches.  A segment of a pattern is static, a parameter with a  *)
(* constraint or none, or a wildcard; a path is a sequence of parts.  A    *)
(* node is known by the segments that lead to it; it has those of its      *)
(* children in the order they came, and method -> [handler, middlewares].  *)
(* A parameter's value is the sequence of parts it stands for, <<>> when   *)
(* it has none.  Left out: how segments are written ({id:int}, :id,        *)
(* *rest), slashes at the ends and the list of routes.                     *)
(***************************************************************************)
EXTENDS Integers, Sequences, SequencesExt

CONSTANTS Numbers,  \* the parts strconv.Atoi accepts
          Uuids     \* the parts uuidRegex matches

Segments == [kind : {"static", "param", "wildcard"}, part : STRING, constraint : STRING]

None    == [x \in {} |-> x]
NewNode == [children |-> <<>>, handlers |-> None]
Root    == [at \in {<<>>} |-> NewNode]

------------------------------------------------------------------------------
(* Routes are added                                                        *)

NodeAt(tree, at) == IF at \in DOMAIN tree THEN tree[at] ELSE NewNode

\* The nodes a pattern leads through, and to; each gets the next as a child
\* unless it has it.
AddRoute(tree, pattern, method, route) ==
  LET on == {SubSeq(pattern, 1, n) : n \in 0..Len(pattern)} IN
  [at \in DOMAIN tree \cup on |->
     LET node == NodeAt(tree, at)
         next == pattern[Len(at) + 1]
     IN  CASE at = pattern ->
                [node EXCEPT !.handlers =
                   [m \in (DOMAIN @) \cup {method} |-> IF m = method THEN route ELSE @[m]]]
           [] at \in on \ {pattern} /\ next \notin Range(node.children) ->
                [node EXCEPT !.children = Append(@, next)]
           [] OTHER -> node]

------------------------------------------------------------------------------
(* Requests are matched                                                    *)

MatchesConstraint(part, constraint) ==
  CASE constraint = "int"  -> part \in Numbers
    [] constraint = "uuid" -> part \in Uuids
    [] OTHER -> TRUE

Names(tree)  == {seg.part : seg \in UNION {Range(at) : at \in DOMAIN tree}}
Params(tree) == [Names(tree) -> Seq(STRING)]

Found(at, params) == [node |-> <<at>>, params |-> params]
Missed(params)    == [node |-> <<>>, params |-> params]

\* One child of "at" for the rest of a path; "below" says what is found further
\* down.  The parameter it bound is forgotten if nothing is.
Try(at, child, rest, params, below) ==
  LET next  == Append(at, child)
      bound == below[<<next, [params EXCEPT ![child.part] = <<rest[1]>>]>>]
  IN  CASE child.kind = "static" ->
             IF rest[1] = child.part THEN below[<<next, params>>] ELSE Missed(params)
        [] child.kind = "param" ->
             IF ~MatchesConstraint(rest[1], child.constraint) THEN Missed(params)
             ELSE IF bound.node # <<>> THEN bound
             ELSE Missed([bound.params EXCEPT ![child.part] = <<>>])
        [] child.kind = "wildcard" -> Found(next, [params EXCEPT ![child.part] = rest])

\* The children of one kind in the order they came, until something is found.
Loop(kind, at, children, rest, params, below) ==
  LET tried[k \in 0..Len(children)] ==
        IF k = 0 THEN Missed(params)
        ELSE IF tried[k - 1].node # <<>> \/ children[k].kind # kind THEN tried[k - 1]
        ELSE Try(at, children[k], rest, tried[k - 1].params, below)
  IN  tried[Len(children)]

\* Slip: parameters are tried before static children.
BranchParamFirst(at, children, rest, params, below) ==
  LET param  == Loop("param", at, children, rest, params, below)
      static == IF param.node # <<>> THEN param
                ELSE Loop("static", at, children, rest, param.params, below)
  IN  IF static.node # <<>> THEN static
      ELSE Loop("wildcard", at, children, rest, static.params, below)

\* Static children first, then parameters, then wildcards.
Branch(at, children, rest, params, below) ==
  LET static == Loop("static", at, children, rest, params, below)
      param  == IF static.node # <<>> THEN static
                ELSE Loop("param", at, children, rest, static.params, below)
  IN  IF param.node # <<>> THEN param
      ELSE Loop("wildcard", at, children, rest, param.params, below)

\* What is found from each node, with each binding of the parameters, for the
\* path from its i-th part on: its method has no say.
Search(tree, path) ==
  LET search[i \in 1..(Len(path) + 1)] ==
        [s \in (DOMAIN tree) \X Params(tree) |->
           IF i <= Len(path)
           THEN Branch(s[1], tree[s[1]].children, SubSeq(path, i, Len(path)), s[2], search[i + 1])
           ELSE IF tree[s[1]].handlers = None THEN Missed(s[2]) ELSE Found(s[1], s[2])]
  IN  search[1][<< <<>>, [name \in Names(tree) |-> <<>>] >>]

Matched(handler, middlewares, params) ==
  [handler |-> handler, middlewares |-> middlewares,
   params |-> [name \in {n \in DOMAIN params : params[n] # <<>>} |-> params[name]]]

\* What Match may return; an OPTIONS without a handler gets the middlewares of
\* any method, and a handler for all methods none of those it came with.
Match(tree, method, path) ==
  LET found    == Search(tree, path)
      handlers == tree[found.node[1]].handlers
  IN  CASE found.node = <<>> -> {}
        [] found.node # <<>> /\ method \in DOMAIN handlers ->
             {Matched(handlers[method].handler, handlers[method].middlewares, found.params)}
        [] found.node # <<>> /\ method \notin DOMAIN handlers /\ "*" \in DOMAIN handlers ->
             {Matched(handlers["*"].handler, <<>>, found.params)}
        [] found.node # <<>> /\ DOMAIN handlers \cap {method, "*"} = {} ->
             {Matched("preflight", handlers[m].middlewares, found.params) :
                m \in {m \in DOMAIN handlers : method = "OPTIONS"}}

==============================================================================
