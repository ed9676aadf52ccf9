-------------------------------- MODULE Serving --------------------------------
(***************************************************************************)
(* web/server/server.go and the middlewares of web/middleware: requests,   *)
(* each in a goroutine of its own, while routes and middlewares are added. *)
(* A request is matched under the router's lock; the handler it found runs *)
(* inside the middlewares that came with it, the first of them outermost;  *)
(* what comes back is an answer with a status and the headers ServeHTTP    *)
(* forwards.  The handlers of routes and the clients are external, and one *)
(* limiter is behind every RateLimit they name.  Of the value of a header  *)
(* the model keeps who wrote it.  Left out: queries, bodies, Content-Type. *)
(***************************************************************************)
EXTENDS RateLimiter, Router

CONSTANTS Scripts,     \* the calls of Use and AddRoute a program may make, in their order
          Requests,    \* what a client may send: [method, path, from, headers]
          Prefixed,    \* the names of headers that begin with X- or Access-Control-
          Goroutines,  \* bound: requests that are served
          MaxTime      \* bound: the clock

\* The headers a middleware writes.  RequestID writes its own unless it finds
\* one, and it looks under a name that no client's header has here.
Writes(middleware) ==
  CASE middleware = "requestid" -> {"X-Request-ID"}
    [] middleware = "security" -> {"X-Content-Type-Options", "X-Frame-Options", "Referrer-Policy",
                                   "Content-Security-Policy", "Strict-Transport-Security"}
    [] middleware = "cors" -> {"Access-Control-Allow-Origin", "Access-Control-Allow-Methods",
                               "Access-Control-Allow-Headers"}
    [] OTHER -> {}

\* net/http spells the names of headers in one way, which is not RequestID's.
Canonical(name) == IF name = "X-Request-ID" THEN "X-Request-Id" ELSE name

ASSUME ServingAssumption ==
  /\ \A r \in Requests : r.from \in Keys /\ "X-Request-ID" \notin r.headers
  /\ \A m \in {"requestid", "security", "cors"} :
       Writes(m) \subseteq Prefixed \cup {"Referrer-Policy", "Content-Security-Policy",
                                       "Strict-Transport-Security"}
  /\ "Referrer-Policy" \notin Prefixed

\* The headers ServeHTTP lets through.
Forwarded == Prefixed \cup {"Content-Security-Policy", "Strict-Transport-Security"}

VARIABLES script,  \* the calls of this program
          added,   \* how many of them were made
          root,    \* the tree of routes
          uses,    \* the middlewares of the router
          pc,      \* goroutine -> "idle", "dispatch", "chain" or "done"
          request, \* goroutine -> its request
          route,   \* goroutine -> what Match returned
          known,   \* goroutine -> the calls of the script made before the match
          answer   \* goroutine -> [status, headers: name -> who wrote it]

router == <<script, added, root, uses>>
serving == <<pc, request, route, known, answer>>
vars   == <<router, serving, limiter>>

NoAnswer == [status |-> 0, headers |-> <<>>]
NoRoute  == [handler |-> "", middlewares |-> <<>>, params |-> <<>>]

Init ==
  /\ LimiterInit
  /\ script \in Scripts /\ added = 0
  /\ root = Root /\ uses = <<"recovery", "requestid", "security">>
  /\ pc = [g \in Goroutines |-> "idle"]
  /\ request = [g \in Goroutines |-> [method |-> "", path |-> <<>>, from |-> "", headers |-> {}]]
  /\ route = [g \in Goroutines |-> NoRoute] /\ known = [g \in Goroutines |-> 0]
  /\ answer = [g \in Goroutines |-> NoAnswer]

------------------------------------------------------------------------------
(* The router                                                              *)

Call == script[added + 1]

Use ==
  /\ added < Len(script) /\ Call.call = "Use"
  /\ added' = added + 1 /\ uses' = Append(uses, Call.middleware)
  /\ UNCHANGED <<script, root, serving, limiter>>

\* With the middlewares used so far, then those of the route or its group.
Add ==
  /\ added < Len(script) /\ Call.call = "AddRoute"
  /\ added' = added + 1
  /\ root' = AddRoute(root, Call.pattern, Call.method,
                      [handler |-> Call.handler, middlewares |-> uses \o Call.middlewares])
  /\ UNCHANGED <<script, uses, serving, limiter>>

------------------------------------------------------------------------------
(* A request                                                               *)

Arrive(g) ==
  /\ pc[g] = "idle"
  /\ pc' = [pc EXCEPT ![g] = "dispatch"]
  /\ \E r \in Requests : request' = [request EXCEPT ![g] = r]
  /\ UNCHANGED <<router, route, known, answer, limiter>>

Stack(g) == route[g].middlewares

\* The headers of the context after some middlewares: a client's, and theirs.
Headers(g, some) ==
  LET written == UNION {Writes(Stack(g)[i]) : i \in some}
  IN  [name : request[g].headers \ written, by : {"client"}] \cup [name : written, by : {"server"}]

\* What ServeHTTP may make of them.  It copies them in the order of a Go map:
\* of two names with one spelling either comes last.
Sent(headers) ==
  LET passed == {h \in headers : h.name \in Forwarded}
  IN  {sent \in [{Canonical(h.name) : h \in passed} -> {"client", "server"}] :
         \A n \in DOMAIN sent : \E h \in passed : Canonical(h.name) = n /\ h.by = sent[n]}

Reply(g, status, headers) ==
  /\ pc' = [pc EXCEPT ![g] = "done"]
  /\ \E sent \in Sent(headers) :
       answer' = [answer EXCEPT ![g] = [status |-> status, headers |-> sent]]

Dispatch(g) ==
  /\ pc[g] = "dispatch"
  /\ known' = [known EXCEPT ![g] = added]
  /\ LET matches == Match(root, request[g].method, request[g].path)
     IN  \/ /\ matches = {}
            /\ Reply(g, 404, Headers(g, {})) /\ UNCHANGED route
         \/ /\ \E m \in matches : route' = [route EXCEPT ![g] = m]
            /\ pc' = [pc EXCEPT ![g] = "chain"] /\ UNCHANGED answer
  /\ UNCHANGED <<router, request, limiter>>

\* Slip: CORS passes an OPTIONS on.
AnsweringNone(g) == {}

\* CORS answers an OPTIONS itself: nothing further in is called.
Answering(g) == {i \in DOMAIN Stack(g) : Stack(g)[i] = "cors" /\ request[g].method = "OPTIONS"}

\* The middlewares a request gets to.
Outer(g) == {i \in DOMAIN Stack(g) : ~\E j \in Answering(g) : j < i}

Limiters(g) == {i \in Outer(g) : Stack(g)[i] = "ratelimit"}

\* What a handler returns: an error says its status.
Status(handler) == CASE handler = "panics" -> 500 [] handler = "denies" -> 401 [] OTHER -> 200

\* The handler, if no middleware answers first.  A panic is turned into an
\* error by a Recovery around it, or it takes the connection along.
Handle(g) ==
  LET all     == Headers(g, Outer(g))
      handler == route[g].handler
      lost    == handler = "panics" /\ \A i \in DOMAIN Stack(g) : Stack(g)[i] # "recovery"
  IN  CASE Answering(g) # {} -> Reply(g, 200, all)
        [] Answering(g) = {} /\ lost -> Reply(g, 0, {})
        [] OTHER -> Reply(g, Status(handler), all)

\* The chain touches nothing shared but the limiter, and that once.
Unlimited(g) ==
  /\ pc[g] = "chain" /\ Limiters(g) = {}
  /\ Handle(g) /\ UNCHANGED <<router, request, route, known, limiter>>

Granted(g) ==
  /\ pc[g] = "chain" /\ Limiters(g) # {} /\ Grant(request[g].from)
  /\ Handle(g) /\ UNCHANGED <<router, request, route, known>>

Refused(g) ==
  /\ pc[g] = "chain" /\ Limiters(g) # {} /\ Refuse(request[g].from)
  /\ \E i \in Limiters(g) : Reply(g, 429, Headers(g, {j \in DOMAIN Stack(g) : j <= i}))
  /\ UNCHANGED <<router, request, route, known>>

Time == now < MaxTime /\ Tick /\ UNCHANGED <<router, serving>>

Next ==
  \/ Use \/ Add \/ Time
  \/ \E g \in Goroutines : Arrive(g) \/ Dispatch(g) \/ Unlimited(g) \/ Granted(g) \/ Refused(g)

Spec == Init /\ [][Next]_vars

------------------------------------------------------------------------------

\* What a middleware writes is in the answer as it wrote it, but for
\* Referrer-Policy, which ServeHTTP drops, and but for the id of a request
\* whose client sent one: that is either's.
Carries(g, middleware) ==
  \A n \in Writes(middleware) \ {"Referrer-Policy"} :
    /\ Canonical(n) \in DOMAIN answer[g].headers
    /\ \/ answer[g].headers[Canonical(n)] = "server"
       \/ n = "X-Request-ID" /\ "X-Request-Id" \in request[g].headers

\* Nothing else is there.
NoOther(g) ==
  \A n \in DOMAIN answer[g].headers :
    /\ n # "Referrer-Policy"
    /\ answer[g].headers[n] = "client" => n \in request[g].headers
    /\ answer[g].headers[n] = "server" =>
         \E i \in DOMAIN Stack(g) : \E w \in Writes(Stack(g)[i]) : Canonical(w) = n

\* What the middlewares and the handler of a request make of its answer.
ReplyRight(g) ==
  LET stack   == Stack(g)
      all     == {stack[i] : i \in DOMAIN stack}
      handler == route[g].handler
      key     == request[g].from
      reached == {i \in DOMAIN stack :
                    request[g].method = "OPTIONS" => \A j \in DOMAIN stack : j < i => stack[j] # "cors"}
      inner   == ~(request[g].method = "OPTIONS" /\ "cors" \in all)
  IN  CASE answer[g].status = 404 -> \A n \in DOMAIN answer[g].headers : answer[g].headers[n] = "client"
        [] answer[g].status = 429 ->
             /\ \E i \in reached : /\ stack[i] = "ratelimit"
                                   /\ \A j \in DOMAIN stack : j <= i => Carries(g, stack[j])
             /\ refused[key] # {}
        [] answer[g].status = 0 -> handler = "panics" /\ "recovery" \notin all
        [] OTHER -> /\ answer[g].status = IF inner THEN Status(handler) ELSE 200
                    /\ \A i \in reached : /\ Carries(g, stack[i])
                                          /\ stack[i] = "ratelimit" => granted[key] # <<>>

\* What a request goes through shows in its answer: a panic is a 500 if there
\* is a Recovery around it, CORS answers an OPTIONS, who is limited is told so
\* or had its request counted, and of every middleware on the way in there are
\* the headers that ServeHTTP forwards, whatever the handler does and whatever
\* headers of the same names the client sent; who is not routed gets back only
\* its own (ServeHTTP and the middlewares).
RepliesRight ==
  \A g \in Goroutines : pc[g] = "done" => ReplyRight(g) /\ NoOther(g)

==============================================================================
