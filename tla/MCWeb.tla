-------------------------------- MODULE MCWeb ---------------------------------
(* Instances of WebServer, RateLimiter and WebSocket for TLC.  They share no *)
(* variable, so each runs alone: the first state says which.                 *)
EXTENDS WebServer, WebSocket

CONSTANTS c1, c2, c3, b1, b2, k1, g1, g2, MaxHits, MaxLimiterTime

VARIABLE part

Segment(kind, name, constraint) == [kind |-> kind, part |-> name, constraint |-> constraint]

S(name) == Segment("static", name, "")
P(name, constraint) == Segment("param", name, constraint)
W(name) == Segment("wildcard", name, "")

UseIt(middleware) == [call |-> "Use", middleware |-> middleware]
Route(method, pattern, handler, middlewares) ==
  [call |-> "AddRoute", method |-> method, pattern |-> pattern, handler |-> handler,
   middlewares |-> middlewares]

\* A route for its parameter, one for a part that looks like it, one for the
\* rest; routes of other methods in between; middlewares used before, between
\* and inside groups.
MCScripts ==
  {<<Route("GET", <<S("users"), W("rest")>>, "rest", <<>>),
     Route("GET", <<S("users"), P("id", "int")>>, "number", <<"cors">>),
     Route("POST", <<S("users"), S("7")>>, "denies", <<"ratelimit">>),
     UseIt("ratelimit"),
     Route("GET", <<S("users"), P("name", "")>>, "name", <<>>),
     Route("GET", <<S("users"), P("name", ""), S("posts")>>, "posts", <<>>)>>,
   <<UseIt("cors"),
     Route("*", <<P("id", "uuid")>>, "panics", <<"ratelimit">>),
     Route("GET", <<P("page", ""), S("posts")>>, "panics", <<>>),
     Route("GET", <<>>, "home", <<"ratelimit">>),
     Route("GET", <<P("id", "uuid"), P("n", "int")>>, "panics", <<"ratelimit">>),
     Route("GET", <<>>, "home again", <<>>),
     Route("OPTIONS", <<P("page", ""), S("posts")>>, "denies", <<>>)>>}

MCPaths == {<<>>, <<"u">>, <<"users", "7">>, <<"users", "me">>, <<"users", "me", "posts">>,
            <<"u", "7">>, <<"u", "posts">>}

MCPrefixed ==
  {"X-Request-ID", "X-Request-Id", "X-Content-Type-Options", "X-Frame-Options",
   "Access-Control-Allow-Origin", "Access-Control-Allow-Methods", "Access-Control-Allow-Headers"}

\* Names the middlewares write too, and one that is not forwarded, or none.
MCHeaders(path) ==
  IF path \in {<<"u">>, <<"u", "posts">>, <<"users", "7">>}
    THEN {"X-Request-Id", "X-Frame-Options", "Access-Control-Allow-Origin", "Referrer-Policy"}
    ELSE {}

MCRequests ==
  {[method |-> "GET", path |-> p, from |-> k, headers |-> MCHeaders(p)] : p \in MCPaths, k \in Keys}
    \cup {[method |-> m, path |-> p, from |-> k, headers |-> MCHeaders(p)] :
            m \in {"POST", "OPTIONS"}, p \in {q \in MCPaths : Len(q) = 2}, k \in Keys}

MCIds == c1 :> "a" @@ c2 :> "a" @@ c3 :> "b"

allVars == <<part, vars, sockets>>

MCInit == part \in {"server", "limiter", "sockets"} /\ Init /\ SocketsInit

Hits(k) == Len(granted[k]) + Cardinality(refused[k])

LimiterStep ==
  \/ now < MaxLimiterTime /\ Tick
  \/ \E k \in Keys : Hits(k) < MaxHits /\ (Grant(k) \/ Refuse(k))

ServerPart  == part = "server" /\ Next /\ UNCHANGED <<part, sockets>>
LimiterPart == part = "limiter" /\ LimiterStep /\ UNCHANGED <<part, router, serving, sockets>>
SocketsPart == part = "sockets" /\ SocketsNext /\ UNCHANGED <<part, vars>>

MCNext == ServerPart \/ LimiterPart \/ SocketsPart

MCSpec == MCInit /\ [][MCNext]_allVars /\ SocketsFairness
==============================================================================
