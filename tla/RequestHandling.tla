-------------------------- MODULE RequestHandling --------------------------
(***************************************************************************)
(* From the registration of routes with the server (server.hpp) to the end *)
(* of one request: session::handle_request (session.hpp) looks up a route  *)
(* (Router) and, for an HTTP route, runs its middlewares                   *)
(* (MiddlewareChain).  Every route has Local middlewares of its own.       *)
(***************************************************************************)
EXTENDS MiddlewareChain, Router

CONSTANTS Methods,    \* HTTP methods
          Routes,     \* routes the user registers
          Targets,    \* requests that arrive
          Values,     \* values a client escapes in a path or a query
          MaxRoutes   \* bound on the number of routes

ASSUME RoutesAssumption ==
    \A r \in Routes : r.path \in Seq([param : BOOLEAN, name : Seq(STRING)])

ASSUME TextsAssumption ==
    /\ Names \cup Values \subseteq Seq(STRING)
    /\ \A req \in Targets : req.columns \in Seq(Seq(STRING)) /\ req.query \in Seq(STRING)

VARIABLES table,    \* _routes, by method
          request,  \* the request and its method, or none yet
          chosen,   \* the route that has matched
          attrs,    \* the attributes of the request
          answer    \* what becomes of the request

hvars == <<vars, table, request, chosen, attrs, answer>>

NoRequest == [method |-> "none"]

HInit ==
    /\ Init
    /\ table = [v \in Methods |-> <<>>]
    /\ request = NoRequest
    /\ chosen = NoRoute
    /\ attrs = NoAttributes
    /\ answer = "none"

Registered == Cardinality(UNION {{v} \X DOMAIN table[v] : v \in Methods})

\* get(), put(), ... ws() and sse() of the server, before it listens.
Register(v, r) ==
    /\ request = NoRequest
    /\ Registered < MaxRoutes
    /\ \E t \in Arrangements(table[v], r) : table' = [table EXCEPT ![v] = t]
    /\ UNCHANGED <<vars, request, chosen, attrs, answer>>

\* Mutant: match() gives the request its attributes before it knows.
LookUpLeaks(v, req) ==
    /\ request = NoRequest
    /\ request' = [method |-> v, target |-> req]
    /\ LET k == Find(table[v], req)
           tried == {n \in DOMAIN table[v] : Len(table[v][n].path) = Len(req.columns)}
           first == CHOOSE n \in tried : \A m \in tried : n <= m IN
       /\ chosen' = k
       /\ attrs' = IF tried = {} THEN NoAttributes ELSE Attributes(table[v][first], req)
       /\ answer' = CASE table[v] = <<>> -> "bad_request"
                      [] table[v] # <<>> /\ k = NoRoute -> "not_found"
                      [] OTHER -> table[v][k].kind
    /\ UNCHANGED <<vars, table>>

\* The first part of handle_request(): an answer, a new owner of the socket or
\* the chain of an HTTP route.
LookUp(v, req) ==
    /\ request = NoRequest
    /\ request' = [method |-> v, target |-> req]
    /\ LET k == Find(table[v], req) IN
       /\ chosen' = k
       /\ attrs' = IF k = NoRoute THEN NoAttributes ELSE Attributes(table[v][k], req)
       /\ answer' = CASE table[v] = <<>> -> "bad_request"
                      [] table[v] # <<>> /\ k = NoRoute -> "not_found"
                      [] OTHER -> table[v][k].kind
    /\ UNCHANGED <<vars, table>>

RunChain ==
    /\ answer = "http"
    /\ Next
    /\ UNCHANGED <<table, request, chosen, attrs, answer>>

HNext ==
    \/ \E v \in Methods, r \in Routes : Register(v, r)
    \/ \E v \in Methods, req \in Targets : LookUp(v, req)
    \/ RunChain

HSpec == HInit /\ [][HNext]_hvars

----------------------------------------------------------------------------
(* Properties.                                                             *)

Handled == request # NoRequest
RoutesOf(v) == {table[v][k] : k \in DOMAIN table[v]}

\* Whatever the order of registration, a request goes to a route that is as
\* specific as any that matches it, and to none only if none matches.
MostSpecific ==
    Handled =>
        LET matching == {r \in RoutesOf(request.method) : Match(r, request.target)} IN
        IF chosen = NoRoute THEN matching = {}
        ELSE LET r == table[request.method][chosen] IN
             r \in matching /\ \A q \in matching : ~MoreSpecific(q, r)

\* Names in which nothing ends them before their end.
PlainNames ==
    LET PlainName(t) == \A k \in 1..Len(t) : t[k] \notin {"&", "="} IN
    /\ \A a \in Names : PlainName(a)
    /\ \A r \in Routes : \A n \in DOMAIN r.path : r.path[n].param => PlainName(r.path[n].name)

\* What a client writes for each value.
Sent == [v \in Values |-> Escape(v)]

\* A value that a client escapes reaches the handler as it was, whatever is in
\* it: one in the query, and one in the path as the value of a parameter whose name
\* is no other attribute's.  Routes that were tried before leave no trace.
ParametersBound ==
    Handled /\ chosen # NoRoute =>
        LET r == table[request.method][chosen]
            req == request.target
            Parameters == {n \in DOMAIN r.path : r.path[n].param}
            AllEscaped == \A n \in Parameters : \E v \in Values : req.columns[n] = Sent[v] IN
        \A a \in Names :
            LET mine == {n \in Parameters : r.path[n].name = a} IN
            /\ \A v \in Values : req.query = a \o <<"=">> \o Sent[v] => attrs[a] = v
            /\ AllEscaped /\ Given(req.query, a) = {} =>
                /\ mine = {} => attrs[a] = <<>>
                /\ \A n \in mine, v \in Values :
                     mine = {n} /\ req.columns[n] = Sent[v] => attrs[a] = v
=============================================================================
