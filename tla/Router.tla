------------------------------- MODULE Router -------------------------------
(***************************************************************************)
(* The routes of one HTTP method: their order (router.cpp), their match    *)
(* with the target of a request and the attributes it gets (route.cpp,     *)
(* attributes.cpp).                                                        *)
(*                                                                         *)
(* Paths, targets and values are texts (Utils).  A segment of a route is a *)
(* word or a parameter, :name.                                             *)
(***************************************************************************)
EXTENDS Utils

CONSTANT Names    \* names of parameters and of query attributes

\* The constructor of a route.
Segments(path) ==
    LET columns == Split(path, "/")
        Param(s) == s # <<>> /\ s[1] = ":"
    IN  [i \in 1..Len(columns) |->
            IF Param(columns[i]) THEN [param |-> TRUE, name |-> Tail(columns[i])]
                                 ELSE [param |-> FALSE, name |-> columns[i]]]

Route(kind, path) == [kind |-> kind, path |-> Segments(path)]

\* The loop of add_route goes over the segments from the right: the power of two
\* after k of n segments, and what the parameters among the last k of a path cost.
Powers(n) ==
    LET power[k \in 0..n] == IF k = 0 THEN 1 ELSE 2 * power[k - 1] IN power

Weight(path, k) ==
    IF path[Len(path) - k + 1].param THEN Powers(Len(path))[k - 1] ELSE 0

Costs(path) ==
    LET cost[k \in 0..Len(path)] ==
            IF k = 0 THEN 0 ELSE cost[k - 1] + Weight(path, k)
    IN  cost

\* Mutant: the loop goes over the segments from the left.
CostFromLeft(r) ==
    Costs([k \in DOMAIN r.path |-> r.path[Len(r.path) - k + 1]])[Len(r.path)]

Cost(r) == Costs(r.path)[Len(r.path)]

\* The order of std::sort.
Before(r, q) ==
    \/ Len(r.path) < Len(q.path)
    \/ Len(r.path) = Len(q.path) /\ Cost(r) < Cost(q)

\* The orders std::sort may give to routes t with r behind them; it need not
\* keep routes that cost the same in the order of their registration.
Arrangements(t, r) ==
    LET all == Append(t, r)
        Order == {p \in [DOMAIN all -> DOMAIN all] : \A i, j \in DOMAIN all : p[i] = p[j] => i = j} IN
    {s \in {[k \in DOMAIN all |-> all[p[k]]] : p \in Order} :
        \A i, j \in DOMAIN all : i < j => ~Before(s[j], s[i])}

----------------------------------------------------------------------------
(* A request: its target in the pieces match() looks at, and whether it    *)
(* asks for an upgrade to WebSocket.  What follows a second '?' is lost.   *)
Request(target, upgrade) ==
    LET halves == Split(target, "?") IN
    [columns |-> Split(halves[1], "/"),
     query   |-> IF Len(halves) > 1 THEN halves[2] ELSE <<>>,
     upgrade |-> upgrade]

\* match(): an upgrade goes to a route of that kind and no other.
Match(r, req) ==
    /\ req.upgrade <=> r.kind = "ws"
    /\ Len(r.path) = Len(req.columns)
    /\ \A i \in DOMAIN r.path : r.path[i].param \/ r.path[i].name = req.columns[i]

\* The first route that matches.
NoRoute == 0
Find(t, req) ==
    LET found == {k \in DOMAIN t : Match(t[k], req)} IN
    IF found = {} THEN NoRoute ELSE CHOOSE k \in found : \A l \in found : k <= l

\* The n-th segment, a parameter, with its column.
Binding(r, req, n) == r.path[n].name \o <<"=">> \o req.columns[n]

\* The text of the attributes: the query with the parameters behind it.
AttributeText(r, req) ==
    LET text[n \in 0..Len(r.path)] ==
            IF n = 0 THEN req.query
            ELSE IF ~r.path[n].param THEN text[n - 1]
            ELSE text[n - 1] \o (IF text[n - 1] = <<>> THEN <<>> ELSE <<"&">>) \o Binding(r, req, n)
    IN  text[Len(r.path)]

(* The class attributes: a text is split at '&' and '='.  The first value  *)
(* of a name stays, what is not in two pieces is dropped, and a name       *)
(* without a value has the empty one.                                      *)
Pairs(text) ==
    LET columns == Split(text, "&") IN [k \in 1..Len(columns) |-> Split(columns[k], "=")]

Given(text, a) ==
    LET pairs == Pairs(text) IN {k \in DOMAIN pairs : Len(pairs[k]) = 2 /\ pairs[k][1] = a}

NoAttributes == [a \in Names |-> <<>>]

Attributes(r, req) ==
    LET text == AttributeText(r, req) IN
    [a \in Names |->
        LET given == Given(text, a)
            first == CHOOSE k \in given : \A l \in given : k <= l
        IN  IF given = {} THEN <<>> ELSE Unescape(Pairs(text)[first][2])]

----------------------------------------------------------------------------
(* What the order is for.                                                  *)

\* Of two routes that match, the one that has a word where the other has a
\* parameter is meant, the leftmost difference first.
MoreSpecific(r, q) ==
    \E i \in DOMAIN r.path :
        /\ ~r.path[i].param /\ q.path[i].param
        /\ \A j \in 1..(i - 1) : r.path[j].param = q.path[j].param
=============================================================================
