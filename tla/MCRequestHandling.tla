------------------------- MODULE MCRequestHandling -------------------------
(***************************************************************************)
(* Routes and requests for TLC: two segments, with each combination of     *)
(* words and parameters, and routes of the other kinds that have the same  *)
(* paths; values with everything that escape() and unescape() look at.     *)
(***************************************************************************)
EXTENDS RequestHandling

X == <<"x">>
Y == <<"y">>
MCNames == {X, Y}

MCValues == {<<>>, <<"b">>, <<"a", " ", "+">>, <<"%", "2", "0", "&", "=">>, <<"/", "?">>}

A == <<"/", "a">>
B == <<"/", "b">>
P(name) == <<"/", ":">> \o name

MCRoutes ==
    {Route("http", A \o B), Route("http", A \o P(X)),
     Route("http", P(X) \o B), Route("http", P(X) \o P(X)),
     Route("http", P(Y)),
     Route("ws", P(X) \o P(Y)), Route("ws", A \o P(Y)),
     Route("sse", P(Y) \o B)}

Get(target) == Request(target, FALSE)
Upgrade(target) == Request(target, TRUE)
With(path, name, value) == path \o <<"?">> \o name \o <<"=">> \o value
Seg(v) == <<"/">> \o Escape(v)

MCTargets ==
    {Get(With(A \o B, X, Escape(<<"%", "2", "0", "&", "=">>))),
     Get(With(Seg(<<"a", " ", "+">>) \o B, Y, <<"a", "?", "b">>)),
     Get(With(A \o <<"/", "a", "=", "b">>, Y, <<"a", "=", "b">>)),
     Get(Seg(<<"/", "?">>)),
     Get(B \o <<"/", "?", "x">>),
     Upgrade(A \o Seg(<<"%", "2", "0", "&", "=">>))}

\* The hypothesis of the theorem about ParametersBound, for the names used here.
ASSUME PlainUsage == PlainNames
=============================================================================
