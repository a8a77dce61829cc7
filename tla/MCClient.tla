------------------------------ MODULE MCClient ------------------------------
(***************************************************************************)
(* Small instances of Client.  In Mixed every verb is used, with URLs that *)
(* have each part of the grammar, one that is refused, one of the other    *)
(* scheme and a short one; in TwoHosts a client talks to two hosts.        *)
(***************************************************************************)
EXTENDS Client, TLC

CONSTANTS r1, r2, r3, s1

Numbers == [w \in {"8085", "70000"} |-> IF w = "8085" THEN 8085 ELSE 70000]

At(scheme, user, host, port, path, query) ==
    [scheme |-> <<scheme>>, login |-> user, password |-> user, host |-> host,
     portText |-> port, path |-> path, query |-> query]

Home(path, query) == At("https", <<>>, <<"home">>, <<>>, path, query)
Plain(port) == At("http", <<"me">>, <<"1", ":", ":", "2">>, port, <<"/", "x">>, <<>>)

Ask(verb, seconds, at) == [verb |-> verb, seconds |-> seconds, at |-> at, body |-> verb]

Get1 == Ask("GET", 25, Home(<<"/", "a">>, <<>>))
Short1 == Ask("GET", 25, Home(<<>>, <<>>))
Post2 == Ask("POST", 10, Home(<<"/", "b", "/">>, <<"?", "q", "/", "?">>))
Put3 == Ask("PUT", 0, Home(<<"/", "c">>, <<>>))
Patch3 == Ask("PATCH", 9, Home(<<"/", "c">>, <<>>))
Del2 == Ask("DELETE", 10, At("https", <<"me">>, <<"away">>, <<"8085">>, <<"/", "d">>, <<>>))
Bad2 == Ask("GET", 10, Plain(<<"70000">>))
Http2 == Ask("GET", 10, Plain(<<>>))

Use(a, b, c, s) == r1 :> a @@ r2 :> b @@ r3 :> c @@ s1 :> s

Mixed == {Use(Get1, Post2, Put3, NoCall),
          Use(Get1, Bad2, Patch3, NoCall),
          Use(Get1, Http2, Patch3, NoCall),
          Use(Short1, Post2, Put3, NoCall),
          Use(NoCall, Bad2, NoCall, Ask("DELETE", 10, Plain(<<"8085">>))),
          Use(NoCall, Del2, NoCall, Ask("POST", 25, Home(<<"/">>, <<>>)))}

\* The hypothesis of the theorem about OwnRequest, for the URLs used here.
ASSUME PlainUsage == WellFormedUsage

TwoHosts == {Use(Get1, Del2, NoCall, NoCall)}
=============================================================================
