-------------------------------- MODULE Url --------------------------------
(***************************************************************************)
(* beauty::url (url.cpp): how a URL is cut into its components, and which  *)
(* texts its constructor refuses.                                          *)
(*                                                                         *)
(* A text is a sequence of tokens, as in Utils.  Of a run of characters    *)
(* without a delimiter std::from_chars() reads the number it begins with.  *)
(***************************************************************************)
EXTENDS Utils

CONSTANT Number    \* the number each token that begins with a digit begins with

ASSUME UrlAssumption == \A w \in DOMAIN Number : Number[w] \in Nat

MaxPort == 65535   \* unsigned short

(* split_pair(): a text without the separator is the left half if that one *)
(* is mandatory, and else the right half.                                  *)
SplitPair(s, sep, mandatoryLeft) ==
    LET columns == Split(s, sep) IN
    [ok    |-> Len(columns) <= 2,
     left  |-> IF Len(columns) = 1 /\ ~mandatoryLeft THEN <<>> ELSE columns[1],
     right |-> IF Len(columns) > 1 THEN columns[2]
               ELSE IF mandatoryLeft THEN <<>> ELSE columns[1]]

(* <host>[:port], the host of IPv6 in brackets                             *)
HostPort(s) ==
    LET close == Position(s, "]", 1)
        colon == Position(s, ":", close + 1)
    IN  IF s = <<>> \/ s[1] # "["
        THEN SplitPair(s, ":", TRUE)
        ELSE [ok    |-> close # 0 /\ colon # Len(s),
              left  |-> SubSeq(s, 2, close - 1),
              right |-> IF colon = 0 THEN <<>> ELSE SubSeq(s, colon + 1, Len(s))]

\* The number from_chars() reads, which may be followed by anything.
PortNumber(s) == IF s = <<>> THEN 0 ELSE Number[s[1]]
PortOk(s) == s # <<>> => s[1] \in DOMAIN Number /\ Number[s[1]] <= MaxPort

WithoutColon(s) ==
    IF s # <<>> /\ s[Len(s)] = ":" THEN SubSeq(s, 1, Len(s) - 1) ELSE s

----------------------------------------------------------------------------
(* url::url(): a URL it throws for is not ok.  <scheme> and <authority>    *)
(* are the first and the third column of the text; the query begins at the *)
(* first '?' behind them.                                                  *)
Refused == [ok |-> FALSE]

Parse(text) ==
    LET columns   == Split(text, "/")
        authority == SplitPair(columns[3], "@", FALSE)
        user      == SplitPair(authority.left, ":", TRUE)
        host      == HostPort(authority.right)
        start     == Len(columns[1]) + Len(columns[3]) + 3
        query     == Position(text, "?", start)
    IN  IF /\ Len(columns) >= 3 /\ columns[2] = <<>> /\ columns[3] # <<>>
           /\ authority.ok /\ user.ok
           /\ host.ok /\ PortOk(host.right)
        THEN [ok       |-> TRUE,
              scheme   |-> WithoutColon(columns[1]),
              login    |-> user.left,
              password |-> user.right,
              host     |-> host.left,
              portText |-> host.right,
              port     |-> PortNumber(host.right),
              path     |-> SubSeq(text, start, IF query = 0 THEN Len(text) ELSE query - 1),
              query    |-> IF query = 0 THEN <<>> ELSE SubSeq(text, query, Len(text))]
        ELSE Refused

\* Accessors.
IsHttp(u) == u.scheme = <<"http">>
IsHttps(u) == u.scheme = <<"https">>
Path(u) == IF u.path = <<>> THEN <<"/">> ELSE u.path

----------------------------------------------------------------------------
(* The grammar in the comment of the class, as the inverse of Parse:       *)
(* <scheme>://[[login][:password]@]<host>[:port][/path][?query].           *)
Opt(before, s) == IF s = <<>> THEN <<>> ELSE before \o s
UserText(login, password) ==
    IF login \o password = <<>> THEN <<>>
    ELSE login \o Opt(<<":">>, password) \o <<"@">>
HostText(host) == IF ":" \in {host[i] : i \in 1..Len(host)} THEN <<"[">> \o host \o <<"]">> ELSE host

\* What the grammar leaves to the reader: where the delimiters may not be.  The
\* comment has the path optional, but a query needs one.
FreeOf(s, delimiters) == s \in Seq(STRING) /\ \A k \in 1..Len(s) : s[k] \notin delimiters

WellFormed(c) ==
    /\ FreeOf(c.scheme, {"/"})
    /\ FreeOf(c.login, {"/", ":", "@"}) /\ FreeOf(c.password, {"/", ":", "@"})
    /\ FreeOf(c.host, {"/", "@", "[", "]"}) /\ c.host # <<>>
    /\ FreeOf(c.portText, {"/", ":", "@"})
    /\ FreeOf(c.path, {"?"}) /\ (c.path # <<>> => c.path[1] = "/")
    /\ FreeOf(c.query, {}) /\ (c.query # <<>> => c.query[1] = "?" /\ c.path # <<>>)

Text(c) ==
    c.scheme \o <<":", "/", "/">> \o UserText(c.login, c.password)
    \o HostText(c.host) \o Opt(<<":">>, c.portText) \o c.path \o c.query
=============================================================================
