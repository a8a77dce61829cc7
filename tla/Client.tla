------------------------------- MODULE Client -------------------------------
(***************************************************************************)
(* The client façade (client.hpp, client.cpp) over its asynchronous        *)
(* session: what the verbs make of their arguments, the member _url every  *)
(* asynchronous call overwrites, the session a call is handed to, and      *)
(* synchronous calls, each with an io_context and a session of its own.    *)
(*                                                                         *)
(* The session is SessionClient, the one for the scheme that SSL says, made *)
(* by the first call that needs it.  Its actions are extended with what    *)
(* they read from and write to the façade and the connection.  Requests    *)
(* that go to another session of the same client are "elsewhere".          *)
(*                                                                         *)
(* The client is not made for concurrent calls: they come one at a time.   *)
(***************************************************************************)
EXTENDS SessionClient, Url

CONSTANTS SyncCalls,   \* calls without a callback
          Usage,       \* what the program asks: functions from Requests and SyncCalls
          NoCall,      \* "this one is not made"
          NoBody,      \* the body of a request without one
          SmallBuffer, \* length of the texts a std::string keeps inside itself
          Unknown      \* what is read from the text of a URL that is gone

VARIABLES asked,    \* what the program asks for, by request
          fate,     \* where send_request has put each request
          held,     \* the request whose URL the member _url holds
          session,  \* the shared_ptr to the session
          peer,     \* the endpoint that was resolved last
          reached,  \* the requests written so far, with that endpoint and as what
          sync      \* the outstanding operation of a synchronous call, or its result

facade == <<asked, fate, held, session, peer, reached, sync>>
clientVars == <<vars, facade>>

----------------------------------------------------------------------------
(* The verbs.  A deadline is in milliseconds, 0 being none; the overloads  *)
(* in seconds take tenths of a millisecond here and convert with (int).    *)
Millis(seconds) == seconds \div 10

GetBefore(d, u) == [method |-> "GET", millis |-> d, url |-> u, body |-> NoBody]
DelBefore(d, u, b) == [method |-> "DELETE", millis |-> d, url |-> u, body |-> b]
PostBefore(d, u, b) == [method |-> "POST", millis |-> d, url |-> u, body |-> b]
PatchBefore(d, u, b) == [method |-> "PATCH", millis |-> d, url |-> u, body |-> b]
PutBefore(d, u, b) == [method |-> "PUT", millis |-> d, url |-> u, body |-> b]

Get(s, u) == GetBefore(Millis(s), u)
Del(s, u, b) == DelBefore(Millis(s), u, b)
Post(s, u, b) == PostBefore(Millis(s), u, b)
Patch(s, u, b) == PatchBefore(Millis(s), u, b)
Put(s, u, b) == PutBefore(Millis(s), u, b)

Verbs == {"GET", "DELETE", "POST", "PATCH", "PUT"}

\* The request a call of the program becomes; c.at is its URL in components.
Made(c) ==
    LET u == Text(c.at) IN
    [GET    |-> Get(c.seconds, u),
     DELETE |-> Del(c.seconds, u, c.body),
     POST   |-> Post(c.seconds, u, c.body),
     PATCH  |-> Patch(c.seconds, u, c.body),
     PUT    |-> Put(c.seconds, u, c.body)][c.verb]

Calls(a) == {r \in DOMAIN a : a[r] # NoCall}

ASSUME ClientAssumption ==
    /\ Requests \cap SyncCalls = {}
    /\ \A a \in Usage :
        /\ DOMAIN a = Requests \cup SyncCalls
        /\ \A r \in Calls(a) : a[r].verb \in Verbs
        /\ \A r \in Calls(a) \cap Requests : r \in Timed <=> Made(a[r]).millis # 0
    /\ SmallBuffer \in Nat

Url(r) == Parse(Made(asked[r]).url)

(* The views of a beauty::url look into its own std::string.  Assigning it *)
(* to the member _url moves both; a text that the string keeps inside      *)
(* itself is copied, and the views look at that of the temporary, which is *)
(* gone: what is read through them from then on is anything.               *)
Short(c) == Len(Made(c).url) <= SmallBuffer
Lost(r) == r \in Requests /\ Short(asked[r])

\* A name read from a text that is gone may be one that OpenSSL refuses.
ASSUME ShortAssumption ==
    \A a \in Usage : \A r \in Calls(a) \cap Requests : Short(a[r]) => r \in BadNames

----------------------------------------------------------------------------
(* What a session does with the URL of a request: request_context::Create  *)
(* copies the text that is sent, do_resolve() looks up where it goes.      *)
\* Mutant: the target is a view of the member _url, as the endpoint is.
MessageOfMember(r) ==
    LET m == Made(asked[r])
        u == IF held \in Requests THEN Url(held) ELSE Url(r)
    IN  [method |-> m.method, target |-> Path(u) \o u.query, host |-> Url(r).host,
         body |-> m.body]

Message(r) ==
    LET m == Made(asked[r]) IN
    [method |-> m.method,
     target |-> IF Lost(r) THEN Unknown ELSE Path(Url(r)) \o Url(r).query,
     host |-> IF Lost(r) THEN Unknown ELSE Url(r).host, body |-> m.body]

DefaultPort(u) ==
    IF IsHttp(u) THEN <<"80">> ELSE IF IsHttps(u) THEN <<"443">> ELSE <<>>

Endpoint(u) ==
    [host |-> u.host, port |-> IF u.portText = <<>> THEN DefaultPort(u) ELSE u.portText]

\* The context of a request keeps views into the text of the member _url, which
\* the next asynchronous call frees.
Seen(r) == IF held = r /\ ~Lost(r) THEN Endpoint(Url(r)) ELSE Unknown

ClientInit ==
    /\ Init
    /\ asked \in Usage
    /\ fate = [r \in Requests |-> "none"]
    /\ held = NoRequest
    /\ session = "none"
    /\ peer = Unknown
    /\ reached = {}
    /\ sync = [s \in SyncCalls |-> "new"]

----------------------------------------------------------------------------
(* Asynchronous send_request, by a thread of the program or, for a nested  *)
(* request, by the thread that runs the callback of another.  A URL that   *)
(* is refused is reported at once, and the client forgets its sessions.    *)
InCallback(t) == work[t].step = "call" /\ (t = Caller \/ Free(Caller))

MayCall(r) ==
    /\ asked[r] # NoCall
    /\ fate[r] = "none"
    /\ \A q \in Requests : stage[q] # "entering"
    /\ IF r \in Nested THEN \E t \in Actors : InCallback(t) ELSE Free(Caller)

Refuse(r) ==
    /\ MayCall(r)
    /\ ~Url(r).ok
    /\ fate' = [fate EXCEPT ![r] = "refused"]
    /\ session' = IF session = "made" THEN "reset" ELSE session
    /\ UNCHANGED <<vars, asked, held, peer, reached, sync>>

\* The other scheme, or a session made anew after a refused URL.
Elsewhere(r) ==
    /\ MayCall(r)
    /\ Url(r).ok
    /\ IsHttps(Url(r)) # SSL \/ Lost(r) \/ session = "reset"
    /\ fate' = [fate EXCEPT ![r] = "elsewhere"]
    /\ held' = r
    /\ UNCHANGED <<vars, asked, session, peer, reached, sync>>

Run(r) ==
    /\ MayCall(r)
    /\ Url(r).ok
    /\ IsHttps(Url(r)) = SSL \/ Lost(r)
    /\ session # "reset"
    /\ IF r \in Nested THEN \E t \in Actors : InCallback(t) /\ IssueInCallback(t, r)
                       ELSE Issue(r)
    /\ fate' = [fate EXCEPT ![r] = "here"]
    /\ held' = r
    /\ session' = "made"
    /\ UNCHANGED <<asked, peer, reached, sync>>

(* The steps of the session that look up where to go, or send.             *)
EnterHere(r) ==
    /\ Enter(r)
    /\ peer' = IF queue = <<>> /\ ~open THEN Seen(r) ELSE peer
    /\ UNCHANGED <<asked, fate, held, session, reached, sync>>

ReadHere(t) ==
    /\ OnRead(t)
    /\ peer' = IF eofs' # eofs THEN Seen(Head(queue)) ELSE peer
    /\ UNCHANGED <<asked, fate, held, session, reached, sync>>

WriteHere(t) ==
    /\ OnWrite(t)
    /\ reached' = IF wire' = wire THEN reached
                  ELSE reached \cup {<<Head(queue), peer, Message(Head(queue))>>}
    /\ UNCHANGED <<asked, fate, held, session, peer, sync>>

\* The others do not touch the façade.
SessionStep ==
    /\ \/ \E r \in Requests : NameRefused(r) \/ Expire(r)
       \/ \E t \in Threads : OnResolve(t) \/ OnConnect(t) \/ OnHandshake(t)
       \/ \E t \in Actors : CallBack(t) \/ Return(t)
       \/ \E t \in Threads, r \in Requests : OnTimer(t, r)
    /\ UNCHANGED facade

----------------------------------------------------------------------------
(* Synchronous send_request: the calling thread runs an io_context until   *)
(* nothing is left to do or a handler throws, because fail() finds no      *)
(* callback.  _url is a local variable that outlives the session, and not  *)
(* moved.  On the way out the session is destroyed, which ends a TLS       *)
(* connection in dialogue with the server, and without a deadline.         *)
Moves(s, from, to) == sync[s] = from /\ sync' = [sync EXCEPT ![s] = to]

SyncKind == OpKind \cup {"tls write", "tls read"}

Leaves(s, from) ==
    Moves(s, from, IF from \in {"tls write", "tls read"} THEN "shutdown" ELSE "returned")

SyncCall(s) ==
    /\ asked[s] # NoCall
    /\ Moves(s, "new", IF Url(s).ok THEN "resolve" ELSE "returned")
    /\ UNCHANGED reached

SyncWritten(s) ==
    /\ Moves(s, "write", "read") \/ Moves(s, "tls write", "tls read")
    /\ reached' = reached \cup {<<s, Endpoint(Url(s)), Message(s)>>}

\* The server ends the connection, and the request is sent again: read to resolve.
SyncAdvance(s) ==
    /\ \/ Moves(s, "resolve", "connect")
       \/ Moves(s, "connect", IF IsHttps(Url(s)) THEN "handshake" ELSE "write")
       \/ Moves(s, "handshake", "tls write")
       \/ \E k \in {"read", "tls read"} : Moves(s, k, "resolve")
    /\ UNCHANGED reached

\* The response has come, or an operation has failed.
SyncEnd(s) ==
    /\ \E k \in SyncKind : Leaves(s, k)
    /\ UNCHANGED reached

\* Mutant: on_timer() only ends a request that waits for its response.
SyncDeadlineInRead(s) ==
    /\ \E k \in {"read", "tls read"} : Leaves(s, k)
    /\ Made(asked[s]).millis # 0
    /\ UNCHANGED reached

\* on_timer(): also when the response has come, if its handler is queued by then.
SyncDeadline(s) ==
    /\ \E k \in SyncKind : Leaves(s, k)
    /\ Made(asked[s]).millis # 0
    /\ UNCHANGED reached

\* ~session_client: the server has ended the TLS connection too, or it is broken.
SyncShutdown(s) ==
    /\ Moves(s, "shutdown", "returned")
    /\ UNCHANGED reached

Apart == UNCHANGED <<vars, asked, fate, held, session, peer>>

SyncStep(s) ==
    /\ \/ SyncCall(s) \/ SyncWritten(s) \/ SyncAdvance(s)
       \/ SyncEnd(s) \/ SyncDeadline(s) \/ SyncShutdown(s)
    /\ Apart

----------------------------------------------------------------------------
ClientNext ==
    \/ \E r \in Requests : Refuse(r) \/ Elsewhere(r) \/ Run(r) \/ EnterHere(r)
    \/ \E t \in Threads : ReadHere(t) \/ WriteHere(t)
    \/ SessionStep
    \/ \E s \in SyncCalls : SyncStep(s)

ClientSpec == ClientInit /\ [][ClientNext]_clientVars

(* The thread in a synchronous call runs its io_context: a deadline that   *)
(* has passed ends it.  Of the network nothing is assumed.                 *)
ClientFairSpec ==
    ClientSpec /\ \A s \in SyncCalls : WF_clientVars(SyncDeadline(s) /\ Apart)

----------------------------------------------------------------------------
(* Properties.                                                             *)

\* What a call means, from the components of its URL and not from their text.
Meant(c) ==
    [method |-> c.verb,
     target |-> (IF c.at.path = <<>> THEN <<"/">> ELSE c.at.path) \o c.at.query,
     host   |-> c.at.host,
     body   |-> IF c.verb = "GET" THEN NoBody ELSE c.body]

\* And where it goes, by the scheme if it names no port.
MeantEndpoint(c) ==
    [host |-> c.at.host,
     port |-> IF c.at.portText # <<>> THEN c.at.portText
              ELSE IF c.at.scheme = <<"https">> THEN <<"443">> ELSE <<"80">>]

\* The program writes its URLs by the grammar, and with one of the two schemes.
WellFormedUsage ==
    \A a \in Usage : \A r \in Calls(a) :
        WellFormed(a[r].at) /\ a[r].at.scheme \in {<<"http">>, <<"https">>}

OneHost ==
    \A q, r \in Calls(asked) \cap Requests :
        asked[q].at.scheme = asked[r].at.scheme
            => MeantEndpoint(asked[q]) = MeantEndpoint(asked[r])

\* A short URL is among those of the asynchronous calls.
SomeLost == \E r \in Calls(asked) \cap Requests : Lost(r)

\* A request is written to the host and port of its own URL ("Request an URL").
OwnHost == \A m \in reached : m[2] = MeantEndpoint(asked[m[1]])

\* That m was written to e for r.
Own(r, e, m) ==
    /\ m.method = Meant(asked[r]).method /\ m.body = Meant(asked[r]).body
    /\ Lost(r) \/ m = Meant(asked[r])
    /\ \/ e = MeantEndpoint(asked[r])
       \/ r \in Requests /\ (~OneHost \/ Lost(r))
       \/ r \in Requests /\ e = Unknown /\ (eofs > 0 \/ SomeLost)

\* What is written for a request is what its caller asked for, method, target,
\* Host and body, whatever other calls have overwritten _url since, through
\* time-outs, lost connections and requests that wait in the queue.  It goes to
\* its own host, if a client talks to one host for each scheme and the server
\* does not end the connection, and in any case if it is synchronous.  Of an
\* asynchronous request with a short URL only method and body are sure, and where
\* its session connects to is not.
OwnRequest == \A w \in reached : Own(w[1], w[2], w[3])

\* A synchronous call whose deadline is a millisecond or more ends its operation
\* whatever the server does, also if it never answers or ends every connection. It
\* returns then, or waits for the server to end an https connection.
CallsReturn ==
    \A s \in SyncCalls :
        sync[s] \in SyncKind /\ asked[s].seconds >= 10
            ~> \/ sync[s] = "returned"
               \/ sync[s] = "shutdown" /\ asked[s].at.scheme = <<"https">>
=============================================================================
