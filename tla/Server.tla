------------------------------- MODULE Server -------------------------------
(***************************************************************************)
(* beauty::server (server.cpp) and its acceptors (acceptor.cpp) on top of  *)
(* the application: listen() and stop(), one after the other but next to   *)
(* the threads of the io_context, where connections are accepted.          *)
(*                                                                         *)
(* A call of the application made by listen(), stop() or an acceptor is    *)
(* one of Application: pc leaves "idle", and the caller goes on when it is *)
(* idle again.                                                             *)
(***************************************************************************)
EXTENDS Application

CONSTANTS Owners,       \* user threads that call listen() and stop() of the server
          Endpoints,    \* addresses with their port
          Targets,      \* what listen() may resolve: sequences of endpoints
          NoEndpoint,   \* "no endpoint"
          Acceptors,    \* the acceptors the server will have made
          NoAcceptor,   \* "no acceptor"
          Faults,       \* what may fail: "resolve", "open", "option", "bind", "accept"
          MaxEndpoints, \* bound on the endpoints that listen() adds up
          MaxBacklog    \* bound on connections that wait for an acceptor

ASSUME ServerAssumption ==
    /\ Owners \subseteq Users
    /\ "abort" \notin Handlers    \* the process does not end meanwhile
    /\ NoEndpoint \notin Endpoints
    /\ NoAcceptor \notin Acceptors
    /\ \A target \in Targets : target \in Seq(Endpoints) /\ target # <<>>
    /\ Faults \subseteq {"resolve", "open", "option", "bind", "accept"}
    /\ MaxEndpoints \in Nat
    /\ MaxBacklog \in Nat

VARIABLES step,       \* where the caller is in listen() or stop(), or "idle"
          caller,     \* the thread that makes, or has made, that call
          n,          \* the endpoint or acceptor it is at
          new,        \* the acceptor it has made
          endpoints,  \* _endpoints
          acceptors,  \* _acceptors
          at,         \* the endpoint of each acceptor
          port,       \* its socket: "closed", "open" but not listening, "listening"
          accept,     \* its async_accept(): "none", "waiting", the result, queued, or
                      \* "given up" after a failure
          backlog,    \* connections the kernel holds for it
          handling    \* the acceptor in whose on_accept() each thread makes a session

svars == <<vars, step, caller, n, new, endpoints, acceptors, at, port, accept, backlog,
           handling>>

Control == <<step, caller, n, new>>
Lists == <<endpoints, acceptors>>
Sockets == <<at, port, accept, backlog>>

SInit ==
    /\ Init
    /\ step = "idle"
    /\ caller \in Owners
    /\ n = 1
    /\ new = NoAcceptor
    /\ endpoints = <<>>
    /\ acceptors = <<>>
    /\ at = [a \in Acceptors |-> NoEndpoint]
    /\ port = [a \in Acceptors |-> "closed"]
    /\ accept = [a \in Acceptors |-> "none"]
    /\ backlog = [a \in Acceptors |-> 0]
    /\ handling = [t \in Threads |-> NoAcceptor]

Listed == {acceptors[k] : k \in DOMAIN acceptors}

Unused == {a \in Acceptors : at[a] = NoEndpoint}

\* The bound on calls of listen().  A call that runs out of acceptors stays where
\* it is.
Fits(target) == Unused # {} /\ Len(endpoints) + Len(target) <= MaxEndpoints

\* A call of the application by thread t out of the server's code.
Calls(t, l) ==
    /\ Goto(t, l)
    /\ UNCHANGED <<state, iocStopped, active, size, Tasks, left, arming, Inside, life>>

\* No user thread is inside a call, unless it serves the io_context in run().
\* Users make their calls one after the other.
Quiet == step = "idle" /\ \A u \in Users : pc[u] = "idle" \/ loop[u] # "none"

\* The caller of the server, back from the application.
Back(s) == step = s /\ pc[caller] = "idle"

----------------------------------------------------------------------------
(* server::listen()                                                        *)
Listen(u) ==
    /\ u \in Owners /\ Quiet /\ Between(u)
    /\ \E target \in Targets : Fits(target)
    /\ caller' = u
    /\ step' = "resolve"
    /\ IF state = "started" THEN UNCHANGED vars ELSE Calls(u, "start")
    /\ UNCHANGED <<n, new, Lists, Sockets, handling>>

\* The addresses are resolved one after the other; resolve() may throw.
Resolve ==
    /\ Back("resolve")
    /\ \E target \in Targets : Fits(target) /\
        \/ /\ endpoints' = endpoints \o target
           /\ step' = "construct"
        \/ /\ "resolve" \in Faults
           /\ \E k \in DOMAIN target : endpoints' = endpoints \o SubSeq(target, 1, k - 1)
           /\ step' = "idle"
    /\ n' = 1
    /\ UNCHANGED <<vars, caller, new, acceptors, Sockets, handling>>

Taken(e) == \E a \in Acceptors : port[a] = "listening" /\ at[a] = e

\* The states a failure leaves the socket of a new acceptor in.
Failed(e) == {p \in {"closed", "open"} :
                 \/ p = "closed" /\ "open" \in Faults
                 \/ p = "open" /\ ("bind" \in Faults \/ Taken(e))}

\* Mutant: an acceptor that fails does not stop the application.
ConstructQuiet ==
    /\ Back("construct") /\ Unused # {}
    /\ LET e == endpoints[n]
           a == CHOOSE b \in Unused : TRUE IN
       /\ new' = a
       /\ at' = [at EXCEPT ![a] = e]
       /\ \E p \in Failed(e) \cup (IF Taken(e) THEN {} ELSE {"listening"}) :
            port' = [port EXCEPT ![a] = p]
       /\ step' = "launch"
    /\ UNCHANGED <<vars, caller, n, Lists, accept, backlog, handling>>

(* The constructor of the acceptor of one endpoint: it listens, or stops   *)
(* the application, or a socket option throws out of listen().             *)
Construct ==
    /\ Back("construct") /\ Unused # {}
    /\ LET e == endpoints[n]
           a == CHOOSE b \in Unused : TRUE IN
       \/ /\ ~Taken(e)
          /\ new' = a
          /\ at' = [at EXCEPT ![a] = e]
          /\ port' = [port EXCEPT ![a] = "listening"]
          /\ step' = "launch"
          /\ UNCHANGED vars
       \/ /\ new' = a
          /\ at' = [at EXCEPT ![a] = e]
          /\ \E p \in Failed(e) : port' = [port EXCEPT ![a] = p]
          /\ step' = "launch"
          /\ Calls(caller, "stop")
       \/ /\ "option" \in Faults
          /\ step' = "idle"
          /\ UNCHANGED <<vars, new, at, port>>
    /\ UNCHANGED <<caller, n, Lists, accept, backlog, handling>>

(* do_accept(): the socket of an acceptor that does not listen reports an  *)
(* error, and not that the operation was cancelled.                        *)
DoAccept(a) ==
    accept' = [accept EXCEPT ![a] = IF port[a] = "listening" THEN "waiting" ELSE "failed"]

\* The new acceptor is run unless its socket is closed; then the next endpoint.
Launch ==
    /\ Back("launch")
    /\ acceptors' = Append(acceptors, new)
    /\ IF port[new] = "closed" THEN UNCHANGED accept ELSE DoAccept(new)
    /\ step' = IF n < Len(endpoints) THEN "construct" ELSE "idle"
    /\ n' = n + 1
    /\ UNCHANGED <<vars, caller, new, endpoints, at, port, backlog, handling>>

(* server::stop()                                                          *)
Stop(u) ==
    /\ u \in Owners /\ Quiet /\ Between(u)
    /\ caller' = u
    /\ step' = "close"
    /\ n' = 1
    /\ UNCHANGED <<vars, new, Lists, Sockets, handling>>

\* Closing the socket cancels its accept and drops the backlog.
Close ==
    /\ step = "close" /\ n <= Len(acceptors)
    /\ LET a == acceptors[n] IN
       /\ port' = [port EXCEPT ![a] = "closed"]
       /\ accept' = [accept EXCEPT ![a] = IF @ = "waiting" THEN "cancelled" ELSE @]
       /\ backlog' = [backlog EXCEPT ![a] = 0]
    /\ n' = n + 1
    /\ UNCHANGED <<vars, step, caller, new, Lists, at, handling>>

Leaving ==
    /\ acceptors' = <<>>
    /\ endpoints' = <<>>
    /\ step' = "shutdown"
    /\ Calls(caller, "stop")
    /\ UNCHANGED <<caller, n, new, Sockets, handling>>

\* Mutant: the last acceptor is not closed; its handler keeps it alive.
ClearEarly == step = "close" /\ n >= Len(acceptors) /\ Leaving

Clear == step = "close" /\ n > Len(acceptors) /\ Leaving

Stopped ==
    /\ Back("shutdown")
    /\ step' = "idle"
    /\ UNCHANGED <<vars, caller, n, new, Lists, Sockets, handling>>

----------------------------------------------------------------------------
(* The kernel, as the io_context sees it.                                  *)
Connect(a) ==
    /\ port[a] = "listening"
    /\ backlog[a] < MaxBacklog
    /\ backlog' = [backlog EXCEPT ![a] = @ + 1]
    /\ UNCHANGED <<vars, Control, Lists, at, port, accept, handling>>

Polled == \E t \in Threads : loop[t] = "run"

Accepted(a) ==
    /\ Polled
    /\ accept[a] = "waiting" /\ backlog[a] > 0
    /\ accept' = [accept EXCEPT ![a] = "accepted"]
    /\ backlog' = [backlog EXCEPT ![a] = @ - 1]
    /\ UNCHANGED <<vars, Control, Lists, at, port, handling>>

AcceptFails(a) ==
    /\ "accept" \in Faults
    /\ Polled
    /\ accept[a] = "waiting"
    /\ accept' = [accept EXCEPT ![a] = "failed"]
    /\ UNCHANGED <<vars, Control, Lists, at, port, backlog, handling>>

----------------------------------------------------------------------------
(* acceptor::on_accept(), a handler of the io_context.                     *)
Enters(t, a, result) ==
    /\ loop[t] = "run" /\ ~iocStopped
    /\ accept' = [accept EXCEPT ![a] = result]
    /\ loop' = [loop EXCEPT ![t] = "handler"]
    /\ job' = [job EXCEPT ![t] = Handler("plain")]
    /\ UNCHANGED <<state, iocStopped, active, size, Tasks, left, arming, life,
                   Control, Lists, at, port, backlog>>

OnCancelled(t, a) ==
    /\ accept[a] = "cancelled"
    /\ Enters(t, a, "none")
    /\ UNCHANGED <<pc, handling>>

OnFailed(t, a) ==
    /\ accept[a] = "failed"
    /\ Enters(t, a, "given up")
    /\ Goto(t, "stop")
    /\ UNCHANGED handling

OnAccepted(t, a) ==
    /\ accept[a] = "accepted"
    /\ Enters(t, a, "none")
    /\ handling' = [handling EXCEPT ![t] = a]
    /\ UNCHANGED pc

\* Mutant: the acceptor accepts one connection.
AcceptNextNot(t) ==
    /\ handling[t] # NoAcceptor
    /\ handling' = [handling EXCEPT ![t] = NoAcceptor]
    /\ UNCHANGED <<vars, Control, Lists, Sockets>>

\* The session is running: accept another connection.
AcceptNext(t) ==
    /\ handling[t] # NoAcceptor
    /\ DoAccept(handling[t])
    /\ handling' = [handling EXCEPT ![t] = NoAcceptor]
    /\ UNCHANGED <<vars, Control, Lists, at, port, backlog>>

----------------------------------------------------------------------------
ServerStep == Resolve \/ Construct \/ Launch \/ Close \/ Clear \/ Stopped

OnAccept(t, a) == OnCancelled(t, a) \/ OnFailed(t, a) \/ OnAccepted(t, a)

ThreadStep(t) ==
    /\ handling[t] = NoAcceptor
    /\ CallStep(t) \/ LoopStep(t)
    /\ UNCHANGED <<Control, Lists, Sockets, handling>>

OwnCall(u) ==
    /\ Quiet
    /\ UserCall(u)
    /\ UNCHANGED <<Control, Lists, Sockets, handling>>

SNext ==
    \/ ServerStep
    \/ \E u \in Users : Listen(u) \/ Stop(u) \/ OwnCall(u)
    \/ \E t \in Threads : ThreadStep(t) \/ AcceptNext(t)
    \/ \E t \in Threads, a \in Acceptors : OnAccept(t, a)
    \/ \E a \in Acceptors : Connect(a) \/ Accepted(a) \/ AcceptFails(a)

SSpec == SInit /\ [][SNext]_svars

(* Threads are scheduled, the io_context polls its sockets, and it runs     *)
(* what is queued in its order.                                            *)
SFairness ==
    /\ WF_svars(ServerStep)
    /\ \A t \in Threads : WF_svars(ThreadStep(t) \/ AcceptNext(t))
    /\ \A a \in Acceptors :
        SF_svars(Accepted(a)) /\ SF_svars(\E t \in Threads : OnAccept(t, a))

SFairSpec == SSpec /\ SFairness

----------------------------------------------------------------------------
(* Properties.                                                             *)

\* The states of an accept, and how many connections may wait for it.
Progress == {"none", "waiting", "accepted", "failed", "cancelled", "given up"}
Waiting == 0..MaxBacklog

\* listen() and stop() are at one of their endpoints or acceptors.
ServerTypeOK ==
    /\ step \in {"idle", "resolve", "construct", "launch", "close", "shutdown"}
    /\ caller \in Owners
    /\ new \in Acceptors \cup {NoAcceptor}
    /\ n \in Nat \ {0}
    /\ step \in {"construct", "launch"} => n <= Len(endpoints)
    /\ step = "launch" => new \in Acceptors
    /\ endpoints \in Seq(Endpoints)
    /\ acceptors \in Seq(Acceptors)
    /\ at \in [Acceptors -> Endpoints \cup {NoEndpoint}]
    /\ port \in [Acceptors -> {"closed", "open", "listening"}]
    /\ accept \in [Acceptors -> Progress]
    /\ backlog \in [Acceptors -> Waiting]
    /\ handling \in [Threads -> Acceptors \cup {NoAcceptor}]

\* Between two calls the server knows every acceptor with a port open, so that
\* the next stop() closes it, those included that have failed in listen().
NoPortLeft ==
    step = "idle" => \A a \in Acceptors : port[a] # "closed" => a \in Listed

\* listen() opens all of its endpoints or leaves the application stopped: a
\* started application never lacks one.
AllOrStopped ==
    [][step = "launch" /\ step' = "idle" =>
        \/ state' = "stopped"
        \/ \A k \in DOMAIN endpoints' :
              \E a \in Acceptors : port'[a] = "listening" /\ at'[a] = endpoints'[k]]_svars

\* A connection is accepted unless the io_context is stopped, the port closed or
\* the acceptor has failed ("Don't accept more connections if acceptor fails").
ConnectionsAccepted ==
    \A a \in Acceptors :
        backlog[a] > 0 /\ state = "started" ~>
            backlog[a] = 0 \/ iocStopped \/ accept[a] = "given up"
=============================================================================
