---------------------------- MODULE HttpSession ----------------------------
(***************************************************************************)
(* One HTTP connection of the server (session.hpp) with the responses it   *)
(* gives out and their postponement (response.hpp).  A coroutine handles   *)
(* each request on the strand of the session; the response is written when *)
(* it ends, or later, by the thread that calls done() on a postponed one.  *)
(*                                                                         *)
(* What the middlewares and the route do is in MiddlewareChain: here they  *)
(* end with a response, an error response, a protocol switch or an         *)
(* exception nobody catches.                                               *)
(***************************************************************************)
EXTENDS Integers, Sequences

CONSTANTS MaxRequests,  \* bound on the requests of the connection
          MaxDone,      \* how often done() is called on a postponed response
          SSL,          \* the SSL template parameter
          Early         \* requests for which done() may come before the coroutine
                        \* has ended: from another thread, or while a middleware
                        \* is suspended

ASSUME SessionAssumption ==
    /\ MaxRequests \in Nat
    /\ MaxDone \in Nat \ {0}
    /\ SSL \in BOOLEAN

Requests == 1..MaxRequests

ASSUME EarlyAssumption == Early \subseteq Requests

VARIABLES at,         \* what the session waits for, apart from writes and done()
          n,          \* requests read so far; the current one
          postponed,  \* the response to the current request is postponed
          armed,      \* response::_cb starts the write
          owed,       \* calls of done() still to come
          doing,      \* the response done() is being called on
          writes,     \* responses being written
          answered    \* history: requests answered, in order

vars == <<at, n, postponed, armed, owed, doing, writes, answered>>

Init ==
    /\ at = IF SSL THEN "handshake" ELSE "reading"
    /\ n = 0
    /\ postponed = FALSE
    /\ armed = [r \in Requests |-> FALSE]
    /\ owed = [r \in Requests |-> 0]
    /\ doing = [r \in Requests |-> FALSE]
    /\ writes = <<>>
    /\ answered = <<>>

Responses == <<postponed, armed, owed, doing>>

\* do_close(); of an error the session is released, which closes the socket.
Closing == IF SSL THEN "shutdown" ELSE "closed"

OnHandshake ==
    /\ at = "handshake"
    /\ at' \in {"reading", "closed"}
    /\ UNCHANGED <<n, Responses, writes, answered>>

OnRead ==
    /\ at = "reading"
    /\ \/ n < MaxRequests /\ n' = n + 1 /\ at' = "handling"
       \/ n' = n /\ at' \in {Closing, "closed"}
    /\ UNCHANGED <<Responses, writes, answered>>

(* handle_request ends with the response of the route, one that says that  *)
(* there is no such route, or one made from an exception.                  *)
Respond ==
    /\ at = "handling"
    /\ at' = "replying"
    /\ postponed' = FALSE
    /\ UNCHANGED <<n, armed, owed, doing, writes, answered>>

\* The route postpones its response; if it throws after that, another is sent.
Postpone ==
    /\ at = "handling"
    /\ at' = "replying"
    /\ postponed' \in BOOLEAN
    /\ owed' = [owed EXCEPT ![n] = MaxDone]
    /\ UNCHANGED <<n, armed, doing, writes, answered>>

\* The socket is moved to a websocket or event stream, or an exception that
\* handle_request does not catch ends the coroutine: the session is released.
HandOver ==
    /\ at = "handling"
    /\ at' = "released"
    /\ UNCHANGED <<n, Responses, writes, answered>>

\* Mutant: a postponed response is written by the coroutine too.
ReplyAlways ==
    /\ at = "replying"
    /\ at' = "idle"
    /\ armed' = IF postponed THEN [armed EXCEPT ![n] = TRUE] ELSE armed
    /\ writes' = Append(writes, n)
    /\ UNCHANGED <<n, postponed, owed, doing, answered>>

\* Mutant: a postponed response is given no callback.
ReplyForgets ==
    /\ at = "replying"
    /\ at' = "idle"
    /\ writes' = IF postponed THEN writes ELSE Append(writes, n)
    /\ UNCHANGED <<n, postponed, armed, owed, doing, answered>>

\* The coroutine goes on: do_write(), or on_done().
Reply ==
    /\ at = "replying"
    /\ at' = "idle"
    /\ IF postponed
       THEN armed' = [armed EXCEPT ![n] = TRUE] /\ UNCHANGED writes
       ELSE writes' = Append(writes, n) /\ UNCHANGED armed
    /\ UNCHANGED <<n, postponed, owed, doing, answered>>

(* response::done(): the call of _cb, then its replacement.                *)
Done(r) ==
    /\ owed[r] > 0 /\ ~doing[r]
    /\ r \in Early \/ at \notin {"handling", "replying"}
    /\ owed' = [owed EXCEPT ![r] = @ - 1]
    /\ doing' = [doing EXCEPT ![r] = TRUE]
    /\ writes' = IF armed[r] THEN Append(writes, r) ELSE writes
    /\ UNCHANGED <<at, n, postponed, armed, answered>>

\* Mutant: done() keeps the callback.
DoneReturnKeeps(r) ==
    /\ doing[r]
    /\ doing' = [doing EXCEPT ![r] = FALSE]
    /\ UNCHANGED <<at, n, postponed, armed, owed, writes, answered>>

DoneReturn(r) ==
    /\ doing[r]
    /\ doing' = [doing EXCEPT ![r] = FALSE]
    /\ armed' = [armed EXCEPT ![r] = FALSE]
    /\ UNCHANGED <<at, n, postponed, owed, writes, answered>>

(* The response is written: the next read, or the end of a connection that *)
(* is not kept alive.                                                      *)
OnWrite ==
    /\ writes # <<>>
    /\ writes' = Tail(writes)
    /\ \/ at' \in {"reading", Closing} /\ answered' = Append(answered, Head(writes))
       \/ at' = "closed" /\ UNCHANGED answered
    /\ UNCHANGED <<n, Responses>>

OnShutdown ==
    /\ at = "shutdown"
    /\ at' = "closed"
    /\ UNCHANGED <<n, Responses, writes, answered>>

Coroutine == Respond \/ Postpone \/ HandOver \/ Reply

Next ==
    \/ OnHandshake \/ OnRead \/ Coroutine \/ OnWrite \/ OnShutdown
    \/ \E r \in Requests : Done(r) \/ DoneReturn(r)

Spec == Init /\ [][Next]_vars

(* Coroutines end, writes end and whoever postponed a response calls       *)
(* done(); the client may never send another request.                      *)
FairSpec ==
    /\ Spec
    /\ WF_vars(Coroutine) /\ WF_vars(OnWrite) /\ WF_vars(OnShutdown)
    /\ \A r \in Requests : WF_vars(Done(r)) /\ WF_vars(DoneReturn(r))

----------------------------------------------------------------------------
(* Properties.                                                             *)

TypeOK ==
    /\ at \in {"handshake", "reading", "handling", "replying", "idle", "shutdown",
               "closed", "released"}
    /\ n \in 0..MaxRequests
    /\ postponed \in BOOLEAN
    /\ armed \in [Requests -> BOOLEAN]
    /\ owed \in [Requests -> 0..MaxDone]
    /\ doing \in [Requests -> BOOLEAN]
    /\ writes \in Seq(Requests)
    /\ answered \in Seq(Requests)

\* The stream has one operation at a time, and none but a write while a response
\* is being written, from wherever and however often, one call after the other,
\* done() is called.
OneOperation == Len(writes) <= 1 /\ (writes # <<>> => at = "idle")

\* Requests are answered in the order in which they were read, each once, and
\* the next one is read only then: no done() answers another request than its own.
AnsweredInOrder ==
    /\ \A k \in 1..Len(answered) : answered[k] = k
    /\ at = "reading" => Len(answered) = n

\* A request that was read is answered, unless the connection comes to an end.
Answers(r) == n = r ~> Len(answered) >= r \/ at \in {"shutdown", "closed", "released"}
EveryRequestAnswered == \A r \in Requests : Answers(r)

\* It is as long as done() waits for the coroutine.
PatientRequestAnswered == \A r \in Requests \ Early : Answers(r)
=============================================================================
