--------------------------- MODULE SessionClient ---------------------------
(***************************************************************************)
(* The asynchronous HTTP client session (session_client.hpp) as driven by  *)
(* client::send_request (client.cpp): one TCP connection, a queue of       *)
(* requests written one at a time, an optional deadline timer for each     *)
(* request, and one user callback for each request.                        *)
(*                                                                         *)
(* Handlers run on the threads of the application's io_context.  All of    *)
(* them hold _requests_mtx except on_timer; that is why a handler that     *)
(* calls a user callback is split into the test of the callback, the call, *)
(* and what follows it, and all other handlers are one step each.  A       *)
(* handler that waits for the mutex is modelled as not yet started.        *)
(*                                                                         *)
(* run() itself calls a callback if OpenSSL refuses the name of the host:  *)
(* the thread that called run(), then, is Caller.  There is no more than   *)
(* one, because it holds the mutex.  Callbacks let no exception out.       *)
(*                                                                         *)
(* The network answers every operation with success or an error; how often *)
(* it does the latter is bounded by MaxErrors and MaxEofs.                 *)
(***************************************************************************)
EXTENDS Integers, Sequences

CONSTANTS Requests,    \* requests handed to client::send_request
          Timed,       \* those with a deadline (d.count() # 0)
          Nested,      \* those that the callback of another may issue
          BadNames,    \* those whose host OpenSSL may refuse (empty or too long)
          Threads,     \* threads that run the io_context
          Caller,      \* the thread in a run() that calls a callback
          NoRequest,   \* "no request"
          SSL,         \* the SSL template parameter: a handshake follows connect
          MaxErrors,   \* bound on failed network operations
          MaxEofs      \* bound on reads that end with end_of_stream

ASSUME SessionAssumption ==
    /\ Timed \subseteq Requests
    /\ Nested \subseteq Requests
    /\ BadNames \subseteq Requests
    /\ NoRequest \notin Requests
    /\ Caller \notin Threads
    /\ SSL \in BOOLEAN
    /\ MaxErrors \in Nat
    /\ MaxEofs \in Nat

VARIABLES stage,    \* where run() has brought each request
          timer,    \* the deadline timer of each request
          cb,       \* request_context::cb is still set
          late,     \* request_context::too_late
          queue,    \* _requests
          pending,  \* _pending_request
          open,     \* _socket.is_open()
          ops,      \* outstanding asynchronous operations, by kind
          wire,     \* requests the server has read on this connection and not answered
          work,     \* what each thread is doing
          calls,    \* how often the callback of each request was called
          threw,    \* requests whose handler, or run(), let an exception out
          errors,   \* failed operations so far
          eofs      \* end_of_stream reads so far

vars == <<stage, timer, cb, late, queue, pending, open, ops, wire, work,
          calls, threw, errors, eofs>>

OpKind == {"resolve", "connect", "handshake", "write", "read"}

Actors == Threads \cup {Caller}

\* A thread runs a handler up to the call of a user callback ("test"), is in
\* that callback ("call"), or waits inside it for run() ("issue", for sub).
Idle == [task |-> "idle", step |-> "none", req |-> NoRequest, sub |-> NoRequest]
Task(k, r) == [task |-> k, step |-> "test", req |-> r, sub |-> NoRequest]

WorkState == [task : {"idle", "read", "fail", "timer", "enter"},
              step : {"none", "test", "call", "issue"},
              req  : Requests \cup {NoRequest},
              sub  : Requests \cup {NoRequest}]

Free(t) == work[t].task = "idle"

\* on_timer is the only handler that does not take _requests_mtx.
Holds(t) == work[t].task \in {"read", "fail", "enter"}
MutexFree == \A t \in Actors : ~Holds(t)

\* The callback that waits for run() to return r goes on.
Resumed(w, r) ==
    [t \in Actors |-> IF w[t].sub = r
                      THEN [w[t] EXCEPT !.step = "call", !.sub = NoRequest]
                      ELSE w[t]]

\* Thread t is done with its handler, or with run().
Left(t) ==
    LET w == [work EXCEPT ![t] = Idle] IN
    IF work[t].task = "enter" THEN Resumed(w, work[t].req) ELSE w

Start(o, k) == [o EXCEPT ![k] = @ + 1]
Finish(o, k) == [o EXCEPT ![k] = @ - 1]

Cancel(tm, r) == [tm EXCEPT ![r] = IF @ = "armed" THEN "off" ELSE @]
Arm(tm, r) == IF r \in Timed THEN [tm EXCEPT ![r] = "armed"] ELSE tm

Init ==
    /\ stage = [r \in Requests |-> "new"]
    /\ timer = [r \in Requests |-> "none"]
    /\ cb = [r \in Requests |-> TRUE]
    /\ late = [r \in Requests |-> FALSE]
    /\ queue = <<>>
    /\ pending = FALSE
    /\ open = FALSE
    /\ ops = [k \in OpKind |-> 0]
    /\ wire = <<>>
    /\ work = [t \in Actors |-> Idle]
    /\ calls = [r \in Requests |-> 0]
    /\ threw = {}
    /\ errors = 0
    /\ eofs = 0

----------------------------------------------------------------------------
\* Mutant: do_write() that does not remember the write it has started.
DoWriteForgets(q, o) ==
    IF q = <<>>
    THEN pending' = FALSE /\ ops' = o
    ELSE pending' = FALSE /\ ops' = Start(o, "write")

(* do_write(): called with the mutex held, on queue q with operations o.   *)
DoWrite(q, o) ==
    IF q = <<>>
    THEN pending' = FALSE /\ ops' = o
    ELSE pending' = TRUE /\ ops' = Start(o, "write")

(* fail() for the request in front, up to the call of its callback.  A     *)
(* write on a socket that was never opened is sure to fail.                *)
Fail(t) ==
    LET r == Head(queue) IN
    /\ errors < MaxErrors \/ (ops["write"] > 0 /\ ~open)
    /\ errors' = errors + 1
    /\ work' = IF cb[r] /\ ~late[r] THEN [work EXCEPT ![t] = Task("fail", r)]
                                    ELSE work
    /\ threw' = IF cb[r] THEN threw ELSE threw \cup {r}

----------------------------------------------------------------------------
(* run(): the timer is armed first, then the request waits for the mutex.  *)
Issue(r) ==
    /\ stage[r] = "new"
    /\ stage' = [stage EXCEPT ![r] = "entering"]
    /\ timer' = Arm(timer, r)
    /\ UNCHANGED <<cb, late, queue, pending, open, ops, wire, work, calls,
                   threw, errors, eofs>>

(* A callback calls the client again, on the thread that runs the callback. *)
IssueInCallback(t, r) ==
    /\ work[t].step = "call"
    /\ stage[r] = "new"
    /\ r \in Nested
    /\ stage' = [stage EXCEPT ![r] = "entering"]
    /\ timer' = Arm(timer, r)
    /\ work' = [work EXCEPT ![t] = [@ EXCEPT !.step = "issue", !.sub = r]]
    /\ UNCHANGED <<cb, late, queue, pending, open, ops, wire, calls, threw,
                   errors, eofs>>

\* Mutant: run() touches the queue without the mutex.
EnterUnlocked(r) ==
    /\ stage[r] = "entering"
    /\ stage' = [stage EXCEPT ![r] = "queued"]
    /\ queue' = Append(queue, r)
    /\ IF queue = <<>> /\ ~open
       THEN pending' = TRUE /\ ops' = Start(ops, "resolve")
       ELSE IF pending THEN UNCHANGED <<pending, ops>>
                       ELSE DoWrite(queue', ops)
    /\ work' = Resumed(work, r)
    /\ UNCHANGED <<timer, cb, late, open, wire, calls, threw, errors, eofs>>

\* Mutant: run() writes although _pending_request is set.
EnterRearms(r) ==
    /\ stage[r] = "entering"
    /\ MutexFree
    /\ stage' = [stage EXCEPT ![r] = "queued"]
    /\ queue' = Append(queue, r)
    /\ IF queue = <<>> /\ ~open
       THEN pending' = TRUE /\ ops' = Start(ops, "resolve")
       ELSE DoWrite(queue', ops)
    /\ UNCHANGED <<timer, cb, late, open, wire, work, calls, threw, errors, eofs>>

(* The rest of run(), under the mutex.                                     *)
Enter(r) ==
    /\ stage[r] = "entering"
    /\ MutexFree
    /\ stage' = [stage EXCEPT ![r] = "queued"]
    /\ queue' = Append(queue, r)
    /\ IF queue = <<>> /\ ~open
       THEN pending' = TRUE /\ ops' = Start(ops, "resolve")
       ELSE IF pending THEN UNCHANGED <<pending, ops>>
                       ELSE DoWrite(queue', ops)
    /\ work' = Resumed(work, r)
    /\ UNCHANGED <<timer, cb, late, open, wire, calls, threw, errors, eofs>>

(* run() on the first request, when OpenSSL refuses the name of its host:  *)
(* fail() calls the callback, or throws if on_timer() was before it; after *)
(* the callback (Return) run() writes, on a socket that is not open.       *)
NameRefused(r) ==
    /\ stage[r] = "entering"
    /\ SSL /\ r \in BadNames
    /\ MutexFree /\ queue = <<>> /\ ~open
    /\ errors < MaxErrors
    /\ errors' = errors + 1
    /\ stage' = [stage EXCEPT ![r] = "queued"]
    /\ queue' = <<r>>
    /\ IF cb[r]
       THEN work' = [work EXCEPT ![Caller] = Task("enter", r)] /\ UNCHANGED threw
       ELSE work' = Resumed(work, r) /\ threw' = threw \cup {r}
    /\ UNCHANGED <<timer, cb, late, pending, open, ops, wire, calls, eofs>>

----------------------------------------------------------------------------
(* Completion handlers, each run by a free thread t.                       *)
OnResolve(t) ==
    /\ Free(t) /\ ops["resolve"] > 0
    /\ \/ /\ ops' = Start(Finish(ops, "resolve"), "connect")
          /\ open' = TRUE
          /\ wire' = <<>>
          /\ UNCHANGED <<work, threw, errors>>
       \/ /\ MutexFree
          /\ Fail(t)
          /\ ops' = Finish(ops, "resolve")
          /\ UNCHANGED <<open, wire>>
    /\ UNCHANGED <<stage, timer, cb, late, queue, pending, calls, eofs>>

OnConnect(t) ==
    /\ Free(t) /\ ops["connect"] > 0
    /\ \/ /\ SSL
          /\ ops' = Start(Finish(ops, "connect"), "handshake")
          /\ UNCHANGED <<timer, pending, work, threw, errors>>
       \/ /\ ~SSL /\ MutexFree
          /\ DoWrite(queue, Finish(ops, "connect"))
          /\ UNCHANGED <<timer, work, threw, errors>>
       \/ /\ MutexFree
          /\ Fail(t)
          /\ timer' = Cancel(timer, Head(queue))
          /\ ops' = Finish(ops, "connect")
          /\ UNCHANGED pending
    /\ UNCHANGED <<stage, cb, late, queue, open, wire, calls, eofs>>

OnHandshake(t) ==
    /\ Free(t) /\ ops["handshake"] > 0 /\ MutexFree
    /\ \/ /\ DoWrite(queue, Finish(ops, "handshake"))
          /\ UNCHANGED <<work, threw, errors>>
       \/ /\ Fail(t)
          /\ ops' = Finish(ops, "handshake")
          /\ UNCHANGED pending
    /\ UNCHANGED <<stage, timer, cb, late, queue, open, wire, calls, eofs>>

OnWrite(t) ==
    /\ Free(t) /\ ops["write"] > 0 /\ MutexFree
    /\ \/ /\ open
          /\ ops' = Start(Finish(ops, "write"), "read")
          /\ wire' = Append(wire, Head(queue))
          /\ UNCHANGED <<work, threw, errors>>
       \/ /\ Fail(t)
          /\ ops' = Finish(ops, "write")
          /\ UNCHANGED wire
    /\ UNCHANGED <<stage, timer, cb, late, queue, pending, open, calls, eofs>>

\* Mutant: on_read() returns early for a request that was timed out.
AnsweredReturnsEarly(t) ==
    LET r == Head(queue) IN
    /\ wire # <<>>
    /\ wire' = Tail(wire)
    /\ queue' = Tail(queue)
    /\ stage' = [stage EXCEPT ![r] = "done"]
    /\ timer' = Cancel(timer, r)
    /\ work' = IF cb[r] /\ ~late[r] THEN [work EXCEPT ![t] = Task("read", r)] ELSE work
    /\ pending' = FALSE
    /\ ops' = Finish(ops, "read")
    /\ UNCHANGED <<threw, errors, eofs>>

(* The response in front of the wire has arrived: it is taken for the      *)
(* request in front of the queue, whose timer is cancelled.  A request     *)
(* that was timed out has no callback left, and the next one is written.   *)
Answered(t) ==
    LET r == Head(queue) IN
    /\ wire # <<>>
    /\ wire' = Tail(wire)
    /\ queue' = Tail(queue)
    /\ stage' = [stage EXCEPT ![r] = "done"]
    /\ timer' = Cancel(timer, r)
    /\ IF cb[r] /\ ~late[r]
       THEN /\ work' = [work EXCEPT ![t] = Task("read", r)]
            /\ pending' = FALSE
            /\ ops' = Finish(ops, "read")
       ELSE /\ DoWrite(Tail(queue), Finish(ops, "read"))
            /\ UNCHANGED work
    /\ UNCHANGED <<threw, errors, eofs>>

\* Mutant: on_read() takes the end of the connection for that of a write.
AnswerLostAsWrite ==
    /\ eofs < MaxEofs
    /\ eofs' = eofs + 1
    /\ pending' = TRUE
    /\ ops' = Start(Finish(ops, "write"), "resolve")
    /\ UNCHANGED <<stage, timer, queue, wire, work, threw, errors>>

(* The server has closed the connection: resolve, connect and write again. *)
(* (If OpenSSL refuses the name here, that is a read that fails.)          *)
AnswerLost ==
    /\ eofs < MaxEofs
    /\ eofs' = eofs + 1
    /\ pending' = TRUE
    /\ ops' = Start(Finish(ops, "read"), "resolve")
    /\ UNCHANGED <<stage, timer, queue, wire, work, threw, errors>>

OnRead(t) ==
    /\ Free(t) /\ ops["read"] > 0 /\ MutexFree
    /\ \/ Answered(t)
       \/ AnswerLost
       \/ /\ Fail(t)
          /\ ops' = Finish(ops, "read")
          /\ UNCHANGED <<stage, timer, queue, pending, wire, eofs>>
    /\ UNCHANGED <<cb, late, open, calls>>

----------------------------------------------------------------------------
(* The deadline of r passes: the completion of its timer is queued, and    *)
(* cancel() no longer reaches it.                                          *)
Expire(r) ==
    /\ timer[r] = "armed"
    /\ timer' = [timer EXCEPT ![r] = "due"]
    /\ UNCHANGED <<stage, cb, late, queue, pending, open, ops, wire, work,
                   calls, threw, errors, eofs>>

\* Mutant: on_timer() takes a request it times out during a read from the queue.
OnTimerPops(t, r) ==
    /\ Free(t)
    /\ timer[r] = "due"
    /\ timer' = [timer EXCEPT ![r] = "off"]
    /\ work' = IF cb[r] /\ ~late[r] THEN [work EXCEPT ![t] = Task("timer", r)]
                                    ELSE work
    /\ threw' = IF cb[r] \/ late[r] THEN threw ELSE threw \cup {r}
    /\ queue' = IF ops["read"] > 0 THEN SelectSeq(queue, LAMBDA q : q # r)
                                   ELSE queue
    /\ UNCHANGED <<stage, cb, late, pending, open, ops, wire, calls, errors, eofs>>

\* Mutant: on_timer() sets too_late before it calls fail().
OnTimerLateFirst(t, r) ==
    /\ Free(t)
    /\ timer[r] = "due"
    /\ timer' = [timer EXCEPT ![r] = "off"]
    /\ late' = [late EXCEPT ![r] = TRUE]
    /\ threw' = IF cb[r] \/ late[r] THEN threw ELSE threw \cup {r}
    /\ UNCHANGED <<stage, cb, queue, pending, open, ops, wire, work, calls,
                   errors, eofs>>

(* on_timer() without an error, up to the call in fail(); no mutex.        *)
OnTimer(t, r) ==
    /\ Free(t)
    /\ timer[r] = "due"
    /\ timer' = [timer EXCEPT ![r] = "off"]
    /\ work' = IF cb[r] /\ ~late[r] THEN [work EXCEPT ![t] = Task("timer", r)]
                                    ELSE work
    /\ threw' = IF cb[r] \/ late[r] THEN threw ELSE threw \cup {r}
    /\ UNCHANGED <<stage, cb, late, queue, pending, open, ops, wire, calls,
                   errors, eofs>>

(* The call req_ctx.cb(...); with another thread in between the callback   *)
(* may have been reset, and the call throws std::bad_function_call.        *)
CallBack(t) ==
    LET r == work[t].req IN
    /\ work[t].step = "test"
    /\ IF cb[r]
       THEN /\ calls' = [calls EXCEPT ![r] = @ + 1]
            /\ work' = [work EXCEPT ![t].step = "call"]
            /\ UNCHANGED threw
       ELSE /\ threw' = threw \cup {r}
            /\ work' = Left(t)
            /\ UNCHANGED calls
    /\ UNCHANGED <<stage, timer, cb, late, queue, pending, open, ops, wire,
                   errors, eofs>>

\* After the callback on_read() always writes, run() if no operation is pending.
WritesNext(t) == work[t].task = "read" \/ (work[t].task = "enter" /\ ~pending)

\* Mutant: the callback of a failed request is not reset.
ReturnKeepsCallback(t) ==
    LET r == work[t].req IN
    /\ work[t].step = "call"
    /\ cb' = [cb EXCEPT ![r] = work[t].task = "fail"]
    /\ IF WritesNext(t) THEN DoWrite(queue, ops) ELSE UNCHANGED <<pending, ops>>
    /\ late' = [late EXCEPT ![r] = @ \/ work[t].task = "timer"]
    /\ work' = Left(t)
    /\ UNCHANGED <<stage, timer, queue, open, wire, calls, threw, errors, eofs>>

\* Mutant: on_read() does not start the next write after the callback.
ReturnForgetsWrite(t) ==
    LET r == work[t].req IN
    /\ work[t].step = "call"
    /\ cb' = [cb EXCEPT ![r] = FALSE]
    /\ late' = [late EXCEPT ![r] = @ \/ work[t].task = "timer"]
    /\ work' = Left(t)
    /\ UNCHANGED <<stage, timer, queue, pending, ops, open, wire, calls, threw,
                   errors, eofs>>

(* The callback returns: cb = nullptr, then on_read() or run() starts the  *)
(* next write, fail() returns, or on_timer() marks the request too late.   *)
Return(t) ==
    LET r == work[t].req IN
    /\ work[t].step = "call"
    /\ cb' = [cb EXCEPT ![r] = FALSE]
    /\ IF WritesNext(t) THEN DoWrite(queue, ops) ELSE UNCHANGED <<pending, ops>>
    /\ late' = [late EXCEPT ![r] = @ \/ work[t].task = "timer"]
    /\ work' = Left(t)
    /\ UNCHANGED <<stage, timer, queue, open, wire, calls, threw, errors, eofs>>

----------------------------------------------------------------------------
Network(t) ==
    OnResolve(t) \/ OnConnect(t) \/ OnHandshake(t) \/ OnWrite(t) \/ OnRead(t)

Next ==
    \/ \E r \in Requests : Issue(r) \/ Enter(r) \/ NameRefused(r) \/ Expire(r)
    \/ \E t \in Threads : Network(t) \/ \E r \in Requests : OnTimer(t, r)
    \/ \E t \in Actors :
         CallBack(t) \/ Return(t) \/ \E r \in Requests : IssueInCallback(t, r)

Spec == Init /\ [][Next]_vars

(* The threads keep running handlers, callbacks return, clocks advance; of *)
(* the network nothing is assumed: a server may never answer.              *)
Scheduled ==
    /\ \A r \in Requests : WF_vars(Enter(r) \/ NameRefused(r)) /\ WF_vars(Expire(r))
    /\ \A r \in Requests : WF_vars(\E t \in Threads : OnTimer(t, r))
    /\ \A t \in Actors : WF_vars(CallBack(t)) /\ WF_vars(Return(t))

FairSpec == Spec /\ Scheduled

(* Every network operation completes, well or badly: only where it is said. *)
NetworkAnswers == WF_vars(\E t \in Threads : Network(t))

----------------------------------------------------------------------------
(* Properties.                                                             *)

TypeOK ==
    /\ stage \in [Requests -> {"new", "entering", "queued", "done"}]
    /\ timer \in [Requests -> {"none", "armed", "due", "off"}]
    /\ cb \in [Requests -> BOOLEAN]
    /\ late \in [Requests -> BOOLEAN]
    /\ queue \in Seq(Requests)
    /\ pending \in BOOLEAN
    /\ open \in BOOLEAN
    /\ ops \in [OpKind -> Nat]
    /\ wire \in Seq(Requests)
    /\ work \in [Actors -> WorkState]
    /\ calls \in [Requests -> Nat]
    /\ threw \in SUBSET Requests
    /\ errors \in Nat
    /\ eofs \in Nat

InFlight == \E k \in OpKind : ops[k] > 0

\* At most one network operation is outstanding on the connection: Asio does
\* not allow a second composed write or read on a stream, and nothing but
\* _pending_request and the mutex keeps run(), the timers of other requests
\* and the completion handlers from starting one.
SingleOperation ==
    /\ \A k \in OpKind : ops[k] <= 1
    /\ \A k, l \in OpKind : k # l => ops[k] = 0 \/ ops[l] = 0

\* The response being read is the one the server owes to the request in front
\* of the queue: the late response to a request that was timed out is never
\* handed to the request behind it, also across reconnections.
ResponseMatchesRequest ==
    ops["read"] > 0 => queue # <<>> /\ wire = <<Head(queue)>>

\* The callback of a request is called at most once, whatever the timer, the
\* network and the connection do.  (With one thread for the handlers, and if no
\* run() of a request with a deadline calls the callback itself.)
AtMostOnce == \A r \in Requests : calls[r] <= 1

\* Until an operation fails a queued request always has one working for it: no
\* order of run(), deadlines and completions loses the wake-up.
NoLostWakeup ==
    MutexFree /\ errors = 0 => (pending <=> queue # <<>>) /\ (pending => InFlight)

\* What run() relies on when it finds _pending_request set ("There is a waiting
\* connection or read ack, nothing to do to rearm"): there is such an operation.
PendingIsWaiting == MutexFree /\ pending => InFlight

\* After one failed operation no operation is outstanding, _pending_request
\* stays set, and no later request, timer or callback changes that.
Wedged == MutexFree /\ pending /\ ~InFlight
WedgeIsPermanent == [][Wedged => pending' /\ ~InFlight']_vars

\* A callback called under _requests_mtx that issues a request is blocked for
\* ever on the mutex its own thread holds (std::mutex is not recursive).
SelfBlocked(t) == work[t].step = "issue" /\ Holds(t)
SelfBlockIsPermanent == [][\A t \in Actors : SelfBlocked(t) => SelfBlocked(t)']_vars

NoSelfBlock == \A t \in Actors : ~SelfBlocked(t)

\* If the network answers, every request has its callback called, deadline or
\* not, unless an operation fails or a callback blocks the thread it runs on.
AllAnswered ==
    NetworkAnswers /\ []NoSelfBlock =>
        \A r \in Requests : stage[r] = "entering" ~> calls[r] > 0 \/ errors > 0

\* With one thread the session implements the contract of the client: no callback
\* before its request and none twice; deadlines are met if no callback blocks the
\* thread it runs on.
Contract == INSTANCE RequestContract WITH
    issued <- {r \in Requests : stage[r] # "new"},
    called <- calls
ImplementsContract ==
    Contract!ContractSafety /\ ([]NoSelfBlock => Contract!Deadlines)
=============================================================================
