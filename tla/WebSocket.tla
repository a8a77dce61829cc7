----------------------------- MODULE WebSocket -----------------------------
(***************************************************************************)
(* One WebSocket connection, from either side: websocket_session for the   *)
(* server (websocket_session.hpp) and websocket_client for the client      *)
(* (websocket_client.hpp), which share the write queue line by line.       *)
(*                                                                         *)
(* send() and the kernel post handlers to an executor, a sequence of tasks *)
(* here.  The client's executor is a strand.  The server's is that of the  *)
(* accepted socket, the io_context itself: with several threads its        *)
(* handlers overlap.  So a handler that uses the queue is two steps, the   *)
(* change of the queue and the decision whether to write.                  *)
(*                                                                         *)
(* The stream keeps Beast's rules: an operation that fails closes it,      *)
(* which ends the other ones, and a write is refused at once by a stream   *)
(* that is neither open nor shaking hands.  Beast says nothing of two      *)
(* operations of a kind at once, to which a hasty ws_connect() leads: each *)
(* ends in any way here.                                                   *)
(***************************************************************************)
EXTENDS Integers, Sequences, FiniteSets, TaskQueue

CONSTANTS Roles,       \* sides to look at: "server", "client"
          Threads,     \* threads that run the io_context
          Messages,    \* what is sent
          MaxSends,    \* bound on calls of send()
          MaxReads,    \* bound on messages received
          MaxRetries   \* bound on further calls of ws_connect()

ASSUME WebSocketAssumption ==
    /\ Roles \subseteq {"server", "client"}
    /\ MaxSends \in Nat
    /\ MaxReads \in Nat
    /\ MaxRetries \in Nat

VARIABLES role,      \* the side
          conn,      \* the stream: "new", "closed", "shaking", "open"
          attempts,  \* outstanding steps towards an open stream, of each kind
          named,     \* _ws_context.uuid is not empty
          queue,     \* _queue
          writes,    \* outstanding async_writes
          reads,     \* outstanding async_reads
          tasks,     \* handlers posted to the executor
          work,      \* the handler each thread is in, between its two steps
          alive,     \* the session object exists
          retries,   \* further calls of ws_connect()
          hasty,     \* history: those on top of an attempt or a read
          got,       \* messages received so far
          linked,    \* history: connections of the client
          connects,  \* calls of on_connect
          lost,      \* calls of on_disconnect
          thrown,    \* history: those that threw
          asked,     \* history: messages of send(), in order
          wrote      \* history: messages written, in order

vars == <<role, conn, attempts, named, queue, writes, reads, tasks, work, alive,
          retries, hasty, got, linked, connects, lost, thrown, asked, wrote>>

Step == {"resolve", "connect", "handshake"}
Done(step) == CASE step = "resolve" -> "resolved"
                [] step = "connect" -> "connected"
                [] OTHER -> "shaken"
Op == {"resolved", "connected", "shaken", "refused", "write", "written",
       "unwritten", "received", "ended", "broken"}

\* Only "write" carries a message.
NoMessage == "none"
Plain(op) == [op |-> op, msg |-> NoMessage]
Write(m) == [op |-> "write", msg |-> m]
Task == [op : {"write"}, msg : Messages] \cup [op : Op \ {"write"}, msg : {NoMessage}]

Init ==
    /\ role \in Roles
    /\ conn = "new"
    /\ attempts = [step \in Step |-> 0]
    /\ named = FALSE
    /\ queue = <<>>
    /\ writes = 0
    /\ reads = 0
    /\ tasks = <<>>
    /\ work = [t \in Threads |-> "idle"]
    /\ alive = TRUE
    /\ retries = 0
    /\ hasty = 0
    /\ got = 0
    /\ linked = 0
    /\ connects = 0
    /\ lost = 0
    /\ thrown = 0
    /\ asked = <<>>
    /\ wrote = <<>>

Calls == <<linked, connects, lost, thrown>>
History == <<Calls, asked, wrote>>
User == <<retries, hasty, got>>

----------------------------------------------------------------------------
(* Calls from outside.                                                     *)

\* A step towards an open stream is started.
Begun(step) == attempts' = [attempts EXCEPT ![step] = @ + 1]

\* run(): the server accepts the handshake, the client resolves first.
Run ==
    /\ conn = "new"
    /\ IF role = "server"
       THEN conn' = "shaking" /\ Begun("handshake")
       ELSE conn' = "closed" /\ Begun("resolve")
    /\ UNCHANGED <<role, named, queue, writes, reads, tasks, work, alive, User, History>>

\* send(), from any thread: on the server only through the session that
\* on_connect was given, by a weak pointer.
Send(m) ==
    /\ alive
    /\ role = "server" => connects > 0
    /\ Len(asked) < MaxSends
    /\ tasks' = Append(tasks, Write(m))
    /\ asked' = Append(asked, m)
    /\ UNCHANGED <<role, conn, attempts, named, queue, writes, reads, work, alive, User,
                   Calls, wrote>>

\* Handlers of the ends of writes, and of attempts and reads.
WriteTasks == {"written", "unwritten"}
ChainTasks == {"resolved", "connected", "shaken", "refused", "received", "ended", "broken"}

\* Steps towards an open stream and reads, outstanding or with their handler posted.
Links ==
    attempts["resolve"] + attempts["connect"] + attempts["handshake"] + reads
        + Cardinality(TasksOf(tasks, ChainTasks))

\* ws_connect() once more: whenever the user calls it, as the repository's example
\* does a second after each on_error, whatever is outstanding by then.
Retry ==
    /\ role = "client"
    /\ conn # "new"
    /\ retries < MaxRetries
    /\ retries' = retries + 1
    /\ hasty' = IF Links = 0 THEN hasty ELSE hasty + 1
    /\ Begun("resolve")
    /\ UNCHANGED <<role, conn, named, queue, writes, reads, tasks, work, alive, got,
                   History>>

----------------------------------------------------------------------------
(* The kernel and the other side end what was started.                     *)
\* A failed resolve or connect leaves the state of the stream alone.
AttemptEnds ==
    /\ \E step \in Step :
          /\ attempts[step] > 0
          /\ attempts' = [attempts EXCEPT ![step] = @ - 1]
          /\ \/ /\ tasks' = Append(tasks, Plain(Done(step)))
                /\ conn' = IF step = "handshake" THEN "open" ELSE conn
             \/ /\ tasks' = Append(tasks, Plain("refused"))
                /\ conn' = IF step = "handshake" THEN "closed" ELSE conn
    /\ UNCHANGED <<role, named, queue, writes, reads, work, alive, User, History>>

WriteEnds ==
    /\ writes > 0
    /\ writes' = writes - 1
    /\ \/ /\ conn \in {"open", "shaking"}
          /\ tasks' = Append(tasks, Plain("written"))
          /\ UNCHANGED conn
       \/ /\ tasks' = Append(tasks, Plain("unwritten"))
          /\ conn' = "closed"
    /\ UNCHANGED <<role, attempts, named, queue, reads, work, alive, User, History>>

ReadEnds ==
    /\ reads > 0
    /\ reads' = reads - 1
    /\ \/ /\ conn = "open" /\ got < MaxReads
          /\ got' = got + 1
          /\ tasks' = Append(tasks, Plain("received"))
          /\ UNCHANGED conn
       \/ /\ conn = "open"
          /\ tasks' = Append(tasks, Plain("ended"))
          /\ conn' = "closed"
          /\ UNCHANGED got
       \/ /\ tasks' = Append(tasks, Plain("broken"))
          /\ conn' = "closed"
          /\ UNCHANGED got
    /\ UNCHANGED <<role, attempts, named, queue, writes, work, alive, retries, hasty,
                   History>>

----------------------------------------------------------------------------
(* Handlers.  rest is what is left of the tasks.                           *)

\* async_write: a stream that is closed, or was never open, refuses it at once.
StartWrite ==
    IF conn \in {"open", "shaking"}
    THEN writes' = writes + 1 /\ UNCHANGED tasks
    ELSE tasks' = Append(tasks, Plain("unwritten")) /\ UNCHANGED writes

\* Mutant: fail() keeps the uuid.
FailKeepsName ==
    IF role = "server"
    THEN UNCHANGED <<conn, named, lost, thrown>>
    ELSE \/ UNCHANGED <<conn, named, lost, thrown>>
         \/ /\ named
            /\ lost' = lost + 1
            /\ thrown' = thrown + 1
            /\ UNCHANGED <<conn, named>>
         \/ /\ lost' = IF named THEN lost + 1 ELSE lost
            /\ conn' = IF conn = "open" THEN "closed" ELSE conn
            /\ UNCHANGED <<named, thrown>>

\* fail(): the server writes a log entry.  The client calls on_error and, if the
\* connection has a name, on_disconnect, clears the name and closes a stream that
\* is open; it gets no further than the call that throws.
Fail ==
    IF role = "server"
    THEN UNCHANGED <<conn, named, lost, thrown>>
    ELSE \* on_error throws
         \/ UNCHANGED <<conn, named, lost, thrown>>
         \* on_disconnect throws
         \/ /\ named
            /\ lost' = lost + 1
            /\ thrown' = thrown + 1
            /\ UNCHANGED <<conn, named>>
         \/ /\ lost' = IF named THEN lost + 1 ELSE lost
            /\ named' = FALSE
            /\ conn' = IF conn = "open" THEN "closed" ELSE conn
            /\ UNCHANGED thrown

Resolved(rest) ==
    /\ tasks' = rest
    /\ Begun("connect")
    /\ UNCHANGED <<role, conn, named, queue, writes, reads, work, alive, User, History>>

Connected(rest) ==
    /\ tasks' = rest
    /\ named' = TRUE
    /\ linked' = linked + 1
    /\ conn' = "shaking"
    /\ Begun("handshake")
    /\ UNCHANGED <<role, queue, writes, reads, work, alive, User, connects, lost, thrown,
                   asked, wrote>>

\* Mutant: on_accept() does not make a uuid.
ShakenUnnamed(rest) ==
    /\ tasks' = rest
    /\ connects' = connects + 1
    /\ reads' \in {reads, reads + 1}
    /\ UNCHANGED <<role, conn, attempts, named, queue, writes, work, alive, User, linked,
                   lost, thrown, asked, wrote>>

\* on_accept() and on_handshake(); the read does not start if on_connect throws.
Shaken(rest) ==
    /\ tasks' = rest
    /\ named' = (role = "server" \/ named)
    /\ connects' = connects + 1
    /\ reads' \in {reads, reads + 1}
    /\ UNCHANGED <<role, conn, attempts, queue, writes, work, alive, User, linked, lost,
                   thrown, asked, wrote>>

\* on_read() with a message; the next read does not start if on_receive throws.
Received(rest) ==
    /\ tasks' = rest
    /\ reads' \in {reads, reads + 1}
    /\ UNCHANGED <<role, conn, attempts, named, queue, writes, work, alive, User, History>>

\* on_read() of a stream the other side has closed.
Ended(rest) ==
    /\ tasks' = rest
    /\ UNCHANGED <<role, conn, attempts, named, queue, writes, reads, work, alive, User,
                   History>>

\* Every other completion with an error.
Failed(rest) ==
    /\ tasks' = rest
    /\ Fail
    /\ UNCHANGED <<role, attempts, queue, writes, reads, work, alive, User, linked,
                   connects, asked, wrote>>

\* Mutant: on_write() takes the message from the wrong end of the queue.
PopBack(t, rest) ==
    /\ tasks' = rest
    /\ wrote' = Append(wrote, queue[Len(queue)])
    /\ queue' = SubSeq(queue, 1, Len(queue) - 1)
    /\ work' = [work EXCEPT ![t] = "popped"]
    /\ UNCHANGED <<role, conn, attempts, named, writes, reads, alive, User, Calls,
                   asked>>

\* do_write() and a successful on_write(), up to the change of the queue.
Push(t, m, rest) ==
    /\ tasks' = rest
    /\ queue' = Append(queue, m)
    /\ work' = [work EXCEPT ![t] = "pushed"]
    /\ UNCHANGED <<role, conn, attempts, named, writes, reads, alive, User, History>>

Pop(t, rest) ==
    /\ tasks' = rest
    /\ wrote' = Append(wrote, Head(queue))
    /\ queue' = Tail(queue)
    /\ work' = [work EXCEPT ![t] = "popped"]
    /\ UNCHANGED <<role, conn, attempts, named, writes, reads, alive, User, Calls,
                   asked>>

Take(t) ==
    /\ work[t] = "idle"
    /\ role = "client" => \A u \in Threads : work[u] = "idle"
    /\ tasks # <<>>
    /\ LET task == Head(tasks)
           rest == Tail(tasks) IN
       \/ task.op = "resolved" /\ Resolved(rest)
       \/ task.op = "connected" /\ Connected(rest)
       \/ task.op = "shaken" /\ Shaken(rest)
       \/ task.op = "received" /\ Received(rest)
       \/ task.op = "ended" /\ Ended(rest)
       \/ task.op \in {"refused", "unwritten", "broken"} /\ Failed(rest)
       \/ task.op = "write" /\ Push(t, task.msg, rest)
       \/ task.op = "written" /\ Pop(t, rest)

\* Mutant: do_write() does not ask whether a write is under way.
DecideUnasked(t) ==
    /\ work[t] # "idle"
    /\ work' = [work EXCEPT ![t] = "idle"]
    /\ IF work[t] = "pushed" \/ queue # <<>>
       THEN StartWrite
       ELSE UNCHANGED <<writes, tasks>>
    /\ UNCHANGED <<role, conn, attempts, named, queue, reads, alive, User, History>>

\* Mutant: on_write() does not start the next write.
DecideOnce(t) ==
    /\ work[t] # "idle"
    /\ work' = [work EXCEPT ![t] = "idle"]
    /\ IF work[t] = "pushed" /\ Len(queue) <= 1
       THEN StartWrite
       ELSE UNCHANGED <<writes, tasks>>
    /\ UNCHANGED <<role, conn, attempts, named, queue, reads, alive, User, History>>

\* The decision: do_write() writes if its message is alone in the queue,
\* on_write() if there is another one.
Decide(t) ==
    /\ work[t] # "idle"
    /\ work' = [work EXCEPT ![t] = "idle"]
    /\ IF \/ work[t] = "pushed" /\ Len(queue) <= 1
          \/ work[t] = "popped" /\ queue # <<>>
       THEN StartWrite
       ELSE UNCHANGED <<writes, tasks>>
    /\ UNCHANGED <<role, conn, attempts, named, queue, reads, alive, User, History>>

\* No handler, posted or under way, refers to the session.
Unreferenced ==
    /\ conn # "new" /\ Links = 0
    /\ writes = 0 /\ tasks = <<>>
    /\ \A t \in Threads : work[t] = "idle"

\* The destructor of the server's session, which closes the socket.
Release ==
    /\ role = "server" /\ alive
    /\ Unreferenced
    /\ alive' = FALSE
    /\ conn' = "closed"
    /\ lost' = IF named THEN lost + 1 ELSE lost
    /\ UNCHANGED <<role, attempts, named, queue, writes, reads, tasks, work, User,
                   linked, connects, thrown, asked, wrote>>

----------------------------------------------------------------------------
Next ==
    \/ Run \/ Retry \/ Release
    \/ \E m \in Messages : Send(m)
    \/ AttemptEnds \/ WriteEnds \/ ReadEnds
    \/ \E t \in Threads : Take(t) \/ Decide(t)

Spec == Init /\ [][Next]_vars

(* Handlers run and writes end: Beast's idle time-out sees to that.  So do  *)
(* reads once the stream is down, but an open one may say nothing.         *)
FairSpec ==
    /\ Spec
    /\ WF_vars(AttemptEnds) /\ WF_vars(WriteEnds) /\ WF_vars(conn # "open" /\ ReadEnds)
    /\ WF_vars(\E t \in Threads : Take(t) \/ Decide(t)) /\ WF_vars(Release)

----------------------------------------------------------------------------
(* Properties.                                                             *)

TypeOK ==
    /\ role \in {"server", "client"}
    /\ conn \in {"new", "closed", "shaking", "open"}
    /\ attempts \in [Step -> Nat]
    /\ named \in BOOLEAN
    /\ queue \in Seq(Messages)
    /\ writes \in Nat
    /\ reads \in Nat
    /\ tasks \in Seq(Task)
    /\ work \in [Threads -> {"idle", "pushed", "popped"}]
    /\ alive \in BOOLEAN
    /\ retries \in Nat /\ hasty \in Nat /\ got \in Nat
    /\ linked \in Nat /\ connects \in Nat /\ lost \in Nat /\ thrown \in Nat
    /\ asked \in Seq(Messages) /\ wrote \in Seq(Messages)

\* A write is outstanding, or its handler is still posted.
Writing == writes > 0 \/ ~None(tasks, WriteTasks)

\* One write at a time on the stream: only the length of the queue says whether
\* there is one, through failures and reconnections too.
OneWrite ==
    /\ writes <= 1
    /\ Unique(tasks, WriteTasks)
    /\ writes > 0 => None(tasks, WriteTasks)

\* The steps of opening the stream and its reads are a chain, each link started by
\* the end of the one before: no failed write, no callback that throws and no
\* reconnection adds a link.  Only a ws_connect() on top of a link does, which
\* nothing in the code prevents.
OneChain == Links <= 1 + hasty

\* What do_write() relies on when it finds the queue not empty ("Are we already
\* writing?"): a message in the queue of an open stream is being written.
Deciding == \E t \in Threads : work[t] # "idle"
QueueIsWritten == conn = "open" /\ queue # <<>> => Writing \/ Deciding

\* A queue that is stuck, after a failed write or one before the stream was open,
\* stays so: nothing sent later, on this connection or the next, is written.
Stuck ==
    /\ ~Writing
    /\ \/ ~Deciding /\ queue # <<>>
       \/ (\E t \in Threads : work[t] = "pushed") /\ Len(queue) > 1
StuckIsPermanent == [][Stuck => Stuck' /\ wrote' = wrote]_vars

\* on_disconnect of the client is called at most once for each connection made,
\* although a failed read and a failed write both report its end, and once more
\* for each time that it threw: fail() then keeps the name, and the next failure
\* reports the end again.
DisconnectOnce ==
    role = "client" => lost + (IF named THEN 1 ELSE 0) <= linked + thrown

\* What reaches the other side is a prefix of what was sent.
Channel == INSTANCE EventChannel WITH Payload <- Messages
ImplementsChannel == Channel!ChannelSpec

\* The server writes everything sent, as long as the stream is open.
EventuallyWritten ==
    role = "server" =>
        \A k \in 1..MaxSends : Len(asked) >= k ~> Len(wrote) >= k \/ conn = "closed"

\* The server calls on_disconnect for a connection it has called on_connect for
\* once it is closed, by whom or whatever.
EndIsNoticed ==
    role = "server" => (connects > 0 /\ conn = "closed" ~> lost = 1)
=============================================================================
