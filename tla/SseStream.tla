----------------------------- MODULE SseStream -----------------------------
(***************************************************************************)
(* One server-sent-event stream: sse_session::run and the sse_stream_impl  *)
(* behind it (sse_session.hpp), with the calls a handler or any other      *)
(* thread makes through its sse_stream (sse_stream.cpp).                   *)
(*                                                                         *)
(* send(), close() and all completion handlers run on one strand, which    *)
(* executes its tasks one at a time in the order in which they were        *)
(* posted; the strand is a sequence of tasks here.  run() itself, and the  *)
(* callers of send() and close(), are not on the strand.  The kernel ends  *)
(* writes and reads and the timer fires at any time, which posts the       *)
(* completion handler.                                                     *)
(***************************************************************************)
EXTENDS Integers, Sequences, TaskQueue

CONSTANTS Events,      \* payloads a handler sends
          Header,      \* the HTTP response header
          Heartbeat,   \* the comment the heartbeat sends
          Limit,       \* 1024 in send()
          MaxSends,    \* bound on calls of send() by handlers
          MaxBeats     \* bound on heartbeats of an open stream

ASSUME SseAssumption ==
    /\ Header \notin Events
    /\ Heartbeat \notin Events
    /\ Header # Heartbeat
    /\ Limit \in Nat \ {0}
    /\ MaxSends \in Nat
    /\ MaxBeats \in Nat

Payload == Events \cup {Header, Heartbeat}

VARIABLES phase,    \* progress of sse_session::run
          strand,   \* tasks posted to the strand
          open,     \* _socket.is_open()
          queue,    \* _queue; its front is being written
          writes,   \* outstanding async_writes, by the state of their socket
          beat,     \* _timer: the wait for the next heartbeat
          drain,    \* the read that detects the end of the client
          left,     \* calls of sse_disconnect
          asked,    \* history: payloads of send(), in order
          wrote,    \* history: payloads written to the socket, in order
          sends,    \* calls of send() by handlers
          beats     \* heartbeats of the open stream

vars == <<phase, strand, open, queue, writes, beat, drain, left, asked, wrote,
          sends, beats>>

Task == [op : {"send", "close", "written", "unwritten", "beat", "drained", "ended"},
         msg : Payload]

\* Only "send" carries a payload; the others have Header for it.
Plain(op) == [op |-> op, msg |-> Header]
Send(m) == [op |-> "send", msg |-> m]

\* run() has not yet armed the heartbeat.
Starting == {"start", "begun"}

Init ==
    /\ phase = "start"
    /\ strand = <<>>
    /\ open = TRUE
    /\ queue = <<>>
    /\ writes = <<>>
    /\ beat = "off"
    /\ drain = "none"
    /\ left = 0
    /\ asked = <<>>
    /\ wrote = <<>>
    /\ sends = 0
    /\ beats = 0

----------------------------------------------------------------------------
(* sse_session::run: the header is posted, the heartbeat armed, and only   *)
(* then the handler gets the stream and returns or throws.  The heartbeat  *)
(* is armed off the strand: the strand may run the header's write on       *)
(* another thread meanwhile, and close the socket when it fails.           *)
Begin ==
    /\ phase = "start"
    /\ phase' = "begun"
    /\ strand' = Append(strand, Send(Header))
    /\ asked' = Append(asked, Header)
    /\ UNCHANGED <<open, queue, writes, beat, drain, left, wrote, sends, beats>>

StartHeartbeat ==
    /\ phase = "begun"
    /\ phase' = "connecting"
    /\ beat' = "armed"
    /\ UNCHANGED <<strand, open, queue, writes, drain, left, asked, wrote, sends, beats>>

Connected ==
    /\ phase = "connecting"
    /\ phase' = "serving"
    /\ drain' = "reading"
    /\ UNCHANGED <<strand, open, queue, writes, beat, left, asked, wrote, sends, beats>>

\* Mutant: no return after the close of a stream whose handler threw.
RefusedFallsThrough ==
    /\ phase = "connecting"
    /\ phase' = "refused"
    /\ strand' = Append(strand, Plain("close"))
    /\ drain' = "reading"
    /\ UNCHANGED <<open, queue, writes, beat, left, asked, wrote, sends, beats>>

Refused ==
    /\ phase = "connecting"
    /\ phase' = "refused"
    /\ strand' = Append(strand, Plain("close"))
    /\ UNCHANGED <<open, queue, writes, beat, drain, left, asked, wrote, sends, beats>>

(* sse_stream::send and sse_stream::close, from any thread that has the    *)
(* stream, which the handler was given (an empty message is dropped before it gets here).  A second     *)
(* close() while one is posted adds nothing.                               *)
UserSend(m) ==
    /\ phase \notin Starting
    /\ sends < MaxSends
    /\ sends' = sends + 1
    /\ strand' = Append(strand, Send(m))
    /\ asked' = Append(asked, m)
    /\ UNCHANGED <<phase, open, queue, writes, beat, drain, left, wrote, beats>>

UserClose ==
    /\ phase \notin Starting
    /\ Plain("close") \notin {strand[i] : i \in DOMAIN strand}
    /\ strand' = Append(strand, Plain("close"))
    /\ UNCHANGED <<phase, open, queue, writes, beat, drain, left, asked, wrote,
                   sends, beats>>

----------------------------------------------------------------------------
(* The kernel and the clock: completions are posted to the strand.  A      *)
(* write started on a closed socket fails; one that was started before may *)
(* still have succeeded when the socket is closed under it.                *)
WriteEnds ==
    /\ writes # <<>>
    /\ writes' = Tail(writes)
    /\ \/ Head(writes) = "live" /\ strand' = Append(strand, Plain("written"))
       \/ strand' = Append(strand, Plain("unwritten"))
    /\ UNCHANGED <<phase, open, queue, beat, drain, left, asked, wrote, sends, beats>>

BeatFires ==
    /\ beat = "armed"
    /\ open => beats < MaxBeats
    /\ beats' = IF open THEN beats + 1 ELSE beats
    /\ beat' = "off"
    /\ strand' = Append(strand, Plain("beat"))
    /\ UNCHANGED <<phase, open, queue, writes, drain, left, asked, wrote, sends>>

\* The client sends something (open only), or the read fails.
DrainEnds ==
    /\ drain = "reading"
    /\ drain' = "posted"
    /\ \/ open /\ strand' = Append(strand, Plain("drained"))
       \/ strand' = Append(strand, Plain("ended"))
    /\ UNCHANGED <<phase, open, queue, writes, beat, left, asked, wrote, sends, beats>>

----------------------------------------------------------------------------
(* do_write() of the queue q.                                              *)
DoWrite(q) ==
    writes' = IF q = <<>> THEN writes
                          ELSE Append(writes, IF open THEN "live" ELSE "dead")

\* Mutant: no return after the close of an overfull stream.
RunSendUnbounded(m, rest) ==
    /\ strand' = IF Len(queue) > Limit THEN Append(rest, Plain("close")) ELSE rest
    /\ queue' = Append(queue, m)
    /\ IF queue = <<>> THEN DoWrite(queue') ELSE UNCHANGED writes
    /\ UNCHANGED <<open, beat, drain, left, asked, wrote>>

\* Mutant: send() always starts a write.
RunSendAlwaysWrites(m, rest) ==
    /\ IF Len(queue) > Limit
       THEN /\ strand' = Append(rest, Plain("close"))
            /\ UNCHANGED <<queue, writes>>
       ELSE /\ strand' = rest
            /\ queue' = Append(queue, m)
            /\ DoWrite(queue')
    /\ UNCHANGED <<open, beat, drain, left, asked, wrote>>

\* Mutant: backpressure drops the message and leaves the stream open.
RunSendDrops(m, rest) ==
    /\ strand' = rest
    /\ IF Len(queue) > Limit
       THEN UNCHANGED <<queue, writes>>
       ELSE /\ queue' = Append(queue, m)
            /\ IF queue = <<>> THEN DoWrite(queue') ELSE UNCHANGED writes
    /\ UNCHANGED <<open, beat, drain, left, asked, wrote>>

(* Tasks of the strand; rest is what remains of the strand behind them.    *)
RunSend(m, rest) ==
    /\ IF Len(queue) > Limit
       THEN /\ strand' = Append(rest, Plain("close"))
            /\ UNCHANGED <<queue, writes>>
       ELSE /\ strand' = rest
            /\ queue' = Append(queue, m)
            /\ IF queue = <<>> THEN DoWrite(queue') ELSE UNCHANGED writes
    /\ UNCHANGED <<open, beat, drain, left, asked, wrote>>

RunClose(rest) ==
    /\ strand' = rest
    /\ beat' = "off"
    /\ open' = FALSE
    /\ UNCHANGED <<queue, writes, drain, left, asked, wrote>>

\* Mutant: the completion of a write does not start the next one.
RunWrittenStops(rest) ==
    /\ strand' = rest
    /\ wrote' = Append(wrote, Head(queue))
    /\ queue' = Tail(queue)
    /\ UNCHANGED <<open, writes, beat, drain, left, asked>>

RunWritten(rest) ==
    /\ strand' = rest
    /\ wrote' = Append(wrote, Head(queue))
    /\ queue' = Tail(queue)
    /\ DoWrite(queue')
    /\ UNCHANGED <<open, beat, drain, left, asked>>

RunUnwritten(rest) ==
    /\ strand' = rest
    /\ open' = FALSE
    /\ UNCHANGED <<queue, writes, beat, drain, left, asked, wrote>>

\* Mutant: the heartbeat does not arm the timer again.
RunBeatOnce(rest) ==
    /\ IF open
       THEN /\ strand' = Append(rest, Send(Heartbeat))
            /\ asked' = Append(asked, Heartbeat)
       ELSE /\ strand' = rest
            /\ UNCHANGED asked
    /\ UNCHANGED <<open, queue, writes, beat, drain, left, wrote>>

\* Mutant: the heartbeat arms the timer again on a closed socket.
RunBeatRearms(rest) ==
    /\ beat' = "armed"
    /\ IF open
       THEN /\ strand' = Append(rest, Send(Heartbeat))
            /\ asked' = Append(asked, Heartbeat)
       ELSE /\ strand' = rest
            /\ UNCHANGED asked
    /\ UNCHANGED <<open, queue, writes, drain, left, wrote>>

\* The heartbeat sends and arms the timer again unless the socket is closed.
RunBeat(rest) ==
    /\ IF open
       THEN /\ strand' = Append(rest, Send(Heartbeat))
            /\ asked' = Append(asked, Heartbeat)
            /\ beat' = "armed"
       ELSE /\ strand' = rest
            /\ UNCHANGED <<asked, beat>>
    /\ UNCHANGED <<open, queue, writes, drain, left, wrote>>

\* Mutant: start_drain reads once only.
RunDrainedOnce(rest) ==
    /\ strand' = rest
    /\ UNCHANGED <<open, queue, writes, beat, drain, left, asked, wrote>>

RunDrained(rest) ==
    /\ strand' = rest
    /\ drain' = "reading"
    /\ UNCHANGED <<open, queue, writes, beat, left, asked, wrote>>

RunEnded(rest) ==
    /\ strand' = rest
    /\ drain' = "done"
    /\ left' = left + 1
    /\ UNCHANGED <<open, queue, writes, beat, asked, wrote>>

RunStrand ==
    /\ strand # <<>>
    /\ LET task == Head(strand)
           rest == Tail(strand) IN
       \/ task.op = "send" /\ RunSend(task.msg, rest)
       \/ task.op = "close" /\ RunClose(rest)
       \/ task.op = "written" /\ RunWritten(rest)
       \/ task.op = "unwritten" /\ RunUnwritten(rest)
       \/ task.op = "beat" /\ RunBeat(rest)
       \/ task.op = "drained" /\ RunDrained(rest)
       \/ task.op = "ended" /\ RunEnded(rest)
    /\ UNCHANGED <<phase, sends, beats>>

Next ==
    \/ Begin \/ StartHeartbeat \/ Connected \/ Refused
    \/ \E m \in Events : UserSend(m)
    \/ UserClose
    \/ WriteEnds \/ BeatFires \/ DrainEnds
    \/ RunStrand

Spec == Init /\ [][Next]_vars

(* Posted tasks are executed, the kernel ends what was started and the     *)
(* clock runs; sse_connect returns or throws.                              *)
Fairness ==
    /\ WF_vars(Begin) /\ WF_vars(StartHeartbeat) /\ WF_vars(Connected \/ Refused)
    /\ WF_vars(WriteEnds) /\ WF_vars(BeatFires) /\ WF_vars(RunStrand)

\* A read on a closed socket ends.
ClosedReadEnds == WF_vars(~open /\ DrainEnds)

FairSpec == Spec /\ Fairness /\ ClosedReadEnds

----------------------------------------------------------------------------
(* Properties.                                                             *)

TypeOK ==
    /\ phase \in Starting \cup {"connecting", "serving", "refused"}
    /\ strand \in Seq(Task)
    /\ open \in BOOLEAN
    /\ queue \in Seq(Payload)
    /\ writes \in Seq({"live", "dead"})
    /\ beat \in {"off", "armed"}
    /\ drain \in {"none", "reading", "posted", "done"}
    /\ left \in Nat
    /\ asked \in Seq(Payload)
    /\ wrote \in Seq(Payload)
    /\ sends \in Nat
    /\ beats \in Nat

\* Backpressure: a client that does not read costs the server a bounded queue,
\* however long the handler keeps sending.
QueueBounded == Len(queue) <= Limit + 1

WriteTasks == {"written", "unwritten"}
BeatTasks == {"beat"}
DrainTasks == {"drained", "ended"}

\* At most one async_write is outstanding on the socket (writing, or with its
\* completion on the strand): nothing but the emptiness of the queue says so.
OneWrite ==
    /\ Len(writes) <= 1
    /\ Unique(strand, WriteTasks)
    /\ writes # <<>> => None(strand, WriteTasks)

\* A stream that is open never forgets to write what is queued.
NoStall ==
    open /\ queue # <<>> => writes # <<>> \/ ~None(strand, WriteTasks)

\* An open stream has its next heartbeat armed, or its handler is posted ("SSE
\* streams automatically send a heartbeat"): no order of send, close and
\* timer loses it.
HeartbeatAlive ==
    open /\ phase \notin Starting => beat = "armed" \/ ~None(strand, BeatTasks)

\* One wait of the heartbeat timer at a time: start_heartbeat never doubles it.
OneHeartbeat ==
    /\ Unique(strand, BeatTasks)
    /\ beat = "armed" => None(strand, BeatTasks)

\* sse_disconnect is called at most once for a stream, and never for one whose
\* sse_connect threw.
DisconnectOnce == left <= 1 /\ (left = 1 => phase = "serving")

\* Once run() has armed the heartbeat, a closed socket never sees it armed again:
\* not by a heartbeat whose handler was posted before the close, and not after
\* the one that run() itself arms when the header's write has already failed.
ClosedStaysQuiet ==
    [][~open /\ beat = "off" /\ phase \notin Starting => beat' = "off"]_vars

\* What reaches the client is a prefix of what was sent, header first, even
\* when backpressure drops a message while the close it posts is still waiting.
Channel == INSTANCE EventChannel
ImplementsChannel == Channel!ChannelSpec

\* Everything sent is written, unless the stream is closed first.
EventuallyWritten ==
    \A n \in 1..(MaxSends + MaxBeats + 1) :
        Len(asked) >= n ~> Len(wrote) >= n \/ ~open

\* A served stream that is closed, by whomever, has its disconnect handler called.
CloseIsNoticed == phase = "serving" /\ ~open ~> left = 1
=============================================================================
