-------------------------- MODULE SseStreamProofs --------------------------
(***************************************************************************)
(* Theorems about SseStream, for every limit, every set of payloads and    *)
(* every number of messages and heartbeats.                                *)
(***************************************************************************)
EXTENDS SseStream, DataProofs

\* The front of the queue, and nothing else, is being written.
WriteOK ==
    /\ OneWrite
    /\ NoStall
    /\ writes # <<>> \/ ~None(strand, WriteTasks) => queue # <<>>

\* The heartbeat is one chain, which starts once run() has posted the header.
BeatOK ==
    /\ OneHeartbeat
    /\ HeartbeatAlive
    /\ phase = "start" => strand = <<>> /\ writes = <<>>
    /\ phase \in Starting => beat = "off" /\ None(strand, BeatTasks)

\* The drain is one chain, started for a served stream and ended once.
DrainOK ==
    /\ Unique(strand, DrainTasks)
    /\ ~None(strand, DrainTasks) => drain = "posted"
    /\ drain # "none" => phase = "serving"
    /\ left = 0 \/ (left = 1 /\ drain = "done")

Inv == TypeOK /\ QueueBounded /\ WriteOK /\ BeatOK /\ DrainOK

----------------------------------------------------------------------------
(* What posting and taking a task does to the tasks of a kind on the strand. *)

LEMMA PostTask ==
  ASSUME NEW s \in Seq(Task), NEW t \in Task, NEW kinds
  PROVE  /\ Append(s, t) \in Seq(Task)
         /\ t.op \notin kinds => TasksOf(Append(s, t), kinds) = TasksOf(s, kinds)
         /\ t.op \in kinds => ~None(Append(s, t), kinds)
         /\ t.op \in kinds /\ None(s, kinds) => Unique(Append(s, t), kinds)
  BY Posting

LEMMA TakeTask ==
  ASSUME NEW s \in Seq(Task), s # <<>>, NEW kinds
  PROVE  /\ Head(s) \in Task /\ Tail(s) \in Seq(Task)
         /\ Unique(s, kinds) => Unique(Tail(s), kinds)
         /\ Unique(s, kinds) /\ Head(s).op \in kinds => None(Tail(s), kinds)
         /\ Head(s).op \notin kinds => (None(Tail(s), kinds) <=> None(s, kinds))
         /\ None(s, kinds) => None(Tail(s), kinds)
         /\ Head(s).op \in kinds => ~None(s, kinds)
  BY Taking

----------------------------------------------------------------------------
LEMMA InitInv == Init => Inv
  <1> SUFFICES ASSUME Init PROVE Inv
    OBVIOUS
  <1> USE DEF Init
  <1>1. \A kinds : None(strand, kinds) /\ Unique(strand, kinds)
    BY DEF None, Unique, TasksOf
  <1>2. TypeOK
    BY DEF TypeOK, Starting
  <1>3. QueueBounded /\ WriteOK
    BY <1>1, SseAssumption DEF QueueBounded, WriteOK, OneWrite, NoStall
  <1>4. BeatOK /\ DrainOK
    BY <1>1 DEF BeatOK, OneHeartbeat, HeartbeatAlive, DrainOK, Starting
  <1>5. QED
    BY <1>2, <1>3, <1>4 DEF Inv

\* Tasks other than completions can be posted at any time.
LEMMA PostInv ==
  ASSUME Inv, NEW t \in Task, t.op \in {"send", "close"},
         strand' = Append(strand, t),
         UNCHANGED <<open, queue, writes, beat, left, wrote, beats>>,
         phase' \in {"connecting", "serving", "refused"}, phase \notin Starting,
         phase = "serving" => phase' = "serving",
         UNCHANGED drain, asked' \in Seq(Payload), sends' \in Nat
  PROVE  Inv'
  <1>1. strand \in Seq(Task)
    BY DEF Inv, TypeOK
  <1>2. \A kinds \in {WriteTasks, BeatTasks, DrainTasks} :
           /\ TasksOf(strand', kinds) = TasksOf(strand, kinds)
           /\ strand' \in Seq(Task)
    BY <1>1, PostTask DEF WriteTasks, BeatTasks, DrainTasks
  <1>3. \A kinds \in {WriteTasks, BeatTasks, DrainTasks} :
           /\ None(strand', kinds) <=> None(strand, kinds)
           /\ Unique(strand', kinds) <=> Unique(strand, kinds)
    BY <1>2 DEF None, Unique
  <1>4. TypeOK'
    BY <1>2 DEF Inv, TypeOK
  <1>5. WriteOK' /\ QueueBounded'
    BY <1>3 DEF Inv, WriteOK, OneWrite, NoStall, QueueBounded
  <1>6. BeatOK' /\ DrainOK'
    BY <1>3 DEF Inv, BeatOK, OneHeartbeat, HeartbeatAlive, DrainOK, Starting
  <1>7. QED
    BY <1>4, <1>5, <1>6 DEF Inv

LEMMA PlainTask ==
  /\ \A k \in {"close", "written", "unwritten", "beat", "drained", "ended"} :
        Plain(k) \in Task /\ Plain(k).op = k
  /\ \A m \in Payload : Send(m) \in Task /\ Send(m).op = "send"
  /\ Header \in Payload /\ Heartbeat \in Payload
  BY DEF Plain, Send, Task, Payload

LEMMA UserInv ==
  ASSUME Inv, Refused \/ UserClose \/ \E m \in Events : UserSend(m)
  PROVE  Inv'
  <1>1. CASE Refused
    BY <1>1, PlainTask, PostInv DEF Refused, Inv, TypeOK, Starting
  <1>2. CASE UserClose
    BY <1>2, PlainTask, PostInv DEF UserClose, Inv, TypeOK, Starting
  <1>3. ASSUME NEW m \in Events, UserSend(m) PROVE Inv'
    <2>1. m \in Payload
      BY DEF Payload
    <2>2. phase' \in {"connecting", "serving", "refused"}
      BY <1>3 DEF UserSend, Inv, TypeOK
    <2>3. asked' \in Seq(Payload) /\ sends' \in Nat
      BY <1>3, <2>1 DEF UserSend, Inv, TypeOK
    <2>4. QED
      BY <1>3, <2>1, <2>2, <2>3, PlainTask, PostInv DEF UserSend
  <1>4. QED
    BY <1>1, <1>2, <1>3

LEMMA BeginInv == ASSUME Inv, Begin \/ StartHeartbeat \/ Connected PROVE Inv'
  <1>1. CASE Begin
    <2>0. None(strand, BeatTasks) /\ beat = "off"
      BY <1>1 DEF Begin, Inv, BeatOK, Starting
    <2>1. \A kinds \in {WriteTasks, BeatTasks, DrainTasks} :
             /\ strand' \in Seq(Task)
             /\ TasksOf(strand', kinds) = TasksOf(strand, kinds)
      BY <1>1, PlainTask, PostTask DEF Begin, Inv, TypeOK, WriteTasks, BeatTasks, DrainTasks
    <2>2. \A kinds \in {WriteTasks, BeatTasks, DrainTasks} :
             /\ None(strand', kinds) <=> None(strand, kinds)
             /\ Unique(strand', kinds) <=> Unique(strand, kinds)
      BY <2>1 DEF None, Unique
    <2>3. TypeOK'
      BY <1>1, <2>1, PlainTask DEF Begin, Inv, TypeOK, Starting
    <2>4. WriteOK' /\ QueueBounded'
      BY <1>1, <2>2 DEF Begin, Inv, WriteOK, OneWrite, NoStall, QueueBounded
    <2>5. BeatOK' /\ DrainOK'
      BY <1>1, <2>0, <2>2 DEF Begin, Inv, BeatOK, OneHeartbeat, HeartbeatAlive, DrainOK,
                                Starting
    <2>6. QED
      BY <2>3, <2>4, <2>5 DEF Inv
  <1>2. CASE StartHeartbeat
    <2>1. None(strand, BeatTasks)
      BY <1>2 DEF StartHeartbeat, Inv, BeatOK, Starting
    <2>2. TypeOK' /\ WriteOK' /\ QueueBounded'
      BY <1>2 DEF StartHeartbeat, Inv, TypeOK, WriteOK, OneWrite, NoStall, QueueBounded
    <2>3. BeatOK' /\ DrainOK'
      BY <1>2, <2>1 DEF StartHeartbeat, Inv, BeatOK, OneHeartbeat, HeartbeatAlive, DrainOK,
                        Starting, None, Unique, TasksOf
    <2>4. QED
      BY <2>2, <2>3 DEF Inv
  <1>3. CASE Connected
    <2>1. TypeOK' /\ WriteOK' /\ QueueBounded'
      BY <1>3 DEF Connected, Inv, TypeOK, WriteOK, OneWrite, NoStall, QueueBounded
    <2>2. drain = "none"
      BY <1>3 DEF Connected, Inv, DrainOK
    <2>3. BeatOK' /\ DrainOK'
      BY <1>3, <2>2 DEF Connected, Inv, BeatOK, OneHeartbeat, HeartbeatAlive, DrainOK,
                        Starting
    <2>4. QED
      BY <2>1, <2>3 DEF Inv
  <1>4. QED
    BY <1>1, <1>2, <1>3

LEMMA WriteEndsInv == ASSUME Inv, WriteEnds PROVE Inv'
  <1>1. PICK k \in WriteTasks : strand' = Append(strand, Plain(k))
    BY DEF WriteEnds, WriteTasks
  <1>2. /\ Plain(k) \in Task /\ Plain(k).op = k /\ strand \in Seq(Task)
        /\ k \in WriteTasks /\ k \notin BeatTasks /\ k \notin DrainTasks
    BY <1>1, PlainTask DEF WriteTasks, BeatTasks, DrainTasks, Inv, TypeOK
  <1>3. writes # <<>> /\ writes' = Tail(writes) /\ None(strand, WriteTasks)
    BY DEF WriteEnds, Inv, WriteOK, OneWrite
  <1>4. /\ strand' \in Seq(Task)
        /\ Unique(strand', WriteTasks) /\ ~None(strand', WriteTasks)
        /\ TasksOf(strand', BeatTasks) = TasksOf(strand, BeatTasks)
        /\ TasksOf(strand', DrainTasks) = TasksOf(strand, DrainTasks)
    BY <1>1, <1>2, <1>3, PostTask
  <1>5. writes' = <<>>
    BY <1>3 DEF Inv, WriteOK, OneWrite, TypeOK
  <1>6. TypeOK'
    BY <1>4, <1>5 DEF WriteEnds, Inv, TypeOK
  <1>7. WriteOK' /\ QueueBounded'
    BY <1>3, <1>4, <1>5 DEF WriteEnds, Inv, WriteOK, OneWrite, NoStall, QueueBounded
  <1>8. BeatOK' /\ DrainOK'
    BY <1>4 DEF WriteEnds, Inv, BeatOK, OneHeartbeat, HeartbeatAlive, DrainOK, None, Unique
  <1>9. QED
    BY <1>6, <1>7, <1>8 DEF Inv

LEMMA BeatFiresInv == ASSUME Inv, BeatFires PROVE Inv'
  <1>1. /\ Plain("beat") \in Task /\ Plain("beat").op = "beat" /\ strand \in Seq(Task)
        /\ "beat" \notin WriteTasks /\ "beat" \in BeatTasks /\ "beat" \notin DrainTasks
    BY PlainTask DEF WriteTasks, BeatTasks, DrainTasks, Inv, TypeOK
  <1>2. /\ strand' = Append(strand, Plain("beat")) /\ beat' = "off"
        /\ None(strand, BeatTasks)
    BY DEF BeatFires, Inv, BeatOK, OneHeartbeat
  <1>3. /\ strand' \in Seq(Task)
        /\ Unique(strand', BeatTasks) /\ ~None(strand', BeatTasks)
        /\ TasksOf(strand', WriteTasks) = TasksOf(strand, WriteTasks)
        /\ TasksOf(strand', DrainTasks) = TasksOf(strand, DrainTasks)
    BY <1>1, <1>2, PostTask
  <1>4. TypeOK'
    BY <1>2, <1>3 DEF BeatFires, Inv, TypeOK
  <1>5. WriteOK' /\ QueueBounded'
    BY <1>3 DEF BeatFires, Inv, WriteOK, OneWrite, NoStall, QueueBounded, None, Unique
  <1>6. BeatOK' /\ DrainOK'
    <2>1. phase \notin Starting
      BY DEF BeatFires, Inv, BeatOK
    <2>2. QED
      BY <1>2, <1>3, <2>1 DEF BeatFires, Inv, BeatOK, OneHeartbeat, HeartbeatAlive, DrainOK,
                              None, Unique, Starting
  <1>7. QED
    BY <1>4, <1>5, <1>6 DEF Inv

LEMMA DrainEndsInv == ASSUME Inv, DrainEnds PROVE Inv'
  <1>1. PICK k \in DrainTasks : strand' = Append(strand, Plain(k))
    BY DEF DrainEnds, DrainTasks
  <1>2. /\ Plain(k) \in Task /\ Plain(k).op = k /\ strand \in Seq(Task)
        /\ k \notin WriteTasks /\ k \notin BeatTasks /\ k \in DrainTasks
    BY <1>1, PlainTask DEF WriteTasks, BeatTasks, DrainTasks, Inv, TypeOK
  <1>3. drain = "reading" /\ drain' = "posted" /\ None(strand, DrainTasks)
    BY DEF DrainEnds, Inv, DrainOK
  <1>4. /\ strand' \in Seq(Task)
        /\ Unique(strand', DrainTasks)
        /\ TasksOf(strand', WriteTasks) = TasksOf(strand, WriteTasks)
        /\ TasksOf(strand', BeatTasks) = TasksOf(strand, BeatTasks)
    BY <1>1, <1>2, <1>3, PostTask
  <1>5. TypeOK'
    BY <1>3, <1>4 DEF DrainEnds, Inv, TypeOK
  <1>6. WriteOK' /\ QueueBounded'
    BY <1>4 DEF DrainEnds, Inv, WriteOK, OneWrite, NoStall, QueueBounded, None, Unique
  <1>7. BeatOK' /\ DrainOK'
    BY <1>3, <1>4 DEF DrainEnds, Inv, BeatOK, OneHeartbeat, HeartbeatAlive, DrainOK,
                      None, Unique
  <1>8. QED
    BY <1>5, <1>6, <1>7 DEF Inv

----------------------------------------------------------------------------
(* The tasks of the strand.  In each lemma rest is the strand behind the   *)
(* task that runs.                                                         *)

\* A task of no kind that the invariant counts leaves the tasks of each kind.
LEMMA TakeOther ==
  ASSUME Inv, strand # <<>>, Head(strand).op \in {"send", "close"}
  PROVE  /\ Tail(strand) \in Seq(Task)
         /\ \A kinds \in {WriteTasks, BeatTasks, DrainTasks} :
               /\ None(Tail(strand), kinds) <=> None(strand, kinds)
               /\ Unique(Tail(strand), kinds)
  <1>1. strand \in Seq(Task) /\ \A kinds \in {WriteTasks, BeatTasks, DrainTasks} :
                                   Unique(strand, kinds)
    BY DEF Inv, TypeOK, WriteOK, OneWrite, BeatOK, OneHeartbeat, DrainOK
  <1>2. \A kinds \in {WriteTasks, BeatTasks, DrainTasks} : Head(strand).op \notin kinds
    BY DEF WriteTasks, BeatTasks, DrainTasks
  <1>3. QED
    BY <1>1, <1>2, TakeTask

\* A task of one of the kinds was the only one of it.
LEMMA TakeOne ==
  ASSUME Inv, strand # <<>>,
         NEW kinds \in {WriteTasks, BeatTasks, DrainTasks}, Head(strand).op \in kinds
  PROVE  /\ Tail(strand) \in Seq(Task)
         /\ ~None(strand, kinds)
         /\ None(Tail(strand), kinds) /\ Unique(Tail(strand), kinds)
         /\ \A others \in {WriteTasks, BeatTasks, DrainTasks} \ {kinds} :
               /\ None(Tail(strand), others) <=> None(strand, others)
               /\ Unique(Tail(strand), others)
  <1>1. strand \in Seq(Task) /\ \A others \in {WriteTasks, BeatTasks, DrainTasks} :
                                   Unique(strand, others)
    BY DEF Inv, TypeOK, WriteOK, OneWrite, BeatOK, OneHeartbeat, DrainOK
  <1>2. \A others \in {WriteTasks, BeatTasks, DrainTasks} \ {kinds} :
           Head(strand).op \notin others
    BY DEF WriteTasks, BeatTasks, DrainTasks
  <1>3. QED
    BY <1>1, <1>2, TakeTask

LEMMA RunSendInv ==
  ASSUME Inv, strand # <<>>, Head(strand).op = "send",
         RunSend(Head(strand).msg, Tail(strand)), UNCHANGED <<phase, sends, beats>>
  PROVE  Inv'
  <1> DEFINE m == Head(strand).msg
  <1> DEFINE rest == Tail(strand)
  <1>1. /\ rest \in Seq(Task)
        /\ \A kinds \in {WriteTasks, BeatTasks, DrainTasks} :
              /\ None(rest, kinds) <=> None(strand, kinds)
              /\ Unique(rest, kinds)
    BY TakeOther
  <1>2. m \in Payload
    <2>1. Head(strand) \in Task
      BY DEF Inv, TypeOK
    <2>2. QED
      BY <2>1 DEF Task
  <1>3. /\ strand' \in Seq(Task)
        /\ \A kinds \in {WriteTasks, BeatTasks, DrainTasks} :
              /\ None(strand', kinds) <=> None(strand, kinds)
              /\ Unique(strand', kinds)
    <2>1. CASE strand' = rest
      BY <1>1, <2>1
    <2>2. CASE strand' = Append(rest, Plain("close"))
      <3>1. \A kinds \in {WriteTasks, BeatTasks, DrainTasks} :
               /\ strand' \in Seq(Task)
               /\ TasksOf(strand', kinds) = TasksOf(rest, kinds)
        BY <1>1, <2>2, PlainTask, PostTask DEF WriteTasks, BeatTasks, DrainTasks
      <3>2. QED
        BY <1>1, <3>1 DEF None, Unique
    <2>3. QED
      BY <2>1, <2>2 DEF RunSend
  <1>4. UNCHANGED <<phase, open, beat, drain, left, asked, wrote, sends, beats>>
    BY DEF RunSend
  <1>5. BeatOK' /\ DrainOK'
    BY <1>3, <1>4 DEF Inv, BeatOK, OneHeartbeat, HeartbeatAlive, DrainOK
  <1>6. CASE UNCHANGED <<queue, writes>>
    BY <1>3, <1>4, <1>5, <1>6 DEF Inv, TypeOK, WriteOK, OneWrite, NoStall, QueueBounded
  <1>7. CASE Len(queue) <= Limit /\ queue' = Append(queue, m)
             /\ IF queue = <<>> THEN DoWrite(queue') ELSE UNCHANGED writes
    <2>1. queue' \in Seq(Payload) /\ queue' # <<>> /\ Len(queue') = Len(queue) + 1
      BY <1>2, <1>7 DEF Inv, TypeOK
    <2>2. QueueBounded'
      BY <1>7, <2>1, SseAssumption DEF QueueBounded, Inv, TypeOK
    <2>3. CASE queue = <<>>
      <3>1. writes = <<>> /\ None(strand, WriteTasks)
        BY <2>3 DEF Inv, WriteOK
      <3>2. PICK w \in {"live", "dead"} : writes' = <<w>>
        BY <1>7, <2>1, <2>3, <3>1 DEF DoWrite
      <3>3. writes' \in Seq({"live", "dead"}) /\ Len(writes') = 1 /\ writes' # <<>>
        BY <3>2
      <3>4. TypeOK' /\ WriteOK'
        BY <1>3, <1>4, <2>1, <3>1, <3>3 DEF Inv, TypeOK, WriteOK, OneWrite, NoStall
      <3>5. QED
        BY <1>5, <2>2, <3>4 DEF Inv
    <2>4. CASE queue # <<>>
      <3>1. TypeOK' /\ WriteOK'
        BY <1>3, <1>4, <1>7, <2>1, <2>4 DEF Inv, TypeOK, WriteOK, OneWrite, NoStall
      <3>2. QED
        BY <1>5, <2>2, <3>1 DEF Inv
    <2>5. QED
      BY <2>3, <2>4
  <1>8. QED
    <2>1. Len(queue) \in Nat
      BY DEF Inv, TypeOK
    <2>2. QED
      BY <1>6, <1>7, <2>1, SseAssumption DEF RunSend

LEMMA RunCloseInv ==
  ASSUME Inv, strand # <<>>, Head(strand).op = "close",
         RunClose(Tail(strand)), UNCHANGED <<phase, sends, beats>>
  PROVE  Inv'
  <1>1. /\ strand' \in Seq(Task)
        /\ \A kinds \in {WriteTasks, BeatTasks, DrainTasks} :
              /\ None(strand', kinds) <=> None(strand, kinds)
              /\ Unique(strand', kinds)
    BY TakeOther DEF RunClose
  <1>2. TypeOK'
    BY <1>1 DEF RunClose, Inv, TypeOK
  <1>3. WriteOK' /\ QueueBounded'
    BY <1>1 DEF RunClose, Inv, WriteOK, OneWrite, NoStall, QueueBounded
  <1>4. BeatOK' /\ DrainOK'
    BY <1>1 DEF RunClose, Inv, BeatOK, OneHeartbeat, HeartbeatAlive, DrainOK
  <1>5. QED
    BY <1>2, <1>3, <1>4 DEF Inv

LEMMA RunWrittenInv ==
  ASSUME Inv, strand # <<>>, Head(strand).op = "written",
         RunWritten(Tail(strand)), UNCHANGED <<phase, sends, beats>>
  PROVE  Inv'
  <1>1. "written" \in WriteTasks
    BY DEF WriteTasks
  <1>2. BeatTasks # WriteTasks /\ DrainTasks # WriteTasks
    BY DEF WriteTasks, BeatTasks, DrainTasks
  <1>3. /\ strand' \in Seq(Task) /\ ~None(strand, WriteTasks)
        /\ None(strand', WriteTasks) /\ Unique(strand', WriteTasks)
        /\ \A others \in {BeatTasks, DrainTasks} :
              /\ None(strand', others) <=> None(strand, others)
              /\ Unique(strand', others)
    BY <1>1, <1>2, TakeOne DEF RunWritten
  <1>4. writes = <<>> /\ queue # <<>>
    BY <1>3 DEF Inv, WriteOK, OneWrite
  <1>5. /\ queue' = Tail(queue) /\ queue' \in Seq(Payload) /\ Len(queue') = Len(queue) - 1
        /\ Head(queue) \in Payload /\ Len(queue) \in Nat
    BY <1>4 DEF RunWritten, Inv, TypeOK
  <1>6. wrote' \in Seq(Payload)
    BY <1>5 DEF RunWritten, Inv, TypeOK
  <1>7. /\ writes' \in Seq({"live", "dead"}) /\ Len(writes') <= 1
        /\ writes' # <<>> <=> queue' # <<>>
    <2>1. CASE queue' = <<>>
      BY <1>4, <2>1 DEF RunWritten, DoWrite
    <2>2. CASE queue' # <<>>
      <3>1. PICK w \in {"live", "dead"} : writes' = <<w>>
        BY <1>4, <2>2 DEF RunWritten, DoWrite
      <3>2. QED
        BY <2>2, <3>1
    <2>3. QED
      BY <2>1, <2>2
  <1>8. TypeOK'
    BY <1>3, <1>5, <1>6, <1>7 DEF RunWritten, Inv, TypeOK
  <1>9. WriteOK'
    BY <1>3, <1>7 DEF WriteOK, OneWrite, NoStall
  <1>10. QueueBounded'
    BY <1>5, SseAssumption DEF Inv, QueueBounded
  <1>11. BeatOK' /\ DrainOK'
    BY <1>3 DEF RunWritten, Inv, BeatOK, OneHeartbeat, HeartbeatAlive, DrainOK
  <1>12. QED
    BY <1>8, <1>9, <1>10, <1>11 DEF Inv

LEMMA RunUnwrittenInv ==
  ASSUME Inv, strand # <<>>, Head(strand).op = "unwritten",
         RunUnwritten(Tail(strand)), UNCHANGED <<phase, sends, beats>>
  PROVE  Inv'
  <1>1. "unwritten" \in WriteTasks /\ BeatTasks # WriteTasks /\ DrainTasks # WriteTasks
    BY DEF WriteTasks, BeatTasks, DrainTasks
  <1>2. /\ strand' \in Seq(Task) /\ ~None(strand, WriteTasks)
        /\ None(strand', WriteTasks) /\ Unique(strand', WriteTasks)
        /\ \A others \in {BeatTasks, DrainTasks} :
              /\ None(strand', others) <=> None(strand, others)
              /\ Unique(strand', others)
    BY <1>1, TakeOne DEF RunUnwritten
  <1>3. TypeOK'
    BY <1>2 DEF RunUnwritten, Inv, TypeOK
  <1>4. WriteOK' /\ QueueBounded'
    BY <1>2 DEF RunUnwritten, Inv, WriteOK, OneWrite, NoStall, QueueBounded
  <1>5. BeatOK' /\ DrainOK'
    BY <1>2 DEF RunUnwritten, Inv, BeatOK, OneHeartbeat, HeartbeatAlive, DrainOK
  <1>6. QED
    BY <1>3, <1>4, <1>5 DEF Inv

LEMMA RunBeatInv ==
  ASSUME Inv, strand # <<>>, Head(strand).op = "beat",
         RunBeat(Tail(strand)), UNCHANGED <<phase, sends, beats>>
  PROVE  Inv'
  <1> DEFINE rest == Tail(strand)
  <1>1. "beat" \in BeatTasks /\ WriteTasks # BeatTasks /\ DrainTasks # BeatTasks
    BY DEF WriteTasks, BeatTasks, DrainTasks
  <1>2. /\ rest \in Seq(Task) /\ ~None(strand, BeatTasks)
        /\ None(rest, BeatTasks) /\ Unique(rest, BeatTasks)
        /\ \A others \in {WriteTasks, DrainTasks} :
              /\ None(rest, others) <=> None(strand, others)
              /\ Unique(rest, others)
    BY <1>1, TakeOne
  <1>3. /\ strand' \in Seq(Task)
        /\ None(strand', BeatTasks) /\ Unique(strand', BeatTasks)
        /\ \A others \in {WriteTasks, DrainTasks} :
              /\ None(strand', others) <=> None(strand, others)
              /\ Unique(strand', others)
    <2>1. CASE strand' = rest
      BY <1>2, <2>1
    <2>2. CASE strand' = Append(rest, Send(Heartbeat))
      <3>1. \A kinds \in {WriteTasks, BeatTasks, DrainTasks} :
               /\ strand' \in Seq(Task)
               /\ TasksOf(strand', kinds) = TasksOf(rest, kinds)
        <4>1. /\ rest \in Seq(Task) /\ Send(Heartbeat) \in Task /\ Send(Heartbeat).op = "send"
          BY <1>2, PlainTask
        <4>2. \A kinds \in {WriteTasks, BeatTasks, DrainTasks} : "send" \notin kinds
          BY DEF WriteTasks, BeatTasks, DrainTasks
        <4>3. QED
          BY <2>2, <4>1, <4>2, PostTask
      <3>2. QED
        BY <1>2, <3>1 DEF None, Unique
    <2>3. QED
      BY <2>1, <2>2 DEF RunBeat
  <1>4. phase \notin Starting
    BY <1>2 DEF Inv, BeatOK
  <1>5. /\ beat' \in {"off", "armed"} /\ asked' \in Seq(Payload)
        /\ open => beat' = "armed"
    <2>1. asked \in Seq(Payload) /\ beat \in {"off", "armed"} /\ Heartbeat \in Payload
      BY PlainTask DEF Inv, TypeOK
    <2>2. CASE open
      BY <2>1, <2>2 DEF RunBeat
    <2>3. CASE ~open
      BY <2>1, <2>3 DEF RunBeat
    <2>4. QED
      BY <2>2, <2>3
  <1>6. TypeOK'
    BY <1>3, <1>5 DEF RunBeat, Inv, TypeOK
  <1>7. WriteOK' /\ QueueBounded'
    BY <1>3 DEF RunBeat, Inv, WriteOK, OneWrite, NoStall, QueueBounded
  <1>8. BeatOK' /\ DrainOK'
    BY <1>3, <1>4, <1>5 DEF RunBeat, Inv, BeatOK, OneHeartbeat, HeartbeatAlive, DrainOK
  <1>9. QED
    BY <1>6, <1>7, <1>8 DEF Inv

LEMMA RunDrainInv ==
  ASSUME Inv, strand # <<>>, UNCHANGED <<phase, sends, beats>>,
         \/ Head(strand).op = "drained" /\ RunDrained(Tail(strand))
         \/ Head(strand).op = "ended" /\ RunEnded(Tail(strand))
  PROVE  Inv'
  <1>1. Head(strand).op \in DrainTasks /\ BeatTasks # DrainTasks /\ WriteTasks # DrainTasks
    BY DEF WriteTasks, BeatTasks, DrainTasks
  <1>2. /\ strand' \in Seq(Task) /\ ~None(strand, DrainTasks)
        /\ None(strand', DrainTasks) /\ Unique(strand', DrainTasks)
        /\ \A others \in {BeatTasks, WriteTasks} :
              /\ None(strand', others) <=> None(strand, others)
              /\ Unique(strand', others)
    BY <1>1, TakeOne DEF RunDrained, RunEnded
  <1>3. drain = "posted" /\ left = 0 /\ phase = "serving"
    <2>1. drain = "posted"
      BY <1>2 DEF Inv, DrainOK
    <2>2. left = 0
      BY <2>1 DEF Inv, DrainOK
    <2>3. phase = "serving"
      BY <2>1 DEF Inv, DrainOK
    <2>4. QED
      BY <2>1, <2>2, <2>3
  <1>4. TypeOK'
    BY <1>2, <1>3 DEF RunDrained, RunEnded, Inv, TypeOK
  <1>5. WriteOK' /\ QueueBounded'
    BY <1>2 DEF RunDrained, RunEnded, Inv, WriteOK, OneWrite, NoStall, QueueBounded
  <1>6. BeatOK' /\ DrainOK'
    BY <1>2, <1>3 DEF RunDrained, RunEnded, Inv, BeatOK, OneHeartbeat, HeartbeatAlive,
                      DrainOK
  <1>7. QED
    BY <1>4, <1>5, <1>6 DEF Inv

----------------------------------------------------------------------------
LEMMA NextInv == Inv /\ [Next]_vars => Inv'
  <1> SUFFICES ASSUME Inv, [Next]_vars PROVE Inv'
    OBVIOUS
  <1>1. CASE Begin \/ StartHeartbeat \/ Connected
    BY <1>1, BeginInv
  <1>2. CASE Refused \/ UserClose \/ \E m \in Events : UserSend(m)
    BY <1>2, UserInv
  <1>3. CASE WriteEnds \/ BeatFires \/ DrainEnds
    BY <1>3, WriteEndsInv, BeatFiresInv, DrainEndsInv
  <1>4. CASE RunStrand
    BY <1>4, RunSendInv, RunCloseInv, RunWrittenInv, RunUnwrittenInv, RunBeatInv,
       RunDrainInv DEF RunStrand
  <1>5. CASE UNCHANGED vars
    BY <1>5 DEF vars, Inv, TypeOK, QueueBounded, WriteOK, OneWrite, NoStall, BeatOK,
                OneHeartbeat, HeartbeatAlive, DrainOK, None, Unique, TasksOf
  <1>6. QED
    BY <1>1, <1>2, <1>3, <1>4, <1>5 DEF Next

\* The inductive invariant of the stream: queue, outstanding write, heartbeat
\* and drain agree with the completion handlers that wait on the strand.
THEOREM Invariance == Spec => []Inv
  BY InitInv, NextInv, PTL DEF Spec

\* Every reachable state of the stream has the types TypeOK gives it.
THEOREM TypeCorrectness == Spec => []TypeOK
  <1>1. Inv => TypeOK
    BY DEF Inv
  <1>2. QED
    BY <1>1, Invariance, PTL

\* For every limit the queue holds at most one message more than it.
THEOREM Backpressure == Spec => []QueueBounded
  <1>1. Inv => QueueBounded
    BY DEF Inv
  <1>2. QED
    BY <1>1, Invariance, PTL

\* At most one write is outstanding, and a queued message of an open stream is
\* always being written.
THEOREM WritesAreSerial == Spec => [](OneWrite /\ NoStall)
  <1>1. Inv => OneWrite /\ NoStall
    BY DEF Inv, WriteOK
  <1>2. QED
    BY <1>1, Invariance, PTL

\* The heartbeat of an open stream is never lost and never doubled.
THEOREM HeartbeatChain == Spec => [](OneHeartbeat /\ HeartbeatAlive)
  <1>1. Inv => OneHeartbeat /\ HeartbeatAlive
    BY DEF Inv, BeatOK
  <1>2. QED
    BY <1>1, Invariance, PTL

\* sse_disconnect is called at most once, and only for a served stream.
THEOREM DisconnectsOnce == Spec => []DisconnectOnce
  <1>1. Inv => DisconnectOnce
    BY DEF Inv, DrainOK, DisconnectOnce
  <1>2. QED
    BY <1>1, Invariance, PTL

\* Once run() has armed the heartbeat, the timer of a closed stream is not armed
\* again, in whatever order the close, the timer and the writes came.
THEOREM ClosedIsQuiet == Spec => ClosedStaysQuiet
  <1>1. Inv /\ [Next]_vars
           => (~open /\ beat = "off" /\ phase \notin Starting => beat' = "off")
    <2> SUFFICES ASSUME Inv, [Next]_vars, ~open, beat = "off", phase \notin Starting
                 PROVE  beat' = "off"
      OBVIOUS
    <2>1. phase # "start" /\ phase # "begun"
      BY DEF Starting
    <2>2. CASE RunStrand
      BY <2>2 DEF RunStrand, RunSend, RunClose, RunWritten, RunUnwritten, RunBeat,
                  RunDrained, RunEnded
    <2>3. CASE ~RunStrand
      BY <2>1, <2>3 DEF Next, vars, Begin, StartHeartbeat, Connected, Refused, UserSend,
                        UserClose, WriteEnds, BeatFires, DrainEnds
    <2>4. QED
      BY <2>2, <2>3
  <1>2. QED
    BY <1>1, Invariance, PTL DEF Spec, ClosedStaysQuiet

----------------------------------------------------------------------------
(* What was sent is written, queued or posted, in this order, until send() *)
(* drops a message.  It has posted a close by then, and what is queued in  *)
(* front of the gap lasts until that close is executed, or the socket is   *)
(* closed: one write then ends at most, and none starts on a closed        *)
(* socket.                                                                 *)
WroteLive(ws) == \E i \in 1..Len(ws) : ws[i] = "live"

Gap(a, w, q, s, o, ws) ==
    /\ o = TRUE => ~None(s, {"close"}) /\ q # <<>>
    /\ Continues(a, w, q, 0)
    /\ WroteLive(ws) \/ ~None(s, {"written"}) => Continues(a, w, q, 1)
    /\ o = TRUE /\ Precedes(s, {"written"}, {"close"}) => Continues(a, w, q, 2)

Ordered(a, w, q, s, o, ws) ==
    Accounted(a, w, q, s, "send", Payload) \/ Gap(a, w, q, s, o, ws)

OrderOK == Ordered(asked, wrote, queue, strand, open, writes)

\* A message is sent.
LEMMA OrderedSend ==
  ASSUME NEW a \in Seq(Payload), NEW w \in Seq(Payload), NEW q \in Seq(Payload),
         NEW s \in Seq(Task), NEW o, NEW ws, Ordered(a, w, q, s, o, ws), NEW v \in Payload
  PROVE  Ordered(Append(a, v), w, q, Append(s, Send(v)), o, ws)
  <1>1. Send(v) \in Task /\ Send(v).op = "send" /\ Send(v).msg = v
    BY DEF Send, Task
  <1>2. CASE Accounted(a, w, q, s, "send", Payload)
    BY <1>1, <1>2, AccountedPost DEF Ordered
  <1>3. CASE Gap(a, w, q, s, o, ws)
    <2>1. \A n \in {0, 1, 2} : Continues(a, w, q, n) => Continues(Append(a, v), w, q, n)
      BY ContinuesPost
    <2>2. None(Append(s, Send(v)), {"close"}) => None(s, {"close"})
      BY <1>1, PostTask DEF None
    <2>3. None(s, {"written"}) => None(Append(s, Send(v)), {"written"})
      BY <1>1, PostTask DEF None
    <2>4. Precedes(Append(s, Send(v)), {"written"}, {"close"}) => Precedes(s, {"written"}, {"close"})
      BY <1>1, PrecedesPost
    <2>5. QED
      BY <1>3, <2>1, <2>2, <2>3, <2>4 DEF Gap, Ordered
  <1>4. QED
    BY <1>2, <1>3 DEF Ordered

\* Any other task but the completion of a successful write is posted.
LEMMA OrderedPost ==
  ASSUME NEW a \in Seq(Payload), NEW w \in Seq(Payload), NEW q \in Seq(Payload),
         NEW s \in Seq(Task), NEW o, NEW ws, Ordered(a, w, q, s, o, ws),
         NEW t \in Task, t.op # "send", t.op # "written"
  PROVE  Ordered(a, w, q, Append(s, t), o, ws)
  <1>1. CASE Accounted(a, w, q, s, "send", Payload)
    BY <1>1, AccountedPost DEF Ordered
  <1>2. CASE Gap(a, w, q, s, o, ws)
    <2>1. None(Append(s, t), {"close"}) => None(s, {"close"})
      <3>1. CASE t.op \in {"close"}
        BY <3>1, PostTask
      <3>2. CASE t.op \notin {"close"}
        BY <3>2, PostTask DEF None
      <3>3. QED
        BY <3>1, <3>2
    <2>2. None(s, {"written"}) => None(Append(s, t), {"written"})
      BY PostTask DEF None
    <2>3. Precedes(Append(s, t), {"written"}, {"close"}) => Precedes(s, {"written"}, {"close"})
      BY PrecedesPost
    <2>4. QED
      BY <1>2, <2>1, <2>2, <2>3 DEF Gap, Ordered
  <1>3. QED
    BY <1>1, <1>2 DEF Ordered

\* The socket is closed, or a write ends.
LEMMA OrderedClose ==
  ASSUME NEW a, NEW w, NEW q, NEW s, NEW o, NEW ws, Ordered(a, w, q, s, o, ws),
         NEW o2, NEW ws2, o2 = TRUE => o = TRUE, WroteLive(ws2) => WroteLive(ws)
  PROVE  Ordered(a, w, q, s, o2, ws2)
  BY DEF Ordered, Gap

\* A write succeeds: its completion comes behind a close that is posted.
LEMMA OrderedWritten ==
  ASSUME NEW a \in Seq(Payload), NEW w \in Seq(Payload), NEW q \in Seq(Payload),
         NEW s \in Seq(Task), NEW o, NEW ws, Ordered(a, w, q, s, o, ws),
         NEW ws2, NEW t \in Task, t.op = "written",
         WroteLive(ws), None(s, {"written"})
  PROVE  Ordered(a, w, q, Append(s, t), o, ws2)
  <1>1. CASE Accounted(a, w, q, s, "send", Payload)
    BY <1>1, AccountedPost DEF Ordered
  <1>2. CASE Gap(a, w, q, s, o, ws)
    <2>1. None(Append(s, t), {"close"}) => None(s, {"close"})
      BY PostTask DEF None
    <2>2. o = TRUE => ~Precedes(Append(s, t), {"written"}, {"close"})
      BY <1>2, PrecedesPost DEF Gap
    <2>3. QED
      BY <1>2, <2>1, <2>2 DEF Gap, Ordered
  <1>3. QED
    BY <1>1, <1>2 DEF Ordered

\* A task that neither sends, closes nor has written is executed.
LEMMA OrderedTake ==
  ASSUME NEW a \in Seq(Payload), NEW w \in Seq(Payload), NEW q \in Seq(Payload),
         NEW s \in Seq(Task), s # <<>>, NEW o, NEW ws, Ordered(a, w, q, s, o, ws),
         Head(s).op # "send", Head(s).op # "close" \/ o # TRUE
  PROVE  Ordered(a, w, q, Tail(s), o, ws)
  <1>1. CASE Accounted(a, w, q, s, "send", Payload)
    BY <1>1, AccountedTake DEF Ordered
  <1>2. CASE Gap(a, w, q, s, o, ws)
    <2>1. None(s, {"written"}) => None(Tail(s), {"written"})
      BY TakeTask
    <2>2. CASE o # TRUE
      BY <1>2, <2>1, <2>2 DEF Gap, Ordered
    <2>3. CASE Head(s).op # "close"
      <3>1. None(Tail(s), {"close"}) => None(s, {"close"})
        BY <2>3, TakeTask
      <3>2. Precedes(Tail(s), {"written"}, {"close"}) => Precedes(s, {"written"}, {"close"})
        BY <2>3, PrecedesTake
      <3>3. QED
        BY <1>2, <2>1, <3>1, <3>2 DEF Gap, Ordered
    <2>4. QED
      BY <2>2, <2>3
  <1>3. QED
    BY <1>1, <1>2 DEF Ordered

\* send() queues the message, and on an empty queue starts to write it.
LEMMA OrderedPush ==
  ASSUME NEW a \in Seq(Payload), NEW w \in Seq(Payload), NEW q \in Seq(Payload),
         NEW s \in Seq(Task), s # <<>>, NEW o, NEW ws, Ordered(a, w, q, s, o, ws),
         NEW v \in Payload, Head(s).op = "send", Head(s).msg = v,
         NEW ws2, WroteLive(ws2) => WroteLive(ws) \/ (q = <<>> /\ o = TRUE)
  PROVE  Ordered(a, w, Append(q, v), Tail(s), o, ws2)
  <1>1. CASE Accounted(a, w, q, s, "send", Payload)
    BY <1>1, AccountedTake DEF Ordered
  <1>2. CASE Gap(a, w, q, s, o, ws)
    <2>1. \A n \in {0, 1, 2} : Continues(a, w, q, n) => Continues(a, w, Append(q, v), n)
      BY ContinuesPost
    <2>2. None(Tail(s), {"close"}) => None(s, {"close"})
      BY TakeTask
    <2>3. None(s, {"written"}) => None(Tail(s), {"written"})
      BY TakeTask
    <2>4. Precedes(Tail(s), {"written"}, {"close"}) => Precedes(s, {"written"}, {"close"})
      BY PrecedesTake
    <2>5. Append(q, v) # <<>>
      <3>1. Len(Append(q, v)) # 0
        OBVIOUS
      <3>2. Len(<<>>) = 0
        OBVIOUS
      <3>3. QED
        BY <3>1, <3>2, Zenon
    <2>6. WroteLive(ws2) => WroteLive(ws)
      BY <1>2 DEF Gap
    <2>7. QED
      BY <1>2, <2>1, <2>2, <2>3, <2>4, <2>5, <2>6 DEF Gap, Ordered
  <1>3. QED
    BY <1>1, <1>2 DEF Ordered

\* send() drops the message and posts a close.
LEMMA OrderedDrop ==
  ASSUME NEW a \in Seq(Payload), NEW w \in Seq(Payload), NEW q \in Seq(Payload),
         NEW s \in Seq(Task), s # <<>>, NEW o, NEW ws, Ordered(a, w, q, s, o, ws),
         Head(s).op = "send", Len(q) >= 2
  PROVE  Ordered(a, w, q, Append(Tail(s), Plain("close")), o, ws)
  <1>1. Tail(s) \in Seq(Task) /\ Plain("close") \in Task /\ Plain("close").op = "close"
    BY TakeTask, PlainTask
  <1>2. ~None(Append(Tail(s), Plain("close")), {"close"})
    BY <1>1, PostTask
  <1>3. q # <<>>
    OBVIOUS
  <1>4. CASE Accounted(a, w, q, s, "send", Payload)
    <2>1. Continues(a, w, q, Len(q))
      BY <1>4, AccountedWrite
    <2>2. Continues(a, w, q, 0) /\ Continues(a, w, q, 1) /\ Continues(a, w, q, 2)
      BY <2>1, ContinuesLess
    <2>3. QED
      BY <1>2, <1>3, <2>2 DEF Gap, Ordered
  <1>5. CASE Gap(a, w, q, s, o, ws)
    <2>1. None(s, {"written"}) => None(Append(Tail(s), Plain("close")), {"written"})
      <3>1. None(s, {"written"}) => None(Tail(s), {"written"})
        BY TakeTask
      <3>2. None(Tail(s), {"written"}) => None(Append(Tail(s), Plain("close")), {"written"})
        BY <1>1, PostTask DEF None
      <3>3. QED
        BY <3>1, <3>2
    <2>2. Precedes(Append(Tail(s), Plain("close")), {"written"}, {"close"})
             => Precedes(s, {"written"}, {"close"})
      <3>1. Precedes(Append(Tail(s), Plain("close")), {"written"}, {"close"})
               => Precedes(Tail(s), {"written"}, {"close"})
        BY <1>1, PrecedesPost
      <3>2. Precedes(Tail(s), {"written"}, {"close"}) => Precedes(s, {"written"}, {"close"})
        BY PrecedesTake
      <3>3. QED
        BY <3>1, <3>2
    <2>3. QED
      BY <1>2, <1>3, <1>5, <2>1, <2>2 DEF Gap, Ordered
  <1>6. QED
    BY <1>4, <1>5 DEF Ordered

\* The completion of a write takes the front of the queue, which is the next
\* message of those sent.
LEMMA OrderedPop ==
  ASSUME NEW a \in Seq(Payload), NEW w \in Seq(Payload), NEW q \in Seq(Payload),
         NEW s \in Seq(Task), s # <<>>, NEW o, NEW ws, Ordered(a, w, q, s, o, ws),
         Head(s).op = "written", q # <<>>, None(Tail(s), {"written"}),
         NEW ws2, WroteLive(ws2) => o = TRUE
  PROVE  /\ Len(w) < Len(a) /\ Head(q) = a[Len(w) + 1]
         /\ Ordered(a, Append(w, Head(q)), Tail(q), Tail(s), o, ws2)
  <1>1. CASE Accounted(a, w, q, s, "send", Payload)
    <2>1. Continues(a, w, q, Len(q)) /\ Len(q) \in Nat \ {0}
      BY <1>1, AccountedWrite
    <2>2. Len(w) < Len(a) /\ Head(q) = a[Len(w) + 1]
      BY <2>1, ContinuesWrite
    <2>3. Accounted(a, w, q, Tail(s), "send", Payload)
      BY <1>1, AccountedTake
    <2>4. Tail(s) \in Seq(Task)
      BY TakeTask
    <2>5. Accounted(a, Append(w, Head(q)), Tail(q), Tail(s), "send", Payload)
      BY <2>3, <2>4, AccountedWrite
    <2>6. QED
      BY <2>2, <2>5 DEF Ordered
  <1>2. CASE Gap(a, w, q, s, o, ws)
    <2>1. Continues(a, w, q, 1)
      BY <1>2, TakeTask DEF Gap
    <2>2. /\ Len(w) < Len(a) /\ Head(q) = a[Len(w) + 1]
          /\ Continues(a, Append(w, Head(q)), Tail(q), 0)
      <3>1. 1 \in Nat \ {0} /\ 1 - 1 = 0
        OBVIOUS
      <3>2. QED
        BY <2>1, <3>1, ContinuesWrite
    <2>3. ASSUME o = TRUE
          PROVE  /\ ~None(Tail(s), {"close"}) /\ Tail(q) # <<>>
                 /\ Continues(a, Append(w, Head(q)), Tail(q), 1)
      <3>1. ~None(Tail(s), {"close"})
        BY <1>2, <2>3, TakeTask DEF Gap
      <3>2. Precedes(s, {"written"}, {"close"})
        BY PrecedesTake
      <3>3. Continues(a, w, q, 2)
        BY <1>2, <2>3, <3>2 DEF Gap
      <3>4. Tail(q) # <<>>
        <4>1. Len(q) \in Nat /\ Len(q) >= 2
          BY <3>3 DEF Continues
        <4>2. Len(Tail(q)) # 0
          <5>1. Len(Tail(q)) = Len(q) - 1
            BY <4>1
          <5>2. QED
            BY <4>1, <5>1
        <4>3. Len(<<>>) = 0
          OBVIOUS
        <4>4. QED
          BY <4>2, <4>3, Zenon
      <3>5. 2 \in Nat \ {0} /\ 2 - 1 = 1
        OBVIOUS
      <3>6. QED
        BY <3>1, <3>3, <3>4, <3>5, ContinuesWrite
    <2>4. ~Precedes(Tail(s), {"written"}, {"close"})
      BY DEF None, Precedes
    <2>5. QED
      BY <2>2, <2>3, <2>4 DEF Gap, Ordered
  <1>3. QED
    BY <1>1, <1>2 DEF Ordered

----------------------------------------------------------------------------
(* Every step keeps the order and is one of the channel, or none.          *)
Moved == Channel!Ask \/ Channel!Deliver \/ UNCHANGED <<asked, wrote>>

LEMMA OrderTypes ==
  ASSUME Inv
  PROVE  /\ asked \in Seq(Payload) /\ wrote \in Seq(Payload) /\ queue \in Seq(Payload)
         /\ strand \in Seq(Task)
         /\ writes \in Seq({"live", "dead"})
         /\ None(strand, WriteTasks) => None(strand, {"written"})
         /\ writes # <<>> => None(strand, {"written"})
  <1>1. None(strand, WriteTasks) => None(strand, {"written"})
    BY DEF None, TasksOf, WriteTasks
  <1>2. QED
    BY <1>1 DEF Inv, TypeOK, WriteOK, OneWrite

\* run() and the users of the stream.
LEMMA SendOrder ==
  ASSUME Inv, OrderOK, NEW v \in Payload,
         asked' = Append(asked, v), strand' = Append(strand, Send(v)),
         UNCHANGED <<wrote, queue, open, writes>>
  PROVE  OrderOK' /\ Moved
  <1>1. Ordered(Append(asked, v), wrote, queue, Append(strand, Send(v)), open, writes)
    BY OrderTypes, OrderedSend DEF OrderOK
  <1>2. Channel!Ask
    BY DEF Channel!Ask
  <1>3. QED
    BY <1>1, <1>2 DEF OrderOK, Moved

LEMMA PostOrder ==
  ASSUME Inv, OrderOK, NEW t \in Task, t.op # "send", t.op # "written",
         strand' = Append(strand, t), UNCHANGED <<asked, wrote, queue, open>>,
         WroteLive(writes') => WroteLive(writes)
  PROVE  OrderOK' /\ Moved
  <1>1. Ordered(asked, wrote, queue, Append(strand, t), open, writes)
    BY OrderTypes, OrderedPost DEF OrderOK
  <1>2. Ordered(asked, wrote, queue, Append(strand, t), open, writes')
    BY <1>1, OrderedClose
  <1>3. QED
    BY <1>2 DEF OrderOK, Moved

LEMMA CallerOrder ==
  ASSUME Inv, OrderOK,
         \/ Begin \/ StartHeartbeat \/ Connected \/ Refused \/ UserClose
         \/ \E m \in Events : UserSend(m)
  PROVE  OrderOK' /\ Moved
  <1>1. CASE Begin
    BY <1>1, PlainTask, SendOrder DEF Begin
  <1>2. CASE Connected
    BY <1>2 DEF Connected, OrderOK, Moved
  <1>3. CASE Refused
    BY <1>3, PlainTask, PostOrder DEF Refused
  <1>4. CASE UserClose
    BY <1>4, PlainTask, PostOrder DEF UserClose
  <1>5. ASSUME NEW m \in Events, UserSend(m) PROVE OrderOK' /\ Moved
    <2>1. m \in Payload
      BY DEF Payload
    <2>2. QED
      BY <1>5, <2>1, SendOrder DEF UserSend
  <1>6. CASE StartHeartbeat
    BY <1>6 DEF StartHeartbeat, OrderOK, Moved
  <1>7. QED
    BY <1>1, <1>2, <1>3, <1>4, <1>5, <1>6

\* The kernel and the clock.
LEMMA EndsOrder ==
  ASSUME Inv, OrderOK, WriteEnds \/ BeatFires \/ DrainEnds
  PROVE  OrderOK' /\ Moved
  <1>1. CASE WriteEnds
    <2>1. writes # <<>> /\ Len(writes) = 1 /\ Len(writes') = 0 /\ None(strand, {"written"})
      <3>1. writes # <<>> /\ writes' = Tail(writes) /\ None(strand, {"written"})
        BY <1>1, OrderTypes DEF WriteEnds
      <3>2. Len(writes) <= 1 /\ writes \in Seq({"live", "dead"})
        BY OrderTypes DEF Inv, WriteOK, OneWrite
      <3>3. Len(writes) \in Nat \ {0} /\ Len(Tail(writes)) = Len(writes) - 1
        <4> DEFINE Ends == {"live", "dead"}
        <4>1. writes \in Seq(Ends) /\ writes # <<>>
          BY <3>1, <3>2
        <4> HIDE DEF Ends
        <4>2. Len(writes) \in Nat \ {0}
          BY <4>1
        <4>3. Len(Tail(writes)) = Len(writes) - 1
          BY <4>1
        <4>4. QED
          BY <4>2, <4>3
      <3>4. Len(writes) = 1
        BY <3>2, <3>3
      <3>5. QED
        BY <3>1, <3>3, <3>4
    <2>2. ~WroteLive(writes')
      BY <2>1 DEF WroteLive
    <2>3. CASE strand' = Append(strand, Plain("unwritten"))
      BY <1>1, <2>2, <2>3, PlainTask, PostOrder DEF WriteEnds
    <2>4. CASE Head(writes) = "live" /\ strand' = Append(strand, Plain("written"))
      <3>1. WroteLive(writes)
        <4>1. Head(writes) = writes[1] /\ 1 \in 1..Len(writes)
          BY <2>1
        <4>2. QED
          BY <2>4, <4>1 DEF WroteLive
      <3>2. Plain("written") \in Task /\ Plain("written").op = "written"
        BY PlainTask
      <3>3. Ordered(asked, wrote, queue, Append(strand, Plain("written")), open, writes')
        BY <2>1, <3>1, <3>2, OrderTypes, OrderedWritten DEF OrderOK
      <3>4. QED
        BY <1>1, <2>4, <3>3 DEF WriteEnds, OrderOK, Moved
    <2>5. QED
      BY <1>1, <2>3, <2>4 DEF WriteEnds
  <1>2. CASE BeatFires
    BY <1>2, PlainTask, PostOrder DEF BeatFires
  <1>3. CASE DrainEnds
    <2>1. PICK k \in {"drained", "ended"} : strand' = Append(strand, Plain(k))
      BY <1>3 DEF DrainEnds
    <2>2. QED
      BY <1>3, <2>1, PlainTask, PostOrder DEF DrainEnds
  <1>4. QED
    BY <1>1, <1>2, <1>3

\* The tasks of the strand.
LEMMA RunSendOrder ==
  ASSUME Inv, OrderOK, strand # <<>>, Head(strand).op = "send",
         RunSend(Head(strand).msg, Tail(strand))
  PROVE  OrderOK' /\ Moved
  <1> DEFINE m == Head(strand).msg
  <1>1. m \in Payload
    BY OrderTypes, TakeTask DEF Task
  <1>2. CASE Len(queue) > Limit
    <2>1. Len(queue) >= 2
      BY <1>2, OrderTypes, SseAssumption
    <2>2. Ordered(asked, wrote, queue, Append(Tail(strand), Plain("close")), open, writes)
      BY <2>1, OrderTypes, OrderedDrop DEF OrderOK
    <2>3. QED
      BY <1>2, <2>2 DEF RunSend, OrderOK, Moved
  <1>3. CASE ~(Len(queue) > Limit)
    <2>1. /\ strand' = Tail(strand) /\ queue' = Append(queue, m)
          /\ UNCHANGED <<open, asked, wrote>>
      BY <1>3 DEF RunSend
    <2>2. WroteLive(writes') => WroteLive(writes) \/ (queue = <<>> /\ open = TRUE)
      <3>1. CASE queue # <<>>
        BY <1>3, <3>1 DEF RunSend
      <3>2. CASE queue = <<>>
        <4>1. open \in BOOLEAN /\ writes = <<>>
          BY <3>2 DEF Inv, TypeOK, WriteOK
        <4>2. open # TRUE => writes' = writes \/ writes' = Append(writes, "dead")
          BY <1>3, <3>2, <4>1 DEF RunSend, DoWrite
        <4>3. ~WroteLive(writes) /\ ~WroteLive(Append(writes, "dead"))
          BY <4>1 DEF WroteLive
        <4>4. QED
          BY <3>2, <4>2, <4>3
      <3>3. QED
        BY <3>1, <3>2
    <2>3. Ordered(asked, wrote, Append(queue, m), Tail(strand), open, writes')
      BY <1>1, <2>2, OrderTypes, OrderedPush DEF OrderOK
    <2>4. QED
      BY <2>1, <2>3 DEF OrderOK, Moved
  <1>4. QED
    BY <1>2, <1>3

\* Tasks that take nothing from the queue.
LEMMA TakeOrder ==
  ASSUME Inv, OrderOK, strand # <<>>,
         \/ Head(strand).op = "close" /\ RunClose(Tail(strand))
         \/ Head(strand).op = "unwritten" /\ RunUnwritten(Tail(strand))
         \/ Head(strand).op = "drained" /\ RunDrained(Tail(strand))
         \/ Head(strand).op = "ended" /\ RunEnded(Tail(strand))
  PROVE  OrderOK' /\ Moved
  <1>1. /\ strand' = Tail(strand) /\ UNCHANGED <<asked, wrote, queue, writes>>
        /\ open' = TRUE => open = TRUE /\ Head(strand).op # "close"
        /\ Head(strand).op # "send"
    BY DEF RunClose, RunUnwritten, RunDrained, RunEnded
  <1>2. Ordered(asked, wrote, queue, strand, open', writes)
    BY <1>1, OrderedClose DEF OrderOK
  <1>3. Ordered(asked, wrote, queue, Tail(strand), open', writes)
    BY <1>1, <1>2, OrderTypes, OrderedTake
  <1>4. QED
    BY <1>1, <1>3 DEF OrderOK, Moved

LEMMA RunWrittenOrder ==
  ASSUME Inv, OrderOK, strand # <<>>, Head(strand).op = "written", RunWritten(Tail(strand))
  PROVE  OrderOK' /\ Moved
  <1>1. "written" \in WriteTasks /\ {"written"} \subseteq WriteTasks
    BY DEF WriteTasks
  <1>2. ~None(strand, WriteTasks) /\ None(Tail(strand), WriteTasks)
    BY <1>1, TakeOne
  <1>3. None(Tail(strand), {"written"})
    BY <1>1, <1>2 DEF None, TasksOf
  <1>4. writes = <<>> /\ queue # <<>>
    BY <1>2 DEF Inv, WriteOK, OneWrite
  <1>5. WroteLive(writes') => open = TRUE
    <2>1. open # TRUE => writes' = writes \/ writes' = Append(writes, "dead")
      BY DEF RunWritten, DoWrite, Inv, TypeOK
    <2>2. ~WroteLive(writes) /\ ~WroteLive(Append(writes, "dead"))
      BY <1>4 DEF WroteLive
    <2>3. QED
      BY <2>1, <2>2
  <1>6. /\ Len(wrote) < Len(asked) /\ Head(queue) = asked[Len(wrote) + 1]
        /\ Ordered(asked, Append(wrote, Head(queue)), Tail(queue), Tail(strand), open, writes')
    BY <1>3, <1>4, <1>5, OrderTypes, OrderedPop DEF OrderOK
  <1>7. Channel!Deliver
    BY <1>6 DEF RunWritten, Channel!Deliver
  <1>8. QED
    BY <1>6, <1>7 DEF RunWritten, OrderOK, Moved

LEMMA RunBeatOrder ==
  ASSUME Inv, OrderOK, strand # <<>>, Head(strand).op = "beat", RunBeat(Tail(strand))
  PROVE  OrderOK' /\ Moved
  <1>1. Ordered(asked, wrote, queue, Tail(strand), open, writes)
    BY OrderTypes, OrderedTake DEF OrderOK
  <1>2. CASE open
    <2>1. Ordered(Append(asked, Heartbeat), wrote, queue,
                  Append(Tail(strand), Send(Heartbeat)), open, writes)
      BY <1>1, OrderTypes, TakeTask, PlainTask, OrderedSend
    <2>2. asked' = Append(asked, Heartbeat) /\ UNCHANGED wrote
      BY <1>2 DEF RunBeat
    <2>3. Channel!Ask
      BY <2>2, PlainTask DEF Channel!Ask
    <2>4. QED
      BY <1>2, <2>1, <2>3 DEF RunBeat, OrderOK, Moved
  <1>3. CASE ~open
    BY <1>1, <1>3 DEF RunBeat, OrderOK, Moved
  <1>4. QED
    BY <1>2, <1>3

LEMMA OrderNext == Inv /\ OrderOK /\ [Next]_vars => OrderOK' /\ Moved
  <1> SUFFICES ASSUME Inv, OrderOK, [Next]_vars PROVE OrderOK' /\ Moved
    OBVIOUS
  <1>1. CASE RunStrand
    BY <1>1, RunSendOrder, TakeOrder, RunWrittenOrder, RunBeatOrder DEF RunStrand
  <1>2. CASE UNCHANGED vars
    BY <1>2 DEF vars, OrderOK, Moved
  <1>3. CASE \/ Begin \/ StartHeartbeat \/ Connected \/ Refused \/ UserClose
             \/ \E m \in Events : UserSend(m)
    BY <1>3, CallerOrder
  <1>4. CASE WriteEnds \/ BeatFires \/ DrainEnds
    BY <1>4, EndsOrder
  <1>5. QED
    BY <1>1, <1>2, <1>3, <1>4 DEF Next

\* What is written to the client is a prefix of what was sent, header first,
\* whatever backpressure, a close or a failed write does to the rest: the stream
\* implements the abstract channel.
THEOREM ChannelKept == Spec => ImplementsChannel
  <1>1. Init => OrderOK /\ Channel!ChannelInit
    BY AccountedNone DEF Init, OrderOK, Ordered, Channel!ChannelInit
  <1>2. Moved => [Channel!Ask \/ Channel!Deliver]_(Channel!channel)
    BY DEF Moved, Channel!channel
  <1>3. QED
    BY <1>1, <1>2, OrderNext, Invariance, PTL DEF Spec, ImplementsChannel, Channel!ChannelSpec
=============================================================================
