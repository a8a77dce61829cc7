-------------------------- MODULE WebSocketProofs --------------------------
(***************************************************************************)
(* Theorems about WebSocket, for all messages and any number of them and   *)
(* of reconnections.  They assume that handlers do not overlap *)
(* (OneHandler): on the client a strand sees to that, on the server only   *)
(* an io_context with a single thread.                                     *)
(***************************************************************************)
EXTENDS WebSocket, DataProofs

OneHandler == Roles = {"client"} \/ \A t, u \in Threads : t = u

\* At most one thread is in a handler.
HandlerOK == \A t, u \in Threads : work[t] # "idle" /\ work[u] # "idle" => t = u

\* The front of the queue, and nothing else, is being written, unless a handler
\* is about to decide what is written next.
QueueOK ==
    /\ OneWrite
    /\ Writing => queue # <<>>
    /\ \A t \in Threads : work[t] = "popped" => ~Writing
    /\ \A t \in Threads :
          work[t] = "pushed" => queue # <<>> /\ (Writing => Len(queue) > 1)

\* The chain of attempts and reads begins with run().
ChainOK ==
    /\ OneChain
    /\ conn = "new" => Links = 0

Inv == TypeOK /\ role \in Roles /\ HandlerOK /\ QueueOK /\ ChainOK

----------------------------------------------------------------------------
(* What posting and taking a task does to the tasks of each kind.          *)

LEMMA Kinds ==
  /\ \A op \in WriteTasks \cup ChainTasks : Plain(op) \in Task /\ Plain(op).op = op
  /\ \A m \in Messages : Write(m) \in Task /\ Write(m).op = "write"
  /\ \A t \in Task : t.op = "write" => t.msg \in Messages
  /\ \A t \in Task : t.op \in Op
  /\ \A op \in WriteTasks : op \notin ChainTasks /\ op # "write"
  /\ "write" \notin WriteTasks /\ "write" \notin ChainTasks
  BY DEF Plain, Write, Task, Op, WriteTasks, ChainTasks

\* The summands of Links: steps towards an open stream and posted handlers.
Steps(a) == a["resolve"] + a["connect"] + a["handshake"]
Posted(s) == Cardinality(TasksOf(s, ChainTasks))

LEMMA StepsType == \A a \in [Step -> Nat] : Steps(a) \in Nat
  BY DEF Steps, Step

LEMMA LinksSum ==
  ASSUME TypeOK
  PROVE  /\ Links = Steps(attempts) + reads + Posted(tasks)
         /\ Steps(attempts) \in Nat /\ reads \in Nat /\ Posted(tasks) \in Nat
         /\ hasty \in Nat
  <1>1. Links = Steps(attempts) + reads + Posted(tasks)
    BY DEF Links, Steps, Posted
  <1>2. Steps(attempts) \in Nat /\ reads \in Nat /\ hasty \in Nat
    BY DEF TypeOK, Step, Steps
  <1>3. Posted(tasks) \in Nat
    BY Counting DEF TypeOK, Posted
  <1>4. QED
    BY <1>1, <1>2, <1>3

LEMMA StepsChange ==
  ASSUME NEW a \in [Step -> Nat], NEW step \in Step, NEW v \in Nat,
         NEW b, b = [a EXCEPT ![step] = v]
  PROVE  /\ b \in [Step -> Nat]
         /\ Steps(b) = Steps(a) + (v - a[step])
  <1>1. b \in [Step -> Nat]
    OBVIOUS
  <1>2. \A x \in Step : b[x] = IF x = step THEN v ELSE a[x]
    OBVIOUS
  <1>3. /\ b["resolve"] = IF step = "resolve" THEN v ELSE a["resolve"]
        /\ b["connect"] = IF step = "connect" THEN v ELSE a["connect"]
        /\ b["handshake"] = IF step = "handshake" THEN v ELSE a["handshake"]
    BY <1>2 DEF Step
  <1>4. a["resolve"] \in Nat /\ a["connect"] \in Nat /\ a["handshake"] \in Nat
    BY DEF Step
  <1>5. step = "resolve" \/ step = "connect" \/ step = "handshake"
    BY DEF Step
  <1>6. Steps(b) = Steps(a) + (v - a[step])
    BY <1>3, <1>4, <1>5 DEF Steps
  <1>7. QED
    BY <1>1, <1>6

LEMMA StepsBegun ==
  ASSUME TypeOK, NEW step \in Step, Begun(step)
  PROVE  attempts' \in [Step -> Nat] /\ Steps(attempts') = Steps(attempts) + 1
  <1>1. attempts \in [Step -> Nat] /\ attempts[step] \in Nat /\ Steps(attempts) \in Nat
    BY StepsType DEF TypeOK
  <1>2. PICK v \in Nat : v = attempts[step] + 1
    BY <1>1
  <1>3. attempts' = [attempts EXCEPT ![step] = v]
    BY <1>2 DEF Begun
  <1>4. attempts' \in [Step -> Nat] /\ Steps(attempts') = Steps(attempts) + (v - attempts[step])
    BY <1>1, <1>3, StepsChange
  <1>5. QED
    BY <1>1, <1>2, <1>4

LEMMA StepsEnded ==
  ASSUME TypeOK, NEW step \in Step, attempts[step] > 0,
         attempts' = [attempts EXCEPT ![step] = @ - 1]
  PROVE  attempts' \in [Step -> Nat] /\ Steps(attempts') = Steps(attempts) - 1
  <1>1. attempts \in [Step -> Nat] /\ attempts[step] \in Nat /\ Steps(attempts) \in Nat
    BY StepsType DEF TypeOK
  <1>2. PICK v \in Nat : v = attempts[step] - 1
    BY <1>1
  <1>3. attempts' = [attempts EXCEPT ![step] = v]
    BY <1>2
  <1>4. attempts' \in [Step -> Nat] /\ Steps(attempts') = Steps(attempts) + (v - attempts[step])
    BY <1>1, <1>3, StepsChange
  <1>5. QED
    BY <1>1, <1>2, <1>4

LEMMA PostWritten ==
  ASSUME NEW s \in Seq(Task), NEW op \in WriteTasks
  PROVE  /\ Append(s, Plain(op)) \in Seq(Task)
         /\ ~None(Append(s, Plain(op)), WriteTasks)
         /\ None(s, WriteTasks) => Unique(Append(s, Plain(op)), WriteTasks)
         /\ Posted(Append(s, Plain(op))) = Posted(s)
  <1>1. Plain(op) \in Task /\ Plain(op).op \in WriteTasks /\ Plain(op).op \notin ChainTasks
    BY Kinds
  <1>2. Posted(Append(s, Plain(op))) = Posted(s)
    BY <1>1, Posting DEF Posted
  <1>3. /\ Append(s, Plain(op)) \in Seq(Task)
        /\ ~None(Append(s, Plain(op)), WriteTasks)
        /\ None(s, WriteTasks) => Unique(Append(s, Plain(op)), WriteTasks)
    BY <1>1, Posting
  <1>4. QED
    BY <1>2, <1>3

LEMMA PostLink ==
  ASSUME NEW s \in Seq(Task), NEW op \in ChainTasks
  PROVE  /\ Append(s, Plain(op)) \in Seq(Task)
         /\ Posted(Append(s, Plain(op))) = Posted(s) + 1
         /\ None(Append(s, Plain(op)), WriteTasks) <=> None(s, WriteTasks)
         /\ Unique(Append(s, Plain(op)), WriteTasks) <=> Unique(s, WriteTasks)
  <1>1. Plain(op) \in Task /\ Plain(op).op \in ChainTasks /\ Plain(op).op \notin WriteTasks
    BY Kinds
  <1>2. /\ Append(s, Plain(op)) \in Seq(Task)
        /\ TasksOf(Append(s, Plain(op)), WriteTasks) = TasksOf(s, WriteTasks)
    BY <1>1, Posting
  <1>3. Posted(Append(s, Plain(op))) = Posted(s) + 1
    BY <1>1, Counting DEF Posted
  <1>4. QED
    BY <1>2, <1>3 DEF None, Unique

LEMMA PostSend ==
  ASSUME NEW s \in Seq(Task), NEW m \in Messages
  PROVE  /\ Append(s, Write(m)) \in Seq(Task)
         /\ None(Append(s, Write(m)), WriteTasks) <=> None(s, WriteTasks)
         /\ Unique(Append(s, Write(m)), WriteTasks) <=> Unique(s, WriteTasks)
         /\ Posted(Append(s, Write(m))) = Posted(s)
  <1>1. Write(m) \in Task /\ Write(m).op \notin WriteTasks /\ Write(m).op \notin ChainTasks
    BY Kinds
  <1>2. /\ Append(s, Write(m)) \in Seq(Task)
        /\ TasksOf(Append(s, Write(m)), WriteTasks) = TasksOf(s, WriteTasks)
        /\ TasksOf(Append(s, Write(m)), ChainTasks) = TasksOf(s, ChainTasks)
    BY <1>1, Posting
  <1>3. QED
    BY <1>2 DEF None, Unique, Posted

LEMMA TakeFirst ==
  ASSUME NEW s \in Seq(Task), s # <<>>
  PROVE  /\ Head(s) \in Task /\ Tail(s) \in Seq(Task)
         /\ Unique(s, WriteTasks) => Unique(Tail(s), WriteTasks)
         /\ Unique(s, WriteTasks) /\ Head(s).op \in WriteTasks => None(Tail(s), WriteTasks)
         /\ Head(s).op \notin WriteTasks
               => (None(Tail(s), WriteTasks) <=> None(s, WriteTasks))
         /\ None(s, WriteTasks) => None(Tail(s), WriteTasks)
         /\ Head(s).op \in WriteTasks => ~None(s, WriteTasks)
         /\ Posted(Tail(s)) = IF Head(s).op \in ChainTasks THEN Posted(s) - 1 ELSE Posted(s)
  <1>1. Posted(Tail(s)) = IF Head(s).op \in ChainTasks THEN Posted(s) - 1 ELSE Posted(s)
    BY Counting DEF Posted
  <1>2. QED
    BY <1>1, Taking

\* The summands after a step.
LEMMA LinksNext ==
  ASSUME TypeOK'
  PROVE  /\ Links' = Steps(attempts') + reads' + Posted(tasks')
         /\ Steps(attempts') \in Nat /\ reads' \in Nat /\ Posted(tasks') \in Nat
  <1>1. Links' = Steps(attempts') + reads' + Posted(tasks')
    BY DEF Links, Steps, Posted
  <1>2. Steps(attempts') \in Nat /\ reads' \in Nat
    <2>1. attempts' \in [Step -> Nat] /\ reads' \in Nat
      BY DEF TypeOK
    <2>2. QED
      BY <2>1, StepsType
  <1>3. Posted(tasks') \in Nat
    BY Counting DEF TypeOK, Posted
  <1>4. QED
    BY <1>1, <1>2, <1>3

\* A step that adds no link to those outstanding.
LEMMA ChainKept ==
  ASSUME TypeOK, TypeOK', ChainOK, Links' <= Links, UNCHANGED hasty,
         conn' = "new" => conn = "new"
  PROVE  ChainOK'
  <1>1. Links \in Nat /\ Links' \in Nat /\ hasty \in Nat
    <2>1. Links \in Nat /\ hasty \in Nat
      BY LinksSum
    <2>2. Links' \in Nat
      BY LinksNext
    <2>3. QED
      BY <2>1, <2>2
  <1>2. PICK k \in Nat, l \in Nat : k = Links /\ l = Links'
    BY <1>1
  <1>3. l <= k
    BY <1>2
  <1>4. conn' = "new" => l = 0
    BY <1>2, <1>3 DEF ChainOK
  <1>5. l <= 1 + hasty
    BY <1>1, <1>2, <1>3 DEF ChainOK, OneChain
  <1>6. QED
    BY <1>2, <1>4, <1>5 DEF ChainOK, OneChain

----------------------------------------------------------------------------
LEMMA InitInv == Init => Inv
  <1> SUFFICES ASSUME Init PROVE Inv
    OBVIOUS
  <1> USE DEF Init
  <1>1. \A kinds : None(tasks, kinds) /\ Unique(tasks, kinds)
    BY DEF None, Unique, TasksOf
  <1>2. TypeOK
    <2>1. role \in {"server", "client"} /\ work \in [Threads -> {"idle", "pushed", "popped"}]
      BY WebSocketAssumption
    <2>2. tasks \in Seq(Task) /\ attempts \in [Step -> Nat] /\ queue \in Seq(Messages)
      OBVIOUS
    <2>3. QED
      BY <2>1, <2>2 DEF TypeOK
  <1>3. HandlerOK /\ QueueOK
    BY <1>1 DEF HandlerOK, QueueOK, OneWrite, Writing
  <1>4. Links = 0
    <2>1. Steps(attempts) = 0 /\ reads = 0
      <3>1. \A step \in Step : attempts[step] = 0
        OBVIOUS
      <3>2. attempts["resolve"] = 0 /\ attempts["connect"] = 0 /\ attempts["handshake"] = 0
        BY <3>1 DEF Step
      <3>3. QED
        BY <3>2 DEF Steps
    <2>2. Posted(tasks) = 0
      BY <1>1, FS_EmptySet DEF None, Posted
    <2> HIDE DEF Init
    <2>3. QED
      BY <1>2, <2>1, <2>2, LinksSum
  <1>5. ChainOK
    BY <1>4 DEF ChainOK, OneChain
  <1>6. QED
    BY <1>2, <1>3, <1>5 DEF Inv

\* run(), another ws_connect() and the destructor.
LEMMA BeginInv == ASSUME Inv, Run \/ Retry \/ Release PROVE Inv'
  <1>0. TypeOK /\ attempts \in [Step -> Nat]
    BY DEF Inv, TypeOK
  <1>1. CASE Run
    <2>1. PICK step \in Step : Begun(step)
      BY <1>1 DEF Run, Step
    <2>2. /\ attempts' \in [Step -> Nat] /\ Steps(attempts') = Steps(attempts) + 1
          /\ UNCHANGED <<role, queue, writes, reads, tasks, work, hasty>>
          /\ conn = "new" /\ conn' \in {"closed", "shaking"}
      BY <1>0, <1>1, <2>1, StepsBegun DEF Run, User
    <2>3. TypeOK' /\ HandlerOK'
      BY <1>1, <2>2 DEF Run, Inv, TypeOK, HandlerOK, User, History, Calls
    <2>4. QueueOK'
      BY <2>2 DEF Inv, QueueOK, OneWrite, Writing
    <2>5. Links' = Links + 1 /\ Links = 0
      BY <1>0, <2>2, <2>3, LinksSum, LinksNext DEF Inv, ChainOK
    <2>6. ChainOK'
      BY <1>0, <2>2, <2>5, LinksSum DEF ChainOK, OneChain
    <2>7. QED
      BY <2>2, <2>3, <2>4, <2>6 DEF Inv
  <1>2. CASE Retry
    <2>1. /\ attempts' \in [Step -> Nat] /\ Steps(attempts') = Steps(attempts) + 1
          /\ UNCHANGED <<role, conn, queue, writes, reads, tasks, work>>
          /\ conn # "new"
      BY <1>0, <1>2, StepsBegun DEF Retry, Step
    <2>2. hasty' \in Nat /\ hasty' = IF Links = 0 THEN hasty ELSE hasty + 1
      BY <1>0, <1>2 DEF Retry, TypeOK
    <2>3. TypeOK' /\ HandlerOK'
      BY <1>2, <2>1, <2>2 DEF Retry, Inv, TypeOK, HandlerOK, History, Calls
    <2>4. QueueOK'
      BY <2>1 DEF Inv, QueueOK, OneWrite, Writing
    <2>5. Links' = Links + 1 /\ Links \in Nat /\ hasty \in Nat
      BY <1>0, <2>1, <2>3, LinksSum, LinksNext
    <2>6. ChainOK'
      BY <2>1, <2>2, <2>5 DEF Inv, ChainOK, OneChain
    <2>7. QED
      BY <2>1, <2>3, <2>4, <2>6 DEF Inv
  <1>3. CASE Release
    <2>0. lost' \in Nat
      BY <1>3 DEF Release, Inv, TypeOK
    <2>1. TypeOK' /\ HandlerOK'
      BY <1>3, <2>0 DEF Release, Inv, TypeOK, HandlerOK, User
    <2>2. QueueOK'
      BY <1>3 DEF Release, Inv, QueueOK, OneWrite, Writing
    <2>3. UNCHANGED <<attempts, reads, tasks, hasty>> /\ conn' # "new"
      BY <1>3 DEF Release, User
    <2>4. ChainOK'
      BY <2>3 DEF Inv, ChainOK, OneChain, Links
    <2>5. QED
      BY <1>3, <2>1, <2>2, <2>4 DEF Inv, Release
  <1>4. QED
    BY <1>1, <1>2, <1>3

LEMMA SendInv == ASSUME Inv, NEW m \in Messages, Send(m) PROVE Inv'
  <1>1. /\ tasks' \in Seq(Task) /\ Posted(tasks') = Posted(tasks)
        /\ None(tasks', WriteTasks) <=> None(tasks, WriteTasks)
        /\ Unique(tasks', WriteTasks) <=> Unique(tasks, WriteTasks)
    BY PostSend DEF Send, Inv, TypeOK
  <1>2. TypeOK' /\ HandlerOK'
    BY <1>1 DEF Send, Inv, TypeOK, HandlerOK, User, Calls
  <1>3. QueueOK'
    BY <1>1 DEF Send, Inv, QueueOK, OneWrite, Writing
  <1>4. UNCHANGED <<role, attempts, reads, conn, hasty>>
    BY DEF Send, User
  <1>5. ChainOK'
    BY <1>1, <1>4 DEF Inv, ChainOK, OneChain, Links, Posted
  <1>6. QED
    BY <1>2, <1>3, <1>4, <1>5 DEF Inv

----------------------------------------------------------------------------
(* The ends of operations: the completion handler takes its place.         *)

LEMMA AttemptEndsInv == ASSUME Inv, AttemptEnds PROVE Inv'
  <1>0. TypeOK /\ attempts \in [Step -> Nat] /\ tasks \in Seq(Task)
    BY DEF Inv, TypeOK
  <1>1. PICK op \in ChainTasks :
           tasks' = Append(tasks, Plain(op)) /\ conn' \in {conn, "open", "closed"}
                    /\ (conn' = "new" => conn = "new")
    BY DEF AttemptEnds, ChainTasks, Done
  <1>2. /\ tasks' \in Seq(Task)
        /\ Posted(tasks') = Posted(tasks) + 1
        /\ None(tasks', WriteTasks) <=> None(tasks, WriteTasks)
        /\ Unique(tasks', WriteTasks) <=> Unique(tasks, WriteTasks)
    BY <1>0, <1>1, PostLink
  <1>3. attempts' \in [Step -> Nat] /\ Steps(attempts') = Steps(attempts) - 1
    <2>1. PICK step \in Step :
             attempts[step] > 0 /\ attempts' = [attempts EXCEPT ![step] = @ - 1]
      BY DEF AttemptEnds
    <2>2. QED
      BY <1>0, <2>1, StepsEnded
  <1>4. TypeOK' /\ HandlerOK'
    BY <1>1, <1>2, <1>3 DEF AttemptEnds, Inv, TypeOK, HandlerOK, User, History, Calls
  <1>5. QueueOK'
    BY <1>2 DEF AttemptEnds, Inv, QueueOK, OneWrite, Writing
  <1>6. Links' <= Links /\ UNCHANGED <<role, hasty>>
    <2>1. UNCHANGED <<role, reads, hasty>>
      BY DEF AttemptEnds, User
    <2>2. QED
      BY <1>0, <1>2, <1>3, <1>4, <2>1, LinksSum, LinksNext
  <1>7. ChainOK'
    BY <1>0, <1>1, <1>4, <1>6, ChainKept DEF Inv
  <1>8. QED
    BY <1>4, <1>5, <1>6, <1>7 DEF Inv

LEMMA WriteEndsInv == ASSUME Inv, WriteEnds PROVE Inv'
  <1>1. PICK op \in WriteTasks :
           tasks' = Append(tasks, Plain(op)) /\ conn' \in {conn, "closed"}
    BY DEF WriteEnds, WriteTasks
  <1>2. /\ tasks' \in Seq(Task)
        /\ ~None(tasks', WriteTasks)
        /\ None(tasks, WriteTasks) => Unique(tasks', WriteTasks)
        /\ Posted(tasks') = Posted(tasks)
    BY <1>1, PostWritten DEF Inv, TypeOK
  <1>3. writes = 1 /\ writes' = 0 /\ None(tasks, WriteTasks)
    BY DEF WriteEnds, Inv, TypeOK, QueueOK, OneWrite
  <1>4. TypeOK' /\ HandlerOK'
    BY <1>1, <1>2, <1>3 DEF WriteEnds, Inv, TypeOK, HandlerOK, User, History, Calls
  <1>5. QueueOK'
    BY <1>2, <1>3 DEF WriteEnds, Inv, QueueOK, OneWrite, Writing
  <1>6. UNCHANGED <<role, attempts, reads, hasty>>
    BY DEF WriteEnds, User
  <1>7. ChainOK'
    BY <1>1, <1>2, <1>6 DEF Inv, ChainOK, OneChain, Links, Posted
  <1>8. QED
    BY <1>4, <1>5, <1>6, <1>7 DEF Inv

LEMMA ReadEndsInv == ASSUME Inv, ReadEnds PROVE Inv'
  <1>0. TypeOK
    BY DEF Inv
  <1>1. PICK op \in ChainTasks :
           tasks' = Append(tasks, Plain(op)) /\ conn' \in {conn, "closed"}
    BY DEF ReadEnds, ChainTasks
  <1>2. /\ tasks' \in Seq(Task)
        /\ Posted(tasks') = Posted(tasks) + 1
        /\ None(tasks', WriteTasks) <=> None(tasks, WriteTasks)
        /\ Unique(tasks', WriteTasks) <=> Unique(tasks, WriteTasks)
    BY <1>1, PostLink DEF Inv, TypeOK
  <1>3. /\ reads \in Nat /\ reads > 0 /\ reads' = reads - 1 /\ got' \in Nat
    BY DEF ReadEnds, Inv, TypeOK
  <1>4. TypeOK' /\ HandlerOK'
    BY <1>1, <1>2, <1>3 DEF ReadEnds, Inv, TypeOK, HandlerOK, History, Calls
  <1>5. QueueOK'
    BY <1>2 DEF ReadEnds, Inv, QueueOK, OneWrite, Writing
  <1>6. Links' <= Links /\ UNCHANGED <<role, hasty>>
    <2>1. UNCHANGED <<role, attempts, hasty>>
      BY DEF ReadEnds
    <2>2. QED
      BY <1>0, <1>2, <1>3, <1>4, <2>1, LinksSum, LinksNext
  <1>7. ChainOK'
    BY <1>0, <1>1, <1>4, <1>6, ChainKept DEF Inv
  <1>8. QED
    BY <1>4, <1>5, <1>6, <1>7 DEF Inv

----------------------------------------------------------------------------
(* Handlers.                                                               *)

\* A handler of the chain may start the next link and leaves the queue alone.
LEMMA LinkInv ==
  ASSUME Inv, tasks # <<>>, Head(tasks).op \in ChainTasks, tasks' = Tail(tasks),
         UNCHANGED <<queue, writes, work, hasty>>,
         \/ attempts' = attempts /\ reads' \in {reads, reads + 1}
         \/ (\E step \in Step : Begun(step)) /\ reads' = reads
  PROVE  /\ tasks' \in Seq(Task) /\ attempts' \in [Step -> Nat] /\ reads' \in Nat
         /\ HandlerOK' /\ QueueOK' /\ Links' <= Links /\ conn # "new"
  <1>0. TypeOK /\ attempts \in [Step -> Nat] /\ tasks \in Seq(Task) /\ reads \in Nat
    BY DEF Inv, TypeOK
  <1>1. /\ tasks' \in Seq(Task)
        /\ Posted(tasks') = Posted(tasks) - 1
        /\ None(tasks', WriteTasks) <=> None(tasks, WriteTasks)
        /\ Unique(tasks, WriteTasks) => Unique(tasks', WriteTasks)
    BY <1>0, TakeFirst, Kinds
  <1>2. Posted(tasks) # 0
    <2>1. ~None(tasks, ChainTasks)
      BY <1>0, Taking
    <2>2. QED
      BY <1>0, <2>1, Counting DEF Posted
  <1>3. Links # 0
    BY <1>0, <1>2, LinksSum
  <1>4. /\ attempts' \in [Step -> Nat] /\ reads' \in Nat
        /\ Steps(attempts') + reads' <= Steps(attempts) + reads + 1
        /\ Steps(attempts') \in Nat
    <2>1. CASE attempts' = attempts /\ reads' \in {reads, reads + 1}
      BY <1>0, <2>1, LinksSum
    <2>2. ASSUME NEW step \in Step, Begun(step), reads' = reads
          PROVE  /\ attempts' \in [Step -> Nat] /\ reads' \in Nat
                 /\ Steps(attempts') + reads' <= Steps(attempts) + reads + 1
                 /\ Steps(attempts') \in Nat
      <3>1. attempts' \in [Step -> Nat] /\ Steps(attempts') = Steps(attempts) + 1
        BY <1>0, <2>2, StepsBegun
      <3>2. Steps(attempts) \in Nat
        BY <1>0, StepsType
      <3>3. QED
        BY <1>0, <2>2, <3>1, <3>2, SMTT(30)
    <2>3. QED
      BY <2>1, <2>2
  <1>5. Links' <= Links
    <2>1. Links' = Steps(attempts') + reads' + Posted(tasks')
      BY DEF Links, Steps, Posted
    <2>2. Posted(tasks') \in Nat
      BY <1>1, Counting DEF Posted
    <2>3. QED
      <3>1. Links = Steps(attempts) + reads + Posted(tasks)
        BY <1>0, LinksSum
      <3>2. Steps(attempts) \in Nat /\ Posted(tasks) \in Nat
        BY <1>0, LinksSum
      <3>3. Steps(attempts') + reads' + Posted(tasks') <= Steps(attempts) + reads + Posted(tasks)
        BY <1>0, <1>1, <1>4, <2>2, <3>2, SMTT(30)
      <3>4. QED
        BY <2>1, <3>1, <3>3
  <1>6. HandlerOK' /\ QueueOK'
    BY <1>1 DEF Inv, HandlerOK, QueueOK, OneWrite, Writing
  <1>7. conn # "new"
    BY <1>3 DEF Inv, ChainOK
  <1>8. QED
    BY <1>1, <1>4, <1>5, <1>6, <1>7

\* fail() and the calls of the user's handlers that it comes to.
LEMMA FailTypes ==
  ASSUME TypeOK, Fail
  PROVE  /\ conn' \in {conn, "closed"} /\ named' \in BOOLEAN
         /\ lost' \in Nat /\ thrown' \in Nat
  <1>1. lost \in Nat /\ thrown \in Nat /\ named \in BOOLEAN
    BY DEF TypeOK
  <1>2. CASE UNCHANGED <<conn, named, lost, thrown>>
    BY <1>1, <1>2
  <1>3. CASE lost' = lost + 1 /\ thrown' = thrown + 1 /\ UNCHANGED <<conn, named>>
    BY <1>1, <1>3
  <1>4. CASE /\ lost' = IF named THEN lost + 1 ELSE lost
             /\ named' = FALSE
             /\ conn' = IF conn = "open" THEN "closed" ELSE conn
             /\ UNCHANGED thrown
    <2>1. lost' \in Nat
      BY <1>1, <1>4
    <2>2. conn' \in {conn, "closed"} /\ named' \in BOOLEAN /\ thrown' \in Nat
      BY <1>1, <1>4
    <2>3. QED
      BY <2>1, <2>2
  <1>5. QED
    BY <1>2, <1>3, <1>4 DEF Fail

LEMMA OpenInv ==
  ASSUME Inv, tasks # <<>>,
         \/ Head(tasks).op = "resolved" /\ Resolved(Tail(tasks))
         \/ Head(tasks).op = "connected" /\ Connected(Tail(tasks))
         \/ Head(tasks).op = "shaken" /\ Shaken(Tail(tasks))
         \/ Head(tasks).op = "received" /\ Received(Tail(tasks))
         \/ Head(tasks).op = "ended" /\ Ended(Tail(tasks))
         \/ Head(tasks).op \in {"refused", "broken"} /\ Failed(Tail(tasks))
  PROVE  Inv'
  <1>1. Head(tasks).op \in ChainTasks /\ tasks' = Tail(tasks)
    BY DEF ChainTasks, Resolved, Connected, Shaken, Received, Ended, Failed
  <1>2. UNCHANGED <<role, queue, writes, work, alive, retries, hasty, got, asked, wrote>>
    BY DEF Resolved, Connected, Shaken, Received, Ended, Failed, User, History
  <1>3. \/ attempts' = attempts /\ reads' \in {reads, reads + 1}
        \/ (\E step \in Step : Begun(step)) /\ reads' = reads
    BY DEF Resolved, Connected, Shaken, Received, Ended, Failed, Step
  <1>4. /\ tasks' \in Seq(Task) /\ attempts' \in [Step -> Nat] /\ reads' \in Nat
        /\ HandlerOK' /\ QueueOK' /\ Links' <= Links /\ conn # "new"
    BY <1>1, <1>2, <1>3, LinkInv
  <1>5. /\ conn' \in {conn, "closed", "shaking"} /\ named' \in BOOLEAN
        /\ linked' \in Nat /\ connects' \in Nat /\ lost' \in Nat /\ thrown' \in Nat
    <2>0. /\ named \in BOOLEAN
          /\ linked \in Nat /\ connects \in Nat /\ lost \in Nat /\ thrown \in Nat
      BY DEF Inv, TypeOK
    <2>1. CASE Failed(Tail(tasks))
      BY <2>0, <2>1, FailTypes DEF Failed, Inv
    <2>2. CASE Shaken(Tail(tasks))
      <3>1. named' \in BOOLEAN
        BY <2>2, Zenon DEF Shaken
      <3>2. QED
        BY <2>0, <2>2, <3>1 DEF Shaken
    <2>3. CASE Connected(Tail(tasks))
      BY <2>0, <2>3 DEF Connected
    <2>4. CASE Resolved(Tail(tasks)) \/ Received(Tail(tasks)) \/ Ended(Tail(tasks))
      BY <2>0, <2>4 DEF Resolved, Received, Ended, History, Calls
    <2>5. QED
      BY <2>1, <2>2, <2>3, <2>4
  <1>6. TypeOK'
    <2>1. conn' \in {"new", "closed", "shaking", "open"}
      BY <1>5 DEF Inv, TypeOK
    <2>2. /\ role \in {"server", "client"} /\ queue \in Seq(Messages) /\ writes \in Nat
          /\ work \in [Threads -> {"idle", "pushed", "popped"}] /\ alive \in BOOLEAN
          /\ retries \in Nat /\ hasty \in Nat /\ got \in Nat
          /\ asked \in Seq(Messages) /\ wrote \in Seq(Messages)
      BY DEF Inv, TypeOK
    <2>3. /\ role' \in {"server", "client"} /\ queue' \in Seq(Messages) /\ writes' \in Nat
          /\ work' \in [Threads -> {"idle", "pushed", "popped"}] /\ alive' \in BOOLEAN
          /\ retries' \in Nat /\ hasty' \in Nat /\ got' \in Nat
          /\ asked' \in Seq(Messages) /\ wrote' \in Seq(Messages)
      BY <1>2, <2>2
    <2>4. QED
      BY <1>4, <1>5, <2>1, <2>3, Zenon DEF TypeOK
  <1>7. ChainOK'
    BY <1>2, <1>4, <1>5, <1>6, ChainKept DEF Inv
  <1>8. QED
    BY <1>2, <1>4, <1>6, <1>7 DEF Inv

\* A failed write leaves its message in front of the queue.
LEMMA UnwrittenInv ==
  ASSUME Inv, tasks # <<>>, Head(tasks).op = "unwritten", Failed(Tail(tasks))
  PROVE  Inv'
  <1>1. Head(tasks).op \in WriteTasks
    BY DEF WriteTasks
  <1>2. /\ tasks' = Tail(tasks) /\ tasks' \in Seq(Task)
        /\ None(tasks', WriteTasks) /\ ~None(tasks, WriteTasks)
        /\ Posted(tasks') = Posted(tasks)
    BY <1>1, TakeFirst, Kinds DEF Failed, Inv, TypeOK, QueueOK, OneWrite
  <1>3. /\ conn' \in {conn, "closed"} /\ named' \in BOOLEAN
        /\ lost' \in Nat /\ thrown' \in Nat
        /\ UNCHANGED <<attempts, reads, hasty>>
    BY FailTypes DEF Failed, Inv, User
  <1>4. TypeOK' /\ HandlerOK'
    BY <1>2, <1>3 DEF Failed, Inv, TypeOK, HandlerOK, User
  <1>5. Unique(tasks', WriteTasks)
    BY <1>2 DEF None, Unique
  <1>6. QueueOK'
    BY <1>2, <1>5 DEF Failed, Inv, QueueOK, OneWrite, Writing
  <1>7. ChainOK'
    BY <1>2, <1>3 DEF Inv, ChainOK, OneChain, Links, Posted
  <1>8. QED
    BY <1>4, <1>6, <1>7 DEF Inv, Failed

\* A thread that enters a handler is the only one that is in one.
LEMMA Alone ==
  ASSUME OneHandler, Inv, NEW t \in Threads, Take(t)
  PROVE  \A u \in Threads : work[u] = "idle"
  BY DEF OneHandler, Inv, TypeOK, Take

LEMMA PushInv ==
  ASSUME Inv, NEW t \in Threads, \A u \in Threads : work[u] = "idle",
         tasks # <<>>, Head(tasks).op = "write", Push(t, Head(tasks).msg, Tail(tasks))
  PROVE  Inv'
  <1>1. /\ tasks' \in Seq(Task) /\ Head(tasks).msg \in Messages
        /\ None(tasks', WriteTasks) <=> None(tasks, WriteTasks)
        /\ Unique(tasks, WriteTasks) => Unique(tasks', WriteTasks)
        /\ Posted(tasks') = Posted(tasks)
    BY TakeFirst, Kinds DEF Push, Inv, TypeOK
  <1>2. /\ queue' \in Seq(Messages) /\ queue' # <<>>
        /\ queue # <<>> => Len(queue') > 1
    BY <1>1 DEF Push, Inv, TypeOK
  <1>3. work' = [u \in Threads |-> IF u = t THEN "pushed" ELSE "idle"]
    BY DEF Push, Inv, TypeOK
  <1>4. TypeOK' /\ HandlerOK'
    BY <1>1, <1>2, <1>3 DEF Push, Inv, TypeOK, HandlerOK, User, History, Calls
  <1>5. QueueOK'
    BY <1>1, <1>2, <1>3 DEF Push, Inv, QueueOK, OneWrite, Writing
  <1>6. ChainOK'
    BY <1>1 DEF Push, User, Inv, ChainOK, OneChain, Links, Posted
  <1>7. QED
    BY <1>4, <1>5, <1>6 DEF Inv, Push

LEMMA PopInv ==
  ASSUME Inv, NEW t \in Threads, \A u \in Threads : work[u] = "idle",
         tasks # <<>>, Head(tasks).op = "written", Pop(t, Tail(tasks))
  PROVE  Inv'
  <1>1. Head(tasks).op \in WriteTasks
    BY DEF WriteTasks
  <1>2. /\ tasks' = Tail(tasks) /\ tasks' \in Seq(Task)
        /\ None(tasks', WriteTasks) /\ ~None(tasks, WriteTasks)
        /\ Posted(tasks') = Posted(tasks)
    BY <1>1, TakeFirst, Kinds DEF Pop, Inv, TypeOK, QueueOK, OneWrite
  <1>3. queue \in Seq(Messages) /\ queue # <<>> /\ writes = 0
    BY <1>2 DEF Inv, TypeOK, QueueOK, OneWrite, Writing
  <1>4. queue' \in Seq(Messages) /\ wrote' \in Seq(Messages)
    BY <1>3 DEF Pop, Inv, TypeOK
  <1>5. work' = [u \in Threads |-> IF u = t THEN "popped" ELSE "idle"]
    BY DEF Pop, Inv, TypeOK
  <1>6. TypeOK' /\ HandlerOK'
    BY <1>2, <1>4, <1>5 DEF Pop, Inv, TypeOK, HandlerOK, User, Calls
  <1>7. Unique(tasks', WriteTasks)
    BY <1>2 DEF None, Unique
  <1>8. QueueOK'
    BY <1>2, <1>3, <1>5, <1>7 DEF Pop, QueueOK, OneWrite, Writing
  <1>9. ChainOK'
    BY <1>2 DEF Pop, User, Inv, ChainOK, OneChain, Links, Posted
  <1>10. QED
    BY <1>6, <1>8, <1>9 DEF Inv, Pop

\* The decision starts a write only if none is outstanding.
LEMMA DecideInv == ASSUME Inv, NEW t \in Threads, Decide(t) PROVE Inv'
  <1>1. /\ work' = [u \in Threads |-> IF u = t THEN "idle" ELSE work[u]]
        /\ work[t] # "idle"
        /\ UNCHANGED <<role, conn, attempts, named, queue, reads, alive, retries, hasty,
                       got, linked, connects, lost, thrown, asked, wrote>>
    BY DEF Decide, Inv, TypeOK, User, History, Calls
  <1>2. \A u \in Threads : work'[u] = "idle"
    BY <1>1 DEF Inv, HandlerOK
  <1>3. CASE UNCHANGED <<writes, tasks>>
    <2>1. TypeOK' /\ HandlerOK'
      BY <1>1, <1>2, <1>3 DEF Inv, TypeOK, HandlerOK
    <2>2. QueueOK' /\ ChainOK'
      BY <1>1, <1>2, <1>3 DEF Inv, QueueOK, OneWrite, Writing, ChainOK, OneChain, Links
    <2>3. QED
      BY <1>1, <2>1, <2>2 DEF Inv
  <1>4. CASE ~UNCHANGED <<writes, tasks>>
    <2>1. StartWrite /\ queue # <<>> /\ ~Writing
      <3>1. queue \in Seq(Messages) /\ work[t] \in {"pushed", "popped"}
        BY <1>1 DEF Inv, TypeOK
      <3>2. /\ StartWrite
            /\ \/ work[t] = "pushed" /\ Len(queue) <= 1
               \/ work[t] = "popped" /\ queue # <<>>
        BY <1>4 DEF Decide
      <3>3. QED
        BY <3>1, <3>2 DEF Inv, QueueOK
    <2>2. CASE writes' = writes + 1 /\ UNCHANGED tasks
      <3>1. writes = 0 /\ writes' = 1 /\ None(tasks, WriteTasks)
        BY <2>1, <2>2 DEF Writing, Inv, TypeOK
      <3>2. TypeOK' /\ HandlerOK'
        BY <1>1, <1>2, <2>2, <3>1 DEF Inv, TypeOK, HandlerOK
      <3>3. QueueOK' /\ ChainOK'
        BY <1>1, <1>2, <2>1, <2>2, <3>1
           DEF Inv, QueueOK, OneWrite, Writing, ChainOK, OneChain, Links
      <3>4. QED
        BY <1>1, <3>2, <3>3 DEF Inv
    <2>3. CASE tasks' = Append(tasks, Plain("unwritten")) /\ UNCHANGED writes
      <3>1. writes = 0 /\ None(tasks, WriteTasks)
        BY <2>1 DEF Writing, Inv, TypeOK
      <3>2. /\ tasks' \in Seq(Task)
            /\ Unique(tasks', WriteTasks)
            /\ Posted(tasks') = Posted(tasks)
        BY <2>3, <3>1, PostWritten DEF Inv, TypeOK, WriteTasks
      <3>3. TypeOK' /\ HandlerOK'
        BY <1>1, <1>2, <2>3, <3>2 DEF Inv, TypeOK, HandlerOK
      <3>4. QueueOK' /\ ChainOK'
        BY <1>1, <1>2, <2>1, <2>3, <3>1, <3>2
           DEF Inv, QueueOK, OneWrite, Writing, ChainOK, OneChain, Links, Posted
      <3>5. QED
        BY <1>1, <3>3, <3>4 DEF Inv
    <2>4. QED
      BY <2>1, <2>2, <2>3 DEF StartWrite
  <1>5. QED
    BY <1>3, <1>4

LEMMA TakeInv == ASSUME OneHandler, Inv, NEW t \in Threads, Take(t) PROVE Inv'
  <1>1. tasks # <<>> /\ \A u \in Threads : work[u] = "idle"
    BY Alone DEF Take
  <1>2. CASE Head(tasks).op = "write" /\ Push(t, Head(tasks).msg, Tail(tasks))
    BY <1>1, <1>2, PushInv
  <1>3. CASE Head(tasks).op = "written" /\ Pop(t, Tail(tasks))
    BY <1>1, <1>3, PopInv
  <1>4. CASE Head(tasks).op = "unwritten" /\ Failed(Tail(tasks))
    BY <1>1, <1>4, UnwrittenInv
  <1>5. CASE \/ Head(tasks).op = "resolved" /\ Resolved(Tail(tasks))
             \/ Head(tasks).op = "connected" /\ Connected(Tail(tasks))
             \/ Head(tasks).op = "shaken" /\ Shaken(Tail(tasks))
             \/ Head(tasks).op = "received" /\ Received(Tail(tasks))
             \/ Head(tasks).op = "ended" /\ Ended(Tail(tasks))
             \/ Head(tasks).op \in {"refused", "broken"} /\ Failed(Tail(tasks))
    BY <1>1, <1>5, OpenInv
  <1>6. QED
    BY <1>2, <1>3, <1>4, <1>5 DEF Take

LEMMA NextInv == ASSUME OneHandler, Inv, [Next]_vars PROVE Inv'
  <1>1. CASE Run \/ Retry \/ Release
    BY <1>1, BeginInv
  <1>2. CASE \E m \in Messages : Send(m)
    BY <1>2, SendInv
  <1>3. CASE AttemptEnds \/ WriteEnds \/ ReadEnds
    BY <1>3, AttemptEndsInv, WriteEndsInv, ReadEndsInv
  <1>4. CASE \E t \in Threads : Take(t) \/ Decide(t)
    BY <1>4, TakeInv, DecideInv
  <1>5. CASE UNCHANGED vars
    BY <1>5 DEF vars, Inv, TypeOK, HandlerOK, QueueOK, OneWrite, Writing, ChainOK, OneChain,
                Links
  <1>6. QED
    BY <1>1, <1>2, <1>3, <1>4, <1>5 DEF Next

----------------------------------------------------------------------------
(* The theorems.                                                           *)

\* The inductive invariant: the queue, the writes and the handlers that wait
\* agree, and so do the steps of the connection.
THEOREM Invariance == ASSUME OneHandler PROVE Spec => []Inv
  <1>1. Inv /\ [Next]_vars => Inv'
    BY NextInv
  <1>2. QED
    BY <1>1, InitInv, PTL DEF Spec

\* Every variable keeps its type; above all a completed write finds its message
\* in the queue.
THEOREM TypeCorrectness == ASSUME OneHandler PROVE Spec => []TypeOK
  <1>1. Inv => TypeOK
    BY DEF Inv
  <1>2. QED
    BY <1>1, Invariance, PTL

\* The length of the queue is enough to keep writes apart.
THEOREM OneWriteAtATime == ASSUME OneHandler PROVE Spec => []OneWrite
  <1>1. Inv => OneWrite
    BY DEF Inv, QueueOK
  <1>2. QED
    BY <1>1, Invariance, PTL

\* Attempts and reads are a chain: there is never more than one link of it, but for
\* one more for each ws_connect() that was called on top of a link.
THEOREM OneLinkAtATime == ASSUME OneHandler PROVE Spec => []OneChain
  <1>1. Inv => OneChain
    BY DEF Inv, ChainOK
  <1>2. QED
    BY <1>1, Invariance, PTL

\* No step gets a queue that is stuck going again.
LEMMA StuckStep ==
  ASSUME OneHandler, Inv, [Next]_vars, Stuck
  PROVE  Stuck' /\ wrote' = wrote
  <1>1. None(tasks, WriteTasks) /\ writes = 0 /\ queue # <<>>
    BY DEF Stuck, Writing, Inv, TypeOK
  <1>2. CASE Run \/ Retry \/ Release
    BY <1>2 DEF Run, Retry, Release, Stuck, Writing, Deciding, History
  <1>3. CASE \E m \in Messages : Send(m)
    BY <1>1, <1>3, PostSend DEF Send, Stuck, Writing, Deciding, Inv, TypeOK
  <1>4. CASE AttemptEnds \/ ReadEnds
    <2>1. PICK op \in ChainTasks : tasks' = Append(tasks, Plain(op))
      BY <1>4 DEF AttemptEnds, ReadEnds, ChainTasks, Done
    <2>2. None(tasks', WriteTasks)
      BY <1>1, <2>1, PostLink DEF Inv, TypeOK
    <2>3. UNCHANGED <<queue, writes, work, wrote>>
      BY <1>4 DEF AttemptEnds, ReadEnds, History
    <2>4. QED
      BY <1>1, <2>2, <2>3 DEF Stuck, Writing, Deciding
  <1>5. CASE WriteEnds
    BY <1>1, <1>5 DEF WriteEnds
  <1>6. ASSUME NEW t \in Threads, Take(t) PROVE Stuck' /\ wrote' = wrote
    <2>1. tasks # <<>> /\ \A u \in Threads : work[u] = "idle"
      BY <1>6, Alone DEF Take
    <2>2. Head(tasks).op \notin WriteTasks /\ None(Tail(tasks), WriteTasks)
      BY <1>1, <2>1, TakeFirst DEF Inv, TypeOK
    <2>3. CASE Head(tasks).op = "write" /\ Push(t, Head(tasks).msg, Tail(tasks))
      <3>1. Head(tasks).msg \in Messages
        BY <2>1, <2>3, TakeFirst, Kinds DEF Inv, TypeOK
      <3>2. Len(queue') > 1 /\ work'[t] = "pushed"
        BY <1>1, <2>3, <3>1 DEF Push, Inv, TypeOK
      <3>3. QED
        BY <1>1, <2>2, <2>3, <3>2 DEF Push, Stuck, Writing, History
    <2>4. CASE Head(tasks).op # "write"
      <3>1. UNCHANGED <<queue, writes, work, wrote>> /\ tasks' = Tail(tasks)
        BY <1>6, <2>2, <2>4 DEF Take, WriteTasks, Resolved, Connected, Shaken, Received,
                                Ended, Failed, History
      <3>2. QED
        BY <1>1, <2>1, <2>2, <3>1 DEF Stuck, Writing, Deciding
    <2>5. QED
      BY <1>6, <2>3, <2>4 DEF Take
  <1>7. ASSUME NEW t \in Threads, Decide(t) PROVE Stuck' /\ wrote' = wrote
    <2>1. (\E u \in Threads : work[u] = "pushed") /\ Len(queue) > 1
      BY <1>7 DEF Stuck, Decide, Deciding
    <2>2. work[t] = "pushed"
      BY <1>7, <2>1 DEF Decide, Inv, HandlerOK
    <2>3. queue \in Seq(Messages)
      BY DEF Inv, TypeOK
    <2>4. UNCHANGED <<writes, tasks, queue, wrote>>
      BY <1>7, <2>1, <2>2, <2>3 DEF Decide, History
    <2>5. \A u \in Threads : work'[u] = "idle"
      BY <1>7 DEF Decide, Inv, TypeOK, HandlerOK
    <2>6. QED
      BY <1>1, <2>4, <2>5 DEF Stuck, Writing, Deciding
  <1>8. CASE UNCHANGED vars
    BY <1>8 DEF vars, Stuck, Writing, Deciding
  <1>9. QED
    BY <1>2, <1>3, <1>4, <1>5, <1>6, <1>7, <1>8 DEF Next

\* A message that is in front of the queue of a failed write is never written,
\* nor is any message sent after it.
THEOREM StuckIsFinal == ASSUME OneHandler PROVE Spec => StuckIsPermanent
  <1>1. Inv /\ [Next]_vars => (Stuck => Stuck' /\ wrote' = wrote)
    BY StuckStep
  <1>2. QED
    BY <1>1, Invariance, PTL DEF Spec, StuckIsPermanent
----------------------------------------------------------------------------
(* on_disconnect of the client.                                            *)

\* A step that makes no connection and reports the end of none.
LEMMA CountKept ==
  ASSUME DisconnectOnce, UNCHANGED <<role, linked, thrown, lost, named>>
  PROVE  DisconnectOnce'
  BY DEF DisconnectOnce

\* Only on_connect() names a connection; only fail() reports the end of one, and
\* it clears the name unless the user's handler throws.
LEMMA CountTake ==
  ASSUME Inv, DisconnectOnce, NEW t \in Threads, Take(t)
  PROVE  DisconnectOnce'
  <1>0. /\ linked \in Nat /\ thrown \in Nat /\ lost \in Nat /\ named \in BOOLEAN
        /\ role \in {"client", "server"}
    BY DEF Inv, TypeOK
  <1>1. UNCHANGED role
    BY DEF Take, Resolved, Connected, Shaken, Received, Ended, Failed, Push, Pop
  <1>2. CASE role = "server"
    BY <1>1, <1>2 DEF DisconnectOnce
  <1>3. CASE role = "client"
    <2>1. lost + (IF named THEN 1 ELSE 0) <= linked + thrown
      BY <1>3 DEF DisconnectOnce
    <2>2. lost <= linked + thrown
      BY <1>0, <2>1
    <2>3. CASE Connected(Tail(tasks))
      <3>1. named' = TRUE /\ linked' = linked + 1 /\ UNCHANGED <<lost, thrown>>
        BY <2>3 DEF Connected
      <3>2. lost + 1 <= (linked + 1) + thrown
        BY <1>0, <2>2
      <3>3. QED
        BY <3>1, <3>2 DEF DisconnectOnce
    <2>4. CASE Failed(Tail(tasks))
      <3>1. UNCHANGED linked /\ Fail
        BY <2>4 DEF Failed
      <3>2. CASE UNCHANGED <<conn, named, lost, thrown>>
        BY <1>1, <3>1, <3>2, CountKept
      <3>3. CASE named /\ lost' = lost + 1 /\ thrown' = thrown + 1 /\ UNCHANGED <<conn, named>>
        <4>1. (lost + 1) + 1 <= linked + (thrown + 1)
          BY <1>0, <2>1, <3>3
        <4>2. QED
          BY <3>1, <3>3, <4>1 DEF DisconnectOnce
      <3>4. CASE lost' = (IF named THEN lost + 1 ELSE lost) /\ named' = FALSE /\ UNCHANGED thrown
        <4>1. lost' <= linked + thrown
          BY <1>0, <2>1, <3>4
        <4>2. lost' \in Nat
          BY <1>0, <3>4
        <4>3. QED
          BY <3>1, <3>4, <4>1, <4>2 DEF DisconnectOnce
      <3>5. QED
        BY <1>3, <3>1, <3>2, <3>3, <3>4 DEF Fail
    <2>5. CASE ~Connected(Tail(tasks)) /\ ~Failed(Tail(tasks))
      <3>1. UNCHANGED <<named, linked, lost, thrown>>
        <4>1. CASE Shaken(Tail(tasks))
          <5>1. named' = named
            BY <1>0, <1>3, <4>1 DEF Shaken
          <5>2. QED
            BY <4>1, <5>1 DEF Shaken
        <4>2. CASE ~Shaken(Tail(tasks))
          BY <2>5, <4>2 DEF Take, Resolved, Received, Ended, Push, Pop, User, History, Calls
        <4>3. QED
          BY <4>1, <4>2
      <3>2. QED
        BY <1>1, <3>1, CountKept
    <2>6. QED
      BY <2>3, <2>4, <2>5
  <1>4. QED
    BY <1>0, <1>2, <1>3

LEMMA CountNext ==
  ASSUME Inv, DisconnectOnce, [Next]_vars
  PROVE  DisconnectOnce'
  <1>1. CASE Run \/ Retry \/ AttemptEnds \/ WriteEnds \/ ReadEnds \/ UNCHANGED vars
    BY <1>1, CountKept DEF Run, Retry, AttemptEnds, WriteEnds, ReadEnds, vars, History, Calls
  <1>2. CASE Release
    BY <1>2 DEF Release, DisconnectOnce
  <1>3. ASSUME NEW m \in Messages, Send(m) PROVE DisconnectOnce'
    BY <1>3, CountKept DEF Send, Calls
  <1>4. ASSUME NEW t \in Threads, Take(t) PROVE DisconnectOnce'
    BY <1>4, CountTake
  <1>5. ASSUME NEW t \in Threads, Decide(t) PROVE DisconnectOnce'
    BY <1>5, CountKept DEF Decide, History, Calls
  <1>6. QED
    BY <1>1, <1>2, <1>3, <1>4, <1>5 DEF Next

\* The user is told at most once that a connection has ended, and once more for
\* each time that on_disconnect threw, for any number of reconnections, hasty ones
\* too, of failed writes and reads and of attempts that come to nothing.
THEOREM DisconnectsOnce == ASSUME OneHandler PROVE Spec => []DisconnectOnce
  <1>1. Init => DisconnectOnce
    BY DEF Init, DisconnectOnce
  <1>2. Inv /\ DisconnectOnce /\ [Next]_vars => DisconnectOnce'
    BY CountNext
  <1>3. QED
    BY <1>1, <1>2, Invariance, PTL DEF Spec

----------------------------------------------------------------------------
(* Every message of send() is written, in the queue, or in a task that     *)
(* will put it there, in the order of the calls.                           *)
OrderOK == Accounted(asked, wrote, queue, tasks, "write", Messages)

Moved == Channel!Ask \/ Channel!Deliver \/ UNCHANGED <<asked, wrote>>

\* A completion is posted, or nothing.
LEMMA PostOrder ==
  ASSUME Inv, OrderOK, UNCHANGED <<asked, wrote, queue>>,
         \/ UNCHANGED tasks
         \/ \E op \in WriteTasks \cup ChainTasks : tasks' = Append(tasks, Plain(op))
  PROVE  OrderOK' /\ Moved
  <1>1. CASE UNCHANGED tasks
    BY <1>1 DEF OrderOK, Moved
  <1>2. ASSUME NEW op \in WriteTasks \cup ChainTasks, tasks' = Append(tasks, Plain(op))
        PROVE  OrderOK' /\ Moved
    <2>1. Plain(op) \in Task /\ Plain(op).op # "write"
      BY Kinds
    <2>2. Accounted(asked, wrote, queue, Append(tasks, Plain(op)), "write", Messages)
      BY <2>1, AccountedPost DEF OrderOK, Inv, TypeOK
    <2>3. QED
      BY <1>2, <2>2 DEF OrderOK, Moved
  <1>3. QED
    BY <1>1, <1>2

LEMMA SendOrder ==
  ASSUME Inv, OrderOK, NEW m \in Messages, Send(m)
  PROVE  OrderOK' /\ Moved
  <1>1. Write(m) \in Task /\ Write(m).op = "write" /\ Write(m).msg = m
    BY Kinds DEF Write
  <1>2. Accounted(Append(asked, m), wrote, queue, Append(tasks, Write(m)), "write", Messages)
    BY <1>1, AccountedPost DEF OrderOK, Inv, TypeOK
  <1>3. asked' = Append(asked, m) /\ tasks' = Append(tasks, Write(m)) /\ UNCHANGED <<wrote, queue>>
    BY DEF Send
  <1>4. Channel!Ask
    BY <1>3 DEF Channel!Ask
  <1>5. QED
    BY <1>2, <1>3, <1>4 DEF OrderOK, Moved

\* A handler that is not about the queue.
LEMMA LinkOrder ==
  ASSUME Inv, OrderOK, tasks # <<>>, Head(tasks).op # "write",
         tasks' = Tail(tasks), UNCHANGED <<asked, wrote, queue>>
  PROVE  OrderOK' /\ Moved
  <1>1. Accounted(asked, wrote, queue, Tail(tasks), "write", Messages)
    BY AccountedTake DEF OrderOK, Inv, TypeOK
  <1>2. QED
    BY <1>1 DEF OrderOK, Moved

LEMMA PushOrder ==
  ASSUME Inv, OrderOK, NEW t \in Threads, tasks # <<>>, Head(tasks).op = "write",
         Push(t, Head(tasks).msg, Tail(tasks))
  PROVE  OrderOK' /\ Moved
  <1>1. Head(tasks).msg \in Messages
    BY Kinds, TakeFirst DEF Inv, TypeOK
  <1>2. Accounted(asked, wrote, Append(queue, Head(tasks).msg), Tail(tasks), "write", Messages)
    BY <1>1, AccountedTake DEF OrderOK, Inv, TypeOK
  <1>3. QED
    BY <1>2 DEF Push, History, OrderOK, Moved

LEMMA PopOrder ==
  ASSUME Inv, OrderOK, NEW t \in Threads, tasks # <<>>, Head(tasks).op = "written",
         Pop(t, Tail(tasks))
  PROVE  OrderOK' /\ Moved
  <1>1. queue # <<>>
    <2>1. ~None(tasks, WriteTasks)
      BY Taking DEF WriteTasks, Inv, TypeOK
    <2>2. QED
      BY <2>1 DEF Inv, QueueOK, Writing
  <1>2. /\ Tail(tasks) \in Seq(Task)
        /\ Accounted(asked, wrote, queue, Tail(tasks), "write", Messages)
    BY TakeFirst, AccountedTake DEF OrderOK, Inv, TypeOK
  <1>3. /\ Continues(asked, wrote, queue, Len(queue))
        /\ Accounted(asked, Append(wrote, Head(queue)), Tail(queue), Tail(tasks),
                     "write", Messages)
    BY <1>1, <1>2, AccountedWrite DEF Inv, TypeOK
  <1>4. Len(queue) \in Nat \ {0}
    BY <1>1 DEF Inv, TypeOK
  <1>5. Len(wrote) < Len(asked) /\ Head(queue) = asked[Len(wrote) + 1]
    BY <1>3, <1>4, ContinuesWrite DEF Inv, TypeOK
  <1>6. Channel!Deliver
    BY <1>5 DEF Pop, Channel!Deliver
  <1>7. QED
    BY <1>3, <1>6 DEF Pop, OrderOK, Moved

LEMMA EndsOrder ==
  ASSUME Inv, OrderOK, AttemptEnds \/ WriteEnds \/ ReadEnds
  PROVE  OrderOK' /\ Moved
  <1>1. UNCHANGED <<asked, wrote, queue>>
    BY DEF AttemptEnds, WriteEnds, ReadEnds, History
  <1>2. \E op \in WriteTasks \cup ChainTasks : tasks' = Append(tasks, Plain(op))
    <2>1. CASE AttemptEnds
      <3>1. \E op \in ChainTasks : tasks' = Append(tasks, Plain(op))
        BY <2>1 DEF AttemptEnds, ChainTasks, Done
      <3>2. QED
        BY <3>1
    <2>2. CASE WriteEnds
      <3>1. \E op \in WriteTasks : tasks' = Append(tasks, Plain(op))
        BY <2>2 DEF WriteEnds, WriteTasks
      <3>2. QED
        BY <3>1
    <2>3. CASE ReadEnds
      <3>1. \E op \in ChainTasks : tasks' = Append(tasks, Plain(op))
        BY <2>3 DEF ReadEnds, ChainTasks
      <3>2. QED
        BY <3>1
    <2>4. QED
      BY <2>1, <2>2, <2>3
  <1>3. QED
    BY <1>1, <1>2, PostOrder

LEMMA TakeOrder ==
  ASSUME Inv, OrderOK, NEW t \in Threads, Take(t)
  PROVE  OrderOK' /\ Moved
  <1>1. tasks # <<>>
    BY DEF Take
  <1>2. CASE Head(tasks).op = "write" /\ Push(t, Head(tasks).msg, Tail(tasks))
    BY <1>1, <1>2, PushOrder
  <1>3. CASE Head(tasks).op = "written" /\ Pop(t, Tail(tasks))
    BY <1>1, <1>3, PopOrder
  <1>4. CASE \/ Head(tasks).op = "resolved" /\ Resolved(Tail(tasks))
             \/ Head(tasks).op = "connected" /\ Connected(Tail(tasks))
             \/ Head(tasks).op = "shaken" /\ Shaken(Tail(tasks))
             \/ Head(tasks).op = "received" /\ Received(Tail(tasks))
             \/ Head(tasks).op = "ended" /\ Ended(Tail(tasks))
             \/ Head(tasks).op \in {"refused", "unwritten", "broken"} /\ Failed(Tail(tasks))
    <2>1. tasks' = Tail(tasks) /\ UNCHANGED <<asked, wrote, queue>>
      BY <1>4 DEF Resolved, Connected, Shaken, Received, Ended, Failed, History
    <2>2. Head(tasks).op # "write"
      BY <1>4
    <2>3. QED
      BY <1>1, <2>1, <2>2, LinkOrder
  <1>5. QED
    BY <1>2, <1>3, <1>4 DEF Take

LEMMA OrderNext == Inv /\ OrderOK /\ [Next]_vars => OrderOK' /\ Moved
  <1> SUFFICES ASSUME Inv, OrderOK, [Next]_vars PROVE OrderOK' /\ Moved
    OBVIOUS
  <1>1. CASE Run \/ Retry \/ Release \/ UNCHANGED vars
    BY <1>1, PostOrder DEF Run, Retry, Release, vars, History
  <1>2. CASE \E m \in Messages : Send(m)
    BY <1>2, SendOrder
  <1>3. CASE AttemptEnds \/ WriteEnds \/ ReadEnds
    BY <1>3, EndsOrder
  <1>4. ASSUME NEW t \in Threads, Decide(t) PROVE OrderOK' /\ Moved
    <2>1. /\ UNCHANGED <<asked, wrote, queue>>
          /\ UNCHANGED tasks \/ tasks' = Append(tasks, Plain("unwritten"))
      BY <1>4 DEF Decide, StartWrite, History
    <2>2. QED
      BY <2>1, PostOrder DEF WriteTasks
  <1>5. CASE \E t \in Threads : Take(t)
    BY <1>5, TakeOrder
  <1>6. QED
    BY <1>1, <1>2, <1>3, <1>4, <1>5 DEF Next

\* What is written to the other side is a prefix of what was sent, through stuck
\* queues, failures and reconnections, as long as handlers do not overlap: the
\* connection implements the abstract channel.
THEOREM ChannelKept == ASSUME OneHandler PROVE Spec => ImplementsChannel
  <1>1. Init => OrderOK /\ Channel!ChannelInit
    BY AccountedNone DEF Init, OrderOK, Channel!ChannelInit
  <1>2. Moved => [Channel!Ask \/ Channel!Deliver]_(Channel!channel)
    BY DEF Moved, Channel!channel
  <1>3. QED
    BY <1>1, <1>2, OrderNext, Invariance, PTL DEF Spec, ImplementsChannel, Channel!ChannelSpec
=============================================================================
