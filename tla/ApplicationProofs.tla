------------------------- MODULE ApplicationProofs -------------------------
(***************************************************************************)
(* Theorems about Application and Signals, for every number of threads,    *)
(* timers and posted handlers.  The type invariant holds for any use of    *)
(* the application, and what is said of the signal set too; what stop()    *)
(* promises needs one thread that controls the application.                *)
(***************************************************************************)
EXTENDS Signals, FiniteSetTheorems, TLAPS

TypeInv ==
    /\ TypeOK
    /\ \A t \in Threads : pc[t] = "spawn" => left[t] # 0
    /\ \A t \in Threads : pc[t] \in {"check", "recheck", "register"} => arming[t] \in Timers

LEMMA TypeInit == Init => TypeInv
  <1> SUFFICES ASSUME Init PROVE TypeInv
    OBVIOUS
  <1> USE DEF Init
  <1>1. ready \in Seq(Job) /\ job \in [Threads -> Job]
    BY DEF Handler, Job
  <1>2. 0 \in 0..Pool /\ active \in Int /\ size \in 0..Pool
    BY ApplicationAssumption
  <1>3. left \in [Threads -> 0..Pool]
    BY <1>2
  <1>4. /\ timer \in [Timers -> TimerState]
        /\ pc \in [Threads -> PC]
        /\ arming \in [Threads -> Timers \cup {NoTimer}]
        /\ loop \in [Threads -> {"none", "run", "handler", "out"}]
    BY DEF TimerState, PC
  <1>5. TypeOK
    BY <1>1, <1>2, <1>3, <1>4 DEF TypeOK
  <1>6. QED
    BY <1>5 DEF TypeInv

LEMMA TypeUserCall ==
  ASSUME TypeInv, NEW u \in Users, UserCall(u)
  PROVE  TypeInv'
  <1> USE DEF TypeInv, TypeOK, PC, Goto, Tasks, Inside
  <1>0. u \in Threads
    BY DEF Threads
  <1>1. CASE CallStart(u)
    BY <1>0, <1>1 DEF CallStart, Call
  <1>2. CASE CallStop(u)
    BY <1>0, <1>2 DEF CallStop, Call
  <1>3. CASE CallRun(u)
    BY <1>0, <1>3 DEF CallRun, Call
  <1>4. CASE CallWait(u)
    BY <1>0, <1>4 DEF CallWait, Call
  <1>5. CASE Destroy(u)
    BY <1>0, <1>5 DEF Destroy
  <1>6. CASE \E k \in Handlers : Post(u, k)
    <2> PICK k \in Handlers : Post(u, k)
      BY <1>6
    <2>1. Handler(k) \in Job
      BY ApplicationAssumption DEF Post, Handler, Job
    <2>2. QED
      BY <2>1 DEF Post
  <1>7. CASE \E x \in Timers : PostAfter(u, x)
    <2> PICK x \in Timers : PostAfter(u, x)
      BY <1>7
    <2>1. [kind |-> "after", timer |-> x] \in Job
      BY DEF Job
    <2>2. QED
      BY <2>1 DEF PostAfter, TimerState
  <1>8. CASE \E x \in Timers : After(u, x)
    BY <1>0, <1>8 DEF After, TimerState
  <1>9. CASE \E x \in Timers : StopTimer(u, x)
    BY <1>9 DEF StopTimer, TimerState
  <1>10. QED
    BY <1>1, <1>2, <1>3, <1>4, <1>5, <1>6, <1>7, <1>8, <1>9 DEF UserCall

LEMMA TypeStart ==
  ASSUME TypeInv, NEW t \in Threads, StartStep(t)
  PROVE  TypeInv'
  <1> USE DEF TypeInv, TypeOK, PC, Goto, Tasks, Inside, AfterStart
  <1>1. CASE StartCheck(t)
    BY <1>1 DEF StartCheck
  <1>2. CASE StartRestart(t)
    BY <1>2 DEF StartRestart
  <1>3. CASE StartMark(t)
    BY <1>3 DEF StartMark
  <1>4. CASE StartReset(t)
    BY <1>4, ApplicationAssumption DEF StartReset
  <1>5. CASE StartSpawn(t)
    <2>1. left[t] \in 0..Pool /\ left[t] # 0
      BY <1>5 DEF StartSpawn
    <2>2. left'[t] \in 0..Pool /\ (left[t] # 1 => left'[t] # 0)
      BY <1>5, <2>1, ApplicationAssumption DEF StartSpawn, SpawnOne
    <2>3. \A s \in Threads : s # t => left'[s] = left[s]
      BY <1>5 DEF StartSpawn, SpawnOne
    <2>4. left' \in [Threads -> 0..Pool]
      BY <1>5, <2>2, <2>3 DEF StartSpawn, SpawnOne
    <2>5. active' \in Int /\ loop' \in [Threads -> {"none", "run", "handler", "out"}]
      <3>1. active' \in Int
        BY <1>5 DEF StartSpawn, SpawnOne
      <3>2. loop' \in [Threads -> {"none", "run", "handler", "out"}]
        <4> PICK w \in Workers : loop' = [loop EXCEPT ![w] = "run"]
          BY <1>5 DEF StartSpawn, SpawnOne
        <4> QED
          OBVIOUS
      <3>3. QED
        BY <3>1, <3>2
    <2>6. /\ pc' \in [Threads -> PC]
          /\ \A s \in Threads : s # t => pc'[s] = pc[s]
          /\ pc'[t] = "spawn" => left[t] # 1
          /\ pc'[t] \in {"check", "recheck", "register"} => arming[t] \in Timers
      BY <1>5 DEF StartSpawn, SpawnOne
    <2>7. TypeOK'
      BY <1>5, <2>4, <2>5, <2>6 DEF StartSpawn, SpawnOne
    <2>8. arming' = arming
      BY <1>5 DEF StartSpawn, SpawnOne
    <2>9. QED
      BY <2>2, <2>3, <2>6, <2>7, <2>8 DEF TypeInv
  <1>6. QED
    BY <1>1, <1>2, <1>3, <1>4, <1>5 DEF StartStep

LEMMA TypeStop ==
  ASSUME TypeInv, NEW t \in Threads, StopStep(t)
  PROVE  TypeInv'
  <1> USE DEF TypeInv, TypeOK, PC, Goto, Tasks, Inside
  <1>1. CASE StopCheck(t)
    BY <1>1 DEF StopCheck, LeaveStop, EnterStop
  <1>2. CASE StopMark(t)
    BY <1>2 DEF StopMark
  <1>3. CASE StopCancel(t)
    BY <1>3 DEF StopCancel, TimerState
  <1>4. CASE StopContext(t)
    BY <1>4 DEF StopContext
  <1>5. CASE StopReturn(t)
    BY <1>5 DEF StopReturn, LeaveStop
  <1>6. QED
    BY <1>1, <1>2, <1>3, <1>4, <1>5 DEF StopStep

LEMMA TypeCall ==
  ASSUME TypeInv, NEW t \in Threads, CallStep(t)
  PROVE  TypeInv'
  <1> USE DEF TypeInv, TypeOK, PC, Goto, Tasks, Inside
  <1>1. CASE StartStep(t)
    BY <1>1, TypeStart
  <1>2. CASE StopStep(t)
    BY <1>2, TypeStop
  <1>3. CASE RunRestart(t)
    BY <1>3 DEF RunRestart
  <1>4. CASE RunMark(t)
    BY <1>4 DEF RunMark
  <1>5. CASE WaitReturn(t)
    BY <1>5 DEF WaitReturn
  <1>6. CASE TimerCheck(t)
    BY <1>6 DEF TimerCheck
  <1>7. CASE TimerRecheck(t)
    BY <1>7 DEF TimerRecheck
  <1>8. CASE TimerArm(t)
    BY <1>8 DEF TimerArm, TimerState
  <1>9. QED
    BY <1>1, <1>2, <1>3, <1>4, <1>5, <1>6, <1>7, <1>8 DEF CallStep

LEMMA TypeLoop ==
  ASSUME TypeInv, NEW t \in Threads, LoopStep(t)
  PROVE  TypeInv'
  <1> USE DEF TypeInv, TypeOK, PC, Goto, Tasks, Inside
  <1>1. CASE Take(t)
    <2>1. Head(ready) \in Job /\ Tail(ready) \in Seq(Job)
      BY <1>1 DEF Take
    <2>2. Head(ready).kind \in {"after", "timer"} => Head(ready).timer \in Timers
      BY <2>1 DEF Job
    <2>3. Entry(Head(ready).kind) \in {"stop", "check", "idle"}
          /\ (Entry(Head(ready).kind) = "check" => Head(ready).kind = "after")
      BY DEF Entry
    <2>4. timer' \in [Timers -> TimerState]
      BY <1>1, <2>1 DEF Take, TimerState
    <2>5. arming' \in [Threads -> Timers \cup {NoTimer}] /\ pc' \in [Threads -> PC]
      BY <1>1, <2>2, <2>3 DEF Take
    <2>6. job' \in [Threads -> Job] /\ loop' \in [Threads -> {"none", "run", "handler", "out"}]
      BY <1>1, <2>1 DEF Take
    <2>7. \A s \in Threads : s # t => pc'[s] = pc[s] /\ arming'[s] = arming[s]
      BY <1>1 DEF Take
    <2>8. pc'[t] = Entry(Head(ready).kind)
          /\ (Head(ready).kind = "after" => arming'[t] \in Timers)
      BY <1>1, <2>2 DEF Take
    <2>9. QED
      BY <1>1, <2>1, <2>3, <2>4, <2>5, <2>6, <2>7, <2>8 DEF Take
  <1>2. CASE Finish(t)
    BY <1>2 DEF Finish, EndHandler, Fate, TimerState
  <1>3. CASE Leave(t)
    BY <1>3 DEF Leave
  <1>4. CASE EndThread(t)
    BY <1>4 DEF EndThread
  <1>5. QED
    BY <1>1, <1>2, <1>3, <1>4 DEF LoopStep

LEMMA TypeStep == TypeInv /\ [Next]_vars => TypeInv'
  <1> SUFFICES ASSUME TypeInv, [Next]_vars PROVE TypeInv'
    OBVIOUS
  <1>1. CASE \E u \in Users : UserCall(u)
    BY <1>1, TypeUserCall
  <1>2. CASE \E t \in Threads : CallStep(t)
    BY <1>2, TypeCall
  <1>3. CASE \E t \in Threads : LoopStep(t)
    BY <1>3, TypeLoop
  <1>4. CASE \E x \in Timers : Expire(x)
    <2> PICK x \in Timers : Expire(x)
      BY <1>4
    <2>1. [kind |-> "timer", timer |-> x] \in Job
      BY DEF Job
    <2>2. QED
      BY <2>1 DEF Expire, TypeInv, TypeOK, TimerState, Inside
  <1>5. CASE UNCHANGED vars
    BY <1>5 DEF vars, TypeInv, TypeOK
  <1>6. QED
    BY <1>1, <1>2, <1>3, <1>4, <1>5 DEF Next

\* Whatever the threads do with the application, its state is well formed.
THEOREM TypeCorrectness == Spec => []TypeOK
  <1>1. TypeInv => TypeOK
    BY DEF TypeInv
  <1>2. QED
    BY <1>1, TypeInit, TypeStep, PTL DEF Spec

----------------------------------------------------------------------------
(* One thread controls the application: it alone calls start(), stop() and *)
(* after(), and no handler does.  Others post, wait and destroy.           *)
OneController(c) ==
    /\ Starters \cup Stoppers \cup Creators \subseteq {c}
    /\ Runners = {}
    /\ Handlers \subseteq {"plain", "throw", "abort"}
    /\ IsFiniteSet(Workers)

Free == {"idle", "wait"}

\* The controller is the only thread inside a call, and after it the thread
\* of the destructor.
ControlInv(c) ==
    /\ \A u \in Users : loop[u] = "none"
    /\ \A w \in Workers : pc[w] = "idle"
    /\ \A i \in 1..Len(ready) : ready[i].kind \notin {"stop", "after"}
    /\ \A t \in Threads : pc[t] \notin {"run", "enter"}
    /\ \A t \in Threads : pc[t] \notin Free =>
           (life = "alive" /\ t = c) \/ (life = "dying" /\ t \in Destroyers)
    /\ \A s, t \in Threads : pc[s] \notin Free /\ pc[t] \notin Free => s = t

\* Between the calls that change it, the pool is as _state says.
Settled ==
    /\ state = "started" => ~iocStopped /\ Cardinality(Alive) = size
    /\ state = "stopped" => iocStopped /\ Alive = {}
    /\ state = "waiting" => ~iocStopped /\ Alive = {}

\* What is known of the pool at the points l of a call, where n threads are
\* left to create.
Phase(l, n) ==
    /\ l \in {"start", "stop", "check", "recheck", "register"} => Settled
    /\ l = "restart" => Settled /\ state # "started"
    /\ l = "mark" => ~iocStopped /\ Alive = {}
    /\ l = "reset" => ~iocStopped /\ Alive = {} /\ state = "started"
    /\ l = "spawn" => ~iocStopped /\ state = "started" /\ Cardinality(Alive) + n = size
    /\ l = "halt" => Settled /\ state # "stopped"
    /\ l \in {"cancel", "break"} => ~iocStopped /\ state = "stopped"
    /\ l = "drain" => iocStopped /\ state = "stopped"

PoolInv ==
    /\ active = Cardinality(Alive)
    /\ \A w \in Workers : loop[w] = "out" => iocStopped
    /\ \A t \in Threads : Phase(pc[t], left[t])
    /\ NoCall => Settled
    /\ life = "dead" => NoCall /\ state = "stopped"

\* While the process lives.
Inv(c) == TypeInv /\ (Lives => ControlInv(c) /\ PoolInv)

LEMMA ControlInit == ASSUME NEW c PROVE Init => ControlInv(c)
  BY DEF Init, ControlInv, Users, Threads, Free

LEMMA PoolInit == Init => PoolInv
  <1> SUFFICES ASSUME Init PROVE PoolInv
    OBVIOUS
  <1>1. Alive = {}
    BY DEF Init, Alive, Threads
  <1>2. Cardinality(Alive) = 0
    BY <1>1, FS_EmptySet
  <1>3. QED
    BY <1>1, <1>2 DEF Init, PoolInv, Phase, Settled, Threads, NoCall

LEMMA AppendFacts ==
  ASSUME NEW S, NEW s \in Seq(S), NEW e \in S
  PROVE  /\ Len(Append(s, e)) = Len(s) + 1 /\ Len(s) \in Nat
         /\ \A i \in 1..Len(s) : Append(s, e)[i] = s[i]
         /\ Append(s, e)[Len(s) + 1] = e
  OBVIOUS

----------------------------------------------------------------------------
(* ControlInv is kept.                                                     *)

\* A thread that goes from one point of a call to the next.
LEMMA ControlGoto ==
  ASSUME NEW c, TypeInv, ControlInv(c), NEW t \in Threads, NEW l, Goto(t, l),
         pc[t] \notin Free, l \notin {"run", "enter"},
         UNCHANGED ready, \A u \in Users : loop'[u] = "none",
         life' = life \/ (l = "idle" /\ life' = "dead")
  PROVE  ControlInv(c)'
  <1> USE DEF ControlInv, TypeInv, TypeOK, Goto, Free
  <1>1. \A s \in Threads : pc'[s] = IF s = t THEN l ELSE pc[s]
    OBVIOUS
  <1>2. \A s \in Threads : s # t => pc[s] \in Free
    OBVIOUS
  <1>3. t \notin Workers
    OBVIOUS
  <1>4. \A w \in Workers : pc'[w] = "idle"
    BY <1>1, <1>3 DEF Threads
  <1>5. \A s \in Threads : pc'[s] \notin {"run", "enter"}
    BY <1>1
  <1>6. \A s \in Threads : pc'[s] \notin Free => s = t /\ life' = life
    BY <1>1, <1>2
  <1>7. QED
    BY <1>4, <1>5, <1>6

LEMMA ControlUser ==
  ASSUME NEW c, OneController(c), TypeInv, ControlInv(c), NEW u \in Users, UserCall(u)
  PROVE  ControlInv(c)'
  <1> USE DEF OneController, ControlInv, TypeInv, TypeOK, Free
  <1>0. u \in Threads /\ u \notin Workers
    BY ApplicationAssumption DEF Threads
  <1>a. Between(u) => \A t \in Threads : pc[t] \notin Free => t = c
    BY DEF Between
  <1>1. CASE CallStart(u)
    <2>1. /\ u = c /\ life = "alive" /\ pc[u] = "idle"
          /\ pc' = [pc EXCEPT ![u] = "start"]
          /\ UNCHANGED <<ready, loop, life>>
      BY <1>1 DEF CallStart, Call, Goto, Tasks, Inside, Between
    <2>2. QED
      BY <1>0, <1>a, <1>1, <2>1 DEF Between, CallStart, Call
  <1>2. CASE CallStop(u)
    <2>1. /\ u = c /\ life = "alive" /\ pc[u] = "idle"
          /\ pc' = [pc EXCEPT ![u] = "stop"]
          /\ UNCHANGED <<ready, loop, life>>
      BY <1>2 DEF CallStop, Call, Goto, Tasks, Inside, Between
    <2>2. QED
      BY <1>0, <1>a, <1>2, <2>1 DEF Between, CallStop, Call
  <1>3. CASE CallRun(u)
    BY <1>3 DEF CallRun
  <1>4. CASE CallWait(u)
    BY <1>0, <1>4 DEF CallWait, Call, Goto, Tasks, Inside, Between
  <1>5. CASE Destroy(u)
    <2>1. \A t \in Threads : pc[t] = "idle"
      BY <1>5 DEF Destroy, Between, Threads
    <2>2. QED
      BY <1>0, <1>5, <2>1 DEF Destroy, Goto, Tasks, Inside
  <1>6. CASE \E k \in Handlers : Post(u, k)
    <2> PICK k \in Handlers : Post(u, k)
      BY <1>6
    <2>1. Handler(k).kind \notin {"stop", "after"}
      BY DEF Handler
    <2>2. /\ ready' = Append(ready, Handler(k)) /\ ready \in Seq(Job)
          /\ UNCHANGED <<pc, loop, life>>
      BY DEF Post, Inside
    <2>5. Handler(k) \in Job
      BY <2>1, ApplicationAssumption DEF Post, Handler, Job
    <2>6. /\ Len(ready') = Len(ready) + 1 /\ Len(ready) \in Nat
          /\ \A i \in 1..Len(ready) : ready'[i] = ready[i]
          /\ ready'[Len(ready) + 1] = Handler(k)
      BY <2>2, <2>5, AppendFacts
    <2>3. \A i \in 1..Len(ready') : ready'[i].kind \notin {"stop", "after"}
      <3> TAKE i \in 1..Len(ready')
      <3>1. i \in 1..Len(ready) \/ i = Len(ready) + 1
        BY <2>6
      <3>2. QED
        BY <2>1, <2>6, <3>1
    <2>4. QED
      BY <2>2, <2>3
  <1>7. CASE \E x \in Timers : PostAfter(u, x)
    BY <1>7 DEF PostAfter
  <1>8. CASE \E x \in Timers : After(u, x)
    <2>1. /\ u = c /\ life = "alive" /\ pc[u] = "idle"
          /\ pc' = [pc EXCEPT ![u] = "check"]
          /\ UNCHANGED <<ready, loop, life>>
      BY <1>8 DEF After, Goto, Inside, Between
    <2>2. QED
      BY <1>0, <1>a, <1>8, <2>1 DEF Between, After
  <1>9. CASE \E x \in Timers : StopTimer(u, x)
    BY <1>9 DEF StopTimer, Inside
  <1>10. QED
    BY <1>1, <1>2, <1>3, <1>4, <1>5, <1>6, <1>7, <1>8, <1>9 DEF UserCall

LEMMA ControlCall ==
  ASSUME NEW c, TypeInv, ControlInv(c), NEW t \in Threads, CallStep(t)
  PROVE  ControlInv(c)'
  <1> USE DEF Tasks, Inside
  <1>0. \A u \in Users : loop[u] = "none"
    BY DEF ControlInv
  <1>1. CASE StartCheck(t)
    BY <1>0, <1>1, ControlGoto DEF StartCheck, Free, AfterStart
  <1>2. CASE StartRestart(t)
    BY <1>0, <1>2, ControlGoto DEF StartRestart, Free
  <1>3. CASE StartMark(t)
    BY <1>0, <1>3, ControlGoto DEF StartMark, Free
  <1>4. CASE StartReset(t)
    BY <1>0, <1>4, ControlGoto DEF StartReset, Free
  <1>5. CASE StartSpawn(t)
    <2>1. PICK w \in Workers : loop' = [loop EXCEPT ![w] = "run"]
      BY <1>5 DEF StartSpawn, SpawnOne
    <2>2. \A u \in Users : loop'[u] = "none"
      BY <1>0, <2>1, ApplicationAssumption DEF TypeInv, TypeOK, Threads
    <2>3. QED
      BY <1>5, <2>2, ControlGoto DEF StartSpawn, SpawnOne, Free, AfterStart
  <1>6. CASE StopCheck(t)
    BY <1>0, <1>6, ControlGoto DEF StopCheck, EnterStop, LeaveStop, Free
  <1>7. CASE StopMark(t)
    BY <1>0, <1>7, ControlGoto DEF StopMark, Free
  <1>8. CASE StopCancel(t)
    BY <1>0, <1>8, ControlGoto DEF StopCancel, Free
  <1>9. CASE StopContext(t)
    BY <1>0, <1>9, ControlGoto DEF StopContext, Free
  <1>10. CASE StopReturn(t)
    BY <1>0, <1>10, ControlGoto DEF StopReturn, LeaveStop, Free
  <1>11. CASE RunRestart(t) \/ RunMark(t)
    BY <1>11 DEF RunRestart, RunMark, ControlInv
  <1>12. CASE WaitReturn(t)
    BY <1>12 DEF WaitReturn, ControlInv, Goto, Free, TypeInv, TypeOK
  <1>13. CASE TimerCheck(t)
    BY <1>0, <1>13, ControlGoto DEF TimerCheck, Free
  <1>14. CASE TimerRecheck(t)
    BY <1>0, <1>14, ControlGoto DEF TimerRecheck, Free
  <1>15. CASE TimerArm(t)
    BY <1>0, <1>15, ControlGoto DEF TimerArm, Free
  <1>16. QED
    BY <1>1, <1>2, <1>3, <1>4, <1>5, <1>6, <1>7, <1>8, <1>9, <1>10, <1>11, <1>12,
       <1>13, <1>14, <1>15 DEF CallStep, StartStep, StopStep

\* Handlers run on workers only, and none of them enters a call.
LEMMA ControlLoop ==
  ASSUME NEW c, TypeInv, ControlInv(c), NEW t \in Threads, LoopStep(t), Lives'
  PROVE  ControlInv(c)' /\ t \in Workers /\ UNCHANGED <<pc, left, life>>
  <1> USE DEF ControlInv, TypeInv, TypeOK, Tasks
  <1>0. t \in Workers /\ t \notin Users /\ pc[t] = "idle"
    BY ApplicationAssumption
       DEF LoopStep, Take, Finish, EndHandler, Leave, EndThread, Threads
  <1>1. CASE Take(t)
    <2>1. ready \in Seq(Job) /\ ready # <<>>
      BY <1>1 DEF Take
    <2>2. /\ Head(ready) = ready[1] /\ Len(ready) \in Nat \ {0}
          /\ Len(Tail(ready)) = Len(ready) - 1
          /\ \A i \in 1..Len(Tail(ready)) : Tail(ready)[i] = ready[i + 1]
      BY <2>1
    <2>3. Entry(Head(ready).kind) = "idle"
      BY <2>2 DEF Entry
    <2>4. UNCHANGED <<pc, left, life>>
      BY <1>0, <1>1, <2>3 DEF Take, Goto
    <2>5. \A i \in 1..Len(ready') : ready'[i].kind \notin {"stop", "after"}
      BY <1>1, <2>2 DEF Take
    <2>6. \A u \in Users : loop'[u] = "none"
      BY <1>0, <1>1 DEF Take
    <2>7. QED
      BY <1>0, <2>4, <2>5, <2>6
  <1>2. CASE Finish(t)
    BY <1>0, <1>2 DEF Finish, EndHandler, Fate, Lives
  <1>3. CASE Leave(t)
    BY <1>0, <1>3 DEF Leave
  <1>4. CASE EndThread(t)
    BY <1>0, <1>4 DEF EndThread
  <1>5. QED
    BY <1>1, <1>2, <1>3, <1>4 DEF LoopStep

----------------------------------------------------------------------------
(* PoolInv is kept.                                                        *)

LEMMA AliveFacts ==
  ASSUME NEW c, OneController(c), TypeInv
  PROVE  /\ IsFiniteSet(Alive) /\ Cardinality(Alive) \in Nat
         /\ Alive = {} => Cardinality(Alive) = 0
         /\ Cardinality(Alive) = 0 => Alive = {}
  <1>1. IsFiniteSet(Alive)
    BY FS_Subset DEF OneController, Alive
  <1>2. QED
    BY <1>1, FS_CardinalityType, FS_EmptySet

\* The thread inside a call goes from one point of it to the next.
LEMMA PoolGoto ==
  ASSUME NEW c, TypeInv, ControlInv(c), PoolInv,
         NEW t \in Threads, NEW l, Goto(t, l), pc[t] \notin Free,
         (active = Cardinality(Alive))', \A w \in Workers : loop'[w] = "out" => iocStopped',
         Phase(pc[t], left[t])', pc'[t] \in Free => Settled',
         life' = "dead" => pc'[t] = "idle" /\ state' = "stopped"
  PROVE  PoolInv'
  <1>1. \A s \in Threads : s # t => pc'[s] = pc[s] /\ pc'[s] \in Free
    BY DEF Goto, TypeInv, TypeOK, ControlInv
  <1>2. \A s \in Threads : s # t => Phase(pc[s], left[s])'
    BY <1>1 DEF Phase, Free
  <1>3. \A s \in Threads : Phase(pc[s], left[s])'
    BY <1>2
  <1>4. NoCall' => Settled'
    BY DEF NoCall, Free
  <1>5. life' = "dead" => NoCall' /\ state' = "stopped"
    BY <1>1 DEF NoCall, Free
  <1>6. QED
    BY <1>3, <1>4, <1>5 DEF PoolInv

\* The calls, one point after the other.
LEMMA PoolCall ==
  ASSUME NEW c, OneController(c), TypeInv, ControlInv(c), PoolInv,
         NEW t \in Threads, CallStep(t)
  PROVE  PoolInv'
  <1> USE DEF Tasks, Inside, Free
  <1>0. /\ active = Cardinality(Alive) /\ \A w \in Workers : loop[w] = "out" => iocStopped
        /\ Phase(pc[t], left[t])
        /\ pc[t] \notin Free => life # "dead"
    BY DEF PoolInv, NoCall
  <1>a. UNCHANGED <<loop, active>> => (active = Cardinality(Alive))' /\ Alive' = Alive
    BY <1>0 DEF Alive
  <1>b. UNCHANGED <<loop, active, state, iocStopped, size>> => (Settled' <=> Settled)
    BY <1>a DEF Settled
  <1>c. \A l : Goto(t, l) => pc'[t] = l
    BY DEF Goto, TypeInv, TypeOK
  <1>1. CASE StartCheck(t)
    BY <1>0, <1>1, <1>a, <1>b, <1>c, PoolGoto DEF StartCheck, AfterStart, Phase
  <1>2. CASE StartRestart(t)
    <2>1. Settled /\ state # "started" /\ state \in {"waiting", "started", "stopped"}
      BY <1>0, <1>2 DEF StartRestart, Phase, TypeInv, TypeOK
    <2>2. Alive' = {} /\ ~iocStopped' /\ pc'[t] = "mark"
      BY <1>2, <1>a, <1>c, <2>1 DEF StartRestart, Settled
    <2>3. \A w \in Workers : loop'[w] # "out"
      BY <2>2 DEF Alive
    <2>4. Phase(pc[t], left[t])'
      BY <2>2 DEF Phase
    <2>5. QED
      BY <1>0, <1>2, <1>a, <2>2, <2>3, <2>4, PoolGoto DEF StartRestart
  <1>3. CASE StartMark(t)
    BY <1>0, <1>3, <1>a, <1>c, PoolGoto DEF StartMark, Phase
  <1>4. CASE StartReset(t)
    <2>1. Alive' = {} /\ Cardinality(Alive') = 0 /\ active' = 0
      BY <1>0, <1>4, FS_EmptySet DEF StartReset, Phase, Alive
    <2>2. left'[t] = size' /\ size' \in Nat
      BY <1>4, ApplicationAssumption DEF StartReset, TypeInv, TypeOK
    <2>3. Phase(pc[t], left[t])'
      BY <1>0, <1>4, <1>c, <2>1, <2>2 DEF StartReset, Phase
    <2>4. QED
      BY <1>0, <1>4, <1>c, <2>1, <2>3, PoolGoto DEF StartReset
  <1>5. CASE StartSpawn(t)
    <2>1. PICK w \in Workers : loop[w] = "none" /\ loop' = [loop EXCEPT ![w] = "run"]
      BY <1>5 DEF StartSpawn, SpawnOne
    <2>2. Alive' = Alive \cup {w} /\ w \notin Alive
      BY <2>1 DEF Alive, TypeInv, TypeOK, Threads
    <2>3. Cardinality(Alive') = Cardinality(Alive) + 1 /\ Cardinality(Alive) \in Nat
      BY <2>2, AliveFacts, FS_AddElement
    <2>4. (active = Cardinality(Alive))'
      BY <1>0, <1>5, <2>3 DEF StartSpawn, SpawnOne
    <2>5. /\ left[t] \in Nat /\ left'[t] = left[t] - 1
          /\ Cardinality(Alive) + left[t] = size /\ ~iocStopped /\ state = "started"
      BY <1>0, <1>5, ApplicationAssumption DEF StartSpawn, SpawnOne, Phase, TypeInv, TypeOK
    <2>6. Cardinality(Alive') + left'[t] = size'
      BY <1>5, <2>3, <2>5 DEF StartSpawn, SpawnOne
    <2>7. left[t] = 1 => Settled'
      BY <1>5, <2>3, <2>5, <2>6 DEF StartSpawn, SpawnOne, Settled
    <2>8. pc'[t] = IF left[t] = 1 THEN AfterStart(t) ELSE "spawn"
      BY <1>5, <1>c DEF StartSpawn, SpawnOne
    <2>9. Phase(pc[t], left[t])' /\ (pc'[t] \in Free => Settled')
      BY <1>5, <2>5, <2>6, <2>7, <2>8 DEF Phase, StartSpawn, SpawnOne, AfterStart
    <2>10. \A v \in Workers : loop'[v] = "out" => iocStopped'
      BY <1>0, <1>5, <2>1 DEF StartSpawn, SpawnOne, TypeInv, TypeOK, Threads
    <2>11. QED
      BY <1>0, <1>5, <2>4, <2>9, <2>10, PoolGoto DEF StartSpawn, SpawnOne
  <1>6. CASE StopCheck(t)
    BY <1>0, <1>6, <1>a, <1>b, <1>c, PoolGoto DEF StopCheck, EnterStop, LeaveStop, Phase
  <1>7. CASE StopMark(t)
    <2>1. ~iocStopped /\ state' = "stopped" /\ pc'[t] \in {"break", "cancel"}
      BY <1>0, <1>7, <1>c DEF StopMark, Phase, Settled, TypeInv, TypeOK
    <2>2. Phase(pc[t], left[t])'
      BY <1>7, <2>1 DEF StopMark, Phase
    <2>3. QED
      BY <1>0, <1>7, <1>a, <2>1, <2>2, PoolGoto DEF StopMark
  <1>8. CASE StopCancel(t)
    BY <1>0, <1>8, <1>a, <1>c, PoolGoto DEF StopCancel, Phase
  <1>9. CASE StopContext(t)
    BY <1>0, <1>9, <1>a, <1>c, PoolGoto DEF StopContext, Phase
  <1>10. CASE StopReturn(t)
    <2>1. Alive' = {} /\ iocStopped' /\ state' = "stopped"
      BY <1>0, <1>10, <1>a, AliveFacts DEF StopReturn, LeaveStop, Phase
    <2>2. Settled' /\ Phase(pc[t], left[t])'
      BY <1>10, <1>c, <2>1 DEF Settled, Phase, StopReturn, LeaveStop
    <2>3. QED
      BY <1>0, <1>10, <1>a, <1>c, <2>1, <2>2, PoolGoto DEF StopReturn, LeaveStop
  <1>11. CASE RunRestart(t) \/ RunMark(t)
    BY <1>11 DEF RunRestart, RunMark, ControlInv
  <1>12. CASE WaitReturn(t)
    <2>1. \A s \in Threads : pc'[s] = pc[s] \/ (pc[s] \in Free /\ pc'[s] \in Free)
      BY <1>12 DEF WaitReturn, Goto, TypeInv, TypeOK
    <2>2. (NoCall' <=> NoCall) /\ Alive' = Alive
      BY <1>12, <2>1 DEF NoCall, WaitReturn, Alive
    <2>3. Settled' <=> Settled
      BY <1>12, <1>b DEF WaitReturn
    <2>4. \A s \in Threads : Phase(pc[s], left[s])'
      BY <1>12, <2>1, <2>2, <2>3 DEF PoolInv, Phase, WaitReturn
    <2>5. QED
      BY <1>12, <1>a, <2>2, <2>3, <2>4 DEF PoolInv, WaitReturn
  <1>13. CASE TimerCheck(t)
    BY <1>0, <1>13, <1>a, <1>b, <1>c, PoolGoto DEF TimerCheck, Phase
  <1>14. CASE TimerRecheck(t)
    BY <1>0, <1>14, <1>a, <1>b, <1>c, PoolGoto DEF TimerRecheck, Phase
  <1>15. CASE TimerArm(t)
    BY <1>0, <1>15, <1>a, <1>b, <1>c, PoolGoto DEF TimerArm, Phase
  <1>16. QED
    BY <1>1, <1>2, <1>3, <1>4, <1>5, <1>6, <1>7, <1>8, <1>9, <1>10, <1>11, <1>12,
       <1>13, <1>14, <1>15 DEF CallStep, StartStep, StopStep

\* A call begins: its thread is the only one inside a call.
LEMMA PoolUser ==
  ASSUME NEW c, OneController(c), TypeInv, ControlInv(c), PoolInv,
         NEW u \in Users, UserCall(u)
  PROVE  PoolInv'
  <1> USE DEF Tasks, Inside, Free
  <1>0. u \in Threads /\ UNCHANGED <<loop, active, state, iocStopped, size, left>>
    <2>1. CASE CallStart(u) \/ CallStop(u) \/ CallRun(u) \/ CallWait(u)
      BY <2>1 DEF CallStart, CallStop, CallRun, CallWait, Call, Threads
    <2>2. CASE Destroy(u)
      BY <2>2 DEF Destroy, Threads
    <2>3. CASE \E k \in Handlers : Post(u, k)
      BY <2>3 DEF Post, Threads
    <2>4. CASE \E x \in Timers : PostAfter(u, x) \/ After(u, x) \/ StopTimer(u, x)
      BY <2>4 DEF PostAfter, After, StopTimer, Threads
    <2>5. QED
      BY <2>1, <2>2, <2>3, <2>4 DEF UserCall
  <1>1. /\ (active = Cardinality(Alive))' /\ Alive' = Alive
        /\ \A w \in Workers : loop'[w] = "out" => iocStopped'
        /\ Settled' <=> Settled
    BY <1>0 DEF PoolInv, Alive, Settled
  <1>2. ASSUME NoCall, life' # "dead", NEW l \in {"start", "stop", "check"}, Goto(u, l)
        PROVE  PoolInv'
    <2>1. \A t \in Threads : pc'[t] \in Free \cup {"start", "stop", "check"}
      BY <1>2 DEF NoCall, Goto, TypeInv, TypeOK
    <2>2. Settled'
      BY <1>1, <1>2 DEF PoolInv
    <2>3. \A t \in Threads : Phase(pc[t], left[t])'
      BY <2>1, <2>2 DEF Phase
    <2>4. QED
      BY <1>1, <1>2, <2>2, <2>3 DEF PoolInv
  <1>3. u = c /\ Between(u) => NoCall
    BY DEF Between, NoCall, ControlInv
  <1>4. CASE CallStart(u)
    BY <1>2, <1>3, <1>4 DEF CallStart, Call, OneController, Between
  <1>5. CASE CallStop(u)
    BY <1>2, <1>3, <1>5 DEF CallStop, Call, OneController, Between
  <1>6. CASE CallRun(u)
    BY <1>6 DEF CallRun, OneController
  <1>7. CASE \E x \in Timers : After(u, x)
    BY <1>2, <1>3, <1>7 DEF After, OneController, Between
  <1>8. CASE Destroy(u)
    <2>1. NoCall
      BY <1>8 DEF Destroy, Between, NoCall, ControlInv, Threads
    <2>2. QED
      BY <1>2, <1>8, <2>1 DEF Destroy
  <1>9. CASE CallWait(u)
    <2>1. \A t \in Threads : pc'[t] = pc[t] \/ (pc[t] \in Free /\ pc'[t] \in Free)
      BY <1>0, <1>9 DEF CallWait, Call, Between, Goto, TypeInv, TypeOK
    <2>2. NoCall' <=> NoCall
      BY <2>1 DEF NoCall
    <2>3. \A t \in Threads : Phase(pc[t], left[t])'
      BY <1>0, <1>1, <2>1 DEF PoolInv, Phase
    <2>4. QED
      BY <1>0, <1>1, <1>9, <2>2, <2>3 DEF PoolInv, CallWait, Call
  <1>10. CASE \E k \in Handlers : Post(u, k)
    BY <1>0, <1>1, <1>10 DEF Post, PoolInv, Phase, NoCall
  <1>11. CASE \E x \in Timers : PostAfter(u, x)
    BY <1>11 DEF PostAfter, OneController
  <1>12. CASE \E x \in Timers : StopTimer(u, x)
    BY <1>0, <1>1, <1>12 DEF StopTimer, PoolInv, Phase, NoCall
  <1>13. QED
    BY <1>4, <1>5, <1>6, <1>7, <1>8, <1>9, <1>10, <1>11, <1>12 DEF UserCall

\* Workers leave only a stopped io_context, and only stop() waits then.
LEMMA PoolLoop ==
  ASSUME NEW c, OneController(c), TypeInv, ControlInv(c), PoolInv,
         NEW t \in Threads, LoopStep(t), Lives'
  PROVE  PoolInv'
  <1>1. t \in Workers /\ UNCHANGED <<pc, left, life>> /\ (NoCall' <=> NoCall)
    BY ControlLoop DEF NoCall
  <1>2. CASE EndThread(t)
    <2>1. t \in Alive /\ Alive' = Alive \ {t} /\ iocStopped
      BY <1>1, <1>2 DEF EndThread, Alive, TypeInv, TypeOK, PoolInv
    <2>2. Cardinality(Alive') = Cardinality(Alive) - 1
      BY <2>1, AliveFacts, FS_RemoveElement
    <2>3. ~Settled
      BY <2>1 DEF Settled, TypeInv, TypeOK
    <2>4. \A s \in Threads : Phase(pc[s], left[s])'
      BY <1>1, <1>2, <2>1, <2>3 DEF PoolInv, Phase, EndThread
    <2>5. (active = Cardinality(Alive))'
      BY <1>2, <2>2 DEF PoolInv, EndThread
    <2>6. \A w \in Workers : loop'[w] = "out" => iocStopped'
      BY <1>2, <2>1 DEF EndThread
    <2>7. QED
      BY <1>1, <1>2, <2>3, <2>4, <2>5, <2>6 DEF PoolInv, EndThread
  <1>3. CASE Take(t) \/ Finish(t) \/ Leave(t)
    <2>1. /\ UNCHANGED <<active, size, state, iocStopped>>
          /\ loop[t] # "none" /\ (loop'[t] = "out" => iocStopped)
          /\ \E l : l # "none" /\ loop' = [loop EXCEPT ![t] = l]
      BY <1>1, <1>3, ApplicationAssumption DEF Take, Finish, EndHandler, EndsProcess, Fate,
                                               Lives, Leave, Tasks, TypeInv, TypeOK
    <2>2. Alive' = Alive /\ \A w \in Workers : loop'[w] = "out" => iocStopped'
      BY <1>1, <2>1 DEF Alive, PoolInv, TypeInv, TypeOK, Threads
    <2>3. Settled' <=> Settled
      BY <2>1, <2>2 DEF Settled
    <2>4. \A s \in Threads : Phase(pc[s], left[s])'
      BY <1>1, <2>1, <2>2, <2>3 DEF PoolInv, Phase
    <2>5. QED
      BY <1>1, <2>1, <2>2, <2>3, <2>4 DEF PoolInv
  <1>4. QED
    BY <1>2, <1>3 DEF LoopStep

LEMMA ExpireStep ==
  ASSUME NEW c, TypeInv, ControlInv(c), PoolInv, NEW x \in Timers, Expire(x)
  PROVE  ControlInv(c)' /\ PoolInv'
  <1> DEFINE j == [kind |-> "timer", timer |-> x]
  <1>1. UNCHANGED <<state, iocStopped, active, size, pc, left, loop, life>>
    BY DEF Expire, Inside
  <1>2. ready' = Append(ready, j) /\ ready \in Seq(Job) /\ j \in Job
    BY DEF Expire, TypeInv, TypeOK, Job
  <1>3. /\ Len(ready') = Len(ready) + 1 /\ Len(ready) \in Nat
        /\ \A i \in 1..Len(ready) : ready'[i] = ready[i]
        /\ ready'[Len(ready) + 1] = j
    BY <1>2, AppendFacts
  <1>4. \A i \in 1..Len(ready') : ready'[i].kind \notin {"stop", "after"}
    <2> TAKE i \in 1..Len(ready')
    <2>1. i \in 1..Len(ready) \/ i = Len(ready) + 1
      BY <1>3
    <2>2. QED
      BY <1>3, <2>1 DEF ControlInv
  <1>5. ControlInv(c)'
    BY <1>1, <1>4 DEF ControlInv
  <1>6. PoolInv'
    BY <1>1 DEF PoolInv, Alive, Phase, Settled, NoCall
  <1>7. QED
    BY <1>5, <1>6

LEMMA InvStep ==
  ASSUME NEW c, OneController(c), Inv(c), [Next]_vars
  PROVE  Inv(c)'
  <1> USE DEF Inv
  <1>0. TypeInv'
    BY TypeStep
  <1> SUFFICES ASSUME Lives' PROVE ControlInv(c)' /\ PoolInv'
    BY <1>0
  <1>6. ControlInv(c) /\ PoolInv
    <2>1. CASE \E u \in Users : UserCall(u)
      BY <2>1 DEF UserCall, CallStart, CallStop, CallRun, CallWait, Call, Destroy, Post,
                  PostAfter, After, StopTimer, Between, Lives
    <2>2. CASE \E t \in Threads : CallStep(t) \/ LoopStep(t)
      BY <2>2 DEF CallStep, LoopStep, Take, Finish, EndHandler, Leave, EndThread
    <2>3. CASE \E x \in Timers : Expire(x)
      BY <2>3 DEF Expire
    <2>4. CASE UNCHANGED vars
      BY <2>4 DEF vars, Lives
    <2>5. QED
      BY <2>1, <2>2, <2>3, <2>4 DEF Next
  <1>1. CASE \E u \in Users : UserCall(u)
    BY <1>1, <1>6, ControlUser, PoolUser
  <1>2. CASE \E t \in Threads : CallStep(t)
    BY <1>2, <1>6, ControlCall, PoolCall
  <1>3. CASE \E t \in Threads : LoopStep(t)
    BY <1>3, <1>6, ControlLoop, PoolLoop
  <1>4. CASE \E x \in Timers : Expire(x)
    BY <1>4, <1>6, ExpireStep
  <1>5. CASE UNCHANGED vars
    BY <1>5, <1>6 DEF vars, ControlInv, PoolInv, Alive, Phase, Settled, NoCall
  <1>7. QED
    BY <1>1, <1>2, <1>3, <1>4, <1>5 DEF Next

LEMMA Invariance == ASSUME NEW c, OneController(c) PROVE Spec => []Inv(c)
  <1>1. Init => Inv(c)
    BY TypeInit, ControlInit, PoolInit DEF Inv
  <1>2. Inv(c) /\ [Next]_vars => Inv(c)'
    BY InvStep
  <1>3. QED
    BY <1>1, <1>2, PTL DEF Spec

----------------------------------------------------------------------------
(* The theorems.                                                           *)

\* _active_threads counts the workers through any number of starts and stops.
THEOREM PoolIsCounted ==
  ASSUME NEW c, OneController(c) PROVE Spec => []ActiveCounts
  <1>1. Inv(c) => ActiveCounts
    BY DEF Inv, PoolInv, ActiveCounts
  <1>2. QED
    BY <1>1, Invariance, PTL

\* No worker runs between the return of stop() and the next start().
THEOREM StopIsFinal ==
  ASSUME NEW c, OneController(c) PROVE Spec => []StopQuiesces
  <1>1. Inv(c) => StopQuiesces
    BY DEF Inv, PoolInv, StopQuiesces, Settled
  <1>2. QED
    BY <1>1, Invariance, PTL

\* As long as the process lives, a started application is served by its whole
\* pool: a handler that throws a std::exception takes no thread from it.  One that
\* throws anything else ends the process, which is why the invariant is one of a
\* process that lives.
THEOREM PoolIsWhole ==
  ASSUME NEW c, OneController(c) PROVE Spec => []PoolServes
  <1>1. Inv(c) => PoolServes
    BY DEF Inv, PoolInv, PoolServes, Settled
  <1>2. QED
    BY <1>1, Invariance, PTL

\* The destructor returns only when no worker is left.
THEOREM DestroyedWithoutWorkers ==
  ASSUME NEW c, OneController(c) PROVE Spec => []NoUseAfterDestroy
  <1>1. Inv(c) => NoUseAfterDestroy
    BY DEF Inv, PoolInv, NoUseAfterDestroy, Settled, Lives
  <1>2. QED
    BY <1>1, Invariance, PTL

----------------------------------------------------------------------------
(* The signal set, beside any use of the application.                      *)

SignalTypeOK ==
    /\ set \in {"new", "idle", "waiting", "posted", "off"}
    /\ at \in [Threads -> {"none", "callback", "check", "recheck", "starting", "arm", "end"}]
    /\ ahead \in Nat
    /\ raised \in Nat
    /\ served \in Nat

SignalInv == TypeInv /\ SignalTypeOK /\ SingleWait

LEMMA SignalStart == SignalInit => SignalInv
  <1> SUFFICES ASSUME SignalInit PROVE SignalInv
    OBVIOUS
  <1>1. TypeInv
    BY TypeInit DEF SignalInit
  <1>2. SignalTypeOK
    BY DEF SignalInit, SignalTypeOK
  <1>3. SingleWait
    BY DEF SignalInit, SingleWait, InHand
  <1>4. QED
    BY <1>1, <1>2, <1>3 DEF SignalInv

\* Nothing of the set changes, and its handler stays where it is in the queue.
LEMMA SingleKept ==
  ASSUME SignalInv, UNCHANGED signals,
         Len(ready') >= Len(ready), \A i \in 1..Len(ready) : ready'[i] = ready[i]
  PROVE  SignalTypeOK' /\ SingleWait'
  <1>1. UNCHANGED <<set, at, ahead, raised, served>>
    BY DEF signals
  <1>2. SignalTypeOK'
    BY <1>1 DEF SignalInv, SignalTypeOK
  <1>3. ASSUME set = "posted"
        PROVE  ahead < Len(ready') /\ ready'[ahead + 1].kind \in Callbacks
    <2>1. ahead \in Nat /\ ready \in Seq(Job) /\ ahead < Len(ready)
          /\ ready[ahead + 1].kind \in Callbacks
      BY <1>3 DEF SignalInv, SignalTypeOK, SingleWait, TypeInv, TypeOK
    <2>2. ahead + 1 \in 1..Len(ready)
      BY <2>1
    <2>3. QED
      BY <2>1, <2>2
  <1>4. QED
    BY <1>1, <1>2, <1>3 DEF SignalInv, SingleWait, InHand

\* What is not said of the signal set changes the queue at its end only.
LEMMA OthersAppend ==
  ASSUME TypeInv, OtherStep
  PROVE  ready' = ready \/ \E j \in Job : ready' = Append(ready, j)
  <1> USE DEF Tasks
  <1>1. CASE \E u \in Users : OtherCall(u)
    <2> PICK u \in Users : UserCall(u)
      BY <1>1 DEF OtherCall
    <2>1. CASE CallStart(u) \/ CallStop(u) \/ CallRun(u) \/ CallWait(u) \/ Destroy(u)
      BY <2>1 DEF CallStart, CallStop, CallRun, CallWait, Call, Destroy
    <2>2. CASE \E k \in Handlers : Post(u, k)
      <3> PICK k \in Handlers : Post(u, k)
        BY <2>2
      <3>1. Handler(k) \in Job
        BY ApplicationAssumption DEF Post, Handler, Job
      <3>2. QED
        BY <3>1 DEF Post
    <2>3. CASE \E x \in Timers : PostAfter(u, x)
      <3> PICK x \in Timers : PostAfter(u, x)
        BY <2>3
      <3>1. [kind |-> "after", timer |-> x] \in Job
        BY DEF Job
      <3>2. QED
        BY <3>1 DEF PostAfter
    <2>4. CASE \E x \in Timers : After(u, x) \/ StopTimer(u, x)
      BY <2>4 DEF After, StopTimer
    <2>5. QED
      BY <2>1, <2>2, <2>3, <2>4 DEF UserCall
  <1>2. CASE \E t \in Threads : CallStep(t)
    <2> PICK t \in Threads : CallStep(t)
      BY <1>2
    <2>1. CASE StartStep(t)
      BY <2>1 DEF StartStep, StartCheck, StartRestart, StartMark, StartReset, StartSpawn,
                  SpawnOne
    <2>2. CASE StopStep(t)
      BY <2>2 DEF StopStep, StopCheck, LeaveStop, EnterStop, StopMark, StopCancel,
                  StopContext, StopReturn
    <2>3. CASE ~StartStep(t) /\ ~StopStep(t)
      BY <2>3 DEF CallStep, RunRestart, RunMark, WaitReturn, TimerCheck, TimerRecheck, TimerArm
    <2>4. QED
      BY <2>1, <2>2, <2>3
  <1>3. CASE \E t \in Threads : Leave(t) \/ EndThread(t)
    BY <1>3 DEF Leave, EndThread
  <1>4. CASE \E x \in Timers : Expire(x)
    <2> PICK x \in Timers : Expire(x)
      BY <1>4
    <2>1. [kind |-> "timer", timer |-> x] \in Job
      BY DEF Job
    <2>2. QED
      BY <2>1 DEF Expire
  <1>5. QED
    BY <1>1, <1>2, <1>3, <1>4 DEF OtherStep

LEMMA SignalOther == ASSUME SignalInv, OtherStep PROVE SignalInv'
  <1>1. TypeInv /\ UNCHANGED signals
    BY DEF SignalInv, OtherStep
  <1>2. [Next]_vars
    BY DEF OtherStep, OtherCall, Next, LoopStep
  <1>3. TypeInv'
    BY <1>1, <1>2, TypeStep
  <1>4. Len(ready') >= Len(ready) /\ \A i \in 1..Len(ready) : ready'[i] = ready[i]
    <2>1. ready \in Seq(Job) /\ Len(ready) \in Nat
      BY <1>1 DEF TypeInv, TypeOK
    <2>2. CASE ready' = ready
      BY <2>1, <2>2
    <2>3. CASE \E j \in Job : ready' = Append(ready, j)
      BY <2>1, <2>3, AppendFacts
    <2>4. QED
      BY <1>1, <2>2, <2>3, OthersAppend
  <1>5. QED
    BY <1>1, <1>3, <1>4, SingleKept DEF SignalInv

\* signal() and run() move the set from hand to hand, with the queue as it is.
LEMMA SignalRun ==
  ASSUME SignalInv, NEW t \in Threads,
         CallSignal(t) \/ RunCheck(t) \/ RunRecheck(t) \/ RunArm(t) \/ Rerun(t)
  PROVE  SignalInv'
  <1> USE DEF SignalInv
  <1>1. ready' = ready
    BY DEF CallSignal, RunCheck, RunRecheck, RunArm, Rerun, vars, Tasks
  <1>2. TypeInv'
    <2>1. CASE RunRecheck(t) /\ state # "started"
      BY <2>1 DEF RunRecheck, TypeInv, TypeOK, PC, Goto, Tasks, Inside
    <2>2. CASE UNCHANGED vars
      BY <2>2, TypeStep
    <2>3. QED
      BY <2>1, <2>2 DEF CallSignal, RunCheck, RunRecheck, RunArm, Rerun
  <1>3. UNCHANGED <<ahead, raised, served>>
    BY DEF CallSignal, RunCheck, RunRecheck, RunArm, Rerun
  <1>4. CASE CallSignal(t)
    <2>1. set = "new" /\ set' = "idle" /\ at' = [at EXCEPT ![t] = "check"]
      BY <1>4 DEF CallSignal, Move
    <2>2. SignalTypeOK'
      BY <1>3, <2>1 DEF SignalTypeOK
    <2>3. SingleWait'
      BY <1>1, <1>3, <2>1 DEF SignalTypeOK, SingleWait, InHand
    <2>4. QED
      BY <1>2, <2>2, <2>3
  <1>5. CASE (RunCheck(t) /\ state = "stopped") \/ RunArm(t)
    <2>1. /\ InHand(t) /\ set' \in {"off", "waiting"}
          /\ \E l \in {"none", "end"} : at' = [at EXCEPT ![t] = l]
      BY <1>5 DEF RunCheck, RunArm, Move, Leaving, InHand
    <2>2. SignalTypeOK'
      BY <1>3, <2>1 DEF SignalTypeOK
    <2>3. \A s \in Threads : ~InHand(s)'
      BY <2>1 DEF SignalTypeOK, SingleWait, InHand
    <2>4. served <= raised
      BY <2>1 DEF SignalTypeOK, SingleWait
    <2>5. SingleWait'
      BY <1>3, <2>1, <2>3, <2>4 DEF SignalTypeOK, SingleWait
    <2>6. QED
      BY <1>2, <2>2, <2>5
  <1>6. CASE (RunCheck(t) /\ state # "stopped") \/ RunRecheck(t) \/ Rerun(t)
    <2>1. /\ InHand(t) /\ set' = set
          /\ \E l \in {"check", "recheck", "starting", "arm"} : at' = [at EXCEPT ![t] = l]
      BY <1>6 DEF RunCheck, RunRecheck, Rerun, Move, InHand
    <2>2. SignalTypeOK'
      BY <1>3, <2>1 DEF SignalTypeOK
    <2>3. \A s \in Threads : InHand(s)' <=> InHand(s)
      BY <2>1 DEF SignalTypeOK, InHand
    <2>4. SingleWait'
      BY <1>1, <1>3, <2>1, <2>3 DEF SingleWait
    <2>5. QED
      BY <1>2, <2>2, <2>4
  <1>7. QED
    BY <1>4, <1>5, <1>6

\* A signal is sent, and its handler joins the queue.
LEMMA SignalSent == ASSUME SignalInv, Raise \/ Deliver PROVE SignalInv'
  <1> USE DEF SignalInv
  <1>1. CASE Raise
    <2>1. TypeInv' /\ UNCHANGED <<ready, set, at, ahead, served>> /\ raised' = raised + 1
      BY <1>1, TypeStep DEF Raise, vars
    <2>2. QED
      BY <2>1 DEF SignalTypeOK, SingleWait, InHand
  <1>2. CASE Deliver
    <2>1. PICK k \in Callbacks : ready' = Append(ready, Handler(k))
      BY <1>2 DEF Deliver
    <2>2. Handler(k) \in Job /\ Handler(k).kind = k
      BY SignalAssumption DEF Handler, Job
    <2>3. ready \in Seq(Job) /\ Len(ready) \in Nat
      BY DEF TypeInv, TypeOK
    <2>4. /\ Len(ready') = Len(ready) + 1 /\ ready'[Len(ready) + 1] = Handler(k)
          /\ ready' \in Seq(Job)
      BY <2>1, <2>2, <2>3, AppendFacts
    <2>5. TypeInv'
      BY <1>2, <2>4 DEF Deliver, TypeInv, TypeOK, Inside
    <2>6. /\ set = "waiting" /\ set' = "posted" /\ served < raised
          /\ ahead' = Len(ready) /\ UNCHANGED <<at, raised, served>>
      BY <1>2 DEF Deliver
    <2>7. SignalTypeOK'
      BY <2>3, <2>6 DEF SignalTypeOK
    <2>8. SingleWait'
      BY <2>2, <2>3, <2>4, <2>6 DEF SignalTypeOK, SingleWait, InHand
    <2>9. QED
      BY <2>5, <2>7, <2>8
  <1>3. QED
    BY <1>1, <1>2

\* A thread takes the handler of the set, or one that is before it or behind it.
LEMMA SignalTaken ==
  ASSUME SignalInv, NEW t \in Threads, TakeNext(t)
  PROVE  SignalInv'
  <1> USE DEF SignalInv
  <1>1. TypeInv'
    BY TypeStep DEF TakeNext, Next, LoopStep
  <1>2. ready \in Seq(Job) /\ ready # <<>> /\ ready' = Tail(ready)
    BY DEF TakeNext, Take, TypeInv, TypeOK
  <1>3. /\ Len(ready) \in Nat /\ Len(ready') = Len(ready) - 1
        /\ \A i \in 1..Len(ready') : ready'[i] = ready[i + 1]
    BY <1>2
  <1>4. CASE set = "posted" /\ ahead = 0
    <2>1. /\ set' = "idle" /\ served' = served + 1 /\ UNCHANGED <<ahead, raised>>
          /\ at' = [at EXCEPT ![t] = "callback"]
      BY <1>4 DEF TakeNext, Move
    <2>2. SignalTypeOK'
      BY <2>1 DEF SignalTypeOK
    <2>3. \A s \in Threads : InHand(s)' <=> s = t
      BY <1>4, <2>1 DEF SignalTypeOK, SingleWait, InHand
    <2>4. served' <= raised'
      BY <1>4, <2>1 DEF SignalTypeOK, SingleWait
    <2>5. SingleWait'
      BY <2>1, <2>2, <2>3, <2>4 DEF SignalTypeOK, SingleWait
    <2>6. QED
      BY <1>1, <2>2, <2>5
  <1>5. CASE set = "posted" /\ ahead # 0
    <2>1. ahead' = ahead - 1 /\ UNCHANGED <<set, at, served, raised>>
      BY <1>5 DEF TakeNext
    <2>2. SignalTypeOK'
      BY <1>5, <2>1 DEF SignalTypeOK
    <2>3. ahead \in Nat /\ ahead < Len(ready) /\ ready[ahead + 1].kind \in Callbacks
      BY <1>5 DEF SignalTypeOK, SingleWait
    <2>4. ahead' \in 1..Len(ready') \/ ahead' = 0
      BY <1>3, <1>5, <2>1, <2>3
    <2>5. ahead' < Len(ready') /\ ahead' + 1 \in 1..Len(ready') /\ ahead' + 2 = ahead + 1
      BY <1>3, <1>5, <2>1, <2>3
    <2>6. ready'[ahead' + 1] = ready[ahead + 1]
      BY <1>3, <1>5, <2>1, <2>3, <2>5
    <2>7. SingleWait'
      BY <2>1, <2>3, <2>5, <2>6 DEF SingleWait, InHand
    <2>8. QED
      BY <1>1, <2>2, <2>7
  <1>6. CASE set # "posted"
    <2>1. UNCHANGED <<set, at, served, raised, ahead>>
      BY <1>6 DEF TakeNext
    <2>2. QED
      BY <1>1, <1>6, <2>1 DEF SignalTypeOK, SingleWait, InHand
  <1>7. QED
    BY <1>4, <1>5, <1>6

\* A handler ends: that of the set has run it again, or has thrown.
LEMMA SignalFinished ==
  ASSUME SignalInv, NEW t \in Threads, FinishNext(t)
  PROVE  SignalInv'
  <1> USE DEF SignalInv
  <1>1. TypeInv' /\ UNCHANGED <<ready, ahead, raised, served>>
    BY TypeStep DEF FinishNext, Finish, EndHandler, Next, LoopStep
  <1>2. at' = [at EXCEPT ![t] = "none"]
    BY DEF FinishNext, Move
  <1>3. CASE at[t] \in {"none", "end"} /\ UNCHANGED set
    <2>1. \A s \in Threads : InHand(s)' <=> InHand(s)
      BY <1>2, <1>3 DEF SignalTypeOK, InHand
    <2>2. SignalTypeOK'
      BY <1>1, <1>2, <1>3 DEF SignalTypeOK
    <2>3. QED
      BY <1>1, <1>3, <2>1, <2>2 DEF SingleWait
  <1>4. CASE at[t] = "callback" /\ set' = "off"
    <2>1. InHand(t) /\ set = "idle"
      BY <1>4 DEF SingleWait, InHand
    <2>2. \A s \in Threads : ~InHand(s)'
      BY <1>2, <2>1 DEF SignalTypeOK, SingleWait, InHand
    <2>3. SignalTypeOK'
      BY <1>1, <1>2, <1>4 DEF SignalTypeOK
    <2>4. served <= raised
      BY <2>1 DEF SignalTypeOK, SingleWait
    <2>5. SingleWait'
      BY <1>1, <1>4, <2>2, <2>4 DEF SignalTypeOK, SingleWait
    <2>6. QED
      BY <1>1, <2>3, <2>5
  <1>5. QED
    BY <1>3, <1>4 DEF FinishNext

LEMMA SignalStep == SignalInv /\ [SignalNext]_signalVars => SignalInv'
  <1> SUFFICES ASSUME SignalInv, [SignalNext]_signalVars PROVE SignalInv'
    OBVIOUS
  <1>1. CASE \E u \in Watchers : CallSignal(u)
    BY <1>1, SignalRun, SignalAssumption DEF Threads
  <1>2. CASE \E t \in Threads : RunStep(t)
    BY <1>2, SignalRun DEF RunStep
  <1>3. CASE \E t \in Threads : HandlerStep(t)
    BY <1>3, SignalTaken, SignalFinished DEF HandlerStep
  <1>4. CASE Raise \/ Deliver
    BY <1>4, SignalSent
  <1>5. CASE OtherStep
    BY <1>5, SignalOther
  <1>6. CASE UNCHANGED signalVars
    <2>1. UNCHANGED vars /\ UNCHANGED <<set, at, ahead, raised, served>>
      BY <1>6 DEF signalVars, signals
    <2>2. TypeInv' /\ ready' = ready
      BY <2>1, TypeStep DEF SignalInv, vars
    <2>3. QED
      BY <2>1, <2>2 DEF SignalInv, SignalTypeOK, SingleWait, InHand
  <1>7. QED
    BY <1>1, <1>2, <1>3, <1>4, <1>5, <1>6 DEF SignalNext

\* Whatever starts and stops the application meanwhile, from other threads,
\* handlers and callbacks, a signal set is in one place: it waits once, has one
\* handler queued or is in the hand of one thread, until it is gone for good.
THEOREM OneWaitOutstanding == SignalSpec => []SingleWait
  <1>1. SignalInv => SingleWait
    BY DEF SignalInv
  <1>2. QED
    BY <1>1, SignalStart, SignalStep, PTL DEF SignalSpec
=============================================================================
