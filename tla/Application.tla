---------------------------- MODULE Application ----------------------------
(***************************************************************************)
(* beauty::application (application.cpp): the pool of detached threads     *)
(* that run the io_context, and start(), stop(), run(), wait() and the     *)
(* destructor, with the timers of the singleton (timer.cpp).               *)
(*                                                                         *)
(* Any thread can make these calls, a worker of the pool from inside a     *)
(* handler included, and no lock protects them: _state and _active_threads *)
(* are atomics.  A call is a program counter and every access to shared    *)
(* state is a step of its own.  Handlers of the io_context are run in      *)
(* first-in first-out order by the threads that are inside ioc().run().    *)
(***************************************************************************)
EXTENDS Integers, Sequences, FiniteSets

CONSTANTS Starters,    \* user threads that call start()
          Stoppers,    \* user threads that call stop()
          Runners,     \* user threads that call run()
          Waiters,     \* user threads that call wait()
          Posters,     \* user threads that call post()
          Creators,    \* user threads that call after() or repeat()
          Destroyers,  \* user threads that destroy the application
          Workers,     \* threads start() can create
          Pool,        \* its concurrency
          Timers,      \* timers made with after() or repeat()
          Repeating,   \* those whose callback returns true
          NoTimer,     \* "no timer"
          Handlers,    \* what posted handlers do: return ("plain"), throw a
                       \* std::exception ("throw") or an exception of another type
                       \* ("abort"), call stop() ("stop") or make a timer ("after")
          MaxReady     \* bound on the queue of ready handlers for post()

Users == Starters \cup Stoppers \cup Runners \cup Waiters \cup Posters
         \cup Creators \cup Destroyers
Threads == Users \cup Workers

ASSUME ApplicationAssumption ==
    /\ Users \cap Workers = {}
    /\ Pool \in Nat \ {0}
    /\ Repeating \subseteq Timers
    /\ NoTimer \notin Timers
    /\ Handlers \subseteq {"plain", "throw", "abort", "stop", "after"}
    /\ MaxReady \in Nat

VARIABLES state,       \* _state
          iocStopped,  \* the io_context is stopped
          active,      \* _active_threads
          size,        \* _threads.size()
          ready,       \* handlers ready to run, in the order they became so
          timer,       \* the state of each timer
          registered,  \* application::timers
          pc,          \* the call each thread is in
          left,        \* threads it still has to create in start()
          arming,      \* the timer for whose sake it is in start()
          loop,        \* where each thread is in ioc().run()
          job,         \* the handler it runs there
          life         \* the application: "alive", in its destructor ("dying"), "dead",
                       \* or the process has "ended"

vars == <<state, iocStopped, active, size, ready, timer, registered, pc, left, arming,
          loop, job, life>>

Job == [kind : {"plain", "throw", "abort", "stop"}, timer : {NoTimer}]
       \cup [kind : {"after", "timer"}, timer : Timers]
Handler(k) == [kind |-> k, timer |-> NoTimer]

TimerState == {"new", "made", "armed", "due", "called", "off"}

Init ==
    /\ state = "waiting"
    /\ iocStopped = FALSE
    /\ active = 0
    /\ size = 0
    /\ ready = <<>>
    /\ timer = [x \in Timers |-> "new"]
    /\ registered = {}
    /\ pc = [t \in Threads |-> "idle"]
    /\ left = [t \in Threads |-> 0]
    /\ arming = [t \in Threads |-> NoTimer]
    /\ loop = [t \in Threads |-> "none"]
    /\ job = [t \in Threads |-> Handler("plain")]
    /\ life = "alive"

\* The process has not ended; no thread takes a step after that.
Lives == life # "ended"

\* A user thread between two calls.
Between(u) == life = "alive" /\ pc[u] = "idle" /\ loop[u] = "none"

Goto(t, l) == pc' = [pc EXCEPT ![t] = l]

Tasks == <<ready, timer, registered>>
Inside == <<loop, job>>

----------------------------------------------------------------------------
(* Calls made by user threads.                                             *)
Call(u, l) ==
    /\ Between(u)
    /\ Goto(u, l)
    /\ UNCHANGED <<state, iocStopped, active, size, Tasks, left, arming, Inside, life>>

CallStart(u) == u \in Starters /\ Call(u, "start")
CallStop(u) == u \in Stoppers /\ Call(u, "stop")
CallRun(u) == u \in Runners /\ Call(u, "run")
CallWait(u) == u \in Waiters /\ Call(u, "wait")

Post(u, k) ==
    /\ u \in Posters /\ Between(u)
    /\ Len(ready) < MaxReady
    /\ k # "after"
    /\ ready' = Append(ready, Handler(k))
    /\ UNCHANGED <<state, iocStopped, active, size, timer, registered, pc, left, arming,
                   Inside, life>>

\* A handler that will create the timer x.
PostAfter(u, x) ==
    /\ u \in Posters /\ Between(u)
    /\ Len(ready) < MaxReady
    /\ "after" \in Handlers
    /\ timer[x] = "new"
    /\ timer' = [timer EXCEPT ![x] = "made"]
    /\ ready' = Append(ready, [kind |-> "after", timer |-> x])
    /\ UNCHANGED <<state, iocStopped, active, size, registered, pc, left, arming,
                   Inside, life>>

After(u, x) ==
    /\ u \in Creators /\ Between(u)
    /\ timer[x] = "new"
    /\ timer' = [timer EXCEPT ![x] = "made"]
    /\ Goto(u, "check")
    /\ arming' = [arming EXCEPT ![u] = x]
    /\ UNCHANGED <<state, iocStopped, active, size, ready, registered, left, Inside, life>>

\* timer::stop(), by whoever made the timer: only a wait that goes on is cancelled.
StopTimer(u, x) ==
    /\ u \in Creators /\ Between(u)
    /\ timer[x] \notin {"new", "made"}
    /\ timer' = [timer EXCEPT ![x] = IF @ = "armed" THEN "off" ELSE @]
    /\ UNCHANGED <<state, iocStopped, active, size, ready, registered, pc, left, arming,
                   Inside, life>>

(* The destructor, which no user thread may race: it calls stop(false).    *)
Destroy(u) ==
    /\ u \in Destroyers
    /\ \A v \in Users : Between(v)
    /\ life' = "dying"
    /\ Goto(u, "stop")
    /\ UNCHANGED <<state, iocStopped, active, size, Tasks, left, arming, Inside>>

Destroying(t) == life = "dying" /\ t \in Destroyers

----------------------------------------------------------------------------
(* start()                                                                 *)
AfterStart(t) == IF arming[t] = NoTimer THEN "idle" ELSE "register"

StartCheck(t) ==
    /\ pc[t] = "start"
    /\ Goto(t, IF state = "started" THEN AfterStart(t) ELSE "restart")
    /\ UNCHANGED <<state, iocStopped, active, size, Tasks, left, arming, Inside, life>>

\* Mutant: start() does not restart a stopped io_context.
StartRestartForgets(t) ==
    /\ pc[t] = "restart"
    /\ Goto(t, "mark")
    /\ UNCHANGED <<state, iocStopped, active, size, Tasks, left, arming, Inside, life>>

StartRestart(t) ==
    /\ pc[t] = "restart"
    /\ iocStopped' = IF state = "stopped" THEN FALSE ELSE iocStopped
    /\ Goto(t, "mark")
    /\ UNCHANGED <<state, active, size, Tasks, left, arming, Inside, life>>

StartMark(t) ==
    /\ pc[t] = "mark"
    /\ state' = "started"
    /\ Goto(t, "reset")
    /\ UNCHANGED <<iocStopped, active, size, Tasks, left, arming, Inside, life>>

StartReset(t) ==
    /\ pc[t] = "reset"
    /\ active' = 0
    /\ size' = IF arming[t] = NoTimer THEN Pool ELSE 1
    /\ left' = [left EXCEPT ![t] = size']
    /\ Goto(t, "spawn")
    /\ UNCHANGED <<state, iocStopped, Tasks, arming, Inside, life>>

SpawnOne(t, l) ==
    /\ \E w \in Workers :
        /\ loop[w] = "none"
        /\ loop' = [loop EXCEPT ![w] = "run"]
    /\ active' = active + 1
    /\ left' = [left EXCEPT ![t] = @ - 1]
    /\ Goto(t, l)
    /\ UNCHANGED <<state, iocStopped, size, Tasks, arming, job, life>>

StartSpawn(t) ==
    pc[t] = "spawn" /\ SpawnOne(t, IF left[t] = 1 THEN AfterStart(t) ELSE "spawn")

(* stop(): the destructor calls it without reset.                          *)
LeaveStop(t) ==
    /\ Goto(t, "idle")
    /\ life' = IF Destroying(t) THEN "dead" ELSE life
    /\ UNCHANGED <<state, iocStopped, active, size, Tasks, left, arming, Inside>>

EnterStop(t) ==
    /\ Goto(t, "halt")
    /\ UNCHANGED <<state, iocStopped, active, size, Tasks, left, arming, Inside, life>>

\* Mutant: the destructor does not stop the application.
StopCheckInDestructor(t) ==
    /\ pc[t] = "stop"
    /\ IF state = "stopped" \/ Destroying(t) THEN LeaveStop(t) ELSE EnterStop(t)

StopCheck(t) ==
    /\ pc[t] = "stop"
    /\ IF state = "stopped" THEN LeaveStop(t) ELSE EnterStop(t)

StopMark(t) ==
    /\ pc[t] = "halt"
    /\ state' = "stopped"
    /\ Goto(t, IF Destroying(t) THEN "break" ELSE "cancel")
    /\ UNCHANGED <<iocStopped, active, size, Tasks, left, arming, Inside, life>>

\* A timer whose wait is over already is not reached by cancel().
StopCancel(t) ==
    /\ pc[t] = "cancel"
    /\ timer' = [x \in Timers |->
                    IF x \in registered /\ timer[x] = "armed" THEN "off" ELSE timer[x]]
    /\ registered' = {}
    /\ Goto(t, "break")
    /\ UNCHANGED <<state, iocStopped, active, size, ready, left, arming, Inside, life>>

StopContext(t) ==
    /\ pc[t] = "break"
    /\ iocStopped' = TRUE
    /\ Goto(t, "drain")
    /\ UNCHANGED <<state, active, size, Tasks, left, arming, Inside, life>>

\* Mutant: stop() does not wait for the workers.
StopReturnAtOnce(t) == pc[t] = "drain" /\ LeaveStop(t)

StopReturn(t) ==
    /\ pc[t] = "drain"
    /\ active = 0
    /\ LeaveStop(t)

(* run(), up to ioc().run(), and wait()                                    *)
RunRestart(t) ==
    /\ pc[t] = "run"
    /\ iocStopped' = IF state = "stopped" THEN FALSE ELSE iocStopped
    /\ Goto(t, "enter")
    /\ UNCHANGED <<state, active, size, Tasks, left, arming, Inside, life>>

RunMark(t) ==
    /\ pc[t] = "enter"
    /\ state' = "started"
    /\ loop' = [loop EXCEPT ![t] = "run"]
    /\ Goto(t, "idle")
    /\ UNCHANGED <<iocStopped, active, size, Tasks, left, arming, job, life>>

WaitReturn(t) ==
    /\ pc[t] = "wait"
    /\ state = "stopped"
    /\ Goto(t, "idle")
    /\ UNCHANGED <<state, iocStopped, active, size, Tasks, left, arming, Inside, life>>

----------------------------------------------------------------------------
(* timer::start(): check_application() reads the state twice.              *)
TimerCheck(t) ==
    /\ pc[t] = "check"
    /\ Goto(t, IF state = "stopped" THEN "register" ELSE "recheck")
    /\ UNCHANGED <<state, iocStopped, active, size, Tasks, left, arming, Inside, life>>

TimerRecheck(t) ==
    /\ pc[t] = "recheck"
    /\ Goto(t, IF state = "started" THEN "register" ELSE "start")
    /\ UNCHANGED <<state, iocStopped, active, size, Tasks, left, arming, Inside, life>>

TimerArm(t) ==
    /\ pc[t] = "register"
    /\ registered' = registered \cup {arming[t]}
    /\ timer' = [timer EXCEPT ![arming[t]] = "armed"]
    /\ arming' = [arming EXCEPT ![t] = NoTimer]
    /\ Goto(t, "idle")
    /\ UNCHANGED <<state, iocStopped, active, size, ready, left, Inside, life>>

\* The wait is over: a thread that polls the io_context queues the handler.
Expire(x) ==
    /\ Lives /\ timer[x] = "armed"
    /\ \E t \in Threads : loop[t] = "run"
    /\ timer' = [timer EXCEPT ![x] = "due"]
    /\ ready' = Append(ready, [kind |-> "timer", timer |-> x])
    /\ UNCHANGED <<state, iocStopped, active, size, registered, pc, left, arming, Inside, life>>

----------------------------------------------------------------------------
(* Threads inside ioc().run().                                             *)
Entry(k) == IF k = "stop" THEN "stop" ELSE IF k = "after" THEN "check" ELSE "idle"

Take(t) ==
    LET j == Head(ready) IN
    /\ Lives /\ loop[t] = "run" /\ ~iocStopped
    /\ ready # <<>>
    /\ ready' = Tail(ready)
    /\ loop' = [loop EXCEPT ![t] = "handler"]
    /\ job' = [job EXCEPT ![t] = j]
    /\ Goto(t, Entry(j.kind))
    /\ arming' = [arming EXCEPT ![t] = IF j.kind = "after" THEN j.timer ELSE NoTimer]
    /\ timer' = IF j.kind = "timer" THEN [timer EXCEPT ![j.timer] = "called"] ELSE timer
    /\ UNCHANGED <<state, iocStopped, active, size, registered, left, life>>

(* The handler ends and its thread goes on to l.  The callback of a        *)
(* repeating timer returns true: rearm().                                  *)
EndHandler(t, l) ==
    LET j == job[t] IN
    /\ Lives /\ loop[t] = "handler" /\ pc[t] = "idle"
    /\ loop' = [loop EXCEPT ![t] = l]
    /\ timer' = IF j.kind = "timer"
                THEN [timer EXCEPT ![j.timer] =
                         IF j.timer \in Repeating THEN "armed" ELSE "off"]
                ELSE timer
    /\ UNCHANGED <<state, iocStopped, active, size, ready, registered, pc, left, arming,
                   job>>

\* What a handler may throw.  A worker catches const std::exception &; any other
\* exception leaves the function of its thread, which ends the process.
Throws(t) == job[t].kind \in {"throw", "abort"}
EndsProcess(t) == t \in Workers /\ job[t].kind = "abort"
Fate(t) == life' = IF EndsProcess(t) THEN "ended" ELSE life

\* Mutant: an exception ends the worker, which is not counted out.
FinishUncounted(t) == EndHandler(t, IF Throws(t) THEN "none" ELSE "run") /\ Fate(t)

\* Mutant: an exception ends the worker.
FinishEndsWorker(t) ==
    /\ EndHandler(t, IF EndsProcess(t) THEN "none" ELSE IF Throws(t) THEN "out" ELSE "run")
    /\ Fate(t)

(* A worker catches what a handler throws, if it can, and runs the         *)
(* io_context again; out of run() every exception reaches the user.        *)
Finish(t) ==
    /\ EndHandler(t, IF EndsProcess(t) \/ (Throws(t) /\ t \in Users) THEN "none" ELSE "run")
    /\ Fate(t)

\* Mutant: run() goes on with the handlers of a stopped io_context.
LeaveEmpty(t) ==
    /\ Lives /\ loop[t] = "run" /\ iocStopped
    /\ ready = <<>>
    /\ loop' = [loop EXCEPT ![t] = IF t \in Users THEN "none" ELSE "out"]
    /\ UNCHANGED <<state, iocStopped, active, size, Tasks, pc, left, arming, job, life>>

Leave(t) ==
    /\ Lives /\ loop[t] = "run" /\ iocStopped
    /\ loop' = [loop EXCEPT ![t] = IF t \in Users THEN "none" ELSE "out"]
    /\ UNCHANGED <<state, iocStopped, active, size, Tasks, pc, left, arming, job, life>>

EndThread(t) ==
    /\ Lives /\ loop[t] = "out"
    /\ active' = active - 1
    /\ loop' = [loop EXCEPT ![t] = "none"]
    /\ UNCHANGED <<state, iocStopped, size, Tasks, pc, left, arming, job, life>>

----------------------------------------------------------------------------
UserCall(u) ==
    \/ CallStart(u) \/ CallStop(u) \/ CallRun(u) \/ CallWait(u) \/ Destroy(u)
    \/ \E k \in Handlers : Post(u, k)
    \/ \E x \in Timers : PostAfter(u, x) \/ After(u, x) \/ StopTimer(u, x)

StartStep(t) ==
    StartCheck(t) \/ StartRestart(t) \/ StartMark(t) \/ StartReset(t) \/ StartSpawn(t)

StopStep(t) ==
    StopCheck(t) \/ StopMark(t) \/ StopCancel(t) \/ StopContext(t) \/ StopReturn(t)

CallStep(t) ==
    /\ Lives
    /\ \/ StartStep(t) \/ StopStep(t)
       \/ RunRestart(t) \/ RunMark(t) \/ WaitReturn(t)
       \/ TimerCheck(t) \/ TimerRecheck(t) \/ TimerArm(t)

LoopStep(t) == Take(t) \/ Finish(t) \/ Leave(t) \/ EndThread(t)

Next ==
    \/ \E u \in Users : UserCall(u)
    \/ \E t \in Threads : CallStep(t) \/ LoopStep(t)
    \/ \E x \in Timers : Expire(x)

Spec == Init /\ [][Next]_vars

(* Every thread is scheduled, handlers return, and the io_context polls    *)
(* its timers again and again, between handlers too.                       *)
Fairness ==
    /\ \A t \in Threads : WF_vars(CallStep(t)) /\ WF_vars(LoopStep(t))
    /\ \A x \in Timers : SF_vars(Expire(x))

FairSpec == Spec /\ Fairness

----------------------------------------------------------------------------
(* Properties.                                                             *)

PC == {"idle", "start", "restart", "mark", "reset", "spawn",
       "stop", "halt", "cancel", "break", "drain",
       "run", "enter", "wait", "check", "recheck", "register"}

TypeOK ==
    /\ state \in {"waiting", "started", "stopped"}
    /\ iocStopped \in BOOLEAN
    /\ active \in Int
    /\ size \in 0..Pool
    /\ ready \in Seq(Job)
    /\ timer \in [Timers -> TimerState]
    /\ registered \in SUBSET Timers
    /\ pc \in [Threads -> PC]
    /\ left \in [Threads -> 0..Pool]
    /\ arming \in [Threads -> Timers \cup {NoTimer}]
    /\ loop \in [Threads -> {"none", "run", "handler", "out"}]
    /\ job \in [Threads -> Job]
    /\ life \in {"alive", "dying", "dead", "ended"}

\* Workers that have not left the thread function.
Alive == {w \in Workers : loop[w] # "none"}

\* No thread is inside start(), stop(), run() or timer::start().
NoCall == \A t \in Threads : pc[t] \in {"idle", "wait"}

\* _active_threads, which stop() waits for, counts the workers: start() sets
\* it to zero only when none is left, whatever was stopped and started before.
ActiveCounts == Lives => active = Cardinality(Alive)

\* When stop() has returned, no worker is left that could run a handler, and
\* none will be before the next start().
StopQuiesces == Lives /\ NoCall /\ state = "stopped" => Alive = {} /\ iocStopped

\* While the application is started the whole pool serves the io_context: no
\* std::exception of a handler, and no earlier stop(), takes a thread from it.
\* An exception of another type takes all of them, with the process.
PoolServes ==
    Lives /\ NoCall /\ state = "started" => ~iocStopped /\ Cardinality(Alive) = size

\* No worker outlives the application whose io_context it runs.
NoUseAfterDestroy == life = "dead" => Alive = {}

\* A timer that is still waiting when stop() has returned is one that the next
\* stop() cancels ("reset wil cancel all current operations (timers)").
WaitingIsRegistered ==
    NoCall /\ state = "stopped" =>
        \A x \in Timers : timer[x] \in {"armed", "due"} => x \in registered

\* stop() returns, also when a handler calls it, unless the process ends.
StopReturns ==
    \A t \in Threads : pc[t] = "stop" ~> pc[t] = "idle" \/ ~Lives

\* run() returns to its caller once the io_context is stopped, unless the process
\* ends.
RunReturns ==
    \A u \in Runners : state = "stopped" /\ loop[u] # "none" ~> loop[u] = "none" \/ ~Lives

\* The callback of a timer is called, unless it or the application is stopped first
\* or the process ends.
TimersFire ==
    \A x \in Timers :
        timer[x] = "armed" /\ state = "started"
            ~> timer[x] \in {"called", "off"} \/ state = "stopped" \/ ~Lives
=============================================================================
