------------------------------ MODULE Signals ------------------------------
(***************************************************************************)
(* beauty::signal() and signal_set (signal.cpp) on the application: the    *)
(* set waits for a signal, its handler calls the callback of the user and  *)
(* runs the set again, so that at most one wait is outstanding.            *)
(*                                                                         *)
(* Application is extended: a thread has a second program counter for      *)
(* signal_set::run(), and the handler of the set is one of those it posts, *)
(* followed by a run() on the same thread.                                 *)
(***************************************************************************)
EXTENDS Application

CONSTANTS Watchers,    \* user threads that call beauty::signal()
          Callbacks,   \* what its callback does, as for Handlers: "plain", "throw",
                       \* "abort", "stop"
          MaxSignals   \* bound on the signals the process is sent

ASSUME SignalAssumption ==
    /\ Watchers \subseteq Users
    /\ Callbacks \subseteq {"plain", "throw", "abort", "stop"}
    /\ MaxSignals \in Nat

VARIABLES set,      \* the wait of the signal set
          at,       \* where each thread is in signal_set::run() or its handler
          ahead,    \* handlers ready before the one of the signal set
          raised,   \* signals sent to the process
          served    \* signals the callback was called for

signals == <<set, at, ahead, raised, served>>
signalVars == <<vars, signals>>

SignalInit ==
    /\ Init
    /\ set = "new"
    /\ at = [t \in Threads |-> "none"]
    /\ ahead = 0
    /\ raised = 0
    /\ served = 0

Move(t, l) == at' = [at EXCEPT ![t] = l]

----------------------------------------------------------------------------
(* signal(): the set is made and run by the caller.                        *)
CallSignal(u) ==
    /\ u \in Watchers /\ Between(u) /\ at[u] = "none"
    /\ set = "new"
    /\ set' = "idle"
    /\ Move(u, "check")
    /\ UNCHANGED <<vars, ahead, raised, served>>

\* run() ends: for its caller, or for the handler that has called it.
Leaving(t) == IF loop[t] = "handler" THEN "end" ELSE "none"

(* run(): the state is read twice, as in timer::check_application().  A    *)
(* set that does not wait is in nobody's hands any more and is destroyed.  *)
RunCheck(t) ==
    /\ at[t] = "check"
    /\ IF state = "stopped"
       THEN set' = "off" /\ Move(t, Leaving(t))
       ELSE UNCHANGED set /\ Move(t, "recheck")
    /\ UNCHANGED <<vars, ahead, raised, served>>

RunRecheck(t) ==
    /\ at[t] = "recheck"
    /\ IF state = "started"
       THEN Move(t, "arm") /\ UNCHANGED vars
       ELSE /\ Move(t, "starting")
            /\ Goto(t, "start")
            /\ UNCHANGED <<state, iocStopped, active, size, Tasks, left, arming,
                           Inside, life>>
    /\ UNCHANGED <<set, ahead, raised, served>>

RunArm(t) ==
    /\ \/ at[t] = "arm"
       \/ at[t] = "starting" /\ pc[t] = "idle"
    /\ set' = "waiting"
    /\ Move(t, Leaving(t))
    /\ UNCHANGED <<vars, ahead, raised, served>>

----------------------------------------------------------------------------
(* The process is sent a signal; Asio keeps it until a wait takes it.      *)
Raise ==
    /\ Lives /\ set \notin {"new", "off"}
    /\ raised < MaxSignals
    /\ raised' = raised + 1
    /\ UNCHANGED <<vars, set, at, ahead, served>>

Deliver ==
    /\ Lives /\ set = "waiting" /\ served < raised
    /\ set' = "posted"
    /\ \E k \in Callbacks : ready' = Append(ready, Handler(k))
    /\ ahead' = Len(ready)
    /\ UNCHANGED <<state, iocStopped, active, size, timer, registered, pc, left, arming,
                   Inside, life, at, raised, served>>

(* A thread takes the next handler, maybe that of the signal set.          *)
TakeNext(t) ==
    /\ Take(t)
    /\ IF set = "posted" /\ ahead = 0
       THEN /\ set' = "idle"
            /\ served' = served + 1
            /\ Move(t, "callback")
            /\ UNCHANGED ahead
       ELSE /\ ahead' = IF set = "posted" THEN ahead - 1 ELSE ahead
            /\ UNCHANGED <<set, at, served>>
    /\ UNCHANGED raised

\* Mutant: the handler does not run the set again.
RerunForgets(t) ==
    /\ at[t] = "callback" /\ pc[t] = "idle"
    /\ ~Throws(t)
    /\ Move(t, "end")
    /\ UNCHANGED <<vars, set, ahead, raised, served>>

(* The callback has returned: "Keep the signal active".                    *)
Rerun(t) ==
    /\ at[t] = "callback" /\ pc[t] = "idle"
    /\ ~Throws(t)
    /\ Move(t, "check")
    /\ UNCHANGED <<vars, set, ahead, raised, served>>

(* The handler is over, after run() or with an exception of the callback.  *)
FinishNext(t) ==
    /\ Finish(t)
    /\ \/ at[t] \in {"none", "end"} /\ UNCHANGED set
       \/ at[t] = "callback" /\ Throws(t) /\ set' = "off"
    /\ Move(t, "none")
    /\ UNCHANGED <<ahead, raised, served>>

----------------------------------------------------------------------------
RunStep(t) == Lives /\ (RunCheck(t) \/ RunRecheck(t) \/ RunArm(t) \/ Rerun(t))

LeaveStep(t) == (Leave(t) \/ EndThread(t)) /\ UNCHANGED signals

HandlerStep(t) == TakeNext(t) \/ FinishNext(t)

\* A user thread inside signal() makes no other call, and nobody destroys the
\* application meanwhile.
OtherCall(u) ==
    /\ UserCall(u)
    /\ at[u] = "none"
    /\ life' # life => \A v \in Users : at[v] = "none"

OtherStep ==
    /\ \/ \E u \in Users : OtherCall(u)
       \/ \E t \in Threads : CallStep(t) \/ Leave(t) \/ EndThread(t)
       \/ \E x \in Timers : Expire(x)
    /\ UNCHANGED signals

SignalNext ==
    \/ \E u \in Watchers : CallSignal(u)
    \/ \E t \in Threads : RunStep(t) \/ HandlerStep(t)
    \/ Raise \/ Deliver
    \/ OtherStep

SignalSpec == SignalInit /\ [][SignalNext]_signalVars

(* As in Application; the io_context also polls for signals.               *)
SignalFairSpec ==
    /\ SignalSpec
    /\ \A t \in Threads :
        /\ WF_signalVars(CallStep(t) /\ UNCHANGED signals)
        /\ WF_signalVars(HandlerStep(t) \/ LeaveStep(t))
        /\ WF_signalVars(RunStep(t))
    /\ WF_signalVars(Deliver)
    /\ \A x \in Timers : SF_signalVars(Expire(x) /\ UNCHANGED signals)

----------------------------------------------------------------------------
(* Properties.                                                             *)

\* A thread has the set in hand: it runs the callback, or run() after it.
InHand(t) == at[t] \in {"callback", "check", "recheck", "starting", "arm"}

\* "Keep the signal active": the set is always in one place.  It waits, or its
\* handler is in the queue, at the place counted, or exactly one thread has it in
\* hand, or it is gone; so no wait is lost and no second one outstanding, and the
\* callback is not called more often than signals were sent.
SingleWait ==
    /\ set = "idle" <=> \E t \in Threads : InHand(t)
    /\ \A s, t \in Threads : InHand(s) /\ InHand(t) => s = t
    /\ set = "posted" => ahead < Len(ready) /\ ready[ahead + 1].kind \in Callbacks
    /\ served + (IF set = "posted" THEN 1 ELSE 0) <= raised

\* A start() for which the model has no thread left.
NoThreadLeft ==
    \E t \in Threads : pc[t] = "spawn" /\ \A w \in Workers : loop[w] # "none"

\* The callback is called for every signal sent to the set, unless its callback
\* throws, the application is stopped or does not run, or the process ends: no
\* order of signals, handlers, stop() and start() leaves a set that does not wait.
SignalServed ==
    \A k \in 1..MaxSignals :
        raised >= k ~>
            \/ served >= k \/ set = "off"
            \/ state = "stopped" \/ ~Lives \/ NoThreadLeft
            \/ \A t \in Threads : loop[t] = "none"
=============================================================================
