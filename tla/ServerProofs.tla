---------------------------- MODULE ServerProofs ----------------------------
(***************************************************************************)
(* Theorems about Server, for any endpoints, acceptors and faults.  That   *)
(* stop() knows every open port depends on nothing in the application      *)
(* around it; that listen() opens all its endpoints does.                  *)
(***************************************************************************)
EXTENDS Server, TLAPS

\* An open port is that of an acceptor in the list, or of the one listen() is
\* about to add; stop() has passed those that are not open any more.
PortsOK ==
    \A a \in Acceptors : port[a] # "closed" =>
        \/ step = "launch" /\ a = new
        \/ \E k \in 1..Len(acceptors) : acceptors[k] = a /\ (step = "close" => k >= n)

Inv == ServerTypeOK /\ PortsOK

LEMMA ProgressStates ==
  /\ "none" \in Progress /\ "waiting" \in Progress /\ "accepted" \in Progress
  /\ "failed" \in Progress /\ "cancelled" \in Progress /\ "given up" \in Progress
  BY DEF Progress

LEMMA WaitingNumbers ==
  /\ 0 \in Waiting
  /\ \A k \in Waiting : k < MaxBacklog => k + 1 \in Waiting
  /\ \A k \in Waiting : k > 0 => k - 1 \in Waiting
  BY ServerAssumption DEF Waiting

LEMMA InitInv == SInit => Inv
  <1>1. SInit => ServerTypeOK
    <2> SUFFICES ASSUME SInit PROVE ServerTypeOK
      OBVIOUS
    <2>1. accept \in [Acceptors -> Progress] /\ backlog \in [Acceptors -> Waiting]
      BY ProgressStates, WaitingNumbers DEF SInit
    <2>2. endpoints \in Seq(Endpoints) /\ acceptors \in Seq(Acceptors)
      BY DEF SInit
    <2>3. QED
      BY <2>1, <2>2 DEF SInit, ServerTypeOK
  <1>2. SInit => PortsOK
    BY DEF SInit, PortsOK
  <1>3. QED
    BY <1>1, <1>2 DEF Inv

\* The accept of one acceptor changes, and neither ports nor lists.
LEMMA AcceptChanges ==
  ASSUME Inv,
         accept' \in [Acceptors -> Progress],
         backlog' \in [Acceptors -> Waiting],
         handling' \in [Threads -> Acceptors \cup {NoAcceptor}],
         UNCHANGED <<Control, Lists, at, port>>
  PROVE  Inv'
  <1>1. UNCHANGED <<step, caller, n, new, endpoints, acceptors, at, port>>
    BY DEF Control, Lists
  <1>2. ServerTypeOK'
    BY <1>1 DEF Inv, ServerTypeOK
  <1>3. PortsOK'
    BY <1>1 DEF Inv, PortsOK
  <1>4. QED
    BY <1>2, <1>3 DEF Inv

LEMMA ListenInv == Inv /\ (\E u \in Users : Listen(u)) => Inv'
  <1> SUFFICES ASSUME Inv, NEW u \in Users, Listen(u) PROVE Inv'
    OBVIOUS
  <1>1. /\ step = "idle" /\ step' = "resolve" /\ caller' \in Owners
        /\ UNCHANGED <<n, new, endpoints, acceptors, at, port, accept, backlog, handling>>
    BY DEF Listen, Quiet, Lists, Sockets
  <1>2. QED
    BY <1>1 DEF Inv, ServerTypeOK, PortsOK

LEMMA ResolveInv == Inv /\ Resolve => Inv'
  <1> SUFFICES ASSUME Inv, Resolve PROVE Inv'
    OBVIOUS
  <1>1. /\ step = "resolve" /\ n' = 1
        /\ UNCHANGED <<caller, new, acceptors, at, port, accept, backlog, handling>>
    BY DEF Resolve, Back, Sockets
  <1>2. /\ endpoints' \in Seq(Endpoints)
        /\ step' \in {"construct", "idle"} /\ (step' = "construct" => endpoints' # <<>>)
    <2> PICK target \in Targets :
           \/ endpoints' = endpoints \o target /\ step' = "construct"
           \/ /\ \E k \in DOMAIN target : endpoints' = endpoints \o SubSeq(target, 1, k - 1)
              /\ step' = "idle"
      BY DEF Resolve
    <2>1. endpoints \in Seq(Endpoints) /\ target \in Seq(Endpoints) /\ target # <<>>
      BY ServerAssumption DEF Inv, ServerTypeOK
    <2>2. CASE endpoints' = endpoints \o target /\ step' = "construct"
      BY <2>1, <2>2
    <2>3. CASE (\E k \in DOMAIN target : endpoints' = endpoints \o SubSeq(target, 1, k - 1))
               /\ step' = "idle"
      <3> PICK k \in DOMAIN target : endpoints' = endpoints \o SubSeq(target, 1, k - 1)
        BY <2>3
      <3>1. SubSeq(target, 1, k - 1) \in Seq(Endpoints)
        <4>1. SubSeq(target, 1, k - 1) = [j \in 1..(k - 1) |-> target[j]]
          BY <2>1
        <4>2. \A j \in 1..(k - 1) : target[j] \in Endpoints
          BY <2>1
        <4>3. QED
          BY <2>1, <4>1, <4>2
      <3>2. QED
        BY <2>1, <2>3, <3>1
    <2>4. QED
      BY <2>2, <2>3
  <1>3. step' = "construct" => n' <= Len(endpoints')
    BY <1>1, <1>2
  <1>4. ServerTypeOK'
    <2>1. endpoints' \in Seq(Endpoints) /\ step' \in {"construct", "idle"}
      BY <1>2
    <2>2. QED
      BY <1>1, <1>3, <2>1 DEF Inv, ServerTypeOK
  <1>5. PortsOK'
    BY <1>1, <1>2 DEF Inv, PortsOK
  <1>6. QED
    BY <1>4, <1>5 DEF Inv

LEMMA ConstructInv == Inv /\ Construct => Inv'
  <1> SUFFICES ASSUME Inv, Construct PROVE Inv'
    OBVIOUS
  <1> DEFINE e == endpoints[n]
             a == CHOOSE b \in Unused : TRUE
  <1>1. /\ step = "construct" /\ Unused # {}
        /\ UNCHANGED <<caller, n, endpoints, acceptors, accept, backlog, handling>>
    BY DEF Construct, Back, Lists
  <1>2. a \in Acceptors /\ e \in Endpoints /\ n \in 1..Len(endpoints)
    <2>1. a \in Unused
      BY <1>1
    <2>2. n \in 1..Len(endpoints) /\ endpoints \in Seq(Endpoints)
      BY <1>1 DEF Inv, ServerTypeOK
    <2>3. QED
      BY <2>1, <2>2 DEF Unused
  <1>3. CASE step' = "idle" /\ UNCHANGED <<new, at, port>>
    BY <1>1, <1>3 DEF Inv, ServerTypeOK, PortsOK
  <1>4. CASE /\ step' = "launch" /\ new' = a /\ at' = [at EXCEPT ![a] = e]
             /\ \E p \in {"closed", "open", "listening"} : port' = [port EXCEPT ![a] = p]
    <2>1. ServerTypeOK'
      BY <1>1, <1>2, <1>4 DEF Inv, ServerTypeOK
    <2>2. \A b \in Acceptors \ {a} : port'[b] = port[b]
      BY <1>4 DEF Inv, ServerTypeOK
    <2>3. PortsOK'
      BY <1>1, <1>2, <1>4, <2>2 DEF Inv, PortsOK
    <2>4. QED
      BY <2>1, <2>3 DEF Inv
  <1>5. QED
    BY <1>3, <1>4 DEF Construct, Failed

LEMMA LaunchInv == Inv /\ Launch => Inv'
  <1> SUFFICES ASSUME Inv, Launch PROVE Inv'
    OBVIOUS
  <1>1. /\ step = "launch" /\ acceptors' = Append(acceptors, new) /\ n' = n + 1
        /\ step' = IF n < Len(endpoints) THEN "construct" ELSE "idle"
        /\ UNCHANGED <<caller, new, endpoints, at, port, backlog, handling>>
    BY DEF Launch, Back
  <1>2. new \in Acceptors /\ acceptors \in Seq(Acceptors) /\ n \in 1..Len(endpoints)
        /\ endpoints \in Seq(Endpoints)
    BY <1>1 DEF Inv, ServerTypeOK
  <1>3. accept' \in [Acceptors -> Progress]
    BY ProgressStates DEF Launch, DoAccept, Inv, ServerTypeOK
  <1>4. /\ acceptors' \in Seq(Acceptors) /\ Len(acceptors) \in Nat
        /\ Len(acceptors') = Len(acceptors) + 1
        /\ acceptors'[Len(acceptors) + 1] = new
        /\ \A k \in 1..Len(acceptors) : k \in 1..Len(acceptors') /\ acceptors'[k] = acceptors[k]
    BY <1>1, <1>2
  <1>5. step' = "construct" => n' <= Len(endpoints)
    BY <1>1, <1>2
  <1>6. ServerTypeOK'
    BY <1>1, <1>2, <1>3, <1>4, <1>5 DEF Inv, ServerTypeOK
  <1>7. PortsOK'
    <2> SUFFICES ASSUME NEW a \in Acceptors, port'[a] # "closed"
                 PROVE  \E k \in 1..Len(acceptors') : acceptors'[k] = a
      BY <1>1 DEF PortsOK
    <2>1. a = new \/ \E k \in 1..Len(acceptors) : acceptors[k] = a
      BY <1>1 DEF Inv, PortsOK
    <2>2. Len(acceptors) + 1 \in 1..Len(acceptors')
      BY <1>4
    <2>3. QED
      BY <1>4, <2>1, <2>2
  <1>8. QED
    BY <1>6, <1>7 DEF Inv

LEMMA StopInv == Inv /\ (\E u \in Users : Stop(u)) => Inv'
  <1> SUFFICES ASSUME Inv, NEW u \in Users, Stop(u) PROVE Inv'
    OBVIOUS
  <1>1. /\ step = "idle" /\ step' = "close" /\ n' = 1 /\ caller' \in Owners
        /\ UNCHANGED <<new, endpoints, acceptors, at, port, accept, backlog, handling>>
    BY DEF Stop, Quiet, Lists, Sockets
  <1>2. \A k \in 1..Len(acceptors) : k >= 1
    BY DEF Inv, ServerTypeOK
  <1>3. QED
    BY <1>1, <1>2 DEF Inv, ServerTypeOK, PortsOK

LEMMA CloseInv == Inv /\ Close => Inv'
  <1> SUFFICES ASSUME Inv, Close PROVE Inv'
    OBVIOUS
  <1> DEFINE a == acceptors[n]
  <1>1. /\ step = "close" /\ n <= Len(acceptors) /\ n' = n + 1
        /\ port' = [port EXCEPT ![a] = "closed"]
        /\ accept' = [accept EXCEPT ![a] = IF @ = "waiting" THEN "cancelled" ELSE @]
        /\ backlog' = [backlog EXCEPT ![a] = 0]
        /\ UNCHANGED <<step, caller, new, endpoints, acceptors, at, handling>>
    BY DEF Close, Lists
  <1>2. n \in 1..Len(acceptors) /\ a \in Acceptors
    BY <1>1 DEF Inv, ServerTypeOK
  <1>3. ServerTypeOK'
    <2>1. accept' \in [Acceptors -> Progress]
      BY <1>1, ProgressStates DEF Inv, ServerTypeOK
    <2>2. backlog' \in [Acceptors -> Waiting]
      BY <1>1, WaitingNumbers DEF Inv, ServerTypeOK
    <2>3. port' \in [Acceptors -> {"closed", "open", "listening"}]
      BY <1>1 DEF Inv, ServerTypeOK
    <2>4. n' \in Nat \ {0}
      BY <1>1 DEF Inv, ServerTypeOK
    <2>5. QED
      BY <1>1, <2>1, <2>2, <2>3, <2>4 DEF Inv, ServerTypeOK
  <1>4. PortsOK'
    <2> SUFFICES ASSUME NEW b \in Acceptors, port'[b] # "closed"
                 PROVE  \E k \in 1..Len(acceptors) : acceptors[k] = b /\ k >= n + 1
      BY <1>1 DEF PortsOK
    <2>1. b # a /\ port[b] # "closed"
      BY <1>1, <1>2 DEF Inv, ServerTypeOK
    <2>2. PICK k \in 1..Len(acceptors) : acceptors[k] = b /\ k >= n
      BY <1>1, <2>1 DEF Inv, PortsOK
    <2>3. k # n /\ k \in Nat /\ n \in Nat
      BY <2>1, <2>2 DEF Inv, ServerTypeOK
    <2>4. QED
      BY <2>2, <2>3
  <1>5. QED
    BY <1>3, <1>4 DEF Inv

LEMMA ClearInv == Inv /\ Clear => Inv'
  <1> SUFFICES ASSUME Inv, Clear PROVE Inv'
    OBVIOUS
  <1>1. /\ step = "close" /\ n > Len(acceptors) /\ step' = "shutdown"
        /\ acceptors' = <<>> /\ endpoints' = <<>>
        /\ UNCHANGED <<caller, n, new, at, port, accept, backlog, handling>>
    BY DEF Clear, Leaving, Sockets
  <1>2. \A b \in Acceptors : port[b] = "closed"
    <2> SUFFICES ASSUME NEW b \in Acceptors, port[b] # "closed" PROVE FALSE
      OBVIOUS
    <2>1. PICK k \in 1..Len(acceptors) : k >= n
      BY <1>1 DEF Inv, PortsOK
    <2>2. QED
      BY <1>1, <2>1 DEF Inv, ServerTypeOK
  <1>3. QED
    BY <1>1, <1>2 DEF Inv, ServerTypeOK, PortsOK

LEMMA StoppedInv == Inv /\ Stopped => Inv'
  <1> SUFFICES ASSUME Inv, Stopped PROVE Inv'
    OBVIOUS
  <1>1. /\ step = "shutdown" /\ step' = "idle"
        /\ UNCHANGED <<caller, n, new, endpoints, acceptors, at, port, accept, backlog, handling>>
    BY DEF Stopped, Back, Lists, Sockets
  <1>2. QED
    BY <1>1 DEF Inv, ServerTypeOK, PortsOK

\* What the kernel and the threads of the io_context do to an acceptor.
LEMMA AcceptInv ==
  ASSUME Inv,
         NEW a \in Acceptors, NEW t \in Threads,
         Connect(a) \/ Accepted(a) \/ AcceptFails(a) \/ AcceptNext(t) \/ OnAccept(t, a)
  PROVE  Inv'
  <1> USE ProgressStates, WaitingNumbers DEF Inv, ServerTypeOK
  <1>1. CASE Connect(a)
    <2>1. backlog' \in [Acceptors -> Waiting]
      BY <1>1 DEF Connect
    <2>2. QED
      BY <1>1, <2>1, AcceptChanges DEF Connect
  <1>2. CASE Accepted(a)
    <2>1. backlog' \in [Acceptors -> Waiting]
      BY <1>2 DEF Accepted
    <2>2. accept' \in [Acceptors -> Progress]
      BY <1>2 DEF Accepted
    <2>3. QED
      BY <1>2, <2>1, <2>2, AcceptChanges DEF Accepted
  <1>3. CASE AcceptFails(a)
    BY <1>3, AcceptChanges DEF AcceptFails
  <1>4. CASE AcceptNext(t)
    BY <1>4, AcceptChanges DEF AcceptNext, DoAccept
  <1>5. CASE OnAccept(t, a)
    <2>1. PICK result \in Progress : Enters(t, a, result)
      BY <1>5 DEF OnAccept, OnCancelled, OnFailed, OnAccepted
    <2>2. handling' \in [Threads -> Acceptors \cup {NoAcceptor}]
      BY <1>5 DEF OnAccept, OnCancelled, OnFailed, OnAccepted
    <2>3. accept' \in [Acceptors -> Progress] /\ backlog' \in [Acceptors -> Waiting]
          /\ UNCHANGED <<Control, Lists, at, port>>
      BY <2>1 DEF Enters
    <2>4. QED
      BY <2>2, <2>3, AcceptChanges
  <1>6. QED
    BY <1>1, <1>2, <1>3, <1>4, <1>5

LEMMA StepInv == Inv /\ [SNext]_svars => Inv'
  <1> SUFFICES ASSUME Inv, [SNext]_svars PROVE Inv'
    OBVIOUS
  <1>1. CASE ServerStep
    BY <1>1, ResolveInv, ConstructInv, LaunchInv, CloseInv, ClearInv, StoppedInv DEF ServerStep
  <1>2. CASE \E u \in Users : Listen(u) \/ Stop(u)
    BY <1>2, ListenInv, StopInv
  <1>3. CASE UNCHANGED <<Control, Lists, Sockets, handling>>
    BY <1>3 DEF Control, Lists, Sockets, Inv, ServerTypeOK, PortsOK
  <1>4. CASE (\E u \in Users : OwnCall(u)) \/ \E t \in Threads : ThreadStep(t)
    BY <1>3, <1>4 DEF OwnCall, ThreadStep
  <1>5. CASE \E t \in Threads : AcceptNext(t)
    <2> PICK t \in Threads : AcceptNext(t)
      BY <1>5
    <2>1. handling[t] \in Acceptors
      BY DEF AcceptNext, Inv, ServerTypeOK
    <2>2. QED
      BY <2>1, AcceptInv
  <1>6. CASE \E a \in Acceptors : Connect(a) \/ Accepted(a) \/ AcceptFails(a)
    <2> PICK a \in Acceptors : Connect(a) \/ Accepted(a) \/ AcceptFails(a)
      BY <1>6
    <2>1. PICK u \in Threads : TRUE
      BY ServerAssumption DEF Inv, ServerTypeOK, Threads
    <2>2. QED
      BY <2>1, AcceptInv
  <1>7. CASE \E t \in Threads, a \in Acceptors : OnAccept(t, a)
    BY <1>7, AcceptInv
  <1>8. CASE UNCHANGED svars
    BY <1>3, <1>8 DEF svars, Control, Lists, Sockets
  <1>9. QED
    BY <1>1, <1>2, <1>4, <1>5, <1>6, <1>7, <1>8 DEF SNext

LEMMA Invariance == SSpec => []Inv
  BY InitInv, StepInv, PTL DEF SSpec

\* listen() and stop() never reach past their lists, whatever fails under them.
THEOREM TypeCorrectness == SSpec => []ServerTypeOK
  <1>1. Inv => ServerTypeOK
    BY DEF Inv
  <1>2. QED
    BY <1>1, Invariance, PTL

\* Whatever fails in listen(), and however often it is called, the next stop()
\* closes every port that is open.
THEOREM NoPortIsForgotten == SSpec => []NoPortLeft
  <1>1. Inv => NoPortLeft
    BY DEF Inv, NoPortLeft, PortsOK, Listed
  <1>2. QED
    BY <1>1, Invariance, PTL

----------------------------------------------------------------------------
(* What listen() promises, when no handler creates timers, which would     *)
(* start the application.                                                  *)

Stopping == {"stop", "halt", "cancel", "break", "drain"}
Starting == {"start", "restart", "mark", "reset", "spawn", "register"}

\* A thread in no call of the application but stop().
Harmless(t) == pc[t] \in Stopping \cup {"idle"}

\* Handlers that make no other call either.
Known == {j \in Job : j.kind # "after"}

CallsOK ==
    /\ pc \in [Threads -> PC]
    /\ loop \in [Threads -> {"none", "run", "handler", "out"}]
    /\ ready \in Seq(Known)
    /\ \A t \in Threads : ~Harmless(t) => t \in Users /\ loop[t] = "none"

\* Nobody but listen() itself starts the application while it is under way.
Alone ==
    step \in {"resolve", "construct", "launch"} =>
        /\ loop[caller] = "none"
        /\ \A t \in Threads :
              Harmless(t) \/ (t = caller /\ step = "resolve" /\ pc[t] \in Starting)

\* The first m endpoints are listening.
Opened(m) ==
    \A k \in 1..m : \E a \in Acceptors : port[a] = "listening" /\ at[a] = endpoints[k]

\* Up to the endpoint listen() is at, or the application is stopped, or about to be.
ListenOK ==
    /\ step = "construct" => state = "stopped" \/ Opened(n - 1)
    /\ step = "launch" => state = "stopped" \/ pc[caller] \in {"stop", "halt"} \/ Opened(n)

CallInv == CallsOK /\ Alone /\ ListenOK

LEMMA CallInit == SInit => CallInv
  <1> SUFFICES ASSUME SInit PROVE CallInv
    OBVIOUS
  <1>1. /\ pc = [t \in Threads |-> "idle"] /\ loop = [t \in Threads |-> "none"]
        /\ ready = <<>> /\ step = "idle"
    BY DEF SInit, Init
  <1>2. ready \in Seq(Known)
    BY <1>1
  <1>3. CallsOK
    BY <1>1, <1>2 DEF CallsOK, Harmless, PC
  <1>4. QED
    BY <1>1, <1>3 DEF CallInv, Alone, ListenOK

\* One step of a thread inside the application.
LEMMA ThreadCalls ==
  ASSUME CallsOK, NEW t \in Threads, CallStep(t) \/ LoopStep(t)
  PROVE  /\ CallsOK'
         /\ \A s \in Threads \ {t} : pc'[s] = pc[s]
         /\ \A s \in Users : loop[s] = "none" /\ pc[s] # "enter" => loop'[s] = "none"
         /\ Harmless(t) => Harmless(t)' /\ state' \in {state, "stopped"}
         /\ pc[t] \in Starting => pc'[t] \in Starting \cup {"idle"}
         /\ pc[t] = "stop" /\ loop[t] = "none" => state' = "stopped" \/ pc'[t] = "halt"
         /\ pc[t] = "halt" /\ loop[t] = "none" => state' = "stopped"
  <1> USE DEF CallsOK, Harmless, PC, Stopping, Starting, Goto, Tasks, Inside
  <1>1. CASE StartStep(t)
    <2>1. CASE StartCheck(t) \/ StartRestart(t) \/ StartMark(t) \/ StartReset(t)
      BY <2>1 DEF StartCheck, StartRestart, StartMark, StartReset, AfterStart
    <2>2. CASE StartSpawn(t)
      <3> PICK w \in Workers : loop[w] = "none" /\ loop' = [loop EXCEPT ![w] = "run"]
        BY <2>2 DEF StartSpawn, SpawnOne
      <3>1. /\ pc[t] = "spawn" /\ w \notin Users /\ t \in Users /\ w # t /\ w \in Threads
            /\ pc' = [pc EXCEPT ![t] = IF left[t] = 1 THEN AfterStart(t) ELSE "spawn"]
            /\ UNCHANGED <<state, ready>>
        BY <2>2, ApplicationAssumption DEF StartSpawn, SpawnOne, Threads
      <3>2. pc'[t] \in {"spawn", "register", "idle"}
        BY <3>1 DEF AfterStart
      <3>3. QED
        BY <3>1, <3>2 DEF AfterStart
    <2>3. QED
      BY <1>1, <2>1, <2>2 DEF StartStep
  <1>2. CASE StopStep(t)
    <2>1. CASE StopCheck(t)
      BY <2>1 DEF StopCheck, LeaveStop, EnterStop
    <2>2. CASE StopMark(t)
      BY <2>2 DEF StopMark
    <2>3. CASE StopCancel(t) \/ StopContext(t)
      BY <2>3 DEF StopCancel, StopContext
    <2>4. CASE StopReturn(t)
      BY <2>4 DEF StopReturn, LeaveStop
    <2>5. QED
      BY <1>2, <2>1, <2>2, <2>3, <2>4 DEF StopStep
  <1>3. CASE RunRestart(t) \/ WaitReturn(t)
    BY <1>3 DEF RunRestart, WaitReturn
  <1>4. CASE RunMark(t)
    BY <1>4 DEF RunMark
  <1>5. CASE TimerCheck(t) \/ TimerRecheck(t) \/ TimerArm(t)
    BY <1>5 DEF TimerCheck, TimerRecheck, TimerArm
  <1>6. CASE Take(t)
    <2> DEFINE j == Head(ready)
    <2>1. /\ loop[t] = "run" /\ ready # <<>> /\ ready' = Tail(ready)
          /\ loop' = [loop EXCEPT ![t] = "handler"]
          /\ pc' = [pc EXCEPT ![t] = Entry(j.kind)]
          /\ UNCHANGED state
      BY <1>6 DEF Take
    <2>2. j \in Known /\ ready' \in Seq(Known)
      BY <2>1
    <2>3. Entry(j.kind) \in {"stop", "idle"}
      BY <2>2 DEF Known, Entry
    <2>4. QED
      BY <2>1, <2>2, <2>3
  <1>7. CASE Finish(t)
    BY <1>7 DEF Finish, EndHandler
  <1>8. CASE Leave(t) \/ EndThread(t)
    <2>1. /\ UNCHANGED <<pc, state, ready>> /\ loop[t] # "none"
          /\ \E l \in {"none", "out"} : loop' = [loop EXCEPT ![t] = l]
      BY <1>8 DEF Leave, EndThread
    <2>2. QED
      BY <2>1
  <1>9. QED
    BY <1>1, <1>2, <1>3, <1>4, <1>5, <1>6, <1>7, <1>8 DEF CallStep, LoopStep

\* While listen() is under way, such a step starts nothing and keeps its place.
LEMMA ThreadKeeps ==
  ASSUME Inv, CallInv, NEW t \in Threads, CallStep(t) \/ LoopStep(t),
         UNCHANGED <<step, caller, n, endpoints, at, port>>
  PROVE  CallInv'
  <1>1. CallsOK' /\ caller \in Users /\ caller \in Threads
    BY ThreadCalls, ServerAssumption DEF CallInv, Inv, ServerTypeOK, Threads
  <1>2. Alone'
    <2> SUFFICES ASSUME step \in {"resolve", "construct", "launch"}
                 PROVE  /\ loop'[caller] = "none"
                        /\ \A s \in Threads : Harmless(s)'
                              \/ (s = caller /\ step = "resolve" /\ pc'[s] \in Starting)
      BY DEF Alone
    <2>1. loop'[caller] = "none"
      <3>1. loop[caller] = "none" /\ pc[caller] # "enter"
        BY <1>1 DEF CallInv, Alone, Harmless, Stopping, Starting
      <3>2. QED
        BY <1>1, <3>1, ThreadCalls DEF CallInv
    <2>2. ASSUME NEW s \in Threads
          PROVE  Harmless(s)' \/ (s = caller /\ step = "resolve" /\ pc'[s] \in Starting)
      <3>1. CASE s # t
        BY <3>1, ThreadCalls DEF CallInv, Alone, Harmless
      <3>2. CASE s = t
        BY <3>2, ThreadCalls DEF CallInv, Alone, Harmless
      <3>3. QED
        BY <3>1, <3>2
    <2>3. QED
      BY <2>1, <2>2
  <1>3. ListenOK'
    <2>1. step \in {"construct", "launch"} => state' \in {state, "stopped"}
      BY ThreadCalls DEF CallInv, Alone
    <2>2. ASSUME step = "launch", pc[caller] \in {"stop", "halt"}
          PROVE  state' = "stopped" \/ pc'[caller] \in {"stop", "halt"}
      <3>1. loop[caller] = "none"
        BY <2>2 DEF CallInv, Alone
      <3>2. QED
        BY <1>1, <2>2, <3>1, ThreadCalls DEF CallInv
    <2>3. \A m : Opened(m) => Opened(m)'
      BY DEF Opened
    <2>4. QED
      BY <2>1, <2>2, <2>3 DEF CallInv, ListenOK
  <1>4. QED
    BY <1>1, <1>2, <1>3 DEF CallInv

\* Users make their calls when listen() is not under way.
LEMMA OwnKeeps ==
  ASSUME "after" \notin Handlers, CallInv, NEW u \in Users, OwnCall(u)
  PROVE  CallInv'
  <1> USE DEF Goto, Tasks, Inside, Harmless, PC, Stopping
  <1>1. step = "idle" /\ step' = "idle" /\ UserCall(u) /\ u \in Threads
    BY DEF OwnCall, Quiet, Control, Threads
  <1>2. CASE \E k \in Handlers : Post(u, k)
    <2> PICK k \in Handlers : Post(u, k)
      BY <1>2
    <2>1. Handler(k) \in Known
      BY ApplicationAssumption DEF Post, Handler, Job, Known
    <2>2. ready' \in Seq(Known) /\ UNCHANGED <<pc, loop>>
      BY <2>1 DEF Post, CallInv, CallsOK
    <2>3. QED
      BY <1>1, <2>2 DEF CallInv, CallsOK, Alone, ListenOK
  <1>3. CASE \E x \in Timers : PostAfter(u, x)
    BY <1>3 DEF PostAfter
  <1>4. CASE \E x \in Timers : StopTimer(u, x)
    BY <1>1, <1>4 DEF StopTimer, CallInv, CallsOK, Alone, ListenOK
  <1>5. CASE \/ CallStart(u) \/ CallStop(u) \/ CallRun(u) \/ CallWait(u) \/ Destroy(u)
             \/ \E x \in Timers : After(u, x)
    <2>1. /\ \E l \in PC : pc' = [pc EXCEPT ![u] = l]
          /\ loop[u] = "none" /\ UNCHANGED <<loop, ready>>
      BY <1>5 DEF CallStart, CallStop, CallRun, CallWait, Call, Destroy, After, Between
    <2>2. QED
      BY <1>1, <2>1 DEF CallInv, CallsOK, Alone, ListenOK
  <1>6. QED
    BY <1>1, <1>2, <1>3, <1>4, <1>5 DEF UserCall

\* The steps of listen() and stop() themselves.
LEMMA ListenBegins ==
  ASSUME CallInv, NEW u \in Users, Listen(u)
  PROVE  CallInv'
  <1>1. /\ Quiet /\ pc[u] = "idle" /\ loop[u] = "none" /\ u \in Threads
        /\ step' = "resolve" /\ caller' = u /\ UNCHANGED <<loop, ready>>
        /\ pc' = pc \/ pc' = [pc EXCEPT ![u] = "start"]
    BY DEF Listen, Between, Calls, Goto, vars, Tasks, Inside, Threads
  <1>2. \A t \in Threads : Harmless(t)
    BY <1>1 DEF Quiet, CallInv, CallsOK, Harmless
  <1>3. CallsOK'
    BY <1>1, <1>2 DEF CallInv, CallsOK, Harmless, PC
  <1>4. Alone'
    BY <1>1, <1>2 DEF CallInv, CallsOK, Alone, Harmless, Starting
  <1>5. QED
    BY <1>1, <1>3, <1>4 DEF CallInv, ListenOK

LEMMA ResolveKeeps == Inv /\ CallInv /\ Resolve => CallInv'
  <1> SUFFICES ASSUME Inv, CallInv, Resolve PROVE CallInv'
    OBVIOUS
  <1>1. /\ step = "resolve" /\ pc[caller] = "idle" /\ n' = 1
        /\ step' \in {"construct", "idle"}
        /\ UNCHANGED <<pc, loop, ready, state, caller>>
    BY DEF Resolve, Back, vars, Tasks, Inside
  <1>2. CallsOK'
    BY <1>1 DEF CallInv, CallsOK, Harmless
  <1>3. Alone'
    BY <1>1 DEF CallInv, Alone, Harmless, Starting
  <1>4. Opened(n - 1)'
    BY <1>1 DEF Opened
  <1>5. QED
    BY <1>1, <1>2, <1>3, <1>4 DEF CallInv, ListenOK

LEMMA ConstructKeeps == Inv /\ CallInv /\ Construct => CallInv'
  <1> SUFFICES ASSUME Inv, CallInv, Construct PROVE CallInv'
    OBVIOUS
  <1> DEFINE e == endpoints[n]
             a == CHOOSE b \in Unused : TRUE
  <1>1. /\ step = "construct" /\ Unused # {} /\ pc[caller] = "idle"
        /\ UNCHANGED <<caller, n, endpoints, loop, ready, state>>
        /\ caller \in Threads /\ n \in 1..Len(endpoints) /\ endpoints \in Seq(Endpoints)
    BY ServerAssumption
       DEF Construct, Back, Lists, Calls, vars, Tasks, Inside, Inv, ServerTypeOK, Threads
  <1>2. a \in Acceptors /\ at[a] = NoEndpoint
    <2>1. a \in Unused
      BY <1>1
    <2>2. QED
      BY <2>1 DEF Unused
  <1>3. loop[caller] = "none" /\ \A t \in Threads : Harmless(t)
    BY <1>1 DEF CallInv, Alone
  <1>4. CASE step' = "idle" /\ UNCHANGED pc
    BY <1>1, <1>4 DEF CallInv, CallsOK, Alone, ListenOK, Harmless
  <1>5. CASE step' = "launch" /\ pc' = [pc EXCEPT ![caller] = "stop"]
    <2>1. CallsOK' /\ \A t \in Threads : Harmless(t)'
      BY <1>1, <1>3, <1>5 DEF CallInv, CallsOK, Harmless, Stopping, PC
    <2>2. pc'[caller] = "stop"
      BY <1>1, <1>5 DEF CallInv, CallsOK
    <2>3. QED
      BY <1>1, <1>3, <1>5, <2>1, <2>2 DEF CallInv, Alone, ListenOK
  <1>6. CASE /\ step' = "launch" /\ UNCHANGED pc
             /\ at' = [at EXCEPT ![a] = e] /\ port' = [port EXCEPT ![a] = "listening"]
    <2>1. CallsOK' /\ Alone'
      BY <1>1, <1>3, <1>6 DEF CallInv, CallsOK, Alone, Harmless
    <2>2. port'[a] = "listening" /\ at'[a] = e
      BY <1>2, <1>6 DEF Inv, ServerTypeOK
    <2>3. \A b \in Acceptors \ {a} : port'[b] = port[b] /\ at'[b] = at[b]
      BY <1>6 DEF Inv, ServerTypeOK
    <2>4. ASSUME Opened(n - 1) PROVE Opened(n)'
      <3> SUFFICES ASSUME NEW k \in 1..n
                   PROVE  \E b \in Acceptors : port'[b] = "listening" /\ at'[b] = endpoints[k]
        BY <1>1 DEF Opened
      <3>1. CASE k = n
        BY <1>2, <2>2, <3>1
      <3>2. CASE k # n
        <4>1. k \in 1..(n - 1) /\ k \in 1..Len(endpoints)
          BY <1>1, <3>2
        <4>2. PICK b \in Acceptors : port[b] = "listening" /\ at[b] = endpoints[k]
          BY <2>4, <4>1 DEF Opened
        <4>3. endpoints[k] \in Endpoints
          BY <1>1, <4>1
        <4>4. b # a
          BY <1>2, <4>2, <4>3, ServerAssumption
        <4>5. QED
          BY <2>3, <4>2, <4>4
      <3>3. QED
        BY <3>1, <3>2
    <2>5. ListenOK'
      BY <1>1, <1>6, <2>4 DEF CallInv, ListenOK
    <2>6. QED
      BY <2>1, <2>5 DEF CallInv
  <1>7. QED
    BY <1>4, <1>5, <1>6 DEF Construct, Calls, Goto, vars

LEMMA LaunchKeeps == Inv /\ CallInv /\ Launch => CallInv'
  <1> SUFFICES ASSUME Inv, CallInv, Launch PROVE CallInv'
    OBVIOUS
  <1>1. /\ step = "launch" /\ pc[caller] = "idle" /\ n' = n + 1 /\ n \in Nat
        /\ step' \in {"construct", "idle"}
        /\ UNCHANGED <<pc, loop, ready, state, caller, endpoints, at, port>>
    BY DEF Launch, Back, vars, Tasks, Inside, Inv, ServerTypeOK
  <1>2. CallsOK' /\ Alone'
    BY <1>1 DEF CallInv, CallsOK, Alone, Harmless
  <1>3. state = "stopped" \/ Opened(n)
    BY <1>1 DEF CallInv, ListenOK
  <1>4. n' - 1 = n
    BY <1>1
  <1>5. Opened(n) => Opened(n - 1)'
    BY <1>1, <1>4 DEF Opened
  <1>6. QED
    BY <1>1, <1>2, <1>3, <1>5 DEF CallInv, ListenOK

LEMMA StopKeeps ==
  ASSUME Inv, CallInv, (\E u \in Users : Stop(u)) \/ Close \/ Clear \/ Stopped
  PROVE  CallInv'
  <1>1. step' \in {"idle", "close", "shutdown"}
    BY DEF Stop, Close, Clear, Leaving, Stopped
  <1>2. CallsOK'
    <2>1. CASE UNCHANGED <<pc, loop, ready>>
      BY <2>1 DEF CallInv, CallsOK, Harmless
    <2>2. CASE Clear
      BY <2>2 DEF Clear, Leaving, Calls, Goto, Tasks, Inside, CallInv, CallsOK, Harmless,
                  Stopping, PC
    <2>3. QED
      BY <2>1, <2>2 DEF Stop, Close, Stopped, vars, Tasks, Inside
  <1>3. QED
    BY <1>1, <1>2 DEF CallInv, Alone, ListenOK

\* The kernel, and the handlers of the acceptors.
LEMMA AcceptKeeps ==
  ASSUME Inv, CallInv, NEW t \in Threads, NEW a \in Acceptors,
         Connect(a) \/ Accepted(a) \/ AcceptFails(a) \/ AcceptNext(t) \/ OnAccept(t, a)
  PROVE  CallInv'
  <1>1. UNCHANGED <<step, caller, n, endpoints, at, port, state, ready>>
    BY DEF Connect, Accepted, AcceptFails, AcceptNext, OnAccept, OnCancelled, OnFailed,
           OnAccepted, Enters, Control, Lists, vars, Tasks
  <1>2. \A m : Opened(m) => Opened(m)'
    BY <1>1 DEF Opened
  <1>3. CASE UNCHANGED <<pc, loop>>
    BY <1>1, <1>2, <1>3 DEF CallInv, CallsOK, Alone, ListenOK, Harmless
  <1>4. CASE OnAccept(t, a)
    <2>1. /\ loop[t] = "run" /\ loop' = [loop EXCEPT ![t] = "handler"]
          /\ pc' = pc \/ pc' = [pc EXCEPT ![t] = "stop"]
      BY <1>4 DEF OnAccept, OnCancelled, OnFailed, OnAccepted, Enters, Goto
    <2>2. CallsOK'
      BY <1>1, <2>1 DEF CallInv, CallsOK, Harmless, Stopping, PC
    <2>3. Alone'
      BY <1>1, <2>1 DEF CallInv, CallsOK, Alone, Harmless, Stopping, Starting
    <2>4. step = "launch" => pc'[caller] = pc[caller]
      <3>1. caller \in Threads /\ (step = "launch" => t # caller)
        BY <2>1, ServerAssumption DEF CallInv, Alone, Inv, ServerTypeOK, Threads
      <3>2. QED
        BY <2>1, <3>1 DEF CallInv, CallsOK
    <2>5. QED
      BY <1>1, <1>2, <2>2, <2>3, <2>4 DEF CallInv, ListenOK
  <1>5. QED
    BY <1>3, <1>4 DEF Connect, Accepted, AcceptFails, AcceptNext, vars, Inside

LEMMA CallNext ==
  ASSUME "after" \notin Handlers, Inv, CallInv, [SNext]_svars
  PROVE  CallInv'
  <1>1. CASE ServerStep
    BY <1>1, ResolveKeeps, ConstructKeeps, LaunchKeeps, StopKeeps DEF ServerStep
  <1>2. CASE \E u \in Users : Listen(u) \/ Stop(u) \/ OwnCall(u)
    BY <1>2, ListenBegins, StopKeeps, OwnKeeps
  <1>3. CASE \E t \in Threads : ThreadStep(t)
    <2> PICK t \in Threads : ThreadStep(t)
      BY <1>3
    <2>1. CallStep(t) \/ LoopStep(t)
      BY DEF ThreadStep
    <2>2. UNCHANGED <<step, caller, n, endpoints, at, port>>
      BY DEF ThreadStep, Control, Lists, Sockets
    <2>3. QED
      BY <2>1, <2>2, ThreadKeeps
  <1>4. CASE \E t \in Threads : AcceptNext(t)
    <2> PICK t \in Threads : AcceptNext(t)
      BY <1>4
    <2>1. handling[t] \in Acceptors
      BY DEF AcceptNext, Inv, ServerTypeOK
    <2>2. QED
      BY <2>1, AcceptKeeps
  <1>5. CASE \E a \in Acceptors : Connect(a) \/ Accepted(a) \/ AcceptFails(a)
    <2> PICK a \in Acceptors : Connect(a) \/ Accepted(a) \/ AcceptFails(a)
      BY <1>5
    <2>1. PICK t \in Threads : TRUE
      BY ServerAssumption DEF Inv, ServerTypeOK, Threads
    <2>2. QED
      BY <2>1, AcceptKeeps
  <1>6. CASE \E t \in Threads, a \in Acceptors : OnAccept(t, a)
    BY <1>6, AcceptKeeps
  <1>7. CASE UNCHANGED svars
    BY <1>7 DEF svars, vars, Tasks, Inside, Control, Lists, Sockets,
                CallInv, CallsOK, Alone, ListenOK, Opened, Harmless
  <1>8. QED
    BY <1>1, <1>2, <1>3, <1>4, <1>5, <1>6, <1>7 DEF SNext

\* listen() that ends its list has opened all of it, or the application is stopped.
LEMMA LastLaunch ==
  ASSUME Inv, CallInv, [SNext]_svars, step = "launch", step' = "idle"
  PROVE  \/ state' = "stopped"
         \/ \A k \in DOMAIN endpoints' :
               \E a \in Acceptors : port'[a] = "listening" /\ at'[a] = endpoints'[k]
  <1>1. Launch
    <2>1. step' # step
      OBVIOUS
    <2>2. CASE ServerStep
      BY <2>2 DEF ServerStep, Resolve, Construct, Close, Clear, Stopped, Back
    <2>3. CASE \E u \in Users : Listen(u) \/ Stop(u) \/ OwnCall(u)
      BY <2>3 DEF Listen, Stop, OwnCall, Quiet
    <2>4. CASE ~ServerStep /\ ~\E u \in Users : Listen(u) \/ Stop(u) \/ OwnCall(u)
      BY <2>1, <2>4 DEF SNext, svars, ThreadStep, AcceptNext, OnAccept, OnCancelled,
         OnFailed, OnAccepted, Enters, Connect, Accepted, AcceptFails, Control
    <2>5. QED
      BY <2>2, <2>3, <2>4
  <1>2. /\ pc[caller] = "idle" /\ ~(n < Len(endpoints))
        /\ UNCHANGED <<state, endpoints, at, port>>
    BY <1>1 DEF Launch, Back, vars
  <1>3. n = Len(endpoints) /\ DOMAIN endpoints = 1..n
    BY <1>2 DEF Inv, ServerTypeOK
  <1>4. state = "stopped" \/ Opened(n)
    BY <1>2 DEF CallInv, ListenOK
  <1>5. QED
    BY <1>2, <1>3, <1>4 DEF Opened

\* Whatever fails in listen(), and whatever the threads of the io_context do in the
\* meantime, a started application lacks none of its endpoints, as long as no
\* handler creates a timer, which may start it again.
THEOREM ListenOpensAll ==
  ASSUME "after" \notin Handlers PROVE SSpec => AllOrStopped
  <1>1. SInit => Inv /\ CallInv
    BY InitInv, CallInit
  <1>2. Inv /\ CallInv /\ [SNext]_svars => Inv' /\ CallInv'
    BY StepInv, CallNext
  <1>3. Inv /\ CallInv /\ [SNext]_svars =>
            [step = "launch" /\ step' = "idle" =>
                \/ state' = "stopped"
                \/ \A k \in DOMAIN endpoints' :
                      \E a \in Acceptors :
                         port'[a] = "listening" /\ at'[a] = endpoints'[k]]_svars
    BY LastLaunch
  <1>4. QED
    BY <1>1, <1>2, <1>3, PTL DEF SSpec, AllOrStopped
=============================================================================
