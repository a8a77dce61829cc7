------------------------ MODULE SessionClientProofs ------------------------
(***************************************************************************)
(* Theorems about SessionClient and Client, for every set of requests,     *)
(* deadlines and threads and every number of network errors.               *)
(***************************************************************************)
EXTENDS Client, DataProofs

\* What a thread is doing refers to requests, and only a thread that waits to
\* issue a nested request names one.
WorkOK ==
    \A t \in Actors :
        /\ work[t].step # "none" => work[t].req \in Requests
        /\ work[t].sub \in Requests => work[t].step = "issue"
        /\ work[t].task = "idle" => work[t].step = "none"

\* The mutex is a mutex, and whoever holds it across a callback has no network
\* operation outstanding; on_read() has reset _pending_request by then.
HolderOK ==
    /\ \A t, u \in Actors : Holds(t) /\ Holds(u) => t = u
    /\ \A t \in Actors : Holds(t) => \A k \in OpKind : ops[k] = 0
    /\ \A t \in Actors : work[t].task = "read" => ~pending

\* Operations are outstanding only with _pending_request set, and that only with
\* a request in the queue; the server owes nothing but the answer that is being read.
OperationOK ==
    /\ \A k \in OpKind : ops[k] > 0 => pending
    /\ pending => queue # <<>>
    /\ \A k \in {"connect", "handshake", "write"} : ops[k] > 0 => wire = <<>>
    /\ ~pending => wire = <<>>

Inv ==
    /\ TypeOK
    /\ WorkOK
    /\ HolderOK
    /\ OperationOK
    /\ SingleOperation
    /\ ResponseMatchesRequest

----------------------------------------------------------------------------
LEMMA InitInv == Init => Inv
  <1> SUFFICES ASSUME Init PROVE Inv
    OBVIOUS
  <1> USE SessionAssumption
  <1>1. TypeOK
    <2>1. work \in [Actors -> WorkState]
      BY DEF Init, Idle, WorkState
    <2>2. queue \in Seq(Requests) /\ wire \in Seq(Requests)
      BY DEF Init
    <2>3. ops \in [OpKind -> Nat] /\ calls \in [Requests -> Nat]
      BY DEF Init
    <2>4. QED
      BY <2>1, <2>2, <2>3 DEF Init, TypeOK
  <1>2. WorkOK
    BY DEF Init, WorkOK, Idle
  <1>3. HolderOK
    BY DEF Init, HolderOK, Holds, Idle, OpKind
  <1>4. OperationOK /\ SingleOperation /\ ResponseMatchesRequest
    BY DEF Init, OperationOK, SingleOperation, ResponseMatchesRequest, OpKind
  <1>5. QED
    BY <1>1, <1>2, <1>3, <1>4 DEF Inv

----------------------------------------------------------------------------
(* Every action preserves the invariant.                                   *)

LEMMA IssueInv == ASSUME Inv, NEW r \in Requests, Issue(r) PROVE Inv'
  <1>1. TypeOK'
    BY DEF Inv, TypeOK, Issue, Arm
  <1>2. QED
    BY <1>1 DEF Inv, Issue, WorkOK, HolderOK, Holds, OperationOK,
                SingleOperation, ResponseMatchesRequest

LEMMA ExpireInv == ASSUME Inv, NEW r \in Requests, Expire(r) PROVE Inv'
  <1>1. TypeOK'
    BY DEF Inv, TypeOK, Expire
  <1>2. QED
    BY <1>1 DEF Inv, Expire, WorkOK, HolderOK, Holds, OperationOK,
                SingleOperation, ResponseMatchesRequest

LEMMA IssueInCallbackInv ==
  ASSUME Inv, NEW t \in Actors, NEW r \in Requests, IssueInCallback(t, r)
  PROVE  Inv'
  <1> DEFINE w == [work[t] EXCEPT !.step = "issue", !.sub = r]
  <1>1. /\ work' = [work EXCEPT ![t] = w] /\ w \in WorkState
        /\ w.step = "issue" /\ w.task = work[t].task /\ w.req = work[t].req
    BY DEF Inv, TypeOK, IssueInCallback, WorkState
  <1>2. work[t].step = "call"
    BY DEF IssueInCallback
  <1> HIDE DEF w
  <1>3. TypeOK'
    BY <1>1 DEF Inv, TypeOK, IssueInCallback, Arm
  <1>4. WorkOK'
    BY <1>1, <1>2 DEF Inv, TypeOK, WorkOK
  <1>5. HolderOK'
    BY <1>1 DEF Inv, TypeOK, HolderOK, Holds, IssueInCallback
  <1>6. QED
    BY <1>3, <1>4, <1>5 DEF Inv, IssueInCallback, OperationOK,
                            SingleOperation, ResponseMatchesRequest

LEMMA OnTimerInv ==
  ASSUME Inv, NEW t \in Actors, NEW r \in Requests, OnTimer(t, r) PROVE Inv'
  <1>1. TypeOK'
    BY DEF Inv, TypeOK, OnTimer, Task, WorkState
  <1>2. WorkOK'
    BY SessionAssumption DEF Inv, TypeOK, WorkOK, OnTimer, Task, WorkState
  <1>3. HolderOK'
    BY DEF Inv, TypeOK, HolderOK, Holds, OnTimer, Task, Free, WorkState
  <1>4. QED
    BY <1>1, <1>2, <1>3 DEF Inv, OnTimer, OperationOK,
                            SingleOperation, ResponseMatchesRequest

\* A callback that waits for run() goes on; nothing else happens to its thread.
LEMMA ResumedEffect ==
  ASSUME NEW w \in [Actors -> WorkState], NEW r \in Requests,
         \A u \in Actors : w[u].sub \in Requests => w[u].step = "issue"
  PROVE  /\ Resumed(w, r) \in [Actors -> WorkState]
         /\ \A u \in Actors :
              /\ Resumed(w, r)[u].task = w[u].task /\ Resumed(w, r)[u].req = w[u].req
              /\ \/ Resumed(w, r)[u] = w[u]
                 \/ /\ w[u].step = "issue" /\ Resumed(w, r)[u].step = "call"
                    /\ Resumed(w, r)[u].sub = NoRequest
  <1> DEFINE v == Resumed(w, r)
  <1>1. v = [u \in Actors |-> v[u]]
    BY DEF Resumed
  <1>2. ASSUME NEW u \in Actors
        PROVE  /\ v[u] \in WorkState
               /\ v[u].task = w[u].task /\ v[u].req = w[u].req
               /\ \/ v[u] = w[u]
                  \/ w[u].step = "issue" /\ v[u].step = "call" /\ v[u].sub = NoRequest
    <2>1. CASE w[u].sub = r
      <3>1. v[u] = [w[u] EXCEPT !.step = "call", !.sub = NoRequest]
        BY <2>1 DEF Resumed
      <3>2. w[u] \in WorkState /\ w[u].step = "issue"
        BY <2>1
      <3> HIDE DEF v
      <3>3. QED
        BY <3>1, <3>2 DEF WorkState
    <2>2. CASE w[u].sub # r
      BY <2>2 DEF Resumed
    <2>3. QED
      BY <2>1, <2>2
  <1> HIDE DEF v
  <1>3. v \in [Actors -> WorkState]
    BY <1>1, <1>2
  <1>4. QED
    BY <1>2, <1>3 DEF v

\* A thread leaves its handler, or run() and with it perhaps another callback.
LEMMA LeftEffect ==
  ASSUME Inv, NEW t \in Actors, work[t].step \in {"test", "call"}
  PROVE  /\ Left(t) \in [Actors -> WorkState]
         /\ Left(t)[t] = Idle
         /\ \A u \in Actors : u # t =>
              /\ Left(t)[u].task = work[u].task /\ Left(t)[u].req = work[u].req
              /\ \/ Left(t)[u] = work[u]
                 \/ /\ work[u].step = "issue" /\ Left(t)[u].step = "call"
                    /\ Left(t)[u].sub = NoRequest
  <1> DEFINE w == [work EXCEPT ![t] = Idle]
             r == work[t].req
  <1>1. /\ work \in [Actors -> WorkState] /\ r \in Requests /\ Idle \in WorkState
        /\ \A u \in Actors : work[u].sub \in Requests => work[u].step = "issue"
    BY DEF Inv, TypeOK, WorkOK, Idle, WorkState
  <1>2. /\ w \in [Actors -> WorkState] /\ w[t] = Idle /\ Idle.sub = NoRequest
        /\ \A u \in Actors : u # t => w[u] = work[u]
    BY <1>1 DEF Idle
  <1> HIDE DEF w
  <1>3. CASE work[t].task = "enter"
    <2>1. Left(t) = Resumed(w, r)
      BY <1>3 DEF Left, w
    <2>2. \A u \in Actors : w[u].sub \in Requests => w[u].step = "issue"
      BY <1>1, <1>2, SessionAssumption
    <2>3. Resumed(w, r)[t] = w[t]
      BY <1>1, <1>2, SessionAssumption DEF Resumed
    <2> HIDE DEF r
    <2>4. QED
      BY <1>1, <1>2, <2>1, <2>2, <2>3, ResumedEffect
  <1>4. CASE work[t].task # "enter"
    <2>1. Left(t) = w
      BY <1>4 DEF Left, w
    <2>2. QED
      BY <1>2, <2>1
  <1>5. QED
    BY <1>3, <1>4

LEMMA LeftInv ==
  ASSUME Inv, NEW t \in Actors, work[t].step \in {"test", "call"}, work' = Left(t)
  PROVE  /\ work' \in [Actors -> WorkState] /\ WorkOK'
         /\ work'[t].task = "idle"
         /\ \A u \in Actors : u # t => work'[u].task = work[u].task
  <1>1. /\ work' \in [Actors -> WorkState] /\ work'[t] = Idle
        /\ \A u \in Actors : u # t =>
              /\ work'[u].task = work[u].task /\ work'[u].req = work[u].req
              /\ \/ work'[u] = work[u]
                 \/ /\ work[u].step = "issue" /\ work'[u].step = "call"
                    /\ work'[u].sub = NoRequest
    BY LeftEffect
  <1>2. ASSUME NEW u \in Actors
        PROVE  /\ work'[u].step # "none" => work'[u].req \in Requests
               /\ work'[u].sub \in Requests => work'[u].step = "issue"
               /\ work'[u].task = "idle" => work'[u].step = "none"
    <2>1. CASE u = t
      BY <1>1, <2>1, SessionAssumption DEF Idle
    <2>2. CASE u # t
      BY <1>1, <2>2, SessionAssumption DEF Inv, WorkOK
    <2>3. QED
      BY <2>1, <2>2
  <1>3. QED
    BY <1>1, <1>2 DEF WorkOK, Idle

LEMMA ResumedInv ==
  ASSUME Inv, NEW r \in Requests, work' = Resumed(work, r)
  PROVE  /\ work' \in [Actors -> WorkState] /\ WorkOK'
         /\ \A u \in Actors :
              /\ work'[u].task = work[u].task /\ work'[u].req = work[u].req
              /\ \/ work'[u].step = work[u].step
                 \/ work[u].step = "issue" /\ work'[u].step = "call"
  <1>1. /\ work \in [Actors -> WorkState]
        /\ \A u \in Actors : work[u].sub \in Requests => work[u].step = "issue"
    BY DEF Inv, TypeOK, WorkOK
  <1>2. /\ work' \in [Actors -> WorkState]
        /\ \A u \in Actors :
              /\ work'[u].task = work[u].task /\ work'[u].req = work[u].req
              /\ \/ work'[u] = work[u]
                 \/ work[u].step = "issue" /\ work'[u].step = "call"
                    /\ work'[u].sub = NoRequest
    BY <1>1, ResumedEffect
  <1>3. WorkOK'
    BY <1>2, SessionAssumption DEF Inv, WorkOK
  <1>4. QED
    BY <1>2, <1>3

LEMMA CallBackInv == ASSUME Inv, NEW t \in Actors, CallBack(t) PROVE Inv'
  <1> DEFINE r == work[t].req
  <1>1. /\ work[t].step = "test" /\ r \in Requests
        /\ work[t] \in WorkState /\ work[t].sub \notin Requests
    BY DEF CallBack, Inv, TypeOK, WorkOK
  <1>2. /\ work' \in [Actors -> WorkState] /\ WorkOK'
        /\ \A u \in Actors : work'[u].task \in {"idle", work[u].task}
    <2>1. CASE cb[r]
      <3> DEFINE w == [work[t] EXCEPT !.step = "call"]
      <3>1. /\ w \in WorkState /\ w.task = work[t].task /\ w.step = "call"
            /\ w.req \in Requests /\ w.sub \notin Requests
        BY <1>1 DEF WorkState
      <3>2. work' = [work EXCEPT ![t] = w]
        BY <2>1 DEF CallBack
      <3> HIDE DEF w
      <3>3. QED
        BY <1>1, <3>1, <3>2 DEF Inv, TypeOK, WorkOK
    <2>2. CASE ~cb[r]
      <3>1. work' = Left(t)
        BY <2>2 DEF CallBack
      <3>2. QED
        BY <1>1, <3>1, LeftInv
    <2>3. QED
      BY <2>1, <2>2
  <1>3. calls' \in [Requests -> Nat] /\ threw' \in SUBSET Requests
    <2>1. CASE cb[r]
      BY <1>1, <2>1 DEF CallBack, Inv, TypeOK
    <2>2. CASE ~cb[r]
      BY <1>1, <2>2 DEF CallBack, Inv, TypeOK
    <2>3. QED
      BY <2>1, <2>2
  <1>4. TypeOK'
    BY <1>2, <1>3 DEF CallBack, Inv, TypeOK
  <1>5. HolderOK'
    BY <1>2 DEF Inv, HolderOK, Holds, CallBack
  <1>6. QED
    BY <1>2, <1>4, <1>5 DEF Inv, CallBack, OperationOK,
                            SingleOperation, ResponseMatchesRequest

\* do_write() on a session without an operation or with a finished one.
LEMMA DoWriteInv ==
  ASSUME TypeOK, NEW q \in Seq(Requests), NEW o \in [OpKind -> Nat],
         \A k \in OpKind : o[k] = 0, DoWrite(q, o)
  PROVE  /\ pending' \in BOOLEAN
         /\ pending' <=> q # <<>>
         /\ ops' \in [OpKind -> Nat]
         /\ ops'["write"] = IF q = <<>> THEN 0 ELSE 1
         /\ \A k \in OpKind \ {"write"} : ops'[k] = 0
  <1>1. CASE q = <<>>
    BY <1>1 DEF DoWrite, OpKind
  <1>2. CASE q # <<>>
    BY <1>2 DEF DoWrite, Start, OpKind
  <1>3. QED
    BY <1>1, <1>2

LEMMA ReturnInv == ASSUME Inv, NEW t \in Actors, Return(t) PROVE Inv'
  <1>1. /\ work' \in [Actors -> WorkState] /\ WorkOK'
        /\ work'[t].task = "idle"
        /\ \A u \in Actors : u # t => work'[u].task = work[u].task
    BY LeftInv DEF Return
  <1>2. cb' \in [Requests -> BOOLEAN] /\ late' \in [Requests -> BOOLEAN]
    BY DEF Return, Inv, TypeOK
  <1>3. UNCHANGED <<stage, timer, queue, open, wire, calls, threw, errors, eofs>>
    BY DEF Return
  <1>4. CASE WritesNext(t)
    <2>1. DoWrite(queue, ops) /\ \A k \in OpKind : ops[k] = 0
      BY <1>4 DEF Return, WritesNext, Inv, HolderOK, Holds
    <2>2. wire = <<>>
      BY <1>4 DEF WritesNext, Inv, HolderOK, OperationOK
    <2>3. /\ pending' \in BOOLEAN
          /\ pending' <=> queue # <<>>
          /\ ops' \in [OpKind -> Nat]
          /\ ops'["write"] = IF queue = <<>> THEN 0 ELSE 1
          /\ \A k \in OpKind \ {"write"} : ops'[k] = 0
      BY <2>1, DoWriteInv DEF Inv, TypeOK
    <2>4. TypeOK'
      BY <1>1, <1>2, <1>3, <2>3 DEF Inv, TypeOK
    <2>5. \A u \in Actors : ~Holds(u)'
      BY <1>1, <1>4 DEF Inv, HolderOK, Holds, WritesNext
    <2>6. HolderOK'
      BY <2>5 DEF HolderOK, Holds
    <2>7. OperationOK' /\ SingleOperation' /\ ResponseMatchesRequest'
      BY <1>3, <2>2, <2>3 DEF OperationOK, SingleOperation, ResponseMatchesRequest, OpKind
    <2>8. QED
      BY <1>1, <2>4, <2>6, <2>7 DEF Inv
  <1>5. CASE ~WritesNext(t)
    <2>1. UNCHANGED <<pending, ops>>
      BY <1>5 DEF Return
    <2>2. TypeOK'
      BY <1>1, <1>2, <1>3, <2>1 DEF Inv, TypeOK
    <2>3. \A u \in Actors : work'[u].task \in {"idle", work[u].task}
      BY <1>1
    <2>4. HolderOK'
      BY <2>1, <2>3 DEF Inv, HolderOK, Holds
    <2>5. QED
      BY <1>1, <1>3, <2>1, <2>2, <2>4 DEF Inv, OperationOK,
                                   SingleOperation, ResponseMatchesRequest
  <1>6. QED
    BY <1>4, <1>5

----------------------------------------------------------------------------
(* The completion handlers.                                                *)

\* A handler that completes operation k finds no other operation.
LEMMA OnlyOperation ==
  ASSUME Inv, NEW k \in OpKind, ops[k] > 0
  PROVE  /\ queue # <<>> /\ Head(queue) \in Requests /\ pending
         /\ MutexFree
         /\ Finish(ops, k) \in [OpKind -> Nat]
         /\ \A l \in OpKind : Finish(ops, k)[l] = 0
         /\ \A l \in OpKind \ {k} : ops[l] = 0
  <1>1. queue # <<>> /\ pending /\ MutexFree
    BY DEF Inv, OperationOK, HolderOK, MutexFree, TypeOK
  <1>2. Head(queue) \in Requests
    BY <1>1 DEF Inv, TypeOK
  <1>3. ops[k] = 1 /\ \A l \in OpKind \ {k} : ops[l] = 0
    BY DEF Inv, SingleOperation, TypeOK
  <1>4. QED
    BY <1>1, <1>2, <1>3 DEF Finish, Inv, TypeOK

\* Continuing with operation l after k leaves exactly one operation.
LEMMA NextOperation ==
  ASSUME NEW o \in [OpKind -> Nat], \A m \in OpKind : o[m] = 0, NEW l \in OpKind
  PROVE  /\ Start(o, l) \in [OpKind -> Nat]
         /\ Start(o, l)[l] = 1
         /\ \A m \in OpKind \ {l} : Start(o, l)[m] = 0
  BY DEF Start

\* The part of the invariant that a failing handler touches.
LEMMA FailInv ==
  ASSUME Inv, NEW t \in Actors, Free(t), queue # <<>>, MutexFree, Fail(t)
  PROVE  /\ work' \in [Actors -> WorkState]
         /\ threw' \in SUBSET Requests /\ errors' \in Nat
         /\ WorkOK'
         /\ \A u \in Actors : u # t => ~Holds(u)'
         /\ work'[t].task # "read"
  <1> DEFINE w == Task("fail", Head(queue))
  <1>1. Head(queue) \in Requests
    BY DEF Inv, TypeOK
  <1>2. /\ w \in WorkState /\ w.step = "test" /\ w.req \in Requests
        /\ w.sub \notin Requests /\ w.task = "fail"
    BY <1>1, SessionAssumption DEF Task, WorkState
  <1>3. work' = [work EXCEPT ![t] = w] \/ work' = work
    BY DEF Fail
  <1> HIDE DEF w
  <1>4. work' \in [Actors -> WorkState] /\ WorkOK'
    BY <1>2, <1>3 DEF Inv, TypeOK, WorkOK
  <1>5. \A u \in Actors : u # t => ~Holds(u)'
    BY <1>3 DEF MutexFree, Holds, Inv, TypeOK
  <1>6. work'[t].task # "read"
    BY <1>2, <1>3 DEF Free, Inv, TypeOK
  <1>7. threw' \in SUBSET Requests /\ errors' \in Nat
    BY <1>1 DEF Fail, Inv, TypeOK
  <1>8. QED
    BY <1>4, <1>5, <1>6, <1>7

\* A handler that fails leaves no operation behind, and all else as it is.
LEMMA FailedOperationInv ==
  ASSUME Inv, NEW t \in Actors, Free(t), NEW k \in OpKind, ops[k] > 0,
         Fail(t), ops' = Finish(ops, k),
         timer' \in [Requests -> {"none", "armed", "due", "off"}],
         UNCHANGED <<stage, cb, late, queue, pending, open, wire, calls, eofs>>
  PROVE  Inv'
  <1>1. /\ queue # <<>> /\ pending /\ MutexFree
        /\ ops' \in [OpKind -> Nat]
        /\ \A l \in OpKind : ops'[l] = 0
    BY OnlyOperation
  <1>2. /\ work' \in [Actors -> WorkState]
        /\ threw' \in SUBSET Requests /\ errors' \in Nat
        /\ WorkOK'
        /\ \A u \in Actors : u # t => ~Holds(u)'
        /\ work'[t].task # "read"
    BY <1>1, FailInv
  <1>3. TypeOK'
    BY <1>1, <1>2 DEF Inv, TypeOK
  <1>4. HolderOK'
    BY <1>1, <1>2 DEF HolderOK, Holds
  <1>5. OperationOK' /\ SingleOperation' /\ ResponseMatchesRequest'
    BY <1>1 DEF OperationOK, SingleOperation, ResponseMatchesRequest, OpKind
  <1>6. QED
    BY <1>2, <1>3, <1>4, <1>5 DEF Inv

\* A handler that continues with operation l and calls no callback.
LEMMA ContinuedOperationInv ==
  ASSUME Inv, NEW k \in OpKind, ops[k] > 0, NEW l \in OpKind,
         ops' = Start(Finish(ops, k), l), pending', pending' \in BOOLEAN,
         open' \in BOOLEAN, wire' \in Seq(Requests), eofs' \in Nat,
         l \in {"connect", "handshake", "write"} => wire' = <<>>,
         l = "read" => wire' = <<Head(queue)>>,
         UNCHANGED <<stage, timer, cb, late, queue, work, calls, threw, errors>>
  PROVE  Inv'
  <1>1. /\ queue # <<>> /\ MutexFree
        /\ ops' \in [OpKind -> Nat]
        /\ ops'[l] = 1 /\ \A m \in OpKind \ {l} : ops'[m] = 0
    BY OnlyOperation, NextOperation
  <1>2. TypeOK'
    BY <1>1 DEF Inv, TypeOK
  <1>3. WorkOK'
    BY DEF Inv, WorkOK
  <1>4. HolderOK'
    BY <1>1 DEF HolderOK, Holds, MutexFree
  <1>5. OperationOK' /\ SingleOperation' /\ ResponseMatchesRequest'
    BY <1>1 DEF OperationOK, SingleOperation, ResponseMatchesRequest, OpKind
  <1>6. QED
    BY <1>2, <1>3, <1>4, <1>5 DEF Inv

LEMMA OnResolveInv == ASSUME Inv, NEW t \in Actors, OnResolve(t) PROVE Inv'
  <1>1. "resolve" \in OpKind /\ "connect" \in OpKind /\ ops["resolve"] > 0 /\ Free(t)
    BY DEF OnResolve, OpKind
  <1>2. CASE ops' = Start(Finish(ops, "resolve"), "connect") /\ open' = TRUE
             /\ wire' = <<>> /\ UNCHANGED <<work, threw, errors>>
    <2>1. pending' /\ pending' \in BOOLEAN /\ eofs' \in Nat /\ wire' \in Seq(Requests)
      BY <1>1, <1>2, OnlyOperation DEF OnResolve, Inv, TypeOK
    <2>2. QED
      BY <1>1, <1>2, <2>1, ContinuedOperationInv DEF OnResolve
  <1>3. CASE Fail(t) /\ ops' = Finish(ops, "resolve") /\ UNCHANGED <<open, wire>>
    BY <1>1, <1>3, FailedOperationInv DEF OnResolve, Inv, TypeOK
  <1>4. QED
    BY <1>2, <1>3 DEF OnResolve

\* What do_write() does when an operation k of a queued request has completed.
LEMMA DoWriteNext ==
  ASSUME Inv, NEW k \in OpKind, ops[k] > 0, DoWrite(queue, Finish(ops, k))
  PROVE  /\ ops' = Start(Finish(ops, k), "write")
         /\ pending' /\ pending' \in BOOLEAN
  BY OnlyOperation DEF DoWrite

LEMMA OnConnectInv == ASSUME Inv, NEW t \in Actors, OnConnect(t) PROVE Inv'
  <1>1. /\ "connect" \in OpKind /\ "handshake" \in OpKind /\ "write" \in OpKind
        /\ ops["connect"] > 0 /\ Free(t)
    BY DEF OnConnect, OpKind
  <1>2. wire = <<>> /\ open \in BOOLEAN /\ eofs \in Nat /\ wire \in Seq(Requests)
    BY <1>1 DEF Inv, OperationOK, TypeOK
  <1>3. UNCHANGED <<stage, cb, late, queue, open, wire, calls, eofs>>
    BY DEF OnConnect
  <1>4. CASE ops' = Start(Finish(ops, "connect"), "handshake")
             /\ UNCHANGED <<timer, pending, work, threw, errors>>
    <2>1. pending' /\ pending' \in BOOLEAN
      BY <1>1, <1>4, OnlyOperation DEF Inv, TypeOK
    <2>2. QED
      BY <1>1, <1>2, <1>3, <1>4, <2>1, ContinuedOperationInv
  <1>5. CASE DoWrite(queue, Finish(ops, "connect"))
             /\ UNCHANGED <<timer, work, threw, errors>>
    BY <1>1, <1>2, <1>3, <1>5, DoWriteNext, ContinuedOperationInv
  <1>6. CASE /\ Fail(t)
             /\ timer' = Cancel(timer, Head(queue))
             /\ ops' = Finish(ops, "connect")
             /\ UNCHANGED pending
    <2>1. timer' \in [Requests -> {"none", "armed", "due", "off"}]
      BY <1>1, <1>6, OnlyOperation DEF Cancel, Inv, TypeOK
    <2>2. QED
      BY <1>1, <1>3, <1>6, <2>1, FailedOperationInv
  <1>7. QED
    BY <1>4, <1>5, <1>6 DEF OnConnect

LEMMA OnHandshakeInv == ASSUME Inv, NEW t \in Actors, OnHandshake(t) PROVE Inv'
  <1>1. /\ "handshake" \in OpKind /\ "write" \in OpKind
        /\ ops["handshake"] > 0 /\ Free(t)
    BY DEF OnHandshake, OpKind
  <1>2. wire = <<>> /\ open \in BOOLEAN /\ eofs \in Nat /\ wire \in Seq(Requests)
    BY <1>1 DEF Inv, OperationOK, TypeOK
  <1>3. UNCHANGED <<stage, timer, cb, late, queue, open, wire, calls, eofs>>
    BY DEF OnHandshake
  <1>4. CASE DoWrite(queue, Finish(ops, "handshake"))
             /\ UNCHANGED <<work, threw, errors>>
    BY <1>1, <1>2, <1>3, <1>4, DoWriteNext, ContinuedOperationInv
  <1>5. CASE Fail(t) /\ ops' = Finish(ops, "handshake") /\ UNCHANGED pending
    BY <1>1, <1>3, <1>5, FailedOperationInv DEF Inv, TypeOK
  <1>6. QED
    BY <1>4, <1>5 DEF OnHandshake

LEMMA OnWriteInv == ASSUME Inv, NEW t \in Actors, OnWrite(t) PROVE Inv'
  <1>1. /\ "write" \in OpKind /\ "read" \in OpKind /\ ops["write"] > 0 /\ Free(t)
    BY DEF OnWrite, OpKind
  <1>2. /\ wire = <<>> /\ open \in BOOLEAN /\ eofs \in Nat
        /\ pending /\ pending \in BOOLEAN /\ Head(queue) \in Requests
    BY <1>1, OnlyOperation DEF Inv, OperationOK, TypeOK
  <1>3. UNCHANGED <<stage, timer, cb, late, queue, pending, open, calls, eofs>>
    BY DEF OnWrite
  <1>4. CASE /\ ops' = Start(Finish(ops, "write"), "read")
             /\ wire' = Append(wire, Head(queue))
             /\ UNCHANGED <<work, threw, errors>>
    <2>1. wire' = <<Head(queue)>> /\ wire' \in Seq(Requests)
      BY <1>2, <1>4
    <2>2. QED
      BY <1>1, <1>2, <1>3, <1>4, <2>1, ContinuedOperationInv
  <1>5. CASE Fail(t) /\ ops' = Finish(ops, "write") /\ UNCHANGED wire
    BY <1>1, <1>3, <1>5, FailedOperationInv DEF Inv, TypeOK
  <1>6. QED
    BY <1>4, <1>5 DEF OnWrite

LEMMA AnsweredInv ==
  ASSUME Inv, NEW t \in Actors, Free(t), ops["read"] > 0, Answered(t),
         UNCHANGED <<cb, late, open, calls>>
  PROVE  Inv'
  <1> DEFINE r == Head(queue)
  <1>1. "read" \in OpKind /\ "write" \in OpKind
    BY DEF OpKind
  <1>2. /\ queue # <<>> /\ r \in Requests /\ MutexFree
        /\ Finish(ops, "read") \in [OpKind -> Nat]
        /\ \A l \in OpKind : Finish(ops, "read")[l] = 0
    BY <1>1, OnlyOperation
  <1>3. wire = <<r>> /\ queue' = Tail(queue) /\ queue' \in Seq(Requests)
    BY <1>2 DEF Answered, Inv, ResponseMatchesRequest, TypeOK
  <1>4. wire' = <<>> /\ wire' \in Seq(Requests)
    BY <1>2, <1>3 DEF Answered
  <1>5. /\ stage' \in [Requests -> {"new", "entering", "queued", "done"}]
        /\ timer' \in [Requests -> {"none", "armed", "due", "off"}]
    BY <1>2 DEF Answered, Cancel, Inv, TypeOK
  <1>6. CASE cb[r] /\ ~late[r]
    <2> DEFINE w == Task("read", r)
    <2>1. /\ work' = [work EXCEPT ![t] = w] /\ ~pending' /\ pending' \in BOOLEAN
          /\ ops' = Finish(ops, "read")
      BY <1>6 DEF Answered
    <2>2. /\ w \in WorkState /\ w.step = "test" /\ w.req \in Requests
          /\ w.sub \notin Requests /\ w.task = "read"
      BY <1>2, SessionAssumption DEF Task, WorkState
    <2> HIDE DEF w
    <2>3. TypeOK'
      BY <1>2, <1>3, <1>4, <1>5, <2>1, <2>2 DEF Answered, Inv, TypeOK
    <2>4. WorkOK'
      BY <2>1, <2>2 DEF Inv, TypeOK, WorkOK
    <2>5. HolderOK'
      BY <1>2, <2>1, <2>2 DEF Inv, TypeOK, HolderOK, Holds, MutexFree
    <2>6. OperationOK' /\ SingleOperation' /\ ResponseMatchesRequest'
      BY <1>1, <1>2, <1>4, <2>1 DEF OperationOK, SingleOperation,
                                    ResponseMatchesRequest
    <2>7. QED
      BY <2>3, <2>4, <2>5, <2>6 DEF Inv
  <1>7. CASE ~(cb[r] /\ ~late[r])
    <2>1. DoWrite(queue', Finish(ops, "read")) /\ work' = work
      BY <1>3, <1>7 DEF Answered
    <2>2. /\ pending' \in BOOLEAN
          /\ pending' <=> queue' # <<>>
          /\ ops' \in [OpKind -> Nat]
          /\ ops'["write"] = IF queue' = <<>> THEN 0 ELSE 1
          /\ \A k \in OpKind \ {"write"} : ops'[k] = 0
      BY <1>2, <1>3, <2>1, DoWriteInv DEF Inv
    <2>3. TypeOK'
      BY <1>3, <1>4, <1>5, <2>1, <2>2 DEF Answered, Inv, TypeOK
    <2>4. WorkOK' /\ HolderOK'
      BY <1>2, <2>1 DEF Inv, WorkOK, HolderOK, Holds, MutexFree
    <2>5. OperationOK' /\ SingleOperation' /\ ResponseMatchesRequest'
      BY <1>4, <2>2 DEF OperationOK, SingleOperation, ResponseMatchesRequest, OpKind
    <2>6. QED
      BY <2>3, <2>4, <2>5 DEF Inv
  <1>8. QED
    BY <1>6, <1>7

LEMMA OnReadInv == ASSUME Inv, NEW t \in Actors, OnRead(t) PROVE Inv'
  <1>1. /\ "read" \in OpKind /\ "resolve" \in OpKind
        /\ ops["read"] > 0 /\ Free(t)
        /\ UNCHANGED <<cb, late, open, calls>>
    BY DEF OnRead, OpKind
  <1>2. CASE Answered(t)
    BY <1>1, <1>2, AnsweredInv
  <1>3. CASE AnswerLost
    <2>1. open' \in BOOLEAN /\ eofs' \in Nat /\ wire' \in Seq(Requests)
      BY <1>1, <1>3 DEF AnswerLost, Inv, TypeOK
    <2>2. QED
      BY <1>1, <1>3, <2>1, ContinuedOperationInv DEF AnswerLost
  <1>4. CASE /\ Fail(t)
             /\ ops' = Finish(ops, "read")
             /\ UNCHANGED <<stage, timer, queue, pending, wire, eofs>>
    BY <1>1, <1>4, FailedOperationInv DEF Inv, TypeOK
  <1>5. QED
    BY <1>2, <1>3, <1>4 DEF OnRead

LEMMA EnterInv == ASSUME Inv, NEW r \in Requests, Enter(r) PROVE Inv'
  <1>1. /\ stage' \in [Requests -> {"new", "entering", "queued", "done"}]
        /\ queue' \in Seq(Requests) /\ queue' # <<>>
        /\ queue # <<>> => Head(queue') = Head(queue)
    <2>1. queue \in Seq(Requests) /\ queue' = Append(queue, r)
      BY DEF Enter, Inv, TypeOK
    <2>2. queue' \in Seq(Requests) /\ queue' # <<>>
      BY <2>1
    <2>3. queue # <<>> => Head(queue') = Head(queue)
      BY <2>1
    <2>4. stage' \in [Requests -> {"new", "entering", "queued", "done"}]
      BY DEF Enter, Inv, TypeOK
    <2>5. QED
      BY <2>2, <2>3, <2>4
  <1>2. work' = Resumed(work, r)
    BY DEF Enter
  <1>3. \A u \in Actors : work'[u].task = work[u].task
    BY <1>2, ResumedInv
  <1>4. work' \in [Actors -> WorkState] /\ WorkOK'
    BY <1>2, ResumedInv
  <1>5. MutexFree /\ MutexFree'
    BY <1>3 DEF Enter, MutexFree, Holds
  <1>6. HolderOK'
    BY <1>3, <1>5 DEF HolderOK, MutexFree, Holds
  <1>7. UNCHANGED <<timer, cb, late, open, wire, calls, threw, errors, eofs>>
    BY DEF Enter
  <1>8. CASE UNCHANGED <<pending, ops>> /\ pending
    BY <1>1, <1>4, <1>6, <1>7, <1>8 DEF Inv, TypeOK, OperationOK, SingleOperation,
                                        ResponseMatchesRequest, OpKind
  <1>9. CASE pending' = TRUE /\ \E l \in {"resolve", "write"} : ops' = Start(ops, l)
             /\ ((queue = <<>> /\ l = "resolve") \/ ~pending)
    <2>1. PICK l \in {"resolve", "write"} :
            ops' = Start(ops, l) /\ ((queue = <<>> /\ l = "resolve") \/ ~pending)
      BY <1>9
    <2>2. /\ ops \in [OpKind -> Nat] /\ \A k \in OpKind : ops[k] = 0
          /\ l = "write" => wire = <<>>
      BY <2>1 DEF Inv, OperationOK, TypeOK
    <2>3. l \in OpKind
      BY DEF OpKind
    <2>4. /\ ops' \in [OpKind -> Nat]
          /\ ops'[l] = 1 /\ \A m \in OpKind \ {l} : ops'[m] = 0
      BY <2>1, <2>2, <2>3, NextOperation
    <2>5. TypeOK'
      BY <1>1, <1>4, <1>7, <1>9, <2>4 DEF Inv, TypeOK
    <2>6. OperationOK' /\ SingleOperation' /\ ResponseMatchesRequest'
      BY <1>1, <1>7, <1>9, <2>2, <2>4 DEF OperationOK, SingleOperation,
                                          ResponseMatchesRequest, OpKind
    <2>7. QED
      BY <1>4, <1>6, <2>5, <2>6 DEF Inv
  <1>10. QED
    <2>1. \/ pending' = TRUE /\ ops' = Start(ops, "resolve") /\ queue = <<>>
          \/ UNCHANGED <<pending, ops>> /\ pending
          \/ ~pending /\ DoWrite(queue', ops)
      BY DEF Enter
    <2>2. CASE ~pending /\ DoWrite(queue', ops)
      <3>1. pending' = TRUE /\ ops' = Start(ops, "write")
        BY <1>1, <2>2 DEF DoWrite
      <3>2. QED
        BY <1>9, <2>2, <3>1
    <2>3. QED
      BY <1>8, <1>9, <2>1, <2>2

LEMMA NameRefusedInv == ASSUME Inv, NEW r \in Requests, NameRefused(r) PROVE Inv'
  <1>1. /\ MutexFree /\ queue = <<>> /\ queue' = <<r>> /\ ~pending
        /\ \A k \in OpKind : ops[k] = 0
        /\ UNCHANGED <<timer, cb, late, pending, open, ops, wire, calls, eofs>>
    BY DEF NameRefused, Inv, TypeOK, OperationOK
  <1>2. /\ work' \in [Actors -> WorkState] /\ WorkOK'
        /\ \A u \in Actors : u # Caller => work'[u].task = work[u].task
        /\ work'[Caller].task \in {"enter", work[Caller].task}
    <2>1. CASE cb[r]
      <3> DEFINE w == Task("enter", r)
      <3>1. /\ w \in WorkState /\ w.step = "test" /\ w.req \in Requests
            /\ w.sub \notin Requests /\ w.task = "enter"
        BY SessionAssumption DEF Task, WorkState
      <3>2. work' = [work EXCEPT ![Caller] = w] /\ Caller \in Actors
        BY <2>1 DEF NameRefused, Actors
      <3> HIDE DEF w
      <3>3. QED
        BY <3>1, <3>2 DEF Inv, TypeOK, WorkOK
    <2>2. CASE ~cb[r]
      <3>1. work' = Resumed(work, r) /\ Caller \in Actors
        BY <2>2 DEF NameRefused, Actors
      <3>2. QED
        BY <3>1, ResumedInv
    <2>3. QED
      BY <2>1, <2>2
  <1>3. TypeOK'
    <2>1. /\ stage' \in [Requests -> {"new", "entering", "queued", "done"}]
          /\ queue' \in Seq(Requests)
      BY <1>1 DEF NameRefused, Inv, TypeOK
    <2>2. threw' \in SUBSET Requests /\ errors' \in Nat
      BY DEF NameRefused, Inv, TypeOK
    <2>3. QED
      BY <1>1, <1>2, <2>1, <2>2 DEF Inv, TypeOK
  <1>4. HolderOK'
    <2>1. \A u \in Actors : Holds(u)' => u = Caller
      BY <1>1, <1>2 DEF MutexFree, Holds
    <2>2. QED
      BY <1>1, <2>1 DEF HolderOK, Holds
  <1>5. OperationOK' /\ SingleOperation' /\ ResponseMatchesRequest'
    BY <1>1 DEF Inv, OperationOK, SingleOperation, ResponseMatchesRequest, OpKind
  <1>6. QED
    BY <1>2, <1>3, <1>4, <1>5 DEF Inv

----------------------------------------------------------------------------
LEMMA NextInv == Inv /\ [Next]_vars => Inv'
  <1> SUFFICES ASSUME Inv, [Next]_vars PROVE Inv'
    OBVIOUS
  <1>0. Threads \subseteq Actors
    BY DEF Actors
  <1>1. ASSUME NEW r \in Requests, Issue(r) \/ Enter(r) \/ NameRefused(r) \/ Expire(r)
        PROVE  Inv'
    BY <1>1, IssueInv, EnterInv, NameRefusedInv, ExpireInv
  <1>2. ASSUME NEW t \in Threads, Network(t)
        PROVE  Inv'
    BY <1>0, <1>2, OnResolveInv, OnConnectInv, OnHandshakeInv, OnWriteInv, OnReadInv
       DEF Network
  <1>3. ASSUME NEW t \in Actors, CallBack(t) \/ Return(t)
        PROVE  Inv'
    BY <1>3, CallBackInv, ReturnInv
  <1>4. ASSUME NEW t \in Actors, NEW r \in Requests,
               (t \in Threads /\ OnTimer(t, r)) \/ IssueInCallback(t, r)
        PROVE  Inv'
    BY <1>4, OnTimerInv, IssueInCallbackInv
  <1>5. CASE UNCHANGED vars
    BY <1>5 DEF vars, Inv, TypeOK, WorkOK, HolderOK, Holds, OperationOK,
                SingleOperation, ResponseMatchesRequest
  <1>6. QED
    BY <1>0, <1>1, <1>2, <1>3, <1>4, <1>5 DEF Next

\* The inductive invariant holds in every reachable state: the state is well
\* typed and the mutex, _pending_request and the outstanding operation agree.
THEOREM Invariance == Spec => []Inv
  <1>1. QED
    BY InitInv, NextInv, PTL DEF Spec

\* Every reachable state of the session has the types TypeOK gives it.
THEOREM TypeCorrectness == Spec => []TypeOK
  <1>1. Inv => TypeOK
    BY DEF Inv
  <1>2. QED
    BY <1>1, Invariance, PTL

\* Whatever the number of threads that run handlers and of callers of run(), at
\* most one network operation is outstanding on the connection.
THEOREM OneOperationAtATime == Spec => []SingleOperation
  <1>1. Inv => SingleOperation
    BY DEF Inv
  <1>2. QED
    BY <1>1, Invariance, PTL

\* The response that is read belongs to the request in front of the queue, for
\* any number of deadlines, failures and reconnections.
THEOREM NoMismatchedResponse == Spec => []ResponseMatchesRequest
  <1>1. Inv => ResponseMatchesRequest
    BY DEF Inv
  <1>2. QED
    BY <1>1, Invariance, PTL

\* A single failed operation ends the service of the connection: no operation
\* is ever started again, whatever is issued or times out afterwards.
THEOREM FailureIsFinal == Spec => WedgeIsPermanent
  <1>1. Inv /\ [Next]_vars => (Wedged => pending' /\ ~InFlight')
    <2> SUFFICES ASSUME Inv, [Next]_vars, Wedged PROVE pending' /\ ~InFlight'
      OBVIOUS
    <2>1. pending /\ MutexFree /\ \A k \in OpKind : ops[k] = 0
      BY DEF Wedged, InFlight, Inv, TypeOK
    <2>2. \A t \in Actors : ~Network(t)
      <3>1. ASSUME NEW t \in Actors, Network(t) PROVE \E k \in OpKind : ops[k] > 0
        <4>1. {"resolve", "connect", "handshake", "write", "read"} \subseteq OpKind
          BY DEF OpKind
        <4>2. \E k \in {"resolve", "connect", "handshake", "write", "read"} : ops[k] > 0
          BY <3>1 DEF Network, OnResolve, OnConnect, OnHandshake, OnWrite, OnRead
        <4>3. QED
          BY <4>1, <4>2
      <3>2. QED
        BY <2>1, <3>1
    <2>3. UNCHANGED <<pending, ops>>
      <3>1. ASSUME NEW r \in Requests, Issue(r) \/ Enter(r) \/ NameRefused(r) \/ Expire(r)
            PROVE  UNCHANGED <<pending, ops>>
        <4>1. CASE Enter(r) \/ NameRefused(r)
          <5>1. queue # <<>>
            BY <2>1 DEF Inv, OperationOK
          <5>2. QED
            BY <2>1, <4>1, <5>1 DEF Enter, NameRefused
        <4>2. CASE Issue(r) \/ Expire(r)
          BY <4>2 DEF Issue, Expire
        <4>3. QED
          BY <3>1, <4>1, <4>2
      <3>2. ASSUME NEW t \in Actors, CallBack(t) \/ Return(t)
            PROVE  UNCHANGED <<pending, ops>>
        <4>1. work[t].task \notin {"read", "enter"}
          BY <2>1 DEF MutexFree, Holds
        <4>2. CASE CallBack(t)
          BY <4>2 DEF CallBack
        <4>3. CASE Return(t)
          BY <4>1, <4>3 DEF Return, WritesNext
        <4>4. QED
          BY <3>2, <4>2, <4>3
      <3>3. ASSUME NEW t \in Actors, NEW r \in Requests,
                   OnTimer(t, r) \/ IssueInCallback(t, r)
            PROVE  UNCHANGED <<pending, ops>>
        BY <3>3 DEF OnTimer, IssueInCallback
      <3>4. QED
        BY <2>2, <3>1, <3>2, <3>3 DEF Next, vars, Actors
    <2>4. QED
      BY <2>1, <2>3 DEF InFlight
  <1>2. QED
    BY <1>1, Invariance, PTL DEF Spec, WedgeIsPermanent

\* A thread that issues a request from a callback under the mutex never leaves.
THEOREM SelfBlockIsFinal == Spec => SelfBlockIsPermanent
  <1>1. Inv /\ [Next]_vars => \A t \in Actors : SelfBlocked(t) => SelfBlocked(t)'
    <2> SUFFICES ASSUME Inv, [Next]_vars, NEW t \in Actors, SelfBlocked(t)
                 PROVE  work'[t] = work[t]
      BY DEF SelfBlocked, Holds
    <2>1. /\ work[t].step = "issue" /\ ~Free(t) /\ ~MutexFree
          /\ work \in [Actors -> WorkState]
      BY DEF SelfBlocked, Holds, Free, MutexFree, Inv, TypeOK
    <2>2. ASSUME NEW r \in Requests, Issue(r) \/ Enter(r) \/ NameRefused(r) \/ Expire(r)
          PROVE  work'[t] = work[t]
      BY <2>1, <2>2 DEF Issue, Enter, NameRefused, Expire
    <2>3. ASSUME NEW u \in Actors, Network(u)
          PROVE  work'[t] = work[t]
      BY <2>1, <2>3 DEF Network, OnResolve, OnConnect, OnHandshake, OnWrite, OnRead,
                        Answered, AnswerLost, Fail
    <2>4. ASSUME NEW u \in Actors, CallBack(u) \/ Return(u)
          PROVE  work'[t] = work[t]
      <3>1. u # t /\ work[u].step \in {"test", "call"}
        BY <2>1, <2>4 DEF CallBack, Return
      \* The one that holds the mutex is t, in a callback of its own.
      <3>2. work[u].task # "enter"
        BY <2>1, <3>1 DEF SelfBlocked, Holds, Inv, HolderOK
      <3>3. Left(u) = [work EXCEPT ![u] = Idle]
        BY <3>2 DEF Left
      <3>4. QED
        BY <2>1, <2>4, <3>1, <3>3 DEF CallBack, Return
    <2>5. ASSUME NEW u \in Actors, NEW r \in Requests,
                 OnTimer(u, r) \/ IssueInCallback(u, r)
          PROVE  work'[t] = work[t]
      BY <2>1, <2>5 DEF OnTimer, IssueInCallback
    <2>6. QED
      BY <2>2, <2>3, <2>4, <2>5 DEF Next, vars, Actors
  <1>2. QED
    BY <1>1, Invariance, PTL DEF Spec, SelfBlockIsPermanent

----------------------------------------------------------------------------
(* With one thread the callbacks keep the contract of the client.          *)

OneThread == \A t, u \in Threads : t = u

\* Nor does run() call the callback of a request whose timer may be running.
NoRace == OneThread /\ BadNames \cap Timed = {}

\* A callback that was called is reset, or its thread is still inside it; a
\* callback about to be called was not called before.
OneCall ==
    /\ \A r \in Requests :
          \/ calls[r] = 0
          \/ /\ calls[r] = 1
             /\ cb[r] => \E t \in Actors :
                   work[t].req = r /\ work[t].step \in {"call", "issue"}
    /\ \A t \in Actors : work[t].step = "test" => calls[work[t].req] = 0

\* Which thread calls the callbacks of which requests.
Separate ==
    /\ \A r \in Requests : timer[r] \in {"armed", "due"} => r \in Timed
    /\ \A t \in Actors : work[t].task = "timer" => work[t].req \in Timed
    /\ \A t \in Actors : work[t].task = "enter" => t = Caller /\ work[t].req \in BadNames
    /\ work[Caller].task \in {"idle", "enter"}

\* Only issued requests are queued, timed or called back.
OnlyIssued ==
    /\ \A r \in Requests : timer[r] \in {"armed", "due"} => stage[r] # "new"
    /\ \A i \in 1..Len(queue) : stage[queue[i]] # "new"
    /\ \A t \in Actors : work[t].step # "none" => stage[work[t].req] # "new"

\* Handlers other than the callbacks leave cb and calls alone and hand at most
\* one request with a callback to the free thread that runs them.
LEMMA HandlerEffect ==
  ASSUME Inv, NEW t \in Actors,
         Network(t) \/ \E r \in Requests : OnTimer(t, r)
  PROVE  /\ UNCHANGED <<cb, calls>>
         /\ Free(t)
         /\ \/ work' = work
            \/ \E r \in Requests, k \in {"read", "fail", "timer"} :
                  /\ cb[r] /\ work' = [work EXCEPT ![t] = Task(k, r)]
                  /\ \/ r = Head(queue) /\ queue # <<>> /\ MutexFree /\ k # "timer"
                     \/ timer[r] = "due" /\ k = "timer"
  <1>1. CASE \E r \in Requests : OnTimer(t, r)
    BY <1>1 DEF OnTimer
  <1>2. CASE Network(t)
    <2>1. queue # <<>> /\ Head(queue) \in Requests /\ MutexFree
      <3>1. PICK k \in OpKind : ops[k] > 0
        BY <1>2 DEF Network, OnResolve, OnConnect, OnHandshake, OnWrite, OnRead, OpKind
      <3>2. QED
        BY <3>1, OnlyOperation
    <2>2. UNCHANGED <<cb, calls>> /\ Free(t)
      BY <1>2 DEF Network, OnResolve, OnConnect, OnHandshake, OnWrite, OnRead
    <2>3. CASE Fail(t) \/ Answered(t)
      BY <2>1, <2>2, <2>3 DEF Fail, Answered
    <2>4. CASE ~(Fail(t) \/ Answered(t))
      <3>1. work' = work
        BY <1>2, <2>4 DEF Network, OnResolve, OnConnect, OnHandshake, OnWrite,
                          OnRead, AnswerLost
      <3>2. QED
        BY <2>2, <3>1
    <2>5. QED
      BY <2>3, <2>4
  <1>3. QED
    BY <1>1, <1>2

LEMMA OneCallInit == Init => OneCall /\ OnlyIssued /\ Separate
  <1> SUFFICES ASSUME Init PROVE OneCall /\ OnlyIssued /\ Separate
    OBVIOUS
  <1>1. \A t \in Actors : work[t].step = "none" /\ work[t].task = "idle"
    BY DEF Init, Idle
  <1>2. OneCall
    <2>1. \A r \in Requests : calls[r] = 0
      <3>1. calls = [r \in Requests |-> 0]
        BY DEF Init
      <3>2. QED
        BY <3>1
    <2>2. \A t \in Actors : work[t].step # "test"
      BY <1>1
    <2>3. QED
      BY <2>1, <2>2 DEF OneCall
  <1>3. OnlyIssued
    BY <1>1 DEF Init, OnlyIssued
  <1>4. Separate
    BY <1>1 DEF Init, Separate, Actors
  <1>5. QED
    BY <1>2, <1>3, <1>4

\* What a thread is doing after a step, for the callbacks it may be in.
LEMMA LeftWork ==
  ASSUME Inv, NEW t \in Actors, work[t].step \in {"test", "call"}, work' = Left(t)
  PROVE  /\ work'[t].task = "idle" /\ work'[t].step = "none"
         /\ \A u \in Actors : u # t =>
              /\ work'[u].task = work[u].task /\ work'[u].req = work[u].req
              /\ \/ work'[u].step = work[u].step
                 \/ work[u].step = "issue" /\ work'[u].step = "call"
  BY LeftEffect DEF Idle

LEMMA SeparateNext ==
  ASSUME Inv, Separate, [Next]_vars
  PROVE  Separate'
  <1> USE DEF Separate
  <1>0. /\ timer \in [Requests -> {"none", "armed", "due", "off"}]
        /\ work \in [Actors -> WorkState] /\ Caller \in Actors
        /\ Threads \subseteq Actors
    BY DEF Inv, TypeOK, Actors
  <1>1. ASSUME NEW r \in Requests, Issue(r) \/ Expire(r)
        PROVE  Separate'
    BY <1>0, <1>1 DEF Issue, Expire, Arm
  <1>2. ASSUME NEW r \in Requests, Enter(r)
        PROVE  Separate'
    BY <1>0, <1>2, ResumedInv DEF Enter
  <1>3. ASSUME NEW r \in Requests, NameRefused(r)
        PROVE  Separate'
    <2>1. CASE work' = Resumed(work, r)
      BY <1>0, <1>3, <2>1, ResumedInv DEF NameRefused
    <2>2. CASE work' = [work EXCEPT ![Caller] = Task("enter", r)]
      <3>1. /\ work'[Caller].task = "enter" /\ work'[Caller].req = r
            /\ \A u \in Actors : u # Caller => work'[u] = work[u]
        BY <1>0, <2>2 DEF Task
      <3>2. r \in BadNames /\ UNCHANGED timer
        BY <1>3 DEF NameRefused
      <3>3. QED
        BY <3>1, <3>2
    <2>3. QED
      BY <1>3, <2>1, <2>2 DEF NameRefused
  <1>4. ASSUME NEW t \in Threads, Network(t) \/ \E r \in Requests : OnTimer(t, r)
        PROVE  Separate'
    <2>1. \A r \in Requests : timer'[r] \in {"armed", "due"} => timer[r] \in {"armed", "due"}
      BY <1>0, <1>4 DEF Network, OnResolve, OnConnect, OnHandshake, OnWrite, OnRead,
                        Answered, AnswerLost, OnTimer, Cancel
    <2>2. CASE work' = work
      BY <2>1, <2>2
    <2>3. ASSUME NEW r \in Requests, NEW k \in {"read", "fail", "timer"},
                 work' = [work EXCEPT ![t] = Task(k, r)],
                 k = "timer" => timer[r] = "due"
          PROVE  Separate'
      <3>1. /\ t # Caller /\ t \in Actors
            /\ k \in {"read", "fail", "timer", "enter"}
        BY <1>0, <2>3, SessionAssumption
      <3>2. /\ work'[t].task = k /\ work'[t].req = r
            /\ \A u \in Actors : u # t => work'[u] = work[u]
        <4>1. work' = [work EXCEPT ![t] = Task(k, r)]
          BY <2>3
        <4>2. QED
          BY <1>0, <3>1, <4>1 DEF Task
      <3>3. \A u \in Actors : work'[u].task = "timer" => work'[u].req \in Timed
        BY <2>3, <3>2
      <3>4. QED
        BY <1>0, <2>1, <2>3, <3>1, <3>2, <3>3
    <2>4. QED
      BY <1>0, <1>4, <2>2, <2>3, HandlerEffect
  <1>5. ASSUME NEW t \in Actors, CallBack(t) \/ Return(t)
        PROVE  Separate'
    <2>1. work[t].step \in {"test", "call"} /\ timer' = timer
      BY <1>5 DEF CallBack, Return
    <2>2. CASE work' = Left(t)
      <3>1. /\ work'[t].task = "idle"
            /\ \A u \in Actors : u # t =>
                  work'[u].task = work[u].task /\ work'[u].req = work[u].req
        BY <2>1, <2>2, LeftWork
      <3>2. QED
        BY <1>0, <2>1, <3>1
    <2>3. CASE work' = [work EXCEPT ![t].step = "call"]
      <3>1. \A u \in Actors : work'[u].task = work[u].task /\ work'[u].req = work[u].req
        BY <1>0, <2>3 DEF WorkState
      <3>2. QED
        BY <1>0, <2>1, <3>1
    <2>4. QED
      BY <1>5, <2>2, <2>3 DEF CallBack, Return
  <1>6. ASSUME NEW t \in Actors, NEW r \in Requests, IssueInCallback(t, r)
        PROVE  Separate'
    <2>1. \A u \in Actors : work'[u].task = work[u].task /\ work'[u].req = work[u].req
      BY <1>0, <1>6 DEF IssueInCallback, WorkState
    <2>2. QED
      BY <1>0, <1>6, <2>1 DEF IssueInCallback, Arm
  <1>7. CASE UNCHANGED vars
    BY <1>7 DEF vars
  <1>8. QED
    BY <1>1, <1>2, <1>3, <1>4, <1>5, <1>6, <1>7 DEF Next

\* No two threads are in the callback of the same request, or about to call it.
LEMMA DistinctWork ==
  ASSUME NoRace, Inv, Separate, NEW t \in Actors, NEW u \in Actors, t # u,
         work[t].step # "none", work[u].step # "none"
  PROVE  work[t].req # work[u].req
  <1>1. ASSUME NEW v \in Threads, work[Caller].step # "none", work[v].step # "none"
        PROVE  work[Caller].req # work[v].req
    <2>1. v \in Actors /\ Caller \in Actors /\ v # Caller
      BY SessionAssumption DEF Actors
    <2>2. work[Caller].task = "enter" /\ work[Caller].req \in BadNames
      BY <1>1, <2>1 DEF Separate, Inv, WorkOK
    <2>3. ~Holds(v)
      BY <2>1, <2>2 DEF Inv, HolderOK, Holds
    <2>4. work[v].task = "timer" /\ work[v].step # "none"
      BY <1>1, <2>1, <2>3 DEF Inv, TypeOK, WorkState, WorkOK, Holds, Separate
    <2>5. work[v].req \in Timed
      BY <2>1, <2>4 DEF Separate
    <2>6. QED
      BY <2>2, <2>5 DEF NoRace
  <1>2. QED
    BY <1>1 DEF NoRace, OneThread, Actors

LEMMA OneCallNext ==
  ASSUME NoRace, Inv, Separate, OneCall, [Next]_vars
  PROVE  OneCall'
  <1> USE DEF OneCall
  <1>0. /\ cb \in [Requests -> BOOLEAN] /\ calls \in [Requests -> Nat]
        /\ work \in [Actors -> WorkState]
        /\ Threads \subseteq Actors /\ Caller \in Actors /\ Caller \notin Threads
        /\ \A t \in Actors : work[t].step # "none" => work[t].req \in Requests
    BY SessionAssumption DEF Inv, TypeOK, Actors, WorkOK
  <1>1. ASSUME NEW r \in Requests, Issue(r) \/ Expire(r)
        PROVE  OneCall'
    BY <1>1 DEF Issue, Expire
  <1>2. ASSUME NEW r \in Requests, work' = Resumed(work, r), UNCHANGED <<cb, calls>>
        PROVE  OneCall'
    <2>1. \A u \in Actors :
            /\ work'[u].task = work[u].task /\ work'[u].req = work[u].req
            /\ \/ work'[u].step = work[u].step
               \/ work[u].step = "issue" /\ work'[u].step = "call"
      BY <1>2, ResumedInv
    <2>2. QED
      BY <1>2, <2>1
  \* A free thread finds a request whose callback was not called.
  <1>3. ASSUME NEW t \in Actors, Free(t), NEW r \in Requests,
               NEW k \in {"read", "fail", "timer", "enter"}, cb[r],
               work' = [work EXCEPT ![t] = Task(k, r)], UNCHANGED <<cb, calls>>,
               \A u \in Actors : work[u].step # "none" => work[u].req # r
        PROVE  OneCall'
    <2>1. calls[r] = 0
      BY <1>3
    <2>2. /\ work'[t].step = "test" /\ work'[t].req = r
          /\ \A u \in Actors : u # t => work'[u] = work[u]
      <3>1. work' = [work EXCEPT ![t] = Task(k, r)]
        BY <1>3
      <3>2. QED
        BY <1>0, <3>1 DEF Task
    <2>3. work[t].step = "none"
      BY <1>3 DEF Free, Inv, WorkOK
    <2>4. \A u \in Actors : work'[u].step = "test" => calls'[work'[u].req] = 0
      BY <1>3, <2>1, <2>2
    <2>5. ASSUME NEW q \in Requests
          PROVE  \/ calls'[q] = 0
                 \/ /\ calls'[q] = 1
                    /\ cb'[q] => \E u \in Actors :
                          work'[u].req = q /\ work'[u].step \in {"call", "issue"}
      BY <1>3, <2>2, <2>3
    <2>6. QED
      BY <2>4, <2>5
  <1>4. ASSUME NEW r \in Requests, Enter(r) \/ NameRefused(r)
        PROVE  OneCall'
    <2>1. UNCHANGED <<cb, calls>> /\ MutexFree
      BY <1>4 DEF Enter, NameRefused
    <2>2. CASE work' = Resumed(work, r)
      BY <1>2, <2>1, <2>2
    <2>3. CASE NameRefused(r) /\ cb[r] /\ work' = [work EXCEPT ![Caller] = Task("enter", r)]
      <3>1. Free(Caller)
        BY <1>0, <2>1 DEF MutexFree, Holds, Free, Separate
      <3>2. ASSUME NEW u \in Actors, work[u].step # "none"
            PROVE  work[u].req # r
        <4>1. work[u].task = "timer"
          BY <2>1, <3>2 DEF MutexFree, Holds, Inv, TypeOK, WorkState, WorkOK
        <4>2. work[u].req \in Timed /\ r \in BadNames
          BY <2>3, <4>1 DEF Separate, NameRefused
        <4>3. QED
          BY <4>2 DEF NoRace
      <3>3. cb[r] /\ "enter" \in {"read", "fail", "timer", "enter"}
        BY <2>3
      <3>4. QED
        BY <1>0, <1>3, <2>1, <2>3, <3>1, <3>2, <3>3, ZenonT(60)
    <2>4. QED
      BY <1>4, <2>2, <2>3 DEF Enter, NameRefused
  <1>5. ASSUME NEW t \in Threads, Network(t) \/ \E r \in Requests : OnTimer(t, r)
        PROVE  OneCall'
    <2>1. UNCHANGED <<cb, calls>> /\ Free(t) /\ t \in Actors
      BY <1>0, <1>5, HandlerEffect
    <2>2. CASE work' = work
      BY <2>1, <2>2
    <2>3. ASSUME NEW r \in Requests, NEW k \in {"read", "fail", "timer"},
                 cb[r], work' = [work EXCEPT ![t] = Task(k, r)],
                 (MutexFree /\ k # "timer") \/ timer[r] = "due"
          PROVE  OneCall'
      <3>1. ASSUME NEW u \in Actors, work[u].step # "none"
            PROVE  work[u].req # r
        <4>1. u # t
          BY <2>1, <3>1 DEF Free, Inv, WorkOK
        <4>2. u = Caller
          BY <4>1 DEF NoRace, OneThread, Actors
        <4>3. work[u].task = "enter" /\ work[u].req \in BadNames
          BY <3>1, <4>2 DEF Separate, Inv, WorkOK
        <4>4. ~MutexFree
          BY <4>3 DEF MutexFree, Holds
        <4>5. r \in Timed
          BY <2>3, <4>4 DEF Separate
        <4>6. QED
          BY <4>3, <4>5 DEF NoRace
      <3>2. QED
        BY <1>3, <2>1, <2>3, <3>1
    <2>4. QED
      BY <1>0, <1>5, <2>2, <2>3, HandlerEffect
  <1>6. ASSUME NEW t \in Actors, CallBack(t)
        PROVE  OneCall'
    <2> DEFINE r == work[t].req
    <2>1. r \in Requests /\ work[t].step = "test" /\ calls[r] = 0 /\ UNCHANGED cb
      BY <1>6 DEF CallBack, Inv, WorkOK
    <2>2. CASE cb[r]
      <3>1. calls' = [calls EXCEPT ![r] = 1] /\ work' = [work EXCEPT ![t].step = "call"]
        BY <1>6, <2>1, <2>2 DEF CallBack
      <3>2. /\ work'[t].req = r /\ work'[t].step = "call"
            /\ \A u \in Actors : u # t => work'[u] = work[u]
        BY <1>0, <3>1 DEF WorkState
      <3>3. \A u \in Actors : u # t /\ work[u].step # "none" => work[u].req # r
        BY <2>1, DistinctWork
      <3>4. \A u \in Actors : work'[u].step = "test" => calls'[work'[u].req] = 0
        BY <1>0, <2>1, <3>1, <3>2, <3>3
      <3>5. ASSUME NEW q \in Requests
            PROVE  \/ calls'[q] = 0
                   \/ /\ calls'[q] = 1
                      /\ cb'[q] => \E u \in Actors :
                            work'[u].req = q /\ work'[u].step \in {"call", "issue"}
        <4>1. CASE q = r
          BY <1>0, <2>1, <3>1, <3>2, <4>1
        <4>2. CASE q # r
          BY <1>0, <2>1, <3>1, <3>2, <4>2
        <4>3. QED
          BY <4>1, <4>2
      <3>6. QED
        BY <3>4, <3>5
    <2>3. CASE ~cb[r]
      <3>1. UNCHANGED calls /\ work' = Left(t)
        BY <1>6, <2>3 DEF CallBack
      <3>2. /\ work'[t].step = "none"
            /\ \A u \in Actors : u # t =>
                 /\ work'[u].task = work[u].task /\ work'[u].req = work[u].req
                 /\ \/ work'[u].step = work[u].step
                    \/ work[u].step = "issue" /\ work'[u].step = "call"
        BY <2>1, <3>1, LeftWork
      <3>3. QED
        BY <2>1, <3>1, <3>2
    <2>4. QED
      BY <2>2, <2>3
  <1>7. ASSUME NEW t \in Actors, Return(t)
        PROVE  OneCall'
    <2>1. /\ UNCHANGED calls /\ work' = Left(t) /\ work[t].step = "call"
          /\ cb' = [cb EXCEPT ![work[t].req] = FALSE]
          /\ work[t].req \in Requests
      BY <1>7 DEF Return, Inv, WorkOK
    <2>2. /\ work'[t].step = "none"
          /\ \A u \in Actors : u # t =>
               /\ work'[u].task = work[u].task /\ work'[u].req = work[u].req
               /\ \/ work'[u].step = work[u].step
                  \/ work[u].step = "issue" /\ work'[u].step = "call"
      BY <2>1, LeftWork
    <2>3. \A u \in Actors : work'[u].step = "test" => calls'[work'[u].req] = 0
      BY <2>1, <2>2
    <2>4. ASSUME NEW q \in Requests
          PROVE  \/ calls'[q] = 0
                 \/ /\ calls'[q] = 1
                    /\ cb'[q] => \E u \in Actors :
                          work'[u].req = q /\ work'[u].step \in {"call", "issue"}
      <3>1. CASE q = work[t].req
        BY <1>0, <2>1, <3>1
      <3>2. CASE q # work[t].req
        BY <1>0, <2>1, <2>2, <3>2
      <3>3. QED
        BY <3>1, <3>2
    <2>5. QED
      BY <2>3, <2>4
  <1>8. ASSUME NEW t \in Actors, NEW r \in Requests, IssueInCallback(t, r)
        PROVE  OneCall'
    <2>1. \A u \in Actors :
             /\ work'[u].req = work[u].req
             /\ \/ work'[u].step = work[u].step
                \/ work[u].step = "call" /\ work'[u].step = "issue"
      BY <1>0, <1>8 DEF IssueInCallback, WorkState
    <2>2. UNCHANGED <<cb, calls>>
      BY <1>8 DEF IssueInCallback
    <2>3. QED
      BY <2>1, <2>2
  <1>9. CASE UNCHANGED vars
    BY <1>9 DEF vars
  <1>10. QED
    BY <1>1, <1>4, <1>5, <1>6, <1>7, <1>8, <1>9 DEF Next

LEMMA OnlyIssuedNext ==
  ASSUME Inv, OnlyIssued, [Next]_vars
  PROVE  /\ OnlyIssued'
         /\ \A q \in Requests : stage[q] # "new" => stage'[q] # "new"
  <1> USE DEF OnlyIssued
  <1>0. /\ stage \in [Requests -> {"new", "entering", "queued", "done"}]
        /\ timer \in [Requests -> {"none", "armed", "due", "off"}]
        /\ queue \in Seq(Requests) /\ work \in [Actors -> WorkState]
    BY DEF Inv, TypeOK
  <1> DEFINE Grows == \A q \in Requests : stage[q] # "new" => stage'[q] # "new"
  <1> DEFINE Queued == \A i \in 1..Len(queue) : queue[i] \in Requests
  <1>00. Queued
    BY <1>0
  <1>01. \A t \in Actors : work[t].step # "none" => work[t].req \in Requests
    BY DEF Inv, WorkOK
  <1>1. ASSUME NEW r \in Requests, Issue(r) \/ Expire(r)
        PROVE  OnlyIssued' /\ Grows
    BY <1>0, <1>00, <1>01, <1>1 DEF Issue, Expire, Arm
  <1>2. ASSUME NEW r \in Requests, Enter(r)
        PROVE  OnlyIssued' /\ Grows
    <2>1. /\ stage' = [stage EXCEPT ![r] = "queued"] /\ UNCHANGED timer
          /\ queue' = Append(queue, r) /\ stage[r] = "entering"
      BY <1>2 DEF Enter
    <2>2. Grows
      BY <1>0, <2>1
    <2>3. \A i \in 1..Len(queue') : stage'[queue'[i]] # "new"
      BY <1>0, <1>00, <2>1
    <2>4. \A t \in Actors : /\ work'[t].req = work[t].req
                            /\ work'[t].step # "none" => work[t].step # "none"
      <3>1. work' = Resumed(work, r)
        BY <1>2 DEF Enter
      <3>2. QED
        BY <3>1, ResumedInv
    <2>5. QED
      BY <1>01, <2>1, <2>2, <2>3, <2>4
  <1>3. ASSUME NEW r \in Requests, NameRefused(r)
        PROVE  OnlyIssued' /\ Grows
    <2>1. /\ stage' = [stage EXCEPT ![r] = "queued"] /\ UNCHANGED timer
          /\ queue' = <<r>>
      BY <1>3 DEF NameRefused
    <2>2. Grows /\ stage'[r] = "queued"
      BY <1>0, <2>1
    <2>3. \A i \in 1..Len(queue') : stage'[queue'[i]] # "new"
      BY <2>1, <2>2
    <2>4. \A t \in Actors : work'[t].step # "none" => stage'[work'[t].req] # "new"
      <3>1. CASE work' = Resumed(work, r)
        <4>1. \A t \in Actors : /\ work'[t].req = work[t].req
                                /\ work'[t].step # "none" => work[t].step # "none"
          BY <3>1, ResumedInv
        <4>2. QED
          BY <1>01, <2>2, <4>1
      <3>2. CASE work' = [work EXCEPT ![Caller] = Task("enter", r)]
        <4>1. \A t \in Actors : work'[t] = work[t] \/ work'[t].req = r
          BY <1>0, <3>2 DEF Task
        <4>2. QED
          BY <1>01, <2>2, <4>1
      <3>3. QED
        BY <1>3, <3>1, <3>2 DEF NameRefused
    <2>5. QED
      BY <1>0, <2>1, <2>2, <2>3, <2>4
  <1>4. ASSUME NEW t \in Actors, Network(t) \/ \E r \in Requests : OnTimer(t, r)
        PROVE  OnlyIssued' /\ Grows
    <2>1. CASE \E r \in Requests : OnTimer(t, r)
      <3>1. PICK r \in Requests : OnTimer(t, r)
        BY <2>1
      <3>2. /\ timer[r] = "due" /\ UNCHANGED <<stage, queue>>
            /\ timer' = [timer EXCEPT ![r] = "off"]
            /\ work' = work \/ work' = [work EXCEPT ![t] = Task("timer", r)]
        BY <3>1 DEF OnTimer
      <3>3. \A u \in Actors : work'[u].step # "none" => stage[work'[u].req] # "new"
        <4>1. CASE work' = work
          BY <3>2, <4>1
        <4>2. CASE work' = [work EXCEPT ![t] = Task("timer", r)]
          BY <1>0, <3>2, <4>2 DEF Task
        <4>3. QED
          BY <3>2, <4>1, <4>2
      <3>4. \A q \in Requests : timer'[q] \in {"armed", "due"} => stage[q] # "new"
        BY <1>0, <3>2
      <3>5. QED
        BY <3>2, <3>3, <3>4
    <2>2. CASE Network(t)
      <3>1. queue # <<>> /\ Head(queue) = queue[1] /\ 1 \in 1..Len(queue)
        <4>1. PICK k \in OpKind : ops[k] > 0
          BY <2>2 DEF Network, OnResolve, OnConnect, OnHandshake, OnWrite, OnRead, OpKind
        <4>2. QED
          BY <1>0, <4>1, OnlyOperation
      <3>2. stage[Head(queue)] # "new" /\ Head(queue) \in Requests
        BY <1>00, <3>1
      <3>3. /\ stage' = stage \/ stage' = [stage EXCEPT ![Head(queue)] = "done"]
            /\ timer' = timer \/ timer' = Cancel(timer, Head(queue))
            /\ queue' = queue \/ queue' = Tail(queue)
            /\ \/ work' = work
               \/ \E k \in {"read", "fail"} :
                     work' = [work EXCEPT ![t] = Task(k, Head(queue))]
        BY <2>2 DEF Network, OnResolve, OnConnect, OnHandshake, OnWrite, OnRead,
                    Answered, AnswerLost, Fail
      <3>4. Grows
        BY <1>0, <3>2, <3>3
      <3>5. \A r \in Requests : timer'[r] \in {"armed", "due"} => stage'[r] # "new"
        BY <1>0, <3>2, <3>3, <3>4 DEF Cancel
      <3>6. \A i \in 1..Len(queue') : stage'[queue'[i]] # "new"
        <4>1. CASE queue' = queue
          BY <1>00, <3>4, <4>1
        <4>2. CASE queue' = Tail(queue)
          BY <1>0, <1>00, <3>1, <3>4, <4>2
        <4>3. QED
          BY <3>3, <4>1, <4>2
      <3>7. \A u \in Actors : work'[u].step # "none" => stage'[work'[u].req] # "new"
        <4>1. CASE work' = work
          BY <1>01, <3>4, <4>1
        <4>2. ASSUME NEW k \in {"read", "fail"},
                     work' = [work EXCEPT ![t] = Task(k, Head(queue))]
              PROVE  \A u \in Actors :
                        work'[u].step # "none" => stage'[work'[u].req] # "new"
          BY <1>0, <1>01, <3>2, <3>4, <4>2 DEF Task
        <4>3. QED
          BY <3>3, <4>1, <4>2
      <3>8. QED
        BY <3>4, <3>5, <3>6, <3>7
    <2>3. QED
      BY <1>4, <2>1, <2>2
  <1>5. ASSUME NEW t \in Actors, CallBack(t) \/ Return(t)
        PROVE  OnlyIssued' /\ Grows
    <2>1. UNCHANGED <<stage, timer, queue>> /\ work[t].step \in {"test", "call"}
      BY <1>5 DEF CallBack, Return
    <2>2. \A u \in Actors : \/ work'[u].step = "none"
                            \/ work[u].step # "none" /\ work'[u].req = work[u].req
      <3>1. CASE work' = Left(t)
        <4>1. /\ work'[t].step = "none"
              /\ \A u \in Actors : u # t =>
                   /\ work'[u].req = work[u].req
                   /\ \/ work'[u].step = work[u].step
                      \/ work[u].step = "issue" /\ work'[u].step = "call"
          BY <2>1, <3>1, LeftWork
        <4>2. QED
          BY <4>1
      <3>2. CASE work' = [work EXCEPT ![t].step = "call"]
        BY <1>0, <2>1, <3>2 DEF WorkState
      <3>3. QED
        BY <1>5, <3>1, <3>2 DEF CallBack, Return
    <2>3. QED
      BY <2>1, <2>2
  <1>6. ASSUME NEW t \in Actors, NEW r \in Requests, IssueInCallback(t, r)
        PROVE  OnlyIssued' /\ Grows
    <2>1. /\ stage' = [stage EXCEPT ![r] = "entering"] /\ timer' = Arm(timer, r)
          /\ UNCHANGED queue /\ work[t].step = "call"
      BY <1>6 DEF IssueInCallback
    <2>2. Grows
      BY <1>0, <2>1
    <2>3. \A u \in Actors : /\ work'[u].req = work[u].req
                            /\ work'[u].step # "none" => work[u].step # "none"
      BY <1>0, <1>6 DEF IssueInCallback, WorkState
    <2>4. \A q \in Requests : timer'[q] \in {"armed", "due"} => stage'[q] # "new"
      BY <1>0, <2>1, <2>2 DEF Arm
    <2>5. \A u \in Actors : work'[u].step # "none" => stage'[work'[u].req] # "new"
      BY <1>01, <2>2, <2>3
    <2>6. \A i \in 1..Len(queue') : stage'[queue'[i]] # "new"
      BY <1>00, <2>1, <2>2
    <2>7. QED
      BY <2>2, <2>4, <2>5, <2>6
  <1>7. CASE UNCHANGED vars
    BY <1>7 DEF vars
  <1>8. QED
    BY <1>1, <1>2, <1>3, <1>4, <1>5, <1>6, <1>7 DEF Next, Actors

\* With one thread no request has its callback called twice, however timer,
\* response and network errors interleave.
THEOREM OneThreadCallsOnce == ASSUME NoRace PROVE Spec => []AtMostOnce
  <1>1. Init => OneCall /\ Separate
    BY OneCallInit
  <1>2. Inv /\ OneCall /\ Separate /\ [Next]_vars => OneCall' /\ Separate'
    BY OneCallNext, SeparateNext
  <1>3. OneCall => AtMostOnce
    <2> SUFFICES ASSUME OneCall, NEW r \in Requests PROVE calls[r] <= 1
      BY DEF AtMostOnce
    <2>1. calls[r] = 0 \/ calls[r] = 1
      BY DEF OneCall
    <2>2. QED
      BY <2>1
  <1>4. QED
    BY <1>1, <1>2, <1>3, Invariance, PTL DEF Spec

\* What a step of the session is to the caller of the client.
LEMMA ContractStep ==
  ASSUME Inv, OneCall, OnlyIssued, [Next]_vars
  PROVE  [Contract!ContractNext]_(Contract!cvars)
  <1> DEFINE issued == {r \in Requests : stage[r] # "new"}
  <1>0. /\ stage \in [Requests -> {"new", "entering", "queued", "done"}]
        /\ calls \in [Requests -> Nat]
    BY DEF Inv, TypeOK
  <1>1. \A q \in Requests : stage[q] # "new" => stage'[q] # "new"
    BY OnlyIssuedNext
  <1>2. ASSUME NEW r \in Requests, stage[r] = "new",
               stage' = [stage EXCEPT ![r] = "entering"], UNCHANGED calls
        PROVE  Contract!Issue(r)
    BY <1>0, <1>2 DEF Contract!Issue
  <1>3. ASSUME NEW t \in Actors, CallBack(t)
        PROVE  [Contract!ContractNext]_(Contract!cvars)
    <2> DEFINE r == work[t].req
    <2>1. /\ r \in Requests /\ calls[r] = 0 /\ stage[r] # "new" /\ UNCHANGED stage
      BY <1>3 DEF CallBack, Inv, WorkOK, OneCall, OnlyIssued
    <2>2. CASE cb[r]
      <3>1. calls' = [calls EXCEPT ![r] = 1]
        BY <1>3, <2>1, <2>2 DEF CallBack
      <3>2. r \in issued /\ issued' = issued
        BY <2>1
      <3>3. PICK q \in Requests : q = r
        BY <2>1
      <3>4. Contract!CallBack(q)
        BY <2>1, <3>1, <3>2, <3>3 DEF Contract!CallBack
      <3>5. QED
        BY <3>4 DEF Contract!ContractNext
    <2>3. CASE ~cb[r]
      BY <1>3, <2>1, <2>3 DEF CallBack, Contract!cvars
    <2>4. QED
      BY <2>2, <2>3
  <1>4. ASSUME UNCHANGED calls,
               \A q \in Requests : stage[q] = "new" => stage'[q] = "new"
        PROVE  UNCHANGED Contract!cvars
    BY <1>1, <1>4 DEF Contract!cvars
  <1>5. ASSUME NEW r \in Requests,
               Issue(r) \/ Enter(r) \/ NameRefused(r) \/ Expire(r)
        PROVE  [Contract!ContractNext]_(Contract!cvars)
    <2>1. CASE Issue(r)
      BY <1>2, <2>1 DEF Issue, Contract!ContractNext
    <2>2. CASE Enter(r) \/ NameRefused(r) \/ Expire(r)
      <3>1. UNCHANGED calls
        BY <2>2 DEF Enter, NameRefused, Expire
      <3>2. \/ stage' = stage
            \/ stage[r] = "entering" /\ stage' = [stage EXCEPT ![r] = "queued"]
        BY <2>2 DEF Enter, NameRefused, Expire
      <3>3. QED
        BY <1>0, <1>4, <3>1, <3>2
    <2>3. QED
      BY <1>5, <2>1, <2>2
  <1>6. ASSUME NEW t \in Actors, Network(t) \/ \E r \in Requests : OnTimer(t, r)
        PROVE  [Contract!ContractNext]_(Contract!cvars)
    <2>1. UNCHANGED calls
      BY <1>6, HandlerEffect
    <2>2. stage' = stage \/ \E q \in Requests : stage' = [stage EXCEPT ![q] = "done"]
                                               /\ stage[q] # "new"
      <3>1. CASE \E r \in Requests : OnTimer(t, r)
        BY <3>1 DEF OnTimer
      <3>2. CASE Network(t)
        <4>1. queue # <<>> /\ Head(queue) = queue[1] /\ 1 \in 1..Len(queue)
              /\ Head(queue) \in Requests
          <5>1. PICK k \in OpKind : ops[k] > 0
            BY <3>2 DEF Network, OnResolve, OnConnect, OnHandshake, OnWrite, OnRead,
                        OpKind
          <5>2. QED
            BY <5>1, OnlyOperation DEF Inv, TypeOK
        <4>2. stage[Head(queue)] # "new"
          BY <4>1 DEF OnlyIssued
        <4>3. stage' = stage \/ stage' = [stage EXCEPT ![Head(queue)] = "done"]
          BY <3>2 DEF Network, OnResolve, OnConnect, OnHandshake, OnWrite, OnRead,
                      Answered, AnswerLost
        <4>4. QED
          BY <4>1, <4>2, <4>3
      <3>3. QED
        BY <1>6, <3>1, <3>2
    <2>3. QED
      BY <1>0, <1>4, <2>1, <2>2
  <1>7. ASSUME NEW t \in Actors, Return(t)
        PROVE  [Contract!ContractNext]_(Contract!cvars)
    BY <1>4, <1>7 DEF Return
  <1>8. ASSUME NEW t \in Actors, NEW r \in Requests, IssueInCallback(t, r)
        PROVE  [Contract!ContractNext]_(Contract!cvars)
    BY <1>2, <1>8 DEF IssueInCallback, Contract!ContractNext
  <1>9. CASE UNCHANGED vars
    BY <1>4, <1>9 DEF vars
  <1>10. QED
    BY <1>3, <1>5, <1>6, <1>7, <1>8, <1>9 DEF Next, Actors

\* With one thread every behaviour of the session is one of the contract: a
\* callback follows the request it answers and is called at most once.
THEOREM ContractKept == ASSUME NoRace PROVE Spec => Contract!ContractSafety
  <1>1. Init => Contract!ContractInit
    BY DEF Init, Contract!ContractInit
  <1>2. Init => OneCall /\ OnlyIssued /\ Separate
    BY OneCallInit
  <1>3. Inv /\ OneCall /\ OnlyIssued /\ Separate /\ [Next]_vars
        => OneCall' /\ OnlyIssued' /\ Separate'
    BY OneCallNext, OnlyIssuedNext, SeparateNext
  <1>4. Inv /\ OneCall /\ OnlyIssued /\ [Next]_vars
        => [Contract!ContractNext]_(Contract!cvars)
    BY ContractStep
  <1>5. QED
    BY <1>1, <1>2, <1>3, <1>4, Invariance, PTL DEF Spec, Contract!ContractSafety

----------------------------------------------------------------------------
(* No request is forgotten, with one thread and until an operation fails.  *)

\* Besides NoLostWakeup: the callback that on_read() or on_timer() has tested is
\* still there when it is called, so that on_read() comes to its do_write().
Awake ==
    errors = 0 =>
        /\ \A t \in Actors : work[t].task \notin {"fail", "enter"}
        /\ work[Caller].task = "idle"
        /\ \A t \in Actors : work[t].step = "test" => cb[work[t].req]
        /\ MutexFree => (pending <=> queue # <<>>) /\ (pending => InFlight)

LEMMA AwakeInit == Init => Awake
  <1> SUFFICES ASSUME Init PROVE Awake
    OBVIOUS
  <1>1. \A t \in Actors : work[t].task = "idle" /\ work[t].step = "none"
    BY DEF Init, Idle
  <1>2. ~pending /\ queue = <<>>
    BY DEF Init
  <1>3. QED
    BY <1>1, <1>2 DEF Awake, Actors

\* A write that do_write() starts is a wake-up for the queue.
LEMMA DoWriteWakes ==
  ASSUME NEW q, NEW o \in [OpKind -> Nat], DoWrite(q, o)
  PROVE  (pending' <=> q # <<>>) /\ (pending' => InFlight')
  <1>1. CASE q = <<>>
    BY <1>1 DEF DoWrite
  <1>2. CASE q # <<>>
    <2>1. pending' /\ ops' = Start(o, "write") /\ "write" \in OpKind
      BY <1>2 DEF DoWrite, OpKind
    <2>2. ops'["write"] > 0
      BY <2>1 DEF Start
    <2>3. QED
      BY <1>2, <2>1, <2>2 DEF InFlight
  <1>3. QED
    BY <1>1, <1>2

LEMMA AwakeNetwork ==
  ASSUME Inv, Awake, NEW t \in Threads, Network(t), errors' = 0
  PROVE  Awake'
  <1>0. /\ errors \in Nat /\ queue \in Seq(Requests) /\ work \in [Actors -> WorkState]
        /\ t \in Actors /\ t # Caller
    BY SessionAssumption DEF Inv, TypeOK, Actors
  <1>1. PICK k \in OpKind :
          /\ ops[k] > 0
          /\ k = "resolve" => OnResolve(t)
          /\ k = "connect" => OnConnect(t)
          /\ k = "handshake" => OnHandshake(t)
          /\ k = "write" => OnWrite(t)
          /\ k = "read" => OnRead(t)
    <2>1. {"resolve", "connect", "handshake", "write", "read"} = OpKind
      BY DEF OpKind
    <2>2. CASE OnResolve(t)
      BY <2>1, <2>2 DEF OnResolve
    <2>3. CASE OnConnect(t)
      BY <2>1, <2>3 DEF OnConnect
    <2>4. CASE OnHandshake(t)
      BY <2>1, <2>4 DEF OnHandshake
    <2>5. CASE OnWrite(t)
      BY <2>1, <2>5 DEF OnWrite
    <2>6. CASE OnRead(t)
      BY <2>1, <2>6 DEF OnRead
    <2>7. QED
      BY <2>2, <2>3, <2>4, <2>5, <2>6 DEF Network
  <1>2. /\ queue # <<>> /\ pending /\ MutexFree /\ Finish(ops, k) \in [OpKind -> Nat]
        /\ UNCHANGED cb
    <2>1. UNCHANGED cb
      BY <1>0, HandlerEffect
    <2>2. QED
      BY <1>1, <2>1, OnlyOperation
  <1>3. ~Fail(t) /\ errors = 0
    <2>1. errors' \in {errors, errors + 1}
      BY DEF Network, OnResolve, OnConnect, OnHandshake, OnWrite, OnRead,
             Answered, AnswerLost, Fail
    <2>2. QED
      BY <1>0, <2>1 DEF Fail
  <1>4. CASE \E l \in OpKind : ops' = Start(Finish(ops, k), l) /\ pending'
             /\ queue' = queue /\ work' = work
    <2>1. PICK l \in OpKind : ops' = Start(Finish(ops, k), l)
      BY <1>4
    <2>2. ops'[l] > 0
      BY <1>2, <2>1 DEF Start
    <2>3. InFlight' /\ UNCHANGED <<cb, queue, work>> /\ pending'
      BY <1>2, <1>4, <2>2 DEF InFlight
    <2>4. QED
      BY <1>2, <1>3, <2>3 DEF Awake, MutexFree, Holds
  <1>5. CASE k = "read" /\ Answered(t)
    <2>1. CASE work' = [work EXCEPT ![t] = Task("read", Head(queue))] /\ cb[Head(queue)]
      <3>1. /\ work'[t].task = "read" /\ work'[t].req = Head(queue)
            /\ \A u \in Actors : u # t => work'[u] = work[u]
        BY <1>0, <2>1 DEF Task
      <3>2. ~MutexFree'
        BY <1>0, <3>1 DEF MutexFree, Holds
      <3>3. QED
        BY <1>0, <1>2, <1>3, <2>1, <3>1, <3>2 DEF Awake
    <2>2. CASE DoWrite(Tail(queue), Finish(ops, k)) /\ work' = work
      <3>1. queue' = Tail(queue)
        BY <1>5 DEF Answered
      <3>2. (pending' <=> queue' # <<>>) /\ (pending' => InFlight')
        BY <1>2, <2>2, <3>1, DoWriteWakes
      <3>3. QED
        BY <1>2, <1>3, <2>2, <3>2 DEF Awake
    <2>3. QED
      BY <1>5, <2>1, <2>2 DEF Answered
  <1>6. QED
    <2>0. {"resolve", "connect", "handshake", "write", "read"} = OpKind
      BY DEF OpKind
    <2>1. CASE k = "resolve"
      BY <1>1, <1>2, <1>3, <1>4, <2>0, <2>1 DEF OnResolve
    <2>2. CASE k = "connect"
      BY <1>1, <1>2, <1>3, <1>4, <2>0, <2>2, DoWriteNext DEF OnConnect
    <2>3. CASE k = "handshake"
      BY <1>1, <1>2, <1>3, <1>4, <2>0, <2>3, DoWriteNext DEF OnHandshake
    <2>4. CASE k = "write"
      BY <1>1, <1>2, <1>3, <1>4, <2>0, <2>4 DEF OnWrite
    <2>5. CASE k = "read"
      BY <1>1, <1>2, <1>3, <1>4, <1>5, <2>0, <2>5 DEF OnRead, AnswerLost
    <2>6. QED
      BY <2>0, <2>1, <2>2, <2>3, <2>4, <2>5

LEMMA AwakeEnter ==
  ASSUME Inv, Awake, NEW r \in Requests, Enter(r), errors' = 0
  PROVE  Awake'
  <1>0. /\ errors = 0 /\ MutexFree /\ UNCHANGED cb
        /\ ops \in [OpKind -> Nat] /\ work \in [Actors -> WorkState]
    BY DEF Enter, Inv, TypeOK
  <1>1. queue' # <<>>
    <2>1. queue' = Append(queue, r) /\ queue \in Seq(Requests)
      BY DEF Enter, Inv, TypeOK
    <2>2. QED
      BY <2>1
  <1>2. pending' /\ InFlight'
    <2>1. CASE queue = <<>> /\ ~open
      <3>1. pending' /\ ops' = Start(ops, "resolve") /\ "resolve" \in OpKind
        BY <2>1 DEF Enter, OpKind
      <3>2. ops'["resolve"] > 0
        BY <1>0, <3>1 DEF Start
      <3>3. QED
        BY <3>1, <3>2 DEF InFlight
    <2>2. CASE UNCHANGED <<pending, ops>> /\ pending
      BY <1>0, <2>2 DEF Awake, InFlight
    <2>3. CASE DoWrite(queue', ops)
      BY <1>0, <1>1, <2>3, DoWriteWakes
    <2>4. QED
      BY <2>1, <2>2, <2>3 DEF Enter
  <1>3. \A u \in Actors : /\ work'[u].task = work[u].task
                          /\ work'[u].req = work[u].req
                          /\ work'[u].step = "test" => work[u].step = "test"
    <2>1. work' = Resumed(work, r)
      BY DEF Enter
    <2>2. \A u \in Actors :
            /\ work'[u].task = work[u].task /\ work'[u].req = work[u].req
            /\ \/ work'[u].step = work[u].step
               \/ work[u].step = "issue" /\ work'[u].step = "call"
      BY <2>1, ResumedInv
    <2>3. QED
      BY <2>2
  <1>4. QED
    BY <1>0, <1>1, <1>2, <1>3 DEF Awake, Actors

LEMMA AwakeNext ==
  ASSUME OneThread, Inv, Awake, [Next]_vars
  PROVE  Awake'
  <1> SUFFICES ASSUME errors' = 0 PROVE Awake'
    BY DEF Awake
  <1>0. /\ errors \in Nat /\ work \in [Actors -> WorkState] /\ cb \in [Requests -> BOOLEAN]
        /\ ops \in [OpKind -> Nat] /\ Caller \in Actors /\ Threads \subseteq Actors
        /\ Caller \notin Threads
    BY SessionAssumption DEF Inv, TypeOK, Actors
  <1>1. ASSUME NEW r \in Requests, Issue(r) \/ Expire(r)
        PROVE  Awake'
    BY <1>1 DEF Issue, Expire, Awake, InFlight, MutexFree, Holds
  <1>2. ASSUME NEW r \in Requests, Enter(r) \/ NameRefused(r)
        PROVE  Awake'
    BY <1>0, <1>2, AwakeEnter DEF NameRefused
  <1>3. ASSUME NEW t \in Threads, Network(t)
        PROVE  Awake'
    BY <1>3, AwakeNetwork
  <1>4. ASSUME NEW t \in Threads, NEW r \in Requests, OnTimer(t, r)
        PROVE  Awake'
    <2>1. UNCHANGED <<cb, queue, pending, ops, errors>> /\ Free(t)
      BY <1>4 DEF OnTimer
    <2>2. \/ work' = work
          \/ work' = [work EXCEPT ![t] = Task("timer", r)] /\ cb[r]
      BY <1>4 DEF OnTimer
    <2>3. \A u \in Actors :
             /\ work'[u].task \notin {"fail", "enter"} \/ work'[u].task = work[u].task
             /\ u = Caller => work'[u].task = work[u].task
             /\ \/ work'[u].step = "test" => cb[work'[u].req]
                \/ work'[u].step = work[u].step /\ work'[u].req = work[u].req
             /\ Holds(u)' <=> Holds(u)
      BY <1>0, <2>1, <2>2 DEF Task, Free, Holds
    <2>4. QED
      BY <1>0, <2>1, <2>3 DEF Awake, MutexFree, InFlight
  <1>5. ASSUME NEW t \in Actors, CallBack(t)
        PROVE  Awake'
    <2>1. /\ UNCHANGED <<cb, queue, pending, ops, errors>>
          /\ work' = [work EXCEPT ![t].step = "call"]
      BY <1>5 DEF CallBack, Awake
    <2>2. \A u \in Actors :
             /\ work'[u].task = work[u].task /\ work'[u].req = work[u].req
             /\ work'[u].step = "test" => work[u].step = "test"
      BY <1>0, <2>1 DEF WorkState
    <2>3. QED
      BY <1>0, <2>1, <2>2 DEF Awake, MutexFree, Holds, InFlight
  <1>6. ASSUME NEW t \in Actors, Return(t)
        PROVE  Awake'
    <2>1. errors = 0 /\ queue' = queue /\ work' = Left(t) /\ work[t].step = "call"
      BY <1>6 DEF Return
    <2>2. /\ work'[t].task = "idle" /\ work'[t].step = "none"
          /\ \A u \in Actors : u # t => work'[u].task = work[u].task
          /\ \A u \in Actors : u # t => \/ work'[u].step = work[u].step
                                        \/ work'[u].step = "call"
      BY <2>1, LeftWork
    \* Only the one thread was at work.
    <2>3. work[Caller].task = "idle" /\ work[Caller].step = "none" /\ t \in Threads
      BY <1>0, <2>1 DEF Awake, Inv, WorkOK, Actors
    <2>4. \A u \in Actors : u # t => u = Caller
      BY <2>3 DEF OneThread, Actors
    <2>5. \A u \in Actors : work'[u].task = "idle" /\ work'[u].step # "test"
      BY <2>2, <2>3, <2>4
    <2>6. (pending' <=> queue' # <<>>) /\ (pending' => InFlight')
      <3>1. CASE work[t].task = "read"
        BY <1>0, <1>6, <2>1, <3>1, DoWriteWakes DEF Return, WritesNext
      <3>2. CASE work[t].task # "read"
        <4>1. \A u \in Actors : work[u].task \notin {"read", "fail", "enter"}
          BY <2>1, <2>3, <2>4, <3>2 DEF Awake
        <4>2. MutexFree
          BY <4>1 DEF MutexFree, Holds
        <4>3. UNCHANGED <<pending, ops>>
          BY <1>6, <4>1 DEF Return, WritesNext
        <4>4. QED
          BY <2>1, <4>2, <4>3 DEF Awake, InFlight
      <3>3. QED
        BY <3>1, <3>2
    <2>7. QED
      BY <1>0, <2>5, <2>6 DEF Awake
  <1>7. ASSUME NEW t \in Actors, NEW r \in Requests, IssueInCallback(t, r)
        PROVE  Awake'
    <2>1. UNCHANGED <<cb, queue, pending, ops, errors>>
      BY <1>7 DEF IssueInCallback
    <2>2. \A u \in Actors :
             /\ work'[u].task = work[u].task /\ work'[u].req = work[u].req
             /\ work'[u].step = "test" => work[u].step = "test"
      BY <1>0, <1>7 DEF IssueInCallback, WorkState
    <2>3. QED
      BY <1>0, <2>1, <2>2 DEF Awake, MutexFree, Holds, InFlight
  <1>8. CASE UNCHANGED vars
    BY <1>8 DEF vars, Awake, MutexFree, Holds, InFlight
  <1>9. QED
    BY <1>1, <1>2, <1>3, <1>4, <1>5, <1>6, <1>7, <1>8 DEF Next

\* With one thread a queued request always has an operation or a callback that
\* works for it, until one fails, whatever times out or is sent again.
THEOREM NoRequestStranded == ASSUME OneThread PROVE Spec => []NoLostWakeup
  <1>1. Awake => NoLostWakeup
    BY DEF Awake, NoLostWakeup
  <1>2. Inv /\ Awake /\ [Next]_vars => Awake'
    BY AwakeNext
  <1>3. QED
    BY <1>1, <1>2, AwakeInit, Invariance, PTL DEF Spec

----------------------------------------------------------------------------
(* URLs: the constructor takes apart what the grammar has put together.    *)

\* One or two halves.
LEMMA PairOfOne ==
  ASSUME NEW T, NEW s \in Seq(T), NEW sep, NEW b \in BOOLEAN, \A k \in 1..Len(s) : s[k] # sep
  PROVE  SplitPair(s, sep, b) =
            [ok |-> TRUE, left |-> IF b THEN s ELSE <<>>, right |-> IF b THEN <<>> ELSE s]
  <1> DEFINE c == <<s>>
  <1>1. Split(s, sep) = c
    BY SplitPlain
  <1>2. Len(c) = 1 /\ c[1] = s
    OBVIOUS
  <1> HIDE DEF c
  <1>3. SplitPair(s, sep, b) =
            [ok    |-> Len(c) <= 2,
             left  |-> IF Len(c) = 1 /\ ~b THEN <<>> ELSE c[1],
             right |-> IF Len(c) > 1 THEN c[2] ELSE IF b THEN <<>> ELSE c[1]]
    BY <1>1 DEF SplitPair
  <1>4. /\ (Len(c) <= 2) = TRUE
        /\ (IF Len(c) = 1 /\ ~b THEN <<>> ELSE c[1]) = IF b THEN s ELSE <<>>
        /\ (IF Len(c) > 1 THEN c[2] ELSE IF b THEN <<>> ELSE c[1]) = IF b THEN <<>> ELSE s
    BY <1>2
  <1>5. QED
    BY <1>3, <1>4, Zenon

LEMMA PairOfTwo ==
  ASSUME NEW T, NEW x \in Seq(T), NEW y \in Seq(T), NEW sep \in T, NEW b \in BOOLEAN,
         \A k \in 1..Len(x) : x[k] # sep, \A k \in 1..Len(y) : y[k] # sep
  PROVE  SplitPair(x \o <<sep>> \o y, sep, b) = [ok |-> TRUE, left |-> x, right |-> y]
  <1> DEFINE s == x \o <<sep>> \o y
             c == <<x, y>>
  <1>1. s \in Seq(T) /\ Joins(s, x, sep, y)
    BY JoinsText
  <1> HIDE DEF s
  <1>2. Split(s, sep) = c
    <2>1. Split(x, sep) = <<x>> /\ Split(y, sep) = <<y>>
      BY SplitPlain
    <2>2. Split(s, sep) = Split(x, sep) \o Split(y, sep)
      BY <1>1, SplitConcat
    <2>3. Split(s, sep) = <<x>> \o <<y>>
      BY <2>1, <2>2, Zenon
    <2>4. QED
      BY <2>3, PairConcat
  <1>3. Len(c) = 2 /\ c[1] = x /\ c[2] = y
    OBVIOUS
  <1> HIDE DEF c
  <1>4. SplitPair(s, sep, b) =
            [ok    |-> Len(c) <= 2,
             left  |-> IF Len(c) = 1 /\ ~b THEN <<>> ELSE c[1],
             right |-> IF Len(c) > 1 THEN c[2] ELSE IF b THEN <<>> ELSE c[1]]
    BY <1>2 DEF SplitPair
  <1>5. /\ (Len(c) <= 2) = TRUE
        /\ (IF Len(c) = 1 /\ ~b THEN <<>> ELSE c[1]) = x
        /\ (IF Len(c) > 1 THEN c[2] ELSE IF b THEN <<>> ELSE c[1]) = y
    BY <1>3
  <1>6. QED
    BY <1>4, <1>5, Zenon DEF s

Chars == STRING \cup {"/", ":", "@", "[", "]", "?"}

Without(s, delimiters) == s \in Seq(Chars) /\ \A k \in 1..Len(s) : s[k] \notin delimiters

LEMMA FreeIsWithout ==
  ASSUME NEW s, NEW D, FreeOf(s, D)
  PROVE  Without(s, D)
  <1>1. STRING \subseteq Chars
    BY DEF Chars
  <1>2. QED
    BY <1>1, SeqGrows DEF FreeOf, Without

LEMMA WithoutLess ==
  ASSUME NEW s, NEW D, NEW E, E \subseteq D, Without(s, D)
  PROVE  Without(s, E)
  BY DEF Without

LEMMA WithoutEmpty == ASSUME NEW D PROVE Without(<<>>, D)
  BY DEF Without

LEMMA WithoutSingle ==
  ASSUME NEW c \in Chars, NEW D, c \notin D
  PROVE  Without(<<c>>, D)
  BY Single DEF Without

LEMMA WithoutConcat ==
  ASSUME NEW a, NEW b, NEW D, Without(a, D), Without(b, D)
  PROVE  Without(a \o b, D)
  <1> DEFINE s == a \o b
  <1>1. a \in Seq(Chars) /\ b \in Seq(Chars)
    BY DEF Without
  <1>2. /\ s \in Seq(Chars) /\ Len(s) = Len(a) + Len(b)
        /\ \A k \in 1..Len(a) : s[k] = a[k]
        /\ \A k \in 1..Len(b) : s[Len(a) + k] = b[k]
    BY <1>1, PiecesOf
  <1> HIDE DEF s
  <1>3. ASSUME NEW k \in 1..Len(s) PROVE s[k] \notin D
    <2>1. Len(a) \in Nat /\ Len(b) \in Nat
      BY <1>1
    <2>2. CASE k \in 1..Len(a)
      BY <1>2, <2>2 DEF Without
    <2>3. CASE k \notin 1..Len(a)
      <3> DEFINE j == k - Len(a)
      <3>1. j \in 1..Len(b) /\ k = Len(a) + j
        BY <1>2, <2>1, <2>3
      <3> HIDE DEF j
      <3>2. s[k] = b[j]
        BY <1>2, <3>1
      <3>3. QED
        BY <3>1, <3>2 DEF Without
    <2>4. QED
      BY <2>2, <2>3
  <1>4. Without(s, D)
    BY <1>2, <1>3 DEF Without
  <1>5. QED
    BY <1>4 DEF s

LEMMA DelimitersAreChars == {"/", ":", "@", "[", "]", "?"} \subseteq Chars
  BY DEF Chars

LEMMA UserParts ==
  ASSUME NEW login, NEW password, FreeOf(login, {"/", ":", "@"}), FreeOf(password, {"/", ":", "@"})
  PROVE  \E u : /\ Without(u, {"/", "@"})
                /\ SplitPair(u, ":", TRUE) = [ok |-> TRUE, left |-> login, right |-> password]
                /\ \/ u = <<>> /\ UserText(login, password) = <<>>
                   \/ UserText(login, password) = u \o <<"@">>
  <1> DEFINE D == {"/", ":", "@"}
             E == {"/", "@"}
             u == login \o Opt(<<":">>, password)
  <1>1. Without(login, D) /\ Without(password, D) /\ Without(login, E) /\ Without(password, E)
        /\ login \in Seq(Chars) /\ password \in Seq(Chars) /\ ":" \in Chars
        /\ (\A k \in 1..Len(login) : login[k] # ":") /\ (\A k \in 1..Len(password) : password[k] # ":")
    <2>1. Without(login, D) /\ Without(password, D) /\ ":" \in Chars /\ E \subseteq D /\ ":" \in D
      BY FreeIsWithout, DelimitersAreChars
    <2> HIDE DEF D, E
    <2>2. QED
      BY <2>1, WithoutLess DEF Without
  <1> HIDE DEF D
  <1>2. CASE password = <<>>
    <2>1. u = login
      <3>1. u = login \o password
        BY <1>2 DEF Opt
      <3> HIDE DEF u
      <3>2. QED
        BY <1>1, <1>2, <3>1, ConcatEmpty
    <2>2. SplitPair(login, ":", TRUE) = [ok |-> TRUE, left |-> login, right |-> <<>>]
      BY <1>1, PairOfOne
    <2>3. SplitPair(u, ":", TRUE) = [ok |-> TRUE, left |-> login, right |-> password]
      BY <1>2, <2>1, <2>2, Zenon
    <2>4. Without(u, E)
      BY <1>1, <2>1, Zenon
    <2>5. CASE login = <<>>
      <3>1. login \o password = <<>>
        BY <1>1, <1>2, <2>5, ConcatEmpty
      <3>2. UserText(login, password) = <<>>
        BY <3>1 DEF UserText
      <3>3. u = <<>>
        BY <2>1, <2>5, Zenon
      <3> HIDE DEF u, E
      <3>4. QED
        BY <2>3, <2>4, <3>2, <3>3 DEF E
    <2>6. CASE login # <<>>
      <3>1. login \o password # <<>>
        BY <1>1, <2>6, ConcatEmpty
      <3>2. UserText(login, password) = u \o <<"@">>
        BY <3>1 DEF UserText
      <3> HIDE DEF u, E
      <3>3. QED
        BY <2>3, <2>4, <3>2 DEF E
    <2>7. QED
      BY <2>5, <2>6
  <1>3. CASE password # <<>>
    <2>1. u = login \o <<":">> \o password
      <3>1. u = login \o (<<":">> \o password)
        BY <1>3 DEF Opt
      <3>2. <<":">> \in Seq(Chars)
        BY <1>1, Single
      <3> HIDE DEF u
      <3>3. QED
        BY <1>1, <3>1, <3>2, ConcatAssoc
    <2>2. SplitPair(login \o <<":">> \o password, ":", TRUE) = [ok |-> TRUE, left |-> login, right |-> password]
      BY <1>1, PairOfTwo
    <2>3. Without(u, E)
      <3>1. ":" \notin E
        OBVIOUS
      <3> HIDE DEF E, u
      <3>2. Without(<<":">>, E)
        BY <1>1, <3>1, WithoutSingle
      <3>3. Without(login \o <<":">>, E)
        BY <1>1, <3>2, WithoutConcat
      <3>4. Without((login \o <<":">>) \o password, E)
        BY <1>1, <3>3, WithoutConcat
      <3>5. QED
        BY <2>1, <3>4, Zenon
    <2>4. login \o password # <<>>
      BY <1>1, <1>3, ConcatEmpty
    <2>5. UserText(login, password) = u \o <<"@">>
      BY <2>4 DEF UserText
    <2> HIDE DEF u, E
    <2>6. SplitPair(u, ":", TRUE) = [ok |-> TRUE, left |-> login, right |-> password]
      BY <2>1, <2>2, Zenon
    <2>7. QED
      BY <2>3, <2>5, <2>6 DEF E
  <1>4. QED
    BY <1>2, <1>3

LEMMA HostParts ==
  ASSUME NEW host, NEW portText, FreeOf(host, {"/", "@", "[", "]"}), host # <<>>,
         FreeOf(portText, {"/", ":", "@"})
  PROVE  LET hp == HostText(host) \o Opt(<<":">>, portText) IN
         /\ HostText(host) \in Seq(Chars) /\ Opt(<<":">>, portText) \in Seq(Chars)
         /\ Without(hp, {"/", "@"}) /\ hp # <<>>
         /\ HostPort(hp) = [ok |-> TRUE, left |-> host, right |-> portText]
  <1> DEFINE E == {"/", "@"}
             h == HostText(host)
             q == Opt(<<":">>, portText)
             hp == h \o q
             bare == ":" \notin {host[k] : k \in 1..Len(host)}
  <1>1. /\ Without(host, E) /\ Without(portText, E) /\ host \in Seq(Chars) /\ portText \in Seq(Chars)
        /\ \A k \in 1..Len(host) : host[k] \notin {"[", "]"}
        /\ \A k \in 1..Len(portText) : portText[k] # ":"
    <2>1. Without(host, {"/", "@", "[", "]"}) /\ Without(portText, {"/", ":", "@"})
      BY FreeIsWithout
    <2>2. Without(host, E) /\ Without(portText, E)
      BY <2>1, WithoutLess
    <2>3. QED
      BY <2>1, <2>2 DEF Without
  <1>2. /\ ":" \in Chars /\ "[" \in Chars /\ "]" \in Chars
        /\ ":" \notin E /\ "[" \notin E /\ "]" \notin E
    BY DelimitersAreChars
  <1>3. /\ Without(<<":">>, E) /\ Without(<<"[">>, E) /\ Without(<<"]">>, E)
        /\ <<":">> \in Seq(Chars) /\ <<"[">> \in Seq(Chars) /\ <<"]">> \in Seq(Chars)
    BY <1>2, WithoutSingle, Single
  <1>4. h = IF bare THEN host ELSE <<"[">> \o host \o <<"]">>
    BY DEF HostText
  <1>5. q = IF portText = <<>> THEN <<>> ELSE <<":">> \o portText
    BY DEF Opt
  <1>6. Len(host) \in Nat \ {0} /\ Len(portText) \in Nat /\ (portText # <<>> => Len(portText) > 0)
    BY <1>1
  <1> HIDE DEF E, h, q
  <1>7. Without(h, E) /\ Without(q, E)
    <2>1. Without(<<"[">> \o host, E)
      BY <1>1, <1>3, WithoutConcat
    <2>2. Without((<<"[">> \o host) \o <<"]">>, E)
      BY <1>3, <2>1, WithoutConcat
    <2>3. Without(<<":">> \o portText, E) /\ Without(<<>>, E)
      BY <1>1, <1>3, WithoutConcat, WithoutEmpty
    <2> HIDE DEF bare
    <2>4. QED
      BY <1>1, <1>4, <1>5, <2>2, <2>3, Zenon
  <1>8. h \in Seq(Chars) /\ q \in Seq(Chars)
    BY <1>7 DEF Without
  <1>9. Without(hp, E)
    BY <1>7, WithoutConcat
  <1>10. /\ hp \in Seq(Chars) /\ Len(hp) = Len(h) + Len(q)
         /\ \A k \in 1..Len(h) : hp[k] = h[k]
         /\ \A k \in 1..Len(q) : hp[Len(h) + k] = q[k]
    BY <1>8, PiecesOf
  <1>11. /\ portText = <<>> => q = <<>> /\ Len(q) = 0
         /\ portText # <<>> => /\ Len(q) = 1 + Len(portText) /\ q[1] = ":"
                               /\ \A k \in 1..Len(portText) : q[1 + k] = portText[k]
    <2>1. CASE portText = <<>>
      BY <1>5, <2>1
    <2>2. CASE portText # <<>>
      <3> DEFINE c == <<":">>
      <3>1. c \in Seq(Chars) /\ Len(c) = 1 /\ c[1] = ":"
        BY <1>2, Single
      <3>2. q = c \o portText
        BY <1>5, <2>2
      <3> HIDE DEF c
      <3>3. /\ Len(c \o portText) = Len(c) + Len(portText)
            /\ \A k \in 1..Len(c) : (c \o portText)[k] = c[k]
            /\ \A k \in 1..Len(portText) : (c \o portText)[Len(c) + k] = portText[k]
        <4>1. c \in Seq(Chars) /\ portText \in Seq(Chars)
          BY <1>1, <3>1
        <4>2. QED
          BY <4>1, PiecesOf
      <3>4. QED
        BY <2>2, <3>1, <3>2, <3>3
    <2>3. QED
      BY <2>1, <2>2
  <1>12. CASE bare
    <2>1. h = host
      BY <1>4, <1>12
    <2>2. hp # <<>> /\ hp[1] # "["
      <3>1. 1 \in 1..Len(host)
        BY <1>6
      <3>2. hp[1] = host[1] /\ Len(hp) # 0
        BY <1>6, <1>8, <1>10, <2>1, <3>1
      <3>3. QED
        BY <1>1, <1>10, <3>1, <3>2
    <2>3. \A k \in 1..Len(host) : host[k] # ":"
      BY <1>12
    <2>4. HostPort(hp) = SplitPair(hp, ":", TRUE)
      <3> HIDE DEF hp
      <3>1. QED
        BY <2>2 DEF HostPort
    <2>5. CASE portText = <<>>
      <3>1. hp = host
        <4>1. q = <<>>
          BY <1>11, <2>5
        <4>2. QED
          BY <1>1, <1>8, <2>1, <4>1, ConcatEmpty
      <3>2. SplitPair(host, ":", TRUE) = [ok |-> TRUE, left |-> host, right |-> <<>>]
        BY <1>1, <2>3, PairOfOne
      <3>3. HostPort(hp) = [ok |-> TRUE, left |-> host, right |-> portText]
        BY <2>4, <2>5, <3>1, <3>2, Zenon
      <3>4. QED
        BY <1>8, <1>9, <2>2, <3>3 DEF E, h, q
    <2>6. CASE portText # <<>>
      <3>1. hp = host \o <<":">> \o portText
        <4>1. q = <<":">> \o portText
          BY <1>5, <2>6
        <4>2. (host \o <<":">>) \o portText = host \o (<<":">> \o portText)
          BY <1>1, <1>3, ConcatAssoc
        <4>3. QED
          BY <2>1, <4>1, <4>2, Zenon
      <3>2. SplitPair(host \o <<":">> \o portText, ":", TRUE) = [ok |-> TRUE, left |-> host, right |-> portText]
        BY <1>1, <1>2, <2>3, PairOfTwo
      <3>3. HostPort(hp) = [ok |-> TRUE, left |-> host, right |-> portText]
        BY <2>4, <3>1, <3>2, Zenon
      <3>4. QED
        BY <1>8, <1>9, <2>2, <3>3 DEF E, h, q
    <2>7. QED
      BY <2>5, <2>6
  <1>13. CASE ~bare
    <2> DEFINE l == Len(host)
               b == <<"[">> \o host
               close == Position(hp, "]", 1)
               colon == Position(hp, ":", close + 1)
    <2>1. /\ Len(h) = l + 2 /\ h[1] = "[" /\ h[l + 2] = "]"
          /\ \A k \in 1..l : h[k + 1] = host[k]
      <3> DEFINE c == <<"[">>
                 d == <<"]">>
      <3>1. c \in Seq(Chars) /\ Len(c) = 1 /\ c[1] = "[" /\ d \in Seq(Chars) /\ Len(d) = 1 /\ d[1] = "]"
        BY <1>2, Single
      <3>2. h = c \o host \o d
        BY <1>4, <1>13
      <3> HIDE DEF c, d
      <3>3. /\ c \o host \in Seq(Chars) /\ Len(c \o host) = Len(c) + l
            /\ \A k \in 1..Len(c) : (c \o host)[k] = c[k]
            /\ \A k \in 1..l : (c \o host)[Len(c) + k] = host[k]
        <4>1. c \in Seq(Chars) /\ host \in Seq(Chars)
          BY <1>1, <3>1
        <4>2. QED
          BY <4>1, PiecesOf
      <3> DEFINE e == c \o host
      <3> HIDE DEF e
      <3>4. /\ Len(e \o d) = Len(e) + Len(d)
            /\ \A k \in 1..Len(e) : (e \o d)[k] = e[k]
            /\ \A k \in 1..Len(d) : (e \o d)[Len(e) + k] = d[k]
        BY <3>1, <3>3, PiecesOf DEF e
      <3>5. Len(e) = l + 1 /\ e[1] = "[" /\ \A k \in 1..l : e[k + 1] = host[k]
        BY <1>6, <3>1, <3>3 DEF e
      <3>6. h = e \o d
        BY <3>2 DEF e
      <3> HIDE DEF l
      <3>7. l \in Nat \ {0}
        BY <1>6 DEF l
      <3>8. 1 \in 1..Len(e) /\ 1 \in 1..Len(d) /\ \A k \in 1..l : k + 1 \in 1..Len(e)
        BY <3>1, <3>5, <3>7
      <3>9. Len(h) = l + 2 /\ h[1] = "[" /\ h[l + 2] = "]" /\ \A k \in 1..l : h[k + 1] = host[k]
        BY <3>1, <3>4, <3>5, <3>6, <3>7, <3>8
      <3>10. QED
        BY <3>9 DEF l
    <2> HIDE DEF b, hp
    <2>2. l \in Nat \ {0} /\ Len(q) \in Nat /\ Len(hp) = l + 2 + Len(q)
      BY <1>6, <1>8, <1>10, <2>1
    <2>3. /\ hp[1] = "[" /\ hp[l + 2] = "]"
          /\ \A k \in 1..l : hp[1 + k] = host[k]
          /\ \A k \in 1..Len(q) : hp[l + 2 + k] = q[k]
      <3>1. 1 \in 1..Len(h) /\ l + 2 \in 1..Len(h) /\ \A k \in 1..l : k + 1 \in 1..Len(h)
        BY <1>6, <2>1
      <3>2. QED
        BY <1>10, <2>1, <3>1
    <2> HIDE DEF l
    <2>4. close = l + 2
      <3>1. ASSUME NEW k \in 1..(l + 1) PROVE hp[k] # "]"
        <4>1. CASE k = 1
          BY <2>3, <4>1
        <4>2. CASE k # 1
          <5> DEFINE j == k - 1
          <5>1. j \in 1..l /\ k = 1 + j
            BY <2>2, <4>2
          <5> HIDE DEF j
          <5>2. hp[k] = host[j]
            BY <2>3, <5>1
          <5>3. QED
            BY <1>1, <5>1, <5>2 DEF l
        <4>3. QED
          BY <4>1, <4>2
      <3>2. l + 2 \in 1..Len(hp) /\ 1 \in Nat /\ Len(hp) \in Nat /\ (l + 2) - 1 = l + 1
        BY <2>2
      <3> DEFINE n == l + 2
      <3>3. n \in 1..Len(hp) /\ hp[n] = "]" /\ n - 1 = l + 1
        BY <2>3, <3>2
      <3> HIDE DEF n
      <3>4. Position(hp, "]", 1) = n
        BY <3>1, <3>2, <3>3, PositionFirst
      <3>5. QED
        BY <3>4 DEF n
    <2>5. portText = <<>> => colon = 0
      <3> SUFFICES ASSUME portText = <<>> PROVE colon = 0
        OBVIOUS
      <3>1. Len(hp) = l + 2
        BY <1>11, <2>2
      <3> DEFINE n == close + 1
      <3>2. \A k \in n..Len(hp) : hp[k] # ":"
        BY <2>2, <2>4, <3>1
      <3> HIDE DEF n
      <3>3. Position(hp, ":", n) = 0
        BY <3>2, PositionNone
      <3>4. QED
        BY <3>3 DEF n
    <2>6. portText # <<>> => /\ colon = l + 3 /\ Len(hp) = l + 3 + Len(portText)
                             /\ \A k \in 1..Len(portText) : hp[(l + 3) + k] = portText[k]
      <3> SUFFICES ASSUME portText # <<>>
                   PROVE  /\ colon = l + 3 /\ Len(hp) = l + 3 + Len(portText)
                          /\ \A k \in 1..Len(portText) : hp[(l + 3) + k] = portText[k]
        OBVIOUS
      <3>1. /\ Len(q) = 1 + Len(portText) /\ q[1] = ":"
            /\ \A k \in 1..Len(portText) : q[1 + k] = portText[k]
        BY <1>11
      <3>2. Len(hp) = l + 3 + Len(portText)
        BY <1>6, <2>2, <3>1
      <3>3. hp[l + 3] = ":"
        <4>1. 1 \in 1..Len(q) /\ l + 2 + 1 = l + 3
          BY <1>6, <2>2, <3>1
        <4>2. QED
          BY <2>3, <3>1, <4>1
      <3>4. \A k \in 1..Len(portText) : hp[(l + 3) + k] = portText[k]
        <4> TAKE k \in 1..Len(portText)
        <4>1. 1 + k \in 1..Len(q) /\ l + 2 + (1 + k) = (l + 3) + k
          BY <1>6, <2>2, <3>1
        <4>2. QED
          BY <2>3, <3>1, <4>1
      <3> DEFINE n == l + 3
      <3>5. n \in Nat /\ n \in n..Len(hp) /\ Len(hp) \in Nat /\ hp[n] = ":" /\ close + 1 = n
            /\ \A k \in n..(n - 1) : hp[k] # ":"
        BY <1>6, <2>2, <2>4, <3>2, <3>3
      <3> HIDE DEF n
      <3>6. Position(hp, ":", n) = n
        BY <3>5, PositionFirst
      <3>7. colon = n
        BY <3>5, <3>6
      <3>8. QED
        BY <3>2, <3>4, <3>7 DEF n
    <2>7. /\ hp # <<>>
          /\ SubSeq(hp, 2, close - 1) = host
      <3>1. hp # <<>>
        BY <1>10, <2>2
      <3> DEFINE n == 1
      <3>2. n \in Nat /\ n + Len(host) <= Len(hp) /\ \A k \in 1..Len(host) : hp[n + k] = host[k]
        BY <2>2, <2>3 DEF l
      <3>3. n + 1 = 2 /\ n + Len(host) = close - 1
        BY <2>2, <2>4 DEF l
      <3> HIDE DEF n, close
      <3>4. SubSeq(hp, n + 1, n + Len(host)) = host
        BY <1>1, <1>10, <3>2, PieceIs DEF hp
      <3>5. QED
        BY <3>1, <3>3, <3>4
    <2>8. (IF colon = 0 THEN <<>> ELSE SubSeq(hp, colon + 1, Len(hp))) = portText
      <3>1. CASE portText = <<>>
        BY <2>5, <3>1
      <3>2. CASE portText # <<>>
        <4> DEFINE n == l + 3
        <4>1. n \in Nat /\ n + Len(portText) <= Len(hp) /\ n + Len(portText) = Len(hp)
              /\ (\A k \in 1..Len(portText) : hp[n + k] = portText[k]) /\ colon = n /\ n # 0
          BY <1>6, <2>2, <2>6, <3>2
        <4> HIDE DEF n, colon
        <4>2. SubSeq(hp, n + 1, n + Len(portText)) = portText
          BY <1>1, <1>10, <4>1, PieceIs DEF hp
        <4>3. QED
          BY <4>1, <4>2
      <3>3. QED
        BY <3>1, <3>2
    <2>9. (close # 0 /\ colon # Len(hp)) = TRUE
      <3>1. close # 0
        BY <2>2, <2>4
      <3>2. colon # Len(hp)
        BY <1>6, <2>2, <2>5, <2>6
      <3>3. QED
        BY <3>1, <3>2
    <2>10. HostPort(hp) = [ok    |-> close # 0 /\ colon # Len(hp),
                           left  |-> SubSeq(hp, 2, close - 1),
                           right |-> IF colon = 0 THEN <<>> ELSE SubSeq(hp, colon + 1, Len(hp))]
      BY <2>3, <2>7 DEF HostPort
    <2> HIDE DEF close, colon
    <2>11. HostPort(hp) = [ok |-> TRUE, left |-> host, right |-> portText]
      BY <2>7, <2>8, <2>9, <2>10, Zenon
    <2>12. QED
      BY <1>8, <1>9, <2>7, <2>11 DEF E, h, q, hp
  <1>14. QED
    BY <1>12, <1>13

LEMMA AuthorityParts ==
  ASSUME NEW u, NEW hp, NEW t, Without(u, {"/", "@"}), Without(hp, {"/", "@"}), hp # <<>>,
         (u = <<>> /\ t = <<>>) \/ t = u \o <<"@">>
  PROVE  /\ Without(t \o hp, {"/"}) /\ t \o hp # <<>>
         /\ SplitPair(t \o hp, "@", FALSE) = [ok |-> TRUE, left |-> u, right |-> hp]
  <1> DEFINE E == {"/"}
  <1>1. /\ Without(u, E) /\ Without(hp, E) /\ u \in Seq(Chars) /\ hp \in Seq(Chars)
        /\ \A k \in 1..Len(u) : u[k] # "@"
        /\ \A k \in 1..Len(hp) : hp[k] # "@"
    <2>1. Without(u, E) /\ Without(hp, E)
      BY WithoutLess
    <2>2. QED
      BY <2>1 DEF Without
  <1>2. "@" \in Chars /\ "@" \notin E
    BY DelimitersAreChars
  <1> HIDE DEF E
  <1>3. Without(<<"@">>, E) /\ <<"@">> \in Seq(Chars)
    BY <1>2, WithoutSingle, Single
  <1>4. CASE u = <<>> /\ t = <<>>
    <2>1. t \o hp = hp
      BY <1>1, <1>4, ConcatEmpty
    <2>2. SplitPair(hp, "@", FALSE) = [ok |-> TRUE, left |-> <<>>, right |-> hp]
      BY <1>1, PairOfOne
    <2>3. SplitPair(t \o hp, "@", FALSE) = [ok |-> TRUE, left |-> u, right |-> hp]
      BY <1>4, <2>1, <2>2, Zenon
    <2>4. QED
      BY <1>1, <2>1, <2>3, Zenon DEF E
  <1>5. CASE t = u \o <<"@">>
    <2>1. t \o hp = u \o <<"@">> \o hp
      BY <1>5
    <2>2. SplitPair(u \o <<"@">> \o hp, "@", FALSE) = [ok |-> TRUE, left |-> u, right |-> hp]
      BY <1>1, <1>2, PairOfTwo
    <2>3. Without(u \o <<"@">>, E)
      BY <1>1, <1>3, WithoutConcat
    <2>4. Without(t \o hp, E)
      BY <1>1, <1>5, <2>3, WithoutConcat
    <2>5. t \o hp # <<>>
      <3>1. t \in Seq(Chars)
        BY <1>5, <2>3 DEF Without
      <3>2. QED
        BY <1>1, <3>1, ConcatEmpty
    <2>6. SplitPair(t \o hp, "@", FALSE) = [ok |-> TRUE, left |-> u, right |-> hp]
      BY <2>1, <2>2, Zenon
    <2>7. QED
      BY <2>4, <2>5, <2>6 DEF E
  <1>6. QED
    BY <1>4, <1>5

\* Where the parts of scheme://authority<rest> stand.
Laid(text, scheme, a, rest) ==
  /\ text \in Seq(Chars) /\ rest \in Seq(Chars)
  /\ Len(text) = Len(scheme) + 3 + Len(a) + Len(rest)
  /\ \A k \in 1..Len(scheme) : text[k] = scheme[k]
  /\ text[Len(scheme) + 1] = ":" /\ text[Len(scheme) + 2] = "/" /\ text[Len(scheme) + 3] = "/"
  /\ \A k \in 1..Len(a) : text[Len(scheme) + 3 + k] = a[k]
  /\ \A k \in 1..Len(rest) : text[Len(scheme) + 3 + Len(a) + k] = rest[k]

\* The columns of scheme://authority, with something behind it.
LEMMA UrlColumns ==
  ASSUME NEW text, NEW scheme, NEW a, NEW rest, Laid(text, scheme, a, rest),
         Without(scheme, {"/"}), Without(a, {"/"}), rest # <<>> => rest[1] = "/"
  PROVE  /\ Len(Split(text, "/")) >= 3
         /\ Split(text, "/")[1] = scheme \o <<":">>
         /\ Split(text, "/")[2] = <<>>
         /\ Split(text, "/")[3] = a
  <1> DEFINE head == scheme \o <<":">>
             r == a \o rest
             c == <<"/">>
             y == c \o r
             m == Len(scheme)
             n == Len(a)
             l == Len(rest)
  <1>0. /\ text \in Seq(Chars) /\ rest \in Seq(Chars)
        /\ Len(text) = Len(scheme) + 3 + Len(a) + Len(rest)
        /\ \A k \in 1..Len(scheme) : text[k] = scheme[k]
        /\ text[Len(scheme) + 1] = ":" /\ text[Len(scheme) + 2] = "/" /\ text[Len(scheme) + 3] = "/"
        /\ \A k \in 1..Len(a) : text[Len(scheme) + 3 + k] = a[k]
        /\ \A k \in 1..Len(rest) : text[Len(scheme) + 3 + Len(a) + k] = rest[k]
    BY DEF Laid
  <1> USE <1>0
  <1>1. /\ "/" \in Chars /\ ":" \in Chars /\ scheme \in Seq(Chars) /\ a \in Seq(Chars)
        /\ c \in Seq(Chars) /\ Len(c) = 1 /\ c[1] = "/"
        /\ <<":">> \in Seq(Chars) /\ Len(<<":">>) = 1 /\ <<":">>[1] = ":"
    <2>1. "/" \in Chars /\ ":" \in Chars
      BY DelimitersAreChars
    <2>2. QED
      BY <2>1, Single DEF Without
  <1> HIDE DEF c
  <1>2. /\ m \in Nat /\ n \in Nat /\ l \in Nat /\ Len(text) = m + 3 + n + l
        /\ \A k \in 1..n : text[m + 3 + k] = a[k]
        /\ \A k \in 1..l : text[m + 3 + n + k] = rest[k]
    BY <1>1
  <1>3. /\ head \in Seq(Chars) /\ Len(head) = m + 1 /\ head[m + 1] = ":"
        /\ \A k \in 1..m : head[k] = scheme[k]
    <2> DEFINE d == <<":">>
    <2>1. d \in Seq(Chars) /\ Len(d) = 1 /\ d[1] = ":" /\ 1 \in 1..1
      BY <1>1
    <2> HIDE DEF d
    <2>2. /\ scheme \o d \in Seq(Chars) /\ Len(scheme \o d) = m + Len(d)
          /\ \A k \in 1..m : (scheme \o d)[k] = scheme[k]
          /\ \A k \in 1..Len(d) : (scheme \o d)[m + k] = d[k]
      <3>1. scheme \in Seq(Chars) /\ d \in Seq(Chars)
        BY <1>1, <2>1
      <3>2. QED
        BY <3>1, PiecesOf
    <2>3. QED
      BY <2>1, <2>2 DEF d
  <1>4. \A k \in 1..Len(head) : head[k] # "/"
    <2>1. \A k \in 1..m : head[k] # "/"
      BY <1>3 DEF Without
    <2>2. \A k \in 1..Len(head) : k \in 1..m \/ k = m + 1
      BY <1>2, <1>3
    <2>3. QED
      BY <1>3, <2>1, <2>2
  <1>5. /\ r \in Seq(Chars) /\ Len(r) = n + l
        /\ \A k \in 1..n : r[k] = a[k]
        /\ \A k \in 1..l : r[n + k] = rest[k]
    BY <1>1, PiecesOf
  <1> HIDE DEF r, head
  <1>6. /\ y \in Seq(Chars) /\ Len(y) = 1 + Len(r) /\ y[1] = "/"
        /\ \A k \in 1..Len(r) : y[1 + k] = r[k]
    <2>1. /\ c \o r \in Seq(Chars) /\ Len(c \o r) = Len(c) + Len(r)
          /\ \A k \in 1..Len(c) : (c \o r)[k] = c[k]
          /\ \A k \in 1..Len(r) : (c \o r)[Len(c) + k] = r[k]
      <3>1. c \in Seq(Chars) /\ r \in Seq(Chars)
        BY <1>1, <1>5
      <3>2. QED
        BY <3>1, PiecesOf
    <2>2. 1 \in 1..Len(c)
      BY <1>1
    <2>3. QED
      BY <1>1, <2>1, <2>2
  <1> HIDE DEF y, m, n, l
  <1>7. \A k \in 1..Len(r) : text[m + 3 + k] = r[k]
    <2> TAKE k \in 1..Len(r)
    <2>1. CASE k \in 1..n
      BY <1>2, <1>5, <2>1
    <2>2. CASE k \notin 1..n
      <3> DEFINE j == k - n
      <3>1. j \in 1..l /\ k = n + j /\ m + 3 + k = m + 3 + n + j
        BY <1>2, <1>5, <2>2
      <3> HIDE DEF j
      <3>2. text[m + 3 + n + j] = rest[j] /\ r[n + j] = rest[j]
        BY <1>2, <1>5, <3>1
      <3>3. QED
        BY <3>1, <3>2
    <2>3. QED
      BY <2>1, <2>2
  <1>8. Joins(text, head, "/", y)
    <2>1. Len(text) = Len(head) + 1 + Len(y)
      <3>1. Len(head) = m + 1 /\ Len(y) = 1 + Len(r) /\ Len(r) = n + l
        BY <1>3, <1>5, <1>6 DEF m, n, l
      <3>2. m \in Nat /\ n \in Nat /\ l \in Nat /\ Len(text) = m + 3 + n + l
        BY <1>2
      <3>3. m + 3 + n + l = (m + 1) + 1 + (1 + (n + l))
        BY <3>2
      <3>4. QED
        BY <3>1, <3>2, <3>3, Zenon
    <2>2. \A k \in 1..Len(head) : text[k] = head[k]
      <3>1. \A k \in 1..Len(head) : k \in 1..m \/ k = m + 1
        BY <1>2, <1>3
      <3>2. \A k \in 1..m : text[k] = head[k]
        BY <1>3 DEF m
      <3>3. text[m + 1] = head[m + 1]
        BY <1>3 DEF m
      <3>4. QED
        BY <3>1, <3>2, <3>3
    <2>3. text[Len(head) + 1] = "/"
      <3>1. Len(head) + 1 = m + 2
        BY <1>2, <1>3
      <3>2. QED
        BY <3>1 DEF m
    <2>4. \A k \in 1..Len(y) : text[Len(head) + 1 + k] = y[k]
      <3> TAKE k \in 1..Len(y)
      <3>1. CASE k = 1
        <4>1. Len(head) + 1 + k = m + 3
          BY <1>2, <1>3, <3>1
        <4>2. QED
          BY <1>6, <3>1, <4>1 DEF m
      <3>2. CASE k # 1
        <4> DEFINE j == k - 1
        <4>1. j \in 1..Len(r) /\ k = 1 + j /\ Len(head) + 1 + k = m + 3 + j
          BY <1>2, <1>3, <1>5, <1>6, <3>2
        <4> HIDE DEF j
        <4>2. text[m + 3 + j] = r[j] /\ y[1 + j] = r[j]
          BY <1>6, <1>7, <4>1
        <4>3. QED
          BY <4>1, <4>2
      <3>3. QED
        BY <3>1, <3>2
    <2>5. QED
      BY <2>1, <2>2, <2>3, <2>4 DEF Joins
  <1> DEFINE nothing == <<>>
  <1>9. nothing \in Seq(Chars) /\ Len(nothing) = 0
    OBVIOUS
  <1> HIDE DEF nothing
  <1>10. Joins(y, nothing, "/", r)
    BY <1>5, <1>6, <1>9 DEF Joins
  <1> DEFINE e == Split(text, "/")
             f == Split(y, "/")
             g == Split(r, "/")
  <1>11. /\ e[1] = head /\ Len(e) = 1 + Len(f)
         /\ \A k \in 1..Len(f) : e[1 + k] = f[k]
    BY <1>1, <1>3, <1>4, <1>6, <1>8, FirstColumn, SMTT(30)
  <1>12. /\ f[1] = nothing /\ Len(f) = 1 + Len(g)
         /\ \A k \in 1..Len(g) : f[1 + k] = g[k]
    <2>1. \A k \in 1..Len(nothing) : nothing[k] # "/"
      BY <1>9
    <2>2. "/" \in Chars /\ nothing \in Seq(Chars) /\ r \in Seq(Chars) /\ y \in Seq(Chars)
      BY <1>1, <1>5, <1>6, <1>9
    <2>3. QED
      BY <1>10, <2>1, <2>2, FirstColumn
  <1>13. Len(g) \in Nat \ {0} /\ g[1] = a
    <2>1. \A k \in 1..n : a[k] # "/"
      BY DEF Without, n
    <2>2. CASE rest = <<>>
      <3>1. r = a
        BY <1>1, <2>2, ConcatEmpty DEF r
      <3>2. g = <<a>>
        BY <1>1, <2>1, <3>1, SplitPlain DEF n
      <3>3. QED
        BY <3>2
    <2>3. CASE rest # <<>>
      <3> DEFINE t == Tail(rest)
      <3>1. t \in Seq(Chars) /\ l = 1 + Len(t) /\ \A k \in 1..Len(t) : t[k] = rest[1 + k]
        BY <2>3 DEF l
      <3>2. rest[1] = "/" /\ Len(t) \in Nat
        BY <2>3, <3>1
      <3> HIDE DEF t
      <3>3. r[n + 1] = "/"
        <4>1. 1 \in 1..l
          BY <3>1, <3>2
        <4>2. QED
          BY <1>5, <3>2, <4>1
      <3>4. \A k \in 1..Len(t) : r[n + 1 + k] = t[k]
        <4> TAKE k \in 1..Len(t)
        <4>1. 1 + k \in 1..l /\ n + 1 + k = n + (1 + k)
          BY <1>2, <3>1, <3>2
        <4>2. QED
          BY <1>5, <3>1, <4>1
      <3>5. Len(r) = n + 1 + Len(t)
        BY <1>2, <1>5, <3>1, <3>2
      <3>6. Joins(r, a, "/", t)
        BY <1>5, <3>3, <3>4, <3>5 DEF Joins, n
      <3>7. g[1] = a /\ Len(g) = 1 + Len(Split(t, "/"))
        BY <1>1, <1>5, <2>1, <3>1, <3>6, FirstColumn, SMTT(30) DEF n
      <3>8. Len(Split(t, "/")) \in Nat
        BY <3>1, SplitIsTexts
      <3>9. QED
        BY <3>7, <3>8
    <2>4. QED
      BY <2>2, <2>3
  <1> HIDE DEF e, f, g
  <1>14. 1 \in 1..Len(f) /\ 2 \in 1..Len(f) /\ 1 \in 1..Len(g) /\ Len(e) >= 3
    BY <1>11, <1>12, <1>13
  <1>15. e[2] = nothing /\ e[3] = a
    <2>1. e[1 + 1] = f[1] /\ e[1 + 2] = f[2] /\ f[1 + 1] = g[1]
      BY <1>11, <1>12, <1>14
    <2>2. 1 + 1 = 2 /\ 1 + 2 = 3
      OBVIOUS
    <2>3. QED
      BY <1>12, <1>13, <2>1, <2>2
  <1>16. QED
    BY <1>11, <1>14, <1>15 DEF e, head, nothing

\* The text of a URL, piece by piece.
\* Six parts put together one after the other are three parts put together.
Six(T, b, u, h, q, p, r) ==
  /\ b \in Seq(T) /\ u \in Seq(T) /\ h \in Seq(T) /\ q \in Seq(T) /\ p \in Seq(T) /\ r \in Seq(T)

LEMMA SixParts ==
  ASSUME NEW T, NEW b, NEW u, NEW h, NEW q, NEW p, NEW r, Six(T, b, u, h, q, p, r)
  PROVE  b \o u \o h \o q \o p \o r = (b \o (u \o (h \o q))) \o (p \o r)
  <1> DEFINE v == u \o h
             w == h \o q
             y == u \o w
             x == b \o y
  <1>1. v \in Seq(T) /\ v \o q = y
    <2>1. u \in Seq(T) /\ h \in Seq(T) /\ q \in Seq(T)
      BY DEF Six
    <2>2. (u \o h) \o q = u \o (h \o q)
      BY <2>1, ConcatAssoc
    <2>3. QED
      BY <2>1, <2>2
  <1>2. (b \o u) \o h = b \o v
    <2>1. b \in Seq(T) /\ u \in Seq(T) /\ h \in Seq(T)
      BY DEF Six
    <2>2. QED
      BY <2>1, ConcatAssoc
  <1>3. y \in Seq(T)
    <2>1. u \in Seq(T) /\ h \in Seq(T) /\ q \in Seq(T)
      BY DEF Six
    <2>2. w \in Seq(T)
      BY <2>1
    <2> HIDE DEF w
    <2>3. QED
      BY <2>1, <2>2
  <1> HIDE DEF v, y
  <1>4. (b \o v) \o q = x
    <2>1. b \in Seq(T) /\ v \in Seq(T) /\ q \in Seq(T)
      BY <1>1 DEF Six
    <2>2. (b \o v) \o q = b \o (v \o q)
      BY <2>1, ConcatAssoc, SMTT(30)
    <2>3. QED
      BY <1>1, <2>2
  <1>5. x \in Seq(T)
    <2>1. b \in Seq(T)
      BY DEF Six
    <2>2. QED
      BY <1>3, <2>1
  <1> HIDE DEF x
  <1>6. (x \o p) \o r = x \o (p \o r)
    <2>1. p \in Seq(T) /\ r \in Seq(T)
      BY DEF Six
    <2>2. QED
      BY <1>5, <2>1, ConcatAssoc
  <1>7. b \o u \o h \o q = x
    BY <1>2, <1>4, Zenon
  <1>8. QED
    BY <1>6, <1>7, Zenon DEF x, y, w

\* Where the parts of a text of four stand, the second of which has three characters.
Four(T, text, s, d, a, rest) ==
  /\ s \in Seq(T) /\ d \in Seq(T) /\ a \in Seq(T) /\ rest \in Seq(T) /\ Len(d) = 3
  /\ text = ((s \o d) \o a) \o rest

LEMMA FourPlaces ==
  ASSUME NEW T, NEW text, NEW s, NEW d, NEW a, NEW rest, Four(T, text, s, d, a, rest)
  PROVE  /\ text \in Seq(T)
         /\ Len(text) = Len(s) + 3 + Len(a) + Len(rest)
         /\ \A k \in 1..Len(s) : text[k] = s[k]
         /\ text[Len(s) + 1] = d[1] /\ text[Len(s) + 2] = d[2] /\ text[Len(s) + 3] = d[3]
         /\ \A k \in 1..Len(a) : text[Len(s) + 3 + k] = a[k]
         /\ \A k \in 1..Len(rest) : text[Len(s) + 3 + Len(a) + k] = rest[k]
  <1> DEFINE b == s \o d
             x == b \o a
             m == Len(s)
  <1>1. s \in Seq(T) /\ d \in Seq(T) /\ Len(d) = 3
    BY DEF Four
  <1>2. a \in Seq(T) /\ rest \in Seq(T)
    BY DEF Four
  <1>3. m \in Nat /\ Len(a) \in Nat /\ Len(rest) \in Nat
    BY <1>1, <1>2
  <1>4. /\ b \in Seq(T) /\ Len(b) = m + Len(d)
        /\ \A k \in 1..m : b[k] = s[k]
        /\ \A k \in 1..Len(d) : b[m + k] = d[k]
    BY <1>1, PiecesOf, SMTT(60)
  <1> HIDE DEF b
  <1>5. /\ x \in Seq(T) /\ Len(x) = Len(b) + Len(a)
        /\ \A k \in 1..Len(b) : x[k] = b[k]
        /\ \A k \in 1..Len(a) : x[Len(b) + k] = a[k]
    <2>1. b \in Seq(T) /\ a \in Seq(T)
      BY <1>2, <1>4
    <2>2. QED
      BY <2>1, PiecesOf
  <1>6. text = x \o rest
    BY DEF Four, b
  <1> HIDE DEF x
  <1>7. /\ text \in Seq(T) /\ Len(text) = Len(x) + Len(rest)
        /\ \A k \in 1..Len(x) : text[k] = x[k]
        /\ \A k \in 1..Len(rest) : text[Len(x) + k] = rest[k]
    <2>1. x \in Seq(T) /\ rest \in Seq(T)
      BY <1>2, <1>5
    <2>2. QED
      BY <1>6, <2>1, PiecesOf
  <1> HIDE DEF m
  <1>8. Len(b) = m + 3 /\ Len(x) = m + 3 + Len(a)
    BY <1>1, <1>3, <1>4, <1>5
  <1>9. \A k \in 1..m + 3 : text[k] = b[k]
    <2>1. \A k \in 1..m + 3 : k \in 1..Len(x) /\ k \in 1..Len(b)
      BY <1>3, <1>8
    <2>2. QED
      BY <1>5, <1>7, <2>1
  <1>10. /\ \A k \in 1..m : text[k] = s[k]
         /\ text[m + 1] = d[1] /\ text[m + 2] = d[2] /\ text[m + 3] = d[3]
    <2>1. (\A k \in 1..m : k \in 1..m + 3) /\ m + 1 \in 1..m + 3 /\ m + 2 \in 1..m + 3 /\ m + 3 \in 1..m + 3
      BY <1>3
    <2>2. 1 \in 1..Len(d) /\ 2 \in 1..Len(d) /\ 3 \in 1..Len(d)
      BY <1>1
    <2>3. QED
      BY <1>4, <1>9, <2>1, <2>2
  <1>11. \A k \in 1..Len(a) : text[m + 3 + k] = a[k]
    <2> TAKE k \in 1..Len(a)
    <2>1. m + 3 + k \in 1..Len(x)
      BY <1>3, <1>8
    <2>2. x[m + 3 + k] = a[k]
      BY <1>5, <1>8
    <2>3. QED
      BY <1>7, <2>1, <2>2
  <1>12. \A k \in 1..Len(rest) : text[m + 3 + Len(a) + k] = rest[k]
    BY <1>7, <1>8
  <1>13. Len(text) = m + 3 + Len(a) + Len(rest)
    BY <1>3, <1>7, <1>8
  <1>14. QED
    BY <1>7, <1>10, <1>11, <1>12, <1>13 DEF m

LEMMA LaidParts ==
  ASSUME NEW s, NEW u, NEW h, NEW q, NEW p, NEW r, Six(Chars, s, u, h, q, p, r)
  PROVE  Laid((s \o <<":", "/", "/">>) \o u \o h \o q \o p \o r, s, u \o (h \o q), p \o r)
  <1> DEFINE d == <<":", "/", "/">>
             b == s \o d
             a == u \o (h \o q)
             rest == p \o r
             text == b \o u \o h \o q \o p \o r
  <1>1. d \in Seq(Chars) /\ Len(d) = 3 /\ d[1] = ":" /\ d[2] = "/" /\ d[3] = "/"
    <2>1. ":" \in Chars /\ "/" \in Chars
      BY DelimitersAreChars
    <2>2. QED
      BY <2>1, Triple
  <1> HIDE DEF d
  <1>2. b \in Seq(Chars)
    <2>1. s \in Seq(Chars)
      BY DEF Six
    <2>2. QED
      BY <1>1, <2>1
  <1>3. a \in Seq(Chars)
    <2>1. u \in Seq(Chars) /\ h \in Seq(Chars) /\ q \in Seq(Chars)
      BY DEF Six
    <2>2. h \o q \in Seq(Chars)
      BY <2>1
    <2>3. QED
      BY <2>1, <2>2
  <1>4. rest \in Seq(Chars)
    <2>1. p \in Seq(Chars) /\ r \in Seq(Chars)
      BY DEF Six
    <2>2. QED
      BY <2>1
  <1>5. text = (b \o a) \o rest
    <2> HIDE DEF b
    <2>1. Six(Chars, b, u, h, q, p, r)
      BY <1>2 DEF Six
    <2>2. QED
      BY <2>1, SixParts, SMTT(30)
  <1> HIDE DEF a, rest, text
  <1>6. Four(Chars, text, s, d, a, rest)
    <2>1. s \in Seq(Chars)
      BY DEF Six
    <2>2. QED
      BY <1>1, <1>3, <1>4, <1>5, <2>1, Zenon DEF Four, b
  <1>7. /\ text \in Seq(Chars)
        /\ Len(text) = Len(s) + 3 + Len(a) + Len(rest)
        /\ \A k \in 1..Len(s) : text[k] = s[k]
        /\ text[Len(s) + 1] = d[1] /\ text[Len(s) + 2] = d[2] /\ text[Len(s) + 3] = d[3]
        /\ \A k \in 1..Len(a) : text[Len(s) + 3 + k] = a[k]
        /\ \A k \in 1..Len(rest) : text[Len(s) + 3 + Len(a) + k] = rest[k]
    BY <1>6, FourPlaces
  <1>8. Laid(text, s, a, rest)
    BY <1>1, <1>4, <1>7, Zenon DEF Laid
  <1>9. QED
    BY <1>8 DEF text, a, rest, b, d

LEMMA TextPieces ==
  ASSUME NEW c, FreeOf(c.scheme, {"/"}),
         UserText(c.login, c.password) \in Seq(Chars), HostText(c.host) \in Seq(Chars),
         Opt(<<":">>, c.portText) \in Seq(Chars), c.path \in Seq(Chars), c.query \in Seq(Chars)
  PROVE  Laid(Text(c), c.scheme, UserText(c.login, c.password) \o (HostText(c.host) \o Opt(<<":">>, c.portText)),
              c.path \o c.query)
  <1> DEFINE u == UserText(c.login, c.password)
             h == HostText(c.host)
             q == Opt(<<":">>, c.portText)
  <1>1. c.scheme \in Seq(Chars)
    BY FreeIsWithout DEF Without
  <1>2. Six(Chars, c.scheme, u, h, q, c.path, c.query)
    BY <1>1 DEF Six
  <1>3. Text(c) = (c.scheme \o <<":", "/", "/">>) \o u \o h \o q \o c.path \o c.query
    BY DEF Text
  <1> HIDE DEF u, h, q
  <1>4. Laid((c.scheme \o <<":", "/", "/">>) \o u \o h \o q \o c.path \o c.query, c.scheme,
             u \o (h \o q), c.path \o c.query)
    BY <1>2, LaidParts
  <1>5. QED
    BY <1>3, <1>4, Zenon DEF u, h, q

\* The query is found where it begins, and what stands before it is the path.
LEMMA PathAndQuery ==
  ASSUME NEW text \in Seq(Chars), NEW n \in Nat, NEW p, NEW q, FreeOf(p, {"?"}), FreeOf(q, {}),
         q # <<>> => q[1] = "?",
         Len(text) = n + Len(p \o q),
         \A k \in 1..Len(p \o q) : text[n + k] = (p \o q)[k]
  PROVE  LET query == Position(text, "?", n + 1) IN
         /\ SubSeq(text, n + 1, IF query = 0 THEN Len(text) ELSE query - 1) = p
         /\ (IF query = 0 THEN <<>> ELSE SubSeq(text, query, Len(text))) = q
  <1> DEFINE rest == p \o q
             l == Len(p)
             query == Position(text, "?", n + 1)
  <1>1. /\ p \in Seq(Chars) /\ q \in Seq(Chars) /\ l \in Nat /\ Len(q) \in Nat
        /\ \A k \in 1..l : p[k] # "?"
    <2>1. Without(p, {"?"}) /\ Without(q, {})
      BY FreeIsWithout
    <2>2. QED
      BY <2>1 DEF Without
  <1>2. /\ Len(rest) = l + Len(q)
        /\ \A k \in 1..l : rest[k] = p[k]
        /\ \A k \in 1..Len(q) : rest[l + k] = q[k]
    BY <1>1, PiecesOf
  <1>3. Len(text) = n + Len(rest) /\ \A k \in 1..Len(rest) : text[n + k] = rest[k]
    OBVIOUS
  <1> HIDE DEF rest, l
  <1>4. /\ Len(text) = n + l + Len(q)
        /\ \A k \in 1..l : text[n + k] = p[k]
        /\ \A k \in 1..Len(q) : text[n + l + k] = q[k]
    <2>1. \A k \in 1..l : k \in 1..Len(rest)
      BY <1>1, <1>2
    <2>2. \A k \in 1..Len(q) : l + k \in 1..Len(rest) /\ n + (l + k) = n + l + k
      BY <1>1, <1>2
    <2>3. \A k \in 1..Len(q) : text[n + l + k] = q[k]
      <3> TAKE k \in 1..Len(q)
      <3>1. text[n + (l + k)] = rest[l + k] /\ rest[l + k] = q[k]
        BY <1>2, <1>3, <2>2
      <3>2. QED
        BY <2>2, <3>1
    <2>4. \A k \in 1..l : text[n + k] = p[k]
      BY <1>2, <1>3, <2>1
    <2>5. Len(text) = n + l + Len(q)
      <3>1. Len(text) = n + Len(rest) /\ Len(rest) = l + Len(q)
        BY <1>2, <1>3
      <3>2. n + (l + Len(q)) = n + l + Len(q)
        BY <1>1
      <3>3. QED
        BY <3>1, <3>2, Zenon
    <2>6. QED
      BY <2>3, <2>4, <2>5
  <1>5. \A k \in n + 1..n + l : text[k] # "?"
    <2> TAKE k \in n + 1..n + l
    <2> DEFINE j == k - n
    <2>1. j \in 1..l /\ k = n + j
      BY <1>1
    <2> HIDE DEF j
    <2>2. text[n + j] = p[j] /\ p[j] # "?"
      BY <1>1, <1>4, <2>1
    <2>3. QED
      BY <2>1, <2>2
  <1>6. SubSeq(text, n + 1, n + l) = p
    <2>1. n + l <= Len(text)
      BY <1>1, <1>4
    <2>2. QED
      BY <1>1, <1>4, <2>1, PieceIs DEF l
  <1>7. CASE q = <<>>
    <2>1. Len(text) = n + l
      BY <1>1, <1>4, <1>7
    <2>2. query = 0
      <3> DEFINE i == n + 1
      <3>1. \A k \in i..Len(text) : text[k] # "?"
        BY <1>5, <2>1
      <3> HIDE DEF i
      <3>2. Position(text, "?", i) = 0
        BY <3>1, PositionNone
      <3>3. QED
        BY <3>2 DEF i
    <2> HIDE DEF query
    <2>3. QED
      BY <1>6, <1>7, <2>1, <2>2 DEF query
  <1>8. CASE q # <<>>
    <2> DEFINE j == n + l
    <2>1. Len(q) > 0 /\ j \in Nat /\ Len(text) = j + Len(q) /\ j + 1 \in n + 1..Len(text) /\ (j + 1) - 1 = n + l
          /\ 1 \in 1..Len(q)
      <3> DEFINE z == Len(q)
      <3>1. z \in Nat /\ Len(text) = n + l + z /\ l \in Nat
        BY <1>1, <1>4
      <3>4. z # 0
        BY <1>1, <1>8
      <3> HIDE DEF z
      <3>2. z > 0 /\ j \in Nat /\ Len(text) = j + z /\ j + 1 \in n + 1..Len(text) /\ (j + 1) - 1 = n + l
            /\ 1 \in 1..z
        BY <3>1, <3>4
      <3>3. QED
        BY <3>2 DEF z
    <2>2. text[j + 1] = "?" /\ \A k \in 1..Len(q) : text[j + k] = q[k]
      BY <1>4, <1>8, <2>1
    <2> HIDE DEF j
    <2>3. query = j + 1
      <3> DEFINE i == n + 1
                 f == j + 1
      <3>1. i \in Nat /\ f \in i..Len(text) /\ Len(text) \in Nat /\ text[f] = "?"
            /\ \A k \in i..(f - 1) : text[k] # "?"
        BY <1>5, <2>1, <2>2
      <3> HIDE DEF i, f
      <3>2. Position(text, "?", i) = f
        BY <3>1, PositionFirst
      <3>3. QED
        BY <3>2 DEF i, f
    <2>4. SubSeq(text, j + 1, j + Len(q)) = q
      <3>1. j + Len(q) <= Len(text)
        BY <1>1, <2>1
      <3>2. QED
        BY <1>1, <2>1, <2>2, <3>1, PieceIs
    <2> HIDE DEF query
    <2>5. query # 0 /\ query - 1 = n + l
      BY <2>1, <2>3
    <2>6. QED
      BY <1>6, <2>1, <2>3, <2>4, <2>5 DEF query
  <1>9. QED
    BY <1>7, <1>8

\* The constructor returns the components a URL has been put together from, and
\* throws if its port is no number or too large.
THEOREM GrammarIsParsed ==
  ASSUME NEW c, WellFormed(c)
  PROVE  Parse(Text(c)) =
            IF PortOk(c.portText)
            THEN [ok |-> TRUE, scheme |-> c.scheme, login |-> c.login, password |-> c.password,
                  host |-> c.host, portText |-> c.portText, port |-> PortNumber(c.portText),
                  path |-> c.path, query |-> c.query]
            ELSE Refused
  <1> DEFINE s == c.scheme
             t == UserText(c.login, c.password)
             hp == HostText(c.host) \o Opt(<<":">>, c.portText)
             a == t \o hp
             rest == c.path \o c.query
             text == Text(c)
  <1>1. PICK u : /\ Without(u, {"/", "@"})
                 /\ SplitPair(u, ":", TRUE) = [ok |-> TRUE, left |-> c.login, right |-> c.password]
                 /\ (u = <<>> /\ t = <<>>) \/ t = u \o <<"@">>
    BY UserParts DEF WellFormed
  <1>2. /\ HostText(c.host) \in Seq(Chars) /\ Opt(<<":">>, c.portText) \in Seq(Chars)
        /\ Without(hp, {"/", "@"}) /\ hp # <<>>
        /\ HostPort(hp) = [ok |-> TRUE, left |-> c.host, right |-> c.portText]
    BY HostParts DEF WellFormed
  <1>3. t \in Seq(Chars)
    <2>1. <<"@">> \in Seq(Chars) /\ u \in Seq(Chars)
      BY <1>1, DelimitersAreChars, Single DEF Without
    <2>2. u \o <<"@">> \in Seq(Chars)
      BY <2>1, PiecesOf
    <2>3. QED
      BY <1>1, <2>1, <2>2
  <1> HIDE DEF t, hp
  <1>4. /\ Without(a, {"/"}) /\ a # <<>>
        /\ SplitPair(a, "@", FALSE) = [ok |-> TRUE, left |-> u, right |-> hp]
    BY <1>1, <1>2, AuthorityParts
  <1>5. /\ Without(s, {"/"}) /\ FreeOf(s, {"/"})
        /\ c.path \in Seq(Chars) /\ c.query \in Seq(Chars)
        /\ FreeOf(c.path, {"?"}) /\ FreeOf(c.query, {})
        /\ c.query # <<>> => c.query[1] = "?"
        /\ c.path # <<>> => c.path[1] = "/"
        /\ c.query # <<>> => c.path # <<>>
    <2>1. Without(c.path, {"?"}) /\ Without(c.query, {}) /\ Without(s, {"/"})
      BY FreeIsWithout DEF WellFormed
    <2>2. QED
      BY <2>1 DEF WellFormed, Without
  <1>6. rest \in Seq(Chars) /\ (rest # <<>> => rest[1] = "/")
    <2>1. /\ rest \in Seq(Chars)
          /\ \A k \in 1..Len(c.path) : rest[k] = c.path[k]
          /\ (rest = <<>> <=> c.path = <<>> /\ c.query = <<>>)
      <3>1. c.path \in Seq(Chars) /\ c.query \in Seq(Chars)
        BY <1>5
      <3>2. rest \in Seq(Chars) /\ \A k \in 1..Len(c.path) : rest[k] = c.path[k]
        BY <3>1, PiecesOf
      <3>3. rest = <<>> <=> c.path = <<>> /\ c.query = <<>>
        BY <3>1, ConcatEmpty
      <3> HIDE DEF rest
      <3>4. QED
        BY <3>2, <3>3
    <2>2. c.path # <<>> => 1 \in 1..Len(c.path)
      BY <1>5
    <2> HIDE DEF rest
    <2>3. QED
      BY <1>5, <2>1, <2>2
  <1>7. a = t \o (HostText(c.host) \o Opt(<<":">>, c.portText))
    BY DEF hp
  <1> HIDE DEF a
  <1>8. Laid(text, s, a, rest)
    <2>1. UserText(c.login, c.password) \in Seq(Chars)
      BY <1>3 DEF t
    <2>2. a = UserText(c.login, c.password) \o (HostText(c.host) \o Opt(<<":">>, c.portText))
      BY <1>7 DEF t
    <2>3. HostText(c.host) \in Seq(Chars) /\ Opt(<<":">>, c.portText) \in Seq(Chars)
      BY <1>2
    <2>4. FreeOf(c.scheme, {"/"}) /\ c.path \in Seq(Chars) /\ c.query \in Seq(Chars)
      BY <1>5
    <2>5. rest = c.path \o c.query
      OBVIOUS
    <2>6. Laid(Text(c), c.scheme, UserText(c.login, c.password) \o (HostText(c.host) \o Opt(<<":">>, c.portText)),
               c.path \o c.query)
      BY <2>1, <2>3, <2>4, TextPieces
    <2>7. QED
      BY <2>2, <2>5, <2>6, Zenon
  <1> DEFINE columns == Split(text, "/")
             head == s \o <<":">>
  <1>9. Len(columns) >= 3 /\ columns[1] = head /\ columns[2] = <<>> /\ columns[3] = a
    <2>1. Without(s, {"/"}) /\ Without(a, {"/"}) /\ (rest # <<>> => rest[1] = "/")
      BY <1>4, <1>5, <1>6
    <2> HIDE DEF text, rest, s
    <2>2. QED
      BY <1>8, <2>1, UrlColumns
  <1>10. Len(head) = Len(s) + 1 /\ WithoutColon(head) = s /\ Len(s) \in Nat /\ Len(a) \in Nat
    <2> DEFINE d == <<":">>
    <2>1. d \in Seq(Chars) /\ Len(d) = 1 /\ d[1] = ":" /\ 1 \in 1..1 /\ s \in Seq(Chars) /\ a \in Seq(Chars)
      BY <1>4, <1>5, DelimitersAreChars, Single DEF Without
    <2> HIDE DEF d, s
    <2>2. /\ s \o d \in Seq(Chars) /\ Len(s \o d) = Len(s) + Len(d)
          /\ \A k \in 1..Len(s) : (s \o d)[k] = s[k]
          /\ \A k \in 1..Len(d) : (s \o d)[Len(s) + k] = d[k]
      <3>1. s \in Seq(Chars) /\ d \in Seq(Chars)
        BY <2>1
      <3>2. QED
        BY <3>1, PiecesOf
    <2>3. head = s \o d
      BY DEF d
    <2> HIDE DEF head
    <2>4. /\ head \in Seq(Chars) /\ Len(head) = Len(s) + 1 /\ head[Len(s) + 1] = ":"
          /\ \A k \in 1..Len(s) : head[k] = s[k]
      BY <2>1, <2>2, <2>3
    <2>5. Len(s) \in Nat /\ Len(a) \in Nat
      BY <2>1
    <2>6. SubSeq(head, 1, Len(s)) = s
      <3> DEFINE n == 0
      <3>1. n \in Nat /\ n + Len(s) <= Len(head) /\ (\A k \in 1..Len(s) : head[n + k] = s[k])
            /\ n + 1 = 1 /\ n + Len(s) = Len(s)
        BY <2>4, <2>5
      <3> HIDE DEF n
      <3>2. SubSeq(head, n + 1, n + Len(s)) = s
        BY <2>1, <2>4, <3>1, PieceIs
      <3>3. QED
        BY <3>1, <3>2
    <2>7. head # <<>> /\ Len(head) - 1 = Len(s) /\ head[Len(head)] = ":"
      BY <2>4, <2>5
    <2>8. WithoutColon(head) = s
      BY <2>6, <2>7 DEF WithoutColon
    <2>9. QED
      BY <2>4, <2>5, <2>8
  <1> DEFINE n == Len(s) + 3 + Len(a)
             query == Position(text, "?", n + 1)
  <1>11. Len(columns[1]) + Len(columns[3]) + 3 = n + 1 /\ n \in Nat
    <2> DEFINE y == Len(s)
               z == Len(a)
    <2> HIDE DEF columns, head, s
    <2>1. Len(columns[1]) = y + 1 /\ Len(columns[3]) = z /\ y \in Nat /\ z \in Nat
      BY <1>9, <1>10
    <2>2. n = y + 3 + z
      OBVIOUS
    <2> HIDE DEF y, z, n
    <2>3. (y + 1) + z + 3 = n + 1 /\ n \in Nat
      BY <2>1, <2>2
    <2>4. QED
      BY <2>1, <2>3
  <1>12. /\ SubSeq(text, n + 1, IF query = 0 THEN Len(text) ELSE query - 1) = c.path
         /\ (IF query = 0 THEN <<>> ELSE SubSeq(text, query, Len(text))) = c.query
    <2>1. /\ Len(text) = n + Len(rest)
          /\ \A k \in 1..Len(rest) : text[n + k] = rest[k]
          /\ text \in Seq(Chars)
      BY <1>8 DEF Laid
    <2>2. n \in Nat /\ FreeOf(c.path, {"?"}) /\ FreeOf(c.query, {})
          /\ (c.query # <<>> => c.query[1] = "?")
      BY <1>5, <1>11
    <2> HIDE DEF n, text
    <2>3. QED
      BY <2>1, <2>2, PathAndQuery
  <1> HIDE DEF text, s, rest, head, n, columns
  <1> DEFINE authority == SplitPair(columns[3], "@", FALSE)
             user == SplitPair(authority.left, ":", TRUE)
             host == HostPort(authority.right)
             start == Len(columns[1]) + Len(columns[3]) + 3
             mark == Position(text, "?", start)
  <1>13. authority = [ok |-> TRUE, left |-> u, right |-> hp]
    BY <1>4, <1>9, Zenon
  <1>14. /\ authority.ok /\ user = [ok |-> TRUE, left |-> c.login, right |-> c.password]
         /\ host = [ok |-> TRUE, left |-> c.host, right |-> c.portText]
    <2>1. authority.ok /\ authority.left = u /\ authority.right = hp
      <3> HIDE DEF authority
      <3>1. QED
        BY <1>13
    <2>2. QED
      BY <1>1, <1>2, <2>1, Zenon
  <1>15. /\ user.ok /\ user.left = c.login /\ user.right = c.password
         /\ host.ok /\ host.left = c.host /\ host.right = c.portText
    <2> HIDE DEF user, host
    <2>1. QED
      BY <1>14
  <1>16. start = n + 1 /\ mark = query
    BY <1>11
  <1>17. Parse(text) =
           IF /\ Len(columns) >= 3 /\ columns[2] = <<>> /\ columns[3] # <<>>
              /\ authority.ok /\ user.ok
              /\ host.ok /\ PortOk(host.right)
           THEN [ok       |-> TRUE,
                 scheme   |-> WithoutColon(columns[1]),
                 login    |-> user.left,
                 password |-> user.right,
                 host     |-> host.left,
                 portText |-> host.right,
                 port     |-> PortNumber(host.right),
                 path     |-> SubSeq(text, start, IF mark = 0 THEN Len(text) ELSE mark - 1),
                 query    |-> IF mark = 0 THEN <<>> ELSE SubSeq(text, mark, Len(text))]
           ELSE Refused
    BY DEF Parse, columns
  <1> HIDE DEF authority, user, host, start, mark, query
  <1>18. Parse(text) =
           IF PortOk(c.portText)
           THEN [ok |-> TRUE, scheme |-> s, login |-> c.login, password |-> c.password,
                 host |-> c.host, portText |-> c.portText, port |-> PortNumber(c.portText),
                 path |-> c.path, query |-> c.query]
           ELSE Refused
    <2>1. /\ Len(columns) >= 3 /\ columns[2] = <<>> /\ columns[3] # <<>>
          /\ WithoutColon(columns[1]) = s
      BY <1>4, <1>9, <1>10
    <2>2. /\ SubSeq(text, start, IF mark = 0 THEN Len(text) ELSE mark - 1) = c.path
          /\ (IF mark = 0 THEN <<>> ELSE SubSeq(text, mark, Len(text))) = c.query
      BY <1>12, <1>16
    <2>3. QED
      BY <1>14, <1>15, <1>17, <2>1, <2>2, Zenon
  <1>19. QED
    BY <1>18 DEF text, s

----------------------------------------------------------------------------
(* The client façade over the session.                                     *)

\* What the façade does to its session, the session allows.
LEMMA FacadeStep == [ClientNext]_clientVars => [Next]_vars
  <1> SUFFICES ASSUME [ClientNext]_clientVars PROVE [Next]_vars
    OBVIOUS
  <1>1. ASSUME NEW r \in Requests, Refuse(r) \/ Elsewhere(r) \/ Run(r) \/ EnterHere(r)
        PROVE  [Next]_vars
    BY <1>1 DEF Refuse, Elsewhere, Run, EnterHere, Next
  <1>2. ASSUME NEW t \in Threads, ReadHere(t) \/ WriteHere(t)
        PROVE  [Next]_vars
    BY <1>2 DEF ReadHere, WriteHere, Network, Next
  <1>3. CASE SessionStep
    BY <1>3 DEF SessionStep, Network, Next
  <1>4. ASSUME NEW s \in SyncCalls, SyncStep(s)
        PROVE  UNCHANGED vars
    BY <1>4 DEF SyncStep, Apart
  <1>5. CASE UNCHANGED clientVars
    BY <1>5 DEF clientVars
  <1>6. QED
    BY <1>1, <1>2, <1>3, <1>4, <1>5 DEF ClientNext

\* A client is a session to which calls are made: every theorem about Spec holds
\* for the session inside a client, whatever it is asked.
THEOREM FacadeIsSession == ClientSpec => Spec
  <1>1. ClientInit => Init
    BY DEF ClientInit
  <1>2. QED
    BY <1>1, FacadeStep, PTL DEF ClientSpec, Spec

\* The session keeps requests that were given to it; the one that enters is the
\* one _url was overwritten by last; where the socket leads to is where one of
\* them goes, until the server has ended a connection, or not known at all.
Here(r) ==
    /\ fate[r] = "here" /\ asked[r] # NoCall /\ Url(r).ok
    /\ Lost(r) \/ (IsHttps(Url(r)) <=> SSL)

PeerKnown ==
    \/ \E q \in Requests : Here(q) /\ ~Lost(q) /\ peer = Endpoint(Url(q))
    \/ peer = Unknown /\ (eofs > 0 \/ SomeLost)

FacadeOK ==
    /\ asked \in Usage
    /\ fate \in [Requests -> {"none", "refused", "elsewhere", "here"}]
    /\ \A r \in Requests : stage[r] # "new" => Here(r)
    /\ \A r \in Requests : stage[r] = "entering" => held = r
    /\ open \/ ops["resolve"] > 0 => PeerKnown

LEMMA FacadeInit == ClientInit => FacadeOK /\ OwnRequest
  BY DEF ClientInit, Init, FacadeOK, OwnRequest, OpKind

\* The URLs the program writes are cut into what they were put together from, as
\* far as a session looks at it, or refused.
Faithful ==
    \A a \in Usage : \A r \in Calls(a) :
        LET u == Parse(Made(a[r]).url) IN
        u.ok =>
            /\ a[r].at.scheme \in {<<"http">>, <<"https">>}
            /\ IsHttps(u) <=> a[r].at.scheme = <<"https">>
            /\ Path(u) \o u.query = Meant(a[r]).target
            /\ u.host = a[r].at.host
            /\ Endpoint(u) = MeantEndpoint(a[r])

LEMMA UsageIsFaithful == ASSUME WellFormedUsage PROVE Faithful
  <1> SUFFICES ASSUME NEW a \in Usage, NEW r \in Calls(a), Parse(Made(a[r]).url).ok
               PROVE  LET u == Parse(Made(a[r]).url) IN
                      /\ a[r].at.scheme \in {<<"http">>, <<"https">>}
                      /\ IsHttps(u) <=> a[r].at.scheme = <<"https">>
                      /\ Path(u) \o u.query = Meant(a[r]).target
                      /\ u.host = a[r].at.host
                      /\ Endpoint(u) = MeantEndpoint(a[r])
    BY DEF Faithful
  <1> DEFINE c == a[r].at
             u == Parse(Made(a[r]).url)
  <1>1. u = Parse(Text(c))
    <2>1. a[r].verb \in Verbs
      BY ClientAssumption
    <2>2. Made(a[r]).url = Text(c)
      BY <2>1 DEF Verbs, Made, Get, Del, Post, Patch, Put,
                  GetBefore, DelBefore, PostBefore, PatchBefore, PutBefore
    <2>3. QED
      BY <2>2
  <1>2. WellFormed(c) /\ c.scheme \in {<<"http">>, <<"https">>} /\ u.ok
    BY DEF WellFormedUsage
  <1> HIDE DEF c, u
  <1>3. u = IF PortOk(c.portText)
            THEN [ok |-> TRUE, scheme |-> c.scheme, login |-> c.login, password |-> c.password,
                  host |-> c.host, portText |-> c.portText, port |-> PortNumber(c.portText),
                  path |-> c.path, query |-> c.query]
            ELSE Refused
    BY <1>1, <1>2, GrammarIsParsed
  <1>4. /\ u.scheme = c.scheme /\ u.host = c.host /\ u.portText = c.portText
        /\ u.path = c.path /\ u.query = c.query
    BY <1>2, <1>3 DEF Refused
  <1>5. IsHttps(u) <=> c.scheme = <<"https">>
    BY <1>4 DEF IsHttps
  <1>6. Path(u) \o u.query = Meant(a[r]).target
    BY <1>4 DEF Path, Meant, c
  <1>7. Endpoint(u) = MeantEndpoint(a[r])
    <2>1. <<"http">> # <<"https">>
      OBVIOUS
    <2>2. (IF c.portText = <<>> THEN DefaultPort(u) ELSE c.portText)
          = IF c.portText # <<>> THEN c.portText
            ELSE IF c.scheme = <<"https">> THEN <<"443">> ELSE <<"80">>
      BY <1>2, <1>4, <2>1 DEF DefaultPort, IsHttp, IsHttps
    <2>3. QED
      BY <1>4, <2>2 DEF Endpoint, MeantEndpoint, c
  <1>8. QED
    BY <1>2, <1>4, <1>5, <1>6, <1>7 DEF c, u

\* Where requests that share a session go, and what is written for one.
LEMMA SameEndpoint ==
  ASSUME Faithful, FacadeOK, NEW q \in Requests, NEW r \in Requests,
         Here(q), Here(r), ~Lost(q), ~Lost(r)
  PROVE  Endpoint(Url(q)) = MeantEndpoint(asked[r]) \/ ~OneHost
  <1>1. /\ asked \in Usage /\ {q, r} \subseteq Calls(asked)
        /\ {q, r} \subseteq Calls(asked) \cap Requests
    BY ClientAssumption DEF FacadeOK, Here, Calls
  <1>2. /\ \A p \in {q, r} :
              /\ Endpoint(Url(p)) = MeantEndpoint(asked[p])
              /\ IsHttps(Url(p)) <=> asked[p].at.scheme = <<"https">>
              /\ asked[p].at.scheme \in {<<"http">>, <<"https">>}
    BY <1>1 DEF Faithful, Here, Url
  <1>3. asked[q].at.scheme = asked[r].at.scheme
    BY <1>2 DEF Here
  <1>4. QED
    BY <1>1, <1>2, <1>3 DEF OneHost

LEMMA MessageIsMeant ==
  ASSUME Faithful, asked \in Usage, NEW r \in Calls(asked), Url(r).ok
  PROVE  /\ Message(r).method = Meant(asked[r]).method
         /\ Message(r).body = Meant(asked[r]).body
         /\ Lost(r) \/ Message(r) = Meant(asked[r])
         /\ Endpoint(Url(r)) = MeantEndpoint(asked[r])
  <1>1. /\ asked[r].verb \in Verbs
        /\ Path(Url(r)) \o Url(r).query = Meant(asked[r]).target
        /\ Url(r).host = asked[r].at.host
        /\ Endpoint(Url(r)) = MeantEndpoint(asked[r])
    BY ClientAssumption DEF Faithful, Url
  <1>2. /\ Made(asked[r]).method = asked[r].verb
        /\ Made(asked[r]).body = IF asked[r].verb = "GET" THEN NoBody ELSE asked[r].body
    BY <1>1 DEF Verbs, Made, Get, Del, Post, Patch, Put,
                GetBefore, DelBefore, PostBefore, PatchBefore, PutBefore
  <1>3. QED
    BY <1>1, <1>2 DEF Message, Meant

LEMMA PeerKept ==
  ASSUME Inv, PeerKnown, UNCHANGED <<asked, fate, peer>>, eofs' \in {eofs, eofs + 1}
  PROVE  PeerKnown'
  BY DEF PeerKnown, Here, Lost, Url, SomeLost, Inv, TypeOK

LEMMA OwnStays ==
  ASSUME Inv, asked' = asked, eofs' \in {eofs, eofs + 1}, NEW r, NEW e, NEW m, Own(r, e, m)
  PROVE  Own(r, e, m)'
  <1>1. /\ OneHost' <=> OneHost
        /\ \A q : Lost(q)' <=> Lost(q)
    BY DEF OneHost, Lost
  <1>2. SomeLost' <=> SomeLost
    BY <1>1 DEF SomeLost
  <1>3. eofs > 0 => eofs' > 0
    BY DEF Inv, TypeOK
  <1>4. QED
    BY <1>1, <1>2, <1>3 DEF Own

LEMMA OwnKept ==
  ASSUME Inv, OwnRequest, UNCHANGED <<asked, reached>>, eofs' \in {eofs, eofs + 1}
  PROVE  OwnRequest'
  <1> SUFFICES ASSUME NEW w \in reached PROVE Own(w[1], w[2], w[3])'
    BY DEF OwnRequest
  <1>1. Own(w[1], w[2], w[3])
    BY DEF OwnRequest
  <1>2. QED
    BY <1>1, OwnStays

\* One more request is written.
LEMMA OwnWritten ==
  ASSUME Inv, OwnRequest, UNCHANGED <<asked, eofs>>, NEW r, NEW e, NEW m, Own(r, e, m),
         reached' = reached \cup {<<r, e, m>>}
  PROVE  OwnRequest'
  <1> SUFFICES ASSUME NEW w \in reached' PROVE Own(w[1], w[2], w[3])'
    BY DEF OwnRequest
  <1>1. CASE w \in reached
    <2>1. Own(w[1], w[2], w[3])
      BY <1>1 DEF OwnRequest
    <2>2. QED
      BY <2>1, OwnStays
  <1>2. CASE w = <<r, e, m>>
    <2>1. Own(w[1], w[2], w[3])
      BY <1>2
    <2>2. QED
      BY <2>1, OwnStays
  <1>3. QED
    BY <1>1, <1>2

\* A step of the session that no call is made in.
LEMMA FacadeKept ==
  ASSUME FacadeOK, UNCHANGED <<asked, fate, held>>,
         \A q \in Requests : stage'[q] # "new" => stage[q] # "new",
         \A q \in Requests : stage'[q] = "entering" => stage[q] = "entering",
         open' \/ ops'["resolve"] > 0 => PeerKnown'
  PROVE  FacadeOK'
  BY DEF FacadeOK, Here, Lost, Url

\* A call that is not given to the session.
LEMMA OutsideStep ==
  ASSUME Inv, FacadeOK, OwnRequest, NEW r \in Requests, Refuse(r) \/ Elsewhere(r)
  PROVE  FacadeOK' /\ OwnRequest'
  <1>1. /\ UNCHANGED <<vars, asked, peer, reached>>
        /\ fate[r] = "none" /\ \A q \in Requests : stage[q] # "entering"
        /\ \E k \in {"refused", "elsewhere"} : fate' = [fate EXCEPT ![r] = k]
    BY DEF Refuse, Elsewhere, MayCall
  <1>2. \A q \in Requests : Here(q) => Here(q)'
    BY <1>1 DEF FacadeOK, Here, Lost, Url
  <1>3. PeerKnown => PeerKnown'
    BY <1>1, <1>2 DEF PeerKnown, Lost, SomeLost, Url, vars
  <1>4. fate' \in [Requests -> {"none", "refused", "elsewhere", "here"}]
    BY <1>1 DEF FacadeOK
  <1>5. FacadeOK'
    BY <1>1, <1>2, <1>3, <1>4 DEF FacadeOK, vars
  <1>6. QED
    BY <1>1, <1>5, OwnKept DEF vars

LEMMA RunStep ==
  ASSUME Inv, FacadeOK, OwnRequest, NEW r \in Requests, Run(r)
  PROVE  FacadeOK' /\ OwnRequest'
  <1>1. /\ UNCHANGED <<asked, peer, reached, open, ops, eofs>>
        /\ fate' = [fate EXCEPT ![r] = "here"] /\ held' = r
        /\ asked[r] # NoCall /\ Url(r).ok /\ (Lost(r) \/ (IsHttps(Url(r)) <=> SSL))
        /\ stage' = [stage EXCEPT ![r] = "entering"]
        /\ \A q \in Requests : stage[q] # "entering"
    BY SessionAssumption DEF Run, MayCall, Issue, IssueInCallback
  <1>2. Here(r)' /\ \A q \in Requests : Here(q) => Here(q)'
    BY <1>1 DEF FacadeOK, Here, Lost, Url
  <1>3. PeerKnown => PeerKnown'
    BY <1>1, <1>2 DEF PeerKnown, Lost, SomeLost, Url
  <1>4. fate' \in [Requests -> {"none", "refused", "elsewhere", "here"}]
    BY <1>1 DEF FacadeOK
  <1>5. \A q \in Requests : q # r => stage'[q] = stage[q]
    BY <1>1 DEF Inv, TypeOK
  <1>6. FacadeOK'
    BY <1>1, <1>2, <1>3, <1>4, <1>5 DEF FacadeOK
  <1>7. QED
    BY <1>1, <1>6, OwnKept

LEMMA EnterStep ==
  ASSUME Inv, FacadeOK, OwnRequest, NEW r \in Requests, EnterHere(r)
  PROVE  FacadeOK' /\ OwnRequest'
  <1>1. /\ UNCHANGED <<asked, fate, held, reached, open, eofs>>
        /\ stage[r] = "entering" /\ stage' = [stage EXCEPT ![r] = "queued"]
    BY DEF EnterHere, Enter
  <1>2. Here(r) /\ held = r
    BY <1>1 DEF FacadeOK
  <1>3. open' \/ ops'["resolve"] > 0 => PeerKnown'
    <2>1. CASE queue = <<>> /\ ~open
      <3>1. peer' = Seen(r)
        BY <2>1 DEF EnterHere
      <3>2. Here(r)' /\ Url(r)' = Url(r) /\ (Lost(r)' <=> Lost(r)) /\ (SomeLost' <=> SomeLost)
        BY <1>1, <1>2 DEF Here, Lost, Url, SomeLost
      <3>3. CASE Lost(r)
        <4>1. SomeLost
          BY <1>2, <3>3, ClientAssumption DEF SomeLost, Here, Calls, FacadeOK
        <4>2. QED
          BY <3>1, <3>2, <3>3, <4>1 DEF PeerKnown, Seen
      <3>4. CASE ~Lost(r)
        BY <1>2, <3>1, <3>2, <3>4 DEF PeerKnown, Seen
      <3>5. QED
        BY <3>3, <3>4
    <2>2. CASE ~(queue = <<>> /\ ~open)
      <3>1. peer' = peer /\ ops'["resolve"] = ops["resolve"]
        BY <2>2 DEF EnterHere, Enter, DoWrite, Start, Inv, TypeOK, OpKind
      <3>2. QED
        BY <1>1, <3>1, PeerKept DEF FacadeOK
    <2>3. QED
      BY <2>1, <2>2
  <1>4. \A q \in Requests : q # r => stage'[q] = stage[q]
    BY <1>1 DEF Inv, TypeOK
  <1>5. stage'[r] = "queued"
    BY <1>1 DEF Inv, TypeOK
  <1>6. QED
    BY <1>1, <1>3, <1>4, <1>5, FacadeKept, OwnKept

\* A completion handler finds a request of the session in front.
LEMMA FrontIsHere ==
  ASSUME Inv, FacadeOK, OnlyIssued, NEW k \in OpKind, ops[k] > 0
  PROVE  /\ queue # <<>> /\ Head(queue) \in Requests /\ Here(Head(queue))
         /\ stage[Head(queue)] # "new"
  <1>1. queue # <<>> /\ Head(queue) \in Requests
    BY OnlyOperation
  <1>2. Head(queue) = queue[1] /\ 1 \in 1..Len(queue)
    BY <1>1 DEF Inv, TypeOK
  <1>3. stage[Head(queue)] # "new"
    BY <1>2 DEF OnlyIssued
  <1>4. QED
    BY <1>1, <1>3 DEF FacadeOK

\* The handlers that may look up where to go again, or send.
LEMMA HandlerStep ==
  ASSUME Inv, FacadeOK, OwnRequest, OnlyIssued, Faithful,
         NEW t \in Threads, ReadHere(t) \/ WriteHere(t)
  PROVE  FacadeOK' /\ OwnRequest'
  <1>0. PICK r : r = Head(queue)
    OBVIOUS
  <1>1. /\ queue # <<>> /\ r \in Requests /\ Here(r) /\ stage[r] # "new"
    <2>1. PICK k \in OpKind : ops[k] > 0
      BY DEF ReadHere, WriteHere, OnRead, OnWrite, OpKind
    <2>2. QED
      BY <1>0, <2>1, FrontIsHere
  <1>2. UNCHANGED <<asked, fate, held>>
    BY DEF ReadHere, WriteHere
  <1>3. /\ eofs' \in {eofs, eofs + 1}
        /\ stage' = stage \/ stage' = [stage EXCEPT ![r] = "done"]
    BY <1>0 DEF ReadHere, WriteHere, OnRead, OnWrite, Answered, AnswerLost
  <1>4. \A q \in Requests : /\ stage'[q] # "new" => stage[q] # "new"
                            /\ stage'[q] = "entering" => stage[q] = "entering"
    BY <1>1, <1>3 DEF Inv, TypeOK
  <1>5. open' \/ ops'["resolve"] > 0 => PeerKnown'
    <2>1. CASE eofs' = eofs
      <3>1. open' = open /\ ops'["resolve"] = ops["resolve"] /\ peer' = peer
        BY <2>1, SMTT(30) DEF ReadHere, WriteHere, OnRead, OnWrite, Answered, AnswerLost, DoWrite,
                    Start, Finish, Fail, Inv, TypeOK, OpKind
      <3>2. QED
        BY <1>2, <1>3, <3>1, PeerKept DEF FacadeOK
    <2>2. CASE eofs' # eofs
      <3>1. peer' = Seen(r) /\ eofs' > 0
        BY <1>0, <1>3, <2>2 DEF ReadHere, WriteHere, OnWrite, Inv, TypeOK
      <3>2. CASE held = r /\ ~Lost(r)
        <4>1. peer' = Endpoint(Url(r))
          BY <3>1, <3>2 DEF Seen
        <4>2. Here(r)' /\ Url(r)' = Url(r) /\ ~Lost(r)'
          BY <1>1, <1>2, <3>2 DEF Here, Lost, Url
        <4>3. QED
          BY <1>1, <4>1, <4>2 DEF PeerKnown
      <3>3. CASE ~(held = r /\ ~Lost(r))
        BY <3>1, <3>3 DEF PeerKnown, Seen
      <3>4. QED
        BY <3>2, <3>3
    <2>3. QED
      BY <2>1, <2>2
  <1>6. FacadeOK'
    BY <1>2, <1>4, <1>5, FacadeKept
  <1>7. OwnRequest'
    <2>1. CASE reached' = reached
      BY <1>2, <1>3, <2>1, OwnKept
    <2>2. CASE reached' = reached \cup {<<r, peer, Message(r)>>} /\ eofs' = eofs /\ open
      <3>1. /\ Message(r).method = Meant(asked[r]).method
            /\ Message(r).body = Meant(asked[r]).body
            /\ Lost(r) \/ Message(r) = Meant(asked[r])
        <4>1. asked \in Usage /\ r \in Calls(asked) /\ Url(r).ok
          BY <1>1, ClientAssumption DEF FacadeOK, Here, Calls
        <4>2. QED
          BY <4>1, MessageIsMeant
      <3>2. \/ peer = MeantEndpoint(asked[r])
            \/ ~OneHost \/ Lost(r)
            \/ peer = Unknown /\ (eofs > 0 \/ SomeLost)
        <4>1. PeerKnown
          BY <2>2 DEF FacadeOK
        <4>2. QED
          BY <1>1, <4>1, SameEndpoint DEF PeerKnown
      <3>3. Own(r, peer, Message(r))
        BY <1>1, <3>1, <3>2 DEF Own
      <3>4. QED
        BY <1>2, <2>2, <3>3, OwnWritten
    <2>3. QED
      BY <1>0, <2>1, <2>2 DEF ReadHere, WriteHere, OnWrite
  <1>8. QED
    BY <1>6, <1>7

\* The other steps of the session, and the calls that have one of their own.
LEMMA OtherStep ==
  ASSUME Inv, FacadeOK, OwnRequest, OnlyIssued, SessionStep
  PROVE  FacadeOK' /\ OwnRequest'
  <1>1. UNCHANGED <<asked, fate, held, peer, reached>>
    BY DEF SessionStep, facade
  <1>2. eofs' = eofs
    BY DEF SessionStep, NameRefused, Expire, OnResolve, OnConnect, OnHandshake, CallBack,
           Return, OnTimer
  <1>3. open \/ ops["resolve"] > 0 => PeerKnown
    BY DEF FacadeOK
  <1>4. open' \/ ops'["resolve"] > 0 => open \/ ops["resolve"] > 0
    BY DEF SessionStep, NameRefused, Expire, OnResolve, OnConnect, OnHandshake, CallBack,
           Return, OnTimer, DoWrite, Start, Finish, Inv, TypeOK, OpKind
  <1>5. \A q \in Requests : /\ stage'[q] # "new" => stage[q] # "new"
                            /\ stage'[q] = "entering" => stage[q] = "entering"
    <2>1. \/ stage' = stage
          \/ \E r \in Requests : stage[r] = "entering" /\ stage' = [stage EXCEPT ![r] = "queued"]
      BY DEF SessionStep, NameRefused, Expire, OnResolve, OnConnect, OnHandshake, CallBack,
             Return, OnTimer
    <2>2. QED
      BY <2>1 DEF Inv, TypeOK
  <1>6. QED
    BY <1>1, <1>2, <1>3, <1>4, <1>5, PeerKept, FacadeKept, OwnKept

\* A synchronous call under way was made, for a URL that was not refused.
SyncOK ==
    /\ DOMAIN sync = SyncCalls
    /\ \A s \in SyncCalls : sync[s] \in SyncKind => asked[s] # NoCall /\ Url(s).ok

LEMMA SyncKeeps ==
  ASSUME Inv, FacadeOK, OwnRequest, SyncOK, Faithful, NEW s \in SyncCalls, SyncStep(s)
  PROVE  FacadeOK' /\ OwnRequest' /\ SyncOK'
  <1>1. UNCHANGED <<vars, asked, fate, held, session, peer>>
    BY DEF SyncStep, Apart
  <1>2. FacadeOK'
    <2>1. UNCHANGED <<stage, ops, open, eofs>>
      BY <1>1 DEF vars
    <2>2. open \/ ops["resolve"] > 0 => PeerKnown
      BY DEF FacadeOK
    <2>3. QED
      BY <1>1, <2>1, <2>2, PeerKept, FacadeKept
  <1>3. SyncOK'
    <2>1. PICK k : sync' = [sync EXCEPT ![s] = k]
      BY DEF SyncStep, SyncCall, SyncWritten, SyncAdvance, SyncEnd, SyncDeadline,
             SyncShutdown, Leaves, Moves
    <2>2. sync'[s] \in SyncKind => asked[s] # NoCall /\ Url(s).ok
      <3>1. CASE sync[s] \in SyncKind
        BY <3>1 DEF SyncOK
      <3>2. CASE sync[s] \notin SyncKind
        BY <3>2 DEF SyncStep, SyncCall, SyncWritten, SyncAdvance, SyncEnd, SyncDeadline,
                    SyncShutdown, Leaves, Moves, SyncOK, SyncKind, OpKind
      <3>3. QED
        BY <3>1, <3>2
    <2>3. QED
      BY <1>1, <2>1, <2>2 DEF SyncOK, Url
  <1>4. OwnRequest'
    <2>1. eofs' = eofs
      BY <1>1 DEF vars
    <2>2. CASE reached' = reached
      BY <1>1, <2>1, <2>2, OwnKept
    <2>3. CASE SyncWritten(s)
      <3>1. asked[s] # NoCall /\ Url(s).ok /\ asked \in Usage
        BY <2>3 DEF SyncWritten, Moves, SyncOK, SyncKind, OpKind, FacadeOK
      <3>2. s \in Calls(asked) /\ s \notin Requests /\ ~Lost(s)
        BY <3>1, ClientAssumption DEF Calls, Lost
      <3>3. Message(s) = Meant(asked[s]) /\ Endpoint(Url(s)) = MeantEndpoint(asked[s])
        BY <3>1, <3>2, MessageIsMeant
      <3>4. Own(s, Endpoint(Url(s)), Message(s))
        BY <3>3 DEF Own
      <3>5. reached' = reached \cup {<<s, Endpoint(Url(s)), Message(s)>>}
        BY <2>3 DEF SyncWritten
      <3>6. QED
        BY <1>1, <2>1, <3>4, <3>5, OwnWritten
    <2>4. QED
      BY <2>2, <2>3 DEF SyncStep, SyncCall, SyncAdvance, SyncEnd, SyncDeadline, SyncShutdown
  <1>5. QED
    BY <1>2, <1>3, <1>4

LEMMA FacadeNext ==
  ASSUME Inv, OnlyIssued, Faithful, FacadeOK, SyncOK, OwnRequest, [ClientNext]_clientVars
  PROVE  FacadeOK' /\ SyncOK' /\ OwnRequest'
  <1>1. ASSUME NEW r \in Requests, Refuse(r) \/ Elsewhere(r) \/ Run(r) \/ EnterHere(r)
        PROVE  FacadeOK' /\ SyncOK' /\ OwnRequest'
    <2>1. SyncOK'
      BY <1>1 DEF Refuse, Elsewhere, Run, EnterHere, SyncOK, Url
    <2>2. QED
      BY <1>1, <2>1, OutsideStep, RunStep, EnterStep
  <1>2. ASSUME NEW t \in Threads, ReadHere(t) \/ WriteHere(t)
        PROVE  FacadeOK' /\ SyncOK' /\ OwnRequest'
    <2>1. SyncOK'
      BY <1>2 DEF ReadHere, WriteHere, SyncOK, Url
    <2>2. QED
      BY <1>2, <2>1, HandlerStep
  <1>3. CASE SessionStep
    <2>1. SyncOK'
      BY <1>3 DEF SessionStep, facade, SyncOK, Url
    <2>2. QED
      BY <1>3, <2>1, OtherStep
  <1>4. ASSUME NEW s \in SyncCalls, SyncStep(s)
        PROVE  FacadeOK' /\ SyncOK' /\ OwnRequest'
    BY <1>4, SyncKeeps
  <1>5. CASE UNCHANGED clientVars
    <2>1. UNCHANGED <<asked, fate, held, peer, reached, sync, stage, ops, open, eofs>>
      BY <1>5 DEF clientVars, facade, vars
    <2>2. open \/ ops["resolve"] > 0 => PeerKnown
      BY DEF FacadeOK
    <2>3. FacadeOK' /\ OwnRequest'
      BY <2>1, <2>2, PeerKept, FacadeKept, OwnKept
    <2>4. SyncOK'
      BY <2>1 DEF SyncOK, Url
    <2>5. QED
      BY <2>3, <2>4
  <1>6. QED
    BY <1>1, <1>2, <1>3, <1>4, <1>5 DEF ClientNext

\* Whatever the program asks, in any order, and whatever the network does to the
\* session, what is written for a request is what its caller meant, and it goes to
\* its own host unless the client serves two of one scheme or the server has ended
\* a connection.  Of the URLs it is assumed that they follow the grammar; of those
\* the move into _url leaves without their text only method and body are sure.
THEOREM RequestsAreOwn == ASSUME WellFormedUsage PROVE ClientSpec => []OwnRequest
  <1>0. Faithful
    BY UsageIsFaithful
  <1>1. ClientInit => Init /\ OnlyIssued /\ FacadeOK /\ SyncOK /\ OwnRequest
    <2>1. ClientInit => SyncOK
      BY DEF ClientInit, SyncOK, SyncKind, OpKind
    <2>2. QED
      BY <2>1, FacadeInit, OneCallInit DEF ClientInit
  <1>2. Inv /\ OnlyIssued /\ FacadeOK /\ SyncOK /\ OwnRequest /\ [ClientNext]_clientVars
        => OnlyIssued' /\ FacadeOK' /\ SyncOK' /\ OwnRequest'
    BY <1>0, FacadeStep, OnlyIssuedNext, FacadeNext
  <1>3. QED
    BY <1>1, <1>2, FacadeIsSession, Invariance, PTL DEF ClientSpec
=============================================================================
