------------------------- MODULE HttpSessionProofs -------------------------
(***************************************************************************)
(* A connection of the server never has two operations on its stream and   *)
(* answers in order, for every number of requests and of calls of done().  *)
(***************************************************************************)
EXTENDS HttpSession, SequenceTheorems, TLAPS

\* A response that is being written is that of the last request, which is the
\* only one not answered.
WritingLast ==
    /\ Len(writes) <= 1
    /\ writes # <<>> => writes[1] = n /\ n \in Requests /\ at = "idle"
    /\ at = "handshake" => n = 0
    /\ at \in {"handling", "replying"} => n \in Requests /\ writes = <<>>
    /\ at \in {"handshake", "reading"} => Len(answered) = n
    /\ at \in {"handling", "replying", "idle"} => Len(answered) = n - 1

\* A callback that will start a write is that of the last request, which nothing
\* else answers; the others are being disarmed.
ArmedLast ==
    \A r \in Requests :
        armed[r] => doing[r] \/ (r = n /\ at = "idle" /\ writes = <<>>)

InOrder == \A k \in 1..Len(answered) : answered[k] = k

Inv == TypeOK /\ WritingLast /\ ArmedLast /\ InOrder

LEMMA RequestsFacts ==
    /\ Requests \subseteq Nat
    /\ \A k \in 0..MaxRequests : k \in Requests <=> k > 0
    /\ \A k \in Nat : k < MaxRequests => k + 1 \in Requests
BY SessionAssumption DEF Requests

LEMMA Singleton ==
    ASSUME NEW S, NEW x \in S
    PROVE  Append(<<>>, x) \in Seq(S) /\ Append(<<>>, x)[1] = x /\ Len(Append(<<>>, x)) = 1
OBVIOUS

LEMMA OneElement ==
    ASSUME NEW S, NEW s \in Seq(S), Len(s) <= 1, s # <<>>
    PROVE  Len(s) = 1 /\ Head(s) = s[1] /\ Tail(s) = <<>>
<1>1. Len(s) \in Nat \ {0}
  BY EmptySeq, ZenonT(30)
<1>2. Len(s) = 1
  BY <1>1, SMTT(30)
<1>3. Tail(s) \in Seq(S) /\ Len(Tail(s)) = 0
  BY <1>2
<1>4. Tail(s) = <<>>
  <2>1. Tail(s) # <<>> => Len(Tail(s)) \in Nat \ {0}
    BY <1>3, EmptySeq, ZenonT(30)
  <2> QED BY <1>3, <2>1
<1> QED BY <1>2, <1>4

\* The invariant holds initially and every action keeps it.
THEOREM Invariance == Spec => []Inv
<1>1. Init => Inv
  <2> SUFFICES ASSUME Init PROVE Inv
    OBVIOUS
  <2>1. /\ n = 0 /\ writes = <<>> /\ answered = <<>> /\ at \in {"handshake", "reading"}
        /\ Len(<<>>) = 0 /\ <<>> \in Seq(Requests)
    BY DEF Init
  <2>2. TypeOK
    <3>1. 0 \in 0..MaxDone /\ 0 \in 0..MaxRequests
      BY SessionAssumption
    <3> QED BY <2>1, <3>1 DEF Init, TypeOK
  <2>3. ArmedLast
    BY DEF Init, ArmedLast
  <2> QED BY <2>1, <2>2, <2>3 DEF Inv, WritingLast, InOrder
<1>2. ASSUME Inv, [Next]_vars PROVE Inv'
  <2> USE <1>2, SessionAssumption, RequestsFacts DEF Inv, TypeOK
  <2>1. CASE OnHandshake
    BY <2>1 DEF OnHandshake, Responses, WritingLast, ArmedLast, InOrder
  <2>2. CASE OnRead
    BY <2>2, SMTT(30) DEF OnRead, Closing, Responses, WritingLast, ArmedLast, InOrder
  <2>3. CASE Respond
    BY <2>3 DEF Respond, WritingLast, ArmedLast, InOrder
  <2>4. CASE Postpone
    <3>1. owed' \in [Requests -> 0..MaxDone]
      <4>1. MaxDone \in 0..MaxDone
        BY SessionAssumption
      <4> QED BY <2>4, <4>1 DEF Postpone
    <3> QED BY <2>4, <3>1 DEF Postpone, WritingLast, ArmedLast, InOrder
  <2>5. CASE HandOver
    BY <2>5 DEF HandOver, Responses, WritingLast, ArmedLast, InOrder
  <2>6. CASE Reply
    <3>1. n \in Requests /\ writes = <<>> /\ Len(answered) = n - 1
      BY <2>6 DEF Reply, WritingLast
    <3>2. CASE postponed
      <4>1. armed' \in [Requests -> BOOLEAN] /\ writes' = <<>>
        BY <2>6, <3>1, <3>2 DEF Reply
      <4>2. ArmedLast'
        BY <2>6, <3>1, <3>2 DEF Reply, ArmedLast
      <4> QED BY <2>6, <3>1, <4>1, <4>2 DEF Reply, WritingLast, InOrder
    <3>3. CASE ~postponed
      <4>1. writes' = Append(<<>>, n) /\ armed' = armed /\ at' = "idle"
        BY <2>6, <3>1, <3>3 DEF Reply
      <4>2. writes' \in Seq(Requests) /\ writes'[1] = n /\ Len(writes') = 1
        BY <3>1, <4>1, Singleton
      <4>3. \A q \in Requests : armed[q] => doing[q]
        BY <2>6 DEF Reply, ArmedLast
      <4>4. ArmedLast'
        BY <2>6, <4>1, <4>3 DEF Reply, ArmedLast
      <4> QED BY <2>6, <3>1, <4>1, <4>2, <4>4 DEF Reply, WritingLast, InOrder
    <3> QED BY <3>2, <3>3
  <2>7. ASSUME NEW r \in Requests, Done(r) PROVE Inv'
    <3>0. /\ owed' \in [Requests -> 0..MaxDone]
          /\ doing' \in [Requests -> BOOLEAN]
          /\ UNCHANGED <<at, n, postponed, armed, answered>>
      BY <2>7 DEF Done
    <3>1. armed[r] => r = n /\ at = "idle" /\ writes = <<>>
      BY <2>7 DEF Done, ArmedLast
    <3>2. CASE ~armed[r]
      <4>1. writes' = writes
        BY <2>7, <3>2 DEF Done
      <4>2. ArmedLast'
        BY <2>7, <4>1 DEF Done, ArmedLast
      <4> QED BY <3>0, <4>1, <4>2 DEF WritingLast, InOrder
    <3>3. CASE armed[r]
      <4>1. r = n /\ at = "idle" /\ writes' = Append(<<>>, n)
        BY <2>7, <3>1, <3>3 DEF Done
      <4>2. writes' \in Seq(Requests) /\ writes'[1] = n /\ Len(writes') = 1
        BY <4>1, Singleton
      <4>3. \A q \in Requests : armed[q] => doing'[q]
        BY <2>7, <4>1 DEF Done, ArmedLast
      <4>4. ArmedLast'
        BY <3>0, <4>3 DEF ArmedLast
      <4> QED BY <3>0, <4>1, <4>2, <4>4 DEF WritingLast, InOrder
    <3> QED BY <3>2, <3>3
  <2>8. ASSUME NEW r \in Requests, DoneReturn(r) PROVE Inv'
    <3>1. /\ doing' \in [Requests -> BOOLEAN] /\ armed' \in [Requests -> BOOLEAN]
          /\ UNCHANGED <<at, n, postponed, owed, writes, answered>>
      BY <2>8 DEF DoneReturn
    <3>2. ArmedLast'
      BY <2>8 DEF DoneReturn, ArmedLast
    <3> QED BY <3>1, <3>2 DEF WritingLast, InOrder
  <2>9. CASE OnWrite
    <3>1. /\ writes' = <<>> /\ Head(writes) = n
          /\ n \in Requests /\ at = "idle"
          /\ Len(answered) = n - 1
      BY <2>9, OneElement DEF OnWrite, WritingLast
    <3>2. UNCHANGED <<n, postponed, armed, owed, doing>>
      BY <2>9 DEF OnWrite, Responses
    <3>3. Len(<<>>) = 0 /\ <<>> \in Seq(Requests)
      OBVIOUS
    <3>4. \A q \in Requests : armed[q] => doing[q]
      BY <2>9 DEF OnWrite, ArmedLast
    <3>5. ArmedLast'
      BY <3>2, <3>4 DEF ArmedLast
    <3>6. CASE answered' = answered /\ at' = "closed"
      BY <3>1, <3>2, <3>3, <3>5, <3>6 DEF WritingLast, InOrder
    <3>7. CASE answered' = Append(answered, n) /\ at' \in {"reading", "shutdown", "closed"}
      <4>1. answered' \in Seq(Requests) /\ Len(answered') = n
        BY <3>1, <3>7
      <4>2. InOrder'
        BY <3>1, <3>7 DEF InOrder
      <4> QED BY <3>1, <3>2, <3>3, <3>5, <3>7, <4>1, <4>2 DEF WritingLast
    <3> QED BY <2>9, <3>1, <3>6, <3>7 DEF OnWrite, Closing
  <2>10. CASE OnShutdown
    BY <2>10 DEF OnShutdown, Responses, WritingLast, ArmedLast, InOrder
  <2>11. CASE UNCHANGED vars
    BY <2>11 DEF vars, Responses, WritingLast, ArmedLast, InOrder
  <2> QED
    BY <1>2, <2>1, <2>2, <2>3, <2>4, <2>5, <2>6, <2>7, <2>8, <2>9, <2>10, <2>11
    DEF Next, Coroutine
<1> QED BY <1>1, <1>2, PTL DEF Spec

\* The variables of the session keep their types.
THEOREM TypeCorrectness == Spec => []TypeOK
<1>1. Inv => TypeOK
  BY DEF Inv
<1> QED BY <1>1, Invariance, PTL

\* However often and whenever done() is called, the stream is used by one operation
\* at a time: two writes or a read beside a write never overlap.
THEOREM OneOperationAtATime == Spec => []OneOperation
<1>1. Inv => OneOperation
  BY DEF Inv, WritingLast, OneOperation
<1> QED BY <1>1, Invariance, PTL

\* The client reads the responses in the order of its requests, one for each.
THEOREM AnswersInOrder == Spec => []AnsweredInOrder
<1>1. Inv => AnsweredInOrder
  BY DEF Inv, WritingLast, InOrder, AnsweredInOrder
<1> QED BY <1>1, Invariance, PTL
=============================================================================
