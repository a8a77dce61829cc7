----------------------- MODULE RequestHandlingProofs -----------------------
(***************************************************************************)
(* Theorems about MiddlewareChain and RequestHandling, for every number of *)
(* middlewares and any routes, and lemmas about the operators of Router.   *)
(***************************************************************************)
EXTENDS RequestHandling, DataProofs

\* The stages before i have run; the route too once next() was called at the end.
Progress ==
    /\ last <= i
    /\ last # i => Len(ran) = i
    /\ last = i => i = Total /\ Len(ran) = Total + 1
    /\ \A k \in 1..Len(stack) : stack[k] < i

Inv == TypeOK /\ OnceInOrder /\ Progress

LEMMA TotalIsNat == Total \in Nat
  BY ChainAssumption DEF Total

LEMMA InitInv == Init => Inv
  <1> SUFFICES ASSUME Init PROVE Inv
    OBVIOUS
  <1>1. i = 0 /\ last = -1 /\ Len(ran) = 0 /\ Len(stack) = 0 /\ ran = <<>> /\ stack = <<>>
    BY DEF Init, NoIndex
  <1>2. ran \in Seq(0..Total) /\ stack \in Seq(Middlewares)
    BY <1>1
  <1>3. calls \in [Middlewares -> Nat]
    BY DEF Init
  <1>4. 0 \in 0..Total
    BY TotalIsNat
  <1>5. TypeOK
    BY <1>1, <1>2, <1>3, <1>4 DEF Init, TypeOK, NoIndex
  <1>6. QED
    BY <1>1, <1>5 DEF Inv, OnceInOrder, Progress

\* next() keeps the order, wherever it is called from.
LEMMA NextStageInv ==
  ASSUME Inv, NextStage
  PROVE  /\ i' \in 0..Total /\ last' \in (0..Total) \cup {NoIndex}
         /\ stack' \in Seq(Middlewares) /\ ran' \in Seq(0..Total)
         /\ raising' \in BOOLEAN
         /\ OnceInOrder' /\ Progress'
  <1> USE DEF Inv, TypeOK, Progress
  <1>1. CASE i = last
    BY <1>1 DEF NextStage, Unchanged, OnceInOrder
  <1>2. CASE i # last
    <2>1. /\ i \in 0..Total /\ Total \in Nat /\ Len(ran) = i
          /\ last' = i /\ ran' = Append(ran, i)
      BY <1>2, TotalIsNat DEF NextStage, Advance
    <2>2. /\ ran' \in Seq(0..Total) /\ Len(ran') = i + 1 /\ ran'[i + 1] = i
          /\ \A n \in 1..i : ran'[n] = ran[n]
      BY <2>1
    <2>3. OnceInOrder'
      <3> SUFFICES ASSUME NEW n \in 1..(i + 1) PROVE ran'[n] = n - 1
        BY <2>2 DEF OnceInOrder
      <3>1. n \in 1..i \/ n = i + 1
        BY <2>1
      <3>2. QED
        BY <2>1, <2>2, <3>1 DEF OnceInOrder
    <2>4. CASE i < Total
      <3>1. stack' = Append(stack, i) /\ i' = i + 1 /\ raising' = FALSE
        BY <1>2, <2>4 DEF NextStage, Advance
      <3>2. i \in Middlewares /\ i' \in 0..Total
        BY <2>1, <2>4, <3>1 DEF Middlewares
      <3>3. /\ stack' \in Seq(Middlewares) /\ Len(stack') = Len(stack) + 1
            /\ Len(stack) \in Nat /\ stack'[Len(stack) + 1] = i
            /\ \A k \in 1..Len(stack) : stack'[k] = stack[k]
        BY <3>1, <3>2
      <3>4. \A k \in 1..Len(stack') : stack'[k] < i'
        <4> TAKE k \in 1..Len(stack')
        <4>1. k \in 1..Len(stack) \/ k = Len(stack) + 1
          BY <3>3
        <4>2. k \in 1..Len(stack) => stack[k] \in Int /\ stack[k] < i
          <5>1. k \in 1..Len(stack) => stack[k] \in Middlewares
            OBVIOUS
          <5>2. QED
            BY <5>1 DEF Middlewares
        <4>3. QED
          BY <2>1, <3>1, <3>3, <4>1, <4>2
      <3>5. Progress'
        BY <2>1, <2>2, <2>4, <3>1, <3>4
      <3>6. QED
        BY <2>1, <2>2, <2>3, <3>1, <3>2, <3>3, <3>5
    <2>5. CASE ~(i < Total)
      <3>1. i' = i /\ stack' = stack /\ raising' \in BOOLEAN
        BY <1>2, <2>5 DEF NextStage, Advance
      <3>2. QED
        BY <2>1, <2>2, <2>3, <2>5, <3>1
    <2>6. QED
      BY <2>4, <2>5
  <1>3. QED
    BY <1>1, <1>2

LEMMA PopType ==
  ASSUME stack \in Seq(Middlewares), stack # <<>>
  PROVE  /\ Pop \in Seq(Middlewares) /\ Top \in Middlewares
         /\ Len(stack) \in 1..Len(stack) /\ Len(Pop) = Len(stack) - 1
         /\ \A k \in 1..Len(Pop) : Pop[k] = stack[k]
  <1>1. Len(stack) \in Nat \ {0} /\ Len(stack) \in 1..Len(stack)
    OBVIOUS
  <1>2. Top \in Middlewares
    BY <1>1 DEF Top
  <1>3. Pop = [k \in 1..(Len(stack) - 1) |-> stack[k]]
    BY <1>1 DEF Pop
  <1>4. \A k \in 1..(Len(stack) - 1) : stack[k] \in Middlewares
    BY <1>1
  <1>5. Pop \in Seq(Middlewares) /\ Len(Pop) = Len(stack) - 1
    BY <1>1, <1>3, <1>4
  <1>6. QED
    BY <1>1, <1>2, <1>3, <1>5

LEMMA StepInv == Inv /\ [Next]_vars => Inv'
  <1> SUFFICES ASSUME Inv, [Next]_vars PROVE Inv'
    OBVIOUS
  <1>1. CASE Enter
    BY <1>1, NextStageInv DEF Enter, Inv, TypeOK
  <1>2. CASE CallNext
    <2>1. calls' \in [Middlewares -> Nat]
      BY <1>2, PopType DEF CallNext, Inv, TypeOK
    <2>2. QED
      BY <1>2, <2>1, NextStageInv DEF CallNext, Inv, TypeOK
  <1>3. CASE Return \/ Throw \/ Unwind
    <2>1. /\ stack' = Pop /\ stack # <<>> /\ stack \in Seq(Middlewares)
          /\ raising' \in BOOLEAN
          /\ UNCHANGED <<i, last, calls, ran, outcome>>
      BY <1>3 DEF Return, Throw, Unwind, Inv, TypeOK
    <2>2. /\ stack' \in Seq(Middlewares)
          /\ \A k \in 1..Len(stack') : k \in 1..Len(stack) /\ stack'[k] = stack[k]
      BY <2>1, PopType
    <2>3. QED
      BY <2>1, <2>2 DEF Inv, TypeOK, OnceInOrder, Progress
  <1>4. CASE Catch \/ Finish \/ UNCHANGED vars
    BY <1>4 DEF Catch, Finish, vars, Inv, TypeOK, OnceInOrder, Progress
  <1>5. QED
    BY <1>1, <1>2, <1>3, <1>4 DEF Next

LEMMA Invariance == Spec => []Inv
  BY InitInv, StepInv, PTL DEF Spec

\* The chain is well formed whatever its middlewares do.
THEOREM TypeCorrectness == Spec => []TypeOK
  <1>1. Inv => TypeOK
    BY DEF Inv
  <1>2. QED
    BY <1>1, Invariance, PTL

\* Every middleware and the route run at most once, in their order, however
\* often next() is called.
THEOREM StagesRunOnce == Spec => []OnceInOrder
  <1>1. Inv => OnceInOrder
    BY DEF Inv
  <1>2. QED
    BY <1>1, Invariance, PTL

----------------------------------------------------------------------------
(* Middlewares that call next() once at most.                              *)

\* While nobody has called next() twice: all stages before the one started last have called next(), and that one
\* too when the route has run.
Passed ==
    /\ CalledOnce => \A m \in Middlewares : m < i - 1 => calls[m] # 0
    /\ CalledOnce /\ last = i => \A m \in Middlewares : calls[m] # 0
    /\ outcome = "awaiting" => i = 0 /\ last = NoIndex

LEMMA StepPassed ==
  ASSUME Inv, Passed, [Next]_vars
  PROVE  Passed'
  <1> USE DEF Passed
  <1>0. i \in 0..Total /\ Total \in Nat /\ calls \in [Middlewares -> Nat] /\ last <= i
    BY TotalIsNat DEF Inv, TypeOK, Progress
  <1>1. CASE Enter
    <2>1. calls' = calls /\ outcome' # "awaiting" /\ last' = 0 /\ i = 0
          /\ i' = IF 0 < Total THEN 1 ELSE 0
      BY <1>1 DEF Enter, NextStage, Advance, NoIndex
    <2>2. QED
      BY <1>0, <2>1 DEF Middlewares
  <1>2. CASE CallNext
    <2>0. outcome' # "awaiting" /\ Top \in Middlewares
      BY <1>0, <1>2, PopType DEF CallNext, Running, Inv, TypeOK
    <2> SUFFICES ASSUME CalledOnce' PROVE Passed'
      BY <2>0
    <2>a. calls'[Top] = calls[Top] + 1 /\ \A m \in Middlewares : calls[m] <= calls'[m]
      BY <1>0, <1>2, <2>0 DEF CallNext
    <2>b. CalledOnce /\ calls[Top] = 0
      <3>1. \A m \in Middlewares : calls[m] \in Nat /\ calls'[m] \in Nat /\ calls'[m] <= 1
        BY <1>0, <1>2, <2>0 DEF CallNext, CalledOnce
      <3> QED BY <2>0, <2>a, <3>1 DEF CalledOnce
    <2>1. Top \in Middlewares /\ calls[Top] = 0 /\ calls'[Top] # 0
          /\ \A m \in Middlewares : calls[m] # 0 => calls'[m] # 0
      BY <1>0, <1>2, <2>0, <2>a, <2>b DEF CallNext
    <2>2. i # last /\ ~(Top < i - 1)
      BY <2>1, <2>b
    <2>3. \A m \in Middlewares : m < i => calls'[m] # 0
      <3> SUFFICES ASSUME NEW m \in Middlewares, m < i PROVE calls'[m] # 0
        OBVIOUS
      <3>1. CASE m < i - 1
        BY <2>1, <2>b, <3>1
      <3>2. CASE ~(m < i - 1)
        <4>1. m = i - 1
          BY <1>0, <3>2 DEF Middlewares
        <4>2. Top \in Int /\ Top < i
          BY <1>2, <2>1, PopType DEF Inv, TypeOK, Progress, CallNext, Top, Middlewares
        <4>3. QED
          BY <2>1, <2>2, <4>1, <4>2, <1>0
      <3>3. QED
        BY <3>1, <3>2
    <2>4. QED
      BY <1>0, <1>2, <2>2, <2>3 DEF CallNext, NextStage, Advance, Running, Middlewares
  <1>3. CASE Return \/ Throw \/ Unwind \/ Catch \/ Finish \/ UNCHANGED vars
    BY <1>3 DEF Return, Throw, Unwind, Catch, Finish, vars, Running, CalledOnce
  <1>4. QED
    BY <1>1, <1>2, <1>3 DEF Next

LEMMA PassedImplies == Inv /\ Passed => ShortCircuits
  <1> SUFFICES ASSUME Inv, Passed, CalledOnce, NEW m \in Middlewares, calls[m] = 0,
                      NEW n \in 1..Len(ran)
               PROVE  ran[n] <= m
    BY DEF ShortCircuits, NoBypass
  <1>1. last # i /\ ~(m < i - 1)
    BY DEF Passed
  <1>2. ran[n] = n - 1 /\ Len(ran) = i /\ i \in Nat
    BY <1>1 DEF Inv, Progress, OnceInOrder, TypeOK
  <1>3. QED
    BY <1>1, <1>2, TotalIsNat DEF Middlewares

\* As long as no middleware has called next() twice, one that does not call it
\* stops the request there.
THEOREM ShortCircuit == Spec => []ShortCircuits
  <1>1. Init => Passed
    BY TotalIsNat DEF Init, Passed, NoIndex, Middlewares
  <1>2. Inv /\ Passed /\ [Next]_vars => Passed'
    BY StepPassed
  <1>3. Inv /\ Passed => ShortCircuits
    BY PassedImplies
  <1>4. QED
    BY <1>1, <1>2, <1>3, Invariance, PTL DEF Spec

----------------------------------------------------------------------------
(* What the loops over a path compute.                                     *)

\* Powers of two, as they double.
LEMMA PowersFacts ==
  ASSUME NEW n \in Nat
  PROVE  /\ Powers(n) \in [0..n -> Nat]
         /\ Powers(n)[0] = 1
         /\ \A k \in 1..n : Powers(n)[k] = 2 * Powers(n)[k - 1]
  <1> DEFINE G == [k \in 1..n |-> [v \in Nat |-> 2 * v]]
  <1>1. G \in [1..n -> [Nat -> Nat]]
    OBVIOUS
  <1>2. \A k \in 1..n, v \in Nat : G[k][v] = 2 * v
    OBVIOUS
  <1>3. PICK f : Loop(f, n, Nat, 1, G)
    <2> HIDE DEF G
    <2>1. 1 \in Nat
      OBVIOUS
    <2>2. QED
      BY <1>1, <2>1, LoopExists
  <1> HIDE DEF G
  <1>4. f \in [0..n -> Nat] /\ f[0] = 1 /\ \A k \in 1..n : f[k] = 2 * f[k - 1]
    <2>1. f \in [0..n -> Nat] /\ f[0] = 1 /\ \A k \in 1..n : f[k] = G[k][f[k - 1]]
      BY <1>3 DEF Loop
    <2>2. \A k \in 1..n : k - 1 \in 0..n /\ f[k - 1] \in Nat
      BY <2>1
    <2>3. QED
      BY <1>2, <2>1, <2>2
  <1>5. f = [k \in 0..n |-> IF k = 0 THEN 1 ELSE 2 * f[k - 1]]
    BY <1>4
  <1>6. Powers(n) = [k \in 0..n |-> IF k = 0 THEN 1 ELSE 2 * Powers(n)[k - 1]]
    BY <1>5 DEF Powers
  <1>7. /\ DOMAIN Powers(n) = 0..n
        /\ Powers(n)[0] = 1
        /\ \A k \in 1..n : Powers(n)[k] = 2 * Powers(n)[k - 1]
    <2>1. \A k \in 0..n : Powers(n)[k] = IF k = 0 THEN 1 ELSE 2 * Powers(n)[k - 1]
      BY <1>6
    <2>2. QED
      BY <1>6, <2>1
  <1>8. \A k \in 0..n : Powers(n)[k] \in Nat
    <2> DEFINE S == {k \in 0..n : Powers(n)[k] \in Nat}
    <2>1. 0 \in S
      BY <1>7
    <2>2. \A k \in 1..n : k - 1 \in S => k \in S
      BY <1>7
    <2>3. 0..n \subseteq S
      <3> HIDE DEF S
      <3>1. QED
        BY <2>1, <2>2, Induction
    <2>4. QED
      BY <2>3
  <1>9. QED
    BY <1>6, <1>7, <1>8

\* What a path costs: of its last k segments those that are parameters weigh.
LEMMA CostsFacts ==
  ASSUME NEW path, Len(path) \in Nat
  PROVE  /\ Costs(path)[0] = 0
         /\ \A k \in 1..Len(path) : Costs(path)[k] = Costs(path)[k - 1] + Weight(path, k)
         /\ \A k \in 0..Len(path) : Costs(path)[k] \in Nat
  <1> DEFINE n == Len(path)
             G == [k \in 1..n |-> [v \in Nat |-> v + Weight(path, k)]]
  <1>0. \A k \in 1..n : Weight(path, k) \in Nat
    <2>1. \A k \in 1..n : k - 1 \in 0..n
      OBVIOUS
    <2>2. Powers(n) \in [0..n -> Nat]
      BY PowersFacts
    <2>3. QED
      BY <2>1, <2>2 DEF Weight
  <1>1. G \in [1..n -> [Nat -> Nat]] /\ \A k \in 1..n, v \in Nat : G[k][v] = v + Weight(path, k)
    BY <1>0
  <1>3. PICK f : Loop(f, n, Nat, 0, G)
    <2> HIDE DEF G
    <2>1. 0 \in Nat /\ n \in Nat
      OBVIOUS
    <2> HIDE DEF n
    <2>2. QED
      BY <1>1, <2>1, LoopExists
  <1>4. f \in [0..n -> Nat] /\ f[0] = 0 /\ \A k \in 1..n : f[k] = f[k - 1] + Weight(path, k)
    <2> HIDE DEF G
    <2>1. f \in [0..n -> Nat] /\ f[0] = 0 /\ \A k \in 1..n : f[k] = G[k][f[k - 1]]
      BY <1>3 DEF Loop
    <2>2. \A k \in 1..n : k - 1 \in 0..n /\ f[k - 1] \in Nat
      BY <2>1, SMTT(30)
    <2>3. QED
      BY <1>1, <2>1, <2>2
  <1>5. f = [k \in 0..n |-> IF k = 0 THEN 0 ELSE f[k - 1] + Weight(path, k)]
    BY <1>4
  <1>6. Costs(path) = [k \in 0..n |-> IF k = 0 THEN 0 ELSE Costs(path)[k - 1] + Weight(path, k)]
    BY <1>5 DEF Costs
  <1>7. /\ Costs(path)[0] = 0
        /\ \A k \in 1..n : Costs(path)[k] = Costs(path)[k - 1] + Weight(path, k)
    <2>1. \A k \in 0..n : Costs(path)[k] = IF k = 0 THEN 0 ELSE Costs(path)[k - 1] + Weight(path, k)
      BY <1>6
    <2>2. QED
      BY <1>6, <2>1
  <1>8. \A k \in 0..n : Costs(path)[k] \in Nat
    <2> DEFINE S == {k \in 0..n : Costs(path)[k] \in Nat}
    <2>1. 0 \in S
      BY <1>7
    <2>2. \A k \in 1..n : k - 1 \in S => k \in S
      BY <1>0, <1>7
    <2>3. 0..n \subseteq S
      <3>1. n \in Nat
        OBVIOUS
      <3> HIDE DEF S, n
      <3>2. QED
        BY <2>1, <2>2, <3>1, Induction
    <2>4. QED
      BY <2>3
  <1>9. QED
    BY <1>7, <1>8

\* The last k segments together weigh less than the segment in front of them.
LEMMA CostsBelow ==
  ASSUME NEW path, Len(path) \in Nat
  PROVE  \A k \in 0..Len(path) : Costs(path)[k] < Powers(Len(path))[k]
  <1> DEFINE n == Len(path)
             S == {k \in 0..n : Costs(path)[k] < Powers(n)[k]}
  <1>1. /\ Powers(n) \in [0..n -> Nat] /\ Powers(n)[0] = 1
        /\ \A k \in 1..n : Powers(n)[k] = 2 * Powers(n)[k - 1]
    BY PowersFacts
  <1>2. /\ Costs(path)[0] = 0
        /\ \A k \in 1..n : \/ Costs(path)[k] = Costs(path)[k - 1]
                           \/ Costs(path)[k] = Costs(path)[k - 1] + Powers(n)[k - 1]
        /\ \A k \in 0..n : Costs(path)[k] \in Nat
    <2>1. \A k \in 1..n : Weight(path, k) \in {0, Powers(n)[k - 1]}
      BY DEF Weight
    <2>2. \A k \in 1..n : k - 1 \in 0..n
      OBVIOUS
    <2>3. QED
      BY <2>1, <2>2, CostsFacts
  <1>3. 0 \in S
    BY <1>1, <1>2
  <1>4. ASSUME NEW k \in 1..n, k - 1 \in S PROVE k \in S
    <2>1. Costs(path)[k - 1] < Powers(n)[k - 1] /\ k - 1 \in 0..n /\ k \in 0..n
      BY <1>4
    <2>2. /\ Costs(path)[k - 1] \in Nat /\ Powers(n)[k - 1] \in Nat
          /\ Powers(n)[k] = 2 * Powers(n)[k - 1]
      BY <1>1, <1>2, <2>1
    <2>3. Costs(path)[k] < Powers(n)[k]
      BY <1>2, <2>1, <2>2
    <2>4. QED
      BY <2>1, <2>3
  <1>5. 0..n \subseteq S
    <2>1. n \in Nat
      OBVIOUS
    <2> HIDE DEF S, n
    <2>2. QED
      BY <1>3, <1>4, <2>1, Induction
  <1>6. QED
    BY <1>5

\* The leftmost difference of two paths decides which costs more.
LEMMA LeftmostDecides ==
  ASSUME NEW p, NEW q, Len(p) \in Nat, Len(q) = Len(p), NEW i0 \in 1..Len(p),
         p[i0].param, ~q[i0].param,
         \A j \in 1..(i0 - 1) : p[j].param = q[j].param
  PROVE  Costs(q)[Len(p)] < Costs(p)[Len(p)]
  <1> DEFINE n == Len(p)
             first == n - i0 + 1
             S == {k \in 0..n : k >= first => Costs(q)[k] < Costs(p)[k]}
  <1>0. n \in Nat /\ first \in 1..n /\ n - first + 1 = i0
    OBVIOUS
  <1>1. /\ \A k \in 1..n : Costs(p)[k] = Costs(p)[k - 1] + Weight(p, k)
        /\ \A k \in 1..n : Costs(q)[k] = Costs(q)[k - 1] + Weight(q, k)
        /\ \A k \in 0..n : Costs(p)[k] \in Nat /\ Costs(q)[k] \in Nat
    BY CostsFacts
  <1>2. 0 \in S
    BY <1>0
  <1>3. ASSUME NEW k \in 1..n, k - 1 \in S PROVE k \in S
    <2>1. /\ k - 1 \in 0..n /\ k \in 0..n
          /\ Costs(p)[k] \in Nat /\ Costs(q)[k] \in Nat
          /\ Costs(p)[k - 1] \in Nat /\ Costs(q)[k - 1] \in Nat
      BY <1>1
    <2>2. CASE k < first
      BY <1>0, <2>1, <2>2
    <2>3. CASE k = first
      <3>1. Weight(p, k) = Powers(n)[k - 1] /\ Weight(q, k) = 0
        BY <1>0, <2>3 DEF Weight
      <3>2. Costs(q)[k - 1] < Powers(n)[k - 1]
        BY <2>1, CostsBelow
      <3>3. Powers(n)[k - 1] \in Nat
        BY <1>0, <2>1, PowersFacts
      <3>4. Costs(q)[k] < Costs(p)[k]
        BY <1>1, <2>1, <3>1, <3>2, <3>3
      <3>5. QED
        BY <2>1, <3>4
    <2>4. CASE k > first
      <3>1. n - k + 1 \in 1..(i0 - 1)
        BY <1>0, <2>4
      <3>2. Weight(p, k) = Weight(q, k)
        BY <3>1 DEF Weight
      <3>3. Costs(q)[k - 1] < Costs(p)[k - 1]
        BY <1>0, <1>3, <2>1, <2>4
      <3>4. Weight(p, k) \in Nat
        BY <1>0, <2>1, PowersFacts DEF Weight
      <3>5. Costs(q)[k] < Costs(p)[k]
        BY <1>1, <2>1, <3>2, <3>3, <3>4
      <3>6. QED
        BY <2>1, <3>5
    <2>5. QED
      BY <1>0, <2>2, <2>3, <2>4
  <1>4. 0..n \subseteq S
    <2> HIDE DEF S, n
    <2>1. QED
      BY <1>0, <1>2, <1>3, Induction
  <1>5. n \in 0..n /\ n >= first
    BY <1>0
  <1>6. QED
    BY <1>4, <1>5

----------------------------------------------------------------------------
(* The routes of a method stay sorted, and the first that matches is       *)
(* chosen.                                                                 *)
TableOK ==
    /\ table \in [Methods -> Seq(Routes)]
    /\ \A v \in Methods : \A k, l \in DOMAIN table[v] :
         k < l => ~Before(table[v][l], table[v][k])

Routed ==
    request = NoRequest
        \/ /\ request.method \in Methods
           /\ chosen = Find(table[request.method], request.target)

\* std::sort keeps the routes it is given, and puts none behind a dearer one.
LEMMA ArrangementIsSorted ==
  ASSUME NEW t \in Seq(Routes), NEW r \in Routes, NEW s \in Arrangements(t, r)
  PROVE  /\ s \in Seq(Routes)
         /\ \A k, l \in DOMAIN s : k < l => ~Before(s[l], s[k])
  <1> DEFINE all == Append(t, r)
  <1>1. all \in Seq(Routes) /\ DOMAIN all = 1..Len(all) /\ Len(all) \in Nat
        /\ \A k \in DOMAIN all : all[k] \in Routes
    OBVIOUS
  <1> HIDE DEF all
  <1>2. PICK p \in [DOMAIN all -> DOMAIN all] : s = [k \in DOMAIN all |-> all[p[k]]]
    BY DEF Arrangements, all
  <1>3. DOMAIN s = DOMAIN all /\ \A k \in DOMAIN s : s[k] \in Routes
    BY <1>1, <1>2
  <1>4. s \in [1..Len(all) -> Routes]
    BY <1>1, <1>2, <1>3
  <1>5. s \in Seq(Routes)
    BY <1>1, <1>4
  <1>6. \A k, l \in DOMAIN all : k < l => ~Before(s[l], s[k])
    BY DEF Arrangements, all
  <1>7. QED
    BY <1>3, <1>5, <1>6

LEMMA RoutingInit == HInit => TableOK /\ Routed
  <1> SUFFICES ASSUME HInit PROVE TableOK /\ Routed
    OBVIOUS
  <1>1. table = [v \in Methods |-> <<>>] /\ request = NoRequest
    BY DEF HInit
  <1>2. <<>> \in Seq(Routes) /\ DOMAIN <<>> = {}
    OBVIOUS
  <1>3. QED
    BY <1>1, <1>2 DEF TableOK, Routed

LEMMA RoutingNext == TableOK /\ Routed /\ [HNext]_hvars => TableOK' /\ Routed'
  <1> SUFFICES ASSUME TableOK, Routed, [HNext]_hvars PROVE TableOK' /\ Routed'
    OBVIOUS
  <1>1. ASSUME NEW v \in Methods, NEW r \in Routes, Register(v, r)
        PROVE  TableOK' /\ Routed'
    <2>1. PICK s \in Arrangements(table[v], r) : table' = [table EXCEPT ![v] = s]
      BY <1>1 DEF Register
    <2>2. table[v] \in Seq(Routes)
      BY DEF TableOK
    <2>3. s \in Seq(Routes) /\ \A k, l \in DOMAIN s : k < l => ~Before(s[l], s[k])
      BY <2>1, <2>2, ArrangementIsSorted
    <2>4. table'[v] = s /\ \A u \in Methods : u # v => table'[u] = table[u]
      BY <2>1 DEF TableOK
    <2>5. table' \in [Methods -> Seq(Routes)]
      BY <2>1, <2>3 DEF TableOK
    <2>6. ASSUME NEW u \in Methods, NEW k \in DOMAIN table'[u], NEW l \in DOMAIN table'[u],
                 k < l
          PROVE  ~Before(table'[u][l], table'[u][k])
      BY <2>3, <2>4, <2>6 DEF TableOK
    <2>7. TableOK'
      BY <2>5, <2>6 DEF TableOK
    <2>8. Routed'
      BY <1>1 DEF Register, Routed
    <2>9. QED
      BY <2>7, <2>8
  <1>2. ASSUME NEW v \in Methods, NEW req \in Targets, LookUp(v, req)
        PROVE  TableOK' /\ Routed'
    <2>1. table' = table /\ request' = [method |-> v, target |-> req]
          /\ chosen' = Find(table[v], req)
      BY <1>2 DEF LookUp
    <2>2. request'.method = v /\ request'.target = req
      BY <2>1
    <2>3. TableOK'
      BY <2>1 DEF TableOK
    <2>4. Routed'
      BY <2>1, <2>2 DEF Routed
    <2>5. QED
      BY <2>3, <2>4
  <1>3. CASE RunChain \/ UNCHANGED hvars
    <2>1. UNCHANGED <<table, request, chosen>>
      BY <1>3 DEF RunChain, hvars
    <2>2. QED
      BY <2>1 DEF TableOK, Routed
  <1>4. QED
    BY <1>1, <1>2, <1>3 DEF HNext

\* Find() returns the first index of a route that matches.
LEMMA FindIsFirst ==
  ASSUME NEW t \in Seq(Routes), NEW req
  PROVE  \/ Find(t, req) = NoRoute /\ \A k \in DOMAIN t : ~Match(t[k], req)
         \/ /\ Find(t, req) \in DOMAIN t /\ Match(t[Find(t, req)], req)
            /\ \A k \in DOMAIN t : Match(t[k], req) => Find(t, req) <= k
  <1> DEFINE found == {k \in DOMAIN t : Match(t[k], req)}
  <1>1. CASE found = {}
    BY <1>1 DEF Find
  <1>2. CASE found # {}
    <2>1. found \subseteq Nat
      OBVIOUS
    <2>2. \E k \in found : \A l \in found : k <= l
      <3> HIDE DEF found
      <3>1. QED
        BY <1>2, <2>1, Smallest
    <2>3. Find(t, req) = CHOOSE k \in found : \A l \in found : k <= l
      BY <1>2 DEF Find
    <2>4. Find(t, req) \in found /\ \A l \in found : Find(t, req) <= l
      <3> HIDE DEF found
      <3>1. QED
        BY <2>2, <2>3
    <2>5. QED
      BY <2>4
  <1>3. QED
    BY <1>1, <1>2

LEMMA RoutingImplies == TableOK /\ Routed => MostSpecific
  <1> SUFFICES ASSUME TableOK, Routed, Handled PROVE MostSpecific
    BY DEF MostSpecific
  <1> DEFINE t == table[request.method]
             req == request.target
  <1>1. request.method \in Methods /\ chosen = Find(t, req) /\ t \in Seq(Routes)
        /\ \A k, l \in DOMAIN t : k < l => ~Before(t[l], t[k])
    BY DEF Handled, Routed, TableOK
  <1> HIDE DEF t, req
  <1>2. CASE chosen = NoRoute /\ \A k \in DOMAIN t : ~Match(t[k], req)
    BY <1>2 DEF MostSpecific, RoutesOf, t, req
  <1>3. CASE /\ chosen \in DOMAIN t /\ Match(t[chosen], req)
             /\ \A k \in DOMAIN t : Match(t[k], req) => chosen <= k
    <2>1. chosen # NoRoute /\ DOMAIN t = 1..Len(t) /\ Len(t) \in Nat
      BY <1>1, <1>3 DEF NoRoute
    <2>2. ASSUME NEW l \in DOMAIN t, Match(t[l], req), MoreSpecific(t[l], t[chosen])
          PROVE  FALSE
      <3> DEFINE r == t[chosen]
                 q == t[l]
      <3>1. r \in Routes /\ q \in Routes /\ chosen <= l
        BY <1>1, <1>3, <2>2
      <3>2. Len(r.path) = Len(q.path)
        BY <1>3, <2>2 DEF Match
      <3>3. Len(r.path) \in Nat /\ DOMAIN q.path = 1..Len(q.path)
        BY <3>1, RoutesAssumption
      <3>4. PICK i0 \in DOMAIN q.path :
              /\ ~q.path[i0].param /\ r.path[i0].param
              /\ \A j \in 1..(i0 - 1) : q.path[j].param = r.path[j].param
        BY <2>2 DEF MoreSpecific
      <3> HIDE DEF r, q
      <3>5. Costs(q.path)[Len(r.path)] < Costs(r.path)[Len(r.path)]
        BY <3>2, <3>3, <3>4, LeftmostDecides
      <3>6. Before(q, r)
        BY <3>2, <3>5 DEF Before, Cost
      <3>7. chosen # l
        BY <3>4 DEF r, q
      <3>8. QED
        BY <1>1, <1>3, <2>1, <3>1, <3>6, <3>7 DEF r, q
    <2>3. QED
      BY <1>3, <2>1, <2>2 DEF MostSpecific, RoutesOf, t, req
  <1>4. QED
    BY <1>1, <1>2, <1>3, FindIsFirst

\* For any routes, registered in any order, with std::sort as unstable as it
\* may be, a request gets a route as specific as any that matches it, and none
\* only if none matches.
THEOREM RouteIsMostSpecific == HSpec => []MostSpecific
  <1>1. QED
    BY RoutingInit, RoutingNext, RoutingImplies, PTL DEF HSpec

\* Handling a request runs its chain as MiddlewareChain says: what is proved of
\* the chain holds for a request that has been routed to it.
THEOREM HandlingRunsChain == HSpec => Spec
  <1>1. HInit => Init
    BY DEF HInit
  <1>2. [HNext]_hvars => [Next]_vars
    BY DEF HNext, Register, LookUp, RunChain, hvars
  <1>3. QED
    BY <1>1, <1>2, PTL DEF HSpec, Spec

----------------------------------------------------------------------------
(* The attributes of a request.                                            *)

LEMMA EmptyConcat ==
  ASSUME NEW T, NEW a \in Seq(T)
  PROVE  <<>> \o a = a
  OBVIOUS

\* Without '&' and '='.
PlainText(t) == t \in Seq(Tokens) /\ \A p \in 1..Len(t) : t[p] \notin {"&", "="}

LEMMA EscapeIsPlain ==
  ASSUME NEW v \in Seq(Tokens)
  PROVE  PlainText(Escape(v))
  <1>1. {"&", "="} \subseteq Unsafe \ {"%"}
    BY DEF Unsafe
  <1>2. QED
    BY <1>1, EscapeIsSafe DEF PlainText

\* A name and a value are one piece of the text and two pieces of it.
LEMMA SplitBinding ==
  ASSUME NEW a, NEW e, PlainText(a), PlainText(e)
  PROVE  LET b == a \o <<"=">> \o e IN
         /\ b \in Seq(Tokens) /\ b # <<>>
         /\ Split(b, "&") = <<b>>
         /\ Split(b, "=") = <<a, e>>
  <1> DEFINE c == a \o <<"=">>
             b == c \o e
  <1>1. a \in Seq(Tokens) /\ e \in Seq(Tokens) /\ "=" \in Tokens /\ "&" \in Tokens /\ <<"=">> \in Seq(Tokens)
        /\ Len(<<"=">>) = 1 /\ <<"=">>[1] = "="
    <2>1. "=" \in Tokens /\ "&" \in Tokens
      BY DEF Tokens, Unsafe
    <2>2. QED
      BY <2>1, Single DEF PlainText
  <1>2. /\ c \in Seq(Tokens) /\ Len(c) = Len(a) + 1
        /\ \A p \in 1..Len(a) : c[p] = a[p]
        /\ c[Len(a) + 1] = "="
    BY <1>1, PiecesOf
  <1> HIDE DEF c
  <1>3. /\ b \in Seq(Tokens) /\ Len(b) = Len(c) + Len(e)
        /\ \A p \in 1..Len(c) : b[p] = c[p]
        /\ \A p \in 1..Len(e) : b[Len(c) + p] = e[p]
    <2>1. c \in Seq(Tokens) /\ e \in Seq(Tokens)
      BY <1>1, <1>2
    <2>2. QED
      BY <2>1, PiecesOf
  <1>4. Split(b, "&") = <<b>>
    <2>1. ASSUME NEW p \in 1..Len(b) PROVE b[p] # "&"
      <3> HIDE DEF b
      <3>0. Len(a) \in Nat /\ Len(c) \in Nat /\ Len(e) \in Nat
        BY <1>1, <1>2
      <3>1. CASE p \in 1..Len(a)
        <4>1. p \in 1..Len(c) /\ b[p] = a[p]
          BY <1>2, <1>3, <3>0, <3>1
        <4>2. QED
          BY <3>1, <4>1 DEF PlainText
      <3>2. CASE p = Len(a) + 1
        <4>1. p \in 1..Len(c) /\ b[p] = "="
          BY <1>2, <1>3, <3>0, <3>2
        <4>2. QED
          BY <4>1
      <3>3. CASE p \notin 1..Len(a) /\ p # Len(a) + 1
        <4>1. p - Len(c) \in 1..Len(e) /\ p = Len(c) + (p - Len(c))
          BY <1>2, <1>3, <3>0, <3>3
        <4>2. b[p] = e[p - Len(c)]
          BY <1>3, <4>1
        <4>3. QED
          BY <4>1, <4>2 DEF PlainText
      <3>4. QED
        BY <3>1, <3>2, <3>3
    <2> HIDE DEF b
    <2>2. QED
      BY <1>3, <2>1, SplitPlain
  <1>5. Split(b, "=") = <<a, e>>
    <2>1. Split(a, "=") = <<a>> /\ Split(e, "=") = <<e>>
      BY SplitPlain DEF PlainText
    <2>2. Split(b, "=") = Split(a, "=") \o Split(e, "=")
      <3>1. Joins(b, a, "=", e)
        <4> HIDE DEF b
        <4>1. QED
          BY <1>1, <1>2, <1>3 DEF Joins
      <3> HIDE DEF b
      <3>2. QED
        BY <1>1, <1>3, <3>1, SplitConcat
    <2>3. <<a>> \o <<e>> = <<a, e>>
      BY PairConcat
    <2>4. QED
      BY <2>1, <2>2, <2>3
  <1>6. b # <<>>
    BY <1>1, <1>2, <1>3
  <1>7. QED
    BY <1>3, <1>4, <1>5, <1>6 DEF c

\* The values a text gives to a name, and one more behind them.
ValuesOf(text, a) == {Pairs(text)[k][2] : k \in Given(text, a)}

LEMMA PairsOf ==
  ASSUME NEW t \in Seq(Tokens)
  PROVE  /\ Split(t, "&") \in Seq(Seq(Tokens)) /\ Len(Split(t, "&")) \in Nat \ {0}
         /\ DOMAIN Pairs(t) = 1..Len(Split(t, "&"))
         /\ \A k \in DOMAIN Pairs(t) : Pairs(t)[k] = Split(Split(t, "&")[k], "=")
  <1>1. PICK m, f : Cuts(t, "&", Len(t), m, f)
    <2>1. Len(t) \in Nat
      OBVIOUS
    <2>2. QED
      BY <2>1, CutsExist
  <1>2. m \in Nat
    BY <1>1 DEF Cuts
  <1> DEFINE c == Split(t, "&")
  <1>3. c \in Seq(Seq(Tokens)) /\ Len(c) = m + 1
    BY <1>1, ColumnsAreTexts, SplitIsColumns
  <1>4. Pairs(t) = [k \in 1..Len(c) |-> Split(c[k], "=")]
    BY DEF Pairs
  <1> HIDE DEF c
  <1>5. QED
    BY <1>2, <1>3, <1>4 DEF c

LEMMA OnePair ==
  ASSUME NEW a, NEW e, PlainText(a), PlainText(e), NEW x
  PROVE  ValuesOf(a \o <<"=">> \o e, x) = IF x = a THEN {e} ELSE {}
  <1> DEFINE b == a \o <<"=">> \o e
  <1>1. b \in Seq(Tokens) /\ Split(b, "&") = <<b>> /\ Split(b, "=") = <<a, e>>
    BY SplitBinding
  <1> HIDE DEF b
  <1>2. DOMAIN Pairs(b) = {1} /\ Pairs(b)[1] = <<a, e>>
    <2>1. Len(<<b>>) = 1 /\ <<b>>[1] = b /\ 1..1 = {1}
      OBVIOUS
    <2>2. DOMAIN Pairs(b) = {1} /\ Pairs(b)[1] = Split(b, "=")
      BY <1>1, <2>1, PairsOf
    <2>3. QED
      BY <1>1, <2>2
  <1>3. Len(<<a, e>>) = 2 /\ <<a, e>>[1] = a /\ <<a, e>>[2] = e
    OBVIOUS
  <1>4. Given(b, x) = IF x = a THEN {1} ELSE {}
    BY <1>2, <1>3 DEF Given
  <1>5. ValuesOf(b, x) = IF x = a THEN {e} ELSE {}
    BY <1>2, <1>3, <1>4 DEF ValuesOf
  <1>6. QED
    BY <1>5 DEF b

\* What stands before and behind an '&' gives its values.
LEMMA PairsConcat ==
  ASSUME NEW t \in Seq(Tokens), NEW u \in Seq(Tokens), NEW a
  PROVE  LET w == t \o <<"&">> \o u IN
         /\ w \in Seq(Tokens) /\ w # <<>>
         /\ Given(t, a) \subseteq Given(w, a)
         /\ \A k \in DOMAIN Pairs(t) : k \in DOMAIN Pairs(w) /\ Pairs(w)[k] = Pairs(t)[k]
         /\ ValuesOf(w, a) = ValuesOf(t, a) \cup ValuesOf(u, a)
  <1> DEFINE w == t \o <<"&">> \o u
             c == Split(t, "&")
             d == Split(u, "&")
             e == Split(w, "&")
             m == Len(c)
             n == Len(d)
  <1>1. "&" \in Tokens /\ <<"&">> \in Seq(Tokens) /\ Len(<<"&">>) = 1
    <2>1. "&" \in Tokens
      BY DEF Tokens, Unsafe
    <2>2. QED
      BY <2>1, Single
  <1>2. w \in Seq(Tokens) /\ w # <<>>
    <2> DEFINE x == t \o <<"&">>
    <2>1. x \in Seq(Tokens) /\ Len(x) = Len(t) + 1
      BY <1>1, PiecesOf
    <2> HIDE DEF x
    <2>2. x \o u \in Seq(Tokens) /\ Len(x \o u) = Len(x) + Len(u)
      BY <2>1, PiecesOf
    <2>3. Len(t) \in Nat /\ Len(u) \in Nat
      OBVIOUS
    <2>4. QED
      BY <2>1, <2>2, <2>3 DEF x
  <1>3. e = c \o d
    <2>1. w \in Seq(Tokens) /\ Joins(w, t, "&", u)
      BY <1>1, JoinsText
    <2> HIDE DEF w
    <2>2. QED
      BY <1>1, <2>1, SplitConcat
  <1>4. /\ c \in Seq(Seq(Tokens)) /\ m \in Nat \ {0} /\ DOMAIN Pairs(t) = 1..m
        /\ \A k \in 1..m : Pairs(t)[k] = Split(c[k], "=")
    BY PairsOf
  <1>5. /\ d \in Seq(Seq(Tokens)) /\ n \in Nat \ {0} /\ DOMAIN Pairs(u) = 1..n
        /\ \A k \in 1..n : Pairs(u)[k] = Split(d[k], "=")
    BY PairsOf
  <1>6. /\ DOMAIN Pairs(w) = 1..Len(e)
        /\ \A k \in 1..Len(e) : Pairs(w)[k] = Split(e[k], "=")
    <2> HIDE DEF w
    <2>1. QED
      BY <1>2, PairsOf
  <1> HIDE DEF w, c, d, e
  <1>7. /\ Len(e) = m + n
        /\ \A k \in 1..m : e[k] = c[k]
        /\ \A k \in 1..n : e[m + k] = d[k]
    BY <1>3, <1>4, <1>5, PiecesOf
  <1>8. \A k \in 1..m : k \in DOMAIN Pairs(w) /\ Pairs(w)[k] = Pairs(t)[k]
    <2> HIDE DEF m, n
    <2> TAKE k \in 1..m
    <2>1. k \in 1..Len(e)
      BY <1>4, <1>5, <1>7
    <2>2. QED
      BY <1>4, <1>6, <1>7, <2>1
  <1>9. \A k \in 1..n : m + k \in DOMAIN Pairs(w) /\ Pairs(w)[m + k] = Pairs(u)[k]
    <2> HIDE DEF m, n
    <2> TAKE k \in 1..n
    <2>1. m + k \in 1..Len(e)
      BY <1>4, <1>5, <1>7
    <2>2. QED
      BY <1>5, <1>6, <1>7, <2>1
  <1> HIDE DEF m, n
  <1>10. \A k \in DOMAIN Pairs(w) : k \in 1..m \/ \E l \in 1..n : k = m + l
    <2> TAKE k \in DOMAIN Pairs(w)
    <2>1. k \in 1..(m + n)
      BY <1>6, <1>7
    <2>2. k \notin 1..m => k - m \in 1..n /\ k = m + (k - m)
      BY <1>4, <1>5, <2>1
    <2>3. QED
      BY <2>2
  <1>11. Given(t, a) \subseteq Given(w, a)
    BY <1>4, <1>8 DEF Given
  <1>12. ValuesOf(w, a) = ValuesOf(t, a) \cup ValuesOf(u, a)
    <2>1. \A k \in 1..m : k \in Given(w, a) <=> k \in Given(t, a)
      BY <1>4, <1>8 DEF Given
    <2>2. \A k \in 1..n : m + k \in Given(w, a) <=> k \in Given(u, a)
      BY <1>5, <1>9 DEF Given
    <2>3. ASSUME NEW y \in ValuesOf(w, a) PROVE y \in ValuesOf(t, a) \cup ValuesOf(u, a)
      <3>1. PICK k \in Given(w, a) : y = Pairs(w)[k][2]
        BY <2>3 DEF ValuesOf
      <3>2. k \in DOMAIN Pairs(w)
        BY DEF Given
      <3>3. CASE k \in 1..m
        BY <1>8, <2>1, <3>1, <3>3 DEF ValuesOf
      <3>4. CASE \E l \in 1..n : k = m + l
        <4>1. PICK l \in 1..n : k = m + l
          BY <3>4
        <4>2. l \in Given(u, a) /\ y = Pairs(u)[l][2]
          BY <1>9, <2>2, <3>1, <4>1
        <4>3. QED
          BY <4>2 DEF ValuesOf
      <3>5. QED
        BY <1>10, <3>2, <3>3, <3>4
    <2>4. ASSUME NEW y \in ValuesOf(t, a) PROVE y \in ValuesOf(w, a)
      <3>1. PICK k \in Given(t, a) : y = Pairs(t)[k][2]
        BY <2>4 DEF ValuesOf
      <3>2. k \in 1..m
        BY <1>4 DEF Given
      <3>3. QED
        BY <1>8, <2>1, <3>1, <3>2 DEF ValuesOf
    <2>5. ASSUME NEW y \in ValuesOf(u, a) PROVE y \in ValuesOf(w, a)
      <3>1. PICK k \in Given(u, a) : y = Pairs(u)[k][2]
        BY <2>5 DEF ValuesOf
      <3>2. k \in 1..n
        BY <1>5 DEF Given
      <3>3. QED
        BY <1>9, <2>2, <3>1, <3>2 DEF ValuesOf
    <2>6. QED
      BY <2>3, <2>4, <2>5
  <1>13. QED
    BY <1>2, <1>4, <1>8, <1>11, <1>12 DEF w

\* A text with a piece more.
More(t, b) == t \o (IF t = <<>> THEN <<>> ELSE <<"&">>) \o b

LEMMA MoreText ==
  ASSUME NEW t \in Seq(Tokens), NEW b \in Seq(Tokens), b # <<>>
  PROVE  /\ More(t, b) \in Seq(Tokens)
         /\ t = <<>> => More(t, b) = b
         /\ t # <<>> => More(t, b) = t \o <<"&">> \o b
  <1>1. CASE t = <<>>
    <2>1. More(t, b) = t \o t \o b
      BY <1>1 DEF More
    <2>2. t \o t = t /\ t \o b = b
      BY <1>1, EmptyConcat
    <2>3. QED
      BY <1>1, <2>1, <2>2
  <1>2. CASE t # <<>>
    <2>1. More(t, b) = t \o <<"&">> \o b
      BY <1>2 DEF More
    <2>2. t \o <<"&">> \o b \in Seq(Tokens)
      BY PairsConcat
    <2>3. QED
      BY <1>2, <2>1, <2>2
  <1>3. QED
    BY <1>1, <1>2

LEMMA NoValues ==
  ASSUME NEW a
  PROVE  ValuesOf(<<>>, a) = {}
  <1> DEFINE t == <<>>
  <1>1. t \in Seq(Tokens) /\ Len(t) = 0
    OBVIOUS
  <1> HIDE DEF t
  <1>2. Split(t, "&") = <<t>> /\ Split(t, "=") = <<t>>
    <2>1. \A p \in 1..Len(t) : FALSE
      BY <1>1
    <2>2. QED
      BY <1>1, <2>1, SplitPlain
  <1> DEFINE c == <<t>>
  <1>3. Len(c) = 1 /\ c[1] = t /\ 1..1 = {1}
    OBVIOUS
  <1>4. Split(t, "&") = c /\ Split(t, "=") = c
    BY <1>2
  <1> HIDE DEF c
  <1>5. \A k \in DOMAIN Pairs(t) : Len(Pairs(t)[k]) = 1
    <2>1. DOMAIN Pairs(t) = {1} /\ Pairs(t)[1] = Split(c[1], "=")
      <3>1. /\ DOMAIN Pairs(t) = 1..Len(c)
            /\ \A k \in DOMAIN Pairs(t) : Pairs(t)[k] = Split(c[k], "=")
        <4>1. t \in Seq(Tokens)
          BY <1>1
        <4>2. /\ DOMAIN Pairs(t) = 1..Len(Split(t, "&"))
              /\ \A k \in DOMAIN Pairs(t) : Pairs(t)[k] = Split(Split(t, "&")[k], "=")
          BY <4>1, PairsOf
        <4>3. QED
          BY <1>4, <4>2
      <3>2. QED
        BY <1>3, <3>1
    <2>2. QED
      BY <1>3, <1>4, <2>1
  <1>6. Given(t, a) = {}
    BY <1>5 DEF Given
  <1>7. ValuesOf(t, a) = {}
    BY <1>6 DEF ValuesOf
  <1>8. QED
    BY <1>7 DEF t

\* A parameter adds its value to those of its name, and what stood first in
\* the text stays there.
LEMMA MoreValues ==
  ASSUME NEW t \in Seq(Tokens), NEW b \in Seq(Tokens), b # <<>>, NEW a
  PROVE  /\ ValuesOf(More(t, b), a) = ValuesOf(t, a) \cup ValuesOf(b, a)
         /\ t # <<>> => Pairs(More(t, b))[1] = Pairs(t)[1]
  <1>1. CASE t = <<>>
    BY <1>1, MoreText, NoValues
  <1>2. CASE t # <<>>
    <2> DEFINE w == More(t, b)
    <2>1. w = t \o <<"&">> \o b
      BY <1>2, MoreText
    <2>2. /\ ValuesOf(w, a) = ValuesOf(t, a) \cup ValuesOf(b, a)
          /\ \A k \in DOMAIN Pairs(t) : Pairs(w)[k] = Pairs(t)[k]
      BY <2>1, PairsConcat
    <2>3. 1 \in DOMAIN Pairs(t)
      BY PairsOf
    <2>4. QED
      BY <2>2, <2>3
  <1>3. QED
    BY <1>1, <1>2

\* The texts the loop of match() goes through, from the query on.
Texts(r, req, f) ==
    /\ f \in [0..Len(r.path) -> Seq(Tokens)]
    /\ f[0] = req.query
    /\ \A n \in 1..Len(r.path) :
         f[n] = IF r.path[n].param THEN More(f[n - 1], Binding(r, req, n)) ELSE f[n - 1]

\* A route and a request it matches, made of texts.
Readable(r, req) ==
    /\ Len(r.path) \in Nat
    /\ req.query \in Seq(Tokens)
    /\ \A n \in 1..Len(r.path) : r.path[n].param =>
         r.path[n].name \in Seq(Tokens) /\ req.columns[n] \in Seq(Tokens)

LEMMA BindingText ==
  ASSUME NEW r, NEW req, Readable(r, req), NEW n \in 1..Len(r.path), r.path[n].param
  PROVE  Binding(r, req, n) \in Seq(Tokens) /\ Binding(r, req, n) # <<>>
  <1> DEFINE a == r.path[n].name
             e == req.columns[n]
             b == a \o <<"=">> \o e
  <1>1. a \in Seq(Tokens) /\ e \in Seq(Tokens) /\ "=" \in Tokens
    BY DEF Readable, Tokens, Unsafe
  <1>2. Binding(r, req, n) = b
    BY DEF Binding
  <1> HIDE DEF a, e
  <1>3. b \in Seq(Tokens) /\ Joins(b, a, "=", e)
    BY <1>1, JoinsText
  <1> HIDE DEF b
  <1>4. Len(b) = Len(a) + 1 + Len(e) /\ Len(a) \in Nat /\ Len(e) \in Nat
    BY <1>1, <1>3 DEF Joins
  <1>5. QED
    BY <1>2, <1>3, <1>4

LEMMA AttributeTextIsLast ==
  ASSUME NEW r, NEW req, Readable(r, req)
  PROVE  \E f : Texts(r, req, f) /\ AttributeText(r, req) = f[Len(r.path)]
  <1> DEFINE n == Len(r.path)
             S == Seq(Tokens)
             Step(k, t) == IF r.path[k].param THEN More(t, Binding(r, req, k)) ELSE t
             G == [k \in 1..n |-> [t \in S |-> Step(k, t)]]
             Eq(f) == f = [k \in 0..n |-> IF k = 0 THEN req.query
                                          ELSE IF ~r.path[k].param THEN f[k - 1]
                                          ELSE f[k - 1] \o (IF f[k - 1] = <<>> THEN <<>> ELSE <<"&">>) \o Binding(r, req, k)]
             e == CHOOSE f : Eq(f)
  <1>1. n \in Nat /\ req.query \in S
    BY DEF Readable
  <1>2. G \in [1..n -> [S -> S]]
    <2>1. \A k \in 1..n : \A t \in S : Step(k, t) \in S
      <3> TAKE k \in 1..n
      <3> TAKE t \in S
      <3>1. CASE r.path[k].param
        BY <3>1, BindingText, MoreText
      <3>2. CASE ~r.path[k].param
        BY <3>2
      <3>3. QED
        BY <3>1, <3>2
    <2> HIDE DEF Step
    <2>2. QED
      BY <2>1
  <1>3. PICK f : Loop(f, n, S, req.query, G)
    <2> HIDE DEF G, S, n
    <2>1. QED
      BY <1>1, <1>2, LoopExists
  <1>4. f \in [0..n -> S] /\ f[0] = req.query /\ \A k \in 1..n : f[k] = Step(k, f[k - 1])
    <2>1. f \in [0..n -> S] /\ f[0] = req.query /\ \A k \in 1..n : f[k] = G[k][f[k - 1]]
      BY <1>3 DEF Loop
    <2>2. ASSUME NEW k \in 1..n PROVE f[k] = Step(k, f[k - 1])
      <3>1. k - 1 \in 0..n
        BY <1>1
      <3>2. f[k - 1] \in S
        BY <2>1, <3>1
      <3> HIDE DEF Step
      <3>3. QED
        BY <2>1, <3>2
    <2>3. QED
      BY <2>1, <2>2
  <1> HIDE DEF G
  <1>5. Texts(r, req, f)
    BY <1>4 DEF Texts
  <1>6. Eq(f)
    <2>1. \A k \in 0..n : k # 0 => k \in 1..n
      BY <1>1
    <2>2. \A k \in 1..n : Step(k, f[k - 1]) =
                            IF ~r.path[k].param THEN f[k - 1]
                            ELSE f[k - 1] \o (IF f[k - 1] = <<>> THEN <<>> ELSE <<"&">>) \o Binding(r, req, k)
      BY DEF More
    <2> HIDE DEF Step
    <2>3. \A k \in 0..n : f[k] = IF k = 0 THEN req.query
                                 ELSE IF ~r.path[k].param THEN f[k - 1]
                                 ELSE f[k - 1] \o (IF f[k - 1] = <<>> THEN <<>> ELSE <<"&">>) \o Binding(r, req, k)
      BY <1>4, <2>1, <2>2
    <2>4. f \in [0..n -> S]
      BY <1>4
    <2> HIDE DEF n, S
    <2>5. QED
      BY <2>3, <2>4
  <1>7. Eq(e)
    <2> HIDE DEF Eq
    <2>1. QED
      BY <1>6
  <1>8. AttributeText(r, req) = e[Len(r.path)]
    BY DEF AttributeText
  <1> HIDE DEF e
  <1>9. \A k \in 0..n : e[k] = f[k]
    <2> DEFINE D == {k \in 0..n : e[k] = f[k]}
    <2>1. 0 \in D
      BY <1>1, <1>4, <1>7
    <2>2. ASSUME NEW k \in 1..n, k - 1 \in D PROVE k \in D
      <3>1. k \in 0..n /\ k # 0 /\ e[k - 1] = f[k - 1]
        BY <1>1, <2>2
      <3>2. e[k] = IF ~r.path[k].param THEN e[k - 1]
                   ELSE e[k - 1] \o (IF e[k - 1] = <<>> THEN <<>> ELSE <<"&">>) \o Binding(r, req, k)
        BY <1>7, <3>1
      <3>3. f[k] = Step(k, f[k - 1])
        BY <1>4
      <3>4. e[k] = Step(k, f[k - 1])
        BY <3>1, <3>2 DEF More
      <3> HIDE DEF Step
      <3>5. QED
        BY <3>1, <3>3, <3>4
    <2>3. 0..n \subseteq D
      <3> HIDE DEF D, n
      <3>1. QED
        BY <1>1, <2>1, <2>2, Induction
    <2>4. QED
      BY <2>3
  <1>10. AttributeText(r, req) = f[n]
    BY <1>1, <1>8, <1>9
  <1>11. QED
    BY <1>5, <1>10

LEMMA AttributeOf ==
  ASSUME NEW r, NEW req, NEW a \in Names, NEW given, given = Given(AttributeText(r, req), a)
  PROVE  /\ given = {} => Attributes(r, req)[a] = <<>>
         /\ given # {} => \E k \in given :
               /\ \A l \in given : k <= l
               /\ Attributes(r, req)[a] = Unescape(Pairs(AttributeText(r, req))[k][2])
  <1> DEFINE text == AttributeText(r, req)
             first == CHOOSE k \in given : \A l \in given : k <= l
  <1>1. Attributes(r, req)[a] = IF given = {} THEN <<>> ELSE Unescape(Pairs(text)[first][2])
    BY DEF Attributes
  <1>2. given \subseteq Nat
    BY DEF Given, Pairs
  <1>3. CASE given # {}
    <2>1. \E k \in given : \A l \in given : k <= l
      BY <1>2, <1>3, Smallest
    <2>2. first \in given /\ \A l \in given : first <= l
      BY <2>1
    <2> HIDE DEF text, first
    <2>3. QED
      BY <1>1, <1>3, <2>2 DEF text
  <1>4. CASE given = {}
    BY <1>1, <1>4
  <1>5. QED
    BY <1>3, <1>4

\* A value that the query gives, and nothing else, is the attribute.
LEMMA QueryIsBound ==
  ASSUME NEW r, NEW req, Readable(r, req), NEW a \in Names, PlainText(a), NEW v \in Seq(Tokens),
         req.query = a \o <<"=">> \o Escape(v)
  PROVE  Attributes(r, req)[a] = v
  <1> DEFINE n == Len(r.path)
             e == Escape(v)
             q == req.query
             text == AttributeText(r, req)
  <1>1. PlainText(e) /\ Unescape(e) = v
    BY EscapeIsPlain, UnescapeEscape
  <1>2. /\ q \in Seq(Tokens) /\ q # <<>>
        /\ DOMAIN Pairs(q) = 1..1 /\ Pairs(q)[1] = <<a, e>>
    <2> HIDE DEF e
    <2>1. q \in Seq(Tokens) /\ q # <<>> /\ Split(q, "&") = <<q>> /\ Split(q, "=") = <<a, e>>
      BY <1>1, SplitBinding DEF e
    <2> DEFINE c == <<q>>
    <2>2. Len(c) = 1 /\ c[1] = q
      OBVIOUS
    <2>3. Split(q, "&") = c
      BY <2>1
    <2> HIDE DEF c, q
    <2>4. DOMAIN Pairs(q) = 1..1 /\ Pairs(q)[1] = Split(c[1], "=")
      BY <2>1, <2>2, <2>3, PairsOf
    <2>5. QED
      BY <2>1, <2>2, <2>4
  <1>3. PICK f : Texts(r, req, f) /\ text = f[n]
    BY AttributeTextIsLast
  <1>4. /\ n \in Nat /\ f \in [0..n -> Seq(Tokens)] /\ f[0] = q
        /\ \A k \in 1..n : f[k] = IF r.path[k].param THEN More(f[k - 1], Binding(r, req, k)) ELSE f[k - 1]
    BY <1>3 DEF Texts, Readable
  <1> HIDE DEF q, e, n, text
  <1> DEFINE Kept(t) == t # <<>> /\ Pairs(t)[1] = <<a, e>>
             S == {k \in 0..n : Kept(f[k])}
  <1>5. 0 \in S
    BY <1>2, <1>4
  <1>6. ASSUME NEW k \in 1..n, k - 1 \in S PROVE k \in S
    <2> DEFINE t == f[k - 1]
               b == Binding(r, req, k)
    <2>1. t \in Seq(Tokens) /\ Kept(t) /\ k \in 0..n
      BY <1>4, <1>6
    <2>2. CASE r.path[k].param
      <3>1. b \in Seq(Tokens) /\ b # <<>>
        BY <2>2, BindingText DEF n
      <3>2. f[k] = More(t, b)
        BY <1>4, <2>2
      <3> HIDE DEF t, b
      <3>3. More(t, b) = t \o <<"&">> \o b /\ Pairs(More(t, b))[1] = Pairs(t)[1]
        BY <2>1, <3>1, MoreText, MoreValues
      <3>4. More(t, b) # <<>>
        BY <2>1, <3>1, <3>3, PairsConcat
      <3>5. Kept(f[k])
        BY <2>1, <3>2, <3>3, <3>4
      <3>6. QED
        BY <2>1, <3>5
    <2>3. CASE ~r.path[k].param
      BY <1>4, <2>1, <2>3
    <2>4. QED
      BY <2>2, <2>3
  <1>7. 0..n \subseteq S
    <2> HIDE DEF S
    <2>1. QED
      BY <1>4, <1>5, <1>6, Induction
  <1>8. text \in Seq(Tokens) /\ Pairs(text)[1] = <<a, e>>
    BY <1>3, <1>4, <1>7
  <1>9. Len(<<a, e>>) = 2 /\ <<a, e>>[1] = a /\ <<a, e>>[2] = e
    OBVIOUS
  <1>10. 1 \in Given(text, a)
    <2>1. 1 \in DOMAIN Pairs(text)
      BY <1>8, PairsOf
    <2>2. QED
      BY <1>8, <1>9, <2>1 DEF Given
  <1>11. \A k \in Given(text, a) : k \in Nat /\ k >= 1
    BY DEF Given, Pairs
  <1>12. PICK k \in Given(text, a) :
            /\ \A l \in Given(text, a) : k <= l
            /\ Attributes(r, req)[a] = Unescape(Pairs(text)[k][2])
    BY <1>10, AttributeOf DEF text
  <1>13. k = 1
    BY <1>10, <1>11, <1>12
  <1>14. QED
    BY <1>1, <1>8, <1>9, <1>12, <1>13

\* A parameter whose name nothing else has is bound to the value of its segment.
LEMMA ParameterIsBound ==
  ASSUME NEW r, NEW req, Readable(r, req), NEW a \in Names,
         \A n \in 1..Len(r.path) : r.path[n].param =>
            /\ PlainText(r.path[n].name)
            /\ \E v \in Seq(Tokens) : req.columns[n] = Escape(v),
         Given(req.query, a) = {}
  PROVE  LET mine == {n \in 1..Len(r.path) : r.path[n].param /\ r.path[n].name = a} IN
         /\ mine = {} => Attributes(r, req)[a] = <<>>
         /\ \A n \in mine, v \in Seq(Tokens) :
              mine = {n} /\ req.columns[n] = Escape(v) => Attributes(r, req)[a] = v
  <1> DEFINE n == Len(r.path)
             text == AttributeText(r, req)
             mine == {k \in 1..n : r.path[k].param /\ r.path[k].name = a}
             Mine(m) == {req.columns[k] : k \in {j \in mine : j <= m}}
  <1>1. PICK f : Texts(r, req, f) /\ text = f[n]
    BY AttributeTextIsLast
  <1>2. /\ n \in Nat /\ f \in [0..n -> Seq(Tokens)] /\ f[0] = req.query
        /\ \A k \in 1..n : f[k] = IF r.path[k].param THEN More(f[k - 1], Binding(r, req, k)) ELSE f[k - 1]
    BY <1>1 DEF Texts, Readable
  <1> DEFINE S == {m \in 0..n : ValuesOf(f[m], a) = Mine(m)}
  <1>3. 0 \in S
    <2>1. Mine(0) = {}
      OBVIOUS
    <2>2. ValuesOf(f[0], a) = {}
      BY <1>2 DEF ValuesOf
    <2>3. QED
      BY <1>2, <2>1, <2>2
  <1>4. ASSUME NEW m \in 1..n, m - 1 \in S PROVE m \in S
    <2> DEFINE t == f[m - 1]
               b == Binding(r, req, m)
               x == r.path[m].name
               e == req.columns[m]
    <2>1. t \in Seq(Tokens) /\ ValuesOf(t, a) = Mine(m - 1) /\ m \in 0..n
      <3>1. m - 1 \in 0..n /\ m \in 0..n
        BY <1>2
      <3>2. QED
        BY <1>2, <1>4, <3>1
    <2>2. CASE r.path[m].param
      <3>1. PlainText(x) /\ PlainText(e)
        BY <2>2, EscapeIsPlain
      <3>2. b \in Seq(Tokens) /\ b # <<>>
        BY <2>2, BindingText
      <3>3. f[m] = More(t, b)
        BY <1>2, <2>2
      <3>4. b = x \o <<"=">> \o e
        BY DEF Binding
      <3> HIDE DEF t, b, x, e
      <3>5. ValuesOf(b, a) = IF a = x THEN {e} ELSE {}
        BY <3>1, <3>4, OnePair
      <3>6. ValuesOf(f[m], a) = Mine(m - 1) \cup IF a = x THEN {e} ELSE {}
        BY <2>1, <3>2, <3>3, <3>5, MoreValues
      <3>7. Mine(m) = Mine(m - 1) \cup IF a = x THEN {e} ELSE {}
        <4>1. {j \in mine : j <= m} = {j \in mine : j <= m - 1} \cup IF a = x THEN {m} ELSE {}
          BY <1>2, <2>2 DEF x
        <4>2. QED
          BY <4>1 DEF e
      <3>8. QED
        BY <2>1, <3>6, <3>7
    <2>3. CASE ~r.path[m].param
      <3>1. {j \in mine : j <= m} = {j \in mine : j <= m - 1}
        BY <1>2, <2>3
      <3>2. f[m] = t
        BY <1>2, <2>3
      <3>3. QED
        BY <2>1, <3>1, <3>2
    <2>4. QED
      BY <2>2, <2>3
  <1>5. 0..n \subseteq S
    <2> HIDE DEF S, n
    <2>1. QED
      BY <1>2, <1>3, <1>4, Induction
  <1>6. ValuesOf(text, a) = {req.columns[k] : k \in mine}
    <2>1. ValuesOf(f[n], a) = Mine(n)
      <3>1. n \in 0..n
        BY <1>2
      <3>2. n \in S
        <4> HIDE DEF S, n
        <4>1. QED
          BY <1>5, <3>1
      <3>3. QED
        BY <3>2
    <2>2. {j \in mine : j <= n} = mine
      BY <1>2
    <2>3. QED
      BY <1>1, <2>1, <2>2
  <1> HIDE DEF text, mine
  <1>7. mine = {} => Attributes(r, req)[a] = <<>>
    <2> SUFFICES ASSUME mine = {} PROVE Attributes(r, req)[a] = <<>>
      OBVIOUS
    <2>1. \A k \in Given(text, a) : Pairs(text)[k][2] \in ValuesOf(text, a)
      BY DEF ValuesOf
    <2>2. ValuesOf(text, a) = {}
      BY <1>6
    <2>3. Given(text, a) = {}
      BY <2>1, <2>2
    <2>4. QED
      BY <2>3, AttributeOf DEF text
  <1>8. ASSUME NEW k \in mine, NEW v \in Seq(Tokens), mine = {k}, req.columns[k] = Escape(v)
        PROVE  Attributes(r, req)[a] = v
    <2>1. ValuesOf(text, a) = {Escape(v)}
      BY <1>6, <1>8
    <2>2. Given(text, a) # {}
      BY <2>1 DEF ValuesOf
    <2>3. PICK l \in Given(text, a) : Attributes(r, req)[a] = Unescape(Pairs(text)[l][2])
      BY <2>2, AttributeOf DEF text
    <2>4. Pairs(text)[l][2] = Escape(v)
      BY <2>1 DEF ValuesOf
    <2>5. QED
      BY <2>3, <2>4, UnescapeEscape
  <1>9. QED
    BY <1>7, <1>8 DEF mine

\* What a request has been given, once its route is known.
Bound ==
    request = NoRequest
        \/ /\ request.target \in Targets
           /\ attrs = IF chosen = NoRoute THEN NoAttributes
                      ELSE Attributes(table[request.method][chosen], request.target)

LEMMA BoundNext == Bound /\ [HNext]_hvars => Bound'
  <1> SUFFICES ASSUME Bound, [HNext]_hvars PROVE Bound'
    OBVIOUS
  <1>1. ASSUME NEW v \in Methods, NEW r \in Routes, Register(v, r) PROVE Bound'
    BY <1>1 DEF Register, Bound
  <1>2. ASSUME NEW v \in Methods, NEW req \in Targets, LookUp(v, req) PROVE Bound'
    <2>1. /\ table' = table /\ request' = [method |-> v, target |-> req]
          /\ chosen' = Find(table[v], req)
          /\ attrs' = IF Find(table[v], req) = NoRoute THEN NoAttributes
                      ELSE Attributes(table[v][Find(table[v], req)], req)
      BY <1>2 DEF LookUp
    <2>2. request'.method = v /\ request'.target = req
      BY <2>1
    <2>3. QED
      BY <2>1, <2>2 DEF Bound
  <1>3. CASE RunChain \/ UNCHANGED hvars
    <2>1. UNCHANGED <<table, request, chosen, attrs>>
      BY <1>3 DEF RunChain, hvars
    <2>2. QED
      BY <2>1 DEF Bound
  <1>4. QED
    BY <1>1, <1>2, <1>3 DEF HNext

LEMMA StringsAreTexts == Seq(STRING) \subseteq Seq(Tokens)
  BY SeqGrows DEF Tokens

\* A route that matches a request makes it readable.
LEMMA MatchIsReadable ==
  ASSUME NEW r \in Routes, NEW req \in Targets, Match(r, req)
  PROVE  /\ Readable(r, req)
         /\ DOMAIN r.path = 1..Len(r.path)
  <1>1. /\ r.path \in Seq([param : BOOLEAN, name : Seq(STRING)])
        /\ req.columns \in Seq(Seq(STRING)) /\ req.query \in Seq(STRING)
    BY RoutesAssumption, TextsAssumption
  <1>2. Len(r.path) = Len(req.columns)
    BY DEF Match
  <1> DEFINE path == r.path
             columns == req.columns
  <1>3. /\ DOMAIN path = 1..Len(path) /\ Len(path) \in Nat
        /\ \A n \in 1..Len(path) : path[n].name \in Seq(STRING) /\ columns[n] \in Seq(STRING)
    <2>1. path \in Seq([param : BOOLEAN, name : Seq(STRING)]) /\ columns \in Seq(Seq(STRING))
          /\ Len(path) = Len(columns)
      BY <1>1, <1>2
    <2> DEFINE R == [param : BOOLEAN, name : Seq(STRING)]
               S == Seq(STRING)
    <2>2. \A x \in R : x.name \in S
      OBVIOUS
    <2>3. path \in Seq(R) /\ columns \in Seq(S)
      BY <2>1
    <2> HIDE DEF path, columns, R, S
    <2>4. /\ DOMAIN path = 1..Len(path) /\ Len(path) \in Nat
          /\ \A n \in 1..Len(path) : path[n] \in R /\ columns[n] \in S
      BY <2>1, <2>3
    <2>5. QED
      BY <2>2, <2>4 DEF S
  <1>4. Seq(STRING) \subseteq Seq(Tokens)
    BY StringsAreTexts
  <1>5. QED
    BY <1>1, <1>3, <1>4 DEF Readable

LEMMA BoundImplies ==
  ASSUME PlainNames, TableOK, Routed, Bound
  PROVE  ParametersBound
  <1> SUFFICES ASSUME Handled, chosen # NoRoute PROVE ParametersBound
    BY DEF ParametersBound
  <1> DEFINE t == table[request.method]
             r == t[chosen]
             req == request.target
             Parameters == {n \in DOMAIN r.path : r.path[n].param}
  <1>1. /\ t \in Seq(Routes) /\ req \in Targets
        /\ chosen = Find(t, req) /\ attrs = Attributes(r, req)
    BY DEF Handled, Routed, Bound, TableOK
  <1>2. r \in Routes /\ Match(r, req)
    <2> HIDE DEF t, req
    <2>1. chosen \in DOMAIN t /\ Match(t[chosen], req)
      BY <1>1, FindIsFirst
    <2>2. QED
      BY <1>1, <2>1
  <1> HIDE DEF r, req
  <1>3. Readable(r, req) /\ DOMAIN r.path = 1..Len(r.path)
    BY <1>1, <1>2, MatchIsReadable
  <1>4. Seq(STRING) \subseteq Seq(Tokens)
    BY StringsAreTexts
  <1>5. Names \subseteq Seq(Tokens) /\ Values \subseteq Seq(Tokens)
    BY <1>4, TextsAssumption
  <1>6. \A a \in Names : PlainText(a)
    BY <1>5 DEF PlainNames, PlainText
  <1>7. \A n \in 1..Len(r.path) : r.path[n].param => PlainText(r.path[n].name)
    BY <1>2, <1>3 DEF PlainNames, PlainText, Readable
  <1>8. \A v \in Values : Sent[v] = Escape(v)
    BY DEF Sent
  <1>9. ASSUME NEW a \in Names, NEW v \in Values, req.query = a \o <<"=">> \o Sent[v]
        PROVE  attrs[a] = v
    <2>1. v \in Seq(Tokens) /\ req.query = a \o <<"=">> \o Escape(v)
      BY <1>5, <1>8, <1>9
    <2>2. Attributes(r, req)[a] = v
      BY <1>3, <1>6, <2>1, QueryIsBound
    <2>3. QED
      BY <1>1, <2>2
  <1>10. ASSUME NEW a \in Names, Given(req.query, a) = {},
                \A n \in Parameters : \E v \in Values : req.columns[n] = Sent[v]
         PROVE  LET mine == {n \in Parameters : r.path[n].name = a} IN
                /\ mine = {} => attrs[a] = <<>>
                /\ \A n \in mine, v \in Values :
                     mine = {n} /\ req.columns[n] = Sent[v] => attrs[a] = v
    <2> DEFINE mine == {n \in 1..Len(r.path) : r.path[n].param /\ r.path[n].name = a}
    <2>1. \A n \in 1..Len(r.path) : r.path[n].param =>
            /\ PlainText(r.path[n].name)
            /\ \E v \in Seq(Tokens) : req.columns[n] = Escape(v)
      BY <1>3, <1>5, <1>7, <1>8, <1>10
    <2>2. /\ mine = {} => Attributes(r, req)[a] = <<>>
          /\ \A n \in mine, v \in Seq(Tokens) :
               mine = {n} /\ req.columns[n] = Escape(v) => Attributes(r, req)[a] = v
      BY <1>3, <1>10, <2>1, ParameterIsBound
    <2>3. mine = {n \in Parameters : r.path[n].name = a}
      BY <1>3
    <2> HIDE DEF mine
    <2>4. mine = {} => attrs[a] = <<>>
      BY <1>1, <2>2
    <2>5. ASSUME NEW n \in mine, NEW v \in Values, mine = {n}, req.columns[n] = Sent[v]
          PROVE  attrs[a] = v
      BY <1>1, <1>5, <1>8, <2>2, <2>5
    <2>6. QED
      BY <2>3, <2>4, <2>5
  <1>11. QED
    BY <1>9, <1>10 DEF ParametersBound, r, t, req

\* A value that a client escapes, in the query or in the path, is the one the
\* handler of the chosen route reads, whatever characters are in it and whatever
\* routes were tried before, if the names have neither '&' nor '=' in them.
THEOREM AttributesAreBound ==
  ASSUME PlainNames
  PROVE  HSpec => []ParametersBound
  <1>1. HInit => Bound
    BY DEF HInit, Bound
  <1>2. TableOK /\ Routed /\ Bound => ParametersBound
    BY BoundImplies
  <1>3. QED
    BY <1>1, <1>2, RoutingInit, RoutingNext, BoundNext, PTL DEF HSpec
====
