----------------------------- MODULE DataProofs -----------------------------
(***************************************************************************)
(* Lemmas about the data of the models that the proofs of several of them  *)
(* need: loops, tasks that wait on a queue (TaskQueue) and texts (Utils).  *)
(***************************************************************************)
EXTENDS TaskQueue, Utils, FiniteSetTheorems, TLAPS

----------------------------------------------------------------------------
(* What a loop computes.  An induction is the absence of a smallest        *)
(* counterexample, of which the library knows that it exists for finite    *)
(* sets: the number m stands for the set 0..m.                             *)
LEMMA Smallest ==
  ASSUME NEW T, T \subseteq Nat, T # {}
  PROVE  \E m \in T : \A l \in T : m <= l
  <1> DEFINE R == StrictSubsetOrdering(Nat)
             Sets == {0..k : k \in T}
  <1>1. \A k \in T : 0..k \in FiniteSubsetsOf(Nat)
    <2> TAKE k \in T
    <2>1. IsFiniteSet(0..k) /\ 0..k \in SUBSET Nat
      BY FS_Interval
    <2>2. QED
      BY <2>1 DEF FiniteSubsetsOf
  <1>2. Sets \subseteq FiniteSubsetsOf(Nat) /\ Sets # {}
    BY <1>1
  <1>3. IsWellFoundedOn(R, FiniteSubsetsOf(Nat))
    BY FS_StrictSubsetOrderingWellFounded
  <1>4. \E x \in Sets : \A y \in Sets : <<y, x>> \notin R
    <2> HIDE DEF R, Sets
    <2>1. QED
      BY <1>2, <1>3, WFMin
  <1>5. PICK m \in T : \A y \in Sets : <<y, 0..m>> \notin R
    BY <1>4
  <1>6. ASSUME NEW l \in T PROVE m <= l
    <2>1. <<0..l, 0..m>> \notin R
      BY <1>5
    <2>2. CASE l < m
      <3>1. 0..l \subseteq 0..m /\ m \in 0..m /\ m \notin 0..l
        BY <2>2
      <3>2. 0..l \in SUBSET Nat /\ 0..m \in SUBSET Nat /\ 0..l # 0..m
        BY <3>1
      <3>3. QED
        BY <2>1, <3>1, <3>2 DEF StrictSubsetOrdering
    <2>3. QED
      BY <2>2
  <1>7. QED
    BY <1>6

LEMMA Induction ==
  ASSUME NEW n \in Nat, NEW S, 0 \in S, \A k \in 1..n : k - 1 \in S => k \in S
  PROVE  0..n \subseteq S
  <1> DEFINE T == {k \in 0..n : k \notin S}
  <1>1. SUFFICES ASSUME T # {} PROVE FALSE
    BY DEF T
  <1>2. PICK m \in T : \A l \in T : m <= l
    <2>1. T \subseteq Nat
      OBVIOUS
    <2> HIDE DEF T
    <2>2. QED
      BY <1>1, <2>1, Smallest
  <1>3. m \in 1..n /\ m - 1 \in 0..n /\ m \notin S
    BY <1>2
  <1>4. m - 1 \notin T
    BY <1>2, <1>3
  <1>5. QED
    BY <1>3, <1>4

\* The values f of a loop with m steps G, from base on.
Loop(f, m, S, base, G) ==
    /\ f \in [0..m -> S]
    /\ f[0] = base
    /\ \A k \in 1..m : f[k] = G[k][f[k - 1]]

LEMMA LoopStep ==
  ASSUME NEW n \in Nat, NEW S, NEW base \in S, NEW G \in [1..n -> [S -> S]],
         NEW m \in 1..n, NEW g, Loop(g, m - 1, S, base, G)
  PROVE  \E f : Loop(f, m, S, base, G)
  <1> DEFINE v == G[m][g[m - 1]]
             f == [k \in 0..m |-> IF k = m THEN v ELSE g[k]]
  <1>1. v \in S
    <2>1. m - 1 \in 0..(m - 1) /\ G[m] \in [S -> S] /\ g \in [0..(m - 1) -> S]
      BY DEF Loop
    <2>2. g[m - 1] \in S
      BY <2>1
    <2>3. QED
      BY <2>1, <2>2
  <1>2. /\ f \in [0..m -> S]
        /\ f[m] = v
        /\ \A k \in 0..(m - 1) : f[k] = g[k]
    <2> HIDE DEF v
    <2>1. \A k \in 0..m : k # m => k \in 0..(m - 1)
      OBVIOUS
    <2>2. \A k \in 0..(m - 1) : g[k] \in S /\ k \in 0..m /\ k # m
      BY DEF Loop
    <2>3. f \in [0..m -> S]
      BY <1>1, <2>1, <2>2
    <2>4. m \in 0..m
      OBVIOUS
    <2>5. QED
      BY <2>2, <2>3, <2>4
  <1>3. m - 1 \in 0..(m - 1) /\ 0 \in 0..(m - 1) /\ \A k \in 1..m : k - 1 \in 0..(m - 1)
    OBVIOUS
  <1>4. f[0] = base
    BY <1>2, <1>3 DEF Loop
  <1>5. v = G[m][g[m - 1]]
    OBVIOUS
  <1> HIDE DEF f, v
  <1>6. ASSUME NEW k \in 1..m PROVE f[k] = G[k][f[k - 1]]
    <2>1. f[k - 1] = g[k - 1]
      BY <1>2, <1>3
    <2>2. CASE k = m
      BY <1>2, <1>5, <2>1, <2>2
    <2>3. CASE k # m
      <3>1. k \in 1..(m - 1) /\ k \in 0..(m - 1)
        BY <2>3
      <3>2. QED
        BY <1>2, <2>1, <3>1 DEF Loop
    <2>4. QED
      BY <2>2, <2>3
  <1>7. Loop(f, m, S, base, G)
    BY <1>2, <1>4, <1>6 DEF Loop
  <1>8. QED
    BY <1>7

\* A loop over a set of values has them.
LEMMA LoopExists ==
  ASSUME NEW n \in Nat, NEW S, NEW base \in S, NEW G \in [1..n -> [S -> S]]
  PROVE  \E f : Loop(f, n, S, base, G)
  <1> DEFINE Done == {m \in 0..n : \E f : Loop(f, m, S, base, G)}
  <1>1. 0 \in Done
    <2> DEFINE f == [k \in 0..0 |-> base]
    <2>1. f \in [0..0 -> S] /\ f[0] = base
      OBVIOUS
    <2> HIDE DEF f
    <2>2. Loop(f, 0, S, base, G)
      BY <2>1 DEF Loop
    <2>3. QED
      BY <2>2
  <1>2. ASSUME NEW m \in 1..n, m - 1 \in Done PROVE m \in Done
    <2>1. PICK g : Loop(g, m - 1, S, base, G)
      BY <1>2
    <2>2. \E f : Loop(f, m, S, base, G)
      BY <2>1, LoopStep
    <2>3. QED
      BY <2>2
  <1>3. n \in Done
    <2> HIDE DEF Done
    <2>1. 0..n \subseteq Done
      BY <1>1, <1>2, Induction
    <2>2. QED
      BY <2>1
  <1>4. QED
    BY <1>3

----------------------------------------------------------------------------
(* Tasks on a queue.                                                       *)

\* Posting a task adds it to its kind and leaves the others alone: the first
\* completion handler of a kind that waits is the only one.
LEMMA Posting ==
  ASSUME NEW Task, NEW s \in Seq(Task), NEW t \in Task, NEW kinds
  PROVE  /\ Append(s, t) \in Seq(Task)
         /\ t.op \notin kinds => TasksOf(Append(s, t), kinds) = TasksOf(s, kinds)
         /\ t.op \in kinds => ~None(Append(s, t), kinds)
         /\ t.op \in kinds /\ None(s, kinds) => Unique(Append(s, t), kinds)
  <1>1. /\ Append(s, t) \in Seq(Task)
        /\ Len(Append(s, t)) = Len(s) + 1 /\ Len(s) \in Nat
        /\ \A i \in 1..Len(s) : Append(s, t)[i] = s[i]
        /\ Append(s, t)[Len(s) + 1] = t
    OBVIOUS
  <1>2. t.op \notin kinds => TasksOf(Append(s, t), kinds) = TasksOf(s, kinds)
    BY <1>1 DEF TasksOf
  <1>3. t.op \in kinds => TasksOf(Append(s, t), kinds) = TasksOf(s, kinds) \cup {Len(s) + 1}
    BY <1>1 DEF TasksOf
  <1>4. t.op \in kinds => ~None(Append(s, t), kinds)
    BY <1>3 DEF None
  <1>5. t.op \in kinds /\ None(s, kinds) => Unique(Append(s, t), kinds)
    BY <1>3 DEF None, Unique
  <1>6. QED
    BY <1>1, <1>2, <1>4, <1>5

\* Executing the first task takes it from its kind and leaves the others alone.
LEMMA Taking ==
  ASSUME NEW Task, NEW s \in Seq(Task), s # <<>>, NEW kinds
  PROVE  /\ Head(s) \in Task /\ Tail(s) \in Seq(Task)
         /\ Unique(s, kinds) => Unique(Tail(s), kinds)
         /\ Unique(s, kinds) /\ Head(s).op \in kinds => None(Tail(s), kinds)
         /\ Head(s).op \notin kinds => (None(Tail(s), kinds) <=> None(s, kinds))
         /\ None(s, kinds) => None(Tail(s), kinds)
         /\ Head(s).op \in kinds => ~None(s, kinds)
  <1>1. /\ Head(s) \in Task /\ Tail(s) \in Seq(Task) /\ Head(s) = s[1]
        /\ Len(s) \in Nat \ {0} /\ Len(Tail(s)) = Len(s) - 1
        /\ \A i \in 1..Len(Tail(s)) : Tail(s)[i] = s[i + 1]
    <2>1. Head(s) \in Task /\ Tail(s) \in Seq(Task) /\ Head(s) = s[1]
      OBVIOUS
    <2>2. Len(s) \in Nat \ {0} /\ Len(Tail(s)) = Len(s) - 1
      OBVIOUS
    <2>3. \A i \in 1..Len(Tail(s)) : Tail(s)[i] = s[i + 1]
      OBVIOUS
    <2>4. QED
      BY <2>1, <2>2, <2>3
  <1>2. \A i \in TasksOf(Tail(s), kinds) : i \in Nat /\ i > 0 /\ i + 1 \in TasksOf(s, kinds)
    BY <1>1 DEF TasksOf
  <1>3. \A i \in TasksOf(s, kinds) : i = 1 \/ i - 1 \in TasksOf(Tail(s), kinds)
    BY <1>1 DEF TasksOf
  <1>4. 1 \in TasksOf(s, kinds) <=> Head(s).op \in kinds
    BY <1>1 DEF TasksOf
  <1>5. Unique(s, kinds) => Unique(Tail(s), kinds)
    BY <1>2 DEF Unique
  <1>6. Unique(s, kinds) /\ Head(s).op \in kinds => None(Tail(s), kinds)
    BY <1>2, <1>4 DEF Unique, None
  <1>7. Head(s).op \notin kinds => (None(Tail(s), kinds) <=> None(s, kinds))
    BY <1>2, <1>3, <1>4 DEF None
  <1>8. QED
    BY <1>1, <1>2, <1>4, <1>5, <1>6, <1>7 DEF None

\* How many tasks of some kinds wait: posting adds one, executing the first takes
\* one away, if it is of these kinds.
LEMMA Counting ==
  ASSUME NEW Task, NEW s \in Seq(Task), NEW kinds
  PROVE  /\ Cardinality(TasksOf(s, kinds)) \in Nat
         /\ Cardinality(TasksOf(s, kinds)) = 0 <=> None(s, kinds)
         /\ \A t \in Task :
               Cardinality(TasksOf(Append(s, t), kinds))
                  = IF t.op \in kinds THEN Cardinality(TasksOf(s, kinds)) + 1
                                      ELSE Cardinality(TasksOf(s, kinds))
         /\ s # <<>> => Cardinality(TasksOf(Tail(s), kinds))
                           = IF Head(s).op \in kinds
                             THEN Cardinality(TasksOf(s, kinds)) - 1
                             ELSE Cardinality(TasksOf(s, kinds))
  <1>1. ASSUME NEW q \in Seq(Task)
        PROVE  /\ IsFiniteSet(TasksOf(q, kinds))
               /\ Cardinality(TasksOf(q, kinds)) \in Nat
    <2>1. Len(q) \in Nat /\ TasksOf(q, kinds) \in SUBSET (1..Len(q))
      BY DEF TasksOf
    <2>2. IsFiniteSet(1..Len(q))
      BY <2>1, FS_Interval
    <2>3. IsFiniteSet(TasksOf(q, kinds))
      BY <2>1, <2>2, FS_Subset
    <2>4. QED
      BY <2>3, FS_CardinalityType
  <1>2. Cardinality(TasksOf(s, kinds)) = 0 <=> None(s, kinds)
    BY <1>1, FS_EmptySet DEF None
  <1>3. ASSUME NEW t \in Task
        PROVE  Cardinality(TasksOf(Append(s, t), kinds))
                  = IF t.op \in kinds THEN Cardinality(TasksOf(s, kinds)) + 1
                                      ELSE Cardinality(TasksOf(s, kinds))
    <2>1. /\ Len(Append(s, t)) = Len(s) + 1 /\ Len(s) \in Nat
          /\ \A i \in 1..Len(s) : Append(s, t)[i] = s[i]
          /\ Append(s, t)[Len(s) + 1] = t
      OBVIOUS
    <2>2. CASE t.op \in kinds
      <3>1. TasksOf(Append(s, t), kinds) = TasksOf(s, kinds) \cup {Len(s) + 1}
        BY <2>1, <2>2 DEF TasksOf
      <3>2. Len(s) + 1 \notin TasksOf(s, kinds)
        BY <2>1 DEF TasksOf
      <3>3. QED
        BY <1>1, <2>2, <3>1, <3>2, FS_AddElement
    <2>3. CASE t.op \notin kinds
      BY <2>3, Posting
    <2>4. QED
      BY <2>2, <2>3
  <1>4. ASSUME s # <<>>
        PROVE  Cardinality(TasksOf(Tail(s), kinds))
                  = IF Head(s).op \in kinds THEN Cardinality(TasksOf(s, kinds)) - 1
                                            ELSE Cardinality(TasksOf(s, kinds))
    <2> DEFINE before == TasksOf(s, kinds) \ {1}
               behind == TasksOf(Tail(s), kinds)
               shift == [i \in behind |-> i + 1]
    <2>1. /\ Tail(s) \in Seq(Task) /\ Head(s) = s[1]
          /\ Len(s) \in Nat \ {0} /\ Len(Tail(s)) = Len(s) - 1
          /\ \A i \in 1..Len(Tail(s)) : Tail(s)[i] = s[i + 1]
      <3>1. Tail(s) \in Seq(Task) /\ Head(s) = s[1] /\ Len(s) \in Nat \ {0}
        BY <1>4
      <3>2. Len(Tail(s)) = Len(s) - 1 /\ \A i \in 1..Len(Tail(s)) : Tail(s)[i] = s[i + 1]
        BY <1>4
      <3>3. QED
        BY <3>1, <3>2
    <2>2. ASSUME NEW i \in behind PROVE i \in Nat /\ i + 1 \in before
      <3>1. i \in 1..Len(Tail(s)) /\ Tail(s)[i].op \in kinds
        BY DEF TasksOf
      <3>2. i + 1 \in 1..Len(s) /\ i + 1 # 1 /\ s[i + 1].op \in kinds /\ i \in Nat
        BY <2>1, <3>1
      <3>3. QED
        BY <3>2 DEF TasksOf
    <2>3. ASSUME NEW i \in before PROVE i \in Nat /\ i - 1 \in behind
      <3>1. i \in 1..Len(s) /\ i # 1 /\ s[i].op \in kinds
        BY DEF TasksOf
      <3>2. i \in Nat /\ i - 1 \in 1..Len(Tail(s)) /\ (i - 1) + 1 = i
        BY <2>1, <3>1
      <3>3. Tail(s)[i - 1].op \in kinds
        BY <2>1, <3>1, <3>2
      <3>4. QED
        BY <3>2, <3>3 DEF TasksOf
    <2>4. 1 \in TasksOf(s, kinds) <=> Head(s).op \in kinds
      BY <2>1 DEF TasksOf
    <2> HIDE DEF before, behind
    <2>5. shift \in Bijection(behind, before)
      <3>1. shift \in [behind -> before]
        BY <2>2
      <3>2. \A i, j \in behind : shift[i] = shift[j] => i = j
        BY <2>2
      <3>3. \A j \in before : \E i \in behind : shift[i] = j
        <4> TAKE j \in before
        <4>1. j - 1 \in behind /\ shift[j - 1] = j
          BY <2>3
        <4>2. QED
          BY <4>1
      <3> HIDE DEF shift
      <3>4. QED
        BY <3>1, <3>2, <3>3 DEF Bijection, Injection, Surjection, IsInjective
    <2>6. IsFiniteSet(behind)
      BY <1>1, <2>1 DEF behind
    <2>7. Cardinality(before) = Cardinality(behind)
      BY <2>5, <2>6, FS_Bijection DEF ExistsBijection
    <2>8. Cardinality(before) = IF Head(s).op \in kinds THEN Cardinality(TasksOf(s, kinds)) - 1
                                                         ELSE Cardinality(TasksOf(s, kinds))
      BY <1>1, <2>4, FS_RemoveElement DEF before
    <2>9. QED
      BY <2>7, <2>8 DEF behind
  <1>5. QED
    BY <1>1, <1>2, <1>3, <1>4

\* A task of the kinds k1 waits before all of the kinds k2.
Precedes(s, k1, k2) == \E i \in TasksOf(s, k1) : \A j \in TasksOf(s, k2) : i < j

\* A task posted comes behind all others.
LEMMA PrecedesPost ==
  ASSUME NEW Task, NEW s \in Seq(Task), NEW t \in Task, NEW k1, NEW k2
  PROVE  /\ t.op \notin k1 /\ Precedes(Append(s, t), k1, k2) => Precedes(s, k1, k2)
         /\ None(s, k1) /\ ~None(s, k2) => ~Precedes(Append(s, t), k1, k2)
  <1>1. /\ Len(Append(s, t)) = Len(s) + 1 /\ Len(s) \in Nat
        /\ \A i \in 1..Len(s) : Append(s, t)[i] = s[i]
        /\ Append(s, t)[Len(s) + 1] = t
    OBVIOUS
  <1>2. \A j \in TasksOf(s, k2) : j \in TasksOf(Append(s, t), k2) /\ j \in 1..Len(s)
    BY <1>1 DEF TasksOf
  <1>3. \A i \in TasksOf(Append(s, t), k1) :
           i \in TasksOf(s, k1) \/ (i = Len(s) + 1 /\ t.op \in k1)
    BY <1>1 DEF TasksOf
  <1>4. ASSUME t.op \notin k1, Precedes(Append(s, t), k1, k2) PROVE Precedes(s, k1, k2)
    BY <1>2, <1>3, <1>4 DEF Precedes
  <1>5. ASSUME None(s, k1), ~None(s, k2), Precedes(Append(s, t), k1, k2) PROVE FALSE
    <2>1. PICK j \in TasksOf(s, k2) : TRUE
      BY <1>5 DEF None
    <2>2. PICK i \in TasksOf(Append(s, t), k1) : i < j
      BY <1>2, <1>5, <2>1 DEF Precedes
    <2>3. i = Len(s) + 1
      BY <1>3, <1>5, <2>2 DEF None
    <2>4. QED
      BY <1>1, <1>2, <2>1, <2>2, <2>3
  <1>6. QED
    BY <1>4, <1>5

\* The first task comes before all others.
LEMMA PrecedesTake ==
  ASSUME NEW Task, NEW s \in Seq(Task), s # <<>>, NEW k1, NEW k2, Head(s).op \notin k2
  PROVE  /\ Precedes(Tail(s), k1, k2) => Precedes(s, k1, k2)
         /\ Head(s).op \in k1 => Precedes(s, k1, k2)
  <1>1. /\ Head(s) = s[1] /\ Len(s) \in Nat \ {0} /\ Len(Tail(s)) = Len(s) - 1
    <2>1. Head(s) = s[1]
      OBVIOUS
    <2>2. Len(s) \in Nat \ {0} /\ Len(Tail(s)) = Len(s) - 1
      OBVIOUS
    <2>3. QED
      BY <2>1, <2>2
  <1>2. \A i \in 1..Len(Tail(s)) : Tail(s)[i] = s[i + 1]
    OBVIOUS
  <1>3. \A i \in TasksOf(Tail(s), k1) : i \in Nat /\ i + 1 \in TasksOf(s, k1)
    BY <1>1, <1>2 DEF TasksOf
  <1>4. ASSUME NEW j \in TasksOf(s, k2)
        PROVE  j \in Nat /\ j > 1 /\ j - 1 \in TasksOf(Tail(s), k2)
    <2>1. j \in 1..Len(s) /\ s[j].op \in k2 /\ j # 1
      BY <1>1 DEF TasksOf
    <2>2. j - 1 \in 1..Len(Tail(s)) /\ (j - 1) + 1 = j
      BY <1>1, <2>1
    <2>3. QED
      BY <1>2, <2>1, <2>2 DEF TasksOf
  <1>5. ASSUME Precedes(Tail(s), k1, k2) PROVE Precedes(s, k1, k2)
    <2>1. PICK i \in TasksOf(Tail(s), k1) : \A j \in TasksOf(Tail(s), k2) : i < j
      BY <1>5 DEF Precedes
    <2>2. ASSUME NEW j \in TasksOf(s, k2) PROVE i + 1 < j
      <3>1. j - 1 \in TasksOf(Tail(s), k2) /\ j \in Nat
        BY <1>4
      <3>2. i < j - 1 /\ i \in Nat
        BY <1>3, <2>1, <3>1
      <3>3. QED
        BY <3>1, <3>2
    <2>3. QED
      BY <1>3, <2>1, <2>2 DEF Precedes
  <1>6. ASSUME Head(s).op \in k1 PROVE Precedes(s, k1, k2)
    <2>1. 1 \in TasksOf(s, k1)
      BY <1>1, <1>6 DEF TasksOf
    <2>2. QED
      BY <1>4, <2>1 DEF Precedes
  <1>7. QED
    BY <1>5, <1>6

----------------------------------------------------------------------------
(* The messages m are those that the tasks op on s carry, in their order:  *)
(* message j is that of the task in position pos[j].                       *)
Listing(m, s, op, pos) ==
    /\ \A j \in 1..Len(m) : s[pos[j]].op = op /\ s[pos[j]].msg = m[j]
    /\ \A i, j \in 1..Len(m) : i < j => pos[i] < pos[j]
    /\ \A i \in 1..Len(s) : s[i].op = op => \E j \in 1..Len(m) : pos[j] = i

Lists(m, s, op) == \E pos \in [1..Len(m) -> 1..Len(s)] : Listing(m, s, op, pos)

\* No task carries a message at first.
LEMMA ListingNone == ASSUME NEW op PROVE Lists(<<>>, <<>>, op)
  <1> DEFINE none == [j \in 1..0 |-> j]
  <1>1. none \in [1..Len(<<>>) -> 1..Len(<<>>)]
    OBVIOUS
  <1>2. Listing(<<>>, <<>>, op, none)
    BY DEF Listing
  <1> HIDE DEF none
  <1>3. QED
    BY <1>1, <1>2 DEF Lists

\* A message posted is the last one, other tasks are not messages.
LEMMA ListingPost ==
  ASSUME NEW Task, NEW Msg, NEW s \in Seq(Task), NEW t \in Task,
         NEW m \in Seq(Msg), NEW op, Lists(m, s, op)
  PROVE  /\ t.op # op => Lists(m, Append(s, t), op)
         /\ t.op = op => \A v \in Msg : t.msg = v => Lists(Append(m, v), Append(s, t), op)
  <1>1. /\ Len(Append(s, t)) = Len(s) + 1 /\ Len(s) \in Nat /\ Len(m) \in Nat
        /\ \A i \in 1..Len(s) : Append(s, t)[i] = s[i]
        /\ Append(s, t)[Len(s) + 1] = t
    OBVIOUS
  <1>2. PICK pos \in [1..Len(m) -> 1..Len(s)] : Listing(m, s, op, pos)
    BY DEF Lists
  <1>3. \A j \in 1..Len(m) : pos[j] \in 1..Len(s) /\ Append(s, t)[pos[j]] = s[pos[j]]
    BY <1>1
  <1>4. \A i \in 1..Len(Append(s, t)) : i \in 1..Len(s) \/ i = Len(s) + 1
    BY <1>1
  <1>5. ASSUME t.op # op PROVE Lists(m, Append(s, t), op)
    <2>1. pos \in [1..Len(m) -> 1..Len(Append(s, t))]
      BY <1>1
    <2>2. Listing(m, Append(s, t), op, pos)
      BY <1>1, <1>2, <1>3, <1>4, <1>5 DEF Listing
    <2>3. QED
      BY <2>1, <2>2 DEF Lists
  <1>6. ASSUME t.op = op, NEW v \in Msg, t.msg = v
        PROVE  Lists(Append(m, v), Append(s, t), op)
    <2>1. /\ Len(Append(m, v)) = Len(m) + 1
          /\ \A j \in 1..Len(m) : Append(m, v)[j] = m[j]
          /\ Append(m, v)[Len(m) + 1] = v
      OBVIOUS
    <2>2. PICK new \in [1..Len(Append(m, v)) -> 1..Len(Append(s, t))] :
             new = [j \in 1..Len(Append(m, v)) |-> IF j = Len(m) + 1 THEN Len(s) + 1 ELSE pos[j]]
      <3>1. \A j \in 1..Len(Append(m, v)) :
               (IF j = Len(m) + 1 THEN Len(s) + 1 ELSE pos[j]) \in 1..Len(Append(s, t))
        <4>1. \A j \in 1..Len(m) : pos[j] \in 1..Len(Append(s, t))
          BY <1>1, <1>3
        <4>2. Len(s) + 1 \in 1..Len(Append(s, t))
          BY <1>1
        <4>3. \A j \in 1..Len(Append(m, v)) : j \in 1..Len(m) \/ j = Len(m) + 1
          BY <1>1, <2>1
        <4>4. QED
          BY <4>1, <4>2, <4>3
      <3>2. QED
        BY <3>1
    <2>3. new[Len(m) + 1] = Len(s) + 1
      BY <1>1, <2>2
    <2>4. \A j \in 1..Len(m) : new[j] = pos[j]
      BY <1>1, <2>2
    <2>5. \A j \in 1..Len(Append(m, v)) : j \in 1..Len(m) \/ j = Len(m) + 1
      BY <1>1, <2>1
    <2>6. \A j \in 1..Len(Append(m, v)) :
             Append(s, t)[new[j]].op = op /\ Append(s, t)[new[j]].msg = Append(m, v)[j]
      <3>1. ASSUME NEW j \in 1..Len(m)
            PROVE  Append(s, t)[new[j]].op = op /\ Append(s, t)[new[j]].msg = Append(m, v)[j]
        <4>1. Append(s, t)[new[j]] = s[pos[j]] /\ Append(m, v)[j] = m[j]
          BY <1>3, <2>1, <2>4
        <4>2. s[pos[j]].op = op /\ s[pos[j]].msg = m[j]
          BY <1>2 DEF Listing
        <4>3. QED
          BY <4>1, <4>2
      <3>2. Append(s, t)[new[Len(m) + 1]] = t /\ Append(m, v)[Len(m) + 1] = v
        BY <1>1, <2>1, <2>3
      <3>3. QED
        BY <1>6, <2>5, <3>1, <3>2
    <2>7. \A i, j \in 1..Len(Append(m, v)) : i < j => new[i] < new[j]
      <3>1. ASSUME NEW i \in 1..Len(Append(m, v)), NEW j \in 1..Len(Append(m, v)), i < j
            PROVE  new[i] < new[j]
        <4>1. i \in 1..Len(m) /\ new[i] = pos[i] /\ pos[i] < Len(s) + 1
          BY <1>1, <1>3, <2>1, <2>4, <2>5, <3>1
        <4>2. CASE j \in 1..Len(m)
          BY <1>2, <2>4, <3>1, <4>1, <4>2 DEF Listing
        <4>3. CASE j = Len(m) + 1
          BY <2>3, <4>1, <4>3
        <4>4. QED
          BY <2>5, <4>2, <4>3
      <3>2. QED
        BY <3>1
    <2>8. ASSUME NEW i \in 1..Len(Append(s, t)), Append(s, t)[i].op = op
          PROVE  \E j \in 1..Len(Append(m, v)) : new[j] = i
      <3>1. CASE i \in 1..Len(s)
        <4>1. s[i].op = op
          BY <1>1, <2>8, <3>1
        <4>2. PICK j \in 1..Len(m) : pos[j] = i
          BY <1>2, <3>1, <4>1 DEF Listing
        <4>3. new[j] = i /\ j \in 1..Len(Append(m, v))
          BY <1>1, <2>1, <2>4, <4>2
        <4>4. QED
          BY <4>3
      <3>2. CASE i = Len(s) + 1
        <4>1. Len(m) + 1 \in 1..Len(Append(m, v))
          BY <1>1, <2>1
        <4>2. QED
          BY <2>3, <3>2, <4>1
      <3>3. QED
        BY <1>4, <3>1, <3>2
    <2>9. Listing(Append(m, v), Append(s, t), op, new)
      BY <2>6, <2>7, <2>8 DEF Listing
    <2>10. QED
      BY <2>9 DEF Lists
  <1>7. QED
    BY <1>5, <1>6

\* A message taken is the first one.
LEMMA ListingTake ==
  ASSUME NEW Task, NEW Msg, NEW s \in Seq(Task), s # <<>>,
         NEW m \in Seq(Msg), NEW op, Lists(m, s, op)
  PROVE  /\ Head(s).op # op => Lists(m, Tail(s), op)
         /\ Head(s).op = op => /\ Len(m) > 0 /\ m[1] = Head(s).msg
                               /\ Lists(Tail(m), Tail(s), op)
  <1>1. /\ Head(s) = s[1] /\ Len(m) \in Nat
        /\ Len(s) \in Nat \ {0} /\ Len(Tail(s)) = Len(s) - 1
        /\ \A i \in 1..Len(Tail(s)) : Tail(s)[i] = s[i + 1]
    <2>1. Head(s) = s[1] /\ Len(m) \in Nat
      OBVIOUS
    <2>2. Len(s) \in Nat \ {0} /\ Len(Tail(s)) = Len(s) - 1
      OBVIOUS
    <2>3. \A i \in 1..Len(Tail(s)) : Tail(s)[i] = s[i + 1]
      OBVIOUS
    <2>4. QED
      BY <2>1, <2>2, <2>3
  <1>2. PICK pos \in [1..Len(m) -> 1..Len(s)] : Listing(m, s, op, pos)
    BY DEF Lists
  <1>3. \A i \in 1..Len(Tail(s)) : i + 1 \in 1..Len(s) /\ i + 1 # 1 /\ Tail(s)[i] = s[i + 1]
    BY <1>1
  <1>4. \A i \in 2..Len(s) : i - 1 \in 1..Len(Tail(s)) /\ Tail(s)[i - 1] = s[i]
    <2>1. ASSUME NEW i \in 2..Len(s) PROVE i - 1 \in 1..Len(Tail(s)) /\ Tail(s)[i - 1] = s[i]
      <3>1. i - 1 \in 1..Len(Tail(s)) /\ (i - 1) + 1 = i
        BY <1>1
      <3>2. QED
        BY <1>3, <3>1
    <2>2. QED
      BY <2>1
  <1>5. ASSUME Head(s).op # op PROVE Lists(m, Tail(s), op)
    <2>1. \A j \in 1..Len(m) : pos[j] \in 2..Len(s)
      BY <1>1, <1>2, <1>5 DEF Listing
    <2>2. PICK new \in [1..Len(m) -> 1..Len(Tail(s))] : new = [j \in 1..Len(m) |-> pos[j] - 1]
      BY <1>4, <2>1
    <2>3. \A j \in 1..Len(m) : new[j] = pos[j] - 1 /\ Tail(s)[new[j]] = s[pos[j]]
      BY <1>4, <2>1, <2>2
    <2>4. \A i, j \in 1..Len(m) : i < j => new[i] < new[j]
      BY <1>2, <2>1, <2>3 DEF Listing
    <2>5. ASSUME NEW i \in 1..Len(Tail(s)), Tail(s)[i].op = op
          PROVE  \E j \in 1..Len(m) : new[j] = i
      <3>1. PICK j \in 1..Len(m) : pos[j] = i + 1
        BY <1>2, <1>3, <2>5 DEF Listing
      <3>2. new[j] = i
        BY <2>3, <3>1
      <3>3. QED
        BY <3>2
    <2>6. \A j \in 1..Len(m) : Tail(s)[new[j]].op = op /\ Tail(s)[new[j]].msg = m[j]
      BY <1>2, <2>3 DEF Listing
    <2>7. Listing(m, Tail(s), op, new)
      BY <2>4, <2>5, <2>6 DEF Listing
    <2>8. QED
      BY <2>7 DEF Lists
  <1>6. ASSUME Head(s).op = op
        PROVE  Len(m) > 0 /\ m[1] = Head(s).msg /\ Lists(Tail(m), Tail(s), op)
    <2>1. 1 \in 1..Len(s) /\ s[1].op = op
      BY <1>1, <1>6
    <2>2. PICK one \in 1..Len(m) : pos[one] = 1
      BY <1>2, <2>1 DEF Listing
    <2>3. 1 \in 1..Len(m) /\ Len(m) > 0
      BY <1>1, <2>2
    <2>4. one = 1
      <3>1. pos[1] \in 1..Len(s)
        BY <2>3
      <3>2. one # 1 => pos[1] < pos[one]
        BY <1>1, <1>2, <2>2, <2>3 DEF Listing
      <3>3. QED
        BY <1>1, <2>2, <3>1, <3>2
    <2>5. m[1] = Head(s).msg
      <3>1. s[pos[1]].msg = m[1]
        BY <1>2, <2>3 DEF Listing
      <3>2. QED
        BY <1>1, <2>2, <2>4, <3>1
    <2>6. Len(Tail(m)) = Len(m) - 1
      BY <2>3
    <2>7. \A j \in 1..Len(Tail(m)) : Tail(m)[j] = m[j + 1]
      BY <2>3
    <2>8. \A j \in 1..Len(Tail(m)) : j + 1 \in 1..Len(m) /\ j + 1 > 1
      BY <1>1, <2>6
    <2>9. ASSUME NEW j \in 1..Len(Tail(m)) PROVE pos[j + 1] \in 2..Len(s)
      <3>1. pos[1] < pos[j + 1]
        BY <1>2, <2>3, <2>8 DEF Listing
      <3>2. pos[j + 1] \in 1..Len(s)
        BY <2>8
      <3>3. QED
        BY <1>1, <2>2, <2>4, <3>1, <3>2
    <2>10. PICK new \in [1..Len(Tail(m)) -> 1..Len(Tail(s))] :
              new = [j \in 1..Len(Tail(m)) |-> pos[j + 1] - 1]
      BY <1>4, <2>9
    <2>11. \A j \in 1..Len(Tail(m)) : new[j] = pos[j + 1] - 1 /\ Tail(s)[new[j]] = s[pos[j + 1]]
      BY <1>4, <2>9, <2>10
    <2>12. ASSUME NEW j \in 1..Len(Tail(m))
           PROVE  Tail(s)[new[j]].op = op /\ Tail(s)[new[j]].msg = Tail(m)[j]
      <3>1. s[pos[j + 1]].op = op /\ s[pos[j + 1]].msg = m[j + 1]
        BY <1>2, <2>8 DEF Listing
      <3>2. QED
        BY <2>7, <2>11, <3>1
    <2>13. ASSUME NEW i \in 1..Len(Tail(m)), NEW j \in 1..Len(Tail(m)), i < j
           PROVE  new[i] < new[j]
      <3>1. i + 1 \in 1..Len(m) /\ j + 1 \in 1..Len(m) /\ i + 1 < j + 1
        BY <1>1, <2>8, <2>13, <2>6
      <3>2. pos[i + 1] < pos[j + 1]
        BY <1>2, <3>1 DEF Listing
      <3>3. pos[i + 1] \in Int /\ pos[j + 1] \in Int
        BY <2>9
      <3>4. QED
        BY <2>11, <3>2, <3>3
    <2>14. ASSUME NEW i \in 1..Len(Tail(s)), Tail(s)[i].op = op
           PROVE  \E j \in 1..Len(Tail(m)) : new[j] = i
      <3>1. PICK k \in 1..Len(m) : pos[k] = i + 1
        BY <1>2, <1>3, <2>14 DEF Listing
      <3>2. k # 1
        BY <1>3, <2>2, <2>4, <3>1
      <3>3. k - 1 \in 1..Len(Tail(m)) /\ (k - 1) + 1 = k
        BY <1>1, <2>6, <3>1, <3>2
      <3>4. new[k - 1] = pos[k] - 1
        BY <2>11, <3>3
      <3>5. QED
        BY <1>1, <3>1, <3>3, <3>4
    <2>15. Listing(Tail(m), Tail(s), op, new)
      BY <2>12, <2>13, <2>14 DEF Listing
    <2>16. QED
      BY <2>3, <2>5, <2>15 DEF Lists
  <1>7. QED
    BY <1>5, <1>6

----------------------------------------------------------------------------
(* Messages a that were sent go by tasks op on s to a queue q, whose front *)
(* is written to w.  The queue continues w with the next n messages of a:  *)
Continues(a, w, q, n) ==
    /\ Len(w) + n <= Len(a) /\ n <= Len(q)
    /\ \A i \in 1..Len(w) : a[i] = w[i]
    /\ \A i \in 1..n : a[Len(w) + i] = q[i]

\* All of a is in w, then in q, then in p.
Whole(a, w, q, p) ==
    /\ Continues(a, w, q, Len(q))
    /\ Len(a) = Len(w) + Len(q) + Len(p)
    /\ \A i \in 1..Len(p) : a[Len(w) + Len(q) + i] = p[i]

Accounted(a, w, q, s, op, Msg) ==
    \E p \in Seq(Msg) : Lists(p, s, op) /\ Whole(a, w, q, p)

\* Fewer messages of the queue also continue w.
LEMMA ContinuesLess ==
  ASSUME NEW Msg, NEW a \in Seq(Msg), NEW w \in Seq(Msg), NEW q \in Seq(Msg),
         NEW k \in Nat, NEW n \in 0..k, Continues(a, w, q, k)
  PROVE  Continues(a, w, q, n)
  BY DEF Continues

\* Messages put at the end, of a or of the queue, change nothing in front.
LEMMA ContinuesPost ==
  ASSUME NEW Msg, NEW a \in Seq(Msg), NEW w \in Seq(Msg), NEW q \in Seq(Msg),
         NEW n \in Nat, Continues(a, w, q, n), NEW v \in Msg
  PROVE  Continues(Append(a, v), w, q, n) /\ Continues(a, w, Append(q, v), n)
  <1>1. /\ Len(Append(a, v)) = Len(a) + 1
        /\ \A i \in 1..Len(a) : Append(a, v)[i] = a[i]
    OBVIOUS
  <1>2. /\ Len(Append(q, v)) = Len(q) + 1
        /\ \A i \in 1..Len(q) : Append(q, v)[i] = q[i]
    OBVIOUS
  <1>3. /\ \A i \in 1..Len(w) : i \in 1..Len(a)
        /\ \A i \in 1..n : Len(w) + i \in 1..Len(a) /\ i \in 1..Len(q)
    BY DEF Continues
  <1>4. QED
    BY <1>1, <1>2, <1>3 DEF Continues

\* Writing the front of the queue.
LEMMA ContinuesWrite ==
  ASSUME NEW Msg, NEW a \in Seq(Msg), NEW w \in Seq(Msg), NEW q \in Seq(Msg),
         NEW n \in Nat \ {0}, Continues(a, w, q, n)
  PROVE  /\ Len(w) < Len(a) /\ q # <<>> /\ Head(q) = a[Len(w) + 1]
         /\ Continues(a, Append(w, Head(q)), Tail(q), n - 1)
  <1>1. Len(w) < Len(a) /\ Len(q) > 0 /\ a[Len(w) + 1] = q[1]
    BY DEF Continues
  <1>2. q # <<>> /\ Head(q) = q[1] /\ Len(Tail(q)) = Len(q) - 1 /\ Head(q) \in Msg
    BY <1>1
  <1>3. \A i \in 1..Len(Tail(q)) : Tail(q)[i] = q[i + 1]
    BY <1>1
  <1>4. PICK v \in Msg : v = Head(q)
    BY <1>2
  <1>5. /\ Len(Append(w, v)) = Len(w) + 1
        /\ \A i \in 1..Len(w) : Append(w, v)[i] = w[i]
        /\ Append(w, v)[Len(w) + 1] = v
    OBVIOUS
  <1>6. \A i \in 1..Len(Append(w, v)) : a[i] = Append(w, v)[i]
    <2>1. \A i \in 1..Len(Append(w, v)) : i \in 1..Len(w) \/ i = Len(w) + 1
      BY <1>5
    <2>2. QED
      BY <1>1, <1>2, <1>4, <1>5, <2>1 DEF Continues
  <1>7. \A i \in 1..(n - 1) : a[Len(Append(w, v)) + i] = Tail(q)[i]
    <2>1. ASSUME NEW i \in 1..(n - 1) PROVE a[Len(Append(w, v)) + i] = Tail(q)[i]
      <3>0. Len(w) \in Nat /\ i \in Nat
        OBVIOUS
      <3>1. i + 1 \in 1..n /\ Len(Append(w, v)) + i = Len(w) + (i + 1)
        BY <1>5, <3>0
      <3>2. a[Len(w) + (i + 1)] = q[i + 1]
        BY <3>1 DEF Continues
      <3>3. i \in 1..Len(Tail(q))
        BY <1>2 DEF Continues
      <3>4. QED
        BY <1>3, <3>1, <3>2, <3>3
    <2>2. QED
      BY <2>1
  <1>8. Len(Append(w, v)) + (n - 1) <= Len(a) /\ n - 1 <= Len(Tail(q))
    BY <1>2, <1>5 DEF Continues
  <1>9. QED
    BY <1>1, <1>2, <1>4, <1>6, <1>7, <1>8 DEF Continues

\* Nothing is sent at first.
LEMMA AccountedNone ==
  ASSUME NEW op, NEW Msg PROVE Accounted(<<>>, <<>>, <<>>, <<>>, op, Msg)
  <1>1. Whole(<<>>, <<>>, <<>>, <<>>)
    BY DEF Whole, Continues
  <1>2. QED
    <2>1. <<>> \in Seq(Msg)
      OBVIOUS
    <2>2. Lists(<<>>, <<>>, op)
      BY ListingNone
    <2>3. QED
      BY <1>1, <2>1, <2>2 DEF Accounted

\* A message is sent, and posted; or another task is.
LEMMA AccountedPost ==
  ASSUME NEW Task, NEW Msg, NEW a \in Seq(Msg), NEW w \in Seq(Msg), NEW q \in Seq(Msg),
         NEW s \in Seq(Task), NEW t \in Task, NEW op, Accounted(a, w, q, s, op, Msg)
  PROVE  /\ t.op # op => Accounted(a, w, q, Append(s, t), op, Msg)
         /\ t.op = op => \A v \in Msg :
               t.msg = v => Accounted(Append(a, v), w, q, Append(s, t), op, Msg)
  <1>1. PICK p \in Seq(Msg) : Lists(p, s, op) /\ Whole(a, w, q, p)
    BY DEF Accounted
  <1>2. ASSUME t.op # op PROVE Accounted(a, w, q, Append(s, t), op, Msg)
    BY <1>1, <1>2, ListingPost DEF Accounted
  <1>3. ASSUME t.op = op, NEW v \in Msg, t.msg = v
        PROVE  Accounted(Append(a, v), w, q, Append(s, t), op, Msg)
    <2>1. Lists(Append(p, v), Append(s, t), op) /\ Append(p, v) \in Seq(Msg)
      BY <1>1, <1>3, ListingPost
    <2>2. /\ Len(Append(a, v)) = Len(a) + 1 /\ Len(Append(p, v)) = Len(p) + 1
          /\ \A i \in 1..Len(a) : Append(a, v)[i] = a[i]
          /\ Append(a, v)[Len(a) + 1] = v
          /\ \A i \in 1..Len(p) : Append(p, v)[i] = p[i]
          /\ Append(p, v)[Len(p) + 1] = v
      OBVIOUS
    <2>3. Continues(Append(a, v), w, q, Len(q))
      BY <1>1, ContinuesPost DEF Whole
    <2>4. ASSUME NEW i \in 1..Len(Append(p, v))
          PROVE  Append(a, v)[Len(w) + Len(q) + i] = Append(p, v)[i]
      <3>1. CASE i = Len(p) + 1
        <4>1. Len(w) + Len(q) + i = Len(a) + 1
          BY <1>1, <3>1 DEF Whole
        <4>2. QED
          BY <2>2, <3>1, <4>1
      <3>2. CASE i \in 1..Len(p)
        <4>1. Len(w) + Len(q) + i \in 1..Len(a)
          BY <1>1, <3>2 DEF Whole
        <4>2. QED
          BY <1>1, <2>2, <3>2, <4>1 DEF Whole
      <3>3. i \in 1..Len(p) \/ i = Len(p) + 1
        BY <2>2
      <3>4. QED
        BY <3>1, <3>2, <3>3
    <2>5. Whole(Append(a, v), w, q, Append(p, v))
      <3>1. Len(a) + 1 = Len(w) + Len(q) + (Len(p) + 1)
        BY <1>1 DEF Whole
      <3>2. QED
        BY <2>2, <2>3, <2>4, <3>1 DEF Whole
    <2>6. QED
      BY <2>1, <2>5 DEF Accounted
  <1>4. QED
    BY <1>2, <1>3

\* The first task goes: a message to the queue, another one nowhere.
LEMMA AccountedTake ==
  ASSUME NEW Task, NEW Msg, NEW a \in Seq(Msg), NEW w \in Seq(Msg), NEW q \in Seq(Msg),
         NEW s \in Seq(Task), s # <<>>, NEW op, Accounted(a, w, q, s, op, Msg)
  PROVE  /\ Head(s).op # op => Accounted(a, w, q, Tail(s), op, Msg)
         /\ Head(s).op = op => \A v \in Msg :
               Head(s).msg = v => Accounted(a, w, Append(q, v), Tail(s), op, Msg)
  <1>1. PICK p \in Seq(Msg) : Lists(p, s, op) /\ Whole(a, w, q, p)
    BY DEF Accounted
  <1>2. ASSUME Head(s).op # op PROVE Accounted(a, w, q, Tail(s), op, Msg)
    BY <1>1, <1>2, ListingTake DEF Accounted
  <1>3. ASSUME Head(s).op = op, NEW v \in Msg, Head(s).msg = v
        PROVE  Accounted(a, w, Append(q, v), Tail(s), op, Msg)
    <2>1. Len(p) > 0 /\ p[1] = v /\ Lists(Tail(p), Tail(s), op)
      BY <1>1, <1>3, ListingTake
    <2>2. Tail(p) \in Seq(Msg) /\ Len(Tail(p)) = Len(p) - 1
      BY <2>1
    <2>3. \A i \in 1..Len(Tail(p)) : Tail(p)[i] = p[i + 1]
      BY <2>1
    <2>4. /\ Len(Append(q, v)) = Len(q) + 1
          /\ \A i \in 1..Len(q) : Append(q, v)[i] = q[i]
          /\ Append(q, v)[Len(q) + 1] = v
      OBVIOUS
    <2>5. /\ Len(a) = Len(w) + Len(q) + Len(p)
          /\ Len(a) \in Nat /\ Len(w) \in Nat /\ Len(q) \in Nat /\ Len(p) \in Nat
      BY <1>1 DEF Whole
    <2>6. Continues(a, w, Append(q, v), Len(Append(q, v)))
      <3>1. ASSUME NEW i \in 1..Len(Append(q, v)) PROVE a[Len(w) + i] = Append(q, v)[i]
        <4>1. CASE i = Len(q) + 1
          <5>1. a[Len(w) + Len(q) + 1] = p[1] /\ Len(w) + i = Len(w) + Len(q) + 1
            BY <1>1, <2>1, <2>5, <4>1 DEF Whole
          <5>2. QED
            BY <2>1, <2>4, <4>1, <5>1
        <4>2. CASE i \in 1..Len(q)
          BY <1>1, <2>4, <4>2 DEF Whole, Continues
        <4>3. QED
          BY <2>4, <4>1, <4>2
      <3>2. \A i \in 1..Len(w) : a[i] = w[i]
        BY <1>1 DEF Whole, Continues
      <3>3. QED
        BY <2>1, <2>4, <2>5, <3>1, <3>2 DEF Continues
    <2>7. ASSUME NEW i \in 1..Len(Tail(p))
          PROVE  a[Len(w) + Len(Append(q, v)) + i] = Tail(p)[i]
      <3>1. /\ Len(w) + Len(Append(q, v)) + i = Len(w) + Len(q) + (i + 1)
            /\ i + 1 \in 1..Len(p)
        BY <2>2, <2>4, <2>5
      <3>2. a[Len(w) + Len(q) + (i + 1)] = p[i + 1]
        BY <1>1, <3>1 DEF Whole
      <3>3. QED
        BY <2>3, <3>1, <3>2
    <2>8. Len(a) = Len(w) + Len(Append(q, v)) + Len(Tail(p))
      BY <2>2, <2>4, <2>5
    <2>9. Whole(a, w, Append(q, v), Tail(p))
      BY <2>6, <2>7, <2>8 DEF Whole
    <2>10. QED
      BY <2>1, <2>2, <2>9 DEF Accounted
  <1>4. QED
    BY <1>2, <1>3

\* The front of the queue is written.
LEMMA AccountedWrite ==
  ASSUME NEW Task, NEW Msg, NEW a \in Seq(Msg), NEW w \in Seq(Msg), NEW q \in Seq(Msg),
         NEW s \in Seq(Task), NEW op, Accounted(a, w, q, s, op, Msg)
  PROVE  /\ Continues(a, w, q, Len(q))
         /\ q # <<>> => Accounted(a, Append(w, Head(q)), Tail(q), s, op, Msg)
  <1>1. PICK p \in Seq(Msg) : Lists(p, s, op) /\ Whole(a, w, q, p)
    BY DEF Accounted
  <1>2. ASSUME q # <<>> PROVE Accounted(a, Append(w, Head(q)), Tail(q), s, op, Msg)
    <2>1. Len(q) \in Nat \ {0} /\ Len(Tail(q)) = Len(q) - 1 /\ Head(q) \in Msg
      BY <1>2
    <2>2. PICK v \in Msg : v = Head(q)
      BY <2>1
    <2>3. Len(Append(w, v)) = Len(w) + 1
      OBVIOUS
    <2>4. Continues(a, Append(w, v), Tail(q), Len(Tail(q)))
      BY <1>1, <2>1, <2>2, ContinuesWrite DEF Whole
    <2>5. Len(Append(w, v)) + Len(Tail(q)) = Len(w) + Len(q)
      BY <2>1, <2>3
    <2>6. Whole(a, Append(w, v), Tail(q), p)
      BY <1>1, <2>4, <2>5 DEF Whole
    <2>7. QED
      BY <1>1, <2>2, <2>6 DEF Accounted
  <1>3. QED
    BY <1>1, <1>2 DEF Whole

----------------------------------------------------------------------------
(* Cutting a text.  Of the first l tokens of s, f lists the m separators,  *)
(* in their order, between a 0 and the position behind the last token.     *)
Cuts(s, sep, l, m, f) ==
    /\ m \in Nat
    /\ f \in [0..m + 1 -> Nat]
    /\ f[0] = 0 /\ f[m + 1] = l + 1
    /\ \A k \in 1..m + 1 : f[k - 1] < f[k]
    /\ \A k \in 1..m : s[f[k]] = sep
    /\ \A i \in 1..l : s[i] = sep => \E k \in 1..m : f[k] = i

\* The columns between them.
Columns(s, m, f) == [k \in 1..m + 1 |-> SubSeq(s, f[k - 1] + 1, f[k] - 1)]

LEMMA CutsIncrease ==
  ASSUME NEW s, NEW sep, NEW l \in Nat, NEW m, NEW f, Cuts(s, sep, l, m, f)
  PROVE  \A j, k \in 0..m + 1 : j < k => f[j] < f[k]
  <1> SUFFICES ASSUME NEW j \in 0..m + 1
               PROVE  \A k \in 0..m + 1 : j < k => f[j] < f[k]
    OBVIOUS
  <1> DEFINE S == {k \in 0..m + 1 : j < k => f[j] < f[k]}
  <1>1. m + 1 \in Nat /\ 0 \in S
    BY DEF Cuts
  <1>2. ASSUME NEW k \in 1..m + 1, k - 1 \in S PROVE k \in S
    <2>1. f[k - 1] < f[k] /\ f[k - 1] \in Nat /\ f[k] \in Nat /\ f[j] \in Nat
      BY <1>1 DEF Cuts
    <2>2. j < k => j = k - 1 \/ j < k - 1
      BY <1>1
    <2>3. QED
      BY <1>1, <1>2, <2>1, <2>2
  <1>3. 0..m + 1 \subseteq S
    <2> HIDE DEF S
    <2>1. QED
      BY <1>1, <1>2, Induction
  <1>4. QED
    BY <1>3

LEMMA CutsExist ==
  ASSUME NEW s, NEW sep, NEW n \in Nat
  PROVE  \E m, f : Cuts(s, sep, n, m, f)
  <1> DEFINE S == {l \in 0..n : \E m, f : Cuts(s, sep, l, m, f)}
  <1>1. 0 \in S
    <2> DEFINE f == [k \in 0..0 + 1 |-> k]
    <2>1. Cuts(s, sep, 0, 0, f)
      BY DEF Cuts
    <2>2. QED
      BY <2>1
  <1>2. ASSUME NEW l \in 1..n, l - 1 \in S PROVE l \in S
    <2>1. PICK m, f : Cuts(s, sep, l - 1, m, f)
      BY <1>2
    <2>2. /\ m \in Nat /\ f \in [0..m + 1 -> Nat] /\ f[0] = 0 /\ f[m + 1] = l
          /\ \A k \in 1..m + 1 : f[k - 1] < f[k]
          /\ \A k \in 1..m : s[f[k]] = sep
          /\ \A i \in 1..(l - 1) : s[i] = sep => \E k \in 1..m : f[k] = i
      BY <2>1 DEF Cuts
    <2>3. CASE s[l] = sep
      <3> DEFINE g == [k \in 0..(m + 1) + 1 |-> IF k = m + 2 THEN l + 1 ELSE f[k]]
      <3>1. /\ g \in [0..(m + 1) + 1 -> Nat] /\ g[m + 2] = l + 1
            /\ \A k \in 0..m + 1 : g[k] = f[k]
        BY <2>2
      <3> HIDE DEF g
      <3>2. \A k \in 1..(m + 1) + 1 : g[k - 1] < g[k]
        <4> TAKE k \in 1..(m + 1) + 1
        <4>1. CASE k = m + 2
          BY <2>2, <3>1, <4>1
        <4>2. CASE k \in 1..m + 1
          <5>1. k - 1 \in 0..m + 1 /\ k \in 0..m + 1
            BY <2>2, <4>2
          <5>2. QED
            BY <2>2, <3>1, <4>2, <5>1
        <4>3. QED
          BY <2>2, <4>1, <4>2
      <3>3. ASSUME NEW k \in 1..m + 1 PROVE s[g[k]] = sep
        <4>1. k \in 0..m + 1 /\ g[k] = f[k] /\ (k = m + 1 \/ k \in 1..m)
          BY <2>2, <3>1
        <4>2. QED
          BY <2>2, <2>3, <4>1
      <3>4. ASSUME NEW i \in 1..l, s[i] = sep PROVE \E k \in 1..m + 1 : g[k] = i
        <4>1. CASE i = l
          <5>1. g[m + 1] = i /\ m + 1 \in 1..m + 1
            BY <2>2, <3>1, <4>1
          <5>2. QED
            BY <5>1
        <4>2. CASE i \in 1..(l - 1)
          BY <2>2, <3>1, <3>4, <4>2
        <4>3. QED
          BY <4>1, <4>2
      <3>5. Cuts(s, sep, l, m + 1, g)
        BY <2>2, <3>1, <3>2, <3>3, <3>4 DEF Cuts
      <3>6. QED
        BY <3>5
    <2>4. CASE s[l] # sep
      <3> DEFINE g == [k \in 0..m + 1 |-> IF k = m + 1 THEN l + 1 ELSE f[k]]
      <3>1. /\ g \in [0..m + 1 -> Nat] /\ g[m + 1] = l + 1
            /\ \A k \in 0..m : g[k] = f[k]
        BY <2>2
      <3> HIDE DEF g
      <3>2. \A k \in 1..m + 1 : g[k - 1] < g[k]
        <4> TAKE k \in 1..m + 1
        <4>1. k - 1 \in 0..m /\ f[k - 1] < f[k] /\ (k # m + 1 => k \in 0..m)
          BY <2>2
        <4>2. f[k - 1] \in Nat /\ (k = m + 1 => f[k - 1] < l + 1)
          BY <2>2, <4>1
        <4>3. QED
          BY <3>1, <4>1, <4>2
      <3>3. \A k \in 1..m : s[g[k]] = sep
        BY <2>2, <3>1
      <3>4. ASSUME NEW i \in 1..l, s[i] = sep PROVE \E k \in 1..m : g[k] = i
        <4>1. i \in 1..(l - 1)
          BY <2>4, <3>4
        <4>2. QED
          BY <2>2, <3>1, <3>4, <4>1
      <3>5. Cuts(s, sep, l, m, g)
        BY <2>2, <3>1, <3>2, <3>3, <3>4 DEF Cuts
      <3>6. QED
        BY <3>5
    <2>5. QED
      BY <2>3, <2>4
  <1>3. 0..n \subseteq S
    <2> HIDE DEF S
    <2>1. QED
      BY <1>1, <1>2, Induction
  <1>4. QED
    BY <1>3

\* The separator behind a cut is the next cut, and behind the last there is none.
LEMMA NextCut ==
  ASSUME NEW T, NEW s \in Seq(T), NEW sep, NEW m, NEW f, Cuts(s, sep, Len(s), m, f),
         NEW k \in 1..m + 1
  PROVE  Position(s, sep, f[k - 1] + 1) = IF k = m + 1 THEN 0 ELSE f[k]
  <1> DEFINE found == {j \in f[k - 1] + 1..Len(s) : s[j] = sep}
  <1>1. /\ m \in Nat /\ f \in [0..m + 1 -> Nat] /\ f[0] = 0 /\ f[m + 1] = Len(s) + 1
        /\ \A h \in 1..m : s[f[h]] = sep
        /\ \A i \in 1..Len(s) : s[i] = sep => \E h \in 1..m : f[h] = i
    BY DEF Cuts
  <1>2. \A h, j \in 0..m + 1 : h < j => f[h] < f[j]
    BY CutsIncrease
  <1>3. k - 1 \in 0..m + 1 /\ k \in 0..m + 1 /\ f[k - 1] \in Nat /\ Len(s) \in Nat
    BY <1>1
  <1>4. ASSUME NEW j \in found PROVE \E h \in 1..m : f[h] = j /\ h >= k
    <2>1. j \in 1..Len(s) /\ s[j] = sep /\ j > f[k - 1]
      BY <1>3
    <2>2. PICK h \in 1..m : f[h] = j
      BY <1>1, <2>1
    <2>3. h \in 0..m + 1 /\ h \in Nat /\ k - 1 \in Nat /\ f[h] > f[k - 1]
      BY <1>1, <1>3, <2>1, <2>2
    <2>4. ~(h < k - 1)
      <3>1. h < k - 1 => f[h] < f[k - 1]
        BY <1>2, <1>3, <2>3
      <3>2. QED
        BY <1>1, <1>3, <2>3, <3>1
    <2>5. h # k - 1
      BY <1>3, <2>3
    <2>6. QED
      BY <1>3, <2>2, <2>3, <2>4, <2>5
  <1>5. CASE k = m + 1
    <2>1. found = {}
      BY <1>1, <1>4, <1>5
    <2>2. QED
      BY <1>5, <2>1 DEF Position
  <1>6. CASE k # m + 1
    <2>1. k \in 1..m /\ f[k] \in Nat /\ f[k - 1] < f[k] /\ f[k] < f[m + 1]
      BY <1>1, <1>2, <1>3, <1>6
    <2>2. f[k] \in found
      BY <1>1, <1>3, <2>1
    <2>3. \A j \in found : f[k] <= j
      <3> TAKE j \in found
      <3>1. PICK h \in 1..m : f[h] = j /\ h >= k
        BY <1>4
      <3>2. h \in 0..m + 1 /\ f[h] \in Nat /\ (h = k \/ k < h)
        BY <1>1, <2>1, <3>1
      <3>3. QED
        BY <1>2, <1>3, <2>1, <3>1, <3>2
    <2>4. \A i \in found : (\A j \in found : i <= j) => i = f[k]
      <3> TAKE i \in found
      <3>1. i \in Nat
        BY <1>3
      <3> HIDE DEF found
      <3>2. QED
        BY <2>1, <2>2, <2>3, <3>1
    <2>5. Position(s, sep, f[k - 1] + 1) = CHOOSE j \in found : \A i \in found : j <= i
      BY <2>2 DEF Position
    <2> HIDE DEF found
    <2>6. QED
      BY <1>6, <2>2, <2>3, <2>4, <2>5
  <1>7. QED
    BY <1>5, <1>6

\* split() cuts at every separator.
LEMMA SplitIsColumns ==
  ASSUME NEW T, NEW s \in Seq(T), NEW sep, NEW m, NEW f, Cuts(s, sep, Len(s), m, f)
  PROVE  Split(s, sep) = Columns(s, m, f)
  <1> DEFINE seps == Separators(s, sep)
             end == ColumnEnds(s, sep)
  <1>1. /\ m \in Nat /\ f \in [0..m + 1 -> Nat] /\ f[0] = 0 /\ f[m + 1] = Len(s) + 1
        /\ \A h \in 1..m : s[f[h]] = sep
        /\ \A i \in 1..Len(s) : s[i] = sep => \E h \in 1..m : f[h] = i
    BY DEF Cuts
  <1>2. \A h, j \in 0..m + 1 : h < j => f[h] < f[j]
    BY CutsIncrease
  <1>3. Cardinality(seps) = m
    <2> DEFINE g == [k \in 1..m |-> f[k]]
    <2>1. \A k \in 1..m : k \in 0..m + 1 /\ f[0] < f[k] /\ f[k] < f[m + 1] /\ f[k] \in Nat
      BY <1>1, <1>2
    <2>2. \A k \in 1..m : f[k] \in seps
      BY <1>1, <2>1 DEF Separators
    <2>3. \A j, k \in 1..m : j # k => f[j] # f[k]
      <3> TAKE j, k \in 1..m
      <3>1. j \in 0..m + 1 /\ k \in 0..m + 1 /\ f[j] \in Nat /\ f[k] \in Nat
        BY <2>1
      <3>2. j # k => j < k \/ k < j
        OBVIOUS
      <3>3. QED
        BY <1>2, <3>1, <3>2
    <2>4. \A i \in seps : \E k \in 1..m : f[k] = i
      BY <1>1 DEF Separators
    <2>5. g \in Bijection(1..m, seps)
      <3>1. g \in [1..m -> seps]
        BY <2>2
      <3>2. \A j, k \in 1..m : g[j] = g[k] => j = k
        BY <2>3
      <3>3. \A i \in seps : \E k \in 1..m : g[k] = i
        BY <2>4
      <3> HIDE DEF g
      <3>4. QED
        BY <3>1, <3>2, <3>3 DEF Bijection, Injection, Surjection, IsInjective
    <2>6. IsFiniteSet(1..m) /\ Cardinality(1..m) = m
      BY <1>1, FS_Interval
    <2> HIDE DEF g
    <2>7. QED
      BY <2>5, <2>6, FS_Bijection DEF ExistsBijection
  <1>4. ASSUME NEW k \in 1..m + 1 PROVE f[k] = ColumnEnd(s, sep, f[k - 1] + 1)
    <2>1. Position(s, sep, f[k - 1] + 1) = IF k = m + 1 THEN 0 ELSE f[k]
      BY NextCut
    <2>2. f[k] # 0
      <3>1. 0 \in 0..m + 1 /\ k \in 0..m + 1 /\ 0 < k
        BY <1>1
      <3>2. QED
        BY <1>1, <1>2, <3>1
    <2>3. QED
      BY <1>1, <2>1, <2>2 DEF ColumnEnd
  <1>5. f = [k \in 0..m + 1 |-> IF k = 0 THEN 0 ELSE ColumnEnd(s, sep, f[k - 1] + 1)]
    <2>1. \A k \in 0..m + 1 : f[k] = IF k = 0 THEN 0 ELSE ColumnEnd(s, sep, f[k - 1] + 1)
      BY <1>1, <1>4
    <2>2. QED
      BY <1>1, <2>1
  <1>6. end = [k \in 0..m + 1 |-> IF k = 0 THEN 0 ELSE ColumnEnd(s, sep, end[k - 1] + 1)]
    BY <1>3, <1>5 DEF ColumnEnds
  <1> HIDE DEF end
  <1>7. \A k \in 0..m + 1 : end[k] = f[k]
    <2> DEFINE S == {k \in 0..m + 1 : end[k] = f[k]}
    <2>1. 0 \in S
      BY <1>1, <1>6
    <2>2. ASSUME NEW k \in 1..m + 1, k - 1 \in S PROVE k \in S
      <3>1. end[k] = ColumnEnd(s, sep, end[k - 1] + 1)
        BY <1>1, <1>6
      <3>2. QED
        BY <1>1, <1>4, <2>2, <3>1
    <2>3. 0..m + 1 \subseteq S
      <3> HIDE DEF S
      <3>1. m + 1 \in Nat
        BY <1>1
      <3>2. QED
        BY <2>1, <2>2, <3>1, Induction
    <2>4. QED
      BY <2>3
  <1>8. Split(s, sep) = [k \in 1..m + 1 |-> SubSeq(s, end[k - 1] + 1, end[k] - 1)]
    BY <1>3 DEF Split, end
  <1>9. \A k \in 1..m + 1 : end[k - 1] = f[k - 1] /\ end[k] = f[k]
    BY <1>1, <1>7
  <1>10. QED
    BY <1>8, <1>9 DEF Columns

\* What lies between two positions of a text.
LEMMA Slice ==
  ASSUME NEW T, NEW s \in Seq(T), NEW a \in Nat, NEW b \in Nat, a < b, b <= Len(s) + 1
  PROVE  /\ SubSeq(s, a + 1, b - 1) \in Seq(T)
         /\ Len(SubSeq(s, a + 1, b - 1)) = b - a - 1
         /\ \A i \in 1..(b - a - 1) : a + i \in 1..Len(s) /\ SubSeq(s, a + 1, b - 1)[i] = s[a + i]
  <1>1. Len(s) \in Nat /\ b - 1 \in Nat /\ a + 1 \in Nat /\ b - 1 <= Len(s) /\ a + 1 <= b
    OBVIOUS
  <1>2. \A i \in 1..(b - a - 1) : a + i \in 1..Len(s) /\ (a + 1) + i - 1 = a + i
    BY <1>1
  <1>3. \A i \in 1..(b - a - 1) : s[a + i] \in T
    BY <1>2
  <1>4. SubSeq(s, a + 1, b - 1) = [i \in 1..(b - a - 1) |-> s[a + i]]
    BY <1>1, <1>2
  <1>5. b - a - 1 \in Nat
    BY <1>1
  <1>6. QED
    BY <1>2, <1>3, <1>4, <1>5

LEMMA SameSlice ==
  ASSUME NEW T, NEW s \in Seq(T), NEW a \in Nat, NEW b \in Nat, a < b, b <= Len(s) + 1,
         NEW t \in Seq(T), NEW n \in Nat, n + b <= Len(t) + 1,
         \A i \in a + 1..b - 1 : t[n + i] = s[i]
  PROVE  SubSeq(t, n + a + 1, n + b - 1) = SubSeq(s, a + 1, b - 1)
  <1> DEFINE u == SubSeq(s, a + 1, b - 1)
             v == SubSeq(t, (n + a) + 1, (n + b) - 1)
             l == b - a - 1
  <1>1. u \in Seq(T) /\ Len(u) = l /\ \A i \in 1..l : u[i] = s[a + i]
    BY Slice
  <1>2. n + a \in Nat /\ n + b \in Nat /\ n + a < n + b /\ (n + b) - (n + a) - 1 = l
    OBVIOUS
  <1>3. v \in Seq(T) /\ Len(v) = l /\ \A i \in 1..l : v[i] = t[(n + a) + i]
    BY <1>2, Slice
  <1>4. \A i \in 1..l : a + i \in a + 1..b - 1 /\ (n + a) + i = n + (a + i)
    OBVIOUS
  <1>5. \A i \in 1..l : u[i] = v[i]
    BY <1>1, <1>3, <1>4
  <1> HIDE DEF u, v, l
  <1>6. u = v
    BY <1>1, <1>3, <1>5
  <1>7. QED
    BY <1>6 DEF u, v

LEMMA TwoParts ==
  ASSUME NEW T, NEW u \in Seq(T), NEW v \in Seq(T), NEW w \in Seq(T), Len(w) = Len(u) + Len(v),
         \A k \in 1..Len(u) : w[k] = u[k],
         \A k \in 1..Len(v) : w[Len(u) + k] = v[k]
  PROVE  w = u \o v
  <1> DEFINE c == u \o v
  <1>1. c \in Seq(T) /\ Len(c) = Len(w)
    OBVIOUS
  <1>2. ASSUME NEW k \in 1..Len(w) PROVE w[k] = c[k]
    <2>1. CASE k \in 1..Len(u)
      BY <2>1
    <2>2. CASE k \notin 1..Len(u)
      <3>1. k - Len(u) \in 1..Len(v) /\ Len(u) + (k - Len(u)) = k
        BY <2>2
      <3>2. c[k] = v[k - Len(u)]
        BY <2>2
      <3>3. QED
        BY <3>1, <3>2
    <2>3. QED
      BY <2>1, <2>2
  <1> HIDE DEF c
  <1>3. w = c
    BY <1>1, <1>2
  <1>4. QED
    BY <1>3 DEF c

LEMMA FunctionIsSeq ==
  ASSUME NEW T, NEW n \in Nat, NEW w \in [1..n -> T]
  PROVE  w \in Seq(T) /\ Len(w) = n
  OBVIOUS

\* The columns of a text are texts.
LEMMA ColumnsAreTexts ==
  ASSUME NEW T, NEW s \in Seq(T), NEW sep, NEW m, NEW f, Cuts(s, sep, Len(s), m, f)
  PROVE  /\ Columns(s, m, f) \in Seq(Seq(T))
         /\ Len(Columns(s, m, f)) = m + 1
         /\ \A k \in 1..m + 1 : f[k] <= Len(s) + 1
  <1>1. m \in Nat /\ f \in [0..m + 1 -> Nat] /\ f[m + 1] = Len(s) + 1 /\ Len(s) \in Nat
    BY DEF Cuts
  <1>2. \A j, k \in 0..m + 1 : j < k => f[j] < f[k]
    BY <1>1, CutsIncrease
  <1>3. ASSUME NEW k \in 1..m + 1
        PROVE  f[k] <= Len(s) + 1 /\ SubSeq(s, f[k - 1] + 1, f[k] - 1) \in Seq(T)
    <2>1. k - 1 \in 0..m + 1 /\ k \in 0..m + 1 /\ m + 1 \in 0..m + 1 /\ (k = m + 1 \/ k < m + 1)
      BY <1>1
    <2>2. f[k - 1] \in Nat /\ f[k] \in Nat /\ f[k - 1] < f[k] /\ f[k] <= Len(s) + 1
      BY <1>1, <1>2, <2>1
    <2>3. QED
      BY <2>2, Slice
  <1>4. m + 1 \in Nat /\ Columns(s, m, f) \in [1..m + 1 -> Seq(T)]
    BY <1>1, <1>3, SMTT(30) DEF Columns
  <1>5. QED
    BY <1>3, <1>4, FunctionIsSeq

\* A text without the separator is one column.
LEMMA SplitPlain ==
  ASSUME NEW T, NEW s \in Seq(T), NEW sep, \A i \in 1..Len(s) : s[i] # sep
  PROVE  Split(s, sep) = <<s>>
  <1>1. PICK m, f : Cuts(s, sep, Len(s), m, f)
    <2>1. Len(s) \in Nat
      OBVIOUS
    <2>2. QED
      BY <2>1, CutsExist
  <1>2. /\ m \in Nat /\ f \in [0..m + 1 -> Nat] /\ f[0] = 0 /\ f[m + 1] = Len(s) + 1
        /\ \A k \in 1..m : s[f[k]] = sep
    BY <1>1 DEF Cuts
  <1>3. ASSUME NEW k \in 1..m PROVE FALSE
    <2>1. k \in 0..m + 1 /\ 0 \in 0..m + 1 /\ m + 1 \in 0..m + 1 /\ 0 < k /\ k < m + 1
      BY <1>2
    <2>2. \A i, j \in 0..m + 1 : i < j => f[i] < f[j]
      <3>1. Len(s) \in Nat
        OBVIOUS
      <3>2. QED
        BY <1>1, <3>1, CutsIncrease
    <2>3. f[0] < f[k] /\ f[k] < f[m + 1] /\ f[k] \in Nat
      BY <1>2, <2>1, <2>2
    <2>4. f[k] \in 1..Len(s)
      BY <1>2, <2>3
    <2>5. QED
      BY <1>2, <2>4
  <1>4. m = 0
    BY <1>2, <1>3
  <1> DEFINE c == Columns(s, m, f)
  <1>5. Split(s, sep) = c /\ c \in Seq(Seq(T)) /\ Len(c) = m + 1
    BY <1>1, ColumnsAreTexts, SplitIsColumns
  <1>6. c[1] = SubSeq(s, 1, Len(s))
    <2>1. f[1 - 1] + 1 = 1 /\ f[1] - 1 = Len(s) /\ 1 \in 1..m + 1
      BY <1>2, <1>4
    <2>2. c[1] = SubSeq(s, f[1 - 1] + 1, f[1] - 1)
      BY <2>1 DEF Columns
    <2>3. QED
      BY <2>1, <2>2
  <1>7. SubSeq(s, 1, Len(s)) = s
    OBVIOUS
  <1> HIDE DEF c
  <1>8. c = <<s>>
    BY <1>4, <1>5, <1>6, <1>7
  <1>9. QED
    BY <1>5, <1>8

Joins(s, x, sep, y) ==
    /\ Len(s) = Len(x) + 1 + Len(y)
    /\ \A i \in 1..Len(x) : s[i] = x[i]
    /\ s[Len(x) + 1] = sep
    /\ \A i \in 1..Len(y) : s[Len(x) + 1 + i] = y[i]

LEMMA JoinsText ==
  ASSUME NEW T, NEW x \in Seq(T), NEW y \in Seq(T), NEW sep \in T
  PROVE  x \o <<sep>> \o y \in Seq(T) /\ Joins(x \o <<sep>> \o y, x, sep, y)
  BY DEF Joins

\* A separator between two texts cuts there, and each of them as before.
LEMMA SplitConcat ==
  ASSUME NEW T, NEW x \in Seq(T), NEW y \in Seq(T), NEW sep \in T,
         NEW s \in Seq(T), Joins(s, x, sep, y)
  PROVE  Split(s, sep) = Split(x, sep) \o Split(y, sep)
  <1> DEFINE n == Len(x) + 1
  <1>1. PICK m, f : Cuts(x, sep, Len(x), m, f)
    <2>1. Len(x) \in Nat
      OBVIOUS
    <2>2. QED
      BY <2>1, CutsExist
  <1>2. PICK p, g : Cuts(y, sep, Len(y), p, g)
    <2>1. Len(y) \in Nat
      OBVIOUS
    <2>2. QED
      BY <2>1, CutsExist
  <1>3. /\ Len(x) \in Nat /\ Len(y) \in Nat
        /\ m \in Nat /\ f \in [0..m + 1 -> Nat] /\ f[0] = 0 /\ f[m + 1] = Len(x) + 1
        /\ \A k \in 1..m + 1 : f[k - 1] < f[k]
        /\ \A k \in 1..m : x[f[k]] = sep
        /\ \A i \in 1..Len(x) : x[i] = sep => \E k \in 1..m : f[k] = i
    BY <1>1 DEF Cuts
  <1>4. /\ p \in Nat /\ g \in [0..p + 1 -> Nat] /\ g[0] = 0 /\ g[p + 1] = Len(y) + 1
        /\ \A k \in 1..p + 1 : g[k - 1] < g[k]
        /\ \A k \in 1..p : y[g[k]] = sep
        /\ \A i \in 1..Len(y) : y[i] = sep => \E k \in 1..p : g[k] = i
    BY <1>2 DEF Cuts
  <1>5. m \in Nat /\ p \in Nat /\ Len(x) \in Nat /\ Len(y) \in Nat
    BY <1>3, <1>4
  <1>6. \A j, k \in 0..m + 1 : j < k => f[j] < f[k]
    BY <1>1, <1>3, CutsIncrease
  <1>7. \A j, k \in 0..p + 1 : j < k => g[j] < g[k]
    BY <1>2, <1>3, CutsIncrease
  <1>8. /\ s \in Seq(T) /\ Len(s) = n + Len(y) /\ n \in Nat
        /\ \A i \in 1..Len(x) : s[i] = x[i]
        /\ s[n] = sep
        /\ \A i \in 1..Len(y) : s[n + i] = y[i]
    BY <1>3 DEF Joins
  <1>9. s \in Seq(T) /\ n \in Nat
    OBVIOUS
  <1> DEFINE q == m + p + 1
             h == [k \in 0..q + 1 |-> IF k <= m + 1 THEN f[k] ELSE n + g[k - m - 1]]
  <1>10. /\ q \in Nat /\ h \in [0..q + 1 -> Nat]
         /\ \A k \in 0..m + 1 : h[k] = f[k]
         /\ \A k \in 0..p + 1 : h[m + 1 + k] = n + g[k]
    <2>1. \A k \in 0..q + 1 : k <= m + 1 => k \in 0..m + 1
      BY <1>3, <1>4
    <2>2. \A k \in 0..q + 1 : ~(k <= m + 1) => k - m - 1 \in 0..p + 1
      BY <1>3, <1>4
    <2>3. \A k \in 0..m + 1 : k \in 0..q + 1 /\ k <= m + 1
      BY <1>3, <1>4
    <2>4. \A k \in 0..p + 1 : m + 1 + k \in 0..q + 1 /\ (m + 1 + k <= m + 1 => k = 0) /\ (m + 1 + k) - m - 1 = k
      BY <1>3, <1>4
    <2>5. \A k \in 0..p + 1 : h[m + 1 + k] = n + g[k]
      <3> TAKE k \in 0..p + 1
      <3>1. CASE k = 0
        BY <1>3, <1>4, <2>3, <3>1
      <3>2. CASE k # 0
        BY <2>4, <3>2
      <3>3. QED
        BY <3>1, <3>2
    <2>6. h \in [0..q + 1 -> Nat]
      <3>1. ASSUME NEW k \in 0..q + 1
            PROVE  (IF k <= m + 1 THEN f[k] ELSE n + g[k - m - 1]) \in Nat
        <4>1. CASE k <= m + 1
          BY <1>3, <1>4, <2>1, <4>1
        <4>2. CASE ~(k <= m + 1)
          <5>1. g[k - m - 1] \in Nat
            BY <1>3, <1>4, <2>2, <4>2
          <5>2. QED
            BY <1>9, <4>2, <5>1
        <4>3. QED
          BY <4>1, <4>2
      <3>2. QED
        BY <3>1
    <2>7. QED
      BY <1>3, <1>4, <2>3, <2>5, <2>6, SMTT(30)
  <1> HIDE DEF h
  <1>11. q = m + p + 1
    OBVIOUS
  <1>12. /\ \A k \in 0..q + 1 : k \in 0..m + 1 \/ k \in m + 2..q + 1
         /\ \A k \in m + 2..q + 1 : k - m - 1 \in 1..p + 1 /\ k = m + 1 + (k - m - 1)
    BY <1>3, <1>4
  <1>13. h[0] = 0 /\ h[q + 1] = Len(s) + 1
    <2>1. 0 \in 0..m + 1 /\ p + 1 \in 0..p + 1 /\ q + 1 = m + 1 + (p + 1)
      BY <1>5
    <2>2. QED
      BY <1>3, <1>4, <1>8, <1>10, <2>1
  <1>14. ASSUME NEW k \in 1..q + 1 PROVE h[k - 1] < h[k]
    <2>1. CASE k \in 0..m + 1
      <3>1. k \in 1..m + 1 /\ k - 1 \in 0..m + 1
        BY <1>3, <2>1
      <3>2. QED
        BY <1>3, <1>10, <2>1, <3>1
    <2>2. CASE k \in m + 2..q + 1
      <3> DEFINE j == k - m - 1
      <3>1. j \in 1..p + 1 /\ j \in 0..p + 1 /\ j - 1 \in 0..p + 1 /\ k = m + 1 + j /\ k - 1 = m + 1 + (j - 1)
        BY <1>3, <1>4, <2>2
      <3>2. g[j - 1] < g[j] /\ g[j - 1] \in Nat /\ g[j] \in Nat
        BY <1>4, <3>1
      <3>3. h[k - 1] = n + g[j - 1] /\ h[k] = n + g[j]
        BY <1>10, <3>1
      <3>4. QED
        BY <1>8, <3>2, <3>3
    <2>3. QED
      BY <1>12, <2>1, <2>2
  <1>15. ASSUME NEW k \in 1..q PROVE s[h[k]] = sep
    <2>1. CASE k \in 1..m
      <3>1. k \in 0..m + 1 /\ m + 1 \in 0..m + 1 /\ 0 \in 0..m + 1 /\ 0 < k /\ k < m + 1 /\ f[k] \in Nat
        BY <1>3, <2>1
      <3>2. f[0] < f[k] /\ f[k] < f[m + 1]
        BY <1>6, <3>1
      <3>3. f[k] \in 1..Len(x)
        BY <1>3, <3>1, <3>2, SMTT(30)
      <3>4. QED
        <4>1. h[k] = f[k] /\ x[f[k]] = sep
          BY <1>3, <1>10, <2>1, <3>1
        <4>2. s[f[k]] = x[f[k]]
          BY <1>8, <3>3
        <4>3. QED
          BY <4>1, <4>2, Zenon
    <2>2. CASE k = m + 1
      <3>1. k \in 0..m + 1
        BY <1>3, <2>2
      <3>2. QED
        BY <1>3, <1>8, <1>10, <2>2, <3>1
    <2>3. CASE k \in m + 2..q
      <3> DEFINE j == k - m - 1
      <3>1. j \in 1..p /\ j \in 0..p + 1 /\ k = m + 1 + j /\ 0 \in 0..p + 1 /\ p + 1 \in 0..p + 1 /\ 0 < j /\ j < p + 1
        BY <1>3, <1>4, <2>3
      <3>2. g[0] < g[j] /\ g[j] < g[p + 1] /\ g[j] \in Nat
        BY <1>4, <1>7, <3>1
      <3> HIDE DEF j
      <3>3. g[j] \in 1..Len(y)
        <4>1. g[j] > 0 /\ g[j] < Len(y) + 1
          BY <1>4, <3>2
        <4>2. QED
          BY <1>5, <3>2, <4>1
      <3>4. h[k] = n + g[j]
        BY <1>10, <3>1
      <3>5. y[g[j]] = sep
        BY <1>4, <3>1
      <3>6. QED
        BY <1>8, <3>3, <3>4, <3>5
    <2>4. QED
      BY <1>3, <1>4, <2>1, <2>2, <2>3
  <1>16. ASSUME NEW i \in 1..Len(s), s[i] = sep PROVE \E k \in 1..q : h[k] = i
    <2>1. CASE i \in 1..Len(x)
      <3>1. PICK k \in 1..m : f[k] = i
        BY <1>3, <1>8, <1>16, <2>1
      <3>2. k \in 1..q /\ k \in 0..m + 1
        BY <1>3, <1>4
      <3>3. QED
        BY <1>10, <3>1, <3>2
    <2>2. CASE i = n
      <3>1. m + 1 \in 1..q /\ m + 1 \in 0..m + 1
        BY <1>3, <1>4
      <3>2. h[m + 1] = i
        BY <1>3, <1>10, <2>2, <3>1
      <3>3. QED
        BY <3>1, <3>2
    <2>3. CASE i \in n + 1..n + Len(y)
      <3> DEFINE j == i - n
      <3>1. j \in 1..Len(y) /\ i = n + j
        BY <1>9, <1>5, <2>3
      <3>2. y[j] = sep
        BY <1>8, <1>16, <3>1
      <3>3. PICK k \in 1..p : g[k] = j
        BY <1>4, <3>1, <3>2
      <3>4. m + 1 + k \in 1..q /\ k \in 0..p + 1
        BY <1>3, <1>4
      <3>5. h[m + 1 + k] = i
        BY <1>10, <3>1, <3>3, <3>4
      <3>6. QED
        BY <3>4, <3>5
    <2>4. QED
      BY <1>3, <1>8, <2>1, <2>2, <2>3
  <1> HIDE DEF q
  <1>17. Cuts(s, sep, Len(s), q, h)
    BY <1>10, <1>13, <1>14, <1>15, <1>16 DEF Cuts
  <1>18. Split(s, sep) = Columns(s, q, h) /\ Split(x, sep) = Columns(x, m, f) /\ Split(y, sep) = Columns(y, p, g)
    BY <1>1, <1>2, <1>8, <1>17, SplitIsColumns
  <1>19. ASSUME NEW k \in 1..m + 1
         PROVE  SubSeq(s, h[k - 1] + 1, h[k] - 1) = SubSeq(x, f[k - 1] + 1, f[k] - 1)
    <2>1. k - 1 \in 0..m + 1 /\ k \in 0..m + 1
      BY <1>3
    <2>2. /\ h[k - 1] = f[k - 1] /\ h[k] = f[k] /\ f[k - 1] \in Nat /\ f[k] \in Nat
          /\ f[k - 1] < f[k] /\ f[k] <= Len(x) + 1
      BY <1>1, <1>3, <1>10, <2>1, ColumnsAreTexts
    <2> DEFINE o == 0
    <2>3. /\ o \in Nat /\ o + f[k] = f[k] /\ o + f[k - 1] = f[k - 1] /\ o + f[k] <= Len(s) + 1
          /\ \A i \in f[k - 1] + 1..f[k] - 1 : o + i = i /\ i \in 1..Len(x)
      <3> DEFINE a == f[k - 1]
                 b == f[k]
      <3>1. a \in Nat /\ b \in Nat /\ a < b /\ b <= Len(x) + 1 /\ o \in Nat /\ o = 0
        BY <2>2
      <3>2. Len(x) \in Nat /\ Len(s) \in Nat /\ Len(x) <= Len(s)
        BY <1>3, <1>8, <1>5
      <3> HIDE DEF a, b, o
      <3>3. o + b = b /\ o + a = a /\ b <= Len(s) + 1
        BY <3>1, <3>2
      <3>4. \A i \in a + 1..b - 1 : o + i = i /\ i \in 1..Len(x)
        BY <3>1, <3>2
      <3>5. QED
        BY <3>1, <3>3, <3>4 DEF a, b
    <2> HIDE DEF o
    <2>4. \A i \in f[k - 1] + 1..f[k] - 1 : s[o + i] = x[i]
      BY <1>8, <2>3
    <2>5. SubSeq(s, o + f[k - 1] + 1, o + f[k] - 1) = SubSeq(x, f[k - 1] + 1, f[k] - 1)
      <3> DEFINE a == f[k - 1]
                 b == f[k]
      <3>1. a \in Nat /\ b \in Nat /\ a < b /\ b <= Len(x) + 1 /\ o + b <= Len(s) + 1 /\ o \in Nat
        BY <2>2, <2>3
      <3>2. \A i \in a + 1..b - 1 : s[o + i] = x[i]
        BY <2>4
      <3> HIDE DEF a, b
      <3>3. SubSeq(s, o + a + 1, o + b - 1) = SubSeq(x, a + 1, b - 1)
        BY <1>9, <3>1, <3>2, SameSlice
      <3>4. QED
        BY <3>3 DEF a, b
    <2>6. o + f[k - 1] + 1 = h[k - 1] + 1 /\ o + f[k] - 1 = h[k] - 1
      BY <2>2, <2>3
    <2>7. QED
      BY <2>5, <2>6, Zenon
  <1>20. ASSUME NEW k \in 1..p + 1
         PROVE  SubSeq(s, h[m + k] + 1, h[m + 1 + k] - 1) = SubSeq(y, g[k - 1] + 1, g[k] - 1)
    <2>1. k - 1 \in 0..p + 1 /\ k \in 0..p + 1 /\ m + k = m + 1 + (k - 1)
      BY <1>3, <1>4
    <2>2. /\ h[m + k] = n + g[k - 1] /\ h[m + 1 + k] = n + g[k] /\ g[k - 1] \in Nat /\ g[k] \in Nat
          /\ g[k - 1] < g[k] /\ g[k] <= Len(y) + 1
      BY <1>2, <1>4, <1>10, <2>1, ColumnsAreTexts
    <2> DEFINE a == g[k - 1]
               b == g[k]
    <2>3. a \in Nat /\ b \in Nat /\ a < b /\ b <= Len(y) + 1 /\ h[m + k] = n + a /\ h[m + 1 + k] = n + b
      BY <2>2
    <2> HIDE DEF a, b, n
    <2>4. n + b <= Len(s) + 1
      BY <1>3, <1>8, <2>3
    <2>5. \A i \in a + 1..b - 1 : s[n + i] = y[i]
      <3>1. \A i \in a + 1..b - 1 : i \in 1..Len(y)
        BY <1>3, <2>3
      <3>2. QED
        BY <1>8, <3>1
    <2>6. SubSeq(s, n + a + 1, n + b - 1) = SubSeq(y, a + 1, b - 1)
      <3>1. a \in Nat /\ b \in Nat /\ a < b /\ b <= Len(y) + 1
        BY <2>3
      <3>2. QED
        BY <1>9, <2>4, <2>5, <3>1, SameSlice
    <2>7. n + a + 1 = h[m + k] + 1 /\ n + b - 1 = h[m + 1 + k] - 1
      BY <1>9, <2>3
    <2>8. QED
      BY <2>6, <2>7, Zenon DEF a, b
  <1>21. Columns(s, q, h) = Columns(x, m, f) \o Columns(y, p, g)
    <2> DEFINE u == Columns(x, m, f)
               v == Columns(y, p, g)
               w == Columns(s, q, h)
    <2>1. /\ u \in Seq(Seq(T)) /\ Len(u) = m + 1
          /\ v \in Seq(Seq(T)) /\ Len(v) = p + 1
          /\ w \in Seq(Seq(T)) /\ Len(w) = q + 1
      <3>1. u \in Seq(Seq(T)) /\ Len(u) = m + 1
        BY <1>1, ColumnsAreTexts
      <3>2. v \in Seq(Seq(T)) /\ Len(v) = p + 1
        BY <1>2, ColumnsAreTexts
      <3>3. w \in Seq(Seq(T)) /\ Len(w) = q + 1
        BY <1>17, <1>9, ColumnsAreTexts
      <3>4. QED
        BY <3>1, <3>2, <3>3
    <2>2. \A k \in 1..m + 1 : w[k] = u[k]
      <3> TAKE k \in 1..m + 1
      <3>1. k \in 1..q + 1
        BY <1>11, <1>3, <1>4
      <3>2. w[k] = SubSeq(s, h[k - 1] + 1, h[k] - 1)
        BY <3>1 DEF Columns
      <3>3. u[k] = SubSeq(x, f[k - 1] + 1, f[k] - 1)
        BY DEF Columns
      <3>4. QED
        BY <1>19, <3>2, <3>3
    <2>3. \A k \in 1..p + 1 : w[(m + 1) + k] = v[k]
      <3> TAKE k \in 1..p + 1
      <3>1. (m + 1) + k \in 1..q + 1 /\ (m + 1) + k - 1 = m + k /\ (m + 1) + k = m + 1 + k
        BY <1>11, <1>3, <1>4
      <3>2. w[(m + 1) + k] = SubSeq(s, h[m + k] + 1, h[m + 1 + k] - 1)
        <4> DEFINE i == (m + 1) + k
        <4>1. i \in 1..q + 1 /\ i - 1 = m + k /\ i = m + 1 + k
          BY <1>3, <3>1
        <4> HIDE DEF i
        <4>2. w[i] = SubSeq(s, h[i - 1] + 1, h[i] - 1)
          BY <4>1 DEF Columns
        <4> HIDE DEF w
        <4>3. w[i] = SubSeq(s, h[m + k] + 1, h[m + 1 + k] - 1)
          BY <4>1, <4>2
        <4>4. QED
          BY <4>3 DEF i
      <3>3. v[k] = SubSeq(y, g[k - 1] + 1, g[k] - 1)
        BY DEF Columns
      <3>4. QED
        BY <1>20, <3>1, <3>2, <3>3
    <2> HIDE DEF u, v, w
    <2>4. Len(w) = Len(u) + Len(v)
      BY <1>11, <1>3, <1>4, <2>1
    <2>5. w = u \o v
      <3> DEFINE U == Seq(T)
      <3>1. u \in Seq(U) /\ v \in Seq(U) /\ w \in Seq(U)
        BY <2>1
      <3>2. \A k \in 1..Len(u) : w[k] = u[k]
        BY <2>1, <2>2
      <3>3. \A k \in 1..Len(v) : w[Len(u) + k] = v[k]
        BY <2>1, <2>3
      <3> HIDE DEF U
      <3>4. QED
        BY <2>4, <3>1, <3>2, <3>3, TwoParts
    <2>6. QED
      BY <2>5 DEF u, v, w
  <1>22. QED
    BY <1>18, <1>21

----------------------------------------------------------------------------
(* Escaping.                                                               *)

\* The tokens of a text.
Digits == {"0", "1", "2", "3", "4", "5", "6", "7", "8", "9", "A", "B", "C", "D", "E", "F"}
Tokens == STRING \cup Unsafe \cup Digits

LEMMA Single ==
  ASSUME NEW T, NEW a \in T
  PROVE  <<a>> \in Seq(T) /\ Len(<<a>>) = 1 /\ <<a>>[1] = a
  OBVIOUS

LEMMA Triple ==
  ASSUME NEW T, NEW a \in T, NEW b \in T, NEW c \in T
  PROVE  /\ <<a, b, c>> \in Seq(T) /\ Len(<<a, b, c>>) = 3
         /\ <<a, b, c>>[1] = a /\ <<a, b, c>>[2] = b /\ <<a, b, c>>[3] = c
  OBVIOUS

LEMMA UpperDigit ==
  ASSUME NEW n \in 0..15
  PROVE  /\ UpperDigits[n + 1] \in Tokens \ Unsafe
         /\ IsDigit(UpperDigits[n + 1])
         /\ Digit(UpperDigits[n + 1]) = n
  <1> DEFINE d == UpperDigits[n + 1]
             Of == {m \in 0..15 : d \in {UpperDigits[m + 1], LowerDigits[m + 1]}}
  <1>1. \A m \in 0..15 : m \in {0, 1, 2, 3, 4, 5, 6, 7, 8, 9, 10, 11, 12, 13, 14, 15}
    OBVIOUS
  <1>2. d \in Tokens \ Unsafe
    <2>1. d \in Digits
      BY <1>1 DEF UpperDigits, Digits
    <2> HIDE DEF d
    <2>2. d \notin Unsafe
      BY <2>1 DEF Unsafe, Digits
    <2>3. QED
      BY <2>1, <2>2 DEF Tokens
  <1>3. \A m \in 0..15 : UpperDigits[m + 1] = d => m = n
    BY <1>1 DEF UpperDigits
  <1>4. \A m \in 0..15 : LowerDigits[m + 1] = d => m = n
    BY <1>1 DEF UpperDigits, LowerDigits
  <1>5. Of = {n}
    BY <1>3, <1>4
  <1>6. Digit(d) = CHOOSE m \in Of : TRUE
    BY DEF Digit
  <1>7. IsDigit(d)
    BY DEF IsDigit
  <1> HIDE DEF Of
  <1>8. Digit(d) = n
    BY <1>5, <1>6
  <1>9. QED
    BY <1>2, <1>7, <1>8

LEMMA CodeOf ==
  ASSUME NEW c, NEW n, <<c, n>> \in Codes,
         \A p \in Codes : p[1] = c <=> p[2] = n
  PROVE  Code(c) = n /\ Char(n) = c
  <1>1. <<c, n>>[1] = c /\ <<c, n>>[2] = n
    OBVIOUS
  <1>2. Code(c) = n
    <2> DEFINE q == CHOOSE p \in Codes : p[1] = c
    <2>1. q \in Codes /\ q[1] = c
      BY <1>1
    <2>2. Code(c) = q[2]
      BY DEF Code
    <2> HIDE DEF q
    <2>3. QED
      BY <2>1, <2>2
  <1>3. Char(n) = c
    <2> DEFINE q == CHOOSE p \in Codes : p[2] = n
    <2>1. q \in Codes /\ q[2] = n
      BY <1>1
    <2>2. Char(n) = q[1]
      BY <1>1 DEF Char
    <2> HIDE DEF q
    <2>3. QED
      BY <2>1, <2>2
  <1>4. QED
    BY <1>2, <1>3

LEMMA UnsafeCode ==
  ASSUME NEW c \in Unsafe
  PROVE  Code(c) \in 0..255 /\ Char(Code(c)) = c
  <1>1. CASE c = " "
    <2>1. <<" ", 32>> \in Codes /\ \A p \in Codes : p[1] = " " <=> p[2] = 32
      BY DEF Codes
    <2>2. Code(" ") = 32 /\ Char(32) = " "
      BY <2>1, CodeOf
    <2>3. 32 \in 0..255
      OBVIOUS
    <2>4. QED
      BY <1>1, <2>2, <2>3, Zenon
  <1>2. CASE c = "%"
    <2>1. <<"%", 37>> \in Codes /\ \A p \in Codes : p[1] = "%" <=> p[2] = 37
      BY DEF Codes
    <2>2. Code("%") = 37 /\ Char(37) = "%"
      BY <2>1, CodeOf
    <2>3. QED
      BY <1>2, <2>2
  <1>3. CASE c = "&"
    <2>1. <<"&", 38>> \in Codes /\ \A p \in Codes : p[1] = "&" <=> p[2] = 38
      BY DEF Codes
    <2>2. Code("&") = 38 /\ Char(38) = "&"
      BY <2>1, CodeOf
    <2>3. QED
      BY <1>3, <2>2
  <1>4. CASE c = "+"
    <2>1. <<"+", 43>> \in Codes /\ \A p \in Codes : p[1] = "+" <=> p[2] = 43
      BY DEF Codes
    <2>2. Code("+") = 43 /\ Char(43) = "+"
      BY <2>1, CodeOf
    <2>3. QED
      BY <1>4, <2>2
  <1>5. CASE c = "/"
    <2>1. <<"/", 47>> \in Codes /\ \A p \in Codes : p[1] = "/" <=> p[2] = 47
      BY DEF Codes
    <2>2. Code("/") = 47 /\ Char(47) = "/"
      BY <2>1, CodeOf
    <2>3. QED
      BY <1>5, <2>2
  <1>6. CASE c = ":"
    <2>1. <<":", 58>> \in Codes /\ \A p \in Codes : p[1] = ":" <=> p[2] = 58
      BY DEF Codes
    <2>2. Code(":") = 58 /\ Char(58) = ":"
      BY <2>1, CodeOf
    <2>3. QED
      BY <1>6, <2>2
  <1>7. CASE c = "="
    <2>1. <<"=", 61>> \in Codes /\ \A p \in Codes : p[1] = "=" <=> p[2] = 61
      BY DEF Codes
    <2>2. Code("=") = 61 /\ Char(61) = "="
      BY <2>1, CodeOf
    <2>3. QED
      BY <1>7, <2>2
  <1>8. CASE c = "?"
    <2>1. <<"?", 63>> \in Codes /\ \A p \in Codes : p[1] = "?" <=> p[2] = 63
      BY DEF Codes
    <2>2. Code("?") = 63 /\ Char(63) = "?"
      BY <2>1, CodeOf
    <2>3. QED
      BY <1>8, <2>2
  <1>9. QED
    BY <1>1, <1>2, <1>3, <1>4, <1>5, <1>6, <1>7, <1>8 DEF Unsafe

LEMMA CodedUnsafe ==
  ASSUME NEW c \in Unsafe
  PROVE  \E d, e \in Tokens \ Unsafe :
            /\ Coded(c) = <<"%", d, e>>
            /\ IsDigit(d) /\ IsDigit(e)
            /\ Char(16 * Digit(d) + Digit(e)) = c
  <1> DEFINE i == Code(c) \div 16
             j == Code(c) % 16
             d == UpperDigits[i + 1]
             e == UpperDigits[j + 1]
  <1>1. Code(c) \in 0..255 /\ Char(Code(c)) = c
    BY UnsafeCode
  <1>2. i \in 0..15 /\ j \in 0..15 /\ 16 * i + j = Code(c)
    BY <1>1
  <1>3. Coded(c) = <<"%", d, e>>
    BY DEF Coded
  <1> HIDE DEF i, j
  <1>4. /\ d \in Tokens \ Unsafe /\ IsDigit(d) /\ Digit(d) = i
        /\ e \in Tokens \ Unsafe /\ IsDigit(e) /\ Digit(e) = j
    BY <1>2, UpperDigit
  <1> HIDE DEF d, e
  <1>5. QED
    BY <1>1, <1>2, <1>3, <1>4

LEMMA CodedPlain ==
  ASSUME NEW c, c \notin Unsafe
  PROVE  Coded(c) = <<c>>
  BY DEF Coded

\* What escape() has written after k of the tokens.
Written(v, f) ==
    /\ f \in [0..Len(v) -> Seq(Tokens)]
    /\ f[0] = <<>>
    /\ \A k \in 1..Len(v) : f[k] = f[k - 1] \o Coded(v[k])

LEMMA CodedIsText ==
  ASSUME NEW c \in Tokens
  PROVE  /\ Coded(c) \in Seq(Tokens) /\ (Len(Coded(c)) = 1 \/ Len(Coded(c)) = 3)
         /\ \A i \in 1..Len(Coded(c)) : Coded(c)[i] \notin Unsafe \ {"%"}
  <1>1. CASE c \in Unsafe
    <2>1. PICK d, e \in Tokens \ Unsafe : Coded(c) = <<"%", d, e>>
      BY <1>1, CodedUnsafe
    <2> DEFINE t == <<"%", d, e>>
    <2>2. t \in Seq(Tokens) /\ Len(t) = 3 /\ t[1] = "%" /\ t[2] = d /\ t[3] = e
      <3>1. "%" \in Tokens /\ d \in Tokens /\ e \in Tokens
        BY DEF Tokens, Unsafe
      <3>2. QED
        BY <3>1, Triple
    <2> HIDE DEF t
    <2>3. \A i \in 1..Len(t) : t[i] \notin Unsafe \ {"%"}
      <3>1. \A i \in 1..Len(t) : i = 1 \/ i = 2 \/ i = 3
        BY <2>2
      <3>2. QED
        BY <2>2, <3>1
    <2>4. QED
      BY <2>1, <2>2, <2>3 DEF t
  <1>2. CASE c \notin Unsafe
    <2> DEFINE t == <<c>>
    <2>1. t \in Seq(Tokens) /\ Len(t) = 1 /\ t[1] = c
      BY Single
    <2>2. Coded(c) = t
      BY <1>2, CodedPlain
    <2> HIDE DEF t
    <2>3. \A i \in 1..Len(t) : t[i] \notin Unsafe \ {"%"}
      BY <1>2, <2>1
    <2>4. QED
      BY <2>1, <2>2, <2>3
  <1>3. QED
    BY <1>1, <1>2

LEMMA EscapeIsWritten ==
  ASSUME NEW v \in Seq(Tokens)
  PROVE  \E f : Written(v, f) /\ Escape(v) = f[Len(v)]
  <1> DEFINE n == Len(v)
             S == Seq(Tokens)
             G == [k \in 1..n |-> [t \in S |-> t \o Coded(v[k])]]
             Eq(f) == f = [k \in 0..n |-> IF k = 0 THEN <<>> ELSE f[k - 1] \o Coded(v[k])]
             e == CHOOSE f : Eq(f)
  <1>1. n \in Nat /\ \A k \in 1..n : v[k] \in Tokens
    OBVIOUS
  <1>2. G \in [1..n -> [S -> S]]
    <2>1. \A k \in 1..n : \A t \in S : t \o Coded(v[k]) \in S
      <3> TAKE k \in 1..n
      <3>1. Coded(v[k]) \in Seq(Tokens)
        BY <1>1, CodedIsText
      <3>2. QED
        BY <3>1
    <2>2. QED
      BY <2>1
  <1>3. <<>> \in S
    OBVIOUS
  <1>4. PICK f : Loop(f, n, S, <<>>, G)
    <2> HIDE DEF G, S, n
    <2>1. QED
      BY <1>1, <1>2, <1>3, LoopExists
  <1>5. f \in [0..n -> S] /\ f[0] = <<>> /\ \A k \in 1..n : f[k] = f[k - 1] \o Coded(v[k])
    <2>1. f \in [0..n -> S] /\ f[0] = <<>> /\ \A k \in 1..n : f[k] = G[k][f[k - 1]]
      BY <1>4 DEF Loop
    <2>2. ASSUME NEW k \in 1..n PROVE f[k] = f[k - 1] \o Coded(v[k])
      <3>1. k - 1 \in 0..n /\ f[k - 1] \in S
        BY <2>1, SMTT(30)
      <3>2. QED
        BY <2>1, <3>1
    <2>3. QED
      BY <2>1, <2>2
  <1> HIDE DEF G
  <1>6. Eq(f)
    <2>1. \A k \in 0..n : k # 0 => k \in 1..n
      OBVIOUS
    <2>2. \A k \in 0..n : f[k] = IF k = 0 THEN <<>> ELSE f[k - 1] \o Coded(v[k])
      BY <1>5, <2>1
    <2>3. f \in [0..n -> S]
      BY <1>5
    <2> HIDE DEF n, S
    <2>4. QED
      BY <2>2, <2>3
  <1>7. Eq(e)
    <2> HIDE DEF Eq
    <2>1. QED
      BY <1>6
  <1>8. Escape(v) = e[Len(v)]
    BY DEF Escape
  <1> HIDE DEF e
  <1>9. \A k \in 0..n : e[k] = f[k]
    <2> DEFINE D == {k \in 0..n : e[k] = f[k]}
    <2>1. 0 \in D
      BY <1>1, <1>5, <1>7
    <2>2. ASSUME NEW k \in 1..n, k - 1 \in D PROVE k \in D
      <3>1. e[k] = e[k - 1] \o Coded(v[k])
        BY <1>7
      <3>2. e[k - 1] = f[k - 1] /\ k \in 0..n
        BY <1>1, <2>2
      <3>3. f[k] = f[k - 1] \o Coded(v[k])
        BY <1>5
      <3>4. e[k] = f[k]
        BY <3>1, <3>2, <3>3
      <3>5. QED
        BY <3>2, <3>4
    <2>3. 0..n \subseteq D
      <3> HIDE DEF D, n
      <3>1. QED
        BY <1>1, <2>1, <2>2, Induction
    <2>4. QED
      BY <2>3
  <1>10. Written(v, f)
    BY <1>5 DEF Written
  <1>11. Escape(v) = f[n]
    BY <1>1, <1>8, <1>9
  <1>12. QED
    BY <1>10, <1>11

LEMMA PiecesOf ==
  ASSUME NEW T, NEW u \in Seq(T), NEW v \in Seq(T)
  PROVE  /\ u \o v \in Seq(T) /\ Len(u \o v) = Len(u) + Len(v)
         /\ \A i \in 1..Len(u) : (u \o v)[i] = u[i]
         /\ \A i \in 1..Len(v) : (u \o v)[Len(u) + i] = v[i]
  OBVIOUS

\* A text b begins with a.
Begins(a, b) == Len(a) <= Len(b) /\ \A i \in 1..Len(a) : b[i] = a[i]

\* What has been written stays, and every token adds to it.
LEMMA WrittenGrows ==
  ASSUME NEW v \in Seq(Tokens), NEW f, Written(v, f)
  PROVE  /\ \A k \in 0..Len(v) : Len(f[k]) >= k
         /\ \A k \in 1..Len(v) :
               /\ Len(f[k]) = Len(f[k - 1]) + Len(Coded(v[k]))
               /\ \A i \in 1..Len(Coded(v[k])) : f[k][Len(f[k - 1]) + i] = Coded(v[k])[i]
         /\ \A k \in 0..Len(v) : \A l \in 0..Len(v) : k <= l => Begins(f[k], f[l])
  <1> DEFINE n == Len(v)
  <1>1. /\ n \in Nat /\ f \in [0..n -> Seq(Tokens)] /\ f[0] = <<>>
        /\ \A k \in 1..n : f[k] = f[k - 1] \o Coded(v[k])
    BY DEF Written
  <1>2. ASSUME NEW k \in 1..n
        PROVE  /\ k - 1 \in 0..n /\ k \in 0..n
               /\ f[k - 1] \in Seq(Tokens) /\ Coded(v[k]) \in Seq(Tokens) /\ (Len(Coded(v[k])) = 1 \/ Len(Coded(v[k])) = 3)
               /\ Len(f[k]) = Len(f[k - 1]) + Len(Coded(v[k]))
               /\ \A i \in 1..Len(f[k - 1]) : f[k][i] = f[k - 1][i]
               /\ \A i \in 1..Len(Coded(v[k])) : f[k][Len(f[k - 1]) + i] = Coded(v[k])[i]
    <2>1. k - 1 \in 0..n /\ k \in 0..n /\ f[k - 1] \in Seq(Tokens) /\ f[k] = f[k - 1] \o Coded(v[k])
      <3>1. k - 1 \in 0..n /\ k \in 0..n
        BY <1>1
      <3>2. f[k - 1] \in Seq(Tokens)
        BY <1>1, <3>1
      <3>3. QED
        BY <1>1, <3>1, <3>2
    <2>2. v[k] \in Tokens
      OBVIOUS
    <2>3. Coded(v[k]) \in Seq(Tokens) /\ (Len(Coded(v[k])) = 1 \/ Len(Coded(v[k])) = 3)
      BY <2>2, CodedIsText
    <2> DEFINE a == f[k - 1]
               b == Coded(v[k])
               c == f[k]
    <2>4. a \in Seq(Tokens) /\ b \in Seq(Tokens) /\ c = a \o b
      BY <2>1, <2>3
    <2> HIDE DEF a, b, c
    <2>5. /\ Len(c) = Len(a) + Len(b)
          /\ \A i \in 1..Len(a) : c[i] = a[i]
          /\ \A i \in 1..Len(b) : c[Len(a) + i] = b[i]
      BY <2>4, PiecesOf
    <2>6. QED
      BY <2>1, <2>3, <2>5 DEF a, b, c
  <1>3. \A k \in 0..n : Len(f[k]) \in Nat
    BY <1>1
  <1>4. \A k \in 0..n : Len(f[k]) >= k
    <2> DEFINE S == {k \in 0..n : Len(f[k]) >= k}
    <2>1. 0 \in S
      BY <1>1
    <2>2. ASSUME NEW k \in 1..n, k - 1 \in S PROVE k \in S
      <3>1. Len(f[k - 1]) >= k - 1 /\ k \in 0..n /\ Len(f[k - 1]) \in Nat
        BY <1>1, <1>3, <2>2
      <3>2. Len(f[k]) >= Len(f[k - 1]) + 1
        <4>1. Len(f[k]) = Len(f[k - 1]) + Len(Coded(v[k])) /\ (Len(Coded(v[k])) = 1 \/ Len(Coded(v[k])) = 3)
          BY <1>2
        <4> DEFINE x == Len(Coded(v[k]))
        <4>2. x = 1 \/ x = 3
          BY <4>1
        <4>3. Len(f[k]) = Len(f[k - 1]) + x
          BY <4>1
        <4> HIDE DEF x
        <4>4. x >= 1 /\ x \in Nat
          BY <4>2
        <4>5. QED
          BY <3>1, <4>3, <4>4
      <3>3. Len(f[k]) >= k
        BY <1>1, <1>3, <3>1, <3>2
      <3>4. QED
        BY <3>1, <3>3
    <2>3. 0..n \subseteq S
      <3> HIDE DEF S, n
      <3>1. QED
        BY <1>1, <2>1, <2>2, Induction
    <2>4. QED
      BY <2>3
  <1>5. ASSUME NEW k \in 0..n
        PROVE  \A l \in 0..n : k <= l => Begins(f[k], f[l])
    <2> DEFINE Same(l) == Begins(f[k], f[l])
               S == {l \in 0..n : k <= l => Same(l)}
    <2>1. Same(k)
      BY <1>3 DEF Begins
    <2>2. 0 \in S
      <3>1. 0 \in 0..n /\ (k <= 0 => k = 0)
        BY <1>1
      <3> HIDE DEF Same
      <3>2. QED
        BY <2>1, <3>1
    <2>3. ASSUME NEW l \in 1..n, l - 1 \in S PROVE l \in S
      <3>1. CASE k <= l - 1
        <4>1. Len(f[k]) <= Len(f[l - 1]) /\ \A i \in 1..Len(f[k]) : f[l - 1][i] = f[k][i]
          BY <2>3, <3>1 DEF Begins
        <4>2. Len(f[k]) \in Nat /\ Len(f[l - 1]) \in Nat /\ Len(f[l]) \in Nat /\ Len(f[l - 1]) <= Len(f[l])
          <5>1. k \in 0..n /\ l - 1 \in 0..n /\ l \in 0..n
            BY <1>2
          <5>2. Len(f[k]) \in Nat /\ Len(f[l - 1]) \in Nat /\ Len(f[l]) \in Nat
            BY <1>3, <5>1
          <5>3. Len(f[l]) = Len(f[l - 1]) + Len(Coded(v[l])) /\ (Len(Coded(v[l])) = 1 \/ Len(Coded(v[l])) = 3)
            BY <1>2
          <5> DEFINE x == Len(Coded(v[l]))
          <5>4. x \in Nat /\ Len(f[l]) = Len(f[l - 1]) + x
            BY <5>3
          <5> HIDE DEF x
          <5>5. QED
            BY <5>2, <5>4
        <4>3. \A i \in 1..Len(f[k]) : i \in 1..Len(f[l - 1])
          BY <4>1, <4>2
        <4>4. \A i \in 1..Len(f[k]) : f[l][i] = f[k][i]
          BY <1>2, <4>1, <4>3
        <4>5. Same(l)
          BY <4>1, <4>2, <4>4 DEF Begins
        <4>6. QED
          BY <4>5
      <3>2. CASE k = l
        <4> HIDE DEF Same
        <4>1. QED
          BY <2>1, <3>2
      <3>3. CASE k > l
        BY <3>3
      <3>4. QED
        BY <1>1, <3>1, <3>2, <3>3
    <2>4. 0..n \subseteq S
      <3> HIDE DEF S, n
      <3>1. QED
        BY <1>1, <2>2, <2>3, Induction
    <2>5. QED
      BY <2>4
  <1>6. QED
    BY <1>2, <1>4, <1>5

\* What escape() writes is a text without the tokens that have a meaning,
\* '%' apart.
LEMMA EscapeIsSafe ==
  ASSUME NEW v \in Seq(Tokens)
  PROVE  /\ Escape(v) \in Seq(Tokens)
         /\ \A i \in 1..Len(Escape(v)) : Escape(v)[i] \notin Unsafe \ {"%"}
  <1> DEFINE n == Len(v)
             Safe == {t \in Seq(Tokens) : \A i \in 1..Len(t) : t[i] \notin Unsafe \ {"%"}}
  <1>1. PICK f : Written(v, f) /\ Escape(v) = f[n]
    BY EscapeIsWritten
  <1>2. n \in Nat /\ f \in [0..n -> Seq(Tokens)] /\ f[0] = <<>>
    BY <1>1 DEF Written
  <1> DEFINE S == {k \in 0..n : f[k] \in Safe}
  <1>3. 0 \in S
    BY <1>2
  <1>4. ASSUME NEW k \in 1..n, k - 1 \in S PROVE k \in S
    <2> DEFINE a == f[k - 1]
               b == Coded(v[k])
               c == f[k]
    <2>1. v[k] \in Tokens
      OBVIOUS
    <2>2. b \in Safe
      BY <2>1, CodedIsText
    <2>3. a \in Safe /\ c = a \o b /\ k \in 0..n
      <3>1. a \in Safe
        BY <1>4
      <3>2. c = a \o b
        BY <1>1 DEF Written
      <3>3. k \in 0..n
        BY <1>2
      <3>4. QED
        BY <3>1, <3>2, <3>3
    <2> HIDE DEF a, b, c
    <2>4. /\ c \in Seq(Tokens) /\ Len(c) = Len(a) + Len(b) /\ Len(a) \in Nat /\ Len(b) \in Nat
          /\ \A i \in 1..Len(a) : c[i] = a[i]
          /\ \A i \in 1..Len(b) : c[Len(a) + i] = b[i]
      BY <2>2, <2>3, PiecesOf
    <2>5. ASSUME NEW i \in 1..Len(c) PROVE c[i] \notin Unsafe \ {"%"}
      <3>1. CASE i \in 1..Len(a)
        BY <2>3, <2>4, <3>1
      <3>2. CASE i \notin 1..Len(a)
        <4>1. i - Len(a) \in 1..Len(b) /\ i = Len(a) + (i - Len(a))
          BY <2>4, <3>2
        <4>2. c[i] = b[i - Len(a)]
          BY <2>4, <4>1
        <4>3. QED
          BY <2>2, <4>1, <4>2
      <3>3. QED
        BY <3>1, <3>2
    <2>6. c \in Safe
      BY <2>4, <2>5
    <2> HIDE DEF Safe
    <2>7. QED
      BY <2>3, <2>6 DEF c
  <1>5. 0..n \subseteq S
    <2> HIDE DEF S, n
    <2>1. QED
      BY <1>2, <1>3, <1>4, Induction
  <1>6. QED
    BY <1>1, <1>2, <1>5

\* unescape() reads what escape() has written.
THEOREM UnescapeEscape ==
  ASSUME NEW v \in Seq(Tokens)
  PROVE  Unescape(Escape(v)) = v
  <1> DEFINE n == Len(v)
             s == Escape(v)
             m == Len(s)
  <1>1. PICK f : Written(v, f) /\ s = f[n]
    BY EscapeIsWritten
  <1>2. /\ s \in Seq(Tokens) /\ m \in Nat /\ n \in Nat
        /\ \A i \in 1..m : s[i] # "+"
    <2>1. s \in Seq(Tokens) /\ \A i \in 1..m : s[i] \notin Unsafe \ {"%"}
      BY EscapeIsSafe
    <2> HIDE DEF s
    <2>2. "+" \in Unsafe \ {"%"}
      BY DEF Unsafe
    <2>3. QED
      BY <2>1, <2>2
  <1>3. /\ \A k \in 0..n : Len(f[k]) \in Nat /\ Len(f[k]) >= k /\ Len(f[k]) <= m
        /\ \A k \in 1..n : Len(f[k]) = Len(f[k - 1]) + Len(Coded(v[k]))
        /\ \A k \in 1..n : \A i \in 1..Len(Coded(v[k])) : s[Len(f[k - 1]) + i] = Coded(v[k])[i]
    <2>1. f \in [0..n -> Seq(Tokens)] /\ n \in 0..n
      BY <1>1, <1>2 DEF Written
    <2>2. /\ \A k \in 0..n : Len(f[k]) >= k
          /\ \A k \in 1..n :
               /\ Len(f[k]) = Len(f[k - 1]) + Len(Coded(v[k]))
               /\ \A i \in 1..Len(Coded(v[k])) : f[k][Len(f[k - 1]) + i] = Coded(v[k])[i]
          /\ \A k \in 0..n : \A l \in 0..n : k <= l => Begins(f[k], f[l])
      <3>1. Written(v, f)
        BY <1>1
      <3>2. QED
        BY <3>1, WrittenGrows
    <2>3. \A k \in 0..n : Len(f[k]) \in Nat /\ Len(f[k]) <= m /\ \A i \in 1..Len(f[k]) : s[i] = f[k][i]
      <3> TAKE k \in 0..n
      <3>1. f[k] \in Seq(Tokens) /\ k <= n /\ n \in 0..n
        BY <1>2, <2>1, SMTT(30)
      <3>2. Begins(f[k], s)
        BY <1>1, <2>2, <3>1
      <3>3. QED
        BY <3>1, <3>2 DEF Begins
    <2>4. ASSUME NEW k \in 1..n, NEW i \in 1..Len(Coded(v[k]))
          PROVE  s[Len(f[k - 1]) + i] = Coded(v[k])[i]
      <3>1. k - 1 \in 0..n /\ k \in 0..n /\ Len(f[k - 1]) \in Nat /\ Len(f[k]) \in Nat
        BY <2>3
      <3>2. Len(f[k]) = Len(f[k - 1]) + Len(Coded(v[k]))
        BY <2>2
      <3>3. Len(f[k - 1]) + i \in 1..Len(f[k])
        <4>1. v[k] \in Tokens
          OBVIOUS
        <4>2. Len(Coded(v[k])) \in Nat
          BY <4>1, CodedIsText
        <4>3. QED
          <5>1. Len(f[k - 1]) + i <= Len(f[k]) /\ Len(f[k - 1]) + i >= 1 /\ Len(f[k - 1]) + i \in Nat
            BY <3>1, <3>2, <4>2
          <5>2. QED
            BY <3>1, <5>1
      <3>4. QED
        BY <2>2, <2>3, <3>1, <3>3
    <2>5. QED
      BY <2>2, <2>3, <2>4
  <1> HIDE DEF s, n, m
  <1>4. Spaces(s) = s
    <2>1. \A i \in 1..Len(s) : s[i] # "+"
      BY <1>2 DEF m
    <2>2. Spaces(s) = [i \in 1..Len(s) |-> s[i]]
      BY <2>1 DEF Spaces
    <2>3. s = [i \in 1..Len(s) |-> s[i]]
      BY <1>2
    <2>4. QED
      BY <2>2, <2>3
  <1> DEFINE text(k) == SubSeq(v, 1, k)
             state(k) == [next |-> Len(f[k]) + 1, text |-> text(k)]
             r == [k \in 0..m |-> IF k <= n THEN state(k) ELSE state(n)]
             Eq(e) == e = [k \in 0..m |-> IF k = 0 THEN [next |-> 1, text |-> <<>>] ELSE Read(s, e[k - 1])]
             e == CHOOSE q : Eq(q)
  <1>5. /\ text(0) = <<>> /\ text(n) = v
        /\ \A k \in 1..n : text(k) = Append(text(k - 1), v[k])
    BY DEF n
  <1>6. Len(f[0]) = 0 /\ Len(f[n]) = m /\ n <= m
    BY <1>1, <1>2, <1>3 DEF Written, m
  <1>7. ASSUME NEW k \in 1..n PROVE Read(s, state(k - 1)) = state(k)
    <2> DEFINE i == Len(f[k - 1]) + 1
               c == v[k]
    <2>1. c \in Tokens
      BY DEF n
    <2>2. /\ k - 1 \in 0..n /\ k \in 0..n /\ Len(f[k - 1]) \in Nat /\ Len(f[k]) \in Nat /\ Len(f[k]) <= m
          /\ Len(f[k]) = Len(f[k - 1]) + Len(Coded(c))
          /\ \A j \in 1..Len(Coded(c)) : s[Len(f[k - 1]) + j] = Coded(c)[j]
      <3>1. k - 1 \in 0..n /\ k \in 0..n
        BY <1>2
      <3>2. Len(f[k - 1]) \in Nat /\ Len(f[k]) \in Nat /\ Len(f[k]) <= m
        BY <1>3, <3>1
      <3>3. QED
        BY <1>3, <3>1, <3>2
    <2>3. CASE c \in Unsafe
      <3>1. PICK d, e1 \in Tokens \ Unsafe :
               /\ Coded(c) = <<"%", d, e1>>
               /\ IsDigit(d) /\ IsDigit(e1)
               /\ Char(16 * Digit(d) + Digit(e1)) = c
        BY <2>3, CodedUnsafe
      <3>2. Len(Coded(c)) = 3 /\ Coded(c)[1] = "%" /\ Coded(c)[2] = d /\ Coded(c)[3] = e1
        BY <3>1
      <3>3. /\ s[i] = "%" /\ s[i + 1] = d /\ s[i + 2] = e1
            /\ i + 3 = Len(f[k]) + 1 /\ i + 2 <= m /\ i \in Nat
        <4>1. 1 \in 1..Len(Coded(c)) /\ 2 \in 1..Len(Coded(c)) /\ 3 \in 1..Len(Coded(c))
          BY <3>2
        <4>2. Len(f[k - 1]) + 1 = i /\ Len(f[k - 1]) + 2 = i + 1 /\ Len(f[k - 1]) + 3 = i + 2
          BY <2>2
        <4>3. i + 3 = Len(f[k]) + 1 /\ i + 2 <= m /\ i \in Nat
          BY <1>2, <2>2, <3>2
        <4> HIDE DEF i
        <4>4. QED
          BY <2>2, <3>2, <4>1, <4>2, <4>3
      <3> HIDE DEF i, c
      <3>4. Escaped(s, i) /\ ~(i > m)
        BY <1>2, <3>1, <3>3 DEF Escaped, m
      <3> DEFINE q == [next |-> i, text |-> text(k - 1)]
      <3>5. Read(s, q) = [next |-> i + 3, text |-> Append(text(k - 1), Char(16 * Digit(d) + Digit(e1)))]
        <4>1. q.next = i /\ q.text = text(k - 1)
          OBVIOUS
        <4> HIDE DEF q, text
        <4>2. QED
          BY <3>3, <3>4, <4>1 DEF Read, m
      <3>6. Append(text(k - 1), c) = text(k)
        BY <1>5 DEF c
      <3> HIDE DEF text
      <3>7. Read(s, q) = [next |-> Len(f[k]) + 1, text |-> text(k)]
        BY <3>1, <3>3, <3>5, <3>6
      <3>8. QED
        BY <3>7 DEF i
    <2>4. CASE c \notin Unsafe
      <3>1. Coded(c) = <<c>>
        BY <2>4, CodedPlain
      <3>2. Len(Coded(c)) = 1 /\ Coded(c)[1] = c
        BY <3>1
      <3>3. s[i] = c /\ i + 1 = Len(f[k]) + 1 /\ i <= m /\ i \in Nat
        <4>1. 1 \in 1..Len(Coded(c))
          BY <3>2
        <4>2. s[i] = c
          BY <2>2, <3>2, <4>1
        <4>3. QED
          BY <1>2, <2>2, <3>2, <4>2
      <3>4. c # "%"
        BY <2>4 DEF Unsafe
      <3> HIDE DEF i, c
      <3>5. ~Escaped(s, i) /\ ~(i > m)
        BY <1>2, <3>3, <3>4 DEF Escaped
      <3> DEFINE q == [next |-> i, text |-> text(k - 1)]
      <3>6. Read(s, q) = [next |-> i + 1, text |-> Append(text(k - 1), c)]
        <4>1. q.next = i /\ q.text = text(k - 1)
          OBVIOUS
        <4> HIDE DEF q, text
        <4>2. QED
          BY <3>3, <3>5, <4>1 DEF Read, m
      <3>7. Append(text(k - 1), c) = text(k)
        BY <1>5 DEF c
      <3> HIDE DEF text
      <3>8. Read(s, q) = [next |-> Len(f[k]) + 1, text |-> text(k)]
        BY <3>3, <3>6, <3>7
      <3>9. QED
        BY <3>8 DEF i
    <2>5. QED
      BY <2>3, <2>4
  <1>8. Read(s, state(n)) = state(n)
    <2> DEFINE q == state(n)
    <2>1. q.next = m + 1
      BY <1>6
    <2> HIDE DEF q
    <2>2. Read(s, q) = q
      BY <1>2, <2>1 DEF Read, m
    <2>3. QED
      BY <2>2 DEF q
  <1>9. state(0) = [next |-> 1, text |-> <<>>]
    BY <1>5, <1>6
  <1> HIDE DEF state
  <1>10. ASSUME NEW k \in 1..m PROVE r[k] = Read(s, r[k - 1])
    <2>1. k \in 0..m /\ k - 1 \in 0..m
      BY <1>2
    <2>2. CASE k <= n
      BY <1>2, <1>7, <2>1, <2>2
    <2>3. CASE ~(k <= n)
      <3>1. r[k] = state(n)
        BY <2>1, <2>3
      <3>2. r[k - 1] = state(n)
        <4>1. k - 1 <= n => k - 1 = n
          BY <1>2, <2>3
        <4>2. QED
          BY <2>1, <4>1
      <3>3. QED
        BY <1>8, <3>1, <3>2
    <2>4. QED
      BY <2>2, <2>3
  <1>11. r[0] = [next |-> 1, text |-> <<>>] /\ r[m] = state(n)
    <2>1. 0 \in 0..m /\ m \in 0..m /\ 0 <= n /\ (m <= n => m = n)
      BY <1>2, <1>6
    <2>2. QED
      BY <1>9, <2>1
  <1>12. Eq(r)
    <2>1. \A k \in 0..m : k # 0 => k \in 1..m
      BY <1>2
    <2>2. r = [k \in 0..m |-> r[k]]
      OBVIOUS
    <2> HIDE DEF r
    <2>3. \A k \in 0..m : r[k] = IF k = 0 THEN [next |-> 1, text |-> <<>>] ELSE Read(s, r[k - 1])
      BY <1>10, <1>11, <2>1
    <2>4. QED
      BY <2>2, <2>3
  <1> HIDE DEF r
  <1>13. Eq(e)
    <2> HIDE DEF Eq
    <2>1. QED
      BY <1>12
  <1>14. Decode(s) = e[m].text
    BY DEF Decode, m
  <1> HIDE DEF e
  <1>15. \A k \in 0..m : e[k] = r[k]
    <2> DEFINE D == {k \in 0..m : e[k] = r[k]}
    <2>1. 0 \in D
      BY <1>2, <1>11, <1>13
    <2>2. ASSUME NEW k \in 1..m, k - 1 \in D PROVE k \in D
      <3>1. k \in 0..m /\ k # 0 /\ e[k - 1] = r[k - 1]
        BY <1>2, <2>2
      <3>2. e[k] = Read(s, e[k - 1])
        BY <1>13, <3>1
      <3>3. QED
        BY <1>10, <3>1, <3>2
    <2>3. 0..m \subseteq D
      <3> HIDE DEF D
      <3>1. QED
        BY <1>2, <2>1, <2>2, Induction
    <2>4. QED
      BY <2>3
  <1>16. e[m] = state(n)
    BY <1>2, <1>11, <1>15
  <1>17. state(n).text = v
    BY <1>5 DEF state
  <1>18. QED
    BY <1>4, <1>14, <1>16, <1>17 DEF Unescape, s

----------------------------------------------------------------------------
(* Putting texts together and finding their parts.                         *)
LEMMA SeqGrows ==
  ASSUME NEW S, NEW T, S \subseteq T
  PROVE  Seq(S) \subseteq Seq(T)
  <1> SUFFICES ASSUME NEW s \in Seq(S) PROVE s \in Seq(T)
    OBVIOUS
  <1> DEFINE n == Len(s)
  <1>1. n \in Nat /\ s = [k \in 1..n |-> s[k]] /\ \A k \in 1..n : s[k] \in S
    OBVIOUS
  <1>2. \A k \in 1..n : s[k] \in T
    BY <1>1
  <1> HIDE DEF n
  <1>3. s \in [1..n -> T]
    BY <1>1, <1>2
  <1>4. QED
    BY <1>1, <1>3, FunctionIsSeq

LEMMA ConcatEmpty ==
  ASSUME NEW T, NEW a \in Seq(T), NEW b \in Seq(T)
  PROVE  /\ a = <<>> => a \o b = b
         /\ b = <<>> => a \o b = a
         /\ a \o b = <<>> <=> a = <<>> /\ b = <<>>
  <1> DEFINE s == a \o b
  <1>1. /\ s \in Seq(T) /\ Len(s) = Len(a) + Len(b)
        /\ \A k \in 1..Len(a) : s[k] = a[k]
        /\ \A k \in 1..Len(b) : s[Len(a) + k] = b[k]
    BY PiecesOf
  <1>2. Len(a) \in Nat /\ Len(b) \in Nat
    OBVIOUS
  <1> HIDE DEF s
  <1>3. ASSUME a = <<>> PROVE s = b
    <2>1. Len(a) = 0
      BY <1>3
    <2>2. Len(s) = Len(b) /\ \A k \in 1..Len(b) : s[k] = b[k]
      BY <1>1, <1>2, <2>1
    <2>3. QED
      BY <1>1, <2>2
  <1>4. ASSUME b = <<>> PROVE s = a
    <2>1. Len(b) = 0
      BY <1>4
    <2>2. Len(s) = Len(a) /\ \A k \in 1..Len(a) : s[k] = a[k]
      BY <1>1, <1>2, <2>1
    <2>3. QED
      BY <1>1, <2>2
  <1>5. s = <<>> <=> a = <<>> /\ b = <<>>
    BY <1>1, <1>2
  <1>6. QED
    BY <1>3, <1>4, <1>5 DEF s

LEMMA ConcatAssoc ==
  ASSUME NEW T, NEW a \in Seq(T), NEW b \in Seq(T), NEW c \in Seq(T)
  PROVE  (a \o b) \o c = a \o (b \o c)
  <1> DEFINE u == a \o b
             v == b \o c
             w == u \o c
  <1>1. Len(a) \in Nat /\ Len(b) \in Nat /\ Len(c) \in Nat
    OBVIOUS
  <1>2. /\ u \in Seq(T) /\ Len(u) = Len(a) + Len(b)
        /\ \A k \in 1..Len(a) : u[k] = a[k]
        /\ \A k \in 1..Len(b) : u[Len(a) + k] = b[k]
    BY PiecesOf
  <1>3. /\ v \in Seq(T) /\ Len(v) = Len(b) + Len(c)
        /\ \A k \in 1..Len(b) : v[k] = b[k]
        /\ \A k \in 1..Len(c) : v[Len(b) + k] = c[k]
    BY PiecesOf
  <1> HIDE DEF u, v
  <1>4. /\ w \in Seq(T) /\ Len(w) = Len(u) + Len(c)
        /\ \A k \in 1..Len(u) : w[k] = u[k]
        /\ \A k \in 1..Len(c) : w[Len(u) + k] = c[k]
    <2>1. u \in Seq(T) /\ c \in Seq(T)
      BY <1>2
    <2>2. QED
      BY <2>1, PiecesOf
  <1> HIDE DEF w
  <1>5. Len(w) = Len(a) + Len(v)
    BY <1>1, <1>2, <1>3, <1>4
  <1>6. \A k \in 1..Len(a) : w[k] = a[k]
    BY <1>1, <1>2, <1>4
  <1>7. ASSUME NEW k \in 1..Len(v) PROVE w[Len(a) + k] = v[k]
    <2>1. CASE k \in 1..Len(b)
      <3>1. Len(a) + k \in 1..Len(u)
        BY <1>1, <1>2, <2>1
      <3>2. QED
        BY <1>2, <1>3, <1>4, <2>1, <3>1
    <2>2. CASE k \notin 1..Len(b)
      <3> DEFINE j == k - Len(b)
      <3>1. j \in 1..Len(c) /\ k = Len(b) + j /\ Len(a) + k = Len(u) + j
        BY <1>1, <1>2, <1>3, <2>2
      <3> HIDE DEF j
      <3>2. w[Len(u) + j] = c[j] /\ v[Len(b) + j] = c[j]
        BY <1>3, <1>4, <3>1
      <3>3. QED
        BY <3>1, <3>2
    <2>3. QED
      BY <2>1, <2>2
  <1>8. w = a \o v
    BY <1>3, <1>4, <1>5, <1>6, <1>7, TwoParts
  <1>9. QED
    BY <1>8 DEF u, v, w

LEMMA PairConcat ==
  ASSUME NEW a, NEW b
  PROVE  <<a>> \o <<b>> = <<a, b>>
  <1> DEFINE T == {a, b}
             u == <<a>>
             v == <<b>>
             w == <<a, b>>
  <1>1. u \in Seq(T) /\ Len(u) = 1 /\ u[1] = a /\ v \in Seq(T) /\ Len(v) = 1 /\ v[1] = b
    OBVIOUS
  <1>2. w \in Seq(T) /\ Len(w) = 2 /\ w[1] = a /\ w[2] = b
    OBVIOUS
  <1> HIDE DEF T, u, v, w
  <1>3. \A k \in 1..Len(u) : w[k] = u[k]
    BY <1>1, <1>2
  <1>4. \A k \in 1..Len(v) : w[Len(u) + k] = v[k]
    BY <1>1, <1>2
  <1>5. Len(w) = Len(u) + Len(v)
    BY <1>1, <1>2
  <1>6. w = u \o v
    BY <1>1, <1>2, <1>3, <1>4, <1>5, TwoParts
  <1>7. QED
    BY <1>6 DEF u, v, w

\* A piece of a text, by its place.
LEMMA PieceIs ==
  ASSUME NEW T, NEW s \in Seq(T), NEW x \in Seq(T), NEW n \in Nat, n + Len(x) <= Len(s),
         \A k \in 1..Len(x) : s[n + k] = x[k]
  PROVE  SubSeq(s, n + 1, n + Len(x)) = x
  <1> DEFINE l == Len(x)
             b == n + l + 1
             y == SubSeq(s, n + 1, b - 1)
  <1>1. l \in Nat /\ Len(s) \in Nat /\ b \in Nat /\ n < b /\ b <= Len(s) + 1 /\ b - n - 1 = l
    OBVIOUS
  <1>2. y \in Seq(T) /\ Len(y) = l /\ \A k \in 1..l : y[k] = s[n + k]
    <2> HIDE DEF b, l
    <2>1. /\ y \in Seq(T) /\ Len(y) = b - n - 1
          /\ \A k \in 1..(b - n - 1) : y[k] = s[n + k]
      BY <1>1, Slice
    <2> HIDE DEF y
    <2>2. QED
      BY <1>1, <2>1
  <1>3. b - 1 = n + l
    OBVIOUS
  <1>4. y = x
    <2> HIDE DEF y, b
    <2>1. Len(y) = Len(x) /\ \A k \in 1..Len(x) : y[k] = x[k]
      BY <1>2
    <2>2. QED
      BY <1>2, <2>1
  <1>5. QED
    BY <1>3, <1>4

LEMMA PositionFirst ==
  ASSUME NEW s, NEW c, NEW from \in Nat, NEW j \in from..Len(s), Len(s) \in Nat, s[j] = c,
         \A k \in from..(j - 1) : s[k] # c
  PROVE  Position(s, c, from) = j
  <1> DEFINE found == {k \in from..Len(s) : s[k] = c}
             first == CHOOSE k \in found : \A l \in found : k <= l
  <1>1. j \in found /\ \A l \in found : j <= l
    OBVIOUS
  <1>2. first \in found /\ \A l \in found : first <= l
    <2> HIDE DEF found
    <2>1. QED
      BY <1>1
  <1>3. first = j
    BY <1>1, <1>2
  <1>4. Position(s, c, from) = first
    BY <1>1 DEF Position
  <1>5. QED
    BY <1>3, <1>4

LEMMA PositionNone ==
  ASSUME NEW s, NEW c, NEW from, \A k \in from..Len(s) : s[k] # c
  PROVE  Position(s, c, from) = 0
  BY DEF Position

\* The columns of a text whose first one is known.
LEMMA SplitIsTexts ==
  ASSUME NEW T, NEW s \in Seq(T), NEW sep
  PROVE  Split(s, sep) \in Seq(Seq(T)) /\ Len(Split(s, sep)) \in Nat \ {0}
  <1>1. PICK m, f : Cuts(s, sep, Len(s), m, f)
    <2>1. Len(s) \in Nat
      OBVIOUS
    <2>2. QED
      BY <2>1, CutsExist
  <1>2. m \in Nat
    BY <1>1 DEF Cuts
  <1> DEFINE c == Split(s, sep)
  <1>3. c \in Seq(Seq(T)) /\ Len(c) = m + 1
    BY <1>1, ColumnsAreTexts, SplitIsColumns
  <1> HIDE DEF c
  <1>4. QED
    BY <1>2, <1>3 DEF c

LEMMA FirstColumn ==
  ASSUME NEW T, NEW x \in Seq(T), NEW y \in Seq(T), NEW sep \in T,
         NEW s \in Seq(T), Joins(s, x, sep, y), \A k \in 1..Len(x) : x[k] # sep
  PROVE  /\ Split(s, sep)[1] = x
         /\ Len(Split(s, sep)) = 1 + Len(Split(y, sep))
         /\ \A k \in 1..Len(Split(y, sep)) : Split(s, sep)[1 + k] = Split(y, sep)[k]
  <1> DEFINE c == <<x>>
             d == Split(y, sep)
             e == Split(s, sep)
  <1>1. e = Split(x, sep) \o d
    BY SplitConcat
  <1>2. Split(x, sep) = c
    BY SplitPlain
  <1>3. d \in Seq(Seq(T))
    BY SplitIsTexts
  <1>4. c \in Seq(Seq(T)) /\ Len(c) = 1 /\ c[1] = x
    BY Single
  <1>5. 1 \in 1..Len(c)
    BY <1>4
  <1> HIDE DEF c, d, e
  <1>6. e = c \o d
    BY <1>1, <1>2, Zenon
  <1>7. /\ Len(e) = Len(c) + Len(d) /\ \A k \in 1..Len(c) : e[k] = c[k]
        /\ \A k \in 1..Len(d) : e[Len(c) + k] = d[k]
    <2> DEFINE S == Seq(T)
    <2>1. c \in Seq(S) /\ d \in Seq(S)
      BY <1>3, <1>4
    <2> HIDE DEF S
    <2>2. /\ Len(c \o d) = Len(c) + Len(d) /\ \A k \in 1..Len(c) : (c \o d)[k] = c[k]
          /\ \A k \in 1..Len(d) : (c \o d)[Len(c) + k] = d[k]
      BY <2>1, PiecesOf
    <2>3. QED
      BY <1>6, <2>2
  <1>8. QED
    BY <1>4, <1>5, <1>7 DEF d, e
=============================================================================
