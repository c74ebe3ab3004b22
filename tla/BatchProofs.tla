---------------------------- MODULE BatchProofs -----------------------------
(***************************************************************************)
(* Proofs about the batches of dispatchLoop, for any number of threads and *)
(* requests of any sizes and any limits: the selection loop produces       *)
(* exactly the batches of Memory's Batch, a dispatch keeps to the limits,  *)
(* a read that reaches the byte limit by itself is never served; and about *)
(* the dispatch thread: a waiting reader always has one at work, and       *)
(* nothing but the gap in shutdown can make it sleep through a stop.       *)
(*                                                                         *)
(* What the recursive definitions compute (the sum in Bytes, the function  *)
(* in SelectLoop) is proved by least counterexamples.                      *)
(***************************************************************************)
EXTENDS MemoryProofs, FunctionTheorems, WellFoundedInduction

-----------------------------------------------------------------------------
(* Induction over finite sets, by a least counterexample *)

\* A non-empty family of subsets of a finite set has a minimal member.
LEMMA MinimalSubset ==
    ASSUME NEW S, IsFiniteSet(S), NEW T, T \subseteq SUBSET S, T # {}
    PROVE  \E x \in T : \A y \in T : y \subseteq x => y = x
<1>1. IsWellFoundedOn(StrictSubsetOrdering(S), SUBSET S)
  BY FS_StrictSubsetOrderingWellFounded, FS_FiniteSubsetsOfFinite
<1>2. PICK x \in T : \A y \in T : ~(<<y, x>> \in StrictSubsetOrdering(S))
  BY <1>1, WFMin
<1> QED
  BY <1>2 DEF StrictSubsetOrdering

-----------------------------------------------------------------------------
(* The sum over a set, with the items o as a parameter *)

Pick(s) == CHOOSE x \in s : TRUE

\* g is the recursive function behind the fold: the sums over the subsets of S.
IsSums(o, S, g) ==
    g = [s \in SUBSET S |-> IF s = {} THEN 0 ELSE o[Pick(s)].req.size + g[s \ {Pick(s)}]]

Sums(o, S) == CHOOSE g : IsSums(o, S, g)
Sum(o, S) == Sums(o, S)[S]

LEMMA PickIn == \A s : s # {} => Pick(s) \in s
BY DEF Pick

LEMMA BytesIsSum == \A S : Bytes(S) = Sum(obj, S)
BY DEF Bytes, MapThenSumSet, MapThenFoldSet, Sum, Sums, IsSums, Pick

\* Two such functions agree where both are defined.
LEMMA SumsAgree ==
    ASSUME NEW o, NEW S, NEW U, IsFiniteSet(S), NEW g, NEW h,
           IsSums(o, S, g), IsSums(o, U, h)
    PROVE  \A s \in SUBSET (S \cap U) : g[s] = h[s]
<1> DEFINE T == {s \in SUBSET (S \cap U) : g[s] # h[s]}
<1> SUFFICES ASSUME T # {} PROVE FALSE
  OBVIOUS
<1>1. PICK x \in T : \A y \in T : y \subseteq x => y = x
  <2>1. T \subseteq SUBSET S
    OBVIOUS
  <2> HIDE DEF T
  <2> QED
    BY <2>1, MinimalSubset
<1>2. x # {}
  BY <1>1 DEF IsSums
<1>3. Pick(x) \in x /\ x \ {Pick(x)} # x
  BY <1>2, PickIn
<1>4. x \ {Pick(x)} \in SUBSET (S \cap U)
  BY <1>1
<1>5. g[x \ {Pick(x)}] = h[x \ {Pick(x)}]
  BY <1>1, <1>3, <1>4
<1>6. x \in SUBSET S /\ x \in SUBSET U
  BY <1>1
<1>7. g[x] = h[x]
  BY <1>2, <1>5, <1>6 DEF IsSums
<1> QED
  BY <1>1, <1>7

\* Such a function exists.
LEMMA SumsExist ==
    ASSUME NEW o, NEW S, IsFiniteSet(S)
    PROVE  IsSums(o, S, Sums(o, S))
<1> DEFINE T == {s \in SUBSET S : ~IsSums(o, s, Sums(o, s))}
<1> SUFFICES ASSUME T # {} PROVE FALSE
  OBVIOUS
<1>1. PICK x \in T : \A y \in T : y \subseteq x => y = x
  <2>1. T \subseteq SUBSET S
    OBVIOUS
  <2> HIDE DEF T
  <2> QED
    BY <2>1, MinimalSubset
<1>2. \A y \in SUBSET x : y # x => IsSums(o, y, Sums(o, y))
  BY <1>1
<1>3. \A y \in SUBSET x : IsFiniteSet(y)
  BY <1>1, FS_Subset
<1> DEFINE V(s) == IF s = {} THEN 0 ELSE o[Pick(s)].req.size + Sum(o, s \ {Pick(s)})
           G == [s \in SUBSET x |-> V(s)]
<1>4. ASSUME NEW u \in SUBSET x, u # x PROVE V(u) = Sum(o, u)
  <2>1. CASE u = {}
    BY <1>2, <1>4, <2>1 DEF Sum, IsSums
  <2>2. CASE u # {}
    <3> DEFINE v == u \ {Pick(u)}
    <3>1. IsSums(o, u, Sums(o, u)) /\ IsSums(o, v, Sums(o, v))
      BY <1>2, <1>4, <2>2, PickIn
    <3>2. Sums(o, u)[v] = Sums(o, v)[v]
      BY <3>1, <1>3, SumsAgree
    <3>3. Sums(o, u)[u] = o[Pick(u)].req.size + Sums(o, u)[v]
      BY <3>1, <2>2 DEF IsSums
    <3> QED
      BY <2>2, <3>2, <3>3 DEF Sum
  <2> QED
    BY <2>1, <2>2
<1>5. \A s \in SUBSET x : s # {} => G[s \ {Pick(s)}] = Sum(o, s \ {Pick(s)})
  <2> SUFFICES ASSUME NEW s \in SUBSET x, s # {} PROVE G[s \ {Pick(s)}] = Sum(o, s \ {Pick(s)})
    OBVIOUS
  <2>1. s \ {Pick(s)} \in SUBSET x /\ s \ {Pick(s)} # x
    BY PickIn
  <2>2. V(s \ {Pick(s)}) = Sum(o, s \ {Pick(s)})
    BY <1>4, <2>1
  <2> QED
    BY <2>1, <2>2
<1> HIDE DEF V
<1>6. \A s \in SUBSET x : V(s) = IF s = {} THEN 0 ELSE o[Pick(s)].req.size + G[s \ {Pick(s)}]
  BY <1>5 DEF V
<1>7. IsSums(o, x, G)
  BY <1>6 DEF IsSums
<1>8. IsSums(o, x, Sums(o, x))
  BY <1>7 DEF Sums
<1> QED
  BY <1>1, <1>8

\* The equation of the sum.
LEMMA SumEquation ==
    ASSUME NEW o, NEW S, IsFiniteSet(S)
    PROVE  /\ S = {} => Sum(o, S) = 0
           /\ S # {} => Sum(o, S) = o[Pick(S)].req.size + Sum(o, S \ {Pick(S)})
<1> DEFINE R == S \ {Pick(S)}
<1>1. IsFiniteSet(R)
  BY FS_Subset
<1>2. IsSums(o, S, Sums(o, S)) /\ IsSums(o, R, Sums(o, R))
  BY <1>1, SumsExist
<1>3. Sums(o, S)[R] = Sums(o, R)[R]
  BY <1>2, SumsAgree
<1>4. Sums(o, S)[S] = IF S = {} THEN 0 ELSE o[Pick(S)].req.size + Sums(o, S)[R]
  BY <1>2 DEF IsSums
<1> QED
  BY <1>3, <1>4 DEF Sum

\* A sum of natural numbers is one.
LEMMA SumType ==
    ASSUME NEW o, NEW S, IsFiniteSet(S), \A i \in S : o[i].req.size \in Nat
    PROVE  Sum(o, S) \in Nat
<1> DEFINE T == {s \in SUBSET S : Sum(o, s) \notin Nat}
<1> SUFFICES ASSUME T # {} PROVE FALSE
  OBVIOUS
<1>1. PICK x \in T : \A y \in T : y \subseteq x => y = x
  <2>1. T \subseteq SUBSET S
    OBVIOUS
  <2> HIDE DEF T
  <2> QED
    BY <2>1, MinimalSubset
<1>2. IsFiniteSet(x)
  BY <1>1, FS_Subset
<1>3. x # {}
  <2>1. Sum(o, x) \notin Nat
    BY <1>1
  <2> HIDE DEF T
  <2>2. x = {} => Sum(o, x) = 0
    BY <1>2, SumEquation
  <2> QED
    BY <2>1, <2>2
<1>4. Pick(x) \in x
  BY <1>3, PickIn
<1>5. Sum(o, x \ {Pick(x)}) \in Nat
  BY <1>1, <1>4
<1>6. o[Pick(x)].req.size \in Nat
  BY <1>1, <1>4
<1>7. Sum(o, x) = o[Pick(x)].req.size + Sum(o, x \ {Pick(x)})
  BY <1>2, <1>3, SumEquation
<1>8. Sum(o, x) \in Nat
  BY <1>5, <1>6, <1>7
<1> QED
  BY <1>1, <1>8

\* Any item can be split off.
LEMMA SumRemove ==
    ASSUME NEW o, NEW S, IsFiniteSet(S), \A i \in S : o[i].req.size \in Nat
    PROVE  \A i \in S : Sum(o, S) = o[i].req.size + Sum(o, S \ {i})
<1> DEFINE T == {s \in SUBSET S : \E i \in s : Sum(o, s) # o[i].req.size + Sum(o, s \ {i})}
<1> SUFFICES ASSUME T # {} PROVE FALSE
  OBVIOUS
<1>1. PICK x \in T : \A y \in T : y \subseteq x => y = x
  <2>1. T \subseteq SUBSET S
    OBVIOUS
  <2> HIDE DEF T
  <2> QED
    BY <2>1, MinimalSubset
<1>2. PICK i \in x : Sum(o, x) # o[i].req.size + Sum(o, x \ {i})
  BY <1>1
<1> DEFINE j == Pick(x)
<1>3. j \in x
  BY <1>2, PickIn
<1>4. IsFiniteSet(x) /\ IsFiniteSet(x \ {i}) /\ IsFiniteSet(x \ {j}) /\ IsFiniteSet((x \ {i}) \ {j})
  BY <1>1, FS_Subset
<1>5. Sum(o, x) = o[j].req.size + Sum(o, x \ {j})
  BY <1>2, <1>4, SumEquation
<1>6. i # j
  BY <1>2, <1>5
<1>a. ASSUME NEW a \in x, NEW b \in x, a # b
      PROVE  Sum(o, x \ {a}) = o[b].req.size + Sum(o, (x \ {a}) \ {b})
  <2>1. x \ {a} \in SUBSET S /\ x \ {a} # x
    BY <1>1
  <2>2. x \ {a} \notin T
    BY <1>1, <2>1
  <2>3. b \in x \ {a}
    BY <1>a
  <2> QED
    BY <2>1, <2>2, <2>3
<1>7. Sum(o, x \ {j}) = o[i].req.size + Sum(o, (x \ {j}) \ {i})
  BY <1>a, <1>3, <1>6
<1>8. Sum(o, x \ {i}) = o[j].req.size + Sum(o, (x \ {i}) \ {j})
  BY <1>a, <1>3, <1>6
<1>9. (x \ {j}) \ {i} = (x \ {i}) \ {j}
  OBVIOUS
<1>10. o[i].req.size \in Nat /\ o[j].req.size \in Nat /\ Sum(o, (x \ {i}) \ {j}) \in Nat
  BY <1>1, <1>2, <1>3, <1>4, SumType
<1> HIDE DEF T, j
<1>11. Sum(o, x) = o[j].req.size + (o[i].req.size + Sum(o, (x \ {i}) \ {j}))
  BY <1>5, <1>7, <1>9
<1> QED
  BY <1>2, <1>8, <1>10, <1>11

\* The sum depends on the requests of the items only.
LEMMA SumSame ==
    ASSUME NEW o, NEW p, NEW S, IsFiniteSet(S), \A i \in S : o[i].req = p[i].req
    PROVE  Sum(o, S) = Sum(p, S)
<1> DEFINE T == {s \in SUBSET S : Sum(o, s) # Sum(p, s)}
<1> SUFFICES ASSUME T # {} PROVE FALSE
  OBVIOUS
<1>1. PICK x \in T : \A y \in T : y \subseteq x => y = x
  <2>1. T \subseteq SUBSET S
    OBVIOUS
  <2> HIDE DEF T
  <2> QED
    BY <2>1, MinimalSubset
<1>2. IsFiniteSet(x)
  BY <1>1, FS_Subset
<1>3. x # {}
  BY <1>1, <1>2, SumEquation
<1>4. Pick(x) \in x
  BY <1>3, PickIn
<1>5. Sum(o, x \ {Pick(x)}) = Sum(p, x \ {Pick(x)})
  BY <1>1, <1>4
<1>6. o[Pick(x)].req = p[Pick(x)].req
  BY <1>1, <1>4
<1>7. Sum(o, x) = Sum(p, x)
  BY <1>2, <1>3, <1>5, <1>6, SumEquation
<1> QED
  BY <1>1, <1>7

-----------------------------------------------------------------------------
(* The bytes of a set of items *)

\* Sizes of requests are natural numbers in every state with items of requests.
Sized(S) == IsFiniteSet(S) /\ \A i \in S : obj[i].req.size \in Nat

LEMMA BytesType == \A S : Sized(S) => Bytes(S) \in Nat
BY BytesIsSum, SumType DEF Sized

LEMMA BytesEmpty == Bytes({}) = 0
BY BytesIsSum, SumEquation, FS_EmptySet

\* An item more adds its size.
LEMMA BytesAdd ==
    ASSUME NEW S, NEW i, Sized(S), i \notin S, obj[i].req.size \in Nat
    PROVE  /\ Sized(S \cup {i})
           /\ Bytes(S \cup {i}) = Bytes(S) + obj[i].req.size
           /\ Cardinality(S \cup {i}) = Cardinality(S) + 1
<1>1. Sized(S \cup {i}) /\ Cardinality(S \cup {i}) = Cardinality(S) + 1
  BY FS_AddElement DEF Sized
<1>2. (S \cup {i}) \ {i} = S
  OBVIOUS
<1>3. Sum(obj, S \cup {i}) = obj[i].req.size + Sum(obj, S)
  BY <1>1, <1>2, SumRemove DEF Sized
<1>4. Bytes(S) \in Nat
  BY BytesType
<1> QED
  BY <1>1, <1>3, <1>4, BytesIsSum

\* A subset has no more bytes.
LEMMA BytesMonotone ==
    ASSUME NEW S, Sized(S), NEW D, D \subseteq S
    PROVE  Bytes(D) <= Bytes(S)
<1> DEFINE T == {E \in SUBSET S : D \subseteq E /\ ~(Bytes(D) <= Bytes(E))}
<1> SUFFICES ASSUME T # {} PROVE FALSE
  OBVIOUS
<1>1. PICK E \in T : \A y \in T : y \subseteq E => y = E
  <2>1. T \subseteq SUBSET S
    OBVIOUS
  <2> HIDE DEF T
  <2> QED
    BY <2>1, MinimalSubset DEF Sized
<1>2. Sized(E) /\ Sized(D)
  BY <1>1, FS_Subset DEF Sized
<1>3. Bytes(E) \in Nat /\ Bytes(D) \in Nat
  BY <1>2, BytesType
<1>4. E # D
  BY <1>1, <1>3
<1>5. PICK i \in E : i \notin D
  BY <1>1, <1>4
<1> DEFINE R == E \ {i}
<1>6. R \in SUBSET S /\ D \subseteq R /\ R # E /\ i \notin R /\ R \cup {i} = E
  BY <1>1, <1>5
<1>7. Bytes(D) <= Bytes(R)
  BY <1>1, <1>6
<1>8. Sized(R) /\ obj[i].req.size \in Nat
  BY <1>2, <1>5, <1>6, FS_Subset DEF Sized
<1>9. ~(Bytes(D) <= Bytes(E))
  BY <1>1
<1> HIDE DEF T, R
<1>10. Bytes(R) \in Nat /\ Bytes(E) = Bytes(R) + obj[i].req.size
  BY <1>6, <1>8, BytesType, BytesAdd
<1> QED
  BY <1>3, <1>7, <1>8, <1>9, <1>10

\* What the invariant says of the backlog and the batch.
LEMMA QueueSized == ASSUME Inv PROVE Sized(backlog) /\ Sized(batch)
BY FiniteAssumption, FS_Subset, SizesAssumption DEF Sized, Inv, TypeOK, QueueInv

-----------------------------------------------------------------------------
(* The runs of the selection loop *)

\* A non-empty set of natural numbers has a least member.
LEMMA Least ==
    ASSUME NEW T, T \subseteq Nat, T # {}
    PROVE  \E m \in T : \A k \in T : m <= k
<1>1. PICK m \in T : \A k \in T : ~(<<k, m>> \in OpToRel(<, Nat))
  BY NatLessThanWellFounded, WFMin
<1>2. \A k \in T : ~(k < m)
  BY <1>1 DEF OpToRel
<1>3. ASSUME NEW k \in T PROVE m <= k
  <2>1. k \in Nat /\ m \in Nat /\ ~(k < m)
    BY <1>2
  <2> QED
    BY <2>1
<1> QED
  BY <1>3

Start == [dispatchBuffer |-> {}, requestedSoFar |-> 0, done |-> FALSE]

\* g gives the state of the loop after each of the first m items of the order s.
IsRun(s, p, m, g) == g = [k \in 0 .. m |-> IF k = 0 THEN Start ELSE LoopBody(s[k], p, g[k - 1])]

\* The same, as equations.
Runs(s, p, m, g) == g[0] = Start /\ \A k \in 1 .. m : g[k] = LoopBody(s[k], p, g[k - 1])

LEMMA RunEquations ==
    ASSUME NEW s, NEW p, NEW m \in Nat, NEW g, IsRun(s, p, m, g)
    PROVE  Runs(s, p, m, g)
<1>1. \A k \in 0 .. m : g[k] = IF k = 0 THEN Start ELSE LoopBody(s[k], p, g[k - 1])
  BY DEF IsRun
<1> QED
  BY <1>1 DEF Runs

LEMMA RunExists ==
    ASSUME NEW s, NEW p, NEW n \in Nat
    PROVE  \E g : IsRun(s, p, n, g)
<1> DEFINE T == {m \in Nat : ~ \E g : IsRun(s, p, m, g)}
<1> SUFFICES ASSUME T # {} PROVE FALSE
  OBVIOUS
<1>1. PICK m \in T : \A k \in T : m <= k
  <2>1. T \subseteq Nat
    OBVIOUS
  <2> HIDE DEF T
  <2> QED
    BY <2>1, Least
<1>2. CASE m = 0
  <2>1. IsRun(s, p, 0, [k \in 0 .. 0 |-> Start])
    BY DEF IsRun
  <2> QED
    BY <1>1, <1>2, <2>1
<1>3. CASE m # 0
  <2>1. m \in Nat /\ m - 1 \in Nat /\ m - 1 \notin T
    BY <1>1, <1>3
  <2>2. PICK g : IsRun(s, p, m - 1, g)
    BY <2>1
  <2>3. g[0] = Start /\ \A k \in 1 .. m - 1 : g[k] = LoopBody(s[k], p, g[k - 1])
    BY <2>1, <2>2, RunEquations DEF Runs
  <2> DEFINE h == [k \in 0 .. m |-> IF k = m THEN LoopBody(s[m], p, g[m - 1]) ELSE g[k]]
             B(k) == IF k = 0 THEN Start ELSE LoopBody(s[k], p, h[k - 1])
  <2>4. \A k \in 0 .. m : h[k] = B(k)
    <3> SUFFICES ASSUME NEW k \in 0 .. m PROVE h[k] = B(k)
      OBVIOUS
    <3>1. CASE k = 0
      BY <3>1, <1>3, <2>1, <2>3
    <3>2. CASE k # 0
      <4>1. k - 1 \in 0 .. m /\ k - 1 # m
        BY <3>2, <2>1
      <4>2. h[k - 1] = g[k - 1]
        BY <4>1
      <4>3. h[k] = LoopBody(s[k], p, g[k - 1])
        BY <3>2, <2>1, <2>3
      <4> QED
        BY <3>2, <4>2, <4>3
    <3> QED
      BY <3>1, <3>2
  <2>5. h = [k \in 0 .. m |-> B(k)]
    <3> HIDE DEF B
    <3> QED
      BY <2>4
  <2>6. IsRun(s, p, m, h)
    BY <2>5 DEF IsRun
  <2> QED
    BY <1>1, <2>6
<1> QED
  BY <1>2, <1>3

\* SelectLoop is the last state of a run.
LEMMA SelectLoopRuns ==
    ASSUME NEW n \in Nat, Cardinality(backlog) = n, NEW s, NEW p
    PROVE  \E g : Runs(s, p, n, g) /\ SelectLoop(s, p) = g[n].dispatchBuffer
<1> DEFINE g == CHOOSE f : IsRun(s, p, n, f)
<1>1. IsRun(s, p, n, g)
  BY RunExists
<1>2. SelectLoop(s, p) = g[n].dispatchBuffer
  BY DEF SelectLoop, IsRun, Start
<1> HIDE DEF g
<1>3. Runs(s, p, n, g)
  BY <1>1, RunEquations
<1> QED
  BY <1>2, <1>3

-----------------------------------------------------------------------------
(* Every order selects a batch *)

\* The items of process p among the first k of the order s.
Seen(s, p, k) == {i \in OfPid(p) : \E j \in 1 .. k : s[j] = i}

\* The invariant of the loop: the state l after the first k items.
LoopInv(s, p, k, l) ==
    /\ l \in [dispatchBuffer : SUBSET backlog, requestedSoFar : Nat, done : BOOLEAN]
    /\ l.dispatchBuffer \subseteq Seen(s, p, k)
    /\ l.requestedSoFar = Bytes(l.dispatchBuffer)
    /\ Cardinality(l.dispatchBuffer) <= MaxDispatchSize
    /\ l.dispatchBuffer # {} => Bytes(l.dispatchBuffer) < MaxBytesPerDispatch
    /\ ~l.done => /\ l.dispatchBuffer = Seen(s, p, k)
                  /\ Cardinality(l.dispatchBuffer) < MaxDispatchSize
    /\ l.done => \/ Cardinality(l.dispatchBuffer) = MaxDispatchSize
                 \/ \E x \in OfPid(p) \ l.dispatchBuffer :
                       Bytes(l.dispatchBuffer) + obj[x].req.size >= MaxBytesPerDispatch

LEMMA StartInv == ASSUME NEW s, NEW p PROVE LoopInv(s, p, 0, Start)
<1>1. Seen(s, p, 0) = {}
  BY DEF Seen
<1>2. Cardinality({}) = 0
  BY FS_EmptySet
<1> QED
  BY <1>1, <1>2, BytesEmpty, LimitsAssumption DEF LoopInv, Start

\* One iteration keeps the invariant.
LEMMA LoopBodyInv ==
    ASSUME Sized(backlog), NEW p, NEW k \in Nat \ {0},
           NEW s, s[k] \in backlog, \A j \in 1 .. k - 1 : s[j] # s[k],
           NEW l, LoopInv(s, p, k - 1, l)
    PROVE  LoopInv(s, p, k, LoopBody(s[k], p, l))
<1> DEFINE i == s[k]
           D == l.dispatchBuffer
<1>0. D \subseteq backlog /\ i \in backlog /\ Sized(D) /\ obj[i].req.size \in Nat
      /\ l.requestedSoFar \in Nat /\ l.done \in BOOLEAN
  BY FS_Subset DEF LoopInv, Sized
<1>1. Seen(s, p, k - 1) \subseteq Seen(s, p, k)
  BY DEF Seen
<1>2. ASSUME obj[i].req.pid # p PROVE Seen(s, p, k) = Seen(s, p, k - 1)
  BY <1>2 DEF Seen, OfPid
<1>3. ASSUME obj[i].req.pid = p
      PROVE  /\ Seen(s, p, k) = Seen(s, p, k - 1) \cup {i}
             /\ i \in OfPid(p)
             /\ i \notin Seen(s, p, k - 1)
  BY <1>0, <1>3 DEF Seen, OfPid
<1>4. CASE l.done \/ obj[i].req.pid # p
  <2>1. LoopBody(s[k], p, l) = l
    BY <1>4 DEF LoopBody
  <2>2. l.dispatchBuffer \subseteq Seen(s, p, k)
    BY <1>1 DEF LoopInv
  <2>3. ~l.done => l.dispatchBuffer = Seen(s, p, k)
    BY <1>2, <1>4 DEF LoopInv
  <2> QED
    BY <2>1, <2>2, <2>3 DEF LoopInv
<1>5. CASE ~l.done /\ obj[i].req.pid = p /\ l.requestedSoFar + obj[i].req.size >= MaxBytesPerDispatch
  <2> DEFINE m == [l EXCEPT !.done = TRUE]
  <2>1. LoopBody(s[k], p, l) = m
    BY <1>5 DEF LoopBody
  <2>2. /\ m.dispatchBuffer = D /\ m.requestedSoFar = l.requestedSoFar /\ m.done
        /\ m \in [dispatchBuffer : SUBSET backlog, requestedSoFar : Nat, done : BOOLEAN]
    BY DEF LoopInv
  <2>3. i \in OfPid(p) \ D
    BY <1>3, <1>5 DEF LoopInv
  <2>4. Bytes(D) + obj[i].req.size >= MaxBytesPerDispatch
    BY <1>5 DEF LoopInv
  <2>5. D \subseteq Seen(s, p, k)
    BY <1>1 DEF LoopInv
  <2> HIDE DEF m
  <2> QED
    BY <2>1, <2>2, <2>3, <2>4, <2>5 DEF LoopInv
<1>6. CASE ~l.done /\ obj[i].req.pid = p /\ ~(l.requestedSoFar + obj[i].req.size >= MaxBytesPerDispatch)
  <2> DEFINE E == D \cup {i}
             m == [dispatchBuffer |-> E, requestedSoFar |-> l.requestedSoFar + obj[i].req.size,
                   done |-> Cardinality(E) >= MaxDispatchSize]
  <2>1. LoopBody(s[k], p, l) = m
    BY <1>6 DEF LoopBody
  <2>2. D = Seen(s, p, k - 1) /\ Cardinality(D) < MaxDispatchSize /\ l.requestedSoFar = Bytes(D)
    BY <1>6 DEF LoopInv
  <2>3. i \notin D /\ E = Seen(s, p, k) /\ E \subseteq backlog /\ E # {}
    BY <1>0, <1>3, <1>6, <2>2
  <2>4. /\ Bytes(E) = Bytes(D) + obj[i].req.size
        /\ Cardinality(E) = Cardinality(D) + 1
    BY <1>0, <2>3, BytesAdd
  <2>5. Cardinality(D) \in Nat /\ Bytes(D) \in Nat
    BY <1>0, FS_CardinalityType, BytesType DEF Sized
  <2> HIDE DEF E, D, i
  <2>6. Cardinality(E) <= MaxDispatchSize /\ Bytes(E) < MaxBytesPerDispatch /\ Bytes(E) \in Nat
        /\ (Cardinality(E) >= MaxDispatchSize => Cardinality(E) = MaxDispatchSize)
        /\ (~(Cardinality(E) >= MaxDispatchSize) => Cardinality(E) < MaxDispatchSize)
    BY <1>0, <1>6, <2>2, <2>4, <2>5, LimitsAssumption
  <2>7. /\ m.dispatchBuffer = E /\ m.requestedSoFar = Bytes(E)
        /\ m.done = (Cardinality(E) >= MaxDispatchSize)
        /\ m \in [dispatchBuffer : SUBSET backlog, requestedSoFar : Nat, done : BOOLEAN]
    BY <1>0, <2>2, <2>3, <2>4, <2>6
  <2> HIDE DEF m
  <2> QED
    BY <2>1, <2>3, <2>6, <2>7 DEF LoopInv
<1> QED
  BY <1>4, <1>5, <1>6

\* The loop selects a batch for the process it was given, in every order.
LEMMA LoopSound ==
    ASSUME Sized(backlog), NEW n \in Nat, Cardinality(backlog) = n,
           NEW p, NEW s \in Bijection(1 .. n, backlog)
    PROVE  SelectLoop(s, p) \subseteq backlog /\ Batch(p, SelectLoop(s, p))
<1>0. PICK g : Runs(s, p, n, g) /\ SelectLoop(s, p) = g[n].dispatchBuffer
  BY SelectLoopRuns
<1>1. g[0] = Start /\ \A k \in 1 .. n : g[k] = LoopBody(s[k], p, g[k - 1])
  BY <1>0 DEF Runs
<1>2. /\ s \in [1 .. n -> backlog]
      /\ \A a, b \in 1 .. n : s[a] = s[b] => a = b
      /\ \A t \in backlog : \E a \in 1 .. n : s[a] = t
  BY DEF Bijection, Injection, Surjection, IsInjective
<1>4. \A k \in 0 .. n : LoopInv(s, p, k, g[k])
  <2> DEFINE T == {k \in 0 .. n : ~LoopInv(s, p, k, g[k])}
  <2> SUFFICES ASSUME T # {} PROVE FALSE
    OBVIOUS
  <2>1. PICK k \in T : \A j \in T : k <= j
    <3>1. T \subseteq Nat
      OBVIOUS
    <3> HIDE DEF T
    <3> QED
      BY <3>1, Least
  <2>2. k \in 0 .. n /\ ~LoopInv(s, p, k, g[k])
    BY <2>1
  <2>3. k # 0
    BY <2>2, <1>1, StartInv
  <2>4. k \in 1 .. n /\ k \in Nat \ {0} /\ k - 1 \in 0 .. n /\ ~(k <= k - 1)
    BY <2>2, <2>3
  <2>5. LoopInv(s, p, k - 1, g[k - 1])
    BY <2>1, <2>4
  <2>6. s[k] \in backlog /\ \A j \in 1 .. k - 1 : s[j] # s[k]
    BY <1>2, <2>4
  <2>7. LoopInv(s, p, k, LoopBody(s[k], p, g[k - 1]))
    BY <2>4, <2>5, <2>6, LoopBodyInv
  <2> QED
    BY <1>1, <2>2, <2>4, <2>7
<1>5. LoopInv(s, p, n, g[n])
  BY <1>4
<1>6. Seen(s, p, n) = OfPid(p)
  BY <1>2 DEF Seen, OfPid
<1> DEFINE D == g[n].dispatchBuffer
<1>7. /\ D \subseteq OfPid(p) /\ D \subseteq backlog
      /\ Cardinality(D) <= MaxDispatchSize
      /\ D # {} => Bytes(D) < MaxBytesPerDispatch
      /\ \/ D = OfPid(p)
         \/ Cardinality(D) = MaxDispatchSize
         \/ \E x \in OfPid(p) \ D : Bytes(D) + obj[x].req.size >= MaxBytesPerDispatch
  BY <1>5, <1>6 DEF LoopInv
<1>8. Sized(D)
  BY <1>7, FS_Subset DEF Sized
<1>9. Bytes(D) \in Nat /\ \A x \in OfPid(p) : obj[x].req.size \in Nat
  BY <1>8, BytesType DEF Sized, OfPid
<1> HIDE DEF D
<1>10. \A x \in OfPid(p) : Bytes(D) + obj[x].req.size >= MaxBytesPerDispatch
                           => ~Fits(Bytes(D) + obj[x].req.size)
  BY <1>9, LimitsAssumption DEF Fits
<1>11. Batch(p, D)
  BY <1>7, <1>10 DEF Batch, Fits
<1> QED
  BY <1>0, <1>7, <1>11 DEF D

-----------------------------------------------------------------------------
(* Every batch is selected in some order *)

First(s, k) == {s[j] : j \in 1 .. k}

\* There is an order that begins with the items of D and goes on with x.
LEMMA OrderExists ==
    ASSUME NEW S, IsFiniteSet(S), NEW n \in Nat, Cardinality(S) = n,
           NEW D, D \subseteq S, NEW m \in Nat, Cardinality(D) = m, NEW x \in S \ D
    PROVE  /\ m + 1 \in 1 .. n
           /\ \E s \in Bijection(1 .. n, S) : First(s, m) = D /\ s[m + 1] = x
<1> DEFINE R == S \ (D \cup {x})
           r == Cardinality(R)
<1>1. IsFiniteSet(D) /\ IsFiniteSet(R) /\ r \in Nat
  BY FS_Subset, FS_CardinalityType
<1>2. n = m + 1 + r
  <2>1. Cardinality(D \cup {x}) = m + 1
    BY <1>1, FS_AddElement
  <2>2. S \cap (D \cup {x}) = D \cup {x}
    OBVIOUS
  <2>3. Cardinality(R) = Cardinality(S) - Cardinality(S \cap (D \cup {x}))
    BY FS_Difference
  <2>4. r = n - (m + 1)
    BY <2>1, <2>2, <2>3
  <2> HIDE DEF r
  <2> QED
    BY <2>4, <1>1
<1>3. PICK f : f \in Surjection(1 .. m, D)
  BY <1>1, FS_CardinalityType DEF ExistsBijection, Bijection
<1>4. PICK h : h \in Surjection(1 .. r, R)
  BY <1>1, FS_CardinalityType DEF ExistsBijection, Bijection
<1>5. f \in [1 .. m -> D] /\ \A t \in D : \E j \in 1 .. m : f[j] = t
  BY <1>3 DEF Surjection
<1>6. h \in [1 .. r -> R] /\ \A t \in R : \E j \in 1 .. r : h[j] = t
  BY <1>4 DEF Surjection
<1> HIDE DEF r
<1> DEFINE s == [j \in 1 .. n |-> IF j <= m THEN f[j] ELSE IF j = m + 1 THEN x ELSE h[j - (m + 1)]]
<1>7. \A j \in 1 .. m : j \in 1 .. n /\ s[j] = f[j]
  BY <1>1, <1>2
<1>8. m + 1 \in 1 .. n /\ s[m + 1] = x
  BY <1>1, <1>2
<1>9. \A j \in 1 .. r : j + (m + 1) \in 1 .. n /\ s[j + (m + 1)] = h[j]
  <2> SUFFICES ASSUME NEW j \in 1 .. r PROVE j + (m + 1) \in 1 .. n /\ s[j + (m + 1)] = h[j]
    OBVIOUS
  <2>1. j + (m + 1) \in 1 .. n /\ ~(j + (m + 1) <= m) /\ j + (m + 1) # m + 1
        /\ (j + (m + 1)) - (m + 1) = j
    BY <1>1, <1>2
  <2> QED
    BY <2>1
<1>10. s \in [1 .. n -> S]
  <2> SUFFICES ASSUME NEW j \in 1 .. n
               PROVE  (IF j <= m THEN f[j] ELSE IF j = m + 1 THEN x ELSE h[j - (m + 1)]) \in S
    OBVIOUS
  <2>1. CASE j <= m
    BY <1>5, <2>1
  <2>2. CASE j = m + 1
    BY <2>2
  <2>3. CASE ~(j <= m) /\ j # m + 1
    <3>1. j - (m + 1) \in 1 .. r
      BY <1>1, <1>2, <2>3
    <3> QED
      BY <1>6, <2>3, <3>1
  <2> QED
    BY <2>1, <2>2, <2>3
<1> HIDE DEF s
<1>11. \A t \in S : \E j \in 1 .. n : s[j] = t
  <2> SUFFICES ASSUME NEW t \in S PROVE \E j \in 1 .. n : s[j] = t
    OBVIOUS
  <2>1. CASE t \in D
    BY <1>5, <1>7, <2>1
  <2>2. CASE t = x
    BY <1>8, <2>2
  <2>3. CASE t \in R
    <3>1. PICK j \in 1 .. r : h[j] = t
      BY <1>6, <2>3
    <3> QED
      BY <1>9, <3>1
  <2> QED
    BY <2>1, <2>2, <2>3
<1>12. s \in Surjection(1 .. n, S)
  BY <1>10, <1>11 DEF Surjection
<1>13. IsFiniteSet(1 .. n) /\ Cardinality(1 .. n) = n
  BY FS_Interval
<1>14. s \in Injection(1 .. n, S)
  BY <1>12, <1>13, FS_SurjSameCardinalityImpliesInj
<1>15. s \in Bijection(1 .. n, S)
  BY <1>12, <1>14 DEF Bijection
<1>16. First(s, m) = D
  BY <1>5, <1>7 DEF First
<1> QED
  BY <1>8, <1>15, <1>16

\* Once the loop is done, or meets only other processes, its state stays.
LEMMA Settled ==
    ASSUME NEW n \in Nat, NEW s, NEW p, NEW g, NEW m \in 0 .. n, Runs(s, p, n, g),
           \A k \in m + 1 .. n : g[m].done \/ obj[s[k]].req.pid # p
    PROVE  g[n] = g[m]
<1> DEFINE T == {k \in m .. n : g[k] # g[m]}
<1> SUFFICES ASSUME T # {} PROVE FALSE
  OBVIOUS
<1>1. PICK k \in T : \A j \in T : k <= j
  <2>1. T \subseteq Nat
    OBVIOUS
  <2> HIDE DEF T
  <2> QED
    BY <2>1, Least
<1>2. k # m /\ k \in m .. n
  BY <1>1
<1>3. k \in m + 1 .. n /\ k \in 1 .. n /\ k - 1 \in m .. n /\ ~(k <= k - 1)
  BY <1>2
<1>4. g[k - 1] = g[m]
  BY <1>1, <1>3
<1>5. g[k] = LoopBody(s[k], p, g[m])
  BY <1>3, <1>4 DEF Runs
<1>6. LoopBody(s[k], p, g[m]) = g[m]
  BY <1>3 DEF LoopBody
<1> QED
  BY <1>1, <1>5, <1>6

\* The loop takes the items of D one after the other as long as it meets only
\* them and they stay within the limits.
LEMMA TakesFirst ==
    ASSUME Sized(backlog), NEW n \in Nat, NEW p, NEW s \in [1 .. n -> backlog],
           \A a, b \in 1 .. n : s[a] = s[b] => a = b,
           NEW g, Runs(s, p, n, g),
           NEW m \in 0 .. n, m <= MaxDispatchSize,
           NEW D, D \subseteq OfPid(p), \A j \in 1 .. m : s[j] \in D,
           D # {} => Bytes(D) < MaxBytesPerDispatch
    PROVE  \A k \in 0 .. m :
              /\ g[k] = [dispatchBuffer |-> First(s, k), requestedSoFar |-> Bytes(First(s, k)),
                         done |-> k = MaxDispatchSize]
              /\ Cardinality(First(s, k)) = k
              /\ First(s, k) \subseteq D
<1> DEFINE Taken(k) == [dispatchBuffer |-> First(s, k), requestedSoFar |-> Bytes(First(s, k)),
                        done |-> k = MaxDispatchSize]
           P(k) == g[k] = Taken(k) /\ Cardinality(First(s, k)) = k /\ First(s, k) \subseteq D
           T == {k \in 0 .. m : ~P(k)}
<1> SUFFICES ASSUME T # {} PROVE FALSE
  OBVIOUS
<1>1. PICK k \in T : \A j \in T : k <= j
  <2>1. T \subseteq Nat
    OBVIOUS
  <2> HIDE DEF T
  <2> QED
    BY <2>1, Least
<1>2. k \in 0 .. m /\ ~P(k)
  BY <1>1
<1>3. P(0)
  <2>1. First(s, 0) = {}
    BY DEF First
  <2>2. (0 = MaxDispatchSize) = FALSE
    BY LimitsAssumption
  <2> QED
    BY <2>1, <2>2, BytesEmpty, FS_EmptySet DEF Start, Runs
<1>4. k # 0
  BY <1>2, <1>3
<1>5. k \in 1 .. m /\ k \in 1 .. n /\ k - 1 \in 0 .. m /\ ~(k <= k - 1)
  BY <1>2, <1>4
<1>6. P(k - 1)
  BY <1>1, <1>5
<1> HIDE DEF T
<1> DEFINE F == First(s, k - 1)
           i == s[k]
<1>7. i \in D /\ i \in backlog /\ obj[i].req.pid = p /\ i \notin F /\ First(s, k) = F \cup {i}
  <2>1. i \in D /\ i \in backlog /\ obj[i].req.pid = p
    BY <1>5 DEF OfPid
  <2>2. \A j \in 1 .. k - 1 : s[j] # s[k]
    BY <1>5
  <2>3. \A j \in 1 .. k : j = k \/ j \in 1 .. k - 1
    BY <1>5
  <2>4. \A j \in 1 .. k - 1 : j \in 1 .. k
    BY <1>5
  <2>5. k \in 1 .. k
    BY <1>5
  <2>6. i \notin F
    BY <2>2 DEF First
  <2>7. First(s, k) = F \cup {i}
    BY <2>3, <2>4, <2>5 DEF First
  <2> QED
    BY <2>1, <2>6, <2>7
<1>8. /\ g[k - 1].dispatchBuffer = F /\ g[k - 1].requestedSoFar = Bytes(F)
      /\ g[k - 1].done = (k - 1 = MaxDispatchSize)
      /\ Cardinality(F) = k - 1 /\ F \subseteq D
  BY <1>6
<1>9. Sized(D) /\ Sized(F) /\ Sized(F \cup {i}) /\ obj[i].req.size \in Nat
  BY <1>7, <1>8, FS_Subset DEF Sized, OfPid
<1>10. /\ Bytes(F \cup {i}) = Bytes(F) + obj[i].req.size
       /\ Cardinality(F \cup {i}) = Cardinality(F) + 1
  BY <1>7, <1>9, BytesAdd
<1>11. Bytes(F \cup {i}) <= Bytes(D) /\ Bytes(D) < MaxBytesPerDispatch
  BY <1>7, <1>8, <1>9, BytesMonotone
<1>12. Bytes(F) \in Nat /\ Bytes(D) \in Nat
  BY <1>9, BytesType
<1>13. g[k] = LoopBody(i, p, g[k - 1])
  BY <1>5 DEF Runs
<1> HIDE DEF F, i
<1>14. ~g[k - 1].done /\ ~(Bytes(F) + obj[i].req.size >= MaxBytesPerDispatch)
  <2>1. k - 1 # MaxDispatchSize
    BY <1>5, LimitsAssumption
  <2>2. ~g[k - 1].done
    BY <1>8, <2>1
  <2>3. ~(Bytes(F) + obj[i].req.size >= MaxBytesPerDispatch)
    BY <1>9, <1>10, <1>11, <1>12, LimitsAssumption
  <2> QED
    BY <2>2, <2>3
<1>15. Cardinality(F \cup {i}) = k
  BY <1>5, <1>8, <1>10
<1>16. (Cardinality(F \cup {i}) >= MaxDispatchSize) = (k = MaxDispatchSize)
  BY <1>5, <1>15, LimitsAssumption
<1>17. g[k] = [dispatchBuffer |-> F \cup {i}, requestedSoFar |-> Bytes(F) + obj[i].req.size,
               done |-> Cardinality(F \cup {i}) >= MaxDispatchSize]
  BY <1>7, <1>8, <1>13, <1>14 DEF LoopBody
<1>18. P(k)
  BY <1>7, <1>8, <1>10, <1>15, <1>16, <1>17
<1> QED
  BY <1>2, <1>18

\* An order that begins with the items of a batch and then ends the loop
\* selects the batch.
LEMMA Selects ==
    ASSUME Sized(backlog), NEW n \in Nat, NEW p \in Pids, NEW D, Batch(p, D),
           NEW s \in Bijection(1 .. n, backlog), NEW g, Runs(s, p, n, g),
           NEW m \in 0 .. n, m <= MaxDispatchSize, First(s, m) = D,
           \/ D = OfPid(p)
           \/ m = MaxDispatchSize
           \/ m + 1 <= n /\ s[m + 1] \in OfPid(p) /\ ~Fits(Bytes(D) + obj[s[m + 1]].req.size)
    PROVE  obj[s[1]].req.pid = p /\ g[n].dispatchBuffer = D
<1>1. /\ D \subseteq OfPid(p) /\ D \subseteq backlog
      /\ D # {} => Bytes(D) < MaxBytesPerDispatch
  BY DEF Batch, Fits, OfPid
<1>2. Sized(D)
  BY <1>1, FS_Subset DEF Sized
<1>3. /\ s \in [1 .. n -> backlog]
      /\ \A a, b \in 1 .. n : s[a] = s[b] => a = b
  BY DEF Bijection, Injection, Surjection, IsInjective
<1>4. \A j \in 1 .. m : s[j] \in D
  BY DEF First
<1>5. g[m] = [dispatchBuffer |-> D, requestedSoFar |-> Bytes(D), done |-> m = MaxDispatchSize]
  BY <1>1, <1>3, <1>4, TakesFirst
<1>7. /\ g[m].dispatchBuffer = D /\ g[m].requestedSoFar = Bytes(D)
      /\ g[m].done = (m = MaxDispatchSize)
  BY <1>5
<1>8. D = {} => OfPid(p) # {} /\ m = 0 /\ m # MaxDispatchSize
  <2>1. OfPid(p) # {}
    BY DEF Pids, OfPid
  <2>2. D = {} => ~(1 \in 1 .. m)
    BY <1>4
  <2> QED
    BY <2>1, <2>2, LimitsAssumption
<1>9. obj[s[1]].req.pid = p
  <2>1. CASE D = {}
    BY <1>8, <2>1 DEF OfPid
  <2>2. CASE D # {}
    <3>1. m # 0
      BY <2>2 DEF First
    <3>2. 1 \in 1 .. m
      BY <3>1
    <3> QED
      BY <1>1, <1>4, <3>2 DEF OfPid
  <2> QED
    BY <2>1, <2>2
<1>10. CASE D = OfPid(p) \/ m = MaxDispatchSize
  <2>1. ASSUME NEW k \in m + 1 .. n PROVE g[m].done \/ obj[s[k]].req.pid # p
    <3>1. CASE m = MaxDispatchSize
      BY <1>7, <3>1
    <3>2. CASE D = OfPid(p)
      <4>1. k \in 1 .. n /\ \A j \in 1 .. m : j \in 1 .. n /\ j # k
        OBVIOUS
      <4>2. s[k] \notin D
        BY <1>3, <4>1 DEF First
      <4>3. s[k] \in backlog
        BY <1>3, <4>1
      <4> QED
        BY <3>2, <4>2, <4>3 DEF OfPid
    <3> QED
      BY <1>10, <3>1, <3>2
  <2>2. g[n] = g[m]
    BY <2>1, Settled
  <2> QED
    BY <1>7, <1>9, <2>2
<1>11. CASE m # MaxDispatchSize /\ m + 1 <= n /\ s[m + 1] \in OfPid(p)
            /\ ~Fits(Bytes(D) + obj[s[m + 1]].req.size)
  <2> DEFINE x == s[m + 1]
  <2>1. m + 1 \in 1 .. n /\ m + 1 \in 0 .. n /\ (m + 1) - 1 = m
    BY <1>11
  <2>2. g[m + 1] = LoopBody(x, p, g[m])
    BY <2>1 DEF Runs
  <2>3. x \in backlog /\ obj[x].req.pid = p /\ obj[x].req.size \in Nat /\ Bytes(D) \in Nat
    BY <1>2, <1>11, BytesType DEF OfPid, Sized
  <2>4. Bytes(D) + obj[x].req.size >= MaxBytesPerDispatch
    BY <1>11, <2>3, LimitsAssumption DEF Fits
  <2>5. ~g[m].done
    BY <1>7, <1>11
  <2>6. g[m + 1] = [g[m] EXCEPT !.done = TRUE]
    BY <1>7, <2>2, <2>3, <2>4, <2>5 DEF LoopBody
  <2>7. g[m + 1].dispatchBuffer = D /\ g[m + 1].done
    BY <1>5, <1>7, <2>6
  <2>8. g[n] = g[m + 1]
    BY <2>1, <2>7, Settled
  <2> QED
    BY <1>9, <2>7, <2>8
<1> QED
  BY <1>10, <1>11

\* For every batch there is an order in which the loop selects it, for the
\* process of the first item.
LEMMA LoopComplete ==
    ASSUME Sized(backlog), NEW p \in Pids, NEW D, Batch(p, D)
    PROVE  \E s \in Bijection(1 .. Cardinality(backlog), backlog) :
              obj[s[1]].req.pid = p /\ SelectLoop(s, p) = D
<1>1. D \subseteq OfPid(p) /\ D \subseteq backlog /\ Cardinality(D) <= MaxDispatchSize
  BY DEF Batch, OfPid
<1>2. IsFiniteSet(backlog) /\ IsFiniteSet(D)
  BY <1>1, FS_Subset DEF Sized
<1>n. PICK n \in Nat : Cardinality(backlog) = n
  BY <1>2, FS_CardinalityType
<1>m. PICK m \in Nat : Cardinality(D) = m
  BY <1>2, FS_CardinalityType
<1>o. ASSUME NEW s \in Bijection(1 .. n, backlog), m \in 0 .. n, First(s, m) = D,
             \/ D = OfPid(p)
             \/ m = MaxDispatchSize
             \/ m + 1 <= n /\ s[m + 1] \in OfPid(p) /\ ~Fits(Bytes(D) + obj[s[m + 1]].req.size)
      PROVE  obj[s[1]].req.pid = p /\ SelectLoop(s, p) = D
  <2>1. PICK g : Runs(s, p, n, g) /\ SelectLoop(s, p) = g[n].dispatchBuffer
    BY <1>n, SelectLoopRuns
  <2>2. m <= MaxDispatchSize
    BY <1>1, <1>m
  <2>3. obj[s[1]].req.pid = p /\ g[n].dispatchBuffer = D
    BY <1>o, <2>1, <2>2, Selects
  <2> QED
    BY <2>1, <2>3
<1>3. ASSUME NEW x \in backlog \ D,
             \/ D = OfPid(p)
             \/ Cardinality(D) = MaxDispatchSize
             \/ x \in OfPid(p) /\ ~Fits(Bytes(D) + obj[x].req.size)
      PROVE  \E s \in Bijection(1 .. n, backlog) :
                obj[s[1]].req.pid = p /\ SelectLoop(s, p) = D
  <2>1. /\ m + 1 \in 1 .. n
        /\ \E s \in Bijection(1 .. n, backlog) : First(s, m) = D /\ s[m + 1] = x
    BY <1>1, <1>2, <1>n, <1>m, OrderExists
  <2>2. PICK s \in Bijection(1 .. n, backlog) : First(s, m) = D /\ s[m + 1] = x
    BY <2>1
  <2>3. m \in 0 .. n /\ m + 1 <= n
    BY <2>1
  <2>4. \/ D = OfPid(p)
        \/ m = MaxDispatchSize
        \/ m + 1 <= n /\ s[m + 1] \in OfPid(p) /\ ~Fits(Bytes(D) + obj[s[m + 1]].req.size)
    BY <1>3, <1>m, <2>2, <2>3
  <2>5. obj[s[1]].req.pid = p /\ SelectLoop(s, p) = D
    BY <1>o, <2>2, <2>3, <2>4
  <2> QED
    BY <2>5
<1>4. CASE D = backlog
  <2>1. PICK s : s \in Bijection(1 .. n, backlog)
    BY <1>2, <1>n, FS_CardinalityType DEF ExistsBijection
  <2>2. m = n
    BY <1>4, <1>n, <1>m
  <2>3. First(s, m) = D
    BY <1>4, <2>1, <2>2 DEF First, Bijection, Surjection
  <2>4. D = OfPid(p)
    BY <1>1, <1>4 DEF OfPid
  <2>5. obj[s[1]].req.pid = p /\ SelectLoop(s, p) = D
    BY <1>o, <2>1, <2>2, <2>3, <2>4
  <2> QED
    BY <1>n, <2>1, <2>5
<1>5. CASE D # backlog
  <2>1. CASE D = OfPid(p) \/ Cardinality(D) = MaxDispatchSize
    <3>1. PICK x \in backlog : x \notin D
      BY <1>1, <1>5
    <3> QED
      BY <1>3, <1>n, <2>1, <3>1
  <2>2. CASE \E x \in OfPid(p) \ D : ~Fits(Bytes(D) + obj[x].req.size)
    <3>1. PICK x \in OfPid(p) \ D : ~Fits(Bytes(D) + obj[x].req.size)
      BY <2>2
    <3>2. x \in backlog \ D
      BY <3>1 DEF OfPid
    <3> QED
      BY <1>3, <1>n, <3>1, <3>2
  <2> QED
    BY <2>1, <2>2 DEF Batch
<1> QED
  BY <1>4, <1>5

-----------------------------------------------------------------------------
(* The selection *)

LEMMA LoopIsBatch == Inv => BatchIsWhatTheLoopSelects
<1> SUFFICES ASSUME Inv, dpc = "build" PROVE BatchIsWhatTheLoopSelects
  BY DEF BatchIsWhatTheLoopSelects
<1> DEFINE Described(D) == D \in SUBSET backlog /\ \E p \in Pids : Batch(p, D)
           Selected(D) == \E s \in Bijection(1 .. Cardinality(backlog), backlog) :
                             D = SelectLoop(s, obj[s[1]].req.pid)
<1>1. Sized(backlog)
  BY QueueSized
<1>2. backlog # {}
  BY DEF Inv, BacklogBeginValid
<1>3. IsFiniteSet(backlog) /\ Cardinality(backlog) \in Nat /\ Cardinality(backlog) # 0
  BY <1>1, <1>2, FS_CardinalityType, FS_EmptySet DEF Sized
<1>4. PICK n \in Nat : Cardinality(backlog) = n /\ n # 0
  BY <1>3
<1>5. ASSUME NEW D, Described(D) PROVE Selected(D)
  <2>1. PICK p \in Pids : Batch(p, D)
    BY <1>5
  <2>2. PICK s \in Bijection(1 .. Cardinality(backlog), backlog) :
           obj[s[1]].req.pid = p /\ SelectLoop(s, p) = D
    BY <1>1, <2>1, LoopComplete
  <2> QED
    BY <2>2
<1>6. ASSUME NEW D, Selected(D) PROVE Described(D)
  <2>1. PICK s \in Bijection(1 .. n, backlog) : D = SelectLoop(s, obj[s[1]].req.pid)
    BY <1>4, <1>6
  <2>2. s[1] \in backlog
    BY <1>4, <2>1 DEF Bijection, Injection
  <2>3. PICK p \in Pids : p = obj[s[1]].req.pid
    BY <2>2 DEF Pids
  <2>4. SelectLoop(s, p) \subseteq backlog /\ Batch(p, SelectLoop(s, p))
    BY <1>1, <1>4, <2>1, LoopSound
  <2> QED
    BY <2>1, <2>3, <2>4
<1>7. \A D : Described(D) <=> Selected(D)
  BY <1>5, <1>6
<1> QED
  BY <1>7 DEF BatchIsWhatTheLoopSelects

\* The batches Memory's Batch describes are exactly those the loop of
\* dispatchLoop selects over the orders the unordered map may have, for any
\* backlog, any sizes and any limits.
THEOREM LoopSelectsBatches == Spec => []BatchIsWhatTheLoopSelects
BY Invariance, LoopIsBatch, PTL

\* After building a backlog the dispatch thread always finds a batch to take,
\* be it an empty one: the selection cannot get stuck.
THEOREM SelectionSucceeds ==
    Spec => [](dpc = "build" => \E p \in Pids : \E D \in SUBSET OfPid(p) : Batch(p, D))
<1>1. Inv => (dpc = "build" => \E p \in Pids : \E D \in SUBSET OfPid(p) : Batch(p, D))
  <2> SUFFICES ASSUME Inv, dpc = "build"
               PROVE  \E p \in Pids : \E D \in SUBSET OfPid(p) : Batch(p, D)
    OBVIOUS
  <2>1. Sized(backlog) /\ backlog # {}
    BY QueueSized DEF Inv, BacklogBeginValid
  <2>2. PICK n \in Nat : Cardinality(backlog) = n
    BY <2>1, FS_CardinalityType DEF Sized
  <2>3. PICK s : s \in Bijection(1 .. n, backlog)
    BY <2>1, <2>2, FS_CardinalityType DEF Sized, ExistsBijection
  <2>4. PICK p : p \in Pids
    BY <2>1 DEF Pids
  <2>5. Batch(p, SelectLoop(s, p))
    BY <2>1, <2>2, <2>3, LoopSound
  <2> QED
    BY <2>4, <2>5 DEF Batch
<1> HIDE DEF Inv
<1> QED
  BY <1>1, Invariance, PTL

-----------------------------------------------------------------------------
(* The limits of a dispatch *)

\* A batch keeps to both limits while it is dispatched, whatever becomes of
\* the items meanwhile.
BatchWithinLimits ==
    /\ Cardinality(batch) <= MaxDispatchSize
    /\ batch # {} => Bytes(batch) < MaxBytesPerDispatch

\* Bytes depends on the requests of the items only.
LEMMA BytesSame ==
    ASSUME NEW S, IsFiniteSet(S), \A i \in S : obj'[i].req = obj[i].req
    PROVE  Bytes(S)' = Bytes(S)
<1>1. Bytes(S)' = Sum(obj', S)
  BY DEF Bytes, MapThenSumSet, MapThenFoldSet, Sum, Sums, IsSums, Pick
<1>2. Sum(obj', S) = Sum(obj, S)
  BY SumSame
<1> QED
  BY <1>1, <1>2, BytesIsSum

LEMMA NextLimits == Inv /\ BatchWithinLimits /\ [Next]_vars => BatchWithinLimits'
<1> SUFFICES ASSUME Inv, BatchWithinLimits, [Next]_vars PROVE BatchWithinLimits'
  OBVIOUS
<1>0. IsFiniteSet(batch)
  BY QueueSized DEF Sized
<1>1. ASSUME batch' = batch, \A i \in batch : obj'[i].req = obj[i].req PROVE BatchWithinLimits'
  <2>1. PICK S : S = batch
    OBVIOUS
  <2>2. Bytes(S)' = Bytes(S)
    BY <1>0, <1>1, <2>1, BytesSame
  <2>3. Bytes(batch)' = Bytes(S)'
    BY <1>1, <2>1 DEF Bytes
  <2> QED
    BY <1>1, <2>1, <2>2, <2>3 DEF BatchWithinLimits
<1>2. ASSUME batch' = {} PROVE BatchWithinLimits'
  BY <1>2, FS_EmptySet, LimitsAssumption DEF BatchWithinLimits
<1>3. CASE Collect
  <2>1. PICK p \in Pids : \E D \in SUBSET OfPid(p) : Batch(p, D) /\ batch' = D
    BY <1>3 DEF Collect
  <2>2. PICK D : Batch(p, D) /\ batch' = D
    BY <2>1
  <2>3. obj' = obj
    BY <1>3 DEF Collect
  <2>4. Bytes(batch)' = Bytes(D)
    <3>1. Bytes(batch)' = Sum(obj', batch')
      BY DEF Bytes, MapThenSumSet, MapThenFoldSet, Sum, Sums, IsSums, Pick
    <3> QED
      BY <2>2, <2>3, <3>1, BytesIsSum
  <2> QED
    BY <2>2, <2>4 DEF Batch, Fits, BatchWithinLimits
<1>4. ASSUME NEW c \in Threads, NEW r \in Requests, ReadNew(c, r) PROVE BatchWithinLimits'
  <2>1. batch' = batch
    BY <1>4 DEF ReadNew
  <2>2. PICK i \in Items \ Referenced(backlog, batch, held) : obj' = [obj EXCEPT ![i] = NewItem(r)]
    BY <1>4 DEF ReadNew
  <2>3. \A j \in batch : obj'[j].req = obj[j].req
    BY <2>2 DEF Referenced, Inv, TypeOK
  <2> QED
    BY <1>1, <2>1, <2>3
<1> QED
  BY <1>1, <1>2, <1>3, <1>4, QueueSteps

\* One dispatch never takes more than MAX_DISPATCH_SIZE reads to the device,
\* and always less than MAX_BYTES_PER_DISPATCH bytes, for reads of any sizes.
THEOREM DispatchWithinLimits == Spec => []BatchWithinLimits
<1>1. Init => BatchWithinLimits
  BY FS_EmptySet, LimitsAssumption DEF Init, BatchWithinLimits
<1> QED
  BY <1>1, NextLimits, Invariance, PTL DEF Spec

-----------------------------------------------------------------------------
(* Reads that reach the byte limit by themselves *)

Huge(r) == r.size >= MaxBytesPerDispatch

\* The device has read nothing for an item that reaches the limit.
HugeUnserved == \A i \in Items : obj[i].req \in Requests /\ Huge(obj[i].req) => obj[i].dev = None

LEMMA NoHugeInBatch ==
    ASSUME Inv, BatchWithinLimits
    PROVE  \A i \in batch : ~Huge(obj[i].req)
<1> SUFFICES ASSUME NEW i \in batch PROVE ~Huge(obj[i].req)
  OBVIOUS
<1>1. Sized(batch) /\ Sized({i}) /\ obj[i].req.size \in Nat
  BY QueueSized, FS_Singleton DEF Sized
<1>2. Bytes({i}) = obj[i].req.size
  <2>1. Sized({}) /\ {} \cup {i} = {i}
    BY FS_EmptySet DEF Sized
  <2>2. Bytes({} \cup {i}) = Bytes({}) + obj[i].req.size
    BY <1>1, <2>1, BytesAdd
  <2> QED
    BY <1>1, <2>1, <2>2, BytesEmpty
<1>3. Bytes({i}) <= Bytes(batch) /\ Bytes(batch) < MaxBytesPerDispatch /\ Bytes(batch) \in Nat
  BY <1>1, BytesMonotone, BytesType DEF BatchWithinLimits
<1> QED
  BY <1>1, <1>2, <1>3, LimitsAssumption DEF Huge

\* The device answers only for items of the batch, and only while the batch is
\* dispatched; every other step keeps what an item has or blanks it.
LEMMA DeviceSteps ==
    ASSUME Inv, [Next]_vars, NEW i \in Items
    PROVE  \/ obj'[i].dev = None
           \/ obj'[i].req = obj[i].req /\ (obj'[i].dev = obj[i].dev \/ i \in batch)
<1> DEFINE Kept == \/ obj'[i].dev = None
                   \/ obj'[i].req = obj[i].req /\ (obj'[i].dev = obj[i].dev \/ i \in batch)
<1>0. obj \in [Items -> ItemType] /\ held \in [Threads -> Items \cup {None}]
  BY DEF Inv, TypeOK
<1>1. ASSUME obj' = obj PROVE Kept
  BY <1>1
<1>2. ASSUME NEW j \in Items, NEW o, obj' = [obj EXCEPT ![j] = o], o.req = obj[j].req,
             o.dev = obj[j].dev \/ j \in batch
      PROVE  Kept
  BY <1>0, <1>2
<1>3. ASSUME NEW q, NEW b, NEW h, obj' = Reclaim(q, b, h) PROVE Kept
  <2>1. obj'[i] = obj[i] \/ obj'[i] = Blank
    BY <1>3, ReclaimKeeps DEF Inv
  <2> QED
    BY <2>1 DEF Blank
<1> HIDE DEF Kept
<1>4. CASE MainStep
  BY <1>1, <1>4 DEF MainStep, InitNoMap, InitVMM, Leave, SetStop, NotifyStop, JoinAndClose
<1>5. CASE DispatchStep \/ SpuriousWakeup
  <2>1. CASE \/ LoopTest \/ CheckBacklog \/ WaitPredicate \/ WaitBlock \/ SpuriousWakeup
             \/ Collect \/ AcquireSem \/ ScatterExecuted
    BY <1>1, <2>1 DEF LoopTest, CheckBacklog, WaitPredicate, WaitBlock, SpuriousWakeup, Collect,
                      AcquireSem, ScatterExecuted
  <2>2. CASE SetValue \/ FreeBuffer
    <3>1. cur \in Items
      BY <2>2 DEF SetValue, FreeBuffer, Jump, Inv, TypeOK, DispatchInv
    <3> QED
      BY <1>0, <1>2, <2>2, <3>1 DEF SetValue, FreeBuffer, ItemType
  <2>3. CASE \E j \in Items : MemReadEx(j) \/ ScatterExecute(j) \/ ScatterRead(j)
    BY <1>0, <1>2, <2>3 DEF MemReadEx, ScatterExecute, ScatterRead, ItemType
  <2>4. CASE ReleaseSem
    <3>1. obj' = Reclaim(backlog, {}, held)
      BY <2>4 DEF ReleaseSem
    <3>2. obj'[i] = obj[i] \/ obj'[i] = Blank
      BY <3>1, ReclaimKeeps DEF Inv
    <3> QED
      BY <3>2 DEF Blank, Kept
  <2> QED
    BY <1>5, <2>1, <2>2, <2>3, <2>4 DEF DispatchStep
<1>6. ASSUME NEW c \in Threads, Call(c) PROVE Kept
  <2>1. ASSUME NEW r \in Requests, ReadNew(c, r) PROVE Kept
    <3>1. PICK j \in Items : obj' = [obj EXCEPT ![j] = NewItem(r)]
      BY <2>1 DEF ReadNew
    <3> QED
      BY <1>0, <3>1 DEF NewItem, Blank, Kept
  <2> QED
    BY <1>1, <1>6, <2>1 DEF Call, ReadJoin, WriteCall, QueryBegin
<1>7. ASSUME NEW c \in Threads, CallStep(c) PROVE Kept
  <2>1. CASE GetFuture(c) \/ GetResult(c)
    <3>1. held[c] \in Items
      BY <2>1 DEF GetFuture, GetResult, At, Inv, CallInv, Reading
    <3> QED
      BY <1>0, <1>2, <2>1, <3>1 DEF GetFuture, GetResult, ItemType
  <2>2. CASE ReadReturn(c)
    BY <1>3, <2>2 DEF ReadReturn
  <2> QED
    BY <1>1, <1>7, <2>1, <2>2 DEF CallStep, GetCached, WriteAcquire, MemWriteFails, WriteReturn,
                                  QueryEnd, MemWrite
<1>8. ASSUME NEW x \in Cells, NEW v \in Vals, TargetWrite(x, v) PROVE Kept
  BY <1>1, <1>8 DEF TargetWrite
<1>9. CASE UNCHANGED vars
  BY <1>1, <1>9 DEF vars
<1> QED
  BY <1>4, <1>5, <1>6, <1>7, <1>8, <1>9 DEF Next, Kept

LEMMA NextHuge ==
    Inv /\ BatchWithinLimits /\ HugeUnserved /\ [Next]_vars => HugeUnserved'
<1> SUFFICES ASSUME Inv, BatchWithinLimits, HugeUnserved, [Next]_vars, NEW i \in Items,
                    obj'[i].req \in Requests, Huge(obj'[i].req)
             PROVE  obj'[i].dev = None
  BY DEF HugeUnserved, Huge
<1> QED
  BY DeviceSteps, NoHugeInBatch DEF HugeUnserved

\* No item that reaches the byte limit is ever read from the device.
LEMMA HugeInvariance == Spec => [](Inv /\ BatchWithinLimits /\ HugeUnserved)
<1>1. Init => HugeUnserved
  BY DEF Init, HugeUnserved, Blank
<1> HIDE DEF Inv
<1> QED
  BY <1>1, NextHuge, DispatchWithinLimits, Invariance, PTL DEF Spec

\* A thread that waits for a huge read is in the backlog for good: it neither
\* returns nor changes its request, and main cannot leave.
StarvesOnHuge ==
    \A c \in Threads :
        Reading(c) /\ Huge(want[c]) =>
            /\ Reading(c)' /\ want'[c] = want[c]
            /\ held[c] \in backlog
            /\ life' = "serving"

LEMMA HugeStep == Inv /\ BatchWithinLimits /\ HugeUnserved /\ [Next]_vars => StarvesOnHuge
<1> SUFFICES ASSUME Inv, BatchWithinLimits, HugeUnserved, [Next]_vars,
                    NEW c \in Threads, Reading(c), Huge(want[c])
             PROVE  /\ Reading(c)' /\ want'[c] = want[c]
                    /\ held[c] \in backlog
                    /\ life' = "serving"
  BY DEF StarvesOnHuge
<1>0. /\ held[c] \in Items /\ obj[held[c]].req = want[c] /\ want[c] \in Requests
      /\ pc \in [Threads -> {"idle", "get", "future", "copy", "wacquire", "wdevice",
                             "written", "unwritten", "query"}]
      /\ want \in [Threads -> Requests \cup {None}]
  BY DEF Inv, CallInv, TypeOK
<1>1. obj[held[c]].dev = None
  BY <1>0 DEF HugeUnserved
<1>2. ~Fulfilled(held[c]) /\ ~PromiseRead(held[c])
  BY <1>0, <1>1 DEF Inv, ItemInv
<1>3. (pc[c] = "get" \/ pc[c] = "future") /\ pc[c] # "idle"
  BY <1>2 DEF Reading, Inv, CallInv
<1>4. life = "serving"
  BY <1>3 DEF Inv, LifeInv
<1>5. held[c] \in backlog
  <2>1. held[c] \in backlog \cup batch
    BY <1>2 DEF Inv, NoLostRead
  <2> QED
    BY <1>0, <2>1, NoHugeInBatch
<1>6. ASSUME UNCHANGED callVars, life' = life PROVE Reading(c)' /\ want'[c] = want[c] /\ life' = "serving"
  BY <1>4, <1>6 DEF callVars, Reading
<1>7. ASSUME life' = life, pc'[c] = "get" \/ pc'[c] = "future", want'[c] = want[c]
      PROVE  Reading(c)' /\ want'[c] = want[c] /\ life' = "serving"
  BY <1>4, <1>7 DEF Reading
<1>8. CASE MainStep
  BY <1>3, <1>4, <1>8 DEF MainStep, InitNoMap, InitVMM, Leave, Idle, SetStop, NotifyStop,
                          JoinAndClose
<1>9. CASE DispatchStep \/ SpuriousWakeup
  BY <1>5, <1>6, <1>9 DEF DispatchStep, LoopTest, CheckBacklog, WaitPredicate, WaitBlock,
                          SpuriousWakeup, Collect, AcquireSem, SetValue, FreeBuffer,
                          ScatterExecuted, ReleaseSem, MemReadEx, ScatterExecute, ScatterRead,
                          mainVars
<1>10. ASSUME NEW d \in Threads, Call(d) PROVE Reading(c)' /\ want'[c] = want[c] /\ life' = "serving"
  <2>1. d # c
    BY <1>3, <1>10 DEF Call, ReadJoin, ReadNew, WriteCall, QueryBegin, At
  <2>2. pc'[c] = pc[c] /\ want'[c] = want[c] /\ life' = life
    BY <1>0, <1>10, <2>1 DEF Call, ReadJoin, ReadNew, WriteCall, QueryBegin, At, Asks, mainVars
  <2> QED
    BY <1>3, <1>7, <2>2
<1>11. ASSUME NEW d \in Threads, CallStep(d)
       PROVE  Reading(c)' /\ want'[c] = want[c] /\ life' = "serving"
  <2>1. CASE d # c
    <3>1. pc'[c] = pc[c] /\ want'[c] = want[c] /\ life' = life
      BY <1>0, <1>11, <2>1 DEF CallStep, GetFuture, GetCached, GetResult, ReadReturn, WriteAcquire,
                               MemWriteFails, WriteReturn, QueryEnd, MemWrite, At, Returns, mainVars
    <3> QED
      BY <1>3, <1>7, <3>1
  <2>2. CASE d = c
    <3>1. GetFuture(c)
      BY <1>2, <1>3, <1>11, <2>2
         DEF CallStep, GetCached, GetResult, ReadReturn, WriteAcquire, MemWriteFails,
             WriteReturn, QueryEnd, MemWrite, At
    <3>2. pc'[c] = "future" /\ want'[c] = want[c] /\ life' = life
      BY <1>0, <3>1 DEF GetFuture, At, mainVars
    <3> QED
      BY <1>7, <3>2
  <2> QED
    BY <2>1, <2>2
<1>12. ASSUME NEW x \in Cells, NEW v \in Vals, TargetWrite(x, v)
       PROVE  Reading(c)' /\ want'[c] = want[c] /\ life' = "serving"
  BY <1>6, <1>12 DEF TargetWrite, mainVars
<1>13. CASE UNCHANGED vars
  <2>1. UNCHANGED callVars /\ life' = life
    BY <1>13 DEF vars, mainVars
  <2>2. Reading(c)' /\ want'[c] = want[c] /\ life' = "serving"
    BY <1>6, <2>1
  <2> QED
    BY <1>5, <2>2
<1> QED
  BY <1>5, <1>8, <1>9, <1>10, <1>11, <1>12, <1>13 DEF Next

\* A read of MAX_BYTES_PER_DISPATCH bytes or more never returns, in no
\* schedule and whatever else is read: its thread waits with the item in the
\* backlog, so the connection threads cannot be joined and shutdown never
\* begins.  This is why the run memory_huge_read fails, for any limit and any
\* number of threads.
THEOREM HugeReadNeverReturns == Spec => [][StarvesOnHuge]_vars
<1>1. Inv /\ BatchWithinLimits /\ HugeUnserved /\ [Next]_vars => [StarvesOnHuge]_vars
  BY HugeStep
<1> HIDE DEF Inv, StarvesOnHuge
<1> QED
  BY <1>1, HugeInvariance, PTL DEF Spec

-----------------------------------------------------------------------------
(* Shutdown and the dispatch thread *)

\* bStop is set from the first step of shutdown on; only it ends the dispatch
\* thread, which runs as long as main serves.
StopInv ==
    /\ bStop <=> life \in {"notify", "joining", "closed"}
    /\ dpc = "exited" => bStop
    /\ dpc = "none" => life # "serving"

\* A call does nothing to main, and to the dispatch thread at most wakes it.
LEMMA OtherSteps ==
    ASSUME \/ \E c \in Threads : Call(c) \/ CallStep(c)
           \/ \E x \in Cells, v \in Vals : TargetWrite(x, v)
           \/ UNCHANGED vars
    PROVE  UNCHANGED mainVars /\ (dpc' = dpc \/ dpc' = "pred")
<1>1. ASSUME NEW c \in Threads, Call(c) PROVE UNCHANGED mainVars /\ (dpc' = dpc \/ dpc' = "pred")
  BY <1>1 DEF Call, ReadJoin, ReadNew, Notified, WriteCall, QueryBegin, dispatchVars
<1>2. ASSUME NEW c \in Threads, CallStep(c) PROVE UNCHANGED mainVars /\ dpc' = dpc
  BY <1>2 DEF CallStep, GetFuture, GetCached, GetResult, ReadReturn, WriteAcquire, MemWriteFails,
              WriteReturn, QueryEnd, MemWrite, dispatchVars
<1> QED
  BY <1>1, <1>2 DEF TargetWrite, vars, dispatchVars

LEMMA NextStop == Inv /\ StopInv /\ [Next]_vars => StopInv'
<1> SUFFICES ASSUME Inv, StopInv, [Next]_vars PROVE StopInv'
  OBVIOUS
<1>0. bStop \in BOOLEAN /\ (life = "new" => dpc = "none")
  BY DEF Inv, TypeOK, LifeInv
<1>1. CASE UNCHANGED mainVars /\ (dpc' = dpc \/ dpc' \notin {"none", "exited"})
  BY <1>1 DEF StopInv, mainVars
<1>2. CASE MainStep
  BY <1>0, <1>2 DEF MainStep, InitNoMap, InitVMM, Leave, SetStop, NotifyStop, Notified, JoinAndClose,
                    dispatchVars, StopInv
<1>3. CASE DispatchStep \/ SpuriousWakeup
  <2>1. CASE LoopTest
    BY <1>0, <2>1 DEF LoopTest, Jump, mainVars, StopInv
  <2>2. CASE ~LoopTest
    BY <1>1, <1>3, <2>2
       DEF DispatchStep, CheckBacklog, WaitPredicate, WaitBlock, SpuriousWakeup, Collect,
           AcquireSem, SetValue, FreeBuffer, ScatterExecuted, ReleaseSem, MemReadEx,
           ScatterExecute, ScatterRead, Jump
  <2> QED
    BY <2>1, <2>2
<1>4. CASE \/ \E c \in Threads : Call(c) \/ CallStep(c)
           \/ \E x \in Cells, v \in Vals : TargetWrite(x, v)
           \/ UNCHANGED vars
  <2>1. UNCHANGED mainVars /\ (dpc' = dpc \/ dpc' = "pred")
    BY <1>4, OtherSteps
  <2> QED
    BY <2>1 DEF StopInv, mainVars
<1> QED
  BY <1>2, <1>3, <1>4 DEF Next

LEMMA StopInvariance == Spec => [](Inv /\ StopInv)
<1>1. Init => StopInv
  BY DEF Init, StopInv
<1> HIDE DEF Inv
<1> QED
  BY <1>1, NextStop, Invariance, PTL DEF Spec

\* A reader that waits for its promise has a dispatch thread that was started,
\* has not been stopped and is not blocked: no read is left to a thread that
\* sleeps or is gone, for any number of readers, requests and items.
THEOREM WaitingReaderIsServed == Spec => []ReaderHasDispatcher
<1>1. Inv /\ StopInv => ReaderHasDispatcher
  <2> SUFFICES ASSUME Inv, StopInv, NEW c \in Threads, Reading(c), ~Fulfilled(held[c])
               PROVE  dpc \notin {"none", "exited", "blocking", "asleep"}
    BY DEF ReaderHasDispatcher
  <2>1. life = "serving"
    BY DEF Inv, LifeInv, Reading
  <2>2. dpc # "none" /\ dpc # "exited"
    BY <2>1 DEF StopInv
  <2>3. backlog # {} \/ batch # {}
    BY DEF Inv, NoLostRead
  <2>4. dpc # "blocking" /\ dpc # "asleep"
    BY <2>3 DEF Inv, NeverSleepsOnWork, QueueInv, Dispatching
  <2> QED
    BY <2>2, <2>4
<1> HIDE DEF Inv, StopInv
<1> QED
  BY <1>1, StopInvariance, PTL

\* The notification of shutdown comes while the dispatch thread is between the
\* predicate of its wait and the block.
MissedNotify == NotifyStop /\ dpc = "blocking"

\* The dispatch thread is out of the wait when shutdown has notified it.
AwakeAfterNotify == life \in {"joining", "closed"} => dpc \notin {"blocking", "asleep"}

LEMMA NextAwake ==
    Inv /\ StopInv /\ AwakeAfterNotify /\ [Next]_vars /\ [~MissedNotify]_vars => AwakeAfterNotify'
<1> SUFFICES ASSUME Inv, StopInv, AwakeAfterNotify, [Next]_vars, [~MissedNotify]_vars
             PROVE  AwakeAfterNotify'
  OBVIOUS
<1>1. CASE life' = life /\ (dpc' = dpc \/ dpc' \notin {"blocking", "asleep"})
  BY <1>1 DEF AwakeAfterNotify
<1>2. CASE MainStep
  BY <1>2 DEF MainStep, InitNoMap, InitVMM, Leave, SetStop, NotifyStop, Notified, JoinAndClose,
              vars, mainVars, dispatchVars, AwakeAfterNotify, MissedNotify
<1>3. CASE DispatchStep \/ SpuriousWakeup
  <2>1. CASE WaitPredicate \/ WaitBlock
    BY <2>1 DEF WaitPredicate, WaitBlock, Jump, mainVars, StopInv, AwakeAfterNotify
  <2>2. CASE ~(WaitPredicate \/ WaitBlock)
    BY <1>1, <1>3, <2>2
       DEF DispatchStep, LoopTest, CheckBacklog, SpuriousWakeup, Collect,
           AcquireSem, SetValue, FreeBuffer, ScatterExecuted, ReleaseSem, MemReadEx,
           ScatterExecute, ScatterRead, Jump, mainVars
  <2> QED
    BY <2>1, <2>2
<1>4. CASE \/ \E c \in Threads : Call(c) \/ CallStep(c)
           \/ \E x \in Cells, v \in Vals : TargetWrite(x, v)
           \/ UNCHANGED vars
  <2>1. UNCHANGED mainVars /\ (dpc' = dpc \/ dpc' = "pred")
    BY <1>4, OtherSteps
  <2> QED
    BY <2>1 DEF AwakeAfterNotify, mainVars
<1> QED
  BY <1>2, <1>3, <1>4 DEF Next

\* The lost wake-up of the run memory_shutdown has one cause: in a behaviour
\* in which shutdown never notifies between the predicate and the block (as
\* when it held mtx while it sets bStop), the dispatch thread is never left in
\* its wait while main waits to join it.
THEOREM OnlyTheGapLosesWakeups == Spec /\ [][~MissedNotify]_vars => []AwakeAfterNotify
<1>1. Init => AwakeAfterNotify
  BY DEF Init, AwakeAfterNotify
<1> HIDE DEF Inv, StopInv, MissedNotify, AwakeAfterNotify
<1> QED
  BY <1>1, NextAwake, StopInvariance, PTL DEF Spec
=============================================================================
