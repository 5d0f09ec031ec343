----------------------------- MODULE OpsProofs -----------------------------
(***************************************************************************)
(* What the proofs about the components need to know of sets, sums and     *)
(* strings, and what Writer, Reader and Reassembler make of a stream, for  *)
(* every capacity, length and substring.                                   *)
(*                                                                         *)
(* First induction: the induction theorems of the library are about any    *)
(* predicate; here the predicate is a set of numbers, which the provers    *)
(* can be given. From it follow that a function may be defined by          *)
(* recursion on an interval, and what SumFunctionOnSet yields. Then runs:  *)
(* strings that hold consecutive bytes of a stream whose byte i is the     *)
(* value i; streams whose buffers hold a run; powers of two. Last what     *)
(* Reassembler::insert does to any reassembler: stored blocks stay apart   *)
(* and in place, what is held grows by exactly the part of the substring   *)
(* that lies in the window, and the output is closed behind the stream's   *)
(* last byte.                                                              *)
(***************************************************************************)
EXTENDS TCPPeerOps, FiniteSetTheorems, FunctionTheorems, SequenceTheorems, WellFoundedInduction, TLAPS

(* A set of natural numbers that has 0, and the successor of each of its    *)
(* members, has all of them.                                                *)
LEMMA NatSetInduction ==
    ASSUME NEW T \in SUBSET Nat, 0 \in T, \A n \in T : n + 1 \in T
    PROVE  T = Nat
<1> DEFINE R == OpToRel(<, Nat)
<1> DEFINE C == Nat \ T
<1>1. IsWellFoundedOn(R, Nat)
  BY NatLessThanWellFounded
<1>2. SUFFICES ASSUME C # {} PROVE FALSE
  OBVIOUS
<1>3. PICK x \in C : \A y \in C : ~(<<y, x>> \in R)
  <2> HIDE DEF R
  <2> QED
    BY <1>1, <1>2, WFMin
<1>4. x \in Nat /\ x # 0 /\ x - 1 \in Nat
  OBVIOUS
<1>5. x - 1 \in C
  BY <1>4
<1>6. <<x - 1, x>> \in R
  BY <1>4 DEF OpToRel
<1> QED
  BY <1>3, <1>5, <1>6

(* There is a function that starts at a and goes on by the steps given.     *)
GoesBy(g, n, a, step) == g[0] = a /\ \A k \in 1 .. n : g[k] = step[k][g[k - 1]]

LEMMA RecursionOnInterval ==
    ASSUME NEW X, NEW n \in Nat, NEW a \in X, NEW step \in [1 .. n -> [X -> X]]
    PROVE  \E g \in [0 .. n -> X] : GoesBy(g, n, a, step)
<1> DEFINE Good(g, i) == g[0] = a /\ \A k \in 1 .. i : g[k] = step[k][g[k - 1]]
<1> DEFINE T == {i \in Nat : i <= n => \E g \in [0 .. i -> X] : Good(g, i)}
<1>1. 0 \in T
  <2> DEFINE g == [k \in 0 .. 0 |-> a]
  <2>1. g \in [0 .. 0 -> X] /\ Good(g, 0)
    OBVIOUS
  <2> QED
    BY <2>1
<1>2. ASSUME NEW i \in T
      PROVE  i + 1 \in T
  <2>1. i \in Nat /\ i + 1 \in Nat
    OBVIOUS
  <2> SUFFICES ASSUME i + 1 <= n
               PROVE  \E g \in [0 .. i + 1 -> X] : Good(g, i + 1)
    BY <2>1, Zenon
  <2>2. PICK g \in [0 .. i -> X] : Good(g, i)
    BY <2>1
  <2> DEFINE next == step[i + 1][g[i]]
  <2> DEFINE h == [k \in 0 .. i + 1 |-> IF k = i + 1 THEN next ELSE g[k]]
  <2>3. i \in Nat /\ i + 1 \in 1 .. n /\ i \in 0 .. i
    BY <2>1
  <2>4. next \in X
    BY <2>2, <2>3
  <2> HIDE DEF next
  <2>5. h \in [0 .. i + 1 -> X]
    BY <2>2, <2>4
  <2>6. ASSUME NEW k \in 1 .. i + 1
        PROVE  h[k] = step[k][h[k - 1]]
    <3>1. CASE k = i + 1
      <4>1. h[k] = next /\ h[k - 1] = g[i]
        BY <3>1
      <4> QED
        BY <3>1, <4>1 DEF next
    <3>2. CASE k # i + 1
      <4>1. k \in 1 .. i /\ h[k] = g[k] /\ h[k - 1] = g[k - 1]
        BY <3>2
      <4> QED
        BY <2>2, <4>1
    <3> QED
      BY <3>1, <3>2
  <2>7. h[0] = a
    BY <2>2
  <2> QED
    BY <2>5, <2>6, <2>7
<1>3. T = Nat
  <2> HIDE DEF T
  <2> QED
    BY <1>1, <1>2, NatSetInduction DEF T
<1> QED
  BY <1>3 DEF GoesBy

-----------------------------------------------------------------------------
(* Sums. SumFunctionOnSet takes off an element that CHOOSE picks; it does   *)
(* not matter which.                                                        *)
Picked(s) == CHOOSE x \in s : TRUE

SumsOver(g, f, I) ==
    \A s \in SUBSET I : g[s] = IF s = {} THEN 0 ELSE f[Picked(s)] + g[s \ {Picked(s)}]

SumsUp(g, f, I) == g \in [SUBSET I -> Int] /\ SumsOver(g, f, I)

(* The subsets of a finite set have a number of members, 0 only if empty.   *)
LEMMA SubsetCardinality ==
    ASSUME NEW I, IsFiniteSet(I), NEW s \in SUBSET I
    PROVE  /\ Cardinality(s) \in Nat
           /\ Cardinality(s) = 0 <=> s = {}
<1>1. IsFiniteSet(s) /\ Cardinality(s) \in Nat
  BY FS_Subset, FS_CardinalityType
<1> QED
  BY <1>1, FS_EmptySet

(* Taking off the picked element leaves one fewer.                          *)
LEMMA PickedOff ==
    ASSUME NEW I, IsFiniteSet(I), NEW s \in SUBSET I, s # {}
    PROVE  /\ Picked(s) \in s
           /\ s \ {Picked(s)} \in SUBSET I
           /\ Cardinality(s \ {Picked(s)}) = Cardinality(s) - 1
<1>1. IsFiniteSet(s) /\ Cardinality(s) \in Nat
  BY FS_Subset, FS_CardinalityType
<1>2. Picked(s) \in s
  BY DEF Picked
<1> QED
  BY <1>1, <1>2, FS_RemoveElement

(* Numbers over a finite set have sums over all its subsets...              *)
LEMMA SumsExist ==
    ASSUME NEW I, IsFiniteSet(I), NEW f, \A i \in I : f[i] \in Int
    PROVE  \E g : SumsUp(g, f, I)
<1>1. \A s \in SUBSET I : Cardinality(s) \in Nat /\ (Cardinality(s) = 0 <=> s = {})
  BY SubsetCardinality
<1> DEFINE Small(m) == {s \in SUBSET I : Cardinality(s) <= m}
<1> DEFINE Good(g, m) ==
             \A s \in Small(m) : g[s] = IF s = {} THEN 0 ELSE f[Picked(s)] + g[s \ {Picked(s)}]
<1> DEFINE T == {m \in Nat : \E g \in [Small(m) -> Int] : Good(g, m)}
<1>2. 0 \in T
  <2> DEFINE g == [s \in Small(0) |-> 0]
  <2>1. \A s \in Small(0) : s = {}
    BY <1>1
  <2>2. g \in [Small(0) -> Int] /\ Good(g, 0)
    BY <2>1
  <2> QED
    BY <2>2
<1>3. ASSUME NEW m \in T
      PROVE  m + 1 \in T
  <2>1. m \in Nat /\ m + 1 \in Nat
    OBVIOUS
  <2>2. PICK g \in [Small(m) -> Int] : Good(g, m)
    OBVIOUS
  <2> DEFINE h == [s \in Small(m + 1) |->
                     IF s \in Small(m) THEN g[s] ELSE f[Picked(s)] + g[s \ {Picked(s)}]]
  <2>3. ASSUME NEW s \in Small(m + 1)
        PROVE  /\ h[s] = IF s = {} THEN 0 ELSE f[Picked(s)] + h[s \ {Picked(s)}]
               /\ h[s] \in Int
    <3>1. CASE s = {}
      <4>1. s \in Small(m)
        BY <1>1, <2>1, <3>1
      <4> QED
        BY <2>2, <3>1, <4>1
    <3>2. CASE s # {}
      <4>1. /\ Picked(s) \in I
            /\ s \ {Picked(s)} \in Small(m)
        BY <1>1, <2>1, <3>2, PickedOff
      <4>2. s \ {Picked(s)} \in Small(m + 1)
        BY <1>1, <2>1, <4>1
      <4>3. h[s \ {Picked(s)}] = g[s \ {Picked(s)}] /\ g[s \ {Picked(s)}] \in Int
        BY <2>2, <4>1, <4>2
      <4>4. s \in Small(m) => g[s] = f[Picked(s)] + g[s \ {Picked(s)}]
        BY <2>2, <3>2
      <4>5. h[s] = f[Picked(s)] + g[s \ {Picked(s)}]
        BY <4>4
      <4> QED
        BY <3>2, <4>1, <4>3, <4>5
    <3> QED
      BY <3>1, <3>2
  <2>4. h \in [Small(m + 1) -> Int] /\ Good(h, m + 1)
    BY <2>3
  <2> QED
    BY <2>1, <2>4
<1>4. T = Nat
  <2> HIDE DEF T
  <2> QED
    BY <1>2, <1>3, NatSetInduction DEF T
<1>5. Cardinality(I) \in Nat
  BY FS_CardinalityType
<1>6. PICK g \in [Small(Cardinality(I)) -> Int] : Good(g, Cardinality(I))
  BY <1>4, <1>5
<1>7. Small(Cardinality(I)) = SUBSET I
  BY FS_Subset
<1> QED
  BY <1>6, <1>7 DEF SumsUp, SumsOver

(* ...and only one sum over each.                                           *)
LEMMA SumsUnique ==
    ASSUME NEW I, IsFiniteSet(I), NEW J \in SUBSET I, NEW f,
           NEW g, SumsUp(g, f, I),
           NEW h, SumsOver(h, f, J)
    PROVE  h[J] = g[J]
<1>1. \A s \in SUBSET I : Cardinality(s) \in Nat /\ (Cardinality(s) = 0 <=> s = {})
  BY SubsetCardinality
<1> DEFINE T == {m \in Nat : \A s \in SUBSET J : Cardinality(s) = m => h[s] = g[s]}
<1>2. 0 \in T
  <2>1. \A s \in SUBSET J : Cardinality(s) = 0 => s = {}
    BY <1>1
  <2> QED
    BY <2>1 DEF SumsUp, SumsOver
<1>3. ASSUME NEW m \in T
      PROVE  m + 1 \in T
  <2>1. m \in Nat
    OBVIOUS
  <2>2. ASSUME NEW s \in SUBSET J, Cardinality(s) = m + 1
        PROVE  h[s] = g[s]
    <3>1. s # {} /\ s \in SUBSET I
      BY <1>1, <2>1, <2>2
    <3>2. /\ Picked(s) \in s /\ s \ {Picked(s)} \in SUBSET J
          /\ Cardinality(s \ {Picked(s)}) = m
      BY <2>1, <2>2, <3>1, PickedOff
    <3>3. h[s \ {Picked(s)}] = g[s \ {Picked(s)}]
      BY <3>2
    <3>4. h[s] = f[Picked(s)] + h[s \ {Picked(s)}]
      BY <3>1 DEF SumsOver
    <3> QED
      BY <3>1, <3>3, <3>4 DEF SumsUp, SumsOver
  <2>3. m + 1 \in Nat
    BY <2>1
  <2> QED
    BY <2>2, <2>3, Zenon
<1>4. T = Nat
  <2> HIDE DEF T
  <2> QED
    BY <1>2, <1>3, NatSetInduction DEF T
<1>5. Cardinality(J) \in T
  BY <1>1, <1>4
<1> QED
  BY <1>5

(* One function holds the sums over all subsets.                            *)
LEMMA SumSolution ==
    ASSUME NEW I, IsFiniteSet(I), NEW f, \A i \in I : f[i] \in Int
    PROVE  \E g : SumsUp(g, f, I) /\ \A J \in SUBSET I : SumFunctionOnSet(f, J) = g[J]
<1>1. PICK g : SumsUp(g, f, I)
  BY SumsExist
<1>2. ASSUME NEW J \in SUBSET I
      PROVE  SumFunctionOnSet(f, J) = g[J]
  <2> DEFINE h == CHOOSE iter : iter = [s \in SUBSET J |->
                     IF s = {} THEN 0 ELSE f[Picked(s)] + iter[s \ {Picked(s)}]]
  <2>1. SumFunctionOnSet(f, J) = h[J]
    BY DEF SumFunctionOnSet, FoldFunctionOnSet, MapThenFoldSet, Picked
  <2>2. IsFiniteSet(J) /\ \A i \in J : f[i] \in Int
    BY FS_Subset
  <2>3. PICK k : SumsUp(k, f, J)
    BY <2>2, SumsExist
  <2>4. k = [s \in SUBSET J |-> IF s = {} THEN 0 ELSE f[Picked(s)] + k[s \ {Picked(s)}]]
    BY <2>3 DEF SumsUp, SumsOver
  <2>5. h = [s \in SUBSET J |-> IF s = {} THEN 0 ELSE f[Picked(s)] + h[s \ {Picked(s)}]]
    BY <2>4
  <2> HIDE DEF h
  <2>6. SumsOver(h, f, J)
    BY <2>5 DEF SumsOver
  <2>7. h[J] = g[J]
    BY <1>1, <2>6, SumsUnique
  <2> QED
    BY <2>1, <2>7
<1> QED
  BY <1>1, <1>2

(* Nothing adds up to 0, integers to an integer, naturals to a natural.     *)
LEMMA SumType ==
    ASSUME NEW I, IsFiniteSet(I), NEW f, \A i \in I : f[i] \in Int
    PROVE  SumFunctionOnSet(f, I) \in Int /\ SumFunctionOnSet(f, {}) = 0
<1>1. PICK g : SumsUp(g, f, I) /\ \A J \in SUBSET I : SumFunctionOnSet(f, J) = g[J]
  BY SumSolution
<1>2. I \in SUBSET I /\ {} \in SUBSET I
  OBVIOUS
<1>3. g[I] \in Int
  BY <1>1, <1>2 DEF SumsUp
<1>4. g[{}] = 0
  BY <1>1, <1>2, Zenon DEF SumsUp, SumsOver
<1> QED
  BY <1>1, <1>2, <1>3, <1>4

(* Whichever element is taken off a sum, the rest remains.                  *)
LEMMA SumRemove ==
    ASSUME NEW I, IsFiniteSet(I), NEW f, \A i \in I : f[i] \in Int, NEW x \in I
    PROVE  SumFunctionOnSet(f, I) = f[x] + SumFunctionOnSet(f, I \ {x})
<1>1. PICK g : SumsUp(g, f, I) /\ \A J \in SUBSET I : SumFunctionOnSet(f, J) = g[J]
  BY SumSolution
<1>2. \A s \in SUBSET I : Cardinality(s) \in Nat /\ (Cardinality(s) = 0 <=> s = {})
  BY SubsetCardinality
<1> DEFINE Fits(s) == \A y \in s : g[s] = f[y] + g[s \ {y}]
<1> DEFINE T == {m \in Nat : \A s \in SUBSET I : Cardinality(s) = m => Fits(s)}
<1>3. 0 \in T
  BY <1>2
<1>4. ASSUME NEW m \in T
      PROVE  m + 1 \in T
  <2>1. m \in Nat /\ m + 1 \in Nat
    OBVIOUS
  <2>2. ASSUME NEW s \in SUBSET I, Cardinality(s) = m + 1, NEW y \in s
        PROVE  g[s] = f[y] + g[s \ {y}]
    <3> DEFINE p == Picked(s)
    <3>1. s # {} /\ p \in s /\ s \ {p} \in SUBSET I /\ Cardinality(s \ {p}) = m
      BY <2>1, <2>2, PickedOff
    <3>2. g[s] = f[p] + g[s \ {p}]
      BY <1>1, <3>1 DEF SumsUp, SumsOver
    <3> HIDE DEF p
    <3>3. CASE p = y
      BY <3>2, <3>3
    <3>4. CASE p # y
      <4> DEFINE t == (s \ {p}) \ {y}
      <4>1. y # p
        BY <3>4
      <4>2. /\ y \in s \ {p} /\ p \in s \ {y} /\ t = (s \ {y}) \ {p}
            /\ t \in SUBSET I /\ s \ {y} \in SUBSET I
        <5>1. y \in s \ {p} /\ p \in s \ {y}
          BY <2>2, <3>1, <4>1
        <5>2. t = (s \ {y}) \ {p}
          OBVIOUS
        <5>3. t \in SUBSET I /\ s \ {y} \in SUBSET I
          OBVIOUS
        <5> QED
          BY <5>1, <5>2, <5>3
      <4>3. g[s \ {p}] = f[y] + g[t]
        BY <3>1, <4>2
      <4>4. Cardinality(s \ {y}) = m
        <5>1. IsFiniteSet(s)
          BY FS_Subset
        <5>2. Cardinality(s \ {y}) = Cardinality(s) - 1
          BY <2>2, <5>1, FS_RemoveElement
        <5> QED
          BY <2>1, <2>2, <5>2
      <4>5. g[s \ {y}] = f[p] + g[t]
        BY <4>2, <4>4
      <4>6. f[p] \in Int /\ f[y] \in Int /\ g[t] \in Int
        BY <1>1, <3>1, <4>2 DEF SumsUp
      <4> QED
        BY <3>2, <4>3, <4>5, <4>6
    <3> QED
      BY <3>3, <3>4
  <2> QED
    BY <2>1, <2>2, Zenon
<1>5. T = Nat
  <2> HIDE DEF T
  <2> QED
    BY <1>3, <1>4, NatSetInduction DEF T
<1>6. I \in SUBSET I /\ I \ {x} \in SUBSET I
  OBVIOUS
<1>7. Fits(I)
  BY <1>2, <1>5, <1>6
<1> QED
  BY <1>1, <1>6, <1>7

(* Functions that agree on a set have the same sum over it.                 *)
LEMMA SumsAgree ==
    ASSUME NEW I, IsFiniteSet(I), NEW f, NEW h, \A i \in I : f[i] \in Int /\ h[i] = f[i]
    PROVE  SumFunctionOnSet(h, I) = SumFunctionOnSet(f, I)
<1>1. PICK g : SumsUp(g, f, I) /\ \A J \in SUBSET I : SumFunctionOnSet(f, J) = g[J]
  BY SumSolution
<1>2. PICK k : SumsUp(k, h, I) /\ \A J \in SUBSET I : SumFunctionOnSet(h, J) = k[J]
  BY SumSolution
<1>3. SumsOver(k, f, I)
  <2>1. ASSUME NEW s \in SUBSET I, s # {}
        PROVE  h[Picked(s)] = f[Picked(s)]
    <3>1. Picked(s) \in I
      BY <2>1 DEF Picked
    <3> QED
      BY <3>1
  <2> QED
    BY <1>2, <2>1 DEF SumsUp, SumsOver
<1>4. I \in SUBSET I
  OBVIOUS
<1>5. k[I] = g[I]
  BY <1>1, <1>3, <1>4, SumsUnique
<1> QED
  BY <1>1, <1>2, <1>4, <1>5

(* A sum over two is the sum of both.                                       *)
LEMMA SumOfTwo ==
    ASSUME NEW p, NEW q, p # q, NEW f, f[p] \in Int, f[q] \in Int
    PROVE  SumFunctionOnSet(f, {p, q}) = f[p] + f[q]
<1>1. IsFiniteSet({p, q}) /\ IsFiniteSet({q})
  <2>1. IsFiniteSet({q})
    BY FS_Singleton
  <2>2. {p, q} = {q} \cup {p}
    OBVIOUS
  <2>3. IsFiniteSet({q} \cup {p})
    BY <2>1, FS_AddElement
  <2> QED
    BY <2>1, <2>2, <2>3
<1>2. SumFunctionOnSet(f, {p, q}) = f[p] + SumFunctionOnSet(f, {p, q} \ {p})
  <2>1. p \in {p, q} /\ \A i \in {p, q} : f[i] \in Int
    OBVIOUS
  <2> QED
    BY <1>1, <2>1, SumRemove
<1>3. SumFunctionOnSet(f, {q}) = f[q] + SumFunctionOnSet(f, {q} \ {q})
  <2>1. q \in {q} /\ \A i \in {q} : f[i] \in Int
    OBVIOUS
  <2> QED
    BY <1>1, <2>1, SumRemove
<1>4. SumFunctionOnSet(f, {}) = 0
  <2>1. \A i \in {q} : f[i] \in Int
    OBVIOUS
  <2> QED
    BY <1>1, <2>1, SumType
<1>5. {p, q} \ {p} = {q} /\ {q} \ {q} = {}
  OBVIOUS
<1>6. SumFunctionOnSet(f, {p, q}) = f[p] + (f[q] + 0)
  BY <1>2, <1>3, <1>4, <1>5
<1> QED
  BY <1>6

(* Sums of naturals are naturals, and a part is no greater than the whole.  *)
LEMMA SumsOfNaturals ==
    ASSUME NEW I, IsFiniteSet(I), NEW f, \A i \in I : f[i] \in Nat, NEW J \in SUBSET I
    PROVE  /\ SumFunctionOnSet(f, I) \in Nat /\ SumFunctionOnSet(f, J) \in Nat
           /\ SumFunctionOnSet(f, J) <= SumFunctionOnSet(f, I)
<1> DEFINE S(K) == SumFunctionOnSet(f, K)
           Smaller(K) == S(K) \in Nat /\ \A M \in SUBSET K : S(M) \in Nat /\ S(M) <= S(K)
           P(n) == \A K \in SUBSET I : Cardinality(K) = n => Smaller(K)
           T == {n \in Nat : P(n)}
<1>1. \A s \in SUBSET I : IsFiniteSet(s) /\ Cardinality(s) \in Nat /\ (Cardinality(s) = 0 <=> s = {})
  BY SubsetCardinality, FS_Subset
<1>2. S({}) = 0
  <2>1. \A i \in I : f[i] \in Int
    OBVIOUS
  <2> QED
    BY <2>1, SumType
<1>3. 0 \in T
  <2>1. ASSUME NEW K \in SUBSET I, Cardinality(K) = 0
        PROVE  Smaller(K)
    <3>1. K = {} /\ \A M \in SUBSET K : M = {}
      BY <1>1, <2>1
    <3> HIDE DEF S
    <3> QED
      BY <1>2, <3>1
  <2>2. P(0)
    BY <2>1
  <2> HIDE DEF P
  <2> QED
    BY <2>2
<1>4. ASSUME NEW n \in T
      PROVE  n + 1 \in T
  <2>1. n \in Nat /\ n + 1 \in Nat /\ P(n)
    OBVIOUS
  <2>2. ASSUME NEW K \in SUBSET I, Cardinality(K) = n + 1
        PROVE  Smaller(K)
    <3>1. K # {} /\ IsFiniteSet(K)
      BY <1>1, <2>1, <2>2
    <3>2. ASSUME NEW x \in K
          PROVE  /\ K \ {x} \in SUBSET I /\ Smaller(K \ {x})
                 /\ S(K) = f[x] + S(K \ {x}) /\ f[x] \in Nat
      <4>1. Cardinality(K \ {x}) = n /\ K \ {x} \in SUBSET I
        <5>1. Cardinality(K \ {x}) = Cardinality(K) - 1
          BY <3>1, FS_RemoveElement
        <5>2. (n + 1) - 1 = n
          BY <2>1
        <5> QED
          BY <2>2, <5>1, <5>2
      <4>2. Smaller(K \ {x})
        <5> HIDE DEF Smaller
        <5> QED
          BY <2>1, <4>1
      <4>3. \A i \in K : f[i] \in Int
        OBVIOUS
      <4>4. S(K) = f[x] + S(K \ {x})
        BY <3>1, <4>3, SumRemove
      <4> HIDE DEF S, Smaller
      <4> QED
        BY <4>1, <4>2, <4>4
    <3>3. S(K) \in Nat
      <4>1. PICK x \in K : TRUE
        BY <3>1
      <4>2. PICK a \in Nat, b \in Nat : a = f[x] /\ b = S(K \ {x}) /\ S(K) = a + b
        <5> HIDE DEF S
        <5> QED
          BY <3>2
      <4> HIDE DEF S
      <4> QED
        BY <4>2
    <3>4. ASSUME NEW M \in SUBSET K, M # K
          PROVE  S(M) \in Nat /\ S(M) <= S(K)
      <4>1. PICK x \in K : x \notin M
        BY <3>4
      <4>2. M \in SUBSET (K \ {x})
        BY <4>1
      <4>3. PICK a \in Nat, b \in Nat : a = f[x] /\ b = S(K \ {x}) /\ S(K) = a + b
        <5> HIDE DEF S
        <5> QED
          BY <3>2
      <4>4. S(M) \in Nat /\ S(M) <= b
        <5>1. Smaller(K \ {x})
          BY <3>2
        <5> HIDE DEF S
        <5> QED
          BY <4>2, <4>3, <5>1
      <4> HIDE DEF S
      <4> QED
        BY <4>3, <4>4
    <3> HIDE DEF S
    <3>5. \A M \in SUBSET K : S(M) \in Nat /\ S(M) <= S(K)
      <4> TAKE M \in SUBSET K
      <4>1. CASE M = K
        BY <3>3, <4>1
      <4> QED
        BY <3>4, <4>1
    <3> QED
      BY <3>3, <3>5
  <2>3. P(n + 1)
    <3> HIDE DEF Smaller
    <3> QED
      BY <2>2
  <2> HIDE DEF P
  <2> QED
    BY <2>1, <2>3
<1>5. T = Nat
  <2> HIDE DEF T
  <2> QED
    BY <1>3, <1>4, NatSetInduction DEF T
<1>6. Cardinality(I) \in T /\ I \in SUBSET I
  BY <1>1, <1>5
<1>7. Smaller(I)
  <2> HIDE DEF Smaller
  <2> QED
    BY <1>6
<1> QED
  BY <1>7

(* The differences of successive values add up to the difference of the     *)
(* ends.                                                                    *)
LEMMA SumTelescopes ==
    ASSUME NEW lo \in Int, NEW hi \in Int, lo <= hi + 1,
           NEW st, \A i \in lo .. hi + 1 : st[i] \in Int,
           NEW f, \A i \in lo .. hi : f[i] = st[i + 1] - st[i]
    PROVE  SumFunctionOnSet(f, lo .. hi) = st[hi + 1] - st[lo]
<1> DEFINE upto(m) == lo .. (lo - 1) + m
<1> DEFINE T == {m \in Nat : lo + m <= hi + 1 =>
                     SumFunctionOnSet(f, upto(m)) = st[lo + m] - st[lo]}
<1>1. 0 \in T
  <2>1. upto(0) = {}
    OBVIOUS
  <2>2. SumFunctionOnSet(f, {}) = 0
    BY FS_EmptySet, SumType
  <2>3. st[lo] \in Int /\ lo + 0 = lo
    OBVIOUS
  <2> QED
    BY <2>1, <2>2, <2>3
<1>2. ASSUME NEW m \in T
      PROVE  m + 1 \in T
  <2>1. m \in Nat /\ m + 1 \in Nat
    OBVIOUS
  <2>2. ASSUME lo + (m + 1) <= hi + 1
        PROVE  SumFunctionOnSet(f, upto(m + 1)) = st[lo + (m + 1)] - st[lo]
    <3> DEFINE I == upto(m + 1)
    <3>1. I \ {lo + m} = upto(m)
      BY <2>1
    <3>2. lo + m \in I /\ I \subseteq lo .. hi
      BY <2>1, <2>2
    <3>3. IsFiniteSet(I)
      BY <2>1, FS_Interval
    <3>4. ASSUME NEW i \in I
          PROVE  f[i] \in Int
      <4>1. i \in lo .. hi /\ i \in lo .. hi + 1 /\ i + 1 \in lo .. hi + 1
        BY <3>2
      <4> QED
        BY <4>1
    <3>5. SumFunctionOnSet(f, upto(m)) = st[lo + m] - st[lo]
      BY <2>1, <2>2
    <3>6. /\ f[lo + m] = st[lo + (m + 1)] - st[lo + m]
          /\ st[lo + m] \in Int /\ st[lo] \in Int /\ st[lo + (m + 1)] \in Int
      <4>1. lo + m \in lo .. hi /\ lo + m + 1 = lo + (m + 1)
            /\ lo \in lo .. hi + 1 /\ lo + m \in lo .. hi + 1 /\ lo + (m + 1) \in lo .. hi + 1
        BY <2>1, <2>2
      <4> QED
        BY <4>1
    <3> HIDE DEF I, upto
    <3>7. SumFunctionOnSet(f, I) = f[lo + m] + SumFunctionOnSet(f, I \ {lo + m})
      BY <3>2, <3>3, <3>4, SumRemove
    <3>8. SumFunctionOnSet(f, I) = st[lo + (m + 1)] - st[lo]
      BY <3>1, <3>5, <3>6, <3>7
    <3> QED
      BY <3>8 DEF I
  <2> HIDE DEF upto
  <2> QED
    BY <2>1, <2>2, Zenon
<1>3. T = Nat
  <2> HIDE DEF T
  <2> QED
    BY <1>1, <1>2, NatSetInduction DEF T
<1>4. hi + 1 - lo \in T
  <2>1. hi + 1 - lo \in Nat
    OBVIOUS
  <2> HIDE DEF T
  <2> QED
    BY <1>3, <2>1
<1>5. lo + (hi + 1 - lo) = hi + 1 /\ upto(hi + 1 - lo) = lo .. hi
  OBVIOUS
<1> QED
  BY <1>4, <1>5

-----------------------------------------------------------------------------
(* A string that holds the bytes of the stream from index first on.         *)
IsRun(s, first) == s \in Seq(Nat) /\ \A j \in 1 .. Len(s) : s[j] = first + j - 1

(* The smaller of two numbers.                                              *)
LEMMA LeastFacts ==
    ASSUME NEW a \in Int, NEW b \in Int
    PROVE  /\ Least(a, b) \in {a, b} /\ Least(a, b) <= a /\ Least(a, b) <= b
           /\ Least(a, b) = (IF a <= b THEN a ELSE b)
BY DEF Least

(* The empty string is a run of any stream.                                 *)
LEMMA RunEmpty ==
    ASSUME NEW a \in Nat
    PROVE  IsRun(<<>>, a) /\ Len(<<>>) = 0
BY DEF IsRun

(* Runs that follow each other make one.                                    *)
LEMMA RunConcat ==
    ASSUME NEW a \in Nat, NEW s, IsRun(s, a), NEW t, IsRun(t, a + Len(s))
    PROVE  IsRun(s \o t, a) /\ Len(s \o t) = Len(s) + Len(t)
<1>1. s \in Seq(Nat) /\ t \in Seq(Nat) /\ Len(s) \in Nat /\ Len(t) \in Nat
  BY LenProperties DEF IsRun
<1>2. /\ s \o t \in Seq(Nat) /\ Len(s \o t) = Len(s) + Len(t)
      /\ \A j \in 1 .. Len(s) + Len(t) :
             (s \o t)[j] = IF j <= Len(s) THEN s[j] ELSE t[j - Len(s)]
  BY <1>1, ConcatProperties
<1>3. ASSUME NEW j \in 1 .. Len(s) + Len(t)
      PROVE  (s \o t)[j] = a + j - 1
  <2>1. CASE j <= Len(s)
    BY <1>1, <1>2, <2>1 DEF IsRun
  <2>2. CASE j > Len(s)
    <3>1. j - Len(s) \in 1 .. Len(t)
      BY <1>1, <2>2
    <3>2. t[j - Len(s)] = (a + Len(s)) + (j - Len(s)) - 1
      BY <3>1 DEF IsRun
    <3> QED
      BY <1>1, <1>2, <2>2, <3>2
  <2> QED
    BY <1>1, <2>1, <2>2
<1> QED
  BY <1>2, <1>3 DEF IsRun

(* A part of a run is a run.                                                *)
LEMMA RunPart ==
    ASSUME NEW a \in Nat, NEW s, IsRun(s, a),
           NEW lo \in 0 .. Len(s), NEW hi \in lo .. Len(s)
    PROVE  IsRun(SubSeq(s, lo + 1, hi), a + lo) /\ Len(SubSeq(s, lo + 1, hi)) = hi - lo
<1>1. s \in Seq(Nat) /\ Len(s) \in Nat /\ lo \in Nat /\ hi \in Nat /\ lo <= hi /\ hi <= Len(s)
  BY LenProperties DEF IsRun
<1>2. \A i \in lo + 1 .. hi : s[i] \in Nat
  BY <1>1, ElementOfSeq
<1>3. lo + 1 \in Int /\ hi \in Int
  BY <1>1
<1>4. /\ SubSeq(s, lo + 1, hi) \in Seq(Nat)
      /\ Len(SubSeq(s, lo + 1, hi)) = IF lo + 1 <= hi THEN hi - (lo + 1) + 1 ELSE 0
      /\ \A i \in 1 .. hi - (lo + 1) + 1 : SubSeq(s, lo + 1, hi)[i] = s[(lo + 1) + i - 1]
  BY <1>2, <1>3, SubSeqProperties
<1>5. Len(SubSeq(s, lo + 1, hi)) = hi - lo
  BY <1>1, <1>4
<1>6. ASSUME NEW j \in 1 .. hi - lo
      PROVE  SubSeq(s, lo + 1, hi)[j] = (a + lo) + j - 1
  <2>1. SubSeq(s, lo + 1, hi)[j] = s[lo + j] /\ lo + j \in 1 .. Len(s)
    BY <1>1, <1>4
  <2> QED
    BY <1>1, <2>1 DEF IsRun
<1> QED
  BY <1>4, <1>5, <1>6 DEF IsRun

(* What is left of a run without its first n bytes.                         *)
LEMMA RunDrop ==
    ASSUME NEW a \in Nat, NEW s, IsRun(s, a), NEW n \in 0 .. Len(s)
    PROVE  IsRun(Drop(s, n), a + n) /\ Len(Drop(s, n)) = Len(s) - n
<1>1. Len(s) \in n .. Len(s)
  BY LenProperties DEF IsRun
<1> QED
  BY <1>1, RunPart DEF Drop

(* The first n bytes of a run.                                              *)
LEMMA RunTake ==
    ASSUME NEW a \in Nat, NEW s, IsRun(s, a), NEW n \in 0 .. Len(s)
    PROVE  IsRun(Take(s, n), a) /\ Len(Take(s, n)) = n
<1>1. 0 \in 0 .. Len(s) /\ n \in 0 .. Len(s) /\ a + 0 = a /\ 0 + 1 = 1 /\ n - 0 = n
  BY LenProperties DEF IsRun
<1>2. IsRun(SubSeq(s, 0 + 1, n), a + 0) /\ Len(SubSeq(s, 0 + 1, n)) = n - 0
  BY <1>1, RunPart
<1> QED
  BY <1>1, <1>2 DEF Take

(* The bytes of the stream from first on are a run, and the only one.       *)
LEMMA RunOfBytes ==
    ASSUME NEW first \in Nat, NEW len \in Nat
    PROVE  LET bytes == [j \in 1 .. len |-> first + j - 1]
           IN  IsRun(bytes, first) /\ Len(bytes) = len
<1> DEFINE bytes == [j \in 1 .. len |-> first + j - 1]
<1>1. bytes \in [1 .. len -> Nat]
  OBVIOUS
<1>2. bytes \in Seq(Nat) /\ Len(bytes) = len
  BY <1>1, IsASeq
<1> QED
  BY <1>2 DEF IsRun

(* A run is the sequence of the numbers from its first on.                  *)
LEMMA RunIsBytes ==
    ASSUME NEW first \in Nat, NEW s, IsRun(s, first)
    PROVE  s = [j \in 1 .. Len(s) |-> first + j - 1]
<1>1. s = [j \in 1 .. Len(s) |-> s[j]]
  BY LenProperties DEF IsRun
<1> QED
  BY <1>1 DEF IsRun

-----------------------------------------------------------------------------
(* A stream that holds no more than its capacity, the bytes that follow     *)
(* those taken from it.                                                     *)
StreamIntact(s) == s \in Streams(Nat) /\ Len(s.queue) <= s.capacity /\ IsRun(s.queue, s.popped)

(* The counters of a stream that holds no more than its capacity.           *)
LEMMA StreamFacts ==
    ASSUME NEW s, StreamIntact(s)
    PROVE  \E c \in Nat, q \in Nat, p \in Nat :
               /\ c = s.capacity /\ q = Len(s.queue) /\ p = s.popped /\ q <= c
               /\ BytesPushed(s) = p + q /\ AvailableCapacity(s) = c - q
               /\ s.queue \in Seq(Nat) /\ s.eof \in BOOLEAN /\ s.error \in BOOLEAN
               /\ s = [capacity |-> c, queue |-> s.queue, popped |-> p,
                       eof |-> s.eof, error |-> s.error]
<1>1. /\ s.capacity \in Nat /\ s.queue \in Seq(Nat) /\ s.popped \in Nat
      /\ s.eof \in BOOLEAN /\ s.error \in BOOLEAN
      /\ s = [capacity |-> s.capacity, queue |-> s.queue, popped |-> s.popped,
              eof |-> s.eof, error |-> s.error]
  BY DEF StreamIntact, Streams
<1>2. Len(s.queue) \in Nat
  BY <1>1, LenProperties
<1> QED
  BY <1>1, <1>2 DEF StreamIntact, BytesPushed, AvailableCapacity

(* What an output becomes when the bytes that follow are pushed.            *)
LEMMA PushResult ==
    ASSUME NEW s, StreamIntact(s), ~s.eof,
           NEW data, IsRun(data, BytesPushed(s)), Len(data) <= AvailableCapacity(s)
    PROVE  LET t == StreamPush(s, data)
           IN  /\ StreamIntact(t) /\ ~t.eof
               /\ t.popped = s.popped /\ t.capacity = s.capacity /\ t.error = s.error
               /\ BytesPushed(t) = BytesPushed(s) + Len(data)
<1>1. PICK c \in Nat, q \in Nat, p \in Nat :
          /\ c = s.capacity /\ q = Len(s.queue) /\ p = s.popped /\ q <= c
          /\ BytesPushed(s) = p + q /\ AvailableCapacity(s) = c - q
          /\ s.eof \in BOOLEAN /\ s.error \in BOOLEAN
          /\ s = [capacity |-> c, queue |-> s.queue, popped |-> p,
                  eof |-> s.eof, error |-> s.error]
  BY StreamFacts
<1>2. PICK n \in Nat : n = Len(data)
  BY LenProperties DEF IsRun
<1>3. Least(Len(data), AvailableCapacity(s)) = n
  BY <1>1, <1>2 DEF Least
<1>4. Take(data, n) = data
  BY <1>2, SubSeqFull DEF Take, IsRun
<1>5. PICK queue : queue = s.queue \o data
  OBVIOUS
<1>6. IsRun(queue, p) /\ Len(queue) = q + n
  <2>1. PICK old : old = s.queue /\ IsRun(old, p) /\ Len(old) = q
    BY <1>1 DEF StreamIntact
  <2>2. IsRun(data, p + Len(old))
    BY <1>1, <2>1
  <2>3. IsRun(old \o data, p) /\ Len(old \o data) = Len(old) + Len(data)
    BY <1>1, <2>1, <2>2, RunConcat
  <2> QED
    BY <1>2, <1>5, <2>1, <2>3
<1>7. StreamPush(s, data) = [s EXCEPT !.queue = queue]
  BY <1>3, <1>4, <1>5 DEF StreamPush
<1>8. PICK t : t = [capacity |-> c, queue |-> queue, popped |-> p, eof |-> s.eof, error |-> s.error]
  OBVIOUS
<1>9. StreamPush(s, data) = t
  BY <1>1, <1>7, <1>8
<1>10. q + n <= c
  BY <1>1, <1>2
<1>11. StreamIntact(t)
  BY <1>1, <1>6, <1>8, <1>10 DEF StreamIntact, Streams, IsRun
<1>12. BytesPushed(t) = (p + q) + n
  BY <1>6, <1>8 DEF BytesPushed
<1> QED
  BY <1>1, <1>2, <1>8, <1>9, <1>11, <1>12

(* As much as there is room for is pushed, and nothing if it is closed.     *)
LEMMA PushPart ==
    ASSUME NEW s, StreamIntact(s), NEW data, IsRun(data, BytesPushed(s))
    PROVE  LET t == StreamPush(s, data)
           IN  /\ StreamIntact(t) /\ t.eof = s.eof /\ t.error = s.error
               /\ t.popped = s.popped /\ BytesPushed(t) <= BytesPushed(s) + Len(data)
               /\ s.eof => t = s
<1>1. PICK c \in Nat, q \in Nat, p \in Nat :
          /\ c = s.capacity /\ q = Len(s.queue) /\ p = s.popped /\ q <= c
          /\ BytesPushed(s) = p + q /\ AvailableCapacity(s) = c - q
          /\ s.eof \in BOOLEAN
  BY StreamFacts
<1>2. PICK n \in Nat : n = Len(data)
  BY LenProperties DEF IsRun
<1>3. CASE s.eof
  <2>1. StreamPush(s, data) = s
    BY <1>3 DEF StreamPush
  <2>2. p + q <= (p + q) + n
    BY <1>1, <1>2
  <2> QED
    BY <1>1, <1>2, <2>1, <2>2
<1>4. CASE ~s.eof
  <2>1. PICK k \in 0 .. n : k = Least(n, c - q) /\ k <= c - q
    BY <1>1, <1>2 DEF Least
  <2>2. PICK part : part = Take(data, k)
    OBVIOUS
  <2>3. IsRun(part, p + q) /\ Len(part) = k
    <3>1. p + q \in Nat /\ IsRun(data, p + q) /\ k \in 0 .. Len(data)
      BY <1>1, <1>2
    <3> QED
      BY <2>2, <3>1, RunTake
  <2>4. PICK t : t = StreamPush(s, part)
    OBVIOUS
  <2>5. /\ StreamIntact(t) /\ ~t.eof
        /\ t.popped = s.popped /\ t.capacity = s.capacity /\ t.error = s.error
        /\ BytesPushed(t) = BytesPushed(s) + Len(part)
    <3>1. IsRun(part, BytesPushed(s)) /\ Len(part) <= AvailableCapacity(s)
      BY <1>1, <2>1, <2>3
    <3> QED
      BY <1>4, <2>4, <3>1, PushResult
  <2>6. StreamPush(s, data) = t
    <3>1. Take(part, Least(Len(part), AvailableCapacity(s))) = part
      <4>1. Least(Len(part), AvailableCapacity(s)) = k
        BY <1>1, <2>1, <2>3 DEF Least
      <4> QED
        BY <2>3, <4>1, SubSeqFull DEF Take, IsRun
    <3>2. t = [s EXCEPT !.queue = @ \o part]
      BY <1>4, <2>4, <3>1 DEF StreamPush
    <3>3. Take(data, Least(Len(data), AvailableCapacity(s))) = part
      BY <1>1, <1>2, <2>1, <2>2
    <3> QED
      BY <1>4, <3>2, <3>3 DEF StreamPush
  <2>7. (p + q) + k <= (p + q) + n
    BY <1>1, <1>2, <2>1
  <2>8. StreamIntact(t) => t.eof \in BOOLEAN
    BY DEF StreamIntact, Streams
  <2> QED
    BY <1>1, <1>2, <1>4, <2>3, <2>5, <2>6, <2>7, <2>8
<1> QED
  BY <1>3, <1>4

(* Closing an output changes nothing else.                                  *)
LEMMA CloseResult ==
    ASSUME NEW s, StreamIntact(s)
    PROVE  LET t == StreamClose(s)
           IN  /\ StreamIntact(t) /\ t.eof
               /\ t.popped = s.popped /\ t.capacity = s.capacity /\ t.error = s.error
               /\ BytesPushed(t) = BytesPushed(s) /\ AvailableCapacity(t) = AvailableCapacity(s)
BY DEF StreamClose, StreamIntact, Streams, BytesPushed, AvailableCapacity

(* What a reader takes was written; it makes room behind the window.        *)
LEMMA PopResult ==
    ASSUME NEW s, StreamIntact(s), NEW len \in Nat
    PROVE  LET t == StreamPop(s, len)
           IN  /\ StreamIntact(t) /\ t.eof = s.eof /\ t.error = s.error /\ t.capacity = s.capacity
               /\ BytesPushed(t) = BytesPushed(s)
               /\ t.popped = Least(s.popped + len, BytesPushed(s))
               /\ t.popped >= s.popped
               /\ AvailableCapacity(t) = AvailableCapacity(s) + (t.popped - s.popped)
<1>1. PICK c \in Nat, q \in Nat, p \in Nat :
          /\ c = s.capacity /\ q = Len(s.queue) /\ p = s.popped /\ q <= c
          /\ BytesPushed(s) = p + q /\ AvailableCapacity(s) = c - q
          /\ s.eof \in BOOLEAN /\ s.error \in BOOLEAN
          /\ s = [capacity |-> c, queue |-> s.queue, popped |-> p,
                  eof |-> s.eof, error |-> s.error]
  BY StreamFacts
<1>2. PICK k \in 0 .. q : k = Least(len, q)
  BY DEF Least
<1>3. PICK old : old = s.queue /\ IsRun(old, p) /\ Len(old) = q
  BY <1>1 DEF StreamIntact
<1>4. PICK rest : rest = Drop(old, k)
  OBVIOUS
<1>5. IsRun(rest, p + k) /\ Len(rest) = q - k
  <2>1. k \in 0 .. Len(old)
    BY <1>3
  <2>2. IsRun(Drop(old, k), p + k) /\ Len(Drop(old, k)) = Len(old) - k
    BY <1>3, <2>1, RunDrop
  <2> QED
    BY <1>3, <1>4, <2>2
<1>6. PICK t : t = [capacity |-> c, queue |-> rest, popped |-> p + k, eof |-> s.eof, error |-> s.error]
  OBVIOUS
<1>7. StreamPop(s, len) = t
  <2>1. StreamPop(s, len) = [s EXCEPT !.queue = rest, !.popped = @ + k]
    BY <1>1, <1>2, <1>3, <1>4 DEF StreamPop
  <2> QED
    BY <1>1, <1>6, <2>1
<1>8. StreamIntact(t)
  <2>1. rest \in Seq(Nat) /\ p + k \in Nat /\ q - k <= c
    BY <1>1, <1>5 DEF IsRun
  <2> QED
    BY <1>1, <1>5, <1>6, <2>1 DEF StreamIntact, Streams
<1>9. BytesPushed(t) = (p + k) + (q - k) /\ AvailableCapacity(t) = c - (q - k)
  BY <1>5, <1>6 DEF BytesPushed, AvailableCapacity
<1>10. /\ (p + k) + (q - k) = p + q /\ p + k = Least(p + len, p + q) /\ p + k >= p
       /\ c - (q - k) = (c - q) + ((p + k) - p)
  BY <1>2 DEF Least
<1>11. t.popped = p + k /\ t.capacity = c /\ t.eof = s.eof /\ t.error = s.error
  BY <1>6
<1> QED
  BY <1>1, <1>7, <1>8, <1>9, <1>10, <1>11

-----------------------------------------------------------------------------
(* Powers of two. The provers know nothing of them but that a set of n      *)
(* members has 2^n subsets: half of them hold a given member.               *)
LEMMA PowersOfTwo ==
    ASSUME NEW n \in Nat
    PROVE  2 ^ n \in Nat /\ 2 ^ 0 = 1 /\ 2 ^ (n + 1) = 2 * 2 ^ n
<1> DEFINE S == 1 .. n
<1> DEFINE T == 1 .. n + 1
<1> DEFINE With == {s \cup {n + 1} : s \in SUBSET S}
<1>1. /\ IsFiniteSet(S) /\ Cardinality(S) = n
      /\ IsFiniteSet(T) /\ Cardinality(T) = n + 1
  <2>1. 1 \in Int /\ n \in Int /\ n + 1 \in Int
    OBVIOUS
  <2>2. Cardinality(S) = IF 1 > n THEN 0 ELSE n - 1 + 1
    BY <2>1, FS_Interval
  <2>3. Cardinality(T) = IF 1 > n + 1 THEN 0 ELSE (n + 1) - 1 + 1
    BY <2>1, FS_Interval
  <2> QED
    BY <2>1, <2>2, <2>3, FS_Interval
<1>2. /\ IsFiniteSet(SUBSET S) /\ Cardinality(SUBSET S) = 2 ^ n
      /\ IsFiniteSet(SUBSET T) /\ Cardinality(SUBSET T) = 2 ^ (n + 1)
  BY <1>1, FS_SUBSET
<1>3. 2 ^ 0 = 1
  <2>1. IsFiniteSet({}) /\ Cardinality({}) = 0
    BY FS_EmptySet
  <2>2. Cardinality(SUBSET {}) = 2 ^ 0
    BY <2>1, FS_SUBSET
  <2>3. SUBSET {} = {{}}
    OBVIOUS
  <2> QED
    BY <2>2, <2>3, FS_Singleton
<1>4. SUBSET T = (SUBSET S) \cup With
  <2>1. T = S \cup {n + 1}
    OBVIOUS
  <2>2. ASSUME NEW t \in SUBSET T, n + 1 \in t
        PROVE  t \in With
    <3>1. t \ {n + 1} \in SUBSET S /\ t = (t \ {n + 1}) \cup {n + 1}
      BY <2>1, <2>2
    <3> QED
      BY <3>1
  <2>3. ASSUME NEW t \in SUBSET T, n + 1 \notin t
        PROVE  t \in SUBSET S
    BY <2>1, <2>3
  <2>4. SUBSET T \subseteq (SUBSET S) \cup With
    BY <2>2, <2>3
  <2>5. (SUBSET S) \cup With \subseteq SUBSET T
    BY <2>1
  <2> QED
    BY <2>4, <2>5
<1>5. (SUBSET S) \cap With = {}
  <2>1. n + 1 \notin S
    OBVIOUS
  <2> QED
    BY <2>1
<1>6. IsFiniteSet(With) /\ Cardinality(With) = Cardinality(SUBSET S)
  <2> DEFINE f == [s \in SUBSET S |-> s \cup {n + 1}]
  <2>1. n + 1 \notin S
    OBVIOUS
  <2>2. \A a, b \in SUBSET S : f[a] = f[b] => a = b
    <3>1. ASSUME NEW a \in SUBSET S, NEW b \in SUBSET S, a \cup {n + 1} = b \cup {n + 1}
          PROVE  a = b
      BY <2>1, <3>1
    <3> QED
      BY <3>1
  <2>3. f \in [SUBSET S -> With]
    OBVIOUS
  <2>4. \A t \in With : \E s \in SUBSET S : f[s] = t
    OBVIOUS
  <2> HIDE DEF f, S, With
  <2>5. f \in Bijection(SUBSET S, With)
    BY <2>2, <2>3, <2>4, Fun_IsBij
  <2>6. ExistsBijection(SUBSET S, With)
    BY <2>5, Fun_ExistsBij
  <2> QED
    BY <1>2, <2>6, FS_Bijection
<1>7. Cardinality(SUBSET T) = Cardinality(SUBSET S) + Cardinality(With)
  <2> HIDE DEF S, T, With
  <2>1. Cardinality((SUBSET S) \cup With) =
            Cardinality(SUBSET S) + Cardinality(With) - Cardinality((SUBSET S) \cap With)
    BY <1>2, <1>6, FS_Union
  <2>2. Cardinality((SUBSET S) \cap With) = 0
    BY <1>5, FS_EmptySet
  <2>3. PICK c \in Nat, d \in Nat : c = Cardinality(SUBSET S) /\ d = Cardinality(With)
    BY <1>2, <1>6, FS_CardinalityType
  <2>4. Cardinality(SUBSET T) = Cardinality((SUBSET S) \cup With)
    BY <1>4, Zenon
  <2>5. c + d - 0 = c + d
    BY <2>3
  <2> QED
    BY <2>1, <2>2, <2>3, <2>4, <2>5, Zenon
<1>8. 2 ^ n \in Nat
  BY <1>2, FS_CardinalityType
<1> QED
  BY <1>2, <1>3, <1>6, <1>7, <1>8

-----------------------------------------------------------------------------
Block == [first : Nat, data : Seq(Nat)]

(* A block that holds the bytes of the stream that belong at its index.     *)
InPlace(block) == block \in Block /\ IsRun(block.data, block.first)

Covers(block, x) == block.first <= x /\ x < EndOf(block)

CoveredBy(blocks, x) == \E k \in DOMAIN blocks : Covers(blocks[k], x)

AllInPlace(blocks) == blocks \in Seq(Block) /\ \A k \in DOMAIN blocks : InPlace(blocks[k])

Sorted(blocks) ==
    \A j, k \in DOMAIN blocks : j <= k => blocks[j].first <= blocks[k].first

(* No two of them overlap or are adjacent.                                  *)
Apart(blocks) ==
    \A j, k \in DOMAIN blocks : j < k => EndOf(blocks[j]) < blocks[k].first

-----------------------------------------------------------------------------
(* A block ends where its data ends.                                        *)
LEMMA BlockFacts ==
    ASSUME NEW b, InPlace(b)
    PROVE  /\ b \in Block /\ b.first \in Nat /\ b.data \in Seq(Nat) /\ Len(b.data) \in Nat
           /\ EndOf(b) = b.first + Len(b.data)
           /\ EndOf(b) \in Nat /\ b.first <= EndOf(b)
BY LenProperties DEF InPlace, IsRun, Block, EndOf

(* A run of the stream is the data of a block that is in place.             *)
LEMMA BlockOfRun ==
    ASSUME NEW first \in Nat, NEW data, IsRun(data, first)
    PROVE  LET b == [first |-> first, data |-> data]
           IN  InPlace(b) /\ EndOf(b) = first + Len(data)
BY DEF InPlace, IsRun, Block, EndOf

(* Two blocks that overlap or are adjacent become one that covers both.     *)
LEMMA AbsorbResult ==
    ASSUME NEW it, NEW next, InPlace(it), InPlace(next),
           it.first <= next.first, Touch(it, next)
    PROVE  LET a == Absorb(it, next)
           IN  /\ InPlace(a) /\ a.first = it.first
               /\ EndOf(a) = IF EndOf(it) >= EndOf(next) THEN EndOf(it) ELSE EndOf(next)
               /\ \A x \in Nat : Covers(a, x) <=> Covers(it, x) \/ Covers(next, x)
<1>1. PICK a \in Nat, b \in Nat, p \in Nat, q \in Nat :
          /\ a = it.first /\ b = next.first /\ p = Len(it.data) /\ q = Len(next.data)
          /\ EndOf(it) = a + p /\ EndOf(next) = b + q /\ a <= b /\ b <= a + p
          /\ IsRun(it.data, a) /\ IsRun(next.data, b)
  BY BlockFacts DEF Touch, InPlace
<1>2. CASE a + p >= b + q
  BY <1>1, <1>2, SMTT(30) DEF Absorb, Covers
<1>3. CASE a + p < b + q
  <2>1. PICK n \in 0 .. q : n = (a + p) - b
    <3>1. b <= a + p
      BY <1>1
    <3>2. (a + p) - b \in 0 .. q
      BY <1>3, <3>1
    <3> QED
      BY <3>2
  <2>2. PICK rest : rest = Drop(next.data, n)
    OBVIOUS
  <2>3. IsRun(rest, b + n) /\ Len(rest) = q - n
    <3>1. PICK d : d = next.data /\ IsRun(d, b) /\ Len(d) = q
      BY <1>1
    <3>2. IsRun(Drop(d, n), b + n) /\ Len(Drop(d, n)) = Len(d) - n
      BY <3>1, RunDrop
    <3> QED
      BY <2>2, <3>1, <3>2
  <2>4. b + n = a + p
    BY <2>1
  <2>5. PICK data : data = it.data \o rest
    OBVIOUS
  <2>6. IsRun(data, a) /\ Len(data) = p + (q - n)
    <3>1. PICK d : d = it.data /\ IsRun(d, a) /\ Len(d) = p
      BY <1>1
    <3>2. IsRun(rest, a + Len(d))
      BY <2>3, <2>4, <3>1
    <3>3. IsRun(d \o rest, a) /\ Len(d \o rest) = Len(d) + Len(rest)
      BY <3>1, <3>2, RunConcat
    <3> QED
      BY <2>3, <2>5, <3>1, <3>3
  <2>7. Absorb(it, next) = [it EXCEPT !.data = data]
    BY <1>1, <1>3, <2>1, <2>2, <2>5 DEF Absorb
  <2>8. Absorb(it, next) = [first |-> a, data |-> data]
    BY <1>1, <2>7 DEF InPlace, Block
  <2>9. PICK r : r = [first |-> a, data |-> data]
    OBVIOUS
  <2>10. InPlace(r) /\ EndOf(r) = b + q /\ r.first = a
    <3>1. InPlace(r) /\ EndOf(r) = a + Len(data) /\ r.first = a
      BY <2>6, <2>9, BlockOfRun
    <3> QED
      BY <2>1, <2>6, <3>1
  <2>11. \A x \in Nat : Covers(r, x) <=> Covers(it, x) \/ Covers(next, x)
    <3>1. \A x \in Nat : Covers(r, x) <=> a <= x /\ x < b + q
      BY <2>10 DEF Covers
    <3>2. \A x \in Nat : Covers(it, x) <=> a <= x /\ x < a + p
      BY <1>1 DEF Covers
    <3>3. \A x \in Nat : Covers(next, x) <=> b <= x /\ x < b + q
      BY <1>1 DEF Covers
    <3> QED
      BY <1>1, <1>3, <3>1, <3>2, <3>3, SMTT(30)
  <2> QED
    BY <1>1, <1>3, <2>8, <2>9, <2>10, <2>11, SMTT(30)
<1> QED
  BY <1>1, <1>2, <1>3

(* The first n of the blocks, merged: in place and apart, covering what the *)
(* blocks cover, and beginning and ending where some of them do.            *)
MergeOf(merged, blocks, n) ==
    /\ AllInPlace(merged) /\ Apart(merged)
    /\ n = 0 => merged = <<>>
    /\ n > 0 => merged # <<>> /\ merged[1].first = blocks[1].first
    /\ \A k \in DOMAIN merged :
        /\ \E j \in 1 .. n : merged[k].first = blocks[j].first
        /\ \E j \in 1 .. n : EndOf(merged[k]) = EndOf(blocks[j])
    /\ \A x \in Nat : CoveredBy(merged, x) <=> \E j \in 1 .. n : Covers(blocks[j], x)

(* Blocks that are in place, as a sequence.                                 *)
LEMMA SequenceFacts ==
    ASSUME NEW s, AllInPlace(s)
    PROVE  /\ s \in Seq(Block) /\ Len(s) \in Nat /\ DOMAIN s = 1 .. Len(s)
           /\ \A k \in 1 .. Len(s) : InPlace(s[k])
           /\ Len(s) = 0 <=> s = <<>>
BY LenProperties, EmptySeq DEF AllInPlace

(* Replacing the last block of a sequence by another one.                   *)
LEMMA ReplaceLast ==
    ASSUME NEW s, AllInPlace(s), s # <<>>, NEW b, InPlace(b)
    PROVE  LET t == Append(Front(s), b)
           IN  /\ AllInPlace(t) /\ Len(t) = Len(s)
               /\ \A k \in 1 .. Len(s) : t[k] = IF k = Len(s) THEN b ELSE s[k]
<1>1. s \in Seq(Block) /\ Len(s) \in Nat /\ Len(s) # 0 /\ b \in Block
      /\ DOMAIN s = 1 .. Len(s) /\ \A k \in 1 .. Len(s) : InPlace(s[k])
  BY SequenceFacts, EmptySeq, BlockFacts
<1>2. /\ Front(s) \in Seq(Block) /\ Len(Front(s)) = Len(s) - 1
      /\ \A k \in 1 .. Len(s) - 1 : Front(s)[k] = s[k]
  BY <1>1, SubSeqProperties DEF Front
<1>3. /\ Append(Front(s), b) \in Seq(Block) /\ Len(Append(Front(s), b)) = Len(s)
      /\ \A k \in 1 .. Len(s) : Append(Front(s), b)[k] = IF k = Len(s) THEN b ELSE s[k]
  <2>1. PICK f : f = Front(s)
    OBVIOUS
  <2>2. /\ Append(f, b) \in Seq(Block) /\ Len(Append(f, b)) = Len(f) + 1
        /\ \A k \in 1 .. Len(f) : Append(f, b)[k] = f[k]
        /\ Append(f, b)[Len(f) + 1] = b
    BY <1>1, <1>2, <2>1, AppendProperties
  <2>3. Len(f) = Len(s) - 1 /\ Len(s) \in Nat \ {0}
    BY <1>1, <1>2, <2>1
  <2>4. ASSUME NEW k \in 1 .. Len(s)
        PROVE  Append(f, b)[k] = IF k = Len(s) THEN b ELSE s[k]
    BY <1>2, <2>1, <2>2, <2>3
  <2> QED
    BY <2>1, <2>2, <2>3, <2>4
<1>4. AllInPlace(Append(Front(s), b))
  BY <1>1, <1>3, LenProperties DEF AllInPlace
<1> QED
  BY <1>3, <1>4

(* A block added behind the others.                                         *)
LEMMA AddLast ==
    ASSUME NEW s, AllInPlace(s), NEW b, InPlace(b)
    PROVE  LET t == Append(s, b)
           IN  /\ AllInPlace(t) /\ Len(t) = Len(s) + 1 /\ t # <<>>
               /\ \A k \in 1 .. Len(s) : t[k] = s[k]
               /\ t[Len(s) + 1] = b
<1>1. s \in Seq(Block) /\ Len(s) \in Nat /\ b \in Block
      /\ DOMAIN s = 1 .. Len(s) /\ \A k \in 1 .. Len(s) : InPlace(s[k])
  BY SequenceFacts, BlockFacts
<1>2. /\ Append(s, b) \in Seq(Block) /\ Append(s, b) # <<>> /\ Len(Append(s, b)) = Len(s) + 1
      /\ \A k \in 1 .. Len(s) : Append(s, b)[k] = s[k]
      /\ Append(s, b)[Len(s) + 1] = b
  BY <1>1, AppendProperties
<1>3. AllInPlace(Append(s, b))
  BY <1>1, <1>2, LenProperties DEF AllInPlace
<1> QED
  BY <1>2, <1>3

(* One more block merged into the result of merging the first n.            *)
LEMMA MergeNextResult ==
    ASSUME NEW blocks, AllInPlace(blocks), Sorted(blocks),
           NEW n \in Nat, n < Len(blocks), NEW before, MergeOf(before, blocks, n)
    PROVE  MergeOf(MergeNext(before, blocks[n + 1]), blocks, n + 1)
<1> DEFINE next == blocks[n + 1]
<1> DEFINE after == MergeNext(before, next)
<1>1. /\ DOMAIN blocks = 1 .. Len(blocks) /\ Len(blocks) \in Nat
      /\ \A k \in 1 .. Len(blocks) : InPlace(blocks[k])
  BY SequenceFacts
<1>2. n + 1 \in 1 .. Len(blocks) /\ n + 1 \in Nat /\ n + 1 > 0
  BY <1>1
<1>3. AllInPlace(before) /\ Apart(before)
  BY DEF MergeOf
<1>4. DOMAIN before = 1 .. Len(before) /\ Len(before) \in Nat
  BY <1>3, SequenceFacts
<1>5. Len(before) = 0 <=> before = <<>>
  BY <1>3, SequenceFacts
<1>6. InPlace(next)
  BY <1>1, <1>2
<1>7. \A j \in 1 .. n : j \in 1 .. n + 1 /\ j \in 1 .. Len(blocks)
  BY <1>1
<1>8. \A k \in 1 .. Len(before) : before[k].first <= next.first
  <2>1. ASSUME NEW k \in 1 .. Len(before)
        PROVE  before[k].first <= next.first
    <3>1. PICK j \in 1 .. n : before[k].first = blocks[j].first
      BY <1>4 DEF MergeOf
    <3>2. j <= n + 1 /\ j \in DOMAIN blocks /\ n + 1 \in DOMAIN blocks
      BY <1>1, <1>2, <1>7
    <3> QED
      BY <3>1, <3>2 DEF Sorted
  <2> QED
    BY <2>1
<1>9. CASE before # <<>> /\ Touch(Last(before), next)
  <2>1. PICK m \in Nat : m = Len(before) /\ m >= 1
    <3>1. Len(before) # 0
      BY <1>5, <1>9
    <3>2. Len(before) >= 1
      BY <1>4, <3>1
    <3> QED
      BY <1>4, <3>2
  <2>2. InPlace(before[m]) /\ Last(before) = before[m] /\ before[m].first <= next.first
    BY <1>3, <1>8, <2>1, SequenceFacts DEF Last
  <2>3. PICK a : a = Absorb(before[m], next)
    OBVIOUS
  <2>4. /\ InPlace(a) /\ a.first = before[m].first
        /\ EndOf(a) = EndOf(before[m]) \/ EndOf(a) = EndOf(next)
        /\ \A x \in Nat : Covers(a, x) <=> Covers(before[m], x) \/ Covers(next, x)
    BY <1>6, <1>9, <2>2, <2>3, AbsorbResult
  <2>5. after = Append(Front(before), a)
    BY <1>9, <2>2, <2>3 DEF MergeNext
  <2>6. /\ AllInPlace(after) /\ Len(after) = m
        /\ \A k \in 1 .. m : after[k] = IF k = m THEN a ELSE before[k]
    BY <1>3, <1>9, <2>1, <2>4, <2>5, ReplaceLast
  <2>7. DOMAIN after = 1 .. m /\ DOMAIN before = 1 .. m
    BY <1>4, <2>1, <2>6, SequenceFacts
  <2> HIDE DEF after
  <2>8. Apart(after)
    <3>1. ASSUME NEW j \in 1 .. m, NEW k \in 1 .. m, j < k
          PROVE  EndOf(after[j]) < after[k].first
      <4>1. after[j] = before[j] /\ after[k].first = before[k].first
        BY <2>1, <2>4, <2>6, <3>1
      <4>2. EndOf(before[j]) < before[k].first
        BY <1>3, <2>7, <3>1 DEF Apart
      <4> QED
        BY <4>1, <4>2
    <3> QED
      BY <2>7, <3>1 DEF Apart
  <2>9. after # <<>> /\ after[1].first = blocks[1].first
    <3>1. n # 0
      BY <1>9 DEF MergeOf
    <3>2. after[1].first = before[1].first /\ 1 \in DOMAIN after
      BY <2>1, <2>4, <2>6, <2>7
    <3> QED
      BY <3>1, <3>2, EmptySeq DEF MergeOf
  <2>10. ASSUME NEW k \in DOMAIN after
         PROVE  /\ \E j \in 1 .. n + 1 : after[k].first = blocks[j].first
                /\ \E j \in 1 .. n + 1 : EndOf(after[k]) = EndOf(blocks[j])
    <3>1. k \in DOMAIN before /\ n + 1 \in 1 .. n + 1
      BY <1>2, <2>7
    <3>2. PICK j \in 1 .. n : before[k].first = blocks[j].first
      BY <3>1 DEF MergeOf
    <3>3. PICK i \in 1 .. n : EndOf(before[k]) = EndOf(blocks[i])
      BY <3>1 DEF MergeOf
    <3>4. after[k].first = before[k].first
      BY <2>4, <2>6, <2>7
    <3>5. EndOf(after[k]) = EndOf(before[k]) \/ EndOf(after[k]) = EndOf(blocks[n + 1])
      BY <2>4, <2>6, <2>7
    <3> QED
      BY <1>7, <3>1, <3>2, <3>3, <3>4, <3>5
  <2>11. ASSUME NEW x \in Nat
         PROVE  CoveredBy(after, x) <=> CoveredBy(before, x) \/ Covers(next, x)
    <3>1. m \in 1 .. m
      BY <2>1
    <3>2. \A k \in 1 .. m : k # m => after[k] = before[k]
      BY <2>6
    <3>3. after[m] = a
      BY <2>6, <3>1
    <3> QED
      BY <2>4, <2>7, <3>1, <3>2, <3>3 DEF CoveredBy
  <2>12. \A x \in Nat : CoveredBy(after, x) <=> \E j \in 1 .. n + 1 : Covers(blocks[j], x)
    <3>1. \A x \in Nat : CoveredBy(before, x) <=> \E j \in 1 .. n : Covers(blocks[j], x)
      BY DEF MergeOf
    <3>2. \A j \in 1 .. n + 1 : j \in 1 .. n \/ j = n + 1
      OBVIOUS
    <3>3. n + 1 \in 1 .. n + 1
      BY <1>2
    <3> QED
      BY <1>7, <2>11, <3>1, <3>2, <3>3
  <2> QED
    BY <1>2, <2>6, <2>8, <2>9, <2>10, <2>12 DEF MergeOf, after
<1>10. CASE ~(before # <<>> /\ Touch(Last(before), next))
  <2>1. PICK m \in Nat : m = Len(before)
    BY <1>4
  <2>2. after = Append(before, next)
    BY <1>10 DEF MergeNext
  <2>3. /\ AllInPlace(after) /\ Len(after) = m + 1 /\ after # <<>>
        /\ \A k \in 1 .. m : after[k] = before[k]
        /\ after[m + 1] = next
    BY <1>3, <1>6, <2>1, <2>2, AddLast
  <2>4. DOMAIN after = 1 .. m + 1 /\ DOMAIN before = 1 .. m
    BY <1>4, <2>1, <2>3, SequenceFacts
  <2> HIDE DEF after
  <2>5. ASSUME NEW k \in 1 .. m
        PROVE  EndOf(before[k]) < next.first
    <3>1. m \in 1 .. m /\ before # <<>> /\ k <= m
      BY <2>1, <2>5, EmptySeq
    <3>2. Last(before) = before[m]
      BY <2>1 DEF Last
    <3>3. InPlace(before[m]) /\ InPlace(before[k])
      BY <1>3, <2>1, <3>1, SequenceFacts
    <3>4. PICK e \in Nat, f \in Nat : e = EndOf(before[m]) /\ f = next.first
      BY <1>6, <3>3, BlockFacts
    <3>5. e < f
      BY <1>10, <3>1, <3>2, <3>4 DEF Touch
    <3>6. CASE k = m
      BY <3>4, <3>5, <3>6
    <3>7. CASE k # m
      <4>1. EndOf(before[k]) < before[m].first
        BY <1>3, <2>4, <3>1, <3>7 DEF Apart
      <4>2. before[m].first <= e /\ before[m].first \in Nat /\ EndOf(before[k]) \in Nat
        BY <3>3, <3>4, BlockFacts
      <4> QED
        BY <3>4, <3>5, <4>1, <4>2
    <3> QED
      BY <3>6, <3>7
  <2>6. Apart(after)
    <3>1. ASSUME NEW j \in 1 .. m + 1, NEW k \in 1 .. m + 1, j < k
          PROVE  EndOf(after[j]) < after[k].first
      <4>1. j \in 1 .. m /\ (k \in 1 .. m \/ k = m + 1)
        BY <3>1
      <4>2. CASE k \in 1 .. m
        BY <1>3, <2>3, <2>4, <3>1, <4>1, <4>2 DEF Apart
      <4>3. CASE k = m + 1
        BY <2>3, <2>5, <4>1, <4>3
      <4> QED
        BY <4>1, <4>2, <4>3
    <3> QED
      BY <2>4, <3>1 DEF Apart
  <2>7. after[1].first = blocks[1].first
    <3>1. CASE m = 0
      <4>1. before = <<>> /\ after[1] = next
        BY <1>5, <2>1, <2>3, <3>1
      <4>2. n = 0
        BY <4>1 DEF MergeOf
      <4> QED
        BY <4>1, <4>2
    <3>2. CASE m # 0
      <4>1. before # <<>> /\ after[1] = before[1]
        BY <2>1, <2>3, <3>2, EmptySeq
      <4>2. n # 0
        BY <4>1 DEF MergeOf
      <4> QED
        BY <4>1, <4>2 DEF MergeOf
    <3> QED
      BY <3>1, <3>2
  <2>8. ASSUME NEW k \in DOMAIN after
        PROVE  /\ \E j \in 1 .. n + 1 : after[k].first = blocks[j].first
               /\ \E j \in 1 .. n + 1 : EndOf(after[k]) = EndOf(blocks[j])
    <3>1. k \in 1 .. m \/ k = m + 1
      BY <2>4
    <3>2. n + 1 \in 1 .. n + 1
      BY <1>2
    <3>3. CASE k = m + 1
      BY <2>3, <3>2, <3>3
    <3>4. CASE k \in 1 .. m
      <4>1. after[k] = before[k] /\ k \in DOMAIN before
        BY <2>3, <2>4, <3>4
      <4>2. PICK j \in 1 .. n : before[k].first = blocks[j].first
        BY <4>1 DEF MergeOf
      <4>3. PICK i \in 1 .. n : EndOf(before[k]) = EndOf(blocks[i])
        BY <4>1 DEF MergeOf
      <4> QED
        BY <1>7, <4>1, <4>2, <4>3
    <3> QED
      BY <3>1, <3>3, <3>4
  <2>9. ASSUME NEW x \in Nat
        PROVE  CoveredBy(after, x) <=> CoveredBy(before, x) \/ Covers(next, x)
    <3>1. \A k \in 1 .. m + 1 : k \in 1 .. m \/ k = m + 1
      OBVIOUS
    <3>2. m + 1 \in 1 .. m + 1 /\ \A k \in 1 .. m : k \in 1 .. m + 1
      OBVIOUS
    <3> QED
      BY <2>3, <2>4, <3>1, <3>2 DEF CoveredBy
  <2>10. \A x \in Nat : CoveredBy(after, x) <=> \E j \in 1 .. n + 1 : Covers(blocks[j], x)
    <3>1. \A x \in Nat : CoveredBy(before, x) <=> \E j \in 1 .. n : Covers(blocks[j], x)
      BY DEF MergeOf
    <3>2. \A j \in 1 .. n + 1 : j \in 1 .. n \/ j = n + 1
      OBVIOUS
    <3>3. n + 1 \in 1 .. n + 1
      BY <1>2
    <3> QED
      BY <1>7, <2>9, <3>1, <3>2, <3>3
  <2> QED
    BY <1>2, <2>3, <2>6, <2>7, <2>8, <2>10 DEF MergeOf, after
<1> QED
  BY <1>9, <1>10

(* What all the blocks merge into.                                          *)
LEMMA MergeResult ==
    ASSUME NEW blocks, AllInPlace(blocks), Sorted(blocks)
    PROVE  MergeOf(MergeSubstrings(blocks), blocks, Len(blocks))
<1> DEFINE n == Len(blocks)
<1>1. n \in Nat /\ \A k \in 1 .. n : InPlace(blocks[k])
  BY SequenceFacts
<1> DEFINE IsMerge(g, i) ==
             g = [k \in 0 .. i |-> IF k = 0 THEN <<>> ELSE MergeNext(g[k - 1], blocks[k])]
<1> DEFINE Good(g, i) == IsMerge(g, i) /\ \A k \in 0 .. i : MergeOf(g[k], blocks, k)
<1> DEFINE T == {i \in Nat : i <= n => \E g : Good(g, i)}
<1> HIDE DEF n
<1>2. 0 \in T
  <2> DEFINE g == [k \in 0 .. 0 |-> <<>>]
  <2>1. IsMerge(g, 0)
    OBVIOUS
  <2>2. MergeOf(<<>>, blocks, 0)
    BY DEF MergeOf, AllInPlace, Apart, CoveredBy
  <2>3. \A k \in 0 .. 0 : k = 0 /\ g[k] = <<>>
    OBVIOUS
  <2>4. Good(g, 0)
    <3> HIDE DEF g, IsMerge
    <3> QED
      BY <2>1, <2>2, <2>3
  <2> QED
    BY <2>4
<1>3. ASSUME NEW i \in T
      PROVE  i + 1 \in T
  <2>1. i \in Nat /\ i + 1 \in Nat
    OBVIOUS
  <2>2. ASSUME i + 1 <= n
        PROVE  \E g : Good(g, i + 1)
    <3>1. PICK g : Good(g, i)
      BY <1>1, <2>1, <2>2
    <3>2. PICK last : last = MergeNext(g[i], blocks[i + 1])
      OBVIOUS
    <3>3. MergeOf(last, blocks, i + 1)
      <4>1. MergeOf(g[i], blocks, i) /\ i < Len(blocks)
        BY <1>1, <2>1, <2>2, <3>1 DEF n
      <4> QED
        BY <2>1, <3>2, <4>1, MergeNextResult
    <3> DEFINE h == [k \in 0 .. i + 1 |-> IF k = i + 1 THEN last ELSE g[k]]
    <3>4. ASSUME NEW k \in 0 .. i + 1
          PROVE  /\ h[k] = IF k = 0 THEN <<>> ELSE MergeNext(h[k - 1], blocks[k])
                 /\ MergeOf(h[k], blocks, k)
      <4>1. CASE k = i + 1
        <5>1. h[k] = last /\ h[k - 1] = g[i] /\ k # 0
          BY <2>1, <4>1
        <5> QED
          BY <3>2, <3>3, <4>1, <5>1
      <4>2. CASE k # i + 1
        <5>1. k \in 0 .. i /\ h[k] = g[k] /\ (k # 0 => h[k - 1] = g[k - 1])
          BY <2>1, <4>2
        <5>2. g[k] = IF k = 0 THEN <<>> ELSE MergeNext(g[k - 1], blocks[k])
          BY <3>1, <5>1
        <5> QED
          BY <3>1, <5>1, <5>2
      <4> QED
        BY <4>1, <4>2
    <3>5. IsMerge(h, i + 1)
      BY <3>4
    <3> QED
      BY <3>4, <3>5
  <2> QED
    BY <2>1, <2>2, Zenon
<1>4. T = Nat
  <2> HIDE DEF T
  <2> QED
    BY <1>2, <1>3, NatSetInduction DEF T
<1>5. \E g : Good(g, n)
  BY <1>1, <1>4
<1> DEFINE merged == CHOOSE g : IsMerge(g, n)
<1>6. IsMerge(merged, n)
  <2>1. \E g : IsMerge(g, n)
    BY <1>5
  <2> HIDE DEF IsMerge
  <2> QED
    BY <2>1
<1>7. MergeSubstrings(blocks) = merged[n]
  BY DEF MergeSubstrings, n
<1> HIDE DEF merged
<1>8. PICK g : Good(g, n)
  BY <1>5
<1> DEFINE S == {k \in Nat : k <= n => merged[k] = g[k]}
<1>9. 0 \in S
  BY <1>1, <1>6, <1>8
<1>10. ASSUME NEW k \in S
       PROVE  k + 1 \in S
  <2>1. k \in Nat /\ k + 1 \in Nat /\ k + 1 # 0 /\ (k + 1) - 1 = k
    OBVIOUS
  <2>2. ASSUME k + 1 <= n
        PROVE  merged[k + 1] = g[k + 1]
    <3>1. k + 1 \in 0 .. n /\ merged[k] = g[k]
      BY <1>1, <2>1, <2>2
    <3>2. merged[k + 1] = MergeNext(merged[k], blocks[k + 1])
      BY <1>6, <2>1, <3>1
    <3>3. g[k + 1] = MergeNext(g[k], blocks[k + 1])
      BY <1>8, <2>1, <3>1
    <3> QED
      BY <3>1, <3>2, <3>3
  <2> QED
    BY <2>1, <2>2, Zenon
<1>11. S = Nat
  <2> HIDE DEF S
  <2> QED
    BY <1>9, <1>10, NatSetInduction DEF S
<1>12. merged[n] = g[n]
  BY <1>1, <1>11
<1> QED
  BY <1>1, <1>7, <1>8, <1>12 DEF n

-----------------------------------------------------------------------------
(* In a sorted sequence the blocks not above a key come before the others.  *)
LEMMA UpperBoundResult ==
    ASSUME NEW blocks, AllInPlace(blocks), Sorted(blocks), NEW key \in Nat
    PROVE  /\ UpperBound(blocks, key) \in 0 .. Len(blocks)
           /\ \A k \in DOMAIN blocks :
                  blocks[k].first <= key <=> k <= UpperBound(blocks, key)
<1>1. DOMAIN blocks = 1 .. Len(blocks) /\ Len(blocks) \in Nat
  BY SequenceFacts
<1>2. \A k \in 1 .. Len(blocks) : blocks[k].first \in Nat
  BY SequenceFacts, BlockFacts
<1> DEFINE Splits(n, m) == \A k \in 1 .. m : blocks[k].first <= key <=> k <= n
<1> DEFINE T == {m \in Nat : m <= Len(blocks) => \E n \in 0 .. m : Splits(n, m)}
<1>3. 0 \in T
  OBVIOUS
<1>4. ASSUME NEW m \in T
      PROVE  m + 1 \in T
  <2>1. m \in Nat /\ m + 1 \in Nat
    OBVIOUS
  <2>2. ASSUME m + 1 <= Len(blocks)
        PROVE  \E n \in 0 .. m + 1 : Splits(n, m + 1)
    <3>1. PICK n \in 0 .. m : Splits(n, m)
      BY <1>1, <2>1, <2>2
    <3>2. \A k \in 1 .. m + 1 : k \in 1 .. m \/ k = m + 1
      BY <2>1
    <3>3. CASE blocks[m + 1].first <= key
      <4>1. ASSUME NEW k \in 1 .. m + 1
            PROVE  blocks[k].first <= key
        <5>1. /\ k \in DOMAIN blocks /\ m + 1 \in DOMAIN blocks /\ k <= m + 1
              /\ k \in 1 .. Len(blocks) /\ m + 1 \in 1 .. Len(blocks)
          BY <1>1, <2>1, <2>2
        <5>2. blocks[k].first <= blocks[m + 1].first
          BY <5>1 DEF Sorted
        <5>3. blocks[k].first \in Nat /\ blocks[m + 1].first \in Nat
          BY <1>2, <5>1
        <5> QED
          BY <3>3, <5>2, <5>3
      <4>2. Splits(m + 1, m + 1) /\ m + 1 \in 0 .. m + 1
        BY <2>1, <4>1
      <4> QED
        BY <4>2
    <3>4. CASE ~(blocks[m + 1].first <= key)
      <4>1. ASSUME NEW k \in 1 .. m + 1
            PROVE  blocks[k].first <= key <=> k <= n
        BY <2>1, <3>1, <3>2, <3>4
      <4>2. n \in 0 .. m + 1
        BY <2>1
      <4> QED
        BY <4>1, <4>2
    <3> QED
      BY <3>3, <3>4
  <2> QED
    BY <2>1, <2>2, Zenon
<1>5. T = Nat
  <2> HIDE DEF T
  <2> QED
    BY <1>3, <1>4, NatSetInduction DEF T
<1>6. \E n \in 0 .. Len(blocks) : Splits(n, Len(blocks))
  <2>1. Len(blocks) \in T
    <3> HIDE DEF T
    <3> QED
      BY <1>1, <1>5
  <2> QED
    BY <1>1, <2>1
<1> QED
  BY <1>1, <1>6 DEF UpperBound

(* The blocks and one more, sorted.                                         *)
InsertionOf(after, blocks, block) ==
    /\ AllInPlace(after) /\ Sorted(after) /\ Len(after) = Len(blocks) + 1
    /\ \A k \in 1 .. Len(after) :
           after[k] = block \/ \E j \in DOMAIN blocks : after[k] = blocks[j]
    /\ \E k \in 1 .. Len(after) : after[k] = block
    /\ \A j \in DOMAIN blocks : \E k \in 1 .. Len(after) : after[k] = blocks[j]

(* A block inserted by its key: the blocks before it, it, those after it.   *)
LEMMA InsertByKeyResult ==
    ASSUME NEW blocks, AllInPlace(blocks), Sorted(blocks), NEW block, InPlace(block)
    PROVE  InsertionOf(InsertByKey(blocks, block), blocks, block)
<1>1. PICK m \in Nat : /\ m = Len(blocks) /\ DOMAIN blocks = 1 .. m
                       /\ blocks \in Seq(Block)
                       /\ \A k \in 1 .. m : InPlace(blocks[k])
  BY SequenceFacts
<1>2. block \in Block /\ block.first \in Nat /\ \A k \in 1 .. m : blocks[k].first \in Nat
  BY <1>1, BlockFacts
<1>3. PICK n \in 0 .. m : /\ n = UpperBound(blocks, block.first)
                          /\ \A k \in 1 .. m : blocks[k].first <= block.first <=> k <= n
  BY <1>1, <1>2, UpperBoundResult
<1>4. PICK front : front = SubSeq(blocks, 1, n)
  OBVIOUS
<1>5. PICK back : back = SubSeq(blocks, n + 1, m)
  OBVIOUS
<1>6. front \in Seq(Block) /\ Len(front) = n /\ \A k \in 1 .. n : front[k] = blocks[k]
  <2>1. \A k \in 1 .. n : blocks[k] \in Block
    BY <1>1, BlockFacts
  <2>2. /\ SubSeq(blocks, 1, n) \in Seq(Block)
        /\ Len(SubSeq(blocks, 1, n)) = IF 1 <= n THEN n - 1 + 1 ELSE 0
        /\ \A i \in 1 .. n - 1 + 1 : SubSeq(blocks, 1, n)[i] = blocks[1 + i - 1]
    BY <2>1, SubSeqProperties
  <2> QED
    BY <1>4, <2>2
<1>7. back \in Seq(Block) /\ Len(back) = m - n /\ \A k \in 1 .. m - n : back[k] = blocks[n + k]
  <2>1. \A k \in n + 1 .. m : blocks[k] \in Block
    BY <1>1, BlockFacts
  <2>2. /\ SubSeq(blocks, n + 1, m) \in Seq(Block)
        /\ Len(SubSeq(blocks, n + 1, m)) = IF n + 1 <= m THEN m - (n + 1) + 1 ELSE 0
        /\ \A i \in 1 .. m - (n + 1) + 1 : SubSeq(blocks, n + 1, m)[i] = blocks[(n + 1) + i - 1]
    BY <2>1, SubSeqProperties
  <2>3. Len(back) = m - n
    BY <1>5, <2>2
  <2>4. ASSUME NEW k \in 1 .. m - n
        PROVE  back[k] = blocks[n + k]
    <3>1. k \in 1 .. m - (n + 1) + 1 /\ (n + 1) + k - 1 = n + k
      OBVIOUS
    <3> QED
      BY <1>5, <2>2, <3>1
  <2> QED
    BY <1>5, <2>2, <2>3, <2>4
<1>8. PICK head : head = front \o <<block>>
  OBVIOUS
<1>9. /\ head \in Seq(Block) /\ Len(head) = n + 1
      /\ \A k \in 1 .. n + 1 : head[k] = IF k <= n THEN blocks[k] ELSE block
  <2>1. head = Append(front, block)
    BY <1>2, <1>6, <1>8, AppendIsConcat
  <2>2. /\ head \in Seq(Block) /\ Len(head) = Len(front) + 1
        /\ \A k \in 1 .. Len(front) : head[k] = front[k]
        /\ head[Len(front) + 1] = block
    BY <1>2, <1>6, <2>1, AppendProperties
  <2>3. \A k \in 1 .. n + 1 : k \in 1 .. n \/ k = n + 1
    OBVIOUS
  <2> QED
    BY <1>6, <2>2, <2>3
<1>10. PICK after : after = InsertByKey(blocks, block)
  OBVIOUS
<1>11. after = head \o back
  <2>1. after = InsertAt(blocks, n + 1, block)
    BY <1>3, <1>10 DEF InsertByKey
  <2>2. (n + 1) - 1 = n
    OBVIOUS
  <2>3. after = front \o <<block>> \o back
    BY <1>1, <1>4, <1>5, <2>1, <2>2 DEF InsertAt
  <2>4. <<block>> \in Seq(Block)
    BY <1>2
  <2> QED
    BY <1>6, <1>7, <1>8, <2>3, <2>4, ConcatAssociative
<1>12. /\ after \in Seq(Block) /\ Len(after) = m + 1
       /\ \A k \in 1 .. m + 1 :
              after[k] = IF k <= n THEN blocks[k] ELSE IF k = n + 1 THEN block ELSE blocks[k - 1]
  <2>1. /\ after \in Seq(Block) /\ Len(after) = (n + 1) + (m - n)
        /\ \A k \in 1 .. (n + 1) + (m - n) :
               after[k] = IF k <= n + 1 THEN head[k] ELSE back[k - (n + 1)]
    <3>1. /\ head \o back \in Seq(Block) /\ Len(head \o back) = Len(head) + Len(back)
          /\ \A k \in 1 .. Len(head) + Len(back) :
                 (head \o back)[k] = IF k <= Len(head) THEN head[k] ELSE back[k - Len(head)]
      BY <1>7, <1>9, ConcatProperties
    <3> QED
      BY <1>7, <1>9, <1>11, <3>1
  <2>2. ASSUME NEW k \in 1 .. m + 1
        PROVE  after[k] = IF k <= n THEN blocks[k] ELSE IF k = n + 1 THEN block ELSE blocks[k - 1]
    <3>1. CASE k <= n + 1
      BY <1>9, <2>1, <3>1
    <3>2. CASE k > n + 1
      <4>1. k - (n + 1) \in 1 .. m - n /\ n + (k - (n + 1)) = k - 1
        BY <3>2
      <4>2. back[k - (n + 1)] = blocks[k - 1]
        BY <1>7, <4>1
      <4> QED
        BY <2>1, <3>2, <4>2
    <3> QED
      BY <3>1, <3>2
  <2> QED
    BY <2>1, <2>2
<1>13. \A k \in 1 .. m + 1 : after[k] = block \/ \E j \in 1 .. m : after[k] = blocks[j]
  <2>1. ASSUME NEW k \in 1 .. m + 1, after[k] # block
        PROVE  \E j \in 1 .. m : after[k] = blocks[j]
    <3>1. CASE k <= n
      BY <1>12, <3>1
    <3>2. CASE k > n
      <4>1. k - 1 \in 1 .. m /\ after[k] = blocks[k - 1]
        BY <1>12, <2>1, <3>2
      <4> QED
        BY <4>1
    <3> QED
      BY <3>1, <3>2
  <2> QED
    BY <2>1
<1>14. \E k \in 1 .. m + 1 : after[k] = block
  <2>1. n + 1 \in 1 .. m + 1 /\ ~(n + 1 <= n)
    OBVIOUS
  <2> QED
    BY <1>12, <2>1
<1>15. ASSUME NEW j \in 1 .. m
       PROVE  \E k \in 1 .. m + 1 : after[k] = blocks[j]
  <2>1. CASE j <= n
    BY <1>12, <2>1
  <2>2. CASE j > n
    <3>1. j + 1 \in 1 .. m + 1 /\ after[j + 1] = blocks[j]
      BY <1>12, <2>2
    <3> QED
      BY <3>1
  <2> QED
    BY <2>1, <2>2
<1>16. AllInPlace(after)
  <2>1. DOMAIN after = 1 .. m + 1
    BY <1>12, LenProperties
  <2> QED
    BY <1>1, <1>12, <1>13, <2>1 DEF AllInPlace
<1>17. Sorted(after)
  <2>1. ASSUME NEW j \in 1 .. m + 1, NEW k \in 1 .. m + 1, j <= k
        PROVE  after[j].first <= after[k].first
    <3>1. \A a, b \in 1 .. m : a <= b => blocks[a].first <= blocks[b].first
      BY <1>1 DEF Sorted
    <3>2. CASE j <= n
      <4>1. j \in 1 .. m /\ after[j] = blocks[j]
        BY <1>12, <3>2
      <4>2. CASE k <= n
        BY <1>12, <2>1, <3>1, <3>2, <4>1, <4>2
      <4>3. CASE k = n + 1
        BY <1>3, <1>12, <3>2, <4>1, <4>3
      <4>4. CASE k > n + 1
        <5>1. k - 1 \in 1 .. m /\ j <= k - 1 /\ after[k] = blocks[k - 1]
          BY <1>12, <3>2, <4>4
        <5> QED
          BY <3>1, <4>1, <5>1
      <4> QED
        BY <4>2, <4>3, <4>4
    <3>3. CASE j = n + 1
      <4>1. after[j] = block
        BY <1>12, <3>3
      <4>2. CASE k = n + 1
        BY <1>2, <1>12, <3>3, <4>1, <4>2
      <4>3. CASE k > n + 1
        <5>1. k - 1 \in 1 .. m /\ ~(k - 1 <= n) /\ after[k] = blocks[k - 1]
          BY <1>12, <4>3
        <5>2. ~(blocks[k - 1].first <= block.first)
          BY <1>3, <5>1
        <5> QED
          BY <1>2, <4>1, <5>1, <5>2
      <4> QED
        BY <2>1, <3>3, <4>2, <4>3
    <3>4. CASE j > n + 1
      <4>1. /\ j - 1 \in 1 .. m /\ k - 1 \in 1 .. m /\ j - 1 <= k - 1
            /\ after[j] = blocks[j - 1] /\ after[k] = blocks[k - 1]
        BY <1>12, <2>1, <3>4
      <4> QED
        BY <3>1, <4>1
    <3> QED
      BY <3>2, <3>3, <3>4
  <2>2. DOMAIN after = 1 .. m + 1
    BY <1>12, LenProperties
  <2> QED
    BY <2>1, <2>2 DEF Sorted
<1>18. InsertionOf(after, blocks, block)
  <2>1. Len(after) = m + 1 /\ Len(blocks) = m /\ DOMAIN blocks = 1 .. m
    BY <1>1, <1>12
  <2> QED
    BY <1>13, <1>14, <1>15, <1>16, <1>17, <2>1, SMTT(30) DEF InsertionOf
<1> QED
  BY <1>10, <1>18


-----------------------------------------------------------------------------
(* A reassembler of a stream of some length: the output holds the bytes     *)
(* that follow those taken from it, and no more than its capacity; the      *)
(* stored blocks are bytes of the stream in their places, apart, all of     *)
(* them still to be written and inside the window; a closed output has had  *)
(* all bytes; the last byte, if known, is the stream's. Nothing is stored   *)
(* beyond limit: an empty message sent after the FIN has an index behind    *)
(* the end of the stream, and is stored there, empty.                       *)
BlocksWithin(blocks, lo, hi) ==
    /\ AllInPlace(blocks) /\ Apart(blocks)
    /\ \A k \in DOMAIN blocks : lo <= blocks[k].first /\ EndOf(blocks[k]) <= hi

Intact(r, length, limit) ==
    /\ r \in [output : Streams(Nat), last_byte : Int, pending : Seq(Block)]
    /\ StreamIntact(r.output)
    /\ NextByteIndex(r) <= limit
    /\ r.output.eof => NextByteIndex(r) = length
    /\ r.last_byte \in {NoLastByte, length - 1}
    /\ BlocksWithin(r.pending, NextByteIndex(r) + 1, Least(WindowEnd(r), limit))

(* The part of a substring that lies in the window.                         *)
LEMMA KeptResult ==
    ASSUME NEW first \in Nat, NEW data, IsRun(data, first),
           NEW next \in Nat, NEW end \in Nat, next <= end,
           first < end, first + Len(data) > next,
           NEW key, key = (IF first >= next THEN first ELSE next)
    PROVE  LET kept == Substr(data, key - first, Least(Len(data), end - key))
           IN  IsRun(kept, key) /\ key + Len(kept) = Least(end, first + Len(data))
<1>1. PICK n \in Nat : n = Len(data)
  BY LenProperties DEF IsRun
<1>2. /\ key \in Nat /\ key <= end /\ first <= key /\ next <= key /\ key <= first + n
  BY <1>1
<1>3. PICK pos \in 0 .. n : pos = key - first
  <2>1. key - first \in 0 .. n
    BY <1>2
  <2> QED
    BY <2>1
<1>4. PICK room \in Nat : room = Least(n, end - key)
  <2>1. Least(n, end - key) \in Nat
    BY <1>2 DEF Least
  <2> QED
    BY <2>1
<1>5. PICK hi \in pos .. n : hi = Least(pos + room, n)
  <2>1. Least(pos + room, n) \in pos .. n
    BY DEF Least
  <2> QED
    BY <2>1
<1>6. PICK kept : kept = SubSeq(data, pos + 1, hi)
  OBVIOUS
<1>7. kept = Substr(data, key - first, Least(Len(data), end - key))
  BY <1>1, <1>3, <1>4, <1>5, <1>6 DEF Substr
<1>8. IsRun(kept, first + pos) /\ Len(kept) = hi - pos
  BY <1>1, <1>6, RunPart
<1>9. first + pos = key
  BY <1>2, <1>3
<1>10. key + (hi - pos) = Least(end, first + n)
  BY <1>2, <1>3, <1>4, <1>5 DEF Least
<1> QED
  BY <1>1, <1>7, <1>8, <1>9, <1>10

(* Blocks that are apart are sorted.                                        *)
LEMMA ApartSorted ==
    ASSUME NEW blocks, AllInPlace(blocks), Apart(blocks)
    PROVE  Sorted(blocks)
<1>1. DOMAIN blocks = 1 .. Len(blocks) /\ \A k \in 1 .. Len(blocks) : InPlace(blocks[k])
  BY SequenceFacts
<1>2. ASSUME NEW j \in 1 .. Len(blocks), NEW k \in 1 .. Len(blocks), j <= k
      PROVE  blocks[j].first <= blocks[k].first
  <2>1. /\ blocks[j].first \in Nat /\ blocks[k].first \in Nat /\ EndOf(blocks[j]) \in Nat
        /\ blocks[j].first <= EndOf(blocks[j])
    BY <1>1, BlockFacts
  <2>2. CASE j = k
    BY <2>1, <2>2
  <2>3. CASE j # k
    <3>1. j < k
      BY <1>2, <2>3
    <3>2. EndOf(blocks[j]) < blocks[k].first
      BY <1>1, <3>1 DEF Apart
    <3> QED
      BY <2>1, <3>2
  <2> QED
    BY <2>2, <2>3
<1> QED
  BY <1>1, <1>2 DEF Sorted

(* Inserting a block into blocks that are apart, and merging.               *)
LEMMA InsertAndMerge ==
    ASSUME NEW blocks, NEW block, InPlace(block), NEW lo \in Nat, NEW hi \in Nat,
           BlocksWithin(blocks, lo, hi), lo <= block.first, EndOf(block) <= hi
    PROVE  LET merged == MergeSubstrings(InsertByKey(blocks, block))
           IN  /\ BlocksWithin(merged, lo, hi) /\ merged # <<>>
               /\ \A x \in Nat : CoveredBy(merged, x) <=> CoveredBy(blocks, x) \/ Covers(block, x)
<1>1. AllInPlace(blocks) /\ Sorted(blocks)
  BY ApartSorted DEF BlocksWithin
<1>2. PICK inserted : inserted = InsertByKey(blocks, block)
  OBVIOUS
<1>3. PICK n \in Nat :
          /\ AllInPlace(inserted) /\ Sorted(inserted) /\ Len(inserted) = n /\ n > 0
          /\ \A k \in 1 .. n :
                 inserted[k] = block \/ \E j \in DOMAIN blocks : inserted[k] = blocks[j]
          /\ \E k \in 1 .. n : inserted[k] = block
          /\ \A j \in DOMAIN blocks : \E k \in 1 .. n : inserted[k] = blocks[j]
  <2>1. Len(blocks) \in Nat
    BY <1>1, SequenceFacts
  <2>2. InsertionOf(inserted, blocks, block)
    BY <1>1, <1>2, InsertByKeyResult
  <2>3. Len(inserted) \in Nat /\ Len(inserted) > 0
    BY <2>1, <2>2 DEF InsertionOf
  <2> QED
    BY <2>2, <2>3 DEF InsertionOf
<1>4. PICK merged : merged = MergeSubstrings(inserted)
  OBVIOUS
<1>5. MergeOf(merged, inserted, n)
  BY <1>3, <1>4, MergeResult
<1>6. ASSUME NEW k \in 1 .. n
      PROVE  lo <= inserted[k].first /\ EndOf(inserted[k]) <= hi
  BY <1>3 DEF BlocksWithin
<1>7. BlocksWithin(merged, lo, hi) /\ merged # <<>>
  BY <1>3, <1>5, <1>6 DEF MergeOf, BlocksWithin
<1>8. ASSUME NEW x \in Nat
      PROVE  CoveredBy(merged, x) <=> CoveredBy(blocks, x) \/ Covers(block, x)
  <2>1. CoveredBy(merged, x) <=> \E k \in 1 .. n : Covers(inserted[k], x)
    BY <1>5 DEF MergeOf
  <2>2. (\E k \in 1 .. n : Covers(inserted[k], x)) => CoveredBy(blocks, x) \/ Covers(block, x)
    BY <1>3 DEF CoveredBy
  <2>3. CoveredBy(blocks, x) \/ Covers(block, x) => \E k \in 1 .. n : Covers(inserted[k], x)
    BY <1>3 DEF CoveredBy
  <2> QED
    BY <2>1, <2>2, <2>3
<1> QED
  BY <1>2, <1>4, <1>7, <1>8

(* Blocks that are apart within a window: only the first can begin where    *)
(* the window does, and without it the others lie behind it.                *)
LEMMA BlocksBehindFirst ==
    ASSUME NEW blocks, blocks # <<>>, NEW lo \in Nat, NEW hi \in Nat,
           BlocksWithin(blocks, lo, hi)
    PROVE  /\ InPlace(Head(blocks)) /\ lo <= Head(blocks).first /\ EndOf(Head(blocks)) <= hi
           /\ lo # Head(blocks).first => BlocksWithin(blocks, lo + 1, hi)
           /\ BlocksWithin(Tail(blocks), EndOf(Head(blocks)) + 1, hi)
           /\ \A x \in Nat : CoveredBy(blocks, x) <=>
                                Covers(Head(blocks), x) \/ CoveredBy(Tail(blocks), x)
<1>1. AllInPlace(blocks) /\ Apart(blocks)
  BY DEF BlocksWithin
<1>2. PICK m \in Nat : /\ m = Len(blocks) /\ m > 0 /\ DOMAIN blocks = 1 .. m /\ 1 \in 1 .. m
                       /\ blocks \in Seq(Block)
                       /\ \A k \in 1 .. m : InPlace(blocks[k])
  BY <1>1, SequenceFacts
<1>3. PICK head : head = Head(blocks) /\ head = blocks[1]
  BY <1>2
<1>4. PICK f \in Nat, e \in Nat : f = head.first /\ e = EndOf(head) /\ f <= e /\ lo <= f /\ e <= hi
  BY <1>2, <1>3, BlockFacts DEF BlocksWithin
<1>5. PICK tail : tail = Tail(blocks)
  OBVIOUS
<1>6. /\ tail \in Seq(Block) /\ Len(tail) = m - 1 /\ DOMAIN tail = 1 .. m - 1
      /\ \A k \in 1 .. m - 1 : tail[k] = blocks[k + 1]
  <2>1. /\ tail \in Seq(Block) /\ Len(tail) = Len(blocks) - 1
        /\ \A k \in 1 .. Len(tail) : tail[k] = blocks[k + 1]
    BY <1>2, <1>5, HeadTailProperties
  <2> QED
    BY <1>2, <2>1, LenProperties
<1>7. ASSUME NEW k \in 1 .. m - 1
      PROVE  k + 1 \in 1 .. m /\ 1 < k + 1
  OBVIOUS
<1>8. \A k \in 1 .. m : k # 1 => e < blocks[k].first
  <2>1. ASSUME NEW k \in 1 .. m, k # 1
        PROVE  e < blocks[k].first
    <3>1. 1 < k
      BY <2>1
    <3> QED
      BY <1>1, <1>2, <1>3, <1>4, <3>1 DEF Apart
  <2> QED
    BY <2>1
<1>9. \A k \in 1 .. m : blocks[k].first \in Nat /\ EndOf(blocks[k]) <= hi
  BY <1>2, BlockFacts DEF BlocksWithin
<1>10. lo # f => BlocksWithin(blocks, lo + 1, hi)
  <2>1. ASSUME NEW k \in 1 .. m, lo # f
        PROVE  lo + 1 <= blocks[k].first
    <3>1. CASE k = 1
      BY <1>3, <1>4, <2>1, <3>1
    <3>2. CASE k # 1
      <4>1. e < blocks[k].first /\ blocks[k].first \in Nat
        BY <1>8, <1>9, <3>2
      <4> QED
        BY <1>4, <4>1
    <3> QED
      BY <3>1, <3>2
  <2> QED
    BY <1>2, <1>9, <2>1 DEF BlocksWithin
<1>11. BlocksWithin(tail, e + 1, hi)
  <2>1. AllInPlace(tail)
    BY <1>2, <1>6, <1>7 DEF AllInPlace
  <2>2. Apart(tail)
    <3>1. ASSUME NEW j \in 1 .. m - 1, NEW k \in 1 .. m - 1, j < k
          PROVE  EndOf(tail[j]) < tail[k].first
      <4>1. j + 1 < k + 1 /\ j + 1 \in 1 .. m /\ k + 1 \in 1 .. m
        BY <3>1
      <4>2. EndOf(blocks[j + 1]) < blocks[k + 1].first
        BY <1>1, <1>2, <4>1 DEF Apart
      <4> QED
        BY <1>6, <4>2
    <3> QED
      BY <1>6, <3>1 DEF Apart
  <2>3. ASSUME NEW k \in 1 .. m - 1
        PROVE  e + 1 <= tail[k].first /\ EndOf(tail[k]) <= hi
    <3>1. k + 1 \in 1 .. m /\ k + 1 # 1
      OBVIOUS
    <3>2. e < blocks[k + 1].first /\ blocks[k + 1].first \in Nat /\ EndOf(blocks[k + 1]) <= hi
      BY <1>8, <1>9, <3>1
    <3> QED
      BY <1>6, <3>2
  <2> QED
    BY <1>6, <2>1, <2>2, <2>3 DEF BlocksWithin
<1>12. ASSUME NEW x \in Nat
       PROVE  CoveredBy(blocks, x) <=> Covers(head, x) \/ CoveredBy(tail, x)
  <2>1. ASSUME CoveredBy(blocks, x)
        PROVE  Covers(head, x) \/ CoveredBy(tail, x)
    <3>1. PICK k \in 1 .. m : Covers(blocks[k], x)
      BY <1>2, <2>1 DEF CoveredBy
    <3>2. CASE k = 1
      BY <1>3, <3>1, <3>2
    <3>3. CASE k # 1
      <4>1. k - 1 \in 1 .. m - 1 /\ (k - 1) + 1 = k
        BY <3>3
      <4>2. tail[k - 1] = blocks[k]
        BY <1>6, <4>1
      <4> QED
        BY <1>6, <3>1, <4>1, <4>2 DEF CoveredBy
    <3> QED
      BY <3>2, <3>3
  <2>2. ASSUME Covers(head, x) \/ CoveredBy(tail, x)
        PROVE  CoveredBy(blocks, x)
    BY <1>2, <1>3, <1>6, <1>7, <2>2 DEF CoveredBy
  <2> QED
    BY <2>1, <2>2
<1> QED
  BY <1>2, <1>3, <1>4, <1>5, <1>10, <1>11, <1>12

HoldsIndex(r, x) == x < NextByteIndex(r) \/ CoveredBy(r.pending, x)

(* A new reassembler is intact and holds nothing.                           *)
LEMMA NewResult ==
    ASSUME NEW capacity \in Nat, NEW length \in Nat, NEW limit \in Nat
    PROVE  LET r == NewReassembler(NewStream(capacity))
           IN  /\ Intact(r, length, limit) /\ r.output.capacity = capacity
               /\ ~r.output.eof /\ r.last_byte = NoLastByte
               /\ NextByteIndex(r) = 0 /\ r.pending = <<>>
               /\ \A x \in Nat : ~HoldsIndex(r, x)
<1>1. PICK s : s = NewStream(capacity)
  OBVIOUS
<1>2. s = [capacity |-> capacity, queue |-> <<>>, popped |-> 0, eof |-> FALSE, error |-> FALSE]
  BY <1>1 DEF NewStream
<1>3. StreamIntact(s) /\ BytesPushed(s) = 0
  <2>1. IsRun(<<>>, 0) /\ Len(<<>>) = 0
    BY RunEmpty
  <2>2. s \in Streams(Nat)
    BY <1>2 DEF Streams
  <2> QED
    BY <1>2, <2>1, <2>2 DEF StreamIntact, BytesPushed
<1>4. PICK r : r = [output |-> s, last_byte |-> NoLastByte, pending |-> <<>>]
  OBVIOUS
<1>5. r = NewReassembler(NewStream(capacity))
  BY <1>1, <1>4 DEF NewReassembler
<1>6. NextByteIndex(r) = 0
  BY <1>3, <1>4 DEF NextByteIndex
<1>7. BlocksWithin(<<>>, NextByteIndex(r) + 1, Least(WindowEnd(r), limit))
  BY DEF BlocksWithin, AllInPlace, Apart
<1>8. r \in [output : Streams(Nat), last_byte : Int, pending : Seq(Block)]
  BY <1>3, <1>4 DEF StreamIntact, NoLastByte
<1>9. Intact(r, length, limit)
  BY <1>2, <1>3, <1>4, <1>6, <1>7, <1>8 DEF Intact
<1>10. \A x \in Nat : ~HoldsIndex(r, x)
  BY <1>4, <1>6 DEF HoldsIndex, CoveredBy
<1>11. r.output.capacity = capacity /\ ~r.output.eof /\ r.last_byte = NoLastByte /\ r.pending = <<>>
  BY <1>2, <1>4
<1> QED
  BY <1>5, <1>6, <1>9, <1>10, <1>11

(* What Reassembler::insert promises: what is in the window is held from    *)
(* now on and nothing else is, and the stream ends with the byte before     *)
(* length when that one is known to be the last and all are written.        *)
Grown(after, r, first, data, last, length, limit) ==
    /\ Intact(after, length, limit)
    /\ after.output.popped = r.output.popped
    /\ after.output.capacity = r.output.capacity
    /\ after.output.error = r.output.error
    /\ NextByteIndex(after) >= NextByteIndex(r)
    /\ after.last_byte = IF last /\ ~(data = <<>> /\ first = NextByteIndex(r))
                         THEN length - 1 ELSE r.last_byte
    /\ after.output.eof <=> \/ r.output.eof
                            \/ last /\ data = <<>> /\ first = NextByteIndex(r)
                            \/ /\ NextByteIndex(after) > NextByteIndex(r)
                               /\ NextByteIndex(after) = length
                               /\ after.last_byte = length - 1
    /\ \A x \in Nat : HoldsIndex(after, x) <=>
           HoldsIndex(r, x) \/ (first <= x /\ x < first + Len(data) /\ x < WindowEnd(r))

(* The parts of a reassembler's record.                                     *)
LEMMA RecordFacts ==
    ASSUME NEW length, NEW limit, NEW r, Intact(r, length, limit)
    PROVE  /\ r = [output |-> r.output, last_byte |-> r.last_byte, pending |-> r.pending]
           /\ r.pending \in Seq(Block) /\ r.last_byte \in Int /\ r.output \in Streams(Nat)
BY DEF Intact

(* The next index to write and the end of the window are indices.           *)
LEMMA IndexFacts ==
    ASSUME NEW length \in Nat, NEW limit \in Nat, NEW r, Intact(r, length, limit)
    PROVE  \E next \in Nat, end \in Nat :
               /\ next = NextByteIndex(r) /\ end = WindowEnd(r) /\ next <= end /\ next <= limit
               /\ Least(end, limit) \in Nat
<1>1. PICK c \in Nat, q \in Nat, p \in Nat :
          q <= c /\ BytesPushed(r.output) = p + q /\ AvailableCapacity(r.output) = c - q
  BY StreamFacts DEF Intact
<1>2. NextByteIndex(r) = p + q /\ WindowEnd(r) = (p + q) + (c - q)
  BY <1>1 DEF NextByteIndex, WindowEnd
<1>3. p + q \in Nat /\ (p + q) + (c - q) \in Nat /\ p + q <= (p + q) + (c - q)
  BY <1>1
<1>4. p + q <= limit
  BY <1>2 DEF Intact
<1>5. Least((p + q) + (c - q), limit) \in Nat
  BY <1>3 DEF Least
<1> QED
  BY <1>2, <1>3, <1>4, <1>5

(* Before the first block is looked at, it may be the next to write.        *)
Ready(s, length, limit) ==
    /\ s \in [output : Streams(Nat), last_byte : Int, pending : Seq(Block)]
    /\ StreamIntact(s.output)
    /\ NextByteIndex(s) <= limit
    /\ s.output.eof => NextByteIndex(s) = length
    /\ s.last_byte \in {NoLastByte, length - 1}
    /\ BlocksWithin(s.pending, NextByteIndex(s), Least(WindowEnd(s), limit))
    /\ s.pending # <<>> /\ EndOf(Head(s.pending)) > 0
    /\ Head(s.pending).first = NextByteIndex(s) => NextByteIndex(s) < length /\ ~s.output.eof

(* Writing the first block, if it is the next one.                          *)
LEMMA WriteReadyResult ==
    ASSUME NEW length \in Nat, NEW limit \in Nat, NEW s, Ready(s, length, limit)
    PROVE  LET w == WriteReady(s)
           IN  /\ Intact(w, length, limit) /\ w.last_byte = s.last_byte
               /\ w.output.popped = s.output.popped
               /\ w.output.capacity = s.output.capacity
               /\ w.output.error = s.output.error
               /\ NextByteIndex(w) >= NextByteIndex(s)
               /\ w.output.eof <=> \/ s.output.eof
                                   \/ /\ NextByteIndex(w) > NextByteIndex(s)
                                      /\ NextByteIndex(w) = length
                                      /\ w.last_byte = length - 1
               /\ \A x \in Nat : HoldsIndex(w, x) <=> HoldsIndex(s, x)
<1>1. PICK c \in Nat, q \in Nat, p \in Nat :
          /\ c = s.output.capacity /\ q = Len(s.output.queue) /\ p = s.output.popped /\ q <= c
          /\ BytesPushed(s.output) = p + q /\ AvailableCapacity(s.output) = c - q
  BY StreamFacts DEF Ready
<1>2. PICK next \in Nat, end \in Nat :
          /\ next = p + q /\ end = p + c
          /\ next = NextByteIndex(s) /\ end = WindowEnd(s)
  <2>1. p + q \in Nat /\ p + c \in Nat /\ (p + q) + (c - q) = p + c
    OBVIOUS
  <2> QED
    BY <1>1, <2>1 DEF NextByteIndex, WindowEnd
<1>3. PICK hi \in Nat : hi = Least(end, limit) /\ hi <= end /\ hi <= limit
  <2>1. Least(end, limit) \in Nat /\ Least(end, limit) <= end /\ Least(end, limit) <= limit
    BY DEF Least
  <2> QED
    BY <2>1
<1>4. BlocksWithin(s.pending, next, hi)
  BY <1>2, <1>3 DEF Ready
<1>5. PICK block : block = Head(s.pending)
  OBVIOUS
<1>6. PICK tail : tail = Tail(s.pending)
  OBVIOUS
<1>7. /\ InPlace(block) /\ next <= block.first /\ EndOf(block) <= hi
      /\ next # block.first => BlocksWithin(s.pending, next + 1, hi)
      /\ BlocksWithin(tail, EndOf(block) + 1, hi)
      /\ \A x \in Nat : CoveredBy(s.pending, x) <=> Covers(block, x) \/ CoveredBy(tail, x)
  BY <1>4, <1>5, <1>6, BlocksBehindFirst DEF Ready
<1>8. PICK f \in Nat, e \in Nat, n \in Nat :
          /\ f = block.first /\ e = EndOf(block) /\ n = Len(block.data) /\ e = f + n
  BY <1>7, BlockFacts
<1>9. next <= limit /\ e > 0 /\ next <= f /\ e <= hi
  BY <1>2, <1>5, <1>7, <1>8 DEF Ready
<1>10. CASE f # next
  <2>1. WriteReady(s) = s
    BY <1>2, <1>5, <1>8, <1>10 DEF WriteReady
  <2>2. BlocksWithin(s.pending, NextByteIndex(s) + 1, Least(WindowEnd(s), limit))
    BY <1>2, <1>3, <1>7, <1>8, <1>10
  <2>3. Intact(s, length, limit)
    <3>1. NextByteIndex(s) <= limit
      BY <1>2, <1>9
    <3> QED
      BY <2>2, <3>1 DEF Intact, Ready
  <2>4. ~(NextByteIndex(s) > NextByteIndex(s)) /\ NextByteIndex(s) >= NextByteIndex(s)
    BY <1>2
  <2> QED
    BY <2>1, <2>3, <2>4
<1>11. CASE f = next
  <2>1. next < length /\ ~s.output.eof
    BY <1>2, <1>5, <1>8, <1>11 DEF Ready
  <2>2. IsRun(block.data, BytesPushed(s.output)) /\ Len(block.data) <= AvailableCapacity(s.output)
    <3>1. IsRun(block.data, f)
      BY <1>7, <1>8 DEF InPlace
    <3>2. n <= c - q
      BY <1>2, <1>3, <1>8, <1>9, <1>11
    <3> QED
      BY <1>1, <1>2, <1>8, <1>11, <3>1, <3>2
  <2>3. PICK t : t = StreamPush(s.output, block.data)
    OBVIOUS
  <2>4. /\ StreamIntact(t) /\ ~t.eof
        /\ t.popped = s.output.popped /\ t.capacity = s.output.capacity
        /\ t.error = s.output.error
        /\ BytesPushed(t) = e
    <3>1. BytesPushed(t) = BytesPushed(s.output) + Len(block.data)
      BY <2>2, <2>3, <2>1, PushResult DEF Ready
    <3>2. BytesPushed(t) = next + n
      BY <1>1, <1>2, <1>8, <3>1
    <3>3. /\ StreamIntact(t) /\ ~t.eof
          /\ t.popped = s.output.popped /\ t.capacity = s.output.capacity
          /\ t.error = s.output.error
      BY <2>2, <2>3, <2>1, PushResult DEF Ready
    <3> QED
      BY <1>8, <1>11, <3>2, <3>3
  <2>5. PICK u : u = IF EndsStream(s, block) THEN StreamClose(t) ELSE t
    OBVIOUS
  <2>6. /\ StreamIntact(u) /\ (u.eof <=> EndsStream(s, block))
        /\ u.popped = s.output.popped /\ u.capacity = s.output.capacity
        /\ u.error = s.output.error
        /\ BytesPushed(u) = e
    <3>1. CASE EndsStream(s, block)
      BY <2>4, <2>5, <3>1, CloseResult
    <3>2. CASE ~EndsStream(s, block)
      BY <2>4, <2>5, <3>2
    <3> QED
      BY <3>1, <3>2
  <2>7. AvailableCapacity(u) = (p + c) - e
    <3>1. PICK c1 \in Nat, q1 \in Nat, p1 \in Nat :
              /\ c1 = u.capacity /\ p1 = u.popped
              /\ BytesPushed(u) = p1 + q1 /\ AvailableCapacity(u) = c1 - q1
      BY <2>6, StreamFacts, SMTT(30)
    <3>2. c1 = c /\ p1 = p /\ p1 + q1 = e
      BY <1>1, <2>6, <3>1
    <3>3. c1 - q1 = (p + c) - e
      BY <3>2
    <3> QED
      BY <3>1, <3>3
  <2>8. PICK w : w = [output |-> u, last_byte |-> s.last_byte, pending |-> tail]
    OBVIOUS
  <2>9. WriteReady(s) = w
    <3>1. WriteReady(s) = [s EXCEPT !.output = u, !.pending = Tail(@)]
      BY <1>2, <1>5, <1>8, <1>11, <2>3, <2>5 DEF WriteReady
    <3> QED
      BY <1>6, <2>8, <3>1 DEF Ready
  <2>10. NextByteIndex(w) = e /\ WindowEnd(w) = end
    <3>1. e + ((p + c) - e) = end
      BY <1>2
    <3> QED
      BY <2>6, <2>7, <2>8, <3>1 DEF NextByteIndex, WindowEnd
  <2>11. s.last_byte = NoLastByte \/ s.last_byte = length - 1
    BY DEF Ready
  <2>12. EndsStream(s, block) <=> s.last_byte = length - 1 /\ e = length
    <3>1. EndsStream(s, block) <=> e - 1 = s.last_byte
      BY <1>8 DEF EndsStream
    <3>2. CASE s.last_byte = length - 1
      BY <3>1, <3>2
    <3>3. CASE s.last_byte # length - 1
      <4>1. s.last_byte = -1
        BY <2>11, <3>3 DEF NoLastByte
      <4>2. e - 1 # -1
        BY <1>9
      <4> QED
        BY <3>1, <3>3, <4>1, <4>2
    <3> QED
      BY <3>2, <3>3
  <2>13. e >= next /\ e <= limit /\ (e = length => e > next)
    BY <1>3, <1>8, <1>9, <1>11, <2>1
  <2>14. Intact(w, length, limit)
    <3>1. w.output = u /\ w.last_byte = s.last_byte /\ w.pending = tail
      BY <2>8
    <3>2. BlocksWithin(w.pending, NextByteIndex(w) + 1, Least(WindowEnd(w), limit))
      BY <1>3, <1>7, <1>8, <2>10, <3>1
    <3>3. w \in [output : Streams(Nat), last_byte : Int, pending : Seq(Block)]
      BY <1>7, <2>6, <2>8 DEF StreamIntact, BlocksWithin, AllInPlace, Ready
    <3>4. NextByteIndex(w) <= limit /\ (u.eof => NextByteIndex(w) = length)
      BY <2>6, <2>10, <2>12, <2>13
    <3> QED
      BY <2>6, <2>11, <3>1, <3>2, <3>3, <3>4 DEF Intact
  <2>15. ASSUME NEW x \in Nat
         PROVE  HoldsIndex(w, x) <=> HoldsIndex(s, x)
    <3>1. HoldsIndex(w, x) <=> x < e \/ CoveredBy(tail, x)
      BY <2>8, <2>10 DEF HoldsIndex
    <3>2. HoldsIndex(s, x) <=> x < next \/ Covers(block, x) \/ CoveredBy(tail, x)
      BY <1>2, <1>7 DEF HoldsIndex
    <3>3. Covers(block, x) <=> next <= x /\ x < e
      BY <1>8, <1>11 DEF Covers
    <3>4. x < e <=> (x < next \/ (next <= x /\ x < e))
      BY <2>13
    <3> QED
      BY <3>1, <3>2, <3>3, <3>4, Zenon
  <2>16. /\ w.last_byte = s.last_byte
         /\ w.output.popped = s.output.popped
         /\ w.output.capacity = s.output.capacity
         /\ w.output.error = s.output.error
         /\ w.output.eof <=> EndsStream(s, block)
    BY <2>6, <2>8
  <2> QED
    BY <1>2, <2>9, <2>10, <2>12, <2>13, <2>14, <2>15, <2>16, <2>1
<1> QED
  BY <1>10, <1>11

(* Storing the part of a substring that lies in the window.                 *)
LEMMA StoreResult ==
    ASSUME NEW length \in Nat, NEW limit \in Nat, NEW r, Intact(r, length, limit),
           NEW first \in Nat, NEW data, IsRun(data, first), first + Len(data) <= limit,
           Len(data) > 0 => first + Len(data) <= length,
           first < WindowEnd(r), first + Len(data) > NextByteIndex(r)
    PROVE  LET s == Store(r, first, data)
           IN  /\ Ready(s, length, limit) /\ s.output = r.output /\ s.last_byte = r.last_byte
               /\ \A x \in Nat : HoldsIndex(s, x) <=>
                      HoldsIndex(r, x) \/ (first <= x /\ x < first + Len(data) /\ x < WindowEnd(r))
<1>1. PICK next \in Nat, end \in Nat :
          /\ next = NextByteIndex(r) /\ end = WindowEnd(r) /\ next <= end /\ next <= limit
          /\ Least(end, limit) \in Nat
  BY IndexFacts
<1>2. PICK hi \in Nat : hi = Least(end, limit)
  BY <1>1
<1>3. PICK n \in Nat : n = Len(data)
  BY LenProperties DEF IsRun
<1>4. first < end /\ first + n > next /\ first + n <= limit /\ (n > 0 => first + n <= length)
  BY <1>1, <1>3
<1>5. PICK key \in Nat : key = IF first >= next THEN first ELSE next
  OBVIOUS
<1>6. PICK kept : kept = Substr(data, key - first, Room(r, key, Len(data)))
  OBVIOUS
<1>7. IsRun(kept, key) /\ key + Len(kept) = Least(end, first + n)
  <2>1. Room(r, key, Len(data)) = Least(Len(data), end - key)
    BY <1>1 DEF Room
  <2>2. first + Len(data) > next
    BY <1>3, <1>4
  <2>3. IsRun(kept, key) /\ key + Len(kept) = Least(end, first + Len(data))
    BY <1>1, <1>4, <1>5, <1>6, <2>1, <2>2, KeptResult, SMTT(30)
  <2> QED
    BY <1>3, <2>3
<1>8. PICK block : block = [first |-> key, data |-> kept]
  OBVIOUS
<1>9. PICK e \in Nat : /\ e = Least(end, first + n) /\ EndOf(block) = e /\ InPlace(block)
                       /\ block.first = key /\ key <= e
  <2>1. Least(end, first + n) \in Nat /\ key <= Least(end, first + n)
    BY <1>1, <1>4, <1>5 DEF Least
  <2>2. InPlace(block) /\ EndOf(block) = key + Len(kept)
    BY <1>7, <1>8, BlockOfRun
  <2> QED
    BY <1>7, <1>8, <2>1, <2>2
<1>10. next <= key /\ e <= hi
  BY <1>1, <1>2, <1>4, <1>5, <1>9 DEF Least
<1>11. PICK merged : merged = MergeSubstrings(InsertByKey(r.pending, block))
  OBVIOUS
<1>12. BlocksWithin(r.pending, next + 1, hi)
  BY <1>1, <1>2 DEF Intact
<1>13. ASSUME NEW lo \in Nat, lo <= next + 1, lo <= key
       PROVE  /\ BlocksWithin(merged, lo, hi) /\ merged # <<>>
              /\ \A x \in Nat : CoveredBy(merged, x) <=>
                                   CoveredBy(r.pending, x) \/ Covers(block, x)
  <2>1. BlocksWithin(r.pending, lo, hi)
    <3>1. \A k \in DOMAIN r.pending : InPlace(r.pending[k])
      BY <1>12 DEF BlocksWithin, AllInPlace
    <3>2. \A k \in DOMAIN r.pending : r.pending[k].first \in Nat
      BY <3>1, BlockFacts
    <3>3. \A k \in DOMAIN r.pending : next + 1 <= r.pending[k].first
      BY <1>12 DEF BlocksWithin
    <3>4. \A k \in DOMAIN r.pending : lo <= r.pending[k].first
      BY <1>13, <3>2, <3>3
    <3> QED
      BY <1>12, <3>4 DEF BlocksWithin
  <2>2. lo <= block.first /\ EndOf(block) <= hi
    BY <1>9, <1>10, <1>13
  <2> QED
    BY <1>9, <1>11, <2>1, <2>2, InsertAndMerge
<1>14. PICK s : s = [output |-> r.output, last_byte |-> r.last_byte, pending |-> merged]
  OBVIOUS
<1>15. Store(r, first, data) = s
  <2>1. Store(r, first, data) = [r EXCEPT !.pending = merged]
    BY <1>1, <1>5, <1>6, <1>8, <1>11 DEF Store
  <2> QED
    BY <1>14, <2>1, RecordFacts
<1>16. NextByteIndex(s) = next /\ WindowEnd(s) = end
  BY <1>1, <1>14 DEF NextByteIndex, WindowEnd
<1>17. BlocksWithin(merged, next, hi) /\ merged # <<>>
  BY <1>10, <1>13
<1>18. EndOf(Head(merged)) > 0
  <2>1. /\ InPlace(Head(merged)) /\ next <= Head(merged).first
        /\ BlocksWithin(Tail(merged), EndOf(Head(merged)) + 1, hi)
        /\ \A x \in Nat : CoveredBy(merged, x) <=>
                             Covers(Head(merged), x) \/ CoveredBy(Tail(merged), x)
    BY <1>17, BlocksBehindFirst
  <2>2. PICK f \in Nat, d \in Nat : f = Head(merged).first /\ d = EndOf(Head(merged)) /\ f <= d
    BY <2>1, BlockFacts
  <2>3. SUFFICES ASSUME d = 0 PROVE FALSE
    BY <2>2
  <2>4. f = 0 /\ next = 0
    BY <2>1, <2>2, <2>3
  <2>5. CASE key = 0
    <3>1. 0 < e /\ first = 0
      BY <1>4, <1>5, <1>9, <2>4, <2>5 DEF Least
    <3>2. Covers(block, 0)
      BY <1>9, <2>5, <3>1 DEF Covers
    <3>3. CoveredBy(merged, 0)
      BY <1>10, <1>13, <3>2
    <3>4. ~Covers(Head(merged), 0)
      BY <2>2, <2>3 DEF Covers
    <3>5. CoveredBy(Tail(merged), 0)
      BY <2>1, <3>3, <3>4
    <3>6. PICK k \in DOMAIN Tail(merged) : Covers(Tail(merged)[k], 0)
      BY <3>5 DEF CoveredBy
    <3>7. d + 1 <= Tail(merged)[k].first
      BY <2>1, <2>2 DEF BlocksWithin
    <3>8. Tail(merged)[k].first \in Nat
      BY <2>1, BlockFacts DEF BlocksWithin, AllInPlace
    <3> QED
      BY <2>3, <3>6, <3>7, <3>8 DEF Covers
  <2>6. CASE key # 0
    <3>1. BlocksWithin(merged, 1, hi) /\ merged # <<>>
      <4>1. 1 \in Nat /\ 1 <= next + 1 /\ 1 <= key
        BY <2>6
      <4> QED
        BY <1>13, <4>1
    <3>2. 1 <= Head(merged).first
      BY <3>1, BlocksBehindFirst
    <3> QED
      BY <2>2, <2>4, <3>2
  <2> QED
    BY <2>5, <2>6
<1>19. Ready(s, length, limit)
  <2>1. /\ s.output = r.output /\ s.last_byte = r.last_byte /\ s.pending = merged
        /\ s \in [output : Streams(Nat), last_byte : Int, pending : Seq(Block)]
    BY <1>14, <1>17, RecordFacts DEF BlocksWithin, AllInPlace
  <2>2. BlocksWithin(s.pending, NextByteIndex(s), Least(WindowEnd(s), limit))
    BY <1>2, <1>16, <1>17, <2>1
  <2>3. Head(merged).first = next => next < length /\ ~r.output.eof
    <3>1. CASE n > 0
      <4>1. next < length
        BY <1>4, <3>1
      <4> QED
        BY <1>1, <4>1 DEF Intact
    <3>2. CASE n = 0
      <4>1. next + 1 \in Nat /\ next + 1 <= key
        BY <1>4, <1>5, <3>2
      <4>2. BlocksWithin(merged, next + 1, hi) /\ merged # <<>>
        BY <1>13, <4>1
      <4>3. next + 1 <= Head(merged).first
        BY <4>1, <4>2, BlocksBehindFirst
      <4> QED
        BY <4>3
    <3> QED
      BY <3>1, <3>2
  <2> QED
    BY <1>1, <1>16, <1>17, <1>18, <2>1, <2>2, <2>3 DEF Ready, Intact
<1>20. ASSUME NEW x \in Nat
       PROVE  HoldsIndex(s, x) <=> HoldsIndex(r, x) \/ (first <= x /\ x < first + n /\ x < end)
  <2>1. HoldsIndex(s, x) <=> x < next \/ CoveredBy(r.pending, x) \/ Covers(block, x)
    BY <1>10, <1>13, <1>14, <1>16 DEF HoldsIndex
  <2>2. HoldsIndex(r, x) <=> x < next \/ CoveredBy(r.pending, x)
    BY <1>1 DEF HoldsIndex
  <2>3. Covers(block, x) <=> key <= x /\ x < e
    BY <1>9 DEF Covers
  <2>4. (x < next \/ (key <= x /\ x < e)) <=> (x < next \/ (first <= x /\ x < first + n /\ x < end))
    BY <1>1, <1>4, <1>5, <1>9 DEF Least
  <2> QED
    BY <2>1, <2>2, <2>3, <2>4, Zenon
<1> QED
  BY <1>1, <1>3, <1>14, <1>15, <1>19, <1>20

(* One call of Reassembler::insert.                                         *)
THEOREM InsertResult ==
    ASSUME NEW length \in Nat, NEW limit \in Nat, NEW r, Intact(r, length, limit),
           NEW first \in Nat, NEW data, IsRun(data, first), first + Len(data) <= limit,
           Len(data) > 0 => first + Len(data) <= length,
           NEW last \in BOOLEAN, last => first + Len(data) = length
    PROVE  Grown(Insert(r, first, data, last), r, first, data, last, length, limit)
<1>1. PICK next \in Nat, end \in Nat :
          next = NextByteIndex(r) /\ end = WindowEnd(r) /\ next <= end /\ next <= limit
  BY IndexFacts
<1>2. PICK n \in Nat : n = Len(data) /\ (n = 0 <=> data = <<>>)
  BY LenProperties, EmptySeq DEF IsRun
<1>3. first + n <= limit /\ (n > 0 => first + n <= length) /\ (last => first + n = length)
  BY <1>2
<1>4. PICK noted : noted = IF last THEN [r EXCEPT !.last_byte = first + Len(data) - 1] ELSE r
  OBVIOUS
<1>5. noted = [output |-> r.output, last_byte |-> IF last THEN length - 1 ELSE r.last_byte,
               pending |-> r.pending]
  <2>1. last => first + Len(data) - 1 = length - 1
    BY <1>2, <1>3
  <2> QED
    BY <1>4, <2>1, RecordFacts
<1>6. NextByteIndex(noted) = next /\ WindowEnd(noted) = end
  BY <1>1, <1>5 DEF NextByteIndex, WindowEnd
<1>7. Intact(noted, length, limit)
  BY <1>1, <1>5, <1>6 DEF Intact
<1>8. \A x \in Nat : HoldsIndex(noted, x) <=> HoldsIndex(r, x)
  BY <1>1, <1>5, <1>6 DEF HoldsIndex
<1>9. CASE data = <<>> /\ last /\ first = next
  <2>1. PICK t : t = StreamClose(r.output)
    OBVIOUS
  <2>2. PICK w : w = [output |-> t, last_byte |-> r.last_byte, pending |-> r.pending]
    OBVIOUS
  <2>3. Insert(r, first, data, last) = w
    <3>1. Insert(r, first, data, last) = [r EXCEPT !.output = t]
      BY <1>1, <1>9, <2>1 DEF Insert, OnlyEnds
    <3> QED
      BY <2>2, <3>1, RecordFacts
  <2>4. /\ StreamIntact(t) /\ t.eof
        /\ t.popped = r.output.popped /\ t.capacity = r.output.capacity /\ t.error = r.output.error
        /\ BytesPushed(t) = BytesPushed(r.output) /\ AvailableCapacity(t) = AvailableCapacity(r.output)
    BY <2>1, CloseResult DEF Intact
  <2>5. NextByteIndex(w) = next /\ WindowEnd(w) = end /\ next = length
    BY <1>1, <1>2, <1>3, <1>9, <2>2, <2>4 DEF NextByteIndex, WindowEnd
  <2>6. Intact(w, length, limit)
    BY <1>1, <2>2, <2>4, <2>5 DEF Intact, StreamIntact
  <2>7. ASSUME NEW x \in Nat
        PROVE  HoldsIndex(w, x) <=> HoldsIndex(r, x) \/ (first <= x /\ x < first + n /\ x < end)
    <3>1. HoldsIndex(w, x) <=> HoldsIndex(r, x)
      BY <1>1, <2>2, <2>5 DEF HoldsIndex
    <3>2. ~(first <= x /\ x < first + n)
      BY <1>2, <1>9
    <3> QED
      BY <3>1, <3>2, Zenon
  <2>8. NextByteIndex(w) >= NextByteIndex(r) /\ first = NextByteIndex(r)
    BY <1>1, <1>9, <2>5
  <2>9. /\ w.last_byte = IF last /\ ~(data = <<>> /\ first = NextByteIndex(r))
                        THEN length - 1 ELSE r.last_byte
        /\ w.output = t
    BY <1>9, <2>2, <2>8
  <2>10. t.eof <=> \/ r.output.eof
                   \/ last /\ data = <<>> /\ first = NextByteIndex(r)
                   \/ /\ NextByteIndex(w) > NextByteIndex(r)
                      /\ NextByteIndex(w) = length
                      /\ w.last_byte = length - 1
    BY <1>9, <2>4, <2>8
  <2>11. \A x \in Nat : HoldsIndex(w, x) <=>
            HoldsIndex(r, x) \/ (first <= x /\ x < first + Len(data) /\ x < WindowEnd(r))
    BY <1>1, <1>2, <2>7
  <2>12. Grown(w, r, first, data, last, length, limit)
    BY <2>4, <2>6, <2>8, <2>9, <2>10, <2>11 DEF Grown
  <2> QED
    BY <2>3, <2>12
<1>10. CASE ~(data = <<>> /\ last /\ first = next) /\ ~(first < end /\ first + n > next)
  <2>1. Insert(r, first, data, last) = noted
    BY <1>1, <1>2, <1>4, <1>10 DEF Insert, OnlyEnds
  <2>2. ASSUME NEW x \in Nat
        PROVE  HoldsIndex(noted, x) <=> HoldsIndex(r, x) \/ (first <= x /\ x < first + n /\ x < end)
    <3>1. (first <= x /\ x < first + n /\ x < end) => x < next
      BY <1>10
    <3>2. x < next => HoldsIndex(r, x)
      BY <1>1 DEF HoldsIndex
    <3> QED
      BY <1>8, <3>1, <3>2
  <2>3. next >= next /\ ~(next > next)
    OBVIOUS
  <2> QED
    BY <1>1, <1>2, <1>5, <1>6, <1>7, <1>10, <2>1, <2>2, <2>3 DEF Grown
<1>11. CASE ~(data = <<>> /\ last /\ first = next) /\ first < end /\ first + n > next
  <2>1. PICK s : s = Store(noted, first, data)
    OBVIOUS
  <2>2. PICK w : w = WriteReady(s)
    OBVIOUS
  <2>3. Insert(r, first, data, last) = w
    BY <1>1, <1>2, <1>4, <1>11, <2>1, <2>2 DEF Insert, OnlyEnds
  <2>4. /\ Ready(s, length, limit) /\ s.output = r.output /\ s.last_byte = noted.last_byte
        /\ \A x \in Nat : HoldsIndex(s, x) <=>
               HoldsIndex(noted, x) \/ (first <= x /\ x < first + Len(data) /\ x < WindowEnd(noted))
    <3>1. first + Len(data) <= limit /\ (Len(data) > 0 => first + Len(data) <= length) /\ first < WindowEnd(noted) /\ first + Len(data) > NextByteIndex(noted)
      BY <1>2, <1>3, <1>6, <1>11
    <3> QED
      BY <1>5, <1>7, <2>1, <3>1, StoreResult
  <2>5. /\ Intact(w, length, limit) /\ w.last_byte = s.last_byte
        /\ w.output.popped = s.output.popped
        /\ w.output.capacity = s.output.capacity
        /\ w.output.error = s.output.error
        /\ NextByteIndex(w) >= NextByteIndex(s)
        /\ w.output.eof <=> \/ s.output.eof
                            \/ /\ NextByteIndex(w) > NextByteIndex(s)
                               /\ NextByteIndex(w) = length
                               /\ w.last_byte = length - 1
        /\ \A x \in Nat : HoldsIndex(w, x) <=> HoldsIndex(s, x)
    BY <2>2, <2>4, WriteReadyResult
  <2>6. NextByteIndex(s) = next
    BY <1>1, <2>4 DEF NextByteIndex
  <2>7. s.output.eof = r.output.eof
    BY <2>4
  <2>8. w.last_byte = IF last THEN length - 1 ELSE r.last_byte
    BY <1>5, <2>4, <2>5
  <2>9. ASSUME NEW x \in Nat
        PROVE  HoldsIndex(w, x) <=> HoldsIndex(r, x) \/ (first <= x /\ x < first + n /\ x < end)
    BY <1>2, <1>6, <1>8, <2>4, <2>5
  <2> QED
    BY <1>1, <1>2, <1>11, <2>3, <2>4, <2>5, <2>6, <2>7, <2>8, <2>9 DEF Grown
<1> QED
  BY <1>9, <1>10, <1>11

(* The blocks that are stored are apart and inside the window: together     *)
(* they are no longer than the window.                                      *)
LEMMA PendingFits ==
    ASSUME NEW r, NEW length \in Nat, NEW limit \in Nat, Intact(r, length, limit)
    PROVE  CountBytesPending(r) \in Nat /\ CountBytesPending(r) <= AvailableCapacity(r.output)
<1>1. PICK next \in Nat, end \in Nat :
          next = NextByteIndex(r) /\ end = WindowEnd(r) /\ next <= end /\ next <= limit
  BY IndexFacts
<1>2. PICK hi \in Nat : hi = Least(end, limit) /\ hi <= end
  BY <1>1 DEF Least
<1>3. PICK blocks : blocks = r.pending
  OBVIOUS
<1>4. BlocksWithin(blocks, next + 1, hi)
  BY <1>1, <1>2, <1>3 DEF Intact
<1>5. PICK m \in Nat : m = Len(blocks) /\ DOMAIN blocks = 1 .. m /\ \A k \in 1 .. m : InPlace(blocks[k])
  BY <1>4, SequenceFacts DEF BlocksWithin
<1>6. PICK len : len = [k \in 1 .. m |-> Len(blocks[k].data)]
  OBVIOUS
<1>7. CountBytesPending(r) = SumFunctionOnSet(len, 1 .. m)
  <2>1. CountBytesPending(r) = SumFunction(len)
    BY <1>3, <1>5, <1>6 DEF CountBytesPending
  <2>2. DOMAIN len = 1 .. m
    BY <1>6
  <2> QED
    BY <2>1, <2>2 DEF SumFunction, SumFunctionOnSet
<1>8. \A k \in 1 .. m : /\ len[k] \in Nat /\ blocks[k].first \in Nat /\ EndOf(blocks[k]) \in Nat
                        /\ EndOf(blocks[k]) = blocks[k].first + len[k]
  BY <1>5, <1>6, BlockFacts
<1> DEFINE EndAt(k) == IF k = 0 THEN next ELSE EndOf(blocks[k])
<1> DEFINE Total(k) == SumFunctionOnSet(len, 1 .. k)
<1>9. \A k \in 1 .. m : EndAt(k - 1) < blocks[k].first /\ EndAt(k - 1) \in Nat /\ EndAt(k) <= hi
  <2>1. ASSUME NEW k \in 1 .. m
        PROVE  EndAt(k - 1) < blocks[k].first /\ EndAt(k - 1) \in Nat /\ EndAt(k) <= hi
    <3>1. next + 1 <= blocks[k].first /\ EndOf(blocks[k]) <= hi
      BY <1>4, <1>5 DEF BlocksWithin
    <3>2. CASE k = 1
      BY <1>8, <3>1, <3>2
    <3>3. CASE k # 1
      <4>1. k - 1 \in 1 .. m /\ k - 1 < k /\ k - 1 # 0
        BY <3>3
      <4>2. EndOf(blocks[k - 1]) < blocks[k].first
        BY <1>4, <1>5, <4>1 DEF BlocksWithin, Apart
      <4> QED
        BY <1>8, <3>1, <4>1, <4>2
    <3> QED
      BY <3>2, <3>3
  <2> QED
    BY <2>1
<1> DEFINE T == {k \in Nat : k <= m => Total(k) \in Nat /\ Total(k) <= EndAt(k) - next}
<1>10. 0 \in T
  <2>1. 1 .. 0 = {} /\ SumFunctionOnSet(len, {}) = 0
    BY FS_EmptySet, SumType
  <2> QED
    BY <2>1
<1>11. ASSUME NEW k \in T
       PROVE  k + 1 \in T
  <2>1. k \in Nat /\ k + 1 \in Nat
    OBVIOUS
  <2>2. ASSUME k + 1 <= m
        PROVE  Total(k + 1) \in Nat /\ Total(k + 1) <= EndAt(k + 1) - next
    <3>1. k + 1 \in 1 .. m /\ (k + 1) - 1 = k /\ k + 1 # 0
      BY <2>1, <2>2
    <3>2. Total(k) \in Nat /\ Total(k) <= EndAt(k) - next
      BY <2>1, <2>2
    <3>3. PICK J : J = 1 .. k + 1 /\ J \ {k + 1} = 1 .. k /\ k + 1 \in J
      BY <2>1
    <3>4. IsFiniteSet(J) /\ \A i \in J : len[i] \in Int
      <4>1. IsFiniteSet(J)
        BY <2>1, <3>3, FS_Interval
      <4>2. ASSUME NEW i \in J
            PROVE  len[i] \in Int
        BY <1>8, <2>2, <3>3
      <4> QED
        BY <4>1, <4>2
    <3>5. SumFunctionOnSet(len, J) = len[k + 1] + SumFunctionOnSet(len, J \ {k + 1})
      BY <3>3, <3>4, SumRemove
    <3>6. Total(k + 1) = len[k + 1] + Total(k)
      BY <3>3, <3>5
    <3>7. /\ EndAt(k) < blocks[k + 1].first /\ EndAt(k) \in Nat
          /\ EndAt(k + 1) = blocks[k + 1].first + len[k + 1]
          /\ len[k + 1] \in Nat /\ blocks[k + 1].first \in Nat
      BY <1>8, <1>9, <3>1
    <3> HIDE DEF Total, EndAt
    <3> QED
      BY <3>2, <3>6, <3>7
  <2> HIDE DEF Total, EndAt
  <2> QED
    BY <2>1, <2>2, Zenon
<1>12. T = Nat
  <2> HIDE DEF T
  <2> QED
    BY <1>10, <1>11, NatSetInduction DEF T
<1>13. Total(m) \in Nat /\ Total(m) <= EndAt(m) - next
  <2>1. m \in T
    <3> HIDE DEF T
    <3> QED
      BY <1>12
  <2> QED
    BY <2>1
<1>14. EndAt(m) - next <= end - next
  <2>1. CASE m = 0
    BY <1>1, <2>1
  <2>2. CASE m # 0
    <3>1. m \in 1 .. m
      BY <2>2
    <3>2. EndAt(m) <= hi /\ EndAt(m) \in Nat
      BY <1>8, <1>9, <2>2, <3>1
    <3> QED
      BY <1>2, <3>2
  <2> QED
    BY <2>1, <2>2
<1>15. end - next = AvailableCapacity(r.output)
  <2>1. PICK c \in Nat, q \in Nat : AvailableCapacity(r.output) = c - q
    BY StreamFacts DEF Intact
  <2> QED
    BY <1>1, <2>1 DEF WindowEnd
<1>16. EndAt(m) - next \in Int /\ end - next \in Int
  BY <1>8
<1> HIDE DEF EndAt, Total
<1>17. Total(m) <= AvailableCapacity(r.output)
  BY <1>13, <1>14, <1>15, <1>16
<1> QED
  BY <1>7, <1>13, <1>17 DEF Total

(* When an insertion closes the output, and when it leaves it closed...     *)
LEMMA GrownCloses ==
    ASSUME NEW w, NEW r, NEW first, NEW data, NEW last, NEW length, NEW limit,
           Grown(w, r, first, data, last, length, limit)
    PROVE  /\ r.output.eof => w.output.eof
           /\ NextByteIndex(w) > NextByteIndex(r) /\ NextByteIndex(w) = length
                  /\ w.last_byte = length - 1 => w.output.eof
           /\ last /\ data = <<>> /\ first = NextByteIndex(r) => w.output.eof
BY DEF Grown

(* ... and what holds when it has just been closed.                         *)
LEMMA GrownClosed ==
    ASSUME NEW w, NEW r, NEW first, NEW data, NEW last, NEW length, NEW limit,
           Grown(w, r, first, data, last, length, limit), w.output.eof, ~r.output.eof,
           ~(last /\ data = <<>> /\ first = NextByteIndex(r))
    PROVE  /\ NextByteIndex(w) > NextByteIndex(r) /\ NextByteIndex(w) = length
           /\ w.last_byte = length - 1
BY DEF Grown

StoredIndices(r) == UNION {r.pending[k].first .. EndOf(r.pending[k]) - 1 : k \in DOMAIN r.pending}

(* The indices that the abstraction says are stored are the covered ones:   *)
(* all of them behind the next to write and inside the window, which ends   *)
(* where the capacity does.                                                 *)
LEMMA StoredFacts ==
    ASSUME NEW length \in Nat, NEW limit \in Nat, NEW r, Intact(r, length, limit)
    PROVE  /\ StoredIndices(r) \subseteq Nat
           /\ \A x \in Nat : x \in StoredIndices(r) <=> CoveredBy(r.pending, x)
           /\ \A x \in Nat : CoveredBy(r.pending, x) => NextByteIndex(r) < x /\ x < WindowEnd(r)
           /\ WindowEnd(r) = r.output.popped + r.output.capacity
           /\ r.output.popped \in Nat /\ r.output.eof \in BOOLEAN
<1>1. PICK next \in Nat, end \in Nat :
          next = NextByteIndex(r) /\ end = WindowEnd(r)
  BY IndexFacts
<1>2. /\ AllInPlace(r.pending)
      /\ \A k \in DOMAIN r.pending : /\ next + 1 <= r.pending[k].first
                                     /\ EndOf(r.pending[k]) <= Least(end, limit)
  BY <1>1 DEF Intact, BlocksWithin
<1>3. \A k \in DOMAIN r.pending : r.pending[k].first \in Nat /\ EndOf(r.pending[k]) \in Nat
  BY <1>2, BlockFacts DEF AllInPlace
<1>4. ASSUME NEW x \in Nat
      PROVE  x \in StoredIndices(r) <=> CoveredBy(r.pending, x)
  <2>1. ASSUME NEW k \in DOMAIN r.pending
        PROVE  x \in r.pending[k].first .. EndOf(r.pending[k]) - 1 <=> Covers(r.pending[k], x)
    BY <1>3, <2>1 DEF Covers
  <2> QED
    BY <2>1 DEF StoredIndices, CoveredBy
<1>5. StoredIndices(r) \subseteq Nat
  <2>1. ASSUME NEW k \in DOMAIN r.pending
        PROVE  r.pending[k].first .. EndOf(r.pending[k]) - 1 \subseteq Nat
    BY <1>3, <2>1
  <2> QED
    BY <2>1 DEF StoredIndices
<1>6. ASSUME NEW x \in Nat, CoveredBy(r.pending, x)
      PROVE  next < x /\ x < end
  <2>1. PICK k \in DOMAIN r.pending : r.pending[k].first <= x /\ x < EndOf(r.pending[k])
    BY <1>6 DEF CoveredBy, Covers
  <2>2. PICK f \in Nat, e \in Nat : /\ f = r.pending[k].first /\ e = EndOf(r.pending[k])
                                    /\ next + 1 <= f /\ e <= Least(end, limit) /\ f <= x /\ x < e
    BY <1>2, <1>3, <2>1
  <2> QED
    BY <2>2 DEF Least
<1>7. PICK c \in Nat, q \in Nat, p \in Nat :
          /\ c = r.output.capacity /\ p = r.output.popped
          /\ BytesPushed(r.output) = p + q /\ AvailableCapacity(r.output) = c - q
          /\ r.output.eof \in BOOLEAN
  BY StreamFacts DEF Intact
<1>8. WindowEnd(r) = p + c
  BY <1>7 DEF WindowEnd, NextByteIndex
<1> QED
  BY <1>1, <1>4, <1>5, <1>6, <1>7, <1>8

(* What a read does to the output of a reassembler: it takes bytes off it   *)
(* and leaves the rest as it is, the window moves on.                       *)
ReadFrom(w, r, len, length, limit) ==
    /\ Intact(w, length, limit)
    /\ w.output.popped = Least(r.output.popped + len, NextByteIndex(r))
    /\ w.output.popped >= r.output.popped
    /\ w.output.capacity = r.output.capacity
    /\ w.output.eof = r.output.eof /\ w.output.error = r.output.error
    /\ w.last_byte = r.last_byte /\ w.pending = r.pending
    /\ NextByteIndex(w) = NextByteIndex(r)
    /\ WindowEnd(w) >= WindowEnd(r)

LEMMA ReadResult ==
    ASSUME NEW length \in Nat, NEW limit \in Nat, NEW r, Intact(r, length, limit), NEW len \in Nat
    PROVE  ReadFrom([r EXCEPT !.output = StreamPop(@, len)], r, len, length, limit)
<1>1. PICK t : t = StreamPop(r.output, len)
  OBVIOUS
<1>2. /\ StreamIntact(t) /\ t.eof = r.output.eof /\ t.capacity = r.output.capacity
      /\ t.error = r.output.error
      /\ BytesPushed(t) = BytesPushed(r.output)
      /\ t.popped = Least(r.output.popped + len, BytesPushed(r.output))
      /\ t.popped >= r.output.popped
      /\ AvailableCapacity(t) = AvailableCapacity(r.output) + (t.popped - r.output.popped)
  BY <1>1, PopResult DEF Intact
<1>3. PICK w : w = [output |-> t, last_byte |-> r.last_byte, pending |-> r.pending]
  OBVIOUS
<1>4. [r EXCEPT !.output = StreamPop(@, len)] = w
  <2>1. [r EXCEPT !.output = StreamPop(@, len)] = [r EXCEPT !.output = t]
    BY <1>1
  <2> QED
    BY <1>3, <2>1, RecordFacts
<1>5. PICK next \in Nat, end \in Nat :
          next = NextByteIndex(r) /\ end = WindowEnd(r) /\ next <= end /\ next <= limit
  BY IndexFacts
<1>6. NextByteIndex(w) = next
  BY <1>2, <1>3, <1>5 DEF NextByteIndex
<1>7. PICK e \in Int : e = WindowEnd(w) /\ e >= end
  <2>1. PICK a \in Int, p \in Nat, q \in Nat :
            /\ a = AvailableCapacity(r.output) /\ p = r.output.popped /\ q = t.popped /\ q >= p
            /\ AvailableCapacity(t) = a + (q - p)
    <3>1. \E c \in Nat, k \in Nat : AvailableCapacity(r.output) = c - k
      BY StreamFacts DEF Intact
    <3>2. r.output.popped \in Nat /\ t.popped \in Nat
      BY <1>2 DEF Intact, StreamIntact, Streams
    <3>3. AvailableCapacity(r.output) \in Int
      BY <3>1
    <3> QED
      BY <1>2, <3>2, <3>3
  <2>2. WindowEnd(w) = next + (a + (q - p)) /\ end = next + a
    BY <1>3, <1>5, <1>6, <2>1 DEF WindowEnd
  <2> QED
    BY <1>5, <2>1, <2>2
<1>8. Intact(w, length, limit)
  <2>1. Least(end, limit) <= Least(e, limit) /\ Least(end, limit) \in Int /\ Least(e, limit) \in Int
    BY <1>5, <1>7 DEF Least
  <2>2. BlocksWithin(r.pending, next + 1, Least(end, limit))
    BY <1>5 DEF Intact
  <2>3. \A k \in DOMAIN r.pending : EndOf(r.pending[k]) \in Nat
    BY <2>2, BlockFacts DEF BlocksWithin, AllInPlace
  <2>4. BlocksWithin(r.pending, next + 1, Least(e, limit))
    BY <2>1, <2>2, <2>3 DEF BlocksWithin
  <2> QED
    BY <1>2, <1>3, <1>5, <1>6, <1>7, <2>4 DEF Intact, StreamIntact
<1>9. ReadFrom(w, r, len, length, limit)
  BY <1>2, <1>3, <1>5, <1>6, <1>7, <1>8 DEF ReadFrom, NextByteIndex
<1> QED
  BY <1>4, <1>9

(* Division with remainder.                                                 *)
LEMMA DivMod ==
    ASSUME NEW M \in Int, M > 0, NEW a \in Int
    PROVE  /\ a \div M \in Int /\ (a % M) \in 0 .. M - 1
           /\ a = M * (a \div M) + (a % M)
BY SMT

(* There is only one remainder.                                             *)
LEMMA RemainderUnique ==
    ASSUME NEW M \in Int, M > 0, NEW q \in Int, NEW r \in 0 .. M - 1
    PROVE  (M * q + r) % M = r
BY SMT

(* A multiple of M that is less than M away from zero is zero.              *)
LEMMA SmallMultiple ==
    ASSUME NEW M \in Int, M > 0, NEW k \in Int, -M < M * k, M * k < M
    PROVE  k = 0
BY SMT

(* Taking the zero point off a wrapped number leaves the offset of the      *)
(* absolute number in its cycle.                                            *)
LEMMA OffsetOfWrap ==
    ASSUME NEW zp \in Seqnos, NEW m \in Absolute
    PROVE  (Wrap(m, zp) - zp) % CYCLE = m % CYCLE
<1> DEFINE a == zp + m
<1> DEFINE q == a \div CYCLE
<1> DEFINE s == m \div CYCLE
<1>1. /\ CYCLE \in Int /\ CYCLE > 0 /\ zp \in Int /\ m \in Int /\ a \in Int
  BY WrapAssumption DEF Seqnos, Absolute
<1>2. q \in Int /\ (a % CYCLE) \in 0 .. CYCLE - 1 /\ a = CYCLE * q + (a % CYCLE)
  BY <1>1, DivMod
<1>3. s \in Int /\ (m % CYCLE) \in 0 .. CYCLE - 1 /\ m = CYCLE * s + (m % CYCLE)
  BY <1>1, DivMod
<1>4. Wrap(m, zp) - zp = CYCLE * (s - q) + (m % CYCLE)
  <2>1. Wrap(m, zp) = a - CYCLE * q
    BY <1>1, <1>2 DEF Wrap
  <2>2. CYCLE * (s - q) = CYCLE * s - CYCLE * q
    BY <1>1, <1>2, <1>3
  <2> HIDE DEF q, s
  <2> QED
    BY <1>1, <1>2, <1>3, <2>1, <2>2
<1> HIDE DEF q, s
<1>5. s - q \in Int
  BY <1>2, <1>3
<1>6. (CYCLE * (s - q) + (m % CYCLE)) % CYCLE = (m % CYCLE)
  BY <1>1, <1>3, <1>5, RemainderUnique
<1> QED
  BY <1>4, <1>6

(* Two numbers less than half a cycle apart are in the same cycle or in     *)
(* neighbouring ones.                                                       *)
LEMMA NeighbouringCycles ==
    ASSUME NEW m \in Absolute, NEW c \in Absolute, 2 * Distance(m, c) < CYCLE
    PROVE  LET base(x) == x - (x % CYCLE)
           IN  base(m) \in {base(c) - CYCLE, base(c), base(c) + CYCLE}
<1> DEFINE s == m \div CYCLE
<1> DEFINE t == c \div CYCLE
<1>1. CYCLE \in Int /\ CYCLE > 0 /\ m \in Int /\ c \in Int
  BY WrapAssumption DEF Absolute
<1>2. s \in Int /\ (m % CYCLE) \in 0 .. CYCLE - 1 /\ m = CYCLE * s + (m % CYCLE)
  BY <1>1, DivMod
<1>3. t \in Int /\ (c % CYCLE) \in 0 .. CYCLE - 1 /\ c = CYCLE * t + (c % CYCLE)
  BY <1>1, DivMod
<1> HIDE DEF s, t
<1>4. -CYCLE < 2 * (m - c) /\ 2 * (m - c) < CYCLE
  BY <1>1 DEF Distance
<1>5. CYCLE * (s - t) = CYCLE * s - CYCLE * t /\ s - t \in Int
  BY <1>1, <1>2, <1>3
<1>6. -(2 * CYCLE) < CYCLE * (s - t) /\ CYCLE * (s - t) < 2 * CYCLE
  BY <1>1, <1>2, <1>3, <1>4, <1>5
<1>7. s - t \in {-1, 0, 1}
  BY <1>1, <1>5, <1>6
<1>8. CYCLE * s \in {CYCLE * t - CYCLE, CYCLE * t, CYCLE * t + CYCLE}
  BY <1>1, <1>2, <1>3, <1>5, <1>7
<1> QED
  BY <1>1, <1>2, <1>3, <1>8

(* The last cycle of the word is a whole one.                               *)
LEMMA WholeCycles ==
    ASSUME NEW c \in Absolute
    PROVE  /\ c - (c % CYCLE) \in Absolute
           /\ c - (c % CYCLE) + CYCLE <= WORD
           /\ c - (c % CYCLE) > 0 => c - (c % CYCLE) >= CYCLE
<1> DEFINE t == c \div CYCLE
<1> DEFINE w == WORD \div CYCLE
<1>1. CYCLE \in Int /\ CYCLE > 0 /\ c \in Int /\ WORD \in Int /\ 0 <= c /\ c < WORD
  BY WrapAssumption DEF Absolute
<1>2. t \in Int /\ (c % CYCLE) \in 0 .. CYCLE - 1 /\ c = CYCLE * t + (c % CYCLE)
  BY <1>1, DivMod
<1>3. w \in Int /\ WORD = CYCLE * w
  BY <1>1, DivMod, WrapAssumption
<1> HIDE DEF t, w
<1>4. CYCLE * t < CYCLE * w
  BY <1>1, <1>2, <1>3
<1>5. t < w
  BY <1>1, <1>2, <1>3, <1>4
<1>6. CYCLE * (t + 1) = CYCLE * t + CYCLE /\ CYCLE * (t + 1) <= CYCLE * w
  BY <1>1, <1>2, <1>3, <1>5
<1>7. CYCLE * t > -CYCLE
  BY <1>1, <1>2
<1>8. t > -1
  BY <1>1, <1>2, <1>7
<1>9. CYCLE * t >= 0 /\ (CYCLE * t > 0 => CYCLE * t >= CYCLE)
  BY <1>1, <1>2, <1>8
<1> QED
  BY <1>1, <1>2, <1>3, <1>6, <1>9 DEF Absolute

(* What unwrap is for: the peer gets back the absolute number that was put  *)
(* on the wire, as long as its checkpoint (the bytes that TCPReceiver has   *)
(* pushed, the next number that TCPSender will send) is less than half a    *)
(* cycle away, in either direction and across every wrap of 32 bits.        *)
THEOREM UnwrapWrap ==
    ASSUME NEW zp \in Seqnos, NEW m \in Absolute, NEW c \in Absolute,
           2 * Distance(m, c) < CYCLE
    PROVE  Unwrap(Wrap(m, zp), zp, c) = m
<1> DEFINE offset == Offset(Wrap(m, zp), zp)
<1> DEFINE base == c - (c % CYCLE)
<1>1. /\ CYCLE \in Int /\ CYCLE > 0 /\ WORD \in Int /\ WORD >= 2 * CYCLE
      /\ m \in Int /\ c \in Int /\ 0 <= m /\ m < WORD /\ 0 <= c /\ c < WORD
  BY WrapAssumption DEF Absolute
<1>2. offset = m % CYCLE /\ offset \in 0 .. CYCLE - 1
  BY <1>1, OffsetOfWrap, DivMod DEF Offset
<1>3. m - offset \in {base - CYCLE, base, base + CYCLE}
  BY <1>2, NeighbouringCycles
<1>4. (c % CYCLE) \in 0 .. CYCLE - 1 /\ base \in Int /\ 0 <= base /\ base + CYCLE <= WORD
      /\ base <= c /\ c < base + CYCLE /\ (base > 0 => base >= CYCLE)
  BY <1>1, WholeCycles, DivMod DEF Absolute
<1>5. m - offset >= 0 /\ m - offset + CYCLE <= WORD
  BY <1>2, WholeCycles DEF Absolute
<1> DEFINE candidate == base + offset
<1> DEFINE prev == IF candidate >= CYCLE THEN candidate - CYCLE ELSE WORD - CYCLE + candidate
<1> DEFINE next == (candidate + CYCLE) % WORD
<1>6. Unwrap(Wrap(m, zp), zp, c)
        = IF Distance(candidate, c) <= Distance(prev, c) /\ Distance(candidate, c) <= Distance(next, c)
          THEN candidate
          ELSE IF Distance(prev, c) <= Distance(next, c) THEN prev ELSE next
  BY DEF Unwrap, CandidatePrev
<1> HIDE DEF offset, base
<1>7. next = IF candidate + CYCLE < WORD THEN candidate + CYCLE ELSE candidate + CYCLE - WORD
  <2>1. CASE candidate + CYCLE < WORD
    <3>1. candidate + CYCLE = WORD * 0 + (candidate + CYCLE)
          /\ candidate + CYCLE \in 0 .. WORD - 1
      BY <1>1, <1>2, <1>4, <2>1
    <3> QED
      BY <1>1, <2>1, <3>1, RemainderUnique
  <2>2. CASE candidate + CYCLE >= WORD
    <3>1. candidate + CYCLE = WORD * 1 + (candidate + CYCLE - WORD)
          /\ candidate + CYCLE - WORD \in 0 .. WORD - 1
      BY <1>1, <1>2, <1>4, <2>2
    <3> QED
      BY <1>1, <2>2, <3>1, RemainderUnique
  <2> QED
    BY <1>1, <1>2, <1>4, <2>1, <2>2
<1> HIDE DEF next
<1>8. -CYCLE < 2 * (m - c) /\ 2 * (m - c) < CYCLE
  BY <1>1 DEF Distance
<1>9. CASE m = candidate
  BY <1>1, <1>2, <1>4, <1>6, <1>7, <1>8, <1>9 DEF Distance
<1>10. CASE m = candidate - CYCLE
  BY <1>1, <1>2, <1>4, <1>5, <1>6, <1>7, <1>8, <1>10 DEF Distance
<1>11. CASE m = candidate + CYCLE
  BY <1>1, <1>2, <1>4, <1>5, <1>6, <1>7, <1>8, <1>11 DEF Distance
<1> QED
  BY <1>1, <1>2, <1>3, <1>4, <1>9, <1>10, <1>11

(* Whole cycles do not change where a number lies in its cycle.             *)
LEMMA WholeCyclesVanish ==
    ASSUME NEW a \in Int, NEW k \in Int
    PROVE  (a + CYCLE * k) % CYCLE = a % CYCLE
<1> DEFINE q == a \div CYCLE
<1>1. CYCLE \in Int /\ CYCLE > 0
  BY WrapAssumption
<1>2. q \in Int /\ (a % CYCLE) \in 0 .. CYCLE - 1 /\ a = CYCLE * q + (a % CYCLE)
  BY <1>1, DivMod
<1> HIDE DEF q
<1>3. a + CYCLE * k = CYCLE * (q + k) + (a % CYCLE) /\ q + k \in Int
  <2>1. CYCLE * (q + k) = CYCLE * q + CYCLE * k
    BY <1>1, <1>2
  <2> QED
    BY <1>1, <1>2, <2>1
<1>4. (CYCLE * (q + k) + (a % CYCLE)) % CYCLE = a % CYCLE
  BY <1>1, <1>2, <1>3, RemainderUnique
<1> QED
  BY <1>3, <1>4

(* A number goes onto the wire as its offset in a cycle does.               *)
LEMMA WrapOfCycles ==
    ASSUME NEW zp \in Seqnos, NEW m \in Absolute, NEW k \in Int
    PROVE  Wrap(CYCLE * k + (m % CYCLE), zp) = Wrap(m, zp)
<1> DEFINE s == m \div CYCLE
<1>1. CYCLE \in Int /\ CYCLE > 0 /\ zp \in Int /\ m \in Int
  BY WrapAssumption DEF Seqnos, Absolute
<1>2. s \in Int /\ (m % CYCLE) \in 0 .. CYCLE - 1 /\ m = CYCLE * s + (m % CYCLE)
  BY <1>1, DivMod
<1> HIDE DEF s
<1>3. zp + (CYCLE * k + (m % CYCLE)) = (zp + m) + CYCLE * (k - s) /\ k - s \in Int
  <2>1. CYCLE * (k - s) = CYCLE * k - CYCLE * s
    BY <1>1, <1>2
  <2> QED
    BY <1>1, <1>2, <2>1
<1>4. ((zp + m) + CYCLE * (k - s)) % CYCLE = (zp + m) % CYCLE
  <2> DEFINE a == zp + m
  <2> DEFINE j == k - s
  <2>1. a \in Int /\ j \in Int
    BY <1>1, <1>3
  <2> HIDE DEF a, j
  <2>2. (a + CYCLE * j) % CYCLE = a % CYCLE
    BY <2>1, WholeCyclesVanish
  <2> QED
    BY <2>2 DEF a, j
<1> QED
  BY <1>3, <1>4 DEF Wrap

(* Wherever the checkpoint is, what unwrap returns wraps to the number on   *)
(* the wire, and no absolute number that does is nearer to the checkpoint   *)
(* (the promise of wrapping_integers.hh:19-25).                             *)
THEOREM UnwrapNearest ==
    ASSUME NEW zp \in Seqnos, NEW m \in Absolute, NEW c \in Absolute
    PROVE  LET u == Unwrap(Wrap(m, zp), zp, c)
           IN  /\ u \in Absolute /\ Wrap(u, zp) = Wrap(m, zp)
               /\ \A x \in Absolute :
                      Wrap(x, zp) = Wrap(m, zp) => Distance(u, c) <= Distance(x, c)
<1> DEFINE offset == Offset(Wrap(m, zp), zp)
<1> DEFINE base == c - (c % CYCLE)
<1> DEFINE t == c \div CYCLE
<1> DEFINE w == WORD \div CYCLE
<1>1. /\ CYCLE \in Int /\ CYCLE > 0 /\ WORD \in Int /\ WORD >= 2 * CYCLE
      /\ m \in Int /\ c \in Int /\ 0 <= c /\ c < WORD
  BY WrapAssumption DEF Absolute
<1>2. offset = m % CYCLE /\ offset \in 0 .. CYCLE - 1
  BY <1>1, OffsetOfWrap, DivMod DEF Offset
<1>3. /\ t \in Int /\ base = CYCLE * t /\ base \in Int /\ 0 <= base /\ base + CYCLE <= WORD
      /\ base <= c /\ c < base + CYCLE /\ (base > 0 => base >= CYCLE)
  BY <1>1, WholeCycles, DivMod DEF Absolute
<1>4. w \in Int /\ WORD = CYCLE * w
  BY <1>1, DivMod, WrapAssumption
<1> DEFINE candidate == base + offset
<1> DEFINE prev == IF candidate >= CYCLE THEN candidate - CYCLE ELSE WORD - CYCLE + candidate
<1> DEFINE next == (candidate + CYCLE) % WORD
<1> DEFINE u == IF Distance(candidate, c) <= Distance(prev, c) /\ Distance(candidate, c) <= Distance(next, c)
                THEN candidate
                ELSE IF Distance(prev, c) <= Distance(next, c) THEN prev ELSE next
<1>5. Unwrap(Wrap(m, zp), zp, c) = u
  BY DEF Unwrap, CandidatePrev
<1> HIDE DEF offset, base, t, w
<1>6. next = IF candidate + CYCLE < WORD THEN candidate + CYCLE ELSE candidate + CYCLE - WORD
  <2>1. CASE candidate + CYCLE < WORD
    <3>1. candidate + CYCLE = WORD * 0 + (candidate + CYCLE)
          /\ candidate + CYCLE \in 0 .. WORD - 1
      BY <1>1, <1>2, <1>3, <2>1
    <3> QED
      BY <1>1, <2>1, <3>1, RemainderUnique
  <2>2. CASE candidate + CYCLE >= WORD
    <3>1. candidate + CYCLE = WORD * 1 + (candidate + CYCLE - WORD)
          /\ candidate + CYCLE - WORD \in 0 .. WORD - 1
      BY <1>1, <1>2, <1>3, <2>2
    <3> QED
      BY <1>1, <2>2, <3>1, RemainderUnique
  <2> QED
    BY <1>1, <1>2, <1>3, <2>1, <2>2
<1> HIDE DEF next
(* Each of the three candidates is the offset in some cycle of the word.    *)
<1>7. \A v \in {candidate, prev, next} :
         v \in Absolute /\ \E k \in Int : v = CYCLE * k + (m % CYCLE)
  <2>1. /\ CYCLE * (t - 1) = CYCLE * t - CYCLE
        /\ CYCLE * (t + 1) = CYCLE * t + CYCLE
        /\ CYCLE * (t + (w - 1)) = CYCLE * t + WORD - CYCLE
        /\ CYCLE * (t + (1 - w)) = CYCLE * t + CYCLE - WORD
    <3>1. CYCLE * (t + (w - 1)) = CYCLE * t + (CYCLE * w - CYCLE)
      BY <1>1, <1>3, <1>4
    <3>2. CYCLE * (t + (1 - w)) = CYCLE * t + (CYCLE - CYCLE * w)
      BY <1>1, <1>3, <1>4
    <3>3. CYCLE * (t - 1) = CYCLE * t - CYCLE /\ CYCLE * (t + 1) = CYCLE * t + CYCLE
      BY <1>1, <1>3
    <3> QED
      BY <1>1, <1>3, <1>4, <3>1, <3>2, <3>3
  <2>2. candidate \in Absolute /\ candidate = CYCLE * t + (m % CYCLE)
    BY <1>1, <1>2, <1>3 DEF Absolute
  <2>3. prev \in Absolute /\ prev \in {CYCLE * (t - 1) + (m % CYCLE), CYCLE * (t + (w - 1)) + (m % CYCLE)}
    BY <1>1, <1>2, <1>3, <2>1, <2>2 DEF Absolute
  <2>4. next \in Absolute /\ next \in {CYCLE * (t + 1) + (m % CYCLE), CYCLE * (t + (1 - w)) + (m % CYCLE)}
    BY <1>1, <1>2, <1>3, <1>6, <2>1, <2>2 DEF Absolute
  <2>5. t - 1 \in Int /\ t + 1 \in Int /\ t + (w - 1) \in Int /\ t + (1 - w) \in Int
    BY <1>3, <1>4
  <2> HIDE DEF candidate, prev
  <2> QED
    BY <1>3, <2>2, <2>3, <2>4, <2>5
<1>8. u \in {candidate, prev, next}
  OBVIOUS
<1>9. u \in Absolute /\ Wrap(u, zp) = Wrap(m, zp)
  BY <1>7, <1>8, WrapOfCycles
<1>10. /\ Distance(u, c) <= Distance(candidate, c)
       /\ Distance(u, c) <= Distance(prev, c)
       /\ Distance(u, c) <= Distance(next, c)
  <2>1. candidate \in Int /\ prev \in Int /\ next \in Int
    BY <1>1, <1>7 DEF Absolute
  <2> HIDE DEF candidate, prev
  <2> QED
    BY <1>1, <2>1 DEF Distance
<1>11. ASSUME NEW x \in Absolute, Wrap(x, zp) = Wrap(m, zp)
       PROVE  Distance(u, c) <= Distance(x, c)
  <2> DEFINE s == x \div CYCLE
  <2>1. x \in Int /\ 0 <= x /\ x < WORD
    BY <1>1 DEF Absolute
  <2>2. x % CYCLE = m % CYCLE
    BY <1>11, OffsetOfWrap
  <2>3. s \in Int /\ x = CYCLE * s + offset
    BY <1>1, <1>2, <2>1, <2>2, DivMod
  <2> HIDE DEF s
  <2>4. x = candidate + CYCLE * (s - t) /\ s - t \in Int
    <3>1. CYCLE * (s - t) = CYCLE * s - CYCLE * t
      BY <1>1, <1>3, <2>3
    <3> QED
      BY <1>1, <1>2, <1>3, <2>3, <3>1
  <2>5. CASE s - t = 0
    <3>1. x = candidate
      BY <1>1, <1>2, <1>3, <2>4, <2>5
    <3> QED
      BY <1>10, <3>1
  <2>6. CASE s - t = -1
    <3>1. x = candidate - CYCLE
      BY <1>1, <1>2, <1>3, <2>4, <2>6
    <3>2. x = prev
      BY <1>1, <1>2, <1>3, <2>1, <3>1
    <3> QED
      BY <1>10, <3>2
  <2>7. CASE s - t = 1
    <3>1. x = candidate + CYCLE
      BY <1>1, <1>2, <1>3, <2>4, <2>7
    <3>2. x = next
      BY <1>1, <1>2, <1>3, <1>6, <2>1, <3>1
    <3> QED
      BY <1>10, <3>2
  <2>8. CASE s - t >= 2 \/ s - t <= -2
    <3>1. CYCLE * (s - t) >= 2 * CYCLE \/ CYCLE * (s - t) <= -(2 * CYCLE)
      BY <1>1, <2>4, <2>8
    <3>2. Distance(candidate, c) <= Distance(x, c)
      BY <1>1, <1>2, <1>3, <2>1, <2>4, <3>1 DEF Distance
    <3>3. Distance(u, c) \in Int /\ Distance(candidate, c) \in Int /\ Distance(x, c) \in Int
      BY <1>1, <1>2, <1>3, <1>9, <2>1 DEF Distance, Absolute
    <3> QED
      BY <1>10, <3>2, <3>3
  <2> QED
    BY <2>4, <2>5, <2>6, <2>7, <2>8
<1> QED
  BY <1>5, <1>9, <1>11

-----------------------------------------------------------------------------
SenderMessages == [seqno : Seqnos, SYN : BOOLEAN, payload : Seq(Nat), FIN : BOOLEAN, RST : BOOLEAN]

Senders ==
    [input : Streams(Nat), isn : Seqnos, next_seqno : Seqnos, last_ackno : Seqnos,
     current_RTO : Nat, sender_syn : BOOLEAN, fin_sent : BOOLEAN, window_size : Nat,
     timer_running : BOOLEAN, timer_elapsed : Nat, consecutive_retrans_count : Nat,
     outstanding : Seq(SenderMessages)]

(* The longest stream all of whose sequence numbers, SYN and FIN too, lie    *)
(* within half a cycle of the ISN, as receive needs to tell where           *)
(* next_seqno_ is (it unwraps it with checkpoint 0).                        *)
Longest == (CYCLE - 5) \div 2

LEMMA LongestFacts ==
    /\ Longest \in Int /\ 2 * (Longest + 2) < CYCLE
    /\ \A n \in Nat : 2 * (n + 2) < CYCLE => n <= Longest
<1>1. PICK c \in Nat : c = CYCLE
  BY WrapAssumption
<1>2. PICK d \in Int : d = (c - 5) \div 2 /\ 2 * d <= c - 5 /\ c - 5 <= 2 * d + 1
  OBVIOUS
<1>3. ASSUME NEW n \in Nat, 2 * (n + 2) < c
      PROVE  n <= d
  BY <1>2, <1>3
<1> QED
  BY <1>1, <1>2, <1>3 DEF Longest

-----------------------------------------------------------------------------
(* A segment that holds what belongs at absolute sequence number a.         *)
FromStream(seg, a, isn) ==
    /\ seg \in SenderMessages /\ ~seg.RST
    /\ seg.seqno = Wrap(a, isn)
    /\ seg.SYN <=> a = 0
    /\ seg.payload = Bytes(a + Flag(seg.SYN) - 1, Len(seg.payload))
    /\ SequenceLength(seg) > 0

(* Segments that follow each other, the k-th from st[k] to st[k + 1].       *)
Chain(out, st, isn) ==
    /\ out \in Seq(SenderMessages)
    /\ st \in [1 .. Len(out) + 1 -> Nat]
    /\ \A k \in 1 .. Len(out) :
           FromStream(out[k], st[k], isn) /\ st[k + 1] = st[k] + SequenceLength(out[k])

(* The FIN is in the last one, once it has been sent.                       *)
FinIsLast(out, fin) == \A k \in 1 .. Len(out) : out[k].FIN <=> (fin /\ k = Len(out))

-----------------------------------------------------------------------------
(* A segment takes as many sequence numbers as it has bytes and flags.      *)
LEMMA LengthType ==
    ASSUME NEW seg \in SenderMessages
    PROVE  /\ Len(seg.payload) \in Nat /\ Flag(seg.SYN) \in 0 .. 1 /\ Flag(seg.FIN) \in 0 .. 1
           /\ SequenceLength(seg) = Flag(seg.SYN) + Len(seg.payload) + Flag(seg.FIN)
           /\ SequenceLength(seg) \in Nat
<1>1. Len(seg.payload) \in Nat
  BY LenProperties DEF SenderMessages
<1>2. Flag(seg.SYN) \in 0 .. 1 /\ Flag(seg.FIN) \in 0 .. 1
  BY DEF Flag
<1> QED
  BY <1>1, <1>2 DEF SequenceLength

(* A row of numbers that grows at each step grows.                          *)
LEMMA StepsUp ==
    ASSUME NEW n \in Nat, NEW st \in [1 .. n + 1 -> Nat],
           \A k \in 1 .. n : st[k] < st[k + 1]
    PROVE  \A i, j \in 1 .. n + 1 : i < j => st[i] < st[j]
<1> DEFINE T == {d \in Nat : \A i \in 1 .. n + 1 : i + d + 1 <= n + 1 => st[i] < st[i + d + 1]}
<1>1. 0 \in T
  <2>1. ASSUME NEW i \in 1 .. n + 1, i + 0 + 1 <= n + 1
        PROVE  st[i] < st[i + 0 + 1]
    <3>1. i \in 1 .. n /\ i + 0 + 1 = i + 1
      BY <2>1
    <3> QED
      BY <3>1
  <2> QED
    BY <2>1
<1>2. ASSUME NEW d \in T
      PROVE  d + 1 \in T
  <2>1. d \in Nat /\ d + 1 \in Nat
    OBVIOUS
  <2>2. ASSUME NEW i \in 1 .. n + 1, i + (d + 1) + 1 <= n + 1
        PROVE  st[i] < st[i + (d + 1) + 1]
    <3>1. PICK j \in 1 .. n : j = i + d + 1
      BY <2>1, <2>2
    <3>2. j + 1 = i + (d + 1) + 1 /\ j + 1 \in 1 .. n + 1 /\ j \in 1 .. n + 1 /\ j <= n + 1
      BY <2>1, <3>1
    <3>3. st[i] < st[j]
      BY <2>1, <2>2, <3>1, <3>2
    <3>4. st[j] < st[j + 1]
      BY <3>1
    <3>5. PICK x \in Nat, y \in Nat, z \in Nat : x = st[i] /\ y = st[j] /\ z = st[j + 1]
      BY <3>2
    <3>6. x < z
      BY <3>3, <3>4, <3>5
    <3> QED
      BY <3>2, <3>5, <3>6
  <2> QED
    BY <2>1, <2>2, Zenon
<1>3. T = Nat
  <2> HIDE DEF T
  <2> QED
    BY <1>1, <1>2, NatSetInduction DEF T
<1>4. ASSUME NEW i \in 1 .. n + 1, NEW j \in 1 .. n + 1, i < j
      PROVE  st[i] < st[j]
  <2>1. PICK d \in Nat : j = i + d + 1
    <3>1. j - i - 1 \in Nat /\ j = i + (j - i - 1) + 1
      BY <1>4
    <3> QED
      BY <3>1
  <2>2. d \in T
    <3> HIDE DEF T
    <3> QED
      BY <1>3, <2>1
  <2>3. i + d + 1 <= n + 1
    BY <2>1
  <2> QED
    BY <2>1, <2>2, <2>3
<1> QED
  BY <1>4

(* Where the segments of a chain begin and end.                             *)
LEMMA ChainFacts ==
    ASSUME NEW out, NEW st, NEW isn, Chain(out, st, isn)
    PROVE  /\ Len(out) \in Nat /\ DOMAIN out = 1 .. Len(out) /\ (Len(out) = 0 <=> out = <<>>)
           /\ \A k \in 1 .. Len(out) + 1 : st[k] \in Nat
           /\ \A k \in 1 .. Len(out) :
                  /\ out[k] \in SenderMessages /\ SequenceLength(out[k]) \in Nat
                  /\ st[k + 1] = st[k] + SequenceLength(out[k]) /\ st[k] < st[k + 1]
           /\ \A i, j \in 1 .. Len(out) + 1 : i < j => st[i] < st[j]
<1>1. out \in Seq(SenderMessages) /\ st \in [1 .. Len(out) + 1 -> Nat]
  BY DEF Chain
<1>2. PICK n \in Nat : n = Len(out)
  BY <1>1, LenProperties
<1>3. ASSUME NEW k \in 1 .. n
      PROVE  /\ out[k] \in SenderMessages /\ SequenceLength(out[k]) \in Nat
             /\ st[k + 1] = st[k] + SequenceLength(out[k]) /\ st[k] < st[k + 1]
  <2>1. /\ out[k] \in SenderMessages /\ SequenceLength(out[k]) > 0
        /\ st[k + 1] = st[k] + SequenceLength(out[k])
    BY <1>2 DEF Chain, FromStream
  <2>2. SequenceLength(out[k]) \in Nat
    BY <2>1, LengthType
  <2>3. st[k] \in Nat
    BY <1>1, <1>2
  <2> HIDE DEF SequenceLength
  <2> QED
    BY <2>1, <2>2, <2>3
<1>4. st \in [1 .. n + 1 -> Nat]
  BY <1>1, <1>2
<1>5. \A i, j \in 1 .. n + 1 : i < j => st[i] < st[j]
  BY <1>3, <1>4, StepsUp
<1>6. DOMAIN out = 1 .. n /\ (n = 0 <=> out = <<>>)
  BY <1>1, <1>2, LenProperties, EmptySeq
<1> QED
  BY <1>2, <1>3, <1>4, <1>5, <1>6

(* How many sequence numbers the segments from the k-th on take.            *)
LEMMA ChainSum ==
    ASSUME NEW out, NEW st, NEW isn, Chain(out, st, isn), NEW k \in 1 .. Len(out) + 1
    PROVE  SumFunctionOnSet([j \in DOMAIN out |-> SequenceLength(out[j])], k .. Len(out))
               = st[Len(out) + 1] - st[k]
<1> DEFINE f == [j \in DOMAIN out |-> SequenceLength(out[j])]
<1>1. PICK n \in Nat : n = Len(out) /\ DOMAIN out = 1 .. n
  BY ChainFacts
<1>2. ASSUME NEW i \in k .. n
      PROVE  f[i] = st[i + 1] - st[i]
  <2>1. i \in 1 .. n
    BY <1>1
  <2>2. /\ SequenceLength(out[i]) \in Nat /\ st[i] \in Nat
        /\ st[i + 1] = st[i] + SequenceLength(out[i])
    BY <1>1, <2>1, ChainFacts, SMTT(30)
  <2>3. f[i] = SequenceLength(out[i])
    BY <1>1, <2>1
  <2> HIDE DEF f
  <2> QED
    BY <2>2, <2>3
<1>3. \A i \in k .. n + 1 : st[i] \in Int
  BY <1>1, ChainFacts
<1>4. k \in Int /\ n \in Int /\ k <= n + 1
  BY <1>1
<1> HIDE DEF f
<1>5. SumFunctionOnSet(f, k .. n) = st[n + 1] - st[k]
  BY <1>2, <1>3, <1>4, SumTelescopes
<1> QED
  BY <1>1, <1>5 DEF f

(* A chain goes on where another one begins.                                *)
Joins(all, a, s, b, t, isn) ==
    /\ Len(all) = Len(a) + Len(b)
    /\ \A k \in 1 .. Len(a) + Len(b) : all[k] = IF k <= Len(a) THEN a[k] ELSE b[k - Len(a)]
    /\ \E st : /\ Chain(all, st, isn) /\ st[1] = s[1]
               /\ st[Len(all) + 1] = t[Len(b) + 1]
               /\ Len(a) > 0 => st[2] = s[2]

LEMMA ChainJoin ==
    ASSUME NEW isn, NEW a, NEW s, Chain(a, s, isn), NEW b, NEW t, Chain(b, t, isn),
           s[Len(a) + 1] = t[1]
    PROVE  Joins(a \o b, a, s, b, t, isn)
<1>1. PICK n \in Nat, m \in Nat : n = Len(a) /\ m = Len(b)
  BY ChainFacts
<1>2. a \in Seq(SenderMessages) /\ b \in Seq(SenderMessages)
  BY DEF Chain
<1>3. PICK out : out = a \o b
  OBVIOUS
<1>4. /\ out \in Seq(SenderMessages) /\ Len(out) = n + m
      /\ \A k \in 1 .. n + m : out[k] = IF k <= n THEN a[k] ELSE b[k - n]
  BY <1>1, <1>2, <1>3, ConcatProperties
<1>5. /\ \A k \in 1 .. n + 1 : s[k] \in Nat
      /\ \A k \in 1 .. m + 1 : t[k] \in Nat
  BY <1>1, ChainFacts
<1>6. PICK st : st = [k \in 1 .. n + m + 1 |-> IF k <= n THEN s[k] ELSE t[k - n]]
  OBVIOUS
<1>7. \A k \in 1 .. n + m + 1 : st[k] = (IF k <= n THEN s[k] ELSE t[k - n]) /\ st[k] \in Nat
  <2>1. ASSUME NEW k \in 1 .. n + m + 1
        PROVE  k <= n => k \in 1 .. n + 1
    OBVIOUS
  <2>2. ASSUME NEW k \in 1 .. n + m + 1, k > n
        PROVE  k - n \in 1 .. m + 1
    BY <2>2
  <2> QED
    BY <1>5, <1>6, <2>1, <2>2
<1>8. ASSUME NEW k \in 1 .. n + m
      PROVE  FromStream(out[k], st[k], isn) /\ st[k + 1] = st[k] + SequenceLength(out[k])
  <2>1. k \in 1 .. n + m + 1 /\ k + 1 \in 1 .. n + m + 1
    OBVIOUS
  <2>2. CASE k < n
    <3>1. k \in 1 .. n /\ k + 1 <= n
      BY <2>2
    <3>2. FromStream(a[k], s[k], isn) /\ s[k + 1] = s[k] + SequenceLength(a[k])
      BY <1>1, <3>1 DEF Chain
    <3>3. out[k] = a[k] /\ st[k] = s[k] /\ st[k + 1] = s[k + 1]
      BY <1>4, <1>7, <2>1, <3>1
    <3> QED
      BY <3>2, <3>3, Zenon
  <2>3. CASE k = n
    <3>1. k \in 1 .. n /\ ~(k + 1 <= n) /\ (k + 1) - n = 1
      BY <2>3
    <3>2. FromStream(a[k], s[k], isn) /\ s[k + 1] = s[k] + SequenceLength(a[k])
      BY <1>1, <3>1 DEF Chain
    <3>3. out[k] = a[k] /\ st[k] = s[k]
      BY <1>4, <1>7, <2>1, <3>1
    <3>4. st[k + 1] = t[1]
      BY <1>7, <2>1, <3>1
    <3>5. t[1] = s[k + 1]
      BY <1>1, <2>3
    <3> QED
      BY <3>2, <3>3, <3>4, <3>5, Zenon
  <2>4. CASE k > n
    <3>1. k - n \in 1 .. m /\ ~(k <= n) /\ ~(k + 1 <= n) /\ (k + 1) - n = (k - n) + 1
      BY <2>4
    <3>2. FromStream(b[k - n], t[k - n], isn) /\ t[(k - n) + 1] = t[k - n] + SequenceLength(b[k - n])
      BY <1>1, <3>1 DEF Chain
    <3>3. out[k] = b[k - n] /\ st[k] = t[k - n]
      BY <1>4, <1>7, <2>1, <3>1
    <3>4. st[k + 1] = t[(k - n) + 1]
      BY <1>7, <2>1, <3>1
    <3> QED
      BY <3>2, <3>3, <3>4, Zenon
  <2> QED
    BY <2>2, <2>3, <2>4
<1>9. st \in [1 .. n + m + 1 -> Nat]
  BY <1>6, <1>7
<1>10. Chain(out, st, isn)
  BY <1>4, <1>8, <1>9 DEF Chain
<1>11. st[1] = s[1]
  <2>1. CASE n = 0
    <3>1. s[1] = t[1]
      <4>1. n + 1 = 1
        BY <2>1
      <4> QED
        BY <1>1, <4>1
    <3>2. 1 \in 1 .. n + m + 1 /\ ~(1 <= n) /\ 1 - n = 1
      BY <2>1
    <3> QED
      BY <1>7, <3>1, <3>2
  <2>2. CASE n > 0
    BY <1>7, <2>2
  <2> QED
    BY <2>1, <2>2
<1>12. st[n + m + 1] = t[m + 1]
  <2>1. n + m + 1 \in 1 .. n + m + 1 /\ ~(n + m + 1 <= n) /\ (n + m + 1) - n = m + 1
    OBVIOUS
  <2> QED
    BY <1>7, <2>1
<1>13. ASSUME n > 0
       PROVE  st[2] = s[2]
  <2>1. CASE n = 1
    <3>1. s[2] = t[1]
      <4>1. n + 1 = 2
        BY <2>1
      <4> QED
        BY <1>1, <4>1
    <3>2. 2 \in 1 .. n + m + 1 /\ ~(2 <= n) /\ 2 - n = 1
      BY <2>1
    <3> QED
      BY <1>7, <3>1, <3>2
  <2>2. CASE n > 1
    BY <1>7, <2>2
  <2> QED
    BY <1>13, <2>1, <2>2
<1> QED
  BY <1>1, <1>3, <1>4, <1>10, <1>11, <1>12, <1>13 DEF Joins

(* What is left of a chain without its first n segments.                    *)
LEMMA ChainDrop ==
    ASSUME NEW isn, NEW out, NEW st, Chain(out, st, isn), NEW n \in 0 .. Len(out)
    PROVE  LET rest == SubSeq(out, n + 1, Len(out))
           IN  /\ Len(rest) = Len(out) - n
               /\ \A k \in 1 .. Len(out) - n : rest[k] = out[n + k]
               /\ Chain(rest, [k \in 1 .. Len(out) - n + 1 |-> st[n + k]], isn)
<1>1. PICK l \in Nat : l = Len(out) /\ n \in Nat /\ n <= l
  BY ChainFacts
<1>2. PICK rest : rest = SubSeq(out, n + 1, l)
  OBVIOUS
<1>3. \A i \in n + 1 .. l : out[i] \in SenderMessages
  BY <1>1, ChainFacts
<1>4. n + 1 \in Int /\ l \in Int
  BY <1>1
<1>5. /\ rest \in Seq(SenderMessages)
      /\ Len(rest) = IF n + 1 <= l THEN l - (n + 1) + 1 ELSE 0
      /\ \A i \in 1 .. l - (n + 1) + 1 : rest[i] = out[(n + 1) + i - 1]
  BY <1>2, <1>3, <1>4, SubSeqProperties
<1>6. Len(rest) = l - n
  BY <1>1, <1>5
<1>7. \A k \in 1 .. l - n : rest[k] = out[n + k]
  <2>1. ASSUME NEW k \in 1 .. l - n
        PROVE  rest[k] = out[n + k]
    <3>1. k \in 1 .. l - (n + 1) + 1 /\ (n + 1) + k - 1 = n + k
      BY <1>1
    <3> QED
      BY <1>5, <3>1
  <2> QED
    BY <2>1
<1>8. PICK t : t = [k \in 1 .. l - n + 1 |-> st[n + k]]
  OBVIOUS
<1>9. \A k \in 1 .. l + 1 : st[k] \in Nat
  BY <1>1, ChainFacts
<1>10. t \in [1 .. (l - n) + 1 -> Nat]
  <2>1. ASSUME NEW k \in 1 .. l - n + 1
        PROVE  n + k \in 1 .. l + 1
    BY <1>1
  <2> QED
    BY <1>1, <1>8, <1>9, <2>1
<1>11. ASSUME NEW k \in 1 .. l - n
       PROVE  FromStream(rest[k], t[k], isn) /\ t[k + 1] = t[k] + SequenceLength(rest[k])
  <2>1. /\ n + k \in 1 .. l /\ k \in 1 .. l - n + 1 /\ k + 1 \in 1 .. l - n + 1
        /\ n + (k + 1) = (n + k) + 1
    BY <1>1
  <2>2. /\ FromStream(out[n + k], st[n + k], isn)
        /\ st[(n + k) + 1] = st[n + k] + SequenceLength(out[n + k])
    BY <1>1, <2>1 DEF Chain
  <2>3. rest[k] = out[n + k] /\ t[k] = st[n + k] /\ t[k + 1] = st[(n + k) + 1]
    BY <1>7, <1>8, <2>1
  <2> QED
    BY <2>2, <2>3, Zenon
<1>12. Chain(rest, t, isn)
  BY <1>5, <1>6, <1>10, <1>11 DEF Chain
<1> QED
  BY <1>1, <1>2, <1>6, <1>7, <1>8, <1>12

-----------------------------------------------------------------------------
(* The ISN is number 0.                                                     *)
LEMMA WrapNothing ==
    ASSUME NEW isn \in Seqnos
    PROVE  isn = Wrap(0, isn)
<1>1. isn + 0 = isn /\ isn \in 0 .. CYCLE - 1 /\ CYCLE \in Int /\ CYCLE > 0
  BY WrapAssumption DEF Seqnos
<1>2. isn % CYCLE = isn
  BY <1>1
<1> QED
  BY <1>1, <1>2 DEF Wrap

(* A wrapped number counted on is the number counted on and wrapped.        *)
LEMMA WrapOn ==
    ASSUME NEW isn \in Seqnos, NEW a \in Int, NEW b \in Int
    PROVE  Wrap(a, isn) \in Seqnos /\ Wrap(b, Wrap(a, isn)) = Wrap(a + b, isn)
<1> DEFINE x == isn + a
<1> DEFINE q == x \div CYCLE
<1>1. CYCLE \in Int /\ CYCLE > 0 /\ isn \in Int /\ x \in Int
  BY WrapAssumption DEF Seqnos
<1>2. q \in Int /\ (x % CYCLE) \in 0 .. CYCLE - 1 /\ x = CYCLE * q + (x % CYCLE)
  BY <1>1, DivMod
<1>3. Wrap(a, isn) = x % CYCLE
  BY DEF Wrap
<1>4. Wrap(a + b, isn) = (x + b) % CYCLE
  <2>1. isn + (a + b) = x + b
    BY <1>1
  <2> QED
    BY <2>1 DEF Wrap
<1> HIDE DEF q, x
<1>5. (x % CYCLE) + b = (x + b) + CYCLE * (-q)
  BY <1>1, <1>2
<1>6. ((x + b) + CYCLE * (-q)) % CYCLE = (x + b) % CYCLE
  <2>1. x + b \in Int /\ -q \in Int
    BY <1>1, <1>2
  <2> QED
    BY <2>1, WholeCyclesVanish
<1>7. Wrap(b, Wrap(a, isn)) = ((x % CYCLE) + b) % CYCLE
  BY <1>3 DEF Wrap
<1> QED
  BY <1>2, <1>3, <1>4, <1>5, <1>6, <1>7 DEF Seqnos

(* What receive makes of the sequence numbers of its acknos and segments.   *)
LEMMA AbsFacts ==
    ASSUME Longest \in Nat, NEW s, s.isn \in Seqnos, NEW next \in 0 .. Longest + 2,
           s.next_seqno = Wrap(next, s.isn)
    PROVE  /\ AbsNextSeqno(s) = next
           /\ \A m \in 0 .. next + 1 : Abs(s, Wrap(m, s.isn)) = m
<1>1. PICK c \in Nat, w \in Nat, b \in Nat :
          c = CYCLE /\ w = WORD /\ b = Longest /\ w >= 2 * c /\ 2 * (b + 2) < c
  BY WrapAssumption, LongestFacts
<1>2. ASSUME NEW m \in 0 .. b + 3
      PROVE  m \in Absolute
  BY <1>1 DEF Absolute
<1>3. next \in Absolute /\ 0 \in Absolute /\ next \in 0 .. b + 2
  BY <1>1, <1>2
<1>4. 2 * Distance(next, 0) < CYCLE
  BY <1>1, <1>3 DEF Distance
<1>5. AbsNextSeqno(s) = next
  BY <1>3, <1>4, UnwrapWrap DEF AbsNextSeqno
<1>6. ASSUME NEW m \in 0 .. next + 1
      PROVE  Abs(s, Wrap(m, s.isn)) = m
  <2>1. m \in Absolute
    BY <1>2, <1>3
  <2>2. 2 * Distance(m, next) < CYCLE
    BY <1>1, <1>3 DEF Distance
  <2> QED
    BY <1>3, <1>5, <2>1, <2>2, UnwrapWrap DEF Abs
<1> QED
  BY <1>5, <1>6

(* The outstanding segments of a sender that will send next as number next. *)
Sent(s, next, st) ==
    /\ s.isn \in Seqnos
    /\ s.next_seqno = Wrap(next, s.isn)
    /\ Chain(s.outstanding, st, s.isn)
    /\ st[Len(s.outstanding) + 1] = next

(* An ackno covers the segments that end at it or before.                   *)
LEMMA FullyAckedResult ==
    ASSUME Longest \in Nat,
           NEW s, NEW next \in 0 .. Longest + 2, NEW st, Sent(s, next, st),
           NEW a \in 0 .. next, NEW k \in 1 .. Len(s.outstanding)
    PROVE  FullyAcked(s, s.outstanding[k], Wrap(a, s.isn)) <=> st[k + 1] <= a
<1> DEFINE seg == s.outstanding[k]
<1>1. PICK n \in Nat : n = Len(s.outstanding) /\ k \in 1 .. n
  BY ChainFacts DEF Sent
<1>2. PICK x \in Nat, y \in Nat : x = st[k] /\ y = st[k + 1] /\ x <= next
  <2>1. k \in 1 .. n + 1 /\ k + 1 \in 1 .. n + 1 /\ n + 1 \in 1 .. n + 1 /\ k < n + 1
    BY <1>1
  <2>2. st[k] \in Nat /\ st[k + 1] \in Nat /\ st[k] < st[n + 1]
    BY <1>1, <2>1, ChainFacts DEF Sent
  <2>3. st[n + 1] = next
    BY <1>1 DEF Sent
  <2> QED
    BY <2>2, <2>3
<1>3. seg.seqno = Wrap(x, s.isn) /\ y = x + SequenceLength(seg)
  BY <1>1, <1>2 DEF Sent, Chain, FromStream
<1>4. Abs(s, Wrap(x, s.isn)) = x /\ Abs(s, Wrap(a, s.isn)) = a
  <2>1. x \in 0 .. next + 1 /\ a \in 0 .. next + 1
    BY <1>2
  <2> QED
    BY <2>1, AbsFacts DEF Sent
<1> QED
  BY <1>2, <1>3, <1>4 DEF FullyAcked

(* What receive leaves outstanding is a chain without its first segments:   *)
(* those that end at the ackno or before.                                   *)
LEMMA UnackedResult ==
    ASSUME Longest \in Nat,
           NEW s, NEW next \in 0 .. Longest + 2, NEW st, Sent(s, next, st),
           NEW a \in 0 .. next
    PROVE  \E n \in 0 .. Len(s.outstanding) :
               /\ Unacked(s, Wrap(a, s.isn)) = SubSeq(s.outstanding, n + 1, Len(s.outstanding))
               /\ \A k \in 1 .. n : st[k + 1] <= a
               /\ \A k \in n + 1 .. Len(s.outstanding) : a < st[k + 1]
<1>1. PICK out : out = s.outstanding /\ out \in Seq(SenderMessages)
  BY DEF Sent, Chain
<1>2. PICK l \in Nat : l = Len(out) /\ \A k \in 1 .. l : out[k] \in SenderMessages
  BY <1>1, ChainFacts DEF Sent
<1>3. PICK ackno : ackno = Wrap(a, s.isn)
  OBVIOUS
<1>4. \A k \in 1 .. l : FullyAcked(s, out[k], ackno) <=> st[k + 1] <= a
  BY <1>1, <1>2, <1>3, FullyAckedResult
<1>5. \A i, j \in 1 .. l + 1 : st[i] \in Nat /\ (i < j => st[i] < st[j])
  BY <1>1, <1>2, ChainFacts DEF Sent
<1> DEFINE Leaves(g) == g = [k \in 0 .. l |-> IF k = 0 THEN <<>>
                                ELSE IF FullyAcked(s, out[k], ackno) THEN g[k - 1]
                                ELSE Append(g[k - 1], out[k])]
<1>6. \E g : Leaves(g)
  <2> DEFINE X == Seq(SenderMessages)
  <2> DEFINE step == [k \in 1 .. l |-> [x \in X |->
                         IF FullyAcked(s, out[k], ackno) THEN x ELSE Append(x, out[k])]]
  <2>1. \A k \in 1 .. l : \A x \in X : Append(x, out[k]) \in X
    BY <1>2, AppendProperties
  <2>2. <<>> \in X
    OBVIOUS
  <2>3. step \in [1 .. l -> [X -> X]]
    <3> HIDE DEF X
    <3> QED
      BY <2>1
  <2>4. \A k \in 1 .. l : \A x \in X :
            step[k][x] = IF FullyAcked(s, out[k], ackno) THEN x ELSE Append(x, out[k])
    OBVIOUS
  <2> HIDE DEF X, step
  <2>5. PICK g \in [0 .. l -> X] : g[0] = <<>> /\ \A k \in 1 .. l : g[k] = step[k][g[k - 1]]
    <3>1. \E g \in [0 .. l -> X] : GoesBy(g, l, <<>>, step)
      BY <2>2, <2>3, RecursionOnInterval
    <3> QED
      BY <3>1 DEF GoesBy
  <2>6. ASSUME NEW k \in 0 .. l
        PROVE  g[k] = IF k = 0 THEN <<>>
                      ELSE IF FullyAcked(s, out[k], ackno) THEN g[k - 1]
                      ELSE Append(g[k - 1], out[k])
    <3>1. CASE k = 0
      BY <2>5, <3>1
    <3>2. CASE k # 0
      <4>1. k \in 1 .. l /\ k - 1 \in 0 .. l
        BY <3>2
      <4>2. g[k - 1] \in X
        BY <4>1
      <4>3. g[k] = step[k][g[k - 1]]
        BY <2>5, <4>1
      <4> QED
        BY <2>4, <3>2, <4>1, <4>2, <4>3, Zenon
    <3> QED
      BY <3>1, <3>2
  <2> QED
    BY <2>6
<1> DEFINE left == CHOOSE g : Leaves(g)
<1>7. Leaves(left)
  <2> HIDE DEF Leaves
  <2> QED
    BY <1>6
<1>8. Unacked(s, ackno) = left[l]
  BY <1>1, <1>2 DEF Unacked
<1> HIDE DEF left
<1> DEFINE Splits(n, k) ==
             /\ left[k] = SubSeq(out, n + 1, k)
             /\ \A j \in 1 .. n : st[j + 1] <= a
             /\ \A j \in n + 1 .. k : a < st[j + 1]
<1> DEFINE T == {k \in Nat : k <= l => \E n \in 0 .. k : Splits(n, k)}
<1>9. 0 \in T
  <2>1. left[0] = <<>> /\ SubSeq(out, 0 + 1, 0) = <<>>
    BY <1>7, SubSeqEmpty
  <2>2. Splits(0, 0)
    BY <2>1
  <2> HIDE DEF Splits
  <2> QED
    BY <2>2
<1>10. ASSUME NEW k \in T
       PROVE  k + 1 \in T
  <2>1. k \in Nat /\ k + 1 \in Nat
    OBVIOUS
  <2>2. ASSUME k + 1 <= l
        PROVE  \E n \in 0 .. k + 1 : Splits(n, k + 1)
    <3>1. PICK n \in 0 .. k : Splits(n, k)
      BY <2>1, <2>2
    <3>2. /\ k + 1 \in 1 .. l /\ k + 1 \in 0 .. l /\ k + 1 # 0 /\ (k + 1) - 1 = k
          /\ (k + 1) + 1 \in 1 .. l + 1
      BY <2>1, <2>2
    <3>3. left[k + 1] = IF FullyAcked(s, out[k + 1], ackno) THEN left[k]
                        ELSE Append(left[k], out[k + 1])
      BY <1>7, <3>2
    <3>4. CASE st[(k + 1) + 1] <= a
      <4>1. ASSUME NEW j \in 1 .. k + 1
            PROVE  st[j + 1] <= a
        <5>1. j + 1 \in 1 .. l + 1 /\ (j = k + 1 \/ j + 1 < (k + 1) + 1)
          BY <2>1, <2>2
        <5>2. PICK x \in Nat, y \in Nat : x = st[j + 1] /\ y = st[(k + 1) + 1]
          BY <1>5, <3>2, <5>1
        <5>3. j = k + 1 \/ x < y
          BY <1>5, <3>2, <5>1, <5>2
        <5> QED
          BY <3>4, <5>2, <5>3
      <4>2. n = k
        <5>1. CASE n < k
          <6>1. k \in n + 1 .. k /\ k \in 1 .. k + 1
            BY <5>1
          <6>2. a < st[k + 1] /\ st[k + 1] <= a
            BY <3>1, <4>1, <6>1
          <6>3. k + 1 \in 1 .. l + 1
            BY <2>1, <2>2
          <6>4. st[k + 1] \in Nat
            BY <1>5, <6>3
          <6> QED
            BY <6>2, <6>4
        <5> QED
          BY <2>1, <5>1
      <4>3. left[k + 1] = SubSeq(out, (k + 1) + 1, k + 1)
        <5>1. left[k + 1] = left[k]
          BY <1>4, <3>2, <3>3, <3>4
        <5>2. left[k] = SubSeq(out, k + 1, k)
          BY <3>1, <4>2
        <5>3. SubSeq(out, k + 1, k) = <<>> /\ SubSeq(out, (k + 1) + 1, k + 1) = <<>>
          BY <2>1, SubSeqEmpty
        <5> QED
          BY <5>1, <5>2, <5>3
      <4>4. (k + 1) + 1 .. k + 1 = {}
        BY <2>1
      <4>5. Splits(k + 1, k + 1)
        BY <4>1, <4>3, <4>4
      <4> QED
        BY <2>1, <4>5
    <3>5. CASE ~(st[(k + 1) + 1] <= a)
      <4>1. left[k + 1] = SubSeq(out, n + 1, k + 1)
        <5>1. left[k + 1] = Append(SubSeq(out, n + 1, k), out[k + 1])
          BY <1>4, <3>1, <3>2, <3>3, <3>5
        <5>2. n + 1 \in 1 .. l /\ k + 1 \in n + 1 .. l /\ (k + 1) - 1 = k
          BY <2>1, <2>2
        <5>3. SubSeq(out, n + 1, k + 1) = SubSeq(out, n + 1, k) \o <<out[k + 1]>>
          BY <1>1, <1>2, <5>2, SubSeqRecursiveSecond
        <5>4. SubSeq(out, n + 1, k) \in Seq(SenderMessages)
          <6>1. \A i \in n + 1 .. k : out[i] \in SenderMessages
            BY <1>2, <2>1, <2>2
          <6>2. n + 1 \in Int /\ k \in Int
            BY <2>1
          <6> QED
            BY <6>1, <6>2, SubSeqProperties
        <5>5. SubSeq(out, n + 1, k) \o <<out[k + 1]>> = Append(SubSeq(out, n + 1, k), out[k + 1])
          BY <1>2, <3>2, <5>4, AppendIsConcat
        <5> QED
          BY <5>1, <5>3, <5>5
      <4>2. ASSUME NEW j \in n + 1 .. k + 1
            PROVE  a < st[j + 1]
        <5>1. CASE j = k + 1
          <6>1. st[(k + 1) + 1] \in Nat
            BY <1>5, <3>2
          <6> QED
            BY <3>5, <5>1, <6>1
        <5>2. CASE j # k + 1
          <6>1. j \in n + 1 .. k
            BY <2>1, <5>2
          <6> QED
            BY <3>1, <6>1
        <5> QED
          BY <5>1, <5>2
      <4>3. Splits(n, k + 1)
        BY <3>1, <4>1, <4>2
      <4>4. n \in 0 .. k + 1
        BY <2>1
      <4> QED
        BY <4>3, <4>4
    <3> QED
      BY <3>4, <3>5
  <2> HIDE DEF Splits
  <2> QED
    BY <2>1, <2>2, Zenon
<1>11. T = Nat
  <2> HIDE DEF T
  <2> QED
    BY <1>9, <1>10, NatSetInduction DEF T
<1>12. PICK n \in 0 .. l : Splits(n, l)
  <2> HIDE DEF Splits
  <2>1. l \in T
    <3> HIDE DEF T
    <3> QED
      BY <1>11
  <2> QED
    BY <2>1
<1> QED
  BY <1>1, <1>2, <1>3, <1>8, <1>12

-----------------------------------------------------------------------------
(* Multiples are ordered like what they are multiples of.                   *)
LEMMA TimesMonotone ==
    ASSUME NEW M \in Nat, NEW a \in Nat, NEW b \in Nat, a <= b
    PROVE  a * M \in Nat /\ a * M <= b * M /\ (a + 1) * M = a * M + M
BY SMT

(* Cut into parts of M, the last of them shorter or not, a number is used   *)
(* up; a part of nothing is made only for a FIN that is alone.              *)
CutInto(count, M, size, fin) ==
    /\ count \in Nat
    /\ count = 0 => size = 0 /\ ~fin
    /\ \A k \in 1 .. count :
           /\ (k - 1) * M \in Nat /\ (k - 1) * M <= size
           /\ (k + 1 - 1) * M = (k - 1) * M + M
           /\ k < count => (k - 1) * M + M <= size
           /\ k = count => size <= (k - 1) * M + M
           /\ k = count => (k - 1) * M < size \/ (fin /\ (k - 1) * M = size)

LEMMA PartsOf ==
    ASSUME NEW M \in Nat \ {0}, NEW size \in Nat, NEW fin \in BOOLEAN, NEW count,
           count = IF size % M > 0 \/ (size = 0 /\ fin) THEN size \div M + 1 ELSE size \div M
    PROVE  CutInto(count, M, size, fin)
<1> DEFINE q == size \div M
<1> DEFINE r == size % M
<1>1. q \in Int /\ r \in 0 .. M - 1 /\ size = M * q + r
  BY DivMod
<1>2. M \in Nat /\ M > 0
  OBVIOUS
<1>3. count = IF r > 0 \/ (size = 0 /\ fin) THEN q + 1 ELSE q
  OBVIOUS
<1> HIDE DEF q, r
<1>4. q \in Nat
  <2>1. ASSUME q < 0
        PROVE  M * q <= -M
    BY <1>1, <1>2, <2>1, SMT
  <2> QED
    BY <1>1, <1>2, <2>1
<1>5. q * M \in Nat /\ size = q * M + r
  BY <1>1, <1>2, <1>4, TimesMonotone, SMT
<1>6. count \in Nat /\ count \in {q, q + 1}
  BY <1>3, <1>4
<1>7. ASSUME count = 0
      PROVE  size = 0 /\ ~fin
  <2>1. q = 0 /\ ~(r > 0 \/ (size = 0 /\ fin))
    BY <1>3, <1>4, <1>7
  <2>2. r = 0
    BY <1>1, <2>1
  <2>3. 0 * M = 0
    BY <1>2
  <2>4. size = 0
    BY <1>2, <1>5, <2>1, <2>2, <2>3
  <2> QED
    BY <2>1, <2>4
<1>8. ASSUME NEW k \in 1 .. count
      PROVE  /\ (k - 1) * M \in Nat /\ (k - 1) * M <= size
             /\ (k + 1 - 1) * M = (k - 1) * M + M
             /\ k < count => (k - 1) * M + M <= size
             /\ k = count => size <= (k - 1) * M + M
             /\ k = count => (k - 1) * M < size \/ (fin /\ (k - 1) * M = size)
  <2>1. PICK i \in Nat : i = k - 1 /\ k = i + 1 /\ i <= q /\ k + 1 - 1 = i + 1
    BY <1>4, <1>6
  <2>2. PICK x \in Nat, y \in Nat :
            /\ x = i * M /\ y = q * M /\ x <= y /\ (i + 1) * M = x + M
    BY <1>2, <1>4, <1>5, <2>1, TimesMonotone
  <2>3. ASSUME i + 1 <= q
        PROVE  x + M <= y
    BY <1>2, <1>4, <2>1, <2>2, <2>3, TimesMonotone
  <2>4. r \in Nat /\ r < M /\ size = y + r
    BY <1>1, <1>2, <1>5, <2>2
  <2>5. ASSUME k < count
        PROVE  x + M <= size
    <3>1. i + 1 <= q
      BY <1>4, <1>6, <2>1, <2>5
    <3> QED
      BY <1>2, <2>2, <2>3, <2>4, <3>1
  <2>6. ASSUME k = count
        PROVE  size <= x + M /\ (x < size \/ (fin /\ x = size))
    <3>1. CASE count = q
      <4>1. i + 1 = q /\ y = x + M
        BY <1>4, <2>1, <2>2, <2>6, <3>1
      <4>2. ~(r > 0)
        BY <1>3, <1>4, <3>1
      <4> QED
        BY <1>2, <2>2, <2>4, <4>1, <4>2
    <3>2. CASE count = q + 1
      <4>1. i = q /\ y = x
        BY <1>4, <2>1, <2>2, <2>6, <3>2
      <4>2. r > 0 \/ (size = 0 /\ fin)
        BY <1>3, <1>4, <3>2
      <4> QED
        BY <1>2, <2>2, <2>4, <4>1, <4>2
    <3> QED
      BY <1>6, <3>1, <3>2
  <2> QED
    BY <1>2, <2>1, <2>2, <2>4, <2>5, <2>6
<1> QED
  BY <1>6, <1>7, <1>8 DEF CutInto

(* A message that carries a run of the stream, a FIN perhaps, and no SYN.   *)
DataMessage(isn, i, data, fin) == SenderMessage(Wrap(i + 1, isn), FALSE, data, fin, FALSE)

CarriesData(seg, isn, i, data, fin) ==
    /\ FromStream(seg, i + 1, isn) /\ (seg.FIN <=> fin)
    /\ SequenceLength(seg) = Len(data) + Flag(fin)

LEMMA DataCarries ==
    ASSUME NEW isn \in Seqnos, NEW i \in Nat, NEW data, IsRun(data, i), NEW fin \in BOOLEAN,
           Len(data) > 0 \/ fin
    PROVE  CarriesData(DataMessage(isn, i, data, fin), isn, i, data, fin)
<1>1. PICK seg : seg = DataMessage(isn, i, data, fin)
  OBVIOUS
<1>2. /\ seg = [seqno |-> Wrap(i + 1, isn), SYN |-> FALSE, payload |-> data,
                 FIN |-> fin, RST |-> FALSE]
      /\ ~seg.RST /\ seg.seqno = Wrap(i + 1, isn) /\ seg.SYN = FALSE /\ seg.payload = data /\ seg.FIN = fin
  BY <1>1 DEF DataMessage, SenderMessage
<1>3. seg \in SenderMessages
  <2>1. Wrap(i + 1, isn) \in Seqnos
    BY WrapOn
  <2>2. data \in Seq(Nat)
    BY DEF IsRun
  <2> QED
    BY <1>2, <2>1, <2>2 DEF SenderMessages
<1>4. PICK n \in Nat : n = Len(data)
  BY LenProperties DEF IsRun
<1>5. PICK f \in 0 .. 1 : f = Flag(fin) /\ (fin => f = 1)
  BY DEF Flag
<1>6. Flag(seg.SYN) = 0 /\ Flag(seg.FIN) = f /\ Len(seg.payload) = n
  BY <1>2, <1>4, <1>5 DEF Flag
<1>7. SequenceLength(seg) = n + f
  BY <1>6 DEF SequenceLength
<1>8. SequenceLength(seg) > 0
  BY <1>4, <1>5, <1>7
<1>9. seg.payload = Bytes((i + 1) + Flag(seg.SYN) - 1, Len(seg.payload))
  <2>1. data = [j \in 1 .. Len(data) |-> i + j - 1]
    BY RunIsBytes
  <2>2. (i + 1) + Flag(seg.SYN) - 1 = i
    BY <1>6
  <2> QED
    BY <1>2, <2>1, <2>2, Zenon DEF Bytes
<1>10. seg.SYN <=> i + 1 = 0
  BY <1>2
<1>11. FromStream(seg, i + 1, isn)
  BY <1>2, <1>3, <1>8, <1>9, <1>10 DEF FromStream
<1> QED
  BY <1>2, <1>4, <1>5, <1>7, <1>1, <1>11 DEF CarriesData

(* The segments that push makes of the first size bytes that wait are a     *)
(* chain from the next number on, with the FIN in the last.                 *)
LEMMA SegmentsResult ==
    ASSUME NEW s, s.isn \in Seqnos, StreamIntact(s.input),
           NEW next \in Nat, next = s.input.popped + 1, s.next_seqno = Wrap(next, s.isn),
           NEW size \in 0 .. Len(s.input.queue), NEW fin \in BOOLEAN
    PROVE  LET segments == Segments(s, size, fin)
           IN  /\ FinIsLast(segments, fin) /\ (fin => segments # <<>>)
               /\ \E st : /\ Chain(segments, st, s.isn) /\ st[1] = next
                          /\ st[Len(segments) + 1] = next + size + Flag(fin)
<1> DEFINE M == MAX_PAYLOAD_SIZE
<1> DEFINE full == size \div M
<1> DEFINE rest == size % M
<1>1. PICK count : count = IF rest > 0 \/ (size = 0 /\ fin) THEN full + 1 ELSE full
  OBVIOUS
<1>2. PICK segments : segments = Segments(s, size, fin)
  OBVIOUS
<1> DEFINE Part(k) == SenderMessage(Wrap((k - 1) * M, s.next_seqno), FALSE,
                          SubSeq(s.input.queue, (k - 1) * M + 1, Least((k - 1) * M + M, size)),
                          fin /\ k = count, FALSE)
<1>3. segments = [k \in 1 .. count |-> Part(k)]
  BY <1>1, <1>2 DEF Segments, SeqnoAfter
<1>4. PICK i \in Nat, q \in Nat :
          /\ i = s.input.popped /\ q = Len(s.input.queue) /\ next = i + 1 /\ size \in Nat /\ size <= q
  BY StreamFacts
<1>5. M \in Nat \ {0}
  BY SenderAssumption
<1>6. /\ count \in Nat
      /\ count = 0 => size = 0 /\ ~fin
      /\ \A k \in 1 .. count :
             /\ (k - 1) * M \in Nat /\ (k - 1) * M <= size
             /\ (k + 1 - 1) * M = (k - 1) * M + M
             /\ k < count => (k - 1) * M + M <= size
             /\ k = count => size <= (k - 1) * M + M
             /\ k = count => (k - 1) * M < size \/ (fin /\ (k - 1) * M = size)
  <2> HIDE DEF M
  <2>1. CutInto(count, M, size, fin)
    BY <1>1, <1>4, <1>5, PartsOf
  <2> QED
    BY <2>1 DEF CutInto
<1> HIDE DEF M
<1>7. Flag(fin) \in 0 .. 1 /\ Flag(FALSE) = 0
  BY DEF Flag
<1>8. PICK st : st = [k \in 1 .. count + 1 |-> IF k <= count THEN next + (k - 1) * M
                                                ELSE next + size + Flag(fin)]
  OBVIOUS
<1>9. ASSUME NEW k \in 1 .. count
      PROVE  /\ FromStream(segments[k], st[k], s.isn)
             /\ (segments[k].FIN <=> fin /\ k = count)
             /\ st[k + 1] = st[k] + SequenceLength(segments[k])
             /\ st[k] \in Nat
  <2>1. PICK x \in Nat : x = (k - 1) * M /\ x <= size /\ (k + 1 - 1) * M = x + M
    BY <1>6
  <2>2. PICK hi \in Nat : hi = Least(x + M, size) /\ x <= hi /\ hi <= size
                         /\ (k < count => hi = x + M) /\ (k = count => hi = size)
    <3>1. Least(x + M, size) \in {x + M, size} /\ Least(x + M, size) <= size
          /\ Least(x + M, size) = (IF x + M <= size THEN x + M ELSE size)
      BY <1>4, <1>5, <2>1, LeastFacts
    <3> QED
      BY <1>4, <1>5, <1>6, <2>1, <3>1
  <2>3. PICK data : data = SubSeq(s.input.queue, x + 1, hi)
    OBVIOUS
  <2>4. IsRun(data, i + x) /\ Len(data) = hi - x
    <3>1. PICK queue : queue = s.input.queue /\ IsRun(queue, i) /\ Len(queue) = q
      BY <1>4 DEF StreamIntact
    <3>2. x \in 0 .. Len(queue) /\ hi \in x .. Len(queue)
      BY <1>4, <2>1, <2>2, <3>1
    <3>3. IsRun(SubSeq(queue, x + 1, hi), i + x) /\ Len(SubSeq(queue, x + 1, hi)) = hi - x
      BY <3>1, <3>2, RunPart
    <3> QED
      BY <2>3, <3>1, <3>3
  <2>5. PICK last \in BOOLEAN : last <=> (fin /\ k = count)
    OBVIOUS
  <2>6. segments[k] = SenderMessage(Wrap(x, s.next_seqno), FALSE, data, last, FALSE)
    <3>1. segments[k] = Part(k)
      BY <1>3
    <3>2. (fin /\ k = count) = last
      BY <2>5
    <3> QED
      BY <2>1, <2>2, <2>3, <3>1, <3>2
  <2>7. Wrap(x, s.next_seqno) = Wrap((i + x) + 1, s.isn)
    <3>1. Wrap(x, Wrap(next, s.isn)) = Wrap(next + x, s.isn)
      BY <1>4, WrapOn
    <3>2. next + x = (i + x) + 1
      BY <1>4
    <3> QED
      BY <3>1, <3>2
  <2>8. Len(data) > 0 \/ last
    <3>1. CASE k < count
      <4>1. hi - x = M
        BY <1>5, <2>1, <2>2, <3>1
      <4> QED
        BY <1>5, <2>4, <4>1
    <3>2. CASE k = count
      <4>1. hi = size /\ (x < size \/ fin)
        BY <1>6, <2>1, <2>2, <3>2
      <4> QED
        BY <2>1, <2>4, <2>5, <3>2, <4>1
    <3> QED
      BY <1>6, <3>1, <3>2
  <2>9. /\ FromStream(segments[k], (i + x) + 1, s.isn) /\ (segments[k].FIN <=> last)
        /\ SequenceLength(segments[k]) = (hi - x) + Flag(last)
    <3>1. i + x \in Nat
      BY <1>4
    <3>2. PICK j \in Nat : j = i + x
      BY <3>1
    <3>3. PICK seg : seg = DataMessage(s.isn, j, data, last)
      OBVIOUS
    <3>4. IsRun(data, j)
      BY <2>4, <3>2
    <3>5. FromStream(seg, j + 1, s.isn) /\ (seg.FIN <=> last) /\ SequenceLength(seg) = Len(data) + Flag(last)
      <4>1. s.isn \in Seqnos /\ j \in Nat /\ last \in BOOLEAN /\ (Len(data) > 0 \/ last)
        BY <2>5, <2>8, <3>2
      <4>2. CarriesData(DataMessage(s.isn, j, data, last), s.isn, j, data, last)
        BY <3>4, <4>1, DataCarries
      <4> QED
        BY <3>3, <4>2 DEF CarriesData
    <3>6. segments[k] = seg
      BY <2>6, <2>7, <3>2, <3>3 DEF DataMessage
    <3> QED
      BY <2>4, <3>2, <3>5, <3>6
  <2>10. st[k] = next + x /\ next + x = (i + x) + 1 /\ next + x \in Nat
    <3>1. k \in 1 .. count + 1 /\ k <= count
      BY <1>6
    <3>2. st[k] = next + (k - 1) * M
      BY <1>8, <3>1
    <3> QED
      BY <1>4, <2>1, <3>2, SMTT(30)
  <2>11. st[k + 1] = (next + x) + ((hi - x) + Flag(last))
    <3>1. CASE k < count
      <4>1. k + 1 <= count /\ k + 1 \in 1 .. count + 1
        BY <1>6, <3>1
      <4>2. st[k + 1] = next + (k + 1 - 1) * M
        BY <1>8, <4>1
      <4>3. st[k + 1] = next + (x + M)
        BY <2>1, <4>2
      <4>4. ~last
        BY <1>6, <2>5, <3>1
      <4>5. Flag(last) = 0
        BY <4>4 DEF Flag
      <4>6. (next + x) + ((hi - x) + 0) = next + (x + M)
        <5>1. hi = x + M /\ M \in Nat /\ next \in Nat /\ x \in Nat
          BY <1>5, <2>2, <3>1
        <5> QED
          BY ONLY <5>1
      <4> QED
        BY <4>3, <4>5, <4>6, Zenon
    <3>2. CASE k = count
      <4>1. ~(k + 1 <= count) /\ k + 1 \in 1 .. count + 1
        BY <1>6, <3>2
      <4>2. st[k + 1] = next + size + Flag(fin)
        BY <1>8, <4>1
      <4>3. last = fin
        BY <2>5, <3>2
      <4>4. PICK f \in 0 .. 1 : f = Flag(fin)
        BY <1>7
      <4>5. (next + x) + ((hi - x) + f) = next + size + f
        <5>1. hi = size /\ size \in Nat /\ next \in Nat /\ x \in Nat /\ f \in 0 .. 1
          BY <1>4, <2>2, <3>2
        <5> QED
          BY ONLY <5>1
      <4> QED
        BY <4>2, <4>3, <4>4, <4>5, Zenon
    <3> QED
      BY <1>6, <3>1, <3>2
  <2> QED
    BY <2>5, <2>9, <2>10, <2>11
<1>10. segments \in Seq(SenderMessages) /\ Len(segments) = count
  <2>1. \A k \in 1 .. count : segments[k] \in SenderMessages
    BY <1>9 DEF FromStream
  <2>2. segments \in [1 .. count -> SenderMessages]
    BY <1>3, <2>1
  <2> QED
    BY <1>6, <2>2, IsASeq
<1>11. st[count + 1] = next + size + Flag(fin)
  <2>1. count + 1 \in 1 .. count + 1 /\ ~(count + 1 <= count)
    BY <1>6
  <2> QED
    BY <1>8, <2>1
<1>12. st \in [1 .. count + 1 -> Nat]
  <2>1. next + size + Flag(fin) \in Nat
    BY <1>4, <1>7
  <2>2. ASSUME NEW k \in 1 .. count + 1
        PROVE  st[k] \in Nat
    <3>1. CASE k = count + 1
      BY <1>11, <2>1, <3>1
    <3>2. CASE k # count + 1
      <4>1. k \in 1 .. count
        BY <1>6, <3>2
      <4> QED
        BY <1>9, <4>1
    <3> QED
      BY <3>1, <3>2
  <2> QED
    BY <1>8, <2>2
<1>13. Chain(segments, st, s.isn)
  BY <1>9, <1>10, <1>12 DEF Chain
<1>14. st[1] = next
  <2>1. CASE count = 0
    <3>1. size = 0 /\ Flag(fin) = 0 /\ count + 1 = 1
      BY <1>6, <2>1 DEF Flag
    <3> QED
      BY <1>4, <1>11, <3>1
  <2>2. CASE count # 0
    <3>1. 1 \in 1 .. count + 1 /\ 1 <= count /\ (1 - 1) * M = 0
      BY <1>5, <1>6, <2>2
    <3> QED
      BY <1>4, <1>8, <3>1
  <2> QED
    BY <2>1, <2>2
<1>15. FinIsLast(segments, fin)
  BY <1>9, <1>10 DEF FinIsLast
<1>16. fin => segments # <<>>
  BY <1>6, <1>10
<1> QED
  BY <1>2, <1>10, <1>11, <1>13, <1>14, <1>15, <1>16

-----------------------------------------------------------------------------
(* The invariant of a sender s that was given acknos up to a. What is       *)
(* popped from the stream was sent; nothing is sent before the SYN, and     *)
(* nothing behind the FIN.                                                  *)
Written(s) ==
    /\ StreamIntact(s.input) /\ BytesPushed(s.input) <= Longest
    /\ ~s.sender_syn => s.input.popped = 0 /\ ~s.fin_sent /\ s.outstanding = <<>>
    /\ s.fin_sent => IsFinished(s.input)

Timed(s) ==
    /\ s.timer_running <=> s.outstanding # <<>>
    /\ s.current_RTO = InitialRTO * 2 ^ s.consecutive_retrans_count

(* a lies in the first of the outstanding segments, or all is acknowledged. *)
AckedWithin(s, a, st) ==
    /\ Sent(s, NextAbs(s), st)
    /\ st[1] <= a /\ (s.outstanding # <<>> => a < st[2])

Acked(s, a) ==
    /\ a \in 0 .. NextAbs(s) /\ s.last_ackno = Wrap(a, s.isn)
    /\ FinIsLast(s.outstanding, s.fin_sent)
    /\ \E st : AckedWithin(s, a, st)

SenderInv(s, a) == s \in Senders /\ Written(s) /\ Timed(s) /\ Acked(s, a)

(* The counters of such a sender.                                           *)
LEMMA SenderFacts ==
    ASSUME NEW s, s \in Senders, Written(s)
    PROVE  \E n \in 0 .. Longest + 2, i \in Nat, q \in Nat :
               /\ n = NextAbs(s) /\ i = s.input.popped /\ q = Len(s.input.queue)
               /\ BytesPushed(s.input) = i + q /\ i + q <= Longest
               /\ s.sender_syn /\ ~s.fin_sent => n = i + 1
               /\ s.sender_syn /\ s.fin_sent => n = i + 2
               /\ ~s.sender_syn => n = 0 /\ i = 0
               /\ s.fin_sent => q = 0 /\ s.sender_syn
<1>1. PICK i \in Nat, q \in Nat :
          i = s.input.popped /\ q = Len(s.input.queue) /\ BytesPushed(s.input) = i + q
  BY StreamFacts DEF Written
<1>2. i + q <= Longest /\ Longest \in Nat
  BY <1>1, LongestFacts DEF Written
<1>3. PICK x \in 0 .. 1, y \in 0 .. 1 :
          /\ x = Flag(s.sender_syn) /\ y = Flag(s.fin_sent)
          /\ (s.sender_syn => x = 1) /\ (~s.sender_syn => x = 0)
          /\ (s.fin_sent => y = 1) /\ (~s.fin_sent => y = 0)
  BY DEF Flag
<1>4. NextAbs(s) = x + i + y
  BY <1>1, <1>3 DEF NextAbs
<1>5. x + i + y \in 0 .. Longest + 2
  BY <1>1, <1>2, <1>3, SMTT(30)
<1>6. ~s.sender_syn => i = 0 /\ ~s.fin_sent
  BY <1>1 DEF Written
<1>7. s.fin_sent => q = 0
  <2>1. s.fin_sent => s.input.queue = <<>>
    BY DEF Written, IsFinished
  <2> QED
    BY <1>1, <2>1, EmptySeq
<1>8. PICK n \in 0 .. Longest + 2 : n = x + i + y
  BY <1>5
<1>9. /\ s.sender_syn /\ ~s.fin_sent => n = i + 1
      /\ s.sender_syn /\ s.fin_sent => n = i + 2
      /\ ~s.sender_syn => n = 0 /\ i = 0
  BY <1>1, <1>3, <1>6, <1>8
<1> QED
  BY <1>1, <1>2, <1>4, <1>6, <1>7, <1>8, <1>9

(* The stream may be written, closed and set to an error at any time.       *)
LEMMA InputChange ==
    ASSUME NEW s, NEW a, SenderInv(s, a), NEW input, StreamIntact(input),
           BytesPushed(input) <= Longest, input.popped = s.input.popped,
           s.fin_sent => IsFinished(input)
    PROVE  LET t == [s EXCEPT !.input = input]
           IN  SenderInv(t, a) /\ NextAbs(t) = NextAbs(s) /\ t.outstanding = s.outstanding
<1>1. PICK t : t = [s EXCEPT !.input = input]
  OBVIOUS
<1>2. /\ t \in Senders /\ t.input = input /\ t.isn = s.isn /\ t.next_seqno = s.next_seqno
      /\ t.last_ackno = s.last_ackno /\ t.sender_syn = s.sender_syn /\ t.fin_sent = s.fin_sent
      /\ t.timer_running = s.timer_running /\ t.current_RTO = s.current_RTO
      /\ t.consecutive_retrans_count = s.consecutive_retrans_count
      /\ t.outstanding = s.outstanding
  BY <1>1 DEF SenderInv, Senders, StreamIntact
<1>3. NextAbs(t) = NextAbs(s)
  BY <1>2 DEF NextAbs
<1>4. Written(t)
  BY <1>2 DEF SenderInv, Written
<1>5. Timed(t)
  BY <1>2, Zenon DEF SenderInv, Timed
<1>6. Acked(t, a)
  BY <1>2, <1>3, Zenon DEF SenderInv, Acked, AckedWithin, Sent
<1> QED
  BY <1>1, <1>2, <1>3, <1>4, <1>5, <1>6 DEF SenderInv

(* So may the window.                                                       *)
LEMMA WindowChange ==
    ASSUME NEW s, NEW a, SenderInv(s, a), NEW w \in Nat
    PROVE  LET t == [s EXCEPT !.window_size = w]
           IN  SenderInv(t, a) /\ NextAbs(t) = NextAbs(s) /\ t.outstanding = s.outstanding
<1>1. PICK t : t = [s EXCEPT !.window_size = w]
  OBVIOUS
<1>2. /\ t \in Senders /\ t.input = s.input /\ t.isn = s.isn /\ t.next_seqno = s.next_seqno
      /\ t.last_ackno = s.last_ackno /\ t.sender_syn = s.sender_syn /\ t.fin_sent = s.fin_sent
      /\ t.timer_running = s.timer_running /\ t.current_RTO = s.current_RTO
      /\ t.consecutive_retrans_count = s.consecutive_retrans_count
      /\ t.outstanding = s.outstanding
  BY <1>1 DEF SenderInv, Senders
<1>3. NextAbs(t) = NextAbs(s)
  BY <1>2 DEF NextAbs
<1>4. Written(t)
  BY <1>2, Zenon DEF SenderInv, Written
<1>5. Timed(t)
  BY <1>2, Zenon DEF SenderInv, Timed
<1>6. Acked(t, a)
  BY <1>2, <1>3, Zenon DEF SenderInv, Acked, AckedWithin, Sent
<1> QED
  BY <1>1, <1>2, <1>3, <1>4, <1>5, <1>6 DEF SenderInv

(* The stream, and how much of it has been sent, stay.                      *)
Keeps(t, s) ==
    /\ t.input = s.input /\ t.isn = s.isn
    /\ t.sender_syn = s.sender_syn /\ t.fin_sent = s.fin_sent

(* A tick changes the timer only, and the timeout doubles when it counts a  *)
(* retransmission.                                                          *)
LEMMA TickResult ==
    ASSUME NEW s, NEW a, SenderInv(s, a), NEW ms \in Nat
    PROVE  LET r == SenderTick(s, ms)
           IN  /\ SenderInv(r.sender, a) /\ NextAbs(r.sender) = NextAbs(s) /\ Keeps(r.sender, s)
               /\ r.sender.outstanding = s.outstanding
               /\ r.sent # <<>> => s.outstanding # <<>> /\ r.sent = <<Head(s.outstanding)>>
<1>1. PICK c \in Nat, m \in Nat, e \in Nat, w \in Nat :
          /\ c = s.consecutive_retrans_count /\ m = s.current_RTO
          /\ e = s.timer_elapsed /\ w = s.window_size
  BY DEF SenderInv, Senders
<1>2. m = InitialRTO * 2 ^ c /\ c + 1 \in Nat /\ 2 * m \in Nat /\ e + ms \in Nat
  BY <1>1, SMTT(30) DEF SenderInv, Timed
<1>3. 2 * m = InitialRTO * 2 ^ (c + 1)
  <2>1. PICK x \in Nat : x = 2 ^ c /\ 2 ^ (c + 1) = 2 * x
    BY <1>1, PowersOfTwo
  <2>2. PICK i \in Nat : i = InitialRTO
    BY SenderAssumption
  <2>3. 2 * (i * x) = i * (2 * x)
    OBVIOUS
  <2> QED
    BY <1>2, <2>1, <2>2, <2>3
<1>4. PICK later : later = [s EXCEPT !.timer_elapsed = e + ms]
  OBVIOUS
<1>5. SenderTick(s, ms) = IF Expired(later)
                         THEN Result(StartTimer(BackOff(later)), <<Earliest(later)>>)
                         ELSE Result(later, <<>>)
  BY <1>1, <1>4 DEF SenderTick
<1>6. /\ later \in Senders /\ later.outstanding = s.outstanding /\ later.window_size = w
      /\ later.timer_running = s.timer_running
      /\ later.consecutive_retrans_count = c /\ later.current_RTO = m
  BY <1>1, <1>2, <1>4 DEF SenderInv, Senders
<1> DEFINE Alike(t) ==
        /\ t \in Senders /\ t.input = s.input /\ t.isn = s.isn /\ t.next_seqno = s.next_seqno
        /\ t.last_ackno = s.last_ackno /\ t.sender_syn = s.sender_syn /\ t.fin_sent = s.fin_sent
        /\ t.timer_running = s.timer_running /\ t.outstanding = s.outstanding
        /\ t.current_RTO = InitialRTO * 2 ^ t.consecutive_retrans_count
<1>7. ASSUME NEW t, Alike(t)
      PROVE  SenderInv(t, a) /\ NextAbs(t) = NextAbs(s)
  <2>1. NextAbs(t) = NextAbs(s)
    BY <1>7 DEF NextAbs
  <2>2. Written(t)
    BY <1>7, Zenon DEF SenderInv, Written
  <2>3. Timed(t)
    BY <1>7, Zenon DEF SenderInv, Timed
  <2>4. Acked(t, a)
    BY <1>7, <2>1, Zenon DEF SenderInv, Acked, AckedWithin, Sent
  <2> QED
    BY <1>7, <2>1, <2>2, <2>3, <2>4 DEF SenderInv
<1>8. CASE Expired(later)
  <2>1. s.timer_running /\ s.outstanding # <<>>
    BY <1>6, <1>8 DEF Expired
  <2>2. PICK t : t = StartTimer(BackOff(later))
    OBVIOUS
  <2>3. Alike(t)
    <3>1. CASE w > 0
      <4>1. t = [later EXCEPT !.consecutive_retrans_count = c + 1, !.current_RTO = 2 * m,
                              !.timer_running = TRUE, !.timer_elapsed = 0]
        BY <1>6, <2>2, <3>1 DEF StartTimer, BackOff, Senders
      <4>2. t.consecutive_retrans_count = c + 1 /\ t.current_RTO = 2 * m
        BY <1>6, <4>1 DEF Senders
      <4>3. t.current_RTO = InitialRTO * 2 ^ t.consecutive_retrans_count
        BY <1>3, <4>2, Zenon
      <4>4. /\ t.input = s.input /\ t.isn = s.isn /\ t.next_seqno = s.next_seqno
            /\ t.last_ackno = s.last_ackno /\ t.sender_syn = s.sender_syn /\ t.fin_sent = s.fin_sent
            /\ t.timer_running = TRUE /\ t.outstanding = s.outstanding
        BY <1>4, <1>6, <4>1 DEF SenderInv, Senders
      <4>5. t \in Senders
        BY <1>2, <1>6, <4>1 DEF Senders
      <4>6. s.timer_running = TRUE
        BY <2>1 DEF SenderInv, Senders
      <4> QED
        BY <4>3, <4>4, <4>5, <4>6
    <3>2. CASE ~(w > 0)
      <4>1. t = [later EXCEPT !.timer_running = TRUE, !.timer_elapsed = 0]
        BY <1>6, <2>2, <3>2 DEF StartTimer, BackOff
      <4>2. t.consecutive_retrans_count = c /\ t.current_RTO = m
        BY <1>6, <4>1 DEF Senders
      <4>3. t.current_RTO = InitialRTO * 2 ^ t.consecutive_retrans_count
        BY <1>2, <4>2, Zenon
      <4>4. /\ t.input = s.input /\ t.isn = s.isn /\ t.next_seqno = s.next_seqno
            /\ t.last_ackno = s.last_ackno /\ t.sender_syn = s.sender_syn /\ t.fin_sent = s.fin_sent
            /\ t.timer_running = TRUE /\ t.outstanding = s.outstanding
        BY <1>4, <1>6, <4>1 DEF SenderInv, Senders
      <4>5. t \in Senders
        BY <1>6, <4>1 DEF Senders
      <4>6. s.timer_running = TRUE
        BY <2>1 DEF SenderInv, Senders
      <4> QED
        BY <4>3, <4>4, <4>5, <4>6
    <3> QED
      BY <3>1, <3>2
  <2>4. SenderTick(s, ms).sender = t /\ SenderTick(s, ms).sent = <<Head(s.outstanding)>>
    BY <1>5, <1>6, <1>8, <2>2 DEF Result, Earliest
  <2>5. t.outstanding = s.outstanding /\ Keeps(t, s)
    BY <2>3 DEF Keeps
  <2> HIDE DEF Alike
  <2>6. SenderInv(t, a) /\ NextAbs(t) = NextAbs(s)
    BY <1>7, <2>3
  <2> QED
    BY <2>1, <2>4, <2>5, <2>6
<1>9. CASE ~Expired(later)
  <2>1. SenderTick(s, ms).sender = later /\ SenderTick(s, ms).sent = <<>>
    BY <1>5, <1>9 DEF Result
  <2>2. Alike(later)
    <3>1. later.current_RTO = InitialRTO * 2 ^ later.consecutive_retrans_count
      BY <1>2, <1>6, Zenon
    <3>2. /\ later.input = s.input /\ later.isn = s.isn /\ later.next_seqno = s.next_seqno
          /\ later.last_ackno = s.last_ackno /\ later.sender_syn = s.sender_syn
          /\ later.fin_sent = s.fin_sent
      BY <1>4 DEF SenderInv, Senders
    <3> QED
      BY <1>6, <3>1, <3>2
  <2>3. later.outstanding = s.outstanding /\ Keeps(later, s)
    BY <2>2 DEF Keeps
  <2> HIDE DEF Alike
  <2>4. SenderInv(later, a) /\ NextAbs(later) = NextAbs(s)
    BY <1>7, <2>2
  <2> QED
    BY <2>1, <2>3, <2>4
<1> QED
  BY <1>8, <1>9

(* An ackno of what was not sent changes nothing, nor does one that is not  *)
(* above the highest; any other takes off what it covers.                   *)
LEMMA AcknowledgeResult ==
    ASSUME NEW s, NEW a, SenderInv(s, a), NEW b \in 1 .. NextAbs(s) + 1
    PROVE  LET t == Acknowledge(s, Wrap(b, s.isn))
           IN  /\ SenderInv(t, IF b > a /\ b <= NextAbs(s) THEN b ELSE a)
               /\ NextAbs(t) = NextAbs(s) /\ Keeps(t, s)
<1>1. Longest \in Nat
  BY SenderFacts, LongestFacts DEF SenderInv
<1>2. PICK next \in 0 .. Longest + 2 : next = NextAbs(s)
  BY SenderFacts DEF SenderInv
<1>3. PICK st : AckedWithin(s, a, st)
  BY DEF SenderInv, Acked
<1>4. /\ Sent(s, next, st) /\ st[1] <= a /\ (s.outstanding # <<>> => a < st[2])
      /\ s.isn \in Seqnos /\ s.next_seqno = Wrap(next, s.isn)
  BY <1>2, <1>3 DEF AckedWithin, Sent
<1>5. a \in 0 .. next /\ s.last_ackno = Wrap(a, s.isn) /\ FinIsLast(s.outstanding, s.fin_sent)
  BY <1>2 DEF SenderInv, Acked
<1>6. b \in 1 .. next + 1
  BY <1>2
<1>7. PICK ackno : ackno = Wrap(b, s.isn)
  OBVIOUS
<1>8. AbsNextSeqno(s) = next /\ Abs(s, ackno) = b /\ Abs(s, s.last_ackno) = a
  <2>1. b \in 0 .. next + 1 /\ a \in 0 .. next + 1
    BY <1>5, <1>6
  <2> QED
    BY <1>1, <1>4, <1>5, <1>7, <2>1, AbsFacts
<1>9. ValidAckno(s, ackno) <=> b <= next
  BY <1>8 DEF ValidAckno
<1>10. CASE b > next
  <2>1. Acknowledge(s, ackno) = s
    BY <1>6, <1>9, <1>10 DEF Acknowledge
  <2>2. ~(b > a /\ b <= NextAbs(s))
    BY <1>2, <1>6, <1>10
  <2> QED
    BY <1>7, <2>1, <2>2 DEF Keeps
<1>11. CASE b <= next
  <2>1. b \in 0 .. next
    BY <1>6, <1>11
  <2>2. PICK l \in Nat, out \in Seq(SenderMessages) : l = Len(out) /\ out = s.outstanding
    BY <1>4, ChainFacts DEF Sent, Chain
  <2>3. PICK n \in 0 .. l :
            /\ Unacked(s, ackno) = SubSeq(out, n + 1, l)
            /\ \A k \in 1 .. n : st[k + 1] <= b
            /\ \A k \in n + 1 .. l : b < st[k + 1]
    BY <1>4, <1>7, <2>1, <2>2, <1>1, UnackedResult
  <2>4. /\ \A i \in 1 .. l + 1 : st[i] \in Nat
        /\ l = 0 <=> out = <<>>
    BY <1>4, <2>2, ChainFacts DEF Sent
  <2>5. CASE b <= a
    <3>1. n = 0
      <4>1. SUFFICES ASSUME n > 0 PROVE FALSE
        BY <2>3
      <4>2. 1 \in 1 .. n /\ l # 0 /\ 2 \in 1 .. l + 1 /\ 1 + 1 = 2
        BY <2>3, <4>1
      <4>3. st[2] <= b /\ st[2] \in Nat /\ a < st[2]
        BY <1>4, <2>2, <2>3, <2>4, <4>2
      <4> QED
        BY <1>5, <1>6, <2>5, <4>3
    <3>2. Unacked(s, ackno) = out
      BY <2>2, <2>3, <3>1, SubSeqFull
    <3>3. Acknowledge(s, ackno) = [s EXCEPT !.outstanding = out]
      BY <1>8, <1>9, <1>11, <2>5, <3>2 DEF Acknowledge
    <3>4. [s EXCEPT !.outstanding = out] = s
      BY <2>2 DEF SenderInv, Senders
    <3>5. ~(b > a)
      BY <1>5, <1>6, <2>5
    <3> QED
      BY <1>7, <3>3, <3>4, <3>5 DEF Keeps
  <2>6. CASE b > a
    <3>1. PICK rest : rest = SubSeq(out, n + 1, l)
      OBVIOUS
    <3>2. PICK t : t = Acknowledge(s, ackno)
      OBVIOUS
    <3>3. t = [s EXCEPT !.outstanding = rest, !.last_ackno = ackno,
                        !.current_RTO = InitialRTO, !.consecutive_retrans_count = 0,
                        !.timer_running = (rest # <<>>),
                        !.timer_elapsed = IF rest = <<>> THEN s.timer_elapsed ELSE 0]
      <4>1. ~(b <= a)
        BY <1>5, <1>6, <2>6
      <4>2. t = IF rest = <<>>
                THEN [s EXCEPT !.outstanding = rest, !.last_ackno = ackno,
                               !.current_RTO = InitialRTO, !.consecutive_retrans_count = 0,
                               !.timer_running = FALSE]
                ELSE [s EXCEPT !.outstanding = rest, !.last_ackno = ackno,
                               !.current_RTO = InitialRTO, !.consecutive_retrans_count = 0,
                               !.timer_running = TRUE, !.timer_elapsed = 0]
        BY <1>8, <1>9, <1>11, <2>3, <3>1, <3>2, <4>1
           DEF Acknowledge, ResetBackoff, StartTimer, SenderInv, Senders
      <4> QED
        BY <4>2 DEF SenderInv, Senders
    <3>4. PICK r : r = [k \in 1 .. l - n + 1 |-> st[n + k]]
      OBVIOUS
    <3>5. /\ Len(rest) = l - n /\ Chain(rest, r, s.isn)
          /\ \A k \in 1 .. l - n : rest[k] = out[n + k]
      <4>1. Chain(out, st, s.isn) /\ n \in 0 .. Len(out)
        BY <1>4, <2>2, <2>3 DEF Sent
      <4>2. /\ Len(SubSeq(out, n + 1, Len(out))) = Len(out) - n
            /\ \A k \in 1 .. Len(out) - n : SubSeq(out, n + 1, Len(out))[k] = out[n + k]
            /\ Chain(SubSeq(out, n + 1, Len(out)), [k \in 1 .. Len(out) - n + 1 |-> st[n + k]], s.isn)
        BY ONLY <4>1, ChainDrop
      <4> QED
        BY <2>2, <3>1, <3>4, <4>2
    <3>6. rest \in Seq(SenderMessages) /\ ackno \in Seqnos /\ (rest # <<>>) \in BOOLEAN
      <4>1. b \in Int
        BY <1>6
      <4> QED
        BY <1>4, <1>7, <3>5, <4>1, WrapOn DEF Chain
    <3>7. InitialRTO \in Nat /\ 2 ^ 0 = 1 /\ InitialRTO * 1 = InitialRTO
      BY SenderAssumption, PowersOfTwo
    <3>8. /\ t.input = s.input /\ t.isn = s.isn /\ t.next_seqno = s.next_seqno
          /\ t.last_ackno = ackno /\ t.sender_syn = s.sender_syn /\ t.fin_sent = s.fin_sent
          /\ t.timer_running = (rest # <<>>) /\ t.outstanding = rest
          /\ t.current_RTO = InitialRTO /\ t.consecutive_retrans_count = 0
      BY <3>3 DEF SenderInv, Senders
    <3>9. t \in Senders
      <4>1. (IF rest = <<>> THEN s.timer_elapsed ELSE 0) \in Nat
        BY DEF SenderInv, Senders
      <4> QED
        BY <3>3, <3>6, <3>7, <4>1 DEF SenderInv, Senders
    <3>10. NextAbs(t) = next
      BY <1>2, <3>8 DEF NextAbs
    <3>11. Written(t)
      <4>1. s.sender_syn
        BY <1>2, <1>6, <1>11, SenderFacts DEF SenderInv
      <4> QED
        BY <3>8, <4>1 DEF SenderInv, Written
    <3>12. Timed(t)
      BY <3>7, <3>8, Zenon DEF Timed
    <3>13. Sent(t, next, r)
      <4>1. l - n + 1 \in 1 .. l - n + 1 /\ n + (l - n + 1) = l + 1
        BY <2>3
      <4>2. r[l - n + 1] = st[l + 1]
        BY <3>4, <4>1
      <4>3. st[l + 1] = next
        BY <1>4, <2>2 DEF Sent
      <4> QED
        BY <1>4, <3>5, <3>8, <4>2, <4>3 DEF Sent
    <3>14. r[1] <= b
      <4>1. 1 \in 1 .. l - n + 1 /\ r[1] = st[n + 1]
        BY <2>3, <3>4
      <4>2. CASE n = 0
        <5>1. st[1] \in Nat /\ st[1] <= a
          BY <1>4, <2>4
        <5> QED
          BY <1>5, <1>6, <2>6, <4>1, <4>2, <5>1
      <4>3. CASE n > 0
        <5>1. n \in 1 .. n
          BY <4>3
        <5> QED
          BY <2>3, <4>1, <5>1
      <4> QED
        BY <2>3, <4>2, <4>3
    <3>15. ASSUME rest # <<>>
           PROVE  b < r[2]
      <4>1. l - n > 0
        BY <2>3, <3>5, <3>6, <3>15, EmptySeq
      <4>2. n + 1 \in n + 1 .. l /\ 2 \in 1 .. l - n + 1 /\ (n + 1) + 1 = n + 2
        BY <2>3, <4>1
      <4> QED
        BY <2>3, <3>4, <4>2
    <3>16. FinIsLast(rest, s.fin_sent)
      <4>1. ASSUME NEW k \in 1 .. l - n
            PROVE  rest[k].FIN <=> (s.fin_sent /\ k = l - n)
        <5>1. n + k \in 1 .. l /\ (n + k = l <=> k = l - n)
          BY <2>3
        <5>2. out[n + k].FIN <=> (s.fin_sent /\ n + k = l)
          BY <1>5, <2>2, <5>1 DEF FinIsLast
        <5> QED
          BY <3>5, <5>1, <5>2
      <4> QED
        BY <3>5, <4>1 DEF FinIsLast
    <3>17. Acked(t, b)
      <4>1. AckedWithin(t, b, r)
        BY <3>8, <3>10, <3>13, <3>14, <3>15 DEF AckedWithin
      <4> QED
        BY <1>7, <2>1, <3>8, <3>10, <3>16, <4>1 DEF Acked
    <3>18. SenderInv(t, b)
      BY <3>9, <3>11, <3>12, <3>17 DEF SenderInv
    <3>19. Keeps(t, s)
      BY <3>8 DEF Keeps
    <3> QED
      BY <1>2, <1>7, <1>11, <2>6, <3>2, <3>10, <3>18, <3>19
  <2> QED
    BY <1>5, <1>6, <2>5, <2>6
<1> QED
  BY <1>6, <1>10, <1>11

-----------------------------------------------------------------------------
(* Segments that go on where the outstanding ones end, the last of them     *)
(* with the FIN perhaps, are outstanding too.                               *)
LEMMA SendMore ==
    ASSUME NEW s, NEW a, SenderInv(s, a),
           NEW segments, NEW r, Chain(segments, r, s.isn), r[1] = NextAbs(s),
           NEW fin \in BOOLEAN, FinIsLast(segments, fin), fin => segments # <<>>,
           s.fin_sent => segments = <<>>,
           NEW t \in Senders, Written(t), Timed(t), r[Len(segments) + 1] = NextAbs(t),
           t.isn = s.isn, t.next_seqno = Wrap(NextAbs(t), s.isn), t.last_ackno = s.last_ackno,
           t.fin_sent <=> (s.fin_sent \/ fin), t.outstanding = s.outstanding \o segments
    PROVE  /\ SenderInv(t, a)
           /\ SequenceNumbersInFlight(t) = SequenceNumbersInFlight(s) + (NextAbs(t) - NextAbs(s))
<1>1. PICK st : AckedWithin(s, a, st)
  BY DEF SenderInv, Acked
<1>2. PICK next \in Nat, later \in Nat : next = NextAbs(s) /\ later = NextAbs(t)
  BY SenderFacts DEF SenderInv
<1>3. PICK out : out = s.outstanding /\ Chain(out, st, s.isn) /\ st[Len(out) + 1] = next
  BY <1>1, <1>2 DEF AckedWithin, Sent
<1>4. PICK l \in Nat, m \in Nat : l = Len(out) /\ m = Len(segments)
  BY <1>3, ChainFacts
<1>5. PICK all : all = out \o segments /\ t.outstanding = all
  BY <1>3
<1>6. st[Len(out) + 1] = r[1]
  BY <1>2, <1>3
<1>7. /\ Len(all) = l + m
      /\ \A k \in 1 .. l + m : all[k] = IF k <= l THEN out[k] ELSE segments[k - l]
      /\ \E u : /\ Chain(all, u, s.isn) /\ u[1] = st[1] /\ u[Len(all) + 1] = r[Len(segments) + 1]
                /\ l > 0 => u[2] = st[2]
  <2>1. Joins(out \o segments, out, st, segments, r, s.isn)
    BY <1>3, <1>6, ChainJoin
  <2> QED
    BY <1>4, <1>5, <2>1 DEF Joins
<1>8. PICK u : /\ Chain(all, u, s.isn) /\ u[1] = st[1] /\ u[Len(all) + 1] = later
               /\ l > 0 => u[2] = st[2]
  BY <1>2, <1>7
<1>9. /\ st[1] \in Nat /\ st[1] <= a /\ a \in 0 .. next /\ (l > 0 => a < st[2])
      /\ (l = 0 => st[1] = next) /\ (l = 0 <=> out = <<>>)
  <2>1. l = 0 <=> out = <<>>
    BY <1>3, <1>4, ChainFacts
  <2>2. st[1] \in Nat
    BY <1>3, <1>4, ChainFacts
  <2>3. st[1] <= a /\ (out # <<>> => a < st[2])
    BY <1>1, <1>3 DEF AckedWithin
  <2>4. a \in 0 .. next
    BY <1>2 DEF SenderInv, Acked
  <2>5. l = 0 => st[1] = next
    BY <1>3, <1>4
  <2> QED
    BY <2>1, <2>2, <2>3, <2>4, <2>5
<1>10. /\ m = 0 => segments = <<>>
       /\ l + m = 0 <=> all = <<>>
       /\ \A i, j \in 1 .. l + m + 1 : i < j => u[i] < u[j]
       /\ \A i \in 1 .. l + m + 1 : u[i] \in Nat
  <2>1. m = 0 => segments = <<>>
    BY <1>4, ChainFacts
  <2>2. /\ l + m = 0 <=> all = <<>>
        /\ \A i, j \in 1 .. l + m + 1 : i < j => u[i] < u[j]
        /\ \A i \in 1 .. l + m + 1 : u[i] \in Nat
    BY <1>7, <1>8, ChainFacts
  <2> QED
    BY <2>1, <2>2
<1>11. next <= later
  <2>1. PICK x \in Nat, y \in Nat : x = r[1] /\ y = r[m + 1] /\ (1 < m + 1 => x < y)
    <3>1. 1 \in 1 .. m + 1 /\ m + 1 \in 1 .. m + 1
      BY <1>4
    <3> QED
      BY <1>4, <3>1, ChainFacts
  <2>2. m = 0 => x = y
    BY <2>1
  <2>3. x = next /\ y = later
    BY <1>2, <1>4, <2>1
  <2> QED
    BY <1>4, <2>1, <2>2, <2>3
<1>12. AckedWithin(t, a, u)
  <2>1. Sent(t, later, u)
    BY <1>1, <1>2, <1>5, <1>8 DEF AckedWithin, Sent
  <2>2. u[1] <= a
    BY <1>8, <1>9
  <2>3. ASSUME all # <<>>
        PROVE  a < u[2]
    <3>1. CASE l > 0
      BY <1>8, <1>9, <3>1
    <3>2. CASE l = 0
      <4>1. 1 \in 1 .. l + m + 1 /\ 2 \in 1 .. l + m + 1 /\ 1 < 2
        BY <1>4, <1>10, <2>3, <3>2
      <4>2. u[1] < u[2] /\ u[1] = next /\ u[2] \in Nat
        BY <1>8, <1>9, <1>10, <3>2, <4>1
      <4> QED
        BY <1>2, <1>9, <4>2
    <3> QED
      BY <1>4, <3>1, <3>2
  <2> QED
    BY <1>2, <1>5, <2>1, <2>2, <2>3 DEF AckedWithin
<1>13. FinIsLast(all, t.fin_sent)
  <2>1. PICK f \in BOOLEAN, g \in BOOLEAN : f = s.fin_sent /\ g = t.fin_sent
    BY DEF SenderInv, Senders
  <2>2. (g <=> (f \/ fin)) /\ (f => m = 0) /\ (fin => m # 0)
    <3>1. s.fin_sent => m = 0
      BY <1>4, EmptySeq
    <3> QED
      BY <1>10, <2>1, <3>1
  <2>3. ASSUME NEW k \in 1 .. l
        PROVE  out[k].FIN <=> (f /\ k = l)
    BY <1>3, <1>4, <2>1, <2>3 DEF SenderInv, Acked, FinIsLast
  <2>4. ASSUME NEW k \in 1 .. m
        PROVE  segments[k].FIN <=> (fin /\ k = m)
    BY <1>4, <2>4 DEF FinIsLast
  <2>5. ASSUME NEW k \in 1 .. l + m
        PROVE  all[k].FIN <=> (g /\ k = l + m)
    <3>1. CASE k <= l
      <4>1. k \in 1 .. l /\ all[k] = out[k]
        BY <1>7, <3>1
      <4>2. all[k].FIN <=> (f /\ k = l)
        BY <2>3, <4>1
      <4>3. m = 0 => (k = l + m <=> k = l)
        OBVIOUS
      <4>4. m # 0 => k # l + m
        BY <3>1
      <4> QED
        BY <2>2, <4>2, <4>3, <4>4
    <3>2. CASE k > l
      <4>1. k - l \in 1 .. m /\ all[k] = segments[k - l] /\ m # 0 /\ (k - l = m <=> k = l + m)
        BY <1>7, <3>2
      <4>2. all[k].FIN <=> (fin /\ k - l = m)
        BY <2>4, <4>1
      <4> QED
        BY <2>2, <4>1, <4>2
    <3> QED
      BY <3>1, <3>2
  <2> QED
    BY <1>7, <2>1, <2>5 DEF FinIsLast
<1>14. Acked(t, a)
  <2>1. a \in 0 .. NextAbs(t)
    BY <1>2, <1>9, <1>11
  <2>2. t.last_ackno = Wrap(a, t.isn)
    BY DEF SenderInv, Acked
  <2> QED
    BY <1>5, <1>12, <1>13, <2>1, <2>2 DEF Acked
<1>15. /\ SequenceNumbersInFlight(s) = next - st[1]
       /\ SequenceNumbersInFlight(t) = later - u[1]
  <2>1. 1 \in 1 .. Len(out) + 1 /\ 1 \in 1 .. Len(all) + 1
    BY <1>4, <1>7
  <2>2. SumFunctionOnSet([j \in DOMAIN out |-> SequenceLength(out[j])], 1 .. Len(out)) = next - st[1]
    BY <1>3, <2>1, ChainSum
  <2>3. SumFunctionOnSet([j \in DOMAIN all |-> SequenceLength(all[j])], 1 .. Len(all)) = later - u[1]
    BY <1>8, <2>1, ChainSum
  <2>4. DOMAIN out = 1 .. Len(out) /\ DOMAIN all = 1 .. Len(all)
    BY <1>3, <1>8, ChainFacts
  <2> QED
    BY <1>3, <1>5, <2>2, <2>3, <2>4 DEF SequenceNumbersInFlight, SumFunction
<1>16. SequenceNumbersInFlight(t) = SequenceNumbersInFlight(s) + (later - next)
  BY <1>8, <1>9, <1>15
<1> QED
  BY <1>2, <1>14, <1>16 DEF SenderInv

(* Segments just made join what is outstanding, and the timer runs.         *)
Tracked(t, v, segments) ==
    /\ t \in Senders /\ t.input = v.input /\ t.isn = v.isn /\ t.next_seqno = v.next_seqno
    /\ t.last_ackno = v.last_ackno /\ t.sender_syn = v.sender_syn /\ t.fin_sent = v.fin_sent
    /\ t.current_RTO = v.current_RTO
    /\ t.consecutive_retrans_count = v.consecutive_retrans_count
    /\ t.outstanding = v.outstanding \o segments
    /\ t.timer_running <=> t.outstanding # <<>>

LEMMA TrackResult ==
    ASSUME NEW v \in Senders, v.timer_running <=> v.outstanding # <<>>,
           NEW segments \in Seq(SenderMessages)
    PROVE  Tracked(Track(v, segments), v, segments)
<1>1. v.outstanding \in Seq(SenderMessages)
  BY DEF Senders
<1>2. CASE segments = <<>>
  <2>1. Track(v, segments) = v
    BY <1>2 DEF Track
  <2>2. v.outstanding \o segments = v.outstanding
    BY <1>1, <1>2, ConcatEmptySeq
  <2> QED
    BY <2>1, <2>2 DEF Tracked
<1>3. CASE segments # <<>>
  <2>1. PICK all : all = v.outstanding \o segments
    OBVIOUS
  <2>2. all \in Seq(SenderMessages) /\ all # <<>>
    <3>1. all \in Seq(SenderMessages) /\ Len(all) = Len(v.outstanding) + Len(segments)
      BY <1>1, <2>1, ConcatProperties
    <3>2. PICK l \in Nat, m \in Nat : l = Len(v.outstanding) /\ m = Len(segments) /\ m # 0
      BY <1>1, <1>3, LenProperties, EmptySeq
    <3>3. Len(all) # 0
      BY <3>1, <3>2
    <3> QED
      BY <3>1, <3>3, EmptySeq
  <2>3. PICK k : k = [v EXCEPT !.outstanding = all]
    OBVIOUS
  <2>4. /\ k \in Senders /\ k.outstanding = all /\ k.timer_running = v.timer_running
        /\ k.input = v.input /\ k.isn = v.isn /\ k.next_seqno = v.next_seqno
        /\ k.last_ackno = v.last_ackno /\ k.sender_syn = v.sender_syn /\ k.fin_sent = v.fin_sent
        /\ k.current_RTO = v.current_RTO
        /\ k.consecutive_retrans_count = v.consecutive_retrans_count
    BY <2>2, <2>3 DEF Senders
  <2>5. Track(v, segments) = IF k.timer_running THEN k
                             ELSE [k EXCEPT !.timer_running = TRUE, !.timer_elapsed = 0]
    BY <1>3, <2>1, <2>3 DEF Track, StartTimerIfIdle, StartTimer
  <2>6. CASE k.timer_running
    BY <2>1, <2>2, <2>4, <2>5, <2>6 DEF Tracked
  <2>7. CASE ~k.timer_running
    <3>1. PICK t : t = [k EXCEPT !.timer_running = TRUE, !.timer_elapsed = 0]
      OBVIOUS
    <3>2. /\ t \in Senders /\ t.outstanding = all /\ t.timer_running
          /\ t.input = k.input /\ t.isn = k.isn /\ t.next_seqno = k.next_seqno
          /\ t.last_ackno = k.last_ackno /\ t.sender_syn = k.sender_syn /\ t.fin_sent = k.fin_sent
          /\ t.current_RTO = k.current_RTO
          /\ t.consecutive_retrans_count = k.consecutive_retrans_count
      BY <2>4, <3>1 DEF Senders
    <3> QED
      BY <2>1, <2>2, <2>4, <2>5, <2>7, <3>1, <3>2 DEF Tracked
  <2> QED
    BY <2>6, <2>7
<1> QED
  BY <1>2, <1>3

(* What is outstanding takes a number of sequence numbers.                  *)
LEMMA InFlightType ==
    ASSUME NEW s, NEW a, SenderInv(s, a)
    PROVE  /\ SequenceNumbersInFlight(s) \in Nat
           /\ SequenceNumbersInFlight(s) = 0 <=> s.outstanding = <<>>
           /\ s.outstanding = <<>> => a = NextAbs(s)
<1>1. PICK st : AckedWithin(s, a, st)
  BY DEF SenderInv, Acked
<1>2. PICK next \in Nat : next = NextAbs(s)
  BY SenderFacts DEF SenderInv
<1>3. PICK out : out = s.outstanding /\ Chain(out, st, s.isn) /\ st[Len(out) + 1] = next
  BY <1>1, <1>2 DEF AckedWithin, Sent
<1>4. Len(out) \in Nat /\ DOMAIN out = 1 .. Len(out) /\ 1 \in 1 .. Len(out) + 1
  BY <1>3, ChainFacts
<1>5. SumFunctionOnSet([j \in DOMAIN out |-> SequenceLength(out[j])], 1 .. Len(out)) = next - st[1]
  BY <1>3, <1>4, ChainSum
<1>6. st[1] \in Nat
  BY <1>3, <1>4, ChainFacts
<1>7. st[1] <= next
  <2>1. st[1] <= a
    BY <1>1 DEF AckedWithin
  <2>2. a \in 0 .. next
    BY <1>2 DEF SenderInv, Acked
  <2> QED
    BY <1>6, <2>1, <2>2
<1>8. SequenceNumbersInFlight(s) = next - st[1]
  BY <1>3, <1>4, <1>5 DEF SequenceNumbersInFlight, SumFunction
<1>9. PICK l \in Nat : l = Len(out) /\ (l = 0 <=> out = <<>>)
  BY <1>3, ChainFacts
<1>10. PICK x \in Nat : x = st[1] /\ x <= a /\ a \in 0 .. next /\ st[l + 1] = next
  BY <1>1, <1>2, <1>3, <1>6, <1>9 DEF AckedWithin, SenderInv, Acked
<1>11. l # 0 => x < next
  <2>1. ASSUME l # 0
        PROVE  st[1] < st[l + 1]
    <3>1. 1 \in 1 .. l + 1 /\ l + 1 \in 1 .. l + 1 /\ 1 < l + 1
      BY <2>1
    <3> QED
      BY <1>3, <1>9, <3>1, ChainFacts
  <2> QED
    BY <1>10, <2>1
<1>12. l = 0 => x = next
  BY <1>9, <1>10
<1>13. (x = next <=> l = 0) /\ (l = 0 => a = next)
  BY <1>10, <1>11, <1>12
<1> QED
  BY <1>2, <1>3, <1>6, <1>7, <1>8, <1>9, <1>10, <1>13

(* What push promises: nothing goes wrong, what it sends is new unless the  *)
(* stream has an error, and after the SYN it is within the window.          *)
RoomFor(s) == IF s.window_size > 0 THEN s.window_size ELSE 1

(* What push sends is part of the stream; it goes on until the window is    *)
(* full, so that the FIN waits only if something else is outstanding.       *)
Pushes(r, s) ==
    /\ r.sent \in Seq(SenderMessages) /\ r.sender.outstanding = s.outstanding \o r.sent
    /\ r.sender.isn = s.isn /\ r.sender.sender_syn
    /\ r.sender.input.eof = s.input.eof /\ r.sender.input.error = s.input.error
    /\ BytesPushed(r.sender.input) = BytesPushed(s.input)
    /\ s.input.popped <= r.sender.input.popped
    /\ s.fin_sent => r.sender.fin_sent
    /\ IsFinished(r.sender.input) /\ ~r.sender.fin_sent => r.sender.outstanding # <<>>

PushOutcome(r, s, a) ==
    /\ SenderInv(r.sender, a)
    /\ ~s.input.error => Pushes(r, s)
    /\ r.sent # <<>> /\ ~s.input.error => NextAbs(r.sender) > NextAbs(s)
    /\ s.sender_syn /\ NextAbs(r.sender) > NextAbs(s) =>
           SequenceNumbersInFlight(r.sender) <= RoomFor(s)

(* Of nothing, no segments are made.                                        *)
LEMMA SegmentsOfNothing ==
    ASSUME NEW s
    PROVE  Segments(s, 0, FALSE) = <<>>
<1>1. MAX_PAYLOAD_SIZE \in Nat \ {0}
  BY SenderAssumption
<1>2. 0 \div MAX_PAYLOAD_SIZE = 0 /\ 0 % MAX_PAYLOAD_SIZE = 0
  BY <1>1
<1> DEFINE full == 0 \div MAX_PAYLOAD_SIZE
<1> DEFINE rest == 0 % MAX_PAYLOAD_SIZE
<1>3. PICK count : count = IF rest > 0 \/ (0 = 0 /\ FALSE) THEN full + 1 ELSE full
  OBVIOUS
<1>4. 1 .. count = {}
  BY <1>2, <1>3
<1>5. PICK segments : segments = Segments(s, 0, FALSE)
  OBVIOUS
<1>6. DOMAIN segments = 1 .. count /\ segments = [k \in 1 .. count |-> segments[k]]
  BY <1>3, <1>5 DEF Segments
<1>7. segments \in [1 .. 0 -> Nat]
  BY <1>4, <1>6
<1>8. segments \in Seq(Nat) /\ Len(segments) = 0
  BY <1>7, IsASeq
<1> QED
  BY <1>5, <1>8, EmptySeq

(* push, once the SYN has been sent.                                        *)
LEMMA PushDataResult ==
    ASSUME NEW s, NEW a, SenderInv(s, a), s.sender_syn
    PROVE  PushOutcome(PushData(s), s, a)
<1> DEFINE window == IF s.window_size > 0 THEN s.window_size ELSE 1
<1>1. PICK f \in Nat, w \in Nat : f = SequenceNumbersInFlight(s) /\ w = window /\ w = RoomFor(s)
  <2>1. s.window_size \in Nat
    BY DEF SenderInv, Senders
  <2> QED
    BY <2>1, InFlightType DEF RoomFor
<1>2. PICK next \in 0 .. Longest + 2, i \in Nat, q \in Nat :
          /\ next = NextAbs(s) /\ i = s.input.popped /\ q = Len(s.input.queue)
          /\ BytesPushed(s.input) = i + q /\ i + q <= Longest
          /\ ~s.fin_sent => next = i + 1
          /\ s.fin_sent => next = i + 2 /\ q = 0
  BY SenderFacts DEF SenderInv
<1>3. CASE f >= w
  <2>1. PushData(s) = Result(s, <<>>)
    BY <1>1, <1>3 DEF PushData
  <2>2. PushData(s).sender = s /\ PushData(s).sent = <<>>
    BY <2>1 DEF Result
  <2>3. ~(next > next)
    BY <1>2
  <2>4. s.outstanding # <<>>
    <3>1. w > 0
      BY <1>1
    <3> QED
      BY <1>1, <1>3, <3>1, InFlightType
  <2>5. s.outstanding \o <<>> = s.outstanding /\ i <= i
    BY ConcatEmptySeq DEF SenderInv, Senders
  <2>6. Pushes(PushData(s), s)
    BY <1>2, <2>2, <2>4, <2>5 DEF Pushes
  <2> QED
    BY <1>2, <2>2, <2>3, <2>6 DEF PushOutcome
<1>4. CASE ~(f >= w)
  <2>1. PICK size \in Nat : size = Least(w - f, BytesBuffered(s.input)) /\ size <= q /\ size <= w - f
    <3>1. BytesBuffered(s.input) = q
      BY <1>2 DEF BytesBuffered
    <3>2. Least(w - f, q) \in Nat /\ Least(w - f, q) <= q /\ Least(w - f, q) <= w - f
      BY <1>4 DEF Least
    <3> QED
      BY <3>1, <3>2
  <2>2. PICK fin \in BOOLEAN : fin <=> FinFits(s, size, w - f)
    OBVIOUS
  <2>3. /\ fin => s.input.eof /\ ~s.fin_sent /\ size = q /\ size + 1 <= w - f
        /\ s.fin_sent => ~fin /\ size = 0
        /\ s.input.eof /\ ~s.fin_sent /\ size = q /\ ~fin => size = w - f
    <3>1. BytesBuffered(s.input) = q
      BY <1>2 DEF BytesBuffered
    <3>2. fin <=> s.input.eof /\ ~s.fin_sent /\ size = q /\ size + 1 <= w - f
      BY <2>2, <3>1 DEF FinFits, IsClosed
    <3>3. ~(size + 1 <= w - f) => size = w - f
      BY <2>1
    <3> QED
      BY <1>2, <2>1, <3>2, <3>3
  <2>4. PICK segments : segments = Segments(s, size, fin)
    OBVIOUS
  <2>5. PICK input : input = StreamPop(s.input, size)
    OBVIOUS
  <2>6. PICK v : v = [s EXCEPT !.input = input, !.fin_sent = @ \/ fin,
                              !.next_seqno = Wrap(size + Flag(fin), @)]
    OBVIOUS
  <2>7. PICK t : t = Track(v, segments)
    OBVIOUS
  <2>8. PushData(s).sender = t /\ PushData(s).sent = segments
    <3>1. fin = FinFits(s, size, w - f)
      BY <2>2 DEF FinFits, IsClosed
    <3>2. PushData(s) = Result(t, segments)
      BY <1>1, <1>4, <2>1, <2>4, <2>5, <2>6, <2>7, <3>1 DEF PushData
    <3> QED
      BY <3>2 DEF Result
  <2>9. PICK g \in 0 .. 1 : g = Flag(fin) /\ (fin => g = 1) /\ (~fin => g = 0)
    BY DEF Flag
  <2>10. PICK r : /\ Chain(segments, r, s.isn) /\ r[1] = next
                  /\ r[Len(segments) + 1] = next + size + g
                  /\ FinIsLast(segments, fin) /\ (fin => segments # <<>>)
                  /\ (s.fin_sent => segments = <<>>)
    <3>1. CASE s.fin_sent
      <4>1. size = 0 /\ fin = FALSE /\ g = 0
        BY <2>3, <2>9, <3>1
      <4>2. segments = <<>>
        BY <2>4, <4>1, SegmentsOfNothing
      <4>3. PICK r : r = [k \in 1 .. 0 + 1 |-> next]
        OBVIOUS
      <4>4. Chain(<<>>, r, s.isn) /\ FinIsLast(<<>>, fin) /\ Len(<<>>) = 0 /\ r[1] = next
            /\ r[0 + 1] = next
        BY <4>3 DEF Chain, FinIsLast
      <4>5. next + size + g = next
        BY <4>1
      <4> QED
        BY <4>1, <4>2, <4>4, <4>5
    <3>2. CASE ~s.fin_sent
      <4>1. /\ s.isn \in Seqnos /\ StreamIntact(s.input) /\ next \in Nat
            /\ next = s.input.popped + 1 /\ s.next_seqno = Wrap(next, s.isn)
            /\ size \in 0 .. Len(s.input.queue)
        BY <1>2, <2>1, <3>2 DEF SenderInv, Senders, Written, Acked, AckedWithin, Sent
      <4>2. /\ FinIsLast(segments, fin) /\ (fin => segments # <<>>)
            /\ \E st : /\ Chain(segments, st, s.isn) /\ st[1] = next
                       /\ st[Len(segments) + 1] = next + size + Flag(fin)
        BY <2>4, <4>1, SegmentsResult
      <4> QED
        BY <2>9, <3>2, <4>2
    <3> QED
      BY <3>1, <3>2
  <2>11. /\ StreamIntact(input) /\ input.eof = s.input.eof /\ BytesPushed(input) = i + q
         /\ input.popped = i + size /\ input.error = s.input.error
    <3>1. StreamIntact(s.input)
      BY DEF SenderInv, Written
    <3>2. /\ StreamIntact(input) /\ input.eof = s.input.eof /\ input.error = s.input.error
          /\ BytesPushed(input) = BytesPushed(s.input)
          /\ input.popped = Least(s.input.popped + size, BytesPushed(s.input))
      BY <2>5, <3>1, PopResult
    <3>3. Least(i + size, i + q) = i + size
      BY <1>2, <2>1 DEF Least
    <3> QED
      BY <1>2, <3>2, <3>3
  <2>12. size = q => input.queue = <<>>
    <3>1. PICK l \in Nat, p \in Nat : l = Len(input.queue) /\ p = input.popped /\ BytesPushed(input) = p + l
      BY <2>11, StreamFacts
    <3>2. size = q => l = 0
      BY <1>2, <2>1, <2>11, <3>1, SMTT(30)
    <3>3. input.queue \in Seq(Nat)
      BY <2>11 DEF StreamIntact, Streams
    <3> QED
      BY <3>1, <3>2, <3>3, EmptySeq
  <2>13. v.next_seqno = Wrap(next + size + g, s.isn) /\ v.next_seqno \in Seqnos
    <3>1. s.next_seqno = Wrap(next, s.isn) /\ s.isn \in Seqnos
      BY <1>2 DEF SenderInv, Senders, Acked, AckedWithin, Sent
    <3>2. PICK d \in Nat : d = size + g /\ next + d = next + size + g
      BY <1>2, <2>1, <2>9
    <3>3. v.next_seqno = Wrap(d, s.next_seqno)
      BY <2>6, <2>9, <3>2 DEF SenderInv, Senders
    <3>4. next \in Int /\ d \in Int /\ next + d \in Int
      BY <1>2
    <3>5. Wrap(d, Wrap(next, s.isn)) = Wrap(next + d, s.isn) /\ Wrap(next + d, s.isn) \in Seqnos
      BY <3>1, <3>4, WrapOn
    <3> QED
      BY <3>1, <3>2, <3>3, <3>5
  <2>14. PICK y \in BOOLEAN : y = (s.fin_sent \/ fin)
    OBVIOUS
  <2>15. /\ v \in Senders /\ v.input = input /\ v.isn = s.isn /\ v.last_ackno = s.last_ackno
         /\ v.sender_syn = s.sender_syn /\ v.fin_sent = y
         /\ v.timer_running = s.timer_running /\ v.outstanding = s.outstanding
         /\ v.current_RTO = s.current_RTO
         /\ v.consecutive_retrans_count = s.consecutive_retrans_count
    <3>1. v = [s EXCEPT !.input = input, !.fin_sent = y, !.next_seqno = v.next_seqno]
      BY <2>6, <2>14 DEF SenderInv, Senders
    <3>2. input \in Streams(Nat)
      BY <2>11 DEF StreamIntact
    <3> QED
      BY <2>13, <3>1, <3>2 DEF SenderInv, Senders
  <2>16. Tracked(t, v, segments)
    <3>1. v.timer_running <=> v.outstanding # <<>>
      BY <2>15, Zenon DEF SenderInv, Timed
    <3>2. segments \in Seq(SenderMessages)
      BY <2>10 DEF Chain
    <3> QED
      BY <2>7, <2>15, <3>1, <3>2, TrackResult
  <2>17. NextAbs(t) = next + size + g
    <3>1. PICK x, z : x = Flag(s.fin_sent) /\ z = Flag(y)
      OBVIOUS
    <3>2. x \in 0 .. 1 /\ z \in 0 .. 1 /\ next = 1 + i + x /\ z = x + g
      <4>1. CASE s.fin_sent
        <5>1. x = 1
          BY <3>1, <4>1 DEF Flag
        <5>2. y
          BY <2>14, <4>1
        <5>3. z = 1
          BY <3>1, <5>2 DEF Flag
        <5>4. g = 0 /\ next = i + 2
          BY <1>2, <2>3, <2>9, <4>1
        <5> QED
          BY ONLY <5>1, <5>3, <5>4, i \in Nat
      <4>2. CASE ~s.fin_sent
        <5>1. x = 0
          BY <3>1, <4>2 DEF Flag
        <5>2. y <=> fin
          BY <2>14, <4>2
        <5>3. z = g
          BY <2>9, <3>1, <5>2 DEF Flag
        <5>4. next = i + 1
          BY <1>2, <4>2
        <5> QED
          BY ONLY <5>1, <5>3, <5>4, i \in Nat, g \in 0 .. 1
      <4> QED
        BY <4>1, <4>2
    <3>3. t.sender_syn /\ t.input.popped = i + size /\ t.fin_sent = y
      BY <2>11, <2>15, <2>16 DEF Tracked
    <3>4. NextAbs(t) = 1 + (i + size) + z
      <4>1. Flag(t.sender_syn) = 1 /\ Flag(t.fin_sent) = z
        BY <3>3, <3>1 DEF Flag
      <4> QED
        BY <3>3, <4>1 DEF NextAbs
    <3>5. 1 + (i + size) + z = next + size + g
      BY <2>1, <3>2
    <3> QED
      BY <3>4, <3>5
  <2>18. Written(t)
    <3>1. t.sender_syn /\ t.input = input /\ t.fin_sent = y
      BY <2>15, <2>16 DEF Tracked
    <3>2. BytesPushed(input) <= Longest
      BY <1>2, <2>11
    <3>3. y => IsFinished(input)
      <4>1. CASE s.fin_sent
        <5>1. s.input.eof
          BY <4>1 DEF SenderInv, Written, IsFinished
        <5>2. size = q
          BY <1>2, <2>3, <4>1
        <5> QED
          BY <2>11, <2>12, <5>1, <5>2 DEF IsFinished
      <4>2. CASE ~s.fin_sent
        BY <2>3, <2>11, <2>12, <2>14, <4>2 DEF IsFinished
      <4> QED
        BY <4>1, <4>2
    <3> QED
      BY <2>11, <3>1, <3>2, <3>3 DEF Written
  <2>19. Timed(t)
    BY <2>15, <2>16, Zenon DEF Tracked, SenderInv, Timed
  <2>20. /\ SenderInv(t, a)
         /\ SequenceNumbersInFlight(t) = SequenceNumbersInFlight(s) + (NextAbs(t) - NextAbs(s))
    <3>1. r[Len(segments) + 1] = NextAbs(t) /\ r[1] = NextAbs(s)
      BY <1>2, <2>10, <2>17
    <3>2. /\ t \in Senders /\ t.isn = s.isn /\ t.next_seqno = Wrap(NextAbs(t), s.isn)
          /\ t.last_ackno = s.last_ackno /\ (t.fin_sent <=> (s.fin_sent \/ fin))
          /\ t.outstanding = s.outstanding \o segments
      BY <2>13, <2>14, <2>15, <2>16, <2>17 DEF Tracked
    <3> QED
      BY <2>10, <2>18, <2>19, <3>1, <3>2, SendMore
  <2>21. segments # <<>> => next + size + g > next
    <3>1. PICK m \in Nat : m = Len(segments) /\ (m = 0 => segments = <<>>)
      BY <2>10, ChainFacts
    <3>2. ASSUME m > 0
          PROVE  next + size + g > next
      <4>1. 1 \in 1 .. m + 1 /\ m + 1 \in 1 .. m + 1 /\ 1 < m + 1
        BY <3>2
      <4>2. r[1] < r[m + 1]
        BY <2>10, <3>1, <4>1, ChainFacts
      <4>3. next < next + size + g
        BY <2>10, <3>1, <4>2
      <4> QED
        BY <1>2, <2>1, <2>9, <4>3
    <3> QED
      BY <3>1, <3>2
  <2>22. f + ((next + size + g) - next) <= w
    <3>1. /\ f \in Nat /\ w \in Nat /\ next \in Nat /\ size \in Nat /\ g \in 0 .. 1
          /\ size <= w - f /\ (g = 0 \/ size + 1 <= w - f)
      BY <2>1, <2>3, <2>9
    <3> QED
      BY ONLY <3>1
  <2>23. SequenceNumbersInFlight(t) <= RoomFor(s)
    BY <1>1, <1>2, <2>17, <2>20, <2>22
  <2>24. IsFinished(input) /\ ~y => t.outstanding # <<>>
    <3>1. SUFFICES ASSUME IsFinished(input), ~y PROVE t.outstanding # <<>>
      OBVIOUS
    <3>2. PICK l \in Nat, p \in Nat : l = Len(input.queue) /\ p = input.popped /\ BytesPushed(input) = p + l
      BY <2>11, StreamFacts
    <3>3. input.eof /\ l = 0
      BY <3>1, <3>2, EmptySeq DEF IsFinished
    <3>4. size = q
      BY <2>1, <2>11, <3>2, <3>3
    <3>5. ~s.fin_sent /\ ~fin
      BY <2>14, <3>1
    <3>6. size = w - f
      BY <2>3, <2>11, <3>3, <3>4, <3>5
    <3>7. PICK z \in Nat : z = SequenceNumbersInFlight(t) /\ (z = 0 <=> t.outstanding = <<>>)
      BY <2>20, InFlightType
    <3>8. z = f + ((next + size + g) - next)
      BY <1>1, <1>2, <2>17, <2>20, <3>7
    <3>9. z # 0
      BY <1>4, <2>1, <2>9, <3>6, <3>8
    <3> QED
      BY <3>7, <3>9
  <2>25. Pushes(PushData(s), s)
    <3>1. /\ t.isn = s.isn /\ t.sender_syn = s.sender_syn /\ t.input = input /\ t.fin_sent = y
          /\ t.outstanding = s.outstanding \o segments
      BY <2>15, <2>16 DEF Tracked
    <3>2. segments \in Seq(SenderMessages)
      BY <2>10 DEF Chain
    <3>3. s.input.popped <= input.popped /\ BytesPushed(input) = BytesPushed(s.input)
      BY <1>2, <2>1, <2>11
    <3> QED
      BY <2>8, <2>11, <2>14, <2>24, <3>1, <3>2, <3>3 DEF Pushes
  <2> QED
    BY <1>2, <2>8, <2>17, <2>20, <2>21, <2>23, <2>25 DEF PushOutcome
<1> QED
  BY <1>3, <1>4

(* The segment with the SYN, what bytes and FIN go along.                   *)
SynMessage(isn, data, fin) == SenderMessage(isn, TRUE, data, fin, FALSE)

CarriesSyn(seg, isn, data, fin) ==
    /\ SequenceLength(seg) = 1 + Len(data) + Flag(fin)
    /\ \E r : /\ Chain(<<seg>>, r, isn) /\ r[1] = 0
              /\ r[Len(<<seg>>) + 1] = 1 + Len(data) + Flag(fin)
    /\ FinIsLast(<<seg>>, fin)

LEMMA SynCarries ==
    ASSUME NEW isn \in Seqnos, NEW data, IsRun(data, 0), NEW fin \in BOOLEAN
    PROVE  CarriesSyn(SynMessage(isn, data, fin), isn, data, fin)
<1>1. PICK seg : seg = SynMessage(isn, data, fin)
  OBVIOUS
<1>2. seg = [seqno |-> isn, SYN |-> TRUE, payload |-> data, FIN |-> fin, RST |-> FALSE]
  BY <1>1 DEF SynMessage, SenderMessage
<1>3. PICK n \in Nat, f \in 0 .. 1 : n = Len(data) /\ f = Flag(fin)
  BY LenProperties DEF IsRun, Flag
<1>4. /\ seg.seqno = isn /\ seg.SYN = TRUE /\ seg.payload = data /\ seg.FIN = fin
      /\ seg \in SenderMessages /\ ~seg.RST
  BY <1>2 DEF SenderMessages, IsRun
<1>5. Flag(seg.SYN) = 1 /\ Flag(seg.FIN) = f /\ Len(seg.payload) = n
  BY <1>3, <1>4 DEF Flag
<1>6. SequenceLength(seg) = 1 + n + f
  BY <1>5 DEF SequenceLength
<1>7. isn = Wrap(0, isn)
  BY WrapNothing
<1>8. seg.payload = Bytes(0 + Flag(seg.SYN) - 1, Len(seg.payload))
  <2>1. data = [j \in 1 .. Len(data) |-> 0 + j - 1]
    BY RunIsBytes
  <2>2. 0 + Flag(seg.SYN) - 1 = 0
    BY <1>5
  <2> QED
    BY <1>4, <2>1, <2>2, Zenon DEF Bytes
<1>9. FromStream(seg, 0, isn)
  <2>1. SequenceLength(seg) > 0
    BY <1>3, <1>6
  <2>2. seg.seqno = Wrap(0, isn)
    BY <1>4, <1>7
  <2> QED
    BY <1>4, <1>8, <2>1, <2>2 DEF FromStream
<1>10. PICK r : r = [k \in 1 .. 1 + 1 |-> IF k = 1 THEN 0 ELSE 1 + n + f]
  OBVIOUS
<1>11. r \in [1 .. 1 + 1 -> Nat] /\ r[1] = 0 /\ r[1 + 1] = 1 + n + f
  BY <1>3, <1>10
<1>12. <<seg>> \in Seq(SenderMessages) /\ Len(<<seg>>) = 1 /\ <<seg>>[1] = seg /\ 1 .. 1 = {1}
  BY <1>4
<1>13. Chain(<<seg>>, r, isn)
  <2>1. r[1 + 1] = r[1] + SequenceLength(seg)
    BY <1>3, <1>6, <1>11
  <2> QED
    BY <1>9, <1>11, <1>12, <2>1 DEF Chain
<1>14. FinIsLast(<<seg>>, fin)
  BY <1>4, <1>12 DEF FinIsLast
<1> QED
  BY <1>3, <1>6, <1>11, <1>12, <1>13, <1>14, <1>1 DEF CarriesSyn

(* push, before the SYN has been sent.                                      *)
LEMMA PushSynResult ==
    ASSUME NEW s, NEW a, SenderInv(s, a), ~s.sender_syn
    PROVE  PushOutcome(PushSyn(s), s, a)
<1>1. PICK q \in Nat : /\ NextAbs(s) = 0 /\ s.input.popped = 0 /\ q = Len(s.input.queue)
                      /\ BytesPushed(s.input) = q /\ q <= Longest
  BY SenderFacts DEF SenderInv
<1>2. s.fin_sent = FALSE /\ s.outstanding = <<>> /\ s.isn \in Seqnos
  BY DEF SenderInv, Senders, Written
<1> DEFINE effective == (s.window_size - 1) % WORD
<1>3. PICK size \in 0 .. q :
          size = Least(Least(MAX_PAYLOAD_SIZE, effective), BytesBuffered(s.input))
  <2>1. PICK w \in Nat, d \in Int : w = s.window_size /\ d = WORD /\ d > 0
    BY WrapAssumption DEF SenderInv, Senders
  <2>2. (w - 1) % d \in Nat
    <3>1. ((w - 1) % d) \in 0 .. d - 1
      BY <2>1, DivMod
    <3> QED
      BY <2>1, <3>1
  <2>3. PICK e \in Nat, m \in Nat : e = effective /\ m = MAX_PAYLOAD_SIZE
    BY <2>1, <2>2, SenderAssumption
  <2>4. Least(Least(m, e), q) \in 0 .. q
    BY DEF Least
  <2> QED
    BY <1>1, <2>3, <2>4 DEF BytesBuffered
<1>4. PICK input : input = StreamPop(s.input, size)
  OBVIOUS
<1>5. PICK fin \in BOOLEAN : fin <=> (IsFinished(input) /\ ~s.fin_sent)
  OBVIOUS
<1>6. PICK data : data = StreamRead(s.input, size)
  OBVIOUS
<1>7. PICK msg : msg = SynMessage(s.isn, data, fin)
  OBVIOUS
<1>8. PICK v : v = [s EXCEPT !.sender_syn = TRUE, !.input = input, !.fin_sent = @ \/ fin,
                            !.next_seqno = Wrap(SequenceLength(msg), s.isn)]
  OBVIOUS
<1>9. PICK t : t = Track(v, <<msg>>)
  OBVIOUS
<1>10. PushSyn(s).sender = t /\ PushSyn(s).sent = <<msg>>
  <2>1. fin = (IsFinished(input) /\ ~s.fin_sent)
    BY <1>2, <1>5 DEF IsFinished
  <2>2. PushSyn(s) = Result(t, <<msg>>)
    BY <1>3, <1>4, <1>6, <1>7, <1>8, <1>9, <2>1 DEF PushSyn, SynMessage
  <2> QED
    BY <2>2 DEF Result
<1>11. IsRun(data, 0) /\ Len(data) = size
  <2>1. PICK queue : queue = s.input.queue /\ IsRun(queue, 0) /\ Len(queue) = q
    BY <1>1 DEF SenderInv, Written, StreamIntact
  <2>2. Least(size, q) = size
    BY <1>3 DEF Least
  <2>3. data = Take(queue, size)
    BY <1>1, <1>6, <2>1, <2>2 DEF StreamRead
  <2>4. size \in 0 .. Len(queue)
    BY <2>1
  <2> QED
    BY <2>1, <2>3, <2>4, RunTake
<1>12. PICK g \in 0 .. 1 : g = Flag(fin)
  BY DEF Flag
<1>13. PICK r : /\ SequenceLength(msg) = 1 + size + g
                /\ Chain(<<msg>>, r, s.isn) /\ r[1] = 0 /\ r[Len(<<msg>>) + 1] = 1 + size + g
                /\ FinIsLast(<<msg>>, fin)
  <2>1. CarriesSyn(msg, s.isn, data, fin)
    BY <1>2, <1>7, <1>11, SynCarries
  <2> QED
    BY <1>11, <1>12, <2>1 DEF CarriesSyn
<1>14. /\ StreamIntact(input) /\ input.eof = s.input.eof /\ BytesPushed(input) = q
       /\ input.popped = size /\ input.error = s.input.error
  <2>1. StreamIntact(s.input) /\ size \in Nat
    BY <1>3 DEF SenderInv, Written
  <2>2. /\ StreamIntact(input) /\ input.eof = s.input.eof /\ input.error = s.input.error
        /\ BytesPushed(input) = BytesPushed(s.input)
        /\ input.popped = Least(s.input.popped + size, BytesPushed(s.input))
    BY <1>4, <2>1, PopResult
  <2>3. Least(0 + size, q) = size
    BY <1>3 DEF Least
  <2> QED
    BY <1>1, <2>2, <2>3
<1>15. PICK n \in Nat, x \in Seqnos : n = 1 + size + g /\ x = Wrap(n, s.isn)
  <2>1. 1 + size + g \in Nat
    BY <1>3, <1>12
  <2> QED
    BY <1>2, <2>1, WrapOn
<1>16. /\ v \in Senders /\ v.input = input /\ v.isn = s.isn /\ v.last_ackno = s.last_ackno
       /\ v.sender_syn = TRUE /\ v.fin_sent = fin /\ v.next_seqno = x
       /\ v.timer_running = s.timer_running /\ v.outstanding = s.outstanding
       /\ v.current_RTO = s.current_RTO
       /\ v.consecutive_retrans_count = s.consecutive_retrans_count
  <2>1. SequenceLength(msg) = n
    BY <1>13, <1>15
  <2>2. v = [s EXCEPT !.sender_syn = TRUE, !.input = input, !.fin_sent = fin, !.next_seqno = x]
    BY <1>2, <1>8, <1>15, <2>1 DEF SenderInv, Senders
  <2>3. input \in Streams(Nat)
    BY <1>14 DEF StreamIntact
  <2> QED
    BY <2>2, <2>3 DEF SenderInv, Senders
<1>17. Tracked(t, v, <<msg>>)
  <2>1. v.timer_running <=> v.outstanding # <<>>
    BY <1>16, Zenon DEF SenderInv, Timed
  <2>2. <<msg>> \in Seq(SenderMessages)
    BY <1>13 DEF Chain
  <2> QED
    BY <1>9, <1>16, <2>1, <2>2, TrackResult
<1>18. NextAbs(t) = n
  <2>1. t.sender_syn = TRUE /\ t.input.popped = size /\ t.fin_sent = fin
    BY <1>14, <1>16, <1>17 DEF Tracked
  <2>2. Flag(t.sender_syn) = 1 /\ Flag(t.fin_sent) = g
    BY <1>12, <2>1 DEF Flag
  <2> QED
    BY <1>15, <2>1, <2>2 DEF NextAbs
<1>19. Written(t)
  <2>1. t.sender_syn = TRUE /\ t.input = input /\ t.fin_sent = fin
    BY <1>16, <1>17 DEF Tracked
  <2>2. BytesPushed(input) <= Longest
    BY <1>1, <1>14
  <2>3. fin => IsFinished(input)
    BY <1>5
  <2> QED
    BY <1>14, <2>1, <2>2, <2>3 DEF Written
<1>20. Timed(t)
  BY <1>16, <1>17, Zenon DEF Tracked, SenderInv, Timed
<1>21. SenderInv(t, a)
  <2>1. r[Len(<<msg>>) + 1] = NextAbs(t) /\ r[1] = NextAbs(s)
    BY <1>1, <1>13, <1>15, <1>18
  <2>2. /\ t \in Senders /\ t.isn = s.isn /\ t.next_seqno = Wrap(NextAbs(t), s.isn)
        /\ t.last_ackno = s.last_ackno /\ (t.fin_sent <=> (s.fin_sent \/ fin))
        /\ t.outstanding = s.outstanding \o <<msg>>
    BY <1>2, <1>15, <1>16, <1>17, <1>18 DEF Tracked
  <2>3. <<msg>> # <<>> /\ ~s.fin_sent
    BY <1>2
  <2> QED
    BY <1>13, <1>19, <1>20, <2>1, <2>2, <2>3, SendMore
<1>22. n > 0
  BY <1>3, <1>12, <1>15
<1>23. Pushes(PushSyn(s), s)
  <2>1. /\ t.isn = s.isn /\ t.sender_syn = TRUE /\ t.input = input /\ t.fin_sent = fin
        /\ t.outstanding = s.outstanding \o <<msg>>
    BY <1>16, <1>17 DEF Tracked
  <2>2. <<msg>> \in Seq(SenderMessages)
    BY <1>13 DEF Chain
  <2>3. s.input.popped <= input.popped /\ BytesPushed(input) = BytesPushed(s.input)
    BY <1>1, <1>3, <1>14
  <2>4. IsFinished(input) => fin
    BY <1>2, <1>5
  <2> QED
    BY <1>2, <1>10, <1>14, <2>1, <2>2, <2>3, <2>4 DEF Pushes
<1> QED
  BY <1>1, <1>10, <1>18, <1>21, <1>22, <1>23 DEF PushOutcome

(* A new sender has sent nothing, and nothing is acknowledged.              *)
LEMMA NewSenderResult ==
    ASSUME Longest \in Nat, NEW isn \in Seqnos, NEW capacity \in Nat
    PROVE  SenderInv(NewSender(NewStream(capacity), isn), 0)
<1>1. PICK input : input = NewStream(capacity)
  OBVIOUS
<1>2. PICK s : s = NewSender(input, isn)
  OBVIOUS
<1>3. StreamIntact(input) /\ BytesPushed(input) = 0 /\ input.popped = 0
  <2>1. input = [capacity |-> capacity, queue |-> <<>>, popped |-> 0,
                 eof |-> FALSE, error |-> FALSE]
    BY <1>1 DEF NewStream
  <2>2. IsRun(<<>>, 0) /\ Len(<<>>) = 0
    BY RunEmpty
  <2>3. <<>> \in Seq(Nat) /\ capacity \in Nat
    OBVIOUS
  <2> QED
    BY <2>1, <2>2, <2>3 DEF StreamIntact, Streams, BytesPushed
<1>4. s \in Senders
  <2>1. input \in Streams(Nat)
    BY <1>3 DEF StreamIntact
  <2>2. InitialRTO \in Nat /\ <<>> \in Seq(SenderMessages)
    BY SenderAssumption
  <2> QED
    BY <1>2, <2>1, <2>2 DEF NewSender, Senders
<1>5. /\ s.input = input /\ s.isn = isn /\ s.next_seqno = isn /\ s.last_ackno = isn
      /\ s.current_RTO = InitialRTO /\ s.sender_syn = FALSE /\ s.fin_sent = FALSE
      /\ s.timer_running = FALSE /\ s.consecutive_retrans_count = 0 /\ s.outstanding = <<>>
  BY <1>2 DEF NewSender
<1>6. NextAbs(s) = 0
  BY <1>3, <1>5 DEF NextAbs, Flag
<1>7. Written(s)
  <2>1. BytesPushed(input) <= Longest
    BY <1>3
  <2> QED
    BY <1>3, <1>5, <2>1 DEF Written
<1>8. Timed(s)
  <2>1. PICK m \in Nat : m = InitialRTO /\ m * 1 = m
    BY SenderAssumption
  <2>2. 2 ^ 0 = 1
    BY PowersOfTwo
  <2>3. s.current_RTO = InitialRTO * 2 ^ s.consecutive_retrans_count
    BY <1>5, <2>1, <2>2, Zenon
  <2> QED
    BY <1>5, <2>3 DEF Timed
<1>9. Acked(s, 0)
  <2>1. isn = Wrap(0, isn)
    BY WrapNothing
  <2>2. PICK st : st = [k \in 1 .. 0 + 1 |-> 0]
    OBVIOUS
  <2>3. Chain(<<>>, st, isn) /\ FinIsLast(<<>>, FALSE) /\ Len(<<>>) = 0 /\ st[0 + 1] = 0
    BY <2>2 DEF Chain, FinIsLast
  <2>4. Sent(s, 0, st)
    BY <1>5, <2>1, <2>3 DEF Sent
  <2>5. st[1] = 0 /\ 0 + 1 = 1
    BY <2>2
  <2>6. AckedWithin(s, 0, st)
    BY <1>5, <1>6, <2>4, <2>5 DEF AckedWithin
  <2>7. 0 \in 0 .. NextAbs(s)
    BY <1>6
  <2>8. s.last_ackno = Wrap(0, s.isn) /\ FinIsLast(s.outstanding, s.fin_sent)
    BY <1>5, <2>1, <2>3
  <2> QED
    BY <2>6, <2>7, <2>8 DEF Acked
<1> QED
  BY <1>1, <1>2, <1>4, <1>7, <1>8, <1>9 DEF SenderInv

(* push, in any state.                                                      *)
LEMMA PushOfSender ==
    ASSUME NEW s, NEW a, SenderInv(s, a)
    PROVE  PushOutcome(SenderPush(s), s, a)
<1>1. CASE s.input.error
  <2>1. SenderPush(s).sender = s
    BY <1>1 DEF SenderPush, Result
  <2>2. PICK next \in Nat : next = NextAbs(s)
    BY SenderFacts DEF SenderInv
  <2>3. ~(next > next)
    OBVIOUS
  <2> QED
    BY <1>1, <2>1, <2>2, <2>3 DEF PushOutcome
<1>2. CASE ~s.input.error /\ s.sender_syn
  BY <1>2, PushDataResult DEF SenderPush
<1>3. CASE ~s.input.error /\ ~s.sender_syn
  BY <1>3, PushSynResult DEF SenderPush
<1> QED
  BY <1>1, <1>2, <1>3

-----------------------------------------------------------------------------
(* One direction of the connection. s sends a stream of so many bytes and   *)
(* was given acknos up to a; r receives it.                                 *)
Serving(s, a, isn, length) ==
    /\ SenderInv(s, a) /\ s.isn = isn /\ ~s.input.error
    /\ BytesPushed(s.input) <= length
    /\ s.input.eof => BytesPushed(s.input) = length

(* An empty message behind the FIN may be stored one byte behind the stream. *)
Hearing(r, isn, length) ==
    /\ r = [reassembler |-> r.reassembler, isn |-> r.isn, isn_set |-> r.isn_set]
    /\ r.isn_set \in BOOLEAN /\ (r.isn_set => r.isn = isn)
    /\ Intact(r.reassembler, length, length + 1) /\ ~r.reassembler.output.error

(* What has been received was sent.                                         *)
Coupled(s, r) ==
    /\ r.isn_set => s.sender_syn
    /\ \A x \in Nat : HoldsIndex(r.reassembler, x) => x < s.input.popped
    /\ r.reassembler.output.eof \/ r.reassembler.last_byte # NoLastByte => s.fin_sent

(* A message that holds a part of what was sent.                            *)
FitsAt(m, s, length, n, i) ==
    /\ i = n - 1 + Flag(m.SYN) /\ (m.SYN <=> n = 0)
    /\ m.seqno = Wrap(n, s.isn) /\ IsRun(m.payload, i)
    /\ Len(m.payload) > 0 => i + Len(m.payload) <= s.input.popped
    /\ m.FIN => s.fin_sent /\ i + Len(m.payload) = length

Fits(m, s, length) ==
    /\ m \in SenderMessages /\ ~m.RST /\ (m.SYN => s.sender_syn)
    /\ \E n \in 0 .. NextAbs(s), i \in Nat : FitsAt(m, s, length, n, i)

(* What r has received of the sequence numbers, in order.                   *)
InOrder(r) == Flag(r.isn_set) + NextByteIndex(r.reassembler) + Flag(r.reassembler.output.eof)

(* A message that acknowledges no more than that.                           *)
Answers(m, r) ==
    /\ ~m.RST /\ m.window_size \in Nat
    /\ m.ackno = NoAckno \/ (r.isn_set /\ \E b \in 1 .. InOrder(r) : m.ackno = Wrap(b, r.isn))

(* there are the messages on their way to r, back those on their way to s.  *)
Flow(s, r, there, back, isn, length) ==
    /\ \E a : Serving(s, a, isn, length) /\ a <= InOrder(r)
    /\ Hearing(r, isn, length) /\ Coupled(s, r)
    /\ \A m \in there : Fits(m.sender, s, length)
    /\ \A m \in back : Answers(m.receiver, r)

(* A FIN waits only as long as something else is outstanding: the           *)
(* acknowledgment of that makes push send it.                               *)
PushedAll(s) == IsFinished(s.input) /\ ~s.fin_sent => s.outstanding # <<>>

-----------------------------------------------------------------------------
(* The counters of a sender and a receiver.                                 *)
SenderCounts(s, n, i, q, length) ==
    /\ n = NextAbs(s) /\ i = s.input.popped /\ q = Len(s.input.queue)
    /\ BytesPushed(s.input) = i + q /\ i + q <= length
    /\ s.sender_syn /\ ~s.fin_sent => n = i + 1
    /\ s.sender_syn /\ s.fin_sent => n = i + 2
    /\ ~s.sender_syn => n = 0 /\ i = 0
    /\ s.fin_sent => q = 0 /\ i = length /\ s.sender_syn
    /\ n <= length + 2

LEMMA ServingFacts ==
    ASSUME NEW s, NEW a, NEW isn, NEW length \in Nat, Serving(s, a, isn, length)
    PROVE  /\ s \in Senders /\ s.isn \in Seqnos /\ StreamIntact(s.input) /\ a \in 0 .. NextAbs(s)
           /\ \E n \in Nat, i \in Nat, q \in Nat : SenderCounts(s, n, i, q, length)
<1>1. /\ s \in Senders /\ s.isn \in Seqnos /\ StreamIntact(s.input) /\ a \in 0 .. NextAbs(s)
      /\ Written(s)
  BY DEF Serving, SenderInv, Senders, Written, Acked
<1>2. PICK n \in 0 .. Longest + 2, i \in Nat, q \in Nat :
          /\ n = NextAbs(s) /\ i = s.input.popped /\ q = Len(s.input.queue)
          /\ BytesPushed(s.input) = i + q
          /\ s.sender_syn /\ ~s.fin_sent => n = i + 1
          /\ s.sender_syn /\ s.fin_sent => n = i + 2
          /\ ~s.sender_syn => n = 0 /\ i = 0
          /\ s.fin_sent => q = 0 /\ s.sender_syn
  BY <1>1, SenderFacts
<1>3. i + q <= length
  BY <1>2 DEF Serving
<1>4. s.fin_sent => s.input.eof
  BY <1>1 DEF Written, IsFinished
<1>5. s.input.eof => i + q = length
  BY <1>2 DEF Serving
<1>6. s.fin_sent => q = 0 /\ i = length /\ s.sender_syn
  BY <1>2, <1>4, <1>5
<1>7. s.sender_syn \in BOOLEAN /\ s.fin_sent \in BOOLEAN
  BY <1>1 DEF Senders
<1>8. n <= length + 2
  BY <1>2, <1>3, <1>7
<1>9. n \in Nat /\ SenderCounts(s, n, i, q, length)
  BY <1>2, <1>3, <1>6, <1>8 DEF SenderCounts
<1> QED
  BY <1>1, <1>9

LEMMA ServingTypes ==
    ASSUME NEW s, NEW a, NEW isn, NEW length \in Nat, Serving(s, a, isn, length)
    PROVE  NextAbs(s) \in Nat /\ s.input.popped \in Nat /\ s.input.popped <= s.input.popped
<1>1. PICK n \in Nat, i \in Nat, q \in Nat : SenderCounts(s, n, i, q, length)
  BY ServingFacts
<1>2. n = NextAbs(s) /\ i = s.input.popped
  BY <1>1 DEF SenderCounts
<1>3. i <= i
  OBVIOUS
<1> QED
  BY <1>2, <1>3

ReceiverCounts(r, p, x, y, length) ==
    /\ p = NextByteIndex(r.reassembler) /\ p <= length + 1
    /\ x = Flag(r.isn_set) /\ y = Flag(r.reassembler.output.eof)
    /\ x = 1 <=> r.isn_set
    /\ y = 1 <=> r.reassembler.output.eof
    /\ InOrder(r) = x + p + y
    /\ r.isn_set => AbsAckno(r) = InOrder(r)

LEMMA HearingFacts ==
    ASSUME NEW r, NEW isn, NEW length \in Nat, Hearing(r, isn, length)
    PROVE  /\ r.isn_set \in BOOLEAN /\ r.reassembler.output.eof \in BOOLEAN
           /\ \E p \in Nat, x \in 0 .. 1, y \in 0 .. 1 : ReceiverCounts(r, p, x, y, length)
<1>1. length + 1 \in Nat /\ Intact(r.reassembler, length, length + 1)
  BY DEF Hearing
<1>2. PICK p \in Nat : p = NextByteIndex(r.reassembler) /\ p <= length + 1
  BY <1>1, IndexFacts
<1>3. r.isn_set \in BOOLEAN /\ r.reassembler.output.eof \in BOOLEAN
  BY DEF Hearing, Intact, Streams
<1>4. PICK x \in 0 .. 1, y \in 0 .. 1 :
          /\ x = Flag(r.isn_set) /\ y = Flag(r.reassembler.output.eof)
          /\ x = 1 <=> r.isn_set
          /\ y = 1 <=> r.reassembler.output.eof
  BY <1>3 DEF Flag
<1>5. InOrder(r) = x + p + y
  BY <1>2, <1>4 DEF InOrder
<1>6. AbsAckno(r) = p + 1 + y
  BY <1>2, <1>4 DEF AbsAckno, NextByteIndex, IsClosed
<1>7. ASSUME r.isn_set
      PROVE  AbsAckno(r) = InOrder(r)
  <2>1. x = 1
    BY <1>4, <1>7
  <2>2. x + p + y = p + 1 + y
    BY <2>1
  <2> QED
    BY <1>5, <1>6, <2>2
<1>8. ReceiverCounts(r, p, x, y, length)
  BY <1>2, <1>4, <1>5, <1>7 DEF ReceiverCounts
<1> QED
  BY <1>2, <1>3, <1>4, <1>8

LEMMA HearingTypes ==
    ASSUME NEW r, NEW isn, NEW length \in Nat, Hearing(r, isn, length)
    PROVE  InOrder(r) \in Nat
<1>1. PICK p \in Nat, x \in 0 .. 1, y \in 0 .. 1 : ReceiverCounts(r, p, x, y, length)
  BY HearingFacts
<1>2. InOrder(r) = x + p + y
  BY <1>1 DEF ReceiverCounts
<1> QED
  BY <1>2

-----------------------------------------------------------------------------
(* A sender that has sent more of the same stream.                          *)
Grows(t, s) ==
    /\ t.isn = s.isn /\ NextAbs(s) \in Nat /\ NextAbs(t) \in Nat /\ NextAbs(s) <= NextAbs(t)
    /\ s.input.popped \in Nat /\ t.input.popped \in Nat /\ s.input.popped <= t.input.popped
    /\ (s.sender_syn => t.sender_syn) /\ (s.fin_sent => t.fin_sent)

(* What fits goes on to fit.                                                *)
LEMMA FitsStays ==
    ASSUME NEW m, NEW s, NEW t, NEW length \in Nat, Fits(m, s, length), Grows(t, s)
    PROVE  Fits(m, t, length)
<1>1. PICK n \in 0 .. NextAbs(s), i \in Nat : FitsAt(m, s, length, n, i)
  BY DEF Fits
<1>2. n \in 0 .. NextAbs(t)
  BY DEF Grows
<1>3. PICK x \in Nat : x = Len(m.payload)
  BY <1>1, LenProperties DEF FitsAt, IsRun
<1>4. x > 0 => i + x <= t.input.popped
  BY <1>1, <1>3 DEF FitsAt, Grows
<1>5. FitsAt(m, t, length, n, i)
  BY <1>1, <1>3, <1>4 DEF FitsAt, Grows
<1> QED
  BY <1>2, <1>5 DEF Fits, Grows

LEMMA CoupledStays ==
    ASSUME NEW s, NEW t, NEW r, Coupled(s, r), Grows(t, s)
    PROVE  Coupled(t, r)
<1>1. ASSUME NEW x \in Nat, HoldsIndex(r.reassembler, x)
      PROVE  x < t.input.popped
  <2>1. x < s.input.popped
    BY <1>1 DEF Coupled
  <2> QED
    BY <2>1 DEF Grows
<1> QED
  BY <1>1 DEF Coupled, Grows

(* Every outstanding segment fits.                                          *)
LEMMA OutstandingFits ==
    ASSUME NEW s, NEW a, NEW isn, NEW length \in Nat, Serving(s, a, isn, length),
           NEW k \in 1 .. Len(s.outstanding)
    PROVE  Fits(s.outstanding[k], s, length)
<1>1. PICK next \in Nat, p \in Nat, q \in Nat :
          /\ q = Len(s.input.queue)
          /\ next = NextAbs(s) /\ p = s.input.popped
          /\ s.sender_syn /\ ~s.fin_sent => next = p + 1
          /\ s.sender_syn /\ s.fin_sent => next = p + 2
          /\ s.fin_sent => p = length
  <2>1. PICK next \in Nat, p \in Nat, q \in Nat : SenderCounts(s, next, p, q, length)
    BY ServingFacts
  <2> QED
    BY <2>1 DEF SenderCounts
<1>2. PICK st : AckedWithin(s, a, st)
  BY DEF Serving, SenderInv, Acked
<1>3. PICK out : out = s.outstanding /\ Chain(out, st, s.isn) /\ st[Len(out) + 1] = next
  BY <1>1, <1>2 DEF AckedWithin, Sent
<1>4. PICK l \in Nat : l = Len(out) /\ (l = 0 <=> out = <<>>)
  BY <1>3, ChainFacts
<1>5. k \in 1 .. l /\ k \in 1 .. l + 1 /\ k + 1 \in 1 .. l + 1 /\ l + 1 \in 1 .. l + 1
  BY <1>3, <1>4
<1>6. s.sender_syn
  <2>1. s.outstanding # <<>>
    BY <1>3, <1>4, <1>5
  <2> QED
    BY <2>1 DEF Serving, SenderInv, Written
<1>7. PICK m : m = out[k] /\ FromStream(m, st[k], s.isn) /\ st[k + 1] = st[k] + SequenceLength(m)
  BY <1>3, <1>4, <1>5 DEF Chain
<1>8. PICK len \in Nat, x \in 0 .. 1, y \in 0 .. 1 :
          /\ len = Len(m.payload) /\ x = Flag(m.SYN) /\ y = Flag(m.FIN)
          /\ SequenceLength(m) = x + len + y
  BY <1>7, LengthType DEF FromStream
<1>9. m.SYN \in BOOLEAN /\ m.FIN \in BOOLEAN
  BY <1>7 DEF FromStream, SenderMessages
<1>10. PICK n \in Nat : n = st[k] /\ st[k + 1] = n + x + len + y
  <2>1. st[k] \in Nat
    BY <1>3, <1>4, <1>5, ChainFacts
  <2>2. st[k + 1] = st[k] + (x + len + y)
    BY <1>7, <1>8
  <2> QED
    BY <2>1, <2>2
<1>11. (x = 1 <=> n = 0) /\ (m.SYN <=> n = 0)
  BY <1>7, <1>8, <1>9, <1>10 DEF FromStream, Flag
<1>12. PICK i \in Nat : i = n - 1 + x
  BY <1>10, <1>11
<1>13. (m.FIN <=> (s.fin_sent /\ k = l)) /\ (y = 1 <=> m.FIN)
  <2>1. FinIsLast(out, s.fin_sent)
    BY <1>3 DEF Serving, SenderInv, Acked
  <2>2. m.FIN <=> (s.fin_sent /\ k = l)
    BY <1>4, <1>5, <1>7, <2>1 DEF FinIsLast
  <2>3. y = 1 <=> m.FIN
    BY <1>8, <1>9 DEF Flag
  <2> QED
    BY <2>2, <2>3
<1>14. IsRun(m.payload, i)
  <2>1. m.payload = Bytes(n + x - 1, len)
    BY <1>7, <1>8, <1>10 DEF FromStream
  <2>2. n + x - 1 = i
    BY <1>12
  <2>3. m.payload = [j \in 1 .. len |-> i + j - 1]
    BY <2>1, <2>2 DEF Bytes
  <2> QED
    BY <2>3, RunOfBytes
<1>15. n + x + len + y <= next /\ (k < l => n + x + len + y < next)
  <2>1. CASE k < l
    <3>1. st[k + 1] < st[l + 1]
      <4>1. k + 1 < l + 1
        BY <1>5, <2>1
      <4> QED
        BY <1>3, <1>4, <1>5, <4>1, ChainFacts
    <3>2. n + x + len + y < next
      BY <1>3, <1>4, <1>10, <3>1
    <3> QED
      BY <3>2
  <2>2. CASE k = l
    <3>1. st[k + 1] = next
      BY <1>3, <1>4, <2>2
    <3>2. n + x + len + y = next
      BY <1>10, <3>1
    <3>3. n + x + len + y <= next
      BY ONLY <3>2, n \in Nat, len \in Nat, x \in 0 .. 1, y \in 0 .. 1
    <3> QED
      BY <2>2, <3>3
  <2>3. k < l \/ k = l
    BY ONLY <1>5, l \in Nat
  <2> QED
    BY <2>1, <2>2, <2>3
<1>16. s.fin_sent \in BOOLEAN
  BY ServingFacts DEF Senders
<1>17. i + len <= p
  <2>1. CASE s.fin_sent
    <3>1. next = p + 2
      BY <1>1, <1>6, <2>1
    <3>2. CASE k < l
      BY <1>12, <1>15, <3>1, <3>2
    <3>3. CASE k = l
      <4>1. y = 1
        BY <1>13, <2>1, <3>3
      <4> QED
        BY <1>12, <1>15, <3>1, <4>1
    <3> QED
      BY <1>5, <3>2, <3>3
  <2>2. CASE ~s.fin_sent
    <3>1. next = p + 1
      BY <1>1, <1>6, <2>2
    <3> QED
      BY <1>12, <1>15, <3>1
  <2> QED
    BY <2>1, <2>2
<1>18. ASSUME m.FIN
       PROVE  s.fin_sent /\ i + len = length
  <2>1. s.fin_sent /\ k = l /\ y = 1
    BY <1>13, <1>18
  <2>2. next = p + 2 /\ p = length
    BY <1>1, <1>6, <2>1
  <2>3. n + x + len + y = next
    BY <1>3, <1>4, <1>10, <2>1
  <2>4. i + len = length
    BY <1>12, <2>1, <2>2, <2>3
  <2> QED
    BY <2>1, <2>4
<1>19. n \in 0 .. NextAbs(s)
  BY <1>1, <1>15
<1>20. m.seqno = Wrap(n, s.isn) /\ m \in SenderMessages /\ ~m.RST
  BY <1>7, <1>10 DEF FromStream
<1>21. FitsAt(m, s, length, n, i)
  BY <1>1, <1>8, <1>11, <1>12, <1>14, <1>17, <1>18, <1>20 DEF FitsAt
<1> QED
  BY <1>3, <1>6, <1>7, <1>19, <1>20, <1>21 DEF Fits

(* An empty message fits behind all that was sent.                          *)
LEMMA EmptyFits ==
    ASSUME NEW s, NEW a, NEW isn, NEW length \in Nat, Serving(s, a, isn, length), s.sender_syn
    PROVE  Fits(MakeEmptyMessage(s), s, length)
<1>1. PICK m : m = MakeEmptyMessage(s)
  OBVIOUS
<1>2. PICK n \in Nat : n = NextAbs(s) /\ n >= 1
  <2>1. PICK n \in Nat, p \in Nat, q \in Nat :
            /\ p = s.input.popped /\ q = Len(s.input.queue)
            /\ n = NextAbs(s)
            /\ s.sender_syn /\ ~s.fin_sent => n = p + 1
            /\ s.sender_syn /\ s.fin_sent => n = p + 2
    <3>1. PICK n \in Nat, p \in Nat, q \in Nat : SenderCounts(s, n, p, q, length)
      BY ServingFacts
    <3> QED
      BY <3>1 DEF SenderCounts
  <2>2. s.fin_sent \in BOOLEAN
    BY ServingFacts DEF Senders
  <2> QED
    BY <2>1, <2>2
<1>3. s.next_seqno = Wrap(n, s.isn) /\ s.next_seqno \in Seqnos /\ s.input.error = FALSE
  <2>1. s.next_seqno = Wrap(n, s.isn) /\ s \in Senders /\ ~s.input.error
    BY <1>2 DEF Serving, SenderInv, Acked, AckedWithin, Sent
  <2> QED
    BY <2>1 DEF Senders, Streams
<1>4. /\ m = [seqno |-> s.next_seqno, SYN |-> FALSE, payload |-> <<>>, FIN |-> FALSE, RST |-> FALSE]
      /\ m.seqno = s.next_seqno /\ m.SYN = FALSE /\ m.payload = <<>> /\ m.FIN = FALSE /\ m.RST = FALSE
  BY <1>1, <1>3 DEF MakeEmptyMessage, SenderMessage
<1>5. PICK i \in Nat : i = n - 1
  BY <1>2
<1>6. IsRun(<<>>, i) /\ Len(<<>>) = 0
  BY RunEmpty
<1>7. i = n - 1 + Flag(m.SYN) /\ n # 0
  BY <1>2, <1>4, <1>5 DEF Flag
<1>8. FitsAt(m, s, length, n, i)
  <2>1. IsRun(m.payload, i) /\ ~(Len(m.payload) > 0)
    BY <1>4, <1>6
  <2>2. m.seqno = Wrap(n, s.isn) /\ ~m.SYN /\ ~m.FIN
    BY <1>3, <1>4
  <2> QED
    BY <1>7, <2>1, <2>2 DEF FitsAt
<1>9. m \in SenderMessages
  BY <1>3, <1>4 DEF SenderMessages
<1>10. n \in 0 .. NextAbs(s)
  BY <1>2
<1> QED
  BY <1>1, <1>4, <1>8, <1>9, <1>10 DEF Fits

(* A call of the sender leaves the flow in order if the sender goes on with *)
(* the stream.                                                              *)
Goes(t, s) ==
    /\ t.isn = s.isn /\ s.input.popped <= t.input.popped
    /\ (s.sender_syn => t.sender_syn) /\ (s.fin_sent => t.fin_sent)

LEMMA GoesGrows ==
    ASSUME NEW length \in Nat, NEW isn, NEW s, NEW a, Serving(s, a, isn, length),
           NEW t, NEW b, Serving(t, b, isn, length), Goes(t, s)
    PROVE  Grows(t, s)
<1>1. PICK n \in Nat, i \in Nat, q \in Nat :
          /\ n = NextAbs(s) /\ i = s.input.popped
          /\ s.sender_syn /\ ~s.fin_sent => n = i + 1
          /\ s.sender_syn /\ s.fin_sent => n = i + 2
          /\ ~s.sender_syn => n = 0 /\ i = 0
  <2>1. PICK n \in Nat, i \in Nat, q \in Nat :
            /\ n = NextAbs(s) /\ i = s.input.popped /\ q = Len(s.input.queue)
            /\ s.sender_syn /\ ~s.fin_sent => n = i + 1
            /\ s.sender_syn /\ s.fin_sent => n = i + 2
            /\ ~s.sender_syn => n = 0 /\ i = 0
    <3>1. PICK n \in Nat, i \in Nat, q \in Nat : SenderCounts(s, n, i, q, length)
      BY ServingFacts
    <3> QED
      BY <3>1 DEF SenderCounts
  <2> QED
    BY <2>1
<1>2. PICK m \in Nat, j \in Nat, p \in Nat :
          /\ p = Len(t.input.queue)
          /\ m = NextAbs(t) /\ j = t.input.popped
          /\ t.sender_syn /\ ~t.fin_sent => m = j + 1
          /\ t.sender_syn /\ t.fin_sent => m = j + 2
  <2>1. PICK m \in Nat, j \in Nat, p \in Nat : SenderCounts(t, m, j, p, length)
    BY ServingFacts
  <2> QED
    BY <2>1 DEF SenderCounts
<1>3. i <= j /\ (s.sender_syn => t.sender_syn) /\ (s.fin_sent => t.fin_sent)
  BY <1>1, <1>2 DEF Goes
<1>4. n <= m
  <2>1. CASE ~s.sender_syn
    BY <1>1, <1>2, <2>1
  <2>2. CASE s.sender_syn /\ s.fin_sent
    BY <1>1, <1>2, <1>3, <2>2
  <2>3. CASE s.sender_syn /\ ~s.fin_sent
    <3>1. n = i + 1 /\ (m = j + 1 \/ m = j + 2)
      BY <1>1, <1>2, <1>3, <2>3
    <3> QED
      BY <1>3, <3>1
  <2> QED
    BY <2>1, <2>2, <2>3
<1> QED
  BY <1>1, <1>2, <1>3, <1>4 DEF Grows, Goes

LEMMA FlowGoes ==
    ASSUME NEW length \in Nat, NEW isn, NEW s, NEW r, NEW there, NEW back,
           Flow(s, r, there, back, isn, length),
           NEW t, NEW b, Serving(t, b, isn, length), b <= InOrder(r), Goes(t, s)
    PROVE  Flow(t, r, there, back, isn, length)
<1>1. PICK a : Serving(s, a, isn, length)
  BY DEF Flow
<1>2. Grows(t, s)
  BY <1>1, GoesGrows
<1>3. Coupled(t, r)
  BY <1>2, CoupledStays DEF Flow
<1>4. \A m \in there : Fits(m.sender, t, length)
  BY <1>2, FitsStays DEF Flow
<1> QED
  BY <1>3, <1>4 DEF Flow

(* What the owners of the streams have done to them stays: how much was     *)
(* written, whether it was all, and how much was read.                      *)
WrittenAlike(t, s) == t.eof = s.eof /\ t.error = s.error /\ BytesPushed(t) = BytesPushed(s)

Filled(w, r) == w.popped = r.popped /\ w.error = r.error /\ (r.eof => w.eof)

(* push: what it sends fits.                                                *)
FlowsOn(x, r, there, back, isn, length) ==
    /\ Flow(x.sender, r, there, back, isn, length)
    /\ x.sent \in Seq(SenderMessages)
    /\ \A k \in DOMAIN x.sent : Fits(x.sent[k], x.sender, length)

LEMMA FlowPush ==
    ASSUME NEW length \in Nat, NEW isn, NEW s, NEW r, NEW there, NEW back,
           Flow(s, r, there, back, isn, length)
    PROVE  LET x == SenderPush(s)
           IN  /\ FlowsOn(x, r, there, back, isn, length)
               /\ x.sender.sender_syn /\ PushedAll(x.sender)
               /\ WrittenAlike(x.sender.input, s.input)
<1>1. PICK a : Serving(s, a, isn, length) /\ a <= InOrder(r)
  BY DEF Flow
<1>2. PICK x : x = SenderPush(s)
  OBVIOUS
<1>3. SenderInv(x.sender, a) /\ Pushes(x, s)
  BY <1>1, <1>2, PushOfSender DEF Serving, PushOutcome
<1>4. PICK t : t = x.sender
  OBVIOUS
<1>5. Serving(t, a, isn, length)
  BY <1>1, <1>3, <1>4 DEF Serving, Pushes
<1>6. Goes(t, s)
  BY <1>3, <1>4 DEF Goes, Pushes
<1>7. Flow(t, r, there, back, isn, length)
  BY <1>1, <1>5, <1>6, FlowGoes
<1>8. s.outstanding \in Seq(SenderMessages) /\ x.sent \in Seq(SenderMessages)
      /\ t.outstanding = s.outstanding \o x.sent
  <2>1. s \in Senders
    BY <1>1, ServingFacts
  <2> QED
    BY <1>3, <1>4, <2>1 DEF Pushes, Senders
<1>9. ASSUME NEW k \in DOMAIN x.sent
      PROVE  Fits(x.sent[k], t, length)
  <2>1. PICK l \in Nat, m \in Nat :
            l = Len(s.outstanding) /\ m = Len(x.sent) /\ DOMAIN x.sent = 1 .. m
    BY <1>8, LenProperties
  <2>2. k \in 1 .. m
    BY <2>1
  <2>3. PICK j \in Nat : j = l + k /\ j \in 1 .. l + m /\ ~(j <= l) /\ j - l = k
    BY <2>2
  <2>4. /\ Len(s.outstanding \o x.sent) = Len(s.outstanding) + Len(x.sent)
        /\ \A h \in 1 .. Len(s.outstanding) + Len(x.sent) :
               (s.outstanding \o x.sent)[h] = IF h <= Len(s.outstanding) THEN s.outstanding[h]
                                              ELSE x.sent[h - Len(s.outstanding)]
    BY <1>8, ConcatProperties
  <2>5. Len(t.outstanding) = l + m /\ t.outstanding[j] = x.sent[k]
    BY <1>8, <2>1, <2>3, <2>4
  <2> QED
    BY <1>5, <2>3, <2>5, OutstandingFits
<1>10. t.sender_syn /\ PushedAll(t)
  BY <1>3, <1>4 DEF Pushes, PushedAll
<1>11. WrittenAlike(t.input, s.input)
  BY <1>3, <1>4 DEF Pushes, WrittenAlike
<1> QED
  BY <1>2, <1>4, <1>7, <1>8, <1>9, <1>10, <1>11 DEF FlowsOn

(* tick: what it sends fits.                                                *)
LEMMA FlowTick ==
    ASSUME NEW length \in Nat, NEW isn, NEW s, NEW r, NEW there, NEW back,
           Flow(s, r, there, back, isn, length), PushedAll(s), NEW ms \in Nat
    PROVE  LET x == SenderTick(s, ms)
           IN  /\ FlowsOn(x, r, there, back, isn, length) /\ PushedAll(x.sender)
               /\ x.sender.input = s.input
<1>1. PICK a : Serving(s, a, isn, length) /\ a <= InOrder(r)
  BY DEF Flow
<1>2. PICK x : x = SenderTick(s, ms)
  OBVIOUS
<1>3. PICK t : t = x.sender
  OBVIOUS
<1>4. /\ SenderInv(t, a) /\ Keeps(t, s) /\ t.outstanding = s.outstanding
      /\ x.sent # <<>> => s.outstanding # <<>> /\ x.sent = <<Head(s.outstanding)>>
  BY <1>1, <1>2, <1>3, TickResult DEF Serving
<1>5. Serving(t, a, isn, length)
  BY <1>1, <1>4 DEF Serving, Keeps
<1>6. Goes(t, s)
  <2>1. s.input.popped <= s.input.popped
    BY <1>1, ServingTypes
  <2> QED
    BY <1>4, <2>1 DEF Goes, Keeps
<1>7. Flow(t, r, there, back, isn, length)
  BY <1>1, <1>5, <1>6, FlowGoes
<1>8. x.sent \in Seq(SenderMessages) /\ \A k \in DOMAIN x.sent : Fits(x.sent[k], t, length)
  <2>1. CASE x.sent = <<>>
    BY <2>1
  <2>2. CASE x.sent # <<>>
    <3>1. s.outstanding \in Seq(SenderMessages)
      BY <1>1, ServingFacts DEF Senders
    <3>2. PICK l \in Nat : l = Len(t.outstanding) /\ l # 0 /\ 1 \in 1 .. l
      BY <1>4, <2>2, <3>1, LenProperties, EmptySeq
    <3>3. PICK m : m = t.outstanding[1] /\ m \in SenderMessages /\ Fits(m, t, length)
      <4>1. t.outstanding[1] \in SenderMessages
        BY <1>4, <3>1, <3>2
      <4> QED
        BY <1>5, <3>2, <4>1, OutstandingFits
    <3>4. x.sent = <<m>>
      BY <1>4, <2>2, <3>3
    <3>5. <<m>> \in Seq(SenderMessages) /\ \A k \in DOMAIN <<m>> : <<m>>[k] = m
      BY <3>3
    <3> QED
      BY <3>3, <3>4, <3>5
  <2> QED
    BY <2>1, <2>2
<1>9. PushedAll(t)
  BY <1>4 DEF PushedAll, Keeps
<1> QED
  BY <1>2, <1>3, <1>4, <1>7, <1>8, <1>9 DEF FlowsOn, Keeps

(* No byte is received that was not sent.                                   *)
LEMMA ReceivedSent ==
    ASSUME NEW length \in Nat, NEW isn, NEW s, NEW r, NEW there, NEW back,
           Flow(s, r, there, back, isn, length)
    PROVE  NextByteIndex(r.reassembler) <= s.input.popped
<1>1. PICK p \in Nat : p = NextByteIndex(r.reassembler)
  <2>1. PICK n \in Nat, x \in 0 .. 1, y \in 0 .. 1 : ReceiverCounts(r, n, x, y, length)
    BY HearingFacts DEF Flow
  <2> QED
    BY <2>1 DEF ReceiverCounts
<1>2. PICK i \in Nat : i = s.input.popped
  <2>1. PICK n \in Nat, i \in Nat, q \in Nat : SenderCounts(s, n, i, q, length)
    BY ServingFacts DEF Flow
  <2> QED
    BY <2>1 DEF SenderCounts
<1>3. SUFFICES ASSUME p > 0 PROVE p <= i
  BY <1>1, <1>2
<1>4. PICK z \in Nat : z + 1 = p
  <2>1. p - 1 \in Nat /\ (p - 1) + 1 = p
    BY <1>3
  <2> QED
    BY <2>1
<1>5. HoldsIndex(r.reassembler, z)
  <2>1. z < p
    BY <1>4
  <2> QED
    BY <1>1, <2>1 DEF HoldsIndex
<1>6. z < i
  BY <1>2, <1>5 DEF Flow, Coupled
<1> QED
  BY <1>4, <1>6

(* receive: no ackno claims more than the peer has.                         *)
LEMMA FlowAck ==
    ASSUME NEW length \in Nat, NEW isn, NEW s, NEW r, NEW there, NEW back,
           Flow(s, r, there, back, isn, length), NEW m \in back
    PROVE  /\ Flow(SenderReceive(s, m.receiver), r, there, back, isn, length)
           /\ SenderReceive(s, m.receiver).input = s.input
<1>1. PICK a : Serving(s, a, isn, length) /\ a <= InOrder(r)
  BY DEF Flow
<1>2. PICK msg : msg = m.receiver /\ Answers(msg, r)
  BY DEF Flow
<1>3. PICK v : v = [s EXCEPT !.window_size = msg.window_size]
  OBVIOUS
<1>4. s \in Senders /\ SenderInv(v, a) /\ NextAbs(v) = NextAbs(s)
      /\ v.input = s.input /\ v.isn = s.isn /\ v.sender_syn = s.sender_syn /\ v.fin_sent = s.fin_sent
  <2>1. s \in Senders /\ msg.window_size \in Nat
    BY <1>1, <1>2, ServingFacts DEF Answers
  <2>2. SenderInv(v, a) /\ NextAbs(v) = NextAbs(s)
    BY <1>1, <1>3, <2>1, WindowChange DEF Serving
  <2> QED
    BY <1>3, <2>1, <2>2 DEF Senders
<1>5. s.input.popped <= s.input.popped
  BY <1>1, ServingTypes
<1>6. CASE msg.ackno = NoAckno
  <2>1. SenderReceive(s, msg) = v
    BY <1>2, <1>3, <1>6 DEF SenderReceive, Answers
  <2>2. Serving(v, a, isn, length)
    BY <1>1, <1>4 DEF Serving
  <2>3. Goes(v, s)
    BY <1>4, <1>5 DEF Goes
  <2> QED
    BY <1>1, <1>2, <1>4, <2>1, <2>2, <2>3, FlowGoes
<1>7. CASE msg.ackno # NoAckno
  <2>1. PICK b \in 1 .. InOrder(r) : r.isn_set /\ msg.ackno = Wrap(b, r.isn)
    BY <1>2, <1>7 DEF Answers
  <2>2. PICK p \in Nat, x \in 0 .. 1, y \in 0 .. 1 :
            /\ x = Flag(r.isn_set) /\ y = Flag(r.reassembler.output.eof)
            /\ p = NextByteIndex(r.reassembler)
            /\ (y = 1 <=> r.reassembler.output.eof)
            /\ InOrder(r) = x + p + y
    <3>1. PICK p \in Nat, x \in 0 .. 1, y \in 0 .. 1 : ReceiverCounts(r, p, x, y, length)
      BY HearingFacts DEF Flow
    <3> QED
      BY <3>1 DEF ReceiverCounts
  <2>3. PICK n \in Nat, i \in Nat, q \in Nat :
            /\ q = Len(s.input.queue)
            /\ n = NextAbs(s) /\ i = s.input.popped
            /\ s.sender_syn /\ ~s.fin_sent => n = i + 1
            /\ s.sender_syn /\ s.fin_sent => n = i + 2
    <3>1. PICK n \in Nat, i \in Nat, q \in Nat : SenderCounts(s, n, i, q, length)
      BY <1>1, ServingFacts
    <3> QED
      BY <3>1 DEF SenderCounts
  <2>4. p <= i
    BY <2>2, <2>3, ReceivedSent
  <2>5. s.sender_syn /\ (y = 1 => s.fin_sent)
    BY <2>1, <2>2 DEF Flow, Coupled
  <2>6. x + p + y <= n
    <3>1. CASE y = 1
      <4>1. n = i + 2
        BY <2>3, <2>5, <3>1
      <4> QED
        BY <2>4, <3>1, <4>1
    <3>2. CASE y = 0
      <4>1. s.fin_sent \in BOOLEAN
        BY <1>4 DEF Senders
      <4>2. n = i + 1 \/ n = i + 2
        BY <2>3, <2>5, <4>1
      <4> QED
        BY <2>4, <3>2, <4>2
    <3> QED
      BY <3>1, <3>2
  <2>7. b \in Nat /\ b <= InOrder(r) /\ b \in 1 .. NextAbs(v) + 1 /\ b <= NextAbs(v)
    BY <1>4, <2>2, <2>3, <2>6
  <2>8. msg.ackno = Wrap(b, v.isn)
    BY <1>1, <1>4, <2>1 DEF Flow, Hearing, Serving
  <2>9. PICK t : t = Acknowledge(v, msg.ackno)
    OBVIOUS
  <2>10. PICK c : c = (IF b > a /\ b <= NextAbs(v) THEN b ELSE a) /\ SenderInv(t, c) /\ Keeps(t, v)
    BY <1>4, <2>7, <2>8, <2>9, AcknowledgeResult
  <2>11. c <= InOrder(r)
    BY <1>1, <2>7, <2>10
  <2>12. Serving(t, c, isn, length)
    BY <1>1, <1>4, <2>10 DEF Serving, Keeps
  <2>13. Goes(t, s)
    BY <1>4, <1>5, <2>10 DEF Goes, Keeps
  <2>14. SenderReceive(s, msg) = t
    BY <1>2, <1>3, <1>7, <2>9 DEF SenderReceive, Answers
  <2> QED
    BY <1>2, <1>4, <2>10, <2>11, <2>12, <2>13, <2>14, FlowGoes DEF Keeps
<1> QED
  BY <1>6, <1>7

-----------------------------------------------------------------------------
(* A receiver that has received more of the same stream.                    *)
Advances(w, r) ==
    /\ r.isn_set => w.isn_set /\ w.isn = r.isn
    /\ InOrder(r) \in Nat /\ InOrder(w) \in Nat /\ InOrder(r) <= InOrder(w)

LEMMA FlowHears ==
    ASSUME NEW length \in Nat, NEW isn, NEW s, NEW r, NEW there, NEW back,
           Flow(s, r, there, back, isn, length),
           NEW w, Hearing(w, isn, length), Coupled(s, w), Advances(w, r)
    PROVE  Flow(s, w, there, back, isn, length)
<1>1. PICK a : Serving(s, a, isn, length) /\ a <= InOrder(r)
  BY DEF Flow
<1>2. a <= InOrder(w)
  <2>1. a \in Int
    <3>1. NextAbs(s) \in Nat /\ a \in 0 .. NextAbs(s)
      BY <1>1, ServingTypes, ServingFacts
    <3> QED
      BY <3>1
  <2> QED
    BY <1>1, <2>1 DEF Advances
<1>3. ASSUME NEW m, Answers(m, r)
      PROVE  Answers(m, w)
  <2>1. \A b \in 1 .. InOrder(r) : b \in 1 .. InOrder(w)
    BY DEF Advances
  <2> QED
    BY <1>3, <2>1 DEF Answers, Advances
<1>4. \A m \in back : Answers(m.receiver, w)
  BY <1>3 DEF Flow
<1> QED
  BY <1>1, <1>2, <1>4 DEF Flow

(* A sequence number on the wire is unwrapped to the number it stands for.  *)
LEMMA IndexResolved ==
    ASSUME NEW length \in Nat, 2 * (length + 2) < CYCLE, NEW isn \in Seqnos,
           NEW n \in Nat, n <= length + 2, NEW x \in 0 .. 1, (x = 1 <=> n = 0),
           NEW i \in Nat, i = n - 1 + x, NEW p \in Nat, p <= length + 1
    PROVE  (Unwrap(Wrap(n, isn), isn, p) - 1 + x) % WORD = i
<1>1. PICK c \in Nat, w \in Nat : c = CYCLE /\ w = WORD /\ w >= 2 * c /\ 2 * (length + 2) < c
  BY WrapAssumption
<1>2. n \in Absolute /\ p \in Absolute
  BY <1>1 DEF Absolute
<1>3. 2 * Distance(n, p) < CYCLE
  BY <1>1 DEF Distance
<1>4. Unwrap(Wrap(n, isn), isn, p) = n
  BY <1>2, <1>3, UnwrapWrap
<1>5. i < w /\ i % w = i
  <2>1. i < w
    BY <1>1
  <2> QED
    BY <2>1
<1> QED
  BY <1>1, <1>4, <1>5

(* receive: a message puts what it holds at its place in the stream.        *)
LEMMA FlowHear ==
    ASSUME NEW length \in Nat, 2 * (length + 2) < CYCLE,
           NEW isn, NEW s, NEW r, NEW there, NEW back,
           Flow(s, r, there, back, isn, length), NEW m \in there
    PROVE  LET w == ReceiverReceive(r, m.sender)
           IN  /\ Flow(s, w, there, back, isn, length)
               /\ Filled(w.reassembler.output, r.reassembler.output)
<1>1. PICK a : Serving(s, a, isn, length)
  BY DEF Flow
<1>2. PICK msg : msg = m.sender /\ Fits(msg, s, length)
  BY DEF Flow
<1>3. PICK next \in Nat, popped \in Nat, q \in Nat :
          /\ next = NextAbs(s) /\ popped = s.input.popped /\ q = Len(s.input.queue)
          /\ popped + q <= length /\ next <= length + 2
  <2>1. PICK next \in Nat, popped \in Nat, q \in Nat :
            /\ next = NextAbs(s) /\ popped = s.input.popped /\ q = Len(s.input.queue)
            /\ popped + q <= length /\ next <= length + 2
    <3>1. PICK next \in Nat, popped \in Nat, q \in Nat : SenderCounts(s, next, popped, q, length)
      BY <1>1, ServingFacts
    <3> QED
      BY <3>1 DEF SenderCounts
  <2> QED
    BY <2>1
<1>4. PICK n \in 0 .. next, i \in Nat : FitsAt(msg, s, length, n, i)
  BY <1>2, <1>3 DEF Fits
<1>5. s.isn = isn /\ isn \in Seqnos
  BY <1>1, ServingFacts DEF Serving
<1>6. Hearing(r, isn, length) /\ Coupled(s, r)
  BY DEF Flow
<1>7. PICK p \in Nat : p = NextByteIndex(r.reassembler) /\ p <= length + 1
  <2>1. PICK at \in Nat, x \in 0 .. 1, y \in 0 .. 1 : ReceiverCounts(r, at, x, y, length)
    BY <1>6, HearingFacts
  <2> QED
    BY <2>1 DEF ReceiverCounts
<1>8. msg.SYN \in BOOLEAN /\ msg.FIN \in BOOLEAN /\ ~msg.RST
  BY <1>2 DEF Fits, SenderMessages
<1>9. CASE ~r.isn_set /\ ~msg.SYN
  <2>1. ReceiverReceive(r, msg) = r
    BY <1>8, <1>9 DEF ReceiverReceive, NoteSyn, InsertPayload
  <2> QED
    BY <1>2, <2>1 DEF Filled
<1>10. CASE r.isn_set \/ msg.SYN
  <2>1. PICK c : c = NoteSyn(r, msg)
    OBVIOUS
  <2>2. c = [reassembler |-> r.reassembler, isn |-> isn, isn_set |-> TRUE]
    <3>1. CASE r.isn_set
      <4>1. r.isn_set = TRUE /\ r.isn = isn
        BY <1>6, <3>1 DEF Hearing
      <4> QED
        BY <1>6, <2>1, <3>1, <4>1 DEF NoteSyn, Hearing
    <3>2. CASE ~r.isn_set
      <4>1. msg.SYN /\ n = 0
        BY <1>4, <1>10, <3>2 DEF FitsAt
      <4>2. msg.seqno = isn
        BY <1>4, <1>5, <4>1, WrapNothing DEF FitsAt
      <4>3. c = [r EXCEPT !.isn = isn, !.isn_set = TRUE]
        BY <2>1, <3>2, <4>1, <4>2 DEF NoteSyn
      <4> QED
        BY <1>6, <4>3 DEF Hearing
    <3> QED
      BY <3>1, <3>2
  <2>3. PICK data : data = msg.payload /\ IsRun(data, i)
    BY <1>4 DEF FitsAt
  <2>4. PICK len \in Nat : len = Len(data) /\ (len > 0 => i + len <= popped)
    <3>1. Len(data) \in Nat
      BY <2>3, LenProperties DEF IsRun
    <3> QED
      BY <1>3, <1>4, <2>3, <3>1 DEF FitsAt
  <2>5. PICK x \in 0 .. 1 : x = Flag(msg.SYN) /\ i = n - 1 + x /\ (x = 1 <=> n = 0)
    BY <1>4, <1>8 DEF FitsAt, Flag
  <2>6. StreamIndex(c, msg) = i
    <3>1. (Unwrap(Wrap(n, isn), isn, p) - 1 + x) % WORD = i
      BY <1>3, <1>5, <1>7, <2>5, IndexResolved
    <3>2. Checkpoint(c) = p /\ c.isn = isn
      BY <1>7, <2>2 DEF Checkpoint, NextByteIndex
    <3>3. msg.seqno = Wrap(n, isn)
      BY <1>4, <1>5 DEF FitsAt
    <3> QED
      BY <2>5, <3>1, <3>2, <3>3 DEF StreamIndex
  <2>7. PICK w : w = Insert(r.reassembler, i, data, msg.FIN)
    OBVIOUS
  <2>8. PICK z : z = ReceiverReceive(r, msg)
    OBVIOUS
  <2>9. z = [reassembler |-> w, isn |-> isn, isn_set |-> TRUE]
    <3>1. c.isn_set = TRUE /\ c.reassembler = r.reassembler
      BY <2>2
    <3>2. InsertPayload(c, msg) = [c EXCEPT !.reassembler = Insert(@, i, data, msg.FIN)]
      BY <2>3, <2>6, <3>1 DEF InsertPayload
    <3>3. ReceiverReceive(r, msg) = InsertPayload(c, msg)
      BY <1>8, <2>1 DEF ReceiverReceive
    <3>4. [c EXCEPT !.reassembler = Insert(@, i, data, msg.FIN)]
              = [c EXCEPT !.reassembler = w]
      BY <2>7, <3>1
    <3> QED
      BY <2>2, <2>8, <3>2, <3>3, <3>4
  <2>10. msg.FIN => s.fin_sent /\ i + len = length
    BY <1>4, <2>3, <2>4 DEF FitsAt
  <2>11. Grown(w, r.reassembler, i, data, msg.FIN, length, length + 1)
    <3>1. i + len <= length + 1 /\ (len > 0 => i + len <= length)
      <4>1. CASE len > 0
        BY <1>3, <2>4, <4>1, SMTT(30)
      <4>2. CASE len = 0
        BY <1>3, <2>5, <4>2
      <4> QED
        BY <4>1, <4>2
    <3>2. Intact(r.reassembler, length, length + 1) /\ length + 1 \in Nat
      BY <1>6 DEF Hearing
    <3> QED
      BY <1>8, <2>3, <2>4, <2>7, <2>10, <3>1, <3>2, InsertResult
  <2>12. Hearing(z, isn, length)
    BY <1>6, <2>9, <2>11 DEF Hearing, Grown
  <2>13. s.sender_syn
    BY <1>2, <1>6, <1>10 DEF Coupled, Fits
  <2>14. ASSUME NEW y \in Nat, HoldsIndex(w, y)
         PROVE  y < s.input.popped
    <3>1. HoldsIndex(r.reassembler, y) \/ (i <= y /\ y < i + len)
      BY <2>4, <2>11, <2>14 DEF Grown
    <3>2. CASE HoldsIndex(r.reassembler, y)
      BY <1>6, <3>2 DEF Coupled
    <3>3. CASE i <= y /\ y < i + len
      BY <1>3, <2>4, <3>3
    <3> QED
      BY <3>1, <3>2, <3>3
  <2>15. PICK later \in Nat : later = NextByteIndex(w) /\ p <= later
    <3>1. Intact(w, length, length + 1) /\ length + 1 \in Nat /\ NextByteIndex(w) >= p
      BY <1>7, <2>11 DEF Grown
    <3>2. PICK later \in Nat : later = NextByteIndex(w)
      BY <3>1, IndexFacts
    <3> QED
      BY <3>1, <3>2
  <2>16. ASSUME w.output.eof \/ w.last_byte # NoLastByte
         PROVE  s.fin_sent
    <3>1. CASE msg.FIN
      BY <2>10, <3>1
    <3>2. CASE ~msg.FIN
      <4>1. w.last_byte = r.reassembler.last_byte
        BY <2>11, <3>2 DEF Grown
      <4>2. CASE r.reassembler.output.eof \/ r.reassembler.last_byte # NoLastByte
        BY <1>6, <4>2 DEF Coupled
      <4>3. CASE ~r.reassembler.output.eof /\ r.reassembler.last_byte = NoLastByte
        <5>1. w.output.eof
          BY <2>16, <4>1, <4>3
        <5>2. NextByteIndex(w) > NextByteIndex(r.reassembler) /\ NextByteIndex(w) = length
              /\ w.last_byte = length - 1
          BY <2>11, <3>2, <4>3, <5>1, GrownClosed
        <5> QED
          BY <1>7, <2>15, <4>1, <4>3, <5>2 DEF NoLastByte
      <4> QED
        BY <4>2, <4>3
    <3> QED
      BY <3>1, <3>2
  <2>17. Coupled(s, z)
    BY <2>9, <2>13, <2>14, <2>16 DEF Coupled
  <2>18. r.reassembler.output.eof => w.output.eof
    BY <2>11, GrownCloses
  <2>19. Advances(z, r)
    <3>1. PICK b \in Nat, f \in 0 .. 1, e \in 0 .. 1 :
              /\ f = Flag(r.isn_set) /\ e = Flag(r.reassembler.output.eof)
              /\ b = NextByteIndex(r.reassembler)
              /\ (e = 1 <=> r.reassembler.output.eof)
              /\ InOrder(r) = f + b + e
      <4>1. PICK b \in Nat, f \in 0 .. 1, e \in 0 .. 1 : ReceiverCounts(r, b, f, e, length)
        BY <1>6, HearingFacts
      <4> QED
        BY <4>1 DEF ReceiverCounts
    <3>2. PICK d \in Nat, g \in 0 .. 1, h \in 0 .. 1 :
              /\ g = Flag(z.isn_set) /\ h = Flag(z.reassembler.output.eof)
              /\ d = NextByteIndex(z.reassembler)
              /\ (g = 1 <=> z.isn_set)
              /\ (h = 1 <=> z.reassembler.output.eof)
              /\ InOrder(z) = g + d + h
      <4>1. PICK d \in Nat, g \in 0 .. 1, h \in 0 .. 1 : ReceiverCounts(z, d, g, h, length)
        BY <2>12, HearingFacts
      <4> QED
        BY <4>1 DEF ReceiverCounts
    <3>3. b = p /\ d = later /\ g = 1
      BY <1>7, <2>9, <2>15, <3>1, <3>2
    <3>4. e <= h
      BY <2>9, <2>18, <3>1, <3>2
    <3>5. f + b + e <= g + d + h
      BY <2>15, <3>3, <3>4
    <3>6. PICK u \in Nat, v \in Nat : u = InOrder(r) /\ v = InOrder(z) /\ u = f + b + e /\ v = g + d + h
      BY <3>1, <3>2
    <3>7. u <= v
      BY <3>5, <3>6
    <3>8. InOrder(r) \in Nat /\ InOrder(z) \in Nat /\ InOrder(r) <= InOrder(z)
      BY <3>6, <3>7
    <3> QED
      BY <1>6, <2>9, <3>8 DEF Advances, Hearing
  <2>20. Flow(s, z, there, back, isn, length)
    BY <2>12, <2>17, <2>19, FlowHears
  <2>21. Filled(z.reassembler.output, r.reassembler.output)
    BY <2>9, <2>11, <2>18 DEF Filled, Grown
  <2> QED
    BY <1>2, <2>8, <2>20, <2>21
<1> QED
  BY <1>9, <1>10

(* read: what is taken off the stream has been received all the same.       *)
LEMMA FlowRead ==
    ASSUME NEW length \in Nat, NEW isn, NEW s, NEW r, NEW there, NEW back,
           Flow(s, r, there, back, isn, length), NEW len \in Nat
    PROVE  Flow(s, [r EXCEPT !.reassembler.output = StreamPop(@, len)], there, back, isn, length)
<1>1. PICK w : w = [r.reassembler EXCEPT !.output = StreamPop(@, len)]
  OBVIOUS
<1>2. PICK z : z = [reassembler |-> w, isn |-> r.isn, isn_set |-> r.isn_set]
  OBVIOUS
<1>3. Hearing(r, isn, length) /\ Coupled(s, r) /\ Intact(r.reassembler, length, length + 1)
  BY DEF Flow, Hearing
<1>4. z = [r EXCEPT !.reassembler.output = StreamPop(@, len)]
  <2>1. [r EXCEPT !.reassembler.output = StreamPop(@, len)]
            = [r EXCEPT !.reassembler = [r.reassembler EXCEPT !.output = StreamPop(@, len)]]
    BY <1>3 DEF Hearing
  <2>2. r = [reassembler |-> r.reassembler, isn |-> r.isn, isn_set |-> r.isn_set]
    BY <1>3 DEF Hearing
  <2>3. z = [r EXCEPT !.reassembler = w]
    BY <1>2, <2>2
  <2> QED
    BY <1>1, <2>1, <2>3
<1>5. ReadFrom(w, r.reassembler, len, length, length + 1)
  BY <1>1, <1>3, ReadResult
<1>6. /\ Intact(w, length, length + 1) /\ NextByteIndex(w) = NextByteIndex(r.reassembler)
      /\ w.output.eof = r.reassembler.output.eof /\ w.output.error = r.reassembler.output.error
      /\ w.last_byte = r.reassembler.last_byte /\ w.pending = r.reassembler.pending
  BY <1>5 DEF ReadFrom
<1>7. z.reassembler = w /\ z.isn = r.isn /\ z.isn_set = r.isn_set
  BY <1>2
<1>8. Hearing(z, isn, length)
  BY <1>2, <1>3, <1>6, <1>7 DEF Hearing
<1>9. Coupled(s, z)
  <2>1. ASSUME NEW x \in Nat, HoldsIndex(w, x)
        PROVE  x < s.input.popped
    <3>1. HoldsIndex(r.reassembler, x)
      BY <1>6, <2>1 DEF HoldsIndex
    <3> QED
      BY <1>3, <3>1 DEF Coupled
  <2> QED
    BY <1>3, <1>6, <1>7, <2>1 DEF Coupled
<1>10. Advances(z, r)
  <2>1. InOrder(r) \in Nat
    BY <1>3, HearingTypes
  <2>2. InOrder(z) = InOrder(r)
    BY <1>6, <1>7 DEF InOrder
  <2> QED
    BY <1>7, <2>1, <2>2 DEF Advances
<1> QED
  BY <1>4, <1>8, <1>9, <1>10, FlowHears

-----------------------------------------------------------------------------
(* The owner writes on, or closes the stream at its end.                    *)
Extends(input, old, length) ==
    /\ StreamIntact(input) /\ input.popped = old.popped /\ input.error = old.error
    /\ BytesPushed(input) <= length
    /\ input.eof => BytesPushed(input) = length
    /\ IsFinished(old) => input = old

LEMMA FlowInput ==
    ASSUME NEW length \in Nat, 2 * (length + 2) < CYCLE,
           NEW isn, NEW s, NEW r, NEW there, NEW back,
           Flow(s, r, there, back, isn, length), NEW input, Extends(input, s.input, length)
    PROVE  Flow([s EXCEPT !.input = input], r, there, back, isn, length)
<1>1. PICK a : Serving(s, a, isn, length) /\ a <= InOrder(r)
  BY DEF Flow
<1>2. PICK t : t = [s EXCEPT !.input = input]
  OBVIOUS
<1>3. SenderInv(s, a) /\ s \in Senders
  BY <1>1, ServingFacts DEF Serving
<1>4. s.fin_sent => IsFinished(input)
  BY <1>3 DEF SenderInv, Written, Extends
<1>5. BytesPushed(input) <= Longest
  <2>1. PICK n \in Nat : n = BytesPushed(input)
    BY StreamFacts DEF Extends
  <2>2. length <= Longest /\ Longest \in Int
    BY LongestFacts
  <2> QED
    BY <2>1, <2>2 DEF Extends
<1>6. SenderInv(t, a)
  BY <1>2, <1>3, <1>4, <1>5, InputChange DEF Extends
<1>7. /\ t.input = input /\ t.isn = s.isn /\ t.sender_syn = s.sender_syn
      /\ t.fin_sent = s.fin_sent
  BY <1>2, <1>3 DEF Senders
<1>8. Serving(t, a, isn, length)
  <2>1. ~input.error
    BY <1>1 DEF Serving, Extends
  <2> QED
    BY <1>1, <1>6, <1>7, <2>1 DEF Serving, Extends
<1>9. Goes(t, s)
  <2>1. s.input.popped <= s.input.popped
    BY <1>1, ServingTypes
  <2> QED
    BY <1>7, <2>1 DEF Goes, Extends
<1> QED
  BY <1>1, <1>2, <1>8, <1>9, FlowGoes

(* Writer::push.                                                            *)
LEMMA WriteExtends ==
    ASSUME NEW length \in Nat, NEW s, NEW a, NEW isn, Serving(s, a, isn, length),
           NEW len \in Nat, BytesPushed(s.input) + len <= length
    PROVE  Extends(StreamPush(s.input, Bytes(BytesPushed(s.input), len)), s.input, length)
<1>1. PICK n \in Nat : n = BytesPushed(s.input) /\ n + len <= length
  BY ServingFacts, StreamFacts
<1>2. PICK data : data = Bytes(n, len) /\ IsRun(data, n) /\ Len(data) = len
  BY RunOfBytes DEF Bytes
<1>3. PICK t : t = StreamPush(s.input, data)
  OBVIOUS
<1>4. /\ StreamIntact(t) /\ t.eof = s.input.eof /\ t.error = s.input.error
      /\ t.popped = s.input.popped /\ BytesPushed(t) <= n + len
      /\ s.input.eof => t = s.input
  BY <1>1, <1>2, <1>3, ServingFacts, PushPart
<1>5. BytesPushed(t) <= length
  <2>1. PICK m \in Nat : m = BytesPushed(t)
    BY <1>4, StreamFacts
  <2> QED
    BY <1>1, <1>4, <2>1
<1>6. t.eof => BytesPushed(t) = length
  BY <1>4 DEF Serving
<1> QED
  BY <1>1, <1>2, <1>3, <1>4, <1>5, <1>6 DEF Extends, IsFinished

(* Writer::close.                                                           *)
LEMMA CloseExtends ==
    ASSUME NEW length \in Nat, NEW s, NEW a, NEW isn, Serving(s, a, isn, length),
           BytesPushed(s.input) = length
    PROVE  Extends(StreamClose(s.input), s.input, length)
<1>1. PICK t : t = StreamClose(s.input)
  OBVIOUS
<1>2. /\ StreamIntact(t) /\ t.eof /\ t.error = s.input.error
      /\ t.popped = s.input.popped /\ BytesPushed(t) = length
  BY <1>1, ServingFacts, CloseResult
<1>3. s.input.eof => t = s.input
  <2>1. s.input \in Streams(Nat)
    BY ServingFacts DEF StreamIntact
  <2> QED
    BY <1>1, <2>1 DEF StreamClose, Streams
<1> QED
  BY <1>1, <1>2, <1>3 DEF Extends, IsFinished

-----------------------------------------------------------------------------
(* Coarse time: how long the timer has run makes no difference.             *)
CoarseSender(s) ==
    [s EXCEPT !.timer_elapsed = 0, !.current_RTO = InitialRTO, !.consecutive_retrans_count = 0]

LEMMA FlowCoarse ==
    ASSUME NEW length \in Nat, NEW isn, NEW s, NEW r, NEW there, NEW back,
           Flow(s, r, there, back, isn, length)
    PROVE  LET t == CoarseSender(s)
           IN  /\ Flow(t, r, there, back, isn, length)
               /\ Keeps(t, s) /\ t.outstanding = s.outstanding
               /\ Grows(t, s)
<1>1. PICK a : Serving(s, a, isn, length) /\ a <= InOrder(r)
  BY DEF Flow
<1>2. PICK t : t = CoarseSender(s)
  OBVIOUS
<1>3. SenderInv(s, a) /\ s \in Senders
  BY <1>1, ServingFacts DEF Serving
<1>4. InitialRTO \in Nat
  BY SenderAssumption
<1>5. /\ t \in Senders /\ t.input = s.input /\ t.isn = s.isn /\ t.next_seqno = s.next_seqno
      /\ t.last_ackno = s.last_ackno /\ t.sender_syn = s.sender_syn /\ t.fin_sent = s.fin_sent
      /\ t.timer_running = s.timer_running /\ t.current_RTO = InitialRTO
      /\ t.consecutive_retrans_count = 0
      /\ t.outstanding = s.outstanding
  BY <1>2, <1>3, <1>4 DEF Senders, CoarseSender
<1>6. NextAbs(t) = NextAbs(s)
  BY <1>5 DEF NextAbs
<1>7. Written(t)
  BY <1>3, <1>5, Zenon DEF SenderInv, Written
<1>8. Timed(t)
  <2>1. PICK m \in Nat : m = InitialRTO /\ m * 1 = m
    BY <1>4
  <2>2. 2 ^ 0 = 1
    BY PowersOfTwo
  <2>3. t.current_RTO = InitialRTO * 2 ^ t.consecutive_retrans_count
    BY <1>5, <2>1, <2>2, Zenon
  <2>4. t.timer_running <=> t.outstanding # <<>>
    BY <1>3, <1>5, Zenon DEF SenderInv, Timed
  <2> QED
    BY <2>3, <2>4 DEF Timed
<1>9. Acked(t, a)
  BY <1>3, <1>5, <1>6, Zenon DEF SenderInv, Acked, AckedWithin, Sent
<1>10. SenderInv(t, a)
  BY <1>5, <1>7, <1>8, <1>9 DEF SenderInv
<1>11. Serving(t, a, isn, length)
  BY <1>1, <1>5, <1>10 DEF Serving
<1>12. Goes(t, s) /\ Keeps(t, s)
  <2>1. s.input.popped <= s.input.popped
    BY <1>1, ServingTypes
  <2> QED
    BY <1>5, <2>1 DEF Goes, Keeps
<1>13. Flow(t, r, there, back, isn, length)
  BY <1>1, <1>11, <1>12, FlowGoes
<1>14. Grows(t, s)
  BY <1>1, <1>11, <1>12, GoesGrows
<1> QED
  BY <1>2, <1>5, <1>12, <1>13, <1>14

(* send of a receiver: it says what it has.                                 *)
LEMMA SendAnswers ==
    ASSUME NEW length \in Nat, NEW isn, NEW r, Hearing(r, isn, length)
    PROVE  Answers(ReceiverSend(r), r)
<1>1. PICK m : m = ReceiverSend(r)
  OBVIOUS
<1>2. PICK w \in Nat : w = WindowSize(r)
  <2>1. PICK c \in Nat, q \in Nat : q <= c /\ AvailableCapacity(r.reassembler.output) = c - q
    BY StreamFacts DEF Hearing, Intact
  <2>2. MaxWindow \in Nat /\ c - q \in Nat
    BY <2>1, ReceiverAssumption
  <2> QED
    BY <2>1, <2>2 DEF WindowSize, Least
<1>3. /\ m.ackno = (IF r.isn_set THEN Wrap(AbsAckno(r), r.isn) ELSE NoAckno)
      /\ m.window_size = w /\ m.RST = r.reassembler.output.error
  BY <1>1, <1>2 DEF ReceiverSend, ReceiverMessage
<1>4. ~m.RST
  BY <1>3 DEF Hearing
<1>5. ASSUME r.isn_set
      PROVE  \E b \in 1 .. InOrder(r) : m.ackno = Wrap(b, r.isn)
  <2>1. PICK p \in Nat, x \in 0 .. 1, y \in 0 .. 1 :
            /\ p = NextByteIndex(r.reassembler) /\ x = Flag(r.isn_set) /\ y = Flag(r.reassembler.output.eof)
            /\ (x = 1 <=> r.isn_set) /\ InOrder(r) = x + p + y
            /\ r.isn_set => AbsAckno(r) = InOrder(r)
    <3>1. PICK p \in Nat, x \in 0 .. 1, y \in 0 .. 1 : ReceiverCounts(r, p, x, y, length)
      BY HearingFacts
    <3> QED
      BY <3>1 DEF ReceiverCounts
  <2>2. m.ackno = Wrap(InOrder(r), r.isn)
    BY <1>3, <1>5, <2>1
  <2>3. PICK b \in Nat : b = InOrder(r)
    BY HearingTypes
  <2>4. b \in 1 .. b
    <3>1. x = 1
      BY <1>5, <2>1
    <3>2. b = x + p + y
      BY <2>1, <2>3
    <3> QED
      BY ONLY <3>1, <3>2, b \in Nat, p \in Nat, y \in 0 .. 1
  <2> QED
    BY <2>2, <2>3, <2>4
<1> QED
  BY <1>1, <1>3, <1>4, <1>5 DEF Answers

(* A message of a sender and what a receiver has to say share a segment.    *)
LEMMA SegmentParts ==
    ASSUME NEW m \in SenderMessages, ~m.RST, NEW length \in Nat, NEW isn, NEW r,
           Hearing(r, isn, length)
    PROVE  Segment(m, ReceiverSend(r)) = [sender |-> m, receiver |-> ReceiverSend(r)]
<1>1. r.reassembler.output.error = FALSE
  BY DEF Hearing, Intact, Streams
<1>2. PICK a, w, q : q = ReceiverSend(r) /\ q = [ackno |-> a, window_size |-> w, RST |-> FALSE]
  BY <1>1 DEF ReceiverSend, ReceiverMessage
<1>3. m.RST = FALSE /\ [m EXCEPT !.RST = FALSE] = m
  BY DEF SenderMessages
<1>4. [q EXCEPT !.RST = FALSE] = q /\ q.RST = FALSE
  <2>1. q \in [ackno : {a}, window_size : {w}, RST : {FALSE}]
    BY <1>2
  <2> QED
    BY <2>1
<1>5. Segment(m, q) = [sender |-> [m EXCEPT !.RST = FALSE], receiver |-> [q EXCEPT !.RST = FALSE]]
  BY <1>3, <1>4 DEF Segment
<1> QED
  BY <1>2, <1>3, <1>4, <1>5

(* Before anything is sent.                                                 *)
LEMMA FlowNew ==
    ASSUME NEW length \in Nat, 2 * (length + 2) < CYCLE, NEW isn \in Seqnos,
           NEW send \in Nat, NEW recv \in Nat
    PROVE  LET s == NewSender(NewStream(send), isn)
           IN  /\ Flow(s, NewReceiver(NewReassembler(NewStream(recv))), {}, {}, isn, length)
               /\ PushedAll(s)
<1>1. PICK s : s = NewSender(NewStream(send), isn)
  OBVIOUS
<1>2. PICK w : w = NewReassembler(NewStream(recv))
  OBVIOUS
<1>3. PICK r : r = [reassembler |-> w, isn |-> 0, isn_set |-> FALSE]
  OBVIOUS
<1>4. r = NewReceiver(w) /\ r.reassembler = w /\ r.isn_set = FALSE
  BY <1>3 DEF NewReceiver
<1>5. /\ Intact(w, length, length + 1) /\ ~w.output.eof /\ w.last_byte = NoLastByte
      /\ NextByteIndex(w) = 0 /\ \A x \in Nat : ~HoldsIndex(w, x)
  <2>1. length + 1 \in Nat
    OBVIOUS
  <2> QED
    BY <1>2, <2>1, NewResult
<1>6. ~w.output.error
  BY <1>2 DEF NewReassembler, NewStream
<1>7. Hearing(r, isn, length)
  BY <1>3, <1>4, <1>5, <1>6 DEF Hearing
<1>8. Coupled(s, r)
  BY <1>4, <1>5 DEF Coupled
<1>9. /\ s.input = [capacity |-> send, queue |-> <<>>, popped |-> 0, eof |-> FALSE, error |-> FALSE]
      /\ s.isn = isn
  BY <1>1 DEF NewSender, NewStream
<1>10. SenderInv(s, 0)
  <2>1. Longest \in Nat
    <3>1. length <= Longest /\ Longest \in Int
      BY LongestFacts
    <3> QED
      BY <3>1
  <2> QED
    BY <1>1, <2>1, NewSenderResult
<1>11. Serving(s, 0, isn, length)
  <2>1. BytesPushed(s.input) <= length /\ ~s.input.eof /\ ~s.input.error
    BY <1>9 DEF BytesPushed
  <2> QED
    BY <1>9, <1>10, <2>1 DEF Serving
<1>12. 0 <= InOrder(r)
  BY <1>4, <1>5 DEF InOrder, Flag
<1>13. Flow(s, r, {}, {}, isn, length)
  BY <1>7, <1>8, <1>11, <1>12 DEF Flow
<1>14. PushedAll(s)
  BY <1>9 DEF PushedAll, IsFinished
<1> QED
  BY <1>1, <1>2, <1>4, <1>13, <1>14

-----------------------------------------------------------------------------
(* What is in a sequence of datagrams.                                      *)
Items(n) == {n[k] : k \in DOMAIN n}

Listed(n) == n \in Seq(Items(n))

LEMMA ListOf ==
    ASSUME NEW S, NEW n \in Seq(S)
    PROVE  Listed(n) /\ Items(n) \subseteq S
<1>1. PICK l \in Nat : l = Len(n) /\ DOMAIN n = 1 .. l /\ n = [k \in 1 .. l |-> n[k]]
  BY LenProperties
<1>2. \A k \in 1 .. l : n[k] \in S /\ n[k] \in Items(n)
  BY <1>1 DEF Items
<1>3. [k \in 1 .. l |-> n[k]] \in Seq(Items(n))
  BY <1>2
<1> QED
  BY <1>1, <1>2, <1>3 DEF Listed, Items

LEMMA ListConcat ==
    ASSUME NEW m, Listed(m), NEW n, Listed(n)
    PROVE  /\ Listed(m \o n) /\ Items(m \o n) \subseteq Items(m) \cup Items(n)
           /\ Len(m) \in Nat /\ Len(n) \in Nat /\ Len(m \o n) = Len(m) + Len(n)
<1>1. PICK S : S = Items(m) \cup Items(n)
  OBVIOUS
<1>2. m \in Seq(S) /\ n \in Seq(S)
  BY <1>1 DEF Listed
<1>3. m \o n \in Seq(S)
  BY <1>2
<1>4. Len(m) \in Nat /\ Len(n) \in Nat /\ Len(m \o n) = Len(m) + Len(n)
  BY <1>2, LenProperties, ConcatProperties
<1> QED
  BY <1>1, <1>3, <1>4, ListOf

(* Part of a list.                                                          *)
LEMMA ListTake ==
    ASSUME NEW n, Listed(n), NEW k \in Nat, k <= Len(n)
    PROVE  Listed(Take(n, k)) /\ Items(Take(n, k)) \subseteq Items(n)
<1>1. PICK S : S = Items(n) /\ n \in Seq(S)
  BY DEF Listed
<1>2. SubSeq(n, 1, k) \in Seq(S)
  <2>1. \A j \in 1 .. k : n[j] \in S
    BY <1>1
  <2> QED
    BY <1>1, <2>1, SubSeqProperties
<1> QED
  BY <1>1, <1>2, ListOf DEF Take

LEMMA ListTail ==
    ASSUME NEW n, Listed(n), n # <<>>
    PROVE  Listed(Tail(n)) /\ Items(Tail(n)) \subseteq Items(n) /\ Head(n) \in Items(n)
<1>1. PICK S : S = Items(n) /\ n \in Seq(S)
  BY DEF Listed
<1>2. Tail(n) \in Seq(S) /\ Head(n) \in S
  BY <1>1
<1> QED
  BY <1>1, <1>2, ListOf

-----------------------------------------------------------------------------
(* Two peers P and Q, np and nq the messages on their way to them. p is the  *)
(* way from P to Q, q the way back.                                         *)
Ways == [isn : Seqnos, length : Nat]

Shaped(P) ==
    P = [sender |-> P.sender, receiver |-> P.receiver, need_send |-> P.need_send,
         linger_after_streams_finish |-> P.linger_after_streams_finish, idle |-> P.idle]

Linked(P, Q, np, nq, p, q) ==
    /\ Shaped(P)
    /\ Flow(P.sender, Q.receiver, nq, np, p.isn, p.length)
    /\ Flow(Q.sender, P.receiver, np, nq, q.isn, q.length)

Along(X, P) == WrittenAlike(Outbound(X), Outbound(P)) /\ Filled(Inbound(X), Inbound(P))

(* What a peer sends fits, and answers.                                     *)
Proper(m, P, length) == Fits(m.sender, P.sender, length) /\ Answers(m.receiver, P.receiver)

Sends(x, length) == Listed(x.sent) /\ \A m \in Items(x.sent) : Proper(m, x.peer, length)

(* The parts of a peer's record that the others look at.                    *)
LEMMA SameLinked ==
    ASSUME NEW P, NEW Q, NEW np, NEW nq, NEW p, NEW q, Linked(P, Q, np, nq, p, q),
           NEW X, Shaped(X), X.sender = P.sender, X.receiver = P.receiver
    PROVE  Linked(X, Q, np, nq, p, q)
BY DEF Linked

LEMMA PeerSendResult ==
    ASSUME NEW P, Shaped(P), NEW length \in Nat, NEW isn, NEW other \in Nat,
           Hearing(P.receiver, isn, other),
           NEW messages \in Seq(SenderMessages),
           \A k \in DOMAIN messages : Fits(messages[k], P.sender, length)
    PROVE  LET x == PeerSend(P, messages)
           IN  /\ Sends(x, length) /\ Shaped(x.peer)
               /\ x.peer.sender = P.sender /\ x.peer.receiver = P.receiver
<1>1. PICK l \in Nat : l = Len(messages) /\ DOMAIN messages = 1 .. l
  BY LenProperties
<1>2. PICK s, r, n, f, i :
          /\ P = [sender |-> s, receiver |-> r, need_send |-> n,
                  linger_after_streams_finish |-> f, idle |-> i]
          /\ s = P.sender /\ r = P.receiver
  BY DEF Shaped
<1>3. PICK a : a = ReceiverSend(r) /\ Answers(a, r)
  BY <1>2, SendAnswers
<1>4. PICK sent : sent = [k \in 1 .. l |-> Segment(messages[k], ReceiverSend(r))]
  OBVIOUS
<1>5. ASSUME NEW k \in 1 .. l
      PROVE  sent[k] = [sender |-> messages[k], receiver |-> a] /\ Fits(messages[k], s, length)
  <2>1. Fits(messages[k], s, length)
    BY <1>1, <1>2
  <2>2. messages[k] \in SenderMessages /\ ~messages[k].RST
    BY <2>1 DEF Fits
  <2>3. Segment(messages[k], ReceiverSend(r)) = [sender |-> messages[k], receiver |-> ReceiverSend(r)]
    BY <1>2, <2>2, SegmentParts
  <2> QED
    BY <1>3, <1>4, <2>1, <2>3
<1>6. PICK X : X = [sender |-> s, receiver |-> r, need_send |-> (n /\ messages = <<>>),
                    linger_after_streams_finish |-> f, idle |-> i]
  OBVIOUS
<1>7. PeerSend(P, messages) = [peer |-> X, sent |-> sent]
  <2>1. [P EXCEPT !.need_send = @ /\ messages = <<>>] = X
    BY <1>2, <1>6
  <2>2. [k \in DOMAIN messages |-> Segment(messages[k], ReceiverSend(P.receiver))] = sent
    BY <1>1, <1>2, <1>4
  <2> QED
    BY <2>1, <2>2 DEF PeerSend, PeerResult
<1>8. Shaped(X) /\ X.sender = P.sender /\ X.receiver = P.receiver
  BY <1>2, <1>6 DEF Shaped
<1>9. sent \in Seq({sent[k] : k \in 1 .. l}) /\ DOMAIN sent = 1 .. l
  BY <1>4
<1>10. ASSUME NEW m \in Items(sent)
       PROVE  Proper(m, X, length)
  <2>1. PICK k \in 1 .. l : m = sent[k]
    BY <1>9 DEF Items
  <2>2. m.sender = messages[k] /\ m.receiver = a
    <3>1. m = [sender |-> messages[k], receiver |-> a]
      BY <1>5, <2>1
    <3> QED
      BY <3>1
  <2> QED
    BY <1>2, <1>3, <1>5, <1>8, <2>2 DEF Proper
<1>11. Listed(sent)
  BY <1>9, ListOf
<1>12. PICK x : x = [peer |-> X, sent |-> sent] /\ x = PeerSend(P, messages)
  BY <1>7
<1>13. x.peer = X /\ x.sent = sent
  BY <1>12
<1> QED
  BY <1>8, <1>10, <1>11, <1>12, <1>13 DEF Sends

(* What a link says of the four parts.                                      *)
LEMMA LinkedFacts ==
    ASSUME NEW P, NEW Q, NEW np, NEW nq, NEW p, NEW q, Linked(P, Q, np, nq, p, q)
    PROVE  Shaped(P) /\ Hearing(P.receiver, q.isn, q.length)
BY DEF Linked, Flow

(* push.                                                                    *)
LEMMA PeerPushResult ==
    ASSUME NEW p \in Ways, NEW q \in Ways,
           NEW P, NEW Q, NEW np, NEW nq, Linked(P, Q, np, nq, p, q)
    PROVE  LET x == PeerPush(P)
           IN  /\ Linked(x.peer, Q, np, nq, p, q) /\ Sends(x, p.length)
               /\ PushedAll(x.peer.sender) /\ x.peer.sender.sender_syn
               /\ x.peer.receiver = P.receiver /\ Along(x.peer, P)
<1>1. PICK y : y = SenderPush(P.sender)
  OBVIOUS
<1>2. p.length \in Nat /\ q.length \in Nat
  BY DEF Ways
<1>3. /\ FlowsOn(y, Q.receiver, nq, np, p.isn, p.length)
      /\ y.sender.sender_syn /\ PushedAll(y.sender)
      /\ WrittenAlike(y.sender.input, P.sender.input)
  BY <1>1, <1>2, FlowPush DEF Linked
<1>4. PICK t : t = y.sender
  OBVIOUS
<1>5. PICK s, r, n, f, i :
          /\ P = [sender |-> s, receiver |-> r, need_send |-> n,
                  linger_after_streams_finish |-> f, idle |-> i]
          /\ s = P.sender /\ r = P.receiver
  BY DEF Linked, Shaped
<1>6. PICK X : X = [P EXCEPT !.sender = t]
  OBVIOUS
<1>7. Shaped(X) /\ X.sender = t /\ X.receiver = P.receiver
  BY <1>5, <1>6 DEF Shaped
<1>8. Linked(X, Q, np, nq, p, q)
  BY <1>3, <1>4, <1>7 DEF Linked, FlowsOn
<1>9. PICK x : x = PeerPush(P) /\ x = PeerSend(X, y.sent)
  BY <1>1, <1>4, <1>6 DEF PeerPush
<1>10. /\ y.sent \in Seq(SenderMessages)
       /\ \A k \in DOMAIN y.sent : Fits(y.sent[k], X.sender, p.length)
  BY <1>3, <1>4, <1>7 DEF FlowsOn
<1>11. /\ Sends(x, p.length) /\ Shaped(x.peer)
       /\ x.peer.sender = X.sender /\ x.peer.receiver = X.receiver
  <2>1. Shaped(X) /\ Hearing(X.receiver, q.isn, q.length)
    BY <1>8, LinkedFacts
  <2>2. PICK z : z = PeerSend(X, y.sent)
    OBVIOUS
  <2>3. /\ Sends(z, p.length) /\ Shaped(z.peer)
        /\ z.peer.sender = X.sender /\ z.peer.receiver = X.receiver
    BY <1>2, <1>10, <2>1, <2>2, PeerSendResult
  <2> QED
    BY <1>9, <2>2, <2>3
<1>12. Linked(x.peer, Q, np, nq, p, q)
  BY <1>8, <1>11, SameLinked
<1>13. Along(x.peer, P)
  BY <1>3, <1>4, <1>7, <1>11 DEF Along, Outbound, Inbound, Filled
<1> QED
  BY <1>3, <1>4, <1>7, <1>9, <1>11, <1>12, <1>13

(* tick.                                                                    *)
LEMMA PeerTickResult ==
    ASSUME NEW p \in Ways, NEW q \in Ways,
           NEW P, NEW Q, NEW np, NEW nq, Linked(P, Q, np, nq, p, q), PushedAll(P.sender),
           NEW ms \in Nat
    PROVE  LET x == PeerTick(P, ms)
           IN  /\ Linked(x.peer, Q, np, nq, p, q) /\ Sends(x, p.length)
               /\ PushedAll(x.peer.sender) /\ Along(x.peer, P)
<1>1. PICK y : y = SenderTick(P.sender, ms)
  OBVIOUS
<1>2. p.length \in Nat /\ q.length \in Nat
  BY DEF Ways
<1>3. /\ FlowsOn(y, Q.receiver, nq, np, p.isn, p.length)
      /\ PushedAll(y.sender) /\ y.sender.input = P.sender.input
  BY <1>1, <1>2, FlowTick DEF Linked
<1>4. PICK t : t = y.sender
  OBVIOUS
<1>5. PICK s, r, n, f, i :
          /\ P = [sender |-> s, receiver |-> r, need_send |-> n,
                  linger_after_streams_finish |-> f, idle |-> i]
          /\ s = P.sender /\ r = P.receiver
  BY DEF Linked, Shaped
<1>6. PICK X : X = [P EXCEPT !.sender = t, !.idle = @ + ms]
  OBVIOUS
<1>7. Shaped(X) /\ X.sender = t /\ X.receiver = P.receiver
  BY <1>5, <1>6 DEF Shaped
<1>8. Linked(X, Q, np, nq, p, q)
  BY <1>3, <1>4, <1>7 DEF Linked, FlowsOn
<1>9. PICK x : x = PeerTick(P, ms) /\ x = PeerSend(X, y.sent)
  BY <1>1, <1>4, <1>6 DEF PeerTick
<1>10. /\ y.sent \in Seq(SenderMessages)
       /\ \A k \in DOMAIN y.sent : Fits(y.sent[k], X.sender, p.length)
  BY <1>3, <1>4, <1>7 DEF FlowsOn
<1>11. /\ Sends(x, p.length) /\ Shaped(x.peer)
       /\ x.peer.sender = X.sender /\ x.peer.receiver = X.receiver
  <2>1. Shaped(X) /\ Hearing(X.receiver, q.isn, q.length)
    BY <1>8, LinkedFacts
  <2>2. PICK z : z = PeerSend(X, y.sent)
    OBVIOUS
  <2>3. /\ Sends(z, p.length) /\ Shaped(z.peer)
        /\ z.peer.sender = X.sender /\ z.peer.receiver = X.receiver
    BY <1>2, <1>10, <2>1, <2>2, PeerSendResult
  <2> QED
    BY <1>9, <2>2, <2>3
<1>12. Linked(x.peer, Q, np, nq, p, q)
  BY <1>8, <1>11, SameLinked
<1>13. Along(x.peer, P)
  BY <1>3, <1>4, <1>7, <1>11 DEF Along, Outbound, Inbound, Filled, WrittenAlike
<1> QED
  BY <1>3, <1>4, <1>7, <1>9, <1>11, <1>12, <1>13

(* receive.                                                                 *)
LEMMA PeerReceiveResult ==
    ASSUME NEW p \in Ways, NEW q \in Ways, 2 * (q.length + 2) < CYCLE,
           NEW P, NEW Q, NEW np, NEW nq, Linked(P, Q, np, nq, p, q), PushedAll(P.sender),
           NEW msg \in np
    PROVE  LET x == PeerReceive(P, msg)
           IN  /\ Linked(x.peer, Q, np, nq, p, q) /\ Sends(x, p.length)
               /\ PushedAll(x.peer.sender) /\ Along(x.peer, P)
<1>1. PICK x : x = PeerReceive(P, msg)
  OBVIOUS
<1>2. p.length \in Nat /\ q.length \in Nat
  BY DEF Ways
<1>3. CASE ~Active(P)
  <2>1. x = [peer |-> P, sent |-> <<>>]
    BY <1>1, <1>3 DEF PeerReceive, PeerResult
  <2>2. x.peer = P /\ x.sent = <<>>
    BY <2>1
  <2>3. Listed(<<>>) /\ Items(<<>>) = {}
    BY DEF Listed, Items
  <2> QED
    BY <1>1, <2>2, <2>3 DEF Sends, Along, WrittenAlike, Filled
<1>4. CASE Active(P)
  <2>1. PICK s, r, n, f, i :
            /\ P = [sender |-> s, receiver |-> r, need_send |-> n,
                    linger_after_streams_finish |-> f, idle |-> i]
            /\ s = P.sender /\ r = P.receiver
    BY DEF Linked, Shaped
  <2>2. PICK t, w : t = SenderReceive(s, msg.receiver) /\ w = ReceiverReceive(r, msg.sender)
    OBVIOUS
  <2>3. PICK R : R = [P EXCEPT !.idle = 0,
                               !.need_send = @ \/ WantsReply(P, msg),
                               !.receiver = ReceiverReceive(@, msg.sender),
                               !.sender = SenderReceive(@, msg.receiver)]
    OBVIOUS
  <2>4. R = [sender |-> t, receiver |-> w, need_send |-> (n \/ WantsReply(P, msg)),
             linger_after_streams_finish |-> f, idle |-> 0]
    BY <2>1, <2>2, <2>3
  <2>5. Shaped(R) /\ R.sender = t /\ R.receiver = w
    BY <2>4 DEF Shaped
  <2>6. Flow(t, Q.receiver, nq, np, p.isn, p.length) /\ t.input = s.input
    BY <1>2, <2>1, <2>2, FlowAck DEF Linked
  <2>7. /\ Flow(Q.sender, w, np, nq, q.isn, q.length)
        /\ Filled(w.reassembler.output, r.reassembler.output)
    BY <1>2, <2>1, <2>2, FlowHear DEF Linked
  <2>8. Linked(R, Q, np, nq, p, q)
    BY <2>5, <2>6, <2>7 DEF Linked
  <2>9. PICK y : y = PeerPush(R)
    OBVIOUS
  <2>10. /\ Linked(y.peer, Q, np, nq, p, q) /\ Sends(y, p.length)
         /\ PushedAll(y.peer.sender) /\ y.peer.sender.sender_syn
         /\ Along(y.peer, R)
    BY <2>8, <2>9, PeerPushResult
  <2>11. PICK Y : Y = y.peer /\ Shaped(Y) /\ Hearing(Y.receiver, q.isn, q.length)
    BY <2>10, LinkedFacts
  <2>12. PICK z : z = IF Y.need_send THEN PeerSend(Y, <<MakeEmptyMessage(Y.sender)>>)
                      ELSE PeerResult(Y, <<>>)
    OBVIOUS
  <2>13. /\ Sends(z, p.length) /\ Shaped(z.peer)
         /\ z.peer.sender = Y.sender /\ z.peer.receiver = Y.receiver
    <3>1. CASE Y.need_send
      <4>1. PICK a : Serving(Y.sender, a, p.isn, p.length)
        BY <2>10, <2>11 DEF Linked, Flow
      <4>2. PICK e : e = MakeEmptyMessage(Y.sender) /\ Fits(e, Y.sender, p.length)
        BY <1>2, <2>10, <2>11, <4>1, EmptyFits
      <4>3. e \in SenderMessages
        BY <4>2 DEF Fits
      <4>4. <<e>> \in Seq(SenderMessages) /\ \A k \in DOMAIN <<e>> : <<e>>[k] = e
        BY <4>3
      <4>5. z = PeerSend(Y, <<e>>)
        BY <2>12, <3>1, <4>2
      <4> QED
        BY <1>2, <2>11, <4>2, <4>4, <4>5, PeerSendResult
    <3>2. CASE ~Y.need_send
      <4>1. z = [peer |-> Y, sent |-> <<>>]
        BY <2>12, <3>2 DEF PeerResult
      <4>2. z.peer = Y /\ z.sent = <<>>
        BY <4>1
      <4>3. Listed(<<>>) /\ Items(<<>>) = {}
        BY DEF Listed, Items
      <4> QED
        BY <2>11, <4>2, <4>3 DEF Sends
    <3> QED
      BY <3>1, <3>2
  <2>14. PICK X : X = NoteLinger(z.peer)
    OBVIOUS
  <2>15. Shaped(X) /\ X.sender = Y.sender /\ X.receiver = Y.receiver
    <3>1. PICK Z, s2, r2, n2, f2, i2 :
              /\ Z = z.peer
              /\ Z = [sender |-> s2, receiver |-> r2, need_send |-> n2,
                      linger_after_streams_finish |-> f2, idle |-> i2]
              /\ s2 = z.peer.sender /\ r2 = z.peer.receiver
      BY <2>13 DEF Shaped
    <3>2. PICK g : g = [sender |-> s2, receiver |-> r2, need_send |-> n2,
                        linger_after_streams_finish |-> FALSE, idle |-> i2]
      OBVIOUS
    <3>3. X = Z \/ X = g
      <4>1. [Z EXCEPT !.linger_after_streams_finish = FALSE] = g
        <5>1. PICK no : no = FALSE
          OBVIOUS
        <5>2. [Z EXCEPT !.linger_after_streams_finish = no]
                  = [sender |-> s2, receiver |-> r2, need_send |-> n2,
                     linger_after_streams_finish |-> no, idle |-> i2]
          BY <3>1
        <5> QED
          BY <3>2, <5>1, <5>2
      <4> QED
        BY <2>14, <3>1, <4>1 DEF NoteLinger
    <3>4. Shaped(g) /\ g.sender = s2 /\ g.receiver = r2
      BY <3>2 DEF Shaped
    <3> QED
      BY <2>13, <3>1, <3>3, <3>4
  <2>16. PICK all : all = y.sent \o z.sent
    OBVIOUS
  <2>17. x = [peer |-> X, sent |-> all]
    BY <1>1, <1>4, <2>3, <2>9, <2>11, <2>12, <2>14, <2>16 DEF PeerReceive, PeerResult
  <2>18. x.peer = X /\ x.sent = all
    BY <2>17
  <2>19. Linked(X, Q, np, nq, p, q)
    BY <2>10, <2>11, <2>15, SameLinked
  <2>20. Listed(all) /\ Items(all) \subseteq Items(y.sent) \cup Items(z.sent)
    BY <2>10, <2>13, <2>16, ListConcat DEF Sends
  <2>21. ASSUME NEW m \in Items(all)
         PROVE  Proper(m, X, p.length)
    <3>1. m \in Items(y.sent) \/ m \in Items(z.sent)
      BY <2>20, <2>21
    <3> QED
      BY <2>10, <2>11, <2>13, <2>15, <3>1 DEF Sends, Proper
  <2>22. Along(X, P)
    BY <2>1, <2>5, <2>6, <2>7, <2>10, <2>11, <2>15 DEF Along, WrittenAlike, Filled, Outbound, Inbound
  <2> QED
    BY <1>1, <2>10, <2>11, <2>15, <2>18, <2>19, <2>20, <2>21, <2>22 DEF Sends
<1> QED
  BY <1>3, <1>4

(* What a peer has done, seen with coarse time.                             *)
LEMMA PeerCoarse ==
    ASSUME NEW p \in Ways, NEW q \in Ways,
           NEW P, NEW Q, NEW np, NEW nq, Linked(P, Q, np, nq, p, q), PushedAll(P.sender)
    PROVE  /\ Linked(Coarse(P), Q, np, nq, p, q) /\ PushedAll(Coarse(P).sender)
           /\ \A m : Proper(m, P, p.length) => Proper(m, Coarse(P), p.length)
           /\ Coarse(P).receiver = P.receiver /\ Along(Coarse(P), P)
           /\ Keeps(Coarse(P).sender, P.sender)
<1>1. p.length \in Nat
  BY DEF Ways
<1>2. PICK s, r, n, f, i :
          /\ P = [sender |-> s, receiver |-> r, need_send |-> n,
                  linger_after_streams_finish |-> f, idle |-> i]
          /\ s = P.sender /\ r = P.receiver
  BY DEF Linked, Shaped
<1>3. PICK t : t = CoarseSender(s)
  OBVIOUS
<1>4. PICK X : X = Coarse(P)
  OBVIOUS
<1>5. X = [sender |-> t, receiver |-> r, need_send |-> n,
           linger_after_streams_finish |-> f, idle |-> Least(i, LINGER * InitialRTO)]
  BY <1>2, <1>3, <1>4 DEF Coarse, CoarseSender
<1>6. Shaped(X) /\ X.sender = t /\ X.receiver = r
  BY <1>5 DEF Shaped
<1>7. /\ Flow(t, Q.receiver, nq, np, p.isn, p.length)
      /\ Keeps(t, s) /\ t.outstanding = s.outstanding /\ Grows(t, s)
  BY <1>1, <1>2, <1>3, FlowCoarse DEF Linked
<1>8. Linked(X, Q, np, nq, p, q)
  BY <1>2, <1>6, <1>7 DEF Linked
<1>9. PushedAll(t)
  BY <1>2, <1>7 DEF PushedAll, Keeps
<1>10. ASSUME NEW m, Proper(m, P, p.length)
       PROVE  Proper(m, X, p.length)
  BY <1>1, <1>2, <1>6, <1>7, <1>10, FitsStays DEF Proper
<1>11. Along(X, P)
  BY <1>2, <1>6, <1>7 DEF Along, Keeps, WrittenAlike, Filled, Outbound, Inbound
<1> QED
  BY <1>2, <1>4, <1>6, <1>7, <1>8, <1>9, <1>10, <1>11

(* What is written to a stream, or its close.                               *)
LEMMA LinkedInput ==
    ASSUME NEW p \in Ways, NEW q \in Ways,
           NEW P, NEW Q, NEW np, NEW nq, Linked(P, Q, np, nq, p, q),
           2 * (p.length + 2) < CYCLE, NEW input, Extends(input, P.sender.input, p.length)
    PROVE  Linked([P EXCEPT !.sender.input = input], Q, np, nq, p, q)
<1>1. p.length \in Nat
  BY DEF Ways
<1>2. PICK s, r, n, f, i :
          /\ P = [sender |-> s, receiver |-> r, need_send |-> n,
                  linger_after_streams_finish |-> f, idle |-> i]
          /\ s = P.sender /\ r = P.receiver
  BY DEF Linked, Shaped
<1>3. PICK t : t = [s EXCEPT !.input = input]
  OBVIOUS
<1>4. Flow(t, Q.receiver, nq, np, p.isn, p.length)
  BY <1>1, <1>2, <1>3, FlowInput DEF Linked
<1>5. PICK X : X = [P EXCEPT !.sender.input = input]
  OBVIOUS
<1>6. X = [sender |-> t, receiver |-> r, need_send |-> n,
           linger_after_streams_finish |-> f, idle |-> i]
  BY <1>2, <1>3, <1>5
<1>7. Shaped(X) /\ X.sender = t /\ X.receiver = r
  BY <1>6 DEF Shaped
<1> QED
  BY <1>2, <1>4, <1>5, <1>7 DEF Linked

-----------------------------------------------------------------------------
(* What has come out of a flow: the bytes that were put into it, and its    *)
(* end only behind the last of them.                                        *)
Delivered(s, r, length) ==
    LET inbound == r.reassembler.output
    IN  /\ StreamIntact(inbound) /\ ~inbound.error /\ ~s.input.error
        /\ BytesPushed(inbound) <= BytesPushed(s.input)
        /\ inbound.eof => s.input.eof /\ BytesPushed(inbound) = length

LEMMA FlowDelivers ==
    ASSUME NEW s, NEW r, NEW there, NEW back, NEW isn, NEW length \in Nat,
           Flow(s, r, there, back, isn, length)
    PROVE  Delivered(s, r, length)
<1>1. PICK a : Serving(s, a, isn, length)
  BY DEF Flow
<1>2. PICK inbound : /\ inbound = r.reassembler.output /\ ~inbound.error
                     /\ StreamIntact(inbound)
                     /\ BytesPushed(inbound) = NextByteIndex(r.reassembler)
                     /\ inbound.eof => NextByteIndex(r.reassembler) = length
  BY DEF Flow, Hearing, Intact, StreamIntact, NextByteIndex
<1>3. PICK i \in Nat, l \in Nat : /\ i = s.input.popped /\ l = Len(s.input.queue)
                                  /\ BytesPushed(s.input) = i + l
  <2>1. StreamIntact(s.input)
    BY <1>1, ServingFacts
  <2>2. PICK c \in Nat, k \in Nat, j \in Nat :
            c = s.input.capacity /\ k = Len(s.input.queue) /\ j = s.input.popped
            /\ BytesPushed(s.input) = j + k
    BY <2>1, StreamFacts
  <2> QED
    BY <2>2
<1>4. NextByteIndex(r.reassembler) <= i
  BY <1>3, ReceivedSent
<1>5. PICK n \in Nat : n = NextByteIndex(r.reassembler)
  <2>1. PICK n \in Nat, x \in 0 .. 1, y \in 0 .. 1 : ReceiverCounts(r, n, x, y, length)
    BY HearingFacts DEF Flow
  <2> QED
    BY <2>1 DEF ReceiverCounts
<1>6. BytesPushed(inbound) <= BytesPushed(s.input)
  BY <1>2, <1>3, <1>4, <1>5
<1>7. inbound.eof => s.input.eof
  <2>1. inbound.eof => s.fin_sent
    BY <1>2 DEF Flow, Coupled
  <2>2. s.fin_sent => s.input.eof
    BY <1>1 DEF Serving, SenderInv, Written, IsFinished
  <2> QED
    BY <2>1, <2>2
<1>8. ~s.input.error
  BY <1>1 DEF Serving
<1> QED
  BY <1>2, <1>6, <1>7, <1>8 DEF Delivered

(* With all of the stream sent and nothing in flight, all has come out.     *)
LEMMA FlowComplete ==
    ASSUME NEW s, NEW r, NEW there, NEW back, NEW isn, NEW length \in Nat,
           Flow(s, r, there, back, isn, length),
           PushedAll(s), IsFinished(s.input), ~(SequenceNumbersInFlight(s) > 0)
    PROVE  r.reassembler.output.eof
<1>1. PICK a : Serving(s, a, isn, length) /\ a <= InOrder(r)
  BY DEF Flow
<1>2. s.outstanding = <<>> /\ a = NextAbs(s)
  <2>1. PICK f \in Nat : f = SequenceNumbersInFlight(s)
    BY <1>1, InFlightType DEF Serving
  <2>2. f = 0
    BY <2>1
  <2> QED
    BY <1>1, <2>1, <2>2, InFlightType DEF Serving
<1>3. s.fin_sent
  BY <1>2 DEF PushedAll
<1>4. PICK i \in Nat : i = s.input.popped /\ NextAbs(s) = i + 2
  <2>1. PICK n \in Nat, i \in Nat, l \in Nat :
            /\ n = NextAbs(s) /\ i = s.input.popped
            /\ s.sender_syn /\ s.fin_sent => n = i + 2
            /\ s.fin_sent => s.sender_syn
    <3>1. PICK n \in Nat, i \in Nat, l \in Nat : SenderCounts(s, n, i, l, length)
      BY <1>1, ServingFacts
    <3> QED
      BY <3>1 DEF SenderCounts
  <2> QED
    BY <1>3, <2>1
<1>5. PICK k \in Nat, x \in 0 .. 1, y \in 0 .. 1 :
          /\ x = Flag(r.isn_set) /\ y = Flag(r.reassembler.output.eof)
          /\ k = NextByteIndex(r.reassembler)
          /\ (y = 1 <=> r.reassembler.output.eof)
          /\ InOrder(r) = x + k + y
  <2>1. PICK k \in Nat, x \in 0 .. 1, y \in 0 .. 1 : ReceiverCounts(r, k, x, y, length)
    BY HearingFacts DEF Flow
  <2> QED
    BY <2>1 DEF ReceiverCounts
<1>6. k <= i
  BY <1>4, <1>5, ReceivedSent
<1>7. i + 2 <= x + k + y
  BY <1>1, <1>2, <1>4, <1>5
<1>8. y = 1
  BY <1>6, <1>7
<1> QED
  BY <1>5, <1>8
=============================================================================
