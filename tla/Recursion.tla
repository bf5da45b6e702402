------------------------------ MODULE Recursion ------------------------------
(***************************************************************************)
(* What the proofs about lists, threads of comments and sums need of       *)
(* functions that are defined recursively: that the definition has a       *)
(* solution. Induction is by a least counterexample throughout.            *)
(***************************************************************************)
EXTENDS FiniteSets, FiniteSetTheorems, TLAPS

\* A set of numbers that is not empty has a least one.
LEMMA LeastNumber ==
  ASSUME NEW S, S \subseteq Nat, S # {}
  PROVE  \E n \in S : \A m \in S : n <= m
<1>1. IsWellFoundedOn(OpToRel(<, Nat), Nat)
  BY NatLessThanWellFounded
<1>2. PICK n \in S : \A m \in S : ~(<<m, n>> \in OpToRel(<, Nat))
  BY <1>1, WFMin
<1>3. \A m \in S : ~(m < n)
  BY <1>2 DEF OpToRel
<1> QED
  BY <1>3

\* What may fail for some number but fails for 0 never, nor for a number when not for
\* the one before, does not fail.
LEMMA NoCounterexample ==
  ASSUME NEW Fails, 0 \notin Fails,
         \A n \in Nat : n + 1 \in Fails => n \in Fails
  PROVE  \A n \in Nat : n \notin Fails
<1> SUFFICES ASSUME NEW k \in Nat, k \in Fails
             PROVE  FALSE
  OBVIOUS
<1>1. PICK n \in Fails \cap Nat : \A m \in Fails \cap Nat : n <= m
  BY LeastNumber
<1>2. n - 1 \in Nat /\ (n - 1) + 1 = n
  BY <1>1
<1> QED
  BY <1>1, <1>2

\* Of finitely many numbers one is the greatest.
LEMMA GreatestNumber ==
  ASSUME NEW k \in Nat, NEW f \in [1 .. k -> Nat], NEW S, S \subseteq 1 .. k, S # {}
  PROVE  \E i \in S : \A j \in S : f[j] <= f[i]
<1> DEFINE HasGreatest(T) == T = {} \/ \E i \in T : \A j \in T : f[j] <= f[i]
           Fails == {n \in Nat : \E T \in SUBSET (1 .. k) : T \subseteq 1 .. n /\ ~HasGreatest(T)}
<1>1. 0 \notin Fails
  <2>1. \A T \in SUBSET (1 .. 0) : T = {}
    OBVIOUS
  <2> QED
    BY <2>1
<1>2. ASSUME NEW n \in Nat, n \notin Fails
      PROVE  n + 1 \notin Fails
  <2> SUFFICES ASSUME NEW T \in SUBSET (1 .. k), T \subseteq 1 .. n + 1
               PROVE  HasGreatest(T)
    OBVIOUS
  <2> DEFINE U == T \ {n + 1}
  <2>1. U \in SUBSET (1 .. k) /\ U \subseteq 1 .. n
    OBVIOUS
  <2>2. HasGreatest(U)
    BY <1>2, <2>1
  <2>3. CASE n + 1 \notin T
    <3>1. U = T
      BY <2>3
    <3> QED
      BY <2>2, <3>1
  <2>4. CASE n + 1 \in T /\ U = {}
    <3>1. T = {n + 1}
      BY <2>4
    <3>2. f[n + 1] \in Nat
      BY <2>4
    <3> QED
      BY <3>1, <3>2
  <2>5. CASE n + 1 \in T /\ U # {}
    <3>1. PICK i \in U : \A j \in U : f[j] <= f[i]
      BY <2>2, <2>5
    <3>2. f[n + 1] \in Nat /\ \A j \in T : f[j] \in Nat /\ (j \in U \/ j = n + 1)
      BY <2>5
    <3>3. CASE f[n + 1] <= f[i]
      BY <3>1, <3>2, <3>3
    <3>4. CASE ~(f[n + 1] <= f[i])
      <4>1. \A j \in T : f[j] <= f[n + 1]
        BY <3>1, <3>2, <3>4
      <4> QED
        BY <2>5, <4>1
    <3> QED
      BY <3>3, <3>4
  <2> QED
    BY <2>3, <2>4, <2>5
<1>3. k \notin Fails
  <2> HIDE DEF Fails
  <2>1. \A n \in Nat : n + 1 \in Fails => n \in Fails
    BY <1>2
  <2> QED
    BY <1>1, <2>1, NoCounterexample
<1> QED
  BY <1>3

(***************************************************************************)
(* A definition g[x] == step of x and g has a solution if the values used  *)
(* for x are those of elements of lower rank.                              *)
(***************************************************************************)
Descends(D, B, rank, step) ==
  /\ rank \in [D -> Nat]
  /\ step \in [D \X [D -> B] -> B]
  /\ \A x \in D : \A g, h \in [D -> B] :
       (\A y \in D : rank[y] < rank[x] => g[y] = h[y]) => step[<<x, g>>] = step[<<x, h>>]

Solution(D, B, step, g) ==
  /\ g \in [D -> B]
  /\ \A x \in D : g[x] = step[<<x, g>>]

LEMMA RecursiveFunction ==
  ASSUME NEW D, NEW B, NEW b \in B, NEW rank, NEW step, Descends(D, B, rank, step),
         NEW N \in Nat, \A x \in D : rank[x] <= N
  PROVE  \E g : Solution(D, B, step, g)
<1> USE DEF Descends
<1> DEFINE Solves(g, n) == \A x \in D : rank[x] < n => g[x] = step[<<x, g>>]
           Fails == {n \in Nat : \A g \in [D -> B] : ~Solves(g, n)}
<1>1. 0 \notin Fails
  <2> DEFINE g == [x \in D |-> b]
  <2>1. g \in [D -> B]
    OBVIOUS
  <2>2. \A x \in D : ~(rank[x] < 0)
    OBVIOUS
  <2> HIDE DEF g
  <2>3. Solves(g, 0)
    BY <2>2
  <2> QED
    BY <2>1, <2>3
<1>2. ASSUME NEW n \in Nat, n \notin Fails
      PROVE  n + 1 \notin Fails
  <2>1. PICK g \in [D -> B] : Solves(g, n)
    BY <1>2
  <2> DEFINE h == [x \in D |-> step[<<x, g>>]]
  <2>2. h \in [D -> B]
    OBVIOUS
  <2>3. ASSUME NEW x \in D, rank[x] < n + 1
        PROVE  h[x] = step[<<x, h>>]
    <3>1. \A y \in D : rank[y] < rank[x] => rank[y] < n
      BY <2>3
    <3>2. \A y \in D : rank[y] < rank[x] => g[y] = h[y]
      BY <2>1, <3>1
    <3> QED
      BY <2>2, <3>2
  <2> QED
    BY <2>2, <2>3
<1>3. N + 1 \notin Fails
  <2> HIDE DEF Fails
  <2>1. \A n \in Nat : n + 1 \in Fails => n \in Fails
    BY <1>2
  <2> QED
    BY <1>1, <2>1, NoCounterexample
<1>4. PICK g \in [D -> B] : Solves(g, N + 1)
  <2>1. N + 1 \in Nat
    OBVIOUS
  <2> HIDE DEF Solves
  <2> QED
    BY <1>3, <2>1
<1>5. \A x \in D : g[x] = step[<<x, g>>]
  BY <1>4
<1> QED
  BY <1>4, <1>5 DEF Solution

-----------------------------------------------------------------------------
(***************************************************************************)
(* Sums of finitely many numbers, as MapThenSumSet adds them up: one after *)
(* another, in the order CHOOSE happens to take them.                      *)
(***************************************************************************)
Some(s) == CHOOSE x \in s : TRUE

\* iter[s] is the sum of f over s, for every subset s of S
Totals(S, f, iter) ==
  /\ iter \in [SUBSET S -> Nat]
  /\ \A s \in SUBSET S : iter[s] = IF s = {} THEN 0 ELSE f[Some(s)] + iter[s \ {Some(s)}]

Total(S, f, n) == \E iter : Totals(S, f, iter) /\ n = iter[S]

LEMMA SomeIsElement ==
  ASSUME NEW s, s # {}
  PROVE  Some(s) \in s
  BY DEF Some

LEMMA OneLess ==
  ASSUME NEW t, IsFiniteSet(t), NEW z \in t, NEW n \in Nat, Cardinality(t) = n + 1
  PROVE  Cardinality(t \ {z}) = n
<1>1. Cardinality(t \ {z}) = Cardinality(t) - 1
  BY FS_RemoveElement
<1>2. (n + 1) - 1 = n
  OBVIOUS
<1> QED
  BY <1>1, <1>2

\* the functions a sum is defined by exist
LEMMA TotalsExist ==
  ASSUME NEW S, IsFiniteSet(S), NEW f \in [S -> Nat]
  PROVE  \E iter : Totals(S, f, iter)
<1> DEFINE D == SUBSET S
           rank == [s \in D |-> Cardinality(s)]
           step == [y \in D \X [D -> Nat] |->
                     IF y[1] = {} THEN 0 ELSE f[Some(y[1])] + y[2][y[1] \ {Some(y[1])}]]
<1>1. \A s \in D : IsFiniteSet(s) /\ Cardinality(s) \in Nat /\ Cardinality(s) <= Cardinality(S)
  BY FS_Subset, FS_CardinalityType
<1>2. rank \in [D -> Nat] /\ \A s \in D : rank[s] <= Cardinality(S)
  BY <1>1
<1>3. ASSUME NEW s \in D, s # {}
      PROVE  /\ Some(s) \in S /\ s \ {Some(s)} \in D
             /\ Cardinality(s \ {Some(s)}) < Cardinality(s)
  <2>1. Some(s) \in s
    BY <1>3, SomeIsElement
  <2>2. Cardinality(s \ {Some(s)}) = Cardinality(s) - 1
    BY <1>1, <2>1, FS_RemoveElement
  <2> QED
    BY <1>1, <2>1, <2>2
<1>4. step \in [D \X [D -> Nat] -> Nat]
  <2>1. ASSUME NEW s \in D, NEW g \in [D -> Nat]
        PROVE  (IF s = {} THEN 0 ELSE f[Some(s)] + g[s \ {Some(s)}]) \in Nat
    <3>1. CASE s = {}
      BY <3>1
    <3>2. CASE s # {}
      <4>1. f[Some(s)] \in Nat /\ g[s \ {Some(s)}] \in Nat
        BY <1>3, <3>2
      <4> QED
        BY <3>2, <4>1
    <3> QED
      BY <3>1, <3>2
  <2> QED
    BY <2>1
<1>5. ASSUME NEW s \in D, NEW g \in [D -> Nat], NEW h \in [D -> Nat],
             \A t \in D : rank[t] < rank[s] => g[t] = h[t]
      PROVE  step[<<s, g>>] = step[<<s, h>>]
  <2>1. CASE s = {}
    BY <2>1
  <2>2. CASE s # {}
    <3>1. g[s \ {Some(s)}] = h[s \ {Some(s)}]
      BY <1>3, <1>5, <2>2
    <3> QED
      BY <2>2, <3>1
  <2> QED
    BY <2>1, <2>2
<1>6. Cardinality(S) \in Nat /\ 0 \in Nat
  BY FS_CardinalityType
<1>7. Descends(D, Nat, rank, step)
  <2> HIDE DEF D, rank, step
  <2> QED
    BY <1>2, <1>4, <1>5 DEF Descends
<1>8. PICK g : Solution(D, Nat, step, g)
  <2> HIDE DEF D, rank, step
  <2> QED
    BY <1>2, <1>6, <1>7, RecursiveFunction
<1>9. Totals(S, f, g)
  BY <1>8 DEF Solution, Totals
<1> QED
  BY <1>9

\* The order does not matter: any element may be the first.
LEMMA TotalsSplit ==
  ASSUME NEW S, IsFiniteSet(S), NEW f \in [S -> Nat], NEW iter, Totals(S, f, iter),
         NEW s \in SUBSET S, NEW x \in s
  PROVE  iter[s] = f[x] + iter[s \ {x}]
<1> DEFINE Splits(t, y) == iter[t] = f[y] + iter[t \ {y}]
           Fails == {n \in Nat : \E t \in SUBSET S : \E y \in t : Cardinality(t) = n /\ ~Splits(t, y)}
<1>1. \A t \in SUBSET S : IsFiniteSet(t) /\ Cardinality(t) \in Nat
  BY FS_Subset, FS_CardinalityType
<1>2. 0 \notin Fails
  <2>1. \A t \in SUBSET S : Cardinality(t) = 0 => t = {}
    BY <1>1, FS_EmptySet
  <2> QED
    BY <2>1
<1>3. ASSUME NEW n \in Nat, n \notin Fails
      PROVE  n + 1 \notin Fails
  <2> SUFFICES ASSUME NEW t \in SUBSET S, NEW y \in t, Cardinality(t) = n + 1
               PROVE  Splits(t, y)
    OBVIOUS
  <2> DEFINE z == Some(t)
  <2>1. z \in t /\ iter[t] = f[z] + iter[t \ {z}]
    BY SomeIsElement DEF Totals
  <2>2. CASE z = y
    BY <2>1, <2>2
  <2>3. CASE z # y
    <3>1. /\ t \ {z} \in SUBSET S /\ y \in t \ {z} /\ Cardinality(t \ {z}) = n
          /\ t \ {y} \in SUBSET S /\ z \in t \ {y} /\ Cardinality(t \ {y}) = n
      <4> HIDE DEF z
      <4>1. IsFiniteSet(t)
        BY <1>1
      <4>2. Cardinality(t \ {z}) = n /\ Cardinality(t \ {y}) = n
        BY <2>1, <4>1, OneLess
      <4> QED
        BY <2>1, <2>3, <4>2
    <3>2. Splits(t \ {z}, y) /\ Splits(t \ {y}, z)
      BY <1>3, <3>1
    <3>3. (t \ {z}) \ {y} = (t \ {y}) \ {z} /\ (t \ {z}) \ {y} \in SUBSET S
      OBVIOUS
    <3>4. f[y] \in Nat /\ f[z] \in Nat /\ iter[(t \ {z}) \ {y}] \in Nat
      BY <2>1, <3>3 DEF Totals
    <3> HIDE DEF z
    <3> QED
      BY <2>1, <3>2, <3>3, <3>4
  <2> QED
    BY <2>2, <2>3
<1>4. \A n \in Nat : n \notin Fails
  <2> HIDE DEF Fails
  <2> QED
    BY <1>2, <1>3, NoCounterexample
<1> QED
  BY <1>1, <1>4

\* Two sums over the same numbers are equal.
LEMMA TotalsAgree ==
  ASSUME NEW S, IsFiniteSet(S), NEW f \in [S -> Nat], NEW iter, Totals(S, f, iter),
         NEW T, IsFiniteSet(T), NEW g \in [T -> Nat], NEW jter, Totals(T, g, jter),
         NEW U \in SUBSET (S \cap T), \A x \in U : f[x] = g[x]
  PROVE  iter[U] = jter[U]
<1> DEFINE Fails == {n \in Nat : \E t \in SUBSET U : Cardinality(t) = n /\ iter[t] # jter[t]}
<1>1. \A t \in SUBSET U : IsFiniteSet(t) /\ Cardinality(t) \in Nat
  BY FS_Subset, FS_CardinalityType
<1>2. 0 \notin Fails
  <2>1. \A t \in SUBSET U : Cardinality(t) = 0 => t = {}
    BY <1>1, FS_EmptySet
  <2>2. iter[{}] = 0 /\ jter[{}] = 0
    BY DEF Totals
  <2> QED
    BY <2>1, <2>2
<1>3. ASSUME NEW n \in Nat, n \notin Fails
      PROVE  n + 1 \notin Fails
  <2> SUFFICES ASSUME NEW t \in SUBSET U, Cardinality(t) = n + 1
               PROVE  iter[t] = jter[t]
    OBVIOUS
  <2> DEFINE z == Some(t)
  <2>1. t # {}
    BY FS_EmptySet
  <2>2. z \in t
    BY <2>1, SomeIsElement
  <2>3. t \ {z} \in SUBSET U /\ Cardinality(t \ {z}) = n
    <3> HIDE DEF z
    <3>1. IsFiniteSet(t)
      BY <1>1
    <3>2. Cardinality(t \ {z}) = n
      BY <2>2, <3>1, OneLess
    <3> QED
      BY <3>2
  <2>4. iter[t \ {z}] = jter[t \ {z}]
    BY <1>3, <2>3
  <2>5. iter[t] = f[z] + iter[t \ {z}] /\ jter[t] = g[z] + jter[t \ {z}]
    BY <2>1 DEF Totals
  <2> QED
    BY <2>2, <2>4, <2>5
<1>4. \A n \in Nat : n \notin Fails
  <2> HIDE DEF Fails
  <2> QED
    BY <1>2, <1>3, NoCounterexample
<1> QED
  BY <1>1, <1>4

LEMMA TotalIsOne ==
  ASSUME NEW S, IsFiniteSet(S), NEW f \in [S -> Nat], NEW m, NEW n, Total(S, f, m), Total(S, f, n)
  PROVE  m = n
  BY TotalsAgree DEF Total

LEMMA TotalOfNone ==
  ASSUME NEW f
  PROVE  Total({}, f, 0)
<1> DEFINE iter == [s \in SUBSET {} |-> 0]
<1>1. Totals({}, f, iter) /\ iter[{}] = 0
  BY DEF Totals
<1> QED
  BY <1>1 DEF Total

\* one number more; f may have changed elsewhere
LEMMA TotalWithOneMore ==
  ASSUME NEW S, IsFiniteSet(S), NEW f \in [S -> Nat], NEW n, Total(S, f, n), NEW x, x \notin S,
         NEW g \in [S \cup {x} -> Nat], \A y \in S : g[y] = f[y]
  PROVE  Total(S \cup {x}, g, g[x] + n)
<1> DEFINE T == S \cup {x}
<1>1. IsFiniteSet(T)
  BY FS_AddElement
<1>2. PICK jter : Totals(T, g, jter)
  BY <1>1, TotalsExist
<1>3. PICK iter : Totals(S, f, iter) /\ n = iter[S]
  BY DEF Total
<1>4. jter[T] = g[x] + jter[T \ {x}]
  <2>1. T \in SUBSET T /\ x \in T
    OBVIOUS
  <2> QED
    BY <1>1, <1>2, <2>1, TotalsSplit
<1>5. T \ {x} = S /\ S \in SUBSET (S \cap T)
  OBVIOUS
<1>6. iter[S] = jter[S]
  BY <1>1, <1>2, <1>3, <1>5, TotalsAgree
<1> QED
  BY <1>2, <1>3, <1>4, <1>5, <1>6 DEF Total

\* the function that MapThenFoldSet defines
LEMMA DefinedTotals ==
  ASSUME NEW S, IsFiniteSet(S), NEW f \in [S -> Nat], NEW iter,
         iter = [s \in SUBSET S |-> IF s = {} THEN 0 ELSE f[Some(s)] + iter[s \ {Some(s)}]]
  PROVE  Totals(S, f, iter)
<1>1. PICK jter : Totals(S, f, jter)
  BY TotalsExist
<1>2. \A s \in SUBSET S : /\ iter[s] = IF s = {} THEN 0 ELSE f[Some(s)] + iter[s \ {Some(s)}]
                          /\ jter[s] = IF s = {} THEN 0 ELSE f[Some(s)] + jter[s \ {Some(s)}]
                          /\ jter[s] \in Nat
  BY <1>1 DEF Totals
<1> DEFINE Fails == {n \in Nat : \E s \in SUBSET S : Cardinality(s) = n /\ iter[s] # jter[s]}
<1>3. \A s \in SUBSET S : IsFiniteSet(s) /\ Cardinality(s) \in Nat
  BY FS_Subset, FS_CardinalityType
<1>4. 0 \notin Fails
  <2>1. \A s \in SUBSET S : Cardinality(s) = 0 => s = {}
    BY <1>3, FS_EmptySet
  <2>2. iter[{}] = 0 /\ jter[{}] = 0
    BY <1>2
  <2> QED
    BY <2>1, <2>2
<1>5. ASSUME NEW n \in Nat, n \notin Fails
      PROVE  n + 1 \notin Fails
  <2> SUFFICES ASSUME NEW s \in SUBSET S, Cardinality(s) = n + 1
               PROVE  iter[s] = jter[s]
    OBVIOUS
  <2>1. s # {}
    <3>1. Cardinality({}) = 0
      BY FS_EmptySet
    <3>2. n + 1 # 0
      OBVIOUS
    <3> QED
      BY <3>1, <3>2
  <2>2. PICK z : z = Some(s)
    OBVIOUS
  <2>3. z \in s
    BY <2>1, <2>2, SomeIsElement
  <2>4. s \ {z} \in SUBSET S /\ Cardinality(s \ {z}) = n
    BY <1>3, <2>3, OneLess
  <2>5. iter[s \ {z}] = jter[s \ {z}]
    BY <1>5, <2>4
  <2> QED
    BY <1>2, <2>1, <2>2, <2>5
<1>6. \A n \in Nat : n \notin Fails
  <2> HIDE DEF Fails
  <2> QED
    BY <1>4, <1>5, NoCounterexample
<1>7. \A s \in SUBSET S : iter[s] = jter[s]
  BY <1>3, <1>6
<1>8. iter \in [SUBSET S -> Nat]
  <2>1. \A s \in SUBSET S : iter[s] \in Nat
    BY <1>2, <1>7
  <2>2. DOMAIN iter = SUBSET S /\ iter = [s \in DOMAIN iter |-> iter[s]]
    OBVIOUS
  <2> QED
    BY <2>1, <2>2
<1> QED
  BY <1>2, <1>8 DEF Totals
=============================================================================
