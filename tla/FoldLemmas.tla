----------------------------- MODULE FoldLemmas -----------------------------
(***************************************************************************)
(* What the folds of the models compute, for sequences of any length.      *)
(*                                                                         *)
(* The induction theorems of the library take operators, which no prover   *)
(* here can instantiate.  Induction is therefore stated with a set, and    *)
(* the step of a fold with a function: `Iterate(G, s, n)` applies G[1] to  *)
(* G[n], functions on a set X, to s.  A module that folds an operator of   *)
(* its own shows by FoldIsIterate that the result is such an iteration.    *)
(***************************************************************************)
EXTENDS Ordered, SequencesExt, FiniteSetTheorems, WellFoundedInduction, TLAPS

(* Induction: a set that has 0 and the successor of each of its numbers has *)
(* every natural number.                                                    *)
LEMMA SetInduction ==
    ASSUME NEW S, 0 \in S, \A n \in Nat : n \in S => n + 1 \in S
    PROVE  \A n \in Nat : n \in S
<1> DEFINE R == OpToRel(<, Nat)
           T == Nat \ S
<1>1. \A x, y \in Nat : y < x => <<y, x>> \in R
  BY DEF OpToRel
<1>2. IsWellFoundedOn(R, Nat) /\ T \subseteq Nat
  BY NatLessThanWellFounded
<1>3. SUFFICES ASSUME T # {} PROVE FALSE
  OBVIOUS
<1>4. PICK x \in T : \A y \in T : <<y, x>> \notin R
  <2> HIDE DEF T, R
  <2> QED
    BY <1>2, <1>3, WFMin
<1>5. x - 1 \in Nat /\ x - 1 < x /\ (x - 1) + 1 = x
  <2>1. x # 0 /\ x \in Nat
    OBVIOUS
  <2> QED
    BY <2>1
<1>6. x - 1 \in T
  BY <1>5
<1> QED
  BY <1>1, <1>4, <1>5, <1>6

(* Induction up to a bound.                                                 *)
LEMMA BoundedInduction ==
    ASSUME NEW N \in Nat, NEW S, 0 \in S,
           \A n \in 0..N : n < N /\ n \in S => n + 1 \in S
    PROVE  \A n \in 0..N : n \in S
<1> DEFINE T == {n \in Nat : n <= N => n \in S}
<1>1. 0 \in T
  OBVIOUS
<1>2. \A n \in Nat : n \in T => n + 1 \in T
  OBVIOUS
<1>3. \A n \in Nat : n \in T
  <2> HIDE DEF T
  <2> QED
    BY <1>1, <1>2, SetInduction
<1> QED
  BY <1>3

-----------------------------------------------------------------------------

(* Steps on the states X.                                                   *)
Steps(G, X, n) == \A k \in 1..n : G[k] \in [X -> X]

(* G[n] after ... after G[1] applied to s.                                  *)
IsRun(f, G, s, n) == f = [k \in 0..n |-> IF k = 0 THEN s ELSE G[k][f[k - 1]]]
Run(G, s, n) == CHOOSE f : IsRun(f, G, s, n)
Iterate(G, s, n) == Run(G, s, n)[n]

(* There is such a function, with values in X.                              *)
LEMMA RunExists ==
    ASSUME NEW N \in Nat, NEW X, NEW s \in X, NEW G,
           Steps(G, X, N)
    PROVE  \E f \in [0..N -> X] : IsRun(f, G, s, N)
<1> DEFINE S == {n \in 0..N : \E f \in [0..n -> X] : IsRun(f, G, s, n)}
<1>1. 0 \in S
  <2>1. [k \in 0..0 |-> s] \in [0..0 -> X] /\ IsRun([k \in 0..0 |-> s], G, s, 0)
    BY DEF IsRun
  <2>2. \E f \in [0..0 -> X] : IsRun(f, G, s, 0)
    BY <2>1
  <2> QED
    BY <2>2
<1>2. ASSUME NEW n \in 0..N, n < N, n \in S
      PROVE  n + 1 \in S
  <2>1. PICK f \in [0..n -> X] : IsRun(f, G, s, n)
    BY <1>2
  <2> DEFINE g == [k \in 0..(n + 1) |-> IF k = n + 1 THEN G[n + 1][f[n]] ELSE f[k]]
  <2>2. g \in [0..(n + 1) -> X]
    <3>1. G[n + 1] \in [X -> X] /\ f[n] \in X
      BY <1>2 DEF Steps
    <3>2. G[n + 1][f[n]] \in X
      BY <3>1
    <3> QED
      BY <3>2
  <2>3. \A k \in 0..(n + 1) : g[k] = IF k = 0 THEN s ELSE G[k][g[k - 1]]
    <3> SUFFICES ASSUME NEW k \in 0..(n + 1)
                 PROVE  g[k] = IF k = 0 THEN s ELSE G[k][g[k - 1]]
      OBVIOUS
    <3>1. CASE k = n + 1
      BY <3>1
    <3>2. CASE k # n + 1
      <4>1. k \in 0..n /\ g[k] = f[k]
        BY <3>2
      <4>2. f[k] = IF k = 0 THEN s ELSE G[k][f[k - 1]]
        BY <4>1, <2>1 DEF IsRun
      <4>3. k # 0 => g[k - 1] = f[k - 1]
        BY <4>1
      <4> QED
        BY <4>1, <4>2, <4>3
    <3> QED
      BY <3>1, <3>2
  <2>4. IsRun(g, G, s, n + 1)
    BY <2>3 DEF IsRun
  <2>5. \E h \in [0..(n + 1) -> X] : IsRun(h, G, s, n + 1)
    <3> HIDE DEF g
    <3> QED
      BY <2>2, <2>4
  <2> QED
    BY <2>5, <1>2
<1>3. \A n \in 0..N : n \in S
  <2> HIDE DEF S
  <2> QED
    BY <1>1, <1>2, BoundedInduction
<1> QED
  BY <1>3

(* Run satisfies its equation.                                              *)
LEMMA RunDef ==
    ASSUME NEW N \in Nat, NEW X, NEW s \in X, NEW G,
           Steps(G, X, N)
    PROVE  Run(G, s, N) = [k \in 0..N |-> IF k = 0 THEN s ELSE G[k][Run(G, s, N)[k - 1]]]
<1>1. \E f \in [0..N -> X] : IsRun(f, G, s, N)
  BY RunExists
<1>2. IsRun(Run(G, s, N), G, s, N)
  BY <1>1 DEF Run
<1> QED
  BY <1>2 DEF IsRun

(* What satisfies the equation is the iteration at every index.             *)
LEMMA RunIsIterate ==
    ASSUME NEW N \in Nat, NEW X, NEW s \in X, NEW G,
           Steps(G, X, N)
    PROVE  \A M \in 0..N : \A k \in 0..M :
              Run(G, s, M)[k] \in X /\ Run(G, s, M)[k] = Run(G, s, N)[k]
<1> SUFFICES ASSUME NEW M \in 0..N
             PROVE  \A k \in 0..M : Run(G, s, M)[k] \in X /\ Run(G, s, M)[k] = Run(G, s, N)[k]
  OBVIOUS
<1> DEFINE f == Run(G, s, M)
           g == Run(G, s, N)
           S == {k \in 0..M : f[k] \in X /\ f[k] = g[k]}
<1>1. f = [k \in 0..M |-> IF k = 0 THEN s ELSE G[k][f[k - 1]]]
  <2>1. Steps(G, X, M)
    BY DEF Steps
  <2> QED
    BY <2>1, RunDef
<1>2. g = [k \in 0..N |-> IF k = 0 THEN s ELSE G[k][g[k - 1]]]
  BY RunDef
<1> HIDE DEF f, g
<1>3. 0 \in S
  BY <1>1, <1>2
<1>4. ASSUME NEW k \in 0..M, k < M, k \in S
      PROVE  k + 1 \in S
  <2>1. f[k + 1] = G[k + 1][f[k]] /\ g[k + 1] = G[k + 1][g[k]]
    BY <1>1, <1>2, <1>4
  <2>2. G[k + 1] \in [X -> X] /\ f[k] \in X /\ f[k] = g[k]
    BY <1>4 DEF Steps
  <2>3. G[k + 1][f[k]] \in X
    BY <2>2
  <2> QED
    BY <2>1, <2>2, <2>3, <1>4
<1>5. \A k \in 0..M : k \in S
  <2> HIDE DEF S
  <2> QED
    BY <1>3, <1>4, BoundedInduction
<1> QED
  BY <1>5 DEF f, g

(* How an iteration begins and goes on, and that it stays in X.             *)
Iterates(G, X, s, N) ==
    /\ Iterate(G, s, 0) = s
    /\ \A n \in 0..N : Iterate(G, s, n) \in X
    /\ \A n \in 1..N : Iterate(G, s, n) = G[n][Iterate(G, s, n - 1)]

LEMMA IterateSteps ==
    ASSUME NEW N \in Nat, NEW X, NEW s \in X, NEW G,
           Steps(G, X, N)
    PROVE  Iterates(G, X, s, N)
<1>1. \A n \in 0..N : Run(G, s, n)[n] \in X /\ Run(G, s, n)[n] = Run(G, s, N)[n]
  BY RunIsIterate
<1>2. Run(G, s, N) = [k \in 0..N |-> IF k = 0 THEN s ELSE G[k][Run(G, s, N)[k - 1]]]
  BY RunDef
<1>3. \A n \in 0..N : Iterate(G, s, n) \in X /\ Iterate(G, s, n) = Run(G, s, N)[n]
  BY <1>1 DEF Iterate
<1>4. Iterate(G, s, 0) = s
  BY <1>2, <1>3
<1>5. ASSUME NEW n \in 1..N
      PROVE  Iterate(G, s, n) = G[n][Iterate(G, s, n - 1)]
  <2>1. n \in 0..N /\ n - 1 \in 0..N /\ n # 0
    OBVIOUS
  <2>2. Run(G, s, N)[n] = G[n][Run(G, s, N)[n - 1]]
    BY <1>2, <2>1
  <2> QED
    BY <2>1, <2>2, <1>3
<1> QED
  BY <1>3, <1>4, <1>5 DEF Iterates

-----------------------------------------------------------------------------
(* FoldLeft goes through the sets of indices 1..n.                          *)

(* The greatest number of an interval, and of a set of numbers below N.     *)
LEMMA MaxOfInterval ==
    ASSUME NEW n \in Nat, n # 0
    PROVE  Max(1..n) = n /\ (1..n) \ {n} = 1..(n - 1)
<1>1. n \in 1..n /\ \A y \in 1..n : n >= y
  OBVIOUS
<1>2. Max(1..n) \in 1..n /\ \A y \in 1..n : Max(1..n) >= y
  BY <1>1 DEF Max
<1> QED
  BY <1>1, <1>2

(* A set of numbers up to N has a greatest one.                             *)
LEMMA MaxExists ==
    ASSUME NEW N \in Nat, NEW S \in SUBSET (1..N), S # {}
    PROVE  Max(S) \in S /\ \A y \in S : Max(S) >= y
<1> DEFINE T == {n \in 0..N : \A U \in SUBSET (1..n) : U = {} \/ \E x \in U : \A y \in U : x >= y}
<1>1. 0 \in T
  OBVIOUS
<1>2. ASSUME NEW n \in 0..N, n < N, n \in T
      PROVE  n + 1 \in T
  <2> SUFFICES ASSUME NEW U \in SUBSET (1..(n + 1))
               PROVE  U = {} \/ \E x \in U : \A y \in U : x >= y
    BY <1>2
  <2>1. CASE n + 1 \in U
    BY <2>1
  <2>2. CASE n + 1 \notin U
    <3>1. U \in SUBSET (1..n)
      BY <2>2
    <3> QED
      BY <3>1, <1>2
  <2> QED
    BY <2>1, <2>2
<1>3. \A n \in 0..N : n \in T
  <2> HIDE DEF T
  <2> QED
    BY <1>1, <1>2, BoundedInduction
<1>4. N \in T
  <2> HIDE DEF T
  <2> QED
    BY <1>3
<1>5. \E x \in S : \A y \in S : x >= y
  BY <1>4
<1> QED
  BY <1>5 DEF Max

(* What FoldLeft recurses on: the set of indices not yet folded.            *)
IsFold(f, G, s, n) ==
    \A S \in SUBSET (1..n) : f[S] = IF S = {} THEN s ELSE G[Max(S)][f[S \ {Max(S)}]]

(* The recursion of FoldLeft has a solution.                                *)
LEMMA FoldExists ==
    ASSUME NEW N \in Nat, NEW X, NEW s \in X, NEW G,
           Steps(G, X, N)
    PROVE  \E f \in [SUBSET (1..N) -> X] : IsFold(f, G, s, N)
<1> DEFINE T == {n \in 0..N : \E f \in [SUBSET (1..n) -> X] : IsFold(f, G, s, n)}
<1>1. 0 \in T
  <2> DEFINE f == [S \in SUBSET (1..0) |-> s]
  <2>1. \A S \in SUBSET (1..0) : S = {}
    OBVIOUS
  <2>2. f \in [SUBSET (1..0) -> X] /\ IsFold(f, G, s, 0)
    BY <2>1 DEF IsFold
  <2>3. \E h \in [SUBSET (1..0) -> X] : IsFold(h, G, s, 0)
    <3> HIDE DEF f
    <3> QED
      BY <2>2
  <2>4. 0 \in 0..N
    OBVIOUS
  <2> QED
    BY <2>3, <2>4, Zenon
<1>2. ASSUME NEW n \in 0..N, n < N, n \in T
      PROVE  n + 1 \in T
  <2>1. PICK f \in [SUBSET (1..n) -> X] : IsFold(f, G, s, n)
    BY <1>2
  <2> DEFINE m == n + 1
             g == [S \in SUBSET (1..m) |-> IF m \in S THEN G[m][f[S \ {m}]] ELSE f[S]]
  <2>2. \A S \in SUBSET (1..m) :
           /\ S \ {m} \in SUBSET (1..n)
           /\ m \notin S => S \in SUBSET (1..n)
    OBVIOUS
  <2>3. G[m] \in [X -> X]
    BY <1>2 DEF Steps
  <2>4. g \in [SUBSET (1..m) -> X]
    <3>1. \A S \in SUBSET (1..m) : f[S \ {m}] \in X
      BY <2>2
    <3>2. \A S \in SUBSET (1..m) : G[m][f[S \ {m}]] \in X
      BY <2>3, <3>1
    <3> QED
      BY <2>2, <3>2
  <2>5. ASSUME NEW S \in SUBSET (1..m)
        PROVE  g[S] = IF S = {} THEN s ELSE G[Max(S)][g[S \ {Max(S)}]]
    <3>1. CASE m \in S
      <4>1. \A y \in S : m >= y
        OBVIOUS
      <4>2. \A x, y \in S : x >= y /\ y >= x => x = y
        OBVIOUS
      <4>3. Max(S) = m
        <5>1. Max(S) \in S /\ \A y \in S : Max(S) >= y
          BY <4>1, <3>1 DEF Max
        <5> QED
          BY <4>1, <4>2, <5>1, <3>1
      <4>4. S \ {m} \in SUBSET (1..m) /\ m \notin S \ {m}
        OBVIOUS
      <4>5. g[S \ {m}] = f[S \ {m}]
        BY <4>4
      <4>6. g[S] = G[m][f[S \ {m}]]
        BY <3>1
      <4> QED
        BY <3>1, <4>3, <4>5, <4>6
    <3>2. CASE m \notin S
      <4>1. S \in SUBSET (1..n) /\ S \ {Max(S)} \in SUBSET (1..n)
        BY <3>2, <2>2
      <4>2. S \ {Max(S)} \in SUBSET (1..m) /\ m \notin S \ {Max(S)}
        BY <3>2
      <4>3. g[S] = f[S] /\ g[S \ {Max(S)}] = f[S \ {Max(S)}]
        BY <3>2, <4>2
      <4>4. f[S] = IF S = {} THEN s ELSE G[Max(S)][f[S \ {Max(S)}]]
        BY <4>1, <2>1 DEF IsFold
      <4> QED
        BY <4>3, <4>4
    <3> QED
      BY <3>1, <3>2
  <2>6. IsFold(g, G, s, m)
    BY <2>5 DEF IsFold
  <2>7. \E h \in [SUBSET (1..m) -> X] : IsFold(h, G, s, m)
    <3> HIDE DEF g
    <3> QED
      BY <2>4, <2>6
  <2> QED
    BY <2>7, <1>2
<1>3. \A n \in 0..N : n \in T
  <2> HIDE DEF T
  <2> QED
    BY <1>1, <1>2, BoundedInduction
<1>4. N \in T
  <2> HIDE DEF T
  <2> QED
    BY <1>3
<1> QED
  BY <1>4, Zenon

(* A recursion like FoldLeft's over the indices of a sequence iterates.     *)
LEMMA FoldIsIterate ==
    ASSUME NEW N \in Nat, NEW X, NEW s \in X, NEW G,
           Steps(G, X, N),
           NEW f, f[{}] = s,
           \A k \in 1..N : f[1..(k - 1)] \in X => f[1..k] = G[k][f[1..(k - 1)]]
    PROVE  f[1..N] = Iterate(G, s, N)
<1> DEFINE S == {n \in 0..N : f[1..n] = Iterate(G, s, n)}
<1>0. /\ Iterate(G, s, 0) = s
      /\ \A n \in 0..N : Iterate(G, s, n) \in X
      /\ \A n \in 1..N : Iterate(G, s, n) = G[n][Iterate(G, s, n - 1)]
  BY IterateSteps DEF Iterates
<1>1. 0 \in S
  <2>1. 1..0 = {}
    OBVIOUS
  <2> QED
    BY <2>1, <1>0
<1>2. ASSUME NEW n \in 0..N, n < N, n \in S
      PROVE  n + 1 \in S
  <2>1. f[1..n] \in X
    BY <1>2, <1>0
  <2>2. f[1..(n + 1)] = G[n + 1][f[1..n]]
    <3>1. n + 1 \in 1..N /\ (n + 1) - 1 = n
      BY <1>2
    <3> QED
      BY <2>1, <3>1
  <2>3. Iterate(G, s, n + 1) = G[n + 1][Iterate(G, s, n)]
    <3>1. n + 1 \in 1..N /\ (n + 1) - 1 = n
      BY <1>2
    <3> QED
      BY <3>1, <1>0
  <2> QED
    BY <2>2, <2>3, <1>2
<1>3. \A n \in 0..N : n \in S
  <2> HIDE DEF S
  <2> QED
    BY <1>1, <1>2, BoundedInduction
<1> QED
  BY <1>3

-----------------------------------------------------------------------------
(* The elements of a finite set in an order.                                *)

(* R puts one of any two elements of S before the other.                    *)
IsOrder(S, R) ==
    /\ \A a \in S : <<a, a>> \notin R
    /\ \A a, b \in S : a # b => <<a, b>> \in R \/ <<b, a>> \in R
    /\ \A a, b, c \in S : <<a, b>> \in R /\ <<b, c>> \in R => <<a, c>> \in R

(* Then some element comes before all others.                               *)
LEMMA FirstExists ==
    ASSUME NEW S, NEW R, IsOrder(S, R), NEW n \in Nat
    PROVE  \A U \in SUBSET S : IsFiniteSet(U) /\ Cardinality(U) = n + 1 =>
              \E m \in U : \A x \in U \ {m} : <<m, x>> \in R
<1> DEFINE T == {k \in Nat : \A U \in SUBSET S : IsFiniteSet(U) /\ Cardinality(U) = k + 1 =>
                              \E m \in U : \A x \in U \ {m} : <<m, x>> \in R}
<1>1. ASSUME NEW U \in SUBSET S, IsFiniteSet(U), NEW k \in Nat, Cardinality(U) = k + 1
      PROVE  \E u \in U : /\ IsFiniteSet(U \ {u}) /\ Cardinality(U \ {u}) = k
                           /\ U \ {u} \in SUBSET S
  <2>1. U # {}
    BY <1>1, FS_EmptySet
  <2>2. PICK u \in U : TRUE
    BY <2>1
  <2>3. IsFiniteSet(U \ {u}) /\ Cardinality(U \ {u}) = Cardinality(U) - 1
    BY <1>1, <2>2, FS_RemoveElement
  <2> QED
    BY <1>1, <2>2, <2>3
<1>2. 0 \in T
  <2> SUFFICES ASSUME NEW U \in SUBSET S, IsFiniteSet(U), Cardinality(U) = 0 + 1
               PROVE  \E m \in U : \A x \in U \ {m} : <<m, x>> \in R
    OBVIOUS
  <2>1. PICK u \in U : IsFiniteSet(U \ {u}) /\ Cardinality(U \ {u}) = 0
    BY <1>1
  <2>2. U \ {u} = {}
    BY <2>1, FS_EmptySet
  <2> QED
    BY <2>2
<1>3. ASSUME NEW k \in Nat, k \in T
      PROVE  k + 1 \in T
  <2> SUFFICES ASSUME NEW U \in SUBSET S, IsFiniteSet(U), Cardinality(U) = (k + 1) + 1
               PROVE  \E m \in U : \A x \in U \ {m} : <<m, x>> \in R
    OBVIOUS
  <2>1. PICK u \in U : /\ IsFiniteSet(U \ {u}) /\ Cardinality(U \ {u}) = k + 1
                       /\ U \ {u} \in SUBSET S
    BY <1>1
  <2>2. PICK m \in U \ {u} : \A x \in (U \ {u}) \ {m} : <<m, x>> \in R
    BY <2>1, <1>3
  <2>3. CASE <<m, u>> \in R
    BY <2>2, <2>3
  <2>4. CASE <<u, m>> \in R
    <3>1. \A x \in U \ {u} : <<u, x>> \in R
      BY <2>2, <2>4 DEF IsOrder
    <3> QED
      BY <3>1
  <2> QED
    BY <2>2, <2>3, <2>4 DEF IsOrder
<1>4. \A k \in Nat : k \in T
  <2> HIDE DEF T
  <2> QED
    BY <1>2, <1>3, SetInduction
<1> QED
  BY <1>4

(* So the elements can be put in order.                                     *)
LEMMA OrderedExists ==
    ASSUME NEW S, NEW R, IsOrder(S, R), NEW n \in Nat
    PROVE  \A U \in SUBSET S : IsFiniteSet(U) /\ Cardinality(U) = n =>
              \E f : IsOrdered(f, U, R)
<1> DEFINE T == {k \in Nat : \A U \in SUBSET S : IsFiniteSet(U) /\ Cardinality(U) = k =>
                              \E f : IsOrdered(f, U, R)}
<1>1. 0 \in T
  <2> SUFFICES ASSUME NEW U \in SUBSET S, IsFiniteSet(U), Cardinality(U) = 0
               PROVE  \E f : IsOrdered(f, U, R)
    OBVIOUS
  <2>1. IsOrdered([k \in 1..0 |-> 0], U, R)
    BY DEF IsOrdered
  <2> QED
    BY <2>1
<1>2. ASSUME NEW k \in Nat, k \in T
      PROVE  k + 1 \in T
  <2> SUFFICES ASSUME NEW U \in SUBSET S, IsFiniteSet(U), Cardinality(U) = k + 1
               PROVE  \E f : IsOrdered(f, U, R)
    OBVIOUS
  <2>1. PICK m \in U : \A x \in U \ {m} : <<m, x>> \in R
    BY FirstExists
  <2>2. IsFiniteSet(U \ {m}) /\ Cardinality(U \ {m}) = k /\ U \ {m} \in SUBSET S
    BY FS_RemoveElement
  <2>3. PICK f : IsOrdered(f, U \ {m}, R)
    BY <2>2, <1>2
  <2>4. /\ \A j \in 1..k : f[j] \in U \ {m}
        /\ \A i, j \in 1..k : i < j => <<f[i], f[j]>> \in R
    BY <2>2, <2>3 DEF IsOrdered
  <2> DEFINE g == [j \in 1..(k + 1) |-> IF j = 1 THEN m ELSE f[j - 1]]
  <2>5. \A j \in 1..(k + 1) : j # 1 => j - 1 \in 1..k
    OBVIOUS
  <2>6. g \in [1..(k + 1) -> U]
    BY <2>4, <2>5
  <2>7. ASSUME NEW i \in 1..(k + 1), NEW j \in 1..(k + 1), i < j
        PROVE  <<g[i], g[j]>> \in R
    <3>1. j # 1 /\ j - 1 \in 1..k
      BY <2>7
    <3>2. CASE i = 1
      BY <3>1, <3>2, <2>1, <2>4
    <3>3. CASE i # 1
      <4>1. i - 1 \in 1..k /\ i - 1 < j - 1
        BY <3>3, <2>7
      <4> QED
        BY <3>1, <3>3, <4>1, <2>4
    <3> QED
      BY <3>2, <3>3
  <2>8. IsOrdered(g, U, R)
    <3> HIDE DEF g
    <3> QED
      BY <2>6, <2>7 DEF IsOrdered
  <2> QED
    <3> HIDE DEF g
    <3> QED
      BY <2>8
<1>3. \A k \in Nat : k \in T
  <2> HIDE DEF T
  <2> QED
    BY <1>1, <1>2, SetInduction
<1> QED
  BY <1>3

(* Sorted has each element of the set once, in order.                      *)
LEMMA SortedIs ==
    ASSUME NEW S, IsFiniteSet(S), NEW R, IsOrder(S, R)
    PROVE  /\ Cardinality(S) \in Nat
           /\ Sorted(S, R) \in [1..Cardinality(S) -> S]
           /\ {Sorted(S, R)[k] : k \in 1..Cardinality(S)} = S
           /\ \A j, k \in 1..Cardinality(S) : j < k =>
                  <<Sorted(S, R)[j], Sorted(S, R)[k]>> \in R
           /\ \A j, k \in 1..Cardinality(S) : Sorted(S, R)[j] = Sorted(S, R)[k] => j = k
<1> DEFINE n == Cardinality(S)
           f == Sorted(S, R)
<1>1. n \in Nat
  BY FS_CardinalityType
<1>2. \E g : IsOrdered(g, S, R)
  BY <1>1, OrderedExists
<1>3. /\ f \in [1..n -> S]
      /\ \A j, k \in 1..n : j < k => <<f[j], f[k]>> \in R
  BY <1>2 DEF Sorted, IsOrdered
<1> HIDE DEF f, n
<1>4. \A j, k \in 1..n : f[j] = f[k] => j = k
  <2> SUFFICES ASSUME NEW j \in 1..n, NEW k \in 1..n, f[j] = f[k], j # k
               PROVE  FALSE
    OBVIOUS
  <2>1. j < k \/ k < j
    BY <1>1
  <2>2. <<f[j], f[j]>> \in R
    BY <1>3, <2>1
  <2> QED
    BY <1>3, <2>2 DEF IsOrder
<1>5. f \in Injection(1..n, S)
  BY <1>3, <1>4 DEF Injection, IsInjective
<1>6. IsFiniteSet(1..n) /\ Cardinality(1..n) = n
  BY <1>1, FS_Interval
<1>7. f \in Surjection(1..n, S)
  BY <1>5, <1>6, FS_Injection DEF n
<1>8. {f[k] : k \in 1..n} = S
  BY <1>3, <1>7 DEF Surjection
<1> QED
  BY <1>1, <1>3, <1>4, <1>8 DEF f, n

=============================================================================
