------------------------------- MODULE Induction -------------------------------
(***************************************************************************)
(* Induction and recursion over the naturals, stated about sets and        *)
(* functions instead of operators, so that the provers can instantiate     *)
(* them: what a recursive function and a fold over a sequence compute.     *)
(***************************************************************************)
EXTENDS WellFoundedInduction, SequenceTheorems, SequencesExt, TLAPS

\* A set with 0 and the successor of each of its numbers has all numbers.
LEMMA SetInduction ==
    ASSUME NEW S, 0 \in S, \A n \in Nat : n \in S => n + 1 \in S
    PROVE  Nat \subseteq S
<1>. DEFINE R == OpToRel(<, Nat)
            T == {n \in Nat : n \notin S}
<1>1. IsWellFoundedOn(R, Nat)
  BY NatLessThanWellFounded
<1>2. ASSUME T # {}
      PROVE  FALSE
  <2>1. PICK x \in T : \A y \in T : ~ (<<y, x>> \in R)
    <3>. HIDE DEF R
    <3>1. T \subseteq Nat
      OBVIOUS
    <3>. HIDE DEF T
    <3> QED BY <1>1, <1>2, <3>1, WFMin
  <2>2. x # 0 /\ x \in Nat /\ x - 1 \in Nat
    OBVIOUS
  <2>3. x - 1 \in T
    OBVIOUS
  <2>4. <<x - 1, x>> \in R
    BY <2>2 DEF OpToRel
  <2> QED BY <2>1, <2>3, <2>4
<1> QED BY <1>2

\* The same up to a bound.
LEMMA SetInductionUpTo ==
    ASSUME NEW S, NEW m \in Nat, 0 \in S,
           \A n \in 0 .. m : n < m /\ n \in S => n + 1 \in S
    PROVE  0 .. m \subseteq S
<1>. DEFINE T == {n \in Nat : n <= m => n \in S}
<1>1. 0 \in T /\ \A n \in Nat : n \in T => n + 1 \in T
  OBVIOUS
<1>. HIDE DEF T
<1>2. Nat \subseteq T
  BY <1>1, SetInduction
<1> QED BY <1>2 DEF T

\* Applying functions to a value, one after the other.
IsRecursion(f, V, base, step, m) ==
    /\ f \in [0 .. m -> V]
    /\ f[0] = base
    /\ \A n \in 0 .. m : n < m => f[n + 1] = step[n][f[n]]

LEMMA RecursionExists ==
    ASSUME NEW V, NEW base \in V, NEW step \in [Nat -> [V -> V]], NEW m \in Nat
    PROVE  \E f : IsRecursion(f, V, base, step, m)
<1>. DEFINE Steps(f, n) == f[0] = base /\ \A k \in 0 .. n : k < n => f[k + 1] = step[k][f[k]]
            S == {n \in Nat : \E f \in [0 .. n -> V] : Steps(f, n)}
<1>1. 0 \in S
  <2>1. [k \in 0 .. 0 |-> base] \in [0 .. 0 -> V] /\ Steps([k \in 0 .. 0 |-> base], 0)
    OBVIOUS
  <2> QED BY <2>1
<1>2. ASSUME NEW n \in Nat, n \in S
      PROVE  n + 1 \in S
  <2>1. PICK f \in [0 .. n -> V] : Steps(f, n)
    BY <1>2
  <2>. DEFINE g == [k \in 0 .. n + 1 |-> IF k = n + 1 THEN step[n][f[n]] ELSE f[k]]
  <2>2. f[n] \in V /\ step[n][f[n]] \in V
    OBVIOUS
  <2>3. g \in [0 .. n + 1 -> V]
    BY <2>2
  <2>4. Steps(g, n + 1)
    <3>1. g[0] = base
      BY <2>1
    <3>2. ASSUME NEW k \in 0 .. n + 1, k < n + 1
          PROVE  g[k + 1] = step[k][g[k]]
      BY <2>1, <3>2
    <3> QED BY <3>1, <3>2
  <2>. HIDE DEF g, Steps
  <2>5. \E h \in [0 .. n + 1 -> V] : Steps(h, n + 1)
    BY <2>3, <2>4
  <2> QED BY <2>5
<1>. HIDE DEF S
<1>3. m \in S
  BY <1>1, <1>2, SetInduction
<1> QED BY <1>3 DEF S, IsRecursion

\* The greatest number of a range.
LEMMA MaxOfRange ==
    ASSUME NEW n \in Nat, NEW s \in SUBSET (1 .. n + 1), n + 1 \in s
    PROVE  Max(s) = n + 1
<1>1. \A y \in s : n + 1 >= y
  OBVIOUS
<1>2. \A x \in s : (\A y \in s : x >= y) => x = n + 1
  OBVIOUS
<1> QED BY <1>1, <1>2 DEF Max

\* A set of positions has a greatest one.
LEMMA RangeHasMax ==
    ASSUME NEW n \in Nat, NEW s \in SUBSET (1 .. n), s # {}
    PROVE  \E x \in s : \A y \in s : x >= y
<1>. DEFINE S == {k \in Nat : \A t \in SUBSET (1 .. k) : t # {} => \E x \in t : \A y \in t : x >= y}
<1>1. 0 \in S
  <2>1. \A t \in SUBSET (1 .. 0) : t = {}
    OBVIOUS
  <2> QED BY <2>1
<1>2. ASSUME NEW k \in Nat, k \in S
      PROVE  k + 1 \in S
  <2>. SUFFICES ASSUME NEW t \in SUBSET (1 .. k + 1), t # {}
                PROVE  \E x \in t : \A y \in t : x >= y
    OBVIOUS
  <2>1. CASE k + 1 \in t
    BY <2>1
  <2>2. CASE k + 1 \notin t
    <3>1. t \in SUBSET (1 .. k)
      BY <2>2
    <3> QED BY <1>2, <3>1
  <2> QED BY <2>1, <2>2
<1>. HIDE DEF S
<1>3. n \in S
  BY <1>1, <1>2, SetInduction
<1> QED BY <1>3 DEF S

LEMMA RangeHasMin ==
    ASSUME NEW n \in Nat, NEW s \in SUBSET (1 .. n), s # {}
    PROVE  \E x \in s : \A y \in s : x <= y
<1>. DEFINE t == {n + 1 - x : x \in s}
<1>1. t \in SUBSET (1 .. n) /\ t # {} /\ \A y \in s : n + 1 - y \in t
  <2>1. \A y \in s : y \in 1 .. n /\ n + 1 - y \in 1 .. n
    OBVIOUS
  <2>2. \A y \in s : n + 1 - y \in t
    OBVIOUS
  <2> QED BY <2>1, <2>2
<1>2. \A z \in t : n + 1 - z \in s
  OBVIOUS
<1>. HIDE DEF t
<1>3. PICK z \in t : \A y \in t : z >= y
  BY <1>1, RangeHasMax
<1>4. \A y \in s : n + 1 - z <= y
  <2>1. ASSUME NEW y \in s
        PROVE  n + 1 - z <= y
    <3>1. z >= n + 1 - y /\ y \in Nat /\ z \in Nat
      BY <1>1, <1>3
    <3> QED BY <3>1
  <2> QED BY <2>1
<1> QED BY <1>2, <1>3, <1>4

\* A fold from the left is a function of the sets of positions, which the library
\* defines by what it is for a set without its greatest position: there is one.
IsFold(f, V, base, step, m) ==
    /\ f \in [SUBSET (1 .. m) -> V]
    /\ \A s \in SUBSET (1 .. m) :
          f[s] = IF s = {} THEN base ELSE step[Max(s)][f[s \ {Max(s)}]]

LEMMA FoldExists ==
    ASSUME NEW V, NEW base \in V, NEW m \in Nat, NEW step \in [1 .. m -> [V -> V]]
    PROVE  \E f : IsFold(f, V, base, step, m)
<1>. DEFINE Folds(f, n) ==
                \A s \in SUBSET (1 .. n) :
                    f[s] = IF s = {} THEN base ELSE step[Max(s)][f[s \ {Max(s)}]]
            S == {n \in 0 .. m : \E f \in [SUBSET (1 .. n) -> V] : Folds(f, n)}
<1>1. 0 \in S
  <2>1. SUBSET (1 .. 0) = {{}}
    OBVIOUS
  <2>. DEFINE g == [s \in SUBSET (1 .. 0) |-> base]
  <2>2. g \in [SUBSET (1 .. 0) -> V] /\ Folds(g, 0)
    BY <2>1
  <2>. HIDE DEF g, Folds
  <2>3. \E f \in [SUBSET (1 .. 0) -> V] : Folds(f, 0)
    BY <2>2
  <2>4. 0 \in 0 .. m
    OBVIOUS
  <2>. HIDE DEF S
  <2>5. ASSUME NEW n \in 0 .. m, \E f \in [SUBSET (1 .. n) -> V] : Folds(f, n)
        PROVE  n \in S
    BY <2>5 DEF S
  <2> QED BY <2>3, <2>4, <2>5
<1>2. ASSUME NEW n \in 0 .. m, n < m, n \in S
      PROVE  n + 1 \in S
  <2>1. PICK f \in [SUBSET (1 .. n) -> V] : Folds(f, n)
    BY <1>2
  <2>. DEFINE D == SUBSET (1 .. n + 1)
              g == [s \in D |-> IF n + 1 \in s THEN step[n + 1][f[s \ {n + 1}]] ELSE f[s]]
  <2>2. n \in Nat /\ n + 1 \in 1 .. m
    BY <1>2
  <2>3. \A s \in D : s \ {n + 1} \in SUBSET (1 .. n) /\ (n + 1 \notin s => s \in SUBSET (1 .. n))
    BY <2>2
  <2>4. g \in [D -> V]
    <3>. SUFFICES ASSUME NEW s \in D
                  PROVE  (IF n + 1 \in s THEN step[n + 1][f[s \ {n + 1}]] ELSE f[s]) \in V
      OBVIOUS
    <3>1. f[s \ {n + 1}] \in V
      BY <2>3
    <3> QED BY <2>2, <2>3, <3>1
  <2>5. Folds(g, n + 1)
    <3>. SUFFICES ASSUME NEW s \in D
                  PROVE  g[s] = IF s = {} THEN base ELSE step[Max(s)][g[s \ {Max(s)}]]
      OBVIOUS
    <3>1. CASE n + 1 \in s
      <4>1. Max(s) = n + 1
        BY <2>2, <3>1, MaxOfRange
      <4>2. g[s \ {n + 1}] = f[s \ {n + 1}]
        BY <2>3
      <4> QED BY <3>1, <4>1, <4>2
    <3>2. CASE n + 1 \notin s
      <4>1. s \in SUBSET (1 .. n)
        BY <2>3, <3>2
      <4>2. s # {} => Max(s) \in s
        <5>. SUFFICES ASSUME s # {}
                      PROVE  \E x \in s : \A y \in s : x >= y
          BY DEF Max
        <5> QED BY <2>2, <4>1, RangeHasMax
      <4>3. s # {} => s \ {Max(s)} \in SUBSET (1 .. n) /\ g[s \ {Max(s)}] = f[s \ {Max(s)}]
        <5>1. ASSUME NEW t \in SUBSET (1 .. n)
              PROVE  g[t] = f[t]
          <6>1. t \in D /\ n + 1 \notin t
            BY <2>2
          <6> QED BY <6>1
        <5>2. s \ {Max(s)} \in SUBSET (1 .. n)
          BY <4>1
        <5>. HIDE DEF g
        <5> QED BY <5>1, <5>2
      <4>. HIDE DEF g, D
      <4>4. g[s] = f[s]
        BY <3>2 DEF g, D
      <4> QED BY <2>1, <4>1, <4>3, <4>4
    <3> QED BY <3>1, <3>2
  <2>. HIDE DEF g, Folds
  <2>6. \E h \in [D -> V] : Folds(h, n + 1)
    BY <2>4, <2>5
  <2> QED BY <2>2, <2>6
<1>. HIDE DEF S
<1>3. 0 .. m \subseteq S
  BY <1>1, <1>2, SetInductionUpTo
<1>4. m \in S
  BY <1>3
<1> QED BY <1>4 DEF S, IsFold

\* There is only one: whatever does the same steps from the same base is that function.
DoesSteps(h, V, base, step, m) ==
    /\ h = [s \in SUBSET (1 .. m) |-> h[s]]
    /\ \A s \in SUBSET (1 .. m) :
          IF s = {} THEN h[s] = base
          ELSE h[s \ {Max(s)}] \in V => h[s] = step[Max(s)][h[s \ {Max(s)}]]

LEMMA FoldUnique ==
    ASSUME NEW V, NEW base \in V, NEW m \in Nat, NEW step \in [1 .. m -> [V -> V]],
           NEW f, IsFold(f, V, base, step, m), NEW h, DoesSteps(h, V, base, step, m)
    PROVE  h = f
<1>. DEFINE S == {n \in 0 .. m : \A s \in SUBSET (1 .. n) : h[s] = f[s]}
<1>1. 0 \in S
  <2>1. \A s \in SUBSET (1 .. 0) : s = {}
    OBVIOUS
  <2>2. {} \in SUBSET (1 .. m)
    OBVIOUS
  <2>3. h[{}] = base /\ f[{}] = base
    BY <2>2 DEF IsFold, DoesSteps
  <2>4. 0 \in 0 .. m
    OBVIOUS
  <2> QED BY <2>1, <2>3, <2>4
<1>2. ASSUME NEW n \in 0 .. m, n < m, n \in S
      PROVE  n + 1 \in S
  <2>1. n + 1 \in 0 .. m /\ n + 1 \in Nat
    BY <1>2
  <2>. SUFFICES ASSUME NEW s \in SUBSET (1 .. n + 1)
                PROVE  h[s] = f[s]
    BY <2>1
  <2>2. s \in SUBSET (1 .. m)
    BY <2>1
  <2>3. CASE s = {}
    BY <2>2, <2>3 DEF IsFold, DoesSteps
  <2>4. CASE s # {}
    <3>. DEFINE x == Max(s)
    <3>1. x \in s /\ \A y \in s : x >= y
      <4>1. \E z \in s : \A y \in s : z >= y
        BY <2>1, <2>4, RangeHasMax
      <4> QED BY <4>1 DEF Max
    <3>. HIDE DEF x
    <3>2. s \ {x} \in SUBSET (1 .. n)
      BY <3>1
    <3>3. h[s \ {x}] = f[s \ {x}]
      BY <1>2, <3>2
    <3>4. s \ {x} \in SUBSET (1 .. m)
      BY <2>2
    <3>5. f[s \ {x}] \in V
      BY <3>4 DEF IsFold
    <3>6. f[s] = step[x][f[s \ {x}]]
      BY <2>2, <2>4 DEF IsFold, x
    <3>7. h[s] = step[x][h[s \ {x}]]
      BY <2>2, <2>4, <3>3, <3>5 DEF x, DoesSteps
    <3> QED BY <3>3, <3>6, <3>7
  <2> QED BY <2>3, <2>4
<1>. HIDE DEF S
<1>3. 0 .. m \subseteq S
  BY <1>1, <1>2, SetInductionUpTo
<1>4. \A s \in SUBSET (1 .. m) : h[s] = f[s]
  <2>1. m \in S
    BY <1>3
  <2> QED BY <2>1 DEF S
<1>5. f = [s \in SUBSET (1 .. m) |-> f[s]]
  BY DEF IsFold
<1> QED BY <1>4, <1>5 DEF DoesSteps

-----------------------------------------------------------------------------
\* A function of a value and an item, folded over a sequence of items.
Folded(F, base, s) ==
    LET f[k \in 0 .. Len(s)] == IF k = 0 THEN base ELSE F[f[k - 1]][s[k]]
    IN f[Len(s)]

\* Such functions.
IsStep(F, V, T) == F \in [V -> [T -> V]]

\* The steps of such a fold.
StepsOf(F, V, s) == [k \in Nat |-> [v \in V |-> IF k < Len(s) THEN F[v][s[k + 1]] ELSE v]]

LEMMA StepsType ==
    ASSUME NEW V, NEW T, NEW F, IsStep(F, V, T), NEW s \in Seq(T)
    PROVE  StepsOf(F, V, s) \in [Nat -> [V -> V]]
<1>. SUFFICES ASSUME NEW k \in Nat, NEW v \in V
              PROVE  (IF k < Len(s) THEN F[v][s[k + 1]] ELSE v) \in V
  BY DEF StepsOf
<1>1. k < Len(s) => s[k + 1] \in T
  OBVIOUS
<1> QED BY <1>1 DEF IsStep

\* Two recursions that do the same steps agree.
SameSteps(step1, step2, V, n) == \A k \in Nat, v \in V : k < n => step1[k][v] = step2[k][v]

LEMMA RecursionUnique ==
    ASSUME NEW V, NEW base, NEW step1, NEW step2, NEW m \in Nat, NEW n \in 0 .. m, NEW f, NEW g,
           IsRecursion(f, V, base, step1, m), IsRecursion(g, V, base, step2, n),
           SameSteps(step1, step2, V, n)
    PROVE  f[n] = g[n]
<1>. DEFINE S == {k \in 0 .. n : f[k] = g[k]}
<1>1. 0 \in S
  BY DEF IsRecursion
<1>2. ASSUME NEW k \in 0 .. n, k < n, k \in S
      PROVE  k + 1 \in S
  <2>1. k + 1 \in 0 .. n /\ k \in 0 .. m /\ k < m /\ k \in Nat
    BY <1>2
  <2>2. f[k] \in V /\ f[k] = g[k]
    BY <1>2, <2>1 DEF IsRecursion
  <2>3. f[k + 1] = step1[k][f[k]] /\ g[k + 1] = step2[k][g[k]]
    BY <1>2, <2>1 DEF IsRecursion
  <2> QED BY <1>2, <2>1, <2>2, <2>3 DEF SameSteps
<1>. HIDE DEF S
<1>3. 0 .. n \subseteq S
  BY <1>1, <1>2, SetInductionUpTo
<1>4. n \in S
  BY <1>3
<1> QED BY <1>4 DEF S

IsFolding(f, F, V, base, s) ==
    /\ IsRecursion(f, V, base, StepsOf(F, V, s), Len(s))
    /\ Folded(F, base, s) = f[Len(s)]

LEMMA FoldedRecursion ==
    ASSUME NEW V, NEW T, NEW F, IsStep(F, V, T), NEW base \in V, NEW s \in Seq(T)
    PROVE  \E f : IsFolding(f, F, V, base, s)
<1>. DEFINE m == Len(s)
            IsChain(f) == f = [k \in 0 .. m |-> IF k = 0 THEN base ELSE F[f[k - 1]][s[k]]]
<1>1. m \in Nat
  OBVIOUS
<1>2. PICK g : IsRecursion(g, V, base, StepsOf(F, V, s), m)
  BY <1>1, StepsType, RecursionExists
<1>3. ASSUME NEW k \in 0 .. m, k # 0
      PROVE  g[k] = F[g[k - 1]][s[k]]
  <2>1. k - 1 \in 0 .. m /\ k - 1 < m /\ (k - 1) + 1 = k /\ k - 1 \in Nat
    BY <1>1, <1>3
  <2>2. g[k - 1] \in V
    BY <1>2, <2>1 DEF IsRecursion
  <2>3. g[(k - 1) + 1] = StepsOf(F, V, s)[k - 1][g[k - 1]]
    BY <1>2, <2>1 DEF IsRecursion
  <2>4. StepsOf(F, V, s)[k - 1][g[k - 1]] = F[g[k - 1]][s[(k - 1) + 1]]
    BY <2>1, <2>2 DEF StepsOf
  <2> QED BY <2>1, <2>3, <2>4
<1>4. IsChain(g)
  BY <1>2, <1>3 DEF IsRecursion
<1>. DEFINE f == CHOOSE h : IsChain(h)
<1>5. IsChain(f)
  <2>. HIDE DEF IsChain
  <2> QED BY <1>4
<1>6. Folded(F, base, s) = f[m]
  BY DEF Folded
<1>. HIDE DEF f
<1>7. f[m] = g[m]
  <2>. DEFINE S == {k \in Nat : k <= m => f[k] = g[k]}
  <2>1. 0 \in S
    BY <1>1, <1>2, <1>5 DEF IsRecursion
  <2>2. ASSUME NEW k \in Nat, k \in S
        PROVE  k + 1 \in S
    <3>. SUFFICES ASSUME k + 1 <= m
                  PROVE  f[k + 1] = g[k + 1]
      OBVIOUS
    <3>1. k + 1 \in 0 .. m /\ k + 1 # 0 /\ (k + 1) - 1 = k /\ k <= m
      BY <1>1
    <3>2. f[k + 1] = F[f[k]][s[k + 1]]
      BY <1>5, <3>1
    <3>3. g[k + 1] = F[g[k]][s[k + 1]]
      BY <1>3, <3>1
    <3> QED BY <2>2, <3>1, <3>2, <3>3
  <2>. HIDE DEF S
  <2>3. m \in S
    BY <1>1, <2>1, <2>2, SetInduction
  <2> QED BY <1>1, <2>3 DEF S
<1> QED BY <1>2, <1>6, <1>7 DEF IsFolding

\* The value of a fold, and what one more item does to it.
LEMMA FoldedType ==
    ASSUME NEW V, NEW T, NEW F, IsStep(F, V, T), NEW base \in V, NEW s \in Seq(T)
    PROVE  Folded(F, base, s) \in V
<1>1. PICK f : IsFolding(f, F, V, base, s)
  BY FoldedRecursion
<1>2. Len(s) \in 0 .. Len(s)
  OBVIOUS
<1> QED BY <1>1, <1>2 DEF IsFolding, IsRecursion

LEMMA FoldedEmpty ==
    ASSUME NEW V, NEW T, NEW F, IsStep(F, V, T), NEW base \in V
    PROVE  Folded(F, base, <<>>) = base
<1>1. <<>> \in Seq(T) /\ Len(<<>>) = 0
  OBVIOUS
<1>2. PICK f : IsFolding(f, F, V, base, <<>>)
  BY <1>1, FoldedRecursion
<1> QED BY <1>1, <1>2 DEF IsFolding, IsRecursion

LEMMA FoldedAppend ==
    ASSUME NEW V, NEW T, NEW F, IsStep(F, V, T), NEW base \in V, NEW s \in Seq(T), NEW x \in T
    PROVE  Folded(F, base, Append(s, x)) = F[Folded(F, base, s)][x]
<1>. DEFINE t == Append(s, x)
            n == Len(s)
<1>1. t \in Seq(T) /\ Len(t) = n + 1 /\ n \in Nat /\ t[n + 1] = x /\ \A i \in 1 .. n : t[i] = s[i]
  OBVIOUS
<1>. HIDE DEF t, n
<1>2. PICK f : IsRecursion(f, V, base, StepsOf(F, V, t), n + 1) /\ Folded(F, base, t) = f[n + 1]
  <2>1. PICK f : IsFolding(f, F, V, base, t)
    BY <1>1, FoldedRecursion
  <2> QED BY <1>1, <2>1 DEF IsFolding
<1>3. PICK g : IsRecursion(g, V, base, StepsOf(F, V, s), n) /\ Folded(F, base, s) = g[n]
  <2>1. PICK g : IsFolding(g, F, V, base, s)
    BY FoldedRecursion
  <2> QED BY <2>1 DEF IsFolding, n
<1>4. n \in 0 .. n + 1 /\ n + 1 \in Nat /\ n < n + 1
  BY <1>1
<1>5. SameSteps(StepsOf(F, V, t), StepsOf(F, V, s), V, n)
  <2>. SUFFICES ASSUME NEW k \in Nat, NEW v \in V, k < n
                PROVE  StepsOf(F, V, t)[k][v] = StepsOf(F, V, s)[k][v]
    BY DEF SameSteps
  <2>1. k < Len(t) /\ k < Len(s) /\ t[k + 1] = s[k + 1]
    <3>1. k + 1 \in 1 .. n
      BY <1>1
    <3>2. n = Len(s)
      BY DEF n
    <3>3. k < Len(s)
      BY <3>2
    <3>4. k < Len(t)
      BY <1>1
    <3>5. t[k + 1] = s[k + 1]
      BY <1>1, <3>1
    <3> QED BY <3>3, <3>4, <3>5
  <2> QED BY <2>1 DEF StepsOf
<1>6. f[n] = g[n]
  BY <1>2, <1>3, <1>4, <1>5, RecursionUnique
<1>7. f[n] \in V /\ f[n + 1] = StepsOf(F, V, t)[n][f[n]]
  BY <1>2, <1>4 DEF IsRecursion
<1>8. StepsOf(F, V, t)[n][f[n]] = F[f[n]][x]
  <2>1. n < Len(t) /\ n \in Nat /\ t[n + 1] = x
    BY <1>1
  <2> QED BY <1>7, <2>1 DEF StepsOf
<1> QED BY <1>2, <1>3, <1>6, <1>7, <1>8 DEF t

\* A prefix is the one that is shorter by one and its last item.
LEMMA PrefixAppend ==
    ASSUME NEW T, NEW s \in Seq(T), NEW k \in 1 .. Len(s)
    PROVE  /\ SubSeq(s, 1, k - 1) \in Seq(T)
           /\ s[k] \in T
           /\ SubSeq(s, 1, k) = Append(SubSeq(s, 1, k - 1), s[k])
<1>1. Len(s) \in Nat
  OBVIOUS
<1>2. k - 1 \in Int /\ 1 \in Int /\ k \in 1 .. k /\ k \in 1 .. Len(s)
  BY <1>1
<1>3. s[k] \in T
  BY ElementOfSeq
<1>4. SubSeq(s, 1, k - 1) \in Seq(T)
  <2>1. \A i \in 1 .. k - 1 : i \in 1 .. Len(s)
    BY <1>1
  <2>2. \A i \in 1 .. k - 1 : s[i] \in T
    BY <2>1, ElementOfSeq
  <2> QED BY <1>2, <2>2, SubSeqProperties
<1>5. SubSeq(s, 1, k) = SubSeq(s, 1, k - 1) \o <<s[k]>>
  <2>1. 1 \in 1 .. Len(s) /\ k \in 1 .. Len(s)
    BY <1>1
  <2> QED BY <2>1, SubSeqRecursiveSecond
<1>6. Append(SubSeq(s, 1, k - 1), s[k]) = SubSeq(s, 1, k - 1) \o <<s[k]>>
  BY <1>3, <1>4, AppendIsConcat
<1> QED BY <1>3, <1>4, <1>5, <1>6

LEMMA FoldedPrefix ==
    ASSUME NEW V, NEW T, NEW F, IsStep(F, V, T), NEW base \in V, NEW s \in Seq(T), NEW k \in 1 .. Len(s)
    PROVE  /\ Folded(F, base, SubSeq(s, 1, k - 1)) \in V
           /\ Folded(F, base, SubSeq(s, 1, k)) = F[Folded(F, base, SubSeq(s, 1, k - 1))][s[k]]
<1>. DEFINE before == SubSeq(s, 1, k - 1)
            x == s[k]
<1>1. before \in Seq(T) /\ x \in T /\ SubSeq(s, 1, k) = Append(before, x)
  BY PrefixAppend
<1>. HIDE DEF before, x
<1>2. Folded(F, base, before) \in V
  BY <1>1, FoldedType
<1>3. Folded(F, base, Append(before, x)) = F[Folded(F, base, before)][x]
  <2>1. before \in Seq(T)
    BY <1>1
  <2>2. x \in T
    BY <1>1
  <2> QED BY <2>1, <2>2, FoldedAppend
<1> QED BY <1>1, <1>2, <1>3 DEF before, x

\* What holds at first, and after an item if it held before, holds in the end.
Maintained(I, F, V, s) == \A k \in 1 .. Len(s) : \A v \in V : v \in I[k - 1] => F[v][s[k]] \in I[k]

LEMMA FoldedInvariant ==
    ASSUME NEW V, NEW T, NEW F, IsStep(F, V, T), NEW base \in V, NEW s \in Seq(T),
           NEW I, base \in I[0], Maintained(I, F, V, s)
    PROVE  Folded(F, base, s) \in I[Len(s)]
<1>. DEFINE In(k) == Folded(F, base, SubSeq(s, 1, k)) \in I[k]
            P == {k \in 0 .. Len(s) : In(k)}
<1>1. Len(s) \in Nat
  OBVIOUS
<1>2. In(0)
  <2>1. SubSeq(s, 1, 0) = <<>>
    OBVIOUS
  <2>2. Folded(F, base, <<>>) = base
    BY FoldedEmpty
  <2> QED BY <2>1, <2>2
<1>3. ASSUME NEW n \in 0 .. Len(s), n < Len(s), In(n)
      PROVE  In(n + 1)
  <2>1. n + 1 \in 1 .. Len(s) /\ (n + 1) - 1 = n
    BY <1>1, <1>3
  <2>2. /\ Folded(F, base, SubSeq(s, 1, n)) \in V
        /\ Folded(F, base, SubSeq(s, 1, n + 1)) = F[Folded(F, base, SubSeq(s, 1, n))][s[n + 1]]
    BY <2>1, FoldedPrefix
  <2> QED BY <1>3, <2>1, <2>2 DEF Maintained
<1>4. In(Len(s)) => Folded(F, base, s) \in I[Len(s)]
  <2>1. SubSeq(s, 1, Len(s)) = s
    OBVIOUS
  <2> QED BY <2>1
<1>. HIDE DEF In
<1>5. 0 .. Len(s) \subseteq P
  <2>1. 0 \in P /\ \A n \in 0 .. Len(s) : n < Len(s) /\ n \in P => n + 1 \in P
    BY <1>1, <1>2, <1>3
  <2>. HIDE DEF P
  <2> QED BY <1>1, <2>1, SetInductionUpTo
<1> QED BY <1>1, <1>4, <1>5

\* FoldLeft, with its operator as a function, see FoldUnique for its value.
PositionSteps(F, V, s) == [i \in 1 .. Len(s) |-> [v \in V |-> F[v][s[i]]]]

\* Whatever does the steps of FoldLeft is this fold.
FoldsLeft(h, F, V, T, base, s) ==
    /\ IsStep(F, V, T) /\ base \in V /\ s \in Seq(T)
    /\ h = [p \in SUBSET (1 .. Len(s)) |-> h[p]]
    /\ \A p \in SUBSET (1 .. Len(s)) :
          IF p = {} THEN h[p] = base
          ELSE h[p \ {Max(p)}] \in V => h[p] = F[h[p \ {Max(p)}]][s[Max(p)]]

LEMMA FoldLeftFolds ==
    ASSUME NEW V, NEW T, NEW F, NEW base, NEW s, NEW h, FoldsLeft(h, F, V, T, base, s)
    PROVE  h[1 .. Len(s)] = Folded(F, base, s)
<1>. USE DEF FoldsLeft
<1>. DEFINE m == Len(s)
            step == PositionSteps(F, V, s)
<1>1. m \in Nat
  OBVIOUS
<1>2. step \in [1 .. m -> [V -> V]]
  BY DEF PositionSteps, IsStep
<1>. HIDE DEF step, m
<1>3. PICK f : IsFold(f, V, base, step, m)
  BY <1>1, <1>2, FoldExists
<1>4. \A p \in SUBSET (1 .. m) :
          p # {} => Max(p) \in p /\ Max(p) \in 1 .. m /\ \A y \in p : Max(p) >= y
  <2>. SUFFICES ASSUME NEW p \in SUBSET (1 .. m), p # {}
                PROVE  Max(p) \in p /\ \A y \in p : Max(p) >= y
    OBVIOUS
  <2>1. \E z \in p : \A y \in p : z >= y
    BY <1>1, RangeHasMax
  <2> QED BY <2>1 DEF Max
<1>5. ASSUME NEW p \in SUBSET (1 .. m)
      PROVE  IF p = {} THEN h[p] = base
             ELSE h[p \ {Max(p)}] \in V => h[p] = step[Max(p)][h[p \ {Max(p)}]]
  <2>1. CASE p = {}
    BY <2>1 DEF m, FoldsLeft
  <2>2. CASE p # {}
    <3>. SUFFICES ASSUME h[p \ {Max(p)}] \in V
                  PROVE  h[p] = step[Max(p)][h[p \ {Max(p)}]]
      BY <2>2
    <3>1. Max(p) \in 1 .. Len(s)
      BY <1>4, <2>2 DEF m
    <3>2. step[Max(p)][h[p \ {Max(p)}]] = F[h[p \ {Max(p)}]][s[Max(p)]]
      BY <3>1 DEF step, PositionSteps
    <3> QED BY <2>2, <3>2 DEF m, FoldsLeft
  <2> QED BY <2>1, <2>2
<1>6. h = f
  <2>1. DoesSteps(h, V, base, step, m)
    BY <1>5 DEF m, FoldsLeft, DoesSteps
  <2> QED BY <1>1, <1>2, <1>3, <2>1, FoldUnique
<1>7. PICK g : IsRecursion(g, V, base, StepsOf(F, V, s), m) /\ Folded(F, base, s) = g[m]
  <2>1. PICK g : IsFolding(g, F, V, base, s)
    BY FoldedRecursion
  <2> QED BY <2>1 DEF IsFolding, m
<1>. DEFINE S == {k \in 0 .. m : h[1 .. k] = g[k]}
<1>8. 0 \in S
  <2>1. 1 .. 0 = {} /\ {} \in SUBSET (1 .. m)
    OBVIOUS
  <2>2. h[{}] = base
    BY <1>3, <1>6, <2>1 DEF IsFold
  <2> QED BY <1>1, <1>7, <2>1, <2>2 DEF IsRecursion
<1>9. ASSUME NEW k \in 0 .. m, k < m, k \in S
      PROVE  k + 1 \in S
  <2>. DEFINE p == 1 .. k + 1
  <2>1. p \in SUBSET (1 .. m) /\ p # {} /\ p \ {k + 1} = 1 .. k /\ k \in Nat /\ k + 1 \in p
        /\ k + 1 \in 1 .. m /\ k + 1 \in 0 .. m /\ 1 .. k \in SUBSET (1 .. m)
    <3>1. k \in Nat /\ k + 1 \in 1 .. m /\ k + 1 \in 0 .. m
      BY <1>1, <1>9
    <3>2. k + 1 \in p /\ p \ {k + 1} = 1 .. k
      BY <3>1
    <3>3. \A i \in p : i \in 1 .. m
      BY <1>1, <3>1
    <3>4. 1 .. k \in SUBSET (1 .. m)
      BY <3>2, <3>3
    <3> QED BY <3>1, <3>2, <3>3, <3>4
  <2>2. Max(p) = k + 1
    BY <2>1, MaxOfRange
  <2>. HIDE DEF p
  <2>3. h[p] = step[k + 1][h[1 .. k]] /\ h[1 .. k] \in V
    <3>1. h[1 .. k] \in V
      BY <1>3, <1>6, <2>1 DEF IsFold
    <3>2. h[p] = step[Max(p)][h[p \ {Max(p)}]]
      BY <1>3, <1>6, <2>1 DEF IsFold
    <3> QED BY <2>1, <2>2, <3>1, <3>2
  <2>4. step[k + 1][h[1 .. k]] = F[h[1 .. k]][s[k + 1]]
    BY <2>1, <2>3 DEF step, PositionSteps, m
  <2>5. g[k + 1] = StepsOf(F, V, s)[k][g[k]] /\ g[k] \in V
    BY <1>7, <1>9 DEF IsRecursion
  <2>6. StepsOf(F, V, s)[k][g[k]] = F[g[k]][s[k + 1]]
    BY <1>9, <2>1, <2>5 DEF StepsOf, m
  <2>7. h[1 .. k] = g[k]
    BY <1>9
  <2>8. h[1 .. k + 1] = g[k + 1]
    BY <2>3, <2>4, <2>5, <2>6, <2>7 DEF p
  <2> QED BY <2>1, <2>8
<1>. HIDE DEF S
<1>10. 0 .. m \subseteq S
  BY <1>1, <1>8, <1>9, SetInductionUpTo
<1>11. m \in S
  BY <1>1, <1>10
<1> QED BY <1>7, <1>11 DEF S, m

\* What FoldLeft computes, set of positions by set of positions: it exists.
Iterates(f, F, V, T, base, s) ==
    /\ f = [p \in SUBSET (1 .. Len(s)) |-> f[p]]
    /\ f[{}] = base
    /\ \A p \in SUBSET (1 .. Len(s)) :
          p # {} => /\ Max(p) \in 1 .. Len(s) /\ s[Max(p)] \in T
                    /\ f[p \ {Max(p)}] \in V
                    /\ f[p] = F[f[p \ {Max(p)}]][s[Max(p)]]

LEMMA FoldIterates ==
    ASSUME NEW V, NEW T, NEW F, IsStep(F, V, T), NEW base \in V, NEW s \in Seq(T)
    PROVE  \E f : Iterates(f, F, V, T, base, s)
<1>. DEFINE m == Len(s)
            step == PositionSteps(F, V, s)
<1>1. m \in Nat /\ \A i \in 1 .. m : s[i] \in T
  <2>1. m \in Nat
    OBVIOUS
  <2> QED BY <2>1, ElementOfSeq
<1>2. step \in [1 .. m -> [V -> V]]
  BY <1>1 DEF PositionSteps, IsStep
<1>. HIDE DEF m
<1>3. PICK f : IsFold(f, V, base, step, m)
  BY <1>1, <1>2, FoldExists
<1>4. ASSUME NEW p \in SUBSET (1 .. m), p # {}
      PROVE  /\ Max(p) \in 1 .. m /\ s[Max(p)] \in T
             /\ f[p \ {Max(p)}] \in V
             /\ f[p] = F[f[p \ {Max(p)}]][s[Max(p)]]
  <2>1. \E x \in p : \A y \in p : x >= y
    BY <1>1, <1>4, RangeHasMax
  <2>2. Max(p) \in 1 .. m
    BY <2>1 DEF Max
  <2>3. f[p \ {Max(p)}] \in V /\ f[p] = step[Max(p)][f[p \ {Max(p)}]]
    BY <1>3, <1>4 DEF IsFold
  <2> QED BY <1>1, <2>2, <2>3 DEF PositionSteps, m
<1>5. f = [p \in SUBSET (1 .. m) |-> f[p]] /\ f[{}] = base
  BY <1>3 DEF IsFold
<1> QED BY <1>4, <1>5 DEF Iterates, m

\* M measures the state of a loop by a set: no step takes from it, and a step adds at
\* most what its item brings.
Growing(M, F, V, T) == \A v \in V : \A x \in T : M[v] \subseteq M[F[v][x]]
Bringing(M, B, F, V, T) == \A v \in V : \A x \in T : M[F[v][x]] \subseteq M[v] \cup B[x]

\* A loop of growing steps grows, keeps what any of its steps adds, and ends with nothing
\* that neither was there before nor is brought by one of its items.
LEMMA FoldGrows ==
    ASSUME NEW V, NEW T, NEW F, IsStep(F, V, T), NEW base \in V, NEW s \in Seq(T), NEW M, Growing(M, F, V, T)
    PROVE  M[base] \subseteq M[Folded(F, base, s)]
<1>. DEFINE I == [k \in 0 .. Len(s) |-> {v \in V : M[base] \subseteq M[v]}]
<1>1. Len(s) \in Nat /\ \A k \in 1 .. Len(s) : s[k] \in T /\ k \in 0 .. Len(s) /\ k - 1 \in 0 .. Len(s)
  OBVIOUS
<1>2. base \in I[0]
  BY <1>1
<1>3. ASSUME NEW k \in 1 .. Len(s), NEW v \in V, v \in I[k - 1]
      PROVE  F[v][s[k]] \in I[k]
  <2>1. F[v][s[k]] \in V /\ M[v] \subseteq M[F[v][s[k]]]
    BY <1>1 DEF IsStep, Growing
  <2> QED BY <1>1, <1>3, <2>1
<1>. HIDE DEF I
<1>4. Maintained(I, F, V, s)
  BY <1>3 DEF Maintained
<1>5. Folded(F, base, s) \in I[Len(s)]
  BY <1>2, <1>4, FoldedInvariant
<1> QED BY <1>1, <1>5 DEF I

LEMMA FoldAdds ==
    ASSUME NEW V, NEW T, NEW F, IsStep(F, V, T), NEW base \in V, NEW s \in Seq(T), NEW M, Growing(M, F, V, T),
           NEW n, NEW i \in 1 .. Len(s), \A v \in V : n \in M[F[v][s[i]]]
    PROVE  n \in M[Folded(F, base, s)]
<1>. DEFINE I == [k \in 0 .. Len(s) |-> {v \in V : i <= k => n \in M[v]}]
<1>1. Len(s) \in Nat /\ \A k \in 1 .. Len(s) : s[k] \in T /\ k \in 0 .. Len(s) /\ k - 1 \in 0 .. Len(s)
  OBVIOUS
<1>2. base \in I[0]
  BY <1>1
<1>3. ASSUME NEW k \in 1 .. Len(s), NEW v \in V, v \in I[k - 1]
      PROVE  F[v][s[k]] \in I[k]
  <2>1. F[v][s[k]] \in V /\ M[v] \subseteq M[F[v][s[k]]]
    BY <1>1 DEF IsStep, Growing
  <2>2. i <= k => i = k \/ i <= k - 1
    OBVIOUS
  <2>3. i <= k => n \in M[F[v][s[k]]]
    BY <1>1, <1>3, <2>1, <2>2
  <2> QED BY <1>1, <2>1, <2>3
<1>. HIDE DEF I
<1>4. Maintained(I, F, V, s)
  BY <1>3 DEF Maintained
<1>5. Folded(F, base, s) \in I[Len(s)]
  BY <1>2, <1>4, FoldedInvariant
<1> QED BY <1>1, <1>5 DEF I

LEMMA FoldBrings ==
    ASSUME NEW V, NEW T, NEW F, IsStep(F, V, T), NEW base \in V, NEW s \in Seq(T), NEW M, NEW B,
           Bringing(M, B, F, V, T)
    PROVE  M[Folded(F, base, s)] \subseteq M[base] \cup UNION {B[s[i]] : i \in 1 .. Len(s)}
<1>. DEFINE all == M[base] \cup UNION {B[s[i]] : i \in 1 .. Len(s)}
            I == [k \in 0 .. Len(s) |-> {v \in V : M[v] \subseteq all}]
<1>1. Len(s) \in Nat /\ \A k \in 1 .. Len(s) : s[k] \in T /\ k \in 0 .. Len(s) /\ k - 1 \in 0 .. Len(s)
  OBVIOUS
<1>2. base \in I[0]
  BY <1>1
<1>3. ASSUME NEW k \in 1 .. Len(s), NEW v \in V, v \in I[k - 1]
      PROVE  F[v][s[k]] \in I[k]
  <2>1. F[v][s[k]] \in V /\ M[F[v][s[k]]] \subseteq M[v] \cup B[s[k]]
    BY <1>1 DEF IsStep, Bringing
  <2>2. B[s[k]] \subseteq all
    OBVIOUS
  <2>. HIDE DEF all
  <2> QED BY <1>1, <1>3, <2>1, <2>2
<1>. HIDE DEF I
<1>4. Maintained(I, F, V, s)
  BY <1>3 DEF Maintained
<1>5. Folded(F, base, s) \in I[Len(s)]
  BY <1>2, <1>4, FoldedInvariant
<1> QED BY <1>1, <1>5 DEF I

\* A set with the empty sequence and all longer versions of its members has all sequences.
LEMMA SequenceInduction ==
    ASSUME NEW T, NEW S, <<>> \in S,
           \A s \in Seq(T) : \A x \in T : s \in S => Append(s, x) \in S
    PROVE  Seq(T) \subseteq S
<1>. SUFFICES ASSUME NEW t \in Seq(T)
              PROVE  t \in S
  OBVIOUS
<1>. DEFINE In(k) == SubSeq(t, 1, k) \in S
            P == {k \in 0 .. Len(t) : In(k)}
<1>1. Len(t) \in Nat
  OBVIOUS
<1>2. In(0)
  <2>1. SubSeq(t, 1, 0) = <<>>
    OBVIOUS
  <2> QED BY <2>1
<1>3. ASSUME NEW n \in 0 .. Len(t), n < Len(t), In(n)
      PROVE  In(n + 1)
  <2>1. n + 1 \in 1 .. Len(t) /\ (n + 1) - 1 = n
    BY <1>1, <1>3
  <2>2. /\ SubSeq(t, 1, n) \in Seq(T) /\ t[n + 1] \in T
        /\ SubSeq(t, 1, n + 1) = Append(SubSeq(t, 1, n), t[n + 1])
    BY <2>1, PrefixAppend
  <2> QED BY <1>3, <2>2
<1>4. In(Len(t)) => t \in S
  <2>1. SubSeq(t, 1, Len(t)) = t
    OBVIOUS
  <2> QED BY <2>1
<1>. HIDE DEF In
<1>5. 0 .. Len(t) \subseteq P
  <2>1. 0 \in P /\ \A n \in 0 .. Len(t) : n < Len(t) /\ n \in P => n + 1 \in P
    BY <1>1, <1>2, <1>3
  <2>. HIDE DEF P
  <2> QED BY <1>1, <2>1, SetInductionUpTo
<1> QED BY <1>1, <1>4, <1>5

\* The items of a sequence that is longer by one, and of two sequences.
LEMMA ToSetAppend ==
    ASSUME NEW T, NEW s \in Seq(T), NEW x \in T
    PROVE  ToSet(Append(s, x)) = ToSet(s) \cup {x} /\ ToSet(s) \subseteq T
<1>1. /\ DOMAIN s = 1 .. Len(s) /\ Len(s) \in Nat
      /\ DOMAIN Append(s, x) = 1 .. (Len(s) + 1)
      /\ Append(s, x)[Len(s) + 1] = x
      /\ \A i \in 1 .. Len(s) : Append(s, x)[i] = s[i] /\ s[i] \in T
  OBVIOUS
<1> QED BY <1>1 DEF ToSet

LEMMA ToSetConcat ==
    ASSUME NEW T, NEW s \in Seq(T), NEW t \in Seq(T)
    PROVE  s \o t \in Seq(T) /\ ToSet(s \o t) = ToSet(s) \cup ToSet(t)
<1>. DEFINE n == Len(s)
            m == Len(t)
            all == s \o t
<1>1. /\ n \in Nat /\ m \in Nat /\ DOMAIN s = 1 .. n /\ DOMAIN t = 1 .. m
      /\ all \in Seq(T) /\ DOMAIN all = 1 .. (n + m)
  OBVIOUS
<1>2. \A i \in 1 .. n : all[i] = s[i] /\ i \in DOMAIN all
  BY <1>1
<1>3. \A i \in 1 .. m : all[n + i] = t[i] /\ n + i \in DOMAIN all
  BY <1>1
<1>4. \A i \in DOMAIN all : i \in 1 .. n \/ (i - n \in 1 .. m /\ i = n + (i - n))
  <2>. HIDE DEF all, n, m
  <2> QED BY <1>1
<1>. HIDE DEF all, n, m
<1>5. ASSUME NEW x \in ToSet(all)
      PROVE  x \in ToSet(s) \cup ToSet(t)
  <2>1. PICK i \in DOMAIN all : x = all[i]
    BY <1>5 DEF ToSet
  <2>2. CASE i \in 1 .. n
    BY <1>1, <1>2, <2>1, <2>2 DEF ToSet
  <2>3. CASE i - n \in 1 .. m /\ i = n + (i - n)
    <3>1. x = t[i - n]
      BY <1>3, <2>1, <2>3
    <3> QED BY <1>1, <2>3, <3>1 DEF ToSet
  <2> QED BY <1>4, <2>2, <2>3
<1>6. ASSUME NEW x \in ToSet(s) \cup ToSet(t)
      PROVE  x \in ToSet(all)
  BY <1>1, <1>2, <1>3 DEF ToSet
<1> QED BY <1>1, <1>5, <1>6 DEF all
-----------------------------------------------------------------------------
(***************************************************************************)
(* Recursion over what is built in finitely many steps: needs[e] are the   *)
(* elements that e is built from, and built[n] those that are built in n   *)
(* steps.                                                                  *)
(***************************************************************************)
IsBuilt(built, E, needs, m) ==
    /\ m \in Nat
    /\ built \in [0 .. m -> SUBSET E]
    /\ built[0] = {}
    /\ \A n \in 0 .. m : n < m => built[n + 1] = {e \in E : needs[e] \subseteq built[n]}
    /\ built[m] = E

\* The value of an element follows from the values of what it needs.
IsLocal(B, E, V, needs) ==
    /\ B \in [[E -> V] -> [E -> V]]
    /\ \A f, g \in [E -> V] : \A e \in E : (\A x \in needs[e] : f[x] = g[x]) => B[f][e] = B[g][e]

\* If everything is built in the end, the recursion has a solution.
LEMMA GroundedRecursion ==
    ASSUME NEW E, NEW V, NEW v0 \in V, NEW m, NEW needs, NEW built, IsBuilt(built, E, needs, m),
           NEW B, IsLocal(B, E, V, needs)
    PROVE  \E f \in [E -> V] : f = B[f]
<1>. DEFINE W == [E -> V]
            base == [e \in E |-> v0]
            step == [n \in Nat |-> B]
<1>. m \in Nat /\ B \in [W -> W]
  BY DEF IsBuilt, IsLocal
<1>1. base \in W /\ step \in [Nat -> [W -> W]] /\ m + 1 \in Nat
  OBVIOUS
<1>. HIDE DEF W, base, step
<1>2. PICK r : IsRecursion(r, W, base, step, m + 1)
  BY <1>1, RecursionExists
<1>3. \A n \in 0 .. m : r[n] \in W /\ r[n + 1] \in W /\ r[n + 1] = B[r[n]]
  BY <1>2 DEF IsRecursion, step
<1>. DEFINE Settled(n) == \A e \in built[n] : r[n][e] = r[n + 1][e]
            S == {n \in 0 .. m : Settled(n)}
<1>4. 0 \in S
  BY DEF IsBuilt
<1>5. ASSUME NEW n \in 0 .. m, n < m, n \in S
      PROVE  n + 1 \in S
  <2>1. n + 1 \in 0 .. m /\ n \in Nat
    BY <1>5
  <2>2. \A x \in built[n] : r[n][x] = r[n + 1][x]
    BY <1>5
  <2>3. built[n + 1] = {e \in E : needs[e] \subseteq built[n]}
    BY <1>5 DEF IsBuilt
  <2>4. r[n] \in W /\ r[n + 1] \in W /\ r[n + 1] = B[r[n]] /\ r[(n + 1) + 1] = B[r[n + 1]]
    BY <1>3, <2>1
  <2>5. ASSUME NEW e \in built[n + 1]
        PROVE  r[n + 1][e] = r[(n + 1) + 1][e]
    <3>1. e \in E /\ \A x \in needs[e] : r[n][x] = r[n + 1][x]
      BY <2>2, <2>3
    <3>2. B[r[n]][e] = B[r[n + 1]][e]
      BY <2>4, <3>1 DEF IsLocal, W
    <3> QED BY <2>4, <3>2
  <2> QED BY <2>1, <2>5
<1>6. m \in S
  <2>. HIDE DEF S
  <2>1. 0 .. m \subseteq S
    BY <1>4, <1>5, SetInductionUpTo
  <2> QED BY <2>1
<1>7. \A e \in E : r[m][e] = r[m + 1][e]
  BY <1>6 DEF IsBuilt
<1>8. r[m] \in W /\ r[m + 1] \in W /\ r[m + 1] = B[r[m]]
  BY <1>3
<1>9. r[m] = r[m + 1]
  BY <1>7, <1>8 DEF W
<1> QED BY <1>8, <1>9 DEF W
=============================================================================
