---------------------------- MODULE FoldTheorems ----------------------------
(***************************************************************************)
(* Induction and recursion in the form the proofs of this project use: a   *)
(* set of numbers, or of sets, takes the place of a predicate.  With it,   *)
(* what the folds of the community modules compute: every lemma about a    *)
(* sum rests on the existence of the function a fold defines by recursion  *)
(* over the subsets of a finite set.  Last, what RemoveFirst leaves.       *)
(***************************************************************************)
EXTENDS FiniteSetsExt, SequencesExt, FiniteSetTheorems, SequenceTheorems, TLAPS

\* A non-empty set of numbers has a least one: the intervals that end in its
\* members are finite sets, and strict inclusion of finite sets is well founded.
LEMMA LeastElement ==
  ASSUME NEW S \in SUBSET Nat, S # {}
  PROVE  \E x \in S : \A y \in S : x <= y
<1> DEFINE U == {1..n : n \in S}
<1>1. U \subseteq FiniteSubsetsOf(Nat)
  BY FS_Interval DEF FiniteSubsetsOf
<1>2. PICK x \in U : \A y \in U : <<y, x>> \notin StrictSubsetOrdering(Nat)
  <2>1. U # {}
    OBVIOUS
  <2> HIDE DEF U
  <2> QED
    BY <1>1, <2>1, FS_StrictSubsetOrderingWellFounded, WFMin
<1>3. PICK n \in S : x = 1..n
  OBVIOUS
<1>4. ASSUME NEW m \in S, m < n PROVE FALSE
  <2>1. 1..m \subseteq x /\ 1..m # x /\ x \in SUBSET Nat /\ 1..m \in SUBSET Nat
    BY <1>3, <1>4
  <2>2. <<1..m, x>> \in StrictSubsetOrdering(Nat)
    BY <2>1 DEF StrictSubsetOrdering
  <2> QED
    BY <1>2, <2>2
<1> QED
  BY <1>4

\* Induction on the natural numbers.
LEMMA SetOfNaturals ==
  ASSUME NEW P \in SUBSET Nat, 0 \in P, \A n \in P : n + 1 \in P
  PROVE  P = Nat
<1>1. SUFFICES ASSUME Nat \ P # {} PROVE FALSE
  OBVIOUS
<1>2. PICK n \in Nat \ P : \A m \in Nat \ P : n <= m
  BY <1>1, LeastElement
<1>3. n - 1 \in Nat /\ n - 1 \in P
  BY <1>2
<1> QED
  BY <1>3

\* The minimum of a set of numbers, and of two.
LEMMA MinIsLeast ==
  ASSUME NEW S \in SUBSET Nat, S # {}
  PROVE  Min(S) \in S /\ \A y \in S : Min(S) <= y
BY LeastElement DEF Min

LEMMA MinOfTwo ==
  ASSUME NEW a \in Nat, NEW b \in Nat
  PROVE  Min({a, b}) = IF a <= b THEN a ELSE b
<1>1. Min({a, b}) \in {a, b} /\ Min({a, b}) <= a /\ Min({a, b}) <= b
  BY MinIsLeast, {a, b} \in SUBSET Nat
<1> QED
  BY <1>1

\* The larger of two numbers.
LEMMA MaxOfTwo ==
  ASSUME NEW a \in Nat, NEW b \in Nat
  PROVE  Max({a, b}) = IF a <= b THEN b ELSE a
<1>1. PICK m : m = IF a <= b THEN b ELSE a
  OBVIOUS
<1>2. m \in {a, b} /\ \A y \in {a, b} : m >= y
  BY <1>1
<1>3. Max({a, b}) \in {a, b} /\ \A y \in {a, b} : Max({a, b}) >= y
  BY <1>2 DEF Max
<1> QED
  BY <1>1, <1>3

\* The largest number of an interval from 1.
LEMMA MaxOfInterval ==
  ASSUME NEW n \in Nat \ {0}
  PROVE  Max(1..n) = n
<1>1. n \in 1..n /\ \A y \in 1..n : n >= y
  OBVIOUS
<1>2. Max(1..n) \in 1..n /\ \A y \in 1..n : Max(1..n) >= y
  BY <1>1 DEF Max
<1> QED
  BY <1>1, <1>2

\* A set of numbers up to n has a largest member.
LEMMA MaxIsGreatest ==
  ASSUME NEW n \in Nat, NEW S \in SUBSET (0..n), S # {}
  PROVE  Max(S) \in S /\ \A y \in S : Max(S) >= y
<1> DEFINE T == {n - y : y \in S}
<1>0. \A y \in S : y \in Int /\ n - y \in Nat
  OBVIOUS
<1>1. T \in SUBSET Nat /\ T # {}
  BY <1>0
<1>2. PICK t \in T : \A u \in T : t <= u
  BY <1>1, LeastElement
<1>3. PICK x \in S : t = n - x
  OBVIOUS
<1>4. \A y \in S : x >= y
  <2> SUFFICES ASSUME NEW y \in S PROVE x >= y
    OBVIOUS
  <2>1. n - x <= n - y
    BY <1>2, <1>3
  <2> QED
    BY <1>0, <2>1
<1> QED
  BY <1>4 DEF Max

\* A function that is iterated up to n times.
LEMMA Iteration ==
  ASSUME NEW n \in Nat, NEW Val, NEW base \in Val, NEW step \in [Val -> Val]
  PROVE  \E f \in [0..n -> Val] : f[0] = base /\ \A k \in 1..n : f[k] = step[f[k - 1]]
<1> DEFINE P == {m \in Nat : \E f \in [0..m -> Val] :
                   f[0] = base /\ \A k \in 1..m : f[k] = step[f[k - 1]]}
<1>1. 0 \in P
  <2> DEFINE f == [k \in 0..0 |-> base]
  <2>1. f \in [0..0 -> Val] /\ f[0] = base /\ \A k \in 1..0 : f[k] = step[f[k - 1]]
    OBVIOUS
  <2> QED
    BY <2>1
<1>2. ASSUME NEW m \in P PROVE m + 1 \in P
  <2>1. PICK f \in [0..m -> Val] : f[0] = base /\ \A k \in 1..m : f[k] = step[f[k - 1]]
    OBVIOUS
  <2>2. m \in Nat
    OBVIOUS
  <2> DEFINE g == [k \in 0..(m + 1) |-> IF k = m + 1 THEN step[f[m]] ELSE f[k]]
  <2>3. \A k \in 0..(m + 1) : k # m + 1 => k \in 0..m
    BY <2>2
  <2>4. step[f[m]] \in Val
    BY <2>2
  <2>5. g \in [0..(m + 1) -> Val]
    BY <2>3, <2>4
  <2>6. g[m + 1] = step[f[m]] /\ \A k \in 0..m : g[k] = f[k]
    BY <2>2
  <2> HIDE DEF g
  <2>7. g[0] = base /\ \A k \in 1..(m + 1) : g[k] = step[g[k - 1]]
    <3>1. g[0] = base
      BY <2>1, <2>2, <2>6
    <3>2. ASSUME NEW k \in 1..(m + 1) PROVE g[k] = step[g[k - 1]]
      <4>1. CASE k = m + 1
        BY <2>2, <2>6, <4>1
      <4>2. CASE k # m + 1
        <5>1. k \in 1..m /\ k \in 0..m /\ k - 1 \in 0..m
          BY <2>2, <4>2
        <5> QED
          BY <2>1, <2>6, <5>1
      <4> QED
        BY <4>1, <4>2
    <3> QED
      BY <3>1, <3>2
  <2> QED
    BY <2>2, <2>5, <2>7
<1>3. P = Nat
  <2>1. P \in SUBSET Nat
    OBVIOUS
  <2> HIDE DEF P
  <2> QED
    BY <1>1, <1>2, <2>1, SetOfNaturals
<1> QED
  BY <1>3

\* Induction on a finite set, one element at a time.
LEMMA SetOfFiniteSets ==
  ASSUME NEW S, IsFiniteSet(S), NEW P, {} \in P,
         \A T \in SUBSET S, x \in S : T \in P /\ x \notin T => T \cup {x} \in P
  PROVE  S \in P
<1> DEFINE Q == {n \in Nat : \A T \in SUBSET S : Cardinality(T) = n => T \in P}
<1>1. \A T \in SUBSET S : IsFiniteSet(T) /\ Cardinality(T) \in Nat
  BY FS_Subset, FS_CardinalityType
<1>2. 0 \in Q
  BY <1>1, FS_EmptySet
<1>3. ASSUME NEW n \in Q PROVE n + 1 \in Q
  <2> SUFFICES ASSUME NEW T \in SUBSET S, Cardinality(T) = n + 1 PROVE T \in P
    OBVIOUS
  <2>1. PICK x \in T : TRUE
    <3>1. n + 1 # 0
      OBVIOUS
    <3> QED
      BY <3>1, FS_EmptySet
  <2>2. Cardinality(T \ {x}) = n
    BY <1>1, FS_RemoveElement
  <2>3. T \ {x} \in P
    BY <2>2
  <2> QED
    BY <2>1, <2>3, T = (T \ {x}) \cup {x}, x \notin T \ {x}, T \ {x} \in SUBSET S
<1>4. Q = Nat
  <2>1. Q \in SUBSET Nat
    OBVIOUS
  <2> HIDE DEF Q
  <2> QED
    BY <1>2, <1>3, <2>1, SetOfNaturals
<1> QED
  BY <1>1, <1>4

-----------------------------------------------------------------------------
(***************************************************************************)
(* A fold over the subsets of S: the value of a set is computed from a     *)
(* picked element and the value of the rest.                               *)
(***************************************************************************)
IsFold(iter, S, base, pick, step) ==
  iter = [s \in SUBSET S |->
            IF s = {} THEN base ELSE step[<<pick[s], iter[s \ {pick[s]}]>>]]

\* Such a function exists: it is extended from the sets of at most n elements to
\* those of n + 1.
LEMMA FoldExists ==
  ASSUME NEW S, IsFiniteSet(S), NEW Val, NEW base \in Val,
         NEW pick, \A s \in SUBSET S : s # {} => pick[s] \in s,
         NEW step \in [S \X Val -> Val]
  PROVE  \E iter \in [SUBSET S -> Val] : IsFold(iter, S, base, pick, step)
<1> DEFINE Upto(n) == {s \in SUBSET S : Cardinality(s) <= n}
           Value(g, s) == IF s = {} THEN base ELSE step[<<pick[s], g[s \ {pick[s]}]>>]
           P == {n \in Nat : \E g \in [Upto(n) -> Val] : \A s \in Upto(n) : g[s] = Value(g, s)}
<1>1. \A s \in SUBSET S : IsFiniteSet(s) /\ Cardinality(s) \in Nat
  BY FS_Subset, FS_CardinalityType
<1>2. \A n \in Nat, s \in SUBSET S : s \in Upto(n + 1) /\ s # {} => s \ {pick[s]} \in Upto(n)
  <2> TAKE n \in Nat, s \in SUBSET S
  <2> HAVE s \in Upto(n + 1) /\ s # {}
  <2>1. Cardinality(s \ {pick[s]}) = Cardinality(s) - 1
    BY <1>1, FS_RemoveElement
  <2> QED
    BY <1>1, <2>1
<1>3. \A n \in Nat : Upto(n) \subseteq Upto(n + 1)
  BY <1>1
<1>4. 0 \in P
  <2> DEFINE g == [s \in Upto(0) |-> base]
  <2>1. \A s \in Upto(0) : s = {}
    BY <1>1, FS_EmptySet
  <2>2. g \in [Upto(0) -> Val] /\ \A s \in Upto(0) : g[s] = Value(g, s)
    BY <2>1
  <2> QED
    BY <2>2
<1>5. ASSUME NEW n \in P PROVE n + 1 \in P
  <2>1. PICK g \in [Upto(n) -> Val] : \A s \in Upto(n) : g[s] = Value(g, s)
    OBVIOUS
  <2> DEFINE h == [s \in Upto(n + 1) |-> Value(g, s)]
  <2>2. n \in Nat
    OBVIOUS
  <2> HIDE DEF Upto
  <2>3. ASSUME NEW s \in Upto(n + 1) PROVE Value(g, s) \in Val
    <3>1. s \in SUBSET S
      BY DEF Upto
    <3>2. s # {} => <<pick[s], g[s \ {pick[s]}]>> \in S \X Val
      BY <1>2, <2>2, <3>1
    <3> QED
      BY <3>2
  <2>4. h \in [Upto(n + 1) -> Val]
    BY <2>3
  <2>5. \A s \in Upto(n) : h[s] = g[s]
    BY <1>3, <2>1, <2>2
  <2>6. ASSUME NEW s \in Upto(n + 1) PROVE h[s] = Value(h, s)
    <3>1. s \in SUBSET S
      BY DEF Upto
    <3>2. s # {} => h[s \ {pick[s]}] = g[s \ {pick[s]}]
      BY <1>2, <2>2, <2>5, <3>1
    <3> QED
      BY <3>2
  <2> HIDE DEF h, Value
  <2>7. \E f \in [Upto(n + 1) -> Val] : \A s \in Upto(n + 1) : f[s] = Value(f, s)
    BY <2>4, <2>6
  <2> QED
    BY <2>2, <2>7
<1>6. P = Nat
  <2>1. P \in SUBSET Nat
    OBVIOUS
  <2> HIDE DEF P
  <2> QED
    BY <1>4, <1>5, <2>1, SetOfNaturals
<1>7. Upto(Cardinality(S)) = SUBSET S
  BY FS_Subset, FS_CardinalityType
<1>8. Cardinality(S) \in P
  BY <1>6, FS_CardinalityType
<1>9. PICK g \in [SUBSET S -> Val] : \A s \in SUBSET S : g[s] = Value(g, s)
  <2> HIDE DEF Upto
  <2> QED BY <1>7, <1>8
<1>10. IsFold(g, S, base, pick, step)
  BY <1>9 DEF IsFold
<1> QED
  BY <1>10

\* On the subsets of T a fold over S is the fold over T.
LEMMA FoldsAgree ==
  ASSUME NEW S, IsFiniteSet(S), NEW T \in SUBSET S, NEW base, NEW step,
         NEW pick, \A s \in SUBSET S : s # {} => pick[s] \in s,
         NEW g, IsFold(g, S, base, pick, step),
         NEW h, IsFold(h, T, base, pick, step)
  PROVE  \A s \in SUBSET T : h[s] = g[s]
<1> DEFINE P == {n \in Nat : \A s \in SUBSET T : Cardinality(s) = n => h[s] = g[s]}
<1>1. \A s \in SUBSET T : IsFiniteSet(s) /\ Cardinality(s) \in Nat
  BY FS_Subset, FS_CardinalityType
<1>2. \A s \in SUBSET T : h[s] = IF s = {} THEN base ELSE step[<<pick[s], h[s \ {pick[s]}]>>]
  BY DEF IsFold
<1>3. \A s \in SUBSET T : g[s] = IF s = {} THEN base ELSE step[<<pick[s], g[s \ {pick[s]}]>>]
  BY DEF IsFold
<1>4. 0 \in P
  BY <1>1, <1>2, <1>3, FS_EmptySet
<1>5. ASSUME NEW n \in P PROVE n + 1 \in P
  <2> SUFFICES ASSUME NEW s \in SUBSET T, Cardinality(s) = n + 1 PROVE h[s] = g[s]
    OBVIOUS
  <2>1. s # {} /\ pick[s] \in s
    <3>1. n + 1 # 0
      OBVIOUS
    <3> QED
      BY <3>1, FS_EmptySet
  <2>2. Cardinality(s \ {pick[s]}) = n
    BY <1>1, <2>1, FS_RemoveElement
  <2>3. h[s \ {pick[s]}] = g[s \ {pick[s]}]
    BY <2>2
  <2> QED
    BY <1>2, <1>3, <2>1, <2>3
<1>6. P = Nat
  <2>1. P \in SUBSET Nat
    OBVIOUS
  <2> HIDE DEF P
  <2> QED
    BY <1>4, <1>5, <2>1, SetOfNaturals
<1> QED
  BY <1>1, <1>6

-----------------------------------------------------------------------------
(***************************************************************************)
(* Sums.  SumFunctionOnSet(f, S) adds f[x] for the members x of S.         *)
(***************************************************************************)
SumPick(S) == [s \in SUBSET S |-> CHOOSE x \in s : TRUE]
SumStep(f, S) == [p \in S \X Int |-> f[p[1]] + p[2]]

\* One function computes the sums over all subsets of S.
LEMMA SumIsFold ==
  ASSUME NEW S, IsFiniteSet(S), NEW f, \A x \in S : f[x] \in Int
  PROVE  \E iter \in [SUBSET S -> Int] :
           /\ IsFold(iter, S, 0, SumPick(S), SumStep(f, S))
           /\ SumFunctionOnSet(f, S) = iter[S]
<1> DEFINE Sums(iter) == iter = [s \in SUBSET S |->
             IF s = {} THEN 0 ELSE f[CHOOSE x \in s : TRUE] + iter[s \ {CHOOSE x \in s : TRUE}]]
           it == CHOOSE iter : Sums(iter)
<1>1. SumFunctionOnSet(f, S) = it[S]
  BY DEF SumFunctionOnSet, FoldFunctionOnSet, MapThenFoldSet
<1>2. \A s \in SUBSET S : s # {} => SumPick(S)[s] \in s
  BY DEF SumPick
<1>3. SumStep(f, S) \in [S \X Int -> Int]
  BY DEF SumStep
<1>4. \A iter \in [SUBSET S -> Int] : IsFold(iter, S, 0, SumPick(S), SumStep(f, S)) => Sums(iter)
  <2> SUFFICES ASSUME NEW iter \in [SUBSET S -> Int],
                      IsFold(iter, S, 0, SumPick(S), SumStep(f, S))
               PROVE  Sums(iter)
    OBVIOUS
  <2>1. ASSUME NEW s \in SUBSET S, s # {}
        PROVE  SumStep(f, S)[<<SumPick(S)[s], iter[s \ {SumPick(S)[s]}]>>]
                 = f[CHOOSE x \in s : TRUE] + iter[s \ {CHOOSE x \in s : TRUE}]
    <3>1. SumPick(S)[s] = CHOOSE x \in s : TRUE
      BY DEF SumPick
    <3>2. SumPick(S)[s] \in S /\ iter[s \ {SumPick(S)[s]}] \in Int
      BY <1>2, <2>1
    <3> QED
      BY <3>1, <3>2 DEF SumStep
  <2> QED
    BY <2>1 DEF IsFold
<1>5. Sums(it)
  <2>1. PICK iter \in [SUBSET S -> Int] : IsFold(iter, S, 0, SumPick(S), SumStep(f, S))
    BY <1>2, <1>3, FoldExists, 0 \in Int
  <2>2. Sums(iter)
    BY <1>4, <2>1
  <2> HIDE DEF Sums
  <2> QED
    BY <2>2
<1>6. \A s \in SUBSET S : it[s] = IF s = {} THEN 0
        ELSE f[CHOOSE x \in s : TRUE] + it[s \ {CHOOSE x \in s : TRUE}]
  <2> HIDE DEF it
  <2> QED
    BY <1>5
<1>7. \A s \in SUBSET S : it[s] \in Int
  <2> HIDE DEF it
  <2> DEFINE P == {n \in Nat : \A s \in SUBSET S : Cardinality(s) = n => it[s] \in Int}
  <2>1. \A s \in SUBSET S : IsFiniteSet(s) /\ Cardinality(s) \in Nat
    BY FS_Subset, FS_CardinalityType
  <2>2. 0 \in P
    BY <1>6, <2>1, FS_EmptySet, SMTT(60)
  <2>3. ASSUME NEW n \in P PROVE n + 1 \in P
    <3> SUFFICES ASSUME NEW s \in SUBSET S, Cardinality(s) = n + 1 PROVE it[s] \in Int
      OBVIOUS
    <3> PICK y : y = CHOOSE x \in s : TRUE
      OBVIOUS
    <3>1. s # {}
      <4>1. n + 1 # 0
        OBVIOUS
      <4> QED
        BY <4>1, FS_EmptySet
    <3>2. y \in s /\ y \in S
      BY <3>1
    <3>3. it[s] = f[y] + it[s \ {y}]
      BY <1>6, <3>1
    <3>4. Cardinality(s \ {y}) = n
      <4>1. n \in Nat /\ IsFiniteSet(s) /\ Cardinality(s) \in Nat
        BY <2>1
      <4>2. Cardinality(s \ {y}) = Cardinality(s) - 1
        BY <3>2, <4>1, FS_RemoveElement
      <4> QED
        BY <4>1, <4>2
    <3>5. it[s \ {y}] \in Int
      BY <3>4
    <3> QED
      BY <3>2, <3>3, <3>5
  <2>4. P = Nat
    <3>1. P \in SUBSET Nat
      OBVIOUS
    <3> HIDE DEF P
    <3> QED
      BY <2>2, <2>3, <3>1, SetOfNaturals
  <2> QED
    BY <2>1, <2>4
<1>8. it \in [SUBSET S -> Int]
  <2>1. it = [s \in SUBSET S |-> it[s]]
    <3> HIDE DEF it
    <3> QED
      BY <1>5
  <2> HIDE DEF it
  <2> QED
    BY <1>7, <2>1
<1>9. IsFold(it, S, 0, SumPick(S), SumStep(f, S))
  <2> HIDE DEF it
  <2>1. ASSUME NEW s \in SUBSET S, s # {}
        PROVE  SumStep(f, S)[<<SumPick(S)[s], it[s \ {SumPick(S)[s]}]>>]
                 = f[CHOOSE x \in s : TRUE] + it[s \ {CHOOSE x \in s : TRUE}]
    <3>1. SumPick(S)[s] = CHOOSE x \in s : TRUE
      BY DEF SumPick
    <3>2. SumPick(S)[s] \in S /\ it[s \ {SumPick(S)[s]}] \in Int
      BY <1>2, <1>7, <2>1
    <3> QED
      BY <3>1, <3>2 DEF SumStep
  <2> QED
    BY <1>5, <2>1, ZenonT(60) DEF IsFold
<1> QED
  BY <1>1, <1>8, <1>9

\* The sum over the empty set.
LEMMA SumEmpty ==
  ASSUME NEW f
  PROVE  SumFunctionOnSet(f, {}) = 0
<1>1. PICK iter \in [SUBSET {} -> Int] :
        /\ IsFold(iter, {}, 0, SumPick({}), SumStep(f, {}))
        /\ SumFunctionOnSet(f, {}) = iter[{}]
  BY FS_EmptySet, SumIsFold
<1> QED
  BY <1>1 DEF IsFold

\* A sum of integers is an integer.
LEMMA SumType ==
  ASSUME NEW S, IsFiniteSet(S), NEW f, \A x \in S : f[x] \in Int
  PROVE  SumFunctionOnSet(f, S) \in Int
<1>1. PICK iter \in [SUBSET S -> Int] : SumFunctionOnSet(f, S) = iter[S]
  BY SumIsFold
<1> QED
  BY <1>1

\* The sum is that of the element the fold picks and of the rest.
LEMMA SumPicked ==
  ASSUME NEW S, IsFiniteSet(S), S # {}, NEW f, \A x \in S : f[x] \in Int
  PROVE  \E c \in S : SumFunctionOnSet(f, S) = f[c] + SumFunctionOnSet(f, S \ {c})
<1>1. PICK g \in [SUBSET S -> Int] :
        /\ IsFold(g, S, 0, SumPick(S), SumStep(f, S))
        /\ SumFunctionOnSet(f, S) = g[S]
  BY SumIsFold
<1> DEFINE c == SumPick(S)[S]
           T == S \ {c}
<1>2. c \in S /\ \A s \in SUBSET S : s # {} => SumPick(S)[s] \in s
  BY DEF SumPick
<1>3. IsFiniteSet(T)
  BY FS_Subset
<1>4. PICK h \in [SUBSET T -> Int] :
        /\ IsFold(h, T, 0, SumPick(T), SumStep(f, T))
        /\ SumFunctionOnSet(f, T) = h[T]
  BY <1>3, SumIsFold
<1>5. IsFold(h, T, 0, SumPick(S), SumStep(f, S))
  <2>1. ASSUME NEW s \in SUBSET T, s # {}
        PROVE  SumStep(f, T)[<<SumPick(T)[s], h[s \ {SumPick(T)[s]}]>>]
                 = SumStep(f, S)[<<SumPick(S)[s], h[s \ {SumPick(S)[s]}]>>]
    <3>1. SumPick(T)[s] = SumPick(S)[s] /\ SumPick(S)[s] \in T
      BY <1>2, <2>1 DEF SumPick
    <3>2. h[s \ {SumPick(S)[s]}] \in Int
      OBVIOUS
    <3> QED
      BY <3>1, <3>2 DEF SumStep
  <2> QED
    BY <1>4, <2>1 DEF IsFold
<1>6. h[T] = g[T]
  BY <1>1, <1>2, <1>5, FoldsAgree, T \in SUBSET S, T \in SUBSET T
<1>7. g[S] = f[c] + g[T]
  BY <1>1, <1>2 DEF IsFold, SumStep
<1> QED
  BY <1>1, <1>2, <1>4, <1>6, <1>7

\* Any member may be added last.
LEMMA SumRemove ==
  ASSUME NEW S, IsFiniteSet(S), NEW f, \A x \in S : f[x] \in Int, NEW x \in S
  PROVE  SumFunctionOnSet(f, S) = f[x] + SumFunctionOnSet(f, S \ {x})
<1> DEFINE Sum(T) == SumFunctionOnSet(f, T)
           P == {n \in Nat : \A T \in SUBSET S : Cardinality(T) = n =>
                               \A y \in T : Sum(T) = f[y] + Sum(T \ {y})}
<1>1. \A T \in SUBSET S : IsFiniteSet(T) /\ Cardinality(T) \in Nat
  BY FS_Subset, FS_CardinalityType
<1>2. \A T \in SUBSET S : Sum(T) \in Int
  BY <1>1, SumType
<1>3. \A T \in SUBSET S : T # {} => \E c \in T : Sum(T) = f[c] + Sum(T \ {c})
  BY <1>1, SumPicked
<1> HIDE DEF Sum
<1>4. 0 \in P
  BY <1>1, FS_EmptySet
<1>5. ASSUME NEW n \in P PROVE n + 1 \in P
  <2> SUFFICES ASSUME NEW T \in SUBSET S, Cardinality(T) = n + 1, NEW y \in T
               PROVE  Sum(T) = f[y] + Sum(T \ {y})
    OBVIOUS
  <2>1. PICK c \in T : Sum(T) = f[c] + Sum(T \ {c})
    BY <1>3
  <2>2. CASE c = y
    BY <2>1, <2>2
  <2>3. CASE c # y
    <3>1. \A z \in T : Cardinality(T \ {z}) = n
      <4>1. n \in Nat /\ IsFiniteSet(T) /\ Cardinality(T) \in Nat
        BY <1>1
      <4>2. \A z \in T : Cardinality(T \ {z}) = Cardinality(T) - 1
        BY <4>1, FS_RemoveElement
      <4> QED
        BY <4>1, <4>2
    <3>2. PICK r \in Int : r = Sum((T \ {y}) \ {c})
      BY <1>2
    <3>3. Sum(T \ {c}) = f[y] + r
      <4>1. (T \ {c}) \ {y} = (T \ {y}) \ {c}
        OBVIOUS
      <4> QED
        BY <2>3, <3>1, <3>2, <4>1
    <3>4. Sum(T \ {y}) = f[c] + r
      BY <2>3, <3>1, <3>2
    <3>5. f[c] \in Int /\ f[y] \in Int
      OBVIOUS
    <3> HIDE DEF P
    <3> QED
      BY <2>1, <3>3, <3>4, <3>5
  <2> QED
    BY <2>2, <2>3
<1>6. P = Nat
  <2>1. P \in SUBSET Nat
    OBVIOUS
  <2> HIDE DEF P
  <2> QED
    BY <1>4, <1>5, <2>1, SetOfNaturals
<1>7. Sum(S) = f[x] + Sum(S \ {x})
  BY <1>1, <1>6
<1> QED
  BY <1>7 DEF Sum

\* Equal summands give equal sums.
LEMMA SumEqual ==
  ASSUME NEW S, IsFiniteSet(S), NEW f, NEW g, \A x \in S : f[x] \in Int /\ g[x] = f[x]
  PROVE  SumFunctionOnSet(g, S) = SumFunctionOnSet(f, S)
<1> DEFINE F(T) == SumFunctionOnSet(f, T)
           G(T) == SumFunctionOnSet(g, T)
           P == {T \in SUBSET S : G(T) = F(T)}
<1>1. {} \in P
  BY SumEmpty
<1>2. ASSUME NEW T \in SUBSET S, NEW x \in S, T \in P, x \notin T PROVE T \cup {x} \in P
  <2>1. IsFiniteSet(T \cup {x}) /\ x \in T \cup {x} /\ (T \cup {x}) \ {x} = T
    BY <1>2, FS_Subset
  <2>2. F(T \cup {x}) = f[x] + F((T \cup {x}) \ {x}) /\ G(T \cup {x}) = g[x] + G((T \cup {x}) \ {x})
    BY <2>1, SumRemove
  <2> HIDE DEF F, G
  <2> QED
    BY <1>2, <2>1, <2>2
<1>3. S \in P
  <2> HIDE DEF P
  <2> QED
    BY <1>1, <1>2, SetOfFiniteSets
<1> QED
  BY <1>3

\* A sum follows the change of one summand.
LEMMA SumUpdate ==
  ASSUME NEW S, IsFiniteSet(S), NEW f, NEW g, NEW x \in S,
         \A y \in S : f[y] \in Int, g[x] \in Int, \A y \in S \ {x} : g[y] = f[y]
  PROVE  SumFunctionOnSet(g, S) = SumFunctionOnSet(f, S) - f[x] + g[x]
<1>1. IsFiniteSet(S \ {x})
  BY FS_Subset
<1>2. SumFunctionOnSet(g, S \ {x}) = SumFunctionOnSet(f, S \ {x})
  BY <1>1, SumEqual
<1>3. SumFunctionOnSet(f, S \ {x}) \in Int
  BY <1>1, SumType
<1>4. /\ SumFunctionOnSet(f, S) = f[x] + SumFunctionOnSet(f, S \ {x})
      /\ SumFunctionOnSet(g, S) = g[x] + SumFunctionOnSet(g, S \ {x})
  BY SumRemove
<1> QED
  BY <1>2, <1>3, <1>4

\* A sum of naturals is at least each of its summands.
LEMMA SumBound ==
  ASSUME NEW S, IsFiniteSet(S), NEW f, \A x \in S : f[x] \in Nat
  PROVE  /\ SumFunctionOnSet(f, S) \in Nat
         /\ \A x \in S : f[x] <= SumFunctionOnSet(f, S)
<1> DEFINE F(T) == SumFunctionOnSet(f, T)
           P == {T \in SUBSET S : F(T) \in Nat}
<1>1. {} \in P
  BY SumEmpty
<1>2. ASSUME NEW T \in SUBSET S, NEW x \in S, T \in P, x \notin T PROVE T \cup {x} \in P
  <2>1. IsFiniteSet(T \cup {x}) /\ x \in T \cup {x} /\ (T \cup {x}) \ {x} = T
    BY <1>2, FS_Subset
  <2>2. F(T \cup {x}) = f[x] + F((T \cup {x}) \ {x})
    BY <2>1, SumRemove
  <2> HIDE DEF F
  <2>3. F(T) \in Nat /\ f[x] \in Nat
    BY <1>2
  <2>4. F(T \cup {x}) \in Nat
    BY <2>1, <2>2, <2>3
  <2> QED
    BY <2>4
<1>3. \A T \in SUBSET S : F(T) \in Nat
  <2> SUFFICES ASSUME NEW T \in SUBSET S PROVE T \in P
    OBVIOUS
  <2>1. IsFiniteSet(T)
    BY FS_Subset
  <2>2. \A U \in SUBSET T, x \in T : U \in P /\ x \notin U => U \cup {x} \in P
    BY <1>2
  <2> HIDE DEF P
  <2> QED
    BY <1>1, <2>1, <2>2, SetOfFiniteSets
<1>4. ASSUME NEW x \in S PROVE f[x] <= F(S)
  <2>1. F(S) = f[x] + F(S \ {x})
    BY SumRemove
  <2> HIDE DEF F
  <2> QED
    BY <1>3, <2>1
<1> QED
  BY <1>3, <1>4

\* The sum of a set with one more member.
LEMMA SumInsert ==
  ASSUME NEW T, IsFiniteSet(T), NEW x, x \notin T, NEW f, \A y \in T \cup {x} : f[y] \in Int
  PROVE  /\ SumFunctionOnSet(f, T \cup {x}) = SumFunctionOnSet(f, T) + f[x]
         /\ SumFunctionOnSet(f, T) \in Int /\ SumFunctionOnSet(f, T \cup {x}) \in Int
<1>1. PICK S : S = T \cup {x}
  OBVIOUS
<1>2. IsFiniteSet(S) /\ x \in S /\ S \ {x} = T /\ \A y \in S : f[y] \in Int
  BY <1>1, FS_AddElement
<1>3. SumFunctionOnSet(f, S) = f[x] + SumFunctionOnSet(f, T)
  BY <1>2, SumRemove
<1>4. SumFunctionOnSet(f, T) \in Int /\ SumFunctionOnSet(f, S) \in Int
  BY <1>2, SumType
<1> QED
  BY <1>1, <1>2, <1>3, <1>4

\* The sum of two functions is the sum of their sums.
LEMMA SumAdd ==
  ASSUME NEW S, IsFiniteSet(S), NEW f, NEW g, NEW h,
         \A x \in S : f[x] \in Int /\ g[x] \in Int /\ h[x] = f[x] + g[x]
  PROVE  SumFunctionOnSet(h, S) = SumFunctionOnSet(f, S) + SumFunctionOnSet(g, S)
<1> DEFINE F(T) == SumFunctionOnSet(f, T)
           G(T) == SumFunctionOnSet(g, T)
           H(T) == SumFunctionOnSet(h, T)
           P == {T \in SUBSET S : H(T) = F(T) + G(T)}
<1>1. {} \in P
  BY SumEmpty
<1>2. ASSUME NEW T \in SUBSET S, NEW x \in S, T \in P, x \notin T PROVE T \cup {x} \in P
  <2>1. IsFiniteSet(T) /\ (\A y \in T \cup {x} : f[y] \in Int /\ g[y] \in Int /\ h[y] \in Int)
    BY <1>2, FS_Subset
  <2>2. /\ F(T \cup {x}) = F(T) + f[x] /\ F(T) \in Int
        /\ G(T \cup {x}) = G(T) + g[x] /\ G(T) \in Int
        /\ H(T \cup {x}) = H(T) + h[x] /\ H(T) \in Int
    BY <1>2, <2>1, SumInsert
  <2>3. h[x] = f[x] + g[x] /\ f[x] \in Int /\ g[x] \in Int /\ H(T) = F(T) + G(T)
    BY <1>2
  <2>4. T \cup {x} \in SUBSET S
    OBVIOUS
  <2> HIDE DEF F, G, H
  <2> QED
    BY <2>2, <2>3, <2>4
<1>3. S \in P
  <2> HIDE DEF P
  <2> QED
    BY <1>1, <1>2, SetOfFiniteSets
<1> QED
  BY <1>3

\* The sum over two disjoint sets is the sum of their sums.
LEMMA SumUnion ==
  ASSUME NEW S, IsFiniteSet(S), NEW R, IsFiniteSet(R), R \cap S = {},
         NEW f, \A x \in R \cup S : f[x] \in Int
  PROVE  SumFunctionOnSet(f, R \cup S) = SumFunctionOnSet(f, R) + SumFunctionOnSet(f, S)
<1> DEFINE F(T) == SumFunctionOnSet(f, T)
           P == {T \in SUBSET S : F(R \cup T) = F(R) + F(T)}
<1>1. {} \in P
  <2>1. F({}) = 0 /\ R \cup {} = R /\ F(R) \in Int
    BY SumEmpty, SumType
  <2> HIDE DEF F
  <2> QED
    BY <2>1
<1>2. ASSUME NEW T \in SUBSET S, NEW x \in S, T \in P, x \notin T PROVE T \cup {x} \in P
  <2>1. IsFiniteSet(T) /\ IsFiniteSet(R \cup T) /\ R \cup (T \cup {x}) = (R \cup T) \cup {x}
        /\ x \notin R \cup T /\ \A y \in (R \cup T) \cup {x} : f[y] \in Int
    BY <1>2, FS_Subset, FS_Union
  <2>2. /\ F(T \cup {x}) = F(T) + f[x] /\ F(T) \in Int
        /\ F((R \cup T) \cup {x}) = F(R \cup T) + f[x]
    BY <1>2, <2>1, SumInsert
  <2>3. F(R) \in Int /\ f[x] \in Int
    BY SumType
  <2>4. F(R \cup T) = F(R) + F(T) /\ T \cup {x} \in SUBSET S
    BY <1>2
  <2>5. F(R \cup (T \cup {x})) = F(R) + F(T \cup {x})
    <3>1. PICK U, W : U = (R \cup T) \cup {x} /\ W = T \cup {x}
      OBVIOUS
    <3>2. F(U) = F(R \cup T) + f[x] /\ F(W) = F(T) + f[x]
      BY <2>2, <3>1
    <3>3. F(U) = F(R) + F(W)
      <4> HIDE DEF F
      <4> QED
        BY <2>2, <2>3, <2>4, <3>2
    <3> QED
      BY <2>1, <3>1, <3>3
  <2> QED
    BY <2>4, <2>5
<1>3. S \in P
  <2> HIDE DEF P
  <2> QED
    BY <1>1, <1>2, SetOfFiniteSets
<1> QED
  BY <1>3

\* The sum of a constant is a product.
LEMMA SumConstant ==
  ASSUME NEW S, IsFiniteSet(S), NEW c \in Int, NEW f, \A x \in S : f[x] = c
  PROVE  SumFunctionOnSet(f, S) = c * Cardinality(S)
<1> DEFINE F(T) == SumFunctionOnSet(f, T)
           P == {T \in SUBSET S : F(T) = c * Cardinality(T)}
<1>1. {} \in P
  BY SumEmpty, FS_EmptySet
<1>2. ASSUME NEW T \in SUBSET S, NEW x \in S, T \in P, x \notin T PROVE T \cup {x} \in P
  <2>1. IsFiniteSet(T) /\ \A y \in T \cup {x} : f[y] \in Int
    BY <1>2, FS_Subset
  <2>2. F(T \cup {x}) = F(T) + f[x] /\ f[x] = c
    BY <1>2, <2>1, SumInsert
  <2>3. Cardinality(T) \in Nat /\ Cardinality(T \cup {x}) = Cardinality(T) + 1
    BY <1>2, <2>1, FS_AddElement, FS_CardinalityType
  <2>4. \A n \in Nat : c * (n + 1) = c * n + c
    OBVIOUS
  <2>5. F(T) = c * Cardinality(T) /\ T \cup {x} \in SUBSET S
    BY <1>2
  <2> HIDE DEF F
  <2> QED
    BY <2>2, <2>3, <2>4, <2>5
<1>3. S \in P
  <2> HIDE DEF P
  <2> QED
    BY <1>1, <1>2, SetOfFiniteSets
<1> QED
  BY <1>3

\* Parts of c in proportion to f, rounded down, are not more than c for all.
LEMMA SumScaled ==
  ASSUME NEW S, IsFiniteSet(S), NEW c \in Nat, NEW d \in Nat, NEW f, NEW q,
         \A x \in S : f[x] \in Int /\ q[x] \in Int /\ d * q[x] <= c * f[x]
  PROVE  d * SumFunctionOnSet(q, S) <= c * SumFunctionOnSet(f, S)
<1> DEFINE F(T) == SumFunctionOnSet(f, T)
           Q(T) == SumFunctionOnSet(q, T)
           P == {T \in SUBSET S : d * Q(T) <= c * F(T)}
<1>1. {} \in P
  BY SumEmpty
<1>2. ASSUME NEW T \in SUBSET S, NEW x \in S, T \in P, x \notin T PROVE T \cup {x} \in P
  <2>1. IsFiniteSet(T) /\ \A y \in T \cup {x} : f[y] \in Int /\ q[y] \in Int
    BY <1>2, FS_Subset
  <2>2. /\ F(T \cup {x}) = F(T) + f[x] /\ F(T) \in Int
        /\ Q(T \cup {x}) = Q(T) + q[x] /\ Q(T) \in Int
    BY <1>2, <2>1, SumInsert
  <2>3. d * Q(T) <= c * F(T) /\ d * q[x] <= c * f[x] /\ T \cup {x} \in SUBSET S
    BY <1>2
  <2>4. \A a, b \in Int : d * (a + b) = d * a + d * b /\ c * (a + b) = c * a + c * b
    OBVIOUS
  <2>5. \A a \in Int : d * a \in Int /\ c * a \in Int
    OBVIOUS
  <2>6. d * Q(T \cup {x}) = d * Q(T) + d * q[x] /\ c * F(T \cup {x}) = c * F(T) + c * f[x]
    <3> HIDE DEF F, Q
    <3> QED
      BY <2>1, <2>2, <2>4
  <2>7. d * Q(T \cup {x}) <= c * F(T \cup {x})
    <3>1. PICK m1, m2, m3, m4 \in Int : m1 = d * Q(T) /\ m2 = d * q[x] /\ m3 = c * F(T) /\ m4 = c * f[x]
      <4> HIDE DEF F, Q
      <4> QED
        BY <2>1, <2>2, <2>5
    <3>2. m1 + m2 <= m3 + m4
      BY <2>3, <3>1
    <3> QED
      BY <2>6, <3>1, <3>2
  <2> QED
    BY <2>3, <2>7
<1>3. S \in P
  <2> HIDE DEF P
  <2> QED
    BY <1>1, <1>2, SetOfFiniteSets
<1> QED
  BY <1>3

\* A sum with multiples of a number added to the summands.
LEMMA SumLinear ==
  ASSUME NEW S, IsFiniteSet(S), NEW c \in Int, NEW f, NEW g, NEW h,
         \A x \in S : f[x] \in Int /\ g[x] \in Int /\ h[x] = f[x] + g[x] * c
  PROVE  SumFunctionOnSet(h, S) = SumFunctionOnSet(f, S) + SumFunctionOnSet(g, S) * c
<1> DEFINE F(T) == SumFunctionOnSet(f, T)
           G(T) == SumFunctionOnSet(g, T)
           H(T) == SumFunctionOnSet(h, T)
           P == {T \in SUBSET S : H(T) = F(T) + G(T) * c}
<1>1. {} \in P
  BY SumEmpty
<1>2. ASSUME NEW T \in SUBSET S, NEW x \in S, T \in P, x \notin T PROVE T \cup {x} \in P
  <2>1. IsFiniteSet(T) /\ (\A y \in T \cup {x} : f[y] \in Int /\ g[y] \in Int /\ h[y] \in Int)
    BY <1>2, FS_Subset
  <2>2. /\ F(T \cup {x}) = F(T) + f[x] /\ F(T) \in Int
        /\ G(T \cup {x}) = G(T) + g[x] /\ G(T) \in Int
        /\ H(T \cup {x}) = H(T) + h[x] /\ H(T) \in Int
    BY <1>2, <2>1, SumInsert
  <2>3. /\ h[x] = f[x] + g[x] * c /\ f[x] \in Int /\ g[x] \in Int /\ H(T) = F(T) + G(T) * c
        /\ T \cup {x} \in SUBSET S
    BY <1>2
  <2>4. \A a, b \in Int : (a + b) * c = a * c + b * c /\ a * c \in Int
    OBVIOUS
  <2> HIDE DEF F, G, H
  <2>5. PICK a, b \in Int : a = G(T) * c /\ b = g[x] * c /\ (G(T) + g[x]) * c = a + b
    BY <2>2, <2>3, <2>4
  <2>6. H(T \cup {x}) = F(T \cup {x}) + G(T \cup {x}) * c
    BY <2>2, <2>3, <2>5
  <2> QED
    BY <2>3, <2>6
<1>3. S \in P
  <2> HIDE DEF P
  <2> QED
    BY <1>1, <1>2, SetOfFiniteSets
<1> QED
  BY <1>3

\* Where only the summands of D grow, by c at most, the sum grows by c for each
\* of them at most.
LEMMA SumLeak ==
  ASSUME NEW S, IsFiniteSet(S), NEW D \in SUBSET S, NEW c \in Nat, NEW f, NEW h,
         \A x \in S : f[x] \in Int /\ h[x] \in Int,
         \A x \in S \ D : h[x] <= f[x],
         \A x \in D : h[x] <= f[x] + c
  PROVE  SumFunctionOnSet(h, S) <= SumFunctionOnSet(f, S) + c * Cardinality(D)
<1> DEFINE e == [x \in S |-> IF x \in D THEN c ELSE 0]
           m == [x \in S |-> f[x] + e[x]]
           n == Cardinality(D)
<1>1. /\ IsFiniteSet(D) /\ IsFiniteSet(S \ D) /\ D \cup (S \ D) = S /\ (S \ D) \cap D = {}
      /\ n \in Nat /\ Cardinality(S \ D) \in Nat
  BY FS_Subset, FS_CardinalityType
<1>2. \A x \in S : /\ e[x] \in Int /\ m[x] \in Int /\ m[x] = f[x] + e[x]
                   /\ 1 * h[x] <= 1 * m[x]
  OBVIOUS
<1>3. (\A x \in D : e[x] = c) /\ (\A x \in S \ D : e[x] = 0)
  OBVIOUS
<1> HIDE DEF e, m, n
<1>4. SumFunctionOnSet(m, S) = SumFunctionOnSet(f, S) + SumFunctionOnSet(e, S)
  BY <1>2, SumAdd
<1>5. 1 * SumFunctionOnSet(h, S) <= 1 * SumFunctionOnSet(m, S)
  BY <1>2, SumScaled
<1>6. SumFunctionOnSet(e, S) = c * n
  <2>1. SumFunctionOnSet(e, D) = c * Cardinality(D)
    BY <1>1, <1>3, SumConstant
  <2>2. SumFunctionOnSet(e, S \ D) = 0 * Cardinality(S \ D)
    BY <1>1, <1>3, SumConstant
  <2>3. PICK U : U = S \ D
    OBVIOUS
  <2>4. SumFunctionOnSet(e, D \cup U) = SumFunctionOnSet(e, D) + SumFunctionOnSet(e, U)
    <3>1. \A x \in D \cup U : e[x] \in Int
      BY <1>2, <2>3
    <3> QED
      BY <1>1, <2>3, <3>1, SumUnion
  <2>5. PICK a \in Int : a = c * n
    BY <1>1
  <2>6. SumFunctionOnSet(e, D) = a /\ SumFunctionOnSet(e, U) = 0
    BY <1>1, <2>1, <2>2, <2>3, <2>5 DEF n
  <2>7. SumFunctionOnSet(e, D \cup U) = a
    BY <2>4, <2>6
  <2>8. D \cup U = S
    BY <1>1, <2>3
  <2> QED
    BY <2>5, <2>7, <2>8, Zenon
<1>7. SumFunctionOnSet(h, S) \in Int /\ SumFunctionOnSet(f, S) \in Int /\ SumFunctionOnSet(m, S) \in Int
  BY <1>2, SumType
<1> QED
  BY <1>4, <1>5, <1>6, <1>7 DEF n

Fiber(S, p, v) == {x \in S : p[x] = v}

\* Every member of a set counted at one value of p: the sums over the fibers
\* of p add up to the sum over the set.
LEMMA SumFibers ==
  ASSUME NEW V, IsFiniteSet(V), NEW S, IsFiniteSet(S), NEW p, \A x \in S : p[x] \in V,
         NEW f, \A x \in S : f[x] \in Int,
         NEW g, \A v \in V : g[v] = SumFunctionOnSet(f, Fiber(S, p, v))
  PROVE  SumFunctionOnSet(g, V) = SumFunctionOnSet(f, S)
<1> DEFINE Part(W) == {x \in S : p[x] \in W}
           P == {W \in SUBSET V : SumFunctionOnSet(g, W) = SumFunctionOnSet(f, Part(W))}
<1>1. {} \in P
  <2>1. Part({}) = {}
    OBVIOUS
  <2> QED
    BY <2>1, SumEmpty
<1>2. ASSUME NEW W \in SUBSET V, NEW v \in V, W \in P, v \notin W PROVE W \cup {v} \in P
  <2>1. PICK A, B : A = Part(W) /\ B = Fiber(S, p, v)
    OBVIOUS
  <2>2. IsFiniteSet(A) /\ IsFiniteSet(B) /\ A \cap B = {} /\ Part(W \cup {v}) = A \cup B
        /\ \A x \in A \cup B : f[x] \in Int
    BY <1>2, <2>1, FS_Subset DEF Fiber
  <2>3. SumFunctionOnSet(f, A \cup B) = SumFunctionOnSet(f, A) + SumFunctionOnSet(f, B)
    BY <2>2, SumUnion
  <2>4. IsFiniteSet(W) /\ \A w \in W \cup {v} : g[w] \in Int
    <3>1. \A w \in V : IsFiniteSet(Fiber(S, p, w))
      BY FS_Subset DEF Fiber
    <3>2. ASSUME NEW w \in V PROVE g[w] \in Int
      <4>1. PICK C : C = Fiber(S, p, w)
        OBVIOUS
      <4>2. IsFiniteSet(C) /\ \A x \in C : f[x] \in Int
        BY <3>1, <4>1 DEF Fiber
      <4>3. SumFunctionOnSet(f, C) \in Int
        BY <4>2, SumType
      <4> QED
        BY <4>1, <4>3
    <3> QED
      BY <3>2, FS_Subset
  <2>5. SumFunctionOnSet(g, W \cup {v}) = SumFunctionOnSet(g, W) + g[v]
    BY <1>2, <2>4, SumInsert
  <2>6. SumFunctionOnSet(g, W) = SumFunctionOnSet(f, A) /\ g[v] = SumFunctionOnSet(f, B)
    BY <1>2, <2>1
  <2> QED
    BY <2>2, <2>3, <2>5, <2>6
<1>3. V \in P
  <2> HIDE DEF P
  <2> QED
    BY <1>1, <1>2, SetOfFiniteSets
<1>4. Part(V) = S
  OBVIOUS
<1> QED
  BY <1>3, <1>4

-----------------------------------------------------------------------------
\* Removing the first e from a sequence leaves it as it is, or moves the elements
\* behind the first e one place to the front.
LEMMA RemoveFirstShape ==
  ASSUME NEW S, NEW q \in Seq(S), NEW e
  PROVE  \/ RemoveFirst(q, e) = q /\ \A i \in 1..Len(q) : q[i] # e
         \/ \E k \in 1..Len(q) :
              /\ q[k] = e
              /\ RemoveFirst(q, e) \in Seq(S)
              /\ Len(RemoveFirst(q, e)) = Len(q) - 1
              /\ \A i \in 1..(Len(q) - 1) :
                   RemoveFirst(q, e)[i] = q[IF i < k THEN i ELSE i + 1]
<1>1. CASE ~\E i \in 1..Len(q) : q[i] = e
  BY <1>1 DEF RemoveFirst
<1>2. CASE \E i \in 1..Len(q) : q[i] = e
  <2> DEFINE I == {i \in 1..Len(q) : q[i] = e}
             n == Len(q)
  <2>1. n \in Nat /\ DOMAIN q = 1..n
    OBVIOUS
  <2>2. PICK k \in 1..n : q[k] = e /\ RemoveFirst(q, e) = SubSeq(q, 1, k - 1) \o SubSeq(q, k + 1, n)
    <3>1. I # {} /\ I \in SUBSET Nat
      BY <1>2
    <3>2. Min(I) \in I
      BY <3>1, MinIsLeast
    <3>3. RemoveFirst(q, e) = RemoveAt(q, Min(I))
      BY <1>2, <3>1 DEF RemoveFirst, SelectInSeq
    <3> QED
      BY <3>2, <3>3 DEF RemoveAt
  <2> DEFINE a == SubSeq(q, 1, k - 1)
             c == SubSeq(q, k + 1, n)
             r == RemoveFirst(q, e)
  <2>3. a \in Seq(S) /\ Len(a) = k - 1 /\ \A i \in 1..(k - 1) : a[i] = q[i]
    BY <2>1
  <2>4. c \in Seq(S) /\ Len(c) = n - k /\ \A i \in 1..(n - k) : c[i] = q[k + i]
    <3>1. \A i \in (k + 1)..n : q[i] \in S
      BY <2>1
    <3>2. k + 1 \in Int /\ n \in Int
      BY <2>1
    <3>3. /\ c \in Seq(S)
          /\ Len(c) = IF k + 1 <= n THEN n - (k + 1) + 1 ELSE 0
          /\ \A i \in 1..(n - (k + 1) + 1) : c[i] = q[(k + 1) + i - 1]
      <4> HIDE DEF n
      <4> QED
        BY <3>1, <3>2, SubSeqProperties
    <3> HIDE DEF c, n
    <3>4. n - (k + 1) + 1 = n - k /\ \A i \in 1..(n - k) : (k + 1) + i - 1 = k + i
      BY <2>1
    <3> QED
      BY <2>1, <3>3, <3>4
  <2> HIDE DEF a, c, r
  <2>5. r = a \o c
    BY <2>2 DEF a, c, r
  <2>6. /\ r \in Seq(S) /\ Len(r) = Len(a) + Len(c)
        /\ \A i \in 1..(Len(a) + Len(c)) : r[i] = IF i <= Len(a) THEN a[i] ELSE c[i - Len(a)]
    BY <2>3, <2>4, <2>5, ConcatProperties, ZenonT(60)
  <2>7. \A i \in 1..(n - 1) : r[i] = q[IF i < k THEN i ELSE i + 1]
    <3> SUFFICES ASSUME NEW i \in 1..(n - 1) PROVE r[i] = q[IF i < k THEN i ELSE i + 1]
      OBVIOUS
    <3>1. i \in 1..(Len(a) + Len(c))
      BY <2>1, <2>3, <2>4
    <3>2. CASE i < k
      BY <2>1, <2>3, <2>6, <3>1, <3>2
    <3>3. CASE i >= k
      <4>1. r[i] = c[i - (k - 1)] /\ i - (k - 1) \in 1..(n - k) /\ k + (i - (k - 1)) = i + 1
        BY <2>1, <2>3, <2>6, <3>1, <3>3
      <4> QED
        BY <2>4, <3>3, <4>1
    <3> QED
      BY <3>2, <3>3
  <2>8. Len(r) = n - 1
    BY <2>1, <2>3, <2>4, <2>6
  <2> HIDE DEF n
  <2> QED
    BY <2>2, <2>6, <2>7, <2>8 DEF n, r
<1> QED
  BY <1>1, <1>2
=============================================================================
