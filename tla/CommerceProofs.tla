---------------------------- MODULE CommerceProofs ----------------------------
(***************************************************************************)
(* Theorems about what is sold and paid, for any lessons, packages, prices *)
(* and amounts of money.                                                   *)
(*                                                                         *)
(* SubscriptionLifecycle: one contract is in force, none is overdrawn, and *)
(* through every sequence of replacements the client owes what was taken   *)
(* and what is left.                                                       *)
(*                                                                         *)
(* PaymentLedger: what is hidden from the reports cancels out, no          *)
(* instalment is asked for after the cancellation, and a second record of  *)
(* one comes only from a command that had waited for the worker.           *)
(*                                                                         *)
(* Both sum amounts over tables that grow; what they need of sums comes    *)
(* first.                                                                  *)
(***************************************************************************)
EXTENDS SubscriptionLifecycle, PaymentLedger, FiniteSetTheorems,
        WellFoundedInduction, TLAPS

-----------------------------------------------------------------------------
(* Induction over a set instead of a predicate.                            *)

LEMMA LeastElement ==
    ASSUME NEW T \in SUBSET Nat, T # {}
    PROVE  \E x \in T : \A y \in T : x <= y
  <1> DEFINE R == {p \in Nat \X Nat : p[1] < p[2]}
  <1>1. IsWellFoundedOn(R, Nat)
    BY NatLessThanWellFounded DEF OpToRel
  <1>2. \A x, y \in Nat : y < x => <<y, x>> \in R
    OBVIOUS
  <1> HIDE DEF R
  <1>3. PICK x \in T : \A y \in T : <<y, x>> \notin R
    BY <1>1, WFMin
  <1>4. \A y \in T : ~ (y < x)
    BY <1>2, <1>3
  <1> QED
    BY <1>4

LEMMA UpTo ==
    ASSUME NEW n \in Nat, NEW S, 0 \in S,
           \A x \in 1 .. n : x - 1 \in S => x \in S
    PROVE  0 .. n \subseteq S
  <1> SUFFICES ASSUME 0 .. n \ S # {} PROVE FALSE
    OBVIOUS
  <1>1. 0 .. n \ S \in SUBSET Nat
    OBVIOUS
  <1>2. PICK x \in 0 .. n \ S : \A y \in 0 .. n \ S : x <= y
    BY <1>1, LeastElement
  <1>3. x \in 1 .. n /\ x - 1 \in 0 .. n
    BY <1>2
  <1>4. x - 1 \in S
    BY <1>2, <1>3
  <1> QED
    BY <1>2, <1>3, <1>4

-----------------------------------------------------------------------------
(* Sums.                                                                   *)

IsSum(n, g, f) ==
  g = [k \in 0 .. n |-> IF k = 0 THEN 0 ELSE g[k - 1] + f[k]]

LEMMA SumExists ==
    ASSUME NEW n \in Nat, NEW f
    PROVE  \E g : IsSum(n, g, f)
  <1> DEFINE T == {m \in 0 .. n : \E g : IsSum(m, g, f)}
  <1>1. 0 \in T
    <2> DEFINE g == [x \in 0 .. 0 |-> 0]
    <2>1. g = [k \in 0 .. 0 |-> IF k = 0 THEN 0 ELSE g[k - 1] + f[k]]
      <3>1. \A x \in 0 .. 0 : x = 0
        OBVIOUS
      <3> QED
        BY <3>1
    <2>2. IsSum(0, g, f)
      BY <2>1 DEF IsSum
    <2> HIDE DEF g
    <2> QED
      BY <2>2
  <1>2. ASSUME NEW m \in 1 .. n, m - 1 \in T PROVE m \in T
    <2>1. PICK g : IsSum(m - 1, g, f)
      BY <1>2
    <2> DEFINE h == [x \in 0 .. m |-> IF x = m THEN g[m - 1] + f[m] ELSE g[x]]
    <2>2. m \in Nat /\ m # 0
      OBVIOUS
    <2>3. \A x \in 0 .. (m - 1) : g[x] = IF x = 0 THEN 0 ELSE g[x - 1] + f[x]
      BY <2>1 DEF IsSum
    <2>4. ASSUME NEW x \in 0 .. m
          PROVE  h[x] = IF x = 0 THEN 0 ELSE h[x - 1] + f[x]
      <3>1. CASE x = m
        <4>1. h[x] = g[m - 1] + f[m]
          BY <3>1
        <4>2. h[m - 1] = g[m - 1]
          BY <2>2
        <4> QED
          BY <2>2, <3>1, <4>1, <4>2
      <3>2. CASE x # m
        <4>1. x \in 0 .. (m - 1)
          BY <2>2, <3>2
        <4>2. h[x] = g[x]
          BY <3>2
        <4>3. x # 0 => h[x - 1] = g[x - 1]
          BY <2>2, <4>1
        <4> QED
          BY <2>3, <4>1, <4>2, <4>3
      <3> QED
        BY <3>1, <3>2
    <2>5. h = [k \in 0 .. m |-> IF k = 0 THEN 0 ELSE h[k - 1] + f[k]]
      BY <2>4
    <2>6. IsSum(m, h, f)
      BY <2>5 DEF IsSum
    <2> HIDE DEF h
    <2> QED
      BY <2>6
  <1> HIDE DEF T
  <1>3. 0 .. n \subseteq T
    BY <1>1, <1>2, UpTo
  <1> QED
    BY <1>3 DEF T

\* g has the partial sums of f.
Partial(n, g, f) == g[0] = 0 /\ \A k \in 1 .. n : g[k] = g[k - 1] + f[k]

LEMMA SumUnfold ==
    ASSUME NEW n \in Nat, NEW f
    PROVE  \E g : SumTo(n, f) = g[n] /\ Partial(n, g, f)
  <1> DEFINE g == CHOOSE h : IsSum(n, h, f)
  <1>1. IsSum(n, g, f)
    BY SumExists
  <1>2. SumTo(n, f) = g[n]
    BY DEF SumTo, IsSum
  <1> HIDE DEF g
  <1>3. \A k \in 0 .. n : g[k] = IF k = 0 THEN 0 ELSE g[k - 1] + f[k]
    BY <1>1 DEF IsSum
  <1>4. Partial(n, g, f)
    BY <1>3 DEF Partial
  <1> QED
    BY <1>2, <1>4

\* The sum of one term more.
LEMMA SumNext ==
    ASSUME NEW n \in Nat, NEW f \in [1 .. n -> Int], NEW h \in [1 .. n + 1 -> Int],
           \A k \in 1 .. n : h[k] = f[k]
    PROVE  /\ SumTo(n, f) \in Int
           /\ SumTo(n + 1, h) = SumTo(n, f) + h[n + 1]
  <1>1. PICK g : SumTo(n, f) = g[n] /\ Partial(n, g, f)
    BY SumUnfold
  <1>2. PICK j : SumTo(n + 1, h) = j[n + 1] /\ Partial(n + 1, j, h)
    <2>1. n + 1 \in Nat
      OBVIOUS
    <2> QED
      BY <2>1, SumUnfold
  <1> DEFINE T == {k \in 0 .. n : g[k] \in Int /\ j[k] = g[k]}
  <1>3. 0 \in T
    BY <1>1, <1>2 DEF Partial
  <1>4. ASSUME NEW k \in 1 .. n, k - 1 \in T PROVE k \in T
    <2>1. g[k] = g[k - 1] + f[k] /\ j[k] = j[k - 1] + h[k] /\ h[k] = f[k]
      BY <1>1, <1>2 DEF Partial
    <2>2. f[k] \in Int /\ k \in 0 .. n
      OBVIOUS
    <2> QED
      BY <1>4, <2>1, <2>2
  <1> HIDE DEF T
  <1>5. 0 .. n \subseteq T
    BY <1>3, <1>4, UpTo
  <1>6. g[n] \in Int /\ j[n] = g[n]
    BY <1>5 DEF T
  <1>7. j[n + 1] = j[n] + h[n + 1]
    <2>1. n + 1 \in 1 .. n + 1 /\ (n + 1) - 1 = n
      OBVIOUS
    <2> QED
      BY <1>2, <2>1 DEF Partial
  <1> QED
    BY <1>1, <1>2, <1>6, <1>7

\* Sums are compared term by term.
LEMMA SumLeq ==
    ASSUME NEW n \in Nat, NEW f \in [1 .. n -> Int], NEW h \in [1 .. n -> Int],
           \A k \in 1 .. n : f[k] <= h[k]
    PROVE  SumTo(n, f) \in Int /\ SumTo(n, h) \in Int /\ SumTo(n, f) <= SumTo(n, h)
  <1>1. PICK g : SumTo(n, f) = g[n] /\ Partial(n, g, f)
    BY SumUnfold
  <1>2. PICK j : SumTo(n, h) = j[n] /\ Partial(n, j, h)
    BY SumUnfold
  <1> DEFINE T == {k \in 0 .. n : g[k] \in Int /\ j[k] \in Int /\ g[k] <= j[k]}
  <1>3. 0 \in T
    BY <1>1, <1>2 DEF Partial
  <1>4. ASSUME NEW k \in 1 .. n, k - 1 \in T PROVE k \in T
    <2>1. g[k] = g[k - 1] + f[k] /\ j[k] = j[k - 1] + h[k] /\ f[k] <= h[k]
      BY <1>1, <1>2 DEF Partial
    <2>2. f[k] \in Int /\ h[k] \in Int /\ k \in 0 .. n
      OBVIOUS
    <2> QED
      BY <1>4, <2>1, <2>2
  <1> HIDE DEF T
  <1>5. 0 .. n \subseteq T
    BY <1>3, <1>4, UpTo
  <1> QED
    BY <1>1, <1>2, <1>5 DEF T

LEMMA SumType ==
    ASSUME NEW n \in Nat, NEW f \in [1 .. n -> Int]
    PROVE  SumTo(n, f) \in Int
  <1>1. \A k \in 1 .. n : f[k] <= f[k]
    OBVIOUS
  <1> QED
    BY <1>1, SumLeq

\* The sum of two sums.
LEMMA SumAdd ==
    ASSUME NEW n \in Nat, NEW f \in [1 .. n -> Int], NEW h \in [1 .. n -> Int],
           NEW e \in [1 .. n -> Int], \A k \in 1 .. n : e[k] = f[k] + h[k]
    PROVE  SumTo(n, e) = SumTo(n, f) + SumTo(n, h)
  <1>1. PICK g : SumTo(n, f) = g[n] /\ Partial(n, g, f)
    BY SumUnfold
  <1>2. PICK j : SumTo(n, h) = j[n] /\ Partial(n, j, h)
    BY SumUnfold
  <1>3. PICK i : SumTo(n, e) = i[n] /\ Partial(n, i, e)
    BY SumUnfold
  <1> DEFINE T == {k \in 0 .. n : g[k] \in Int /\ j[k] \in Int /\ i[k] = g[k] + j[k]}
  <1>4. 0 \in T
    BY <1>1, <1>2, <1>3 DEF Partial
  <1>5. ASSUME NEW k \in 1 .. n, k - 1 \in T PROVE k \in T
    <2>1. /\ g[k] = g[k - 1] + f[k] /\ j[k] = j[k - 1] + h[k]
          /\ i[k] = i[k - 1] + e[k] /\ e[k] = f[k] + h[k]
      BY <1>1, <1>2, <1>3 DEF Partial
    <2>2. f[k] \in Int /\ h[k] \in Int /\ k \in 0 .. n
      OBVIOUS
    <2>3. g[k - 1] \in Int /\ j[k - 1] \in Int /\ i[k - 1] = g[k - 1] + j[k - 1]
      BY <1>5
    <2>4. g[k] \in Int /\ j[k] \in Int /\ i[k] = g[k] + j[k]
      BY <2>1, <2>2, <2>3
    <2> QED
      BY <2>2, <2>4
  <1> HIDE DEF T
  <1>6. 0 .. n \subseteq T
    BY <1>4, <1>5, UpTo
  <1> QED
    BY <1>1, <1>2, <1>3, <1>6 DEF T

-----------------------------------------------------------------------------
(* Units of sets of lessons.                                               *)

Term(S) == [x \in Lesson |-> IF x \in S THEN Cost[x] ELSE 0]

LEMMA UnitsSum ==
    ASSUME NEW S
    PROVE  /\ Units(S) = SumTo(LessonCount, Term(S))
           /\ Term(S) \in [1 .. LessonCount -> Nat]
           /\ Term(S) \in [1 .. LessonCount -> Int]
           /\ \A x \in Lesson : Term(S)[x] = IF x \in S THEN Cost[x] ELSE 0
  <1>1. \A x \in Lesson : Cost[x] \in Nat
    BY LifecycleAssumption
  <1> QED
    BY <1>1 DEF Units, Term, Lesson

LEMMA UnitsUnion ==
    ASSUME NEW S, NEW R, NEW Q,
           \A x \in Lesson : ~(x \in S /\ x \in R) /\ (x \in Q <=> x \in S \/ x \in R)
    PROVE  Units(Q) = Units(S) + Units(R)
  <1> DEFINE f == Term(S)
             h == Term(R)
             e == Term(Q)
  <1>1. f \in [1 .. LessonCount -> Int] /\ h \in [1 .. LessonCount -> Int]
        /\ e \in [1 .. LessonCount -> Int]
    BY UnitsSum
  <1>2. \A k \in 1 .. LessonCount : e[k] = f[k] + h[k]
    <2> SUFFICES ASSUME NEW k \in Lesson PROVE e[k] = f[k] + h[k]
      BY DEF Lesson
    <2>1. /\ f[k] = IF k \in S THEN Cost[k] ELSE 0
          /\ h[k] = IF k \in R THEN Cost[k] ELSE 0
          /\ e[k] = IF k \in Q THEN Cost[k] ELSE 0
      BY UnitsSum
    <2>2. Cost[k] \in Nat
      BY LifecycleAssumption
    <2> HIDE DEF f, h, e
    <2> QED
      BY <2>1, <2>2
  <1>3. /\ Units(S) = SumTo(LessonCount, f) /\ Units(R) = SumTo(LessonCount, h)
        /\ Units(Q) = SumTo(LessonCount, e)
    BY UnitsSum
  <1> HIDE DEF f, h, e
  <1>4. LessonCount \in Nat
    BY LifecycleAssumption
  <1>5. SumTo(LessonCount, e) = SumTo(LessonCount, f) + SumTo(LessonCount, h)
    BY <1>1, <1>2, <1>4, SumAdd
  <1> QED
    BY <1>3, <1>5

LEMMA UnitsInt ==
    ASSUME NEW S
    PROVE  Units(S) \in Int
  <1> DEFINE f == Term(S)
  <1>1. f \in [1 .. LessonCount -> Int] /\ Units(S) = SumTo(LessonCount, f)
    BY UnitsSum
  <1> HIDE DEF f
  <1> QED
    BY <1>1, SumType, LifecycleAssumption

LEMMA UnitsSubset ==
    ASSUME NEW S, NEW R, \A x \in Lesson : x \in S => x \in R
    PROVE  Units(S) <= Units(R)
  <1> DEFINE f == Term(S)
             h == Term(R)
  <1>1. f \in [1 .. LessonCount -> Int] /\ h \in [1 .. LessonCount -> Int]
    BY UnitsSum
  <1>2. \A k \in 1 .. LessonCount : f[k] <= h[k]
    <2> SUFFICES ASSUME NEW k \in Lesson PROVE f[k] <= h[k]
      BY DEF Lesson
    <2>1. /\ f[k] = IF k \in S THEN Cost[k] ELSE 0
          /\ h[k] = IF k \in R THEN Cost[k] ELSE 0
      BY UnitsSum
    <2>2. Cost[k] \in Nat
      BY LifecycleAssumption
    <2> HIDE DEF f, h
    <2> QED
      BY <2>1, <2>2
  <1>3. /\ Units(S) = SumTo(LessonCount, f) /\ Units(R) = SumTo(LessonCount, h)
    BY UnitsSum
  <1> HIDE DEF f, h
  <1> QED
    BY <1>1, <1>2, <1>3, SumLeq, LifecycleAssumption

LEMMA UnitsNothing == Units({}) = 0
  <1> DEFINE u == Units({})
  <1>1. u = u + u
    BY UnitsUnion
  <1>2. u \in Int
    BY UnitsInt
  <1> HIDE DEF u
  <1>3. u = 0
    BY <1>1, <1>2
  <1> QED
    BY <1>3 DEF u

LEMMA UnitsType ==
    ASSUME NEW S
    PROVE  Units(S) \in Nat
  <1>1. Units({}) <= Units(S)
    BY UnitsSubset
  <1>2. Units(S) \in Int
    BY UnitsInt
  <1> QED
    BY <1>1, <1>2, UnitsNothing

LEMMA UnitsOfOne ==
    ASSUME NEW a \in Lesson
    PROVE  Units({a}) = Cost[a]
  <1> DEFINE f == Term({a})
  <1>0. LessonCount \in Nat
    BY LifecycleAssumption
  <1>1. /\ \A x \in Lesson : f[x] = IF x \in {a} THEN Cost[x] ELSE 0
        /\ Units({a}) = SumTo(LessonCount, f)
    BY UnitsSum
  <1> HIDE DEF f
  <1>2. PICK g : SumTo(LessonCount, f) = g[LessonCount] /\ Partial(LessonCount, g, f)
    BY <1>0, SumUnfold
  <1> DEFINE T == {k \in 0 .. LessonCount : g[k] = IF a <= k THEN Cost[a] ELSE 0}
  <1>3. 0 \in T
    BY <1>0, <1>2 DEF Partial, Lesson
  <1>4. ASSUME NEW k \in 1 .. LessonCount, k - 1 \in T PROVE k \in T
    <2>1. g[k] = g[k - 1] + (IF k = a THEN Cost[k] ELSE 0)
      BY <1>1, <1>2 DEF Partial, Lesson
    <2>2. /\ k \in Nat /\ a \in Nat /\ k \in 0 .. LessonCount /\ Cost[a] \in Nat
          /\ g[k - 1] = IF a <= k - 1 THEN Cost[a] ELSE 0
      BY <1>0, <1>4, LifecycleAssumption DEF Lesson
    <2>3. g[k] = IF a <= k THEN Cost[a] ELSE 0
      BY <2>1, <2>2
    <2> QED
      BY <2>2, <2>3
  <1> HIDE DEF T
  <1>5. 0 .. LessonCount \subseteq T
    BY <1>0, <1>3, <1>4, UpTo
  <1> QED
    BY <1>0, <1>1, <1>2, <1>5 DEF T, Lesson

-----------------------------------------------------------------------------
(* Handing out units by date.                                              *)

\* What is left for the lessons after n.
IsLeft(n, left, available, on) ==
  left = [x \in 0 .. n |->
            IF x = 0 THEN available
            ELSE IF x \in on /\ Cost[x] <= left[x - 1] THEN left[x - 1] - Cost[x]
            ELSE left[x - 1]]

LEMMA LeftExists ==
    ASSUME NEW n \in Nat, NEW available, NEW on
    PROVE  \E left : IsLeft(n, left, available, on)
  <1> DEFINE T == {m \in 0 .. n : \E left : IsLeft(m, left, available, on)}
  <1>1. 0 \in T
    <2> DEFINE g == [x \in 0 .. 0 |-> available]
    <2>1. g = [x \in 0 .. 0 |->
                IF x = 0 THEN available
                ELSE IF x \in on /\ Cost[x] <= g[x - 1] THEN g[x - 1] - Cost[x]
                ELSE g[x - 1]]
      <3>1. \A x \in 0 .. 0 : x = 0
        OBVIOUS
      <3> QED
        BY <3>1
    <2>2. IsLeft(0, g, available, on)
      BY <2>1 DEF IsLeft
    <2> HIDE DEF g
    <2> QED
      BY <2>2
  <1>2. ASSUME NEW m \in 1 .. n, m - 1 \in T PROVE m \in T
    <2>1. PICK g : IsLeft(m - 1, g, available, on)
      BY <1>2
    <2> DEFINE last == IF m \in on /\ Cost[m] <= g[m - 1] THEN g[m - 1] - Cost[m]
                       ELSE g[m - 1]
               h == [x \in 0 .. m |-> IF x = m THEN last ELSE g[x]]
    <2>2. m \in Nat /\ m # 0
      OBVIOUS
    <2>3. \A x \in 0 .. (m - 1) :
             g[x] = IF x = 0 THEN available
                    ELSE IF x \in on /\ Cost[x] <= g[x - 1] THEN g[x - 1] - Cost[x]
                    ELSE g[x - 1]
      BY <2>1 DEF IsLeft
    <2>4. ASSUME NEW x \in 0 .. m
          PROVE  h[x] = IF x = 0 THEN available
                        ELSE IF x \in on /\ Cost[x] <= h[x - 1] THEN h[x - 1] - Cost[x]
                        ELSE h[x - 1]
      <3>1. CASE x = m
        <4>1. h[x] = last
          BY <3>1
        <4>2. h[m - 1] = g[m - 1]
          BY <2>2
        <4> QED
          BY <2>2, <3>1, <4>1, <4>2
      <3>2. CASE x # m
        <4>1. x \in 0 .. (m - 1)
          BY <2>2, <3>2
        <4>2. h[x] = g[x]
          BY <3>2
        <4>3. x # 0 => h[x - 1] = g[x - 1]
          BY <2>2, <4>1
        <4> QED
          BY <2>3, <4>1, <4>2, <4>3
      <3> QED
        BY <3>1, <3>2
    <2>5. h = [x \in 0 .. m |->
                IF x = 0 THEN available
                ELSE IF x \in on /\ Cost[x] <= h[x - 1] THEN h[x - 1] - Cost[x]
                ELSE h[x - 1]]
      BY <2>4
    <2>6. IsLeft(m, h, available, on)
      BY <2>5 DEF IsLeft
    <2> HIDE DEF h
    <2> QED
      BY <2>6
  <1> HIDE DEF T
  <1>3. 0 .. n \subseteq T
    BY <1>1, <1>2, UpTo
  <1> QED
    BY <1>3 DEF T

\* What is given to the lessons of `on` is at most what was there.
LEMMA GivenFits ==
    ASSUME NEW available \in Nat, NEW on, NEW left,
           IsLeft(LessonCount, left, available, on)
    PROVE  Units({x \in Lesson : x \in on /\ Cost[x] <= left[x - 1]}) <= available
  <1> DEFINE Given == {x \in Lesson : x \in on /\ Cost[x] <= left[x - 1]}
             f == Term(Given)
  <1>0. LessonCount \in Nat
    BY LifecycleAssumption
  <1>1. /\ \A x \in Lesson : f[x] = IF x \in Given THEN Cost[x] ELSE 0
        /\ Units(Given) = SumTo(LessonCount, f)
    BY UnitsSum
  <1>2. /\ left[0] = available
        /\ \A x \in Lesson : left[x] = IF x \in Given THEN left[x - 1] - Cost[x]
                                       ELSE left[x - 1]
    BY <1>0 DEF IsLeft, Lesson
  <1>3. \A x \in Given : Cost[x] <= left[x - 1]
    OBVIOUS
  <1> HIDE DEF f, Given
  <1>4. PICK g : SumTo(LessonCount, f) = g[LessonCount] /\ Partial(LessonCount, g, f)
    BY <1>0, SumUnfold
  <1> DEFINE T == {k \in 0 .. LessonCount :
                     left[k] \in Nat /\ g[k] \in Int /\ g[k] + left[k] = available}
  <1>5. 0 \in T
    BY <1>0, <1>2, <1>4 DEF Partial
  <1>6. ASSUME NEW k \in 1 .. LessonCount, k - 1 \in T PROVE k \in T
    <2>1. g[k] = g[k - 1] + (IF k \in Given THEN Cost[k] ELSE 0)
      BY <1>1, <1>4 DEF Partial, Lesson
    <2>2. left[k] = IF k \in Given THEN left[k - 1] - Cost[k] ELSE left[k - 1]
      BY <1>2 DEF Lesson
    <2>3. /\ k \in 0 .. LessonCount /\ Cost[k] \in Nat /\ left[k - 1] \in Nat
          /\ g[k - 1] \in Int /\ g[k - 1] + left[k - 1] = available
      BY <1>0, <1>6, LifecycleAssumption DEF Lesson
    <2>4. left[k] \in Nat /\ g[k] \in Int /\ g[k] + left[k] = available
      BY <1>3, <2>1, <2>2, <2>3
    <2> QED
      BY <2>3, <2>4
  <1> HIDE DEF T
  <1>7. 0 .. LessonCount \subseteq T
    BY <1>0, <1>5, <1>6, UpTo
  <1>8. Units(Given) <= available
    BY <1>0, <1>1, <1>4, <1>7 DEF T
  <1> QED
    BY <1>8 DEF Given

\* The lessons whose units of c no redistribution among `on` touches.
Fixed(c, held, billed, on) ==
  {x \in Lesson \ on : held[x] = c} \cup {x \in Lesson : billed[x] = c}

HandsOut(c, units, held, billed, on, new) ==
  /\ new = [x \in Lesson |-> new[x]]
  /\ \A x \in Lesson \ on : new[x] = held[x]
  /\ \A x \in Lesson : x \in on => new[x] \in {c, NoContract}
  /\ Units({x \in Lesson : billed[x] = c} \cup {x \in Lesson : new[x] = c}) <= units

\* A redistribution of c moves units between the lessons of `on` only, and
\* never gives more than there are.
LEMMA HandedOutFits ==
    ASSUME NEW c \in Nat \ {0}, NEW units \in Nat, NEW held, NEW billed, NEW on,
           \A x \in on : billed[x] # c,
           Units(Fixed(c, held, billed, on)) <= units
    PROVE  HandsOut(c, units, held, billed, on, HandedOut(c, units, held, billed, on))
  <1> DEFINE available == Max(0, units - Units(Fixed(c, held, billed, on)))
             left == CHOOSE g : IsLeft(LessonCount, g, available, on)
             new == HandedOut(c, units, held, billed, on)
             given == {x \in Lesson : x \in on /\ Cost[x] <= left[x - 1]}
             fixed == Fixed(c, held, billed, on)
  <1>1. IsLeft(LessonCount, left, available, on)
    BY LeftExists, LifecycleAssumption
  <1>2. new = [x \in Lesson |-> IF x \notin on THEN held[x]
                                ELSE IF Cost[x] <= left[x - 1] THEN c ELSE NoContract]
    BY DEF HandedOut, IsLeft, Fixed
  <1>3. available \in Nat /\ available = units - Units(fixed)
    BY UnitsType DEF Max
  <1> HIDE DEF left, new, available
  <1>4. Units(given) <= available
    BY <1>1, <1>3, GivenFits
  <1>5. \A x \in Lesson : new[x] = IF x \notin on THEN held[x]
                                   ELSE IF Cost[x] <= left[x - 1] THEN c ELSE NoContract
    BY <1>2
  <1> DEFINE all == {x \in Lesson : billed[x] = c} \cup {x \in Lesson : new[x] = c}
  <1>6. \A x \in Lesson : ~(x \in fixed /\ x \in given)
                          /\ (x \in all <=> x \in fixed \/ x \in given)
    BY <1>5 DEF Fixed, NoContract
  <1> HIDE DEF given, fixed, all
  <1>7. Units(all) = Units(fixed) + Units(given)
    BY <1>6, UnitsUnion
  <1>8. Units(all) <= units
    BY <1>3, <1>4, <1>7, UnitsType
  <1> QED
    BY <1>2, <1>5, <1>8 DEF HandsOut, all, new, NoContract

-----------------------------------------------------------------------------
(* Parts of a price.                                                       *)

LEMMA ShareType ==
    ASSUME NEW p \in Nat, NEW m \in Nat, NEW u \in Nat \ {0}
    PROVE  (p * m) \div u \in Nat
  <1> DEFINE n == p * m
  <1>1. n \in Nat
    OBVIOUS
  <1> HIDE DEF n
  <1>2. n \div u \in Nat
    BY <1>1
  <1> QED
    BY <1>2 DEF n

LEMMA QuotientMonotone ==
    ASSUME NEW m \in Nat, NEW n \in Nat, m <= n, NEW u \in Nat \ {0}
    PROVE  m \div u <= n \div u
  OBVIOUS

LEMMA ShareMonotone ==
    ASSUME NEW p \in Nat, NEW m \in Nat, NEW k \in Nat, m <= k, NEW u \in Nat \ {0}
    PROVE  (p * m) \div u <= (p * k) \div u
  <1> DEFINE a == p * m
             b == p * k
  <1>1. a \in Nat /\ b \in Nat /\ a <= b
    OBVIOUS
  <1> HIDE DEF a, b
  <1>2. a \div u <= b \div u
    BY <1>1, QuotientMonotone
  <1> QED
    BY <1>2 DEF a, b

\* What is at most the quotient.
LEMMA BelowQuotient ==
    ASSUME NEW q \in Int, NEW n \in Nat, NEW u \in Nat \ {0}, q * u <= n
    PROVE  q <= n \div u
  <1> DEFINE d == n \div u
  <1>1. d \in Int /\ n < (d + 1) * u
    OBVIOUS
  <1> HIDE DEF d
  <1>2. q * u < (d + 1) * u
    BY <1>1
  <1>3. q < d + 1
    BY <1>1, <1>2
  <1>4. q <= d
    BY <1>1, <1>3
  <1> QED
    BY <1>4 DEF d

\* When the money covers that many units, the part of the price they use up,
\* rounded up, is no more than the money.
LEMMA PaidCovers ==
    ASSUME NEW p \in Nat, NEW u \in Nat \ {0}, NEW used \in Nat, used <= u,
           NEW money1 \in Int, used * p <= money1 * u
    PROVE  p - ((p * (u - used)) \div u) <= money1
  <1> DEFINE n == p * (u - used)
  <1>1. n \in Nat
    OBVIOUS
  <1>2. (p - money1) * u <= n
    <2>1. (p - money1) * u = p * u - money1 * u
      OBVIOUS
    <2>2. n = p * u - p * used
      OBVIOUS
    <2> DEFINE a == p * u
               b == money1 * u
               c == used * p
    <2>3. a \in Int /\ b \in Int /\ c \in Int /\ c <= b /\ p * used = c
      OBVIOUS
    <2>4. (p - money1) * u = a - b /\ n = a - c
      BY <2>1, <2>2, <2>3
    <2> HIDE DEF a, b, c, n
    <2> QED
      BY <2>3, <2>4
  <1>3. n \div u \in Int
    BY <1>1
  <1> HIDE DEF n
  <1>4. p - money1 <= n \div u
    BY <1>1, <1>2, BelowQuotient
  <1>5. p - (n \div u) <= money1
    BY <1>3, <1>4
  <1> QED
    BY <1>5 DEF n

-----------------------------------------------------------------------------
(* The reserves that move with a contract.                                 *)

LEMMA Greatest ==
    ASSUME NEW T, T \subseteq Lesson, T # {}
    PROVE  \E x \in T : \A y \in T : y <= x
  <1> DEFINE D == {LessonCount - x : x \in T}
  <1>1. D \in SUBSET Nat /\ D # {}
    <2>1. \A x \in T : LessonCount - x \in Nat
      BY LifecycleAssumption DEF Lesson
    <2> QED
      BY <2>1
  <1>2. PICK d \in D : \A e \in D : d <= e
    BY <1>1, LeastElement
  <1>3. PICK x \in T : d = LessonCount - x
    BY <1>2
  <1>4. ASSUME NEW y \in T PROVE y <= x
    <2>1. d <= LessonCount - y
      BY <1>2
    <2> QED
      BY <1>3, <2>1, LifecycleAssumption DEF Lesson
  <1> QED
    BY <1>4

LEMMA PrefixFits ==
    ASSUME NEW R, R \subseteq Lesson, NEW units \in Nat
    PROVE  Units({x \in R : Units({y \in R : y <= x}) <= units}) <= units
  <1> DEFINE T == {x \in R : Units({y \in R : y <= x}) <= units}
  <1>1. CASE T = {}
    <2> HIDE DEF T
    <2>1. Units(T) <= units
      BY <1>1, UnitsNothing
    <2> QED
      BY <2>1 DEF T
  <1>2. CASE T # {}
    <2>1. PICK x \in T : \A y \in T : y <= x
      BY <1>2, Greatest
    <2>2. Units({y \in R : y <= x}) <= units
      OBVIOUS
    <2>3. Units(T) <= Units({y \in R : y <= x})
      BY <2>1, UnitsSubset
    <2>4. Units(T) \in Int /\ Units({y \in R : y <= x}) \in Int
      BY UnitsInt
    <2> HIDE DEF T
    <2>5. Units(T) <= units
      BY <2>2, <2>3, <2>4
    <2> QED
      BY <2>5 DEF T
  <1> QED
    BY <1>1, <1>2

-----------------------------------------------------------------------------
(* The inductive invariant.                                                *)

\* A command under way has read contracts that exist; what is billed is
\* completed, and what holds a reserve is not over.
LessonsOK ==
  \A x \in Lesson :
    /\ life[x] # "absent" => plan[x] \in Contract
    /\ command[x] # Idle =>
         /\ command[x].op # "none"
         /\ command[x].plan \in Contract /\ command[x].contract \in Contract
    /\ command[x].op \in {"single", "series"} => life[x] = "absent"
    /\ command[x].op = "complete" => life[x] = "scheduled"
    /\ charge[x] # NoContract => life[x] = "completed"
    /\ reserve[x] # NoContract => life[x] \in {"scheduled", "pending"}

\* RemainingValue, UnusedUnits and the values made of them, of what the preview
\* says was used, reserved, paid and refunded.
ValueLeft(c, used) ==
  (contracts[c].price * Max(0, contracts[c].units - used)) \div contracts[c].units

UnitsLeft(c, facts) ==
  contracts[c].units - Min(contracts[c].units, facts.used + Units(facts.reserved))

CreditFor(c, facts) == (contracts[c].price * UnitsLeft(c, facts)) \div contracts[c].units

ConfirmedFor(c, facts) ==
  IF mode = "personal_account" /\ c = 1 THEN contracts[c].price
  ELSE Min(contracts[c].price, Max(0, facts.paid - contracts[c].prior))

RefundFor(c, facts) ==
  Min(CreditFor(c, facts),
      Max(0, ((ConfirmedFor(c, facts) * UnitsLeft(c, facts)) \div contracts[c].units)
             - facts.refunded))

\* The position a preview shows follows from the facts it holds.
PreviewOK(p) ==
  \/ p = NoPreview
  \/ /\ p.kind = "replace"
     /\ p.contract \in Contract /\ p.terms \in Terms
     /\ p.position = p.facts.owed
                     + (p.terms.price - ValueLeft(p.contract, p.facts.used))
                     - p.facts.net
  \/ /\ p.kind = "cancel"
     /\ p.contract \in Contract
     /\ p.refund = RefundFor(p.contract, p.facts)
     /\ p.position = p.facts.owed - CreditFor(p.contract, p.facts)
                     - (p.facts.paid - p.facts.refunded)

PreviewsOK ==
  /\ preview = [e \in Actors |-> preview[e]]
  /\ \A e \in Actors : PreviewOK(preview[e])

\* What was used of the contracts that were replaced is what the present one
\* remembers; the rest of the debt is its price.
BooksOf(n) ==
  /\ contracts[n].prior = SumTo(n - 1, [c \in 1 .. n - 1 |-> UsedValue(c)])
  /\ Active(n) => owed = contracts[n].prior + contracts[n].price
  /\ ~Active(n) =>
       /\ owed >= contracts[n].prior + UsedValue(n)
       /\ owed <= contracts[n].prior + contracts[n].price

BooksOK == \A n \in Contract : n = Latest => BooksOf(n)

LifecycleInv ==
  /\ TypeOK
  /\ LessonsOK
  /\ PreviewsOK
  /\ OneContractInForce
  /\ NeverOverdrawn
  /\ BooksOK

LEMMA ContractTypes ==
    ASSUME TypeOK
    PROVE  /\ Latest \in Nat \ {0} /\ Latest \in Contract
           /\ \A c \in Contract :
                /\ c \in Nat \ {0}
                /\ contracts[c].units \in Nat \ {0} /\ contracts[c].price \in Nat
                /\ contracts[c].status \in Statuses /\ contracts[c].prior \in Int
  <1> DEFINE Row == [units : Nat \ {0}, price : Nat, status : Statuses, prior : Int]
  <1>1. contracts \in Seq(Row) /\ contracts # << >>
    BY DEF TypeOK
  <1>2. \A r \in Row : /\ r.units \in Nat \ {0} /\ r.price \in Nat
                       /\ r.status \in Statuses /\ r.prior \in Int
    OBVIOUS
  <1> HIDE DEF Row
  <1>3. Len(contracts) \in Nat \ {0} /\ \A c \in 1 .. Len(contracts) : contracts[c] \in Row
    BY <1>1
  <1> QED
    BY <1>2, <1>3 DEF Latest, Contract

LEMMA ValueTypes ==
    ASSUME TypeOK, NEW c \in Contract
    PROVE  /\ Used(c) \in Nat
           /\ RemainingValue(c) \in Nat
           /\ UsedValue(c) \in Int
           /\ UsedValue(c) = contracts[c].price - RemainingValue(c)
  <1>1. /\ contracts[c].units \in Nat \ {0} /\ contracts[c].price \in Nat
    BY ContractTypes
  <1>2. Used(c) \in Nat
    BY UnitsType DEF Used
  <1>3. Max(0, contracts[c].units - Used(c)) \in Nat
    BY <1>1, <1>2 DEF Max
  <1>4. RemainingValue(c) \in Nat
    BY <1>1, <1>3, ShareType DEF RemainingValue
  <1> QED
    BY <1>1, <1>2, <1>4 DEF UsedValue

\* Only the latest contract can be in force.
LEMMA OnlyLatest ==
    ASSUME TypeOK, OneContractInForce
    PROVE  /\ \A c \in Contract : Active(c) => c = Latest
           /\ \A c \in Contract : Current(c) \in Contract
           /\ \A c \in Contract : Active(c) => Current(c) = c
           /\ \A x \in Lesson : reserve[x] # NoContract =>
                reserve[x] = Latest /\ Active(Latest)
  <1>1. Latest \in Nat \ {0} /\ Latest \in Contract /\ \A c \in Contract : c \in Nat \ {0}
    BY ContractTypes
  <1>2. \A c \in Contract : Active(c) => c = Latest
    BY DEF OneContractInForce, Active
  <1>3. \A c \in Contract : c .. Latest \subseteq Contract
    BY <1>1 DEF Contract, Latest
  <1>4. ASSUME NEW c \in Contract
        PROVE  Current(c) \in Contract /\ (Active(c) => Current(c) = c)
    <2> DEFINE A == {b \in c .. Latest : Active(b)}
    <2>1. CASE \E d \in Contract : A = {d}
      <3>1. PICK d \in Contract : A = {d}
        BY <2>1
      <3>2. d \in c .. Latest /\ Active(d)
        BY <3>1
      <3>3. \A b \in c .. Latest : Active(b) => b = d
        BY <3>1
      <3>4. Current(c) = CHOOSE b \in c .. Latest : Active(b)
        BY <2>1 DEF Current
      <3>5. Current(c) \in c .. Latest /\ Active(Current(c))
        BY <3>2, <3>4, Zenon
      <3>6. Current(c) = d
        BY <3>3, <3>5
      <3>7. c \in c .. Latest
        BY <1>1 DEF Contract, Latest
      <3>8. Active(c) => c = d
        BY <3>3, <3>7
      <3> QED
        BY <3>6, <3>8
    <2>2. CASE ~ \E d \in Contract : A = {d}
      <3>1. Current(c) = c
        BY <2>2 DEF Current
      <3> QED
        BY <3>1
    <2> QED
      BY <2>1, <2>2
  <1>5. \A x \in Lesson : reserve[x] # NoContract => reserve[x] \in Contract /\ Active(reserve[x])
    BY DEF TypeOK, OneContractInForce
  <1> QED
    BY <1>2, <1>4, <1>5

\* The value of all lessons billed so far.
LEMMA TakenSplit ==
    ASSUME TypeOK, BooksOK
    PROVE  Taken = contracts[Latest].prior + UsedValue(Latest)
  <1> DEFINE n == Latest - 1
             f == [c \in 1 .. n |-> UsedValue(c)]
             h == [c \in Contract |-> UsedValue(c)]
  <1>1. Latest \in Nat \ {0} /\ Contract = 1 .. n + 1 /\ n + 1 = Latest /\ n \in Nat
    BY ContractTypes DEF Contract, Latest
  <1>2. \A c \in Contract : UsedValue(c) \in Int
    BY ValueTypes
  <1>3. f \in [1 .. n -> Int] /\ h \in [1 .. n + 1 -> Int]
    BY <1>1, <1>2
  <1>4. \A k \in 1 .. n : h[k] = f[k]
    BY <1>1
  <1>5. h[n + 1] = UsedValue(Latest) /\ Taken = SumTo(n + 1, h)
    BY <1>1 DEF Taken
  <1>6. contracts[Latest].prior = SumTo(n, f)
    BY <1>1, ContractTypes DEF BooksOK, BooksOf
  <1>7. n \in Nat
    BY <1>1
  <1> HIDE DEF f, h, n
  <1>8. SumTo(n + 1, h) = SumTo(n, f) + h[n + 1]
    BY <1>3, <1>4, <1>7, SumNext
  <1> QED
    BY <1>5, <1>6, <1>8

LEMMA ValueFromBooks ==
    ASSUME TypeOK, BooksOK
    PROVE  ValueConserved
  <1>1. /\ Latest \in Contract /\ contracts[Latest].price \in Nat
        /\ contracts[Latest].prior \in Int
    BY ContractTypes
  <1>2. /\ RemainingValue(Latest) \in Nat /\ UsedValue(Latest) \in Int
        /\ UsedValue(Latest) = contracts[Latest].price - RemainingValue(Latest)
    BY <1>1, ValueTypes
  <1>3. Taken = contracts[Latest].prior + UsedValue(Latest)
    BY TakenSplit
  <1>4. contracts[Latest].prior + contracts[Latest].price = Taken + RemainingValue(Latest)
    BY <1>1, <1>2, <1>3
  <1> QED
    BY <1>1, <1>3, <1>4 DEF BooksOK, BooksOf, ValueConserved

-----------------------------------------------------------------------------
(* What the steps have in common.                                          *)

LEMMA InitInv == Init => LifecycleInv
  <1> SUFFICES ASSUME Init PROVE LifecycleInv
    OBVIOUS
  <1>1. PICK terms \in Issued :
           /\ contracts = <<NewContract(terms, 0)>>
           /\ owed = terms.price
           /\ life = [x \in Lesson |-> "absent"]
           /\ plan = [x \in Lesson |-> NoContract]
           /\ reserve = [x \in Lesson |-> NoContract]
           /\ charge = [x \in Lesson |-> NoContract]
           /\ command = [x \in Lesson |-> Idle]
           /\ paid = 0
           /\ refunded = 0
           /\ mode \in FundingModes
           /\ preview = [e \in Actors |-> NoPreview]
    BY DEF Init
  <1>2. terms \in Terms /\ terms.units \in Nat \ {0} /\ terms.price \in Nat
    BY LifecycleAssumption DEF Terms
  <1>3. /\ Latest = 1 /\ Contract = {1} /\ contracts[1] = NewContract(terms, 0)
        /\ contracts # << >>
    BY <1>1 DEF Latest, Contract
  <1>4. TypeOK
    <2>1. NewContract(terms, 0) \in
             [units : Nat \ {0}, price : Nat, status : Statuses, prior : Int]
      BY <1>2 DEF NewContract, Statuses
    <2>2. contracts \in
             Seq([units : Nat \ {0}, price : Nat, status : Statuses, prior : Int])
      BY <1>1, <2>1
    <2>3. owed \in Int /\ paid \in 0 .. MaxMoney /\ refunded \in 0 .. MaxMoney
      BY <1>1, <1>2, LifecycleAssumption
    <2> QED
      BY <1>1, <1>3, <2>2, <2>3 DEF TypeOK, Idle
  <1>5. LessonsOK
    BY <1>1 DEF LessonsOK, Idle
  <1>6. PreviewsOK
    BY <1>1 DEF PreviewsOK, PreviewOK
  <1>7. Active(1)
    BY <1>3 DEF Active, NewContract
  <1>8. OneContractInForce
    BY <1>1, <1>3, <1>7 DEF OneContractInForce, Active
  <1>9. NeverOverdrawn
    <2>1. Units(ChargedTo(1) \cup ReservedOn(1)) <= Units({})
      BY <1>1, UnitsSubset DEF ChargedTo, ReservedOn, NoContract
    <2>2. contracts[1].units \in Nat
      BY <1>2, <1>3 DEF NewContract
    <2>3. Units(ChargedTo(1) \cup ReservedOn(1)) \in Int
      BY UnitsInt
    <2> QED
      BY <1>3, <2>1, <2>2, <2>3, UnitsNothing DEF NeverOverdrawn
  <1>10. BooksOK
    <2> DEFINE f == [c \in 1 .. Latest - 1 |-> UsedValue(c)]
    <2>1. SumTo(Latest - 1, f) = 0
      <3>1. Latest - 1 = 0
        BY <1>3
      <3> HIDE DEF f
      <3>2. PICK g : SumTo(0, f) = g[0] /\ Partial(0, g, f)
        BY SumUnfold
      <3> QED
        BY <3>1, <3>2 DEF Partial
    <2>2. contracts[Latest].prior = 0 /\ contracts[Latest].price = owed /\ owed \in Int
      BY <1>1, <1>2, <1>3 DEF NewContract
    <2> QED
      BY <1>3, <1>7, <2>1, <2>2 DEF BooksOK, BooksOf
  <1> QED
    BY <1>4, <1>5, <1>6, <1>8, <1>9, <1>10 DEF LifecycleInv

\* The value used of a contract depends on its terms and on what is billed.
LEMMA SameValue ==
    ASSUME NEW c, contracts'[c].price = contracts[c].price,
           contracts'[c].units = contracts[c].units, ChargedTo(c)' = ChargedTo(c)
    PROVE  UsedValue(c)' = UsedValue(c)
  BY DEF UsedValue, RemainingValue, Used

\* Steps of lessons and of money leave the contracts alone: what they must show.
LEMMA LessonsKeep ==
    ASSUME LifecycleInv, contracts' = contracts, owed' = owed, mode' = mode,
           PreviewsOK', TypeOK', LessonsOK',
           \A y \in Lesson : reserve'[y] # NoContract =>
              reserve'[y] = Latest /\ Active(Latest),
           \A d \in Contract :
              Units((ChargedTo(d) \cup ReservedOn(d))') <= contracts[d].units,
           \A y \in Lesson : charge'[y] # charge[y] =>
              charge[y] = NoContract /\ charge'[y] = Latest /\ Active(Latest)
    PROVE  LifecycleInv'
  <1>1. Latest' = Latest /\ Contract' = Contract /\ \A c : Active(c)' = Active(c)
    BY DEF Latest, Contract, Active
  <1>2. OneContractInForce'
    BY <1>1 DEF LifecycleInv, OneContractInForce
  <1>3. NeverOverdrawn'
    BY <1>1 DEF NeverOverdrawn
  <1>4. Latest \in Nat \ {0} /\ Contract = 1 .. Latest /\ NoContract \notin Contract
    BY ContractTypes DEF LifecycleInv, Contract, Latest, NoContract
  <1>5. ASSUME NEW c \in Contract, c # Latest \/ ~Active(Latest)
        PROVE  UsedValue(c)' = UsedValue(c)
    <2>1. ChargedTo(c)' = ChargedTo(c)
      BY <1>4, <1>5 DEF ChargedTo
    <2> QED
      BY <2>1, SameValue
  <1>6. BooksOK'
    <2> SUFFICES ASSUME NEW n \in Contract, n = Latest PROVE BooksOf(n)'
      BY <1>1 DEF BooksOK
    <2> DEFINE f == [c \in 1 .. n - 1 |-> UsedValue(c)]
    <2>1. BooksOf(n)
      BY DEF LifecycleInv, BooksOK
    <2>2. [c \in 1 .. n - 1 |-> UsedValue(c)]' = f
      <3>1. \A c \in 1 .. n - 1 : c \in Contract /\ c # Latest
        BY <1>4
      <3>2. \A c \in 1 .. n - 1 : UsedValue(c)' = UsedValue(c)
        BY <1>5, <3>1
      <3> QED
        BY <3>2
    <2>3. ~Active(n) => UsedValue(n)' = UsedValue(n)
      BY <1>5
    <2> QED
      BY <1>1, <2>1, <2>2, <2>3 DEF BooksOf
  <1> QED
    BY <1>2, <1>3, <1>6 DEF LifecycleInv

LEMMA PreviewsKeep ==
    ASSUME PreviewsOK, contracts' = contracts, mode' = mode, preview' = preview
    PROVE  PreviewsOK'
  BY DEF PreviewsOK, PreviewOK, Contract, ValueLeft, UnitsLeft, CreditFor, ConfirmedFor,
         RefundFor

LEMMA NoContractIsNone ==
    ASSUME TypeOK
    PROVE  NoContract \notin Contract
  BY ContractTypes DEF NoContract

-----------------------------------------------------------------------------
(* A lesson is closed.                                                     *)

\* What the reserves are when lesson x is closed on c.
ClosedReserves(x, c, new) ==
  /\ new \in [Lesson -> Contract \cup {NoContract}]
  /\ new[x] = NoContract
  /\ \A y \in Lesson \ {x} : new[y] # NoContract =>
       new[y] = Latest /\ Active(Latest) /\ life[y] \in {"scheduled", "pending"}
  /\ \A d \in Contract :
       Units({y \in Lesson : [charge EXCEPT ![x] = c][y] = d}
             \cup {y \in Lesson : new[y] = d}) <= contracts[d].units

\* Nothing is handed out: the lesson's own reserve is gone.
LEMMA CloseQuietly ==
    ASSUME LifecycleInv, NEW x \in Lesson
    PROVE  ClosedReserves(x, charge[x], [reserve EXCEPT ![x] = NoContract])
  <1> DEFINE new == [reserve EXCEPT ![x] = NoContract]
             billed == [charge EXCEPT ![x] = charge[x]]
  <1>1. TypeOK /\ OneContractInForce /\ NoContract \notin Contract
    BY NoContractIsNone DEF LifecycleInv
  <1>2. new \in [Lesson -> Contract \cup {NoContract}] /\ new[x] = NoContract
        /\ \A y \in Lesson \ {x} : new[y] = reserve[y]
    BY <1>1 DEF TypeOK
  <1>3. \A y \in Lesson : billed[y] = charge[y]
    BY <1>1 DEF TypeOK
  <1> HIDE DEF new, billed
  <1>4. \A y \in Lesson \ {x} : new[y] # NoContract =>
           new[y] = Latest /\ Active(Latest) /\ life[y] \in {"scheduled", "pending"}
    BY <1>1, <1>2, OnlyLatest DEF LifecycleInv, LessonsOK
  <1>5. ASSUME NEW d \in Contract
        PROVE  Units({y \in Lesson : billed[y] = d} \cup {y \in Lesson : new[y] = d})
                 <= contracts[d].units
    <2> DEFINE A == {y \in Lesson : billed[y] = d} \cup {y \in Lesson : new[y] = d}
               B == ChargedTo(d) \cup ReservedOn(d)
    <2>1. \A y \in Lesson : y \in A => y \in B
      BY <1>1, <1>2, <1>3 DEF ChargedTo, ReservedOn
    <2>2. Units(B) <= contracts[d].units
      BY DEF LifecycleInv, NeverOverdrawn
    <2>3. contracts[d].units \in Int
      BY <1>1, ContractTypes
    <2> HIDE DEF A, B
    <2>4. Units(A) <= Units(B) /\ Units(A) \in Int /\ Units(B) \in Int
      BY <2>1, UnitsSubset, UnitsInt
    <2>5. Units(A) <= contracts[d].units
      BY <2>2, <2>3, <2>4
    <2> QED
      BY <2>5 DEF A
  <1> QED
    BY <1>2, <1>4, <1>5 DEF ClosedReserves, new, billed

\* The units of the present contract are handed out anew.
LEMMA CloseHandsOut ==
    ASSUME LifecycleInv, NEW x \in Lesson, life[x] \in {"scheduled", "pending"},
           NEW c \in {NoContract, Latest}, c # NoContract => Covers(c, x), Active(Latest)
    PROVE  ClosedReserves(x, c,
             HandedOut(Latest, contracts[Latest].units, [reserve EXCEPT ![x] = NoContract],
                       [charge EXCEPT ![x] = c], Scheduled \ {x}))
  <1> DEFINE held == [reserve EXCEPT ![x] = NoContract]
             billed == [charge EXCEPT ![x] = c]
             on == Scheduled \ {x}
             units == contracts[Latest].units
             new == HandedOut(Latest, units, held, billed, on)
             fixed == Fixed(Latest, held, billed, on)
             own == ChargedTo(Latest)
             rest == ReservedOn(Latest) \ {x}
  <1>0. \A d \in Contract : contracts[d].units \in Int
    <2>1. \A d \in Contract : contracts[d].units \in Nat \ {0}
      BY ContractTypes DEF LifecycleInv
    <2> QED
      BY <2>1
  <1>1. /\ TypeOK /\ OneContractInForce /\ NoContract \notin Contract
        /\ Latest \in Contract /\ Latest \in Nat \ {0} /\ units \in Nat
    BY NoContractIsNone, ContractTypes DEF LifecycleInv
  <1>2. /\ held[x] = NoContract /\ \A y \in Lesson \ {x} : held[y] = reserve[y]
        /\ billed[x] = c /\ \A y \in Lesson \ {x} : billed[y] = charge[y]
        /\ held \in [Lesson -> Contract \cup {NoContract}]
    BY <1>1 DEF TypeOK
  <1>3. charge[x] = NoContract /\ \A y \in on : y \in Lesson \ {x} /\ charge[y] = NoContract
    BY DEF LifecycleInv, LessonsOK, Scheduled
  <1>4. \A y \in on : billed[y] # Latest
    BY <1>1, <1>2, <1>3
  <1>5. Units(fixed) <= units
    <2>1. CASE c = NoContract
      <3>1. \A y \in Lesson : y \in fixed => y \in own \cup ReservedOn(Latest)
        BY <1>1, <1>2, <2>1 DEF Fixed, ChargedTo, ReservedOn
      <3>2. Units(own \cup ReservedOn(Latest)) <= units
        BY <1>1 DEF LifecycleInv, NeverOverdrawn
      <3> HIDE DEF fixed, own, units
      <3>3. Units(fixed) <= Units(own \cup ReservedOn(Latest))
        BY <3>1, UnitsSubset
      <3> QED
        BY <1>1, <3>2, <3>3, UnitsInt
    <2>2. CASE c = Latest
      <3>1. units - Units(own) - Units(rest) >= Cost[x]
        BY <1>1, <2>2 DEF Covers, Free, Used
      <3>2. Units(own \cup rest) = Units(own) + Units(rest)
        <4>1. \A y \in Lesson : ~(y \in own /\ y \in rest)
          BY <1>1 DEF LifecycleInv, LessonsOK, ChargedTo, ReservedOn
        <4> HIDE DEF own, rest
        <4> QED
          BY <4>1, UnitsUnion
      <3>3. Units(own \cup rest \cup {x}) = Units(own \cup rest) + Units({x})
        <4>1. x \notin own /\ x \notin rest
          BY <1>1, <1>3 DEF ChargedTo
        <4> HIDE DEF own, rest
        <4> QED
          BY <4>1, UnitsUnion
      <3>4. Units({x}) = Cost[x]
        BY UnitsOfOne
      <3>5. \A y \in Lesson : y \in fixed => y \in own \cup rest \cup {x}
        BY <1>2 DEF Fixed, ChargedTo, ReservedOn
      <3>6. Cost[x] \in Int
        BY LifecycleAssumption
      <3> HIDE DEF fixed, own, rest, units
      <3>7. Units(fixed) <= Units(own \cup rest \cup {x})
        BY <3>5, UnitsSubset
      <3>8. Units(fixed) \in Int /\ Units(own) \in Int /\ Units(rest) \in Int
        BY UnitsInt
      <3> QED
        BY <1>1, <3>1, <3>2, <3>3, <3>4, <3>6, <3>7, <3>8
    <2> QED
      BY <2>1, <2>2
  <1>6. HandsOut(Latest, units, held, billed, on, new)
    <2> HIDE DEF held, billed, on, units
    <2> QED
      BY <1>1, <1>4, <1>5, HandedOutFits
  <1>7. \A y \in on : life[y] = "scheduled"
    BY DEF Scheduled
  <1>8. x \notin on
    OBVIOUS
  <1> HIDE DEF new, held, billed, on, units, fixed, own, rest
  <1>9. /\ new = [y \in Lesson |-> new[y]]
        /\ \A y \in Lesson \ on : new[y] = held[y]
        /\ \A y \in Lesson : y \in on => new[y] \in {Latest, NoContract}
        /\ Units({y \in Lesson : billed[y] = Latest} \cup {y \in Lesson : new[y] = Latest})
             <= units
    BY <1>6 DEF HandsOut
  <1>10. new[x] = NoContract
    BY <1>2, <1>8, <1>9
  <1>11. \A y \in Lesson \ {x} : new[y] # NoContract =>
           new[y] = Latest /\ Active(Latest) /\ life[y] \in {"scheduled", "pending"}
    BY <1>1, <1>2, <1>7, <1>9, OnlyLatest DEF LifecycleInv, LessonsOK
  <1>12. ASSUME NEW d \in Contract
         PROVE  Units({y \in Lesson : billed[y] = d} \cup {y \in Lesson : new[y] = d})
                  <= contracts[d].units
    <2>1. CASE d = Latest
      BY <1>9, <2>1 DEF units
    <2>2. CASE d # Latest
      <3> DEFINE A == {y \in Lesson : billed[y] = d} \cup {y \in Lesson : new[y] = d}
                 B == ChargedTo(d) \cup ReservedOn(d)
      <3>1. \A y \in Lesson : y \in A => y \in B
        <4>1. \A y \in Lesson : new[y] # d
          BY <1>1, <1>10, <1>11, <2>2
        <4>2. \A y \in Lesson : billed[y] = d => charge[y] = d
          BY <1>1, <1>2, <2>2
        <4> QED
          BY <4>1, <4>2 DEF ChargedTo
      <3>2. Units(B) <= contracts[d].units
        BY DEF LifecycleInv, NeverOverdrawn
      <3> HIDE DEF A, B
      <3>3. contracts[d].units \in Int
        BY <1>0
      <3>4. Units(A) <= Units(B) /\ Units(A) \in Int /\ Units(B) \in Int
        BY <3>1, UnitsSubset, UnitsInt
      <3>5. Units(A) <= contracts[d].units
        BY <3>2, <3>3, <3>4
      <3> QED
        BY <3>5 DEF A
    <2> QED
      BY <2>1, <2>2
  <1>13. new \in [Lesson -> Contract \cup {NoContract}]
    <2>1. \A y \in Lesson : new[y] \in Contract \cup {NoContract}
      BY <1>1, <1>2, <1>9
    <2> QED
      BY <1>9, <2>1
  <1> QED
    BY <1>10, <1>11, <1>12, <1>13 DEF ClosedReserves, new, held, billed, on, units

\* Closing a lesson without a contract, or on one that covers it.
LEMMA CloseKeeps ==
    ASSUME LifecycleInv, NEW x \in Lesson, life[x] \in {"scheduled", "pending"},
           NEW c \in Contract \cup {NoContract}, c # NoContract => Covers(c, x),
           NEW ended, ended = IF c = NoContract THEN "cancelled" ELSE "completed",
           Close(x, ended, c)
    PROVE  LifecycleInv'
  <1> DEFINE held == [reserve EXCEPT ![x] = NoContract]
             billed == [charge EXCEPT ![x] = c]
             from == IF c # NoContract THEN c ELSE reserve[x]
  <1>1. /\ TypeOK /\ LessonsOK /\ OneContractInForce /\ NoContract \notin Contract
        /\ Latest \in Contract
    BY NoContractIsNone, ContractTypes DEF LifecycleInv
  <1>2. /\ reserve' = IF from = NoContract \/ ~Active(Current(from)) THEN held
                      ELSE HandedOut(Current(from), contracts[Current(from)].units, held,
                                     billed, Scheduled \ {x})
        /\ charge' = billed
        /\ life' = [life EXCEPT ![x] = ended]
        /\ command' = [command EXCEPT ![x] = Idle]
        /\ contracts' = contracts /\ plan' = plan /\ preview' = preview
        /\ owed' = owed /\ paid' = paid /\ refunded' = refunded /\ mode' = mode
    BY DEF Close, money
  <1>3. c # NoContract => Active(c) /\ c = Latest
    BY <1>1, OnlyLatest DEF Covers
  <1>4. charge[x] = NoContract
    BY <1>1 DEF LessonsOK
  <1>5. ClosedReserves(x, c, reserve')
    <2>1. CASE from = NoContract \/ ~Active(Current(from))
      <3>1. c = NoContract
        <4>1. c # NoContract => Current(c) = c
          BY <1>1, <1>3, OnlyLatest
        <4> QED
          BY <1>3, <2>1, <4>1
      <3>2. reserve' = held
        BY <1>2, <2>1
      <3> QED
        BY <1>4, <3>1, <3>2, CloseQuietly
    <2>2. CASE ~(from = NoContract \/ ~Active(Current(from)))
      <3>1. from \in Contract
        BY <1>1, <2>2 DEF TypeOK
      <3>2. Current(from) \in Contract /\ Active(Current(from))
        BY <1>1, <2>2, <3>1, OnlyLatest
      <3>3. Current(from) = Latest /\ Active(Latest)
        BY <1>1, <3>2, OnlyLatest
      <3>4. reserve' = HandedOut(Latest, contracts[Latest].units, held, billed,
                                 Scheduled \ {x})
        BY <1>2, <2>2, <3>3
      <3>5. c \in {NoContract, Latest}
        BY <1>3
      <3> QED
        BY <3>3, <3>4, <3>5, CloseHandsOut
    <2> QED
      BY <2>1, <2>2
  <1> HIDE DEF held, from
  <1>6. /\ billed \in [Lesson -> Contract \cup {NoContract}]
        /\ billed[x] = c /\ \A y \in Lesson \ {x} : billed[y] = charge[y]
    BY <1>1 DEF TypeOK
  <1>7. Contract' = Contract /\ Latest' = Latest
    BY <1>2 DEF Contract, Latest
  <1>8. /\ life' \in [Lesson -> {"absent", "scheduled", "pending", "completed", "cancelled"}]
        /\ life'[x] = ended /\ \A y \in Lesson \ {x} : life'[y] = life[y]
    BY <1>1, <1>2 DEF TypeOK
  <1>9. /\ command' \in [Lesson -> [op : {"none", "single", "series", "complete"},
                                    plan : Contract \cup {NoContract},
                                    contract : Contract \cup {NoContract}]]
        /\ command'[x] = Idle /\ \A y \in Lesson \ {x} : command'[y] = command[y]
    <2>1. Idle \in [op : {"none", "single", "series", "complete"},
                    plan : Contract \cup {NoContract},
                    contract : Contract \cup {NoContract}]
      BY DEF Idle
    <2>2. command \in [Lesson -> [op : {"none", "single", "series", "complete"},
                                  plan : Contract \cup {NoContract},
                                  contract : Contract \cup {NoContract}]]
      BY <1>1 DEF TypeOK
    <2> QED
      BY <1>2, <2>1, <2>2
  <1>10. TypeOK'
    BY <1>1, <1>2, <1>5, <1>6, <1>7, <1>8, <1>9 DEF TypeOK, ClosedReserves
  <1>11. LessonsOK'
    <2> SUFFICES ASSUME NEW y \in Lesson
                 PROVE  /\ life'[y] # "absent" => plan'[y] \in Contract
                        /\ command'[y] # Idle =>
                             /\ command'[y].op # "none"
                             /\ command'[y].plan \in Contract
                             /\ command'[y].contract \in Contract
                        /\ command'[y].op \in {"single", "series"} => life'[y] = "absent"
                        /\ command'[y].op = "complete" => life'[y] = "scheduled"
                        /\ charge'[y] # NoContract => life'[y] = "completed"
                        /\ reserve'[y] # NoContract => life'[y] \in {"scheduled", "pending"}
      BY <1>7 DEF LessonsOK
    <2>1. CASE y = x
      <3>1. life[x] # "absent"
        OBVIOUS
      <3>2. plan'[x] \in Contract
        BY <1>1, <1>2, <3>1 DEF LessonsOK
      <3>3. command'[x].op = "none"
        BY <1>9 DEF Idle
      <3>4. reserve'[x] = NoContract
        BY <1>5 DEF ClosedReserves
      <3> QED
        BY <1>2, <1>6, <1>8, <1>9, <2>1, <3>2, <3>3, <3>4
    <2>2. CASE y # x
      <3>1. reserve'[y] # NoContract => life[y] \in {"scheduled", "pending"}
        BY <1>5, <2>2 DEF ClosedReserves
      <3> QED
        BY <1>1, <1>2, <1>6, <1>8, <1>9, <2>2, <3>1 DEF LessonsOK
    <2> QED
      BY <2>1, <2>2
  <1>12. PreviewsOK'
    BY <1>2, PreviewsKeep DEF LifecycleInv
  <1>13. \A y \in Lesson : reserve'[y] # NoContract => reserve'[y] = Latest /\ Active(Latest)
    BY <1>5 DEF ClosedReserves
  <1>14. ASSUME NEW d \in Contract
         PROVE  Units((ChargedTo(d) \cup ReservedOn(d))') <= contracts[d].units
    BY <1>2, <1>5 DEF ClosedReserves, ChargedTo, ReservedOn
  <1>15. \A y \in Lesson : charge'[y] # charge[y] =>
            charge[y] = NoContract /\ charge'[y] = Latest /\ Active(Latest)
    BY <1>2, <1>3, <1>4, <1>6
  <1> HIDE DEF billed
  <1> QED
    BY <1>2, <1>10, <1>11, <1>12, <1>13, <1>14, <1>15, LessonsKeep

-----------------------------------------------------------------------------
(* Steps that leave reserves and charges alone.                            *)

LEMMA OthersKeep ==
    ASSUME LifecycleInv, contracts' = contracts, reserve' = reserve, charge' = charge,
           owed' = owed, mode' = mode, PreviewsOK', TypeOK', LessonsOK'
    PROVE  LifecycleInv'
  <1>1. \A y \in Lesson : reserve'[y] # NoContract => reserve'[y] = Latest /\ Active(Latest)
    BY OnlyLatest DEF LifecycleInv
  <1>2. ASSUME NEW d \in Contract
        PROVE  Units((ChargedTo(d) \cup ReservedOn(d))') <= contracts[d].units
    BY DEF LifecycleInv, NeverOverdrawn, ChargedTo, ReservedOn
  <1> QED
    BY <1>1, <1>2, LessonsKeep

\* A command of a lesson begins or ends, and its life may change with it.
CommandType ==
  [op : {"none", "single", "series", "complete"},
   plan : Contract \cup {NoContract}, contract : Contract \cup {NoContract}]

Lives == {"absent", "scheduled", "pending", "completed", "cancelled"}

LEMMA CommandKeeps ==
    ASSUME LifecycleInv, NEW x \in Lesson, NEW r \in CommandType, NEW l \in Lives,
           UNCHANGED <<contracts, plan, reserve, charge, money, preview>>,
           command' = [command EXCEPT ![x] = r], life' = [life EXCEPT ![x] = l],
           r # Idle => /\ r.op # "none"
                       /\ r.plan \in Contract /\ r.contract \in Contract,
           r.op \in {"single", "series"} => l = "absent",
           r.op = "complete" => l = "scheduled",
           l = life[x] \/ (life[x] = "scheduled" /\ l = "pending")
    PROVE  LifecycleInv'
  <1>1. TypeOK /\ LessonsOK
    BY DEF LifecycleInv
  <1>2. /\ command \in [Lesson -> CommandType] /\ life \in [Lesson -> Lives]
    BY <1>1 DEF TypeOK, CommandType, Lives
  <1>3. /\ command' \in [Lesson -> CommandType] /\ life' \in [Lesson -> Lives]
        /\ command'[x] = r /\ \A y \in Lesson \ {x} : command'[y] = command[y]
        /\ life'[x] = l /\ \A y \in Lesson \ {x} : life'[y] = life[y]
    BY <1>2
  <1>4. Contract' = Contract /\ CommandType' = CommandType
    BY DEF Contract, CommandType
  <1>5. TypeOK'
    <2>1. contracts' = contracts /\ plan' = plan /\ reserve' = reserve /\ charge' = charge
          /\ owed' = owed /\ paid' = paid /\ refunded' = refunded /\ mode' = mode
      BY DEF money
    <2> QED
      BY <1>1, <1>3, <1>4, <2>1 DEF TypeOK, CommandType, Lives
  <1>6. LessonsOK'
    <2> SUFFICES ASSUME NEW y \in Lesson
                 PROVE  /\ life'[y] # "absent" => plan[y] \in Contract
                        /\ command'[y] # Idle =>
                             /\ command'[y].op # "none"
                             /\ command'[y].plan \in Contract
                             /\ command'[y].contract \in Contract
                        /\ command'[y].op \in {"single", "series"} => life'[y] = "absent"
                        /\ command'[y].op = "complete" => life'[y] = "scheduled"
                        /\ charge[y] # NoContract => life'[y] = "completed"
                        /\ reserve[y] # NoContract => life'[y] \in {"scheduled", "pending"}
      BY <1>4 DEF LessonsOK
    <2>1. CASE y = x
      BY <1>1, <1>3, <2>1 DEF LessonsOK
    <2>2. CASE y # x
      BY <1>1, <1>3, <2>2 DEF LessonsOK
    <2> QED
      BY <2>1, <2>2
  <1>7. PreviewsOK'
    BY PreviewsKeep DEF LifecycleInv, money
  <1> QED
    BY <1>5, <1>6, <1>7, OthersKeep DEF money

LEMMA IdleType == Idle \in CommandType /\ Idle.op = "none"
  BY DEF Idle, CommandType

LEMMA BeginCreateInv ==
    ASSUME LifecycleInv, NEW x \in Lesson, NEW op \in {"single", "series"},
           NEW c \in Contract, BeginCreate(x, op, c)
    PROVE  LifecycleInv'
  <1> DEFINE r == [op |-> op, plan |-> c, contract |-> Current(c)]
  <1>1. Current(c) \in Contract
    BY OnlyLatest DEF LifecycleInv
  <1>2. r \in CommandType /\ r.op = op /\ r.plan = c /\ r.contract = Current(c)
    BY <1>1 DEF CommandType
  <1>3. life = [life EXCEPT ![x] = "absent"] /\ life[x] = "absent"
    BY DEF LifecycleInv, TypeOK, BeginCreate
  <1>4. /\ UNCHANGED <<contracts, plan, reserve, charge, money, preview>>
        /\ command' = [command EXCEPT ![x] = r] /\ life' = life
    BY DEF BeginCreate
  <1> HIDE DEF r
  <1> QED
    BY <1>1, <1>2, <1>3, <1>4, CommandKeeps DEF Lives

LEMMA BeginCompleteInv ==
    ASSUME LifecycleInv, NEW x \in Lesson, BeginComplete(x)
    PROVE  LifecycleInv'
  <1> DEFINE r == [op |-> "complete", plan |-> plan[x], contract |-> Current(plan[x])]
  <1>1. life[x] = "scheduled" /\ plan[x] \in Contract
    BY DEF LifecycleInv, LessonsOK, BeginComplete
  <1>2. Current(plan[x]) \in Contract
    BY <1>1, OnlyLatest DEF LifecycleInv
  <1>3. r \in CommandType /\ r.op = "complete" /\ r.plan \in Contract /\ r.contract \in Contract
    BY <1>1, <1>2 DEF CommandType
  <1>4. life = [life EXCEPT ![x] = "scheduled"]
    BY <1>1 DEF LifecycleInv, TypeOK
  <1>5. /\ UNCHANGED <<contracts, plan, reserve, charge, money, preview>>
        /\ command' = [command EXCEPT ![x] = r] /\ life' = life
    BY DEF BeginComplete
  <1> HIDE DEF r
  <1> QED
    BY <1>1, <1>3, <1>4, <1>5, CommandKeeps DEF Lives

LEMMA HandOverInv ==
    ASSUME LifecycleInv, NEW x \in Lesson, HandOver(x)
    PROVE  LifecycleInv'
  <1>1. life[x] = "scheduled"
    BY DEF LifecycleInv, LessonsOK, HandOver
  <1>2. /\ UNCHANGED <<contracts, plan, reserve, charge, money, preview>>
        /\ command' = [command EXCEPT ![x] = Idle] /\ life' = [life EXCEPT ![x] = "pending"]
    BY DEF HandOver
  <1> QED
    BY <1>1, <1>2, IdleType, CommandKeeps DEF Lives

LEMMA RollbackInv ==
    ASSUME LifecycleInv, NEW x \in Lesson, Rollback(x)
    PROVE  LifecycleInv'
  <1>1. life[x] \in Lives /\ life = [life EXCEPT ![x] = life[x]]
    BY DEF LifecycleInv, TypeOK, Lives
  <1>2. /\ UNCHANGED <<contracts, plan, reserve, charge, money, preview>>
        /\ command' = [command EXCEPT ![x] = Idle] /\ life' = life
    BY DEF Rollback
  <1> QED
    BY <1>1, <1>2, IdleType, CommandKeeps

LEMMA FinishCompleteInv ==
    ASSUME LifecycleInv, NEW x \in Lesson, FinishComplete(x)
    PROVE  LifecycleInv'
  <1>1. /\ command[x].op = "complete" /\ Covers(command[x].contract, x)
        /\ Close(x, "completed", command[x].contract)
    BY DEF FinishComplete
  <1>2. life[x] = "scheduled"
    BY <1>1 DEF LifecycleInv, LessonsOK
  <1>3. command[x] # Idle
    BY <1>1 DEF Idle
  <1>4. command[x].contract \in Contract /\ command[x].contract # NoContract
    BY <1>3, NoContractIsNone DEF LifecycleInv, LessonsOK
  <1> QED
    BY <1>1, <1>2, <1>4, CloseKeeps

LEMMA StaffSettleInv ==
    ASSUME LifecycleInv, NEW x \in Lesson, StaffSettle(x)
    PROVE  LifecycleInv'
  <1> DEFINE c == Current(plan[x])
  <1>1. /\ life[x] \in {"scheduled", "pending"}
        /\ Covers(c, x) /\ Close(x, "completed", c)
    BY DEF StaffSettle
  <1>2. plan[x] \in Contract
    BY <1>1 DEF LifecycleInv, LessonsOK
  <1>3. c \in Contract /\ c # NoContract
    BY <1>2, OnlyLatest, NoContractIsNone DEF LifecycleInv
  <1> HIDE DEF c
  <1> QED
    BY <1>1, <1>3, CloseKeeps

LEMMA StaffWaiveInv ==
    ASSUME LifecycleInv, NEW x \in Lesson, StaffWaive(x)
    PROVE  LifecycleInv'
  <1>1. life[x] \in {"scheduled", "pending"} /\ Close(x, "cancelled", NoContract)
    BY DEF StaffWaive
  <1> QED
    BY <1>1, CloseKeeps

-----------------------------------------------------------------------------
(* A lesson is created.                                                    *)

\* What the reserves are when lesson x is created.
CreatedReserves(x, new) ==
  /\ new \in [Lesson -> Contract \cup {NoContract}]
  /\ \A y \in Lesson : new[y] # NoContract =>
       /\ new[y] = Latest /\ Active(Latest)
       /\ y = x \/ life[y] \in {"scheduled", "pending"}
  /\ \A d \in Contract :
       Units(ChargedTo(d) \cup {y \in Lesson : new[y] = d}) <= contracts[d].units

LEMMA CreatedWithout ==
    ASSUME LifecycleInv, NEW x \in Lesson
    PROVE  CreatedReserves(x, reserve)
  <1>1. reserve \in [Lesson -> Contract \cup {NoContract}]
    BY DEF LifecycleInv, TypeOK
  <1>2. \A y \in Lesson : reserve[y] # NoContract =>
           reserve[y] = Latest /\ Active(Latest) /\ life[y] \in {"scheduled", "pending"}
    BY OnlyLatest DEF LifecycleInv, LessonsOK
  <1>3. \A d \in Contract :
           Units(ChargedTo(d) \cup {y \in Lesson : reserve[y] = d}) <= contracts[d].units
    BY DEF LifecycleInv, NeverOverdrawn, ReservedOn
  <1> QED
    BY <1>1, <1>2, <1>3 DEF CreatedReserves

LEMMA CreatedWith ==
    ASSUME LifecycleInv, NEW x \in Lesson, life[x] = "absent", Active(Latest)
    PROVE  CreatedReserves(x, HandedOut(Latest, contracts[Latest].units, reserve, charge,
                                        Scheduled \cup {x}))
  <1> DEFINE on == Scheduled \cup {x}
             units == contracts[Latest].units
             new == HandedOut(Latest, units, reserve, charge, on)
             fixed == Fixed(Latest, reserve, charge, on)
             all == ChargedTo(Latest) \cup ReservedOn(Latest)
  <1>1. /\ TypeOK /\ OneContractInForce /\ NoContract \notin Contract
        /\ Latest \in Contract /\ Latest \in Nat \ {0} /\ units \in Nat
    BY NoContractIsNone, ContractTypes DEF LifecycleInv
  <1>2. \A d \in Contract : contracts[d].units \in Int
    <2>1. \A d \in Contract : contracts[d].units \in Nat \ {0}
      BY <1>1, ContractTypes
    <2> QED
      BY <2>1
  <1>3. \A y \in on : y \in Lesson /\ charge[y] # Latest
    BY <1>1 DEF LifecycleInv, LessonsOK, Scheduled
  <1>4. Units(fixed) <= units
    <2>1. \A y \in Lesson : y \in fixed => y \in all
      BY DEF Fixed, ChargedTo, ReservedOn
    <2>2. Units(all) <= units
      BY <1>1 DEF LifecycleInv, NeverOverdrawn
    <2> HIDE DEF fixed, all, units
    <2>3. Units(fixed) <= Units(all)
      BY <2>1, UnitsSubset
    <2> QED
      BY <1>1, <2>2, <2>3, UnitsInt
  <1>5. HandsOut(Latest, units, reserve, charge, on, new)
    <2> HIDE DEF on, units
    <2> QED
      BY <1>1, <1>3, <1>4, HandedOutFits
  <1>6. \A y \in on : y = x \/ life[y] = "scheduled"
    BY DEF Scheduled
  <1> HIDE DEF new, on, units, fixed, all
  <1>7. /\ new = [y \in Lesson |-> new[y]]
        /\ \A y \in Lesson \ on : new[y] = reserve[y]
        /\ \A y \in Lesson : y \in on => new[y] \in {Latest, NoContract}
        /\ Units({y \in Lesson : charge[y] = Latest} \cup {y \in Lesson : new[y] = Latest})
             <= units
    BY <1>5 DEF HandsOut
  <1>8. \A y \in Lesson : new[y] # NoContract =>
           /\ new[y] = Latest /\ Active(Latest)
           /\ y = x \/ life[y] \in {"scheduled", "pending"}
    BY <1>1, <1>6, <1>7, OnlyLatest DEF LifecycleInv, LessonsOK
  <1>9. new \in [Lesson -> Contract \cup {NoContract}]
    <2>1. \A y \in Lesson : new[y] \in Contract \cup {NoContract}
      BY <1>1, <1>8
    <2> QED
      BY <1>7, <2>1
  <1>10. ASSUME NEW d \in Contract
         PROVE  Units(ChargedTo(d) \cup {y \in Lesson : new[y] = d}) <= contracts[d].units
    <2>1. CASE d = Latest
      BY <1>7, <2>1 DEF units, ChargedTo
    <2>2. CASE d # Latest
      <3> DEFINE A == ChargedTo(d) \cup {y \in Lesson : new[y] = d}
                 B == ChargedTo(d) \cup ReservedOn(d)
      <3>1. \A y \in Lesson : y \in A => y \in B
        <4>1. \A y \in Lesson : new[y] # d
          BY <1>1, <1>8, <2>2
        <4> QED
          BY <4>1
      <3>2. Units(B) <= contracts[d].units
        BY DEF LifecycleInv, NeverOverdrawn
      <3> HIDE DEF A, B
      <3>3. Units(A) <= Units(B) /\ Units(A) \in Int /\ Units(B) \in Int
        BY <3>1, UnitsSubset, UnitsInt
      <3>4. Units(A) <= contracts[d].units
        BY <1>2, <3>2, <3>3
      <3> QED
        BY <3>4 DEF A
    <2> QED
      BY <2>1, <2>2
  <1> QED
    BY <1>8, <1>9, <1>10 DEF CreatedReserves, new, on, units

LEMMA FinishCreateInv ==
    ASSUME LifecycleInv, NEW x \in Lesson, FinishCreate(x)
    PROVE  LifecycleInv'
  <1> DEFINE c == command[x].contract
  <1>1. TypeOK /\ LessonsOK /\ OneContractInForce
    BY DEF LifecycleInv
  <1>2. /\ command[x].op \in {"single", "series"}
        /\ reserve' = IF Active(c)
                      THEN HandedOut(c, contracts[c].units, reserve, charge, Scheduled \cup {x})
                      ELSE reserve
        /\ life' = [life EXCEPT ![x] = "scheduled"]
        /\ plan' = [plan EXCEPT ![x] = command[x].plan]
        /\ command' = [command EXCEPT ![x] = Idle]
        /\ contracts' = contracts /\ charge' = charge /\ preview' = preview
        /\ owed' = owed /\ paid' = paid /\ refunded' = refunded /\ mode' = mode
    BY DEF FinishCreate, money
  <1>3. life[x] = "absent" /\ command[x] # Idle
    BY <1>1, <1>2 DEF LessonsOK, Idle
  <1>4. c \in Contract /\ command[x].plan \in Contract
    BY <1>1, <1>3 DEF LessonsOK
  <1>5. CreatedReserves(x, reserve')
    <2>1. CASE Active(c)
      <3>1. c = Latest
        BY <1>1, <1>4, <2>1, OnlyLatest
      <3> QED
        BY <1>2, <1>3, <2>1, <3>1, CreatedWith
    <2>2. CASE ~Active(c)
      BY <1>2, <2>2, CreatedWithout
    <2> QED
      BY <2>1, <2>2
  <1> HIDE DEF c
  <1>6. Contract' = Contract /\ Latest' = Latest /\ CommandType' = CommandType
    BY <1>2 DEF Contract, Latest, CommandType
  <1>7. /\ command' \in [Lesson -> CommandType]
        /\ command'[x] = Idle /\ \A y \in Lesson \ {x} : command'[y] = command[y]
    BY <1>1, <1>2, IdleType DEF TypeOK, CommandType
  <1>8. /\ life' \in [Lesson -> Lives]
        /\ life'[x] = "scheduled" /\ \A y \in Lesson \ {x} : life'[y] = life[y]
    BY <1>1, <1>2 DEF TypeOK, Lives
  <1>9. /\ plan' \in [Lesson -> Contract \cup {NoContract}]
        /\ plan'[x] \in Contract /\ \A y \in Lesson \ {x} : plan'[y] = plan[y]
    BY <1>1, <1>2, <1>4 DEF TypeOK
  <1>10. TypeOK'
    BY <1>1, <1>2, <1>5, <1>6, <1>7, <1>8, <1>9
       DEF TypeOK, CreatedReserves, CommandType, Lives
  <1>11. LessonsOK'
    <2> SUFFICES ASSUME NEW y \in Lesson
                 PROVE  /\ life'[y] # "absent" => plan'[y] \in Contract
                        /\ command'[y] # Idle =>
                             /\ command'[y].op # "none"
                             /\ command'[y].plan \in Contract
                             /\ command'[y].contract \in Contract
                        /\ command'[y].op \in {"single", "series"} => life'[y] = "absent"
                        /\ command'[y].op = "complete" => life'[y] = "scheduled"
                        /\ charge'[y] # NoContract => life'[y] = "completed"
                        /\ reserve'[y] # NoContract => life'[y] \in {"scheduled", "pending"}
      BY <1>6 DEF LessonsOK
    <2>1. CASE y = x
      <3>1. charge'[x] = NoContract
        BY <1>1, <1>2, <1>3 DEF LessonsOK
      <3>2. command'[x].op = "none"
        BY <1>7, IdleType
      <3> QED
        BY <1>7, <1>8, <1>9, <2>1, <3>1, <3>2
    <2>2. CASE y # x
      <3>1. reserve'[y] # NoContract => life[y] \in {"scheduled", "pending"}
        BY <1>5, <2>2 DEF CreatedReserves
      <3> QED
        BY <1>1, <1>2, <1>7, <1>8, <1>9, <2>2, <3>1 DEF LessonsOK
    <2> QED
      BY <2>1, <2>2
  <1>12. PreviewsOK'
    BY <1>2, PreviewsKeep DEF LifecycleInv
  <1>13. \A y \in Lesson : reserve'[y] # NoContract => reserve'[y] = Latest /\ Active(Latest)
    BY <1>5 DEF CreatedReserves
  <1>14. ASSUME NEW d \in Contract
         PROVE  Units((ChargedTo(d) \cup ReservedOn(d))') <= contracts[d].units
    BY <1>2, <1>5 DEF CreatedReserves, ChargedTo, ReservedOn
  <1> QED
    BY <1>2, <1>10, <1>11, <1>12, <1>13, <1>14, LessonsKeep

-----------------------------------------------------------------------------
(* Money.                                                                  *)

LEMMA PayInv ==
    ASSUME LifecycleInv, NEW amount \in Amounts, Pay(amount)
    PROVE  LifecycleInv'
  <1>1. /\ paid' = paid + amount /\ paid + amount <= MaxMoney
        /\ contracts' = contracts /\ life' = life /\ plan' = plan /\ reserve' = reserve
        /\ charge' = charge /\ command' = command /\ owed' = owed
        /\ refunded' = refunded /\ mode' = mode /\ preview' = preview
    BY DEF Pay, lessons
  <1>2. paid \in 0 .. MaxMoney /\ amount \in Nat
    BY LifecycleAssumption DEF LifecycleInv, TypeOK
  <1>3. paid' \in 0 .. MaxMoney
    BY <1>1, <1>2, LifecycleAssumption
  <1>4. TypeOK' /\ LessonsOK' /\ PreviewsOK'
    BY <1>1, <1>3, PreviewsKeep DEF LifecycleInv, TypeOK, LessonsOK, Contract
  <1> QED
    BY <1>1, <1>4, OthersKeep

LEMMA RefundInv ==
    ASSUME LifecycleInv, NEW amount \in Amounts, Refund(amount)
    PROVE  LifecycleInv'
  <1>1. /\ refunded' = refunded + amount /\ amount <= paid - refunded
        /\ contracts' = contracts /\ life' = life /\ plan' = plan /\ reserve' = reserve
        /\ charge' = charge /\ command' = command /\ owed' = owed
        /\ paid' = paid /\ mode' = mode /\ preview' = preview
    BY DEF Refund, lessons, Net
  <1>2. /\ paid \in 0 .. MaxMoney /\ refunded \in 0 .. MaxMoney /\ amount \in Nat
        /\ MaxMoney \in Nat
    BY LifecycleAssumption DEF LifecycleInv, TypeOK
  <1>3. refunded' \in 0 .. MaxMoney
    BY <1>1, <1>2
  <1>4. TypeOK' /\ LessonsOK' /\ PreviewsOK'
    BY <1>1, <1>3, PreviewsKeep DEF LifecycleInv, TypeOK, LessonsOK, Contract
  <1> QED
    BY <1>1, <1>4, OthersKeep

-----------------------------------------------------------------------------
(* Previews.                                                               *)

\* What a preview shows depends on the terms of contracts, which never change.
LEMMA PreviewsGrow ==
    ASSUME TypeOK, NEW p, PreviewOK(p), mode' = mode, Contract \subseteq Contract',
           \A d \in Contract : /\ contracts'[d].units = contracts[d].units
                               /\ contracts'[d].price = contracts[d].price
                               /\ contracts'[d].prior = contracts[d].prior
    PROVE  PreviewOK(p)'
  <1>1. CASE p = NoPreview
    BY <1>1 DEF PreviewOK
  <1>2. CASE p.kind = "replace" /\ p # NoPreview
    <2>1. p.contract \in Contract /\ p.terms \in Terms
          /\ p.position = p.facts.owed + (p.terms.price - ValueLeft(p.contract, p.facts.used))
                          - p.facts.net
      BY <1>2 DEF PreviewOK
    <2>2. ASSUME NEW u PROVE ValueLeft(p.contract, u)' = ValueLeft(p.contract, u)
      BY <2>1 DEF ValueLeft
    <2> QED
      BY <1>2, <2>1, <2>2 DEF PreviewOK
  <1>3. CASE p.kind = "cancel" /\ p # NoPreview
    <2>1. /\ p.contract \in Contract
          /\ p.refund = RefundFor(p.contract, p.facts)
          /\ p.position = p.facts.owed - CreditFor(p.contract, p.facts)
                          - (p.facts.paid - p.facts.refunded)
      BY <1>3 DEF PreviewOK
    <2>2. ASSUME NEW f
          PROVE  /\ UnitsLeft(p.contract, f)' = UnitsLeft(p.contract, f)
                 /\ CreditFor(p.contract, f)' = CreditFor(p.contract, f)
                 /\ ConfirmedFor(p.contract, f)' = ConfirmedFor(p.contract, f)
                 /\ RefundFor(p.contract, f)' = RefundFor(p.contract, f)
      BY <2>1 DEF UnitsLeft, CreditFor, ConfirmedFor, RefundFor
    <2> QED
      BY <1>3, <2>1, <2>2 DEF PreviewOK
  <1> QED
    BY <1>1, <1>2, <1>3 DEF PreviewOK

LEMMA NewPreview ==
    ASSUME LifecycleInv, NEW e \in Actors, NEW p, PreviewOK(p),
           preview' = [preview EXCEPT ![e] = p], UNCHANGED <<contracts, lessons, money>>
    PROVE  LifecycleInv'
  <1>1. /\ contracts' = contracts /\ life' = life /\ plan' = plan /\ reserve' = reserve
        /\ charge' = charge /\ command' = command /\ owed' = owed
        /\ paid' = paid /\ refunded' = refunded /\ mode' = mode
    BY DEF lessons, money
  <1>2. Contract' = Contract
    BY <1>1 DEF Contract
  <1>3. /\ preview = [a \in Actors |-> preview[a]] /\ \A a \in Actors : PreviewOK(preview[a])
    BY DEF LifecycleInv, PreviewsOK
  <1>4. /\ preview' = [a \in Actors |-> preview'[a]]
        /\ \A a \in Actors : preview'[a] = IF a = e THEN p ELSE preview[a]
    BY <1>3
  <1>5. ASSUME NEW a \in Actors PROVE PreviewOK(preview'[a])
    BY <1>3, <1>4
  <1>6. ASSUME NEW q, PreviewOK(q) PROVE PreviewOK(q)'
    BY <1>1, <1>2, <1>6, PreviewsGrow DEF LifecycleInv
  <1>7. ASSUME NEW a \in Actors PROVE PreviewOK(preview[a])'
    <2>1. PICK q : q = preview'[a]
      OBVIOUS
    <2>2. PreviewOK(q)
      BY <1>5, <2>1
    <2>3. PreviewOK(q)'
      BY <1>6, <2>2
    <2> QED
      BY <2>1, <2>3
  <1>8. PreviewsOK'
    BY <1>4, <1>7 DEF PreviewsOK
  <1>9. TypeOK' /\ LessonsOK'
    BY <1>1, <1>2 DEF LifecycleInv, TypeOK, LessonsOK
  <1> QED
    BY <1>1, <1>8, <1>9, OthersKeep

LEMMA PreviewReplaceInv ==
    ASSUME LifecycleInv, NEW e \in Actors, NEW terms \in Packages, PreviewReplace(e, terms)
    PROVE  LifecycleInv'
  <1> DEFINE p == [kind |-> "replace", contract |-> Latest, terms |-> terms,
                   facts |-> ReplaceFacts(Latest),
                   position |-> owed + Delta(Latest, terms) - Net]
  <1>1. terms \in Terms /\ Latest \in Contract
    BY LifecycleAssumption, ContractTypes DEF LifecycleInv
  <1>2. RemainingValue(Latest) = ValueLeft(Latest, Used(Latest))
    BY DEF RemainingValue, ValueLeft
  <1>3. PreviewOK(p)
    BY <1>1, <1>2 DEF PreviewOK, ReplaceFacts, Delta
  <1>4. preview' = [preview EXCEPT ![e] = p] /\ UNCHANGED <<contracts, lessons, money>>
    BY DEF PreviewReplace
  <1> HIDE DEF p
  <1> QED
    BY <1>3, <1>4, NewPreview

\* The amounts of a cancellation, as they are now, follow from its facts.
LEMMA CancelAmounts ==
    ASSUME NEW c
    PROVE  /\ UnusedUnits(c) = UnitsLeft(c, CancelFacts(c))
           /\ UnusedValue(c) = CreditFor(c, CancelFacts(c))
           /\ Recommended(c) = RefundFor(c, CancelFacts(c))
  <1>1. UnusedUnits(c) = UnitsLeft(c, CancelFacts(c))
    BY DEF UnusedUnits, UnitsLeft, CancelFacts
  <1>2. UnusedValue(c) = CreditFor(c, CancelFacts(c))
    BY <1>1 DEF UnusedValue, CreditFor
  <1>3. Confirmed(c) = ConfirmedFor(c, CancelFacts(c))
    BY DEF Confirmed, ConfirmedFor, CancelFacts
  <1>4. CancelFacts(c).refunded = refunded
    BY DEF CancelFacts
  <1> QED
    BY <1>1, <1>2, <1>3, <1>4 DEF Recommended, RefundFor

LEMMA PreviewCancelInv ==
    ASSUME LifecycleInv, NEW e \in Actors, PreviewCancel(e)
    PROVE  LifecycleInv'
  <1> DEFINE p == [kind |-> "cancel", contract |-> Latest, facts |-> CancelFacts(Latest),
                   refund |-> Recommended(Latest),
                   position |-> owed - UnusedValue(Latest) - Net]
  <1>1. Latest \in Contract
    BY ContractTypes DEF LifecycleInv
  <1>2. /\ CancelFacts(Latest).owed = owed
        /\ CancelFacts(Latest).paid - CancelFacts(Latest).refunded = Net
    BY DEF CancelFacts, Net
  <1>3. PreviewOK(p)
    BY <1>1, <1>2, CancelAmounts DEF PreviewOK
  <1>4. preview' = [preview EXCEPT ![e] = p] /\ UNCHANGED <<contracts, lessons, money>>
    BY DEF PreviewCancel
  <1> HIDE DEF p
  <1> QED
    BY <1>3, <1>4, NewPreview

-----------------------------------------------------------------------------
(* A contract is replaced.                                                 *)

Row == [units : Nat \ {0}, price : Nat, status : Statuses, prior : Int]

LEMMA RowTypes ==
    ASSUME TypeOK
    PROVE  contracts \in Seq(Row) /\ \A c \in Contract : contracts[c] \in Row
  <1>1. contracts \in Seq(Row)
    BY DEF TypeOK, Row
  <1> QED
    BY <1>1 DEF Contract

\* The contracts after the latest was replaced.
LEMMA ReplacedContracts ==
    ASSUME TypeOK, NEW terms \in Terms, NEW prior \in Int,
           contracts' = Append([contracts EXCEPT ![Latest].status = "replaced"],
                               NewContract(terms, prior))
    PROVE  /\ contracts' \in Seq(Row) /\ contracts' # << >>
           /\ Latest' = Latest + 1
           /\ Contract' = Contract \cup {Latest + 1}
           /\ contracts'[Latest + 1] = NewContract(terms, prior)
           /\ \A d \in Contract :
                /\ contracts'[d].units = contracts[d].units
                /\ contracts'[d].price = contracts[d].price
                /\ contracts'[d].prior = contracts[d].prior
                /\ contracts'[d].status = IF d = Latest THEN "replaced"
                                          ELSE contracts[d].status
  <1> DEFINE old == [contracts EXCEPT ![Latest].status = "replaced"]
             new == NewContract(terms, prior)
  <1>1. contracts \in Seq(Row) /\ Latest \in Contract /\ contracts[Latest] \in Row
        /\ \A c \in Contract : contracts[c] \in Row
    BY RowTypes, ContractTypes
  <1>2. new \in Row
    <2>1. terms.units \in Nat \ {0} /\ terms.price \in Nat
      BY DEF Terms
    <2> QED
      BY <2>1 DEF NewContract, Row, Statuses
  <1>3. /\ [contracts[Latest] EXCEPT !.status = "replaced"] \in Row
        /\ old[Latest] = [contracts[Latest] EXCEPT !.status = "replaced"]
    <2>1. ASSUME NEW r \in Row PROVE [r EXCEPT !.status = "replaced"] \in Row
      BY DEF Row, Statuses
    <2>2. Latest \in DOMAIN contracts
      BY <1>1 DEF Contract
    <2>3. old[Latest] = [contracts[Latest] EXCEPT !.status = "replaced"]
      BY <2>2
    <2> QED
      BY <1>1, <2>1, <2>3
  <1>4. /\ old \in Seq(Row) /\ Len(old) = Latest
        /\ \A d \in Contract : d # Latest => old[d] = contracts[d]
    <2>1. old = [contracts EXCEPT ![Latest] = [contracts[Latest] EXCEPT !.status = "replaced"]]
      OBVIOUS
    <2> QED
      BY <1>1, <1>3, <2>1 DEF Latest, Contract
  <1>5. /\ old[Latest].units = contracts[Latest].units
        /\ old[Latest].price = contracts[Latest].price
        /\ old[Latest].prior = contracts[Latest].prior
        /\ old[Latest].status = "replaced"
    BY <1>1, <1>3 DEF Row
  <1> HIDE DEF old, new
  <1>6. Latest \in Nat \ {0} /\ Contract = 1 .. Latest
    BY ContractTypes DEF Contract, Latest
  <1>7. contracts' = Append(old, new)
    BY DEF old, new
  <1>8. /\ contracts' \in Seq(Row) /\ Len(contracts') = Latest + 1
        /\ contracts'[Latest + 1] = new
        /\ \A d \in 1 .. Latest : contracts'[d] = old[d]
    <2>1. PICK l : l = Latest
      OBVIOUS
    <2>2. l \in Nat \ {0} /\ Len(old) = l /\ old \in Seq(Row)
      BY <1>4, <1>6, <2>1
    <2>3. /\ Append(old, new) \in Seq(Row) /\ Len(Append(old, new)) = l + 1
          /\ Append(old, new)[l + 1] = new
          /\ \A d \in 1 .. l : Append(old, new)[d] = old[d]
      BY <1>2, <2>2
    <2> QED
      BY <1>7, <2>1, <2>3
  <1>9. Latest' = Latest + 1 /\ Contract' = 1 .. Latest + 1
    BY <1>8 DEF Latest, Contract
  <1>10. Contract' = Contract \cup {Latest + 1}
    BY <1>6, <1>9
  <1>11. contracts' # << >>
    BY <1>6, <1>8
  <1> QED
    BY <1>4, <1>5, <1>6, <1>8, <1>9, <1>10, <1>11 DEF new

LEMMA ReplaceInv ==
    ASSUME LifecycleInv, NEW e \in Actors, Replace(e)
    PROVE  LifecycleInv'
  <1> DEFINE c == preview[e].contract
             terms == preview[e].terms
             n == Latest + 1
             held == Transfer(c, terms, n)
             new == HandedOut(n, terms.units, held, charge, Scheduled)
  <1>1. /\ TypeOK /\ LessonsOK /\ PreviewsOK /\ OneContractInForce /\ NeverOverdrawn /\ BooksOK
        /\ NoContract \notin Contract /\ Latest \in Contract /\ Latest \in Nat \ {0}
    BY NoContractIsNone, ContractTypes DEF LifecycleInv
  <1>2. /\ preview[e].kind = "replace" /\ Active(c)
        /\ contracts' = Append([contracts EXCEPT ![c].status = "replaced"],
                               NewContract(terms, contracts[c].prior + UsedValue(c)))
        /\ reserve' = new
        /\ owed' = owed + Delta(c, terms)
        /\ life' = life /\ plan' = plan /\ charge' = charge /\ command' = command
        /\ paid' = paid /\ refunded' = refunded /\ mode' = mode /\ preview' = preview
    BY DEF Replace, ReplaceCurrent
  <1>3. c \in Contract /\ terms \in Terms
    <2>1. PreviewOK(preview[e])
      BY <1>1 DEF PreviewsOK
    <2>2. preview[e] # NoPreview /\ preview[e].kind # "cancel"
      BY <1>2 DEF NoPreview
    <2> QED
      BY <2>1, <2>2 DEF PreviewOK
  <1>4. c = Latest
    BY <1>1, <1>2, <1>3, OnlyLatest
  <1>5. /\ terms.units \in Nat \ {0} /\ terms.price \in Nat
    BY <1>3 DEF Terms
  <1>6. /\ UsedValue(Latest) \in Int /\ RemainingValue(Latest) \in Nat
        /\ UsedValue(Latest) = contracts[Latest].price - RemainingValue(Latest)
        /\ contracts[Latest].price \in Nat /\ contracts[Latest].prior \in Int
    BY <1>1, ValueTypes, ContractTypes
  <1> DEFINE prior == contracts[Latest].prior + UsedValue(Latest)
  <1>7. prior \in Int
    BY <1>6
  <1>8. contracts' = Append([contracts EXCEPT ![Latest].status = "replaced"],
                            NewContract(terms, prior))
    BY <1>2, <1>4
  <1> HIDE DEF prior
  <1>9. /\ contracts' \in Seq(Row) /\ contracts' # << >>
        /\ Latest' = n /\ Contract' = Contract \cup {n}
        /\ contracts'[n] = NewContract(terms, prior)
        /\ \A d \in Contract :
             /\ contracts'[d].units = contracts[d].units
             /\ contracts'[d].price = contracts[d].price
             /\ contracts'[d].prior = contracts[d].prior
             /\ contracts'[d].status = IF d = Latest THEN "replaced"
                                       ELSE contracts[d].status
    BY <1>1, <1>3, <1>7, <1>8, ReplacedContracts
  <1>10. /\ contracts'[n].units = terms.units /\ contracts'[n].price = terms.price
         /\ contracts'[n].prior = prior /\ contracts'[n].status = "active"
    BY <1>9 DEF NewContract
  <1>11. n \in Nat \ {0} /\ n \notin Contract /\ n # NoContract
    BY <1>1 DEF Contract, Latest, NoContract
  <1>12. /\ \A x \in Lesson : held[x] = IF x \in Transferable(Latest, terms) THEN n
                                        ELSE NoContract
    <2>1. \A x \in Lesson : held[x] = IF reserve[x] # Latest THEN reserve[x]
                                      ELSE IF x \in Transferable(Latest, terms) THEN n
                                      ELSE NoContract
      BY <1>4 DEF Transfer
    <2>2. \A x \in Lesson : reserve[x] # Latest => reserve[x] = NoContract
      BY <1>1, OnlyLatest
    <2>3. \A x \in Transferable(Latest, terms) : reserve[x] = Latest
      BY DEF Transferable, ReservedOn
    <2> HIDE DEF held
    <2> QED
      BY <1>1, <2>1, <2>2, <2>3
  <1> DEFINE fixed == Fixed(n, held, charge, Scheduled)
  <1>13. \A x \in Lesson : charge[x] # n
    BY <1>1, <1>11 DEF TypeOK
  <1>14. Units(fixed) <= terms.units
    <2>1. \A x \in Lesson : x \in fixed => x \in Transferable(Latest, terms)
      BY <1>11, <1>12, <1>13 DEF Fixed
    <2>2. Units(Transferable(Latest, terms)) <= terms.units
      <3> DEFINE R == ReservedOn(Latest)
                 u == terms.units
      <3>1. R \subseteq Lesson /\ u \in Nat
        BY <1>5 DEF ReservedOn
      <3>2. Transferable(Latest, terms) = {x \in R : Units({y \in R : y <= x}) <= u}
        BY DEF Transferable
      <3> HIDE DEF R, u
      <3>3. Units({x \in R : Units({y \in R : y <= x}) <= u}) <= u
        BY <3>1, PrefixFits
      <3> QED
        BY <3>2, <3>3 DEF u
    <2> HIDE DEF fixed
    <2>3. Units(fixed) <= Units(Transferable(Latest, terms))
      BY <2>1, UnitsSubset
    <2> QED
      BY <1>5, <2>2, <2>3, UnitsInt
  <1> HIDE DEF held
  <1>15. HandsOut(n, terms.units, held, charge, Scheduled, new)
    <2>1. \A x \in Scheduled : charge[x] # n
      BY <1>13 DEF Scheduled
    <2>2. terms.units \in Nat
      BY <1>5
    <2> HIDE DEF n, terms
    <2> QED
      BY <1>11, <1>14, <2>1, <2>2, HandedOutFits DEF fixed
  <1> HIDE DEF new, n, fixed, terms, c
  <1>16. /\ new = [x \in Lesson |-> new[x]]
         /\ \A x \in Lesson \ Scheduled : new[x] = held[x]
         /\ \A x \in Lesson : x \in Scheduled => new[x] \in {n, NoContract}
         /\ Units({x \in Lesson : charge[x] = n} \cup {x \in Lesson : new[x] = n})
              <= terms.units
    BY <1>15 DEF HandsOut
  <1>17. \A x \in Lesson : new[x] \in {n, NoContract}
    BY <1>12, <1>16
  <1>18. \A x \in Lesson : new[x] # NoContract => life[x] \in {"scheduled", "pending"}
    <2>1. \A x \in Transferable(Latest, terms) : x \in Lesson /\ reserve[x] # NoContract
      BY <1>1 DEF Transferable, ReservedOn
    <2>2. \A x \in Transferable(Latest, terms) : life[x] \in {"scheduled", "pending"}
      BY <1>1, <2>1 DEF LessonsOK
    <2>3. \A x \in Scheduled : life[x] = "scheduled"
      BY DEF Scheduled
    <2> QED
      BY <1>12, <1>16, <2>2, <2>3
  <1>19. TypeOK'
    <2>1. reserve' \in [Lesson -> Contract' \cup {NoContract}]
      BY <1>2, <1>9, <1>16, <1>17
    <2>2. owed' \in Int
      <3>1. owed \in Int
        BY <1>1 DEF TypeOK
      <3>2. owed' = owed + (terms.price - RemainingValue(Latest))
        BY <1>2, <1>4 DEF Delta
      <3> QED
        BY <1>5, <1>6, <3>1, <3>2
    <2>3. /\ plan' \in [Lesson -> Contract' \cup {NoContract}]
          /\ charge' \in [Lesson -> Contract' \cup {NoContract}]
      BY <1>1, <1>2, <1>9 DEF TypeOK
    <2>4. command' \in [Lesson -> [op : {"none", "single", "series", "complete"},
                                   plan : Contract' \cup {NoContract},
                                   contract : Contract' \cup {NoContract}]]
      <3>1. command \in [Lesson -> CommandType]
        BY <1>1 DEF TypeOK, CommandType
      <3>2. CommandType \subseteq CommandType'
        BY <1>9 DEF CommandType
      <3>3. command' \in [Lesson -> CommandType']
        BY <1>2, <3>1, <3>2
      <3> QED
        BY <3>3 DEF CommandType
    <2> QED
      BY <1>1, <1>2, <1>9, <2>1, <2>2, <2>3, <2>4 DEF TypeOK, Row
  <1>20. LessonsOK'
    BY <1>1, <1>2, <1>9, <1>18 DEF LessonsOK
  <1>21. PreviewsOK'
    <2>1. ASSUME NEW a \in Actors PROVE PreviewOK(preview[a])'
      <3>1. PICK p : p = preview[a]
        OBVIOUS
      <3>2. PreviewOK(p)
        BY <1>1, <3>1 DEF PreviewsOK
      <3>3. PreviewOK(p)'
        BY <1>1, <1>2, <1>9, <3>2, PreviewsGrow
      <3> QED
        BY <1>2, <3>1, <3>3
    <2> QED
      BY <1>1, <1>2, <2>1 DEF PreviewsOK
  <1>22. OneContractInForce'
    <2>1. \A d \in Contract' : (d = Latest') # (contracts'[d].status = "replaced")
      BY <1>1, <1>9, <1>10, <1>11 DEF OneContractInForce
    <2>2. \A x \in Lesson : reserve'[x] # NoContract => contracts'[reserve'[x]].status = "active"
      BY <1>2, <1>10, <1>17
    <2> QED
      BY <2>1, <2>2 DEF OneContractInForce, Active
  <1>23. NeverOverdrawn'
    <2> SUFFICES ASSUME NEW d \in Contract'
                 PROVE  Units({x \in Lesson : charge'[x] = d} \cup {x \in Lesson : reserve'[x] = d})
                          <= contracts'[d].units
      BY DEF NeverOverdrawn, ChargedTo, ReservedOn
    <2>1. CASE d = n
      BY <1>2, <1>10, <1>16, <2>1
    <2>2. CASE d \in Contract
      <3> DEFINE A == {x \in Lesson : charge'[x] = d} \cup {x \in Lesson : reserve'[x] = d}
                 B == ChargedTo(d) \cup ReservedOn(d)
      <3>1. \A x \in Lesson : x \in A => x \in B
        <4>1. \A x \in Lesson : reserve'[x] # d
          BY <1>1, <1>2, <1>11, <1>17, <2>2
        <4> QED
          BY <1>2, <4>1 DEF ChargedTo
      <3>2. Units(B) <= contracts[d].units
        BY <1>1, <2>2 DEF NeverOverdrawn
      <3>3. contracts'[d].units = contracts[d].units
        BY <1>9, <2>2
      <3> HIDE DEF A, B
      <3>4. contracts[d].units \in Nat \ {0}
        BY <1>1, <2>2, ContractTypes
      <3>5. Units(A) <= Units(B) /\ Units(A) \in Int /\ Units(B) \in Int
        BY <3>1, UnitsSubset, UnitsInt
      <3>6. Units(A) <= contracts'[d].units
        BY <3>2, <3>3, <3>4, <3>5
      <3> QED
        BY <3>6 DEF A
    <2> QED
      BY <1>9, <2>1, <2>2
  <1>24. BooksOK'
    <2> DEFINE f == [d \in 1 .. Latest - 1 |-> UsedValue(d)]
               h == [d \in 1 .. Latest |-> UsedValue(d)]
    <2>1. BooksOf(Latest)
      BY <1>1 DEF BooksOK
    <2>2. \A d \in Contract : UsedValue(d) \in Int
      BY <1>1, ValueTypes
    <2>3. Contract = 1 .. Latest
      BY DEF Contract, Latest
    <2>4. SumTo(Latest, h) = prior
      <3> DEFINE m == Latest - 1
      <3>1. m \in Nat /\ m + 1 = Latest
        BY <1>1
      <3>2. f \in [1 .. m -> Int] /\ h \in [1 .. m + 1 -> Int]
            /\ \A k \in 1 .. m : h[k] = f[k]
        BY <1>1, <2>2, <2>3
      <3>3. h[m + 1] = UsedValue(Latest)
        BY <1>1, <3>1
      <3>4. contracts[Latest].prior = SumTo(m, f)
        BY <2>1 DEF BooksOf
      <3> HIDE DEF f, h, m
      <3>5. SumTo(m + 1, h) = SumTo(m, f) + h[m + 1]
        BY <3>1, <3>2, SumNext
      <3> QED
        BY <3>1, <3>3, <3>4, <3>5 DEF prior
    <2>5. ASSUME NEW d \in Contract PROVE UsedValue(d)' = UsedValue(d)
      <3>1. ChargedTo(d)' = ChargedTo(d)
        BY <1>2 DEF ChargedTo
      <3> QED
        BY <1>9, <3>1, SameValue
    <2>6. PICK k : k = n
      OBVIOUS
    <2>7. k - 1 = Latest
      BY <1>1, <2>6 DEF n
    <2>8. [d \in 1 .. k - 1 |-> UsedValue(d)]' = h
      BY <2>3, <2>5, <2>7
    <2>9. contracts'[k].prior = SumTo(k - 1, h)
      BY <1>10, <2>4, <2>6, <2>7
    <2>10. owed' = prior + terms.price
      <3>1. owed = contracts[Latest].prior + contracts[Latest].price
        BY <1>2, <1>4, <2>1 DEF BooksOf
      <3>2. owed' = owed + (terms.price - RemainingValue(Latest))
        BY <1>2, <1>4 DEF Delta
      <3> QED
        BY <1>5, <1>6, <3>1, <3>2 DEF prior
    <2>11. BooksOf(k)'
      BY <1>10, <2>6, <2>8, <2>9, <2>10 DEF BooksOf, Active
    <2> QED
      BY <1>9, <2>6, <2>11 DEF BooksOK
  <1> QED
    BY <1>19, <1>20, <1>21, <1>22, <1>23, <1>24 DEF LifecycleInv

-----------------------------------------------------------------------------
(* A contract is cancelled.                                                *)

\* What is credited lies between nothing and what is left of the contract.
LEMMA CreditBounds ==
    ASSUME TypeOK, NEW c \in Contract
    PROVE  /\ UnusedValue(c) \in Nat /\ UnusedValue(c) <= RemainingValue(c)
           /\ Recommended(c) \in Nat /\ Recommended(c) <= UnusedValue(c)
  <1> DEFINE u == contracts[c].units
             p == contracts[c].price
             used == Used(c)
             kept == Units(ReservedOn(c))
  <1>1. u \in Nat \ {0} /\ p \in Nat /\ contracts[c].prior \in Int
        /\ used \in Nat /\ kept \in Nat
    BY ContractTypes, UnitsType DEF Used
  <1>2. UnusedUnits(c) = u - Min(u, used + kept)
    BY DEF UnusedUnits
  <1>3. UnusedValue(c) = (p * UnusedUnits(c)) \div u
        /\ RemainingValue(c) = (p * Max(0, u - used)) \div u
    BY DEF UnusedValue, RemainingValue
  <1> HIDE DEF u, p, used, kept
  <1>4. /\ UnusedUnits(c) \in Nat /\ Max(0, u - used) \in Nat
        /\ UnusedUnits(c) <= Max(0, u - used)
    BY <1>1, <1>2 DEF Min, Max
  <1>5. UnusedValue(c) \in Nat /\ UnusedValue(c) <= RemainingValue(c)
    <2> DEFINE a == UnusedUnits(c)
               b == Max(0, u - used)
    <2>1. a \in Nat /\ b \in Nat /\ a <= b
      BY <1>4
    <2> HIDE DEF a, b
    <2>2. (p * a) \div u \in Nat
      BY <1>1, <2>1, ShareType
    <2>3. (p * a) \div u <= (p * b) \div u
      BY <1>1, <2>1, ShareMonotone
    <2> QED
      BY <1>3, <2>2, <2>3 DEF a, b
  <1>6. Confirmed(c) \in Nat
    <2>1. paid \in Nat
      BY DEF TypeOK
    <2>2. p = contracts[c].price
      BY DEF p
    <2> QED
      BY <1>1, <2>1, <2>2 DEF Confirmed, Min, Max
  <1>7. (Confirmed(c) * UnusedUnits(c)) \div u \in Nat
    BY <1>1, <1>4, <1>6, ShareType
  <1>8. Recommended(c) = Min(UnusedValue(c),
                             Max(0, ((Confirmed(c) * UnusedUnits(c)) \div u) - refunded))
    BY DEF Recommended, u
  <1>9. refunded \in Nat
    BY DEF TypeOK
  <1> QED
    BY <1>5, <1>7, <1>8, <1>9 DEF Min, Max

LEMMA CancelInv ==
    ASSUME LifecycleInv, NEW e \in Actors, preview[e].kind = "cancel",
           NEW refund \in {0, preview[e].refund}, Cancel(e, refund)
    PROVE  LifecycleInv' /\ owed' - Net' = preview[e].position + preview[e].refund - refund
  <1> DEFINE c == preview[e].contract
  <1>1. /\ TypeOK /\ LessonsOK /\ PreviewsOK /\ OneContractInForce /\ NeverOverdrawn /\ BooksOK
        /\ NoContract \notin Contract /\ Latest \in Contract /\ Latest \in Nat \ {0}
    BY NoContractIsNone, ContractTypes DEF LifecycleInv
  <1>2. /\ Active(c) /\ CancelFacts(c) = preview[e].facts
        /\ refund <= Recommended(c)
        /\ contracts' = [contracts EXCEPT ![c].status = "cancelled"]
        /\ reserve' = [x \in Lesson |-> IF reserve[x] = c THEN NoContract ELSE reserve[x]]
        /\ owed' = owed - (UnusedValue(c) - Recommended(c) + refund)
        /\ life' = life /\ plan' = plan /\ charge' = charge /\ command' = command
        /\ paid' = paid /\ refunded' = refunded /\ mode' = mode /\ preview' = preview
    BY DEF Cancel, CancelCurrent
  <1>3. /\ c \in Contract
        /\ preview[e].refund = RefundFor(c, preview[e].facts)
        /\ preview[e].position = preview[e].facts.owed - CreditFor(c, preview[e].facts)
                                 - (preview[e].facts.paid - preview[e].facts.refunded)
    <2>1. PreviewOK(preview[e])
      BY <1>1 DEF PreviewsOK
    <2>2. preview[e] # NoPreview /\ preview[e].kind # "replace"
      BY DEF NoPreview
    <2> QED
      BY <2>1, <2>2 DEF PreviewOK
  <1>4. c = Latest
    BY <1>1, <1>2, <1>3, OnlyLatest
  <1>5. /\ preview[e].refund = Recommended(c)
        /\ preview[e].position = owed - UnusedValue(c) - (paid - refunded)
    <2>1. /\ CancelFacts(c).owed = owed /\ CancelFacts(c).paid = paid
          /\ CancelFacts(c).refunded = refunded
      BY DEF CancelFacts
    <2> QED
      BY <1>2, <1>3, <2>1, CancelAmounts
  <1> HIDE DEF c
  <1>6. /\ owed \in Int /\ paid \in Int /\ refunded \in Int
        /\ UnusedValue(c) \in Nat /\ UnusedValue(c) <= RemainingValue(c)
        /\ Recommended(c) \in Nat /\ Recommended(c) <= UnusedValue(c)
    BY <1>1, <1>3, CreditBounds DEF TypeOK
  <1>7. refund \in Nat /\ refund <= Recommended(c)
    BY <1>2, <1>5, <1>6
  <1>8. owed' - Net' = preview[e].position + preview[e].refund - refund
    BY <1>2, <1>5, <1>6, <1>7 DEF Net
  <1>9. /\ contracts' \in Seq(Row) /\ Len(contracts') = Latest
        /\ \A d \in Contract :
             /\ contracts'[d].units = contracts[d].units
             /\ contracts'[d].price = contracts[d].price
             /\ contracts'[d].prior = contracts[d].prior
             /\ contracts'[d].status = IF d = Latest THEN "cancelled"
                                       ELSE contracts[d].status
    <2>1. contracts \in Seq(Row) /\ \A d \in Contract : contracts[d] \in Row
      BY <1>1, RowTypes
    <2>2. ASSUME NEW r \in Row
          PROVE  /\ [r EXCEPT !.status = "cancelled"] \in Row
                 /\ [r EXCEPT !.status = "cancelled"].units = r.units
                 /\ [r EXCEPT !.status = "cancelled"].price = r.price
                 /\ [r EXCEPT !.status = "cancelled"].prior = r.prior
                 /\ [r EXCEPT !.status = "cancelled"].status = "cancelled"
      BY DEF Row, Statuses
    <2>3. contracts' = [contracts EXCEPT ![Latest] = [contracts[Latest] EXCEPT !.status = "cancelled"]]
      BY <1>2, <1>4
    <2>4. Latest \in DOMAIN contracts /\ Contract = DOMAIN contracts
      BY <1>1, <2>1 DEF Contract
    <2>5. contracts' \in Seq(Row) /\ Len(contracts') = Latest
      BY <1>1, <2>1, <2>2, <2>3, <2>4 DEF Latest
    <2>6. \A d \in Contract :
             contracts'[d] = IF d = Latest THEN [contracts[Latest] EXCEPT !.status = "cancelled"]
                             ELSE contracts[d]
      BY <2>1, <2>3, <2>4
    <2>7. ASSUME NEW d \in Contract
          PROVE  /\ contracts'[d].units = contracts[d].units
                 /\ contracts'[d].price = contracts[d].price
                 /\ contracts'[d].prior = contracts[d].prior
                 /\ contracts'[d].status = IF d = Latest THEN "cancelled"
                                           ELSE contracts[d].status
      <3>1. CASE d = Latest
        <4>1. contracts'[d] = [contracts[d] EXCEPT !.status = "cancelled"]
          BY <2>6, <3>1
        <4>2. contracts[d] \in Row
          BY <2>1
        <4> QED
          BY <2>2, <3>1, <4>1, <4>2
      <3>2. CASE d # Latest
        BY <2>6, <3>2
      <3> QED
        BY <3>1, <3>2
    <2> QED
      BY <2>5, <2>7
  <1>10. Latest' = Latest /\ Contract' = Contract /\ contracts' # << >>
    BY <1>1, <1>9 DEF Latest, Contract
  <1>11. reserve' = [x \in Lesson |-> NoContract]
    <2>1. \A x \in Lesson : reserve[x] # NoContract => reserve[x] = Latest
      BY <1>1, OnlyLatest
    <2> QED
      BY <1>2, <1>4, <2>1
  <1>12. TypeOK'
    <2>1. owed' \in Int
      BY <1>2, <1>6, <1>7
    <2>2. reserve' \in [Lesson -> Contract' \cup {NoContract}]
      BY <1>11
    <2> QED
      BY <1>1, <1>2, <1>9, <1>10, <2>1, <2>2 DEF TypeOK, Row
  <1>13. LessonsOK'
    BY <1>1, <1>2, <1>10, <1>11 DEF LessonsOK
  <1>14. PreviewsOK'
    <2>1. ASSUME NEW a \in Actors PROVE PreviewOK(preview[a])'
      <3>1. PICK p : p = preview[a]
        OBVIOUS
      <3>2. PreviewOK(p)
        BY <1>1, <3>1 DEF PreviewsOK
      <3>3. PreviewOK(p)'
        BY <1>1, <1>2, <1>9, <1>10, <3>2, PreviewsGrow
      <3> QED
        BY <1>2, <3>1, <3>3
    <2> QED
      BY <1>1, <1>2, <2>1 DEF PreviewsOK
  <1>15. OneContractInForce'
    <2>1. \A d \in Contract' : (d = Latest') # (contracts'[d].status = "replaced")
      BY <1>1, <1>9, <1>10 DEF OneContractInForce
    <2> QED
      BY <1>11, <2>1 DEF OneContractInForce
  <1>16. NeverOverdrawn'
    <2> SUFFICES ASSUME NEW d \in Contract
                 PROVE  Units({x \in Lesson : charge'[x] = d} \cup {x \in Lesson : reserve'[x] = d})
                          <= contracts'[d].units
      BY <1>10 DEF NeverOverdrawn, ChargedTo, ReservedOn
    <2> DEFINE A == {x \in Lesson : charge'[x] = d} \cup {x \in Lesson : reserve'[x] = d}
               B == ChargedTo(d) \cup ReservedOn(d)
    <2>1. \A x \in Lesson : x \in A => x \in B
      BY <1>1, <1>2, <1>11 DEF ChargedTo
    <2>2. Units(B) <= contracts[d].units
      BY <1>1 DEF NeverOverdrawn
    <2> HIDE DEF A, B
    <2>3. contracts'[d].units = contracts[d].units
      BY <1>9
    <2>4. contracts[d].units \in Nat \ {0}
      BY <1>1, ContractTypes
    <2>5. Units(A) <= Units(B) /\ Units(A) \in Int /\ Units(B) \in Int
      BY <2>1, UnitsSubset, UnitsInt
    <2>6. Units(A) <= contracts'[d].units
      BY <2>2, <2>3, <2>4, <2>5
    <2> QED
      BY <2>6 DEF A
  <1>17. BooksOK'
    <2> SUFFICES ASSUME NEW k \in Contract, k = Latest PROVE BooksOf(k)'
      BY <1>10 DEF BooksOK
    <2>1. BooksOf(k) /\ Active(k)
      BY <1>1, <1>2, <1>4 DEF BooksOK
    <2>2. ASSUME NEW d \in Contract PROVE UsedValue(d)' = UsedValue(d)
      <3>1. ChargedTo(d)' = ChargedTo(d)
        BY <1>2 DEF ChargedTo
      <3> QED
        BY <1>9, <3>1, SameValue
    <2>3. Contract = 1 .. k
      BY DEF Contract, Latest
    <2>4. [d \in 1 .. k - 1 |-> UsedValue(d)]' = [d \in 1 .. k - 1 |-> UsedValue(d)]
      BY <2>2, <2>3, <1>1
    <2>5. ~Active(k)'
      BY <1>9 DEF Active
    <2>6. /\ RemainingValue(k) \in Nat /\ UsedValue(k) = contracts[k].price - RemainingValue(k)
          /\ contracts[k].price \in Nat /\ contracts[k].prior \in Int
      BY <1>1, ValueTypes, ContractTypes
    <2>7. owed = contracts[k].prior + contracts[k].price
      BY <2>1 DEF BooksOf
    <2>8. /\ owed' >= contracts[k].prior + UsedValue(k)
          /\ owed' <= contracts[k].prior + contracts[k].price
      BY <1>2, <1>4, <1>6, <1>7, <2>6, <2>7
    <2>9. contracts[k].prior = SumTo(k - 1, [d \in 1 .. k - 1 |-> UsedValue(d)])
      BY <2>1 DEF BooksOf
    <2> QED
      BY <1>9, <2>2, <2>4, <2>5, <2>8, <2>9 DEF BooksOf
  <1> QED
    BY <1>8, <1>12, <1>13, <1>14, <1>15, <1>16, <1>17 DEF LifecycleInv

-----------------------------------------------------------------------------
(* The theorems.                                                           *)

LEMMA StutterInv ==
    ASSUME LifecycleInv, UNCHANGED vars
    PROVE  LifecycleInv'
  <1>1. /\ contracts' = contracts /\ life' = life /\ plan' = plan /\ reserve' = reserve
        /\ charge' = charge /\ command' = command /\ owed' = owed
        /\ paid' = paid /\ refunded' = refunded /\ mode' = mode /\ preview' = preview
    BY DEF vars, lessons, money
  <1>2. TypeOK' /\ LessonsOK' /\ PreviewsOK'
    BY <1>1, PreviewsKeep DEF LifecycleInv, TypeOK, LessonsOK, Contract
  <1> QED
    BY <1>1, <1>2, OthersKeep

LEMMA NextInv ==
    ASSUME LifecycleInv, [Next]_vars
    PROVE  LifecycleInv'
  <1>1. ASSUME NEW x \in Lesson, LessonStep(x) PROVE LifecycleInv'
    BY <1>1, BeginCreateInv, FinishCreateInv, BeginCompleteInv, FinishCompleteInv, HandOverInv,
       StaffSettleInv, StaffWaiveInv, RollbackInv DEF LessonStep
  <1>2. ASSUME NEW amount \in Amounts, Pay(amount) \/ Refund(amount) PROVE LifecycleInv'
    BY <1>2, PayInv, RefundInv
  <1>3. ASSUME NEW e \in Actors, Previewing(e) PROVE LifecycleInv'
    BY <1>3, PreviewCancelInv, PreviewReplaceInv DEF Previewing
  <1>4. ASSUME NEW e \in Actors, Replace(e) PROVE LifecycleInv'
    BY <1>4, ReplaceInv
  <1>5. ASSUME NEW e \in Actors, preview[e].kind = "cancel",
               NEW refund \in {0, preview[e].refund}, Cancel(e, refund)
        PROVE  LifecycleInv'
    BY <1>5, CancelInv
  <1>6. CASE UNCHANGED vars
    BY <1>6, StutterInv
  <1> QED
    BY <1>1, <1>2, <1>3, <1>4, <1>5, <1>6 DEF Next

LEMMA InvariantHolds == Spec => []LifecycleInv
  <1>1. LifecycleInv /\ [Next]_vars => LifecycleInv'
    BY NextInv
  <1> QED
    BY InitInv, <1>1, PTL DEF Spec

\* Every variable keeps its type: contracts, plans, reserves and charges name
\* contracts that exist, and no more is refunded than was paid.
THEOREM TypeCorrect == Spec => []TypeOK
  <1>1. LifecycleInv => TypeOK
    BY DEF LifecycleInv
  <1> QED
    BY InvariantHolds, <1>1, PTL

\* One contract at a time, however commands read another as the current one
\* before they locked it (currentSubscriptionId, isCurrentActiveSubscription).
THEOREM OneAtATime == Spec => []OneContractInForce
  <1>1. LifecycleInv => OneContractInForce
    BY DEF LifecycleInv
  <1> QED
    BY InvariantHolds, <1>1, PTL

\* No replacement, redistribution or settlement overdraws a contract
\* (planReservations, applyReservationPlan, reserveLessonSubscription).
THEOREM ReplacementsFit == Spec => []NeverOverdrawn
  <1>1. LifecycleInv => NeverOverdrawn
    BY DEF LifecycleInv
  <1> QED
    BY InvariantHolds, <1>1, PTL

\* Through any number of replacements, at any prices and however each remainder
\* is rounded, the client owes what was taken and what is left (calculate in
\* subscription-replacement.policy.ts and subscription-cancellation.policy.ts).
THEOREM NoValueLost == Spec => []ValueConserved
  <1>1. LifecycleInv => ValueConserved
    BY ValueFromBooks DEF LifecycleInv
  <1> QED
    BY InvariantHolds, <1>1, PTL

\* A replacement books the position its preview showed.
LEMMA ReplaceAsPromised ==
    ASSUME LifecycleInv, NEW e \in Actors, Replace(e)
    PROVE  owed' - Net' = preview[e].position
  <1> DEFINE c == preview[e].contract
             facts == preview[e].facts
             terms == preview[e].terms
  <1>1. /\ preview[e].kind = "replace" /\ ReplaceFacts(c) = facts
        /\ owed' = owed + Delta(c, terms)
        /\ paid' = paid /\ refunded' = refunded
    BY DEF Replace, ReplaceCurrent
  <1>2. /\ c \in Contract /\ terms \in Terms
        /\ preview[e].position = facts.owed + (terms.price - ValueLeft(c, facts.used))
                                 - facts.net
    <2>1. PreviewOK(preview[e])
      BY DEF LifecycleInv, PreviewsOK
    <2>2. preview[e] # NoPreview /\ preview[e].kind # "cancel"
      BY <1>1 DEF NoPreview
    <2> QED
      BY <2>1, <2>2 DEF PreviewOK
  <1>3. facts.owed = owed /\ facts.used = Used(c) /\ facts.net = Net
    BY <1>1 DEF ReplaceFacts
  <1>4. ValueLeft(c, Used(c)) = RemainingValue(c)
    BY DEF ValueLeft, RemainingValue
  <1>5. Delta(c, terms) = terms.price - RemainingValue(c)
    BY DEF Delta
  <1> DEFINE left == RemainingValue(c)
  <1>6. preview[e].position = owed + (terms.price - left) - (paid - refunded)
    BY <1>2, <1>3, <1>4 DEF Net
  <1>7. owed' = owed + (terms.price - left)
    BY <1>1, <1>5
  <1>8. /\ owed \in Int /\ paid \in Int /\ refunded \in Int
        /\ left \in Int /\ terms.price \in Int
    BY <1>2, ValueTypes DEF LifecycleInv, TypeOK, Terms
  <1> HIDE DEF c, facts, terms, left
  <1>9. owed' - (paid' - refunded') = preview[e].position
    <2>1. owed' \in Int /\ paid' = paid /\ refunded' = refunded
      BY <1>1, <1>7, <1>8
    <2> QED
      BY <1>6, <1>7, <1>8, <2>1
  <1> QED
    BY <1>9 DEF Net

\* What an employee was shown is what the signed replacement or cancellation
\* books, unless the commit is refused (assertPreviewCurrent of both policies).
THEOREM WhatWasShown == Spec => PromiseKept
  <1>1. LifecycleInv /\ [Next]_vars =>
          [\A e \in Actors :
             /\ Replace(e) => owed' - Net' = preview[e].position
             /\ preview[e].kind = "cancel" =>
                  \A refund \in {0, preview[e].refund} :
                    Cancel(e, refund) =>
                      owed' - Net' = preview[e].position + preview[e].refund - refund]_vars
    <2> SUFFICES ASSUME LifecycleInv, NEW e \in Actors
                 PROVE  /\ Replace(e) => owed' - Net' = preview[e].position
                        /\ preview[e].kind = "cancel" =>
                             \A refund \in {0, preview[e].refund} :
                               Cancel(e, refund) =>
                                 owed' - Net' = preview[e].position + preview[e].refund - refund
      OBVIOUS
    <2> QED
      BY ReplaceAsPromised, CancelInv
  <1> QED
    BY InvariantHolds, <1>1, PTL DEF Spec, PromiseKept

-----------------------------------------------------------------------------
(* Money is spent once.                                                    *)

TakenOK == \A n \in Contract : n = Latest => Taken = contracts[n].prior + UsedValue(n)

\* A contract that is paid for, the lesson to be settled included, is paid for
\* with money that no contract before it has used.
LEMMA FundsCover ==
    ASSUME NEW p \in Nat, NEW u \in Nat \ {0}, NEW used \in Nat \ {0}, NEW prior \in Int,
           NEW net \in Int, NEW available \in Int, NEW obligation \in Int,
           available = Max(0, net - prior), obligation = prior + p - net + available,
           obligation <= 0 \/ used * obligation <= available * u
    PROVE  used * p <= (net - prior) * u
  <1>1. CASE net >= prior
    <2>1. available = net - prior /\ obligation = p
      BY <1>1 DEF Max
    <2>2. CASE p = 0
      <3>1. available >= 0
        BY <1>1, <2>1
      <3>2. available * u >= 0
        BY <3>1
      <3> QED
        BY <2>1, <2>2, <3>2
    <2>3. CASE p # 0
      BY <2>1, <2>3
    <2> QED
      BY <2>2, <2>3
  <1>2. CASE net < prior
    <2>1. available = 0 /\ obligation \in Nat \ {0}
      BY <1>2 DEF Max
    <2>2. used * obligation > 0
      BY <2>1
    <2> QED
      BY <2>1, <2>2
  <1> QED
    BY <1>1, <1>2

LEMMA SettledOnFreshMoney ==
    ASSUME LifecycleInv, TakenOK', NEW x \in Lesson, FinishComplete(x)
    PROVE  Taken' <= Net
  <1>1. /\ TypeOK /\ LessonsOK /\ OneContractInForce /\ BooksOK
        /\ NoContract \notin Contract
    BY NoContractIsNone DEF LifecycleInv
  <1>2. PICK c : c = command[x].contract
    OBVIOUS
  <1>3. /\ command[x].op = "complete" /\ Active(c)
        /\ PaysFor(c, Used(c) + Cost[x])
        /\ contracts' = contracts /\ charge' = [charge EXCEPT ![x] = c]
    BY <1>2 DEF FinishComplete, Covers, Close
  <1>4. c \in Contract /\ c = Latest /\ charge[x] = NoContract
    <2>1. command[x] # Idle
      BY <1>3 DEF Idle
    <2>2. c \in Contract
      BY <1>1, <1>2, <2>1 DEF LessonsOK
    <2>3. charge[x] = NoContract
      BY <1>1, <1>3 DEF LessonsOK
    <2> QED
      BY <1>1, <1>3, <2>2, <2>3, OnlyLatest
  <1>5. PICK used : used = Used(c) + Cost[x]
    OBVIOUS
  <1>6. used \in Nat \ {0}
    BY <1>1, <1>4, <1>5, ValueTypes, LifecycleAssumption
  <1>7. Used(c)' = used
    <2> DEFINE before == ChargedTo(c)
               after == ChargedTo(c)'
    <2>1. \A y \in Lesson : /\ ~(y \in before /\ y \in {x})
                            /\ y \in after <=> y \in before \/ y \in {x}
      <3>1. /\ charge'[x] = c
            /\ \A y \in Lesson \ {x} : charge'[y] = charge[y]
        BY <1>1, <1>3 DEF TypeOK
      <3> QED
        BY <1>1, <1>4, <3>1 DEF ChargedTo
    <2>2. Used(c)' = Units(after) /\ Used(c) = Units(before)
      BY DEF Used
    <2> HIDE DEF before, after
    <2>3. Units(after) = Units(before) + Units({x})
      BY <2>1, UnitsUnion
    <2> QED
      BY <1>5, <2>2, <2>3, UnitsOfOne
  <1>8. PICK p, u, prior : /\ p = contracts[c].price /\ u = contracts[c].units
                           /\ prior = contracts[c].prior
    OBVIOUS
  <1>9. p \in Nat /\ u \in Nat \ {0} /\ prior \in Int /\ Net \in Int /\ owed = prior + p
    <2>1. BooksOf(c)
      BY <1>1, <1>4 DEF BooksOK
    <2>2. owed = prior + p
      BY <1>3, <1>8, <2>1 DEF BooksOf
    <2>3. p \in Nat /\ u \in Nat \ {0} /\ prior \in Int
      BY <1>1, <1>4, <1>8, ContractTypes
    <2>4. paid \in Int /\ refunded \in Int
      BY <1>1 DEF TypeOK
    <2> QED
      BY <2>2, <2>3, <2>4 DEF Net
  <1>10. used <= u /\ used * p <= (Net - prior) * u
    <2> DEFINE available == Max(0, Net - prior)
               obligation == owed - Net + available
    <2>1. /\ used <= u
          /\ obligation <= 0 \/ used * obligation <= available * u
      BY <1>3, <1>5, <1>8 DEF PaysFor
    <2>2. available \in Int /\ obligation \in Int
          /\ obligation = prior + p - Net + available
      BY <1>9 DEF Max
    <2> HIDE DEF obligation
    <2>3. used * p <= (Net - prior) * u
      BY <1>6, <1>9, <2>1, <2>2, FundsCover
    <2> QED
      BY <2>1, <2>3
  <1>11. p - ((p * (u - used)) \div u) <= Net - prior
    BY <1>6, <1>9, <1>10, PaidCovers
  <1>12. UsedValue(c)' = p - ((p * (u - used)) \div u)
    <2>1. Max(0, u - used) = u - used
      BY <1>6, <1>9, <1>10 DEF Max
    <2>2. UsedValue(c)' = p - ((p * Max(0, u - used)) \div u)
      BY <1>3, <1>7, <1>8 DEF UsedValue, RemainingValue
    <2> QED
      BY <2>1, <2>2
  <1>13. Taken' = prior + UsedValue(c)'
    BY <1>3, <1>4, <1>8 DEF TakenOK, Contract, Latest
  <1>14. PICK value : value = p - ((p * (u - used)) \div u)
    OBVIOUS
  <1>15. value \in Int
    <2>1. p * (u - used) \in Nat
      BY <1>6, <1>9, <1>10
    <2> QED
      BY <1>9, <1>14, <2>1
  <1> QED
    BY <1>9, <1>11, <1>12, <1>13, <1>14, <1>15

\* The worker settles a lesson only on money that no earlier lesson has used,
\* whatever was replaced, cancelled or refunded before (subscriptionFundingSql,
\* assertAutomaticLessonSubscriptionPayment).
THEOREM MoneyIsSpentOnce == Spec => SpentStaysSpent
  <1>1. LifecycleInv => TakenOK
    BY TakenSplit DEF LifecycleInv, TakenOK
  <1>2. LifecycleInv /\ TakenOK' /\ [Next]_vars =>
          [\A x \in Lesson :
             command[x].op = "complete" /\ life'[x] = "completed" => Taken' <= Net]_vars
    <2> SUFFICES ASSUME LifecycleInv, TakenOK', Next, NEW x \in Lesson,
                        command[x].op = "complete", life'[x] = "completed"
                 PROVE  Taken' <= Net
      OBVIOUS
    <2>1. life[x] = "scheduled" /\ command[x] # Idle /\ life \in [Lesson -> Lives]
      BY DEF LifecycleInv, LessonsOK, TypeOK, Idle, Lives
    <2>2. life' # life
      BY <2>1
    <2>3. PICK y \in Lesson : LessonStep(y)
      BY <2>2 DEF Next, Pay, Refund, Previewing, PreviewCancel, PreviewReplace, Replace,
                  Cancel, lessons
    <2>4. y = x
      <3>1. life' = life \/ \E l : life' = [life EXCEPT ![y] = l]
        BY <2>3 DEF LessonStep, BeginCreate, FinishCreate, BeginComplete, FinishComplete,
                    HandOver, StaffSettle, StaffWaive, Rollback, Close
      <3> QED
        BY <2>1, <3>1
    <2>5. FinishComplete(x)
      BY <2>1, <2>3, <2>4 DEF LessonStep, BeginCreate, FinishCreate, BeginComplete,
                              HandOver, StaffSettle, StaffWaive, Rollback
    <2> QED
      BY <2>5, SettledOnFreshMoney
  <1> QED
    BY InvariantHolds, <1>1, <1>2, PTL DEF Spec, SpentStaysSpent

-----------------------------------------------------------------------------
(* The ledger: sums over tables that grow.                                 *)

\* Terms that are zero add nothing.
LEMMA SumExtended ==
    ASSUME NEW n \in Nat, NEW m \in Nat, n <= m,
           NEW f \in [1 .. n -> Int], NEW h \in [1 .. m -> Int],
           \A k \in 1 .. n : h[k] = f[k],
           \A k \in 1 .. m : k > n => h[k] = 0
    PROVE  SumTo(m, h) = SumTo(n, f)
  <1>1. PICK g : SumTo(n, f) = g[n] /\ Partial(n, g, f)
    BY SumUnfold
  <1>2. PICK j : SumTo(m, h) = j[m] /\ Partial(m, j, h)
    BY SumUnfold
  <1> DEFINE T == {k \in 0 .. m : j[k] = IF k <= n THEN g[k] ELSE g[n]}
  <1>3. 0 \in T
    BY <1>1, <1>2 DEF Partial
  <1>4. ASSUME NEW k \in 1 .. m, k - 1 \in T PROVE k \in T
    <2>1. j[k] = j[k - 1] + h[k] /\ (k <= n => g[k] = g[k - 1] + f[k])
      BY <1>1, <1>2 DEF Partial
    <2>2. j[k - 1] = (IF k - 1 <= n THEN g[k - 1] ELSE g[n])
      BY <1>4
    <2>3. CASE k <= n
      BY <2>1, <2>2, <2>3
    <2>4. CASE k > n
      <3>1. j[k - 1] = g[n] /\ h[k] = 0
        BY <2>2, <2>4
      <3>2. g[n] \in Int
        BY <1>1, SumType
      <3> QED
        BY <2>1, <2>4, <3>1, <3>2
    <2> QED
      BY <2>3, <2>4
  <1> HIDE DEF T
  <1>5. 0 .. m \subseteq T
    BY <1>3, <1>4, UpTo
  <1>6. j[m] = IF m <= n THEN g[m] ELSE g[n]
    BY <1>5 DEF T
  <1> QED
    BY <1>1, <1>2, <1>6

\* Of sums that differ in one term.
LEMMA SumOfOne ==
    ASSUME NEW n \in Nat, NEW i \in 1 .. n, NEW x \in Int
    PROVE  SumTo(n, [k \in 1 .. n |-> IF k = i THEN x ELSE 0]) = x
  <1> DEFINE f == [k \in 1 .. n |-> IF k = i THEN x ELSE 0]
  <1>1. \A k \in 1 .. n : f[k] = IF k = i THEN x ELSE 0
    OBVIOUS
  <1> HIDE DEF f
  <1>2. PICK g : SumTo(n, f) = g[n] /\ Partial(n, g, f)
    BY SumUnfold
  <1> DEFINE T == {k \in 0 .. n : g[k] = IF i <= k THEN x ELSE 0}
  <1>3. 0 \in T
    BY <1>2 DEF Partial
  <1>4. ASSUME NEW k \in 1 .. n, k - 1 \in T PROVE k \in T
    <2>1. g[k] = g[k - 1] + f[k] /\ f[k] = IF k = i THEN x ELSE 0
      BY <1>1, <1>2 DEF Partial
    <2>2. g[k - 1] = IF i <= k - 1 THEN x ELSE 0
      BY <1>4
    <2> QED
      BY <2>1, <2>2
  <1> HIDE DEF T
  <1>5. 0 .. n \subseteq T
    BY <1>3, <1>4, UpTo
  <1>6. SumTo(n, f) = x
    BY <1>2, <1>5 DEF T
  <1> QED
    BY <1>6 DEF f

LEMMA SumChanged ==
    ASSUME NEW n \in Nat, NEW f \in [1 .. n -> Int], NEW h \in [1 .. n -> Int],
           NEW i \in 1 .. n, \A k \in 1 .. n : k # i => h[k] = f[k]
    PROVE  SumTo(n, h) = SumTo(n, f) + (h[i] - f[i])
  <1> DEFINE x == h[i] - f[i]
             e == [k \in 1 .. n |-> IF k = i THEN x ELSE 0]
  <1>1. x \in Int
    OBVIOUS
  <1>2. SumTo(n, e) = x
    BY <1>1, SumOfOne
  <1>3. e \in [1 .. n -> Int] /\ \A k \in 1 .. n : h[k] = f[k] + e[k]
    OBVIOUS
  <1> HIDE DEF e
  <1>4. SumTo(n, h) = SumTo(n, f) + SumTo(n, e)
    BY <1>3, SumAdd
  <1> QED
    BY <1>2, <1>4

-----------------------------------------------------------------------------
(* What the reports hide.                                                  *)

HiddenPayment(R, r, T) ==
  IF R[r].status = "paid" /\ R[r].voided /\ R[r].target \in T THEN R[r].amount ELSE 0

HiddenAdjustment(R, A, a, T) ==
  IF A[a].voided /\ R[A[a].record].target \in T THEN A[a].amount ELSE 0

HiddenPayments(R, T) == [r \in 1 .. Len(R) |-> HiddenPayment(R, r, T)]

HiddenAdjustments(R, A, T) == [a \in 1 .. Len(A) |-> HiddenAdjustment(R, A, a, T)]

Hidden(R, A, T) ==
  SumTo(Len(R), HiddenPayments(R, T)) + SumTo(Len(A), HiddenAdjustments(R, A, T))

\* An adjustment belongs to an actual payment and is hidden if the payment is.
Linked(R, A) ==
  \A a \in 1 .. Len(A) :
    /\ A[a].record \in 1 .. Len(R)
    /\ R[A[a].record].status = "paid"
    /\ R[A[a].record].voided => A[a].voided

\* What is hidden adds up to nothing.
LedgerOK(R, A) == Linked(R, A) /\ \A T \in SUBSET Targets : Hidden(R, A, T) = 0

LEMMA RowFields ==
    ASSUME NEW R \in Seq(RecordType), NEW r \in 1 .. Len(R)
    PROVE  /\ R[r] \in RecordType
           /\ R[r].target \in Targets /\ R[r].amount \in Nat \ {0}
           /\ R[r].status \in RecordStatuses /\ R[r].version \in Nat \ {0}
           /\ R[r].voided \in BOOLEAN /\ R[r].attempt \in Nat /\ R[r].replaces \in Nat
  <1>1. R[r] \in RecordType
    OBVIOUS
  <1> QED
    BY <1>1 DEF RecordType

LEMMA AdjustmentFields ==
    ASSUME NEW A \in Seq(AdjustmentType), NEW a \in 1 .. Len(A)
    PROVE  /\ A[a] \in AdjustmentType
           /\ A[a].record \in Nat /\ A[a].amount \in Int /\ A[a].voided \in BOOLEAN
  <1>1. A[a] \in AdjustmentType
    OBVIOUS
  <1> QED
    BY <1>1 DEF AdjustmentType

LEMMA HiddenTypes ==
    ASSUME NEW R \in Seq(RecordType), NEW A \in Seq(AdjustmentType), Linked(R, A), NEW T
    PROVE  /\ Len(R) \in Nat /\ Len(A) \in Nat
           /\ HiddenPayments(R, T) \in [1 .. Len(R) -> Int]
           /\ HiddenAdjustments(R, A, T) \in [1 .. Len(A) -> Int]
           /\ SumTo(Len(R), HiddenPayments(R, T)) \in Int
           /\ SumTo(Len(A), HiddenAdjustments(R, A, T)) \in Int
  <1>1. Len(R) \in Nat /\ Len(A) \in Nat
    OBVIOUS
  <1>2. \A r \in 1 .. Len(R) : HiddenPayment(R, r, T) \in Int
    <2> SUFFICES ASSUME NEW r \in 1 .. Len(R) PROVE HiddenPayment(R, r, T) \in Int
      OBVIOUS
    <2>1. R[r].amount \in Int
      BY RowFields
    <2> QED
      BY <2>1 DEF HiddenPayment
  <1>3. \A a \in 1 .. Len(A) : HiddenAdjustment(R, A, a, T) \in Int
    <2> SUFFICES ASSUME NEW a \in 1 .. Len(A) PROVE HiddenAdjustment(R, A, a, T) \in Int
      OBVIOUS
    <2>1. A[a].amount \in Int
      BY AdjustmentFields
    <2> QED
      BY <2>1 DEF HiddenAdjustment
  <1>4. /\ HiddenPayments(R, T) \in [1 .. Len(R) -> Int]
        /\ HiddenAdjustments(R, A, T) \in [1 .. Len(A) -> Int]
    BY <1>2, <1>3 DEF HiddenPayments, HiddenAdjustments
  <1> QED
    BY <1>1, <1>4, SumType

\* Rows that are added in sight of the reports, and rows that stay as hidden as
\* they were, change nothing.
LEMMA QuietlyOK ==
    ASSUME NEW R \in Seq(RecordType), NEW A \in Seq(AdjustmentType),
           NEW S \in Seq(RecordType), NEW B \in Seq(AdjustmentType),
           LedgerOK(R, A), Linked(S, B), Len(R) <= Len(S), Len(A) <= Len(B),
           \A T \in SUBSET Targets :
             /\ \A r \in 1 .. Len(R) : HiddenPayment(S, r, T) = HiddenPayment(R, r, T)
             /\ \A r \in 1 .. Len(S) : r > Len(R) => HiddenPayment(S, r, T) = 0
             /\ \A a \in 1 .. Len(A) : HiddenAdjustment(S, B, a, T) = HiddenAdjustment(R, A, a, T)
             /\ \A a \in 1 .. Len(B) : a > Len(A) => HiddenAdjustment(S, B, a, T) = 0
    PROVE  LedgerOK(S, B)
  <1> SUFFICES ASSUME NEW T \in SUBSET Targets PROVE Hidden(S, B, T) = 0
    BY DEF LedgerOK
  <1>1. Linked(R, A) /\ Hidden(R, A, T) = 0
    BY DEF LedgerOK
  <1>2. /\ Len(R) \in Nat /\ Len(A) \in Nat
        /\ HiddenPayments(R, T) \in [1 .. Len(R) -> Int]
        /\ HiddenAdjustments(R, A, T) \in [1 .. Len(A) -> Int]
    BY <1>1, HiddenTypes
  <1>3. /\ Len(S) \in Nat /\ Len(B) \in Nat
        /\ HiddenPayments(S, T) \in [1 .. Len(S) -> Int]
        /\ HiddenAdjustments(S, B, T) \in [1 .. Len(B) -> Int]
    BY HiddenTypes
  <1>4. SumTo(Len(S), HiddenPayments(S, T)) = SumTo(Len(R), HiddenPayments(R, T))
    <2>1. /\ \A r \in 1 .. Len(R) : HiddenPayments(S, T)[r] = HiddenPayments(R, T)[r]
          /\ \A r \in 1 .. Len(S) : r > Len(R) => HiddenPayments(S, T)[r] = 0
      <3>1. \A r \in 1 .. Len(R) : r \in 1 .. Len(S)
        BY <1>2, <1>3
      <3>2. /\ \A r \in 1 .. Len(R) : HiddenPayments(R, T)[r] = HiddenPayment(R, r, T)
            /\ \A r \in 1 .. Len(S) : HiddenPayments(S, T)[r] = HiddenPayment(S, r, T)
        BY DEF HiddenPayments
      <3> QED
        BY <3>1, <3>2
    <2> QED
      BY <1>2, <1>3, <2>1, SumExtended
  <1>5. SumTo(Len(B), HiddenAdjustments(S, B, T)) = SumTo(Len(A), HiddenAdjustments(R, A, T))
    <2>1. /\ \A a \in 1 .. Len(A) : HiddenAdjustments(S, B, T)[a] = HiddenAdjustments(R, A, T)[a]
          /\ \A a \in 1 .. Len(B) : a > Len(A) => HiddenAdjustments(S, B, T)[a] = 0
      <3>1. \A a \in 1 .. Len(A) : a \in 1 .. Len(B)
        BY <1>2, <1>3
      <3>2. /\ \A a \in 1 .. Len(A) : HiddenAdjustments(R, A, T)[a] = HiddenAdjustment(R, A, a, T)
            /\ \A a \in 1 .. Len(B) : HiddenAdjustments(S, B, T)[a] = HiddenAdjustment(S, B, a, T)
        BY DEF HiddenAdjustments
      <3> QED
        BY <3>1, <3>2
    <2> QED
      BY <1>2, <1>3, <2>1, SumExtended
  <1> QED
    BY <1>1, <1>4, <1>5 DEF Hidden

\* A sequence with one element replaced.
LEMMA Replaced ==
    ASSUME NEW X, NEW q \in Seq(X), NEW i \in 1 .. Len(q), NEW x \in X
    PROVE  /\ [q EXCEPT ![i] = x] \in Seq(X)
           /\ Len([q EXCEPT ![i] = x]) = Len(q)
           /\ [q EXCEPT ![i] = x][i] = x
           /\ \A k \in 1 .. Len(q) : k # i => [q EXCEPT ![i] = x][k] = q[k]
  <1> DEFINE p == [q EXCEPT ![i] = x]
  <1>1. Len(q) \in Nat /\ DOMAIN q = 1 .. Len(q) /\ \A k \in 1 .. Len(q) : q[k] \in X
    OBVIOUS
  <1>2. p = [k \in 1 .. Len(q) |-> IF k = i THEN x ELSE q[k]]
    BY <1>1
  <1> HIDE DEF p
  <1>3. p \in [1 .. Len(q) -> X]
    BY <1>1, <1>2
  <1>4. p \in Seq(X) /\ Len(p) = Len(q)
    BY <1>1, <1>3
  <1>5. p[i] = x /\ \A k \in 1 .. Len(q) : k # i => p[k] = q[k]
    BY <1>2
  <1> QED
    BY <1>4, <1>5 DEF p

\* A sequence with one element more.
LEMMA Appended ==
    ASSUME NEW X, NEW q \in Seq(X), NEW x \in X
    PROVE  /\ Append(q, x) \in Seq(X)
           /\ Len(Append(q, x)) = Len(q) + 1
           /\ Append(q, x)[Len(q) + 1] = x
           /\ \A k \in 1 .. Len(q) : Append(q, x)[k] = q[k]
  OBVIOUS

\* Records that are appended in sight of the reports.
LEMMA RecordsAppended ==
    ASSUME NEW R \in Seq(RecordType), NEW A \in Seq(AdjustmentType), LedgerOK(R, A),
           NEW new \in Seq(RecordType), \A i \in 1 .. Len(new) : ~new[i].voided
    PROVE  R \o new \in Seq(RecordType) /\ LedgerOK(R \o new, A)
  <1> DEFINE S == R \o new
  <1>1. /\ S \in Seq(RecordType) /\ Len(R) \in Nat /\ Len(S) \in Nat /\ Len(R) <= Len(S)
        /\ \A r \in 1 .. Len(R) : S[r] = R[r]
        /\ \A r \in 1 .. Len(S) : r > Len(R) => r - Len(R) \in 1 .. Len(new) /\ S[r] = new[r - Len(R)]
    OBVIOUS
  <1> HIDE DEF S
  <1>2. Linked(R, A) /\ Len(A) \in Nat
    BY DEF LedgerOK
  <1>3. Linked(S, A)
    <2>1. \A r \in 1 .. Len(R) : r \in 1 .. Len(S)
      BY <1>1
    <2> QED
      BY <1>1, <1>2, <2>1 DEF Linked
  <1>4. ASSUME NEW T \in SUBSET Targets
        PROVE  /\ \A r \in 1 .. Len(R) : HiddenPayment(S, r, T) = HiddenPayment(R, r, T)
               /\ \A r \in 1 .. Len(S) : r > Len(R) => HiddenPayment(S, r, T) = 0
               /\ \A a \in 1 .. Len(A) : HiddenAdjustment(S, A, a, T) = HiddenAdjustment(R, A, a, T)
               /\ \A a \in 1 .. Len(A) : a > Len(A) => HiddenAdjustment(S, A, a, T) = 0
    <2>1. \A r \in 1 .. Len(R) : HiddenPayment(S, r, T) = HiddenPayment(R, r, T)
      BY <1>1 DEF HiddenPayment
    <2>2. \A r \in 1 .. Len(S) : r > Len(R) => HiddenPayment(S, r, T) = 0
      BY <1>1 DEF HiddenPayment
    <2>3. \A a \in 1 .. Len(A) : HiddenAdjustment(S, A, a, T) = HiddenAdjustment(R, A, a, T)
      BY <1>1, <1>2 DEF HiddenAdjustment, Linked
    <2>4. \A a \in 1 .. Len(A) : ~(a > Len(A))
      BY <1>2
    <2> QED
      BY <2>1, <2>2, <2>3, <2>4
  <1>5. LedgerOK(S, A)
    <2>1. Len(A) <= Len(A)
      BY <1>2
    <2> QED
      BY <1>1, <1>3, <1>4, <2>1, QuietlyOK
  <1> QED
    BY <1>1, <1>5 DEF S

\* A record that is neither paid nor hidden may change its status, and records
\* that nobody paid may be hidden.
LEMMA RecordsChanged ==
    ASSUME NEW R \in Seq(RecordType), NEW A \in Seq(AdjustmentType), LedgerOK(R, A),
           NEW S \in Seq(RecordType), Len(S) = Len(R),
           \A r \in 1 .. Len(R) :
             \/ S[r] = R[r]
             \/ R[r].status # "paid" /\ (S[r].voided => S[r].status # "paid")
    PROVE  LedgerOK(S, A)
  <1>1. Linked(R, A) /\ Len(A) \in Nat /\ Len(R) \in Nat
    BY DEF LedgerOK
  <1>2. \A a \in 1 .. Len(A) : A[a].record \in 1 .. Len(R) /\ S[A[a].record] = R[A[a].record]
    BY <1>1 DEF Linked
  <1>3. Linked(S, A)
    BY <1>1, <1>2 DEF Linked
  <1>4. ASSUME NEW T \in SUBSET Targets
        PROVE  /\ \A r \in 1 .. Len(R) : HiddenPayment(S, r, T) = HiddenPayment(R, r, T)
               /\ \A r \in 1 .. Len(S) : r > Len(R) => HiddenPayment(S, r, T) = 0
               /\ \A a \in 1 .. Len(A) : HiddenAdjustment(S, A, a, T) = HiddenAdjustment(R, A, a, T)
               /\ \A a \in 1 .. Len(A) : a > Len(A) => HiddenAdjustment(S, A, a, T) = 0
    <2>1. \A r \in 1 .. Len(R) : HiddenPayment(S, r, T) = HiddenPayment(R, r, T)
      BY DEF HiddenPayment
    <2>2. \A r \in 1 .. Len(S) : ~(r > Len(R))
      BY <1>1
    <2>3. \A a \in 1 .. Len(A) : HiddenAdjustment(S, A, a, T) = HiddenAdjustment(R, A, a, T)
      BY <1>2 DEF HiddenAdjustment
    <2>4. \A a \in 1 .. Len(A) : ~(a > Len(A))
      BY <1>1
    <2> QED
      BY <2>1, <2>2, <2>3, <2>4
  <1> QED
    <2>1. Len(A) <= Len(A) /\ Len(R) <= Len(S)
      BY <1>1
    <2> QED
      BY <1>3, <1>4, <2>1, QuietlyOK

\* An adjustment of a payment that is in sight.
LEMMA AdjustmentAppended ==
    ASSUME NEW R \in Seq(RecordType), NEW A \in Seq(AdjustmentType), LedgerOK(R, A),
           NEW x \in AdjustmentType, x.record \in 1 .. Len(R),
           R[x.record].status = "paid", ~R[x.record].voided, ~x.voided
    PROVE  Append(A, x) \in Seq(AdjustmentType) /\ LedgerOK(R, Append(A, x))
  <1> DEFINE B == Append(A, x)
  <1>1. /\ B \in Seq(AdjustmentType) /\ Len(A) \in Nat /\ Len(B) = Len(A) + 1
        /\ \A a \in 1 .. Len(A) : B[a] = A[a]
        /\ B[Len(A) + 1] = x
    OBVIOUS
  <1> HIDE DEF B
  <1>2. Linked(R, A) /\ Len(R) \in Nat
    BY DEF LedgerOK
  <1>3. \A a \in 1 .. Len(B) : a \in 1 .. Len(A) \/ a = Len(A) + 1
    BY <1>1
  <1>4. Linked(R, B)
    BY <1>1, <1>2, <1>3 DEF Linked
  <1>5. ASSUME NEW T \in SUBSET Targets
        PROVE  /\ \A r \in 1 .. Len(R) : HiddenPayment(R, r, T) = HiddenPayment(R, r, T)
               /\ \A r \in 1 .. Len(R) : r > Len(R) => HiddenPayment(R, r, T) = 0
               /\ \A a \in 1 .. Len(A) : HiddenAdjustment(R, B, a, T) = HiddenAdjustment(R, A, a, T)
               /\ \A a \in 1 .. Len(B) : a > Len(A) => HiddenAdjustment(R, B, a, T) = 0
    <2>1. \A r \in 1 .. Len(R) : ~(r > Len(R))
      BY <1>2
    <2>2. \A a \in 1 .. Len(A) : HiddenAdjustment(R, B, a, T) = HiddenAdjustment(R, A, a, T)
      BY <1>1 DEF HiddenAdjustment
    <2>3. \A a \in 1 .. Len(B) : a > Len(A) => a = Len(A) + 1
      BY <1>1
    <2>4. HiddenAdjustment(R, B, Len(A) + 1, T) = 0
      BY <1>1 DEF HiddenAdjustment
    <2> QED
      BY <2>1, <2>2, <2>3, <2>4
  <1>6. LedgerOK(R, B)
    <2>1. Len(R) <= Len(R) /\ Len(A) <= Len(B)
      BY <1>1, <1>2
    <2> QED
      BY <1>1, <1>4, <1>5, <2>1, QuietlyOK
  <1> QED
    BY <1>1, <1>6 DEF B

\* A payment is hidden together with an adjustment that offsets it.
LEMMA PaymentHidden ==
    ASSUME NEW R \in Seq(RecordType), NEW A \in Seq(AdjustmentType), LedgerOK(R, A),
           NEW r \in 1 .. Len(R), ~R[r].voided, R[r].status = "paid",
           \A a \in 1 .. Len(A) : A[a].record = r => A[a].voided,
           NEW x, x = [record |-> r, amount |-> -R[r].amount, voided |-> TRUE]
    PROVE  /\ [R EXCEPT ![r].voided = TRUE] \in Seq(RecordType)
           /\ Append(A, x) \in Seq(AdjustmentType)
           /\ LedgerOK([R EXCEPT ![r].voided = TRUE], Append(A, x))
  <1> DEFINE S == [R EXCEPT ![r].voided = TRUE]
             B == Append(A, x)
  <1>1. Linked(R, A) /\ Len(R) \in Nat /\ Len(A) \in Nat /\ r \in Nat
    BY DEF LedgerOK
  <1>2. /\ R[r] \in RecordType /\ R[r].amount \in Nat
    BY RowFields
  <1>3. x \in AdjustmentType
    BY <1>1, <1>2 DEF AdjustmentType
  <1>4. [R[r] EXCEPT !.voided = TRUE] \in RecordType
    BY <1>2 DEF RecordType
  <1>5. /\ S \in Seq(RecordType) /\ Len(S) = Len(R) /\ S[r] = [R[r] EXCEPT !.voided = TRUE]
        /\ \A s \in 1 .. Len(R) : s # r => S[s] = R[s]
    <2> DEFINE row == [R[r] EXCEPT !.voided = TRUE]
    <2>1. S = [R EXCEPT ![r] = row]
      OBVIOUS
    <2>2. row \in RecordType
      BY <1>4
    <2> HIDE DEF S, row
    <2>3. /\ S \in Seq(RecordType) /\ Len(S) = Len(R) /\ S[r] = row
          /\ \A s \in 1 .. Len(R) : s # r => S[s] = R[s]
      BY <2>1, <2>2, Replaced
    <2> QED
      BY <2>3 DEF row
  <1>6. /\ B \in Seq(AdjustmentType) /\ Len(B) = Len(A) + 1 /\ B[Len(A) + 1] = x
        /\ \A a \in 1 .. Len(A) : B[a] = A[a]
    BY <1>3
  <1>7. /\ S[r].voided /\ S[r].status = "paid" /\ S[r].amount = R[r].amount
        /\ S[r].target = R[r].target
    BY <1>2, <1>5 DEF RecordType
  <1>8. x.record = r /\ x.amount = -R[r].amount /\ x.voided
    OBVIOUS
  <1> HIDE DEF S, B
  <1>9. \A s \in 1 .. Len(R) : S[s].status = R[s].status /\ S[s].target = R[s].target
    BY <1>5, <1>7
  <1>10. Linked(S, B)
    <2> SUFFICES ASSUME NEW a \in 1 .. Len(B)
                 PROVE  /\ B[a].record \in 1 .. Len(S)
                        /\ S[B[a].record].status = "paid"
                        /\ S[B[a].record].voided => B[a].voided
      BY DEF Linked
    <2>1. CASE a \in 1 .. Len(A)
      <3>1. /\ A[a].record \in 1 .. Len(R) /\ R[A[a].record].status = "paid"
            /\ R[A[a].record].voided => A[a].voided
        BY <1>1, <2>1 DEF Linked
      <3>2. B[a] = A[a] /\ S[A[a].record].status = R[A[a].record].status
        BY <1>6, <1>9, <2>1, <3>1
      <3>3. CASE A[a].record = r
        BY <1>5, <2>1, <3>1, <3>2, <3>3
      <3>4. CASE A[a].record # r
        BY <1>5, <3>1, <3>2, <3>4
      <3> QED
        BY <3>3, <3>4
    <2>2. CASE a = Len(A) + 1
      BY <1>5, <1>6, <1>7, <1>8, <2>2
    <2> QED
      BY <1>1, <1>6, <2>1, <2>2
  <1>11. ASSUME NEW T \in SUBSET Targets PROVE Hidden(S, B, T) = 0
    <2> DEFINE y == IF R[r].target \in T THEN R[r].amount ELSE 0
    <2>1. Hidden(R, A, T) = 0
      BY DEF LedgerOK
    <2>2. /\ HiddenPayments(R, T) \in [1 .. Len(R) -> Int]
          /\ HiddenAdjustments(R, A, T) \in [1 .. Len(A) -> Int]
          /\ SumTo(Len(R), HiddenPayments(R, T)) \in Int
          /\ SumTo(Len(A), HiddenAdjustments(R, A, T)) \in Int
      BY <1>1, HiddenTypes
    <2>3. /\ HiddenPayments(S, T) \in [1 .. Len(S) -> Int]
          /\ HiddenAdjustments(S, B, T) \in [1 .. Len(B) -> Int]
      BY <1>5, <1>6, <1>10, HiddenTypes
    <2>4. SumTo(Len(S), HiddenPayments(S, T)) = SumTo(Len(R), HiddenPayments(R, T)) + y
      <3>1. \A s \in 1 .. Len(R) : s # r => HiddenPayments(S, T)[s] = HiddenPayments(R, T)[s]
        BY <1>5 DEF HiddenPayments, HiddenPayment
      <3>2. HiddenPayments(S, T)[r] = y
        BY <1>5, <1>7 DEF HiddenPayments, HiddenPayment
      <3>3. HiddenPayments(R, T)[r] = 0
        BY DEF HiddenPayments, HiddenPayment
      <3> HIDE DEF y
      <3>4. HiddenPayments(S, T) \in [1 .. Len(R) -> Int]
        BY <1>5, <2>3
      <3>5. SumTo(Len(R), HiddenPayments(S, T))
              = SumTo(Len(R), HiddenPayments(R, T))
                + (HiddenPayments(S, T)[r] - HiddenPayments(R, T)[r])
        BY <1>1, <2>2, <3>1, <3>4, SumChanged
      <3>6. y \in Int
        BY <3>2, <3>4
      <3> QED
        BY <1>5, <3>2, <3>3, <3>5, <3>6
    <2>5. SumTo(Len(B), HiddenAdjustments(S, B, T)) = SumTo(Len(A), HiddenAdjustments(R, A, T)) - y
      <3>1. \A a \in 1 .. Len(A) : HiddenAdjustments(S, B, T)[a] = HiddenAdjustments(R, A, T)[a]
        <4> SUFFICES ASSUME NEW a \in 1 .. Len(A)
                     PROVE  HiddenAdjustments(S, B, T)[a] = HiddenAdjustments(R, A, T)[a]
          OBVIOUS
        <4>1. A[a].record \in 1 .. Len(R) /\ B[a] = A[a] /\ a \in 1 .. Len(B)
          BY <1>1, <1>6 DEF Linked
        <4>2. HiddenAdjustment(S, B, a, T) = HiddenAdjustment(R, A, a, T)
          BY <1>9, <4>1 DEF HiddenAdjustment
        <4> QED
          BY <4>1, <4>2 DEF HiddenAdjustments
      <3>2. HiddenAdjustments(S, B, T)[Len(A) + 1] = -y
        <4>1. Len(A) + 1 \in 1 .. Len(B)
          BY <1>1, <1>6
        <4>2. HiddenAdjustment(S, B, Len(A) + 1, T) = IF R[r].target \in T THEN -R[r].amount ELSE 0
          BY <1>6, <1>7, <1>8 DEF HiddenAdjustment
        <4> QED
          BY <4>1, <4>2 DEF HiddenAdjustments
      <3>3. HiddenAdjustments(S, B, T) \in [1 .. Len(A) + 1 -> Int]
        BY <1>6, <2>3
      <3>4. SumTo(Len(A) + 1, HiddenAdjustments(S, B, T))
              = SumTo(Len(A), HiddenAdjustments(R, A, T)) + HiddenAdjustments(S, B, T)[Len(A) + 1]
        BY <1>1, <2>2, <3>1, <3>3, SumNext
      <3>5. y \in Int
        BY <1>2
      <3> HIDE DEF y
      <3> QED
        BY <1>6, <2>2, <3>2, <3>4, <3>5
    <2>6. y \in Int
      BY <1>2
    <2> HIDE DEF y
    <2> QED
      BY <2>1, <2>2, <2>4, <2>5, <2>6 DEF Hidden
  <1> QED
    BY <1>5, <1>6, <1>10, <1>11 DEF LedgerOK, S, B

\* An adjustment is hidden together with the one that undoes it.
LEMMA AdjustmentHidden ==
    ASSUME NEW R \in Seq(RecordType), NEW A \in Seq(AdjustmentType), LedgerOK(R, A),
           NEW a \in 1 .. Len(A), ~A[a].voided,
           NEW x \in AdjustmentType,
           x.record = A[a].record, x.amount = -A[a].amount, x.voided
    PROVE  /\ Append([A EXCEPT ![a].voided = TRUE], x) \in Seq(AdjustmentType)
           /\ LedgerOK(R, Append([A EXCEPT ![a].voided = TRUE], x))
  <1> DEFINE C == [A EXCEPT ![a].voided = TRUE]
             B == Append(C, x)
  <1>1. Linked(R, A) /\ Len(R) \in Nat /\ Len(A) \in Nat /\ a \in Nat
    BY DEF LedgerOK
  <1>2. A[a] \in AdjustmentType /\ A[a].record \in Nat /\ A[a].amount \in Int
    BY AdjustmentFields
  <1>3. [A[a] EXCEPT !.voided = TRUE] \in AdjustmentType
    BY <1>2 DEF AdjustmentType
  <1>4. /\ C \in Seq(AdjustmentType) /\ Len(C) = Len(A) /\ C[a] = [A[a] EXCEPT !.voided = TRUE]
        /\ \A b \in 1 .. Len(A) : b # a => C[b] = A[b]
    <2> DEFINE row == [A[a] EXCEPT !.voided = TRUE]
    <2>1. C = [A EXCEPT ![a] = row]
      OBVIOUS
    <2>2. row \in AdjustmentType
      BY <1>3
    <2> HIDE DEF C, row
    <2>3. /\ C \in Seq(AdjustmentType) /\ Len(C) = Len(A) /\ C[a] = row
          /\ \A b \in 1 .. Len(A) : b # a => C[b] = A[b]
      BY <2>1, <2>2, Replaced
    <2> QED
      BY <2>3 DEF row
  <1>5. C[a].record = A[a].record /\ C[a].amount = A[a].amount /\ C[a].voided
    BY <1>2, <1>4 DEF AdjustmentType
  <1>6. x.record = A[a].record /\ x.amount = -A[a].amount /\ x.voided
    OBVIOUS
  <1> HIDE DEF C
  <1>7. /\ B \in Seq(AdjustmentType) /\ Len(B) = Len(A) + 1 /\ B[Len(A) + 1] = x
        /\ \A b \in 1 .. Len(A) : B[b] = C[b]
    <2>1. C \in Seq(AdjustmentType) /\ Len(C) = Len(A)
      BY <1>4
    <2> QED
      BY <2>1, Appended
  <1> HIDE DEF B
  <1>8. \A b \in 1 .. Len(A) : C[b].record = A[b].record /\ (A[b].voided => C[b].voided)
    BY <1>4, <1>5
  <1>9. Linked(R, C)
    BY <1>1, <1>4, <1>8 DEF Linked
  <1>10. Linked(R, B)
    <2> SUFFICES ASSUME NEW b \in 1 .. Len(B)
                 PROVE  /\ B[b].record \in 1 .. Len(R)
                        /\ R[B[b].record].status = "paid"
                        /\ R[B[b].record].voided => B[b].voided
      BY DEF Linked
    <2>1. CASE b \in 1 .. Len(A)
      BY <1>4, <1>7, <1>9, <2>1 DEF Linked
    <2>2. CASE b = Len(A) + 1
      BY <1>1, <1>6, <1>7, <2>2 DEF Linked
    <2>3. b \in 1 .. Len(A) \/ b = Len(A) + 1
      <3>1. Len(B) = Len(A) + 1
        BY <1>7
      <3> QED
        BY <1>1, <3>1
    <2> QED
      BY <2>1, <2>2, <2>3
  <1>11. ASSUME NEW T \in SUBSET Targets PROVE Hidden(R, B, T) = 0
    <2> DEFINE y == IF R[A[a].record].target \in T THEN A[a].amount ELSE 0
    <2>1. Hidden(R, A, T) = 0
      BY DEF LedgerOK
    <2>2. /\ HiddenAdjustments(R, A, T) \in [1 .. Len(A) -> Int]
          /\ SumTo(Len(R), HiddenPayments(R, T)) \in Int
          /\ SumTo(Len(A), HiddenAdjustments(R, A, T)) \in Int
      BY <1>1, HiddenTypes
    <2>3. HiddenAdjustments(R, C, T) \in [1 .. Len(A) -> Int]
      BY <1>4, <1>9, HiddenTypes
    <2>4. HiddenAdjustments(R, B, T) \in [1 .. Len(A) + 1 -> Int]
      BY <1>7, <1>10, HiddenTypes
    <2>5. y \in Int
      BY <1>2
    <2>6. SumTo(Len(A), HiddenAdjustments(R, C, T)) = SumTo(Len(A), HiddenAdjustments(R, A, T)) + y
      <3>1. \A b \in 1 .. Len(A) : b # a => HiddenAdjustments(R, C, T)[b] = HiddenAdjustments(R, A, T)[b]
        BY <1>4 DEF HiddenAdjustments, HiddenAdjustment
      <3>2. HiddenAdjustments(R, C, T)[a] = y
        BY <1>4, <1>5 DEF HiddenAdjustments, HiddenAdjustment
      <3>3. HiddenAdjustments(R, A, T)[a] = 0
        BY DEF HiddenAdjustments, HiddenAdjustment
      <3> HIDE DEF y
      <3>4. SumTo(Len(A), HiddenAdjustments(R, C, T))
              = SumTo(Len(A), HiddenAdjustments(R, A, T))
                + (HiddenAdjustments(R, C, T)[a] - HiddenAdjustments(R, A, T)[a])
        BY <1>1, <2>2, <2>3, <3>1, SumChanged
      <3> QED
        BY <2>5, <3>2, <3>3, <3>4
    <2>7. SumTo(Len(B), HiddenAdjustments(R, B, T)) = SumTo(Len(A), HiddenAdjustments(R, C, T)) - y
      <3>1. \A b \in 1 .. Len(A) : HiddenAdjustments(R, B, T)[b] = HiddenAdjustments(R, C, T)[b]
        <4> SUFFICES ASSUME NEW b \in 1 .. Len(A)
                     PROVE  HiddenAdjustments(R, B, T)[b] = HiddenAdjustments(R, C, T)[b]
          OBVIOUS
        <4>1. B[b] = C[b] /\ b \in 1 .. Len(B) /\ b \in 1 .. Len(C)
          BY <1>1, <1>4, <1>7
        <4> QED
          BY <4>1 DEF HiddenAdjustments, HiddenAdjustment
      <3>2. HiddenAdjustments(R, B, T)[Len(A) + 1] = -y
        <4>1. Len(A) + 1 \in 1 .. Len(B)
          BY <1>1, <1>7
        <4>2. HiddenAdjustment(R, B, Len(A) + 1, T)
                = IF R[A[a].record].target \in T THEN -A[a].amount ELSE 0
          BY <1>6, <1>7 DEF HiddenAdjustment
        <4> QED
          BY <4>1, <4>2 DEF HiddenAdjustments
      <3> HIDE DEF y
      <3>3. SumTo(Len(A) + 1, HiddenAdjustments(R, B, T))
              = SumTo(Len(A), HiddenAdjustments(R, C, T)) + HiddenAdjustments(R, B, T)[Len(A) + 1]
        BY <1>1, <2>3, <2>4, <3>1, SumNext
      <3>4. SumTo(Len(A), HiddenAdjustments(R, C, T)) \in Int
        BY <1>1, <2>3, SumType
      <3> QED
        BY <1>7, <2>5, <3>2, <3>3, <3>4
    <2> HIDE DEF y
    <2> QED
      BY <2>1, <2>2, <2>5, <2>6, <2>7 DEF Hidden
  <1> QED
    BY <1>7, <1>10, <1>11 DEF LedgerOK, B, C

-----------------------------------------------------------------------------
(* Who made the records of an instalment.                                  *)

\* No record of the target is in force, or none entered by hand.
Vacant(R, p) == \A r \in 1 .. Len(R) : R[r].target = p => R[r].voided

VacantByHand(R, p) ==
  \A r \in 1 .. Len(R) : R[r].target = p /\ R[r].attempt = 0 => R[r].voided

Authors(R) ==
  \A r, s \in 1 .. Len(R) :
    /\ R[r].target \in Part /\ R[s].target = R[r].target
    /\ ~R[r].voided /\ ~R[s].voided /\ r # s
    => (R[r].attempt = 0) # (R[s].attempt = 0)

LEMMA VacantMeans ==
    ASSUME NEW p PROVE ~HasOrdinaryRecord(p) <=> Vacant(records, p)
  BY DEF HasOrdinaryRecord, RecordsOf, Records, Ordinary, Vacant

\* Records that are hidden make room.
LEMMA FewerInForce ==
    ASSUME NEW R, NEW S, Len(S) = Len(R),
           \A r \in 1 .. Len(R) :
             /\ S[r].target = R[r].target /\ S[r].attempt = R[r].attempt
             /\ R[r].voided => S[r].voided
    PROVE  /\ Authors(R) => Authors(S)
           /\ \A p : Vacant(R, p) => Vacant(S, p)
           /\ \A p : VacantByHand(R, p) => VacantByHand(S, p)
  BY DEF Authors, Vacant, VacantByHand

\* A record entered by hand where none entered by hand is in force.
LEMMA OneMoreByHand ==
    ASSUME NEW R \in Seq(RecordType), NEW x \in RecordType, Authors(R), x.attempt = 0,
           x.target \in Part => VacantByHand(R, x.target)
    PROVE  /\ Authors(Append(R, x))
           /\ \A p : p # x.target /\ Vacant(R, p) => Vacant(Append(R, x), p)
  <1> DEFINE S == Append(R, x)
  <1>1. /\ Len(R) \in Nat /\ Len(S) = Len(R) + 1 /\ S[Len(R) + 1] = x
        /\ \A r \in 1 .. Len(R) : S[r] = R[r]
    OBVIOUS
  <1> HIDE DEF S
  <1>2. \A r \in 1 .. Len(S) : r \in 1 .. Len(R) \/ r = Len(R) + 1
    BY <1>1
  <1>3. Authors(S)
    <2> SUFFICES ASSUME NEW r \in 1 .. Len(S), NEW s \in 1 .. Len(S),
                        S[r].target \in Part, S[s].target = S[r].target,
                        ~S[r].voided, ~S[s].voided, r # s
                 PROVE  (S[r].attempt = 0) # (S[s].attempt = 0)
      BY DEF Authors
    <2>1. CASE r \in 1 .. Len(R) /\ s \in 1 .. Len(R)
      <3>1. S[r] = R[r] /\ S[s] = R[s]
        BY <1>1, <2>1
      <3> QED
        BY <2>1, <3>1 DEF Authors
    <2>2. CASE r \in 1 .. Len(R) /\ s = Len(R) + 1
      <3>1. S[r] = R[r] /\ S[s] = x
        BY <1>1, <2>2
      <3> QED
        BY <2>2, <3>1 DEF VacantByHand
    <2>3. CASE r = Len(R) + 1 /\ s \in 1 .. Len(R)
      <3>1. S[r] = x /\ S[s] = R[s]
        BY <1>1, <2>3
      <3> QED
        BY <2>3, <3>1 DEF VacantByHand
    <2> QED
      BY <1>2, <2>1, <2>2, <2>3
  <1>4. ASSUME NEW p, p # x.target, Vacant(R, p) PROVE Vacant(S, p)
    BY <1>1, <1>2, <1>4 DEF Vacant
  <1> QED
    BY <1>3, <1>4 DEF S

\* What a table holds after several rows are inserted at once.
LEMMA Concatenated ==
    ASSUME NEW X, NEW p \in Seq(X), NEW q \in Seq(X)
    PROVE  /\ Len(p) \in Nat /\ Len(q) \in Nat /\ Len(p \o q) = Len(p) + Len(q)
           /\ \A r \in 1 .. Len(p) : (p \o q)[r] = p[r]
           /\ \A i \in 1 .. Len(q) : (p \o q)[Len(p) + i] = q[i]
  OBVIOUS

\* Records asked for where none is in force, one for each part.
LEMMA OneMoreAskedFor ==
    ASSUME NEW R \in Seq(RecordType), NEW new \in Seq(RecordType), Authors(R),
           \A i \in 1 .. Len(new) : new[i].attempt > 0 /\ Vacant(R, new[i].target),
           \A i, j \in 1 .. Len(new) : new[i].target = new[j].target => i = j
    PROVE  /\ Authors(R \o new)
           /\ \A p : /\ Vacant(R, p)
                     /\ \A i \in 1 .. Len(new) : new[i].target # p
                     => Vacant(R \o new, p)
           /\ \A p : VacantByHand(R, p) => VacantByHand(R \o new, p)
  <1> DEFINE S == R \o new
             N == Len(R)
  <1>1. /\ N \in Nat /\ Len(new) \in Nat /\ Len(S) = N + Len(new)
        /\ \A r \in 1 .. N : S[r] = R[r]
        /\ \A i \in 1 .. Len(new) : S[N + i] = new[i]
    BY Concatenated
  <1>2. \A i \in 1 .. Len(new) : new[i].attempt \in Nat
    BY RowFields
  <1>3. \A r \in 1 .. N : R[r].attempt \in Nat
    BY RowFields
  <1> HIDE DEF S, N
  <1>4. ASSUME NEW r \in 1 .. Len(S)
        PROVE  r \in 1 .. N \/ \E i \in 1 .. Len(new) : r = N + i
    <2>1. CASE r <= N
      BY <1>1, <2>1
    <2>2. CASE r > N
      <3>1. r - N \in 1 .. Len(new) /\ r = N + (r - N)
        BY <1>1, <2>2
      <3> QED
        BY <3>1
    <2> QED
      BY <1>1, <2>1, <2>2
  <1>5. Authors(S)
    <2> SUFFICES ASSUME NEW r \in 1 .. Len(S), NEW s \in 1 .. Len(S),
                        S[r].target \in Part, S[s].target = S[r].target,
                        ~S[r].voided, ~S[s].voided, r # s
                 PROVE  (S[r].attempt = 0) # (S[s].attempt = 0)
      BY DEF Authors
    <2>1. CASE r \in 1 .. N /\ s \in 1 .. N
      <3>1. S[r] = R[r] /\ S[s] = R[s]
        BY <1>1, <2>1
      <3> QED
        BY <2>1, <3>1 DEF Authors, N
    <2>2. ASSUME r \in 1 .. N, NEW i \in 1 .. Len(new), s = N + i PROVE FALSE
      <3>1. S[r] = R[r] /\ S[s] = new[i]
        BY <1>1, <2>2
      <3>2. Vacant(R, new[i].target)
        OBVIOUS
      <3> QED
        BY <2>2, <3>1, <3>2 DEF Vacant, N
    <2>3. ASSUME s \in 1 .. N, NEW i \in 1 .. Len(new), r = N + i PROVE FALSE
      <3>1. S[s] = R[s] /\ S[r] = new[i]
        BY <1>1, <2>3
      <3>2. Vacant(R, new[i].target)
        OBVIOUS
      <3> QED
        BY <2>3, <3>1, <3>2 DEF Vacant, N
    <2>4. ASSUME NEW i \in 1 .. Len(new), NEW j \in 1 .. Len(new), r = N + i, s = N + j
          PROVE  FALSE
      <3>1. S[r] = new[i] /\ S[s] = new[j]
        BY <1>1, <2>4
      <3>2. i = j
        BY <3>1
      <3> QED
        BY <2>4, <3>2
    <2> QED
      BY <1>4, <2>1, <2>2, <2>3, <2>4
  <1>6. ASSUME NEW p, Vacant(R, p), \A i \in 1 .. Len(new) : new[i].target # p
        PROVE  Vacant(S, p)
    <2> SUFFICES ASSUME NEW r \in 1 .. Len(S), S[r].target = p PROVE S[r].voided
      BY DEF Vacant
    <2>1. r \in 1 .. N
      BY <1>1, <1>4, <1>6
    <2> QED
      BY <1>1, <1>6, <2>1 DEF Vacant, N
  <1>7. ASSUME NEW p, VacantByHand(R, p) PROVE VacantByHand(S, p)
    <2> SUFFICES ASSUME NEW r \in 1 .. Len(S), S[r].target = p, S[r].attempt = 0
                 PROVE  S[r].voided
      BY DEF VacantByHand
    <2>1. r \in 1 .. N
      <3>1. ASSUME NEW i \in 1 .. Len(new), r = N + i PROVE FALSE
        <4>1. new[i].attempt = 0 /\ new[i].attempt > 0
          BY <1>1, <3>1
        <4> QED
          BY <4>1
      <3> QED
        BY <1>4, <3>1
    <2> QED
      BY <1>1, <1>7, <2>1 DEF VacantByHand, N
  <1> QED
    BY <1>5, <1>6, <1>7 DEF S

-----------------------------------------------------------------------------
(* The inductive invariant of the ledger.                                  *)

\* A worker holds each part alone, and while it does no record of it is in force.
LocksOK ==
  /\ \A w \in Workers : \A lock \in worker[w] : lock[2] > 0 /\ Vacant(records, lock[1])
  /\ \A v, w \in Workers : \A k \in worker[v], l \in worker[w] :
       k[1] = l[1] => v = w /\ k = l

\* What a waiting command has read is still true of the records made by hand.
WaitingOK == waiting # None => VacantByHand(records, waiting.target)

\* A cancellation has waited for the workers.
CancelledOK == subscription = "cancelled" => \A w \in Workers : worker[w] = {}

LedgerInv ==
  /\ LedgerTypeOK
  /\ LedgerOK(records, adjustments)
  /\ Authors(records)
  /\ LocksOK
  /\ WaitingOK
  /\ CancelledOK

LEMMA ConstantTypes ==
  /\ Parts \in Nat /\ Part \subseteq Targets /\ Part \subseteq Nat
  /\ PartAmount \in Nat \ {0} /\ PaymentAmounts \subseteq Nat \ {0}
  /\ Entered \subseteq RecordStatuses
  /\ Account \in Targets /\ Account \notin Part
  BY LedgerAssumption DEF LedgerAssumption, Part, Targets, Account

LEMMA LengthTypes ==
    ASSUME LedgerTypeOK
    PROVE  /\ records \in Seq(RecordType) /\ Len(records) \in Nat
           /\ adjustments \in Seq(AdjustmentType) /\ Len(adjustments) \in Nat
  BY DEF LedgerTypeOK

LEMMA NewRecordType ==
    ASSUME NEW target \in Targets, NEW amount \in Nat \ {0}, NEW status \in RecordStatuses,
           NEW attempt \in Nat, NEW replaces \in Nat
    PROVE  LET x == NewRecord(target, amount, status, attempt, replaces) IN
           /\ x \in RecordType /\ x.target = target /\ x.attempt = attempt /\ ~x.voided
  BY DEF NewRecord, RecordType

LEMMA VacantIsByHand ==
    ASSUME NEW R, NEW p, Vacant(R, p)
    PROVE  VacantByHand(R, p)
  BY DEF Vacant, VacantByHand

LEMMA LockedMeans ==
    ASSUME NEW w \in Workers, NEW lock \in worker[w]
    PROVE  lock[1] \in LockedParts
  BY DEF LockedParts

\* Previews name rows that stay.
LEMMA TablesGrow ==
    ASSUME LedgerTypeOK, Len(records') \in Nat, Len(adjustments') \in Nat,
           Len(records) <= Len(records'), Len(adjustments) <= Len(adjustments')
    PROVE  shown \in [Employees -> {None} \cup PreviewType']
  <1>1. Len(records) \in Nat /\ Len(adjustments) \in Nat
    BY LengthTypes
  <1>2. Records \subseteq Records' /\ Adjustments \subseteq Adjustments'
    BY <1>1 DEF Records, Adjustments
  <1>3. PreviewType \subseteq PreviewType'
    BY <1>2 DEF PreviewType
  <1> QED
    BY <1>3 DEF LedgerTypeOK

LEMMA SameTables ==
    ASSUME UNCHANGED <<records, adjustments>>
    PROVE  PreviewType' = PreviewType
  BY DEF PreviewType, Records, Adjustments

\* The locks of the workers, when records of parts they do not hold are added.
LEMMA LocksKeep ==
    ASSUME LocksOK, worker' = worker,
           \A p : p \in LockedParts /\ Vacant(records, p) => Vacant(records', p)
    PROVE  LocksOK'
  <1>1. ASSUME NEW w \in Workers, NEW lock \in worker[w]
        PROVE  lock[2] > 0 /\ Vacant(records', lock[1])
    BY LockedMeans DEF LocksOK
  <1>2. \A v, w \in Workers : \A k \in worker[v], l \in worker[w] :
          k[1] = l[1] => v = w /\ k = l
    BY DEF LocksOK
  <1> QED
    BY <1>1, <1>2 DEF LocksOK

LEMMA InitLedgerInv == LedgerInit => LedgerInv
  <1> SUFFICES ASSUME LedgerInit PROVE LedgerInv
    OBVIOUS
  <1>1. records = << >> /\ adjustments = << >> /\ Len(records) = 0 /\ Len(adjustments) = 0
    BY DEF LedgerInit
  <1>2. LedgerTypeOK
    <2>1. records \in Seq(RecordType) /\ adjustments \in Seq(AdjustmentType)
      BY <1>1
    <2>2. now \in 0 .. Parts /\ crashes \in 0 .. MaxCrashes /\ charged \in Nat
      BY LedgerAssumption DEF LedgerAssumption, LedgerInit
    <2>3. worker \in [Workers -> SUBSET (Part \X Nat)]
      BY DEF LedgerInit
    <2>4. shown \in [Employees -> {None} \cup PreviewType]
      BY DEF LedgerInit
    <2> QED
      BY <2>1, <2>2, <2>3, <2>4 DEF LedgerTypeOK, LedgerInit
  <1>3. LedgerOK(records, adjustments)
    <2>1. Linked(records, adjustments)
      BY <1>1 DEF Linked
    <2>2. ASSUME NEW f PROVE SumTo(0, f) = 0
      <3>1. PICK g : SumTo(0, f) = g[0] /\ Partial(0, g, f)
        BY SumUnfold
      <3> QED
        BY <3>1 DEF Partial
    <2>3. \A T \in SUBSET Targets : Hidden(records, adjustments, T) = 0
      BY <1>1, <2>2 DEF Hidden
    <2> QED
      BY <2>1, <2>3 DEF LedgerOK
  <1>4. Authors(records)
    BY <1>1 DEF Authors
  <1>5. LocksOK /\ WaitingOK /\ CancelledOK
    BY DEF LedgerInit, LocksOK, WaitingOK, CancelledOK
  <1> QED
    BY <1>2, <1>3, <1>4, <1>5 DEF LedgerInv

-----------------------------------------------------------------------------
(* Commands that add a record.                                             *)

\* The part of the invariant about the tables, and the types, after a record
\* was entered by hand for a target that no worker holds.
LEMMA EnteredKeeps ==
    ASSUME LedgerInv, NEW x \in RecordType, ~x.voided, x.attempt = 0,
           x.target \in Part => VacantByHand(records, x.target),
           x.target \notin LockedParts,
           records' = Append(records, x),
           waiting' = None,
           UNCHANGED <<adjustments, charged, subscription, now, worker, shown, crashes>>
    PROVE  LedgerInv'
  <1>1. /\ records \in Seq(RecordType) /\ Len(records) \in Nat
        /\ adjustments \in Seq(AdjustmentType) /\ Len(adjustments) \in Nat
    BY LengthTypes DEF LedgerInv
  <1>2. /\ records' \in Seq(RecordType) /\ Len(records') = Len(records) + 1
        /\ LedgerOK(records', adjustments)
    <2>1. /\ <<x>> \in Seq(RecordType) /\ \A i \in 1 .. Len(<<x>>) : ~(<<x>>)[i].voided
          /\ records' = records \o <<x>>
      BY <1>1
    <2>2. /\ records \o <<x>> \in Seq(RecordType)
          /\ LedgerOK(records \o <<x>>, adjustments)
      BY <1>1, <2>1, RecordsAppended DEF LedgerInv
    <2>3. Len(records') = Len(records) + 1
      BY <1>1
    <2> QED
      BY <2>1, <2>2, <2>3
  <1>3. /\ Authors(records')
        /\ \A p : p # x.target /\ Vacant(records, p) => Vacant(records', p)
    BY <1>1, OneMoreByHand DEF LedgerInv
  <1>4. LocksOK'
    BY <1>3, LocksKeep DEF LedgerInv
  <1>5. shown \in [Employees -> {None} \cup PreviewType']
    BY <1>1, <1>2, TablesGrow DEF LedgerInv
  <1>6. LedgerTypeOK'
    BY <1>2, <1>5 DEF LedgerInv, LedgerTypeOK
  <1>7. WaitingOK' /\ CancelledOK'
    BY DEF LedgerInv, WaitingOK, CancelledOK
  <1> QED
    BY <1>2, <1>3, <1>4, <1>6, <1>7 DEF LedgerInv

LEMMA CreateRecordKeeps ==
    ASSUME LedgerInv, NEW target \in Targets, NEW amount \in PaymentAmounts,
           NEW status \in Entered, CreateRecord(target, amount, status)
    PROVE  LedgerInv'
  <1> DEFINE x == NewRecord(target, amount, status, 0, 0)
  <1>1. x \in RecordType /\ x.target = target /\ x.attempt = 0 /\ ~x.voided
    <2>1. amount \in Nat \ {0} /\ status \in RecordStatuses /\ 0 \in Nat
      BY ConstantTypes
    <2> QED
      BY <2>1, NewRecordType
  <1>2. records' = Append(records, x) /\ waiting' = None /\ target \notin LockedParts
    BY DEF CreateRecord, PayerFree
  <1>3. target \in Part => VacantByHand(records, target)
    BY VacantMeans, VacantIsByHand DEF CreateRecord, PartAccepts
  <1>4. UNCHANGED <<adjustments, charged, subscription, now, worker, shown, crashes>>
    BY DEF CreateRecord
  <1> HIDE DEF x
  <1> QED
    BY <1>1, <1>2, <1>3, <1>4, EnteredKeeps

LEMMA CreateRecordResumesKeeps ==
    ASSUME LedgerInv, CreateRecordResumes
    PROVE  LedgerInv'
  <1> DEFINE x == NewRecord(waiting.target, waiting.amount, waiting.status, 0, 0)
  <1>1. /\ waiting.target \in Part /\ waiting.amount = PartAmount
        /\ waiting.status \in RecordStatuses
    BY DEF LedgerInv, LedgerTypeOK, CreateRecordResumes
  <1>2. x \in RecordType /\ x.target = waiting.target /\ x.attempt = 0 /\ ~x.voided
    <2>1. waiting.target \in Targets /\ waiting.amount \in Nat \ {0} /\ 0 \in Nat
      BY <1>1, ConstantTypes
    <2> QED
      BY <1>1, <2>1, NewRecordType
  <1>3. records' = Append(records, x) /\ waiting' = None /\ waiting.target \notin LockedParts
    BY DEF CreateRecordResumes
  <1>4. VacantByHand(records, waiting.target)
    BY DEF LedgerInv, WaitingOK, CreateRecordResumes
  <1>5. UNCHANGED <<adjustments, charged, subscription, now, worker, shown, crashes>>
    BY DEF CreateRecordResumes
  <1> HIDE DEF x
  <1> QED
    BY <1>2, <1>3, <1>4, <1>5, EnteredKeeps

-----------------------------------------------------------------------------
(* Steps that leave the tables alone.                                      *)

LEMMA TablesStay ==
    ASSUME LedgerInv, UNCHANGED <<records, adjustments>>
    PROVE  /\ LedgerOK(records', adjustments') /\ Authors(records')
           /\ records' \in Seq(RecordType) /\ adjustments' \in Seq(AdjustmentType)
           /\ PreviewType' = PreviewType
  BY SameTables DEF LedgerInv, LedgerTypeOK

LEMMA CreateRecordWaitsKeeps ==
    ASSUME LedgerInv, NEW part \in Part, NEW status \in Entered,
           CreateRecordWaits(part, status)
    PROVE  LedgerInv'
  <1>1. /\ UNCHANGED <<records, adjustments, charged, subscription, now, worker, shown, crashes>>
        /\ waiting' = [kind |-> "create", target |-> part, amount |-> PartAmount,
                       status |-> status]
    BY DEF CreateRecordWaits
  <1>2. /\ LedgerOK(records', adjustments') /\ Authors(records')
        /\ records' \in Seq(RecordType) /\ adjustments' \in Seq(AdjustmentType)
        /\ PreviewType' = PreviewType
    BY <1>1, TablesStay
  <1>3. LedgerTypeOK'
    <2>1. waiting' \in [kind : {"create"}, target : Part, amount : {PartAmount},
                        status : RecordStatuses]
      BY <1>1, ConstantTypes
    <2> QED
      BY <1>1, <1>2, <2>1 DEF LedgerInv, LedgerTypeOK
  <1>4. WaitingOK'
    <2>1. VacantByHand(records, part)
      BY VacantMeans, VacantIsByHand DEF CreateRecordWaits, PartAccepts
    <2> QED
      BY <1>1, <2>1 DEF WaitingOK
  <1>5. LocksOK' /\ CancelledOK'
    BY <1>1 DEF LedgerInv, LocksOK, CancelledOK
  <1> QED
    BY <1>2, <1>3, <1>4, <1>5 DEF LedgerInv

LEMMA BalanceType ==
    ASSUME LedgerInv
    PROVE  Balance \in Int
  <1>1. /\ records \in Seq(RecordType) /\ Len(records) \in Nat
        /\ adjustments \in Seq(AdjustmentType) /\ Len(adjustments) \in Nat
    BY LengthTypes DEF LedgerInv
  <1> DEFINE counts(r) == OrdinaryPayment(r) /\ records[r].target \in {Account}
             f == [r \in Records |-> IF counts(r) THEN records[r].amount ELSE 0]
             h == [a \in Adjustments |-> IF OrdinaryAdjustment(a) /\ counts(adjustments[a].record)
                                         THEN adjustments[a].amount ELSE 0]
  <1>2. f \in [1 .. Len(records) -> Int]
    <2>1. \A r \in 1 .. Len(records) : records[r].amount \in Int
      BY <1>1, RowFields
    <2> QED
      BY <2>1 DEF Records
  <1>3. h \in [1 .. Len(adjustments) -> Int]
    <2>1. \A a \in 1 .. Len(adjustments) : adjustments[a].amount \in Int
      BY <1>1, AdjustmentFields
    <2> QED
      BY <2>1 DEF Adjustments
  <1>4. Balance = (SumTo(Len(records), f) + SumTo(Len(adjustments), h)) - charged
    BY DEF Balance, OrdinaryTotal
  <1> HIDE DEF f, h
  <1>5. SumTo(Len(records), f) \in Int /\ SumTo(Len(adjustments), h) \in Int
    BY <1>1, <1>2, <1>3, SumType
  <1>6. charged \in Int
    BY DEF LedgerInv, LedgerTypeOK
  <1> QED
    BY <1>4, <1>5, <1>6

\* A preview is of a row that exists and concerns nobody else.
LEMMA PreviewKeeps ==
    ASSUME LedgerInv, NEW e \in Employees, NEW p \in PreviewType,
           shown' = [shown EXCEPT ![e] = p],
           UNCHANGED <<records, adjustments, charged, subscription, now, worker,
                       waiting, crashes>>
    PROVE  LedgerInv'
  <1>1. /\ LedgerOK(records', adjustments') /\ Authors(records')
        /\ records' \in Seq(RecordType) /\ adjustments' \in Seq(AdjustmentType)
        /\ PreviewType' = PreviewType
    BY TablesStay
  <1>2. shown' \in [Employees -> {None} \cup PreviewType]
    BY DEF LedgerInv, LedgerTypeOK
  <1>3. LedgerTypeOK'
    BY <1>1, <1>2 DEF LedgerInv, LedgerTypeOK
  <1>4. LocksOK' /\ WaitingOK' /\ CancelledOK'
    BY DEF LedgerInv, LocksOK, WaitingOK, CancelledOK
  <1> QED
    BY <1>1, <1>3, <1>4 DEF LedgerInv

LEMMA PreviewReversalKeeps ==
    ASSUME LedgerInv, NEW e \in Employees, NEW r \in Records, PreviewReversal(e, r)
    PROVE  LedgerInv'
  <1> DEFINE amount == IF records[r].status = "paid" /\ ~ForSubscription(r)
                       THEN records[r].amount ELSE 0
             p == [kind |-> "reversal", record |-> r, version |-> records[r].version,
                   balance |-> Balance, resulting |-> Balance - amount]
  <1>1. records \in Seq(RecordType) /\ r \in 1 .. Len(records)
    BY LengthTypes DEF LedgerInv, Records
  <1>2. records[r].version \in Nat /\ records[r].amount \in Int
    BY <1>1, RowFields
  <1>3. amount \in Int /\ Balance \in Int
    BY <1>2, BalanceType
  <1>4. shown' = [shown EXCEPT ![e] = p]
    BY DEF PreviewReversal
  <1>5. UNCHANGED <<records, adjustments, charged, subscription, now, worker, waiting, crashes>>
    BY DEF PreviewReversal
  <1>6. p \in PreviewType
    <2> HIDE DEF amount
    <2>1. Balance - amount \in Int
      BY <1>3
    <2> QED
      BY <1>2, <1>3, <2>1 DEF PreviewType
  <1> HIDE DEF p
  <1> QED
    BY <1>4, <1>5, <1>6, PreviewKeeps

LEMMA PreviewCorrectionKeeps ==
    ASSUME LedgerInv, NEW e \in Employees, NEW r \in Records,
           NEW amount \in PaymentAmounts, NEW status \in Entered,
           PreviewCorrection(e, r, amount, status)
    PROVE  LedgerInv'
  <1> DEFINE booked(s, m) == IF s = "paid" /\ ~ForSubscription(r) THEN m ELSE 0
             resulting == Balance + booked(status, amount)
                            - booked(records[r].status, records[r].amount)
             p == [kind |-> "correction", record |-> r, version |-> records[r].version,
                   balance |-> Balance, amount |-> amount, status |-> status,
                   resulting |-> resulting]
  <1>1. records \in Seq(RecordType) /\ r \in 1 .. Len(records)
    BY LengthTypes DEF LedgerInv, Records
  <1>2. records[r].version \in Nat /\ records[r].amount \in Int
    BY <1>1, RowFields
  <1>3. amount \in Nat \ {0} /\ status \in RecordStatuses
    BY ConstantTypes
  <1>4. booked(status, amount) \in Int /\ booked(records[r].status, records[r].amount) \in Int
    BY <1>2, <1>3
  <1>5. shown' = [shown EXCEPT ![e] = p]
    BY DEF PreviewCorrection
  <1>6. UNCHANGED <<records, adjustments, charged, subscription, now, worker, waiting, crashes>>
    BY DEF PreviewCorrection
  <1> HIDE DEF booked
  <1>7. Balance \in Int /\ resulting \in Int
    BY <1>4, BalanceType
  <1>8. p \in PreviewType
    <2> HIDE DEF resulting
    <2> QED
      BY <1>2, <1>3, <1>7 DEF PreviewType
  <1> HIDE DEF p
  <1> QED
    BY <1>5, <1>6, <1>8, PreviewKeeps

LEMMA PreviewAdjustmentReversalKeeps ==
    ASSUME LedgerInv, NEW e \in Employees, NEW a \in Adjustments,
           PreviewAdjustmentReversal(e, a)
    PROVE  LedgerInv'
  <1> DEFINE amount == IF ~ForSubscription(adjustments[a].record)
                       THEN adjustments[a].amount ELSE 0
             p == [kind |-> "adjustment", record |-> a, version |-> 1, balance |-> Balance,
                   resulting |-> Balance - amount]
  <1>1. adjustments \in Seq(AdjustmentType) /\ a \in 1 .. Len(adjustments)
    BY LengthTypes DEF LedgerInv, Adjustments
  <1>2. adjustments[a].amount \in Int
    BY <1>1, AdjustmentFields
  <1>3. amount \in Int /\ Balance \in Int
    BY <1>2, BalanceType
  <1>4. shown' = [shown EXCEPT ![e] = p]
    BY DEF PreviewAdjustmentReversal
  <1>5. UNCHANGED <<records, adjustments, charged, subscription, now, worker, waiting, crashes>>
    BY DEF PreviewAdjustmentReversal
  <1>6. p \in PreviewType
    <2> HIDE DEF amount
    <2>1. Balance - amount \in Int
      BY <1>3
    <2> QED
      BY <1>3, <2>1 DEF PreviewType
  <1> HIDE DEF p
  <1> QED
    BY <1>4, <1>5, <1>6, PreviewKeeps

-----------------------------------------------------------------------------
(* Commands that change rows.                                              *)

\* Rows that change or are hidden, with adjustments that keep the ledger in order,
\* while nobody waits.
LEMMA RowsChangedKeeps ==
    ASSUME LedgerInv, waiting = None,
           records' \in Seq(RecordType), adjustments' \in Seq(AdjustmentType),
           LedgerOK(records', adjustments'), Authors(records'),
           Len(records) <= Len(records'), Len(adjustments) <= Len(adjustments'),
           \A p : p \in LockedParts /\ Vacant(records, p) => Vacant(records', p),
           UNCHANGED <<charged, now, worker, waiting, shown, crashes>>,
           subscription' \in {"active", "cancelled"},
           subscription' # subscription => LockedParts = {}
    PROVE  LedgerInv'
  <1>1. LocksOK'
    BY LocksKeep DEF LedgerInv
  <1>2. Len(records') \in Nat /\ Len(adjustments') \in Nat
    OBVIOUS
  <1>3. shown \in [Employees -> {None} \cup PreviewType']
    BY <1>2, TablesGrow DEF LedgerInv
  <1>4. LedgerTypeOK'
    BY <1>3 DEF LedgerInv, LedgerTypeOK
  <1>5. WaitingOK'
    BY DEF WaitingOK
  <1>6. CancelledOK'
    <2>1. CASE subscription' = subscription
      BY <2>1 DEF LedgerInv, CancelledOK
    <2>2. CASE subscription' # subscription
      <3>1. \A w \in Workers : worker[w] = {}
        BY <2>2, LockedMeans
      <3> QED
        BY <3>1 DEF CancelledOK
    <2> QED
      BY <2>1, <2>2
  <1> QED
    BY <1>1, <1>4, <1>5, <1>6 DEF LedgerInv

LEMMA TransitionRecordKeeps ==
    ASSUME LedgerInv, NEW r \in Records, NEW status \in RecordStatuses,
           TransitionRecord(r, status)
    PROVE  LedgerInv'
  <1> DEFINE row == [records[r] EXCEPT !.status = status, !.version = @ + 1]
  <1>1. /\ records \in Seq(RecordType) /\ Len(records) \in Nat /\ r \in 1 .. Len(records)
        /\ adjustments \in Seq(AdjustmentType) /\ Len(adjustments) \in Nat
    BY LengthTypes DEF LedgerInv, Records
  <1>2. records[r] \in RecordType /\ records[r].version \in Nat \ {0}
    BY <1>1, RowFields
  <1>3. records[r].version + 1 \in Nat \ {0}
    BY <1>2
  <1>4. /\ row \in RecordType /\ row.target = records[r].target
        /\ row.attempt = records[r].attempt /\ row.voided = records[r].voided
    BY <1>2, <1>3 DEF RecordType
  <1>5. records' = [records EXCEPT ![r] = row]
    BY DEF TransitionRecord
  <1>6. records[r].status # "paid" /\ ~records[r].voided
    BY DEF TransitionRecord, Transitions, Ordinary
  <1> HIDE DEF row
  <1>7. /\ records' \in Seq(RecordType) /\ Len(records') = Len(records) /\ records'[r] = row
        /\ \A k \in 1 .. Len(records) : k # r => records'[k] = records[k]
    BY <1>1, <1>4, <1>5, Replaced
  <1>8. LedgerOK(records', adjustments)
    <2>1. \A k \in 1 .. Len(records) :
            \/ records'[k] = records[k]
            \/ records[k].status # "paid" /\ (records'[k].voided => records'[k].status # "paid")
      BY <1>4, <1>6, <1>7
    <2> QED
      BY <1>1, <1>7, <2>1, RecordsChanged DEF LedgerInv
  <1>9. /\ Authors(records')
        /\ \A p : Vacant(records, p) => Vacant(records', p)
    <2>1. \A k \in 1 .. Len(records) :
            /\ records'[k].target = records[k].target /\ records'[k].attempt = records[k].attempt
            /\ records[k].voided => records'[k].voided
      BY <1>4, <1>7
    <2> QED
      BY <1>7, <2>1, FewerInForce DEF LedgerInv
  <1>10. /\ waiting = None
         /\ UNCHANGED <<adjustments, charged, subscription, now, worker, waiting, shown, crashes>>
    BY DEF TransitionRecord, PayerFree
  <1>11. subscription \in {"active", "cancelled"}
    BY DEF LedgerInv, LedgerTypeOK
  <1>12. Len(records) <= Len(records') /\ Len(adjustments) <= Len(adjustments)
    BY <1>1, <1>7
  <1> QED
    BY <1>1, <1>7, <1>8, <1>9, <1>10, <1>11, <1>12, RowsChangedKeeps

LEMMA RecordAdjustmentKeeps ==
    ASSUME LedgerInv, NEW r \in Records, NEW amount \in Int, RecordAdjustment(r, amount)
    PROVE  LedgerInv'
  <1> DEFINE x == [record |-> r, amount |-> amount, voided |-> FALSE]
  <1>1. /\ records \in Seq(RecordType) /\ Len(records) \in Nat /\ r \in 1 .. Len(records)
        /\ adjustments \in Seq(AdjustmentType) /\ Len(adjustments) \in Nat
    BY LengthTypes DEF LedgerInv, Records
  <1>2. x \in AdjustmentType /\ x.record = r /\ ~x.voided
    BY <1>1 DEF AdjustmentType
  <1>3. adjustments' = Append(adjustments, x)
    BY DEF RecordAdjustment
  <1>4. records[r].status = "paid" /\ ~records[r].voided
    BY DEF RecordAdjustment, OrdinaryPayment, Ordinary
  <1> HIDE DEF x
  <1>5. adjustments' \in Seq(AdjustmentType) /\ LedgerOK(records, adjustments')
    BY <1>1, <1>2, <1>3, <1>4, AdjustmentAppended DEF LedgerInv
  <1>6. /\ waiting = None
        /\ UNCHANGED <<records, charged, subscription, now, worker, waiting, shown, crashes>>
    BY DEF RecordAdjustment, PayerFree
  <1>7. subscription \in {"active", "cancelled"} /\ Authors(records)
    BY DEF LedgerInv, LedgerTypeOK
  <1>8. Len(records) <= Len(records) /\ Len(adjustments) <= Len(adjustments')
    BY <1>1, <1>2, <1>3
  <1> QED
    BY <1>1, <1>5, <1>6, <1>7, <1>8, RowsChangedKeeps

\* What a commit finds in the preview it is for.
LEMMA ShownRecord ==
    ASSUME LedgerInv, NEW e \in Employees
    PROVE  /\ shown[e].kind \in {"reversal", "correction"} => shown[e].record \in Records
           /\ shown[e].kind = "correction" =>
                shown[e].amount \in Nat \ {0} /\ shown[e].status \in RecordStatuses
           /\ shown[e].kind = "adjustment" => shown[e].record \in Adjustments
  <1>1. shown[e] = None \/ shown[e] \in PreviewType
    BY DEF LedgerInv, LedgerTypeOK
  <1>2. CASE shown[e] = None
    BY <1>2 DEF None
  <1>3. CASE shown[e] \in PreviewType
    BY <1>3 DEF PreviewType
  <1> QED
    BY <1>1, <1>2, <1>3

\* A reversible record is hidden, with its counterpart.
LEMMA RecordHidden ==
    ASSUME LedgerInv, NEW r \in Records, Reversible(r), NEW S, NEW B,
           S = [records EXCEPT ![r].voided = TRUE],
           B = adjustments \o Counterpart(r)
    PROVE  /\ S \in Seq(RecordType) /\ Len(S) = Len(records)
           /\ B \in Seq(AdjustmentType) /\ Len(adjustments) <= Len(B)
           /\ LedgerOK(S, B) /\ Authors(S)
           /\ \A k \in 1 .. Len(records) : S[k].target = records[k].target
           /\ \A p : Vacant(records, p) => Vacant(S, p)
  <1> DEFINE row == [records[r] EXCEPT !.voided = TRUE]
  <1>1. /\ records \in Seq(RecordType) /\ Len(records) \in Nat /\ r \in 1 .. Len(records)
        /\ adjustments \in Seq(AdjustmentType) /\ Len(adjustments) \in Nat
    BY LengthTypes DEF LedgerInv, Records
  <1>2. records[r] \in RecordType
    BY <1>1, RowFields
  <1>3. /\ row \in RecordType /\ row.target = records[r].target /\ row.voided
        /\ row.attempt = records[r].attempt /\ row.status = records[r].status
    BY <1>2 DEF RecordType
  <1>4. S = [records EXCEPT ![r] = row]
    OBVIOUS
  <1>5. /\ ~records[r].voided
        /\ \A a \in 1 .. Len(adjustments) : adjustments[a].record = r => adjustments[a].voided
    BY DEF Reversible, Ordinary, LinkedAdjustments, Adjustments, OrdinaryAdjustment
  <1> HIDE DEF row
  <1>6. /\ S \in Seq(RecordType) /\ Len(S) = Len(records) /\ S[r] = row
        /\ \A k \in 1 .. Len(records) : k # r => S[k] = records[k]
    <2> DEFINE R == [records EXCEPT ![r] = row]
    <2>1. /\ R \in Seq(RecordType) /\ Len(R) = Len(records) /\ R[r] = row
          /\ \A k \in 1 .. Len(records) : k # r => R[k] = records[k]
      BY <1>1, <1>3, Replaced
    <2> HIDE DEF R
    <2>2. S = R
      BY <1>4 DEF R
    <2> QED
      BY <2>1, <2>2
  <1>7. \A k \in 1 .. Len(records) :
          /\ S[k].target = records[k].target /\ S[k].attempt = records[k].attempt
          /\ records[k].voided => S[k].voided
    BY <1>3, <1>6
  <1>8. Authors(S) /\ \A p : Vacant(records, p) => Vacant(S, p)
    BY <1>6, <1>7, FewerInForce DEF LedgerInv
  <1>9. B \in Seq(AdjustmentType) /\ Len(adjustments) <= Len(B) /\ LedgerOK(S, B)
    <2>1. CASE records[r].status = "paid"
      <3> DEFINE x == [record |-> r, amount |-> -records[r].amount, voided |-> TRUE]
      <3>1. B = adjustments \o <<x>>
        BY <2>1 DEF Counterpart
      <3>2. x \in AdjustmentType
        <4>1. r \in Nat /\ -records[r].amount \in Int
          BY <1>1, RowFields
        <4> QED
          BY <4>1 DEF AdjustmentType
      <3>3. Append(adjustments, x) \in Seq(AdjustmentType)
            /\ LedgerOK([records EXCEPT ![r].voided = TRUE], Append(adjustments, x))
        BY <1>1, <1>5, <2>1, PaymentHidden DEF LedgerInv
      <3> HIDE DEF x
      <3>4. B = Append(adjustments, x) /\ Len(adjustments) <= Len(B)
        BY <1>1, <3>1, <3>2
      <3> QED
        BY <3>3, <3>4
    <2>2. CASE records[r].status # "paid"
      <3>1. B = adjustments
        BY <1>1, <2>2 DEF Counterpart
      <3>2. \A k \in 1 .. Len(records) :
              \/ S[k] = records[k]
              \/ records[k].status # "paid" /\ (S[k].voided => S[k].status # "paid")
        BY <1>3, <1>6, <2>2
      <3>3. LedgerOK(S, adjustments)
        BY <1>1, <1>6, <3>2, RecordsChanged DEF LedgerInv
      <3> QED
        BY <1>1, <3>1, <3>3
    <2> QED
      BY <2>1, <2>2
  <1> QED
    BY <1>6, <1>7, <1>8, <1>9

LEMMA CommitReversalKeeps ==
    ASSUME LedgerInv, NEW e \in Employees, CommitReversal(e)
    PROVE  LedgerInv'
  <1> DEFINE r == shown[e].record
  <1>1. r \in Records /\ Reversible(r)
    BY ShownRecord DEF CommitReversal, StillAsPreviewed
  <1>2. /\ records' = [records EXCEPT ![r].voided = TRUE]
        /\ adjustments' = adjustments \o Counterpart(r)
        /\ waiting = None
        /\ UNCHANGED <<charged, subscription, now, worker, waiting, shown, crashes>>
    BY DEF CommitReversal, PayerFree
  <1> HIDE DEF r
  <1>3. /\ records' \in Seq(RecordType) /\ Len(records') = Len(records)
        /\ adjustments' \in Seq(AdjustmentType) /\ Len(adjustments) <= Len(adjustments')
        /\ LedgerOK(records', adjustments') /\ Authors(records')
        /\ \A p : Vacant(records, p) => Vacant(records', p)
    BY <1>1, <1>2, RecordHidden
  <1>4. subscription \in {"active", "cancelled"} /\ Len(records) \in Nat
    BY LengthTypes DEF LedgerInv, LedgerTypeOK
  <1>5. Len(records) <= Len(records')
    BY <1>3, <1>4
  <1> QED
    BY <1>2, <1>3, <1>4, <1>5, RowsChangedKeeps

LEMMA CommitCorrectionKeeps ==
    ASSUME LedgerInv, NEW e \in Employees, CommitCorrection(e)
    PROVE  LedgerInv'
  <1> DEFINE r == shown[e].record
             S == [records EXCEPT ![r].voided = TRUE]
             x == NewRecord(records[r].target, shown[e].amount, shown[e].status, 0, r)
  <1>1. /\ r \in Records /\ Reversible(r)
        /\ shown[e].amount \in Nat \ {0} /\ shown[e].status \in RecordStatuses
    BY ShownRecord DEF CommitCorrection, StillAsPreviewed
  <1>2. /\ records' = Append(S, x)
        /\ adjustments' = adjustments \o Counterpart(r)
        /\ waiting = None
        /\ UNCHANGED <<charged, subscription, now, worker, waiting, shown, crashes>>
    BY DEF CommitCorrection, PayerFree
  <1>3. /\ records[r].target \notin LockedParts
        /\ records[r].target \in Part =>
             \A s \in RecordsOf(records[r].target) : S[s].voided
    BY DEF CommitCorrection
  <1>4. /\ records \in Seq(RecordType) /\ Len(records) \in Nat /\ r \in 1 .. Len(records)
        /\ r \in Nat
    BY <1>1, LengthTypes DEF LedgerInv, Records
  <1>5. x \in RecordType /\ x.target = records[r].target /\ x.attempt = 0 /\ ~x.voided
    <2>1. records[r].target \in Targets /\ 0 \in Nat
      BY <1>4, RowFields
    <2> QED
      BY <1>1, <1>4, <2>1, NewRecordType
  <1> HIDE DEF x
  <1>6. /\ S \in Seq(RecordType) /\ Len(S) = Len(records)
        /\ adjustments' \in Seq(AdjustmentType) /\ Len(adjustments) <= Len(adjustments')
        /\ LedgerOK(S, adjustments') /\ Authors(S)
        /\ \A k \in 1 .. Len(records) : S[k].target = records[k].target
        /\ \A p : Vacant(records, p) => Vacant(S, p)
    BY <1>1, <1>2, RecordHidden
  <1> HIDE DEF r, S
  <1>7. /\ records' \in Seq(RecordType) /\ LedgerOK(records', adjustments')
        /\ Len(records) <= Len(records')
    <2>1. /\ <<x>> \in Seq(RecordType) /\ \A i \in 1 .. Len(<<x>>) : ~(<<x>>)[i].voided
          /\ Append(S, x) = S \o <<x>> /\ Len(Append(S, x)) = Len(S) + 1
      BY <1>5, <1>6
    <2>2. S \o <<x>> \in Seq(RecordType) /\ LedgerOK(S \o <<x>>, adjustments')
      BY <1>6, <2>1, RecordsAppended
    <2> QED
      BY <1>2, <1>4, <1>6, <2>1, <2>2
  <1>8. Authors(records') /\ \A p : p # x.target /\ Vacant(S, p) => Vacant(records', p)
    <2>1. x.target \in Part => VacantByHand(S, x.target)
      <3> SUFFICES ASSUME x.target \in Part PROVE Vacant(S, x.target)
        BY VacantIsByHand
      <3> QED
        BY <1>3, <1>5, <1>6 DEF Vacant, RecordsOf, Records
    <2> QED
      BY <1>2, <1>5, <1>6, <2>1, OneMoreByHand
  <1>9. \A p : p \in LockedParts /\ Vacant(records, p) => Vacant(records', p)
    BY <1>3, <1>5, <1>6, <1>8
  <1>10. subscription \in {"active", "cancelled"}
    BY DEF LedgerInv, LedgerTypeOK
  <1> QED
    BY <1>2, <1>6, <1>7, <1>8, <1>9, <1>10, RowsChangedKeeps

LEMMA CommitAdjustmentReversalKeeps ==
    ASSUME LedgerInv, NEW e \in Employees, CommitAdjustmentReversal(e)
    PROVE  LedgerInv'
  <1> DEFINE a == shown[e].record
             x == [record |-> adjustments[a].record, amount |-> -adjustments[a].amount,
                   voided |-> TRUE]
  <1>1. a \in Adjustments /\ ~adjustments[a].voided
    BY ShownRecord DEF CommitAdjustmentReversal, OrdinaryAdjustment
  <1>2. /\ adjustments' = Append([adjustments EXCEPT ![a].voided = TRUE], x)
        /\ waiting = None
        /\ UNCHANGED <<records, charged, subscription, now, worker, waiting, shown, crashes>>
    BY DEF CommitAdjustmentReversal, PayerFree
  <1>3. /\ records \in Seq(RecordType) /\ Len(records) \in Nat /\ a \in 1 .. Len(adjustments)
        /\ adjustments \in Seq(AdjustmentType) /\ Len(adjustments) \in Nat
    BY <1>1, LengthTypes DEF LedgerInv, Adjustments
  <1>4. /\ x \in AdjustmentType
        /\ x.record = adjustments[a].record /\ x.amount = -adjustments[a].amount /\ x.voided
    <2>1. adjustments[a].record \in Nat /\ -adjustments[a].amount \in Int
      BY <1>3, AdjustmentFields
    <2> QED
      BY <2>1 DEF AdjustmentType
  <1> HIDE DEF a, x
  <1>5. adjustments' \in Seq(AdjustmentType) /\ LedgerOK(records, adjustments')
    BY <1>1, <1>2, <1>3, <1>4, AdjustmentHidden DEF LedgerInv
  <1>6. subscription \in {"active", "cancelled"} /\ Authors(records)
    BY DEF LedgerInv, LedgerTypeOK
  <1>7. Len(records) <= Len(records) /\ Len(adjustments) <= Len(adjustments')
    <2> DEFINE C == [adjustments EXCEPT ![a].voided = TRUE]
    <2>1. Len(C) = Len(adjustments)
      BY <1>3
    <2> HIDE DEF C
    <2>2. Len(Append(C, x)) = Len(C) + 1
      BY <1>5
    <2> QED
      BY <1>2, <1>3, <2>1, <2>2 DEF C
  <1> QED
    BY <1>2, <1>3, <1>5, <1>6, <1>7, RowsChangedKeeps

LEMMA CancelSubscriptionKeeps ==
    ASSUME LedgerInv, CancelSubscription
    PROVE  LedgerInv'
  <1>1. /\ records \in Seq(RecordType) /\ Len(records) \in Nat
        /\ adjustments \in Seq(AdjustmentType) /\ Len(adjustments) \in Nat
    BY LengthTypes DEF LedgerInv
  <1>2. /\ records' = WithOpenRecordsClosed /\ subscription' = "cancelled"
        /\ LockedParts = {} /\ waiting = None
        /\ UNCHANGED <<adjustments, charged, now, worker, waiting, shown, crashes>>
    BY DEF CancelSubscription, PayerFree
  <1>3. \A k \in 1 .. Len(records) :
          /\ records'[k] \in RecordType
          /\ records'[k].target = records[k].target /\ records'[k].attempt = records[k].attempt
          /\ records[k].voided => records'[k].voided
          /\ \/ records'[k] = records[k]
             \/ records[k].status # "paid" /\ records'[k].status # "paid"
    <2> SUFFICES ASSUME NEW k \in 1 .. Len(records)
                 PROVE  /\ records'[k] \in RecordType
                        /\ records'[k].target = records[k].target
                        /\ records'[k].attempt = records[k].attempt
                        /\ records[k].voided => records'[k].voided
                        /\ \/ records'[k] = records[k]
                           \/ records[k].status # "paid" /\ records'[k].status # "paid"
      OBVIOUS
    <2>1. records[k] \in RecordType
      BY <1>1, RowFields
    <2>2. CASE ForSubscription(k) /\ records[k].status # "paid"
      <3>1. records'[k] = [records[k] EXCEPT !.voided = TRUE]
        BY <1>2, <2>2 DEF WithOpenRecordsClosed, Records
      <3> QED
        BY <2>1, <2>2, <3>1 DEF RecordType
    <2>3. CASE ~(ForSubscription(k) /\ records[k].status # "paid")
      <3>1. records'[k] = records[k]
        BY <1>2, <2>3 DEF WithOpenRecordsClosed, Records
      <3> QED
        BY <2>1, <3>1
    <2> QED
      BY <2>2, <2>3
  <1>4. records' \in Seq(RecordType) /\ Len(records') = Len(records)
    <2>1. DOMAIN records' = 1 .. Len(records)
      BY <1>2 DEF WithOpenRecordsClosed, Records
    <2>2. records' = [k \in 1 .. Len(records) |-> records'[k]]
      BY <1>2, <2>1 DEF WithOpenRecordsClosed
    <2>3. records' \in [1 .. Len(records) -> RecordType]
      BY <1>3, <2>2
    <2> QED
      BY <1>1, <2>3
  <1>5. LedgerOK(records', adjustments)
    BY <1>1, <1>3, <1>4, RecordsChanged DEF LedgerInv
  <1>6. Authors(records') /\ \A p : Vacant(records, p) => Vacant(records', p)
    BY <1>3, <1>4, FewerInForce DEF LedgerInv
  <1>7. Len(records) <= Len(records') /\ Len(adjustments) <= Len(adjustments)
    BY <1>1, <1>4
  <1> QED
    BY <1>1, <1>2, <1>4, <1>5, <1>6, <1>7, RowsChangedKeeps

-----------------------------------------------------------------------------
(* The worker, and what happens around it.                                 *)

LEMMA SelectDueKeeps ==
    ASSUME LedgerInv, NEW w \in Workers, SelectDue(w)
    PROVE  LedgerInv'
  <1> DEFINE free == {q \in Part : Due(q) /\ q \notin LockedParts}
             locks == {<<p, Cardinality(RecordsOf(p)) + 1>> : p \in free}
  <1>1. /\ worker' = [worker EXCEPT ![w] = locks]
        /\ UNCHANGED <<records, adjustments, charged, subscription, now, waiting, shown, crashes>>
    BY DEF SelectDue
  <1>2. \A p \in free : Cardinality(RecordsOf(p)) + 1 \in Nat /\ Cardinality(RecordsOf(p)) + 1 > 0
    <2> SUFFICES ASSUME NEW p PROVE Cardinality(RecordsOf(p)) \in Nat
      OBVIOUS
    <2>1. IsFiniteSet(1 .. Len(records))
      <3>1. 1 \in Int /\ Len(records) \in Int
        BY LengthTypes DEF LedgerInv
      <3> QED
        BY <3>1, FS_Interval
    <2>2. RecordsOf(p) \subseteq 1 .. Len(records)
      BY DEF RecordsOf, Records
    <2> QED
      BY <2>1, <2>2, FS_Subset, FS_CardinalityType
  <1>3. \A p \in free : p \in Part /\ Vacant(records, p) /\ p \notin LockedParts
    BY VacantMeans DEF Due
  <1>4. subscription = "active"
    BY DEF SelectDue, Due
  <1>5. \A lock \in locks :
          lock[1] \in free /\ lock[2] > 0 /\ lock = <<lock[1], Cardinality(RecordsOf(lock[1])) + 1>>
    BY <1>2
  <1>6. locks \in SUBSET (Part \X Nat)
    BY <1>2
  <1> HIDE DEF locks, free
  <1>7. /\ LedgerOK(records', adjustments') /\ Authors(records')
        /\ records' \in Seq(RecordType) /\ adjustments' \in Seq(AdjustmentType)
        /\ PreviewType' = PreviewType
    BY <1>1, TablesStay
  <1>8. LedgerTypeOK'
    <2>1. worker' \in [Workers -> SUBSET (Part \X Nat)]
      BY <1>1, <1>6 DEF LedgerInv, LedgerTypeOK
    <2> QED
      BY <1>1, <1>7, <2>1 DEF LedgerInv, LedgerTypeOK
  <1>9. LocksOK'
    <2>1. /\ worker'[w] = locks
          /\ \A v \in Workers : v # w => worker'[v] = worker[v]
      BY <1>1 DEF LedgerInv, LedgerTypeOK
    <2>2. ASSUME NEW v \in Workers, NEW lock \in worker'[v]
          PROVE  lock[2] > 0 /\ Vacant(records', lock[1])
      <3>1. CASE v = w
        BY <1>1, <1>3, <1>5, <2>1, <2>2, <3>1
      <3>2. CASE v # w
        BY <1>1, <2>1, <2>2, <3>2 DEF LedgerInv, LocksOK
      <3> QED
        BY <3>1, <3>2
    <2>3. ASSUME NEW v \in Workers, NEW u \in Workers,
                 NEW k \in worker'[v], NEW l \in worker'[u], k[1] = l[1]
          PROVE  v = u /\ k = l
      <3>1. CASE v = w /\ u = w
        BY <1>5, <2>1, <2>3, <3>1
      <3>2. CASE v = w /\ u # w
        <4>1. k[1] \notin LockedParts /\ l[1] \in LockedParts
          BY <1>3, <1>5, <2>1, <2>3, <3>2, LockedMeans
        <4> QED
          BY <2>3, <4>1
      <3>3. CASE v # w /\ u = w
        <4>1. l[1] \notin LockedParts /\ k[1] \in LockedParts
          BY <1>3, <1>5, <2>1, <2>3, <3>3, LockedMeans
        <4> QED
          BY <2>3, <4>1
      <3>4. CASE v # w /\ u # w
        BY <2>1, <2>3, <3>4 DEF LedgerInv, LocksOK
      <3> QED
        BY <3>1, <3>2, <3>3, <3>4
    <2> QED
      BY <2>2, <2>3 DEF LocksOK
  <1>10. WaitingOK' /\ CancelledOK'
    BY <1>1, <1>4 DEF LedgerInv, WaitingOK, CancelledOK
  <1> QED
    BY <1>7, <1>8, <1>9, <1>10 DEF LedgerInv

\* A worker that lets its parts go.
LEMMA LetGo ==
    ASSUME LedgerInv, NEW w \in Workers, worker' = [worker EXCEPT ![w] = {}],
           \A v \in Workers : v # w =>
             \A lock \in worker[v] : Vacant(records', lock[1])
    PROVE  /\ LocksOK'
           /\ worker' \in [Workers -> SUBSET (Part \X Nat)]
           /\ \A v \in Workers : worker[v] = {} => worker'[v] = {}
  <1>1. /\ worker'[w] = {}
        /\ \A v \in Workers : v # w => worker'[v] = worker[v]
        /\ worker' \in [Workers -> SUBSET (Part \X Nat)]
    BY DEF LedgerInv, LedgerTypeOK
  <1>2. ASSUME NEW v \in Workers, NEW lock \in worker'[v]
        PROVE  v # w /\ lock \in worker[v]
    BY <1>1, <1>2
  <1>3. ASSUME NEW v \in Workers, NEW lock \in worker'[v]
        PROVE  lock[2] > 0 /\ Vacant(records', lock[1])
    BY <1>2, <1>3 DEF LedgerInv, LocksOK
  <1>4. ASSUME NEW v \in Workers, NEW u \in Workers,
               NEW k \in worker'[v], NEW l \in worker'[u], k[1] = l[1]
        PROVE  v = u /\ k = l
    BY <1>2, <1>4 DEF LedgerInv, LocksOK
  <1> QED
    BY <1>1, <1>3, <1>4 DEF LocksOK

LEMMA WorkerCrashesKeeps ==
    ASSUME LedgerInv, NEW w \in Workers, WorkerCrashes(w)
    PROVE  LedgerInv'
  <1>1. /\ worker' = [worker EXCEPT ![w] = {}]
        /\ UNCHANGED <<records, adjustments, charged, subscription, now, waiting, shown>>
        /\ crashes' = crashes + 1 /\ crashes < MaxCrashes
    BY DEF WorkerCrashes
  <1>2. /\ LedgerOK(records', adjustments') /\ Authors(records')
        /\ records' \in Seq(RecordType) /\ adjustments' \in Seq(AdjustmentType)
        /\ PreviewType' = PreviewType
    BY <1>1, TablesStay
  <1>3. /\ LocksOK'
        /\ worker' \in [Workers -> SUBSET (Part \X Nat)]
        /\ \A v \in Workers : worker[v] = {} => worker'[v] = {}
    <2>1. \A v \in Workers : \A lock \in worker[v] : Vacant(records', lock[1])
      BY <1>1 DEF LedgerInv, LocksOK
    <2> QED
      BY <1>1, <2>1, LetGo
  <1>4. crashes' \in 0 .. MaxCrashes
    BY <1>1, LedgerAssumption DEF LedgerAssumption, LedgerInv, LedgerTypeOK
  <1>5. LedgerTypeOK'
    BY <1>1, <1>2, <1>3, <1>4 DEF LedgerInv, LedgerTypeOK
  <1>6. WaitingOK' /\ CancelledOK'
    BY <1>1, <1>3 DEF LedgerInv, WaitingOK, CancelledOK
  <1> QED
    BY <1>2, <1>3, <1>5, <1>6 DEF LedgerInv

\* What a worker inserts: one record for each part it holds, where none is in force.
LEMMA MaterializeDueAppends ==
    ASSUME LedgerInv, NEW w \in Workers, MaterializeDue(w)
    PROVE  \E new \in Seq(RecordType) :
             /\ records' = records \o new
             /\ \A i \in 1 .. Len(new) :
                  /\ \E lock \in worker[w] : lock[1] = new[i].target
                  /\ new[i].attempt > 0 /\ ~new[i].voided
                  /\ Vacant(records, new[i].target)
             /\ \A i, j \in 1 .. Len(new) : new[i].target = new[j].target => i = j
  <1> DEFINE asked == {lock \in worker[w] : ~DueIdTaken(lock)}
  <1>0. PICK n \in 0 .. Parts : \E order \in [1 .. n -> asked] :
          /\ \A i, j \in 1 .. n : i < j => order[i][1] < order[j][1]
          /\ records' = records \o DueRecords(order)
    BY DEF MaterializeDue
  <1>2. PICK order \in [1 .. n -> asked] :
          /\ \A i, j \in 1 .. n : i < j => order[i][1] < order[j][1]
          /\ records' = records \o DueRecords(order)
    BY <1>0
  <1> DEFINE new == DueRecords(order)
  <1>3. /\ n \in Nat /\ DOMAIN order = 1 .. n
        /\ records \in Seq(RecordType) /\ Len(records) \in Nat
        /\ adjustments \in Seq(AdjustmentType) /\ Len(adjustments) \in Nat
    BY LengthTypes, LedgerAssumption DEF LedgerAssumption, LedgerInv
  <1>4. \A i \in 1 .. n :
          /\ order[i] \in worker[w] /\ order[i] \in Part \X Nat
          /\ order[i][1] \in Part /\ order[i][1] \in Nat
          /\ order[i][2] \in Nat /\ order[i][2] > 0
          /\ Vacant(records, order[i][1])
    <2> SUFFICES ASSUME NEW i \in 1 .. n
                 PROVE  /\ order[i] \in worker[w] /\ order[i] \in Part \X Nat
                        /\ order[i][1] \in Part /\ order[i][1] \in Nat
                        /\ order[i][2] \in Nat /\ order[i][2] > 0
                        /\ Vacant(records, order[i][1])
      OBVIOUS
    <2>1. order[i] \in worker[w] /\ worker[w] \subseteq Part \X Nat
      BY DEF LedgerInv, LedgerTypeOK
    <2>2. order[i][1] \in Part /\ order[i][2] \in Nat
      BY <2>1
    <2>3. order[i][2] > 0 /\ Vacant(records, order[i][1])
      BY <2>1 DEF LedgerInv, LocksOK
    <2> QED
      BY <2>1, <2>2, <2>3, ConstantTypes
  <1>5. \A i \in 1 .. n :
          /\ new[i] \in RecordType /\ new[i].target = order[i][1]
          /\ new[i].attempt = order[i][2] /\ ~new[i].voided
    <2> SUFFICES ASSUME NEW i \in 1 .. n
                 PROVE  /\ new[i] \in RecordType /\ new[i].target = order[i][1]
                        /\ new[i].attempt = order[i][2] /\ ~new[i].voided
      OBVIOUS
    <2>1. new[i] = NewRecord(order[i][1], PartAmount, "posted_pending", order[i][2], 0)
      BY <1>3 DEF DueRecords
    <2>2. /\ order[i][1] \in Targets /\ PartAmount \in Nat \ {0} /\ 0 \in Nat
          /\ order[i][2] \in Nat /\ "posted_pending" \in RecordStatuses
      BY <1>4, ConstantTypes DEF RecordStatuses
    <2> DEFINE one == NewRecord(order[i][1], PartAmount, "posted_pending", order[i][2], 0)
    <2>3. /\ one \in RecordType /\ one.target = order[i][1]
          /\ one.attempt = order[i][2]
      BY <2>2, NewRecordType
    <2>4. ~one.voided
      BY DEF NewRecord
    <2> HIDE DEF new, one
    <2> QED
      BY <2>1, <2>3, <2>4 DEF one
  <1>6. new \in Seq(RecordType) /\ Len(new) = n
    <2>1. new = [i \in 1 .. n |-> new[i]]
      BY <1>3 DEF DueRecords
    <2>2. new \in [1 .. n -> RecordType]
      BY <1>5, <2>1
    <2> HIDE DEF new
    <2> QED
      BY <1>3, <2>2
  <1>7. \A i, j \in 1 .. n : order[i][1] = order[j][1] => i = j
    <2> SUFFICES ASSUME NEW i \in 1 .. n, NEW j \in 1 .. n, order[i][1] = order[j][1], i # j
                 PROVE  FALSE
      OBVIOUS
    <2>1. order[i][1] \in Nat /\ order[j][1] \in Nat
      BY <1>4
    <2>2. i < j \/ j < i
      OBVIOUS
    <2> QED
      BY <1>2, <2>1, <2>2
  <1> HIDE DEF new
  <1>8. records' = records \o new
    BY <1>2 DEF new
  <1>9. \A i \in 1 .. Len(new) :
          /\ \E lock \in worker[w] : lock[1] = new[i].target
          /\ new[i].attempt > 0 /\ ~new[i].voided
          /\ Vacant(records, new[i].target)
    BY <1>4, <1>5, <1>6
  <1>10. \A i, j \in 1 .. Len(new) : new[i].target = new[j].target => i = j
    BY <1>5, <1>6, <1>7
  <1> QED
    BY <1>6, <1>8, <1>9, <1>10

LEMMA MaterializeDueKeeps ==
    ASSUME LedgerInv, NEW w \in Workers, MaterializeDue(w)
    PROVE  LedgerInv'
  <1>1. /\ worker[w] # {} /\ worker' = [worker EXCEPT ![w] = {}]
        /\ UNCHANGED <<adjustments, charged, subscription, now, waiting, shown, crashes>>
    BY DEF MaterializeDue
  <1>2. PICK new \in Seq(RecordType) :
          /\ records' = records \o new
          /\ \A i \in 1 .. Len(new) :
               /\ \E lock \in worker[w] : lock[1] = new[i].target
               /\ new[i].attempt > 0 /\ ~new[i].voided
               /\ Vacant(records, new[i].target)
          /\ \A i, j \in 1 .. Len(new) : new[i].target = new[j].target => i = j
    BY MaterializeDueAppends
  <1>3. /\ records \in Seq(RecordType) /\ Len(records) \in Nat /\ Len(new) \in Nat
        /\ adjustments \in Seq(AdjustmentType) /\ Len(adjustments) \in Nat
    BY LengthTypes DEF LedgerInv
  <1>9. /\ Authors(records')
        /\ \A p : Vacant(records, p) /\ (\A i \in 1 .. Len(new) : new[i].target # p)
                  => Vacant(records', p)
        /\ \A p : VacantByHand(records, p) => VacantByHand(records', p)
    <2>1. Authors(records)
      BY DEF LedgerInv
    <2> QED
      BY <1>2, <1>3, <2>1, OneMoreAskedFor
  <1>10. /\ records' \in Seq(RecordType) /\ LedgerOK(records', adjustments)
    BY <1>2, <1>3, RecordsAppended DEF LedgerInv
  <1>11. /\ LocksOK'
         /\ worker' \in [Workers -> SUBSET (Part \X Nat)]
         /\ \A v \in Workers : worker[v] = {} => worker'[v] = {}
    <2>1. ASSUME NEW v \in Workers, v # w, NEW lock \in worker[v]
          PROVE  Vacant(records', lock[1])
      <3>1. Vacant(records, lock[1])
        BY DEF LedgerInv, LocksOK
      <3>2. \A i \in 1 .. Len(new) : new[i].target # lock[1]
        BY <1>2, <2>1 DEF LedgerInv, LocksOK
      <3> QED
        BY <1>9, <3>1, <3>2
    <2> QED
      BY <1>1, <2>1, LetGo
  <1>12. Len(records') = Len(records) + Len(new) /\ Len(records') \in Nat
    BY <1>2, <1>3
  <1>13. shown \in [Employees -> {None} \cup PreviewType']
    <2>1. /\ Len(records) <= Len(records') /\ Len(adjustments') \in Nat
          /\ Len(adjustments) <= Len(adjustments')
      BY <1>1, <1>3, <1>12
    <2> QED
      BY <1>12, <2>1, TablesGrow DEF LedgerInv
  <1>14. LedgerTypeOK'
    BY <1>1, <1>10, <1>11, <1>13 DEF LedgerInv, LedgerTypeOK
  <1>15. WaitingOK' /\ CancelledOK'
    BY <1>1, <1>9, <1>11 DEF LedgerInv, WaitingOK, CancelledOK
  <1> QED
    BY <1>1, <1>9, <1>10, <1>11, <1>14, <1>15 DEF LedgerInv

LEMMA FallsDueKeeps ==
    ASSUME LedgerInv, FallsDue
    PROVE  LedgerInv'
  <1>1. /\ UNCHANGED <<records, adjustments, charged, subscription, worker, waiting, shown, crashes>>
        /\ now' \in 0 .. Parts
    BY LedgerAssumption DEF LedgerAssumption, LedgerInv, LedgerTypeOK, FallsDue
  <1>2. /\ LedgerOK(records', adjustments') /\ Authors(records')
        /\ records' \in Seq(RecordType) /\ adjustments' \in Seq(AdjustmentType)
        /\ PreviewType' = PreviewType
    BY <1>1, TablesStay
  <1>3. LedgerTypeOK'
    BY <1>1, <1>2 DEF LedgerInv, LedgerTypeOK
  <1>4. LocksOK' /\ WaitingOK' /\ CancelledOK'
    BY <1>1 DEF LedgerInv, LocksOK, WaitingOK, CancelledOK
  <1> QED
    BY <1>2, <1>3, <1>4 DEF LedgerInv

LEMMA ChargeLessonKeeps ==
    ASSUME LedgerInv, ChargeLesson
    PROVE  LedgerInv'
  <1>1. /\ UNCHANGED <<records, adjustments, now, subscription, worker, waiting, shown, crashes>>
        /\ charged' \in Nat
    BY DEF LedgerInv, LedgerTypeOK, ChargeLesson
  <1>2. /\ LedgerOK(records', adjustments') /\ Authors(records')
        /\ records' \in Seq(RecordType) /\ adjustments' \in Seq(AdjustmentType)
        /\ PreviewType' = PreviewType
    BY <1>1, TablesStay
  <1>3. LedgerTypeOK'
    BY <1>1, <1>2 DEF LedgerInv, LedgerTypeOK
  <1>4. LocksOK' /\ WaitingOK' /\ CancelledOK'
    BY <1>1 DEF LedgerInv, LocksOK, WaitingOK, CancelledOK
  <1> QED
    BY <1>2, <1>3, <1>4 DEF LedgerInv

LEMMA LedgerStep == LedgerInv /\ [LedgerNext]_ledgerVars => LedgerInv'
  <1> SUFFICES ASSUME LedgerInv, [LedgerNext]_ledgerVars PROVE LedgerInv'
    OBVIOUS
  <1>1. CASE UNCHANGED ledgerVars
    <2>1. PreviewType' = PreviewType
      BY <1>1, SameTables DEF ledgerVars
    <2> QED
      BY <1>1, <2>1 DEF ledgerVars, LedgerInv, LedgerTypeOK, LocksOK, WaitingOK, CancelledOK
  <1>2. CASE Command
    <2>1. ASSUME NEW status \in Entered, NEW target \in Targets, NEW amount \in PaymentAmounts,
                 CreateRecord(target, amount, status)
          PROVE  LedgerInv'
      BY <2>1, CreateRecordKeeps
    <2>2. ASSUME NEW status \in Entered, NEW part \in Part, CreateRecordWaits(part, status)
          PROVE  LedgerInv'
      BY <2>2, CreateRecordWaitsKeeps
    <2>3. ASSUME NEW r \in Records, NEW status \in RecordStatuses, TransitionRecord(r, status)
          PROVE  LedgerInv'
      BY <2>3, TransitionRecordKeeps
    <2>4. CASE CreateRecordResumes
      BY <2>4, CreateRecordResumesKeeps
    <2>5. ASSUME NEW r \in Records, NEW amount \in PaymentAmounts,
                 RecordAdjustment(r, amount) \/ RecordAdjustment(r, -amount)
          PROVE  LedgerInv'
      <3>1. amount \in Int /\ -amount \in Int
        BY ConstantTypes
      <3> QED
        BY <2>5, <3>1, RecordAdjustmentKeeps
    <2>6. CASE CancelSubscription
      BY <2>6, CancelSubscriptionKeeps
    <2> QED
      BY <1>2, <2>1, <2>2, <2>3, <2>4, <2>5, <2>6 DEF Command
  <1>3. ASSUME NEW e \in Employees, PreviewingPayment(e) PROVE LedgerInv'
    <2>1. ASSUME NEW r \in Records, PreviewReversal(e, r) PROVE LedgerInv'
      BY <2>1, PreviewReversalKeeps
    <2>2. ASSUME NEW r \in Records, NEW amount \in PaymentAmounts, NEW status \in Entered,
                 PreviewCorrection(e, r, amount, status)
          PROVE  LedgerInv'
      BY <2>2, PreviewCorrectionKeeps
    <2>3. ASSUME NEW a \in Adjustments, PreviewAdjustmentReversal(e, a) PROVE LedgerInv'
      BY <2>3, PreviewAdjustmentReversalKeeps
    <2> QED
      BY <1>3, <2>1, <2>2, <2>3 DEF PreviewingPayment
  <1>4. ASSUME NEW e \in Employees, Committing(e) PROVE LedgerInv'
    BY <1>4, CommitReversalKeeps, CommitCorrectionKeeps, CommitAdjustmentReversalKeeps
    DEF Committing
  <1>5. ASSUME NEW w \in Workers, SelectDue(w) \/ MaterializeDue(w) \/ WorkerCrashes(w)
        PROVE  LedgerInv'
    BY <1>5, SelectDueKeeps, MaterializeDueKeeps, WorkerCrashesKeeps
  <1>6. CASE FallsDue
    BY <1>6, FallsDueKeeps
  <1>7. CASE ChargeLesson
    BY <1>7, ChargeLessonKeeps
  <1> QED
    BY <1>1, <1>2, <1>3, <1>4, <1>5, <1>6, <1>7 DEF LedgerNext

LEMMA LedgerInvariant == LedgerSpec => []LedgerInv
  BY InitLedgerInv, LedgerStep, PTL DEF LedgerSpec

-----------------------------------------------------------------------------
(* What follows.                                                           *)

\* Whatever is booked is in the reports or is hidden.
LEMMA BookedSplits ==
    ASSUME LedgerInv, NEW T \in SUBSET Targets
    PROVE  BookedTotal(T) = OrdinaryTotal(T)
  <1>1. /\ records \in Seq(RecordType) /\ Len(records) \in Nat
        /\ adjustments \in Seq(AdjustmentType) /\ Len(adjustments) \in Nat
    BY LengthTypes DEF LedgerInv
  <1>2. Linked(records, adjustments) /\ Hidden(records, adjustments, T) = 0
    BY DEF LedgerInv, LedgerOK
  <1> DEFINE counts(r) == OrdinaryPayment(r) /\ records[r].target \in T
             seenPayments == [r \in Records |-> IF counts(r) THEN records[r].amount ELSE 0]
             seenAdjustments == [a \in Adjustments |->
               IF OrdinaryAdjustment(a) /\ counts(adjustments[a].record)
               THEN adjustments[a].amount ELSE 0]
             bookedPayments == [r \in Records |->
               IF records[r].status = "paid" /\ records[r].target \in T
               THEN records[r].amount ELSE 0]
             bookedAdjustments == [a \in Adjustments |->
               IF records[adjustments[a].record].target \in T
               THEN adjustments[a].amount ELSE 0]
             hiddenPayments == HiddenPayments(records, T)
             hiddenAdjustments == HiddenAdjustments(records, adjustments, T)
  <1>3. \A r \in 1 .. Len(records) :
          records[r].amount \in Int /\ records[r].voided \in BOOLEAN
    BY <1>1, RowFields
  <1>4. \A a \in 1 .. Len(adjustments) :
          adjustments[a].amount \in Int /\ adjustments[a].voided \in BOOLEAN
    BY <1>1, AdjustmentFields
  <1>5. /\ hiddenPayments \in [1 .. Len(records) -> Int]
        /\ hiddenAdjustments \in [1 .. Len(adjustments) -> Int]
    BY <1>1, <1>2, HiddenTypes
  <1>6. /\ seenPayments \in [1 .. Len(records) -> Int]
        /\ bookedPayments \in [1 .. Len(records) -> Int]
    BY <1>3 DEF Records
  <1>7. /\ seenAdjustments \in [1 .. Len(adjustments) -> Int]
        /\ bookedAdjustments \in [1 .. Len(adjustments) -> Int]
    BY <1>4 DEF Adjustments
  <1>8. \A r \in 1 .. Len(records) : bookedPayments[r] = seenPayments[r] + hiddenPayments[r]
    <2> SUFFICES ASSUME NEW r \in 1 .. Len(records)
                 PROVE  bookedPayments[r] = seenPayments[r] + hiddenPayments[r]
      OBVIOUS
    <2>1. hiddenPayments[r] = HiddenPayment(records, r, T)
      BY DEF HiddenPayments
    <2>2. r \in Records /\ records[r].amount \in Int /\ records[r].voided \in BOOLEAN
      BY <1>3 DEF Records
    <2>3. CASE records[r].status = "paid" /\ records[r].target \in T
      <3>1. bookedPayments[r] = records[r].amount
        BY <2>2, <2>3
      <3>2. CASE records[r].voided
        BY <2>1, <2>2, <2>3, <3>1, <3>2 DEF HiddenPayment, OrdinaryPayment, Ordinary
      <3>3. CASE ~records[r].voided
        BY <2>1, <2>2, <2>3, <3>1, <3>3 DEF HiddenPayment, OrdinaryPayment, Ordinary
      <3> QED
        BY <3>2, <3>3
    <2>4. CASE ~(records[r].status = "paid" /\ records[r].target \in T)
      BY <2>1, <2>2, <2>4 DEF HiddenPayment, OrdinaryPayment
    <2> QED
      BY <2>3, <2>4
  <1>9. \A a \in 1 .. Len(adjustments) :
          bookedAdjustments[a] = seenAdjustments[a] + hiddenAdjustments[a]
    <2> SUFFICES ASSUME NEW a \in 1 .. Len(adjustments)
                 PROVE  bookedAdjustments[a] = seenAdjustments[a] + hiddenAdjustments[a]
      OBVIOUS
    <2> DEFINE r == adjustments[a].record
    <2>1. hiddenAdjustments[a] = HiddenAdjustment(records, adjustments, a, T)
      BY DEF HiddenAdjustments
    <2>2. /\ a \in Adjustments /\ adjustments[a].amount \in Int
          /\ adjustments[a].voided \in BOOLEAN
      BY <1>4 DEF Adjustments
    <2>3. records[r].status = "paid" /\ (records[r].voided => adjustments[a].voided)
      BY <1>2 DEF Linked
    <2>4. CASE records[r].target \in T
      <3>1. bookedAdjustments[a] = adjustments[a].amount
        BY <2>2, <2>4
      <3>2. CASE adjustments[a].voided
        BY <2>1, <2>2, <2>4, <3>1, <3>2 DEF HiddenAdjustment, OrdinaryAdjustment
      <3>3. CASE ~adjustments[a].voided
        BY <2>1, <2>2, <2>3, <2>4, <3>1, <3>3
        DEF HiddenAdjustment, OrdinaryAdjustment, OrdinaryPayment, Ordinary
      <3> QED
        BY <3>2, <3>3
    <2>5. CASE records[r].target \notin T
      BY <2>1, <2>2, <2>5 DEF HiddenAdjustment
    <2> QED
      BY <2>4, <2>5
  <1>10. /\ OrdinaryTotal(T) = SumTo(Len(records), seenPayments)
                               + SumTo(Len(adjustments), seenAdjustments)
         /\ BookedTotal(T) = SumTo(Len(records), bookedPayments)
                             + SumTo(Len(adjustments), bookedAdjustments)
    BY DEF OrdinaryTotal, BookedTotal
  <1>11. Hidden(records, adjustments, T)
           = SumTo(Len(records), hiddenPayments) + SumTo(Len(adjustments), hiddenAdjustments)
    BY DEF Hidden
  <1> HIDE DEF seenPayments, seenAdjustments, bookedPayments, bookedAdjustments,
               hiddenPayments, hiddenAdjustments
  <1>12. SumTo(Len(records), bookedPayments)
           = SumTo(Len(records), seenPayments) + SumTo(Len(records), hiddenPayments)
    BY <1>1, <1>5, <1>6, <1>8, SumAdd
  <1>13. SumTo(Len(adjustments), bookedAdjustments)
           = SumTo(Len(adjustments), seenAdjustments) + SumTo(Len(adjustments), hiddenAdjustments)
    BY <1>1, <1>5, <1>7, <1>9, SumAdd
  <1>14. /\ SumTo(Len(records), seenPayments) \in Int
         /\ SumTo(Len(records), hiddenPayments) \in Int
         /\ SumTo(Len(adjustments), seenAdjustments) \in Int
         /\ SumTo(Len(adjustments), hiddenAdjustments) \in Int
    BY <1>1, <1>5, <1>6, <1>7, SumType
  <1> QED
    BY <1>2, <1>10, <1>11, <1>12, <1>13, <1>14

\* Every variable of the ledger keeps its type, and a preview always names a row
\* that exists (the columns of client_payment_records and account_adjustments).
THEOREM LedgerTypeCorrect == LedgerSpec => []LedgerTypeOK
  <1>1. LedgerInv => LedgerTypeOK
    BY DEF LedgerInv
  <1> QED
    BY <1>1, LedgerInvariant, PTL

\* Whatever refunds, corrections and reversals come in whatever order, the rows
\* that the reporting views leave out cancel each other, for the subscription and
\* for the personal account (0107_v7_payment_reversal).
THEOREM BooksAlwaysBalance == LedgerSpec => []BooksBalance
  <1>1. LedgerInv => BooksBalance
    <2> SUFFICES ASSUME LedgerInv PROVE BooksBalance
      OBVIOUS
    <2>1. {Account} \in SUBSET Targets /\ Targets \ {Account} \in SUBSET Targets
      BY ConstantTypes
    <2> QED
      BY <2>1, BookedSplits DEF BooksBalance, PaidTowards, Balance
  <1> QED
    BY <1>1, LedgerInvariant, PTL

\* Rows are changed in place: a record keeps its target and stays hidden.
KeepsRows(R) ==
  /\ Len(R) = Len(records)
  /\ \A k \in 1 .. Len(records) :
       R[k].target = records[k].target /\ (records[k].voided => R[k].voided)

LEMMA CorrectionAppends ==
    ASSUME LedgerInv, NEW e \in Employees, CommitCorrection(e)
    PROVE  \E R \in Seq(RecordType), x \in RecordType :
             /\ KeepsRows(R) /\ x.attempt = 0
             /\ x.target \in Part => Vacant(R, x.target)
             /\ records' = Append(R, x)
  <1> DEFINE r == shown[e].record
             R == [records EXCEPT ![r].voided = TRUE]
             x == NewRecord(records[r].target, shown[e].amount, shown[e].status, 0, r)
  <1>1. /\ r \in Records /\ Reversible(r)
        /\ shown[e].amount \in Nat \ {0} /\ shown[e].status \in RecordStatuses
    BY ShownRecord DEF CommitCorrection, StillAsPreviewed
  <1>2. records' = Append(R, x)
    BY DEF CommitCorrection
  <1>3. records \in Seq(RecordType) /\ r \in 1 .. Len(records) /\ r \in Nat
    BY <1>1, LengthTypes DEF LedgerInv, Records
  <1>4. x \in RecordType /\ x.target = records[r].target /\ x.attempt = 0 /\ ~x.voided
    <2>1. records[r].target \in Targets /\ 0 \in Nat
      BY <1>3, RowFields
    <2> QED
      BY <1>1, <1>3, <2>1, NewRecordType
  <1>5. \A B : B = adjustments \o Counterpart(r) => R \in Seq(RecordType) /\ Len(R) = Len(records)
    BY <1>1, RecordHidden
  <1>6. KeepsRows(R)
    BY <1>3, <1>5 DEF KeepsRows
  <1>7. x.target \in Part => Vacant(R, x.target)
    BY <1>3, <1>4, <1>5 DEF CommitCorrection, Vacant, RecordsOf, Records
  <1> HIDE DEF R, x
  <1> QED
    BY <1>2, <1>4, <1>5, <1>6, <1>7

\* What SecondRecordAfterWaiting says of one part.
SecondOf(p) ==
  \A r, s \in DOMAIN records' :
    /\ s < r /\ records'[r].target = p /\ records'[s].target = p
    /\ ~records'[r].voided /\ ~records'[s].voided
    => \/ r \in Records /\ Ordinary(r) /\ Ordinary(s)
       \/ /\ r \notin Records /\ s \in Records /\ records[s].attempt > 0
          /\ waiting # None /\ waiting.target = p /\ waiting' = None

LEMMA NothingAdded ==
    ASSUME LedgerInv, records' \in Seq(RecordType), KeepsRows(records'), NEW p \in Part
    PROVE  SecondOf(p)
  <1>1. DOMAIN records' = 1 .. Len(records) /\ Records = 1 .. Len(records)
    BY DEF KeepsRows, Records
  <1> QED
    BY <1>1 DEF SecondOf, KeepsRows, Ordinary

\* One record more, of a part without one, or one that waited for the worker.
LEMMA OneAdded ==
    ASSUME LedgerInv, NEW R \in Seq(RecordType), KeepsRows(R), NEW x \in RecordType,
           records' = Append(R, x), NEW p \in Part,
           \/ x.target = p => Vacant(R, p)
           \/ waiting # None /\ waiting.target = p /\ waiting' = None
    PROVE  SecondOf(p)
  <1>1. Len(records) \in Nat /\ Records = 1 .. Len(records)
    BY LengthTypes DEF LedgerInv, Records
  <1>2. /\ DOMAIN records' = 1 .. Len(records) + 1
        /\ records'[Len(records) + 1] = x
        /\ \A k \in 1 .. Len(records) : records'[k] = R[k]
    BY <1>1 DEF KeepsRows
  <1> SUFFICES ASSUME NEW r \in DOMAIN records', NEW s \in DOMAIN records', s < r,
                      records'[r].target = p, records'[s].target = p,
                      ~records'[r].voided, ~records'[s].voided
               PROVE  \/ r \in Records /\ Ordinary(r) /\ Ordinary(s)
                      \/ /\ r \notin Records /\ s \in Records /\ records[s].attempt > 0
                         /\ waiting # None /\ waiting.target = p /\ waiting' = None
    BY DEF SecondOf
  <1>3. s \in 1 .. Len(records) /\ s \in Records
    BY <1>1, <1>2
  <1>4. ~R[s].voided /\ R[s].target = p /\ ~records[s].voided /\ records[s].target = p
    BY <1>2, <1>3 DEF KeepsRows
  <1>5. CASE r \in 1 .. Len(records)
    BY <1>1, <1>2, <1>4, <1>5 DEF KeepsRows, Ordinary
  <1>6. CASE r \notin 1 .. Len(records)
    <2>1. r = Len(records) + 1 /\ x.target = p /\ r \notin Records
      BY <1>1, <1>2, <1>6
    <2>2. ~Vacant(R, p)
      BY <1>3, <1>4 DEF Vacant, KeepsRows
    <2>3. waiting # None /\ waiting.target = p /\ waiting' = None
      BY <2>1, <2>2
    <2>4. records[s].attempt # 0
      BY <1>3, <1>4, <2>3 DEF LedgerInv, WaitingOK, VacantByHand
    <2>5. records[s].attempt \in Nat
      <3>1. records[s] \in RecordType
        BY <1>3, LengthTypes DEF LedgerInv
      <3> QED
        BY <3>1 DEF RecordType
    <2> QED
      BY <1>3, <2>1, <2>3, <2>4, <2>5
  <1> QED
    BY <1>5, <1>6

\* The records of a worker are of parts that have none in force.
LEMMA AskedAdds ==
    ASSUME LedgerInv, NEW w \in Workers, MaterializeDue(w), NEW p \in Part
    PROVE  SecondOf(p)
  <1>1. PICK new \in Seq(RecordType) :
          /\ records' = records \o new
          /\ \A i \in 1 .. Len(new) : ~new[i].voided /\ Vacant(records, new[i].target)
          /\ \A i, j \in 1 .. Len(new) : new[i].target = new[j].target => i = j
    BY MaterializeDueAppends
  <1> DEFINE N == Len(records)
  <1>2. N \in Nat /\ Len(new) \in Nat /\ Records = 1 .. N
    BY LengthTypes DEF LedgerInv, Records
  <1>3. /\ DOMAIN records' = 1 .. N + Len(new)
        /\ \A k \in 1 .. N : records'[k] = records[k]
        /\ \A i \in 1 .. Len(new) : records'[N + i] = new[i]
    BY <1>1, <1>2, LengthTypes DEF LedgerInv
  <1> SUFFICES ASSUME NEW r \in DOMAIN records', NEW s \in DOMAIN records', s < r,
                      records'[r].target = p, records'[s].target = p,
                      ~records'[r].voided, ~records'[s].voided
               PROVE  r \in Records /\ Ordinary(r) /\ Ordinary(s)
    BY DEF SecondOf
  <1>4. CASE r \in 1 .. N
    BY <1>2, <1>3, <1>4 DEF Ordinary
  <1>5. CASE r \notin 1 .. N
    <2> DEFINE i == r - N
    <2>1. i \in 1 .. Len(new) /\ r = N + i
      BY <1>2, <1>3, <1>5
    <2> HIDE DEF i
    <2>2. new[i].target = p /\ Vacant(records, p)
      BY <1>1, <1>3, <2>1
    <2>3. CASE s \in 1 .. N
      BY <1>3, <2>2, <2>3 DEF Vacant
    <2>4. CASE s \notin 1 .. N
      <3> DEFINE j == s - N
      <3>1. j \in 1 .. Len(new) /\ s = N + j
        BY <1>2, <1>3, <2>4
      <3> HIDE DEF j
      <3>2. new[j].target = p
        BY <1>3, <3>1
      <3>3. i = j
        BY <1>1, <2>1, <2>2, <3>1, <3>2
      <3> QED
        BY <1>2, <2>1, <3>1, <3>3
    <2> QED
      BY <2>3, <2>4
  <1> QED
    BY <1>4, <1>5

LEMMA EmployeeAdds ==
    ASSUME LedgerInv, Command, NEW p \in Part
    PROVE  SecondOf(p)
  <1>1. /\ records \in Seq(RecordType) /\ Len(records) \in Nat /\ KeepsRows(records)
        /\ Records = 1 .. Len(records) /\ \A k \in 1 .. Len(records) : records[k] \in RecordType
    BY LengthTypes DEF LedgerInv, Records, KeepsRows
  <1>2. ASSUME NEW status \in Entered, NEW target \in Targets, NEW amount \in PaymentAmounts,
               CreateRecord(target, amount, status)
        PROVE  SecondOf(p)
    <2> DEFINE x == NewRecord(target, amount, status, 0, 0)
    <2>1. amount \in Nat \ {0} /\ status \in RecordStatuses /\ 0 \in Nat
      BY ConstantTypes
    <2>2. x \in RecordType /\ x.target = target
      BY <2>1, NewRecordType
    <2>3. records' = Append(records, x)
      BY <1>2 DEF CreateRecord
    <2>4. x.target = p => Vacant(records, p)
      BY <1>2, <2>2, VacantMeans DEF CreateRecord, PartAccepts
    <2> HIDE DEF x
    <2> QED
      BY <1>1, <2>2, <2>3, <2>4, OneAdded
  <1>3. CASE CreateRecordResumes
    <2> DEFINE x == NewRecord(waiting.target, waiting.amount, waiting.status, 0, 0)
    <2>1. /\ waiting # None /\ waiting' = None
          /\ waiting.target \in Part /\ waiting.amount = PartAmount
          /\ waiting.status \in RecordStatuses
      BY <1>3 DEF LedgerInv, LedgerTypeOK, CreateRecordResumes
    <2>2. waiting.target \in Targets /\ waiting.amount \in Nat \ {0} /\ 0 \in Nat
      BY <2>1, ConstantTypes
    <2>3. x \in RecordType /\ x.target = waiting.target
      BY <2>1, <2>2, NewRecordType
    <2>4. records' = Append(records, x)
      BY <1>3 DEF CreateRecordResumes
    <2> HIDE DEF x
    <2>5. (x.target = p => Vacant(records, p)) \/ waiting.target = p
      BY <2>3
    <2> QED
      BY <1>1, <2>1, <2>3, <2>4, <2>5, OneAdded
  <1>4. ASSUME UNCHANGED records PROVE SecondOf(p)
    BY <1>1, <1>4, NothingAdded
  <1>5. ASSUME NEW r \in Records, NEW status \in RecordStatuses, TransitionRecord(r, status)
        PROVE  SecondOf(p)
    <2>1. records' \in Seq(RecordType)
      BY <1>5, TransitionRecordKeeps DEF LedgerInv, LedgerTypeOK
    <2>2. KeepsRows(records')
      <3>1. records' = [records EXCEPT ![r].status = status, ![r].version = records[r].version + 1]
        BY <1>5 DEF TransitionRecord
      <3>2. Len(records') = Len(records) /\ DOMAIN records = 1 .. Len(records)
        BY <1>1, <3>1
      <3>3. ASSUME NEW k \in 1 .. Len(records)
            PROVE  records'[k].target = records[k].target /\ records'[k].voided = records[k].voided
        <4>1. records[k] \in RecordType
          BY <1>1
        <4>2. CASE k = r
          <5>1. records'[k] = [records[k] EXCEPT !.status = status, !.version = records[k].version + 1]
            BY <3>1, <3>2, <4>2
          <5> QED
            BY <4>1, <5>1 DEF RecordType
        <4>3. CASE k # r
          BY <3>1, <3>2, <4>3
        <4> QED
          BY <4>2, <4>3
      <3> QED
        BY <3>2, <3>3 DEF KeepsRows
    <2> QED
      BY <2>1, <2>2, NothingAdded
  <1>6. CASE CancelSubscription
    <2>1. records' \in Seq(RecordType)
      BY <1>6, CancelSubscriptionKeeps DEF LedgerInv, LedgerTypeOK
    <2>2. KeepsRows(records')
      BY <1>1, <1>6, <2>1 DEF CancelSubscription, WithOpenRecordsClosed, KeepsRows, RecordType
    <2> QED
      BY <2>1, <2>2, NothingAdded
  <1>7. ASSUME NEW status \in Entered, NEW part \in Part, CreateRecordWaits(part, status)
        PROVE  SecondOf(p)
    BY <1>4, <1>7 DEF CreateRecordWaits
  <1>8. ASSUME NEW r \in Records, NEW amount, RecordAdjustment(r, amount)
        PROVE  SecondOf(p)
    BY <1>4, <1>8 DEF RecordAdjustment
  <1> QED
    BY <1>2, <1>3, <1>5, <1>6, <1>7, <1>8 DEF Command

LEMMA CommitAdds ==
    ASSUME LedgerInv, NEW e \in Employees, Committing(e), NEW p \in Part
    PROVE  SecondOf(p)
  <1>1. /\ records \in Seq(RecordType) /\ Len(records) \in Nat /\ KeepsRows(records)
    BY LengthTypes DEF LedgerInv, KeepsRows
  <1>2. CASE CommitReversal(e)
    <2>1. shown[e].record \in Records /\ Reversible(shown[e].record)
      BY <1>2, ShownRecord DEF CommitReversal, StillAsPreviewed
    <2>2. /\ records' = [records EXCEPT ![shown[e].record].voided = TRUE]
          /\ adjustments' = adjustments \o Counterpart(shown[e].record)
      BY <1>2 DEF CommitReversal
    <2>3. records' \in Seq(RecordType) /\ Len(records') = Len(records)
          /\ \A k \in 1 .. Len(records) : records'[k].target = records[k].target
      BY <2>1, <2>2, RecordHidden
    <2>4. KeepsRows(records')
      BY <1>1, <2>2, <2>3 DEF KeepsRows
    <2> QED
      BY <2>3, <2>4, NothingAdded
  <1>3. CASE CommitCorrection(e)
    <2>1. PICK R \in Seq(RecordType), x \in RecordType :
            /\ KeepsRows(R)
            /\ x.target \in Part => Vacant(R, x.target)
            /\ records' = Append(R, x)
      BY <1>3, CorrectionAppends
    <2>2. x.target = p => Vacant(R, p)
      BY <2>1
    <2> QED
      BY <2>1, <2>2, OneAdded
  <1>4. CASE CommitAdjustmentReversal(e)
    BY <1>1, <1>4, NothingAdded DEF CommitAdjustmentReversal
  <1> QED
    BY <1>2, <1>3, <1>4 DEF Committing

\* However many workers, commands and corrections race for an instalment, a
\* record is added to one that has a record in force only by a command that had
\* waited for the worker that made it: the one gap of lockInstallmentTarget and
\* materializeDueInstallments.
THEOREM OneGapOnly == LedgerSpec => SecondRecordAfterWaiting
  <1>1. LedgerInv /\ [LedgerNext]_ledgerVars => [\A p \in Part : SecondOf(p)]_ledgerVars
    <2> SUFFICES ASSUME LedgerInv, LedgerNext, NEW p \in Part
                 PROVE  SecondOf(p)
      OBVIOUS
    <2>1. ASSUME UNCHANGED records PROVE SecondOf(p)
      BY <2>1, NothingAdded, LengthTypes DEF LedgerInv, KeepsRows
    <2>2. CASE Command
      BY <2>2, EmployeeAdds
    <2>3. ASSUME NEW e \in Employees, PreviewingPayment(e) PROVE SecondOf(p)
      BY <2>1, <2>3 DEF PreviewingPayment, PreviewReversal, PreviewCorrection,
                        PreviewAdjustmentReversal
    <2>4. ASSUME NEW e \in Employees, Committing(e) PROVE SecondOf(p)
      BY <2>4, CommitAdds
    <2>5. ASSUME NEW w \in Workers, MaterializeDue(w) PROVE SecondOf(p)
      BY <2>5, AskedAdds
    <2>6. ASSUME NEW w \in Workers, SelectDue(w) \/ WorkerCrashes(w) PROVE SecondOf(p)
      BY <2>1, <2>6 DEF SelectDue, WorkerCrashes
    <2>7. CASE FallsDue \/ ChargeLesson
      BY <2>1, <2>7 DEF FallsDue, ChargeLesson
    <2> QED
      BY <2>2, <2>3, <2>4, <2>5, <2>6, <2>7 DEF LedgerNext
  <1>2. (\A p \in Part : SecondOf(p)) => (\A p \in Part : \A r, s \in DOMAIN records' :
          /\ s < r /\ records'[r].target = p /\ records'[s].target = p
          /\ ~records'[r].voided /\ ~records'[s].voided
          => \/ r \in Records /\ Ordinary(r) /\ Ordinary(s)
             \/ /\ r \notin Records /\ s \in Records /\ records[s].attempt > 0
                /\ waiting # None /\ waiting.target = p /\ waiting' = None)
    BY DEF SecondOf
  <1> QED
    BY <1>1, <1>2, LedgerInvariant, PTL DEF SecondRecordAfterWaiting, LedgerSpec

\* After a cancellation no worker asks for an instalment, also not one that had
\* selected it before (SubscriptionCancellationService.execute).
THEOREM NoAskingAfterCancellation == LedgerSpec => CancelledIsNotAsked
  <1> DEFINE Quiet == subscription = "cancelled" =>
                        \A r \in DOMAIN records' \ Records : records'[r].attempt = 0
  <1>1. LedgerInv /\ [LedgerNext]_ledgerVars => [Quiet]_ledgerVars
    <2> SUFFICES ASSUME LedgerInv, LedgerNext, subscription = "cancelled",
                        NEW r \in DOMAIN records' \ Records
                 PROVE  records'[r].attempt = 0
      OBVIOUS
    <2>1. /\ records \in Seq(RecordType) /\ Len(records) \in Nat /\ DOMAIN records = Records
      BY LengthTypes DEF LedgerInv, Records
    <2>2. ASSUME NEW x \in RecordType, NEW R \in Seq(RecordType), Len(R) = Len(records),
                 records' = Append(R, x)
          PROVE  records'[r] = x
      <3>1. r \in 1 .. Len(records) + 1 /\ r \notin 1 .. Len(records)
        BY <2>2 DEF Records
      <3>2. r = Len(records) + 1
        BY <2>1, <3>1
      <3> QED
        BY <2>2, <3>2
    <2>3. DOMAIN records' # DOMAIN records
      BY <2>1
    <2>4. ASSUME NEW target \in Targets, NEW amount \in PaymentAmounts, NEW status \in Entered,
                 CreateRecord(target, amount, status)
          PROVE  records'[r].attempt = 0
      <3> DEFINE x == NewRecord(target, amount, status, 0, 0)
      <3>1. x \in RecordType /\ x.attempt = 0
        <4>1. amount \in Nat \ {0} /\ status \in RecordStatuses /\ 0 \in Nat
          BY ConstantTypes
        <4> QED
          BY <4>1, NewRecordType
      <3>2. records' = Append(records, x)
        BY <2>4 DEF CreateRecord
      <3> HIDE DEF x
      <3> QED
        BY <2>1, <2>2, <3>1, <3>2
    <2>5. CASE CreateRecordResumes
      <3> DEFINE x == NewRecord(waiting.target, waiting.amount, waiting.status, 0, 0)
      <3>1. x \in RecordType /\ x.attempt = 0
        <4>1. /\ waiting.target \in Part /\ waiting.amount = PartAmount
              /\ waiting.status \in RecordStatuses
          BY <2>5 DEF LedgerInv, LedgerTypeOK, CreateRecordResumes
        <4>2. waiting.target \in Targets /\ waiting.amount \in Nat \ {0} /\ 0 \in Nat
          BY <4>1, ConstantTypes
        <4> QED
          BY <4>1, <4>2, NewRecordType
      <3>2. records' = Append(records, x)
        BY <2>5 DEF CreateRecordResumes
      <3> HIDE DEF x
      <3> QED
        BY <2>1, <2>2, <3>1, <3>2
    <2>6. ASSUME NEW e \in Employees, CommitCorrection(e)
          PROVE  records'[r].attempt = 0
      <3>1. PICK R \in Seq(RecordType), x \in RecordType :
              /\ Len(R) = Len(records) /\ x.attempt = 0
              /\ records' = Append(R, x)
        BY <2>6, CorrectionAppends DEF KeepsRows
      <3> QED
        BY <2>2, <3>1
    <2>7. ASSUME NEW w \in Workers, MaterializeDue(w) PROVE FALSE
      BY <2>7 DEF LedgerInv, CancelledOK, MaterializeDue
    <2>8. ASSUME UNCHANGED records PROVE FALSE
      BY <2>3, <2>8
    <2>10. CASE Command
      <3>1. ASSUME NEW status \in Entered, NEW part \in Part, CreateRecordWaits(part, status)
            PROVE  FALSE
        BY <2>8, <3>1 DEF CreateRecordWaits
      <3>2. ASSUME NEW s \in Records, NEW status \in RecordStatuses, TransitionRecord(s, status)
            PROVE  FALSE
        <4>1. DOMAIN records' = DOMAIN records
          BY <3>2 DEF TransitionRecord
        <4> QED
          BY <2>3, <4>1
      <3>3. ASSUME NEW s \in Records, NEW amount, RecordAdjustment(s, amount) PROVE FALSE
        BY <2>8, <3>3 DEF RecordAdjustment
      <3>4. CASE CancelSubscription
        <4>1. DOMAIN records' = Records
          BY <3>4 DEF CancelSubscription, WithOpenRecordsClosed
        <4> QED
          BY <2>1, <2>3, <4>1
      <3> QED
        BY <2>4, <2>5, <2>10, <3>1, <3>2, <3>3, <3>4 DEF Command
    <2>11. ASSUME NEW e \in Employees, PreviewingPayment(e) PROVE FALSE
      BY <2>8, <2>11 DEF PreviewingPayment, PreviewReversal, PreviewCorrection,
                         PreviewAdjustmentReversal
    <2>12. ASSUME NEW e \in Employees, Committing(e) PROVE records'[r].attempt = 0
      <3>1. CASE CommitReversal(e)
        <4>1. DOMAIN records' = DOMAIN records
          BY <3>1 DEF CommitReversal
        <4> QED
          BY <2>3, <4>1
      <3>2. CASE CommitAdjustmentReversal(e)
        BY <2>8, <3>2 DEF CommitAdjustmentReversal
      <3> QED
        BY <2>6, <2>12, <3>1, <3>2 DEF Committing
    <2>13. ASSUME NEW w \in Workers, SelectDue(w) \/ WorkerCrashes(w) PROVE FALSE
      BY <2>8, <2>13 DEF SelectDue, WorkerCrashes
    <2>14. CASE FallsDue \/ ChargeLesson
      BY <2>8, <2>14 DEF FallsDue, ChargeLesson
    <2> QED
      BY <2>7, <2>10, <2>11, <2>12, <2>13, <2>14 DEF LedgerNext
  <1> QED
    BY <1>1, LedgerInvariant, PTL DEF CancelledIsNotAsked, LedgerSpec
=============================================================================
