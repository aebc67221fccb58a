--------------------- MODULE SubscriptionCoverageProofs ---------------------
(***************************************************************************)
(* Theorems about SubscriptionCoverage, for any number of lessons,         *)
(* subscriptions, units and connections: no subscription is ever           *)
(* overdrawn, and between transactions its units are with the earliest     *)
(* lessons.                                                                *)
(***************************************************************************)
EXTENDS SubscriptionCoverage, FiniteSetTheorems, WellFoundedInduction, TLAPS

-----------------------------------------------------------------------------
(* Induction over a set instead of a predicate, from the well-foundedness  *)
(* of the natural numbers.                                                 *)

LEMMA LeastElement ==
    ASSUME NEW T \in SUBSET Nat, T # {}
    PROVE  \E x \in T : \A y \in T : x <= y
  <1> DEFINE R == {p \in Nat \X Nat : p[1] < p[2]}
  <1>1. IsWellFoundedOn(R, Nat)
    BY NatLessThanWellFounded DEF OpToRel
  <1>2. \A x, y \in Nat : y < x => <<y, x>> \in R
    OBVIOUS
  <1> HIDE DEF R
  <1>3. PICK x \in T : \A y \in T : <<y, x>> \notin R
    BY <1>1, WFMin
  <1>4. \A y \in T : ~ (y < x)
    BY <1>2, <1>3
  <1> QED
    BY <1>4

LEMMA UpToLessons ==
    ASSUME NEW S, 0 \in S, \A x \in Lesson : x - 1 \in S => x \in S
    PROVE  0..LessonCount \subseteq S
  <1> SUFFICES ASSUME 0..LessonCount \ S # {} PROVE FALSE
    OBVIOUS
  <1>1. 0..LessonCount \ S \in SUBSET Nat
    BY CoverageAssumption
  <1>2. PICK x \in 0..LessonCount \ S : \A y \in 0..LessonCount \ S : x <= y
    BY <1>1, LeastElement
  <1>3. x \in Lesson /\ x - 1 \in 0..LessonCount
    BY <1>2, CoverageAssumption DEF Lesson
  <1>4. x - 1 \in S
    BY <1>2, <1>3
  <1> QED
    BY <1>2, <1>3, <1>4

-----------------------------------------------------------------------------
(* Sums over lessons.                                                      *)

\* The partial sums of f over the lessons of S.
IsSum(g, f, S) ==
    g = [x \in 0..LessonCount |->
            IF x = 0 THEN 0 ELSE g[x - 1] + IF x \in S THEN f[x] ELSE 0]

\* The same, up to a lesson.
IsSumTo(n, g, f, S) ==
    g = [x \in 0..n |->
            IF x = 0 THEN 0 ELSE g[x - 1] + IF x \in S THEN f[x] ELSE 0]

LEMMA SumExists ==
    ASSUME NEW f, NEW S
    PROVE  \E g : IsSum(g, f, S)
  <1> DEFINE T == {n \in 0..LessonCount : \E g : IsSumTo(n, g, f, S)}
  <1>1. 0 \in T
    <2> DEFINE g == [x \in 0..0 |-> 0]
    <2>1. g = [x \in 0..0 |->
                  IF x = 0 THEN 0 ELSE g[x - 1] + IF x \in S THEN f[x] ELSE 0]
      <3>1. \A x \in 0..0 : x = 0
        OBVIOUS
      <3> QED
        BY <3>1
    <2>2. IsSumTo(0, g, f, S)
      BY <2>1 DEF IsSumTo
    <2>3. 0 \in 0..LessonCount
      BY CoverageAssumption
    <2> HIDE DEF g
    <2> QED
      BY <2>2, <2>3
  <1>2. ASSUME NEW n \in Lesson, n - 1 \in T PROVE n \in T
    <2>1. PICK g : IsSumTo(n - 1, g, f, S)
      BY <1>2
    <2> DEFINE h == [x \in 0..n |->
                        IF x = n THEN g[n - 1] + IF n \in S THEN f[n] ELSE 0 ELSE g[x]]
    <2>2. n \in Nat /\ n # 0 /\ n \in 0..LessonCount
      BY CoverageAssumption DEF Lesson
    <2>3. \A x \in 0..(n - 1) :
             g[x] = IF x = 0 THEN 0 ELSE g[x - 1] + IF x \in S THEN f[x] ELSE 0
      BY <2>1 DEF IsSumTo
    <2>4. ASSUME NEW x \in 0..n
          PROVE  h[x] = IF x = 0 THEN 0 ELSE h[x - 1] + IF x \in S THEN f[x] ELSE 0
      <3>1. CASE x = n
        <4>1. h[x] = g[n - 1] + IF n \in S THEN f[n] ELSE 0
          BY <3>1
        <4>2. h[n - 1] = g[n - 1]
          BY <2>2
        <4> QED
          BY <2>2, <3>1, <4>1, <4>2
      <3>2. CASE x # n
        <4>1. x \in 0..(n - 1)
          BY <2>2, <3>2
        <4>2. h[x] = g[x]
          BY <3>2
        <4>3. x # 0 => h[x - 1] = g[x - 1]
          BY <2>2, <4>1
        <4> QED
          BY <2>3, <4>1, <4>2, <4>3
      <3> QED
        BY <3>1, <3>2
    <2>5. h = [x \in 0..n |->
                  IF x = 0 THEN 0 ELSE h[x - 1] + IF x \in S THEN f[x] ELSE 0]
      BY <2>4
    <2> QED
      BY <2>2, <2>5 DEF IsSumTo
  <1> HIDE DEF T
  <1>3. 0..LessonCount \subseteq T
    BY <1>1, <1>2, UpToLessons
  <1>4. LessonCount \in T
    BY <1>3, CoverageAssumption
  <1> QED
    BY <1>4 DEF T, IsSum, IsSumTo

LEMMA SumUnfold ==
    ASSUME NEW f, NEW S
    PROVE  \E g : /\ Sum(f, S) = g[LessonCount]
                  /\ g[0] = 0
                  /\ \A x \in Lesson : g[x] = g[x - 1] + IF x \in S THEN f[x] ELSE 0
  <1> DEFINE g == CHOOSE h : IsSum(h, f, S)
  <1>1. IsSum(g, f, S)
    BY SumExists
  <1>2. Sum(f, S) = g[LessonCount]
    BY DEF Sum, IsSum
  <1> HIDE DEF g
  <1>3. \A x \in 0..LessonCount :
           g[x] = IF x = 0 THEN 0 ELSE g[x - 1] + IF x \in S THEN f[x] ELSE 0
    BY <1>1 DEF IsSum
  <1>4. g[0] = 0
    BY <1>3, CoverageAssumption
  <1>5. \A x \in Lesson : x \in 0..LessonCount /\ x # 0
    BY CoverageAssumption DEF Lesson
  <1>6. \A x \in Lesson : g[x] = g[x - 1] + IF x \in S THEN f[x] ELSE 0
    BY <1>3, <1>5
  <1> QED
    BY <1>2, <1>4, <1>6

\* What a sum of integers is.
LEMMA SumType ==
    ASSUME NEW f \in [Lesson -> Int], NEW S
    PROVE  Sum(f, S) \in Int
  <1>1. PICK g : /\ Sum(f, S) = g[LessonCount]
                 /\ g[0] = 0
                 /\ \A x \in Lesson : g[x] = g[x - 1] + IF x \in S THEN f[x] ELSE 0
    BY SumUnfold
  <1> DEFINE T == {x \in 0..LessonCount : g[x] \in Int}
  <1>2. 0 \in T
    BY <1>1, CoverageAssumption
  <1>3. ASSUME NEW x \in Lesson, x - 1 \in T PROVE x \in T
    <2>1. x \in 0..LessonCount /\ g[x - 1] \in Int /\ f[x] \in Int
      BY <1>3, CoverageAssumption DEF Lesson
    <2>2. g[x] = g[x - 1] + IF x \in S THEN f[x] ELSE 0
      BY <1>1
    <2> QED
      BY <2>1, <2>2
  <1> HIDE DEF T
  <1>4. 0..LessonCount \subseteq T
    BY <1>2, <1>3, UpToLessons
  <1> QED
    BY <1>1, <1>4, CoverageAssumption DEF T

\* Sums are compared term by term.
LEMMA SumLeq ==
    ASSUME NEW f \in [Lesson -> Int], NEW h \in [Lesson -> Int], NEW S, NEW R,
           \A x \in Lesson : (IF x \in S THEN f[x] ELSE 0) <= (IF x \in R THEN h[x] ELSE 0)
    PROVE  Sum(f, S) <= Sum(h, R)
  <1>1. PICK g : /\ Sum(f, S) = g[LessonCount]
                 /\ g[0] = 0
                 /\ \A x \in Lesson : g[x] = g[x - 1] + IF x \in S THEN f[x] ELSE 0
    BY SumUnfold
  <1>2. PICK k : /\ Sum(h, R) = k[LessonCount]
                 /\ k[0] = 0
                 /\ \A x \in Lesson : k[x] = k[x - 1] + IF x \in R THEN h[x] ELSE 0
    BY SumUnfold
  <1> DEFINE T == {x \in 0..LessonCount : g[x] \in Int /\ k[x] \in Int /\ g[x] <= k[x]}
  <1>3. 0 \in T
    BY <1>1, <1>2, CoverageAssumption
  <1>4. ASSUME NEW x \in Lesson, x - 1 \in T PROVE x \in T
    <2>1. /\ x \in 0..LessonCount /\ f[x] \in Int /\ h[x] \in Int
          /\ g[x - 1] \in Int /\ k[x - 1] \in Int /\ g[x - 1] <= k[x - 1]
      BY <1>4, CoverageAssumption DEF Lesson
    <2>2. /\ g[x] = g[x - 1] + IF x \in S THEN f[x] ELSE 0
          /\ k[x] = k[x - 1] + IF x \in R THEN h[x] ELSE 0
          /\ (IF x \in S THEN f[x] ELSE 0) <= (IF x \in R THEN h[x] ELSE 0)
      BY <1>1, <1>2
    <2> QED
      BY <2>1, <2>2
  <1> HIDE DEF T
  <1>5. 0..LessonCount \subseteq T
    BY <1>3, <1>4, UpToLessons
  <1> QED
    BY <1>1, <1>2, <1>5, CoverageAssumption DEF T

\* The sum of the terms of two sums.
LEMMA SumAdd ==
    ASSUME NEW f \in [Lesson -> Int], NEW h \in [Lesson -> Int],
           NEW e \in [Lesson -> Int], NEW S, NEW R, NEW Q,
           \A x \in Lesson :
              (IF x \in Q THEN e[x] ELSE 0)
                 = (IF x \in S THEN f[x] ELSE 0) + (IF x \in R THEN h[x] ELSE 0)
    PROVE  Sum(e, Q) = Sum(f, S) + Sum(h, R)
  <1>1. PICK g : /\ Sum(f, S) = g[LessonCount]
                 /\ g[0] = 0
                 /\ \A x \in Lesson : g[x] = g[x - 1] + IF x \in S THEN f[x] ELSE 0
    BY SumUnfold
  <1>2. PICK k : /\ Sum(h, R) = k[LessonCount]
                 /\ k[0] = 0
                 /\ \A x \in Lesson : k[x] = k[x - 1] + IF x \in R THEN h[x] ELSE 0
    BY SumUnfold
  <1>3. PICK j : /\ Sum(e, Q) = j[LessonCount]
                 /\ j[0] = 0
                 /\ \A x \in Lesson : j[x] = j[x - 1] + IF x \in Q THEN e[x] ELSE 0
    BY SumUnfold
  <1> DEFINE T == {x \in 0..LessonCount :
                     /\ g[x] \in Int /\ k[x] \in Int /\ j[x] \in Int
                     /\ j[x] = g[x] + k[x]}
  <1>4. 0 \in T
    BY <1>1, <1>2, <1>3, CoverageAssumption
  <1>5. ASSUME NEW x \in Lesson, x - 1 \in T PROVE x \in T
    <2>1. /\ x \in 0..LessonCount /\ f[x] \in Int /\ h[x] \in Int
          /\ g[x - 1] \in Int /\ k[x - 1] \in Int /\ j[x - 1] = g[x - 1] + k[x - 1]
      BY <1>5, CoverageAssumption DEF Lesson
    <2>2. /\ g[x] = g[x - 1] + IF x \in S THEN f[x] ELSE 0
          /\ k[x] = k[x - 1] + IF x \in R THEN h[x] ELSE 0
          /\ j[x] = j[x - 1] + IF x \in Q THEN e[x] ELSE 0
          /\ (IF x \in Q THEN e[x] ELSE 0)
               = (IF x \in S THEN f[x] ELSE 0) + (IF x \in R THEN h[x] ELSE 0)
      BY <1>1, <1>2, <1>3
    <2> QED
      BY <2>1, <2>2
  <1> HIDE DEF T
  <1>6. 0..LessonCount \subseteq T
    BY <1>4, <1>5, UpToLessons
  <1> QED
    BY <1>1, <1>2, <1>3, <1>6, CoverageAssumption DEF T

\* A sum with one term.
LEMMA SumOfOne ==
    ASSUME NEW f \in [Lesson -> Int], NEW S, NEW a \in Lesson,
           \A x \in Lesson \ {a} : x \in S => f[x] = 0
    PROVE  Sum(f, S) = IF a \in S THEN f[a] ELSE 0
  <1>1. PICK g : /\ Sum(f, S) = g[LessonCount]
                 /\ g[0] = 0
                 /\ \A x \in Lesson : g[x] = g[x - 1] + IF x \in S THEN f[x] ELSE 0
    BY SumUnfold
  <1> DEFINE T == {x \in 0..LessonCount :
                     g[x] = IF a <= x /\ a \in S THEN f[a] ELSE 0}
  <1>2. 0 \in T
    BY <1>1, CoverageAssumption DEF Lesson
  <1>3. ASSUME NEW x \in Lesson, x - 1 \in T PROVE x \in T
    <2>1. /\ x \in 0..LessonCount /\ x \in Int /\ a \in Int /\ f[x] \in Int /\ f[a] \in Int
          /\ g[x - 1] = IF a <= x - 1 /\ a \in S THEN f[a] ELSE 0
      BY <1>3, CoverageAssumption DEF Lesson
    <2>2. g[x] = g[x - 1] + IF x \in S THEN f[x] ELSE 0
      BY <1>1
    <2>3. CASE x = a
      BY <2>1, <2>2, <2>3
    <2>4. CASE x # a
      <3>1. (a <= x) <=> (a <= x - 1)
        BY <2>1, <2>4
      <3>2. (IF x \in S THEN f[x] ELSE 0) = 0
        BY <2>4
      <3> QED
        BY <2>1, <2>2, <3>1, <3>2
    <2> QED
      BY <2>3, <2>4
  <1> HIDE DEF T
  <1>4. 0..LessonCount \subseteq T
    BY <1>2, <1>3, UpToLessons
  <1>5. a <= LessonCount
    BY CoverageAssumption DEF Lesson
  <1> QED
    BY <1>1, <1>4, <1>5, CoverageAssumption DEF T

\* A sum without terms.
LEMMA SumNothing ==
    ASSUME NEW f
    PROVE  Sum(f, {}) = 0
  <1>1. PICK g : /\ Sum(f, {}) = g[LessonCount]
                 /\ g[0] = 0
                 /\ \A x \in Lesson : g[x] = g[x - 1] + IF x \in {} THEN f[x] ELSE 0
    BY SumUnfold
  <1> DEFINE T == {x \in 0..LessonCount : g[x] = 0}
  <1>2. 0 \in T
    BY <1>1, CoverageAssumption
  <1>3. ASSUME NEW x \in Lesson, x - 1 \in T PROVE x \in T
    <2>1. x \in 0..LessonCount /\ g[x - 1] = 0
      BY <1>3, CoverageAssumption DEF Lesson
    <2>2. g[x] = g[x - 1] + 0
      BY <1>1
    <2> QED
      BY <2>1, <2>2
  <1> HIDE DEF T
  <1>4. 0..LessonCount \subseteq T
    BY <1>2, <1>3, UpToLessons
  <1> QED
    BY <1>1, <1>4, CoverageAssumption DEF T

-----------------------------------------------------------------------------
(* Handing out units never gives more than there are.                      *)

\* What is left after the lessons up to n.
IsLeft(n, left, need, available) ==
    left = [x \in 0..n |->
               IF x = 0 THEN available
               ELSE IF need[x] <= left[x - 1] THEN left[x - 1] - need[x] ELSE left[x - 1]]

LEMMA LeftExists ==
    ASSUME NEW need, NEW available
    PROVE  \E left : IsLeft(LessonCount, left, need, available)
  <1> DEFINE T == {n \in 0..LessonCount : \E left : IsLeft(n, left, need, available)}
  <1>1. 0 \in T
    <2> DEFINE g == [x \in 0..0 |-> available]
    <2>1. g = [x \in 0..0 |->
                  IF x = 0 THEN available
                  ELSE IF need[x] <= g[x - 1] THEN g[x - 1] - need[x] ELSE g[x - 1]]
      <3>1. \A x \in 0..0 : x = 0
        OBVIOUS
      <3> QED
        BY <3>1
    <2>2. IsLeft(0, g, need, available)
      BY <2>1 DEF IsLeft
    <2>3. 0 \in 0..LessonCount
      BY CoverageAssumption
    <2> HIDE DEF g
    <2> QED
      BY <2>2, <2>3
  <1>2. ASSUME NEW n \in Lesson, n - 1 \in T PROVE n \in T
    <2>1. PICK g : IsLeft(n - 1, g, need, available)
      BY <1>2
    <2> DEFINE last == IF need[n] <= g[n - 1] THEN g[n - 1] - need[n] ELSE g[n - 1]
               h == [x \in 0..n |-> IF x = n THEN last ELSE g[x]]
    <2>2. n \in Nat /\ n # 0 /\ n \in 0..LessonCount
      BY CoverageAssumption DEF Lesson
    <2>3. \A x \in 0..(n - 1) :
             g[x] = IF x = 0 THEN available
                    ELSE IF need[x] <= g[x - 1] THEN g[x - 1] - need[x] ELSE g[x - 1]
      BY <2>1 DEF IsLeft
    <2>4. ASSUME NEW x \in 0..n
          PROVE  h[x] = IF x = 0 THEN available
                        ELSE IF need[x] <= h[x - 1] THEN h[x - 1] - need[x] ELSE h[x - 1]
      <3>1. CASE x = n
        <4>1. h[x] = last
          BY <3>1
        <4>2. h[n - 1] = g[n - 1]
          BY <2>2
        <4> QED
          BY <2>2, <3>1, <4>1, <4>2
      <3>2. CASE x # n
        <4>1. x \in 0..(n - 1)
          BY <2>2, <3>2
        <4>2. h[x] = g[x]
          BY <3>2
        <4>3. x # 0 => h[x - 1] = g[x - 1]
          BY <2>2, <4>1
        <4> QED
          BY <2>3, <4>1, <4>2, <4>3
      <3> QED
        BY <3>1, <3>2
    <2>5. h = [x \in 0..n |->
                  IF x = 0 THEN available
                  ELSE IF need[x] <= h[x - 1] THEN h[x - 1] - need[x] ELSE h[x - 1]]
      BY <2>4
    <2>6. IsLeft(n, h, need, available)
      BY <2>5 DEF IsLeft
    <2> HIDE DEF h
    <2> QED
      BY <2>2, <2>6
  <1> HIDE DEF T
  <1>3. 0..LessonCount \subseteq T
    BY <1>1, <1>2, UpToLessons
  <1>4. LessonCount \in T
    BY <1>3, CoverageAssumption
  <1> QED
    BY <1>4 DEF T

\* Allocate, whatever the lessons need.
LEMMA AllocateBounded ==
    ASSUME NEW need \in [Lesson -> Nat], NEW available \in Nat
    PROVE  /\ Allocate(need, available) \in [Lesson -> Nat]
           /\ Sum(Allocate(need, available), Lesson) <= available
  <1> DEFINE left == CHOOSE g : IsLeft(LessonCount, g, need, available)
             given == Allocate(need, available)
  <1>1. IsLeft(LessonCount, left, need, available)
    BY LeftExists
  <1>2. given = [x \in Lesson |-> IF need[x] <= left[x - 1] THEN need[x] ELSE 0]
    BY DEF Allocate, IsLeft
  <1> HIDE DEF left, given
  <1>3. /\ left[0] = available
        /\ \A x \in Lesson :
              left[x] = IF need[x] <= left[x - 1] THEN left[x - 1] - need[x] ELSE left[x - 1]
    BY <1>1, CoverageAssumption DEF IsLeft, Lesson
  <1>4. given \in [Lesson -> Nat]
    BY <1>2
  <1>5. PICK g : /\ Sum(given, Lesson) = g[LessonCount]
                 /\ g[0] = 0
                 /\ \A x \in Lesson : g[x] = g[x - 1] + IF x \in Lesson THEN given[x] ELSE 0
    BY SumUnfold
  <1> DEFINE T == {x \in 0..LessonCount :
                     left[x] \in Nat /\ g[x] \in Int /\ g[x] + left[x] = available}
  <1>6. 0 \in T
    BY <1>3, <1>5, CoverageAssumption
  <1>7. ASSUME NEW x \in Lesson, x - 1 \in T PROVE x \in T
    <2>1. /\ x \in 0..LessonCount /\ need[x] \in Nat
          /\ left[x - 1] \in Nat /\ g[x - 1] \in Int /\ g[x - 1] + left[x - 1] = available
      BY <1>7, CoverageAssumption DEF Lesson
    <2>2. /\ left[x] = IF need[x] <= left[x - 1] THEN left[x - 1] - need[x] ELSE left[x - 1]
          /\ g[x] = g[x - 1] + IF need[x] <= left[x - 1] THEN need[x] ELSE 0
      BY <1>2, <1>3, <1>5
    <2> QED
      BY <2>1, <2>2
  <1> HIDE DEF T
  <1>8. 0..LessonCount \subseteq T
    BY <1>6, <1>7, UpToLessons
  <1>9. g[LessonCount] <= available
    BY <1>8, CoverageAssumption DEF T
  <1> QED
    BY <1>4, <1>5, <1>9 DEF given

-----------------------------------------------------------------------------
(* The inductive invariant.                                                *)

Ops == {"none", "create", "edit", "settle", "reschedule", "complete"}
Stages == {"idle", "locking", "measured", "covering"}
TaskSet == [sub : Sub, claim : {"no", "may", "must"}]

TxType ==
    [op : Ops, at : Stages,
     lesson : Lesson \union {NoLesson}, successor : Lesson \union {NoLesson},
     want : Plan \union {Unfunded}, locks : SUBSET Sub, held : SUBSET Sub,
     available : Int, billed : Nat, tasks : Seq(TaskSet),
     add : [Lesson -> Nat], made : [Lesson -> [Sub -> Nat]],
     dropped : SUBSET (Lesson \X Sub), rows : SUBSET (Lesson \X Sub)]

Typed == TypeOK /\ tx \in [Connection -> TxType]

\* A subscription is locked by one transaction at a time.
SubsExclusive ==
    \A c, d \in Connection : c # d => tx[c].held \intersect tx[d].held = {}

\* What a transaction has done by each stage.
StageOK(r) ==
    /\ r.at # "covering" =>
          /\ r.made = NoUnits /\ r.dropped = {} /\ r.tasks = << >>
          /\ r.add = Nothing /\ r.billed = 0
    /\ r.at # "locking" => r.locks = {}
    /\ r.at \in {"locking", "measured"} /\ r.want # Unfunded =>
          r.want.sub \in r.locks \union r.held
    /\ r.at = "measured" => r.want # Unfunded /\ r.op \in {"settle", "complete"}
    /\ r.at # "idle" => r.lesson \in Lesson
    /\ r.at # "idle" /\ r.op = "reschedule" =>
          r.successor \in Lesson \ {r.lesson}

\* It gives units, or charges them, only of subscriptions it has locked.
HeldOK(r) ==
    /\ \A x \in Lesson, s \in Sub : r.made[x][s] > 0 => s \in r.held
    /\ r.billed > 0 => r.want # Unfunded /\ r.want.sub \in r.held
    /\ r.add # Nothing => r.tasks # << >> /\ Head(r.tasks).sub \in r.held

\* Redistributions in which its lesson takes no part come first.
ClaimsOK(r) ==
    /\ r.op \in {"settle", "complete"} =>
          \A i \in DOMAIN r.tasks : r.tasks[i].claim = "no"
    /\ r.op \in {"create", "reschedule"} =>
          \A i \in DOMAIN r.tasks : r.tasks[i].claim # "no"
    /\ \A i, j \in DOMAIN r.tasks :
          i < j /\ r.tasks[j].claim = "no" => r.tasks[i].claim = "no"

\* Its lesson has given up all its reserves, and gets none.
ClearedOK(r) ==
    r.at = "covering"
      /\ (r.op \in {"settle", "complete", "reschedule"}
            \/ (r.tasks # << >> /\ Head(r.tasks).claim = "no")) =>
    /\ AllOf(r.lesson) \subseteq r.dropped
    /\ r.add[r.lesson] = 0
    /\ \A s \in Sub : r.made[r.lesson][s] = 0

\* What was measured is still there.
Committed(s, x) ==
    [y \in Lesson |-> charged[y][s] + IF y = x THEN 0 ELSE reserved[y][s]]

MeasuredOK(r) ==
    r.at = "measured" =>
       r.available + Sum(Committed(r.want.sub, r.lesson), Lesson)
         <= Total[r.want.sub]

\* The units of a subscription as a transaction sees them: charged, reserved but
\* for the lessons of X, and about to be reserved.
Pending(r, x, s) ==
    IF r.tasks # << >> /\ Head(r.tasks).sub = s THEN r.add[x] ELSE 0

\* View, of a transaction that is given by its record.
ViewOf(r, x, s) ==
    IF r.made[x][s] > 0 THEN r.made[x][s]
    ELSE IF <<x, s>> \in r.dropped THEN 0
    ELSE reserved[x][s]

Load(r, s, X) ==
    [x \in Lesson |-> charged[x][s] + (IF x \in X THEN 0 ELSE ViewOf(r, x, s)) + Pending(r, x, s)]

Billed(r, s) == IF r.want.sub = s THEN r.billed ELSE 0

Fits(r, s, X) == Sum(Load(r, s, X), Lesson) + Billed(r, s) <= Total[s]

\* The reserve that moved to the successor is still to be brought in line.
Awaits(r, s) ==
    /\ r.op = "reschedule" /\ r.want.sub = s
    /\ \E i \in DOMAIN r.tasks : r.tasks[i].sub = s /\ (i = 1 => r.add = Nothing)

LoadOK(r) ==
    r.at = "covering" =>
       \A s \in r.held : Fits(r, s, {}) \/ (Awaits(r, s) /\ Fits(r, s, {r.successor}))

TxOK(r) ==
    /\ StageOK(r) /\ HeldOK(r) /\ ClaimsOK(r) /\ ClearedOK(r)
    /\ MeasuredOK(r) /\ LoadOK(r)

CoverageInv ==
    /\ Typed
    /\ SubsExclusive
    /\ \A c \in Connection : TxOK(tx[c])
    /\ NeverOverdrawn

-----------------------------------------------------------------------------
LEMMA WantTyped ==
    \A w \in Plan \union {Unfunded} :
       /\ w.units \in Nat /\ w.sub \in Sub \union {NoSub}
       /\ w # Unfunded => w.sub \in Sub
  BY CoverageAssumption DEF Unfunded

LEMMA TotalTyped == \A s \in Sub : Total[s] \in Nat
  BY CoverageAssumption

\* What a record of TxType holds.
LEMMA Fields ==
    ASSUME NEW r \in TxType
    PROVE  /\ r.lesson \in Lesson \union {NoLesson}
           /\ r.successor \in Lesson \union {NoLesson}
           /\ r.want \in Plan \union {Unfunded}
           /\ r.locks \subseteq Sub /\ r.held \subseteq Sub
           /\ r.available \in Int /\ r.billed \in Nat
           /\ r.tasks \in Seq(TaskSet)
           /\ r.add \in [Lesson -> Nat] /\ r.made \in [Lesson -> [Sub -> Nat]]
           /\ r.dropped \subseteq Lesson \X Sub /\ r.rows \subseteq Lesson \X Sub
  <1> USE DEF TxType
  <1>1. r.lesson \in Lesson \union {NoLesson} /\ r.successor \in Lesson \union {NoLesson}
    OBVIOUS
  <1>2. r.want \in Plan \union {Unfunded} /\ r.available \in Int /\ r.billed \in Nat
    OBVIOUS
  <1>3. r.locks \in SUBSET Sub /\ r.held \in SUBSET Sub /\ r.tasks \in Seq(TaskSet)
    OBVIOUS
  <1>4. r.add \in [Lesson -> Nat] /\ r.made \in [Lesson -> [Sub -> Nat]]
    OBVIOUS
  <1>5. r.dropped \in SUBSET (Lesson \X Sub) /\ r.rows \in SUBSET (Lesson \X Sub)
    OBVIOUS
  <1> QED
    BY <1>1, <1>2, <1>3, <1>4, <1>5

\* Records that differ in a few fields.
LEMMA WithStage ==
    ASSUME NEW q \in TxType, NEW at \in Stages, NEW held \in SUBSET Sub,
           NEW p, p = [q EXCEPT !.at = at, !.held = held]
    PROVE  p \in TxType
  BY DEF TxType

LEMMA WithBill ==
    ASSUME NEW q \in TxType, NEW billed \in Nat, NEW available \in Int,
           NEW p, p = [q EXCEPT !.available = available, !.billed = billed]
    PROVE  p \in TxType
  BY DEF TxType

LEMMA WithWork ==
    ASSUME NEW q \in TxType, NEW dropped \in SUBSET (Lesson \X Sub), NEW tasks \in Seq(TaskSet),
           NEW p, p = [q EXCEPT !.dropped = dropped, !.tasks = tasks]
    PROVE  p \in TxType
  BY DEF TxType

LEMMA WithUnits ==
    ASSUME NEW q \in TxType, NEW made \in [Lesson -> [Sub -> Nat]], NEW add \in [Lesson -> Nat],
           NEW p, p = [q EXCEPT !.made = made, !.add = add]
    PROVE  p \in TxType
  BY DEF TxType

LEMMA WithRows ==
    ASSUME NEW q \in TxType, NEW rows \in SUBSET (Lesson \X Sub),
           NEW p, p = [q EXCEPT !.rows = rows]
    PROVE  p \in TxType
  BY DEF TxType

LEMMA IdleTyped ==
    /\ Idle \in TxType
    /\ Idle.at = "idle" /\ Idle.held = {} /\ Idle.locks = {} /\ Idle.tasks = << >>
    /\ Idle.made = NoUnits /\ Idle.dropped = {} /\ Idle.add = Nothing /\ Idle.billed = 0
    /\ Idle.op = "none" /\ Idle.want = Unfunded /\ Idle.lesson = NoLesson
  <1>1. NoUnits \in [Lesson -> [Sub -> Nat]] /\ Nothing \in [Lesson -> Nat]
    BY DEF NoUnits, Nothing
  <1>2. << >> \in Seq(TaskSet)
    OBVIOUS
  <1> HIDE DEF TaskSet, NoUnits, Nothing
  <1> QED
    BY <1>1, <1>2 DEF Idle, TxType, Ops, Stages

\* An idle connection.
LEMMA IdleOK == TxOK(Idle)
  <1>1. \A x \in Lesson, s \in Sub : ~ (Idle.made[x][s] > 0)
    BY IdleTyped DEF NoUnits
  <1>2. StageOK(Idle) /\ HeldOK(Idle) /\ ClaimsOK(Idle)
    BY <1>1, IdleTyped DEF StageOK, HeldOK, ClaimsOK
  <1> QED
    BY <1>2, IdleTyped DEF TxOK, ClearedOK, MeasuredOK, LoadOK

LEMMA InitCoverageInv == Init => CoverageInv
  <1> SUFFICES ASSUME Init PROVE CoverageInv
    OBVIOUS
  <1>1. Typed
    BY IdleTyped, CoverageAssumption DEF Init, Typed, TypeOK, TxType, NoUnits, Unfunded
  <1>2. SubsExclusive
    BY IdleTyped DEF Init, SubsExclusive
  <1>3. ASSUME NEW c \in Connection PROVE TxOK(tx[c])
    BY IdleOK DEF Init
  <1>4. ASSUME NEW s \in Sub
        PROVE  Sum([x \in Lesson |-> charged[x][s] + reserved[x][s]], Lesson) <= Total[s]
    <2> DEFINE f == [x \in Lesson |-> charged[x][s] + reserved[x][s]]
    <2>1. \A x \in Lesson : f[x] = 0
      BY DEF Init, NoUnits
    <2>2. f \in [Lesson -> Int]
      BY <2>1
    <2>3. Sum(f, {}) = 0 /\ Sum(f, Lesson) <= Sum(f, {})
      <3>1. Sum(f, Lesson) <= Sum(f, {})
        BY <2>1, <2>2, SumLeq
      <3> QED
        BY <2>1, <2>2, <3>1, SumNothing
    <2> HIDE DEF f
    <2>4. Total[s] \in Nat
      BY CoverageAssumption
    <2> QED
      BY <2>2, <2>3, <2>4, SumType DEF f
  <1> QED
    BY <1>1, <1>2, <1>3, <1>4 DEF CoverageInv, NeverOverdrawn

-----------------------------------------------------------------------------
(* What others do to a transaction.                                        *)

LEMMA UnitsTyped ==
    ASSUME Typed, NEW r \in TxType, NEW x \in Lesson, NEW s \in Sub
    PROVE  /\ charged[x][s] \in Nat /\ reserved[x][s] \in Nat
           /\ r.made[x][s] \in Nat /\ r.add[x] \in Nat
           /\ ViewOf(r, x, s) \in Nat /\ Pending(r, x, s) \in Nat
  <1>2. charged[x][s] \in Nat /\ reserved[x][s] \in Nat
    BY DEF Typed, TypeOK
  <1>3. r.made[x][s] \in Nat /\ r.add[x] \in Nat
    BY Fields
  <1> QED
    BY <1>2, <1>3 DEF ViewOf, Pending

LEMMA LoadTyped ==
    ASSUME Typed, NEW r \in TxType, NEW s \in Sub, NEW X
    PROVE  Load(r, s, X) \in [Lesson -> Int]
  BY UnitsTyped DEF Load

LEMMA CommittedTyped ==
    ASSUME Typed, NEW s \in Sub, NEW x
    PROVE  Committed(s, x) \in [Lesson -> Int]
  BY DEF Typed, TypeOK, Committed

\* A transaction is not disturbed when others take reserves away, as long as
\* the reserves and charges of the subscriptions it has locked do not grow.
LEMMA OtherKept ==
    ASSUME Typed, Typed', NEW r \in TxType, TxOK(r),
           \A x \in Lesson, s \in r.held :
              reserved'[x][s] <= reserved[x][s] /\ charged'[x][s] = charged[x][s]
    PROVE  TxOK(r)'
  <1>2. StageOK(r)' /\ HeldOK(r)' /\ ClaimsOK(r)' /\ ClearedOK(r)'
    <2>1. StageOK(r)'
      BY DEF TxOK, StageOK
    <2>2. HeldOK(r)'
      BY DEF TxOK, HeldOK
    <2>3. ClaimsOK(r)'
      BY DEF TxOK, ClaimsOK
    <2>4. ClearedOK(r)'
      BY DEF TxOK, ClearedOK
    <2> QED
      BY <2>1, <2>2, <2>3, <2>4
  <1>3. \A x \in Lesson, s \in Sub :
           /\ charged[x][s] \in Nat /\ reserved[x][s] \in Nat
           /\ charged'[x][s] \in Nat /\ reserved'[x][s] \in Nat
           /\ r.made[x][s] \in Nat /\ r.add[x] \in Nat
    BY Fields DEF Typed, TypeOK
  <1>4. MeasuredOK(r)'
    <2> SUFFICES ASSUME r.at = "measured"
                 PROVE  r.available
                          + Sum([y \in Lesson |-> charged'[y][r.want.sub]
                                  + IF y = r.lesson THEN 0 ELSE reserved'[y][r.want.sub]],
                                Lesson) <= Total[r.want.sub]
      BY DEF MeasuredOK, Committed
    <2> DEFINE s == r.want.sub
               f == Committed(s, r.lesson)
               g == [y \in Lesson |-> charged'[y][s]
                                  + IF y = r.lesson THEN 0 ELSE reserved'[y][s]]
    <2>1. s \in r.held /\ s \in Sub /\ Total[s] \in Int /\ r.available \in Int
      <3>1. r.want # Unfunded /\ r.locks = {}
              /\ s \in r.locks \union r.held
        BY DEF TxOK, StageOK
      <3> HIDE DEF s
      <3> QED
        BY <3>1, Fields, TotalTyped
    <2>2. f \in [Lesson -> Int] /\ g \in [Lesson -> Int]
      BY <1>3, <2>1, CommittedTyped
    <2>3. ASSUME NEW y \in Lesson PROVE g[y] <= f[y]
      <3>1. /\ f[y] = charged[y][s] + IF y = r.lesson THEN 0 ELSE reserved[y][s]
            /\ g[y] = charged'[y][s] + IF y = r.lesson THEN 0 ELSE reserved'[y][s]
        BY DEF Committed
      <3>2. charged'[y][s] = charged[y][s] /\ reserved'[y][s] <= reserved[y][s]
        BY <2>1
      <3>3. /\ charged[y][s] \in Nat /\ reserved[y][s] \in Nat
            /\ reserved'[y][s] \in Nat
        BY <1>3, <2>1
      <3> HIDE DEF f, g, s
      <3> QED
        BY <3>1, <3>2, <3>3
    <2>4. r.available + Sum(f, Lesson) <= Total[s]
      BY DEF TxOK, MeasuredOK
    <2> HIDE DEF f, g, s
    <2>5. Sum(g, Lesson) <= Sum(f, Lesson) /\ Sum(f, Lesson) \in Int /\ Sum(g, Lesson) \in Int
      BY <2>2, <2>3, SumLeq, SumType
    <2>6. r.available + Sum(g, Lesson) <= Total[s]
      BY <2>1, <2>4, <2>5
    <2> QED
      BY <2>6 DEF g, s
  <1>5. LoadOK(r)'
    <2> SUFFICES ASSUME r.at = "covering", NEW s \in r.held
                 PROVE  Fits(r, s, {})' \/ (Awaits(r, s)' /\ Fits(r, s, {r.successor})')
      BY DEF LoadOK
    <2>1. s \in Sub /\ Total[s] \in Int
      BY Fields, TotalTyped
    <2>2. Awaits(r, s)' <=> Awaits(r, s)
      BY DEF Awaits
    <2>3. ASSUME NEW X, Fits(r, s, X) PROVE Fits(r, s, X)'
      <3> DEFINE f == Load(r, s, X)
                 g == [x \in Lesson |-> charged'[x][s]
                          + (IF x \in X THEN 0
                             ELSE IF r.made[x][s] > 0 THEN r.made[x][s]
                             ELSE IF <<x, s>> \in r.dropped THEN 0
                             ELSE reserved'[x][s])
                          + Pending(r, x, s)]
      <3>1. \A x \in Lesson : Pending(r, x, s) \in Nat
        BY <2>1, UnitsTyped
      <3>2. f \in [Lesson -> Int] /\ g \in [Lesson -> Int]
        BY <1>3, <2>1, <3>1, LoadTyped
      <3>3. ASSUME NEW x \in Lesson PROVE g[x] <= f[x]
        <4>1. f[x] = charged[x][s]
                       + (IF x \in X THEN 0
                          ELSE IF r.made[x][s] > 0 THEN r.made[x][s]
                          ELSE IF <<x, s>> \in r.dropped THEN 0
                          ELSE reserved[x][s])
                       + Pending(r, x, s)
          BY DEF Load, ViewOf
        <4>2. g[x] = charged'[x][s]
                       + (IF x \in X THEN 0
                          ELSE IF r.made[x][s] > 0 THEN r.made[x][s]
                          ELSE IF <<x, s>> \in r.dropped THEN 0
                          ELSE reserved'[x][s])
                       + Pending(r, x, s)
          OBVIOUS
        <4>3. charged'[x][s] = charged[x][s] /\ reserved'[x][s] <= reserved[x][s]
          OBVIOUS
        <4>4. /\ charged[x][s] \in Nat /\ reserved[x][s] \in Nat
              /\ reserved'[x][s] \in Nat /\ r.made[x][s] \in Nat
              /\ Pending(r, x, s) \in Nat
          BY <1>3, <2>1, <3>1
        <4> HIDE DEF f, g
        <4> QED
          BY <4>1, <4>2, <4>3, <4>4
      <3>4. Billed(r, s)' = Billed(r, s) /\ Billed(r, s) \in Int
        BY Fields, WantTyped DEF Billed
      <3>5. Sum(f, Lesson) + Billed(r, s) <= Total[s]
        BY <2>3 DEF Fits
      <3>6. Load(r, s, X)' = g
        BY DEF Load, ViewOf, Pending
      <3> HIDE DEF f, g
      <3>7. Sum(g, Lesson) <= Sum(f, Lesson) /\ Sum(f, Lesson) \in Int /\ Sum(g, Lesson) \in Int
        BY <3>2, <3>3, SumLeq, SumType
      <3> QED
        BY <2>1, <3>4, <3>5, <3>6, <3>7 DEF Fits
    <2> QED
      BY <2>2, <2>3 DEF TxOK, LoadOK
  <1> QED
    BY <1>2, <1>4, <1>5 DEF TxOK

-----------------------------------------------------------------------------
(* A step of one transaction that leaves the tables alone.                 *)

LEMMA TxStep ==
    ASSUME CoverageInv, UNCHANGED tables, commands' \in 0..MaxCommands,
           NEW c \in Connection, NEW r \in TxType, tx' = [tx EXCEPT ![c] = r],
           \A d \in Others(c) : r.held \intersect tx[d].held = {},
           TxOK(r)
    PROVE  CoverageInv'
  <1>1. tx \in [Connection -> TxType] /\ tx' \in [Connection -> TxType]
    BY DEF CoverageInv, Typed
  <1>2. tx'[c] = r /\ \A d \in Others(c) : tx'[d] = tx[d]
    BY <1>1 DEF Others
  <1>3. Typed'
    <2>1. \A d \in Connection : tx'[d] \in TxType
      BY <1>1
    <2>2. /\ life' \in [Lesson -> {"absent", "scheduled", "pending", "closed"}]
          /\ deleted' \subseteq Lesson
          /\ plan' \in [Lesson -> Plan \union {Unfunded}]
          /\ snapshot' \in [Lesson -> Sub \union {NoSub}]
          /\ reserved' \in [Lesson -> [Sub -> Nat]]
          /\ booked' \in [Lesson -> SUBSET Sub]
          /\ charged' \in [Lesson -> [Sub -> Nat]]
      BY DEF CoverageInv, Typed, TypeOK, tables
    <2>3. ASSUME NEW d \in Connection
          PROVE  /\ tx'[d].lesson \in Lesson \union {NoLesson}
                 /\ tx'[d].successor \in Lesson \union {NoLesson}
                 /\ tx'[d].want \in Plan \union {Unfunded}
                 /\ tx'[d].locks \subseteq Sub
                 /\ tx'[d].held \subseteq Sub
                 /\ tx'[d].available \in Int /\ tx'[d].billed \in Nat
                 /\ tx'[d].made \in [Lesson -> [Sub -> Nat]]
                 /\ tx'[d].add \in [Lesson -> Nat]
                 /\ tx'[d].dropped \subseteq Lesson \X Sub
                 /\ tx'[d].rows \subseteq Lesson \X Sub
      BY <2>1, Fields
    <2> QED
      BY <1>1, <2>2, <2>3 DEF Typed, TypeOK
  <1>4. SubsExclusive'
    BY <1>2 DEF CoverageInv, SubsExclusive, Others
  <1>5. ASSUME NEW d \in Connection PROVE TxOK(tx[d])'
    <2>1. ASSUME NEW q \in TxType, TxOK(q) PROVE TxOK(q)'
      <3>1. \A x \in Lesson, s \in q.held :
               reserved'[x][s] <= reserved[x][s] /\ charged'[x][s] = charged[x][s]
        BY UnitsTyped, <2>1, Fields DEF CoverageInv, tables
      <3> QED
        BY <1>3, <2>1, <3>1, OtherKept DEF CoverageInv
    <2>2. TxOK(tx'[d])
      BY <1>2 DEF CoverageInv, Others
    <2> QED
      BY <1>1, <2>1, <2>2
  <1>6. NeverOverdrawn'
    BY DEF CoverageInv, NeverOverdrawn, tables
  <1> QED
    BY <1>3, <1>4, <1>5, <1>6 DEF CoverageInv

\* A transaction that has given no units of a subscription.
LEMMA Unburdened ==
    ASSUME Typed, NeverOverdrawn, NEW r \in TxType, NEW s \in Sub, NEW X,
           \A x \in Lesson : Pending(r, x, s) = 0 /\ (x \notin X => r.made[x][s] = 0),
           Billed(r, s) = 0
    PROVE  Fits(r, s, X)
  <1> DEFINE f == Load(r, s, X)
             h == [x \in Lesson |-> charged[x][s] + reserved[x][s]]
  <1>1. f \in [Lesson -> Int] /\ h \in [Lesson -> Int]
    BY LoadTyped, UnitsTyped
  <1>2. ASSUME NEW x \in Lesson PROVE f[x] <= h[x]
    <2>1. f[x] = charged[x][s] + (IF x \in X THEN 0 ELSE ViewOf(r, x, s)) + 0
      BY DEF Load
    <2>2. x \notin X => ViewOf(r, x, s) <= reserved[x][s]
      BY UnitsTyped DEF ViewOf
    <2>3. charged[x][s] \in Nat /\ reserved[x][s] \in Nat /\ ViewOf(r, x, s) \in Nat
      BY UnitsTyped
    <2>4. h[x] = charged[x][s] + reserved[x][s]
      OBVIOUS
    <2> HIDE DEF f, h
    <2> QED
      BY <2>1, <2>2, <2>3, <2>4
  <1>3. Sum(h, Lesson) <= Total[s]
    BY DEF NeverOverdrawn
  <1> HIDE DEF f, h
  <1>4. Sum(f, Lesson) <= Sum(h, Lesson) /\ Sum(f, Lesson) \in Int /\ Sum(h, Lesson) \in Int
    BY <1>1, <1>2, SumLeq, SumType
  <1> QED
    BY <1>3, <1>4, TotalTyped DEF Fits, f

LEMMA MinOfSubs ==
    ASSUME NEW S \in SUBSET Sub, S # {}
    PROVE  Min(S) \in S
  <1>1. \E x \in S : \A y \in S : x <= y
    BY LeastElement, CoverageAssumption
  <1> QED
    BY <1>1 DEF Min

-----------------------------------------------------------------------------
(* The commands begin.                                                     *)

LEMMA FreshOK ==
    ASSUME NEW r \in TxType,
           r.held = {}, r.made = NoUnits, r.billed = 0, r.add = Nothing, r.dropped = {},
           StageOK(r), ClaimsOK(r),
           r.at = "locking" \/ (r.at = "covering" /\ r.op = "create")
    PROVE  TxOK(r)
  <1>1. HeldOK(r)
    BY DEF HeldOK, NoUnits
  <1>2. ClearedOK(r)
    <2>1. r.op = "create" /\ r.tasks # << >> => Head(r.tasks).claim # "no"
      <3>1. r.tasks # << >> => 1 \in DOMAIN r.tasks /\ Head(r.tasks) = r.tasks[1]
        BY Fields
      <3> QED
        BY <3>1 DEF ClaimsOK
    <2> QED
      BY <2>1 DEF ClearedOK
  <1>3. MeasuredOK(r) /\ LoadOK(r)
    BY DEF MeasuredOK, LoadOK
  <1> QED
    BY <1>1, <1>2, <1>3 DEF TxOK

\* The redistributions of a set of subscriptions.
LEMMA TasksTyped ==
    ASSUME NEW S \in SUBSET Sub, NEW claim \in {"no", "may", "must"},
           NEW tasks \in Tasks(S, claim)
    PROVE  /\ tasks \in Seq(TaskSet)
           /\ \A i \in DOMAIN tasks : tasks[i].claim = claim
  <1>1. PICK order \in SetToSeqs(S) : tasks = [i \in DOMAIN order |-> Task(order[i], claim)]
    BY DEF Tasks
  <1>2. order \in [1..Cardinality(S) -> S]
    BY DEF SetToSeqs
  <1>3. Cardinality(S) \in Nat
    BY FS_Subset, FS_CardinalityType, CoverageAssumption
  <1>4. ASSUME NEW i \in 1..Cardinality(S)
        PROVE  Task(order[i], claim) \in TaskSet /\ Task(order[i], claim).claim = claim
    BY <1>2 DEF Task, TaskSet
  <1>5. DOMAIN order = 1..Cardinality(S)
    BY <1>2
  <1> HIDE DEF TaskSet
  <1>6. tasks = [i \in 1..Cardinality(S) |-> Task(order[i], claim)]
    BY <1>1, <1>5
  <1>7. tasks \in Seq(TaskSet)
    BY <1>3, <1>4, <1>6
  <1>8. \A i \in DOMAIN tasks : tasks[i].claim = claim
    BY <1>4, <1>6
  <1> QED
    BY <1>7, <1>8

LEMMA ClaimTyped ==
    ASSUME NEW want \in Plan \union {Unfunded}, NEW how \in {"no", "may", "must"}
    PROVE  /\ Claim(want, how) \in Seq(TaskSet)
           /\ \A i \in DOMAIN Claim(want, how) : Claim(want, how)[i].claim = how
  <1>1. CASE want = Unfunded
    BY <1>1 DEF Claim
  <1>2. CASE want # Unfunded
    <2>1. Task(want.sub, how) \in TaskSet /\ Task(want.sub, how).claim = how
      BY <1>2, WantTyped DEF Task, TaskSet
    <2>2. Claim(want, how) = <<Task(want.sub, how)>>
      BY <1>2 DEF Claim
    <2> HIDE DEF TaskSet
    <2> QED
      BY <2>1, <2>2
  <1> QED
    BY <1>1, <1>2

\* The first task.
LEMMA HeadTask ==
    ASSUME NEW tasks \in Seq(TaskSet), tasks # << >>
    PROVE  /\ 1 \in DOMAIN tasks /\ Head(tasks) = tasks[1] /\ Head(tasks) \in TaskSet
           /\ Head(tasks).sub \in Sub
  <1>1. 1 \in DOMAIN tasks /\ Head(tasks) = tasks[1] /\ Head(tasks) \in TaskSet
    OBVIOUS
  <1> QED
    BY <1>1 DEF TaskSet

LEMMA CoverageTyped ==
    ASSUME Typed, NEW x \in Lesson, NEW want \in Plan \union {Unfunded}
    PROVE  /\ Coverage(x, want) \subseteq Sub
           /\ want # Unfunded => want.sub \in Coverage(x, want)
  <1>1. booked[x] \in SUBSET Sub /\ snapshot[x] \in Sub \union {NoSub}
    BY DEF Typed, TypeOK
  <1>2. want # Unfunded => want.sub # NoSub
    BY WantTyped, CoverageAssumption
  <1> QED
    BY <1>1, <1>2, WantTyped DEF Coverage

\* A transaction that begins.
LEMMA CommandTyped ==
    ASSUME NEW op \in Ops, NEW x \in Lesson, NEW want \in Plan \union {Unfunded},
           NEW r, r = Command(op, x, want)
    PROVE  /\ r \in TxType
           /\ r.op = op /\ r.lesson = x /\ r.want = want
           /\ r.locks = {} /\ r.held = {} /\ r.tasks = << >> /\ r.made = NoUnits
           /\ r.dropped = {} /\ r.add = Nothing /\ r.billed = 0
  BY IdleTyped DEF Command, TxType

\* A transaction that starts with row locks to take.
LEMMA LockingStep ==
    ASSUME CoverageInv, NEW c \in Connection,
           NEW op \in {"edit", "settle", "reschedule", "complete"},
           NEW x \in Lesson, NEW y \in Lesson \union {NoLesson},
           NEW want \in Plan \union {Unfunded}, NEW locks \in SUBSET Sub,
           want # Unfunded => want.sub \in locks,
           commands' \in 0..MaxCommands,
           NEW command,
           \/ command = Command(op, x, want) /\ op # "reschedule"
           \/ command = [Command(op, x, want) EXCEPT !.successor = y] /\ y \in Lesson \ {x},
           Start(c, Locking(command, locks))
    PROVE  CoverageInv'
  <1> DEFINE r == Locking(command, locks)
  <1>1. /\ r \in TxType
        /\ r.op = op /\ r.at = "locking" /\ r.lesson = x
        /\ op = "reschedule" => r.successor \in Lesson \ {x}
        /\ r.want = want /\ r.locks = locks /\ r.held = {} /\ r.tasks = << >>
        /\ r.made = NoUnits /\ r.dropped = {} /\ r.add = Nothing /\ r.billed = 0
    <2> DEFINE q == Command(op, x, want)
    <2>1. /\ q \in TxType
          /\ q.op = op /\ q.lesson = x /\ q.want = want
          /\ q.held = {} /\ q.tasks = << >> /\ q.made = NoUnits
          /\ q.dropped = {} /\ q.add = Nothing /\ q.billed = 0
      BY CommandTyped DEF Ops
    <2> HIDE DEF q
    <2>2. /\ command \in TxType
          /\ command.op = op /\ command.lesson = x /\ command.want = want
          /\ op = "reschedule" => command.successor \in Lesson \ {x}
          /\ command.held = {} /\ command.tasks = << >> /\ command.made = NoUnits
          /\ command.dropped = {} /\ command.add = Nothing /\ command.billed = 0
      <3>1. CASE command = q /\ op # "reschedule"
        BY <2>1, <3>1
      <3>2. CASE command = [q EXCEPT !.successor = y] /\ y \in Lesson \ {x}
        BY <2>1, <3>2 DEF TxType
      <3> QED
        BY <3>1, <3>2 DEF q
    <2>3. r = [command EXCEPT !.at = "locking", !.locks = locks] /\ "locking" \in Stages
      BY DEF Locking, Stages
    <2> HIDE DEF r
    <2> QED
      BY <2>2, <2>3 DEF TxType
  <1>2. tx' = [tx EXCEPT ![c] = r] /\ UNCHANGED tables
    BY DEF Start
  <1> HIDE DEF r
  <1>3. StageOK(r) /\ ClaimsOK(r)
    BY <1>1 DEF StageOK, ClaimsOK
  <1>4. TxOK(r)
    BY <1>1, <1>3, FreshOK
  <1> QED
    BY <1>1, <1>2, <1>4, TxStep

LEMMA BeginStep ==
    ASSUME CoverageInv, NEW c \in Connection, Begin(c)
    PROVE  CoverageInv'
  <1>1. commands' \in 0..MaxCommands
    BY CoverageAssumption DEF Begin, Counted, CoverageInv, Typed, TypeOK
  <1>2. Typed
    BY DEF CoverageInv
  <1>3. ASSUME NEW x \in Lesson, BeginComplete(c, x) PROVE CoverageInv'
    <2>1. plan[x] \in Plan \union {Unfunded}
      BY <1>2 DEF Typed, TypeOK
    <2>2. /\ {plan[x].sub} \ {NoSub} \subseteq Sub
          /\ plan[x] # Unfunded => plan[x].sub \in {plan[x].sub} \ {NoSub}
      BY <2>1, WantTyped, CoverageAssumption
    <2>3. Start(c, Locking(Command("complete", x, plan[x]), {plan[x].sub} \ {NoSub}))
      BY <1>3 DEF BeginComplete
    <2> QED
      BY <1>1, <2>1, <2>2, <2>3, LockingStep
  <1>4. ASSUME NEW x \in Lesson, NEW want \in Plan,
               BeginEdit(c, x, want) \/ BeginSettle(c, x, want)
        PROVE  CoverageInv'
    <2>1. PICK op \in {"edit", "settle"} : Start(c, Locking(Command(op, x, want), Coverage(x, want)))
      BY <1>4 DEF BeginEdit, BeginSettle
    <2> QED
      BY <1>1, <1>2, <2>1, CoverageTyped, LockingStep
  <1>5. ASSUME NEW x \in Lesson, NEW want \in Plan, NEW y \in Lesson,
               BeginReschedule(c, x, y, want)
        PROVE  CoverageInv'
    <2>1. y \in Lesson \ {x}
      BY <1>5 DEF BeginReschedule
    <2> QED
      BY <1>1, <1>2, <1>5, <2>1, CoverageTyped, LockingStep DEF BeginReschedule
  <1>6. ASSUME NEW x \in Lesson, NEW want \in Plan, BeginCreate(c, x, want)
        PROVE  CoverageInv'
    <2>1. PICK how \in {"must", "may"} :
             Start(c, [Command("create", x, want) EXCEPT
                          !.at = "covering", !.tasks = Claim(want, how)])
      BY <1>6 DEF BeginCreate
    <2> DEFINE r == [Command("create", x, want) EXCEPT
                        !.at = "covering", !.tasks = Claim(want, how)]
    <2>2. Claim(want, how) \in Seq(TaskSet)
      BY ClaimTyped
    <2>3. /\ r \in TxType
          /\ r.op = "create" /\ r.at = "covering" /\ r.lesson = x /\ r.locks = {}
          /\ r.want = want /\ r.held = {} /\ r.tasks = Claim(want, how)
          /\ r.made = NoUnits /\ r.dropped = {} /\ r.add = Nothing /\ r.billed = 0
      <3> DEFINE q == Command("create", x, want)
      <3>1. /\ q \in TxType
            /\ q.op = "create" /\ q.lesson = x /\ q.want = want /\ q.locks = {}
            /\ q.held = {} /\ q.made = NoUnits
            /\ q.dropped = {} /\ q.add = Nothing /\ q.billed = 0
        BY CommandTyped DEF Ops
      <3>2. r = [q EXCEPT !.at = "covering", !.tasks = Claim(want, how)]
        OBVIOUS
      <3>3. "covering" \in Stages
        BY DEF Stages
      <3> HIDE DEF q, r
      <3> QED
        BY <2>2, <3>1, <3>2, <3>3 DEF TxType
    <2>4. tx' = [tx EXCEPT ![c] = r] /\ UNCHANGED tables
      BY <2>1 DEF Start
    <2> HIDE DEF r
    <2>5. StageOK(r) /\ ClaimsOK(r)
      <3>1. \A i \in DOMAIN r.tasks : r.tasks[i].claim \in {"must", "may"}
        BY <2>3, ClaimTyped
      <3> QED
        BY <2>3, <3>1 DEF StageOK, ClaimsOK
    <2>6. TxOK(r)
      BY <2>3, <2>5, FreshOK
    <2> QED
      BY <1>1, <2>3, <2>4, <2>6, TxStep
  <1> QED
    BY <1>3, <1>4, <1>5, <1>6 DEF Begin

-----------------------------------------------------------------------------
(* Row locks, the measurement, closing.                                    *)

\* The transaction of a connection.
LEMMA TxFacts ==
    ASSUME CoverageInv, NEW c \in Connection
    PROVE  /\ tx[c] \in TxType /\ TxOK(tx[c]) /\ Typed
           /\ \A r : tx' = [tx EXCEPT ![c] = r] => tx'[c] = r
           /\ \A d \in Others(c) : tx[c].held \intersect tx[d].held = {}
  BY DEF CoverageInv, Typed, SubsExclusive, Others

LEMMA CommandsStay ==
    ASSUME CoverageInv, UNCHANGED commands
    PROVE  commands' \in 0..MaxCommands
  BY DEF CoverageInv, Typed, TypeOK

LEMMA LockCoverageStep ==
    ASSUME CoverageInv, NEW c \in Connection, LockCoverage(c)
    PROVE  CoverageInv'
  <1> DEFINE q == tx[c]
             s == Min(q.locks)
             r == [q EXCEPT !.held = q.held \union {s}, !.locks = q.locks \ {s}]
  <1>1. q \in TxType /\ TxOK(q) /\ \A d \in Others(c) : q.held \intersect tx[d].held = {}
    BY TxFacts
  <1>2. q.locks # {} /\ SubFree(c, s) /\ UNCHANGED <<tables, commands>>
    BY DEF LockCoverage, Proceed, Start
  <1>3. tx' = [tx EXCEPT ![c] = r]
    BY DEF LockCoverage, Proceed, Start
  <1>4. s \in q.locks /\ s \in Sub
    BY <1>1, <1>2, Fields, MinOfSubs
  <1> HIDE DEF q, s
  <1>5. /\ r \in TxType
        /\ r.held = q.held \union {s} /\ r.locks = q.locks \ {s}
        /\ r.at = q.at /\ r.op = q.op /\ r.lesson = q.lesson /\ r.successor = q.successor
        /\ r.want = q.want /\ r.tasks = q.tasks /\ r.made = q.made
        /\ r.dropped = q.dropped /\ r.add = q.add /\ r.billed = q.billed
    BY <1>1, <1>4, Fields DEF TxType
  <1> HIDE DEF r
  <1>6. q.at = "locking"
    BY <1>1, <1>2 DEF TxOK, StageOK
  <1>7. StageOK(r)
    BY <1>1, <1>4, <1>5, <1>6 DEF TxOK, StageOK
  <1>8. /\ r.tasks = << >> /\ r.add = Nothing /\ r.billed = 0
        /\ \A x \in Lesson, z \in Sub : ~ (r.made[x][z] > 0)
    BY <1>1, <1>5, <1>6 DEF TxOK, StageOK, NoUnits
  <1>9. HeldOK(r) /\ ClaimsOK(r) /\ ClearedOK(r) /\ MeasuredOK(r) /\ LoadOK(r)
    BY <1>5, <1>6, <1>8 DEF HeldOK, ClaimsOK, ClearedOK, MeasuredOK, LoadOK
  <1>10. TxOK(r)
    BY <1>7, <1>9 DEF TxOK
  <1>11. \A d \in Others(c) : r.held \intersect tx[d].held = {}
    BY <1>1, <1>2, <1>5 DEF SubFree
  <1> QED
    BY <1>2, <1>3, <1>5, <1>10, <1>11, TxStep, CommandsStay

LEMMA MeasureStep ==
    ASSUME CoverageInv, NEW c \in Connection, Measure(c)
    PROVE  CoverageInv'
  <1> DEFINE q == tx[c]
             s == q.want.sub
             free == Total[s] - Sum(Committed(s, q.lesson), Lesson)
             r == [q EXCEPT !.available = free, !.at = "measured"]
  <1>1. q \in TxType /\ TxOK(q) /\ \A d \in Others(c) : q.held \intersect tx[d].held = {}
    BY TxFacts
  <1>2. /\ q.at = "locking" /\ q.locks = {} /\ q.op \in {"settle", "complete"}
        /\ q.want # Unfunded /\ UNCHANGED <<tables, commands>>
    BY DEF Measure, Locked, Proceed, Start
  <1>3. tx' = [tx EXCEPT ![c] = r]
    BY DEF Measure, Committed, Proceed, Start
  <1>4. s \in Sub /\ Sum(Committed(s, q.lesson), Lesson) \in Int /\ free \in Int
    <2>1. s \in Sub
      BY <1>1, <1>2, Fields, WantTyped
    <2>2. Sum(Committed(s, q.lesson), Lesson) \in Int
      BY <2>1, CommittedTyped, SumType DEF CoverageInv
    <2> QED
      BY <2>1, <2>2, TotalTyped
  <1> HIDE DEF q, free
  <1>5. /\ r \in TxType
        /\ r.available = free /\ r.at = "measured"
        /\ r.held = q.held /\ r.locks = q.locks
        /\ r.op = q.op /\ r.lesson = q.lesson /\ r.successor = q.successor
        /\ r.want = q.want /\ r.tasks = q.tasks /\ r.made = q.made
        /\ r.dropped = q.dropped /\ r.add = q.add /\ r.billed = q.billed
    <2>1. "measured" \in Stages
      BY DEF Stages
    <2> QED
      BY <1>1, <1>4, <2>1 DEF TxType
  <1> HIDE DEF r
  <1>6. StageOK(r)
    BY <1>1, <1>2, <1>5 DEF TxOK, StageOK
  <1>7. /\ r.tasks = << >> /\ r.add = Nothing /\ r.billed = 0
        /\ \A x \in Lesson, z \in Sub : ~ (r.made[x][z] > 0)
    BY <1>1, <1>2, <1>5 DEF TxOK, StageOK, NoUnits
  <1>8. HeldOK(r) /\ ClaimsOK(r) /\ ClearedOK(r) /\ LoadOK(r)
    BY <1>5, <1>7 DEF HeldOK, ClaimsOK, ClearedOK, LoadOK
  <1>9. MeasuredOK(r)
    BY <1>4, <1>5, TotalTyped DEF MeasuredOK, free
  <1>10. TxOK(r)
    BY <1>6, <1>8, <1>9 DEF TxOK
  <1> QED
    BY <1>1, <1>2, <1>3, <1>5, <1>10, TxStep, CommandsStay

\* Closing, when the units charged fit.
LEMMA CloseStep ==
    ASSUME CoverageInv, NEW c \in Connection, NEW subs \in SUBSET Sub, Close(c, subs),
           tx[c].at \in {"locking", "measured"}, tx[c].locks = {},
           tx[c].op \in {"settle", "complete"},
           tx[c].want # Unfunded =>
              tx[c].want.units + Sum(Committed(tx[c].want.sub, tx[c].lesson), Lesson)
                 <= Total[tx[c].want.sub]
    PROVE  CoverageInv'
  <1> DEFINE q == tx[c]
             w == q.want
  <1>1. q \in TxType /\ TxOK(q) /\ \A d \in Others(c) : q.held \intersect tx[d].held = {}
    BY TxFacts
  <1>2. PICK tasks \in Tasks(subs, "no") :
           Proceed(c, [tx[c] EXCEPT !.at = "covering",
                                    !.held = @ \union ({tx[c].want.sub} \ {NoSub}),
                                    !.available = 0,
                                    !.billed = tx[c].want.units,
                                    !.dropped = AllOf(tx[c].lesson),
                                    !.tasks = tasks])
    BY DEF Close
  <1> DEFINE r == [q EXCEPT !.at = "covering",
                            !.held = @ \union ({w.sub} \ {NoSub}),
                            !.available = 0,
                            !.billed = w.units,
                            !.dropped = AllOf(q.lesson),
                            !.tasks = tasks]
  <1>3. q.held \union ({w.sub} \ {NoSub}) = q.held
    <2>1. w # Unfunded => w.sub \in q.held
      BY <1>1 DEF TxOK, StageOK
    <2>2. w = Unfunded => w.sub = NoSub
      BY DEF Unfunded
    <2> HIDE DEF q, w
    <2> QED
      BY <2>1, <2>2
  <1>4. tasks \in Seq(TaskSet) /\ \A i \in DOMAIN tasks : tasks[i].claim = "no"
    BY TasksTyped
  <1>5. /\ q.at \in {"locking", "measured"} /\ q.locks = {} /\ q.op \in {"settle", "complete"}
        /\ q.lesson \in Lesson /\ q.made = NoUnits /\ q.add = Nothing
    BY <1>1 DEF TxOK, StageOK
  <1>6. tx' = [tx EXCEPT ![c] = r] /\ UNCHANGED <<tables, commands>>
    BY <1>2 DEF Proceed, Start
  <1> HIDE DEF q
  <1>7. /\ r \in TxType
        /\ r.at = "covering" /\ r.held = q.held /\ r.locks = {}
        /\ r.op = q.op /\ r.lesson = q.lesson
        /\ r.want = q.want /\ r.tasks = tasks /\ r.made = NoUnits
        /\ r.dropped = AllOf(q.lesson) /\ r.add = Nothing /\ r.billed = q.want.units
    <2>1. "covering" \in Stages /\ AllOf(q.lesson) \in SUBSET (Lesson \X Sub)
      BY <1>5 DEF Stages, AllOf
    <2>2. w.units \in Nat
      BY <1>1, Fields, WantTyped
    <2> HIDE DEF w
    <2>3. r \in TxType
      <3> DEFINE h == q.held \union ({w.sub} \ {NoSub})
      <3>1. h \in SUBSET Sub
        BY <1>1, <1>3, Fields
      <3> HIDE DEF h
      <3>2. PICK p1 : p1 = [q EXCEPT !.at = "covering", !.held = h]
        OBVIOUS
      <3> PICK zero \in Int, u \in Nat : zero = 0 /\ u = w.units
        BY <2>2
      <3>3. PICK p2 : p2 = [p1 EXCEPT !.available = zero, !.billed = u]
        OBVIOUS
      <3>4. PICK p3 : p3 = [p2 EXCEPT !.dropped = AllOf(q.lesson), !.tasks = tasks]
        OBVIOUS
      <3>5. p1 \in TxType
        BY <1>1, <2>1, <3>1, <3>2, WithStage
      <3>6. p2 \in TxType
        BY <3>3, <3>5, WithBill
      <3>7. p3 \in TxType
        BY <1>4, <2>1, <3>4, <3>6, WithWork
      <3>8. r = p3
        BY <3>2, <3>3, <3>4 DEF h
      <3> QED
        BY <3>7, <3>8
    <2>5. /\ r.at = "covering" /\ r.held = q.held /\ r.locks = {}
          /\ r.op = q.op /\ r.lesson = q.lesson
          /\ r.want = q.want /\ r.tasks = tasks /\ r.made = NoUnits
          /\ r.dropped = AllOf(q.lesson) /\ r.add = Nothing /\ r.billed = w.units
      BY <1>1, <1>3, <1>5 DEF TxType
    <2> QED
      BY <2>3, <2>5 DEF w
  <1> HIDE DEF r, w
  <1>8. StageOK(r)
    BY <1>5, <1>7 DEF StageOK
  <1>9. \A x \in Lesson, z \in Sub : r.made[x][z] = 0 /\ Pending(r, x, z) = 0
    BY <1>7 DEF NoUnits, Nothing, Pending
  <1>10. HeldOK(r)
    <2>1. q.want # Unfunded => q.want.sub \in q.held
      BY <1>1, <1>5 DEF TxOK, StageOK
    <2>2. r.billed > 0 => r.want # Unfunded /\ r.want.sub \in r.held
      BY <1>7, <2>1 DEF Unfunded
    <2>3. \A x \in Lesson, z \in Sub : ~ (r.made[x][z] > 0)
      BY <1>9
    <2> QED
      BY <1>7, <2>2, <2>3 DEF HeldOK
  <1>11. ClaimsOK(r)
    BY <1>4, <1>5, <1>7 DEF ClaimsOK
  <1>12. ClearedOK(r)
    BY <1>5, <1>7, <1>9 DEF ClearedOK, Nothing
  <1>13. LoadOK(r)
    <2> SUFFICES ASSUME NEW s \in r.held PROVE Fits(r, s, {})
      BY DEF LoadOK
    <2>1. s \in Sub
      BY <1>7, Fields
    <2>2. CASE r.billed > 0 /\ r.want.sub = s
      <3>1. Billed(r, s) = q.want.units
        BY <1>7, <2>2 DEF Billed
      <3>2. Load(r, s, {}) = Committed(s, q.lesson)
        <4>1. ASSUME NEW x \in Lesson
              PROVE  charged[x][s] + ViewOf(r, x, s) + Pending(r, x, s)
                       = charged[x][s] + IF x = q.lesson THEN 0 ELSE reserved[x][s]
          <5>1. <<x, s>> \in r.dropped <=> x = q.lesson
            BY <1>7, <2>1 DEF AllOf
          <5>2. ViewOf(r, x, s) = IF x = q.lesson THEN 0 ELSE reserved[x][s]
            BY <1>9, <2>1, <5>1 DEF ViewOf
          <5>3. charged[x][s] \in Nat /\ reserved[x][s] \in Nat
            BY <2>1, UnitsTyped, TxFacts, <1>7
          <5> QED
            BY <1>9, <2>1, <5>2, <5>3
        <4> QED
          BY <4>1 DEF Load, Committed
      <3>3. q.want.units + Sum(Committed(s, q.lesson), Lesson) <= Total[s]
        BY <1>7, <2>2 DEF q, Unfunded
      <3>4. q.want.units \in Int /\ Sum(Committed(s, q.lesson), Lesson) \in Int
        <4>1. q.want.units \in Int
          BY <1>1, Fields, WantTyped
        <4>2. Committed(s, q.lesson) \in [Lesson -> Int]
          BY <2>1, CommittedTyped, TxFacts
        <4> QED
          BY <4>1, <4>2, SumType
      <3> QED
        BY <2>1, <3>1, <3>2, <3>3, <3>4, TotalTyped DEF Fits
    <2>3. CASE ~ (r.billed > 0 /\ r.want.sub = s)
      <3>1. Billed(r, s) = 0
        BY <1>7, <2>3, Fields DEF Billed
      <3> QED
        BY <1>7, <1>9, <2>1, <3>1, Unburdened DEF CoverageInv
    <2> QED
      BY <2>2, <2>3
  <1>14. TxOK(r)
    BY <1>7, <1>8, <1>10, <1>11, <1>12, <1>13 DEF TxOK, MeasuredOK
  <1> QED
    BY <1>1, <1>6, <1>7, <1>14, TxStep, CommandsStay

LEMMA ReservedOnTyped ==
    ASSUME NEW c, NEW x
    PROVE  ReservedOn(c, x) \in SUBSET Sub
  BY DEF ReservedOn

LEMMA BillStep ==
    ASSUME CoverageInv, NEW c \in Connection, Bill(c)
    PROVE  CoverageInv'
  <1>1. tx[c] \in TxType /\ TxOK(tx[c]) /\ Typed
    BY TxFacts
  <1>2. /\ tx[c].at = "measured" /\ tx[c].locks = {} /\ tx[c].want # Unfunded
        /\ tx[c].op \in {"settle", "complete"} /\ tx[c].want.sub \in Sub
    BY <1>1, Fields, WantTyped DEF Bill, TxOK, StageOK
  <1>3. tx[c].want.units + Sum(Committed(tx[c].want.sub, tx[c].lesson), Lesson)
          <= Total[tx[c].want.sub]
    <2> DEFINE q == tx[c]
               sum == Sum(Committed(q.want.sub, q.lesson), Lesson)
    <2>1. q.available + sum <= Total[q.want.sub] /\ q.available >= q.want.units
      BY <1>1, <1>2 DEF TxOK, MeasuredOK, Bill
    <2>2. /\ q.available \in Int /\ sum \in Int /\ q.want.units \in Int
          /\ Total[q.want.sub] \in Int
      <3>1. Committed(q.want.sub, q.lesson) \in [Lesson -> Int]
        BY <1>1, <1>2, CommittedTyped
      <3>2. sum \in Int
        BY <3>1, SumType
      <3>3. q.available \in Int /\ q.want.units \in Int
        BY <1>1, Fields, WantTyped
      <3>4. Total[q.want.sub] \in Int
        BY <1>2, TotalTyped
      <3> QED
        BY <3>2, <3>3, <3>4
    <2> HIDE DEF q, sum
    <2>3. q.want.units + sum <= Total[q.want.sub]
      BY <2>1, <2>2
    <2> QED
      BY <2>3 DEF q, sum
  <1>4. Close(c, ReservedOn(c, tx[c].lesson) \union {tx[c].want.sub})
    BY DEF Bill
  <1>5. ReservedOn(c, tx[c].lesson) \union {tx[c].want.sub} \in SUBSET Sub
    BY <1>2, ReservedOnTyped
  <1> QED
    BY <1>2, <1>3, <1>4, <1>5, CloseStep

LEMMA CloseFreeStep ==
    ASSUME CoverageInv, NEW c \in Connection, CloseFree(c)
    PROVE  CoverageInv'
  BY CloseStep, ReservedOnTyped DEF CloseFree, Locked

-----------------------------------------------------------------------------
(* Changing a plan, moving a lesson.                                       *)

LEMMA NoTasks ==
    ASSUME NEW claim, NEW tasks \in Tasks({}, claim)
    PROVE  tasks = << >>
  <1>1. PICK order \in SetToSeqs({}) : tasks = [i \in DOMAIN order |-> Task(order[i], claim)]
    BY DEF Tasks
  <1>2. order \in [1..0 -> {}]
    BY FS_EmptySet DEF SetToSeqs
  <1>3. DOMAIN order = {}
    BY <1>2
  <1> QED
    BY <1>1, <1>3

\* The claims of two sequences in a row.
LEMMA Joined ==
    ASSUME NEW a \in Seq(TaskSet), NEW b \in Seq(TaskSet)
    PROVE  /\ a \o b \in Seq(TaskSet)
           /\ \A i \in DOMAIN (a \o b) :
                 \/ i \in DOMAIN a /\ (a \o b)[i] = a[i]
                 \/ i - Len(a) \in DOMAIN b /\ (a \o b)[i] = b[i - Len(a)]
           /\ \A i \in DOMAIN a : i \in DOMAIN (a \o b) /\ (a \o b)[i] = a[i]
           /\ \A i \in DOMAIN b : i + Len(a) \in DOMAIN (a \o b) /\ (a \o b)[i + Len(a)] = b[i]
  <1> HIDE DEF TaskSet
  <1> QED
    OBVIOUS

LEMMA ChangePlanStep ==
    ASSUME CoverageInv, NEW c \in Connection, ChangePlan(c)
    PROVE  CoverageInv'
  <1> DEFINE q == tx[c]
             release == q.want # plan[q.lesson]
             subs == IF release THEN ReservedOn(c, q.lesson) ELSE {}
             cleared == IF release THEN AllOf(q.lesson) ELSE {}
  <1>1. q \in TxType /\ TxOK(q) /\ \A d \in Others(c) : q.held \intersect tx[d].held = {}
    BY TxFacts
  <1>2. q.at = "locking" /\ q.locks = {} /\ q.op = "edit"
    BY DEF ChangePlan, Locked
  <1>3. PICK freed \in Tasks(subs, "no") :
           Proceed(c, [q EXCEPT !.at = "covering", !.dropped = cleared,
                                !.tasks = freed \o Claim(q.want, "may")])
    BY DEF ChangePlan
  <1> DEFINE claim == Claim(q.want, "may")
             r == [q EXCEPT !.at = "covering", !.dropped = cleared, !.tasks = freed \o claim]
  <1>4. tx' = [tx EXCEPT ![c] = r] /\ UNCHANGED <<tables, commands>>
    BY <1>3 DEF Proceed, Start
  <1>5. /\ freed \in Seq(TaskSet) /\ claim \in Seq(TaskSet)
        /\ \A i \in DOMAIN freed : freed[i].claim = "no"
        /\ \A i \in DOMAIN claim : claim[i].claim = "may"
    <2>1. subs \in SUBSET Sub
      BY ReservedOnTyped
    <2>2. q.want \in Plan \union {Unfunded}
      BY <1>1, Fields
    <2> HIDE DEF subs, q
    <2> QED
      BY <2>1, <2>2, TasksTyped, ClaimTyped
  <1>6. freed # << >> => cleared = AllOf(q.lesson)
    BY NoTasks
  <1>7. /\ q.lesson \in Lesson /\ q.made = NoUnits /\ q.add = Nothing /\ q.billed = 0
    BY <1>1, <1>2 DEF TxOK, StageOK
  <1>8. cleared \in SUBSET (Lesson \X Sub)
    BY <1>7 DEF AllOf
  <1> HIDE DEF q, release, subs, cleared, claim
  <1>9. freed \o claim \in Seq(TaskSet)
    BY <1>5, Joined
  <1>10. /\ r \in TxType
         /\ r.at = "covering" /\ r.op = "edit" /\ r.lesson = q.lesson /\ r.locks = {}
         /\ r.held = q.held /\ r.want = q.want /\ r.made = NoUnits /\ r.add = Nothing
         /\ r.billed = 0 /\ r.dropped = cleared /\ r.tasks = freed \o claim
    <2>1. PICK p1 : p1 = [q EXCEPT !.at = "covering", !.held = q.held]
      OBVIOUS
    <2>2. PICK p2 : p2 = [p1 EXCEPT !.dropped = cleared, !.tasks = freed \o claim]
      OBVIOUS
    <2>3. p1 \in TxType
      BY <1>1, <2>1, Fields, WithStage DEF Stages
    <2>4. p2 \in TxType
      BY <1>8, <1>9, <2>2, <2>3, WithWork
    <2>5. r.held = q.held
      BY <1>1 DEF TxType
    <2>6. r = p2
      BY <1>1, <2>1, <2>2 DEF TxType
    <2>7. r \in TxType
      BY <2>4, <2>6
    <2> QED
      BY <1>1, <1>2, <1>7, <2>7 DEF TxType
  <1> HIDE DEF r
  <1>11. StageOK(r)
    BY <1>7, <1>10 DEF StageOK
  <1>12. \A x \in Lesson, z \in Sub : r.made[x][z] = 0 /\ Pending(r, x, z) = 0
    BY <1>10 DEF NoUnits, Nothing, Pending
  <1>13. HeldOK(r)
    BY <1>10, <1>12 DEF HeldOK
  <1>14. ClaimsOK(r)
    <2> SUFFICES ASSUME NEW i \in DOMAIN (freed \o claim), NEW j \in DOMAIN (freed \o claim),
                        i < j, (freed \o claim)[j].claim = "no"
                 PROVE  (freed \o claim)[i].claim = "no"
      BY <1>10 DEF ClaimsOK
    <2>1. j \in DOMAIN freed
      BY <1>5, Joined
    <2>2. i \in DOMAIN freed
      <3> HIDE DEF TaskSet
      <3>1. i \in Nat \ {0} /\ j \in 1..Len(freed)
        BY <1>5, <1>9, <2>1
      <3>2. i \in 1..Len(freed)
        BY <1>5, <3>1
      <3> QED
        BY <1>5, <3>2
    <2> QED
      BY <1>5, <2>2, Joined
  <1>15. ClearedOK(r)
    <2>1. ASSUME r.tasks # << >>, Head(r.tasks).claim = "no" PROVE r.dropped = AllOf(r.lesson)
      <3>1. 1 \in DOMAIN (freed \o claim) /\ (freed \o claim)[1].claim = "no"
        BY <1>9, <1>10, <2>1, HeadTask
      <3>2. 1 \in DOMAIN freed
        BY <1>5, <3>1, Joined
      <3>3. freed # << >>
        BY <3>2
      <3> QED
        BY <1>6, <1>10, <3>3
    <2>2. /\ r.add[r.lesson] = 0
          /\ \A s \in Sub : r.made[r.lesson][s] = 0
      BY <1>7, <1>10, <1>12 DEF Nothing
    <2> QED
      BY <1>10, <2>1, <2>2 DEF ClearedOK
  <1>16. LoadOK(r)
    <2> SUFFICES ASSUME NEW s \in r.held PROVE Fits(r, s, {})
      BY DEF LoadOK
    <2>1. s \in Sub
      BY <1>10, Fields
    <2>2. Billed(r, s) = 0
      BY <1>10 DEF Billed
    <2> QED
      BY <1>10, <1>12, <2>1, <2>2, Unburdened DEF CoverageInv
  <1>17. TxOK(r)
    BY <1>10, <1>11, <1>13, <1>14, <1>15, <1>16 DEF TxOK, MeasuredOK
  <1>18. \A d \in Others(c) : r.held \intersect tx[d].held = {}
    BY <1>1, <1>10
  <1> QED
    BY <1>4, <1>10, <1>17, <1>18, TxStep, CommandsStay

LEMMA TransferStep ==
    ASSUME CoverageInv, NEW c \in Connection, Transfer(c)
    PROVE  CoverageInv'
  <1> DEFINE q == tx[c]
             w == q.want
             y == q.successor
             transfer == w # Unfunded /\ View(c, q.lesson, w.sub) > 0
             made == IF transfer THEN [q.made EXCEPT ![y][w.sub] = w.units] ELSE q.made
             rows == IF transfer THEN {<<y, w.sub>>} ELSE {}
             first == IF transfer THEN << >> ELSE Claim(w, "must")
             last == Claim(w, "may")
             cleared == AllOf(q.lesson)
  <1>1. q \in TxType /\ TxOK(q) /\ \A d \in Others(c) : q.held \intersect tx[d].held = {}
    BY TxFacts
  <1>2. q.at = "locking" /\ q.locks = {} /\ q.op = "reschedule"
    BY DEF Transfer, Locked
  <1>3. PICK rest \in Tasks(ReservedOn(c, q.lesson) \ {w.sub}, "may") :
           Proceed(c, [q EXCEPT !.at = "covering", !.made = made, !.rows = rows,
                                !.dropped = cleared, !.tasks = first \o rest \o last])
    BY DEF Transfer
  <1> DEFINE tasks == first \o rest \o last
             r == [q EXCEPT !.at = "covering", !.made = made, !.rows = rows,
                            !.dropped = cleared, !.tasks = tasks]
  <1>4. tx' = [tx EXCEPT ![c] = r] /\ UNCHANGED <<tables, commands>>
    BY <1>3 DEF Proceed, Start
  <1>5. /\ q.lesson \in Lesson /\ y \in Lesson \ {q.lesson}
        /\ q.made = NoUnits /\ q.add = Nothing /\ q.billed = 0
        /\ w \in Plan \union {Unfunded} /\ w.units \in Nat
        /\ w # Unfunded => w.sub \in q.held /\ w.sub \in Sub
    <2>1. /\ q.lesson \in Lesson /\ y \in Lesson \ {q.lesson}
          /\ q.made = NoUnits /\ q.add = Nothing /\ q.billed = 0
          /\ w # Unfunded => w.sub \in q.held
      BY <1>1, <1>2 DEF TxOK, StageOK
    <2>2. w \in Plan \union {Unfunded}
      BY <1>1, Fields
    <2> HIDE DEF q, w, y
    <2> QED
      BY <2>1, <2>2, WantTyped
  <1>6. /\ first \in Seq(TaskSet) /\ rest \in Seq(TaskSet) /\ last \in Seq(TaskSet)
        /\ \A i \in DOMAIN first : first[i].claim # "no"
        /\ \A i \in DOMAIN rest : rest[i].claim # "no"
        /\ \A i \in DOMAIN last : last[i].claim # "no"
    <2>1. ReservedOn(c, q.lesson) \ {w.sub} \in SUBSET Sub
      BY ReservedOnTyped
    <2>2. rest \in Seq(TaskSet) /\ \A i \in DOMAIN rest : rest[i].claim = "may"
      <3> HIDE DEF q, w
      <3> QED
        BY <2>1, TasksTyped
    <2>3. last \in Seq(TaskSet) /\ \A i \in DOMAIN last : last[i].claim = "may"
      <3> HIDE DEF w
      <3> QED
        BY <1>5, ClaimTyped
    <2>4. first \in Seq(TaskSet) /\ \A i \in DOMAIN first : first[i].claim = "must"
      <3>1. CASE transfer
        BY <3>1
      <3>2. CASE ~transfer
        <4> HIDE DEF w, transfer
        <4> QED
          BY <1>5, <3>2, ClaimTyped
      <3> QED
        BY <3>1, <3>2
    <2> HIDE DEF first, last
    <2> QED
      BY <2>2, <2>3, <2>4
  <1>7. w # Unfunded => last = <<Task(w.sub, "may")>>
    BY DEF Claim
  <1>8. made \in [Lesson -> [Sub -> Nat]] /\ rows \in SUBSET (Lesson \X Sub)
    <2>1. q.made \in [Lesson -> [Sub -> Nat]]
      BY <1>1, Fields
    <2> HIDE DEF q, w, y
    <2> QED
      BY <1>5, <2>1
  <1>9. \A x \in Lesson, s \in Sub :
           /\ x # y => made[x][s] = 0
           /\ s # w.sub => made[x][s] = 0
           /\ made[x][s] > 0 => w # Unfunded /\ s \in q.held
    <2>1. \A x \in Lesson, s \in Sub : q.made[x][s] = 0
      BY <1>5 DEF NoUnits
    <2>2. q.made \in [Lesson -> [Sub -> Nat]]
      BY <1>1, Fields
    <2> HIDE DEF q, w, y
    <2> QED
      BY <1>5, <2>1, <2>2
  <1>10. cleared \in SUBSET (Lesson \X Sub)
    BY <1>5 DEF AllOf
  <1> HIDE DEF q, w, y, transfer, made, rows, first, last, cleared
  <1>11. /\ tasks \in Seq(TaskSet)
         /\ \A i \in DOMAIN tasks : tasks[i].claim # "no"
         /\ w # Unfunded => \E i \in DOMAIN tasks : tasks[i].sub = w.sub
    <2>1. /\ first \o rest \in Seq(TaskSet)
          /\ \A i \in DOMAIN (first \o rest) : (first \o rest)[i].claim # "no"
      BY <1>6, Joined
    <2>2. tasks \in Seq(TaskSet) /\ \A i \in DOMAIN tasks : tasks[i].claim # "no"
      BY <1>6, <2>1, Joined
    <2>3. ASSUME w # Unfunded PROVE \E i \in DOMAIN tasks : tasks[i].sub = w.sub
      <3>1. 1 \in DOMAIN last /\ last[1].sub = w.sub
        BY <1>7, <2>3 DEF Task
      <3>2. /\ 1 + Len(first \o rest) \in DOMAIN tasks
            /\ tasks[1 + Len(first \o rest)] = last[1]
        BY <1>6, <2>1, <3>1, Joined
      <3> QED
        BY <3>1, <3>2
    <2> QED
      BY <2>2, <2>3
  <1> HIDE DEF tasks
  <1>12. /\ r \in TxType
         /\ r.at = "covering" /\ r.op = "reschedule" /\ r.lesson = q.lesson /\ r.successor = y
         /\ r.locks = {} /\ r.held = q.held /\ r.want = w /\ r.made = made /\ r.add = Nothing
         /\ r.billed = 0 /\ r.dropped = cleared /\ r.tasks = tasks
    <2>1. PICK p1 : p1 = [q EXCEPT !.at = "covering", !.held = q.held]
      OBVIOUS
    <2>2. PICK p2 : p2 = [p1 EXCEPT !.dropped = cleared, !.tasks = tasks]
      OBVIOUS
    <2>3. PICK p3 : p3 = [p2 EXCEPT !.made = made, !.add = q.add]
      OBVIOUS
    <2>4. PICK p4 : p4 = [p3 EXCEPT !.rows = rows]
      OBVIOUS
    <2>5. p1 \in TxType
      BY <1>1, <2>1, Fields, WithStage DEF Stages
    <2>6. p2 \in TxType
      BY <1>10, <1>11, <2>2, <2>5, WithWork
    <2>7. p3 \in TxType
      BY <1>1, <1>8, <2>3, <2>6, Fields, WithUnits
    <2>8. p4 \in TxType
      BY <1>8, <2>4, <2>7, WithRows
    <2>9. r = p4
      BY <1>1, <2>1, <2>2, <2>3, <2>4 DEF TxType
    <2>10. r \in TxType
      BY <2>8, <2>9
    <2>11. q.want = w /\ q.successor = y
      BY DEF w, y
    <2> QED
      BY <1>1, <1>2, <1>5, <2>10, <2>11 DEF TxType
  <1> HIDE DEF r
  <1>13. StageOK(r)
    BY <1>5, <1>12 DEF StageOK
  <1>14. \A x \in Lesson, s \in Sub : Pending(r, x, s) = 0
    BY <1>12 DEF Nothing, Pending
  <1>15. HeldOK(r)
    BY <1>9, <1>12 DEF HeldOK
  <1>16. ClaimsOK(r)
    BY <1>11, <1>12 DEF ClaimsOK
  <1>17. ClearedOK(r)
    <2>1. /\ r.add[r.lesson] = 0
          /\ \A s \in Sub : r.made[r.lesson][s] = 0
      BY <1>5, <1>9, <1>12 DEF Nothing
    <2> QED
      BY <1>12, <2>1 DEF ClearedOK, cleared
  <1>18. LoadOK(r)
    <2> SUFFICES ASSUME NEW s \in r.held
                 PROVE  Fits(r, s, {}) \/ (Awaits(r, s) /\ Fits(r, s, {r.successor}))
      BY DEF LoadOK
    <2>1. s \in Sub /\ Billed(r, s) = 0
      BY <1>12, Fields DEF Billed
    <2>2. CASE s # w.sub
      <3>1. \A x \in Lesson : r.made[x][s] = 0
        BY <1>9, <1>12, <2>1, <2>2
      <3>2. Fits(r, s, {})
        BY <1>12, <1>14, <2>1, <3>1, Unburdened DEF CoverageInv
      <3> QED
        BY <3>2
    <2>3. CASE s = w.sub
      <3>1. w # Unfunded
        BY <2>1, <2>3, CoverageAssumption DEF Unfunded
      <3>2. Awaits(r, s)
        BY <1>11, <1>12, <2>3, <3>1 DEF Awaits
      <3>3. \A x \in Lesson : x \notin {r.successor} => r.made[x][s] = 0
        BY <1>9, <1>12, <2>1
      <3>4. Fits(r, s, {r.successor})
        BY <1>12, <1>14, <2>1, <3>3, Unburdened DEF CoverageInv
      <3> QED
        BY <3>2, <3>4
    <2> QED
      BY <2>2, <2>3
  <1>19. TxOK(r)
    BY <1>12, <1>13, <1>15, <1>16, <1>17, <1>18 DEF TxOK, MeasuredOK
  <1>20. \A d \in Others(c) : r.held \intersect tx[d].held = {}
    BY <1>1, <1>12
  <1> QED
    BY <1>4, <1>12, <1>19, <1>20, TxStep, CommandsStay

-----------------------------------------------------------------------------
(* Redistributions.                                                        *)

\* After a redistribution, or one of its inserts.
LEMMA Advance ==
    ASSUME NEW q \in TxType, NEW r \in TxType, q.tasks # << >>, ClaimsOK(q),
           r.op = q.op, r.want = q.want,
           r.tasks = IF r.add = Nothing THEN Tail(q.tasks) ELSE q.tasks
    PROVE  /\ ClaimsOK(r)
           /\ r.tasks # << >> /\ Head(r.tasks).claim = "no" => Head(q.tasks).claim = "no"
           /\ \A s \in Sub :
                 Awaits(q, s) /\ (s # Head(q.tasks).sub \/ q.add # Nothing) => Awaits(r, s)
           /\ \A x \in Lesson, s \in Sub :
                 Pending(r, x, s) = IF s = Head(q.tasks).sub THEN r.add[x] ELSE 0
  <1>1. q.tasks \in Seq(TaskSet) /\ r.tasks \in Seq(TaskSet)
    BY Fields
  <1>2. /\ Head(q.tasks) = q.tasks[1] /\ 1 \in DOMAIN q.tasks
        /\ r.tasks # << >> => 1 \in DOMAIN r.tasks /\ Head(r.tasks) = r.tasks[1]
    BY <1>1, HeadTask
  <1>3. CASE r.add = Nothing
    <2>1. r.tasks = Tail(q.tasks)
      BY <1>3
    <2>2. /\ \A i \in DOMAIN r.tasks :
                i \in Nat /\ i + 1 \in DOMAIN q.tasks /\ r.tasks[i] = q.tasks[i + 1]
          /\ \A i \in DOMAIN q.tasks :
                i # 1 => i - 1 \in DOMAIN r.tasks /\ r.tasks[i - 1] = q.tasks[i]
      <3> DEFINE a == q.tasks
                 b == r.tasks
      <3>1. a \in Seq(TaskSet) /\ a # << >> /\ b = Tail(a)
        BY <1>1, <2>1
      <3> HIDE DEF TaskSet, a, b
      <3>2. /\ \A i \in DOMAIN b : i \in Nat /\ i + 1 \in DOMAIN a /\ b[i] = a[i + 1]
            /\ \A i \in DOMAIN a : i # 1 => i - 1 \in DOMAIN b /\ b[i - 1] = a[i]
        BY <3>1
      <3> QED
        BY <3>2 DEF a, b
    <2>3. ClaimsOK(r)
      <3>1. r.op \in {"settle", "complete"} => \A i \in DOMAIN r.tasks : r.tasks[i].claim = "no"
        BY <2>2 DEF ClaimsOK
      <3>2. r.op \in {"create", "reschedule"} => \A i \in DOMAIN r.tasks : r.tasks[i].claim # "no"
        BY <2>2 DEF ClaimsOK
      <3>3. ASSUME NEW i \in DOMAIN r.tasks, NEW j \in DOMAIN r.tasks,
                   i < j, r.tasks[j].claim = "no"
            PROVE  r.tasks[i].claim = "no"
        <4>1. i + 1 < j + 1
          BY <2>2, <3>3
        <4> QED
          BY <2>2, <3>3, <4>1 DEF ClaimsOK
      <3> QED
        BY <3>1, <3>2, <3>3 DEF ClaimsOK
    <2>4. r.tasks # << >> /\ Head(r.tasks).claim = "no" => Head(q.tasks).claim = "no"
      <3>1. r.tasks # << >> /\ Head(r.tasks).claim = "no" =>
               2 \in DOMAIN q.tasks /\ q.tasks[2].claim = "no"
        BY <1>2, <2>2
      <3> QED
        BY <1>2, <3>1 DEF ClaimsOK
    <2>5. ASSUME NEW s \in Sub, Awaits(q, s), s # Head(q.tasks).sub \/ q.add # Nothing
          PROVE  Awaits(r, s)
      <3>1. PICK i \in DOMAIN q.tasks : q.tasks[i].sub = s /\ (i = 1 => q.add = Nothing)
        BY <2>5 DEF Awaits
      <3>2. i # 1
        BY <1>2, <2>5, <3>1
      <3>3. i - 1 \in DOMAIN r.tasks /\ r.tasks[i - 1].sub = s
        BY <2>2, <3>1, <3>2
      <3> QED
        BY <1>3, <2>5, <3>3 DEF Awaits
    <2>6. \A x \in Lesson, s \in Sub : Pending(r, x, s) = 0 /\ r.add[x] = 0
      BY <1>3 DEF Pending, Nothing
    <2> QED
      BY <2>3, <2>4, <2>5, <2>6
  <1>4. CASE r.add # Nothing
    <2>1. r.tasks = q.tasks
      BY <1>4
    <2>2. ASSUME NEW s \in Sub, Awaits(q, s), s # Head(q.tasks).sub \/ q.add # Nothing
          PROVE  Awaits(r, s)
      BY <1>2, <2>1, <2>2 DEF Awaits
    <2> QED
      BY <2>1, <2>2 DEF ClaimsOK, Pending
  <1> QED
    BY <1>3, <1>4

LEMMA InsertReserveStep ==
    ASSUME CoverageInv, NEW c \in Connection, InsertReserve(c)
    PROVE  CoverageInv'
  <1> DEFINE q == tx[c]
             s == Head(q.tasks).sub
             given == {y \in Lesson : q.add[y] > 0}
             x == Min(given)
             add == [q.add EXCEPT ![x] = 0]
             made == [q.made EXCEPT ![x][s] = q.add[x]]
             rows == q.rows \union {<<x, s>>}
             tasks == IF add = Nothing THEN Tail(q.tasks) ELSE q.tasks
             r == [q EXCEPT !.made = made, !.rows = rows, !.add = add, !.tasks = tasks]
  <1>1. q \in TxType /\ TxOK(q) /\ \A d \in Others(c) : q.held \intersect tx[d].held = {}
    BY TxFacts
  <1>2. q.add # Nothing
    BY DEF InsertReserve
  <1>3. tx' = [tx EXCEPT ![c] = r] /\ UNCHANGED <<tables, commands>>
    BY DEF InsertReserve, Proceed, Start
  <1>4. q.at = "covering" /\ q.locks = {} /\ q.tasks # << >> /\ s \in q.held
    BY <1>1, <1>2 DEF TxOK, StageOK, HeldOK
  <1>5. /\ q.add \in [Lesson -> Nat] /\ q.made \in [Lesson -> [Sub -> Nat]]
        /\ q.rows \subseteq Lesson \X Sub /\ q.tasks \in Seq(TaskSet) /\ s \in Sub
    BY <1>1, <1>4, Fields
  <1>6. x \in Lesson /\ q.add[x] > 0
    <2>1. given # {}
      <3>1. \E y \in Lesson : q.add[y] # 0
        BY <1>2, <1>5 DEF Nothing
      <3> HIDE DEF q
      <3> QED
        BY <1>5, <3>1
    <2>2. given \in SUBSET Nat
      BY CoverageAssumption DEF Lesson
    <2>3. \E z \in given : \A y \in given : z <= y
      BY <2>1, <2>2, LeastElement
    <2>4. x \in given
      <3> HIDE DEF given
      <3> QED
        BY <2>3 DEF Min
    <2> QED
      BY <2>4
  <1> HIDE DEF q, s, given, x
  <1>7. /\ made \in [Lesson -> [Sub -> Nat]] /\ add \in [Lesson -> Nat]
        /\ rows \in SUBSET (Lesson \X Sub)
        /\ \A y \in Lesson : add[y] = IF y = x THEN 0 ELSE q.add[y]
        /\ \A y \in Lesson, z \in Sub :
              made[y][z] = IF y = x /\ z = s THEN q.add[x] ELSE q.made[y][z]
    BY <1>5, <1>6
  <1>8. tasks \in Seq(TaskSet)
    <2> HIDE DEF TaskSet
    <2> QED
      BY <1>4, <1>5
  <1> HIDE DEF made, add, rows, tasks
  <1>9. /\ r \in TxType
        /\ r.at = "covering" /\ r.op = q.op /\ r.lesson = q.lesson /\ r.successor = q.successor
        /\ r.locks = {} /\ r.held = q.held /\ r.want = q.want /\ r.made = made /\ r.add = add
        /\ r.billed = q.billed /\ r.dropped = q.dropped /\ r.tasks = tasks
    <2>1. PICK p1 : p1 = [q EXCEPT !.made = made, !.add = add]
      OBVIOUS
    <2>2. PICK p2 : p2 = [p1 EXCEPT !.rows = rows]
      OBVIOUS
    <2>3. PICK p3 : p3 = [p2 EXCEPT !.dropped = q.dropped, !.tasks = tasks]
      OBVIOUS
    <2>4. p1 \in TxType
      BY <1>1, <1>7, <2>1, WithUnits
    <2>5. p2 \in TxType
      BY <1>7, <2>2, <2>4, WithRows
    <2>6. p3 \in TxType
      BY <1>1, <1>8, <2>3, <2>5, Fields, WithWork
    <2>7. r = p3
      BY <1>1, <2>1, <2>2, <2>3 DEF TxType
    <2>8. r \in TxType
      BY <2>6, <2>7
    <2> QED
      BY <1>1, <1>4, <2>8 DEF TxType
  <1> HIDE DEF r
  <1>10. r.tasks = IF r.add = Nothing THEN Tail(q.tasks) ELSE q.tasks
    BY <1>9 DEF tasks
  <1>11. /\ ClaimsOK(r)
         /\ r.tasks # << >> /\ Head(r.tasks).claim = "no" => Head(q.tasks).claim = "no"
         /\ \A z \in Sub : Awaits(q, z) => Awaits(r, z)
         /\ \A y \in Lesson, z \in Sub : Pending(r, y, z) = IF z = s THEN r.add[y] ELSE 0
         /\ \A y \in Lesson, z \in Sub : Pending(q, y, z) = IF z = s THEN q.add[y] ELSE 0
    <2>1. /\ ClaimsOK(r)
          /\ r.tasks # << >> /\ Head(r.tasks).claim = "no" => Head(q.tasks).claim = "no"
          /\ \A z \in Sub :
                Awaits(q, z) /\ (z # Head(q.tasks).sub \/ q.add # Nothing) => Awaits(r, z)
          /\ \A y \in Lesson, z \in Sub :
                Pending(r, y, z) = IF z = Head(q.tasks).sub THEN r.add[y] ELSE 0
      BY <1>1, <1>4, <1>9, <1>10, Advance DEF TxOK
    <2>2. \A y \in Lesson, z \in Sub :
             Pending(q, y, z) = IF z = Head(q.tasks).sub THEN q.add[y] ELSE 0
      BY <1>4 DEF Pending
    <2> QED
      BY <1>2, <2>1, <2>2 DEF s
  <1>12. StageOK(r)
    BY <1>1, <1>4, <1>9 DEF TxOK, StageOK
  <1>13. HeldOK(r)
    <2>1. \A y \in Lesson, z \in Sub : r.made[y][z] > 0 => z \in r.held
      BY <1>1, <1>4, <1>7, <1>9 DEF TxOK, HeldOK
    <2>2. r.add # Nothing => r.tasks # << >> /\ Head(r.tasks).sub \in r.held
      BY <1>4, <1>9, <1>10 DEF s
    <2> QED
      BY <1>1, <1>9, <2>1, <2>2 DEF TxOK, HeldOK
  <1>14. ClearedOK(r)
    <2> SUFFICES ASSUME \/ r.op \in {"settle", "complete", "reschedule"}
                        \/ r.tasks # << >> /\ Head(r.tasks).claim = "no"
                 PROVE  /\ AllOf(r.lesson) \subseteq r.dropped
                        /\ r.add[r.lesson] = 0
                        /\ \A z \in Sub : r.made[r.lesson][z] = 0
      BY DEF ClearedOK
    <2>1. /\ AllOf(q.lesson) \subseteq q.dropped
          /\ q.add[q.lesson] = 0
          /\ \A z \in Sub : q.made[q.lesson][z] = 0
      BY <1>1, <1>4, <1>9, <1>11 DEF TxOK, ClearedOK
    <2>2. q.lesson \in Lesson
      BY <1>1, <1>4 DEF TxOK, StageOK
    <2>3. q.lesson # x
      BY <1>6, <2>1
    <2>4. AllOf(r.lesson) \subseteq r.dropped
      BY <1>9, <2>1
    <2>5. add[q.lesson] = 0
      BY <1>7, <2>1, <2>2
    <2>6. \A z \in Sub : made[q.lesson][z] = 0
      BY <1>7, <2>1, <2>2, <2>3
    <2> QED
      BY <1>9, <2>4, <2>5, <2>6
  <1>15. ASSUME NEW z \in Sub, NEW X, Fits(q, z, X) PROVE Fits(r, z, X)
    <2> DEFINE f == Load(q, z, X)
               g == Load(r, z, X)
    <2>1. f \in [Lesson -> Int] /\ g \in [Lesson -> Int]
      BY <1>1, <1>9, LoadTyped, TxFacts
    <2>2. ASSUME NEW y \in Lesson PROVE g[y] <= f[y]
      <3>1. /\ f[y] = charged[y][z] + (IF y \in X THEN 0 ELSE ViewOf(q, y, z)) + Pending(q, y, z)
            /\ g[y] = charged[y][z] + (IF y \in X THEN 0 ELSE ViewOf(r, y, z)) + Pending(r, y, z)
        BY DEF Load
      <3>2. /\ charged[y][z] \in Nat
            /\ ViewOf(q, y, z) \in Nat /\ Pending(q, y, z) \in Nat
            /\ ViewOf(r, y, z) \in Nat /\ Pending(r, y, z) \in Nat
        BY <1>1, <1>9, UnitsTyped, TxFacts
      <3>3. CASE y = x /\ z = s
        <4>1. ViewOf(r, y, z) = q.add[x]
          BY <1>6, <1>7, <1>9, <3>3 DEF ViewOf
        <4>2. Pending(r, y, z) = 0 /\ Pending(q, y, z) = q.add[x]
          BY <1>7, <1>9, <1>11, <3>3
        <4> HIDE DEF f, g
        <4> QED
          BY <3>1, <3>2, <4>1, <4>2
      <3>4. CASE ~ (y = x /\ z = s)
        <4>1. ViewOf(r, y, z) = ViewOf(q, y, z)
          BY <1>7, <1>9, <3>4 DEF ViewOf
        <4>2. Pending(r, y, z) = Pending(q, y, z)
          BY <1>7, <1>9, <1>11, <3>4
        <4> HIDE DEF f, g
        <4> QED
          BY <3>1, <3>2, <4>1, <4>2
      <3> QED
        BY <3>3, <3>4
    <2>3. Sum(f, Lesson) + Billed(q, z) <= Total[z] /\ Billed(r, z) = Billed(q, z)
      BY <1>9, <1>15 DEF Fits, Billed
    <2>4. Billed(q, z) \in Int
      BY <1>1, Fields DEF Billed
    <2> HIDE DEF f, g
    <2>5. Sum(g, Lesson) <= Sum(f, Lesson) /\ Sum(f, Lesson) \in Int /\ Sum(g, Lesson) \in Int
      BY <2>1, <2>2, SumLeq, SumType
    <2>6. Sum(g, Lesson) + Billed(r, z) <= Total[z]
      BY <2>3, <2>4, <2>5, TotalTyped
    <2> QED
      BY <2>6 DEF Fits, g
  <1>16. LoadOK(r)
    <2> SUFFICES ASSUME NEW z \in r.held
                 PROVE  Fits(r, z, {}) \/ (Awaits(r, z) /\ Fits(r, z, {r.successor}))
      BY DEF LoadOK
    <2>1. z \in Sub /\ z \in q.held
      BY <1>9, Fields
    <2>2. Fits(q, z, {}) \/ (Awaits(q, z) /\ Fits(q, z, {q.successor}))
      BY <1>1, <1>4, <2>1 DEF TxOK, LoadOK
    <2> QED
      BY <1>9, <1>11, <1>15, <2>1, <2>2
  <1>17. TxOK(r)
    BY <1>9, <1>11, <1>12, <1>13, <1>14, <1>16 DEF TxOK, MeasuredOK
  <1>18. \A d \in Others(c) : r.held \intersect tx[d].held = {}
    BY <1>1, <1>9 DEF q
  <1> QED
    BY <1>3, <1>9, <1>17, <1>18, TxStep, CommandsStay DEF q

LEMMA MaxWithZero ==
    ASSUME NEW n \in Int
    PROVE  Max({0, n}) = IF n >= 0 THEN n ELSE 0
  BY DEF Max

\* What is spent of a subscription, as its redistribution sees it, never
\* exceeds it.
LEMMA SpentBounded ==
    ASSUME CoverageInv, NEW c \in Connection,
           tx[c].at = "covering", tx[c].tasks # << >>, tx[c].add = Nothing,
           NEW t, t = Head(tx[c].tasks)
    PROVE  /\ t.sub \in Sub
           /\ Spent(c, t) \in Int
           /\ Spent(c, t) <= Total[t.sub]
  <1> DEFINE q == tx[c]
             s == t.sub
             cand == Candidates(c, t.claim)
             R == Lesson \ (cand \union {q.lesson})
             paid == [x \in Lesson |-> charged[x][s]]
             seen == [x \in Lesson |-> View(c, x, s)]
             e == [x \in Lesson |-> charged[x][s] + IF x \in R THEN View(c, x, s) ELSE 0]
  <1>1. q \in TxType /\ TxOK(q) /\ Typed
    BY TxFacts
  <1>2. s \in Sub /\ 1 \in DOMAIN q.tasks /\ t = q.tasks[1]
    BY <1>1, Fields, HeadTask
  <1>3. \A x \in Lesson :
           /\ View(c, x, s) = ViewOf(q, x, s) /\ View(c, x, s) \in Nat
           /\ charged[x][s] \in Nat /\ Pending(q, x, s) = 0
    <2>1. \A x \in Lesson : View(c, x, s) = ViewOf(q, x, s)
      BY DEF View, ViewOf
    <2>2. \A x \in Lesson : Pending(q, x, s) = 0
      BY DEF Pending, Nothing
    <2> QED
      BY <1>1, <1>2, <2>1, <2>2, UnitsTyped
  <1>4. /\ paid \in [Lesson -> Int] /\ seen \in [Lesson -> Int] /\ e \in [Lesson -> Int]
    BY <1>3
  <1>5. Sum(e, Lesson) = Sum(paid, Lesson) + Sum(seen, R)
    <2>1. ASSUME NEW x \in Lesson
          PROVE  (IF x \in Lesson THEN e[x] ELSE 0)
                   = (IF x \in Lesson THEN paid[x] ELSE 0) + (IF x \in R THEN seen[x] ELSE 0)
      BY <1>3
    <2> HIDE DEF e, paid, seen, R
    <2> QED
      BY <1>4, <2>1, SumAdd, SMTT(60)
  <1>6. Billed(q, s) \in Int
    BY <1>1, Fields DEF Billed
  <1>7. Spent(c, t) = Sum(paid, Lesson) + Billed(q, s) + Sum(seen, R)
    BY DEF Spent, Billed
  <1>8. /\ Sum(paid, Lesson) \in Int /\ Sum(seen, R) \in Int /\ Sum(e, Lesson) \in Int
        /\ Total[s] \in Int
    <2>1. Total[s] \in Int
      BY <1>2, TotalTyped
    <2> HIDE DEF e, paid, seen, R, s
    <2>2. /\ Sum(paid, Lesson) \in Int /\ Sum(seen, R) \in Int /\ Sum(e, Lesson) \in Int
      BY <1>4, SumType
    <2> QED
      BY <2>1, <2>2
  <1>9. ASSUME NEW X, Fits(q, s, X), X \intersect R = {}
        PROVE  Sum(e, Lesson) + Billed(q, s) <= Total[s]
    <2> DEFINE f == Load(q, s, X)
    <2>1. f \in [Lesson -> Int]
      BY <1>1, <1>2, LoadTyped
    <2>2. ASSUME NEW x \in Lesson PROVE e[x] <= f[x]
      <3>1. /\ e[x] = charged[x][s] + IF x \in R THEN View(c, x, s) ELSE 0
            /\ f[x] = charged[x][s] + (IF x \in X THEN 0 ELSE ViewOf(q, x, s)) + Pending(q, x, s)
        BY DEF Load
      <3>2. x \in R => x \notin X
        BY <1>9
      <3>3. /\ View(c, x, s) = ViewOf(q, x, s) /\ View(c, x, s) \in Nat
            /\ charged[x][s] \in Nat /\ Pending(q, x, s) = 0
        BY <1>3
      <3> HIDE DEF e, f, R, s
      <3> QED
        BY <3>1, <3>2, <3>3
    <2>3. Sum(f, Lesson) + Billed(q, s) <= Total[s]
      BY <1>9 DEF Fits
    <2> HIDE DEF e, f, s, R, q
    <2>4. Sum(e, Lesson) <= Sum(f, Lesson) /\ Sum(f, Lesson) \in Int
      BY <1>4, <2>1, <2>2, SumLeq, SumType
    <2> QED
      BY <1>6, <1>8, <2>3, <2>4
  <1>10. Sum(e, Lesson) + Billed(q, s) <= Total[s]
    <2>1. CASE s \in q.held
      <3>1. Fits(q, s, {}) \/ (Awaits(q, s) /\ Fits(q, s, {q.successor}))
        BY <1>1, <2>1 DEF TxOK, LoadOK
      <3>2. CASE Fits(q, s, {})
        BY <1>9, <3>2
      <3>3. CASE Awaits(q, s) /\ Fits(q, s, {q.successor})
        <4>1. q.op = "reschedule" /\ t.claim # "no"
          BY <1>1, <1>2, <3>3 DEF Awaits, TxOK, ClaimsOK
        <4>2. q.successor \in cand
          BY <4>1 DEF Candidates, Own
        <4>3. {q.successor} \intersect R = {}
          BY <4>2
        <4> QED
          BY <1>9, <3>3, <4>3
      <3> QED
        BY <3>1, <3>2, <3>3
    <2>2. CASE s \notin q.held
      <3>1. \A x \in Lesson : q.made[x][s] = 0
        <4>1. \A x \in Lesson : ~ (q.made[x][s] > 0)
          BY <1>1, <1>2, <2>2 DEF TxOK, HeldOK
        <4> QED
          BY <1>1, <1>2, <4>1, UnitsTyped
      <3>2. Billed(q, s) = 0
        <4>1. q.billed \in Nat
          BY <1>1, Fields
        <4>2. q.want.sub = s => ~ (q.billed > 0)
          BY <1>1, <2>2 DEF TxOK, HeldOK
        <4> QED
          BY <4>1, <4>2 DEF Billed
      <3>3. Fits(q, s, {})
        BY <1>1, <1>2, <1>3, <3>1, <3>2, Unburdened DEF CoverageInv
      <3> QED
        BY <1>9, <3>3
    <2> QED
      BY <2>1, <2>2
  <1> HIDE DEF q, s, paid, seen, R, e
  <1>11. s \in Sub /\ Spent(c, t) \in Int /\ Spent(c, t) <= Total[s]
    BY <1>2, <1>5, <1>6, <1>7, <1>8, <1>10
  <1> QED
    BY <1>11 DEF s

\* What a redistribution decides fits: the lessons that take part get what is
\* not spent, the command's own lesson holds nothing unless it takes part.
LEMMA DesiredFits ==
    ASSUME CoverageInv, NEW c \in Connection,
           tx[c].at = "covering", tx[c].tasks # << >>, tx[c].add = Nothing,
           NEW t, t = Head(tx[c].tasks)
    PROVE  /\ Desired(c, t) \in [Lesson -> Nat]
           /\ Sum([x \in Lesson |-> charged[x][t.sub]
                      + IF x \in Candidates(c, t.claim) THEN Desired(c, t)[x]
                        ELSE View(c, x, t.sub)], Lesson)
                + Billed(tx[c], t.sub) <= Total[t.sub]
  <1> DEFINE q == tx[c]
             s == t.sub
             cand == Candidates(c, t.claim)
             R == Lesson \ (cand \union {q.lesson})
             paid == [x \in Lesson |-> charged[x][s]]
             seen == [x \in Lesson |-> View(c, x, s)]
             desired == Desired(c, t)
             need == [x \in Lesson |-> Need(c, x, t)]
             free == Max({0, Total[s] - Spent(c, t)})
             rest == [x \in Lesson |-> charged[x][s] + IF x \in R THEN View(c, x, s) ELSE 0]
             e == [x \in Lesson |-> charged[x][s]
                      + IF x \in cand THEN desired[x] ELSE View(c, x, s)]
  <1>1. q \in TxType /\ TxOK(q) /\ Typed
    BY TxFacts
  <1>2. /\ s \in Sub /\ Spent(c, t) \in Int /\ Spent(c, t) <= Total[s] /\ Total[s] \in Int
    BY SpentBounded, TotalTyped
  <1>3. free \in Nat /\ free = Total[s] - Spent(c, t)
    <2>1. Total[s] - Spent(c, t) \in Int /\ Total[s] - Spent(c, t) >= 0
      BY <1>2
    <2> QED
      BY <2>1, MaxWithZero
  <1>4. need \in [Lesson -> Nat]
    <2> SUFFICES ASSUME NEW x \in Lesson PROVE Need(c, x, t) \in Nat
      OBVIOUS
    <2>1. tx[c].want.units \in Nat /\ plan[x].units \in Nat
      <3>1. plan[x] \in Plan \union {Unfunded}
        BY <1>1 DEF Typed, TypeOK
      <3>2. tx[c].want \in Plan \union {Unfunded}
        BY <1>1, Fields
      <3> QED
        BY <3>1, <3>2, WantTyped
    <2> QED
      BY <2>1 DEF Need, Needs
  <1>5. desired \in [Lesson -> Nat] /\ Sum(desired, Lesson) <= free
    <2>1. desired = Allocate(need, free)
      BY DEF Desired
    <2> HIDE DEF need, free, desired
    <2> QED
      BY <1>3, <1>4, <2>1, AllocateBounded
  <1>6. \A x \in Lesson : View(c, x, s) \in Nat /\ charged[x][s] \in Nat
    <2>1. \A x \in Lesson : View(c, x, s) = ViewOf(q, x, s)
      BY DEF View, ViewOf
    <2> QED
      BY <1>1, <1>2, <2>1, UnitsTyped
  <1>7. q.lesson \notin cand => View(c, q.lesson, s) = 0
    <2> SUFFICES ASSUME q.lesson \notin cand PROVE View(c, q.lesson, s) = 0
      OBVIOUS
    <2>1. q.op = "reschedule" \/ t.claim = "no"
      BY DEF Candidates, Own
    <2>2. /\ AllOf(q.lesson) \subseteq q.dropped
          /\ q.made[q.lesson][s] = 0
      BY <1>1, <1>2, <2>1 DEF TxOK, ClearedOK
    <2>3. <<q.lesson, s>> \in q.dropped
      BY <1>2, <2>2 DEF AllOf
    <2> QED
      BY <2>2, <2>3 DEF View
  <1>8. /\ paid \in [Lesson -> Int] /\ seen \in [Lesson -> Int]
        /\ rest \in [Lesson -> Int] /\ e \in [Lesson -> Int] /\ desired \in [Lesson -> Int]
    BY <1>5, <1>6
  <1>9. Sum(rest, Lesson) = Sum(paid, Lesson) + Sum(seen, R)
    <2>1. ASSUME NEW x \in Lesson
          PROVE  (IF x \in Lesson THEN rest[x] ELSE 0)
                   = (IF x \in Lesson THEN paid[x] ELSE 0) + (IF x \in R THEN seen[x] ELSE 0)
      BY <1>6
    <2>2. rest \in [Lesson -> Int] /\ paid \in [Lesson -> Int] /\ seen \in [Lesson -> Int]
      BY <1>8
    <2> HIDE DEF rest, paid, seen, R
    <2> QED
      BY <2>1, <2>2, SumAdd, SMTT(60)
  <1>10. Sum(e, Lesson) = Sum(rest, Lesson) + Sum(desired, cand)
    <2>1. ASSUME NEW x \in Lesson
          PROVE  (IF x \in Lesson THEN e[x] ELSE 0)
                   = (IF x \in Lesson THEN rest[x] ELSE 0) + (IF x \in cand THEN desired[x] ELSE 0)
      <3>1. /\ e[x] = charged[x][s] + IF x \in cand THEN desired[x] ELSE View(c, x, s)
            /\ rest[x] = charged[x][s] + IF x \in R THEN View(c, x, s) ELSE 0
        OBVIOUS
      <3>2. x \notin cand /\ x \notin R => View(c, x, s) = 0
        BY <1>7
      <3>3. View(c, x, s) \in Nat /\ charged[x][s] \in Nat /\ desired[x] \in Nat
        BY <1>5, <1>6
      <3>4. x \in R => x \notin cand
        OBVIOUS
      <3> HIDE DEF rest, e, desired, R, cand, s
      <3> QED
        BY <3>1, <3>2, <3>3, <3>4
    <2>2. e \in [Lesson -> Int] /\ rest \in [Lesson -> Int] /\ desired \in [Lesson -> Int]
      BY <1>8
    <2> HIDE DEF rest, e, desired, cand
    <2> QED
      BY <2>1, <2>2, SumAdd, SMTT(60)
  <1>11. Sum(desired, cand) <= Sum(desired, Lesson)
    <2>1. \A x \in Lesson : (IF x \in cand THEN desired[x] ELSE 0)
                              <= (IF x \in Lesson THEN desired[x] ELSE 0)
      <3> HIDE DEF desired, cand
      <3> QED
        BY <1>5
    <2> HIDE DEF desired, cand
    <2> QED
      BY <1>8, <2>1, SumLeq
  <1>12. Spent(c, t) = Sum(paid, Lesson) + Billed(q, s) + Sum(seen, R) /\ Billed(q, s) \in Int
    BY <1>1, Fields DEF Spent, Billed
  <1>13. /\ Sum(paid, Lesson) \in Int /\ Sum(seen, R) \in Int /\ Sum(rest, Lesson) \in Int
         /\ Sum(desired, cand) \in Int /\ Sum(desired, Lesson) \in Int /\ Sum(e, Lesson) \in Int
    <2> HIDE DEF paid, seen, R, rest, desired, cand, e
    <2> QED
      BY <1>8, SumType
  <1>14. Sum(e, Lesson) + Billed(q, s) <= Total[s]
    <2> HIDE DEF q, s, paid, seen, R, rest, desired, cand, e, free
    <2>1. Sum(e, Lesson) + Billed(q, s) = Spent(c, t) + Sum(desired, cand)
      BY <1>9, <1>10, <1>12, <1>13
    <2>2. Sum(desired, cand) <= free
      BY <1>3, <1>5, <1>11, <1>13
    <2> QED
      BY <1>2, <1>3, <1>13, <2>1, <2>2
  <1> QED
    BY <1>5, <1>14

LEMMA RedistributeStep ==
    ASSUME CoverageInv, NEW c \in Connection, Redistribute(c)
    PROVE  CoverageInv'
  <1> DEFINE q == tx[c]
             t == Head(q.tasks)
             s == t.sub
             cand == Candidates(c, t.claim)
             desired == Desired(c, t)
             changed == {x \in cand : View(c, x, s) # desired[x]}
             add == [x \in Lesson |-> IF x \in changed THEN desired[x] ELSE 0]
             made == [x \in Lesson |-> IF x \in changed
                                       THEN [q.made[x] EXCEPT ![s] = 0] ELSE q.made[x]]
             held == q.held \union {s}
             dropped == q.dropped \union (changed \X {s})
             tasks == IF add = Nothing THEN Tail(q.tasks) ELSE q.tasks
             r == [q EXCEPT !.held = held, !.made = made, !.dropped = dropped,
                            !.add = add, !.tasks = tasks]
  <1>1. q \in TxType /\ TxOK(q) /\ Typed /\ \A d \in Others(c) : q.held \intersect tx[d].held = {}
    BY TxFacts
  <1>2. /\ q.at = "covering" /\ q.tasks # << >> /\ q.add = Nothing /\ SubFree(c, s)
        /\ UNCHANGED <<tables, commands>>
    BY DEF Redistribute, Proceed, Start
  <1>3. tx' = [tx EXCEPT ![c] = r]
    BY DEF Redistribute, Proceed, Start
  <1>4. /\ q.lesson \in Lesson /\ q.locks = {}
        /\ q.op = "reschedule" => q.successor \in Lesson \ {q.lesson}
        /\ q.op # "reschedule" => Own(c) = q.lesson
        /\ q.op = "reschedule" => Own(c) = q.successor
    BY <1>1, <1>2 DEF TxOK, StageOK, Own
  <1>5. /\ q.made \in [Lesson -> [Sub -> Nat]] /\ q.dropped \subseteq Lesson \X Sub
        /\ q.tasks \in Seq(TaskSet) /\ s \in Sub /\ q.held \subseteq Sub
        /\ 1 \in DOMAIN q.tasks /\ t = q.tasks[1]
    BY <1>1, <1>2, Fields, HeadTask
  <1>6. /\ desired \in [Lesson -> Nat]
        /\ Sum([x \in Lesson |-> charged[x][s]
                   + IF x \in cand THEN desired[x] ELSE View(c, x, s)], Lesson)
             + Billed(q, s) <= Total[s]
    BY <1>2, DesiredFits
  <1>7. cand \subseteq Lesson /\ changed \subseteq Lesson
    BY <1>4 DEF Candidates
  <1>8. q.lesson \in cand => t.claim # "no" /\ q.op # "reschedule"
    BY <1>4 DEF Candidates
  <1>9. \A x \in Lesson : View(c, x, s) = ViewOf(q, x, s) /\ View(c, x, s) \in Nat
    BY <1>1, <1>5, UnitsTyped DEF View, ViewOf
  <1>10. \A x \in changed : x \in cand /\ View(c, x, s) # desired[x]
    OBVIOUS
  <1>11. \A x \in cand \ changed : View(c, x, s) = desired[x]
    OBVIOUS
  <1> HIDE DEF changed, desired, cand, s, t
  <1>12. /\ add \in [Lesson -> Nat]
         /\ \A x \in Lesson : add[x] = IF x \in changed THEN desired[x] ELSE 0
    BY <1>6
  <1>13. /\ made \in [Lesson -> [Sub -> Nat]]
         /\ \A x \in Lesson, z \in Sub :
               made[x][z] = IF x \in changed /\ z = s THEN 0 ELSE q.made[x][z]
    <2> HIDE DEF q
    <2> QED
      BY <1>5
  <1>14. held \in SUBSET Sub /\ dropped \in SUBSET (Lesson \X Sub)
    BY <1>5, <1>7
  <1>15. \A x \in Lesson, z \in Sub :
            <<x, z>> \in dropped <=> <<x, z>> \in q.dropped \/ (x \in changed /\ z = s)
    BY <1>7
  <1>16. tasks \in Seq(TaskSet)
    <2> HIDE DEF TaskSet, add
    <2> QED
      BY <1>2, <1>5
  <1> HIDE DEF q, add, made, held, dropped, tasks
  <1>17. /\ r \in TxType
         /\ r.at = "covering" /\ r.op = q.op /\ r.lesson = q.lesson /\ r.successor = q.successor
         /\ r.locks = {} /\ r.held = held /\ r.want = q.want /\ r.made = made /\ r.add = add
         /\ r.billed = q.billed /\ r.dropped = dropped /\ r.tasks = tasks
    <2>1. PICK p1 : p1 = [q EXCEPT !.at = q.at, !.held = held]
      OBVIOUS
    <2>2. PICK p2 : p2 = [p1 EXCEPT !.made = made, !.add = add]
      OBVIOUS
    <2>3. PICK p3 : p3 = [p2 EXCEPT !.dropped = dropped, !.tasks = tasks]
      OBVIOUS
    <2>4. p1 \in TxType
      BY <1>1, <1>2, <1>14, <2>1, WithStage DEF Stages
    <2>5. p2 \in TxType
      BY <1>12, <1>13, <2>2, <2>4, WithUnits
    <2>6. p3 \in TxType
      BY <1>14, <1>16, <2>3, <2>5, WithWork
    <2>7. r = p3
      BY <1>1, <2>1, <2>2, <2>3 DEF TxType
    <2>8. r \in TxType
      BY <2>6, <2>7
    <2> QED
      BY <1>1, <1>2, <1>4, <2>8 DEF TxType
  <1> HIDE DEF r
  <1>18. r.tasks = IF r.add = Nothing THEN Tail(q.tasks) ELSE q.tasks
    BY <1>17 DEF tasks
  <1>19. /\ ClaimsOK(r)
         /\ r.tasks # << >> /\ Head(r.tasks).claim = "no" => t.claim = "no"
         /\ \A z \in Sub : Awaits(q, z) /\ z # s => Awaits(r, z)
         /\ \A x \in Lesson, z \in Sub : Pending(r, x, z) = IF z = s THEN r.add[x] ELSE 0
    BY <1>1, <1>2, <1>17, <1>18, Advance DEF TxOK, s, t
  <1>20. StageOK(r)
    BY <1>4, <1>17 DEF StageOK
  <1>21. HeldOK(r)
    <2>1. \A x \in Lesson, z \in Sub : r.made[x][z] > 0 => z \in r.held
      BY <1>1, <1>13, <1>17 DEF TxOK, HeldOK, held
    <2>2. r.add # Nothing => r.tasks # << >> /\ Head(r.tasks).sub \in r.held
      BY <1>2, <1>17, <1>18 DEF s, t, held
    <2>3. r.billed > 0 => r.want # Unfunded /\ r.want.sub \in r.held
      BY <1>1, <1>17 DEF TxOK, HeldOK, held
    <2> QED
      BY <2>1, <2>2, <2>3 DEF HeldOK
  <1>22. ClearedOK(r)
    <2> SUFFICES ASSUME \/ r.op \in {"settle", "complete", "reschedule"}
                        \/ r.tasks # << >> /\ Head(r.tasks).claim = "no"
                 PROVE  /\ AllOf(r.lesson) \subseteq r.dropped
                        /\ r.add[r.lesson] = 0
                        /\ \A z \in Sub : r.made[r.lesson][z] = 0
      BY DEF ClearedOK
    <2>1. q.op \in {"settle", "complete", "reschedule"} \/ t.claim = "no"
      BY <1>17, <1>19
    <2>2. /\ AllOf(q.lesson) \subseteq q.dropped
          /\ \A z \in Sub : q.made[q.lesson][z] = 0
      BY <1>1, <1>2, <2>1 DEF TxOK, ClearedOK, t
    <2>3. q.op \in {"settle", "complete"} => t.claim = "no"
      BY <1>1, <1>5 DEF TxOK, ClaimsOK
    <2>4. q.lesson \notin changed
      BY <1>8, <1>10, <2>1, <2>3
    <2>5. add[q.lesson] = 0 /\ \A z \in Sub : made[q.lesson][z] = 0
      BY <1>4, <1>12, <1>13, <2>2, <2>4
    <2>6. AllOf(q.lesson) \subseteq dropped
      BY <2>2 DEF dropped
    <2> QED
      BY <1>17, <2>5, <2>6
  <1>23. \A z \in Sub : Billed(r, z) = Billed(q, z)
    BY <1>17 DEF Billed
  <1>24. ASSUME NEW z \in Sub, z # s, NEW X, Fits(q, z, X) PROVE Fits(r, z, X)
    <2>1. ASSUME NEW x \in Lesson
          PROVE  ViewOf(r, x, z) = ViewOf(q, x, z) /\ Pending(r, x, z) = Pending(q, x, z)
      <3>1. r.made[x][z] = q.made[x][z] /\ (<<x, z>> \in r.dropped <=> <<x, z>> \in q.dropped)
        BY <1>13, <1>15, <1>17, <1>24
      <3>2. Pending(q, x, z) = 0 /\ Pending(r, x, z) = 0
        BY <1>2, <1>19, <1>24 DEF Pending, Nothing
      <3> QED
        BY <3>1, <3>2 DEF ViewOf
    <2>2. Load(r, z, X) = Load(q, z, X)
      BY <2>1 DEF Load
    <2> QED
      BY <1>23, <1>24, <2>2 DEF Fits
  <1>25. Fits(r, s, {})
    <2> DEFINE e == [x \in Lesson |-> charged[x][s]
                        + IF x \in cand THEN desired[x] ELSE View(c, x, s)]
               g == Load(r, s, {})
    <2>1. g \in [Lesson -> Int]
      BY <1>1, <1>5, <1>17, LoadTyped
    <2>2. \A x \in Lesson : charged[x][s] \in Nat
      BY <1>1, <1>5, UnitsTyped
    <2>3. e \in [Lesson -> Int]
      BY <1>6, <1>9, <2>2
    <2>4. ASSUME NEW x \in Lesson PROVE g[x] <= e[x]
      <3>1. /\ g[x] = charged[x][s] + ViewOf(r, x, s) + Pending(r, x, s)
            /\ e[x] = charged[x][s] + IF x \in cand THEN desired[x] ELSE View(c, x, s)
        BY DEF Load
      <3>2. Pending(r, x, s) = add[x]
        BY <1>5, <1>17, <1>19
      <3>3. charged[x][s] \in Nat /\ desired[x] \in Nat /\ View(c, x, s) \in Nat
        BY <1>6, <1>9, <2>2
      <3>4. CASE x \in changed
        <4>1. ViewOf(r, x, s) = 0
          BY <1>5, <1>13, <1>15, <1>17, <3>4 DEF ViewOf
        <4>2. add[x] = desired[x] /\ x \in cand
          BY <1>10, <1>12, <3>4
        <4> HIDE DEF e, g
        <4> QED
          BY <3>1, <3>2, <3>3, <4>1, <4>2
      <3>5. CASE x \notin changed
        <4>1. ViewOf(r, x, s) = View(c, x, s)
          <5>1. r.made[x][s] = q.made[x][s] /\ (<<x, s>> \in r.dropped <=> <<x, s>> \in q.dropped)
            BY <1>5, <1>13, <1>15, <1>17, <3>5
          <5> QED
            BY <1>9, <5>1 DEF ViewOf
        <4>2. add[x] = 0 /\ (x \in cand => View(c, x, s) = desired[x])
          BY <1>11, <1>12, <3>5
        <4> HIDE DEF e, g
        <4> QED
          BY <3>1, <3>2, <3>3, <4>1, <4>2
      <3> QED
        BY <3>4, <3>5
    <2>5. Sum(e, Lesson) + Billed(q, s) <= Total[s]
      BY <1>6
    <2>6. Billed(q, s) \in Int /\ Total[s] \in Int
      BY <1>1, <1>5, Fields, TotalTyped DEF Billed
    <2> HIDE DEF e, g
    <2>7. Sum(g, Lesson) <= Sum(e, Lesson) /\ Sum(g, Lesson) \in Int /\ Sum(e, Lesson) \in Int
      BY <2>1, <2>3, <2>4, SumLeq, SumType
    <2>8. Sum(g, Lesson) + Billed(q, s) <= Total[s]
      BY <2>5, <2>6, <2>7
    <2> QED
      BY <1>5, <1>23, <2>8 DEF Fits, g
  <1>26. LoadOK(r)
    <2> SUFFICES ASSUME NEW z \in r.held, z # s
                 PROVE  Fits(r, z, {}) \/ (Awaits(r, z) /\ Fits(r, z, {r.successor}))
      BY <1>25 DEF LoadOK
    <2>1. z \in Sub /\ z \in q.held
      BY <1>14, <1>17 DEF held
    <2>2. Fits(q, z, {}) \/ (Awaits(q, z) /\ Fits(q, z, {q.successor}))
      BY <1>1, <1>2, <2>1 DEF TxOK, LoadOK
    <2> QED
      BY <1>17, <1>19, <1>24, <2>1, <2>2
  <1>27. TxOK(r)
    BY <1>17, <1>19, <1>20, <1>21, <1>22, <1>26 DEF TxOK, MeasuredOK
  <1>28. \A d \in Others(c) : r.held \intersect tx[d].held = {}
    BY <1>1, <1>2, <1>17 DEF q, held, SubFree
  <1> QED
    BY <1>2, <1>3, <1>17, <1>27, <1>28, TxStep, CommandsStay DEF q

-----------------------------------------------------------------------------
(* A transaction ends; statements that touch no reserve.                   *)

LEMMA RollbackStep ==
    ASSUME CoverageInv, NEW c \in Connection, Rollback(c)
    PROVE  CoverageInv'
  <1>1. tx' = [tx EXCEPT ![c] = Idle] /\ UNCHANGED <<tables, commands>>
    BY DEF Rollback, Proceed, Start
  <1> QED
    BY <1>1, IdleTyped, IdleOK, TxStep, CommandsStay

\* What the tables hold after a commit.
LEMMA CommitTyped ==
    ASSUME CoverageInv, NEW c \in Connection, Commit(c)
    PROVE  /\ Typed'
           /\ tx'[c] = Idle /\ \A d \in Others(c) : tx'[d] = tx[d]
           /\ \A x \in Lesson, s \in Sub :
                 /\ reserved'[x][s] = ViewOf(tx[c], x, s)
                 /\ charged'[x][s] = IF x = tx[c].lesson /\ s = tx[c].want.sub /\ tx[c].billed > 0
                                     THEN tx[c].billed ELSE charged[x][s]
           /\ tx[c].billed > 0 => tx[c].want.sub \in tx[c].held
           /\ tx[c].lesson \in Lesson
  <1> DEFINE q == tx[c]
  <1>1. q \in TxType /\ TxOK(q) /\ Typed
    BY TxFacts
  <1>2. q.at = "covering" /\ q.tasks = << >>
    BY DEF Commit
  <1>3. /\ q.lesson \in Lesson
        /\ q.billed > 0 => q.want # Unfunded /\ q.want.sub \in q.held
    BY <1>1, <1>2 DEF TxOK, StageOK, HeldOK
  <1>4. /\ q.want \in Plan \union {Unfunded} /\ q.want.sub \in Sub \union {NoSub}
        /\ q.billed \in Nat /\ q.held \subseteq Sub
    BY <1>1, Fields, WantTyped
  <1>5. tx' = [tx EXCEPT ![c] = Idle] /\ commands' = commands /\ deleted' = deleted
    BY DEF Commit
  <1>6. tx \in [Connection -> TxType] /\ tx' \in [Connection -> TxType]
    BY <1>1, <1>5, IdleTyped DEF Typed
  <1>7. /\ charged \in [Lesson -> [Sub -> Nat]]
        /\ plan \in [Lesson -> Plan \union {Unfunded}]
        /\ life \in [Lesson -> {"absent", "scheduled", "pending", "closed"}]
        /\ snapshot \in [Lesson -> Sub \union {NoSub}]
        /\ booked \in [Lesson -> SUBSET Sub]
        /\ deleted \subseteq Lesson /\ commands \in 0..MaxCommands
    BY <1>1 DEF Typed, TypeOK
  <1>8. \A x \in Lesson, s \in Sub : View(c, x, s) = ViewOf(q, x, s) /\ View(c, x, s) \in Nat
    BY <1>1, UnitsTyped DEF View, ViewOf
  <1>9. /\ reserved' = [x \in Lesson |-> [s \in Sub |-> View(c, x, s)]]
        /\ charged' = IF q.billed > 0
                      THEN [charged EXCEPT ![q.lesson][q.want.sub] = q.billed]
                      ELSE charged
    BY DEF Commit
  <1>10. /\ life' \in [Lesson -> {"absent", "scheduled", "pending", "closed"}]
         /\ plan' \in [Lesson -> Plan \union {Unfunded}]
         /\ snapshot' \in [Lesson -> Sub \union {NoSub}]
         /\ booked' \in [Lesson -> SUBSET Sub]
    <2>1. life' \in [Lesson -> {"absent", "scheduled", "pending", "closed"}]
      BY <1>7 DEF Commit
    <2>2. plan' \in [Lesson -> Plan \union {Unfunded}]
      BY <1>4, <1>7 DEF Commit
    <2>3. snapshot' \in [Lesson -> Sub \union {NoSub}]
      BY <1>4, <1>7 DEF Commit
    <2>4. booked' \in [Lesson -> SUBSET Sub]
      BY <1>7 DEF Commit
    <2> QED
      BY <2>1, <2>2, <2>3, <2>4
  <1> HIDE DEF q
  <1>11. /\ reserved' \in [Lesson -> [Sub -> Nat]]
         /\ \A x \in Lesson, s \in Sub : reserved'[x][s] = ViewOf(q, x, s)
    BY <1>8, <1>9
  <1>12. /\ charged' \in [Lesson -> [Sub -> Nat]]
         /\ \A x \in Lesson, s \in Sub :
               charged'[x][s] = IF x = q.lesson /\ s = q.want.sub /\ q.billed > 0
                                THEN q.billed ELSE charged[x][s]
    <2>1. CASE q.billed > 0
      BY <1>3, <1>4, <1>7, <1>9, <2>1
    <2>2. CASE ~ (q.billed > 0)
      BY <1>7, <1>9, <2>2
    <2> QED
      BY <2>1, <2>2
  <1>13. Typed'
    <2>1. \A d \in Connection : tx'[d] \in TxType
      BY <1>6
    <2>2. ASSUME NEW d \in Connection
          PROVE  /\ tx'[d].lesson \in Lesson \union {NoLesson}
                 /\ tx'[d].successor \in Lesson \union {NoLesson}
                 /\ tx'[d].want \in Plan \union {Unfunded}
                 /\ tx'[d].locks \subseteq Sub
                 /\ tx'[d].held \subseteq Sub
                 /\ tx'[d].available \in Int /\ tx'[d].billed \in Nat
                 /\ tx'[d].made \in [Lesson -> [Sub -> Nat]]
                 /\ tx'[d].add \in [Lesson -> Nat]
                 /\ tx'[d].dropped \subseteq Lesson \X Sub
                 /\ tx'[d].rows \subseteq Lesson \X Sub
      BY <2>1, Fields
    <2> QED
      BY <1>5, <1>6, <1>7, <1>10, <1>11, <1>12, <2>2 DEF Typed, TypeOK
  <1>14. tx'[c] = Idle /\ \A d \in Others(c) : tx'[d] = tx[d]
    BY <1>5, <1>6 DEF Others
  <1> QED
    BY <1>3, <1>11, <1>12, <1>13, <1>14 DEF q

LEMMA CommitStep ==
    ASSUME CoverageInv, NEW c \in Connection, Commit(c)
    PROVE  CoverageInv'
  <1> DEFINE q == tx[c]
  <1>1. /\ q \in TxType /\ TxOK(q) /\ Typed /\ NeverOverdrawn
        /\ \A d \in Others(c) : q.held \intersect tx[d].held = {}
    BY TxFacts DEF CoverageInv
  <1>2. q.at = "covering" /\ q.tasks = << >>
    BY DEF Commit
  <1>3. /\ Typed'
        /\ tx'[c] = Idle /\ \A d \in Others(c) : tx'[d] = tx[d]
        /\ \A x \in Lesson, s \in Sub :
              /\ reserved'[x][s] = ViewOf(q, x, s)
              /\ charged'[x][s] = IF x = q.lesson /\ s = q.want.sub /\ q.billed > 0
                                  THEN q.billed ELSE charged[x][s]
        /\ q.billed > 0 => q.want.sub \in q.held
        /\ q.lesson \in Lesson
    BY CommitTyped
  <1> HIDE DEF q
  <1>4. /\ \A x \in Lesson, s \in Sub :
              /\ charged[x][s] \in Nat /\ reserved[x][s] \in Nat
              /\ ViewOf(q, x, s) \in Nat /\ Pending(q, x, s) = 0 /\ q.made[x][s] \in Nat
        /\ \A x \in Lesson, s \in Sub : charged'[x][s] \in Nat /\ reserved'[x][s] \in Nat
        /\ q.billed \in Nat
    <2>1. \A x \in Lesson, s \in Sub : Pending(q, x, s) = 0
      BY <1>2 DEF Pending
    <2>2. \A x \in Lesson, s \in Sub : charged'[x][s] \in Nat /\ reserved'[x][s] \in Nat
      BY <1>3 DEF Typed, TypeOK
    <2> QED
      BY <1>1, <2>1, <2>2, UnitsTyped, Fields
  <1>5. ASSUME NEW x \in Lesson, NEW s \in Sub, s \notin q.held
        PROVE  reserved'[x][s] <= reserved[x][s] /\ charged'[x][s] = charged[x][s]
    <2>1. q.made[x][s] = 0
      BY <1>1, <1>4, <1>5 DEF TxOK, HeldOK
    <2>2. ViewOf(q, x, s) <= reserved[x][s]
      BY <1>4, <2>1 DEF ViewOf
    <2> QED
      BY <1>3, <1>5, <2>2
  <1>6. SubsExclusive'
    BY <1>1, <1>3, IdleTyped DEF CoverageInv, SubsExclusive, Others
  <1>7. ASSUME NEW d \in Connection PROVE TxOK(tx[d])'
    <2>1. CASE d = c
      <3>1. TxOK(Idle)'
        <4>1. \A x \in Lesson, s \in Sub : ~ (Idle.made[x][s] > 0)
          BY IdleTyped DEF NoUnits
        <4>2. StageOK(Idle) /\ HeldOK(Idle) /\ ClaimsOK(Idle) /\ ClearedOK(Idle)
          BY IdleOK DEF TxOK
        <4>3. StageOK(Idle)' /\ HeldOK(Idle)' /\ ClaimsOK(Idle)' /\ ClearedOK(Idle)'
          BY <4>2 DEF StageOK, HeldOK, ClaimsOK, ClearedOK
        <4> QED
          BY <4>3, IdleTyped DEF TxOK, MeasuredOK, LoadOK
      <3> QED
        BY <1>3, <2>1, <3>1
    <2>2. CASE d # c
      <3> PICK o \in TxType : o = tx[d]
        BY TxFacts
      <3>1. o \in TxType /\ TxOK(o) /\ q.held \intersect o.held = {} /\ tx'[d] = o
        BY <1>1, <1>3, <2>2, TxFacts DEF Others
      <3>2. \A x \in Lesson, s \in o.held :
               reserved'[x][s] <= reserved[x][s] /\ charged'[x][s] = charged[x][s]
        <4>1. o.held \subseteq Sub
          BY <3>1, Fields
        <4> QED
          BY <1>5, <3>1, <4>1
      <3>3. TxOK(o)'
        BY <1>1, <1>3, <3>1, <3>2, OtherKept
      <3> QED
        BY <3>1, <3>3
    <2> QED
      BY <2>1, <2>2
  <1>8. ASSUME NEW s \in Sub
        PROVE  Sum([x \in Lesson |-> charged'[x][s] + reserved'[x][s]], Lesson) <= Total[s]
    <2> DEFINE g == [x \in Lesson |-> charged'[x][s] + reserved'[x][s]]
    <2>1. g \in [Lesson -> Int]
      BY <1>4
    <2>2. CASE s \notin q.held
      <3> DEFINE f == [x \in Lesson |-> charged[x][s] + reserved[x][s]]
      <3>1. f \in [Lesson -> Int]
        BY <1>4
      <3>2. \A x \in Lesson : g[x] <= f[x]
        BY <1>4, <1>5, <2>2
      <3>3. Sum(f, Lesson) <= Total[s]
        BY <1>1 DEF NeverOverdrawn
      <3> HIDE DEF f, g
      <3>4. Sum(g, Lesson) <= Sum(f, Lesson) /\ Sum(f, Lesson) \in Int /\ Sum(g, Lesson) \in Int
        BY <2>1, <3>1, <3>2, SumLeq, SumType
      <3>5. Sum(g, Lesson) <= Total[s]
        BY <3>3, <3>4, TotalTyped
      <3> QED
        BY <3>5 DEF g
    <2>3. CASE s \in q.held
      <3> DEFINE f == Load(q, s, {})
                 one == [x \in Lesson |-> IF x = q.lesson THEN Billed(q, s) ELSE 0]
                 both == [x \in Lesson |-> f[x] + one[x]]
      <3>1. Fits(q, s, {})
        BY <1>1, <1>2, <2>3 DEF TxOK, LoadOK, Awaits
      <3>2. Billed(q, s) \in Nat /\ Total[s] \in Nat
        BY <1>4, TotalTyped DEF Billed
      <3>3. f \in [Lesson -> Int] /\ one \in [Lesson -> Int] /\ both \in [Lesson -> Int]
        <4>1. f \in [Lesson -> Int]
          BY <1>1, LoadTyped
        <4> HIDE DEF f
        <4> QED
          BY <3>2, <4>1
      <3>4. ASSUME NEW x \in Lesson PROVE g[x] <= both[x]
        <4>1. f[x] = charged[x][s] + ViewOf(q, x, s) + Pending(q, x, s)
          BY DEF Load
        <4>2. /\ g[x] = charged'[x][s] + reserved'[x][s]
              /\ both[x] = f[x] + IF x = q.lesson THEN Billed(q, s) ELSE 0
          OBVIOUS
        <4>3. /\ charged[x][s] \in Nat /\ ViewOf(q, x, s) \in Nat /\ Pending(q, x, s) = 0
              /\ reserved'[x][s] = ViewOf(q, x, s)
          BY <1>3, <1>4
        <4>4. charged'[x][s] <= charged[x][s] + IF x = q.lesson THEN Billed(q, s) ELSE 0
          BY <1>3, <1>4 DEF Billed
        <4>5. charged'[x][s] \in Nat
          BY <1>4
        <4> HIDE DEF f, g, both
        <4> QED
          BY <3>2, <4>1, <4>2, <4>3, <4>4, <4>5
      <3>5. Sum(one, Lesson) = Billed(q, s)
        <4>1. one[q.lesson] = Billed(q, s) /\ \A x \in Lesson \ {q.lesson} : one[x] = 0
          BY <1>3
        <4> HIDE DEF one
        <4> QED
          BY <1>3, <3>3, <4>1, SumOfOne
      <3>6. Sum(both, Lesson) = Sum(f, Lesson) + Sum(one, Lesson)
        <4>1. ASSUME NEW x \in Lesson
              PROVE  (IF x \in Lesson THEN both[x] ELSE 0)
                       = (IF x \in Lesson THEN f[x] ELSE 0) + (IF x \in Lesson THEN one[x] ELSE 0)
          OBVIOUS
        <4> HIDE DEF f, one, both
        <4> QED
          BY <3>3, <4>1, SumAdd, SMTT(60)
      <3>7. Sum(f, Lesson) + Billed(q, s) <= Total[s]
        BY <3>1 DEF Fits
      <3> HIDE DEF f, g, one, both
      <3>8. Sum(g, Lesson) <= Sum(both, Lesson)
        BY <2>1, <3>3, <3>4, SumLeq
      <3>9. Sum(f, Lesson) \in Int /\ Sum(g, Lesson) \in Int /\ Sum(both, Lesson) \in Int
        BY <2>1, <3>3, SumType
      <3>10. Sum(g, Lesson) <= Total[s]
        BY <3>2, <3>5, <3>6, <3>7, <3>8, <3>9
      <3> QED
        BY <3>10 DEF g
    <2> QED
      BY <2>2, <2>3
  <1>9. NeverOverdrawn'
    BY <1>8 DEF NeverOverdrawn
  <1> QED
    BY <1>3, <1>6, <1>7, <1>9 DEF CoverageInv

\* Statements that change no reserve, no charge and no transaction.
LEMMA TablesStep ==
    ASSUME CoverageInv, UNCHANGED <<plan, snapshot, reserved, booked, charged, tx>>,
           life' \in [Lesson -> {"absent", "scheduled", "pending", "closed"}],
           deleted' \subseteq Lesson, commands' \in 0..MaxCommands
    PROVE  CoverageInv'
  <1>1. Typed /\ Typed'
    BY DEF CoverageInv, Typed, TypeOK
  <1>2. SubsExclusive' /\ NeverOverdrawn'
    BY DEF CoverageInv, SubsExclusive, NeverOverdrawn
  <1>3. ASSUME NEW d \in Connection PROVE TxOK(tx[d])'
    <2> PICK o \in TxType : o = tx[d]
      BY TxFacts
    <2>1. o \in TxType /\ TxOK(o) /\ tx'[d] = o
      BY TxFacts
    <2>2. \A x \in Lesson, s \in o.held :
             reserved'[x][s] <= reserved[x][s] /\ charged'[x][s] = charged[x][s]
      BY <1>1, <2>1, Fields, UnitsTyped
    <2>3. TxOK(o)'
      BY <1>1, <2>1, <2>2, OtherKept
    <2> QED
      BY <2>1, <2>3
  <1> QED
    BY <1>1, <1>2, <1>3 DEF CoverageInv

LEMMA CoverageStep == CoverageInv /\ [Next]_vars => CoverageInv'
  <1> SUFFICES ASSUME CoverageInv, [Next]_vars PROVE CoverageInv'
    OBVIOUS
  <1>1. ASSUME NEW c \in Connection, Step(c) PROVE CoverageInv'
    BY <1>1, LockCoverageStep, MeasureStep, BillStep, CloseFreeStep, ChangePlanStep,
       TransferStep, RedistributeStep, InsertReserveStep, CommitStep DEF Step
  <1>2. ASSUME NEW x \in Lesson, HandOver(x) \/ DeleteLesson(x) PROVE CoverageInv'
    <2>1. /\ life \in [Lesson -> {"absent", "scheduled", "pending", "closed"}]
          /\ deleted \subseteq Lesson /\ commands \in 0..MaxCommands
      BY DEF CoverageInv, Typed, TypeOK
    <2>2. /\ life' \in [Lesson -> {"absent", "scheduled", "pending", "closed"}]
          /\ deleted' \subseteq Lesson
          /\ UNCHANGED <<plan, snapshot, reserved, booked, charged, tx>>
      BY <1>2, <2>1 DEF HandOver, DeleteLesson
    <2>3. commands' \in 0..MaxCommands
      BY <1>2, <2>1, CoverageAssumption DEF HandOver, DeleteLesson, Counted
    <2> QED
      BY <2>2, <2>3, TablesStep
  <1>3. CASE UNCHANGED vars
    <2>1. /\ life' \in [Lesson -> {"absent", "scheduled", "pending", "closed"}]
          /\ deleted' \subseteq Lesson /\ commands' \in 0..MaxCommands
          /\ UNCHANGED <<plan, snapshot, reserved, booked, charged, tx>>
      BY <1>3 DEF vars, tables, CoverageInv, Typed, TypeOK
    <2> QED
      BY <2>1, TablesStep
  <1> QED
    BY <1>1, <1>2, <1>3, BeginStep, RollbackStep DEF Next

\* Every table and every transaction holds what its columns can hold, of
\* whatever lessons, subscriptions and connections.
THEOREM TypeCorrect == Spec => []TypeOK
  <1>1. CoverageInv => TypeOK
    BY DEF CoverageInv, Typed
  <1> QED
    BY <1>1, InitCoverageInv, CoverageStep, PTL DEF Spec

\* No interleaving of commands, redistributions and rollbacks charges and
\* reserves more units of a subscription than it has lessons.
THEOREM UnitsNeverExceeded == Spec => []NeverOverdrawn
  <1>1. CoverageInv => NeverOverdrawn
    BY DEF CoverageInv
  <1> QED
    BY <1>1, InitCoverageInv, CoverageStep, PTL DEF Spec
-----------------------------------------------------------------------------
(* Handing out units gives each lesson what it needs, by date, or finds    *)
(* less than that.                                                         *)

\* A lesson that is passed over needed more than the earlier ones had left.
LEMMA AllocateFair ==
    ASSUME NEW need \in [Lesson -> Nat], NEW available \in Nat, NEW a \in Lesson
    PROVE  LET given == Allocate(need, available) IN
           \/ given[a] = need[a]
           \/ /\ given[a] = 0
              /\ need[a] + Sum(given, {y \in Lesson : y < a}) > available
  <1> DEFINE left == CHOOSE g : IsLeft(LessonCount, g, need, available)
             given == Allocate(need, available)
             earlier == {y \in Lesson : y < a}
  <1>1. IsLeft(LessonCount, left, need, available)
    BY LeftExists
  <1>2. given = [x \in Lesson |-> IF need[x] <= left[x - 1] THEN need[x] ELSE 0]
    BY DEF Allocate, IsLeft
  <1> HIDE DEF left, given
  <1>3. /\ left[0] = available
        /\ \A x \in Lesson :
              left[x] = IF need[x] <= left[x - 1] THEN left[x - 1] - need[x] ELSE left[x - 1]
    BY <1>1, CoverageAssumption DEF IsLeft, Lesson
  <1> HIDE DEF earlier
  <1>4. PICK g : /\ Sum(given, earlier) = g[LessonCount]
                 /\ g[0] = 0
                 /\ \A x \in Lesson : g[x] = g[x - 1] + IF x \in earlier THEN given[x] ELSE 0
    BY SumUnfold
  <1> DEFINE T == {x \in 0..LessonCount :
                     /\ left[x] \in Nat /\ g[x] \in Int
                     /\ IF x < a THEN g[x] + left[x] = available
                        ELSE g[x] + left[a - 1] = available}
  <1>5. a \in Nat /\ a # 0 /\ a - 1 \in 0..LessonCount /\ a \in 0..LessonCount
    BY CoverageAssumption DEF Lesson
  <1>6. 0 \in T
    BY <1>3, <1>4, <1>5, CoverageAssumption
  <1>7. ASSUME NEW x \in Lesson, x - 1 \in T PROVE x \in T
    <2>1. /\ x \in 0..LessonCount /\ x \in Nat /\ x # 0 /\ need[x] \in Nat
          /\ left[x - 1] \in Nat /\ g[x - 1] \in Int
          /\ IF x - 1 < a THEN g[x - 1] + left[x - 1] = available
             ELSE g[x - 1] + left[a - 1] = available
      BY <1>7, CoverageAssumption DEF Lesson
    <2>2. left[x] = IF need[x] <= left[x - 1] THEN left[x - 1] - need[x] ELSE left[x - 1]
      BY <1>3
    <2>3. g[x] = g[x - 1] + IF x < a THEN given[x] ELSE 0
      BY <1>4 DEF earlier
    <2>4. given[x] = IF need[x] <= left[x - 1] THEN need[x] ELSE 0
      BY <1>2
    <2>5. CASE x < a
      BY <1>5, <2>1, <2>2, <2>3, <2>4, <2>5
    <2>6. CASE x = a
      BY <1>5, <2>1, <2>2, <2>3, <2>6
    <2>7. CASE x > a
      BY <1>5, <2>1, <2>2, <2>3, <2>7
    <2> QED
      BY <1>5, <2>1, <2>5, <2>6, <2>7
  <1> HIDE DEF T
  <1>8. 0..LessonCount \subseteq T
    BY <1>6, <1>7, UpToLessons
  <1>9. g[LessonCount] + left[a - 1] = available /\ g[LessonCount] \in Int /\ left[a - 1] \in Nat
    <2>1. LessonCount \in T /\ a - 1 \in T /\ ~(LessonCount < a)
      BY <1>5, <1>8, CoverageAssumption
    <2> QED
      BY <2>1 DEF T
  <1>10. given[a] = IF need[a] <= left[a - 1] THEN need[a] ELSE 0
    BY <1>2
  <1>11. \/ given[a] = need[a]
         \/ given[a] = 0 /\ need[a] + Sum(given, earlier) > available
    BY <1>4, <1>9, <1>10
  <1> QED
    BY <1>11 DEF given, earlier

\* Each of a set of subscriptions has its redistribution.
LEMMA TasksCover ==
    ASSUME NEW S \in SUBSET Sub, NEW claim, NEW tasks \in Tasks(S, claim), NEW s \in S
    PROVE  \E i \in DOMAIN tasks : tasks[i].sub = s
  <1>1. PICK order \in SetToSeqs(S) : tasks = [i \in DOMAIN order |-> Task(order[i], claim)]
    BY DEF Tasks
  <1> DEFINE D == 1..Cardinality(S)
  <1>2. order \in [D -> S] /\ \A i, j \in D : i # j => order[i] # order[j]
    BY <1>1 DEF SetToSeqs
  <1>3. IsFiniteSet(S) /\ Cardinality(S) \in Nat
    BY FS_Subset, FS_CardinalityType, CoverageAssumption
  <1>4. IsFiniteSet(D) /\ Cardinality(D) = Cardinality(S)
    <2>1. D = 1..Cardinality(S) /\ Cardinality(S) - 1 + 1 = Cardinality(S)
      BY <1>3
    <2> QED
      BY <1>3, FS_Interval
  <1>5. order \in Injection(D, S)
    BY <1>2 DEF Injection, IsInjective
  <1> HIDE DEF D
  <1>6. order \in Surjection(D, S)
    BY <1>3, <1>4, <1>5, FS_Injection
  <1>7. PICK i \in D : order[i] = s
    BY <1>6 DEF Surjection
  <1>8. DOMAIN order = D
    BY <1>2
  <1>9. i \in DOMAIN tasks /\ tasks[i] = Task(s, claim)
    BY <1>1, <1>7, <1>8
  <1> QED
    BY <1>9 DEF Task

-----------------------------------------------------------------------------
(* Units go to the earliest lessons: the inductive invariant.              *)

\* The row locks: a lesson is held by one transaction, and while it is, no
\* other has inserted a reservation of it.
HasLocked(r, x) == x # NoLesson /\ x \in {r.lesson, r.successor}

HasShared(r, x) == \E s \in Sub : <<x, s>> \in r.rows

RowsExclusive ==
    \A c, d \in Connection : c # d =>
        \A x \in Lesson : HasLocked(tx[c], x) =>
            ~HasLocked(tx[d], x) /\ ~HasShared(tx[d], x)

BookedOK == \A x \in Lesson, s \in Sub : reserved[x][s] > 0 => s \in booked[x]

\* Only a lesson that is over is charged.
ChargedOK == \A x \in Lesson, s \in Sub : charged[x][s] > 0 => life[x] = "closed"

\* The lesson that is on its plan after the commit, if any.
OwnOf(r) == IF r.op = "reschedule" THEN r.successor ELSE r.lesson

Plans(r, x) == r.op \notin {"settle", "complete"} /\ x = OwnOf(r)

TaskOf(r, s) == \E i \in DOMAIN r.tasks : r.tasks[i].sub = s

\* No redistribution of s is left to be computed.
Done(r, s) == \A i \in DOMAIN r.tasks : r.tasks[i].sub = s => i = 1 /\ r.add # Nothing

\* What it has written it has written under the right locks: a reserve is an
\* inserted row, a release is of a subscription it holds or of its own lesson,
\* and the subscriptions on which its lesson has reserves are locked or are
\* to be redistributed.  Its lessons have no charge yet.
Moves == {"edit", "settle", "complete", "reschedule"}

WrittenOK(r) ==
    /\ \A x \in Lesson, s \in Sub : r.made[x][s] > 0 => <<x, s>> \in r.rows
    /\ \A x \in Lesson, s \in Sub :
          <<x, s>> \in r.dropped => s \in r.held \/ (x = r.lesson /\ r.op \in Moves)
    /\ r.op \in Moves /\ (r.at = "covering" \/ (r.at # "idle" /\ r.op # "complete")) =>
          \A s \in Sub : reserved[r.lesson][s] > 0 => s \in r.locks \union r.held \/ TaskOf(r, s)
    /\ \A x \in Lesson : HasLocked(r, x) => \A s \in Sub : charged[x][s] = 0
    /\ r.billed > 0 => r.op \in {"settle", "complete"}

\* The redistribution in which its own lesson takes part comes last.
LastOK(r) ==
    r.at = "covering" /\ r.op \notin {"settle", "complete"} /\ r.want # Unfunded =>
        IF r.tasks = << >> THEN r.want.sub \in r.held
        ELSE LET t == r.tasks[Len(r.tasks)] IN t.sub = r.want.sub /\ t.claim # "no"

\* Lessons on their plan after the commit, and the units they need.
OnOf(r, s) ==
    {x \in Lesson : IF Plans(r, x) THEN r.want.sub = s
                    ELSE x # r.lesson /\ Movable(x) /\ plan[x].sub = s}

UnitsOf(r, x) == IF Plans(r, x) THEN r.want.units ELSE plan[x].units

Held(r, s) == [x \in Lesson |-> ViewOf(r, x, s) + Pending(r, x, s)]

Charges(s) == Sum([x \in Lesson |-> charged[x][s]], Lesson)

\* Served before x: the lessons that are not on the plan, and the earlier ones.
Before(on, x) == {y \in Lesson : y \notin on \/ y < x}

\* Every lesson of "on" has the units it needs, or they were not left.
Served(on, need, f, spent, s) ==
    \A x \in on : \/ f[x] = need[x]
                  \/ f[x] = 0 /\ need[x] + spent + Sum(f, Before(on, x)) > Total[s]

ServedOK(r) ==
    r.at = "covering" =>
        \A s \in r.held : Done(r, s) =>
            Served(OnOf(r, s), [x \in Lesson |-> UnitsOf(r, x)], Held(r, s),
                   Charges(s) + Billed(r, s), s)

\* What it is about to reserve it has released.
AddOK(r) ==
    r.add # Nothing =>
        \A x \in Lesson : r.add[x] > 0 =>
            <<x, Head(r.tasks).sub>> \in r.dropped /\ r.made[x][Head(r.tasks).sub] = 0

On(s) == {x \in Lesson : Movable(x) /\ plan[x].sub = s}

TurnOK(r) == WrittenOK(r) /\ LastOK(r) /\ AddOK(r) /\ ServedOK(r)

TurnInv ==
    /\ CoverageInv
    /\ RowsExclusive
    /\ BookedOK /\ ChargedOK
    /\ \A c \in Connection : TurnOK(tx[c])
    /\ \A s \in Sub : Served(On(s), [x \in Lesson |-> plan[x].units],
                             [x \in Lesson |-> reserved[x][s]], Charges(s), s)

-----------------------------------------------------------------------------
LEMMA TurnFacts ==
    ASSUME TurnInv, NEW c \in Connection
    PROVE  /\ CoverageInv /\ Typed /\ tx[c] \in TxType /\ TxOK(tx[c]) /\ TurnOK(tx[c])
           /\ \A d \in Others(c) : tx[c].held \intersect tx[d].held = {}
           /\ \A d \in Others(c), x \in Lesson :
                 /\ HasLocked(tx[c], x) => ~HasLocked(tx[d], x) /\ ~HasShared(tx[d], x)
                 /\ HasLocked(tx[d], x) => ~HasLocked(tx[c], x) /\ ~HasShared(tx[c], x)
  BY TxFacts DEF TurnInv, RowsExclusive, Others

\* Lessons that leave the plan, whatever they take along, disturb no other.
LEMMA ServedFewer ==
    ASSUME NEW s \in Sub, NEW f \in [Lesson -> Nat], NEW on, NEW less \in SUBSET on,
           on \subseteq Lesson, NEW need \in [Lesson -> Nat], NEW need2 \in [Lesson -> Nat],
           \A x \in less : need2[x] = need[x],
           NEW spent \in Int, Served(on, need, f, spent, s)
    PROVE  Served(less, need2, f, spent, s)
  <1> SUFFICES ASSUME NEW x \in less, f[x] # need[x]
               PROVE  f[x] = 0 /\ need[x] + spent + Sum(f, Before(less, x)) > Total[s]
    BY DEF Served
  <1>1. f[x] = 0 /\ need[x] + spent + Sum(f, Before(on, x)) > Total[s]
    BY DEF Served
  <1>2. f \in [Lesson -> Int]
    OBVIOUS
  <1>3. \A y \in Lesson : (IF y \in Before(on, x) THEN f[y] ELSE 0)
                            <= (IF y \in Before(less, x) THEN f[y] ELSE 0)
    BY DEF Before
  <1>4. Sum(f, Before(on, x)) <= Sum(f, Before(less, x))
    BY <1>2, <1>3, SumLeq
  <1>5. Sum(f, Before(on, x)) \in Int /\ Sum(f, Before(less, x)) \in Int
    BY <1>2, SumType
  <1>6. need[x] \in Nat /\ Total[s] \in Nat
    BY TotalTyped
  <1> QED
    BY <1>1, <1>4, <1>5, <1>6

LEMMA ChargesTyped ==
    ASSUME Typed, NEW s \in Sub
    PROVE  Charges(s) \in Int
  <1> DEFINE f == [x \in Lesson |-> charged[x][s]]
  <1>1. f \in [Lesson -> Int]
    BY DEF Typed, TypeOK
  <1> HIDE DEF f
  <1>2. Sum(f, Lesson) \in Int
    BY <1>1, SumType
  <1> QED
    BY <1>2 DEF Charges, f

LEMMA NeedsTyped ==
    ASSUME Typed, NEW r \in TxType
    PROVE  /\ [x \in Lesson |-> plan[x].units] \in [Lesson -> Nat]
           /\ [x \in Lesson |-> UnitsOf(r, x)] \in [Lesson -> Nat]
  <1>1. \A x \in Lesson : plan[x].units \in Nat
    BY WantTyped DEF Typed, TypeOK
  <1>2. r.want.units \in Nat
    BY Fields, WantTyped
  <1> QED
    BY <1>1, <1>2 DEF UnitsOf

LEMMA HeldTyped ==
    ASSUME Typed, NEW r \in TxType, NEW s \in Sub
    PROVE  Held(r, s) \in [Lesson -> Nat]
  BY UnitsTyped DEF Held

\* What a transaction has done stays right while others change no units of the
\* subscriptions it holds, put no lesson on their plans, and leave its lessons
\* alone.
LEMMA Undisturbed ==
    ASSUME Typed, Typed', NEW r \in TxType, TurnOK(r), TxOK(r),
           \A x \in Lesson, s \in r.held :
              reserved'[x][s] = reserved[x][s] /\ charged'[x][s] = charged[x][s],
           \A x \in Lesson, s \in r.held :
              Movable(x)' /\ plan'[x].sub = s => Movable(x) /\ plan'[x] = plan[x],
           \A s \in Sub : reserved'[r.lesson][s] > 0 /\ r.lesson \in Lesson =>
              reserved[r.lesson][s] > 0,
           \A x \in Lesson, s \in Sub : HasLocked(r, x) => charged'[x][s] = charged[x][s]
    PROVE  TurnOK(r)'
  <1>1. WrittenOK(r)'
    <2>1. r.at # "idle" => r.lesson \in Lesson
      BY DEF TxOK, StageOK
    <2>2. WrittenOK(r)
      BY DEF TurnOK
    <2> QED
      BY <2>1, <2>2 DEF WrittenOK, TaskOf, HasLocked
  <1>2. LastOK(r)' /\ AddOK(r)'
    BY DEF TurnOK, LastOK, AddOK
  <1>3. ServedOK(r)'
    <2> SUFFICES ASSUME r.at = "covering", NEW s \in r.held, Done(r, s)
                 PROVE  Served(OnOf(r, s), [x \in Lesson |-> UnitsOf(r, x)], Held(r, s),
                               Charges(s) + Billed(r, s), s)'
      BY DEF ServedOK, Done
    <2> DEFINE on == OnOf(r, s)
               less == OnOf(r, s)'
               need == [x \in Lesson |-> UnitsOf(r, x)]
               need2 == [x \in Lesson |-> UnitsOf(r, x)']
               f == Held(r, s)
               spent == Charges(s) + Billed(r, s)
    <2>1. s \in Sub
      BY Fields
    <2>2. Served(on, need, f, spent, s)
      BY DEF TurnOK, ServedOK
    <2>3. f' = f
      BY DEF Held, ViewOf, Pending
    <2>4. spent' = spent /\ spent \in Int
      <3>1. [x \in Lesson |-> charged[x][s]]' = [x \in Lesson |-> charged[x][s]]
        OBVIOUS
      <3>2. Charges(s)' = Charges(s)
        BY <3>1 DEF Charges
      <3>3. Billed(r, s)' = Billed(r, s) /\ Billed(r, s) \in Int
        BY Fields DEF Billed
      <3> QED
        BY <2>1, <3>2, <3>3, ChargesTyped
    <2>5. less \subseteq on /\ on \subseteq Lesson
      <3>1. less = {x \in Lesson : IF Plans(r, x) THEN r.want.sub = s
                                   ELSE x # r.lesson /\ Movable(x)' /\ plan'[x].sub = s}
        BY DEF OnOf, Plans, OwnOf
      <3> HIDE DEF less
      <3> QED
        BY <3>1 DEF OnOf
    <2>6. \A x \in less : need2[x] = need[x]
      <3>1. \A x \in less : x \in Lesson /\ (Plans(r, x) \/ plan'[x] = plan[x])
        BY DEF OnOf, Plans, OwnOf
      <3>2. \A x \in Lesson : UnitsOf(r, x)' = IF Plans(r, x) THEN r.want.units
                                               ELSE plan'[x].units
        BY DEF UnitsOf, Plans, OwnOf
      <3> HIDE DEF less
      <3> QED
        BY <3>1, <3>2 DEF UnitsOf
    <2>7. need \in [Lesson -> Nat] /\ f \in [Lesson -> Nat]
      BY <2>1, NeedsTyped, HeldTyped
    <2>8. need2 \in [Lesson -> Nat]
      <3>1. \A x \in Lesson : plan'[x].units \in Nat
        BY WantTyped DEF Typed, TypeOK
      <3>2. r.want.units \in Nat
        BY Fields, WantTyped
      <3> QED
        BY <3>1, <3>2 DEF UnitsOf, Plans, OwnOf
    <2>9. need' = need2
      OBVIOUS
    <2> HIDE DEF on, less, need, need2, f, spent
    <2>10. Served(less, need2, f, spent, s)
      BY <2>1, <2>2, <2>4, <2>5, <2>6, <2>7, <2>8, ServedFewer
    <2>11. Served(less, need2, f', spent', s)
      BY <2>3, <2>4, <2>10
    <2> QED
      BY <2>11 DEF less, need2, f, spent, Served
  <1> QED
    BY <1>1, <1>2, <1>3 DEF TurnOK

LEMMA Steady ==
    ASSUME UNCHANGED tables, NEW r, TurnOK(r)
    PROVE  TurnOK(r)'
  <1>1. WrittenOK(r)' /\ LastOK(r)' /\ AddOK(r)'
    BY DEF TurnOK, WrittenOK, LastOK, AddOK, TaskOf, HasLocked, tables
  <1>2. ServedOK(r)'
    <2>1. \A s : Held(r, s)' = Held(r, s) /\ OnOf(r, s)' = OnOf(r, s)
                 /\ Charges(s)' = Charges(s)
      BY DEF Held, ViewOf, Pending, OnOf, Plans, OwnOf, Movable, Charges, tables
    <2>2. [x \in Lesson |-> UnitsOf(r, x)]' = [x \in Lesson |-> UnitsOf(r, x)]
      BY DEF UnitsOf, Plans, OwnOf, tables
    <2>3. \A s : Billed(r, s)' = Billed(r, s) /\ Done(r, s)' = Done(r, s)
      BY DEF Billed, Done
    <2> SUFFICES ASSUME r.at = "covering", NEW s \in r.held, Done(r, s)
                 PROVE  Served(OnOf(r, s), [x \in Lesson |-> UnitsOf(r, x)], Held(r, s),
                               Charges(s) + Billed(r, s), s)'
      BY <2>3 DEF ServedOK
    <2>4. Served(OnOf(r, s), [x \in Lesson |-> UnitsOf(r, x)], Held(r, s),
                 Charges(s) + Billed(r, s), s)
      BY DEF TurnOK, ServedOK
    <2>5. Served(OnOf(r, s)', [x \in Lesson |-> UnitsOf(r, x)]', Held(r, s)',
                 Charges(s)' + Billed(r, s)', s)
      BY <2>1, <2>2, <2>3, <2>4
    <2> QED
      BY <2>5 DEF Served
  <1> QED
    BY <1>1, <1>2 DEF TurnOK

\* A step of one transaction that leaves the tables alone.
LEMMA TurnStep ==
    ASSUME TurnInv, CoverageInv', UNCHANGED tables, NEW c \in Connection,
           NEW r, tx' = [tx EXCEPT ![c] = r], TurnOK(r),
           \A d \in Others(c), x \in Lesson :
              /\ HasLocked(r, x) => ~HasLocked(tx[d], x) /\ ~HasShared(tx[d], x)
              /\ HasShared(r, x) => ~HasLocked(tx[d], x)
    PROVE  TurnInv'
  <1>1. tx'[c] = r /\ \A d \in Others(c) : tx'[d] = tx[d]
    BY DEF TurnInv, CoverageInv, Typed, Others
  <1>2. RowsExclusive'
    <2> SUFFICES ASSUME NEW a \in Connection, NEW b \in Connection, a # b, NEW x \in Lesson,
                        HasLocked(tx'[a], x)
                 PROVE  ~HasLocked(tx'[b], x) /\ ~HasShared(tx'[b], x)
      BY DEF RowsExclusive, HasLocked, HasShared
    <2>1. CASE a = c
      BY <1>1, <2>1 DEF Others
    <2>2. CASE b = c
      BY <1>1, <2>2 DEF Others
    <2>3. CASE a # c /\ b # c
      BY <1>1, <2>3 DEF Others, TurnInv, RowsExclusive
    <2> QED
      BY <2>1, <2>2, <2>3
  <1>3. BookedOK' /\ ChargedOK'
    BY DEF TurnInv, BookedOK, ChargedOK, tables
  <1>4. ASSUME NEW d \in Connection PROVE TurnOK(tx[d])'
    <2> PICK o : o = tx'[d]
      OBVIOUS
    <2>1. TurnOK(o)
      BY <1>1, TurnFacts DEF Others
    <2>2. TurnOK(o)'
      BY <2>1, Steady
    <2> QED
      BY <2>2
  <1>5. ASSUME NEW s \in Sub
        PROVE  Served(On(s), [x \in Lesson |-> plan[x].units],
                      [x \in Lesson |-> reserved[x][s]], Charges(s), s)'
    <2>1. On(s)' = On(s) /\ Charges(s)' = Charges(s)
      BY DEF On, Movable, Charges, tables
    <2> QED
      BY <2>1 DEF TurnInv, Served, Before, tables
  <1> QED
    BY <1>2, <1>3, <1>4, <1>5 DEF TurnInv

\* Before its first redistribution a transaction has disturbed nothing that it
\* will not redistribute.
LEMMA ServedFirst ==
    ASSUME TurnInv, NEW r \in TxType,
           \A s \in r.held : Done(r, s) =>
              /\ Billed(r, s) = 0
              /\ r.op \notin {"settle", "complete"} => r.want.sub # s
              /\ r.op \in {"settle", "complete"} => OwnOf(r) = r.lesson
              /\ \A x \in Lesson : ViewOf(r, x, s) = reserved[x][s] /\ Pending(r, x, s) = 0
    PROVE  ServedOK(r)
  <1> SUFFICES ASSUME NEW s \in r.held, Done(r, s)
               PROVE  Served(OnOf(r, s), [x \in Lesson |-> UnitsOf(r, x)], Held(r, s),
                             Charges(s) + Billed(r, s), s)
    BY DEF ServedOK
  <1> DEFINE need == [x \in Lesson |-> plan[x].units]
             need2 == [x \in Lesson |-> UnitsOf(r, x)]
             f == [x \in Lesson |-> reserved[x][s]]
  <1>1. Typed /\ s \in Sub
    BY Fields DEF TurnInv, CoverageInv
  <1>2. Served(On(s), need, f, Charges(s), s)
    BY <1>1 DEF TurnInv
  <1>3. Held(r, s) = f
    <2>1. \A x \in Lesson : ViewOf(r, x, s) + Pending(r, x, s) = reserved[x][s]
      BY <1>1, UnitsTyped
    <2> QED
      BY <2>1 DEF Held
  <1>4. OnOf(r, s) \subseteq On(s) /\ On(s) \subseteq Lesson
    BY DEF OnOf, On, Plans
  <1>5. \A x \in OnOf(r, s) : need2[x] = need[x]
    BY DEF OnOf, UnitsOf, Plans
  <1>6. need \in [Lesson -> Nat] /\ need2 \in [Lesson -> Nat] /\ f \in [Lesson -> Nat]
        /\ Charges(s) \in Int
    BY <1>1, NeedsTyped, UnitsTyped, ChargesTyped
  <1>7. Charges(s) + Billed(r, s) = Charges(s)
    BY <1>6
  <1> HIDE DEF need, need2, f
  <1>8. Served(OnOf(r, s), need2, f, Charges(s), s)
    BY <1>1, <1>2, <1>4, <1>5, <1>6, ServedFewer
  <1> QED
    BY <1>3, <1>7, <1>8 DEF need2

-----------------------------------------------------------------------------
(* Commands begin, lock and measure.                                       *)

\* A transaction that starts with row locks to take.
LEMMA LockingTurn ==
    ASSUME TurnInv, CoverageInv', NEW c \in Connection, NEW op \in Moves,
           NEW x \in Lesson, NEW y \in Lesson \union {NoLesson},
           NEW want \in Plan \union {Unfunded}, NEW locks \in SUBSET Sub,
           op # "complete" => booked[x] \subseteq locks,
           life[x] # "closed", RowFree(c, x),
           y # NoLesson => life[y] # "closed" /\ RowFree(c, y),
           NEW command,
           \/ command = Command(op, x, want) /\ y = NoLesson
           \/ command = [Command(op, x, want) EXCEPT !.successor = y],
           Start(c, Locking(command, locks))
    PROVE  TurnInv'
  <1> DEFINE q == Command(op, x, want)
             r == Locking(command, locks)
  <1>1. /\ q \in TxType
        /\ q.op = op /\ q.lesson = x /\ q.want = want
        /\ q.locks = {} /\ q.held = {} /\ q.tasks = << >> /\ q.made = NoUnits
        /\ q.dropped = {} /\ q.add = Nothing /\ q.billed = 0
    BY CommandTyped DEF Ops, Moves
  <1>2. q.rows = {} /\ q.successor = NoLesson
    BY DEF Command, Idle
  <1> HIDE DEF q
  <1>3. /\ (command = q /\ y = NoLesson) \/ command = [q EXCEPT !.successor = y]
        /\ r = [command EXCEPT !.at = "locking", !.locks = locks]
    BY DEF Locking, q
  <1>4. /\ r.op = op /\ r.lesson = x /\ r.successor = y /\ r.at = "locking" /\ r.locks = locks
        /\ r.made = NoUnits /\ r.dropped = {} /\ r.rows = {} /\ r.billed = 0 /\ r.add = Nothing
    <2>1. /\ command \in TxType
          /\ command.op = op /\ command.lesson = x /\ command.successor = y
          /\ command.made = NoUnits /\ command.dropped = {} /\ command.rows = {}
          /\ command.billed = 0 /\ command.add = Nothing
      <3>1. CASE command = q /\ y = NoLesson
        BY <1>1, <1>2, <3>1
      <3>2. CASE command = [q EXCEPT !.successor = y]
        BY <1>1, <1>2, <3>2 DEF TxType
      <3> QED
        BY <1>3, <3>1, <3>2
    <2>2. r = [command EXCEPT !.at = "locking", !.locks = locks]
      BY <1>3
    <2> HIDE DEF r
    <2> QED
      BY <2>1, <2>2 DEF TxType
  <1>5. tx' = [tx EXCEPT ![c] = r] /\ UNCHANGED tables
    BY DEF Start
  <1> HIDE DEF r
  <1>6. \A z \in Lesson : HasLocked(r, z) => z = x \/ (z = y /\ y # NoLesson)
    BY <1>4 DEF HasLocked
  <1>7. WrittenOK(r)
    <2>1. \A z \in Lesson, s \in Sub : ~ (r.made[z][s] > 0)
      BY <1>4 DEF NoUnits
    <2>2. \A z \in Lesson : HasLocked(r, z) => \A s \in Sub : charged[z][s] = 0
      BY <1>6 DEF TurnInv, ChargedOK, CoverageInv, Typed, TypeOK
    <2>3. \A s \in Sub : op # "complete" /\ reserved[x][s] > 0 => s \in locks
      BY DEF TurnInv, BookedOK
    <2> QED
      BY <1>4, <2>1, <2>2, <2>3 DEF WrittenOK
  <1>8. LastOK(r) /\ AddOK(r) /\ ServedOK(r)
    BY <1>4 DEF LastOK, AddOK, ServedOK
  <1>9. ASSUME NEW d \in Others(c), NEW z \in Lesson
        PROVE  /\ HasLocked(r, z) => ~HasLocked(tx[d], z) /\ ~HasShared(tx[d], z)
               /\ ~HasShared(r, z)
    BY <1>4, <1>6 DEF RowFree, RowHeld, RowShared, HasLocked, HasShared
  <1> QED
    BY <1>5, <1>7, <1>8, <1>9, TurnStep DEF TurnOK

LEMMA BeginTurn ==
    ASSUME TurnInv, NEW c \in Connection, Begin(c)
    PROVE  TurnInv'
  <1>1. CoverageInv'
    BY BeginStep DEF TurnInv
  <1>2. Typed /\ \A x \in Lesson : booked[x] \subseteq Sub
    BY DEF TurnInv, CoverageInv, Typed, TypeOK
  <1>4. \A x \in Lesson, want \in Plan \union {Unfunded} :
           Coverage(x, want) \in SUBSET Sub /\ booked[x] \subseteq Coverage(x, want)
    <2>1. NoSub \notin Sub
      BY CoverageAssumption
    <2> QED
      BY <1>2, <2>1, CoverageTyped DEF Coverage
  <1>5. ASSUME NEW x \in Lesson, BeginComplete(c, x) PROVE TurnInv'
    <2>1. plan[x] \in Plan \union {Unfunded}
      BY <1>2 DEF Typed, TypeOK
    <2>2. {plan[x].sub} \ {NoSub} \in SUBSET Sub
      BY <2>1, WantTyped
    <2>3. /\ life[x] # "closed" /\ RowFree(c, x)
          /\ Start(c, Locking(Command("complete", x, plan[x]), {plan[x].sub} \ {NoSub}))
      BY <1>5 DEF BeginComplete, Movable
    <2> QED
      BY <1>1, <2>1, <2>2, <2>3, LockingTurn DEF Moves
  <1>6. ASSUME NEW x \in Lesson, NEW want \in Plan,
               BeginEdit(c, x, want) \/ BeginSettle(c, x, want)
        PROVE  TurnInv'
    <2>1. PICK op \in {"edit", "settle"} : Start(c, Locking(Command(op, x, want), Coverage(x, want)))
      BY <1>6 DEF BeginEdit, BeginSettle
    <2>2. life[x] # "closed" /\ RowFree(c, x)
      BY <1>6 DEF BeginEdit, BeginSettle, Open
    <2> QED
      BY <1>1, <1>4, <2>1, <2>2, LockingTurn DEF Moves
  <1>7. ASSUME NEW x \in Lesson, NEW want \in Plan, NEW y \in Lesson,
               BeginReschedule(c, x, y, want)
        PROVE  TurnInv'
    <2>1. /\ life[x] # "closed" /\ RowFree(c, x) /\ life[y] # "closed" /\ RowFree(c, y)
          /\ Start(c, Locking([Command("reschedule", x, want) EXCEPT !.successor = y],
                              Coverage(x, want)))
      BY <1>7 DEF BeginReschedule, Open, Vacant
    <2> QED
      BY <1>1, <1>4, <2>1, LockingTurn DEF Moves
  <1>8. ASSUME NEW x \in Lesson, NEW want \in Plan, BeginCreate(c, x, want)
        PROVE  TurnInv'
    <2>1. PICK how \in {"must", "may"} :
             Start(c, [Command("create", x, want) EXCEPT
                          !.at = "covering", !.tasks = Claim(want, how)])
      BY <1>8 DEF BeginCreate
    <2> DEFINE q == Command("create", x, want)
               r == [q EXCEPT !.at = "covering", !.tasks = Claim(want, how)]
    <2>2. /\ q \in TxType
          /\ q.op = "create" /\ q.lesson = x /\ q.want = want
          /\ q.locks = {} /\ q.held = {} /\ q.tasks = << >> /\ q.made = NoUnits
          /\ q.dropped = {} /\ q.add = Nothing /\ q.billed = 0
      BY CommandTyped DEF Ops
    <2>3. q.rows = {} /\ q.successor = NoLesson
      BY DEF Command, Idle
    <2>4. tx' = [tx EXCEPT ![c] = r] /\ UNCHANGED tables
      BY <2>1 DEF Start
    <2> HIDE DEF q
    <2>5. /\ r.op = "create" /\ r.at = "covering" /\ r.lesson = x /\ r.successor = NoLesson
          /\ r.want = want /\ r.held = {} /\ r.tasks = Claim(want, how)
          /\ r.made = NoUnits /\ r.dropped = {} /\ r.rows = {} /\ r.billed = 0 /\ r.add = Nothing
      BY <2>2, <2>3 DEF TxType
    <2> HIDE DEF r
    <2>6. \A z \in Lesson : HasLocked(r, z) => z = x
      BY <2>5 DEF HasLocked
    <2>7. life[x] = "absent" /\ RowFree(c, x)
      BY <1>8 DEF BeginCreate, Vacant
    <2>8. WrittenOK(r)
      <3>1. \A z \in Lesson, s \in Sub : ~ (r.made[z][s] > 0)
        BY <2>5 DEF NoUnits
      <3>2. \A z \in Lesson : HasLocked(r, z) => \A s \in Sub : charged[z][s] = 0
        BY <2>6, <2>7 DEF TurnInv, ChargedOK, CoverageInv, Typed, TypeOK
      <3> QED
        BY <2>5, <3>1, <3>2 DEF WrittenOK, Moves
    <2>9. LastOK(r)
      <3> SUFFICES ASSUME want # Unfunded
                   PROVE  /\ r.tasks # << >>
                          /\ r.tasks[Len(r.tasks)].sub = want.sub
                          /\ r.tasks[Len(r.tasks)].claim # "no"
        BY <2>5 DEF LastOK
      <3> PICK t : t = Task(want.sub, how)
        OBVIOUS
      <3>1. r.tasks = <<t>>
        BY <2>5 DEF Claim
      <3>2. Len(r.tasks) = 1 /\ r.tasks[1] = t /\ r.tasks # << >>
        BY <3>1
      <3>3. t.sub = want.sub /\ t.claim # "no"
        BY DEF Task
      <3> QED
        BY <3>2, <3>3
    <2>10. AddOK(r) /\ ServedOK(r)
      BY <2>5 DEF AddOK, ServedOK
    <2>11. ASSUME NEW d \in Others(c), NEW z \in Lesson
           PROVE  /\ HasLocked(r, z) => ~HasLocked(tx[d], z) /\ ~HasShared(tx[d], z)
                  /\ ~HasShared(r, z)
      BY <2>5, <2>6, <2>7 DEF RowFree, RowHeld, RowShared, HasLocked, HasShared
    <2> QED
      BY <1>1, <2>4, <2>8, <2>9, <2>10, <2>11, TurnStep DEF TurnOK
  <1> QED
    BY <1>5, <1>6, <1>7, <1>8 DEF Begin


LEMMA LockCoverageTurn ==
    ASSUME TurnInv, NEW c \in Connection, LockCoverage(c)
    PROVE  TurnInv'
  <1> DEFINE q == tx[c]
             s == Min(q.locks)
             r == [q EXCEPT !.held = q.held \union {s}, !.locks = q.locks \ {s}]
  <1>1. CoverageInv' /\ UNCHANGED tables /\ tx' = [tx EXCEPT ![c] = r] /\ q.locks # {}
    BY LockCoverageStep DEF TurnInv, LockCoverage, Proceed, Start
  <1>2. /\ q \in TxType /\ TxOK(q) /\ TurnOK(q)
        /\ \A d \in Others(c), x \in Lesson :
              /\ HasLocked(q, x) => ~HasLocked(tx[d], x) /\ ~HasShared(tx[d], x)
              /\ HasLocked(tx[d], x) => ~HasLocked(q, x) /\ ~HasShared(q, x)
    BY TurnFacts
  <1>3. s \in q.locks
    BY <1>1, <1>2, Fields, MinOfSubs
  <1> HIDE DEF q, s
  <1>4. /\ r.held = q.held \union {s} /\ r.locks = q.locks \ {s}
        /\ r.at = q.at /\ r.op = q.op /\ r.lesson = q.lesson /\ r.successor = q.successor
        /\ r.rows = q.rows /\ r.want = q.want /\ r.tasks = q.tasks /\ r.made = q.made
        /\ r.dropped = q.dropped /\ r.add = q.add /\ r.billed = q.billed
    BY <1>2 DEF TxType
  <1> HIDE DEF r
  <1>5. r.at = "locking"
    BY <1>1, <1>2, <1>4 DEF TxOK, StageOK
  <1>6. WrittenOK(r)
    <2>1. r.locks \union r.held = q.locks \union q.held /\ q.held \subseteq r.held
      BY <1>3, <1>4
    <2>2. WrittenOK(q)
      BY <1>2 DEF TurnOK
    <2> QED
      BY <1>4, <2>1, <2>2 DEF WrittenOK, TaskOf, HasLocked
  <1>7. LastOK(r) /\ AddOK(r) /\ ServedOK(r)
    <2>1. r.add = Nothing
      BY <1>2, <1>4, <1>5 DEF TxOK, StageOK
    <2> QED
      BY <1>5, <2>1 DEF LastOK, AddOK, ServedOK
  <1>8. \A d \in Others(c), x \in Lesson :
           /\ HasLocked(r, x) => ~HasLocked(tx[d], x) /\ ~HasShared(tx[d], x)
           /\ HasShared(r, x) => ~HasLocked(tx[d], x)
    BY <1>2, <1>4 DEF HasLocked, HasShared
  <1> QED
    BY <1>1, <1>6, <1>7, <1>8, TurnStep DEF TurnOK

LEMMA MeasureTurn ==
    ASSUME TurnInv, NEW c \in Connection, Measure(c)
    PROVE  TurnInv'
  <1>1. CoverageInv' /\ UNCHANGED tables
    BY MeasureStep DEF TurnInv, Measure, Proceed, Start
  <1> DEFINE q == tx[c]
  <1>2. /\ q \in TxType /\ TxOK(q) /\ TurnOK(q)
        /\ \A d \in Others(c), x \in Lesson :
              /\ HasLocked(q, x) => ~HasLocked(tx[d], x) /\ ~HasShared(tx[d], x)
              /\ HasLocked(tx[d], x) => ~HasLocked(q, x) /\ ~HasShared(q, x)
    BY TurnFacts
  <1>3. q.at = "locking" /\ q.locks = {}
    BY DEF Measure, Locked
  <1>4. PICK free : tx' = [tx EXCEPT ![c] = [q EXCEPT !.available = free, !.at = "measured"]]
    BY DEF Measure, Proceed, Start
  <1> DEFINE r == [q EXCEPT !.available = free, !.at = "measured"]
  <1> HIDE DEF q
  <1>5. /\ r.at = "measured" /\ r.held = q.held /\ r.locks = q.locks
        /\ r.op = q.op /\ r.lesson = q.lesson /\ r.successor = q.successor
        /\ r.rows = q.rows /\ r.tasks = q.tasks /\ r.made = q.made
        /\ r.dropped = q.dropped /\ r.add = q.add /\ r.billed = q.billed
    BY <1>2 DEF TxType
  <1>6. tx' = [tx EXCEPT ![c] = r]
    BY <1>4
  <1> HIDE DEF r
  <1>7. WrittenOK(r)
    <2>1. WrittenOK(q)
      BY <1>2 DEF TurnOK
    <2>2. q.op \in Moves /\ q.op # "complete" =>
             \A s \in Sub : reserved[q.lesson][s] > 0 => s \in q.held \/ TaskOf(q, s)
      BY <1>3, <2>1 DEF WrittenOK
    <2> QED
      BY <1>5, <2>1, <2>2 DEF WrittenOK, TaskOf, HasLocked
  <1>8. LastOK(r) /\ AddOK(r) /\ ServedOK(r)
    <2>1. r.add = Nothing
      BY <1>2, <1>3, <1>5 DEF TxOK, StageOK
    <2> QED
      BY <1>5, <2>1 DEF LastOK, AddOK, ServedOK
  <1>9. \A d \in Others(c), x \in Lesson :
           /\ HasLocked(r, x) => ~HasLocked(tx[d], x) /\ ~HasShared(tx[d], x)
           /\ HasShared(r, x) => ~HasLocked(tx[d], x)
    BY <1>2, <1>5 DEF HasLocked, HasShared
  <1> QED
    BY <1>1, <1>6, <1>7, <1>8, <1>9, TurnStep DEF TurnOK

LEMMA IdleTurn ==
    /\ TurnOK(Idle)
    /\ \A x \in Lesson : ~HasLocked(Idle, x) /\ ~HasShared(Idle, x)
  <1>1. Idle.successor = NoLesson /\ Idle.rows = {}
    BY DEF Idle
  <1>2. \A x \in Lesson : ~HasLocked(Idle, x) /\ ~HasShared(Idle, x)
    BY <1>1, IdleTyped DEF HasLocked, HasShared
  <1>3. \A x \in Lesson, s \in Sub : ~ (Idle.made[x][s] > 0)
    BY IdleTyped DEF NoUnits
  <1>4. WrittenOK(Idle)
    BY <1>2, <1>3, IdleTyped DEF WrittenOK, Moves
  <1>5. LastOK(Idle) /\ AddOK(Idle) /\ ServedOK(Idle)
    BY IdleTyped DEF LastOK, AddOK, ServedOK
  <1> QED
    BY <1>2, <1>4, <1>5 DEF TurnOK

LEMMA RollbackTurn ==
    ASSUME TurnInv, NEW c \in Connection, Rollback(c)
    PROVE  TurnInv'
  <1>1. CoverageInv' /\ UNCHANGED tables /\ tx' = [tx EXCEPT ![c] = Idle]
    BY RollbackStep DEF TurnInv, Rollback, Proceed, Start
  <1>2. \A d \in Others(c), x \in Lesson :
           /\ HasLocked(Idle, x) => ~HasLocked(tx[d], x) /\ ~HasShared(tx[d], x)
           /\ HasShared(Idle, x) => ~HasLocked(tx[d], x)
    BY IdleTurn
  <1> HIDE DEF Idle
  <1> QED
    BY <1>1, <1>2, IdleTurn, TurnStep

-----------------------------------------------------------------------------
(* Its lesson is closed, changed or moved, before the redistributions.     *)

\* A transaction that comes to redistribute all that it has disturbed.
LEMMA FirstTurn ==
    ASSUME TurnInv, CoverageInv', UNCHANGED tables, NEW c \in Connection,
           NEW r \in TxType, tx' = [tx EXCEPT ![c] = r],
           r.op = tx[c].op, r.op \in Moves, r.at = "covering",
           r.lesson = tx[c].lesson, r.successor = tx[c].successor, r.lesson \in Lesson,
           r.add = Nothing, r.dropped \in {{}, AllOf(r.lesson)},
           \A x \in Lesson, s \in Sub :
              r.made[x][s] > 0 => <<x, s>> \in r.rows /\ TaskOf(r, s),
           \A x \in Lesson, s \in Sub :
              <<x, s>> \in r.rows => <<x, s>> \in tx[c].rows \/ x = r.successor,
           \A s \in Sub : reserved[r.lesson][s] > 0 => s \in r.held \/ TaskOf(r, s),
           \A s \in Sub : reserved[r.lesson][s] > 0 /\ r.dropped # {} => TaskOf(r, s),
           r.billed > 0 => r.op \in {"settle", "complete"} /\ TaskOf(r, r.want.sub),
           r.op \notin {"settle", "complete"} /\ r.want.sub \in Sub => TaskOf(r, r.want.sub),
           LastOK(r)
    PROVE  TurnInv'
  <1>1. /\ Typed /\ WrittenOK(tx[c])
        /\ \A d \in Others(c), x \in Lesson :
              /\ HasLocked(tx[c], x) => ~HasLocked(tx[d], x) /\ ~HasShared(tx[d], x)
              /\ HasLocked(tx[d], x) => ~HasLocked(tx[c], x) /\ ~HasShared(tx[c], x)
    BY TurnFacts DEF TurnOK
  <1>2. \A x \in Lesson : HasLocked(r, x) <=> HasLocked(tx[c], x)
    BY DEF HasLocked
  <1>3. WrittenOK(r)
    <2>1. \A x \in Lesson, s \in Sub : <<x, s>> \in r.dropped => x = r.lesson
      BY DEF AllOf
    <2>2. \A x \in Lesson : HasLocked(r, x) => \A s \in Sub : charged[x][s] = 0
      BY <1>1, <1>2 DEF WrittenOK
    <2> QED
      BY <2>1, <2>2 DEF WrittenOK
  <1>4. ASSUME NEW s \in r.held, Done(r, s)
        PROVE  /\ Billed(r, s) = 0
               /\ r.op \notin {"settle", "complete"} => r.want.sub # s
               /\ r.op \in {"settle", "complete"} => OwnOf(r) = r.lesson
               /\ \A x \in Lesson : ViewOf(r, x, s) = reserved[x][s] /\ Pending(r, x, s) = 0
    <2>1. s \in Sub /\ r.billed \in Nat
      BY Fields
    <2>2. ~TaskOf(r, s)
      BY <1>4 DEF Done, TaskOf
    <2>3. Billed(r, s) = 0
      BY <2>1, <2>2 DEF Billed
    <2>4. ASSUME NEW x \in Lesson PROVE ViewOf(r, x, s) = reserved[x][s] /\ Pending(r, x, s) = 0
      <3>1. ~ (r.made[x][s] > 0)
        BY <2>1, <2>2
      <3>2. reserved[x][s] \in Nat
        BY <1>1, <2>1, UnitsTyped
      <3>3. <<x, s>> \in r.dropped => reserved[x][s] = 0
        BY <2>1, <2>2, <3>2 DEF AllOf
      <3>4. Pending(r, x, s) = 0
        BY DEF Pending, Nothing
      <3> QED
        BY <3>1, <3>3, <3>4 DEF ViewOf
    <2>5. r.op \notin {"settle", "complete"} => r.want.sub # s
      BY <2>1, <2>2
    <2>6. r.op \in {"settle", "complete"} => OwnOf(r) = r.lesson
      BY DEF OwnOf
    <2> QED
      BY <2>3, <2>4, <2>5, <2>6
  <1>5. ServedOK(r)
    BY <1>4, ServedFirst
  <1>6. ASSUME NEW d \in Others(c), NEW x \in Lesson
        PROVE  /\ HasLocked(r, x) => ~HasLocked(tx[d], x) /\ ~HasShared(tx[d], x)
               /\ HasShared(r, x) => ~HasLocked(tx[d], x)
    <2>1. HasShared(r, x) => HasShared(tx[c], x) \/ HasLocked(tx[c], x)
      BY DEF HasShared, HasLocked, NoLesson, Lesson
    <2> QED
      BY <1>1, <1>2, <2>1
  <1> QED
    BY <1>3, <1>5, <1>6, TurnStep DEF TurnOK, AddOK

\* The last of a sequence of tasks.
LEMMA LastTask ==
    ASSUME NEW a \in Seq(TaskSet), NEW want \in Plan, want # Unfunded
    PROVE  LET all == a \o Claim(want, "may") IN
           /\ all # << >> /\ Len(all) \in DOMAIN all
           /\ all[Len(all)].sub = want.sub /\ all[Len(all)].claim = "may"
  <1> PICK t : t = Task(want.sub, "may")
    OBVIOUS
  <1> DEFINE all == a \o Claim(want, "may")
  <1>1. all = a \o <<t>>
    BY DEF Claim
  <1> HIDE DEF TaskSet, all
  <1>2. all # << >> /\ Len(all) \in DOMAIN all /\ all[Len(all)] = t
    BY <1>1
  <1>3. t.sub = want.sub /\ t.claim = "may"
    BY DEF Task
  <1> QED
    BY <1>2, <1>3 DEF all

LEMMA FundedSub ==
    ASSUME NEW want \in Plan \union {Unfunded}
    PROVE  want.sub \in Sub <=> want # Unfunded
  <1>1. want # Unfunded => want.sub \in Sub
    BY WantTyped
  <1>2. Unfunded.sub = NoSub /\ NoSub \notin Sub
    BY CoverageAssumption DEF Unfunded
  <1> QED
    BY <1>1, <1>2

LEMMA CloseTurn ==
    ASSUME TurnInv, CoverageInv', NEW c \in Connection, NEW subs \in SUBSET Sub, Close(c, subs),
           tx[c].at \in {"locking", "measured"}, tx[c].locks = {},
           tx[c].op \in {"settle", "complete"},
           ReservedOn(c, tx[c].lesson) \subseteq subs,
           tx[c].want # Unfunded => tx[c].want.sub \in subs
    PROVE  TurnInv'
  <1> DEFINE q == tx[c]
             w == q.want
  <1>1. q \in TxType /\ TxOK(q) /\ TurnOK(q) /\ Typed
    BY TurnFacts
  <1>2. PICK tasks \in Tasks(subs, "no") :
           Proceed(c, [tx[c] EXCEPT !.at = "covering",
                                    !.held = @ \union ({tx[c].want.sub} \ {NoSub}),
                                    !.available = 0,
                                    !.billed = tx[c].want.units,
                                    !.dropped = AllOf(tx[c].lesson),
                                    !.tasks = tasks])
    BY DEF Close
  <1> DEFINE r == [q EXCEPT !.at = "covering",
                            !.held = @ \union ({w.sub} \ {NoSub}),
                            !.available = 0,
                            !.billed = w.units,
                            !.dropped = AllOf(q.lesson),
                            !.tasks = tasks]
  <1>3. tx' = [tx EXCEPT ![c] = r] /\ UNCHANGED tables
    BY <1>2 DEF Proceed, Start
  <1>4. /\ q.lesson \in Lesson /\ q.made = NoUnits /\ q.add = Nothing /\ q.dropped = {}
        /\ q.at # "covering"
    BY <1>1 DEF TxOK, StageOK
  <1>5. w \in Plan \union {Unfunded}
    BY <1>1, Fields
  <1>6. /\ r.at = "covering" /\ r.op = q.op /\ r.lesson = q.lesson /\ r.successor = q.successor
        /\ r.want = w /\ r.tasks = tasks /\ r.made = NoUnits /\ r.rows = q.rows
        /\ r.dropped = AllOf(q.lesson) /\ r.add = Nothing /\ r.billed = w.units
    <2> HIDE DEF w
    <2>1. q.want = w
      BY DEF w
    <2> HIDE DEF q
    <2> QED
      BY <1>1, <1>4, <2>1 DEF TxType
  <1>7. r \in TxType
    <2>1. tx'[c] = r
      BY <1>1, <1>3 DEF Typed
    <2>2. tx'[c] \in TxType
      BY DEF CoverageInv, Typed
    <2> HIDE DEF r
    <2> QED
      BY <2>1, <2>2
  <1>8. \A s \in Sub : reserved[q.lesson][s] > 0 => s \in subs
    <2>1. \A s \in Sub : View(c, q.lesson, s) = reserved[q.lesson][s]
      BY <1>4 DEF View, NoUnits
    <2> QED
      BY <2>1 DEF ReservedOn
  <1>9. w # Unfunded => w.sub \in subs
    OBVIOUS
  <1>11. q.op \in {"settle", "complete"}
    OBVIOUS
  <1> HIDE DEF q, r, w
  <1>10. \A s \in subs : TaskOf(r, s)
    BY <1>6, TasksCover DEF TaskOf
  <1>12. /\ r.op \in Moves /\ r.op \in {"settle", "complete"}
         /\ \A x \in Lesson, s \in Sub : ~ (r.made[x][s] > 0)
    BY <1>6, <1>11 DEF Moves, NoUnits
  <1>13. r.billed > 0 => r.op \in {"settle", "complete"} /\ TaskOf(r, r.want.sub)
    BY <1>6, <1>9, <1>10, <1>12 DEF Unfunded
  <1>14. \A s \in Sub : reserved[r.lesson][s] > 0 => TaskOf(r, s)
    BY <1>6, <1>8, <1>10
  <1>15. LastOK(r)
    BY <1>12 DEF LastOK
  <1> QED
    BY <1>3, <1>4, <1>6, <1>7, <1>12, <1>13, <1>14, <1>15, FirstTurn DEF q

LEMMA BillTurn ==
    ASSUME TurnInv, NEW c \in Connection, Bill(c)
    PROVE  TurnInv'
  <1>1. tx[c] \in TxType /\ TxOK(tx[c]) /\ CoverageInv'
    BY TurnFacts, BillStep
  <1>2. /\ tx[c].at = "measured" /\ tx[c].locks = {} /\ tx[c].want # Unfunded
        /\ tx[c].op \in {"settle", "complete"} /\ tx[c].want.sub \in Sub
    BY <1>1, Fields, WantTyped DEF Bill, TxOK, StageOK
  <1> DEFINE subs == ReservedOn(c, tx[c].lesson) \union {tx[c].want.sub}
  <1>3. /\ Close(c, subs) /\ subs \in SUBSET Sub
        /\ ReservedOn(c, tx[c].lesson) \subseteq subs /\ tx[c].want.sub \in subs
    BY <1>2, ReservedOnTyped DEF Bill
  <1> HIDE DEF subs
  <1> QED
    BY <1>1, <1>2, <1>3, CloseTurn

LEMMA CloseFreeTurn ==
    ASSUME TurnInv, NEW c \in Connection, CloseFree(c)
    PROVE  TurnInv'
  <1>1. CoverageInv' /\ ReservedOn(c, tx[c].lesson) \in SUBSET Sub
    BY CloseFreeStep, ReservedOnTyped DEF TurnInv
  <1> QED
    BY <1>1, CloseTurn DEF CloseFree, Locked

LEMMA ChangePlanTurn ==
    ASSUME TurnInv, NEW c \in Connection, ChangePlan(c)
    PROVE  TurnInv'
  <1> DEFINE q == tx[c]
             w == q.want
             release == q.want # plan[q.lesson]
             subs == IF release THEN ReservedOn(c, q.lesson) ELSE {}
             cleared == IF release THEN AllOf(q.lesson) ELSE {}
  <1>1. q \in TxType /\ TxOK(q) /\ TurnOK(q) /\ Typed /\ CoverageInv'
    BY TurnFacts, ChangePlanStep
  <1>2. q.at = "locking" /\ q.locks = {} /\ q.op = "edit"
    BY DEF ChangePlan, Locked
  <1>3. PICK freed \in Tasks(subs, "no") :
           Proceed(c, [q EXCEPT !.at = "covering", !.dropped = cleared,
                                !.tasks = freed \o Claim(q.want, "may")])
    BY DEF ChangePlan
  <1> DEFINE tasks == freed \o Claim(w, "may")
             r == [q EXCEPT !.at = "covering", !.dropped = cleared, !.tasks = tasks]
  <1>4. tx' = [tx EXCEPT ![c] = r] /\ UNCHANGED tables
    BY <1>3 DEF Proceed, Start
  <1>5. /\ q.lesson \in Lesson /\ q.made = NoUnits /\ q.add = Nothing /\ q.dropped = {}
        /\ q.billed = 0
    BY <1>1, <1>2 DEF TxOK, StageOK
  <1>6. w \in Plan \union {Unfunded} /\ (w.sub \in Sub <=> w # Unfunded)
    <2>1. w \in Plan \union {Unfunded}
      BY <1>1, Fields
    <2> HIDE DEF w
    <2> QED
      BY <2>1, FundedSub
  <1>7. subs \in SUBSET Sub
    BY ReservedOnTyped
  <1>8. \A s \in Sub : reserved[q.lesson][s] > 0 /\ cleared # {} => s \in subs
    <2>1. \A s \in Sub : View(c, q.lesson, s) = reserved[q.lesson][s]
      BY <1>5 DEF View, NoUnits
    <2> QED
      BY <2>1 DEF ReservedOn
  <1>9. \A s \in Sub : reserved[q.lesson][s] > 0 => s \in q.held \/ TaskOf(q, s)
    BY <1>1, <1>2 DEF TurnOK, WrittenOK, Moves
  <1>10. q.tasks = << >>
    BY <1>1, <1>2 DEF TxOK, StageOK
  <1>11. cleared \in {{}, AllOf(q.lesson)}
    OBVIOUS
  <1>12. tx'[c] = r /\ tx'[c] \in TxType
    BY <1>1, <1>4 DEF Typed, CoverageInv
  <1>13. q.want = w
    OBVIOUS
  <1> HIDE DEF q, w, subs, cleared, release, tasks
  <1>14. /\ r.at = "covering" /\ r.op = q.op /\ r.lesson = q.lesson /\ r.successor = q.successor
         /\ r.want = w /\ r.tasks = tasks /\ r.made = NoUnits /\ r.rows = q.rows
         /\ r.held = q.held /\ r.dropped = cleared /\ r.add = Nothing /\ r.billed = 0
    BY <1>1, <1>5, <1>13 DEF TxType
  <1> HIDE DEF r
  <1>15. freed \in Seq(TaskSet) /\ Claim(w, "may") \in Seq(TaskSet)
    BY <1>6, <1>7, TasksTyped, ClaimTyped
  <1>16. \A s \in subs : TaskOf(r, s)
    <2> SUFFICES ASSUME NEW s \in subs PROVE \E i \in DOMAIN tasks : tasks[i].sub = s
      BY <1>14 DEF TaskOf
    <2>1. PICK i \in DOMAIN freed : freed[i].sub = s
      BY <1>7, TasksCover
    <2>2. i \in DOMAIN tasks /\ tasks[i] = freed[i]
      BY <1>15, <2>1, Joined DEF tasks
    <2> QED
      BY <2>1, <2>2
  <1>17. w # Unfunded => /\ r.tasks # << >> /\ Len(r.tasks) \in DOMAIN r.tasks
                         /\ r.tasks[Len(r.tasks)].sub = w.sub
                         /\ r.tasks[Len(r.tasks)].claim # "no"
    <2> SUFFICES ASSUME w # Unfunded
                 PROVE  /\ r.tasks # << >> /\ Len(r.tasks) \in DOMAIN r.tasks
                        /\ r.tasks[Len(r.tasks)].sub = w.sub
                        /\ r.tasks[Len(r.tasks)].claim # "no"
      OBVIOUS
    <2>1. w \in Plan
      BY <1>6
    <2> PICK all : all = tasks
      OBVIOUS
    <2>2. all = (freed) \o Claim(w, "may") /\ (freed) \in Seq(TaskSet)
      BY <1>14, <1>15 DEF tasks
    <2>3. /\ all # << >> /\ Len(all) \in DOMAIN all
          /\ all[Len(all)].sub = w.sub /\ all[Len(all)].claim = "may"
      BY <2>1, <2>2, LastTask
    <2>4. r.tasks = all
      BY <1>14, <1>15
    <2> QED
      BY <2>3, <2>4
  <1>18. w.sub \in Sub => TaskOf(r, w.sub)
    BY <1>6, <1>17 DEF TaskOf
  <1>19. LastOK(r)
    BY <1>14, <1>17 DEF LastOK
  <1>20. /\ \A s \in Sub : reserved[r.lesson][s] > 0 => s \in r.held
         /\ \A s \in Sub : reserved[r.lesson][s] > 0 /\ r.dropped # {} => TaskOf(r, s)
    BY <1>8, <1>9, <1>10, <1>14, <1>16 DEF TaskOf
  <1>21. r.op \in Moves /\ \A x \in Lesson, s \in Sub : ~ (r.made[x][s] > 0)
    BY <1>2, <1>14 DEF Moves, NoUnits
  <1>22. r.dropped \in {{}, AllOf(r.lesson)} /\ ~ (r.billed > 0)
    BY <1>11, <1>14
  <1> QED
    BY <1>1, <1>4, <1>5, <1>12, <1>14, <1>18, <1>19, <1>20, <1>21, <1>22, FirstTurn DEF q

LEMMA TransferTurn ==
    ASSUME TurnInv, NEW c \in Connection, Transfer(c)
    PROVE  TurnInv'
  <1> DEFINE q == tx[c]
             w == q.want
             y == q.successor
             transfer == w # Unfunded /\ View(c, q.lesson, w.sub) > 0
             made == IF transfer THEN [q.made EXCEPT ![y][w.sub] = w.units] ELSE q.made
             rows == IF transfer THEN {<<y, w.sub>>} ELSE {}
             first == IF transfer THEN << >> ELSE Claim(w, "must")
             last == Claim(w, "may")
             cleared == AllOf(q.lesson)
             others == ReservedOn(c, q.lesson) \ {w.sub}
  <1>1. q \in TxType /\ TxOK(q) /\ TurnOK(q) /\ Typed /\ CoverageInv'
    BY TurnFacts, TransferStep
  <1>2. q.at = "locking" /\ q.locks = {} /\ q.op = "reschedule"
    BY DEF Transfer, Locked
  <1>3. PICK rest \in Tasks(others, "may") :
           Proceed(c, [q EXCEPT !.at = "covering", !.made = made, !.rows = rows,
                                !.dropped = cleared, !.tasks = first \o rest \o last])
    BY DEF Transfer
  <1> DEFINE tasks == first \o rest \o last
             r == [q EXCEPT !.at = "covering", !.made = made, !.rows = rows,
                            !.dropped = cleared, !.tasks = tasks]
  <1>4. tx' = [tx EXCEPT ![c] = r] /\ UNCHANGED tables
    BY <1>3 DEF Proceed, Start
  <1>5. /\ q.lesson \in Lesson /\ y \in Lesson /\ q.made = NoUnits /\ q.add = Nothing
        /\ q.dropped = {} /\ q.billed = 0
    BY <1>1, <1>2 DEF TxOK, StageOK
  <1>6. w \in Plan \union {Unfunded} /\ (w.sub \in Sub <=> w # Unfunded)
    <2>1. w \in Plan \union {Unfunded}
      BY <1>1, Fields
    <2> HIDE DEF w
    <2> QED
      BY <2>1, FundedSub
  <1>7. others \in SUBSET Sub
    BY ReservedOnTyped
  <1>8. \A s \in Sub : reserved[q.lesson][s] > 0 => s \in others \/ s = w.sub
    <2>1. \A s \in Sub : View(c, q.lesson, s) = reserved[q.lesson][s]
      BY <1>5 DEF View, NoUnits
    <2> QED
      BY <2>1 DEF ReservedOn
  <1>9. \A x \in Lesson, s \in Sub :
           made[x][s] > 0 => <<x, s>> \in rows /\ s = w.sub
    <2>1. \A x \in Lesson, s \in Sub : q.made[x][s] = 0
      BY <1>5 DEF NoUnits
    <2>2. q.made \in [Lesson -> [Sub -> Nat]]
      BY <1>1, Fields
    <2> HIDE DEF q, w, y
    <2> QED
      BY <1>5, <2>1, <2>2
  <1>10. \A x \in Lesson, s \in Sub : <<x, s>> \in rows => x = y
    OBVIOUS
  <1>12. tx'[c] = r /\ tx'[c] \in TxType
    BY <1>1, <1>4 DEF Typed, CoverageInv
  <1>13. q.want = w /\ q.successor = y
    OBVIOUS
  <1>14. first \in Seq(TaskSet) /\ last \in Seq(TaskSet)
    <2>1. Claim(w, "must") \in Seq(TaskSet)
      <3> HIDE DEF w
      <3> QED
        BY <1>6, ClaimTyped
    <2>2. last \in Seq(TaskSet)
      <3> HIDE DEF w
      <3> QED
        BY <1>6, ClaimTyped
    <2>3. << >> \in Seq(TaskSet)
      OBVIOUS
    <2> HIDE DEF w, transfer, last, TaskSet
    <2> QED
      BY <2>1, <2>2, <2>3
  <1> HIDE DEF q, w, y, transfer, made, rows, first, cleared, others, tasks
  <1>15. /\ r.at = "covering" /\ r.op = q.op /\ r.lesson = q.lesson /\ r.successor = y
         /\ r.want = w /\ r.tasks = tasks /\ r.made = made /\ r.rows = rows
         /\ r.held = q.held /\ r.dropped = cleared /\ r.add = Nothing /\ r.billed = 0
    BY <1>1, <1>5, <1>13 DEF TxType
  <1> HIDE DEF r
  <1>16. /\ rest \in Seq(TaskSet) /\ first \o rest \in Seq(TaskSet)
         /\ \A i \in DOMAIN rest : i + Len(first) \in DOMAIN (first \o rest)
                                     /\ (first \o rest)[i + Len(first)] = rest[i]
    BY <1>7, <1>14, TasksTyped, Joined
  <1>17. \A s \in others : TaskOf(r, s)
    <2> SUFFICES ASSUME NEW s \in others PROVE \E i \in DOMAIN tasks : tasks[i].sub = s
      BY <1>15 DEF TaskOf
    <2>1. PICK i \in DOMAIN rest : rest[i].sub = s
      BY <1>7, TasksCover
    <2>2. i + Len(first) \in DOMAIN (first \o rest) /\ (first \o rest)[i + Len(first)] = rest[i]
      BY <1>16
    <2>3. /\ i + Len(first) \in DOMAIN tasks
          /\ tasks[i + Len(first)] = (first \o rest)[i + Len(first)]
      BY <1>14, <1>16, <2>2, Joined DEF tasks
    <2> QED
      BY <2>1, <2>2, <2>3
  <1>18. w # Unfunded => /\ r.tasks # << >> /\ Len(r.tasks) \in DOMAIN r.tasks
                         /\ r.tasks[Len(r.tasks)].sub = w.sub
                         /\ r.tasks[Len(r.tasks)].claim # "no"
    <2> SUFFICES ASSUME w # Unfunded
                 PROVE  /\ r.tasks # << >> /\ Len(r.tasks) \in DOMAIN r.tasks
                        /\ r.tasks[Len(r.tasks)].sub = w.sub
                        /\ r.tasks[Len(r.tasks)].claim # "no"
      OBVIOUS
    <2>1. w \in Plan
      BY <1>6
    <2> PICK all : all = tasks
      OBVIOUS
    <2>2. all = (first \o rest) \o Claim(w, "may") /\ (first \o rest) \in Seq(TaskSet)
      BY <1>15, <1>16 DEF tasks
    <2>3. /\ all # << >> /\ Len(all) \in DOMAIN all
          /\ all[Len(all)].sub = w.sub /\ all[Len(all)].claim = "may"
      BY <2>1, <2>2, LastTask
    <2>4. r.tasks = all
      BY <1>15
    <2> QED
      BY <2>3, <2>4
  <1>19. w.sub \in Sub => TaskOf(r, w.sub)
    BY <1>6, <1>18 DEF TaskOf
  <1>20. LastOK(r)
    BY <1>15, <1>18 DEF LastOK
  <1>21. \A s \in Sub : reserved[r.lesson][s] > 0 => TaskOf(r, s)
    BY <1>8, <1>15, <1>17, <1>19
  <1>22. /\ r.op \in Moves /\ r.op = q.op
         /\ \A x \in Lesson, s \in Sub : r.made[x][s] > 0 => <<x, s>> \in r.rows /\ TaskOf(r, s)
    BY <1>2, <1>9, <1>15, <1>19 DEF Moves
  <1>23. r.dropped \in {{}, AllOf(r.lesson)} /\ ~ (r.billed > 0)
    BY <1>15 DEF cleared
  <1>24. \A x \in Lesson, s \in Sub : <<x, s>> \in r.rows => x = r.successor
    BY <1>10, <1>15
  <1>25. r.successor = q.successor /\ r.want.sub = w.sub
    BY <1>13, <1>15
  <1> QED
    BY <1>1, <1>4, <1>5, <1>12, <1>15, <1>19, <1>20, <1>21, <1>22, <1>23, <1>24, <1>25,
       FirstTurn DEF q

-----------------------------------------------------------------------------
(* The redistributions.                                                    *)

\* After a redistribution, or one of its inserts, the first task may be gone.
LEMMA AfterTask ==
    ASSUME NEW q \in TxType, NEW r \in TxType, q.tasks # << >>,
           r.tasks = IF r.add = Nothing THEN Tail(q.tasks) ELSE q.tasks,
           r.op = q.op, r.at = q.at, r.want = q.want,
           q.held \union {Head(q.tasks).sub} \subseteq r.held, LastOK(q)
    PROVE  /\ LastOK(r)
           /\ \A s \in Sub : TaskOf(q, s) => TaskOf(r, s) \/ s = Head(q.tasks).sub
           /\ \A s \in Sub : Done(r, s) /\ (s # Head(q.tasks).sub \/ q.add # Nothing) => Done(q, s)
           /\ \A s \in Sub : Done(r, s) =>
                 \A i \in DOMAIN q.tasks : q.tasks[i].sub = s => i = 1
  <1>1. q.tasks \in Seq(TaskSet) /\ r.tasks \in Seq(TaskSet)
    BY Fields
  <1>2. Head(q.tasks) = q.tasks[1] /\ 1 \in DOMAIN q.tasks
    BY <1>1, HeadTask
  <1>3. CASE r.add # Nothing
    <2>1. r.tasks = q.tasks
      BY <1>3
    <2>2. LastOK(r)
      BY <2>1 DEF LastOK
    <2>3. ASSUME NEW s \in Sub, Done(r, s)
          PROVE  \A i \in DOMAIN q.tasks : q.tasks[i].sub = s => i = 1
      BY <2>1, <2>3 DEF Done
    <2>4. ASSUME NEW s \in Sub, Done(r, s), s # Head(q.tasks).sub \/ q.add # Nothing
          PROVE  Done(q, s)
      BY <1>2, <2>3, <2>4 DEF Done
    <2> QED
      BY <2>1, <2>2, <2>3, <2>4 DEF TaskOf
  <1>4. CASE r.add = Nothing
    <2> DEFINE a == q.tasks
               b == r.tasks
    <2>1. a \in Seq(TaskSet) /\ a # << >> /\ b = Tail(a)
      BY <1>1, <1>4
    <2> HIDE DEF TaskSet, a, b
    <2>2. /\ \A i \in DOMAIN a : i # 1 => i - 1 \in DOMAIN b /\ b[i - 1] = a[i]
          /\ b # << >> => b[Len(b)] = a[Len(a)]
          /\ b = << >> => a[Len(a)] = Head(a)
          /\ \A i \in DOMAIN a : i \in Nat
      BY <2>1
    <2> USE DEF a, b
    <2>3. LastOK(r)
      <3> SUFFICES ASSUME r.at = "covering", r.op \notin {"settle", "complete"}, r.want # Unfunded
                   PROVE  IF b = << >> THEN r.want.sub \in r.held
                          ELSE b[Len(b)].sub = r.want.sub /\ b[Len(b)].claim # "no"
        BY DEF LastOK
      <3>1. a[Len(a)].sub = r.want.sub /\ a[Len(a)].claim # "no"
        BY <2>1 DEF LastOK
      <3> HIDE DEF a, b
      <3>2. Head(a).sub \in r.held
        BY DEF a
      <3> QED
        BY <2>2, <3>1, <3>2
    <2>4. ASSUME NEW s \in Sub, TaskOf(q, s) PROVE TaskOf(r, s) \/ s = Head(q.tasks).sub
      BY <1>2, <2>2, <2>4 DEF TaskOf
    <2>5. ASSUME NEW s \in Sub, Done(r, s), NEW i \in DOMAIN q.tasks, q.tasks[i].sub = s
          PROVE  i = 1
      BY <1>4, <2>2, <2>5 DEF Done
    <2>6. ASSUME NEW s \in Sub, Done(r, s), s # Head(q.tasks).sub \/ q.add # Nothing
          PROVE  Done(q, s)
      BY <1>2, <2>5, <2>6 DEF Done
    <2> QED
      BY <2>3, <2>4, <2>5, <2>6
  <1> QED
    BY <1>3, <1>4

\* Where the work of a transaction leaves the units of a subscription as they
\* are, they are still handed out by date.
LEMMA ServedSame ==
    ASSUME NEW q, NEW r, NEW s \in Sub, ServedOK(q), s \in q.held, Done(q, s),
           q.at = "covering", r.op = q.op, r.lesson = q.lesson, r.successor = q.successor,
           r.want = q.want, r.billed = q.billed, Held(r, s) = Held(q, s)
    PROVE  Served(OnOf(r, s), [x \in Lesson |-> UnitsOf(r, x)], Held(r, s),
                  Charges(s) + Billed(r, s), s)
  <1>1. OnOf(r, s) = OnOf(q, s)
    BY DEF OnOf, Plans, OwnOf
  <1>2. [x \in Lesson |-> UnitsOf(r, x)] = [x \in Lesson |-> UnitsOf(q, x)]
    BY DEF UnitsOf, Plans, OwnOf
  <1>3. Billed(r, s) = Billed(q, s)
    BY DEF Billed
  <1> QED
    BY <1>1, <1>2, <1>3 DEF ServedOK

LEMMA InsertReserveTurn ==
    ASSUME TurnInv, NEW c \in Connection, InsertReserve(c)
    PROVE  TurnInv'
  <1> DEFINE q == tx[c]
             s == Head(q.tasks).sub
             given == {y \in Lesson : q.add[y] > 0}
             x == Min(given)
             add == [q.add EXCEPT ![x] = 0]
             made == [q.made EXCEPT ![x][s] = q.add[x]]
             rows == q.rows \union {<<x, s>>}
             tasks == IF add = Nothing THEN Tail(q.tasks) ELSE q.tasks
             r == [q EXCEPT !.made = made, !.rows = rows, !.add = add, !.tasks = tasks]
  <1>1. /\ q \in TxType /\ TxOK(q) /\ TurnOK(q) /\ Typed /\ CoverageInv'
        /\ \A d \in Others(c), y \in Lesson :
              /\ HasLocked(q, y) => ~HasLocked(tx[d], y) /\ ~HasShared(tx[d], y)
              /\ HasLocked(tx[d], y) => ~HasLocked(q, y) /\ ~HasShared(q, y)
    BY TurnFacts, InsertReserveStep
  <1>2. q.add # Nothing /\ \A d \in Others(c) : ~RowHeld(d, x)
    BY DEF InsertReserve, ShareFree
  <1>3. tx' = [tx EXCEPT ![c] = r] /\ UNCHANGED tables
    BY DEF InsertReserve, Proceed, Start
  <1>4. q.at = "covering" /\ q.tasks # << >> /\ s \in q.held
    BY <1>1, <1>2 DEF TxOK, StageOK, HeldOK
  <1>5. /\ q.add \in [Lesson -> Nat] /\ q.made \in [Lesson -> [Sub -> Nat]]
        /\ q.tasks \in Seq(TaskSet) /\ s \in Sub
    BY <1>1, <1>4, Fields
  <1>6. x \in Lesson /\ q.add[x] > 0
    <2>1. given # {}
      <3>1. \E y \in Lesson : q.add[y] # 0
        BY <1>2, <1>5 DEF Nothing
      <3> HIDE DEF q
      <3> QED
        BY <1>5, <3>1
    <2>2. given \in SUBSET Nat
      BY CoverageAssumption DEF Lesson
    <2>3. \E z \in given : \A y \in given : z <= y
      BY <2>1, <2>2, LeastElement
    <2>4. x \in given
      <3> HIDE DEF given
      <3> QED
        BY <2>3 DEF Min
    <2> QED
      BY <2>4
  <1>7. tx'[c] = r /\ tx'[c] \in TxType
    BY <1>1, <1>3 DEF Typed, CoverageInv
  <1> HIDE DEF q, s, given, x
  <1>8. /\ \A y \in Lesson : add[y] = IF y = x THEN 0 ELSE q.add[y]
        /\ \A y \in Lesson, z \in Sub :
              made[y][z] = IF y = x /\ z = s THEN q.add[x] ELSE q.made[y][z]
    BY <1>5, <1>6
  <1> HIDE DEF made, add, rows, tasks
  <1>9. /\ r.at = q.at /\ r.op = q.op /\ r.lesson = q.lesson /\ r.successor = q.successor
        /\ r.locks = q.locks /\ r.held = q.held /\ r.want = q.want /\ r.made = made
        /\ r.add = add /\ r.rows = rows
        /\ r.billed = q.billed /\ r.dropped = q.dropped /\ r.tasks = tasks
    BY <1>1 DEF TxType
  <1> HIDE DEF r
  <1>10. r.tasks = IF r.add = Nothing THEN Tail(q.tasks) ELSE q.tasks
    BY <1>9 DEF tasks
  <1>11. /\ WrittenOK(q) /\ LastOK(q) /\ ServedOK(q)
         /\ \A y \in Lesson : q.add[y] > 0 => <<y, s>> \in q.dropped /\ q.made[y][s] = 0
    BY <1>1, <1>2 DEF TurnOK, AddOK, s
  <1>12. /\ LastOK(r)
         /\ \A z \in Sub : TaskOf(q, z) => TaskOf(r, z) \/ z = s
         /\ \A z \in Sub : Done(r, z) => Done(q, z)
    <2>1. q.held \union {Head(q.tasks).sub} \subseteq r.held
      BY <1>4, <1>9 DEF s
    <2> QED
      BY <1>1, <1>2, <1>4, <1>7, <1>9, <1>10, <1>11, <2>1, AfterTask DEF s
  <1>13. WrittenOK(r)
    <2>1. \A y \in Lesson, z \in Sub : r.made[y][z] > 0 => <<y, z>> \in r.rows
      BY <1>8, <1>9, <1>11 DEF WrittenOK, rows
    <2>2. \A z \in Sub : z \in q.locks \union q.held \/ TaskOf(q, z)
                           => z \in r.locks \union r.held \/ TaskOf(r, z)
      BY <1>4, <1>9, <1>12
    <2> QED
      BY <1>9, <1>11, <2>1, <2>2 DEF WrittenOK, HasLocked
  <1>14. AddOK(r)
    <2> SUFFICES ASSUME r.add # Nothing, NEW y \in Lesson, r.add[y] > 0
                 PROVE  <<y, s>> \in r.dropped /\ r.made[y][s] = 0
      BY <1>10 DEF AddOK, s
    <2>1. add[y] > 0 /\ y # x /\ q.add[y] > 0
      BY <1>8, <1>9
    <2>2. made[y][s] = q.made[y][s] /\ s \in Sub
      BY <1>5, <1>8, <2>1
    <2> QED
      BY <1>9, <1>11, <2>1, <2>2
  <1>15. ServedOK(r)
    <2> SUFFICES ASSUME NEW z \in r.held, Done(r, z)
                 PROVE  Served(OnOf(r, z), [y \in Lesson |-> UnitsOf(r, y)], Held(r, z),
                               Charges(z) + Billed(r, z), z)
      BY DEF ServedOK
    <2>1. z \in Sub /\ z \in q.held /\ Done(q, z)
      BY <1>7, <1>9, <1>12, Fields
    <2>2. ASSUME NEW y \in Lesson
          PROVE  ViewOf(r, y, z) + Pending(r, y, z) = ViewOf(q, y, z) + Pending(q, y, z)
      <3>1. Pending(q, y, z) = IF z = s THEN q.add[y] ELSE 0
        BY <1>4 DEF Pending, s
      <3>2. Pending(r, y, z) = IF z = s THEN r.add[y] ELSE 0
        BY <1>10, <1>4 DEF Pending, s, Nothing
      <3>3. q.add[y] \in Nat /\ q.made[y][z] \in Nat /\ ViewOf(q, y, z) \in Nat
        BY <1>1, <2>1, UnitsTyped
      <3>4. CASE y = x /\ z = s
        <4>1. ViewOf(r, y, z) = q.add[x] /\ Pending(r, y, z) = 0
          BY <1>6, <1>8, <1>9, <3>2, <3>4, <2>1 DEF ViewOf
        <4>2. ViewOf(q, y, z) = 0
          BY <1>6, <1>11, <3>4 DEF ViewOf
        <4> QED
          BY <3>1, <3>3, <3>4, <4>1, <4>2
      <3>5. CASE ~ (y = x /\ z = s)
        <4>1. ViewOf(r, y, z) = ViewOf(q, y, z)
          BY <1>8, <1>9, <2>1, <3>5 DEF ViewOf
        <4>2. Pending(r, y, z) = Pending(q, y, z)
          BY <1>8, <1>9, <3>1, <3>2, <3>5
        <4> QED
          BY <4>1, <4>2
      <3> QED
        BY <3>4, <3>5
    <2>3. Held(r, z) = Held(q, z)
      BY <2>2 DEF Held
    <2> QED
      BY <1>4, <1>9, <1>11, <2>1, <2>3, ServedSame
  <1>16. ASSUME NEW d \in Others(c), NEW y \in Lesson
         PROVE  /\ HasLocked(r, y) => ~HasLocked(tx[d], y) /\ ~HasShared(tx[d], y)
                /\ HasShared(r, y) => ~HasLocked(tx[d], y)
    <2>1. HasLocked(r, y) <=> HasLocked(q, y)
      BY <1>9 DEF HasLocked
    <2>2. HasShared(r, y) => HasShared(q, y) \/ y = x
      BY <1>9 DEF HasShared, rows
    <2>3. ~HasLocked(tx[d], x)
      BY <1>2 DEF RowHeld, HasLocked
    <2> QED
      BY <1>1, <2>1, <2>2, <2>3
  <1> QED
    BY <1>1, <1>3, <1>12, <1>13, <1>14, <1>15, <1>16, TurnStep DEF TurnOK

LEMMA RedistributeTurn ==
    ASSUME TurnInv, NEW c \in Connection, Redistribute(c)
    PROVE  TurnInv'
  <1> DEFINE q == tx[c]
             t == Head(q.tasks)
             s == t.sub
             cand == Candidates(c, t.claim)
             desired == Desired(c, t)
             changed == {x \in cand : View(c, x, s) # desired[x]}
             add == [x \in Lesson |-> IF x \in changed THEN desired[x] ELSE 0]
             made == [x \in Lesson |-> IF x \in changed
                                       THEN [q.made[x] EXCEPT ![s] = 0] ELSE q.made[x]]
             held == q.held \union {s}
             dropped == q.dropped \union (changed \X {s})
             tasks == IF add = Nothing THEN Tail(q.tasks) ELSE q.tasks
             r == [q EXCEPT !.held = held, !.made = made, !.dropped = dropped,
                            !.add = add, !.tasks = tasks]
             need == [x \in Lesson |-> Need(c, x, t)]
             free == Total[s] - Spent(c, t)
             R == Lesson \ (cand \union {q.lesson})
             seen == [x \in Lesson |-> View(c, x, s)]
  <1>1. /\ q \in TxType /\ TxOK(q) /\ TurnOK(q) /\ Typed /\ CoverageInv /\ CoverageInv'
        /\ \A d \in Others(c), y \in Lesson :
              /\ HasLocked(q, y) => ~HasLocked(tx[d], y) /\ ~HasShared(tx[d], y)
              /\ HasLocked(tx[d], y) => ~HasLocked(q, y) /\ ~HasShared(q, y)
    BY TurnFacts, RedistributeStep
  <1>2. q.at = "covering" /\ q.tasks # << >> /\ q.add = Nothing
    BY DEF Redistribute
  <1>3. tx' = [tx EXCEPT ![c] = r] /\ UNCHANGED tables
    BY DEF Redistribute, Proceed, Start
  <1>4. q.lesson \in Lesson /\ Own(c) = OwnOf(q)
    BY <1>1, <1>2 DEF TxOK, StageOK, Own, OwnOf
  <1>5. /\ q.made \in [Lesson -> [Sub -> Nat]] /\ s \in Sub /\ q.tasks \in Seq(TaskSet)
        /\ 1 \in DOMAIN q.tasks /\ t = q.tasks[1]
    BY <1>1, <1>2, Fields, HeadTask
  <1>6. desired \in [Lesson -> Nat]
    BY <1>1, <1>2, DesiredFits
  <1>7. cand = ({x \in Lesson : Movable(x)} \ {q.lesson})
                  \union (IF t.claim = "no" THEN {} ELSE {OwnOf(q)})
    BY <1>4 DEF Candidates
  <1>8. cand \subseteq Lesson
    BY <1>1, <1>2, <1>4 DEF Candidates, Own, TxOK, StageOK
  <1>9. \A x \in Lesson : View(c, x, s) = ViewOf(q, x, s) /\ View(c, x, s) \in Nat
    BY <1>1, <1>5, UnitsTyped DEF View, ViewOf
  <1>10. /\ changed \subseteq cand /\ \A x \in changed : View(c, x, s) # desired[x]
         /\ \A x \in cand \ changed : View(c, x, s) = desired[x]
    OBVIOUS
  <1>11. /\ need \in [Lesson -> Nat]
         /\ \A x \in Lesson : need[x] = IF x \notin cand THEN 0
                                        ELSE IF x = OwnOf(q) THEN Needs(q.want, s)
                                        ELSE Needs(plan[x], s)
    <2>1. \A x \in Lesson : plan[x].units \in Nat
      BY <1>1, WantTyped DEF Typed, TypeOK
    <2>2. q.want.units \in Nat
      BY <1>1, Fields, WantTyped
    <2>3. \A x \in Lesson : Need(c, x, t) = IF x \notin cand THEN 0
                                            ELSE IF x = OwnOf(q) THEN Needs(q.want, s)
                                            ELSE Needs(plan[x], s)
      BY <1>4 DEF Need
    <2> HIDE DEF cand, s, t, q
    <2> QED
      BY <2>1, <2>2, <2>3 DEF Needs
  <1>12. desired = Allocate(need, free) /\ free \in Nat
    <2>1. Spent(c, t) \in Int /\ Spent(c, t) <= Total[s] /\ Total[s] \in Nat
      BY <1>1, <1>2, <1>5, SpentBounded, TotalTyped
    <2>2. free \in Nat /\ Max({0, free}) = free
      BY <2>1, MaxWithZero
    <2> QED
      BY <2>2 DEF Desired
  <1>13. ASSUME NEW x \in Lesson
         PROVE  \/ desired[x] = need[x]
                \/ desired[x] = 0 /\ need[x] + Sum(desired, {y \in Lesson : y < x}) > free
    <2> HIDE DEF need, free, desired
    <2> QED
      BY <1>11, <1>12, AllocateFair
  <1>14. Spent(c, t) = Charges(s) + Billed(q, s) + Sum(seen, R)
    BY DEF Spent, Charges, Billed
  <1>15. tx'[c] = r /\ tx'[c] \in TxType
    BY <1>1, <1>3 DEF Typed, CoverageInv
  <1>16. Total[s] \in Nat /\ Spent(c, t) \in Int /\ free = Total[s] - Spent(c, t)
    BY <1>1, <1>2, <1>5, SpentBounded, TotalTyped
  <1> HIDE DEF changed, desired, cand, s, t, need, free, seen, R
  <1>17. /\ add \in [Lesson -> Nat]
         /\ \A x \in Lesson : add[x] = IF x \in changed THEN desired[x] ELSE 0
    BY <1>6
  <1>18. \A x \in Lesson, z \in Sub :
            made[x][z] = IF x \in changed /\ z = s THEN 0 ELSE q.made[x][z]
    <2> HIDE DEF q
    <2> QED
      BY <1>5
  <1>19. \A x \in Lesson, z \in Sub :
            <<x, z>> \in dropped <=> <<x, z>> \in q.dropped \/ (x \in changed /\ z = s)
    BY <1>8, <1>10
  <1> HIDE DEF q, add, made, held, dropped, tasks
  <1>20. /\ r.at = q.at /\ r.op = q.op /\ r.lesson = q.lesson /\ r.successor = q.successor
         /\ r.locks = q.locks /\ r.held = held /\ r.want = q.want /\ r.made = made
         /\ r.add = add /\ r.rows = q.rows
         /\ r.billed = q.billed /\ r.dropped = dropped /\ r.tasks = tasks
    BY <1>1 DEF TxType
  <1> HIDE DEF r
  <1>21. r.tasks = IF r.add = Nothing THEN Tail(q.tasks) ELSE q.tasks
    BY <1>20 DEF tasks
  <1>22. r.held = q.held \union {s} /\ s = Head(q.tasks).sub
    BY <1>20 DEF held, s, t
  <1>23. WrittenOK(q) /\ LastOK(q) /\ ServedOK(q)
    BY <1>1 DEF TurnOK
  <1>24. /\ LastOK(r)
         /\ \A z \in Sub : TaskOf(q, z) => TaskOf(r, z) \/ z = s
         /\ \A z \in Sub : Done(r, z) /\ z # s => Done(q, z)
         /\ \A z \in Sub : Done(r, z) =>
               \A i \in DOMAIN q.tasks : q.tasks[i].sub = z => i = 1
    BY <1>1, <1>2, <1>15, <1>20, <1>21, <1>22, <1>23, AfterTask
  <1>25. WrittenOK(r)
    <2>1. \A y \in Lesson, z \in Sub : r.made[y][z] > 0 => <<y, z>> \in r.rows
      BY <1>18, <1>20, <1>23 DEF WrittenOK
    <2>2. \A z \in Sub : z \in q.locks \union q.held \/ TaskOf(q, z)
                           => z \in r.locks \union r.held \/ TaskOf(r, z)
      BY <1>20, <1>22, <1>24
    <2>3. \A x \in Lesson, z \in Sub :
             <<x, z>> \in r.dropped => z \in r.held \/ (x = r.lesson /\ r.op \in Moves)
      BY <1>19, <1>20, <1>22, <1>23 DEF WrittenOK
    <2> QED
      BY <1>20, <1>23, <2>1, <2>2, <2>3 DEF WrittenOK, HasLocked
  <1>26. AddOK(r)
    <2> SUFFICES ASSUME r.add # Nothing, NEW y \in Lesson, r.add[y] > 0
                 PROVE  <<y, s>> \in r.dropped /\ r.made[y][s] = 0
      BY <1>21, <1>22 DEF AddOK
    <2>1. y \in changed
      BY <1>17, <1>20
    <2> QED
      BY <1>5, <1>18, <1>19, <1>20, <2>1
  <1>27. /\ \A x \in Lesson : Pending(r, x, s) = r.add[x]
         /\ \A x \in Lesson, z \in Sub : z # s => Pending(r, x, z) = 0
         /\ \A x \in Lesson, z \in Sub : Pending(q, x, z) = 0
    BY <1>2, <1>21, <1>22 DEF Pending, Nothing
  <1>28. ASSUME NEW z \in Sub, z # s PROVE Held(r, z) = Held(q, z)
    <2>1. \A x \in Lesson : ViewOf(r, x, z) = ViewOf(q, x, z)
      BY <1>18, <1>19, <1>20, <1>28 DEF ViewOf
    <2>2. \A x \in Lesson : Pending(r, x, z) = Pending(q, x, z)
      BY <1>27, <1>28
    <2> QED
      BY <2>1, <2>2 DEF Held
  <1>29. ASSUME NEW x \in Lesson
         PROVE  Held(r, s)[x] = IF x \in cand THEN desired[x] ELSE View(c, x, s)
    <2>1. Held(r, s)[x] = ViewOf(r, x, s) + add[x]
      BY <1>20, <1>27 DEF Held
    <2>2. desired[x] \in Nat /\ View(c, x, s) \in Nat
      BY <1>6, <1>9
    <2>3. CASE x \in changed
      <3>1. ViewOf(r, x, s) = 0
        BY <1>5, <1>18, <1>19, <1>20, <2>3 DEF ViewOf
      <3> QED
        BY <1>10, <1>17, <2>1, <2>2, <2>3, <3>1
    <2>4. CASE x \notin changed
      <3>1. ViewOf(r, x, s) = View(c, x, s)
        BY <1>5, <1>9, <1>18, <1>19, <1>20, <2>4 DEF ViewOf
      <3> QED
        BY <1>10, <1>17, <2>1, <2>2, <2>4, <3>1
    <2> QED
      BY <2>3, <2>4
  <1>30. ASSUME Done(r, s)
         PROVE  Served(OnOf(r, s), [x \in Lesson |-> UnitsOf(r, x)], Held(r, s),
                       Charges(s) + Billed(r, s), s)
    <2> DEFINE on == OnOf(r, s)
               units == [x \in Lesson |-> UnitsOf(r, x)]
               f == Held(r, s)
    <2>1. ASSUME q.op \notin {"settle", "complete"}, q.want.sub = s PROVE t.claim # "no"
      <3>1. q.want # Unfunded
        BY <1>5, <2>1, CoverageAssumption DEF Unfunded
      <3>2. q.tasks[Len(q.tasks)].sub = s /\ q.tasks[Len(q.tasks)].claim # "no"
        BY <1>2, <1>23, <2>1, <3>1 DEF LastOK
      <3>3. Len(q.tasks) \in DOMAIN q.tasks
        <4> HIDE DEF TaskSet
        <4> QED
          BY <1>2, <1>5
      <3>4. Len(q.tasks) = 1
        BY <1>5, <1>24, <1>30, <3>2, <3>3
      <3> QED
        BY <1>5, <3>2, <3>4
    <2>2. ASSUME NEW x \in on PROVE x \in Lesson /\ x \in cand /\ units[x] = need[x]
      <3>1. /\ x \in Lesson
            /\ IF Plans(q, x) THEN q.want.sub = s
               ELSE x # q.lesson /\ Movable(x) /\ plan[x].sub = s
        BY <1>20, <2>2 DEF OnOf, Plans, OwnOf
      <3>2. units[x] = IF Plans(q, x) THEN q.want.units ELSE plan[x].units
        BY <1>20, <3>1 DEF UnitsOf, Plans, OwnOf
      <3> HIDE DEF on, units
      <3>3. CASE Plans(q, x)
        <4>1. q.op \notin {"settle", "complete"} /\ x = OwnOf(q) /\ q.want.sub = s
          BY <3>1, <3>3 DEF Plans
        <4>2. x \in cand
          BY <1>7, <2>1, <4>1
        <4>3. need[x] = q.want.units
          BY <1>11, <3>1, <4>1, <4>2 DEF Needs
        <4> QED
          BY <3>1, <3>2, <3>3, <4>2, <4>3
      <3>4. CASE ~Plans(q, x)
        <4>1. x \in cand
          BY <1>7, <3>1, <3>4
        <4>2. x # OwnOf(q)
          BY <3>1, <3>4 DEF Plans, OwnOf
        <4>3. need[x] = plan[x].units
          BY <1>11, <3>1, <3>4, <4>1, <4>2 DEF Needs
        <4> QED
          BY <3>1, <3>2, <3>4, <4>1, <4>3
      <3> QED
        BY <3>3, <3>4
    <2>3. f \in [Lesson -> Nat]
      BY <1>1, <1>5, <1>15, HeldTyped
    <2>4. Billed(r, s) = Billed(q, s)
      BY <1>20 DEF Billed
    <2> HIDE DEF on, units, f
    <2>5. \A y \in Lesson : f[y] = IF y \in cand THEN desired[y] ELSE View(c, y, s)
      BY <1>29 DEF f
    <2>6. ASSUME NEW x \in on, units[x] # f[x]
          PROVE  f[x] = 0 /\ units[x] + (Charges(s) + Billed(q, s)) + Sum(f, Before(on, x)) > Total[s]
      <3> DEFINE earlier == {y \in Lesson : y < x}
                 before == Before(on, x)
                 e == [y \in Lesson |-> (IF y \in earlier THEN desired[y] ELSE 0)
                                          + IF y \in R THEN seen[y] ELSE 0]
      <3>1. /\ x \in Lesson /\ x \in cand /\ units[x] = need[x] /\ f[x] = desired[x]
        BY <2>2, <2>5
      <3>2. desired[x] = 0 /\ need[x] + Sum(desired, earlier) > free
        BY <1>13, <2>6, <3>1
      <3>3. \A y \in Lesson : /\ desired[y] \in Nat /\ seen[y] \in Nat /\ f[y] \in Nat
                              /\ seen[y] = View(c, y, s)
        BY <1>6, <1>9, <2>3 DEF seen
      <3>4. desired \in [Lesson -> Int] /\ seen \in [Lesson -> Int] /\ f \in [Lesson -> Int]
            /\ e \in [Lesson -> Int]
        <4>1. seen \in [Lesson -> Int]
          BY <1>9 DEF seen
        <4> QED
          BY <1>6, <2>3, <3>3, <4>1
      <3>5. ASSUME NEW y \in Lesson
            PROVE  (IF y \in Lesson THEN e[y] ELSE 0) <= (IF y \in before THEN f[y] ELSE 0)
        <4>1. y \in R <=> y \notin cand /\ y # q.lesson
          BY DEF R
        <4>2. y \notin cand => desired[y] = 0 /\ y \in before /\ f[y] = seen[y]
          <5>1. y \notin cand => desired[y] = 0
            BY <1>11, <1>13
          <5>2. y \notin cand => y \in before
            BY <2>2 DEF Before
          <5> QED
            BY <2>5, <3>3, <5>1, <5>2
        <4>3. y \in cand => f[y] = desired[y] /\ y \notin R
          BY <2>5, <4>1
        <4>4. y \in earlier => y \in before
          BY DEF Before
        <4>5. e[y] = (IF y \in earlier THEN desired[y] ELSE 0) + IF y \in R THEN seen[y] ELSE 0
          OBVIOUS
        <4> HIDE DEF e, earlier, before
        <4> QED
          BY <3>3, <4>2, <4>3, <4>4, <4>5
      <3>6. Sum(e, Lesson) = Sum(desired, earlier) + Sum(seen, R)
        <4>1. ASSUME NEW y \in Lesson
              PROVE  (IF y \in Lesson THEN e[y] ELSE 0)
                       = (IF y \in earlier THEN desired[y] ELSE 0) + (IF y \in R THEN seen[y] ELSE 0)
          OBVIOUS
        <4> HIDE DEF e, earlier
        <4> QED
          BY <3>4, <4>1, SumAdd, SMTT(60)
      <3> HIDE DEF e, earlier, before
      <3>7. Sum(e, Lesson) <= Sum(f, before)
        BY <3>4, <3>5, SumLeq
      <3>8. /\ Sum(e, Lesson) \in Int /\ Sum(f, before) \in Int /\ Sum(desired, earlier) \in Int
            /\ Sum(seen, R) \in Int
        BY <3>4, SumType
      <3>9. Charges(s) \in Int /\ Billed(q, s) \in Int /\ need[x] \in Nat
        <4>1. Billed(q, s) \in Int
          BY <1>1, Fields DEF Billed
        <4> QED
          BY <1>1, <1>5, <1>11, <3>1, <4>1, ChargesTyped
      <3>10. need[x] + (Charges(s) + Billed(q, s)) + Sum(f, before) > Total[s]
        BY <1>14, <1>16, <3>2, <3>6, <3>7, <3>8, <3>9
      <3> QED
        BY <3>1, <3>2, <3>10 DEF before
    <2>7. Served(on, units, f, Charges(s) + Billed(r, s), s)
      BY <2>4, <2>6 DEF Served
    <2> QED
      BY <2>7 DEF on, units, f
  <1>31. ServedOK(r)
    <2> SUFFICES ASSUME NEW z \in r.held, Done(r, z)
                 PROVE  Served(OnOf(r, z), [y \in Lesson |-> UnitsOf(r, y)], Held(r, z),
                               Charges(z) + Billed(r, z), z)
      BY DEF ServedOK
    <2>1. CASE z = s
      BY <1>30, <2>1
    <2>2. CASE z # s
      <3>1. z \in Sub /\ z \in q.held /\ Done(q, z)
        BY <1>15, <1>22, <1>24, <2>2, Fields
      <3>2. Held(r, z) = Held(q, z)
        BY <1>28, <2>2, <3>1
      <3> QED
        BY <1>2, <1>20, <1>23, <3>1, <3>2, ServedSame
    <2> QED
      BY <2>1, <2>2
  <1>32. ASSUME NEW d \in Others(c), NEW y \in Lesson
         PROVE  /\ HasLocked(r, y) => ~HasLocked(tx[d], y) /\ ~HasShared(tx[d], y)
                /\ HasShared(r, y) => ~HasLocked(tx[d], y)
    <2>1. (HasLocked(r, y) <=> HasLocked(q, y)) /\ (HasShared(r, y) <=> HasShared(q, y))
      BY <1>20 DEF HasLocked, HasShared
    <2> QED
      BY <1>1, <2>1
  <1> QED
    BY <1>1, <1>3, <1>24, <1>25, <1>26, <1>31, <1>32, TurnStep DEF TurnOK

-----------------------------------------------------------------------------
(* A transaction ends; statements that touch no reserve.                   *)

LEMMA CommitTurn ==
    ASSUME TurnInv, NEW c \in Connection, Commit(c)
    PROVE  TurnInv'
  <1> DEFINE q == tx[c]
  <1>1. /\ q \in TxType /\ TxOK(q) /\ TurnOK(q) /\ Typed /\ CoverageInv'
        /\ \A d \in Others(c) : q.held \intersect tx[d].held = {}
        /\ \A d \in Others(c), x \in Lesson :
              /\ HasLocked(q, x) => ~HasLocked(tx[d], x) /\ ~HasShared(tx[d], x)
              /\ HasLocked(tx[d], x) => ~HasLocked(q, x) /\ ~HasShared(q, x)
    BY TurnFacts, CommitStep
  <1>2. q.at = "covering" /\ q.tasks = << >> /\ q.add = Nothing /\ q.locks = {}
    BY <1>1 DEF Commit, TxOK, HeldOK, StageOK
  <1>3. /\ Typed'
        /\ tx'[c] = Idle /\ \A d \in Others(c) : tx'[d] = tx[d]
        /\ \A x \in Lesson, s \in Sub :
              /\ reserved'[x][s] = ViewOf(q, x, s)
              /\ charged'[x][s] = IF x = q.lesson /\ s = q.want.sub /\ q.billed > 0
                                  THEN q.billed ELSE charged[x][s]
        /\ q.billed > 0 => q.want.sub \in q.held
        /\ q.lesson \in Lesson
    BY CommitTyped DEF TurnInv
  <1>4. WrittenOK(q) /\ LastOK(q) /\ ServedOK(q) /\ HeldOK(q)
    BY <1>1 DEF TurnOK, TxOK
  <1>5. /\ q.op = "reschedule" => q.successor \in Lesson
        /\ Own(c) = OwnOf(q) /\ OwnOf(q) \in Lesson
        /\ HasLocked(q, q.lesson) /\ HasLocked(q, OwnOf(q))
    <2>1. q.op = "reschedule" => q.successor \in Lesson
      BY <1>1, <1>2 DEF TxOK, StageOK
    <2>2. \A x \in Lesson : x # NoLesson
      BY CoverageAssumption DEF Lesson, NoLesson
    <2> QED
      BY <1>3, <2>1, <2>2 DEF Own, OwnOf, HasLocked
  <1>6. \A x \in Lesson :
           /\ x \in Planned(c) <=> Plans(q, x)
           /\ x \in Created(c) <=> Plans(q, x) /\ q.op # "edit"
           /\ x \in Closing(c) <=> x = q.lesson /\ q.op \in {"settle", "complete", "reschedule"}
    <2>1. Planned(c) = IF q.op \in {"settle", "complete"} THEN {} ELSE {OwnOf(q)}
      BY <1>5 DEF Planned
    <2>2. Created(c) = IF q.op = "edit" THEN {} ELSE Planned(c)
      BY DEF Created
    <2>3. Closing(c) = IF q.op \in {"settle", "complete", "reschedule"} THEN {q.lesson} ELSE {}
      BY DEF Closing
    <2> HIDE DEF q
    <2> QED
      BY <2>1, <2>2, <2>3 DEF Plans
  <1>7. /\ \A x \in Lesson : life'[x] = IF x \in Closing(c) THEN "closed"
                                        ELSE IF x \in Created(c) THEN "scheduled"
                                        ELSE life[x]
        /\ \A x \in Lesson : plan'[x] = IF x \in Planned(c) THEN q.want ELSE plan[x]
        /\ \A x \in Lesson : booked'[x] = booked[x] \union {s \in Sub :
                                 \/ <<x, s>> \in q.rows
                                 \/ x = q.lesson /\ q.billed > 0 /\ s = q.want.sub}
        /\ deleted' = deleted
    BY DEF Commit
  <1> HIDE DEF q
  <1>8. \A x \in Lesson, s \in Sub :
           /\ charged[x][s] \in Nat /\ reserved[x][s] \in Nat
           /\ ViewOf(q, x, s) \in Nat /\ Pending(q, x, s) = 0 /\ q.made[x][s] \in Nat
    <2>1. \A x \in Lesson, s \in Sub : Pending(q, x, s) = 0
      BY <1>2 DEF Pending
    <2> QED
      BY <1>1, <2>1, UnitsTyped
  \* What is moved, charged or planned is of subscriptions that it holds.
  <1>9. ASSUME NEW x \in Lesson, NEW s \in Sub, s \notin q.held
        PROVE  reserved'[x][s] = reserved[x][s] /\ charged'[x][s] = charged[x][s]
    <2>1. q.made[x][s] = 0
      BY <1>4, <1>8, <1>9 DEF HeldOK
    <2>2. <<x, s>> \in q.dropped => reserved[x][s] = 0
      <3> SUFFICES ASSUME <<x, s>> \in q.dropped PROVE ~ (reserved[x][s] > 0)
        BY <1>8
      <3>1. x = q.lesson /\ q.op \in Moves
        BY <1>4, <1>9 DEF WrittenOK
      <3>2. ~TaskOf(q, s)
        BY <1>2 DEF TaskOf
      <3> QED
        BY <1>2, <1>4, <1>9, <3>1, <3>2 DEF WrittenOK
    <2> QED
      BY <1>3, <1>9, <2>1, <2>2 DEF ViewOf
  <1>10. ASSUME NEW x \in Lesson, NEW s \in Sub, s \notin q.held,
                Movable(x)', plan'[x].sub = s
         PROVE  Movable(x) /\ plan'[x] = plan[x]
    <2>1. ~Plans(q, x)
      <3> SUFFICES ASSUME Plans(q, x) PROVE FALSE
        OBVIOUS
      <3>1. q.want.sub = s /\ q.op \notin {"settle", "complete"}
        BY <1>6, <1>7, <1>10 DEF Plans
      <3>2. q.want # Unfunded
        BY <3>1, CoverageAssumption DEF Unfunded
      <3> QED
        BY <1>2, <1>4, <1>10, <3>1, <3>2 DEF LastOK
    <2> QED
      BY <1>6, <1>7, <1>10, <2>1 DEF Movable
  <1>11. RowsExclusive'
    <2> SUFFICES ASSUME NEW a \in Connection, NEW b \in Connection, a # b, NEW x \in Lesson,
                        HasLocked(tx'[a], x)
                 PROVE  ~HasLocked(tx'[b], x) /\ ~HasShared(tx'[b], x)
      BY DEF RowsExclusive, HasLocked, HasShared
    <2>1. a # c
      BY <1>3, IdleTurn
    <2>2. CASE b = c
      BY <1>3, <2>2, IdleTurn
    <2>3. CASE b # c
      BY <1>3, <2>1, <2>3 DEF Others, TurnInv, RowsExclusive
    <2> QED
      BY <2>2, <2>3
  <1>12. BookedOK'
    <2> SUFFICES ASSUME NEW x \in Lesson, NEW s \in Sub, reserved'[x][s] > 0
                 PROVE  s \in booked'[x]
      BY DEF BookedOK
    <2>1. q.made[x][s] > 0 \/ reserved[x][s] > 0
      <3>1. reserved'[x][s] = ViewOf(q, x, s)
        BY <1>3
      <3>2. ViewOf(q, x, s) > 0
        BY <3>1
      <3> QED
        BY <3>2 DEF ViewOf
    <2>2. <<x, s>> \in q.rows \/ s \in booked[x]
      BY <1>4, <2>1 DEF WrittenOK, TurnInv, BookedOK
    <2> QED
      BY <1>7, <2>2
  <1>13. ChargedOK'
    <2> SUFFICES ASSUME NEW x \in Lesson, NEW s \in Sub, charged'[x][s] > 0
                 PROVE  life'[x] = "closed"
      BY DEF ChargedOK
    <2>1. CASE x = q.lesson /\ q.billed > 0
      BY <1>4, <1>6, <1>7, <2>1 DEF WrittenOK
    <2>2. CASE ~ (x = q.lesson /\ q.billed > 0)
      <3>1. charged[x][s] > 0 /\ life[x] = "closed"
        BY <1>3, <2>2 DEF TurnInv, ChargedOK
      <3>2. ~HasLocked(q, x)
        BY <1>4, <1>8, <3>1 DEF WrittenOK
      <3>3. x \notin Created(c)
        BY <1>5, <1>6, <3>2 DEF Plans
      <3> QED
        BY <1>7, <3>1, <3>3
    <2> QED
      BY <2>1, <2>2
  <1>14. ASSUME NEW d \in Connection PROVE TurnOK(tx[d])'
    <2>1. CASE d = c
      <3>1. TurnOK(Idle)'
        <4>1. \A x \in Lesson, s \in Sub : ~ (Idle.made[x][s] > 0)
          BY IdleTyped DEF NoUnits
        <4>2. \A x \in Lesson : ~HasLocked(Idle, x)
          BY IdleTurn
        <4>3. WrittenOK(Idle)'
          BY <4>1, <4>2, IdleTyped DEF WrittenOK, Moves, HasLocked
        <4>4. LastOK(Idle)' /\ AddOK(Idle)' /\ ServedOK(Idle)'
          BY IdleTyped DEF LastOK, AddOK, ServedOK
        <4> QED
          BY <4>3, <4>4 DEF TurnOK
      <3> QED
        BY <1>3, <2>1, <3>1
    <2>2. CASE d # c
      <3> PICK o \in TxType : o = tx[d]
        BY TurnFacts
      <3>1. /\ o \in TxType /\ TxOK(o) /\ TurnOK(o) /\ q.held \intersect o.held = {}
            /\ tx'[d] = o /\ o.held \subseteq Sub
            /\ \A x \in Lesson :
                  /\ HasLocked(q, x) => ~HasLocked(o, x)
                  /\ HasLocked(o, x) => ~HasShared(q, x)
        BY <1>1, <1>3, <2>2, TurnFacts, Fields DEF Others
      <3>2. \A x \in Lesson, s \in o.held :
               reserved'[x][s] = reserved[x][s] /\ charged'[x][s] = charged[x][s]
        BY <1>9, <3>1
      <3>3. \A x \in Lesson, s \in o.held :
               Movable(x)' /\ plan'[x].sub = s => Movable(x) /\ plan'[x] = plan[x]
        BY <1>10, <3>1
      <3>4. ASSUME NEW s \in Sub, reserved'[o.lesson][s] > 0, o.lesson \in Lesson
            PROVE  reserved[o.lesson][s] > 0
        <4>1. HasLocked(o, o.lesson)
          BY <3>4, CoverageAssumption DEF HasLocked, NoLesson, Lesson
        <4>2. <<o.lesson, s>> \notin q.rows
          BY <3>1, <3>4, <4>1 DEF HasShared
        <4>3. ~ (q.made[o.lesson][s] > 0)
          BY <1>4, <3>4, <4>2 DEF WrittenOK
        <4>4. reserved'[o.lesson][s] = ViewOf(q, o.lesson, s)
          BY <1>3, <3>4
        <4>5. ViewOf(q, o.lesson, s) > 0
          BY <3>4, <4>4
        <4> QED
          BY <4>3, <4>5 DEF ViewOf
      <3>5. \A x \in Lesson, s \in Sub : HasLocked(o, x) => charged'[x][s] = charged[x][s]
        BY <1>3, <1>5, <3>1
      <3>6. TurnOK(o)'
        BY <1>1, <1>3, <3>1, <3>2, <3>3, <3>4, <3>5, Undisturbed
      <3> QED
        BY <3>1, <3>6
    <2> QED
      BY <2>1, <2>2
  <1>15. ASSUME NEW s \in Sub
         PROVE  Served(On(s), [x \in Lesson |-> plan[x].units],
                       [x \in Lesson |-> reserved[x][s]], Charges(s), s)'
    <2> DEFINE less == On(s)'
               need2 == [x \in Lesson |-> plan'[x].units]
               f2 == [x \in Lesson |-> reserved'[x][s]]
               spent2 == Charges(s)'
    <2>1. less = {x \in Lesson : Movable(x)' /\ plan'[x].sub = s}
      BY DEF On
    <2>2. need2 \in [Lesson -> Nat]
      BY <1>3, WantTyped DEF Typed, TypeOK
    <2>3. Charges(s) \in Int /\ Charges(s) = Sum([x \in Lesson |-> charged[x][s]], Lesson)
      BY <1>1, ChargesTyped DEF Charges
    <2>4. spent2 = Sum([x \in Lesson |-> charged'[x][s]], Lesson)
      BY DEF Charges
    <2> HIDE DEF less, spent2
    <2>5. CASE s \notin q.held
      <3> DEFINE f == [x \in Lesson |-> reserved[x][s]]
                 need == [x \in Lesson |-> plan[x].units]
      <3>1. Served(On(s), need, f, Charges(s), s)
        BY DEF TurnInv
      <3>2. f2 = f
        BY <1>9, <2>5
      <3>3. [x \in Lesson |-> charged'[x][s]] = [x \in Lesson |-> charged[x][s]]
        BY <1>9, <2>5
      <3>4. spent2 = Charges(s)
        BY <2>3, <2>4, <3>3
      <3>5. less \subseteq On(s) /\ On(s) \subseteq Lesson
        BY <1>10, <2>1, <2>5 DEF On
      <3>6. \A x \in less : need2[x] = need[x]
        BY <1>10, <2>1, <2>5
      <3>7. need \in [Lesson -> Nat] /\ f \in [Lesson -> Nat]
        BY <1>1, <1>8, NeedsTyped
      <3> HIDE DEF need, f, need2, f2
      <3>8. Served(less, need2, f, Charges(s), s)
        BY <2>2, <2>3, <3>1, <3>5, <3>6, <3>7, ServedFewer
      <3>9. Served(less, need2, f2, spent2, s)
        BY <3>2, <3>4, <3>8
      <3> QED
        BY <3>9 DEF Served, less, need2, f2, spent2
    <2>6. CASE s \in q.held
      <3> DEFINE on == OnOf(q, s)
                 need == [x \in Lesson |-> UnitsOf(q, x)]
                 f == Held(q, s)
                 spent == Charges(s) + Billed(q, s)
                 old == [x \in Lesson |-> charged[x][s]]
                 new == [x \in Lesson |-> charged'[x][s]]
                 one == [x \in Lesson |-> IF x = q.lesson THEN Billed(q, s) ELSE 0]
      <3>1. Served(on, need, f, spent, s)
        <4>1. Done(q, s)
          BY <1>2 DEF Done
        <4> QED
          BY <1>2, <1>4, <2>6, <4>1 DEF ServedOK
      <3>2. f2 = f
        <4>1. \A x \in Lesson : reserved'[x][s] = ViewOf(q, x, s) + Pending(q, x, s)
          BY <1>3, <1>8
        <4> QED
          BY <4>1 DEF Held
      <3>3. Billed(q, s) \in Nat
        BY <1>1, Fields DEF Billed
      <3>4. spent2 = spent
        <4>1. ASSUME NEW x \in Lesson PROVE new[x] = old[x] + one[x] /\ old[x] \in Int
          <5>1. old[x] \in Nat /\ q.billed \in Nat
            BY <1>1, <1>8, Fields
          <5>2. CASE x = q.lesson
            <6>1. charged[x][s] = 0
              BY <1>4, <1>5, <5>2 DEF WrittenOK
            <6>2. charged'[x][s] = IF s = q.want.sub /\ q.billed > 0 THEN q.billed ELSE 0
              BY <1>3, <5>2, <6>1
            <6> QED
              BY <5>1, <5>2, <6>1, <6>2 DEF Billed
          <5>3. CASE x # q.lesson
            BY <1>3, <5>1, <5>3
          <5> QED
            BY <5>2, <5>3
        <4>2. old \in [Lesson -> Int] /\ one \in [Lesson -> Int]
          BY <3>3, <4>1
        <4>3. new \in [Lesson -> Int]
          <5>1. \A x \in Lesson : old[x] + one[x] \in Int
            <6> HIDE DEF old, one
            <6> QED
              BY <4>2
          <5>2. \A x \in Lesson : new[x] \in Int
            <6> HIDE DEF new, old, one
            <6> QED
              BY <4>1, <5>1
          <5>3. new = [x \in Lesson |-> new[x]]
            OBVIOUS
          <5> HIDE DEF new
          <5> QED
            BY <5>2, <5>3
        <4>4. Sum(one, Lesson) = Billed(q, s)
          <5>1. one[q.lesson] = Billed(q, s) /\ \A x \in Lesson \ {q.lesson} : one[x] = 0
            BY <1>3
          <5> HIDE DEF one
          <5> QED
            BY <1>3, <4>2, <5>1, SumOfOne
        <4>5. Sum(new, Lesson) = Sum(old, Lesson) + Sum(one, Lesson)
          <5>1. ASSUME NEW x \in Lesson
                PROVE  (IF x \in Lesson THEN new[x] ELSE 0)
                         = (IF x \in Lesson THEN old[x] ELSE 0) + (IF x \in Lesson THEN one[x] ELSE 0)
            BY <4>1
          <5> HIDE DEF new, old, one
          <5> QED
            BY <4>2, <4>3, <5>1, SumAdd, SMTT(60)
        <4> QED
          BY <2>3, <2>4, <4>4, <4>5
      <3>5. less \subseteq on /\ on \subseteq Lesson
        <4>1. ASSUME NEW x \in less
              PROVE  x \in Lesson /\ IF Plans(q, x) THEN q.want.sub = s
                                     ELSE x # q.lesson /\ Movable(x) /\ plan[x].sub = s
          <5>1. x \in Lesson /\ Movable(x)' /\ plan'[x].sub = s
            BY <2>1, <4>1
          <5>2. CASE Plans(q, x)
            BY <1>6, <1>7, <5>1, <5>2
          <5>3. CASE ~Plans(q, x)
            <6>1. x \notin Closing(c) /\ x \notin Created(c) /\ x \notin Planned(c)
              BY <1>6, <1>7, <5>1, <5>3 DEF Movable
            <6>2. Movable(x) /\ plan[x].sub = s
              BY <1>7, <5>1, <6>1 DEF Movable
            <6>3. x # q.lesson
              BY <1>6, <5>1, <5>3, <6>1 DEF Plans, OwnOf
            <6> QED
              BY <5>1, <5>3, <6>2, <6>3
          <5> QED
            BY <5>2, <5>3
        <4> QED
          BY <4>1 DEF OnOf
      <3>6. \A x \in less : need2[x] = need[x]
        BY <1>6, <1>7, <2>1 DEF UnitsOf
      <3>7. need \in [Lesson -> Nat] /\ f \in [Lesson -> Nat] /\ spent \in Int
        BY <1>1, <2>3, <3>3, NeedsTyped, HeldTyped
      <3> HIDE DEF on, need, f, spent, need2, f2
      <3>8. Served(less, need2, f, spent, s)
        BY <2>2, <3>1, <3>5, <3>6, <3>7, ServedFewer
      <3>9. Served(less, need2, f2, spent2, s)
        BY <3>2, <3>4, <3>8
      <3> QED
        BY <3>9 DEF Served, less, need2, f2, spent2
    <2> QED
      BY <2>5, <2>6
  <1> QED
    BY <1>1, <1>11, <1>12, <1>13, <1>14, <1>15 DEF TurnInv

\* Lessons that go to staff or are deleted leave the plan.
LEMMA TablesTurn ==
    ASSUME TurnInv, CoverageInv', UNCHANGED <<plan, snapshot, reserved, booked, charged, tx>>,
           \A x \in Lesson : life[x] = "closed" => life'[x] = "closed",
           \A x \in Lesson : Movable(x)' => Movable(x)
    PROVE  TurnInv'
  <1>1. Typed /\ Typed'
    BY DEF TurnInv, CoverageInv
  <1>2. RowsExclusive' /\ BookedOK' /\ ChargedOK'
    BY DEF TurnInv, RowsExclusive, HasLocked, HasShared, BookedOK, ChargedOK
  <1>3. ASSUME NEW d \in Connection PROVE TurnOK(tx[d])'
    <2> PICK o \in TxType : o = tx[d]
      BY TurnFacts
    <2>1. TxOK(o) /\ TurnOK(o) /\ tx'[d] = o
      BY TurnFacts
    <2>2. TurnOK(o)'
      BY <1>1, <2>1, Undisturbed
    <2> QED
      BY <2>1, <2>2
  <1>4. ASSUME NEW s \in Sub
        PROVE  Served(On(s), [x \in Lesson |-> plan[x].units],
                      [x \in Lesson |-> reserved[x][s]], Charges(s), s)'
    <2> DEFINE less == On(s)'
               need == [x \in Lesson |-> plan[x].units]
               f == [x \in Lesson |-> reserved[x][s]]
    <2>1. less \subseteq On(s) /\ On(s) \subseteq Lesson
      BY DEF On
    <2>2. /\ need \in [Lesson -> Nat] /\ f \in [Lesson -> Nat] /\ Charges(s) \in Int
          /\ \A x \in less : need[x] = need[x]
      BY <1>1, UnitsTyped, WantTyped, ChargesTyped DEF Typed, TypeOK
    <2>3. Served(On(s), need, f, Charges(s), s)
      BY DEF TurnInv
    <2>4. Charges(s)' = Charges(s)
      BY DEF Charges
    <2> HIDE DEF less, need, f
    <2>5. Served(less, need, f, Charges(s), s)
      BY <2>1, <2>2, <2>3, ServedFewer
    <2> QED
      BY <2>4, <2>5 DEF Served, less, need, f
  <1> QED
    BY <1>2, <1>3, <1>4 DEF TurnInv

LEMMA InitTurnInv == Init => TurnInv
  <1> SUFFICES ASSUME Init PROVE TurnInv
    OBVIOUS
  <1>1. CoverageInv
    BY InitCoverageInv
  <1>2. \A c \in Connection : tx[c] = Idle
    BY DEF Init
  <1>3. RowsExclusive
    BY <1>2, IdleTurn DEF RowsExclusive
  <1>4. \A x \in Lesson, s \in Sub : ~ (reserved[x][s] > 0) /\ ~ (charged[x][s] > 0)
    BY DEF Init, NoUnits
  <1>5. BookedOK /\ ChargedOK
    BY <1>4 DEF BookedOK, ChargedOK
  <1>6. \A c \in Connection : TurnOK(tx[c])
    BY <1>2, IdleTurn
  <1>7. \A s \in Sub : On(s) = {}
    BY DEF Init, On, Movable
  <1> QED
    BY <1>1, <1>3, <1>5, <1>6, <1>7 DEF TurnInv, Served

LEMMA TurnInvStep == TurnInv /\ [Next]_vars => TurnInv'
  <1> SUFFICES ASSUME TurnInv, [Next]_vars PROVE TurnInv'
    OBVIOUS
  <1>1. ASSUME NEW c \in Connection, Step(c) PROVE TurnInv'
    BY <1>1, LockCoverageTurn, MeasureTurn, BillTurn, CloseFreeTurn, ChangePlanTurn,
       TransferTurn, RedistributeTurn, InsertReserveTurn, CommitTurn DEF Step
  <1>2. CoverageInv'
    BY CoverageStep DEF TurnInv
  <1>3. Typed
    BY DEF TurnInv, CoverageInv
  <1>4. ASSUME NEW x \in Lesson, HandOver(x) \/ DeleteLesson(x) PROVE TurnInv'
    <2>1. UNCHANGED <<plan, snapshot, reserved, booked, charged, tx>>
      BY <1>4 DEF HandOver, DeleteLesson
    <2>2. /\ \A y \in Lesson : life[y] = "closed" => life'[y] = "closed"
          /\ \A y \in Lesson : Movable(y)' => Movable(y)
      BY <1>3, <1>4 DEF HandOver, DeleteLesson, Movable, Typed, TypeOK
    <2> QED
      BY <1>2, <2>1, <2>2, TablesTurn
  <1>5. CASE UNCHANGED vars
    <2>1. /\ UNCHANGED <<plan, snapshot, reserved, booked, charged, tx>>
          /\ UNCHANGED <<life, deleted>>
      BY <1>5 DEF vars, tables
    <2>2. \A y \in Lesson : Movable(y)' => Movable(y)
      BY <2>1 DEF Movable
    <2> QED
      BY <1>2, <2>1, <2>2, TablesTurn
  <1> QED
    BY <1>1, <1>4, <1>5, BeginTurn, RollbackTurn DEF Next

\* What is served is what handing out the units by date gives.
LEMMA TurnServed == TurnInv => EarliestFirst
  <1> SUFFICES ASSUME TurnInv, NEW s \in Sub, NEW x \in On(s)
               PROVE  LET taken(S) == Sum([y \in Lesson |-> reserved[y][s]], S)
                          free == Total[s] - Sum([y \in Lesson |-> charged[y][s]], Lesson)
                                           - taken(Lesson \ On(s))
                          left == free - taken({y \in On(s) : y < x})
                      IN reserved[x][s] = IF plan[x].units <= left THEN plan[x].units ELSE 0
    BY DEF EarliestFirst, On
  <1> DEFINE f == [y \in Lesson |-> reserved[y][s]]
             g == [y \in Lesson |-> charged[y][s]]
             both == [y \in Lesson |-> charged[y][s] + reserved[y][s]]
             off == Lesson \ On(s)
             earlier == {y \in On(s) : y < x}
             before == Before(On(s), x)
             upto == before \union {x}
  <1>1. Typed /\ NeverOverdrawn
    BY DEF TurnInv, CoverageInv
  <1>2. x \in Lesson /\ plan[x].sub = s /\ On(s) \subseteq Lesson
    BY DEF On
  <1>3. plan[x].units \in Nat \ {0} /\ Total[s] \in Nat
    <2>1. plan[x] \in Plan \union {Unfunded}
      BY <1>1, <1>2 DEF Typed, TypeOK
    <2>2. plan[x] # Unfunded
      BY <1>2, CoverageAssumption DEF Unfunded
    <2> QED
      BY <2>1, <2>2, CoverageAssumption
  <1>4. \A y \in Lesson : reserved[y][s] \in Nat /\ charged[y][s] \in Nat
    BY <1>1 DEF Typed, TypeOK
  <1>5. f \in [Lesson -> Int] /\ g \in [Lesson -> Int] /\ both \in [Lesson -> Int]
    BY <1>4
  <1>6. \/ reserved[x][s] = plan[x].units
        \/ /\ reserved[x][s] = 0
           /\ plan[x].units + Charges(s) + Sum(f, before) > Total[s]
    BY <1>2 DEF TurnInv, Served
  <1>7. Charges(s) = Sum(g, Lesson)
    BY DEF Charges
  <1>8. Sum(both, Lesson) <= Total[s]
    BY <1>1 DEF NeverOverdrawn
  <1>9. Sum(both, Lesson) = Sum(g, Lesson) + Sum(f, Lesson)
    <2>1. ASSUME NEW y \in Lesson
          PROVE  (IF y \in Lesson THEN both[y] ELSE 0)
                   = (IF y \in Lesson THEN g[y] ELSE 0) + (IF y \in Lesson THEN f[y] ELSE 0)
      BY <1>4
    <2> HIDE DEF f, g, both
    <2> QED
      BY <1>5, <2>1, SumAdd, SMTT(60)
  <1>10. Sum(f, before) = Sum(f, off) + Sum(f, earlier)
    <2>1. ASSUME NEW y \in Lesson
          PROVE  (IF y \in before THEN f[y] ELSE 0)
                   = (IF y \in off THEN f[y] ELSE 0) + (IF y \in earlier THEN f[y] ELSE 0)
      <3>1. f[y] \in Nat
        BY <1>4
      <3>2. y \in before <=> y \in off \/ y \in earlier
        BY DEF Before
      <3>3. ~ (y \in off /\ y \in earlier)
        OBVIOUS
      <3> HIDE DEF f, before, off, earlier
      <3> QED
        BY <3>1, <3>2, <3>3
    <2> HIDE DEF f, before, off, earlier
    <2> QED
      BY <1>5, <2>1, SumAdd, SMTT(60)
  <1>11. Sum(f, upto) = Sum(f, before) + f[x]
    <2>1. ASSUME NEW y \in Lesson
          PROVE  (IF y \in upto THEN f[y] ELSE 0)
                   = (IF y \in before THEN f[y] ELSE 0) + (IF y \in {x} THEN f[y] ELSE 0)
      <3>1. f[y] \in Nat
        BY <1>4
      <3>2. x \notin before
        BY <1>2, CoverageAssumption DEF Before, Lesson
      <3> HIDE DEF f, before
      <3> QED
        BY <3>1, <3>2
    <2>2. Sum(f, {x}) = f[x]
      <3> HIDE DEF f
      <3>1. \A y \in Lesson \ {x} : y \in {x} => f[y] = 0
        OBVIOUS
      <3> QED
        BY <1>2, <1>5, <3>1, SumOfOne
    <2> HIDE DEF f, before, upto
    <2>3. Sum(f, upto) = Sum(f, before) + Sum(f, {x})
      BY <1>5, <2>1, SumAdd, SMTT(60)
    <2> QED
      BY <2>2, <2>3
  <1>12. Sum(f, upto) <= Sum(f, Lesson)
    <2>1. \A y \in Lesson : (IF y \in upto THEN f[y] ELSE 0) <= (IF y \in Lesson THEN f[y] ELSE 0)
      <3>1. \A y \in Lesson : f[y] \in Nat
        BY <1>4
      <3> HIDE DEF f, upto
      <3> QED
        BY <3>1
    <2> HIDE DEF f, upto
    <2> QED
      BY <1>5, <2>1, SumLeq
  <1>13. f[x] = reserved[x][s]
    BY <1>2
  <1> HIDE DEF f, g, both, off, earlier, before, upto
  <1>14. /\ Sum(f, off) \in Int /\ Sum(f, earlier) \in Int /\ Sum(g, Lesson) \in Int
         /\ Sum(f, before) \in Int /\ Sum(f, upto) \in Int /\ Sum(f, Lesson) \in Int
    BY <1>5, SumType
  <1> DEFINE left == Total[s] - Sum(g, Lesson) - Sum(f, off) - Sum(f, earlier)
  <1>15. reserved[x][s] <= left
    BY <1>3, <1>8, <1>9, <1>10, <1>11, <1>12, <1>13, <1>14, <1>4, <1>2
  <1>16. reserved[x][s] = 0 => reserved[x][s] = plan[x].units \/ plan[x].units > left
    BY <1>3, <1>6, <1>7, <1>10, <1>14
  <1>17. reserved[x][s] = IF plan[x].units <= left THEN plan[x].units ELSE 0
    BY <1>3, <1>6, <1>14, <1>15, <1>16
  <1> QED
    BY <1>17 DEF left, f, g, off, earlier

\* However commands race, crash or roll back, between transactions the reserves
\* of a subscription are those that handing out its units by date gives.
THEOREM EarliestServed == Spec => []EarliestFirst
  BY InitTurnInv, TurnInvStep, TurnServed, PTL DEF Spec
=============================================================================
