------------------------ MODULE LessonCompletionProofs ------------------------
(***************************************************************************)
(* Theorems about LessonCompletion, for any number of lessons and workers, *)
(* any attempt limit and any batch sizes: every lesson is settled exactly  *)
(* once, never before it is over, staff can settle what is handed to them, *)
(* and an overtaken worker cannot end the claim of its successor.          *)
(***************************************************************************)
EXTENDS LessonCompletion, FiniteSetTheorems, TLAPS

\* Stages in which a worker acts on a claim.
InHand == {"opening", "completing", "failing", "unobserved", "poisoned"}

\* There is a work row only for a lesson that was over when it was claimed.
WorkAfterEnd ==
    \A l \in Lesson : work[l] # "none" => ended[l] /\ attempts[l] >= 1

\* A claimDue transaction has lessons for itself, and can claim each once more.
SelectionOK ==
    /\ \A v, w \in Worker : v # w => selected[v] \intersect selected[w] = {}
    /\ \A w \in Worker : \A l \in selected[w] : ended[l] /\ attempts[l] < MaxAttempts

\* A completing transaction has checked the fence and holds the work row.
InHandOK ==
    \A w \in Worker :
        /\ stage[w] \in InHand => current[w] \in Claim
        /\ stage[w] = "completing" => Owns(w, current[w])

LessonOK ==
    /\ SettledExactlyOnce
    /\ NeverBeforeTheEnd
    /\ PendingCanBeSettled
    /\ NothingForgotten
    /\ WorkAfterEnd

CompletionInv ==
    /\ TypeOK
    /\ LessonOK
    /\ SelectionOK
    /\ InHandOK

-----------------------------------------------------------------------------
\* The rank of a poisoned row is a number, because lessons are finitely many.
LEMMA NextRankType == NextRank \in Nat
  <1> DEFINE P == {l \in Lesson : poisonedAt[l] # 0}
  <1>1. IsFiniteSet(P)
    BY LessonAssumption, FS_Subset
  <1>2. Cardinality(P) \in Nat
    BY <1>1, FS_CardinalityType
  <1> QED
    BY <1>2 DEF NextRank

\* Steps after which nobody has selected more and no attempt is counted keep
\* what is said of selections.
LEMMA SelectionKept ==
    ASSUME TypeOK, SelectionOK,
           attempts' = attempts,
           \A l \in Lesson : ended[l] => ended'[l],
           \A w \in Worker : selected'[w] \subseteq selected[w]
    PROVE  SelectionOK'
  <1>1. \A w \in Worker : selected[w] \subseteq Lesson
    BY DEF TypeOK
  <1> QED
    BY <1>1 DEF SelectionOK

\* Steps after which whoever is completing was completing the same claim, and
\* that do not touch the rows these transactions hold, keep the fence.
LEMMA InHandKept ==
    ASSUME TypeOK, InHandOK,
           \A w \in Worker : stage'[w] \in InHand => current'[w] \in Claim,
           \A w \in Worker : stage'[w] = "completing" =>
               /\ stage[w] = "completing"
               /\ current'[w] = current[w]
               /\ work'[current[w].lesson] = work[current[w].lesson]
               /\ owner'[current[w].lesson] = owner[current[w].lesson]
               /\ attempts'[current[w].lesson] = attempts[current[w].lesson]
    PROVE  InHandOK'
  BY DEF InHandOK, Owns

LEMMA InitCompletionInv == Init => CompletionInv
  <1> SUFFICES ASSUME Init PROVE CompletionInv
    OBVIOUS
  <1>1. TypeOK
    BY MaxAttemptsAssumption DEF Init, TypeOK, Lifecycles, Stages
  <1>2. LessonOK
    BY DEF Init, LessonOK, SettledExactlyOnce, NeverBeforeTheEnd, PendingCanBeSettled,
           NothingForgotten, WorkAfterEnd, Terminal
  <1>3. SelectionOK
    BY DEF Init, SelectionOK
  <1>4. InHandOK
    BY DEF Init, InHandOK, InHand
  <1> QED
    BY <1>1, <1>2, <1>3, <1>4 DEF CompletionInv

-----------------------------------------------------------------------------
(* Steps of a worker that change no table.                                 *)

\* Selecting takes only lessons that are due and that nobody else holds.
LEMMA SelectDueInv ==
    ASSUME NEW w \in Worker, CompletionInv, SelectDue(w)
    PROVE  CompletionInv'
  <1>1. PICK S \in SUBSET {l \in Lesson : Due(l) /\ ~LessonLocked(l)} :
           selected' = [selected EXCEPT ![w] = S]
    BY DEF SelectDue
  <1>2. /\ stage' = [stage EXCEPT ![w] = "selected"]
        /\ UNCHANGED <<lessonVars, workVars, claims, current, reviews, error>>
    BY DEF SelectDue
  <1>3. TypeOK'
    BY <1>1, <1>2 DEF CompletionInv, TypeOK, Stages, lessonVars, workVars
  <1>4. LessonOK'
    BY <1>2 DEF CompletionInv, LessonOK, SettledExactlyOnce, NeverBeforeTheEnd,
                PendingCanBeSettled, NothingForgotten, WorkAfterEnd, lessonVars, workVars
  <1>5. SelectionOK'
    <2>1. \A v \in Worker : selected'[v] = IF v = w THEN S ELSE selected[v]
      BY <1>1 DEF CompletionInv, TypeOK
    <2>2. \A v \in Worker : S \intersect selected[v] = {}
      BY DEF LessonLocked
    <2>3. \A l \in S : ended[l] /\ attempts[l] < MaxAttempts
      BY DEF Due
    <2>4. ended' = ended /\ attempts' = attempts
      BY <1>2 DEF lessonVars, workVars
    <2> QED
      BY <2>1, <2>2, <2>3, <2>4 DEF CompletionInv, SelectionOK
  <1>6. InHandOK'
    BY <1>2 DEF CompletionInv, InHandOK, InHand, Owns, TypeOK, workVars
  <1> QED
    BY <1>3, <1>4, <1>5, <1>6 DEF CompletionInv

\* The tables stay; selections only shrink; nobody begins to complete.
LEMMA QuietStepInv ==
    ASSUME CompletionInv,
           UNCHANGED <<lessonVars, workVars>>,
           TypeOK',
           \A w \in Worker : selected'[w] \subseteq selected[w],
           \A w \in Worker : stage'[w] \in InHand => current'[w] \in Claim,
           \A w \in Worker : stage'[w] = "completing" =>
               stage[w] = "completing" /\ current'[w] = current[w]
    PROVE  CompletionInv'
  <1>1. LessonOK'
    BY DEF CompletionInv, LessonOK, SettledExactlyOnce, NeverBeforeTheEnd,
           PendingCanBeSettled, NothingForgotten, WorkAfterEnd, lessonVars, workVars
  <1>2. SelectionOK'
    BY SelectionKept DEF CompletionInv, lessonVars, workVars
  <1>3. InHandOK'
    BY InHandKept DEF CompletionInv, workVars
  <1> QED
    BY <1>1, <1>2, <1>3 DEF CompletionInv

\* Ending a run for any reason is quiet.
LEMMA AbandonInv ==
    ASSUME NEW w \in Worker, CompletionInv, UNCHANGED <<lessonVars, workVars>>,
           NEW s \in {"idle", "down"},
           stage' = [stage EXCEPT ![w] = s],
           selected' = [selected EXCEPT ![w] = {}],
           claims' = [claims EXCEPT ![w] = {}],
           current' = [current EXCEPT ![w] = NoClaim],
           reviews' = [reviews EXCEPT ![w] = {}],
           error' = [error EXCEPT ![w] = FALSE]
    PROVE  CompletionInv'
  <1>1. TypeOK'
    BY DEF CompletionInv, TypeOK, Stages, lessonVars, workVars
  <1>2. \A v \in Worker : /\ selected'[v] \subseteq selected[v]
                          /\ stage'[v] \in InHand =>
                                v # w /\ stage'[v] = stage[v] /\ current'[v] = current[v]
    BY DEF CompletionInv, TypeOK, InHand
  <1>3. \A v \in Worker : stage'[v] \in InHand => current'[v] \in Claim
    BY <1>2 DEF CompletionInv, InHandOK
  <1>4. \A v \in Worker : stage'[v] = "completing" =>
             stage[v] = "completing" /\ current'[v] = current[v]
    BY <1>2 DEF InHand
  <1> QED
    BY <1>1, <1>2, <1>3, <1>4, QuietStepInv

\* Finishing with a claim is quiet when the tables stay.
LEMMA FinishQuietly ==
    ASSUME NEW w \in Worker, CompletionInv, UNCHANGED <<lessonVars, workVars>>, Finish(w)
    PROVE  CompletionInv'
  <1>1. TypeOK'
    BY DEF CompletionInv, TypeOK, Stages, Finish, lessonVars, workVars
  <1>2. \A v \in Worker : /\ selected'[v] = selected[v]
                          /\ stage'[v] \in InHand =>
                                v # w /\ stage'[v] = stage[v] /\ current'[v] = current[v]
    BY DEF CompletionInv, TypeOK, InHand, Finish
  <1>3. \A v \in Worker : stage'[v] \in InHand => current'[v] \in Claim
    BY <1>2 DEF CompletionInv, InHandOK
  <1>4. \A v \in Worker : stage'[v] = "completing" =>
             stage[v] = "completing" /\ current'[v] = current[v]
    BY <1>2 DEF InHand
  <1> QED
    BY <1>1, <1>2, <1>3, <1>4, QuietStepInv

\* Taking the work row: the fence holds when the row is locked.
LEMMA LockWorkInv ==
    ASSUME NEW w \in Worker, CompletionInv, LockWork(w)
    PROVE  CompletionInv'
  <1>1. /\ stage[w] = "opening" /\ Owns(w, current[w])
        /\ stage' = [stage EXCEPT ![w] = "completing"]
        /\ UNCHANGED <<lessonVars, workVars, selected, claims, current, reviews, error>>
    BY DEF LockWork
  <1>2. TypeOK'
    BY <1>1 DEF CompletionInv, TypeOK, Stages, lessonVars, workVars
  <1>3. LessonOK'
    BY <1>1 DEF CompletionInv, LessonOK, SettledExactlyOnce, NeverBeforeTheEnd,
                PendingCanBeSettled, NothingForgotten, WorkAfterEnd, lessonVars, workVars
  <1>4. SelectionOK'
    BY <1>1, SelectionKept DEF CompletionInv, lessonVars, workVars
  <1>5. InHandOK'
    BY <1>1 DEF CompletionInv, TypeOK, InHandOK, InHand, Owns, workVars
  <1> QED
    BY <1>2, <1>3, <1>4, <1>5 DEF CompletionInv

\* The other steps of a run that touch no table.
LEMMA ReadingStepInv ==
    ASSUME NEW w \in Worker, CompletionInv,
           \/ ReadPoison(w) \/ RecoveryEnds(w) \/ TakeClaim(w)
           \/ LockWorkFails(w) \/ CompletionFails(w)
    PROVE  CompletionInv'
  <1>1. UNCHANGED <<lessonVars, workVars, selected>>
    BY DEF ReadPoison, OldestPoison, RecoveryEnds, TakeClaim, LockWorkFails, CompletionFails
  <1>2. \A v \in Worker \ {w} : stage'[v] = stage[v] /\ current'[v] = current[v]
    BY DEF ReadPoison, OldestPoison, RecoveryEnds, TakeClaim, LockWorkFails, CompletionFails,
           CompletionInv, TypeOK
  <1>3. stage'[w] # "completing" /\ (stage'[w] \in InHand => current'[w] \in Claim)
    BY DEF ReadPoison, OldestPoison, RecoveryEnds, TakeClaim, LockWorkFails, CompletionFails,
           CompletionInv, TypeOK, InHandOK, InHand
  <1>4. TypeOK'
    <2>1. CASE ReadPoison(w)
      <3>1. PICK S \in SUBSET {l \in Lesson : work[l] = "poison" /\ lifecycle[l] = "scheduled"} :
              reviews' = [reviews EXCEPT ![w] =
                {[lesson |-> l, version |-> version[l], attempt |-> attempts[l]] : l \in S}]
        BY <2>1 DEF ReadPoison, OldestPoison
      <3>2. \A l \in S : version[l] \in Nat /\ attempts[l] \in 1..MaxAttempts
        BY MaxAttemptsAssumption DEF CompletionInv, TypeOK, LessonOK, WorkAfterEnd
      <3>3. {[lesson |-> l, version |-> version[l], attempt |-> attempts[l]] : l \in S}
              \subseteq Claim
        BY <3>2 DEF Claim
      <3>4. reviews' \in [Worker -> SUBSET Claim]
        BY <3>1, <3>3 DEF CompletionInv, TypeOK
      <3> QED
        BY <2>1, <3>4 DEF ReadPoison, OldestPoison, CompletionInv, TypeOK, Stages, lessonVars, workVars
    <2>2. CASE RecoveryEnds(w)
      BY <2>2 DEF RecoveryEnds, CompletionInv, TypeOK, Stages, lessonVars, workVars
    <2>3. CASE TakeClaim(w)
      BY <2>3 DEF TakeClaim, CompletionInv, TypeOK, Stages, lessonVars, workVars
    <2>4. CASE LockWorkFails(w)
      BY <2>4 DEF LockWorkFails, CompletionInv, TypeOK, Stages, lessonVars, workVars
    <2>5. CASE CompletionFails(w)
      BY <2>5 DEF CompletionFails, CompletionInv, TypeOK, Stages, lessonVars, workVars
    <2> QED
      BY <2>1, <2>2, <2>3, <2>4, <2>5
  <1>5. \A v \in Worker : stage'[v] \in InHand => current'[v] \in Claim
    BY <1>2, <1>3 DEF CompletionInv, InHandOK
  <1>6. \A v \in Worker : stage'[v] = "completing" =>
             stage[v] = "completing" /\ current'[v] = current[v]
    BY <1>2, <1>3
  <1> QED
    BY <1>1, <1>4, <1>5, <1>6, QuietStepInv

-----------------------------------------------------------------------------
(* Steps that change work rows and lessons.                                *)

\* Claiming: only selected lessons gain an attempt, and rows that completing
\* transactions hold are left alone.
LEMMA UpsertClaimsInv ==
    ASSUME NEW w \in Worker, CompletionInv, UpsertClaims(w)
    PROVE  CompletionInv'
  <1> DEFINE won == {l \in selected[w] : work[l] = "none" \/ Reclaimable(l)}
             lost == {l \in Lesson : Exhausted(l)}
             made == {[lesson |-> l, version |-> version[l], attempt |-> attempts[l] + 1]
                        : l \in won}
  <1>1. /\ \A l \in selected[w] \union lost : ~WorkLocked(l)
        /\ work' = [l \in Lesson |-> IF l \in won THEN "claimed"
                                     ELSE IF l \in lost THEN "poison" ELSE work[l]]
        /\ attempts' = [l \in Lesson |-> IF l \in won THEN attempts[l] + 1 ELSE attempts[l]]
        /\ owner' = [l \in Lesson |-> IF l \in won THEN w
                                      ELSE IF l \in lost THEN NoWorker ELSE owner[l]]
        /\ expired' = [l \in Lesson |-> l \notin won \union lost /\ expired[l]]
        /\ available' = [l \in Lesson |-> l \in won \/ available[l]]
        /\ poisonedAt' = [l \in Lesson |-> IF l \in lost THEN NextRank ELSE poisonedAt[l]]
        /\ claims' = [claims EXCEPT ![w] = made]
        /\ selected' = [selected EXCEPT ![w] = {}]
        /\ stage' = [stage EXCEPT ![w] = "claimed"]
        /\ UNCHANGED <<lessonVars, funding, current, reviews, error>>
    BY DEF UpsertClaims
  <1>2. \A l \in won : /\ l \in Lesson /\ ended[l] /\ version[l] \in Nat
                       /\ attempts[l] \in Nat /\ attempts[l] + 1 \in 1..MaxAttempts
    BY MaxAttemptsAssumption DEF CompletionInv, TypeOK, SelectionOK
  <1> HIDE DEF won, lost, made
  <1>3. TypeOK'
    <2>1. attempts' \in [Lesson -> 0..MaxAttempts]
      BY <1>1, <1>2 DEF CompletionInv, TypeOK
    <2>2. made \subseteq Claim
      BY <1>2 DEF Claim, made
    <2>3. claims' \in [Worker -> SUBSET Claim]
      BY <1>1, <2>2 DEF CompletionInv, TypeOK
    <2>4. poisonedAt' \in [Lesson -> Nat]
      BY <1>1, NextRankType DEF CompletionInv, TypeOK
    <2>5. /\ work' \in [Lesson -> {"none", "claimed", "retry", "completed", "poison"}]
          /\ owner' \in [Lesson -> Worker \union {NoWorker}]
          /\ expired' \in [Lesson -> BOOLEAN]
          /\ available' \in [Lesson -> BOOLEAN]
      BY <1>1 DEF CompletionInv, TypeOK
    <2>6. selected' \in [Worker -> SUBSET Lesson] /\ stage' \in [Worker -> Stages]
      BY <1>1 DEF CompletionInv, TypeOK, Stages
    <2> QED
      BY <1>1, <2>1, <2>3, <2>4, <2>5, <2>6 DEF CompletionInv, TypeOK, lessonVars
  <1>4. LessonOK'
    <2>1. SettledExactlyOnce' /\ NeverBeforeTheEnd' /\ PendingCanBeSettled'
      BY <1>1 DEF CompletionInv, LessonOK, SettledExactlyOnce, NeverBeforeTheEnd,
                  PendingCanBeSettled, lessonVars
    <2>2. NothingForgotten'
      BY <1>1 DEF CompletionInv, LessonOK, NothingForgotten, lessonVars
    <2>3. WorkAfterEnd'
      BY <1>1, <1>2 DEF CompletionInv, LessonOK, WorkAfterEnd, Exhausted, lost, lessonVars
    <2> QED
      BY <2>1, <2>2, <2>3 DEF LessonOK
  <1>5. SelectionOK'
    <2>1. \A v \in Worker \ {w} : selected'[v] = selected[v] /\ selected[v] \intersect won = {}
      BY <1>1 DEF CompletionInv, TypeOK, SelectionOK, won
    <2>2. selected'[w] = {}
      BY <1>1 DEF CompletionInv, TypeOK
    <2>3. \A v \in Worker : \A l \in selected'[v] :
              l \in Lesson /\ l \in selected[v] /\ l \notin won
      BY <2>1, <2>2 DEF CompletionInv, TypeOK
    <2>4. \A l \in Lesson : l \notin won => attempts'[l] = attempts[l]
      BY <1>1
    <2> QED
      BY <1>1, <2>1, <2>2, <2>3, <2>4 DEF CompletionInv, SelectionOK, lessonVars
  <1>6. InHandOK'
    <2>1. \A v \in Worker : stage'[v] = "completing" => v # w /\ stage[v] = "completing"
      BY <1>1 DEF CompletionInv, TypeOK
    <2>2. \A v \in Worker : stage[v] = "completing" =>
             /\ current[v].lesson \in Lesson
             /\ current[v].lesson \notin selected[w] \union lost
      BY <1>1 DEF CompletionInv, InHandOK, InHand, WorkLocked, Claim
    <2>3. won \subseteq selected[w]
      BY DEF won
    <2>4. \A v \in Worker : stage'[v] \in InHand => current'[v] \in Claim
      BY <1>1 DEF CompletionInv, TypeOK, InHandOK, InHand
    <2> QED
      BY <1>1, <2>1, <2>2, <2>3, <2>4, InHandKept DEF CompletionInv
  <1> QED
    BY <1>3, <1>4, <1>5, <1>6 DEF CompletionInv

\* Handing a poisoned lesson to staff: what it does to the lesson and its row,
\* for a worker that recovers it (w stays where it is) or has just poisoned it.
LEMMA ReviewKeepsLessons ==
    ASSUME CompletionInv, NEW c \in Claim, MarkReviewRequired(c)
    PROVE  /\ LessonOK'
           /\ ended' = ended /\ attempts' = attempts /\ owner' = owner
           /\ \A l \in Lesson : work[l] # "poison" => work'[l] = work[l]
           /\ lifecycle' \in [Lesson -> Lifecycles]
           /\ version' \in [Lesson -> Nat]
           /\ plan' \in [Lesson -> {"planned", "review_required", "settled"}]
           /\ work' \in [Lesson -> {"none", "claimed", "retry", "completed", "poison"}]
  <1> DEFINE l == c.lesson
  <1>1. l \in Lesson
    BY DEF Claim
  <1>2. work[l] = "poison" /\ lifecycle[l] = "scheduled"
    BY DEF MarkReviewRequired, ReviewAllowed
  <1>3. /\ lifecycle' = [lifecycle EXCEPT ![l] = "settlement_pending"]
        /\ version' = [version EXCEPT ![l] = @ + 1]
        /\ plan' = [plan EXCEPT ![l] = IF @ = "planned" THEN "review_required" ELSE @]
        /\ work' = [work EXCEPT ![l] = IF funding[l] THEN "completed" ELSE @]
        /\ UNCHANGED <<deleted, ended, settled, attempts, owner, expired, available,
                       funding, poisonedAt>>
    BY DEF MarkReviewRequired, MarkPlan
  <1>4. ended[l] /\ plan[l] = "planned"
    BY <1>1, <1>2 DEF CompletionInv, LessonOK, WorkAfterEnd, PendingCanBeSettled
  <1> HIDE DEF l
  <1>5. /\ lifecycle' \in [Lesson -> Lifecycles] /\ version' \in [Lesson -> Nat]
        /\ plan' \in [Lesson -> {"planned", "review_required", "settled"}]
        /\ work' \in [Lesson -> {"none", "claimed", "retry", "completed", "poison"}]
    BY <1>1, <1>3 DEF CompletionInv, TypeOK, Lifecycles
  <1>6. SettledExactlyOnce'
    BY <1>1, <1>2, <1>3 DEF CompletionInv, TypeOK, LessonOK, SettledExactlyOnce, Terminal
  <1>7. NeverBeforeTheEnd'
    BY <1>1, <1>3, <1>4 DEF CompletionInv, TypeOK, LessonOK, NeverBeforeTheEnd
  <1>8. PendingCanBeSettled'
    BY <1>1, <1>3, <1>4 DEF CompletionInv, TypeOK, LessonOK, PendingCanBeSettled
  <1>9. NothingForgotten'
    BY <1>1, <1>2, <1>3 DEF CompletionInv, TypeOK, LessonOK, NothingForgotten
  <1>10. WorkAfterEnd'
    BY <1>1, <1>2, <1>3 DEF CompletionInv, TypeOK, LessonOK, WorkAfterEnd
  <1>11. \A k \in Lesson : work[k] # "poison" => work'[k] = work[k]
    BY <1>1, <1>2, <1>3 DEF CompletionInv, TypeOK
  <1> QED
    BY <1>3, <1>5, <1>6, <1>7, <1>8, <1>9, <1>10, <1>11 DEF LessonOK

\* A row that a completing transaction holds is claimed, so no review changes it.
LEMMA CompletingIsClaimed ==
    ASSUME CompletionInv, NEW v \in Worker, stage[v] = "completing"
    PROVE  current[v].lesson \in Lesson /\ work[current[v].lesson] = "claimed"
  BY DEF CompletionInv, InHandOK, InHand, Owns, Claim

LEMMA RecoverPoisonInv ==
    ASSUME NEW w \in Worker, CompletionInv, RecoverPoison(w)
    PROVE  CompletionInv'
  <1>1. PICK c \in reviews[w] :
           /\ MarkReviewRequired(c) \/ ReviewRefused(c)
           /\ reviews' = [reviews EXCEPT ![w] = @ \ {c}]
    BY DEF RecoverPoison
  <1>2. c \in Claim /\ UNCHANGED <<stage, selected, claims, current, error>>
    BY <1>1 DEF RecoverPoison, CompletionInv, TypeOK
  <1>3. reviews' \in [Worker -> SUBSET Claim]
    BY <1>1 DEF CompletionInv, TypeOK
  <1>4. CASE MarkReviewRequired(c)
    <2>1. TypeOK'
      BY <1>2, <1>3, <1>4, ReviewKeepsLessons
      DEF CompletionInv, TypeOK, MarkReviewRequired
    <2>2. SelectionOK'
      BY <1>2, <1>4, ReviewKeepsLessons, SelectionKept DEF CompletionInv
    <2>3. InHandOK'
      BY <1>2, <1>4, ReviewKeepsLessons, CompletingIsClaimed, InHandKept
      DEF CompletionInv, InHandOK
    <2> QED
      BY <1>2, <1>4, <2>1, <2>2, <2>3, ReviewKeepsLessons DEF CompletionInv
  <1>5. CASE ReviewRefused(c)
    <2>1. UNCHANGED <<lessonVars, workVars>>
      BY <1>5 DEF ReviewRefused
    <2>2. TypeOK'
      BY <1>2, <1>3, <2>1 DEF CompletionInv, TypeOK, lessonVars, workVars
    <2>3. \A v \in Worker : stage'[v] \in InHand => current'[v] \in Claim
      BY <1>2 DEF CompletionInv, InHandOK
    <2> QED
      BY <1>2, <2>1, <2>2, <2>3, QuietStepInv
  <1> QED
    BY <1>1, <1>4, <1>5

LEMMA ReviewOwnInv ==
    ASSUME NEW w \in Worker, CompletionInv, ReviewOwn(w)
    PROVE  CompletionInv'
  <1>1. stage[w] = "poisoned" /\ Finish(w) /\ current[w] \in Claim
    BY DEF ReviewOwn, CompletionInv, InHandOK, InHand
  <1>2. CASE UNCHANGED <<lessonVars, workVars>>
    BY <1>1, <1>2, FinishQuietly
  <1>3. CASE MarkReviewRequired(current[w])
    <2>1. TypeOK'
      BY <1>1, <1>3, ReviewKeepsLessons
      DEF CompletionInv, TypeOK, MarkReviewRequired, Finish, Stages
    <2>2. SelectionOK'
      BY <1>1, <1>3, ReviewKeepsLessons, SelectionKept DEF CompletionInv, Finish
    <2>3. \A v \in Worker : stage'[v] \in InHand =>
             v # w /\ stage'[v] = stage[v] /\ current'[v] = current[v]
      BY <1>1 DEF CompletionInv, TypeOK, InHand, Finish
    <2>4. \A v \in Worker : stage'[v] \in InHand => current'[v] \in Claim
      BY <2>3 DEF CompletionInv, InHandOK
    <2>5. \A v \in Worker : stage'[v] = "completing" =>
             stage[v] = "completing" /\ current'[v] = current[v]
      BY <2>3 DEF InHand
    <2>6. InHandOK'
      BY <1>1, <1>3, <2>4, <2>5, ReviewKeepsLessons, CompletingIsClaimed, InHandKept
      DEF CompletionInv
    <2> QED
      BY <1>1, <1>3, <2>1, <2>2, <2>6, ReviewKeepsLessons DEF CompletionInv
  <1> QED
    BY <1>2, <1>3 DEF ReviewOwn

\* The row of l is changed in a step of w in which nobody selects, claims or
\* begins to complete: l is w's own claim, or no transaction holds it.
LEMMA RowStepInv ==
    ASSUME NEW w \in Worker, CompletionInv, TypeOK', LessonOK', NEW l \in Lesson,
           selected' = selected, attempts' = attempts,
           \A k \in Lesson : ended[k] => ended'[k],
           \A k \in Lesson \ {l} : work'[k] = work[k] /\ owner'[k] = owner[k],
           \A v \in Worker : stage'[v] \in InHand => current'[v] \in Claim,
           \A v \in Worker : stage'[v] = "completing" =>
               v # w /\ stage[v] = "completing" /\ current'[v] = current[v],
           \A v \in Worker \ {w} :
               stage[v] = "completing" => current[v].lesson # l
    PROVE  CompletionInv'
  <1>1. SelectionOK'
    BY SelectionKept DEF CompletionInv
  <1>2. InHandOK'
    BY CompletingIsClaimed, InHandKept DEF CompletionInv
  <1> QED
    BY <1>1, <1>2 DEF CompletionInv

\* Two completing transactions hold different rows.
LEMMA CompletingAlone ==
    ASSUME CompletionInv, NEW v \in Worker, NEW w \in Worker, v # w,
           stage[v] = "completing", Owns(w, current[w])
    PROVE  current[v].lesson # current[w].lesson
  BY DEF CompletionInv, InHandOK, Owns

LEMMA CommitCompletionInv ==
    ASSUME NEW w \in Worker, CompletionInv, CommitCompletion(w)
    PROVE  CompletionInv'
  <1> DEFINE l == current[w].lesson
  <1>1. /\ stage[w] = "completing" /\ current[w] \in Claim /\ l \in Lesson
        /\ Owns(w, current[w])
    BY DEF CommitCompletion, CompletionInv, InHandOK, InHand, Claim
  <1>2. lifecycle[l] = "scheduled" /\ ended[l] /\ work[l] = "claimed"
    BY <1>1 DEF CommitCompletion, Completable, Owns
  <1>3. /\ lifecycle' = [lifecycle EXCEPT ![l] = "successfully_completed"]
        /\ version' = [version EXCEPT ![l] = @ + 1]
        /\ plan' = [plan EXCEPT ![l] = "settled"]
        /\ settled' = [settled EXCEPT ![l] = @ + 1]
        /\ work' = [work EXCEPT ![l] = "completed"]
        /\ owner' = [owner EXCEPT ![l] = NoWorker]
        /\ expired' = [expired EXCEPT ![l] = FALSE]
        /\ funding' = [funding EXCEPT ![l] = FALSE]
        /\ UNCHANGED <<deleted, ended, attempts, available, poisonedAt>>
    BY DEF CommitCompletion, CloseWork
  <1>4. /\ UNCHANGED <<selected, claims, reviews>>
        /\ \/ /\ stage' = [stage EXCEPT ![w] = "looping"]
              /\ current' = [current EXCEPT ![w] = NoClaim]
              /\ error' = [error EXCEPT ![w] = FALSE]
           \/ stage' = [stage EXCEPT ![w] = "failing"] /\ UNCHANGED <<current, error>>
    BY DEF CommitCompletion, Finish
  <1> HIDE DEF l
  <1>5. TypeOK'
    <2>1. /\ lifecycle' \in [Lesson -> Lifecycles] /\ version' \in [Lesson -> Nat]
          /\ plan' \in [Lesson -> {"planned", "review_required", "settled"}]
          /\ settled' \in [Lesson -> Nat]
      BY <1>1, <1>3 DEF CompletionInv, TypeOK, Lifecycles
    <2>2. /\ work' \in [Lesson -> {"none", "claimed", "retry", "completed", "poison"}]
          /\ owner' \in [Lesson -> Worker \union {NoWorker}]
          /\ expired' \in [Lesson -> BOOLEAN] /\ funding' \in [Lesson -> BOOLEAN]
      BY <1>1, <1>3 DEF CompletionInv, TypeOK
    <2>3. /\ stage' \in [Worker -> Stages] /\ current' \in [Worker -> Claim \union {NoClaim}]
          /\ error' \in [Worker -> BOOLEAN]
      BY <1>4 DEF CompletionInv, TypeOK, Stages
    <2> QED
      BY <1>3, <1>4, <2>1, <2>2, <2>3 DEF CompletionInv, TypeOK
  <1>6. LessonOK'
    <2>1. SettledExactlyOnce'
      BY <1>1, <1>2, <1>3 DEF CompletionInv, TypeOK, LessonOK, SettledExactlyOnce, Terminal
    <2>2. NeverBeforeTheEnd' /\ PendingCanBeSettled'
      BY <1>1, <1>2, <1>3
      DEF CompletionInv, TypeOK, LessonOK, NeverBeforeTheEnd, PendingCanBeSettled
    <2>3. NothingForgotten'
      BY <1>1, <1>2, <1>3 DEF CompletionInv, TypeOK, LessonOK, NothingForgotten
    <2>4. WorkAfterEnd'
      BY <1>1, <1>2, <1>3 DEF CompletionInv, TypeOK, LessonOK, WorkAfterEnd
    <2> QED
      BY <2>1, <2>2, <2>3, <2>4 DEF LessonOK
  <1>7. \A v \in Worker : stage'[v] \in InHand => current'[v] \in Claim
    <2>1. \A v \in Worker \ {w} : stage'[v] = stage[v] /\ current'[v] = current[v]
      BY <1>4 DEF CompletionInv, TypeOK
    <2>2. stage'[w] \in InHand => current'[w] = current[w]
      BY <1>4 DEF CompletionInv, TypeOK, InHand
    <2> QED
      BY <1>1, <2>1, <2>2 DEF CompletionInv, InHandOK
  <1>8. \A v \in Worker : stage'[v] = "completing" =>
            v # w /\ stage[v] = "completing" /\ current'[v] = current[v]
    BY <1>4 DEF CompletionInv, TypeOK
  <1>9. \A v \in Worker \ {w} : stage[v] = "completing" => current[v].lesson # l
    BY <1>1, CompletingAlone DEF l
  <1>10. \A k \in Lesson \ {l} : work'[k] = work[k] /\ owner'[k] = owner[k]
    BY <1>3 DEF CompletionInv, TypeOK
  <1> QED
    BY <1>1, <1>3, <1>4, <1>5, <1>6, <1>7, <1>8, <1>9, <1>10, RowStepInv

\* The outcome of a failed claim is written only behind the fence, and only
\* once no transaction holds the row.
LEMMA MarkTerminalObservedInv ==
    ASSUME NEW w \in Worker, CompletionInv, MarkTerminalObserved(w)
    PROVE  CompletionInv'
  <1> DEFINE l == current[w].lesson
  <1>1. /\ stage[w] = "failing" /\ current[w] \in Claim /\ l \in Lesson
        /\ ~WorkLocked(l) /\ UNCHANGED lessonVars
    BY DEF MarkTerminalObserved, CompletionInv, InHandOK, InHand, Claim
  <1>2. CASE Owns(w, current[w]) /\ lifecycle[l] # "scheduled"
    <2>1. /\ work' = [work EXCEPT ![l] = "completed"]
          /\ owner' = [owner EXCEPT ![l] = NoWorker]
          /\ expired' = [expired EXCEPT ![l] = FALSE]
          /\ funding' = [funding EXCEPT ![l] = FALSE]
          /\ UNCHANGED <<attempts, available, poisonedAt>>
          /\ stage' = [stage EXCEPT ![w] = "looping"]
          /\ current' = [current EXCEPT ![w] = NoClaim]
          /\ error' = [error EXCEPT ![w] = FALSE]
          /\ UNCHANGED <<selected, claims, reviews>>
          /\ work[l] = "claimed"
      BY <1>2 DEF MarkTerminalObserved, CloseWork, Finish, Owns
    <2>2. TypeOK'
      BY <1>1, <2>1 DEF CompletionInv, TypeOK, Stages, lessonVars
    <2>3. LessonOK'
      <3>1. SettledExactlyOnce' /\ NeverBeforeTheEnd' /\ PendingCanBeSettled'
        BY <1>1 DEF CompletionInv, LessonOK, SettledExactlyOnce, NeverBeforeTheEnd,
                    PendingCanBeSettled, lessonVars
      <3>2. NothingForgotten' /\ WorkAfterEnd'
        BY <1>1, <1>2, <2>1 DEF CompletionInv, TypeOK, LessonOK, NothingForgotten,
                                WorkAfterEnd, lessonVars
      <3> QED
        BY <3>1, <3>2 DEF LessonOK
    <2>4. \A v \in Worker : stage'[v] \in InHand =>
             v # w /\ stage'[v] = stage[v] /\ current'[v] = current[v]
      BY <2>1 DEF CompletionInv, TypeOK, InHand
    <2>5. \A v \in Worker : stage'[v] \in InHand => current'[v] \in Claim
      BY <2>4 DEF CompletionInv, InHandOK
    <2>6. \A v \in Worker : stage'[v] = "completing" =>
             v # w /\ stage[v] = "completing" /\ current'[v] = current[v]
      BY <2>4 DEF InHand
    <2>7. \A v \in Worker : stage[v] = "completing" => current[v].lesson # l
      BY <1>1 DEF WorkLocked
    <2>8. \A k \in Lesson \ {l} : work'[k] = work[k] /\ owner'[k] = owner[k]
      BY <2>1 DEF CompletionInv, TypeOK
    <2>9. ended' = ended
      BY <1>1 DEF lessonVars
    <2> HIDE DEF l
    <2> QED
      BY <1>1, <2>1, <2>2, <2>3, <2>5, <2>6, <2>7, <2>8, <2>9, RowStepInv
  <1>3. CASE ~(Owns(w, current[w]) /\ lifecycle[l] # "scheduled")
    <2>1. /\ stage' = [stage EXCEPT ![w] = "unobserved"]
          /\ UNCHANGED <<workVars, selected, claims, current, reviews, error>>
      BY <1>3 DEF MarkTerminalObserved
    <2>2. TypeOK'
      BY <1>1, <2>1 DEF CompletionInv, TypeOK, Stages, lessonVars, workVars
    <2>3. \A v \in Worker : stage'[v] \in InHand => current'[v] \in Claim
      BY <1>1, <2>1 DEF CompletionInv, TypeOK, InHandOK, InHand
    <2>4. \A v \in Worker : stage'[v] = "completing" =>
             stage[v] = "completing" /\ current'[v] = current[v]
      BY <2>1 DEF CompletionInv, TypeOK
    <2> QED
      BY <1>1, <2>1, <2>2, <2>3, <2>4, QuietStepInv
  <1> QED
    BY <1>2, <1>3

LEMMA MarkPoisonInv ==
    ASSUME NEW w \in Worker, CompletionInv, MarkPoison(w)
    PROVE  CompletionInv'
  <1> DEFINE l == current[w].lesson
  <1>1. /\ stage[w] = "unobserved" /\ current[w] \in Claim /\ l \in Lesson
        /\ ~WorkLocked(l) /\ work[l] = "claimed"
    BY DEF MarkPoison, CompletionInv, InHandOK, InHand, Claim, Owns
  <1>2. /\ work' = [work EXCEPT ![l] = "poison"]
        /\ owner' = [owner EXCEPT ![l] = NoWorker]
        /\ expired' = [expired EXCEPT ![l] = FALSE]
        /\ available' = [available EXCEPT ![l] = FALSE]
        /\ funding' = [funding EXCEPT ![l] = error[w]]
        /\ poisonedAt' = [poisonedAt EXCEPT ![l] = NextRank]
        /\ stage' = [stage EXCEPT ![w] = "poisoned"]
        /\ UNCHANGED <<lessonVars, attempts, selected, claims, current, reviews, error>>
    BY DEF MarkPoison
  <1>3. \A v \in Worker : stage[v] = "completing" => current[v].lesson # l
    BY <1>1 DEF WorkLocked
  <1> HIDE DEF l
  <1>4. TypeOK'
    BY <1>1, <1>2, NextRankType DEF CompletionInv, TypeOK, Stages, lessonVars
  <1>5. LessonOK'
    <2>1. SettledExactlyOnce' /\ NeverBeforeTheEnd' /\ PendingCanBeSettled'
      BY <1>2 DEF CompletionInv, LessonOK, SettledExactlyOnce, NeverBeforeTheEnd,
                  PendingCanBeSettled, lessonVars
    <2>2. NothingForgotten' /\ WorkAfterEnd'
      BY <1>1, <1>2 DEF CompletionInv, TypeOK, LessonOK, NothingForgotten,
                        WorkAfterEnd, lessonVars
    <2> QED
      BY <2>1, <2>2 DEF LessonOK
  <1>6. \A v \in Worker : stage'[v] \in InHand => current'[v] \in Claim
    <2>1. \A v \in Worker \ {w} : stage'[v] = stage[v] /\ current'[v] = current[v]
      BY <1>2 DEF CompletionInv, TypeOK
    <2> QED
      BY <1>1, <1>2, <2>1 DEF CompletionInv, InHandOK
  <1>7. \A v \in Worker : stage'[v] = "completing" =>
           v # w /\ stage[v] = "completing" /\ current'[v] = current[v]
    BY <1>2 DEF CompletionInv, TypeOK
  <1>8. \A k \in Lesson \ {l} : work'[k] = work[k] /\ owner'[k] = owner[k]
    BY <1>2 DEF CompletionInv, TypeOK
  <1>9. ended' = ended
    BY <1>2 DEF lessonVars
  <1> QED
    BY <1>1, <1>2, <1>3, <1>4, <1>5, <1>6, <1>7, <1>8, <1>9, RowStepInv

LEMMA MarkRetryInv ==
    ASSUME NEW w \in Worker, CompletionInv, MarkRetry(w)
    PROVE  CompletionInv'
  <1> DEFINE l == current[w].lesson
  <1>1. /\ stage[w] = "unobserved" /\ current[w] \in Claim /\ l \in Lesson
        /\ ~WorkLocked(l) /\ work[l] = "claimed"
    BY DEF MarkRetry, CompletionInv, InHandOK, InHand, Claim, Owns
  <1>2. /\ work' = [work EXCEPT ![l] = "retry"]
        /\ owner' = [owner EXCEPT ![l] = NoWorker]
        /\ expired' = [expired EXCEPT ![l] = FALSE]
        /\ available' = [available EXCEPT ![l] = FALSE]
        /\ funding' = [funding EXCEPT ![l] = error[w]]
        /\ stage' = [stage EXCEPT ![w] = "looping"]
        /\ current' = [current EXCEPT ![w] = NoClaim]
        /\ error' = [error EXCEPT ![w] = FALSE]
        /\ UNCHANGED <<lessonVars, attempts, poisonedAt, selected, claims, reviews>>
    BY DEF MarkRetry, Finish
  <1>3. attempts[l] < MaxAttempts
    BY <1>1, MaxAttemptsAssumption
    DEF MarkRetry, LastAttempt, CompletionInv, TypeOK
  <1>4. \A v \in Worker : stage[v] = "completing" => current[v].lesson # l
    BY <1>1 DEF WorkLocked
  <1> HIDE DEF l
  <1>5. TypeOK'
    BY <1>1, <1>2 DEF CompletionInv, TypeOK, Stages, lessonVars
  <1>6. LessonOK'
    <2>1. SettledExactlyOnce' /\ NeverBeforeTheEnd' /\ PendingCanBeSettled'
      BY <1>2 DEF CompletionInv, LessonOK, SettledExactlyOnce, NeverBeforeTheEnd,
                  PendingCanBeSettled, lessonVars
    <2>2. NothingForgotten' /\ WorkAfterEnd'
      BY <1>1, <1>2, <1>3 DEF CompletionInv, TypeOK, LessonOK, NothingForgotten,
                              WorkAfterEnd, lessonVars
    <2> QED
      BY <2>1, <2>2 DEF LessonOK
  <1>7. \A v \in Worker : stage'[v] \in InHand =>
           v # w /\ stage'[v] = stage[v] /\ current'[v] = current[v]
    BY <1>2 DEF CompletionInv, TypeOK, InHand
  <1>8. \A v \in Worker : stage'[v] \in InHand => current'[v] \in Claim
    BY <1>7 DEF CompletionInv, InHandOK
  <1>9. \A v \in Worker : stage'[v] = "completing" =>
           v # w /\ stage[v] = "completing" /\ current'[v] = current[v]
    BY <1>7 DEF InHand
  <1>10. \A k \in Lesson \ {l} : work'[k] = work[k] /\ owner'[k] = owner[k]
    BY <1>2 DEF CompletionInv, TypeOK
  <1>11. ended' = ended
    BY <1>2 DEF lessonVars
  <1> QED
    BY <1>1, <1>2, <1>4, <1>5, <1>6, <1>8, <1>9, <1>10, <1>11, RowStepInv

-----------------------------------------------------------------------------
(* Staff and the clock: no row of lesson_completion_work changes hands.    *)

\* Steps that leave workers, work states, owners and attempts alone.
LEMMA OutsideStepInv ==
    ASSUME CompletionInv, TypeOK', LessonOK',
           UNCHANGED <<workerVars, work, attempts, owner>>,
           \A l \in Lesson : ended[l] => ended'[l]
    PROVE  CompletionInv'
  <1>1. SelectionOK'
    BY SelectionKept DEF CompletionInv, workerVars
  <1>2. InHandOK'
    BY InHandKept DEF CompletionInv, InHandOK, workerVars
  <1> QED
    BY <1>1, <1>2 DEF CompletionInv

LEMMA StaffInv ==
    ASSUME NEW l \in Lesson, CompletionInv,
           StaffEdit(l) \/ StaffCancel(l) \/ StaffSettle(l) \/ DeleteLesson(l)
    PROVE  CompletionInv'
  <1>1. /\ UNCHANGED <<workVars, workerVars, ended>>
        /\ version' = [version EXCEPT ![l] = @ + 1]
    BY DEF StaffEdit, StaffCancel, StaffSettle, DeleteLesson, RowFree
  <1>2. CASE StaffEdit(l) \/ DeleteLesson(l)
    <2>1. UNCHANGED <<lifecycle, plan, settled>>
      BY <1>2 DEF StaffEdit, DeleteLesson
    <2>2. deleted' \in [Lesson -> BOOLEAN]
      BY <1>2 DEF StaffEdit, DeleteLesson, CompletionInv, TypeOK
    <2>3. TypeOK'
      <3>1. version' \in [Lesson -> Nat]
        BY <1>1 DEF CompletionInv, TypeOK
      <3> QED
        BY <1>1, <2>1, <2>2, <3>1, SMTT(30) DEF CompletionInv, TypeOK, workVars, workerVars
    <2>4. LessonOK'
      BY <1>1, <2>1 DEF CompletionInv, LessonOK, SettledExactlyOnce, NeverBeforeTheEnd,
                        PendingCanBeSettled, NothingForgotten, WorkAfterEnd, workVars
    <2> QED
      BY <1>1, <2>3, <2>4, OutsideStepInv DEF workVars
  <1>3. CASE StaffCancel(l)
    <2>1. /\ lifecycle[l] \in {"scheduled", "settlement_pending"}
          /\ lifecycle' = [lifecycle EXCEPT ![l] = "cancelled"]
          /\ settled' = [settled EXCEPT ![l] = @ + 1]
          /\ UNCHANGED <<deleted, plan>>
      BY <1>3 DEF StaffCancel
    <2>2. TypeOK'
      BY <1>1, <2>1 DEF CompletionInv, TypeOK, Lifecycles, workVars, workerVars
    <2>3. SettledExactlyOnce'
      BY <2>1 DEF CompletionInv, TypeOK, LessonOK, SettledExactlyOnce, Terminal
    <2>4. NeverBeforeTheEnd' /\ PendingCanBeSettled'
      BY <1>1, <2>1
      DEF CompletionInv, TypeOK, LessonOK, NeverBeforeTheEnd, PendingCanBeSettled
    <2>5. NothingForgotten' /\ WorkAfterEnd'
      BY <1>1, <2>1
      DEF CompletionInv, TypeOK, LessonOK, NothingForgotten, WorkAfterEnd, workVars
    <2>6. LessonOK'
      BY <2>3, <2>4, <2>5 DEF LessonOK
    <2> QED
      BY <1>1, <2>2, <2>6, OutsideStepInv DEF workVars
  <1>4. CASE StaffSettle(l)
    <2>1. /\ lifecycle[l] = "settlement_pending"
          /\ lifecycle' = [lifecycle EXCEPT ![l] = "successfully_completed"]
          /\ settled' = [settled EXCEPT ![l] = @ + 1]
          /\ plan' = [plan EXCEPT ![l] = "settled"]
          /\ UNCHANGED deleted
      BY <1>4 DEF StaffSettle
    <2>2. TypeOK'
      BY <1>1, <2>1 DEF CompletionInv, TypeOK, Lifecycles, workVars, workerVars
    <2>3. SettledExactlyOnce'
      BY <2>1 DEF CompletionInv, TypeOK, LessonOK, SettledExactlyOnce, Terminal
    <2>4. NeverBeforeTheEnd' /\ PendingCanBeSettled'
      BY <1>1, <2>1
      DEF CompletionInv, TypeOK, LessonOK, NeverBeforeTheEnd, PendingCanBeSettled
    <2>5. NothingForgotten' /\ WorkAfterEnd'
      BY <1>1, <2>1
      DEF CompletionInv, TypeOK, LessonOK, NothingForgotten, WorkAfterEnd, workVars
    <2>6. LessonOK'
      BY <2>3, <2>4, <2>5 DEF LessonOK
    <2> QED
      BY <1>1, <2>2, <2>6, OutsideStepInv DEF workVars
  <1> QED
    BY <1>2, <1>3, <1>4

LEMMA ClockInv ==
    ASSUME NEW l \in Lesson, CompletionInv,
           LessonEnds(l) \/ LeaseExpires(l) \/ BackoffEnds(l)
    PROVE  CompletionInv'
  <1>1. CASE LessonEnds(l)
    <2>1. /\ ended' = [ended EXCEPT ![l] = TRUE]
          /\ UNCHANGED <<lifecycle, version, deleted, plan, settled, workVars, workerVars>>
      BY <1>1 DEF LessonEnds
    <2>2. TypeOK'
      BY <2>1 DEF CompletionInv, TypeOK, workVars, workerVars
    <2>3. \A k \in Lesson : ended[k] => ended'[k]
      BY <2>1 DEF CompletionInv, TypeOK
    <2>4. LessonOK'
      BY <2>1, <2>3 DEF CompletionInv, LessonOK, SettledExactlyOnce, NeverBeforeTheEnd,
                        PendingCanBeSettled, NothingForgotten, WorkAfterEnd, workVars
    <2> QED
      BY <2>1, <2>2, <2>3, <2>4, OutsideStepInv DEF workVars
  <1>2. CASE LeaseExpires(l) \/ BackoffEnds(l)
    <2>1. UNCHANGED <<lessonVars, work, attempts, owner, funding, poisonedAt, workerVars>>
      BY <1>2 DEF LeaseExpires, BackoffEnds
    <2>2. expired' \in [Lesson -> BOOLEAN] /\ available' \in [Lesson -> BOOLEAN]
      BY <1>2 DEF LeaseExpires, BackoffEnds, CompletionInv, TypeOK
    <2>3. TypeOK'
      BY <2>1, <2>2 DEF CompletionInv, TypeOK, lessonVars, workerVars
    <2>4. LessonOK'
      BY <2>1 DEF CompletionInv, LessonOK, SettledExactlyOnce, NeverBeforeTheEnd,
                  PendingCanBeSettled, NothingForgotten, WorkAfterEnd, lessonVars
    <2> QED
      BY <2>1, <2>3, <2>4, OutsideStepInv DEF lessonVars
  <1> QED
    BY <1>1, <1>2

-----------------------------------------------------------------------------
LEMMA WorkerStepInv ==
    ASSUME NEW w \in Worker, CompletionInv, WorkerStep(w)
    PROVE  CompletionInv'
  <1>1. CASE SelectDue(w)
    BY <1>1, SelectDueInv
  <1>2. CASE UpsertClaims(w)
    BY <1>2, UpsertClaimsInv
  <1>3. CASE ClaimDeadlock(w) \/ RunEnds(w) \/ MarkThrows(w)
    <2>1. UNCHANGED <<lessonVars, workVars>>
      BY <1>3 DEF ClaimDeadlock, RunEnds, MarkThrows
    <2>2. /\ stage' = [stage EXCEPT ![w] = "idle"]
          /\ selected' = [selected EXCEPT ![w] = {}]
          /\ claims' = [claims EXCEPT ![w] = {}]
          /\ current' = [current EXCEPT ![w] = NoClaim]
          /\ reviews' = [reviews EXCEPT ![w] = {}]
          /\ error' = [error EXCEPT ![w] = FALSE]
      BY <1>3 DEF ClaimDeadlock, RunEnds, MarkThrows, Abandon
    <2> QED
      BY <2>1, <2>2, AbandonInv
  <1>4. CASE ReadPoison(w) \/ RecoveryEnds(w) \/ TakeClaim(w)
             \/ LockWorkFails(w) \/ CompletionFails(w)
    BY <1>4, ReadingStepInv
  <1>5. CASE RecoverPoison(w)
    BY <1>5, RecoverPoisonInv
  <1>6. CASE LockWork(w)
    BY <1>6, LockWorkInv
  <1>7. CASE CommitCompletion(w)
    BY <1>7, CommitCompletionInv
  <1>8. CASE MarkTerminalObserved(w)
    BY <1>8, MarkTerminalObservedInv
  <1>9. CASE MarkPoison(w)
    BY <1>9, MarkPoisonInv
  <1>10. CASE MarkRetry(w)
    BY <1>10, MarkRetryInv
  <1>11. CASE MarkNotOwned(w)
    BY <1>11, FinishQuietly DEF MarkNotOwned
  <1>12. CASE ReviewOwn(w)
    BY <1>12, ReviewOwnInv
  <1> QED
    BY <1>1, <1>2, <1>3, <1>4, <1>5, <1>6, <1>7, <1>8, <1>9, <1>10, <1>11, <1>12
    DEF WorkerStep

LEMMA NextCompletionInv == CompletionInv /\ [Next]_vars => CompletionInv'
  <1> SUFFICES ASSUME CompletionInv, [Next]_vars PROVE CompletionInv'
    OBVIOUS
  <1>1. CASE \E w \in Worker : WorkerStep(w)
    BY <1>1, WorkerStepInv
  <1>2. CASE \E w \in Worker : Crash(w)
    BY <1>2, AbandonInv DEF Crash
  <1>3. CASE \E l \in Lesson : StaffEdit(l) \/ StaffCancel(l) \/ StaffSettle(l) \/ DeleteLesson(l)
    BY <1>3, StaffInv
  <1>4. CASE \E l \in Lesson : LessonEnds(l) \/ LeaseExpires(l) \/ BackoffEnds(l)
    BY <1>4, ClockInv
  <1>5. CASE UNCHANGED vars
    <2>1. UNCHANGED <<lessonVars, workVars, workerVars>>
      BY <1>5 DEF vars
    <2>2. TypeOK'
      BY <2>1 DEF CompletionInv, TypeOK, lessonVars, workVars, workerVars
    <2>3. LessonOK'
      BY <2>1 DEF CompletionInv, LessonOK, SettledExactlyOnce, NeverBeforeTheEnd,
                  PendingCanBeSettled, NothingForgotten, WorkAfterEnd, lessonVars, workVars
    <2> QED
      BY <2>1, <2>2, <2>3, OutsideStepInv DEF lessonVars, workVars
  <1> QED
    BY <1>1, <1>2, <1>3, <1>4, <1>5 DEF Next

LEMMA CompletionInvariant == Spec => []CompletionInv
  BY InitCompletionInv, NextCompletionInv, PTL DEF Spec

\* Every variable of the completion tables and of the workers keeps its type;
\* in particular no row is ever claimed more often than allowed.
THEOREM CompletionTypeCorrect == Spec => []TypeOK
  <1>1. CompletionInv => TypeOK
    BY DEF CompletionInv
  <1> QED
    BY <1>1, CompletionInvariant, PTL

\* Workers, overtaken workers and staff together write the financial effect of
\* a lesson exactly once, when it becomes terminal.
THEOREM SettledOnce == Spec => []SettledExactlyOnce
  <1>1. CompletionInv => SettledExactlyOnce
    BY DEF CompletionInv, LessonOK
  <1> QED
    BY <1>1, CompletionInvariant, PTL

\* No lesson is completed or handed to staff before it is over.
THEOREM NothingEarly == Spec => []NeverBeforeTheEnd
  <1>1. CompletionInv => NeverBeforeTheEnd
    BY DEF CompletionInv, LessonOK
  <1> QED
    BY <1>1, CompletionInvariant, PTL

\* The plan of a pending lesson is always one that staff can settle.
THEOREM PendingSettleable == Spec => []PendingCanBeSettled
  <1>1. CompletionInv => PendingCanBeSettled
    BY DEF CompletionInv, LessonOK
  <1> QED
    BY <1>1, CompletionInvariant, PTL

\* The work row of a scheduled lesson is never closed, and a row waiting for
\* its retry can still be claimed.
THEOREM NoLessonForgotten == Spec => []NothingForgotten
  <1>1. CompletionInv => NothingForgotten
    BY DEF CompletionInv, LessonOK
  <1> QED
    BY <1>1, CompletionInvariant, PTL

\* A claim ends by the hand of the worker that holds its latest attempt, or
\* because its lease has run out: a worker that was overtaken changes nothing.
THEOREM OvertakenWorkersAreFenced == Spec => FencedOutcome
  <1> DEFINE Changed(l) ==
                work[l] = "claimed" /\ <<work[l], attempts[l]>>' # <<work[l], attempts[l]>>
             Fenced(l) ==
                \/ expired[l] /\ work'[l] \in {"claimed", "poison"}
                \/ \E w \in Worker :
                      /\ stage[w] # stage'[w]
                      /\ owner[l] = w
                      /\ current[w] # NoClaim
                      /\ current[w].lesson = l
                      /\ current[w].attempt = attempts[l]
  <1>1. ASSUME CompletionInv, [Next]_vars, NEW l \in Lesson, Changed(l)
        PROVE  Fenced(l)
    <2>1. CASE \E w \in Worker : UpsertClaims(w)
      <3>1. PICK w \in Worker : UpsertClaims(w)
        BY <2>1
      <3>2. work[l] = "claimed" /\ (work'[l] # work[l] \/ attempts'[l] # attempts[l])
        BY <1>1
      <3> QED
        BY <3>1, <3>2 DEF UpsertClaims, Reclaimable, Exhausted
    <2>2. ASSUME NEW w \in Worker, stage[w] \in InHand, stage'[w] # stage[w],
                 Owns(w, current[w]), current[w].lesson = l
          PROVE  Fenced(l)
      <3>1. current[w] \in Claim
        BY <2>2, <1>1 DEF CompletionInv, InHandOK
      <3>2. current[w] # NoClaim
        BY <3>1, NoClaimAssumption
      <3> QED
        BY <2>2, <3>2 DEF Owns
    <2>3. ASSUME NEW w \in Worker,
                 CommitCompletion(w) \/ MarkTerminalObserved(w) \/ MarkPoison(w) \/ MarkRetry(w)
          PROVE  Fenced(l)
      <3>1. stage[w] \in InHand /\ stage'[w] # stage[w]
        BY <2>3, <1>1 DEF CommitCompletion, MarkTerminalObserved, MarkPoison, MarkRetry,
                          Finish, InHand, CompletionInv, TypeOK
      <3>2. Owns(w, current[w]) \/ UNCHANGED workVars
        BY <2>3, <1>1 DEF CommitCompletion, MarkTerminalObserved, MarkPoison, MarkRetry,
                          CompletionInv, InHandOK
      <3>3. current[w].lesson = l \/ (work'[l] = work[l] /\ attempts'[l] = attempts[l])
        BY <2>3, <1>1 DEF CommitCompletion, MarkTerminalObserved, MarkPoison, MarkRetry,
                          CloseWork, CompletionInv, TypeOK, workVars
      <3>4. ~UNCHANGED workVars
        BY <1>1 DEF workVars
      <3> QED
        BY <1>1, <2>2, <3>1, <3>2, <3>3, <3>4
    <2>4. ASSUME NEW w \in Worker, NEW c \in Claim, MarkReviewRequired(c)
          PROVE  FALSE
      BY <1>1, <2>4, ReviewKeepsLessons
    <2>5. ASSUME NEW w \in Worker, RecoverPoison(w) \/ ReviewOwn(w)
          PROVE  FALSE
      <3>1. (\E c \in Claim : MarkReviewRequired(c)) \/ UNCHANGED workVars
        BY <2>5, <1>1 DEF RecoverPoison, ReviewOwn, ReviewRefused, CompletionInv, TypeOK,
                          InHandOK, InHand
      <3> QED
        BY <1>1, <2>4, <2>5, <3>1 DEF workVars
    <2>6. ASSUME UNCHANGED <<work, attempts>>
          PROVE  FALSE
      BY <1>1, <2>6
    <2>7. ASSUME NEW w \in Worker, WorkerStep(w) \/ Crash(w)
          PROVE  \/ UpsertClaims(w) \/ RecoverPoison(w) \/ ReviewOwn(w)
                 \/ CommitCompletion(w) \/ MarkTerminalObserved(w)
                 \/ MarkPoison(w) \/ MarkRetry(w)
                 \/ UNCHANGED <<work, attempts>>
      BY <2>7 DEF WorkerStep, Crash, SelectDue, ClaimDeadlock, ReadPoison,
                  OldestPoison, RecoveryEnds,
                  TakeClaim, RunEnds, LockWork, LockWorkFails, CompletionFails,
                  MarkNotOwned, MarkThrows, workVars
    <2>8. ASSUME NEW k \in Lesson,
                 \/ StaffEdit(k) \/ StaffCancel(k) \/ StaffSettle(k) \/ DeleteLesson(k)
                 \/ LessonEnds(k) \/ LeaseExpires(k) \/ BackoffEnds(k)
          PROVE  UNCHANGED <<work, attempts>>
      BY <2>8 DEF StaffEdit, StaffCancel, StaffSettle, DeleteLesson, LessonEnds,
                  LeaseExpires, BackoffEnds, workVars
    <2>9. CASE UNCHANGED vars
      BY <2>6, <2>9 DEF vars, workVars
    <2> QED
      BY <1>1, <2>1, <2>3, <2>5, <2>6, <2>7, <2>8, <2>9 DEF Next
  <1>2. CompletionInv /\ [Next]_vars => [\A l \in Lesson : Changed(l) => Fenced(l)]_vars
    BY <1>1
  <1> QED
    BY <1>2, CompletionInvariant, PTL DEF Spec, FencedOutcome

=============================================================================
