--------------------------- MODULE LessonCompletion ---------------------------
(***************************************************************************)
(* Automatic completion of lessons: LessonCompletionWorker processes claim *)
(* lessons that have ended, settle each in one transaction, retry, poison  *)
(* and hand poisoned lessons to staff, while staff edit, cancel, settle    *)
(* and delete the same lessons.                                            *)
(*                                                                         *)
(* Completion and review run inside executeVersionedMutation (module       *)
(* VersionedMutation); here only its outcome matters: the transaction      *)
(* commits against the version it expected, or fails and is rolled back.   *)
(* A trigger keeps the version of a lesson and of its aggregate equal and  *)
(* raises both on every update.                                            *)
(***************************************************************************)
EXTENDS Naturals, FiniteSets

CONSTANTS
    Lesson,
    Worker,       \* process incarnations
    NoWorker,     \* claimed_by is null
    NoClaim,
    MaxAttempts,  \* 5 in the code
    ClaimLimit,   \* 25 in the code
    ReviewLimit,  \* 25 in the code
    MaxVersion    \* bound on the version at which staff still edit, cancel or delete

ASSUME LessonAssumption == IsFiniteSet(Lesson)

ASSUME MaxAttemptsAssumption == MaxAttempts \in Nat \ {0}

ASSUME LimitAssumption == ClaimLimit \in Nat \ {0} /\ ReviewLimit \in Nat \ {0}

ASSUME MaxVersionAssumption == MaxVersion \in Nat \ {0}

ASSUME NoWorkerAssumption == NoWorker \notin Worker

Claim == [lesson : Lesson, version : Nat, attempt : 1..MaxAttempts]

ASSUME NoClaimAssumption == NoClaim \notin Claim

VARIABLES
    lifecycle,  \* app.lessons.lifecycle_state
    version,    \* app.lessons.version
    deleted,    \* deleted_at is not null
    ended,      \* scheduled_at + duration_minutes <= now()
    plan,       \* app.lesson_settlement_plans.state
    settled,    \* number of settlements written for a lesson
    work,       \* app.lesson_completion_work.state, "none" for no row
    attempts,   \* its attempts
    owner,      \* its claimed_by
    expired,    \* its lease has run out
    available,  \* available_at <= now()
    funding,    \* last_error asks for a funding review
    poisonedAt, \* order in which rows were poisoned (updated_at), 0 for never
    stage,      \* where each worker's runOnce is
    selected,   \* lessons locked by its claimDue transaction
    claims,     \* claims it has not begun
    current,    \* the claim it is completing
    reviews,    \* poisoned lessons it has read and will recover
    error       \* it failed for lack of funding

lessonVars == <<lifecycle, version, deleted, ended, plan, settled>>
workVars == <<work, attempts, owner, expired, available, funding, poisonedAt>>
workerVars == <<stage, selected, claims, current, reviews, error>>
vars == <<lessonVars, workVars, workerVars>>

\* "cancelled" stands for both ways in which staff end a lesson, cancelled
\* and rescheduled to a successor.
Lifecycles == {"scheduled", "settlement_pending", "successfully_completed", "cancelled"}

Terminal == {"successfully_completed", "cancelled"}

Stages == {"idle", "selected", "claimed", "recovering", "looping", "opening",
           "completing", "failing", "unobserved", "poisoned", "down"}

-----------------------------------------------------------------------------
Init ==
    /\ lifecycle = [l \in Lesson |-> "scheduled"]
    /\ version = [l \in Lesson |-> 1]
    /\ deleted = [l \in Lesson |-> FALSE]
    /\ ended = [l \in Lesson |-> FALSE]
    /\ plan = [l \in Lesson |-> "planned"]
    /\ settled = [l \in Lesson |-> 0]
    /\ work = [l \in Lesson |-> "none"]
    /\ attempts = [l \in Lesson |-> 0]
    /\ owner = [l \in Lesson |-> NoWorker]
    /\ expired = [l \in Lesson |-> FALSE]
    /\ available = [l \in Lesson |-> TRUE]
    /\ funding = [l \in Lesson |-> FALSE]
    /\ poisonedAt = [l \in Lesson |-> 0]
    /\ stage = [w \in Worker |-> "idle"]
    /\ selected = [w \in Worker |-> {}]
    /\ claims = [w \in Worker |-> {}]
    /\ current = [w \in Worker |-> NoClaim]
    /\ reviews = [w \in Worker |-> {}]
    /\ error = [w \in Worker |-> FALSE]

\* A completing transaction holds the aggregate version and the work row.
WorkLocked(l) == \E w \in Worker : stage[w] = "completing" /\ current[w].lesson = l

\* claimDue holds the lessons it has selected.
LessonLocked(l) == \E w \in Worker : l \in selected[w]

-----------------------------------------------------------------------------
(* claimDue: one transaction.                                              *)

Reclaimable(l) ==
    \/ work[l] = "retry" /\ available[l]
    \/ work[l] = "claimed" /\ expired[l]

\* Mutant: the attempts are not compared with their bound.
DueForEver(l) ==
    /\ ~deleted[l] /\ lifecycle[l] = "scheduled" /\ plan[l] = "planned"
    /\ ended[l]
    /\ work[l] = "none" \/ Reclaimable(l)

Due(l) ==
    /\ ~deleted[l] /\ lifecycle[l] = "scheduled" /\ plan[l] = "planned"
    /\ ended[l]
    /\ attempts[l] < MaxAttempts
    /\ work[l] = "none" \/ Reclaimable(l)

\* The candidates, for update of lesson skip locked.
SelectDue(w) ==
    /\ stage[w] = "idle"
    /\ \E S \in SUBSET {l \in Lesson : Due(l) /\ ~LessonLocked(l)} :
          /\ \/ Cardinality(S) = ClaimLimit
             \/ /\ Cardinality(S) < ClaimLimit
                /\ \A l \in Lesson \ S : Due(l) => LessonLocked(l)
          /\ selected' = [selected EXCEPT ![w] = S]
    /\ stage' = [stage EXCEPT ![w] = "selected"]
    /\ UNCHANGED <<lessonVars, workVars, claims, current, reviews, error>>

\* Mutant: a final lease that ran out is left alone.
ExhaustedNever(l) == FALSE

Exhausted(l) == work[l] = "claimed" /\ expired[l] /\ attempts[l] >= MaxAttempts

NextRank == Cardinality({l \in Lesson : poisonedAt[l] # 0}) + 1

\* The upsert takes the selected lessons whose work row still allows it, and
\* the same transaction poisons the final leases that ran out.  It waits for
\* the work rows that completing transactions hold.
UpsertClaims(w) ==
    LET won == {l \in selected[w] : work[l] = "none" \/ Reclaimable(l)}
        lost == {l \in Lesson : Exhausted(l)}
    IN
    /\ stage[w] = "selected"
    /\ \A l \in selected[w] \union lost : ~WorkLocked(l)
    /\ work' = [l \in Lesson |-> IF l \in won THEN "claimed"
                                 ELSE IF l \in lost THEN "poison" ELSE work[l]]
    /\ attempts' = [l \in Lesson |-> IF l \in won THEN attempts[l] + 1 ELSE attempts[l]]
    /\ owner' = [l \in Lesson |-> IF l \in won THEN w
                                  ELSE IF l \in lost THEN NoWorker ELSE owner[l]]
    /\ expired' = [l \in Lesson |-> l \notin won \union lost /\ expired[l]]
    /\ available' = [l \in Lesson |-> l \in won \/ available[l]]
    /\ poisonedAt' = [l \in Lesson |-> IF l \in lost THEN NextRank ELSE poisonedAt[l]]
    /\ claims' = [claims EXCEPT ![w] =
           {[lesson |-> l, version |-> version[l], attempt |-> attempts[l] + 1] : l \in won}]
    /\ selected' = [selected EXCEPT ![w] = {}]
    /\ stage' = [stage EXCEPT ![w] = "claimed"]
    /\ UNCHANGED <<lessonVars, funding, current, reviews, error>>

Abandon(w) ==
    /\ stage' = [stage EXCEPT ![w] = "idle"]
    /\ selected' = [selected EXCEPT ![w] = {}]
    /\ claims' = [claims EXCEPT ![w] = {}]
    /\ current' = [current EXCEPT ![w] = NoClaim]
    /\ reviews' = [reviews EXCEPT ![w] = {}]
    /\ error' = [error EXCEPT ![w] = FALSE]

\* claimDue locks lessons and then work rows, completion work rows and then
\* the lesson: PostgreSQL aborts one of two transactions that wait for each
\* other.  This one is claimDue, CompletionFails is the other one.
ClaimDeadlock(w) ==
    /\ stage[w] = "selected"
    /\ \E l \in selected[w] : WorkLocked(l)
    /\ Abandon(w)
    /\ UNCHANGED <<lessonVars, workVars>>

-----------------------------------------------------------------------------
(* Recovery of poisoned lessons, first of earlier ticks, then of this one. *)

OldestPoison(w, found) ==
    /\ stage[w] = "claimed"
    /\ \E S \in SUBSET found :
          /\ \/ S = found /\ Cardinality(S) <= ReviewLimit
             \/ Cardinality(S) = ReviewLimit
          /\ \A l \in S, k \in found \ S : poisonedAt[l] <= poisonedAt[k]
          /\ reviews' = [reviews EXCEPT ![w] =
                {[lesson |-> l, version |-> version[l], attempt |-> attempts[l]] : l \in S}]
    /\ stage' = [stage EXCEPT ![w] = "recovering"]
    /\ UNCHANGED <<lessonVars, workVars, selected, claims, current, error>>

\* Mutant: rows of lessons that staff already have are read again.
ReadPoisonOfAny(w) == OldestPoison(w, {l \in Lesson : work[l] = "poison"})

\* poisonReviewRequired: the oldest poison rows of lessons still scheduled,
\* read without a lock.
ReadPoison(w) ==
    OldestPoison(w, {l \in Lesson : work[l] = "poison" /\ lifecycle[l] = "scheduled"})

\* Mutant: the version read before the transaction is not compared again.
ReviewAllowedForAnyVersion(c) ==
    /\ work[c.lesson] = "poison" /\ attempts[c.lesson] = c.attempt
    /\ ~deleted[c.lesson]

\* lockPoisonAndLesson and the checks after it.
ReviewAllowed(c) ==
    /\ work[c.lesson] = "poison" /\ attempts[c.lesson] = c.attempt
    /\ ~deleted[c.lesson]
    /\ lifecycle[c.lesson] = "scheduled" /\ version[c.lesson] = c.version

\* Mutant: the settlement plan keeps its state.
MarkPlanForgotten(l) == UNCHANGED plan

MarkPlan(l) ==
    plan' = [plan EXCEPT ![l] = IF @ = "planned" THEN "review_required" ELSE @]

\* markReviewRequired commits: the lesson waits for staff, and a row that only
\* lacks funding is done.
MarkReviewRequired(c) ==
    LET l == c.lesson IN
    /\ ReviewAllowed(c)
    /\ ~LessonLocked(l)
    /\ lifecycle' = [lifecycle EXCEPT ![l] = "settlement_pending"]
    /\ version' = [version EXCEPT ![l] = @ + 1]
    /\ MarkPlan(l)
    /\ work' = [work EXCEPT ![l] = IF funding[l] THEN "completed" ELSE @]
    /\ UNCHANGED <<deleted, ended, settled, attempts, owner, expired, available,
                   funding, poisonedAt>>

\* The error is logged and swallowed; the row stays poison.
ReviewRefused(c) == ~ReviewAllowed(c) /\ UNCHANGED <<lessonVars, workVars>>

RecoverPoison(w) ==
    /\ stage[w] = "recovering"
    /\ \E c \in reviews[w] :
          /\ MarkReviewRequired(c) \/ ReviewRefused(c)
          /\ reviews' = [reviews EXCEPT ![w] = @ \ {c}]
    /\ UNCHANGED <<stage, selected, claims, current, error>>

RecoveryEnds(w) ==
    /\ stage[w] = "recovering"
    /\ reviews[w] = {}
    /\ stage' = [stage EXCEPT ![w] = "looping"]
    /\ UNCHANGED <<lessonVars, workVars, selected, claims, current, reviews, error>>

-----------------------------------------------------------------------------
(* Completion of the claimed lessons, one after the other.                 *)

TakeClaim(w) ==
    /\ stage[w] = "looping"
    /\ \E c \in claims[w] :
          /\ current' = [current EXCEPT ![w] = c]
          /\ claims' = [claims EXCEPT ![w] = @ \ {c}]
    /\ stage' = [stage EXCEPT ![w] = "opening"]
    /\ UNCHANGED <<lessonVars, workVars, selected, reviews, error>>

RunEnds(w) ==
    /\ stage[w] = "looping"
    /\ claims[w] = {}
    /\ Abandon(w)
    /\ UNCHANGED <<lessonVars, workVars>>

\* Mutant: the fence does not compare the attempt.
OwnsAnyAttempt(w, c) == work[c.lesson] = "claimed"

\* The fence of lockClaimAndLesson, markCompleted, markTerminalObserved and
\* markFailed.
Owns(w, c) ==
    /\ work[c.lesson] = "claimed"
    /\ owner[c.lesson] = w
    /\ attempts[c.lesson] = c.attempt

\* The transaction advances the aggregate version, then locks the work row.
LockWork(w) ==
    /\ stage[w] = "opening"
    /\ version[current[w].lesson] = current[w].version
    /\ Owns(w, current[w])
    /\ ~WorkLocked(current[w].lesson)
    /\ stage' = [stage EXCEPT ![w] = "completing"]
    /\ UNCHANGED <<lessonVars, workVars, selected, claims, current, reviews, error>>

LockWorkFails(w) ==
    /\ stage[w] = "opening"
    /\ version[current[w].lesson] # current[w].version \/ ~Owns(w, current[w])
    /\ stage' = [stage EXCEPT ![w] = "failing"]
    /\ UNCHANGED <<lessonVars, workVars, selected, claims, current, reviews, error>>

Completable(c) ==
    /\ ~deleted[c.lesson]
    /\ lifecycle[c.lesson] = "scheduled"
    /\ version[c.lesson] = c.version
    /\ plan[c.lesson] = "planned"
    /\ ended[c.lesson]

Finish(w) ==
    /\ stage' = [stage EXCEPT ![w] = "looping"]
    /\ current' = [current EXCEPT ![w] = NoClaim]
    /\ error' = [error EXCEPT ![w] = FALSE]
    /\ UNCHANGED <<selected, claims, reviews>>

CloseWork(l) ==
    /\ work' = [work EXCEPT ![l] = "completed"]
    /\ owner' = [owner EXCEPT ![l] = NoWorker]
    /\ expired' = [expired EXCEPT ![l] = FALSE]
    /\ funding' = [funding EXCEPT ![l] = FALSE]
    /\ UNCHANGED <<attempts, available, poisonedAt>>

\* The lesson is locked, settled and completed; facts, transition, plan and
\* work row are committed together.  The answer to the commit may be lost.
CommitCompletion(w) ==
    LET l == current[w].lesson IN
    /\ stage[w] = "completing"
    /\ ~LessonLocked(l)
    /\ Completable(current[w])
    /\ lifecycle' = [lifecycle EXCEPT ![l] = "successfully_completed"]
    /\ version' = [version EXCEPT ![l] = @ + 1]
    /\ plan' = [plan EXCEPT ![l] = "settled"]
    /\ settled' = [settled EXCEPT ![l] = @ + 1]
    /\ CloseWork(l)
    /\ \/ Finish(w)
       \/ /\ stage' = [stage EXCEPT ![w] = "failing"]
          /\ UNCHANGED <<selected, claims, current, reviews, error>>
    /\ UNCHANGED <<deleted, ended>>

\* Rolled back: a check failed, funding is missing, a statement was aborted.
CompletionFails(w) ==
    /\ stage[w] = "completing"
    /\ \E f \in BOOLEAN : error' = [error EXCEPT ![w] = f]
    /\ stage' = [stage EXCEPT ![w] = "failing"]
    /\ UNCHANGED <<lessonVars, workVars, selected, claims, current, reviews>>

\* markTerminalObserved: somebody else has ended the lesson.
MarkTerminalObserved(w) ==
    /\ stage[w] = "failing"
    /\ ~WorkLocked(current[w].lesson)
    /\ IF Owns(w, current[w]) /\ lifecycle[current[w].lesson] # "scheduled"
       THEN CloseWork(current[w].lesson) /\ Finish(w)
       ELSE /\ stage' = [stage EXCEPT ![w] = "unobserved"]
            /\ UNCHANGED <<workVars, selected, claims, current, reviews, error>>
    /\ UNCHANGED lessonVars

\* A funding failure is not retried at all.
LastAttempt(w) ==
    attempts[current[w].lesson] >= IF error[w] THEN 1 ELSE MaxAttempts

MarkPoison(w) ==
    LET l == current[w].lesson IN
    /\ stage[w] = "unobserved"
    /\ ~WorkLocked(l)
    /\ Owns(w, current[w])
    /\ LastAttempt(w)
    /\ work' = [work EXCEPT ![l] = "poison"]
    /\ owner' = [owner EXCEPT ![l] = NoWorker]
    /\ expired' = [expired EXCEPT ![l] = FALSE]
    /\ available' = [available EXCEPT ![l] = FALSE]
    /\ funding' = [funding EXCEPT ![l] = error[w]]
    /\ poisonedAt' = [poisonedAt EXCEPT ![l] = NextRank]
    /\ stage' = [stage EXCEPT ![w] = "poisoned"]
    /\ UNCHANGED <<lessonVars, attempts, selected, claims, current, reviews, error>>

MarkRetry(w) ==
    LET l == current[w].lesson IN
    /\ stage[w] = "unobserved"
    /\ ~WorkLocked(l)
    /\ Owns(w, current[w])
    /\ ~LastAttempt(w)
    /\ work' = [work EXCEPT ![l] = "retry"]
    /\ owner' = [owner EXCEPT ![l] = NoWorker]
    /\ expired' = [expired EXCEPT ![l] = FALSE]
    /\ available' = [available EXCEPT ![l] = FALSE]
    /\ funding' = [funding EXCEPT ![l] = error[w]]
    /\ Finish(w)
    /\ UNCHANGED <<lessonVars, attempts, poisonedAt>>

MarkNotOwned(w) ==
    /\ stage[w] = "unobserved"
    /\ ~WorkLocked(current[w].lesson)
    /\ ~Owns(w, current[w])
    /\ Finish(w)
    /\ UNCHANGED <<lessonVars, workVars>>

\* Poisoned just now: the lesson goes to staff at once, unless the version of
\* the claim is stale or the transaction fails.
ReviewOwn(w) ==
    /\ stage[w] = "poisoned"
    /\ \/ MarkReviewRequired(current[w])
       \/ UNCHANGED <<lessonVars, workVars>>
    /\ Finish(w)

\* markTerminalObserved or markFailed throws: the run ends.
MarkThrows(w) ==
    /\ stage[w] \in {"failing", "unobserved"}
    /\ Abandon(w)
    /\ UNCHANGED <<lessonVars, workVars>>

Crash(w) ==
    /\ stage[w] # "down"
    /\ \E v \in Worker \ {w} : stage[v] # "down"
    /\ stage' = [stage EXCEPT ![w] = "down"]
    /\ selected' = [selected EXCEPT ![w] = {}]
    /\ claims' = [claims EXCEPT ![w] = {}]
    /\ current' = [current EXCEPT ![w] = NoClaim]
    /\ reviews' = [reviews EXCEPT ![w] = {}]
    /\ error' = [error EXCEPT ![w] = FALSE]
    /\ UNCHANGED <<lessonVars, workVars>>

-----------------------------------------------------------------------------
(* Staff and the clock.                                                    *)

\* A command of staff on a live lesson takes the row after those who hold it.
RowFree(l) ==
    /\ ~deleted[l]
    /\ ~LessonLocked(l)
    /\ ~WorkLocked(l)
    /\ version' = [version EXCEPT ![l] = @ + 1]

\* Notes, resources or the planned settlement of an open lesson are changed.
StaffEdit(l) ==
    /\ RowFree(l)
    /\ version[l] < MaxVersion
    /\ lifecycle[l] \in {"scheduled", "settlement_pending"}
    /\ UNCHANGED <<lifecycle, deleted, ended, plan, settled, workVars, workerVars>>

\* Cancelled or rescheduled: the source is settled and ends.
StaffCancel(l) ==
    /\ RowFree(l)
    /\ version[l] < MaxVersion
    /\ lifecycle[l] \in {"scheduled", "settlement_pending"}
    /\ lifecycle' = [lifecycle EXCEPT ![l] = "cancelled"]
    /\ settled' = [settled EXCEPT ![l] = @ + 1]
    /\ UNCHANGED <<deleted, ended, plan, workVars, workerVars>>

\* Staff settle a lesson once, so that MaxVersion need not bound it.
StaffSettle(l) ==
    /\ RowFree(l)
    /\ lifecycle[l] = "settlement_pending"
    /\ plan[l] = "review_required"
    /\ lifecycle' = [lifecycle EXCEPT ![l] = "successfully_completed"]
    /\ settled' = [settled EXCEPT ![l] = @ + 1]
    /\ plan' = [plan EXCEPT ![l] = "settled"]
    /\ UNCHANGED <<deleted, ended, workVars, workerVars>>

\* DELETE /crm/lessons/:id asks neither for a state nor for a version.
DeleteLesson(l) ==
    /\ RowFree(l)
    /\ version[l] < MaxVersion
    /\ deleted' = [deleted EXCEPT ![l] = TRUE]
    /\ UNCHANGED <<lifecycle, ended, plan, settled, workVars, workerVars>>

LessonEnds(l) ==
    /\ ~ended[l]
    /\ ended' = [ended EXCEPT ![l] = TRUE]
    /\ UNCHANGED <<lifecycle, version, deleted, plan, settled, workVars, workerVars>>

LeaseExpires(l) ==
    /\ work[l] = "claimed"
    /\ ~expired[l]
    /\ expired' = [expired EXCEPT ![l] = TRUE]
    /\ UNCHANGED <<lessonVars, work, attempts, owner, available, funding, poisonedAt,
                   workerVars>>

BackoffEnds(l) ==
    /\ work[l] = "retry"
    /\ ~available[l]
    /\ available' = [available EXCEPT ![l] = TRUE]
    /\ UNCHANGED <<lessonVars, work, attempts, owner, expired, funding, poisonedAt,
                   workerVars>>

WorkerStep(w) ==
    \/ SelectDue(w) \/ UpsertClaims(w) \/ ClaimDeadlock(w)
    \/ ReadPoison(w) \/ RecoverPoison(w) \/ RecoveryEnds(w)
    \/ TakeClaim(w) \/ RunEnds(w)
    \/ LockWork(w) \/ LockWorkFails(w) \/ CommitCompletion(w) \/ CompletionFails(w)
    \/ MarkTerminalObserved(w) \/ MarkPoison(w) \/ MarkRetry(w) \/ MarkNotOwned(w)
    \/ ReviewOwn(w) \/ MarkThrows(w)

Next ==
    \/ \E w \in Worker : WorkerStep(w) \/ Crash(w)
    \/ \E l \in Lesson :
          \/ StaffEdit(l) \/ StaffCancel(l) \/ StaffSettle(l) \/ DeleteLesson(l)
          \/ LessonEnds(l) \/ LeaseExpires(l) \/ BackoffEnds(l)

Spec == Init /\ [][Next]_vars

\* The poll timer starts a run every fifteen seconds and a run goes on until
\* it ends; leases and backoffs pass with the clock.  Staff do what they like.
Fairness ==
    /\ \A w \in Worker : WF_vars(WorkerStep(w))
    /\ \A l \in Lesson : WF_vars(LeaseExpires(l)) /\ WF_vars(BackoffEnds(l))

FairSpec == Spec /\ Fairness

-----------------------------------------------------------------------------
TypeOK ==
    /\ lifecycle \in [Lesson -> Lifecycles]
    /\ version \in [Lesson -> Nat]
    /\ deleted \in [Lesson -> BOOLEAN]
    /\ ended \in [Lesson -> BOOLEAN]
    /\ plan \in [Lesson -> {"planned", "review_required", "settled"}]
    /\ settled \in [Lesson -> Nat]
    /\ work \in [Lesson -> {"none", "claimed", "retry", "completed", "poison"}]
    /\ attempts \in [Lesson -> 0..MaxAttempts]
    /\ owner \in [Lesson -> Worker \union {NoWorker}]
    /\ expired \in [Lesson -> BOOLEAN]
    /\ available \in [Lesson -> BOOLEAN]
    /\ funding \in [Lesson -> BOOLEAN]
    /\ poisonedAt \in [Lesson -> Nat]
    /\ stage \in [Worker -> Stages]
    /\ selected \in [Worker -> SUBSET Lesson]
    /\ claims \in [Worker -> SUBSET Claim]
    /\ current \in [Worker -> Claim \union {NoClaim}]
    /\ reviews \in [Worker -> SUBSET Claim]
    /\ error \in [Worker -> BOOLEAN]

\* Whoever ends a lesson, worker, overtaken worker or staff, its financial
\* effect is written exactly once, and not before it ends.
SettledExactlyOnce ==
    \A l \in Lesson : settled[l] = IF lifecycle[l] \in Terminal THEN 1 ELSE 0

\* Nothing is settled automatically, or handed over for review, before the
\* lesson is over.
NeverBeforeTheEnd ==
    \A l \in Lesson :
        lifecycle[l] \in {"settlement_pending", "successfully_completed"} => ended[l]

\* Staff can settle every lesson that waits for them: the plan is in review
\* exactly while the lesson is pending (or was cancelled out of it).
PendingCanBeSettled ==
    \A l \in Lesson :
        /\ lifecycle[l] = "settlement_pending" => plan[l] = "review_required"
        /\ lifecycle[l] = "scheduled" => plan[l] = "planned"

\* No lesson is forgotten: while it is scheduled, its work row is still to be
\* claimed again, or poison and to be recovered, never done.
NothingForgotten ==
    \A l \in Lesson : lifecycle[l] = "scheduled" =>
        /\ work[l] # "completed"
        /\ work[l] = "retry" => attempts[l] < MaxAttempts

\* A claim is ended by the worker that holds its latest attempt, or because
\* its lease has run out: an overtaken worker cannot end its successor's.
FencedOutcome ==
    [][ \A l \in Lesson :
          work[l] = "claimed" /\ <<work[l], attempts[l]>>' # <<work[l], attempts[l]>> =>
              \/ expired[l] /\ work'[l] \in {"claimed", "poison"}
              \/ \E w \in Worker :
                    /\ stage[w] # stage'[w]
                    /\ owner[l] = w
                    /\ current[w] # NoClaim
                    /\ current[w].lesson = l
                    /\ current[w].attempt = attempts[l] ]_vars

\* The recovery batch is full of deleted lessons: they stay poison, every run
\* reads them again, and none of them can be recovered.
ReviewBlocked ==
    Cardinality({l \in Lesson : /\ work[l] = "poison" /\ deleted[l]
                                /\ lifecycle[l] = "scheduled"}) >= ReviewLimit

\* Every lesson that is over leaves "scheduled": completed, handed to staff
\* after bounded retries, cancelled, or deleted.  Nothing but a full batch of
\* deleted lessons keeps it: not the poisoned lessons ahead of it, nor a crash
\* on its last lease, nor staff changing it again and again.
EndedLessonsLeave ==
    \A l \in Lesson :
        ended[l] /\ lifecycle[l] = "scheduled"
            ~> lifecycle[l] # "scheduled" \/ deleted[l] \/ ReviewBlocked

\* What docs/architecture/CURRENT-DECISIONS.md says of bounded retry: a lesson
\* whose completion keeps failing is handed to staff.  The batch of deleted
\* lessons that ReviewBlocked describes refutes it.
FailuresReachStaff ==
    \A l \in Lesson : work[l] = "poison" ~> lifecycle[l] # "scheduled" \/ deleted[l]
=============================================================================
