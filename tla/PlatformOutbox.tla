---------------------------- MODULE PlatformOutbox ----------------------------
(***************************************************************************)
(* The transactional outbox: rows of app.platform_outbox_events that       *)
(* executeVersionedMutation committed, and the PlatformOutboxWorker        *)
(* processes that claim them under a lease, dispatch them (a deduplicated  *)
(* notification, then a realtime hint) and mark them.                      *)
(*                                                                         *)
(* A worker identity is one process incarnation (hostname, pid and a       *)
(* random UUID): a process that crashes never comes back under its name.   *)
(* Clocks are abstracted: "due" says that available_at has passed,         *)
(* "expired" that the lease has run out.                                   *)
(***************************************************************************)
EXTENDS Naturals, FiniteSets

CONSTANTS
    Event,        \* outbox event ids
    Unsupported,  \* events of a type for which entityFor knows no entity
    Worker,       \* process incarnations
    NoWorker,     \* claimed_by is null
    NoClaim,      \* a worker that dispatches nothing
    MaxAttempts,  \* 10 in the code
    BatchLimit    \* 50 in the code

ASSUME MaxAttemptsAssumption == MaxAttempts \in Nat \ {0}

ASSUME BatchLimitAssumption == BatchLimit \in Nat \ {0}

ASSUME UnsupportedAssumption == Unsupported \subseteq Event

ASSUME NoWorkerAssumption == NoWorker \notin Worker

Claims == [event : Event, attempt : 1..MaxAttempts]

ASSUME NoClaimAssumption == NoClaim \notin Claims

VARIABLES
    status,      \* absent, pending, published_at set, or dead_lettered_at set
    due,         \* available_at <= now()
    attempts,    \* the attempts column
    claimedBy,   \* the claimed_by column
    expired,     \* claimed_at is older than the lease
    stage,       \* where each worker's runOnce is
    batch,       \* claims it has fetched and not yet begun
    current,     \* the claim it is dispatching
    notified,    \* how many times the notification of an event was materialized
    dispatched   \* events whose dispatch has returned at least once

rowVars == <<status, due, attempts, claimedBy, expired>>
workerVars == <<stage, batch, current>>
vars == <<rowVars, workerVars, notified, dispatched>>

Stages == {"idle", "running", "dispatching", "delivered", "failed", "down"}

\* The claims a worker still acts on.
Held(w) == batch[w] \union ({current[w]} \ {NoClaim})

-----------------------------------------------------------------------------
Init ==
    /\ status = [e \in Event |-> "absent"]
    /\ due = [e \in Event |-> FALSE]
    /\ attempts = [e \in Event |-> 0]
    /\ claimedBy = [e \in Event |-> NoWorker]
    /\ expired = [e \in Event |-> FALSE]
    /\ stage = [w \in Worker |-> "idle"]
    /\ batch = [w \in Worker |-> {}]
    /\ current = [w \in Worker |-> NoClaim]
    /\ notified = [e \in Event |-> 0]
    /\ dispatched = {}

\* Mutant: the attempt is bounded by <= instead of <.
ClaimableOneTooMany(e) ==
    /\ status[e] = "pending"
    /\ due[e]
    /\ attempts[e] <= MaxAttempts
    /\ claimedBy[e] = NoWorker \/ expired[e]

\* enqueueOutbox, when its transaction commits: available at once.
Enqueue(e) ==
    /\ status[e] = "absent"
    /\ status' = [status EXCEPT ![e] = "pending"]
    /\ due' = [due EXCEPT ![e] = TRUE]
    /\ UNCHANGED <<attempts, claimedBy, expired, workerVars, notified, dispatched>>

Claimable(e) ==
    /\ status[e] = "pending"
    /\ due[e]
    /\ attempts[e] < MaxAttempts
    /\ claimedBy[e] = NoWorker \/ expired[e]

NextAttempt(e) == attempts[e] + 1

\* A tick claims up to BatchLimit events in one statement; skip locked keeps
\* two concurrent claims apart.
ClaimOutbox(w) ==
    /\ stage[w] = "idle"
    /\ \E S \in SUBSET {e \in Event : Claimable(e)} :
          /\ S # {}
          /\ \/ Cardinality(S) = BatchLimit
             \/ Cardinality(S) < BatchLimit /\ \A e \in Event \ S : ~Claimable(e)
          /\ claimedBy' = [e \in Event |-> IF e \in S THEN w ELSE claimedBy[e]]
          /\ attempts' = [e \in Event |->
                             IF e \in S THEN NextAttempt(e) ELSE attempts[e]]
          /\ expired' = [e \in Event |-> e \notin S /\ expired[e]]
          /\ batch' = [batch EXCEPT ![w] =
                          {[event |-> e, attempt |-> NextAttempt(e)] : e \in S}]
    /\ stage' = [stage EXCEPT ![w] = "running"]
    /\ UNCHANGED <<status, due, current, notified, dispatched>>

\* The loop takes the next claimed event; "returning" promises no order.
TakeNext(w) ==
    /\ stage[w] = "running"
    /\ \E c \in batch[w] :
          /\ current' = [current EXCEPT ![w] = c]
          /\ batch' = [batch EXCEPT ![w] = @ \ {c}]
    /\ stage' = [stage EXCEPT ![w] = "dispatching"]
    /\ UNCHANGED <<rowVars, notified, dispatched>>

RunEnds(w) ==
    /\ stage[w] = "running"
    /\ batch[w] = {}
    /\ stage' = [stage EXCEPT ![w] = "idle"]
    /\ UNCHANGED <<rowVars, batch, current, notified, dispatched>>

\* Mutant: the notification gets a random id on every attempt.
MaterializeAgain(e) == notified' = [notified EXCEPT ![e] = @ + 1]

\* The event id is the notification id, inserted on conflict do nothing.
Materialize(e) ==
    notified' = [notified EXCEPT ![e] = IF @ = 0 THEN 1 ELSE @]

\* dispatch returned: notification materialized, hints emitted.
DispatchReturns(w) ==
    /\ stage[w] = "dispatching"
    /\ current[w].event \notin Unsupported
    /\ Materialize(current[w].event)
    /\ dispatched' = dispatched \union {current[w].event}
    /\ stage' = [stage EXCEPT ![w] = "delivered"]
    /\ UNCHANGED <<rowVars, batch, current>>

\* dispatch throws: realtime is not ready, a query failed, possibly after the
\* notification was materialized, or no entity is known for the event type.
DispatchThrows(w) ==
    /\ stage[w] = "dispatching"
    /\ \/ current[w].event \notin Unsupported /\ Materialize(current[w].event)
       \/ UNCHANGED notified
    /\ stage' = [stage EXCEPT ![w] = "failed"]
    /\ UNCHANGED <<rowVars, batch, current, dispatched>>

\* markOutboxPublished itself throws, and the catch block takes over.
MarkPublishedThrows(w) ==
    /\ stage[w] = "delivered"
    /\ stage' = [stage EXCEPT ![w] = "failed"]
    /\ UNCHANGED <<rowVars, batch, current, notified, dispatched>>

\* Mutant: the mark is addressed by event id only.
OwnsAnybody(w, e) == status[e] = "pending"

Owns(w, e) == claimedBy[e] = w /\ status[e] = "pending"

Advance(w) ==
    /\ stage' = [stage EXCEPT ![w] = "running"]
    /\ current' = [current EXCEPT ![w] = NoClaim]

Release(e) ==
    /\ claimedBy' = [claimedBy EXCEPT ![e] = NoWorker]
    /\ expired' = [expired EXCEPT ![e] = FALSE]

MarkPublished(w) ==
    LET e == current[w].event IN
    /\ stage[w] = "delivered"
    /\ Owns(w, e)
    /\ status' = [status EXCEPT ![e] = "published"]
    /\ Release(e)
    /\ Advance(w)
    /\ UNCHANGED <<due, attempts, batch, notified, dispatched>>

\* Mutant: a failed event is never given up.
MarkFailedForever(w) ==
    LET e == current[w].event IN
    /\ stage[w] = "failed"
    /\ Owns(w, e)
    /\ due' = [due EXCEPT ![e] = FALSE]
    /\ Release(e)
    /\ Advance(w)
    /\ UNCHANGED <<status, attempts, batch, notified, dispatched>>

\* markOutboxFailed: back off, or give the event up after its last attempt.
MarkFailed(w) ==
    LET e == current[w].event IN
    /\ stage[w] = "failed"
    /\ Owns(w, e)
    /\ status' = [status EXCEPT ![e] =
                     IF attempts[e] >= MaxAttempts THEN "dead" ELSE @]
    /\ due' = [due EXCEPT ![e] = FALSE]
    /\ Release(e)
    /\ Advance(w)
    /\ UNCHANGED <<attempts, batch, notified, dispatched>>

\* The claim was lost to another worker: the update matches no row.
MarkNotOwned(w) ==
    /\ stage[w] \in {"delivered", "failed"}
    /\ ~Owns(w, current[w].event)
    /\ Advance(w)
    /\ UNCHANGED <<rowVars, batch, notified, dispatched>>

\* markOutboxFailed throws: runOnce ends and abandons the rest of its batch.
MarkFailedThrows(w) ==
    /\ stage[w] = "failed"
    /\ stage' = [stage EXCEPT ![w] = "idle"]
    /\ batch' = [batch EXCEPT ![w] = {}]
    /\ current' = [current EXCEPT ![w] = NoClaim]
    /\ UNCHANGED <<rowVars, notified, dispatched>>

\* A process dies for good while others remain; its claims stay in the rows.
Crash(w) ==
    /\ stage[w] # "down"
    /\ \E v \in Worker \ {w} : stage[v] # "down"
    /\ stage' = [stage EXCEPT ![w] = "down"]
    /\ batch' = [batch EXCEPT ![w] = {}]
    /\ current' = [current EXCEPT ![w] = NoClaim]
    /\ UNCHANGED <<rowVars, notified, dispatched>>

LeaseExpires(e) ==
    /\ claimedBy[e] # NoWorker
    /\ ~expired[e]
    /\ expired' = [expired EXCEPT ![e] = TRUE]
    /\ UNCHANGED <<status, due, attempts, claimedBy, workerVars, notified, dispatched>>

BackoffEnds(e) ==
    /\ status[e] = "pending"
    /\ ~due[e]
    /\ due' = [due EXCEPT ![e] = TRUE]
    /\ UNCHANGED <<status, attempts, claimedBy, expired, workerVars, notified,
                   dispatched>>

WorkerStep(w) ==
    \/ ClaimOutbox(w) \/ TakeNext(w) \/ RunEnds(w)
    \/ DispatchReturns(w) \/ DispatchThrows(w)
    \/ MarkPublished(w) \/ MarkPublishedThrows(w)
    \/ MarkFailed(w) \/ MarkNotOwned(w) \/ MarkFailedThrows(w)

Next ==
    \/ \E e \in Event : Enqueue(e) \/ LeaseExpires(e) \/ BackoffEnds(e)
    \/ \E w \in Worker : WorkerStep(w) \/ Crash(w)

Spec == Init /\ [][Next]_vars

\* Ticks come every five seconds and a run goes on until it ends; leases and
\* backoffs pass with the clock.  Nothing makes a dispatch succeed, a mark
\* throw or a process crash.
Fairness ==
    /\ \A w \in Worker : WF_vars(WorkerStep(w))
    /\ \A e \in Event : WF_vars(LeaseExpires(e)) /\ WF_vars(BackoffEnds(e))

FairSpec == Spec /\ Fairness

-----------------------------------------------------------------------------
TypeOK ==
    /\ status \in [Event -> {"absent", "pending", "published", "dead"}]
    /\ due \in [Event -> BOOLEAN]
    /\ attempts \in [Event -> 0..MaxAttempts]
    /\ claimedBy \in [Event -> Worker \union {NoWorker}]
    /\ expired \in [Event -> BOOLEAN]
    /\ stage \in [Worker -> Stages]
    /\ batch \in [Worker -> SUBSET Claims]
    /\ current \in [Worker -> Claims \union {NoClaim}]
    /\ notified \in [Event -> Nat]
    /\ dispatched \subseteq Event

\* An event is only recorded as published after some dispatch of it returned,
\* whatever crashes, lost leases and late marks came between.
PublishedWasDispatched ==
    \A e \in Event : status[e] = "published" => e \in dispatched

\* Two workers never act on the same claim of an event: every attempt belongs
\* to one worker, even while a slow worker and its successor overlap.
AttemptsAreExclusive ==
    \A v, w \in Worker : v # w => Held(v) \intersect Held(w) = {}

\* An event that is retried, or dispatched twice by overlapping workers, still
\* produces one notification.
NotifiedOnce == \A e \in Event : notified[e] <= 1

\* A worker whose lease ran out and whose event was claimed again can neither
\* publish nor fail it: only the holder of the latest attempt ends a claim.
\* claimed_by alone fences the marks although it does not name the attempt.
OnlyLatestAttemptMarks ==
    [][ \A e \in Event :
          claimedBy[e] # NoWorker /\ claimedBy'[e] = NoWorker =>
              \E w \in Worker : current[w] = [event |-> e, attempt |-> attempts[e]]
      ]_vars

\* The last allowed attempt was claimed and its worker is gone, or failed to
\* record the failure: no claim takes the row again and nobody dead-letters it.
Stranded(e) ==
    /\ status[e] = "pending"
    /\ attempts[e] = MaxAttempts
    /\ claimedBy[e] # NoWorker
    /\ \A w \in Worker : [event |-> e, attempt |-> MaxAttempts] \notin Held(w)

\* Every event ends up published or dead-lettered, except one whose worker
\* died on (or could not record) the last allowed attempt.
EventsSettle ==
    \A e \in Event :
        status[e] = "pending" ~> status[e] \in {"published", "dead"} \/ Stranded(e)

\* What docs/audits/v4-platform-primitives.md promises of bounded retry: an
\* event that is not published becomes a visible dead letter.
ExhaustedIsDeadLettered ==
    \A e \in Event : status[e] = "pending" ~> status[e] \in {"published", "dead"}
=============================================================================
