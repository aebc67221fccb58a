# TLA+ models of MagicMusicCRM

MagicMusicCRM is the management system of a chain of music schools: a Flutter
client, a NestJS server (HTTP API, role-based access, Socket.IO) and one
PostgreSQL database with private file storage beside it. Everything that must be
right lives in the server (`src/server/src`) and in the constraints and triggers
of the database (`src/server/db/migrations`); the client repeats requests and
reloads what it is told has changed.

The models are about that server: what happens when several connections, worker
processes and staff members act on the same rows, when a process dies between
two statements, when an answer is lost and the request repeated. Amounts,
wording, layout and queries that only read are left out.

Contents: 1 Inventory, 2 Plan, 3 Conventions, 4 The modules, 5 Runs and bounds,
6 Fairness, 7 Proofs, 8 What the models disagree with, 9 What is not modelled.

## 1 Inventory

### 1.1 The shape of the system

* Requests run on a pool of PostgreSQL connections. `DatabaseService.transaction`
  (`db/database.service.ts:46-65`) wraps a callback in BEGIN and COMMIT and rolls
  back on any error. The isolation level is the default, READ COMMITTED, so a
  transaction sees what others commit between its statements and the protection
  comes from row locks, advisory locks, unique indexes and compare-and-swap
  updates, each chosen by the command.
* About forty write operations go through one function,
  `PlatformIntegrityService.executeVersionedMutation`: reserve the idempotency
  key, advance the version of the aggregate, run the mutation, append the audit
  row, enqueue the outbox event, complete the idempotency record.
* Timers inside the server process do the rest: the outbox worker, the lesson
  completion worker, reminders of instalments and shared tasks, the schedule
  materialiser (6 h), notification email and push (30 s), lesson reminders (60 s),
  the refresh of analytics (5 min), report exports (5 s). Several processes may
  run at once (a rolling deployment is an explicit case in
  `crm/commerce/lesson-settlement-locks.ts`), so each timer claims its work.

### 1.2 Components

| component | state | operations | what makes it correct |
|---|---|---|---|
| platform integrity (`platform/`) | `aggregate_versions`, `idempotency_records`, `audit_events`, `platform_outbox_events` | executeVersionedMutation; creators seed version rows | a command takes effect at most once, whole or not at all, and against the version it was computed from; a repeated request gets the answer of the first |
| outbox worker (`platform/platform-outbox.worker.ts`) | status, attempts, claim and lease of an event | claim a batch, dispatch, mark published or failed | nothing is published undelivered; an overtaken worker decides nothing; every event ends |
| lesson completion (`crm/schedule/lesson-completion.*`, `completion-worker.repository.ts`) | `lesson_completion_work`, lesson lifecycle, settlement plan | claim lessons that are over, settle, retry, poison, hand to staff | every lesson that is over is settled once, or waits for staff in a state they can settle |
| subscription coverage (`crm/commerce/subscription-coverage*`, `subscription-reservation*`, `lesson-settlement*`) | `lesson_reservations`, charge facts, units of a subscription | reserve, release, move, consume, redistribute | no subscription is overdrawn; units go to the earliest lessons |
| subscription lifecycle (`crm/commerce/subscription-lifecycle*`, `subscription-replacement*`, `subscription-cancellation*`) | `subscriptions` with status and successor, obligation facts, signed previews | preview, replace, cancel; lessons that resolve the contract in force | one contract in force; units follow the replacement; no value is lost; what was shown is what happens |
| payments (`crm/commerce/payment-*`, `actual-payment*`, `installment-due*`) | payment records, actual payments, adjustments, instalments | create, change status, adjust, reverse, correct, ask for what falls due | append-only; hidden rows cancel out; an instalment is asked for once, and in the end |
| access control (`access-control/`) and person lifecycle | role, personal overrides, access versions, the account | assign a role, set an override, off-board, restore, delete | overrides fit the role; the last administrator stays; changes are noticed |
| refresh sessions (`auth/session.service.ts`) | rows with family, successor and revocation | issue, rotate, detect reuse, revoke | one live session per family; none after a reuse |
| sign-in, registration, recovery (`auth/`) | codes, reset tokens, rate limits | issue, consume | a code is consumed once |
| lesson commands (`crm/schedule/`) | lessons, snapshots, transitions, constraints | create, edit, reschedule, cancel, settle, bulk, correct | one successor, no overlap, a preview is committed only if it is still true |
| schedule plans (`crm/schedule/schedule-plan*`, `schedule-series*`, `schedule-materializer*`) | plans, rows as series that continue each other, lessons by series date | create, replace from a date, move the start either way, finish, remove a row, fill up to a horizon | no date twice, no lesson outside its row, a change is in force from its date |
| reminders of tasks (`crm/tasks/`) | leased reminders | claim, remind, mark | a reminder at most once per lease, none after completion |
| notifications (`notifications/`) | notifications, deliveries, markers | create, claim, send, mark | one notification per cause |
| clients, leads, intake (`crm/clients`, `crm/lead*`) | cards, leads, chat users | intake, convert, archive, merge | one lead per inbound person |
| messenger (`messenger/`) | chats, members, messages, read markers | send, edit, mark read | a read marker never moves back |
| organisation (`crm/*-lifecycle.service.ts`) | branches, rooms, groups, catalogues | preview, archive, restore | nothing archived that is in use |

The remaining parts (finance and payroll calculations, analytics, files, read
models, configuration, imports, rollout scripts, the Flutter client, deployment)
are in section 9. `PROJECT.json` lists every part with its source files, and the
hazards of the code at their lines.

### 1.3 How they interact

* Every command commits its own rows, its audit row and its outbox event in one
  transaction; the outbox worker later turns events into notifications and
  Socket.IO hints. A hint carries a version, not data: clients reload.
* Lesson commands and the completion worker meet on the row of the lesson
  (`for update`, and the trigger that copies its version to `aggregate_versions`)
  and on the row of the subscription that pays.
* A transaction that frees units of one lesson gives them to *other* lessons,
  which it does not lock. This is the most intricate interaction of the system.
* A plan of lessons is edited by staff while a timer fills it. Both lock the plan, its
  series and their resources; the timer reads the dates to fill before and after.
* Replacing a subscription changes which row pays for lessons that were planned on its
  predecessor. Commands on lessons resolve the row first and lock it afterwards.
* Commands on payments lock the payer; the timer that asks for instalments locks
  instalments and no payer, so the two meet on the instalment only.
* Role, override and off-boarding commands meet on the rows of the user, of the
  card and of two versions; sessions are revoked inside the same transactions.

### 1.4 What is hard

Statements of two transactions in an order nobody wrote a test for (keys, versions,
the count of administrators, the sum of free units); reads that are stale when they
are used (candidates of a redistribution, poisoned lessons, the role in a signed
token); leases that run out under a slow worker; a process that dies between claim,
effect and mark, or on its last attempt; commits whose answer is lost; retried
requests; lock inversions; batches and attempts at their limits. The hazards listed in
`PROJECT.json` name the line and the property for each, or say why there is none.

## 2 Plan

Order: what everything else is built on first, then the workers, then people, then money
and the schedule.

| # | module | of | status |
|---|---|---|---|
| 1 | `ExactlyOnceStore`, `VersionedMutation` | abstract store; the mutation as a refinement of it | checked, proved |
| 2 | `PlatformOutbox` | events, workers, leases | checked, proved |
| 3 | `LessonCompletion` | completion worker and staff on the same lessons | checked, proved |
| 4 | `AccessControl` | roles, overrides, off-boarding | checked, proved |
| 5 | `AuthSession` | rotation, reuse, revocation | checked, proved |
| 6 | `SubscriptionCoverage` | units, reservations, redistribution, statement by statement | checked, proved |
| 7 | `SubscriptionLifecycle` | replacement and cancellation; a command on a lesson in two steps | checked, proved |
| 8 | `PaymentLedger` | records, adjustments, reversals, corrections, instalments that fall due | checked, proved |
| 9 | `SchedulePlan` | edits of a plan and the worker that fills it | checked, proved |

6 and 7 are two views of one part: 6 has the statements with which several lessons share
the units of one subscription, 7 takes them as one step under the lock of the
subscription -- that the steps under this lock are exclusive is what 6 proves
(`SubsExclusive`) -- and has the sequence of contracts, the money and the previews.
7 takes "completed" and "handed to staff" as outcomes of one step; 3 has their protocol.

Left out of the plan, and why, is section 9.

## 3 Conventions

* One module per component. `MC<Module>.tla` extends it with the values and symmetry of
  the runs, `<Module>Proofs.tla` with the theorems.
* An action is a statement or a stretch of statements between two points at which another
  transaction can be observed; where a handler calls something that changes state, that is
  part of its action. A transaction's own uncommitted writes are kept in its record and
  reach the tables in its commit (`VersionedMutation`, `SubscriptionCoverage`), or are made
  by the step in which it commits when nothing it wrote earlier can be seen (the others).
* Row locks are not variables: who holds a row follows from the stage of each transaction
  (`KeyFree`, `UserLocked`, `FamilyFree`, `RowFree`), and the guard of a step that needs
  the row says that nobody else holds it. A wait is a disabled step; the victim of a
  deadlock, a lost connection, a refusal and an error are all `Rollback`.
* Where the code issues a lock and evaluates a sub-query in one statement, the sub-query
  sees the snapshot taken before the wait; where that matters it is a step of its own
  (`Measure` and `Bill`).
* A statement that does not wait is atomic. One that waits for a row goes on, when it gets
  it, with what it read before: PostgreSQL reads the row again only if it was updated
  meanwhile, and then only that row. Where this matters the wait is a state of its own
  (`CreateRecordWaits`, `BeginComplete`, `SelectAll`).
* Counters are bounded in guards by a constant: `MaxRequests`, `MaxOutside`, `MaxAttempts`,
  `MaxVersion`, `MaxCommands`, `MaxRecords`, `MaxAdjustments`, `MaxCharges`, `MaxCrashes`,
  `MaxContracts`, `MaxMoney`, `MaxSeries`, `MaxEdits`, `LastDate`. `MaxAttempts` is also a
  constant of the code. `StaffSettle` happens once a lesson and is not bounded by `MaxVersion`.
* Some definitions are stated by a theorem and by no run, where the run checks a stronger
  or a more telling one: `AllOrNothing`, `NeverUndone`, `PublishedWasDispatched`,
  `AttemptsAreExclusive`, `NeverBeforeTheEnd`, `NothingForgotten`, `ArchivedHasNoOverride`,
  `AccessChangeVersioned`. They are marked (theorem) below.
* Definitions commented "Mutant" are defects a plausible edit could introduce: the form
  of a definition without one of its guards, locks or resets. No specification uses them;
  each shows that a property of section 5 is sensitive to the code it is about.
* The configurations whose names end in `Stranded`, `Starved`, `Revocation`, `Leak`,
  `Duplicate`, `Overtaken`, `Change`, `Second`, `Rowless` and `Gaps` are not among the runs of
  section 5. Each checks one definition that the code does not satisfy, and stops with a
  counterexample that section 8 describes. Where such a definition is a claim of a document, a
  comment or an error message, a passing run has the property that says when alone it fails.

## 4 The modules

### 4.1 VersionedMutation and ExactlyOnceStore

`executeVersionedMutation` with one action per statement. `pc` is the last statement
executed, `written` the rows written and not committed, and `versions`, `records`,
`effects`, `audits`, `events` the tables. `ReserveNew`, `ReserveReplay` and
`ReserveRejected` are the three outcomes of `reserveIdempotency`; `AdvanceVersion` and
`StaleVersion` those of `advanceVersion`; `Mutate`, `AppendAudit`, `EnqueueOutbox`,
`CompleteIdempotency` follow, then `Commit`. `Abort` is an error, a kill or a lost
connection at any statement. A `Commit` delivers its answer or loses it; a client
retries because `Open` may start any command again.

Version rows are also written outside the mutation. `Seed` is the insert with which the create
commands of rooms, branches and groups make one. `Sync` is every other write, of the
aggregates in `Synced`: the trigger `sync_lesson_aggregate_version` (migration 0083:412-437)
makes the row of a lesson follow `lessons.version` whenever any statement changes it, and
commands on clients, payments and subscriptions raise the versions of what they change
along. Such a write waits for a mutation that holds the row, has no key, audit row or
event, and only raises the version. `outside` is the history of the versions made so.

Mutations lock the key row before the version row, so they cannot wait for each other in a
cycle. An outside writer comes to the version row with other rows locked, its lesson for
one, and a mutation of that lesson may hold the version and wait for the lesson: PostgreSQL
ends that cycle, and `Abort` is what its victim does.

* `ExactlyOnce` -- a key is applied once, however it is repeated, raced or aborted.
* `SerialVersions` -- each mutation of an aggregate was based on the version right before
  its own, no two produced the same, and every version has one origin, a mutation or a
  write outside, never both: neither wrote over the other.
* `AllOrNothing` (theorem) -- effect, audit row, event and completed record exist together.
* `AnswersTruthful` -- every answer, replayed ones included, is of a committed mutation.
* `NeverUndone` (theorem) -- versions grow and nothing that was committed disappears.
* `ImplementsStore` -- the statements implement `ExactlyOnceStore`, in which a command is
  one atomic step and versions also rise elsewhere; the mapping is the committed tables.
* `EveryRequestEnds` -- no wait lasts for ever.

### 4.2 PlatformOutbox

`platform-outbox.worker.ts` with `claimOutbox`, `markOutboxPublished` and
`markOutboxFailed`. An event has a status, attempts, an owner and a lease that expires; a
worker has a batch and the event in hand. Claiming is one statement (`for update skip
locked`). `DispatchReturns`/`DispatchThrows` include the notification, which is inserted
with a deduplication key. A mark matches worker and event but *not* the attempt.
`Crash` loses the batch, `MarkPublishedThrows` and `MarkFailedThrows` are failing marks.
The second event of the run is of a type the dispatcher does not know: such events are
dead-lettered after all attempts.

* `NotifiedOnce`, and `PublishedWasDispatched` (theorem) -- at least once, but one notification.
* `AttemptsAreExclusive` (theorem) -- no two workers ever hold the same claim.
* `OnlyLatestAttemptMarks` -- although the mark does not name the attempt, only the holder
  of the latest one ends a claim.
* `EventsSettle` -- every event is published or dead-lettered, unless its last worker was lost.
  Without that exception it is `ExhaustedIsDeadLettered`, which fails: section 8.

Left out: a claim whose commit succeeds and whose answer is lost (the rows wait for their
leases, as after a crash), and a mark that commits and then reports an error.

### 4.3 LessonCompletion

A lesson with lifecycle, version, settlement plan and work row; workers that go through
`SelectDue` (which locks lessons), `UpsertClaims`, `TakeClaim`, `LockWork` (which locks the
work row and then the lesson), `CommitCompletion` or `CompletionFails`, and the handling
of a failure: `MarkTerminalObserved`, `MarkPoison` followed by `ReviewOwn`, or `MarkRetry`.
`ReadPoison` and `RecoverPoison` are the batch in which a tick hands poisoned lessons to
staff. `ClaimDeadlock` is the victim of the inversion between `claimDue` and the
completion. Staff edit, cancel, settle and delete between any two steps; the process may
crash anywhere, and a commit may succeed with its answer lost.

* `SettledExactlyOnce` -- whatever retries, races and lost answers there are.
* `PendingCanBeSettled` -- what was handed to staff is in a state their command accepts.
* `NeverBeforeTheEnd`, `NothingForgotten` (theorems) -- nothing is claimed early, and a
  lesson that is over is settled, in staff's hands, or still has work that will be claimed.
* `FencedOutcome` -- a worker that was overtaken records nothing for its successor's claim.
* `EndedLessonsLeave` -- a lesson that is over is completed, handed over, cancelled or deleted,
  unless deleted poisoned lessons fill the recovery batch (`ReviewBlocked`). Poisoned lessons
  that are not deleted never keep a later one out for good. That every poisoned lesson reaches staff,
  `FailuresReachStaff`, fails: section 8.

Abstractions: settling succeeds or throws (amounts are not modelled); "cancelled" stands for
every way in which staff take a lesson out of the schedule; a staff command is one step
guarded by the row locks; the correction of a settled lesson is not modelled; the order of
`updated_at` among poisoned rows is a rank.

### 4.4 AccessControl

Role (anything below director is "lower"), one personal override, the account's deletion
and archiving, and the *two* versions of access: `user_access_versions` and the aggregate
version of `access:user`. A role or override command goes through `BeginAccess` (version
lock and check), `LockUser`, for a demotion `CountAdmins` under the advisory lock, and
`AssignRole` or `SetOverride`. Off-boarding and restoring lock the card (`ReadPerson`) and
then write the account. The hard invariants read the role in the actor's access token,
which may be older than the row (`SignToken`); the capability check reads the row.

* `OverridesFitRole`, and `ArchivedHasNoOverride` (theorem) -- grants never outlive what they
  were granted to.
* `AdminsLostOnlyByDeletion` -- racing demotions keep an administrator; only a completed
  deletion request can take the last one.
* `HierarchyRespected` -- a director changes only lower roles of others into lower ones.
* `AccessChangeVersioned` (theorem) -- every change of access raises the version clients watch.

### 4.5 AuthSession

Refresh sessions as rows with family, successor, revocation and expiry. `rotate` is
`LockFamily` (advisory lock), `ReadSession` (row lock, valid or reused), then `Replace` or
`RevokeFamily`. `revokeAll` is a statement: `SelectAll` takes its snapshot and
`RevokeAll` waits for the rows. It stands for logging out everywhere, a password reset,
off-boarding, replaced credentials and a completed deletion.

* `OneLiveSession` -- of a family at most one session is live.
* `ReuseEndsFamily` -- once a reuse was reported no session of the family is live, also
  when a rotation was under way.

### 4.6 SubscriptionCoverage

Lessons are numbered in the order of `(scheduled_at, id)`; each has a life (absent,
scheduled, pending, closed), a planned funding, the subscription of its snapshot, and per
subscription the units reserved and charged. A connection runs one command at a time:

| command | first lock | then |
|---|---|---|
| create | none; the row is new | claim units, which a single lesson must get and a lesson of a series may get |
| edit of the plan | lesson, exclusive gate | lock the coverage; on a change release and redistribute; claim |
| settle, cancel | lesson, shared gate | lock the coverage; measure; bill; redistribute what the lesson had |
| reschedule | lesson, exclusive gate | lock the coverage; move the reserve to the successor or claim one; release; redistribute |
| complete (worker) | lesson, no gate | lock the paying subscription; then as settle |

`LockCoverage` is `lockSettlementCoverage`: it locks the subscriptions of the snapshot, of
any reservation the lesson ever had, and of the decision, in the order of their ids.
`Redistribute` is `reconcileSubscriptionCoverage` up to its releases: units that are free
go to movable lessons by date, and a lesson that needs more than is left is passed over.
`InsertReserve` is one insert per lesson; its foreign key takes a key share lock of that
lesson and so waits for a command that has it. `HandOver` and `DeleteLesson` are single
transactions that touch no reserve.

* `NeverOverdrawn` -- charges and reserves never exceed the units of a subscription.
* `EarliestFirst` -- whenever no transaction holds a subscription, its reserves are
  exactly what handing out its units by date gives.
* `ClosedHoldsNoReserve` fails: section 8.

Abstractions: units are whole (the code computes in hundredths); every subscription is
active and fits every lesson; one participant per lesson; a signed preview is a command
that rolls back, and its fingerprint only refuses.

### 4.7 PaymentLedger

One subscription sold in instalments and the payer's personal account. `records` and
`adjustments` are the append-only tables, each with its exclusion mark (`voided`); the
actual payment of a record is the record with status "paid". `CreateRecord`,
`TransitionRecord`, `RecordAdjustment` and `CancelSubscription` are the direct commands;
`PreviewReversal`, `PreviewCorrection` and `PreviewAdjustmentReversal` sign what
`CommitReversal`, `CommitCorrection` and `CommitAdjustmentReversal` compare before they
act. `SelectDue` and `MaterializeDue` are the two statements of the worker that asks for
instalments, `WorkerCrashes` a rollback between them. Commands lock the payer and are
atomic, with one exception: a command on an instalment that the worker holds has read
that there is no record and waits (`CreateRecordWaits`, `CreateRecordResumes`).

* `BooksBalance` -- after any refunds, corrections and reversals, what the reports leave
  out cancels: the sums of the reporting views are those of everything ever booked.
* `SecondRecordAfterWaiting` -- an instalment that has a record in force gets another only from
  a command that found none, waited for the worker that was making it, and went on. Workers,
  corrections and commands that did not wait never add one. That there is never a second
  record, `OneOrdinaryRecord`, fails by this one way: section 8.
* `CancelledIsNotAsked` -- no worker asks for an instalment of a cancelled subscription.
* `DueIsAsked` -- what is due and not covered is asked for in the end.

Abstractions: amounts are small naturals, dates and notes are not kept, a payer has one
subscription, accounts of others and transfers between them are left out. Cash days,
receipts and files belong to no protocol here. Totals are `SumTo` of `Sums`, which
`SubscriptionLifecycle` uses too.

### 4.8 SubscriptionLifecycle

The contracts of one client, each replacing the one before; lessons with the contract they
were planned on, that of their reserve and that of their charge; obligations, payments and
refunds. `BeginCreate`/`FinishCreate` and `BeginComplete`/`FinishComplete`/`HandOver` are
the two halves of a command on a lesson: `currentSubscriptionId` follows the successors,
then the row it named is locked, and a `Replace` or `Cancel` may come between. `HandedOut`
is the redistribution under that lock. `PreviewReplace` and `PreviewCancel` hold what the
signed token holds, `ReplaceCurrent` and `CancelCurrent` are the comparisons at the commit.
`PaysFor` is the SQL that decides whether the worker may settle on the money there is.

* `OneContractInForce` -- one contract at a time, and only it holds reserves.
* `NeverOverdrawn` -- also after a transfer to a smaller contract.
* `ValueConserved` -- through any replacements the client owes the lessons taken, each at
  its contract's price, and the unused rest; rounding never loses or doubles a unit.
* `SpentStaysSpent` -- money that paid for lessons of a replaced contract pays for no other.
* `PromiseKept` -- the position shown by a preview is the position after the commit.

Abstractions: one client, who also pays; discounts are part of the price; lessons of the
family share are left out; the versions of a contract are represented by its status, the only
thing that changes them. Hundredths of units and minor units of money are integers whose
rounding is kept.

### 4.9 SchedulePlan

One plan of one student. `series` are the rows over time: `from`, `until`, whether deleted,
and `next` (`superseded_by`). `lesson` has one state per series and date. `CreatePlan`,
`ReplaceFrom`, `ExtendBackwards`, `MoveStartForward`, `EndPlan` and `RemoveRow` are the
commands on the plan; each is one transaction under the locks of the plan, its series and
their resources, its preview included, for its fingerprint covers all that the commit
reads. `ReadCandidates` and `MaterializeSeries` are the two steps of the worker: it reads
the dates to fill, waits for the locks, and reads them again with the date on which it
began. `EditDecision`, `CancelLesson`, `Reschedule`, `DeleteLesson`, `Settle`, `Book` and
`Unbook` are what happens to single lessons meanwhile.

* `LessonsWithinSeries` -- no untouched lesson lies outside the dates or the weekday of its
  row, or belongs to a deleted one.
* `OneFactPerDate` -- in the lineage of a row (the rows that lead to it) a date has at most
  one lesson that anyone did something with or could attend. This fails (section 8);
  `SecondFactOnlyOutOfOrder` says where: only in a lineage with a row that was continued from
  a date before it had begun.
* `ChangeTakesEffect` -- after a change from a date on, the rows it replaced and all that
  led to them have no untouched lesson from that date on. This fails too;
  `BegunRowsAreReplaced` says of which rows it holds: of every current row that has begun by
  the date of the change and whose lineage is in order, whatever rows are replaced beside it.

`AfterBegin` is `assertSchedulePlanEditOutsidePrefix`, which compares the date of a change
with the earliest current row only. A change may thus reach back before another row began;
no model restricts that.

Abstractions: one teacher and one room, so that two scheduled lessons collide when date and
time agree; weeks have `WeekLength` days; group participants, reserves (4.6), archived
plans and series from before plans existed are left out.

## 5 Runs and bounds

| run | instance | shows |
|---|---|---|
| `vm` | 3 connections, 2 keys, 2 aggregates of which one is synced, 5 commands, 3 requests, outside versions up to 2 | the properties of 4.1, refinement and liveness included |
| `outbox` | 2 events, 2 workers, 2 attempts, batches of 2 | the properties of 4.2, liveness included |
| `lesson_safety` | 2 lessons, 2 workers, 2 attempts, 2 versions | the safety properties of 4.3 |
| `lesson_liveness` | 2 lessons, 2 workers, 2 attempts, batches of 1 for claims and for recovery, of staff only `StaffSettle` | `EndedLessonsLeave` with more poisoned lessons than a batch holds |
| `access_safety` | 2 users, 2 connections, versions up to 3 | the properties of 4.4 |
| `access_frozen` | the same | a counterexample: section 8 |
| `auth_safety` | 4 sessions of 1 user, 2 connections | the properties of 4.5 |
| `coverage_safety` | 3 lessons, 2 subscriptions of 2 and 1 units, 2 connections, 4 commands | the properties of 4.6 |
| `payments_safety` | 1 instalment, 1 employee, 2 workers, 2 records, 2 adjustments, 2 versions, 1 lesson charged, 1 crash | the properties of 4.7, liveness included |
| `subscriptions_safety` | 2 lessons of 1 and 2 units, 3 units for 5, replaced by 1 for 3 or 3 for 7, up to 3 contracts, money up to 5, both ways of paying | the properties of 4.8 |
| `schedule_safety` | 3 dates, weeks of 2 days, 2 possible rows, up to 3 series, 1 command on a lesson | the properties of 4.9 |
| `schedule_ended` | the same | a counterexample: section 8 |

Why these are enough. The races of the code are between two transactions, each with one
effect on the row it shares with the other; a third connection (`vm`) adds a waiter
behind a waiter, and versions from outside go one beyond what a command expects. Two attempts give a first, an overtaken and a last one, and two lessons
or events give a batch with a rest: `lesson_liveness` has batches of one, so that a
poisoned lesson waits behind another; `MCLessonCompletionBatches.cfg` is the same with one worker
and with edits by staff, and passes too. Three requests allow a rival, a retry and a reused
key at once. In `access_safety` two users are two administrators, a director with a
subject, or a manager and himself; three versions leave room for an off-boarding between
two role changes. Four sessions are a family of three links beside another family. Three
lessons are the one that frees units, the one that gets them and the one passed over, with
two subscriptions so that a plan can move between them; four commands are two that set
the scene and two that race (the deeper bound of five was explored for two lessons with
both subscriptions).

Money: one instalment and two records are a payment and its correction, or the worker's
record and the employee's; two adjustments are a refund and its reversal. Two workers and the employee
come to an instalment that one of the workers holds. A contract of
three units for five, which does not divide, makes every rounding visible; a replacement by
fewer units has reserves that do not fit, one that is dearer has money that no longer
suffices, and three contracts are two replacements in a row, the second by a token that
was signed before or after the first. Schedule: three dates with `FirstDay` 1 and a horizon of
one day leave something for the worker to fill after every command, a past, a present and a
future date for each change, and three series are a row, its continuation and a prefix or a
second continuation. The counterexamples of `ChangeTakesEffect` and `OneFactPerDate` need a fourth, those
of mutants of the passing properties do not; random behaviours of instances with five series and two commands on lessons were simulated
and showed no violation of the properties of the passing run, which are proved for all.

What TLC shows for these instances is proved for all in section 7, where it says so.

Symmetry is used for connections, workers, lessons or sessions that the specification
treats alike, and in no run that checks liveness. Lessons and subscriptions of
`SubscriptionCoverage` are ordered and so not symmetric. Deadlock is not
checked because every instance really may stop: its requests, versions or commands are
used up, all its lessons dealt with, all its accounts deleted. That transactions
do not wait for each other for ever is a property of its own where the code has no
victim (`EveryRequestEnds`).

## 6 Fairness

* `VersionedMutation`: weak fairness of every session's own next statement. A connection
  keeps executing; PostgreSQL queues waiters on a row, no mutation waits for one that waits
  for it, and a cycle with an outside writer ends with a victim. Neither the arrival of requests nor `Abort` is fair.
* `PlatformOutbox`, `LessonCompletion`: weak fairness of each worker's step -- the timer
  fires again after every tick -- and of the passing of time (`LeaseExpires`,
  `BackoffEnds`). Not fair: crashes, successes, failures, staff. So liveness does not
  assume that a dispatch or a settlement ever succeeds: it ends by the bound on attempts.
* `PaymentLedger`: weak fairness of each worker's two statements, and of the statement of
  an employee that waits for a lock. Not fair: commands, time, crashes (which are bounded).
* `AccessControl`, `AuthSession`, `SubscriptionCoverage`, `SubscriptionLifecycle` and
  `SchedulePlan` state safety only.

## 7 Proofs

Checked by the TLA+ proof system for every value of the constants, from the ASSUMEs of
the modules only: constants have the types that their comments give, sets of users and
lessons are finite, and "none" values are no members of what they stand beside.

Each proof module has an inductive invariant, a lemma that `Init` implies it, a lemma per
action (or per group of actions that disturb the same conjuncts), one that joins them, and
theorems that follow by temporal logic.

* **VersionedMutationProofs.** `IInv` = `TypeOK`, `Exclusive` (at most one transaction past
  the statement that locks a key or a version), `Protected` (what a transaction has read
  of its key and version is still true while it holds them, writes from outside
  included, and it has written exactly the rows of the statements it has executed) and
  `Consistent` (the tables agree among themselves, and every version has one origin). `ExactlyOnce` alone is not inductive: a commit preserves it
  only because its key was still unused, which is `Protected`, which holds because of
  `Exclusive`. Theorems: `TypeCorrect`, `CommittedAtMostOnce`, `NoLostUpdate`, `Atomicity`,
  `TruthfulAnswers`, `HistoryIsPermanent`, and `Implementation`: the specification
  implements `ExactlyOnceStore`, each step mapping to a step of the store or to a stutter.
* **PlatformOutboxProofs.** `OutboxInv` adds to the safety properties which stages have
  claims (`StageOK`), that no claim in hand is newer than its row, and that a row's claimant
  holds the claim of its latest attempt (`ClaimsOK`). The fencing theorem rests on the order of attempts: two workers can hold
  claims of one event, but not of the same attempt.
* **LessonCompletionProofs.** `CompletionInv` = `TypeOK`, `LessonOK` (the safety
  properties, and that work exists only for lessons that are over), `SelectionOK` (no two
  workers select one lesson, and what is selected may be attempted once more) and
  `InHandOK` (a completing transaction has passed the fence and still owns the work row). Theorems for all six safety properties.
* **AccessControlProofs.** `AccessInv` has, beside the properties, who holds which lock
  (`LocksOK`), that what a command counted is still the number of administrators while it
  holds the advisory lock, unless one was deleted (`CountOK`), and how the two versions of
  a user are ordered (`VersionsOK`). `LastAdminIsNotDemoted` is an argument
  about cardinalities: of two or more administrators, removing one leaves one.
* **AuthSessionProofs.** `SessionInv` has the shape of families (`FamiliesOK`), the
  advisory lock (`LocksOK`) and what a rotation has read (`ReadOK`). Theorems:
  `SessionTypeCorrect`, `RotationIsExclusive`, `ReuseIsFinal`.

* **SubscriptionCoverageProofs.** `CoverageInv` = `Typed`, `SubsExclusive` (a subscription
  is held by one transaction), `NeverOverdrawn` and, for each transaction, `TxOK`: at which
  stage it holds what (`StageOK`, `HeldOK`), that what it writes or takes back concerns
  subscriptions it holds (`ClaimsOK`, `ClearedOK`), that what it measured is still free
  (`MeasuredOK`), and that its own view of a subscription, uncommitted writes included,
  does not exceed the units (`LoadOK`). The last is the point: a redistribution releases
  and inserts one row at a time, so the balance holds at its commit only because it held
  for the transaction's view at every step. Sums over lessons are recursive functions on
  sets; what is needed of them is proved by the least counterexample
  (`WFMin` of `WellFoundedInduction`) instead of an induction principle.
  The balance needs no locks of lessons.
  `EarliestFirst` follows from the balance and from `Served`: each lesson on its plan has the
  units it needs, or has none and they were not left by the charges, the lessons off their
  plan and the earlier ones. That `Allocate`, recursive over the dates, serves so is again a
  least counterexample (`UpToLessons`). `TurnInv` = `CoverageInv`, `Served` for every
  subscription in what is committed, and `Served` for every subscription a transaction holds
  and has redistributed in the transaction's own view (`ServedOK`). To carry it through the
  statements of others, the row locks matter: a lesson is held by one transaction, and no
  other has inserted a reserve of it (`RowsExclusive`). To carry it to the commit, what the
  transaction wrote lies under those locks and it redistributes each subscription that its
  lesson had reserves on (`WrittenOK`), what it is about to reserve it has released
  (`AddOK`), and the redistribution in which its own lesson claims units comes last
  (`LastOK`). A reserve was booked (`BookedOK`), so the subscriptions a command locks include
  all that its lesson has reserves on; an open lesson has no charge (`ChargedOK`). The worker that completes a lesson
  locks only the paying subscription beforehand, so `WrittenOK` asks it to redistribute the
  others from the moment it closes the lesson.
  Theorems: `TypeCorrect`, `UnitsNeverExceeded`, `EarliestServed`.
* **CommerceProofs**, of what is sold and what is paid: the two modules it extends share no
  variable, but the lemmas about sums (`Sums`) of both.
  `SubscriptionLifecycle`: `LifecycleInv` = `TypeOK`, `LessonsOK` (what a command
  under way has read is a contract of its sequence, reserves belong to scheduled or pending
  lessons), `PreviewsOK` (the position a preview promises is what its own facts give),
  `OneContractInForce`, `NeverOverdrawn` and `BooksOK`, the equation from which
  `ValueConserved` follows: `prior` of a contract is the value taken on those before it.
  The theorems are `TypeCorrect`, `OneAtATime`, `ReplacementsFit`, `NoValueLost`,
  `WhatWasShown` and `MoneyIsSpentOnce`. In the last the value used is rounded up, which
  is harmless because payments are whole minor units: what covers the exact quotient, which
  `PaysFor` compares, covers the rounded one.
  `PaymentLedger`: `LedgerInv` = `LedgerTypeOK`, `LedgerOK`, `Authors`, `LocksOK`,
  `WaitingOK` and `CancelledOK`. `BooksBalance` compares two totals of what the reports
  show; `LedgerOK` says the same of what they leave out: for any set of targets the hidden
  payments and the hidden adjustments sum to nothing, and an adjustment belongs to an actual
  payment and is hidden with it -- without that a reversal would hide a payment and leave its
  refund in the books. It is kept because the counterpart of a reversal is hidden with all
  that was booked on the payment. `SecondRecordAfterWaiting` needs who holds which row
  (`LocksOK`: one worker for each part, and no record in force while it is held), that of
  two records in force one was made by a worker (`Authors`) and what a waiting command has
  read (`WaitingOK`: it may resume only to find a record made by a worker). `CancelledOK` says that a cancellation has waited for every worker. Totals over
  tables that grow are compared by lemmas on sums of one more term, one changed term and
  terms that agree, each from the least counterexample. Theorems: `LedgerTypeCorrect`,
  `BooksAlwaysBalance`, `OneGapOnly`, `NoAskingAfterCancellation`.
* **SchedulePlanProofs.** `SeriesInv` = `TypeOK`, `LessonsWithinSeries`, and what it needs:
  a series not yet added has no lesson (`UnusedIsEmpty`), the worker has read an existing
  series (`WorkerReadSeries`) and without a plan there is none (`NoPlanNoSeries`). It holds
  for any changes. `ShapeInv` adds what rows and series look like: a series ends before the
  one that supersedes it begins (`Links`), all but the prefixes of a row form a chain
  (`Trees`), prefixes lie before all other series and apart from each other (`PrefixDates`),
  the lessons of a series that took place or are still to lie within its dates
  (`FactDates`), and no two series of a lineage in order share a date (`OneFactInOrder`).
  `Links` does not say that a row begins before the one that continues it: that is `InOrder`,
  which a change may break and which is therefore the hypothesis of single conclusions, not an
  assumption about behaviours. In a lineage in order the rows occupy disjoint stretches of
  dates (`LineageInOrder`), so that what the worker reads as free in the lineage of one series
  is free in that of every series it belongs to. Theorems: `TypeCorrect`,
  `NoLessonOutlivesItsRow`, `OneLessonInOrder`, `ChangeIsInForce`.

Only model-checked: all liveness (`EveryRequestEnds`, `EventsSettle`, `EndedLessonsLeave`,
`DueIsAsked`), since fairness and ENABLED are beyond the prover. Every other property of a
passing run is stated by a theorem.

## 8 What the models disagree with

Two runs end in a counterexample: the code does something that a document of the repository
says it does not. Both are findings in `PROJECT.json`.

1. **Frozen access** (`access_frozen`, `AccessStaysChangeable`; `person-lifecycle.service.ts:605`).
   Off-boarding raises one of two versions that every later role or override command
   requires to be equal.
2. **Lessons after the end** (`schedule_ended`, `EndedIsQuiet`; `schedule-plan.repository.ts:1207`). A plan
   changed from a future date and then ended before that date takes the end for the series that
   has not begun; the one it replaced has a successor, is not current, and keeps its lessons
   after the end.

The code falls short of what the repository says in these cases too. They have no run; each has a
configuration that stops with the counterexample, and a passing run with the
property that says when alone it happens:

* **A change carried out in part** (`MCSchedulePlanChange.cfg`, `ChangeTakesEffect`;
  `schedule-plan-backdate.ts:203`). A change from a future date that leaves out one of two
  rows closes that row without a successor, so that it stays current with its early begin.
  A second change may then reach back to that begin. It deletes the other row's continuation
  but not the row that was continued, which is superseded by then: its lessons
  up to the first change stay. `docs/audits/v7-schedule-plan-aggregate.md:12` says that a change
  closes the old rows the day before it, and `CURRENT-PRODUCT-RULES.md:290-291` that an edit
  within a prefix is refused rather than carried out in part. Passing: `BegunRowsAreReplaced`.
* **A date with two lessons** (`MCSchedulePlanSecond.cfg`, `OneFactPerDate`;
  `schedule-series-materializer.service.ts:87`). After such a change, made from dates beyond
  the horizon, the superseded row is still filled up to the first change. The lineage that the
  worker consults holds the rows before it, so it does not see the lesson that
  a later row has on that date, cancelled by then, and makes another. The comment at
  `schedule-plan.repository.ts:1077-1079` has such a date occupied throughout the
  lineage. Passing: `SecondFactOnlyOutOfOrder`.
* **Two records of an instalment** (`MCPaymentLedgerDuplicate.cfg`, `OneOrdinaryRecord`;
  `payment-lifecycle.repository.ts:186`). The query that locks an instalment reads in the same
  statement whether it has a record. If it waits for the worker that is making one, it goes
  on with "none". `payment-lifecycle.service.ts:529` refuses a second record, and the unique
  constraint that would have was dropped by migration 0107. Passing: `SecondRecordAfterWaiting`.
* **Blocked recovery** (`MCLessonCompletionStarved.cfg`, `FailuresReachStaff`;
  `completion-worker.repository.ts:183`). Poisoned lessons that were deleted cannot be
  recovered and are read first on every tick; once they fill the batch of 25, no later
  poisoned lesson is recovered, though `CURRENT-DECISIONS.md:264-265` hands every lesson whose
  retries are exhausted to staff. Passing: `EndedLessonsLeave`.
* **Stranded events** (`MCPlatformOutboxStranded.cfg`, `ExhaustedIsDeadLettered`;
  `platform-integrity.repository.ts:337`). An event whose worker is lost on the last attempt
  matches no claim, and only a failing mark dead-letters: it stays pending for ever, where
  `docs/audits/v4-platform-primitives.md:14-15` has a bounded retry that ends in a visible dead
  letter. Passing: `EventsSettle`.
* **A reserve of a closed lesson** (`MCSubscriptionCoverageLeak.cfg`, `ClosedHoldsNoReserve`;
  `subscription-coverage.persistence.ts:199`). A lesson edited to a subscription without free
  units is not tied to it, so closing it does not lock the subscription. A redistribution that
  read it as a candidate before and inserts its reserve after gives units to a closed lesson;
  no later redistribution may move them. `CURRENT-DECISIONS.md:355-356` has the reserves of a
  lesson consumed or released when it is closed.

Further observations, which no document contradicts, each with such a configuration:

* **A session that survives** (`MCAuthSessionRevocation.cfg`, `RevocationIsComplete`;
  `session.service.ts:164`). Revoking all sessions takes no family lock; the successor of
  a rotation under way is not in its snapshot.
* **A covered lesson handed to staff** (`MCSubscriptionLifecycleOvertaken.cfg`,
  `CoveredIsCompleted`; `lesson-settlement-execution.ts:140`). The worker resolves the
  contract before it locks it. A replacement in between leaves it with an ended one,
  which covers nothing: the lesson, whose reserve has moved to the new contract, is handed to staff for want of
  funds and not retried. Nothing is charged wrongly (`ValueConserved`).
* **A plan without rows** (`MCSchedulePlanRowless.cfg`, `ActiveHasRows`). A change may leave
  out a row that had begun. Such a row ends but has no successor and so counts as current, and a
  plan can stay active with rows that are all over.
* **Dates that stay empty** (`MCSchedulePlanGaps.cfg`, `NoGaps`;
  `schedule-series-materializer.service.ts:118`). A lesson that an earlier change deleted
  takes its date for every later row of the lineage, except when the same command fills it.

Without a configuration: removing a continuation that has not begun deletes it and leaves the
lineage it continued without a current row. A lesson of a series created while its contract
is replaced is left uncovered until the next redistribution
(`subscription-reservation.service.ts:83-105`). Reversing an income correction after a refund leaves
the payment refunded by more than it was. A redistribution locks rows of
other lessons, by foreign key, while it holds a subscription, so it can deadlock with their commands, one
of which is then rolled back.

## 9 What is not modelled

* Lesson previews, successors of rescheduled lessons, bulk commands and the correction of
  settled lessons: sequential code under the lock of the lesson, whose shared state is in
  4.3 and 4.6. Deleting a lesson keeps its reserve (`lesson-schedule-mutation.service.ts:363`;
  modelled in 4.6), unlike every other way to remove one.
* Reminders of tasks, of lessons, notification email and push: claims as in 4.2 with
  unconditional marks. An email is sent again when the mark after it fails
  (`notification-worker.service.ts:547`); the marker of a lesson reminder is committed before
  its notification is created, so a crash between the two loses it
  (`notifications.service.ts:206`). Both are visible in a few lines of one actor.
* Lead intake, cards, merge, families, groups, rooms, catalogues: generic commands, that is
  `VersionedMutation` around rows of their own. Where one departs from it, a line says enough:
  a group's version row is seeded with the client's version by a transaction of its own
  (`groups.service.ts:505`), intake serialises by chat user and by phone under two advisory
  locks (`lead-intake.service.ts:261`), the role of an account is read under the lock of the card only (`person-lifecycle.service.ts:193`),
  off-boarded administrators are counted as administrators (`access-mutations.repository.ts:257`),
  and a completed deletion request may name the only one (`legal.service.ts:361`).
* Messenger: a read marker is a single upsert; two requests that arrive in the other order
  move it back (`read-receipt.service.ts:39`).
* Finance and payroll reports, analytics, read models, formatting of audit rows, files, health,
  configuration: queries and input/output without a protocol.
* One-time scripts: imports, rollout, migrations. Prototypes and deployment.
* The Flutter client: its one obligation, to repeat a request with the same idempotency
  key, is the retry of `VersionedMutation`.
* PostgreSQL itself: locks, snapshots at READ COMMITTED and unique indexes are assumed to
  work as documented; a statement is atomic except where a wait inside it is modelled.

How much this is. The repository has some 123 000 lines of implementation; the lines
that the map names are a small share of them. Most of the rest is the list above: input validation, SQL that
projects rows into answers, presenters, user interface, imports. The protocols -- code
in which two actors meet on a row and the order matters -- are concentrated in the files of
the nine modules.
