------------------------ MODULE SubscriptionCoverage ------------------------
(***************************************************************************)
(* The units of a subscription and the lessons they pay for.  A lesson     *)
(* that is planned on a subscription holds a reserve on it while units     *)
(* last, in chronological order; settling turns the reserve into a charge, *)
(* and every command that frees or claims units redistributes the reserves *)
(* in its own transaction (subscription-coverage.persistence.ts).          *)
(*                                                                         *)
(* Transactions run at READ COMMITTED.  What one has reserved and released *)
(* is in its record and reaches "reserved" when it commits.  Lessons are   *)
(* numbered by (scheduled_at, id).  All subscriptions are active and fit   *)
(* all lessons; a lesson has one participant.                              *)
(***************************************************************************)
EXTENDS Integers, Sequences, FiniteSets, SequencesExt, FiniteSetsExt

CONSTANTS
    LessonCount,  \* lessons are 1..LessonCount
    Sub,          \* subscription ids, ordered as row locks are taken
    Total,        \* lessons_total - lessons_used of each, in units
    Plan,         \* the funding decisions used: [sub, units]
    Connection,   \* database connections, one transaction each at a time
    MaxCommands   \* bound on the number of commands started

NoSub == 0
NoLesson == 0
Lesson == 1..LessonCount
Unfunded == [sub |-> NoSub, units |-> 0]

ASSUME CoverageAssumption ==
    /\ LessonCount \in Nat
    /\ Sub \subseteq Nat \ {NoSub} /\ IsFiniteSet(Sub)
    /\ Total \in [Sub -> Nat]
    /\ Plan \subseteq [sub : Sub, units : Nat \ {0}] \union {Unfunded}
    /\ MaxCommands \in Nat

VARIABLES
    life,      \* lifecycle_state: absent, scheduled, pending or closed
    deleted,   \* lessons with deleted_at
    plan,      \* the settlement plan of each lesson
    snapshot,  \* subscription_id of its snapshot, written once
    reserved,  \* units of the live reservation per lesson and subscription, 0 for none
    booked,    \* subscriptions of which the lesson ever had a reservation
    charged,   \* units of the client charge fact
    tx,        \* the transaction of each connection
    commands   \* commands started

tables == <<life, deleted, plan, snapshot, reserved, booked, charged>>
vars == <<tables, tx, commands>>

Sum(f, S) ==
    LET sum[x \in 0..LessonCount] ==
            IF x = 0 THEN 0 ELSE sum[x - 1] + IF x \in S THEN f[x] ELSE 0
    IN sum[LessonCount]

Nothing == [x \in Lesson |-> 0]
NoUnits == [x \in Lesson |-> [s \in Sub |-> 0]]

Idle ==
    [op |-> "none", at |-> "idle", lesson |-> NoLesson, successor |-> NoLesson,
     want |-> Unfunded, locks |-> {}, held |-> {}, available |-> 0,
     billed |-> 0, tasks |-> << >>, add |-> Nothing, made |-> NoUnits,
     dropped |-> {}, rows |-> {}]

Init ==
    /\ life = [x \in Lesson |-> "absent"]
    /\ deleted = {}
    /\ plan = [x \in Lesson |-> Unfunded]
    /\ snapshot = [x \in Lesson |-> NoSub]
    /\ reserved = NoUnits
    /\ booked = [x \in Lesson |-> {}]
    /\ charged = NoUnits
    /\ tx = [c \in Connection |-> Idle]
    /\ commands = 0

-----------------------------------------------------------------------------
\* Row locks.  A command locks its lesson FOR UPDATE; a reservation inserted
\* for another lesson takes a key share lock of it for its foreign key.

Others(c) == Connection \ {c}

RowHeld(c, x) == x # NoLesson /\ x \in {tx[c].lesson, tx[c].successor}

RowShared(c, x) == \E s \in Sub : <<x, s>> \in tx[c].rows

ShareFree(c, x) == \A d \in Others(c) : ~RowHeld(d, x)

RowFree(c, x) == \A d \in Others(c) : ~RowHeld(d, x) /\ ~RowShared(d, x)

SubFree(c, s) == \A d \in Others(c) : s \notin tx[d].held

\* The reservations as the transaction of c sees them.
View(c, x, s) ==
    IF tx[c].made[x][s] > 0 THEN tx[c].made[x][s]
    ELSE IF <<x, s>> \in tx[c].dropped THEN 0
    ELSE reserved[x][s]

Open(x) == life[x] \in {"scheduled", "pending"} /\ x \notin deleted

Movable(x) == life[x] = "scheduled" /\ x \notin deleted

\* acquireLessonSettlementCoordinationGate: edits of a plan and reschedules
\* exclude each other and the settlements, which share the gate.
Exclusive == {"edit", "reschedule"}

GateFree(c, op) ==
    \A d \in Others(c) :
        /\ op \in Exclusive => tx[d].op \notin Exclusive \union {"settle"}
        /\ op = "settle" => tx[d].op \notin Exclusive

-----------------------------------------------------------------------------
\* The commands.  Each starts with the row lock of its lesson.  Tasks are the
\* redistributions that remain to be done: a subscription, and whether the
\* lesson of the command takes part in it and must be covered.

Task(s, claim) == [sub |-> s, claim |-> claim]

\* Each subscription of S once, by id; there is one such sequence.
Tasks(S, claim) ==
    {[i \in DOMAIN order |-> Task(order[i], claim)] :
        order \in {o \in SetToSeqs(S) : \A i, j \in DOMAIN o : i < j => o[i] < o[j]}}

Claim(want, how) == IF want = Unfunded THEN << >> ELSE << Task(want.sub, how) >>

Counted == commands < MaxCommands /\ commands' = commands + 1

Start(c, transaction) ==
    /\ tx' = [tx EXCEPT ![c] = transaction]
    /\ UNCHANGED tables

Proceed(c, transaction) == Start(c, transaction) /\ UNCHANGED commands

Command(op, x, want) == [Idle EXCEPT !.op = op, !.lesson = x, !.want = want]

Locking(command, locks) == [command EXCEPT !.at = "locking", !.locks = locks]

\* Mutant: lessons without a subscription are not filtered out.
CoverageUnfiltered(x, want) == {snapshot[x], want.sub} \union booked[x]

\* The subscriptions that lockSettlementCoverage locks.
Coverage(x, want) == ({snapshot[x], want.sub} \union booked[x]) \ {NoSub}

Vacant(c, x) == life[x] = "absent" /\ RowFree(c, x)

\* A single lesson must be covered, a lesson of a series need not be.
BeginCreate(c, x, want) ==
    /\ Vacant(c, x)
    /\ \E how \in {"must", "may"} :
          Start(c, [Command("create", x, want) EXCEPT
                        !.at = "covering", !.tasks = Claim(want, how)])

BeginEdit(c, x, want) ==
    /\ Open(x) /\ RowFree(c, x) /\ GateFree(c, "edit")
    /\ Start(c, Locking(Command("edit", x, want), Coverage(x, want)))

\* Settling and cancelling by staff, with any decision.
BeginSettle(c, x, want) ==
    /\ Open(x) /\ RowFree(c, x) /\ GateFree(c, "settle")
    /\ Start(c, Locking(Command("settle", x, want), Coverage(x, want)))

BeginReschedule(c, x, y, want) ==
    /\ Open(x) /\ RowFree(c, x) /\ Vacant(c, y) /\ x # y
    /\ GateFree(c, "reschedule")
    /\ Start(c, Locking([Command("reschedule", x, want) EXCEPT !.successor = y],
                        Coverage(x, want)))

\* Mutant: the worker relies on the lock of the reserving statement.
BeginCompleteUnlocked(c, x) ==
    /\ Movable(x) /\ RowFree(c, x)
    /\ Start(c, Locking(Command("complete", x, plan[x]), {}))

\* The worker settles the stored plan and takes no gate; it locks the
\* subscription that must have been paid for in a statement of its own.
BeginComplete(c, x) ==
    /\ Movable(x) /\ RowFree(c, x)
    /\ Start(c, Locking(Command("complete", x, plan[x]), {plan[x].sub} \ {NoSub}))

LockCoverage(c) ==
    /\ tx[c].locks # {}
    /\ LET s == Min(tx[c].locks) IN
          /\ SubFree(c, s)
          /\ Proceed(c, [tx[c] EXCEPT !.held = @ \union {s}, !.locks = @ \ {s}])

Locked(c, ops) == tx[c].at = "locking" /\ tx[c].locks = {} /\ tx[c].op \in ops

-----------------------------------------------------------------------------
\* Closing a lesson, changing its plan, moving it.

ReservedOn(c, x) == {s \in Sub : View(c, x, s) > 0}

AllOf(x) == {x} \X Sub

\* Mutant: the freed units are left for the next command to hand out.
CloseQuietly(c, subs) ==
    Proceed(c, [tx[c] EXCEPT !.at = "covering",
                             !.held = @ \union ({tx[c].want.sub} \ {NoSub}),
                             !.available = 0,
                             !.billed = tx[c].want.units,
                             !.dropped = AllOf(tx[c].lesson)])

\* The lesson is closed, its charge replaces its reserves, and the units of
\* the subscriptions it had reserved are handed out anew.
Close(c, subs) ==
    \E tasks \in Tasks(subs, "no") :
       Proceed(c, [tx[c] EXCEPT !.at = "covering",
                                !.held = @ \union ({tx[c].want.sub} \ {NoSub}),
                                !.available = 0,
                                !.billed = tx[c].want.units,
                                !.dropped = AllOf(tx[c].lesson),
                                !.tasks = tasks])

\* reserveLessonSubscription sums the free units in the statement that waits
\* for the lock of the subscription, so the sum is as old as the statement.
Measure(c) ==
    /\ Locked(c, {"settle", "complete"})
    /\ tx[c].want # Unfunded
    /\ LET s == tx[c].want.sub
           committed == [x \in Lesson |-> charged[x][s] +
                            IF x = tx[c].lesson THEN 0 ELSE reserved[x][s]]
       IN Proceed(c, [tx[c] EXCEPT !.available = Total[s] - Sum(committed, Lesson),
                                   !.at = "measured"])

\* The reserve of exactly the charged units is consumed, the others of the
\* lesson are released (terminalize).
Bill(c) ==
    /\ tx[c].at = "measured"
    /\ SubFree(c, tx[c].want.sub)
    /\ tx[c].available >= tx[c].want.units
    /\ Close(c, ReservedOn(c, tx[c].lesson) \union {tx[c].want.sub})

\* Without a charge everything is released.
CloseFree(c) ==
    /\ Locked(c, {"settle", "complete"})
    /\ tx[c].want = Unfunded
    /\ Close(c, ReservedOn(c, tx[c].lesson))

\* A change of the funding releases the reserves of the lesson first.
ChangePlan(c) ==
    /\ Locked(c, {"edit"})
    /\ LET x == tx[c].lesson
           release == tx[c].want # plan[x]
       IN \E freed \in Tasks(IF release THEN ReservedOn(c, x) ELSE {}, "no") :
             Proceed(c, [tx[c] EXCEPT
                            !.at = "covering",
                            !.dropped = IF release THEN AllOf(x) ELSE {},
                            !.tasks = freed \o Claim(tx[c].want, "may")])

\* The reserve moves to the successor with the units of its new plan, or the
\* successor claims one; the rest is released, and the subscription of the
\* successor is redistributed once more.  What the claim would give the source
\* is taken back before the commit, so the source takes no part in it.
Transfer(c) ==
    /\ Locked(c, {"reschedule"})
    /\ LET x == tx[c].lesson
           w == tx[c].want
           transfer == w # Unfunded /\ View(c, x, w.sub) > 0
       IN \E rest \in Tasks(ReservedOn(c, x) \ {w.sub}, "may") :
             Proceed(c, [tx[c] EXCEPT
                            !.at = "covering",
                            !.made = IF transfer
                                     THEN [@ EXCEPT ![tx[c].successor][w.sub] = w.units]
                                     ELSE @,
                            !.rows = IF transfer THEN {<<tx[c].successor, w.sub>>} ELSE {},
                            !.dropped = AllOf(x),
                            !.tasks = (IF transfer THEN << >> ELSE Claim(w, "must"))
                                      \o rest \o Claim(w, "may")])

-----------------------------------------------------------------------------
\* reconcileSubscriptionCoverage.

\* The lesson that takes part in the redistribution on behalf of the command.
Own(c) == IF tx[c].op = "reschedule" THEN tx[c].successor ELSE tx[c].lesson

\* Units are handed out by date; a lesson that needs more than is left is
\* passed over.
Allocate(need, available) ==
    LET left[x \in 0..LessonCount] ==
            IF x = 0 THEN available
            ELSE IF need[x] <= left[x - 1] THEN left[x - 1] - need[x] ELSE left[x - 1]
    IN [x \in Lesson |-> IF need[x] <= left[x - 1] THEN need[x] ELSE 0]

Needs(p, s) == IF p.sub = s THEN p.units ELSE 0

\* The lessons whose reserve on the subscription may be changed.
Candidates(c, claim) ==
    ({x \in Lesson : Movable(x)} \ {tx[c].lesson})
        \union (IF claim = "no" THEN {} ELSE {Own(c)})

Need(c, x, t) ==
    IF x \notin Candidates(c, t.claim) THEN 0
    ELSE IF x = Own(c) THEN Needs(tx[c].want, t.sub)
    ELSE Needs(plan[x], t.sub)

\* Units that are charged, by this transaction too, or reserved by lessons
\* that are no candidates.
Spent(c, t) ==
    LET s == t.sub IN
    Sum([x \in Lesson |-> charged[x][s]], Lesson)
      + (IF tx[c].want.sub = s THEN tx[c].billed ELSE 0)
      + Sum([x \in Lesson |-> View(c, x, s)],
            Lesson \ (Candidates(c, t.claim) \union {tx[c].lesson}))

Desired(c, t) ==
    Allocate([x \in Lesson |-> Need(c, x, t)], Max({0, Total[t.sub] - Spent(c, t)}))

\* The lock, the queries and the releases.
Redistribute(c) ==
    /\ tx[c].at = "covering" /\ tx[c].tasks # << >> /\ tx[c].add = Nothing
    /\ LET t == Head(tx[c].tasks)
           s == t.sub
           desired == Desired(c, t)
           changed == {x \in Candidates(c, t.claim) : View(c, x, s) # desired[x]}
           add == [x \in Lesson |-> IF x \in changed THEN desired[x] ELSE 0]
       IN /\ SubFree(c, s)
          /\ t.claim = "must" => desired[Own(c)] > 0
          /\ Proceed(c, [tx[c] EXCEPT
                            !.held = @ \union {s},
                            !.made = [x \in Lesson |->
                                         IF x \in changed
                                         THEN [@[x] EXCEPT ![s] = 0] ELSE @[x]],
                            !.dropped = @ \union (changed \X {s}),
                            !.add = add,
                            !.tasks = IF add = Nothing THEN Tail(@) ELSE @])

\* One insert per lesson in chronological order; its foreign key waits for a
\* command that has locked the lesson.
InsertReserve(c) ==
    /\ tx[c].add # Nothing
    /\ LET s == Head(tx[c].tasks).sub
           x == Min({y \in Lesson : tx[c].add[y] > 0})
           add == [tx[c].add EXCEPT ![x] = 0]
       IN /\ ShareFree(c, x)
          /\ Proceed(c, [tx[c] EXCEPT
                            !.made = [@ EXCEPT ![x][s] = tx[c].add[x]],
                            !.rows = @ \union {<<x, s>>},
                            !.add = add,
                            !.tasks = IF add = Nothing THEN Tail(@) ELSE @])

Closing(c) == IF tx[c].op \in {"settle", "complete", "reschedule"} THEN {tx[c].lesson} ELSE {}

Planned(c) == IF tx[c].op \in {"settle", "complete"} THEN {} ELSE {Own(c)}

Created(c) == IF tx[c].op = "edit" THEN {} ELSE Planned(c)

Commit(c) ==
    /\ tx[c].at = "covering" /\ tx[c].tasks = << >>
    /\ life' = [x \in Lesson |-> IF x \in Closing(c) THEN "closed"
                                 ELSE IF x \in Created(c) THEN "scheduled"
                                 ELSE life[x]]
    /\ plan' = [x \in Lesson |-> IF x \in Planned(c) THEN tx[c].want ELSE plan[x]]
    /\ snapshot' = [x \in Lesson |-> IF x \in Created(c) THEN tx[c].want.sub
                                     ELSE snapshot[x]]
    /\ reserved' = [x \in Lesson |-> [s \in Sub |-> View(c, x, s)]]
    /\ booked' = [x \in Lesson |->
                     booked[x] \union {s \in Sub :
                         \/ <<x, s>> \in tx[c].rows
                         \/ x = tx[c].lesson /\ tx[c].billed > 0 /\ s = tx[c].want.sub}]
    /\ charged' = IF tx[c].billed > 0
                  THEN [charged EXCEPT ![tx[c].lesson][tx[c].want.sub] = tx[c].billed]
                  ELSE charged
    /\ tx' = [tx EXCEPT ![c] = Idle]
    /\ UNCHANGED <<deleted, commands>>

\* A refusal, an error, the victim of a deadlock or a lost connection; every
\* preview is a command that ends this way.
Rollback(c) == tx[c] # Idle /\ Proceed(c, Idle)

-----------------------------------------------------------------------------
\* Single statements and transactions that touch no reserve.

\* The review transaction of the completion worker hands a lesson to staff.
HandOver(x) ==
    /\ Movable(x)
    /\ \A c \in Connection : ~RowHeld(c, x) /\ ~RowShared(c, x)
    /\ Counted
    /\ life' = [life EXCEPT ![x] = "pending"]
    /\ UNCHANGED <<deleted, plan, snapshot, reserved, booked, charged, tx>>

\* deleteLesson leaves the reservation alone.
DeleteLesson(x) ==
    /\ life[x] # "absent" /\ x \notin deleted
    /\ \A c \in Connection : ~RowHeld(c, x)
    /\ Counted
    /\ deleted' = deleted \union {x}
    /\ UNCHANGED <<life, plan, snapshot, reserved, booked, charged, tx>>

Begin(c) ==
    /\ tx[c] = Idle
    /\ Counted
    /\ \E x \in Lesson :
          \/ BeginComplete(c, x)
          \/ \E want \in Plan :
                \/ BeginCreate(c, x, want) \/ BeginEdit(c, x, want)
                \/ BeginSettle(c, x, want)
                \/ \E y \in Lesson : BeginReschedule(c, x, y, want)

Step(c) ==
    \/ LockCoverage(c) \/ Measure(c) \/ Bill(c) \/ CloseFree(c)
    \/ ChangePlan(c) \/ Transfer(c)
    \/ Redistribute(c) \/ InsertReserve(c) \/ Commit(c)

Next ==
    \/ \E c \in Connection : Begin(c) \/ Step(c) \/ Rollback(c)
    \/ \E x \in Lesson : HandOver(x) \/ DeleteLesson(x)

Spec == Init /\ [][Next]_vars

-----------------------------------------------------------------------------
TypeOK ==
    /\ life \in [Lesson -> {"absent", "scheduled", "pending", "closed"}]
    /\ deleted \subseteq Lesson
    /\ plan \in [Lesson -> Plan \union {Unfunded}]
    /\ snapshot \in [Lesson -> Sub \union {NoSub}]
    /\ reserved \in [Lesson -> [Sub -> Nat]]
    /\ booked \in [Lesson -> SUBSET Sub]
    /\ charged \in [Lesson -> [Sub -> Nat]]
    /\ commands \in 0..MaxCommands
    /\ \A c \in Connection :
          /\ tx[c].lesson \in Lesson \union {NoLesson}
          /\ tx[c].successor \in Lesson \union {NoLesson}
          /\ tx[c].want \in Plan \union {Unfunded}
          /\ tx[c].locks \subseteq Sub
          /\ tx[c].held \subseteq Sub
          /\ tx[c].available \in Int /\ tx[c].billed \in Nat
          /\ tx[c].made \in [Lesson -> [Sub -> Nat]]
          /\ tx[c].add \in [Lesson -> Nat]
          /\ tx[c].dropped \subseteq Lesson \X Sub
          /\ tx[c].rows \subseteq Lesson \X Sub

\* However commands race, no subscription has more units charged and reserved
\* than it has lessons.
NeverOverdrawn ==
    \A s \in Sub :
        Sum([x \in Lesson |-> charged[x][s] + reserved[x][s]], Lesson) <= Total[s]

\* Between transactions the reserves of the scheduled lessons planned on a
\* subscription are exactly those that handing out its units by date gives:
\* no lesson is uncovered that could be covered, or covered out of turn.
EarliestFirst ==
    \A s \in Sub :
        LET on == {x \in Lesson : Movable(x) /\ plan[x].sub = s}
            taken(S) == Sum([x \in Lesson |-> reserved[x][s]], S)
            free == Total[s] - Sum([x \in Lesson |-> charged[x][s]], Lesson)
                             - taken(Lesson \ on)
        IN (\A c \in Connection : s \notin tx[c].held) =>
              \A x \in on :
                  LET left == free - taken({y \in on : y < x})
                  IN reserved[x][s] = IF plan[x].units <= left THEN plan[x].units ELSE 0

\* A lesson that was completed, cancelled or rescheduled holds no reserve.
ClosedHoldsNoReserve ==
    \A x \in Lesson : life[x] = "closed" =>
        \A s \in Sub : reserved[x][s] = 0
=============================================================================
