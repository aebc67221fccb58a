----------------------------- MODULE PaymentLedger -----------------------------
(***************************************************************************)
(* The money a payer hands over for one subscription sold in instalments   *)
(* and for the payer's personal account: payment records and the actual    *)
(* payments behind them, refunds and corrections, the reversal that hides  *)
(* a payment without deleting it, and the worker that asks for the         *)
(* instalments that fall due.                                              *)
(*                                                                         *)
(* Every command of an employee locks the payer first                      *)
(* (lockPurchaseStudents ... for update), so commands are atomic here,     *)
(* with one exception: a command on an instalment may wait for the worker, *)
(* which locks instalments and no payer. A statement that waits goes on    *)
(* with what it read before it waited: the row it waited for was locked,   *)
(* not updated, so PostgreSQL does not read it again.                      *)
(*                                                                         *)
(* Amounts are small naturals standing for minor units. A record and the   *)
(* actual payment it is linked to are one thing here: the payment exists   *)
(* exactly when the status is "paid", with the amount of the record.       *)
(* The record's number is its place in `records`, and likewise for         *)
(* adjustments: both tables are append-only.                               *)
(***************************************************************************)
EXTENDS Integers, Sequences, FiniteSets, Sums

CONSTANTS Workers,         \* processes running InstallmentDueWorker
          Employees,       \* bound: each previews one operation
          Parts,           \* the subscription has instalments 1..Parts
          PartAmount,      \* what each of them costs
          PaymentAmounts,  \* amounts of payments and adjustments
          Entered,         \* bound: the statuses employees enter records with
          MaxRecords,      \* bound: no command adds or hides a record beyond it
          MaxAdjustments,  \* bound: rows of account_adjustments
          MaxVersion,      \* bound: version of a record
          MaxCharges,      \* bound: lessons charged to the account
          MaxCrashes       \* bound: worker crashes

RecordStatuses == {"unpaid", "posted_pending", "paid"}

ASSUME LedgerAssumption ==
  /\ Parts \in Nat /\ PartAmount \in Nat \ {0} /\ PaymentAmounts \subseteq Nat \ {0}
  /\ Entered \subseteq RecordStatuses
  /\ MaxRecords \in Nat /\ MaxAdjustments \in Nat /\ MaxVersion \in Nat
  /\ MaxCharges \in Nat /\ MaxCrashes \in Nat

VARIABLES records,       \* app.client_payment_records, with app.payments
          adjustments,   \* app.account_adjustments
          charged,       \* lessons charged to the personal account, one unit each
          subscription,  \* status of the subscription
          now,           \* instalments 1..now have fallen due
          worker,        \* the instalments each worker holds locked
          waiting,       \* the command that waits for a lock of a worker
          shown,         \* the preview each employee was shown, as signed
          crashes        \* worker crashes so far

ledgerVars == <<records, adjustments, charged, subscription, now, worker, waiting,
                shown, crashes>>

Part == 1 .. Parts
Account == 0                 \* target of a payment to the personal account
WholeSubscription == Parts + 1
Targets == 0 .. Parts + 1
None == [kind |-> "none"]

Records == 1 .. Len(records)
Adjustments == 1 .. Len(adjustments)

-----------------------------------------------------------------------------
(* What the reporting views and the queries over them compute.             *)

\* The rows of commerce_ordinary_payment_records.
Ordinary(r) == ~records[r].voided

\* The record has an actual payment, seen by commerce_ordinary_payments.
OrdinaryPayment(r) == records[r].status = "paid" /\ Ordinary(r)

\* The rows of commerce_ordinary_account_adjustments.
OrdinaryAdjustment(a) == ~adjustments[a].voided

ForSubscription(r) == records[r].target # Account

\* What ordinary payments for the given targets, with their adjustments, add up to.
OrdinaryTotal(targets) ==
  LET counts(r) == OrdinaryPayment(r) /\ records[r].target \in targets
  IN SumTo(Len(records), [r \in Records |-> IF counts(r) THEN records[r].amount ELSE 0])
     + SumTo(Len(adjustments), [a \in Adjustments |->
               IF OrdinaryAdjustment(a) /\ counts(adjustments[a].record)
               THEN adjustments[a].amount ELSE 0])

PaidTowards == OrdinaryTotal(Targets \ {Account})

Balance == OrdinaryTotal({Account}) - charged

\* The part is not covered by what was paid for the parts up to it.
Outstanding(p) == PaidTowards < p * PartAmount

RecordsOf(p) == {r \in Records : records[r].target = p}

HasOrdinaryRecord(p) == \E r \in RecordsOf(p) : Ordinary(r)

LinkedAdjustments(r) ==
  {a \in Adjustments : adjustments[a].record = r /\ OrdinaryAdjustment(a)}

\* What is left of the payment after its adjustments.
Refundable(r) ==
  records[r].amount + SumTo(Len(adjustments), [a \in Adjustments |->
    IF a \in LinkedAdjustments(r) THEN adjustments[a].amount ELSE 0])

-----------------------------------------------------------------------------
RecordType == [target : Targets, amount : Nat \ {0}, status : RecordStatuses,
               version : Nat \ {0}, voided : BOOLEAN, attempt : Nat, replaces : Nat]

AdjustmentType == [record : Nat, amount : Int, voided : BOOLEAN]

\* A preview names a row that exists.
PreviewType ==
  [kind : {"reversal"}, record : Records, version : Nat, balance : Int, resulting : Int]
  \cup [kind : {"correction"}, record : Records, version : Nat, balance : Int,
        resulting : Int, amount : Nat \ {0}, status : RecordStatuses]
  \cup [kind : {"adjustment"}, record : Adjustments, version : Nat, balance : Int,
        resulting : Int]

LedgerTypeOK ==
  /\ records \in Seq(RecordType)
  /\ adjustments \in Seq(AdjustmentType)
  /\ charged \in Nat
  /\ subscription \in {"active", "cancelled"}
  /\ now \in 0 .. Parts
  /\ worker \in [Workers -> SUBSET (Part \X Nat)]
  /\ waiting \in {None} \cup
       [kind : {"create"}, target : Part, amount : {PartAmount}, status : RecordStatuses]
  /\ shown \in [Employees -> {None} \cup PreviewType]
  /\ crashes \in 0 .. MaxCrashes

LedgerInit ==
  /\ records = << >>
  /\ adjustments = << >>
  /\ charged = 0
  /\ subscription = "active"
  /\ now = 0
  /\ worker = [w \in Workers |-> {}]
  /\ waiting = None
  /\ shown = [e \in Employees |-> None]
  /\ crashes = 0

LockedParts == {lock[1] : lock \in UNION {worker[w] : w \in Workers}}

\* No other command holds the payer.
PayerFree == waiting = None

\* A record as createRecord inserts it.
NewRecord(target, amount, status, attempt, replaces) ==
  [target |-> target, amount |-> amount, status |-> status, version |-> 1,
   voided |-> FALSE, attempt |-> attempt, replaces |-> replaces]

\* Mutant: the command does not ask whether the part has a record.
PartAcceptsAgain(target, amount) == target \in Part => amount = PartAmount

\* lockInstallmentTarget and assertTarget: the part is free of a record and
\* costs what is paid for it.
PartAccepts(target, amount) ==
  target \in Part => amount = PartAmount /\ ~HasOrdinaryRecord(target)

-----------------------------------------------------------------------------
(* Commands of an employee.                                                *)

\* PaymentLifecycleService.create, when it waits for nobody. A paid record
\* comes with its actual payment.
CreateRecord(target, amount, status) ==
  /\ PayerFree /\ Len(records) < MaxRecords
  /\ target \notin LockedParts
  /\ PartAccepts(target, amount)
  /\ records' = Append(records, NewRecord(target, amount, status, 0, 0))
  /\ UNCHANGED <<adjustments, charged, subscription, now, worker, waiting,
                 shown, crashes>>

\* The same command when a worker holds the instalment: it has read that the
\* part has no record, holds the payer and waits.
CreateRecordWaits(part, status) ==
  /\ PayerFree /\ Len(records) < MaxRecords
  /\ part \in LockedParts
  /\ PartAccepts(part, PartAmount)
  /\ waiting' = [kind |-> "create", target |-> part, amount |-> PartAmount,
                 status |-> status]
  /\ UNCHANGED <<records, adjustments, charged, subscription, now, worker,
                 shown, crashes>>

\* The worker has ended its transaction: the command goes on with what it read.
CreateRecordResumes ==
  /\ waiting # None
  /\ waiting.target \notin LockedParts
  /\ records' = Append(records, NewRecord(waiting.target, waiting.amount,
                                          waiting.status, 0, 0))
  /\ waiting' = None
  /\ UNCHANGED <<adjustments, charged, subscription, now, worker, shown, crashes>>

\* The pairs assertTransition lets through.
Transitions == {<<"posted_pending", "paid">>, <<"posted_pending", "unpaid">>,
                <<"unpaid", "paid">>, <<"unpaid", "posted_pending">>}

\* PaymentLifecycleService.transition: the record is open and not voided; when
\* it becomes paid, the actual payment is created with it.
TransitionRecord(r, status) ==
  /\ PayerFree
  /\ Ordinary(r)
  /\ <<records[r].status, status>> \in Transitions
  /\ records[r].version < MaxVersion
  /\ records' = [records EXCEPT ![r].status = status, ![r].version = @ + 1]
  /\ UNCHANGED <<adjustments, charged, subscription, now, worker, waiting,
                 shown, crashes>>

\* ActualPaymentService.recordAdjustment: a refund, or a correction either way;
\* what goes out is at most what is left of the payment.
RecordAdjustment(r, amount) ==
  /\ PayerFree /\ Len(adjustments) < MaxAdjustments
  /\ OrdinaryPayment(r)
  /\ amount < 0 => -amount <= Refundable(r)
  /\ adjustments' = Append(adjustments, [record |-> r, amount |-> amount,
                                         voided |-> FALSE])
  /\ UNCHANGED <<records, charged, subscription, now, worker, waiting, shown,
                 crashes>>

\* assertReversible and assertCorrectable.
Reversible(r) == Ordinary(r) /\ LinkedAdjustments(r) = {}

\* PaymentReversalService.preview: what the employee is shown and signs.
PreviewReversal(e, r) ==
  /\ shown[e] = None
  /\ Reversible(r)
  /\ shown' = [shown EXCEPT ![e] =
       [kind |-> "reversal", record |-> r, version |-> records[r].version,
        balance |-> Balance,
        resulting |-> Balance - (IF records[r].status = "paid" /\ ~ForSubscription(r)
                                 THEN records[r].amount ELSE 0)]]
  /\ UNCHANGED <<records, adjustments, charged, subscription, now, worker,
                 waiting, crashes>>

\* PaymentCorrectionService.preview: the amount of an instalment is fixed. That
\* something must change is left out: dates and notes, which may, are.
PreviewCorrection(e, r, amount, status) ==
  /\ shown[e] = None
  /\ Reversible(r)
  /\ records[r].target \in Part => amount = records[r].amount
  /\ LET paid(s, m) == IF s = "paid" /\ ~ForSubscription(r) THEN m ELSE 0 IN
     shown' = [shown EXCEPT ![e] =
       [kind |-> "correction", record |-> r, version |-> records[r].version,
        balance |-> Balance, amount |-> amount, status |-> status,
        resulting |-> Balance + paid(status, amount)
                              - paid(records[r].status, records[r].amount)]]
  /\ UNCHANGED <<records, adjustments, charged, subscription, now, worker,
                 waiting, crashes>>

\* PaymentReversalService.previewAdjustment.
PreviewAdjustmentReversal(e, a) ==
  /\ shown[e] = None
  /\ OrdinaryAdjustment(a)
  /\ shown' = [shown EXCEPT ![e] =
       [kind |-> "adjustment", record |-> a, version |-> 1, balance |-> Balance,
        resulting |-> Balance - (IF ~ForSubscription(adjustments[a].record)
                                 THEN adjustments[a].amount ELSE 0)]]
  /\ UNCHANGED <<records, adjustments, charged, subscription, now, worker,
                 waiting, crashes>>

\* assertSignedTarget and the comparison of the balances: nothing the employee
\* was shown has changed.
StillAsPreviewed(e) ==
  /\ Reversible(shown[e].record)
  /\ records[shown[e].record].version = shown[e].version
  /\ Balance = shown[e].balance

\* Mutant: the payment is excluded and nothing offsets it.
NoCounterpart(r) == << >>

\* The adjustment that cancels the payment of r, already excluded from the
\* reports as the counterpart of the exclusion; none when there is no payment.
Counterpart(r) ==
  IF records[r].status = "paid"
  THEN << [record |-> r, amount |-> -records[r].amount, voided |-> TRUE] >>
  ELSE << >>

\* PaymentReversalService.reverse.
CommitReversal(e) ==
  /\ PayerFree /\ shown[e].kind = "reversal" /\ Len(records) < MaxRecords
  /\ StillAsPreviewed(e)
  /\ LET r == shown[e].record IN
     /\ adjustments' = adjustments \o Counterpart(r)
     /\ records' = [records EXCEPT ![r].voided = TRUE]
  /\ UNCHANGED <<charged, subscription, now, worker, waiting, shown, crashes>>

\* PaymentCorrectionService.correct: the reversal of the record and, in the same
\* transaction, the record that replaces it.
CommitCorrection(e) ==
  /\ PayerFree /\ shown[e].kind = "correction" /\ Len(records) < MaxRecords
  /\ StillAsPreviewed(e)
  /\ LET r == shown[e].record
         hidden == [records EXCEPT ![r].voided = TRUE]
     IN
     /\ records[r].target \notin LockedParts
     /\ records[r].target \in Part =>
          \A s \in RecordsOf(records[r].target) : hidden[s].voided
     /\ adjustments' = adjustments \o Counterpart(r)
     /\ records' = Append(hidden, NewRecord(records[r].target, shown[e].amount,
                                            shown[e].status, 0, r))
  /\ UNCHANGED <<charged, subscription, now, worker, waiting, shown, crashes>>

\* PaymentReversalService.reverseAdjustment: an equal and opposite adjustment,
\* both excluded from the reports.
CommitAdjustmentReversal(e) ==
  /\ PayerFree /\ shown[e].kind = "adjustment"
  /\ LET a == shown[e].record IN
     /\ OrdinaryAdjustment(a)
     /\ Balance = shown[e].balance
     /\ adjustments' = Append([adjustments EXCEPT ![a].voided = TRUE],
          [record |-> adjustments[a].record, amount |-> -adjustments[a].amount,
           voided |-> TRUE])
  /\ UNCHANGED <<records, charged, subscription, now, worker, waiting, shown,
                 crashes>>

\* The records of the subscription nobody paid are excluded.
WithOpenRecordsClosed ==
  [r \in Records |->
     IF ForSubscription(r) /\ records[r].status # "paid"
     THEN [records[r] EXCEPT !.voided = TRUE] ELSE records[r]]

\* Mutant: the cancellation does not lock the instalments.
CancelWithoutLocks ==
  /\ PayerFree /\ subscription = "active"
  /\ subscription' = "cancelled"
  /\ records' = WithOpenRecordsClosed
  /\ UNCHANGED <<adjustments, charged, now, worker, waiting, shown, crashes>>

\* SubscriptionCancellationService.execute, as far as it touches the ledger: it
\* waits for the workers that hold an instalment, closes the subscription and
\* excludes its open records.
CancelSubscription ==
  /\ PayerFree /\ subscription = "active"
  /\ LockedParts = {}
  /\ subscription' = "cancelled"
  /\ records' = WithOpenRecordsClosed
  /\ UNCHANGED <<adjustments, charged, now, worker, waiting, shown, crashes>>

-----------------------------------------------------------------------------
(* The worker and what happens around it.                                  *)

\* The candidates of materializeDueInstallments.
Due(p) ==
  /\ p <= now /\ subscription = "active"
  /\ ~HasOrdinaryRecord(p)
  /\ Outstanding(p)

\* materializeDueInstallments, first statement: the due instalments nobody holds
\* are locked, with the number of the attempt at each.
SelectDue(w) ==
  /\ worker[w] = {}
  /\ \E p \in Part : Due(p) /\ p \notin LockedParts
  /\ worker' = [worker EXCEPT ![w] =
       {<<p, Cardinality(RecordsOf(p)) + 1>> :
          p \in {q \in Part : Due(q) /\ q \notin LockedParts}}]
  /\ UNCHANGED <<records, adjustments, charged, subscription, now, waiting,
                 shown, crashes>>

\* Mutant: the number of the attempt is left out of the identifier.
DueIdOfPartTaken(lock) == \E r \in RecordsOf(lock[1]) : records[r].attempt > 0

\* The identifier deterministicDueId gives is taken by an earlier row.
DueIdTaken(lock) ==
  \E r \in RecordsOf(lock[1]) : records[r].attempt = lock[2]

\* The records asked for, in the order in which the parts fall due.
DueRecords(order) ==
  [i \in DOMAIN order |->
     NewRecord(order[i][1], PartAmount, "posted_pending", order[i][2], 0)]

\* materializeDueInstallments, the inserts and the commit: one record for each
\* part, unless the identifier exists.
MaterializeDue(w) ==
  /\ worker[w] # {}
  /\ LET asked == {lock \in worker[w] : ~DueIdTaken(lock)} IN
     \E n \in 0 .. Parts : \E order \in [1 .. n -> asked] :
       /\ \A lock \in asked : \E i \in 1 .. n : order[i] = lock
       /\ \A i, j \in 1 .. n : i < j => order[i][1] < order[j][1]
       /\ records' = records \o DueRecords(order)
  /\ worker' = [worker EXCEPT ![w] = {}]
  /\ UNCHANGED <<adjustments, charged, subscription, now, waiting, shown, crashes>>

\* The process dies: its transaction is rolled back.
WorkerCrashes(w) ==
  /\ worker[w] # {} /\ crashes < MaxCrashes
  /\ worker' = [worker EXCEPT ![w] = {}]
  /\ crashes' = crashes + 1
  /\ UNCHANGED <<records, adjustments, charged, subscription, now, waiting, shown>>

\* Mutant: the clock runs past the last instalment.
FallsDueBeyond ==
  /\ now' = now + 1
  /\ UNCHANGED <<records, adjustments, charged, subscription, worker, waiting,
                 shown, crashes>>

\* The next instalment falls due.
FallsDue ==
  /\ now < Parts
  /\ now' = now + 1
  /\ UNCHANGED <<records, adjustments, charged, subscription, worker, waiting,
                 shown, crashes>>

\* A lesson is charged to the personal account.
ChargeLesson ==
  /\ charged < MaxCharges
  /\ charged' = charged + 1
  /\ UNCHANGED <<records, adjustments, subscription, now, worker, waiting,
                 shown, crashes>>

-----------------------------------------------------------------------------
Command ==
  \/ \E status \in Entered :
       \/ \E target \in Targets, amount \in PaymentAmounts :
            CreateRecord(target, amount, status)
       \/ \E part \in Part : CreateRecordWaits(part, status)
  \/ \E r \in Records, status \in RecordStatuses : TransitionRecord(r, status)
  \/ CreateRecordResumes
  \/ \E r \in Records, amount \in PaymentAmounts :
       RecordAdjustment(r, amount) \/ RecordAdjustment(r, -amount)
  \/ CancelSubscription

PreviewingPayment(e) ==
  \/ \E r \in Records :
       \/ PreviewReversal(e, r)
       \/ \E amount \in PaymentAmounts, status \in Entered :
            PreviewCorrection(e, r, amount, status)
  \/ \E a \in Adjustments : PreviewAdjustmentReversal(e, a)

Committing(e) ==
  CommitReversal(e) \/ CommitCorrection(e) \/ CommitAdjustmentReversal(e)

LedgerNext ==
  \/ Command
  \/ \E e \in Employees : PreviewingPayment(e) \/ Committing(e)
  \/ \E w \in Workers : SelectDue(w) \/ MaterializeDue(w) \/ WorkerCrashes(w)
  \/ FallsDue
  \/ ChargeLesson

\* The timer of a living worker goes on ticking, and a statement that waits is
\* answered once the lock is free.
Fairness ==
  /\ \A w \in Workers : WF_ledgerVars(SelectDue(w)) /\ WF_ledgerVars(MaterializeDue(w))
  /\ WF_ledgerVars(CreateRecordResumes)

LedgerSpec == LedgerInit /\ [][LedgerNext]_ledgerVars /\ Fairness

-----------------------------------------------------------------------------
\* Everything ever booked for the given targets, hidden or not.
BookedTotal(targets) ==
  SumTo(Len(records), [r \in Records |->
    IF records[r].status = "paid" /\ records[r].target \in targets
    THEN records[r].amount ELSE 0])
  + SumTo(Len(adjustments), [a \in Adjustments |->
      IF records[adjustments[a].record].target \in targets
      THEN adjustments[a].amount ELSE 0])

\* Hiding payments from the reports never changes what the books add up to:
\* whatever order refunds, corrections and reversals come in, the rows the
\* reporting views leave out cancel each other, both for the subscription and
\* for the personal account (0107_v7_payment_reversal, readAccountBalance).
BooksBalance ==
  /\ PaidTowards = BookedTotal(Targets \ {Account})
  /\ Balance = BookedTotal({Account}) - charged

\* An instalment gets a second record in force in one way only: a command read
\* that it had none, waited for the worker that was asking for it, and goes on.
\* Two workers, two commands, a correction or a command that did not wait never
\* add one, whatever was reversed or rolled back before.
SecondRecordAfterWaiting ==
  [][\A p \in Part : \A r, s \in DOMAIN records' :
       /\ s < r /\ records'[r].target = p /\ records'[s].target = p
       /\ ~records'[r].voided /\ ~records'[s].voided
       => \/ r \in Records /\ Ordinary(r) /\ Ordinary(s)
          \/ /\ r \notin Records /\ s \in Records /\ records[s].attempt > 0
             /\ waiting # None /\ waiting.target = p /\ waiting' = None]_ledgerVars

\* An instalment has at most one record in force: what
\* INSTALLMENT_PAYMENT_RECORD_EXISTS tells the employee.
OneOrdinaryRecord ==
  \A p \in Part : \A r, s \in RecordsOf(p) : Ordinary(r) /\ Ordinary(s) => r = s

\* Once the subscription is cancelled no worker asks for an instalment of it.
CancelledIsNotAsked ==
  [][subscription = "cancelled" =>
       \A r \in DOMAIN records' \ Records : records'[r].attempt = 0]_ledgerVars

\* An instalment that is due and not covered is asked for in the end, also when
\* an earlier record of it was reversed and a worker crashed.
DueIsAsked ==
  \A p \in Part : Due(p) ~> ~Due(p)
=============================================================================
