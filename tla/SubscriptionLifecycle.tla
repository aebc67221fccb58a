------------------------ MODULE SubscriptionLifecycle ------------------------
(***************************************************************************)
(* What happens to a subscription after it is sold: it is replaced by one  *)
(* of another package, any number of times, or cancelled, while lessons    *)
(* are planned on it and settled and money is paid and refunded.           *)
(*                                                                         *)
(* A lesson keeps the subscription it was planned on for ever; whoever     *)
(* needs the one that pays for it now follows the replacements             *)
(* (currentSubscriptionId).  Reading that and locking the row it names are *)
(* two statements, so a replacement may come between them: the commands on *)
(* a lesson have a step for each.  Once the row is locked nobody else      *)
(* touches the units, and the rest of a command is one step;               *)
(* SubscriptionCoverage has its statements one by one.  A replacement and  *)
(* a cancellation read everything again under the lock.                    *)
(*                                                                         *)
(* There is one client, who pays, and one sequence of replacements.        *)
(* Amounts are minor units; lessons are numbered by date.  The version of  *)
(* an issued subscription changes with its status only, so the status      *)
(* stands for it.                                                          *)
(***************************************************************************)
EXTENDS Integers, Sequences, FiniteSets, Sums

CONSTANTS
  LessonCount,   \* lessons are 1..LessonCount
  Cost,          \* the units each of them takes
  Issued,        \* the first contract: [units, price], discounts included
  Packages,      \* what it can be replaced by: [units, price]
  FundingModes,  \* how it is paid for: "personal_account" or "installment"
  Amounts,       \* amounts of payments and refunds
  Actors,        \* employees, each with a preview at hand
  MaxContracts,  \* bound: contracts of the client
  MaxMoney       \* bound: the money paid, and the money refunded

Lesson == 1 .. LessonCount
Terms == [units : Nat \ {0}, price : Nat]

ASSUME LifecycleAssumption ==
  /\ LessonCount \in Nat /\ Cost \in [Lesson -> Nat \ {0}]
  /\ Issued \subseteq Terms /\ Packages \subseteq Terms
  /\ FundingModes \subseteq {"personal_account", "installment"}
  /\ Amounts \subseteq Nat \ {0}
  /\ MaxContracts \in Nat /\ MaxMoney \in Nat

VARIABLES
  contracts,  \* app.subscriptions, each replaced by the next
  life,       \* lifecycle_state of each lesson
  plan,       \* the subscription its settlement plan names
  reserve,    \* the one that holds a reserve for it
  charge,     \* the one it was charged to
  command,    \* what is under way on each lesson, and what it has read
  owed,       \* debits less credits of subscription_obligation_facts
  paid,       \* payments for the subscription
  refunded,   \* refunds of these payments
  mode,       \* funding_mode
  preview     \* the signed preview each employee holds

lessons == <<life, plan, reserve, charge, command>>
money == <<owed, paid, refunded, mode>>
vars == <<contracts, lessons, money, preview>>

NoContract == 0
Contract == 1 .. Len(contracts)
Latest == Len(contracts)
Statuses == {"active", "replaced", "cancelled"}
Idle == [op |-> "none", plan |-> NoContract, contract |-> NoContract]
NoPreview == [kind |-> "none"]

Min(a, b) == IF a < b THEN a ELSE b
Max(a, b) == IF a > b THEN a ELSE b

\* The units that the lessons of S take.
Units(S) == SumTo(LessonCount, [x \in Lesson |-> IF x \in S THEN Cost[x] ELSE 0])

-----------------------------------------------------------------------------
(* What the queries compute.                                               *)

Active(c) == contracts[c].status = "active"

\* currentSubscriptionId: the active successor, if there is exactly one.
Current(c) ==
  IF \E d \in Contract : {b \in c .. Latest : Active(b)} = {d}
  THEN CHOOSE d \in c .. Latest : Active(d)
  ELSE c

ChargedTo(c) == {x \in Lesson : charge[x] = c}
ReservedOn(c) == {x \in Lesson : reserve[x] = c}

Used(c) == Units(ChargedTo(c))

Net == paid - refunded

\* calculate: the unused units at the price of issue, rounded once.
RemainingValue(c) ==
  (contracts[c].price * Max(0, contracts[c].units - Used(c))) \div contracts[c].units

UsedValue(c) == contracts[c].price - RemainingValue(c)

\* Mutant: the payments count again after a replacement.
PaysForSpentAgain(c, units) ==
  LET available == Max(0, Net)
      obligation == owed - Net + available
  IN obligation <= 0 \/ units * obligation <= available * contracts[c].units

\* subscriptionFundingSql: that many units of c are paid for. The money that
\* was spent on the contracts before is no longer available.
PaysFor(c, units) ==
  LET available == Max(0, Net - contracts[c].prior)
      obligation == owed - Net + available
  IN /\ units <= contracts[c].units
     /\ obligation <= 0 \/ units * obligation <= available * contracts[c].units

\* Units of c that are neither charged nor reserved for another lesson.
Free(c, x) == contracts[c].units - Used(c) - Units(ReservedOn(c) \ {x})

-----------------------------------------------------------------------------
(* reconcileSubscriptionCoverage.                                          *)

\* The reserves after the units of contract c are handed out anew, by date,
\* to the lessons of `on`; a lesson that needs more than is left is passed
\* over, and the reserves and charges of other lessons stay.
HandedOut(c, units, held, charged, on) ==
  LET fixed == {x \in Lesson \ on : held[x] = c} \cup {x \in Lesson : charged[x] = c}
      left[x \in 0 .. LessonCount] ==
        IF x = 0 THEN Max(0, units - Units(fixed))
        ELSE IF x \in on /\ Cost[x] <= left[x - 1] THEN left[x - 1] - Cost[x]
        ELSE left[x - 1]
  IN [x \in Lesson |->
        IF x \notin on THEN held[x]
        ELSE IF Cost[x] <= left[x - 1] THEN c ELSE NoContract]

Scheduled == {x \in Lesson : life[x] = "scheduled"}

\* Inserting a reserve waits for whoever has locked the lesson; when that one
\* waits for the subscription, one of the two is rolled back.
Insertable(new) ==
  \A x \in Lesson : new[x] # NoContract /\ reserve[x] = NoContract =>
    command[x].op \in {"none", "single", "series"}

-----------------------------------------------------------------------------
TypeOK ==
  /\ contracts \in Seq([units : Nat \ {0}, price : Nat, status : Statuses,
                        prior : Int])
  /\ contracts # << >>
  /\ life \in [Lesson -> {"absent", "scheduled", "pending", "completed", "cancelled"}]
  /\ plan \in [Lesson -> Contract \cup {NoContract}]
  /\ reserve \in [Lesson -> Contract \cup {NoContract}]
  /\ charge \in [Lesson -> Contract \cup {NoContract}]
  /\ command \in [Lesson -> [op : {"none", "single", "series", "complete"},
                             plan : Contract \cup {NoContract},
                             contract : Contract \cup {NoContract}]]
  /\ owed \in Int /\ paid \in 0 .. MaxMoney /\ refunded \in 0 .. MaxMoney
  /\ mode \in FundingModes

NewContract(terms, prior) ==
  [units |-> terms.units, price |-> terms.price, status |-> "active",
   prior |-> prior]

\* The subscription has been issued: its price is an obligation.
Init ==
  \E terms \in Issued :
    /\ contracts = <<NewContract(terms, 0)>>
    /\ owed = terms.price
    /\ life = [x \in Lesson |-> "absent"]
    /\ plan = [x \in Lesson |-> NoContract]
    /\ reserve = [x \in Lesson |-> NoContract]
    /\ charge = [x \in Lesson |-> NoContract]
    /\ command = [x \in Lesson |-> Idle]
    /\ paid = 0
    /\ refunded = 0
    /\ mode \in FundingModes
    /\ preview = [e \in Actors |-> NoPreview]

-----------------------------------------------------------------------------
(* Lessons.                                                                *)

\* A lesson is created, on its own or as one of a series, with a plan that
\* names any contract; allocate reads which one pays now.
BeginCreate(x, op, c) ==
  /\ life[x] = "absent" /\ command[x] = Idle
  /\ command' = [command EXCEPT ![x] = [op |-> op, plan |-> c, contract |-> Current(c)]]
  /\ UNCHANGED <<contracts, life, plan, reserve, charge, money, preview>>

\* Mutant: the status is not looked at once the row is locked.
FinishCreateAnyway(x) ==
  /\ command[x].op \in {"single", "series"}
  /\ LET c == command[x].contract
         new == HandedOut(c, contracts[c].units, reserve, charge, Scheduled \cup {x})
     IN /\ Insertable(new)
        /\ command[x].op = "single" => new[x] = c
        /\ reserve' = new
  /\ life' = [life EXCEPT ![x] = "scheduled"]
  /\ plan' = [plan EXCEPT ![x] = command[x].plan]
  /\ command' = [command EXCEPT ![x] = Idle]
  /\ UNCHANGED <<contracts, charge, money, preview>>

\* allocate, once the row is locked: a contract that has ended covers nothing,
\* which only a lesson of a series may put up with.
FinishCreate(x) ==
  /\ command[x].op \in {"single", "series"}
  /\ LET c == command[x].contract
         new == IF Active(c)
                THEN HandedOut(c, contracts[c].units, reserve, charge, Scheduled \cup {x})
                ELSE reserve
     IN /\ Insertable(new)
        /\ command[x].op = "single" => new[x] = c
        /\ reserve' = new
  /\ life' = [life EXCEPT ![x] = "scheduled"]
  /\ plan' = [plan EXCEPT ![x] = command[x].plan]
  /\ command' = [command EXCEPT ![x] = Idle]
  /\ UNCHANGED <<contracts, charge, money, preview>>

\* The worker settles a lesson that is over: it resolves the contract of the
\* plan and asks for its row.
BeginComplete(x) ==
  /\ life[x] = "scheduled" /\ command[x] = Idle
  /\ command' = [command EXCEPT ![x] =
       [op |-> "complete", plan |-> plan[x], contract |-> Current(plan[x])]]
  /\ UNCHANGED <<contracts, life, plan, reserve, charge, money, preview>>

\* Mutant: the status of the locked row is not looked at.
CoversEnded(c, x) == Free(c, x) >= Cost[x]

\* reserveLessonSubscription: the contract is active and has the units.
Covers(c, x) == Active(c) /\ Free(c, x) >= Cost[x]

\* The lesson becomes `ended`, its reserve is consumed or released, and the
\* units of the contract that held it are handed out anew.
Close(x, ended, c) ==
  /\ LET charged == [charge EXCEPT ![x] = c]
         held == [reserve EXCEPT ![x] = NoContract]
         from == IF c # NoContract THEN c ELSE reserve[x]
         new == IF from = NoContract \/ ~Active(Current(from)) THEN held
                ELSE HandedOut(Current(from), contracts[Current(from)].units, held,
                               charged, Scheduled \ {x})
     IN /\ Insertable(new)
        /\ reserve' = new
        /\ charge' = charged
  /\ life' = [life EXCEPT ![x] = ended]
  /\ command' = [command EXCEPT ![x] = Idle]
  /\ UNCHANGED <<contracts, plan, money, preview>>

\* completeInTransaction: the contract is paid for and covers the lesson.
FinishComplete(x) ==
  /\ command[x].op = "complete"
  /\ LET c == command[x].contract IN
     /\ PaysFor(c, Used(c) + Cost[x])
     /\ Covers(c, x)
     /\ Close(x, "completed", c)

\* Otherwise the completion fails for want of funds, which is not retried: the
\* review transaction hands the lesson to staff. Two steps in LessonCompletion.
HandOver(x) ==
  /\ command[x].op = "complete"
  /\ LET c == command[x].contract IN
     ~(PaysFor(c, Used(c) + Cost[x]) /\ Covers(c, x))
  /\ life' = [life EXCEPT ![x] = "pending"]
  /\ command' = [command EXCEPT ![x] = Idle]
  /\ UNCHANGED <<contracts, plan, reserve, charge, money, preview>>

\* Staff settle a lesson as planned, paid for or not. lockSettlementCoverage
\* locks the contracts first, then the one that pays now is resolved.
StaffSettle(x) ==
  /\ life[x] \in {"scheduled", "pending"} /\ command[x] = Idle
  /\ LET c == Current(plan[x]) IN Covers(c, x) /\ Close(x, "completed", c)

\* Staff settle or cancel it without a charge.
StaffWaive(x) ==
  /\ life[x] \in {"scheduled", "pending"} /\ command[x] = Idle
  /\ Close(x, "cancelled", NoContract)

\* A refusal, an error, the victim of a deadlock or a lost connection.
Rollback(x) ==
  /\ command[x] # Idle
  /\ command' = [command EXCEPT ![x] = Idle]
  /\ UNCHANGED <<contracts, life, plan, reserve, charge, money, preview>>

-----------------------------------------------------------------------------
(* Money.                                                                  *)

\* A payment for the subscription is verified.
Pay(amount) ==
  /\ paid + amount <= MaxMoney
  /\ paid' = paid + amount
  /\ UNCHANGED <<contracts, lessons, owed, refunded, mode, preview>>

\* Mutant: what is left of the payments is not looked at.
RefundUnchecked(amount) ==
  /\ refunded' = refunded + amount
  /\ UNCHANGED <<contracts, lessons, owed, paid, mode, preview>>

\* recordAdjustment: what goes back is at most what is left of the payments.
Refund(amount) ==
  /\ amount <= Net
  /\ refunded' = refunded + amount
  /\ UNCHANGED <<contracts, lessons, owed, paid, mode, preview>>

-----------------------------------------------------------------------------
(* Replacement.                                                            *)

\* planReservations: reserves move to the new contract by date until one does
\* not fit.
Transferable(c, terms) ==
  LET before(x) == {y \in ReservedOn(c) : y <= x} IN
  {x \in ReservedOn(c) : Units(before(x)) <= terms.units}

\* Future lessons planned on c itself that have no reserve of it.
Missing(c) == {x \in Scheduled : plan[x] = c /\ reserve[x] # c}

\* createTokenPayload: what the employee was shown and signed. Of the payments
\* and of the lessons without a reserve it holds the sum.
ReplaceFacts(c) ==
  [used |-> Used(c), reserved |-> ReservedOn(c), missing |-> Units(Missing(c)),
   net |-> Net, owed |-> owed]

\* calculate: the price of the new contract less what is left of the old one.
Delta(c, terms) == terms.price - RemainingValue(c)

PreviewReplace(e, terms) ==
  /\ Active(Latest)
  /\ preview' = [preview EXCEPT ![e] =
       [kind |-> "replace", contract |-> Latest, terms |-> terms,
        facts |-> ReplaceFacts(Latest),
        position |-> owed + Delta(Latest, terms) - Net]]
  /\ UNCHANGED <<contracts, lessons, money>>

\* Mutant: only the contract itself is compared.
ReplaceCurrentByVersion(e) == Active(preview[e].contract)

\* isCurrentActiveSubscription and assertPreviewCurrent.
ReplaceCurrent(e) ==
  /\ Active(preview[e].contract)
  /\ ReplaceFacts(preview[e].contract) = preview[e].facts

\* Mutant: all reserves move.
TransferAll(c, terms, n) ==
  [x \in Lesson |-> IF reserve[x] = c THEN n ELSE reserve[x]]

\* applyReservationPlan.
Transfer(c, terms, n) ==
  [x \in Lesson |-> IF reserve[x] # c THEN reserve[x]
                    ELSE IF x \in Transferable(c, terms) THEN n ELSE NoContract]

\* SubscriptionReplacementService.execute: the old contract ends, the new one
\* has its full volume, remembers the value of what was used and takes over
\* the reserves; then its units are handed out to every scheduled lesson of the
\* whole sequence.
Replace(e) ==
  /\ preview[e].kind = "replace" /\ Len(contracts) < MaxContracts
  /\ ReplaceCurrent(e)
  /\ LET c == preview[e].contract
         terms == preview[e].terms
         n == Latest + 1
         new == HandedOut(n, terms.units, Transfer(c, terms, n), charge, Scheduled)
     IN /\ Insertable(new)
        /\ contracts' = Append([contracts EXCEPT ![c].status = "replaced"],
                               NewContract(terms, contracts[c].prior + UsedValue(c)))
        /\ reserve' = new
        /\ owed' = owed + Delta(c, terms)
  /\ UNCHANGED <<life, plan, charge, command, paid, refunded, mode, preview>>

-----------------------------------------------------------------------------
(* Cancellation.                                                           *)

\* Used and reserved units are kept: they are not paid back.
UnusedUnits(c) ==
  LET total == contracts[c].units IN total - Min(total, Used(c) + Units(ReservedOn(c)))

UnusedValue(c) == (contracts[c].price * UnusedUnits(c)) \div contracts[c].units

\* What of the price is confirmed to be paid; what the personal account paid
\* for a contract that was never replaced is taken as paid.
Confirmed(c) ==
  IF mode = "personal_account" /\ c = 1 THEN contracts[c].price
  ELSE Min(contracts[c].price, Max(0, paid - contracts[c].prior))

Recommended(c) ==
  Min(UnusedValue(c),
      Max(0, ((Confirmed(c) * UnusedUnits(c)) \div contracts[c].units) - refunded))

\* createTokenPayload of the cancellation: payments and refunds one by one, and
\* which lessons lose their reserve.
CancelFacts(c) ==
  [used |-> Used(c), reserved |-> ReservedOn(c), missing |-> Missing(c),
   paid |-> paid, refunded |-> refunded, owed |-> owed]

PreviewCancel(e) ==
  /\ Active(Latest)
  /\ preview' = [preview EXCEPT ![e] =
       [kind |-> "cancel", contract |-> Latest, facts |-> CancelFacts(Latest),
        refund |-> Recommended(Latest),
        position |-> owed - UnusedValue(Latest) - Net]]
  /\ UNCHANGED <<contracts, lessons, money>>

CancelCurrent(e) ==
  /\ Active(preview[e].contract)
  /\ CancelFacts(preview[e].contract) = preview[e].facts

\* SubscriptionCancellationService.execute: the contract ends, its reserves are
\* released, and what was not used is credited; of the part that was paid, what
\* the employee chose.
Cancel(e, refund) ==
  /\ preview[e].kind = "cancel" /\ CancelCurrent(e)
  /\ refund <= Recommended(preview[e].contract)
  /\ LET c == preview[e].contract IN
     /\ contracts' = [contracts EXCEPT ![c].status = "cancelled"]
     /\ reserve' = [x \in Lesson |-> IF reserve[x] = c THEN NoContract ELSE reserve[x]]
     /\ owed' = owed - (UnusedValue(c) - Recommended(c) + refund)
  /\ UNCHANGED <<life, plan, charge, command, paid, refunded, mode, preview>>

-----------------------------------------------------------------------------
LessonStep(x) ==
  \/ \E op \in {"single", "series"}, c \in Contract : BeginCreate(x, op, c)
  \/ FinishCreate(x)
  \/ BeginComplete(x) \/ FinishComplete(x) \/ HandOver(x)
  \/ StaffSettle(x) \/ StaffWaive(x) \/ Rollback(x)

Previewing(e) == PreviewCancel(e) \/ \E terms \in Packages : PreviewReplace(e, terms)

Next ==
  \/ \E x \in Lesson : LessonStep(x)
  \/ \E amount \in Amounts : Pay(amount) \/ Refund(amount)
  \/ \E e \in Actors :
       \/ Previewing(e) \/ Replace(e)
       \/ preview[e].kind = "cancel" /\ \E refund \in {0, preview[e].refund} : Cancel(e, refund)

Spec == Init /\ [][Next]_vars

-----------------------------------------------------------------------------
\* The value of all lessons charged so far, each at the price of its contract.
Taken == SumTo(Latest, [c \in Contract |-> UsedValue(c)])

\* However replacements and cancellations race, the client has one contract at
\* a time: each but the latest was replaced, once, by the next. It alone holds
\* reserves, and none once it is cancelled, whatever command had read another as
\* the current one (v4-subscription-replace.md: "active reservations на old
\* subscription не остаются").
OneContractInForce ==
  /\ \A c \in Contract : (c = Latest) # (contracts[c].status = "replaced")
  /\ \A x \in Lesson : reserve[x] # NoContract => Active(reserve[x])

\* Reserves that move to a smaller contract never overdraw it, those of lessons
\* that wait for staff included.
NeverOverdrawn ==
  \A c \in Contract : Units(ChargedTo(c) \cup ReservedOn(c)) <= contracts[c].units

\* Through any sequence of replacements the client owes exactly the lessons
\* taken, each at the price of the contract it was charged to, and the unused
\* part of the present contract; after a cancellation no less than the former
\* and no more than both. Nothing is charged to a contract after it was valued.
ValueConserved ==
  IF Active(Latest) THEN owed = Taken + RemainingValue(Latest)
  ELSE owed >= Taken /\ owed <= Taken + RemainingValue(Latest)

\* A lesson is settled by the worker only on money no earlier lesson has used:
\* a replacement does not make spent money available again
\* (CURRENT-PRODUCT-RULES.md:274).
SpentStaysSpent ==
  [][\A x \in Lesson :
       command[x].op = "complete" /\ life'[x] = "completed" => Taken' <= Net]_vars

\* What an employee was shown is what happens: the debt or overpayment after a
\* replacement, and after a cancellation the debt without the part of the refund
\* that was not chosen, whatever was paid, settled or reserved in between.
PromiseKept ==
  [][\A e \in Actors :
       /\ Replace(e) => owed' - Net' = preview[e].position
       /\ preview[e].kind = "cancel" =>
            \A refund \in {0, preview[e].refund} :
              Cancel(e, refund) =>
                owed' - Net' = preview[e].position + preview[e].refund - refund]_vars

\* A lesson the worker hands to staff for want of funds had none: its reserve is
\* not on a contract that is active and paid for.
CoveredIsCompleted ==
  [][\A x \in Lesson :
       command[x].op = "complete" /\ life'[x] = "pending" =>
         ~ /\ reserve[x] # NoContract
           /\ Active(reserve[x])
           /\ PaysFor(reserve[x], Used(reserve[x]) + Cost[x])]_vars
=============================================================================
