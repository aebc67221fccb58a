----------------------------- MODULE SchedulePlan -----------------------------
(***************************************************************************)
(* One recurring schedule of one student: a plan with rows, the series     *)
(* that stand for the rows over time, the lessons created from them, and   *)
(* the worker that keeps creating lessons up to a horizon.                 *)
(*                                                                         *)
(* A row is never edited.  A change from some date on closes its series    *)
(* the day before and starts another, to which superseded_by of the old    *)
(* one points; a change of the start puts a prefix before it that points   *)
(* to it.  All series that lead to one are its lineage.  A date of a       *)
(* lineage that has a lesson row, even a deleted one, gets no other.       *)
(*                                                                         *)
(* Every command on the plan holds the plan, its series and the keys of    *)
(* their resources to its commit, and is one step; so is a command of      *)
(* staff on a single lesson.  The worker reads the dates of a series       *)
(* before it waits for these locks and again when it has them: two steps.  *)
(* A preview and its commit are one step, for its fingerprint holds all    *)
(* that the commit reads.                                                  *)
(*                                                                         *)
(* All lessons are of one teacher in one room; two of them collide when    *)
(* they are scheduled for one date and time.  Lessons are known by series  *)
(* and date, single ones by date and time.                                 *)
(***************************************************************************)
EXTENDS Integers, Sequences, FiniteSets

CONSTANTS
  LastDate,    \* bound: dates are 1..LastDate
  FirstDay,    \* the date on which all begins
  WeekLength,  \* days of a week, WeekLength - 1 the highest weekday
  Rows,        \* what a row can be: [weekday, time]
  Ends,        \* last dates that a plan can be given; Open is none
  Spots,       \* dates and times at which staff book other lessons
  HorizonDays, \* how far ahead a row without an end is filled
  MaxSeries,   \* bound: series of the plan
  MaxEdits     \* bound: commands of staff on single lessons

ASSUME PlanAssumption ==
  /\ LastDate \in Nat \ {0} /\ FirstDay \in 1 .. LastDate /\ WeekLength \in Nat \ {0}
  /\ HorizonDays \in Nat /\ MaxSeries \in Nat /\ MaxEdits \in Nat
  /\ Rows \subseteq [weekday : 0 .. WeekLength - 1, time : Nat]
  /\ Ends \subseteq 1 .. LastDate + 1
  /\ Spots \subseteq (1 .. LastDate) \X {row.time : row \in Rows}

VARIABLES
  today,     \* the local date
  plan,      \* app.schedule_plans: its status, active_from and active_until
  series,    \* app.schedule_series of the plan
  lesson,    \* app.lessons of each series, by series_date
  bookings,  \* lessons of no series
  worker,    \* the series whose dates the worker has read
  edits      \* commands of staff so far

vars == <<today, plan, series, lesson, bookings, worker, edits>>

Date == 1 .. LastDate
Times == {row.time : row \in Rows}
Series == DOMAIN series
NoSeries == 0
Open == LastDate + 1   \* no active_until, no valid_until
Idle == [series |-> NoSeries, now |-> 0, dates |-> {}]

\* "scheduled" is untouched, "custom" has its own settlement decision, "pending"
\* waits for staff. "closed" is completed, cancelled, rescheduled to another
\* lesson or an edited one that waits for staff: no plan command touches it.
\* Deleted are "removed", by staff, and "retired", by a change of the plan.
LessonStates ==
  {"none", "scheduled", "custom", "pending", "closed", "removed", "retired"}

\* next is superseded_by.
SeriesRow ==
  [weekday : 0 .. WeekLength - 1, time : Times, from : Date,
   until : Date \cup {Open}, deleted : BOOLEAN, next : 0 .. MaxSeries]

Max(a, b) == IF a > b THEN a ELSE b
WeekdayOf(d) == d % WeekLength

-----------------------------------------------------------------------------
(* What the queries compute, on the tables S and L a transaction sees.     *)

\* The series and those it took over from: the least set that has it and, with
\* each member, the ones it supersedes.
Lineage(S, s) ==
  {t \in DOMAIN S : \A X \in SUBSET DOMAIN S :
     s \in X /\ (\A u \in DOMAIN S : S[u].next \in X => u \in X) => t \in X}

\* Mutant: the predecessors of the series are not looked at.
OccupiedInSeries(S, L, s, replaceable) ==
  {d \in Date :
     L[s][d] # "none" /\ ~(d \in replaceable /\ L[s][d] \in {"retired", "removed"})}

\* The dates taken by any lesson row of the lineage; but those that the same
\* command has just emptied may be filled again.
Occupied(S, L, s, replaceable) ==
  LET lineage == Lineage(S, s)
  IN {d \in Date : \E t \in lineage :
        /\ L[t][d] # "none"
        /\ ~(d \in replaceable /\ L[t][d] \in {"retired", "removed"})}

\* The last date the series is filled to.
FilledTo(row, now) ==
  IF row.until = Open THEN Max(row.from, now) + HorizonDays ELSE row.until

\* seriesConstraintCandidates: the dates to create lessons for.
Candidates(S, L, s, first, now, replaceable) ==
  IF S[s].deleted THEN {}
  ELSE {d \in Date :
          /\ first <= d /\ d <= FilledTo(S[s], now)
          /\ WeekdayOf(d) = S[s].weekday} \ Occupied(S, L, s, replaceable)

\* Places of scheduled lessons: findConflicts sees them, and the constraint
\* lesson_resource_bookings_no_overlap.
Taken(S, L) ==
  bookings \cup {p \in Date \X Times :
    \E s \in DOMAIN S : S[s].time = p[2] /\ L[s][p[1]] \in {"scheduled", "custom"}}

Filled(row, D) == [d \in Date |-> IF d \in D THEN "scheduled" ELSE row[d]]

Free(S, L, s, D) == \A d \in D : <<d, S[s].time>> \notin Taken(S, L)

\* The rows of the plan that count as current, also those that are over.
Current == {s \in Series : ~series[s].deleted /\ series[s].next = NoSeries}

\* expand: a row that has no date is refused.
HasDate(weekday, from, until) ==
  until = Open \/ \E d \in from .. until : WeekdayOf(d) = weekday

-----------------------------------------------------------------------------
TypeOK ==
  /\ today \in Date
  /\ plan \in [status : {"none", "active", "ended"}, from : Date,
               until : Date \cup {Open}]
  /\ series \in Seq(SeriesRow)
  /\ Len(series) <= MaxSeries
  /\ lesson \in [1 .. MaxSeries -> [Date -> LessonStates]]
  /\ bookings \subseteq Spots
  /\ worker \in [series : 0 .. MaxSeries, now : 0 .. LastDate, dates : SUBSET Date]
  /\ edits \in 0 .. MaxEdits

Init ==
  /\ today = FirstDay
  /\ plan = [status |-> "none", from |-> 1, until |-> Open]
  /\ series = << >>
  /\ lesson = [s \in 1 .. MaxSeries |-> [d \in Date |-> "none"]]
  /\ bookings = {}
  /\ worker = Idle
  /\ edits = 0

NextDay ==
  /\ today < LastDate
  /\ today' = today + 1
  /\ UNCHANGED <<plan, series, lesson, bookings, worker, edits>>

-----------------------------------------------------------------------------
(* Commands on the plan.                                                   *)

\* The rows of a command, and the series each continues, if any. No two are the
\* same (assertRows); their order is of no consequence.
RowLists(origins) ==
  LET row == [row : Rows, origin : origins \cup {NoSeries}]
  IN {<<r>> : r \in row} \cup
     {rs \in row \X row :
        /\ \/ rs[1].row.weekday < rs[2].row.weekday
           \/ rs[1].row.weekday = rs[2].row.weekday /\ rs[1].row.time < rs[2].row.time
        /\ rs[1].origin = NoSeries \/ rs[1].origin # rs[2].origin}

NewSeries(row, from, until, next) ==
  [weekday |-> row.weekday, time |-> row.time, from |-> from, until |-> until,
   deleted |-> FALSE, next |-> next]

Added(n) == Len(series) + 1 .. Len(series) + n

\* materializePlanSeries on each added series, from its first date on, past or
\* not; any lesson that collides fails the command.
MaterializeAdded(S, L, added, replaceable) ==
  LET dates(s) == Candidates(S, L, s, S[s].from, today, replaceable[s])
  IN /\ \A s \in added : Free(S, L, s, dates(s))
     /\ series' = S
     /\ lesson' = [s \in 1 .. MaxSeries |-> IF s \in added THEN Filled(L[s], dates(s)) ELSE L[s]]

NothingEmptied == [s \in 1 .. MaxSeries |-> {}]

CreatePlan(rows, from, until) ==
  LET S == [i \in 1 .. Len(rows) |-> NewSeries(rows[i].row, from, until, NoSeries)]
  IN /\ plan.status = "none"
     /\ until >= from /\ Len(rows) <= MaxSeries
     /\ \A i \in DOMAIN rows : HasDate(rows[i].row.weekday, from, until)
     /\ plan' = [status |-> "active", from |-> from, until |-> until]
     /\ MaterializeAdded(S, lesson, Added(Len(rows)), NothingEmptied)
     /\ UNCHANGED <<today, bookings, worker, edits>>

\* A lesson before today that is settled, waits for staff or was edited.
TerminalHistory(from) ==
  \E s \in Current, d \in Date :
    from <= d /\ d < today /\ lesson[s][d] \in {"custom", "pending", "closed"}

\* Mutant: also a series that has not begun gets an end.
ClosedBeforeBegin(row, from, next) ==
  [row EXCEPT !.until = IF @ >= from THEN from - 1 ELSE @,
              !.deleted = @ \/ row.from >= from,
              !.next = next]

\* The row of a series that ends the day before `from`; one that has not begun
\* is deleted.
ClosedBefore(row, from, next) ==
  [row EXCEPT !.until = IF @ >= from /\ row.from < from THEN from - 1 ELSE @,
              !.deleted = @ \/ row.from >= from,
              !.next = next]

\* Mutant: the lesson of the first day stays.
EmptiedAfter(s, from) == {d \in Date : d > from /\ lesson[s][d] = "scheduled"}

Emptied(s, from) == {d \in Date : d >= from /\ lesson[s][d] = "scheduled"}

Retired(row, D) == [d \in Date |-> IF d \in D THEN "retired" ELSE row[d]]

\* assertSchedulePlanEditOutsidePrefix: the earliest current row has begun. The
\* others need not have, and a dropped row stays current.
AfterBegin(from) == \E s \in Current : series[s].from <= from

\* replace_from: every current row ends, with the row that continues it, if one
\* does, and its untouched lessons; each new row is filled.
ReplaceFrom(rows, from, until) ==
  LET ending == Current
      continuation(s) ==
        IF \E i \in DOMAIN rows : rows[i].origin = s
        THEN Len(series) + (CHOOSE i \in DOMAIN rows : rows[i].origin = s)
        ELSE NoSeries
      S == [s \in Series |-> IF s \in ending
                             THEN ClosedBefore(series[s], from, continuation(s))
                             ELSE series[s]]
           \o [i \in DOMAIN rows |-> NewSeries(rows[i].row, from, until, NoSeries)]
      L == [s \in 1 .. MaxSeries |->
              IF s \in ending THEN Retired(lesson[s], Emptied(s, from)) ELSE lesson[s]]
      emptied == [s \in Added(Len(rows)) |->
        LET origin == rows[s - Len(series)].origin
        IN IF origin = NoSeries THEN {} ELSE Emptied(origin, from)]
  IN /\ plan.status = "active"
     /\ until >= from /\ from >= plan.from
     /\ Len(series) + Len(rows) <= MaxSeries
     /\ \A i \in DOMAIN rows :
          /\ rows[i].origin \in ending \cup {NoSeries}
          /\ HasDate(rows[i].row.weekday, from, until)
     /\ AfterBegin(from)
     /\ ~TerminalHistory(from)
     /\ plan' = [plan EXCEPT !.until = until]
     /\ MaterializeAdded(S, L, Added(Len(rows)), emptied)
     /\ UNCHANGED <<today, bookings, worker, edits>>

Distinct(S) ==
  \A s, t \in S : s # t => <<series[s].weekday, series[s].time>>
                             # <<series[t].weekday, series[t].time>>

\* A prefix for each of these rows; their order is of no consequence.
Prefixes(order, from) ==
  [i \in DOMAIN order |-> NewSeries(series[order[i]], from, plan.from - 1, order[i])]

\* extend_backwards: the rows as they are, from an earlier start on. A prefix
\* is filled before each.
ExtendBackwards(from) ==
  /\ plan.status = "active"
  /\ from < plan.from
  /\ Distinct(Current)
  /\ \A s \in Current : HasDate(series[s].weekday, from, plan.from - 1)
  /\ plan' = [plan EXCEPT !.from = from]
  /\ \E n \in 1 .. MaxSeries - Len(series) : \E order \in [1 .. n -> Current] :
       /\ \A s \in Current : \E i \in 1 .. n : order[i] = s
       /\ \A i, j \in 1 .. n : i < j => order[i] < order[j]
       /\ MaterializeAdded(series \o Prefixes(order, from), lesson, Added(n), NothingEmptied)
  /\ UNCHANGED <<today, bookings, worker, edits>>

\* isSimpleStartMove: the plan was never changed.
Unchanged ==
  \A s \in Series : s \in Current /\ series[s].from = plan.from

\* move_start_forward: the rows as they are, from a later start on. It is
\* refused when any lesson before that is not as it was created.
MoveStartForward(from) ==
  /\ plan.status = "active"
  /\ from > plan.from /\ from <= plan.until
  /\ Unchanged
  /\ \A s \in Series, d \in plan.from .. from - 1 : lesson[s][d] \in {"none", "scheduled"}
  /\ \A s \in Series : HasDate(series[s].weekday, from, plan.until)
  /\ lesson' = [s \in 1 .. MaxSeries |->
                  Retired(lesson[s], {d \in Emptied(s, plan.from) : d < from})]
  /\ series' = [s \in Series |-> [series[s] EXCEPT !.from = from]]
  /\ plan' = [plan EXCEPT !.from = from]
  /\ UNCHANGED <<today, bookings, worker, edits>>

\* cancelEligible: untouched lessons of these series from a date on.
Cancelled(ending, from) ==
  [s \in 1 .. MaxSeries |-> [d \in Date |->
     IF s \in ending /\ d >= from /\ lesson[s][d] \in {"scheduled", "pending"}
     THEN "closed" ELSE lesson[s][d]]]

\* finish: the plan and its current rows end with the date.
Finish(last) ==
  /\ plan' = [plan EXCEPT !.status = "ended", !.until = last]
  /\ series' = [s \in Series |->
       IF s \in Current THEN ClosedBefore(series[s], last + 1, NoSeries) ELSE series[s]]

EndPlan(last) ==
  /\ plan.status = "active"
  /\ last >= plan.from /\ last >= today
  /\ Finish(last)
  /\ lesson' = Cancelled(Current, last + 1)
  /\ UNCHANGED <<today, bookings, worker, edits>>

\* Removing the only current row ends the plan.
RemoveRow(s, from) ==
  /\ plan.status = "active"
  /\ s \in Current
  /\ from >= Max(series[s].from, today) /\ from <= series[s].until
  /\ IF Current = {s}
     THEN Finish(Max(plan.from, from - 1))
     ELSE /\ series' = [series EXCEPT ![s] = ClosedBefore(@, from, NoSeries)]
          /\ UNCHANGED plan
  /\ lesson' = Cancelled({s}, from)
  /\ UNCHANGED <<today, bookings, worker, edits>>

-----------------------------------------------------------------------------
(* Commands of staff and the settlement of single lessons.                 *)

Edit ==
  /\ edits < MaxEdits
  /\ edits' = edits + 1
  /\ UNCHANGED <<today, plan, series, worker>>

SetLesson(s, d, states, state) ==
  /\ lesson[s][d] \in states
  /\ lesson' = [lesson EXCEPT ![s][d] = state]

\* A settlement decision of its own.
EditDecision(s, d) ==
  SetLesson(s, d, {"scheduled"}, "custom") /\ Edit /\ UNCHANGED bookings

CancelLesson(s, d) ==
  /\ SetLesson(s, d, {"scheduled", "custom", "pending"}, "closed")
  /\ Edit /\ UNCHANGED bookings

\* The lesson moves to another place, as a lesson of no series.
Reschedule(s, d, place) ==
  /\ place[1] >= today /\ place \notin Taken(series, lesson)
  /\ SetLesson(s, d, {"scheduled", "custom"}, "closed")
  /\ bookings' = bookings \cup {place}
  /\ Edit

DeleteLesson(s, d) ==
  /\ \/ SetLesson(s, d, {"scheduled", "custom"}, "removed")
     \/ SetLesson(s, d, {"pending"}, "closed")
  /\ Edit /\ UNCHANGED bookings

Book(place) ==
  /\ place[1] >= today /\ place \notin Taken(series, lesson)
  /\ bookings' = bookings \cup {place}
  /\ Edit /\ UNCHANGED lesson

Unbook(place) ==
  /\ place \in bookings
  /\ bookings' = bookings \ {place}
  /\ UNCHANGED <<today, plan, series, lesson, worker, edits>>

\* The completion worker settles a lesson that is over, or leaves it to staff.
Settle(s, d) ==
  /\ d <= today
  /\ \/ SetLesson(s, d, {"scheduled", "custom", "pending"}, "closed")
     \/ SetLesson(s, d, {"scheduled"}, "pending")
  /\ Edit /\ UNCHANGED bookings

-----------------------------------------------------------------------------
(* extendAllSeriesHorizon: one transaction for each series.                *)

Listed == {s \in Series : ~series[s].deleted /\ series[s].until >= today}

\* A transaction takes a series that is listed and has dates to fill; with none
\* it has nothing to do, for dates never come back. Its own date stays.
ReadCandidates(s) ==
  LET dates == Candidates(series, lesson, s, Max(series[s].from, today), today, {})
  IN /\ worker = Idle
     /\ s \in Listed /\ dates # {}
     /\ worker' = [series |-> s, now |-> today, dates |-> dates]
     /\ UNCHANGED <<today, plan, series, lesson, bookings, edits>>

\* Mutant: the dates read before the locks are used.
ToCreateAsRead(s, now) == worker.dates

\* The dates read again under the locks.
ToCreate(s, now) ==
  Candidates(series, lesson, s, Max(series[s].from, now), now, {})

\* Any lesson that collides fails the transaction, and the series waits for the
\* next tick.
MaterializeSeries ==
  LET s == worker.series
      dates == ToCreate(s, worker.now)
  IN /\ worker # Idle
     /\ lesson' = IF Free(series, lesson, s, dates)
                  THEN [lesson EXCEPT ![s] = Filled(@, dates)]
                  ELSE lesson
     /\ worker' = Idle
     /\ UNCHANGED <<today, plan, series, bookings, edits>>

Worker == MaterializeSeries \/ \E s \in Series : ReadCandidates(s)

-----------------------------------------------------------------------------
PlanCommand ==
  \/ /\ plan.status = "none"
     /\ \E from \in Date, until \in Ends, rows \in RowLists({}) :
          CreatePlan(rows, from, until)
  \/ /\ plan.status = "active"
     /\ \/ \E from \in Date, until \in Ends, rows \in RowLists(Current) :
             ReplaceFrom(rows, from, until)
        \/ \E from \in Date : ExtendBackwards(from) \/ MoveStartForward(from)
        \/ \E last \in Date : EndPlan(last)
        \/ \E s \in Series, from \in Date : RemoveRow(s, from)

LessonCommand ==
  \/ \E s \in Series, d \in Date :
       \/ EditDecision(s, d) \/ CancelLesson(s, d) \/ DeleteLesson(s, d) \/ Settle(s, d)
       \/ \E place \in Spots : Reschedule(s, d, place)
  \/ \E place \in Spots : Book(place) \/ Unbook(place)

Next == NextDay \/ PlanCommand \/ LessonCommand \/ Worker

Spec == Init /\ [][Next]_vars

-----------------------------------------------------------------------------
\* What became of a date of the series, unless a change of the plan undid it.
Fact(L, s, d) == L[s][d] \notin {"none", "retired"}

OneFact(S, L, s) ==
  \A t, u \in Lineage(S, s), d \in Date : Fact(L, t, d) /\ Fact(L, u, d) => t = u

\* No member of the lineage was continued from a date before it had begun.
InOrder(S, s) ==
  \A t \in Lineage(S, s) : S[t].next \in Lineage(S, s) => S[t].from <= S[S[t].next].from

\* A date of a row has one lesson at most, whatever became of it: staff who
\* cancelled, moved, edited, settled or deleted a lesson do not find another in
\* its place, after any changes of the plan and whatever the worker had read
\* (schedule-plan.repository.ts:1078-1080).
OneFactPerDate == \A s \in Series : OneFact(series, lesson, s)

\* Where that can fail is known: only in a lineage with a row that was continued
\* from a date before it had begun.
SecondFactOnlyOutOfOrder ==
  \A s \in Series : OneFact(series, lesson, s) \/ ~InOrder(series, s)

\* No untouched lesson outlives its row: one that was changed, removed or moved
\* has none after its end or before its start, the worker's late ones included.
LessonsWithinSeries ==
  \A s \in Series, d \in Date : lesson[s][d] = "scheduled" =>
    /\ ~series[s].deleted
    /\ series[s].from <= d /\ d <= series[s].until
    /\ WeekdayOf(d) = series[s].weekday

\* A change from some date on: the series it adds begin then.
Change ==
  /\ plan.status = "active" /\ plan' = [plan EXCEPT !.until = plan'.until]
  /\ Len(series') > Len(series)

\* The row, and those it was continued from and prefixed with, have no untouched
\* lesson left from the date of the change on.
Replaced(s) ==
  \A t \in Lineage(series, s), d \in series'[Len(series')].from .. LastDate :
    lesson'[t][d] # "scheduled"

\* A change is in force from its date on: it closes the old rows the day before
\* (docs/audits/v7-schedule-plan-aggregate.md:12).
ChangeTakesEffect == [][Change => \A s \in Current : Replaced(s)]_vars

\* It is, of every row that has begun by then and was never continued from a date
\* before it had begun, whatever else the change replaces.
BegunRowsAreReplaced ==
  [][Change => \A s \in Current :
       series[s].from <= series'[Len(series')].from /\ InOrder(series, s) => Replaced(s)]_vars

\* When a plan has ended, no lesson of it is still to be given after its last
\* date (CURRENT-PRODUCT-RULES.md:327-330).
EndedIsQuiet ==
  plan.status = "ended" =>
    \A s \in Series, d \in Date : d > plan.until => lesson[s][d] # "scheduled"

\* A plan that is not over has a row that is not over.
ActiveHasRows ==
  plan.status = "active" /\ plan.until >= today =>
    \E s \in Series : ~series[s].deleted /\ series[s].until >= today

\* No date of a row in force stays empty because of a lesson that an earlier
\* change of the plan deleted.
NoGaps ==
  plan.status = "active" =>
    \A s \in Current, d \in Date :
      series[s].from <= d /\ d <= FilledTo(series[s], today) /\ WeekdayOf(d) = series[s].weekday =>
        ~ /\ \E t \in Lineage(series, s) : lesson[t][d] = "retired"
          /\ \A t \in Lineage(series, s) : lesson[t][d] \in {"none", "retired"}
=============================================================================
