-------------------------- MODULE SchedulePlanProofs --------------------------
(***************************************************************************)
(* Theorems about SchedulePlan, for any number of dates, rows, series and  *)
(* commands: no untouched lesson lies outside the dates of its series; a   *)
(* date has lessons of two series of a row only where the row was          *)
(* continued from a date before it had begun; and but for such rows, a     *)
(* change is in force from its date on.                                    *)
(***************************************************************************)
EXTENDS SchedulePlan, TLAPS

Within(row, d) ==
  /\ ~row.deleted
  /\ row.from <= d /\ d <= row.until
  /\ WeekdayOf(d) = row.weekday

\* A series that was not added yet has no lesson, so that the dates it is filled
\* with are all that it has.
UnusedIsEmpty ==
  \A s \in 1 .. MaxSeries, d \in Date : s > Len(series) => lesson[s][d] # "scheduled"

\* What the worker has read is of a series that exists.
WorkerReadSeries == worker.series \in Series \cup {NoSeries}

NoPlanNoSeries == plan.status = "none" => series = << >>

SeriesInv ==
  /\ TypeOK
  /\ LessonsWithinSeries
  /\ UnusedIsEmpty
  /\ WorkerReadSeries
  /\ NoPlanNoSeries

Lessons == [1 .. MaxSeries -> [Date -> LessonStates]]

LEMMA InitSeriesInv == Init => SeriesInv
  <1> SUFFICES ASSUME Init PROVE SeriesInv
    OBVIOUS
  <1> USE PlanAssumption
  <1>1. TypeOK
    BY DEF Init, TypeOK, Date, Open, LessonStates, Idle, NoSeries, SeriesRow
  <1>2. LessonsWithinSeries /\ UnusedIsEmpty /\ WorkerReadSeries /\ NoPlanNoSeries
    BY DEF Init, LessonsWithinSeries, UnusedIsEmpty, WorkerReadSeries, NoPlanNoSeries,
           Idle, NoSeries, Series
  <1> QED
    BY <1>1, <1>2 DEF SeriesInv

-----------------------------------------------------------------------------
(* Filling series with dates.                                              *)

\* seriesConstraintCandidates yields dates of the series it is called for.
LEMMA CandidatesWithin ==
  ASSUME NEW S \in Seq(SeriesRow), NEW L, NEW s \in DOMAIN S, NEW first, NEW now, NEW R,
         S[s].from <= first, first \in Int
  PROVE  /\ Candidates(S, L, s, first, now, R) \subseteq Date
         /\ \A d \in Candidates(S, L, s, first, now, R) : Within(S[s], d)
  <1>1. S[s] \in SeriesRow
    OBVIOUS
  <1> SUFFICES ASSUME NEW d \in Candidates(S, L, s, first, now, R)
               PROVE  d \in Date /\ Within(S[s], d)
    OBVIOUS
  <1>2. /\ ~S[s].deleted /\ d \in Date
        /\ first <= d /\ d <= FilledTo(S[s], now)
        /\ WeekdayOf(d) = S[s].weekday
    BY DEF Candidates
  <1>3. S[s].from <= d
    BY <1>1, <1>2, PlanAssumption DEF Date, SeriesRow
  <1>4. d <= S[s].until
    <2>1. CASE S[s].until = Open
      BY <2>1, <1>2, PlanAssumption DEF Date, Open
    <2>2. CASE S[s].until # Open
      BY <2>2, <1>2 DEF FilledTo
    <2> QED
      BY <2>1, <2>2
  <1> QED
    BY <1>2, <1>3, <1>4 DEF Within

\* A command that leaves the lessons of the series there were within their dates
\* has them all within, once it has filled those it adds.
LEMMA MaterializedWithin ==
  ASSUME TypeOK,
         NEW S \in Seq(SeriesRow), Len(S) <= MaxSeries,
         NEW n \in Nat, Len(S) = Len(series) + n,
         NEW L \in Lessons, NEW R,
         \A s \in Series, d \in Date : L[s][d] = "scheduled" => Within(S[s], d),
         \A s \in 1 .. MaxSeries, d \in Date : s > Len(series) => L[s][d] # "scheduled",
         MaterializeAdded(S, L, Added(n), R)
  PROVE  /\ series' = S /\ lesson' \in Lessons
         /\ LessonsWithinSeries' /\ UnusedIsEmpty'
  <1> DEFINE dates(s) == Candidates(S, L, s, S[s].from, today, R[s])
  <1>1. /\ series' = S
        /\ lesson' = [s \in 1 .. MaxSeries |->
                        IF s \in Added(n) THEN Filled(L[s], dates(s)) ELSE L[s]]
    BY DEF MaterializeAdded
  <1>2. Len(series) \in Nat /\ Len(S) \in Nat /\ MaxSeries \in Nat
        /\ Series = 1 .. Len(series) /\ DOMAIN S = 1 .. Len(S)
    BY PlanAssumption DEF TypeOK, Series
  <1>3. ASSUME NEW s \in Added(n)
        PROVE  s \in DOMAIN S /\ s \in 1 .. MaxSeries /\ s > Len(series)
    BY <1>2 DEF Added
  <1>4. ASSUME NEW s \in Added(n)
        PROVE  \A d \in dates(s) : Within(S[s], d)
    <2>1. s \in DOMAIN S /\ S[s] \in SeriesRow
      BY <1>3
    <2>3. S[s].from \in Int
      BY <2>1, PlanAssumption DEF SeriesRow, Date
    <2>4. S[s].from <= S[s].from
      BY <2>3
    <2> HIDE DEF dates
    <2>2. \A d \in Candidates(S, L, s, S[s].from, today, R[s]) : Within(S[s], d)
      BY <2>1, <2>3, <2>4, CandidatesWithin
    <2> QED
      BY <2>2 DEF dates
  <1> HIDE DEF dates
  <1>5. \A s \in 1 .. MaxSeries : lesson'[s] \in [Date -> LessonStates]
    BY <1>1 DEF Lessons, Filled, LessonStates
  <1>6. lesson' \in Lessons
    BY <1>1, <1>5 DEF Lessons
  <1>7. ASSUME NEW s \in DOMAIN S, NEW d \in Date, lesson'[s][d] = "scheduled"
        PROVE  Within(S[s], d)
    <2>1. s \in 1 .. MaxSeries
      BY <1>2
    <2>2. CASE s \in Added(n)
      <3>1. L[s][d] # "scheduled"
        BY <1>3, <2>2
      <3>2. lesson'[s][d] = IF d \in dates(s) THEN "scheduled" ELSE L[s][d]
        BY <1>1, <2>1, <2>2 DEF Filled
      <3> QED
        BY <1>4, <1>7, <2>2, <3>1, <3>2
    <2>3. CASE s \notin Added(n)
      <3>1. s \in Series
        BY <1>2, <2>3 DEF Added
      <3> QED
        BY <1>1, <1>7, <2>1, <2>3, <3>1
    <2> QED
      BY <2>2, <2>3
  <1>8. LessonsWithinSeries'
    BY <1>1, <1>7 DEF LessonsWithinSeries, Within, Series
  <1>9. UnusedIsEmpty'
    <2> SUFFICES ASSUME NEW s \in 1 .. MaxSeries, NEW d \in Date, s > Len(S)
                 PROVE  lesson'[s][d] # "scheduled"
      BY <1>1 DEF UnusedIsEmpty
    <2>1. s \notin Added(n) /\ s > Len(series)
      BY <1>2 DEF Added
    <2> QED
      BY <1>1, <2>1
  <1> QED
    BY <1>1, <1>6, <1>8, <1>9
-----------------------------------------------------------------------------
(* Commands on the plan.                                                   *)

\* The rows of a command are one or two of the possible ones.
LEMMA RowListFacts ==
  ASSUME NEW origins, NEW rows \in RowLists(origins)
  PROVE  /\ rows \in Seq([row : Rows, origin : origins \cup {NoSeries}])
         /\ Len(rows) \in Nat /\ DOMAIN rows = 1 .. Len(rows)
         /\ \A i \in DOMAIN rows : rows[i].row \in Rows
  <1> DEFINE R == [row : Rows, origin : origins \cup {NoSeries}]
  <1>1. rows \in {<<r>> : r \in R} \/ rows \in R \X R
    BY DEF RowLists
  <1>2. rows \in Seq(R)
    <2>1. CASE rows \in {<<r>> : r \in R}
      <3>1. PICK r \in R : rows = <<r>>
        BY <2>1
      <3> HIDE DEF R
      <3> QED
        BY <3>1
    <2>2. CASE rows \in R \X R
      <3>1. PICK r \in R, t \in R : rows = <<r, t>>
        BY <2>2
      <3> HIDE DEF R
      <3> QED
        BY <3>1
    <2> QED
      BY <1>1, <2>1, <2>2
  <1>3. Len(rows) \in Nat /\ DOMAIN rows = 1 .. Len(rows)
    <2> HIDE DEF R
    <2> QED
      BY <1>2
  <1>4. \A i \in DOMAIN rows : rows[i] \in R
    <2> HIDE DEF R
    <2> QED
      BY <1>2, <1>3
  <1>5. \A r \in R : r.row \in Rows
    OBVIOUS
  <1> QED
    BY <1>2, <1>3, <1>4, <1>5

LEMMA NewSeriesType ==
  ASSUME NEW row \in Rows, NEW from \in Date, NEW until \in Date \cup {Open},
         NEW next \in 0 .. MaxSeries
  PROVE  NewSeries(row, from, until, next) \in SeriesRow
  BY PlanAssumption DEF NewSeries, SeriesRow, Times

LEMMA CreateWithin ==
  ASSUME SeriesInv, NEW from \in Date, NEW until \in Ends, NEW rows \in RowLists({}),
         CreatePlan(rows, from, until)
  PROVE  SeriesInv'
  <1> DEFINE S == [i \in 1 .. Len(rows) |-> NewSeries(rows[i].row, from, until, NoSeries)]
  <1>1. /\ Len(rows) \in Nat /\ DOMAIN rows = 1 .. Len(rows)
        /\ \A i \in 1 .. Len(rows) : rows[i].row \in Rows
    BY RowListFacts
  <1>2. until \in Date \cup {Open} /\ NoSeries \in 0 .. MaxSeries
    BY PlanAssumption DEF Date, Open, NoSeries
  <1>3. S \in Seq(SeriesRow) /\ Len(S) = Len(rows)
    <2>1. \A i \in 1 .. Len(rows) : NewSeries(rows[i].row, from, until, NoSeries) \in SeriesRow
      BY <1>1, <1>2, NewSeriesType
    <2> QED
      BY <1>1, <2>1
  <1>4. /\ plan.status = "none"
        /\ Len(rows) <= MaxSeries
        /\ plan' = [status |-> "active", from |-> from, until |-> until]
        /\ MaterializeAdded(S, lesson, Added(Len(rows)), NothingEmptied)
        /\ UNCHANGED <<today, bookings, worker, edits>>
    BY <1>1 DEF CreatePlan
  <1>5. series = << >> /\ Len(series) = 0 /\ Series = {}
    BY <1>4 DEF SeriesInv, NoPlanNoSeries, Series
  <1>6. TypeOK /\ lesson \in Lessons /\ UnusedIsEmpty
    BY DEF SeriesInv, TypeOK, Lessons
  <1> HIDE DEF S
  <1>7. /\ series' = S /\ lesson' \in Lessons
        /\ LessonsWithinSeries' /\ UnusedIsEmpty'
    <2>1. Len(S) <= MaxSeries /\ Len(S) = Len(series) + Len(rows)
      BY <1>1, <1>3, <1>4, <1>5
    <2>2. \A s \in 1 .. MaxSeries, d \in Date : s > Len(series) => lesson[s][d] # "scheduled"
      BY <1>6 DEF UnusedIsEmpty
    <2>3. \A s \in Series, d \in Date : lesson[s][d] = "scheduled" => Within(S[s], d)
      BY <1>5
    <2> QED
      BY <1>1, <1>3, <1>4, <1>6, <2>1, <2>2, <2>3, MaterializedWithin
  <1>8. TypeOK'
    BY <1>2, <1>3, <1>4, <1>6, <1>7 DEF TypeOK, Lessons
  <1>9. WorkerReadSeries'
    BY <1>4, <1>5 DEF SeriesInv, WorkerReadSeries, NoSeries, Series
  <1>10. NoPlanNoSeries'
    BY <1>4 DEF NoPlanNoSeries
  <1> QED
    BY <1>7, <1>8, <1>9, <1>10 DEF SeriesInv

\* A series that is closed before a date keeps what it has before that date.
LEMMA ClosedBeforeKeeps ==
  ASSUME NEW row \in SeriesRow, NEW from \in Date \cup {Open}, NEW next \in 0 .. MaxSeries
  PROVE  /\ ClosedBefore(row, from, next) \in SeriesRow
         /\ \A d \in Date : d < from /\ Within(row, d) => Within(ClosedBefore(row, from, next), d)
  <1> DEFINE new == ClosedBefore(row, from, next)
  <1>1. /\ row.from \in Date /\ row.until \in Date \cup {Open} /\ row.deleted \in BOOLEAN
        /\ row.weekday \in 0 .. WeekLength - 1
    BY DEF SeriesRow
  <1>2. new = [row EXCEPT
                 !.until = IF row.until >= from /\ row.from < from THEN from - 1 ELSE row.until,
                 !.deleted = row.deleted \/ row.from >= from,
                 !.next = next]
    BY DEF ClosedBefore
  <1>3. /\ new.from = row.from /\ new.weekday = row.weekday
        /\ new.until = IF row.until >= from /\ row.from < from THEN from - 1 ELSE row.until
        /\ new.deleted = (row.deleted \/ row.from >= from)
    BY <1>2 DEF SeriesRow
  <1>4. row.from < from => from - 1 \in Date
    BY <1>1, PlanAssumption DEF Date, Open
  <1>5. new \in SeriesRow
    <2>1. (IF row.until >= from /\ row.from < from THEN from - 1 ELSE row.until) \in Date \cup {Open}
      BY <1>1, <1>4
    <2>2. (row.deleted \/ row.from >= from) \in BOOLEAN
      OBVIOUS
    <2> QED
      BY <1>2, <2>1, <2>2 DEF SeriesRow
  <1>6. ASSUME NEW d \in Date, d < from, Within(row, d)
        PROVE  Within(new, d)
    <2>1. ~row.deleted /\ row.from <= d /\ d <= row.until /\ WeekdayOf(d) = row.weekday
      BY <1>6 DEF Within
    <2>2. row.from < from /\ d <= from - 1
      BY <1>1, <1>6, <2>1, PlanAssumption DEF Date, Open
    <2> HIDE DEF new
    <2>3. d <= new.until
      BY <1>3, <2>1, <2>2
    <2>4. ~new.deleted
      BY <1>1, <1>3, <2>1, <2>2, PlanAssumption DEF Date, Open
    <2> QED
      BY <1>3, <2>1, <2>3, <2>4 DEF Within
  <1> QED
    BY <1>5, <1>6

LEMMA Appended ==
  ASSUME NEW old \in Seq(SeriesRow), NEW added \in Seq(SeriesRow)
  PROVE  /\ old \o added \in Seq(SeriesRow)
         /\ Len(old \o added) = Len(old) + Len(added)
         /\ \A s \in 1 .. Len(old) : (old \o added)[s] = old[s]
  OBVIOUS

LEMMA ReplaceWithin ==
  ASSUME SeriesInv, NEW from \in Date, NEW until \in Ends, NEW rows \in RowLists(Current),
         ReplaceFrom(rows, from, until)
  PROVE  SeriesInv'
  <1> DEFINE continuation(s) ==
               IF \E i \in DOMAIN rows : rows[i].origin = s
               THEN Len(series) + (CHOOSE i \in DOMAIN rows : rows[i].origin = s)
               ELSE NoSeries
             old == [s \in Series |-> IF s \in Current
                                      THEN ClosedBefore(series[s], from, continuation(s))
                                      ELSE series[s]]
             added == [i \in DOMAIN rows |-> NewSeries(rows[i].row, from, until, NoSeries)]
             L == [s \in 1 .. MaxSeries |->
                     IF s \in Current THEN Retired(lesson[s], Emptied(s, from)) ELSE lesson[s]]
             emptied == [s \in Added(Len(rows)) |->
               LET origin == rows[s - Len(series)].origin
               IN IF origin = NoSeries THEN {} ELSE Emptied(origin, from)]
  <1>1. /\ plan.status = "active"
        /\ Len(series) + Len(rows) <= MaxSeries
        /\ plan' = [plan EXCEPT !.until = until]
        /\ MaterializeAdded(old \o added, L, Added(Len(rows)), emptied)
        /\ UNCHANGED <<today, bookings, worker, edits>>
    BY DEF ReplaceFrom
  <1>2. TypeOK /\ LessonsWithinSeries /\ UnusedIsEmpty /\ WorkerReadSeries
    BY DEF SeriesInv
  <1>3. /\ series \in Seq(SeriesRow) /\ Series = 1 .. Len(series) /\ Len(series) \in Nat
        /\ lesson \in Lessons /\ Current \subseteq Series /\ MaxSeries \in Nat
    BY <1>2, PlanAssumption DEF TypeOK, Series, Lessons, Current
  <1>4. /\ Len(rows) \in Nat /\ DOMAIN rows = 1 .. Len(rows)
        /\ \A i \in 1 .. Len(rows) : rows[i].row \in Rows
    BY RowListFacts
  <1>5. until \in Date \cup {Open} /\ NoSeries \in 0 .. MaxSeries
    BY PlanAssumption DEF Date, Open, NoSeries
  <1>6. \A s \in Series : continuation(s) \in 0 .. MaxSeries
    BY <1>1, <1>3, <1>4, <1>5
  <1>7. \A s \in Series : old[s] \in SeriesRow
    <2> SUFFICES ASSUME NEW s \in Series PROVE old[s] \in SeriesRow
      OBVIOUS
    <2>1. series[s] \in SeriesRow /\ continuation(s) \in 0 .. MaxSeries
      BY <1>3, <1>6
    <2> HIDE DEF continuation
    <2>2. ClosedBefore(series[s], from, continuation(s)) \in SeriesRow
      BY <2>1, ClosedBeforeKeeps
    <2> QED
      BY <2>1, <2>2
  <1>8. old \in Seq(SeriesRow) /\ Len(old) = Len(series)
    <2> HIDE DEF continuation
    <2>1. old = [s \in 1 .. Len(series) |-> old[s]]
      BY <1>3
    <2> HIDE DEF old
    <2> QED
      BY <1>3, <1>7, <2>1
  <1>9. added \in Seq(SeriesRow) /\ Len(added) = Len(rows)
    <2>1. \A i \in 1 .. Len(rows) : NewSeries(rows[i].row, from, until, NoSeries) \in SeriesRow
      BY <1>4, <1>5, NewSeriesType
    <2> QED
      BY <1>4, <2>1
  <1>10. L \in Lessons
    BY <1>3 DEF Lessons, Retired, LessonStates
  <1>11. ASSUME NEW s \in Series, NEW d \in Date, L[s][d] = "scheduled"
         PROVE  Within(old[s], d)
    <2>1. s \in 1 .. MaxSeries /\ series[s] \in SeriesRow /\ continuation(s) \in 0 .. MaxSeries
      <3>1. s \in 1 .. MaxSeries /\ series[s] \in SeriesRow
        BY <1>2, <1>3 DEF TypeOK
      <3> HIDE DEF continuation
      <3> QED
        BY <1>6, <3>1
    <2>2. CASE s \in Current
      <3>1. lesson[s][d] = "scheduled" /\ d \notin Emptied(s, from)
        BY <1>11, <2>1, <2>2 DEF Retired
      <3>2. d < from
        BY <3>1, PlanAssumption DEF Emptied, Date
      <3>3. Within(series[s], d)
        BY <1>2, <3>1 DEF LessonsWithinSeries, Within
      <3> HIDE DEF continuation
      <3>4. Within(ClosedBefore(series[s], from, continuation(s)), d)
        BY <2>1, <3>2, <3>3, ClosedBeforeKeeps
      <3> QED
        BY <2>2, <3>4
    <2>3. CASE s \notin Current
      <3>1. lesson[s][d] = "scheduled"
        BY <1>11, <2>1, <2>3
      <3> HIDE DEF continuation
      <3> QED
        BY <1>2, <2>3, <3>1 DEF LessonsWithinSeries, Within
    <2> QED
      BY <2>2, <2>3
  <1>12. ASSUME NEW s \in 1 .. MaxSeries, NEW d \in Date, s > Len(series)
         PROVE  L[s][d] # "scheduled"
    BY <1>2, <1>3, <1>12 DEF UnusedIsEmpty
  <1> HIDE DEF continuation, old, added, L, emptied
  <1>13. /\ old \o added \in Seq(SeriesRow)
         /\ Len(old \o added) = Len(series) + Len(rows)
         /\ \A s \in Series : (old \o added)[s] = old[s]
    BY <1>3, <1>8, <1>9, Appended
  <1>14. /\ series' = old \o added /\ lesson' \in Lessons
         /\ LessonsWithinSeries' /\ UnusedIsEmpty'
    <2>1. Len(old \o added) <= MaxSeries
      BY <1>1, <1>13
    <2>2. \A s \in Series, d \in Date : L[s][d] = "scheduled" => Within((old \o added)[s], d)
      BY <1>11, <1>13
    <2>3. \A s \in 1 .. MaxSeries, d \in Date : s > Len(series) => L[s][d] # "scheduled"
      BY <1>12
    <2> QED
      BY <1>1, <1>2, <1>4, <1>10, <1>13, <2>1, <2>2, <2>3, MaterializedWithin
  <1>15. TypeOK'
    BY <1>1, <1>2, <1>5, <1>13, <1>14 DEF TypeOK, Lessons
  <1>16. WorkerReadSeries'
    BY <1>1, <1>2, <1>3, <1>4, <1>13, <1>14 DEF WorkerReadSeries, Series, NoSeries
  <1>17. NoPlanNoSeries'
    BY <1>1, <1>2 DEF NoPlanNoSeries, TypeOK
  <1> QED
    BY <1>14, <1>15, <1>16, <1>17 DEF SeriesInv

LEMMA ExtendWithin ==
  ASSUME SeriesInv, NEW from \in Date, ExtendBackwards(from)
  PROVE  SeriesInv'
  <1>1. /\ plan.status = "active" /\ from < plan.from
        /\ plan' = [plan EXCEPT !.from = from]
        /\ UNCHANGED <<today, bookings, worker, edits>>
    BY DEF ExtendBackwards
  <1>0. PICK n \in 1 .. MaxSeries - Len(series) : \E order \in [1 .. n -> Current] :
          MaterializeAdded(series \o Prefixes(order, from), lesson, Added(n), NothingEmptied)
    BY DEF ExtendBackwards
  <1>2. PICK order \in [1 .. n -> Current] :
          MaterializeAdded(series \o Prefixes(order, from), lesson, Added(n), NothingEmptied)
    BY <1>0
  <1> DEFINE S == series \o Prefixes(order, from)
  <1>3. TypeOK /\ LessonsWithinSeries /\ UnusedIsEmpty /\ WorkerReadSeries
    BY DEF SeriesInv
  <1>4. /\ series \in Seq(SeriesRow) /\ Series = 1 .. Len(series) /\ Len(series) \in Nat
        /\ Len(series) <= MaxSeries /\ lesson \in Lessons
        /\ MaxSeries \in Nat /\ n \in Nat
    BY <1>3, PlanAssumption DEF TypeOK, Series, Lessons
  <1>5. plan.from - 1 \in Date
    BY <1>1, <1>3, PlanAssumption DEF TypeOK, Date
  <1>6. \A i \in 1 .. n : /\ order[i] \in 0 .. MaxSeries
                          /\ series[order[i]] \in SeriesRow
    BY <1>3, <1>4 DEF Current, TypeOK
  <1>7. \A i \in 1 .. n :
          NewSeries(series[order[i]], from, plan.from - 1, order[i]) \in SeriesRow
    BY <1>5, <1>6 DEF NewSeries, SeriesRow
  <1>8. Prefixes(order, from) \in Seq(SeriesRow) /\ Len(Prefixes(order, from)) = n
    <2>1. Prefixes(order, from)
            = [i \in 1 .. n |-> NewSeries(series[order[i]], from, plan.from - 1, order[i])]
      BY DEF Prefixes
    <2> QED
      BY <1>4, <1>7, <2>1
  <1>9. /\ S \in Seq(SeriesRow) /\ Len(S) = Len(series) + n
        /\ \A s \in Series : S[s] = series[s]
    BY <1>4, <1>8, Appended
  <1> HIDE DEF S
  <1>10. /\ series' = S /\ lesson' \in Lessons
         /\ LessonsWithinSeries' /\ UnusedIsEmpty'
    <2>1. MaterializeAdded(S, lesson, Added(n), NothingEmptied)
      BY <1>2 DEF S
    <2>2. Len(S) <= MaxSeries
      BY <1>4, <1>9
    <2>3. \A s \in Series, d \in Date : lesson[s][d] = "scheduled" => Within(S[s], d)
      BY <1>3, <1>9 DEF LessonsWithinSeries, Within
    <2>4. \A s \in 1 .. MaxSeries, d \in Date : s > Len(series) => lesson[s][d] # "scheduled"
      BY <1>3 DEF UnusedIsEmpty
    <2> QED
      BY <1>3, <1>4, <1>9, <2>1, <2>2, <2>3, <2>4, MaterializedWithin
  <1>11. TypeOK'
    <2>1. plan' \in [status : {"none", "active", "ended"}, from : Date,
                     until : Date \cup {Open}]
      BY <1>1, <1>3 DEF TypeOK
    <2>2. Len(series') <= MaxSeries
      BY <1>4, <1>9, <1>10
    <2> QED
      BY <1>1, <1>3, <1>9, <1>10, <2>1, <2>2 DEF TypeOK, Lessons
  <1>12. WorkerReadSeries'
    BY <1>1, <1>3, <1>4, <1>9, <1>10 DEF WorkerReadSeries, Series, NoSeries
  <1>13. NoPlanNoSeries'
    BY <1>1, <1>3 DEF NoPlanNoSeries, TypeOK
  <1> QED
    BY <1>10, <1>11, <1>12, <1>13 DEF SeriesInv

\* A step that adds no series and schedules no lesson.
LEMMA NothingAddedWithin ==
  ASSUME SeriesInv,
         series' \in Seq(SeriesRow), Len(series') = Len(series), lesson' \in Lessons,
         \A s \in 1 .. MaxSeries, d \in Date :
           lesson'[s][d] = "scheduled" => lesson[s][d] = "scheduled",
         \A s \in Series, d \in Date : lesson'[s][d] = "scheduled" => Within(series'[s], d),
         plan' \in [status : {"none", "active", "ended"}, from : Date,
                    until : Date \cup {Open}],
         plan.status # "none" => plan'.status # "none",
         today' \in Date, bookings' \subseteq Spots, edits' \in 0 .. MaxEdits,
         UNCHANGED worker
  PROVE  SeriesInv'
  <1>1. Series' = Series /\ Series = 1 .. Len(series) /\ Len(series) <= MaxSeries
    BY DEF SeriesInv, TypeOK, Series
  <1>2. TypeOK'
    BY <1>1 DEF SeriesInv, TypeOK, Lessons
  <1>3. LessonsWithinSeries'
    BY <1>1 DEF LessonsWithinSeries, Within
  <1>4. UnusedIsEmpty' /\ WorkerReadSeries'
    BY <1>1 DEF SeriesInv, UnusedIsEmpty, WorkerReadSeries
  <1>5. NoPlanNoSeries'
    <2> SUFFICES ASSUME plan'.status = "none" PROVE series' = << >>
      BY DEF NoPlanNoSeries
    <2>1. Len(series') = 0
      BY DEF SeriesInv, NoPlanNoSeries
    <2> QED
      BY <2>1
  <1> QED
    BY <1>2, <1>3, <1>4, <1>5 DEF SeriesInv

LEMMA MoveStartWithin ==
  ASSUME SeriesInv, NEW from \in Date, MoveStartForward(from)
  PROVE  SeriesInv'
  <1>1. /\ Unchanged
        /\ lesson' = [s \in 1 .. MaxSeries |->
                        Retired(lesson[s], {d \in Emptied(s, plan.from) : d < from})]
        /\ series' = [s \in Series |-> [series[s] EXCEPT !.from = from]]
        /\ plan' = [plan EXCEPT !.from = from]
        /\ UNCHANGED <<today, bookings, worker, edits>>
    BY DEF MoveStartForward
  <1>2. TypeOK /\ LessonsWithinSeries
    BY DEF SeriesInv
  <1>3. /\ series \in Seq(SeriesRow) /\ Series = 1 .. Len(series) /\ Len(series) \in Nat
        /\ lesson \in Lessons /\ Series \subseteq 1 .. MaxSeries
    BY <1>2, PlanAssumption DEF TypeOK, Series, Lessons
  <1>4. ASSUME NEW s \in Series
        PROVE  series[s] \in SeriesRow /\ series'[s] \in SeriesRow
    <2>1. series[s] \in SeriesRow
      BY <1>3
    <2>2. series'[s] = [series[s] EXCEPT !.from = from]
      BY <1>1
    <2> QED
      BY <2>1, <2>2 DEF SeriesRow
  <1>5. series' \in Seq(SeriesRow) /\ Len(series') = Len(series)
    <2>1. series' = [s \in 1 .. Len(series) |-> series'[s]]
      BY <1>1, <1>3
    <2> QED
      BY <1>3, <1>4, <2>1
  <1>6. \A s \in 1 .. MaxSeries, d \in Date :
          lesson'[s][d] = IF d \in Emptied(s, plan.from) /\ d < from
                          THEN "retired" ELSE lesson[s][d]
    BY <1>1 DEF Retired
  <1>7. lesson' \in Lessons
    BY <1>1, <1>3 DEF Lessons, Retired, LessonStates
  <1>8. ASSUME NEW s \in Series, NEW d \in Date, lesson'[s][d] = "scheduled"
        PROVE  Within(series'[s], d)
    <2>1. lesson[s][d] = "scheduled" /\ ~(d \in Emptied(s, plan.from) /\ d < from)
      BY <1>3, <1>6, <1>8
    <2>2. Within(series[s], d) /\ series[s].from = plan.from
      BY <1>1, <1>2, <2>1 DEF LessonsWithinSeries, Within, Unchanged
    <2>3. d >= plan.from
      BY <1>2, <2>2, PlanAssumption DEF Within, TypeOK, Date
    <2>4. ~(d < from)
      BY <2>1, <2>3 DEF Emptied
    <2>5. from <= d
      BY <2>4, PlanAssumption DEF Date
    <2>6. series'[s] = [series[s] EXCEPT !.from = from] /\ series[s] \in SeriesRow
      BY <1>1, <1>4
    <2>7. /\ series'[s].from = from /\ series'[s].until = series[s].until
          /\ series'[s].deleted = series[s].deleted /\ series'[s].weekday = series[s].weekday
      BY <2>6 DEF SeriesRow
    <2> QED
      BY <2>2, <2>5, <2>7 DEF Within
  <1> QED
    BY <1>1, <1>2, <1>5, <1>6, <1>7, <1>8, NothingAddedWithin DEF TypeOK

\* A step that ends some series before a date and cancels their lessons from it
\* on, or from an earlier one.
LEMMA CancelledWithin ==
  ASSUME SeriesInv, NEW ending \in SUBSET Series,
         NEW from \in Date \cup {Open}, NEW closing \in Date \cup {Open}, from <= closing,
         \A s \in Series : series'[s] = IF s \in ending
                                        THEN ClosedBefore(series[s], closing, NoSeries)
                                        ELSE series[s],
         DOMAIN series' = Series, series' = [s \in Series |-> series'[s]],
         lesson' = Cancelled(ending, from)
  PROVE  /\ series' \in Seq(SeriesRow) /\ Len(series') = Len(series) /\ lesson' \in Lessons
         /\ \A s \in 1 .. MaxSeries, d \in Date :
              lesson'[s][d] = "scheduled" => lesson[s][d] = "scheduled"
         /\ \A s \in Series, d \in Date :
              lesson'[s][d] = "scheduled" => Within(series'[s], d)
  <1>1. TypeOK /\ LessonsWithinSeries
    BY DEF SeriesInv
  <1>2. /\ series \in Seq(SeriesRow) /\ Series = 1 .. Len(series) /\ Len(series) \in Nat
        /\ lesson \in Lessons /\ Series \subseteq 1 .. MaxSeries
        /\ NoSeries \in 0 .. MaxSeries
    BY <1>1, PlanAssumption DEF TypeOK, Series, Lessons, NoSeries
  <1>3. ASSUME NEW s \in Series
        PROVE  series[s] \in SeriesRow /\ series'[s] \in SeriesRow
    <2>1. series[s] \in SeriesRow
      BY <1>2
    <2>2. ClosedBefore(series[s], closing, NoSeries) \in SeriesRow
      BY <1>2, <2>1, ClosedBeforeKeeps
    <2> QED
      BY <2>1, <2>2
  <1>4. series' \in Seq(SeriesRow) /\ Len(series') = Len(series)
    <2>1. series' = [s \in 1 .. Len(series) |-> series'[s]]
      BY <1>2
    <2> QED
      BY <1>2, <1>3, <2>1
  <1>5. \A s \in 1 .. MaxSeries, d \in Date :
          lesson'[s][d] = IF s \in ending /\ d >= from /\ lesson[s][d] \in {"scheduled", "pending"}
                          THEN "closed" ELSE lesson[s][d]
    BY DEF Cancelled
  <1>6. lesson' \in Lessons
    BY <1>2 DEF Lessons, Cancelled, LessonStates
  <1>7. \A s \in 1 .. MaxSeries, d \in Date :
          lesson'[s][d] = "scheduled" => lesson[s][d] = "scheduled" /\ ~(s \in ending /\ d >= from)
    BY <1>5
  <1>8. ASSUME NEW s \in Series, NEW d \in Date, lesson'[s][d] = "scheduled"
        PROVE  Within(series'[s], d)
    <2>1. lesson[s][d] = "scheduled" /\ ~(s \in ending /\ d >= from)
      BY <1>2, <1>7, <1>8
    <2>2. Within(series[s], d)
      BY <1>1, <2>1 DEF LessonsWithinSeries, Within
    <2>3. CASE s \in ending
      <3>1. d < closing
        BY <2>1, <2>3, PlanAssumption DEF Date, Open
      <3>2. Within(ClosedBefore(series[s], closing, NoSeries), d)
        BY <1>2, <1>3, <2>2, <3>1, ClosedBeforeKeeps
      <3> QED
        BY <2>3, <3>2
    <2>4. CASE s \notin ending
      BY <2>2, <2>4
    <2> QED
      BY <2>3, <2>4
  <1> QED
    BY <1>4, <1>6, <1>7, <1>8

\* What finish leaves of the plan and its series.
LEMMA FinishWithin ==
  ASSUME SeriesInv, NEW last \in Date, Finish(last),
         NEW from \in Date \cup {Open}, from <= last + 1,
         lesson' = Cancelled(Current, from),
         UNCHANGED <<today, bookings, worker, edits>>
  PROVE  SeriesInv'
  <1>1. /\ plan' = [plan EXCEPT !.status = "ended", !.until = last]
        /\ series' = [s \in Series |->
             IF s \in Current THEN ClosedBefore(series[s], last + 1, NoSeries) ELSE series[s]]
    BY DEF Finish
  <1>2. TypeOK /\ Current \in SUBSET Series /\ last + 1 \in Date \cup {Open}
    BY PlanAssumption DEF SeriesInv, Current, Date, Open
  <1>3. plan' \in [status : {"none", "active", "ended"}, from : Date, until : Date \cup {Open}]
        /\ plan'.status # "none"
    BY <1>1, <1>2 DEF TypeOK
  <1>4. /\ series' \in Seq(SeriesRow) /\ Len(series') = Len(series) /\ lesson' \in Lessons
        /\ \A s \in 1 .. MaxSeries, d \in Date :
             lesson'[s][d] = "scheduled" => lesson[s][d] = "scheduled"
        /\ \A s \in Series, d \in Date :
             lesson'[s][d] = "scheduled" => Within(series'[s], d)
    <2>1. /\ \A s \in Series : series'[s] = IF s \in Current
                                            THEN ClosedBefore(series[s], last + 1, NoSeries)
                                            ELSE series[s]
          /\ DOMAIN series' = Series /\ series' = [s \in Series |-> series'[s]]
      BY <1>1
    <2> QED
      BY <1>2, <2>1, CancelledWithin
  <1> QED
    BY <1>2, <1>3, <1>4, NothingAddedWithin DEF TypeOK

LEMMA EndWithin ==
  ASSUME SeriesInv, NEW last \in Date, EndPlan(last)
  PROVE  SeriesInv'
  <1>1. last + 1 \in Date \cup {Open} /\ last + 1 <= last + 1
    BY PlanAssumption DEF Date, Open
  <1> QED
    BY <1>1, FinishWithin DEF EndPlan

LEMMA RemoveRowWithin ==
  ASSUME SeriesInv, NEW r \in Series, NEW from \in Date, RemoveRow(r, from)
  PROVE  SeriesInv'
  <1>1. TypeOK /\ NoPlanNoSeries /\ from \in Date \cup {Open}
    BY DEF SeriesInv
  <1>2. /\ plan.status = "active" /\ r \in Current
        /\ lesson' = Cancelled({r}, from)
        /\ UNCHANGED <<today, bookings, worker, edits>>
    BY DEF RemoveRow
  <1>3. CASE Current = {r}
    <2> DEFINE last == Max(plan.from, from - 1)
    <2>1. Finish(last) /\ lesson' = Cancelled(Current, from)
      BY <1>2, <1>3 DEF RemoveRow
    <2>2. last \in Date /\ from <= last + 1
      BY <1>1, PlanAssumption DEF TypeOK, Date, Max
    <2> HIDE DEF last
    <2> QED
      BY <1>1, <1>2, <2>1, <2>2, FinishWithin
  <1>4. CASE Current # {r}
    <2>1. series' = [series EXCEPT ![r] = ClosedBefore(series[r], from, NoSeries)]
          /\ UNCHANGED plan
      BY <1>4 DEF RemoveRow
    <2>2. PICK ending \in SUBSET Series : ending = {r}
      OBVIOUS
    <2>3. PICK closing \in Date \cup {Open} : closing = from
      BY <1>1
    <2>4. /\ \A s \in Series : series'[s] = IF s \in ending
                                            THEN ClosedBefore(series[s], closing, NoSeries)
                                            ELSE series[s]
          /\ DOMAIN series' = Series /\ series' = [s \in Series |-> series'[s]]
      BY <1>1, <2>1, <2>2, <2>3 DEF TypeOK, Series
    <2>5. /\ series' \in Seq(SeriesRow) /\ Len(series') = Len(series) /\ lesson' \in Lessons
          /\ \A s \in 1 .. MaxSeries, d \in Date :
               lesson'[s][d] = "scheduled" => lesson[s][d] = "scheduled"
          /\ \A s \in Series, d \in Date :
               lesson'[s][d] = "scheduled" => Within(series'[s], d)
      <3>1. from <= closing /\ lesson' = Cancelled(ending, from)
        BY <1>2, <2>2, <2>3, PlanAssumption DEF Date
      <3> QED
        BY <1>1, <2>4, <3>1, CancelledWithin, SMTT(60)
    <2> QED
      BY <1>1, <1>2, <2>1, <2>5, NothingAddedWithin DEF TypeOK
  <1> QED
    BY <1>3, <1>4

-----------------------------------------------------------------------------
(* Commands of staff, and the worker.                                      *)

\* Staff and the settlement of lessons only take lessons away.
LEMMA LessonTakenWithin ==
  ASSUME SeriesInv,
         lesson' \in Lessons,
         \A s \in 1 .. MaxSeries, d \in Date :
           lesson'[s][d] = "scheduled" => lesson[s][d] = "scheduled",
         UNCHANGED <<today, plan, series, worker>>,
         bookings' \subseteq Spots, edits' \in 0 .. MaxEdits
  PROVE  SeriesInv'
  <1>1. TypeOK /\ LessonsWithinSeries
    BY DEF SeriesInv
  <1>2. \A s \in Series, d \in Date : lesson'[s][d] = "scheduled" => Within(series'[s], d)
    <2> SUFFICES ASSUME NEW s \in Series, NEW d \in Date, lesson'[s][d] = "scheduled"
                 PROVE  Within(series[s], d)
      BY DEF Within
    <2>1. s \in 1 .. MaxSeries
      BY <1>1, PlanAssumption DEF TypeOK, Series
    <2>2. lesson[s][d] = "scheduled"
      BY <2>1
    <2> QED
      BY <1>1, <2>2 DEF LessonsWithinSeries, Within
  <1>3. series' \in Seq(SeriesRow) /\ Len(series') = Len(series) /\ today' \in Date
    BY <1>1 DEF TypeOK
  <1> QED
    BY <1>1, <1>2, <1>3, NothingAddedWithin DEF TypeOK

LEMMA SetLessonTakes ==
  ASSUME TypeOK, NEW s \in Series, NEW d \in Date, NEW states,
         NEW state \in LessonStates \ {"scheduled"}, SetLesson(s, d, states, state)
  PROVE  /\ lesson' \in Lessons
         /\ \A t \in 1 .. MaxSeries, e \in Date :
              lesson'[t][e] = "scheduled" => lesson[t][e] = "scheduled"
  <1>1. s \in 1 .. MaxSeries /\ lesson \in Lessons
    BY PlanAssumption DEF TypeOK, Series, Lessons
  <1>2. lesson' = [lesson EXCEPT ![s] = [lesson[s] EXCEPT ![d] = state]]
    BY DEF SetLesson
  <1> QED
    BY <1>1, <1>2 DEF Lessons

LEMMA StaffWithin ==
  ASSUME SeriesInv, LessonCommand
  PROVE  SeriesInv'
  <1>1. TypeOK /\ lesson \in Lessons
    BY DEF SeriesInv, TypeOK, Lessons
  <1>2. Edit => edits' \in 0 .. MaxEdits /\ UNCHANGED <<today, plan, series, worker>>
    BY <1>1, PlanAssumption DEF Edit, TypeOK
  <1>3. ASSUME NEW s \in Series, NEW d \in Date,
               \/ EditDecision(s, d) \/ CancelLesson(s, d) \/ DeleteLesson(s, d) \/ Settle(s, d)
        PROVE  SeriesInv'
    <2>1. /\ \E states : \E state \in LessonStates \ {"scheduled"} :
               SetLesson(s, d, states, state)
          /\ Edit /\ UNCHANGED bookings
      BY <1>3 DEF EditDecision, CancelLesson, DeleteLesson, Settle, LessonStates
    <2>2. bookings' \subseteq Spots
      BY <1>1, <2>1 DEF TypeOK
    <2> QED
      BY <1>1, <1>2, <2>1, <2>2, SetLessonTakes, LessonTakenWithin
  <1>4. ASSUME NEW s \in Series, NEW d \in Date, NEW place \in Spots, Reschedule(s, d, place)
        PROVE  SeriesInv'
    <2>1. /\ SetLesson(s, d, {"scheduled", "custom"}, "closed") /\ Edit
          /\ bookings' = bookings \cup {place}
      BY <1>4 DEF Reschedule
    <2>2. bookings' \subseteq Spots /\ "closed" \in LessonStates \ {"scheduled"}
      BY <1>1, <2>1 DEF TypeOK, LessonStates
    <2> QED
      BY <1>1, <1>2, <2>1, <2>2, SetLessonTakes, LessonTakenWithin
  <1>5. ASSUME NEW place \in Spots, Book(place) \/ Unbook(place)
        PROVE  SeriesInv'
    <2>1. /\ UNCHANGED <<today, plan, series, worker>> /\ lesson' = lesson
          /\ bookings' \subseteq Spots /\ edits' \in 0 .. MaxEdits
      BY <1>1, <1>2, <1>5 DEF Book, Unbook, TypeOK
    <2> QED
      BY <1>1, <2>1, LessonTakenWithin
  <1> QED
    BY <1>3, <1>4, <1>5 DEF LessonCommand

LEMMA WorkerWithin ==
  ASSUME SeriesInv, Worker
  PROVE  SeriesInv'
  <1>1. /\ TypeOK /\ LessonsWithinSeries /\ UnusedIsEmpty /\ WorkerReadSeries
        /\ NoPlanNoSeries /\ lesson \in Lessons
    BY DEF SeriesInv, TypeOK, Lessons
  <1>2. /\ series \in Seq(SeriesRow) /\ Series = 1 .. Len(series) /\ Len(series) \in Nat
        /\ Series \subseteq 1 .. MaxSeries
    BY <1>1, PlanAssumption DEF TypeOK, Series
  <1>3. ASSUME NEW s \in Series, ReadCandidates(s)
        PROVE  SeriesInv'
    <2> DEFINE dates == Candidates(series, lesson, s, Max(series[s].from, today), today, {})
    <2>1. worker' = [series |-> s, now |-> today, dates |-> dates]
          /\ UNCHANGED <<today, plan, series, lesson, bookings, edits>>
      BY <1>3 DEF ReadCandidates
    <2>2. dates \in SUBSET Date
      BY DEF Candidates
    <2> HIDE DEF dates
    <2>3. worker' \in [series : 0 .. MaxSeries, now : 0 .. LastDate, dates : SUBSET Date]
      BY <1>1, <1>2, <2>1, <2>2, PlanAssumption DEF TypeOK, Date
    <2>4. TypeOK'
      BY <1>1, <2>1, <2>3 DEF TypeOK
    <2>5. LessonsWithinSeries' /\ UnusedIsEmpty' /\ NoPlanNoSeries'
      BY <1>1, <2>1 DEF LessonsWithinSeries, UnusedIsEmpty, NoPlanNoSeries, Series
    <2>6. WorkerReadSeries'
      BY <2>1 DEF WorkerReadSeries, Series
    <2> QED
      BY <2>4, <2>5, <2>6 DEF SeriesInv
  <1>4. ASSUME MaterializeSeries PROVE SeriesInv'
    <2> DEFINE s == worker.series
               dates == ToCreate(s, worker.now)
    <2>1. /\ worker # Idle
          /\ lesson' = IF Free(series, lesson, s, dates)
                       THEN [lesson EXCEPT ![s] = Filled(lesson[s], dates)]
                       ELSE lesson
          /\ worker' = Idle
          /\ UNCHANGED <<today, plan, series, bookings, edits>>
      BY <1>4 DEF MaterializeSeries
    <2>2. CASE s \in Series
      <3>1. series[s] \in SeriesRow /\ worker.now \in Int /\ s \in 1 .. MaxSeries
        BY <1>1, <1>2, <2>2, PlanAssumption DEF TypeOK
      <3>2. series[s].from <= Max(series[s].from, worker.now) /\ Max(series[s].from, worker.now) \in Int
        BY <3>1, PlanAssumption DEF SeriesRow, Date, Max
      <3>3. \A d \in dates : Within(series[s], d)
        BY <1>2, <2>2, <3>2, CandidatesWithin DEF ToCreate, Series
      <3> HIDE DEF dates
      <3>4. lesson' \in Lessons
        BY <1>1, <2>1 DEF Lessons, Filled, LessonStates
      <3>5. \A t \in 1 .. MaxSeries, d \in Date :
              lesson'[t][d] = "scheduled" => lesson[t][d] = "scheduled" \/ (t = s /\ d \in dates)
        BY <1>1, <2>1, <3>1 DEF Lessons, Filled
      <3>6. LessonsWithinSeries'
        <4> SUFFICES ASSUME NEW t \in Series, NEW d \in Date, lesson'[t][d] = "scheduled"
                     PROVE  Within(series[t], d)
          BY <2>1 DEF LessonsWithinSeries, Within, Series
        <4> QED
          BY <1>1, <1>2, <3>3, <3>5 DEF LessonsWithinSeries, Within
      <3>7. UnusedIsEmpty'
        BY <1>1, <1>2, <2>1, <2>2, <3>5 DEF UnusedIsEmpty
      <3> QED
        BY <1>1, <2>1, <3>4, <3>6, <3>7, PlanAssumption
           DEF SeriesInv, TypeOK, Lessons, WorkerReadSeries, NoPlanNoSeries, Idle, NoSeries
    <2>3. CASE s \notin Series
      <3>1. s = 0 /\ s \notin DOMAIN lesson
        <4>1. s = 0
          BY <1>1, <2>3 DEF WorkerReadSeries, NoSeries
        <4>2. DOMAIN lesson = 1 .. MaxSeries
          BY <1>1 DEF Lessons
        <4>3. 0 \notin 1 .. MaxSeries
          BY PlanAssumption
        <4> QED
          BY <4>1, <4>2, <4>3
      <3>2. lesson' = lesson
        BY <1>1, <2>1, <3>1 DEF Lessons
      <3>3. worker' \in [series : 0 .. MaxSeries, now : 0 .. LastDate, dates : SUBSET Date]
            /\ worker'.series = NoSeries
        BY <2>1, PlanAssumption DEF Idle, NoSeries
      <3>4. TypeOK'
        BY <1>1, <2>1, <3>2, <3>3 DEF TypeOK
      <3>5. LessonsWithinSeries' /\ UnusedIsEmpty' /\ NoPlanNoSeries'
        BY <1>1, <2>1, <3>2 DEF LessonsWithinSeries, UnusedIsEmpty, NoPlanNoSeries, Series
      <3>6. WorkerReadSeries'
        BY <3>3 DEF WorkerReadSeries
      <3> QED
        BY <3>4, <3>5, <3>6 DEF SeriesInv
    <2> QED
      BY <2>2, <2>3
  <1> QED
    BY <1>3, <1>4 DEF Worker

-----------------------------------------------------------------------------
LEMMA SeriesStep == SeriesInv /\ [Next]_vars => SeriesInv'
  <1> SUFFICES ASSUME SeriesInv, [Next]_vars PROVE SeriesInv'
    OBVIOUS
  <1>1. CASE NextDay
    <2>1. today' \in Date
      BY <1>1, PlanAssumption DEF NextDay, SeriesInv, TypeOK, Date
    <2> QED
      BY <1>1, <2>1 DEF NextDay, SeriesInv, TypeOK, LessonsWithinSeries, UnusedIsEmpty,
                        WorkerReadSeries, NoPlanNoSeries, Series
  <1>2. CASE PlanCommand
    BY <1>2, CreateWithin, ReplaceWithin, ExtendWithin, MoveStartWithin, EndWithin,
       RemoveRowWithin DEF PlanCommand
  <1>3. CASE LessonCommand
    BY <1>3, StaffWithin
  <1>4. CASE Worker
    BY <1>4, WorkerWithin
  <1>5. CASE UNCHANGED vars
    BY <1>5 DEF vars, SeriesInv, TypeOK, LessonsWithinSeries, UnusedIsEmpty,
                WorkerReadSeries, NoPlanNoSeries, Series
  <1> QED
    BY <1>1, <1>2, <1>3, <1>4, <1>5 DEF Next

LEMMA Invariant == Spec => []SeriesInv
  BY InitSeriesInv, SeriesStep, PTL DEF Spec

\* Every variable keeps its type: in particular no series ever ends before the
\* first date (the retiring update of retireSeries and finish).
THEOREM TypeCorrect == Spec => []TypeOK
  <1>1. SeriesInv => TypeOK
    BY DEF SeriesInv
  <1> QED
    BY Invariant, <1>1, PTL

\* However changes, prefixes, moved starts, removed rows, the end of the plan and
\* a worker that has read its dates before all these interleave, an untouched
\* lesson lies within the dates and on the weekday of a series in force.
THEOREM NoLessonOutlivesItsRow == Spec => []LessonsWithinSeries
  <1>1. SeriesInv => LessonsWithinSeries
    BY DEF SeriesInv
  <1> QED
    BY Invariant, <1>1, PTL

-----------------------------------------------------------------------------
(* Lineages.                                                               *)

LEMMA LineageIn ==
  ASSUME NEW S, NEW s
  PROVE  Lineage(S, s) \subseteq DOMAIN S
  BY DEF Lineage

LEMMA LineageSelf ==
  ASSUME NEW S, NEW s \in DOMAIN S
  PROVE  s \in Lineage(S, s)
  BY DEF Lineage

LEMMA LineageBack ==
  ASSUME NEW S, NEW s, NEW t \in DOMAIN S, S[t].next \in Lineage(S, s)
  PROVE  t \in Lineage(S, s)
  BY DEF Lineage

\* What holds of the series and passes to the ones it supersedes holds of all.
LEMMA LineageLeast ==
  ASSUME NEW S, NEW s \in DOMAIN S, NEW X, s \in X,
         \A u \in DOMAIN S : S[u].next \in X /\ S[u].next \in DOMAIN S => u \in X
  PROVE  Lineage(S, s) \subseteq X
  <1> DEFINE Y == X \cap DOMAIN S
  <1>1. Y \in SUBSET DOMAIN S /\ s \in Y
    OBVIOUS
  <1>2. \A u \in DOMAIN S : S[u].next \in Y => u \in Y
    OBVIOUS
  <1> HIDE DEF Y
  <1>3. Lineage(S, s) \subseteq Y
    BY <1>1, <1>2 DEF Lineage
  <1> QED
    BY <1>3 DEF Y

LEMMA LineageWithin ==
  ASSUME NEW S, NEW s, NEW t \in Lineage(S, s)
  PROVE  Lineage(S, t) \subseteq Lineage(S, s)
  <1>1. t \in DOMAIN S
    BY LineageIn
  <1>2. \A u \in DOMAIN S : S[u].next \in Lineage(S, s) => u \in Lineage(S, s)
    BY LineageBack
  <1> QED
    BY <1>1, <1>2, LineageLeast

\* A member but the series itself is superseded by a member.
LEMMA LineageNext ==
  ASSUME NEW S, NEW s \in DOMAIN S, NEW t \in Lineage(S, s), t # s
  PROVE  S[t].next \in Lineage(S, s)
  <1> DEFINE X == {s} \cup {u \in Lineage(S, s) : S[u].next \in Lineage(S, s)}
  <1>1. s \in Lineage(S, s)
    BY LineageSelf
  <1>2. \A u \in DOMAIN S : S[u].next \in X => u \in X
    BY <1>1, LineageBack
  <1>3. s \in X
    OBVIOUS
  <1> HIDE DEF X
  <1>4. Lineage(S, s) \subseteq X
    BY <1>2, <1>3, LineageLeast
  <1> QED
    BY <1>4 DEF X

\* And is of the lineage of one that the series supersedes.
LEMMA LineageSplit ==
  ASSUME NEW S, NEW s \in DOMAIN S, NEW t \in Lineage(S, s), t # s
  PROVE  \E u \in DOMAIN S : S[u].next = s /\ t \in Lineage(S, u)
  <1> DEFINE X == {s} \cup {v \in DOMAIN S :
                              \E u \in DOMAIN S : S[u].next = s /\ v \in Lineage(S, u)}
  <1>1. ASSUME NEW v \in DOMAIN S, S[v].next \in X PROVE v \in X
    <2>1. CASE S[v].next = s
      BY <2>1, LineageSelf
    <2>2. CASE \E u \in DOMAIN S : S[u].next = s /\ S[v].next \in Lineage(S, u)
      BY <2>2, LineageBack
    <2> QED
      BY <1>1, <2>1, <2>2
  <1>2. s \in X
    OBVIOUS
  <1> HIDE DEF X
  <1>3. Lineage(S, s) \subseteq X
    BY <1>1, <1>2, LineageLeast
  <1> QED
    BY <1>3 DEF X

\* Lineages do not grow when no series gets another to supersede it.
LEMMA LineageShrinks ==
  ASSUME NEW S, NEW T, NEW s \in DOMAIN S, s \in DOMAIN T,
         \A u \in DOMAIN T : T[u].next \in DOMAIN S /\ T[u].next \in DOMAIN T =>
           u \in DOMAIN S /\ S[u].next = T[u].next
  PROVE  Lineage(T, s) \subseteq Lineage(S, s)
  <1>1. s \in Lineage(S, s) /\ Lineage(S, s) \subseteq DOMAIN S
    BY LineageSelf, LineageIn
  <1>2. \A u \in DOMAIN T :
          T[u].next \in Lineage(S, s) /\ T[u].next \in DOMAIN T => u \in Lineage(S, s)
    BY <1>1, LineageBack
  <1> QED
    BY <1>1, <1>2, LineageLeast

-----------------------------------------------------------------------------
(* What lineages look like.                                                *)

\* Prefixes alone are added after the series that supersedes them.
IsPrefix(S, s) == S[s].next # NoSeries /\ S[s].next < s

\* A series ends before the one that supersedes it begins, or is deleted.
Links(S) ==
  \A s \in DOMAIN S : S[s].next # NoSeries =>
    /\ S[s].next \in DOMAIN S
    /\ S[s].deleted \/ S[s].until < S[S[s].next].from

\* A prefix supersedes none, any other series one at most, but for prefixes.
Trees(S) ==
  /\ \A s, t \in DOMAIN S : IsPrefix(S, s) => S[t].next # s
  /\ \A s, t \in DOMAIN S :
       S[s].next = S[t].next /\ S[s].next # NoSeries /\ ~IsPrefix(S, s) /\ ~IsPrefix(S, t)
         => s = t

\* Prefixes come before all other series, and those of a row in some order.
PrefixDates(S) ==
  /\ \A p, s \in DOMAIN S : IsPrefix(S, p) /\ ~IsPrefix(S, s) => S[p].until < S[s].from
  /\ \A s \in DOMAIN S : \A p, q \in Lineage(S, s) :
       IsPrefix(S, p) /\ IsPrefix(S, q) /\ p # q =>
         S[p].until < S[q].from \/ S[q].until < S[p].from

FactDates(S, L) ==
  \A s \in DOMAIN S, d \in Date : Fact(L, s, d) =>
    /\ S[s].from <= d
    /\ IsPrefix(S, s) => d <= S[s].until

OneFactInOrder(S, L) == \A s \in DOMAIN S : InOrder(S, s) => OneFact(S, L, s)

ShapeOK(S, L) ==
  /\ Links(S) /\ Trees(S) /\ PrefixDates(S) /\ FactDates(S, L) /\ OneFactInOrder(S, L)

LEMMA RowTypes ==
  ASSUME NEW S \in Seq(SeriesRow), NEW s \in DOMAIN S
  PROVE  /\ s \in Nat /\ s # NoSeries /\ NoSeries \notin DOMAIN S
         /\ S[s].from \in Int /\ S[s].until \in Int /\ S[s].next \in Int
         /\ S[s].deleted \in BOOLEAN
  <1>1. DOMAIN S = 1 .. Len(S) /\ Len(S) \in Nat /\ S[s] \in SeriesRow
    OBVIOUS
  <1>2. s \in Nat /\ s # NoSeries /\ NoSeries \notin DOMAIN S
    BY <1>1 DEF NoSeries
  <1>3. /\ S[s].from \in Date /\ S[s].until \in Date \cup {Open}
        /\ S[s].next \in 0 .. MaxSeries /\ S[s].deleted \in BOOLEAN
    BY <1>1 DEF SeriesRow
  <1> QED
    BY <1>2, <1>3, PlanAssumption DEF Date, Open

LEMMA LineageOfPrefix ==
  ASSUME NEW S, Trees(S), NEW p \in DOMAIN S, IsPrefix(S, p)
  PROVE  Lineage(S, p) \subseteq {p}
  <1> DEFINE X == {p}
  <1>1. \A u \in DOMAIN S : S[u].next \notin X
    BY DEF Trees
  <1>2. p \in X
    OBVIOUS
  <1> HIDE DEF X
  <1>3. Lineage(S, p) \subseteq X
    BY <1>1, <1>2, LineageLeast
  <1> QED
    BY <1>3 DEF X

LEMMA InOrderWithin ==
  ASSUME NEW S, NEW s, NEW T, NEW t, InOrder(S, s), Lineage(T, t) \subseteq Lineage(S, s),
         \A u \in Lineage(T, t) : T[u].next = S[u].next /\ T[u].from = S[u].from
  PROVE  InOrder(T, t)
  BY DEF InOrder

\* The earlier members of a lineage in order end before the later begin.
LEMMA LineageInOrder ==
  ASSUME NEW S \in Seq(SeriesRow), Links(S), NEW s \in DOMAIN S, InOrder(S, s),
         NEW t \in Lineage(S, s), t # s
  PROVE  S[t].from <= S[s].from /\ (S[t].deleted \/ S[t].until < S[s].from)
  <1> DEFINE Ordered(u) == /\ S[u].from <= S[s].from
                           /\ u = s \/ S[u].deleted \/ S[u].until < S[s].from
             X == {u \in Lineage(S, s) : Ordered(u)}
  <1>1. s \in X
    BY RowTypes, LineageSelf
  <1>2. ASSUME NEW u \in DOMAIN S, S[u].next \in X PROVE u \in X
    <2>0. S[u].next \in Lineage(S, s) /\ u \in Lineage(S, s)
      BY <1>2, LineageBack
    <2>1. PICK v \in DOMAIN S : v = S[u].next /\ Ordered(v)
      BY <1>2, <2>0, LineageIn
    <2>2. /\ S[u].from \in Int /\ S[u].until \in Int /\ S[v].from \in Int /\ S[s].from \in Int
          /\ v # NoSeries
      BY RowTypes
    <2>3. S[u].from <= S[v].from /\ (S[u].deleted \/ S[u].until < S[v].from)
      BY <2>0, <2>1, <2>2 DEF Links, InOrder
    <2>4. S[v].from <= S[s].from
      BY <2>1
    <2> HIDE DEF X, Ordered
    <2>5. S[u].from <= S[s].from /\ (S[u].deleted \/ S[u].until < S[s].from)
      BY <2>2, <2>3, <2>4
    <2> QED
      BY <2>0, <2>5 DEF X, Ordered
  <1> HIDE DEF X
  <1>3. Lineage(S, s) \subseteq X
    BY <1>1, <1>2, LineageLeast
  <1> QED
    BY <1>3 DEF X

\* But for prefixes a lineage is a chain.
LEMMA LineageChain ==
  ASSUME NEW S \in Seq(SeriesRow), Trees(S), NEW s \in DOMAIN S,
         NEW t \in Lineage(S, s), NEW u \in Lineage(S, s),
         ~IsPrefix(S, t), ~IsPrefix(S, u)
  PROVE  t \in Lineage(S, u) \/ u \in Lineage(S, t)
  <1> DEFINE Comparable(v) == IsPrefix(S, v) \/ v \in Lineage(S, u) \/ u \in Lineage(S, v)
             X == {v \in DOMAIN S : Comparable(v)}
  <1>1. s \in X
    OBVIOUS
  <1>2. ASSUME NEW v \in DOMAIN S, S[v].next \in X PROVE v \in X
    <2>1. PICK w \in DOMAIN S : w = S[v].next /\ Comparable(w)
      BY <1>2
    <2> SUFFICES ASSUME ~IsPrefix(S, v) PROVE v \in Lineage(S, u) \/ u \in Lineage(S, v)
      OBVIOUS
    <2>2. ~IsPrefix(S, w)
      BY <2>1 DEF Trees
    <2>3. CASE w \in Lineage(S, u)
      BY <2>1, <2>3, LineageBack
    <2>4. CASE u \in Lineage(S, w) /\ u # w
      <3>1. PICK x \in DOMAIN S : S[x].next = w /\ u \in Lineage(S, x)
        BY <2>4, LineageSplit
      <3>2. ~IsPrefix(S, x)
        <4> SUFFICES ASSUME IsPrefix(S, x) PROVE FALSE
          OBVIOUS
        <4>1. u = x
          BY <3>1, LineageOfPrefix
        <4> QED
          BY <4>1
      <3>3. w # NoSeries
        BY RowTypes
      <3>4. x = v
        BY <2>1, <3>1, <3>2, <3>3 DEF Trees
      <3> QED
        BY <3>1, <3>4
    <2> QED
      BY <2>1, <2>2, <2>3, <2>4, LineageSelf
  <1> HIDE DEF X
  <1>3. Lineage(S, s) \subseteq X
    BY <1>1, <1>2, LineageLeast
  <1> QED
    BY <1>3 DEF X

\* A series may be filled with dates that are free in its own lineage: all others
\* that it shares a lineage with end before it begins, or begin after it ends.
LEMMA FillKeepsOneFact ==
  ASSUME NEW S \in Seq(SeriesRow), NEW L, ShapeOK(S, L),
         NEW f \in DOMAIN S, NEW D \in SUBSET Date,
         \A d \in D : Within(S[f], d),
         \A d \in D, t \in Lineage(S, f) : ~Fact(L, t, d),
         NEW M,
         \A t \in DOMAIN S, d \in Date : Fact(M, t, d) => Fact(L, t, d) \/ (t = f /\ d \in D)
  PROVE  ShapeOK(S, M)
  <1>1. Links(S) /\ Trees(S) /\ PrefixDates(S) /\ FactDates(S, L) /\ OneFactInOrder(S, L)
    BY DEF ShapeOK
  <1>2. ASSUME NEW s \in DOMAIN S, InOrder(S, s),
               f \in Lineage(S, s), NEW t \in Lineage(S, s), t # f,
               NEW d \in D, Fact(L, t, d)
        PROVE  FALSE
    <2>1. /\ t \in DOMAIN S /\ d \in Date /\ d \in Int
      BY LineageIn, PlanAssumption DEF Date
    <2>2. /\ ~S[f].deleted /\ S[f].from <= d /\ d <= S[f].until
      BY DEF Within
    <2>3. /\ S[t].from <= d
          /\ IsPrefix(S, t) => d <= S[t].until
      BY <1>1, <1>2, <2>1 DEF FactDates
    <2>4. /\ S[f].from \in Int /\ S[f].until \in Int
          /\ S[t].from \in Int /\ S[t].until \in Int
      BY <2>1, RowTypes
    <2>5. t \notin Lineage(S, f)
      BY <1>2
    <2>6. CASE f \in Lineage(S, t)
      <3>0. InOrder(S, t)
        BY <1>2, LineageWithin, InOrderWithin
      <3>1. S[f].deleted \/ S[f].until < S[t].from
        BY <1>1, <1>2, <2>1, <2>6, <3>0, LineageInOrder
      <3> QED
        BY <2>1, <2>2, <2>3, <2>4, <3>1
    <2>7. CASE ~IsPrefix(S, f) /\ ~IsPrefix(S, t)
      BY <1>1, <1>2, <2>5, <2>6, <2>7, LineageChain
    <2>8. CASE IsPrefix(S, f) /\ ~IsPrefix(S, t)
      <3>1. S[f].until < S[t].from
        BY <1>1, <2>1, <2>8 DEF PrefixDates
      <3> QED
        BY <2>1, <2>2, <2>3, <2>4, <3>1
    <2>9. CASE ~IsPrefix(S, f) /\ IsPrefix(S, t)
      <3>1. S[t].until < S[f].from /\ d <= S[t].until
        BY <1>1, <2>1, <2>3, <2>9 DEF PrefixDates
      <3> QED
        BY <2>1, <2>2, <2>4, <3>1
    <2>10. CASE IsPrefix(S, f) /\ IsPrefix(S, t)
      <3>1. S[t].until < S[f].from \/ S[f].until < S[t].from
        BY <1>1, <1>2, <2>10 DEF PrefixDates
      <3>2. d <= S[t].until
        BY <2>3, <2>10
      <3> QED
        BY <2>1, <2>2, <2>3, <2>4, <3>1, <3>2
    <2> QED
      BY <2>7, <2>8, <2>9, <2>10
  <1>3. OneFactInOrder(S, M)
    <2> SUFFICES ASSUME NEW s \in DOMAIN S, InOrder(S, s),
                        NEW t \in Lineage(S, s), NEW u \in Lineage(S, s),
                        NEW d \in Date, Fact(M, t, d), Fact(M, u, d), t # u
                 PROVE  FALSE
      BY DEF OneFactInOrder, OneFact
    <2>1. t \in DOMAIN S /\ u \in DOMAIN S
      BY LineageIn
    <2>2. /\ Fact(L, t, d) \/ (t = f /\ d \in D)
          /\ Fact(L, u, d) \/ (u = f /\ d \in D)
      BY <2>1
    <2>3. ~(Fact(L, t, d) /\ Fact(L, u, d))
      BY <1>1 DEF OneFactInOrder, OneFact
    <2> QED
      BY <1>2, <2>2, <2>3
  <1>4. FactDates(S, M)
    <2> SUFFICES ASSUME NEW s \in DOMAIN S, NEW d \in Date, Fact(M, s, d)
                 PROVE  S[s].from <= d /\ (IsPrefix(S, s) => d <= S[s].until)
      BY DEF FactDates
    <2>1. CASE Fact(L, s, d)
      BY <1>1, <2>1 DEF FactDates
    <2>2. CASE s = f /\ d \in D
      BY <2>2 DEF Within
    <2> QED
      BY <2>1, <2>2
  <1> QED
    BY <1>1, <1>3, <1>4 DEF ShapeOK

\* Series that nothing supersedes.
LEMMA FreshShape ==
  ASSUME NEW T \in Seq(SeriesRow), NEW M,
         \A s \in DOMAIN T : T[s].next = NoSeries,
         \A s \in DOMAIN T, d \in Date : Fact(M, s, d) => T[s].from <= d
  PROVE  ShapeOK(T, M)
  <1>1. ASSUME NEW s \in DOMAIN T, NEW t \in Lineage(T, s)
        PROVE  t = s
    <2>1. t \in DOMAIN T /\ NoSeries \notin DOMAIN T
      BY LineageIn, RowTypes
    <2>2. T[t].next \notin Lineage(T, s)
      BY <2>1, LineageIn
    <2> QED
      BY <2>2, LineageNext
  <1>2. \A s \in DOMAIN T : ~IsPrefix(T, s)
    BY DEF IsPrefix
  <1>3. Links(T) /\ FactDates(T, M) /\ OneFactInOrder(T, M)
    BY <1>1, <1>2 DEF Links, FactDates, OneFactInOrder, OneFact
  <1>4. Trees(T) /\ PrefixDates(T)
    BY <1>1, <1>2 DEF Trees, PrefixDates
  <1> QED
    BY <1>3, <1>4 DEF ShapeOK

\* Series that end, and lessons that are taken away.
LEMMA KeptShape ==
  ASSUME NEW S \in Seq(SeriesRow), NEW L, ShapeOK(S, L),
         NEW T \in Seq(SeriesRow), NEW M, DOMAIN T = DOMAIN S,
         \A s \in DOMAIN S : /\ T[s].next = S[s].next /\ T[s].from = S[s].from
                             /\ S[s].next # NoSeries => T[s] = S[s],
         \A s \in DOMAIN S, d \in Date : Fact(M, s, d) => Fact(L, s, d)
  PROVE  ShapeOK(T, M)
  <1>1. Links(S) /\ Trees(S) /\ PrefixDates(S) /\ FactDates(S, L) /\ OneFactInOrder(S, L)
    BY DEF ShapeOK
  <1>2. \A s \in DOMAIN S : IsPrefix(T, s) <=> IsPrefix(S, s)
    BY DEF IsPrefix
  <1>3. \A s \in DOMAIN S : IsPrefix(S, s) => T[s] = S[s]
    BY DEF IsPrefix
  <1>4. \A s \in DOMAIN S : Lineage(T, s) \subseteq Lineage(S, s) /\ Lineage(S, s) \subseteq DOMAIN S
    BY LineageShrinks, LineageIn
  <1>5. Links(T)
    BY <1>1 DEF Links
  <1>6. Trees(T)
    BY <1>1, <1>2 DEF Trees
  <1>7. PrefixDates(T)
    <2>1. \A p, s \in DOMAIN T : IsPrefix(T, p) /\ ~IsPrefix(T, s) => T[p].until < T[s].from
      BY <1>1, <1>2, <1>3 DEF PrefixDates
    <2>2. \A s \in DOMAIN T : \A p, q \in Lineage(T, s) :
            IsPrefix(T, p) /\ IsPrefix(T, q) /\ p # q =>
              T[p].until < T[q].from \/ T[q].until < T[p].from
      <3> SUFFICES ASSUME NEW s \in DOMAIN T, NEW p \in Lineage(T, s), NEW q \in Lineage(T, s),
                          IsPrefix(T, p), IsPrefix(T, q), p # q
                   PROVE  T[p].until < T[q].from \/ T[q].until < T[p].from
        OBVIOUS
      <3>1. /\ p \in Lineage(S, s) /\ q \in Lineage(S, s) /\ p \in DOMAIN S /\ q \in DOMAIN S
        BY <1>4
      <3>2. IsPrefix(S, p) /\ IsPrefix(S, q) /\ T[p] = S[p] /\ T[q] = S[q]
        BY <1>2, <1>3, <3>1
      <3> QED
        BY <1>1, <3>1, <3>2 DEF PrefixDates
    <2> QED
      BY <2>1, <2>2 DEF PrefixDates
  <1>8. FactDates(T, M)
    BY <1>1, <1>2, <1>3 DEF FactDates
  <1>9. OneFactInOrder(T, M)
    <2> SUFFICES ASSUME NEW s \in DOMAIN T, InOrder(T, s),
                        NEW t \in Lineage(T, s), NEW u \in Lineage(T, s),
                        NEW d \in Date, Fact(M, t, d), Fact(M, u, d)
                 PROVE  t = u
      BY DEF OneFactInOrder, OneFact
    <2>0. InOrder(S, s)
      <3>1. Lineage(S, s) \subseteq Lineage(T, s)
        BY LineageShrinks
      <3> QED
        BY <1>4, <3>1, InOrderWithin
    <2>1. /\ t \in Lineage(S, s) /\ u \in Lineage(S, s) /\ t \in DOMAIN S /\ u \in DOMAIN S
      BY <1>4
    <2>2. Fact(L, t, d) /\ Fact(L, u, d)
      BY <2>1
    <2> QED
      BY <1>1, <2>0, <2>1, <2>2 DEF OneFactInOrder, OneFact
  <1> QED
    BY <1>5, <1>6, <1>7, <1>8, <1>9 DEF ShapeOK

\* A change from a date on: the series C, one of which has begun, end before it or
\* are deleted, some of them continued by new series that begin on it.
Continued(S, T, C, from) ==
  /\ DOMAIN S \subseteq DOMAIN T
  /\ \A s \in DOMAIN S, n \in DOMAIN T \ DOMAIN S : s < n
  /\ C \subseteq DOMAIN S
  /\ \A s \in C : S[s].next = NoSeries
  /\ \E s \in C : S[s].from <= from
  /\ \A s \in DOMAIN S : T[s].from = S[s].from
  /\ \A s \in DOMAIN S \ C : T[s] = S[s]
  /\ \A s \in C : T[s].next # NoSeries =>
       /\ T[s].next \in DOMAIN T \ DOMAIN S
       /\ T[s].deleted \/ T[s].until < from
  /\ \A s, t \in C : T[s].next = T[t].next /\ T[s].next # NoSeries => s = t
  /\ \A n \in DOMAIN T \ DOMAIN S : T[n].next = NoSeries /\ T[n].from = from

LEMMA ContinuedLineage ==
  ASSUME NEW S \in Seq(SeriesRow), NEW T \in Seq(SeriesRow), NEW C, NEW from,
         Continued(S, T, C, from), Links(S)
  PROVE  /\ \A s \in DOMAIN S : Lineage(T, s) \subseteq Lineage(S, s)
         /\ \A n \in DOMAIN T \ DOMAIN S : \A t \in Lineage(T, n) :
              t = n \/ \E c \in C : T[c].next = n /\ t \in Lineage(S, c)
         /\ \A s \in DOMAIN S : Lineage(S, s) \subseteq Lineage(T, s)
  <1>1. NoSeries \notin DOMAIN S /\ NoSeries \notin DOMAIN T
    BY DEF NoSeries
  <1>2. ASSUME NEW u \in DOMAIN T, T[u].next \in DOMAIN S
        PROVE  u \in DOMAIN S \ C /\ S[u].next = T[u].next
    BY <1>1, <1>2 DEF Continued
  <1>3. ASSUME NEW s \in DOMAIN S PROVE Lineage(T, s) \subseteq Lineage(S, s)
    <2>1. s \in DOMAIN T
      BY DEF Continued
    <2> QED
      BY <1>2, <2>1, LineageShrinks
  <1>4. ASSUME NEW n \in DOMAIN T \ DOMAIN S, NEW t \in Lineage(T, n)
        PROVE  t = n \/ \E c \in C : T[c].next = n /\ t \in Lineage(S, c)
    <2> DEFINE X == {n} \cup {v \in DOMAIN S : \E c \in C : T[c].next = n /\ v \in Lineage(S, c)}
    <2>1. ASSUME NEW u \in DOMAIN T, T[u].next \in X PROVE u \in X
      <3>1. CASE T[u].next = n
        <4>1. u \in C
          <5>1. T[u].next # NoSeries /\ T[u].next \notin DOMAIN S
            BY <1>1, <3>1
          <5> QED
            BY <5>1 DEF Continued, Links
        <4>2. u \in DOMAIN S
          BY <4>1 DEF Continued
        <4> QED
          BY <3>1, <4>1, <4>2, LineageSelf
      <3>2. CASE \E c \in C : T[c].next = n /\ T[u].next \in Lineage(S, c)
        <4>1. PICK c \in C : T[c].next = n /\ T[u].next \in Lineage(S, c)
          BY <3>2
        <4>2. u \in DOMAIN S /\ S[u].next = T[u].next
          BY <1>2, <4>1, LineageIn
        <4>3. u \in Lineage(S, c)
          BY <4>1, <4>2, LineageBack
        <4> QED
          BY <4>1, <4>2, <4>3
      <3> QED
        BY <2>1, <3>1, <3>2
    <2>2. n \in X /\ n \in DOMAIN T
      OBVIOUS
    <2> HIDE DEF X
    <2>3. Lineage(T, n) \subseteq X
      BY <2>1, <2>2, LineageLeast
    <2> QED
      BY <2>3 DEF X
  <1>5. ASSUME NEW s \in DOMAIN S PROVE Lineage(S, s) \subseteq Lineage(T, s)
    <2>1. s \in DOMAIN T
      BY DEF Continued
    <2>2. \A u \in DOMAIN S : S[u].next \in DOMAIN S => u \in DOMAIN T /\ T[u].next = S[u].next
      BY <1>1 DEF Continued
    <2> QED
      BY <2>1, <2>2, LineageShrinks
  <1> QED
    BY <1>3, <1>4, <1>5

\* What is continued was in order, if what continues it is.
LEMMA ContinuedInOrder ==
  ASSUME NEW S \in Seq(SeriesRow), NEW T \in Seq(SeriesRow), NEW C, NEW from,
         Continued(S, T, C, from), Links(S)
  PROVE  /\ \A s \in DOMAIN S : InOrder(T, s) => InOrder(S, s)
         /\ \A c \in C : T[c].next \in DOMAIN T /\ InOrder(T, T[c].next) => InOrder(S, c)
  <1>1. \A s \in DOMAIN S : Lineage(S, s) \subseteq Lineage(T, s)
    BY ContinuedLineage
  <1>2. NoSeries \notin DOMAIN S
    BY DEF NoSeries
  <1>3. ASSUME NEW s \in DOMAIN S, NEW n, InOrder(T, n), Lineage(T, s) \subseteq Lineage(T, n)
        PROVE  InOrder(S, s)
    <2> SUFFICES ASSUME NEW t \in Lineage(S, s), S[t].next \in Lineage(S, s)
                 PROVE  S[t].from <= S[S[t].next].from
      BY DEF InOrder
    <2>1. t \in DOMAIN S /\ S[t].next \in DOMAIN S
      BY LineageIn
    <2>2. t \in Lineage(T, n) /\ S[t].next \in Lineage(T, n)
      BY <1>1, <1>3
    <2>3. T[t] = S[t] /\ T[S[t].next].from = S[S[t].next].from
      BY <1>2, <2>1 DEF Continued
    <2> QED
      BY <1>3, <2>2, <2>3 DEF InOrder
  <1>4. ASSUME NEW c \in C, T[c].next \in DOMAIN T
        PROVE  Lineage(T, c) \subseteq Lineage(T, T[c].next)
    <2>1. c \in DOMAIN T
      BY DEF Continued
    <2>2. c \in Lineage(T, T[c].next)
      BY <1>4, <2>1, LineageSelf, LineageBack
    <2> QED
      BY <2>2, LineageWithin
  <1> QED
    BY <1>3, <1>4 DEF Continued

LEMMA ContinuedShape ==
  ASSUME NEW S \in Seq(SeriesRow), NEW L, ShapeOK(S, L),
         NEW T \in Seq(SeriesRow), NEW M, NEW C, NEW from \in Int,
         Continued(S, T, C, from),
         \A s \in DOMAIN S, d \in Date : Fact(M, s, d) => Fact(L, s, d),
         \A n \in DOMAIN T \ DOMAIN S, d \in Date : Fact(M, n, d) =>
           /\ from <= d
           /\ InOrder(T, n) => \A t \in Lineage(T, n) : t # n => ~Fact(M, t, d)
  PROVE  ShapeOK(T, M)
  <1>1. Links(S) /\ Trees(S) /\ PrefixDates(S) /\ FactDates(S, L) /\ OneFactInOrder(S, L)
    BY DEF ShapeOK
  <1>2. /\ \A s \in DOMAIN S : Lineage(T, s) \subseteq Lineage(S, s)
        /\ \A n \in DOMAIN T \ DOMAIN S : \A t \in Lineage(T, n) :
             t = n \/ \E c \in C : T[c].next = n /\ t \in Lineage(S, c)
    BY <1>1, ContinuedLineage
  <1>3. NoSeries \notin DOMAIN S /\ NoSeries \notin DOMAIN T
    BY DEF NoSeries
  <1>4. /\ \A s \in DOMAIN T : s \in Nat /\ T[s].next \in Int
        /\ \A s \in DOMAIN S : s \in Nat /\ S[s].next \in Int
    BY RowTypes
  <1>5. \A s \in DOMAIN T : IsPrefix(T, s) <=> s \in DOMAIN S \ C /\ IsPrefix(S, s)
    <2> SUFFICES ASSUME NEW s \in DOMAIN T
                 PROVE  IsPrefix(T, s) <=> s \in DOMAIN S \ C /\ IsPrefix(S, s)
      OBVIOUS
    <2>1. CASE s \in DOMAIN S \ C
      BY <2>1 DEF Continued, IsPrefix
    <2>2. CASE s \in C
      BY <1>4, <2>2 DEF Continued, IsPrefix
    <2>3. CASE s \notin DOMAIN S
      BY <2>3 DEF Continued, IsPrefix
    <2> QED
      BY <2>1, <2>2, <2>3
  <1>6. \A s \in C : s \in DOMAIN S /\ ~IsPrefix(S, s)
    BY DEF Continued, IsPrefix
  <1>7. Links(T)
    <2> SUFFICES ASSUME NEW s \in DOMAIN T, T[s].next # NoSeries
                 PROVE  /\ T[s].next \in DOMAIN T
                        /\ T[s].deleted \/ T[s].until < T[T[s].next].from
      BY DEF Links
    <2>1. s \in DOMAIN S
      BY DEF Continued
    <2>2. CASE s \in C
      BY <2>1, <2>2 DEF Continued
    <2>3. CASE s \notin C
      <3>1. T[s] = S[s] /\ S[s].next # NoSeries
        BY <2>1, <2>3 DEF Continued
      <3>2. /\ S[s].next \in DOMAIN S
            /\ S[s].deleted \/ S[s].until < S[S[s].next].from
        BY <1>1, <2>1, <3>1 DEF Links
      <3>3. T[S[s].next].from = S[S[s].next].from /\ S[s].next \in DOMAIN T
        BY <3>2 DEF Continued
      <3> QED
        BY <3>1, <3>2, <3>3
    <2> QED
      BY <2>2, <2>3
  <1>8. Trees(T)
    <2>1. ASSUME NEW s \in DOMAIN T, NEW t \in DOMAIN T, IsPrefix(T, s), T[t].next = s
          PROVE  FALSE
      <3>1. s \in DOMAIN S /\ IsPrefix(S, s) /\ s # NoSeries
        BY <1>3, <1>5, <2>1
      <3>2. t \in DOMAIN S \ C /\ T[t] = S[t]
        BY <2>1, <3>1 DEF Continued
      <3> QED
        BY <1>1, <2>1, <3>1, <3>2 DEF Trees
    <2>2. ASSUME NEW s \in DOMAIN T, NEW t \in DOMAIN T, T[s].next = T[t].next,
                 T[s].next # NoSeries, ~IsPrefix(T, s), ~IsPrefix(T, t)
          PROVE  s = t
      <3>1. s \in DOMAIN S /\ t \in DOMAIN S
        BY <2>2 DEF Continued
      <3>2. CASE s \in C /\ t \in C
        BY <2>2, <3>2 DEF Continued
      <3>3. CASE s \notin C /\ t \notin C
        <4>1. T[s] = S[s] /\ T[t] = S[t]
          BY <3>1, <3>3 DEF Continued
        <4>2. ~IsPrefix(S, s) /\ ~IsPrefix(S, t)
          BY <1>5, <2>2, <3>1, <3>3
        <4> QED
          BY <1>1, <2>2, <3>1, <4>1, <4>2 DEF Trees
      <3>4. CASE s \in C /\ t \notin C
        <4>1. T[t] = S[t] /\ T[s].next \notin DOMAIN S
          BY <2>2, <3>1, <3>4 DEF Continued
        <4> QED
          BY <1>1, <2>2, <3>1, <4>1 DEF Links
      <3>5. CASE s \notin C /\ t \in C
        <4>1. T[s] = S[s] /\ T[t].next \notin DOMAIN S
          BY <2>2, <3>1, <3>5 DEF Continued
        <4> QED
          BY <1>1, <2>2, <3>1, <4>1 DEF Links
      <3> QED
        BY <3>2, <3>3, <3>4, <3>5
    <2> QED
      BY <2>1, <2>2 DEF Trees
  <1>9. PrefixDates(T)
    <2>1. ASSUME NEW p \in DOMAIN T, NEW s \in DOMAIN T, IsPrefix(T, p), ~IsPrefix(T, s)
          PROVE  T[p].until < T[s].from
      <3>1. p \in DOMAIN S /\ IsPrefix(S, p) /\ T[p] = S[p]
        BY <1>5, <2>1 DEF Continued
      <3>2. CASE s \in DOMAIN S
        <4>1. ~IsPrefix(S, s) /\ T[s].from = S[s].from
          BY <1>5, <1>6, <2>1, <3>2 DEF Continued
        <4> QED
          BY <1>1, <3>1, <3>2, <4>1 DEF PrefixDates
      <3>3. CASE s \notin DOMAIN S
        <4>1. PICK c \in C : S[c].from <= from
          BY DEF Continued
        <4>2. c \in DOMAIN S /\ ~IsPrefix(S, c) /\ S[c].from <= from /\ T[s].from = from
          BY <1>6, <3>3, <4>1 DEF Continued
        <4>3. S[p].until < S[c].from
          BY <1>1, <3>1, <4>2 DEF PrefixDates
        <4>4. S[p].until \in Int /\ S[c].from \in Int
          BY <3>1, <4>2, RowTypes
        <4> QED
          BY <3>1, <4>2, <4>3, <4>4
      <3> QED
        BY <3>2, <3>3
    <2>2. ASSUME NEW s \in DOMAIN T, NEW p \in Lineage(T, s), NEW q \in Lineage(T, s),
                 IsPrefix(T, p), IsPrefix(T, q), p # q
          PROVE  T[p].until < T[q].from \/ T[q].until < T[p].from
      <3>1. p \in DOMAIN T /\ q \in DOMAIN T
        BY LineageIn
      <3>2. /\ p \in DOMAIN S /\ IsPrefix(S, p) /\ T[p] = S[p]
            /\ q \in DOMAIN S /\ IsPrefix(S, q) /\ T[q] = S[q]
        BY <1>5, <2>2, <3>1 DEF Continued
      <3>3. \E r \in DOMAIN S : p \in Lineage(S, r) /\ q \in Lineage(S, r)
        <4>1. CASE s \in DOMAIN S
          BY <1>2, <4>1
        <4>2. CASE s \notin DOMAIN S
          <5>1. PICK c \in C : T[c].next = s /\ p \in Lineage(S, c)
            BY <1>2, <3>2, <4>2
          <5>2. PICK e \in C : T[e].next = s /\ q \in Lineage(S, e)
            BY <1>2, <3>2, <4>2
          <5>3. c = e
            BY <1>3, <5>1, <5>2 DEF Continued
          <5> QED
            BY <1>6, <5>1, <5>2, <5>3
        <4> QED
          BY <4>1, <4>2
      <3> QED
        BY <1>1, <2>2, <3>2, <3>3 DEF PrefixDates
    <2> QED
      BY <2>1, <2>2 DEF PrefixDates
  <1>10. FactDates(T, M)
    <2> SUFFICES ASSUME NEW s \in DOMAIN T, NEW d \in Date, Fact(M, s, d)
                 PROVE  T[s].from <= d /\ (IsPrefix(T, s) => d <= T[s].until)
      BY DEF FactDates
    <2>1. CASE s \in DOMAIN S
      <3>1. S[s].from <= d /\ (IsPrefix(S, s) => d <= S[s].until)
        BY <1>1, <2>1 DEF FactDates
      <3>2. T[s].from = S[s].from /\ (IsPrefix(T, s) => IsPrefix(S, s) /\ T[s] = S[s])
        BY <1>5, <2>1 DEF Continued
      <3> QED
        BY <3>1, <3>2
    <2>2. CASE s \notin DOMAIN S
      BY <1>5, <2>2 DEF Continued
    <2> QED
      BY <2>1, <2>2
  <1>11. OneFactInOrder(T, M)
    <2> SUFFICES ASSUME NEW s \in DOMAIN T, InOrder(T, s),
                        NEW t \in Lineage(T, s), NEW u \in Lineage(T, s),
                        NEW d \in Date, Fact(M, t, d), Fact(M, u, d), t # u
                 PROVE  FALSE
      BY DEF OneFactInOrder, OneFact
    <2>0. /\ \A r \in DOMAIN S : InOrder(T, r) => InOrder(S, r)
          /\ \A c \in C : T[c].next \in DOMAIN T /\ InOrder(T, T[c].next) => InOrder(S, c)
      BY <1>1, ContinuedInOrder
    <2>1. \A r \in DOMAIN S : InOrder(S, r) /\ t \in Lineage(S, r) => u \notin Lineage(S, r)
      BY <1>1, LineageIn DEF OneFactInOrder, OneFact
    <2>2. CASE s \in DOMAIN S
      BY <1>2, <2>0, <2>1, <2>2
    <2>3. CASE s \notin DOMAIN S /\ t # s /\ u # s
      <3>1. PICK c \in C : T[c].next = s /\ t \in Lineage(S, c)
        BY <1>2, <2>3
      <3>2. PICK e \in C : T[e].next = s /\ u \in Lineage(S, e)
        BY <1>2, <2>3
      <3>3. c = e
        BY <1>3, <3>1, <3>2 DEF Continued
      <3>4. InOrder(S, c)
        BY <2>0, <3>1
      <3> QED
        BY <1>6, <2>1, <3>1, <3>2, <3>3, <3>4
    <2>4. CASE s \notin DOMAIN S /\ (t = s \/ u = s)
      BY <2>4
    <2> QED
      BY <2>2, <2>3, <2>4
  <1> QED
    BY <1>7, <1>8, <1>9, <1>10, <1>11 DEF ShapeOK

\* An earlier start: each of these series gets a prefix that ends before all begin.
Prefixed(S, T, from, until) ==
  /\ DOMAIN S \subseteq DOMAIN T
  /\ \A s \in DOMAIN S, n \in DOMAIN T \ DOMAIN S : s < n
  /\ \A s \in DOMAIN S : T[s] = S[s] /\ from <= S[s].from /\ until < S[s].from
  /\ \A n \in DOMAIN T \ DOMAIN S :
       /\ T[n].next \in DOMAIN S /\ S[T[n].next].next = NoSeries
       /\ T[n].from = from /\ T[n].until = until
  /\ \A n, m \in DOMAIN T \ DOMAIN S : T[n].next = T[m].next => n = m

LEMMA PrefixedShape ==
  ASSUME NEW S \in Seq(SeriesRow), NEW L, ShapeOK(S, L),
         NEW T \in Seq(SeriesRow), NEW M, NEW from \in Int, NEW until \in Int,
         Prefixed(S, T, from, until),
         \A s \in DOMAIN S, d \in Date : Fact(M, s, d) => Fact(L, s, d),
         \A n \in DOMAIN T \ DOMAIN S, d \in Date : Fact(M, n, d) => from <= d /\ d <= until
  PROVE  ShapeOK(T, M)
  <1>1. Links(S) /\ Trees(S) /\ PrefixDates(S) /\ FactDates(S, L) /\ OneFactInOrder(S, L)
    BY DEF ShapeOK
  <1>2. NoSeries \notin DOMAIN S /\ NoSeries \notin DOMAIN T
    BY DEF NoSeries
  <1>3. \A s \in DOMAIN T : IsPrefix(T, s) <=> (s \in DOMAIN S => IsPrefix(S, s))
    BY <1>2 DEF Prefixed, IsPrefix
  <1>4. Links(T)
    <2> SUFFICES ASSUME NEW s \in DOMAIN T, T[s].next # NoSeries
                 PROVE  /\ T[s].next \in DOMAIN T
                        /\ T[s].deleted \/ T[s].until < T[T[s].next].from
      BY DEF Links
    <2>1. CASE s \in DOMAIN S
      <3>1. T[s] = S[s] /\ S[s].next \in DOMAIN S
        BY <1>1, <2>1 DEF Prefixed, Links
      <3> QED
        BY <1>1, <2>1, <3>1 DEF Prefixed, Links
    <2>2. CASE s \notin DOMAIN S
      BY <2>2 DEF Prefixed
    <2> QED
      BY <2>1, <2>2
  <1>5. Trees(T)
    <2>1. ASSUME NEW s \in DOMAIN T, NEW t \in DOMAIN T, IsPrefix(T, s), T[t].next = s
          PROVE  FALSE
      <3>1. s \in DOMAIN S /\ IsPrefix(S, s)
        BY <1>1, <1>2, <1>3, <2>1 DEF Prefixed, Links
      <3>2. S[s].next # NoSeries
        BY <3>1 DEF IsPrefix
      <3>3. t \in DOMAIN S /\ T[t] = S[t]
        BY <2>1, <3>1, <3>2 DEF Prefixed
      <3> QED
        BY <1>1, <2>1, <3>1, <3>3 DEF Trees
    <2>2. ASSUME NEW s \in DOMAIN T, NEW t \in DOMAIN T, T[s].next = T[t].next,
                 T[s].next # NoSeries, ~IsPrefix(T, s), ~IsPrefix(T, t)
          PROVE  s = t
      <3>1. s \in DOMAIN S /\ t \in DOMAIN S /\ ~IsPrefix(S, s) /\ ~IsPrefix(S, t)
        BY <1>3, <2>2
      <3>2. T[s] = S[s] /\ T[t] = S[t]
        BY <3>1 DEF Prefixed
      <3> QED
        BY <1>1, <2>2, <3>1, <3>2 DEF Trees
    <2> QED
      BY <2>1, <2>2 DEF Trees
  <1>6. ASSUME NEW n \in DOMAIN T \ DOMAIN S, NEW t \in Lineage(T, n)
        PROVE  t = n
    BY <1>3, <1>5, LineageOfPrefix
  <1>7. ASSUME NEW s \in DOMAIN S, NEW t \in Lineage(T, s), t \in DOMAIN S
        PROVE  t \in Lineage(S, s)
    <2> DEFINE X == Lineage(S, s) \cup (DOMAIN T \ DOMAIN S)
    <2>1. s \in X /\ s \in DOMAIN T
      BY LineageSelf DEF Prefixed
    <2>2. ASSUME NEW u \in DOMAIN T, T[u].next \in X, T[u].next \in DOMAIN T PROVE u \in X
      <3>1. CASE u \in DOMAIN S
        <4>1. T[u] = S[u] /\ S[u].next # NoSeries
          BY <1>2, <2>2, <3>1 DEF Prefixed
        <4>2. S[u].next \in DOMAIN S
          BY <1>1, <3>1, <4>1 DEF Links
        <4>3. S[u].next \in Lineage(S, s)
          BY <2>2, <4>1, <4>2
        <4> QED
          BY <3>1, <4>3, LineageBack
      <3>2. CASE u \notin DOMAIN S
        BY <3>2
      <3> QED
        BY <3>1, <3>2
    <2> HIDE DEF X
    <2>3. Lineage(T, s) \subseteq X
      BY <2>1, <2>2, LineageLeast
    <2> QED
      BY <1>7, <2>3 DEF X
  <1>8. ASSUME NEW s \in DOMAIN T, NEW n \in Lineage(T, s), n \notin DOMAIN S, s # n
        PROVE  T[n].next = s
    <2>1. n \in DOMAIN T /\ n \notin DOMAIN S
      BY <1>8, LineageIn
    <2>2. T[n].next \in Lineage(T, s)
      BY <1>8, LineageNext
    <2>3. T[n].next \in DOMAIN S /\ T[T[n].next].next = NoSeries
      BY <2>1 DEF Prefixed
    <2> SUFFICES ASSUME T[n].next # s PROVE FALSE
      OBVIOUS
    <2>4. T[T[n].next].next \in Lineage(T, s)
      BY <2>2, LineageNext
    <2> QED
      BY <1>2, <2>3, <2>4, LineageIn
  <1>9. ASSUME NEW s \in DOMAIN T, NEW n \in Lineage(T, s), NEW m \in Lineage(T, s),
               n \notin DOMAIN S, m \notin DOMAIN S
        PROVE  n = m
    <2>1. n \in DOMAIN T /\ m \in DOMAIN T
      BY LineageIn
    <2>2. CASE s \in DOMAIN S
      <3>1. T[n].next = s /\ T[m].next = s
        BY <1>8, <1>9, <2>2
      <3> QED
        BY <1>9, <2>1, <3>1 DEF Prefixed
    <2>3. CASE s \notin DOMAIN S
      BY <1>6, <2>3
    <2> QED
      BY <2>2, <2>3
  <1>10. PrefixDates(T)
    <2>1. ASSUME NEW p \in DOMAIN T, NEW s \in DOMAIN T, IsPrefix(T, p), ~IsPrefix(T, s)
          PROVE  T[p].until < T[s].from
      <3>1. s \in DOMAIN S /\ ~IsPrefix(S, s) /\ T[s] = S[s] /\ until < S[s].from
        BY <1>3, <2>1 DEF Prefixed
      <3>2. CASE p \in DOMAIN S
        <4>1. IsPrefix(S, p) /\ T[p] = S[p]
          BY <1>3, <2>1, <3>2 DEF Prefixed
        <4> QED
          BY <1>1, <3>1, <3>2, <4>1 DEF PrefixDates
      <3>3. CASE p \notin DOMAIN S
        <4>1. T[p].until = until
          BY <3>3 DEF Prefixed
        <4> QED
          BY <3>1, <4>1
      <3> QED
        BY <3>2, <3>3
    <2>2. ASSUME NEW s \in DOMAIN T, NEW p \in Lineage(T, s), NEW q \in Lineage(T, s),
                 IsPrefix(T, p), IsPrefix(T, q), p # q
          PROVE  T[p].until < T[q].from \/ T[q].until < T[p].from
      <3>1. p \in DOMAIN T /\ q \in DOMAIN T
        BY LineageIn
      <3>2. CASE p \in DOMAIN S /\ q \in DOMAIN S
        <4>1. /\ IsPrefix(S, p) /\ T[p] = S[p] /\ IsPrefix(S, q) /\ T[q] = S[q]
          BY <1>3, <2>2, <3>1, <3>2 DEF Prefixed
        <4>2. s \in DOMAIN S
          BY <1>6, <2>2, <3>2
        <4>3. p \in Lineage(S, s) /\ q \in Lineage(S, s)
          BY <1>7, <3>2, <4>2
        <4> QED
          BY <1>1, <2>2, <4>1, <4>2, <4>3 DEF PrefixDates
      <3>3. CASE p \in DOMAIN S /\ q \notin DOMAIN S
        BY <3>1, <3>3 DEF Prefixed
      <3>4. CASE p \notin DOMAIN S /\ q \in DOMAIN S
        BY <3>1, <3>4 DEF Prefixed
      <3>5. CASE p \notin DOMAIN S /\ q \notin DOMAIN S
        BY <1>9, <2>2, <3>5
      <3> QED
        BY <3>2, <3>3, <3>4, <3>5
    <2> QED
      BY <2>1, <2>2 DEF PrefixDates
  <1>11. FactDates(T, M)
    <2> SUFFICES ASSUME NEW s \in DOMAIN T, NEW d \in Date, Fact(M, s, d)
                 PROVE  T[s].from <= d /\ (IsPrefix(T, s) => d <= T[s].until)
      BY DEF FactDates
    <2>1. CASE s \in DOMAIN S
      <3>1. S[s].from <= d /\ (IsPrefix(S, s) => d <= S[s].until)
        BY <1>1, <2>1 DEF FactDates
      <3> QED
        BY <1>3, <2>1, <3>1 DEF Prefixed
    <2>2. CASE s \notin DOMAIN S
      <3>1. T[s].from = from /\ T[s].until = until /\ from <= d /\ d <= until
        BY <2>2 DEF Prefixed
      <3> QED
        BY <3>1
    <2> QED
      BY <2>1, <2>2
  <1>12. OneFactInOrder(T, M)
    <2> SUFFICES ASSUME NEW s \in DOMAIN T, InOrder(T, s),
                        NEW t \in Lineage(T, s), NEW u \in Lineage(T, s),
                        NEW d \in Date, Fact(M, t, d), Fact(M, u, d), t # u
                 PROVE  FALSE
      BY DEF OneFactInOrder, OneFact
    <2>1. t \in DOMAIN T /\ u \in DOMAIN T
      BY LineageIn
    <2>2. ASSUME NEW v \in DOMAIN S, NEW n \in DOMAIN T \ DOMAIN S, Fact(M, v, d), Fact(M, n, d)
          PROVE  FALSE
      <3>1. S[v].from <= d /\ d <= until /\ until < S[v].from
        BY <1>1, <2>2 DEF FactDates, Prefixed
      <3>2. d \in Int /\ S[v].from \in Int
        BY RowTypes, PlanAssumption DEF Date
      <3> QED
        BY <3>1, <3>2
    <2>3. CASE t \in DOMAIN S /\ u \in DOMAIN S
      <3>1. s \in DOMAIN S
        BY <1>6, <2>3
      <3>2. t \in Lineage(S, s) /\ u \in Lineage(S, s) /\ Fact(L, t, d) /\ Fact(L, u, d)
        BY <1>7, <2>3, <3>1
      <3>3. InOrder(S, s)
        <4>1. \A v \in DOMAIN S : v \in DOMAIN T /\ T[v] = S[v]
          BY DEF Prefixed
        <4>2. Lineage(S, s) \subseteq Lineage(T, s)
          BY <3>1, <4>1, LineageShrinks
        <4>3. \A v \in Lineage(S, s) : T[v] = S[v]
          BY <4>1, LineageIn
        <4> QED
          BY <4>2, <4>3, InOrderWithin
      <3> QED
        BY <1>1, <3>1, <3>2, <3>3 DEF OneFactInOrder, OneFact
    <2>4. CASE t \notin DOMAIN S /\ u \notin DOMAIN S
      BY <1>9, <2>4
    <2> QED
      BY <2>1, <2>2, <2>3, <2>4
  <1> QED
    BY <1>4, <1>5, <1>10, <1>11, <1>12 DEF ShapeOK

-----------------------------------------------------------------------------
(* The steps.                                                              *)

UnusedIsNone ==
  \A s \in 1 .. MaxSeries, d \in Date : s > Len(series) => lesson[s][d] = "none"

\* So that a prefix, which ends the day before the plan begins, precedes all.
StartsWithPlan == \A s \in Series : plan.from <= series[s].from

ShapeInv ==
  /\ SeriesInv
  /\ UnusedIsNone
  /\ StartsWithPlan
  /\ ShapeOK(series, lesson)

LEMMA InitShapeInv == Init => ShapeInv
  <1> SUFFICES ASSUME Init PROVE ShapeInv
    OBVIOUS
  <1>1. SeriesInv
    BY InitSeriesInv
  <1>2. series = << >> /\ Series = {}
    BY DEF Init, Series
  <1>3. series \in Seq(SeriesRow) /\ DOMAIN series = {}
    BY <1>2 DEF Series
  <1>4. ShapeOK(series, lesson)
    BY <1>3, FreshShape
  <1>5. UnusedIsNone /\ StartsWithPlan
    BY <1>2 DEF Init, UnusedIsNone, StartsWithPlan
  <1> QED
    BY <1>1, <1>4, <1>5 DEF ShapeInv

\* Only the added series are filled, with dates of theirs that are free in their
\* lineage, or were just emptied.
LEMMA AddedFacts ==
  ASSUME TypeOK,
         NEW S \in Seq(SeriesRow), Len(S) <= MaxSeries,
         NEW n \in Nat, Len(S) = Len(series) + n,
         NEW L, NEW R,
         \A s \in 1 .. MaxSeries, d \in Date : s > Len(series) => L[s][d] = "none",
         MaterializeAdded(S, L, Added(n), R)
  PROVE  /\ series' = S
         /\ Series \subseteq DOMAIN S
         /\ \A s \in Series : lesson'[s] = L[s]
         /\ \A s \in DOMAIN S \ Series, d \in Date : Fact(lesson', s, d) =>
              Within(S[s], d) /\ d \notin Occupied(S, L, s, R[s])
         /\ UnusedIsNone'
  <1> DEFINE dates(s) == Candidates(S, L, s, S[s].from, today, R[s])
  <1>1. /\ series' = S
        /\ lesson' = [s \in 1 .. MaxSeries |->
                        IF s \in Added(n) THEN Filled(L[s], dates(s)) ELSE L[s]]
    BY DEF MaterializeAdded
  <1>2. Len(series) \in Nat /\ Len(S) \in Nat /\ MaxSeries \in Nat
        /\ Series = 1 .. Len(series) /\ DOMAIN S = 1 .. Len(S)
    BY PlanAssumption DEF TypeOK, Series
  <1>3. DOMAIN S \ Series = Added(n) /\ Series \subseteq DOMAIN S
        /\ Series \cap Added(n) = {} /\ DOMAIN S \subseteq 1 .. MaxSeries
    BY <1>2 DEF Added
  <1>4. ASSUME NEW s \in Added(n)
        PROVE  \A d \in dates(s) : Within(S[s], d) /\ d \notin Occupied(S, L, s, R[s])
    <2>1. s \in DOMAIN S /\ S[s].from \in Int
      BY <1>3, RowTypes
    <2>2. S[s].from <= S[s].from
      BY <2>1
    <2> HIDE DEF dates
    <2>3. \A d \in Candidates(S, L, s, S[s].from, today, R[s]) : Within(S[s], d)
      BY <2>1, <2>2, CandidatesWithin
    <2>4. \A d \in Candidates(S, L, s, S[s].from, today, R[s]) : d \notin Occupied(S, L, s, R[s])
      BY DEF Candidates
    <2> QED
      BY <2>3, <2>4 DEF dates
  <1> HIDE DEF dates
  <1>5. \A s \in Series : lesson'[s] = L[s]
    BY <1>1, <1>3
  <1>6. ASSUME NEW s \in Added(n), NEW d \in Date, Fact(lesson', s, d)
        PROVE  d \in dates(s)
    <2>1. lesson'[s][d] = IF d \in dates(s) THEN "scheduled" ELSE L[s][d]
      BY <1>1, <1>3 DEF Filled
    <2>2. L[s][d] = "none"
      BY <1>2, <1>3 DEF Added
    <2> QED
      BY <1>6, <2>1, <2>2 DEF Fact
  <1>7. UnusedIsNone'
    <2> SUFFICES ASSUME NEW s \in 1 .. MaxSeries, NEW d \in Date, s > Len(S)
                 PROVE  lesson'[s][d] = "none"
      BY <1>1 DEF UnusedIsNone
    <2>1. s \notin Added(n) /\ s > Len(series)
      BY <1>2 DEF Added
    <2> QED
      BY <1>1, <2>1
  <1> QED
    BY <1>1, <1>3, <1>4, <1>5, <1>6, <1>7

LEMMA CreateShape ==
  ASSUME ShapeInv, SeriesInv', NEW from \in Date, NEW until \in Ends, NEW rows \in RowLists({}),
         CreatePlan(rows, from, until)
  PROVE  ShapeInv'
  <1> DEFINE S == [i \in 1 .. Len(rows) |-> NewSeries(rows[i].row, from, until, NoSeries)]
  <1>1. Len(rows) \in Nat /\ DOMAIN rows = 1 .. Len(rows)
    BY RowListFacts
  <1>2. /\ plan.status = "none" /\ Len(rows) <= MaxSeries
        /\ plan' = [status |-> "active", from |-> from, until |-> until]
        /\ MaterializeAdded(S, lesson, Added(Len(rows)), NothingEmptied)
    BY <1>1 DEF CreatePlan
  <1>3. TypeOK /\ UnusedIsNone /\ series = << >> /\ Len(series) = 0 /\ Series = {}
    BY <1>2 DEF ShapeInv, SeriesInv, NoPlanNoSeries, Series
  <1>4. series' \in Seq(SeriesRow) /\ series' = S
    BY <1>2 DEF SeriesInv, TypeOK, MaterializeAdded
  <1>5. /\ DOMAIN S = 1 .. Len(rows)
        /\ \A s \in DOMAIN S : S[s].from = from /\ S[s].next = NoSeries
    BY DEF NewSeries
  <1> HIDE DEF S
  <1>6. Len(S) = Len(rows) /\ S \in Seq(SeriesRow)
    BY <1>1, <1>4, <1>5
  <1>7. Len(S) = Len(series) + Len(rows) /\ Len(S) <= MaxSeries
    BY <1>1, <1>2, <1>3, <1>6
  <1>8. /\ \A s \in DOMAIN S \ Series, d \in Date : Fact(lesson', s, d) => Within(S[s], d)
        /\ UnusedIsNone'
    <2>1. \A s \in 1 .. MaxSeries, d \in Date : s > Len(series) => lesson[s][d] = "none"
      BY <1>3 DEF UnusedIsNone
    <2> QED
      BY <1>1, <1>2, <1>3, <1>6, <1>7, <2>1, AddedFacts
  <1>9. ShapeOK(series', lesson')
    <2>1. \A s \in DOMAIN S, d \in Date : Fact(lesson', s, d) => S[s].from <= d
      BY <1>3, <1>8 DEF Within
    <2>2. \A s \in DOMAIN S : S[s].next = NoSeries
      BY <1>5
    <2>3. ShapeOK(S, lesson')
      BY <1>6, <2>1, <2>2, FreshShape
    <2> QED
      BY <1>4, <2>3
  <1>10. StartsWithPlan'
    BY <1>2, <1>4, <1>5, PlanAssumption DEF StartsWithPlan, Series, Date
  <1> QED
    BY <1>8, <1>9, <1>10 DEF ShapeInv

\* A step that adds no series, ends only current ones and adds no lesson.
LEMMA NothingAddedShape ==
  ASSUME ShapeInv, SeriesInv',
         DOMAIN series' = Series,
         \A s \in Series : /\ series'[s].next = series[s].next
                           /\ series'[s].from = series[s].from
                           /\ series[s].next # NoSeries => series'[s] = series[s],
         \A s \in 1 .. MaxSeries, d \in Date :
           /\ Fact(lesson', s, d) => Fact(lesson, s, d)
           /\ lesson[s][d] = "none" => lesson'[s][d] = "none",
         plan'.from = plan.from
  PROVE  ShapeInv'
  <1>1. /\ series \in Seq(SeriesRow) /\ series' \in Seq(SeriesRow)
        /\ Series = 1 .. Len(series) /\ Series \subseteq 1 .. MaxSeries
        /\ ShapeOK(series, lesson)
    BY PlanAssumption DEF ShapeInv, SeriesInv, TypeOK, Series
  <1>2. Len(series') = Len(series)
    BY <1>1 DEF Series
  <1>3. ShapeOK(series', lesson')
    <2>1. \A s \in DOMAIN series, d \in Date : Fact(lesson', s, d) => Fact(lesson, s, d)
      BY <1>1 DEF Series
    <2>2. DOMAIN series' = DOMAIN series
          /\ \A s \in DOMAIN series : /\ series'[s].next = series[s].next
                                      /\ series'[s].from = series[s].from
                                      /\ series[s].next # NoSeries => series'[s] = series[s]
      BY DEF Series
    <2> QED
      BY <1>1, <2>1, <2>2, KeptShape
  <1>4. UnusedIsNone'
    BY <1>2 DEF ShapeInv, UnusedIsNone
  <1>5. StartsWithPlan'
    <2>1. Series' = Series
      BY DEF Series
    <2> QED
      BY <2>1 DEF ShapeInv, StartsWithPlan
  <1> QED
    BY <1>3, <1>4, <1>5 DEF ShapeInv

LEMMA ClosedBeforeSame ==
  ASSUME NEW row \in SeriesRow, NEW from, NEW next
  PROVE  /\ ClosedBefore(row, from, next).from = row.from
         /\ ClosedBefore(row, from, next).next = next
  BY DEF ClosedBefore, SeriesRow

\* Current rows that are closed, and lessons of theirs that are cancelled.
LEMMA CancelledShape ==
  ASSUME ShapeInv, SeriesInv', NEW ending, ending \subseteq Current, NEW from, NEW closing,
         DOMAIN series' = Series,
         \A s \in Series : series'[s] = IF s \in ending
                                        THEN ClosedBefore(series[s], closing, NoSeries)
                                        ELSE series[s],
         lesson' = Cancelled(ending, from),
         plan'.from = plan.from
  PROVE  ShapeInv'
  <1>1. \A s \in Series : series[s] \in SeriesRow
    BY DEF ShapeInv, SeriesInv, TypeOK, Series
  <1>2. \A s \in Series : s \in ending => series[s].next = NoSeries
    BY DEF Current
  <1>3. ASSUME NEW s \in Series
        PROVE  /\ series'[s].next = series[s].next
               /\ series'[s].from = series[s].from
               /\ series[s].next # NoSeries => series'[s] = series[s]
    BY <1>1, <1>2, ClosedBeforeSame
  <1>4. \A s \in 1 .. MaxSeries, d \in Date :
          /\ Fact(lesson', s, d) => Fact(lesson, s, d)
          /\ lesson[s][d] = "none" => lesson'[s][d] = "none"
    BY DEF Cancelled, Fact
  <1> QED
    BY <1>3, <1>4, NothingAddedShape

LEMMA EndShape ==
  ASSUME ShapeInv, SeriesInv', NEW last \in Date, EndPlan(last)
  PROVE  ShapeInv'
  <1>1. /\ plan' = [plan EXCEPT !.status = "ended", !.until = last]
        /\ series' = [s \in Series |->
             IF s \in Current THEN ClosedBefore(series[s], last + 1, NoSeries) ELSE series[s]]
        /\ lesson' = Cancelled(Current, last + 1)
    BY DEF EndPlan, Finish
  <1>2. plan'.from = plan.from
    BY <1>1 DEF ShapeInv, SeriesInv, TypeOK
  <1> QED
    BY <1>1, <1>2, CancelledShape

LEMMA RemoveRowShape ==
  ASSUME ShapeInv, SeriesInv', NEW r \in Series, NEW from \in Date, RemoveRow(r, from)
  PROVE  ShapeInv'
  <1>1. r \in Current /\ lesson' = Cancelled({r}, from)
    BY DEF RemoveRow
  <1>2. CASE Current = {r}
    <2>1. PICK last : Finish(last)
      BY <1>2 DEF RemoveRow
    <2>2. /\ plan' = [plan EXCEPT !.status = "ended", !.until = last]
          /\ series' = [s \in Series |->
               IF s \in Current THEN ClosedBefore(series[s], last + 1, NoSeries) ELSE series[s]]
          /\ lesson' = Cancelled(Current, from)
      BY <1>1, <1>2, <2>1 DEF Finish
    <2>3. plan'.from = plan.from
      BY <2>2 DEF ShapeInv, SeriesInv, TypeOK
    <2> QED
      BY <2>2, <2>3, CancelledShape
  <1>3. CASE Current # {r}
    <2>1. /\ series' = [series EXCEPT ![r] = ClosedBefore(series[r], from, NoSeries)]
          /\ plan'.from = plan.from
      BY <1>3 DEF RemoveRow
    <2>2. /\ DOMAIN series' = Series
          /\ \A s \in Series : series'[s] = IF s \in {r}
                                            THEN ClosedBefore(series[s], from, NoSeries)
                                            ELSE series[s]
      BY <2>1 DEF Series
    <2>3. {r} \subseteq Current
      BY <1>1
    <2> QED
      BY <1>1, <2>1, <2>2, <2>3, CancelledShape
  <1> QED
    BY <1>2, <1>3

LEMMA LessonTakenShape ==
  ASSUME ShapeInv, SeriesInv', UNCHANGED <<plan, series>>,
         \A s \in 1 .. MaxSeries, d \in Date :
           /\ Fact(lesson', s, d) => Fact(lesson, s, d)
           /\ lesson[s][d] = "none" => lesson'[s][d] = "none"
  PROVE  ShapeInv'
  BY NothingAddedShape DEF Series

LEMMA SetLessonKeepsFacts ==
  ASSUME TypeOK, NEW s \in Series, NEW d \in Date, NEW states, NEW state,
         states \subseteq {"scheduled", "custom", "pending"}, SetLesson(s, d, states, state)
  PROVE  \A t \in 1 .. MaxSeries, e \in Date :
           /\ Fact(lesson', t, e) => Fact(lesson, t, e)
           /\ lesson[t][e] = "none" => lesson'[t][e] = "none"
  <1>1. lesson \in Lessons
    BY DEF TypeOK, Lessons
  <1>2. lesson' = [lesson EXCEPT ![s] = [lesson[s] EXCEPT ![d] = state]]
        /\ lesson[s][d] \in states
    BY DEF SetLesson
  <1> QED
    BY <1>1, <1>2 DEF Lessons, Fact

LEMMA StaffShape ==
  ASSUME ShapeInv, SeriesInv', LessonCommand
  PROVE  ShapeInv'
  <1>1. TypeOK
    BY DEF ShapeInv, SeriesInv
  <1>2. ASSUME NEW s \in Series, NEW d \in Date,
               \/ EditDecision(s, d) \/ CancelLesson(s, d) \/ DeleteLesson(s, d) \/ Settle(s, d)
               \/ \E place \in Spots : Reschedule(s, d, place)
        PROVE  ShapeInv'
    <2>1. /\ \E states, state : /\ states \subseteq {"scheduled", "custom", "pending"}
                                /\ SetLesson(s, d, states, state)
          /\ UNCHANGED <<plan, series>>
      <3>1. CASE EditDecision(s, d) \/ CancelLesson(s, d)
        BY <3>1 DEF EditDecision, CancelLesson, Edit
      <3>2. CASE DeleteLesson(s, d) \/ Settle(s, d)
        BY <3>2 DEF DeleteLesson, Settle, Edit
      <3>3. CASE \E place \in Spots : Reschedule(s, d, place)
        BY <3>3 DEF Reschedule, Edit
      <3> QED
        BY <1>2, <3>1, <3>2, <3>3
    <2> QED
      BY <1>1, <2>1, SetLessonKeepsFacts, LessonTakenShape
  <1>3. ASSUME NEW place \in Spots, Book(place) \/ Unbook(place)
        PROVE  ShapeInv'
    <2>1. UNCHANGED <<plan, series, lesson>>
      BY <1>3 DEF Book, Unbook, Edit
    <2> QED
      BY <2>1, LessonTakenShape
  <1> QED
    BY <1>2, <1>3 DEF LessonCommand

LEMMA WorkerShape ==
  ASSUME ShapeInv, SeriesInv', Worker
  PROVE  ShapeInv'
  <1>1. /\ TypeOK /\ WorkerReadSeries /\ UnusedIsNone /\ lesson \in Lessons
        /\ series \in Seq(SeriesRow) /\ ShapeOK(series, lesson)
        /\ Series = 1 .. Len(series) /\ Len(series) \in Nat
    BY DEF ShapeInv, SeriesInv, TypeOK, Lessons, Series
  <1>2. CASE \E s \in Series : ReadCandidates(s)
    <2>1. UNCHANGED <<plan, series, lesson>>
      BY <1>2 DEF ReadCandidates
    <2> QED
      BY <2>1, LessonTakenShape
  <1>3. CASE MaterializeSeries
    <2> DEFINE f == worker.series
               D == ToCreate(f, worker.now)
    <2>1. /\ lesson' = lesson \/ lesson' = [lesson EXCEPT ![f] = Filled(lesson[f], D)]
          /\ UNCHANGED <<plan, series>>
      BY <1>3 DEF MaterializeSeries
    <2>2. CASE f \in Series /\ lesson' # lesson
      <3>1. /\ series[f].from \in Int /\ worker.now \in Int
        BY <1>1, <2>2, RowTypes DEF TypeOK, Series
      <3>2. series[f].from <= Max(series[f].from, worker.now) /\ Max(series[f].from, worker.now) \in Int
        BY <3>1 DEF Max
      <3>3. D \subseteq Date /\ \A d \in D : Within(series[f], d)
        BY <1>1, <2>2, <3>2, CandidatesWithin DEF ToCreate, Series
      <3>4. \A d \in D, t \in Lineage(series, f) : ~Fact(lesson, t, d)
        BY DEF ToCreate, Candidates, Occupied, Fact
      <3> HIDE DEF D
      <3>5. \A t \in 1 .. MaxSeries : t # f => lesson'[t] = lesson[t]
        BY <1>1, <2>1 DEF Lessons
      <3>6. \A d \in Date : lesson'[f][d] = IF d \in D THEN "scheduled" ELSE lesson[f][d]
        <4>1. f \in DOMAIN lesson
          BY <1>1, <2>2, PlanAssumption DEF TypeOK, Lessons
        <4>2. lesson'[f] = Filled(lesson[f], D)
          BY <2>1, <2>2, <4>1
        <4> QED
          BY <4>2 DEF Filled
      <3>7. \A t \in Series, d \in Date : Fact(lesson', t, d) => Fact(lesson, t, d) \/ (t = f /\ d \in D)
        <4>1. Series \subseteq 1 .. MaxSeries
          BY <1>1, PlanAssumption DEF TypeOK
        <4> QED
          BY <3>5, <3>6, <4>1 DEF Fact
      <3>8. ShapeOK(series, lesson')
        <4>1. D \in SUBSET Date /\ f \in DOMAIN series
          BY <2>2, <3>3 DEF Series
        <4>2. \A t \in DOMAIN series, d \in Date :
                Fact(lesson', t, d) => Fact(lesson, t, d) \/ (t = f /\ d \in D)
          BY <3>7 DEF Series
        <4> HIDE DEF f
        <4> QED
          BY <1>1, <3>3, <3>4, <4>1, <4>2, FillKeepsOneFact
      <3>9. UnusedIsNone'
        BY <1>1, <2>1, <2>2, <3>5 DEF UnusedIsNone
      <3>10. StartsWithPlan'
        BY <2>1 DEF ShapeInv, StartsWithPlan, Series
      <3> QED
        BY <2>1, <3>8, <3>9, <3>10 DEF ShapeInv
    <2>3. CASE f \notin Series \/ lesson' = lesson
      <3>1. lesson' = lesson
        <4> SUFFICES ASSUME f \notin Series PROVE lesson' = lesson
          BY <2>3
        <4>1. f = 0
          BY <1>1 DEF WorkerReadSeries, NoSeries
        <4>2. f \notin DOMAIN lesson
          BY <1>1, <4>1, PlanAssumption DEF Lessons
        <4> HIDE DEF f, D
        <4> QED
          BY <1>1, <2>1, <4>2 DEF Lessons
      <3> QED
        BY <2>1, <3>1, LessonTakenShape
    <2> QED
      BY <2>2, <2>3
  <1> QED
    BY <1>2, <1>3 DEF Worker

LEMMA MoveStartShape ==
  ASSUME ShapeInv, SeriesInv', NEW from \in Date, MoveStartForward(from)
  PROVE  ShapeInv'
  <1>1. /\ Unchanged
        /\ \A s \in Series, d \in plan.from .. from - 1 : lesson[s][d] \in {"none", "scheduled"}
        /\ lesson' = [s \in 1 .. MaxSeries |->
                        Retired(lesson[s], {d \in Emptied(s, plan.from) : d < from})]
        /\ series' = [s \in Series |-> [series[s] EXCEPT !.from = from]]
        /\ plan' = [plan EXCEPT !.from = from]
    BY DEF MoveStartForward
  <1>2. /\ TypeOK /\ UnusedIsNone /\ FactDates(series, lesson)
        /\ series \in Seq(SeriesRow) /\ series' \in Seq(SeriesRow)
        /\ Series = 1 .. Len(series) /\ Series \subseteq 1 .. MaxSeries
    BY PlanAssumption DEF ShapeInv, SeriesInv, TypeOK, ShapeOK, Series
  <1>3. plan.from \in Int /\ from \in Int /\ plan'.from = from
    BY <1>1, <1>2, PlanAssumption DEF TypeOK, Date
  <1>4. DOMAIN series' = Series
        /\ \A s \in Series : series'[s].from = from /\ series'[s].next = NoSeries
    <2>1. \A s \in Series : series[s] \in SeriesRow /\ series[s].next = NoSeries
      BY <1>1, <1>2 DEF Unchanged, Current
    <2> QED
      BY <1>1, <2>1 DEF SeriesRow
  <1>5. \A s \in 1 .. MaxSeries, d \in Date :
          lesson'[s][d] = IF d \in Emptied(s, plan.from) /\ d < from
                          THEN "retired" ELSE lesson[s][d]
    BY <1>1 DEF Retired
  <1>6. ASSUME NEW s \in Series, NEW d \in Date, Fact(lesson', s, d)
        PROVE  from <= d
    <2> SUFFICES ASSUME ~(from <= d) PROVE FALSE
      OBVIOUS
    <2>1. d \in Int /\ d < from
      BY <1>3, PlanAssumption DEF Date
    <2>2. Fact(lesson, s, d) /\ d \notin Emptied(s, plan.from)
      BY <1>2, <1>5, <1>6, <2>1 DEF Fact
    <2>3. series[s].from <= d /\ series[s].from = plan.from
      BY <1>1, <1>2, <2>2 DEF FactDates, Unchanged, Series
    <2>4. d \in plan.from .. from - 1
      BY <1>3, <2>1, <2>3
    <2>5. lesson[s][d] = "scheduled"
      BY <1>1, <2>2, <2>4 DEF Fact
    <2> QED
      BY <2>1, <2>2, <2>3, <2>5 DEF Emptied
  <1>7. ShapeOK(series', lesson')
    BY <1>2, <1>4, <1>6, FreshShape
  <1>8. UnusedIsNone'
    <2>1. Len(series') = Len(series)
      BY <1>2, <1>4
    <2> QED
      BY <1>2, <1>5, <2>1 DEF UnusedIsNone, Emptied
  <1>9. StartsWithPlan'
    BY <1>3, <1>4 DEF StartsWithPlan, Series
  <1> QED
    BY <1>7, <1>8, <1>9 DEF ShapeInv

\* A series that was closed ends before the date, or is deleted.
LEMMA ClosedBeforeEnds ==
  ASSUME NEW row \in SeriesRow, NEW from \in Date, NEW next
  PROVE  LET new == ClosedBefore(row, from, next) IN new.deleted \/ new.until < from
  <1>1. row.from \in Int /\ row.until \in Int /\ row.deleted \in BOOLEAN /\ from \in Int
    BY PlanAssumption DEF SeriesRow, Date, Open
  <1>2. /\ ClosedBefore(row, from, next).until
             = IF row.until >= from /\ row.from < from THEN from - 1 ELSE row.until
        /\ ClosedBefore(row, from, next).deleted = (row.deleted \/ row.from >= from)
    BY DEF ClosedBefore, SeriesRow
  <1>3. CASE row.from >= from
    BY <1>2, <1>3
  <1>4. CASE ~(row.from >= from)
    <2>1. ClosedBefore(row, from, next).until < from
      BY <1>1, <1>2, <1>4
    <2> QED
      BY <2>1
  <1> QED
    BY <1>3, <1>4

LEMMA ReplaceShape ==
  ASSUME ShapeInv, SeriesInv', NEW from \in Date, NEW until \in Ends,
         NEW rows \in RowLists(Current), ReplaceFrom(rows, from, until)
  PROVE  ShapeInv'
  <1> DEFINE chosen(s) == CHOOSE i \in DOMAIN rows : rows[i].origin = s
             continuation(s) ==
               IF \E i \in DOMAIN rows : rows[i].origin = s
               THEN Len(series) + chosen(s) ELSE NoSeries
             old == [s \in Series |-> IF s \in Current
                                      THEN ClosedBefore(series[s], from, continuation(s))
                                      ELSE series[s]]
             added == [i \in DOMAIN rows |-> NewSeries(rows[i].row, from, until, NoSeries)]
             T == old \o added
             L == [s \in 1 .. MaxSeries |->
                     IF s \in Current THEN Retired(lesson[s], Emptied(s, from)) ELSE lesson[s]]
             emptied == [s \in Added(Len(rows)) |->
               LET origin == rows[s - Len(series)].origin
               IN IF origin = NoSeries THEN {} ELSE Emptied(origin, from)]
  <1>1. /\ from >= plan.from
        /\ Len(series) + Len(rows) <= MaxSeries
        /\ AfterBegin(from)
        /\ plan' = [plan EXCEPT !.until = until]
        /\ MaterializeAdded(T, L, Added(Len(rows)), emptied)
    BY DEF ReplaceFrom
  <1>2. /\ TypeOK /\ UnusedIsNone /\ StartsWithPlan /\ ShapeOK(series, lesson)
        /\ OneFactInOrder(series, lesson) /\ Links(series)
    BY DEF ShapeInv, SeriesInv, ShapeOK
  <1>3. /\ series \in Seq(SeriesRow) /\ Series = 1 .. Len(series) /\ Len(series) \in Nat
        /\ lesson \in Lessons /\ Current \subseteq Series /\ MaxSeries \in Nat
        /\ Series \subseteq 1 .. MaxSeries /\ DOMAIN series = Series
    BY <1>2, PlanAssumption DEF TypeOK, Series, Lessons, Current
  <1>4. /\ Len(rows) \in Nat /\ DOMAIN rows = 1 .. Len(rows)
    BY RowListFacts
  <1>5. T \in Seq(SeriesRow) /\ series' = T
    BY <1>1 DEF SeriesInv, TypeOK, MaterializeAdded
  <1>6. /\ DOMAIN T = 1 .. Len(series) + Len(rows)
        /\ \A s \in Series : T[s] = IF s \in Current
                                    THEN ClosedBefore(series[s], from, continuation(s))
                                    ELSE series[s]
        /\ \A s \in DOMAIN T \ Series : T[s].next = NoSeries /\ T[s].from = from
    <2>1. /\ Len(old) = Len(series) /\ DOMAIN old = 1 .. Len(series)
          /\ Len(added) = Len(rows) /\ DOMAIN added = 1 .. Len(rows)
      BY <1>3, <1>4
    <2>2. /\ \A s \in Series : old[s] = IF s \in Current
                                        THEN ClosedBefore(series[s], from, continuation(s))
                                        ELSE series[s]
          /\ \A i \in 1 .. Len(rows) : added[i].next = NoSeries /\ added[i].from = from
      BY <1>4 DEF NewSeries
    <2> HIDE DEF old, added, continuation
    <2>3. /\ DOMAIN T = 1 .. Len(series) + Len(rows)
          /\ \A s \in DOMAIN T : T[s] = IF s <= Len(series) THEN old[s] ELSE added[s - Len(series)]
      BY <1>3, <1>4, <2>1
    <2> HIDE DEF T
    <2>4. \A s \in DOMAIN T \ Series : s - Len(series) \in 1 .. Len(rows) /\ ~(s <= Len(series))
      BY <1>3, <1>4, <2>3
    <2>5. \A s \in Series : s \in DOMAIN T /\ s <= Len(series)
      BY <1>3, <1>4, <2>3
    <2> QED
      BY <2>2, <2>3, <2>4, <2>5
  <1>7. \A s \in Series : continuation(s) # NoSeries =>
          /\ chosen(s) \in 1 .. Len(rows) /\ rows[chosen(s)].origin = s
          /\ continuation(s) = Len(series) + chosen(s)
    BY <1>4
  <1>8. \A s \in 1 .. MaxSeries, d \in Date :
          L[s][d] = IF s \in Current /\ d \in Emptied(s, from) THEN "retired" ELSE lesson[s][d]
    BY DEF Retired
  <1>9. \A n \in Added(Len(rows)) :
          emptied[n] = IF rows[n - Len(series)].origin = NoSeries THEN {}
                       ELSE Emptied(rows[n - Len(series)].origin, from)
    OBVIOUS
  <1> HIDE DEF chosen, continuation, old, added, T, L, emptied
  <1>10. /\ Series \subseteq DOMAIN T
         /\ \A s \in Series : lesson'[s] = L[s]
         /\ \A s \in DOMAIN T \ Series, d \in Date : Fact(lesson', s, d) =>
              Within(T[s], d) /\ d \notin Occupied(T, L, s, emptied[s])
         /\ UnusedIsNone'
    <2>1. Len(T) = Len(series) + Len(rows) /\ Len(T) <= MaxSeries
      BY <1>1, <1>3, <1>4, <1>5, <1>6
    <2>2. \A s \in 1 .. MaxSeries, d \in Date : s > Len(series) => L[s][d] = "none"
      BY <1>2, <1>3, <1>8 DEF UnusedIsNone
    <2> QED
      BY <1>1, <1>2, <1>4, <1>5, <2>1, <2>2, AddedFacts
  <1>11. \A s \in Series : series[s] \in SeriesRow
    BY <1>3
  <1>12. Continued(series, T, Current, from)
    <2>1. \A s \in DOMAIN series, n \in DOMAIN T \ DOMAIN series : s < n
      BY <1>3, <1>4, <1>6
    <2>2. /\ \A s \in Current : series[s].next = NoSeries
          /\ \E s \in Current : series[s].from <= from
      BY <1>1 DEF AfterBegin, Current
    <2>3. \A s \in Current : T[s].next = continuation(s) /\ T[s].from = series[s].from
      BY <1>3, <1>6, <1>11, ClosedBeforeSame
    <2>4. \A s \in DOMAIN series : T[s].from = series[s].from
      BY <1>3, <1>6, <2>3
    <2>5. ASSUME NEW s \in Current, T[s].next # NoSeries
          PROVE  T[s].next \in DOMAIN T \ DOMAIN series /\ (T[s].deleted \/ T[s].until < from)
      <3>1. T[s].next = Len(series) + chosen(s) /\ chosen(s) \in 1 .. Len(rows)
        BY <1>3, <1>7, <2>3, <2>5
      <3>2. T[s].next \in DOMAIN T \ DOMAIN series
        BY <1>3, <1>4, <1>6, <3>1
      <3>3. T[s].deleted \/ T[s].until < from
        BY <1>3, <1>6, <1>11, ClosedBeforeEnds
      <3> QED
        BY <3>2, <3>3
    <2>6. ASSUME NEW s \in Current, NEW t \in Current,
                 T[s].next = T[t].next, T[s].next # NoSeries
          PROVE  s = t
      <3>1. /\ rows[chosen(s)].origin = s /\ rows[chosen(t)].origin = t
            /\ Len(series) + chosen(s) = Len(series) + chosen(t)
            /\ chosen(s) \in 1 .. Len(rows) /\ chosen(t) \in 1 .. Len(rows)
        BY <1>3, <1>7, <2>3, <2>6
      <3>2. chosen(s) = chosen(t)
        BY <1>3, <1>4, <3>1
      <3> QED
        BY <3>1, <3>2
    <2> QED
      BY <1>3, <1>6, <1>10, <2>1, <2>2, <2>4, <2>5, <2>6 DEF Continued
  <1>13. ASSUME NEW s \in Series, NEW d \in Date, Fact(lesson', s, d)
         PROVE  lesson'[s][d] = lesson[s][d]
    BY <1>3, <1>8, <1>10, <1>13 DEF Fact
  <1>14. ASSUME NEW n \in DOMAIN T \ Series, InOrder(T, n),
                NEW d \in Date, Fact(lesson', n, d),
                NEW t \in Lineage(T, n), t # n, Fact(lesson', t, d)
         PROVE  FALSE
    <2>0. /\ \A s \in DOMAIN series : Lineage(T, s) \subseteq Lineage(series, s)
          /\ \A m \in DOMAIN T \ DOMAIN series : \A u \in Lineage(T, m) :
               u = m \/ \E c \in Current : T[c].next = m /\ u \in Lineage(series, c)
      <3>1. T \in Seq(SeriesRow) /\ series \in Seq(SeriesRow)
        BY <1>3, <1>5
      <3>2. Links(series)
        BY <1>2
      <3> QED
        BY <1>12, <3>1, <3>2, ContinuedLineage
    <2>1. PICK c \in Current : T[c].next = n /\ t \in Lineage(series, c)
      BY <1>3, <1>14, <2>0
    <2>2. c \in Series /\ t \in Series
      BY <1>3, <2>1, LineageIn
    <2>3. d \notin Occupied(T, L, n, emptied[n]) /\ lesson'[t] = L[t]
      BY <1>10, <1>14, <2>2
    <2>4. L[t][d] \notin {"none", "retired"}
      BY <1>14, <2>3 DEF Fact
    <2>5. d \in emptied[n] /\ L[t][d] = "removed"
      BY <1>14, <2>3, <2>4 DEF Occupied
    <2>6. lesson[t][d] = "removed"
      BY <1>13, <1>14, <2>2, <2>3, <2>5
    <2>7. continuation(c) = n /\ n # NoSeries
      <3>1. T[c].next = continuation(c)
        BY <1>6, <1>11, <2>1, <2>2, ClosedBeforeSame
      <3>2. NoSeries \notin DOMAIN T
        BY <1>5, RowTypes DEF NoSeries
      <3> QED
        BY <2>1, <3>1, <3>2
    <2>8. n - Len(series) = chosen(c) /\ rows[chosen(c)].origin = c /\ chosen(c) \in 1 .. Len(rows)
          /\ n = Len(series) + chosen(c)
      BY <1>3, <1>4, <1>7, <2>2, <2>7
    <2>9. n \in Added(Len(rows))
      BY <1>3, <1>4, <2>8 DEF Added
    <2>10. lesson[c][d] = "scheduled"
      <3>1. rows[n - Len(series)].origin = c
        BY <2>8
      <3>2. emptied[n] = IF c = NoSeries THEN {} ELSE Emptied(c, from)
        BY <1>9, <2>9, <3>1
      <3> QED
        BY <2>5, <3>2 DEF Emptied
    <2>11. c \in Lineage(series, c) /\ c \in DOMAIN series
      BY <1>3, <2>2, LineageSelf
    <2>13. InOrder(series, c)
      <3>1. T \in Seq(SeriesRow) /\ series \in Seq(SeriesRow) /\ Links(series)
        BY <1>2, <1>3, <1>5
      <3>2. T[c].next \in DOMAIN T /\ InOrder(T, T[c].next)
        BY <1>14, <2>1
      <3> QED
        BY <1>12, <2>1, <3>1, <3>2, ContinuedInOrder
    <2>12. t = c
      BY <1>2, <2>1, <2>6, <2>10, <2>11, <2>13 DEF OneFactInOrder, OneFact, Fact
    <2> QED
      BY <2>6, <2>10, <2>12
  <1>15. ShapeOK(series', lesson')
    <2>1. \A s \in DOMAIN series, d \in Date : Fact(lesson', s, d) => Fact(lesson, s, d)
      BY <1>3, <1>13 DEF Fact
    <2>2. \A n \in DOMAIN T \ DOMAIN series, d \in Date : Fact(lesson', n, d) =>
            /\ from <= d
            /\ InOrder(T, n) => \A t \in Lineage(T, n) : t # n => ~Fact(lesson', t, d)
      <3> SUFFICES ASSUME NEW n \in DOMAIN T \ DOMAIN series, NEW d \in Date, Fact(lesson', n, d)
                   PROVE  /\ from <= d
                          /\ InOrder(T, n) => \A t \in Lineage(T, n) : t # n => ~Fact(lesson', t, d)
        OBVIOUS
      <3>1. Within(T[n], d) /\ T[n].from = from
        BY <1>3, <1>6, <1>10
      <3> QED
        BY <1>3, <1>14, <3>1 DEF Within
    <2>3. from \in Int
      BY PlanAssumption DEF Date
    <2>4. ShapeOK(T, lesson')
      BY <1>2, <1>3, <1>5, <1>12, <2>1, <2>2, <2>3, ContinuedShape
    <2> QED
      BY <1>5, <2>4
  <1>16. StartsWithPlan'
    <2>1. plan'.from = plan.from /\ plan.from \in Int /\ from \in Int
      BY <1>1, <1>2, PlanAssumption DEF TypeOK, Date
    <2>2. \A s \in Series : T[s].from = series[s].from
      BY <1>3, <1>12 DEF Continued
    <2> QED
      BY <1>1, <1>2, <1>5, <1>6, <2>1, <2>2 DEF StartsWithPlan, Series
  <1> QED
    BY <1>10, <1>15, <1>16 DEF ShapeInv

LEMMA Joined ==
  ASSUME NEW S, NEW T, NEW m \in Nat, NEW n \in Nat, Len(S) = m, Len(T) = n
  PROVE  /\ DOMAIN (S \o T) = 1 .. m + n
         /\ \A i \in 1 .. m + n : (S \o T)[i] = IF i <= m THEN S[i] ELSE T[i - m]
  OBVIOUS

LEMMA ExtendShape ==
  ASSUME ShapeInv, SeriesInv', NEW from \in Date, ExtendBackwards(from)
  PROVE  ShapeInv'
  <1>1. from < plan.from /\ plan' = [plan EXCEPT !.from = from]
    BY DEF ExtendBackwards
  <1>2. PICK n \in 1 .. MaxSeries - Len(series) : \E order \in [1 .. n -> Current] :
          /\ \A i, j \in 1 .. n : i < j => order[i] < order[j]
          /\ MaterializeAdded(series \o Prefixes(order, from), lesson, Added(n), NothingEmptied)
    BY DEF ExtendBackwards
  <1>3. PICK order \in [1 .. n -> Current] :
          /\ \A i, j \in 1 .. n : i < j => order[i] < order[j]
          /\ MaterializeAdded(series \o Prefixes(order, from), lesson, Added(n), NothingEmptied)
    BY <1>2
  <1> DEFINE T == series \o Prefixes(order, from)
             until == plan.from - 1
  <1>4. /\ TypeOK /\ UnusedIsNone /\ StartsWithPlan /\ ShapeOK(series, lesson)
    BY DEF ShapeInv, SeriesInv
  <1>5. /\ series \in Seq(SeriesRow) /\ Series = 1 .. Len(series) /\ Len(series) \in Nat
        /\ Current \subseteq Series /\ MaxSeries \in Nat /\ DOMAIN series = Series
        /\ n \in Nat /\ Len(series) + n <= MaxSeries
    BY <1>4, PlanAssumption DEF TypeOK, Series, Current
  <1>6. T \in Seq(SeriesRow) /\ series' = T
    BY <1>3 DEF SeriesInv, TypeOK, MaterializeAdded
  <1>7. /\ from \in Int /\ plan.from \in Int /\ until \in Int
        /\ plan'.from = from /\ until = plan.from - 1
    BY <1>1, <1>4, PlanAssumption DEF TypeOK, Date
  <1>8. /\ DOMAIN T = 1 .. Len(series) + n
        /\ \A s \in Series : T[s] = series[s]
        /\ \A i \in 1 .. n :
             /\ T[Len(series) + i].next = order[i]
             /\ T[Len(series) + i].from = from /\ T[Len(series) + i].until = until
    <2> DEFINE P == Prefixes(order, from)
    <2>1. /\ DOMAIN P = 1 .. n
          /\ \A i \in 1 .. n : P[i].next = order[i] /\ P[i].from = from /\ P[i].until = until
      BY DEF Prefixes, NewSeries
    <2>2. Len(P) = n
      BY <1>5, <2>1
    <2> HIDE DEF P, until
    <2>3. /\ DOMAIN (series \o P) = 1 .. Len(series) + n
          /\ \A s \in 1 .. Len(series) + n :
               (series \o P)[s] = IF s <= Len(series) THEN series[s] ELSE P[s - Len(series)]
      BY <1>5, <2>2, Joined
    <2>4. \A i \in 1 .. n : /\ Len(series) + i \in 1 .. Len(series) + n
                            /\ ~(Len(series) + i <= Len(series))
                            /\ Len(series) + i - Len(series) = i
      BY <1>5
    <2>5. \A s \in Series : s \in 1 .. Len(series) + n /\ s <= Len(series)
      BY <1>5
    <2>6. T = series \o P
      BY DEF P
    <2> HIDE DEF T
    <2>7. \A i \in 1 .. n : T[Len(series) + i] = P[i]
      BY <2>3, <2>4, <2>6
    <2>8. \A s \in Series : T[s] = series[s]
      BY <2>3, <2>5, <2>6
    <2> QED
      BY <2>1, <2>3, <2>6, <2>7, <2>8
  <1>9. ASSUME NEW m \in DOMAIN T \ Series
        PROVE  m - Len(series) \in 1 .. n /\ m = Len(series) + (m - Len(series))
    <2> HIDE DEF T
    <2> QED
      BY <1>5, <1>8
  <1>10. MaterializeAdded(T, lesson, Added(n), NothingEmptied)
    BY <1>3
  <1> HIDE DEF T, until
  <1>11. /\ \A s \in Series : lesson'[s] = lesson[s]
         /\ \A s \in DOMAIN T \ Series, d \in Date : Fact(lesson', s, d) => Within(T[s], d)
         /\ UnusedIsNone'
    <2>1. Len(T) = Len(series) + n /\ Len(T) <= MaxSeries
      BY <1>5, <1>6, <1>8
    <2>2. \A s \in 1 .. MaxSeries, d \in Date : s > Len(series) => lesson[s][d] = "none"
      BY <1>4 DEF UnusedIsNone
    <2> QED
      BY <1>4, <1>5, <1>6, <1>10, <2>1, <2>2, AddedFacts
  <1>12. Prefixed(series, T, from, until)
    <2>1. Series \subseteq DOMAIN T /\ \A s \in Series, m \in DOMAIN T \ Series : s < m
      BY <1>5, <1>8
    <2>2. \A s \in Series : series[s].from \in Int /\ plan.from <= series[s].from
      BY <1>4, <1>5, RowTypes DEF StartsWithPlan
    <2>3. \A s \in Series : T[s] = series[s] /\ from <= series[s].from /\ until < series[s].from
      BY <1>1, <1>7, <1>8, <2>2
    <2>4. ASSUME NEW m \in DOMAIN T \ Series
          PROVE  /\ T[m].next \in Series /\ series[T[m].next].next = NoSeries
                 /\ T[m].from = from /\ T[m].until = until
      <3>1. PICK i \in 1 .. n : m = Len(series) + i
        BY <1>9
      <3>2. T[m].next = order[i] /\ T[m].from = from /\ T[m].until = until
        BY <1>8, <3>1
      <3>3. order[i] \in Series /\ series[order[i]].next = NoSeries
        BY <1>5 DEF Current
      <3> QED
        BY <3>2, <3>3
    <2>5. ASSUME NEW m \in DOMAIN T \ Series, NEW k \in DOMAIN T \ Series, T[m].next = T[k].next
          PROVE  m = k
      <3>1. PICK i \in 1 .. n : m = Len(series) + i
        BY <1>9
      <3>2. PICK j \in 1 .. n : k = Len(series) + j
        BY <1>9
      <3>3. order[i] = order[j]
        BY <1>8, <2>5, <3>1, <3>2
      <3>4. order[i] \in Nat /\ order[j] \in Nat
        <4>1. order[i] \in Current /\ order[j] \in Current
          OBVIOUS
        <4>2. Series \subseteq Nat
          BY <1>5
        <4> QED
          BY <1>5, <4>1, <4>2
      <3>5. ~(order[i] < order[j]) /\ ~(order[j] < order[i])
        BY <3>3, <3>4
      <3>6. ~(i < j) /\ ~(j < i)
        BY <1>3, <3>5
      <3>7. i = j
        BY <1>5, <3>6
      <3> QED
        BY <3>1, <3>2, <3>7
    <2> QED
      BY <1>5, <2>1, <2>3, <2>4, <2>5 DEF Prefixed
  <1>13. ShapeOK(series', lesson')
    <2>1. \A s \in DOMAIN series, d \in Date : Fact(lesson', s, d) => Fact(lesson, s, d)
      BY <1>5, <1>11 DEF Fact
    <2>2. \A m \in DOMAIN T \ DOMAIN series, d \in Date :
            Fact(lesson', m, d) => from <= d /\ d <= until
      BY <1>5, <1>11, <1>12 DEF Within, Prefixed
    <2>3. ShapeOK(T, lesson')
      BY <1>4, <1>5, <1>6, <1>7, <1>12, <2>1, <2>2, PrefixedShape
    <2> QED
      BY <1>6, <2>3
  <1>14. StartsWithPlan'
    <2>1. \A s \in DOMAIN T : from <= T[s].from
      <3>1. \A s \in Series : from <= T[s].from
        BY <1>12, <1>5 DEF Prefixed
      <3>2. \A s \in DOMAIN T \ Series : from <= T[s].from
        BY <1>5, <1>7, <1>12 DEF Prefixed
      <3> QED
        BY <3>1, <3>2
    <2> QED
      BY <1>6, <1>7, <2>1 DEF StartsWithPlan, Series
  <1> QED
    BY <1>11, <1>13, <1>14 DEF ShapeInv

LEMMA ShapeStep == ShapeInv /\ [Next]_vars => ShapeInv'
  <1> SUFFICES ASSUME ShapeInv, [Next]_vars PROVE ShapeInv'
    OBVIOUS
  <1>1. SeriesInv'
    BY SeriesStep DEF ShapeInv
  <1>2. CASE NextDay
    <2>1. UNCHANGED <<plan, series, lesson>>
      BY <1>2 DEF NextDay
    <2> QED
      BY <1>1, <2>1, LessonTakenShape
  <1>3. CASE PlanCommand
    BY <1>1, <1>3, CreateShape, ReplaceShape, ExtendShape, MoveStartShape, EndShape,
       RemoveRowShape DEF PlanCommand
  <1>4. CASE LessonCommand
    BY <1>1, <1>4, StaffShape
  <1>5. CASE Worker
    BY <1>1, <1>5, WorkerShape
  <1>6. CASE UNCHANGED vars
    <2>1. UNCHANGED <<plan, series, lesson>>
      BY <1>6 DEF vars
    <2> QED
      BY <1>1, <2>1, LessonTakenShape
  <1> QED
    BY <1>2, <1>3, <1>4, <1>5, <1>6 DEF Next

LEMMA ShapeInvariant == Spec => []ShapeInv
  <1>1. ShapeInv /\ [Next]_vars => ShapeInv'
    BY ShapeStep
  <1> QED
    BY InitShapeInv, <1>1, PTL DEF Spec

-----------------------------------------------------------------------------
\* A date of a lineage has one lesson unless a row in it was continued from before
\* it had begun, which assertSchedulePlanEditOutsidePrefix refuses for the earliest
\* current row only: otherwise the dates that the worker and the commands find free
\* in the lineage of one series are free in every lineage that the series is of.
THEOREM OneLessonInOrder == Spec => []SecondFactOnlyOutOfOrder
  <1>1. ShapeInv => SecondFactOnlyOutOfOrder
    BY DEF ShapeInv, ShapeOK, OneFactInOrder, SecondFactOnlyOutOfOrder, Series
  <1> QED
    BY ShapeInvariant, <1>1, PTL

LEMMA ReplaceTakesEffect ==
  ASSUME ShapeInv, NEW from \in Date, NEW until \in Ends,
         NEW rows \in RowLists(Current), ReplaceFrom(rows, from, until),
         SeriesInv',
         NEW s \in Current, InOrder(series, s),
         series[s].from <= series'[Len(series')].from, NEW t \in Lineage(series, s),
         NEW d \in series'[Len(series')].from .. LastDate, lesson'[t][d] = "scheduled"
  PROVE  FALSE
  <1> DEFINE continuation(r) ==
               IF \E i \in DOMAIN rows : rows[i].origin = r
               THEN Len(series) + (CHOOSE i \in DOMAIN rows : rows[i].origin = r)
               ELSE NoSeries
             old == [r \in Series |-> IF r \in Current
                                      THEN ClosedBefore(series[r], from, continuation(r))
                                      ELSE series[r]]
             added == [i \in DOMAIN rows |-> NewSeries(rows[i].row, from, until, NoSeries)]
             L == [r \in 1 .. MaxSeries |->
                     IF r \in Current THEN Retired(lesson[r], Emptied(r, from)) ELSE lesson[r]]
             emptied == [r \in Added(Len(rows)) |->
               LET origin == rows[r - Len(series)].origin
               IN IF origin = NoSeries THEN {} ELSE Emptied(origin, from)]
  <1>1. MaterializeAdded(old \o added, L, Added(Len(rows)), emptied)
    BY DEF ReplaceFrom
  <1>2. /\ TypeOK /\ LessonsWithinSeries /\ Links(series) /\ series \in Seq(SeriesRow)
        /\ Series = 1 .. Len(series) /\ Len(series) \in Nat /\ DOMAIN series = Series
        /\ Series \subseteq 1 .. MaxSeries /\ Current \subseteq Series
    BY PlanAssumption DEF ShapeInv, SeriesInv, ShapeOK, TypeOK, Series, Current
  <1>3. Len(rows) \in Nat /\ DOMAIN rows = 1 .. Len(rows) /\ Len(rows) > 0
    <2>1. Len(rows) \in Nat /\ DOMAIN rows = 1 .. Len(rows)
      BY RowListFacts
    <2>2. \E r : rows = <<r>> \/ \E q : rows = <<r, q>>
      BY DEF RowLists
    <2> QED
      BY <2>1, <2>2
  <1>4. series'[Len(series')].from = from
    <2>1. series' = old \o added
      BY <1>1 DEF MaterializeAdded
    <2>2. Len(old) = Len(series) /\ Len(added) = Len(rows) /\ DOMAIN old = 1 .. Len(series)
          /\ DOMAIN added = 1 .. Len(rows)
      BY <1>2, <1>3
    <2>3. added[Len(rows)].from = from
      BY <1>3 DEF NewSeries
    <2> HIDE DEF old, added
    <2>4. Len(series') = Len(series) + Len(rows)
      <3>1. series' \in Seq(SeriesRow)
        BY DEF SeriesInv, TypeOK
      <3>2. DOMAIN (old \o added) = 1 .. Len(series) + Len(rows)
        <4>1. Len(series) \in Nat /\ Len(rows) \in Nat
          BY <1>2, <1>3
        <4>2. Len(old) = Len(series) /\ Len(added) = Len(rows)
          BY <2>2
        <4> QED
          BY ONLY <4>1, <4>2, Joined
      <3>3. DOMAIN series' = 1 .. Len(series) + Len(rows)
        BY <2>1, <3>2
      <3> QED
        BY <1>2, <1>3, <3>1, <3>3
    <2>5. series'[Len(series) + Len(rows)] = added[Len(rows)]
      BY <1>2, <1>3, <2>1, <2>2
    <2> QED
      BY <2>3, <2>4, <2>5
  <1>5. d \in Date /\ from <= d /\ d \in Int
    BY <1>4, PlanAssumption DEF Date
  <1>6. s \in Series /\ t \in Series
    BY <1>2, LineageIn
  <1>7. t \notin Added(Len(rows)) /\ t \in 1 .. MaxSeries
    BY <1>2, <1>3, <1>6 DEF Added
  <1>8. lesson'[t] = IF t \in Current THEN Retired(lesson[t], Emptied(t, from)) ELSE lesson[t]
    BY <1>1, <1>7 DEF MaterializeAdded
  <1>9. CASE t \in Current
    <2>1. lesson[t][d] = "scheduled" /\ d \notin Emptied(t, from)
      BY <1>5, <1>8, <1>9 DEF Retired
    <2> QED
      BY <1>5, <2>1 DEF Emptied
  <1>10. CASE t \notin Current
    <2>1. lesson[t][d] = "scheduled" /\ t # s
      BY <1>8, <1>10
    <2>2. ~series[t].deleted /\ d <= series[t].until
      BY <1>2, <1>5, <1>6, <2>1 DEF LessonsWithinSeries
    <2>3. series[t].deleted \/ series[t].until < series[s].from
      BY <1>2, <1>6, <2>1, LineageInOrder
    <2>4. series[s].from <= from
      BY <1>4
    <2>5. series[t].until \in Int /\ series[s].from \in Int /\ from \in Int
      BY <1>2, <1>6, RowTypes, PlanAssumption DEF Date
    <2> QED
      BY <1>5, <2>2, <2>3, <2>4, <2>5
  <1> QED
    BY <1>9, <1>10

\* Every change that adds series to a plan and keeps its start is a replacement.
LEMMA OnlyReplaceAdds ==
  ASSUME ShapeInv, SeriesInv', [Next]_vars,
         plan.status = "active", plan'.from = plan.from, Len(series') > Len(series)
  PROVE  \E from \in Date, until \in Ends, rows \in RowLists(Current) :
           ReplaceFrom(rows, from, until)
  <1>1. /\ series \in Seq(SeriesRow) /\ series' \in Seq(SeriesRow)
        /\ Len(series) \in Nat /\ Series = 1 .. Len(series)
        /\ plan \in [status : {"none", "active", "ended"}, from : Date, until : Date \cup {Open}]
    BY DEF ShapeInv, SeriesInv, TypeOK, Series
  <1>2. DOMAIN series' # Series
    <2> SUFFICES ASSUME DOMAIN series' = Series PROVE FALSE
      OBVIOUS
    <2>1. DOMAIN series' = 1 .. Len(series')
      BY <1>1
    <2>2. Len(series') = Len(series)
      BY <1>1, <2>1
    <2> QED
      BY <1>1, <2>2
  <1>3. series' # series
    BY <1>2 DEF Series
  <1>4. ~NextDay /\ ~LessonCommand /\ ~Worker /\ vars' # vars
    BY <1>3 DEF NextDay, LessonCommand, EditDecision, CancelLesson, DeleteLesson, Settle,
                Reschedule, Book, Unbook, Edit, Worker, ReadCandidates, MaterializeSeries, vars
  <1>5. ASSUME NEW from \in Date PROVE ~ExtendBackwards(from) /\ ~MoveStartForward(from)
    <2>1. from \in Int /\ plan.from \in Int
      BY <1>1, PlanAssumption DEF Date
    <2>2. ~ExtendBackwards(from)
      <3> SUFFICES ASSUME ExtendBackwards(from) PROVE FALSE
        OBVIOUS
      <3>1. from < plan.from /\ plan' = [plan EXCEPT !.from = from]
        BY DEF ExtendBackwards
      <3>2. plan'.from = from
        BY <1>1, <3>1
      <3> QED
        BY <2>1, <3>1, <3>2
    <2>3. ~MoveStartForward(from)
      BY <1>2 DEF MoveStartForward
    <2> QED
      BY <2>2, <2>3
  <1>6. ASSUME NEW last PROVE ~Finish(last)
    BY <1>2 DEF Finish
  <1>7. ASSUME NEW last \in Date PROVE ~EndPlan(last)
    BY <1>6 DEF EndPlan
  <1>8. ASSUME NEW s \in Series, NEW from \in Date PROVE ~RemoveRow(s, from)
    <2> SUFFICES ASSUME RemoveRow(s, from) PROVE FALSE
      OBVIOUS
    <2>1. series' = [series EXCEPT ![s] = ClosedBefore(series[s], from, NoSeries)]
      BY <1>6 DEF RemoveRow
    <2> QED
      BY <1>2, <2>1 DEF Series
  <1>9. PlanCommand
    BY <1>4 DEF Next
  <1> QED
    BY <1>5, <1>7, <1>8, <1>9 DEF PlanCommand

\* A change is in force from its date on, for every row that has begun by then and
\* was never continued from before it had begun: what it was continued from ended
\* before it began, and what it still had is retired with it.
THEOREM ChangeIsInForce == Spec => BegunRowsAreReplaced
  <1> DEFINE Effect ==
        Change => \A s \in Current :
          series[s].from <= series'[Len(series')].from /\ InOrder(series, s) => Replaced(s)
  <1>1. ShapeInv /\ ShapeInv' /\ [Next]_vars => Effect
    <2> SUFFICES ASSUME ShapeInv, ShapeInv', [Next]_vars, Change,
                        NEW s \in Current, InOrder(series, s),
                        series[s].from <= series'[Len(series')].from,
                        NEW t \in Lineage(series, s),
                        NEW d \in series'[Len(series')].from .. LastDate,
                        lesson'[t][d] = "scheduled"
                 PROVE  FALSE
      BY DEF Replaced
    <2>1. SeriesInv'
      BY DEF ShapeInv
    <2>2. /\ plan.status = "active" /\ Len(series') > Len(series)
          /\ plan'.from = plan.from
      BY DEF Change, ShapeInv, SeriesInv, TypeOK
    <2>3. \E from \in Date, until \in Ends, rows \in RowLists(Current) :
            ReplaceFrom(rows, from, until)
      BY <2>1, <2>2, OnlyReplaceAdds
    <2> QED
      BY <2>1, <2>3, ReplaceTakesEffect
  <1>2. ShapeInv /\ ShapeInv' /\ [Next]_vars => [Effect]_vars
    BY <1>1
  <1> QED
    BY ShapeInvariant, <1>2, PTL DEF Spec, BegunRowsAreReplaced
=============================================================================
