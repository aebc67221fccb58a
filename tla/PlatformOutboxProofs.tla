------------------------ MODULE PlatformOutboxProofs ------------------------
(***************************************************************************)
(* Theorems about PlatformOutbox, for any events, any number of process    *)
(* incarnations and any attempt limit: claims are exclusive, marks are     *)
(* fenced, nothing is published without a dispatch.                        *)
(***************************************************************************)
EXTENDS PlatformOutbox, TLAPS

\* A worker has claims only while it runs, and one it is acting on exactly
\* while it dispatches or marks it.
StageOK ==
    \A w \in Worker :
        /\ stage[w] \in {"idle", "down"} => batch[w] = {} /\ current[w] = NoClaim
        /\ stage[w] = "running" => current[w] = NoClaim
        /\ stage[w] \in {"dispatching", "delivered", "failed"} =>
              current[w] \in Claims
        /\ stage[w] = "delivered" => current[w].event \in dispatched

\* Claims are never newer than the row, and a row's claimant can only hold
\* the claim of the row's latest attempt.
ClaimsOK ==
    \A w \in Worker : \A c \in Held(w) :
        /\ c.attempt <= attempts[c.event]
        /\ claimedBy[c.event] = w => c.attempt = attempts[c.event]

OutboxInv ==
    /\ TypeOK
    /\ StageOK
    /\ ClaimsOK
    /\ AttemptsAreExclusive
    /\ PublishedWasDispatched
    /\ NotifiedOnce

-----------------------------------------------------------------------------
\* Workers hold fewer claims after any step that claims nothing, and the rows
\* they hold claims of keep their attempts.
Shrinks ==
    /\ \A w \in Worker : Held(w)' \subseteq Held(w)
    /\ attempts' = attempts
    /\ \A e \in Event, w \in Worker : claimedBy'[e] = w => claimedBy[e] = w

\* A step after which nobody holds a new claim preserves what is said of claims.
LEMMA ShrinkingKeepsClaims ==
    ASSUME ClaimsOK, AttemptsAreExclusive, TypeOK, TypeOK', Shrinks
    PROVE  ClaimsOK' /\ AttemptsAreExclusive'
  <1>1. ClaimsOK'
    <2> SUFFICES ASSUME NEW w \in Worker, NEW c \in Held(w)'
                 PROVE  /\ c.attempt <= attempts'[c.event]
                        /\ claimedBy'[c.event] = w => c.attempt = attempts'[c.event]
      BY DEF ClaimsOK
    <2>1. c \in Held(w)
      BY DEF Shrinks
    <2>2. c \in Claims
      BY <2>1 DEF TypeOK, Held
    <2>3. c.event \in Event
      BY <2>2 DEF Claims
    <2> QED
      BY <2>1, <2>3 DEF Shrinks, ClaimsOK
  <1>2. AttemptsAreExclusive'
    BY DEF Shrinks, AttemptsAreExclusive
  <1> QED
    BY <1>1, <1>2

LEMMA InitOutboxInv == Init => OutboxInv
  <1> SUFFICES ASSUME Init PROVE OutboxInv
    OBVIOUS
  <1>1. TypeOK
    BY MaxAttemptsAssumption DEF Init, TypeOK, Stages
  <1>2. \A w \in Worker : Held(w) = {}
    BY DEF Init, Held
  <1>3. StageOK /\ ClaimsOK /\ AttemptsAreExclusive
    BY <1>2 DEF Init, StageOK, ClaimsOK, AttemptsAreExclusive
  <1>4. PublishedWasDispatched /\ NotifiedOnce
    BY DEF Init, PublishedWasDispatched, NotifiedOnce
  <1> QED
    BY <1>1, <1>3, <1>4 DEF OutboxInv

\* Claiming hands out attempts that nobody has held before.
LEMMA ClaimOutboxInv ==
    ASSUME NEW w \in Worker, OutboxInv, ClaimOutbox(w)
    PROVE  OutboxInv'
  <1>1. PICK S \in SUBSET {e \in Event : Claimable(e)} :
          /\ claimedBy' = [e \in Event |-> IF e \in S THEN w ELSE claimedBy[e]]
          /\ attempts' = [e \in Event |->
                             IF e \in S THEN attempts[e] + 1 ELSE attempts[e]]
          /\ expired' = [e \in Event |-> e \notin S /\ expired[e]]
          /\ batch' = [batch EXCEPT ![w] =
                          {[event |-> e, attempt |-> attempts[e] + 1] : e \in S}]
    BY DEF ClaimOutbox, NextAttempt
  <1>2. /\ stage[w] = "idle" /\ stage' = [stage EXCEPT ![w] = "running"]
        /\ UNCHANGED <<status, due, current, notified, dispatched>>
    BY DEF ClaimOutbox, NextAttempt
  <1>3. \A e \in S : /\ e \in Event /\ attempts[e] \in Nat
                     /\ attempts[e] < MaxAttempts
    BY DEF Claimable, OutboxInv, TypeOK
  <1>4. batch[w] = {} /\ current[w] = NoClaim
    BY <1>2 DEF OutboxInv, StageOK
  <1>5. TypeOK'
    <2>1. attempts' \in [Event -> 0..MaxAttempts]
      BY <1>1, <1>3, MaxAttemptsAssumption DEF OutboxInv, TypeOK
    <2>2. batch' \in [Worker -> SUBSET Claims]
      <3>1. {[event |-> e, attempt |-> attempts[e] + 1] : e \in S} \subseteq Claims
        BY <1>3, MaxAttemptsAssumption DEF Claims
      <3> QED
        BY <3>1, <1>1 DEF OutboxInv, TypeOK
    <2>3. claimedBy' \in [Event -> Worker \union {NoWorker}]
      BY <1>1 DEF OutboxInv, TypeOK
    <2>4. expired' \in [Event -> BOOLEAN]
      BY <1>1 DEF OutboxInv, TypeOK
    <2>5. stage' \in [Worker -> Stages]
      BY <1>2 DEF OutboxInv, TypeOK, Stages
    <2> QED
      BY <2>1, <2>2, <2>3, <2>4, <2>5, <1>2 DEF OutboxInv, TypeOK
  <1>6. /\ Held(w)' = {[event |-> e, attempt |-> attempts[e] + 1] : e \in S}
        /\ \A v \in Worker \ {w} : Held(v)' = Held(v)
    BY <1>1, <1>2, <1>4 DEF Held, OutboxInv, TypeOK
  <1>7. StageOK'
    BY <1>1, <1>2, <1>4 DEF OutboxInv, StageOK, TypeOK
  <1>8. \A v \in Worker \ {w} : \A c \in Held(v) :
           /\ c.event \in Event
           /\ c.attempt <= attempts[c.event]
           /\ c.attempt \in Nat
    BY DEF OutboxInv, ClaimsOK, TypeOK, Held, Claims
  <1>9. ClaimsOK'
    <2> SUFFICES ASSUME NEW v \in Worker, NEW c \in Held(v)'
                 PROVE  /\ c.attempt <= attempts'[c.event]
                        /\ claimedBy'[c.event] = v => c.attempt = attempts'[c.event]
      BY DEF ClaimsOK
    <2>1. CASE v = w
      <3>1. PICK e \in S : c = [event |-> e, attempt |-> attempts[e] + 1]
        BY <2>1, <1>6
      <3> QED
        BY <3>1, <1>1, <1>3
    <2>2. CASE v # w
      <3>1. c \in Held(v) /\ c.event \in Event /\ attempts[c.event] \in Nat
        BY <2>2, <1>6, <1>8 DEF OutboxInv, TypeOK
      <3>2. CASE c.event \in S
        BY <3>1, <3>2, <2>2, <1>1, <1>8
      <3>3. CASE c.event \notin S
        BY <3>1, <3>3, <1>1 DEF OutboxInv, ClaimsOK
      <3> QED
        BY <3>2, <3>3
    <2> QED
      BY <2>1, <2>2
  <1>10. AttemptsAreExclusive'
    <2>1. ASSUME NEW v \in Worker, v # w
          PROVE  Held(v)' \intersect Held(w)' = {}
      <3> SUFFICES ASSUME NEW c, c \in Held(v), c \in Held(w)' PROVE FALSE
        BY <2>1, <1>6
      <3>1. PICK e \in S : c = [event |-> e, attempt |-> attempts[e] + 1]
        BY <1>6
      <3>2. c.attempt <= attempts[c.event]
        BY <2>1, <1>8
      <3> QED
        BY <3>1, <3>2, <1>3
    <2>2. \A u, v \in Worker : u # v /\ u # w /\ v # w
             => Held(u)' \intersect Held(v)' = {}
      BY <1>6 DEF OutboxInv, AttemptsAreExclusive
    <2> QED
      BY <2>1, <2>2 DEF AttemptsAreExclusive
  <1>11. PublishedWasDispatched' /\ NotifiedOnce'
    BY <1>2 DEF OutboxInv, PublishedWasDispatched, NotifiedOnce
  <1> QED
    BY <1>5, <1>7, <1>9, <1>10, <1>11 DEF OutboxInv

\* The steps of a worker's loop that do not touch the rows.
LEMMA LoopInv ==
    ASSUME NEW w \in Worker, OutboxInv,
           \/ TakeNext(w) \/ RunEnds(w) \/ DispatchReturns(w) \/ DispatchThrows(w)
           \/ MarkPublishedThrows(w) \/ MarkNotOwned(w) \/ MarkFailedThrows(w)
           \/ Crash(w)
    PROVE  OutboxInv'
  <1> USE DEF TakeNext, RunEnds, DispatchReturns, DispatchThrows, Materialize,
              MarkPublishedThrows, MarkNotOwned, MarkFailedThrows, Crash, Advance,
              rowVars
  <1>1. TypeOK'
    <2>1. UNCHANGED <<status, due, attempts, claimedBy, expired>>
      OBVIOUS
    <2>2. stage' \in [Worker -> Stages]
      BY DEF OutboxInv, TypeOK, Stages
    <2>3. batch' \in [Worker -> SUBSET Claims]
      BY DEF OutboxInv, TypeOK
    <2>4. current' \in [Worker -> Claims \union {NoClaim}]
      BY DEF OutboxInv, TypeOK
    <2>5. stage[w] = "dispatching" => current[w].event \in Event
      BY DEF OutboxInv, StageOK, Claims
    <2>6. notified' \in [Event -> Nat] /\ dispatched' \subseteq Event
      BY <2>5 DEF OutboxInv, TypeOK
    <2> QED
      BY <2>1, <2>2, <2>3, <2>4, <2>6 DEF OutboxInv, TypeOK
  <1>2. StageOK'
    BY DEF OutboxInv, TypeOK, StageOK
  <1>3. Shrinks
    <2>1. attempts' = attempts /\ claimedBy' = claimedBy
      OBVIOUS
    <2>2. \A v \in Worker : Held(v)' \subseteq Held(v)
      BY DEF OutboxInv, TypeOK, StageOK, Held
    <2> QED
      BY <2>1, <2>2 DEF Shrinks
  <1>4. ClaimsOK' /\ AttemptsAreExclusive'
    BY <1>1, <1>3, ShrinkingKeepsClaims DEF OutboxInv
  <1>5. PublishedWasDispatched' /\ NotifiedOnce'
    BY DEF OutboxInv, TypeOK, PublishedWasDispatched, NotifiedOnce
  <1> QED
    BY <1>1, <1>2, <1>4, <1>5 DEF OutboxInv

\* Publishing or failing the event of the current claim.
LEMMA MarkInv ==
    ASSUME NEW w \in Worker, OutboxInv, MarkPublished(w) \/ MarkFailed(w)
    PROVE  OutboxInv'
  <1> DEFINE e == current[w].event
  <1>1. stage[w] \in {"delivered", "failed"} /\ current[w] \in Claims /\ e \in Event
    BY DEF MarkPublished, MarkFailed, OutboxInv, StageOK, Claims
  <1>2. TypeOK'
    BY <1>1 DEF MarkPublished, MarkFailed, Release, Advance, OutboxInv, TypeOK, Stages
  <1>3. StageOK'
    BY DEF MarkPublished, MarkFailed, Advance, OutboxInv, TypeOK, StageOK
  <1>4. Shrinks
    <2>1. \A v \in Worker : Held(v)' \subseteq Held(v)
      BY DEF MarkPublished, MarkFailed, Advance, OutboxInv, TypeOK, Held
    <2>2. attempts' = attempts
      BY DEF MarkPublished, MarkFailed
    <2>3. \A f \in Event, v \in Worker : claimedBy'[f] = v => claimedBy[f] = v
      BY NoWorkerAssumption
      DEF MarkPublished, MarkFailed, Release, OutboxInv, TypeOK
    <2> QED
      BY <2>1, <2>2, <2>3 DEF Shrinks
  <1>5. ClaimsOK' /\ AttemptsAreExclusive'
    BY <1>2, <1>4, ShrinkingKeepsClaims DEF OutboxInv
  <1>6. PublishedWasDispatched'
    BY <1>1 DEF MarkPublished, MarkFailed, OutboxInv, TypeOK, StageOK,
                PublishedWasDispatched
  <1>7. NotifiedOnce'
    BY DEF MarkPublished, MarkFailed, OutboxInv, NotifiedOnce
  <1> QED
    BY <1>2, <1>3, <1>5, <1>6, <1>7 DEF OutboxInv

\* New events and the passing of time.
LEMMA EnvironmentInv ==
    ASSUME NEW e \in Event, OutboxInv, Enqueue(e) \/ LeaseExpires(e) \/ BackoffEnds(e)
    PROVE  OutboxInv'
  <1> USE DEF Enqueue, LeaseExpires, BackoffEnds, workerVars
  <1>1. TypeOK'
    BY DEF OutboxInv, TypeOK
  <1>2. StageOK'
    BY DEF OutboxInv, StageOK
  <1>3. Shrinks
    BY DEF Shrinks, Held
  <1>4. ClaimsOK' /\ AttemptsAreExclusive'
    BY <1>1, <1>3, ShrinkingKeepsClaims DEF OutboxInv
  <1>5. PublishedWasDispatched' /\ NotifiedOnce'
    BY DEF OutboxInv, TypeOK, PublishedWasDispatched, NotifiedOnce
  <1> QED
    BY <1>1, <1>2, <1>4, <1>5 DEF OutboxInv

LEMMA NextOutboxInv == OutboxInv /\ [Next]_vars => OutboxInv'
  <1> SUFFICES ASSUME OutboxInv, [Next]_vars PROVE OutboxInv'
    OBVIOUS
  <1>1. CASE UNCHANGED vars
    BY <1>1 DEF vars, rowVars, workerVars, OutboxInv, TypeOK, StageOK, ClaimsOK,
                AttemptsAreExclusive, PublishedWasDispatched, NotifiedOnce, Held
  <1>2. ASSUME NEW e \in Event, Enqueue(e) \/ LeaseExpires(e) \/ BackoffEnds(e)
        PROVE  OutboxInv'
    BY <1>2, EnvironmentInv
  <1>3. ASSUME NEW w \in Worker, WorkerStep(w) \/ Crash(w) PROVE OutboxInv'
    BY <1>3, ClaimOutboxInv, LoopInv, MarkInv DEF WorkerStep
  <1> QED
    BY <1>1, <1>2, <1>3 DEF Next

\* The inductive invariant holds in every reachable state.
THEOREM OutboxInvariance == Spec => []OutboxInv
  BY InitOutboxInv, NextOutboxInv, PTL DEF Spec

\* Every variable keeps its type; in particular no event is claimed more often
\* than the attempt limit allows.
THEOREM OutboxTypeCorrect == Spec => []TypeOK
  <1>1. OutboxInv => TypeOK
    BY DEF OutboxInv
  <1> QED
    BY <1>1, OutboxInvariance, PTL

\* However workers overlap, crash and come back, an attempt has one worker.
THEOREM ExclusiveAttempts == Spec => []AttemptsAreExclusive
  <1>1. OutboxInv => AttemptsAreExclusive
    BY DEF OutboxInv
  <1> QED
    BY <1>1, OutboxInvariance, PTL

\* Nothing is published that was not dispatched.
THEOREM NoLostDispatch == Spec => []PublishedWasDispatched
  <1>1. OutboxInv => PublishedWasDispatched
    BY DEF OutboxInv
  <1> QED
    BY <1>1, OutboxInvariance, PTL

\* At-least-once dispatch still materializes one notification per event.
THEOREM OneNotification == Spec => []NotifiedOnce
  <1>1. OutboxInv => NotifiedOnce
    BY DEF OutboxInv
  <1> QED
    BY <1>1, OutboxInvariance, PTL

\* A mark always ends the latest attempt: claimed_by is a sufficient fence.
THEOREM Fencing == Spec => OnlyLatestAttemptMarks
  <1> DEFINE Fenced == \A e \in Event :
                claimedBy[e] # NoWorker /\ claimedBy'[e] = NoWorker =>
                  \E w \in Worker :
                     current[w] = [event |-> e, attempt |-> attempts[e]]
  <1>1. ASSUME OutboxInv, [Next]_vars, NEW e \in Event,
               claimedBy[e] # NoWorker, claimedBy'[e] = NoWorker
        PROVE  \E w \in Worker : current[w] = [event |-> e, attempt |-> attempts[e]]
    <2>1. PICK w \in Worker : MarkPublished(w) \/ MarkFailed(w)
      <3>1. ASSUME NEW w \in Worker, ClaimOutbox(w) PROVE FALSE
        BY <3>1, <1>1, NoWorkerAssumption DEF ClaimOutbox, NextAttempt, OutboxInv, TypeOK
      <3>2. CASE UNCHANGED vars
        BY <3>2, <1>1 DEF vars, rowVars
      <3> QED
        BY <3>1, <3>2, <1>1
        DEF Next, WorkerStep, Enqueue, LeaseExpires, BackoffEnds, TakeNext, RunEnds,
            DispatchReturns, DispatchThrows, MarkPublishedThrows, MarkNotOwned,
            MarkFailedThrows, Crash, rowVars
    <2>2. e = current[w].event /\ claimedBy[e] = w
      BY <2>1, <1>1 DEF MarkPublished, MarkFailed, Release, Owns, OutboxInv, TypeOK
    <2>3. current[w] \in Claims
      BY <2>1 , <1>1 DEF MarkPublished, MarkFailed, OutboxInv, StageOK
    <2>4. current[w] \in Held(w)
      BY <2>3, NoClaimAssumption DEF Held
    <2>5. current[w].attempt = attempts[e]
      BY <2>2, <2>4, <1>1 DEF OutboxInv, ClaimsOK
    <2> QED
      BY <2>2, <2>3, <2>5 DEF Claims
  <1>2. OutboxInv /\ [Next]_vars => [Fenced]_vars
    BY <1>1
  <1> QED
    BY <1>2, OutboxInvariance, PTL DEF Spec, OnlyLatestAttemptMarks
=============================================================================
