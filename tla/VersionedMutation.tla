-------------------------- MODULE VersionedMutation --------------------------
(***************************************************************************)
(* PlatformIntegrityService.executeVersionedMutation: the transaction in   *)
(* which some forty write operations of the server run.  Each statement is *)
(* a step, so concurrent transactions interleave between statements.       *)
(*                                                                         *)
(* PostgreSQL runs them at READ COMMITTED.  What a transaction wrote is in *)
(* "written" and reaches the tables when it commits; the row locks it      *)
(* holds follow from the statements it has executed (HoldsKey,             *)
(* HoldsVersion).                                                          *)
(***************************************************************************)
EXTENDS Naturals, FiniteSets

CONSTANTS
    Session,      \* database connections, each running one transaction at a time
    Key,          \* (actor_key, operation, idempotency_key) triples
    Agg,          \* (aggregate_type, aggregate_id) pairs
    Synced,       \* those whose version other code moves too: lessons above all
    Payload,      \* request payloads, as far as a fingerprint tells them apart
    Command,      \* the commands clients send (a retry is the same command again)
    MaxRequests,  \* bound on the number of requests that reach the server
    MaxOutside,   \* bound on the versions that other code sets
    NoRecord      \* the absence of an idempotency row

ASSUME CommandAssumption ==
    Command \subseteq [key : Key, agg : Agg, expected : Nat, payload : Payload]

ASSUME SyncedAssumption == Synced \subseteq Agg

ASSUME BoundAssumption == MaxRequests \in Nat /\ MaxOutside \in Nat

ASSUME NoRecordAssumption ==
    NoRecord \notin [fp : Agg \X Nat \X Payload,
                     status : {"pending", "completed"}, version : Nat]

VARIABLES
    pc,          \* last statement each session's transaction has executed
    cmd,         \* the command it runs
    newVersion,  \* the version advanceVersion returned to it
    written,     \* the rows it has inserted or completed, not yet committed
    versions,    \* app.aggregate_versions, 0 for no row
    records,     \* app.idempotency_records
    effects,     \* rows written by the mutate callbacks
    audits,      \* app.audit_events
    events,      \* app.platform_outbox_events
    outside,     \* the versions of each aggregate that other code went past
    answers,     \* results that clients received
    issued       \* requests that reached the server

txVars == <<pc, cmd, newVersion, written>>
tables == <<versions, records, effects, audits, events>>
vars == <<txVars, tables, outside, answers, issued>>

Rows == {"effect", "audit", "event", "result"}

Mutating == {"advanced", "mutated", "audited", "enqueued", "completed"}

PcValues == {"idle", "open", "reserved", "replaying"} \union Mutating

\* The fingerprint of a command covers everything but its key.
Fingerprint(c) == <<c.agg, c.expected, c.payload>>

Record == [fp : Agg \X Nat \X Payload,
           status : {"pending", "completed"}, version : Nat]

Mutation == [cmd : Command, version : Nat]

\* A transaction that inserted an idempotency row, or selected it FOR UPDATE,
\* holds that row; one that advanced a version holds the version row.
HoldsKey(s, k) ==
    /\ pc[s] \in Mutating \union {"reserved", "replaying"}
    /\ cmd[s].key = k

HoldsVersion(s, a) == pc[s] \in Mutating /\ cmd[s].agg = a

KeyFree(s, k) == \A t \in Session \ {s} : ~HoldsKey(t, k)

VersionFree(s, a) == \A t \in Session \ {s} : ~HoldsVersion(t, a)

-----------------------------------------------------------------------------
Init ==
    /\ pc = [s \in Session |-> "idle"]
    /\ cmd \in [Session -> Command]
    /\ newVersion = [s \in Session |-> 0]
    /\ written = [s \in Session |-> {}]
    /\ versions = [a \in Agg |-> 0]
    /\ records = [k \in Key |-> NoRecord]
    /\ effects = {} /\ audits = {} /\ events = {}
    /\ outside = {}
    /\ answers = {}
    /\ issued = 0

\* A request, first or repeated, opens a transaction (authorization included).
Open(s) ==
    /\ pc[s] = "idle"
    /\ issued < MaxRequests
    /\ \E c \in Command : cmd' = [cmd EXCEPT ![s] = c]
    /\ pc' = [pc EXCEPT ![s] = "open"]
    /\ issued' = issued + 1
    /\ UNCHANGED <<newVersion, written, tables, outside, answers>>

EndTransaction(s) ==
    /\ pc' = [pc EXCEPT ![s] = "idle"]
    /\ newVersion' = [newVersion EXCEPT ![s] = 0]
    /\ written' = [written EXCEPT ![s] = {}]
    /\ UNCHANGED cmd

Rollback(s) ==
    /\ EndTransaction(s)
    /\ UNCHANGED <<tables, outside, answers, issued>>

\* Mutant: the reservation is a select followed by an insert, and no unique
\* index makes it wait for the other transaction.
ReserveNewUnlocked(s) ==
    /\ pc[s] = "open"
    /\ records[cmd[s].key] = NoRecord
    /\ pc' = [pc EXCEPT ![s] = "reserved"]
    /\ UNCHANGED <<cmd, newVersion, written, tables, outside, answers, issued>>

\* The insert ... on conflict do nothing waits for a concurrent transaction
\* that inserted the same key, and the select for update waits for one that
\* has it locked.
ReserveNew(s) ==
    /\ pc[s] = "open"
    /\ KeyFree(s, cmd[s].key)
    /\ records[cmd[s].key] = NoRecord
    /\ pc' = [pc EXCEPT ![s] = "reserved"]
    /\ UNCHANGED <<cmd, newVersion, written, tables, outside, answers, issued>>

\* Mutant: the fingerprint of the request is not compared.
ReplayableByKey(r, c) == r.status = "completed"

Replayable(r, c) == r.fp = Fingerprint(c) /\ r.status = "completed"

ReserveReplay(s) ==
    /\ pc[s] = "open"
    /\ KeyFree(s, cmd[s].key)
    /\ records[cmd[s].key] # NoRecord
    /\ Replayable(records[cmd[s].key], cmd[s])
    /\ pc' = [pc EXCEPT ![s] = "replaying"]
    /\ UNCHANGED <<cmd, newVersion, written, tables, outside, answers, issued>>

\* IDEMPOTENCY_KEY_REUSED for another fingerprint, IDEMPOTENCY_IN_PROGRESS
\* for a row that is not completed.
ReserveRejected(s) ==
    /\ pc[s] = "open"
    /\ KeyFree(s, cmd[s].key)
    /\ records[cmd[s].key] # NoRecord
    /\ ~Replayable(records[cmd[s].key], cmd[s])
    /\ Rollback(s)

\* Mutant: the version is read and checked before the row is locked.
AdvanceVersionUnlocked(s) ==
    /\ pc[s] = "reserved"
    /\ versions[cmd[s].agg] = cmd[s].expected
    /\ newVersion' = [newVersion EXCEPT ![s] = cmd[s].expected + 1]
    /\ pc' = [pc EXCEPT ![s] = "advanced"]
    /\ UNCHANGED <<cmd, written, tables, outside, answers, issued>>

\* Mutant: the update has no "and version = $3".
AdvanceVersionUnchecked(s) ==
    /\ pc[s] = "reserved"
    /\ VersionFree(s, cmd[s].agg)
    /\ newVersion' = [newVersion EXCEPT ![s] = versions[cmd[s].agg] + 1]
    /\ pc' = [pc EXCEPT ![s] = "advanced"]
    /\ UNCHANGED <<cmd, written, tables, outside, answers, issued>>

\* expected = 0 inserts the version row, otherwise the row is updated where
\* version = expected.  Both wait for a concurrent transaction that holds the
\* row, and look again at what it committed.
AdvanceVersion(s) ==
    /\ pc[s] = "reserved"
    /\ versions[cmd[s].agg] = cmd[s].expected
    /\ VersionFree(s, cmd[s].agg)
    /\ newVersion' = [newVersion EXCEPT ![s] = cmd[s].expected + 1]
    /\ pc' = [pc EXCEPT ![s] = "advanced"]
    /\ UNCHANGED <<cmd, written, tables, outside, answers, issued>>

\* Mutant: the conflict is thrown but the transaction is left open.
StaleVersionNoRollback(s) ==
    /\ pc[s] = "reserved"
    /\ versions[cmd[s].agg] # cmd[s].expected
    /\ UNCHANGED vars

\* A committed version other than the expected one matches no row: 409
\* STALE_VERSION without waiting for a lock.
StaleVersion(s) ==
    /\ pc[s] = "reserved"
    /\ versions[cmd[s].agg] # cmd[s].expected
    /\ Rollback(s)

Write(s, from, row, to) ==
    /\ pc[s] = from
    /\ written' = [written EXCEPT ![s] = @ \union {row}]
    /\ pc' = [pc EXCEPT ![s] = to]
    /\ UNCHANGED <<cmd, newVersion, tables, outside, answers, issued>>

Mutate(s) == Write(s, "advanced", "effect", "mutated")

MutationOf(s) == [cmd |-> cmd[s], version |-> newVersion[s]]

AppendAudit(s) == Write(s, "mutated", "audit", "audited")

EnqueueOutbox(s) == Write(s, "audited", "event", "enqueued")

CompleteIdempotency(s) == Write(s, "enqueued", "result", "completed")

\* Rows that the commit of s adds to a table, given the kind of its rows.
Committed(s, row) == IF row \in written[s] THEN {MutationOf(s)} ELSE {}

\* Mutant: a status that the check constraint of the table does not know.
RecordOfUnknownStatus(s) ==
    [fp |-> Fingerprint(cmd[s]), status |-> "done", version |-> newVersion[s]]

RecordOf(s) ==
    [fp |-> Fingerprint(cmd[s]),
     status |-> IF "result" \in written[s] THEN "completed" ELSE "pending",
     version |-> newVersion[s]]

\* The response to a commit may be lost: the client then knows nothing.
Answer(s, version) ==
    \/ answers' = answers \union {[cmd |-> cmd[s], version |-> version]}
    \/ answers' = answers

Commit(s) ==
    /\ pc[s] = "completed"
    /\ versions' = [versions EXCEPT ![cmd[s].agg] = newVersion[s]]
    /\ records' = [records EXCEPT ![cmd[s].key] = RecordOf(s)]
    /\ effects' = effects \union Committed(s, "effect")
    /\ audits' = audits \union Committed(s, "audit")
    /\ events' = events \union Committed(s, "event")
    /\ Answer(s, newVersion[s])
    /\ EndTransaction(s)
    /\ UNCHANGED <<outside, issued>>

CommitReplay(s) ==
    /\ pc[s] = "replaying"
    /\ Answer(s, records[cmd[s].key].version)
    /\ EndTransaction(s)
    /\ UNCHANGED <<tables, outside, issued>>

\* Denied authorization, an error in a callback, an aborted statement or the
\* crash of the server or of its connection: nothing of it survives.
Abort(s) == pc[s] # "idle" /\ Rollback(s)

\* Other code sets the version of an aggregate that no mutation holds.
SetOutside(a, v) ==
    /\ v > versions[a]
    /\ \A s \in Session : ~HoldsVersion(s, a)
    /\ versions' = [versions EXCEPT ![a] = v]
    /\ outside' = outside \union ({a} \X ((versions[a] + 1)..v))
    /\ UNCHANGED <<txVars, records, effects, audits, events, answers, issued>>

\* The first version row of an aggregate is inserted on conflict do nothing,
\* with version 1 by the statement that creates a room or a branch, and with
\* the version of the aggregate's own row before its first mutation.
Seed(a) == versions[a] = 0 /\ \E v \in 1..MaxOutside : SetOutside(a, v)

\* Whatever statement changes a lesson, its trigger makes the version row
\* follow the version of the lesson: greatest(version, excluded.version).
\* Commands on clients, payments and subscriptions do so for the plans,
\* payments and subscriptions they change along.
Sync(a) == a \in Synced /\ \E v \in 1..MaxOutside : SetOutside(a, v)

\* The next statement of a transaction.
Step(s) ==
    \/ ReserveNew(s) \/ ReserveReplay(s) \/ ReserveRejected(s)
    \/ AdvanceVersion(s) \/ StaleVersion(s)
    \/ Mutate(s) \/ AppendAudit(s) \/ EnqueueOutbox(s) \/ CompleteIdempotency(s)
    \/ Commit(s) \/ CommitReplay(s)

Next ==
    \/ \E s \in Session : Open(s) \/ Step(s) \/ Abort(s)
    \/ \E a \in Agg : Seed(a) \/ Sync(a)

Spec == Init /\ [][Next]_vars

\* The server executes the statements of an open transaction; nothing makes a
\* client send a request or a transaction fail.
Fairness == \A s \in Session : WF_vars(Step(s))

FairSpec == Spec /\ Fairness

-----------------------------------------------------------------------------
TypeOK ==
    /\ pc \in [Session -> PcValues]
    /\ cmd \in [Session -> Command]
    /\ newVersion \in [Session -> Nat]
    /\ written \in [Session -> SUBSET Rows]
    /\ versions \in [Agg -> Nat]
    /\ records \in [Key -> Record \union {NoRecord}]
    /\ effects \subseteq Mutation
    /\ audits \subseteq Mutation
    /\ events \subseteq Mutation
    /\ outside \subseteq Agg \X Nat
    /\ answers \subseteq Mutation
    /\ issued \in 0..MaxRequests

\* However requests with one key are repeated, raced, aborted or answered
\* twice, the business effect of the key is committed at most once.
ExactlyOnce ==
    \A e, f \in effects : e.cmd.key = f.cmd.key => e = f

MadeByMutation(a, v) == \E e \in effects : e.cmd.agg = a /\ e.version = v

\* No update is lost: two committed mutations of an aggregate never produced
\* the same version, each was based on the version right before its own, and
\* every version that an aggregate went through comes either from a mutation
\* or from other code, never from both, so neither ever wrote over the other.
SerialVersions ==
    /\ \A e, f \in effects :
          (e.cmd.agg = f.cmd.agg /\ e.version = f.version) => e = f
    /\ \A e \in effects : e.version = e.cmd.expected + 1
    /\ \A a \in Agg : \A v \in 1..versions[a] :
          MadeByMutation(a, v) <=> <<a, v>> \notin outside

\* A business effect, its audit event, its outbox event and the completed
\* idempotency row that replays it are committed together or not at all.
AllOrNothing ==
    /\ audits = effects
    /\ events = effects
    /\ \A k \in Key : records[k] # NoRecord =>
          /\ records[k].status = "completed"
          /\ \E e \in effects :
                /\ e.cmd.key = k
                /\ records[k].fp = Fingerprint(e.cmd)
                /\ records[k].version = e.version
    /\ \A e \in effects : records[e.cmd.key] # NoRecord

\* Whatever a client was told, on the first answer or on a replay, is a
\* committed mutation of exactly the command it sent.
AnswersTruthful == answers \subseteq effects

\* Committed versions only grow, and a completed idempotency row is never
\* rewritten: a replay after any delay returns the original result.
NeverUndone ==
    [][ /\ \A a \in Agg : versions'[a] >= versions[a]
        /\ \A k \in Key : records[k] # NoRecord => records'[k] = records[k]
        /\ effects \subseteq effects' ]_vars

\* Every transaction ends: waiting for the key and version rows never
\* deadlocks, because keys are always locked before versions.
EveryRequestEnds == \A s \in Session : pc[s] # "idle" ~> pc[s] = "idle"

\* The store of the abstract specification: the committed version rows and
\* the committed effects.
Store == INSTANCE ExactlyOnceStore WITH version <- versions, applied <- effects

\* Every behaviour of the statements is a behaviour of the atomic store.
ImplementsStore == Store!StoreSpec
=============================================================================
