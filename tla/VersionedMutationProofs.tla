---------------------- MODULE VersionedMutationProofs ----------------------
(***************************************************************************)
(* Theorems about VersionedMutation, for any number of sessions, keys,     *)
(* aggregates, commands and requests.  The inductive invariant IInv says   *)
(* what the row locks of a transaction protect (Exclusive, Protected) and  *)
(* how the committed tables agree (Consistent).                            *)
(***************************************************************************)
EXTENDS VersionedMutation, TLAPS

KeyHolder(s) == pc[s] \in Mutating \union {"reserved", "replaying"}

VersionHolder(s) == pc[s] \in Mutating

\* Row locks: at most one transaction per key row and per version row.
Exclusive ==
    \A s, t \in Session : s # t =>
        /\ KeyHolder(s) /\ KeyHolder(t) => cmd[s].key # cmd[t].key
        /\ VersionHolder(s) /\ VersionHolder(t) => cmd[s].agg # cmd[t].agg

WrittenAt(s) ==
    CASE pc[s] = "mutated"   -> {"effect"}
      [] pc[s] = "audited"   -> {"effect", "audit"}
      [] pc[s] = "enqueued"  -> {"effect", "audit", "event"}
      [] pc[s] = "completed" -> Rows
      [] OTHER -> {}

\* What a transaction has read stays true while it holds its locks.
Protected ==
    \A s \in Session :
        /\ KeyHolder(s) /\ pc[s] # "replaying" => records[cmd[s].key] = NoRecord
        /\ pc[s] = "replaying" =>
              /\ records[cmd[s].key] # NoRecord
              /\ Replayable(records[cmd[s].key], cmd[s])
        /\ VersionHolder(s) => /\ versions[cmd[s].agg] = cmd[s].expected
                               /\ newVersion[s] = cmd[s].expected + 1
        /\ written[s] = WrittenAt(s)

\* Nothing that was written is ahead of its aggregate.
Bounded ==
    /\ \A e \in effects : e.version <= versions[e.cmd.agg]
    /\ \A a \in Agg, v \in Nat : <<a, v>> \in outside => v <= versions[a]

\* The part of the invariant that only reads committed state.
Consistent ==
    /\ Bounded
    /\ ExactlyOnce
    /\ SerialVersions
    /\ AllOrNothing
    /\ AnswersTruthful

IInv == TypeOK /\ Exclusive /\ Protected /\ Consistent

-----------------------------------------------------------------------------
\* A command is the record of its key and the fingerprinted fields, so two
\* commands with the same key and fingerprint are one.
LEMMA FingerprintIdentifies ==
    ASSUME NEW c \in Command, NEW d \in Command,
           c.key = d.key, Fingerprint(c) = Fingerprint(d)
    PROVE  c = d
  BY CommandAssumption DEF Fingerprint

\* An idempotency row is never the absence of one.
LEMMA RecordIsNotNoRecord == NoRecord \notin Record
  BY NoRecordAssumption DEF Record

\* The initial state satisfies the inductive invariant.
LEMMA InitIInv == Init => IInv
  <1> SUFFICES ASSUME Init PROVE IInv
    OBVIOUS
  <1>1. TypeOK
    BY BoundAssumption
    DEF Init, TypeOK, PcValues, Mutating, Rows
  <1>2. Exclusive
    BY DEF Init, Exclusive, KeyHolder, VersionHolder, Mutating
  <1>3. Protected
    BY DEF Init, Protected, KeyHolder, VersionHolder, Mutating, WrittenAt
  <1>4. Consistent
    BY DEF Init, Consistent, Bounded, ExactlyOnce, SerialVersions, AllOrNothing,
           AnswersTruthful
  <1> QED
    BY <1>1, <1>2, <1>3, <1>4 DEF IInv

\* A step that leaves the committed state alone keeps what is true of it.
LEMMA PrivateStepConsistent ==
    Consistent /\ UNCHANGED <<tables, outside, answers>> => Consistent'
  BY DEF Consistent, tables, Bounded, ExactlyOnce, SerialVersions, MadeByMutation,
         AllOrNothing, AnswersTruthful

\* A transaction that ends without a trace preserves the invariant.
LEMMA RollbackIInv ==
    ASSUME NEW s \in Session, IInv, Rollback(s)
    PROVE  IInv'
  <1> USE DEF Rollback, EndTransaction
  <1>1. TypeOK'
    BY DEF IInv, TypeOK, tables, PcValues
  <1>2. Exclusive'
    BY DEF IInv, TypeOK, Exclusive, KeyHolder, VersionHolder, Mutating
  <1>3. Protected'
    BY DEF IInv, TypeOK, Protected, KeyHolder, VersionHolder, Mutating, WrittenAt,
           tables
  <1>4. Consistent'
    BY PrivateStepConsistent DEF IInv
  <1> QED
    BY <1>1, <1>2, <1>3, <1>4 DEF IInv

\* Opening a transaction takes no lock and reads nothing.
LEMMA OpenIInv ==
    ASSUME NEW s \in Session, IInv, Open(s)
    PROVE  IInv'
  <1>1. TypeOK'
    BY BoundAssumption DEF Open, IInv, TypeOK, tables, PcValues
  <1>2. Exclusive'
    BY DEF Open, IInv, TypeOK, Exclusive, KeyHolder, VersionHolder, Mutating
  <1>3. Protected'
    BY DEF Open, IInv, TypeOK, Protected, KeyHolder, VersionHolder, Mutating,
           WrittenAt, tables
  <1>4. Consistent'
    BY PrivateStepConsistent DEF Open, IInv
  <1> QED
    BY <1>1, <1>2, <1>3, <1>4 DEF IInv

\* Locking a free key row, new or completed, preserves the invariant.
LEMMA ReserveIInv ==
    ASSUME NEW s \in Session, IInv, ReserveNew(s) \/ ReserveReplay(s)
    PROVE  IInv'
  <1> USE DEF ReserveNew, ReserveReplay
  <1>1. TypeOK'
    BY DEF IInv, TypeOK, tables, PcValues
  <1>2. Exclusive'
    BY DEF IInv, TypeOK, Exclusive, KeyFree, HoldsKey, KeyHolder, VersionHolder,
           Mutating
  <1>3. Protected'
    <2> SUFFICES ASSUME NEW t \in Session
                 PROVE  /\ KeyHolder(t)' /\ pc'[t] # "replaying"
                              => records'[cmd'[t].key] = NoRecord
                        /\ pc'[t] = "replaying" =>
                              /\ records'[cmd'[t].key] # NoRecord
                              /\ Replayable(records'[cmd'[t].key], cmd'[t])
                        /\ VersionHolder(t)' =>
                              /\ versions'[cmd'[t].agg] = cmd'[t].expected
                              /\ newVersion'[t] = cmd'[t].expected + 1
                        /\ written'[t] = WrittenAt(t)'
      BY DEF Protected
    <2>1. CASE t = s
      BY <2>1 DEF IInv, TypeOK, Protected, KeyHolder, VersionHolder, Mutating,
                  WrittenAt, tables
    <2>2. CASE t # s
      BY <2>2 DEF IInv, TypeOK, Protected, KeyHolder, VersionHolder, Mutating,
                  WrittenAt, tables
    <2> QED
      BY <2>1, <2>2
  <1>4. Consistent'
    BY PrivateStepConsistent DEF IInv
  <1> QED
    BY <1>1, <1>2, <1>3, <1>4 DEF IInv

\* Taking the version row of an unchanged, unlocked aggregate.
LEMMA AdvanceIInv ==
    ASSUME NEW s \in Session, IInv, AdvanceVersion(s)
    PROVE  IInv'
  <1> USE DEF AdvanceVersion
  <1>1. cmd[s].expected \in Nat
    BY CommandAssumption DEF IInv, TypeOK
  <1>2. TypeOK'
    BY <1>1 DEF IInv, TypeOK, tables, PcValues, Mutating
  <1>3. Exclusive'
    BY DEF IInv, TypeOK, Exclusive, VersionFree, HoldsVersion, KeyHolder,
           VersionHolder, Mutating
  <1>4. Protected'
    BY DEF IInv, TypeOK, Protected, KeyHolder, VersionHolder, Mutating, WrittenAt,
           tables
  <1>5. Consistent'
    BY PrivateStepConsistent DEF IInv
  <1> QED
    BY <1>2, <1>3, <1>4, <1>5 DEF IInv

\* Writing the rows of the mutation, in order, keeps both locks.
LEMMA WriteIInv ==
    ASSUME NEW s \in Session, IInv,
           Mutate(s) \/ AppendAudit(s) \/ EnqueueOutbox(s) \/ CompleteIdempotency(s)
    PROVE  IInv'
  <1> USE DEF Mutate, AppendAudit, EnqueueOutbox, CompleteIdempotency, Write
  <1>1. TypeOK'
    BY DEF IInv, TypeOK, tables, PcValues, Mutating, Rows
  <1>2. Exclusive'
    BY DEF IInv, TypeOK, Exclusive, KeyHolder, VersionHolder, Mutating
  <1>3. Protected'
    <2> SUFFICES ASSUME NEW t \in Session
                 PROVE  /\ KeyHolder(t)' /\ pc'[t] # "replaying"
                              => records'[cmd'[t].key] = NoRecord
                        /\ pc'[t] = "replaying" =>
                              /\ records'[cmd'[t].key] # NoRecord
                              /\ Replayable(records'[cmd'[t].key], cmd'[t])
                        /\ VersionHolder(t)' =>
                              /\ versions'[cmd'[t].agg] = cmd'[t].expected
                              /\ newVersion'[t] = cmd'[t].expected + 1
                        /\ written'[t] = WrittenAt(t)'
      BY DEF Protected
    <2>1. CASE t = s
      BY <2>1 DEF IInv, TypeOK, Protected, KeyHolder, VersionHolder, Mutating,
                  WrittenAt, tables, Rows
    <2>2. CASE t # s
      BY <2>2 DEF IInv, TypeOK, Protected, KeyHolder, VersionHolder, Mutating,
                  WrittenAt, tables
    <2> QED
      BY <2>1, <2>2
  <1>4. Consistent'
    BY PrivateStepConsistent DEF IInv
  <1> QED
    BY <1>1, <1>2, <1>3, <1>4 DEF IInv

\* What the commit of a completed transaction adds to the tables, and what the
\* locks of the transaction guarantee about its key and its aggregate.
LEMMA CommitFacts ==
    ASSUME NEW s \in Session, IInv, Commit(s)
    PROVE  LET c == cmd[s]
               m == [cmd |-> c, version |-> c.expected + 1]
           IN  /\ c \in Command /\ c.key \in Key /\ c.agg \in Agg
               /\ c.expected \in Nat
               /\ m \in Mutation
               /\ versions[c.agg] = c.expected
               /\ versions' = [versions EXCEPT ![c.agg] = c.expected + 1]
               /\ records[c.key] = NoRecord
               /\ records' = [records EXCEPT ![c.key] =
                     [fp |-> Fingerprint(c), status |-> "completed",
                      version |-> c.expected + 1]]
               /\ Fingerprint(c) \in Agg \X Nat \X Payload
               /\ \A e \in effects : e.cmd.key # c.key
               /\ effects' = effects \union {m}
               /\ audits' = audits \union {m}
               /\ events' = events \union {m}
               /\ answers' \subseteq answers \union {m}
  <1> DEFINE c == cmd[s]
  <1>1. /\ c \in Command /\ c.key \in Key /\ c.agg \in Agg
        /\ c.expected \in Nat /\ c.payload \in Payload
    BY CommandAssumption DEF IInv, TypeOK
  <1>2. /\ versions[c.agg] = c.expected /\ newVersion[s] = c.expected + 1
        /\ records[c.key] = NoRecord /\ written[s] = Rows
    BY DEF IInv, Protected, KeyHolder, VersionHolder, Mutating, WrittenAt, Commit
  <1>3. \A e \in effects : e.cmd.key # c.key
    BY <1>2 DEF IInv, Consistent, AllOrNothing
  <1>4. Fingerprint(c) \in Agg \X Nat \X Payload
    BY <1>1 DEF Fingerprint
  <1>5. [cmd |-> c, version |-> c.expected + 1] \in Mutation
    BY <1>1 DEF Mutation
  <1>6. RecordOf(s) = [fp |-> Fingerprint(c), status |-> "completed",
                       version |-> c.expected + 1]
    BY <1>2 DEF RecordOf, Rows
  <1>7. \A row \in Rows : Committed(s, row)
                            = {[cmd |-> c, version |-> c.expected + 1]}
    BY <1>2 DEF Committed, MutationOf
  <1>8. answers' \subseteq answers \union {[cmd |-> c, version |-> c.expected + 1]}
    BY <1>2 DEF Commit, Answer
  <1> QED
    BY <1>1, <1>2, <1>3, <1>4, <1>5, <1>6, <1>7, <1>8 DEF Commit, Rows

\* Committing a mutation preserves the invariant.
LEMMA CommitIInv ==
    ASSUME NEW s \in Session, IInv, Commit(s)
    PROVE  IInv'
  <1> DEFINE c == cmd[s]
             m == [cmd |-> c, version |-> c.expected + 1]
             r == [fp |-> Fingerprint(c), status |-> "completed",
                   version |-> c.expected + 1]
  <1> HIDE DEF c, m, r
  <1>0. /\ c = cmd[s]
        /\ c \in Command /\ c.key \in Key /\ c.agg \in Agg /\ c.expected \in Nat
        /\ m = [cmd |-> c, version |-> c.expected + 1]
        /\ m \in Mutation /\ m.cmd = c /\ m.version = c.expected + 1
        /\ versions[c.agg] = c.expected
        /\ versions' = [versions EXCEPT ![c.agg] = c.expected + 1]
        /\ records[c.key] = NoRecord
        /\ records' = [records EXCEPT ![c.key] = r]
        /\ r \in Record /\ r.fp = Fingerprint(c) /\ r.status = "completed"
        /\ r.version = c.expected + 1
        /\ \A e \in effects : e.cmd.key # c.key
        /\ effects' = effects \union {m}
        /\ audits' = audits \union {m}
        /\ events' = events \union {m}
        /\ answers' \subseteq answers \union {m}
    BY CommitFacts DEF c, m, r, Record
  <1>n. r # NoRecord
    BY <1>0, RecordIsNotNoRecord
  <1>e. /\ pc' = [pc EXCEPT ![s] = "idle"]
        /\ newVersion' = [newVersion EXCEPT ![s] = 0]
        /\ written' = [written EXCEPT ![s] = {}]
        /\ cmd' = cmd /\ outside' = outside /\ issued' = issued
    BY DEF Commit, EndTransaction
  <1>p. pc[s] = "completed"
    BY DEF Commit
  <1>1. TypeOK'
    BY <1>0, <1>e DEF IInv, TypeOK, PcValues
  <1>2. Exclusive'
    BY <1>e DEF IInv, TypeOK, Exclusive, KeyHolder, VersionHolder, Mutating
  <1>3. Protected'
    <2> SUFFICES ASSUME NEW t \in Session
                 PROVE  /\ KeyHolder(t)' /\ pc'[t] # "replaying"
                              => records'[cmd'[t].key] = NoRecord
                        /\ pc'[t] = "replaying" =>
                              /\ records'[cmd'[t].key] # NoRecord
                              /\ Replayable(records'[cmd'[t].key], cmd'[t])
                        /\ VersionHolder(t)' =>
                              /\ versions'[cmd'[t].agg] = cmd'[t].expected
                              /\ newVersion'[t] = cmd'[t].expected + 1
                        /\ written'[t] = WrittenAt(t)'
      BY DEF Protected
    <2>1. CASE t = s
      BY <2>1, <1>e DEF IInv, TypeOK, KeyHolder, VersionHolder, Mutating, WrittenAt
    <2>2. CASE t # s
      <3>1. /\ pc'[t] = pc[t] /\ newVersion'[t] = newVersion[t]
            /\ written'[t] = written[t] /\ cmd'[t] = cmd[t]
        BY <2>2, <1>e DEF IInv, TypeOK
      <3>2. KeyHolder(s) /\ VersionHolder(s)
        BY <1>p DEF KeyHolder, VersionHolder, Mutating
      <3>3. /\ KeyHolder(t) => cmd[t].key # c.key
            /\ VersionHolder(t) => cmd[t].agg # c.agg
        BY <2>2, <3>2, <1>0 DEF IInv, Exclusive
      <3>4. /\ KeyHolder(t) => records'[cmd[t].key] = records[cmd[t].key]
            /\ VersionHolder(t) => versions'[cmd[t].agg] = versions[cmd[t].agg]
        BY <3>3, <1>0, CommandAssumption DEF IInv, TypeOK
      <3> QED
        BY <3>1, <3>4 DEF IInv, Protected, KeyHolder, VersionHolder, WrittenAt,
                         Replayable, Fingerprint
    <2> QED
      BY <2>1, <2>2
  <1>4. Bounded'
    <2>1. ASSUME NEW e \in effects'
          PROVE  e.version <= versions'[e.cmd.agg]
      <3>1. CASE e = m
        BY <3>1, <1>0 DEF IInv, TypeOK
      <3>2. CASE e \in effects
        <4>1. e.cmd.agg \in Agg /\ e.version \in Nat /\ versions[e.cmd.agg] \in Nat
          BY <3>2, CommandAssumption DEF IInv, TypeOK, Mutation
        <4>2. e.version <= versions[e.cmd.agg]
          BY <3>2 DEF IInv, Consistent, Bounded
        <4> QED
          BY <4>1, <4>2, <1>0 DEF IInv, TypeOK
      <3> QED
        BY <3>1, <3>2, <1>0
    <2>2. ASSUME NEW a \in Agg, NEW v \in Nat, <<a, v>> \in outside'
          PROVE  v <= versions'[a]
      <3>1. v <= versions[a] /\ versions[a] \in Nat
        BY <2>2, <1>e DEF IInv, TypeOK, Consistent, Bounded
      <3> QED
        BY <3>1, <1>0 DEF IInv, TypeOK
    <2> QED
      BY <2>1, <2>2 DEF Bounded
  <1>5. ExactlyOnce'
    BY <1>0 DEF IInv, Consistent, ExactlyOnce
  <1>6. SerialVersions'
    <2>1. \A e, f \in effects' :
             (e.cmd.agg = f.cmd.agg /\ e.version = f.version) => e = f
      <3>1. \A e \in effects : e.cmd.agg = c.agg => e.version # m.version
        BY <1>0, CommandAssumption
        DEF IInv, TypeOK, Mutation, Consistent, Bounded
      <3> QED
        BY <3>1, <1>0 DEF IInv, Consistent, SerialVersions
    <2>2. \A e \in effects' : e.version = e.cmd.expected + 1
      BY <1>0 DEF IInv, Consistent, SerialVersions
    <2>3. ASSUME NEW a \in Agg, NEW v \in 1..versions'[a]
          PROVE  MadeByMutation(a, v)' <=> <<a, v>> \notin outside'
      <3>1. CASE a = c.agg /\ v = c.expected + 1
        <4>1. MadeByMutation(a, v)'
          BY <3>1, <1>0 DEF MadeByMutation
        <4>2. <<a, v>> \notin outside
          BY <3>1, <1>0 DEF IInv, Consistent, Bounded
        <4> QED
          BY <4>1, <4>2, <1>e
      <3>2. CASE ~(a = c.agg /\ v = c.expected + 1)
        <4>1. v \in 1..versions[a]
          BY <3>2, <1>0 DEF IInv, TypeOK
        <4>2. MadeByMutation(a, v)' <=> MadeByMutation(a, v)
          BY <3>2, <1>0 DEF MadeByMutation
        <4> QED
          BY <4>1, <4>2, <1>e DEF IInv, Consistent, SerialVersions
      <3> QED
        BY <3>1, <3>2
    <2> QED
      BY <2>1, <2>2, <2>3 DEF SerialVersions
  <1>7. AllOrNothing'
    <2>1. audits' = effects' /\ events' = effects'
      BY <1>0 DEF IInv, Consistent, AllOrNothing
    <2>2. ASSUME NEW k \in Key, records'[k] # NoRecord
          PROVE  /\ records'[k].status = "completed"
                 /\ \E e \in effects' :
                       /\ e.cmd.key = k
                       /\ records'[k].fp = Fingerprint(e.cmd)
                       /\ records'[k].version = e.version
      <3>1. CASE k = c.key
        <4>1. records'[k] = r
          BY <3>1, <1>0 DEF IInv, TypeOK
        <4> QED
          BY <3>1, <4>1, <1>0
      <3>2. CASE k # c.key
        <4>1. records'[k] = records[k]
          BY <3>2, <1>0 DEF IInv, TypeOK
        <4> QED
          BY <2>2, <4>1, <1>0 DEF IInv, Consistent, AllOrNothing
      <3> QED
        BY <3>1, <3>2
    <2>3. ASSUME NEW e \in effects'
          PROVE  records'[e.cmd.key] # NoRecord
      <3>1. CASE e = m
        BY <3>1, <1>0, <1>n DEF IInv, TypeOK
      <3>2. CASE e \in effects
        BY <3>2, <1>0 DEF IInv, TypeOK, Consistent, AllOrNothing
      <3> QED
        BY <3>1, <3>2, <1>0
    <2> QED
      BY <2>1, <2>2, <2>3 DEF AllOrNothing
  <1>8. AnswersTruthful'
    BY <1>0 DEF IInv, Consistent, AnswersTruthful
  <1> QED
    BY <1>1, <1>2, <1>3, <1>4, <1>5, <1>6, <1>7, <1>8 DEF IInv, Consistent

\* A replay answers with the mutation its idempotency row recorded.
LEMMA CommitReplayIInv ==
    ASSUME NEW s \in Session, IInv, CommitReplay(s)
    PROVE  IInv'
  <1> DEFINE c == cmd[s]
             v == records[c.key].version
  <1>1. c \in Command /\ c.key \in Key
    BY CommandAssumption DEF IInv, TypeOK
  <1>2. PICK e \in effects : /\ e.cmd.key = c.key
                             /\ records[c.key].fp = Fingerprint(e.cmd)
                             /\ records[c.key].version = e.version
    BY <1>1 DEF CommitReplay, IInv, Protected, Consistent, AllOrNothing
  <1>3. e.cmd = c
    <2>1. e.cmd \in Command
      BY DEF IInv, TypeOK, Mutation
    <2>2. records[c.key].fp = Fingerprint(c)
      BY DEF CommitReplay, IInv, Protected, Replayable
    <2> QED
      BY <1>1, <1>2, <2>1, <2>2, FingerprintIdentifies
  <1>4. [cmd |-> c, version |-> v] = e
    BY <1>2, <1>3 DEF IInv, TypeOK, Mutation
  <1>5. answers' \subseteq answers \union {e}
    BY <1>4 DEF CommitReplay, Answer
  <1>6. TypeOK'
    BY <1>5 DEF CommitReplay, EndTransaction, IInv, TypeOK, tables, PcValues
  <1>7. Exclusive'
    BY DEF CommitReplay, EndTransaction, IInv, TypeOK, Exclusive, KeyHolder,
           VersionHolder, Mutating
  <1>8. Protected'
    BY DEF CommitReplay, EndTransaction, IInv, TypeOK, Protected, KeyHolder,
           VersionHolder, Mutating, WrittenAt, tables
  <1>9. Consistent'
    <2>1. AnswersTruthful'
      BY <1>5 DEF CommitReplay, tables, IInv, Consistent, AnswersTruthful
    <2>2. Bounded' /\ ExactlyOnce' /\ SerialVersions' /\ AllOrNothing'
      BY DEF CommitReplay, tables, IInv, Consistent, Bounded, ExactlyOnce,
             SerialVersions, MadeByMutation, AllOrNothing
    <2> QED
      BY <2>1, <2>2 DEF Consistent
  <1> QED
    BY <1>6, <1>7, <1>8, <1>9 DEF IInv

\* Other code raises the version of an aggregate that no transaction holds.
LEMMA OutsideIInv ==
    ASSUME NEW a \in Agg, NEW v \in Nat, IInv, SetOutside(a, v)
    PROVE  IInv'
  <1>1. /\ v > versions[a] /\ versions' = [versions EXCEPT ![a] = v]
        /\ versions[a] \in Nat
        /\ outside' = outside \union ({a} \X ((versions[a] + 1)..v))
        /\ UNCHANGED <<pc, cmd, newVersion, written, records, effects, audits,
                       events, answers, issued>>
    BY DEF SetOutside, txVars, IInv, TypeOK
  <1>2. TypeOK'
    BY <1>1 DEF IInv, TypeOK
  <1>3. Exclusive'
    BY <1>1 DEF IInv, Exclusive, KeyHolder, VersionHolder
  <1>4. Protected'
    <2>1. \A s \in Session : VersionHolder(s) => cmd[s].agg # a
      BY DEF SetOutside, HoldsVersion, VersionHolder
    <2>2. \A s \in Session : cmd[s].agg \in Agg
      BY CommandAssumption DEF IInv, TypeOK
    <2>3. \A s \in Session :
             VersionHolder(s) => versions'[cmd[s].agg] = versions[cmd[s].agg]
      BY <2>1, <2>2, <1>1 DEF IInv, TypeOK
    <2> QED
      BY <2>3, <1>1 DEF IInv, Protected, KeyHolder, VersionHolder,
                        WrittenAt, Replayable, Fingerprint
  <1>5. Bounded'
    <2>1. \A e \in effects' : e.version <= versions'[e.cmd.agg]
      BY <1>1, CommandAssumption DEF IInv, TypeOK, Mutation, Consistent, Bounded
    <2>2. ASSUME NEW b \in Agg, NEW w \in Nat, <<b, w>> \in outside'
          PROVE  w <= versions'[b]
      BY <2>2, <1>1 DEF IInv, TypeOK, Consistent, Bounded
    <2> QED
      BY <2>1, <2>2 DEF Bounded
  <1>6. SerialVersions'
    <2>1. ASSUME NEW b \in Agg, NEW w \in 1..versions'[b]
          PROVE  MadeByMutation(b, w)' <=> <<b, w>> \notin outside'
      <3>1. MadeByMutation(b, w)' <=> MadeByMutation(b, w)
        BY <1>1 DEF MadeByMutation
      <3>2. CASE w \in 1..versions[b]
        <4>1. <<b, w>> \in outside' <=> <<b, w>> \in outside
          BY <3>2, <1>1 DEF IInv, TypeOK
        <4> QED
          BY <3>1, <3>2, <4>1 DEF IInv, Consistent, SerialVersions
      <3>3. CASE w \notin 1..versions[b]
        <4>1. b = a /\ w \in (versions[a] + 1)..v
          BY <3>3, <1>1 DEF IInv, TypeOK
        <4>2. <<b, w>> \in outside'
          BY <4>1, <1>1
        <4>3. ~MadeByMutation(b, w)
          BY <4>1, <1>1 DEF IInv, Consistent, Bounded, MadeByMutation
        <4> QED
          BY <3>1, <4>2, <4>3
      <3> QED
        BY <3>2, <3>3
    <2> QED
      BY <2>1, <1>1 DEF IInv, Consistent, SerialVersions
  <1>7. ExactlyOnce' /\ AllOrNothing' /\ AnswersTruthful'
    BY <1>1 DEF IInv, Consistent, ExactlyOnce, AllOrNothing, AnswersTruthful
  <1> QED
    BY <1>2, <1>3, <1>4, <1>5, <1>6, <1>7 DEF IInv, Consistent

-----------------------------------------------------------------------------
\* Every step preserves the inductive invariant.
LEMMA NextIInv == IInv /\ [Next]_vars => IInv'
  <1> SUFFICES ASSUME IInv, [Next]_vars PROVE IInv'
    OBVIOUS
  <1>1. CASE UNCHANGED vars
    <2>1. TypeOK'
      BY <1>1 DEF vars, txVars, tables, IInv, TypeOK
    <2>2. Exclusive'
      BY <1>1 DEF vars, txVars, IInv, Exclusive, KeyHolder, VersionHolder
    <2>3. Protected'
      BY <1>1 DEF vars, txVars, tables, IInv, Protected, KeyHolder, VersionHolder,
                  WrittenAt
    <2>4. Consistent'
      BY <1>1, PrivateStepConsistent DEF vars, IInv
    <2> QED
      BY <2>1, <2>2, <2>3, <2>4 DEF IInv
  <1>2. ASSUME NEW s \in Session, Open(s) PROVE IInv'
    BY <1>2, OpenIInv
  <1>3. ASSUME NEW s \in Session, Step(s) PROVE IInv'
    BY <1>3, ReserveIInv, RollbackIInv, AdvanceIInv, WriteIInv, CommitIInv,
       CommitReplayIInv
    DEF Step, ReserveRejected, StaleVersion
  <1>4. ASSUME NEW s \in Session, Abort(s) PROVE IInv'
    BY <1>4, RollbackIInv DEF Abort
  <1>5. ASSUME NEW a \in Agg, Seed(a) \/ Sync(a) PROVE IInv'
    <2>1. PICK v \in 1..MaxOutside : SetOutside(a, v)
      BY <1>5 DEF Seed, Sync
    <2> QED
      BY <2>1, OutsideIInv, BoundAssumption
  <1> QED
    BY <1>1, <1>2, <1>3, <1>4, <1>5 DEF Next

\* The inductive invariant holds in every reachable state.
THEOREM Invariance == Spec => []IInv
  BY InitIInv, NextIInv, PTL DEF Spec

\* Every variable keeps its type.
THEOREM TypeCorrect == Spec => []TypeOK
  <1>1. IInv => TypeOK
    BY DEF IInv
  <1> QED
    BY <1>1, Invariance, PTL

\* The business effect of an idempotency key is committed at most once, for
\* any number of clients, retries, aborts and lost responses.
THEOREM CommittedAtMostOnce == Spec => []ExactlyOnce
  <1>1. IInv => ExactlyOnce
    BY DEF IInv, Consistent
  <1> QED
    BY <1>1, Invariance, PTL

\* The versions of an aggregate are shared out between its committed mutations
\* and other code: each has one origin, and no mutation overwrote a version.
THEOREM NoLostUpdate == Spec => []SerialVersions
  <1>1. IInv => SerialVersions
    BY DEF IInv, Consistent
  <1> QED
    BY <1>1, Invariance, PTL

\* Effect, audit event, outbox event and idempotency result commit as one.
THEOREM Atomicity == Spec => []AllOrNothing
  <1>1. IInv => AllOrNothing
    BY DEF IInv, Consistent
  <1> QED
    BY <1>1, Invariance, PTL

\* What a client is told is what was committed for its own command.
THEOREM TruthfulAnswers == Spec => []AnswersTruthful
  <1>1. IInv => AnswersTruthful
    BY DEF IInv, Consistent
  <1> QED
    BY <1>1, Invariance, PTL

\* Committed versions only grow, and completed idempotency rows and effects
\* are never rewritten.
THEOREM HistoryIsPermanent == Spec => NeverUndone
  <1> DEFINE Keeps == /\ \A a \in Agg : versions'[a] >= versions[a]
                      /\ \A k \in Key : records[k] # NoRecord
                                           => records'[k] = records[k]
                      /\ effects \subseteq effects'
  <1>1. ASSUME IInv, [Next]_vars PROVE Keeps
    <2>1. ASSUME UNCHANGED tables PROVE Keeps
      BY <2>1, <1>1 DEF tables, IInv, TypeOK
    <2>2. ASSUME NEW s \in Session, Commit(s) PROVE Keeps
      <3>1. \A a \in Agg : versions'[a] >= versions[a]
        <4> DEFINE c == cmd[s]
        <4>1. /\ c.expected \in Nat /\ versions[c.agg] = c.expected
              /\ versions' = [versions EXCEPT ![c.agg] = c.expected + 1]
          BY <2>2, <1>1, CommitFacts
        <4> HIDE DEF c
        <4> QED
          BY <4>1, <1>1 DEF IInv, TypeOK
      <3>2. \A k \in Key : records[k] # NoRecord => records'[k] = records[k]
        <4> DEFINE c == cmd[s]
        <4>1. records[c.key] = NoRecord
          BY <2>2, <1>1, CommitFacts
        <4>2. \A k \in Key : k # c.key => records'[k] = records[k]
          BY <2>2, <1>1 DEF Commit, IInv, TypeOK
        <4> QED
          BY <4>1, <4>2
      <3>3. effects \subseteq effects'
        BY <2>2, <1>1, CommitFacts
      <3> QED
        BY <3>1, <3>2, <3>3
    <2>3. ASSUME NEW a \in Agg, Seed(a) \/ Sync(a) PROVE Keeps
      BY <2>3, <1>1, BoundAssumption DEF Seed, Sync, SetOutside, IInv, TypeOK
    <2>4. ASSUME NEW s \in Session, Open(s) \/ Abort(s) \/ (Step(s) /\ ~Commit(s))
          PROVE  UNCHANGED tables
      BY <2>4 DEF Open, Abort, Step, Rollback, ReserveNew, ReserveReplay,
                  ReserveRejected, AdvanceVersion, StaleVersion, Mutate,
                  AppendAudit, EnqueueOutbox, CompleteIdempotency, Write,
                  CommitReplay
    <2>5. CASE UNCHANGED vars
      BY <2>1, <2>5 DEF vars
    <2> HIDE DEF Keeps
    <2> QED
      BY <1>1, <2>1, <2>2, <2>3, <2>4, <2>5 DEF Next
  <1>2. IInv /\ [Next]_vars => [Keeps]_vars
    BY <1>1
  <1> QED
    BY <1>2, Invariance, PTL DEF Spec, NeverUndone

-----------------------------------------------------------------------------
\* The statements of executeVersionedMutation implement the atomic store: a
\* commit is an Apply, a write of other code an Elsewhere, and every other
\* statement a stutter.
THEOREM Implementation == Spec => ImplementsStore
  <1>1. Init => Store!StoreInit
    BY DEF Init, Store!StoreInit
  <1>2. ASSUME IInv, [Next]_vars PROVE [Store!StoreNext]_(Store!svars)
    <2>1. ASSUME NEW s \in Session, Commit(s) PROVE Store!Apply(cmd[s])
      BY <2>1, <1>2, CommitFacts DEF Store!Apply, Store!Unused
    <2>2. ASSUME NEW s \in Session, Commit(s) PROVE cmd[s] \in Command
      BY <2>2, <1>2 DEF IInv, TypeOK
    <2>3. ASSUME NEW a \in Agg, Seed(a) \/ Sync(a) PROVE Store!Elsewhere(a)
      <3>1. PICK v \in 1..MaxOutside : SetOutside(a, v)
        BY <2>3 DEF Seed, Sync
      <3>2. /\ versions'[a] = v /\ v \in Nat
            /\ versions[a] = 0 \/ a \in Synced
        BY <2>3, <3>1, <1>2, BoundAssumption DEF SetOutside, Seed, Sync, IInv, TypeOK
      <3> QED
        BY <3>1, <3>2, <1>2, BoundAssumption
        DEF SetOutside, Store!Elsewhere, IInv, TypeOK
    <2>4. ASSUME NEW s \in Session, Open(s) \/ Abort(s) \/ (Step(s) /\ ~Commit(s))
          PROVE  UNCHANGED Store!svars
      BY <2>4 DEF Open, Abort, Step, Rollback, ReserveNew, ReserveReplay,
                  ReserveRejected, AdvanceVersion, StaleVersion, Mutate,
                  AppendAudit, EnqueueOutbox, CompleteIdempotency, Write,
                  CommitReplay, tables, Store!svars
    <2>5. CASE UNCHANGED vars
      BY <2>5 DEF vars, tables, Store!svars
    <2> QED
      BY <1>2, <2>1, <2>2, <2>3, <2>4, <2>5 DEF Next, Store!StoreNext
  <1> QED
    BY <1>1, <1>2, Invariance, PTL DEF Spec, ImplementsStore, Store!StoreSpec
=============================================================================
