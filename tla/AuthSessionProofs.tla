-------------------------- MODULE AuthSessionProofs --------------------------
(***************************************************************************)
(* Theorems about AuthSession, for any number of users, sessions and       *)
(* connections: a family has one live session at most, and none once the   *)
(* reuse of one of its sessions has been reported.                         *)
(***************************************************************************)
EXTENDS AuthSession, TLAPS

\* Stages of a rotation: it holds the lock of a family.
Rotating == {"locked", "valid", "reused"}

\* A session belongs to a family that was begun by a session.
FamiliesOK ==
    /\ \A s \in Session : s \notin Issued => family[s] = s
    /\ \A s \in Session : s \in Issued => family[s] \in Issued
    /\ reported \subseteq Issued

\* Families are rotated by one transaction at a time.
LocksOK ==
    /\ \A c \in Connection : stage[c] \in Rotating => presented[c] \in Issued
    /\ \A c \in Connection : stage[c] \notin Rotating => presented[c] = NoSession
    /\ \A c, d \in Connection :
           stage[c] \in Rotating /\ stage[d] \in Rotating
               /\ family[presented[c]] = family[presented[d]] => c = d

\* What a rotation has read of its family is still so.
ReadOK ==
    \A c \in Connection :
        /\ stage[c] = "valid" => Live(presented[c])
        /\ stage[c] = "reused" =>
               targets[c] = {t \in Issued : family[t] = family[presented[c]]}

SessionInv ==
    /\ TypeOK
    /\ FamiliesOK
    /\ LocksOK
    /\ ReadOK
    /\ OneLiveSession
    /\ ReuseEndsFamily

LEMMA InitSessionInv == Init => SessionInv
  <1> SUFFICES ASSUME Init PROVE SessionInv
    OBVIOUS
  <1>1. TypeOK
    BY DEF Init, TypeOK, Stages
  <1>2. Issued = {}
    BY DEF Init, Issued
  <1>3. FamiliesOK /\ OneLiveSession /\ ReuseEndsFamily
    BY <1>2 DEF Init, FamiliesOK, OneLiveSession, ReuseEndsFamily, Live
  <1>4. LocksOK /\ ReadOK
    BY DEF Init, LocksOK, ReadOK, Rotating
  <1> QED
    BY <1>1, <1>3, <1>4 DEF SessionInv

-----------------------------------------------------------------------------
(* Steps that leave the rows alone.                                        *)

LEMMA RowsKept ==
    ASSUME SessionInv, UNCHANGED <<rowVars, reported>>
    PROVE  /\ Issued' = Issued
           /\ \A s \in Session : Live(s)' = Live(s)
           /\ FamiliesOK' /\ OneLiveSession' /\ ReuseEndsFamily'
  BY DEF SessionInv, rowVars, Issued, Live, FamiliesOK, OneLiveSession, ReuseEndsFamily

LEMMA LockFamilyInv ==
    ASSUME NEW c \in Connection, NEW s \in Session, SessionInv, LockFamily(c, s)
    PROVE  SessionInv'
  <1>1. /\ stage[c] = "idle"
        /\ s \in Issued
        /\ FamilyFree(s)
        /\ stage' = [stage EXCEPT ![c] = "locked"]
        /\ presented' = [presented EXCEPT ![c] = s]
        /\ UNCHANGED <<rowVars, expired, deleted, reported, targets, leaver>>
    BY DEF LockFamily
  <1>2. TypeOK'
    BY <1>1 DEF SessionInv, TypeOK, Stages, rowVars
  <1>3. \A d \in Connection : d # c => stage'[d] = stage[d] /\ presented'[d] = presented[d]
    BY <1>1 DEF SessionInv, TypeOK
  <1>4. stage'[c] = "locked" /\ presented'[c] = s
    BY <1>1 DEF SessionInv, TypeOK
  <1>5. LocksOK'
    <2>1. \A d \in Connection : stage[d] \in Rotating => family[presented[d]] # family[s]
      BY <1>1, NoneAssumption DEF SessionInv, LocksOK, FamilyFree, Issued
    <2>2. family' = family /\ Issued' = Issued
      BY <1>1, RowsKept DEF rowVars
    <2> QED
      BY <1>1, <1>3, <1>4, <2>1, <2>2 DEF SessionInv, LocksOK, Rotating
  <1>6. ReadOK'
    BY <1>1, <1>3, <1>4, RowsKept DEF SessionInv, ReadOK, Live, Issued, rowVars
  <1> QED
    BY <1>1, <1>2, <1>5, <1>6, RowsKept DEF SessionInv

LEMMA ReadSessionInv ==
    ASSUME NEW c \in Connection, SessionInv, ReadSession(c)
    PROVE  SessionInv'
  <1> DEFINE s == presented[c]
  <1>1. /\ stage[c] = "locked"
        /\ UNCHANGED <<rowVars, expired, deleted, reported, presented, leaver>>
    BY DEF ReadSession
  <1>2. \/ /\ Invalid(s)
           /\ stage' = [stage EXCEPT ![c] = "reused"]
           /\ targets' = [targets EXCEPT ![c] = {t \in Issued : family[t] = family[s]}]
        \/ /\ ~Invalid(s)
           /\ stage' = [stage EXCEPT ![c] = "valid"]
           /\ UNCHANGED targets
    BY DEF ReadSession
  <1>3. {t \in Issued : family[t] = family[s]} \subseteq Session
    BY DEF Issued
  <1>4. TypeOK'
    BY <1>1, <1>2, <1>3 DEF SessionInv, TypeOK, Stages, rowVars
  <1>5. \A d \in Connection : d # c => stage'[d] = stage[d] /\ targets'[d] = targets[d]
    BY <1>2 DEF SessionInv, TypeOK
  <1>6. LocksOK'
    BY <1>1, <1>2, <1>5, RowsKept DEF SessionInv, TypeOK, LocksOK, Rotating, rowVars
  <1>7. ReadOK'
    <2>1. s \in Issued
      BY <1>1 DEF SessionInv, LocksOK, Rotating
    <2>2. stage'[c] = "valid" => Live(s)
      BY <1>2, <2>1 DEF SessionInv, TypeOK, Invalid, Live
    <2>3. stage'[c] = "reused" => targets'[c] = {t \in Issued : family[t] = family[s]}
      BY <1>2 DEF SessionInv, TypeOK
    <2>4. \A d \in Connection : d # c /\ stage'[d] \in {"valid", "reused"} => presented[d] \in Session
      BY <1>5 DEF SessionInv, LocksOK, Rotating, Issued
    <2>5. /\ presented' = presented /\ family' = family /\ Issued' = Issued
          /\ \A t \in Session : Live(t)' = Live(t)
      BY <1>1, RowsKept DEF rowVars
    <2>6. s \in Session
      BY <2>1 DEF Issued
    <2> HIDE DEF s
    <2> QED
      BY <1>5, <2>2, <2>3, <2>4, <2>5, <2>6 DEF SessionInv, ReadOK, Live, s
  <1> QED
    BY <1>1, <1>4, <1>6, <1>7, RowsKept DEF SessionInv

LEMMA SelectAllInv ==
    ASSUME NEW c \in Connection, NEW u \in User, SessionInv, SelectAll(c, u)
    PROVE  SessionInv'
  <1>1. /\ stage[c] = "idle"
        /\ stage' = [stage EXCEPT ![c] = "revoking"]
        /\ targets' = [targets EXCEPT ![c] = {s \in Issued : user[s] = u /\ ~revoked[s]}]
        /\ UNCHANGED <<rowVars, expired, deleted, reported, presented>>
    BY DEF SelectAll
  <1>2. PICK gone \in {u, NoUser} : leaver' = [leaver EXCEPT ![c] = gone]
    BY DEF SelectAll
  <1>3. {s \in Issued : user[s] = u /\ ~revoked[s]} \subseteq Session
    BY DEF Issued
  <1>4. TypeOK'
    BY <1>1, <1>2, <1>3 DEF SessionInv, TypeOK, Stages, rowVars
  <1>5. LocksOK'
    BY <1>1, RowsKept DEF SessionInv, TypeOK, LocksOK, Rotating, rowVars
  <1>6. ReadOK'
    BY <1>1, RowsKept DEF SessionInv, TypeOK, ReadOK, Live, Issued, rowVars
  <1> QED
    BY <1>1, <1>4, <1>5, <1>6, RowsKept DEF SessionInv

LEMMA ExpireInv ==
    ASSUME NEW s \in Session, SessionInv, Expire(s)
    PROVE  SessionInv'
  <1>1. expired' = expired \union {s} /\ UNCHANGED <<rowVars, deleted, reported, txVars>>
    BY DEF Expire
  <1>2. TypeOK'
    BY <1>1 DEF SessionInv, TypeOK, rowVars, txVars
  <1>3. LocksOK' /\ ReadOK'
    BY <1>1, RowsKept DEF SessionInv, LocksOK, ReadOK, Live, Issued, rowVars, txVars
  <1> QED
    BY <1>1, <1>2, <1>3, RowsKept DEF SessionInv

\* A transaction that ends gives up its locks and leaves those of others.
LEMMA ClosedTx ==
    ASSUME NEW c \in Connection, SessionInv, Closed(c)
    PROVE  /\ stage' \in [Connection -> Stages]
           /\ presented' \in [Connection -> Session \union {NoSession}]
           /\ targets' \in [Connection -> SUBSET Session]
           /\ leaver' \in [Connection -> User \union {NoUser}]
           /\ stage'[c] = "idle" /\ presented'[c] = NoSession
           /\ \A d \in Connection : d # c =>
                  stage'[d] = stage[d] /\ presented'[d] = presented[d] /\ targets'[d] = targets[d]
  BY DEF SessionInv, TypeOK, Closed, Stages

LEMMA ClosedLocks ==
    ASSUME NEW c \in Connection, SessionInv, Closed(c),
           Issued \subseteq Issued',
           \A s \in Issued : family'[s] = family[s]
    PROVE  LocksOK'
  BY ClosedTx DEF SessionInv, LocksOK, Rotating, Issued

LEMMA RollbackInv ==
    ASSUME NEW c \in Connection, SessionInv, Rollback(c)
    PROVE  SessionInv'
  <1>1. Closed(c) /\ UNCHANGED <<rowVars, expired, deleted, reported>>
    BY DEF Rollback
  <1>2. TypeOK'
    BY <1>1, ClosedTx DEF SessionInv, TypeOK, rowVars
  <1>3. LocksOK'
    BY <1>1, ClosedLocks, RowsKept DEF rowVars
  <1>4. ReadOK'
    BY <1>1, ClosedTx, RowsKept DEF SessionInv, ReadOK, Live, Issued, rowVars
  <1> QED
    BY <1>1, <1>2, <1>3, <1>4, RowsKept DEF SessionInv

-----------------------------------------------------------------------------
(* Steps that change rows.                                                 *)

LEMMA IssueInv ==
    ASSUME NEW u \in User, NEW s \in Session, SessionInv, Issue(u, s)
    PROVE  SessionInv'
  <1>1. /\ s \notin Issued
        /\ user' = [user EXCEPT ![s] = u]
        /\ UNCHANGED <<family, revoked, replacedBy, expired, deleted, reported, txVars>>
    BY DEF Issue
  <1>2. TypeOK'
    BY <1>1 DEF SessionInv, TypeOK, txVars
  <1>3. Issued' = Issued \union {s}
    BY <1>1, NoneAssumption DEF SessionInv, TypeOK, Issued
  <1>4. \A t \in Session : t # s => Live(t)' = Live(t)
    BY <1>1, <1>3 DEF Live
  <1>5. \A t \in Issued : family[t] # s
    BY <1>1 DEF SessionInv, FamiliesOK, Issued
  <1>6. family[s] = s
    BY <1>1 DEF SessionInv, FamiliesOK
  <1>7. FamiliesOK'
    BY <1>1, <1>3, <1>6 DEF SessionInv, FamiliesOK
  <1>8. LocksOK'
    BY <1>1, <1>3 DEF SessionInv, LocksOK, Rotating, txVars
  <1>9. ReadOK'
    <2>1. \A c \in Connection : stage[c] \in {"valid", "reused"} => presented[c] \in Issued
      BY DEF SessionInv, LocksOK, Rotating
    <2>2. \A c \in Connection : stage[c] = "valid" => Live(presented[c])'
      BY <1>1, <1>4, <2>1 DEF SessionInv, ReadOK, Issued, txVars
    <2>3. \A c \in Connection : stage[c] = "reused" => family[presented[c]] # s
      BY <1>5, <2>1
    <2>4. \A c \in Connection : stage[c] = "reused" =>
             targets[c] = {t \in Issued' : family[t] = family[presented[c]]}
      BY <1>3, <1>6, <2>3 DEF SessionInv, ReadOK
    <2> QED
      BY <1>1, <2>2, <2>4 DEF ReadOK, Live, txVars
  <1>10. OneLiveSession'
    <2>1. \A t \in Session : Live(t)' /\ family'[t] = s => t = s
      BY <1>1, <1>4, <1>5 DEF Live
    <2> QED
      BY <1>1, <1>4, <1>6, <2>1 DEF SessionInv, OneLiveSession
  <1>11. ReuseEndsFamily'
    BY <1>1, <1>4, <1>6 DEF SessionInv, FamiliesOK, ReuseEndsFamily
  <1> QED
    BY <1>2, <1>7, <1>8, <1>9, <1>10, <1>11 DEF SessionInv

LEMMA ReplaceInv ==
    ASSUME NEW c \in Connection, NEW t \in Session, SessionInv, Replace(c, t)
    PROVE  SessionInv'
  <1> DEFINE s == presented[c]
             f == family[s]
  <1>1. /\ stage[c] = "valid"
        /\ t \notin Issued
        /\ user' = [user EXCEPT ![t] = user[s]]
        /\ family' = [family EXCEPT ![t] = f]
        /\ revoked' = [revoked EXCEPT ![s] = TRUE]
        /\ replacedBy' = [replacedBy EXCEPT ![s] = t]
        /\ Closed(c)
        /\ UNCHANGED <<expired, deleted, reported>>
    BY DEF Replace
  <1>2. s \in Issued /\ Live(s)
    BY <1>1 DEF SessionInv, LocksOK, ReadOK, Rotating
  <1>3. s \in Session /\ user[s] \in User /\ f \in Issued /\ f \in Session
    BY <1>2 DEF SessionInv, TypeOK, FamiliesOK, Issued
  <1> HIDE DEF s, f
  <1>4. TypeOK'
    BY <1>1, <1>3, ClosedTx DEF SessionInv, TypeOK
  <1>5. Issued' = Issued \union {t}
    BY <1>1, <1>3, NoneAssumption DEF SessionInv, TypeOK, Issued
  <1>6. \A x \in Session : family'[x] = IF x = t THEN f ELSE family[x]
    BY <1>1 DEF SessionInv, TypeOK
  <1>7. \A x \in Session : Live(x)' => x = t \/ (Live(x) /\ x # s)
    BY <1>1, <1>5 DEF SessionInv, TypeOK, Live
  <1>8. FamiliesOK'
    BY <1>1, <1>3, <1>5, <1>6 DEF SessionInv, FamiliesOK
  <1>9. LocksOK'
    BY <1>1, <1>5, <1>6, ClosedLocks DEF Issued
  <1>10. ReadOK'
    <2> SUFFICES ASSUME NEW d \in Connection, d # c, stage[d] \in {"valid", "reused"}
                 PROVE  /\ stage[d] = "valid" => Live(presented[d])'
                        /\ stage[d] = "reused" =>
                             targets[d] = {x \in Issued' : family'[x] = family'[presented[d]]}
      BY <1>1, ClosedTx DEF ReadOK, Live
    <2>1. presented[d] \in Issued /\ family[presented[d]] # f
      BY <1>1 DEF SessionInv, LocksOK, Rotating, s, f
    <2>2. presented[d] # s /\ presented[d] # t /\ presented[d] \in Session
      BY <1>1, <2>1 DEF f, Issued
    <2>3. stage[d] = "valid" => Live(presented[d])'
      BY <1>1, <1>5, <2>2, ClosedTx DEF SessionInv, TypeOK, ReadOK, Live
    <2>4. \A x \in Issued : x # t /\ x \in Session
      BY <1>1 DEF Issued
    <2>5. {x \in Issued' : family'[x] = family'[presented[d]]}
             = {x \in Issued : family[x] = family[presented[d]]}
      BY <1>5, <1>6, <2>1, <2>2, <2>4
    <2> QED
      BY <2>3, <2>5 DEF SessionInv, ReadOK
  <1>11. \A x \in Session : Live(x) /\ family[x] = f => x = s
    BY <1>2, <1>3 DEF SessionInv, OneLiveSession, f
  <1>12. OneLiveSession'
    <2>1. \A x \in Session : Live(x)' /\ family'[x] = f => x = t
      BY <1>6, <1>7, <1>11
    <2> QED
      BY <1>6, <1>7, <2>1 DEF SessionInv, OneLiveSession
  <1>13. ReuseEndsFamily'
    <2>1. f \notin reported
      BY <1>2, <1>3 DEF SessionInv, ReuseEndsFamily, f
    <2> QED
      BY <1>1, <1>6, <1>7, <2>1 DEF SessionInv, ReuseEndsFamily
  <1> QED
    BY <1>4, <1>8, <1>9, <1>10, <1>12, <1>13 DEF SessionInv

\* Revoking rows that no other rotation has read.
LEMMA RevocationKeeps ==
    ASSUME NEW c \in Connection, SessionInv, TargetsFree(c), RevokeTargets(c), Closed(c),
           UNCHANGED <<user, family, replacedBy, expired>>
    PROVE  /\ Issued' = Issued
           /\ \A s \in Session : Live(s)' <=> Live(s) /\ s \notin targets[c]
           /\ revoked' \in [Session -> BOOLEAN]
           /\ LocksOK' /\ ReadOK' /\ OneLiveSession'
  <1>1. Issued' = Issued
    BY DEF Issued
  <1>2. revoked' \in [Session -> BOOLEAN]
    BY DEF SessionInv, TypeOK, RevokeTargets
  <1>3. \A s \in Session : Live(s)' <=> Live(s) /\ s \notin targets[c]
    BY <1>1 DEF Live, RevokeTargets
  <1>4. LocksOK'
    BY <1>1, ClosedLocks DEF Issued
  <1>5. ReadOK'
    <2>1. \A d \in Connection : stage[d] \in {"valid", "reused"} => presented[d] \in Session
      BY DEF SessionInv, LocksOK, Rotating, Issued
    <2>2. \A d \in Connection : d # c /\ stage[d] = "valid" => Live(presented[d])'
      BY <1>3, <2>1, ClosedTx DEF SessionInv, ReadOK, TargetsFree
    <2> QED
      BY <1>1, <2>2, ClosedTx DEF SessionInv, ReadOK, Live
  <1>6. OneLiveSession'
    BY <1>3 DEF SessionInv, OneLiveSession
  <1> QED
    BY <1>1, <1>2, <1>3, <1>4, <1>5, <1>6

LEMMA RevokeFamilyInv ==
    ASSUME NEW c \in Connection, SessionInv, RevokeFamily(c)
    PROVE  SessionInv'
  <1> DEFINE f == family[presented[c]]
  <1>1. /\ stage[c] = "reused"
        /\ TargetsFree(c)
        /\ RevokeTargets(c)
        /\ reported' = reported \union {f}
        /\ Closed(c)
        /\ UNCHANGED <<user, family, replacedBy, expired, deleted>>
    BY DEF RevokeFamily
  <1>2. f \in Issued /\ targets[c] = {t \in Issued : family[t] = f}
    BY <1>1 DEF SessionInv, LocksOK, Rotating, FamiliesOK, ReadOK, Issued
  <1> HIDE DEF f
  <1>3. TypeOK'
    BY <1>1, <1>2, ClosedTx, RevocationKeeps DEF SessionInv, TypeOK, Issued
  <1>4. FamiliesOK'
    BY <1>1, <1>2, RevocationKeeps DEF SessionInv, FamiliesOK
  <1>5. ReuseEndsFamily'
    BY <1>1, <1>2, RevocationKeeps DEF SessionInv, ReuseEndsFamily, Live
  <1> QED
    BY <1>1, <1>3, <1>4, <1>5, RevocationKeeps DEF SessionInv

LEMMA RevokeAllInv ==
    ASSUME NEW c \in Connection, SessionInv, RevokeAll(c)
    PROVE  SessionInv'
  <1>1. /\ TargetsFree(c)
        /\ RevokeTargets(c)
        /\ deleted' = deleted \union ({leaver[c]} \ {NoUser})
        /\ Closed(c)
        /\ UNCHANGED <<user, family, replacedBy, expired, reported>>
    BY DEF RevokeAll
  <1>2. TypeOK'
    BY <1>1, ClosedTx, RevocationKeeps DEF SessionInv, TypeOK
  <1>3. FamiliesOK' /\ ReuseEndsFamily'
    BY <1>1, RevocationKeeps DEF SessionInv, FamiliesOK, ReuseEndsFamily
  <1> QED
    BY <1>1, <1>2, <1>3, RevocationKeeps DEF SessionInv

-----------------------------------------------------------------------------
LEMMA NextSessionInv == SessionInv /\ [Next]_vars => SessionInv'
  <1> SUFFICES ASSUME SessionInv, [Next]_vars PROVE SessionInv'
    OBVIOUS
  <1>1. ASSUME NEW u \in User, NEW s \in Session, Issue(u, s) PROVE SessionInv'
    BY <1>1, IssueInv
  <1>2. ASSUME NEW c \in Connection, NEW s \in Session, LockFamily(c, s) \/ Replace(c, s)
        PROVE  SessionInv'
    BY <1>2, LockFamilyInv, ReplaceInv
  <1>3. ASSUME NEW c \in Connection,
               ReadSession(c) \/ RevokeFamily(c) \/ RevokeAll(c) \/ Rollback(c)
        PROVE  SessionInv'
    BY <1>3, ReadSessionInv, RevokeFamilyInv, RevokeAllInv, RollbackInv
  <1>4. ASSUME NEW c \in Connection, NEW u \in User, SelectAll(c, u) PROVE SessionInv'
    BY <1>4, SelectAllInv
  <1>5. ASSUME NEW s \in Session, Expire(s) PROVE SessionInv'
    BY <1>5, ExpireInv
  <1>6. CASE UNCHANGED vars
    <2>1. UNCHANGED <<rowVars, expired, deleted, reported, txVars>>
      BY <1>6 DEF vars
    <2>2. TypeOK'
      BY <2>1 DEF SessionInv, TypeOK, rowVars, txVars
    <2>3. LocksOK' /\ ReadOK'
      BY <2>1, RowsKept DEF SessionInv, LocksOK, ReadOK, Live, Issued, rowVars, txVars
    <2> QED
      BY <2>1, <2>2, <2>3, RowsKept DEF SessionInv
  <1> QED
    BY <1>1, <1>2, <1>3, <1>4, <1>5, <1>6 DEF Next

THEOREM SessionInvariant == Spec => []SessionInv
  BY InitSessionInv, NextSessionInv, PTL DEF Spec

\* Every variable of the sessions keeps its type.
THEOREM SessionTypeCorrect == Spec => []TypeOK
  <1>1. SessionInv => TypeOK
    BY DEF SessionInv
  <1> QED
    BY <1>1, SessionInvariant, PTL

\* Concurrent rotations leave one live session in a family.
THEOREM RotationIsExclusive == Spec => []OneLiveSession
  <1>1. SessionInv => OneLiveSession
    BY DEF SessionInv
  <1> QED
    BY <1>1, SessionInvariant, PTL

\* No rotation under way slips past the revocation of a reused family.
THEOREM ReuseIsFinal == Spec => []ReuseEndsFamily
  <1>1. SessionInv => ReuseEndsFamily
    BY DEF SessionInv
  <1> QED
    BY <1>1, SessionInvariant, PTL
=============================================================================
