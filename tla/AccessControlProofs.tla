------------------------ MODULE AccessControlProofs ------------------------
(***************************************************************************)
(* Theorems about AccessControl, for any number of users and connections:  *)
(* no change of roles removes the last system administrator, no override   *)
(* outlives the role it was granted to, directors stay within their        *)
(* bounds, and whatever changes the access of a user raises its version.   *)
(***************************************************************************)
EXTENDS AccessControl, FiniteSetTheorems, TLAPS

\* Stages of an access command that has advanced the version of its user.
Advanced == {"versioned", "locked", "counted"}

\* What the locks of a transaction guarantee about what it has read.
LocksOK ==
    /\ \A c \in Connection : stage[c] \in Advanced => cmd[c].kind \in AccessKinds
    /\ \A c \in Connection : stage[c] \in {"locked", "counted"} =>
           subject[c] = role[cmd[c].user] /\ ~deleted[cmd[c].user]
    /\ \A c, d \in Connection :
           stage[c] \in Advanced /\ stage[d] \in Advanced /\ cmd[c].user = cmd[d].user => c = d
    /\ \A c, d \in Connection : stage[c] = "counted" /\ stage[d] = "counted" => c = d

AdminDeleted == \E u \in User : deleted[u] /\ role[u] = "system_admin"

\* Until an administrator is deleted, what a transaction counted is still so.
CountOK ==
    \A c \in Connection :
        stage[c] = "counted" => AdminDeleted \/ admins[c] = Cardinality(ActiveAdmins)

\* The version clients see runs ahead of the aggregate's once a person has been
\* off-boarded, and never falls behind.
VersionsOK ==
    \A u \in User :
        /\ accessVersion[u] >= userVersion[u]
        /\ archived[u] => accessVersion[u] > userVersion[u]

AccessInv ==
    /\ TypeOK
    /\ LocksOK
    /\ CountOK
    /\ VersionsOK
    /\ OverridesFitRole
    /\ ArchivedHasNoOverride
    /\ AdminsLostOnlyByDeletion

LEMMA InitAccessInv == Init => AccessInv
  <1> SUFFICES ASSUME Init PROVE AccessInv
    OBVIOUS
  <1>1. TypeOK
    BY DEF Init, TypeOK, Role, Stages
  <1>2. LocksOK /\ CountOK
    BY DEF Init, LocksOK, CountOK, Advanced
  <1>3. VersionsOK /\ OverridesFitRole /\ ArchivedHasNoOverride
    BY DEF Init, VersionsOK, OverridesFitRole, ArchivedHasNoOverride
  <1>4. AdminsLostOnlyByDeletion
    BY DEF Init, AdminsLostOnlyByDeletion, ActiveAdmins
  <1> QED
    BY <1>1, <1>2, <1>3, <1>4 DEF AccessInv

-----------------------------------------------------------------------------
(* Steps of a transaction before it commits.                               *)

\* What is said of accounts survives every step that leaves them alone.
LEMMA AccountsKept ==
    ASSUME AccessInv, UNCHANGED accountVars
    PROVE  /\ VersionsOK' /\ OverridesFitRole' /\ ArchivedHasNoOverride'
           /\ AdminsLostOnlyByDeletion'
           /\ ActiveAdmins' = ActiveAdmins
           /\ AdminDeleted' = AdminDeleted
  BY DEF AccessInv, accountVars, VersionsOK, OverridesFitRole, ArchivedHasNoOverride,
         AdminsLostOnlyByDeletion, ActiveAdmins, AdminDeleted

LEMMA BeginAccessInv ==
    ASSUME NEW c \in Connection, AccessInv, BeginAccess(c)
    PROVE  AccessInv'
  <1>1. PICK k \in AccessKinds, a \in User, u \in User, r \in Role :
           /\ ~VersionLocked(u)
           /\ cmd' = [cmd EXCEPT ![c] = [kind |-> k, actor |-> a, actorRole |-> token[a],
                                         user |-> u, target |-> r]]
    BY DEF BeginAccess
  <1>2. /\ stage[c] = "idle"
        /\ stage' = [stage EXCEPT ![c] = "versioned"]
        /\ UNCHANGED <<accountVars, token, subject, admins>>
    BY DEF BeginAccess
  <1>3. TypeOK'
    BY <1>1, <1>2 DEF AccessInv, TypeOK, accountVars, Stages, Command
  <1>4. LocksOK'
    <2>1. \A d \in Connection : d # c => stage'[d] = stage[d] /\ cmd'[d] = cmd[d]
      BY <1>1, <1>2 DEF AccessInv, TypeOK
    <2>2. stage'[c] = "versioned" /\ cmd'[c].kind \in AccessKinds /\ cmd'[c].user = u
      BY <1>1, <1>2 DEF AccessInv, TypeOK
    <2>3. \A d \in Connection : stage[d] \in Advanced => cmd[d].user # u
      BY <1>1 DEF VersionLocked, Advanced
    <2> QED
      BY <1>2, <2>1, <2>2, <2>3 DEF AccessInv, LocksOK, Advanced, accountVars
  <1>5. CountOK'
    BY <1>2, AccountsKept DEF AccessInv, TypeOK, CountOK
  <1> QED
    BY <1>2, <1>3, <1>4, <1>5, AccountsKept DEF AccessInv

LEMMA LockUserInv ==
    ASSUME NEW c \in Connection, AccessInv, LockUser(c)
    PROVE  AccessInv'
  <1>1. /\ stage[c] = "versioned"
        /\ ~deleted[cmd[c].user]
        /\ subject' = [subject EXCEPT ![c] = role[cmd[c].user]]
        /\ stage' = [stage EXCEPT ![c] = "locked"]
        /\ UNCHANGED <<accountVars, token, cmd, admins>>
    BY DEF LockUser
  <1>2. cmd[c] \in Command
    BY <1>1 DEF AccessInv, TypeOK
  <1>3. TypeOK'
    BY <1>1, <1>2 DEF AccessInv, TypeOK, accountVars, Stages, Command
  <1>4. LocksOK'
    BY <1>1 DEF AccessInv, TypeOK, LocksOK, Advanced, accountVars
  <1>5. CountOK'
    BY <1>1, AccountsKept DEF AccessInv, TypeOK, CountOK
  <1> QED
    BY <1>1, <1>3, <1>4, <1>5, AccountsKept DEF AccessInv

LEMMA CountAdminsInv ==
    ASSUME NEW c \in Connection, AccessInv, CountAdmins(c)
    PROVE  AccessInv'
  <1>1. /\ stage[c] = "locked"
        /\ ~CountLocked
        /\ admins' = [admins EXCEPT ![c] = Cardinality(ActiveAdmins)]
        /\ stage' = [stage EXCEPT ![c] = "counted"]
        /\ UNCHANGED <<accountVars, token, cmd, subject>>
    BY DEF CountAdmins
  <1>2. Cardinality(ActiveAdmins) \in Nat
    BY UserAssumption, FS_Subset, FS_CardinalityType, ActiveAdmins \subseteq User DEF ActiveAdmins
  <1>3. TypeOK'
    BY <1>1, <1>2 DEF AccessInv, TypeOK, accountVars, Stages
  <1>4. LocksOK'
    BY <1>1 DEF AccessInv, TypeOK, LocksOK, Advanced, accountVars, CountLocked
  <1>5. CountOK'
    BY <1>1, AccountsKept DEF AccessInv, TypeOK, CountOK, CountLocked
  <1> QED
    BY <1>1, <1>3, <1>4, <1>5, AccountsKept DEF AccessInv

LEMMA ReadPersonInv ==
    ASSUME NEW c \in Connection, AccessInv, ReadPerson(c)
    PROVE  AccessInv'
  <1>1. PICK k \in PersonKinds, a \in User, u \in User :
           /\ cmd' = [cmd EXCEPT ![c] = [kind |-> k, actor |-> a, actorRole |-> token[a],
                                         user |-> u, target |-> role[u]]]
           /\ subject' = [subject EXCEPT ![c] = role[u]]
    BY ZenonT(60) DEF ReadPerson
  <1>2. /\ stage[c] = "idle"
        /\ stage' = [stage EXCEPT ![c] = "checked"]
        /\ UNCHANGED <<accountVars, token, admins>>
    BY DEF ReadPerson
  <1>3. TypeOK'
    <2>1. /\ [kind |-> k, actor |-> a, actorRole |-> token[a],
              user |-> u, target |-> role[u]] \in Command
          /\ role[u] \in Role
      BY DEF AccessInv, TypeOK, Command
    <2> QED
      BY <1>1, <1>2, <2>1 DEF AccessInv, TypeOK, accountVars, Stages
  <1>4. LocksOK'
    <2>1. \A d \in Connection : d # c =>
             stage'[d] = stage[d] /\ cmd'[d] = cmd[d] /\ subject'[d] = subject[d]
      BY <1>1, <1>2 DEF AccessInv, TypeOK
    <2>2. stage'[c] = "checked"
      BY <1>2 DEF AccessInv, TypeOK
    <2> QED
      BY <1>2, <2>1, <2>2 DEF AccessInv, LocksOK, Advanced, accountVars
  <1>5. CountOK'
    BY <1>2, AccountsKept DEF AccessInv, TypeOK, CountOK
  <1> QED
    BY <1>2, <1>3, <1>4, <1>5, AccountsKept DEF AccessInv

-----------------------------------------------------------------------------
(* Steps that end a transaction.                                           *)

\* A transaction that ends takes what it read and locked with it.
LEMMA ClosedType ==
    ASSUME NEW c \in Connection, AccessInv, Closed(c)
    PROVE  /\ stage' \in [Connection -> Stages]
           /\ cmd' \in [Connection -> Command \union {NoCommand}]
           /\ \A d \in Connection : stage'[d] # "idle" => cmd'[d] \in Command
           /\ subject' \in [Connection -> Role]
           /\ admins' \in [Connection -> Nat]
           /\ stage'[c] = "idle"
           /\ \A d \in Connection : d # c =>
                  /\ stage'[d] = stage[d] /\ cmd'[d] = cmd[d]
                  /\ subject'[d] = subject[d] /\ admins'[d] = admins[d]
  BY DEF AccessInv, TypeOK, Closed, Stages, Role

\* If the roles of the users that others hold stay, so do their locks' guarantees.
LEMMA ClosedLocks ==
    ASSUME NEW c \in Connection, AccessInv, Closed(c),
           \A d \in Connection : d # c /\ stage[d] \in {"locked", "counted"} =>
               role'[cmd[d].user] = role[cmd[d].user] /\ deleted'[cmd[d].user] = deleted[cmd[d].user]
    PROVE  LocksOK'
  BY ClosedType DEF AccessInv, LocksOK, Advanced

LEMMA ClosedCount ==
    ASSUME NEW c \in Connection, AccessInv, Closed(c), UNCHANGED <<role, deleted>>
    PROVE  CountOK'
  <1>1. ActiveAdmins' = ActiveAdmins /\ AdminDeleted' = AdminDeleted
    BY DEF ActiveAdmins, AdminDeleted
  <1> QED
    BY <1>1, ClosedType DEF AccessInv, CountOK

LEMMA RollbackInv ==
    ASSUME NEW c \in Connection, AccessInv, Rollback(c)
    PROVE  AccessInv'
  <1>1. Closed(c) /\ UNCHANGED <<accountVars, token>>
    BY DEF Rollback
  <1>2. TypeOK'
    BY <1>1, ClosedType DEF AccessInv, TypeOK, accountVars
  <1>3. LocksOK'
    BY <1>1, ClosedLocks DEF accountVars
  <1>4. CountOK'
    BY <1>1, ClosedCount DEF accountVars
  <1> QED
    BY <1>1, <1>2, <1>3, <1>4, AccountsKept DEF AccessInv

\* The next versions of a user agree, as the present ones did.
LEMMA CommittedVersions ==
    ASSUME NEW c \in Connection, NEW u \in User, AccessInv, Committed(c, u)
    PROVE  /\ VersionsOK'
           /\ accessVersion' \in [User -> Nat] /\ userVersion' \in [User -> Nat]
           /\ accessVersion'[u] > accessVersion[u]
           /\ ~archived[u]
  BY DEF AccessInv, TypeOK, VersionsOK, Committed, VersionsAgree

\* An administrator other than u remains when more than one was counted.
LEMMA AnotherAdmin ==
    ASSUME NEW u \in User, Cardinality(ActiveAdmins) > 1
    PROVE  \E v \in ActiveAdmins : v # u
  <1>1. IsFiniteSet(ActiveAdmins)
    BY UserAssumption, FS_Subset, ActiveAdmins \subseteq User DEF ActiveAdmins
  <1>2. SUFFICES ASSUME \A v \in ActiveAdmins : v = u PROVE FALSE
    OBVIOUS
  <1>3. ActiveAdmins \subseteq {u}
    BY <1>2
  <1>4. IsFiniteSet({u}) /\ Cardinality({u}) = 1
    BY FS_Singleton
  <1>5. Cardinality(ActiveAdmins) <= 1
    BY <1>3, <1>4, FS_Subset
  <1> QED
    BY <1>1, <1>5, FS_CardinalityType

LEMMA AssignRoleInv ==
    ASSUME NEW c \in Connection, AccessInv, AssignRole(c)
    PROVE  AccessInv'
  <1> DEFINE u == cmd[c].user
  <1>1. /\ stage[c] = "counted"
        /\ RoleAssignmentAllowed(c)
        /\ role' = [role EXCEPT ![u] = cmd[c].target]
        /\ override' = [override EXCEPT ![u] = "none"]
        /\ Committed(c, u)
    BY DEF AssignRole
  <1>2. /\ Closed(c)
        /\ UNCHANGED <<deleted, archived, token>>
    BY <1>1 DEF Committed
  <1>3. u \in User /\ cmd[c].target \in Role
    BY <1>1 DEF AccessInv, TypeOK, Command
  <1>4. /\ ~deleted[u]
        /\ subject[c] = role[u]
        /\ AdminDeleted \/ admins[c] = Cardinality(ActiveAdmins)
    BY <1>1 DEF AccessInv, LocksOK, CountOK
  <1>5. \A v \in User : role'[v] = IF v = u THEN cmd[c].target ELSE role[v]
    BY <1>1 DEF AccessInv, TypeOK
  <1>6. TypeOK'
    <2>1. role' \in [User -> Role] /\ override' \in [User -> Role \union {"none"}]
      BY <1>1, <1>3 DEF AccessInv, TypeOK
    <2> HIDE DEF u
    <2> QED
      BY <1>1, <1>2, <1>3, <2>1, ClosedType, CommittedVersions DEF AccessInv, TypeOK
  <1>7. LocksOK'
    <2>1. \A d \in Connection : d # c /\ stage[d] \in {"locked", "counted"} =>
             cmd[d].user \in User /\ cmd[d].user # u
      BY <1>1 DEF AccessInv, TypeOK, Command, LocksOK, Advanced
    <2> QED
      BY <1>2, <1>5, <2>1, ClosedLocks
  <1>8. AdminDeleted => AdminDeleted'
    BY <1>2, <1>4, <1>5 DEF AdminDeleted
  <1>9. CountOK'
    BY <1>1, <1>2, ClosedType DEF AccessInv, LocksOK, CountOK
  <1>10. VersionsOK'
    BY <1>1, <1>3, CommittedVersions
  <1>11. OverridesFitRole' /\ ArchivedHasNoOverride'
    BY <1>1, <1>2, <1>5 DEF AccessInv, TypeOK, OverridesFitRole, ArchivedHasNoOverride
  <1>12. AdminsLostOnlyByDeletion'
    <2>1. CASE AdminDeleted
      BY <1>8, <2>1 DEF AdminDeleted, AdminsLostOnlyByDeletion
    <2>2. CASE ~AdminDeleted /\ cmd[c].target = "system_admin"
      <3>1. role'[u] = "system_admin" /\ ~deleted'[u]
        BY <1>2, <1>3, <1>4, <1>5, <2>2
      <3> QED
        BY <1>3, <3>1 DEF AdminsLostOnlyByDeletion, ActiveAdmins
    <2>3. CASE ~AdminDeleted /\ cmd[c].target # "system_admin"
      <3>1. \E v \in ActiveAdmins : v # u
        <4>1. CASE role[u] = "system_admin"
          <5>1. ~(admins[c] <= 1)
            BY <1>1, <1>4, <2>3, <4>1 DEF RoleAssignmentAllowed, DirectorMay
          <5>2. Cardinality(ActiveAdmins) > 1
            BY <1>4, <2>3, <5>1 DEF AccessInv, TypeOK
          <5> QED
            BY <1>3, <5>2, AnotherAdmin
        <4>2. CASE role[u] # "system_admin"
          BY <2>3, <4>2 DEF AccessInv, AdminsLostOnlyByDeletion, AdminDeleted, ActiveAdmins
        <4> QED
          BY <4>1, <4>2
      <3>2. PICK v \in ActiveAdmins : v # u
        BY <3>1
      <3>3. v \in ActiveAdmins'
        BY <1>2, <1>5, <3>2 DEF ActiveAdmins
      <3> QED
        BY <3>3 DEF AdminsLostOnlyByDeletion
    <2> QED
      BY <2>1, <2>2, <2>3
  <1> QED
    BY <1>6, <1>7, <1>9, <1>10, <1>11, <1>12 DEF AccessInv

LEMMA SetOverrideInv ==
    ASSUME NEW c \in Connection, AccessInv, SetOverride(c)
    PROVE  AccessInv'
  <1> DEFINE u == cmd[c].user
  <1>1. /\ stage[c] = "locked"
        /\ override' = [override EXCEPT ![u] = subject[c]]
        /\ UNCHANGED role
        /\ Committed(c, u)
    BY DEF SetOverride
  <1>2. /\ Closed(c)
        /\ UNCHANGED <<deleted, archived, token>>
    BY <1>1 DEF Committed
  <1>3. u \in User
    BY <1>1 DEF AccessInv, TypeOK, Command
  <1>4. subject[c] = role[u] /\ subject[c] \in Role
    BY <1>1 DEF AccessInv, TypeOK, LocksOK
  <1>5. ~archived[u]
    BY <1>1, <1>3, CommittedVersions
  <1>6. TypeOK'
    <2>1. override' \in [User -> Role \union {"none"}]
      BY <1>1, <1>4 DEF AccessInv, TypeOK
    <2> HIDE DEF u
    <2> QED
      BY <1>1, <1>2, <1>3, <2>1, ClosedType, CommittedVersions DEF AccessInv, TypeOK
  <1>7. LocksOK' /\ CountOK'
    BY <1>1, <1>2, ClosedLocks, ClosedCount
  <1>8. VersionsOK'
    BY <1>1, <1>3, CommittedVersions
  <1>9. OverridesFitRole' /\ ArchivedHasNoOverride'
    BY <1>1, <1>2, <1>4, <1>5 DEF AccessInv, TypeOK, OverridesFitRole, ArchivedHasNoOverride
  <1>10. AdminsLostOnlyByDeletion'
    BY <1>1, <1>2 DEF AccessInv, AdminsLostOnlyByDeletion, ActiveAdmins
  <1> QED
    BY <1>6, <1>7, <1>8, <1>9, <1>10 DEF AccessInv

\* Off-boarding and restoring raise only the version clients see.
LEMMA PersonCommandInv ==
    ASSUME NEW c \in Connection, AccessInv, Offboard(c) \/ Restore(c)
    PROVE  AccessInv'
  <1> DEFINE u == cmd[c].user
  <1>1. /\ stage[c] = "checked"
        /\ Closed(c)
        /\ BumpAccessVersion(u)
        /\ UNCHANGED <<role, deleted, userVersion, token>>
    BY DEF Offboard, Restore
  <1>2. u \in User
    BY <1>1 DEF AccessInv, TypeOK, Command
  <1>3. \/ /\ archived' = [archived EXCEPT ![u] = TRUE]
           /\ override' = [override EXCEPT ![u] = "none"]
        \/ /\ archived' = [archived EXCEPT ![u] = FALSE]
           /\ UNCHANGED override
    BY DEF Offboard, Restore
  <1>4. accessVersion' = [accessVersion EXCEPT ![u] = @ + 1]
    BY <1>1 DEF BumpAccessVersion
  <1>5. TypeOK'
    <2>1. archived' \in [User -> BOOLEAN]
      BY <1>3 DEF AccessInv, TypeOK
    <2>2. override' \in [User -> Role \union {"none"}]
      BY <1>3 DEF AccessInv, TypeOK
    <2>3. accessVersion' \in [User -> Nat]
      BY <1>2, <1>4 DEF AccessInv, TypeOK
    <2> HIDE DEF u
    <2> QED
      BY <1>1, <2>1, <2>2, <2>3, ClosedType DEF AccessInv, TypeOK
  <1>6. LocksOK' /\ CountOK'
    BY <1>1, ClosedLocks, ClosedCount
  <1>7. VersionsOK'
    <2>1. \A v \in User : archived'[v] => archived[v] \/ v = u
      BY <1>3 DEF AccessInv, TypeOK
    <2>2. \A v \in User : accessVersion'[v] = IF v = u THEN accessVersion[v] + 1 ELSE accessVersion[v]
      BY <1>4 DEF AccessInv, TypeOK
    <2> QED
      BY <1>1, <2>1, <2>2 DEF AccessInv, TypeOK, VersionsOK
  <1>8. OverridesFitRole' /\ ArchivedHasNoOverride'
    BY <1>1, <1>3 DEF AccessInv, TypeOK, OverridesFitRole, ArchivedHasNoOverride
  <1>9. AdminsLostOnlyByDeletion'
    BY <1>1 DEF AccessInv, AdminsLostOnlyByDeletion, ActiveAdmins
  <1> QED
    BY <1>5, <1>6, <1>7, <1>8, <1>9 DEF AccessInv

-----------------------------------------------------------------------------
(* Deletion of an account, tokens, and the invariant.                      *)

LEMMA CompleteDeletionInv ==
    ASSUME NEW u \in User, AccessInv, CompleteDeletion(u)
    PROVE  AccessInv'
  <1>1. /\ ~deleted[u]
        /\ UserWritable(u)
        /\ deleted' = [deleted EXCEPT ![u] = TRUE]
        /\ UNCHANGED <<role, archived, override, accessVersion, userVersion, token, txVars>>
    BY DEF CompleteDeletion
  <1>2. \A v \in User : deleted'[v] = IF v = u THEN TRUE ELSE deleted[v]
    BY <1>1 DEF AccessInv, TypeOK
  <1>3. TypeOK'
    BY <1>1 DEF AccessInv, TypeOK, txVars
  <1>4. LocksOK'
    <2>1. \A c \in Connection : stage[c] \in {"locked", "counted"} =>
             cmd[c].user # u /\ cmd[c].user \in User
      BY <1>1 DEF AccessInv, TypeOK, Command, UserWritable, UserLocked
    <2> QED
      BY <1>1, <1>2, <2>1 DEF AccessInv, LocksOK, txVars
  <1>5. AdminDeleted => AdminDeleted'
    BY <1>1, <1>2 DEF AdminDeleted
  <1>6. AdminDeleted' \/ ActiveAdmins' = ActiveAdmins
    BY <1>1, <1>2 DEF AdminDeleted, ActiveAdmins
  <1>7. CountOK'
    BY <1>1, <1>5, <1>6 DEF AccessInv, CountOK, txVars
  <1>8. VersionsOK' /\ OverridesFitRole' /\ ArchivedHasNoOverride'
    BY <1>1 DEF AccessInv, VersionsOK, OverridesFitRole, ArchivedHasNoOverride
  <1>9. AdminsLostOnlyByDeletion'
    BY <1>5, <1>6 DEF AccessInv, AdminsLostOnlyByDeletion, AdminDeleted
  <1> QED
    BY <1>3, <1>4, <1>7, <1>8, <1>9 DEF AccessInv

LEMMA SignTokenInv ==
    ASSUME NEW u \in User, AccessInv, SignToken(u)
    PROVE  AccessInv'
  <1>1. token' = [token EXCEPT ![u] = role[u]] /\ UNCHANGED <<accountVars, txVars>>
    BY DEF SignToken
  <1>2. TypeOK'
    BY <1>1 DEF AccessInv, TypeOK, accountVars, txVars
  <1>3. LocksOK' /\ CountOK'
    BY <1>1, AccountsKept DEF AccessInv, LocksOK, CountOK, accountVars, txVars
  <1> QED
    BY <1>1, <1>2, <1>3, AccountsKept DEF AccessInv

LEMMA NextAccessInv == AccessInv /\ [Next]_vars => AccessInv'
  <1> SUFFICES ASSUME AccessInv, [Next]_vars PROVE AccessInv'
    OBVIOUS
  <1>1. ASSUME NEW c \in Connection,
               BeginAccess(c) \/ LockUser(c) \/ CountAdmins(c) \/ ReadPerson(c) \/ Rollback(c)
        PROVE  AccessInv'
    BY <1>1, BeginAccessInv, LockUserInv, CountAdminsInv, ReadPersonInv, RollbackInv
  <1>2. ASSUME NEW c \in Connection, AssignRole(c) \/ SetOverride(c) \/ Offboard(c) \/ Restore(c)
        PROVE  AccessInv'
    BY <1>2, AssignRoleInv, SetOverrideInv, PersonCommandInv
  <1>3. ASSUME NEW u \in User, CompleteDeletion(u) \/ SignToken(u) PROVE AccessInv'
    BY <1>3, CompleteDeletionInv, SignTokenInv
  <1>4. CASE UNCHANGED vars
    BY <1>4 DEF vars, accountVars, txVars, AccessInv, TypeOK, LocksOK, Advanced, CountOK,
                AdminDeleted, ActiveAdmins, VersionsOK, OverridesFitRole,
                ArchivedHasNoOverride, AdminsLostOnlyByDeletion
  <1> QED
    BY <1>1, <1>2, <1>3, <1>4 DEF Next

THEOREM AccessInvariant == Spec => []AccessInv
  BY InitAccessInv, NextAccessInv, PTL DEF Spec

-----------------------------------------------------------------------------
(* What the invariant says, and what no step does.                         *)

\* Every variable of accounts and transactions keeps its type.
THEOREM AccessTypeCorrect == Spec => []TypeOK
  <1>1. AccessInv => TypeOK
    BY DEF AccessInv
  <1> QED
    BY <1>1, AccessInvariant, PTL

\* No override outlives the role of the subject it was granted to.
THEOREM NoForeignOverride == Spec => []OverridesFitRole
  <1>1. AccessInv => OverridesFitRole
    BY DEF AccessInv
  <1> QED
    BY <1>1, AccessInvariant, PTL

\* Concurrent role changes never remove the last system administrator.
THEOREM LastAdminIsNotDemoted == Spec => []AdminsLostOnlyByDeletion
  <1>1. AccessInv => AdminsLostOnlyByDeletion
    BY DEF AccessInv
  <1> QED
    BY <1>1, AccessInvariant, PTL

\* Off-boarding leaves no override, whatever command was under way.
THEOREM OffboardingRevokes == Spec => []ArchivedHasNoOverride
  <1>1. AccessInv => ArchivedHasNoOverride
    BY DEF AccessInv
  <1> QED
    BY <1>1, AccessInvariant, PTL

\* Only AssignRole changes a role, and only of the user its command names.
LEMMA RoleChange ==
    ASSUME AccessInv, Next, NEW u \in User, role'[u] # role[u]
    PROVE  \E c \in Connection : AssignRole(c) /\ cmd[c].user = u
  <1>1. PICK c \in Connection : AssignRole(c)
    <2>1. role' # role
      OBVIOUS
    <2> QED
      BY <2>1 DEF Next, BeginAccess, LockUser, CountAdmins, SetOverride, ReadPerson, Offboard,
                  Restore, Rollback, CompleteDeletion, SignToken, accountVars
  <1>2. role' = [role EXCEPT ![cmd[c].user] = cmd[c].target]
    BY <1>1 DEF AssignRole
  <1>3. cmd[c].user = u
    BY <1>2 DEF AccessInv, TypeOK
  <1> QED
    BY <1>1, <1>3

\* A director's command changes only lower roles of others into lower roles.
THEOREM DirectorsStayWithinBounds == Spec => HierarchyRespected
  <1> DEFINE Step == \A u \in User : role'[u] # role[u] =>
          \E c \in Connection :
              /\ stage[c] = "counted" /\ stage'[c] = "idle" /\ cmd[c].user = u
              /\ cmd[c].actorRole # "system_admin" =>
                     cmd[c].actor # u /\ role[u] = "lower" /\ role'[u] = "lower"
  <1>1. AccessInv /\ [Next]_vars => [Step]_vars
    <2> SUFFICES ASSUME AccessInv, Next, NEW u \in User, role'[u] # role[u]
                 PROVE  \E c \in Connection :
                            /\ stage[c] = "counted" /\ stage'[c] = "idle" /\ cmd[c].user = u
                            /\ cmd[c].actorRole # "system_admin" =>
                                   cmd[c].actor # u /\ role[u] = "lower" /\ role'[u] = "lower"
      OBVIOUS
    <2>1. PICK c \in Connection : AssignRole(c) /\ cmd[c].user = u
      BY RoleChange
    <2>2. stage[c] = "counted" /\ RoleAssignmentAllowed(c) /\ Closed(c)
      BY <2>1 DEF AssignRole, Committed
    <2>3. stage'[c] = "idle"
      BY <2>2, ClosedType
    <2>4. subject[c] = role[u]
      BY <2>1, <2>2 DEF AccessInv, LocksOK
    <2>5. role'[u] = cmd[c].target
      BY <2>1 DEF AccessInv, TypeOK, AssignRole
    <2> QED
      BY <2>1, <2>2, <2>3, <2>4, <2>5 DEF RoleAssignmentAllowed, DirectorMay
  <1> QED
    BY <1>1, AccessInvariant, PTL DEF Spec, HierarchyRespected

\* A change of role, override or account always raises the access version.
THEOREM AccessChangesAreNoticed == Spec => AccessChangeVersioned
  <1> DEFINE Step == \A u \in User :
          <<role[u], override[u], archived[u]>>' # <<role[u], override[u], archived[u]>>
              => accessVersion'[u] > accessVersion[u]
  <1>1. ASSUME AccessInv, NEW c \in Connection, AssignRole(c) \/ SetOverride(c) PROVE Step
    <2> DEFINE w == cmd[c].user
    <2>1. w \in User
      BY <1>1 DEF AccessInv, TypeOK, Command, AssignRole, SetOverride
    <2>2. Committed(c, w)
      BY <1>1 DEF AssignRole, SetOverride
    <2>3. accessVersion'[w] > accessVersion[w] /\ archived' = archived
      BY <1>1, <2>1, <2>2, CommittedVersions DEF Committed
    <2>4. \A u \in User : u # w => role'[u] = role[u] /\ override'[u] = override[u]
      BY <1>1 DEF AccessInv, TypeOK, AssignRole, SetOverride
    <2> QED
      BY <2>3, <2>4
  <1>2. ASSUME AccessInv, NEW c \in Connection, Offboard(c) \/ Restore(c) PROVE Step
    <2> DEFINE w == cmd[c].user
    <2>1. w \in User
      BY <1>2 DEF AccessInv, TypeOK, Command, Offboard, Restore
    <2>2. accessVersion'[w] > accessVersion[w] /\ role' = role
      BY <1>2, <2>1 DEF AccessInv, TypeOK, Offboard, Restore, BumpAccessVersion
    <2>3. \A u \in User : u # w => archived'[u] = archived[u] /\ override'[u] = override[u]
      BY <1>2 DEF AccessInv, TypeOK, Offboard, Restore
    <2> QED
      BY <2>2, <2>3
  <1>3. AccessInv /\ [Next]_vars => [Step]_vars
    <2> SUFFICES ASSUME AccessInv, Next PROVE Step
      OBVIOUS
    <2>1. CASE UNCHANGED <<role, override, archived>>
      BY <2>1
    <2>2. ~UNCHANGED <<role, override, archived>> =>
             \E c \in Connection : AssignRole(c) \/ SetOverride(c) \/ Offboard(c) \/ Restore(c)
      BY DEF Next, BeginAccess, LockUser, CountAdmins, ReadPerson, Rollback, CompleteDeletion,
             SignToken, accountVars
    <2> HIDE DEF Step
    <2> QED
      BY <1>1, <1>2, <2>1, <2>2
  <1> QED
    BY <1>3, AccessInvariant, PTL DEF Spec, AccessChangeVersioned
=============================================================================
