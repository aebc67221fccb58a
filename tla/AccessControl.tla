--------------------------- MODULE AccessControl ---------------------------
(***************************************************************************)
(* Who may do what: roles, personal capability overrides and the two       *)
(* versions that guard them, changed by the access commands                *)
(* (access-mutations.service.ts), by off-boarding and restoring a person   *)
(* (person-lifecycle.service.ts) and by the completion of an account       *)
(* deletion request (legal.service.ts).                                    *)
(*                                                                         *)
(* Every command is a transaction of a connection.  The access commands    *)
(* lock the aggregate version 'access:user', then the user row, then -     *)
(* for a role - the advisory lock under which the system administrators    *)
(* are counted.  Person commands hold the person card and a share lock on  *)
(* the actor's own user row.  A transaction can be rolled back at any      *)
(* point: refusals, deadlock victims and lost connections are alike.       *)
(*                                                                         *)
(* Exactly-once execution of a command is VersionedMutation's business.    *)
(***************************************************************************)
EXTENDS Integers, FiniteSets

CONSTANTS
    User,        \* accounts; each belongs to one person card
    Staff,       \* users with a staff card; the others have a teacher card
    Connection,  \* database connections that run commands
    MaxVersion   \* bound on the versions of one user

ASSUME UserAssumption == IsFiniteSet(User) /\ User # {} /\ Staff \subseteq User
ASSUME VersionAssumption == MaxVersion \in Nat /\ MaxVersion >= 1

\* "lower" is any role whose ROLE_LEVEL is below the director's.
Role == {"lower", "director", "system_admin"}
Managers == {"director", "system_admin"}

AccessKinds == {"assign", "override"}
PersonKinds == {"offboard", "restore"}
Stages == {"idle", "versioned", "locked", "counted", "checked"}

VARIABLES
    role,           \* users.role
    deleted,        \* users.deleted_at is set
    archived,       \* the person card is off-boarded, its account disabled
    override,       \* subject role an active override was granted to, or "none"
    accessVersion,  \* user_access_versions.version, the version clients are shown
    userVersion,    \* aggregate_versions.version of 'access:user'
    token,          \* role in the access token the user holds
    stage,          \* how far the transaction of a connection is
    cmd,            \* the command it runs
    subject,        \* role of the subject as the transaction read it
    admins          \* number of system administrators it counted

accountVars == <<role, deleted, archived, override, accessVersion, userVersion>>
txVars == <<stage, cmd, subject, admins>>
vars == <<accountVars, token, txVars>>

Command == [kind : AccessKinds \union PersonKinds, actor : User, actorRole : Role,
            user : User, target : Role]

NoCommand == [kind |-> "none"]

TypeOK ==
    /\ role \in [User -> Role]
    /\ deleted \in [User -> BOOLEAN]
    /\ archived \in [User -> BOOLEAN]
    /\ override \in [User -> Role \union {"none"}]
    /\ accessVersion \in [User -> Nat]
    /\ userVersion \in [User -> Nat]
    /\ token \in [User -> Role]
    /\ stage \in [Connection -> Stages]
    /\ cmd \in [Connection -> Command \union {NoCommand}]
    /\ \A c \in Connection : stage[c] # "idle" => cmd[c] \in Command
    /\ subject \in [Connection -> Role]
    /\ admins \in [Connection -> Nat]

ActiveAdmins == {u \in User : role[u] = "system_admin" /\ ~deleted[u]}

Init ==
    /\ role \in [User -> Role]
    /\ \E u \in User : role[u] = "system_admin"
    /\ deleted = [u \in User |-> FALSE]
    /\ archived = [u \in User |-> FALSE]
    /\ override = [u \in User |-> "none"]
    /\ accessVersion = [u \in User |-> 1]
    /\ userVersion = [u \in User |-> 1]
    /\ token = role
    /\ stage = [c \in Connection |-> "idle"]
    /\ cmd = [c \in Connection |-> NoCommand]
    /\ subject = [c \in Connection |-> "lower"]
    /\ admins = [c \in Connection |-> 0]

-----------------------------------------------------------------------------
(* Locks of the open transactions.                                         *)

VersionLocked(u) ==
    \E c \in Connection : stage[c] \in {"versioned", "locked", "counted"} /\ cmd[c].user = u

\* lockUser takes the row FOR UPDATE.
UserLocked(u) ==
    \E c \in Connection : stage[c] \in {"locked", "counted"} /\ cmd[c].user = u

\* authorizeCurrentCapability(lockForCommit) takes the actor's row FOR SHARE.
UserShared(u) ==
    \E c \in Connection : stage[c] = "checked" /\ cmd[c].actor = u

UserWritable(u) == ~UserLocked(u) /\ ~UserShared(u)

PersonLocked(u) ==
    \E c \in Connection : stage[c] = "checked" /\ cmd[c].user = u

CountLocked == \E c \in Connection : stage[c] = "counted"

\* The transaction of c is over and its locks are released.
Closed(c) ==
    /\ stage' = [stage EXCEPT ![c] = "idle"]
    /\ cmd' = [cmd EXCEPT ![c] = NoCommand]
    /\ subject' = [subject EXCEPT ![c] = "lower"]
    /\ admins' = [admins EXCEPT ![c] = 0]

\* The capability is evaluated against the actor's row as it is now.
MayManage(a) == role[a] \in Managers /\ ~deleted[a] /\ ~archived[a]

-----------------------------------------------------------------------------
(* Access commands.                                                        *)

\* executeVersionedMutation has reserved the key and advanced the version of
\* 'access:user'; a command with another expected version has been refused.
BeginAccess(c) ==
    /\ stage[c] = "idle"
    /\ \E k \in AccessKinds, a \in User, u \in User, r \in Role :
        /\ MayManage(a)
        /\ ~VersionLocked(u)
        /\ userVersion[u] < MaxVersion
        /\ cmd' = [cmd EXCEPT ![c] = [kind |-> k, actor |-> a, actorRole |-> token[a],
                                      user |-> u, target |-> r]]
    /\ stage' = [stage EXCEPT ![c] = "versioned"]
    /\ UNCHANGED <<accountVars, token, subject, admins>>

\* Mutant: an account deleted meanwhile is read as one without a role.
LockUserOuter(c) ==
    LET u == cmd[c].user IN
    /\ stage[c] = "versioned"
    /\ UserWritable(u)
    /\ subject' = [subject EXCEPT ![c] = IF deleted[u] THEN "none" ELSE role[u]]
    /\ stage' = [stage EXCEPT ![c] = "locked"]
    /\ UNCHANGED <<accountVars, token, cmd, admins>>

LockUser(c) ==
    LET u == cmd[c].user IN
    /\ stage[c] = "versioned"
    /\ UserWritable(u)
    /\ ~deleted[u]
    /\ cmd[c].kind = "assign" => role[u] # cmd[c].target
    /\ subject' = [subject EXCEPT ![c] = role[u]]
    /\ stage' = [stage EXCEPT ![c] = "locked"]
    /\ UNCHANGED <<accountVars, token, cmd, admins>>

\* Mutant: the administrators are counted without the advisory lock.
CountAdminsUnlocked(c) ==
    /\ stage[c] = "locked"
    /\ cmd[c].kind = "assign"
    /\ admins' = [admins EXCEPT ![c] = Cardinality(ActiveAdmins)]
    /\ stage' = [stage EXCEPT ![c] = "counted"]
    /\ UNCHANGED <<accountVars, token, cmd, subject>>

CountAdmins(c) ==
    /\ stage[c] = "locked"
    /\ cmd[c].kind = "assign"
    /\ ~CountLocked
    /\ admins' = [admins EXCEPT ![c] = Cardinality(ActiveAdmins)]
    /\ stage' = [stage EXCEPT ![c] = "counted"]
    /\ UNCHANGED <<accountVars, token, cmd, subject>>

\* A director manages only others, and only below the own role.
DirectorMay(m, r) == m.actor # m.user /\ r = "lower"

\* Mutant: the role the subject has is not looked at.
RoleAssignmentByTarget(c) ==
    \/ cmd[c].actorRole = "system_admin"
    \/ cmd[c].actorRole = "director" /\ cmd[c].actor # cmd[c].user /\ cmd[c].target = "lower"

RoleAssignmentAllowed(c) ==
    \/ /\ cmd[c].actorRole = "system_admin"
       /\ ~(subject[c] = "system_admin" /\ cmd[c].target # "system_admin" /\ admins[c] <= 1)
    \/ /\ cmd[c].actorRole = "director"
       /\ DirectorMay(cmd[c], subject[c])
       /\ cmd[c].target = "lower"

OverrideAllowed(c) ==
    \/ cmd[c].actorRole = "system_admin"
    \/ cmd[c].actorRole = "director" /\ DirectorMay(cmd[c], subject[c])

\* setUserAccessVersion replaces only the version before the new one.
VersionsAgree(u) == accessVersion[u] = userVersion[u]

\* Both versions of u become the next one and the transaction commits.
Committed(c, u) ==
    /\ VersionsAgree(u)
    /\ accessVersion' = [accessVersion EXCEPT ![u] = userVersion[u] + 1]
    /\ userVersion' = [userVersion EXCEPT ![u] = userVersion[u] + 1]
    /\ Closed(c)
    /\ UNCHANGED <<deleted, archived, token>>

\* Mutant: the overrides granted to the former role stay.
AssignRoleKeepingOverrides(c) ==
    LET u == cmd[c].user IN
    /\ stage[c] = "counted"
    /\ RoleAssignmentAllowed(c)
    /\ u \in Staff => ~PersonLocked(u)
    /\ role' = [role EXCEPT ![u] = cmd[c].target]
    /\ UNCHANGED override
    /\ Committed(c, u)

\* The role of a staff card follows in the same transaction.
AssignRole(c) ==
    LET u == cmd[c].user IN
    /\ stage[c] = "counted"
    /\ RoleAssignmentAllowed(c)
    /\ u \in Staff => ~PersonLocked(u)
    /\ role' = [role EXCEPT ![u] = cmd[c].target]
    /\ override' = [override EXCEPT ![u] = "none"]
    /\ Committed(c, u)

\* The active override of the capability is replaced.
SetOverride(c) ==
    LET u == cmd[c].user IN
    /\ stage[c] = "locked"
    /\ cmd[c].kind = "override"
    /\ OverrideAllowed(c)
    /\ override' = [override EXCEPT ![u] = subject[c]]
    /\ UNCHANGED role
    /\ Committed(c, u)

-----------------------------------------------------------------------------
(* Person commands.                                                        *)

\* assertTargetHierarchy: a director acts only on lower roles, nobody on
\* the own account.
HierarchyAllows(a, u) == a # u /\ (token[a] = "system_admin" \/ role[u] = "lower")

\* The card is locked and read together with the role of its account, whose
\* row is not locked.
ReadPerson(c) ==
    /\ stage[c] = "idle"
    /\ \E k \in PersonKinds, a \in User, u \in User :
        /\ MayManage(a)
        /\ token[a] \in Managers
        /\ HierarchyAllows(a, u)
        /\ ~UserLocked(a)
        /\ ~PersonLocked(u)
        /\ ~deleted[u]
        /\ archived[u] = (k = "restore")
        /\ cmd' = [cmd EXCEPT ![c] = [kind |-> k, actor |-> a, actorRole |-> token[a],
                                      user |-> u, target |-> role[u]]]
        /\ subject' = [subject EXCEPT ![c] = role[u]]
    /\ stage' = [stage EXCEPT ![c] = "checked"]
    /\ UNCHANGED <<accountVars, token, admins>>

\* bumpAccessVersion raises the version clients see, and only that one.
BumpAccessVersion(u) == accessVersion' = [accessVersion EXCEPT ![u] = @ + 1]

\* applyOffboarding and disableAccount.
Offboard(c) ==
    LET u == cmd[c].user IN
    /\ stage[c] = "checked"
    /\ cmd[c].kind = "offboard"
    /\ UserWritable(u)
    /\ accessVersion[u] < MaxVersion
    /\ archived' = [archived EXCEPT ![u] = TRUE]
    /\ override' = [override EXCEPT ![u] = "none"]
    /\ BumpAccessVersion(u)
    /\ Closed(c)
    /\ UNCHANGED <<role, deleted, userVersion, token>>

\* applyRestore: the account comes back, the overrides do not.
Restore(c) ==
    LET u == cmd[c].user IN
    /\ stage[c] = "checked"
    /\ cmd[c].kind = "restore"
    /\ UserWritable(u)
    /\ accessVersion[u] < MaxVersion
    /\ archived' = [archived EXCEPT ![u] = FALSE]
    /\ BumpAccessVersion(u)
    /\ Closed(c)
    /\ UNCHANGED <<role, deleted, override, userVersion, token>>

-----------------------------------------------------------------------------
(* Everything else.                                                        *)

\* A deletion request of u is completed, by anyone allowed to.
CompleteDeletion(u) ==
    /\ ~deleted[u]
    /\ UserWritable(u)
    /\ deleted' = [deleted EXCEPT ![u] = TRUE]
    /\ UNCHANGED <<role, archived, override, accessVersion, userVersion, token, txVars>>

\* A login or a rotation signs a new access token with the current role.
SignToken(u) ==
    /\ ~deleted[u]
    /\ ~archived[u]
    /\ token' = [token EXCEPT ![u] = role[u]]
    /\ UNCHANGED <<accountVars, txVars>>

\* Refused, chosen as a deadlock victim, or cut off: nothing is kept.
Rollback(c) ==
    /\ stage[c] # "idle"
    /\ Closed(c)
    /\ UNCHANGED <<accountVars, token>>

Next ==
    \/ \E c \in Connection :
        \/ BeginAccess(c)
        \/ LockUser(c)
        \/ CountAdmins(c)
        \/ AssignRole(c)
        \/ SetOverride(c)
        \/ ReadPerson(c)
        \/ Offboard(c)
        \/ Restore(c)
        \/ Rollback(c)
    \/ \E u \in User : CompleteDeletion(u) \/ SignToken(u)

Spec == Init /\ [][Next]_vars

-----------------------------------------------------------------------------
(* Properties.                                                             *)

\* An active override was granted to the role its user has now: a change of
\* role, even one that races with the override, leaves none of a former role
\* (assignRoleAndResetOverrides and lockUser).
OverridesFitRole == \A u \in User : override[u] \in {"none", role[u]}

\* No change of roles, and no two concurrent ones, can remove the last system
\* administrator: only the deletion of an administrator's account can
\* (countActiveSystemAdmins and roleAssignmentDecision).
AdminsLostOnlyByDeletion ==
    ActiveAdmins # {} \/ \E u \in User : deleted[u] /\ role[u] = "system_admin"

\* An off-boarded person has no personal override, also when a command that
\* sets one was under way while the account was disabled (disableAccount).
ArchivedHasNoOverride == \A u \in User : archived[u] => override[u] = "none"

\* A director's command changes the role only of others, from a role below
\* director to a role below director, judged by the roles at that moment
\* (roleAssignmentDecision on the role that lockUser read).
HierarchyRespected ==
    [][\A u \in User : role'[u] # role[u] =>
        \E c \in Connection :
            /\ stage[c] = "counted" /\ stage'[c] = "idle" /\ cmd[c].user = u
            /\ cmd[c].actorRole # "system_admin" =>
                   cmd[c].actor # u /\ role[u] = "lower" /\ role'[u] = "lower"]_vars

\* Whatever changes the role, the override or the account of u also raises the
\* version by which clients notice that their access is out of date.
AccessChangeVersioned ==
    [][\A u \in User :
        <<role[u], override[u], archived[u]>>' # <<role[u], override[u], archived[u]>>
            => accessVersion'[u] > accessVersion[u]]_vars

\* The versioned access command works for every account that exists: the
\* version clients are shown is the one the command is checked against.
AccessStaysChangeable == \A u \in User : ~deleted[u] => VersionsAgree(u)
=============================================================================
