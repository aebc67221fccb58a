---------------------------- MODULE AuthSession ----------------------------
(***************************************************************************)
(* Refresh sessions (auth/session.service.ts): a login starts a family of  *)
(* sessions, every refresh replaces the presented session by a new one of  *)
(* its family, presenting a session that was already used ends the whole   *)
(* family, and logging out everywhere, resetting a password, off-boarding  *)
(* or deleting an account revokes all sessions of a user.                  *)
(*                                                                         *)
(* A session stands for its row and for the refresh token that opens it.   *)
(* Rotations of one family are serialised by an advisory lock, and the     *)
(* presented row is locked; a revocation locks neither: its statement      *)
(* selects rows on a snapshot and then waits for those that are locked.    *)
(* Clients are not modelled: any session ever issued can be presented at   *)
(* any time, as after a lost answer.                                       *)
(***************************************************************************)
EXTENDS FiniteSets

CONSTANTS
    User,
    Session,      \* rows of refresh_sessions, also those not yet inserted
    Connection,
    NoUser, NoSession

ASSUME NoneAssumption == NoUser \notin User /\ NoSession \notin Session

Stages == {"idle", "locked", "valid", "reused", "revoking"}

VARIABLES
    user,        \* whose session it is; NoUser before it is inserted
    family,      \* first session of its family
    revoked,     \* revoked_at is set
    replacedBy,  \* replaced_by_id
    expired,     \* expires_at has passed
    deleted,     \* users.deleted_at is set
    reported,    \* families named by an audit row auth.refresh_reuse_detected
    stage,       \* how far the transaction of a connection is
    presented,   \* the session it rotates
    targets,     \* the rows its revocation selected
    leaver       \* the user whose account it deletes, or NoUser

rowVars == <<user, family, revoked, replacedBy>>
txVars == <<stage, presented, targets, leaver>>
vars == <<rowVars, expired, deleted, reported, txVars>>

Issued == {s \in Session : user[s] # NoUser}
Live(s) == s \in Issued /\ ~revoked[s]

TypeOK ==
    /\ user \in [Session -> User \union {NoUser}]
    /\ family \in [Session -> Session]
    /\ revoked \in [Session -> BOOLEAN]
    /\ replacedBy \in [Session -> Session \union {NoSession}]
    /\ expired \subseteq Session
    /\ deleted \subseteq User
    /\ reported \subseteq Session
    /\ stage \in [Connection -> Stages]
    /\ presented \in [Connection -> Session \union {NoSession}]
    /\ targets \in [Connection -> SUBSET Session]
    /\ leaver \in [Connection -> User \union {NoUser}]

Init ==
    /\ user = [s \in Session |-> NoUser]
    /\ family = [s \in Session |-> s]
    /\ revoked = [s \in Session |-> FALSE]
    /\ replacedBy = [s \in Session |-> NoSession]
    /\ expired = {}
    /\ deleted = {}
    /\ reported = {}
    /\ stage = [c \in Connection |-> "idle"]
    /\ presented = [c \in Connection |-> NoSession]
    /\ targets = [c \in Connection |-> {}]
    /\ leaver = [c \in Connection |-> NoUser]

\* The transaction of c is over; locks are released.
Closed(c) ==
    /\ stage' = [stage EXCEPT ![c] = "idle"]
    /\ presented' = [presented EXCEPT ![c] = NoSession]
    /\ targets' = [targets EXCEPT ![c] = {}]
    /\ leaver' = [leaver EXCEPT ![c] = NoUser]

-----------------------------------------------------------------------------
(* Logging in.                                                             *)

\* issueForUser inserts the first session of a family.
Issue(u, s) ==
    /\ u \notin deleted
    /\ s \notin Issued
    /\ user' = [user EXCEPT ![s] = u]
    /\ UNCHANGED <<family, revoked, replacedBy, expired, deleted, reported, txVars>>

-----------------------------------------------------------------------------
(* rotate: one transaction.                                                *)

\* Mutant: the advisory lock is taken on the session, not on its family.
FamilyFreeOfSession(s) == \A c \in Connection : presented[c] # s

FamilyFree(s) ==
    \A c \in Connection : presented[c] # NoSession => family[presented[c]] # family[s]

\* The advisory lock of the family; an unknown token locks and finds nothing.
LockFamily(c, s) ==
    /\ stage[c] = "idle"
    /\ s \in Issued
    /\ FamilyFree(s)
    /\ stage' = [stage EXCEPT ![c] = "locked"]
    /\ presented' = [presented EXCEPT ![c] = s]
    /\ UNCHANGED <<rowVars, expired, deleted, reported, targets, leaver>>

RowLocked(s) ==
    \E c \in Connection : stage[c] \in {"valid", "reused"} /\ presented[c] = s

Invalid(s) == revoked[s] \/ replacedBy[s] # NoSession \/ s \in expired

\* The row is read and locked; of an invalid one the family is selected.
ReadSession(c) ==
    LET s == presented[c] IN
    /\ stage[c] = "locked"
    /\ user[s] \notin deleted
    /\ ~RowLocked(s)
    /\ IF Invalid(s)
          THEN /\ stage' = [stage EXCEPT ![c] = "reused"]
               /\ targets' = [targets EXCEPT ![c] = {t \in Issued : family[t] = family[s]}]
          ELSE /\ stage' = [stage EXCEPT ![c] = "valid"]
               /\ UNCHANGED targets
    /\ UNCHANGED <<rowVars, expired, deleted, reported, presented, leaver>>

\* Mutant: the presented session is marked as replaced but stays unrevoked.
ReplaceKeepingOld(c, t) ==
    LET s == presented[c] IN
    /\ stage[c] = "valid"
    /\ t \notin Issued
    /\ user' = [user EXCEPT ![t] = user[s]]
    /\ family' = [family EXCEPT ![t] = family[s]]
    /\ replacedBy' = [replacedBy EXCEPT ![s] = t]
    /\ Closed(c)
    /\ UNCHANGED <<revoked, expired, deleted, reported>>

\* The successor is inserted, the presented session revoked, and both commit.
Replace(c, t) ==
    LET s == presented[c] IN
    /\ stage[c] = "valid"
    /\ t \notin Issued
    /\ user' = [user EXCEPT ![t] = user[s]]
    /\ family' = [family EXCEPT ![t] = family[s]]
    /\ revoked' = [revoked EXCEPT ![s] = TRUE]
    /\ replacedBy' = [replacedBy EXCEPT ![s] = t]
    /\ Closed(c)
    /\ UNCHANGED <<expired, deleted, reported>>

\* No row that c wants to update is locked by another transaction.
TargetsFree(c) ==
    \A d \in Connection : d # c /\ stage[d] \in {"valid", "reused"} => presented[d] \notin targets[c]

RevokeTargets(c) == revoked' = [s \in Session |-> revoked[s] \/ s \in targets[c]]

\* The family of a reused session is revoked, reported and committed; only
\* then is the request refused.
RevokeFamily(c) ==
    /\ stage[c] = "reused"
    /\ TargetsFree(c)
    /\ RevokeTargets(c)
    /\ reported' = reported \union {family[presented[c]]}
    /\ Closed(c)
    /\ UNCHANGED <<user, family, replacedBy, expired, deleted>>

-----------------------------------------------------------------------------
(* Revocations of all sessions of a user.                                  *)

\* revokeAll, or the statement like it in a reset or an off-boarding, selects
\* the rows it sees; a completed deletion request also deletes the account.
SelectAll(c, u) ==
    /\ stage[c] = "idle"
    /\ u \notin deleted
    /\ stage' = [stage EXCEPT ![c] = "revoking"]
    /\ targets' = [targets EXCEPT ![c] = {s \in Issued : user[s] = u /\ ~revoked[s]}]
    /\ \E gone \in {u, NoUser} : leaver' = [leaver EXCEPT ![c] = gone]
    /\ UNCHANGED <<rowVars, expired, deleted, reported, presented>>

\* Mutant: a revocation without a deletion deletes the account "none".
RevokeAllDeletingNobody(c) ==
    /\ stage[c] = "revoking"
    /\ TargetsFree(c)
    /\ RevokeTargets(c)
    /\ deleted' = deleted \union {leaver[c]}
    /\ Closed(c)
    /\ UNCHANGED <<user, family, replacedBy, expired, reported>>

RevokeAll(c) ==
    /\ stage[c] = "revoking"
    /\ TargetsFree(c)
    /\ RevokeTargets(c)
    /\ deleted' = deleted \union ({leaver[c]} \ {NoUser})
    /\ Closed(c)
    /\ UNCHANGED <<user, family, replacedBy, expired, reported>>

-----------------------------------------------------------------------------
\* An error, a deadlock, a lost connection, or nothing found: nothing is kept.
Rollback(c) ==
    /\ stage[c] # "idle"
    /\ Closed(c)
    /\ UNCHANGED <<rowVars, expired, deleted, reported>>

Expire(s) ==
    /\ s \in Issued \ expired
    /\ expired' = expired \union {s}
    /\ UNCHANGED <<rowVars, deleted, reported, txVars>>

Next ==
    \/ \E u \in User, s \in Session : Issue(u, s)
    \/ \E c \in Connection, s \in Session : LockFamily(c, s) \/ Replace(c, s)
    \/ \E c \in Connection : ReadSession(c) \/ RevokeFamily(c) \/ RevokeAll(c) \/ Rollback(c)
    \/ \E c \in Connection, u \in User : SelectAll(c, u)
    \/ \E s \in Session : Expire(s)

Spec == Init /\ [][Next]_vars

-----------------------------------------------------------------------------
(* Properties.                                                             *)

\* A family has at most one live session, however many requests present its
\* sessions at once (rotate).
OneLiveSession ==
    \A s, t \in Session : Live(s) /\ Live(t) /\ family[s] = family[t] => s = t

\* Once the reuse of a session was reported, no session of its family is live
\* or ever becomes live again: a rotation of a successor that is under way
\* cannot slip past the revocation (rotate).
ReuseEndsFamily == \A s \in Session : Live(s) => family[s] \notin reported

\* Revoking all sessions of a user leaves none of the families it found alive.
RevocationIsComplete ==
    [][\A c \in Connection, s \in Session :
        RevokeAll(c) /\ Live(s)' => family'[s] \notin {family[t] : t \in targets[c]}]_vars
=============================================================================
