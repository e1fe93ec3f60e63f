------------------------------ MODULE Accounts ------------------------------
(***************************************************************************)
(* User accounts, their lockout and their sessions                         *)
(* (packages/platform/auth/session_store.py, packages/platform/audit.py,   *)
(* concurrency.py, and the routers auth.py and admin_users.py).            *)
(*                                                                         *)
(* A request is one READ COMMITTED transaction: a SELECT is a step that    *)
(* remembers what it read, and the UPDATEs that follow take effect with    *)
(* the commit.  Timestamps are abstracted to the comparisons the code      *)
(* makes with now(): a lock holds or has run out, a session is live or     *)
(* expired.                                                                *)
(***************************************************************************)
EXTENDS Integers, Sequences, FiniteSets

CONSTANTS
  Users,         \* the accounts that may be created
  NoUser,
  Names, Roles,  \* display names and roles
  Passwords, NoPassword,
  Tokens,        \* the session tokens that may be drawn
  Requests,      \* HTTP requests that may be in flight at the same time
  Threshold,     \* FAILED_LOGIN_LOCKOUT_THRESHOLD
  MaxChanges,    \* bound on the audited changes of an account
  MaxFailures    \* bound on failed_login_count

ASSUME AccountsAssumption ==
  /\ NoUser \notin Users /\ NoPassword \notin Passwords
  /\ Threshold \in Nat \ {0} /\ MaxChanges \in Nat /\ MaxFailures \in Nat
  /\ IsFiniteSet(Requests)

VARIABLES
  \* users
  status, version, name, role, password, failed, locked,
  audit,      \* object_version of the audit rows of a user, 0 for NULL
  \* user_sessions
  session, owner,
  late,       \* wrong passwords counted since the lock was last set
  req

users == <<status, version, name, role, password, failed, locked, late>>
vars  == <<users, audit, session, owner, req>>

\* A request, by its next statement and what its transaction has read.
Memo(at, u, seen, n, l) == [at |-> at, u |-> u, seen |-> seen, name |-> n, role |-> l]
Idle == Memo("idle", NoUser, 0, "none", "none")

Init ==
  /\ status = [u \in Users |-> "absent"]
  /\ version = [u \in Users |-> 0]
  /\ name = [u \in Users |-> "none"]
  /\ role = [u \in Users |-> "none"]
  /\ password = [u \in Users |-> NoPassword]
  /\ failed = [u \in Users |-> 0]
  /\ locked = [u \in Users |-> "no"]
  /\ late = [u \in Users |-> 0]
  /\ audit = [u \in Users |-> << >>]
  /\ session = [t \in Tokens |-> "unused"]
  /\ owner = [t \in Tokens |-> NoUser]
  /\ req = [r \in Requests |-> Idle]

Exists(u) == status[u] # "absent"
Go(r, rec) == req' = [req EXCEPT ![r] = rec]
End(r) == Go(r, Idle)

\* write_audit_log, in the transaction of the change it describes.
Logged(u, v) ==
  /\ Len(audit[u]) < MaxChanges
  /\ audit' = [audit EXCEPT ![u] = Append(@, v)]

-----------------------------------------------------------------------------
(* admin_users.py *)

\* create_user: no password yet, so nobody can log in.
CreateUser(u, n, l) ==
  /\ ~Exists(u)
  /\ status' = [status EXCEPT ![u] = "active"]
  /\ version' = [version EXCEPT ![u] = 1]
  /\ name' = [name EXCEPT ![u] = n]
  /\ role' = [role EXCEPT ![u] = l]
  /\ Logged(u, 1)
  /\ UNCHANGED <<password, failed, locked, late, session, owner, req>>

\* check_precondition
Matches(u, ifMatch) == ifMatch = version[u]

\* update_user reads the row; what the body leaves out is kept as it was read.
BeginUpdate(r, u, ifMatch, n, l) ==
  /\ req[r].at = "idle" /\ Exists(u)
  /\ Matches(u, ifMatch)                      \* else PreconditionFailed
  /\ Go(r, Memo("update", u, version[u], IF n = "none" THEN name[u] ELSE n,
                                         IF l = "none" THEN role[u] ELSE l))
  /\ UNCHANGED <<users, audit, session, owner>>

\* A form that writes the whole row back, the status it began with included.
WriteUpdate_WholeRow(r) ==
  LET u == req[r].u IN
  /\ req[r].at = "update"
  /\ name' = [name EXCEPT ![u] = req[r].name]
  /\ role' = [role EXCEPT ![u] = req[r].role]
  /\ status' = [status EXCEPT ![u] = "active"]
  /\ version' = [version EXCEPT ![u] = @ + 1]
  /\ Logged(u, version[u] + 1)
  /\ End(r)
  /\ UNCHANGED <<password, failed, locked, late, session, owner>>

\* UPDATE users ... version = version + 1 WHERE id = :id RETURNING version.
WriteUpdate(r) ==
  LET u == req[r].u IN
  /\ req[r].at = "update"
  /\ name' = [name EXCEPT ![u] = req[r].name]
  /\ role' = [role EXCEPT ![u] = req[r].role]
  /\ version' = [version EXCEPT ![u] = @ + 1]
  /\ Logged(u, version[u] + 1)
  /\ End(r)
  /\ UNCHANGED <<status, password, failed, locked, late, session, owner>>

\* audit.disable_user reads the version ...
BeginDisable(r, u) ==
  /\ req[r].at = "idle" /\ Exists(u)
  /\ Go(r, Memo("disable", u, version[u], "none", "none"))
  /\ UNCHANGED <<users, audit, session, owner>>

\* A form that lets the database count but logs the number it computed.
WriteDisable_CountedTwice(r) ==
  LET u == req[r].u IN
  /\ req[r].at = "disable"
  /\ status' = [status EXCEPT ![u] = "disabled"]
  /\ version' = [version EXCEPT ![u] = @ + 1]
  /\ Logged(u, req[r].seen + 1)
  /\ End(r)
  /\ UNCHANGED <<name, role, password, failed, locked, late, session, owner>>

\* ... and writes the next one, whatever the version is by then.
WriteDisable(r) ==
  LET u == req[r].u IN
  /\ req[r].at = "disable"
  /\ status' = [status EXCEPT ![u] = "disabled"]
  /\ version' = [version EXCEPT ![u] = req[r].seen + 1]
  /\ Logged(u, req[r].seen + 1)
  /\ End(r)
  /\ UNCHANGED <<name, role, password, failed, locked, late, session, owner>>

\* A form that clears the lock and keeps the count.
SetPassword_KeepCount(u, p) ==
  /\ Exists(u)
  /\ password' = [password EXCEPT ![u] = p]
  /\ locked' = [locked EXCEPT ![u] = "no"]
  /\ version' = [version EXCEPT ![u] = @ + 1]
  /\ Logged(u, 0)
  /\ UNCHANGED <<status, name, role, failed, late, session, owner, req>>

\* set_password_route: one UPDATE, which also lifts the lock.
SetPassword(u, p) ==
  /\ Exists(u)
  /\ password' = [password EXCEPT ![u] = p]
  /\ failed' = [failed EXCEPT ![u] = 0]
  /\ locked' = [locked EXCEPT ![u] = "no"]
  /\ late' = [late EXCEPT ![u] = 0]
  /\ version' = [version EXCEPT ![u] = @ + 1]
  /\ Logged(u, 0)
  /\ UNCHANGED <<status, name, role, session, owner, req>>

-----------------------------------------------------------------------------
(* session_store.py and auth.py *)

\* A form that leaves the lock out.
Admits_Locked(u) == status[u] = "active"

\* authenticate_user goes on to the password; otherwise nothing changes.
Admits(u) == status[u] = "active" /\ locked[u] # "yes"

\* The SELECT of authenticate_user, and verify_password on what it read: a
\* user without a password is never verified.
BeginLogin(r, u, p) ==
  /\ req[r].at = "idle"
  /\ Admits(u)
  /\ \/ p = password[u] /\ Go(r, Memo("success", u, 0, "none", "none"))
     \/ p # password[u] /\ failed[u] < MaxFailures
        /\ Go(r, Memo("failure", u, 0, "none", "none"))
  /\ UNCHANGED <<users, audit, session, owner>>

\* record_login_failure: the second UPDATE under the row lock of the first.
LoginFailure(r) ==
  LET u == req[r].u
      locks == failed[u] + 1 >= Threshold
  IN
  /\ req[r].at = "failure"
  /\ failed' = [failed EXCEPT ![u] = @ + 1]
  /\ locked' = [locked EXCEPT ![u] = IF locks THEN "yes" ELSE @]
  /\ late' = [late EXCEPT ![u] = IF locked[u] = "yes" THEN @ + 1 ELSE 0]
  /\ End(r)
  /\ UNCHANGED <<status, version, name, role, password, audit, session, owner>>

\* reset_login_failures and create_session.
LoginSuccess(r, t) ==
  LET u == req[r].u IN
  /\ req[r].at = "success"
  /\ session[t] = "unused"
  /\ failed' = [failed EXCEPT ![u] = 0]
  /\ locked' = [locked EXCEPT ![u] = "no"]
  /\ late' = [late EXCEPT ![u] = 0]
  /\ session' = [session EXCEPT ![t] = "live"]
  /\ owner' = [owner EXCEPT ![t] = u]
  /\ End(r)
  /\ UNCHANGED <<status, version, name, role, password, audit>>

\* logout and revoke_session; an unknown or revoked token is a no-op.
Logout(t) ==
  /\ session[t] \in {"live", "expired"}
  /\ session' = [session EXCEPT ![t] = "revoked"]
  /\ UNCHANGED <<users, audit, owner, req>>

\* locked_until <= now(), expires_at <= now()
LockRunsOut(u) ==
  /\ locked[u] = "yes"
  /\ locked' = [locked EXCEPT ![u] = "over"]
  /\ UNCHANGED <<status, version, name, role, password, failed, late, audit,
                 session, owner, req>>

SessionExpires(t) ==
  /\ session[t] = "live"
  /\ session' = [session EXCEPT ![t] = "expired"]
  /\ UNCHANGED <<users, audit, owner, req>>

\* A lost client or a dying process: the transaction is rolled back.
Rollback(r) ==
  /\ req[r].at # "idle"
  /\ End(r)
  /\ UNCHANGED <<users, audit, session, owner>>

\* resolve_session: the token stands for somebody.
Resolves(t) == session[t] = "live" /\ status[owner[t]] = "active"

-----------------------------------------------------------------------------
Next ==
  \/ \E u \in Users :
       \/ \E n \in Names, l \in Roles : CreateUser(u, n, l)
       \/ \E p \in Passwords : SetPassword(u, p)
       \/ LockRunsOut(u)
  \/ \E t \in Tokens : Logout(t) \/ SessionExpires(t)
  \/ \E r \in Requests, u \in Users :
       \/ \E i \in 1..MaxChanges, n \in Names \cup {"none"}, l \in Roles \cup {"none"} :
            BeginUpdate(r, u, i, n, l)
       \/ BeginDisable(r, u)
       \/ \E p \in Passwords : BeginLogin(r, u, p)
  \/ \E r \in Requests :
       \/ WriteUpdate(r) \/ WriteDisable(r) \/ LoginFailure(r) \/ Rollback(r)
       \/ \E t \in Tokens : LoginSuccess(r, t)

Spec == Init /\ [][Next]_vars

-----------------------------------------------------------------------------
(* Properties. *)

\* Every column and every request's memory has its type, and a session has
\* its user (user_id is NOT NULL).
TypeOK ==
  /\ status \in [Users -> {"absent", "active", "disabled"}]
  /\ version \in [Users -> 0..MaxChanges]
  /\ name \in [Users -> Names \cup {"none"}]
  /\ role \in [Users -> Roles \cup {"none"}]
  /\ password \in [Users -> Passwords \cup {NoPassword}]
  /\ failed \in [Users -> Nat]
  /\ locked \in [Users -> {"no", "yes", "over"}]
  /\ late \in [Users -> Nat]
  /\ audit \in [Users -> Seq(0..MaxChanges)]
  /\ session \in [Tokens -> {"unused", "live", "expired", "revoked"}]
  /\ owner \in [Tokens -> Users \cup {NoUser}]
  /\ \A t \in Tokens : session[t] # "unused" => owner[t] \in Users
  /\ req \in [Requests ->
       [at : {"idle", "update", "disable", "failure", "success"},
        u : Users \cup {NoUser}, seen : 0..MaxChanges,
        name : Names \cup {"none"}, role : Roles \cup {"none"}]]

\* An account has a lock, running or run out, exactly when its count of
\* failures has reached the threshold, however failures, successes and
\* password resets interleave: no reset leaves a count that would lock again
\* at the first mistake, and no count at the threshold goes without a lock.
CountAndLockAgree ==
  \A u \in Users : failed[u] >= Threshold <=> locked[u] # "no"

\* A lock is set for good until it runs out: the only wrong passwords still
\* counted against a locked account are those of requests that had read the
\* row before, fewer than can be in flight together.
LockStopsAttempts ==
  \A u \in Users : locked[u] = "yes" => late[u] < Cardinality(Requests)

\* The audit trail explains the version of a user: it is the last one logged,
\* plus one for every later password change (which logs no version), even
\* when a disable writes a version it computed from a stale read.
AuditExplainsVersion ==
  \A u \in Users :
    Exists(u) =>
      \E i \in DOMAIN audit[u] :
        /\ audit[u][i] # 0
        /\ \A j \in (i + 1)..Len(audit[u]) : audit[u][j] = 0
        /\ version[u] = audit[u][i] + (Len(audit[u]) - i)

\* Signing out, expiry and disabling are final: a token that has stopped
\* standing for somebody never does again, and a login that races with the
\* disabling of its user yields a token that never works.
EndedStaysEnded ==
  [][\A t \in Tokens : session[t] # "unused" /\ ~Resolves(t) => ~Resolves(t)']_vars
=============================================================================
