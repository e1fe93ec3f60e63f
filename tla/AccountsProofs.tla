--------------------------- MODULE AccountsProofs ---------------------------
(***************************************************************************)
(* Proofs about Accounts, for every set of users, names, passwords, tokens *)
(* and (finitely many) requests in flight.                                 *)
(***************************************************************************)
EXTENDS Accounts, FiniteSetTheorems, TLAPS

(* The inductive invariant of the types: a version never runs ahead of the *)
(* audit trail, which is what bounds it, and whatever a request or a       *)
(* session remembers is a user that exists.                                *)

Counted ==
  /\ \A u \in Users : Len(audit[u]) <= MaxChanges /\ version[u] <= Len(audit[u])
  /\ \A r \in Requests : req[r].at # "idle" => req[r].seen <= Len(audit[req[r].u])

Remembered == \A r \in Requests : req[r].at # "idle" => req[r].u \in Users /\ Exists(req[r].u)

Owned == \A t \in Tokens : session[t] # "unused" => owner[t] \in Users /\ Exists(owner[t])

TypeInv == TypeOK /\ Counted /\ Remembered /\ Owned

LEMMA TypeInit == Init => TypeInv
BY AccountsAssumption
   DEF Init, TypeInv, TypeOK, Counted, Remembered, Owned, Exists, Idle, Memo

\* A change writes a version and lengthens the trail of one user by one entry,
\* and neither the version nor the entry is ahead of the trail.
LEMMA TrailGrows ==
  ASSUME TypeOK, Counted, NEW u \in Users, NEW v \in Nat, NEW w \in Nat,
         v <= Len(audit[u]) + 1, w <= Len(audit[u]) + 1,
         Logged(u, v), version' = [version EXCEPT ![u] = w]
  PROVE  /\ audit' \in [Users -> Seq(0..MaxChanges)]
         /\ version' \in [Users -> 0..MaxChanges]
         /\ \A x \in Users : Len(audit'[x]) <= MaxChanges /\ version'[x] <= Len(audit'[x])
         /\ \A x \in Users : \A n \in Nat : n <= Len(audit[x]) => n <= Len(audit'[x])
<1>1. /\ audit \in [Users -> Seq(0..MaxChanges)] /\ version \in [Users -> 0..MaxChanges]
      /\ \A x \in Users : Len(audit[x]) <= MaxChanges /\ version[x] <= Len(audit[x])
      /\ MaxChanges \in Nat
  BY AccountsAssumption DEF TypeOK, Counted
<1>2. Len(audit[u]) < MaxChanges /\ audit' = [audit EXCEPT ![u] = Append(audit[u], v)]
  BY DEF Logged
<1>3. audit[u] \in Seq(0..MaxChanges) /\ Len(audit[u]) \in Nat
  BY <1>1
<1>4. v \in 0..MaxChanges /\ w \in 0..MaxChanges
  BY <1>1, <1>2, <1>3
<1>5. Append(audit[u], v) \in Seq(0..MaxChanges) /\ Len(Append(audit[u], v)) = Len(audit[u]) + 1
  BY <1>3, <1>4
<1>6. /\ audit' \in [Users -> Seq(0..MaxChanges)] /\ version' \in [Users -> 0..MaxChanges]
      /\ Len(audit'[u]) = Len(audit[u]) + 1 /\ version'[u] = w
  BY <1>1, <1>2, <1>4, <1>5
<1>7. ASSUME NEW x \in Users
      PROVE  /\ Len(audit'[x]) <= MaxChanges /\ version'[x] <= Len(audit'[x])
             /\ \A n \in Nat : n <= Len(audit[x]) => n <= Len(audit'[x])
  <2>1. CASE x = u
    BY <2>1, <1>1, <1>2, <1>3, <1>6
  <2>2. CASE x # u
    <3>1. audit'[x] = audit[x] /\ version'[x] = version[x]
      BY <2>2, <1>1, <1>2
    <3> QED
      BY <3>1, <1>1
  <2> QED
    BY <2>1, <2>2
<1> QED
  BY <1>6, <1>7

LEMMA TypeStep == TypeInv /\ [Next]_vars => TypeInv'
<1> SUFFICES ASSUME TypeInv, [Next]_vars PROVE TypeInv'
  OBVIOUS
<1> USE AccountsAssumption DEF TypeInv
<1>1. ASSUME NEW u \in Users, NEW n \in Names, NEW l \in Roles, CreateUser(u, n, l)
      PROVE  TypeInv'
  <2>a. Logged(u, 1) /\ version' = [version EXCEPT ![u] = 1] /\ req' = req
    BY <1>1 DEF CreateUser
  <2>b. 1 \in Nat /\ 1 <= Len(audit[u]) + 1 /\ 1 <= Len(audit[u]) + 1
    BY DEF TypeOK, Counted
  <2>c. /\ audit' \in [Users -> Seq(0..MaxChanges)]
        /\ version' \in [Users -> 0..MaxChanges]
        /\ \A x \in Users : Len(audit'[x]) <= MaxChanges /\ version'[x] <= Len(audit'[x])
        /\ \A x \in Users : \A k \in Nat : k <= Len(audit[x]) => k <= Len(audit'[x])
    BY <2>a, <2>b, TrailGrows
  <2>1. TypeOK'
    BY <1>1, <2>c DEF CreateUser, TypeOK
  <2>2. Counted'
    <3>1. \A q \in Requests : req[q].seen \in Nat
      BY DEF TypeOK
    <3> QED
      BY <2>a, <2>c, <3>1 DEF Counted, Remembered
  <2>3. Remembered' /\ Owned'
    BY <1>1 DEF CreateUser, TypeOK, Remembered, Owned, Exists
  <2> QED
    BY <2>1, <2>2, <2>3
<1>2. ASSUME NEW u \in Users, NEW p \in Passwords, SetPassword(u, p)
      PROVE  TypeInv'
  <2>a. Logged(u, 0) /\ version' = [version EXCEPT ![u] = version[u] + 1] /\ req' = req
    BY <1>2 DEF SetPassword
  <2>b. version[u] + 1 \in Nat /\ 0 <= Len(audit[u]) + 1 /\ version[u] + 1 <= Len(audit[u]) + 1
    BY DEF TypeOK, Counted
  <2>c. /\ audit' \in [Users -> Seq(0..MaxChanges)]
        /\ version' \in [Users -> 0..MaxChanges]
        /\ \A x \in Users : Len(audit'[x]) <= MaxChanges /\ version'[x] <= Len(audit'[x])
        /\ \A x \in Users : \A k \in Nat : k <= Len(audit[x]) => k <= Len(audit'[x])
    BY <2>a, <2>b, TrailGrows
  <2>1. TypeOK'
    BY <1>2, <2>c DEF SetPassword, TypeOK
  <2>2. Counted'
    <3>1. \A q \in Requests : req[q].seen \in Nat
      BY DEF TypeOK
    <3> QED
      BY <2>a, <2>c, <3>1 DEF Counted, Remembered
  <2>3. Remembered' /\ Owned'
    BY <1>2 DEF SetPassword, TypeOK, Remembered, Owned, Exists
  <2> QED
    BY <2>1, <2>2, <2>3
<1>3. ASSUME NEW u \in Users, LockRunsOut(u) PROVE TypeInv'
  <2>1. TypeOK'
    BY <1>3 DEF LockRunsOut, TypeOK
  <2>2. Counted'
    BY <1>3 DEF LockRunsOut, TypeOK, Counted, Remembered
  <2>3. Remembered' /\ Owned'
    BY <1>3 DEF LockRunsOut, TypeOK, Remembered, Owned, Exists
  <2> QED
    BY <2>1, <2>2, <2>3
<1>4. ASSUME NEW t \in Tokens, Logout(t) \/ SessionExpires(t) PROVE TypeInv'
  <2>a. UNCHANGED <<status, version, name, role, password, failed, locked, late,
                    audit, owner, req>>
    BY <1>4 DEF Logout, SessionExpires, users
  <2>b. session[t] # "unused"
    BY <1>4 DEF Logout, SessionExpires
  <2>c. PICK s \in {"expired", "revoked"} : session' = [session EXCEPT ![t] = s]
    BY <1>4 DEF Logout, SessionExpires
  <2>1. TypeOK'
    BY <2>a, <2>b, <2>c DEF TypeOK
  <2>2. Counted'
    BY <2>a, <2>b, <2>c DEF TypeOK, Counted, Remembered
  <2>3. Remembered' /\ Owned'
    BY <2>a, <2>b, <2>c DEF TypeOK, Remembered, Owned, Exists
  <2> QED
    BY <2>1, <2>2, <2>3
<1>5. ASSUME NEW r \in Requests, NEW u \in Users, NEW i \in 1..MaxChanges,
             NEW n \in Names \cup {"none"}, NEW l \in Roles \cup {"none"},
             BeginUpdate(r, u, i, n, l)
      PROVE  TypeInv'
  <2>a. PICK nn \in Names \cup {"none"}, ll \in Roles \cup {"none"} :
          req' = [req EXCEPT ![r] = Memo("update", u, version[u], nn, ll)]
    BY <1>5 DEF BeginUpdate, Go, TypeOK
  <2>b. UNCHANGED <<status, version, name, role, password, failed, locked, late,
                    audit, session, owner>>
    BY <1>5 DEF BeginUpdate, users
  <2>c. Exists(u)
    BY <1>5 DEF BeginUpdate
  <2>1. TypeOK'
    BY <2>a, <2>b DEF Memo, TypeOK
  <2>2. Counted'
    BY <2>a, <2>b DEF Memo, TypeOK, Counted, Remembered
  <2>3. Remembered' /\ Owned'
    BY <2>a, <2>b, <2>c DEF Memo, TypeOK, Remembered, Owned, Exists
  <2> QED
    BY <2>1, <2>2, <2>3
<1>6. ASSUME NEW r \in Requests, NEW u \in Users, BeginDisable(r, u) PROVE TypeInv'
  <2>1. TypeOK'
    BY <1>6 DEF BeginDisable, Go, Memo, users, TypeOK
  <2>2. Counted'
    BY <1>6 DEF BeginDisable, Go, Memo, users, TypeOK, Counted, Remembered
  <2>3. Remembered' /\ Owned'
    BY <1>6 DEF BeginDisable, Go, Memo, users, TypeOK, Remembered, Owned, Exists
  <2> QED
    BY <2>1, <2>2, <2>3
<1>7. ASSUME NEW r \in Requests, NEW u \in Users, NEW p \in Passwords, BeginLogin(r, u, p)
      PROVE  TypeInv'
  <2>a. UNCHANGED <<status, version, name, role, password, failed, locked, late,
                    audit, session, owner>>
    BY <1>7 DEF BeginLogin, users
  <2>b. PICK at \in {"success", "failure"} :
          req' = [req EXCEPT ![r] = Memo(at, u, 0, "none", "none")]
    BY <1>7 DEF BeginLogin, Go
  <2>c. Exists(u)
    BY <1>7 DEF BeginLogin, Admits, Exists
  <2>1. TypeOK'
    BY <2>a, <2>b, <2>c DEF Memo, TypeOK
  <2>2. Counted'
    BY <2>a, <2>b, <2>c DEF Memo, TypeOK, Counted, Remembered
  <2>3. Remembered' /\ Owned'
    BY <2>a, <2>b, <2>c DEF Memo, TypeOK, Remembered, Owned, Exists
  <2> QED
    BY <2>1, <2>2, <2>3
<1>8. ASSUME NEW r \in Requests, WriteUpdate(r) PROVE TypeInv'
  <2>a. PICK u \in Users : u = req[r].u
    BY <1>8 DEF WriteUpdate, Remembered
  <2>b. version[u] + 1 \in Nat /\ version[u] + 1 <= Len(audit[u]) + 1
    <3>1. audit[u] \in Seq(0..MaxChanges) /\ req[r].seen \in 0..MaxChanges /\ version[u] \in 0..MaxChanges
      BY DEF TypeOK
    <3>2. req[r].seen <= Len(audit[u]) /\ version[u] <= Len(audit[u])
      BY <1>8, <2>a DEF WriteUpdate, Counted
    <3> QED
      BY <3>1, <3>2
  <2>c. PICK v \in Nat : v = version[u] + 1 /\ v <= Len(audit[u]) + 1
    BY <2>b
  <2>d. Logged(u, v) /\ req' = [req EXCEPT ![r] = Idle] /\ version' = [version EXCEPT ![u] = v]
    BY <1>8, <2>a, <2>c DEF WriteUpdate, End, Go
  <2>e. /\ audit' \in [Users -> Seq(0..MaxChanges)]
        /\ version' \in [Users -> 0..MaxChanges]
        /\ \A x \in Users : Len(audit'[x]) <= MaxChanges /\ version'[x] <= Len(audit'[x])
        /\ \A x \in Users : \A k \in Nat : k <= Len(audit[x]) => k <= Len(audit'[x])
    BY <2>c, <2>d, TrailGrows
  <2>f. req' \in [Requests ->
          [at : {"idle", "update", "disable", "failure", "success"},
           u : Users \cup {NoUser}, seen : 0..MaxChanges,
           name : Names \cup {"none"}, role : Roles \cup {"none"}]]
    BY <2>d DEF Idle, Memo, TypeOK
  <2>1. TypeOK'
    BY <1>8, <2>a, <2>e, <2>f DEF WriteUpdate, TypeOK
  <2>2. Counted'
    <3>1. \A q \in Requests : req'[q].at # "idle" => q # r
      BY <2>d DEF Idle, Memo, TypeOK
    <3>2. \A q \in Requests : q # r => req'[q] = req[q] /\ req[q].seen \in Nat
      BY <2>d DEF TypeOK
    <3> QED
      BY <2>e, <3>1, <3>2 DEF Counted, Remembered
  <2>3. Remembered' /\ Owned'
    BY <1>8, <2>a, <2>d DEF WriteUpdate, Idle, Memo, TypeOK, Remembered, Owned, Exists
  <2> QED
    BY <2>1, <2>2, <2>3
<1>9. ASSUME NEW r \in Requests, WriteDisable(r) PROVE TypeInv'
  <2>a. PICK u \in Users : u = req[r].u
    BY <1>9 DEF WriteDisable, Remembered
  <2>b. req[r].seen + 1 \in Nat /\ req[r].seen + 1 <= Len(audit[u]) + 1
    <3>1. audit[u] \in Seq(0..MaxChanges) /\ req[r].seen \in 0..MaxChanges /\ version[u] \in 0..MaxChanges
      BY DEF TypeOK
    <3>2. req[r].seen <= Len(audit[u]) /\ version[u] <= Len(audit[u])
      BY <1>9, <2>a DEF WriteDisable, Counted
    <3> QED
      BY <3>1, <3>2
  <2>c. PICK v \in Nat : v = req[r].seen + 1 /\ v <= Len(audit[u]) + 1
    BY <2>b
  <2>d. Logged(u, v) /\ req' = [req EXCEPT ![r] = Idle] /\ version' = [version EXCEPT ![u] = v]
    BY <1>9, <2>a, <2>c DEF WriteDisable, End, Go
  <2>e. /\ audit' \in [Users -> Seq(0..MaxChanges)]
        /\ version' \in [Users -> 0..MaxChanges]
        /\ \A x \in Users : Len(audit'[x]) <= MaxChanges /\ version'[x] <= Len(audit'[x])
        /\ \A x \in Users : \A k \in Nat : k <= Len(audit[x]) => k <= Len(audit'[x])
    BY <2>c, <2>d, TrailGrows
  <2>f. req' \in [Requests ->
          [at : {"idle", "update", "disable", "failure", "success"},
           u : Users \cup {NoUser}, seen : 0..MaxChanges,
           name : Names \cup {"none"}, role : Roles \cup {"none"}]]
    BY <2>d DEF Idle, Memo, TypeOK
  <2>1. TypeOK'
    BY <1>9, <2>a, <2>e, <2>f DEF WriteDisable, TypeOK
  <2>2. Counted'
    <3>1. \A q \in Requests : req'[q].at # "idle" => q # r
      BY <2>d DEF Idle, Memo, TypeOK
    <3>2. \A q \in Requests : q # r => req'[q] = req[q] /\ req[q].seen \in Nat
      BY <2>d DEF TypeOK
    <3> QED
      BY <2>e, <3>1, <3>2 DEF Counted, Remembered
  <2>3. Remembered' /\ Owned'
    BY <1>9, <2>a, <2>d DEF WriteDisable, Idle, Memo, TypeOK, Remembered, Owned, Exists
  <2> QED
    BY <2>1, <2>2, <2>3
<1>10. ASSUME NEW r \in Requests, LoginFailure(r) PROVE TypeInv'
  <2>a. req[r].u \in Users /\ Exists(req[r].u) /\ req[r].seen <= Len(audit[req[r].u])
    BY <1>10 DEF LoginFailure, Remembered, Counted
  <2>1. TypeOK'
    BY <1>10, <2>a DEF LoginFailure, End, Go, Idle, Memo, TypeOK
  <2>2. Counted'
    BY <1>10, <2>a DEF LoginFailure, End, Go, Idle, Memo, TypeOK, Counted, Remembered
  <2>3. Remembered' /\ Owned'
    BY <1>10, <2>a DEF LoginFailure, End, Go, Idle, Memo, TypeOK, Remembered, Owned, Exists
  <2> QED
    BY <2>1, <2>2, <2>3
<1>11. ASSUME NEW r \in Requests, Rollback(r) PROVE TypeInv'
  <2>1. TypeOK'
    BY <1>11 DEF Rollback, End, Go, Idle, Memo, users, TypeOK
  <2>2. Counted'
    BY <1>11 DEF Rollback, End, Go, Idle, Memo, users, TypeOK, Counted, Remembered
  <2>3. Remembered' /\ Owned'
    BY <1>11 DEF Rollback, End, Go, Idle, Memo, users, TypeOK, Remembered, Owned, Exists
  <2> QED
    BY <2>1, <2>2, <2>3
<1>12. ASSUME NEW r \in Requests, NEW t \in Tokens, LoginSuccess(r, t) PROVE TypeInv'
  <2>a. req[r].u \in Users /\ Exists(req[r].u) /\ req[r].seen <= Len(audit[req[r].u])
    BY <1>12 DEF LoginSuccess, Remembered, Counted
  <2>1. TypeOK'
    BY <1>12, <2>a DEF LoginSuccess, End, Go, Idle, Memo, TypeOK
  <2>2. Counted'
    BY <1>12, <2>a DEF LoginSuccess, End, Go, Idle, Memo, TypeOK, Counted, Remembered
  <2>3. Remembered' /\ Owned'
    BY <1>12, <2>a DEF LoginSuccess, End, Go, Idle, Memo, TypeOK, Remembered, Owned, Exists
  <2> QED
    BY <2>1, <2>2, <2>3
<1>13. CASE UNCHANGED vars
  BY <1>13 DEF vars, users, TypeOK, Counted, Remembered, Owned, Exists
<1> QED
  BY <1>1, <1>2, <1>3, <1>4, <1>5, <1>6, <1>7, <1>8, <1>9, <1>10, <1>11, <1>12, <1>13 DEF Next

\* What the lockout is about: failed, locked and late change only in three
\* statements of session_store and in set_password.
LEMMA LockStep ==
  ASSUME [Next]_vars
  PROVE  \/ \E u \in Users, p \in Passwords : SetPassword(u, p)
         \/ \E u \in Users : LockRunsOut(u)
         \/ \E r \in Requests : LoginFailure(r)
         \/ \E r \in Requests, t \in Tokens : LoginSuccess(r, t)
         \/ UNCHANGED <<failed, locked, late>>
BY DEF Next, vars, users, CreateUser, Logout, SessionExpires, BeginUpdate, BeginDisable,
       BeginLogin, WriteUpdate, WriteDisable, Rollback

\* The columns, the requests' memories and the owners of the sessions of any
\* reachable state have their types.
THEOREM AccountsTypeCorrect == Spec => []TypeOK
<1>1. Spec => []TypeInv
  BY TypeInit, TypeStep, PTL DEF Spec
<1> QED
  BY <1>1, PTL DEF TypeInv

-----------------------------------------------------------------------------
(* The lock and the count of failures. *)

\* An account is locked, or its lock has run out, exactly when its count of
\* failures has reached the threshold, for any threshold and any interleaving
\* of failures, successful logins and password resets.
THEOREM LockFollowsCount == Spec => []CountAndLockAgree
<1>1. Init => CountAndLockAgree
  BY AccountsAssumption DEF Init, CountAndLockAgree
<1>2. TypeInv /\ CountAndLockAgree /\ [Next]_vars => CountAndLockAgree'
  <2> SUFFICES ASSUME TypeInv, CountAndLockAgree, [Next]_vars PROVE CountAndLockAgree'
    OBVIOUS
  <2> USE AccountsAssumption DEF TypeInv, TypeOK, Remembered, CountAndLockAgree
  <2>1. ASSUME NEW u \in Users, NEW p \in Passwords, SetPassword(u, p)
        PROVE  CountAndLockAgree'
    BY <2>1 DEF SetPassword
  <2>2. ASSUME NEW u \in Users, LockRunsOut(u) PROVE CountAndLockAgree'
    BY <2>2 DEF LockRunsOut
  <2>3. ASSUME NEW r \in Requests, LoginFailure(r) PROVE CountAndLockAgree'
    BY <2>3 DEF LoginFailure
  <2>4. ASSUME NEW r \in Requests, NEW t \in Tokens, LoginSuccess(r, t)
        PROVE  CountAndLockAgree'
    BY <2>4 DEF LoginSuccess
  <2>5. CASE UNCHANGED <<failed, locked, late>>
    BY <2>5
  <2> QED
    BY <2>1, <2>2, <2>3, <2>4, <2>5, LockStep
<1>3. Spec => []TypeInv
  BY TypeInit, TypeStep, PTL DEF Spec
<1> QED
  BY <1>1, <1>2, <1>3, PTL DEF Spec

-----------------------------------------------------------------------------
(* Guesses that a lock comes too late for. *)

\* The requests that have verified a wrong password and not counted it yet.
Guessing(u) == {r \in Requests : req[r].at = "failure" /\ req[r].u = u}

\* Nobody starts to guess while the lock holds, so those that are still to be
\* counted and those that were counted since the lock was set together leave
\* out at least the request that set it.
LockInv ==
  \A u \in Users :
    locked[u] = "yes" => late[u] + Cardinality(Guessing(u)) < Cardinality(Requests)

LEMMA GuessingFinite ==
  ASSUME NEW u
  PROVE  IsFiniteSet(Guessing(u)) /\ Cardinality(Guessing(u)) \in Nat
BY AccountsAssumption, FS_Subset, FS_CardinalityType DEF Guessing

\* A step that is not a login of u, or that happens while u is not locked,
\* adds nobody to the guessers of a locked u.
LEMMA GuessersOnlyLeave ==
  ASSUME TypeInv, [Next]_vars, NEW u \in Users, locked[u] = "yes"
  PROVE  Guessing(u)' \subseteq Guessing(u)
<1> USE AccountsAssumption DEF TypeInv, TypeOK, Guessing
<1>1. ASSUME NEW r \in Requests, NEW x \in Users, NEW p \in Passwords, BeginLogin(r, x, p)
      PROVE  Guessing(u)' \subseteq Guessing(u)
  <2>1. x # u
    BY <1>1 DEF BeginLogin, Admits
  <2>2. PICK at \in {"success", "failure"} :
          req' = [req EXCEPT ![r] = Memo(at, x, 0, "none", "none")]
    BY <1>1 DEF BeginLogin, Go
  <2> QED
    BY <2>1, <2>2 DEF Memo
<1>2. ASSUME NEW r \in Requests, NEW x \in Users, NEW i \in 1..MaxChanges,
             NEW n \in Names \cup {"none"}, NEW l \in Roles \cup {"none"},
             BeginUpdate(r, x, i, n, l)
      PROVE  Guessing(u)' \subseteq Guessing(u)
  BY <1>2 DEF BeginUpdate, Go, Memo
<1>3. ASSUME NEW r \in Requests, NEW x \in Users, BeginDisable(r, x)
      PROVE  Guessing(u)' \subseteq Guessing(u)
  BY <1>3 DEF BeginDisable, Go, Memo
<1>4. ASSUME NEW r \in Requests, End(r)
      PROVE  Guessing(u)' \subseteq Guessing(u)
  BY <1>4 DEF End, Go, Idle, Memo
<1>5. CASE UNCHANGED req
  BY <1>5
<1> QED
  BY <1>1, <1>2, <1>3, <1>4, <1>5
     DEF Next, vars, users, CreateUser, SetPassword, LockRunsOut, Logout, SessionExpires,
         WriteUpdate, WriteDisable, LoginFailure, LoginSuccess, Rollback

LEMMA LockInvStep == TypeInv /\ LockInv /\ [Next]_vars => LockInv'
<1> SUFFICES ASSUME TypeInv, LockInv, [Next]_vars, NEW u \in Users, locked'[u] = "yes"
             PROVE  late'[u] + Cardinality(Guessing(u)') < Cardinality(Requests)
  BY DEF LockInv
<1> USE DEF TypeInv, TypeOK
<1>1. /\ IsFiniteSet(Guessing(u)) /\ Cardinality(Guessing(u)) \in Nat
      /\ IsFiniteSet(Guessing(u)') /\ Cardinality(Guessing(u)') \in Nat
  <2>1. IsFiniteSet(Guessing(u)')
    BY AccountsAssumption, FS_Subset DEF Guessing
  <2> QED
    BY <2>1, GuessingFinite, FS_CardinalityType
<1>2. IsFiniteSet(Requests) /\ Cardinality(Requests) \in Nat
  BY AccountsAssumption, FS_CardinalityType
<1>3. ASSUME locked[u] = "yes", late'[u] = late[u]
      PROVE  late'[u] + Cardinality(Guessing(u)') < Cardinality(Requests)
  <2>1. Cardinality(Guessing(u)') <= Cardinality(Guessing(u))
    BY <1>1, <1>3, GuessersOnlyLeave, FS_Subset
  <2> QED
    BY <1>1, <1>2, <1>3, <2>1 DEF LockInv
<1>4. ASSUME NEW x \in Users, NEW p \in Passwords, SetPassword(x, p)
      PROVE  locked[u] = "yes" /\ late'[u] = late[u]
  BY <1>4 DEF SetPassword
<1>5. ASSUME NEW x \in Users, LockRunsOut(x)
      PROVE  locked[u] = "yes" /\ late'[u] = late[u]
  BY <1>5 DEF LockRunsOut
<1>6. ASSUME NEW r \in Requests, NEW t \in Tokens, LoginSuccess(r, t)
      PROVE  locked[u] = "yes" /\ late'[u] = late[u]
  BY <1>6 DEF LoginSuccess, Remembered
<1>7. CASE UNCHANGED <<failed, locked, late>>
  BY <1>3, <1>7
<1>8. ASSUME NEW r \in Requests, LoginFailure(r)
      PROVE  late'[u] + Cardinality(Guessing(u)') < Cardinality(Requests)
  <2>1. CASE req[r].u # u
    BY <1>3, <1>8, <2>1 DEF LoginFailure, Remembered
  <2>2. CASE req[r].u = u
    <3>1. r \in Guessing(u) /\ Guessing(u)' = Guessing(u) \ {r}
      BY <1>8, <2>2, AccountsAssumption DEF LoginFailure, Guessing, End, Go, Idle, Memo
    <3>2. Cardinality(Guessing(u)') = Cardinality(Guessing(u)) - 1
      BY <1>1, <3>1, FS_RemoveElement
    <3>3. CASE locked[u] = "yes"
      <4>1. late'[u] = late[u] + 1
        BY <1>8, <2>2, <3>3 DEF LoginFailure
      <4> QED
        BY <1>1, <1>2, <3>2, <3>3, <4>1 DEF LockInv
    <3>4. CASE locked[u] # "yes"
      <4>1. late'[u] = 0
        BY <1>8, <2>2, <3>4 DEF LoginFailure
      <4>2. Cardinality(Guessing(u)) <= Cardinality(Requests)
        BY <1>2, FS_Subset DEF Guessing
      <4> QED
        BY <1>1, <1>2, <3>2, <4>1, <4>2
    <3> QED
      BY <3>3, <3>4
  <2> QED
    BY <2>1, <2>2
<1> QED
  BY <1>3, <1>4, <1>5, <1>6, <1>7, <1>8, LockStep

\* However many requests there are, a locked account is charged with fewer
\* late guesses than can be in flight together.
THEOREM LockHolds == Spec => []LockStopsAttempts
<1>1. Init => LockInv
  BY DEF Init, LockInv
<1>2. TypeInv /\ LockInv => LockStopsAttempts
  <2> SUFFICES ASSUME TypeInv, LockInv, NEW u \in Users, locked[u] = "yes"
               PROVE  late[u] < Cardinality(Requests)
    BY DEF LockStopsAttempts
  <2>1. Cardinality(Requests) \in Nat
    BY AccountsAssumption, FS_CardinalityType
  <2> QED
    BY <2>1, GuessingFinite DEF LockInv, TypeInv, TypeOK
<1>3. Spec => []TypeInv
  BY TypeInit, TypeStep, PTL DEF Spec
<1> QED
  BY <1>1, <1>2, <1>3, LockInvStep, PTL DEF Spec

-----------------------------------------------------------------------------
(* The audit trail. *)

LEMMA AuditStep == TypeInv /\ AuditExplainsVersion /\ [Next]_vars => AuditExplainsVersion'
<1> SUFFICES ASSUME TypeInv, AuditExplainsVersion, [Next]_vars,
                    NEW u \in Users, Exists(u)'
             PROVE  \E i \in DOMAIN audit'[u] :
                      /\ audit'[u][i] # 0
                      /\ \A j \in (i + 1)..Len(audit'[u]) : audit'[u][j] = 0
                      /\ version'[u] = audit'[u][i] + (Len(audit'[u]) - i)
  BY DEF AuditExplainsVersion
<1> DEFINE Goal == \E i \in DOMAIN audit'[u] :
                      /\ audit'[u][i] # 0
                      /\ \A j \in (i + 1)..Len(audit'[u]) : audit'[u][j] = 0
                      /\ version'[u] = audit'[u][i] + (Len(audit'[u]) - i)
<1> USE AccountsAssumption DEF TypeInv, TypeOK
\* A change that logs the version it makes explains it by its own row.
<1>1. ASSUME NEW v \in 1..MaxChanges, audit'[u] = Append(audit[u], v), version'[u] = v
      PROVE  Goal
  <2> DEFINE last == Len(audit[u]) + 1
  <2>1. last \in Nat /\ Len(audit'[u]) = last /\ last \in DOMAIN audit'[u]
    BY <1>1
  <2>2. audit'[u][last] = v
    BY <1>1
  <2> HIDE DEF last
  <2>3. \A j \in (last + 1)..last : FALSE
    BY <2>1
  <2>4. v \in Nat /\ v # 0 /\ v = v + (last - last)
    BY <2>1
  <2> QED
    BY <1>1, <2>1, <2>2, <2>3, <2>4
\* A change that logs no version is counted on top of the row that explained.
<1>2. ASSUME Exists(u), audit'[u] = Append(audit[u], 0), version'[u] = version[u] + 1
      PROVE  Goal
  <2>1. PICK i \in DOMAIN audit[u] :
               /\ audit[u][i] # 0
               /\ \A j \in (i + 1)..Len(audit[u]) : audit[u][j] = 0
               /\ version[u] = audit[u][i] + (Len(audit[u]) - i)
    BY <1>2 DEF AuditExplainsVersion
  <2>2. i \in DOMAIN audit'[u] /\ audit'[u][i] = audit[u][i]
        /\ Len(audit'[u]) = Len(audit[u]) + 1
    BY <1>2
  <2>3. ASSUME NEW j \in (i + 1)..Len(audit'[u]) PROVE audit'[u][j] = 0
    <3>1. /\ audit[u] \in Seq(0..MaxChanges) /\ Len(audit[u]) \in Nat
          /\ i \in 1..Len(audit[u])
      OBVIOUS
    <3>2. j = Len(audit[u]) + 1 \/ (j \in (i + 1)..Len(audit[u]) /\ j \in 1..Len(audit[u]))
      BY <2>2, <3>1
    <3>3. CASE j = Len(audit[u]) + 1
      BY <1>2, <3>1, <3>3
    <3>4. CASE j \in (i + 1)..Len(audit[u]) /\ j \in 1..Len(audit[u])
      <4>1. audit'[u][j] = audit[u][j]
        BY <1>2, <3>1, <3>4
      <4> QED
        BY <2>1, <3>4, <4>1
    <3> QED
      BY <3>2, <3>3, <3>4
  <2>4. version'[u] = audit'[u][i] + (Len(audit'[u]) - i)
    <3>1. audit[u][i] \in Nat /\ Len(audit[u]) \in Nat /\ i \in Nat
      OBVIOUS
    <3> QED
      BY <1>2, <2>1, <2>2, <3>1
  <2> QED
    BY <2>1, <2>2, <2>3, <2>4
<1>3. ASSUME Exists(u), audit'[u] = audit[u], version'[u] = version[u]
      PROVE  Goal
  BY <1>3 DEF AuditExplainsVersion
<1>4. ASSUME NEW x \in Users, NEW n \in Names, NEW l \in Roles, CreateUser(x, n, l)
      PROVE  Goal
  <2>1. CASE x = u
    <3>1. 1 \in 1..MaxChanges /\ audit'[u] = Append(audit[u], 1) /\ version'[u] = 1
      BY <1>4, <2>1 DEF CreateUser, Logged
    <3> QED
      BY <1>1, <3>1
  <2>2. CASE x # u
    BY <1>3, <1>4, <2>2 DEF CreateUser, Logged, Exists
  <2> QED
    BY <2>1, <2>2
<1>5. ASSUME NEW x \in Users, NEW p \in Passwords, SetPassword(x, p)
      PROVE  Goal
  <2>1. CASE x = u
    BY <1>2, <1>5, <2>1 DEF SetPassword, Logged
  <2>2. CASE x # u
    BY <1>3, <1>5, <2>2 DEF SetPassword, Logged, Exists
  <2> QED
    BY <2>1, <2>2
<1>6. ASSUME NEW r \in Requests, WriteUpdate(r)
      PROVE  Goal
  <2>1. CASE req[r].u = u
    <3>1. version[u] + 1 \in 1..MaxChanges
      BY <1>6, <2>1 DEF WriteUpdate, Logged, Counted
    <3> QED
      BY <1>1, <1>6, <2>1, <3>1 DEF WriteUpdate, Logged
  <2>2. CASE req[r].u # u
    BY <1>3, <1>6, <2>2 DEF WriteUpdate, Logged, Exists, Remembered
  <2> QED
    BY <2>1, <2>2
<1>7. ASSUME NEW r \in Requests, WriteDisable(r)
      PROVE  Goal
  <2>1. CASE req[r].u = u
    <3>1. req[r].seen + 1 \in 1..MaxChanges
      <4>1. req[r].at # "idle" /\ Len(audit[u]) < MaxChanges
        BY <1>7, <2>1 DEF WriteDisable, Logged
      <4>2. req[r].seen <= Len(audit[u])
        BY <2>1, <4>1 DEF Counted
      <4>3. req[r].seen \in 0..MaxChanges /\ Len(audit[u]) \in Nat
        OBVIOUS
      <4> QED
        BY <4>1, <4>2, <4>3
    <3>2. audit'[u] = Append(audit[u], req[r].seen + 1) /\ version'[u] = req[r].seen + 1
      BY <1>7, <2>1 DEF WriteDisable, Logged
    <3> QED
      BY <1>1, <3>1, <3>2
  <2>2. CASE req[r].u # u
    BY <1>3, <1>7, <2>2 DEF WriteDisable, Logged, Exists, Remembered
  <2> QED
    BY <2>1, <2>2
<1>8. CASE UNCHANGED <<status, version, audit>>
  BY <1>3, <1>8 DEF Exists
<1> QED
  BY <1>4, <1>5, <1>6, <1>7, <1>8
     DEF Next, vars, users, LockRunsOut, Logout, SessionExpires, BeginUpdate, BeginDisable,
         BeginLogin, LoginFailure, LoginSuccess, Rollback

\* The audit trail explains the version of every user, whatever edits,
\* disables (with the version they computed) and password changes overlap.
THEOREM TrailExplains == Spec => []AuditExplainsVersion
<1>1. Init => AuditExplainsVersion
  BY DEF Init, AuditExplainsVersion, Exists
<1>2. Spec => []TypeInv
  BY TypeInit, TypeStep, PTL DEF Spec
<1> QED
  BY <1>1, <1>2, AuditStep, PTL DEF Spec

-----------------------------------------------------------------------------
(* Sessions. *)

LEMMA NeverResolvesAgain ==
  ASSUME TypeInv, [Next]_vars, NEW t \in Tokens, session[t] # "unused", ~Resolves(t)
  PROVE  ~Resolves(t)'
<1> USE DEF TypeInv, TypeOK, Owned, Exists, Resolves
<1>1. ASSUME NEW u \in Users, NEW n \in Names, NEW l \in Roles, CreateUser(u, n, l)
      PROVE  ~Resolves(t)'
  BY <1>1 DEF CreateUser
<1>2. ASSUME NEW x \in Tokens, Logout(x) \/ SessionExpires(x) PROVE ~Resolves(t)'
  BY <1>2 DEF Logout, SessionExpires, users
<1>3. ASSUME NEW r \in Requests, WriteDisable(r) PROVE ~Resolves(t)'
  BY <1>3 DEF WriteDisable, Remembered
<1>4. ASSUME NEW r \in Requests, NEW x \in Tokens, LoginSuccess(r, x) PROVE ~Resolves(t)'
  BY <1>4 DEF LoginSuccess
<1>5. CASE UNCHANGED <<status, session, owner>>
  BY <1>5
<1> QED
  BY <1>1, <1>2, <1>3, <1>4, <1>5
     DEF Next, vars, users, SetPassword, LockRunsOut, BeginUpdate, BeginDisable, BeginLogin,
         WriteUpdate, LoginFailure, Rollback

\* A token that has stopped standing for somebody never does so again.
THEOREM EndedForGood == Spec => EndedStaysEnded
<1>1. TypeInv /\ [Next]_vars =>
        [\A t \in Tokens : session[t] # "unused" /\ ~Resolves(t) => ~Resolves(t)']_vars
  BY NeverResolvesAgain
<1>2. Spec => []TypeInv
  BY TypeInit, TypeStep, PTL DEF Spec
<1> QED
  BY <1>1, <1>2, PTL DEF Spec, EndedStaysEnded
=============================================================================
