------------------------------ MODULE Migrations ------------------------------
(* The migration ledger (packages/platform/migrations_runner.py), what reads *)
(* it (the readiness probe of app_factory.py) and the authorization of a     *)
(* deployment against it (scripts/authorize_deployment.py,                   *)
(* deployment_authorization.py).                                             *)
(*                                                                           *)
(* The files are written one after the other, and may be edited; runners of  *)
(* apply_all() start, fail and die at any time.  A migration is plain DDL:   *)
(* it fails when it has been applied.  Version 0, the ledger itself, is      *)
(* always there.                                                             *)
EXTENDS Naturals, FiniteSets, Functions

CONSTANTS
  Runners,
  Hooked,          \* the runners that call apply_all with a pre- and postflight hook
  HooksOverlap,    \* whether such a runner may overlap with another one
  People,
  MaxFiles, MaxEdits, MaxAuthorizations    \* bounds

ASSUME MigrationsAssumption ==
  /\ Hooked \subseteq Runners /\ HooksOverlap \in BOOLEAN
  /\ MaxFiles \in Nat /\ MaxEdits \in Nat /\ MaxAuthorizations \in Nat

VARIABLES
  files,    \* the files: version -> checksum, the versions are 1..n
  ledger,   \* schema_migrations: version -> [checksum, pre, post]
  schema,   \* what the DDL has done: version -> checksum of the SQL that ran
  run,      \* what each runner has left to do
  auth, granted    \* an authorization under way; deployment_authorizations

vars == <<files, ledger, schema, run, auth, granted>>

Row(sum, pre, post) == [checksum |-> sum, pre |-> pre, post |-> post]
Todo(at, left) == [at |-> at, left |-> left]
Resting == Todo("idle", << >>)
NoAuth == [at |-> "idle", initiator |-> "none", approver |-> "none", version |-> 0]

Init ==
  /\ files = << >> /\ ledger = << >> /\ schema = << >>
  /\ run = [r \in Runners |-> Resting]
  /\ auth = NoAuth /\ granted = {}

Go(r, rec) == run' = [run EXCEPT ![r] = rec]
Put(f, v, x) == [u \in DOMAIN f \cup {v} |-> IF u = v THEN x ELSE f[u]]

-----------------------------------------------------------------------------
(* The files. *)

\* A migration gets the next number, "monotonically increasing".
AddFile ==
  /\ Cardinality(DOMAIN files) < MaxFiles
  /\ files' = Put(files, Cardinality(DOMAIN files) + 1, 1)
  /\ UNCHANGED <<ledger, schema, run, auth, granted>>

\* A file is edited, applied or not.
EditFile(v) ==
  /\ files[v] <= MaxEdits
  /\ files' = [files EXCEPT ![v] = @ + 1]
  /\ UNCHANGED <<ledger, schema, run, auth, granted>>

-----------------------------------------------------------------------------
(* apply_all. *)

\* A form that takes every version with a row for applied.
Applied_AnyRow == DOMAIN ledger

\* A quarantined migration has a row but has not run.
Applied == {v \in DOMAIN ledger : ledger[v].pre # "failed"}

Mismatch == \E v \in Applied \cap DOMAIN files : ledger[v].checksum # files[v]

Alone(r) ==
  \A q \in Runners \ {r} : run[q].at = "idle" \/ (r \notin Hooked /\ q \notin Hooked)

\* pending(): the list is read once, with the text of the files.  An
\* applied file that was edited raises MigrationChecksumMismatch.
BeginApply(r) ==
  /\ run[r].at = "idle" /\ ~Mismatch /\ DOMAIN files \ Applied # {}
  /\ HooksOverlap \/ Alone(r)
  /\ Go(r, Todo("preflight", Restrict(files, DOMAIN files \ Applied)))
  /\ UNCHANGED <<files, ledger, schema, auth, granted>>

First(r) == CHOOSE v \in DOMAIN run[r].left : \A u \in DOMAIN run[r].left : v <= u

\* The preflight hook agrees, or there is none.
Preflight(r) ==
  /\ run[r].at = "preflight"
  /\ Go(r, Todo("ddl", run[r].left))
  /\ UNCHANGED <<files, ledger, schema, auth, granted>>

\* It does not: the migration is quarantined and the run ends (PreflightFailed).
Quarantine(r) ==
  /\ run[r].at = "preflight" /\ r \in Hooked
  /\ ledger' = Put(ledger, First(r), Row(run[r].left[First(r)], "failed", "skipped"))
  /\ Go(r, Resting)
  /\ UNCHANGED <<files, schema, auth, granted>>

\* A failed postflight ends the run, after the commit (PostflightFailed).
AfterPostflight(r, post) ==
  IF post = "failed" \/ DOMAIN run[r].left = {First(r)} THEN Resting
  ELSE Todo("preflight", Restrict(run[r].left, DOMAIN run[r].left \ {First(r)}))

\* A form that writes the row before, and apart from, the DDL.
Apply_RowFirst(r, post) ==
  LET v == First(r)  sum == run[r].left[v] IN
  /\ run[r].at = "ddl" /\ (post = "failed" => r \in Hooked)
  /\ ledger' = Put(ledger, v, Row(sum, "passed", post))
  /\ schema' \in {schema, Put(schema, v, sum)}
  /\ Go(r, IF schema' = schema THEN Resting ELSE AfterPostflight(r, post))
  /\ UNCHANGED <<files, auth, granted>>

\* The DDL, the postflight hook and the row, in one transaction.
Apply(r, post) ==
  LET v == First(r)  sum == run[r].left[v] IN
  /\ run[r].at = "ddl" /\ v \notin DOMAIN schema
  /\ post = "failed" => r \in Hooked
  /\ schema' = Put(schema, v, sum)
  /\ ledger' = Put(ledger, v, Row(sum, "passed", post))
  /\ Go(r, AfterPostflight(r, post))
  /\ UNCHANGED <<files, auth, granted>>

\* The DDL fails, or the process dies: nothing of the version is kept.
Abort(r) ==
  /\ run[r].at # "idle"
  /\ Go(r, Resting)
  /\ UNCHANGED <<files, ledger, schema, auth, granted>>

-----------------------------------------------------------------------------
(* What reads the ledger. *)

Good == {v \in DOMAIN ledger : ledger[v].pre # "failed" /\ ledger[v].post # "failed"}

\* current_version(): the highest version neither of whose checks failed.
CurrentVersion == CHOOSE v \in Good \cup {0} : \A u \in Good : u <= v

\* expected_schema_version: the code was built for all of its files.
Expected == Cardinality(DOMAIN files)

\* The readiness probe answers 200; authorize() makes the same comparison.
Ready == CurrentVersion = Expected

VerifyDistinctApprover(initiator, approver) == initiator # approver

\* The row of an authorization.
Authorization(id, a) ==
  [id |-> id, initiator |-> a.initiator, approver |-> a.approver, version |-> a.version]

\* authorize() up to its comparison of the versions: the approver is not
\* the initiator and the manifest is of the commit.
BeginAuthorize(i, a) ==
  /\ auth.at = "idle" /\ VerifyDistinctApprover(i, a) /\ Ready
  /\ Cardinality(granted) < MaxAuthorizations
  /\ auth' = [at |-> "record", initiator |-> i, approver |-> a, version |-> CurrentVersion]
  /\ UNCHANGED <<files, ledger, schema, run, granted>>

\* record_authorization, in a transaction of its own.
RecordAuthorization ==
  /\ auth.at = "record"
  /\ granted' = granted \cup {Authorization(Cardinality(granted) + 1, auth)}
  /\ auth' = NoAuth
  /\ UNCHANGED <<files, ledger, schema, run>>

-----------------------------------------------------------------------------
RunnerStep(r) ==
  \/ BeginApply(r) \/ Preflight(r) \/ Quarantine(r) \/ Abort(r)
  \/ \E post \in {"passed", "failed"} : Apply(r, post)

Next ==
  \/ AddFile
  \/ \E v \in DOMAIN files : EditFile(v)
  \/ \E r \in Runners : RunnerStep(r)
  \/ \E i, a \in People : BeginAuthorize(i, a)
  \/ RecordAuthorization

Spec == Init /\ [][Next]_vars

-----------------------------------------------------------------------------
(* Properties. *)

Checks == {"passed", "failed", "skipped"}
RowType == [checksum : Nat, pre : Checks, post : Checks]

TypeOK ==
  /\ DOMAIN files = 1..Cardinality(DOMAIN files) /\ \A v \in DOMAIN files : files[v] \in Nat
  /\ DOMAIN ledger \subseteq DOMAIN files /\ \A v \in DOMAIN ledger : ledger[v] \in RowType
  /\ DOMAIN schema \subseteq DOMAIN files
  /\ \A r \in Runners : DOMAIN run[r].left \subseteq DOMAIN files
  /\ \A g \in granted : g.initiator # g.approver

\* The ledger tells what happened to the schema, whoever ran, failed or died
\* in the middle: a version is recorded as applied exactly when its DDL has
\* been committed, with the checksum of the text that ran, and a quarantined
\* version has not touched the schema (MigrationRunner.apply_all).
LedgerTellsTruth ==
  /\ Applied = DOMAIN schema
  /\ \A v \in Applied : ledger[v].checksum = schema[v]

\* No gap below the current version: when the probe, or an authorization,
\* relies on version v, the DDL of every version up to v has been committed,
\* although runs stop at a quarantined version and start again
\* (current_version, pending).
NoGapBelowCurrent ==
  \A v \in {CurrentVersion} \cup {g.version : g \in granted} : 1..v \subseteq DOMAIN schema
=============================================================================
