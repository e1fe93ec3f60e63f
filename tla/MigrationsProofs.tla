--------------------------- MODULE MigrationsProofs ---------------------------
(* The ledger of the migrations tells the truth, for any number of files,    *)
(* runners, edits and authorizations.                                        *)
EXTENDS Migrations, FiniteSetTheorems, WellFoundedInduction, TLAPS

-----------------------------------------------------------------------------
(* Least and greatest versions. *)

\* A list of versions that is not empty has a first one.
LEMMA LeastVersion ==
  ASSUME NEW S \in SUBSET Nat, S # {}
  PROVE  \E v \in S : \A u \in S : v <= u
<1>1. PICK v \in S : \A u \in S : ~(<<u, v>> \in OpToRel(<, Nat))
  BY NatLessThanWellFounded, WFMin, Zenon
<1>2. \A u \in S : ~(u < v)
  BY <1>1 DEF OpToRel
<1> QED BY <1>2

\* A set of versions up to n, with 0 in it, has a last one.
LEMMA GreatestVersion ==
  ASSUME NEW n \in Nat, NEW S \in SUBSET (0..n), S # {}
  PROVE  \E v \in S : \A u \in S : u <= v
<1> DEFINE Gaps == {n - v : v \in S}
<1>0. \A v \in S : n - v \in Nat
  OBVIOUS
<1>1. Gaps \in SUBSET Nat /\ Gaps # {}
  BY <1>0, Zenon
<1>2. PICK g \in Gaps : \A h \in Gaps : g <= h
  BY <1>1, LeastVersion, Zenon
<1>3. PICK v \in S : g = n - v
  BY <1>2
<1>4. ASSUME NEW u \in S PROVE u <= v
  <2>1. g <= n - u
    BY <1>2
  <2> QED BY <2>1, <1>3
<1> QED BY <1>4

-----------------------------------------------------------------------------
(* The invariant. *)

\* The files are numbered without a gap, and rows, DDL and plans are of files.
Numbered ==
  /\ \E n \in Nat : DOMAIN files = 1..n
  /\ DOMAIN ledger \subseteq DOMAIN files
  /\ DOMAIN schema \subseteq DOMAIN files
  /\ DOMAIN run = Runners
  /\ \A r \in Runners :
       /\ DOMAIN run[r].left \subseteq DOMAIN files
       /\ run[r].at # "idle" => DOMAIN run[r].left # {}

\* A version without a failed preflight has been run.
RowsRan == \A v \in Applied : v \in DOMAIN schema

\* The DDL that ran is a prefix of the files.
SchemaIsPrefix == \A v \in DOMAIN schema : 1..v \subseteq DOMAIN schema

\* What comes before a version that a runner has still to apply has been
\* applied or comes first in its list.
NothingSkipped ==
  \A r \in Runners : run[r].at # "idle" =>
    \A v \in DOMAIN run[r].left : \A u \in 1..v :
      u \in DOMAIN run[r].left \/ u \in DOMAIN schema

\* What an authorization relies on has run.
AuthorizedRan ==
  /\ auth.at = "record" => 1..auth.version \subseteq DOMAIN schema
  /\ \A g \in granted : 1..g.version \subseteq DOMAIN schema

PrefixInv == Numbered /\ RowsRan /\ SchemaIsPrefix /\ NothingSkipped /\ AuthorizedRan

-----------------------------------------------------------------------------
\* The first version of a list is in the list.
LEMMA FirstIsFirst ==
  ASSUME Numbered, NEW r \in Runners, run[r].at # "idle"
  PROVE  /\ First(r) \in DOMAIN run[r].left
         /\ \A u \in DOMAIN run[r].left : First(r) <= u
<1>1. DOMAIN run[r].left \in SUBSET Nat /\ DOMAIN run[r].left # {}
  BY DEF Numbered
<1>2. \E v \in DOMAIN run[r].left : \A u \in DOMAIN run[r].left : v <= u
  BY <1>1, LeastVersion, Zenon
<1> QED BY <1>2, Zenon DEF First

\* Every version up to the current one has run.
LEMMA CurrentHasRun ==
  ASSUME Numbered, RowsRan, SchemaIsPrefix
  PROVE  CurrentVersion \in Nat /\ 1..CurrentVersion \subseteq DOMAIN schema
<1>1. PICK n \in Nat : DOMAIN files = 1..n
  BY DEF Numbered
<1>2. Good \cup {0} \in SUBSET (0..n) /\ Good \cup {0} # {}
  BY <1>1 DEF Good, Numbered
<1>3. \E v \in Good \cup {0} : \A u \in Good \cup {0} : u <= v
  BY <1>1, <1>2, GreatestVersion, Zenon
<1>4. CurrentVersion \in Good \cup {0}
  BY <1>3, Zenon DEF CurrentVersion
<1>5. \A v \in Good : v \in DOMAIN schema
  BY DEF Good, RowsRan, Applied
<1> QED BY <1>2, <1>4, <1>5 DEF SchemaIsPrefix

LEMMA PrefixInitially == Init => PrefixInv
<1> SUFFICES ASSUME Init PROVE PrefixInv
  OBVIOUS
<1> USE DEF Init
<1>1. DOMAIN files = {} /\ DOMAIN ledger = {} /\ DOMAIN schema = {}
  OBVIOUS
<1>2. DOMAIN files = 1..0
  BY <1>1
<1>3. \A r \in Runners : run[r] = Todo("idle", << >>)
  BY DEF Resting
<1>4. \A r \in Runners : run[r].at = "idle" /\ DOMAIN run[r].left = {}
  BY <1>3 DEF Todo
<1>5. Numbered
  BY <1>1, <1>2, <1>4 DEF Numbered
<1>6. RowsRan /\ SchemaIsPrefix
  BY <1>1 DEF RowsRan, Applied, SchemaIsPrefix
<1>7. NothingSkipped
  BY <1>4 DEF NothingSkipped
<1>8. AuthorizedRan
  BY DEF AuthorizedRan, NoAuth
<1> QED BY <1>5, <1>6, <1>7, <1>8 DEF PrefixInv

-----------------------------------------------------------------------------
(* Every step keeps it. *)

LEMMA FilesKeepPrefix ==
  ASSUME PrefixInv,
         AddFile \/ \E v \in DOMAIN files : EditFile(v)
  PROVE  PrefixInv'
<1>1. PICK n \in Nat : DOMAIN files = 1..n
  BY DEF PrefixInv, Numbered
<1>2. /\ UNCHANGED <<ledger, schema, run, auth, granted>>
      /\ \E m \in Nat : DOMAIN files' = 1..m
      /\ DOMAIN files \subseteq DOMAIN files'
  <2>1. CASE AddFile
    <3>1. Cardinality(DOMAIN files) = n
      BY <1>1, FS_Interval
    <3>2. DOMAIN files' = 1..n \cup {n + 1}
      BY <2>1, <3>1, <1>1 DEF AddFile, Put
    <3>3. DOMAIN files' = 1..(n + 1)
      BY <3>2
    <3> QED BY <2>1, <3>2, <3>3, <1>1 DEF AddFile
  <2>2. CASE \E v \in DOMAIN files : EditFile(v)
    <3>1. DOMAIN files' = DOMAIN files
      BY <2>2 DEF EditFile
    <3> QED BY <2>2, <3>1, <1>1 DEF EditFile
  <2> QED BY <2>1, <2>2
<1>3. Numbered'
  BY <1>2 DEF PrefixInv, Numbered
<1>4. RowsRan' /\ SchemaIsPrefix' /\ NothingSkipped' /\ AuthorizedRan'
  BY <1>2 DEF PrefixInv, RowsRan, Applied, SchemaIsPrefix, NothingSkipped, AuthorizedRan
<1> QED BY <1>3, <1>4 DEF PrefixInv

LEMMA BeginKeepsPrefix ==
  ASSUME PrefixInv, NEW r \in Runners, BeginApply(r)
  PROVE  PrefixInv'
<1>1. PICK n \in Nat : DOMAIN files = 1..n
  BY DEF PrefixInv, Numbered
<1>2. /\ UNCHANGED <<files, ledger, schema, auth, granted>>
      /\ DOMAIN run' = Runners
      /\ run'[r] = Todo("preflight", Restrict(files, DOMAIN files \ Applied))
      /\ \A q \in Runners \ {r} : run'[q] = run[q]
  BY DEF BeginApply, Go, PrefixInv, Numbered
<1>3. run'[r].at = "preflight" /\ DOMAIN run'[r].left = DOMAIN files \ Applied
  BY <1>2 DEF Todo, Restrict
<1>4. DOMAIN files \ Applied # {}
  BY DEF BeginApply
<1>5. Numbered'
  BY <1>1, <1>2, <1>3, <1>4 DEF PrefixInv, Numbered
<1>6. RowsRan' /\ SchemaIsPrefix' /\ AuthorizedRan'
  BY <1>2 DEF PrefixInv, RowsRan, Applied, SchemaIsPrefix, AuthorizedRan
<1>7. NothingSkipped'
  <2>1. \A v \in DOMAIN files \ Applied : \A u \in 1..v :
          u \in DOMAIN files \ Applied \/ u \in DOMAIN schema
    BY <1>1 DEF PrefixInv, RowsRan
  <2> QED BY <1>2, <1>3, <2>1 DEF PrefixInv, NothingSkipped
<1> QED BY <1>5, <1>6, <1>7 DEF PrefixInv

LEMMA QuietStepsKeepPrefix ==
  ASSUME PrefixInv, NEW r \in Runners, Preflight(r) \/ Abort(r)
  PROVE  PrefixInv'
<1>1. /\ UNCHANGED <<files, ledger, schema, auth, granted>>
      /\ run[r].at # "idle"
      /\ DOMAIN run' = Runners
      /\ run'[r] \in {Todo("ddl", run[r].left), Resting}
      /\ \A q \in Runners \ {r} : run'[q] = run[q]
  BY DEF Preflight, Abort, Go, PrefixInv, Numbered
<1>2. \/ run'[r].at = "ddl" /\ run'[r].left = run[r].left
      \/ run'[r].at = "idle" /\ DOMAIN run'[r].left = {}
  BY <1>1 DEF Todo, Resting
<1>3. Numbered'
  BY <1>1, <1>2 DEF PrefixInv, Numbered
<1>4. RowsRan' /\ SchemaIsPrefix' /\ AuthorizedRan'
  BY <1>1 DEF PrefixInv, RowsRan, Applied, SchemaIsPrefix, AuthorizedRan
<1>5. NothingSkipped'
  BY <1>1, <1>2 DEF PrefixInv, NothingSkipped
<1> QED BY <1>3, <1>4, <1>5 DEF PrefixInv

LEMMA QuarantineKeepsPrefix ==
  ASSUME PrefixInv, NEW r \in Runners, Quarantine(r)
  PROVE  PrefixInv'
<1>1. First(r) \in DOMAIN run[r].left
  BY FirstIsFirst DEF PrefixInv, Quarantine
<1>2. /\ UNCHANGED <<files, schema, auth, granted>>
      /\ DOMAIN run' = Runners
      /\ run'[r] = Resting
      /\ \A q \in Runners \ {r} : run'[q] = run[q]
  BY DEF Quarantine, Go, PrefixInv, Numbered
<1>3. run'[r].at = "idle" /\ DOMAIN run'[r].left = {}
  BY <1>2 DEF Todo, Resting
<1>4. /\ DOMAIN ledger' = DOMAIN ledger \cup {First(r)}
      /\ ledger'[First(r)].pre = "failed"
      /\ \A v \in DOMAIN ledger \ {First(r)} : ledger'[v] = ledger[v]
  BY DEF Quarantine, Put, Row
<1>5. Numbered'
  BY <1>1, <1>2, <1>3, <1>4 DEF PrefixInv, Numbered
<1>6. RowsRan'
  BY <1>2, <1>4 DEF PrefixInv, RowsRan, Applied
<1>7. SchemaIsPrefix' /\ AuthorizedRan'
  BY <1>2 DEF PrefixInv, SchemaIsPrefix, AuthorizedRan
<1>8. NothingSkipped'
  BY <1>2, <1>3 DEF PrefixInv, NothingSkipped
<1> QED BY <1>5, <1>6, <1>7, <1>8 DEF PrefixInv

LEMMA ApplyKeepsPrefix ==
  ASSUME PrefixInv, NEW r \in Runners, NEW post, Apply(r, post)
  PROVE  PrefixInv'
<1> DEFINE v == First(r)
<1>1. /\ v \in DOMAIN run[r].left
      /\ \A u \in DOMAIN run[r].left : v <= u
  BY FirstIsFirst DEF PrefixInv, Apply
<1>2. /\ UNCHANGED <<files, auth, granted>>
      /\ run[r].at # "idle"
      /\ DOMAIN run' = Runners
      /\ run'[r] = AfterPostflight(r, post)
      /\ \A q \in Runners \ {r} : run'[q] = run[q]
  BY DEF Apply, Go, PrefixInv, Numbered
<1>3. /\ DOMAIN schema' = DOMAIN schema \cup {v}
      /\ DOMAIN ledger' = DOMAIN ledger \cup {v}
      /\ \A u \in DOMAIN ledger \ {v} : ledger'[u] = ledger[u]
  BY DEF Apply, Put
<1>4. \/ run'[r].at = "idle" /\ DOMAIN run'[r].left = {}
      \/ /\ DOMAIN run'[r].left = DOMAIN run[r].left \ {v}
         /\ DOMAIN run'[r].left # {}
  BY <1>1, <1>2 DEF AfterPostflight, Resting, Todo, Restrict
<1>5. DOMAIN run[r].left \subseteq DOMAIN files /\ DOMAIN files \subseteq Nat
  BY DEF PrefixInv, Numbered
<1>6. Numbered'
  BY <1>1, <1>2, <1>3, <1>4 DEF PrefixInv, Numbered
<1>7. RowsRan'
  BY <1>3 DEF PrefixInv, RowsRan, Applied
<1>8. SchemaIsPrefix'
  <2>1. \A u \in 1..v : u \in DOMAIN run[r].left \/ u \in DOMAIN schema
    BY <1>1, <1>2 DEF PrefixInv, NothingSkipped
  <2>2. \A u \in 1..v : u = v \/ u \in DOMAIN schema
    BY <1>1, <1>5, <2>1
  <2> QED BY <1>3, <2>2 DEF PrefixInv, SchemaIsPrefix
<1>9. NothingSkipped'
  <2>1. \A q \in Runners \ {r} : run'[q].at # "idle" =>
          \A w \in DOMAIN run'[q].left : \A u \in 1..w :
            u \in DOMAIN run'[q].left \/ u \in DOMAIN schema'
    BY <1>2, <1>3 DEF PrefixInv, NothingSkipped
  <2>2. run'[r].at # "idle" =>
          \A w \in DOMAIN run'[r].left : \A u \in 1..w :
            u \in DOMAIN run'[r].left \/ u \in DOMAIN schema'
    BY <1>2, <1>3, <1>4 DEF PrefixInv, NothingSkipped
  <2> QED BY <2>1, <2>2 DEF NothingSkipped
<1>10. AuthorizedRan'
  BY <1>2, <1>3 DEF PrefixInv, AuthorizedRan
<1> QED BY <1>6, <1>7, <1>8, <1>9, <1>10 DEF PrefixInv

LEMMA AuthorizingKeepsPrefix ==
  ASSUME PrefixInv,
         RecordAuthorization \/ \E i, a \in People : BeginAuthorize(i, a)
  PROVE  PrefixInv'
<1>1. UNCHANGED <<files, ledger, schema, run>>
  BY DEF RecordAuthorization, BeginAuthorize
<1>2. Numbered' /\ RowsRan' /\ SchemaIsPrefix' /\ NothingSkipped'
  BY <1>1 DEF PrefixInv, Numbered, RowsRan, Applied, SchemaIsPrefix, NothingSkipped
<1>3. AuthorizedRan'
  <2>1. CASE RecordAuthorization
    <3>1. /\ auth.at = "record" /\ auth' = NoAuth
          /\ granted' = granted \cup {Authorization(Cardinality(granted) + 1, auth)}
      BY <2>1 DEF RecordAuthorization
    <3>2. \A id : Authorization(id, auth).version = auth.version
      BY DEF Authorization
    <3>3. auth'.at # "record"
      BY <3>1 DEF NoAuth
    <3> QED BY <1>1, <3>1, <3>2, <3>3 DEF PrefixInv, AuthorizedRan
  <2>2. CASE \E i, a \in People : BeginAuthorize(i, a)
    <3>1. auth'.version = CurrentVersion /\ granted' = granted
      BY <2>2 DEF BeginAuthorize
    <3>2. 1..CurrentVersion \subseteq DOMAIN schema
      BY CurrentHasRun DEF PrefixInv
    <3> QED BY <1>1, <3>1, <3>2 DEF PrefixInv, AuthorizedRan
  <2> QED BY <2>1, <2>2
<1> QED BY <1>2, <1>3 DEF PrefixInv

LEMMA PrefixHolds == Spec => []PrefixInv
<1>1. PrefixInv /\ [Next]_vars => PrefixInv'
  <2> SUFFICES ASSUME PrefixInv, [Next]_vars PROVE PrefixInv'
    OBVIOUS
  <2>1. CASE AddFile \/ \E v \in DOMAIN files : EditFile(v)
    BY <2>1, FilesKeepPrefix
  <2>2. ASSUME NEW r \in Runners, RunnerStep(r) PROVE PrefixInv'
    BY <2>2, BeginKeepsPrefix, QuietStepsKeepPrefix, QuarantineKeepsPrefix, ApplyKeepsPrefix
       DEF RunnerStep
  <2>3. CASE RecordAuthorization \/ \E i, a \in People : BeginAuthorize(i, a)
    BY <2>3, AuthorizingKeepsPrefix
  <2>4. CASE UNCHANGED vars
    BY <2>4 DEF vars, PrefixInv, Numbered, RowsRan, Applied, SchemaIsPrefix, NothingSkipped,
                AuthorizedRan
  <2> QED BY <2>1, <2>2, <2>3, <2>4 DEF Next
<1> QED BY <1>1, PrefixInitially, PTL DEF Spec

\* No gap below the version that current_version reports or an authorization
\* was given for, whoever runs, overlaps, fails or dies.
THEOREM NoGap == Spec => []NoGapBelowCurrent
<1>1. PrefixInv => NoGapBelowCurrent
  BY CurrentHasRun DEF PrefixInv, NoGapBelowCurrent, AuthorizedRan
<1> QED BY <1>1, PrefixHolds, PTL

-----------------------------------------------------------------------------
(* The ledger tells the truth while no runner with hooks overlaps another. *)

\* A runner with hooks is the only one at work.
HookedAlone ==
  \A r \in Hooked : \A q \in Runners \ {r} : run[r].at # "idle" => run[q].at = "idle"

\* What it has left to do has not been done: its preflight cannot quarantine
\* a version that has been applied meanwhile.
HookedFresh ==
  \A r \in Hooked : run[r].at # "idle" => \A v \in DOMAIN run[r].left : v \notin Applied

TruthInv == LedgerTellsTruth /\ HookedAlone /\ HookedFresh

LEMMA BeginKeepsTruth ==
  ASSUME ~HooksOverlap, PrefixInv, TruthInv, NEW r \in Runners, BeginApply(r)
  PROVE  TruthInv'
<1>1. /\ UNCHANGED <<ledger, schema>>
      /\ Alone(r) /\ run[r].at = "idle"
      /\ run'[r] = Todo("preflight", Restrict(files, DOMAIN files \ Applied))
      /\ \A q \in Runners \ {r} : run'[q] = run[q]
  BY DEF BeginApply, Go, PrefixInv, Numbered
<1>2. DOMAIN run'[r].left = DOMAIN files \ Applied
  BY <1>1 DEF Todo, Restrict
<1>3. Applied' = Applied /\ LedgerTellsTruth'
  BY <1>1 DEF TruthInv, LedgerTellsTruth, Applied
<1>4. HookedAlone'
  BY <1>1, MigrationsAssumption DEF TruthInv, HookedAlone, Alone
<1>5. HookedFresh'
  BY <1>1, <1>2, <1>3, MigrationsAssumption DEF TruthInv, HookedFresh
<1> QED BY <1>3, <1>4, <1>5 DEF TruthInv

LEMMA QuietStepsKeepTruth ==
  ASSUME PrefixInv, TruthInv, NEW r \in Runners, Preflight(r) \/ Abort(r)
  PROVE  TruthInv'
<1>1. /\ UNCHANGED <<ledger, schema>>
      /\ run[r].at # "idle"
      /\ run'[r] \in {Todo("ddl", run[r].left), Resting}
      /\ \A q \in Runners \ {r} : run'[q] = run[q]
  BY DEF Preflight, Abort, Go, PrefixInv, Numbered
<1>2. run'[r].at = "idle" \/ run'[r].left = run[r].left
  BY <1>1 DEF Todo, Resting
<1>3. Applied' = Applied /\ LedgerTellsTruth'
  BY <1>1 DEF TruthInv, LedgerTellsTruth, Applied
<1>4. HookedAlone' /\ HookedFresh'
  BY <1>1, <1>2, <1>3, MigrationsAssumption DEF TruthInv, HookedAlone, HookedFresh
<1> QED BY <1>3, <1>4 DEF TruthInv

LEMMA QuarantineKeepsTruth ==
  ASSUME PrefixInv, TruthInv, NEW r \in Runners, Quarantine(r)
  PROVE  TruthInv'
<1> DEFINE v == First(r)
<1>1. /\ r \in Hooked /\ run[r].at # "idle" /\ run'[r] = Resting
      /\ \A q \in Runners \ {r} : run'[q] = run[q]
      /\ UNCHANGED schema
  BY DEF Quarantine, Go, PrefixInv, Numbered
<1>2. v \in DOMAIN run[r].left
  BY <1>1, FirstIsFirst DEF PrefixInv
<1>3. v \notin Applied
  BY <1>1, <1>2 DEF TruthInv, HookedFresh
<1>4. /\ DOMAIN ledger' = DOMAIN ledger \cup {v}
      /\ ledger'[v].pre = "failed"
      /\ \A u \in DOMAIN ledger \ {v} : ledger'[u] = ledger[u]
  BY DEF Quarantine, Put, Row
<1>5. Applied' = Applied /\ \A u \in Applied : ledger'[u] = ledger[u]
  BY <1>3, <1>4 DEF Applied
<1>6. LedgerTellsTruth'
  BY <1>1, <1>5 DEF TruthInv, LedgerTellsTruth
<1>7. run'[r].at = "idle"
  BY <1>1 DEF Resting, Todo
<1>8. HookedAlone' /\ HookedFresh'
  BY <1>1, <1>5, <1>7, MigrationsAssumption DEF TruthInv, HookedAlone, HookedFresh
<1> QED BY <1>6, <1>8 DEF TruthInv

LEMMA ApplyKeepsTruth ==
  ASSUME PrefixInv, TruthInv, NEW r \in Runners, NEW post, Apply(r, post)
  PROVE  TruthInv'
<1> DEFINE v == First(r)
<1>1. /\ run[r].at # "idle" /\ run'[r] = AfterPostflight(r, post)
      /\ \A q \in Runners \ {r} : run'[q] = run[q]
  BY DEF Apply, Go, PrefixInv, Numbered
<1>2. v \in DOMAIN run[r].left
  BY <1>1, FirstIsFirst DEF PrefixInv
<1>3. /\ DOMAIN ledger' = DOMAIN ledger \cup {v}
      /\ DOMAIN schema' = DOMAIN schema \cup {v}
      /\ ledger'[v].pre = "passed" /\ ledger'[v].checksum = schema'[v]
      /\ \A u \in DOMAIN ledger \ {v} : ledger'[u] = ledger[u]
      /\ \A u \in DOMAIN schema \ {v} : schema'[u] = schema[u]
  BY DEF Apply, Put, Row
<1>4. Applied' = Applied \cup {v}
  BY <1>3 DEF Applied
<1>5. LedgerTellsTruth'
  <2>1. Applied' = DOMAIN schema'
    BY <1>3, <1>4 DEF TruthInv, LedgerTellsTruth
  <2>2. ASSUME NEW u \in Applied' PROVE ledger'[u].checksum = schema'[u]
    <3>1. CASE u = v
      BY <3>1, <1>3
    <3>2. CASE u # v
      <4>1. u \in Applied /\ u \in DOMAIN ledger \ {v} /\ u \in DOMAIN schema \ {v}
        BY <3>2, <1>4 DEF TruthInv, LedgerTellsTruth, Applied
      <4> QED BY <4>1, <1>3 DEF TruthInv, LedgerTellsTruth
    <3> QED BY <3>1, <3>2
  <2> QED BY <2>1, <2>2 DEF LedgerTellsTruth
<1>6. \/ run'[r].at = "idle"
      \/ DOMAIN run'[r].left = DOMAIN run[r].left \ {v}
  BY <1>1 DEF AfterPostflight, Resting, Todo, Restrict
<1>7. HookedAlone'
  BY <1>1, MigrationsAssumption DEF TruthInv, HookedAlone
<1>8. HookedFresh'
  <2> SUFFICES ASSUME NEW q \in Hooked, run'[q].at # "idle", NEW u \in DOMAIN run'[q].left
               PROVE  u \notin Applied'
    BY DEF HookedFresh
  <2>1. CASE q = r
    BY <2>1, <1>1, <1>4, <1>6 DEF TruthInv, HookedFresh
  <2>2. CASE q # r
    BY <2>2, <1>1, MigrationsAssumption DEF TruthInv, HookedAlone
  <2> QED BY <2>1, <2>2
<1> QED BY <1>5, <1>7, <1>8 DEF TruthInv

\* A version is recorded as applied exactly when its DDL has been committed,
\* with the checksum of the text that ran, although runners overlap, fail
\* and die; only a runner with hooks has to be alone.
THEOREM LedgerIsTrue ==
  ASSUME ~HooksOverlap
  PROVE  Spec => []LedgerTellsTruth
<1>1. Init => TruthInv
  <2> SUFFICES ASSUME Init PROVE TruthInv
    OBVIOUS
  <2>1. \A r \in Runners : run[r] = Todo("idle", << >>)
    BY DEF Init, Resting
  <2>2. \A r \in Runners : run[r].at = "idle"
    BY <2>1 DEF Todo
  <2>3. DOMAIN ledger = {} /\ DOMAIN schema = {}
    BY DEF Init
  <2>4. LedgerTellsTruth
    BY <2>3 DEF LedgerTellsTruth, Applied
  <2> QED BY <2>2, <2>4, MigrationsAssumption DEF TruthInv, HookedAlone, HookedFresh
<1>2. PrefixInv /\ TruthInv /\ [Next]_vars => TruthInv'
  <2> SUFFICES ASSUME PrefixInv, TruthInv, [Next]_vars PROVE TruthInv'
    OBVIOUS
  <2>1. CASE UNCHANGED <<ledger, schema, run>>
    BY <2>1 DEF TruthInv, LedgerTellsTruth, Applied, HookedAlone, HookedFresh
  <2>2. ASSUME NEW r \in Runners, RunnerStep(r) PROVE TruthInv'
    BY <2>2, BeginKeepsTruth, QuietStepsKeepTruth, QuarantineKeepsTruth, ApplyKeepsTruth
       DEF RunnerStep
  <2> QED BY <2>1, <2>2 DEF Next, vars, AddFile, EditFile, BeginAuthorize, RecordAuthorization
<1>3. TruthInv => LedgerTellsTruth
  BY DEF TruthInv
<1> QED BY <1>1, <1>2, <1>3, PrefixHolds, PTL DEF Spec

-----------------------------------------------------------------------------
(* Type correctness, and with it that nobody approves an own deployment. *)

\* What the lists of the runners and the authorization under way hold.
LeftTyped ==
  \A r \in Runners : \A v \in DOMAIN run[r].left : run[r].left[v] \in Nat
UnderWayTyped == auth.at = "record" => auth.initiator # auth.approver
FilesTyped == \A v \in DOMAIN files : files[v] \in Nat
RowsTyped == \A v \in DOMAIN ledger : ledger[v] \in RowType
ApproverDiffers == \A g \in granted : g.initiator # g.approver

MigrationsTypeInv == FilesTyped /\ RowsTyped /\ LeftTyped /\ UnderWayTyped /\ ApproverDiffers

LEMMA RowIsTyped ==
  ASSUME NEW sum \in Nat, NEW pre \in Checks, NEW post \in Checks
  PROVE  Row(sum, pre, post) \in RowType
BY DEF Row, RowType

\* A list that is part of typed ones is typed.
LEMMA RestrictTyped ==
  ASSUME NEW f, NEW S, S \subseteq DOMAIN f, \A v \in DOMAIN f : f[v] \in Nat
  PROVE  \A v \in DOMAIN Restrict(f, S) : Restrict(f, S)[v] \in Nat
BY DEF Restrict

LEMMA RunnersKeepTypes ==
  ASSUME PrefixInv, MigrationsTypeInv, NEW r \in Runners, RunnerStep(r)
  PROVE  MigrationsTypeInv'
<1>1. UNCHANGED <<files, auth, granted>>
  BY DEF RunnerStep, BeginApply, Preflight, Quarantine, Abort, Apply
<1>2. FilesTyped' /\ UnderWayTyped' /\ ApproverDiffers'
  BY <1>1 DEF MigrationsTypeInv, FilesTyped, UnderWayTyped, ApproverDiffers
<1>3. \A v \in DOMAIN Resting.left : Resting.left[v] \in Nat
  BY DEF Resting, Todo
<1>4. ASSUME NEW m, Go(r, m), \A v \in DOMAIN m.left : m.left[v] \in Nat
      PROVE  LeftTyped'
  <2>1. run'[r] = m /\ \A q \in Runners \ {r} : run'[q] = run[q]
    BY <1>4 DEF Go, PrefixInv, Numbered
  <2> QED BY <2>1, <1>4 DEF MigrationsTypeInv, LeftTyped
<1>5. ASSUME run[r].at # "idle"
      PROVE  First(r) \in DOMAIN run[r].left /\ run[r].left[First(r)] \in Nat
  BY <1>5, FirstIsFirst DEF PrefixInv, MigrationsTypeInv, LeftTyped
<1>6. ASSUME NEW v, NEW row \in RowType, ledger' = Put(ledger, v, row) PROVE RowsTyped'
  BY <1>6 DEF MigrationsTypeInv, RowsTyped, Put
<1>7. ASSUME UNCHANGED ledger PROVE RowsTyped'
  BY <1>7 DEF MigrationsTypeInv, RowsTyped
<1>8. CASE BeginApply(r)
  <2> DEFINE left == Restrict(files, DOMAIN files \ Applied)
             m == Todo("preflight", left)
  <2>1. \A v \in DOMAIN left : left[v] \in Nat
    BY RestrictTyped DEF MigrationsTypeInv, FilesTyped
  <2>2. m.left = left
    BY DEF Todo
  <2>3. Go(r, m) /\ UNCHANGED ledger
    BY <1>8 DEF BeginApply
  <2> HIDE DEF m, left
  <2> QED BY <2>1, <2>2, <2>3, <1>2, <1>4, <1>7 DEF MigrationsTypeInv
<1>9. CASE Preflight(r)
  <2> DEFINE m == Todo("ddl", run[r].left)
  <2>1. m.left = run[r].left
    BY DEF Todo
  <2>2. Go(r, m) /\ UNCHANGED ledger
    BY <1>9 DEF Preflight
  <2>3. \A v \in DOMAIN m.left : m.left[v] \in Nat
    BY <2>1 DEF MigrationsTypeInv, LeftTyped
  <2> HIDE DEF m
  <2> QED BY <2>2, <2>3, <1>2, <1>4, <1>7 DEF MigrationsTypeInv
<1>10. CASE Quarantine(r)
  <2>1. run[r].left[First(r)] \in Nat
    BY <1>10, <1>5 DEF Quarantine
  <2>2. Row(run[r].left[First(r)], "failed", "skipped") \in RowType
    BY <2>1, RowIsTyped DEF Checks
  <2>3. RowsTyped'
    BY <1>10, <1>6, <2>2 DEF Quarantine
  <2> QED BY <1>10, <2>3, <1>2, <1>3, <1>4 DEF Quarantine, MigrationsTypeInv
<1>11. CASE Abort(r)
  BY <1>11, <1>2, <1>3, <1>4, <1>7 DEF Abort, MigrationsTypeInv
<1>12. ASSUME NEW post \in {"passed", "failed"}, Apply(r, post) PROVE MigrationsTypeInv'
  <2> DEFINE rest == Restrict(run[r].left, DOMAIN run[r].left \ {First(r)})
  <2>1. run[r].left[First(r)] \in Nat
    BY <1>12, <1>5 DEF Apply
  <2>2. Row(run[r].left[First(r)], "passed", post) \in RowType
    BY <2>1, RowIsTyped DEF Checks
  <2>3. RowsTyped'
    BY <1>12, <1>6, <2>2 DEF Apply
  <2>4. \A v \in DOMAIN rest : rest[v] \in Nat
    BY RestrictTyped DEF MigrationsTypeInv, LeftTyped
  <2>5. Todo("preflight", rest).left = rest
    BY DEF Todo
  <2>6. AfterPostflight(r, post) \in {Resting, Todo("preflight", rest)}
    BY DEF AfterPostflight
  <2> HIDE DEF rest
  <2>7. PICK m : m = AfterPostflight(r, post)
    OBVIOUS
  <2>8. \A v \in DOMAIN m.left : m.left[v] \in Nat
    BY <2>4, <2>5, <2>6, <2>7, <1>3
  <2>9. Go(r, m)
    BY <1>12, <2>7 DEF Apply
  <2> QED BY <2>3, <2>8, <2>9, <1>2, <1>4 DEF MigrationsTypeInv
<1> QED BY <1>8, <1>9, <1>10, <1>11, <1>12 DEF RunnerStep

LEMMA OthersKeepTypes ==
  ASSUME PrefixInv, MigrationsTypeInv,
         \/ AddFile \/ RecordAuthorization
         \/ \E v \in DOMAIN files : EditFile(v)
         \/ \E i, a \in People : BeginAuthorize(i, a)
  PROVE  MigrationsTypeInv'
<1>1. UNCHANGED <<ledger, run>>
  BY DEF AddFile, EditFile, RecordAuthorization, BeginAuthorize
<1>2. RowsTyped' /\ LeftTyped'
  BY <1>1 DEF MigrationsTypeInv, RowsTyped, LeftTyped
<1>3. FilesTyped'
  <2>1. CASE AddFile
    BY <2>1 DEF AddFile, Put, MigrationsTypeInv, FilesTyped
  <2>2. ASSUME NEW v \in DOMAIN files, EditFile(v) PROVE FilesTyped'
    BY <2>2 DEF EditFile, MigrationsTypeInv, FilesTyped
  <2>3. CASE UNCHANGED files
    BY <2>3 DEF MigrationsTypeInv, FilesTyped
  <2> QED BY <2>1, <2>2, <2>3 DEF RecordAuthorization, BeginAuthorize
<1>4. UnderWayTyped' /\ ApproverDiffers'
  <2>1. CASE RecordAuthorization
    <3>1. \A id : /\ Authorization(id, auth).initiator = auth.initiator
                  /\ Authorization(id, auth).approver = auth.approver
      BY DEF Authorization
    <3>2. auth'.at # "record"
      BY <2>1 DEF RecordAuthorization, NoAuth
    <3>3. /\ auth.at = "record"
          /\ granted' = granted \cup {Authorization(Cardinality(granted) + 1, auth)}
      BY <2>1 DEF RecordAuthorization
    <3> QED BY <3>1, <3>2, <3>3 DEF MigrationsTypeInv, UnderWayTyped, ApproverDiffers
  <2>2. ASSUME NEW i \in People, NEW a \in People, BeginAuthorize(i, a)
        PROVE  UnderWayTyped' /\ ApproverDiffers'
    <3>1. auth'.initiator = i /\ auth'.approver = a /\ i # a /\ granted' = granted
      BY <2>2 DEF BeginAuthorize, VerifyDistinctApprover
    <3> QED BY <3>1 DEF MigrationsTypeInv, UnderWayTyped, ApproverDiffers
  <2>3. CASE UNCHANGED <<auth, granted>>
    BY <2>3 DEF MigrationsTypeInv, UnderWayTyped, ApproverDiffers
  <2> QED BY <2>1, <2>2, <2>3 DEF AddFile, EditFile
<1> QED BY <1>2, <1>3, <1>4 DEF MigrationsTypeInv

\* The versions are numbered without a gap, a row of the ledger and what is
\* left to a runner are of a file that exists, and every authorization in
\* deployment_authorizations has an approver who is not its initiator
\* (verify_distinct_approver is called before the row is written, not with it).
THEOREM MigrationsTypeCorrect == Spec => []TypeOK
<1>1. Init => MigrationsTypeInv
  <2> SUFFICES ASSUME Init PROVE MigrationsTypeInv
    OBVIOUS
  <2>1. \A r \in Runners : run[r] = Todo("idle", << >>)
    BY DEF Init, Resting
  <2>2. \A r \in Runners : DOMAIN run[r].left = {}
    BY <2>1 DEF Todo
  <2>3. DOMAIN files = {} /\ DOMAIN ledger = {} /\ granted = {}
    BY DEF Init
  <2>4. auth.at # "record"
    BY DEF Init, NoAuth
  <2> QED BY <2>2, <2>3, <2>4
       DEF MigrationsTypeInv, FilesTyped, RowsTyped, LeftTyped, UnderWayTyped, ApproverDiffers
<1>2. PrefixInv /\ MigrationsTypeInv /\ [Next]_vars => MigrationsTypeInv'
  <2> SUFFICES ASSUME PrefixInv, MigrationsTypeInv, [Next]_vars PROVE MigrationsTypeInv'
    OBVIOUS
  <2>1. CASE UNCHANGED vars
    BY <2>1 DEF vars, MigrationsTypeInv, FilesTyped, RowsTyped, LeftTyped, UnderWayTyped,
                ApproverDiffers
  <2> QED BY <2>1, RunnersKeepTypes, OthersKeepTypes DEF Next
<1>3. PrefixInv /\ MigrationsTypeInv => TypeOK
  <2> SUFFICES ASSUME PrefixInv, MigrationsTypeInv PROVE TypeOK
    OBVIOUS
  <2>1. PICK n \in Nat : DOMAIN files = 1..n
    BY DEF PrefixInv, Numbered
  <2>2. DOMAIN files = 1..Cardinality(DOMAIN files)
    BY <2>1, FS_Interval
  <2>3. DOMAIN schema \subseteq DOMAIN files /\ DOMAIN ledger \subseteq DOMAIN files
    BY DEF PrefixInv, Numbered
  <2> QED BY <2>2, <2>3
       DEF TypeOK, PrefixInv, Numbered, MigrationsTypeInv, FilesTyped, RowsTyped, ApproverDiffers
<1> QED BY <1>1, <1>2, <1>3, PrefixHolds, PTL DEF Spec
=============================================================================
