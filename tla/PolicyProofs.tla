---------------------------- MODULE PolicyProofs ----------------------------
(***************************************************************************)
(* Proofs about PolicyLifecycle for every number of versions, users and    *)
(* overlapping requests, and for every notion of a clean content.          *)
(*                                                                         *)
(* OneActive and FewLateEdits are facts about committed rows, and neither  *)
(* is inductive: a request in flight may write what it read long ago.  The *)
(* invariant adds what is known of each request in flight: the rows it     *)
(* will write exist, and how many of them may still edit a version that    *)
(* has become immutable meanwhile.                                         *)
(***************************************************************************)
EXTENDS PolicyLifecycle, FiniteSetTheorems, TLAPS

\* What a request remembers.
Memory == [at : Steps, v : 0..MaxVersion, by : Users \cup {NoUser},
           to : Statuses \cup {"none"}, parts : SUBSET Parts, cur : 0..MaxVersion]

\* The rows a request that has read something will write exist.
Named(q) ==
  /\ q.v \in Versions /\ Exists(q.v)
  /\ q.at = "fork" => q.by \in Users
  /\ q.cur # 0 => q.cur \in Versions /\ Exists(q.cur)
  /\ q.at = "write" => q.to \in Statuses

RequestsNamed == \A r \in Requests : req[r].at # "idle" => Named(req[r])

\* The inductive invariant.
PolicyInv ==
  /\ TypeOK
  /\ RequestsNamed
  /\ OneActive
-----------------------------------------------------------------------------
\* The record of a request with nothing remembered is a memory.
LEMMA IdleType == Idle \in Memory /\ Idle.at = "idle" /\ Idle.cur = 0
BY PolicyAssumption DEF Idle, First, Memory, Steps, Statuses

\* The names of the steps, one by one.
LEMMA StepNames ==
  /\ "idle" \in Steps /\ "insert" \in Steps /\ "fork" \in Steps /\ "write" \in Steps
  /\ "edges" \in Steps /\ "issues" \in Steps /\ "submit" \in Steps /\ "find" \in Steps
  /\ "suspend" \in Steps /\ "lock" \in Steps /\ "target" \in Steps /\ "kill" \in Steps
BY DEF Steps

\* A version number is a natural number within the bound, and not 0.
LEMMA VersionRange == \A v \in Versions : v \in 0..MaxVersion /\ v # 0
BY PolicyAssumption DEF Versions

\* What the first statement of a route remembers has these fields.
LEMMA IdleMemory ==
  ASSUME NEW v \in Versions, NEW at \in Steps, NEW by \in Users \cup {NoUser},
         NEW parts \in SUBSET Parts
  PROVE  LET rec == First(at, v, by, parts)
         IN  /\ rec \in Memory
             /\ rec.at = at /\ rec.v = v /\ rec.by = by
             /\ rec.parts = parts /\ rec.cur = 0
BY VersionRange, PolicyAssumption DEF Memory, First

\* A transaction that ends without a write keeps the invariant.
LEMMA EndKeeps ==
  ASSUME PolicyInv, NEW r \in Requests, End(r), UNCHANGED table
  PROVE  PolicyInv'
<1>1. req' \in [Requests -> Memory]
  BY IdleType DEF PolicyInv, TypeOK, Memory, End, Go
<1>2. \A p \in Requests : req'[p] = req[p] \/ req'[p].at = "idle"
  BY IdleType DEF PolicyInv, TypeOK, End, Go
<1>3. TypeOK'
  BY <1>1 DEF PolicyInv, TypeOK, Memory, table, Exists
<1>4. RequestsNamed'
  BY <1>2 DEF PolicyInv, RequestsNamed, Named, table, Exists
<1>5. OneActive'
  BY <1>2 DEF PolicyInv, OneActive, table
<1> QED
  BY <1>3, <1>4, <1>5 DEF PolicyInv

\* So does remembering one more read.
LEMMA GoKeeps ==
  ASSUME PolicyInv, NEW r \in Requests, NEW rec \in Memory,
         Named(rec),
         Go(r, rec), UNCHANGED table
  PROVE  PolicyInv'
<1>1. req' \in [Requests -> Memory]
  BY DEF PolicyInv, TypeOK, Memory, Go
<1>2. \A p \in Requests : req'[p] = req[p] \/ req'[p] = rec
  BY DEF PolicyInv, TypeOK, Go
<1>3. TypeOK'
  BY <1>1 DEF PolicyInv, TypeOK, Memory, table, Exists
<1>4. RequestsNamed'
  BY <1>2 DEF PolicyInv, RequestsNamed, Named, table, Exists
<1>5. OneActive'
  BY <1>2 DEF PolicyInv, OneActive, table
<1> QED
  BY <1>3, <1>4, <1>5 DEF PolicyInv

\* transition_version_status's SELECT, whatever it will write.
LEMMA ReadStatusKeeps ==
  ASSUME PolicyInv, NEW r \in Requests, NEW to \in Statuses, NEW rec \in Memory,
         Named(rec), ReadStatus(r, rec, to)
  PROVE  PolicyInv'
<1> DEFINE new == [rec EXCEPT !.at = "write", !.to = to]
<1>1. /\ new \in Memory /\ new.at = "write" /\ new.to = to
      /\ new.v = rec.v /\ new.cur = rec.cur /\ new.parts = rec.parts
  BY StepNames DEF Memory
<1>2. Go(r, new) /\ UNCHANGED table /\ CanTransition(status[rec.v], to)
  BY DEF ReadStatus, Read
<1> HIDE DEF new
<1>3. Named(new)
  BY <1>1 DEF Named
<1> QED
  BY <1>1, <1>2, <1>3, GoKeeps

\* The first statement of each route.
LEMMA BeginKeeps ==
  ASSUME PolicyInv, NEW r \in Requests, NEW v \in Versions, Begin(r, v)
  PROVE  PolicyInv'
<1>1. ASSUME NEW at \in Steps \ {"idle", "write", "submit"}, NEW by \in Users \cup {NoUser},
             NEW parts \in SUBSET Parts, at = "fork" => by \in Users,
             Exists(v), Go(r, First(at, v, by, parts)), UNCHANGED table
      PROVE  PolicyInv'
  <2> DEFINE rec == First(at, v, by, parts)
  <2>1. rec \in Memory /\ rec.at = at /\ rec.v = v /\ rec.by = by /\ rec.cur = 0
    BY IdleMemory
  <2>2. Go(r, rec)
    BY <1>1
  <2> HIDE DEF rec
  <2>3. Named(rec)
    BY <1>1, <2>1 DEF Named
  <2> QED
    BY <1>1, <2>1, <2>2, <2>3, GoKeeps
<1>2. ASSUME NEW parts \in ((SUBSET Nodes) \cup (SUBSET Edges)) \ {{}},
             BeginAdd(r, v, parts)
      PROVE  PolicyInv'
  <2>1. parts \in SUBSET Parts
    BY <1>2 DEF Parts
  <2>2. Exists(v) /\ Go(r, First("insert", v, NoUser, parts)) /\ UNCHANGED table
    BY <1>2 DEF BeginAdd, Read
  <2> QED
    BY <1>1, <2>1, <2>2, StepNames
<1>3. content[v] \cap Nodes \in SUBSET Parts /\ {} \in SUBSET Parts
  BY DEF Parts
<1>4. ASSUME NEW u \in Users, BeginFork(r, u, v) PROVE PolicyInv'
  <2>1. Exists(v) /\ Go(r, First("fork", v, u, content[v] \cap Nodes)) /\ UNCHANGED table
    BY <1>4 DEF BeginFork, Read
  <2> QED
    BY <1>1, <1>3, <2>1, StepNames
<1>5. ASSUME NEW u \in Users, BeginSubmit(r, u, v) PROVE PolicyInv'
  <2>1. Exists(v) /\ Go(r, First("edges", v, u, content[v] \cap Nodes)) /\ UNCHANGED table
    BY <1>5 DEF BeginSubmit, Read
  <2> QED
    BY <1>1, <1>3, <2>1, StepNames
<1>6. ASSUME NEW u \in Users, BeginActivate(r, u, v) PROVE PolicyInv'
  <2>1. Exists(v) /\ Go(r, First("find", v, u, {})) /\ UNCHANGED table
    BY <1>6 DEF BeginActivate, Read
  <2> QED
    BY <1>1, <1>3, <2>1, StepNames
<1>7. ASSUME NEW u \in Users, BeginKill(r, u, v) PROVE PolicyInv'
  <2>1. Exists(v) /\ Go(r, First("kill", v, u, {})) /\ UNCHANGED table
    BY <1>7 DEF BeginKill, Read
  <2> QED
    BY <1>1, <1>3, <2>1, StepNames
<1>8. ASSUME NEW u \in Users, NEW to \in Statuses, BeginTransition(r, u, v, to)
      PROVE  PolicyInv'
  <2> DEFINE rec == First("idle", v, u, {})
  <2>1. rec \in Memory /\ rec.at = "idle" /\ rec.v = v /\ rec.cur = 0
    BY IdleMemory, StepNames, <1>3
  <2>2. ReadStatus(r, rec, to) /\ Exists(v)
    BY <1>8 DEF BeginTransition
  <2> HIDE DEF rec
  <2>3. Named(rec)
    BY <2>1, <2>2 DEF Named
  <2> QED
    BY <2>1, <2>2, <2>3, ReadStatusKeeps
<1> QED
  BY <1>2, <1>4, <1>5, <1>6, <1>7, <1>8 DEF Begin

\* A request in flight has a memory, and it is what the invariant says.
LEMMA InFlight ==
  ASSUME PolicyInv, NEW r \in Requests, req[r].at # "idle"
  PROVE  req[r] \in Memory /\ Named(req[r])
BY DEF PolicyInv, TypeOK, Memory, RequestsNamed

\* A request in flight reads on and keeps the version and the user.
LEMMA MoveKeeps ==
  ASSUME PolicyInv, NEW r \in Requests, req[r].at # "idle",
         NEW at \in Steps \ {"fork", "submit", "write"},
         Go(r, [req[r] EXCEPT !.at = at]), UNCHANGED table
  PROVE  PolicyInv'
<1> DEFINE q == req[r]
           rec == [q EXCEPT !.at = at]
<1>1. q \in Memory /\ Named(q)
  BY InFlight
<1>2. rec \in Memory /\ rec.at = at /\ rec.v = q.v /\ rec.cur = q.cur
  BY <1>1 DEF Memory
<1>3. Go(r, rec)
  OBVIOUS
<1> HIDE DEF rec
<1>4. Named(rec)
  BY <1>1, <1>2 DEF Named
<1> QED
  BY <1>2, <1>3, <1>4, GoKeeps

\* The statements of submit_for_approval.
LEMMA SubmitKeeps ==
  ASSUME PolicyInv, NEW r \in Requests, SubmitEdges(r) \/ SubmitIssues(r) \/ Submit(r)
  PROVE  PolicyInv'
<1> DEFINE q == req[r]
<1>1. q \in Memory /\ Named(q)
  BY InFlight DEF SubmitEdges, SubmitIssues, Submit
<1>2. CASE SubmitEdges(r)
  <2> DEFINE rec == [q EXCEPT !.at = "issues", !.parts = @ \cup (content[q.v] \cap Edges)]
  <2>1. rec \in Memory /\ rec.at = "issues" /\ rec.v = q.v /\ rec.cur = q.cur
    BY <1>1, StepNames DEF Memory, Parts
  <2>2. Go(r, rec) /\ UNCHANGED table
    BY <1>2 DEF SubmitEdges, Read
  <2> HIDE DEF rec
  <2>3. Named(rec)
    BY <1>1, <2>1 DEF Named
  <2> QED
    BY <2>1, <2>2, <2>3, GoKeeps
<1>3. CASE SubmitIssues(r)
  <2> DEFINE rec == [q EXCEPT !.at = "submit"]
  <2>1. /\ rec \in Memory /\ rec.at = "submit" /\ rec.v = q.v
        /\ rec.cur = q.cur /\ rec.parts = q.parts
    BY <1>1, StepNames DEF Memory
  <2>2. /\ (NoIssues(q.v, q.parts) /\ Go(r, rec)) \/ End(r)
        /\ UNCHANGED table
    BY <1>3 DEF SubmitIssues, Read
  <2> HIDE DEF rec
  <2>3. CASE NoIssues(q.v, q.parts) /\ Go(r, rec)
    <3>1. Named(rec)
      BY <1>1, <2>1, <2>3 DEF Named
    <3> QED
      BY <2>1, <2>2, <2>3, <3>1, GoKeeps
  <2> QED
    BY <2>2, <2>3, EndKeeps
<1>4. CASE Submit(r)
  <2>1. ReadStatus(r, q, "approved") /\ "approved" \in Statuses /\ q.at = "submit"
    BY <1>4 DEF Submit, Statuses
  <2> QED
    BY <1>1, <2>1, ReadStatusKeeps
<1> QED
  BY <1>2, <1>3, <1>4

\* The reads of activate_version and kill_switch.
LEMMA ActivateKeeps ==
  ASSUME PolicyInv, NEW r \in Requests,
         FindActive(r) \/ SuspendRead(r) \/ SuspendLock(r) \/ Activate(r) \/ Kill(r)
  PROVE  PolicyInv'
<1> DEFINE q == req[r]
<1>1. q.at # "idle" /\ q \in Memory /\ Named(q)
  BY InFlight DEF FindActive, SuspendRead, SuspendLock, Activate, Kill
<1>2. "target" \in Steps \ {"fork", "submit", "write"}
  BY StepNames
<1>4. CASE FindActive(r)
  <2>1. UNCHANGED table
    BY <1>4 DEF FindActive, Read
  <2>2. CASE Go(r, [q EXCEPT !.at = "target"])
    BY <1>1, <1>2, <2>1, <2>2, MoveKeeps
  <2>3. ASSUME NEW x \in Versions, status[x] = "active",
               Go(r, [q EXCEPT !.at = "suspend", !.cur = x])
        PROVE  PolicyInv'
    <3> DEFINE rec == [q EXCEPT !.at = "suspend", !.cur = x]
    <3>1. rec \in Memory /\ rec.at = "suspend" /\ rec.v = q.v /\ rec.cur = x
      BY <1>1, StepNames, VersionRange DEF Memory
    <3>2. Go(r, rec)
      BY <2>3
    <3> HIDE DEF rec
    <3>3. Named(rec)
      BY <1>1, <2>3, <3>1 DEF Named, Exists
    <3> QED
      BY <2>1, <3>1, <3>2, <3>3, GoKeeps
  <2> QED
    BY <1>4, <2>2, <2>3 DEF FindActive
<1>5. CASE SuspendRead(r)
  <2>1. Go(r, [q EXCEPT !.at = "lock"]) \/ End(r)
    BY <1>5 DEF SuspendRead
  <2>2. UNCHANGED table /\ "lock" \in Steps \ {"fork", "submit", "write"}
    BY <1>5, StepNames DEF SuspendRead, Read
  <2> QED
    BY <1>1, <2>1, <2>2, MoveKeeps, EndKeeps
<1>6. CASE SuspendLock(r)
  BY <1>1, <1>2, <1>6, MoveKeeps DEF SuspendLock, Read
<1>7. CASE Activate(r)
  <2>1. ReadStatus(r, q, "active") /\ "active" \in Statuses
    BY <1>7 DEF Activate, Statuses
  <2> QED
    BY <1>1, <2>1, ReadStatusKeeps
<1>8. CASE Kill(r)
  <2>1. ReadStatus(r, q, "suspended") /\ "suspended" \in Statuses
    BY <1>8 DEF Kill, Statuses
  <2> QED
    BY <1>1, <2>1, ReadStatusKeeps
<1> QED
  BY <1>4, <1>5, <1>6, <1>7, <1>8

\* Ending a transaction that commits: what is left to show are the tables and
\* what the other requests know of them.
LEMMA CommitKeeps ==
  ASSUME PolicyInv, NEW r \in Requests, End(r) \/ UNCHANGED req,
         status' \in [Versions -> Statuses \cup {"absent"}],
         author' \in [Versions -> Users \cup {NoUser}],
         \A v \in Versions : status'[v] # "absent" => author'[v] \in Users,
         content' \in [Versions -> SUBSET Parts],
         dossier_approved' \in [Versions -> BOOLEAN],
         changed_by' \in [Versions -> Users \cup {NoUser}],
         late' \in [Versions -> Nat],
         \A v \in Versions : status[v] # "absent" => status'[v] # "absent",
         OneActive'
  PROVE  PolicyInv'
<1>1. req' \in [Requests -> Memory]
  BY IdleType DEF PolicyInv, TypeOK, Memory, End, Go
<1>2. \A p \in Requests : req'[p] = req[p] \/ req'[p].at = "idle"
  BY IdleType DEF PolicyInv, TypeOK, End, Go
<1>3. TypeOK'
  BY <1>1 DEF TypeOK, Memory, Exists
<1>4. RequestsNamed'
  BY <1>2 DEF PolicyInv, RequestsNamed, Named, Exists
<1> QED
  BY <1>3, <1>4 DEF PolicyInv

\* add_nodes and add_edges insert into the content and nothing else.
LEMMA InsertKeeps ==
  ASSUME PolicyInv, NEW r \in Requests, Insert(r)
  PROVE  PolicyInv'
<1>1. req[r] \in Memory /\ Named(req[r])
  BY InFlight DEF Insert
<1>2. content' \in [Versions -> SUBSET Parts] /\ late' \in [Versions -> Nat]
  BY <1>1 DEF Insert, Memory, PolicyInv, TypeOK
<1>3. OneActive'
  BY DEF Insert, PolicyInv, OneActive
<1> QED
  BY <1>2, <1>3, CommitKeeps DEF Insert, PolicyInv, TypeOK, Exists

\* fork_new_draft_version adds a draft, which no property speaks of.
LEMMA ForkKeeps ==
  ASSUME PolicyInv, NEW r \in Requests, Fork(r)
  PROVE  PolicyInv'
<1> DEFINE new == req[r].v + 1
<1>1. req[r] \in Memory /\ Named(req[r]) /\ req[r].by \in Users
  BY InFlight DEF Fork, Named
<1>2. content' \in [Versions -> SUBSET Parts]
  BY <1>1 DEF Fork, Memory, PolicyInv, TypeOK, Parts
<1>3. /\ status' \in [Versions -> Statuses \cup {"absent"}]
      /\ author' \in [Versions -> Users \cup {NoUser}]
      /\ \A v \in Versions : status'[v] # "absent" => author'[v] \in Users
  BY <1>1 DEF Fork, PolicyInv, TypeOK, Exists, Statuses
<1>4. \A v \in Versions : status'[v] = status[v] \/ status'[v] = "draft"
  BY <1>1 DEF Fork, PolicyInv, TypeOK
<1>5. OneActive'
  BY <1>4 DEF Fork, PolicyInv, OneActive
<1>6. End(r) /\ UNCHANGED <<dossier_approved, changed_by, late>>
  BY DEF Fork
<1> QED
  BY <1>2, <1>3, <1>4, <1>5, <1>6, CommitKeeps DEF PolicyInv, TypeOK

\* The commit of a status change: the index decides who may be active, and
\* the request brings a content or a version that has passed the gate.
LEMMA WriteKeeps ==
  ASSUME PolicyInv, NEW r \in Requests, Write(r)
  PROVE  PolicyInv'
<1> DEFINE q == req[r]
<1>1. q.at = "write" /\ q \in Memory /\ Named(q)
  BY InFlight DEF Write
<1>2. End(r) /\ UNCHANGED <<author, content, dossier_approved>>
  BY DEF Write
<1>3. CASE q.to = "active" /\ ~IndexAllows(r, q.v)
  <2>1. UNCHANGED table
    BY <1>2, <1>3 DEF Write, table
  <2> QED
    BY <1>2, <2>1, EndKeeps
<1>4. CASE ~(q.to = "active" /\ ~IndexAllows(r, q.v))
  <2>1. /\ status' = [x \in Versions |-> IF x = q.v THEN q.to
                                         ELSE IF x \in {q.cur} \ {0} THEN "suspended"
                                         ELSE status[x]]
        /\ changed_by' = [x \in Versions |-> IF x \in ({q.cur} \ {0}) \cup {q.v}
                                             THEN q.by ELSE changed_by[x]]
        /\ late' = [late EXCEPT ![q.v] = IF status[q.v] \notin Immutable /\ q.to \in Immutable THEN 0 ELSE @]
    BY <1>4 DEF Write
  <2>2. q.to \in Statuses /\ q.v \in Versions
    BY <1>1 DEF Named
  <2>3. /\ status' \in [Versions -> Statuses \cup {"absent"}]
        /\ \A v \in Versions : status[v] # "absent" => status'[v] # "absent"
        /\ \A v \in Versions : status'[v] # "absent" => author'[v] \in Users
    BY <1>1, <1>2, <2>1, <2>2 DEF PolicyInv, TypeOK, Named, Exists, Statuses
  <2>4. changed_by' \in [Versions -> Users \cup {NoUser}]
    BY <1>1, <2>1 DEF PolicyInv, TypeOK, Memory
  <2>5. late' \in [Versions -> Nat]
    BY <1>1, <2>1 DEF PolicyInv, TypeOK, Memory
  <2>6. OneActive'
    <3> SUFFICES ASSUME NEW v \in Versions, NEW x \in Versions,
                        status'[v] = "active", status'[x] = "active", v # x
                 PROVE  FALSE
      BY DEF OneActive
    <3>1. CASE q.to = "active"
      <4>1. \A y \in Versions \ {q.v, q.cur} : status[y] # "active"
        BY <1>4, <3>1 DEF IndexAllows
      <4>2. \A y \in Versions \ {q.v} : status'[y] # "active"
        BY <2>1, <4>1, VersionRange
      <4> QED
        BY <4>2
    <3>2. CASE q.to # "active"
      <4>1. \A y \in Versions : status'[y] = "active" => status[y] = "active"
        BY <2>1, <3>2
      <4> QED
        BY <4>1 DEF PolicyInv, OneActive
    <3> QED
      BY <3>1, <3>2
  <2>9. /\ author' \in [Versions -> Users \cup {NoUser}]
        /\ content' \in [Versions -> SUBSET Parts]
        /\ dossier_approved' \in [Versions -> BOOLEAN]
    BY <1>2 DEF PolicyInv, TypeOK
  <2> QED
    BY <1>2, <2>3, <2>4, <2>5, <2>6, <2>9, CommitKeeps
<1> QED
  BY <1>3, <1>4

\* A new draft, and the link to a dossier.
LEMMA RoutesKeep ==
  ASSUME PolicyInv, NEW v \in Versions,
         (\E u \in Users : CreateDraft(u, v)) \/ (\E d \in BOOLEAN : LinkDossier(v, d))
  PROVE  PolicyInv'
<1>1. CASE \E u \in Users : CreateDraft(u, v)
  <2>1. PICK u \in Users : CreateDraft(u, v)
    BY <1>1
  <2>2. UNCHANGED <<content, dossier_approved, changed_by, late, req>>
    BY <2>1 DEF CreateDraft
  <2>3. TypeOK'
    BY <2>1, <2>2 DEF CreateDraft, PolicyInv, TypeOK, Exists, Statuses
  <2>4. \A x \in Versions : status'[x] = status[x] \/ status'[x] = "draft"
    BY <2>1 DEF CreateDraft, PolicyInv, TypeOK
  <2>5. RequestsNamed'
    BY <2>2, <2>4 DEF PolicyInv, RequestsNamed, Named, Exists
  <2>6. OneActive'
    BY <2>2, <2>4 DEF PolicyInv, OneActive
  <2> QED
    BY <2>3, <2>5, <2>6 DEF PolicyInv
<1>2. CASE \E d \in BOOLEAN : LinkDossier(v, d)
  <2>1. PICK d \in BOOLEAN : LinkDossier(v, d)
    BY <1>2
  <2>2. UNCHANGED <<status, author, content, changed_by, late, req>>
    BY <2>1 DEF LinkDossier
  <2>3. TypeOK'
    BY <2>1, <2>2 DEF LinkDossier, PolicyInv, TypeOK, Exists
  <2>4. RequestsNamed'
    BY <2>2 DEF PolicyInv, RequestsNamed, Named, Exists
  <2>5. OneActive'
    BY <2>2 DEF PolicyInv, OneActive
  <2> QED
    BY <2>3, <2>4, <2>5 DEF PolicyInv
<1> QED
  BY <1>1, <1>2
-----------------------------------------------------------------------------
\* The invariant holds before the first version is drafted.
LEMMA InitPolicyInv == Init => PolicyInv
<1> SUFFICES ASSUME Init PROVE PolicyInv
  OBVIOUS
<1>1. req \in [Requests -> Memory] /\ \A r \in Requests : req[r].at = "idle"
  BY IdleType DEF Init
<1>2. TypeOK
  BY <1>1 DEF Init, TypeOK, Memory, Exists
<1>3. RequestsNamed
  BY <1>1 DEF RequestsNamed
<1>4. OneActive
  BY DEF Init, OneActive
<1> QED
  BY <1>2, <1>3, <1>4 DEF PolicyInv

\* Every statement of every request keeps it.
LEMMA NextPolicyInv == PolicyInv /\ [Next]_vars => PolicyInv'
<1> SUFFICES ASSUME PolicyInv, [Next]_vars PROVE PolicyInv'
  OBVIOUS
<1>1. CASE UNCHANGED vars
  BY <1>1 DEF vars, PolicyInv, TypeOK, RequestsNamed, Named, Exists, OneActive
<1>2. CASE Next
  <2>1. ASSUME NEW r \in Requests, Continue(r) PROVE PolicyInv'
    <3>1. CASE Rollback(r)
      BY <3>1, EndKeeps DEF Rollback, Read
    <3> QED
      BY <2>1, <3>1, InsertKeeps, ForkKeeps, WriteKeeps, SubmitKeeps, ActivateKeeps
      DEF Continue
  <2> QED
    BY <1>2, <2>1, BeginKeeps, RoutesKeep DEF Next
<1> QED
  BY <1>1, <1>2

\* The invariant at every state.
LEMMA Inductive == Spec => []PolicyInv
BY InitPolicyInv, NextPolicyInv, PTL DEF Spec

\* Every column keeps its type and every version its author, whatever the
\* number of overlapping requests (policy_versions.created_by).
THEOREM PolicyTypeCorrect == Spec => []TypeOK
<1>1. PolicyInv => TypeOK
  BY DEF PolicyInv
<1> QED
  BY <1>1, Inductive, PTL

\* policy_versions_one_active_per_graph: at most one active version, for any
\* number of versions and of activations, kill switches and transitions in
\* flight.
THEOREM AtMostOneActive == Spec => []OneActive
<1>1. PolicyInv => OneActive
  BY DEF PolicyInv
<1> QED
  BY <1>1, Inductive, PTL
-----------------------------------------------------------------------------
(* Late edits.  A version that is immutable gains no new editors, so the   *)
(* edits that landed and those still in flight together are fewer than the *)
(* requests: the one that made it immutable was not editing.               *)

\* The requests that have passed _assert_content_mutable for v.
Editing(v) == {r \in Requests : req[r].at = "insert" /\ req[r].v = v}

LateInv ==
  \A v \in Versions :
    ~Mutable(status[v]) => late[v] + Cardinality(Editing(v)) < Cardinality(Requests)

\* A part of a finite set is no larger, and smaller when an element is left out.
LEMMA PartIsSmaller ==
  ASSUME NEW S, IsFiniteSet(S), NEW T \in SUBSET S
  PROVE  /\ Cardinality(T) \in Nat /\ Cardinality(S) \in Nat
         /\ Cardinality(T) <= Cardinality(S)
         /\ T # S => Cardinality(T) < Cardinality(S)
BY FS_Subset, FS_CardinalityType

\* The editors are some of the requests.
LEMMA EditingIsFinite == \A v \in Versions : Editing(v) \in SUBSET Requests /\ IsFiniteSet(Editing(v))
BY PolicyAssumption, FS_Subset DEF Editing

\* A step that counts no edit and lets nobody begin one on an immutable version.
LEMMA LateKept ==
  ASSUME PolicyInv, LateInv, UNCHANGED late,
         \A v \in Versions : status'[v] = status[v] \/ Mutable(status'[v]),
         \A r \in Requests : req'[r].at = "insert" =>
                               req'[r] = req[r] \/ Mutable(status'[req'[r].v])
  PROVE  LateInv'
<1> SUFFICES ASSUME NEW v \in Versions, ~Mutable(status'[v])
             PROVE  late'[v] + Cardinality(Editing(v)') < Cardinality(Requests)
  BY DEF LateInv
<1>1. Editing(v)' \in SUBSET Editing(v)
  BY DEF Editing
<1>2. Cardinality(Editing(v)') <= Cardinality(Editing(v)) /\ Cardinality(Editing(v)') \in Nat
      /\ Cardinality(Editing(v)) \in Nat
  BY <1>1, EditingIsFinite, PartIsSmaller
<1>3. late[v] + Cardinality(Editing(v)) < Cardinality(Requests)
  BY DEF LateInv
<1>4. Cardinality(Requests) \in Nat /\ late[v] \in Nat /\ late'[v] = late[v]
  BY PolicyAssumption, FS_CardinalityType DEF PolicyInv, TypeOK
<1> QED
  BY <1>2, <1>3, <1>4

\* Remembering a read that is not the check of an edit, or ending.
LEMMA LateRead ==
  ASSUME PolicyInv, LateInv, NEW r \in Requests, NEW rec, Go(r, rec), rec.at # "insert",
         UNCHANGED late, \A v \in Versions : status'[v] = status[v] \/ Mutable(status'[v])
  PROVE  LateInv'
<1>1. \A p \in Requests : req'[p] = req[p] \/ req'[p] = rec
  BY DEF PolicyInv, TypeOK, Go
<1> QED
  BY <1>1, LateKept

\* The first statement of each route; add_nodes and add_edges find the
\* version mutable.
LEMMA LateBegin ==
  ASSUME PolicyInv, LateInv, NEW r \in Requests, NEW v \in Versions, Begin(r, v)
  PROVE  LateInv'
<1>1. UNCHANGED table
  BY DEF Begin, BeginAdd, BeginFork, BeginSubmit, BeginActivate, BeginKill, BeginTransition,
         ReadStatus, Read
<1>2. UNCHANGED <<late, status>>
  BY <1>1 DEF table
<1>3. ASSUME NEW parts, BeginAdd(r, v, parts) PROVE LateInv'
  <2>1. Mutable(status'[v]) /\ Go(r, First("insert", v, NoUser, parts))
    BY <1>2, <1>3 DEF BeginAdd
  <2>2. First("insert", v, NoUser, parts).v = v
    BY DEF First
  <2>3. \A p \in Requests : req'[p] = req[p] \/ req'[p].v = v
    BY <2>1, <2>2 DEF PolicyInv, TypeOK, Go
  <2> QED
    BY <1>2, <2>1, <2>3, LateKept
<1>4. ASSUME NEW at \in {"fork", "edges", "find", "kill"}, NEW by, NEW parts, Go(r, First(at, v, by, parts))
      PROVE  LateInv'
  <2>1. First(at, v, by, parts).at # "insert"
    BY DEF First
  <2> QED
    BY <1>2, <1>4, <2>1, LateRead
<1>5. ASSUME NEW u, NEW to, BeginTransition(r, u, v, to) PROVE LateInv'
  <2> DEFINE rec == [First("idle", v, u, {}) EXCEPT !.at = "write", !.to = to]
  <2>1. Go(r, rec) /\ rec.at = "write"
    BY <1>5 DEF BeginTransition, ReadStatus, First
  <2> HIDE DEF rec
  <2> QED
    BY <1>2, <2>1, LateRead
<1> QED
  BY <1>3, <1>4, <1>5 DEF Begin, BeginFork, BeginSubmit, BeginActivate, BeginKill

\* The reads that follow, and the end of a transaction that wrote nothing.
LEMMA LateContinue ==
  ASSUME PolicyInv, LateInv, NEW r \in Requests,
         \/ SubmitEdges(r) \/ SubmitIssues(r) \/ Submit(r) \/ FindActive(r)
         \/ SuspendRead(r) \/ SuspendLock(r) \/ Activate(r) \/ Kill(r) \/ Rollback(r)
  PROVE  LateInv'
<1>1. UNCHANGED table
  BY DEF SubmitEdges, SubmitIssues, Submit, FindActive, SuspendRead, SuspendLock, Activate,
         Kill, Rollback, ReadStatus, Read
<1>2. UNCHANGED <<late, status>>
  BY <1>1 DEF table
<1>3. req[r] \in Memory
  BY DEF PolicyInv, TypeOK, Memory
<1>4. \A p \in Requests : req'[p] = req[p] \/ req'[p].at # "insert"
  <2>1. CASE End(r)
    BY <2>1, IdleType DEF End, Go, PolicyInv, TypeOK
  <2>2. CASE \E to \in {"approved", "active", "suspended"} : ReadStatus(r, req[r], to)
    BY <1>3, <2>2 DEF ReadStatus, Go, PolicyInv, TypeOK, Memory
  <2>3. CASE SubmitEdges(r)
    BY <1>3, <2>3 DEF SubmitEdges, Go, PolicyInv, TypeOK, Memory
  <2>4. CASE \E x \in Versions : Go(r, [req[r] EXCEPT !.at = "suspend", !.cur = x])
    <3>1. PICK x \in Versions : Go(r, [req[r] EXCEPT !.at = "suspend", !.cur = x])
      BY <2>4
    <3>2. [req[r] EXCEPT !.at = "suspend", !.cur = x].at = "suspend"
      BY <1>3 DEF Memory
    <3> QED
      BY <3>1, <3>2 DEF Go, PolicyInv, TypeOK
  <2>5. CASE \E at \in {"submit", "lock", "target"} : Go(r, [req[r] EXCEPT !.at = at])
    BY <1>3, <2>5 DEF Go, PolicyInv, TypeOK, Memory
  <2> QED
    BY <2>1, <2>2, <2>3, <2>4, <2>5
    DEF SubmitIssues, Submit, FindActive, SuspendRead, SuspendLock, Activate, Kill, Rollback
<1> QED
  BY <1>2, <1>4, LateKept

\* An edit that lands leaves the editors.
LEMMA LateInsert ==
  ASSUME PolicyInv, LateInv, NEW r \in Requests, Insert(r)
  PROVE  LateInv'
<1> DEFINE x == req[r].v
<1>1. x \in Versions /\ r \in Editing(x)
  BY InFlight DEF Insert, Editing, Named
<1>2. /\ \A p \in Requests : p # r => req'[p] = req[p]
      /\ req'[r].at = "idle"
  BY IdleType DEF Insert, End, Go, PolicyInv, TypeOK
<1>3. UNCHANGED status
  BY DEF Insert
<1>4. late \in [Versions -> Nat] /\ Cardinality(Requests) \in Nat
  BY PolicyAssumption, FS_CardinalityType DEF PolicyInv, TypeOK
<1> SUFFICES ASSUME NEW v \in Versions, ~Mutable(status[v])
             PROVE  late'[v] + Cardinality(Editing(v)') < Cardinality(Requests)
  BY <1>3 DEF LateInv
<1>5. Editing(v)' \in SUBSET Editing(v) /\ (v = x => Editing(v)' # Editing(v))
  BY <1>1, <1>2 DEF Editing
<1>6. /\ Cardinality(Editing(v)') \in Nat /\ Cardinality(Editing(v)) \in Nat
      /\ Cardinality(Editing(v)') <= Cardinality(Editing(v))
      /\ v = x => Cardinality(Editing(v)') < Cardinality(Editing(v))
  BY <1>5, EditingIsFinite, PartIsSmaller
<1>7. late'[v] \in Nat /\ late'[v] <= late[v] + 1 /\ (v # x => late'[v] = late[v])
  BY <1>1, <1>4 DEF Insert
<1>8. late[v] + Cardinality(Editing(v)) < Cardinality(Requests) /\ late[v] \in Nat
  BY <1>4 DEF LateInv
<1> QED
  BY <1>4, <1>6, <1>7, <1>8

\* The request that makes a version immutable is not one of its editors.
LEMMA LateWrite ==
  ASSUME PolicyInv, LateInv, NEW r \in Requests, Write(r)
  PROVE  LateInv'
<1> DEFINE q == req[r]
<1>1. /\ \A p \in Requests : p # r => req'[p] = req[p]
      /\ req'[r].at = "idle" /\ q.at = "write"
  BY IdleType DEF Write, End, Go, PolicyInv, TypeOK
<1>2. late \in [Versions -> Nat] /\ Cardinality(Requests) \in Nat /\ IsFiniteSet(Requests)
  BY PolicyAssumption, FS_CardinalityType DEF PolicyInv, TypeOK
<1>3. q.v \in Versions
  BY <1>1, InFlight DEF Named
<1> SUFFICES ASSUME NEW v \in Versions, ~Mutable(status'[v])
             PROVE  late'[v] + Cardinality(Editing(v)') < Cardinality(Requests)
  BY DEF LateInv
<1>4. Editing(v)' \in SUBSET Editing(v) /\ Editing(v)' \in SUBSET Requests /\ Editing(v)' # Requests
  BY <1>1 DEF Editing
<1>5. /\ Cardinality(Editing(v)') \in Nat /\ Cardinality(Editing(v)) \in Nat
      /\ Cardinality(Editing(v)') <= Cardinality(Editing(v))
      /\ Cardinality(Editing(v)') < Cardinality(Requests)
  BY <1>2, <1>4, EditingIsFinite, PartIsSmaller
<1>6. \/ ~Mutable(status[v]) /\ late'[v] = late[v]
      \/ late'[v] = 0
  <2>1. CASE q.to = "active" /\ ~IndexAllows(r, q.v)
    BY <2>1 DEF Write
  <2>2. CASE ~(q.to = "active" /\ ~IndexAllows(r, q.v))
    <3>1. /\ status' = [y \in Versions |-> IF y = q.v THEN q.to
                                           ELSE IF y \in {q.cur} \ {0} THEN "suspended"
                                           ELSE status[y]]
          /\ late' = [late EXCEPT ![q.v] = IF status[q.v] \notin Immutable /\ q.to \in Immutable THEN 0 ELSE @]
      BY <2>2 DEF Write
    <3>2. CASE v = q.v
      BY <1>2, <1>3, <3>1, <3>2 DEF Mutable
    <3>3. CASE v # q.v
      BY <1>2, <3>1, <3>3 DEF Mutable, Immutable
    <3> QED
      BY <3>2, <3>3
  <2> QED
    BY <2>1, <2>2
<1>7. ~Mutable(status[v]) => late[v] + Cardinality(Editing(v)) < Cardinality(Requests)
  BY DEF LateInv
<1> QED
  BY <1>2, <1>5, <1>6, <1>7

\* Every step keeps the bound on late edits.
LEMMA LateStep == PolicyInv /\ LateInv /\ [Next]_vars => LateInv'
<1> SUFFICES ASSUME PolicyInv, LateInv, [Next]_vars PROVE LateInv'
  OBVIOUS
<1>1. CASE UNCHANGED vars
  BY <1>1 DEF vars, LateInv, Editing
<1>2. ASSUME NEW v \in Versions,
             (\E u \in Users : CreateDraft(u, v)) \/ (\E d \in BOOLEAN : LinkDossier(v, d))
      PROVE  LateInv'
  <2>1. UNCHANGED <<late, req>>
    BY <1>2 DEF CreateDraft, LinkDossier
  <2>2. \A x \in Versions : status'[x] = status[x] \/ Mutable(status'[x])
    BY <1>2 DEF CreateDraft, LinkDossier, PolicyInv, TypeOK, Mutable, Immutable
  <2> QED
    BY <2>1, <2>2, LateKept
<1>3. ASSUME NEW r \in Requests, Fork(r) PROVE LateInv'
  <2>1. Go(r, Idle) /\ Idle.at # "insert" /\ UNCHANGED late
    BY <1>3, IdleType DEF Fork, End
  <2>2. \A x \in Versions : status'[x] = status[x] \/ Mutable(status'[x])
    BY <1>3 DEF Fork, PolicyInv, TypeOK, Mutable, Immutable
  <2> QED
    BY <2>1, <2>2, LateRead
<1> QED
  BY <1>1, <1>2, <1>3, LateBegin, LateContinue, LateInsert, LateWrite DEF Next, Continue

\* FR-ALG-11 under overlap, for any number of requests: after a version has
\* become approved or active, add_nodes and add_edges still change it at most
\* once for each other request that was in flight, and never if requests do
\* not overlap.
THEOREM LateEditsAreFew == Spec => []FewLateEdits
<1>1. Init => LateInv
  BY DEF Init, LateInv, Mutable, Immutable
<1>2. Spec => []LateInv
  BY <1>1, LateStep, Inductive, PTL DEF Spec
<1>3. PolicyInv /\ LateInv => FewLateEdits
  <2> SUFFICES ASSUME PolicyInv, LateInv, NEW v \in Versions, ~Mutable(status[v])
               PROVE  late[v] < Cardinality(Requests)
    BY DEF FewLateEdits, Mutable
  <2>1. late[v] \in Nat /\ Cardinality(Editing(v)) \in Nat /\ Cardinality(Requests) \in Nat
    BY EditingIsFinite, PolicyAssumption, FS_CardinalityType DEF PolicyInv, TypeOK
  <2>2. late[v] + Cardinality(Editing(v)) < Cardinality(Requests)
    BY DEF LateInv
  <2> QED
    BY <2>1, <2>2
<1> QED
  BY <1>2, <1>3, Inductive, PTL
=============================================================================
