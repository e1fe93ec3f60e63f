--------------------------- MODULE PolicyLifecycle ---------------------------
(***************************************************************************)
(* The life of the versions of one policy graph: policy_store.py, the      *)
(* transition table of policy_lifecycle.py and the HTTP routes of          *)
(* apps/api_tender/routers/algoritm.py that call them.                     *)
(*                                                                         *)
(* A request is one READ COMMITTED transaction.  Each SELECT is a step     *)
(* that remembers what it read; the writes become visible together, at     *)
(* the commit.  A request that has updated a row and not committed yet     *)
(* holds that row's lock.  A version is identified by its version_number,  *)
(* which is unique within the graph; its content is the set of its nodes   *)
(* and edges, which are only ever inserted.                                *)
(***************************************************************************)
EXTENDS Integers, FiniteSets

CONSTANTS
  MaxVersion,      \* bound on version_number
  Users,           \* identities; a user may hold every permission
  NoUser,
  Requests,        \* HTTP requests that may be in flight at the same time
  Nodes, Edges,    \* what may be inserted into a version
  FinancialNodes,  \* the nodes with financial_impact
  CleanContents    \* contents with no validate_graph and no unknown_role issue

ASSUME PolicyAssumption ==
  /\ MaxVersion \in Nat
  /\ NoUser \notin Users
  /\ Nodes \cap Edges = {}
  /\ FinancialNodes \subseteq Nodes
  /\ CleanContents \subseteq SUBSET (Nodes \cup Edges)
  /\ {} \notin CleanContents             \* empty_graph is an issue
  /\ IsFiniteSet(Requests)               \* the connections of the pool

VARIABLES
  status, author, content,   \* policy_versions, policy_nodes, policy_edges
  dossier_approved,          \* research_dossier_id names an approved dossier
  changed_by,  \* of the latest policy_version_transitions row of a version
  req,         \* the requests in flight
  late         \* history: edits that landed since the version last became immutable

table == <<status, author, content, dossier_approved, changed_by, late>>
vars  == <<status, author, content, dossier_approved, changed_by, late, req>>

Versions == 1..MaxVersion
Parts    == Nodes \cup Edges
Statuses == {"draft", "simulation", "business_review", "risk_review", "approved",
             "active", "retired", "rejected", "suspended"}
Immutable == {"approved", "active"}

\* can_transition over ALLOWED_TRANSITIONS.
CanTransition(from, to) ==
  \/ from = "draft" /\ to = "simulation"
  \/ from = "simulation" /\ to \in {"business_review", "rejected"}
  \/ from = "business_review" /\ to \in {"risk_review", "rejected"}
  \/ from = "risk_review" /\ to \in {"approved", "rejected"}
  \/ from = "approved" /\ to = "active"
  \/ from = "active" /\ to \in {"retired", "suspended"}
  \/ from = "suspended" /\ to \in {"active", "retired"}

\* A request, by its next statement and what its transaction has read.
First(at, v, by, parts) ==
  [at |-> at, v |-> v, by |-> by, to |-> "none", parts |-> parts, cur |-> 0]
Idle == First("idle", 0, NoUser, {})

Init ==
  /\ status = [v \in Versions |-> "absent"]
  /\ author = [v \in Versions |-> NoUser]
  /\ content = [v \in Versions |-> {}]
  /\ dossier_approved = [v \in Versions |-> FALSE]
  /\ changed_by = [v \in Versions |-> NoUser]
  /\ late = [v \in Versions |-> 0]
  /\ req = [r \in Requests |-> Idle]

Exists(v) == status[v] # "absent"
Financial(parts) == parts \cap FinancialNodes # {}

\* A request is at its next statement, or its transaction ends.
Go(r, rec)  == req' = [req EXCEPT ![r] = rec]
End(r)      == Go(r, Idle)
Read(r)     == UNCHANGED table

\* The row lock of a version: activate_version updates the version it
\* supersedes some statements before it commits.
LockedBy(q, v) == req[q].cur = v /\ req[q].at \in {"target", "write"}
LockFree(r, v) == \A q \in Requests \ {r} : ~LockedBy(q, v)

-----------------------------------------------------------------------------
(* Routes of a single statement. *)

\* post_draft_version
CreateDraft(u, v) ==
  /\ ~Exists(v)
  /\ status' = [status EXCEPT ![v] = "draft"]
  /\ author' = [author EXCEPT ![v] = u]
  /\ UNCHANGED <<content, dossier_approved, changed_by, late, req>>

\* post_research_dossier and post_link_dossier: the approval of a dossier is
\* fixed when its row is written, and any dossier can be linked at any time.
LinkDossier(v, d) ==
  /\ Exists(v)
  /\ \A q \in Requests : ~LockedBy(q, v)
  /\ dossier_approved' = [dossier_approved EXCEPT ![v] = d]
  /\ UNCHANGED <<status, author, content, changed_by, late, req>>

-----------------------------------------------------------------------------
(* add_nodes and add_edges. *)

\* A form that only refuses to edit an active version.
Mutable_Approved(s) == s # "active"

Mutable(s) == s \notin Immutable

BeginAdd(r, v, parts) ==
  /\ req[r].at = "idle" /\ Exists(v)
  /\ Mutable(status[v])                    \* _assert_content_mutable
  /\ Go(r, First("insert", v, NoUser, parts))
  /\ Read(r)

\* The INSERTs and the commit: the status is not looked at again.  UNIQUE
\* (policy_version_id, node_key) fails a batch that repeats a node.
Insert(r) ==
  LET v == req[r].v IN
  /\ req[r].at = "insert"
  /\ IF req[r].parts \cap content[v] \cap Nodes # {} THEN UNCHANGED <<content, late>>
     ELSE /\ content' = [content EXCEPT ![v] = @ \cup req[r].parts]
          /\ late' = [late EXCEPT ![v] = IF status[v] \in Immutable THEN @ + 1 ELSE @]
  /\ End(r)
  /\ UNCHANGED <<status, author, dossier_approved, changed_by>>

-----------------------------------------------------------------------------
(* fork_new_draft_version: version_number + 1 of the same graph. *)

BeginFork(r, u, v) ==
  /\ req[r].at = "idle" /\ Exists(v)
  /\ v + 1 \in Versions /\ ~Exists(v + 1)
  /\ Go(r, First("fork", v, u, content[v] \cap Nodes))
  /\ Read(r)

\* The edges are listed after the nodes; a number taken meanwhile is an error.
Fork(r) ==
  LET new == req[r].v + 1 IN
  /\ req[r].at = "fork"
  /\ IF Exists(new) THEN UNCHANGED <<status, author, content>>
     ELSE /\ status' = [status EXCEPT ![new] = "draft"]
          /\ author' = [author EXCEPT ![new] = req[r].by]
          /\ content' = [content EXCEPT
                           ![new] = req[r].parts \cup (content[req[r].v] \cap Edges)]
  /\ End(r)
  /\ UNCHANGED <<dossier_approved, changed_by, late>>

-----------------------------------------------------------------------------
(* transition_version_status: read the status, then update by id. *)

\* From here on the transaction will write "to", whatever the status becomes.
ReadStatus(r, rec, to) ==
  /\ CanTransition(status[rec.v], to)
  /\ Go(r, [rec EXCEPT !.at = "write", !.to = to])
  /\ Read(r)

\* post_transition hands any to_status to transition_version_status, the two
\* that have a gated route of their own included.
BeginTransition(r, u, v, to) ==
  /\ req[r].at = "idle" /\ Exists(v)
  /\ ReadStatus(r, First("idle", v, u, {}), to)

\* A form without the partial unique index of migration 0019.
IndexAllows_Dropped(r, v) == TRUE

\* policy_versions_one_active_per_graph, at the UPDATE that makes v active:
\* no other version is active but the one this transaction has suspended.
IndexAllows(r, v) ==
  \A x \in Versions \ {v, req[r].cur} : status[x] # "active"

\* The last UPDATE, its log row, and the commit.
Write(r) ==
  LET q == req[r]
      superseded == {q.cur} \ {0}
  IN
  /\ q.at = "write"
  /\ LockFree(r, q.v)
  /\ IF q.to = "active" /\ ~IndexAllows(r, q.v)
     THEN UNCHANGED <<status, changed_by, late>>
     ELSE /\ status' = [x \in Versions |-> IF x = q.v THEN q.to
                                           ELSE IF x \in superseded THEN "suspended"
                                           ELSE status[x]]
          /\ changed_by' = [x \in Versions |-> IF x \in superseded \cup {q.v}
                                               THEN q.by ELSE changed_by[x]]
          /\ late' = [late EXCEPT ![q.v] =
                         IF status[q.v] \notin Immutable /\ q.to \in Immutable THEN 0 ELSE @]
  /\ End(r)
  /\ UNCHANGED <<author, content, dossier_approved>>

-----------------------------------------------------------------------------
(* submit_for_approval: list_nodes, list_edges, the issues, the transition. *)

BeginSubmit(r, u, v) ==
  /\ req[r].at = "idle" /\ Exists(v)
  /\ Go(r, First("edges", v, u, content[v] \cap Nodes))
  /\ Read(r)

SubmitEdges(r) ==
  /\ req[r].at = "edges"
  /\ Go(r, [req[r] EXCEPT !.at = "issues",
                          !.parts = @ \cup (content[req[r].v] \cap Edges)])
  /\ Read(r)

\* validate_graph and _unknown_role_issues, then _missing_dossier_issues.
NoIssues(v, parts) ==
  /\ parts \in CleanContents
  /\ Financial(parts) => dossier_approved[v]

SubmitIssues(r) ==
  /\ req[r].at = "issues"
  /\ \/ NoIssues(req[r].v, req[r].parts) /\ Go(r, [req[r] EXCEPT !.at = "submit"])
     \/ ~NoIssues(req[r].v, req[r].parts) /\ End(r)     \* GraphInvalidError
  /\ Read(r)

Submit(r) ==
  /\ req[r].at = "submit"
  /\ ReadStatus(r, req[r], "approved")

-----------------------------------------------------------------------------
(* activate_version and kill_switch. *)

MakerIsChecker(u, v) == Financial(content[v]) /\ u = author[v]

BeginActivate(r, u, v) ==
  /\ req[r].at = "idle" /\ Exists(v)
  /\ ~MakerIsChecker(u, v)                 \* else MakerCheckerViolation
  /\ Go(r, First("find", v, u, {}))
  /\ Read(r)

\* The graph's current active version, to be superseded.
FindActive(r) ==
  LET others == {x \in Versions \ {req[r].v} : status[x] = "active"} IN
  /\ req[r].at = "find"
  /\ \/ others = {} /\ Go(r, [req[r] EXCEPT !.at = "target"])
     \/ \E x \in others : Go(r, [req[r] EXCEPT !.at = "suspend", !.cur = x])
  /\ Read(r)

\* transition_version_status(current_active, "suspended"): its status is read
\* again, and the UPDATE waits for the row lock and keeps it.
SuspendRead(r) ==
  /\ req[r].at = "suspend"
  /\ \/ CanTransition(status[req[r].cur], "suspended")
          /\ Go(r, [req[r] EXCEPT !.at = "lock"])
     \/ ~CanTransition(status[req[r].cur], "suspended") /\ End(r)
  /\ Read(r)

SuspendLock(r) ==
  /\ req[r].at = "lock"
  /\ LockFree(r, req[r].cur)
  /\ Go(r, [req[r] EXCEPT !.at = "target"])
  /\ Read(r)

Activate(r) ==
  /\ req[r].at = "target"
  /\ ReadStatus(r, req[r], "active")

BeginKill(r, u, v) ==
  /\ req[r].at = "idle" /\ Exists(v)
  /\ status[v] = "active"
  /\ Go(r, First("kill", v, u, {}))
  /\ Read(r)

Kill(r) ==
  /\ req[r].at = "kill"
  /\ ReadStatus(r, req[r], "suspended")

\* InvalidTransitionError, a deadlock victim, a lost client, a dying process:
\* get_connection rolls the whole transaction back.
Rollback(r) ==
  /\ req[r].at # "idle"
  /\ End(r)
  /\ Read(r)

-----------------------------------------------------------------------------
Begin(r, v) ==
  \/ \E parts \in ((SUBSET Nodes) \cup (SUBSET Edges)) \ {{}} : BeginAdd(r, v, parts)
  \/ \E u \in Users :
       \/ BeginFork(r, u, v) \/ BeginSubmit(r, u, v)
       \/ BeginActivate(r, u, v) \/ BeginKill(r, u, v)
       \/ \E to \in Statuses : BeginTransition(r, u, v, to)

Continue(r) ==
  \/ Insert(r) \/ Fork(r) \/ Write(r)
  \/ SubmitEdges(r) \/ SubmitIssues(r) \/ Submit(r)
  \/ FindActive(r) \/ SuspendRead(r) \/ SuspendLock(r) \/ Activate(r)
  \/ Kill(r) \/ Rollback(r)

Next ==
  \/ \E v \in Versions :
       \/ \E u \in Users : CreateDraft(u, v)
       \/ \E d \in BOOLEAN : LinkDossier(v, d)
       \/ \E r \in Requests : Begin(r, v)
  \/ \E r \in Requests : Continue(r)

Spec == Init /\ [][Next]_vars

-----------------------------------------------------------------------------
(* Properties. *)

Steps == {"idle", "insert", "fork", "write", "edges", "issues", "submit", "find",
          "suspend", "lock", "target", "kill"}

\* Every column and every request's memory has its type; a version has an
\* author (created_by is NOT NULL).
TypeOK ==
  /\ status \in [Versions -> Statuses \cup {"absent"}]
  /\ author \in [Versions -> Users \cup {NoUser}]
  /\ \A v \in Versions : Exists(v) => author[v] \in Users
  /\ content \in [Versions -> SUBSET Parts]
  /\ dossier_approved \in [Versions -> BOOLEAN]
  /\ changed_by \in [Versions -> Users \cup {NoUser}]
  /\ late \in [Versions -> Nat]
  /\ req \in [Requests ->
       [at : Steps, v : 0..MaxVersion, by : Users \cup {NoUser},
        to : Statuses \cup {"none"}, parts : SUBSET Parts, cur : 0..MaxVersion]]

\* A graph has at most one active version, however activations, kill switches
\* and transitions interleave: activate_version's own suspension of the
\* version it read as active does not ensure it, the index does.
OneActive ==
  \A v, x \in Versions : status[v] = "active" /\ status[x] = "active" => v = x

\* The content of an approved or active version is closed to new edits
\* (FR-ALG-11): what still lands in it was checked by _assert_content_mutable
\* before the version became immutable, so it is at most one edit for every
\* other request that was in flight then, and none when requests do not
\* overlap.
FewLateEdits ==
  \A v \in Versions : status[v] \in Immutable => late[v] < Cardinality(Requests)

\* ADR-0005: the identity that designed a financial policy is not the one
\* that activates it.  Of the code it is false: the gate and the check of the
\* activator belong to routes of their own, and post_transition reaches
\* approved and active without them.
MakerChecker ==
  \A v \in Versions :
    status[v] = "active" /\ Financial(content[v]) => changed_by[v] # author[v]
=============================================================================
