# UniWatch v2: TLA+ models, checks and proofs

This directory holds TLA+ specifications of the stateful core of UniWatch v2,
the configurations that model-check them with TLC, and proofs checked by TLAPS.
`PROJECT.json` maps every definition to the lines it models, lists the runs,
the mutated definitions that show each property can fail, the findings, the
hazards and the theorems.

## 1. The system

UniWatch v2 watches public tenders: it ingests tender pages, keeps evidence of
them, prepares bid decisions and lets analysts design *policies* (graphs of
human and automatic nodes). Two FastAPI applications (`apps/api_tender`,
`apps/api_vendor`) and a worker (`apps/worker`) work on PostgreSQL; the tender
application reaches the vendor one over HTTP (`contracts/vendor_api.py`), page
by page for offers and once per reputation fact. A request is one transaction
(`app_factory.get_connection`: commit when the route returns, rollback on any
exception) at READ COMMITTED; the worker opens a transaction per step. All
concurrency is therefore between transactions and calls: what a SELECT saw may be out of
date when the UPDATE that relies on it runs, and row locks, `WHERE` clauses and
unique indexes are what orders them.

Some parts are written and tested but not wired up: the BOQ import, the three
collectors, the outbox publisher, `mark_import_stalled` and the migration hooks
have no caller outside the tests. The worker dispatches `paged_echo` and
`tender_change_check` and raises `ValueError` for any other job type
(`apps/worker/main.py:113`), so nothing the models say of those parts happens in
a deployment yet. They are modelled as the tests drive them: one page and its
checkpoint per transaction.

| Component | State | Operations | Hard behaviour | What makes it correct |
|---|---|---|---|---|
| Job store and worker (`platform/jobs.py`, `apps/worker`) | `jobs` rows: status, lease, attempt, checkpoint | enqueue, claim, heartbeat, checkpoint, complete, fail_retry, cancel | crashes, leases that expire under a live worker, stale writers, retries | effects exactly once and in order, honest completion, no forgotten lease, retry budget, every job settles |
| Outbox (`platform/outbox.py`) | `outbox` rows | enqueue, publish_pending | delivery before marking, one failure in a batch | at-least-once, in order |
| Policy lifecycle (`algorithm/policy_store.py`, `routers/algoritm.py`) | versions with status, author, nodes, edges, dossier; transition log | draft, add nodes/edges, fork, transition, submit, activate, kill switch, link dossier | overlapping requests, check-then-update | one active version, approved content closed to new edits; nothing past approval that skipped the gate, maker is not checker (the code breaks both, section 6) |
| Policy validator (`algorithm/policy_validator.py`) | the locals of its two loops | validate_graph | Tarjan, cycles with exits | components correct, a clean graph has no trap |
| Simulation engine (`algorithm/simulation_engine.py`) | a walk | run_case, compare_versions | cycles, ambiguity, step cap | a trace is a real walk, every case ends |
| Simulation store | finished runs | insert, report | none of its own | – |
| Accounts and sessions (`platform/auth`, `audit.py`, `admin_users.py`) | users, lockout, sessions, audit rows | create, update (If-Match), disable, set password, login, logout | overlapping logins, edits, disables | lock and count agree, a lock stops guessing, audit explains versions, an ended session stays ended |
| Idempotency keys (`platform/idempotency.py`) | keys with fingerprint and response | reserve, store_response | duplicates in flight at once, reuse of a key, rollback between | a key stands for one effect, and every answer names it |
| Decisions, matching, bid readiness (`decision/*`, `routers/decision.py`, `tender/matching.py`) | go/no-go inputs, candidates, decisions, lock-ins: append-only | post inputs, post decision, compute a candidate from the vendor's pages | decisions stamped in the same instant, references across tenders, offers stored during the walk | the decision in force is not superseded, lock-ins follow their decision, no offer is missed |
| Execution ledger, calibration (`execution_ledger/*`, `calibration/*` and their routers) | evidence, facts, contributions, outcomes, loss reasons, forecast snapshots and links | napkin capture, close project, outcome, loss reason, snapshot, link | evidence committed apart, calls of the vendor service that may have worked, check-then-insert | evidence before interpretation, no reputation event lost, facts counted once (overlapping closes break it), one outcome |
| BOQ import (`bom_lines_job.py`, `boq_completeness.py`) | import row, lines, checkpoint | a page, drift, stall | drifted pages, a source that changes, repeated imports | no page skipped in silence; complete means whole (a second import breaks it) |
| Tender watch (`post_submission_tracking_job.py`, `change_tracking_store.py`, worker scheduler) | watch state, versions, change events, recalculation flags | schedule, check | leases that run out, checks run twice, several schedulers | the change events replay to the current version; one open check (two schedulers break it) |
| Collectors (`worldbank_pipeline_job.py`, `design_tender_job.py`, `procurement_plan_job.py`) | signals, checkpoint | a page | offsets and page numbers, last pages, drift | every item before the cursor is collected once or reported |
| Exception queue (`platform/exception_queue.py`) | open and closed exceptions | get-or-create, close, schedule retry | one open row for several problems | every reported drift reaches a person; every drift is reported (a payload that raises breaks it) |
| Migrations (`migrations_runner.py`), deployment authorization | ledger rows, schema, authorizations | apply_all with hooks, current_version, authorize | partial failure, two runners, quarantine | the ledger tells what ran, no gap below the current version; a failed postflight halts (the next run goes on) |
| Permissions, egress, pilot feedback, restore drill, forecasts, web client, scripts | configuration, reports | – | little state of their own | – |

## 2. Plan

Modelled so far, in the order of importance:

1. `Jobs`, with the abstract `PagedDelivery` and `JobsProofs`.
2. `PolicyLifecycle` and `PolicyProofs`.
3. `PolicySimulation` and `PolicyValidator` over the same graphs, with
   `SimulationProofs`.
4. `Accounts` and `AccountsProofs`.
5. `Decisions` over `Matching`, with the abstract `OncePerKey` and
   `DecisionsProofs`: idempotency keys, decisions, candidates, vendor pages.
6. `ExecutionLedger` and `LedgerProofs`.
7. `TenderWatch` over `SchemaDrift`, extended by `Collectors`: the jobs that
   fetch, with the exception queue and the outbox they share; `TenderProofs`.
8. `Migrations` and `MigrationsProofs`.

Left: the retries of the exception queue.

## 3. Modules

### Jobs, PagedDelivery

State: the columns of `jobs` (`status`, `lease_owner`, `attempt`, the checkpoint
as `page` and `done`), the job's rows in the outbox, and for each worker its
place in `_process_claimed_job` (`pc`), its job and what it has read. Times are
abstracted to the comparisons the code makes with `now()`: `lease_expired` for
`lease_expires_at < now()`, `retry_waiting` for `next_retry_at > now()`.

Each action is one committed transaction of the worker or one call of the
store. `CommitPage` is `process_page` together with `checkpoint`, because they
share a transaction: either the lease is still held and both commit, or
`JobNotOwned` rolls both back. `fail_retry` is two steps (`FailRead`,
`FailWrite`), since its SELECT takes no lock and its UPDATE matches on the id
alone. `MayBeLocked` is `SKIP LOCKED`: a worker may pass over a row another one
is working on. `Crash` kills a process and leaves its lease; `SlowLeaseExpires`
lets a lease run out under a live worker.

`PagedDelivery` is the promise to consumers: pages appear one at a time, in
order, each once, none after the last. `Jobs` implements it under the mapping
goal = `total`, delivered = `outbox`.

### PolicyLifecycle

One policy graph, its versions by `version_number`, and a set of requests in
flight, each at its next statement with what its transaction has read. A
SELECT is a step; the writes take effect with the commit, as READ COMMITTED
shows them to others. `activate_version` updates the superseded version some
statements before it commits, so it holds that row's lock in between
(`LockFree`), and migration 0019's partial unique index is the guard
`IndexAllows`. `late` is a history variable: the edits that have landed in a
version since it became immutable. `BeginTransition` takes any status, as the
`/transition` route does: `approved` without the gate, and `active` without the
comparison of maker and checker. Which contents are free of validator issues is
the constant `CleanContents`; the validator itself is modelled in
`PolicyValidator`.

### PolicySimulation, PolicyValidator

`PolicySimulation` is `run_case`, one action per way an iteration of its loop
can go. `PolicyValidator` is `validate_graph` on the same graph. Its two loops
are actions: `Explore` takes a node off the frontier; `VisitRoot`, `VisitNext`
and `Return` are `_tarjan_sccs`, with `index`, `lowlink`, `stack` and `result`
as the code has them, the recursion of `strongconnect` as a stack of open calls
(`calls`) and each of its `for` loops as the positions of `out_adj[v]` it has
left (`todo`), taken in their order. `on_stack` is the membership of `stack`,
and a component is a set. The frontier is a set too: which node `pop` takes
makes no difference to a property. When both loops are done, `ValidateGraph`
reads the issues, as sets of (code, node), off the graph and what they left.
Both only read the graph, so `GateSpec` runs validator and replay one after the
other over the same one; it is what the run checks. The graphs
and cases come from `MCPolicyGraph`.

Reachability, which the properties refer to, is defined without an algorithm: a
node reaches whatever lies in every closed set of nodes that it lies in
(`Closed`, `Reach`).

### Accounts

The columns of `users` and `user_sessions`, the `object_version` of a user's
audit rows, and requests in flight. `update_user`, `disable_user` and
`authenticate_user` are split between their SELECT and the UPDATEs;
`set_password`, `create_user` and `logout` write from nothing they read. Each
UPDATE holds the row until the commit, so an UPDATE and the audit row after it
are one step. `late` is a history variable: failures counted since the lock was
last set. The idempotency key of `create_user` is left out (a replay answers
from the stored response and changes nothing).

### Decisions, OncePerKey, Matching

A POST is one transaction at its next statement: the reservation of the key,
the checks of the references, the INSERT that takes an id, the commit that
makes row, lock-ins and response visible together. The INSERT of a key waits
for a transaction that has inserted it (`KeyFree`). `CheckReferences` takes the
`decided_at` stamp and `InsertDecision` the id, so two decisions may take them
in opposite orders, and the clock may stand still between them. `Rollback` is
any error, lost connection or crash. A body is what `fingerprint()` hashes.
`OncePerKey` is the promise: per key and route at most one effect, never
replaced. `Decisions` implements it with the effect of a slot read off the
tables (`RowOf`), not off the key's row.

`Matching` is the pure part: unit canonicalisation, line types, the executable
status after reputation, the match of an offer with a line, the traffic light,
the lottery test and the lines with one strong vendor. The walk over the
vendor's pages (`BeginWalk`, `FetchPage`, `StoreCandidate`) runs while vendors
store offers whose sequence number was taken earlier, and facts about vendors
arrive between two pages. The ids of offers are unique and positive, as those
of a serial primary key are (`OffersAssumption`). Lines carry the set of materials that occur in their
text, since only that match is asked for.

### ExecutionLedger

A napkin capture commits its evidence in a transaction of its own, is read
(`Recognise`, the readings being the inputs) or is `Unreadable`, handles its
facts one by one and commits them. A call of the vendor service that fails may
have been carried out: `reports` may hold the fact or not. A capture is bound to
a correlation id of `CorrIds`, two captures possibly to the same one: the
middleware takes the client's `X-Correlation-Id` when there is one. `Enqueued`
is the get-or-create of `enqueue_exception` with both of its branches; `about`
records which fact or capture a row was written for, which in the table only the
text of the row tells. `close_project` is split at its SELECTs, and closes of a
tender may overlap. Outcomes and links are check-then-insert under unique
indexes.

### TenderWatch, SchemaDrift, Collectors

One tender of the eTender source. The source answers as it likes: it is edited
between two fetches, and sends shapes that the contracts do not know;
`SchemaDrift` is `detect_schema_drift` on payloads seen as the JSON type of each
key. What a page says of itself (`itemsInPage`, `totalItems`, `totalPages`) is a
claim apart from the lines on it (`Claims`): `record_page_fetched` adds up the
claims, while `StoreBoqLines` inserts the lines. The import stores a page with
its checkpoint in one transaction. A page that drifted is reported and passed,
unless the code subscripts a key that is missing or compares a `totalPages` that
is no number (`Readable`): then it raises, everything is rolled back, the report
included, and the job asks for the page again. Such a page changes no state, so
it is no action: `Answers` has only the pages that do not raise.

A check keeps what it found in the worker until its commit, which
`CommitAllowed` (the checkpoint under the lease) lets through or rolls back; a
lease may run out at any time, so two workers may run one check. Every worker
schedules (`ReadDue`, `EnqueueDue`), and time passes whether or not a check is
open, so a tender may have two open checks; `alone` records of a job whether the
ones before it were settled when it was enqueued. The exception queue (get or
create, close by a person, close by contract) and the outbox with its publisher
are shared by import, checks and collectors; `filed` records how many closes
happened before a drift was seen.

`Collectors` extends it with the three signal collectors, which differ in how
they page (offset or page number), in when they are done, in what makes them
raise before or after they report drift (`Usable`), and in what they keep. The items of a source and their order are constants; a source lists
an item once.

### Migrations

Files, ledger, schema and runners of `apply_all()`. A runner reads its list
once and then applies one version per transaction; DDL is not repeatable, so a
second runner's DDL fails. `Hooked` runners may quarantine a version
(preflight) or record a failed postflight. `current_version` and the comparison
of the readiness probe and of `authorize()` read the ledger; the authorization
is recorded in a later transaction.

## 4. Runs

| Run | Instance | Result |
|---|---|---|
| `jobs` | 1 job, 3 workers, 2 pages, 2 attempts, 1 crash, 2 slow expiries, fairness | 936 966 states; TypeOK, PagesExactlyOnce, CompletedMeansDone, LeaseIsAttended, RetryBudget, Settles and the refinement of PagedDelivery hold |
| `jobs_cancel` | 1 job, 1 worker | CancelPreventsClaims **fails**: cancel a running job, its worker requeues it |
| `policy_race` | 2 versions, 2 overlapping requests, a node and an edge; the people and the dossier, which nothing depends on here, are out of the view | 1 218 363 states; OneActive, FewLateEdits hold |
| `policy_maker` | 1 version, a financial node, 1 request at a time | MakerChecker **fails**: `/transition` to `approved`, past the gate, and to `active` by the designer |
| `graph_all` | all graphs of 3 nodes with up to 2 edges and 6 kinds of node, branching graphs with labels, test cases and overrides, graphs of at most one node | 348 035 states; TraceIsWalk, StepLimitMeansCycle, TarjanFindsComponents, CleanGraphHasNoTrap, CleanReplayNeverFails and WalkEnds hold |
| `accounts` | 1 user, 3 requests, 2 passwords, 2 tokens, threshold 2 | 928 878 states; CountAndLockAgree, LockStopsAttempts, AuditExplainsVersion, EndedStaysEnded hold |
| `decisions` | 2 tenders, 2 keys, 2 POSTs at once, 1 walk, 4 offers of which one is stored late, pages of 2, a clock of 2 instants | 549 357 states; OneEffectPerKey, LockInsFollowDecision, InForceIsNotSuperseded, WalkMissesNothing, LightsOnlyImprove and the refinement of OncePerKey hold |
| `ledger` | 1 tender, 1 vendor, 2 requests at once, 2 captures with 2 complaints or 1 delay, 2 correlation ids, overlapping closes | 422 882 states; EvidenceSurvives, NoReputationEventLost, CountedPerOverlap, OneOutcome hold |
| `ledger_close` | the same | CountedOnce **fails**: both closes find no contribution |
| `tender` | 2 workers that schedule, 2 imports, 2 checks, 2 collector jobs, sources of 2 pages, 2 listings, 7 page shapes, a true and a false claim | 340 252 states; NoPageSkipped, ChangeLogReplays, DriftReachesHuman, PublishedWasDelivered, CollectedOrReported hold |
| `watch_duplicate` | 2 workers | OneOpenCheck **fails**: both schedulers read the tender as due |
| `migrations` | 3 files, 3 runners of which 1 with hooks, 1 edit per file, 1 authorization | 176 690 states; LedgerTellsTruth, NoGapBelowCurrent hold |

Why these bounds are enough for what they show. *Jobs*: three workers and two
expiries of a live lease put two stale owners behind the current one, and with a
crash there is still a race of two; for `Settles` the workers that die must be
fewer than the workers; two pages distinguish a repeated page from a skipped
one; two attempts include both outcomes of `fail_retry`. A transaction of the
store touches one job, so one job makes every race about a row; the safety
theorems are about any number of them. *Policies*: two versions are what
`activate_version` deals with at a time, two overlapping requests are what
check-then-update needs; with two, `FewLateEdits` allows one late edit and
must exclude a second.
*Graphs*: three nodes have cycles with an exit inside and outside, components
reached late, and entries that do not reach each other; a fallback adds a third
edge to every node. *Accounts*: one account is all a lockout is about; three
requests put two guesses behind the one that locks, and threshold 2 keeps a
count below the lock. *Decisions*: two POSTs at once are what a duplicate, a
reuse or a race of two decisions needs; four bodies include one that names
another tender's candidate; three offers on pages of two leave a page behind
the cursor into which the late one falls. *Ledger*: one tender and two requests
make every overlap; two complaints in one capture show that each has its own
exception, two captures with two ids that they share one only when the client
says so; two overlapping closes are what `CountedPerOverlap` allows, a third one
after them what it excludes. *Tender*: two workers make one check run twice; two pages tell a
stored page from a skipped one; a second import meets the lines of the first;
the shapes drop or retype each key that the code reads.
*Migrations*: three files put a version before and after a quarantined one.
The theorems remove most of these bounds.

State constraints. `Apart` (decisions) leaves out states where a POST and a
walk are both in flight: a POST reads nothing of a walk but its stored
candidate. `Apart` (ledger) follows captures and closes, or outcomes and links,
which share no table. In `tender`, `First` picks one of alike initial values;
`Budget` allows three edits, drifts, closes and failed attempts together, two
when an edited tender is checked, one when lines have been imported, and none
beside a second open check, about which only the violating run and the theorems
speak; `Apart` follows the checks where nothing or
everything has been imported, and `Collecting` follows a collector apart from
the import and the checks, with which it shares only the queue and the outbox.
The theorems have no such constraints. `HooksOverlap` is FALSE in the runs of
`Migrations`; what happens otherwise is in section 6. Symmetry is over the
workers of the tender watch, users and requests, which no definition tells
apart; `jobs` has none, as it checks liveness.

The bounded counters are `MaxCrashes`, `MaxExpiries` (Jobs), `MaxVersion`
(PolicyLifecycle), `MaxChanges`, `MaxFailures` (Accounts), and the
`Max...` constants of Decisions, ExecutionLedger, TenderWatch, Collectors and
Migrations; each appears in the guards and is named in the module. Deadlock is checked in `Jobs` and
`PolicyLifecycle`. It is not checked for a replay, which ends, nor for
the other modules, where the bounds on rows, edits and changes are used up.

Fairness. `Jobs`: a live worker keeps taking its next step (`run_forever` loops
without an exit), a retry time comes, and the lease of a dead worker runs out;
nothing is assumed of clients, heartbeats, errors or crashes. `PolicySimulation`:
`run_case` is a sequential loop, so it takes its next step; so do the loops of
the validator before it (`GateSpec`). The other runs
check safety only and assume no fairness.

## 5. Proofs

All theorems hold for every value of the constants under the modules' named
assumptions, which TLC also evaluates on the instances.

`JobsProofs` (any number of jobs, workers, pages, attempts, crashes, expiries).
`PagesExactlyOnce` is not inductive: a worker writes the page after the one it
*read*, so the invariant adds that a worker that holds the lease and is at
"page" has read the current checkpoint (`CopiesAreExact`). Likewise the retry budget needs that an
attempt remembered for a later write is below the limit, and honest completion
needs that a worker about to complete has seen committed work. Each theorem is
`Init => Inv`, one step per action, and a PTL step; `Refinement` maps every
step to a `Deliver`, a `Submit` or a stutter.

`PolicyProofs` (any versions, users, requests). Type correctness, then
`OneActive`, which rests on the index at the commit (`IndexAllows`) and not on
the suspension that `activate_version` itself performs. `LateEditsAreFew`
counts: an edit that lands in an immutable version was checked before, so it is
in flight when the version becomes immutable; the edits in flight and those that
have landed since leave out at least the request that wrote the status, and
nobody joins while the version is immutable. Both hold of overlapping requests
and of every use of the routes.

`AccountsProofs` (any users, tokens, finitely many requests, any threshold).
The type invariant needs that a version never exceeds the length of the audit
trail, and that what a request remembers exists. `LockHolds` counts: the
guesses in flight and those counted since the lock leave out at least the
request that set it, and nobody joins while the lock holds. `TrailExplains`
splits the changes into those that log their version and those that log none.
`EndedForGood` is an action property from the type invariant.

`SimulationProofs` (graphs and cases of any size). `TraceIsWalk` is inductive
with the types; `LimitMeansCycle` adds that every node left is in the graph and
applies the pigeonhole principle. `GateWalks` carries both over to validator and
replay together.

`TarjanCorrect` is the partial correctness of Tarjan's algorithm for every
graph. The invariant (`TarjanInv`; TLC confirmed it on the graphs of
`graph_all` before it was proved) has these parts: both stacks are in the order
of the visits (`Ordered`); a visited node is on the stack or in a component
(`Colours`); taken ways lead to visited nodes (`Loops`); nothing leads out of
the components found, and each is a class (`Found`); an open call reaches
everything above it on the stack (`Down`), and everything on the stack reaches
an open call at or below it (`Up`); a lowlink is the index of a node on the stack
that can be reached (`LowIsReached`), and the lowlink of an open call is at
most the index of any node on the stack that a taken way leads to, from any
node that the call answers for (`LowIsLeast`). When lowlink and index of the
topmost call agree, `Down` and `Up` make the part of the stack from it up
strongly connected, and `LowIsLeast` with `Found` shows that nothing else
belongs to it (`ComponentIsClass`); when they differ, `LowIsReached` is what
keeps `Up`. There is no induction over paths, because `Reach` has none.

`FrontierCorrect` needs that every way out of what has left the frontier was
followed. `CleanGraphs` then takes, from any node, a node it reaches that
reaches as few nodes as any: what that node reaches is its class
(`FinalNode`), so it is one of Tarjan's components, and an exit that
`_cycle_issues` accepts is a person or a fallback that would lead out of a
closed set. `CleanReplay` adds that, where no edge dangles, the walk is at a
node of the graph (`AtNode`). `ScanShrinks` and `WalkProgress` are what can be
said of termination without fairness: each step makes a bounded quantity
smaller.

`DecisionsProofs` (any keys, bodies, tenders, requests). `OneEffectPerKey` is
not inductive: the invariant `KeyInv` adds that a committed row is the stored
answer of its key and the other way round, that no key is committed without its
answer, and that a transaction past its reservation is alone on its key, whose
answer is still missing (`HoldersAlone`). Then the commit of a POST is one
lemma for both routes, and `RoutesRefineOncePerKey` follows because the effect
of a slot equals its stored answer (`RowIsAnswer`), which a step sets at most
once. `DecisionInv` orders the decisions: whatever was committed when one was
asked for has a smaller id and no later stamp, so that by stamp and id the last
one is not superseded (`InForceIsLatest`), and a request that has checked its
references inserts lock-ins of the candidate it read
(`LockInsAreOfDecision`). `WalkInv` says that a walk holds the offers up to its
cursor in the order of their ids, and all of those it owes
(`WalkIsComplete`); a late offer may fall behind the cursor, but was not owed.
`PagesOnlyImprove` is an action property: a praise that was read is a fact that
stays, so the offer that replaces an earlier one of a praised vendor was read
under the same praise. `DecisionsTypeCorrect` rests on the three invariants,
and on the route of a request following from its body: what reaches `check` is
not a request for go/no-go inputs, so a decision is of one of `DecisionTypes`.

`LedgerProofs` (any tenders, vendors, readings, correlation ids, requests).
`CaptureInv` says what a request carries between its transactions: its capture
is stored, so are the captures of its drafts, and every fact it holds is
reported or asked about under the correlation id of its capture and its own
index (`Carries`). An exception under that id is the fact's own unless another
stored capture carries the same id, which is what `NoReputationEventLost` says;
without the last clause it is false (section 6). `OutcomeIsUnique`
needs no more than the unique indexes. `FactsCountedPerOverlap` counts: a
contribution of a category needs a close that probed before there was any, so
the contributions made and the closes that may still make one are together no
more than the requests; and what a close is going to contribute is a count that
the stored facts support. `LedgerTypeCorrect` needs the types and the finiteness
of what a request holds until its commit.

`MigrationsProofs` (any files, runners, edits, people). `NoGap` holds whatever
overlaps: the DDL that ran is a prefix of the files, because whatever comes
before a version in a runner's list has run or comes earlier in the same list
(`PrefixInv`). `LedgerIsTrue` assumes that a runner with hooks is alone: it
adds that such a runner's versions are still unapplied when it quarantines one
(`TruthInv`). `MigrationsTypeCorrect` also says that the approver of a recorded
authorization is not its initiator: `deployment_authorizations` has no
constraint for it, so the proof carries the comparison that `authorize()` makes
over to the later transaction that writes the row.

`TenderProofs` (any workers, listings, shapes, sources, jobs). Types first.
`QueueInv` adds what a worker holds until its commit: the drift it will report
is answered by the exceptions it will add, or by a row that is open or was
closed later (`DriftIsAnswered`); with it goes the order of delivery and mark
(`DeliveredBeforePublished`). `CheckpointIsHonest` is inductive once outbox
rows keep their correlation id and page (`RowsKept`). `LogIsHistory` is about
any number of workers, all of them schedulers: while no check was enqueued
beside an open one there is one open check, whoever owns the job read the
current version, and a worker that lost the job cannot commit (`LogInv`). When
two checks are open the log does not replay, and the premise of
`ChangeLogReplays` is what `watch_duplicate` shows the code not to ensure.
For `CollectorsPassNothing` a cursor is a whole number of pages, whatever is stored
or reported under a job's number lies before its cursor, and nothing is under
the number of a later job (`CollectInv`); the rest is division by the size of a
page.

Left to TLC: liveness (`Settles`, `WalkEnds`), which needs fairness and ENABLED.
Every other property of the passing runs is stated by a theorem.

## 6. What the models show of the code

Four runs expect a violation; each is a `finding` in `PROJECT.json` with the
line of the code and the sentence it contradicts.

- A job cancelled while it runs goes back to the queue (`jobs_cancel`).
- `/transition` reaches `approved` without the gate, whatever the content, and
  `active` without the comparison of maker and checker: the designer of a
  financial version takes it through both alone (`policy_maker`).
- Two overlapping closes of a project count its facts twice (`ledger_close`).
- Two workers, or a check open for longer than the interval, put two checks of
  one tender into the queue (`watch_duplicate`). Both compare with the version
  they read: one change is logged twice, or a version is replaced without an
  event.

Other behaviour of the code that the models reproduce or were met while writing
them, without a run of its own:

- Policies: two overlapping transitions read one status, and the later write
  leaves a status that the table forbids from the current one, although
  `policy_store.py:14` says that a status changes "always through
  can_transition()"; a suspended version can be edited and reactivated; an edit
  that was in flight lands in a version that has been approved meanwhile
  (`FewLateEdits` bounds them); a graph without issues may be refused by the
  replay for having two entries or none.
- Ledger: facts with the same index of two captures under one client
  `X-Correlation-Id` share an open exception, the collapse that the comment at
  `execution_ledger.py:244` means to exclude by the suffix of a fact.
- Accounts: two overlapping edits under one `If-Match` both pass;
  `set_password` leaves sessions open.
- Completeness: `fetched_pages` and `stored_lines` are the tender's and add up
  over its imports, so a second import of an edited tender can be complete with
  a page that was never fetched; and `stored_lines` adds up what the source
  claims, so a wrong `itemsInPage` makes an import complete that has fewer rows,
  or keeps a whole one from being complete, although `boq_completeness.py:3`
  says "complete only after every expected page has been fetched". No property
  is stated of `complete` for that reason. A second import cannot pass a page whose lines are stored, since
  they are inserted plainly. A source that never sends `totalPages` never lets a
  job be done.
- Drift: an open exception absorbs later drifts of the same correlation id,
  also of another contract, and every check of a tender has the same
  correlation id; closing the row for one contract closes it for all. A
  payload without `currentPage` raises before drift is looked for, and one whose
  `totalPages` is no number (`bom_lines_job.py:78`, `design_tender_job.py:58`,
  `procurement_plan_job.py:57`) raises after its drift was reported: the report
  is rolled back, no person sees it and every retry meets the same page. So does
  a World Bank response without `projects` or `total`.
  `DriftReachesHuman` is about the drift that is committed.
- Lines that change while the details do not are not noticed by a check.
- Outbox: one event whose delivery always fails keeps its batch from being
  marked, and the events before it are delivered again each time.
- Migrations: after a failed postflight the next `apply_all` goes on with the
  following version, although `migrations_runner.py:19` says that it halts
  further migrations; a runner with hooks that overlaps with another one can
  quarantine, with a stale list, a version that has been applied
  (`HooksOverlap = TRUE`); `assert_schema_up_to_date` is not called at startup.

## 7. Not modelled

Listed under `components` with their reasons: the simulation store and the
shadow comparison (finished results written once, and reports over them), permissions (static configuration
evaluated before an operation begins), egress control, pilot feedback (single
inserts), the restore drill, invariant checks and alerts (calls of `pg_dump`
and `pg_restore`, reads), the web client and scripts. Of modelled components:
`schedule_retry` of the exception queue; raw snapshots, which are only
inserted; page-scoped tenders of the import, which nothing reads; the
deployment manifest's contents. Left out throughout: formatting and wording of
messages, OCR, HTTP parsing, decimal arithmetic of reports.
