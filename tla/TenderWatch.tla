----------------------------- MODULE TenderWatch -----------------------------
(* What the worker knows of one tender of the eTender source: the import of  *)
(* its bill of quantities page by page (packages/tender/bom_lines_job.py,    *)
(* boq_completeness.py), the checks for changes after a bid                  *)
(* (post_submission_tracking_job.py, apps/worker/main.py), the drift both    *)
(* report to the exception queue and the outbox (packages/platform), and the *)
(* publisher of the outbox.                                                  *)
(*                                                                           *)
(* The source answers as it likes: it may edit the tender between any two    *)
(* fetches and send a shape the contracts do not know.  A transaction's      *)
(* writes stay with the worker until its commit.  Page-scoped tenders and    *)
(* their versions are left out: nothing reads them.                          *)
EXTENDS Integers, Sequences, FiniteSets, SchemaDrift

CONSTANTS
  Workers,
  Details,         \* values of the tender's fields
  Listings,        \* bills of quantities: a sequence of pages, a page a set of lines
  ExtraClaims,     \* what a page may say of the listing beside the truth
  PageContract, ItemContract, DetailsContract,
  PageShapes, ItemShapes, DetailsShapes,   \* payloads by the types of their keys
  MaxEdits, MaxImports, MaxChecks, MaxPage, MaxClock, MaxDrifts, MaxCloses, MaxAttempts, MaxVersions

Fields == {"end_date", "tender_name"}
DeadlineFields == {"end_date"}

\* A line as build_boq_lines makes it: its source_line_id and the fields that
\* are compared, as one fingerprint.
Line == [id : Nat, fp : Nat]

ASSUME WatchAssumption ==
  /\ Details \subseteq [Fields -> Nat]
  /\ \A l \in Listings :
       l \in Seq(SUBSET Line) /\ \A p \in DOMAIN l : IsFiniteSet(l[p])
  /\ ExtraClaims \subseteq [count : Nat, total : Nat, pages : Nat]
  /\ \A n \in {MaxEdits, MaxImports, MaxChecks, MaxPage, MaxClock, MaxDrifts, MaxCloses, MaxAttempts, MaxVersions} :
       n \in Nat

VARIABLES
  source,      \* what eTender answers now: details, listing, and the edits so far
  imp, lines,  \* the boq_import row and the boq_lines rows
  ijob,        \* the import job: number, next_page, done, totalPages last seen
  versions,    \* the tender's versions; the last one is current
  events, flags,   \* tender_change_events, boq_line_recalc_flags
  tracked, watch, clock,   \* a bid stands; tender_watch_state; time in intervals
  jobs,        \* tender_change_check jobs
  wk,          \* what each worker is doing
  exceptions, outbox, delivered, closes

market == <<source, clock>>
boq    == <<imp, lines, ijob>>
log    == <<versions, events, flags, watch>>
drift  == <<exceptions, outbox>>
vars   == <<market, boq, log, drift, tracked, jobs, wk, delivered, closes>>

-----------------------------------------------------------------------------
(* The source. *)

NoTotal == -1

AllLines(listing) == UNION {listing[p] : p \in DOMAIN listing}
LineIds(ls) == {l.id : l \in ls}
ItemsOn(p) == IF p \in DOMAIN source.listing THEN source.listing[p] ELSE {}

\* What the payload says of itself: itemsInPage, totalItems and totalPages.
\* Nothing ties them to the lines that are on the page.
Claims(p) ==
  {[count |-> Cardinality(ItemsOn(p)), total |-> Cardinality(AllLines(source.listing)),
    pages |-> Len(source.listing)]} \cup ExtraClaims

Has(shape, key) == key \in DOMAIN shape /\ shape[key] # "null"

\* One answer for page p; a claim whose key is null or missing is NoTotal.
Answer(p, shape, item, claim) ==
  [items    |-> ItemsOn(p),
   claimed  |-> IF Has(shape, "itemsInPage") THEN claim.count ELSE NoTotal,
   total    |-> IF Has(shape, "totalItems") THEN claim.total ELSE NoTotal,
   pages    |-> IF Has(shape, "totalPages") THEN claim.pages ELSE NoTotal,
   contract |-> DriftedContract(PageContract, ItemContract, shape,
                                IF ItemsOn(p) = {} THEN {} ELSE {item})]

\* currentPage is subscripted before drift is looked for, and totalPages is
\* compared with a number after it was reported: either may raise, and the
\* transaction is rolled back, the report of a drift with it.  Such a page
\* leaves nothing behind: the job asks for it again until it answers another
\* way or the job stops.
Comparable(shape) ==
  "totalPages" \in DOMAIN shape => shape["totalPages"] \notin {"string", "array", "object"}
Readable(shape) == "currentPage" \in DOMAIN shape /\ Comparable(shape)
PageAnswers == {s \in PageShapes : Readable(s)}

Answers(p) ==
  {Answer(p, shape, item, claim) : shape \in PageAnswers, item \in ItemShapes, claim \in Claims(p)}

\* The customer edits the tender.
Edit(d, l) ==
  /\ source.edits < MaxEdits /\ <<d, l>> # <<source.details, source.listing>>
  /\ source' = [details |-> d, listing |-> l, edits |-> source.edits + 1]
  /\ UNCHANGED <<clock, boq, log, drift, tracked, jobs, wk, delivered, closes>>

-----------------------------------------------------------------------------
(* Drift: the exception queue and the outbox. *)

\* An exception of type schema_drift; closed says which close it was, 0 none.
ExceptionRow(corr, contract, closed) == [corr |-> corr, contract |-> contract, closed |-> closed]

\* A form that also reuses a row that has been closed.
OpenRow_AnyStatus(rows, corr) == {x \in rows : x.corr = corr}

\* The open row of the same source, type and correlation id.
OpenRow(rows, corr) == {x \in rows : x.corr = corr /\ x.closed = 0}

\* enqueue_exception: get or create.
Filed(pending, corr, contract) ==
  IF OpenRow(exceptions \cup pending, corr) # {} THEN pending
  ELSE pending \cup {ExceptionRow(corr, contract, 0)}

\* The schema_drift_event of a response; filed is how many closes came before.
OutboxRow(corr, contract, page, filed, status) ==
  [corr |-> corr, contract |-> contract, page |-> page, filed |-> filed, status |-> status]
DriftEvent(corr, contract, page) == OutboxRow(corr, contract, page, closes, "pending")

\* The row after its delivery.
Published(d) == OutboxRow(d.corr, d.contract, d.page, d.filed, "published")

Closed(x) == ExceptionRow(x.corr, x.contract, closes + 1)

\* close_exception, by a person; closing again changes nothing.
CloseException(x) ==
  /\ closes < MaxCloses /\ x.closed = 0
  /\ exceptions' = (exceptions \ {x}) \cup {Closed(x)}
  /\ closes' = closes + 1
  /\ UNCHANGED <<market, boq, log, outbox, tracked, jobs, wk, delivered>>

\* close_matching_needs_human: a contract is fixed.
CloseMatching(contract) ==
  LET named == {x \in exceptions : x.contract = contract /\ x.closed = 0} IN
  /\ closes < MaxCloses /\ named # {}
  /\ exceptions' = (exceptions \ named) \cup {Closed(x) : x \in named}
  /\ closes' = closes + 1
  /\ UNCHANGED <<market, boq, log, outbox, tracked, jobs, wk, delivered>>

Pending == {i \in DOMAIN outbox : outbox[i].status = "pending"}

\* A form that marks the whole batch whatever was delivered.
PublishPending_MarkAll(n) ==
  /\ Pending # {} /\ n <= Cardinality(Pending)
  /\ delivered' = delivered \cup {i \in Pending : Cardinality({k \in Pending : k < i}) < n}
  /\ outbox' = [i \in DOMAIN outbox |-> Published(outbox[i])]
  /\ UNCHANGED <<market, boq, log, exceptions, tracked, jobs, wk, closes>>

\* publish_pending delivers the batch in order, in one transaction: when the
\* delivery after the first n fails, or the process dies, no row is marked.
PublishPending(n) ==
  /\ Pending # {} /\ n <= Cardinality(Pending)
  /\ delivered' = delivered \cup {i \in Pending : Cardinality({k \in Pending : k < i}) < n}
  /\ IF n = Cardinality(Pending)
     THEN outbox' = [i \in DOMAIN outbox |-> Published(outbox[i])]
     ELSE UNCHANGED outbox
  /\ UNCHANGED <<market, boq, log, exceptions, tracked, jobs, wk, closes>>

-----------------------------------------------------------------------------
(* The import of the bill of quantities. *)

\* boq_import: the row is created by the first page that is recorded.
ImportRow(total, pages, fetched, stored, status, sums, missing) ==
  [total |-> total, pages |-> pages, fetched |-> fetched, stored |-> stored,
   status |-> status, sums |-> sums, missing |-> missing]
NoImport == ImportRow(NoTotal, NoTotal, 0, 0, "in_progress", {}, {})

ImportCorr(k) == <<"import", k>>

StartImport ==
  /\ ~tracked /\ ijob.at # "running" /\ ijob.k < MaxImports
  /\ ijob' = [k |-> ijob.k + 1, at |-> "running", next |-> 1, last |-> NoTotal]
  /\ UNCHANGED <<market, imp, lines, log, drift, tracked, jobs, wk, delivered, closes>>

\* A form that stops one page early.
Done_Early(page, pages) == pages # NoTotal /\ page + 1 >= pages

\* Without a total the job is never done.
Done(page, pages) == pages # NoTotal /\ page >= pages

\* The job's checkpoint after a page, committed with it.
Checkpoint(a) ==
  ijob' = [k |-> ijob.k, at |-> IF Done(ijob.next, a.pages) THEN "done" ELSE "running",
           next |-> ijob.next + 1, last |-> a.pages]

\* record_page_fetched
StatusAfter(fetched, stored, a) ==
  IF a.total = NoTotal \/ a.pages = NoTotal THEN "source_exhausted_unverified"
  ELSE IF fetched = a.pages /\ stored = a.total THEN "complete"
  ELSE "in_progress"

Recorded(a, page) ==
  LET fetched == imp.fetched + 1
      stored  == imp.stored + a.claimed
  IN ImportRow(a.total, a.pages, fetched, stored, StatusAfter(fetched, stored, a),
               imp.sums \cup {page}, imp.missing)

\* process_bom_lines_page, the page does not fit its contract.
ImportDriftedPage(a) ==
  /\ ijob.at = "running" /\ ijob.next <= MaxPage
  /\ a.contract # "none" /\ Len(outbox) < MaxDrifts
  /\ outbox' = Append(outbox, DriftEvent(ImportCorr(ijob.k), a.contract, ijob.next))
  /\ exceptions' = exceptions \cup Filed({}, ImportCorr(ijob.k), a.contract)
  /\ Checkpoint(a)
  /\ UNCHANGED <<market, imp, lines, log, tracked, jobs, wk, delivered, closes>>

\* A plain INSERT: a line that is there already aborts the transaction.
StoreBoqLines(items) ==
  /\ LineIds(items) \cap LineIds(lines) = {}
  /\ lines' = lines \cup items

\* The page fits.  When itemsInPage is null, or a line cannot be stored, the
\* job tries the page again.
ImportPage(a) ==
  /\ ijob.at = "running" /\ ijob.next <= MaxPage
  /\ a.contract = "none" /\ a.claimed # NoTotal
  /\ imp' = Recorded(a, ijob.next)
  /\ StoreBoqLines(a.items)
  /\ Checkpoint(a)
  /\ UNCHANGED <<market, log, drift, tracked, jobs, wk, delivered, closes>>

\* The job is cancelled, or its attempts are used up.
ImportStops ==
  /\ ijob.at = "running"
  /\ ijob' = [k |-> ijob.k, at |-> "stopped", next |-> ijob.next, last |-> ijob.last]
  /\ UNCHANGED <<market, imp, lines, log, drift, tracked, jobs, wk, delivered, closes>>

MarkImportStalled ==
  /\ ijob.at = "stopped"
  /\ imp.status \notin {"complete", "source_exhausted_unverified"} /\ imp.pages # NoTotal
  /\ imp' = ImportRow(imp.total, imp.pages, imp.fetched, imp.stored, "incomplete", imp.sums,
                      (1..imp.pages) \ imp.sums)
  /\ UNCHANGED <<market, lines, ijob, log, drift, tracked, jobs, wk, delivered, closes>>

-----------------------------------------------------------------------------
(* The checks after a bid. *)

NoVersion == << >>
WatchCorr == <<"watch", 0>>

Memo(at, job, seen, prev, new, page, found, drifts, asked) ==
  [at |-> at, job |-> job, seen |-> seen, prev |-> prev, new |-> new, page |-> page,
   found |-> found, drifts |-> drifts, asked |-> asked]
Start(at, job) == Memo(at, job, 0, NoVersion, NoVersion, 0, {}, << >>, {})
Idle == Start("idle", 0)

Go(w, rec) == wk' = [wk EXCEPT ![w] = rec]

Init ==
  /\ \E d \in Details, l \in Listings :
       /\ source = [details |-> d, listing |-> l, edits |-> 0]
       /\ versions = <<d>>
  /\ imp = NoImport /\ lines = {}
  /\ ijob = [k |-> 0, at |-> "none", next |-> 1, last |-> NoTotal]
  /\ events = << >> /\ flags = {}
  /\ tracked = FALSE /\ watch = -1 /\ clock = 0
  /\ jobs = << >>
  /\ wk = [w \in Workers |-> Idle]
  /\ exceptions = {} /\ outbox = << >> /\ delivered = {} /\ closes = 0

\* create_decision of module Decisions: the tender has an active bid.
Decide ==
  /\ ~tracked /\ ijob.at # "running"
  /\ tracked' = TRUE
  /\ UNCHANGED <<market, boq, log, drift, jobs, wk, delivered, closes>>

Settled(j) == jobs[j].status \in {"completed", "failed"}

\* The poll interval passes, whether or not the last check is over.
Tick ==
  /\ clock < MaxClock
  /\ clock' = clock + 1
  /\ UNCHANGED <<source, boq, log, drift, tracked, jobs, wk, delivered, closes>>

\* list_tenders_due_for_check
Due == tracked /\ (watch = -1 \/ watch <= clock - 1)

\* enqueue_due_tender_checks, of every worker, reads what is due.
ReadDue(w) ==
  /\ wk[w].at = "idle" /\ Due /\ Len(jobs) < MaxChecks
  /\ Go(w, Start("schedule", 0))
  /\ UNCHANGED <<market, boq, log, drift, tracked, jobs, delivered, closes>>

UpsertWatchState(t) == watch' = t

\* A tender_change_check job; done is its checkpoint, alone (history) whether
\* the checks before it were settled when it was enqueued.
JobRow(status, owner, done, attempt, alone) ==
  [status |-> status, owner |-> owner, done |-> done, attempt |-> attempt, alone |-> alone]

\* It enqueues a check and marks the tender as checked, in one transaction.
EnqueueDue(w) ==
  /\ wk[w].at = "schedule" /\ Len(jobs) < MaxChecks
  /\ jobs' = Append(jobs, JobRow("pending", w, FALSE, 0, \A j \in DOMAIN jobs : Settled(j)))
  /\ UpsertWatchState(clock)
  /\ Go(w, Idle)
  /\ UNCHANGED <<market, boq, versions, events, flags, drift, tracked, delivered, closes>>

\* claim: a pending job, or one whose lease has run out, whoever holds it.
Claim(w, j) ==
  /\ wk[w].at = "idle" /\ jobs[j].status \in {"pending", "leased"}
  /\ jobs' = [jobs EXCEPT ![j] = JobRow("leased", w, jobs[j].done, jobs[j].attempt, jobs[j].alone)]
  /\ Go(w, Start("previous", j))
  /\ UNCHANGED <<market, boq, log, drift, tracked, delivered, closes>>

Owns(w) == jobs[wk[w].job].status = "leased" /\ jobs[wk[w].job].owner = w

\* What current_version_id of the tenders row points at.
Current == versions[Len(versions)]

\* check_tender_for_changes up to its first fetch: the current fields.
ReadPrevious(w) ==
  /\ wk[w].at = "previous"
  /\ Go(w, Memo("details", wk[w].job, clock, Current, NoVersion, 0, {}, << >>, {}))
  /\ UNCHANGED <<market, boq, log, drift, tracked, jobs, delivered, closes>>

\* diff_normalized_fields
Diff(old, new) ==
  {[field |-> f, old |-> old[f], new |-> new[f]] : f \in {g \in Fields : old[g] # new[g]}}

\* classify_change_type
ClassifyChangeType(changes) ==
  IF \E c \in changes : c.field \in DeadlineFields THEN "deadline_shift" ELSE "document_changed"

\* The id is subscripted first: without it the check fails.
DetailsAnswers == {s \in DetailsShapes : "id" \in DOMAIN s}

\* create_normalized_version: the INSERT waits for another transaction's with
\* the same number.
VersionFree(w) == \A v \in Workers \ {w} : wk[v].new = NoVersion

\* The event details arrive and fit the contract: a new version, and the
\* lines are walked only if the fields have changed.
FetchDetails(w, shape) ==
  /\ wk[w].at = "details" /\ VersionFree(w) /\ Len(versions) < MaxVersions
  /\ ~HasDrift(DetectSchemaDrift(DetailsContract, shape))
  /\ Go(w, Memo(IF Diff(wk[w].prev, source.details) = {} THEN "commit" ELSE "walk",
                wk[w].job, wk[w].seen, wk[w].prev, source.details, 1, {}, << >>, {}))
  /\ UNCHANGED <<market, boq, log, drift, tracked, jobs, delivered, closes>>

\* They do not: no version, no walk.
DriftedDetails(w, shape) ==
  /\ wk[w].at = "details" /\ Len(outbox) < MaxDrifts
  /\ HasDrift(DetectSchemaDrift(DetailsContract, shape))
  /\ Go(w, Memo("commit", wk[w].job, wk[w].seen, wk[w].prev, NoVersion, 0, {},
                <<DriftEvent(WatchCorr, "details", 0)>>, Filed({}, WatchCorr, "details")))
  /\ UNCHANGED <<market, boq, log, drift, tracked, jobs, delivered, closes>>

\* One page of the walk, after a heartbeat; a drifted page gives no lines.
WalkPage(w, a) ==
  LET m == wk[w]
      last == a.pages = NoTotal \/ m.page >= a.pages
  IN
  /\ m.at = "walk" /\ Owns(w)
  /\ a.contract # "none" => Len(outbox) + Len(m.drifts) < MaxDrifts
  /\ Go(w, Memo(IF last THEN "commit" ELSE "walk", m.job, m.seen, m.prev, m.new, m.page + 1,
                IF a.contract = "none" THEN m.found \cup a.items ELSE m.found,
                IF a.contract = "none" THEN m.drifts
                ELSE Append(m.drifts, DriftEvent(WatchCorr, a.contract, m.page)),
                IF a.contract = "none" THEN m.asked ELSE Filed(m.asked, WatchCorr, a.contract)))
  /\ UNCHANGED <<market, boq, log, drift, tracked, jobs, delivered, closes>>

\* diff_boq_lines: added, removed, or with another fingerprint.
DiffLines(old, new) == LineIds((old \ new) \cup (new \ old))

ChangeEvent(changes) == [type |-> ClassifyChangeType(changes), changes |-> changes]
RecalcFlags(event, ids) == {[event |-> event, line |-> l] : l \in ids}

\* A form that writes the checkpoint whoever holds the lease.
CommitAllowed_Any(w) == wk[w].at = "commit"

\* store.checkpoint in the check's transaction: JobNotOwned rolls it back.
CommitAllowed(w) == wk[w].at = "commit" /\ Owns(w)

\* The commit: version, change event, flags, drift and watch state.
CommitCheck(w) ==
  LET m == wk[w]
      changes == IF m.new = NoVersion THEN {} ELSE Diff(m.prev, m.new)
  IN
  /\ CommitAllowed(w)
  /\ versions' = IF m.new = NoVersion THEN versions ELSE Append(versions, m.new)
  /\ IF changes = {} THEN UNCHANGED <<events, flags>>
     ELSE /\ events' = Append(events, ChangeEvent(changes))
          /\ flags' = flags \cup RecalcFlags(Len(events) + 1, DiffLines(lines, m.found))
  /\ UpsertWatchState(m.seen)
  /\ outbox' = outbox \o m.drifts
  /\ exceptions' = exceptions \cup m.asked
  /\ jobs' = [jobs EXCEPT ![m.job] =
                 JobRow("leased", w, TRUE, jobs[m.job].attempt, jobs[m.job].alone)]
  /\ Go(w, Start("complete", m.job))
  /\ UNCHANGED <<market, boq, tracked, delivered, closes>>

Complete(w) ==
  /\ wk[w].at = "complete" /\ Owns(w)
  /\ jobs' = [jobs EXCEPT ![wk[w].job] =
                 JobRow("completed", w, jobs[wk[w].job].done, jobs[wk[w].job].attempt,
                        jobs[wk[w].job].alone)]
  /\ Go(w, Idle)
  /\ UNCHANGED <<market, boq, log, drift, tracked, delivered, closes>>

\* An error: the transaction is rolled back and fail_retry counts the
\* attempt, unless the job has a new owner.
Fail(w) ==
  LET j == wk[w].job
      n == jobs[j].attempt + 1
  IN
  /\ wk[w].at \notin {"idle", "schedule"}
  /\ IF Owns(w)
     THEN jobs' = [jobs EXCEPT ![j] =
                     JobRow(IF n < MaxAttempts THEN "pending" ELSE "failed", w, jobs[j].done, n,
                            jobs[j].alone)]
     ELSE UNCHANGED jobs
  /\ Go(w, Idle)
  /\ UNCHANGED <<market, boq, log, drift, tracked, delivered, closes>>

\* The process dies: its transaction is gone, its lease runs out.
Crash(w) ==
  /\ wk[w].at # "idle"
  /\ Go(w, Idle)
  /\ UNCHANGED <<market, boq, log, drift, tracked, jobs, delivered, closes>>

-----------------------------------------------------------------------------
ImportStep ==
  \/ StartImport \/ ImportStops \/ MarkImportStalled
  \/ \E a \in Answers(ijob.next) : ImportPage(a) \/ ImportDriftedPage(a)

WorkerStep(w) ==
  \/ ReadDue(w) \/ EnqueueDue(w)
  \/ \E j \in DOMAIN jobs : Claim(w, j)
  \/ ReadPrevious(w)
  \/ \E shape \in DetailsAnswers : FetchDetails(w, shape) \/ DriftedDetails(w, shape)
  \/ \E a \in Answers(wk[w].page) : WalkPage(w, a)
  \/ CommitCheck(w) \/ Complete(w) \/ Fail(w) \/ Crash(w)

Next ==
  \/ \E d \in Details, l \in Listings : Edit(d, l)
  \/ ImportStep
  \/ Decide \/ Tick
  \/ \E w \in Workers : WorkerStep(w)
  \/ \E x \in exceptions : CloseException(x)
  \/ \E c \in {x.contract : x \in exceptions} : CloseMatching(c)
  \/ \E n \in 0..MaxDrifts : PublishPending(n)

Spec == Init /\ [][Next]_vars

-----------------------------------------------------------------------------
(* Properties. *)

\* The rows of the outbox and of the exception queue, the collectors' too.
Corrs == {"import", "watch", "worldbank", "design", "plan"} \X Nat
ContractNames == {"page", "item", "details", "worldbank", "worldbank_item", "design", "plan", "plan_item"}
OutboxRows == [corr : Corrs, contract : ContractNames, page : Nat, filed : Nat,
               status : {"pending", "published"}]
ExceptionRows == [corr : Corrs, contract : ContractNames, closed : Nat]

Memos ==
  [at : {"idle", "schedule", "previous", "details", "walk", "commit", "complete"},
   job : Nat, seen : Nat, prev : Details \cup {NoVersion}, new : Details \cup {NoVersion},
   page : Nat, found : SUBSET Line, drifts : Seq(OutboxRows), asked : SUBSET ExceptionRows]

ImportRows ==
  [total : Int, pages : Int, fetched : Nat, stored : Nat,
   status : {"in_progress", "complete", "incomplete", "source_exhausted_unverified"},
   sums : SUBSET Nat, missing : SUBSET Nat]
ImportJobs == [k : Nat, at : {"none", "running", "stopped", "done"}, next : Nat, last : Int]
JobRows == [status : {"pending", "leased", "completed", "failed"}, owner : Workers,
            done : BOOLEAN, attempt : Nat, alone : BOOLEAN]

ChangeEvents == [type : {"deadline_shift", "document_changed"},
                 changes : SUBSET [field : Fields, old : Nat, new : Nat]]
Checking == {"details", "walk", "commit"}

TypeOK ==
  /\ source \in [details : Details, listing : Listings, edits : Nat]
  /\ lines \subseteq Line
  /\ imp \in ImportRows
  /\ ijob \in ImportJobs
  /\ versions \in Seq(Details) /\ versions # << >>
  /\ events \in Seq(ChangeEvents) /\ flags \subseteq [event : Nat, line : Nat]
  /\ tracked \in BOOLEAN /\ watch \in Int /\ clock \in Nat /\ closes \in Nat
  /\ jobs \in Seq(JobRows)
  /\ wk \in [Workers -> Memos]
  /\ \A w \in Workers : wk[w].at \in {"idle", "schedule"} \/ wk[w].job \in DOMAIN jobs
  /\ \A w \in Workers : wk[w].at \in Checking => wk[w].prev \in Details
  /\ exceptions \subseteq ExceptionRows
  /\ outbox \in Seq(OutboxRows) /\ delivered \subseteq DOMAIN outbox

\* The import's checkpoint never passes a page in silence: a page before
\* next_page is stored, or its drift is in the outbox under the job's
\* correlation id; and a job that is done has passed the last page that the
\* source last spoke of (process_bom_lines_page).
NoPageSkipped ==
  ijob.k > 0 =>
    /\ \A p \in 1..ijob.next - 1 :
         p \in imp.sums \/ \E i \in DOMAIN outbox :
                             outbox[i].corr = ImportCorr(ijob.k) /\ outbox[i].page = p
    /\ ijob.at = "done" => ijob.last # NoTotal /\ ijob.next > ijob.last

\* The value of field f after the first n change events.
After(f, n) ==
  LET S == {i \in 1..n : \E c \in events[i].changes : c.field = f}
      last == CHOOSE i \in S : \A k \in S : k <= i
  IN IF S = {} THEN versions[1][f]
     ELSE (CHOOSE c \in events[last].changes : c.field = f).new

\* The events lead from the first version to the current one.
Replays ==
  /\ \A f \in Fields : After(f, Len(events)) = Current[f]
  /\ \A i \in DOMAIN events : \A c \in events[i].changes : c.old = After(c.field, i - 1)

\* No check was enqueued while another was open.
OneByOne == \A j \in DOMAIN jobs : jobs[j].alone

\* As long as no check was enqueued beside an open one, the change events are
\* the tender's history: applied one after the other to its first version
\* they give the current one, and each one's old values are what the events
\* before it left, although two workers may run the same check after a lease
\* has run out, and a check is run again after a crash
\* (check_tender_for_changes under store.checkpoint).
ChangeLogReplays == OneByOne => Replays

\* At most one check of the tender waits or runs: marking the tender as
\* checked when its check is enqueued keeps a second one from being enqueued
\* while the first is pending.  Of the code it is false: two workers read
\* what is due before either marks it, and the mark is an interval old when
\* a check has been open for longer than that (enqueue_due_tender_checks).
OneOpenCheck == \A i, j \in DOMAIN jobs : Settled(i) \/ Settled(j) \/ i = j

\* Every drift event in the outbox reaches a person: there is an exception
\* of its correlation id that is open, or was closed after the drift was
\* seen (enqueue_exception, close_exception).
DriftReachesHuman ==
  \A i \in DOMAIN outbox : \E x \in exceptions :
    x.corr = outbox[i].corr /\ (x.closed = 0 \/ x.closed > outbox[i].filed)

\* An outbox row is marked published only after its delivery, although a
\* delivery may fail in the middle of a batch (Publisher.publish_pending).
PublishedWasDelivered ==
  \A i \in DOMAIN outbox : outbox[i].status = "published" => i \in delivered
=============================================================================
