-------------------------------- MODULE Jobs --------------------------------
(***************************************************************************)
(* Durable jobs and the worker processes that run them                     *)
(* (packages/platform/jobs.py, apps/worker/main.py, example_job.py).       *)
(*                                                                         *)
(* The jobs table is one function per column.  A worker is a program       *)
(* counter and the values it read from the table in an earlier             *)
(* transaction.  A step is one committed transaction, or one read that     *)
(* the worker acts on later: PostgreSQL runs READ COMMITTED, so everything *)
(* between a SELECT and the UPDATE that follows it may change underneath.  *)
(* Clock readings are abstracted to the two comparisons the code makes:    *)
(* "the lease has expired" and "the retry is not due yet".                 *)
(***************************************************************************)
EXTENDS Integers, Sequences, FiniteSets

CONSTANTS
  NumJobs,      \* ids 1..NumJobs may be enqueued (BIGSERIAL, so in order)
  Workers,      \* worker identities; a restarted process has a new one
  NoWorker,     \* lease_owner IS NULL
  MaxAttempts,  \* jobs.max_attempts
  MaxPages,     \* bound on params.total_pages
  MaxCrashes,   \* bound on the number of worker processes that die
  MaxExpiries   \* bound on leases that run out under a live worker

ASSUME JobsAssumption ==
  /\ NumJobs \in Nat /\ MaxPages \in Nat
  /\ MaxAttempts \in Nat \ {0}
  /\ MaxCrashes \in Nat /\ MaxExpiries \in Nat
  /\ NoWorker \notin Workers

VARIABLES
  \* the jobs table
  status, kind, total, lease_owner, lease_expired, retry_waiting, attempt,
  page, done,
  \* the outbox rows a job has committed: the page numbers, in order
  outbox,
  \* worker processes
  pc, cur, seen_done, seen_page, seen_attempt,
  \* what the bounds count
  crashes, expiries

table  == <<status, lease_owner, lease_expired, retry_waiting, attempt>>
ident  == <<kind, total>>
effect == <<page, done, outbox>>
seen   == <<seen_done, seen_page, seen_attempt>>
spent  == <<crashes, expiries>>
vars   == <<table, ident, effect, pc, cur, seen, spent>>

JobIds   == 1..NumJobs
Kinds    == {"paged_echo", "tender_change_check", "unknown"}
Statuses == {"absent", "pending", "leased", "completed", "failed", "cancelled"}
PCs      == {"idle", "work", "page", "check", "complete", "failing",
             "failing_read", "dead"}

Init ==
  /\ status = [j \in JobIds |-> "absent"]
  /\ kind = [j \in JobIds |-> "unknown"]
  /\ total = [j \in JobIds |-> 0]
  /\ lease_owner = [j \in JobIds |-> NoWorker]
  /\ lease_expired = [j \in JobIds |-> FALSE]
  /\ retry_waiting = [j \in JobIds |-> FALSE]
  /\ attempt = [j \in JobIds |-> 0]
  /\ page = [j \in JobIds |-> 0]
  /\ done = [j \in JobIds |-> FALSE]
  /\ outbox = [j \in JobIds |-> << >>]
  /\ pc = [w \in Workers |-> "idle"]
  /\ cur = [w \in Workers |-> 0]
  /\ seen_done = [w \in Workers |-> FALSE]
  /\ seen_page = [w \in Workers |-> 0]
  /\ seen_attempt = [w \in Workers |-> 0]
  /\ crashes = 0
  /\ expiries = 0

Goto(w, l) == pc' = [pc EXCEPT ![w] = l]

-----------------------------------------------------------------------------
(* Clients of the store, and the clock. *)

\* JobStore.enqueue: a new row; the identity is fixed here.
Enqueue(j, k, n) ==
  /\ status[j] = "absent"
  /\ \A i \in 1..(j - 1) : status[i] # "absent"
  /\ k # "paged_echo" => n = 0         \* params.total_pages
  /\ status' = [status EXCEPT ![j] = "pending"]
  /\ kind' = [kind EXCEPT ![j] = k]
  /\ total' = [total EXCEPT ![j] = n]
  /\ UNCHANGED <<lease_owner, lease_expired, retry_waiting, attempt, effect,
                 pc, cur, seen, spent>>

\* JobStore.cancel: sets the status and nothing else, whatever it was.
Cancel(j) ==
  /\ status[j] # "absent"
  /\ status' = [status EXCEPT ![j] = "cancelled"]
  /\ UNCHANGED <<lease_owner, lease_expired, retry_waiting, attempt, ident,
                 effect, pc, cur, seen, spent>>

\* lease_expires_at < now() for a worker that died holding the lease ...
DeadLeaseExpires(j) ==
  /\ status[j] = "leased" /\ ~lease_expired[j]
  /\ pc[lease_owner[j]] = "dead"
  /\ lease_expired' = [lease_expired EXCEPT ![j] = TRUE]
  /\ UNCHANGED <<status, lease_owner, retry_waiting, attempt, ident, effect,
                 pc, cur, seen, spent>>

\* ... and for one that is alive but slow, MaxExpiries times.
SlowLeaseExpires(j) ==
  /\ status[j] = "leased" /\ ~lease_expired[j]
  /\ pc[lease_owner[j]] # "dead"
  /\ expiries < MaxExpiries
  /\ expiries' = expiries + 1
  /\ lease_expired' = [lease_expired EXCEPT ![j] = TRUE]
  /\ UNCHANGED <<status, lease_owner, retry_waiting, attempt, ident, effect,
                 pc, cur, seen, crashes>>

\* next_retry_at <= now()
RetryDue(j) ==
  /\ retry_waiting[j]
  /\ retry_waiting' = [retry_waiting EXCEPT ![j] = FALSE]
  /\ UNCHANGED <<status, lease_owner, lease_expired, attempt, ident, effect,
                 pc, cur, seen, spent>>

-----------------------------------------------------------------------------
(* One worker: run_once and _process_claimed_job. *)

\* A form that never reclaims an expired lease.
Claimable_NoReclaim(j) == status[j] = "pending" /\ ~retry_waiting[j]

Claimable(j) ==
  \/ status[j] = "pending" /\ ~retry_waiting[j]
  \/ status[j] = "leased" /\ lease_expired[j]

\* FOR UPDATE SKIP LOCKED passes over a row that another worker's open
\* transaction may have locked.
MayBeLocked(w, j) == \E v \in Workers \ {w} : pc[v] \notin {"idle", "dead"} /\ cur[v] = j

\* A form that checks the status but not whose lease it is.
Holds_AnyOwner(w, j) == status[j] = "leased"

\* The WHERE clause of checkpoint and heartbeat.
Holds(w, j) == lease_owner[j] = w /\ status[j] = "leased"

\* JobStore.claim, ORDER BY created_at LIMIT 1.
Claim(w, j) ==
  /\ pc[w] = "idle"
  /\ Claimable(j)
  /\ \A i \in 1..(j - 1) : Claimable(i) => MayBeLocked(w, i)
  /\ status' = [status EXCEPT ![j] = "leased"]
  /\ lease_owner' = [lease_owner EXCEPT ![j] = w]
  /\ lease_expired' = [lease_expired EXCEPT ![j] = FALSE]
  /\ cur' = [cur EXCEPT ![w] = j]
  /\ seen_done' = [seen_done EXCEPT ![w] = done[j]]
  /\ Goto(w, "work")
  /\ UNCHANGED <<retry_waiting, attempt, ident, effect, seen_page, seen_attempt, spent>>

\* Dispatch on job_type.  Only the paged job looks at the claimed checkpoint's
\* "done"; the tender check runs again whatever the checkpoint says.
Dispatch(w) ==
  LET j == cur[w] IN
  /\ pc[w] = "work"
  /\ \/ /\ kind[j] = "paged_echo"
        /\ \/ seen_done[w] /\ Goto(w, "complete") /\ UNCHANGED seen_page
           \/ /\ ~seen_done[w]
              /\ seen_page' = [seen_page EXCEPT ![w] = page[j]]   \* store.get
              /\ Goto(w, "page")
     \/ kind[j] = "tender_change_check" /\ Goto(w, "check") /\ UNCHANGED seen_page
     \/ kind[j] = "unknown" /\ Goto(w, "failing") /\ UNCHANGED seen_page
  /\ UNCHANGED <<table, ident, effect, cur, seen_done, seen_attempt, spent>>

\* Forms that stop one page early, and one page late.
LastPage_Early(next, n) == next + 1 >= n
LastPage_Late(next, n) == next > n

LastPage(next, n) == next >= n

\* example_job.process_page and JobStore.checkpoint, one transaction: the
\* outbox row commits with the checkpoint, or JobNotOwned rolls both back.
CommitPage(w) ==
  LET j == cur[w]
      next == seen_page[w] + 1
      last == LastPage(next, total[j])
  IN
  /\ pc[w] = "page"
  /\ \/ /\ Holds(w, j)
        /\ page' = [page EXCEPT ![j] = next]
        /\ done' = [done EXCEPT ![j] = last]
        /\ outbox' = [outbox EXCEPT ![j] = Append(@, next)]
        /\ seen_done' = [seen_done EXCEPT ![w] = last]
        /\ Goto(w, "work")
     \/ ~Holds(w, j) /\ Goto(w, "failing") /\ UNCHANGED <<effect, seen_done>>
  /\ UNCHANGED <<table, ident, cur, seen_page, seen_attempt, spent>>

\* _heartbeat, in a transaction of its own while the tender check runs.
Heartbeat(w) ==
  LET j == cur[w] IN
  /\ pc[w] = "check"
  /\ \/ /\ Holds(w, j)
        /\ lease_expired' = [lease_expired EXCEPT ![j] = FALSE]
        /\ UNCHANGED pc
     \/ ~Holds(w, j) /\ Goto(w, "failing") /\ UNCHANGED lease_expired
  /\ UNCHANGED <<status, lease_owner, retry_waiting, attempt, ident, effect,
                 cur, seen, spent>>

\* The tender check's single transaction ends with checkpoint({"done": True}).
CommitCheck(w) ==
  LET j == cur[w] IN
  /\ pc[w] = "check"
  /\ \/ /\ Holds(w, j)
        /\ done' = [done EXCEPT ![j] = TRUE]
        /\ Goto(w, "complete")
     \/ ~Holds(w, j) /\ Goto(w, "failing") /\ UNCHANGED done
  /\ UNCHANGED <<table, ident, page, outbox, cur, seen, spent>>

\* JobStore.complete: matches on lease_owner alone, whatever the status.
Complete(w) ==
  LET j == cur[w] IN
  /\ pc[w] = "complete"
  /\ \/ /\ lease_owner[j] = w
        /\ status' = [status EXCEPT ![j] = "completed"]
        /\ lease_owner' = [lease_owner EXCEPT ![j] = NoWorker]
        /\ lease_expired' = [lease_expired EXCEPT ![j] = FALSE]
        /\ Goto(w, "idle")
     \/ /\ lease_owner[j] # w
        /\ Goto(w, "failing")
        /\ UNCHANGED <<status, lease_owner, lease_expired>>
  /\ UNCHANGED <<retry_waiting, attempt, ident, effect, cur, seen, spent>>

\* Any exception inside a job's transaction: it rolls back.
JobError(w) ==
  /\ pc[w] \in {"page", "check", "complete"}
  /\ Goto(w, "failing")
  /\ UNCHANGED <<table, ident, effect, cur, seen, spent>>

\* A form that swallows the exception and goes back to polling.
FailRead_Swallow(w) ==
  /\ pc[w] = "failing"
  /\ Goto(w, "idle")
  /\ UNCHANGED <<table, ident, effect, cur, seen, spent>>

\* The except block; JobStore.fail_retry's SELECT ... WHERE lease_owner = w.
FailRead(w) ==
  LET j == cur[w] IN
  /\ pc[w] = "failing"
  /\ \/ /\ lease_owner[j] = w
        /\ seen_attempt' = [seen_attempt EXCEPT ![w] = attempt[j]]
        /\ Goto(w, "failing_read")
     \/ lease_owner[j] # w /\ Goto(w, "idle") /\ UNCHANGED seen_attempt
  /\ UNCHANGED <<table, ident, effect, cur, seen_done, seen_page, spent>>

\* Forms with one attempt too many, and one too few.
RetryAllowed_OneMore(new) == new <= MaxAttempts
RetryAllowed_OneLess(new) == new + 1 < MaxAttempts

RetryAllowed(new) == new < MaxAttempts

\* fail_retry's UPDATE ... WHERE id = :id.
FailWrite(w) ==
  LET j == cur[w]
      new == seen_attempt[w] + 1
      retry == RetryAllowed(new)
  IN
  /\ pc[w] = "failing_read"
  /\ status' = [status EXCEPT ![j] = IF retry THEN "pending" ELSE "failed"]
  /\ attempt' = [attempt EXCEPT ![j] = new]
  /\ lease_owner' = [lease_owner EXCEPT ![j] = NoWorker]
  /\ lease_expired' = [lease_expired EXCEPT ![j] = FALSE]
  /\ retry_waiting' = [retry_waiting EXCEPT ![j] = retry \/ @]
  /\ Goto(w, "idle")
  /\ UNCHANGED <<ident, effect, cur, seen, spent>>

\* The process is killed: its open transaction rolls back, its lease stays.
Crash(w) ==
  /\ pc[w] # "dead"
  /\ crashes < MaxCrashes
  /\ crashes' = crashes + 1
  /\ Goto(w, "dead")
  /\ UNCHANGED <<table, ident, effect, cur, seen, expiries>>

-----------------------------------------------------------------------------
WorkerStep(w) ==
  \/ \E j \in JobIds : Claim(w, j)
  \/ Dispatch(w) \/ CommitPage(w) \/ CommitCheck(w) \/ Complete(w)
  \/ FailRead(w) \/ FailWrite(w)

Next ==
  \/ \E j \in JobIds :
       \/ \E k \in Kinds, n \in 0..MaxPages : Enqueue(j, k, n)
       \/ Cancel(j) \/ RetryDue(j) \/ DeadLeaseExpires(j) \/ SlowLeaseExpires(j)
  \/ \E w \in Workers :
       WorkerStep(w) \/ Heartbeat(w) \/ JobError(w) \/ Crash(w)

\* Live workers keep looping in run_forever, retries come due, and the lease
\* of a dead worker runs out.
Fairness ==
  /\ \A w \in Workers : WF_vars(WorkerStep(w))
  /\ \A j \in JobIds : WF_vars(RetryDue(j)) /\ WF_vars(DeadLeaseExpires(j))

Spec == Init /\ [][Next]_vars /\ Fairness

-----------------------------------------------------------------------------
(* Properties. *)

\* Every variable has its type; attempt never exceeds max_attempts.
TypeOK ==
  /\ status \in [JobIds -> Statuses]
  /\ kind \in [JobIds -> Kinds]
  /\ total \in [JobIds -> 0..MaxPages]
  /\ lease_owner \in [JobIds -> Workers \cup {NoWorker}]
  /\ lease_expired \in [JobIds -> BOOLEAN]
  /\ retry_waiting \in [JobIds -> BOOLEAN]
  /\ attempt \in [JobIds -> 0..MaxAttempts]
  /\ page \in [JobIds -> Nat]
  /\ done \in [JobIds -> BOOLEAN]
  /\ outbox \in [JobIds -> Seq(Nat)]
  /\ pc \in [Workers -> PCs]
  /\ cur \in [Workers -> 0..NumJobs]
  /\ seen_done \in [Workers -> BOOLEAN]
  /\ seen_page \in [Workers -> Nat]
  /\ seen_attempt \in [Workers -> 0..MaxAttempts]
  /\ crashes \in Nat /\ expiries \in Nat

\* However workers crash, stall past their lease and take over from each
\* other, the outbox holds each page of a job once, in order, and exactly up
\* to the durable checkpoint: a resumed job neither repeats nor skips a page
\* (process_page and checkpoint share a transaction that is owner-checked).
PagesExactlyOnce ==
  \A j \in JobIds :
    /\ Len(outbox[j]) = page[j]
    /\ \A i \in 1..page[j] : outbox[j][i] = i

\* A job is only ever recorded as completed when its work is committed: the
\* tender check ran to its checkpoint, the paged job reached its last page.
\* complete() does not check this; it rests on the order of the worker's
\* transactions and on nobody else finishing a job half way.
CompletedMeansDone ==
  \A j \in JobIds :
    status[j] = "completed" =>
      done[j] /\ (kind[j] = "paged_echo" => page[j] >= total[j])

\* A lease is never forgotten: its owner is either working on that very job
\* or dead, in which case the lease expires and the job is reclaimed.
LeaseIsAttended ==
  \A j \in JobIds :
    status[j] = "leased" =>
      /\ lease_owner[j] # NoWorker
      /\ cur[lease_owner[j]] = j
      /\ pc[lease_owner[j]] # "idle"

\* A job that can still be claimed has an attempt left, and a job is given
\* up as failed only when all max_attempts of them were used, even when a
\* stale fail_retry overwrites the attempt counter.
RetryBudget ==
  \A j \in JobIds :
    /\ status[j] \in {"pending", "leased"} => attempt[j] < MaxAttempts
    /\ status[j] = "failed" => attempt[j] = MaxAttempts

\* Every job finally comes to rest (completed, failed or cancelled), through
\* crashes, retries, stolen leases and the jobs that come back from a
\* terminal status.
Settles ==
  \A j \in JobIds :
    <>[](status[j] \in {"absent", "completed", "failed", "cancelled"})

\* The outbox behaves as PagedDelivery promises: pages one at a time, in order,
\* each once, none after the last, whatever the workers do.
Delivery == INSTANCE PagedDelivery
              WITH Js <- JobIds, Totals <- 0..MaxPages,
                   goal <- total, delivered <- outbox

ImplementsDelivery == Delivery!DeliverySpec

\* test_cancel_prevents_further_claims: a cancelled job does not become
\* claimable again.  The code does not keep this for a job that is running
\* when it is cancelled: cancel leaves lease_owner, which is all that
\* fail_retry asks about.
CancelPreventsClaims ==
  [][\A j \in JobIds :
       status[j] = "cancelled" => status'[j] \notin {"pending", "leased"}]_vars
=============================================================================
