----------------------------- MODULE JobsProofs -----------------------------
(***************************************************************************)
(* Proofs about Jobs for every number of jobs, workers, pages, attempts,   *)
(* crashes and expired leases.  One inductive invariant carries all of     *)
(* them; its parts say what a worker's stale copies are still good for.    *)
(***************************************************************************)
EXTENDS Jobs, TLAPS

\* A worker that is doing something is doing it to an enqueued job.
Busy(w) == pc[w] \notin {"idle", "dead"}

BusyOnRealJob ==
  \A w \in Workers : Busy(w) => cur[w] \in JobIds /\ status[cur[w]] # "absent"

\* A lease_owner, leased or cancelled since, is the worker that claimed the
\* job and has not given it up; a leased job has one, an absent job none.
OwnerAttends ==
  \A j \in JobIds :
    /\ status[j] = "leased" => lease_owner[j] # NoWorker
    /\ status[j] = "absent" => lease_owner[j] = NoWorker
    /\ lease_owner[j] # NoWorker =>
         cur[lease_owner[j]] = j /\ pc[lease_owner[j]] # "idle"

\* Only the owner of a job writes its checkpoint, so the owner's copies are
\* exact; a worker that lost the lease only knows that done stays done.
CopyIsExact(w) ==
  /\ pc[w] = "work" /\ seen_done[w] => done[cur[w]]
  /\ pc[w] = "complete" => done[cur[w]]
  /\ pc[w] = "page" => kind[cur[w]] = "paged_echo"
  /\ pc[w] = "check" => kind[cur[w]] = "tender_change_check"
  /\ pc[w] = "work" /\ lease_owner[cur[w]] = w => (seen_done[w] <=> done[cur[w]])
  /\ pc[w] = "page" /\ lease_owner[cur[w]] = w =>
       ~done[cur[w]] /\ seen_page[w] = page[cur[w]]

CopiesAreExact == \A w \in Workers : CopyIsExact(w)

\* A paged job is done exactly when it has reached its last page; an absent
\* job has delivered nothing.
DoneIsLastPage ==
  \A j \in JobIds :
    /\ kind[j] = "paged_echo" /\ done[j] => page[j] >= total[j]
    /\ page[j] = 0 \/ page[j] < total[j] \/ done[j]
    /\ status[j] = "absent" => ~done[j] /\ page[j] = 0 /\ total[j] = 0
    /\ status[j] = "completed" => done[j]

\* Whoever may still fail a job read an attempt counter below the limit.
AttemptsLeft ==
  /\ \A w \in Workers : pc[w] = "failing_read" => seen_attempt[w] < MaxAttempts
  /\ \A j \in JobIds :
       lease_owner[j] # NoWorker \/ status[j] = "absent" => attempt[j] < MaxAttempts

IndInv ==
  /\ TypeOK
  /\ BusyOnRealJob
  /\ OwnerAttends
  /\ CopiesAreExact
  /\ DoneIsLastPage
  /\ AttemptsLeft
  /\ RetryBudget
  /\ PagesExactlyOnce
-----------------------------------------------------------------------------

\* A step that moves only the clock's columns keeps the invariant.
LEMMA ClockKeeps ==
  ASSUME IndInv, TypeOK',
         UNCHANGED <<status, kind, total, lease_owner, attempt, page, done, outbox,
                     pc, cur, seen_done, seen_page, seen_attempt>>
  PROVE  IndInv'
<1>1. BusyOnRealJob'
  BY DEF IndInv, BusyOnRealJob, Busy
<1>2. OwnerAttends'
  BY DEF IndInv, OwnerAttends
<1>3. CopiesAreExact'
  BY DEF IndInv, CopiesAreExact, CopyIsExact
<1>4. DoneIsLastPage'
  BY DEF IndInv, DoneIsLastPage
<1>5. AttemptsLeft' /\ RetryBudget'
  BY DEF IndInv, AttemptsLeft, RetryBudget
<1>6. PagesExactlyOnce'
  BY DEF IndInv, PagesExactlyOnce
<1> QED
  BY <1>1, <1>2, <1>3, <1>4, <1>5, <1>6 DEF IndInv

\* A worker that gives its job up to the except block keeps the invariant.
LEMMA AbandonKeeps ==
  ASSUME IndInv, NEW w \in Workers,
         pc[w] \in {"work", "page", "check", "complete"}, Goto(w, "failing"),
         UNCHANGED <<status, kind, total, lease_owner, lease_expired, retry_waiting,
                     attempt, page, done, outbox, cur, seen_done, seen_page,
                     seen_attempt, crashes, expiries>>
  PROVE  IndInv'
<1>1. TypeOK'
  BY DEF IndInv, TypeOK, Goto, PCs
<1>2. BusyOnRealJob'
  BY DEF IndInv, TypeOK, BusyOnRealJob, Busy, Goto
<1>3. OwnerAttends'
  BY DEF IndInv, TypeOK, OwnerAttends, Goto
<1>4. CopiesAreExact'
  BY DEF IndInv, TypeOK, CopiesAreExact, CopyIsExact, Goto
<1>5. DoneIsLastPage' /\ RetryBudget' /\ PagesExactlyOnce'
  BY DEF IndInv, DoneIsLastPage, RetryBudget, PagesExactlyOnce
<1>6. AttemptsLeft'
  BY DEF IndInv, TypeOK, AttemptsLeft, Goto
<1> QED
  BY <1>1, <1>2, <1>3, <1>4, <1>5, <1>6 DEF IndInv

\* A new row starts with no owner, no page and every attempt left.
LEMMA EnqueueKeeps ==
  ASSUME IndInv, NEW j \in JobIds, NEW k \in Kinds, NEW n \in 0..MaxPages, Enqueue(j, k, n)
  PROVE  IndInv'
<1>1. TypeOK'
  BY DEF IndInv, TypeOK, Enqueue, effect, seen, spent, Statuses
<1>2. BusyOnRealJob'
  BY DEF IndInv, TypeOK, BusyOnRealJob, Busy, Enqueue, seen
<1>3. OwnerAttends'
  BY DEF IndInv, TypeOK, OwnerAttends, Enqueue, seen
<1>4. CopiesAreExact'
  BY DEF IndInv, TypeOK, CopiesAreExact, CopyIsExact, BusyOnRealJob, Busy, Enqueue, effect, seen
<1>5. DoneIsLastPage'
  BY DEF IndInv, TypeOK, DoneIsLastPage, Enqueue, effect
<1>6. AttemptsLeft' /\ RetryBudget'
  BY DEF IndInv, TypeOK, AttemptsLeft, RetryBudget, Enqueue, effect, seen
<1>7. PagesExactlyOnce'
  BY DEF IndInv, PagesExactlyOnce, Enqueue, effect
<1> QED
  BY <1>1, <1>2, <1>3, <1>4, <1>5, <1>6, <1>7 DEF IndInv

\* cancel() changes only the status, so the owner still attends the job.
LEMMA CancelKeeps ==
  ASSUME IndInv, NEW j \in JobIds, Cancel(j)
  PROVE  IndInv'
<1>1. TypeOK'
  BY DEF IndInv, TypeOK, Cancel, ident, effect, seen, spent, Statuses
<1>2. BusyOnRealJob'
  BY DEF IndInv, TypeOK, BusyOnRealJob, Busy, Cancel
<1>3. OwnerAttends'
  BY DEF IndInv, TypeOK, OwnerAttends, Cancel
<1>4. CopiesAreExact'
  BY DEF IndInv, CopiesAreExact, CopyIsExact, Cancel, ident, effect, seen
<1>5. DoneIsLastPage'
  BY DEF IndInv, TypeOK, DoneIsLastPage, Cancel, ident, effect
<1>6. AttemptsLeft' /\ RetryBudget'
  BY DEF IndInv, TypeOK, AttemptsLeft, RetryBudget, Cancel, effect, seen
<1>7. PagesExactlyOnce'
  BY DEF IndInv, PagesExactlyOnce, Cancel, effect
<1> QED
  BY <1>1, <1>2, <1>3, <1>4, <1>5, <1>6, <1>7 DEF IndInv

\* next_retry_at passing moves only the clock.
LEMMA RetryDueKeeps ==
  ASSUME IndInv, NEW j \in JobIds, RetryDue(j)
  PROVE  IndInv'
<1>1. TypeOK'
  BY DEF IndInv, TypeOK, RetryDue, ident, effect, seen, spent
<1> QED
  BY <1>1, ClockKeeps DEF RetryDue, ident, effect, seen

\* A dead worker's lease running out moves only the clock.
LEMMA DeadLeaseExpiresKeeps ==
  ASSUME IndInv, NEW j \in JobIds, DeadLeaseExpires(j)
  PROVE  IndInv'
<1>1. TypeOK'
  BY DEF IndInv, TypeOK, DeadLeaseExpires, ident, effect, seen, spent
<1> QED
  BY <1>1, ClockKeeps DEF DeadLeaseExpires, ident, effect, seen

\* A slow worker's lease running out moves only the clock.
LEMMA SlowLeaseExpiresKeeps ==
  ASSUME IndInv, NEW j \in JobIds, SlowLeaseExpires(j)
  PROVE  IndInv'
<1>1. TypeOK'
  BY DEF IndInv, TypeOK, SlowLeaseExpires, ident, effect, seen, spent
<1> QED
  BY <1>1, ClockKeeps DEF SlowLeaseExpires, ident, effect, seen

\* claim() makes an idle worker the owner and gives it a fresh copy.
LEMMA ClaimKeeps ==
  ASSUME IndInv, NEW w \in Workers, NEW j \in JobIds, Claim(w, j)
  PROVE  IndInv'
<1>1. j \in 0..NumJobs /\ w # NoWorker /\ done[j] \in BOOLEAN /\ status[j] # "absent"
  BY JobsAssumption DEF JobIds, Claim, Claimable, IndInv, TypeOK
<1>2. TypeOK'
  BY <1>1 DEF IndInv, TypeOK, Claim, Goto, ident, effect, spent, Statuses, PCs
<1>3. BusyOnRealJob'
  BY <1>1 DEF IndInv, TypeOK, BusyOnRealJob, Busy, Claim, Goto
<1>4. OwnerAttends'
  BY <1>1 DEF IndInv, TypeOK, OwnerAttends, Claim, Goto
<1>5. CopyIsExact(w)'
  BY <1>1 DEF IndInv, TypeOK, CopyIsExact, Claim, Goto, effect
<1>6. CopiesAreExact'
  BY <1>1, <1>5 DEF IndInv, TypeOK, CopiesAreExact, CopyIsExact, Claim, Goto, ident, effect, BusyOnRealJob, Busy
<1>7. DoneIsLastPage'
  BY <1>1 DEF IndInv, TypeOK, DoneIsLastPage, Claim, ident, effect
<1>8. AttemptsLeft' /\ RetryBudget'
  BY <1>1 DEF IndInv, TypeOK, AttemptsLeft, RetryBudget, Claim, Claimable, Goto
<1>9. PagesExactlyOnce'
  BY DEF IndInv, PagesExactlyOnce, Claim, effect
<1> QED
  BY <1>1, <1>2, <1>3, <1>4, <1>5, <1>6, <1>7, <1>8, <1>9 DEF IndInv

\* Dispatching on job_type: the owner's copy decides where it goes.
LEMMA DispatchKeeps ==
  ASSUME IndInv, NEW w \in Workers, Dispatch(w)
  PROVE  IndInv'
<1> DEFINE j == cur[w]
<1>1. j \in JobIds /\ w # NoWorker /\ kind[j] \in Kinds /\ seen_done[w] \in BOOLEAN /\ page[j] \in Nat
  BY JobsAssumption DEF IndInv, TypeOK, BusyOnRealJob, Busy, Dispatch
<1>2. CASE Goto(w, "failing") /\ UNCHANGED seen_page
  BY <1>2, AbandonKeeps DEF Dispatch, table, ident, effect, spent
<1>3. ASSUME NEW l \in {"page", "check", "complete"}, Goto(w, l),
             l # "page" => UNCHANGED seen_page,
             l = "page" => seen_page' = [seen_page EXCEPT ![w] = page[j]],
             l = "page" => kind[j] = "paged_echo" /\ ~seen_done[w],
             l = "check" => kind[j] = "tender_change_check",
             l = "complete" => seen_done[w]
      PROVE  IndInv'
  <2>1. TypeOK'
    BY <1>1, <1>3 DEF IndInv, TypeOK, Dispatch, Goto, table, ident, effect, spent, PCs
  <2>2. BusyOnRealJob'
    BY <1>1, <1>3 DEF IndInv, TypeOK, BusyOnRealJob, Busy, Dispatch, Goto, table
  <2>3. OwnerAttends'
    BY <1>1, <1>3 DEF IndInv, TypeOK, OwnerAttends, Dispatch, Goto, table
  <2>4. CopyIsExact(w)'
    BY <1>1, <1>3 DEF IndInv, TypeOK, CopiesAreExact, CopyIsExact, Dispatch, Goto, table, ident, effect
  <2>5. CopiesAreExact'
    BY <1>1, <1>3, <2>4 DEF IndInv, TypeOK, CopiesAreExact, CopyIsExact, Dispatch, Goto, table, ident, effect
  <2>6. DoneIsLastPage' /\ PagesExactlyOnce' /\ RetryBudget'
    BY DEF IndInv, DoneIsLastPage, PagesExactlyOnce, RetryBudget, Dispatch, table, ident, effect
  <2>7. AttemptsLeft'
    BY <1>1, <1>3 DEF IndInv, TypeOK, AttemptsLeft, Dispatch, Goto, table
  <2> QED
    BY <2>1, <2>2, <2>3, <2>5, <2>6, <2>7 DEF IndInv
<1> QED
  BY <1>2, <1>3 DEF Dispatch

\* A committed page extends the outbox by exactly the page it names.
LEMMA CommitPageKeeps ==
  ASSUME IndInv, NEW w \in Workers, CommitPage(w)
  PROVE  IndInv'
<1> DEFINE j == cur[w]
           next == seen_page[w] + 1
           last == LastPage(next, total[j])
<1>1. CASE ~Holds(w, j)
  BY <1>1, AbandonKeeps DEF CommitPage, table, ident, effect, spent
<1>2. CASE Holds(w, j)
  <2>11. j \in JobIds
    BY DEF IndInv, TypeOK, BusyOnRealJob, Busy, CommitPage
  <2>12. next \in Nat /\ total[j] \in Nat /\ last \in BOOLEAN /\ (last <=> next >= total[j])
    BY <2>11, JobsAssumption DEF IndInv, TypeOK, LastPage
  <2>13. /\ w # NoWorker /\ kind[j] = "paged_echo" /\ ~done[j] /\ page[j] = seen_page[w]
        /\ status[j] = "leased" /\ lease_owner[j] = w
    BY <1>2, <2>11, JobsAssumption DEF IndInv, CopiesAreExact, CopyIsExact, CommitPage, Holds
  <2> HIDE DEF j, next, last
  <2>1. /\ j \in JobIds /\ w # NoWorker
        /\ kind[j] = "paged_echo" /\ ~done[j] /\ page[j] = seen_page[w]
        /\ next \in Nat /\ total[j] \in Nat /\ last \in BOOLEAN
        /\ status[j] = "leased" /\ lease_owner[j] = w
    BY <2>11, <2>12, <2>13
  <2>2. /\ page' = [page EXCEPT ![j] = next]
        /\ done' = [done EXCEPT ![j] = last]
        /\ outbox' = [outbox EXCEPT ![j] = Append(@, next)]
        /\ seen_done' = [seen_done EXCEPT ![w] = last]
        /\ pc[w] = "page" /\ pc' = [pc EXCEPT ![w] = "work"]
        /\ UNCHANGED <<table, ident, cur, seen_page, seen_attempt, spent>>
    BY <1>2 DEF CommitPage, Goto, j, next, last
  <2>3. Append(outbox[j], next) \in Seq(Nat)
    BY <2>1 DEF IndInv, TypeOK
  <2>4. TypeOK'
    BY <2>1, <2>2, <2>3 DEF IndInv, TypeOK, table, ident, spent, PCs
  <2>5. BusyOnRealJob'
    BY <2>1, <2>2 DEF IndInv, TypeOK, BusyOnRealJob, Busy, table
  <2>6. OwnerAttends'
    BY <2>1, <2>2 DEF IndInv, TypeOK, OwnerAttends, table
  <2>7. CopiesAreExact'
    <3>1. CopyIsExact(w)'
      BY <2>1, <2>2 DEF IndInv, TypeOK, CopyIsExact, table, ident, j
    <3>2. ASSUME NEW v \in Workers, v # w
          PROVE  CopyIsExact(v)'
      BY <2>1, <2>2, <3>2 DEF IndInv, TypeOK, CopiesAreExact, CopyIsExact, table, ident
    <3> QED
      BY <3>1, <3>2 DEF CopiesAreExact
  <2>8. DoneIsLastPage'
    BY <2>1, <2>2, <2>12 DEF IndInv, TypeOK, DoneIsLastPage, table, ident
  <2>9. AttemptsLeft' /\ RetryBudget'
    BY <2>1, <2>2 DEF IndInv, TypeOK, AttemptsLeft, RetryBudget, table
  <2>10. PagesExactlyOnce'
    <3>1. ASSUME NEW i \in JobIds, i # j
          PROVE  outbox'[i] = outbox[i] /\ page'[i] = page[i]
      BY <2>1, <2>2, <3>1 DEF IndInv, TypeOK
    <3>2. outbox'[j] = Append(outbox[j], next) /\ page'[j] = next
      BY <2>1, <2>2 DEF IndInv, TypeOK
    <3>3. next = seen_page[w] + 1
      BY DEF next
    <3>5. Len(outbox[j]) = seen_page[w] /\ outbox[j] \in Seq(Nat) /\ \A i \in 1..seen_page[w] : outbox[j][i] = i
      BY <2>1 DEF IndInv, TypeOK, PagesExactlyOnce
    <3>4. Len(outbox'[j]) = next /\ \A i \in 1..next : outbox'[j][i] = i
      BY <2>1, <3>2, <3>3, <3>5 DEF IndInv, TypeOK
    <3> QED
      BY <3>1, <3>2, <3>4 DEF IndInv, PagesExactlyOnce
  <2> QED
    BY <2>4, <2>5, <2>6, <2>7, <2>8, <2>9, <2>10 DEF IndInv
<1> QED
  BY <1>1, <1>2

\* heartbeat() renews the lease, or finds that it is lost.
LEMMA HeartbeatKeeps ==
  ASSUME IndInv, NEW w \in Workers, Heartbeat(w)
  PROVE  IndInv'
<1>1. CASE ~Holds(w, cur[w])
  BY <1>1, AbandonKeeps DEF Heartbeat, ident, effect, seen, spent
<1>2. CASE Holds(w, cur[w])
  <2>1. TypeOK'
    BY <1>2 DEF IndInv, TypeOK, Heartbeat, ident, effect, seen, spent
  <2> QED
    BY <1>2, <2>1, ClockKeeps DEF Heartbeat, ident, effect, seen
<1> QED
  BY <1>1, <1>2

\* The tender check's transaction sets done, or finds the lease lost.
LEMMA CommitCheckKeeps ==
  ASSUME IndInv, NEW w \in Workers, CommitCheck(w)
  PROVE  IndInv'
<1> DEFINE j == cur[w]
<1>1. CASE ~Holds(w, j)
  BY <1>1, AbandonKeeps DEF CommitCheck, table, ident, seen, spent
<1>2. CASE Holds(w, j)
  <2>1. /\ j \in JobIds /\ w # NoWorker
        /\ kind[j] = "tender_change_check" /\ status[j] = "leased" /\ lease_owner[j] = w
    BY <1>2, JobsAssumption DEF IndInv, TypeOK, BusyOnRealJob, Busy, CopiesAreExact,
       CopyIsExact, CommitCheck, Holds
  <2>2. /\ done' = [done EXCEPT ![j] = TRUE]
        /\ pc[w] = "check" /\ pc' = [pc EXCEPT ![w] = "complete"]
        /\ UNCHANGED <<table, ident, page, outbox, cur, seen, spent>>
    BY <1>2 DEF CommitCheck, Goto
  <2>3. TypeOK'
    BY <2>1, <2>2 DEF IndInv, TypeOK, table, ident, seen, spent, PCs
  <2>4. BusyOnRealJob'
    BY <2>1, <2>2 DEF IndInv, TypeOK, BusyOnRealJob, Busy, table
  <2>5. OwnerAttends'
    BY <2>1, <2>2 DEF IndInv, TypeOK, OwnerAttends, table
  <2>6. CopiesAreExact'
    <3>1. CopyIsExact(w)'
      BY <2>1, <2>2 DEF IndInv, TypeOK, CopyIsExact, table, ident
    <3>2. ASSUME NEW v \in Workers, v # w
          PROVE  CopyIsExact(v)'
      BY <2>1, <2>2, <3>2 DEF IndInv, TypeOK, CopiesAreExact, CopyIsExact, table, ident, seen
    <3> QED
      BY <3>1, <3>2 DEF CopiesAreExact
  <2>7. DoneIsLastPage'
    BY <2>1, <2>2 DEF IndInv, TypeOK, DoneIsLastPage, table, ident
  <2>8. AttemptsLeft' /\ RetryBudget' /\ PagesExactlyOnce'
    BY <2>1, <2>2 DEF IndInv, TypeOK, AttemptsLeft, RetryBudget, PagesExactlyOnce, table, seen
  <2> QED
    BY <2>3, <2>4, <2>5, <2>6, <2>7, <2>8 DEF IndInv
<1> QED
  BY <1>1, <1>2

\* complete() gives the job up after its work is committed.
LEMMA CompleteKeeps ==
  ASSUME IndInv, NEW w \in Workers, Complete(w)
  PROVE  IndInv'
<1> DEFINE j == cur[w]
<1>1. CASE lease_owner[j] # w
  BY <1>1, AbandonKeeps DEF Complete, ident, effect, seen, spent
<1>2. CASE lease_owner[j] = w
  <2>1. j \in JobIds /\ w # NoWorker /\ done[j]
    BY JobsAssumption DEF IndInv, TypeOK, BusyOnRealJob, Busy, CopiesAreExact,
       CopyIsExact, Complete
  <2>2. /\ status' = [status EXCEPT ![j] = "completed"]
        /\ lease_owner' = [lease_owner EXCEPT ![j] = NoWorker]
        /\ lease_expired' = [lease_expired EXCEPT ![j] = FALSE]
        /\ pc[w] = "complete" /\ pc' = [pc EXCEPT ![w] = "idle"]
        /\ UNCHANGED <<retry_waiting, attempt, ident, effect, cur, seen, spent>>
    BY <1>2 DEF Complete, Goto
  <2>3. TypeOK'
    BY <2>1, <2>2 DEF IndInv, TypeOK, ident, effect, seen, spent, PCs, Statuses
  <2>4. BusyOnRealJob'
    BY <2>1, <2>2 DEF IndInv, TypeOK, BusyOnRealJob, Busy
  <2>5. OwnerAttends'
    BY <1>2, <2>1, <2>2 DEF IndInv, TypeOK, OwnerAttends
  <2>6. CopiesAreExact'
    <3>1. ASSUME NEW v \in Workers
          PROVE  CopyIsExact(v)'
      <4>1. v # NoWorker /\ CopyIsExact(v) /\ (Busy(v) => cur[v] \in JobIds)
        BY JobsAssumption DEF IndInv, CopiesAreExact, BusyOnRealJob
      <4>2. lease_owner'[cur[v]] = v => lease_owner[cur[v]] = v \/ ~Busy(v)
        BY <2>1, <2>2, <4>1 DEF IndInv, TypeOK
      <4>3. pc'[v] = pc[v] \/ pc'[v] = "idle"
        BY <2>2 DEF IndInv, TypeOK
      <4> QED
        BY <2>2, <4>1, <4>2, <4>3 DEF CopyIsExact, Busy, ident, effect, seen
    <3> QED
      BY <3>1 DEF CopiesAreExact
  <2>7. DoneIsLastPage' /\ PagesExactlyOnce'
    BY <2>1, <2>2 DEF IndInv, TypeOK, DoneIsLastPage, PagesExactlyOnce, ident, effect
  <2>8. AttemptsLeft' /\ RetryBudget'
    BY <2>1, <2>2 DEF IndInv, TypeOK, AttemptsLeft, RetryBudget, seen
  <2> QED
    BY <2>3, <2>4, <2>5, <2>6, <2>7, <2>8 DEF IndInv
<1> QED
  BY <1>1, <1>2

\* An exception rolls back and leads to the except block.
LEMMA JobErrorKeeps ==
  ASSUME IndInv, NEW w \in Workers, JobError(w)
  PROVE  IndInv'
BY AbandonKeeps DEF JobError, table, ident, effect, seen, spent

\* fail_retry's SELECT reads an attempt counter below the limit.
LEMMA FailReadKeeps ==
  ASSUME IndInv, NEW w \in Workers, FailRead(w)
  PROVE  IndInv'
<1> DEFINE j == cur[w]
<1>1. j \in JobIds /\ w # NoWorker /\ attempt[j] \in 0..MaxAttempts
  BY JobsAssumption DEF IndInv, TypeOK, BusyOnRealJob, Busy, FailRead
<1>2. PICK l \in {"idle", "failing_read"} :
        /\ Goto(w, l)
        /\ l = "idle" => lease_owner[j] # w /\ UNCHANGED seen_attempt
        /\ l = "failing_read" =>
             lease_owner[j] = w /\ seen_attempt' = [seen_attempt EXCEPT ![w] = attempt[j]]
  BY DEF FailRead
<1>3. /\ pc[w] = "failing"
      /\ UNCHANGED <<table, ident, effect, cur, seen_done, seen_page, spent>>
  BY DEF FailRead
<1>4. TypeOK'
  BY <1>1, <1>2, <1>3 DEF IndInv, TypeOK, Goto, PCs, table, ident, effect, spent
<1>5. BusyOnRealJob'
  BY <1>1, <1>2, <1>3 DEF IndInv, TypeOK, BusyOnRealJob, Busy, Goto, table
<1>6. OwnerAttends'
  BY <1>1, <1>2, <1>3 DEF IndInv, TypeOK, OwnerAttends, Goto, table
<1>7. CopiesAreExact'
  BY <1>1, <1>2, <1>3 DEF IndInv, TypeOK, CopiesAreExact, CopyIsExact, Goto, table, ident, effect
<1>8. DoneIsLastPage' /\ RetryBudget' /\ PagesExactlyOnce'
  BY <1>3 DEF IndInv, DoneIsLastPage, RetryBudget, PagesExactlyOnce, table, ident, effect
<1>9. AttemptsLeft'
  BY <1>1, <1>2, <1>3, JobsAssumption DEF IndInv, TypeOK, AttemptsLeft, Goto, table
<1> QED
  BY <1>4, <1>5, <1>6, <1>7, <1>8, <1>9 DEF IndInv

\* fail_retry's UPDATE, even of a job that was lost meanwhile.
LEMMA FailWriteKeeps ==
  ASSUME IndInv, NEW w \in Workers, FailWrite(w)
  PROVE  IndInv'
<1> DEFINE j == cur[w]
           new == seen_attempt[w] + 1
<1>10. pc[w] = "failing_read"
  BY DEF FailWrite
<1>11. j \in JobIds /\ status[j] # "absent"
  BY <1>10 DEF IndInv, BusyOnRealJob, Busy
<1>12. new \in 1..MaxAttempts
  BY <1>10, JobsAssumption DEF IndInv, TypeOK, AttemptsLeft
<1>1. /\ j \in JobIds /\ w # NoWorker /\ status[j] # "absent"
      /\ new \in 1..MaxAttempts /\ MaxAttempts \in Nat
  BY <1>11, <1>12, JobsAssumption
<1>2. PICK s \in {"pending", "failed"} :
        /\ status' = [status EXCEPT ![j] = s]
        /\ s = "pending" => new < MaxAttempts
        /\ s = "failed" => new = MaxAttempts
  <2>1. CASE new < MaxAttempts
    BY <1>1, <2>1 DEF FailWrite, RetryAllowed
  <2>2. CASE new = MaxAttempts
    BY <1>1, <2>2 DEF FailWrite, RetryAllowed
  <2> QED
    BY <1>1, <2>1, <2>2
<1>3. /\ attempt' = [attempt EXCEPT ![j] = new]
      /\ lease_owner' = [lease_owner EXCEPT ![j] = NoWorker]
      /\ lease_expired' = [lease_expired EXCEPT ![j] = FALSE]
      /\ retry_waiting' = [retry_waiting EXCEPT ![j] = RetryAllowed(new) \/ @]
      /\ pc[w] = "failing_read" /\ pc' = [pc EXCEPT ![w] = "idle"]
      /\ UNCHANGED <<ident, effect, cur, seen, spent>>
  BY DEF FailWrite, Goto
<1>4. TypeOK'
  BY <1>1, <1>2, <1>3 DEF IndInv, TypeOK, PCs, Statuses, RetryAllowed, ident, effect, seen, spent
<1>5. BusyOnRealJob'
  BY <1>1, <1>2, <1>3 DEF IndInv, TypeOK, BusyOnRealJob, Busy
<1>6. OwnerAttends'
  BY <1>1, <1>2, <1>3 DEF IndInv, TypeOK, OwnerAttends
<1>7. CopiesAreExact'
  <2>1. ASSUME NEW v \in Workers
        PROVE  CopyIsExact(v)'
    <3>1. v # NoWorker /\ CopyIsExact(v) /\ (Busy(v) => cur[v] \in JobIds)
      BY JobsAssumption DEF IndInv, CopiesAreExact, BusyOnRealJob
    <3>2. lease_owner'[cur[v]] = v => lease_owner[cur[v]] = v \/ ~Busy(v)
      BY <1>1, <1>3, <3>1 DEF IndInv, TypeOK
    <3>3. pc'[v] = pc[v] \/ pc'[v] = "idle"
      BY <1>3 DEF IndInv, TypeOK
    <3> QED
      BY <1>3, <3>1, <3>2, <3>3 DEF CopyIsExact, Busy, ident, effect, seen
  <2> QED
    BY <2>1 DEF CopiesAreExact
<1>8. DoneIsLastPage' /\ PagesExactlyOnce'
  BY <1>1, <1>2, <1>3 DEF IndInv, TypeOK, DoneIsLastPage, PagesExactlyOnce, ident, effect
<1>9. AttemptsLeft' /\ RetryBudget'
  BY <1>1, <1>2, <1>3 DEF IndInv, TypeOK, AttemptsLeft, RetryBudget, seen
<1> QED
  BY <1>4, <1>5, <1>6, <1>7, <1>8, <1>9 DEF IndInv

\* A killed worker keeps its leases and does nothing more.
LEMMA CrashKeeps ==
  ASSUME IndInv, NEW w \in Workers, Crash(w)
  PROVE  IndInv'
<1>1. TypeOK'
  BY DEF IndInv, TypeOK, Crash, Goto, PCs, table, ident, effect, seen
<1>2. BusyOnRealJob'
  BY DEF IndInv, TypeOK, BusyOnRealJob, Busy, Crash, Goto, table
<1>3. OwnerAttends'
  BY DEF IndInv, TypeOK, OwnerAttends, Crash, Goto, table
<1>4. CopiesAreExact'
  BY DEF IndInv, TypeOK, CopiesAreExact, CopyIsExact, Crash, Goto, table, ident, effect, seen
<1>5. DoneIsLastPage' /\ RetryBudget' /\ PagesExactlyOnce'
  BY DEF IndInv, DoneIsLastPage, RetryBudget, PagesExactlyOnce, Crash, table, ident, effect
<1>6. AttemptsLeft'
  BY DEF IndInv, TypeOK, AttemptsLeft, Crash, Goto, table, seen
<1> QED
  BY <1>1, <1>2, <1>3, <1>4, <1>5, <1>6 DEF IndInv

-----------------------------------------------------------------------------
\* The empty table satisfies the invariant.
LEMMA InitIndInv == Init => IndInv
<1> SUFFICES ASSUME Init PROVE IndInv
  OBVIOUS
<1>1. TypeOK
  BY JobsAssumption DEF Init, TypeOK, Kinds, Statuses, PCs
<1>2. BusyOnRealJob /\ OwnerAttends /\ CopiesAreExact
  BY DEF Init, BusyOnRealJob, Busy, OwnerAttends, CopiesAreExact, CopyIsExact
<1>3. DoneIsLastPage /\ AttemptsLeft /\ RetryBudget
  BY JobsAssumption DEF Init, DoneIsLastPage, AttemptsLeft, RetryBudget
<1>4. PagesExactlyOnce
  BY DEF Init, PagesExactlyOnce
<1> QED
  BY <1>1, <1>2, <1>3, <1>4 DEF IndInv

\* Every step keeps the invariant, one case per kind of actor.
LEMMA NextIndInv == IndInv /\ [Next]_vars => IndInv'
<1> SUFFICES ASSUME IndInv, [Next]_vars PROVE IndInv'
  OBVIOUS
<1>1. CASE UNCHANGED vars
  <2>1. TypeOK'
    BY <1>1 DEF IndInv, TypeOK, vars, table, ident, effect, seen, spent
  <2> QED
    BY <1>1, <2>1, ClockKeeps DEF vars, table, ident, effect, seen, spent
<1>2. CASE \E j \in JobIds : \E k \in Kinds, n \in 0..MaxPages : Enqueue(j, k, n)
  BY <1>2, EnqueueKeeps
<1>3. CASE \E j \in JobIds : Cancel(j) \/ RetryDue(j) \/ DeadLeaseExpires(j) \/ SlowLeaseExpires(j)
  BY <1>3, CancelKeeps, RetryDueKeeps, DeadLeaseExpiresKeeps, SlowLeaseExpiresKeeps
<1>4. CASE \E w \in Workers : WorkerStep(w)
  BY <1>4, ClaimKeeps, DispatchKeeps, CommitPageKeeps, CommitCheckKeeps, CompleteKeeps,
     FailReadKeeps, FailWriteKeeps DEF WorkerStep
<1>5. CASE \E w \in Workers : Heartbeat(w) \/ JobError(w) \/ Crash(w)
  BY <1>5, HeartbeatKeeps, JobErrorKeeps, CrashKeeps
<1> QED
  BY <1>1, <1>2, <1>3, <1>4, <1>5 DEF Next

\* The invariant holds throughout every behaviour.
LEMMA IndInvAlways == Spec => []IndInv
BY InitIndInv, NextIndInv, PTL DEF Spec

\* Every column, counter and copy keeps its type; in particular no job is
\* attempted more than max_attempts times, whatever fail_retry overwrites.
THEOREM TypeCorrect == Spec => []TypeOK
<1>1. IndInv => TypeOK
  BY DEF IndInv
<1> QED
  BY <1>1, IndInvAlways, PTL

\* process_page and checkpoint deliver every page once and in order, for any
\* number of workers that crash, stall and take over from each other.
THEOREM ExactlyOnce == Spec => []PagesExactlyOnce
<1>1. IndInv => PagesExactlyOnce
  BY DEF IndInv
<1> QED
  BY <1>1, IndInvAlways, PTL

\* complete() is only reached by a job whose last checkpoint says it is done.
THEOREM CompletionIsHonest == Spec => []CompletedMeansDone
<1>1. IndInv => CompletedMeansDone
  BY DEF IndInv, CompletedMeansDone, DoneIsLastPage
<1> QED
  BY <1>1, IndInvAlways, PTL

\* claim() leaves no lease that nobody is working on or has died holding.
THEOREM LeasesAttended == Spec => []LeaseIsAttended
<1>1. IndInv => LeaseIsAttended
  BY DEF IndInv, LeaseIsAttended, OwnerAttends
<1> QED
  BY <1>1, IndInvAlways, PTL

\* fail_retry never fails a job early and never leaves a spent job claimable.
THEOREM RetriesBudgeted == Spec => []RetryBudget
<1>1. IndInv => RetryBudget
  BY DEF IndInv
<1> QED
  BY <1>1, IndInvAlways, PTL

-----------------------------------------------------------------------------
\* The initial table is an undelivered one.
LEMMA StartRefines == Init => Delivery!Start
BY DEF Init, Delivery!Start

\* A new row fixes its goal before anything is delivered.
LEMMA EnqueueRefines ==
  ASSUME IndInv, NEW j \in JobIds, NEW k \in Kinds, NEW n \in 0..MaxPages,
         Enqueue(j, k, n)
  PROVE  Delivery!Submit(j, n)
<1>1. total[j] = 0 /\ outbox[j] \in Seq(Nat) /\ Len(outbox[j]) = 0
  BY DEF IndInv, TypeOK, DoneIsLastPage, PagesExactlyOnce, Enqueue
<1>2. outbox[j] = << >>
  BY <1>1
<1> QED
  BY <1>1, <1>2 DEF Delivery!Submit, Enqueue, effect

\* A committed page is the next one, and it was still owed.
LEMMA CommitPageRefines ==
  ASSUME IndInv, NEW w \in Workers, CommitPage(w), Holds(w, cur[w])
  PROVE  cur[w] \in JobIds /\ Delivery!Deliver(cur[w])
<1>1. cur[w] \in JobIds
  BY DEF IndInv, BusyOnRealJob, Busy, CommitPage
<1>2. ~done[cur[w]] /\ seen_page[w] = page[cur[w]]
  BY DEF IndInv, CopiesAreExact, CopyIsExact, CommitPage, Holds
<1>3. Len(outbox[cur[w]]) = page[cur[w]]
  BY <1>1 DEF IndInv, PagesExactlyOnce
<1>4. Len(outbox[cur[w]]) < total[cur[w]] \/ Len(outbox[cur[w]]) = 0
  BY <1>1, <1>2, <1>3 DEF IndInv, DoneIsLastPage
<1>5. outbox' = [outbox EXCEPT ![cur[w]] = Append(@, Len(@) + 1)]
  BY <1>1, <1>2, <1>3 DEF CommitPage
<1> QED
  BY <1>1, <1>4, <1>5 DEF Delivery!Deliver, CommitPage, ident

\* Every step of the workers, the clients and the clock is a step of the
\* abstract delivery or leaves it alone.
LEMMA StepRefines == IndInv /\ [Next]_vars => [Delivery!Step]_<<total, outbox>>
<1> SUFFICES ASSUME IndInv, [Next]_vars PROVE [Delivery!Step]_<<total, outbox>>
  OBVIOUS
<1>1. CASE \E j \in JobIds : \E k \in Kinds, n \in 0..MaxPages : Enqueue(j, k, n)
  BY <1>1, EnqueueRefines DEF Delivery!Step
<1>2. CASE \E w \in Workers : CommitPage(w)
  <2>1. PICK w \in Workers : CommitPage(w)
    BY <1>2
  <2>2. CASE Holds(w, cur[w])
    BY <2>1, <2>2, CommitPageRefines DEF Delivery!Step
  <2>3. CASE ~Holds(w, cur[w])
    BY <2>1, <2>3 DEF CommitPage, effect, ident
  <2> QED
    BY <2>2, <2>3
<1>3. CASE UNCHANGED <<total, outbox>>
  BY <1>3
<1>4. UNCHANGED vars => UNCHANGED <<total, outbox>>
  BY DEF vars, ident, effect
<1>5. ASSUME NEW j \in JobIds
      PROVE  Cancel(j) \/ RetryDue(j) \/ DeadLeaseExpires(j) \/ SlowLeaseExpires(j)
               => UNCHANGED <<total, outbox>>
  BY DEF Cancel, RetryDue, DeadLeaseExpires, SlowLeaseExpires, ident, effect
<1>6. ASSUME NEW w \in Workers
      PROVE  WorkerStep(w) \/ Heartbeat(w) \/ JobError(w) \/ Crash(w)
               => CommitPage(w) \/ UNCHANGED <<total, outbox>>
  BY DEF WorkerStep, Claim, Dispatch, CommitCheck, Complete, FailRead, FailWrite,
         Heartbeat, JobError, Crash, ident, effect
<1> QED
  BY <1>1, <1>2, <1>3, <1>4, <1>5, <1>6 DEF Next

\* The durable queue implements PagedDelivery: seen from the outbox, workers,
\* leases, retries and crashes do not exist.
THEOREM Refinement == Spec => ImplementsDelivery
<1>1. Init => Delivery!Start
  BY StartRefines
<1>2. IndInv /\ [Next]_vars => [Delivery!Step]_<<total, outbox>>
  BY StepRefines
<1> QED
  BY <1>1, <1>2, IndInvAlways, PTL DEF Spec, ImplementsDelivery, Delivery!DeliverySpec
=============================================================================
