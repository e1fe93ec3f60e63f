----------------------------- MODULE TenderProofs -----------------------------
(* Proofs about modules TenderWatch and Collectors: the import, the checks,  *)
(* the collectors, the exception queue and the outbox, for any number of     *)
(* workers, any listings and any shape of the source's answers.              *)
EXTENDS Collectors, SequenceTheorems, FiniteSetTheorems, WellFoundedInduction, TLAPS

-----------------------------------------------------------------------------
(* The operators. *)

\* Every contract that drifts has a name.
LEMMA DriftedContractNames ==
  ASSUME NEW page, NEW item, NEW payload, NEW items
  PROVE  /\ DriftedContract(page, item, payload, items) \in {"page", "item", "none"}
         /\ DriftedContract(page, item, payload, {}) # "item"
<1>1. DriftOverItems(item, {}) = FALSE
  BY DEF DriftOverItems
<1> HIDE DEF DriftOverItems, HasDrift, DetectSchemaDrift
<1> QED
  BY <1>1 DEF DriftedContract

\* A listing has finitely many lines.
LEMMA ListingFinite ==
  ASSUME NEW l \in Listings
  PROVE  /\ l \in Seq(SUBSET Line)
         /\ \A p \in DOMAIN l : IsFiniteSet(l[p]) /\ Cardinality(l[p]) \in Nat
         /\ IsFiniteSet(AllLines(l)) /\ Cardinality(AllLines(l)) \in Nat
<1>1. l \in Seq(SUBSET Line) /\ \A p \in DOMAIN l : IsFiniteSet(l[p])
  BY WatchAssumption
<1>2. DOMAIN l = 1..Len(l) /\ Len(l) \in Nat
  BY <1>1
<1> DEFINE f == [p \in DOMAIN l |-> l[p]]
           S == {l[p] : p \in DOMAIN l}
<1>3. IsFiniteSet(DOMAIN l)
  BY <1>2, FS_Interval
<1>4. IsFiniteSet(S)
  <2>1. f \in Surjection(DOMAIN l, S)
    BY DEF Surjection
  <2> QED
    BY <1>3, <2>1, FS_Surjection
<1>5. \A T \in S : IsFiniteSet(T)
  BY <1>1
<1>6. IsFiniteSet(UNION S)
  BY <1>4, <1>5, FS_UNION
<1> QED
  BY <1>1, <1>6, FS_CardinalityType DEF AllLines

\* An answer is well typed, whatever shape it has.
LEMMA AnswerType ==
  ASSUME TypeOK, NEW p \in Nat, NEW a \in Answers(p)
  PROVE  /\ a.items \subseteq Line
         /\ a.claimed # NoTotal => a.claimed \in Nat
         /\ a.pages \in Int /\ a.total \in Int
         /\ a.contract \in {"page", "item", "none"}
<1> PICK shape \in PageAnswers, item \in ItemShapes, claim \in Claims(p) :
       a = Answer(p, shape, item, claim)
  BY DEF Answers
<1>1. source.listing \in Listings
  BY DEF TypeOK
<1>2. Cardinality({}) = 0 /\ {} \subseteq Line
  BY FS_EmptySet
<1>3. \A q \in DOMAIN source.listing : source.listing[q] \subseteq Line
  BY <1>1, ListingFinite
<1>4. ItemsOn(p) \subseteq Line /\ Cardinality(ItemsOn(p)) \in Nat
  BY <1>1, <1>2, <1>3, ListingFinite DEF ItemsOn
<1>5. claim.count \in Nat /\ claim.total \in Nat /\ claim.pages \in Nat
  <2>1. Len(source.listing) \in Nat /\ Cardinality(AllLines(source.listing)) \in Nat
    BY <1>1, ListingFinite
  <2>2. \A c \in ExtraClaims : c.count \in Nat /\ c.total \in Nat /\ c.pages \in Nat
    BY WatchAssumption
  <2> QED
    BY <1>4, <2>1, <2>2 DEF Claims
<1>6. a.items \subseteq Line
  BY <1>4 DEF Answer
<1>7. (a.claimed # NoTotal => a.claimed \in Nat) /\ a.pages \in Int /\ a.total \in Int
  <2> HIDE DEF Claims
  <2> QED
    BY <1>5 DEF Answer, NoTotal
<1>8. a.contract \in {"page", "item", "none"}
  BY DriftedContractNames DEF Answer
<1> QED
  BY <1>6, <1>7, <1>8

-----------------------------------------------------------------------------
(* Type correctness. *)

\* What enqueue_exception leaves.
LEMMA FiledType ==
  ASSUME NEW pending \in SUBSET ExceptionRows, NEW corr \in Corrs,
         NEW contract \in ContractNames
  PROVE  Filed(pending, corr, contract) \in SUBSET ExceptionRows
BY DEF Filed, ExceptionRow, ExceptionRows

LEMMA DriftEventType ==
  ASSUME TypeOK, NEW corr \in Corrs, NEW contract \in ContractNames, NEW page \in Nat
  PROVE  DriftEvent(corr, contract, page) \in OutboxRows
BY DEF DriftEvent, OutboxRow, OutboxRows, TypeOK

LEMMA TypeInit == CollectInit => CollectTypeOK
<1> SUFFICES ASSUME CollectInit PROVE CollectTypeOK
  OBVIOUS
<1> USE DEF CollectInit, Init
<1>1. Idle \in Memos
  BY DEF Idle, Start, Memo, Memos, NoVersion
<1>2. NoImport \in ImportRows
  BY DEF NoImport, ImportRow, ImportRows, NoTotal
<1>3. \A w \in Workers : wk[w].at = "idle"
  BY DEF Idle, Start, Memo
<1>4. wk \in [Workers -> Memos]
  BY <1>1
<1>5. PICK d \in Details, l \in Listings :
        source = [details |-> d, listing |-> l, edits |-> 0] /\ versions = <<d>>
  OBVIOUS
<1>6. versions \in Seq(Details) /\ versions # << >>
  BY <1>5
<1>7. collector \in [kind : Kinds, k : Nat, at : {"none", "running", "stopped", "done"}, next : Nat]
  BY DEF Kinds
<1>8. source \in [details : Details, listing : Listings, edits : Nat]
  BY <1>5
<1>9. ijob \in ImportJobs
  BY DEF ImportJobs, NoTotal
<1>10. jobs \in Seq(JobRows) /\ outbox \in Seq(OutboxRows) /\ events \in Seq(ChangeEvents)
  OBVIOUS
<1>11. imp \in ImportRows
  BY <1>2
<1>12. tracked \in BOOLEAN
  OBVIOUS
<1>13. /\ lines = {} /\ flags = {} /\ watch = -1 /\ clock = 0 /\ exceptions = {}
       /\ delivered = {} /\ closes = 0
  OBVIOUS
<1> HIDE DEF CollectInit, Init
<1> QED
  BY <1>3, <1>4, <1>6, <1>7, <1>8, <1>9, <1>10, <1>11, <1>12, <1>13
  DEF CollectTypeOK, TypeOK, Checking

\* The parts of a state that the import, and its checkpoint, write.
LEMMA ImportType ==
  ASSUME TypeOK, ImportStep
  PROVE  TypeOK'
<1>1. CASE StartImport \/ ImportStops
  <2>1. ijob \in ImportJobs
    BY DEF TypeOK
  <2>2. ijob' \in ImportJobs
    BY <1>1, <2>1 DEF StartImport, ImportStops, NoTotal, ImportJobs
  <2> QED
    BY <1>1, <2>2 DEF StartImport, ImportStops, TypeOK, market, boq, log, drift
<1>2. CASE MarkImportStalled
  <2>1. imp' \in ImportRows
    <3>1. imp \in ImportRows
      BY DEF TypeOK
    <3>2. (1..imp.pages) \ imp.sums \in SUBSET Nat
      BY <3>1 DEF ImportRows
    <3> QED
      BY <1>2, <3>1, <3>2 DEF MarkImportStalled, ImportRow, ImportRows
  <2> QED
    BY <1>2, <2>1 DEF MarkImportStalled, TypeOK, market, boq, log, drift
<1>3. ASSUME NEW a \in Answers(ijob.next), Checkpoint(a), ijob.at = "running"
      PROVE  ijob' \in ImportJobs
  <2>1. ijob.next \in Nat
    BY DEF TypeOK, ImportJobs
  <2> QED
    BY <1>3, <2>1, AnswerType DEF Checkpoint, TypeOK, ImportJobs
<1>4. ASSUME NEW a \in Answers(ijob.next), ImportPage(a)
      PROVE  TypeOK'
  <2>1. ijob.next \in Nat
    BY DEF TypeOK, ImportJobs
  <2>2. a.items \subseteq Line /\ a.claimed \in Nat /\ a.pages \in Int /\ a.total \in Int
    BY <1>4, <2>1, AnswerType DEF ImportPage
  <2>3. \A m, n : StatusAfter(m, n, a)
          \in {"in_progress", "complete", "incomplete", "source_exhausted_unverified"}
    BY DEF StatusAfter
  <2> HIDE DEF StatusAfter
  <2>4. imp' \in ImportRows
    <3>1. /\ imp.fetched + 1 \in Nat /\ imp.stored + a.claimed \in Nat
          /\ imp.sums \cup {ijob.next} \in SUBSET Nat /\ imp.missing \in SUBSET Nat
      <4>1. imp \in ImportRows
        BY DEF TypeOK
      <4> QED
        BY <2>1, <2>2, <4>1 DEF ImportRows
    <3> QED
      BY <1>4, <2>2, <2>3, <3>1 DEF ImportPage, Recorded, ImportRow, ImportRows
  <2>5. lines' \subseteq Line
    BY <1>4, <2>2 DEF ImportPage, StoreBoqLines, TypeOK
  <2>6. ijob' \in ImportJobs
    BY <1>3, <1>4 DEF ImportPage
  <2> QED
    BY <1>4, <2>4, <2>5, <2>6 DEF ImportPage, TypeOK, market, boq, log, drift
<1>5. ASSUME NEW a \in Answers(ijob.next), ImportDriftedPage(a)
      PROVE  TypeOK'
  <2>1. ijob.next \in Nat /\ ImportCorr(ijob.k) \in Corrs
    BY DEF TypeOK, ImportJobs, ImportCorr, Corrs
  <2>2. a.contract \in ContractNames
    BY <1>5, <2>1, AnswerType DEF ContractNames, ImportDriftedPage
  <2>3. outbox' \in Seq(OutboxRows) /\ DOMAIN outbox \subseteq DOMAIN outbox'
    BY <1>5, <2>1, <2>2, DriftEventType DEF ImportDriftedPage, TypeOK
  <2>4. exceptions' \subseteq ExceptionRows
    <3>1. Filed({}, ImportCorr(ijob.k), a.contract) \in SUBSET ExceptionRows
      BY <2>1, <2>2, FiledType
    <3> QED
      BY <1>5, <3>1 DEF ImportDriftedPage, TypeOK
  <2>5. ijob' \in ImportJobs
    BY <1>3, <1>5 DEF ImportDriftedPage
  <2> QED
    BY <1>5, <2>3, <2>4, <2>5 DEF ImportDriftedPage, TypeOK, market, boq, log, drift
<1> QED
  BY <1>1, <1>2, <1>4, <1>5 DEF ImportStep

\* A worker that goes to its next step.
LEMMA GoType ==
  ASSUME TypeOK, NEW w \in Workers, NEW m \in Memos, Go(w, m),
         DOMAIN jobs \subseteq DOMAIN jobs',
         m.at \in {"idle", "schedule"} \/ m.job \in DOMAIN jobs',
         m.at \in Checking => m.prev \in Details
  PROVE  /\ wk' \in [Workers -> Memos]
         /\ \A v \in Workers : wk'[v].at \in {"idle", "schedule"} \/ wk'[v].job \in DOMAIN jobs'
         /\ \A v \in Workers : wk'[v].at \in Checking => wk'[v].prev \in Details
BY DEF TypeOK, Go

\* What starts anew is well typed.
LEMMA StartType ==
  ASSUME NEW at \in {"idle", "schedule", "previous", "complete"}, NEW j \in Nat
  PROVE  Start(at, j) \in Memos /\ Start(at, j).at = at /\ Start(at, j).job = j
         /\ Start(at, j).at \notin Checking
BY DEF Start, Memo, Memos, Checking

LEMMA IdleType == Idle \in Memos /\ Idle.at = "idle" /\ Idle.at \notin Checking
BY StartType DEF Idle

\* The job of a worker at work.
LEMMA AtWork ==
  ASSUME TypeOK, NEW w \in Workers, wk[w].at \notin {"idle", "schedule"}
  PROVE  /\ wk[w].job \in DOMAIN jobs /\ jobs[wk[w].job] \in JobRows /\ wk[w] \in Memos
         /\ wk[w].at \in Checking => wk[w].prev \in Details
BY DEF TypeOK

\* diff_normalized_fields gives the fields that differ, with both values.
LEMMA DiffType ==
  ASSUME NEW old \in Details, NEW new \in Details
  PROVE  /\ Diff(old, new) \subseteq [field : Fields, old : Nat, new : Nat]
         /\ \A c \in Diff(old, new) : c.old = old[c.field] /\ c.new = new[c.field]
         /\ \A f \in Fields : old[f] # new[f] <=> \E c \in Diff(old, new) : c.field = f
<1>1. old \in [Fields -> Nat] /\ new \in [Fields -> Nat]
  BY WatchAssumption
<1>2. ASSUME NEW c \in Diff(old, new)
      PROVE  /\ c \in [field : Fields, old : Nat, new : Nat]
             /\ c.old = old[c.field] /\ c.new = new[c.field] /\ old[c.field] # new[c.field]
  <2> PICK f \in Fields : c = [field |-> f, old |-> old[f], new |-> new[f]] /\ old[f] # new[f]
    BY DEF Diff
  <2> QED
    BY <1>1
<1>3. ASSUME NEW f \in Fields, old[f] # new[f]
      PROVE  \E c \in Diff(old, new) : c.field = f
  <2>1. [field |-> f, old |-> old[f], new |-> new[f]] \in Diff(old, new)
    BY <1>3 DEF Diff
  <2> QED
    BY <2>1
<1> QED
  BY <1>2, <1>3

LEMMA WorkerType ==
  ASSUME TypeOK, NEW w \in Workers, WorkerStep(w)
  PROVE  TypeOK'
<1> USE DEF market, boq, log, drift
<1>t. wk[w] \in Memos /\ jobs \in Seq(JobRows) /\ clock \in Nat /\ closes \in Nat
  BY DEF TypeOK
<1>1. CASE ReadDue(w)
  <2>1. Go(w, Start("schedule", 0)) /\ jobs' = jobs
    BY <1>1 DEF ReadDue
  <2>2. /\ wk' \in [Workers -> Memos]
        /\ \A v \in Workers : wk'[v].at \in {"idle", "schedule"} \/ wk'[v].job \in DOMAIN jobs'
        /\ \A v \in Workers : wk'[v].at \in Checking => wk'[v].prev \in Details
    BY <2>1, StartType, GoType
  <2> QED
    BY <1>1, <2>1, <2>2 DEF ReadDue, TypeOK
<1>2. CASE EnqueueDue(w)
  <2>0. PICK r : r = JobRow("pending", w, FALSE, 0, \A j \in DOMAIN jobs : Settled(j))
    OBVIOUS
  <2>1. r \in JobRows
    BY <2>0 DEF JobRow, JobRows
  <2>2. jobs' \in Seq(JobRows) /\ DOMAIN jobs \subseteq DOMAIN jobs'
    <3>1. jobs' = Append(jobs, r)
      BY <1>2, <2>0 DEF EnqueueDue
    <3> QED
      BY <1>t, <2>1, <3>1
  <2>3. Go(w, Idle) /\ watch' \in Int
    BY <1>2, <1>t DEF EnqueueDue, UpsertWatchState
  <2> QED
    BY <1>2, <2>2, <2>3, IdleType, GoType DEF EnqueueDue, TypeOK
<1>3. ASSUME NEW j \in DOMAIN jobs, Claim(w, j)
      PROVE  TypeOK'
  <2>1. JobRow("leased", w, jobs[j].done, jobs[j].attempt, jobs[j].alone) \in JobRows
    <3>1. jobs[j] \in JobRows
      BY <1>t
    <3> QED
      BY <3>1 DEF JobRow, JobRows
  <2>2. jobs' \in Seq(JobRows) /\ DOMAIN jobs' = DOMAIN jobs
    <3>1. jobs' = [jobs EXCEPT ![j] = JobRow("leased", w, jobs[j].done, jobs[j].attempt, jobs[j].alone)]
      BY <1>3 DEF Claim
    <3> QED
      BY <1>t, <2>1, <3>1
  <2>3. Go(w, Start("previous", j)) /\ j \in Nat
    BY <1>3, <1>t DEF Claim
  <2>4. /\ wk' \in [Workers -> Memos]
        /\ \A v \in Workers : wk'[v].at \in {"idle", "schedule"} \/ wk'[v].job \in DOMAIN jobs'
        /\ \A v \in Workers : wk'[v].at \in Checking => wk'[v].prev \in Details
    BY <2>2, <2>3, StartType, GoType
  <2> QED
    BY <1>3, <2>2, <2>4 DEF Claim, TypeOK
<1>4. CASE ReadPrevious(w)
  <2> DEFINE m == Memo("details", wk[w].job, clock, Current, NoVersion, 0, {}, << >>, {})
  <2>1. Current \in Details
    BY DEF TypeOK, Current
  <2>2. m \in Memos /\ m.at = "details" /\ m.job = wk[w].job /\ m.prev \in Details
    BY <1>t, <2>1 DEF Memo, Memos
  <2>3. Go(w, m) /\ jobs' = jobs /\ wk[w].job \in DOMAIN jobs
    BY <1>4, AtWork DEF ReadPrevious
  <2> QED
    BY <1>4, <2>2, <2>3, GoType DEF ReadPrevious, TypeOK
<1>5. ASSUME NEW shape, FetchDetails(w, shape)
      PROVE  TypeOK'
  <2> DEFINE m == Memo(IF Diff(wk[w].prev, source.details) = {} THEN "commit" ELSE "walk",
                wk[w].job, wk[w].seen, wk[w].prev, source.details, 1, {}, << >>, {})
  <2>1. source.details \in Details /\ wk[w].prev \in Details
    BY <1>5, AtWork DEF TypeOK, Checking, FetchDetails
  <2>2. m \in Memos /\ m.job = wk[w].job /\ m.prev \in Details
    BY <1>t, <2>1 DEF Memo, Memos
  <2>3. Go(w, m) /\ jobs' = jobs /\ wk[w].job \in DOMAIN jobs
    BY <1>5, AtWork DEF FetchDetails
  <2> QED
    BY <1>5, <2>2, <2>3, GoType DEF FetchDetails, TypeOK
<1>6. ASSUME NEW shape, DriftedDetails(w, shape)
      PROVE  TypeOK'
  <2> DEFINE m == Memo("commit", wk[w].job, wk[w].seen, wk[w].prev, NoVersion, 0, {},
                <<DriftEvent(WatchCorr, "details", 0)>>, Filed({}, WatchCorr, "details"))
  <2>1. WatchCorr \in Corrs /\ "details" \in ContractNames
    BY DEF WatchCorr, Corrs, ContractNames
  <2>2. <<DriftEvent(WatchCorr, "details", 0)>> \in Seq(OutboxRows)
    BY <2>1, DriftEventType
  <2>3. Filed({}, WatchCorr, "details") \in SUBSET ExceptionRows
    BY <2>1, FiledType
  <2>p. wk[w].prev \in Details
    BY <1>6, AtWork DEF Checking, DriftedDetails
  <2>4. m \in Memos /\ m.job = wk[w].job /\ m.prev \in Details
    BY <1>t, <2>2, <2>3, <2>p DEF Memo, Memos
  <2>5. Go(w, m) /\ jobs' = jobs /\ wk[w].job \in DOMAIN jobs
    BY <1>6, AtWork DEF DriftedDetails
  <2> QED
    BY <1>6, <2>4, <2>5, GoType DEF DriftedDetails, TypeOK
<1>7. ASSUME NEW a \in Answers(wk[w].page), WalkPage(w, a)
      PROVE  TypeOK'
  <2> DEFINE drifts == IF a.contract = "none" THEN wk[w].drifts
                       ELSE Append(wk[w].drifts, DriftEvent(WatchCorr, a.contract, wk[w].page))
             asked == IF a.contract = "none" THEN wk[w].asked
                      ELSE Filed(wk[w].asked, WatchCorr, a.contract)
             found == IF a.contract = "none" THEN wk[w].found \cup a.items ELSE wk[w].found
             m == Memo(IF a.pages = NoTotal \/ wk[w].page >= a.pages THEN "commit" ELSE "walk",
                       wk[w].job, wk[w].seen, wk[w].prev, wk[w].new, wk[w].page + 1,
                       found, drifts, asked)
  <2>0. wk[w].page \in Nat /\ wk[w].drifts \in Seq(OutboxRows)
        /\ wk[w].asked \in SUBSET ExceptionRows /\ wk[w].found \in SUBSET Line
    BY <1>t DEF Memos
  <2>1. WatchCorr \in Corrs /\ (a.contract # "none" => a.contract \in ContractNames)
    BY <2>0, AnswerType DEF WatchCorr, Corrs, ContractNames
  <2>2. drifts \in Seq(OutboxRows)
    BY <2>0, <2>1, DriftEventType
  <2>3. asked \in SUBSET ExceptionRows
    BY <2>0, <2>1, FiledType
  <2>4. found \in SUBSET Line
    BY <2>0, AnswerType
  <2> HIDE DEF drifts, asked, found
  <2>p. wk[w].prev \in Details
    BY <1>7, AtWork DEF Checking, WalkPage
  <2>5. m \in Memos /\ m.job = wk[w].job /\ m.prev \in Details
    BY <1>t, <2>0, <2>2, <2>3, <2>4, <2>p DEF Memo, Memos
  <2>6. Go(w, m) /\ jobs' = jobs /\ wk[w].job \in DOMAIN jobs
    BY <1>7, AtWork DEF WalkPage, drifts, asked, found
  <2> HIDE DEF m
  <2> QED
    BY <1>7, <2>5, <2>6, GoType DEF WalkPage, TypeOK
<1>8. CASE CommitCheck(w)
  <2>0. wk[w].at = "commit" /\ jobs[wk[w].job] \in JobRows /\ wk[w].job \in DOMAIN jobs
    BY <1>8, AtWork DEF CommitCheck, CommitAllowed
  <2>r. PICK r : r = JobRow("leased", w, TRUE, jobs[wk[w].job].attempt, jobs[wk[w].job].alone)
    OBVIOUS
  <2>1. r \in JobRows
    BY <2>0, <2>r DEF JobRow, JobRows
  <2>2. jobs' \in Seq(JobRows) /\ DOMAIN jobs' = DOMAIN jobs
    <3>1. jobs' = [jobs EXCEPT ![wk[w].job] = r]
      BY <1>8, <2>r DEF CommitCheck
    <3> QED
      BY <1>t, <2>0, <2>1, <3>1
  <2>3. Go(w, Start("complete", wk[w].job)) /\ wk[w].job \in Nat
    BY <1>8, <1>t DEF CommitCheck, Memos
  <2>4. /\ wk' \in [Workers -> Memos]
        /\ \A v \in Workers : wk'[v].at \in {"idle", "schedule"} \/ wk'[v].job \in DOMAIN jobs'
        /\ \A v \in Workers : wk'[v].at \in Checking => wk'[v].prev \in Details
    BY <2>0, <2>2, <2>3, StartType, GoType
  <2>5. versions' \in Seq(Details) /\ versions' # << >>
    <3>1. CASE wk[w].new = NoVersion
      BY <1>8, <3>1 DEF CommitCheck, TypeOK
    <3>2. CASE wk[w].new # NoVersion
      <4>1. wk[w].new \in Details /\ versions \in Seq(Details)
        BY <1>t, <3>2 DEF Memos, TypeOK
      <4>2. versions' = Append(versions, wk[w].new)
        BY <1>8, <3>2 DEF CommitCheck
      <4> QED
        BY <4>1, <4>2
    <3> QED
      BY <3>1, <3>2
  <2>6. outbox' \in Seq(OutboxRows) /\ DOMAIN outbox \subseteq DOMAIN outbox'
    <3>1. wk[w].drifts \in Seq(OutboxRows) /\ outbox \in Seq(OutboxRows)
      BY <1>t DEF Memos, TypeOK
    <3> QED
      BY <1>8, <3>1 DEF CommitCheck
  <2>8. events' \in Seq(ChangeEvents) /\ flags' \subseteq [event : Nat, line : Nat]
    <3> PICK changes : changes = IF wk[w].new = NoVersion THEN {} ELSE Diff(wk[w].prev, wk[w].new)
      OBVIOUS
    <3>0. events \in Seq(ChangeEvents) /\ flags \subseteq [event : Nat, line : Nat]
          /\ lines \subseteq Line /\ wk[w].found \subseteq Line
      BY <1>t DEF TypeOK, Memos
    <3>1. CASE changes = {}
      BY <1>8, <3>0, <3>1 DEF CommitCheck
    <3>2. CASE changes # {}
      <4>1. wk[w].new \in Details /\ wk[w].prev \in Details
        BY <1>8, <1>t, <3>2, AtWork DEF CommitCheck, CommitAllowed, Memos, Checking
      <4>2. ChangeEvent(changes) \in ChangeEvents
        BY <3>2, <4>1, DiffType DEF ChangeEvent, ChangeEvents, ClassifyChangeType
      <4>3. events' = Append(events, ChangeEvent(changes))
            /\ flags' = flags \cup RecalcFlags(Len(events) + 1, DiffLines(lines, wk[w].found))
        BY <1>8, <3>2 DEF CommitCheck
      <4>4. Len(events) + 1 \in Nat /\ DiffLines(lines, wk[w].found) \subseteq Nat
        BY <3>0 DEF DiffLines, LineIds, Line
      <4>5. RecalcFlags(Len(events) + 1, DiffLines(lines, wk[w].found))
              \subseteq [event : Nat, line : Nat]
        <5> HIDE DEF DiffLines
        <5> QED
          BY <4>4 DEF RecalcFlags
      <4> QED
        BY <3>0, <4>2, <4>3, <4>5
    <3> QED
      BY <3>1, <3>2
  <2>7. exceptions' \subseteq ExceptionRows /\ watch' \in Int
    BY <1>8, <1>t DEF CommitCheck, Memos, TypeOK, UpsertWatchState
  <2> QED
    BY <1>8, <2>2, <2>4, <2>5, <2>6, <2>7, <2>8 DEF CommitCheck, TypeOK
<1>9. CASE Complete(w)
  <2>0. jobs[wk[w].job] \in JobRows /\ wk[w].job \in DOMAIN jobs
    BY <1>9, AtWork DEF Complete
  <2>1. JobRow("completed", w, jobs[wk[w].job].done, jobs[wk[w].job].attempt,
                 jobs[wk[w].job].alone) \in JobRows
    BY <2>0 DEF JobRow, JobRows
  <2>2. jobs' \in Seq(JobRows) /\ DOMAIN jobs' = DOMAIN jobs /\ Go(w, Idle)
    <3>1. jobs' = [jobs EXCEPT ![wk[w].job] =
                     JobRow("completed", w, jobs[wk[w].job].done, jobs[wk[w].job].attempt,
                 jobs[wk[w].job].alone)]
      BY <1>9 DEF Complete
    <3> QED
      BY <1>9, <1>t, <2>0, <2>1, <3>1 DEF Complete
  <2> QED
    BY <1>9, <2>2, IdleType, GoType DEF Complete, TypeOK
<1>10. CASE Fail(w)
  <2>0. jobs[wk[w].job] \in JobRows /\ wk[w].job \in DOMAIN jobs
    BY <1>10, AtWork DEF Fail
  <2> DEFINE n == jobs[wk[w].job].attempt + 1
             r == JobRow(IF n < MaxAttempts THEN "pending" ELSE "failed", w, jobs[wk[w].job].done, n,
                         jobs[wk[w].job].alone)
  <2>1. r \in JobRows
    BY <2>0 DEF JobRow, JobRows
  <2>2. jobs' = jobs \/ jobs' = [jobs EXCEPT ![wk[w].job] = r]
    BY <1>10 DEF Fail
  <2>3. jobs' \in Seq(JobRows) /\ DOMAIN jobs' = DOMAIN jobs /\ Go(w, Idle)
    BY <1>10, <1>t, <2>0, <2>1, <2>2 DEF Fail
  <2> QED
    BY <1>10, <2>3, IdleType, GoType DEF Fail, TypeOK
<1>11. CASE Crash(w)
  <2>1. jobs' = jobs /\ Go(w, Idle)
    BY <1>11 DEF Crash
  <2> QED
    BY <1>11, <2>1, IdleType, GoType DEF Crash, TypeOK
<1> QED
  BY <1>1, <1>2, <1>3, <1>4, <1>5, <1>6, <1>7, <1>8, <1>9, <1>10, <1>11 DEF WorkerStep

LEMMA QueueType ==
  ASSUME TypeOK, \/ \E x \in exceptions : CloseException(x)
                 \/ \E c : CloseMatching(c)
                 \/ \E n \in 0..MaxDrifts : PublishPending(n)
  PROVE  TypeOK'
<1> USE DEF market, boq, log, drift
<1>1. ASSUME NEW x \in exceptions
      PROVE  Closed(x) \in ExceptionRows
  BY DEF Closed, ExceptionRow, ExceptionRows, TypeOK
<1>2. ASSUME NEW x \in exceptions, CloseException(x)
      PROVE  TypeOK'
  <2>1. exceptions' \subseteq ExceptionRows /\ closes' \in Nat
    BY <1>1, <1>2 DEF CloseException, TypeOK
  <2> QED
    BY <1>2, <2>1 DEF CloseException, TypeOK
<1>3. ASSUME NEW c, CloseMatching(c)
      PROVE  TypeOK'
  <2>1. exceptions' \subseteq ExceptionRows /\ closes' \in Nat
    BY <1>1, <1>3 DEF CloseMatching, TypeOK
  <2> QED
    BY <1>3, <2>1 DEF CloseMatching, TypeOK
<1>4. ASSUME NEW n \in 0..MaxDrifts, PublishPending(n)
      PROVE  TypeOK'
  <2>1. outbox \in Seq(OutboxRows) /\ delivered \subseteq DOMAIN outbox
    BY DEF TypeOK
  <2>2. \A i \in DOMAIN outbox : Published(outbox[i]) \in OutboxRows
    <3>1. \A i \in DOMAIN outbox : outbox[i] \in OutboxRows
      BY <2>1
    <3> QED
      BY <3>1 DEF Published, OutboxRow, OutboxRows
  <2>3. outbox' = outbox \/ outbox' = [i \in DOMAIN outbox |-> Published(outbox[i])]
    BY <1>4 DEF PublishPending
  <2>4. outbox' \in Seq(OutboxRows) /\ DOMAIN outbox' = DOMAIN outbox
    <3>1. CASE outbox' = outbox
      BY <2>1, <3>1
    <3>2. CASE outbox' = [i \in DOMAIN outbox |-> Published(outbox[i])]
      <4>1. DOMAIN outbox = 1..Len(outbox) /\ Len(outbox) \in Nat
        BY <2>1
      <4>2. outbox' \in [1..Len(outbox) -> OutboxRows]
        BY <2>2, <3>2, <4>1
      <4> QED
        BY <4>1, <4>2, SeqDef
    <3> QED
      BY <2>3, <3>1, <3>2
  <2>5. delivered' \subseteq DOMAIN outbox'
    BY <1>4, <2>1, <2>4 DEF PublishPending, Pending
  <2> QED
    BY <1>4, <2>4, <2>5 DEF PublishPending, TypeOK
<1> QED
  BY <1>2, <1>3, <1>4

\* What a collector reports of a page that drifted.
LEMMA CollectedDrift ==
  ASSUME CollectTypeOK, NEW shape, NEW item, CollectDriftedPage(shape, item)
  PROVE  /\ CollectCorr \in Corrs /\ collector.next \in Nat
         /\ ContractName(collector.kind, PageDrift(collector.kind, shape, item)) \in ContractNames
<1> DEFINE which == PageDrift(collector.kind, shape, item)
<1>1. collector.kind \in Kinds /\ collector.k \in Nat /\ collector.next \in Nat
  BY DEF CollectTypeOK
<1>2. which \in {"page", "item"}
  BY DriftedContractNames DEF PageDrift, CollectDriftedPage
<1>3. collector.kind = "design" => which # "item"
  BY DriftedContractNames DEF PageDrift
<1>4. ContractName(collector.kind, which) \in ContractNames
  <2> HIDE DEF which
  <2> QED
    BY <1>1, <1>2, <1>3 DEF ContractName, ContractNames, Kinds
<1> QED
  BY <1>1, <1>4 DEF CollectCorr, Corrs, Kinds

LEMMA CollectorType ==
  ASSUME CollectTypeOK, CollectorStep
  PROVE  CollectTypeOK'
<1> DEFINE Collectors == [kind : Kinds, k : Nat, at : {"none", "running", "stopped", "done"}, next : Nat]
<1>t. TypeOK /\ collector \in Collectors
  BY DEF CollectTypeOK
<1>u. UNCHANGED vars => TypeOK'
  BY <1>t DEF TypeOK, vars, market, boq, log, drift
<1>1. ASSUME NEW kind \in Kinds, StartCollect(kind)
      PROVE  CollectTypeOK'
  <2>1. collector' \in Collectors
    BY <1>1, <1>t DEF StartCollect
  <2> QED
    BY <1>1, <1>u, <2>1 DEF CollectTypeOK, StartCollect
<1>2. ASSUME NEW shape, CollectCheckpoint(shape)
      PROVE  collector' \in Collectors
  <2>1. CursorAfter(collector.kind, collector.next) \in Nat
    BY <1>t, CollectorsAssumption DEF CursorAfter
  <2> QED
    BY <1>2, <1>t, <2>1 DEF CollectCheckpoint
<1>3. ASSUME NEW shape, NEW item, CollectPage(shape, item)
      PROVE  CollectTypeOK'
  BY <1>2, <1>3, <1>u DEF CollectTypeOK, CollectPage
<1>4. ASSUME NEW shape, NEW item, CollectDriftedPage(shape, item)
      PROVE  CollectTypeOK'
  <2> DEFINE name == ContractName(collector.kind, PageDrift(collector.kind, shape, item))
  <2>1. CollectCorr \in Corrs /\ collector.next \in Nat /\ name \in ContractNames
    BY <1>4, CollectedDrift
  <2>5. outbox' \in Seq(OutboxRows) /\ DOMAIN outbox \subseteq DOMAIN outbox'
    <3>1. outbox' = Append(outbox, DriftEvent(CollectCorr, name, collector.next))
      BY <1>4 DEF CollectDriftedPage
    <3>2. DriftEvent(CollectCorr, name, collector.next) \in OutboxRows
      BY <1>t, <2>1, DriftEventType
    <3>3. outbox \in Seq(OutboxRows)
      BY <1>t DEF TypeOK
    <3> QED
      BY <3>1, <3>2, <3>3
  <2>6. exceptions' \subseteq ExceptionRows
    <3>1. Filed({}, CollectCorr, name) \in SUBSET ExceptionRows
      BY <2>1, FiledType
    <3> QED
      BY <1>4, <1>t, <3>1 DEF CollectDriftedPage, TypeOK
  <2>7. TypeOK'
    BY <1>4, <1>t, <2>5, <2>6 DEF CollectDriftedPage, TypeOK, market, boq, log, drift
  <2> QED
    BY <1>2, <1>4, <2>7 DEF CollectTypeOK, CollectDriftedPage
<1>5. CASE CollectStops
  <2>1. collector' \in Collectors
    BY <1>5, <1>t DEF CollectStops
  <2> QED
    BY <1>5, <1>u, <2>1 DEF CollectTypeOK, CollectStops
<1> QED
  BY <1>1, <1>3, <1>4, <1>5 DEF CollectorStep

LEMMA TypeStep == CollectTypeOK /\ [CollectNext]_allVars => CollectTypeOK'
<1> SUFFICES ASSUME CollectTypeOK, [CollectNext]_allVars PROVE CollectTypeOK'
  OBVIOUS
<1>t. TypeOK
  BY DEF CollectTypeOK
<1>1. CASE UNCHANGED allVars
  BY <1>1 DEF CollectTypeOK, TypeOK, allVars, vars, cvars, market, boq, log, drift
<1>2. CASE Next /\ UNCHANGED cvars
  <2> SUFFICES TypeOK'
    BY <1>2 DEF CollectTypeOK, cvars
  <2>1. ASSUME NEW d \in Details, NEW l \in Listings, Edit(d, l)
        PROVE  TypeOK'
    BY <1>t, <2>1 DEF Edit, TypeOK, boq, log, drift
  <2>2. CASE Decide \/ Tick
    <3>1. tracked' \in BOOLEAN
      BY <1>t, <2>2 DEF Decide, Tick, TypeOK
    <3> QED
      BY <1>t, <2>2, <3>1 DEF Decide, Tick, TypeOK, market, boq, log, drift
  <2> QED
    BY <1>2, <1>t, <2>1, <2>2, ImportType, WorkerType, QueueType DEF Next
<1>3. CASE CollectorStep
  BY <1>3, CollectorType
<1> QED
  BY <1>1, <1>2, <1>3 DEF CollectNext

\* The state of the import, the checks, the collectors, the queue and the
\* outbox is well typed.
THEOREM TenderTypeCorrect == CollectSpec => []CollectTypeOK
BY TypeInit, TypeStep, PTL DEF CollectSpec

-----------------------------------------------------------------------------
(* The exception queue and the outbox. *)

\* A person sees drift d: one of the rows has its correlation id and is
\* open, or was closed after the drift was seen.
Answered(rows, d) == \E x \in rows : x.corr = d.corr /\ (x.closed = 0 \/ x.closed > d.filed)

\* What a worker holds until its commit is pending, and is answered by the
\* rows it will add.
HeldOK(m) ==
  \A i \in DOMAIN m.drifts :
    /\ m.drifts[i].status = "pending" /\ m.drifts[i].filed <= closes
    /\ Answered(exceptions \cup m.asked, m.drifts[i])

QueueInv ==
  /\ \A i \in DOMAIN outbox : outbox[i].filed <= closes /\ Answered(exceptions, outbox[i])
  /\ \A w \in Workers : HeldOK(wk[w])
  /\ PublishedWasDelivered

\* After enqueue_exception there is an open row, and nothing is lost.
LEMMA FiledOpens ==
  ASSUME NEW pending, NEW corr, NEW contract
  PROVE  /\ pending \subseteq Filed(pending, corr, contract)
         /\ \E x \in exceptions \cup Filed(pending, corr, contract) : x.corr = corr /\ x.closed = 0
<1>1. CASE OpenRow(exceptions \cup pending, corr) # {}
  BY <1>1 DEF Filed, OpenRow
<1>2. CASE OpenRow(exceptions \cup pending, corr) = {}
  <2>1. ExceptionRow(corr, contract, 0).corr = corr /\ ExceptionRow(corr, contract, 0).closed = 0
    BY DEF ExceptionRow
  <2> QED
    BY <1>2, <2>1 DEF Filed
<1> QED
  BY <1>1, <1>2

\* A drift event is answered by the row filed with it.
LEMMA EventAnswered ==
  ASSUME TypeOK, NEW pending, NEW corr, NEW contract, NEW page
  PROVE  LET d == DriftEvent(corr, contract, page) IN
         /\ d.status = "pending" /\ d.filed = closes /\ d.corr = corr /\ d.page = page
         /\ Answered(exceptions \cup Filed(pending, corr, contract), d)
<1>1. LET d == DriftEvent(corr, contract, page) IN
        d.status = "pending" /\ d.filed = closes /\ d.corr = corr /\ d.page = page
  BY DEF DriftEvent, OutboxRow
<1> HIDE DEF DriftEvent
<1> QED
  BY <1>1, FiledOpens DEF Answered

\* More rows answer no less.
LEMMA AnsweredGrows ==
  ASSUME NEW R, NEW S, R \subseteq S, NEW d, Answered(R, d)
  PROVE  Answered(S, d)
BY DEF Answered

\* Nor do rows that are closed now.
LEMMA AnsweredCloses ==
  ASSUME TypeOK, NEW R, NEW S, NEW d, d.filed \in Nat, d.filed <= closes, Answered(R, d),
         \A x \in R : x \in S \/ Closed(x) \in S
  PROVE  Answered(S, d)
<1> PICK x \in R : x.corr = d.corr /\ (x.closed = 0 \/ x.closed > d.filed)
  BY DEF Answered
<1>1. CASE x \in S
  BY <1>1 DEF Answered
<1>2. CASE Closed(x) \in S
  <2>1. Closed(x).corr = x.corr /\ Closed(x).closed = closes + 1
    BY DEF Closed, ExceptionRow
  <2>2. closes + 1 > d.filed
    BY DEF TypeOK
  <2> QED
    BY <1>2, <2>1, <2>2 DEF Answered
<1> QED
  BY <1>1, <1>2

LEMMA QueueInit == CollectInit => QueueInv
<1> SUFFICES ASSUME CollectInit PROVE QueueInv
  OBVIOUS
<1>1. \A w \in Workers : wk[w].drifts = << >>
  BY DEF CollectInit, Init, Idle, Start, Memo
<1>2. outbox = << >>
  BY DEF CollectInit, Init
<1> QED
  BY <1>1, <1>2 DEF QueueInv, HeldOK, PublishedWasDelivered

\* A step that writes neither the queue nor the outbox: only what the
\* workers hold can change.
LEMMA QueueUntouched ==
  ASSUME TypeOK, QueueInv, UNCHANGED <<exceptions, outbox, delivered, closes>>,
         UNCHANGED wk \/ \E w \in Workers, m \in Memos : Go(w, m) /\ HeldOK(m)
  PROVE  QueueInv'
<1>1. \A w \in Workers : HeldOK(wk'[w])
  BY DEF QueueInv, Go, TypeOK
<1>2. \A w \in Workers : HeldOK(wk[w])'
  BY <1>1 DEF HeldOK
<1> QED
  BY <1>2 DEF QueueInv, PublishedWasDelivered

\* What a worker holds is answered by more rows too.
LEMMA HeldGrows ==
  ASSUME NEW w, HeldOK(wk[w]), exceptions \subseteq exceptions', closes' = closes, wk'[w] = wk[w]
  PROVE  HeldOK(wk[w])'
<1> PICK m : m = wk[w]
  OBVIOUS
<1>1. exceptions \cup m.asked \subseteq exceptions' \cup m.asked
  OBVIOUS
<1>2. \A i \in DOMAIN m.drifts : Answered(exceptions' \cup m.asked, m.drifts[i])
  BY <1>1, AnsweredGrows DEF HeldOK
<1> QED
  BY <1>2 DEF HeldOK

\* A page that drifted is reported and filed in one transaction.
LEMMA QueueReports ==
  ASSUME TypeOK, QueueInv, NEW corr \in Corrs, NEW contract \in ContractNames, NEW page \in Nat,
         outbox' = Append(outbox, DriftEvent(corr, contract, page)),
         exceptions' = exceptions \cup Filed({}, corr, contract),
         UNCHANGED <<delivered, closes, wk>>
  PROVE  QueueInv'
<1> PICK d : d = DriftEvent(corr, contract, page)
  OBVIOUS
<1>1. d \in OutboxRows /\ outbox \in Seq(OutboxRows)
  BY DriftEventType DEF TypeOK
<1>2. d.status = "pending" /\ d.filed = closes /\ Answered(exceptions', d)
  BY EventAnswered
<1>3. outbox' = Append(outbox, d)
  OBVIOUS
<1>4. ASSUME NEW i \in DOMAIN outbox'
      PROVE  \/ i \in DOMAIN outbox /\ outbox'[i] = outbox[i]
             \/ outbox'[i] = d
  BY <1>1, <1>3
<1>5. \A i \in DOMAIN outbox' : outbox'[i].filed <= closes' /\ Answered(exceptions', outbox'[i])
  <2>1. closes <= closes' /\ exceptions \subseteq exceptions'
    BY DEF TypeOK
  <2> QED
    BY <1>2, <1>4, <2>1, AnsweredGrows DEF QueueInv, TypeOK
<1>6. ASSUME NEW w \in Workers
      PROVE  HeldOK(wk[w])'
  BY HeldGrows DEF QueueInv
<1>7. PublishedWasDelivered'
  BY <1>2, <1>4 DEF QueueInv, PublishedWasDelivered
<1> QED
  BY <1>5, <1>6, <1>7 DEF QueueInv

\* A person closes rows.
LEMMA QueueCloses ==
  ASSUME TypeOK, QueueInv,
         \A x \in exceptions : x \in exceptions' \/ Closed(x) \in exceptions',
         closes' = closes + 1, UNCHANGED <<outbox, delivered, wk>>
  PROVE  QueueInv'
<1>1. closes \in Nat
  BY DEF TypeOK
<1>2. ASSUME NEW i \in DOMAIN outbox
      PROVE  outbox[i].filed <= closes' /\ Answered(exceptions', outbox[i])
  <2>1. outbox[i] \in OutboxRows
    BY DEF TypeOK
  <2>2. outbox[i].filed \in Nat
    BY <2>1 DEF OutboxRows
  <2> QED
    BY <1>1, <2>2, AnsweredCloses DEF QueueInv
<1>3. ASSUME NEW w \in Workers
      PROVE  HeldOK(wk[w])'
  <2> PICK m : m = wk[w]
    OBVIOUS
  <2>1. m.drifts \in Seq(OutboxRows) /\ HeldOK(m)
    BY DEF TypeOK, Memos, QueueInv
  <2>2. ASSUME NEW i \in DOMAIN m.drifts
        PROVE  m.drifts[i].status = "pending" /\ m.drifts[i].filed <= closes'
               /\ Answered(exceptions' \cup m.asked, m.drifts[i])
    <3>1. m.drifts[i] \in OutboxRows
      BY <2>1
    <3>2. m.drifts[i].filed \in Nat
      BY <3>1 DEF OutboxRows
    <3>3. \A x \in exceptions \cup m.asked :
            x \in exceptions' \cup m.asked \/ Closed(x) \in exceptions' \cup m.asked
      OBVIOUS
    <3> QED
      BY <1>1, <2>1, <3>2, <3>3, AnsweredCloses DEF HeldOK
  <2> QED
    BY <2>2 DEF HeldOK
<1> QED
  BY <1>2, <1>3 DEF QueueInv, PublishedWasDelivered

\* The publisher marks the batch only when it has delivered all of it.
LEMMA QueuePublishes ==
  ASSUME TypeOK, QueueInv, NEW n \in Nat, PublishPending(n)
  PROVE  QueueInv'
<1>1. outbox \in Seq(OutboxRows)
  BY DEF TypeOK
<1>2. UNCHANGED <<exceptions, wk, closes>>
  BY DEF PublishPending
<1>3. \A w \in Workers : HeldOK(wk[w])'
  BY <1>2 DEF QueueInv, HeldOK
<1>4. delivered \subseteq delivered'
  BY DEF PublishPending
<1>5. CASE outbox' = outbox
  BY <1>2, <1>3, <1>4, <1>5 DEF QueueInv, PublishedWasDelivered
<1>6. CASE n = Cardinality(Pending) /\ outbox' = [i \in DOMAIN outbox |-> Published(outbox[i])]
  <2>1. DOMAIN outbox' = DOMAIN outbox
    BY <1>6
  <2>2. ASSUME NEW i \in DOMAIN outbox
        PROVE  outbox'[i].filed = outbox[i].filed /\ outbox'[i].corr = outbox[i].corr
    BY <1>6 DEF Published, OutboxRow
  <2>3. IsFiniteSet(Pending)
    <3>1. IsFiniteSet(1..Len(outbox))
      BY <1>1, FS_Interval
    <3>2. Pending \in SUBSET (1..Len(outbox))
      BY <1>1 DEF Pending
    <3> QED
      BY <3>1, <3>2, FS_Subset
  <2>4. ASSUME NEW i \in Pending
        PROVE  i \in delivered'
    <3> DEFINE T == {k \in Pending : k < i}
    <3>1. T \in SUBSET Pending /\ i \notin T
      BY <1>1 DEF Pending
    <3>2. Cardinality(T) <= Cardinality(Pending) /\ Cardinality(T) # Cardinality(Pending)
          /\ IsFiniteSet(T)
      <4> HIDE DEF T
      <4> QED
        BY <2>3, <3>1, FS_Subset
    <3>3. Cardinality(T) \in Nat /\ Cardinality(Pending) \in Nat
      BY <2>3, <3>2, FS_CardinalityType
    <3>4. Cardinality(T) < n
      BY <1>6, <3>2, <3>3
    <3> QED
      BY <3>4 DEF PublishPending
  <2>5. \A i \in DOMAIN outbox : i \in delivered'
    <3>1. ASSUME NEW i \in DOMAIN outbox
          PROVE  outbox[i].status \in {"pending", "published"}
      <4>1. outbox[i] \in OutboxRows
        BY <1>1
      <4> QED
        BY <4>1 DEF OutboxRows
    <3> QED
      BY <1>4, <2>4, <3>1 DEF QueueInv, PublishedWasDelivered, Pending
  <2>6. \A i \in DOMAIN outbox' : outbox'[i].filed <= closes' /\ Answered(exceptions', outbox'[i])
    BY <1>2, <2>1, <2>2 DEF QueueInv, Answered
  <2> QED
    BY <1>3, <2>1, <2>5, <2>6 DEF QueueInv, PublishedWasDelivered
<1> QED
  BY <1>5, <1>6 DEF PublishPending

\* A check's drift is committed with the rows it asked for.
LEMMA QueueCommits ==
  ASSUME TypeOK, QueueInv, NEW w \in Workers, CommitCheck(w)
  PROVE  QueueInv'
<1> PICK m : m = wk[w]
  OBVIOUS
<1>1. m \in Memos /\ outbox \in Seq(OutboxRows) /\ HeldOK(m)
  BY DEF TypeOK, QueueInv
<1>2. m.drifts \in Seq(OutboxRows)
  BY <1>1 DEF Memos
<1>3. outbox' = outbox \o m.drifts /\ exceptions' = exceptions \cup m.asked
      /\ UNCHANGED <<delivered, closes>>
  BY DEF CommitCheck
<1>4. ASSUME NEW i \in DOMAIN outbox'
      PROVE  \/ i \in DOMAIN outbox /\ outbox'[i] = outbox[i]
             \/ \E k \in DOMAIN m.drifts : outbox'[i] = m.drifts[k]
  <2>1. DOMAIN outbox = 1..Len(outbox) /\ DOMAIN m.drifts = 1..Len(m.drifts)
        /\ Len(outbox) \in Nat /\ Len(m.drifts) \in Nat
    BY <1>1, <1>2, LenProperties
  <2>2. i \in 1 .. Len(outbox) + Len(m.drifts)
    BY <1>1, <1>2, <1>3, ConcatProperties, LenProperties
  <2>3. outbox'[i] = IF i <= Len(outbox) THEN outbox[i] ELSE m.drifts[i - Len(outbox)]
    BY <1>1, <1>2, <1>3, <2>2, ConcatProperties
  <2>4. CASE i <= Len(outbox)
    BY <2>1, <2>2, <2>3, <2>4
  <2>5. CASE i > Len(outbox)
    <3>1. i - Len(outbox) \in DOMAIN m.drifts
      BY <2>1, <2>2, <2>5
    <3> QED
      BY <2>1, <2>2, <2>3, <2>5, <3>1
  <2> QED
    BY <2>1, <2>2, <2>4, <2>5
<1>5. \A i \in DOMAIN outbox' : outbox'[i].filed <= closes' /\ Answered(exceptions', outbox'[i])
  <2>1. exceptions \subseteq exceptions'
    BY <1>3
  <2> QED
    BY <1>1, <1>3, <1>4, <2>1, AnsweredGrows DEF QueueInv, HeldOK
<1>6. PublishedWasDelivered'
  BY <1>1, <1>3, <1>4 DEF QueueInv, PublishedWasDelivered, HeldOK
<1>7. ASSUME NEW v \in Workers
      PROVE  HeldOK(wk[v])'
  <2>1. wk' = [wk EXCEPT ![w] = Start("complete", m.job)] /\ wk \in [Workers -> Memos]
    BY DEF CommitCheck, Go, TypeOK
  <2>2. CASE v = w
    <3>1. wk'[v].drifts = << >>
      BY <2>1, <2>2 DEF Start, Memo
    <3> QED
      BY <3>1 DEF HeldOK
  <2>3. CASE v # w
    <3>1. wk'[v] = wk[v] /\ HeldOK(wk[v])
      BY <2>1, <2>3 DEF QueueInv
    <3> QED
      BY <1>3, <3>1, HeldGrows
  <2> QED
    BY <2>2, <2>3
<1> QED
  BY <1>5, <1>6, <1>7 DEF QueueInv

\* A worker that starts anew holds nothing.
LEMMA StartHolds ==
  ASSUME NEW at, NEW j
  PROVE  HeldOK(Start(at, j))
BY DEF HeldOK, Start, Memo

\* The steps of a check, but for its commit, touch neither.
LEMMA QueueWorker ==
  ASSUME TypeOK, QueueInv, NEW w \in Workers, WorkerStep(w)
  PROVE  QueueInv'
<1> USE DEF drift
<1>t. wk[w] \in Memos /\ wk'[w] \in Memos /\ wk \in [Workers -> Memos]
  BY WorkerType DEF TypeOK
<1>0. ASSUME NEW m, Go(w, m), HeldOK(m), UNCHANGED <<exceptions, outbox, delivered, closes>>
      PROVE  QueueInv'
  <2>1. wk'[w] = m
    BY <1>0, <1>t DEF Go
  <2> QED
    BY <1>0, <1>t, <2>1, QueueUntouched
<1>1. CASE ReadDue(w)
  BY <1>0, <1>1, StartHolds DEF ReadDue
<1>2. CASE EnqueueDue(w)
  BY <1>0, <1>2, StartHolds DEF EnqueueDue, Idle
<1>3. ASSUME NEW j \in DOMAIN jobs, Claim(w, j)
      PROVE  QueueInv'
  BY <1>0, <1>3, StartHolds DEF Claim
<1>4. CASE ReadPrevious(w)
  <2>1. HeldOK(Memo("details", wk[w].job, clock, Current, NoVersion, 0, {}, << >>, {}))
    BY DEF HeldOK, Memo
  <2> QED
    BY <1>0, <1>4, <2>1 DEF ReadPrevious
<1>5. ASSUME NEW shape, FetchDetails(w, shape)
      PROVE  QueueInv'
  <2>1. \A at : HeldOK(Memo(at, wk[w].job, wk[w].seen, wk[w].prev, source.details, 1, {}, << >>, {}))
    BY DEF HeldOK, Memo
  <2> QED
    BY <1>0, <1>5, <2>1 DEF FetchDetails
<1>6. ASSUME NEW shape, DriftedDetails(w, shape)
      PROVE  QueueInv'
  <2> PICK d : d = DriftEvent(WatchCorr, "details", 0)
    OBVIOUS
  <2> PICK asked : asked = Filed({}, WatchCorr, "details")
    OBVIOUS
  <2> DEFINE m == Memo("commit", wk[w].job, wk[w].seen, wk[w].prev, NoVersion, 0, {}, <<d>>, asked)
  <2>1. d.status = "pending" /\ d.filed = closes /\ Answered(exceptions \cup asked, d)
    BY EventAnswered
  <2>2. m.drifts = <<d>> /\ m.asked = asked
    BY DEF Memo
  <2>3. closes <= closes
    BY DEF TypeOK
  <2>4. HeldOK(m)
    <3> HIDE DEF m
    <3> QED
      BY <2>1, <2>2, <2>3 DEF HeldOK
  <2>5. Go(w, m) /\ UNCHANGED <<exceptions, outbox, delivered, closes>>
    BY <1>6 DEF DriftedDetails
  <2> QED
    BY <1>0, <2>4, <2>5
<1>7. ASSUME NEW a \in Answers(wk[w].page), WalkPage(w, a)
      PROVE  QueueInv'
  <2> PICK old : old = wk[w]
    OBVIOUS
  <2> PICK m : m = wk'[w]
    OBVIOUS
  <2>0. HeldOK(old) /\ old.drifts \in Seq(OutboxRows) /\ old.page \in Nat
    BY <1>t DEF QueueInv, Memos
  <2>1. Go(w, m) /\ UNCHANGED <<exceptions, outbox, delivered, closes>>
    BY <1>7, <1>t DEF WalkPage, Go
  <2>2. CASE a.contract = "none"
    <3>1. m.drifts = old.drifts /\ m.asked = old.asked
      BY <1>7, <1>t, <2>2 DEF WalkPage, Go, Memo
    <3> QED
      BY <1>0, <2>0, <2>1, <3>1 DEF HeldOK
  <2>3. CASE a.contract # "none"
    <3> PICK d : d = DriftEvent(WatchCorr, a.contract, old.page)
      OBVIOUS
    <3> PICK asked : asked = Filed(old.asked, WatchCorr, a.contract)
      OBVIOUS
    <3>1. m.drifts = Append(old.drifts, d) /\ m.asked = asked
      BY <1>7, <1>t, <2>3 DEF WalkPage, Go, Memo
    <3>2. d.status = "pending" /\ d.filed = closes /\ Answered(exceptions \cup asked, d)
      BY EventAnswered
    <3>3. exceptions \cup old.asked \subseteq exceptions \cup asked
      BY FiledOpens
    <3>4. d \in OutboxRows
      <4>1. a.contract \in ContractNames /\ WatchCorr \in Corrs
        BY <2>0, <2>3, AnswerType DEF WatchCorr, Corrs, ContractNames
      <4> QED
        BY <2>0, <4>1, DriftEventType
    <3>5. ASSUME NEW i \in DOMAIN m.drifts
          PROVE  (i \in DOMAIN old.drifts /\ m.drifts[i] = old.drifts[i]) \/ m.drifts[i] = d
      BY <2>0, <3>1, <3>4
    <3>6. closes <= closes
      BY DEF TypeOK
    <3>7. HeldOK(m)
      BY <2>0, <3>1, <3>2, <3>3, <3>5, <3>6, AnsweredGrows DEF HeldOK
    <3> QED
      BY <1>0, <2>1, <3>7
  <2> QED
    BY <2>2, <2>3
<1>8. CASE CommitCheck(w)
  BY <1>8, QueueCommits
<1>9. CASE Complete(w)
  BY <1>0, <1>9, StartHolds DEF Complete, Idle
<1>10. CASE Fail(w)
  BY <1>0, <1>10, StartHolds DEF Fail, Idle
<1>11. CASE Crash(w)
  BY <1>0, <1>11, StartHolds DEF Crash, Idle
<1> QED
  BY <1>1, <1>2, <1>3, <1>4, <1>5, <1>6, <1>7, <1>8, <1>9, <1>10, <1>11 DEF WorkerStep

LEMMA QueueStep == CollectTypeOK /\ QueueInv /\ [CollectNext]_allVars => QueueInv'
<1> SUFFICES ASSUME CollectTypeOK, QueueInv, [CollectNext]_allVars PROVE QueueInv'
  OBVIOUS
<1> USE DEF drift
<1>t. TypeOK
  BY DEF CollectTypeOK
<1>u. UNCHANGED <<exceptions, outbox, delivered, closes, wk>> => QueueInv'
  BY <1>t, QueueUntouched
<1>1. CASE UNCHANGED allVars
  BY <1>1, <1>u DEF allVars, vars
<1>2. CASE Next
  <2>1. ASSUME NEW d \in Details, NEW l \in Listings, Edit(d, l)
        PROVE  QueueInv'
    BY <1>u, <2>1 DEF Edit
  <2>2. CASE Decide \/ Tick
    BY <1>u, <2>2 DEF Decide, Tick
  <2>3. CASE StartImport \/ ImportStops \/ MarkImportStalled
    BY <1>u, <2>3 DEF StartImport, ImportStops, MarkImportStalled
  <2>4. ASSUME NEW a \in Answers(ijob.next), ImportPage(a)
        PROVE  QueueInv'
    BY <1>u, <2>4 DEF ImportPage
  <2>5. ASSUME NEW a \in Answers(ijob.next), ImportDriftedPage(a)
        PROVE  QueueInv'
    <3>1. ijob.next \in Nat /\ ImportCorr(ijob.k) \in Corrs
      BY <1>t DEF TypeOK, ImportJobs, ImportCorr, Corrs
    <3>2. a.contract \in ContractNames
      BY <1>t, <2>5, <3>1, AnswerType DEF ContractNames, ImportDriftedPage
    <3> QED
      BY <1>t, <2>5, <3>1, <3>2, QueueReports DEF ImportDriftedPage
  <2>6. ASSUME NEW x \in exceptions, CloseException(x)
        PROVE  QueueInv'
    BY <1>t, <2>6, QueueCloses DEF CloseException
  <2>7. ASSUME NEW c, CloseMatching(c)
        PROVE  QueueInv'
    BY <1>t, <2>7, QueueCloses DEF CloseMatching
  <2>8. ASSUME NEW n \in 0..MaxDrifts, PublishPending(n)
        PROVE  QueueInv'
    BY <1>t, <2>8, QueuePublishes
  <2> QED
    BY <1>2, <1>t, <2>1, <2>2, <2>3, <2>4, <2>5, <2>6, <2>7, <2>8,
       QueueWorker DEF Next, ImportStep
<1>3. CASE CollectorStep
  <2>1. ASSUME NEW kind \in Kinds, StartCollect(kind)
        PROVE  QueueInv'
    BY <1>u, <2>1 DEF StartCollect, vars
  <2>2. ASSUME NEW shape, NEW item, CollectPage(shape, item)
        PROVE  QueueInv'
    BY <1>u, <2>2 DEF CollectPage, vars
  <2>3. ASSUME NEW shape, NEW item, CollectDriftedPage(shape, item)
        PROVE  QueueInv'
    <3>1. /\ CollectCorr \in Corrs /\ collector.next \in Nat
          /\ ContractName(collector.kind, PageDrift(collector.kind, shape, item)) \in ContractNames
      BY <2>3, CollectedDrift
    <3> QED
      BY <1>t, <2>3, <3>1, QueueReports DEF CollectDriftedPage
  <2>4. CASE CollectStops
    BY <1>u, <2>4 DEF CollectStops, vars
  <2> QED
    BY <1>3, <2>1, <2>2, <2>3, <2>4 DEF CollectorStep
<1> QED
  BY <1>1, <1>2, <1>3 DEF CollectNext

THEOREM QueueInvHolds == CollectSpec => []QueueInv
BY TypeInit, TypeStep, QueueInit, QueueStep, PTL DEF CollectSpec

\* An outbox row is marked published only after its delivery: a failure in
\* the middle of a batch marks nothing, and rows are only ever appended as
\* pending (Publisher.publish_pending), for batches of any size.
THEOREM DeliveredBeforePublished == CollectSpec => []PublishedWasDelivered
<1>1. QueueInv => PublishedWasDelivered
  BY DEF QueueInv
<1> QED
  BY <1>1, QueueInvHolds, PTL

\* Every drift event in the outbox reaches a person (enqueue_exception,
\* close_exception), for any number of workers that hold drift and rows
\* until their commit while others file and close rows.
THEOREM DriftIsAnswered == CollectSpec => []DriftReachesHuman
<1>1. QueueInv => DriftReachesHuman
  BY DEF QueueInv, Answered, DriftReachesHuman
<1> QED
  BY <1>1, QueueInvHolds, PTL

-----------------------------------------------------------------------------
(* The import's checkpoint. *)

\* A row of the outbox keeps its correlation id and its page.
RowsKept ==
  \A i \in DOMAIN outbox :
    /\ i \in DOMAIN outbox'
    /\ outbox'[i].corr = outbox[i].corr /\ outbox'[i].page = outbox[i].page

LEMMA OutboxKeeps ==
  ASSUME CollectTypeOK, [CollectNext]_allVars
  PROVE  RowsKept
<1> USE DEF drift
<1>t. TypeOK /\ outbox \in Seq(OutboxRows)
  BY DEF CollectTypeOK, TypeOK
<1>u. outbox' = outbox => RowsKept
  BY DEF RowsKept
<1>a. ASSUME NEW d \in OutboxRows, outbox' = Append(outbox, d)
      PROVE  RowsKept
  BY <1>a, <1>t DEF RowsKept
<1>1. CASE UNCHANGED allVars
  BY <1>1, <1>u DEF allVars, vars
<1>2. CASE Next
  <2>1. ASSUME NEW a \in Answers(ijob.next), ImportDriftedPage(a)
        PROVE  RowsKept
    <3>1. ijob.next \in Nat /\ ImportCorr(ijob.k) \in Corrs
      BY <1>t DEF TypeOK, ImportJobs, ImportCorr, Corrs
    <3>2. a.contract \in ContractNames
      BY <1>t, <2>1, <3>1, AnswerType DEF ContractNames, ImportDriftedPage
    <3> QED
      BY <1>a, <1>t, <2>1, <3>1, <3>2, DriftEventType DEF ImportDriftedPage
  <2>2. ASSUME NEW n \in 0..MaxDrifts, PublishPending(n)
        PROVE  RowsKept
    <3>1. outbox' = outbox \/ outbox' = [i \in DOMAIN outbox |-> Published(outbox[i])]
      BY <2>2 DEF PublishPending
    <3> QED
      BY <1>u, <3>1 DEF RowsKept, Published, OutboxRow
  <2>3. ASSUME NEW w \in Workers, CommitCheck(w)
        PROVE  RowsKept
    <3> PICK m : m = wk[w].drifts
      OBVIOUS
    <3>1. m \in Seq(OutboxRows) /\ outbox' = outbox \o m
      BY <1>t, <2>3 DEF TypeOK, Memos, CommitCheck
    <3>2. DOMAIN outbox = 1..Len(outbox) /\ DOMAIN outbox' = 1..Len(outbox) + Len(m)
          /\ Len(outbox) \in Nat /\ Len(m) \in Nat
      BY <1>t, <3>1, LenProperties, ConcatProperties
    <3>3. \A i \in 1..Len(outbox) : outbox'[i] = outbox[i]
      BY <1>t, <3>1, <3>2, ConcatProperties
    <3> QED
      BY <3>2, <3>3 DEF RowsKept
  <2>4. ASSUME NEW w \in Workers, WorkerStep(w), ~CommitCheck(w)
        PROVE  outbox' = outbox
    BY <2>4 DEF WorkerStep, ReadDue, EnqueueDue, Claim, ReadPrevious, FetchDetails,
                DriftedDetails, WalkPage, Complete, Fail, Crash
  <2>5. CASE \/ StartImport \/ ImportStops \/ MarkImportStalled
             \/ (\E a \in Answers(ijob.next) : ImportPage(a))
    BY <1>u, <2>5 DEF StartImport, ImportStops, MarkImportStalled, ImportPage
  <2>6. CASE \/ Decide \/ Tick \/ (\E d \in Details, l \in Listings : Edit(d, l))
             \/ (\E x \in exceptions : CloseException(x)) \/ (\E c : CloseMatching(c))
    BY <1>u, <2>6 DEF Decide, Tick, Edit, CloseException, CloseMatching
  <2> QED
    BY <1>2, <1>u, <2>1, <2>2, <2>3, <2>4, <2>5, <2>6 DEF Next, ImportStep
<1>3. CASE CollectorStep
  <2>1. ASSUME NEW shape, NEW item, CollectDriftedPage(shape, item)
        PROVE  RowsKept
    BY <1>a, <1>t, <2>1, CollectedDrift, DriftEventType DEF CollectDriftedPage
  <2> QED
    BY <1>3, <1>u, <2>1 DEF CollectorStep, StartCollect, CollectPage, CollectStops, vars
<1> QED
  BY <1>1, <1>2, <1>3 DEF CollectNext

\* A step of the import job itself.
LEMMA ImportJobSteps ==
  ASSUME CollectTypeOK, NoPageSkipped, ImportStep
  PROVE  NoPageSkipped'
<1>t. TypeOK /\ ijob \in ImportJobs
  BY DEF CollectTypeOK, TypeOK
<1>n. ijob.next \in Nat /\ ijob.k \in Nat
  BY <1>t DEF ImportJobs
<1>1. CASE StartImport
  BY <1>1, <1>n DEF StartImport, NoPageSkipped
<1>2. CASE ImportStops \/ MarkImportStalled
  <2>1. UNCHANGED outbox /\ ijob'.k = ijob.k /\ ijob'.next = ijob.next /\ imp'.sums = imp.sums
        /\ (ijob'.at = "done" => ijob'.last = ijob.last /\ ijob.at = "done")
    BY <1>2 DEF ImportStops, MarkImportStalled, ImportRow, drift
  <2> QED
    BY <2>1 DEF NoPageSkipped
<1>3. ASSUME NEW a \in Answers(ijob.next), Checkpoint(a), ijob.at = "running"
      PROVE  /\ ijob'.k = ijob.k /\ ijob'.next = ijob.next + 1
             /\ ijob'.at = "done" => ijob'.last # NoTotal /\ ijob'.next > ijob'.last
  BY <1>3, <1>t, <1>n, AnswerType DEF Checkpoint, Done
<1>4. ASSUME NEW a \in Answers(ijob.next), ImportPage(a)
      PROVE  NoPageSkipped'
  <2>1. imp'.sums = imp.sums \cup {ijob.next} /\ outbox' = outbox
    BY <1>4 DEF ImportPage, Recorded, ImportRow, drift
  <2>2. \A p \in 1..ijob'.next - 1 : p \in 1..ijob.next - 1 \/ p = ijob.next
    BY <1>3, <1>4, <1>n DEF ImportPage
  <2>3. ijob'.k = ijob.k
    BY <1>3, <1>4 DEF ImportPage
  <2>4. ijob.k > 0 =>
          \A p \in 1..ijob'.next - 1 :
            p \in imp'.sums \/ \E i \in DOMAIN outbox' :
                                 outbox'[i].corr = ImportCorr(ijob'.k) /\ outbox'[i].page = p
    BY <2>1, <2>2, <2>3 DEF NoPageSkipped
  <2> QED
    BY <1>3, <1>4, <2>3, <2>4 DEF ImportPage, NoPageSkipped
<1>5. ASSUME NEW a \in Answers(ijob.next), ImportDriftedPage(a)
      PROVE  NoPageSkipped'
  <2>1. imp'.sums = imp.sums /\ ijob'.k = ijob.k
    BY <1>3, <1>5 DEF ImportDriftedPage
  <2>2. \A p \in 1..ijob'.next - 1 : p \in 1..ijob.next - 1 \/ p = ijob.next
    BY <1>3, <1>5, <1>n DEF ImportDriftedPage
  <2> PICK d : d = DriftEvent(ImportCorr(ijob.k), a.contract, ijob.next)
    OBVIOUS
  <2>3. d \in OutboxRows /\ outbox \in Seq(OutboxRows) /\ outbox' = Append(outbox, d)
    <3>1. ImportCorr(ijob.k) \in Corrs /\ a.contract \in ContractNames
      BY <1>5, <1>t, <1>n, AnswerType DEF ImportCorr, Corrs, ContractNames, ImportDriftedPage
    <3> QED
      BY <1>5, <1>t, <1>n, <3>1, DriftEventType DEF TypeOK, ImportDriftedPage
  <2>4. d.corr = ImportCorr(ijob.k) /\ d.page = ijob.next
    BY DEF DriftEvent, OutboxRow
  <2>5. /\ \A i \in DOMAIN outbox : i \in DOMAIN outbox' /\ outbox'[i] = outbox[i]
        /\ Len(outbox) + 1 \in DOMAIN outbox' /\ outbox'[Len(outbox) + 1] = d
    BY <2>3
  <2>6. ijob.k > 0 =>
          \A p \in 1..ijob'.next - 1 :
            p \in imp'.sums \/ \E i \in DOMAIN outbox' :
                                 outbox'[i].corr = ImportCorr(ijob'.k) /\ outbox'[i].page = p
    BY <2>1, <2>2, <2>4, <2>5 DEF NoPageSkipped
  <2> QED
    BY <1>3, <1>5, <2>1, <2>6 DEF NoPageSkipped, ImportDriftedPage
<1> QED
  BY <1>1, <1>2, <1>4, <1>5 DEF ImportStep

\* Every other step leaves the import alone.
LEMMA ImportUntouched ==
  ASSUME [CollectNext]_allVars, ~ImportStep
  PROVE  UNCHANGED <<imp, ijob, lines>>
<1> USE DEF boq
<1>1. CASE UNCHANGED allVars
  BY <1>1 DEF allVars, vars
<1>2. CASE Next
  <2>1. ASSUME NEW w \in Workers, WorkerStep(w)
        PROVE  UNCHANGED <<imp, ijob, lines>>
    BY <2>1 DEF WorkerStep, ReadDue, EnqueueDue, Claim, ReadPrevious, FetchDetails,
                DriftedDetails, WalkPage, CommitCheck, Complete, Fail, Crash
  <2> QED
    BY <1>2, <2>1 DEF Next, Edit, Decide, Tick, CloseException, CloseMatching, PublishPending
<1>3. CASE CollectorStep
  BY <1>3 DEF CollectorStep, StartCollect, CollectPage, CollectDriftedPage,
              CollectStops, vars
<1> QED
  BY <1>1, <1>2, <1>3 DEF CollectNext

LEMMA CheckpointStep ==
  CollectTypeOK /\ NoPageSkipped /\ [CollectNext]_allVars => NoPageSkipped'
<1> SUFFICES ASSUME CollectTypeOK, NoPageSkipped, [CollectNext]_allVars PROVE NoPageSkipped'
  OBVIOUS
<1>1. CASE ImportStep
  BY <1>1, ImportJobSteps
<1>2. CASE ~ImportStep
  BY <1>2, ImportUntouched, OutboxKeeps DEF NoPageSkipped, RowsKept
<1> QED
  BY <1>1, <1>2

\* The import's checkpoint never passes a page in silence, and a job that is
\* done has passed the last page the source spoke of
\* (process_bom_lines_page), whatever the source answers and however often
\* it is edited, for any number of imports.
THEOREM CheckpointIsHonest == CollectSpec => []NoPageSkipped
<1>1. CollectInit => NoPageSkipped
  BY DEF CollectInit, Init, NoPageSkipped
<1> QED
  BY <1>1, TypeInit, TypeStep, CheckpointStep, PTL DEF CollectSpec

-----------------------------------------------------------------------------
(* The change log. *)

\* A set of naturals up to n that is not empty has a greatest element.
LEMMA GreatestUpTo ==
  ASSUME NEW n \in Nat, NEW S \in SUBSET (0..n), S # {}
  PROVE  \E v \in S : \A u \in S : u <= v
<1> DEFINE Gaps == {n - v : v \in S}
<1>1. \A v \in S : n - v \in Nat
  OBVIOUS
<1>2. Gaps \in SUBSET Nat /\ Gaps # {}
  BY <1>1, Zenon
<1>3. PICK g \in Gaps : \A h \in Gaps : ~(<<h, g>> \in OpToRel(<, Nat))
  BY <1>2, NatLessThanWellFounded, WFMin, Zenon
<1>4. \A h \in Gaps : ~(h < g)
  BY <1>2, <1>3 DEF OpToRel
<1>5. PICK v \in S : g = n - v
  BY <1>3
<1>6. ASSUME NEW u \in S PROVE u <= v
  <2>1. ~(n - u < n - v)
    BY <1>4, <1>5
  <2> QED
    BY <2>1
<1> QED
  BY <1>6

\* The last of the first n events that changes f, when there is one.
LEMMA AfterChanged ==
  ASSUME NEW n \in Nat, NEW f, NEW k \in 1..n, \E c \in events[k].changes : c.field = f,
         \A i \in 1..n : (\E c \in events[i].changes : c.field = f) => i <= k
  PROVE  After(f, n) = (CHOOSE c \in events[k].changes : c.field = f).new
<1> DEFINE S == {i \in 1..n : \E c \in events[i].changes : c.field = f}
<1>1. k \in S /\ \A i \in S : i <= k
  OBVIOUS
<1>2. \A i \in S : (\A j \in S : j <= i) => i = k
  BY <1>1
<1>3. (CHOOSE i \in S : \A j \in S : j <= i) = k
  BY <1>1, <1>2
<1> HIDE DEF S
<1> QED
  BY <1>1, <1>3 DEF After, S

LEMMA AfterUnchanged ==
  ASSUME NEW n \in Nat, NEW f, \A i \in 1..n : ~\E c \in events[i].changes : c.field = f
  PROVE  After(f, n) = versions[1][f]
<1>1. {i \in 1..n : \E c \in events[i].changes : c.field = f} = {}
  OBVIOUS
<1> QED
  BY <1>1 DEF After

\* Either the first n events leave f alone, or one of them is the last to
\* change it.
LEMMA LastChange ==
  ASSUME NEW n \in Nat, NEW f
  PROVE  \/ \A i \in 1..n : ~\E c \in events[i].changes : c.field = f
         \/ \E k \in 1..n :
              /\ \E c \in events[k].changes : c.field = f
              /\ \A i \in 1..n : (\E c \in events[i].changes : c.field = f) => i <= k
<1> DEFINE S == {i \in 1..n : \E c \in events[i].changes : c.field = f}
<1>1. CASE S = {}
  BY <1>1
<1>2. CASE S # {}
  <2>1. S \in SUBSET (0..n)
    OBVIOUS
  <2>2. PICK k \in S : \A i \in S : i <= k
    <3> HIDE DEF S
    <3> QED
      BY <1>2, <2>1, GreatestUpTo
  <2> QED
    BY <2>2
<1> QED
  BY <1>1, <1>2

\* The events before are not touched by one more.
LEMMA AfterKept ==
  ASSUME events \in Seq(ChangeEvents), events' \in Seq(ChangeEvents),
         Len(events) <= Len(events'), \A i \in DOMAIN events : events'[i] = events[i],
         versions'[1] = versions[1], NEW n \in 0..Len(events), NEW f
  PROVE  After(f, n)' = After(f, n)
<1>0. n \in Nat
  BY LenProperties
<1>1. \A i \in 1..n : events'[i] = events[i]
  BY LenProperties
<1>2. CASE \A i \in 1..n : ~\E c \in events[i].changes : c.field = f
  <2>1. After(f, n) = versions[1][f]
    BY <1>2, AfterUnchanged
  <2>2. {i \in 1..n : \E c \in events'[i].changes : c.field = f} = {}
    BY <1>1, <1>2
  <2> QED
    BY <2>1, <2>2 DEF After
<1>3. ASSUME NEW k \in 1..n, \E c \in events[k].changes : c.field = f,
             \A i \in 1..n : (\E c \in events[i].changes : c.field = f) => i <= k
      PROVE  After(f, n)' = After(f, n)
  <2>1. After(f, n) = (CHOOSE c \in events[k].changes : c.field = f).new
    BY <1>3, AfterChanged
  <2> DEFINE S == {i \in 1..n : \E c \in events'[i].changes : c.field = f}
  <2>2. k \in S /\ \A i \in S : i <= k
    BY <1>1, <1>3
  <2>3. \A i \in S : (\A j \in S : j <= i) => i = k
    BY <2>2
  <2>4. (CHOOSE i \in S : \A j \in S : j <= i) = k
    BY <2>2, <2>3
  <2>5. After(f, n)' = (CHOOSE c \in events'[k].changes : c.field = f).new
    <3> HIDE DEF S
    <3> QED
      BY <2>2, <2>4 DEF After, S
  <2> QED
    BY <1>1, <2>1, <2>5
<1> QED
  BY <1>0, <1>2, <1>3, LastChange

\* What Append leaves alone.
LEMMA Appended ==
  ASSUME NEW S, NEW s \in Seq(S), NEW e \in S
  PROVE  LET t == Append(s, e) IN
         /\ t \in Seq(S) /\ Len(t) = Len(s) + 1 /\ t[Len(s) + 1] = e
         /\ \A i \in DOMAIN t : i \in DOMAIN s \/ i = Len(s) + 1
         /\ \A i \in DOMAIN s : i \in DOMAIN t /\ t[i] = s[i]
OBVIOUS

\* A check is over before the next is enqueued.
OneOpenJob == \A i, j \in DOMAIN jobs : ~Settled(i) /\ ~Settled(j) => i = j

\* What the owner of a job has read is current: a lease that has run out is
\* regained only by a new claim, which reads again.
OwnerIsCurrent ==
  \A w \in Workers : wk[w].at \in Checking /\ Owns(w) => wk[w].prev = Current

LogInv == OneOpenJob /\ OwnerIsCurrent

\* A step that writes no job and no version.
LEMMA LogUntouched ==
  ASSUME TypeOK, LogInv, UNCHANGED <<versions, jobs>>,
         \/ UNCHANGED wk
         \/ \E w \in Workers, m \in Memos :
              /\ Go(w, m)
              /\ m.at \in Checking =>
                   \/ m.prev = Current
                   \/ m.prev = wk[w].prev /\ m.job = wk[w].job /\ wk[w].at \in Checking
  PROVE  LogInv'
<1>1. CASE UNCHANGED wk
  BY <1>1 DEF LogInv, OneOpenJob, OwnerIsCurrent, Settled, Owns, Current
<1>2. ASSUME NEW w \in Workers, NEW m \in Memos, Go(w, m),
             m.at \in Checking =>
               \/ m.prev = Current
               \/ m.prev = wk[w].prev /\ m.job = wk[w].job /\ wk[w].at \in Checking
      PROVE  LogInv'
  <2>1. wk'[w] = m /\ \A v \in Workers : v # w => wk'[v] = wk[v]
    BY <1>2 DEF Go, TypeOK
  <2>2. OneOpenJob'
    BY DEF LogInv, OneOpenJob, Settled
  <2>4. ASSUME NEW v \in Workers, wk'[v].at \in Checking, Owns(v)'
        PROVE  wk'[v].prev = Current
    <3>1. jobs[wk'[v].job].status = "leased" /\ jobs[wk'[v].job].owner = v
      BY <2>4 DEF Owns
    <3> QED
      BY <1>2, <2>1, <2>4, <3>1 DEF LogInv, OwnerIsCurrent, Owns
  <2>5. OwnerIsCurrent'
    BY <2>4 DEF OwnerIsCurrent, Current
  <2> QED
    BY <2>2, <2>5 DEF LogInv
<1> QED
  BY <1>1, <1>2

\* A step that moves the open job on leaves no other owner.
LEMMA JobMoves ==
  ASSUME TypeOK, LogInv, NEW w \in Workers, NEW j \in DOMAIN jobs, ~Settled(j),
         NEW r \in JobRows, r.owner = w, jobs' = [jobs EXCEPT ![j] = r],
         NEW m \in Memos, Go(w, m), m.at \notin Checking
  PROVE  LogInv'
<1>1. wk'[w] = m /\ \A v \in Workers : v # w => wk'[v] = wk[v]
  BY DEF Go, TypeOK
<1>2. /\ DOMAIN jobs' = DOMAIN jobs /\ jobs'[j] = r
      /\ \A i \in DOMAIN jobs : i # j => jobs'[i] = jobs[i]
  OBVIOUS
<1>3. \A i \in DOMAIN jobs : i # j => Settled(i)
  BY DEF LogInv, OneOpenJob
<1>4. OneOpenJob'
  <2>1. \A i \in DOMAIN jobs' : i # j => Settled(i)'
    BY <1>2, <1>3 DEF Settled
  <2> QED
    BY <2>1 DEF OneOpenJob
<1>7. ASSUME NEW v \in Workers, wk'[v].at \in Checking
      PROVE  ~Owns(v)'
  <2>1. v # w /\ wk'[v] = wk[v] /\ wk[v].at \in Checking
    BY <1>1, <1>7
  <2>2. wk[v].job \in DOMAIN jobs
    BY <2>1, AtWork DEF Checking
  <2>3. CASE wk[v].job = j
    BY <1>2, <2>1, <2>3 DEF Owns
  <2>4. CASE wk[v].job # j
    <3>1. Settled(wk[v].job) /\ jobs'[wk[v].job] = jobs[wk[v].job]
      BY <1>2, <1>3, <2>2, <2>4
    <3> QED
      BY <2>1, <3>1 DEF Owns, Settled
  <2> QED
    BY <2>3, <2>4
<1> QED
  BY <1>4, <1>7 DEF LogInv, OwnerIsCurrent

LEMMA LogInit == CollectInit => LogInv
<1> SUFFICES ASSUME CollectInit PROVE LogInv
  OBVIOUS
<1>1. jobs = << >> /\ \A w \in Workers : wk[w].at = "idle"
  BY DEF CollectInit, Init, Idle, Start, Memo
<1> QED
  BY <1>1 DEF LogInv, OneOpenJob, OwnerIsCurrent, Checking

LEMMA LogWorker ==
  ASSUME TypeOK, LogInv, OneByOne', NEW w \in Workers, WorkerStep(w)
  PROVE  LogInv'
<1> USE DEF market, log
<1>t. /\ wk[w] \in Memos /\ wk \in [Workers -> Memos] /\ wk' \in [Workers -> Memos]
      /\ jobs \in Seq(JobRows) /\ jobs' \in Seq(JobRows) /\ clock \in Nat
  BY WorkerType DEF TypeOK
<1>1. CASE ReadDue(w)
  <2> DEFINE m == Start("schedule", 0)
  <2>1. m \in Memos /\ m.at \notin Checking
    BY StartType
  <2>2. Go(w, m) /\ UNCHANGED <<versions, jobs>>
    BY <1>1 DEF ReadDue
  <2> HIDE DEF m
  <2> QED
    BY <2>1, <2>2, LogUntouched
<1>2. CASE EnqueueDue(w)
  <2> PICK alone : alone = \A j \in DOMAIN jobs : Settled(j)
    OBVIOUS
  <2>r. PICK r : r = JobRow("pending", w, FALSE, 0, alone)
    OBVIOUS
  <2>0. r \in JobRows /\ r.alone = alone
    BY <2>r DEF JobRow, JobRows
  <2>1. jobs' = Append(jobs, r) /\ Go(w, Idle)
    BY <1>2, <2>r DEF EnqueueDue
  <2>3. /\ \A j \in DOMAIN jobs' : j \in DOMAIN jobs \/ j = Len(jobs) + 1
        /\ \A j \in DOMAIN jobs : jobs'[j] = jobs[j]
        /\ Len(jobs) + 1 \in DOMAIN jobs' /\ jobs'[Len(jobs) + 1] = r
    <3>1. Len(jobs') = Len(jobs) + 1 /\ jobs'[Len(jobs) + 1] = r
      BY <1>t, <2>0, <2>1, Appended
    <3>2. Len(jobs) + 1 \in DOMAIN jobs'
      BY <1>t, <3>1
    <3> QED
      BY <1>t, <2>0, <2>1, <3>1, <3>2, Appended
  <2>2. \A j \in DOMAIN jobs : Settled(j)
    <3>1. r.alone
      BY <2>3 DEF OneByOne
    <3> QED
      BY <2>0, <3>1
  <2>4. OneOpenJob'
    <3>1. \A j \in DOMAIN jobs' : j # Len(jobs) + 1 => Settled(j)'
      BY <2>2, <2>3 DEF Settled
    <3>2. PICK n : n = Len(jobs) + 1
      OBVIOUS
    <3>3. \A j \in DOMAIN jobs' : j # n => Settled(j)'
      BY <3>1, <3>2
    <3> QED
      BY <3>3 DEF OneOpenJob
  <2>6. wk'[w] = Idle /\ \A v \in Workers : v # w => wk'[v] = wk[v]
    BY <1>t, <2>1 DEF Go
  <2>8. ASSUME NEW v \in Workers, wk'[v].at \in Checking
        PROVE  ~Owns(v)'
    <3>1. wk'[v] = wk[v] /\ wk[v].at \in Checking
      BY <2>6, <2>8, IdleType
    <3>2. wk[v].job \in DOMAIN jobs
      BY <3>1, AtWork DEF Checking
    <3>3. jobs'[wk[v].job] = jobs[wk[v].job] /\ Settled(wk[v].job)
      BY <2>2, <2>3, <3>2
    <3> QED
      BY <3>1, <3>3 DEF Owns, Settled
  <2> QED
    BY <2>4, <2>8 DEF LogInv, OwnerIsCurrent
<1>3. ASSUME NEW j \in DOMAIN jobs, Claim(w, j)
      PROVE  LogInv'
  <2> PICK r : r = JobRow("leased", w, jobs[j].done, jobs[j].attempt, jobs[j].alone)
    OBVIOUS
  <2>1. r \in JobRows /\ r.owner = w
    <3>1. jobs[j] \in JobRows
      BY <1>t
    <3> QED
      BY <3>1 DEF JobRow, JobRows
  <2>2. ~Settled(j) /\ jobs' = [jobs EXCEPT ![j] = r]
    BY <1>3 DEF Claim, Settled
  <2> DEFINE m == Start("previous", j)
  <2>4. m \in Memos /\ m.at = "previous" /\ m.at \notin Checking /\ Go(w, m)
    BY <1>3, <1>t, StartType DEF Claim
  <2> HIDE DEF m
  <2> QED
    BY <2>1, <2>2, <2>4, JobMoves
<1>4. CASE ReadPrevious(w)
  <2> PICK m : m = Memo("details", wk[w].job, clock, Current, NoVersion, 0, {}, << >>, {})
    OBVIOUS
  <2>1. m.at = "details" /\ m.prev = Current
    BY DEF Memo
  <2>2. Go(w, m) /\ UNCHANGED <<versions, jobs>>
    BY <1>4 DEF ReadPrevious
  <2>3. m \in Memos
    BY <1>t, <2>2 DEF Go
  <2> QED
    BY <2>1, <2>2, <2>3, LogUntouched
<1>5. ASSUME NEW shape, FetchDetails(w, shape)
      PROVE  LogInv'
  <2> PICK m : m = wk'[w]
    OBVIOUS
  <2>1. m.job = wk[w].job /\ m.prev = wk[w].prev /\ wk[w].at \in Checking
    BY <1>5, <1>t DEF FetchDetails, Go, Memo, Checking
  <2>2. Go(w, m) /\ m \in Memos /\ UNCHANGED <<versions, jobs>>
    BY <1>5, <1>t DEF FetchDetails, Go
  <2> QED
    BY <2>1, <2>2, LogUntouched
<1>6. ASSUME NEW shape, DriftedDetails(w, shape)
      PROVE  LogInv'
  <2> PICK m : m = wk'[w]
    OBVIOUS
  <2>1. m.job = wk[w].job /\ m.prev = wk[w].prev /\ wk[w].at \in Checking
    BY <1>6, <1>t DEF DriftedDetails, Go, Memo, Checking
  <2>2. Go(w, m) /\ m \in Memos /\ UNCHANGED <<versions, jobs>>
    BY <1>6, <1>t DEF DriftedDetails, Go
  <2> QED
    BY <2>1, <2>2, LogUntouched
<1>7. ASSUME NEW a \in Answers(wk[w].page), WalkPage(w, a)
      PROVE  LogInv'
  <2> PICK m : m = wk'[w]
    OBVIOUS
  <2>1. m.job = wk[w].job /\ m.prev = wk[w].prev /\ wk[w].at \in Checking
    BY <1>7, <1>t DEF WalkPage, Go, Memo, Checking
  <2>2. Go(w, m) /\ m \in Memos /\ UNCHANGED <<versions, jobs>>
    BY <1>7, <1>t DEF WalkPage, Go
  <2> QED
    BY <2>1, <2>2, LogUntouched
<1>o. ASSUME Owns(w), wk[w].at \notin {"idle", "schedule"}
      PROVE  wk[w].job \in DOMAIN jobs /\ ~Settled(wk[w].job) /\ jobs[wk[w].job] \in JobRows
  BY <1>o, AtWork DEF Owns, Settled
<1>8. CASE CommitCheck(w)
  <2> PICK r : r = JobRow("leased", w, TRUE, jobs[wk[w].job].attempt, jobs[wk[w].job].alone)
    OBVIOUS
  <2> PICK j : j = wk[w].job
    OBVIOUS
  <2>1. Owns(w) /\ wk[w].at = "commit"
    BY <1>8 DEF CommitCheck, CommitAllowed
  <2>2. j \in DOMAIN jobs /\ ~Settled(j) /\ jobs[j] \in JobRows
    BY <1>o, <2>1
  <2>3. r \in JobRows /\ r.owner = w
    BY <2>2 DEF JobRow, JobRows
  <2>4. jobs' = [jobs EXCEPT ![j] = r]
    BY <1>8 DEF CommitCheck
  <2> DEFINE m == Start("complete", j)
  <2>6. m \in Memos /\ m.at = "complete" /\ m.at \notin Checking
    BY <1>t, <2>2, StartType
  <2>7. Go(w, m)
    BY <1>8 DEF CommitCheck
  <2> HIDE DEF m
  <2> QED
    BY <2>2, <2>3, <2>4, <2>6, <2>7, JobMoves
<1>9. CASE Complete(w)
  <2> PICK r : r = JobRow("completed", w, jobs[wk[w].job].done, jobs[wk[w].job].attempt,
                 jobs[wk[w].job].alone)
    OBVIOUS
  <2> PICK j : j = wk[w].job
    OBVIOUS
  <2>1. Owns(w) /\ wk[w].at = "complete"
    BY <1>9 DEF Complete
  <2>2. j \in DOMAIN jobs /\ ~Settled(j) /\ jobs[j] \in JobRows
    BY <1>o, <2>1
  <2>3. r \in JobRows /\ r.owner = w
    BY <2>2 DEF JobRow, JobRows
  <2>4. jobs' = [jobs EXCEPT ![j] = r] /\ Go(w, Idle)
    BY <1>9 DEF Complete
  <2> QED
    BY <2>2, <2>3, <2>4, IdleType, JobMoves
<1>10. CASE Fail(w)
  <2>0. Go(w, Idle) /\ wk[w].at \notin {"idle", "schedule"} /\ UNCHANGED versions
    BY <1>10 DEF Fail
  <2>1. CASE Owns(w)
    <3> PICK j : j = wk[w].job
      OBVIOUS
    <3> PICK r : r = JobRow(IF jobs[j].attempt + 1 < MaxAttempts THEN "pending" ELSE "failed", w,
                            jobs[j].done, jobs[j].attempt + 1, jobs[j].alone)
      OBVIOUS
    <3>2. j \in DOMAIN jobs /\ ~Settled(j) /\ jobs[j] \in JobRows
      BY <1>o, <2>0, <2>1
    <3>3. r \in JobRows /\ r.owner = w
      BY <3>2 DEF JobRow, JobRows
    <3>4. jobs' = [jobs EXCEPT ![j] = r]
      BY <1>10, <2>1 DEF Fail
    <3> QED
      BY <2>0, <3>2, <3>3, <3>4, IdleType, JobMoves
  <2>2. CASE ~Owns(w)
    <3>1. jobs' = jobs
      BY <1>10, <2>2 DEF Fail
    <3> QED
      BY <2>0, <3>1, IdleType, LogUntouched
  <2> QED
    BY <2>1, <2>2
<1>11. CASE Crash(w)
  <2>1. Go(w, Idle) /\ UNCHANGED <<versions, jobs>>
    BY <1>11 DEF Crash
  <2> QED
    BY <2>1, IdleType, LogUntouched
<1> QED
  BY <1>1, <1>2, <1>3, <1>4, <1>5, <1>6, <1>7, <1>8, <1>9, <1>10, <1>11 DEF WorkerStep

\* A job keeps what is known of the checks before it.
LEMMA AloneKept ==
  ASSUME CollectTypeOK, [CollectNext]_allVars, OneByOne'
  PROVE  OneByOne
<1>t. TypeOK /\ jobs \in Seq(JobRows)
  BY DEF CollectTypeOK, TypeOK
<1>u. jobs' = jobs => OneByOne
  BY DEF OneByOne
<1>a. ASSUME NEW r \in JobRows, jobs' = Append(jobs, r)
      PROVE  OneByOne
  <2>1. \A j \in DOMAIN jobs : j \in DOMAIN jobs' /\ jobs'[j] = jobs[j]
    BY <1>a, <1>t, Appended
  <2> QED
    BY <2>1 DEF OneByOne
<1>e. ASSUME NEW j \in DOMAIN jobs, NEW r, r.alone = jobs[j].alone, jobs' = [jobs EXCEPT ![j] = r]
      PROVE  OneByOne
  <2>1. DOMAIN jobs' = DOMAIN jobs /\ \A i \in DOMAIN jobs : jobs'[i].alone = jobs[i].alone
    BY <1>e, <1>t
  <2> QED
    BY <2>1 DEF OneByOne
<1>r. ASSUME NEW status, NEW owner, NEW done, NEW attempt, NEW alone
      PROVE  JobRow(status, owner, done, attempt, alone).alone = alone
  BY DEF JobRow
<1>1. ASSUME NEW w \in Workers, WorkerStep(w)
      PROVE  OneByOne
  <2>1. CASE EnqueueDue(w)
    <3> PICK alone \in BOOLEAN : alone = \A j \in DOMAIN jobs : Settled(j)
      OBVIOUS
    <3> PICK r : r = JobRow("pending", w, FALSE, 0, alone)
      OBVIOUS
    <3>1. r \in JobRows /\ jobs' = Append(jobs, r)
      BY <2>1 DEF EnqueueDue, JobRow, JobRows
    <3> QED
      BY <1>a, <3>1
  <2>2. ASSUME NEW j \in DOMAIN jobs, Claim(w, j)
        PROVE  OneByOne
    <3> PICK r : r = JobRow("leased", w, jobs[j].done, jobs[j].attempt, jobs[j].alone)
      OBVIOUS
    <3>1. r.alone = jobs[j].alone /\ jobs' = [jobs EXCEPT ![j] = r]
      BY <1>r, <2>2 DEF Claim
    <3> QED
      BY <1>e, <3>1
  <2>3. CASE CommitCheck(w)
    <3>1. wk[w].job \in DOMAIN jobs
      BY <1>t, <2>3, AtWork DEF CommitCheck, CommitAllowed
    <3> PICK r : r = JobRow("leased", w, TRUE, jobs[wk[w].job].attempt, jobs[wk[w].job].alone)
      OBVIOUS
    <3> PICK j : j = wk[w].job
      OBVIOUS
    <3>2. r.alone = jobs[j].alone
      BY DEF JobRow
    <3>3. jobs' = [jobs EXCEPT ![j] = r]
      BY <2>3 DEF CommitCheck
    <3> QED
      BY <1>e, <3>1, <3>2, <3>3
  <2>4. CASE Complete(w)
    <3>1. wk[w].job \in DOMAIN jobs
      BY <1>t, <2>4, AtWork DEF Complete
    <3> PICK r : r = JobRow("completed", w, jobs[wk[w].job].done, jobs[wk[w].job].attempt,
                            jobs[wk[w].job].alone)
      OBVIOUS
    <3>2. r.alone = jobs[wk[w].job].alone /\ jobs' = [jobs EXCEPT ![wk[w].job] = r]
      BY <1>r, <2>4 DEF Complete
    <3> QED
      BY <1>e, <3>1, <3>2
  <2>5. CASE Fail(w)
    <3>1. wk[w].job \in DOMAIN jobs
      BY <1>t, <2>5, AtWork DEF Fail
    <3> PICK n : n = jobs[wk[w].job].attempt + 1
      OBVIOUS
    <3> PICK r : r = JobRow(IF n < MaxAttempts THEN "pending" ELSE "failed", w,
                            jobs[wk[w].job].done, n, jobs[wk[w].job].alone)
      OBVIOUS
    <3>2. /\ r.alone = jobs[wk[w].job].alone
          /\ jobs' = jobs \/ jobs' = [jobs EXCEPT ![wk[w].job] = r]
      BY <1>r, <2>5 DEF Fail
    <3> QED
      BY <1>e, <1>u, <3>1, <3>2
  <2>6. CASE \/ ReadDue(w) \/ ReadPrevious(w) \/ Crash(w)
             \/ (\E shape : FetchDetails(w, shape) \/ DriftedDetails(w, shape))
             \/ (\E a : WalkPage(w, a))
    BY <1>u, <2>6 DEF ReadDue, ReadPrevious, FetchDetails, DriftedDetails, WalkPage, Crash
  <2> QED
    BY <1>1, <2>1, <2>2, <2>3, <2>4, <2>5, <2>6 DEF WorkerStep
<1>2. CASE UNCHANGED allVars
  BY <1>2, <1>u DEF allVars, vars
<1>3. CASE Next
  <2>1. CASE ImportStep
    BY <1>u, <2>1 DEF ImportStep, StartImport, ImportStops, MarkImportStalled, ImportPage,
                      ImportDriftedPage
  <2> QED
    BY <1>1, <1>3, <1>u, <2>1 DEF Next, Edit, Decide, Tick, CloseException, CloseMatching, PublishPending
<1>4. CASE CollectorStep
  BY <1>4, <1>u DEF CollectorStep, StartCollect, CollectPage, CollectDriftedPage,
                    CollectStops, vars
<1> QED
  BY <1>2, <1>3, <1>4 DEF CollectNext

LEMMA LogStep == CollectTypeOK /\ LogInv /\ OneByOne' /\ [CollectNext]_allVars => LogInv'
<1> SUFFICES ASSUME CollectTypeOK, LogInv, OneByOne', [CollectNext]_allVars PROVE LogInv'
  OBVIOUS
<1> USE DEF market, log
<1>t. TypeOK
  BY DEF CollectTypeOK
<1>u. UNCHANGED <<versions, jobs, wk>> => LogInv'
  BY <1>t, LogUntouched
<1>1. CASE UNCHANGED allVars
  BY <1>1, <1>u DEF allVars, vars
<1>2. CASE Next
  <2>2. CASE ImportStep
    BY <1>u, <2>2 DEF ImportStep, StartImport, ImportStops, MarkImportStalled, ImportPage,
                      ImportDriftedPage
  <2>3. CASE \/ Decide \/ Tick \/ (\E d \in Details, l \in Listings : Edit(d, l))
             \/ (\E x \in exceptions : CloseException(x)) \/ (\E c : CloseMatching(c))
             \/ (\E n \in 0..MaxDrifts : PublishPending(n))
    BY <1>u, <2>3 DEF Decide, Tick, Edit, CloseException, CloseMatching, PublishPending
  <2> QED
    BY <1>2, <1>t, <2>2, <2>3, LogWorker DEF Next
<1>3. CASE CollectorStep
  BY <1>3, <1>u DEF CollectorStep, StartCollect, CollectPage, CollectDriftedPage,
              CollectStops, vars
<1> QED
  BY <1>1, <1>2, <1>3 DEF CollectNext

\* Only a commit writes versions and change events.
LEMMA HistoryUntouched ==
  ASSUME [CollectNext]_allVars, \A w \in Workers : ~CommitCheck(w)
  PROVE  UNCHANGED <<versions, events>>
<1> USE DEF log
<1>1. CASE UNCHANGED allVars
  BY <1>1 DEF allVars, vars
<1>2. CASE Next
  <2>1. ASSUME NEW w \in Workers, WorkerStep(w)
        PROVE  UNCHANGED <<versions, events>>
    BY <2>1 DEF WorkerStep, ReadDue, EnqueueDue, Claim, ReadPrevious, FetchDetails,
                DriftedDetails, WalkPage, Complete, Fail, Crash
  <2>2. CASE ImportStep
    BY <2>2 DEF ImportStep, StartImport, ImportStops, MarkImportStalled, ImportPage,
                ImportDriftedPage
  <2> QED
    BY <1>2, <2>1, <2>2 DEF Next, Edit, Decide, Tick, CloseException, CloseMatching, PublishPending
<1>3. CASE CollectorStep
  BY <1>3 DEF CollectorStep, StartCollect, CollectPage, CollectDriftedPage,
              CollectStops, vars
<1> QED
  BY <1>1, <1>2, <1>3 DEF CollectNext

LEMMA SameHistory ==
  ASSUME Replays, UNCHANGED <<versions, events>>
  PROVE  Replays'
<1>1. \A f, n : After(f, n)' = After(f, n)
  BY DEF After
<1>2. \A f \in Fields : After(f, Len(events))' = Current'[f]
  BY <1>1 DEF Replays, Current
<1>3. \A i \in DOMAIN events' : \A c \in events'[i].changes : c.old = After(c.field, i - 1)'
  BY <1>1 DEF Replays
<1> QED
  BY <1>2, <1>3 DEF Replays

\* A commit adds to the log exactly what it adds to the history.
LEMMA CommitReplays ==
  ASSUME CollectTypeOK, CollectTypeOK', LogInv, Replays, NEW w \in Workers, CommitCheck(w)
  PROVE  Replays'
<1> PICK m : m = wk[w]
  OBVIOUS
<1>1. /\ m \in Memos /\ versions \in Seq(Details) /\ versions # << >>
      /\ events \in Seq(ChangeEvents) /\ events' \in Seq(ChangeEvents) /\ TypeOK
  BY DEF CollectTypeOK, TypeOK
<1>2. Owns(w) /\ m.at = "commit"
  BY DEF CommitCheck, CommitAllowed
<1>3. m.prev = Current /\ m.prev \in Details
  BY <1>1, <1>2, AtWork DEF LogInv, OwnerIsCurrent, Checking
<1>4. CASE m.new = NoVersion
  <2>1. UNCHANGED <<versions, events>>
    BY <1>4 DEF CommitCheck
  <2> QED
    BY <2>1, SameHistory
<1>5. CASE m.new # NoVersion
  <2>0. m.new \in Details
    BY <1>1, <1>5 DEF Memos
  <2>1. versions' = Append(versions, m.new)
    BY <1>5 DEF CommitCheck
  <2>2. versions'[1] = versions[1] /\ Current' = m.new
    <3>1. Len(versions) >= 1
      BY <1>1
    <3> QED
      BY <1>1, <2>0, <2>1, <3>1 DEF Current
  <2> PICK changes : changes = Diff(m.prev, m.new)
    OBVIOUS
  <2>3. /\ \A c \in changes : c.old = m.prev[c.field] /\ c.new = m.new[c.field] /\ c.field \in Fields
        /\ \A f \in Fields : m.prev[f] # m.new[f] <=> \E c \in changes : c.field = f
    BY <1>3, <2>0, DiffType
  <2>4. \A f \in Fields : After(f, Len(events)) = m.prev[f]
    BY <1>3 DEF Replays
  <2>5. CASE changes = {}
    <3>1. UNCHANGED events
      BY <1>5, <2>5 DEF CommitCheck
    <3>2. \A f \in Fields : m.new[f] = m.prev[f]
      BY <2>3, <2>5
    <3>3. \A f, n : After(f, n)' = After(f, n)
      BY <2>2, <3>1 DEF After
    <3>4. \A f \in Fields : After(f, Len(events))' = Current'[f]
      BY <2>2, <2>4, <3>1, <3>2, <3>3
    <3>5. \A i \in DOMAIN events' : \A c \in events'[i].changes : c.old = After(c.field, i - 1)'
      BY <3>1, <3>3 DEF Replays
    <3> QED
      BY <3>4, <3>5 DEF Replays
  <2>6. CASE changes # {}
    <3> PICK n : n = Len(events)
      OBVIOUS
    <3> PICK e : e = ChangeEvent(changes)
      OBVIOUS
    <3>1. n \in Nat /\ e.changes = changes /\ DOMAIN events = 1..n
      BY <1>1, LenProperties DEF ChangeEvent
    <3>2. events' = Append(events, e)
      BY <1>5, <2>6 DEF CommitCheck
    <3>3. /\ Len(events') = n + 1 /\ events'[n + 1] = e
          /\ \A i \in DOMAIN events : i \in DOMAIN events' /\ events'[i] = events[i]
      BY <1>1, <3>2
    <3>4. ASSUME NEW k \in 0..n, NEW f
          PROVE  After(f, k)' = After(f, k)
      BY <1>1, <2>2, <3>1, <3>3, AfterKept
    <3>5. ASSUME NEW f \in Fields
          PROVE  After(f, n + 1)' = m.new[f]
      <4> DEFINE S == {i \in 1..n + 1 : \E c \in events'[i].changes : c.field = f}
      <4>1. CASE \E c \in changes : c.field = f
        <5>1. n + 1 \in S /\ \A i \in S : i <= n + 1
          BY <3>1, <3>3, <4>1
        <5>2. \A i \in S : (\A j \in S : j <= i) => i = n + 1
          BY <3>1, <5>1
        <5>3. (CHOOSE i \in S : \A j \in S : j <= i) = n + 1
          BY <5>1, <5>2
        <5>4. After(f, n + 1)' = (CHOOSE c \in events'[n + 1].changes : c.field = f).new
          <6> HIDE DEF S
          <6> QED
            BY <5>1, <5>3 DEF After, S
        <5>5. (CHOOSE c \in changes : c.field = f) \in changes
              /\ (CHOOSE c \in changes : c.field = f).field = f
          BY <4>1
        <5> QED
          BY <2>3, <3>1, <3>3, <5>4, <5>5
      <4>2. CASE ~\E c \in changes : c.field = f
        <5>1. S = {i \in 1..n : \E c \in events'[i].changes : c.field = f}
          BY <3>1, <3>3, <4>2
        <5>2. After(f, n + 1)' = After(f, n)'
          <6> DEFINE T == {i \in 1..n : \E c \in events'[i].changes : c.field = f}
                     V(U) == IF U = {} THEN versions'[1][f]
                             ELSE (CHOOSE c \in events'[CHOOSE i \in U : \A j \in U : j <= i].changes :
                                     c.field = f).new
          <6>1. After(f, n + 1)' = V(S)
            BY Zenon DEF After
          <6>2. After(f, n)' = V(T)
            BY Zenon DEF After
          <6> HIDE DEF S, T, V
          <6>3. S = T
            BY <5>1 DEF T
          <6> QED
            BY <6>1, <6>2, <6>3
        <5>3. After(f, n)' = After(f, n)
          BY <3>1, <3>4
        <5>4. m.new[f] = m.prev[f]
          BY <2>3, <4>2
        <5> QED
          BY <2>4, <5>2, <5>3, <5>4
      <4> QED
        BY <4>1, <4>2
    <3>6. \A f \in Fields : After(f, Len(events))' = Current'[f]
      BY <2>2, <3>3, <3>5
    <3>7. ASSUME NEW i \in DOMAIN events', NEW c \in events'[i].changes
          PROVE  c.old = After(c.field, i - 1)'
      <4>1. CASE i = n + 1
        BY <2>3, <2>4, <3>1, <3>3, <3>4, <3>7, <4>1
      <4>2. CASE i # n + 1
        <5>1. i \in DOMAIN events /\ events'[i] = events[i] /\ i - 1 \in 0..n
          BY <1>1, <3>1, <3>3, <4>2
        <5>2. c.old = After(c.field, i - 1)
          BY <3>7, <5>1 DEF Replays
        <5> QED
          BY <3>4, <5>1, <5>2
      <4> QED
        BY <4>1, <4>2
    <3> QED
      BY <3>6, <3>7 DEF Replays
  <2> QED
    BY <2>5, <2>6
<1> QED
  BY <1>4, <1>5

\* As long as the checks come one by one, the owner of a check has read the
\* current version and the log replays.
HistoryInv == OneByOne => LogInv /\ Replays

LEMMA HistoryStep == CollectTypeOK /\ HistoryInv /\ [CollectNext]_allVars => HistoryInv'
<1> SUFFICES ASSUME CollectTypeOK, HistoryInv, [CollectNext]_allVars, OneByOne'
             PROVE  LogInv' /\ Replays'
  BY DEF HistoryInv
<1>1. LogInv /\ Replays
  BY AloneKept DEF HistoryInv
<1>2. LogInv'
  BY <1>1, LogStep
<1>3. CASE \E w \in Workers : CommitCheck(w)
  BY <1>1, <1>2, <1>3, TypeStep, CommitReplays
<1>4. CASE \A w \in Workers : ~CommitCheck(w)
  <2>1. UNCHANGED <<versions, events>>
    BY <1>4, HistoryUntouched
  <2> QED
    BY <1>1, <1>2, <2>1, SameHistory
<1> QED
  BY <1>3, <1>4

LEMMA ReplayInit == CollectInit => Replays
<1> SUFFICES ASSUME CollectInit PROVE Replays
  OBVIOUS
<1>1. PICK d \in Details : versions = <<d>> /\ events = << >>
  BY DEF CollectInit, Init
<1>2. Len(events) = 0 /\ DOMAIN events = {} /\ Current = d /\ versions[1] = d
  BY <1>1 DEF Current
<1>3. \A f : After(f, 0) = versions[1][f]
  BY AfterUnchanged
<1> QED
  BY <1>2, <1>3 DEF Replays

\* As long as no check was enqueued beside an open one, the change events are
\* the tender's history: they replay from the first version to the current
\* one and each states the old values its predecessors left
\* (check_tender_for_changes under store.checkpoint), for any number of
\* workers that schedule, claim, lose, retry and repeat checks.  The
\* antecedent is needed: of two checks that are open at once both may record
\* the same change, or the later one overwrite a version unrecorded.
THEOREM LogIsHistory == CollectSpec => []ChangeLogReplays
<1>1. CollectInit => HistoryInv
  BY LogInit, ReplayInit DEF HistoryInv
<1>2. HistoryInv => ChangeLogReplays
  BY DEF HistoryInv, ChangeLogReplays
<1> QED
  BY <1>1, <1>2, TypeInit, TypeStep, HistoryStep, PTL DEF CollectSpec

-----------------------------------------------------------------------------
(* The collectors' cursors. *)

\* Division by the size of a page.
LEMMA Division ==
  ASSUME NEW a \in Nat, NEW b \in Nat \ {0}
  PROVE  a \div b \in Nat /\ (a \div b) * b <= a /\ a < (a \div b) * b + b
OBVIOUS

LEMMA FewerPages ==
  ASSUME NEW a \in Nat, NEW b \in Nat \ {0}, NEW c \in Nat, a < c
  PROVE  a * b + b <= c * b
OBVIOUS

LEMMA FewerItems ==
  ASSUME NEW a \in Nat, NEW b \in Nat \ {0}, NEW c \in Nat, a * b < c * b
  PROVE  a < c
OBVIOUS

\* The cursor of the page after p pages, and the page of an item.
PageCursor(kind, p) == IF kind = "worldbank" THEN p * PageSize ELSE p + 1
PageOf(i) == (i - 1) \div PageSize

LEMMA PageOfBounds ==
  ASSUME NEW i \in Nat \ {0}
  PROVE  /\ PageOf(i) \in Nat
         /\ PageOf(i) * PageSize < i /\ i <= PageOf(i) * PageSize + PageSize
<1>1. i - 1 \in Nat /\ PageSize \in Nat \ {0}
  BY CollectorsAssumption
<1>2. PICK q : q = (i - 1) \div PageSize
  OBVIOUS
<1>3. q \in Nat /\ q * PageSize <= i - 1 /\ i - 1 < q * PageSize + PageSize
  BY <1>1, <1>2, Division
<1>4. q * PageSize \in Nat
  BY <1>1, <1>3
<1>5. q * PageSize < i /\ i <= q * PageSize + PageSize
  BY <1>1, <1>3, <1>4
<1> QED
  BY <1>2, <1>3, <1>5 DEF PageOf

\* A page further on has a greater cursor, by a whole page.
LEMMA CursorsGrow ==
  ASSUME NEW kind, NEW p \in Nat, NEW q \in Nat
  PROVE  /\ PageCursor(kind, p) \in Nat
         /\ CursorAfter(kind, PageCursor(kind, p)) = PageCursor(kind, p + 1)
         /\ PageCursor(kind, p) < PageCursor(kind, q) <=> p < q
         /\ PageCursor(kind, p) = PageCursor(kind, q) <=> p = q
         /\ Before(kind, PageCursor(kind, p)) = p * PageSize
<1>1. PageSize \in Nat \ {0} /\ p * PageSize \in Nat /\ q * PageSize \in Nat
  BY CollectorsAssumption
<1>2. (p + 1) * PageSize = p * PageSize + PageSize
  BY <1>1
<1>3. p < q => p * PageSize < q * PageSize
  BY <1>1, FewerPages
<1>4. q < p => q * PageSize < p * PageSize
  BY <1>1, FewerPages
<1>5. CASE kind = "worldbank"
  BY <1>1, <1>2, <1>3, <1>4, <1>5 DEF PageCursor, CursorAfter, Before
<1>6. CASE kind # "worldbank"
  BY <1>1, <1>6 DEF PageCursor, CursorAfter, Before
<1> QED
  BY <1>5, <1>6

\* What the cursor of an item says: on the page, before it or after it.
LEMMA CursorOfItem ==
  ASSUME NEW kind, NEW i \in Nat \ {0}, NEW p \in Nat, NEW next, next = PageCursor(kind, p)
  PROVE  /\ CursorOf(kind, i) \in Nat /\ next \in Nat
         /\ CursorOf(kind, i) = next <=> i \in Before(kind, next) + 1 .. Before(kind, next) + PageSize
         /\ CursorOf(kind, i) < CursorAfter(kind, next)
              <=> CursorOf(kind, i) < next \/ CursorOf(kind, i) = next
         /\ next < CursorAfter(kind, next)
<1>1. PICK q : q = PageOf(i)
  OBVIOUS
<1>2. q \in Nat /\ q * PageSize < i /\ i <= q * PageSize + PageSize
  BY <1>1, PageOfBounds
<1>3. PageSize \in Nat \ {0} /\ p * PageSize \in Nat /\ q * PageSize \in Nat
  BY <1>2, CollectorsAssumption
<1>4. CursorOf(kind, i) = PageCursor(kind, q)
  BY <1>1 DEF CursorOf, PageCursor, PageOf
<1>5. q = p <=> i \in p * PageSize + 1 .. p * PageSize + PageSize
  <2>1. q < p => q * PageSize + PageSize <= p * PageSize
    BY <1>2, <1>3, FewerPages
  <2>2. p < q => p * PageSize + PageSize <= q * PageSize
    BY <1>2, <1>3, FewerPages
  <2> QED
    BY <1>2, <1>3, <2>1, <2>2
<1>6. /\ PageCursor(kind, q) \in Nat /\ PageCursor(kind, p) \in Nat
      /\ PageCursor(kind, q) = next <=> q = p
      /\ PageCursor(kind, q) < next <=> q < p
      /\ Before(kind, next) = p * PageSize
  BY <1>2, CursorsGrow
<1>7. /\ CursorAfter(kind, next) = PageCursor(kind, p + 1)
      /\ PageCursor(kind, q) < PageCursor(kind, p + 1) <=> q < p + 1
      /\ PageCursor(kind, p) < PageCursor(kind, p + 1) <=> p < p + 1
  BY <1>2, CursorsGrow
<1>8. q < p + 1 <=> q < p \/ q = p
  BY <1>2
<1> QED
  BY <1>4, <1>5, <1>6, <1>7, <1>8

\* The items of a source have positions.
LEMMA Positions ==
  ASSUME NEW kind \in Kinds
  PROVE  /\ Len(Feeds[kind]) \in Nat
         /\ DOMAIN Feeds[kind] = 1..Len(Feeds[kind])
         /\ \A i \in DOMAIN Feeds[kind] : i \in Nat \ {0} /\ i <= Len(Feeds[kind])
<1>1. Feeds[kind] \in Seq([id : Nat, design : BOOLEAN])
  BY CollectorsAssumption
<1>2. Len(Feeds[kind]) \in Nat /\ DOMAIN Feeds[kind] = 1..Len(Feeds[kind])
  BY <1>1, LenProperties
<1> QED
  BY <1>2

\* A job that says it is done has passed every item.
LEMMA DoneCovers ==
  ASSUME NEW kind \in Kinds, NEW p \in Nat, NEW next, next = PageCursor(kind, p), NEW shape,
         CollectDone(kind, next, shape), NEW i \in DOMAIN Feeds[kind]
  PROVE  CursorOf(kind, i) < CursorAfter(kind, next)
<1>1. PICK L : L = Len(Feeds[kind])
  OBVIOUS
<1>2. L \in Nat /\ i \in Nat \ {0} /\ i <= L
  BY <1>1, Positions
<1>3. PICK q : q = PageOf(i)
  OBVIOUS
<1>4. q \in Nat /\ q * PageSize < i /\ i <= q * PageSize + PageSize
  BY <1>2, <1>3, PageOfBounds
<1>5. PageSize \in Nat \ {0} /\ p * PageSize \in Nat /\ q * PageSize \in Nat
  BY <1>4, CollectorsAssumption
<1>6. CASE kind = "worldbank"
  <2>1. next + PageSize >= L
    BY <1>1, <1>6 DEF CollectDone
  <2>2. next = p * PageSize /\ CursorOf(kind, i) = q * PageSize
        /\ CursorAfter(kind, next) = next + PageSize
    BY <1>3, <1>6 DEF PageCursor, CursorOf, PageOf, CursorAfter
  <2> QED
    BY <1>2, <1>4, <1>5, <2>1, <2>2
<1>7. CASE kind # "worldbank"
  <2>1. PICK pages : pages = (L + PageSize - 1) \div PageSize
    OBVIOUS
  <2>2. next >= pages
    BY <1>1, <1>7, <2>1 DEF CollectDone, Done, FeedPages
  <2>3. next = p + 1 /\ CursorOf(kind, i) = q + 1 /\ CursorAfter(kind, next) = next + 1
    BY <1>3, <1>7 DEF PageCursor, CursorOf, PageOf, CursorAfter
  <2>4. L + PageSize - 1 \in Nat
    BY <1>2, <1>5
  <2>5. pages \in Nat /\ L + PageSize - 1 < pages * PageSize + PageSize
    BY <1>5, <2>1, <2>4, Division
  <2>6. pages * PageSize \in Nat
    BY <1>5, <2>5
  <2>7. q * PageSize < pages * PageSize
    BY <1>2, <1>4, <1>5, <2>5, <2>6
  <2>8. q < pages
    BY <1>4, <1>5, <2>5, <2>7, FewerItems
  <2> QED
    BY <1>4, <2>2, <2>3, <2>5, <2>8
<1> QED
  BY <1>6, <1>7

-----------------------------------------------------------------------------
(* What the collectors have passed. *)

Reported(corr, page) == \E n \in DOMAIN outbox : outbox[n].corr = corr /\ outbox[n].page = page
RowsOf(kind, k, i) == {s \in signals : s.corr = <<kind, k>> /\ s.item = Feeds[kind][i].id}

\* A job at its cursor: whatever it stored or reported is of a page before
\* the cursor, and of such a page one or the other.
Passed(kind, k, next) ==
  /\ \E p \in Nat : next = PageCursor(kind, p)
  /\ \A s \in signals : s.corr = <<kind, k>> =>
       \E i \in DOMAIN Feeds[kind] : s.item = Feeds[kind][i].id /\ CursorOf(kind, i) < next
  /\ \A page \in Nat : Reported(<<kind, k>>, page) => page < next
  /\ \A i \in DOMAIN Feeds[kind] :
       CursorOf(kind, i) < next /\ Kept(kind, Feeds[kind][i]) =>
         Cardinality(RowsOf(kind, k, i)) = IF Reported(<<kind, k>>, CursorOf(kind, i)) THEN 0 ELSE 1

Covered(kind, next) == \A i \in DOMAIN Feeds[kind] : CursorOf(kind, i) < next

\* Nothing is stored or reported yet under the number of a later job.
LaterJobsFresh ==
  /\ \A s \in signals : \A kind \in Kinds, k \in Nat : s.corr = <<kind, k>> => k <= collector.k
  /\ \A kind \in Kinds, k \in Nat, page \in Nat : Reported(<<kind, k>>, page) => k <= collector.k

\* What a worker holds was reported by a check.
FromWatch(m) == \A i \in DOMAIN m.drifts : m.drifts[i].corr = WatchCorr
HeldByWatch == \A w \in Workers : FromWatch(wk[w])

CollectInv ==
  /\ HeldByWatch
  /\ LaterJobsFresh
  /\ collector.k = 0 => collector.at = "none"
  /\ collector.k > 0 =>
       /\ Passed(collector.kind, collector.k, collector.next)
       /\ collector.at = "done" => Covered(collector.kind, collector.next)

\* The statement of the property is part of the invariant.
LEMMA CollectInvSays == CollectTypeOK /\ CollectInv => CollectedOrReported
<1> SUFFICES ASSUME CollectTypeOK, CollectInv, collector.k > 0, NEW i \in DOMAIN Feed
             PROVE  LET c == CursorOf(collector.kind, i)
                        rows == {s \in signals : s.corr = CollectCorr /\ s.item = Feed[i].id}
                        reported == \E n \in DOMAIN outbox : outbox[n].corr = CollectCorr /\ outbox[n].page = c
                    IN /\ c < collector.next /\ Kept(collector.kind, Feed[i])
                            => Cardinality(rows) = IF reported THEN 0 ELSE 1
                       /\ collector.at = "done" => c < collector.next
  BY DEF CollectedOrReported
<1>1. PICK kind, k, next : kind = collector.kind /\ k = collector.k /\ next = collector.next
  OBVIOUS
<1>2. Passed(kind, k, next) /\ (collector.at = "done" => Covered(kind, next)) /\ i \in DOMAIN Feeds[kind]
  BY <1>1 DEF CollectInv, Feed
<1>3. RowsOf(kind, k, i) = {s \in signals : s.corr = CollectCorr /\ s.item = Feed[i].id}
  BY <1>1 DEF RowsOf, CollectCorr, Feed
<1>4. Reported(<<kind, k>>, CursorOf(kind, i))
        <=> \E n \in DOMAIN outbox : outbox[n].corr = CollectCorr /\ outbox[n].page = CursorOf(kind, i)
  BY <1>1 DEF Reported, CollectCorr
<1>5. CursorOf(kind, i) < next /\ Kept(kind, Feeds[kind][i]) =>
        Cardinality(RowsOf(kind, k, i)) = IF Reported(<<kind, k>>, CursorOf(kind, i)) THEN 0 ELSE 1
  BY <1>2 DEF Passed
<1>6. collector.at = "done" => CursorOf(kind, i) < next
  BY <1>2 DEF Covered
<1> QED
  BY <1>1, <1>3, <1>4, <1>5, <1>6 DEF Feed

\* The import and the checks report under correlation ids of their own.
SameReports ==
  \A kind \in Kinds, k \in Nat, page \in Nat :
    Reported(<<kind, k>>, page)' <=> Reported(<<kind, k>>, page)

Foreign(d) == \A kind \in Kinds, k \in Nat : d.corr # <<kind, k>>

LEMMA ForeignReports ==
  ASSUME RowsKept, \A n \in DOMAIN outbox' : n \in DOMAIN outbox \/ Foreign(outbox'[n])
  PROVE  SameReports
BY DEF RowsKept, Foreign, SameReports, Reported

LEMMA OtherCorrs ==
  /\ \A d : d.corr = WatchCorr => Foreign(d)
  /\ \A d, k : d.corr = ImportCorr(k) => Foreign(d)
BY DEF Foreign, WatchCorr, ImportCorr, Kinds

LEMMA OutsideReports ==
  ASSUME CollectTypeOK, HeldByWatch, Next, RowsKept
  PROVE  SameReports
<1> USE DEF drift
<1>t. TypeOK /\ outbox \in Seq(OutboxRows)
  BY DEF CollectTypeOK, TypeOK
<1>u. outbox' = outbox => SameReports
  BY DEF SameReports, Reported
<1>1. ASSUME NEW a \in Answers(ijob.next), ImportDriftedPage(a)
      PROVE  SameReports
  <2> PICK d : d = DriftEvent(ImportCorr(ijob.k), a.contract, ijob.next)
    OBVIOUS
  <2>1. outbox' = Append(outbox, d) /\ d.corr = ImportCorr(ijob.k)
    BY <1>1 DEF ImportDriftedPage, DriftEvent, OutboxRow
  <2>2. Foreign(d)
    BY <2>1, OtherCorrs
  <2>3. \A n \in DOMAIN outbox' : n \in DOMAIN outbox \/ outbox'[n] = d
    BY <1>t, <2>1
  <2> QED
    BY <2>2, <2>3, ForeignReports
<1>2. ASSUME NEW n \in 0..MaxDrifts, PublishPending(n)
      PROVE  SameReports
  <2>1. DOMAIN outbox' = DOMAIN outbox
    BY <1>2 DEF PublishPending
  <2> QED
    BY <2>1, ForeignReports
<1>3. ASSUME NEW w \in Workers, CommitCheck(w)
      PROVE  SameReports
  <2> PICK m : m = wk[w].drifts
    OBVIOUS
  <2>1. m \in Seq(OutboxRows) /\ outbox' = outbox \o m
    BY <1>t, <1>3 DEF TypeOK, Memos, CommitCheck
  <2>2. \A i \in DOMAIN m : Foreign(m[i])
    BY OtherCorrs DEF HeldByWatch, FromWatch
  <2>3. /\ DOMAIN outbox = 1..Len(outbox) /\ DOMAIN m = 1..Len(m)
        /\ DOMAIN outbox' = 1..Len(outbox) + Len(m)
        /\ Len(outbox) \in Nat /\ Len(m) \in Nat
    BY <1>t, <2>1, LenProperties, ConcatProperties
  <2>4. ASSUME NEW n \in DOMAIN outbox', n \notin DOMAIN outbox
        PROVE  Foreign(outbox'[n])
    <3>1. outbox'[n] = m[n - Len(outbox)] /\ n - Len(outbox) \in DOMAIN m
      BY <1>t, <2>1, <2>3, <2>4, ConcatProperties
    <3> QED
      BY <2>2, <3>1
  <2> QED
    BY <2>4, ForeignReports
<1>4. ASSUME NEW w \in Workers, WorkerStep(w), ~CommitCheck(w)
      PROVE  outbox' = outbox
  BY <1>4 DEF WorkerStep, ReadDue, EnqueueDue, Claim, ReadPrevious, FetchDetails,
              DriftedDetails, WalkPage, Complete, Fail, Crash
<1>5. CASE \/ StartImport \/ ImportStops \/ MarkImportStalled
           \/ (\E a \in Answers(ijob.next) : ImportPage(a))
  BY <1>u, <1>5 DEF StartImport, ImportStops, MarkImportStalled, ImportPage
<1>6. CASE \/ Decide \/ Tick \/ (\E d \in Details, l \in Listings : Edit(d, l))
           \/ (\E x \in exceptions : CloseException(x)) \/ (\E c : CloseMatching(c))
  BY <1>u, <1>6 DEF Decide, Tick, Edit, CloseException, CloseMatching
<1> QED
  BY <1>u, <1>1, <1>2, <1>3, <1>4, <1>5, <1>6 DEF Next, ImportStep

\* A check reports under the correlation id of the watch.
LEMMA ChecksReportAsWatch ==
  ASSUME CollectTypeOK, HeldByWatch, NEW w \in Workers, WorkerStep(w)
  PROVE  HeldByWatch'
<1>t. wk[w] \in Memos /\ wk \in [Workers -> Memos]
  BY DEF CollectTypeOK, TypeOK
<1>0. ASSUME NEW m, Go(w, m), FromWatch(m)
      PROVE  HeldByWatch'
  BY <1>0, <1>t DEF Go, HeldByWatch, FromWatch
<1>s. \A at, j : FromWatch(Start(at, j))
  BY DEF FromWatch, Start, Memo
<1>m. ASSUME NEW at, NEW j, NEW seen, NEW prev, NEW new, NEW page, NEW found, NEW drifts, NEW asked,
             \A i \in DOMAIN drifts : drifts[i].corr = WatchCorr
      PROVE  FromWatch(Memo(at, j, seen, prev, new, page, found, drifts, asked))
  BY <1>m DEF FromWatch, Memo
<1>1. CASE ReadDue(w) \/ EnqueueDue(w) \/ (\E j \in DOMAIN jobs : Claim(w, j))
           \/ CommitCheck(w) \/ Complete(w) \/ Fail(w) \/ Crash(w)
  <2>1. \E at, j : Go(w, Start(at, j))
    BY <1>1 DEF ReadDue, EnqueueDue, Claim, CommitCheck, Complete, Fail, Crash, Idle
  <2> QED
    BY <1>0, <1>s, <2>1
<1>2. CASE ReadPrevious(w)
  BY <1>0, <1>m, <1>2 DEF ReadPrevious
<1>3. ASSUME NEW shape, FetchDetails(w, shape)
      PROVE  HeldByWatch'
  BY <1>0, <1>m, <1>3 DEF FetchDetails
<1>4. ASSUME NEW shape, DriftedDetails(w, shape)
      PROVE  HeldByWatch'
  <2>1. DriftEvent(WatchCorr, "details", 0).corr = WatchCorr
    BY DEF DriftEvent, OutboxRow
  <2>2. \A i \in DOMAIN <<DriftEvent(WatchCorr, "details", 0)>> :
          <<DriftEvent(WatchCorr, "details", 0)>>[i].corr = WatchCorr
    BY <2>1
  <2> QED
    BY <1>0, <1>m, <1>4, <2>2 DEF DriftedDetails
<1>5. ASSUME NEW a \in Answers(wk[w].page), WalkPage(w, a)
      PROVE  HeldByWatch'
  <2> PICK m : m = wk'[w]
    OBVIOUS
  <2> PICK old : old = wk[w].drifts
    OBVIOUS
  <2>0. old \in Seq(OutboxRows) /\ \A i \in DOMAIN old : old[i].corr = WatchCorr
    BY <1>t DEF Memos, HeldByWatch, FromWatch
  <2>1. Go(w, m)
    BY <1>5, <1>t DEF WalkPage, Go
  <2>2. CASE a.contract = "none"
    <3>1. m.drifts = old
      BY <1>5, <1>t, <2>2 DEF WalkPage, Go, Memo
    <3> QED
      BY <1>0, <2>0, <2>1, <3>1 DEF FromWatch
  <2>3. CASE a.contract # "none"
    <3> PICK d : d = DriftEvent(WatchCorr, a.contract, wk[w].page)
      OBVIOUS
    <3>1. m.drifts = Append(old, d)
      BY <1>5, <1>t, <2>3 DEF WalkPage, Go, Memo
    <3>2. d.corr = WatchCorr
      BY DEF DriftEvent, OutboxRow
    <3>3. \A i \in DOMAIN m.drifts : (i \in DOMAIN old /\ m.drifts[i] = old[i]) \/ m.drifts[i] = d
      BY <2>0, <3>1
    <3>4. FromWatch(m)
      BY <2>0, <3>2, <3>3 DEF FromWatch
    <3> QED
      BY <1>0, <2>1, <3>4
  <2> QED
    BY <2>2, <2>3
<1> QED
  BY <1>1, <1>2, <1>3, <1>4, <1>5 DEF WorkerStep

LEMMA HeldByWatchStep ==
  ASSUME CollectTypeOK, HeldByWatch, [CollectNext]_allVars
  PROVE  HeldByWatch'
<1> USE DEF HeldByWatch
<1>1. CASE \E w \in Workers : WorkerStep(w)
  BY <1>1, ChecksReportAsWatch
<1>2. CASE Next /\ ~\E w \in Workers : WorkerStep(w)
  <2>1. UNCHANGED wk
    BY <1>2 DEF Next, ImportStep, StartImport, ImportStops, MarkImportStalled, ImportPage,
                ImportDriftedPage, Decide, Tick, Edit, CloseException, CloseMatching, PublishPending
  <2> QED
    BY <2>1 DEF FromWatch
<1>3. CASE CollectorStep \/ UNCHANGED allVars
  <2>1. UNCHANGED wk
    BY <1>3 DEF CollectorStep, StartCollect, CollectPage, CollectDriftedPage, CollectStops,
                allVars, vars
  <2> QED
    BY <2>1 DEF FromWatch
<1> QED
  BY <1>1, <1>2, <1>3 DEF CollectNext

\* What happens elsewhere changes nothing of a job.
LEMMA PassedStays ==
  ASSUME UNCHANGED signals, SameReports, NEW kind \in Kinds, NEW k \in Nat, NEW next,
         Passed(kind, k, next)
  PROVE  Passed(kind, k, next)'
<1>1. \A page \in Nat : Reported(<<kind, k>>, page)' <=> Reported(<<kind, k>>, page)
  BY DEF SameReports
<1>2. \A i : RowsOf(kind, k, i)' = RowsOf(kind, k, i)
  BY DEF RowsOf
<1>3. PICK p \in Nat : next = PageCursor(kind, p)
  BY DEF Passed
<1>4. \A i \in DOMAIN Feeds[kind] : CursorOf(kind, i) \in Nat
  BY <1>3, Positions, CursorOfItem
<1>5. ASSUME NEW i \in DOMAIN Feeds[kind], CursorOf(kind, i) < next, Kept(kind, Feeds[kind][i])
      PROVE  Cardinality(RowsOf(kind, k, i)')
               = IF Reported(<<kind, k>>, CursorOf(kind, i))' THEN 0 ELSE 1
  <2>1. Cardinality(RowsOf(kind, k, i)) = IF Reported(<<kind, k>>, CursorOf(kind, i)) THEN 0 ELSE 1
    BY <1>5 DEF Passed
  <2>2. Reported(<<kind, k>>, CursorOf(kind, i))' <=> Reported(<<kind, k>>, CursorOf(kind, i))
    BY <1>1, <1>4
  <2> QED
    BY <1>2, <2>1, <2>2
<1>6. \A s \in signals' : s.corr = <<kind, k>> =>
        \E i \in DOMAIN Feeds[kind] : s.item = Feeds[kind][i].id /\ CursorOf(kind, i) < next
  BY DEF Passed
<1>7. \A page \in Nat : Reported(<<kind, k>>, page)' => page < next
  BY <1>1 DEF Passed
<1> QED
  BY <1>3, <1>5, <1>6, <1>7 DEF Passed

\* A job that has begun has passed nothing.
LEMMA PassedNothing ==
  ASSUME NEW kind \in Kinds, NEW k \in Nat, UNCHANGED <<signals, outbox>>,
         \A s \in signals : s.corr # <<kind, k>>,
         \A page \in Nat : ~Reported(<<kind, k>>, page)
  PROVE  Passed(kind, k, PageCursor(kind, 0))'
<1>1. \A i \in DOMAIN Feeds[kind] : ~(CursorOf(kind, i) < PageCursor(kind, 0))
  <2> SUFFICES ASSUME NEW i \in DOMAIN Feeds[kind]
               PROVE  ~(CursorOf(kind, i) < PageCursor(kind, 0))
    OBVIOUS
  <2>1. PageOf(i) \in Nat
    BY Positions, PageOfBounds
  <2>2. CursorOf(kind, i) = PageCursor(kind, PageOf(i))
    BY DEF CursorOf, PageCursor, PageOf
  <2>3. PageCursor(kind, PageOf(i)) < PageCursor(kind, 0) <=> PageOf(i) < 0
    BY <2>1, CursorsGrow
  <2> QED
    BY <2>1, <2>2, <2>3
<1>2. \A page \in Nat : ~Reported(<<kind, k>>, page)'
  BY DEF Reported
<1> QED
  BY <1>1, <1>2 DEF Passed

\* The items on the page at the cursor, and the cursor after it.
PageAt(kind, next, after) ==
  /\ next \in Nat
  /\ \E q \in Nat : after = PageCursor(kind, q)
  /\ \A page \in Nat : page < next \/ page = next => page < after
  /\ \A i \in DOMAIN Feeds[kind] :
       /\ CursorOf(kind, i) \in Nat
       /\ i \in PageItems(kind, next) <=> CursorOf(kind, i) = next
       /\ CursorOf(kind, i) < after <=> CursorOf(kind, i) < next \/ CursorOf(kind, i) = next

LEMMA NextPage ==
  ASSUME NEW kind \in Kinds, NEW p \in Nat, NEW next, next = PageCursor(kind, p)
  PROVE  PageAt(kind, next, CursorAfter(kind, next))
<1>1. next \in Nat /\ CursorAfter(kind, next) = PageCursor(kind, p + 1)
  BY CursorsGrow
<1>2. p + 1 \in Nat /\ PageCursor(kind, p + 1) \in Nat /\ next < CursorAfter(kind, next)
  BY <1>1, CursorsGrow
<1>3. ASSUME NEW i \in DOMAIN Feeds[kind]
      PROVE  /\ CursorOf(kind, i) \in Nat
             /\ i \in PageItems(kind, next) <=> CursorOf(kind, i) = next
             /\ CursorOf(kind, i) < CursorAfter(kind, next)
                  <=> CursorOf(kind, i) < next \/ CursorOf(kind, i) = next
  <2>1. i \in Nat \ {0}
    BY Positions
  <2>2. i \in PageItems(kind, next)
          <=> i \in Before(kind, next) + 1 .. Before(kind, next) + PageSize
    BY DEF PageItems
  <2> QED
    BY <2>1, <2>2, CursorOfItem
<1>4. \A page \in Nat : page < next \/ page = next => page < CursorAfter(kind, next)
  BY <1>1, <1>2
<1> QED
  BY <1>1, <1>2, <1>3, <1>4 DEF PageAt

\* The rows of a page that is stored.
LEMMA RowsStored ==
  ASSUME NEW kind \in Kinds, NEW k \in Nat, NEW next, collector.kind = kind, collector.k = k,
         NEW s \in SignalRows(kind, next)
  PROVE  /\ s.corr = <<kind, k>>
         /\ \E i \in PageItems(kind, next) :
              s = SignalRow(kind, i, next) /\ s.item = Feeds[kind][i].id /\ Kept(kind, Feeds[kind][i])
<1>1. PICK i \in PageItems(kind, next) : s = SignalRow(kind, i, next) /\ Kept(kind, Feeds[kind][i])
  BY DEF SignalRows
<1>2. s.corr = <<kind, k>> /\ s.item = Feeds[kind][i].id
  BY <1>1 DEF SignalRow, CollectCorr
<1> QED
  BY <1>1, <1>2

\* A page is stored: its items have one row each, and no other.
LEMMA PassedPage ==
  ASSUME NEW kind \in Kinds, NEW k \in Nat, NEW next, Passed(kind, k, next),
         collector.kind = kind, collector.k = k,
         signals' = signals \cup SignalRows(kind, next), UNCHANGED outbox
  PROVE  Passed(kind, k, CursorAfter(kind, next))'
<1> DEFINE after == CursorAfter(kind, next)
           new == SignalRows(kind, next)
<1>1. PICK p \in Nat : next = PageCursor(kind, p)
  BY DEF Passed
<1>0. PageAt(kind, next, after)
  BY <1>1, NextPage
<1>2. /\ next \in Nat
      /\ \E q \in Nat : after = PageCursor(kind, q)
      /\ \A page \in Nat : page < next \/ page = next => page < after
  BY <1>0 DEF PageAt
<1>3. \A i \in DOMAIN Feeds[kind] :
        /\ CursorOf(kind, i) \in Nat
        /\ i \in PageItems(kind, next) <=> CursorOf(kind, i) = next
        /\ CursorOf(kind, i) < after <=> CursorOf(kind, i) < next \/ CursorOf(kind, i) = next
  BY <1>0 DEF PageAt
<1>4. \A s \in new :
        /\ s.corr = <<kind, k>>
        /\ \E i \in PageItems(kind, next) :
             s = SignalRow(kind, i, next) /\ s.item = Feeds[kind][i].id /\ Kept(kind, Feeds[kind][i])
  BY RowsStored
<1>5. PageItems(kind, next) \subseteq DOMAIN Feeds[kind]
  BY DEF PageItems
<1>6. \A page \in Nat : Reported(<<kind, k>>, page)' <=> Reported(<<kind, k>>, page)
  BY DEF Reported
<1>7. \A i, j \in DOMAIN Feeds[kind] : Feeds[kind][i].id = Feeds[kind][j].id => i = j
  BY CollectorsAssumption
<1>8. \A i \in PageItems(kind, next) : Kept(kind, Feeds[kind][i]) =>
        SignalRow(kind, i, next) \in new /\ SignalRow(kind, i, next).item = Feeds[kind][i].id
  BY DEF SignalRows, SignalRow
<1> HIDE DEF after, new
<1>9. ASSUME NEW s \in signals', s.corr = <<kind, k>>
      PROVE  \E i \in DOMAIN Feeds[kind] : s.item = Feeds[kind][i].id /\ CursorOf(kind, i) < after
  <2>1. CASE s \in signals
    BY <1>3, <1>9, <2>1 DEF Passed
  <2>2. CASE s \in new
    BY <1>3, <1>4, <1>5, <2>2
  <2> QED
    BY <2>1, <2>2 DEF new
<1>10. \A page \in Nat : Reported(<<kind, k>>, page)' => page < after
  BY <1>2, <1>6 DEF Passed
<1>11. ASSUME NEW i \in DOMAIN Feeds[kind], CursorOf(kind, i) < after, Kept(kind, Feeds[kind][i])
       PROVE  Cardinality(RowsOf(kind, k, i)')
                = IF Reported(<<kind, k>>, CursorOf(kind, i))' THEN 0 ELSE 1
  <2>0. Reported(<<kind, k>>, CursorOf(kind, i))' <=> Reported(<<kind, k>>, CursorOf(kind, i))
    BY <1>3, <1>6
  <2>1. CASE CursorOf(kind, i) < next
    <3>1. i \notin PageItems(kind, next)
      BY <1>2, <1>3, <2>1
    <3>2. \A s \in new : s.item # Feeds[kind][i].id
      BY <1>4, <1>5, <1>7, <3>1
    <3>3. RowsOf(kind, k, i)' = RowsOf(kind, k, i)
      BY <3>2 DEF RowsOf, new
    <3>4. Cardinality(RowsOf(kind, k, i)) = IF Reported(<<kind, k>>, CursorOf(kind, i)) THEN 0 ELSE 1
      BY <1>11, <2>1 DEF Passed
    <3> QED
      BY <2>0, <3>3, <3>4
  <2>2. CASE CursorOf(kind, i) = next
    <3>1. i \in PageItems(kind, next)
      BY <1>3, <2>2
    <3>2. ~(next < next)
      BY <1>2
    <3>3. \A s \in signals : s.corr = <<kind, k>> => s.item # Feeds[kind][i].id
      BY <1>7, <2>2, <3>2 DEF Passed
    <3> PICK row : row = SignalRow(kind, i, next)
      OBVIOUS
    <3>4. row \in new /\ row.item = Feeds[kind][i].id /\ row.corr = <<kind, k>>
      BY <1>4, <1>8, <1>11, <3>1
    <3>5. \A s \in new : s.item = Feeds[kind][i].id => s = row
      BY <1>4, <1>5, <1>7
    <3>6. RowsOf(kind, k, i)' = {row}
      BY <3>3, <3>4, <3>5 DEF RowsOf, new
    <3>7. ~Reported(<<kind, k>>, CursorOf(kind, i))
      BY <1>2, <2>2, <3>2 DEF Passed
    <3>8. Cardinality({row}) = 1
      BY FS_Singleton
    <3> QED
      BY <2>0, <3>6, <3>7, <3>8
  <2> QED
    BY <1>3, <1>11, <2>1, <2>2
<1>12. \E q \in Nat : after = PageCursor(kind, q)
  BY <1>2
<1>13. Passed(kind, k, after)'
  <2>1. \A s \in signals' : s.corr = <<kind, k>> =>
          \E i \in DOMAIN Feeds[kind] : s.item = Feeds[kind][i].id /\ CursorOf(kind, i) < after
    BY <1>9
  <2>2. \A i \in DOMAIN Feeds[kind] :
          CursorOf(kind, i) < after /\ Kept(kind, Feeds[kind][i]) =>
            Cardinality(RowsOf(kind, k, i)') = IF Reported(<<kind, k>>, CursorOf(kind, i))' THEN 0 ELSE 1
    BY <1>11
  <2> QED
    BY <1>10, <1>12, <2>1, <2>2 DEF Passed
<1> QED
  BY <1>13 DEF after

\* A page that drifted is skipped: it is reported, and has no row.
LEMMA PassedDrift ==
  ASSUME NEW kind \in Kinds, NEW k \in Nat, NEW next, Passed(kind, k, next),
         NEW d, d.corr = <<kind, k>>, d.page = next,
         outbox \in Seq(OutboxRows), d \in OutboxRows, outbox' = Append(outbox, d),
         UNCHANGED signals
  PROVE  Passed(kind, k, CursorAfter(kind, next))'
<1> DEFINE after == CursorAfter(kind, next)
<1>1. PICK p \in Nat : next = PageCursor(kind, p)
  BY DEF Passed
<1>0. PageAt(kind, next, after)
  BY <1>1, NextPage
<1>2. /\ next \in Nat
      /\ \E q \in Nat : after = PageCursor(kind, q)
      /\ \A page \in Nat : page < next \/ page = next => page < after
  BY <1>0 DEF PageAt
<1>3. \A i \in DOMAIN Feeds[kind] :
        /\ CursorOf(kind, i) \in Nat
        /\ i \in PageItems(kind, next) <=> CursorOf(kind, i) = next
        /\ CursorOf(kind, i) < after <=> CursorOf(kind, i) < next \/ CursorOf(kind, i) = next
  BY <1>0 DEF PageAt
<1> HIDE DEF after
<1>4. \A page \in Nat : Reported(<<kind, k>>, page)' <=> Reported(<<kind, k>>, page) \/ page = next
  <2>1. /\ \A n \in DOMAIN outbox : n \in DOMAIN outbox' /\ outbox'[n] = outbox[n]
        /\ \A n \in DOMAIN outbox' : (n \in DOMAIN outbox /\ outbox'[n] = outbox[n]) \/ outbox'[n] = d
        /\ \E n \in DOMAIN outbox' : outbox'[n] = d
    <3>1. Len(outbox) \in Nat /\ DOMAIN outbox = 1..Len(outbox)
      BY LenProperties
    <3>2. DOMAIN outbox' = 1..Len(outbox) + 1 /\ outbox'[Len(outbox) + 1] = d
          /\ \A n \in 1..Len(outbox) : outbox'[n] = outbox[n]
      BY <3>1
    <3> QED
      BY <3>1, <3>2
  <2> QED
    BY <2>1 DEF Reported
<1>5. \A s \in signals' : s.corr = <<kind, k>> =>
        \E i \in DOMAIN Feeds[kind] : s.item = Feeds[kind][i].id /\ CursorOf(kind, i) < after
  BY <1>3 DEF Passed
<1>6. \A page \in Nat : Reported(<<kind, k>>, page)' => page < after
  BY <1>2, <1>4 DEF Passed
<1>7. ASSUME NEW i \in DOMAIN Feeds[kind], CursorOf(kind, i) < after, Kept(kind, Feeds[kind][i])
      PROVE  Cardinality(RowsOf(kind, k, i)')
               = IF Reported(<<kind, k>>, CursorOf(kind, i))' THEN 0 ELSE 1
  <2>0. RowsOf(kind, k, i)' = RowsOf(kind, k, i)
    BY DEF RowsOf
  <2>1. CASE CursorOf(kind, i) < next
    <3>1. CursorOf(kind, i) # next
      BY <1>2, <2>1
    <3>2. Reported(<<kind, k>>, CursorOf(kind, i))' <=> Reported(<<kind, k>>, CursorOf(kind, i))
      BY <1>3, <1>4, <3>1
    <3>3. Cardinality(RowsOf(kind, k, i)) = IF Reported(<<kind, k>>, CursorOf(kind, i)) THEN 0 ELSE 1
      BY <1>7, <2>1 DEF Passed
    <3> QED
      BY <2>0, <3>2, <3>3
  <2>2. CASE CursorOf(kind, i) = next
    <3>1. ~(next < next)
      BY <1>2
    <3>2. \A j \in DOMAIN Feeds[kind] : Feeds[kind][i].id = Feeds[kind][j].id => i = j
      BY CollectorsAssumption
    <3>3. \A s \in signals : s.corr = <<kind, k>> => s.item # Feeds[kind][i].id
      BY <2>2, <3>1, <3>2 DEF Passed
    <3>4. RowsOf(kind, k, i) = {}
      BY <3>3 DEF RowsOf
    <3>5. Reported(<<kind, k>>, CursorOf(kind, i))'
      BY <1>2, <1>4, <2>2
    <3>6. Cardinality({}) = 0
      BY FS_EmptySet
    <3> QED
      BY <2>0, <3>4, <3>5, <3>6
  <2> QED
    BY <1>3, <1>7, <2>1, <2>2
<1>8. Passed(kind, k, after)'
  BY <1>2, <1>5, <1>6, <1>7 DEF Passed
<1> QED
  BY <1>8 DEF after

\* Passed of the next state's collector.
LEMMA CollectorPassed ==
  ASSUME NEW c, c = collector', Passed(c.kind, c.k, c.next)'
  PROVE  Passed(collector.kind, collector.k, collector.next)'
BY DEF Passed, Reported, RowsOf

\* Where the jobs stand, after a step that leaves them alone.
LEMMA CollectInvStays ==
  ASSUME CollectTypeOK, CollectInv, HeldByWatch', SameReports, UNCHANGED signals,
         UNCHANGED collector \/ CollectStops
  PROVE  CollectInv'
<1>t. collector.kind \in Kinds /\ collector.k \in Nat
  BY DEF CollectTypeOK
<1>0. /\ collector'.kind = collector.kind /\ collector'.k = collector.k
      /\ collector'.next = collector.next /\ (collector'.at = "done" => collector.at = "done")
      /\ collector'.k = 0 => collector'.at = "none"
  BY DEF CollectStops, CollectInv
<1>1. LaterJobsFresh'
  <2>1. \A kind \in Kinds, k \in Nat, page \in Nat :
          Reported(<<kind, k>>, page)' => k <= collector'.k
    BY <1>0 DEF CollectInv, LaterJobsFresh, SameReports
  <2> QED
    BY <1>0, <2>1 DEF CollectInv, LaterJobsFresh
<1>2. CASE collector.k > 0
  <2>1. PICK kind, k, next : kind = collector.kind /\ k = collector.k /\ next = collector.next
    OBVIOUS
  <2>2. Passed(kind, k, next)'
    BY <1>t, <1>2, <2>1, PassedStays DEF CollectInv
  <2>3. collector.at = "done" => Covered(kind, next)
    BY <1>2, <2>1 DEF CollectInv
  <2>4. kind = collector'.kind /\ k = collector'.k /\ next = collector'.next
    BY <1>0, <2>1
  <2>5. PICK c : c = collector'
    OBVIOUS
  <2>6. Passed(c.kind, c.k, c.next)' /\ (c.at = "done" => Covered(c.kind, c.next))
    BY <1>0, <2>2, <2>3, <2>4, <2>5
  <2>7. Passed(collector.kind, collector.k, collector.next)'
    BY <2>5, <2>6, CollectorPassed
  <2>8. collector'.at = "done" => Covered(collector.kind, collector.next)'
    BY <2>5, <2>6 DEF Covered
  <2> QED
    BY <1>0, <1>1, <2>7, <2>8 DEF CollectInv
<1>3. CASE ~(collector.k > 0)
  BY <1>0, <1>1, <1>3 DEF CollectInv
<1> QED
  BY <1>2, <1>3

\* A page is over: the job goes on behind it, or is done.
LEMMA CheckpointPasses ==
  ASSUME CollectTypeOK, HeldByWatch', LaterJobsFresh', collector.k > 0, NEW shape,
         CollectCheckpoint(shape),
         NEW kind, NEW k, NEW next,
         kind = collector.kind, k = collector.k, next = collector.next,
         Passed(kind, k, next), Passed(kind, k, CursorAfter(kind, next))'
  PROVE  CollectInv'
<1>1. PICK c : c = collector'
  OBVIOUS
<1>2. /\ c.kind = kind /\ c.k = k /\ c.next = CursorAfter(kind, next)
      /\ c.at = "done" => CollectDone(kind, next, shape)
  BY <1>1 DEF CollectCheckpoint
<1>3. PICK p \in Nat : next = PageCursor(kind, p)
  BY DEF Passed
<1>4. ASSUME c.at = "done" PROVE Covered(c.kind, c.next)
  <2>1. kind \in Kinds /\ CollectDone(kind, next, shape)
    BY <1>2, <1>4 DEF CollectTypeOK
  <2>2. \A i \in DOMAIN Feeds[kind] : CursorOf(kind, i) < CursorAfter(kind, next)
    BY <1>3, <2>1, DoneCovers
  <2> QED
    BY <1>2, <2>2 DEF Covered
<1>5. Passed(c.kind, c.k, c.next)'
  BY <1>2
<1>6. Passed(collector.kind, collector.k, collector.next)'
  BY <1>1, <1>5, CollectorPassed
<1>7. collector'.at = "done" => Covered(collector.kind, collector.next)'
  BY <1>1, <1>4 DEF Covered
<1>8. collector'.k # 0
  BY <1>1, <1>2 DEF CollectTypeOK
<1> QED
  BY <1>6, <1>7, <1>8 DEF CollectInv

LEMMA StartCollectKeeps ==
  ASSUME CollectTypeOK, CollectInv, HeldByWatch', NEW kind \in Kinds, StartCollect(kind)
  PROVE  CollectInv'
<1>1. PICK c : c = collector'
  OBVIOUS
<1>2. /\ c.kind = kind /\ c.k = collector.k + 1 /\ c.at = "running"
      /\ c.next = IF kind = "worldbank" THEN 0 ELSE 1
      /\ UNCHANGED <<signals, outbox>>
  BY <1>1 DEF StartCollect, vars, drift
<1>3. collector.k \in Nat /\ c.k \in Nat /\ c.k > collector.k
  BY <1>2 DEF CollectTypeOK
<1>4. c.next = PageCursor(kind, 0)
  BY <1>2, CollectorsAssumption DEF PageCursor
<1>5. \A s \in signals : s.corr # <<kind, c.k>>
  BY <1>3 DEF CollectInv, LaterJobsFresh
<1>6. \A page \in Nat : ~Reported(<<kind, c.k>>, page)
  BY <1>3 DEF CollectInv, LaterJobsFresh
<1>7. Passed(kind, c.k, PageCursor(kind, 0))'
  BY <1>2, <1>3, <1>5, <1>6, PassedNothing
<1>8. Passed(c.kind, c.k, c.next)'
  BY <1>2, <1>4, <1>7
<1>9. Passed(collector.kind, collector.k, collector.next)'
  BY <1>1, <1>8, CollectorPassed
<1>10. LaterJobsFresh'
  <2>1. \A s \in signals : \A j \in Kinds, k \in Nat : s.corr = <<j, k>> => k <= c.k
    BY <1>3 DEF CollectInv, LaterJobsFresh
  <2>2. \A j \in Kinds, k \in Nat, page \in Nat : Reported(<<j, k>>, page)' => k <= c.k
    <3>1. \A j \in Kinds, k \in Nat, page \in Nat : Reported(<<j, k>>, page) => k <= c.k
      BY <1>3 DEF CollectInv, LaterJobsFresh
    <3> QED
      BY <1>2, <3>1 DEF Reported
  <2> QED
    BY <1>1, <1>2, <2>1, <2>2 DEF LaterJobsFresh
<1>11. collector'.at # "done" /\ collector'.k # 0
  BY <1>1, <1>2, <1>3
<1> QED
  BY <1>9, <1>10, <1>11 DEF CollectInv

LEMMA CollectPageKeeps ==
  ASSUME CollectTypeOK, CollectInv, HeldByWatch', NEW shape, NEW item, CollectPage(shape, item)
  PROVE  CollectInv'
<1>1. PICK kind, k, next : kind = collector.kind /\ k = collector.k /\ next = collector.next
  OBVIOUS
<1>2. kind \in Kinds /\ k \in Nat /\ k > 0
  BY <1>1 DEF CollectTypeOK, CollectInv, CollectPage, Fetched
<1>3. Passed(kind, k, next)
  BY <1>1, <1>2 DEF CollectInv
<1>4. /\ signals' = signals \cup SignalRows(kind, next) /\ UNCHANGED outbox
      /\ CollectCheckpoint(shape)
  BY <1>1 DEF CollectPage, vars, drift
<1>5. Passed(kind, k, CursorAfter(kind, next))'
  BY <1>1, <1>2, <1>3, <1>4, PassedPage
<1>6. LaterJobsFresh'
  <2>1. collector'.k = collector.k
    BY <1>4 DEF CollectCheckpoint
  <2>2. ASSUME NEW s \in signals', NEW j \in Kinds, NEW n \in Nat, s.corr = <<j, n>>
        PROVE  n <= collector.k
    <3>1. CASE s \in signals
      BY <2>2, <3>1 DEF CollectInv, LaterJobsFresh
    <3>2. CASE s \in SignalRows(kind, next)
      <4>1. s.corr = <<kind, k>>
        BY <1>1, <1>2, <3>2, RowsStored
      <4>2. n = k
        BY <2>2, <4>1
      <4> QED
        BY <1>1, <1>2, <4>2
    <3> QED
      BY <1>4, <3>1, <3>2
  <2>3. \A j \in Kinds, n \in Nat, page \in Nat : Reported(<<j, n>>, page)' => n <= collector.k
    <3>1. \A j \in Kinds, n \in Nat, page \in Nat : Reported(<<j, n>>, page) => n <= collector.k
      BY DEF CollectInv, LaterJobsFresh
    <3> QED
      BY <1>4, <3>1 DEF Reported
  <2> QED
    BY <2>1, <2>2, <2>3 DEF LaterJobsFresh
<1> QED
  BY <1>1, <1>2, <1>3, <1>4, <1>5, <1>6, CheckpointPasses

LEMMA CollectDriftKeeps ==
  ASSUME CollectTypeOK, CollectInv, HeldByWatch', NEW shape, NEW item, CollectDriftedPage(shape, item)
  PROVE  CollectInv'
<1>1. PICK kind, k, next : kind = collector.kind /\ k = collector.k /\ next = collector.next
  OBVIOUS
<1>2. kind \in Kinds /\ k \in Nat /\ k > 0
  BY <1>1 DEF CollectTypeOK, CollectInv, CollectDriftedPage, Fetched
<1>3. Passed(kind, k, next)
  BY <1>1, <1>2 DEF CollectInv
<1>4. PICK name : name = ContractName(collector.kind, PageDrift(collector.kind, shape, item))
  OBVIOUS
<1>5. PICK d : d = DriftEvent(CollectCorr, name, collector.next)
  OBVIOUS
<1>6. d.corr = <<kind, k>> /\ d.page = next
  BY <1>1, <1>5 DEF DriftEvent, OutboxRow, CollectCorr
<1>7. TypeOK /\ outbox \in Seq(OutboxRows)
  BY DEF CollectTypeOK, TypeOK
<1>8. d \in OutboxRows
  BY <1>4, <1>5, <1>7, CollectedDrift, DriftEventType
<1>9. outbox' = Append(outbox, d) /\ UNCHANGED signals /\ CollectCheckpoint(shape)
  BY <1>4, <1>5 DEF CollectDriftedPage
<1>10. Passed(kind, k, CursorAfter(kind, next))'
  BY <1>2, <1>3, <1>6, <1>7, <1>8, <1>9, PassedDrift
<1>11. LaterJobsFresh'
  <2>1. collector'.k = collector.k
    BY <1>9 DEF CollectCheckpoint
  <2>2. \A n \in DOMAIN outbox' : (n \in DOMAIN outbox /\ outbox'[n] = outbox[n]) \/ outbox'[n] = d
    BY <1>7, <1>8, <1>9
  <2>3. ASSUME NEW j \in Kinds, NEW n \in Nat, NEW page \in Nat, Reported(<<j, n>>, page)'
        PROVE  n <= collector.k
    <3>1. CASE Reported(<<j, n>>, page)
      BY <3>1 DEF CollectInv, LaterJobsFresh
    <3>2. CASE d.corr = <<j, n>>
      <4>1. n = k
        BY <1>6, <3>2
      <4> QED
        BY <1>1, <1>2, <4>1
    <3> QED
      BY <2>2, <2>3, <3>1, <3>2 DEF Reported
  <2>4. \A s \in signals' : \A j \in Kinds, n \in Nat : s.corr = <<j, n>> => n <= collector.k
    BY <1>9 DEF CollectInv, LaterJobsFresh
  <2> QED
    BY <2>1, <2>3, <2>4 DEF LaterJobsFresh
<1> QED
  BY <1>1, <1>2, <1>3, <1>9, <1>10, <1>11, CheckpointPasses

LEMMA CollectInvStep == CollectTypeOK /\ CollectInv /\ [CollectNext]_allVars => CollectInv'
<1> SUFFICES ASSUME CollectTypeOK, CollectInv, [CollectNext]_allVars PROVE CollectInv'
  OBVIOUS
<1>1. HeldByWatch /\ HeldByWatch' /\ RowsKept
  BY HeldByWatchStep, OutboxKeeps DEF CollectInv
<1>2. CASE Next /\ UNCHANGED cvars
  BY <1>1, <1>2, OutsideReports, CollectInvStays DEF cvars
<1>3. CASE CollectStops \/ UNCHANGED allVars
  <2>1. UNCHANGED <<signals, outbox>> /\ (UNCHANGED collector \/ CollectStops)
    BY <1>3 DEF CollectStops, allVars, vars, cvars, drift
  <2>2. SameReports
    BY <2>1 DEF SameReports, Reported
  <2> QED
    BY <1>1, <2>1, <2>2, CollectInvStays
<1>4. ASSUME NEW kind \in Kinds, StartCollect(kind) PROVE CollectInv'
  BY <1>1, <1>4, StartCollectKeeps
<1>5. ASSUME NEW shape, NEW item, CollectPage(shape, item) PROVE CollectInv'
  BY <1>1, <1>5, CollectPageKeeps
<1>6. ASSUME NEW shape, NEW item, CollectDriftedPage(shape, item) PROVE CollectInv'
  BY <1>1, <1>6, CollectDriftKeeps
<1> QED
  BY <1>2, <1>3, <1>4, <1>5, <1>6 DEF CollectNext, CollectorStep

LEMMA CollectInvInit == CollectInit => CollectInv
<1> SUFFICES ASSUME CollectInit PROVE CollectInv
  OBVIOUS
<1>1. outbox = << >> /\ signals = {} /\ collector.k = 0 /\ collector.at = "none"
  BY DEF CollectInit, Init
<1>2. \A w \in Workers : wk[w] = Idle
  BY DEF CollectInit, Init
<1>3. HeldByWatch
  BY <1>2 DEF HeldByWatch, FromWatch, Idle, Start, Memo
<1>4. LaterJobsFresh
  BY <1>1 DEF LaterJobsFresh, Reported
<1> QED
  BY <1>1, <1>3, <1>4 DEF CollectInv

\* For sources of any length, pages of any size and any number of jobs, a
\* collector passes no item that it keeps unless it stored it, once, or
\* reported its page, and says that it is done only behind the last item
\* (process_worldbank_pipeline_page, process_design_tender_page,
\* process_procurement_plan_page).
THEOREM CollectorsPassNothing == CollectSpec => []CollectedOrReported
<1>1. CollectSpec => []CollectTypeOK
  BY TenderTypeCorrect
<1>2. CollectSpec => []CollectInv
  BY <1>1, CollectInvInit, CollectInvStep, PTL DEF CollectSpec
<1> QED
  BY <1>1, <1>2, CollectInvSays, PTL
=============================================================================
