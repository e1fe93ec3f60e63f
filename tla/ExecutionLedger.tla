-------------------------- MODULE ExecutionLedger --------------------------
(***************************************************************************)
(* What happens to a tender after the bid: napkin captures of the site and *)
(* the execution facts read from them, the reputation events they feed to  *)
(* the vendor service, the closing of the project, its outcome and loss    *)
(* reasons, and the links from forecast snapshots to tenders               *)
(* (routers/execution_ledger.py, routers/calibration.py and their stores). *)
(*                                                                         *)
(* A request is one READ COMMITTED transaction that becomes visible at its *)
(* end, except where the code opens a transaction of its own (evidence,    *)
(* unreadable captures) or calls the vendor service.  The correlation id   *)
(* of a request is the client's X-Correlation-Id when there is one, so two *)
(* captures may carry the same.                                            *)
(***************************************************************************)
EXTENDS Integers, Sequences, FiniteSets, FiniteSetsExt

CONSTANTS
  Tenders, Vendors,
  NoVendor,           \* culprit_vendor_id NULL
  Readings,           \* what OCR may read: sequences of observations
  Requests,           \* requests that may be in flight at the same time
  CorrIds,            \* correlation ids a request may be bound to
  MaxEvidence, MaxReasons, MaxSnapshots   \* bounds on the rows

Categories == {"preliminaries", "downtime", "rework", "last_mile"}
Culprits   == {"vendor", "customer", "internal", "external"}
Outcomes   == {"won", "lost", "cancelled"}

\* One observation of a capture, valid for ExecutionFact: only a vendor
\* culprit has a name.  Any other is an unreadable capture.
Observations ==
  {o \in [category : Categories \cup {"none"}, culprit : Culprits, name : Vendors \cup {NoVendor}] :
     (o.culprit = "vendor") = (o.name # NoVendor)}

ASSUME LedgerAssumption ==
  /\ NoVendor \notin Vendors
  /\ Readings \subseteq Seq(Observations)
  /\ IsFiniteSet(Requests)
  /\ MaxEvidence \in Nat /\ MaxReasons \in Nat /\ MaxSnapshots \in Nat

VARIABLES
  decided,    \* get_latest_decision_type of a tender (module Decisions)
  locked,     \* vendors of the tender's lock-in requirements
  evidence,   \* execution_napkin_evidence
  facts,      \* execution_facts
  queue,      \* exception_queue rows of source execution-ledger
  reports,    \* reputation facts the vendor service has stored
  refused,    \* captures answered with 422 napkin_unrecognized
  contributions,   \* overhead_buffer_contributions
  outcomes, reasons,   \* tender_outcomes, tender_loss_reasons
  snapshots, links,    \* forecast_card_snapshots, forecast_card_tender_links
  req

project == <<decided, locked>>
ledger  == <<evidence, facts, queue, reports, refused>>
calib   == <<outcomes, reasons, snapshots, links>>
vars    == <<project, ledger, contributions, calib, req>>

\* A request, by its next statement and what its transaction holds.
Memo(at, t, corr, doc, ttl, drafts, held, asked, counts) ==
  [at |-> at, tender |-> t, corr |-> corr, doc |-> doc, ttl |-> ttl, drafts |-> drafts,
   held |-> held, asked |-> asked, counts |-> counts]

\* Only a capture writes its correlation id to a table of this module.
NoCorr       == CHOOSE c \in CorrIds : TRUE
Start(at, t) == Memo(at, t, NoCorr, 0, FALSE, << >>, {}, {}, {})
Idle         == Start("idle", CHOOSE t \in Tenders : TRUE)

Init ==
  /\ decided = [t \in Tenders |-> "none"] /\ locked = [t \in Tenders |-> {}]
  /\ evidence = {} /\ facts = {} /\ queue = {} /\ reports = {} /\ refused = {}
  /\ contributions = {}
  /\ outcomes = {} /\ reasons = {} /\ snapshots = 0 /\ links = {}
  /\ req = [r \in Requests |-> Idle]

Go(r, rec) == req' = [req EXCEPT ![r] = rec]
End(r)     == Go(r, Idle)

\* An error, a lost connection or a crash: the request's transaction is gone.
Rollback(r) ==
  /\ req[r].at # "idle"
  /\ End(r)
  /\ UNCHANGED <<project, ledger, contributions, calib>>

\* create_decision of module Decisions, with the lock-ins of a bid.
Decide(t, type, vs) ==
  /\ decided' = [decided EXCEPT ![t] = type]
  /\ locked' = [locked EXCEPT ![t] = IF type = "bid" THEN @ \cup vs ELSE @]
  /\ UNCHANGED <<ledger, contributions, calib, req>>

\* _require_active_bid_decision: 409 unless the latest decision is a bid.
RequireActiveBidDecision(t) == decided[t] \in {"bid", "conditional_bid"}

-----------------------------------------------------------------------------
(* submit_napkin_capture. *)

\* CorrelationIdMiddleware has bound the request to corr: the client's header,
\* or an id of its own.
BeginNapkin(r, t, corr, ttl) ==
  /\ req[r].at = "idle" /\ RequireActiveBidDecision(t)
  /\ Cardinality(evidence) < MaxEvidence
  /\ Go(r, Memo("save", t, corr, 0, ttl, << >>, {}, {}, {}))
  /\ UNCHANGED <<project, ledger, contributions, calib>>

EvidenceRow(id, t, kind, corr) == [id |-> id, tender |-> t, kind |-> kind, corr |-> corr]

\* The evidence is committed in a transaction of its own; a voice capture
\* is not read and ends here.
SaveEvidence(r, kind) ==
  LET id == Cardinality(evidence) + 1 IN
  /\ req[r].at = "save" /\ id <= MaxEvidence
  /\ evidence' = evidence \cup {EvidenceRow(id, req[r].tender, kind, req[r].corr)}
  /\ IF kind = "voice" THEN End(r)
     ELSE Go(r, Memo("ocr", req[r].tender, req[r].corr, id, req[r].ttl, << >>, {}, {}, {}))
  /\ UNCHANGED <<project, facts, queue, reports, refused, contributions, calib>>

\* resolve_vendor_reference: a name that is no lock-in's gives no id.
ResolveVendor(t, o) == IF o.name \in locked[t] THEN o.name ELSE NoVendor

\* The i-th fact of a capture, as store_execution_fact inserts it.
FactRow(doc, i, t, o) ==
  [doc |-> doc, index |-> i, tender |-> t, category |-> o.category, culprit |-> o.culprit,
   vendor |-> ResolveVendor(t, o)]

\* ExecutionNapkinProvider.generate, from the OCR text to the drafts.
Recognise(r, reading) ==
  LET m == req[r]
      drafts == [i \in DOMAIN reading |-> FactRow(m.doc, i, m.tender, reading[i])]
  IN
  /\ m.at = "ocr"
  /\ Go(r, Memo("facts", m.tender, m.corr, m.doc, m.ttl, drafts, {}, {}, {}))
  /\ UNCHANGED <<project, ledger, contributions, calib>>

\* A form that leaves the exception in the transaction the 422 rolls back.
Unreadable_Shared(r) ==
  /\ req[r].at = "ocr"
  /\ refused' = refused \cup {req[r].doc}
  /\ End(r)
  /\ UNCHANGED <<project, evidence, facts, queue, reports, contributions, calib>>

\* enqueue_exception: get or create by type and correlation id, among the rows
\* the transaction sees.  A row of the ledger is open for good.  What it is
\* about is in its text only.
Enqueued(pending, type, corr, about) ==
  IF \E x \in queue \cup pending : x.type = type /\ x.corr = corr
  THEN pending
  ELSE pending \cup {[type |-> type, corr |-> corr, about |-> about]}

\* ExecutionNapkinParseError or OcrEngineError: the exception is committed in
\* a transaction of its own, and the client gets 422.
Unreadable(r) ==
  /\ req[r].at = "ocr"
  /\ queue' = queue \cup Enqueued({}, "napkin_unrecognized", <<req[r].corr, 0>>, <<req[r].doc, 0>>)
  /\ refused' = refused \cup {req[r].doc}
  /\ End(r)
  /\ UNCHANGED <<project, evidence, facts, reports, contributions, calib>>

\* map_to_reputation_event_type
EventType(f) ==
  CASE f.culprit # "vendor"                    -> "none"
    [] f.category \in {"downtime", "last_mile"} -> "missed_deadline"
    [] f.category = "rework"                   -> "quality_complaint"
    [] OTHER                                   -> "none"

\* A form with the correlation id of the request for every fact.
FactCorrelation_Request(corr, f) == <<corr, 0>>

\* f"{correlation_id}:{fact_index}"
FactCorrelation(corr, f) == <<corr, f.index>>

\* What the vendor service stores of a fact.
ReputationFact(f) == [doc |-> f.doc, index |-> f.index, vendor |-> f.vendor, event |-> EventType(f)]

\* The loop over the drafts: a fact is stored, and its reputation event goes
\* to a human, or to the vendor service at once.  A call that fails may
\* have been carried out there.
HandleFact(r) ==
  LET m == req[r]
      f == Head(m.drafts)
      Keep(asked) == Go(r, Memo("facts", m.tender, m.corr, m.doc, m.ttl, Tail(m.drafts),
                                m.held \cup {f}, asked, {}))
      Ask(type)   == Keep(Enqueued(m.asked, type, FactCorrelation(m.corr, f), <<f.doc, f.index>>))
  IN
  /\ req[r].at = "facts" /\ req[r].drafts # << >>
  /\ \/ /\ EventType(f) = "none"
        /\ Keep(req[r].asked) /\ UNCHANGED reports
     \/ /\ EventType(f) # "none" /\ f.vendor = NoVendor
        /\ Ask("vendor_reputation_unresolved_vendor")
        /\ UNCHANGED reports
     \/ /\ EventType(f) # "none" /\ f.vendor # NoVendor /\ ~req[r].ttl
        /\ Ask("vendor_reputation_ttl_missing")
        /\ UNCHANGED reports
     \/ /\ EventType(f) # "none" /\ f.vendor # NoVendor /\ req[r].ttl
        /\ \/ Keep(req[r].asked) /\ reports' = reports \cup {ReputationFact(f)}
           \/ /\ Ask("vendor_reputation_feed_failed")
              /\ reports' \in {reports, reports \cup {ReputationFact(f)}}
  /\ UNCHANGED <<project, evidence, facts, queue, refused, contributions, calib>>

\* The audit row, the commit and the 201.
CommitNapkin(r) ==
  /\ req[r].at = "facts" /\ req[r].drafts = << >>
  /\ facts' = facts \cup req[r].held
  /\ queue' = queue \cup req[r].asked
  /\ End(r)
  /\ UNCHANGED <<project, evidence, reports, refused, contributions, calib>>

-----------------------------------------------------------------------------
(* close_project. *)

BeginClose(r, t) ==
  /\ req[r].at = "idle" /\ RequireActiveBidDecision(t)
  /\ Go(r, Start("probe", t))
  /\ UNCHANGED <<project, ledger, contributions, calib>>

ContributionsOf(t) == {c \in contributions : c.tender = t}

\* A form that does not look for an earlier close.
ProbeClosed_Never(r) ==
  /\ req[r].at = "probe"
  /\ Go(r, Start("count", req[r].tender))
  /\ UNCHANGED <<project, ledger, contributions, calib>>

\* SELECT 1 FROM overhead_buffer_contributions; 409 when there is a row.
ProbeClosed(r) ==
  /\ req[r].at = "probe"
  /\ IF ContributionsOf(req[r].tender) = {} THEN Go(r, Start("count", req[r].tender)) ELSE End(r)
  /\ UNCHANGED <<project, ledger, contributions, calib>>

\* summarize_deviation_category_counts: facts without a category are left out.
Categorised(t, cat) == {f \in facts : f.tender = t /\ f.category = cat}

CategoryCounts(t) ==
  {[category |-> cat, count |-> Cardinality(Categorised(t, cat))] :
     cat \in {x \in Categories : Categorised(t, x) # {}}}

CountFacts(r) ==
  /\ req[r].at = "count"
  /\ Go(r, Memo("contribute", req[r].tender, NoCorr, 0, FALSE, << >>, {}, {},
                CategoryCounts(req[r].tender)))
  /\ UNCHANGED <<project, ledger, contributions, calib>>

ContributionRow(n, t, c) ==
  [close |-> n, tender |-> t, category |-> c.category, count |-> c.count]

\* One contribution per category, and the commit.
CommitClose(r) ==
  /\ req[r].at = "contribute"
  /\ contributions' = contributions \cup
       {ContributionRow(Cardinality(contributions), req[r].tender, c) : c \in req[r].counts}
  /\ End(r)
  /\ UNCHANGED <<project, ledger, calib>>

-----------------------------------------------------------------------------
(* Outcomes, loss reasons, forecast snapshots and their links. *)

OutcomeOf(t) == {o \in outcomes : o.tender = t}

\* post_outcome up to its SELECT: 409 when there is an outcome.
LoadOutcome(r, t) ==
  /\ req[r].at = "idle" /\ RequireActiveBidDecision(t) /\ OutcomeOf(t) = {}
  /\ Go(r, Start("outcome", t))
  /\ UNCHANGED <<project, ledger, contributions, calib>>

OutcomeRow(t, value) == [tender |-> t, outcome |-> value]

\* A form without tender_outcomes_tender_uniq.
StoreOutcome_NoIndex(r, value) ==
  /\ req[r].at = "outcome"
  /\ outcomes' = outcomes \cup {OutcomeRow(req[r].tender, value)}
  /\ End(r)
  /\ UNCHANGED <<project, ledger, contributions, reasons, snapshots, links>>

\* The INSERT and the commit, under the unique index on tender_id.
StoreOutcome(r, value) ==
  /\ req[r].at = "outcome" /\ OutcomeOf(req[r].tender) = {}
  /\ outcomes' = outcomes \cup {OutcomeRow(req[r].tender, value)}
  /\ End(r)
  /\ UNCHANGED <<project, ledger, contributions, reasons, snapshots, links>>

LossReasonRow(id, t) == [id |-> id, tender |-> t]

\* post_loss_reason: only for an outcome that is lost, which never changes.
PostLossReason(t) ==
  /\ Cardinality(reasons) < MaxReasons
  /\ \E o \in OutcomeOf(t) : o.outcome = "lost"
  /\ reasons' = reasons \cup {LossReasonRow(Cardinality(reasons) + 1, t)}
  /\ UNCHANGED <<project, ledger, contributions, outcomes, snapshots, links, req>>

\* post_forecast_snapshot, for a region with a composite card.
PostSnapshot ==
  /\ snapshots < MaxSnapshots
  /\ snapshots' = snapshots + 1
  /\ UNCHANGED <<project, ledger, contributions, outcomes, reasons, links, req>>

\* post_forecast_tender_link up to its SELECT of the links of the snapshot.
LoadLinks(r, s, t) ==
  /\ req[r].at = "idle" /\ s <= snapshots
  /\ ~\E l \in links : l.snapshot = s /\ l.tender = t
  /\ Go(r, Memo("link", t, NoCorr, s, FALSE, << >>, {}, {}, {}))
  /\ UNCHANGED <<project, ledger, contributions, calib>>

LinkRow(id, s, t) == [id |-> id, snapshot |-> s, tender |-> t]

\* confirm_forecast_tender_link, under UNIQUE (snapshot, tender).
ConfirmLink(r) ==
  /\ req[r].at = "link"
  /\ ~\E l \in links : l.snapshot = req[r].doc /\ l.tender = req[r].tender
  /\ links' = links \cup {LinkRow(Cardinality(links) + 1, req[r].doc, req[r].tender)}
  /\ End(r)
  /\ UNCHANGED <<project, ledger, contributions, outcomes, reasons, snapshots>>

-----------------------------------------------------------------------------
NapkinStep(r) ==
  \/ \E t \in Tenders, corr \in CorrIds, ttl \in BOOLEAN : BeginNapkin(r, t, corr, ttl)
  \/ \E kind \in {"photo", "voice"} : SaveEvidence(r, kind)
  \/ \E reading \in Readings : Recognise(r, reading)
  \/ Unreadable(r) \/ HandleFact(r) \/ CommitNapkin(r)

CloseStep(r) ==
  \/ \E t \in Tenders : BeginClose(r, t)
  \/ ProbeClosed(r) \/ CountFacts(r) \/ CommitClose(r)

CalibrationStep(r) ==
  \/ \E t \in Tenders : LoadOutcome(r, t)
  \/ \E value \in Outcomes : StoreOutcome(r, value)
  \/ \E t \in Tenders, s \in 1..MaxSnapshots : LoadLinks(r, s, t)
  \/ ConfirmLink(r)

Next ==
  \/ \E t \in Tenders, type \in {"bid", "no_bid"}, vs \in SUBSET Vendors : Decide(t, type, vs)
  \/ \E r \in Requests : NapkinStep(r) \/ CloseStep(r) \/ CalibrationStep(r) \/ Rollback(r)
  \/ \E t \in Tenders : PostLossReason(t)
  \/ PostSnapshot

Spec == Init /\ [][Next]_vars

-----------------------------------------------------------------------------
(* Properties. *)

FactType ==
  [doc : Nat, index : Nat, tender : Tenders, category : Categories \cup {"none"},
   culprit : Culprits, vendor : Vendors \cup {NoVendor}]
ExceptionTypes ==
  {"napkin_unrecognized", "vendor_reputation_unresolved_vendor", "vendor_reputation_ttl_missing",
   "vendor_reputation_feed_failed"}
ItemType == [type : ExceptionTypes, corr : CorrIds \X Nat, about : Nat \X Nat]

TypeOK ==
  /\ locked \in [Tenders -> SUBSET Vendors]
  /\ evidence \subseteq [id : Nat, tender : Tenders, kind : {"photo", "voice"}, corr : CorrIds]
  /\ facts \subseteq FactType /\ queue \subseteq ItemType
  /\ \A c \in contributions : c.tender \in Tenders /\ c.count \in Nat \ {0}
  /\ \A r \in Requests : req[r].held \subseteq FactType /\ req[r].asked \subseteq ItemType

Reported(f) == \E p \in reports : p.doc = f.doc /\ p.index = f.index

\* INV-18: whatever becomes of the request, a fact, a report to the vendor
\* service and a refusal can each be traced to a capture of the same tender
\* that is stored, and under the correlation id of a refused capture stands an
\* exception that leads a human to it.
EvidenceSurvives ==
  /\ \A f \in facts : \E e \in evidence : e.id = f.doc /\ e.tender = f.tender
  /\ \A p \in reports : \E e \in evidence : e.id = p.doc
  /\ \A d \in refused : \E e \in evidence, x \in queue :
       e.id = d /\ x.type = "napkin_unrecognized" /\ x.corr = <<e.corr, 0>>

\* Hard ban #3: every stored fact that says something about a vendor's
\* reputation has reached the vendor service, or an exception stands under
\* its own correlation id.  That exception speaks of this very fact, however
\* many facts the capture has, unless the client has sent the capture's
\* X-Correlation-Id with another capture too.
NoReputationEventLost ==
  \A f \in facts : EventType(f) # "none" =>
    \/ Reported(f)
    \/ \E e \in evidence, x \in queue :
         /\ e.id = f.doc /\ x.corr = <<e.corr, f.index>>
         /\ \/ x.about = <<f.doc, f.index>>
            \/ \E d \in evidence : d.id # e.id /\ d.corr = e.corr

\* The comment in close_project: a second close must not count a tender's
\* facts twice in the append-only contributions.
CountedOnce ==
  \A t \in Tenders, cat \in Categories :
    MapThenSumSet(LAMBDA c : c.count, {c \in ContributionsOf(t) : c.category = cat})
      <= Cardinality(Categorised(t, cat))

\* What the 409 of close_project does give: only closes that overlap count a
\* tender again, so a category has at most as many contributions as requests
\* run at the same time, and none counts a fact that is not stored.
CountedPerOverlap ==
  \A t \in Tenders, cat \in Categories :
    LET rows == {c \in ContributionsOf(t) : c.category = cat}
    IN  /\ Cardinality(rows) <= Cardinality(Requests)
        /\ \A c \in rows : c.count <= Cardinality(Categorised(t, cat))

\* post_outcome, post_loss_reason and post_forecast_tender_link: a tender has
\* one outcome, and a link is confirmed once, although two requests may both
\* have found none; reasons for a loss belong to a tender that was lost.
OneOutcome ==
  /\ \A o, p \in outcomes : o.tender = p.tender => o = p
  /\ \A x \in reasons : \E o \in OutcomeOf(x.tender) : o.outcome = "lost"
  /\ \A l, m \in links : l.snapshot = m.snapshot /\ l.tender = m.tender => l = m
=============================================================================
