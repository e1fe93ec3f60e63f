----------------------------- MODULE LedgerProofs -----------------------------
(* Evidence outlives its request, no reputation event is lost, a tender has  *)
(* one outcome, and its facts are counted once for each overlapping close,   *)
(* for any tenders, vendors, readings, correlation ids and requests.         *)
EXTENDS ExecutionLedger, SequenceTheorems, FiniteSetTheorems, TLAPS

-----------------------------------------------------------------------------
(* The invariant. *)

\* A fact comes from a capture that is stored, of the same tender.
Evident(f) == \E e \in evidence : e.id = f.doc /\ e.tender = f.tender

\* An exception stands under the correlation id of the capture it is about.
Filed(x) == \E e \in evidence : \E i : x.about = <<e.id, i>> /\ x.corr = <<e.corr, i>>

\* What a fact says of a vendor is reported, or an exception is in the set.
Answered(f, items) ==
  EventType(f) # "none" =>
    \/ Reported(f)
    \/ \E e \in evidence, x \in items :
         /\ e.id = f.doc /\ x.corr = <<e.corr, f.index>>
         /\ \/ x.about = <<f.doc, f.index>>
            \/ \E d \in evidence : d.id # e.id /\ d.corr = e.corr

\* What a request carries: its capture is stored, and its facts are of it.
Carries(m) ==
  /\ m.at \in {"ocr", "facts"} =>
       \E e \in evidence : e.id = m.doc /\ e.tender = m.tender /\ e.corr = m.corr
  /\ m.at = "facts" => \E S : /\ m.drafts \in Seq(S)
                              /\ \A f \in S : f.doc = m.doc /\ f.tender = m.tender
  /\ \A f \in m.held : Evident(f) /\ Answered(f, queue \cup m.asked)
  /\ \A x \in m.asked : Filed(x)

CaptureInv ==
  /\ DOMAIN req = Requests
  /\ EvidenceSurvives
  /\ NoReputationEventLost
  /\ \A x \in queue : Filed(x)
  /\ \A r \in Requests : Carries(req[r])

-----------------------------------------------------------------------------
(* What one step of a request has to show. *)

\* Rows are only added, so what the other requests carry stays true.
LEMMA RowsStay ==
  ASSUME evidence \subseteq evidence', reports \subseteq reports', queue \subseteq queue',
         NEW m, Carries(m)
  PROVE  Carries(m)'
<1>1. \A f : Evident(f) => Evident(f)'
  BY DEF Evident
<1>2. \A f : Answered(f, queue \cup m.asked) => Answered(f, queue \cup m.asked)'
  BY DEF Answered, Reported
<1>3. \A x : Filed(x) => Filed(x)'
  BY DEF Filed
<1>5. m.at \in {"ocr", "facts"} =>
        \E e \in evidence' : e.id = m.doc /\ e.tender = m.tender /\ e.corr = m.corr
  BY DEF Carries
<1>6. \A f \in m.held : Evident(f)' /\ Answered(f, queue \cup m.asked)'
  BY <1>1, <1>2 DEF Carries
<1>7. \A x \in m.asked : Filed(x)'
  BY <1>3 DEF Carries
<1> QED BY <1>5, <1>6, <1>7 DEF Carries

LEMMA StepOf ==
  ASSUME CaptureInv, NEW r \in Requests, NEW m, Go(r, m), Carries(m)',
         evidence \subseteq evidence', reports \subseteq reports', queue \subseteq queue',
         EvidenceSurvives', NoReputationEventLost', \A x \in queue' : Filed(x)
  PROVE  CaptureInv'
<1>1. /\ DOMAIN req' = Requests /\ req'[r] = m
      /\ \A q \in Requests \ {r} : req'[q] = req[q]
  BY DEF Go, CaptureInv
<1>3. ASSUME NEW q \in Requests PROVE Carries(req[q])'
  <2>1. CASE q = r
    BY <2>1, <1>1 DEF Carries, Evident, Answered, Reported, Filed
  <2>2. CASE q # r
    <3>1. Carries(req[q])
      BY DEF CaptureInv
    <3> DEFINE old == req[q]
    <3>2. old = req'[q]
      BY <1>1, <2>2
    <3> QED BY <3>1, <3>2, RowsStay
  <2> QED BY <2>1, <2>2
<1>4. \A x \in queue' : Filed(x)'
  BY DEF Filed
<1> QED BY <1>1, <1>3, <1>4 DEF CaptureInv

\* The tables are left alone, or only evidence is added.
LEMMA TablesKeep ==
  ASSUME CaptureInv, evidence \subseteq evidence', UNCHANGED <<facts, queue, reports, refused>>
  PROVE  EvidenceSurvives' /\ NoReputationEventLost' /\ \A x \in queue' : Filed(x)
<1>1. EvidenceSurvives'
  BY DEF CaptureInv, EvidenceSurvives
<1>2. NoReputationEventLost'
  BY DEF CaptureInv, NoReputationEventLost, Reported
<1> QED BY <1>1, <1>2 DEF CaptureInv

\* A request that ends carries nothing.
LEMMA IdleCarries == Carries(Idle)'
BY DEF Carries, Idle, Start, Memo

\* Steps that leave the captures' tables alone and read nothing new.
LEMMA OtherSteps ==
  ASSUME CaptureInv, NEW r \in Requests, NEW m, Go(r, m),
         m.at \notin {"ocr", "facts"},
         m.held = {}, m.asked = {},
         UNCHANGED ledger
  PROVE  CaptureInv'
<1>1. UNCHANGED <<evidence, facts, queue, reports, refused>>
  BY DEF ledger
<1>4. Carries(m)'
  BY DEF Carries
<1>5. EvidenceSurvives' /\ NoReputationEventLost' /\ \A x \in queue' : Filed(x)
  BY <1>1, TablesKeep
<1> QED BY <1>1, <1>4, <1>5, StepOf

LEMMA RollbackKeeps ==
  ASSUME CaptureInv, NEW r \in Requests, Rollback(r)
  PROVE  CaptureInv'
<1>1. Idle.at = "idle" /\ Idle.held = {} /\ Idle.asked = {}
  BY DEF Idle, Start, Memo
<1> QED BY <1>1, OtherSteps DEF Rollback, End

LEMMA BeginNapkinKeeps ==
  ASSUME CaptureInv, NEW r \in Requests, NEW t \in Tenders, NEW corr, NEW ttl,
         BeginNapkin(r, t, corr, ttl)
  PROVE  CaptureInv'
<1>1. PICK m : m = Memo("save", t, corr, 0, ttl, << >>, {}, {}, {})
  OBVIOUS
<1>2. m.at = "save" /\ m.held = {} /\ m.asked = {}
  BY <1>1 DEF Memo
<1>3. Go(r, m) /\ UNCHANGED ledger
  BY <1>1 DEF BeginNapkin
<1> QED BY <1>2, <1>3, OtherSteps

\* The evidence is there before anything is read from it.
LEMMA SaveEvidenceKeeps ==
  ASSUME CaptureInv, NEW r \in Requests, NEW kind, SaveEvidence(r, kind)
  PROVE  CaptureInv'
<1> DEFINE id == Cardinality(evidence) + 1
<1>1. UNCHANGED <<facts, queue, reports, refused>> /\ evidence \subseteq evidence'
  BY DEF SaveEvidence
<1>2. EvidenceSurvives' /\ NoReputationEventLost' /\ \A x \in queue' : Filed(x)
  BY <1>1, TablesKeep
<1>3. CASE kind = "voice"
  <2>1. Go(r, Idle)
    BY <1>3 DEF SaveEvidence, End
  <2> QED BY <1>1, <1>2, <2>1, IdleCarries, StepOf
<1>4. CASE kind # "voice"
  <2>1. PICK m : m = Memo("ocr", req[r].tender, req[r].corr, id, req[r].ttl, << >>, {}, {}, {})
    OBVIOUS
  <2>2. Go(r, m)
    BY <1>4, <2>1 DEF SaveEvidence
  <2>3. /\ m.at = "ocr" /\ m.doc = id /\ m.tender = req[r].tender /\ m.corr = req[r].corr
        /\ m.held = {} /\ m.asked = {}
    BY <2>1 DEF Memo
  <2>4. EvidenceRow(id, req[r].tender, kind, req[r].corr) \in evidence'
    BY DEF SaveEvidence
  <2>5. \E e \in evidence' : e.id = m.doc /\ e.tender = m.tender /\ e.corr = m.corr
    BY <2>3, <2>4 DEF EvidenceRow
  <2>6. Carries(m)'
    BY <2>3, <2>5 DEF Carries
  <2> QED BY <1>1, <1>2, <2>2, <2>6, StepOf
<1> QED BY <1>3, <1>4

LEMMA RecogniseKeeps ==
  ASSUME CaptureInv, NEW r \in Requests, NEW reading \in Readings, Recognise(r, reading)
  PROVE  CaptureInv'
<1>0. PICK drafts : drafts = [i \in DOMAIN reading |->
                                FactRow(req[r].doc, i, req[r].tender, reading[i])]
  OBVIOUS
<1>1. PICK m : m = Memo("facts", req[r].tender, req[r].corr, req[r].doc, req[r].ttl, drafts,
                        {}, {}, {})
  OBVIOUS
<1>2. UNCHANGED <<evidence, facts, queue, reports, refused>> /\ Go(r, m) /\ req[r].at = "ocr"
  BY <1>0, <1>1 DEF Recognise, ledger
<1>3. /\ m.at = "facts" /\ m.doc = req[r].doc /\ m.tender = req[r].tender
      /\ m.corr = req[r].corr /\ m.drafts = drafts /\ m.held = {} /\ m.asked = {}
  BY <1>1 DEF Memo
<1>4. PICK e \in evidence :
        e.id = req[r].doc /\ e.tender = req[r].tender /\ e.corr = req[r].corr
  BY <1>2 DEF CaptureInv, Carries
<1>5. \E S : drafts \in Seq(S) /\ \A f \in S : f.doc = m.doc /\ f.tender = m.tender
  <2>1. \A i \in DOMAIN reading : drafts[i] = FactRow(req[r].doc, i, req[r].tender, reading[i])
    BY <1>0
  <2>2. \A i \in DOMAIN reading : drafts[i].doc = req[r].doc /\ drafts[i].tender = req[r].tender
    <3> SUFFICES ASSUME NEW i \in DOMAIN reading
                 PROVE  drafts[i].doc = req[r].doc /\ drafts[i].tender = req[r].tender
      OBVIOUS
    <3>1. drafts[i] = FactRow(req[r].doc, i, req[r].tender, reading[i])
      BY <2>1
    <3> QED BY <3>1 DEF FactRow
  <2>4. reading \in Seq(Observations)
    BY LedgerAssumption
  <2> DEFINE S == {drafts[i] : i \in DOMAIN reading}
  <2>5. drafts \in [1..Len(reading) -> S] /\ Len(reading) \in Nat
    BY <2>4, <1>0
  <2>6. drafts \in Seq(S)
    BY <2>5, SeqDef
  <2> QED BY <1>3, <2>2, <2>6
<1>6. Carries(m)
  BY <1>3, <1>4, <1>5 DEF Carries
<1>7. Carries(m)'
  BY <1>2, <1>6, RowsStay
<1>8. EvidenceSurvives' /\ NoReputationEventLost' /\ \A x \in queue' : Filed(x)
  BY <1>2, TablesKeep
<1> QED BY <1>2, <1>7, <1>8, StepOf

\* enqueue_exception leaves a row with the correlation id: the one it creates,
\* or one that another capture with the same id, or this one, has left.
EnqueuedFor(pending, type, e, i) == Enqueued(pending, type, <<e.corr, i>>, <<e.id, i>>)

Stands(items, type, e, i) ==
  \E x \in items :
    /\ x.type = type /\ x.corr = <<e.corr, i>>
    /\ \/ x.about = <<e.id, i>>
       \/ \E d \in evidence : d.id # e.id /\ d.corr = e.corr

AllFiled(items) == \A x \in items : Filed(x)

LEMMA EnqueuedAnswers ==
  ASSUME NEW pending, NEW type, NEW e \in evidence, NEW i, AllFiled(queue \cup pending)
  PROVE  /\ pending \subseteq EnqueuedFor(pending, type, e, i)
         /\ AllFiled(EnqueuedFor(pending, type, e, i))
         /\ Stands(queue \cup EnqueuedFor(pending, type, e, i), type, e, i)
<1> DEFINE asked == EnqueuedFor(pending, type, e, i)
<1>0. PICK item : item = [type |-> type, corr |-> <<e.corr, i>>, about |-> <<e.id, i>>]
  OBVIOUS
<1>1. item.type = type /\ item.corr = <<e.corr, i>> /\ item.about = <<e.id, i>> /\ Filed(item)
  BY <1>0 DEF Filed
<1>2. CASE \E x \in queue \cup pending : x.type = type /\ x.corr = <<e.corr, i>>
  <2>1. asked = pending
    BY <1>2 DEF EnqueuedFor, Enqueued
  <2>2. PICK x \in queue \cup pending : x.type = type /\ x.corr = <<e.corr, i>>
    BY <1>2
  <2>3. PICK d \in evidence : \E j : x.about = <<d.id, j>> /\ x.corr = <<d.corr, j>>
    BY <2>2 DEF AllFiled, Filed
  <2>4. d.corr = e.corr /\ x.about = <<d.id, i>>
    BY <2>2, <2>3
  <2>5. x.about = <<e.id, i>> \/ d.id # e.id
    BY <2>4
  <2> QED BY <2>1, <2>2, <2>4, <2>5 DEF Stands, AllFiled
<1>3. CASE ~\E x \in queue \cup pending : x.type = type /\ x.corr = <<e.corr, i>>
  <2>1. asked = pending \cup {item}
    BY <1>0, <1>3 DEF EnqueuedFor, Enqueued
  <2> QED BY <1>1, <2>1 DEF Stands, AllFiled
<1> QED BY <1>2, <1>3

LEMMA UnreadableKeeps ==
  ASSUME CaptureInv, NEW r \in Requests, Unreadable(r)
  PROVE  CaptureInv'
<1>1. /\ UNCHANGED <<evidence, facts, reports>> /\ Go(r, Idle) /\ req[r].at = "ocr"
      /\ refused' = refused \cup {req[r].doc}
      /\ queue' = queue \cup Enqueued({}, "napkin_unrecognized", <<req[r].corr, 0>>,
                                      <<req[r].doc, 0>>)
  BY DEF Unreadable, End
<1>2. PICK e \in evidence : e.id = req[r].doc /\ e.corr = req[r].corr
  BY <1>1 DEF CaptureInv, Carries
<1>3. PICK asked : asked = EnqueuedFor({}, "napkin_unrecognized", e, 0)
  OBVIOUS
<1>4. AllFiled(asked) /\ Stands(queue \cup asked, "napkin_unrecognized", e, 0)
  <2>1. AllFiled(queue \cup {})
    BY DEF CaptureInv, AllFiled
  <2> QED BY <1>3, <2>1, EnqueuedAnswers
<1>5. queue' = queue \cup asked
  BY <1>1, <1>2, <1>3 DEF EnqueuedFor
<1>6. EvidenceSurvives'
  <2>1. ASSUME NEW d \in refused'
        PROVE  \E g \in evidence', x \in queue' :
                 g.id = d /\ x.type = "napkin_unrecognized" /\ x.corr = <<g.corr, 0>>
    <3>1. CASE d \in refused
      <4>1. PICK g \in evidence, x \in queue :
              g.id = d /\ x.type = "napkin_unrecognized" /\ x.corr = <<g.corr, 0>>
        BY <3>1 DEF CaptureInv, EvidenceSurvives
      <4>2. g \in evidence' /\ x \in queue'
        BY <1>1, <1>5
      <4> QED BY <4>1, <4>2
    <3>2. CASE d = req[r].doc
      BY <1>1, <1>2, <1>4, <1>5, <3>2 DEF Stands
    <3> QED BY <1>1, <3>1, <3>2
  <2> QED BY <1>1, <2>1 DEF CaptureInv, EvidenceSurvives
<1>7. NoReputationEventLost'
  <2>1. \A f \in facts : Answered(f, queue)
    BY DEF CaptureInv, NoReputationEventLost, Answered
  <2>2. \A f \in facts : Answered(f, queue)'
    BY <1>1, <1>5, <2>1 DEF Answered, Reported
  <2> QED BY <1>1, <2>2 DEF NoReputationEventLost, Answered
<1>8. \A x \in queue' : Filed(x)
  BY <1>4, <1>5 DEF CaptureInv, AllFiled
<1> QED BY <1>1, <1>5, <1>6, <1>7, <1>8, IdleCarries, StepOf

\* A fact is handled: whatever branch is taken, it is reported or queued.
LEMMA HandleFactKeeps ==
  ASSUME CaptureInv, NEW r \in Requests, HandleFact(r)
  PROVE  CaptureInv'
<1>0. PICK f : f = Head(req[r].drafts)
  OBVIOUS
<1>1. /\ UNCHANGED <<evidence, facts, queue, refused>>
      /\ req[r].at = "facts" /\ req[r].drafts # << >>
  BY DEF HandleFact
<1>2. Carries(req[r])
  BY DEF CaptureInv
<1>3. PICK S : req[r].drafts \in Seq(S) /\ \A g \in S : g.doc = req[r].doc /\ g.tender = req[r].tender
  BY <1>1, <1>2 DEF Carries
<1>4. f.doc = req[r].doc /\ f.tender = req[r].tender /\ Tail(req[r].drafts) \in Seq(S)
  BY <1>0, <1>1, <1>3
<1>5. PICK e \in evidence : e.id = f.doc /\ e.tender = f.tender /\ e.corr = req[r].corr
  BY <1>1, <1>2, <1>4 DEF Carries
<1>6. ReputationFact(f).doc = f.doc /\ ReputationFact(f).index = f.index
  BY DEF ReputationFact
<1>7. \A x \in queue \cup req[r].asked : Filed(x)
  BY <1>2 DEF CaptureInv, Carries
<1> DEFINE Asked(type) == EnqueuedFor(req[r].asked, type, e, f.index)
           Goes(asked) ==
             Go(r, Memo("facts", req[r].tender, req[r].corr, req[r].doc, req[r].ttl,
                        Tail(req[r].drafts), req[r].held \cup {f}, asked, {}))
<1>8. PICK asked :
        /\ Goes(asked)
        /\ reports \subseteq reports' /\ reports' \subseteq reports \cup {ReputationFact(f)}
        /\ req[r].asked \subseteq asked
        /\ \A x \in asked : Filed(x)
        /\ Answered(f, queue \cup asked)'
  <2>1. \/ EventType(f) = "none" /\ Goes(req[r].asked) /\ UNCHANGED reports
        \/ Goes(req[r].asked) /\ reports' = reports \cup {ReputationFact(f)}
        \/ \E type : /\ Goes(Asked(type))
                     /\ reports' \in {reports, reports \cup {ReputationFact(f)}}
    BY <1>0, <1>5 DEF HandleFact, FactCorrelation, EnqueuedFor
  <2> HIDE DEF Goes
  <2>2. CASE EventType(f) = "none" /\ Goes(req[r].asked) /\ UNCHANGED reports
    BY <2>2, <1>7 DEF Answered
  <2>3. CASE Goes(req[r].asked) /\ reports' = reports \cup {ReputationFact(f)}
    BY <2>3, <1>6, <1>7 DEF Answered, Reported
  <2>4. ASSUME NEW type, Goes(Asked(type)),
               reports' \in {reports, reports \cup {ReputationFact(f)}}
        PROVE  \E asked :
                 /\ Goes(asked)
                 /\ reports \subseteq reports' /\ reports' \subseteq reports \cup {ReputationFact(f)}
                 /\ req[r].asked \subseteq asked
                 /\ \A x \in asked : Filed(x)
                 /\ Answered(f, queue \cup asked)'
    <3>1. PICK asked : asked = Asked(type)
      OBVIOUS
    <3>2. /\ req[r].asked \subseteq asked /\ AllFiled(asked)
          /\ Stands(queue \cup asked, type, e, f.index)
      <4>1. AllFiled(queue \cup req[r].asked)
        BY <1>7 DEF AllFiled
      <4> QED BY <3>1, <4>1, EnqueuedAnswers
    <3>3. Answered(f, queue \cup asked)'
      BY <1>1, <1>5, <3>2 DEF Answered, Stands
    <3> HIDE DEF Asked
    <3> QED BY <2>4, <3>1, <3>2, <3>3 DEF AllFiled
  <2> QED BY <2>1, <2>2, <2>3, <2>4
<1>9. PICK m : m = Memo("facts", req[r].tender, req[r].corr, req[r].doc, req[r].ttl,
                        Tail(req[r].drafts), req[r].held \cup {f}, asked, {})
  OBVIOUS
<1>10. /\ m.at = "facts" /\ m.tender = req[r].tender /\ m.corr = req[r].corr /\ m.doc = req[r].doc
       /\ m.drafts = Tail(req[r].drafts) /\ m.held = req[r].held \cup {f} /\ m.asked = asked
  BY <1>9 DEF Memo
<1>11. Carries(m)'
  <2>1. \E g \in evidence : g.id = m.doc /\ g.tender = m.tender /\ g.corr = m.corr
    BY <1>4, <1>5, <1>10
  <2>2. \E T : m.drafts \in Seq(T) /\ \A g \in T : g.doc = m.doc /\ g.tender = m.tender
    BY <1>3, <1>4, <1>10
  <2>3. ASSUME NEW g \in m.held PROVE Evident(g)' /\ Answered(g, queue \cup m.asked)'
    <3>1. CASE g \in req[r].held
      <4>1. Evident(g) /\ Answered(g, queue \cup req[r].asked)
        BY <3>1, <1>2 DEF Carries
      <4> QED BY <4>1, <1>1, <1>8, <1>10 DEF Evident, Answered, Reported
    <3>2. CASE g = f
      <4>1. Evident(f)'
        BY <1>1, <1>5 DEF Evident
      <4>2. Answered(f, queue \cup m.asked)'
        BY <1>8, <1>10
      <4> QED BY <3>2, <4>1, <4>2
    <3> QED BY <3>1, <3>2, <1>10
  <2>4. \A x \in m.asked : Filed(x)'
    BY <1>1, <1>8, <1>10 DEF Filed
  <2> QED BY <1>1, <2>1, <2>2, <2>3, <2>4 DEF Carries
<1>12. EvidenceSurvives'
  <2>1. \A p \in reports' : \E g \in evidence' : g.id = p.doc
    BY <1>1, <1>5, <1>6, <1>8 DEF CaptureInv, EvidenceSurvives
  <2> QED BY <1>1, <2>1 DEF CaptureInv, EvidenceSurvives
<1>13. NoReputationEventLost' /\ \A x \in queue' : Filed(x)
  BY <1>1, <1>8 DEF CaptureInv, NoReputationEventLost, Reported
<1> QED BY <1>1, <1>8, <1>9, <1>11, <1>12, <1>13, StepOf

LEMMA CommitNapkinKeeps ==
  ASSUME CaptureInv, NEW r \in Requests, CommitNapkin(r)
  PROVE  CaptureInv'
<1>1. /\ UNCHANGED <<evidence, reports, refused>> /\ Go(r, Idle)
      /\ facts' = facts \cup req[r].held /\ queue' = queue \cup req[r].asked
  BY DEF CommitNapkin, End
<1>2. Carries(req[r])
  BY DEF CaptureInv
<1>3. EvidenceSurvives'
  <2>1. \A f \in facts' : \E e \in evidence' : e.id = f.doc /\ e.tender = f.tender
    BY <1>1, <1>2 DEF CaptureInv, EvidenceSurvives, Carries, Evident
  <2> QED BY <1>1, <2>1 DEF CaptureInv, EvidenceSurvives
<1>4. NoReputationEventLost'
  <2>1. \A f \in facts : Answered(f, queue)'
    BY <1>1 DEF CaptureInv, NoReputationEventLost, Answered, Reported
  <2>2. \A f \in req[r].held : Answered(f, queue \cup req[r].asked)
    BY <1>2 DEF Carries
  <2>3. \A f \in req[r].held : Answered(f, queue)'
    BY <1>1, <2>2 DEF Answered, Reported
  <2>4. \A f \in facts' : Answered(f, queue)'
    BY <1>1, <2>1, <2>3
  <2> QED BY <2>4 DEF NoReputationEventLost, Answered
<1>5. \A x \in queue' : Filed(x)
  BY <1>1, <1>2 DEF CaptureInv, Carries
<1> QED BY <1>1, <1>3, <1>4, <1>5, IdleCarries, StepOf

\* Closing a project, outcomes and links write other tables.
LEMMA OtherRequestsKeep ==
  ASSUME CaptureInv, NEW r \in Requests, CloseStep(r) \/ CalibrationStep(r)
  PROVE  CaptureInv'
<1>1. /\ UNCHANGED ledger
      /\ \/ Go(r, Idle)
         \/ \E at \in {"probe", "count", "contribute", "outcome", "link"} :
              \E t, doc, counts : Go(r, Memo(at, t, NoCorr, doc, FALSE, << >>, {}, {}, counts))
  <2>1. CASE \E t \in Tenders : BeginClose(r, t) \/ LoadOutcome(r, t)
    BY <2>1 DEF BeginClose, LoadOutcome, Start
  <2>2. CASE ProbeClosed(r) \/ CountFacts(r)
    BY <2>2 DEF ProbeClosed, CountFacts, Start, End
  <2>3. CASE CommitClose(r) \/ ConfirmLink(r) \/ \E value \in Outcomes : StoreOutcome(r, value)
    BY <2>3 DEF CommitClose, ConfirmLink, StoreOutcome, End
  <2>4. CASE \E t \in Tenders, s \in 1..MaxSnapshots : LoadLinks(r, s, t)
    BY <2>4 DEF LoadLinks
  <2> QED BY <2>1, <2>2, <2>3, <2>4 DEF CloseStep, CalibrationStep
<1>2. CASE Go(r, Idle)
  <2>1. Idle.at = "idle" /\ Idle.held = {} /\ Idle.asked = {}
    BY DEF Idle, Start, Memo
  <2> QED BY <1>1, <1>2, <2>1, OtherSteps
<1>3. ASSUME NEW at \in {"probe", "count", "contribute", "outcome", "link"},
             NEW t, NEW doc, NEW counts,
             Go(r, Memo(at, t, NoCorr, doc, FALSE, << >>, {}, {}, counts))
      PROVE  CaptureInv'
  <2>1. PICK m : m = Memo(at, t, NoCorr, doc, FALSE, << >>, {}, {}, counts)
    OBVIOUS
  <2>2. m.at = at /\ m.held = {} /\ m.asked = {}
    BY <2>1 DEF Memo
  <2> QED BY <1>1, <1>3, <2>1, <2>2, OtherSteps
<1> QED BY <1>1, <1>2, <1>3

LEMMA CaptureHolds == Spec => []CaptureInv
<1>1. Init => CaptureInv
  <2> SUFFICES ASSUME Init PROVE CaptureInv
    OBVIOUS
  <2>1. \A r \in Requests : req[r].at = "idle" /\ req[r].held = {} /\ req[r].asked = {}
    BY DEF Init, Idle, Start, Memo
  <2>2. \A r \in Requests : Carries(req[r])
    BY <2>1 DEF Carries
  <2> QED BY <2>2 DEF Init, CaptureInv, EvidenceSurvives, NoReputationEventLost
<1>2. CaptureInv /\ [Next]_vars => CaptureInv'
  <2> SUFFICES ASSUME CaptureInv, [Next]_vars PROVE CaptureInv'
    OBVIOUS
  <2>1. ASSUME NEW r \in Requests, NapkinStep(r) PROVE CaptureInv'
    BY <2>1, BeginNapkinKeeps, SaveEvidenceKeeps, RecogniseKeeps, UnreadableKeeps,
       HandleFactKeeps, CommitNapkinKeeps DEF NapkinStep
  <2>2. ASSUME NEW r \in Requests, CloseStep(r) \/ CalibrationStep(r) \/ Rollback(r)
        PROVE  CaptureInv'
    BY <2>2, OtherRequestsKeep, RollbackKeeps
  <2>3. CASE UNCHANGED <<ledger, req>>
    <3>1. UNCHANGED <<evidence, facts, queue, reports, refused, req>>
      BY <2>3 DEF ledger
    <3>2. ASSUME NEW r \in Requests PROVE Carries(req[r])'
      <4>1. PICK m : m = req[r]
        OBVIOUS
      <4>2. Carries(m) /\ m = req'[r]
        BY <4>1, <3>1 DEF CaptureInv
      <4> QED BY <3>1, <4>2, RowsStay
    <3>3. \A x \in queue' : Filed(x)'
      BY <3>1 DEF CaptureInv, Filed
    <3> QED BY <3>1, <3>2, <3>3, TablesKeep DEF CaptureInv
  <2>4. CASE \E t \in Tenders, type \in {"bid", "no_bid"}, vs \in SUBSET Vendors :
               Decide(t, type, vs)
    BY <2>3, <2>4 DEF Decide
  <2>5. CASE PostSnapshot \/ \E t \in Tenders : PostLossReason(t)
    BY <2>3, <2>5 DEF PostSnapshot, PostLossReason
  <2>6. CASE UNCHANGED vars
    BY <2>3, <2>6 DEF vars
  <2> QED BY <2>1, <2>2, <2>4, <2>5, <2>6 DEF Next
<1> QED BY <1>1, <1>2, PTL DEF Spec

\* INV-18 for any tenders, readings and number of requests: whatever a stored
\* fact, a report or a refusal rests on is stored, and every refusal has an
\* exception under its correlation id, although the request's own transaction
\* may be rolled back.
THEOREM EvidenceIsKept == Spec => []EvidenceSurvives
<1>1. CaptureInv => EvidenceSurvives
  BY DEF CaptureInv
<1> QED BY <1>1, CaptureHolds, PTL

\* Hard ban #3 for captures of any length and whatever correlation ids clients
\* send: every stored fact about a vendor's reputation has been reported or has
\* an exception under its correlation id, one of its own unless another capture
\* was sent with the same id.
THEOREM ReputationIsKept == Spec => []NoReputationEventLost
<1>1. CaptureInv => NoReputationEventLost
  BY DEF CaptureInv
<1> QED BY <1>1, CaptureHolds, PTL

-----------------------------------------------------------------------------
(* Outcomes and links. *)

\* Two requests may both have found no outcome: the unique indexes decide.
THEOREM OutcomeIsUnique == Spec => []OneOutcome
<1>1. Init => OneOutcome
  BY DEF Init, OneOutcome
<1>2. OneOutcome /\ [Next]_vars => OneOutcome'
  <2> SUFFICES ASSUME OneOutcome, [Next]_vars PROVE OneOutcome'
    OBVIOUS
  <2>1. ASSUME NEW r \in Requests, NEW value, StoreOutcome(r, value) PROVE OneOutcome'
    <3>1. OutcomeRow(req[r].tender, value).tender = req[r].tender
      BY DEF OutcomeRow
    <3>2. /\ UNCHANGED <<reasons, links>>
          /\ outcomes' = outcomes \cup {OutcomeRow(req[r].tender, value)}
          /\ \A o \in outcomes : o.tender # req[r].tender
      BY <2>1 DEF StoreOutcome, OutcomeOf
    <3>3. \A o, p \in outcomes' : o.tender = p.tender => o = p
      BY <3>1, <3>2 DEF OneOutcome
    <3>4. \A x \in reasons' : \E o \in OutcomeOf(x.tender)' : o.outcome = "lost"
      BY <3>2 DEF OneOutcome, OutcomeOf
    <3> QED BY <3>2, <3>3, <3>4 DEF OneOutcome, OutcomeOf
  <2>2. ASSUME NEW r \in Requests, ConfirmLink(r) PROVE OneOutcome'
    <3> DEFINE l == LinkRow(Cardinality(links) + 1, req[r].doc, req[r].tender)
    <3>1. l.snapshot = req[r].doc /\ l.tender = req[r].tender
      BY DEF LinkRow
    <3>2. /\ UNCHANGED <<outcomes, reasons>> /\ links' = links \cup {l}
          /\ ~\E k \in links : k.snapshot = req[r].doc /\ k.tender = req[r].tender
      BY <2>2 DEF ConfirmLink
    <3> HIDE DEF l
    <3>3. \A k, m \in links' : k.snapshot = m.snapshot /\ k.tender = m.tender => k = m
      BY <3>1, <3>2 DEF OneOutcome
    <3> QED BY <3>2, <3>3 DEF OneOutcome, OutcomeOf
  <2>3. ASSUME NEW t \in Tenders, PostLossReason(t) PROVE OneOutcome'
    <3>1. LossReasonRow(Cardinality(reasons) + 1, t).tender = t
      BY DEF LossReasonRow
    <3>2. /\ UNCHANGED <<outcomes, links>>
          /\ \E o \in OutcomeOf(t) : o.outcome = "lost"
          /\ reasons' = reasons \cup {LossReasonRow(Cardinality(reasons) + 1, t)}
      BY <2>3 DEF PostLossReason
    <3> QED BY <3>1, <3>2 DEF OneOutcome, OutcomeOf
  <2>4. CASE UNCHANGED <<outcomes, reasons, links>>
    BY <2>4 DEF OneOutcome, OutcomeOf
  <2>5. ASSUME NEW r \in Requests, NapkinStep(r) \/ CloseStep(r) \/ Rollback(r)
        PROVE  UNCHANGED <<outcomes, reasons, links>>
    BY <2>5 DEF NapkinStep, CloseStep, Rollback, BeginNapkin, SaveEvidence, Recognise, Unreadable,
                HandleFact, CommitNapkin, BeginClose, ProbeClosed, CountFacts, CommitClose, calib
  <2>6. ASSUME NEW r \in Requests, CalibrationStep(r) PROVE OneOutcome'
    BY <2>1, <2>2, <2>4, <2>6 DEF CalibrationStep, LoadOutcome, LoadLinks, calib
  <2> QED BY <2>3, <2>4, <2>5, <2>6 DEF Next, vars, Decide, PostSnapshot, calib
<1> QED BY <1>1, <1>2, PTL DEF Spec

-----------------------------------------------------------------------------
(* Closing a project, also by closes that overlap. *)

\* A count of a category is at most the facts the tender has in it now.
Supported(t, c) == c.count \in Nat /\ c.count <= Cardinality(Categorised(t, c.category))

\* Facts are only added, so a count keeps its support.
LEMMA SupportStays ==
  ASSUME facts \subseteq facts', IsFiniteSet(facts'), NEW t, NEW c, Supported(t, c)
  PROVE  Supported(t, c)'
<1> DEFINE old == {f \in facts : f.tender = t /\ f.category = c.category}
           new == {f \in facts' : f.tender = t /\ f.category = c.category}
<1>1. old = Categorised(t, c.category) /\ new = Categorised(t, c.category)'
  BY DEF Categorised
<1>2. new \subseteq facts' /\ old \subseteq new
  OBVIOUS
<1> HIDE DEF old, new
<1>3. IsFiniteSet(new)
  BY <1>2, FS_Subset
<1>4. IsFiniteSet(old) /\ Cardinality(old) <= Cardinality(new)
  BY <1>2, <1>3, FS_Subset
<1>5. Cardinality(old) \in Nat /\ Cardinality(new) \in Nat
  BY <1>3, <1>4, FS_CardinalityType
<1>6. c.count \in Nat /\ c.count <= Cardinality(old)
  BY <1>1 DEF Supported
<1>7. c.count <= Cardinality(new)
  BY <1>4, <1>5, <1>6
<1> QED BY <1>1, <1>6, <1>7 DEF Supported

\* The places of a close that has found no contribution.
Probed == {"count", "contribute"}

\* Closes of a tender past the probe, and closes that have contributed.
InFlight(t) == {q \in Requests : req[q].tender = t /\ req[q].at \in Probed}
Closes(t)   == {c.close : c \in ContributionsOf(t)}

\* Each has a request of its own: a close that contributes ends, and the
\* probe lets no other pass once there is a contribution.
Room(t) ==
  /\ IsFiniteSet(Closes(t))
  /\ Cardinality(Closes(t)) + Cardinality(InFlight(t)) <= Cardinality(Requests)

\* What a request is going to contribute: one supported count for a category.
Closer(m) ==
  /\ IsFiniteSet(m.held)
  /\ m.at = "contribute" =>
       /\ \A c \in m.counts : c.category \in Categories /\ Supported(m.tender, c)
       /\ \A c, d \in m.counts : c.category = d.category => c = d

Contributed ==
  /\ IsFiniteSet(contributions)
  /\ \A c \in contributions :
       /\ Supported(c.tender, c)
       /\ c.close \in Nat /\ c.close < Cardinality(contributions)
  /\ \A c, d \in contributions :
       c.tender = d.tender /\ c.category = d.category /\ c.close = d.close => c = d

CloseInv ==
  /\ DOMAIN req = Requests
  /\ IsFiniteSet(facts)
  /\ Contributed
  /\ \A r \in Requests : Closer(req[r])
  /\ \A t \in Tenders : Room(t)

\* Room is kept when nothing is contributed and no close passes the probe, or
\* the tender has no contribution.
LEMMA RoomStays ==
  ASSUME CloseInv, UNCHANGED contributions, NEW t \in Tenders,
         InFlight(t)' \subseteq InFlight(t) \/ ContributionsOf(t) = {}
  PROVE  Room(t)'
<1>1. Closes(t)' = Closes(t) /\ IsFiniteSet(Closes(t))
  BY DEF Closes, ContributionsOf, CloseInv, Room
<1>2. /\ IsFiniteSet(InFlight(t)) /\ IsFiniteSet(InFlight(t)')
      /\ Cardinality(InFlight(t)') <= Cardinality(Requests)
  BY FS_Subset, LedgerAssumption DEF InFlight
<1>3. /\ Cardinality(InFlight(t)) \in Nat /\ Cardinality(InFlight(t)') \in Nat
      /\ Cardinality(Closes(t)) \in Nat /\ Cardinality(Requests) \in Nat
  BY <1>1, <1>2, FS_CardinalityType, LedgerAssumption
<1>4. CASE InFlight(t)' \subseteq InFlight(t)
  <2>1. Cardinality(InFlight(t)') <= Cardinality(InFlight(t))
    BY <1>2, <1>4, FS_Subset
  <2>2. Cardinality(Closes(t)) + Cardinality(InFlight(t)) <= Cardinality(Requests)
    BY DEF CloseInv, Room
  <2>3. Cardinality(Closes(t)) + Cardinality(InFlight(t)') <= Cardinality(Requests)
    BY <1>3, <2>1, <2>2
  <2> QED BY <1>1, <2>3 DEF Room
<1>5. CASE ContributionsOf(t) = {}
  <2>1. Closes(t) = {}
    BY <1>5 DEF Closes
  <2>2. Cardinality(Closes(t)) = 0
    BY <2>1, FS_EmptySet
  <2>3. Cardinality(Closes(t)) + Cardinality(InFlight(t)') <= Cardinality(Requests)
    BY <1>2, <1>3, <2>2
  <2> QED BY <1>1, <2>3 DEF Room
<1> QED BY <1>4, <1>5

LEMMA ContributedStays ==
  ASSUME CloseInv, facts \subseteq facts', IsFiniteSet(facts'), UNCHANGED contributions
  PROVE  Contributed'
<1>1. \A c \in contributions : Supported(c.tender, c)'
  BY SupportStays DEF CloseInv, Contributed
<1> QED BY <1>1 DEF CloseInv, Contributed

\* What a step of one request has to show.
LEMMA CloseStepOf ==
  ASSUME CloseInv, NEW r \in Requests, NEW m, Go(r, m), Closer(m)',
         facts \subseteq facts', IsFiniteSet(facts'), Contributed',
         \A t \in Tenders : Room(t)'
  PROVE  CloseInv'
<1>1. /\ DOMAIN req' = Requests /\ req'[r] = m
      /\ \A q \in Requests \ {r} : req'[q] = req[q]
  BY DEF Go, CloseInv
<1>2. ASSUME NEW q \in Requests PROVE Closer(req[q])'
  <2>1. CASE q = r
    <3>1. PICK n : n = req'[r]
      OBVIOUS
    <3>2. n = m
      BY <3>1, <1>1
    <3>3. Closer(n)'
      BY <3>2
    <3> QED BY <2>1, <3>1, <3>3 DEF Closer, Supported
  <2>2. CASE q # r
    <3>1. PICK n : n = req[q]
      OBVIOUS
    <3>2. n = req'[q] /\ Closer(n)
      BY <1>1, <2>2, <3>1 DEF CloseInv
    <3>3. n.at = "contribute" =>
            \A c \in n.counts : c.category \in Categories /\ Supported(n.tender, c)'
      BY <3>2, SupportStays DEF Closer
    <3>4. Closer(n)'
      BY <3>2, <3>3 DEF Closer
    <3> QED BY <3>2, <3>4 DEF Closer, Supported
  <2> QED BY <2>1, <2>2
<1> QED BY <1>1, <1>2 DEF CloseInv

\* A request whose step passes no probe and contributes nothing.
LEMMA NoNewClose ==
  ASSUME CloseInv, NEW r \in Requests, NEW m, Go(r, m), Closer(m)',
         m.at \in Probed => req[r].at \in Probed /\ m.tender = req[r].tender,
         facts \subseteq facts', IsFiniteSet(facts'), UNCHANGED contributions
  PROVE  CloseInv'
<1>1. req'[r] = m /\ \A q \in Requests \ {r} : req'[q] = req[q]
  BY DEF Go, CloseInv
<1>2. ASSUME NEW t \in Tenders PROVE Room(t)'
  <2>1. InFlight(t)' \subseteq InFlight(t)
    BY <1>1 DEF InFlight, Probed
  <2> QED BY <2>1, RoomStays
<1>3. Contributed'
  BY ContributedStays
<1> QED BY <1>2, <1>3, CloseStepOf

LEMMA NotClosing ==
  ASSUME CloseInv, NEW r \in Requests, NEW m, Go(r, m), IsFiniteSet(m.held),
         m.at \notin Probed,
         facts \subseteq facts', IsFiniteSet(facts'), UNCHANGED contributions
  PROVE  CloseInv'
<1>1. Closer(m)'
  BY DEF Closer, Probed
<1> QED BY <1>1, NoNewClose

LEMMA EndKeepsClose ==
  ASSUME CloseInv, NEW r \in Requests, Go(r, Idle),
         facts \subseteq facts', IsFiniteSet(facts'), UNCHANGED contributions
  PROVE  CloseInv'
<1>1. Idle.at \notin Probed /\ Idle.held = {}
  BY DEF Idle, Start, Memo, Probed
<1>2. IsFiniteSet(Idle.held)
  BY <1>1, FS_EmptySet
<1> QED BY <1>1, <1>2, NotClosing

\* Captures add facts, one request a finite set of them.
LEMMA NapkinKeepsClose ==
  ASSUME CloseInv, NEW r \in Requests, NapkinStep(r)
  PROVE  CloseInv'
<1>0. IsFiniteSet({}) /\ IsFiniteSet(facts) /\ IsFiniteSet(req[r].held)
  BY FS_EmptySet DEF CloseInv, Closer
<1>1. ASSUME NEW at \in {"save", "ocr", "facts"}, NEW t, NEW corr, NEW doc, NEW ttl, NEW drafts,
             NEW held, NEW asked, IsFiniteSet(held),
             Go(r, Memo(at, t, corr, doc, ttl, drafts, held, asked, {})),
             UNCHANGED <<facts, contributions>>
      PROVE  CloseInv'
  <2>1. PICK m : m = Memo(at, t, corr, doc, ttl, drafts, held, asked, {})
    OBVIOUS
  <2>2. m.at \notin Probed /\ m.held = held
    BY <2>1 DEF Memo, Probed
  <2> QED BY <1>0, <1>1, <2>1, <2>2, NotClosing
<1>2. ASSUME NEW t \in Tenders, NEW corr, NEW ttl, BeginNapkin(r, t, corr, ttl) PROVE CloseInv'
  BY <1>0, <1>1, <1>2 DEF BeginNapkin, ledger
<1>3. ASSUME NEW kind, SaveEvidence(r, kind) PROVE CloseInv'
  BY <1>0, <1>1, <1>3, EndKeepsClose DEF SaveEvidence, End
<1>4. ASSUME NEW reading, Recognise(r, reading) PROVE CloseInv'
  BY <1>0, <1>1, <1>4 DEF Recognise, ledger
<1>5. CASE Unreadable(r)
  BY <1>0, <1>5, EndKeepsClose DEF Unreadable, End
<1>6. CASE HandleFact(r)
  <2>1. IsFiniteSet(req[r].held \cup {Head(req[r].drafts)})
    BY <1>0, FS_AddElement
  <2>2. /\ \E asked : Go(r, Memo("facts", req[r].tender, req[r].corr, req[r].doc, req[r].ttl,
                                 Tail(req[r].drafts), req[r].held \cup {Head(req[r].drafts)},
                                 asked, {}))
        /\ UNCHANGED <<facts, contributions>>
    BY <1>6 DEF HandleFact
  <2> QED BY <1>1, <2>1, <2>2
<1>7. CASE CommitNapkin(r)
  <2>1. IsFiniteSet(facts \cup req[r].held)
    BY <1>0, FS_Union
  <2> QED BY <1>7, <2>1, EndKeepsClose DEF CommitNapkin, End
<1> QED BY <1>2, <1>3, <1>4, <1>5, <1>6, <1>7 DEF NapkinStep

LEMMA CalibrationKeepsClose ==
  ASSUME CloseInv, NEW r \in Requests, CalibrationStep(r) \/ Rollback(r)
  PROVE  CloseInv'
<1>0. IsFiniteSet({}) /\ IsFiniteSet(facts)
  BY FS_EmptySet DEF CloseInv
<1>1. ASSUME NEW at \in {"outcome", "link"}, NEW t, NEW doc,
             Go(r, Memo(at, t, NoCorr, doc, FALSE, << >>, {}, {}, {})),
             UNCHANGED <<facts, contributions>>
      PROVE  CloseInv'
  <2>1. PICK m : m = Memo(at, t, NoCorr, doc, FALSE, << >>, {}, {}, {})
    OBVIOUS
  <2>2. m.at \notin Probed /\ m.held = {}
    BY <2>1 DEF Memo, Probed
  <2> QED BY <1>0, <1>1, <2>1, <2>2, NotClosing
<1>2. ASSUME NEW t, LoadOutcome(r, t) PROVE CloseInv'
  BY <1>1, <1>2 DEF LoadOutcome, Start, ledger
<1>3. ASSUME NEW s, NEW t, LoadLinks(r, s, t) PROVE CloseInv'
  BY <1>1, <1>3 DEF LoadLinks, ledger
<1>4. ASSUME NEW value, StoreOutcome(r, value) PROVE CloseInv'
  BY <1>0, <1>4, EndKeepsClose DEF StoreOutcome, End, ledger
<1>5. CASE ConfirmLink(r) \/ Rollback(r)
  BY <1>0, <1>5, EndKeepsClose DEF ConfirmLink, Rollback, End, ledger
<1> QED BY <1>2, <1>3, <1>4, <1>5 DEF CalibrationStep

LEMMA BeginCloseKeeps ==
  ASSUME CloseInv, NEW r \in Requests, NEW t, BeginClose(r, t)
  PROVE  CloseInv'
<1>1. PICK m : m = Start("probe", t)
  OBVIOUS
<1>2. m.at \notin Probed /\ m.held = {}
  BY <1>1 DEF Start, Memo, Probed
<1>3. Go(r, m) /\ UNCHANGED <<facts, contributions>> /\ IsFiniteSet(facts)
  BY <1>1 DEF BeginClose, ledger, CloseInv
<1> QED BY <1>2, <1>3, NotClosing, FS_EmptySet

\* The probe: nothing has been contributed for the tender.
LEMMA ProbeClosedKeeps ==
  ASSUME CloseInv, NEW r \in Requests, ProbeClosed(r)
  PROVE  CloseInv'
<1>0. /\ UNCHANGED <<facts, contributions>> /\ IsFiniteSet(facts')
  BY DEF ProbeClosed, ledger, CloseInv
<1>1. CASE ContributionsOf(req[r].tender) = {}
  <2>1. PICK m : m = Start("count", req[r].tender)
    OBVIOUS
  <2>2. m.at = "count" /\ m.tender = req[r].tender /\ m.held = {}
    BY <2>1 DEF Start, Memo
  <2>3. Go(r, m)
    BY <1>1, <2>1 DEF ProbeClosed
  <2>4. Closer(m)'
    BY <2>2, FS_EmptySet DEF Closer
  <2>5. req'[r] = m /\ \A q \in Requests \ {r} : req'[q] = req[q]
    BY <2>3 DEF Go, CloseInv
  <2>6. ASSUME NEW t \in Tenders PROVE Room(t)'
    <3>1. CASE t = req[r].tender
      BY <1>0, <1>1, <3>1, RoomStays
    <3>2. CASE t # req[r].tender
      <4>1. InFlight(t)' \subseteq InFlight(t)
        BY <2>2, <2>5, <3>2 DEF InFlight
      <4> QED BY <1>0, <4>1, RoomStays
    <3> QED BY <3>1, <3>2
  <2>7. Contributed'
    BY <1>0, ContributedStays
  <2> QED BY <1>0, <2>3, <2>4, <2>6, <2>7, CloseStepOf
<1>2. CASE ContributionsOf(req[r].tender) # {}
  BY <1>0, <1>2, EndKeepsClose DEF ProbeClosed, End
<1> QED BY <1>1, <1>2

\* The counts are of facts that are stored, one for each category.
LEMMA CountFactsKeeps ==
  ASSUME CloseInv, NEW r \in Requests, CountFacts(r)
  PROVE  CloseInv'
<1>0. /\ req[r].at = "count" /\ UNCHANGED <<facts, contributions>> /\ IsFiniteSet(facts)
  BY DEF CountFacts, ledger, CloseInv
<1>1. PICK t : t = req[r].tender
  OBVIOUS
<1>2. PICK counts : counts = CategoryCounts(t)
  OBVIOUS
<1>3. PICK m : m = Memo("contribute", t, NoCorr, 0, FALSE, << >>, {}, {}, counts)
  OBVIOUS
<1>4. m.at = "contribute" /\ m.tender = t /\ m.held = {} /\ m.counts = counts
  BY <1>3 DEF Memo
<1>5. Go(r, m)
  BY <1>1, <1>2, <1>3 DEF CountFacts
<1>6. \A c \in counts : \E cat \in Categories :
        c = [category |-> cat, count |-> Cardinality(Categorised(t, cat))]
  BY <1>2 DEF CategoryCounts
<1>7. ASSUME NEW c \in counts PROVE Supported(t, c)
  <2>1. PICK cat \in Categories :
          c = [category |-> cat, count |-> Cardinality(Categorised(t, cat))]
    BY <1>6
  <2>2. c.category = cat /\ c.count = Cardinality(Categorised(t, cat))
    BY <2>1
  <2>3. Categorised(t, cat) \subseteq facts
    BY DEF Categorised
  <2>4. IsFiniteSet(Categorised(t, cat))
    BY <1>0, <2>3, FS_Subset
  <2>5. Cardinality(Categorised(t, cat)) \in Nat
    BY <2>4, FS_CardinalityType
  <2> QED BY <2>2, <2>5 DEF Supported
<1>8. ASSUME NEW c \in counts, NEW d \in counts, c.category = d.category PROVE c = d
  BY <1>6, <1>8
<1>9. \A c \in counts : c.category \in Categories
  BY <1>6
<1>10. Closer(m)'
  <2>1. \A c \in counts : Supported(t, c)'
    BY <1>0, <1>7, SupportStays
  <2> QED BY <1>4, <1>8, <1>9, <2>1, FS_EmptySet DEF Closer
<1> QED BY <1>0, <1>1, <1>4, <1>5, <1>10, NoNewClose DEF Probed

\* There are four categories, so rows that differ in them are finitely many.
LEMMA ByCategory ==
  ASSUME NEW S, \A c \in S : c.category \in Categories,
         \A c, d \in S : c.category = d.category => c = d
  PROVE  IsFiniteSet(S)
<1> DEFINE A == {"preliminaries"}
           B == A \cup {"downtime"}
           C == B \cup {"rework"}
<1>1. Categories = C \cup {"last_mile"}
  BY DEF Categories
<1> HIDE DEF A, B, C
<1>2. IsFiniteSet(Categories)
  <2>1. IsFiniteSet(A)
    BY FS_Singleton DEF A
  <2>2. IsFiniteSet(B)
    BY <2>1, FS_AddElement DEF B
  <2>3. IsFiniteSet(C)
    BY <2>2, FS_AddElement DEF C
  <2> QED BY <1>1, <2>3, FS_AddElement
<1>3. PICK f : f = [c \in S |-> c.category]
  OBVIOUS
<1>4. f \in Injection(S, Categories)
  BY <1>3 DEF Injection, IsInjective
<1> QED BY <1>2, <1>4, FS_Injection

\* A close that contributes has left the others room: it ends.
LEMMA CommitCloseKeeps ==
  ASSUME CloseInv, NEW r \in Requests, CommitClose(r)
  PROVE  CloseInv'
<1>1. PICK t : t = req[r].tender
  OBVIOUS
<1>2. PICK n : n = Cardinality(contributions)
  OBVIOUS
<1>3. PICK rows : rows = {ContributionRow(n, t, c) : c \in req[r].counts}
  OBVIOUS
<1>4. /\ req[r].at = "contribute" /\ UNCHANGED facts /\ IsFiniteSet(facts) /\ Go(r, Idle)
      /\ contributions' = contributions \cup rows /\ Closer(req[r]) /\ Contributed
  BY <1>1, <1>2, <1>3 DEF CommitClose, ledger, CloseInv, End
<1>5. ASSUME NEW c \in rows
      PROVE  c.tender = t /\ c.close = n /\ c.category \in Categories /\ Supported(t, c)
  <2>1. PICK d \in req[r].counts : c = ContributionRow(n, t, d)
    BY <1>3
  <2>2. c.tender = t /\ c.close = n /\ c.category = d.category /\ c.count = d.count
    BY <2>1 DEF ContributionRow
  <2>3. d.category \in Categories /\ Supported(t, d)
    BY <1>1, <1>4 DEF Closer
  <2> QED BY <2>2, <2>3 DEF Supported
<1>6. ASSUME NEW c \in rows, NEW d \in rows, c.category = d.category PROVE c = d
  <2>1. PICK x \in req[r].counts : c = ContributionRow(n, t, x)
    BY <1>3
  <2>2. PICK y \in req[r].counts : d = ContributionRow(n, t, y)
    BY <1>3
  <2>3. x.category = y.category
    BY <1>6, <2>1, <2>2 DEF ContributionRow
  <2>4. x = y
    BY <1>4, <2>3 DEF Closer
  <2> QED BY <2>1, <2>2, <2>4
<1>7. IsFiniteSet(contributions) /\ n \in Nat /\ \A c \in contributions : c.close \in Nat /\ c.close < n
  BY <1>2, <1>4, FS_CardinalityType DEF Contributed
<1>8. IsFiniteSet(contributions')
  <2>1. IsFiniteSet(rows)
    BY <1>5, <1>6, ByCategory
  <2> QED BY <1>4, <1>7, <2>1, FS_Union
<1>9. Cardinality(contributions') \in Nat /\ n <= Cardinality(contributions')
  BY <1>2, <1>4, <1>8, FS_Subset, FS_CardinalityType
<1>10. rows # {} => n < Cardinality(contributions')
  <2> SUFFICES ASSUME NEW c \in rows PROVE n < Cardinality(contributions')
    OBVIOUS
  <2>1. c \notin contributions
    BY <1>5, <1>7
  <2>2. contributions # contributions'
    BY <1>4, <2>1
  <2>3. Cardinality(contributions') # n
    BY <1>2, <1>4, <1>8, <2>2, FS_Subset
  <2> QED BY <1>7, <1>9, <2>3
<1>11. Contributed'
  <2>1. \A c \in contributions' : Supported(c.tender, c)'
    BY <1>4, <1>5, SupportStays DEF Contributed
  <2>2. \A c \in contributions' : c.close \in Nat /\ c.close < Cardinality(contributions')
    <3>1. ASSUME NEW c \in contributions PROVE c.close \in Nat /\ c.close < Cardinality(contributions')
      BY <1>7, <1>9
    <3>2. ASSUME NEW c \in rows PROVE c.close \in Nat /\ c.close < Cardinality(contributions')
      BY <1>5, <1>7, <1>10
    <3> QED BY <1>4, <3>1, <3>2
  <2>3. ASSUME NEW c \in contributions', NEW d \in contributions',
               c.tender = d.tender, c.category = d.category, c.close = d.close
        PROVE  c = d
    <3>1. CASE c \in contributions /\ d \in contributions
      BY <1>4, <2>3, <3>1 DEF Contributed
    <3>2. CASE c \in rows /\ d \in rows
      BY <1>6, <2>3, <3>2
    <3>3. CASE c \in contributions /\ d \in rows
      BY <1>5, <1>7, <2>3, <3>3
    <3>4. CASE c \in rows /\ d \in contributions
      BY <1>5, <1>7, <2>3, <3>4
    <3> QED BY <1>4, <3>1, <3>2, <3>3, <3>4
  <2> QED BY <1>8, <2>1, <2>2, <2>3 DEF Contributed
<1>12. Idle.at = "idle" /\ Idle.held = {}
  BY DEF Idle, Start, Memo
<1>13. Closer(Idle)'
  BY <1>12, FS_EmptySet DEF Closer, Idle, Start
<1>14. ASSUME NEW u \in Tenders PROVE Room(u)'
  <2>1. req'[r] = Idle /\ \A q \in Requests \ {r} : req'[q] = req[q]
    BY <1>4 DEF Go, CloseInv
  <2>2. InFlight(u)' \subseteq InFlight(u) /\ (u = t => InFlight(u)' = InFlight(u) \ {r})
    BY <1>12, <2>1 DEF InFlight, Probed
  <2>3. IsFiniteSet(InFlight(u)) /\ IsFiniteSet(InFlight(u)')
    BY FS_Subset, LedgerAssumption DEF InFlight
  <2>4. Cardinality(InFlight(u)') <= Cardinality(InFlight(u))
    BY <2>2, <2>3, FS_Subset
  <2>5. /\ IsFiniteSet(Closes(u))
        /\ Cardinality(Closes(u)) + Cardinality(InFlight(u)) <= Cardinality(Requests)
    BY DEF CloseInv, Room
  <2>6. /\ Cardinality(InFlight(u)) \in Nat /\ Cardinality(InFlight(u)') \in Nat
        /\ Cardinality(Closes(u)) \in Nat /\ Cardinality(Requests) \in Nat
    BY <2>3, <2>5, FS_CardinalityType, LedgerAssumption
  <2>7. CASE u # t \/ rows = {}
    <3>1. ContributionsOf(u)' = ContributionsOf(u)
      BY <1>4, <1>5, <2>7 DEF ContributionsOf
    <3>2. Closes(u)' = Closes(u)
      BY <3>1 DEF Closes
    <3>3. Cardinality(Closes(u)) + Cardinality(InFlight(u)') <= Cardinality(Requests)
      BY <2>4, <2>5, <2>6
    <3> QED BY <2>5, <3>2, <3>3 DEF Room
  <2>8. CASE u = t /\ rows # {}
    <3>1. ContributionsOf(u)' = ContributionsOf(u) \cup rows
      BY <1>4, <1>5, <2>8 DEF ContributionsOf
    <3>2. \A x : x \in Closes(u)' <=> x \in Closes(u) \/ x = n
      <4>1. Closes(u)' = {c.close : c \in ContributionsOf(u) \cup rows}
        BY <3>1 DEF Closes
      <4>2. \A x : x \in {c.close : c \in ContributionsOf(u) \cup rows}
              <=> x \in {c.close : c \in ContributionsOf(u)} \/ x \in {c.close : c \in rows}
        OBVIOUS
      <4>3. \A x : x \in {c.close : c \in rows} <=> x = n
        BY <1>5, <2>8
      <4> QED BY <4>1, <4>2, <4>3 DEF Closes
    <3>3. Closes(u)' = Closes(u) \cup {n}
      BY <3>2
    <3>4. /\ IsFiniteSet(Closes(u) \cup {n})
          /\ Cardinality(Closes(u) \cup {n}) <= Cardinality(Closes(u)) + 1
          /\ Cardinality(Closes(u) \cup {n}) \in Nat
      <4>1. PICK K : K = Closes(u)
        OBVIOUS
      <4>2. IsFiniteSet(K) /\ Cardinality(K) \in Nat
        BY <2>5, <2>6, <4>1
      <4>3. /\ IsFiniteSet(K \cup {n})
            /\ Cardinality(K \cup {n}) = IF n \in K THEN Cardinality(K) ELSE Cardinality(K) + 1
        BY <4>2, FS_AddElement
      <4> QED BY <4>1, <4>2, <4>3
    <3>5. r \in InFlight(u)
      BY <1>1, <1>4, <2>8 DEF InFlight, Probed
    <3>6. Cardinality(InFlight(u)') = Cardinality(InFlight(u)) - 1
      BY <2>2, <2>3, <2>8, <3>5, FS_RemoveElement
    <3>7. Cardinality(Closes(u) \cup {n}) + Cardinality(InFlight(u)') <= Cardinality(Requests)
      BY <2>5, <2>6, <3>4, <3>6
    <3> QED BY <3>3, <3>4, <3>7 DEF Room
  <2> QED BY <2>7, <2>8
<1> QED BY <1>4, <1>11, <1>13, <1>14, CloseStepOf

LEMMA CloseHolds == Spec => []CloseInv
<1>1. Init => CloseInv
  <2> SUFFICES ASSUME Init PROVE CloseInv
    OBVIOUS
  <2>1. \A r \in Requests : req[r].at = "idle" /\ req[r].held = {}
    BY DEF Init, Idle, Start, Memo
  <2>2. \A r \in Requests : Closer(req[r])
    BY <2>1, FS_EmptySet DEF Closer
  <2>3. IsFiniteSet(facts) /\ contributions = {} /\ DOMAIN req = Requests
    BY FS_EmptySet DEF Init
  <2>4. Contributed
    BY <2>3, FS_EmptySet DEF Contributed
  <2>5. ASSUME NEW t \in Tenders PROVE Room(t)
    <3>1. Closes(t) = {} /\ InFlight(t) = {}
      BY <2>1, <2>3 DEF Closes, ContributionsOf, InFlight, Probed
    <3>2. Cardinality(Requests) \in Nat /\ Cardinality({}) = 0 /\ IsFiniteSet({})
      BY FS_EmptySet, FS_CardinalityType, LedgerAssumption
    <3> QED BY <3>1, <3>2 DEF Room
  <2> QED BY <2>2, <2>3, <2>4, <2>5 DEF CloseInv
<1>2. CloseInv /\ [Next]_vars => CloseInv'
  <2> SUFFICES ASSUME CloseInv, [Next]_vars PROVE CloseInv'
    OBVIOUS
  <2>1. ASSUME NEW r \in Requests, CloseStep(r) PROVE CloseInv'
    BY <2>1, BeginCloseKeeps, ProbeClosedKeeps, CountFactsKeeps, CommitCloseKeeps DEF CloseStep
  <2>2. ASSUME NEW r \in Requests, NapkinStep(r) \/ CalibrationStep(r) \/ Rollback(r)
        PROVE  CloseInv'
    BY <2>2, NapkinKeepsClose, CalibrationKeepsClose
  <2>3. CASE UNCHANGED <<facts, contributions, req>>
    <3>1. Contributed'
      BY <2>3, ContributedStays DEF CloseInv
    <3>2. \A r \in Requests : Closer(req[r])'
      BY <2>3 DEF CloseInv, Closer, Supported, Categorised
    <3>3. \A t \in Tenders : InFlight(t)' \subseteq InFlight(t)
      BY <2>3 DEF InFlight
    <3>4. \A t \in Tenders : Room(t)'
      BY <2>3, <3>3, RoomStays
    <3> QED BY <2>3, <3>1, <3>2, <3>4 DEF CloseInv
  <2>4. CASE \E t \in Tenders, type \in {"bid", "no_bid"}, vs \in SUBSET Vendors :
               Decide(t, type, vs)
    BY <2>3, <2>4 DEF Decide, ledger
  <2>5. CASE PostSnapshot \/ \E t \in Tenders : PostLossReason(t)
    BY <2>3, <2>5 DEF PostSnapshot, PostLossReason, ledger
  <2>6. CASE UNCHANGED vars
    BY <2>3, <2>6 DEF vars, ledger
  <2> QED BY <2>1, <2>2, <2>4, <2>5, <2>6 DEF Next
<1> QED BY <1>1, <1>2, PTL DEF Spec

\* What the 409 of close_project bounds, for any tenders, captures and number of
\* overlapping requests: a category of a tender is contributed at most once for
\* each request that may be in flight, and never with more facts than are stored.
THEOREM FactsCountedPerOverlap == Spec => []CountedPerOverlap
<1>1. CloseInv => CountedPerOverlap
  <2> SUFFICES ASSUME CloseInv, NEW t \in Tenders, NEW cat \in Categories,
                      NEW rows, rows = {c \in ContributionsOf(t) : c.category = cat}
               PROVE  /\ Cardinality(rows) <= Cardinality(Requests)
                      /\ \A c \in rows : c.count <= Cardinality(Categorised(t, cat))
    BY DEF CountedPerOverlap
  <2>1. \A c \in rows : c \in contributions /\ c.tender = t /\ c.category = cat
    BY DEF ContributionsOf
  <2>2. \A c \in rows : c.count <= Cardinality(Categorised(t, cat))
    BY <2>1 DEF CloseInv, Contributed, Supported
  <2>3. PICK f : f = [c \in rows |-> c.close]
    OBVIOUS
  <2>4. f \in Injection(rows, Closes(t))
    <3>1. f \in [rows -> Closes(t)]
      BY <2>3 DEF Closes
    <3>2. ASSUME NEW c \in rows, NEW d \in rows, f[c] = f[d] PROVE c = d
      BY <2>1, <2>3, <3>2 DEF CloseInv, Contributed
    <3> QED BY <3>1, <3>2 DEF Injection, IsInjective
  <2>5. /\ IsFiniteSet(Closes(t))
        /\ Cardinality(Closes(t)) + Cardinality(InFlight(t)) <= Cardinality(Requests)
    BY DEF CloseInv, Room
  <2>6. IsFiniteSet(rows) /\ Cardinality(rows) <= Cardinality(Closes(t))
    BY <2>4, <2>5, FS_Injection
  <2>7. IsFiniteSet(InFlight(t))
    BY FS_Subset, LedgerAssumption DEF InFlight
  <2>8. /\ Cardinality(rows) \in Nat /\ Cardinality(Closes(t)) \in Nat
        /\ Cardinality(InFlight(t)) \in Nat /\ Cardinality(Requests) \in Nat
    BY <2>5, <2>6, <2>7, FS_CardinalityType, LedgerAssumption
  <2>9. Cardinality(rows) <= Cardinality(Requests)
    BY <2>5, <2>6, <2>8
  <2> QED BY <2>2, <2>9
<1> QED BY <1>1, CloseHolds, PTL

-----------------------------------------------------------------------------
(* Type correctness. *)

TypedTables ==
  /\ locked \in [Tenders -> SUBSET Vendors]
  /\ IsFiniteSet(evidence)
  /\ evidence \subseteq [id : Nat, tender : Tenders, kind : {"photo", "voice"}, corr : CorrIds]
  /\ IsFiniteSet(facts) /\ facts \subseteq FactType
  /\ queue \subseteq ItemType
  /\ \A c \in contributions : c.tender \in Tenders /\ c.count \in Nat \ {0}

\* What a request holds until its commit has the types of the tables.
Typed(m) ==
  /\ m.at # "idle" => m.tender \in Tenders
  /\ m.at \in {"save", "ocr", "facts"} => m.corr \in CorrIds
  /\ m.doc \in Nat
  /\ m.drafts \in Seq(FactType)
  /\ IsFiniteSet(m.held) /\ m.held \subseteq FactType
  /\ m.asked \subseteq ItemType
  /\ \A c \in m.counts : c.count \in Nat \ {0}

LedgerTypeInv ==
  /\ DOMAIN req = Requests
  /\ TypedTables
  /\ \A r \in Requests : Typed(req[r])

LEMMA TypedStep ==
  ASSUME LedgerTypeInv, NEW r \in Requests, NEW m, Go(r, m), Typed(m), TypedTables'
  PROVE  LedgerTypeInv'
<1>1. /\ DOMAIN req' = Requests /\ req'[r] = m
      /\ \A q \in Requests \ {r} : req'[q] = req[q]
  BY DEF Go, LedgerTypeInv
<1>2. ASSUME NEW q \in Requests PROVE Typed(req'[q])
  <2>1. CASE q = r
    BY <2>1, <1>1
  <2>2. CASE q # r
    BY <2>2, <1>1 DEF LedgerTypeInv
  <2> QED BY <2>1, <2>2
<1>3. \A q \in Requests : Typed(req[q])'
  BY <1>2 DEF Typed
<1> QED BY <1>1, <1>3 DEF LedgerTypeInv

LEMMA TablesStay ==
  ASSUME TypedTables, UNCHANGED <<locked, evidence, facts, queue, contributions>>
  PROVE  TypedTables'
BY DEF TypedTables

\* A request that holds no facts and no exceptions.
LEMMA EmptyHanded ==
  ASSUME NEW at, NEW t, NEW corr, NEW doc \in Nat, NEW ttl, NEW counts,
         at # "idle" => t \in Tenders, at \in {"save", "ocr", "facts"} => corr \in CorrIds,
         \A c \in counts : c.count \in Nat \ {0}
  PROVE  Typed(Memo(at, t, corr, doc, ttl, << >>, {}, {}, counts))
<1>1. IsFiniteSet({}) /\ << >> \in Seq(FactType)
  BY FS_EmptySet
<1>2. PICK m : m = Memo(at, t, corr, doc, ttl, << >>, {}, {}, counts)
  OBVIOUS
<1>3. /\ m.at = at /\ m.tender = t /\ m.corr = corr /\ m.doc = doc /\ m.drafts = << >>
      /\ m.held = {} /\ m.asked = {} /\ m.counts = counts
  BY <1>2 DEF Memo
<1>4. Typed(m)
  BY <1>1, <1>3 DEF Typed
<1> QED BY <1>2, <1>4

LEMMA IdleTyped == Typed(Idle)
BY EmptyHanded DEF Idle, Start

\* One draft, whether or not its vendor has been recognised.
LEMMA FactRowTyped ==
  ASSUME TypedTables, NEW doc \in Nat, NEW i \in Nat, NEW t \in Tenders, NEW o \in Observations
  PROVE  FactRow(doc, i, t, o) \in FactType
<1>1. o.category \in Categories \cup {"none"} /\ o.culprit \in Culprits
  BY DEF Observations
<1>2. ResolveVendor(t, o) \in Vendors \cup {NoVendor}
  BY DEF ResolveVendor, TypedTables
<1> QED BY <1>1, <1>2 DEF FactRow, FactType

LEMMA EnqueuedTyped ==
  ASSUME NEW pending, pending \subseteq ItemType, NEW type \in ExceptionTypes,
         NEW corr \in CorrIds \X Nat, NEW about \in Nat \X Nat
  PROVE  Enqueued(pending, type, corr, about) \subseteq ItemType
<1>1. [type |-> type, corr |-> corr, about |-> about] \in ItemType
  BY DEF ItemType
<1> QED BY <1>1 DEF Enqueued

LEMMA NapkinKeepsTypes ==
  ASSUME LedgerTypeInv, NEW r \in Requests, NapkinStep(r)
  PROVE  LedgerTypeInv'
<1>0. Typed(req[r]) /\ TypedTables
  BY DEF LedgerTypeInv
<1>1. ASSUME NEW t \in Tenders, NEW corr \in CorrIds, NEW ttl, BeginNapkin(r, t, corr, ttl)
      PROVE  LedgerTypeInv'
  <2>1. Typed(Memo("save", t, corr, 0, ttl, << >>, {}, {}, {}))
    BY EmptyHanded
  <2>2. TypedTables'
    BY <1>0, <1>1, TablesStay DEF BeginNapkin, project, ledger
  <2> QED BY <1>1, <2>1, <2>2, TypedStep DEF BeginNapkin
<1>2. ASSUME NEW kind \in {"photo", "voice"}, SaveEvidence(r, kind) PROVE LedgerTypeInv'
  <2> DEFINE id == Cardinality(evidence) + 1
             row == EvidenceRow(id, req[r].tender, kind, req[r].corr)
  <2>1. id \in Nat
    BY <1>0, FS_CardinalityType DEF TypedTables
  <2>2. req[r].tender \in Tenders /\ req[r].corr \in CorrIds
    BY <1>0, <1>2 DEF SaveEvidence, Typed
  <2>3. row \in [id : Nat, tender : Tenders, kind : {"photo", "voice"}, corr : CorrIds]
    BY <2>1, <2>2 DEF EvidenceRow
  <2>4. evidence' = evidence \cup {row} /\ UNCHANGED <<locked, facts, queue, contributions>>
    BY <1>2 DEF SaveEvidence, project
  <2>5. IsFiniteSet(evidence')
    BY <1>0, <2>4, FS_AddElement DEF TypedTables
  <2>6. TypedTables'
    BY <1>0, <2>3, <2>4, <2>5 DEF TypedTables
  <2>7. Typed(Memo("ocr", req[r].tender, req[r].corr, id, req[r].ttl, << >>, {}, {}, {}))
    BY <2>1, <2>2, EmptyHanded
  <2> QED BY <1>2, <2>6, <2>7, IdleTyped, TypedStep DEF SaveEvidence, End
<1>3. ASSUME NEW reading \in Readings, Recognise(r, reading) PROVE LedgerTypeInv'
  <2> DEFINE drafts == [i \in DOMAIN reading |->
                          FactRow(req[r].doc, i, req[r].tender, reading[i])]
  <2>1. req[r].tender \in Tenders /\ req[r].doc \in Nat /\ req[r].corr \in CorrIds
    BY <1>0, <1>3 DEF Recognise, Typed
  <2>2. reading \in Seq(Observations)
    BY LedgerAssumption
  <2>3. \A i \in DOMAIN reading : i \in Nat /\ reading[i] \in Observations
    BY <2>2
  <2>4. \A i \in DOMAIN reading : FactRow(req[r].doc, i, req[r].tender, reading[i]) \in FactType
    BY <1>0, <2>1, <2>3, FactRowTyped
  <2>5. drafts \in [1..Len(reading) -> FactType] /\ Len(reading) \in Nat
    BY <2>2, <2>4
  <2>6. drafts \in Seq(FactType)
    BY <2>5, SeqDef
  <2> HIDE DEF drafts
  <2>7. PICK m : m = Memo("facts", req[r].tender, req[r].corr, req[r].doc, req[r].ttl, drafts,
                          {}, {}, {})
    OBVIOUS
  <2>8. /\ m.at = "facts" /\ m.tender = req[r].tender /\ m.doc = req[r].doc /\ m.drafts = drafts
        /\ m.corr = req[r].corr /\ m.held = {} /\ m.asked = {} /\ m.counts = {}
    BY <2>7 DEF Memo
  <2>9. Typed(m)
    BY <2>1, <2>6, <2>8, FS_EmptySet DEF Typed
  <2>10. Go(r, m)
    BY <1>3, <2>7 DEF Recognise, drafts
  <2>11. TypedTables'
    BY <1>0, <1>3, TablesStay DEF Recognise, project, ledger
  <2> QED BY <2>9, <2>10, <2>11, TypedStep
<1>4. CASE Unreadable(r)
  <2>1. req[r].doc \in Nat /\ req[r].corr \in CorrIds
    BY <1>0, <1>4 DEF Unreadable, Typed
  <2>2. PICK asked : asked = Enqueued({}, "napkin_unrecognized", <<req[r].corr, 0>>,
                                      <<req[r].doc, 0>>)
    OBVIOUS
  <2>3. asked \subseteq ItemType
    BY <2>1, <2>2, EnqueuedTyped DEF ExceptionTypes
  <2>4. queue' = queue \cup asked /\ UNCHANGED <<locked, evidence, facts, contributions>>
    BY <1>4, <2>2 DEF Unreadable, project
  <2>5. TypedTables'
    BY <1>0, <2>3, <2>4 DEF TypedTables
  <2> QED BY <1>4, <2>5, IdleTyped, TypedStep DEF Unreadable, End
<1>5. CASE HandleFact(r)
  <2>1. PICK f : f = Head(req[r].drafts)
    OBVIOUS
  <2>2. /\ req[r].at = "facts" /\ req[r].drafts # << >>
        /\ UNCHANGED <<locked, evidence, facts, queue, contributions>>
    BY <1>5 DEF HandleFact, project
  <2>3. f \in FactType /\ Tail(req[r].drafts) \in Seq(FactType) /\ req[r].corr \in CorrIds
    BY <1>0, <2>1, <2>2 DEF Typed
  <2> DEFINE Asked(type) == Enqueued(req[r].asked, type, <<req[r].corr, f.index>>,
                                     <<f.doc, f.index>>)
  <2>4. \E asked :
          /\ Go(r, Memo("facts", req[r].tender, req[r].corr, req[r].doc, req[r].ttl,
                        Tail(req[r].drafts), req[r].held \cup {f}, asked, {}))
          /\ \/ asked = req[r].asked
             \/ \E type \in ExceptionTypes : asked = Asked(type)
    BY <1>5, <2>1 DEF HandleFact, ExceptionTypes, FactCorrelation
  <2>5. PICK asked :
          /\ Go(r, Memo("facts", req[r].tender, req[r].corr, req[r].doc, req[r].ttl,
                        Tail(req[r].drafts), req[r].held \cup {f}, asked, {}))
          /\ asked \subseteq ItemType
    <3>1. f.doc \in Nat /\ f.index \in Nat
      BY <2>3 DEF FactType
    <3>2. \A type \in ExceptionTypes : Asked(type) \subseteq ItemType
      BY <1>0, <2>3, <3>1, EnqueuedTyped DEF Typed
    <3> HIDE DEF Asked
    <3> QED BY <1>0, <2>4, <3>2 DEF Typed
  <2>6. PICK m : m = Memo("facts", req[r].tender, req[r].corr, req[r].doc, req[r].ttl,
                          Tail(req[r].drafts), req[r].held \cup {f}, asked, {})
    OBVIOUS
  <2>7. /\ m.at = "facts" /\ m.tender = req[r].tender /\ m.doc = req[r].doc
        /\ m.corr = req[r].corr /\ m.drafts = Tail(req[r].drafts)
        /\ m.held = req[r].held \cup {f} /\ m.asked = asked /\ m.counts = {}
    BY <2>6 DEF Memo
  <2>8. IsFiniteSet(m.held)
    BY <1>0, <2>7, FS_AddElement DEF Typed
  <2>9. Typed(m)
    BY <1>0, <2>2, <2>3, <2>5, <2>7, <2>8 DEF Typed
  <2>10. TypedTables'
    BY <1>0, <2>2, TablesStay
  <2> QED BY <2>5, <2>6, <2>9, <2>10, TypedStep
<1>6. CASE CommitNapkin(r)
  <2>1. /\ facts' = facts \cup req[r].held /\ queue' = queue \cup req[r].asked
        /\ UNCHANGED <<locked, evidence, contributions>>
    BY <1>6 DEF CommitNapkin, project
  <2>2. IsFiniteSet(facts')
    BY <1>0, <2>1, FS_Union DEF TypedTables, Typed
  <2>3. TypedTables'
    BY <1>0, <2>1, <2>2 DEF TypedTables, Typed
  <2> QED BY <1>6, <2>3, IdleTyped, TypedStep DEF CommitNapkin, End
<1> QED BY <1>1, <1>2, <1>3, <1>4, <1>5, <1>6 DEF NapkinStep

\* A category is counted when it has a fact, so no contribution is of none.
LEMMA CountsTyped ==
  ASSUME TypedTables, NEW t
  PROVE  \A c \in CategoryCounts(t) : c.count \in Nat \ {0}
<1> SUFFICES ASSUME NEW cat \in Categories, Categorised(t, cat) # {}
             PROVE  Cardinality(Categorised(t, cat)) \in Nat \ {0}
  BY DEF CategoryCounts
<1>1. IsFiniteSet(Categorised(t, cat))
  BY FS_Subset DEF Categorised, TypedTables
<1> QED BY <1>1, FS_CardinalityType, FS_EmptySet

LEMMA CloseKeepsTypes ==
  ASSUME LedgerTypeInv, NEW r \in Requests, CloseStep(r)
  PROVE  LedgerTypeInv'
<1>0. Typed(req[r]) /\ TypedTables
  BY DEF LedgerTypeInv
<1>1. ASSUME NEW t \in Tenders, BeginClose(r, t) PROVE LedgerTypeInv'
  <2>1. Typed(Start("probe", t))
    BY EmptyHanded DEF Start
  <2>2. TypedTables'
    BY <1>0, <1>1, TablesStay DEF BeginClose, project, ledger
  <2> QED BY <1>1, <2>1, <2>2, TypedStep DEF BeginClose
<1>2. CASE ProbeClosed(r)
  <2>1. req[r].tender \in Tenders
    BY <1>0, <1>2 DEF ProbeClosed, Typed
  <2>2. Typed(Start("count", req[r].tender))
    BY <2>1, EmptyHanded DEF Start
  <2>3. TypedTables'
    BY <1>0, <1>2, TablesStay DEF ProbeClosed, project, ledger
  <2> QED BY <1>2, <2>2, <2>3, IdleTyped, TypedStep DEF ProbeClosed, End
<1>3. CASE CountFacts(r)
  <2>1. req[r].tender \in Tenders
    BY <1>0, <1>3 DEF CountFacts, Typed
  <2>2. Typed(Memo("contribute", req[r].tender, NoCorr, 0, FALSE, << >>, {}, {},
                   CategoryCounts(req[r].tender)))
    BY <1>0, <2>1, EmptyHanded, CountsTyped
  <2>3. TypedTables'
    BY <1>0, <1>3, TablesStay DEF CountFacts, project, ledger
  <2> QED BY <1>3, <2>2, <2>3, TypedStep DEF CountFacts
<1>4. CASE CommitClose(r)
  <2> DEFINE rows == {ContributionRow(Cardinality(contributions), req[r].tender, c) :
                        c \in req[r].counts}
  <2>1. req[r].tender \in Tenders /\ \A c \in req[r].counts : c.count \in Nat \ {0}
    BY <1>0, <1>4 DEF CommitClose, Typed
  <2>2. \A c \in rows : c.tender \in Tenders /\ c.count \in Nat \ {0}
    BY <2>1 DEF ContributionRow
  <2>3. contributions' = contributions \cup rows /\ UNCHANGED <<locked, evidence, facts, queue>>
    BY <1>4 DEF CommitClose, project, ledger
  <2>4. TypedTables'
    <3> HIDE DEF rows
    <3> QED BY <1>0, <2>2, <2>3 DEF TypedTables
  <2> QED BY <1>4, <2>4, IdleTyped, TypedStep DEF CommitClose, End
<1> QED BY <1>1, <1>2, <1>3, <1>4 DEF CloseStep

LEMMA CalibrationKeepsTypes ==
  ASSUME LedgerTypeInv, NEW r \in Requests, CalibrationStep(r) \/ Rollback(r)
  PROVE  LedgerTypeInv'
<1>1. TypedTables'
  <2>1. UNCHANGED <<locked, evidence, facts, queue, contributions>>
    BY DEF CalibrationStep, LoadOutcome, StoreOutcome, LoadLinks, ConfirmLink, Rollback, project,
           ledger
  <2> QED BY <2>1, TablesStay DEF LedgerTypeInv
<1>2. CASE Go(r, Idle)
  BY <1>1, <1>2, IdleTyped, TypedStep
<1>3. ASSUME NEW t \in Tenders, LoadOutcome(r, t) PROVE LedgerTypeInv'
  <2>1. Typed(Start("outcome", t))
    BY EmptyHanded DEF Start
  <2> QED BY <1>1, <1>3, <2>1, TypedStep DEF LoadOutcome
<1>4. ASSUME NEW t \in Tenders, NEW s \in 1..MaxSnapshots, LoadLinks(r, s, t)
      PROVE  LedgerTypeInv'
  <2>1. s \in Nat
    BY LedgerAssumption
  <2>2. Typed(Memo("link", t, NoCorr, s, FALSE, << >>, {}, {}, {}))
    BY <2>1, EmptyHanded
  <2> QED BY <1>1, <1>4, <2>2, TypedStep DEF LoadLinks
<1> QED BY <1>2, <1>3, <1>4 DEF CalibrationStep, StoreOutcome, ConfirmLink, Rollback, End

\* The rows of the ledger have the types of their columns: an exception is of
\* one of the four types the router enqueues, and what close_project
\* contributes for a category is a positive count, also when closes overlap.
THEOREM LedgerTypeCorrect == Spec => []TypeOK
<1>1. Init => LedgerTypeInv
  <2> SUFFICES ASSUME Init PROVE LedgerTypeInv
    OBVIOUS
  <2>1. TypedTables
    BY FS_EmptySet DEF Init, TypedTables
  <2>2. \A r \in Requests : req[r] = Idle
    BY DEF Init
  <2> QED BY <2>1, <2>2, IdleTyped DEF Init, LedgerTypeInv
<1>2. LedgerTypeInv /\ [Next]_vars => LedgerTypeInv'
  <2> SUFFICES ASSUME LedgerTypeInv, [Next]_vars PROVE LedgerTypeInv'
    OBVIOUS
  <2>1. ASSUME NEW r \in Requests,
               NapkinStep(r) \/ CloseStep(r) \/ CalibrationStep(r) \/ Rollback(r)
        PROVE  LedgerTypeInv'
    BY <2>1, NapkinKeepsTypes, CloseKeepsTypes, CalibrationKeepsTypes
  <2>2. ASSUME UNCHANGED <<evidence, facts, queue, contributions, req>>,
               locked' \in [Tenders -> SUBSET Vendors]
        PROVE  LedgerTypeInv'
    <3>1. TypedTables'
      BY <2>2 DEF LedgerTypeInv, TypedTables
    <3>2. \A r \in Requests : Typed(req[r])'
      BY <2>2 DEF LedgerTypeInv, Typed
    <3> QED BY <2>2, <3>1, <3>2 DEF LedgerTypeInv
  <2>3. locked \in [Tenders -> SUBSET Vendors]
    BY DEF LedgerTypeInv, TypedTables
  <2>4. ASSUME NEW t \in Tenders, NEW type \in {"bid", "no_bid"}, NEW vs \in SUBSET Vendors,
               Decide(t, type, vs)
        PROVE  LedgerTypeInv'
    <3>1. locked' \in [Tenders -> SUBSET Vendors]
      BY <2>3, <2>4 DEF Decide
    <3> QED BY <2>2, <2>4, <3>1 DEF Decide, ledger
  <2>5. CASE PostSnapshot \/ \E t \in Tenders : PostLossReason(t)
    BY <2>2, <2>3, <2>5 DEF PostSnapshot, PostLossReason, project, ledger
  <2>6. CASE UNCHANGED vars
    BY <2>2, <2>3, <2>6 DEF vars, project, ledger
  <2> QED BY <2>1, <2>4, <2>5, <2>6 DEF Next
<1>3. LedgerTypeInv => TypeOK
  BY DEF LedgerTypeInv, TypedTables, Typed, TypeOK
<1> QED BY <1>1, <1>2, <1>3, PTL DEF Spec
=============================================================================
