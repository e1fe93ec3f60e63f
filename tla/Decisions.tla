----------------------------- MODULE Decisions -----------------------------
(***************************************************************************)
(* Go/no-go inputs, bid-readiness candidates and decisions of tenders      *)
(* (routers/decision.py, decision_store.py), the idempotency keys that     *)
(* guard the two POST routes (idempotency.py), and the paged fetch of the  *)
(* vendor offers a candidate is computed from (contracts/vendor_api.py,    *)
(* api_vendor/routers/internal.py).                                        *)
(*                                                                         *)
(* A POST request is one READ COMMITTED transaction (get_connection): its  *)
(* reservation, its rows and its stored response become visible together   *)
(* at the commit, and the answer is sent after it.  Rows are only ever     *)
(* inserted.                                                               *)
(***************************************************************************)
EXTENDS Matching

CONSTANTS
  Tenders, NoTender,
  Keys,           \* Idempotency-Key headers that clients send
  Requests,       \* POST requests that may be in flight at the same time
  Walks,          \* GET requests that may be in flight at the same time
  Lines,          \* boq_lines of each tender
  Offers, LateOffers,   \* vendor offers present at the start, or stored later
  Reported,       \* vendors a reputation fact may be reported about
  PageLimit,      \* offers in a page of the vendor service
  AsOf,           \* the as_of parameter of the candidate
  Bodies,         \* the requests that clients send, each with its tender
  MaxInputs, MaxCandidates, MaxDecisions,   \* bounds on the rows
  MaxClock        \* bound on the API server's clock

\* DECISION_TYPES; any other decision_type is refused with 422 at once.
DecisionTypes == {"go", "no_go", "bid", "no_bid", "conditional_bid"}

ASSUME DecisionsAssumption ==
  /\ NoTender \notin Tenders
  /\ PageLimit \in Nat \ {0}
  /\ Bodies \subseteq [tender : Tenders, type : DecisionTypes \cup {"inputs"},
                       inputs : Nat, candidate : Nat]
  /\ MaxInputs \in Nat /\ MaxCandidates \in Nat /\ MaxDecisions \in Nat /\ MaxClock \in Nat

\* vendor_offers.id is a serial primary key.
AllOffers == Offers \cup LateOffers
ASSUME OffersAssumption ==
  /\ IsFiniteSet(AllOffers)
  /\ \A o \in AllOffers : o.id \in Nat \ {0}
  /\ \A o, p \in AllOffers : o.id = p.id => o = p

VARIABLES
  idem,        \* committed idempotency_keys rows, by slot
  inputs,      \* go_no_go_inputs
  candidates,  \* bid_readiness_candidates
  decisions, lockIns,
  answers,     \* the 201 responses sent: <<slot, id of the row>>
  nextId,      \* the sequence behind decisions.id
  clock,
  offers, facts,   \* the vendor service: vendor_offers, active reputation
  req, walk

rows   == <<idem, inputs, decisions, lockIns, answers>>
vendor == <<offers, facts>>
vars   == <<rows, candidates, nextId, clock, vendor, req, walk>>

-----------------------------------------------------------------------------
(* Requests and rows. *)

\* A body is what fingerprint() hashes: the tender of the path, what is
\* posted ("inputs" for go/no-go inputs) and the rows it refers to, 0 for none.
NoBody == [tender |-> NoTender, type |-> "none", inputs |-> 0, candidate |-> 0]

\* The primary key (idempotency_key, route); the route follows from the body.
Routes == {"inputs", "decisions"}
Slots  == Keys \X Routes
Route(b) == IF b.type = "inputs" THEN "inputs" ELSE "decisions"

NoRecord == [fp |-> NoBody, answer |-> 0]

Memo(at, slot, b, stamp, id, before) ==
  [at |-> at, slot |-> slot, body |-> b, stamp |-> stamp, id |-> id, before |-> before]
Idle == Memo("idle", <<>>, NoBody, 0, 0, {})
Goto(r, at) == Memo(at, req[r].slot, req[r].body, req[r].stamp, req[r].id, req[r].before)

\* A walk over the pages; owed, the offers that were there when it began,
\* is the model's.
Walk(at, t, after, dtos, owed) ==
  [at |-> at, tender |-> t, after |-> after, dtos |-> dtos, owed |-> owed]
Ended == Walk("idle", NoTender, 0, << >>, {})

Init ==
  /\ idem = [s \in Slots |-> NoRecord]
  /\ inputs = {} /\ candidates = {} /\ decisions = {} /\ lockIns = {} /\ answers = {}
  /\ nextId = 1 /\ clock = 0
  /\ offers = Offers /\ facts = {}
  /\ req = [r \in Requests |-> Idle]
  /\ walk = [w \in Walks |-> Ended]

Go(r, rec) == req' = [req EXCEPT ![r] = rec]
End(r)     == Go(r, Idle)

OfTender(rows_, t) == {d \in rows_ : d.tender = t}

-----------------------------------------------------------------------------
(* The idempotency key. *)

\* A POST arrives.  A client repeats a key with the same body after an
\* error or a lost answer, and may reuse one for something else.
BeginPost(r, k, b) ==
  /\ req[r].at = "idle"
  /\ Go(r, Memo("reserve", <<k, Route(b)>>, b, 0, 0,
                {d.id : d \in OfTender(decisions, b.tender)}))
  /\ UNCHANGED <<rows, candidates, nextId, clock, vendor, walk>>

\* The INSERT of a key waits for a transaction that has inserted it.
HoldsKey(q, s) == req[q].slot = s /\ req[q].at \in {"write", "check", "insert", "commit"}
KeyFree(r) == \A q \in Requests \ {r} : ~HoldsKey(q, req[r].slot)

\* A form that commits the reservation before the mutation.
ReserveNew_Early(r) ==
  LET old == idem[req[r].slot] IN
  /\ req[r].at = "reserve"
  /\ old = NoRecord \/ (old.fp = req[r].body /\ old.answer = 0)
  /\ Go(r, Goto(r, IF Route(req[r].body) = "inputs" THEN "write" ELSE "check"))
  /\ idem' = [idem EXCEPT ![req[r].slot] = [fp |-> req[r].body, answer |-> 0]]
  /\ UNCHANGED <<inputs, decisions, lockIns, answers, candidates, nextId, clock, vendor, walk>>

\* reserve() returns None: the row is new, or a row without a response.
ReserveNew(r) ==
  LET old == idem[req[r].slot] IN
  /\ req[r].at = "reserve" /\ KeyFree(r)
  /\ old = NoRecord \/ (old.fp = req[r].body /\ old.answer = 0)
  /\ Go(r, Goto(r, IF Route(req[r].body) = "inputs" THEN "write" ELSE "check"))
  /\ UNCHANGED <<rows, candidates, nextId, clock, vendor, walk>>

\* A form that does not compare the fingerprints.
Replay_AnyBody(r) ==
  LET old == idem[req[r].slot] IN
  /\ req[r].at = "reserve" /\ KeyFree(r) /\ old.answer # 0
  /\ answers' = answers \cup {[slot |-> req[r].slot, body |-> req[r].body, id |-> old.answer]}
  /\ End(r)
  /\ UNCHANGED <<idem, inputs, decisions, lockIns, candidates, nextId, clock, vendor, walk>>

\* The same request again: the stored response, and no effect.
Replay(r) ==
  LET old == idem[req[r].slot] IN
  /\ req[r].at = "reserve" /\ KeyFree(r)
  /\ old.fp = req[r].body /\ old.answer # 0
  /\ answers' = answers \cup {[slot |-> req[r].slot, body |-> req[r].body, id |-> old.answer]}
  /\ End(r)
  /\ UNCHANGED <<idem, inputs, decisions, lockIns, candidates, nextId, clock, vendor, walk>>

\* IdempotencyKeyReused: 409.
RefuseReused(r) ==
  LET old == idem[req[r].slot] IN
  /\ req[r].at = "reserve" /\ KeyFree(r)
  /\ old # NoRecord /\ old.fp # req[r].body
  /\ End(r)
  /\ UNCHANGED <<rows, candidates, nextId, clock, vendor, walk>>

\* store_response, the commit and the 201: the end of a successful POST.
StoreResponse(r, id) ==
  /\ idem' = [idem EXCEPT ![req[r].slot] = [fp |-> req[r].body, answer |-> id]]
  /\ answers' = answers \cup {[slot |-> req[r].slot, body |-> req[r].body, id |-> id]}
  /\ End(r)

\* An error, a lost connection or a crash of the server: get_connection
\* rolls everything back, and the client may try again.
Rollback(r) ==
  /\ req[r].at # "idle"
  /\ End(r)
  /\ UNCHANGED <<rows, candidates, nextId, clock, vendor, walk>>

-----------------------------------------------------------------------------
(* The two POST routes. *)

InputsRow(id, r) == [id |-> id, tender |-> req[r].body.tender, slot |-> req[r].slot]

\* create_go_no_go_inputs, after the reservation.
StoreInputs(r) ==
  LET id == Cardinality(inputs) + 1 IN
  /\ req[r].at = "write" /\ id <= MaxInputs
  /\ inputs' = inputs \cup {InputsRow(id, r)}
  /\ StoreResponse(r, id)
  /\ UNCHANGED <<decisions, lockIns, candidates, nextId, clock, vendor, walk>>

\* Both rows a decision refers to must exist and be of its tender.
RefersTo(table, id, t) == id = 0 \/ \E row \in table : row.id = id /\ row.tender = t

\* A form that looks the candidate up and does not compare its tender.
ReferencesOK_AnyTender(b) ==
  /\ RefersTo(inputs, b.inputs, b.tender)
  /\ b.candidate = 0 \/ \E row \in candidates : row.id = b.candidate

ReferencesOK(b) ==
  RefersTo(inputs, b.inputs, b.tender) /\ RefersTo(candidates, b.candidate, b.tender)

\* create_decision, from the checks to decided_at; else 422.
CheckReferences(r) ==
  /\ req[r].at = "check"
  /\ IF ReferencesOK(req[r].body)
     THEN Go(r, Memo("insert", req[r].slot, req[r].body, clock, 0, req[r].before))
     ELSE End(r)
  /\ UNCHANGED <<rows, candidates, nextId, clock, vendor, walk>>

\* store_decision: the row takes its id and is not visible yet.
InsertDecision(r) ==
  /\ req[r].at = "insert" /\ nextId <= MaxDecisions
  /\ Go(r, Memo("commit", req[r].slot, req[r].body, req[r].stamp, nextId, req[r].before))
  /\ nextId' = nextId + 1
  /\ UNCHANGED <<rows, candidates, clock, vendor, walk>>

BidTypes == {"bid", "conditional_bid"}

\* One store_lock_in_requirement for every critical line of the candidate.
LockInsOf(b, id) ==
  {[decision |-> id, tender |-> b.tender, line |-> p[1], vendor |-> p[2]] :
     p \in UNION {c.critical : c \in {x \in candidates : x.id = b.candidate /\ b.type \in BidTypes}}}

\* The row of a decision; slot and before, the decisions of the tender that
\* were committed when the request arrived, are the model's.
DecisionRow(r) ==
  LET b == req[r].body IN
  [id |-> req[r].id, tender |-> b.tender, type |-> b.type, candidate |-> b.candidate,
   inputs |-> b.inputs, decided_at |-> req[r].stamp, slot |-> req[r].slot, before |-> req[r].before]

\* The rest of create_decision: lock-ins, response and commit.
CommitDecision(r) ==
  /\ req[r].at = "commit"
  /\ decisions' = decisions \cup {DecisionRow(r)}
  /\ lockIns' = lockIns \cup LockInsOf(req[r].body, req[r].id)
  /\ StoreResponse(r, req[r].id)
  /\ UNCHANGED <<inputs, candidates, nextId, clock, vendor, walk>>

Tick == clock < MaxClock /\ clock' = clock + 1
        /\ UNCHANGED <<rows, candidates, nextId, vendor, req, walk>>

-----------------------------------------------------------------------------
(* The decision in force: ORDER BY decided_at DESC, id DESC. *)

\* A form that takes the older row of two with the same stamp.
Outranks_OldFirst(d, e) ==
  d.decided_at > e.decided_at \/ (d.decided_at = e.decided_at /\ d.id < e.id)

Outranks(d, e) ==
  d.decided_at > e.decided_at \/ (d.decided_at = e.decided_at /\ d.id > e.id)

\* get_latest_decision_type, "none" for None.
LatestDecisionType(t) ==
  IF OfTender(decisions, t) = {} THEN "none"
  ELSE (CHOOSE d \in OfTender(decisions, t) :
          \A e \in OfTender(decisions, t) \ {d} : Outranks(d, e)).type

\* list_tenders_with_active_bid_decision
TendersWithActiveBid == {t \in Tenders : LatestDecisionType(t) \in BidTypes}

-----------------------------------------------------------------------------
(* get_bid_readiness_candidate: the walk over the vendor's pages. *)

\* The event id and the lines are there, and the walk starts at id 0.
BeginWalk(w, t) ==
  /\ walk[w].at = "idle" /\ Lines[t] # {}
  /\ Cardinality(candidates) < MaxCandidates
  /\ walk' = [walk EXCEPT ![w] = Walk("fetch", t, 0, << >>, {o.id : o \in offers})]
  /\ UNCHANGED <<rows, candidates, nextId, clock, vendor, req>>

\* The first n offers after the cursor, by id.
Page(after, n) ==
  {o \in offers : o.id > after /\ Cardinality({p \in offers : p.id > after /\ p.id < o.id}) < n}
InOrder(page) ==
  [k \in 1..Cardinality(page) |->
     CHOOSE o \in page : Cardinality({p \in page : p.id < o.id}) = k - 1]
HasMore(after) == Cardinality({o \in offers : o.id > after}) > PageLimit

\* A form whose cursor is the extra row that only says that there is more.
NextCursor_ExtraRow(page) ==
  CHOOSE i \in {o.id : o \in offers} : i > Max({o.id : o \in page})
    /\ \A o \in offers : o.id > Max({p.id : p \in page}) => i <= o.id

NextCursor(page) == Max({o.id : o \in page})

\* list_internal_offers for one page, in a transaction of the vendor's own.
FetchPage(w) ==
  LET page == Page(walk[w].after, PageLimit)
      seen == walk[w].dtos \o [k \in 1..Cardinality(page) |-> AsDTO(InOrder(page)[k], facts)]
  IN
  /\ walk[w].at = "fetch"
  /\ walk' = [walk EXCEPT ![w] =
       IF HasMore(@.after) THEN Walk("fetch", @.tender, NextCursor(page), seen, @.owed)
       ELSE Walk("store", @.tender, @.after, seen, @.owed)]
  /\ UNCHANGED <<rows, candidates, nextId, clock, vendor, req>>

\* VendorApiError: 502, or the request goes away.
WalkFails(w) ==
  /\ walk[w].at # "idle"
  /\ walk' = [walk EXCEPT ![w] = Ended]
  /\ UNCHANGED <<rows, candidates, nextId, clock, vendor, req>>

CandidateRow(id, t, dtos) ==
  [id |-> id, tender |-> t, is_lottery |-> IsLottery(Lines[t], dtos, AsOf),
   critical |-> CriticalLines(Lines[t], dtos, AsOf)]

\* build_bid_readiness_candidate and store_bid_readiness_candidate.
StoreCandidate(w) ==
  /\ walk[w].at = "store" /\ Cardinality(candidates) < MaxCandidates
  /\ candidates' = candidates \cup
       {CandidateRow(Cardinality(candidates) + 1, walk[w].tender, walk[w].dtos)}
  /\ walk' = [walk EXCEPT ![w] = Ended]
  /\ UNCHANGED <<rows, nextId, clock, vendor, req>>

\* Meanwhile vendors store offers and facts are reported about them.
StoreOffer(o) ==
  /\ o \in LateOffers \ offers
  /\ offers' = offers \cup {o}
  /\ UNCHANGED <<rows, candidates, nextId, clock, facts, req, walk>>
ReportFact(v, sign) ==
  /\ facts = {}                       \* bound: one report
  /\ facts' = {<<v, sign>>}
  /\ UNCHANGED <<rows, candidates, nextId, clock, offers, req, walk>>

-----------------------------------------------------------------------------
PostStep(r) ==
  \/ \E k \in Keys, b \in Bodies : BeginPost(r, k, b)
  \/ ReserveNew(r) \/ Replay(r) \/ RefuseReused(r) \/ Rollback(r)
  \/ StoreInputs(r) \/ CheckReferences(r) \/ InsertDecision(r) \/ CommitDecision(r)

WalkStep(w) ==
  \/ \E t \in Tenders : BeginWalk(w, t)
  \/ FetchPage(w) \/ WalkFails(w) \/ StoreCandidate(w)

VendorStep ==
  \/ \E o \in LateOffers : StoreOffer(o)
  \/ \E v \in Reported, sign \in {"positive", "negative"} : ReportFact(v, sign)

Next ==
  \/ \E r \in Requests : PostStep(r)
  \/ \E w \in Walks : WalkStep(w)
  \/ VendorStep
  \/ Tick

Spec == Init /\ [][Next]_vars

-----------------------------------------------------------------------------
(* Properties. *)

KeyedRows == inputs \cup decisions

TypeOK ==
  /\ idem \in [Slots -> {NoRecord} \cup [fp : Bodies, answer : Nat \ {0}]]
  /\ inputs \subseteq [id : Nat, tender : Tenders, slot : Slots]
  /\ \A c \in candidates : c.id \in Nat /\ c.tender \in Tenders /\ c.is_lottery \in BOOLEAN
  /\ decisions \subseteq
       [id : Nat, tender : Tenders, type : DecisionTypes, candidate : Nat,
        inputs : Nat, decided_at : Nat, slot : Slots, before : SUBSET Nat]
  /\ answers \subseteq [slot : Slots, body : Bodies, id : Nat]
  /\ nextId \in Nat \ {0} /\ clock \in Nat
  /\ req \in [Requests -> {Idle} \cup
       [at : {"reserve", "write", "check", "insert", "commit"}, slot : Slots, body : Bodies,
        stamp : Nat, id : Nat, before : SUBSET Nat]]
  /\ \A w \in Walks : walk[w].at \in {"idle", "fetch", "store"} /\ walk[w].after \in Nat

\* reserve() and store_response: whatever clients repeat, reuse or send
\* twice at once, and whatever is rolled back, a key stands for one row, and
\* every 201 sent under it names that row and answers the request that made
\* it, not another one.
OneEffectPerKey ==
  /\ \A a, b \in KeyedRows : a.slot = b.slot => a = b
  /\ \A a \in answers :
       /\ \E row \in KeyedRows : row.slot = a.slot /\ row.id = a.id
       /\ idem[a.slot].fp = a.body

\* create_decision's comment C2: no decision carries the lock-ins of another
\* tender's candidate.  Every lock-in names a line of its own tender, and a
\* bid decision has one for exactly the critical lines of its candidate.
LockInsFollowDecision ==
  /\ \A k \in lockIns :
       /\ \E l \in Lines[k.tender] : l.id = k.line
       /\ \E d \in decisions : d.id = k.decision /\ d.tender = k.tender /\ d.type \in BidTypes
  /\ \A d \in decisions, c \in candidates :
       d.candidate = c.id /\ d.type \in BidTypes =>
         c.critical = {<<k.line, k.vendor>> : k \in {x \in lockIns : x.decision = d.id}}

\* get_latest_decision_type: the decision in force is never one that
\* another decision of the tender was asked for after it was committed, even
\* when both were stamped in the same instant of the clock.
InForceIsNotSuperseded ==
  \A t \in Tenders : OfTender(decisions, t) # {} =>
    LatestDecisionType(t) \in
      {d.type : d \in {x \in OfTender(decisions, t) :
                         \A e \in OfTender(decisions, t) : x.id \notin e.before}}

\* list_vendor_offers: a finished walk has seen every offer that was there
\* when it began, and none twice, while vendors store new ones.
WalkMissesNothing ==
  \A w \in Walks : walk[w].at = "store" =>
    /\ \A i \in walk[w].owed : \E k \in DOMAIN walk[w].dtos : walk[w].dtos[k].offer.id = i
    /\ \A j, k \in DOMAIN walk[w].dtos :
         j < k => walk[w].dtos[j].offer.id < walk[w].dtos[k].offer.id

\* _traffic_light: one more page of offers never darkens a line, although a
\* later offer of a vendor replaces its earlier one and may carry another
\* reputation.
LightRank == [red |-> 0, yellow |-> 1, green |-> 2]
LightOf(w, l) == LightRank[TrafficLight(l, walk[w].dtos, AsOf)]
LightsOnlyImprove ==
  [][\A w \in Walks : walk[w].at = "fetch" /\ walk'[w].at # "idle" =>
       \A l \in Lines[walk[w].tender] : LightOf(w, l) <= LightOf(w, l)']_vars

\* The routes implement the promise of the key: the row of a slot appears
\* once and stays.
RowOf(s) ==
  IF \E row \in KeyedRows : row.slot = s
  THEN (CHOOSE row \in KeyedRows : row.slot = s).id ELSE 0
Abstract == INSTANCE OncePerKey
  WITH Nothing <- 0, done <- [s \in Slots |-> RowOf(s)]
ImplementsOncePerKey == Abstract!Spec

=============================================================================
