--------------------------- MODULE DecisionsProofs ---------------------------
(* An idempotency key stands for one row and the POST routes implement       *)
(* OncePerKey; lock-ins follow their decision, the decision in force is not  *)
(* superseded, and the walk over the vendor's pages misses no offer: for any *)
(* keys, bodies, tenders, offers and concurrent requests.                    *)
EXTENDS Decisions, SequenceTheorems, FiniteSetTheorems, WellFoundedInduction, TLAPS

-----------------------------------------------------------------------------
(* The invariant. *)

\* A committed row is the stored answer of its key, so its key has one.
RowsAreAnswers ==
  \A row \in KeyedRows : row.slot \in Slots /\ idem[row.slot].answer = row.id /\ row.id # 0

AnswersHaveRows ==
  \A s \in Slots : idem[s].answer # 0 =>
    \E row \in KeyedRows : row.slot = s /\ row.id = idem[s].answer

OneRow == \A a, b \in KeyedRows : a.slot = b.slot => a = b

\* What has been sent is what is stored.
SentIsStored ==
  \A a \in answers :
    a.slot \in Slots /\ a.id # 0 /\ idem[a.slot].answer = a.id /\ idem[a.slot].fp = a.body

\* No reservation is committed without its response.
NoBareKey == \A s \in Slots : idem[s].answer = 0 => idem[s] = NoRecord

\* A transaction past its reservation is alone on its key, which has no row.
Busy(q) == req[q].at \in {"write", "check", "insert", "commit"}
HoldersAlone ==
  /\ \A q \in Requests : Busy(q) => idem[req[q].slot].answer = 0
  /\ \A q, r \in Requests : Busy(q) /\ Busy(r) /\ req[q].slot = req[r].slot => q = r

RequestsOK ==
  \A q \in Requests :
    /\ req[q].at # "idle" => req[q].slot \in Slots
    /\ req[q].at = "commit" => req[q].id \in Nat \ {0}

Shapes ==
  /\ DOMAIN req = Requests /\ DOMAIN idem = Slots
  /\ nextId \in Nat \ {0} /\ IsFiniteSet(inputs)

KeyInv ==
  /\ Shapes /\ RequestsOK
  /\ RowsAreAnswers /\ AnswersHaveRows /\ OneRow /\ SentIsStored /\ NoBareKey /\ HoldersAlone

-----------------------------------------------------------------------------
(* What a step has to show. *)

LEMMA MemoFields ==
  ASSUME NEW at, NEW s, NEW b, NEW stamp, NEW id, NEW before
  PROVE  /\ Memo(at, s, b, stamp, id, before).at = at
         /\ Memo(at, s, b, stamp, id, before).slot = s
         /\ Memo(at, s, b, stamp, id, before).id = id
BY DEF Memo

LEMMA IdleFields == Idle.at = "idle"
BY DEF Idle, Memo

LEMMA KeyInvInit == Init => KeyInv
<1> SUFFICES ASSUME Init PROVE KeyInv
  OBVIOUS
<1>1. DOMAIN req = Requests /\ \A q \in Requests : req[q].at = "idle"
  BY IdleFields DEF Init
<1>2. DOMAIN idem = Slots /\ \A s \in Slots : idem[s] = NoRecord /\ idem[s].answer = 0
  BY DEF Init, NoRecord
<1>3. inputs = {} /\ decisions = {} /\ answers = {} /\ nextId = 1 /\ IsFiniteSet(inputs)
  BY FS_EmptySet DEF Init
<1>4. KeyedRows = {}
  BY <1>3 DEF KeyedRows
<1> QED
  BY <1>1, <1>2, <1>3, <1>4 DEF KeyInv, Shapes, RequestsOK, RowsAreAnswers, AnswersHaveRows,
     OneRow, SentIsStored, NoBareKey, HoldersAlone, Busy

\* A step that leaves the rows alone and moves one request.
LEMMA MoveKeeps ==
  ASSUME KeyInv, NEW r \in Requests, NEW m, Go(r, m), UNCHANGED rows,
         nextId' \in Nat \ {0},
         m.at # "idle" => m.slot \in Slots,
         m.at = "commit" => m.id \in Nat \ {0},
         m.at \in {"write", "check", "insert", "commit"} =>
           /\ idem[m.slot].answer = 0
           /\ \A q \in Requests \ {r} : Busy(q) => req[q].slot # m.slot
  PROVE  KeyInv'
<1>1. /\ DOMAIN req' = Requests /\ req'[r] = m
      /\ \A q \in Requests \ {r} : req'[q] = req[q]
  BY DEF Go, KeyInv, Shapes
<1>2. /\ idem' = idem /\ inputs' = inputs /\ decisions' = decisions /\ answers' = answers
      /\ KeyedRows' = KeyedRows
  BY DEF rows, KeyedRows
<1>3. Shapes'
  BY <1>1, <1>2 DEF KeyInv, Shapes
<1>4. RequestsOK'
  BY <1>1 DEF KeyInv, RequestsOK
<1>5. RowsAreAnswers' /\ AnswersHaveRows' /\ OneRow' /\ SentIsStored' /\ NoBareKey'
  BY <1>2 DEF KeyInv, RowsAreAnswers, AnswersHaveRows, OneRow, SentIsStored, NoBareKey
<1>6. HoldersAlone'
  <2>1. \A q \in Requests \ {r} : Busy(q)' <=> Busy(q)
    BY <1>1 DEF Busy
  <2>2. Busy(r)' <=> m.at \in {"write", "check", "insert", "commit"}
    BY <1>1 DEF Busy
  <2>3. ASSUME NEW q \in Requests, Busy(q)' PROVE idem'[req'[q].slot].answer = 0
    BY <2>1, <2>2, <2>3, <1>1, <1>2 DEF KeyInv, HoldersAlone
  <2>4. ASSUME NEW p \in Requests, NEW q \in Requests, Busy(p)', Busy(q)',
               req'[p].slot = req'[q].slot
        PROVE  p = q
    BY <2>1, <2>2, <2>4, <1>1 DEF KeyInv, HoldersAlone
  <2> QED BY <2>3, <2>4 DEF HoldersAlone
<1> QED BY <1>3, <1>4, <1>5, <1>6 DEF KeyInv

\* The commit of a POST that held its key: one new row, its response, its 201.
LEMMA CommitKeeps ==
  ASSUME KeyInv, NEW r \in Requests, Busy(r), NEW id \in Nat \ {0}, NEW row,
         row.id = id, row.slot = req[r].slot,
         StoreResponse(r, id), KeyedRows' = KeyedRows \cup {row},
         nextId' = nextId, IsFiniteSet(inputs')
  PROVE  KeyInv'
<1>0. PICK s : s = req[r].slot
  OBVIOUS
<1>1. PICK rec : rec = [fp |-> req[r].body, answer |-> id]
  OBVIOUS
<1>2. rec.answer = id /\ rec.fp = req[r].body /\ s \in Slots
  BY <1>0, <1>1 DEF KeyInv, RequestsOK, Busy
<1>3. /\ DOMAIN idem' = Slots /\ idem'[s] = rec
      /\ \A t \in Slots \ {s} : idem'[t] = idem[t]
  BY <1>0, <1>1, <1>2 DEF StoreResponse, KeyInv, Shapes
<1>4. PICK sent : sent = [slot |-> s, body |-> req[r].body, id |-> id]
  OBVIOUS
<1>5. answers' = answers \cup {sent} /\ sent.slot = s /\ sent.id = id /\ sent.body = rec.fp
  BY <1>0, <1>2, <1>4 DEF StoreResponse
<1>6. /\ DOMAIN req' = Requests /\ req'[r].at = "idle"
      /\ \A q \in Requests \ {r} : req'[q] = req[q]
  BY IdleFields DEF StoreResponse, End, Go, KeyInv, Shapes
<1>7. /\ idem[s].answer = 0
      /\ \A q \in Requests \ {r} : Busy(q) => req[q].slot # s
  BY <1>0 DEF KeyInv, HoldersAlone
<1>8. \A old \in KeyedRows : old.slot # s
  BY <1>7 DEF KeyInv, RowsAreAnswers
<1>9. \A a \in answers : a.slot # s
  BY <1>7 DEF KeyInv, SentIsStored
<1>10. Shapes'
  BY <1>3, <1>6 DEF KeyInv, Shapes
<1>11. RequestsOK'
  BY <1>6 DEF KeyInv, RequestsOK
<1>12. RowsAreAnswers' /\ OneRow'
  BY <1>0, <1>2, <1>3, <1>8 DEF KeyInv, RowsAreAnswers, OneRow
<1>13. AnswersHaveRows'
  <2> SUFFICES ASSUME NEW t \in Slots, idem'[t].answer # 0
               PROVE  \E x \in KeyedRows' : x.slot = t /\ x.id = idem'[t].answer
    BY DEF AnswersHaveRows
  <2>1. CASE t = s
    BY <2>1, <1>0, <1>2, <1>3
  <2>2. CASE t # s
    BY <2>2, <1>3 DEF KeyInv, AnswersHaveRows
  <2> QED BY <2>1, <2>2
<1>14. SentIsStored'
  BY <1>2, <1>3, <1>5, <1>9 DEF KeyInv, SentIsStored
<1>15. NoBareKey'
  BY <1>2, <1>3 DEF KeyInv, NoBareKey
<1>16. HoldersAlone'
  <2>1. \A q \in Requests : Busy(q)' <=> q # r /\ Busy(q)
    BY <1>6 DEF Busy
  <2>2. ASSUME NEW q \in Requests, Busy(q)' PROVE idem'[req'[q].slot].answer = 0
    <3>1. req'[q] = req[q] /\ Busy(q) /\ req[q].slot # s /\ req[q].slot \in Slots
      BY <2>1, <2>2, <1>6, <1>7 DEF KeyInv, RequestsOK, Busy
    <3> QED BY <3>1, <1>3 DEF KeyInv, HoldersAlone
  <2>3. ASSUME NEW p \in Requests, NEW q \in Requests, Busy(p)', Busy(q)',
               req'[p].slot = req'[q].slot
        PROVE  p = q
    BY <2>1, <2>3, <1>6 DEF KeyInv, HoldersAlone
  <2> QED BY <2>2, <2>3 DEF HoldersAlone
<1> QED
  BY <1>10, <1>11, <1>12, <1>13, <1>14, <1>15, <1>16 DEF KeyInv

-----------------------------------------------------------------------------
(* The actions. *)

LEMMA BeginPostKeeps ==
  ASSUME KeyInv, NEW r \in Requests, NEW k \in Keys, NEW b \in Bodies, BeginPost(r, k, b)
  PROVE  KeyInv'
<1>1. PICK m : m = Memo("reserve", <<k, Route(b)>>, b, 0, 0,
                        {d.id : d \in OfTender(decisions, b.tender)})
  OBVIOUS
<1>2. m.at = "reserve" /\ m.slot = <<k, Route(b)>> /\ Go(r, m)
  BY <1>1, MemoFields DEF BeginPost
<1>3. m.slot \in Slots
  BY <1>2 DEF Slots, Routes, Route
<1>4. UNCHANGED rows /\ nextId' = nextId /\ nextId \in Nat \ {0}
  BY DEF BeginPost, KeyInv, Shapes
<1> QED BY <1>2, <1>3, <1>4, MoveKeeps

LEMMA ReserveNewKeeps ==
  ASSUME KeyInv, NEW r \in Requests, ReserveNew(r)
  PROVE  KeyInv'
<1>1. PICK m : m = Goto(r, IF Route(req[r].body) = "inputs" THEN "write" ELSE "check")
  OBVIOUS
<1>2. m.at \in {"write", "check"} /\ m.slot = req[r].slot /\ Go(r, m)
  BY <1>1 DEF ReserveNew, Goto, Memo
<1>3. UNCHANGED rows /\ nextId' = nextId /\ nextId \in Nat \ {0}
  BY DEF ReserveNew, KeyInv, Shapes
<1>4. req[r].slot \in Slots
  BY DEF ReserveNew, KeyInv, RequestsOK
<1>5. idem[req[r].slot].answer = 0
  BY DEF ReserveNew, NoRecord
<1>6. \A q \in Requests \ {r} : Busy(q) => req[q].slot # req[r].slot
  BY DEF ReserveNew, KeyFree, HoldsKey, Busy
<1> QED BY <1>2, <1>3, <1>4, <1>5, <1>6, MoveKeeps

\* The steps that end a request without a row: 409, 422, a roll back.
LEMMA EndKeeps ==
  ASSUME KeyInv, NEW r \in Requests, End(r), UNCHANGED <<rows, nextId>>
  PROVE  KeyInv'
<1>1. Go(r, Idle) /\ UNCHANGED rows /\ nextId' \in Nat \ {0}
  BY DEF End, KeyInv, Shapes
<1>2. PICK m : m = Idle
  OBVIOUS
<1>3. m.at = "idle" /\ Go(r, m)
  BY <1>1, <1>2, IdleFields
<1> QED BY <1>1, <1>3, MoveKeeps

\* A step of a transaction that keeps its key.
LEMMA HolderMoves ==
  ASSUME KeyInv, NEW r \in Requests, Busy(r), NEW m, Go(r, m), UNCHANGED rows,
         m.slot = req[r].slot, m.at = "commit" => m.id \in Nat \ {0}, nextId' \in Nat \ {0}
  PROVE  KeyInv'
<1>1. m.slot \in Slots
  BY DEF KeyInv, RequestsOK, Busy
<1>2. idem[m.slot].answer = 0 /\ \A q \in Requests \ {r} : Busy(q) => req[q].slot # m.slot
  BY DEF KeyInv, HoldersAlone
<1> QED BY <1>1, <1>2, MoveKeeps

LEMMA CheckReferencesKeeps ==
  ASSUME KeyInv, NEW r \in Requests, CheckReferences(r)
  PROVE  KeyInv'
<1>1. UNCHANGED rows /\ nextId' = nextId /\ nextId \in Nat \ {0} /\ Busy(r)
  BY DEF CheckReferences, KeyInv, Shapes, Busy
<1>2. CASE ReferencesOK(req[r].body)
  <2>1. PICK m : m = Memo("insert", req[r].slot, req[r].body, clock, 0, req[r].before)
    OBVIOUS
  <2>2. Go(r, m) /\ m.slot = req[r].slot /\ m.at = "insert"
    BY <1>2, <2>1, MemoFields DEF CheckReferences
  <2> QED BY <1>1, <2>2, HolderMoves
<1>3. CASE ~ReferencesOK(req[r].body)
  BY <1>1, <1>3, EndKeeps DEF CheckReferences
<1> QED BY <1>2, <1>3

LEMMA InsertDecisionKeeps ==
  ASSUME KeyInv, NEW r \in Requests, InsertDecision(r)
  PROVE  KeyInv'
<1>1. PICK m : m = Memo("commit", req[r].slot, req[r].body, req[r].stamp, nextId, req[r].before)
  OBVIOUS
<1>2. Go(r, m) /\ m.slot = req[r].slot /\ m.id = nextId
  BY <1>1, MemoFields DEF InsertDecision
<1>3. nextId \in Nat \ {0} /\ nextId' \in Nat \ {0} /\ UNCHANGED rows /\ Busy(r)
  BY DEF InsertDecision, KeyInv, Shapes, Busy
<1> QED BY <1>2, <1>3, HolderMoves

LEMMA StoreInputsKeeps ==
  ASSUME KeyInv, NEW r \in Requests, StoreInputs(r)
  PROVE  KeyInv'
<1>1. PICK id : id = Cardinality(inputs) + 1
  OBVIOUS
<1>2. id \in Nat \ {0}
  BY <1>1, FS_CardinalityType DEF KeyInv, Shapes
<1>3. PICK row : row = InputsRow(id, r)
  OBVIOUS
<1>4. row.id = id /\ row.slot = req[r].slot
  BY <1>3 DEF InputsRow
<1>5. /\ inputs' = inputs \cup {row} /\ decisions' = decisions /\ nextId' = nextId
      /\ StoreResponse(r, id) /\ Busy(r)
  BY <1>1, <1>3 DEF StoreInputs, Busy
<1>6. IsFiniteSet(inputs')
  BY <1>5, FS_AddElement DEF KeyInv, Shapes
<1>7. KeyedRows' = KeyedRows \cup {row}
  BY <1>5 DEF KeyedRows
<1> QED BY <1>2, <1>4, <1>5, <1>6, <1>7, CommitKeeps

LEMMA CommitDecisionKeeps ==
  ASSUME KeyInv, NEW r \in Requests, CommitDecision(r)
  PROVE  KeyInv'
<1>1. PICK id \in Nat \ {0} : id = req[r].id
  BY DEF CommitDecision, KeyInv, RequestsOK
<1>2. PICK row : row = DecisionRow(r)
  OBVIOUS
<1>3. row.id = id /\ row.slot = req[r].slot
  BY <1>1, <1>2 DEF DecisionRow
<1>4. /\ decisions' = decisions \cup {row} /\ inputs' = inputs /\ nextId' = nextId
      /\ StoreResponse(r, id) /\ Busy(r)
  BY <1>1, <1>2 DEF CommitDecision, Busy
<1>5. IsFiniteSet(inputs') /\ KeyedRows' = KeyedRows \cup {row}
  BY <1>4 DEF KeyInv, Shapes, KeyedRows
<1> QED BY <1>3, <1>4, <1>5, CommitKeeps

\* A replay sends what is stored, and changes nothing else.
LEMMA ReplayKeeps ==
  ASSUME KeyInv, NEW r \in Requests, Replay(r)
  PROVE  KeyInv'
<1>1. PICK sent : sent = [slot |-> req[r].slot, body |-> req[r].body,
                          id |-> idem[req[r].slot].answer]
  OBVIOUS
<1>2. /\ sent.slot = req[r].slot /\ sent.body = req[r].body
      /\ sent.id = idem[req[r].slot].answer
  BY <1>1
<1>3. /\ answers' = answers \cup {sent} /\ idem' = idem /\ inputs' = inputs
      /\ decisions' = decisions /\ nextId' = nextId /\ End(r)
      /\ idem[req[r].slot].fp = req[r].body /\ idem[req[r].slot].answer # 0
      /\ req[r].at = "reserve"
  BY <1>1 DEF Replay
<1>4. /\ DOMAIN req' = Requests /\ req'[r].at = "idle"
      /\ \A q \in Requests \ {r} : req'[q] = req[q]
  BY <1>3, IdleFields DEF End, Go, KeyInv, Shapes
<1>5. KeyedRows' = KeyedRows
  BY <1>3 DEF KeyedRows
<1>6. Shapes' /\ RequestsOK'
  BY <1>3, <1>4 DEF KeyInv, Shapes, RequestsOK
<1>7. RowsAreAnswers' /\ AnswersHaveRows' /\ OneRow' /\ NoBareKey'
  BY <1>3, <1>5 DEF KeyInv, RowsAreAnswers, AnswersHaveRows, OneRow, NoBareKey
<1>8. SentIsStored'
  BY <1>2, <1>3 DEF KeyInv, SentIsStored, RequestsOK
<1>9. HoldersAlone'
  BY <1>3, <1>4 DEF KeyInv, HoldersAlone, Busy
<1> QED BY <1>6, <1>7, <1>8, <1>9 DEF KeyInv

\* Steps of walks, of vendors and of the clock touch neither rows nor requests.
LEMMA OutsideKeeps ==
  ASSUME KeyInv, UNCHANGED <<rows, nextId, req>>
  PROVE  KeyInv'
<1>1. UNCHANGED <<idem, inputs, decisions, answers, nextId, req>> /\ KeyedRows' = KeyedRows
  BY DEF rows, KeyedRows
<1> QED
  BY <1>1 DEF KeyInv, Shapes, RequestsOK, RowsAreAnswers, AnswersHaveRows, OneRow,
     SentIsStored, NoBareKey, HoldersAlone, Busy

LEMMA KeyInvNext == KeyInv /\ [Next]_vars => KeyInv'
<1> SUFFICES ASSUME KeyInv, [Next]_vars PROVE KeyInv'
  OBVIOUS
<1>1. ASSUME NEW r \in Requests, PostStep(r) PROVE KeyInv'
  <2>1. ASSUME RefuseReused(r) \/ Rollback(r) PROVE KeyInv'
    BY <2>1, EndKeeps DEF RefuseReused, Rollback
  <2> QED
    BY <1>1, <2>1, BeginPostKeeps, ReserveNewKeeps, ReplayKeeps, StoreInputsKeeps,
       CheckReferencesKeeps, InsertDecisionKeeps, CommitDecisionKeeps DEF PostStep
<1>2. ASSUME NEW w \in Walks, WalkStep(w) PROVE KeyInv'
  BY <1>2, OutsideKeeps DEF WalkStep, BeginWalk, FetchPage, WalkFails, StoreCandidate
<1>3. ASSUME VendorStep \/ Tick PROVE KeyInv'
  BY <1>3, OutsideKeeps DEF VendorStep, StoreOffer, ReportFact, Tick
<1>4. ASSUME UNCHANGED vars PROVE KeyInv'
  BY <1>4, OutsideKeeps DEF vars
<1> QED BY <1>1, <1>2, <1>3, <1>4 DEF Next

THEOREM KeyInvAlways == Spec => []KeyInv
BY KeyInvInit, KeyInvNext, PTL DEF Spec

\* Idempotency keys (reserve, store_response): however many clients repeat or
\* reuse a key at once, and wherever a transaction is rolled back, the key has
\* one row and every 201 names it and answers the request that made it.
THEOREM KeyHasOneEffect == Spec => []OneEffectPerKey
<1>1. KeyInv => OneEffectPerKey
  BY DEF KeyInv, OneEffectPerKey, OneRow, SentIsStored, AnswersHaveRows
<1> QED BY <1>1, KeyInvAlways, PTL

-----------------------------------------------------------------------------
(* The refinement of OncePerKey. *)

\* The effect of a slot is the answer stored for it.
LEMMA RowIsAnswer == KeyInv => \A s \in Slots : RowOf(s) = idem[s].answer
<1> SUFFICES ASSUME KeyInv, NEW s \in Slots PROVE RowOf(s) = idem[s].answer
  OBVIOUS
<1>1. CASE \E row \in KeyedRows : row.slot = s
  <2>1. PICK row : row = CHOOSE x \in KeyedRows : x.slot = s
    OBVIOUS
  <2>2. row \in KeyedRows /\ row.slot = s
    BY <1>1, <2>1
  <2> QED BY <1>1, <2>1, <2>2 DEF RowOf, KeyInv, RowsAreAnswers
<1>2. CASE ~\E row \in KeyedRows : row.slot = s
  BY <1>2 DEF RowOf, KeyInv, AnswersHaveRows
<1> QED BY <1>1, <1>2

\* A step stores at most one answer, and only where there was none.
LEMMA AnswerStep ==
  ASSUME KeyInv, [Next]_vars
  PROVE  \/ idem' = idem
         \/ \E s \in Slots : /\ idem[s].answer = 0 /\ idem'[s].answer # 0
                             /\ \A t \in Slots \ {s} : idem'[t] = idem[t]
<1> DEFINE Stored == \E s \in Slots : /\ idem[s].answer = 0 /\ idem'[s].answer # 0
                                      /\ \A t \in Slots \ {s} : idem'[t] = idem[t]
<1>1. ASSUME NEW r \in Requests, Busy(r), NEW id \in Nat \ {0}, StoreResponse(r, id) PROVE Stored
  <2>1. PICK s : s = req[r].slot
    OBVIOUS
  <2>2. s \in Slots /\ idem[s].answer = 0
    BY <2>1, <1>1 DEF KeyInv, RequestsOK, HoldersAlone, Busy
  <2>3. idem'[s].answer = id /\ \A t \in Slots \ {s} : idem'[t] = idem[t]
    BY <2>1, <2>2, <1>1 DEF StoreResponse, KeyInv, Shapes
  <2> QED BY <2>2, <2>3
<1>2. ASSUME NEW r \in Requests, StoreInputs(r) PROVE Stored
  <2>1. Cardinality(inputs) + 1 \in Nat \ {0}
    BY FS_CardinalityType DEF KeyInv, Shapes
  <2>2. Busy(r) /\ StoreResponse(r, Cardinality(inputs) + 1)
    BY <1>2 DEF StoreInputs, Busy
  <2> QED BY <2>1, <2>2, <1>1
<1>3. ASSUME NEW r \in Requests, CommitDecision(r) PROVE Stored
  <2>1. req[r].id \in Nat \ {0} /\ Busy(r) /\ StoreResponse(r, req[r].id)
    BY <1>3 DEF CommitDecision, Busy, KeyInv, RequestsOK
  <2> QED BY <2>1, <1>1
<1>4. ASSUME NEW r \in Requests, PostStep(r) PROVE idem' = idem \/ Stored
  BY <1>2, <1>3, <1>4 DEF PostStep, BeginPost, ReserveNew, Replay, RefuseReused, Rollback,
     CheckReferences, InsertDecision, rows
<1>5. ASSUME NEW w \in Walks, WalkStep(w) PROVE idem' = idem
  BY <1>5 DEF WalkStep, BeginWalk, FetchPage, WalkFails, StoreCandidate, rows
<1>6. VendorStep \/ Tick \/ UNCHANGED vars => idem' = idem
  BY DEF VendorStep, StoreOffer, ReportFact, Tick, vars, rows
<1> QED BY <1>4, <1>5, <1>6 DEF Next

\* The two POST routes implement OncePerKey: seen from the rows, the effect of
\* a key and route happens once, and is never replaced or taken back.
THEOREM RoutesRefineOncePerKey == Spec => ImplementsOncePerKey
<1>1. Init => Abstract!Init
  BY KeyInvInit, RowIsAnswer DEF Abstract!Init, Init, NoRecord
<1>2. KeyInv /\ KeyInv' /\ [Next]_vars => [Abstract!Next]_[s \in Slots |-> RowOf(s)]
  <2> SUFFICES ASSUME KeyInv, KeyInv', [Next]_vars
               PROVE  [Abstract!Next]_[s \in Slots |-> RowOf(s)]
    OBVIOUS
  <2>1. \A s \in Slots : RowOf(s) = idem[s].answer
    BY RowIsAnswer
  <2>2. \A s \in Slots : RowOf(s)' = idem'[s].answer
    <3>1. (\A s \in Slots : RowOf(s) = idem[s].answer)'
      BY RowIsAnswer, PTL
    <3> QED BY <3>1
  <2>3. CASE idem' = idem
    <3>1. \A s \in Slots : RowOf(s)' = RowOf(s)
      BY <2>1, <2>2, <2>3
    <3>2. [s \in Slots |-> RowOf(s)]' = [s \in Slots |-> RowOf(s)]
      BY <3>1
    <3> QED BY <3>2
  <2>4. ASSUME NEW s \in Slots, idem[s].answer = 0, idem'[s].answer # 0,
               \A t \in Slots \ {s} : idem'[t] = idem[t]
        PROVE  Abstract!Do(s)
    <3>1. RowOf(s) = 0 /\ RowOf(s)' # 0 /\ \A t \in Slots \ {s} : RowOf(t)' = RowOf(t)
      BY <2>1, <2>2, <2>4
    <3>2. PICK f : f = [t \in Slots |-> RowOf(t)]
      OBVIOUS
    <3>3. PICK g : g = [t \in Slots |-> RowOf(t)]'
      OBVIOUS
    <3>4. \A t \in Slots : f[t] = RowOf(t) /\ g[t] = RowOf(t)'
      BY <3>2, <3>3
    <3>5. g = [f EXCEPT ![s] = g[s]]
      BY <3>1, <3>2, <3>3, <3>4
    <3>6. f[s] = 0 /\ g[s] # 0
      BY <3>1, <3>4
    <3> QED BY <3>2, <3>3, <3>5, <3>6 DEF Abstract!Do
  <2> QED BY <2>3, <2>4, AnswerStep DEF Abstract!Next
<1> QED
  BY <1>1, <1>2, KeyInvAlways, PTL DEF Spec, ImplementsOncePerKey, Abstract!Spec

-----------------------------------------------------------------------------
(* The order of decisions and the lock-ins of a bid. *)

\* What a POST in flight knows: which decisions it follows, and, from the
\* checks on, its stamp, its candidate and its id.
MemoOK(m) ==
  /\ m.at # "idle" => \A i \in m.before : \E d \in decisions : d.id = i
  /\ m.at \in {"insert", "commit"} =>
       /\ m.stamp \in Nat /\ m.stamp <= clock
       /\ \A d \in decisions : d.id \in m.before => d.decided_at <= m.stamp
       /\ RefersTo(candidates, m.body.candidate, m.body.tender)
  /\ m.at = "commit" =>
       /\ m.id \in Nat /\ m.id < nextId
       /\ \A d \in decisions : d.id # m.id /\ (d.id \in m.before => d.id < m.id)

MemosOK ==
  /\ \A q \in Requests : MemoOK(req[q])
  /\ \A q, r \in Requests :
       req[q].at = "commit" /\ req[r].at = "commit" /\ req[q].id = req[r].id => q = r

\* A decision outranks every decision it follows.
DecisionsOrdered ==
  /\ \A d \in decisions : d.id \in Nat /\ d.id < nextId /\ d.decided_at \in Nat /\ d.decided_at <= clock
  /\ \A d, e \in decisions : d.id = e.id => d = e
  /\ \A e \in decisions : \A i \in e.before : \E d \in decisions : d.id = i
  /\ \A d, e \in decisions : d.id \in e.before => Outranks(e, d)

\* Candidates are numbered, and their critical lines are lines of the tender.
CandidatesOK ==
  /\ IsFiniteSet(candidates)
  /\ \A c \in candidates : c.id \in 1..Cardinality(candidates)
  /\ \A c, e \in candidates : c.id = e.id => c = e
  /\ \A c \in candidates : \A p \in c.critical :
       p = <<p[1], p[2]>> /\ \E l \in Lines[c.tender] : l.id = p[1]

DecisionsRefer == \A d \in decisions : RefersTo(candidates, d.candidate, d.tender)

DecisionInv ==
  /\ DOMAIN req = Requests /\ nextId \in Nat \ {0} /\ clock \in Nat
  /\ MemosOK /\ DecisionsOrdered /\ CandidatesOK /\ DecisionsRefer
  /\ LockInsFollowDecision

LEMMA DecisionInvInit == Init => DecisionInv
<1> SUFFICES ASSUME Init PROVE DecisionInv
  OBVIOUS
<1>1. DOMAIN req = Requests /\ \A q \in Requests : req[q].at = "idle"
  BY IdleFields DEF Init
<1>2. candidates = {} /\ decisions = {} /\ lockIns = {} /\ nextId = 1 /\ clock = 0
  BY DEF Init
<1>3. CandidatesOK
  BY <1>2, FS_EmptySet DEF CandidatesOK
<1>4. MemosOK
  BY <1>1 DEF MemosOK, MemoOK
<1> QED
  BY <1>1, <1>2, <1>3, <1>4 DEF DecisionInv, DecisionsOrdered, DecisionsRefer, LockInsFollowDecision

\* A step that moves one request and leaves the decisions and candidates alone.
LEMMA MoveOrders ==
  ASSUME DecisionInv, NEW r \in Requests, NEW m, Go(r, m),
         UNCHANGED <<decisions, lockIns, candidates, clock>>,
         nextId' \in Nat, nextId <= nextId', MemoOK(m)',
         m.at = "commit" => \A q \in Requests \ {r} : req[q].at = "commit" => req[q].id # m.id
  PROVE  DecisionInv'
<1>1. /\ DOMAIN req' = Requests /\ req'[r] = m
      /\ \A q \in Requests \ {r} : req'[q] = req[q]
  BY DEF Go, DecisionInv
<1>2. nextId \in Nat \ {0} /\ nextId' \in Nat \ {0} /\ clock' \in Nat
  BY DEF DecisionInv
<1>3. ASSUME NEW q \in Requests PROVE MemoOK(req[q])'
  <2>1. CASE q = r
    BY <2>1, <1>1 DEF MemoOK, RefersTo
  <2>2. CASE q # r
    <3>1. MemoOK(req[q]) /\ req'[q] = req[q]
      BY <2>2, <1>1 DEF DecisionInv, MemosOK
    <3>2. req[q].at = "commit" => req[q].id < nextId'
      BY <3>1, <1>2 DEF MemoOK
    <3> QED
      BY <3>1, <3>2 DEF MemoOK, RefersTo
  <2> QED
    BY <2>1, <2>2
<1>4. MemosOK'
  <2>1. ASSUME NEW p \in Requests, NEW q \in Requests, req'[p].at = "commit",
               req'[q].at = "commit", req'[p].id = req'[q].id
        PROVE  p = q
    BY <2>1, <1>1 DEF DecisionInv, MemosOK
  <2> QED
    BY <1>3, <2>1 DEF MemosOK
<1>5. DecisionsOrdered'
  <2>1. \A d \in decisions : d.id < nextId'
    BY <1>2 DEF DecisionInv, DecisionsOrdered
  <2> QED
    BY <2>1 DEF DecisionInv, DecisionsOrdered, Outranks
<1>6. CandidatesOK' /\ DecisionsRefer' /\ LockInsFollowDecision'
  BY DEF DecisionInv, CandidatesOK, DecisionsRefer, LockInsFollowDecision, RefersTo
<1> QED
  BY <1>1, <1>2, <1>4, <1>5, <1>6 DEF DecisionInv

\* A request that ends, by a response, a refusal or a roll back.
LEMMA EndOrders ==
  ASSUME DecisionInv, NEW r \in Requests, End(r),
         UNCHANGED <<decisions, lockIns, candidates, clock, nextId>>
  PROVE  DecisionInv'
<1>1. PICK m : m = Idle
  OBVIOUS
<1>2. m.at = "idle" /\ Go(r, m)
  BY <1>1, IdleFields DEF End
<1>3. MemoOK(m)'
  BY <1>2 DEF MemoOK
<1>4. nextId' \in Nat /\ nextId <= nextId'
  BY DEF DecisionInv
<1> QED
  BY <1>2, <1>3, <1>4, MoveOrders

LEMMA MemoAll ==
  ASSUME NEW at, NEW s, NEW b, NEW stamp, NEW id, NEW before,
         NEW m, m = Memo(at, s, b, stamp, id, before)
  PROVE  /\ m.at = at /\ m.slot = s /\ m.body = b
         /\ m.stamp = stamp /\ m.id = id /\ m.before = before
BY DEF Memo

LEMMA BeginPostOrders ==
  ASSUME DecisionInv, NEW r \in Requests, NEW k \in Keys, NEW b \in Bodies, BeginPost(r, k, b)
  PROVE  DecisionInv'
<1>0. PICK before : before = {d.id : d \in OfTender(decisions, b.tender)}
  OBVIOUS
<1>1. PICK m : m = Memo("reserve", <<k, Route(b)>>, b, 0, 0, before)
  OBVIOUS
<1>2. Go(r, m) /\ m.at = "reserve" /\ m.before = before
  BY <1>0, <1>1, MemoAll DEF BeginPost
<1>3. UNCHANGED <<decisions, lockIns, candidates, clock, nextId>>
  BY DEF BeginPost, rows
<1>4. MemoOK(m)'
  BY <1>0, <1>2, <1>3 DEF MemoOK, OfTender
<1>5. nextId' \in Nat /\ nextId <= nextId'
  BY <1>3 DEF DecisionInv
<1> QED
  BY <1>2, <1>3, <1>4, <1>5, MoveOrders

LEMMA ReserveNewOrders ==
  ASSUME DecisionInv, NEW r \in Requests, ReserveNew(r)
  PROVE  DecisionInv'
<1>0. PICK at : at = IF Route(req[r].body) = "inputs" THEN "write" ELSE "check"
  OBVIOUS
<1>1. PICK m : m = Memo(at, req[r].slot, req[r].body, req[r].stamp, req[r].id, req[r].before)
  OBVIOUS
<1>2. Go(r, m) /\ m.at \in {"write", "check"} /\ m.before = req[r].before
  BY <1>0, <1>1, MemoAll DEF ReserveNew, Goto
<1>3. UNCHANGED <<decisions, lockIns, candidates, clock, nextId>> /\ req[r].at = "reserve"
  BY DEF ReserveNew, rows
<1>4. MemoOK(m)'
  BY <1>2, <1>3 DEF DecisionInv, MemosOK, MemoOK
<1>5. nextId' \in Nat /\ nextId <= nextId'
  BY <1>3 DEF DecisionInv
<1> QED
  BY <1>2, <1>3, <1>4, <1>5, MoveOrders

\* The stamp is not before any stamp that is committed.
LEMMA CheckReferencesOrders ==
  ASSUME DecisionInv, NEW r \in Requests, CheckReferences(r)
  PROVE  DecisionInv'
<1>1. UNCHANGED <<decisions, lockIns, candidates, clock, nextId>> /\ req[r].at = "check"
  BY DEF CheckReferences, rows
<1>2. CASE ~ReferencesOK(req[r].body)
  BY <1>1, <1>2, EndOrders DEF CheckReferences
<1>3. CASE ReferencesOK(req[r].body)
  <2>1. PICK m : m = Memo("insert", req[r].slot, req[r].body, clock, 0, req[r].before)
    OBVIOUS
  <2>2. /\ Go(r, m) /\ m.at = "insert" /\ m.before = req[r].before
        /\ m.stamp = clock /\ m.body = req[r].body
    BY <1>3, <2>1, MemoAll DEF CheckReferences
  <2>3. RefersTo(candidates, m.body.candidate, m.body.tender)
    BY <1>3, <2>2 DEF ReferencesOK
  <2>4. \A i \in m.before : \E d \in decisions : d.id = i
    BY <1>1, <2>2 DEF DecisionInv, MemosOK, MemoOK
  <2>5. MemoOK(m)'
    BY <1>1, <2>2, <2>3, <2>4 DEF DecisionInv, DecisionsOrdered, MemoOK, RefersTo
  <2>6. nextId' \in Nat /\ nextId <= nextId'
    BY <1>1 DEF DecisionInv
  <2> QED
    BY <1>1, <2>2, <2>5, <2>6, MoveOrders
<1> QED
  BY <1>2, <1>3

\* The id is new, and above every id that is committed.
LEMMA InsertDecisionOrders ==
  ASSUME DecisionInv, NEW r \in Requests, InsertDecision(r)
  PROVE  DecisionInv'
<1>1. /\ UNCHANGED <<decisions, lockIns, candidates, clock>> /\ nextId' = nextId + 1
      /\ req[r].at = "insert" /\ nextId \in Nat
  BY DEF InsertDecision, rows, DecisionInv
<1>2. PICK m : m = Memo("commit", req[r].slot, req[r].body, req[r].stamp, nextId, req[r].before)
  OBVIOUS
<1>3. /\ Go(r, m) /\ m.at = "commit" /\ m.before = req[r].before /\ m.id = nextId
      /\ m.stamp = req[r].stamp /\ m.body = req[r].body
  BY <1>2, MemoAll DEF InsertDecision
<1>4. MemoOK(req[r])
  BY DEF DecisionInv, MemosOK
<1>5. \A d \in decisions : d.id # m.id /\ d.id < m.id
  BY <1>3 DEF DecisionInv, DecisionsOrdered
<1>6. MemoOK(m)'
  BY <1>1, <1>3, <1>4, <1>5 DEF MemoOK, RefersTo
<1>7. \A q \in Requests \ {r} : req[q].at = "commit" => req[q].id # m.id
  BY <1>1, <1>3 DEF DecisionInv, MemosOK, MemoOK
<1> QED
  BY <1>1, <1>3, <1>6, <1>7, MoveOrders

\* The lock-ins of a new decision: one for every critical line of its
\* candidate, and none when it is no bid.
LEMMA LockInsOfBid ==
  ASSUME CandidatesOK, NEW b, NEW id, NEW c \in candidates, b.candidate = c.id, b.type \in BidTypes
  PROVE  LockInsOf(b, id) = {[decision |-> id, tender |-> b.tender, line |-> p[1], vendor |-> p[2]] :
                               p \in c.critical}
<1>1. {x \in candidates : x.id = b.candidate /\ b.type \in BidTypes} = {c}
  BY DEF CandidatesOK
<1>2. UNION {x.critical : x \in {c}} = c.critical
  OBVIOUS
<1> QED
  BY <1>1, <1>2 DEF LockInsOf

LEMMA LockInsOfCandidate ==
  ASSUME CandidatesOK, NEW b, NEW id, RefersTo(candidates, b.candidate, b.tender),
         NEW k \in LockInsOf(b, id)
  PROVE  \E c \in candidates : \E p \in c.critical :
           /\ b.type \in BidTypes /\ b.candidate = c.id /\ c.tender = b.tender
           /\ k = [decision |-> id, tender |-> b.tender, line |-> p[1], vendor |-> p[2]]
<1>1. PICK c \in candidates : \E p \in c.critical :
           /\ b.type \in BidTypes /\ b.candidate = c.id
           /\ k = [decision |-> id, tender |-> b.tender, line |-> p[1], vendor |-> p[2]]
  BY DEF LockInsOf
<1>2. c.id # 0
  BY FS_CardinalityType DEF CandidatesOK
<1>3. c.tender = b.tender
  BY <1>1, <1>2 DEF RefersTo, CandidatesOK
<1> QED
  BY <1>1, <1>3

\* What the commit adds, seen from the lines of a lock-in.
LEMMA PairsOfLockIns ==
  ASSUME NEW K, NEW crit, \A p \in crit : p = <<p[1], p[2]>>,
         \A k \in K : \E p \in crit : k.line = p[1] /\ k.vendor = p[2],
         \A p \in crit : \E k \in K : k.line = p[1] /\ k.vendor = p[2]
  PROVE  crit = {<<k.line, k.vendor>> : k \in K}
<1>1. ASSUME NEW p \in crit PROVE p \in {<<k.line, k.vendor>> : k \in K}
  <2>1. PICK k \in K : k.line = p[1] /\ k.vendor = p[2]
    OBVIOUS
  <2>2. p = <<k.line, k.vendor>>
    BY <2>1
  <2> QED
    BY <2>2
<1>2. ASSUME NEW x \in {<<k.line, k.vendor>> : k \in K} PROVE x \in crit
  <2>1. PICK k \in K : x = <<k.line, k.vendor>>
    BY <1>2
  <2>2. PICK p \in crit : k.line = p[1] /\ k.vendor = p[2]
    OBVIOUS
  <2>3. p = <<k.line, k.vendor>>
    BY <2>2
  <2> QED
    BY <2>1, <2>3
<1> QED
  BY <1>1, <1>2

LEMMA CommitDecisionOrders ==
  ASSUME DecisionInv, NEW r \in Requests, CommitDecision(r)
  PROVE  DecisionInv'
<1>0. PICK m : m = req[r]
  OBVIOUS
<1>1. PICK b : b = m.body
  OBVIOUS
<1>2. PICK row : row = DecisionRow(r)
  OBVIOUS
<1>3. /\ row.id = m.id /\ row.tender = b.tender /\ row.type = b.type
      /\ row.candidate = b.candidate /\ row.decided_at = m.stamp /\ row.before = m.before
  BY <1>0, <1>1, <1>2 DEF DecisionRow
<1>4. /\ decisions' = decisions \cup {row} /\ lockIns' = lockIns \cup LockInsOf(b, m.id)
      /\ UNCHANGED <<candidates, nextId, clock>> /\ m.at = "commit"
  BY <1>0, <1>1, <1>2 DEF CommitDecision
<1>5. /\ DOMAIN req' = Requests /\ req'[r].at = "idle"
      /\ \A q \in Requests \ {r} : req'[q] = req[q]
  BY IdleFields DEF CommitDecision, StoreResponse, End, Go, DecisionInv
<1>6. MemoOK(m)
  BY <1>0 DEF DecisionInv, MemosOK
<1>7. /\ m.id \in Nat /\ m.id < nextId /\ \A d \in decisions : d.id # m.id
      /\ m.stamp \in Nat /\ m.stamp <= clock /\ RefersTo(candidates, b.candidate, b.tender)
      /\ \A d \in decisions : d.id \in m.before => d.decided_at <= m.stamp /\ d.id < m.id
      /\ \A i \in m.before : \E d \in decisions : d.id = i
  BY <1>1, <1>4, <1>6 DEF MemoOK
<1>8. m.id \notin m.before /\ \A e \in decisions : m.id \notin e.before
  BY <1>7 DEF DecisionInv, DecisionsOrdered
<1>9. MemosOK'
  <2>1. ASSUME NEW q \in Requests PROVE MemoOK(req[q])'
    <3>1. CASE q = r
      BY <3>1, <1>5 DEF MemoOK
    <3>2. CASE q # r
      <4>1. PICK n : n = req[q]
        OBVIOUS
      <4>2. req'[q] = n /\ MemoOK(n)
        BY <3>2, <4>1, <1>5 DEF DecisionInv, MemosOK
      <4>3. n.at # "idle" => m.id \notin n.before
        BY <4>2, <1>7 DEF MemoOK
      <4>4. n.at = "commit" => n.id # m.id
        BY <3>2, <4>1, <1>0, <1>4 DEF DecisionInv, MemosOK
      <4>5. n.at # "idle" => \A i \in n.before : \E d \in decisions' : d.id = i
        BY <4>2, <1>4 DEF MemoOK
      <4>6. n.at \in {"insert", "commit"} =>
              /\ n.stamp \in Nat /\ n.stamp <= clock'
              /\ \A d \in decisions' : d.id \in n.before => d.decided_at <= n.stamp
              /\ RefersTo(candidates', n.body.candidate, n.body.tender)
        BY <4>2, <4>3, <1>3, <1>4 DEF MemoOK, RefersTo
      <4>7. n.at = "commit" =>
              /\ n.id \in Nat /\ n.id < nextId'
              /\ \A d \in decisions' : d.id # n.id /\ (d.id \in n.before => d.id < n.id)
        BY <4>2, <4>3, <4>4, <1>3, <1>4 DEF MemoOK
      <4>8. MemoOK(n)'
        BY <4>5, <4>6, <4>7 DEF MemoOK
      <4> QED
        BY <4>2, <4>8
    <3> QED
      BY <3>1, <3>2
  <2> QED
    BY <2>1, <1>5 DEF DecisionInv, MemosOK
<1>10. DecisionsOrdered'
  <2>1. \A d \in decisions' : /\ d.id \in Nat /\ d.id < nextId'
                              /\ d.decided_at \in Nat /\ d.decided_at <= clock'
    BY <1>3, <1>4, <1>7 DEF DecisionInv, DecisionsOrdered
  <2>2. \A d, e \in decisions' : d.id = e.id => d = e
    BY <1>3, <1>4, <1>7 DEF DecisionInv, DecisionsOrdered
  <2>3. \A e \in decisions' : \A i \in e.before : \E d \in decisions' : d.id = i
    BY <1>3, <1>4, <1>7 DEF DecisionInv, DecisionsOrdered
  <2>4. ASSUME NEW d \in decisions', NEW e \in decisions', d.id \in e.before PROVE Outranks(e, d)
    <3>1. d # row
      BY <1>3, <1>4, <1>8, <2>4
    <3>2. d \in decisions
      BY <3>1, <1>4
    <3>3. CASE e = row
      BY <3>2, <3>3, <2>4, <1>3, <1>7 DEF Outranks, DecisionInv, DecisionsOrdered
    <3>4. CASE e # row
      BY <3>2, <3>4, <2>4, <1>4 DEF DecisionInv, DecisionsOrdered
    <3> QED
      BY <3>3, <3>4
  <2> QED
    BY <2>1, <2>2, <2>3, <2>4 DEF DecisionsOrdered, Outranks
<1>11. CandidatesOK'
  BY <1>4 DEF DecisionInv, CandidatesOK
<1>12. DecisionsRefer'
  BY <1>3, <1>4, <1>7 DEF DecisionInv, DecisionsRefer, RefersTo
<1>13. LockInsFollowDecision'
  <2>1. ASSUME NEW k \in lockIns'
        PROVE  /\ \E l \in Lines[k.tender] : l.id = k.line
               /\ \E d \in decisions' : d.id = k.decision /\ d.tender = k.tender /\ d.type \in BidTypes
    <3>1. CASE k \in lockIns
      BY <3>1, <1>4 DEF DecisionInv, LockInsFollowDecision
    <3>2. CASE k \in LockInsOf(b, m.id)
      <4>0. PICK c \in candidates : \E p \in c.critical :
              /\ b.type \in BidTypes /\ b.candidate = c.id /\ c.tender = b.tender
              /\ k = [decision |-> m.id, tender |-> b.tender, line |-> p[1], vendor |-> p[2]]
        BY <3>2, <1>7, LockInsOfCandidate DEF DecisionInv
      <4>1. PICK p \in c.critical :
              /\ b.type \in BidTypes /\ b.candidate = c.id /\ c.tender = b.tender
              /\ k = [decision |-> m.id, tender |-> b.tender, line |-> p[1], vendor |-> p[2]]
        BY <4>0
      <4>2. k.decision = m.id /\ k.tender = b.tender /\ k.line = p[1]
        BY <4>1
      <4>3. \E l \in Lines[c.tender] : l.id = p[1]
        BY DEF DecisionInv, CandidatesOK
      <4> QED
        BY <4>1, <4>2, <4>3, <1>3, <1>4
    <3> QED
      BY <3>1, <3>2, <1>4
  <2>2. ASSUME NEW d \in decisions', NEW c \in candidates', d.candidate = c.id, d.type \in BidTypes
        PROVE  c.critical = {<<k.line, k.vendor>> : k \in {x \in lockIns' : x.decision = d.id}}
    <3>0. c \in candidates
      BY <1>4
    <3>1. CASE d = row
      <4>1. {x \in lockIns : x.decision = m.id} = {}
        BY <1>7 DEF DecisionInv, LockInsFollowDecision
      <4>2. LockInsOf(b, m.id) = {[decision |-> m.id, tender |-> b.tender,
                                   line |-> p[1], vendor |-> p[2]] : p \in c.critical}
        BY <2>2, <3>0, <3>1, <1>3, LockInsOfBid DEF DecisionInv
      <4>3. \A x \in LockInsOf(b, m.id) : x.decision = m.id
        BY <4>2
      <4>4. {x \in lockIns' : x.decision = d.id} = LockInsOf(b, m.id)
        BY <3>1, <4>1, <4>3, <1>3, <1>4
      <4>5. \A p \in c.critical : p = <<p[1], p[2]>>
        BY <3>0 DEF DecisionInv, CandidatesOK
      <4>6. c.critical = {<<k.line, k.vendor>> : k \in LockInsOf(b, m.id)}
        <5>1. PICK K : K = LockInsOf(b, m.id)
          OBVIOUS
        <5>2. \A k \in K : \E p \in c.critical : k.line = p[1] /\ k.vendor = p[2]
          BY <5>1, <4>2
        <5>3. ASSUME NEW p \in c.critical PROVE \E k \in K : k.line = p[1] /\ k.vendor = p[2]
          <6>1. PICK k : k = [decision |-> m.id, tender |-> b.tender, line |-> p[1], vendor |-> p[2]]
            OBVIOUS
          <6>2. k \in K
            BY <5>1, <4>2, <6>1
          <6> QED
            BY <6>1, <6>2
        <5>4. c.critical = {<<k.line, k.vendor>> : k \in K}
          BY <5>2, <5>3, <4>5, PairsOfLockIns
        <5> QED
          BY <5>1, <5>4
      <4> QED
        BY <4>4, <4>6, Zenon
    <3>2. CASE d # row
      <4>1. d \in decisions /\ d.id # m.id
        BY <3>2, <1>4, <1>7
      <4>2. \A x \in LockInsOf(b, m.id) : x.decision = m.id
        BY DEF LockInsOf
      <4>3. {x \in lockIns' : x.decision = d.id} = {x \in lockIns : x.decision = d.id}
        BY <4>1, <4>2, <1>4
      <4> QED
        BY <2>2, <3>0, <4>1, <4>3 DEF DecisionInv, LockInsFollowDecision
    <3> QED
      BY <3>1, <3>2
  <2> QED
    BY <2>1, <2>2 DEF LockInsFollowDecision
<1> QED
  BY <1>4, <1>5, <1>9, <1>10, <1>11, <1>12, <1>13 DEF DecisionInv

\* A candidate takes a number that no decision refers to yet.
LEMMA StoreCandidateOrders ==
  ASSUME DecisionInv, NEW w \in Walks, StoreCandidate(w)
  PROVE  DecisionInv'
<1>0. PICK n : n = Cardinality(candidates)
  OBVIOUS
<1>1. n \in Nat /\ IsFiniteSet(candidates) /\ \A c \in candidates : c.id \in 1..n
  BY <1>0, FS_CardinalityType DEF DecisionInv, CandidatesOK
<1>2. PICK t : t = walk[w].tender
  OBVIOUS
<1>3. PICK row : row = CandidateRow(n + 1, t, walk[w].dtos)
  OBVIOUS
<1>4. /\ candidates' = candidates \cup {row}
      /\ UNCHANGED <<decisions, lockIns, nextId, clock, req>>
  BY <1>0, <1>2, <1>3 DEF StoreCandidate, rows
<1>5. row.id = n + 1 /\ row.tender = t /\ row.critical = CriticalLines(Lines[t], walk[w].dtos, AsOf)
  BY <1>2, <1>3 DEF CandidateRow
<1>6. ASSUME NEW p \in row.critical PROVE p = <<p[1], p[2]>> /\ \E l \in Lines[t] : l.id = p[1]
  <2>1. PICK q \in {l \in Lines[t] : Normal(l)} \X {walk[w].dtos[i].offer.vendor : i \in DOMAIN walk[w].dtos} :
          p = <<q[1].id, q[2]>>
    BY <1>5, <1>6 DEF CriticalLines
  <2> QED
    BY <2>1
<1>7. row \notin candidates /\ \A c \in candidates : c.id # n + 1
  BY <1>1, <1>5
<1>8. IsFiniteSet(candidates') /\ Cardinality(candidates') = n + 1
  BY <1>0, <1>1, <1>4, <1>7, FS_AddElement
<1>9. CandidatesOK'
  <2>1. \A c \in candidates' : c.id \in 1..Cardinality(candidates')
    BY <1>1, <1>4, <1>5, <1>8
  <2>2. \A c, e \in candidates' : c.id = e.id => c = e
    BY <1>4, <1>5, <1>7 DEF DecisionInv, CandidatesOK
  <2>3. \A c \in candidates' : \A p \in c.critical :
          p = <<p[1], p[2]>> /\ \E l \in Lines[c.tender] : l.id = p[1]
    BY <1>4, <1>5, <1>6 DEF DecisionInv, CandidatesOK
  <2> QED
    BY <1>8, <2>1, <2>2, <2>3 DEF CandidatesOK
<1>10. ASSUME NEW i, NEW x, RefersTo(candidates, i, x)
       PROVE  RefersTo(candidates', i, x) /\ i # n + 1
  BY <1>1, <1>4, <1>10 DEF RefersTo
<1>11. MemosOK'
  <2>1. ASSUME NEW q \in Requests PROVE MemoOK(req[q])'
    BY <1>4, <1>10 DEF DecisionInv, MemosOK, MemoOK
  <2> QED
    BY <2>1, <1>4 DEF DecisionInv, MemosOK
<1>12. DecisionsOrdered' /\ DecisionsRefer'
  BY <1>4, <1>10 DEF DecisionInv, DecisionsOrdered, DecisionsRefer, Outranks
<1>13. LockInsFollowDecision'
  <2>1. \A d \in decisions : d.candidate # row.id
    BY <1>5, <1>10 DEF DecisionInv, DecisionsRefer
  <2>2. ASSUME NEW d \in decisions, NEW c \in candidates', d.candidate = c.id, d.type \in BidTypes
        PROVE  c.critical = {<<k.line, k.vendor>> : k \in {x \in lockIns : x.decision = d.id}}
    BY <2>1, <2>2, <1>4 DEF DecisionInv, LockInsFollowDecision
  <2>3. LockInsFollowDecision
    BY DEF DecisionInv
  <2> QED
    BY <2>2, <2>3, <1>4 DEF LockInsFollowDecision
<1> QED
  BY <1>4, <1>9, <1>11, <1>12, <1>13 DEF DecisionInv

\* Time passes, and other steps touch none of this.
LEMMA ClockOrders ==
  ASSUME DecisionInv, UNCHANGED <<decisions, lockIns, candidates, nextId, req>>,
         clock' \in Nat, clock <= clock'
  PROVE  DecisionInv'
<1>1. clock \in Nat
  BY DEF DecisionInv
<1>2. MemosOK'
  <2>1. ASSUME NEW q \in Requests PROVE MemoOK(req[q])'
    <3>1. MemoOK(req[q])
      BY DEF DecisionInv, MemosOK
    <3>2. req[q].at \in {"insert", "commit"} => req[q].stamp <= clock'
      BY <1>1, <3>1 DEF MemoOK
    <3> QED
      BY <3>1, <3>2 DEF MemoOK, RefersTo
  <2> QED
    BY <2>1 DEF DecisionInv, MemosOK
<1>3. DecisionsOrdered'
  <2>1. \A d \in decisions : d.decided_at <= clock'
    BY <1>1 DEF DecisionInv, DecisionsOrdered
  <2> QED
    BY <2>1 DEF DecisionInv, DecisionsOrdered, Outranks
<1> QED
  BY <1>2, <1>3 DEF DecisionInv, CandidatesOK, DecisionsRefer, LockInsFollowDecision, RefersTo

LEMMA DecisionInvNext == DecisionInv /\ [Next]_vars => DecisionInv'
<1> SUFFICES ASSUME DecisionInv, [Next]_vars PROVE DecisionInv'
  OBVIOUS
<1>0. clock \in Nat
  BY DEF DecisionInv
<1>1. ASSUME NEW r \in Requests, PostStep(r) PROVE DecisionInv'
  <2>1. ASSUME RefuseReused(r) \/ Rollback(r) PROVE DecisionInv'
    BY <2>1, EndOrders DEF RefuseReused, Rollback, rows
  <2>2. ASSUME Replay(r) \/ StoreInputs(r) PROVE DecisionInv'
    BY <2>2, EndOrders DEF Replay, StoreInputs, StoreResponse
  <2> QED
    BY <1>1, <2>1, <2>2, BeginPostOrders, ReserveNewOrders, CheckReferencesOrders,
       InsertDecisionOrders, CommitDecisionOrders DEF PostStep
<1>2. ASSUME NEW w \in Walks, WalkStep(w) PROVE DecisionInv'
  <2>1. ASSUME ~StoreCandidate(w) PROVE DecisionInv'
    <3>1. UNCHANGED <<decisions, lockIns, candidates, nextId, req, clock>>
      BY <1>2, <2>1 DEF WalkStep, BeginWalk, FetchPage, WalkFails, rows
    <3> QED
      BY <3>1, <1>0, ClockOrders
  <2> QED
    BY <2>1, StoreCandidateOrders
<1>3. ASSUME VendorStep \/ UNCHANGED vars PROVE DecisionInv'
  <2>1. UNCHANGED <<decisions, lockIns, candidates, nextId, req, clock>>
    BY <1>3 DEF VendorStep, StoreOffer, ReportFact, vars, rows
  <2> QED
    BY <2>1, <1>0, ClockOrders
<1>4. ASSUME Tick PROVE DecisionInv'
  <2>1. UNCHANGED <<decisions, lockIns, candidates, nextId, req>> /\ clock' = clock + 1
    BY <1>4 DEF Tick, rows
  <2> QED
    BY <2>1, <1>0, ClockOrders
<1> QED
  BY <1>1, <1>2, <1>3, <1>4 DEF Next

THEOREM DecisionInvAlways == Spec => []DecisionInv
BY DecisionInvInit, DecisionInvNext, PTL DEF Spec

\* create_decision's C2 (decision.py): every lock-in belongs to a bid of its
\* own tender and names a line of it, and a bid carries exactly the critical
\* lines of the candidate it refers to, whatever candidates are stored and
\* whatever other decisions are made between the check and the commit.
THEOREM LockInsAreOfDecision == Spec => []LockInsFollowDecision
<1>1. DecisionInv => LockInsFollowDecision
  BY DEF DecisionInv
<1> QED
  BY <1>1, DecisionInvAlways, PTL

-----------------------------------------------------------------------------
(* The decision in force. *)

\* A nonempty set of naturals with an upper bound has a greatest element.
LEMMA GreatestBelow ==
  ASSUME NEW n \in Nat, NEW S \in SUBSET (0..n), S # {}
  PROVE  \E v \in S : \A u \in S : u <= v
<1> DEFINE Gaps == {n - v : v \in S}
<1>1. \A v \in S : n - v \in Nat
  OBVIOUS
<1>2. Gaps \in SUBSET Nat /\ Gaps # {}
  BY <1>1, Zenon
<1>3. PICK g \in Gaps : \A h \in Gaps : ~(<<h, g>> \in OpToRel(<, Nat))
  BY <1>2, NatLessThanWellFounded, WFMin, Zenon
<1>4. \A h \in Gaps : ~(h < g)
  BY <1>2, <1>3 DEF OpToRel
<1>5. PICK v \in S : g = n - v
  BY <1>3
<1>6. ASSUME NEW u \in S PROVE u <= v
  <2>1. ~(n - u < n - v)
    BY <1>4, <1>5
  <2> QED
    BY <2>1
<1> QED
  BY <1>6

\* ORDER BY decided_at DESC, id DESC LIMIT 1 always finds one row.
LEMMA FirstRow ==
  ASSUME DecisionInv, NEW t, OfTender(decisions, t) # {}
  PROVE  \E d \in OfTender(decisions, t) : \A e \in OfTender(decisions, t) \ {d} : Outranks(d, e)
<1> DEFINE D == OfTender(decisions, t)
           Stamps == {d.decided_at : d \in D}
<1>1. /\ clock \in Nat /\ nextId \in Nat
      /\ \A d \in D : /\ d \in decisions /\ d.id \in Nat /\ d.id < nextId
                      /\ d.decided_at \in Nat /\ d.decided_at <= clock
      /\ \A d, e \in D : d.id = e.id => d = e
  BY DEF DecisionInv, DecisionsOrdered, OfTender
<1>2. Stamps \in SUBSET (0..clock) /\ Stamps # {}
  BY <1>1
<1>3. PICK s \in Stamps : \A u \in Stamps : u <= s
  BY <1>1, <1>2, GreatestBelow
<1> DEFINE Latest == {d \in D : d.decided_at = s}
           Ids == {d.id : d \in Latest}
<1>4. Ids \in SUBSET (0..nextId) /\ Ids # {}
  BY <1>1, <1>3
<1>5. PICK i \in Ids : \A u \in Ids : u <= i
  BY <1>1, <1>4, GreatestBelow
<1>6. PICK d \in Latest : d.id = i
  BY <1>5
<1>7. ASSUME NEW e \in D \ {d} PROVE Outranks(d, e)
  <2>1. d \in D /\ d.decided_at = s /\ e.decided_at <= s /\ e.id # d.id
    BY <1>1, <1>3, <1>6
  <2>2. e.decided_at = s => e.id <= d.id
    BY <1>5, <1>6
  <2> QED
    BY <2>1, <2>2, <1>1 DEF Outranks
<1> QED
  BY <1>6, <1>7

\* get_latest_decision_type: no decision of the tender was asked for after
\* the one in force was committed, for any number of concurrent requests, any
\* clock that does not run backwards and any two equal stamps.
THEOREM InForceIsLatest == Spec => []InForceIsNotSuperseded
<1>1. ASSUME DecisionInv PROVE InForceIsNotSuperseded
  <2> SUFFICES ASSUME NEW t \in Tenders, OfTender(decisions, t) # {}
               PROVE  LatestDecisionType(t) \in
                        {d.type : d \in {x \in OfTender(decisions, t) :
                                           \A e \in OfTender(decisions, t) : x.id \notin e.before}}
    BY DEF InForceIsNotSuperseded
  <2>1. PICK d : d = CHOOSE x \in OfTender(decisions, t) :
                       \A e \in OfTender(decisions, t) \ {x} : Outranks(x, e)
    OBVIOUS
  <2>2. d \in OfTender(decisions, t) /\ \A e \in OfTender(decisions, t) \ {d} : Outranks(d, e)
    BY <1>1, <2>1, FirstRow
  <2>3. ASSUME NEW e \in OfTender(decisions, t), d.id \in e.before PROVE FALSE
    <3>1. d \in decisions /\ e \in decisions
      BY <2>2 DEF OfTender
    <3>2. /\ d.id \in Nat /\ e.id \in Nat /\ d.decided_at \in Nat /\ e.decided_at \in Nat
          /\ Outranks(e, d)
      BY <1>1, <2>3, <3>1 DEF DecisionInv, DecisionsOrdered
    <3>3. CASE e = d
      BY <3>2, <3>3 DEF Outranks
    <3>4. CASE e # d
      BY <3>2, <3>4, <2>2 DEF Outranks
    <3> QED
      BY <3>3, <3>4
  <2>4. LatestDecisionType(t) = d.type
    BY <2>1 DEF LatestDecisionType
  <2> QED
    BY <2>2, <2>3, <2>4
<1> QED
  BY <1>1, DecisionInvAlways, PTL

-----------------------------------------------------------------------------
(* A page of offers, in the order of their ids. *)

Numbered(S) ==
  /\ IsFiniteSet(S)
  /\ \A o \in S : o.id \in Nat
  /\ \A o, p \in S : o.id = p.id => o = p

Below(S, i) == {p \in S : p.id < i}

LEMMA BelowGrows ==
  ASSUME NEW S, Numbered(S), NEW o \in S, NEW i \in Nat, o.id < i
  PROVE  /\ Cardinality(Below(S, o.id)) \in Nat /\ Cardinality(Below(S, i)) \in Nat
         /\ Cardinality(Below(S, o.id)) < Cardinality(Below(S, i))
<1>1. Below(S, i) \in SUBSET S /\ Below(S, o.id) \in SUBSET Below(S, i)
  BY DEF Below, Numbered
<1>2. IsFiniteSet(Below(S, i))
  BY <1>1, FS_Subset DEF Numbered
<1>3. IsFiniteSet(Below(S, o.id)) /\ Cardinality(Below(S, o.id)) <= Cardinality(Below(S, i))
  BY <1>1, <1>2, FS_Subset
<1>4. o \in Below(S, i) /\ o \notin Below(S, o.id)
  BY DEF Below, Numbered
<1>5. Cardinality(Below(S, o.id)) # Cardinality(Below(S, i))
  BY <1>1, <1>2, <1>4, FS_Subset
<1> QED
  BY <1>2, <1>3, <1>5, FS_CardinalityType

LEMMA RankBound ==
  ASSUME NEW S, Numbered(S), NEW o \in S
  PROVE  Cardinality(Below(S, o.id)) \in Nat /\ Cardinality(Below(S, o.id)) < Cardinality(S)
<1>1. Below(S, o.id) \in SUBSET S /\ o \notin Below(S, o.id)
  BY DEF Below, Numbered
<1>2. /\ IsFiniteSet(Below(S, o.id)) /\ Cardinality(Below(S, o.id)) <= Cardinality(S)
      /\ Cardinality(S) # Cardinality(Below(S, o.id))
  BY <1>1, FS_Subset DEF Numbered
<1> QED
  BY <1>2, FS_CardinalityType DEF Numbered

LEMMA RankApart ==
  ASSUME NEW S, Numbered(S), NEW o \in S, NEW p \in S,
         Cardinality(Below(S, o.id)) = Cardinality(Below(S, p.id))
  PROVE  o = p
<1>1. ~(o.id < p.id)
  BY BelowGrows DEF Numbered
<1>2. ~(p.id < o.id)
  BY BelowGrows DEF Numbered
<1> QED
  BY <1>1, <1>2 DEF Numbered

\* Every place of the order is taken.
LEMMA RankOnto ==
  ASSUME NEW S, Numbered(S), NEW k \in 1..Cardinality(S)
  PROVE  \E o \in S : Cardinality(Below(S, o.id)) = k - 1
<1>1. PICK n \in Nat : n = Cardinality(S)
  BY FS_CardinalityType DEF Numbered
<1>2. PICK f : f = [o \in S |-> Cardinality(Below(S, o.id)) + 1]
  OBVIOUS
<1>3. \A o \in S : f[o] = Cardinality(Below(S, o.id)) + 1 /\ f[o] \in 1..n
  BY <1>1, <1>2, RankBound
<1>4. \A o, p \in S : f[o] = f[p] => o = p
  <2> SUFFICES ASSUME NEW o \in S, NEW p \in S, f[o] = f[p] PROVE o = p
    OBVIOUS
  <2>1. Cardinality(Below(S, o.id)) = Cardinality(Below(S, p.id))
    BY <1>3, RankBound
  <2> QED
    BY <2>1, RankApart
<1>5. f \in Injection(S, 1..n)
  BY <1>2, <1>3, <1>4 DEF Injection, IsInjective
<1>6. IsFiniteSet(1..n) /\ Cardinality(1..n) = n
  BY FS_Interval
<1>7. f \in Surjection(S, 1..n)
  BY <1>1, <1>5, <1>6, FS_Injection
<1>8. PICK o \in S : f[o] = k
  BY <1>1, <1>7 DEF Surjection
<1> QED
  BY <1>3, <1>8, RankBound

\* The vendor's ORDER BY id.
LEMMA InOrderSorts ==
  ASSUME NEW page, Numbered(page)
  PROVE  /\ Cardinality(page) \in Nat
         /\ \A k \in 1..Cardinality(page) : InOrder(page)[k] \in page
         /\ \A j, k \in 1..Cardinality(page) : j < k => InOrder(page)[j].id < InOrder(page)[k].id
         /\ \A o \in page : \E k \in 1..Cardinality(page) : InOrder(page)[k] = o
<1>1. PICK n \in Nat : n = Cardinality(page)
  BY FS_CardinalityType DEF Numbered
<1>2. \A k \in 1..n : InOrder(page)[k] = CHOOSE o \in page : Cardinality(Below(page, o.id)) = k - 1
  BY <1>1 DEF InOrder, Below
<1>3. ASSUME NEW k \in 1..n
      PROVE  InOrder(page)[k] \in page /\ Cardinality(Below(page, InOrder(page)[k].id)) = k - 1
  BY <1>1, <1>2, <1>3, RankOnto
<1>4. ASSUME NEW j \in 1..n, NEW k \in 1..n, j < k PROVE InOrder(page)[j].id < InOrder(page)[k].id
  <2>1. PICK o \in page : o = InOrder(page)[j] /\ Cardinality(Below(page, o.id)) = j - 1
    BY <1>3
  <2>2. PICK p \in page : p = InOrder(page)[k] /\ Cardinality(Below(page, p.id)) = k - 1
    BY <1>3
  <2>3. o.id # p.id
    BY <2>1, <2>2, <1>4
  <2>4. ~(p.id < o.id)
    BY <2>1, <2>2, <1>4, BelowGrows DEF Numbered
  <2> QED
    BY <2>1, <2>2, <2>3, <2>4 DEF Numbered
<1>5. ASSUME NEW o \in page PROVE \E k \in 1..n : InOrder(page)[k] = o
  <2>1. PICK k \in 1..n : Cardinality(Below(page, o.id)) = k - 1
    <3>1. PICK c \in Nat : c = Cardinality(Below(page, o.id)) /\ c < n
      BY <1>1, RankBound
    <3>2. c + 1 \in 1..n /\ c = (c + 1) - 1
      BY <3>1
    <3> QED
      BY <3>1, <3>2
  <2> QED
    BY <2>1, <1>3, RankApart
<1> QED
  BY <1>1, <1>3, <1>4, <1>5

\* A set of numbered offers that is not empty has a last one.
LEMMA LastOffer ==
  ASSUME NEW S, Numbered(S), S # {}
  PROVE  \E o \in S : \A p \in S : p.id <= o.id
<1>1. PICK n \in Nat : n = Cardinality(S)
  BY FS_CardinalityType DEF Numbered
<1>2. n # 0
  BY <1>1, FS_EmptySet DEF Numbered
<1>3. PICK o \in S : Cardinality(Below(S, o.id)) = n - 1
  BY <1>1, <1>2, RankOnto
<1>4. ASSUME NEW p \in S PROVE ~(o.id < p.id)
  BY <1>1, <1>3, BelowGrows, RankBound DEF Numbered
<1> QED
  BY <1>4 DEF Numbered

Rest(after) == {o \in offers : o.id > after}

LEMMA RestNumbered ==
  ASSUME offers \subseteq AllOffers, NEW after
  PROVE  Numbered(Rest(after)) /\ Rest(after) \subseteq AllOffers
<1>1. Rest(after) \in SUBSET AllOffers
  BY DEF Rest
<1>2. IsFiniteSet(Rest(after))
  BY <1>1, FS_Subset, OffersAssumption
<1> QED
  BY <1>1, <1>2, OffersAssumption DEF Numbered

\* A page of the vendor service is what comes next after the cursor, without
\* a gap, and all of it when there is no more.
LEMMA PageIsNext ==
  ASSUME offers \subseteq AllOffers, NEW after \in Nat, NEW page, page = Page(after, PageLimit)
  PROVE  /\ page \subseteq offers /\ Numbered(page)
         /\ \A o \in page : o.id > after
         /\ \A o \in page, p \in offers : p.id > after /\ p.id <= o.id => p \in page
         /\ ~HasMore(after) => \A p \in offers : p.id > after => p \in page
         /\ HasMore(after) => page # {}
<1> DEFINE R == Rest(after)
<1>1. Numbered(R) /\ R \subseteq offers
  BY RestNumbered DEF Rest
<1>2. PageLimit \in Nat \ {0}
  BY DecisionsAssumption
<1>3. page = {o \in R : Cardinality(Below(R, o.id)) < PageLimit}
  <2>1. ASSUME NEW o \in offers PROVE {p \in offers : p.id > after /\ p.id < o.id} = Below(R, o.id)
    BY DEF Below, Rest
  <2> QED
    BY <2>1 DEF Page, Rest
<1>4. page \in SUBSET R
  BY <1>3
<1>5. IsFiniteSet(page)
  BY <1>1, <1>4, FS_Subset DEF Numbered
<1>6. Numbered(page)
  BY <1>1, <1>4, <1>5 DEF Numbered
<1>7. \A o \in page : o.id > after
  BY <1>4 DEF Rest
<1>8. ASSUME NEW o \in page, NEW p \in offers, p.id > after, p.id <= o.id PROVE p \in page
  <2>1. p \in R /\ o \in R /\ p.id \in Nat /\ o.id \in Nat
    BY <1>1, <1>4, <1>8 DEF Rest, Numbered
  <2>2. CASE p.id = o.id
    BY <2>1, <2>2, <1>1 DEF Numbered
  <2>3. CASE p.id < o.id
    <3>1. /\ Cardinality(Below(R, p.id)) \in Nat /\ Cardinality(Below(R, o.id)) \in Nat
          /\ Cardinality(Below(R, p.id)) < Cardinality(Below(R, o.id))
      BY <1>1, <2>1, <2>3, BelowGrows
    <3> QED
      BY <3>1, <2>1, <1>2, <1>3
  <2> QED
    BY <1>8, <2>1, <2>2, <2>3
<1>9. ASSUME ~HasMore(after), NEW p \in offers, p.id > after PROVE p \in page
  <2>1. p \in R
    BY <1>9 DEF Rest
  <2>2. /\ Cardinality(Below(R, p.id)) \in Nat /\ Cardinality(R) \in Nat
        /\ Cardinality(Below(R, p.id)) < Cardinality(R)
    BY <1>1, <2>1, RankBound, FS_CardinalityType DEF Numbered
  <2>3. Cardinality(R) <= PageLimit
    BY <1>2, <1>9, <2>2 DEF HasMore, Rest
  <2> QED
    BY <1>2, <1>3, <2>1, <2>2, <2>3
<1>10. ASSUME HasMore(after) PROVE page # {}
  <2>1. Cardinality(R) \in Nat /\ Cardinality(R) > PageLimit
    BY <1>1, <1>10, FS_CardinalityType DEF HasMore, Rest, Numbered
  <2>2. PICK o \in R : Cardinality(Below(R, o.id)) = 1 - 1
    BY <1>1, <1>2, <2>1, RankOnto
  <2> QED
    BY <1>2, <1>3, <2>2
<1> QED
  BY <1>1, <1>4, <1>6, <1>7, <1>8, <1>9, <1>10

LEMMA CursorIsLast ==
  ASSUME NEW page, Numbered(page), page # {}
  PROVE  /\ \E o \in page : o.id = NextCursor(page)
         /\ \A o \in page : o.id <= NextCursor(page)
<1> DEFINE I == {o.id : o \in page}
<1>1. PICK o \in page : \A p \in page : p.id <= o.id
  BY LastOffer
<1>2. \E i \in I : \A j \in I : i >= j
  BY <1>1 DEF Numbered
<1>3. NextCursor(page) \in I /\ \A j \in I : NextCursor(page) >= j
  BY <1>2 DEF NextCursor, Max
<1> QED
  BY <1>3 DEF Numbered

-----------------------------------------------------------------------------
(* The walk. *)

Facts == Reported \X {"positive", "negative"}
DTOs == {AsDTO(o, f) : o \in AllOffers, f \in SUBSET Facts}

LEMMA DTOOffer ==
  ASSUME NEW o, NEW f PROVE AsDTO(o, f).offer = o
BY DEF AsDTO

LEMMA DTOPositive ==
  ASSUME NEW o, NEW f PROVE AsDTO(o, f).positive = (<<o.vendor, "positive">> \in f)
BY DEF AsDTO

LEMMA DTOType == \A d \in DTOs : d.offer \in AllOffers /\ d.offer.id \in Nat
<1> SUFFICES ASSUME NEW d \in DTOs PROVE d.offer \in AllOffers /\ d.offer.id \in Nat
  OBVIOUS
<1>1. PICK o \in AllOffers, f \in SUBSET Facts : d = AsDTO(o, f)
  BY DEF DTOs
<1>2. d.offer = o
  BY <1>1, DTOOffer
<1> QED
  BY <1>2, OffersAssumption

\* The offers fetched are in order; those of the start that are not past the
\* cursor are among them, and a good word about a vendor is not taken back.
Sorted(dtos) ==
  \A j, k \in DOMAIN dtos : j < k => dtos[j].offer.id < dtos[k].offer.id
Holds(dtos, i) == \E k \in DOMAIN dtos : dtos[k].offer.id = i

WalkOK(k) ==
  /\ k.dtos \in Seq(DTOs) /\ k.after \in Nat
  /\ Sorted(k.dtos)
  /\ k.owed \subseteq {o.id : o \in offers}
  /\ k.at = "fetch" =>
       /\ \A j \in DOMAIN k.dtos : k.dtos[j].offer.id <= k.after
       /\ \A i \in k.owed : i <= k.after => Holds(k.dtos, i)
  /\ k.at = "store" => \A i \in k.owed : Holds(k.dtos, i)
  /\ \A j \in DOMAIN k.dtos :
       k.dtos[j].positive => <<k.dtos[j].offer.vendor, "positive">> \in facts

WalkInv ==
  /\ offers \subseteq AllOffers /\ facts \in SUBSET Facts
  /\ DOMAIN walk = Walks /\ \A w \in Walks : WalkOK(walk[w])

\* The offers and facts that a page adds to what was fetched.
Fetched(dtos, page) ==
  dtos \o [k \in 1..Cardinality(page) |-> AsDTO(InOrder(page)[k], facts)]

Extends(seen, dtos, page) ==
  /\ seen \in Seq(DTOs)
  /\ \A k \in DOMAIN dtos : k \in DOMAIN seen /\ seen[k] = dtos[k]
  /\ \A k \in DOMAIN seen \ DOMAIN dtos :
       \E i \in 1..Cardinality(page) :
         k = Len(dtos) + i /\ seen[k] = AsDTO(InOrder(page)[i], facts)
  /\ \A i \in 1..Cardinality(page) :
       /\ Len(dtos) + i \in DOMAIN seen
       /\ seen[Len(dtos) + i] = AsDTO(InOrder(page)[i], facts)

LEMMA FetchedExtends ==
  ASSUME NEW dtos \in Seq(DTOs), NEW page, Numbered(page), page \subseteq AllOffers,
         facts \in SUBSET Facts, NEW seen, seen = Fetched(dtos, page)
  PROVE  Extends(seen, dtos, page)
<1>1. PICK n \in Nat : n = Cardinality(page)
  BY FS_CardinalityType DEF Numbered
<1>2. PICK t : t = [k \in 1..n |-> AsDTO(InOrder(page)[k], facts)]
  OBVIOUS
<1>3. \A k \in 1..n : t[k] = AsDTO(InOrder(page)[k], facts) /\ t[k] \in DTOs
  BY <1>1, <1>2, InOrderSorts DEF DTOs
<1>4. t \in Seq(DTOs) /\ Len(t) = n /\ DOMAIN t = 1..n
  <2>1. t \in [1..n -> DTOs]
    BY <1>2, <1>3
  <2> QED
    BY <2>1
<1>5. seen = dtos \o t
  BY <1>1, <1>2 DEF Fetched
<1>6. PICK m \in Nat : m = Len(dtos) /\ DOMAIN dtos = 1..m
  OBVIOUS
<1>7. /\ seen \in Seq(DTOs) /\ Len(seen) = m + n /\ DOMAIN seen = 1..(m + n)
      /\ \A k \in 1..m : seen[k] = dtos[k]
      /\ \A i \in 1..n : seen[m + i] = t[i]
  <2>1. seen \in Seq(DTOs) /\ Len(seen) = m + n
    BY <1>4, <1>5, <1>6, ConcatProperties
  <2>2. DOMAIN seen = 1..(m + n)
    BY <2>1
  <2>3. \A k \in 1..m : seen[k] = dtos[k]
    BY <1>4, <1>5, <1>6
  <2>4. \A i \in 1..n : seen[m + i] = t[i]
    BY <1>4, <1>5, <1>6
  <2> QED
    BY <2>1, <2>2, <2>3, <2>4
<1>8. \A k \in (1..(m + n)) \ (1..m) : k - m \in 1..n /\ k = m + (k - m)
  OBVIOUS
<1>9. ASSUME NEW k \in DOMAIN seen \ DOMAIN dtos
      PROVE  \E i \in 1..n : k = m + i /\ seen[k] = AsDTO(InOrder(page)[i], facts)
  <2>1. k - m \in 1..n /\ k = m + (k - m)
    BY <1>6, <1>7, <1>8
  <2>2. seen[k] = t[k - m]
    BY <2>1, <1>7
  <2> QED
    BY <2>1, <2>2, <1>3
<1>10. \A k \in DOMAIN dtos : k \in DOMAIN seen /\ seen[k] = dtos[k]
  BY <1>6, <1>7
<1>11. \A i \in 1..n : m + i \in DOMAIN seen /\ seen[m + i] = AsDTO(InOrder(page)[i], facts)
  BY <1>3, <1>7
<1> QED
  BY <1>1, <1>6, <1>7, <1>9, <1>10, <1>11 DEF Extends

\* One more page keeps the order, holds what is owed up to its last offer,
\* and reads every good word from the facts of now.
LEMMA FetchedInOrder ==
  ASSUME WalkInv, NEW dtos \in Seq(DTOs), NEW after \in Nat, Sorted(dtos),
         \A j \in DOMAIN dtos : dtos[j].offer.id <= after,
         NEW page, page = Page(after, PageLimit), NEW seen, seen = Fetched(dtos, page)
  PROVE  /\ seen \in Seq(DTOs) /\ Sorted(seen)
         /\ \A i : Holds(dtos, i) => Holds(seen, i)
         /\ \A o \in page : Holds(seen, o.id)
         /\ \A j \in DOMAIN seen : j \in DOMAIN dtos \/ \E o \in page : seen[j] = AsDTO(o, facts)
<1>0. /\ page \subseteq offers /\ page \subseteq AllOffers /\ Numbered(page)
      /\ \A o \in page : o.id > after
  BY PageIsNext DEF WalkInv
<1>1. facts \in SUBSET Facts
  BY DEF WalkInv
<1>2. PICK n \in Nat : n = Cardinality(page)
  BY <1>0, FS_CardinalityType DEF Numbered
<1>3. PICK m \in Nat : m = Len(dtos) /\ DOMAIN dtos = 1..m
  OBVIOUS
<1>4. /\ seen \in Seq(DTOs)
      /\ \A k \in DOMAIN dtos : k \in DOMAIN seen /\ seen[k] = dtos[k]
      /\ \A k \in DOMAIN seen \ DOMAIN dtos :
           \E i \in 1..n : k = m + i /\ seen[k] = AsDTO(InOrder(page)[i], facts)
      /\ \A i \in 1..n :
           m + i \in DOMAIN seen /\ seen[m + i] = AsDTO(InOrder(page)[i], facts)
  <2>1. Extends(seen, dtos, page)
    BY <1>0, <1>1, FetchedExtends
  <2> QED
    BY <2>1, <1>2, <1>3 DEF Extends
<1>5. /\ \A k \in 1..n : InOrder(page)[k] \in page
      /\ \A j, k \in 1..n : j < k => InOrder(page)[j].id < InOrder(page)[k].id
      /\ \A o \in page : \E k \in 1..n : InOrder(page)[k] = o
  BY <1>0, <1>2, InOrderSorts
<1>6. ASSUME NEW j \in DOMAIN seen, NEW k \in DOMAIN seen, j < k
      PROVE  seen[j].offer.id < seen[k].offer.id
  <2>0. \A i \in 1..n : m + i \notin DOMAIN dtos /\ m + i > m
    BY <1>3
  <2>1. CASE k \in DOMAIN dtos
    <3>1. j \in DOMAIN dtos
      BY <2>1, <1>3, <1>4, <1>6
    <3> QED
      BY <2>1, <3>1, <1>4, <1>6 DEF Sorted
  <2>2. CASE j \in DOMAIN dtos /\ k \notin DOMAIN dtos
    <3>1. PICK i \in 1..n : seen[k] = AsDTO(InOrder(page)[i], facts)
      BY <2>2, <1>4
    <3>2. PICK o \in page : o = InOrder(page)[i]
      BY <1>5
    <3>3. seen[k].offer.id > after
      BY <3>1, <3>2, <1>0, DTOOffer
    <3>4. seen[j].offer.id <= after
      BY <2>2, <1>4
    <3>5. seen[j] \in DTOs /\ seen[k] \in DTOs
      BY <1>4, <1>6
    <3>6. seen[j].offer.id \in Nat /\ seen[k].offer.id \in Nat
      BY <3>5, DTOType
    <3> QED
      BY <3>3, <3>4, <3>6
  <2>3. CASE j \notin DOMAIN dtos /\ k \notin DOMAIN dtos
    <3>1. PICK a \in 1..n : j = m + a /\ seen[j] = AsDTO(InOrder(page)[a], facts)
      BY <2>3, <1>4
    <3>2. PICK b \in 1..n : k = m + b /\ seen[k] = AsDTO(InOrder(page)[b], facts)
      BY <2>3, <1>4
    <3>3. a < b
      BY <3>1, <3>2, <1>6
    <3>4. seen[j].offer = InOrder(page)[a] /\ seen[k].offer = InOrder(page)[b]
      BY <3>1, <3>2, DTOOffer
    <3> QED
      BY <3>3, <3>4, <1>5
  <2> QED
    BY <2>1, <2>2, <2>3
<1>7. ASSUME NEW i, Holds(dtos, i) PROVE Holds(seen, i)
  BY <1>4, <1>7 DEF Holds
<1>8. ASSUME NEW o \in page PROVE Holds(seen, o.id)
  <2>1. PICK k \in 1..n : InOrder(page)[k] = o
    BY <1>5
  <2>2. m + k \in DOMAIN seen /\ seen[m + k].offer = o
    BY <2>1, <1>4, DTOOffer
  <2> QED
    BY <2>2 DEF Holds
<1>9. ASSUME NEW j \in DOMAIN seen
      PROVE  j \in DOMAIN dtos \/ \E o \in page : seen[j] = AsDTO(o, facts)
  BY <1>4, <1>5
<1> QED
  BY <1>4, <1>6, <1>7, <1>8, <1>9 DEF Sorted

LEMMA WalkFields ==
  ASSUME NEW at, NEW t, NEW after, NEW dtos, NEW owed, NEW k, k = Walk(at, t, after, dtos, owed)
  PROVE  k.at = at /\ k.tender = t /\ k.after = after /\ k.dtos = dtos /\ k.owed = owed
BY DEF Walk

LEMMA NothingFetched ==
  ASSUME NEW k, k.dtos = << >>, k.after = 0, k.at \in {"idle", "fetch"},
         k.owed \subseteq {o.id : o \in offers}, offers \subseteq AllOffers
  PROVE  WalkOK(k)
<1>1. k.dtos \in Seq(DTOs) /\ DOMAIN k.dtos = {}
  OBVIOUS
<1>2. \A i \in k.owed : ~(i <= 0)
  BY OffersAssumption
<1> QED
  BY <1>1, <1>2 DEF WalkOK, Sorted

\* A step of one walk.
LEMMA WalkMoves ==
  ASSUME WalkInv, NEW w \in Walks, NEW k, WalkOK(k), walk' = [walk EXCEPT ![w] = k],
         UNCHANGED <<offers, facts>>
  PROVE  WalkInv'
<1>1. /\ DOMAIN walk' = Walks /\ walk'[w] = k
      /\ \A v \in Walks \ {w} : walk'[v] = walk[v]
  BY DEF WalkInv
<1>2. ASSUME NEW v \in Walks PROVE WalkOK(walk[v])'
  BY <1>1 DEF WalkInv, WalkOK
<1> QED
  BY <1>1, <1>2 DEF WalkInv

LEMMA FetchPageWalks ==
  ASSUME WalkInv, NEW w \in Walks, FetchPage(w)
  PROVE  WalkInv'
<1>1. PICK k : k = walk[w]
  OBVIOUS
<1>2. WalkOK(k) /\ k.at = "fetch"
  BY <1>1 DEF WalkInv, FetchPage
<1>3. PICK page : page = Page(k.after, PageLimit)
  OBVIOUS
<1>4. PICK seen : seen = Fetched(k.dtos, page)
  OBVIOUS
<1>5. /\ k.dtos \in Seq(DTOs) /\ k.after \in Nat /\ Sorted(k.dtos)
      /\ \A j \in DOMAIN k.dtos : k.dtos[j].offer.id <= k.after
      /\ \A i \in k.owed : i <= k.after => Holds(k.dtos, i)
      /\ k.owed \subseteq {o.id : o \in offers}
      /\ \A j \in DOMAIN k.dtos :
           k.dtos[j].positive => <<k.dtos[j].offer.vendor, "positive">> \in facts
  BY <1>2 DEF WalkOK
<1>6. /\ seen \in Seq(DTOs) /\ Sorted(seen)
      /\ \A i : Holds(k.dtos, i) => Holds(seen, i)
      /\ \A o \in page : Holds(seen, o.id)
      /\ \A j \in DOMAIN seen : j \in DOMAIN k.dtos \/ \E o \in page : seen[j] = AsDTO(o, facts)
  BY <1>3, <1>4, <1>5, FetchedInOrder
<1>7. /\ page \subseteq offers /\ Numbered(page) /\ offers \subseteq AllOffers
      /\ \A o \in page : o.id > k.after
      /\ \A o \in page, p \in offers : p.id > k.after /\ p.id <= o.id => p \in page
      /\ ~HasMore(k.after) => \A p \in offers : p.id > k.after => p \in page
      /\ HasMore(k.after) => page # {}
  BY <1>3, <1>5, PageIsNext DEF WalkInv
<1>8. \A j \in DOMAIN k.dtos : j \in DOMAIN seen /\ seen[j] = k.dtos[j]
  <2>1. Extends(seen, k.dtos, page)
    BY <1>3, <1>4, <1>5, <1>7, FetchedExtends DEF WalkInv
  <2> QED
    BY <2>1 DEF Extends
<1>9. ASSUME NEW j \in DOMAIN seen, seen[j].positive
      PROVE  <<seen[j].offer.vendor, "positive">> \in facts
  <2>1. CASE j \in DOMAIN k.dtos
    BY <2>1, <1>5, <1>8, <1>9
  <2>2. ASSUME NEW o \in page, seen[j] = AsDTO(o, facts)
        PROVE  <<seen[j].offer.vendor, "positive">> \in facts
    <3>1. seen[j].offer = o
      BY <2>2, DTOOffer
    <3>2. seen[j].positive = (<<o.vendor, "positive">> \in facts)
      BY <2>2, DTOPositive, Zenon
    <3> QED
      BY <3>1, <3>2, <1>9, Zenon
  <2> QED
    BY <2>1, <2>2, <1>6
<1>10. UNCHANGED <<offers, facts>>
  BY DEF FetchPage, vendor
<1>11. \A o \in offers : o.id \in Nat
  BY <1>7, OffersAssumption
<1>12. CASE HasMore(k.after)
  <2>1. PICK z : z = NextCursor(page)
    OBVIOUS
  <2>2. PICK n : n = Walk("fetch", k.tender, z, seen, k.owed)
    OBVIOUS
  <2>3. n.at = "fetch" /\ n.after = z /\ n.dtos = seen /\ n.owed = k.owed
    BY <2>2, WalkFields
  <2>4. walk' = [walk EXCEPT ![w] = n]
    BY <1>1, <1>3, <1>4, <1>12, <2>1, <2>2 DEF FetchPage, Fetched
  <2>5. PICK last \in page : last.id = z /\ \A o \in page : o.id <= z
    BY <1>7, <1>12, <2>1, CursorIsLast
  <2>6. z \in Nat /\ k.after < z
    BY <2>5, <1>7, <1>11
  <2>7. ASSUME NEW j \in DOMAIN seen PROVE seen[j].offer.id <= z
    <3>1. CASE j \in DOMAIN k.dtos
      <4>1. k.dtos[j] \in DTOs
        BY <3>1, <1>5
      <4>2. seen[j].offer.id <= k.after /\ seen[j].offer.id \in Nat
        BY <3>1, <4>1, <1>5, <1>8, DTOType
      <4> QED
        BY <4>2, <2>6, <1>5
    <3>2. ASSUME NEW o \in page, seen[j] = AsDTO(o, facts) PROVE seen[j].offer.id <= z
      BY <3>2, <2>5, DTOOffer
    <3> QED
      BY <3>1, <3>2, <1>6
  <2>8. ASSUME NEW i \in k.owed, i <= z PROVE Holds(seen, i)
    <3>1. PICK o \in offers : o.id = i
      BY <1>5
    <3>2. CASE i <= k.after
      BY <3>2, <1>5, <1>6
    <3>3. CASE ~(i <= k.after)
      <4>1. o \in page
        BY <3>1, <3>3, <2>5, <2>8, <1>5, <1>7, <1>11
      <4> QED
        BY <3>1, <4>1, <1>6
    <3> QED
      BY <3>2, <3>3
  <2>9. WalkOK(n)
    BY <2>3, <2>6, <2>7, <2>8, <1>5, <1>6, <1>9 DEF WalkOK
  <2> QED
    BY <2>4, <2>9, <1>10, WalkMoves
<1>13. CASE ~HasMore(k.after)
  <2>1. PICK n : n = Walk("store", k.tender, k.after, seen, k.owed)
    OBVIOUS
  <2>2. n.at = "store" /\ n.after = k.after /\ n.dtos = seen /\ n.owed = k.owed
    BY <2>1, WalkFields
  <2>3. walk' = [walk EXCEPT ![w] = n]
    BY <1>1, <1>3, <1>4, <1>13, <2>1 DEF FetchPage, Fetched
  <2>4. ASSUME NEW i \in k.owed PROVE Holds(seen, i)
    <3>1. PICK o \in offers : o.id = i
      BY <1>5
    <3>2. CASE i <= k.after
      BY <3>2, <1>5, <1>6
    <3>3. CASE ~(i <= k.after)
      <4>1. o \in page
        BY <3>1, <3>3, <1>5, <1>7, <1>11, <1>13
      <4> QED
        BY <3>1, <4>1, <1>6
    <3> QED
      BY <3>2, <3>3
  <2>5. WalkOK(n)
    BY <2>2, <2>4, <1>5, <1>6, <1>9 DEF WalkOK
  <2> QED
    BY <2>3, <2>5, <1>10, WalkMoves
<1> QED
  BY <1>12, <1>13

LEMMA WalkInvNext == WalkInv /\ [Next]_vars => WalkInv'
<1> SUFFICES ASSUME WalkInv, [Next]_vars PROVE WalkInv'
  OBVIOUS
<1>1. ASSUME NEW w \in Walks, WalkStep(w) PROVE WalkInv'
  <2>0. offers \subseteq AllOffers
    BY DEF WalkInv
  <2>1. ASSUME NEW t \in Tenders, BeginWalk(w, t) PROVE WalkInv'
    <3>1. PICK owed : owed = {o.id : o \in offers}
      OBVIOUS
    <3>2. PICK n : n = Walk("fetch", t, 0, << >>, owed)
      OBVIOUS
    <3>3. n.dtos = << >> /\ n.after = 0 /\ n.at = "fetch" /\ n.owed = owed
      BY <3>2, WalkFields
    <3>4. WalkOK(n)
      BY <3>1, <3>3, <2>0, NothingFetched
    <3> QED
      BY <2>1, <3>1, <3>2, <3>4, WalkMoves DEF BeginWalk, vendor
  <2>2. ASSUME WalkFails(w) \/ StoreCandidate(w) PROVE WalkInv'
    <3>1. PICK n : n = Ended
      OBVIOUS
    <3>2. n.dtos = << >> /\ n.after = 0 /\ n.at = "idle" /\ n.owed = {}
      BY <3>1, WalkFields DEF Ended
    <3>3. WalkOK(n)
      BY <3>2, <2>0, NothingFetched
    <3> QED
      BY <2>2, <3>1, <3>3, WalkMoves DEF WalkFails, StoreCandidate, vendor
  <2> QED
    BY <1>1, <2>1, <2>2, FetchPageWalks DEF WalkStep
<1>2. ASSUME UNCHANGED walk, offers \subseteq offers', offers' \subseteq AllOffers,
             facts \subseteq facts', facts' \in SUBSET Facts
      PROVE  WalkInv'
  <2>1. ASSUME NEW w \in Walks PROVE WalkOK(walk[w])'
    BY <1>2 DEF WalkInv, WalkOK
  <2> QED
    BY <2>1, <1>2 DEF WalkInv
<1>3. ASSUME NEW o \in LateOffers, StoreOffer(o) PROVE WalkInv'
  BY <1>2, <1>3 DEF StoreOffer, WalkInv, AllOffers
<1>4. ASSUME NEW v \in Reported, NEW sign \in {"positive", "negative"}, ReportFact(v, sign)
      PROVE  WalkInv'
  BY <1>2, <1>4 DEF ReportFact, WalkInv, Facts
<1>5. ASSUME UNCHANGED <<offers, facts, walk>> PROVE WalkInv'
  BY <1>2, <1>5 DEF WalkInv
<1>6. ASSUME NEW r \in Requests, PostStep(r) PROVE UNCHANGED <<offers, facts, walk>>
  BY <1>6 DEF PostStep, BeginPost, ReserveNew, Replay, RefuseReused, Rollback, StoreInputs,
     CheckReferences, InsertDecision, CommitDecision, vendor
<1> QED
  BY <1>1, <1>3, <1>4, <1>5, <1>6 DEF Next, VendorStep, Tick, vars, vendor

THEOREM WalkInvAlways == Spec => []WalkInv
<1>1. Init => WalkInv
  <2> SUFFICES ASSUME Init PROVE WalkInv
    OBVIOUS
  <2>1. offers \subseteq AllOffers /\ facts \in SUBSET Facts /\ DOMAIN walk = Walks
    BY DEF Init, AllOffers
  <2>2. PICK n : n = Ended
    OBVIOUS
  <2>3. n.dtos = << >> /\ n.after = 0 /\ n.at = "idle" /\ n.owed = {}
    BY <2>2, WalkFields DEF Ended
  <2>4. WalkOK(n)
    BY <2>1, <2>3, NothingFetched
  <2> QED
    BY <2>1, <2>2, <2>4 DEF Init, WalkInv
<1> QED
  BY <1>1, WalkInvNext, PTL DEF Spec

\* list_vendor_offers over list_internal_offers: whatever the page size, the
\* offers and the order in which vendors store more of them, a finished walk
\* holds every offer of its start, each once.
THEOREM WalkIsComplete == Spec => []WalkMissesNothing
<1>1. WalkInv => WalkMissesNothing
  BY DEF WalkInv, WalkOK, WalkMissesNothing, Holds, Sorted
<1> QED
  BY <1>1, WalkInvAlways, PTL

-----------------------------------------------------------------------------
(* The traffic light of a line, page after page. *)

Weak(l, dtos) ==
  \A i \in Candidates(l, dtos) : VolumeStatus(l, dtos[i].offer) = "insufficient"
Praised(l, dtos) == \E i \in LastOfVendor(l, dtos, AsOf) : dtos[i].positive

LEMMA CandidatesPersist ==
  ASSUME NEW l, NEW dtos, NEW seen, NEW page, Extends(seen, dtos, page), NEW i \in DOMAIN dtos
  PROVE  /\ i \in DOMAIN seen /\ seen[i] = dtos[i]
         /\ i \in Candidates(l, dtos) <=> i \in Candidates(l, seen)
<1>1. i \in DOMAIN seen /\ seen[i] = dtos[i]
  BY DEF Extends
<1> QED
  BY <1>1 DEF Candidates

LEMMA StrongPersist ==
  ASSUME NEW l, NEW dtos, NEW seen, NEW page, Extends(seen, dtos, page), NEW i \in DOMAIN dtos
  PROVE  i \in Strong(l, dtos, AsOf) <=> i \in Strong(l, seen, AsOf)
BY CandidatesPersist DEF Strong

LEMMA VendorsFinite ==
  ASSUME NEW l, NEW seen \in Seq(DTOs)
  PROVE  IsFiniteSet(StrongVendors(l, seen, AsOf))
<1>1. PICK n \in Nat : DOMAIN seen = 1..n
  OBVIOUS
<1>2. PICK S : S = Strong(l, seen, AsOf)
  OBVIOUS
<1>3. S \in SUBSET (1..n)
  BY <1>1, <1>2 DEF Strong, Candidates
<1>4. IsFiniteSet(S)
  <2>1. IsFiniteSet(1..n)
    BY FS_Interval
  <2> QED
    BY <1>3, <2>1, FS_Subset
<1>5. PICK f : f = [i \in S |-> seen[i].offer.vendor]
  OBVIOUS
<1>6. PICK V : V = StrongVendors(l, seen, AsOf)
  OBVIOUS
<1>7. f \in Surjection(S, V)
  BY <1>2, <1>5, <1>6 DEF Surjection, StrongVendors
<1> QED
  BY <1>4, <1>6, <1>7, FS_Surjection

LEMMA StaysNotRed ==
  ASSUME NEW l, NEW dtos, NEW seen, NEW page, Extends(seen, dtos, page), ~Weak(l, dtos)
  PROVE  ~Weak(l, seen)
<1>1. PICK i \in Candidates(l, dtos) : VolumeStatus(l, dtos[i].offer) # "insufficient"
  BY DEF Weak
<1>2. i \in DOMAIN dtos
  BY DEF Candidates
<1>3. i \in Candidates(l, seen) /\ seen[i] = dtos[i]
  BY <1>2, CandidatesPersist
<1> QED
  BY <1>1, <1>3 DEF Weak

LEMMA VendorsStay ==
  ASSUME NEW l, NEW dtos \in Seq(DTOs), NEW seen, NEW page, Extends(seen, dtos, page),
         Cardinality(StrongVendors(l, dtos, AsOf)) >= 2
  PROVE  Cardinality(StrongVendors(l, seen, AsOf)) >= 2
<1>1. PICK V : V = StrongVendors(l, dtos, AsOf)
  OBVIOUS
<1>2. PICK W : W = StrongVendors(l, seen, AsOf)
  OBVIOUS
<1>3. V \in SUBSET W
  <2> SUFFICES ASSUME NEW v \in V PROVE v \in W
    OBVIOUS
  <2>1. PICK i \in Strong(l, dtos, AsOf) : v = dtos[i].offer.vendor
    BY <1>1 DEF StrongVendors
  <2>2. i \in DOMAIN dtos
    BY DEF Strong, Candidates
  <2>3. i \in Strong(l, seen, AsOf)
    BY <2>2, StrongPersist
  <2>4. seen[i] = dtos[i]
    BY <2>2 DEF Extends
  <2> QED
    BY <1>2, <2>1, <2>3, <2>4 DEF StrongVendors
<1>4. IsFiniteSet(W) /\ IsFiniteSet(V)
  BY <1>1, <1>2, VendorsFinite DEF Extends
<1>5. Cardinality(V) <= Cardinality(W) /\ Cardinality(V) \in Nat /\ Cardinality(W) \in Nat
  BY <1>3, <1>4, FS_Subset, FS_CardinalityType
<1> QED
  BY <1>1, <1>2, <1>5

\* The last strong offer of a praised vendor is the old one, or one that was
\* read under the same praise.
LEMMA PraiseStays ==
  ASSUME NEW l, NEW dtos \in Seq(DTOs), NEW seen, NEW page, Numbered(page),
         Extends(seen, dtos, page),
         \A j \in DOMAIN dtos : dtos[j].positive => <<dtos[j].offer.vendor, "positive">> \in facts,
         Praised(l, dtos)
  PROVE  Praised(l, seen)
<1>1. PICK i \in LastOfVendor(l, dtos, AsOf) : dtos[i].positive
  BY DEF Praised
<1>2. PICK v : v = dtos[i].offer.vendor
  OBVIOUS
<1>3. /\ i \in Strong(l, dtos, AsOf) /\ i \in DOMAIN dtos
      /\ \A j \in Strong(l, dtos, AsOf) : dtos[j].offer.vendor = v => j <= i
  BY <1>2 DEF LastOfVendor, Strong, Candidates
<1>4. <<v, "positive">> \in facts
  BY <1>1, <1>2, <1>3, Zenon
<1>5. PICK n \in Nat : DOMAIN seen = 1..n
  BY DEF Extends
<1> DEFINE V == {j \in Strong(l, seen, AsOf) : seen[j].offer.vendor = v}
<1>6. V \in SUBSET (0..n)
  BY <1>5 DEF Strong, Candidates
<1>7. i \in V
  <2>1. i \in Strong(l, seen, AsOf)
    BY <1>3, StrongPersist
  <2>2. seen[i] = dtos[i]
    BY <1>3 DEF Extends
  <2> QED
    BY <2>1, <2>2, <1>2
<1>8. PICK z \in V : \A u \in V : u <= z
  BY <1>6, <1>7, GreatestBelow
<1>9. z \in LastOfVendor(l, seen, AsOf)
  BY <1>8 DEF LastOfVendor
<1>10. z \in DOMAIN seen
  BY DEF Strong, Candidates
<1>11. CASE z \in DOMAIN dtos
  <2>1. z \in Strong(l, dtos, AsOf) /\ seen[z] = dtos[z]
    BY <1>11, CandidatesPersist, StrongPersist
  <2>2. z <= i /\ i <= z
    BY <2>1, <1>3, <1>7, <1>8
  <2>3. z = i
    BY <2>2, <1>5, <1>6, <1>7
  <2>4. seen[z].positive
    BY <2>1, <2>3, <1>1, Zenon
  <2> QED
    BY <2>4, <1>9, Zenon DEF Praised
<1>12. CASE z \notin DOMAIN dtos
  <2>1. PICK k : seen[z] = AsDTO(InOrder(page)[k], facts)
    BY <1>10, <1>12 DEF Extends
  <2>2. seen[z].offer = InOrder(page)[k]
    BY <2>1, DTOOffer
  <2>3. InOrder(page)[k].vendor = v
    BY <2>2, <1>8
  <2>4. AsDTO(InOrder(page)[k], facts).positive = (<<InOrder(page)[k].vendor, "positive">> \in facts)
    BY DTOPositive, Zenon
  <2>5. seen[z].positive
    BY <2>1, <2>3, <2>4, <1>4, Zenon
  <2> QED
    BY <2>5, <1>9, Zenon DEF Praised
<1> QED
  BY <1>11, <1>12

LEMMA LightCases ==
  ASSUME NEW l, NEW dtos
  PROVE  /\ Weak(l, dtos) => TrafficLight(l, dtos, AsOf) = "red"
         /\ ~Weak(l, dtos) => TrafficLight(l, dtos, AsOf) \in {"yellow", "green"}
         /\ TrafficLight(l, dtos, AsOf) = "green" <=>
              ~Weak(l, dtos) /\ Cardinality(StrongVendors(l, dtos, AsOf)) >= 2 /\ Praised(l, dtos)
<1>1. TrafficLight(l, dtos, AsOf) =
        IF Weak(l, dtos) THEN "red"
        ELSE IF Cardinality(StrongVendors(l, dtos, AsOf)) >= 2 /\ Praised(l, dtos)
             THEN "green" ELSE "yellow"
  BY Zenon DEF TrafficLight, Weak, Praised
<1> QED
  BY <1>1

LEMMA PageNeverDarkens ==
  ASSUME NEW l, NEW dtos \in Seq(DTOs), NEW seen, NEW page, Numbered(page),
         Extends(seen, dtos, page),
         \A j \in DOMAIN dtos : dtos[j].positive => <<dtos[j].offer.vendor, "positive">> \in facts
  PROVE  LightRank[TrafficLight(l, dtos, AsOf)] <= LightRank[TrafficLight(l, seen, AsOf)]
<1>0. PICK a : a = TrafficLight(l, dtos, AsOf)
  OBVIOUS
<1>1. PICK b : b = TrafficLight(l, seen, AsOf)
  OBVIOUS
<1>2. a \in {"red", "yellow", "green"} /\ b \in {"red", "yellow", "green"}
  BY <1>0, <1>1, LightCases
<1>3. a # "red" => b # "red"
  BY <1>0, <1>1, LightCases, StaysNotRed
<1>4. a = "green" => b = "green"
  <2> SUFFICES ASSUME a = "green" PROVE b = "green"
    OBVIOUS
  <2>1. ~Weak(l, dtos) /\ Cardinality(StrongVendors(l, dtos, AsOf)) >= 2 /\ Praised(l, dtos)
    BY <1>0, LightCases
  <2>2. ~Weak(l, seen)
    BY <2>1, StaysNotRed
  <2>3. Cardinality(StrongVendors(l, seen, AsOf)) >= 2
    BY <2>1, VendorsStay
  <2>4. Praised(l, seen)
    BY <2>1, PraiseStays
  <2> QED
    BY <1>1, <2>2, <2>3, <2>4, LightCases
<1>5. LightRank["red"] = 0 /\ LightRank["yellow"] = 1 /\ LightRank["green"] = 2
  BY DEF LightRank
<1> QED
  BY <1>0, <1>1, <1>2, <1>3, <1>4, <1>5

\* _traffic_light (matching.py): whatever the offers, the page size and the
\* reports between two pages, no page of a walk makes a line's light worse
\* than the pages before it made it.
THEOREM PagesOnlyImprove == Spec => LightsOnlyImprove
<1> DEFINE Better ==
      \A w \in Walks : walk[w].at = "fetch" /\ walk'[w].at # "idle" =>
        \A l \in Lines[walk[w].tender] : LightOf(w, l) <= LightOf(w, l)'
<1>1. WalkInv /\ [Next]_vars => [Better]_vars
  <2> SUFFICES ASSUME WalkInv, Next, NEW w \in Walks, walk[w].at = "fetch", walk'[w].at # "idle",
                      NEW l
               PROVE  LightOf(w, l) <= LightOf(w, l)'
    OBVIOUS
  <2>1. PICK k : k = walk[w]
    OBVIOUS
  <2>2. WalkOK(k) /\ k.at = "fetch"
    BY <2>1 DEF WalkInv
  <2>3. CASE FetchPage(w)
    <3>1. PICK page : page = Page(k.after, PageLimit)
      OBVIOUS
    <3>2. PICK seen : seen = Fetched(k.dtos, page)
      OBVIOUS
    <3>3. walk'[w].dtos = seen
      BY <2>1, <2>3, <3>1, <3>2 DEF FetchPage, Fetched, Walk, WalkInv
    <3>4. /\ k.dtos \in Seq(DTOs) /\ k.after \in Nat
          /\ \A j \in DOMAIN k.dtos :
               k.dtos[j].positive => <<k.dtos[j].offer.vendor, "positive">> \in facts
      BY <2>2 DEF WalkOK
    <3>5. Numbered(page) /\ page \subseteq AllOffers /\ facts \in SUBSET Facts
      BY <3>1, <3>4, PageIsNext DEF WalkInv
    <3>6. Extends(seen, k.dtos, page)
      BY <3>2, <3>4, <3>5, FetchedExtends
    <3>7. LightRank[TrafficLight(l, k.dtos, AsOf)] <= LightRank[TrafficLight(l, seen, AsOf)]
      BY <3>4, <3>5, <3>6, PageNeverDarkens
    <3> QED
      BY <2>1, <3>3, <3>7 DEF LightOf
  <2>4. CASE walk'[w] = walk[w]
    <3>1. LightOf(w, l)' = LightOf(w, l)
      BY <2>4 DEF LightOf
    <3>2. TrafficLight(l, k.dtos, AsOf) \in {"red", "yellow", "green"}
      BY LightCases
    <3>3. LightOf(w, l) \in Nat
      BY <2>1, <3>2 DEF LightOf, LightRank
    <3> QED
      BY <3>1, <3>3
  <2>5. FetchPage(w) \/ walk'[w] = walk[w]
    <3>1. ASSUME NEW v \in Walks, WalkStep(v) PROVE FetchPage(w) \/ walk'[w] = walk[w]
      <4>1. CASE v # w
        BY <3>1, <4>1 DEF WalkStep, BeginWalk, FetchPage, WalkFails, StoreCandidate, WalkInv
      <4>2. CASE v = w
        <5>1. ~WalkFails(w)
          BY WalkFields DEF WalkFails, WalkInv, Ended
        <5> QED
          BY <3>1, <4>2, <5>1 DEF WalkStep, BeginWalk, StoreCandidate
      <4> QED
        BY <4>1, <4>2
    <3>2. ASSUME NEW r \in Requests, PostStep(r) PROVE walk' = walk
      BY <3>2 DEF PostStep, BeginPost, ReserveNew, Replay, RefuseReused, Rollback, StoreInputs,
         CheckReferences, InsertDecision, CommitDecision
    <3> QED
      BY <3>1, <3>2 DEF Next, VendorStep, StoreOffer, ReportFact, Tick
  <2> QED
    BY <2>3, <2>4, <2>5
<1> QED
  BY <1>1, WalkInvAlways, PTL DEF Spec, LightsOnlyImprove

-----------------------------------------------------------------------------
(* Type correctness. *)

Record   == [fp : Bodies, answer : Nat \ {0}]
MemoType ==
  [at : {"reserve", "write", "check", "insert", "commit"}, slot : Slots, body : Bodies,
   stamp : Nat, id : Nat, before : SUBSET Nat]
InputsType   == [id : Nat, tender : Tenders, slot : Slots]
DecisionType ==
  [id : Nat, tender : Tenders, type : DecisionTypes, candidate : Nat, inputs : Nat,
   decided_at : Nat, slot : Slots, before : SUBSET Nat]
AnswerType   == [slot : Slots, body : Bodies, id : Nat]

TypedRows ==
  /\ idem \in [Slots -> {NoRecord} \cup Record]
  /\ inputs \subseteq InputsType /\ decisions \subseteq DecisionType
  /\ answers \subseteq AnswerType

\* A transaction on its way to a decision is not of go/no-go inputs.
TypedMemo(m) ==
  /\ m \in {Idle} \cup MemoType
  /\ m.at \in {"check", "insert", "commit"} => m.body.type \in DecisionTypes

TypedRequests ==
  /\ req \in [Requests -> {Idle} \cup MemoType]
  /\ \A r \in Requests : TypedMemo(req[r])

TypedCandidate(c) == c.id \in Nat /\ c.tender \in Tenders /\ c.is_lottery \in BOOLEAN

TypedWalk(k) ==
  /\ k.at \in {"idle", "fetch", "store"}
  /\ k.at # "idle" => k.tender \in Tenders

TypedWalks ==
  /\ \A c \in candidates : TypedCandidate(c)
  /\ \A w \in Walks : TypedWalk(walk[w])

DecisionsTypeInv == TypedRows /\ TypedRequests /\ TypedWalks

LEMMA BodyTyped ==
  \A b \in Bodies :
    /\ b.tender \in Tenders /\ b.type \in DecisionTypes \cup {"inputs"}
    /\ b.inputs \in Nat /\ b.candidate \in Nat
BY DecisionsAssumption

LEMMA AtWork ==
  ASSUME TypedRequests, NEW r \in Requests, req[r].at # "idle"
  PROVE  /\ req[r] \in MemoType
         /\ req[r].slot \in Slots /\ req[r].body \in Bodies /\ req[r].stamp \in Nat
         /\ req[r].id \in Nat /\ req[r].before \in SUBSET Nat
<1>1. req[r] \in MemoType
  BY IdleFields DEF TypedRequests, TypedMemo
<1> QED BY <1>1 DEF MemoType

LEMMA MemoTyped ==
  ASSUME NEW at \in {"reserve", "write", "check", "insert", "commit"}, NEW s \in Slots,
         NEW b \in Bodies, NEW stamp \in Nat, NEW id \in Nat, NEW before \in SUBSET Nat,
         at \in {"check", "insert", "commit"} => b.type \in DecisionTypes
  PROVE  TypedMemo(Memo(at, s, b, stamp, id, before))
<1>1. PICK m : m = Memo(at, s, b, stamp, id, before)
  OBVIOUS
<1>2. m \in MemoType
  BY <1>1 DEF Memo, MemoType
<1>3. m.at = at /\ m.body = b
  BY <1>1, MemoAll
<1> QED BY <1>1, <1>2, <1>3 DEF TypedMemo

LEMMA IdleMemoTyped == TypedMemo(Idle)
BY IdleFields DEF TypedMemo

LEMMA RequestMoves ==
  ASSUME DOMAIN req = Requests, TypedRequests, NEW r \in Requests, NEW m, Go(r, m), TypedMemo(m)
  PROVE  TypedRequests'
<1>1. req'[r] = m /\ \A q \in Requests \ {r} : req'[q] = req[q]
  BY DEF Go
<1>2. ASSUME NEW q \in Requests PROVE TypedMemo(req'[q])
  BY <1>1 DEF TypedRequests
<1>3. \A q \in Requests : TypedMemo(req[q])'
  BY <1>2 DEF TypedMemo
<1>4. req' \in [Requests -> {Idle} \cup MemoType]
  BY DEF Go, TypedRequests, TypedMemo
<1> QED BY <1>3, <1>4 DEF TypedRequests

\* The response of a POST, and its 201.
LEMMA ResponseTyped ==
  ASSUME TypedRows, TypedRequests, NEW r \in Requests, req[r].at # "idle",
         NEW id \in Nat \ {0}, StoreResponse(r, id)
  PROVE  idem' \in [Slots -> {NoRecord} \cup Record] /\ answers' \subseteq AnswerType
<1>1. req[r].slot \in Slots /\ req[r].body \in Bodies
  BY AtWork
<1>2. [fp |-> req[r].body, answer |-> id] \in Record
  BY <1>1 DEF Record
<1>3. [slot |-> req[r].slot, body |-> req[r].body, id |-> id] \in AnswerType
  BY <1>1 DEF AnswerType
<1> QED BY <1>1, <1>2, <1>3 DEF StoreResponse, TypedRows

LEMMA PostsKeepTypes ==
  ASSUME KeyInv, DecisionInv, DecisionsTypeInv, NEW r \in Requests, PostStep(r)
  PROVE  DecisionsTypeInv'
<1>0. /\ DOMAIN req = Requests /\ TypedRows /\ TypedRequests /\ TypedWalks
      /\ clock \in Nat /\ nextId \in Nat
  BY DEF DecisionInv, DecisionsTypeInv
<1>1. UNCHANGED <<candidates, walk>>
  BY DEF PostStep, BeginPost, ReserveNew, Replay, RefuseReused, Rollback, StoreInputs,
     CheckReferences, InsertDecision, CommitDecision
<1>2. TypedWalks'
  BY <1>0, <1>1 DEF TypedWalks, TypedCandidate, TypedWalk
<1>3. ASSUME UNCHANGED rows PROVE TypedRows'
  BY <1>0, <1>3 DEF rows, TypedRows
<1>4. ASSUME End(r) PROVE TypedRequests'
  BY <1>0, <1>4, IdleMemoTyped, RequestMoves DEF End
<1>5. ASSUME NEW k \in Keys, NEW b \in Bodies, BeginPost(r, k, b) PROVE DecisionsTypeInv'
  <2>1. <<k, Route(b)>> \in Slots
    BY DEF Slots, Routes, Route
  <2>2. {d.id : d \in OfTender(decisions, b.tender)} \in SUBSET Nat
    BY <1>0 DEF OfTender, TypedRows, DecisionType
  <2>3. TypedMemo(Memo("reserve", <<k, Route(b)>>, b, 0, 0,
                       {d.id : d \in OfTender(decisions, b.tender)}))
    BY <2>1, <2>2, MemoTyped
  <2> QED BY <1>0, <1>2, <1>3, <1>5, <2>3, RequestMoves DEF BeginPost, DecisionsTypeInv
<1>6. CASE ReserveNew(r)
  <2>1. PICK at : at = IF Route(req[r].body) = "inputs" THEN "write" ELSE "check"
    OBVIOUS
  <2>2. /\ req[r].slot \in Slots /\ req[r].body \in Bodies /\ req[r].stamp \in Nat
        /\ req[r].id \in Nat /\ req[r].before \in SUBSET Nat
    BY <1>0, <1>6, AtWork DEF ReserveNew
  <2>3. at \in {"write", "check"} /\ (at = "check" => req[r].body.type \in DecisionTypes)
    BY <2>1, <2>2, BodyTyped DEF Route
  <2>4. TypedMemo(Goto(r, at))
    BY <2>2, <2>3, MemoTyped DEF Goto
  <2> QED BY <1>0, <1>2, <1>3, <1>6, <2>1, <2>4, RequestMoves DEF ReserveNew, DecisionsTypeInv
<1>7. CASE Replay(r)
  <2>1. req[r].slot \in Slots /\ req[r].body \in Bodies
    BY <1>0, <1>7, AtWork DEF Replay
  <2>2. NoRecord.answer = 0
    BY DEF NoRecord
  <2>3. idem[req[r].slot] \in Record
    BY <1>0, <1>7, <2>1, <2>2 DEF Replay, TypedRows
  <2>4. [slot |-> req[r].slot, body |-> req[r].body, id |-> idem[req[r].slot].answer]
          \in AnswerType
    BY <2>1, <2>3 DEF Record, AnswerType
  <2>5. TypedRows'
    BY <1>0, <1>7, <2>4 DEF Replay, TypedRows
  <2> QED BY <1>2, <1>4, <1>7, <2>5 DEF Replay, DecisionsTypeInv
<1>8. CASE RefuseReused(r) \/ Rollback(r)
  BY <1>2, <1>3, <1>4, <1>8 DEF RefuseReused, Rollback, DecisionsTypeInv
<1>9. CASE StoreInputs(r)
  <2>1. PICK id : id = Cardinality(inputs) + 1
    OBVIOUS
  <2>2. id \in Nat \ {0}
    BY <2>1, FS_CardinalityType DEF KeyInv, Shapes
  <2>3. req[r].slot \in Slots /\ req[r].body.tender \in Tenders /\ req[r].at # "idle"
    BY <1>0, <1>9, AtWork, BodyTyped DEF StoreInputs
  <2>4. InputsRow(id, r) \in InputsType
    BY <2>2, <2>3 DEF InputsRow, InputsType
  <2>5. /\ inputs' = inputs \cup {InputsRow(id, r)} /\ decisions' = decisions
        /\ StoreResponse(r, id)
    BY <1>9, <2>1 DEF StoreInputs
  <2>6. idem' \in [Slots -> {NoRecord} \cup Record] /\ answers' \subseteq AnswerType
    BY <1>0, <2>2, <2>3, <2>5, ResponseTyped
  <2>7. TypedRows'
    BY <1>0, <2>4, <2>5, <2>6 DEF TypedRows
  <2> QED BY <1>2, <1>4, <2>5, <2>7 DEF StoreResponse, DecisionsTypeInv
<1>10. CASE CheckReferences(r)
  <2>1. /\ req[r].slot \in Slots /\ req[r].body \in Bodies /\ req[r].before \in SUBSET Nat
        /\ req[r].body.type \in DecisionTypes
    BY <1>0, <1>10, AtWork DEF CheckReferences, TypedRequests, TypedMemo
  <2>2. TypedMemo(Memo("insert", req[r].slot, req[r].body, clock, 0, req[r].before))
    BY <1>0, <2>1, MemoTyped
  <2> QED
    BY <1>0, <1>2, <1>3, <1>4, <1>10, <2>2, RequestMoves DEF CheckReferences, DecisionsTypeInv
<1>11. CASE InsertDecision(r)
  <2>1. /\ req[r].slot \in Slots /\ req[r].body \in Bodies /\ req[r].before \in SUBSET Nat
        /\ req[r].stamp \in Nat /\ req[r].body.type \in DecisionTypes
    BY <1>0, <1>11, AtWork DEF InsertDecision, TypedRequests, TypedMemo
  <2>2. TypedMemo(Memo("commit", req[r].slot, req[r].body, req[r].stamp, nextId, req[r].before))
    BY <1>0, <2>1, MemoTyped
  <2> QED BY <1>0, <1>2, <1>3, <1>11, <2>2, RequestMoves DEF InsertDecision, DecisionsTypeInv
<1>12. CASE CommitDecision(r)
  <2>1. /\ req[r].slot \in Slots /\ req[r].body \in Bodies /\ req[r].before \in SUBSET Nat
        /\ req[r].stamp \in Nat /\ req[r].body.type \in DecisionTypes /\ req[r].at # "idle"
    BY <1>0, <1>12, AtWork DEF CommitDecision, TypedRequests, TypedMemo
  <2>2. req[r].id \in Nat \ {0}
    BY <1>12 DEF CommitDecision, KeyInv, RequestsOK
  <2>3. DecisionRow(r) \in DecisionType
    BY <2>1, <2>2, BodyTyped DEF DecisionRow, DecisionType
  <2>4. /\ decisions' = decisions \cup {DecisionRow(r)} /\ inputs' = inputs
        /\ StoreResponse(r, req[r].id)
    BY <1>12 DEF CommitDecision
  <2>5. idem' \in [Slots -> {NoRecord} \cup Record] /\ answers' \subseteq AnswerType
    BY <1>0, <2>1, <2>2, <2>4, ResponseTyped
  <2>6. TypedRows'
    BY <1>0, <2>3, <2>4, <2>5 DEF TypedRows
  <2> QED BY <1>2, <1>4, <2>4, <2>6 DEF StoreResponse, DecisionsTypeInv
<1> QED
  BY <1>5, <1>6, <1>7, <1>8, <1>9, <1>10, <1>11, <1>12 DEF PostStep

LEMMA WalksKeepTypes ==
  ASSUME DecisionInv, WalkInv, DecisionsTypeInv, NEW w \in Walks, WalkStep(w)
  PROVE  DecisionsTypeInv'
<1>0. DOMAIN walk = Walks /\ TypedRows /\ TypedRequests /\ TypedWalks
  BY DEF WalkInv, DecisionsTypeInv
<1>1. UNCHANGED <<rows, req>>
  BY DEF WalkStep, BeginWalk, FetchPage, WalkFails, StoreCandidate
<1>2. TypedRows' /\ TypedRequests'
  BY <1>0, <1>1 DEF rows, TypedRows, TypedRequests, TypedMemo
<1>3. ASSUME NEW k, walk' = [walk EXCEPT ![w] = k], TypedWalk(k),
             \A c \in candidates' : TypedCandidate(c)
      PROVE  DecisionsTypeInv'
  <2>1. walk'[w] = k /\ \A v \in Walks \ {w} : walk'[v] = walk[v]
    BY <1>0, <1>3
  <2>2. \A v \in Walks : TypedWalk(walk'[v])
    BY <1>0, <1>3, <2>1 DEF TypedWalks
  <2>3. TypedWalks'
    BY <1>3, <2>2 DEF TypedWalks, TypedWalk, TypedCandidate
  <2> QED BY <1>2, <2>3 DEF DecisionsTypeInv
<1>4. \A c \in candidates : TypedCandidate(c)
  BY <1>0 DEF TypedWalks
<1>5. ASSUME NEW t \in Tenders, BeginWalk(w, t) PROVE DecisionsTypeInv'
  <2>1. PICK k : k = Walk("fetch", t, 0, << >>, {o.id : o \in offers})
    OBVIOUS
  <2>2. TypedWalk(k)
    BY <2>1, WalkFields DEF TypedWalk
  <2> QED BY <1>3, <1>4, <1>5, <2>1, <2>2 DEF BeginWalk
<1>6. CASE FetchPage(w)
  <2>1. walk[w].at = "fetch" /\ walk[w].tender \in Tenders
    BY <1>0, <1>6 DEF FetchPage, TypedWalks, TypedWalk
  <2>2. PICK k : /\ walk' = [walk EXCEPT ![w] = k]
                 /\ \E at \in {"fetch", "store"} : \E after, dtos, owed :
                      k = Walk(at, walk[w].tender, after, dtos, owed)
    BY <1>6 DEF FetchPage
  <2>3. TypedWalk(k)
    BY <2>1, <2>2, WalkFields DEF TypedWalk
  <2> QED BY <1>3, <1>4, <1>6, <2>2, <2>3 DEF FetchPage
<1>7. TypedWalk(Ended)
  BY WalkFields DEF Ended, TypedWalk
<1>8. CASE WalkFails(w)
  BY <1>3, <1>4, <1>7, <1>8 DEF WalkFails
<1>9. CASE StoreCandidate(w)
  <2>1. PICK c : c = CandidateRow(Cardinality(candidates) + 1, walk[w].tender, walk[w].dtos)
    OBVIOUS
  <2>2. walk[w].tender \in Tenders
    BY <1>0, <1>9 DEF StoreCandidate, TypedWalks, TypedWalk
  <2>3. Cardinality(candidates) + 1 \in Nat
    BY FS_CardinalityType DEF DecisionInv, CandidatesOK
  <2>4. c.id \in Nat /\ c.tender \in Tenders
    BY <2>1, <2>2, <2>3 DEF CandidateRow
  <2>5. c.is_lottery \in BOOLEAN
    <3>1. c.is_lottery = IsLottery(Lines[walk[w].tender], walk[w].dtos, AsOf)
      BY <2>1 DEF CandidateRow
    <3>2. IsLottery(Lines[walk[w].tender], walk[w].dtos, AsOf) \in BOOLEAN
      BY Zenon DEF IsLottery
    <3> QED BY <3>1, <3>2, Zenon
  <2>6. candidates' = candidates \cup {c} /\ walk' = [walk EXCEPT ![w] = Ended]
    BY <1>9, <2>1 DEF StoreCandidate
  <2>7. TypedCandidate(c)
    BY <2>4, <2>5, Zenon DEF TypedCandidate
  <2>8. \A d \in candidates' : TypedCandidate(d)
    BY <1>4, <2>6, <2>7
  <2> QED BY <1>3, <1>7, <2>6, <2>8
<1> QED BY <1>5, <1>6, <1>8, <1>9 DEF WalkStep

\* The rows have the types of their columns: a committed key holds the
\* fingerprint and the response of a request that clients send, and a decision
\* is of one of DECISION_TYPES, because the route of a request follows from
\* its body and stays the same up to the commit.
THEOREM DecisionsTypeCorrect == Spec => []TypeOK
<1>1. Init => DecisionsTypeInv
  <2> SUFFICES ASSUME Init PROVE DecisionsTypeInv
    OBVIOUS
  <2>1. TypedRows
    BY DEF Init, TypedRows
  <2>2. TypedRequests
    BY IdleMemoTyped DEF Init, TypedRequests, TypedMemo
  <2>3. TypedWalk(Ended)
    BY WalkFields DEF Ended, TypedWalk
  <2>4. TypedWalks
    BY <2>3 DEF Init, TypedWalks
  <2> QED BY <2>1, <2>2, <2>4 DEF DecisionsTypeInv
<1>2. KeyInv /\ DecisionInv /\ WalkInv /\ DecisionsTypeInv /\ [Next]_vars => DecisionsTypeInv'
  <2> SUFFICES ASSUME KeyInv, DecisionInv, WalkInv, DecisionsTypeInv, [Next]_vars
               PROVE  DecisionsTypeInv'
    OBVIOUS
  <2>1. ASSUME UNCHANGED <<rows, candidates, req, walk>> PROVE DecisionsTypeInv'
    BY <2>1 DEF rows, DecisionsTypeInv, TypedRows, TypedRequests, TypedMemo, TypedWalks,
                TypedWalk, TypedCandidate
  <2>2. CASE VendorStep \/ Tick \/ UNCHANGED vars
    BY <2>1, <2>2 DEF VendorStep, StoreOffer, ReportFact, Tick, vars
  <2> QED BY <2>2, PostsKeepTypes, WalksKeepTypes DEF Next
<1>3. KeyInv /\ DecisionInv /\ WalkInv /\ DecisionsTypeInv => TypeOK
  <2> SUFFICES ASSUME KeyInv, DecisionInv, WalkInv, DecisionsTypeInv PROVE TypeOK
    OBVIOUS
  <2>1. TypedRows /\ TypedRequests /\ TypedWalks
    BY DEF DecisionsTypeInv
  <2>2. nextId \in Nat \ {0} /\ clock \in Nat
    BY DEF DecisionInv
  <2>3. req \in [Requests -> {Idle} \cup MemoType]
    BY <2>1 DEF TypedRequests
  <2>4. \A w \in Walks : walk[w].at \in {"idle", "fetch", "store"} /\ walk[w].after \in Nat
    BY <2>1 DEF TypedWalks, TypedWalk, WalkInv, WalkOK
  <2>5. \A c \in candidates : c.id \in Nat /\ c.tender \in Tenders /\ c.is_lottery \in BOOLEAN
    BY <2>1, Zenon DEF TypedWalks, TypedCandidate
  <2> QED
    BY <2>1, <2>2, <2>3, <2>4, <2>5, Zenon
       DEF TypeOK, TypedRows, Record, InputsType, DecisionType, AnswerType, MemoType
<1> QED BY <1>1, <1>2, <1>3, KeyInvAlways, DecisionInvAlways, WalkInvAlways, PTL DEF Spec
=============================================================================
