------------------------------ MODULE Collectors ------------------------------
(* The jobs that collect signals of coming tenders, beside the import and    *)
(* the checks of module TenderWatch: World Bank projects                     *)
(* (packages/tender/worldbank_pipeline_job.py), design tenders               *)
(* (design_tender_job.py) and procurement plans (procurement_plan_job.py).   *)
(* Each works page by page, a page and its checkpoint in one transaction,    *)
(* and they share the exception queue and the outbox.                        *)
(*                                                                           *)
(* A World Bank job asks by offset, the eTender ones by page number.         *)
EXTENDS TenderWatch

Kinds == {"worldbank", "design", "plan"}

CONSTANTS
  Feeds,       \* kind -> the items of its source, [id, design : classify_design_tender]
  PageSize,    \* items on a page; what a World Bank job sends as rows
  FeedContract, FeedItemContract, FeedShapes, FeedItemShapes,   \* by kind
  MaxCollects  \* bound

\* A source lists an item once.
ASSUME CollectorsAssumption ==
  /\ PageSize \in Nat \ {0} /\ MaxCollects \in Nat
  /\ Feeds \in [Kinds -> Seq([id : Nat, design : BOOLEAN])]
  /\ \A kind \in Kinds : \A i, j \in DOMAIN Feeds[kind] :
       Feeds[kind][i].id = Feeds[kind][j].id => i = j

VARIABLES
  collector,   \* the job that runs: kind, number, state, next_os or next_page
  signals      \* the rows of table signals

cvars == <<collector, signals>>
allVars == <<vars, cvars>>

CollectInit ==
  /\ Init
  /\ collector = [kind |-> "plan", k |-> 0, at |-> "none", next |-> 1]
  /\ signals = {}

Feed == Feeds[collector.kind]
CollectCorr == <<collector.kind, collector.k>>

-----------------------------------------------------------------------------
(* The pages of a source. *)

\* How many items come before the page.
Before(kind, next) == IF kind = "worldbank" THEN next ELSE (next - 1) * PageSize

\* The positions of the items on it.
PageItems(kind, next) ==
  DOMAIN Feeds[kind] \cap (Before(kind, next) + 1 .. Before(kind, next) + PageSize)

\* The page on which the item at position i is found, as a cursor.
CursorOf(kind, i) ==
  LET p == (i - 1) \div PageSize IN IF kind = "worldbank" THEN p * PageSize ELSE p + 1

\* totalPages, if the payload has it.
FeedPages(kind, shape) ==
  IF Has(shape, "totalPages") THEN (Len(Feeds[kind]) + PageSize - 1) \div PageSize ELSE NoTotal

\* What the code subscripts, compares or converts before, or after, it
\* reports drift: otherwise it raises, everything is rolled back, the
\* snapshot, the drift event and the exception included, and the job fails.
Usable(kind, shape) ==
  CASE kind = "worldbank" -> /\ {"projects", "total"} \subseteq DOMAIN shape
                             /\ shape["projects"] = "object" /\ shape["total"] \in {"string", "number"}
    [] kind = "design"    -> Readable(shape)
    [] kind = "plan"      -> Comparable(shape)

\* The contract that a response violates.  An events page has no contract
\* for its items.
PageDrift(kind, shape, item) ==
  DriftedContract(FeedContract[kind], FeedItemContract[kind], shape,
                  IF kind = "design" \/ PageItems(kind, collector.next) = {} THEN {} ELSE {item})

ContractName(kind, which) ==
  IF which = "page" THEN kind ELSE [worldbank |-> "worldbank_item", plan |-> "plan_item"][kind]

-----------------------------------------------------------------------------
(* The jobs. *)

StartCollect(kind) ==
  /\ collector.at # "running" /\ collector.k < MaxCollects
  /\ collector' = [kind |-> kind, k |-> collector.k + 1, at |-> "running",
                   next |-> IF kind = "worldbank" THEN 0 ELSE 1]
  /\ UNCHANGED <<vars, signals>>

CursorAfter(kind, next) == IF kind = "worldbank" THEN next + PageSize ELSE next + 1

\* A form that compares the total with the offset after the next page.
CollectDone_Ahead(kind, next, shape) ==
  IF kind = "worldbank" THEN next + 2 * PageSize >= Len(Feeds[kind])
  ELSE Done(next, FeedPages(kind, shape))

CollectDone(kind, next, shape) ==
  IF kind = "worldbank" THEN next + PageSize >= Len(Feeds[kind])
  ELSE Done(next, FeedPages(kind, shape))

CollectCheckpoint(shape) ==
  LET c == collector IN
  collector' = [kind |-> c.kind, k |-> c.k, next |-> CursorAfter(c.kind, c.next),
                at |-> IF CollectDone(c.kind, c.next, shape) THEN "done" ELSE "running"]

\* An events page holds every kind of tender: only design tenders are kept.
Kept(kind, item) == kind = "design" => item.design

\* A row of signals: its id follows those of the rows there and goes by the
\* place on the page; raw is the snapshot it points at.
SignalRow(kind, i, next) ==
  [id |-> <<Cardinality(signals), i>>, type |-> kind, item |-> Feeds[kind][i].id,
   raw |-> next, corr |-> CollectCorr]

SignalRows(kind, next) ==
  {SignalRow(kind, i, next) : i \in {j \in PageItems(kind, next) : Kept(kind, Feeds[kind][j])}}

\* The page can be fetched (within the bound).
Fetched ==
  collector.at = "running" /\ Before(collector.kind, collector.next) < MaxPage * PageSize

CollectPage(shape, item) ==
  /\ Fetched /\ Usable(collector.kind, shape) /\ PageDrift(collector.kind, shape, item) = "none"
  /\ signals' = signals \cup SignalRows(collector.kind, collector.next)
  /\ CollectCheckpoint(shape)
  /\ UNCHANGED vars

\* A page that drifted is skipped, with an event and an exception.
CollectDriftedPage(shape, item) ==
  LET which == PageDrift(collector.kind, shape, item)
      name  == ContractName(collector.kind, which)
  IN
  /\ Fetched /\ Usable(collector.kind, shape) /\ which # "none" /\ Len(outbox) < MaxDrifts
  /\ outbox' = Append(outbox, DriftEvent(CollectCorr, name, collector.next))
  /\ exceptions' = exceptions \cup Filed({}, CollectCorr, name)
  /\ CollectCheckpoint(shape)
  /\ UNCHANGED <<signals, market, boq, log, tracked, jobs, wk, delivered, closes>>

CollectStops ==
  /\ collector.at = "running"
  /\ collector' = [kind |-> collector.kind, k |-> collector.k, at |-> "stopped",
                   next |-> collector.next]
  /\ UNCHANGED <<vars, signals>>

-----------------------------------------------------------------------------
CollectorStep ==
  \/ \E kind \in Kinds : StartCollect(kind)
  \/ \E shape \in FeedShapes[collector.kind], item \in FeedItemShapes[collector.kind] :
       CollectPage(shape, item) \/ CollectDriftedPage(shape, item)
  \/ CollectStops

CollectNext == (Next /\ UNCHANGED cvars) \/ CollectorStep

CollectSpec == CollectInit /\ [][CollectNext]_allVars

-----------------------------------------------------------------------------
(* Properties. *)

CollectTypeOK ==
  /\ TypeOK
  /\ collector \in [kind : Kinds, k : Nat, at : {"none", "running", "stopped", "done"}, next : Nat]

\* What a collector has passed is collected, once, or reported: for every
\* item on a page before its cursor that the collector keeps, there is one
\* signal of this job, or none and the page's drift is in the outbox; and a
\* job that is done has passed the whole source, the last page being partly
\* filled or the total missing from a response notwithstanding
\* (process_worldbank_pipeline_page, process_design_tender_page,
\* process_procurement_plan_page).
CollectedOrReported ==
  collector.k > 0 =>
    \A i \in DOMAIN Feed :
      LET c == CursorOf(collector.kind, i)
          rows == {s \in signals : s.corr = CollectCorr /\ s.item = Feed[i].id}
          reported == \E n \in DOMAIN outbox : outbox[n].corr = CollectCorr /\ outbox[n].page = c
      IN /\ c < collector.next /\ Kept(collector.kind, Feed[i])
              => Cardinality(rows) = IF reported THEN 0 ELSE 1
         /\ collector.at = "done" => c < collector.next
=============================================================================
