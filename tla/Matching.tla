------------------------------ MODULE Matching ------------------------------
(***************************************************************************)
(* What the bid-readiness candidate of a tender is computed from: the      *)
(* lines of its bill of quantities, the vendor offers with the reputation  *)
(* the vendor service adds to them, the traffic light of a line, and the   *)
(* lines that only one vendor can supply (matching.py, boq_summary.py,     *)
(* bid_readiness.py, availability_model.py, boq_line_model.py).            *)
(*                                                                         *)
(* Pure code.  Amounts and quantities are naturals.  A line carries the    *)
(* set of offer materials that occur in its description, and an offer with *)
(* a blank material occurs in none.                                        *)
(***************************************************************************)
EXTENDS Integers, Sequences, FiniteSets, FiniteSetsExt

-----------------------------------------------------------------------------
(* Units and line types. *)

\* _UNIT_CANONICAL_MAP.
UnitMap == [eded |-> "pcs", dest |-> "set", m |-> "m", m2 |-> "m2", m3 |-> "m3",
            kg |-> "kg", t |-> "t", ton |-> "t", l |-> "l"]

\* The canonical unit, or "unmapped": an unknown unit is kept, not guessed.
CanonicalizeUnit(raw) == IF raw \in DOMAIN UnitMap THEN UnitMap[raw] ELSE "unmapped"

\* The first of the keyword groups that the text of the line mentions.
ClassifyLineType(mentions) ==
  CASE "preliminaries" \in mentions   -> "preliminaries"
    [] "provisional_sum" \in mentions -> "provisional_sum"
    [] "prime_cost" \in mentions      -> "prime_cost"
    [] OTHER                          -> "normal"

Normal(line) == ClassifyLineType(line.mentions) = "normal"

-----------------------------------------------------------------------------
(* One offer against one line. *)

Tiers == <<"reserved", "confirmed", "reported", "unknown">>

\* effective_executable_status: one tier down for a negative reputation.
EffectiveStatus(raw, negative) ==
  IF ~negative THEN raw
  ELSE LET i == CHOOSE k \in 1..4 : Tiers[k] = raw
       IN  Tiers[IF i < 4 THEN i + 1 ELSE 4]

\* The offer as the vendor service sends it, under the reputation facts, a
\* set of <<vendor, positive or negative>>, that it reads for this page.
AsDTO(offer, facts) ==
  [offer |-> offer,
   positive |-> <<offer.vendor, "positive">> \in facts,
   effective |-> EffectiveStatus(offer.status, <<offer.vendor, "negative">> \in facts)]

MaterialMatches(line, offer) == offer.material \in line.materials

VolumeStatus(line, offer) ==
  LET here == CanonicalizeUnit(line.unit)  there == CanonicalizeUnit(offer.unit)
  IN CASE offer.adverse                            -> "adverse_case"
       [] "unmapped" \in {here, there}             -> "unit_unmapped"
       [] here # there                             -> "unit_mismatch"
       [] offer.inventory >= line.qty              -> "sufficient"
       [] OTHER                                    -> "insufficient"

Fresh(offer, as_of) == as_of <= offer.until

IsStrongSource(line, dto, as_of) ==
  /\ VolumeStatus(line, dto.offer) = "sufficient"
  /\ Fresh(dto.offer, as_of)
  /\ dto.effective \in {"reserved", "confirmed"}

-----------------------------------------------------------------------------
(* One line against the offers fetched, a sequence of DTOs. *)

Candidates(line, dtos) == {i \in DOMAIN dtos : MaterialMatches(line, dtos[i].offer)}
Strong(line, dtos, as_of) ==
  {i \in Candidates(line, dtos) : IsStrongSource(line, dtos[i], as_of)}
StrongVendors(line, dtos, as_of) == {dtos[i].offer.vendor : i \in Strong(line, dtos, as_of)}

\* The dict comprehension over vendor ids keeps a vendor's last strong offer.
LastOfVendor(line, dtos, as_of) ==
  {i \in Strong(line, dtos, as_of) :
     \A j \in Strong(line, dtos, as_of) : dtos[j].offer.vendor = dtos[i].offer.vendor => j <= i}

\* A form that asks for a good word about the last strong vendor only.
TrafficLight_LastVendor(line, dtos, as_of) ==
  IF \A i \in Candidates(line, dtos) : VolumeStatus(line, dtos[i].offer) = "insufficient"
  THEN "red"
  ELSE IF /\ Cardinality(StrongVendors(line, dtos, as_of)) >= 2
          /\ dtos[Max(LastOfVendor(line, dtos, as_of))].positive
       THEN "green" ELSE "yellow"

\* _traffic_light
TrafficLight(line, dtos, as_of) ==
  IF \A i \in Candidates(line, dtos) : VolumeStatus(line, dtos[i].offer) = "insufficient"
  THEN "red"
  ELSE IF /\ Cardinality(StrongVendors(line, dtos, as_of)) >= 2
          /\ \E i \in LastOfVendor(line, dtos, as_of) : dtos[i].positive
       THEN "green" ELSE "yellow"

-----------------------------------------------------------------------------
(* The candidate: summary, lottery flag and critical lines. *)

\* amounts_by_light of summarize_boq_matches; a line without a price (amount
\* 0 in the model) adds to no light.
AmountByLight(lines, dtos, as_of, light) ==
  MapThenSumSet(LAMBDA l : l.amount,
    {l \in lines : Normal(l) /\ TrafficLight(l, dtos, as_of) = light})

LotteryCoverageThresholdPct == 85

\* Less than 85% of the priced amount is green or yellow; with nothing
\* priced the percentages are 0.
IsLottery(lines, dtos, as_of) ==
  LET green  == AmountByLight(lines, dtos, as_of, "green")
      yellow == AmountByLight(lines, dtos, as_of, "yellow")
      total  == green + yellow + AmountByLight(lines, dtos, as_of, "red")
  IN  \/ total = 0
      \/ (green + yellow) * 100 < LotteryCoverageThresholdPct * total

\* The lines with strong offers of one vendor only, each with that vendor.
CriticalLines(lines, dtos, as_of) ==
  {<<q[1].id, q[2]>> : q \in
     {p \in {l \in lines : Normal(l)} \X {dtos[i].offer.vendor : i \in DOMAIN dtos} :
        StrongVendors(p[1], dtos, as_of) = {p[2]}}}

=============================================================================
