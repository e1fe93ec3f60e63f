---------------------------- MODULE MCDecisions ----------------------------
(* A small world for Decisions: two tenders, three vendors, four offers.   *)
EXTENDS Decisions, TLC

CONSTANTS v1, v2, v3, t1, t2

Line(id, materials, unit, qty, mentions, amount) ==
  [id |-> id, materials |-> materials, unit |-> unit, qty |-> qty,
   mentions |-> mentions, amount |-> amount]
Offer(id, v, material, unit, inventory, status) ==
  [id |-> id, vendor |-> v, material |-> material, unit |-> unit, inventory |-> inventory,
   until |-> 1, adverse |-> FALSE, status |-> status]

\* The first tender has a line that several vendors can supply, a line that
\* only the late offer can, and a preliminaries line; the second one a line
\* in another unit.
MCLines ==
  (t1 :> {Line(1, {"steel"}, "t", 2, {}, 90), Line(2, {"steel", "pump"}, "eded", 1, {}, 10),
          Line(3, {"steel"}, "m2", 1, {"preliminaries"}, 5)})
  @@ (t2 :> {Line(4, {"pump"}, "dest", 1, {}, 7)})

MCOffers ==
  {Offer(1, v1, "steel", "ton", 2, "confirmed"), Offer(3, v2, "steel", "t", 3, "confirmed"),
   Offer(4, v3, "steel", "t", 5, "reserved")}

\* Stored later, under a sequence value that was taken early.
MCLateOffers == {Offer(2, v1, "pump", "eded", 1, "reserved")}

\* Among them a bid that names the candidate of the other tender, and one
\* that names an inputs row.
Body(t, type, i, c) == [tender |-> t, type |-> type, inputs |-> i, candidate |-> c]
MCBodies ==
  {Body(t1, "inputs", 0, 0), Body(t1, "bid", 0, 1), Body(t1, "no_bid", 1, 0),
   Body(t2, "conditional_bid", 0, 1)}

\* A POST reads no more of a walk than its stored candidate: runs in which
\* both are in flight at once are left out.
Apart == (\A r \in Requests : req[r].at = "idle") \/ (\A w \in Walks : walk[w].at = "idle")

Symmetry == Permutations(Keys) \cup Permutations(Requests)
=============================================================================
