----------------------------- MODULE SchemaDrift -----------------------------
(* The drift detector of packages/tender/schema_drift.py.  A contract gives  *)
(* the fields of a response, each with its JSON type and whether the source  *)
(* may omit it; a payload is seen here as the JSON type of each of its keys. *)
EXTENDS FiniteSets

Field(type, optional) == [type |-> type, optional |-> optional]

\* detect_schema_drift: a null is a variation of the data, never drift.
DetectSchemaDrift(contract, payload) ==
  [added   |-> DOMAIN payload \ DOMAIN contract,
   removed |-> {f \in DOMAIN contract \ DOMAIN payload : ~contract[f].optional},
   changed |-> {f \in DOMAIN contract \cap DOMAIN payload :
                  payload[f] # "null" /\ payload[f] # contract[f].type}]

\* SchemaDrift.has_drift
HasDrift(drift) == drift.added # {} \/ drift.removed # {} \/ drift.changed # {}

\* detect_schema_drift_over_items: one drifted item is enough.
DriftOverItems(contract, items) == \E i \in items : HasDrift(DetectSchemaDrift(contract, i))

\* _ingest looks at the items only when the page itself is clean.
DriftedContract(page, item, payload, items) ==
  CASE HasDrift(DetectSchemaDrift(page, payload)) -> "page"
    [] ~HasDrift(DetectSchemaDrift(page, payload)) /\ DriftOverItems(item, items) -> "item"
    [] OTHER -> "none"
=============================================================================
