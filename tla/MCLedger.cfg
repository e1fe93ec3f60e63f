SPECIFICATION Spec
CONSTANTS
  Tenders = {t1}
  v1 = v1
  Vendors = {v1}
  NoVendor = NoVendor
  Readings <- MCReadings
  Requests = {r1, r2}
  CorrIds = {c1, c2}
  MaxEvidence = 2
  MaxReasons = 1
  MaxSnapshots = 1
SYMMETRY Symmetry
CONSTRAINT Apart
INVARIANTS
  EvidenceSurvives
  NoReputationEventLost
  CountedPerOverlap
  OneOutcome
CHECK_DEADLOCK FALSE
