SPECIFICATION Spec
CONSTANTS
  r1 = r1
  r2 = r2
  r3 = r3
  Runners = {r1, r2, r3}
  Hooked = {r1}
  HooksOverlap = FALSE
  ann = ann
  bob = bob
  People = {ann, bob}
  MaxFiles = 3
  MaxEdits = 1
  MaxAuthorizations = 1
INVARIANTS LedgerTellsTruth NoGapBelowCurrent
CHECK_DEADLOCK FALSE
