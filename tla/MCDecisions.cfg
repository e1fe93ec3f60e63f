SPECIFICATION Spec
CONSTANTS
  Tenders = {t1, t2}
  t1 = t1
  t2 = t2
  v1 = v1
  v2 = v2
  v3 = v3
  NoTender = NoTender
  Keys = {k1, k2}
  Requests = {r1, r2}
  Walks = {w1}
  Lines <- MCLines
  Offers <- MCOffers
  LateOffers <- MCLateOffers
  Reported = {v2}
  PageLimit = 2
  AsOf = 1
  Bodies <- MCBodies
  MaxInputs = 1
  MaxCandidates = 1
  MaxDecisions = 2
  MaxClock = 1
CONSTRAINT Apart
SYMMETRY Symmetry
INVARIANTS
  OneEffectPerKey
  LockInsFollowDecision
  InForceIsNotSuperseded
  WalkMissesNothing
PROPERTIES
  LightsOnlyImprove
  ImplementsOncePerKey
CHECK_DEADLOCK FALSE
