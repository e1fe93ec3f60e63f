SPECIFICATION Spec
CONSTANTS
  NumJobs = 1
  Workers = {w1}
  NoWorker = NoWorker
  MaxAttempts = 2
  MaxPages = 1
  MaxCrashes = 0
  MaxExpiries = 0
PROPERTY CancelPreventsClaims
