SPECIFICATION Spec
CONSTANTS
  NumJobs = 1
  Workers = {w1, w2, w3}
  NoWorker = NoWorker
  MaxAttempts = 2
  MaxPages = 2
  MaxCrashes = 1
  MaxExpiries = 2
INVARIANTS TypeOK PagesExactlyOnce CompletedMeansDone LeaseIsAttended RetryBudget
PROPERTIES Settles ImplementsDelivery
