-------------------------- MODULE MCExecutionLedger --------------------------
EXTENDS ExecutionLedger, TLC

CONSTANTS v1

\* Two complaints about one vendor in one capture; or the buyer's fault.
Complaint == [category |-> "rework", culprit |-> "vendor", name |-> v1]
Delay     == [category |-> "preliminaries", culprit |-> "customer", name |-> NoVendor]
MCReadings == {<<Complaint, Complaint>>, <<Delay>>}

\* Captures and closes share no table with outcomes and links: a behaviour is
\* followed along the one or the other.
Apart == evidence = {} \/ (outcomes = {} /\ snapshots = 0)

Symmetry == Permutations(Requests)
=============================================================================
