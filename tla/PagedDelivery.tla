---------------------------- MODULE PagedDelivery ----------------------------
(***************************************************************************)
(* What the durable job queue promises about a paged job, with no workers, *)
(* leases or retries in sight: its pages are delivered to the outbox one   *)
(* at a time, in order, each once, and none after the last.                *)
(***************************************************************************)
EXTENDS Integers, Sequences

CONSTANTS
  Js,            \* the jobs
  Totals         \* the page counts a job may have

VARIABLES
  goal,          \* params.total_pages of each job, 0 until it is known
  delivered      \* the pages delivered for each job

Start ==
  /\ goal = [j \in Js |-> 0]
  /\ delivered = [j \in Js |-> << >>]

\* The job's identity is fixed before its first page and never changes.
Submit(j, n) ==
  /\ delivered[j] = << >>
  /\ goal[j] = 0
  /\ goal' = [goal EXCEPT ![j] = n]
  /\ UNCHANGED delivered

\* A job of zero pages still delivers one: the page is processed before its
\* number is compared with the total.
Deliver(j) ==
  /\ Len(delivered[j]) < goal[j] \/ Len(delivered[j]) = 0
  /\ delivered' = [delivered EXCEPT ![j] = Append(@, Len(@) + 1)]
  /\ UNCHANGED goal

Step == \E j \in Js : Deliver(j) \/ \E n \in Totals : Submit(j, n)

DeliverySpec == Start /\ [][Step]_<<goal, delivered>>
=============================================================================
