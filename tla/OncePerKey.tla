----------------------------- MODULE OncePerKey -----------------------------
(***************************************************************************)
(* What an idempotency key promises, without transactions, requests or     *)
(* replays: for every key and route at most one effect ever takes place,   *)
(* and it is never taken back or replaced.                                 *)
(***************************************************************************)
CONSTANTS Slots, Nothing

VARIABLE done   \* the effect of each slot, or Nothing

Init == done = [s \in Slots |-> Nothing]

Do(s) ==
  /\ done[s] = Nothing
  /\ done'[s] # Nothing
  /\ done' = [done EXCEPT ![s] = done'[s]]

Next == \E s \in Slots : Do(s)

Spec == Init /\ [][Next]_done
=============================================================================
