---------------------------- MODULE DeliveryContract --------------------------
(***************************************************************************)
(* What src/contracts/delivery-adapter.ts promises the runtime, with       *)
(* nothing about queues, workers or breakers: every submitted event gets   *)
(* one final outcome, a submit drops at most one event, and a flush        *)
(* returns only when everything submitted before it has its outcome.       *)
(***************************************************************************)
CONSTANTS Events

VARIABLES
  status,    \* "new", "pending" or the final outcome of each event
  promise,   \* the flush() promise
  owed       \* the events that were pending when flush() was called

contractVars == <<status, promise, owed>>

Settled == {"delivered", "failed", "circuit_open"}

Pending == {e \in Events : status[e] = "pending"}

Init ==
  /\ status = [e \in Events |-> "new"]
  /\ promise = "idle"
  /\ owed = {}

\* submit(event): it is taken, or it or an event still pending is dropped.
Submit(e) ==
  /\ status[e] = "new"
  /\ \/ status' = [status EXCEPT ![e] = "pending"]
     \/ status' = [status EXCEPT ![e] = "dropped"]
     \/ \E v \in Pending : status' = [status EXCEPT ![e] = "pending", ![v] = "dropped"]
  /\ UNCHANGED <<promise, owed>>

\* The results of one send, or of one shed attempt, become known.
Settle(items, outcome) ==
  /\ items # {} /\ items \subseteq Pending
  /\ outcome \in Settled
  /\ status' = [e \in Events |-> IF e \in items THEN outcome ELSE status[e]]
  /\ UNCHANGED <<promise, owed>>

\* flush() may return at once when nothing is pending.
CallFlush ==
  /\ promise = "idle"
  /\ owed' = Pending
  /\ \/ promise' = "open"
     \/ Pending = {} /\ promise' = "kept"
  /\ UNCHANGED status

FlushReturns ==
  /\ promise = "open"
  /\ owed \cap Pending = {}
  /\ promise' = "kept"
  /\ UNCHANGED <<status, owed>>

\* The sender could not be started.
FlushRejects ==
  /\ promise = "open"
  /\ promise' = "broken"
  /\ UNCHANGED <<status, owed>>

Next ==
  \/ \E e \in Events : Submit(e)
  \/ \E items \in SUBSET Events, outcome \in Settled : Settle(items, outcome)
  \/ CallFlush \/ FlushReturns \/ FlushRejects

Spec == Init /\ [][Next]_contractVars
=============================================================================
