--------------------------- MODULE AdapterRefinement --------------------------
(***************************************************************************)
(* The managed adapter implements the delivery contract in single mode.    *)
(***************************************************************************)
EXTENDS DeliveryAdapter

\* The contract's view of one event.  Two results for one event, or a result
\* before the submit, map to a status the contract does not have.
StatusOf(e) ==
  IF results[e] = <<>> THEN IF e \in Range(submitted) THEN "pending" ELSE "new"
  ELSE IF Len(results[e]) = 1 /\ e \in Range(submitted) THEN results[e][1]
  ELSE "unsound"

PromiseOf ==
  CASE flushPc = "idle" -> "idle"
    [] flushPc \in {"starting", "waiting"} -> "open"
    [] flushPc = "done" -> "kept"
    [] flushPc = "rejected" -> "broken"

Contract == INSTANCE DeliveryContract
  WITH status <- [e \in Events |-> StatusOf(e)],
       promise <- PromiseOf,
       owed <- owed

\* Every step of the adapter is a step of the contract or invisible to it:
\* outcomes are final, a submit costs at most one event, and flush() returns
\* only when the events submitted before it are settled
\* (contracts/delivery-adapter.ts:29-55).
KeepsContract == Contract!Spec
=============================================================================
