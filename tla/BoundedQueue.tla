----------------------------- MODULE BoundedQueue -----------------------------
(***************************************************************************)
(* The ingress queue of src/delivery/bounded-queue.ts as pure operators on *)
(* a sequence of events, oldest first.  The code keeps the sequence in an  *)
(* array with a moving head; the consumed prefix is not part of the value. *)
(***************************************************************************)
EXTENDS Naturals, Sequences

CONSTANTS
  HighWater,        \* capacity at which the overflow policy engages
  OverflowPolicy    \* "drop_new", "drop_oldest" or "block"

\* The validation schema bounds queueHighWater below by one and enumerates
\* the policies.
ASSUME QueueAssumption ==
  /\ HighWater \in Nat \ {0}
  /\ OverflowPolicy \in {"drop_new", "drop_oldest", "block"}

\* Mutant: one event too many fits.
FullPastMark(q) == Len(q) > HighWater

Full(q) == Len(q) >= HighWater

\* Mutant: new events jump the queue.
EnqueuedInFront(q, e) ==
  IF ~Full(q) \/ OverflowPolicy = "block" THEN <<e>> \o q
  ELSE IF OverflowPolicy = "drop_oldest"  THEN <<e>> \o Tail(q)
  ELSE q

\* The queue after enqueue(e).
Enqueued(q, e) ==
  IF ~Full(q) \/ OverflowPolicy = "block" THEN Append(q, e)
  ELSE IF OverflowPolicy = "drop_oldest"  THEN Append(Tail(q), e)
  ELSE q

\* The casualty of enqueue(e), as a set of at most one event: the newcomer
\* when it is rejected, the head when it is evicted.
Casualty(q, e) ==
  IF ~Full(q) \/ OverflowPolicy = "block" THEN {}
  ELSE IF OverflowPolicy = "drop_oldest"  THEN {Head(q)}
  ELSE {e}
=============================================================================
