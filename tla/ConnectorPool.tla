----------------------------- MODULE ConnectorPool -----------------------------
(***************************************************************************)
(* The pool of simulated downstream connectors of                          *)
(* src/receiver/connectors.ts: one lane per connector with a FIFO queue    *)
(* and a limited number of tasks in flight.  ReceiverEngine submits tasks  *)
(* and pumps the lanes; the module has no next-state relation of its own.  *)
(*                                                                         *)
(* A task's latency is the choice of the pumps that complete it.  Whether  *)
(* it succeeds is not kept: both outcomes are counted as completed, and    *)
(* nothing reads them but the statistics.                                  *)
(***************************************************************************)
EXTENDS Naturals, Sequences

CONSTANTS
  Lanes,             \* the connectors
  LaneConcurrency,   \* profile.concurrency of each connector
  SimulateLatency,   \* FALSE: a task is complete as soon as it is started
  Tasks              \* what can be submitted

\* The profiles have positive concurrencies (constants.ts:29-35).
ASSUME PoolAssumption ==
  /\ LaneConcurrency \in [Lanes -> Nat \ {0}]
  /\ SimulateLatency \in BOOLEAN

VARIABLES
  queue,       \* lane.queue
  inflight,    \* the number of tasks in lane.inflight
  completed,   \* lane.completed, which is lane.provisioned + lane.failed
  submitted    \* history: the tasks given to each lane since the last reset

poolVars == <<queue, inflight, completed, submitted>>

PoolTypeOK ==
  /\ queue \in [Lanes -> Seq(Tasks)]
  /\ inflight \in [Lanes -> Nat]
  /\ \A l \in Lanes : inflight[l] <= LaneConcurrency[l]
  /\ completed \in [Lanes -> Nat]
  /\ submitted \in [Lanes -> Seq(Tasks)]

NoTasks == [l \in Lanes |-> <<>>]
NoCount == [l \in Lanes |-> 0]

PoolEmpty == queue = NoTasks /\ inflight = NoCount /\ completed = NoCount /\ submitted = NoTasks
PoolReset == queue' = NoTasks /\ inflight' = NoCount /\ completed' = NoCount /\ submitted' = NoTasks

-----------------------------------------------------------------------------
\* submit, for each task and each lane it is routed to.
Submit(tasks, lanes) ==
  /\ queue' = [l \in Lanes |-> IF l \in lanes THEN queue[l] \o tasks ELSE queue[l]]
  /\ submitted' = [l \in Lanes |-> IF l \in lanes THEN submitted[l] \o tasks
                                                  ELSE submitted[l]]
  /\ UNCHANGED <<inflight, completed>>

\* Mutant: the concurrency limit is compared with the queue alone.
StartableIgnoringInflight(l, kept) ==
  IF SimulateLatency /\ LaneConcurrency[l] < Len(queue[l])
    THEN LaneConcurrency[l] ELSE Len(queue[l])

\* Mutant: one slot is left free.
StartableLeavingOne(l, kept) ==
  IF SimulateLatency /\ LaneConcurrency[l] - kept <= Len(queue[l])
    THEN IF kept < LaneConcurrency[l] THEN LaneConcurrency[l] - kept - 1 ELSE 0 ELSE Len(queue[l])

\* How many queued tasks a pump starts when kept tasks stay in flight.  Tasks
\* without latency take no slot, so all of them are started.
Startable(l, kept) ==
  IF SimulateLatency /\ LaneConcurrency[l] - kept < Len(queue[l])
    THEN LaneConcurrency[l] - kept ELSE Len(queue[l])

\* Which tasks may still be in flight after a pump.
Remainders ==
  {kept \in [Lanes -> UNION {0..LaneConcurrency[l] : l \in Lanes}] :
     \A l \in Lanes : kept[l] <= inflight[l]}

\* Mutant: a completed task is not counted when another takes its slot.
PumpLanesMiscounting(kept) ==
  LET started(l) == Startable(l, kept[l])
  IN /\ queue' = [l \in Lanes |-> SubSeq(queue[l], started(l) + 1, Len(queue[l]))]
     /\ inflight' = [l \in Lanes |-> kept[l] + started(l)]
     /\ completed' = [l \in Lanes |-> IF started(l) = 0
                        THEN completed[l] + (inflight[l] - kept[l]) ELSE completed[l]]
     /\ UNCHANGED submitted

\* pump: per lane, complete what is due, then start from the queue's head
\* while a slot is free.
PumpLanes(kept) ==
  LET started(l) == Startable(l, kept[l])
  IN /\ queue' = [l \in Lanes |-> SubSeq(queue[l], started(l) + 1, Len(queue[l]))]
     /\ inflight' = [l \in Lanes |->
                       IF SimulateLatency THEN kept[l] + started(l) ELSE kept[l]]
     /\ completed' = [l \in Lanes |->
                        completed[l] + (inflight[l] - kept[l])
                          + (IF SimulateLatency THEN 0 ELSE started(l))]
     /\ UNCHANGED submitted

-----------------------------------------------------------------------------
\* Every task submitted to a lane is queued, in flight or completed, once, and
\* tasks are started in the order of their submission (connectors.ts:132-151).
LanesExact ==
  \A l \in Lanes :
    LET gone == inflight[l] + completed[l] IN
    /\ Len(submitted[l]) = gone + Len(queue[l])
    /\ \A i \in DOMAIN queue[l] : queue[l][i] = submitted[l][gone + i]
=============================================================================
