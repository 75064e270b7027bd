-------------------------- MODULE AdapterPromisesProofs -----------------------
(***************************************************************************)
(* What the adapter promises its caller, for every value of the constants. *)
(* flush() and stop(): in single mode an idle adapter has no unresolved    *)
(* event, so flush() drains and stop() closes a sender nobody uses any     *)
(* more; in both modes nothing is left in the queue, the buffer or the     *)
(* loop's hands once the sender is closed.  Order: one worker answers the  *)
(* events in the order of their submission.  Backlog: what is accepted and *)
(* unanswered is bounded under both drop policies.  And in single mode the *)
(* adapter implements the delivery contract.                               *)
(***************************************************************************)
EXTENDS AdapterProofs, AdapterRefinement

\* In single mode nothing hides from isIdle(): there is no buffer, and the
\* event leaves the queue in the step that counts it in flight.
LEMMA IdleMeansSettled ==
  ASSUME Counted, Mode = "single", IsIdle
  PROVE  Waiting = {} /\ InFlight = {} /\ Unresolved = {}
<1>1. Range(<<>>) = {}
  BY DEF Range
<1>2. Waiting = {}
  BY <1>1 DEF Counted, IInv, LoopShape, IsIdle, Waiting
<1>3. InFlight = {}
  <2>1. InFlight \in SUBSET Events
    BY DEF Counted, IInv, Types, Jobs, InFlight
  <2>. QED
    BY <2>1, EventSetsFinite, FS_EmptySet DEF Counted, InFlightExact, IsIdle
<1>. QED
  BY <1>2, <1>3 DEF Counted, IInv, Custody, NothingLost

\* A result is never taken back.
LEMMA ResultsStay ==
  ASSUME IInv, [Next]_vars, NEW x \in Events, results[x] # <<>>
  PROVE  results'[x] # <<>>
<1>1. ASSUME NEW e \in Events, Submit(e)
      PROVE  results'[x] # <<>>
  <2>1. PICK items : Emit(items, "dropped")
    BY <1>1 DEF Submit
  <2>2. results[x] \in Seq(Outcomes) /\ "dropped" \in Outcomes
    BY DEF IInv, Types, Outcomes
  <2>3. Append(results[x], "dropped") # <<>>
    BY <2>2, AppendDistinct
  <2>. QED
    BY <2>1, <2>3 DEF Emit
<1>2. CASE CallStart \/ CallFlush \/ CallStop \/ Promises \/ TimePasses
           \/ Terminated \/ UNCHANGED vars
  BY <1>2, QuietEffect
<1>3. ASSUME NEW k \in Events, Job(k)
      PROVE  results'[x] # <<>>
  BY <1>3, JobStep DEF Keeps, Reports, Frees, Release
<1>4. CASE SingleTurn \/ BatchTake \/ BatchWait
  BY <1>4 DEF SingleTurn, BatchTake, BatchWait
<1>5. CASE SingleDispatch \/ BatchDispatch
  BY <1>5, LoopStep DEF Launches, Starts, Loop
<1>. QED
  BY <1>1, <1>2, <1>3, <1>4, <1>5 DEF Next, Client, Loop

-----------------------------------------------------------------------------
(* flush() in single mode *)

FlushInv ==
  /\ FlushDrains
  /\ owed \subseteq Range(submitted)

LEMMA FlushStep ==
  ASSUME Counted, FlushInv, [Next]_vars, Mode = "single"
  PROVE  FlushInv'
<1>0. IInv /\ owed \subseteq Events
  BY DEF Counted, IInv, Types
<1>1. ASSUME flushPc' = flushPc, owed' = owed
      PROVE  FlushDrains'
  BY <1>0, <1>1, ResultsStay DEF FlushInv, FlushDrains
<1>2. ASSUME IsIdle, results' = results, owed' \subseteq Range(submitted), owed' \subseteq Events
      PROVE  FlushDrains'
  <2>1. Unresolved = {}
    BY <1>2, IdleMeansSettled
  <2>. QED
    BY <1>2, <2>1 DEF FlushDrains, Unresolved
<1>3. Range(submitted) \subseteq Range(submitted')
  <2>1. ASSUME NEW e \in Events, Submit(e)
        PROVE  Range(submitted) \subseteq Range(submitted')
    BY <1>0, <2>1, AppendDistinct DEF Submit, IInv, Types
  <2>2. CASE CallStart \/ CallFlush \/ CallStop \/ Promises \/ TimePasses
             \/ Terminated \/ UNCHANGED vars
    BY <1>0, <2>2, QuietEffect
  <2>3. ASSUME NEW k \in Events, Job(k)
        PROVE  submitted' = submitted
    BY <1>0, <2>3, JobStep DEF Keeps, Reports, Frees, Release, jobFrame
  <2>4. CASE Loop
    BY <2>4 DEF Loop, SingleTurn, SingleDispatch, BatchTake, BatchWait, BatchDispatch
  <2>. QED
    BY <2>1, <2>2, <2>3, <2>4 DEF Next, Client
<1>4. CASE CallFlush
  <2>1. /\ owed' = Unresolved /\ results' = results
        /\ owed' \subseteq Range(submitted) /\ owed' \subseteq Events
    <3>1. owed' = Unresolved /\ results' = results
      BY <1>4 DEF CallFlush
    <3>2. Range(submitted) \subseteq Events
      BY <1>0 DEF IInv, Types, Range
    <3>. QED
      BY <3>1, <3>2 DEF Unresolved
  <2>2. FlushDrains'
    <3>1. CASE flushPc' = "done"
      <4>1. IsIdle
        BY <1>4, <3>1 DEF CallFlush
      <4>. QED
        BY <1>2, <2>1, <4>1
    <3>2. CASE flushPc' # "done"
      BY <3>2 DEF FlushDrains
    <3>. QED
      BY <3>1, <3>2
  <2>. QED
    BY <1>3, <2>1, <2>2 DEF FlushInv
<1>5. CASE ResumeFlush
  <2>1. owed' = owed /\ results' = results /\ submitted' = submitted
    BY <1>5 DEF ResumeFlush
  <2>2. FlushDrains'
    <3>1. CASE flushPc' = "done"
      <4>1. IsIdle
        BY <1>5, <3>1 DEF ResumeFlush
      <4>. QED
        BY <1>0, <1>2, <2>1, <4>1 DEF FlushInv
    <3>2. CASE flushPc' # "done"
      BY <3>2 DEF FlushDrains
    <3>. QED
      BY <3>1, <3>2
  <2>. QED
    BY <2>1, <2>2 DEF FlushInv
<1>6. ASSUME NEW k \in Events, Job(k)
      PROVE  FlushInv'
  <2>1. CASE Keeps(k) \/ Reports(k)
    BY <1>1, <1>3, <2>1 DEF Keeps, Reports, jobFrame, FlushInv
  <2>2. CASE Frees(k)
    <3>1. owed' = owed /\ results' = results /\ submitted' = submitted
      BY <2>2 DEF Frees, Release
    <3>2. FlushDrains'
      <4>1. CASE IsIdle
        BY <1>0, <1>2, <3>1, <4>1 DEF FlushInv
      <4>2. CASE ~IsIdle
        <5>1. flushPc' = flushPc
          BY <2>2, <4>2 DEF Frees, Release
        <5>. QED
          BY <1>1, <3>1, <5>1
      <4>. QED
        BY <4>1, <4>2
    <3>. QED
      BY <3>1, <3>2 DEF FlushInv
  <2>. QED
    BY <1>0, <1>6, <2>1, <2>2, JobStep
<1>7. ASSUME flushPc' = flushPc, owed' = owed
      PROVE  FlushInv'
  BY <1>1, <1>3, <1>7 DEF FlushInv
<1>8. ASSUME NEW e \in Events, Submit(e)
      PROVE  FlushInv'
  BY <1>7, <1>8 DEF Submit
<1>9. CASE CallStart \/ SenderStarts \/ SenderStartFails \/ CallStop \/ ResumeStop
           \/ CloseSender \/ TimePasses \/ Terminated \/ UNCHANGED vars
  BY <1>7, <1>9 DEF CallStart, SenderStarts, SenderStartFails, CallStop, ResumeStop,
     CloseSender, TimePasses, Terminated, vars, adapterVars
<1>10. CASE Loop
  BY <1>7, <1>10 DEF Loop, SingleTurn, SingleDispatch, BatchTake, BatchWait, BatchDispatch
<1>. QED
  BY <1>4, <1>5, <1>6, <1>8, <1>9, <1>10 DEF Next, Client, Promises

\* contracts/delivery-adapter.ts:50 for sequential senders: when flush()
\* returns, every event submitted before it has its result.
THEOREM FlushDrainsSingle == Mode = "single" => (Spec => []FlushDrains)
<1>1. SUFFICES ASSUME Mode = "single" PROVE Spec => []FlushDrains
  OBVIOUS
<1>2. Init => FlushInv
  BY DEF Init, FlushInv, FlushDrains
<1>3. Counted /\ FlushInv /\ [Next]_vars => FlushInv'
  BY <1>1, FlushStep
<1>4. FlushInv => FlushDrains
  BY DEF FlushInv
<1>. QED
  BY <1>2, <1>3, <1>4, CountersInvariant, PTL DEF Spec

-----------------------------------------------------------------------------
(* stop() *)

\* Once stop() is called the adapter stays closed to new work.
StopCalled == stopPc # "idle" => stopping /\ startPc # "idle"

\* Single mode: from the moment the drain is over the adapter stays idle.
StopIdle == stopPc \in {"joining", "closed"} /\ startPc # "failed" => IsIdle

\* Both modes: where the loop ends, or is not yet running, it leaves nothing.
StopEmpty ==
  /\ loop = "exited" => stopping /\ queue = <<>> /\ buffer = <<>>
  /\ stopPc \in {"joining", "closed"} /\ startPc = "pending" => queue = <<>> /\ buffer = <<>>
  /\ stopPc = "closed" /\ startPc # "failed" => queue = <<>> /\ buffer = <<>> /\ held = <<>>

LEMMA StopCalledStep ==
  ASSUME IInv, StopCalled, [Next]_vars
  PROVE  StopCalled'
<1>1. ASSUME NEW e \in Events, Submit(e)
      PROVE  StopCalled'
  BY <1>1 DEF Submit, StopCalled
<1>2. CASE CallStart \/ SenderStarts \/ SenderStartFails \/ CallFlush \/ ResumeFlush
  BY <1>2 DEF CallStart, SenderStarts, SenderStartFails, CallFlush, ResumeFlush, StopCalled
<1>3. CASE CallStop \/ ResumeStop \/ CloseSender
  BY <1>3 DEF CallStop, ResumeStop, CloseSender, StopCalled
<1>4. CASE TimePasses \/ Terminated \/ UNCHANGED vars
  BY <1>4 DEF TimePasses, Terminated, vars, adapterVars, StopCalled
<1>5. ASSUME NEW k \in Events, Job(k)
      PROVE  StopCalled'
  BY <1>5, JobStep DEF Keeps, Reports, Frees, Release, jobFrame, StopCalled
<1>6. CASE Loop
  BY <1>6 DEF Loop, SingleTurn, SingleDispatch, BatchTake, BatchWait, BatchDispatch,
     StopCalled
<1>. QED
  BY <1>1, <1>2, <1>3, <1>4, <1>5, <1>6 DEF Next, Client, Promises

LEMMA StopIdleStep ==
  ASSUME Counted, StopCalled, StopIdle, [Next]_vars, Mode = "single"
  PROVE  StopIdle'
<1>0. IInv
  BY DEF Counted
<1>1. ASSUME NEW e \in Events, Submit(e)
      PROVE  StopIdle'
  BY <1>1 DEF Submit, StopCalled, StopIdle, IsIdle
<1>2. CASE CallStart \/ SenderStarts \/ SenderStartFails \/ CallFlush \/ ResumeFlush
  BY <1>2 DEF CallStart, SenderStarts, SenderStartFails, CallFlush, ResumeFlush,
     StopCalled, StopIdle, IsIdle
<1>3. CASE CallStop \/ ResumeStop \/ CloseSender
  BY <1>3 DEF CallStop, ResumeStop, CloseSender, StopIdle, IsIdle
<1>4. CASE TimePasses \/ Terminated \/ UNCHANGED vars
  BY <1>4 DEF TimePasses, Terminated, vars, adapterVars, StopIdle, IsIdle
<1>5. ASSUME NEW k \in Events, Job(k)
      PROVE  StopIdle'
  <2>1. CASE Keeps(k)
    BY <2>1 DEF Keeps, jobFrame, StopIdle, IsIdle
  <2>2. CASE Reports(k)
    <3>1. ~IsIdle
      BY <1>0, <2>2, IdleMeansSettled DEF Reports, IInv, JobShape, InFlight
    <3>. QED
      BY <2>2, <3>1 DEF Reports, jobFrame, StopIdle
  <2>3. CASE Frees(k)
    BY <2>3 DEF Frees, Release, StopIdle, IsIdle
  <2>. QED
    BY <1>0, <1>5, <2>1, <2>2, <2>3, JobStep
<1>6. CASE SingleTurn \/ SingleDispatch
  BY <1>6 DEF SingleTurn, SingleDispatch, StopIdle, IsIdle
<1>7. CASE BatchTake \/ BatchWait \/ BatchDispatch
  BY <1>7 DEF BatchTake, BatchWait, BatchDispatch
<1>. QED
  BY <1>1, <1>2, <1>3, <1>4, <1>5, <1>6, <1>7 DEF Next, Client, Promises, Loop

\* Single mode: stop() closes the sender only when every job is done and
\* nothing waits (base-adapter.ts:224, 234).
THEOREM StopDrainsSingle == Mode = "single" => (Spec => []StopDrains)
<1>1. SUFFICES ASSUME Mode = "single" PROVE Spec => []StopDrains
  OBVIOUS
<1>2. Init => StopCalled /\ StopIdle
  BY DEF Init, StopCalled, StopIdle
<1>3. Counted /\ StopCalled /\ StopIdle /\ [Next]_vars => StopCalled' /\ StopIdle'
  BY <1>1, StopCalledStep, StopIdleStep DEF Counted
<1>4. Counted /\ StopIdle => StopDrains
  <2>1. SUFFICES ASSUME Counted, StopIdle, stopPc = "closed", startPc # "failed"
                 PROVE  ActiveJobs = {} /\ Waiting = {}
    BY DEF StopDrains
  <2>2. Waiting = {} /\ InFlight = {}
    BY <1>1, <2>1, IdleMeansSettled DEF StopIdle
  <2>3. \A k \in Events : job[k].phase \notin InFlightPhase
    BY <2>1, <2>2 DEF Counted, IInv, JobShape, InFlight
  <2>. QED
    BY <2>2, <2>3 DEF ActiveJobs
<1>. QED
  BY <1>2, <1>3, <1>4, CountersInvariant, PTL DEF Spec

\* Single mode: both drains keep their word.
THEOREM DrainsKept == Mode = "single" => (Spec => []Drained)
<1>1. SUFFICES ASSUME Mode = "single" PROVE Spec => []Drained
  OBVIOUS
<1>2. Spec => []FlushDrains
  BY <1>1, FlushDrainsSingle
<1>3. Spec => []StopDrains
  BY <1>1, StopDrainsSingle
<1>4. FlushDrains /\ StopDrains => Drained
  BY DEF Drained
<1>. QED
  BY <1>2, <1>3, <1>4, PTL

LEMMA StopEmptyStep ==
  ASSUME IInv, StopCalled, StopEmpty, [Next]_vars
  PROVE  StopEmpty'
<1>0. /\ loop = "off" <=> startPc # "up"
      /\ Mode = "single" => buffer = <<>> /\ held = <<>>
      /\ Mode = "batch" => (held # <<>> <=> loop \in {"slotWait", "granted"})
      /\ Mode \in {"single", "batch"} /\ startPc \in StartPoints
  BY AdapterAssumption DEF IInv, LoopShape, Types
<1>1. ASSUME NEW e \in Events, Submit(e)
      PROVE  StopEmpty'
  BY <1>0, <1>1 DEF Submit, NotifyWork, StopCalled, StopEmpty
<1>2. CASE CallStart \/ SenderStarts \/ SenderStartFails \/ CallFlush \/ ResumeFlush
  BY <1>0, <1>2 DEF CallStart, SenderStarts, SenderStartFails, CallFlush, ResumeFlush,
     NotifyWork, StopCalled, StopEmpty
<1>3. CASE CallStop \/ ResumeStop
  BY <1>0, <1>3 DEF CallStop, ResumeStop, NotifyWork, IsIdle, StopEmpty, StopCalled
<1>4. CASE CloseSender
  BY <1>0, <1>4 DEF CloseSender, StopEmpty, StopCalled, StartPoints
<1>5. CASE TimePasses \/ Terminated \/ UNCHANGED vars
  BY <1>5 DEF TimePasses, Terminated, vars, adapterVars, StopEmpty
<1>6. ASSUME NEW k \in Events, Job(k)
      PROVE  StopEmpty'
  BY <1>0, <1>6, JobStep DEF Keeps, Reports, Frees, Release, jobFrame, IsIdle, StopEmpty
<1>7. CASE SingleTurn \/ SingleDispatch
  BY <1>0, <1>7 DEF SingleTurn, AcquireSlot, SingleDispatch, StopEmpty
<1>8. /\ Filled \in Seq(Events) /\ Remaining \in Seq(Events)
      /\ Len(Filled) < BatchSize => Remaining = <<>>
      /\ Range(Filled) \cup Range(Remaining) = Range(queue) \cup Range(buffer)
  BY PullEffect DEF IInv, Types, Custody, Distinct, PlacesApart, LoopShape
<1>9. queue = <<>> /\ buffer = <<>> => Filled = <<>> /\ Remaining = <<>>
  <2>1. Range(<<>>) = {}
    BY DEF Range
  <2>. QED
    BY <1>8, <2>1, EmptyRange
<1>10. CASE BatchTake
  <2>1. ~(queue = <<>> /\ buffer = <<>>)
    BY <1>9, <1>10 DEF BatchTake
  <2>. QED
    BY <1>0, <1>10, <2>1 DEF BatchTake, AcquireSlot, StopEmpty
<1>11. CASE BatchWait
  <2>1. Remaining = <<>>
    BY <1>8, <1>11 DEF BatchWait
  <2>. QED
    BY <1>0, <1>9, <1>11, <2>1 DEF BatchWait, StopEmpty
<1>12. CASE BatchDispatch
  BY <1>0, <1>12 DEF BatchDispatch, StopEmpty
<1>. QED
  BY <1>1, <1>2, <1>3, <1>4, <1>5, <1>6, <1>7, <1>10, <1>11, <1>12
     DEF Next, Client, Promises, Loop

\* Both modes: when the sender is closed no accepted event is left that no
\* job has taken; the loop was joined first (base-adapter.ts:232-238).
THEOREM StopEmptiesQueue == Spec => []StopLeavesNothingQueued
<1>1. Init => StopCalled /\ StopEmpty
  BY DEF Init, StopCalled, StopEmpty
<1>2. IInv /\ StopCalled /\ StopEmpty /\ [Next]_vars => StopCalled' /\ StopEmpty'
  BY StopCalledStep, StopEmptyStep
<1>3. StopEmpty => StopLeavesNothingQueued
  <2>1. Range(<<>>) = {}
    BY DEF Range
  <2>. QED
    BY <2>1 DEF StopEmpty, StopLeavesNothingQueued, Waiting
<1>. QED
  BY <1>1, <1>2, <1>3, CustodyInvariant, PTL DEF Spec

-----------------------------------------------------------------------------
(* The order of events *)

\* The pairs of events submitted one after the other.
Before == {p \in Events \X Events :
             \E i, j \in DOMAIN submitted : i < j /\ p = <<submitted[i], submitted[j]>>}
Precedes(A, B) == \A x \in A, y \in B : <<x, y>> \in Before

\* A worker has dealt with the event: its result is not that of an eviction.
Handled == {e \in Events : results[e] \notin {<<>>, <<"dropped">>}}

\* From the jobs to the tail of the queue, every place holds events submitted
\* before those of the next and holds them in that order.
InLine ==
  /\ SortedBy(Before, held) /\ SortedBy(Before, buffer) /\ SortedBy(Before, queue)
  /\ Precedes(InFlight, Waiting)
  /\ Precedes(Range(held), Range(buffer) \cup Range(queue))
  /\ Precedes(Range(buffer), Range(queue))

\* With one worker what it has dealt with precedes all that is left.
Ordered ==
  /\ IsInjective(submitted)
  /\ InLine
  /\ Concurrency = 1 => Precedes(Handled, InFlight \cup Waiting)

\* With one worker the loop gets the slot when nothing is in flight, and a
\* running job holds all that is.
LEMMA OneAtATime ==
  ASSUME Counted, Concurrency = 1
  PROVE  /\ loop = "granted" => InFlight = {}
         /\ \A k \in BusyJobs : InFlight = job[k].items
<1>1. /\ BusyJobs \in SUBSET Events /\ IsFiniteSet(BusyJobs) /\ Cardinality(BusyJobs) \in Nat
      /\ permits \in Nat
  BY EventSetsFinite DEF Counted, Slots, IInv, Types, BusyJobs
<1>2. \A k \in Events \ BusyJobs : job[k].items = {}
  BY DEF Counted, IInv, JobShape, BusyJobs, InFlightPhase
<1>3. ASSUME loop = "granted"
      PROVE  InFlight = {}
  <2>1. Cardinality(BusyJobs) = 0
    BY <1>1, <1>3 DEF Counted, Slots, SlotsConserved
  <2>2. BusyJobs = {}
    BY <1>1, <2>1, FS_EmptySet
  <2>. QED
    BY <1>2, <2>2 DEF InFlight
<1>4. ASSUME NEW k \in BusyJobs
      PROVE  InFlight = job[k].items
  <2>1. Cardinality(BusyJobs) <= 1
    BY <1>1 DEF Counted, Slots, SlotsConserved
  <2>2. /\ IsFiniteSet(BusyJobs \ {k})
        /\ Cardinality(BusyJobs \ {k}) = Cardinality(BusyJobs) - 1
    BY <1>1, <1>4, FS_RemoveElement
  <2>3. Cardinality(BusyJobs \ {k}) \in Nat
    BY <2>2, FS_CardinalityType
  <2>4. BusyJobs \ {k} = {}
    BY <1>1, <2>1, <2>2, <2>3, FS_EmptySet
  <2>. QED
    BY <1>1, <1>2, <1>4, <2>4 DEF InFlight
<1>. QED
  BY <1>3, <1>4

\* Nothing that the order depends on changes, or jobs give up items.
LEMMA OrderStill ==
  ASSUME Ordered, UNCHANGED <<submitted, queue, buffer, held, results>>,
         InFlight' \subseteq InFlight
  PROVE  Ordered'
<1>1. Before' = Before /\ Handled' = Handled /\ Waiting' = Waiting
  BY DEF Before, Handled, Waiting
<1>. QED
  BY <1>1 DEF Ordered, InLine, Precedes

\* A submitted event follows all earlier ones.
LEMMA BeforeGrows ==
  ASSUME IInv, NEW e \in Events, Submit(e)
  PROVE  /\ Before \subseteq Before'
         /\ \A x \in Range(submitted) : <<x, e>> \in Before'
         /\ IsInjective(submitted) => IsInjective(submitted')
<1>1. submitted \in Seq(Events) /\ submitted' = Append(submitted, e) /\ e \notin Range(submitted)
  BY DEF IInv, Types, Submit
<1>2. /\ Len(submitted) \in Nat /\ DOMAIN submitted = 1..Len(submitted)
      /\ DOMAIN submitted' = 1..(Len(submitted) + 1)
      /\ \A i \in 1..Len(submitted) : submitted'[i] = submitted[i] /\ submitted[i] \in Events
      /\ submitted'[Len(submitted) + 1] = e
  BY <1>1
<1>3. \A i, j \in DOMAIN submitted : <<submitted[i], submitted[j]>>
                                       = <<submitted'[i], submitted'[j]>>
  BY <1>2
<1>4. DOMAIN submitted \subseteq DOMAIN submitted'
  BY <1>2
<1>5. Before \subseteq Before'
  BY <1>3, <1>4 DEF Before
<1>6. ASSUME NEW i \in DOMAIN submitted
      PROVE  <<submitted[i], e>> \in Before'
  <2>1. /\ i \in DOMAIN submitted' /\ Len(submitted) + 1 \in DOMAIN submitted'
        /\ i < Len(submitted) + 1 /\ submitted[i] \in Events
        /\ <<submitted[i], e>> = <<submitted'[i], submitted'[Len(submitted) + 1]>>
    BY <1>2, <1>6
  <2>. QED
    BY <2>1 DEF Before
<1>7. \A x \in Range(submitted) : <<x, e>> \in Before'
  BY <1>6 DEF Range
<1>8. IsInjective(submitted) => IsInjective(submitted')
  BY <1>1, AppendDistinct
<1>. QED
  BY <1>5, <1>7, <1>8

LEMMA OrderSubmit ==
  ASSUME IInv, Ordered, NEW e \in Events, Submit(e)
  PROVE  Ordered'
<1>1. /\ Before \subseteq Before'
      /\ \A x \in Range(submitted) : <<x, e>> \in Before'
      /\ IsInjective(submitted')
  BY BeforeGrows DEF Ordered
<1>2. /\ queue \in Seq(Events) /\ IsInjective(queue) /\ e \notin Range(queue)
      /\ Waiting \cup InFlight \subseteq Range(submitted)
      /\ results \in [Events -> Seq(Outcomes)]
      /\ results[e] = <<>> /\ \A x \in Range(queue) : results[x] = <<>>
      /\ \A x \in Events : results[x] # <<>> => x \in Range(submitted)
  BY DEF IInv, Types, Custody, Distinct, Open, Unresolved, Waiting, AtMostOneResult, Submit
<1>3. UNCHANGED <<buffer, held, job>> /\ InFlight' = InFlight
  BY DEF Submit, InFlight
<1>4. SortedBy(Before', queue) /\ SortedBy(Before', buffer) /\ SortedBy(Before', held)
  BY <1>1 DEF Ordered, InLine, SortedBy
<1>5. ASSUME NEW victims \in SUBSET (Range(queue) \cup {e}), Emit(victims, "dropped")
      PROVE  Handled' = Handled
  <2>1. ASSUME NEW x \in Events
        PROVE  \/ results'[x] = results[x]
               \/ results[x] = <<>> /\ results'[x] = <<"dropped">>
    <3>1. CASE x \in victims
      <4>1. results[x] = <<>> /\ results'[x] = Append(results[x], "dropped")
        BY <1>2, <1>5, <2>1, <3>1 DEF Emit
      <4>. QED
        BY <4>1
    <3>2. CASE x \notin victims
      BY <1>5, <2>1, <3>2 DEF Emit
    <3>. QED
      BY <3>1, <3>2
  <2>2. \A x \in Events : x \in Handled <=> results'[x] \notin {<<>>, <<"dropped">>}
    BY <2>1 DEF Handled
  <2>. QED
    BY <2>2 DEF Handled
<1>6. ASSUME queue' \in Seq(Events), SortedBy(Before', queue'),
             Range(queue') \subseteq Range(queue) \cup {e}, Handled' = Handled
      PROVE  Ordered'
  <2>1. Waiting' \subseteq Waiting \cup {e}
    BY <1>3, <1>6 DEF Waiting
  <2>2. Handled \subseteq Range(submitted)
    BY <1>2 DEF Handled
  <2>3. Range(held) \subseteq Range(submitted) /\ Range(buffer) \subseteq Range(submitted)
    BY <1>2 DEF Waiting
  <2>4. \A x \in InFlight, y \in Waiting' : <<x, y>> \in Before'
    BY <1>1, <1>2, <1>3, <2>1 DEF Ordered, InLine, Precedes
  <2>5. /\ \A x \in Range(held), y \in Range(buffer) \cup Range(queue') : <<x, y>> \in Before'
        /\ \A x \in Range(buffer), y \in Range(queue') : <<x, y>> \in Before'
    BY <1>1, <1>6, <2>3 DEF Ordered, InLine, Precedes
  <2>6. Concurrency = 1 => \A x \in Handled, y \in InFlight \cup Waiting' : <<x, y>> \in Before'
    BY <1>1, <2>1, <2>2 DEF Ordered, Precedes
  <2>7. InLine'
    BY <1>3, <1>4, <1>6, <2>4, <2>5 DEF InLine, Precedes, Ordered
  <2>8. (Concurrency = 1 => Precedes(Handled, InFlight \cup Waiting))'
    BY <1>3, <1>6, <2>6 DEF Precedes
  <2>. QED
    BY <1>1, <2>7, <2>8 DEF Ordered
<1>7. CASE stopping
  <2>1. queue' = queue /\ Emit({e}, "dropped")
    BY <1>7 DEF Submit
  <2>. QED
    BY <1>2, <1>4, <1>5, <1>6, <2>1
<1>8. CASE ~stopping
  <2>1. queue' = Enqueued(queue, e) /\ Emit(Casualty(queue, e), "dropped")
    BY <1>8 DEF Submit
  <2>2. /\ queue' \in Seq(Events) /\ Casualty(queue, e) \subseteq Range(queue) \cup {e}
        /\ Range(queue') \subseteq Range(queue) \cup {e}
    BY <1>2, <2>1, EnqueueEffect
  <2>3. SortedBy(Before', queue')
    <3>0. \A x \in Range(queue) : <<x, e>> \in Before'
      BY <1>1, <1>2 DEF Waiting
    <3>1. CASE queue' = queue
      BY <1>4, <3>1
    <3>2. CASE queue' = Append(queue, e)
      BY <1>2, <1>4, <3>0, <3>2, SortedAppend
    <3>3. CASE queue' = Append(Tail(queue), e) /\ queue # <<>>
      <4> DEFINE rest == Tail(queue)
      <4>1. /\ rest \in Seq(Events) /\ SortedBy(Before', rest)
            /\ Range(rest) \subseteq Range(queue)
        BY <1>2, <1>4, <3>3, TailDistinct, SortedTail
      <4> HIDE DEF rest
      <4>2. SortedBy(Before', Append(rest, e))
        BY <3>0, <4>1, SortedAppend
      <4>. QED
        BY <3>3, <4>2 DEF rest
    <3>4. Full(queue) => queue # <<>>
      BY QueueAssumption DEF Full
    <3>. QED
      BY <2>1, <3>1, <3>2, <3>3, <3>4 DEF Enqueued
  <2>. QED
    BY <1>5, <1>6, <2>1, <2>2, <2>3
<1>. QED
  BY <1>7, <1>8

\* What one job reports precedes everything left behind.
LEMMA OrderReport ==
  ASSUME Counted, Ordered, NEW k \in Events, Reports(k)
  PROVE  Ordered'
<1>1. /\ UNCHANGED <<submitted, queue, buffer, held>> /\ OnlyJob(k)
      /\ k \in BusyJobs /\ job'[k].items = {} /\ job[k].items \subseteq InFlight
  BY DEF Reports, jobFrame, BusyJobs, InFlightPhase, InFlight
<1>2. Before' = Before /\ Waiting' = Waiting
  BY <1>1 DEF Before, Waiting
<1>3. InFlight' \subseteq InFlight
  BY <1>1, InFlightEffect DEF Counted
<1>4. InLine'
  BY <1>1, <1>2, <1>3 DEF Ordered, InLine, Precedes
<1>5. ASSUME Concurrency = 1
      PROVE  Precedes(Handled, InFlight \cup Waiting)'
  <2>1. InFlight = job[k].items
    BY <1>1, <1>5, OneAtATime
  <2>2. InFlight' = {}
    BY <1>1, <2>1, InFlightEffect DEF Counted
  <2>3. Handled' \subseteq Handled \cup job[k].items
    <3>1. \A x \in Events \ job[k].items : results'[x] = results[x]
      BY DEF Reports, Emit
    <3>. QED
      BY <3>1 DEF Handled
  <2>4. Precedes(Handled, Waiting) /\ Precedes(InFlight, Waiting)
    BY <1>5 DEF Ordered, InLine, Precedes
  <2>. QED
    BY <1>2, <2>1, <2>2, <2>3, <2>4 DEF Precedes
<1>. QED
  BY <1>1, <1>4, <1>5 DEF Ordered

\* The loop takes the first of the waiting events and starts a job with them.
LEMMA OrderDispatch ==
  ASSUME Counted, Ordered, loop = "granted",
         NEW items \in Seq(Events), items # <<>>, Dispatch(items),
         UNCHANGED submitted, Waiting' \subseteq Waiting, Range(items) \subseteq Waiting,
         Precedes(Range(items), Waiting'),
         SortedBy(Before, held') /\ SortedBy(Before, buffer') /\ SortedBy(Before, queue'),
         Precedes(Range(held'), Range(buffer') \cup Range(queue')),
         Precedes(Range(buffer'), Range(queue'))
  PROVE  Ordered'
<1>1. Before' = Before /\ job \in [Events -> Jobs] /\ Head(items) \in Events
  BY DEF Before, Counted, IInv, Types
<1>2. \/ InFlight' \subseteq InFlight \cup Range(items) /\ results' = results
      \/ InFlight' \subseteq InFlight /\ Emit(Range(items), "circuit_open")
  <2>1. CASE Pass(Head(items), Range(items), 0)
    <3>1. PICK probe \in BOOLEAN :
             job' = [job EXCEPT ![Head(items)] = JobIn("throttled", Range(items), 0, probe)]
      BY <2>1 DEF Pass
    <3>2. job'[Head(items)].items = Range(items)
      BY <1>1, <3>1 DEF JobIn
    <3>3. \A j \in Events \ {Head(items)} : job'[j] = job[j]
      BY <1>1, <3>1
    <3>. QED
      BY <2>1, <3>2, <3>3 DEF InFlight, Pass
  <2>2. CASE Shed(Head(items), Range(items))
    <3>1. job' = [job EXCEPT ![Head(items)] = JobIn("done", {}, 0, FALSE)]
      BY <2>2 DEF Shed, Finish
    <3>2. job'[Head(items)].items = {}
      BY <1>1, <3>1 DEF JobIn
    <3>3. \A j \in Events \ {Head(items)} : job'[j] = job[j]
      BY <1>1, <3>1
    <3>. QED
      BY <2>2, <3>2, <3>3 DEF InFlight, Shed, Finish
  <2>. QED
    BY <2>1, <2>2 DEF Dispatch
<1>3. Precedes(InFlight, Waiting')
  BY DEF Ordered, InLine, Precedes
<1>4. InLine'
  BY <1>1, <1>2, <1>3 DEF InLine, Precedes
<1>5. ASSUME Concurrency = 1
      PROVE  Precedes(Handled, InFlight \cup Waiting)'
  <2>1. InFlight = {}
    BY <1>5, OneAtATime
  <2>2. Precedes(Handled, Waiting)
    BY <1>5 DEF Ordered, Precedes
  <2>3. CASE InFlight' \subseteq InFlight \cup Range(items) /\ results' = results
    <3>1. Handled' = Handled
      BY <2>3 DEF Handled
    <3>. QED
      BY <1>1, <2>1, <2>2, <2>3, <3>1 DEF Precedes
  <2>4. CASE InFlight' \subseteq InFlight /\ Emit(Range(items), "circuit_open")
    <3>1. Handled' \subseteq Handled \cup Range(items)
      <4>1. \A x \in Events \ Range(items) : results'[x] = results[x]
        BY <2>4 DEF Emit
      <4>. QED
        BY <4>1 DEF Handled
    <3>. QED
      BY <1>1, <2>1, <2>2, <2>4, <3>1 DEF Precedes
  <2>. QED
    BY <1>2, <2>3, <2>4
<1>. QED
  BY <1>4, <1>5 DEF Ordered

\* The pull appends the first events of the queue to the buffer.
LEMMA OrderPull ==
  ASSUME queue \in Seq(Events), buffer \in Seq(Events), InLine, Len(buffer) < BatchSize
  PROVE  /\ SortedBy(Before, Filled) /\ SortedBy(Before, Remaining)
         /\ Precedes(Range(Filled), Range(Remaining))
<1> DEFINE pulled == SubSeq(queue, 1, PullCount)
<1>1. PullCount \in 0..Len(queue)
  BY AdapterAssumption DEF PullCount
<1>2. /\ pulled \in Seq(Events)
      /\ Range(queue) = Range(pulled) \cup Range(Remaining)
      /\ SortedBy(Before, pulled) /\ SortedBy(Before, Remaining)
      /\ Precedes(Range(pulled), Range(Remaining))
  BY <1>1, SplitDistinct, SortedSplit DEF Remaining, InLine, Precedes
<1> HIDE DEF pulled
<1>3. Range(buffer \o pulled) = Range(buffer) \cup Range(pulled)
  BY <1>2, ConcatDistinct
<1>4. SortedBy(Before, buffer \o pulled)
  <2>1. \A x \in Range(buffer), y \in Range(pulled) : <<x, y>> \in Before
    BY <1>2 DEF InLine, Precedes
  <2>. QED
    BY <1>2, <2>1, SortedConcat DEF InLine
<1>5. Filled = buffer \o pulled
  BY DEF Filled, pulled
<1>. QED
  BY <1>2, <1>3, <1>4, <1>5 DEF InLine, Precedes

LEMMA OrderStep ==
  ASSUME Counted, Ordered, [Next]_vars
  PROVE  Ordered'
<1>0. /\ IInv /\ queue \in Seq(Events) /\ buffer \in Seq(Events) /\ held \in Seq(Events)
      /\ IsInjective(queue) /\ IsInjective(buffer) /\ Range(queue) \cap Range(buffer) = {}
      /\ Len(buffer) < BatchSize
      /\ held # <<>> => buffer = <<>>
      /\ Mode = "single" => buffer = <<>> /\ held = <<>>
      /\ Mode = "batch" => (held # <<>> <=> loop \in {"slotWait", "granted"})
  BY DEF Counted, IInv, Types, Custody, Distinct, PlacesApart, LoopShape
<1>1. Range(<<>>) = {} /\ \A R : SortedBy(R, <<>>)
  BY DEF Range, SortedBy
<1>2. ASSUME NEW e \in Events, Submit(e)
      PROVE  Ordered'
  BY <1>0, <1>2, OrderSubmit
<1>3. CASE CallStart \/ CallFlush \/ CallStop \/ Promises \/ TimePasses
           \/ Terminated \/ UNCHANGED vars
  <2>1. UNCHANGED <<submitted, queue, buffer, held, job, results>>
    BY <1>0, <1>3, QuietEffect
  <2>2. InFlight' = InFlight
    BY <2>1 DEF InFlight
  <2>. QED
    BY <2>1, <2>2, OrderStill
<1>4. ASSUME NEW k \in Events, Job(k)
      PROVE  Ordered'
  <2>1. CASE Keeps(k) \/ Frees(k)
    <3>1. /\ UNCHANGED <<submitted, queue, buffer, held, results>>
          /\ OnlyJob(k) /\ job'[k].items = job[k].items
      BY <2>1 DEF Keeps, Frees, Release, jobFrame
    <3>2. InFlight' = InFlight
      BY <1>0, <3>1, InFlightEffect
    <3>. QED
      BY <3>1, <3>2, OrderStill
  <2>2. CASE Reports(k)
    BY <2>2, OrderReport
  <2>. QED
    BY <1>0, <1>4, <2>1, <2>2, JobStep
<1>5. CASE SingleTurn
  <2>1. UNCHANGED <<submitted, queue, buffer, held, job, results>>
    BY <1>5 DEF SingleTurn
  <2>2. InFlight' = InFlight
    BY <2>1 DEF InFlight
  <2>. QED
    BY <2>1, <2>2, OrderStill
<1>6. CASE SingleDispatch
  <2> DEFINE items == <<Head(queue)>>
  <2>1. /\ queue # <<>> /\ queue' = Tail(queue) /\ Dispatch(items) /\ loop = "granted"
        /\ UNCHANGED <<submitted, buffer, held>> /\ buffer = <<>> /\ held = <<>>
    BY <1>0, <1>6 DEF SingleDispatch
  <2>2. /\ queue' \in Seq(Events) /\ Head(queue) \in Range(queue) /\ Head(queue) \in Events
        /\ Range(queue') \subseteq Range(queue)
    BY <1>0, <2>1, TailDistinct
  <2>3. items \in Seq(Events) /\ items # <<>> /\ Range(items) = {Head(queue)}
    BY <2>2 DEF Range
  <2>4. SortedBy(Before, queue') /\ \A x \in Range(queue') : <<Head(queue), x>> \in Before
    BY <1>0, <2>1, SortedTail DEF Ordered, InLine
  <2>5. /\ Waiting = Range(queue) /\ Waiting' = Range(queue')
    BY <1>1, <2>1 DEF Waiting
  <2> HIDE DEF items
  <2>6. /\ Waiting' \subseteq Waiting /\ Range(items) \subseteq Waiting
        /\ Precedes(Range(items), Waiting')
        /\ SortedBy(Before, held') /\ SortedBy(Before, buffer') /\ SortedBy(Before, queue')
        /\ Precedes(Range(held'), Range(buffer') \cup Range(queue'))
        /\ Precedes(Range(buffer'), Range(queue'))
    BY <1>1, <2>1, <2>2, <2>3, <2>4, <2>5 DEF Precedes
  <2>. QED
    BY <2>1, <2>3, <2>6, OrderDispatch
<1>7. CASE BatchTake \/ BatchWait
  <2>1. /\ UNCHANGED <<submitted, job, results>> /\ held = <<>> /\ queue' = Remaining
        /\ \/ held' = Filled /\ buffer' = <<>>
           \/ held' = <<>> /\ buffer' = Filled
    BY <1>0, <1>7 DEF BatchTake, BatchWait
  <2>2. Before' = Before /\ Handled' = Handled /\ InFlight' = InFlight
    BY <2>1 DEF Before, Handled, InFlight
  <2>3. /\ SortedBy(Before, Filled) /\ SortedBy(Before, Remaining)
        /\ Precedes(Range(Filled), Range(Remaining))
    BY <1>0, OrderPull DEF Ordered
  <2>4. Range(Filled) \cup Range(Remaining) = Range(queue) \cup Range(buffer)
    BY <1>0, PullEffect
  <2>5. Waiting' = Waiting
    BY <1>1, <2>1, <2>4 DEF Waiting
  <2>6. InLine'
    BY <1>1, <2>1, <2>2, <2>3, <2>5 DEF Ordered, InLine, Precedes
  <2>. QED
    BY <2>1, <2>2, <2>5, <2>6 DEF Ordered, Precedes
<1>8. CASE BatchDispatch
  <2>1. /\ Dispatch(held) /\ held' = <<>> /\ loop = "granted" /\ held # <<>>
        /\ UNCHANGED <<submitted, queue, buffer>> /\ buffer = <<>>
    BY <1>0, <1>8 DEF BatchDispatch
  <2>2. Waiting = Range(held) \cup Range(queue) /\ Waiting' = Range(queue)
    BY <1>1, <2>1 DEF Waiting
  <2>3. /\ Waiting' \subseteq Waiting /\ Range(held) \subseteq Waiting
        /\ Precedes(Range(held), Waiting')
        /\ SortedBy(Before, held') /\ SortedBy(Before, buffer') /\ SortedBy(Before, queue')
        /\ Precedes(Range(held'), Range(buffer') \cup Range(queue'))
        /\ Precedes(Range(buffer'), Range(queue'))
    BY <1>1, <2>1, <2>2 DEF Ordered, InLine, Precedes
  <2>. QED
    BY <1>0, <2>1, <2>3, OrderDispatch
<1>. QED
  BY <1>2, <1>3, <1>4, <1>5, <1>6, <1>7, <1>8 DEF Next, Client, Loop

\* No event is before an event that is before it.
LEMMA BeforeIsStrict ==
  ASSUME IInv, IsInjective(submitted), NEW i \in DOMAIN submitted, NEW j \in DOMAIN submitted,
         i < j
  PROVE  <<submitted[j], submitted[i]>> \notin Before
<1>1. SUFFICES ASSUME <<submitted[j], submitted[i]>> \in Before PROVE FALSE
  OBVIOUS
<1>2. PICK a, b \in DOMAIN submitted :
        a < b /\ <<submitted[j], submitted[i]>> = <<submitted[a], submitted[b]>>
  BY <1>1 DEF Before
<1>3. a = j /\ b = i
  BY <1>2 DEF IsInjective
<1>4. DOMAIN submitted \subseteq Nat
  BY SMTT(30) DEF IInv, Types
<1>. QED
  BY <1>2, <1>3, <1>4

\* With one worker an event has its answer only after every event submitted
\* before it has its result, through retries, batches, evictions and open
\* breakers (base-adapter.ts:254-385).
THEOREM ResultsInOrder == Spec => []InOrder
<1>1. Init => Ordered
  <2>1. SUFFICES ASSUME Init PROVE Ordered
    OBVIOUS
  <2>2. /\ submitted = <<>> /\ queue = <<>> /\ buffer = <<>> /\ held = <<>>
        /\ \A e \in Events : results[e] = <<>> /\ job[e].items = {}
    BY <2>1 DEF Init, NoJob, JobIn
  <2>3. Range(<<>>) = {} /\ IsInjective(<<>>) /\ \A R : SortedBy(R, <<>>)
    BY DEF Range, IsInjective, SortedBy
  <2>4. Waiting = {} /\ InFlight = {}
    BY <2>2, <2>3 DEF Waiting, InFlight
  <2>. QED
    BY <2>2, <2>3, <2>4 DEF Ordered, InLine, Precedes
<1>2. Counted /\ Ordered /\ [Next]_vars => Ordered'
  BY OrderStep
<1>3. Counted /\ Ordered => InOrder
  <2>1. SUFFICES ASSUME Counted, Ordered, Concurrency = 1,
                        NEW i \in DOMAIN submitted, NEW j \in DOMAIN submitted, i < j,
                        results[submitted[j]] \notin {<<>>, <<"dropped">>},
                        results[submitted[i]] = <<>>
                 PROVE  FALSE
    BY DEF InOrder
  <2>2. IInv /\ submitted[i] \in Events /\ submitted[j] \in Events
    BY <2>1 DEF Counted, IInv, Types
  <2>3. submitted[i] \in Waiting \cup InFlight
    BY <2>1, <2>2 DEF IInv, Custody, NothingLost, Unresolved, Range
  <2>4. submitted[j] \in Handled
    BY <2>1, <2>2 DEF Handled
  <2>5. <<submitted[j], submitted[i]>> \in Before
    BY <2>1, <2>3, <2>4 DEF Ordered, Precedes
  <2>. QED
    BY <2>1, <2>2, <2>5, BeforeIsStrict DEF Ordered
<1>. QED
  BY <1>1, <1>2, <1>3, CountersInvariant, PTL DEF Spec

-----------------------------------------------------------------------------
(* The backlog *)

\* What the jobs of S have in flight.
ItemsOf(S) == UNION {job[k].items : k \in S}

\* The queue, the loop's hands and every group of jobs hold no more than they
\* have room for.  A job's own bound would not do: what all jobs together hold
\* is a sum, so the bound is on every set of them.
Bounded ==
  /\ OverflowPolicy # "block" => Len(queue) <= HighWater
  /\ Mode = "batch" => Len(held) <= BatchSize
  /\ Mode = "single" => \A k \in Events : job[k].items \subseteq {k}
  /\ Mode = "batch" =>
       \A S \in SUBSET Events : Cardinality(ItemsOf(S)) <= BatchSize * Cardinality(S)

\* enqueue(e) keeps a queue below the mark unless the policy is to block.
LEMMA EnqueueLength ==
  ASSUME NEW q \in Seq(Events), NEW e \in Events, OverflowPolicy # "block",
         Len(q) <= HighWater
  PROVE  Len(Enqueued(q, e)) <= HighWater
<1>1. HighWater \in Nat \ {0} /\ Len(q) \in Nat
  BY QueueAssumption
<1>2. CASE ~Full(q)
  BY <1>1, <1>2 DEF Full, Enqueued
<1>3. CASE Full(q) /\ OverflowPolicy = "drop_oldest"
  <2>1. q # <<>> /\ Len(q) = HighWater
    BY <1>1, <1>3 DEF Full
  <2>2. Tail(q) \in Seq(Events) /\ Len(Tail(q)) = Len(q) - 1
    BY <2>1
  <2>3. Enqueued(q, e) = Append(Tail(q), e)
    BY <1>3 DEF Enqueued
  <2>4. Len(Append(Tail(q), e)) = Len(Tail(q)) + 1
    BY <2>2, AppendDistinct
  <2>. QED
    BY <1>1, <2>1, <2>2, <2>3, <2>4
<1>4. CASE Full(q) /\ OverflowPolicy # "drop_oldest"
  BY <1>4 DEF Enqueued
<1>. QED
  BY <1>2, <1>3, <1>4

\* A pull takes no more than fits the batch and leaves the rest.
LEMMA PullLengths ==
  ASSUME queue \in Seq(Events), buffer \in Seq(Events), Len(buffer) < BatchSize
  PROVE  Len(Filled) <= BatchSize /\ Len(Remaining) \in 0..Len(queue)
<1>1. /\ Len(queue) \in Nat /\ Len(buffer) \in Nat /\ BatchSize \in Nat
      /\ PullCount \in 0..Len(queue) /\ PullCount <= BatchSize - Len(buffer)
  BY AdapterAssumption DEF PullCount
<1>2. /\ SubSeq(queue, 1, PullCount) \in Seq(Events)
      /\ Len(SubSeq(queue, 1, PullCount)) = PullCount
      /\ Len(Remaining) = Len(queue) - PullCount
  BY <1>1, SplitDistinct DEF Remaining
<1>3. Len(Filled) = Len(buffer) + PullCount
  BY <1>2, ConcatDistinct DEF Filled
<1>. QED
  BY <1>1, <1>2, <1>3

LEMMA ItemSets ==
  ASSUME Types, NEW S \in SUBSET Events
  PROVE  ItemsOf(S) \in SUBSET Events /\ ItemsOf(S)' = UNION {job'[k].items : k \in S}
BY DEF Types, Jobs, ItemsOf

\* A job that hands its items over leaves every group with what the others hold;
\* one that starts brings at most a batch.
LEMMA GroupsBounded ==
  ASSUME Types, NEW k \in Events, NEW new \in SUBSET Events,
         Cardinality(new) <= BatchSize,
         job'[k].items = new, \A j \in Events \ {k} : job'[j].items = job[j].items,
         \A S \in SUBSET Events : Cardinality(ItemsOf(S)) <= BatchSize * Cardinality(S)
  PROVE  \A S \in SUBSET Events : Cardinality(ItemsOf(S)') <= BatchSize * Cardinality(S)
<1>1. TAKE S \in SUBSET Events
<1>2. ItemsOf(S)' = UNION {job'[j].items : j \in S}
  BY ItemSets
<1>3. CASE k \notin S
  <2>1. ItemsOf(S)' = ItemsOf(S)
    BY <1>2, <1>3 DEF ItemsOf
  <2>. QED
    BY <2>1
<1>4. CASE k \in S
  <2> DEFINE rest == S \ {k}
  <2>1. rest \in SUBSET Events /\ k \notin rest
    OBVIOUS
  <2>2. ItemsOf(rest) \in SUBSET Events
    BY <2>1, ItemSets
  <2>3. ItemsOf(S)' = ItemsOf(rest) \cup new
    BY <1>2, <1>4 DEF ItemsOf
  <2>4. Cardinality(ItemsOf(rest)) <= BatchSize * Cardinality(rest)
    BY <2>1
  <2>5. /\ IsFiniteSet(S) /\ Cardinality(S) \in Nat
        /\ IsFiniteSet(rest) /\ Cardinality(rest) \in Nat
        /\ IsFiniteSet(ItemsOf(rest)) /\ Cardinality(ItemsOf(rest)) \in Nat
        /\ IsFiniteSet(new) /\ Cardinality(new) \in Nat
        /\ Cardinality(ItemsOf(rest) \cap new) \in Nat
    BY <2>2, EventSetsFinite
  <2>6. Cardinality(S) = Cardinality(rest) + 1
    BY <1>4, <2>5, FS_RemoveElement
  <2>7. Cardinality(ItemsOf(S)') <= Cardinality(ItemsOf(rest)) + Cardinality(new)
    <3> DEFINE old == ItemsOf(rest)
    <3>1. /\ IsFiniteSet(old) /\ Cardinality(old) \in Nat
          /\ Cardinality(old \cap new) \in Nat /\ ItemsOf(S)' = old \cup new
      BY <2>3, <2>5
    <3> HIDE DEF old, rest
    <3>2. Cardinality(old \cup new) = Cardinality(old) + Cardinality(new) - Cardinality(old \cap new)
      BY <2>5, <3>1, FS_Union
    <3>3. Cardinality(old \cup new) <= Cardinality(old) + Cardinality(new)
      BY <2>5, <3>1, <3>2
    <3>. QED
      BY <3>1, <3>3 DEF old
  <2> DEFINE n == Cardinality(rest)
  <2>8. BatchSize \in Nat /\ BatchSize * (n + 1) = BatchSize * n + BatchSize
    BY <2>5, AdapterAssumption
  <2> HIDE DEF n
  <2>9. BatchSize * n \in Nat /\ Cardinality(ItemsOf(S)') \in Nat
    <3>1. ItemsOf(S)' \in SUBSET Events
      BY <2>2, <2>3
    <3>2. n \in Nat
      BY <2>5 DEF n
    <3>. QED
      BY <2>8, <3>1, <3>2, EventSetsFinite
  <2>. QED
    BY <2>4, <2>5, <2>6, <2>7, <2>8, <2>9 DEF n
<1>. QED
  BY <1>3, <1>4

LEMMA BoundedStep ==
  ASSUME IInv, Bounded, [Next]_vars
  PROVE  Bounded'
<1>0. /\ Types /\ queue \in Seq(Events) /\ buffer \in Seq(Events) /\ held \in Seq(Events)
      /\ Len(buffer) < BatchSize /\ BatchSize \in Nat \ {0} /\ job \in [Events -> Jobs]
  BY AdapterAssumption DEF IInv, Types, LoopShape
<1>1. ASSUME \A j \in Events : job'[j].items = job[j].items
      PROVE  \A S \in SUBSET Events : ItemsOf(S)' = ItemsOf(S)
  BY <1>0, <1>1, ItemSets DEF ItemsOf
<1>2. ASSUME UNCHANGED <<queue, held>>, \A j \in Events : job'[j].items = job[j].items
      PROVE  Bounded'
  BY <1>1, <1>2 DEF Bounded
<1>3. ASSUME NEW e \in Events, Submit(e)
      PROVE  Bounded'
  <2>1. held' = held /\ job' = job /\ (queue' = queue \/ queue' = Enqueued(queue, e))
    BY <1>3 DEF Submit
  <2>2. OverflowPolicy # "block" => Len(queue') <= HighWater
    BY <1>0, <2>1, EnqueueLength DEF Bounded
  <2>. QED
    BY <1>1, <2>1, <2>2 DEF Bounded
<1>4. CASE CallStart \/ CallFlush \/ CallStop \/ Promises \/ TimePasses
           \/ Terminated \/ UNCHANGED vars
  BY <1>2, <1>4, QuietEffect
<1>5. ASSUME NEW k \in Events, Job(k)
      PROVE  Bounded'
  <2>1. CASE Keeps(k) \/ Frees(k)
    BY <1>2, <2>1 DEF Keeps, Frees, OnlyJob, Release, jobFrame
  <2>2. CASE Reports(k)
    <3>1. {} \in SUBSET Events /\ Cardinality({}) <= BatchSize
      BY <1>0, FS_EmptySet
    <3>2. /\ queue' = queue /\ held' = held /\ job'[k].items = {}
          /\ \A j \in Events \ {k} : job'[j].items = job[j].items
      BY <2>2 DEF Reports, OnlyJob, jobFrame
    <3>. QED
      BY <1>0, <3>1, <3>2, GroupsBounded DEF Bounded
  <2>. QED
    BY <1>5, <2>1, <2>2, JobStep
<1>6. ASSUME NEW items \in Seq(Events), items # <<>>, Dispatch(items)
      PROVE  /\ Head(items) \in Events
             /\ job'[Head(items)].items \in {Range(items), {}}
             /\ \A j \in Events \ {Head(items)} : job'[j].items = job[j].items
  <2>1. Head(items) \in Events
    BY <1>6
  <2>2. \/ \E probe \in BOOLEAN :
             job' = [job EXCEPT ![Head(items)] = JobIn("throttled", Range(items), 0, probe)]
        \/ job' = [job EXCEPT ![Head(items)] = JobIn("done", {}, 0, FALSE)]
    BY <1>6 DEF Dispatch, Pass, Shed, Finish
  <2>3. ASSUME NEW new, job' = [job EXCEPT ![Head(items)] = new]
        PROVE  /\ job'[Head(items)] = new
               /\ \A j \in Events \ {Head(items)} : job'[j].items = job[j].items
    BY <1>0, <2>1, <2>3
  <2>4. CASE \E probe \in BOOLEAN :
             job' = [job EXCEPT ![Head(items)] = JobIn("throttled", Range(items), 0, probe)]
    <3>1. PICK probe \in BOOLEAN :
             job' = [job EXCEPT ![Head(items)] = JobIn("throttled", Range(items), 0, probe)]
      BY <2>4
    <3>2. job'[Head(items)].items = Range(items)
      BY <2>3, <3>1 DEF JobIn
    <3>. QED
      BY <2>1, <2>3, <3>1, <3>2
  <2>5. CASE job' = [job EXCEPT ![Head(items)] = JobIn("done", {}, 0, FALSE)]
    <3>1. job'[Head(items)].items = {}
      BY <2>3, <2>5 DEF JobIn
    <3>. QED
      BY <2>1, <2>3, <2>5, <3>1
  <2>. QED
    BY <2>2, <2>4, <2>5
<1>7. CASE SingleDispatch
  <2> DEFINE items == <<Head(queue)>>
  <2>1. /\ Mode = "single" /\ queue # <<>> /\ queue' = Tail(queue) /\ held' = held
        /\ Dispatch(items)
    BY <1>7 DEF SingleDispatch
  <2>2. /\ items \in Seq(Events) /\ items # <<>> /\ Head(items) = Head(queue)
        /\ Range(items) = {Head(items)}
    BY <1>0, <2>1 DEF Range
  <2>3. Len(queue') = Len(queue) - 1
    BY <1>0, <2>1
  <2> HIDE DEF items
  <2>4. ASSUME NEW j \in Events
        PROVE  job'[j].items \subseteq {j}
    <3>1. CASE j = Head(items)
      <4>1. job'[j].items = {j} \/ job'[j].items = {}
        BY <1>6, <2>1, <2>2, <3>1
      <4>. QED
        BY <4>1
    <3>2. CASE j # Head(items)
      <4>1. job'[j].items = job[j].items
        BY <1>6, <2>1, <2>2, <3>2
      <4>. QED
        BY <2>1, <4>1 DEF Bounded
    <3>. QED
      BY <3>1, <3>2
  <2>. QED
    BY <1>0, <2>1, <2>3, <2>4, QueueAssumption DEF Bounded
<1>8. CASE SingleTurn
  BY <1>2, <1>8 DEF SingleTurn
<1>9. CASE BatchTake \/ BatchWait
  <2>1. /\ queue' = Remaining /\ job' = job
        /\ held' = Filled \/ held' = held
    BY <1>9 DEF BatchTake, BatchWait
  <2>2. Len(Filled) <= BatchSize /\ Len(Remaining) <= Len(queue)
        /\ Len(queue) \in Nat /\ Len(Remaining) \in Nat
    BY <1>0, PullLengths
  <2>3. OverflowPolicy # "block" => Len(queue') <= HighWater
    BY <2>1, <2>2, QueueAssumption DEF Bounded
  <2>. QED
    BY <1>1, <2>1, <2>2, <2>3 DEF Bounded
<1>10. CASE BatchDispatch
  <2>1. /\ Mode = "batch" /\ Dispatch(held) /\ held' = <<>> /\ queue' = queue
        /\ held # <<>> /\ IsInjective(held) /\ Len(held) <= BatchSize
    BY <1>10 DEF BatchDispatch, IInv, LoopShape, Custody, Distinct, Bounded
  <2>2. Range(held) \in SUBSET Events /\ Cardinality(Range(held)) <= BatchSize
        /\ Cardinality({}) <= BatchSize
    <3>1. Cardinality(Range(held)) = Len(held)
      BY <1>0, <2>1, LengthIsCardinality
    <3>2. Cardinality({}) = 0
      BY FS_EmptySet
    <3>3. Range(held) \in SUBSET Events
      BY <1>0 DEF Range
    <3>. QED
      BY <1>0, <2>1, <3>1, <3>2, <3>3
  <2>3. \A S \in SUBSET Events : Cardinality(ItemsOf(S)') <= BatchSize * Cardinality(S)
    <3>1. PICK k \in Events, new \in SUBSET Events :
            /\ Cardinality(new) <= BatchSize
            /\ job'[k].items = new
            /\ \A j \in Events \ {k} : job'[j].items = job[j].items
      BY <1>0, <1>6, <2>1, <2>2
    <3>2. \A S \in SUBSET Events : Cardinality(ItemsOf(S)) <= BatchSize * Cardinality(S)
      BY <2>1 DEF Bounded
    <3>. QED
      BY <1>0, <3>1, <3>2, GroupsBounded
  <2>4. Len(held') <= BatchSize
    BY <1>0, <2>1
  <2>. QED
    BY <2>1, <2>3, <2>4 DEF Bounded
<1>. QED
  BY <1>3, <1>4, <1>5, <1>7, <1>8, <1>9, <1>10 DEF Next, Client, Loop

LEMMA BoundedInit == Init => Bounded
<1>1. SUFFICES ASSUME Init PROVE Bounded
  OBVIOUS
<1>2. \A k \in Events : job[k].items = {}
  BY <1>1 DEF Init, NoJob, JobIn
<1>3. ASSUME NEW S \in SUBSET Events
      PROVE  Cardinality(ItemsOf(S)) <= BatchSize * Cardinality(S)
  <2>1. ItemsOf(S) = {}
    BY <1>2 DEF ItemsOf
  <2>2. Cardinality(S) \in Nat /\ BatchSize \in Nat
    BY EventSetsFinite, AdapterAssumption
  <2>3. BatchSize * Cardinality(S) \in Nat
    BY <2>2
  <2>. QED
    BY <2>1, <2>3, FS_EmptySet
<1>. QED
  BY <1>1, <1>2, <1>3, QueueAssumption, AdapterAssumption DEF Init, Bounded

\* What is unresolved waits or is in flight, and each place has its bound.
LEMMA BacklogFits ==
  ASSUME Counted, Bounded
  PROVE  BacklogBounded
<1>1. SUFFICES ASSUME OverflowPolicy # "block"
               PROVE  Cardinality(Unresolved) <= BacklogBound
  BY DEF BacklogBounded
<1>2. IInv /\ InFlightExact /\ Slots /\ Types /\ Custody
  BY DEF Counted, IInv
<1>3. /\ queue \in Seq(Events) /\ buffer \in Seq(Events) /\ held \in Seq(Events)
      /\ IsInjective(queue) /\ IsInjective(buffer) /\ IsInjective(held)
  BY <1>2 DEF Types, Custody, Distinct
<1>4. /\ Range(queue) \in SUBSET Events /\ Cardinality(Range(queue)) = Len(queue)
      /\ Range(buffer) \in SUBSET Events /\ Cardinality(Range(buffer)) = Len(buffer)
      /\ Range(held) \in SUBSET Events /\ Cardinality(Range(held)) = Len(held)
      /\ Len(queue) \in Nat /\ Len(buffer) \in Nat /\ Len(held) \in Nat
  <2>1. Cardinality(Range(queue)) = Len(queue) /\ Cardinality(Range(buffer)) = Len(buffer)
        /\ Cardinality(Range(held)) = Len(held)
    BY <1>3, LengthIsCardinality
  <2>. QED
    BY <1>3, <2>1 DEF Range
<1>5. Unresolved \subseteq Range(queue) \cup Range(buffer) \cup Range(held) \cup InFlight
  BY <1>2 DEF Custody, NothingLost, Waiting
<1>6. /\ InFlight \in SUBSET Events /\ BusyJobs \in SUBSET Events
      /\ Cardinality(InFlight) \in Nat /\ Cardinality(BusyJobs) \in Nat
      /\ Cardinality(Unresolved) \in Nat
  <2>1. InFlight \in SUBSET Events /\ BusyJobs \in SUBSET Events /\ Unresolved \in SUBSET Events
    BY <1>2 DEF Types, Jobs, InFlight, BusyJobs, Unresolved, Range
  <2>. QED
    BY <2>1, EventSetsFinite
<1>7. Cardinality(BusyJobs) <= Concurrency
  BY <1>2, <1>6, AdapterAssumption DEF Slots, SlotsConserved, Types
<1>8. \A k \in Events : k \notin BusyJobs => job[k].items = {}
  BY <1>2 DEF BusyJobs, IInv, JobShape, InFlightPhase
<1>9. ASSUME NEW A \in SUBSET Events, NEW B \in SUBSET Events
      PROVE  /\ Cardinality(A \cup B) <= Cardinality(A) + Cardinality(B)
             /\ A \subseteq B => Cardinality(A) <= Cardinality(B)
  <2>1. /\ IsFiniteSet(A) /\ IsFiniteSet(B) /\ Cardinality(A) \in Nat
        /\ Cardinality(B) \in Nat /\ Cardinality(A \cap B) \in Nat
    BY EventSetsFinite
  <2>2. Cardinality(A \cup B) = Cardinality(A) + Cardinality(B) - Cardinality(A \cap B)
    BY <2>1, FS_Union
  <2>3. ASSUME A \subseteq B
        PROVE  Cardinality(A) <= Cardinality(B)
    BY <2>1, <2>3, FS_Subset
  <2>. QED
    BY <2>1, <2>2, <2>3
<1>10. Cardinality(Unresolved) <= Len(queue) + Len(buffer) + Len(held) + Cardinality(InFlight)
  <2> DEFINE A == Range(queue) \cup Range(buffer)
             B == A \cup Range(held)
             C == B \cup InFlight
  <2>1. A \in SUBSET Events /\ B \in SUBSET Events /\ C \in SUBSET Events
        /\ Unresolved \subseteq C
    BY <1>4, <1>5, <1>6
  <2>2. /\ Cardinality(A) \in Nat /\ Cardinality(B) \in Nat /\ Cardinality(C) \in Nat
    BY <2>1, EventSetsFinite
  <2>3. Cardinality(A) <= Len(queue) + Len(buffer)
    BY <1>4, <1>9
  <2>4. Cardinality(B) <= Cardinality(A) + Len(held)
    <3> HIDE DEF A
    <3>. QED
      BY <1>4, <1>9, <2>1
  <2>5. Cardinality(C) <= Cardinality(B) + Cardinality(InFlight)
    <3> HIDE DEF B
    <3>. QED
      BY <1>6, <1>9, <2>1
  <2>6. Cardinality(Unresolved) <= Cardinality(C)
    <3> HIDE DEF C
    <3>1. Unresolved \in SUBSET Events
      BY <2>1
    <3>. QED
      BY <1>9, <2>1, <3>1
  <2> HIDE DEF A, B, C
  <2>. QED
    BY <1>4, <1>6, <2>2, <2>3, <2>4, <2>5, <2>6, SMTT(30)
<1>11. Len(queue) <= HighWater /\ HighWater \in Nat
  BY <1>1, QueueAssumption DEF Bounded
<1>12. CASE Mode = "single"
  <2>1. Len(buffer) = 0 /\ Len(held) = 0
    BY <1>2, <1>12 DEF IInv, LoopShape
  <2>2. InFlight \subseteq BusyJobs
    BY <1>8, <1>12 DEF InFlight, Bounded
  <2>3. Cardinality(InFlight) <= Cardinality(BusyJobs)
    BY <1>6, <1>9, <2>2
  <2>. QED
    BY <1>4, <1>6, <1>7, <1>10, <1>11, <1>12, <2>1, <2>3, AdapterAssumption DEF BacklogBound
<1>13. CASE Mode = "batch"
  <2>1. Len(buffer) + Len(held) <= BatchSize /\ BatchSize \in Nat
    <3>1. held # <<>> => buffer = <<>> /\ Len(buffer) = 0
      BY <1>2 DEF IInv, LoopShape
    <3>2. held = <<>> => Len(held) = 0
      OBVIOUS
    <3>3. Len(held) <= BatchSize /\ Len(buffer) < BatchSize
      BY <1>2, <1>13 DEF IInv, LoopShape, Bounded
    <3>. QED
      BY <1>4, <3>1, <3>2, <3>3, AdapterAssumption
  <2>2. InFlight = ItemsOf(BusyJobs)
    BY <1>6, <1>8 DEF InFlight, ItemsOf
  <2>3. Cardinality(InFlight) <= BatchSize * Cardinality(BusyJobs)
    BY <1>6, <1>13, <2>2 DEF Bounded
  <2>4. \A b, c, n \in Nat : n <= c => b * n <= b * c /\ b * n \in Nat /\ b * c \in Nat
    <3>1. SUFFICES ASSUME NEW b \in Nat, NEW c \in Nat, NEW n \in Nat, n <= c
                   PROVE  b * n <= b * c /\ b * n \in Nat /\ b * c \in Nat
      OBVIOUS
    <3>2. c - n \in Nat /\ b * c = b * n + b * (c - n)
      BY <3>1
    <3>3. b * n \in Nat /\ b * (c - n) \in Nat
      BY <3>2
    <3>. QED
      BY <3>2, <3>3
  <2>5. Concurrency \in Nat /\ (Concurrency + 1) * BatchSize = BatchSize * Concurrency + BatchSize
    BY <2>1, AdapterAssumption
  <2>6. BatchSize * Cardinality(BusyJobs) <= BatchSize * Concurrency
        /\ BatchSize * Cardinality(BusyJobs) \in Nat /\ BatchSize * Concurrency \in Nat
    BY <1>6, <1>7, <2>1, <2>4, <2>5
  <2> DEFINE most == BatchSize * Concurrency
             used == BatchSize * Cardinality(BusyJobs)
  <2>7. used \in Nat /\ most \in Nat /\ used <= most /\ Cardinality(InFlight) <= used
    BY <2>3, <2>6
  <2>8. BacklogBound = HighWater + (most + BatchSize)
    BY <1>13, <2>5 DEF BacklogBound
  <2> HIDE DEF most, used
  <2>. QED
    BY <1>4, <1>6, <1>10, <1>11, <2>1, <2>7, <2>8, SMTT(30)
<1>. QED
  BY <1>12, <1>13, AdapterAssumption

\* Under both drop policies the accepted events without a result never exceed
\* the queue's mark, the slots and one batch in the loop's hands, whatever
\* arrives and however long sends take (bounded-queue.ts:30-52).
THEOREM BacklogStaysBounded == Spec => []BacklogBounded
<1>1. Init => Bounded
  BY BoundedInit
<1>2. IInv /\ Bounded /\ [Next]_vars => Bounded'
  BY BoundedStep
<1>3. Counted /\ Bounded => BacklogBounded
  BY BacklogFits
<1>. QED
  BY <1>1, <1>2, <1>3, CustodyInvariant, CountersInvariant, PTL DEF Spec

-----------------------------------------------------------------------------
(* The contract *)

Status == [e \in Events |-> StatusOf(e)]

\* What the contract sees of one event.
LEMMA StatusFacts ==
  ASSUME IInv
  PROVE  /\ \A e \in Events : Status[e] = StatusOf(e)
         /\ \A e \in Events : e \notin Range(submitted) => Status[e] = "new"
         /\ \A e \in Events : e \in Unresolved <=> Status[e] = "pending"
         /\ Contract!Pending = Unresolved
<1>1. \A e \in Events : /\ results[e] \in Seq(Outcomes) /\ Len(results[e]) <= 1
                        /\ results[e] # <<>> => e \in Range(submitted)
  BY DEF IInv, Types, Custody, AtMostOneResult
<1>2. Range(submitted) \subseteq Events
  BY DEF IInv, Types, Range
<1>3. ASSUME NEW e \in Events
      PROVE  /\ e \notin Range(submitted) => StatusOf(e) = "new"
             /\ e \in Unresolved <=> StatusOf(e) = "pending"
  <2>1. CASE results[e] = <<>>
    BY <1>3, <2>1 DEF StatusOf, Unresolved
  <2>2. CASE results[e] # <<>>
    <3>0. results[e] \in Seq(Outcomes) /\ Len(results[e]) <= 1 /\ e \in Range(submitted)
      BY <1>1, <1>3, <2>2
    <3>1. Len(results[e]) = 1 /\ results[e][1] \in Outcomes
      BY <2>2, <3>0, OneElement
    <3>2. StatusOf(e) = results[e][1]
      BY <2>2, <3>0, <3>1 DEF StatusOf
    <3>. QED
      BY <2>2, <3>0, <3>1, <3>2 DEF Outcomes, Unresolved
  <2>. QED
    BY <2>1, <2>2
<1>4. \A e \in Events : Status[e] = StatusOf(e)
  BY DEF Status
<1>5. Contract!Pending = Unresolved
  BY <1>2, <1>3 DEF Contract!Pending, Unresolved
<1>. QED
  BY <1>3, <1>4, <1>5

\* Reporting unresolved events settles exactly these.
LEMMA StatusEmitted ==
  ASSUME IInv, NEW items \in SUBSET Events, NEW outcome \in Outcomes,
         \A e \in items : results[e] = <<>> /\ e \in Range(submitted'),
         Emit(items, outcome),
         NEW e \in Events, e \in Range(submitted') <=> e \in Range(submitted) \/ e \in items
  PROVE  Status'[e] = IF e \in items THEN outcome ELSE Status[e]
<1>1. Status'[e] = StatusOf(e)' /\ Status[e] = StatusOf(e)
  BY DEF Status
<1>2. CASE e \in items
  <2>1. results'[e] = <<outcome>>
    <3>1. results'[e] = Append(<<>>, outcome)
      BY <1>2 DEF Emit
    <3>. QED
      BY <3>1
  <2>2. results'[e] # <<>> /\ Len(results'[e]) = 1 /\ results'[e][1] = outcome
    BY <2>1
  <2>3. StatusOf(e)' = outcome
    BY <1>2, <2>2 DEF StatusOf
  <2>. QED
    BY <1>1, <1>2, <2>3
<1>3. CASE e \notin items
  <2>1. results'[e] = results[e] /\ (e \in Range(submitted') <=> e \in Range(submitted))
    BY <1>3 DEF Emit
  <2>2. StatusOf(e)' = StatusOf(e)
    BY <2>1 DEF StatusOf
  <2>. QED
    BY <1>1, <1>3, <2>2
<1>. QED
  BY <1>2, <1>3

\* What the contract does not see.
LEMMA Unseen ==
  ASSUME UNCHANGED <<submitted, results, owed>>, PromiseOf' = PromiseOf
  PROVE  UNCHANGED <<Status, PromiseOf, owed>>
BY DEF Status, StatusOf

LEMMA ContractInit == Init => Contract!Init
<1>1. SUFFICES ASSUME Init PROVE Contract!Init
  OBVIOUS
<1>2. /\ \A e \in Events : results[e] = <<>>
      /\ Range(submitted) = {} /\ flushPc = "idle" /\ owed = {}
  BY <1>1 DEF Init, Range
<1>3. \A e \in Events : StatusOf(e) = "new"
  BY <1>2 DEF StatusOf
<1>4. PromiseOf = "idle"
  BY <1>2 DEF PromiseOf
<1>. QED
  BY <1>2, <1>3, <1>4 DEF Contract!Init

\* submit(event) is the contract's.
LEMMA ContractSubmit ==
  ASSUME IInv, NEW e \in Events, Submit(e)
  PROVE  Contract!Submit(e)
<1>1. /\ submitted \in Seq(Events) /\ e \notin Range(submitted)
      /\ Range(submitted') = Range(submitted) \cup {e}
      /\ UNCHANGED <<owed, flushPc>>
  BY AppendDistinct DEF IInv, Types, Submit
<1>2. /\ results[e] = <<>> /\ queue \in Seq(Events) /\ Range(queue) \subseteq Unresolved
      /\ Unresolved \subseteq Range(submitted)
  BY <1>1 DEF IInv, Types, Custody, Open, Waiting, Unresolved, AtMostOneResult
<1>3. Status[e] = "new" /\ Contract!Pending = Unresolved
  BY <1>1, StatusFacts
<1>4. /\ PromiseOf' = PromiseOf /\ owed' = owed
  BY <1>1 DEF PromiseOf
<1>5. CASE \/ stopping /\ Emit({e}, "dropped")
           \/ Emit(Casualty(queue, e), "dropped") /\ Casualty(queue, e) = {e}
  <2>1. Emit({e}, "dropped") /\ "dropped" \in Outcomes
    BY <1>5 DEF Outcomes
  <2>2. \A x \in Events : Status'[x] = IF x \in {e} THEN "dropped" ELSE Status[x]
    BY <1>1, <1>2, <2>1, StatusEmitted, ZenonT(30)
  <2>3. Status' = [Status EXCEPT ![e] = "dropped"]
    BY <2>2 DEF Status
  <2>. QED
    BY <1>3, <1>4, <2>3 DEF Contract!Submit, Status
<1>6. ASSUME NEW victims \in SUBSET Unresolved, Emit(victims, "dropped"), e \notin victims
      PROVE  \A x \in Events :
               Status'[x] = IF x \in victims THEN "dropped"
                            ELSE IF x = e THEN "pending" ELSE Status[x]
  <2>1. "dropped" \in Outcomes /\ victims \in SUBSET Events
    BY DEF Outcomes, Unresolved, IInv, Types, Range
  <2>2. \A x \in victims : results[x] = <<>> /\ x \in Range(submitted) /\ x \in Range(submitted')
    BY <1>1 DEF Unresolved
  <2>3. \A x \in Events \ {e} : Status'[x] = IF x \in victims THEN "dropped" ELSE Status[x]
    BY <1>1, <1>6, <2>1, <2>2, StatusEmitted
  <2>4. Status'[e] = "pending"
    <3>1. results'[e] = <<>> /\ e \in Range(submitted')
      BY <1>1, <1>2, <1>6 DEF Emit
    <3>2. StatusOf(e)' = "pending"
      BY <3>1 DEF StatusOf
    <3>. QED
      BY <3>2 DEF Status
  <2>. QED
    BY <1>6, <2>3, <2>4
<1>7. CASE Emit(Casualty(queue, e), "dropped") /\ Casualty(queue, e) = {}
  <2>1. Status' = [Status EXCEPT ![e] = "pending"]
    BY <1>6, <1>7 DEF Status
  <2>. QED
    BY <1>3, <1>4, <2>1 DEF Contract!Submit, Status
<1>8. CASE /\ Emit(Casualty(queue, e), "dropped")
           /\ Casualty(queue, e) = {Head(queue)} /\ queue # <<>>
  <2> DEFINE v == Head(queue)
  <2>1. v \in Unresolved /\ v # e
    BY <1>1, <1>2, <1>8, TailDistinct
  <2> HIDE DEF v
  <2>2. \A x \in Events : Status'[x] = IF x \in {v} THEN "dropped"
                                       ELSE IF x = e THEN "pending" ELSE Status[x]
    BY <1>6, <1>8, <2>1 DEF v
  <2>3. Status' = [Status EXCEPT ![e] = "pending", ![v] = "dropped"]
    BY <2>1, <2>2 DEF Status
  <2>. QED
    BY <1>3, <1>4, <2>1, <2>3 DEF Contract!Submit, Status
<1>9. Full(queue) => queue # <<>>
  BY <1>2, QueueAssumption DEF Full
<1>. QED
  BY <1>5, <1>7, <1>8, <1>9 DEF Submit, Casualty

\* A group of accepted events is answered.
LEMMA ContractSettle ==
  ASSUME IInv, NEW items \in SUBSET Events, items # {}, items \subseteq Unresolved,
         NEW outcome \in Answers, Emit(items, outcome),
         UNCHANGED <<submitted, owed>>, PromiseOf' = PromiseOf
  PROVE  Contract!Settle(items, outcome)
<1>1. outcome \in Outcomes /\ outcome \in Contract!Settled
  BY DEF Answers, Outcomes, Contract!Settled
<1>2. \A x \in items : results[x] = <<>> /\ x \in Range(submitted)
  BY DEF Unresolved
<1>3. \A x \in Events : Status'[x] = IF x \in items THEN outcome ELSE Status[x]
  BY <1>1, <1>2, StatusEmitted
<1>4. Status' = [x \in Events |-> IF x \in items THEN outcome ELSE Status[x]]
  BY <1>3 DEF Status
<1>5. items \subseteq Contract!Pending
  BY StatusFacts
<1>. QED
  BY <1>1, <1>4, <1>5 DEF Contract!Settle, Status

\* flush() keeps its word because an idle adapter has nothing unresolved.
LEMMA ContractFlush ==
  ASSUME Counted, FlushInv, Mode = "single", CallFlush \/ ResumeFlush
  PROVE  \/ Contract!CallFlush \/ Contract!FlushReturns \/ Contract!FlushRejects
         \/ UNCHANGED <<Status, PromiseOf, owed>>
<1>1. UNCHANGED <<submitted, results>> /\ Status' = Status
  BY DEF CallFlush, ResumeFlush, Status, StatusOf
<1>2. Contract!Pending = Unresolved /\ (IsIdle => Unresolved = {})
  BY StatusFacts, IdleMeansSettled DEF Counted
<1>3. CASE CallFlush
  <2>1. /\ flushPc = "idle" /\ owed' = Unresolved
        /\ \/ flushPc' \in {"starting", "waiting"}
           \/ flushPc' = "done" /\ IsIdle
    BY <1>3 DEF CallFlush
  <2>2. /\ PromiseOf = "idle"
        /\ \/ PromiseOf' = "open"
           \/ PromiseOf' = "kept" /\ IsIdle
    BY <2>1 DEF PromiseOf
  <2>3. Contract!CallFlush
    BY <1>1, <1>2, <2>1, <2>2 DEF Contract!CallFlush, Status
  <2>. QED
    BY <2>3
<1>4. CASE ResumeFlush
  <2>1. /\ flushPc = "starting" /\ owed' = owed
        /\ \/ flushPc' \in {"rejected", "waiting"}
           \/ flushPc' = "done" /\ IsIdle
    BY <1>4 DEF ResumeFlush
  <2>2. /\ PromiseOf = "open"
        /\ \/ PromiseOf' \in {"broken", "open"}
           \/ PromiseOf' = "kept" /\ IsIdle
    BY <2>1 DEF PromiseOf
  <2>3. CASE PromiseOf' = "open"
    BY <1>1, <2>1, <2>2, <2>3
  <2>4. CASE PromiseOf' = "broken"
    BY <1>1, <2>1, <2>2, <2>4 DEF Contract!FlushRejects, Status
  <2>5. CASE PromiseOf' = "kept" /\ IsIdle
    BY <1>1, <1>2, <2>1, <2>2, <2>5 DEF Contract!FlushReturns, Status
  <2>. QED
    BY <2>2, <2>3, <2>4, <2>5
<1>. QED
  BY <1>3, <1>4

\* The last job wakes the flush.
LEMMA ContractRelease ==
  ASSUME Counted, Mode = "single", NEW k \in Events, Frees(k)
  PROVE  Contract!FlushReturns \/ UNCHANGED <<Status, PromiseOf, owed>>
<1>1. UNCHANGED <<submitted, results, owed>> /\ Status' = Status
  BY DEF Frees, Release, Status, StatusOf
<1>2. CASE flushPc' = flushPc
  BY <1>1, <1>2 DEF PromiseOf
<1>3. CASE flushPc' # flushPc
  <2>1. flushPc = "waiting" /\ flushPc' = "done" /\ IsIdle
    BY <1>3 DEF Frees, Release
  <2>2. PromiseOf = "open" /\ PromiseOf' = "kept"
    BY <2>1 DEF PromiseOf
  <2>3. Contract!Pending = {}
    BY <2>1, StatusFacts, IdleMeansSettled DEF Counted
  <2>. QED
    BY <1>1, <2>2, <2>3 DEF Contract!FlushReturns, Status
<1>. QED
  BY <1>2, <1>3

LEMMA ContractStep ==
  ASSUME Counted, FlushInv, Mode = "single", [Next]_vars
  PROVE  [Contract!Next]_<<Status, PromiseOf, owed>>
<1>0. IInv
  BY DEF Counted
<1>1. ASSUME NEW e \in Events, Submit(e)
      PROVE  Contract!Next
  BY <1>0, <1>1, ContractSubmit DEF Contract!Next
<1>2. CASE CallFlush \/ ResumeFlush
  BY <1>2, ContractFlush DEF Contract!Next
<1>3. CASE CallStart \/ SenderStarts \/ SenderStartFails \/ CallStop \/ ResumeStop
           \/ CloseSender \/ TimePasses \/ Terminated \/ UNCHANGED vars
  <2>1. UNCHANGED <<submitted, results, owed, flushPc>>
    BY <1>3 DEF CallStart, SenderStarts, SenderStartFails, CallStop, ResumeStop,
       CloseSender, TimePasses, Terminated, vars, adapterVars
  <2>. QED
    BY <2>1, Unseen DEF PromiseOf
<1>4. ASSUME NEW items \in SUBSET Events, items # {}, items \subseteq Unresolved,
             NEW outcome \in Answers, Emit(items, outcome),
             UNCHANGED <<submitted, owed, flushPc>>
      PROVE  Contract!Next
  <2>1. PromiseOf' = PromiseOf
    BY <1>4 DEF PromiseOf
  <2>2. Contract!Settle(items, outcome) /\ outcome \in Contract!Settled
    BY <1>0, <1>4, <2>1, ContractSettle DEF Contract!Settle
  <2>. QED
    BY <1>4, <2>2 DEF Contract!Next
<1>5. ASSUME NEW k \in Events, Job(k)
      PROVE  [Contract!Next]_<<Status, PromiseOf, owed>>
  <2>1. CASE Keeps(k)
    BY <2>1, Unseen DEF Keeps, jobFrame, PromiseOf
  <2>2. CASE Reports(k)
    <3>1. /\ job[k].items \in SUBSET Events /\ job[k].items # {}
          /\ job[k].items \subseteq Unresolved
      BY <1>0, <2>2 DEF Reports, IInv, Types, Jobs, JobShape, Custody, Open, InFlight
    <3>2. \E outcome \in Answers : Emit(job[k].items, outcome)
      BY <2>2 DEF Reports
    <3>3. UNCHANGED <<submitted, owed, flushPc>>
      BY <2>2 DEF Reports, jobFrame
    <3>. QED
      BY <1>4, <3>1, <3>2, <3>3
  <2>3. CASE Frees(k)
    BY <2>3, ContractRelease DEF Contract!Next
  <2>. QED
    BY <1>0, <1>5, <2>1, <2>2, <2>3, JobStep
<1>6. CASE SingleDispatch
  <2> DEFINE items == <<Head(queue)>>
  <2>1. queue # <<>> /\ Dispatch(items) /\ UNCHANGED <<submitted, owed, flushPc>>
    BY <1>6 DEF SingleDispatch
  <2>2. /\ Range(items) = {Head(queue)} /\ Head(queue) \in Range(queue)
        /\ Range(queue) \subseteq Unresolved /\ Range(queue) \subseteq Events
    BY <1>0, <2>1, TailDistinct DEF IInv, Types, Custody, Open, Waiting, Range
  <2> HIDE DEF items
  <2>3. \/ results' = results
        \/ Emit(Range(items), "circuit_open")
    BY <2>1 DEF Dispatch, Pass, Shed, Finish
  <2>4. CASE results' = results
    BY <2>1, <2>4, Unseen DEF PromiseOf
  <2>5. CASE Emit(Range(items), "circuit_open")
    BY <1>4, <2>1, <2>2, <2>5 DEF Answers
  <2>. QED
    BY <2>3, <2>4, <2>5
<1>7. CASE SingleTurn
  BY <1>7, Unseen DEF SingleTurn, PromiseOf
<1>8. CASE BatchTake \/ BatchWait \/ BatchDispatch
  BY <1>8 DEF BatchTake, BatchWait, BatchDispatch
<1>. QED
  BY <1>1, <1>2, <1>3, <1>5, <1>6, <1>7, <1>8 DEF Next, Client, Promises, Loop

\* The adapter implements the delivery contract for sequential senders: every
\* step is one the contract allows, or invisible to it
\* (contracts/delivery-adapter.ts:29-55).
THEOREM ImplementsContract == Mode = "single" => (Spec => KeepsContract)
<1>1. SUFFICES ASSUME Mode = "single" PROVE Spec => KeepsContract
  OBVIOUS
<1>2. Init => Contract!Init
  BY ContractInit
<1>3. Counted /\ FlushInv /\ [Next]_vars => [Contract!Next]_<<Status, PromiseOf, owed>>
  BY <1>1, ContractStep
<1>4. [Contract!Next]_<<Status, PromiseOf, owed>> => [Contract!Next]_(Contract!contractVars)
  BY DEF Contract!contractVars, Status
<1>5. Spec => []FlushInv
  <2>1. Init => FlushInv
    BY DEF Init, FlushInv, FlushDrains
  <2>2. Counted /\ FlushInv /\ [Next]_vars => FlushInv'
    BY <1>1, FlushStep
  <2>. QED
    BY <2>1, <2>2, CountersInvariant, PTL DEF Spec
<1>. QED
  BY <1>2, <1>3, <1>4, <1>5, CountersInvariant, PTL DEF Spec, KeepsContract, Contract!Spec
=============================================================================
