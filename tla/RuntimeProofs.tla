---------------------------- MODULE RuntimeProofs -----------------------------
(***************************************************************************)
(* The runtime's safety for any number of runs and events, provided that   *)
(* clients do not stop a run whose start() is under way; that the metrics  *)
(* registry tells of a run's results what they were, for any window,       *)
(* reservoir and number of them; and that the sagas it publishes are       *)
(* sound, for any pool and however many there are.                         *)
(***************************************************************************)
EXTENDS ScenarioRuntime, Metrics, Stream, SeqLemmas

-----------------------------------------------------------------------------
(* The inductive invariant, per run *)

\* Whatever is attached to the process is the active run's, and its position
\* in start() and doFinalize() says what may be attached.
Attached(r) ==
  /\ Live(r) => active = r
  /\ finishing = r <=> finisher[r] \in {"flushing", "stopping"}
  /\ starter[r] # "returned" =>
       finisher[r] = "idle" /\ ~timer[r] /\ (wired[r] <=> starter[r] = "awaiting")
  /\ starter[r] \in {"idle", "threw"} => active # r
  /\ finisher[r] = "done" => active # r
  /\ finisher[r] \in {"stopping", "done"} => ~wired[r]
  /\ finisher[r] # "idle" => ~timer[r]
  /\ timer[r] => wired[r] /\ status[r] \in {"running", "paused"}

\* Every event of the run is counted or still outstanding, and none is
\* outstanding at an adapter that nobody listens to.
Balanced(r) ==
  /\ generated[r] = accounted[r] + outstanding[r]
  /\ ~wired[r] \/ starter[r] # "returned" => outstanding[r] = 0

\* The store has a verdict only for a run that is over, and a summary only
\* together with it.
Stored(r) ==
  /\ up /\ row[r] \in Verdicts => finisher[r] = "done" \/ starter[r] = "threw"
  /\ summary[r] # NoSummary =>
       /\ finisher[r] = "done"
       /\ row[r] = summary[r].status
       /\ summary[r].generated = summary[r].accounted

Consistent == \A r \in Runs : Attached(r) /\ Balanced(r) /\ Stored(r)

IInv == TypeOK /\ Consistent

-----------------------------------------------------------------------------
LEMMA InitConsistent == Init => IInv
  BY RuntimeAssumption
  DEF Init, IInv, TypeOK, Consistent, Attached, Balanced, Stored, Live, Statuses,
      StarterPoints, FinisherPoints, Summaries, NoSummary, Verdicts

LEMMA StartStep ==
  ASSUME IInv, NEW r \in Runs, UNCHANGED up,
         Start(r) \/ StartReturns(r) \/ StartRejected(r) \/ StartThrows(r)
  PROVE  IInv'
<1> USE RuntimeAssumption
    DEF IInv, Consistent, Live, Verdicts, processVars, lifeVars, countVars, storeVars
<1>1. CASE Start(r)
  <2>1. TypeOK'
    BY <1>1, ZenonT(30) DEF Start, TypeOK, Statuses, StarterPoints
  <2>2. ASSUME NEW q \in Runs PROVE (Attached(q) /\ Balanced(q) /\ Stored(q))'
    BY <1>1 DEF Start, TypeOK, Attached, Balanced, Stored
  <2> QED BY <2>1, <2>2
<1>2. CASE StartReturns(r)
  <2>1. TypeOK'
    BY <1>2 DEF StartReturns, TypeOK, Statuses, StarterPoints, PersistOrThrow, Saved
  <2>2. ASSUME NEW q \in Runs PROVE (Attached(q) /\ Balanced(q) /\ Stored(q))'
    <3>1. (Attached(q) /\ Balanced(q))'
      BY <1>2 DEF StartReturns, TypeOK, Attached, Balanced
    <3>2. row'[q] \in {row[q], IF q = r THEN status'[r] ELSE row[q]}
      BY <1>2 DEF StartReturns, TypeOK, PersistOrThrow, Saved
    <3>3. CASE q = r
      <4>1. starter[r] # "returned" /\ summary'[r] = NoSummary
        BY <1>2 DEF StartReturns, TypeOK, Attached, Stored
      <4>2. row'[r] \in Verdicts => row[r] \in Verdicts \/ starter'[r] = "threw"
        BY <1>2, <3>2, <3>3 DEF StartReturns, TypeOK
      <4> QED BY <1>2, <3>1, <3>3, <4>1, <4>2 DEF StartReturns, TypeOK, Attached, Stored
    <3>4. CASE q # r
      BY <1>2, <3>1, <3>2, <3>4 DEF StartReturns, TypeOK, Stored
    <3> QED BY <3>3, <3>4
  <2> QED BY <2>1, <2>2
<1>3. CASE StartRejected(r)
  <2>1. TypeOK'
    BY <1>3 DEF StartRejected, TypeOK, StarterPoints, CloseAdapter
  <2>2. ASSUME NEW q \in Runs PROVE (Attached(q) /\ Balanced(q) /\ Stored(q))'
    BY <1>3 DEF StartRejected, TypeOK, Attached, Balanced, Stored, CloseAdapter
  <2> QED BY <2>1, <2>2
<1>4. CASE StartThrows(r)
  <2>1. TypeOK'
    BY <1>4 DEF StartThrows, TypeOK, Statuses, StarterPoints, PersistOrThrow, Saved
  <2>2. ASSUME NEW q \in Runs PROVE (Attached(q) /\ Balanced(q) /\ Stored(q))'
    <3>1. (Attached(q) /\ Balanced(q))'
      BY <1>4 DEF StartThrows, TypeOK, Attached, Balanced
    <3>2. row'[q] \in {row[q], IF q = r THEN status'[r] ELSE row[q]}
      BY <1>4 DEF StartThrows, TypeOK, PersistOrThrow, Saved
    <3>3. CASE q = r
      <4>1. starter[r] # "returned" /\ summary'[r] = NoSummary
        BY <1>4 DEF StartThrows, TypeOK, Attached, Stored
      <4>2. row'[r] \in Verdicts => row[r] \in Verdicts \/ starter'[r] = "threw"
        BY <1>4, <3>2, <3>3 DEF StartThrows, TypeOK
      <4> QED BY <1>4, <3>1, <3>3, <4>1, <4>2 DEF StartThrows, TypeOK, Attached, Stored
    <3>4. CASE q # r
      BY <1>4, <3>1, <3>2, <3>4 DEF StartThrows, TypeOK, Stored
    <3> QED BY <3>3, <3>4
  <2> QED BY <2>1, <2>2
<1> QED BY <1>1, <1>2, <1>3, <1>4

\* A tick, which publishes, may write the state back and may finish the run.
LEMMA TickStep ==
  ASSUME IInv, NEW r \in Runs, UNCHANGED up, Tick(r)
  PROVE  IInv'
<1> USE RuntimeAssumption
    DEF IInv, Consistent, Live, Verdicts, processVars, lifeVars, countVars, storeVars
<1>1. /\ starter[r] = "returned" /\ finisher[r] = "idle" /\ wired[r] /\ active = r
      /\ status[r] \in {"running", "paused"} /\ summary[r] = NoSummary
  BY DEF Tick, TypeOK, Attached, Stored, StarterPoints
<1>2. \A q \in Runs : wired[q] => q = r
  BY <1>1 DEF TypeOK, Attached
<1>3. PICK n \in Nat : n <= MaxEvents - generated[r] /\ Publish(r, n)
  <2>1. PICK n \in 0..(IF paused[r] THEN 0 ELSE MaxEvents - generated[r]) : Publish(r, n)
    BY DEF Tick
  <2>2. MaxEvents - generated[r] \in Nat
    BY DEF TypeOK
  <2> QED BY <2>1, <2>2
<1>4. /\ generated' = [generated EXCEPT ![r] = @ + n]
      /\ outstanding' = [outstanding EXCEPT ![r] = @ + n]
      /\ accounted' = accounted
  BY <1>1, <1>2, <1>3 DEF Publish, TypeOK
<1>5. \/ UNCHANGED <<finishing, timer, status, verdict, finisher>>
      \/ /\ finishing = None /\ finishing' = r
         /\ timer' = [timer EXCEPT ![r] = FALSE]
         /\ status' = [status EXCEPT ![r] = "stopping"]
         /\ verdict' \in [Runs -> Verdicts]
         /\ finisher' = [finisher EXCEPT ![r] = "flushing"]
  BY DEF Tick, Finish, TypeOK
<1>6. TypeOK'
  <2>1. row' \in [Runs -> {"none", "starting", "running", "paused"} \cup Verdicts]
    BY <1>1 DEF Tick, TypeOK
  <2>2. generated' \in [Runs -> 0..MaxEvents] /\ outstanding' \in [Runs -> Nat]
    BY <1>3, <1>4 DEF TypeOK
  <2>3. /\ finishing' \in Runs \cup {None} /\ timer' \in [Runs -> BOOLEAN]
        /\ verdict' \in [Runs -> Verdicts]
    BY <1>5 DEF TypeOK
  <2>4. status' \in [Runs -> Statuses] /\ finisher' \in [Runs -> FinisherPoints]
    BY <1>5 DEF TypeOK, Statuses, FinisherPoints
  <2>5. UNCHANGED <<active, lastSummary, paused, starter, wired, expired, adapterStop, summary>>
    BY DEF Tick
  <2> QED BY <1>4, <2>1, <2>2, <2>3, <2>4, <2>5 DEF TypeOK
<1>7. ASSUME NEW q \in Runs PROVE (Attached(q) /\ Balanced(q) /\ Stored(q))'
  <2>1. Attached(q)'
    BY <1>1, <1>5 DEF Tick, TypeOK, Attached
  <2>2. Balanced(q)'
    BY <1>1, <1>3, <1>4 DEF Tick, TypeOK, Balanced
  <2>3. row'[q] \in {row[q], IF q = r THEN status[r] ELSE row[q]}
    BY DEF Tick, TypeOK
  <2>4. CASE q = r
    <3>1. ~(up /\ row[r] \in Verdicts)
      BY <1>1 DEF Stored
    <3>2. up' = up /\ summary'[r] = NoSummary /\ row'[r] \in {row[r], status[r]}
      BY <1>1, <2>3, <2>4 DEF Tick
    <3>3. Stored(r)'
      BY <1>1, <3>1, <3>2 DEF Stored
    <3> QED BY <2>1, <2>2, <2>4, <3>3
  <2>5. CASE q # r
    <3>1. row'[q] = row[q] /\ summary' = summary /\ starter' = starter
      BY <2>3, <2>5 DEF Tick
    <3>2. finisher'[q] = finisher[q]
      BY <1>5, <2>5 DEF TypeOK
    <3>3. Stored(q)'
      BY <3>1, <3>2 DEF Stored
    <3> QED BY <2>1, <2>2, <3>3
  <2> QED BY <2>1, <2>2, <2>4, <2>5
<1> QED BY <1>6, <1>7

\* Results, pausing and resuming.
LEMMA ServiceStep ==
  ASSUME IInv, NEW r \in Runs, UNCHANGED up, Result(r) \/ Pause(r) \/ Resume(r)
  PROVE  IInv'
<1> USE RuntimeAssumption
    DEF IInv, Consistent, Live, Verdicts, processVars, lifeVars, countVars, storeVars
<1>1. CASE Result(r)
  <2>1. wired[r] /\ active = r
    BY <1>1 DEF Result, TypeOK, Balanced, Attached
  <2>2. /\ outstanding' = [outstanding EXCEPT ![r] = @ - 1]
        /\ accounted' = [accounted EXCEPT ![r] = @ + 1]
        /\ outstanding[r] - 1 \in Nat
    BY <1>1, <2>1 DEF Result, TypeOK
  <2>3. TypeOK'
    BY <1>1, <2>2 DEF Result, TypeOK
  <2>4. ASSUME NEW q \in Runs PROVE (Attached(q) /\ Balanced(q) /\ Stored(q))'
    <3>1. Attached(q)'
      BY <1>1, <2>1, <2>2 DEF Result, TypeOK, Attached
    <3>2. Balanced(q)'
      BY <1>1, <2>1, <2>2 DEF Result, TypeOK, Balanced, Attached
    <3>3. Stored(q)'
      BY <1>1, <2>1, <2>2 DEF Result, TypeOK, Stored, Attached
    <3> QED BY <3>1, <3>2, <3>3
  <2> QED BY <2>3, <2>4
<1>2. CASE Pause(r) \/ Resume(r)
  <2>1. /\ active = r /\ status[r] \in {"running", "paused"}
        /\ status' = [status EXCEPT ![r] = status'[r]]
        /\ status'[r] \in {"running", "paused"}
        /\ paused' \in [Runs -> BOOLEAN]
    BY <1>2 DEF Pause, Resume, TypeOK
  <2>2. /\ \A q \in Runs : row'[q] \in {row[q], IF q = r THEN status'[r] ELSE row[q]}
        /\ row' \in [Runs -> {"none", "starting", "running", "paused"} \cup Verdicts]
    BY <1>2, <2>1 DEF Pause, Resume, TypeOK, PersistOrThrow, Saved
  <2>3. UNCHANGED <<active, finishing, lastSummary, starter, finisher, verdict,
                    timer, wired, expired, adapterStop, countVars, summary>>
    BY <1>2 DEF Pause, Resume
  <2>4. TypeOK'
    <3>1. status' \in [Runs -> Statuses]
      BY <2>1 DEF TypeOK, Statuses
    <3> QED BY <2>1, <2>2, <2>3, <3>1 DEF TypeOK
  <2>5. ASSUME NEW q \in Runs PROVE (Attached(q) /\ Balanced(q) /\ Stored(q))'
    <3>1. (Attached(q) /\ Balanced(q))'
      BY <2>1, <2>3 DEF TypeOK, Attached, Balanced
    <3>2. CASE q = r
      BY <2>1, <2>2, <2>3, <3>1, <3>2 DEF TypeOK, Attached, Stored
    <3>3. CASE q # r
      BY <2>2, <2>3, <3>1, <3>3 DEF TypeOK, Stored
    <3> QED BY <3>2, <3>3
  <2> QED BY <2>4, <2>5
<1> QED BY <1>1, <1>2

\* stop() of a run whose start() has returned.
LEMMA StopStep ==
  ASSUME IInv, NEW r \in Runs, UNCHANGED up, Stop(r), StopWhileStarting = FALSE
  PROVE  IInv'
<1> USE RuntimeAssumption
    DEF IInv, Consistent, Live, Verdicts, processVars, lifeVars, countVars, storeVars
<1>1. active = r /\ starter[r] = "returned" /\ finisher[r] # "done"
  BY DEF Stop, TypeOK, Attached, StarterPoints
<1>2. CASE finishing = None
  <2>1. finisher[r] = "idle"
    BY <1>1, <1>2 DEF TypeOK, Attached, FinisherPoints
  <2>2. /\ finishing' = r
        /\ timer' = [timer EXCEPT ![r] = FALSE]
        /\ status' = [status EXCEPT ![r] = "stopping"]
        /\ verdict' = [verdict EXCEPT ![r] = "completed"]
        /\ finisher' = [finisher EXCEPT ![r] = "flushing"]
    BY <1>2 DEF Stop, Finish
  <2>3. TypeOK'
    BY <2>2 DEF Stop, TypeOK, Statuses, FinisherPoints
  <2>4. ASSUME NEW q \in Runs PROVE (Attached(q) /\ Balanced(q) /\ Stored(q))'
    <3>1. Attached(q)'
      BY <1>1, <1>2, <2>1, <2>2 DEF Stop, TypeOK, Attached
    <3>2. (Balanced(q) /\ Stored(q))'
      BY <1>1, <2>1, <2>2 DEF Stop, TypeOK, Balanced, Stored
    <3> QED BY <3>1, <3>2
  <2> QED BY <2>3, <2>4
<1>3. CASE finishing # None
  BY <1>3 DEF Stop, Finish, TypeOK, Attached, Balanced, Stored
<1> QED BY <1>2, <1>3

\* The later stretches of doFinalize().
LEMMA FinalizeStep ==
  ASSUME IInv, NEW r \in Runs, UNCHANGED up, Flushed(r) \/ Finalized(r)
  PROVE  IInv'
<1> USE RuntimeAssumption
    DEF IInv, Consistent, Live, Verdicts, processVars, lifeVars, countVars, storeVars
<1>1. CASE Flushed(r)
  <2>1. TypeOK'
    BY <1>1 DEF Flushed, CloseAdapter, TypeOK, FinisherPoints
  <2>2. ASSUME NEW q \in Runs PROVE (Attached(q) /\ Balanced(q) /\ Stored(q))'
    BY <1>1 DEF Flushed, TypeOK, Attached, Balanced, Stored
  <2> QED BY <2>1, <2>2
<1>2. CASE Finalized(r)
  <2>1. /\ active = r /\ finishing = r /\ ~timer[r] /\ ~wired[r]
        /\ starter[r] = "returned" /\ summary[r] = NoSummary
        /\ generated[r] = accounted[r]
    BY <1>2 DEF Finalized, TypeOK, Attached, Balanced, Stored
  <2>2. row' \in {row, [row EXCEPT ![r] = verdict[r]]}
    BY <1>2 DEF Finalized, StoreOutcome, Saved, TypeOK
  <2>3. \/ summary' = summary
        \/ /\ summary' = [summary EXCEPT ![r] = SummaryOf(r)]
           /\ row' = [row EXCEPT ![r] = verdict[r]]
    BY <1>2 DEF Finalized, StoreOutcome, Saved, TypeOK
  <2>4. SummaryOf(r) \in Summaries
    BY DEF SummaryOf, Summaries, TypeOK
  <2>5. TypeOK'
    BY <1>2, <2>2, <2>3, <2>4 DEF Finalized, TypeOK, Statuses, FinisherPoints
  <2>6. ASSUME NEW q \in Runs PROVE (Attached(q) /\ Balanced(q) /\ Stored(q))'
    <3>1. (Attached(q) /\ Balanced(q))'
      BY <1>2, <2>1 DEF Finalized, TypeOK, Attached, Balanced
    <3>2. CASE q = r
      BY <1>2, <2>1, <2>2, <2>3, <3>1, <3>2 DEF Finalized, TypeOK, Stored, SummaryOf
    <3>3. CASE q # r
      BY <1>2, <2>2, <2>3, <3>1, <3>3 DEF Finalized, TypeOK, Stored
    <3> QED BY <3>2, <3>3
  <2> QED BY <2>5, <2>6
<1> QED BY <1>1, <1>2

\* The adapter's stop, the clock and the death of the process.
LEMMA OtherStep ==
  ASSUME IInv,
         \/ \E r \in Runs : UNCHANGED up /\ (AdapterStops(r) \/ TimeUp(r))
         \/ Crash
         \/ UNCHANGED vars
  PROVE  IInv'
<1> USE RuntimeAssumption
    DEF IInv, Consistent, Live, Verdicts, processVars, lifeVars, countVars, storeVars
<1>1. CASE \E r \in Runs : UNCHANGED up /\ (AdapterStops(r) \/ TimeUp(r))
  <2>1. PICK r \in Runs : UNCHANGED up /\ (AdapterStops(r) \/ TimeUp(r))
    BY <1>1
  <2>2. TypeOK'
    BY <2>1 DEF AdapterStops, TimeUp, TypeOK
  <2>3. ASSUME NEW q \in Runs PROVE (Attached(q) /\ Balanced(q) /\ Stored(q))'
    BY <2>1 DEF AdapterStops, TimeUp, TypeOK, Attached, Balanced, Stored
  <2> QED BY <2>2, <2>3
<1>2. CASE Crash
  <2>1. TypeOK'
    BY <1>2 DEF Crash, TypeOK
  <2>2. ASSUME NEW q \in Runs PROVE (Attached(q) /\ Balanced(q) /\ Stored(q))'
    BY <1>2 DEF Crash, TypeOK, Attached, Balanced, Stored
  <2> QED BY <2>1, <2>2
<1>3. CASE UNCHANGED vars
  BY <1>3 DEF vars, TypeOK, Attached, Balanced, Stored
<1> QED BY <1>1, <1>2, <1>3

LEMMA NextConsistent ==
  ASSUME IInv, [Next]_vars, StopWhileStarting = FALSE
  PROVE  IInv'
<1>1. CASE \E r \in Runs : Step(r)
  <2>1. PICK r \in Runs : Step(r)
    BY <1>1
  <2>2. CASE Start(r) \/ StartReturns(r) \/ StartRejected(r) \/ StartThrows(r)
    BY <2>1, <2>2, StartStep DEF Step
  <2>3. CASE Tick(r)
    BY <2>1, <2>3, TickStep DEF Step
  <2>4. CASE Result(r) \/ Pause(r) \/ Resume(r)
    BY <2>1, <2>4, ServiceStep DEF Step
  <2>5. CASE Stop(r)
    BY <2>1, <2>5, StopStep DEF Step
  <2>6. CASE Flushed(r) \/ Finalized(r)
    BY <2>1, <2>6, FinalizeStep DEF Step
  <2>7. CASE AdapterStops(r) \/ TimeUp(r)
    BY <2>1, <2>7, OtherStep DEF Step
  <2> QED
    BY <2>1, <2>2, <2>3, <2>4, <2>5, <2>6, <2>7 DEF Step, Continuation, Adapter, Control
<1>2. CASE Crash \/ UNCHANGED vars
  BY <1>2, OtherStep
<1> QED BY <1>1, <1>2 DEF Next, Terminated

-----------------------------------------------------------------------------
(* The theorems, for clients that do not stop a run that is being started *)

\* The inductive invariant holds.
THEOREM RuntimeInvariant ==
  StopWhileStarting = FALSE => (Spec => []IInv)
<1> SUFFICES ASSUME StopWhileStarting = FALSE
             PROVE  Spec => []IInv
  OBVIOUS
<1>1. Init => IInv
  BY InitConsistent
<1>2. IInv /\ [Next]_vars => IInv'
  BY NextConsistent
<1> QED BY <1>1, <1>2, PTL DEF Spec

\* The variables keep their types: no intermediate status is ever stored.
THEOREM RuntimeTypes ==
  StopWhileStarting = FALSE => (Spec => []TypeOK)
<1> SUFFICES ASSUME StopWhileStarting = FALSE
             PROVE  Spec => []TypeOK
  OBVIOUS
<1>1. IInv => TypeOK
  BY DEF IInv
<1> QED BY <1>1, RuntimeInvariant, PTL

\* Whatever is attached to the process is the active run's, and so is the
\* finalization promise that is kept (scenario-runtime.ts:530-541, 737, 763-770).
THEOREM ActiveAlone ==
  StopWhileStarting = FALSE => (Spec => []OnlyActive)
<1> SUFFICES ASSUME StopWhileStarting = FALSE
             PROVE  Spec => []OnlyActive
  OBVIOUS
<1>1. IInv => LiveRunIsActive
  BY DEF IInv, Consistent, Attached, LiveRunIsActive
<1>2. IInv => FinishingIsActive
  BY DEF IInv, TypeOK, Consistent, Attached, Live, FinishingIsActive
<1>3. IInv => FinishingHalts
  BY DEF IInv, Consistent, Attached, FinishingHalts
<1>4. IInv => OnlyActive
  BY <1>1, <1>2, <1>3 DEF OnlyActive
<1> QED BY <1>4, RuntimeInvariant, PTL

\* The totals of a stored summary add up (scenario-runtime.ts:481-483).
THEOREM SummariesAdd ==
  StopWhileStarting = FALSE => (Spec => []TotalsAdd)
<1> SUFFICES ASSUME StopWhileStarting = FALSE
             PROVE  Spec => []TotalsAdd
  OBVIOUS
<1>1. IInv => TotalsAdd
  BY DEF IInv, Consistent, Stored, TotalsAdd
<1> QED BY <1>1, RuntimeInvariant, PTL

\* A stored summary and the stored status agree (scenario-runtime.ts:516-521).
THEOREM SummariesMatch ==
  StopWhileStarting = FALSE => (Spec => []SummaryMatchesRow)
<1> SUFFICES ASSUME StopWhileStarting = FALSE
             PROVE  Spec => []SummaryMatchesRow
  OBVIOUS
<1>1. IInv => SummaryMatchesRow
  BY DEF IInv, Consistent, Stored, SummaryMatchesRow
<1> QED BY <1>1, RuntimeInvariant, PTL

\* What is stored of a finished run agrees with itself and with its row.
THEOREM SummariesStayTrue ==
  StopWhileStarting = FALSE => (Spec => []SummariesTrue)
<1> SUFFICES ASSUME StopWhileStarting = FALSE
             PROVE  Spec => []SummariesTrue
  OBVIOUS
<1>1. IInv => SummariesTrue
  BY DEF IInv, Consistent, Stored, TotalsAdd, SummaryMatchesRow, SummariesTrue
<1> QED BY <1>1, RuntimeInvariant, PTL

\* Every write to the store is about a run that is not over.
LEMMA SettledStep ==
  ASSUME IInv, [Next]_vars, NEW q \in Runs, row[q] \in Verdicts
  PROVE  row'[q] = row[q]
<1> USE RuntimeAssumption DEF IInv, Consistent, Live, processVars, lifeVars, countVars, storeVars
<1>1. CASE up
  <2>1. finisher[q] = "done" \/ starter[q] = "threw"
    BY <1>1 DEF Stored
  <2>2. active # q /\ ~timer[q] /\ starter[q] \notin {"idle", "awaiting", "undoing"}
    BY <2>1 DEF TypeOK, Attached
  <2>3. finisher[q] \notin {"flushing", "stopping"}
    BY <2>1 DEF TypeOK, Attached
  <2>4. CASE \E r \in Runs : Step(r)
    <3>1. PICK r \in Runs : Step(r)
      BY <2>4
    <3>2. CASE Start(r) \/ StartReturns(r) \/ StartThrows(r)
      BY <2>2, <3>2 DEF Start, StartReturns, StartThrows, PersistOrThrow, Saved, TypeOK
    <3>3. CASE Pause(r) \/ Resume(r) \/ Tick(r)
      BY <2>2, <3>3 DEF Pause, Resume, Tick, PersistOrThrow, Saved, TypeOK
    <3>4. CASE Finalized(r)
      BY <2>3, <3>4 DEF Finalized, StoreOutcome, Saved, TypeOK
    <3>5. CASE StartRejected(r) \/ Result(r) \/ AdapterStops(r) \/ Stop(r) \/ TimeUp(r) \/ Flushed(r)
      BY <3>5 DEF StartRejected, Result, AdapterStops, Stop, TimeUp, Flushed
    <3> QED BY <3>1, <3>2, <3>3, <3>4, <3>5 DEF Step, Continuation, Adapter, Control
  <2>5. CASE Crash
    BY <2>3, <2>5 DEF Crash, TypeOK
  <2>6. CASE UNCHANGED vars
    BY <2>6 DEF vars
  <2> QED BY <2>4, <2>5, <2>6 DEF Next, Terminated
<1>2. CASE ~up
  BY <1>2 DEF Next, Step, Terminated, vars
<1> QED BY <1>1, <1>2

\* A settled row stays as it is (scenario-runtime.ts:162-173).
THEOREM RowsSettle ==
  StopWhileStarting = FALSE => (Spec => RowsStaySettled)
<1> SUFFICES ASSUME StopWhileStarting = FALSE
             PROVE  Spec => RowsStaySettled
  OBVIOUS
<1>1. IInv /\ [Next]_vars
        => [\A r \in Runs : row[r] \in Verdicts => row'[r] = row[r]]_vars
  BY SettledStep
<1> QED BY <1>1, RuntimeInvariant, PTL DEF Spec, RowsStaySettled

-----------------------------------------------------------------------------
(* The metrics: what buckets and reservoir tell of the results *)

Bucket == [sec : 0..Never, tally : [Classes -> Nat]]
At(class, t) == {r \in Of(class) : r.at = t}

MetricsTypes ==
  /\ second \in 0..MaxSecond /\ resultsLeft \in Nat /\ reported \in Seq(Results)
  /\ totals \in [Classes -> Nat] /\ buckets \in [0..(Width - 1) -> Bucket]
  /\ startSec \in 0..Never
  /\ latencies \in Seq(Nat) /\ observed \in Nat /\ largest \in Nat

\* A bucket that was used counts the results of its second, which shares its slot; and
\* every second of the window that saw a result still has its bucket.
BucketsTell ==
  /\ \A s \in 0..(Width - 1) : buckets[s].sec # Never =>
       /\ buckets[s].sec <= second /\ buckets[s].sec % Width = s
       /\ \A class \in Classes : buckets[s].tally[class] = Reported(At(class, buckets[s].sec))
  /\ \A i \in DOMAIN reported :
       /\ reported[i].at <= second
       /\ second < reported[i].at + Width => buckets[reported[i].at % Width].sec = reported[i].at

\* The window fills since the first result.
StartTells ==
  IF startSec = Never THEN reported = <<>>
  ELSE startSec <= second /\ \A i \in DOMAIN reported : reported[i].at >= startSec

\* The reservoir holds latencies of successes, in their order until it is full.
ReservoirTells ==
  /\ observed = Len(Successes)
  /\ Len(latencies) = (IF observed < Reservoir THEN observed ELSE Reservoir)
  /\ \A i \in DOMAIN latencies :
       latencies[i] <= largest /\ \E j \in DOMAIN Successes : Successes[j].latency = latencies[i]
  /\ observed <= Reservoir => \A i \in DOMAIN latencies : latencies[i] = Successes[i].latency

MetricsInv == MetricsTypes /\ TotalsAgree /\ BucketsTell /\ StartTells /\ ReservoirTells

\* What was reported is one more result, which counts for the sets it is in.
LEMMA ReportedMore ==
  ASSUME NEW x \in Results, reported \in Seq(Results), reported' = Append(reported, x), NEW some
  PROVE  /\ Reported(some) \in Nat
         /\ Reported(some)' = Reported(some) + (IF x \in some THEN 1 ELSE 0)
<1>1. Reported(some) = Cardinality(Among(reported, some))
  BY DEF Reported, Among
<1>2. Reported(some)' = Cardinality(Among(Append(reported, x), some))
  BY DEF Reported, Among
<1>. QED
  BY <1>1, <1>2, CountAppend

\* Every outcome is of one class.
LEMMA ClassExists ==
  ASSUME NEW outcome
  PROVE  /\ Class(outcome) \in Classes
         /\ Class(outcome) = "delivered" <=> outcome \in {"delivered", "retried"}
BY DEF Class, Classes

\* The seconds are numbers, and Never is none of them.
LEMMA SecondsCount ==
  ASSUME MetricsAssumption, MetricsTypes
  PROVE  /\ Width \in Nat \ {0} /\ Reservoir \in Nat \ {0} /\ second \in Nat /\ second < Never
         /\ Never \in Nat /\ MaxSecond \in Nat
         /\ startSec \in Nat /\ (second % Width) \in 0..(Width - 1)
         /\ \A s \in 0..(Width - 1) : buckets[s].sec \in Nat /\ buckets[s].tally \in [Classes -> Nat]
         /\ \A r \in Results : r.at \in Nat /\ r.latency \in Nat
         /\ Len(reported) \in Nat /\ DOMAIN reported = 1..Len(reported)
         /\ \A i \in DOMAIN reported : reported[i] \in Results
<1>1. Width \in Nat \ {0} /\ Reservoir \in Nat \ {0} /\ MaxSecond \in Nat /\ Latencies \subseteq Nat
  BY DEF MetricsAssumption
<1>2. second \in Nat /\ second < Never /\ Never \in Nat /\ startSec \in Nat
  BY <1>1 DEF MetricsTypes, Never
<1>3. second % Width \in 0..(Width - 1)
  BY <1>1, <1>2, SlotExists
<1>4. \A s \in 0..(Width - 1) : buckets[s].sec \in Nat /\ buckets[s].tally \in [Classes -> Nat]
  BY <1>2 DEF MetricsTypes, Bucket
<1>5. \A r \in Results : r.at \in Nat /\ r.latency \in Nat
  <2> TAKE r \in Results
  <2>1. r.at \in 0..MaxSecond /\ r.latency \in Latencies
    BY DEF Results
  <2>2. r.at \in Nat
    BY <1>1, <2>1
  <2>3. r.latency \in Nat
    BY <1>1, <2>1
  <2>. QED
    BY <2>2, <2>3
<1>6. /\ Len(reported) \in Nat /\ DOMAIN reported = 1..Len(reported)
      /\ \A i \in DOMAIN reported : reported[i] \in Results
  BY DEF MetricsTypes
<1>. QED
  BY <1>1, <1>2, <1>3, <1>4, <1>5, <1>6

\* The buckets in the window share out its results among their slots.
LEMMA WindowTells ==
  ASSUME MetricsAssumption, MetricsTypes, BucketsTell, NEW class \in Classes
  PROVE  Aggregate(class) = Reported({r \in Of(class) : second < r.at + Width})
<1>0. /\ Width \in Nat \ {0} /\ second \in Nat /\ second < Never /\ Never \in Nat
      /\ \A s \in 0..(Width - 1) : buckets[s].sec \in Nat /\ buckets[s].tally \in [Classes -> Nat]
      /\ \A r \in Results : r.at \in Nat
      /\ Len(reported) \in Nat /\ DOMAIN reported = 1..Len(reported)
      /\ \A i \in DOMAIN reported : reported[i] \in Results
  BY SecondsCount
<1> DEFINE S == {i \in DOMAIN reported : reported[i] \in {r \in Of(class) : second < r.at + Width}}
           D == 0..(Width - 1)
           g == [i \in S |-> reported[i].at % Width]
<1>1. IsFiniteSet(S) /\ IsFiniteSet(D)
  <2>0. 1 \in Int /\ Len(reported) \in Int /\ DOMAIN reported = 1..Len(reported)
    BY <1>0
  <2>4. IsFiniteSet(1..Len(reported))
    BY <2>0, FS_Interval
  <2>5. S \in SUBSET DOMAIN reported
    OBVIOUS
  <2>1. IsFiniteSet(DOMAIN reported) /\ S \in SUBSET DOMAIN reported
    BY <2>0, <2>4, <2>5
  <2>2. 0 \in Int /\ Width - 1 \in Int
    BY <1>0
  <2>3. IsFiniteSet(D)
    BY <2>2, FS_Interval
  <2>. QED
    BY <2>1, <2>3, FS_Subset
<1>2. \A i \in S : /\ reported[i].at \in Nat /\ reported[i].at % Width \in D
                   /\ reported[i].at <= second /\ second < reported[i].at + Width
                   /\ buckets[reported[i].at % Width].sec = reported[i].at
  <2> TAKE i \in S
  <2>1. reported[i].at \in Nat /\ second < reported[i].at + Width
    BY <1>0
  <2>. QED
    BY <1>0, <2>1, SlotExists DEF BucketsTell
<1>3. g \in [S -> D]
  BY <1>2
<1>4. ASSUME NEW s \in D
      PROVE  (IF InWindow(buckets[s]) THEN buckets[s].tally[class] ELSE 0)
               = Cardinality({i \in S : g[i] = s})
  <2>1. CASE InWindow(buckets[s])
    <3> DEFINE t == buckets[s].sec
    <3>1. /\ t \in Nat /\ t # Never /\ t <= second /\ second < t + Width /\ t % Width = s
          /\ buckets[s].tally[class] = Reported(At(class, t))
      BY <1>0, <2>1 DEF InWindow, BucketsTell
    <3>2. {i \in S : g[i] = s} = {i \in DOMAIN reported : reported[i] \in At(class, t)}
      <4>1. ASSUME NEW i \in S, g[i] = s PROVE reported[i] \in At(class, t)
        BY <1>2, <4>1 DEF At
      <4>2. ASSUME NEW i \in DOMAIN reported, reported[i] \in At(class, t) PROVE i \in S /\ g[i] = s
        BY <3>1, <4>2 DEF At
      <4>. QED
        BY <4>1, <4>2
    <3>. QED
      BY <2>1, <3>1, <3>2 DEF Reported
  <2>2. CASE ~InWindow(buckets[s])
    <3>1. {i \in S : g[i] = s} = {}
      BY <1>2, <2>2 DEF InWindow
    <3>. QED
      BY <2>2, <3>1, FS_EmptySet
  <2>. QED
    BY <2>1, <2>2
<1>5. Aggregate(class) = SumFunction([s \in D |-> Cardinality({i \in S : g[i] = s})])
  <2> DEFINE f == [s \in D |-> IF InWindow(buckets[s]) THEN buckets[s].tally[class] ELSE 0]
             h == [s \in D |-> Cardinality({i \in S : g[i] = s})]
  <2>1. Aggregate(class) = SumFunction(f)
    <3>1. DOMAIN buckets = D
      BY DEF MetricsTypes
    <3>. QED
      BY <3>1 DEF Aggregate
  <2>2. f = h
    <3> HIDE DEF g, S
    <3>. QED
      BY <1>4
  <2>. QED
    BY <2>1, <2>2
<1> HIDE DEF S, D, g
<1>6. SumFunction([s \in D |-> Cardinality({i \in S : g[i] = s})]) = Cardinality(S)
  BY <1>1, <1>3, CountByKinds
<1>. QED
  BY <1>5, <1>6 DEF S, Reported

LEMMA WindowHolds ==
  ASSUME MetricsAssumption, MetricsTypes, BucketsTell, StartTells
  PROVE  WindowExact
<1>1. \A class \in {"delivered", "failed"} :
        Aggregate(class) = Reported({r \in Of(class) : second < r.at + Width})
  BY WindowTells DEF Classes
<1>2. startSec # Never => RpsDivisor \in 1..Width
  <2>1. Width \in Nat \ {0} /\ second \in Nat /\ startSec \in Nat
    BY SecondsCount
  <2>. QED
    BY <2>1 DEF StartTells, RpsDivisor
<1>. QED
  BY <1>1, <1>2 DEF WindowExact, StartTells

\* The reservoir can be put in order.
LEMMA SortedTells ==
  ASSUME latencies \in Seq(Nat)
  PROVE  \E p \in Bijection(DOMAIN latencies, DOMAIN latencies) :
           /\ Ascending(p) /\ DOMAIN p = DOMAIN latencies
           /\ Sorted = [i \in DOMAIN latencies |-> latencies[p[i]]]
<1>1. /\ Len(latencies) \in Nat /\ DOMAIN latencies = 1..Len(latencies)
      /\ Cardinality(DOMAIN latencies) = Len(latencies)
  <2>1. Len(latencies) \in Nat /\ DOMAIN latencies = 1..Len(latencies)
    OBVIOUS
  <2>2. Cardinality(1..Len(latencies)) = Len(latencies)
    <3> DEFINE n == Len(latencies)
    <3>1. 1 \in Int /\ n \in Int /\ n \in Nat
      BY <2>1
    <3> HIDE DEF n
    <3>2. Cardinality(1..n) = IF 1 > n THEN 0 ELSE n - 1 + 1
      BY <3>1, FS_Interval
    <3>. QED
      BY <3>1, <3>2 DEF n
  <2>. QED
    BY <2>1, <2>2
<1>2. \E p \in Bijection(1..Cardinality(DOMAIN latencies), DOMAIN latencies) :
        \A i, j \in DOMAIN p : i < j => latencies[p[i]] <= latencies[p[j]]
  BY Arranged
<1>3. \E p \in Bijection(DOMAIN latencies, DOMAIN latencies) : Ascending(p)
  BY <1>1, <1>2 DEF Ascending
<1> DEFINE p == CHOOSE p \in Bijection(DOMAIN latencies, DOMAIN latencies) : Ascending(p)
<1>4. p \in Bijection(DOMAIN latencies, DOMAIN latencies) /\ Ascending(p)
  BY <1>3
<1>5. Sorted = [i \in DOMAIN latencies |-> latencies[p[i]]]
  BY DEF Sorted
<1> HIDE DEF p
<1>6. DOMAIN p = DOMAIN latencies
  BY <1>4 DEF Bijection, Injection
<1>. QED
  BY <1>4, <1>5, <1>6

\* A rank is a place of the reservoir, the first one far enough.
LEMMA RankTells ==
  ASSUME Len(latencies) \in Nat \ {0}, NEW q \in {50, 95, 99}
  PROVE  /\ Rank(q) \in 1..Len(latencies)
         /\ q * Len(latencies) <= 100 * Rank(q) /\ 100 * (Rank(q) - 1) < q * Len(latencies)
         /\ Rank(50) <= Rank(95) /\ Rank(95) <= Rank(99)
<1> DEFINE n == Len(latencies)
<1>1. n \in Nat /\ n >= 1
  OBVIOUS
<1> HIDE DEF n
<1>2. Rank(50) \in 1..n /\ 50 * n <= 100 * Rank(50) /\ 100 * (Rank(50) - 1) < 50 * n
  BY <1>1, SMTT(30) DEF Rank, n
<1>3. Rank(95) \in 1..n /\ 95 * n <= 100 * Rank(95) /\ 100 * (Rank(95) - 1) < 95 * n
  BY <1>1, SMTT(30) DEF Rank, n
<1>4. Rank(99) \in 1..n /\ 99 * n <= 100 * Rank(99) /\ 100 * (Rank(99) - 1) < 99 * n
  BY <1>1, SMTT(30) DEF Rank, n
<1>5. Rank(50) <= Rank(95)
  <2>1. 50 * n <= 95 * n /\ Rank(50) \in Int /\ Rank(95) \in Int
    BY <1>1, <1>2, <1>3
  <2>. QED
    BY <1>1, <1>2, <1>3, <2>1
<1>6. Rank(95) <= Rank(99)
  <2>1. 95 * n <= 99 * n /\ Rank(95) \in Int /\ Rank(99) \in Int
    BY <1>1, <1>3, <1>4
  <2>. QED
    BY <1>1, <1>3, <1>4, <2>1
<1>. QED
  BY <1>2, <1>3, <1>4, <1>5, <1>6 DEF n

\* The places up to a rank hold what is no larger; what is smaller lies before it.
LEMMA PlacesTell ==
  ASSUME latencies \in Seq(Nat), NEW r \in 1..Len(latencies)
  PROVE  /\ Cardinality({i \in DOMAIN latencies : latencies[i] <= Sorted[r]}) >= r
         /\ Cardinality({i \in DOMAIN latencies : latencies[i] < Sorted[r]}) <= r - 1
<1> DEFINE n == Len(latencies)
           v == Sorted[r]
           B == {i \in DOMAIN latencies : latencies[i] <= v}
           C == {i \in DOMAIN latencies : latencies[i] < v}
<1>1. /\ n \in Nat /\ DOMAIN latencies = 1..n /\ r \in 1..n /\ r - 1 \in Nat
      /\ \A i \in 1..n : latencies[i] \in Nat
  OBVIOUS
<1>0. n \in Nat /\ r \in Nat /\ 1 <= r /\ r <= n
  BY <1>1
<1>2. PICK p \in Bijection(1..n, 1..n) :
        /\ Ascending(p) /\ DOMAIN p = 1..n /\ Sorted = [i \in 1..n |-> latencies[p[i]]]
  BY <1>1, SortedTells
<1>3. /\ p \in [1..n -> 1..n] /\ \A i, j \in 1..n : p[i] = p[j] => i = j
      /\ \A k \in 1..n : \E i \in 1..n : p[i] = k
  BY <1>2 DEF Bijection, Injection, Surjection, IsInjective
<1>4. v = latencies[p[r]] /\ v \in Nat
  BY <1>1, <1>2, <1>3
<1> HIDE DEF n, v
<1>5. IsFiniteSet(B) /\ IsFiniteSet(C) /\ IsFiniteSet(1..(r - 1)) /\ Cardinality(1..r) = r
      /\ Cardinality(1..(r - 1)) = r - 1 /\ IsFiniteSet(1..r)
  <2>0. 1 \in Int /\ n \in Int /\ r \in Int /\ r - 1 \in Int
    BY <1>0
  <2>1. IsFiniteSet(1..n) /\ B \in SUBSET (1..n) /\ C \in SUBSET (1..n)
    <3>1. IsFiniteSet(1..n)
      BY <2>0, FS_Interval
    <3>. QED
      BY <1>1, <3>1
  <2>2. /\ IsFiniteSet(1..r) /\ Cardinality(1..r) = r
        /\ IsFiniteSet(1..(r - 1)) /\ Cardinality(1..(r - 1)) = r - 1
    <3>1. IsFiniteSet(1..r) /\ Cardinality(1..r) = IF 1 > r THEN 0 ELSE r - 1 + 1
      BY <2>0, FS_Interval
    <3>2. /\ IsFiniteSet(1..(r - 1))
          /\ Cardinality(1..(r - 1)) = IF 1 > r - 1 THEN 0 ELSE r - 1 - 1 + 1
      BY <2>0, FS_Interval
    <3>. QED
      BY <1>0, <3>1, <3>2
  <2>. QED
    BY <2>1, <2>2, FS_Subset
<1>6. Cardinality(B) >= r
  <2> DEFINE f == [i \in 1..r |-> p[i]]
  <2>1. \A i \in 1..r : p[i] \in B
    <3> TAKE i \in 1..r
    <3>0. i \in 1..n /\ i \in Nat
      BY <1>0
    <3>1. p[i] \in 1..n /\ latencies[p[i]] \in Nat
      BY <1>1, <1>3, <3>0
    <3>2. i = r \/ i < r
      BY <1>0, <3>0
    <3>3. latencies[p[i]] <= v
      <4>1. CASE i = r
        BY <1>4, <3>1, <4>1
      <4>2. CASE i < r
        <5>1. i \in DOMAIN p /\ r \in DOMAIN p
          BY <1>1, <1>2, <3>0
        <5>. QED
          BY <1>2, <1>4, <4>2, <5>1 DEF Ascending
      <4>. QED
        BY <3>2, <4>1, <4>2
    <3>. QED
      BY <1>1, <3>1, <3>3
  <2>2. \A i, j \in 1..r : p[i] = p[j] => i = j
    <3>1. \A i \in 1..r : i \in 1..n
      BY <1>0
    <3>. QED
      BY <1>3, <3>1
  <2>3. f \in Injection(1..r, B)
    BY <2>1, <2>2 DEF Injection, IsInjective
  <2> HIDE DEF f, B
  <2>4. Cardinality(1..r) <= Cardinality(B)
    BY <1>5, <2>3, FS_Injection
  <2>5. Cardinality(B) \in Nat
    BY <1>5, FS_CardinalityType
  <2>. QED
    BY <1>1, <1>5, <2>4, <2>5
<1>7. Cardinality(C) <= r - 1
  <2> DEFINE E == {p[i] : i \in 1..(r - 1)}
             f == [i \in 1..(r - 1) |-> p[i]]
  <2>1. f \in Surjection(1..(r - 1), E)
    BY DEF Surjection
  <2>2. IsFiniteSet(E) /\ Cardinality(E) <= r - 1
    <3> HIDE DEF f, E
    <3>. QED
      BY <1>5, <2>1, FS_Surjection
  <2>3. C \in SUBSET E
    <3> SUFFICES ASSUME NEW k \in C PROVE k \in E
      OBVIOUS
    <3>1. k \in 1..n /\ latencies[k] < v
      BY <1>1
    <3>2. PICK i \in 1..n : p[i] = k
      BY <1>3, <3>1
    <3>3. ~(i >= r)
      <4> SUFFICES ASSUME i >= r PROVE FALSE
        OBVIOUS
      <4>1. latencies[p[r]] <= latencies[p[i]]
        <5>1. CASE i = r
          <6>1. p[r] \in 1..n /\ latencies[p[r]] \in Nat
            BY <1>1, <1>3
          <6>. QED
            BY <5>1, <6>1
        <5>2. CASE r < i
          BY <1>1, <1>2, <5>2 DEF Ascending
        <5>. QED
          BY <1>1, <5>1, <5>2
      <4>. QED
        BY <1>1, <1>4, <3>1, <3>2, <4>1
    <3>4. i \in 1..(r - 1)
      BY <1>1, <3>3
    <3>. QED
      BY <3>2, <3>4
  <2> HIDE DEF C, E
  <2>4. Cardinality(C) <= Cardinality(E)
    BY <2>2, <2>3, FS_Subset
  <2>5. Cardinality(C) \in Nat /\ Cardinality(E) \in Nat
    BY <1>5, <2>2, FS_CardinalityType
  <2>. QED
    BY <1>1, <2>2, <2>4, <2>5
<1>. QED
  BY <1>6, <1>7 DEF v

LEMMA LatencyHolds ==
  ASSUME MetricsTypes, ReservoirTells
  PROVE  LatencyTrue
<1> DEFINE n == Len(latencies)
<1>1. /\ latencies \in Seq(Nat) /\ n \in Nat /\ DOMAIN latencies = 1..n /\ largest \in Nat
      /\ \A i \in 1..n : latencies[i] \in Nat /\ latencies[i] <= largest
  BY DEF MetricsTypes, ReservoirTells
<1>2. Range(latencies) \subseteq {Successes[i].latency : i \in DOMAIN Successes}
  BY DEF ReservoirTells, Range
<1>3. ASSUME n # 0
      PROVE  /\ \A q \in {50, 95, 99} : NearestRank(q) = Sorted[Rank(q)] /\ Rank(q) \in 1..n
             /\ Rank(50) <= Rank(95) /\ Rank(95) <= Rank(99)
  <2>1. Len(latencies) \in Nat \ {0} /\ latencies # <<>>
    BY <1>1, <1>3
  <2>2. \A q \in {50, 95, 99} : Rank(q) \in 1..n /\ Rank(50) <= Rank(95) /\ Rank(95) <= Rank(99)
    BY <2>1, RankTells
  <2>3. \A q \in {50, 95, 99} : Rank(q) # 0
    BY <2>2
  <2>. QED
    BY <2>1, <2>2, <2>3 DEF NearestRank
<1>4. /\ NearestRank(50) <= NearestRank(95) /\ NearestRank(95) <= NearestRank(99)
      /\ NearestRank(99) <= largest
  <2>1. CASE n = 0
    <3>1. latencies = <<>>
      BY <1>1, <2>1
    <3>. QED
      BY <1>1, <3>1 DEF NearestRank
  <2>2. CASE n # 0
    <3>1. PICK p \in Bijection(DOMAIN latencies, DOMAIN latencies) :
            /\ Ascending(p) /\ DOMAIN p = DOMAIN latencies
            /\ Sorted = [i \in DOMAIN latencies |-> latencies[p[i]]]
      BY <1>1, SortedTells
    <3>2. p \in [1..n -> 1..n]
      BY <1>1, <3>1 DEF Bijection, Injection
    <3> HIDE DEF n
    <3>3. \A i \in 1..n : Sorted[i] = latencies[p[i]] /\ Sorted[i] \in Nat /\ Sorted[i] <= largest
      BY <1>1, <3>1, <3>2
    <3>4. \A i, j \in 1..n : i <= j => Sorted[i] <= Sorted[j]
      <4> TAKE i, j \in 1..n
      <4>1. CASE i = j
        BY <3>3, <4>1
      <4>2. CASE i < j
        BY <1>1, <3>1, <3>3, <4>2 DEF Ascending
      <4>. QED
        BY <1>1, <4>1, <4>2
    <3>5. NearestRank(50) = Sorted[Rank(50)] /\ Rank(50) \in 1..n
      BY <1>3, <2>2
    <3>6. NearestRank(95) = Sorted[Rank(95)] /\ Rank(95) \in 1..n
      BY <1>3, <2>2
    <3>7. NearestRank(99) = Sorted[Rank(99)] /\ Rank(99) \in 1..n
      BY <1>3, <2>2
    <3>8. Rank(50) <= Rank(95) /\ Rank(95) <= Rank(99)
      BY <1>3, <2>2
    <3>. QED
      BY <3>3, <3>4, <3>5, <3>6, <3>7, <3>8
  <2>. QED
    BY <2>1, <2>2
<1>5. ASSUME 0 < observed, observed <= Reservoir, NEW q \in {50, 95, 99}
      PROVE  /\ 100 * NoLarger(NearestRank(q)) >= q * observed
             /\ 100 * Below(NearestRank(q)) < q * observed
  <2>1. observed = n /\ n # 0 /\ DOMAIN Successes = 1..n
        /\ \A i \in 1..n : latencies[i] = Successes[i].latency
    <3>1. observed \in Nat /\ observed = Len(Successes) /\ n = observed
          /\ \A i \in 1..n : latencies[i] = Successes[i].latency
      <4>1. observed \in Nat
        BY DEF MetricsTypes
      <4>2. /\ observed = Len(Successes)
            /\ n = (IF observed < Reservoir THEN observed ELSE Reservoir)
            /\ \A i \in DOMAIN latencies : latencies[i] = Successes[i].latency
        BY <1>5 DEF ReservoirTells
      <4>3. n = observed
        BY <1>1, <1>5, <4>1, <4>2
      <4>. QED
        BY <1>1, <4>1, <4>2, <4>3
    <3>2. Successes \in Seq(Results)
      BY SelectedElements DEF Successes, MetricsTypes
    <3>. QED
      BY <1>5, <3>1, <3>2
  <2> DEFINE r == Rank(q)
             v == Sorted[r]
  <2>2. NearestRank(q) = v /\ r \in 1..n
    BY <1>3, <2>1
  <2>3. /\ Cardinality({i \in DOMAIN latencies : latencies[i] <= v}) >= r
        /\ Cardinality({i \in DOMAIN latencies : latencies[i] < v}) <= r - 1
    BY <1>1, <2>2, PlacesTell
  <2>4. /\ {i \in DOMAIN latencies : latencies[i] <= v} = {i \in DOMAIN Successes : Successes[i].latency <= v}
        /\ {i \in DOMAIN latencies : latencies[i] < v} = {i \in DOMAIN Successes : Successes[i].latency < v}
    BY <1>1, <2>1
  <2>5. NoLarger(v) >= r /\ Below(v) <= r - 1
    BY <2>3, <2>4 DEF NoLarger, Below
  <2>6. NoLarger(v) \in Nat /\ Below(v) \in Nat
    <3>1. IsFiniteSet(1..n)
      BY <1>1, FS_Interval
    <3>2. /\ {i \in DOMAIN Successes : Successes[i].latency <= v} \in SUBSET (1..n)
          /\ {i \in DOMAIN Successes : Successes[i].latency < v} \in SUBSET (1..n)
      BY <2>1
    <3>. QED
      BY <3>1, <3>2, FS_Subset, FS_CardinalityType DEF NoLarger, Below
  <2>7. q * n <= 100 * r /\ 100 * (r - 1) < q * n
    BY <1>1, <2>1, RankTells
  <2>8. r \in Nat /\ q * n \in Nat /\ n \in Nat
    BY <1>1, <2>2, SMTT(30)
  <2> HIDE DEF r, v, n
  <2>. QED
    BY <2>1, <2>2, <2>5, <2>6, <2>7, <2>8
<1>6. observed = Len(Successes)
  BY DEF ReservoirTells
<1>. QED
  BY <1>2, <1>4, <1>5, <1>6 DEF LatencyTrue

-----------------------------------------------------------------------------
(* The metrics: every step *)

LEMMA MetricsInitial ==
  ASSUME MetricsAssumption, MetricsInit
  PROVE  MetricsInv
<1>1. /\ MaxSecond \in Nat /\ MaxResults \in Nat /\ Never \in Nat /\ 0 \in 0..MaxSecond
      /\ Reservoir \in Nat /\ Reservoir > 0
  BY DEF MetricsAssumption, Never
<1>2. Zero \in [Classes -> Nat] /\ \A class \in Classes : Zero[class] = 0
  BY DEF Zero
<1>3. NoBucket \in Bucket /\ NoBucket.sec = Never
  BY <1>1, <1>2 DEF NoBucket, Bucket
<1>4. <<>> \in Seq(Results) /\ <<>> \in Seq(Nat) /\ Len(<<>>) = 0 /\ DOMAIN <<>> = {}
  OBVIOUS
<1>5. MetricsTypes
  <2>1. buckets \in [0..(Width - 1) -> Bucket]
    BY <1>3 DEF MetricsInit
  <2>2. startSec \in 0..Never
    BY <1>1 DEF MetricsInit
  <2>. QED
    BY <1>1, <1>2, <1>4, <2>1, <2>2 DEF MetricsInit, MetricsTypes
<1>6. \A some : Reported(some) = 0
  <2>1. \A some : {i \in DOMAIN reported : reported[i] \in some} = {}
    BY <1>4 DEF MetricsInit
  <2>. QED
    BY <2>1, FS_EmptySet DEF Reported
<1>7. TotalsAgree
  BY <1>2, <1>6 DEF TotalsAgree, MetricsInit
<1>8. BucketsTell
  BY <1>3, <1>4 DEF BucketsTell, MetricsInit
<1>9. StartTells
  BY DEF StartTells, MetricsInit
<1>10. ReservoirTells
  <2>1. Successes \in Seq(Results) /\ ToSet(Successes) = {}
    <3>1. ToSet(reported) = {}
      BY <1>4 DEF ToSet, MetricsInit
    <3>. QED
      BY <1>5, <3>1, SelectedElements DEF Successes, MetricsTypes
  <2>2. Successes = <<>>
    <3>1. Range(Successes) = {}
      BY <2>1 DEF ToSet, Range
    <3>. QED
      BY <2>1, <3>1, EmptyRange
  <2>. QED
    BY <1>1, <1>4, <2>2 DEF ReservoirTells, MetricsInit
<1>. QED
  BY <1>5, <1>7, <1>8, <1>9, <1>10 DEF MetricsInv

\* A tally with one more of a class.
LEMMA OneMoreCounts ==
  ASSUME NEW t \in [Classes -> Nat], NEW class \in Classes
  PROVE  /\ OneMore(t, class) \in [Classes -> Nat]
         /\ \A c \in Classes : OneMore(t, class)[c] = t[c] + (IF c = class THEN 1 ELSE 0)
BY DEF OneMore

\* A result, as it is reported.
LEMMA ReportParts ==
  ASSUME MetricsAssumption, MetricsTypes, NEW outcome \in Outcomes, NEW latency \in Latencies
  PROVE  LET x == [outcome |-> outcome, at |-> second, latency |-> latency]
         IN  /\ x \in Results /\ x.at = second /\ x.latency = latency /\ latency \in Nat
             /\ \A c \in Classes : x \in Of(c) <=> c = Class(outcome)
             /\ \A c \in Classes, t \in Nat : x \in At(c, t) <=> c = Class(outcome) /\ t = second
<1> DEFINE x == [outcome |-> outcome, at |-> second, latency |-> latency]
<1>1. x \in Results /\ x.at = second /\ x.latency = latency /\ x.outcome = outcome
  BY DEF Results, MetricsTypes
<1>2. latency \in Nat
  BY DEF MetricsAssumption
<1> HIDE DEF x
<1>3. \A c \in Classes : x \in Of(c) <=> c = Class(outcome)
  BY <1>1 DEF Of
<1>4. \A c \in Classes, t \in Nat : x \in At(c, t) <=> c = Class(outcome) /\ t = second
  BY <1>1, <1>3 DEF At
<1>. QED
  BY <1>1, <1>2, <1>3, <1>4 DEF x

\* The bucket of this second holds what was reported in it.
LEMMA CurrentTells ==
  ASSUME MetricsAssumption, MetricsTypes, BucketsTell, NEW class \in Classes
  PROVE  /\ Current(second % Width) \in [Classes -> Nat]
         /\ Current(second % Width)[class] = Reported(At(class, second))
<1> DEFINE slot == second % Width
<1>1. /\ slot \in 0..(Width - 1) /\ Width \in Nat \ {0} /\ second \in Nat /\ second < Never /\ Never \in Nat
      /\ buckets[slot].tally \in [Classes -> Nat]
  BY SecondsCount
<1>2. Zero \in [Classes -> Nat] /\ Zero[class] = 0
  BY DEF Zero
<1> HIDE DEF slot
<1>3. CASE buckets[slot].sec = second
  <2>1. buckets[slot].sec # Never
    BY <1>1, <1>3
  <2>. QED
    BY <1>1, <1>3, <2>1 DEF BucketsTell, Current, slot
<1>4. CASE buckets[slot].sec # second
  <2>1. {i \in DOMAIN reported : reported[i] \in At(class, second)} = {}
    <3> SUFFICES ASSUME NEW i \in DOMAIN reported, reported[i] \in At(class, second)
                 PROVE  FALSE
      OBVIOUS
    <3>1. reported[i].at = second /\ second < second + Width
      BY <1>1 DEF At
    <3>. QED
      BY <1>4, <3>1 DEF BucketsTell, slot
  <2>2. Reported(At(class, second)) = 0
    BY <2>1, FS_EmptySet DEF Reported
  <2>. QED
    BY <1>2, <1>4, <2>2 DEF Current, slot
<1>. QED
  BY <1>3, <1>4 DEF slot

LEMMA ReportBuckets ==
  ASSUME MetricsAssumption, MetricsInv, NEW outcome \in Outcomes, NEW latency \in Latencies,
         Report(outcome, latency)
  PROVE  /\ reported' \in Seq(Results) /\ totals' \in [Classes -> Nat]
         /\ buckets' \in [0..(Width - 1) -> Bucket]
         /\ TotalsAgree' /\ BucketsTell' /\ StartTells'
<1> DEFINE slot == second % Width
           class == Class(outcome)
           x == [outcome |-> outcome, at |-> second, latency |-> latency]
           tally == OneMore(Current(slot), class)
<1>1. /\ slot \in 0..(Width - 1) /\ Width \in Nat \ {0} /\ second \in Nat /\ second < Never /\ Never \in Nat
      /\ startSec \in Nat /\ \A s \in 0..(Width - 1) : buckets[s].sec \in Nat
      /\ \A r \in Results : r.at \in Nat
      /\ Len(reported) \in Nat /\ DOMAIN reported = 1..Len(reported)
      /\ \A i \in DOMAIN reported : reported[i] \in Results
  BY SecondsCount DEF MetricsInv
<1>2. /\ totals' = OneMore(totals, class) /\ counters' = OneMore(counters, class)
      /\ buckets' = [buckets EXCEPT ![slot] = [sec |-> second, tally |-> tally]]
      /\ startSec' = (IF startSec = Never THEN second ELSE startSec)
      /\ reported' = Append(reported, x) /\ second' = second
  BY DEF Report
<1>3. /\ x \in Results /\ x.at = second /\ class \in Classes
      /\ \A c \in Classes : x \in Of(c) <=> c = class
      /\ \A c \in Classes, t \in Nat : x \in At(c, t) <=> c = class /\ t = second
  BY ReportParts, ClassExists DEF MetricsInv
<1> HIDE DEF x, class, slot
<1>4. /\ tally \in [Classes -> Nat]
      /\ \A c \in Classes : tally[c] = Reported(At(c, second)) + (IF c = class THEN 1 ELSE 0)
  <2>1. \A c \in Classes : /\ Current(slot) \in [Classes -> Nat]
                           /\ Current(slot)[c] = Reported(At(c, second))
    BY CurrentTells DEF MetricsInv, slot
  <2>. QED
    BY <1>3, <2>1, OneMoreCounts
<1> HIDE DEF tally
<1>5. \A some : /\ Reported(some) \in Nat
                /\ Reported(some)' = Reported(some) + (IF x \in some THEN 1 ELSE 0)
  BY <1>2, <1>3, ReportedMore DEF MetricsInv, MetricsTypes
<1>T. ASSUME NEW c \in Classes, NEW t \in Nat
      PROVE  /\ Reported(At(c, t)) \in Nat
             /\ Cardinality(Among(reported', At(c, t))) =
                  Reported(At(c, t)) + (IF c = class /\ t = second THEN 1 ELSE 0)
  <2>1. Reported(At(c, t)) = Cardinality(Among(reported, At(c, t)))
    BY DEF Reported, Among
  <2>2. x \in At(c, t) <=> c = class /\ t = second
    BY <1>3
  <2>3. reported \in Seq(Results)
    BY DEF MetricsInv, MetricsTypes
  <2> DEFINE T == At(c, t)
  <2>4. x \in Results /\ reported' = Append(reported, x)
    BY <1>2, <1>3
  <2> HIDE DEF T
  <2>5. /\ Cardinality(Among(reported, T)) \in Nat
        /\ Cardinality(Among(Append(reported, x), T)) =
             Cardinality(Among(reported, T)) + (IF x \in T THEN 1 ELSE 0)
    BY <2>3, <2>4, CountAppend
  <2>. QED
    BY <2>1, <2>2, <2>4, <2>5 DEF T
<1>6. /\ reported' \in Seq(Results) /\ Len(reported') = Len(reported) + 1
      /\ DOMAIN reported' = 1..(Len(reported) + 1) /\ reported'[Len(reported) + 1] = x
      /\ \A i \in DOMAIN reported : reported'[i] = reported[i]
  BY <1>2, <1>3 DEF MetricsInv, MetricsTypes
<1>7. totals' \in [Classes -> Nat] /\ TotalsAgree'
  <2>1. totals \in [Classes -> Nat] /\ totals = counters /\ \A c \in Classes : totals[c] = Reported(Of(c))
    BY DEF MetricsInv, MetricsTypes, TotalsAgree
  <2>2. /\ totals' \in [Classes -> Nat]
        /\ \A c \in Classes : totals'[c] = totals[c] + (IF c = class THEN 1 ELSE 0)
    BY <1>2, <1>3, <2>1, OneMoreCounts
  <2>3. \A c \in Classes : Reported(Of(c))' = Reported(Of(c)) + (IF c = class THEN 1 ELSE 0)
    BY <1>3, <1>5
  <2>4. totals' = counters'
    BY <1>2, <2>1
  <2>. QED
    BY <2>1, <2>2, <2>3, <2>4 DEF TotalsAgree
<1>8. /\ buckets' \in [0..(Width - 1) -> Bucket] /\ buckets'[slot].sec = second
      /\ buckets'[slot].tally = tally
      /\ \A s \in 0..(Width - 1) : s # slot => buckets'[s] = buckets[s]
  <2>1. [sec |-> second, tally |-> tally] \in Bucket
    BY <1>1, <1>4 DEF Bucket
  <2>. QED
    BY <1>1, <1>2, <2>1 DEF MetricsInv, MetricsTypes
<1>9. BucketsTell'
  <2>1. ASSUME NEW s \in 0..(Width - 1), buckets'[s].sec # Never
        PROVE  /\ buckets'[s].sec <= second' /\ buckets'[s].sec % Width = s
               /\ \A c \in Classes :
                    buckets'[s].tally[c] = Cardinality(Among(reported', At(c, buckets'[s].sec)))
    <3>1. CASE s = slot
      <4>1. \A c \in Classes : Cardinality(Among(reported', At(c, second))) = tally[c]
        BY <1>1, <1>4, <1>T
      <4>. QED
        BY <1>1, <1>2, <1>8, <3>1, <4>1 DEF slot
    <3>2. CASE s # slot
      <4> DEFINE t == buckets[s].sec
      <4>1. /\ t \in Nat /\ t # Never /\ t <= second /\ t % Width = s /\ buckets'[s] = buckets[s]
            /\ \A c \in Classes : buckets[s].tally[c] = Reported(At(c, t))
        <5>1. t \in Nat /\ buckets'[s] = buckets[s] /\ t # Never
          BY <1>1, <1>8, <2>1, <3>2
        <5>. QED
          BY <5>1 DEF MetricsInv, BucketsTell
      <4>2. t # second
        BY <3>2, <4>1 DEF slot
      <4>3. \A c \in Classes : Cardinality(Among(reported', At(c, t))) = Reported(At(c, t))
        <5> HIDE DEF t
        <5>. QED
          BY <1>T, <4>1, <4>2
      <4>. QED
        BY <1>2, <4>1, <4>3
    <3>. QED
      BY <3>1, <3>2
  <2>2. ASSUME NEW i \in DOMAIN reported'
        PROVE  /\ reported'[i].at <= second'
               /\ second' < reported'[i].at + Width => buckets'[reported'[i].at % Width].sec = reported'[i].at
    <3>1. CASE i \in DOMAIN reported
      <4> DEFINE t == reported[i].at
      <4>1. /\ t \in Nat /\ t <= second /\ reported'[i].at = t
            /\ second < t + Width => buckets[t % Width].sec = t
        BY <1>1, <1>6, <3>1 DEF MetricsInv, BucketsTell
      <4> HIDE DEF t
      <4>2. t % Width \in 0..(Width - 1)
        BY <1>1, <4>1, SlotExists
      <4>3. ASSUME second < t + Width
            PROVE  buckets'[t % Width].sec = t
        <5>1. CASE t = second
          BY <1>8, <5>1 DEF slot
        <5>2. CASE t < second
          <6>1. t % Width # slot
            BY <1>1, <4>1, <4>3, <5>2, SlotsApart DEF slot
          <6>. QED
            BY <1>8, <4>1, <4>2, <4>3, <6>1
        <5>. QED
          BY <1>1, <4>1, <5>1, <5>2
      <4>. QED
        BY <1>2, <4>1, <4>3
    <3>2. CASE i = Len(reported) + 1
      BY <1>1, <1>2, <1>3, <1>6, <1>8, <3>2 DEF slot
    <3>. QED
      BY <1>1, <1>6, <3>1, <3>2
  <2>. QED
    BY <2>1, <2>2 DEF BucketsTell, Reported, Among, At
<1>10. StartTells'
  <2>1. \A i \in DOMAIN reported' :
          \/ i \in DOMAIN reported /\ reported'[i] = reported[i] /\ reported[i].at \in Nat
          \/ reported'[i].at = second
    BY <1>1, <1>3, <1>6
  <2>2. CASE startSec = Never
    <3>1. reported = <<>>
      BY <2>2 DEF MetricsInv, StartTells
    <3>2. \A i \in DOMAIN reported' : reported'[i].at = second
      BY <2>1, <3>1
    <3>. QED
      BY <1>1, <1>2, <2>2, <3>2 DEF StartTells
  <2>3. CASE startSec # Never
    <3>1. startSec <= second /\ \A i \in DOMAIN reported : reported[i].at >= startSec
      BY <2>3 DEF MetricsInv, StartTells
    <3>2. startSec' = startSec
      BY <1>2, <2>3
    <3>. QED
      BY <1>1, <1>2, <2>1, <2>3, <3>1, <3>2 DEF StartTells
  <2>. QED
    BY <2>2, <2>3
<1>. QED
  BY <1>6, <1>7, <1>8, <1>9, <1>10

LEMMA ReportReservoir ==
  ASSUME MetricsAssumption, MetricsInv, NEW outcome \in Outcomes, NEW latency \in Latencies,
         Report(outcome, latency)
  PROVE  /\ latencies' \in Seq(Nat) /\ observed' \in Nat /\ largest' \in Nat
         /\ ReservoirTells'
<1> DEFINE x == [outcome |-> outcome, at |-> second, latency |-> latency]
           D == Of("delivered")
           more == Successes'
<1>1. /\ reported \in Seq(Results) /\ reported' = Append(reported, x)
      /\ latencies \in Seq(Nat) /\ observed \in Nat /\ largest \in Nat
      /\ Reservoir \in Nat /\ Reservoir > 0
  BY DEF Report, MetricsInv, MetricsTypes, MetricsAssumption
<1>2. /\ x \in Results /\ x.latency = latency /\ latency \in Nat
      /\ x \in D <=> Class(outcome) = "delivered"
  BY ReportParts DEF MetricsInv, Classes
<1> HIDE DEF x
<1>3. more = Selected(Append(reported, x), D)
  BY <1>1 DEF Successes
<1>4. Successes \in Seq(Results)
  BY <1>1, SelectedElements DEF Successes
<1>5. /\ observed = Len(Successes) /\ DOMAIN Successes = 1..observed
      /\ Len(latencies) = (IF observed < Reservoir THEN observed ELSE Reservoir)
      /\ DOMAIN latencies = 1..Len(latencies) /\ Len(latencies) \in Nat
      /\ \A i \in DOMAIN latencies :
           /\ latencies[i] \in Nat /\ latencies[i] <= largest
           /\ \E j \in DOMAIN Successes : Successes[j].latency = latencies[i]
      /\ observed <= Reservoir => \A i \in DOMAIN latencies : latencies[i] = Successes[i].latency
  BY <1>1, <1>4 DEF MetricsInv, ReservoirTells
<1>6. CASE Class(outcome) = "delivered"
  <2>1. more = Append(Successes, x)
    BY <1>1, <1>2, <1>3, <1>6, SelectedAppend DEF Successes
  <2>2. /\ Len(more) = observed + 1 /\ DOMAIN more = 1..(observed + 1)
        /\ more[observed + 1].latency = latency
        /\ \A i \in 1..observed : more[i] = Successes[i]
    BY <1>1, <1>2, <1>4, <1>5, <2>1
  <2> HIDE DEF more, D
  <2>3. /\ observed' = observed + 1
        /\ largest' = IF latency > largest THEN latency ELSE largest
        /\ IF Len(latencies) < Reservoir
             THEN latencies' = Append(latencies, latency)
             ELSE \E j \in 1..(observed + 1) :
                    latencies' = IF j <= Reservoir THEN [latencies EXCEPT ![j] = latency] ELSE latencies
    BY <1>6 DEF Report, Observe
  <2>4. /\ largest' \in Nat /\ observed' \in Nat /\ latency <= largest' /\ largest <= largest'
    BY <1>1, <1>2, <2>3
  <2>5. /\ \A i \in DOMAIN latencies : latencies[i] <= largest'
        /\ \A i \in DOMAIN latencies : \E j \in DOMAIN more : more[j].latency = latencies[i]
        /\ \E j \in DOMAIN more : more[j].latency = latency
    <3>1. \A i \in DOMAIN latencies : latencies[i] <= largest'
      BY <1>1, <1>5, <2>4
    <3>2. ASSUME NEW i \in DOMAIN latencies
          PROVE  \E j \in DOMAIN more : more[j].latency = latencies[i]
      <4>1. PICK j \in 1..observed : Successes[j].latency = latencies[i]
        BY <1>5
      <4>. QED
        BY <1>1, <2>2, <4>1
    <3>3. observed + 1 \in DOMAIN more
      BY <1>1, <2>2
    <3>. QED
      BY <2>2, <3>1, <3>2, <3>3
  <2>6. CASE Len(latencies) < Reservoir
    <3>1. observed < Reservoir /\ Len(latencies) = observed
      BY <1>1, <1>5, <2>6
    <3>2. /\ latencies' = Append(latencies, latency) /\ latencies' \in Seq(Nat)
          /\ Len(latencies') = observed + 1 /\ DOMAIN latencies' = 1..(observed + 1)
          /\ latencies'[observed + 1] = latency
          /\ \A i \in 1..observed : latencies'[i] = latencies[i]
      <4>1. latencies' = Append(latencies, latency)
        BY <2>3, <2>6
      <4>. QED
        BY <1>1, <1>2, <3>1, <4>1
    <3>3. \A i \in 1..(observed + 1) : i \in 1..observed \/ i = observed + 1
      BY <1>1
    <3>4. Len(latencies') = (IF observed' < Reservoir THEN observed' ELSE Reservoir)
      BY <1>1, <2>3, <3>1, <3>2
    <3>5. \A i \in DOMAIN latencies' :
            latencies'[i] <= largest' /\ \E j \in DOMAIN more : more[j].latency = latencies'[i]
      BY <1>5, <2>4, <2>5, <3>1, <3>2, <3>3
    <3>6. \A i \in DOMAIN latencies' : latencies'[i] = more[i].latency
      BY <1>1, <1>5, <2>2, <3>1, <3>2, <3>3
    <3>. QED
      BY <2>2, <2>3, <2>4, <3>2, <3>4, <3>5, <3>6 DEF ReservoirTells, more
  <2>7. CASE ~(Len(latencies) < Reservoir)
    <3>1. observed >= Reservoir /\ Len(latencies) = Reservoir
      BY <1>1, <1>5, <2>7
    <3>2. PICK j \in 1..(observed + 1) :
            latencies' = IF j <= Reservoir THEN [latencies EXCEPT ![j] = latency] ELSE latencies
      BY <2>3, <2>7
    <3>3. /\ latencies' \in Seq(Nat) /\ DOMAIN latencies' = DOMAIN latencies
          /\ Len(latencies') = Reservoir
          /\ \A i \in DOMAIN latencies : latencies'[i] = latencies[i] \/ latencies'[i] = latency
      <4>1. CASE j <= Reservoir
        <5>1. latencies' = [latencies EXCEPT ![j] = latency]
          BY <3>2, <4>1
        <5>2. latencies \in [1..Reservoir -> Nat]
          BY <1>1, <3>1
        <5>3. latencies' \in [1..Reservoir -> Nat]
          BY <1>2, <5>1, <5>2
        <5>4. latencies' \in Seq(Nat) /\ Len(latencies') = Reservoir
          BY <1>1, <5>3
        <5>. QED
          BY <5>1, <5>2, <5>3, <5>4
      <4>2. CASE ~(j <= Reservoir)
        BY <1>1, <3>1, <3>2, <4>2
      <4>. QED
        BY <4>1, <4>2
    <3>4. Len(latencies') = (IF observed' < Reservoir THEN observed' ELSE Reservoir)
      BY <1>1, <2>3, <3>1, <3>3
    <3>5. \A i \in DOMAIN latencies' :
            latencies'[i] <= largest' /\ \E k \in DOMAIN more : more[k].latency = latencies'[i]
      BY <2>4, <2>5, <3>3
    <3>6. ~(observed' <= Reservoir)
      BY <1>1, <2>3, <3>1
    <3>. QED
      BY <2>2, <2>3, <2>4, <3>3, <3>4, <3>5, <3>6 DEF ReservoirTells, more
  <2>. QED
    BY <2>6, <2>7
<1>7. CASE Class(outcome) # "delivered"
  <2>1. more = Successes
    BY <1>1, <1>2, <1>3, <1>7, SelectedAppend DEF Successes
  <2>2. latencies' = latencies /\ observed' = observed /\ largest' = largest
    BY <1>7 DEF Report
  <2> HIDE DEF more
  <2>. QED
    BY <1>1, <1>5, <2>1, <2>2 DEF ReservoirTells, more
<1>. QED
  BY <1>6, <1>7

\* A run that starts resets all of it.
LEMMA ResetKeeps ==
  ASSUME MetricsAssumption, MetricsInv, Reset
  PROVE  MetricsInv'
<1>1. /\ MaxSecond \in Nat /\ Never \in Nat /\ Reservoir \in Nat /\ Reservoir > 0
  BY DEF MetricsAssumption, Never
<1>2. Zero \in [Classes -> Nat] /\ \A class \in Classes : Zero[class] = 0
  BY DEF Zero
<1>3. NoBucket \in Bucket /\ NoBucket.sec = Never
  BY <1>1, <1>2 DEF NoBucket, Bucket
<1>4. <<>> \in Seq(Results) /\ <<>> \in Seq(Nat) /\ Len(<<>>) = 0 /\ DOMAIN <<>> = {}
  OBVIOUS
<1>5. MetricsTypes'
  <2>1. buckets' \in [0..(Width - 1) -> Bucket]
    BY <1>3 DEF Reset
  <2>2. startSec' \in 0..Never
    BY <1>1 DEF Reset
  <2>. QED
    BY <1>1, <1>2, <1>4, <2>1, <2>2 DEF Reset, MetricsTypes, MetricsInv
<1>6. TotalsAgree'
  <2>1. \A class \in Classes : {i \in DOMAIN reported' : reported'[i] \in Of(class)} = {}
    BY <1>4 DEF Reset
  <2>. QED
    BY <1>2, <2>1, FS_EmptySet DEF TotalsAgree, Reset, Reported
<1>7. BucketsTell'
  BY <1>3, <1>4 DEF BucketsTell, Reset
<1>8. StartTells'
  BY DEF StartTells, Reset
<1>9. ReservoirTells'
  <2>1. Selected(<<>>, Of("delivered")) = <<>>
    <3>1. ToSet(<<>>) = {}
      BY <1>4 DEF ToSet
    <3>2. /\ Selected(<<>>, Of("delivered")) \in Seq(Results)
          /\ ToSet(Selected(<<>>, Of("delivered"))) = {}
      <4> DEFINE e == <<>>
      <4>1. e \in Seq(Results) /\ ToSet(e) = {}
        BY <1>4, <3>1
      <4> HIDE DEF e
      <4>2. /\ Selected(e, Of("delivered")) \in Seq(Results)
            /\ ToSet(Selected(e, Of("delivered"))) = ToSet(e) \cap Of("delivered")
        BY <4>1, SelectedElements
      <4>. QED
        BY <4>1, <4>2 DEF e
    <3>3. Range(Selected(<<>>, Of("delivered"))) = {}
      BY <3>2 DEF ToSet, Range
    <3>. QED
      BY <3>2, <3>3, EmptyRange
  <2>2. Successes' = <<>>
    BY <2>1 DEF Successes, Reset
  <2>. QED
    BY <1>1, <1>4, <2>2 DEF ReservoirTells, Reset
<1>. QED
  BY <1>5, <1>6, <1>7, <1>8, <1>9 DEF MetricsInv

\* A second passes: results leave the window, nothing else is told.
LEMMA SecondKeeps ==
  ASSUME MetricsAssumption, MetricsInv, Second
  PROVE  MetricsInv'
<1>1. /\ Width \in Nat \ {0} /\ second \in Nat /\ startSec \in Nat /\ MaxSecond \in Nat
      /\ \A s \in 0..(Width - 1) : buckets[s].sec \in Nat
      /\ \A i \in DOMAIN reported : reported[i].at \in Nat
  BY SecondsCount DEF MetricsInv
<1>2. /\ second < MaxSecond /\ second' = second + 1 /\ totals' = totals /\ buckets' = buckets
      /\ startSec' = startSec /\ latencies' = latencies /\ observed' = observed
      /\ largest' = largest /\ counters' = counters /\ reported' = reported
      /\ resultsLeft' = resultsLeft
  BY DEF Second
<1>3. MetricsTypes'
  <2>1. second' \in 0..MaxSecond
    BY <1>1, <1>2
  <2>. QED
    BY <1>2, <2>1 DEF MetricsInv, MetricsTypes
<1>4. TotalsAgree'
  BY <1>2 DEF MetricsInv, TotalsAgree, Reported
<1>5. BucketsTell'
  <2>1. \A s \in 0..(Width - 1) : buckets[s].sec # Never =>
          /\ buckets[s].sec <= second + 1 /\ buckets[s].sec % Width = s
          /\ \A class \in Classes : buckets[s].tally[class] = Reported(At(class, buckets[s].sec))
    BY <1>1 DEF MetricsInv, BucketsTell
  <2>2. \A i \in DOMAIN reported :
          /\ reported[i].at <= second + 1
          /\ second + 1 < reported[i].at + Width =>
               buckets[reported[i].at % Width].sec = reported[i].at
    <3> TAKE i \in DOMAIN reported
    <3>1. second + 1 < reported[i].at + Width => second < reported[i].at + Width
      BY <1>1
    <3>. QED
      BY <1>1, <3>1 DEF MetricsInv, BucketsTell
  <2>. QED
    BY <1>2, <2>1, <2>2 DEF BucketsTell, Reported, At
<1>6. StartTells'
  BY <1>1, <1>2 DEF MetricsInv, StartTells
<1>7. ReservoirTells'
  BY <1>2 DEF MetricsInv, ReservoirTells, Successes
<1>. QED
  BY <1>3, <1>4, <1>5, <1>6, <1>7 DEF MetricsInv

LEMMA MetricsStep ==
  ASSUME MetricsAssumption, MetricsInv, [MetricsNext]_metricVars
  PROVE  MetricsInv'
<1>1. ASSUME NEW outcome \in Outcomes, NEW latency \in Latencies, Report(outcome, latency)
      PROVE  MetricsInv'
  <2>1. /\ reported' \in Seq(Results) /\ totals' \in [Classes -> Nat]
        /\ buckets' \in [0..(Width - 1) -> Bucket]
        /\ TotalsAgree' /\ BucketsTell' /\ StartTells'
    BY <1>1, ReportBuckets
  <2>2. /\ latencies' \in Seq(Nat) /\ observed' \in Nat /\ largest' \in Nat
        /\ ReservoirTells'
    BY <1>1, ReportReservoir
  <2>3. resultsLeft' \in Nat /\ second' \in 0..MaxSecond /\ startSec' \in 0..Never
    <3>1. second \in 0..MaxSecond /\ startSec \in 0..Never /\ resultsLeft \in Nat /\ MaxSecond \in Nat
      BY DEF MetricsInv, MetricsTypes, MetricsAssumption
    <3>2. second \in 0..Never
      BY <3>1 DEF Never
    <3>. QED
      BY <1>1, <3>1, <3>2 DEF Report
  <2>. QED
    BY <2>1, <2>2, <2>3 DEF MetricsInv, MetricsTypes
<1>2. CASE UNCHANGED metricVars
  <2>1. /\ second' = second /\ totals' = totals /\ buckets' = buckets
        /\ startSec' = startSec /\ latencies' = latencies /\ observed' = observed
        /\ largest' = largest /\ counters' = counters /\ reported' = reported
        /\ resultsLeft' = resultsLeft
    BY <1>2 DEF metricVars
  <2>2. MetricsTypes'
    BY <2>1 DEF MetricsInv, MetricsTypes
  <2>3. TotalsAgree'
    BY <2>1 DEF MetricsInv, TotalsAgree, Reported
  <2>4. BucketsTell'
    BY <2>1 DEF MetricsInv, BucketsTell, Reported, At
  <2>5. StartTells'
    BY <2>1 DEF MetricsInv, StartTells
  <2>6. ReservoirTells'
    BY <2>1 DEF MetricsInv, ReservoirTells, Successes
  <2>. QED
    BY <2>2, <2>3, <2>4, <2>5, <2>6 DEF MetricsInv
<1>. QED
  BY <1>1, <1>2, ResetKeeps, SecondKeeps DEF MetricsNext

\* The frame's totals, window and percentiles are those of the results reported,
\* whichever slots and reservoir places they share (infra/metrics.ts,
\* rate-window.ts:58-106, histogram.ts:58-106).
THEOREM MetricsTrueHolds == MetricsAssumption /\ MetricsSpec => []MetricsTrue
<1> SUFFICES ASSUME MetricsAssumption
             PROVE  MetricsSpec => []MetricsTrue
  OBVIOUS
<1>1. MetricsInit => MetricsInv
  BY MetricsInitial
<1>2. MetricsInv /\ [MetricsNext]_metricVars => MetricsInv'
  BY MetricsStep
<1>3. MetricsInv => MetricsTrue
  BY WindowHolds, LatencyHolds DEF MetricsInv, MetricsTrue
<1>. QED
  BY <1>1, <1>2, <1>3, PTL DEF MetricsSpec

-----------------------------------------------------------------------------
(* Stream: what is published, saga after saga *)

\* An entitlement that was there, or was minted, by the event of that number.
Known(e, m) == e \in Seeded \/ \E c \in 0..m, n \in Nat : e = <<c, n>>

\* What one step of the saga of that number says.
Fit(s, m) ==
  Mutating(s.kind) =>
    /\ Affected(s) \in People
    /\ \/ s.ent = Nil
       \/ OperationOf(s.kind) = "grant" /\ \E n \in Nat : s.ent = <<m, n>>
       \/ OperationOf(s.kind) = "revoke" /\ Known(s.ent, m)

\* Two steps of a saga do not contradict or repeat each other.
Agree(s, t) ==
  /\ Mutating(s.kind) /\ Mutating(t.kind) /\ s.ent = Nil /\ t.ent = Nil =>
       OperationOf(s.kind) # OperationOf(t.kind)
  /\ OperationOf(s.kind) \in {"grant", "revoke"} /\ OperationOf(t.kind) = "grant" /\ s.ent # Nil =>
       s.ent # t.ent
  /\ ~(s.kind = "mfa.failure" /\ t.kind = "session.start")

\* A request, an approval and what is provisioned on it.
Approved(request, approval, provision) ==
  /\ approval.kind = "access.approve" /\ Affected(approval) = Affected(request)
  /\ Affected(provision) = Affected(request) /\ provision.ent = request.ent
Provided(s, t) == s.kind = "access.request" /\ t.kind = "access.provision"

\* The steps of a saga that may be published with that number.
Good(steps, m) ==
  /\ steps \in Seq(Range(steps)) /\ steps # <<>>
  /\ \A a \in DOMAIN steps : Fit(steps[a], m) /\ (a # 1 => steps[a].cause \in 0..(a - 2))
  /\ \A a, b \in DOMAIN steps : a # b => Agree(steps[a], steps[b])
  /\ \A a, b \in DOMAIN steps : Provided(steps[a], steps[b]) =>
       b # 1 /\ Approved(steps[a], steps[steps[b].cause + 1], steps[b])

\* A stream of such sagas.
StreamSound(list) ==
  /\ list \in Seq(Range(list))
  /\ \A i \in DOMAIN list :
       /\ list[i].corr \in 1..i /\ list[i].key = KeyFor(list[i].draft, i, list[i].corr)
       /\ Fit(list[i].draft, list[i].corr)
       /\ \/ list[i].cause = Nil /\ list[i].corr = i
          \/ list[i].cause \in 1..(i - 1) /\ list[list[i].cause].corr = list[i].corr
  /\ \A i, j \in DOMAIN list : i <= j => list[i].corr <= list[j].corr
  /\ \A i, j \in DOMAIN list : i # j /\ list[i].corr = list[j].corr => Agree(list[i].draft, list[j].draft)
  /\ \A i, j \in DOMAIN list : list[i].corr = list[j].corr /\ Provided(list[i].draft, list[j].draft) =>
       list[j].cause # Nil /\ Approved(list[i].draft, list[list[j].cause].draft, list[j].draft)

\* The people of the pool, and what they hold.
Identity(r) == r = [human |-> r.human, grade |-> r.grade, status |-> r.status, held |-> r.held]
PoolSound(p, n) ==
  /\ p = [i \in DOMAIN p |-> p[i]] /\ DOMAIN p \subseteq People
  /\ \A i \in DOMAIN p : /\ Identity(p[i]) /\ IsFiniteSet(p[i].held)
                        /\ \A e \in p[i].held : Known(e, n)

StreamInv == StreamAssumption /\ StreamSound(stream) /\ PoolSound(pool, Len(stream))

\* A minted entitlement, a saga's number and a seeded entitlement are told apart.
LEMMA NamesDiffer ==
  ASSUME StreamAssumption
  PROVE  /\ \A m, n \in Nat : <<m, n>> # Nil /\ <<m, n>> \notin Seeded
         /\ \A m \in Nat : <<m>> # Nil /\ <<m>> \notin Seeded
         /\ \A m, n, c \in Nat : <<m, n>> # <<c>>
         /\ \A e, n : Known(e, n) /\ n \in Nat => e # Nil
<1>1. \A e \in Seeded \cup {Nil} : e \notin Seq(Nat)
  BY DEF StreamAssumption
<1>2. \A m, n \in Nat : <<m, n>> \in Seq(Nat) /\ Len(<<m, n>>) = 2
  OBVIOUS
<1>3. \A m \in Nat : <<m>> \in Seq(Nat) /\ Len(<<m>>) = 1
  OBVIOUS
<1>4. \A m, n, c \in Nat : <<m, n>> # <<c>>
  BY <1>2, <1>3
<1>5. \A m, n \in Nat : <<m, n>> # Nil /\ <<m, n>> \notin Seeded
  BY <1>1, <1>2
<1>6. \A m \in Nat : <<m>> # Nil /\ <<m>> \notin Seeded
  BY <1>1, <1>3
<1>7. ASSUME NEW e, NEW n \in Nat, Known(e, n)
      PROVE  e # Nil
  <2>1. CASE e \in Seeded
    BY <2>1 DEF StreamAssumption
  <2>2. CASE \E c \in 0..n, k \in Nat : e = <<c, k>>
    BY <1>5, <2>2
  <2>. QED
    BY <1>7, <2>1, <2>2 DEF Known
<1>. QED
  BY <1>4, <1>5, <1>6, <1>7

LEMMA SamePair ==
  ASSUME NEW a, NEW b, NEW c, NEW d, <<a, b>> = <<c, d>>
  PROVE  a = c /\ b = d
OBVIOUS

\* In a sound stream a repeated key loses nothing.
LEMMA SoundRepeats == StreamAssumption /\ StreamSound(stream) => RepeatsAreIdle
<1> SUFFICES ASSUME StreamAssumption, StreamSound(stream),
                    NEW i \in DOMAIN stream, NEW j \in DOMAIN stream,
                    i < j, Mutating(Kind(i)), stream[i].key = stream[j].key
             PROVE  /\ OperationOf(Kind(i)) = OperationOf(Kind(j))
                    /\ Affected(stream[i].draft) = Affected(stream[j].draft)
                    /\ ~\E k \in (i + 1)..(j - 1) :
                          /\ OperationOf(Kind(k)) \in Undoes(OperationOf(Kind(i)))
                          /\ Affected(stream[k].draft) = Affected(stream[i].draft)
                          /\ stream[k].draft.ent = stream[i].draft.ent
  BY DEF RepeatsAreIdle
<1> DEFINE s == stream[i].draft
           t == stream[j].draft
           c == stream[i].corr
           d == stream[j].corr
           third(x, m) == IF x.ent # Nil THEN x.ent ELSE <<m>>
<1>1. /\ Len(stream) \in Nat /\ DOMAIN stream = 1..Len(stream) /\ i \in Nat /\ j \in Nat
      /\ c \in 1..i /\ d \in 1..j /\ c \in Nat /\ d \in Nat
  <2>1. Len(stream) \in Nat /\ DOMAIN stream = 1..Len(stream)
    BY DEF StreamSound
  <2>2. c \in 1..i /\ d \in 1..j /\ i \in Nat /\ j \in Nat
    BY <2>1 DEF StreamSound
  <2>. QED
    BY <2>1, <2>2
<1>2. Kind(i) = s.kind /\ Kind(j) = t.kind
  BY DEF Kind
<1>3. stream[i].key = KeyFor(s, i, c) /\ stream[j].key = KeyFor(t, j, d) /\ Fit(s, c) /\ Fit(t, d)
  BY DEF StreamSound
<1>4. c = d => Agree(s, t)
  BY <1>1 DEF StreamSound
<1> HIDE DEF s, t, c, d
<1>5. KeyFor(s, i, c) = <<OperationOf(s.kind), Affected(s), third(s, c)>>
  BY <1>2 DEF KeyFor
<1>6. Mutating(t.kind)
  <2> SUFFICES ASSUME ~Mutating(t.kind) PROVE FALSE
    OBVIOUS
  <2>1. KeyFor(t, j, d) = <<j>>
    BY DEF KeyFor
  <2> DEFINE short == <<j>>
             long == <<OperationOf(s.kind), Affected(s), third(s, c)>>
  <2>2. Len(short) = 1 /\ Len(long) = 3
    OBVIOUS
  <2>3. short = long
    BY <1>3, <1>5, <2>1
  <2> HIDE DEF short, long
  <2>. QED
    BY <2>2, <2>3
<1>7. KeyFor(t, j, d) = <<OperationOf(t.kind), Affected(t), third(t, d)>>
  BY <1>6 DEF KeyFor
<1>8. OperationOf(s.kind) = OperationOf(t.kind) /\ Affected(s) = Affected(t) /\ third(s, c) = third(t, d)
  <2> HIDE DEF third
  <2>1. <<OperationOf(s.kind), Affected(s), third(s, c)>> = <<OperationOf(t.kind), Affected(t), third(t, d)>>
    BY <1>3, <1>5, <1>7
  <2>. QED
    BY <2>1
<1>9. Mutating(s.kind)
  BY <1>2
<1>10. ~(s.ent = Nil /\ t.ent = Nil)
  <2> SUFFICES ASSUME s.ent = Nil, t.ent = Nil PROVE FALSE
    OBVIOUS
  <2>1. <<c>> = <<d>>
    BY <1>8
  <2>2. c = d
    BY <2>1
  <2>. QED
    BY <1>4, <1>6, <1>8, <1>9, <2>2 DEF Agree
<1>11. ASSUME NEW x, NEW m \in Nat, NEW l \in Nat, Mutating(x.kind), Fit(x, m), x.ent # Nil
       PROVE  x.ent # <<l>>
  <2>1. x.ent \in Seeded \/ \E e, n \in Nat : x.ent = <<e, n>>
    BY <1>11 DEF Fit, Known
  <2>. QED
    BY <2>1, NamesDiffer
<1>12. s.ent # Nil /\ t.ent # Nil /\ s.ent = t.ent
  BY <1>1, <1>3, <1>6, <1>8, <1>9, <1>10, <1>11
<1>13. OperationOf(s.kind) = "revoke" /\ Known(s.ent, c)
  <2> SUFFICES ASSUME OperationOf(s.kind) = "grant", \E n \in Nat : s.ent = <<c, n>> PROVE FALSE
    BY <1>3, <1>9, <1>12 DEF Fit
  <2>1. PICK n \in Nat : s.ent = <<c, n>>
    OBVIOUS
  <2>2. OperationOf(t.kind) = "grant"
    BY <1>8
  <2>3. PICK l \in Nat : t.ent = <<d, l>>
    BY <1>3, <1>6, <1>12, <2>2 DEF Fit
  <2>4. c = d
    <3>1. <<c, n>> = <<d, l>>
      BY <1>12, <2>1, <2>3
    <3>. QED
      BY <3>1, SamePair
  <2>. QED
    BY <1>4, <1>12, <2>2, <2>4 DEF Agree
<1>14. ASSUME NEW k \in (i + 1)..(j - 1), OperationOf(Kind(k)) \in Undoes(OperationOf(Kind(i))),
              stream[k].draft.ent = s.ent
       PROVE  FALSE
  <2> DEFINE u == stream[k].draft
             f == stream[k].corr
  <2>1. k \in DOMAIN stream /\ i <= k /\ k # i /\ k \in Nat
    BY <1>1
  <2>2. f \in Nat /\ c <= f /\ Fit(u, f) /\ (c = f => Agree(s, u))
    <3>1. f \in 1..k /\ Fit(u, f)
      BY <2>1 DEF StreamSound
    <3>2. c <= f /\ (c = f => Agree(s, u))
      BY <2>1 DEF StreamSound, s, c
    <3>. QED
      BY <2>1, <3>1, <3>2
  <2>3. OperationOf(u.kind) = "grant"
    BY <1>2, <1>13, <1>14 DEF Undoes, Kind
  <2>4. u.ent = s.ent
    BY <1>14
  <2> HIDE DEF u, f
  <2>5. Mutating(u.kind)
    BY <2>3 DEF Mutating
  <2>6. PICK n \in Nat : u.ent = <<f, n>>
    BY <1>12, <2>2, <2>3, <2>4, <2>5 DEF Fit
  <2>7. s.ent \notin Seeded
    BY <2>2, <2>4, <2>6, NamesDiffer
  <2>8. PICK e \in 0..c, l \in Nat : s.ent = <<e, l>>
    BY <1>13, <2>7 DEF Known
  <2>9. e = f
    BY <2>4, <2>6, <2>8, SamePair
  <2>10. c = f
    BY <1>1, <2>2, <2>8, <2>9
  <2>. QED
    BY <1>12, <1>13, <2>2, <2>3, <2>4, <2>10 DEF Agree
<1>. QED
  BY <1>2, <1>8, <1>14 DEF s, t

LEMMA SoundSagas == StreamAssumption /\ StreamSound(stream) => SagasSound
<1> SUFFICES ASSUME StreamAssumption, StreamSound(stream) PROVE SagasSound
  OBVIOUS
<1>1. Chained
  <2> SUFFICES ASSUME NEW i \in DOMAIN stream
               PROVE  IF stream[i].cause = Nil THEN stream[i].corr = i
                      ELSE stream[i].cause < i /\ SameSaga(stream[i].cause, i)
    BY DEF Chained
  <2>1. /\ stream[i].corr \in 1..i
        /\ \/ stream[i].cause = Nil /\ stream[i].corr = i
           \/ stream[i].cause \in 1..(i - 1) /\ stream[stream[i].cause].corr = stream[i].corr
    BY DEF StreamSound
  <2>2. Nil \notin Nat
    BY DEF StreamAssumption
  <2>3. i \in Nat
    BY DEF StreamSound
  <2>. QED
    BY <2>1, <2>2, <2>3 DEF SameSaga
<1>2. Decided
  <2> SUFFICES ASSUME NEW i \in DOMAIN stream, NEW j \in DOMAIN stream, SameSaga(i, j)
               PROVE  /\ Kind(i) = "access.request" /\ Kind(j) = "access.provision" =>
                           LET a == stream[j].cause
                           IN /\ Kind(a) = "access.approve"
                              /\ Affected(stream[a].draft) = Affected(stream[i].draft)
                              /\ Affected(stream[j].draft) = Affected(stream[i].draft)
                              /\ stream[j].draft.ent = stream[i].draft.ent
                      /\ ~(Kind(i) = "mfa.failure" /\ Kind(j) = "session.start")
    BY DEF Decided
  <2>1. ~(Kind(i) = "mfa.failure" /\ Kind(j) = "session.start")
    <3>1. i # j => Agree(stream[i].draft, stream[j].draft)
      BY DEF StreamSound, SameSaga
    <3>. QED
      BY <3>1 DEF Agree, Kind
  <2>2. Provided(stream[i].draft, stream[j].draft) =>
          Approved(stream[i].draft, stream[stream[j].cause].draft, stream[j].draft)
    BY DEF StreamSound, SameSaga
  <2>. QED
    BY <2>1, <2>2 DEF Provided, Approved, Kind
<1>3. NamesIdentity
  <2> SUFFICES ASSUME NEW i \in DOMAIN stream, Mutating(Kind(i))
               PROVE  /\ Affected(stream[i].draft) \in People
                      /\ stream[i].key[2] = Affected(stream[i].draft)
    BY DEF NamesIdentity
  <2>1. /\ stream[i].key = KeyFor(stream[i].draft, i, stream[i].corr)
        /\ Fit(stream[i].draft, stream[i].corr)
    BY DEF StreamSound
  <2>. QED
    BY <2>1 DEF Fit, KeyFor, Kind
<1>. QED
  BY <1>1, <1>2, <1>3, SoundRepeats DEF SagasSound

LEMMA OwnRange == ASSUME NEW S, NEW s \in Seq(S) PROVE s \in Seq(Range(s))
BY DEF Range

\* A saga published in one turn joins the stream.
LEMMA PublishingKeepsStream ==
  ASSUME StreamAssumption, NEW list, StreamSound(list), NEW steps, Good(steps, Len(list) + 1),
         NEW log, log = list \o AssembledFrom(Len(list) + 1, steps)
  PROVE  StreamSound(log) /\ Len(log) \in Nat /\ Len(list) < Len(log)
<1> DEFINE n == Len(list)
           k == Len(steps)
           m == n + 1
           new == AssembledFrom(m, steps)
           S == Range(list) \cup Range(new)
<1>1. n \in Nat /\ DOMAIN list = 1..n /\ m = n + 1 /\ m \in Nat
  BY DEF StreamSound
<1>2. k \in Nat /\ k # 0 /\ DOMAIN steps = 1..k
  <2>1. steps \in Seq(Range(steps)) /\ steps # <<>>
    BY DEF Good
  <2>. QED
    BY <2>1, EmptySeq
<1>3. /\ DOMAIN new = 1..k
      /\ \A a \in 1..k : /\ new[a].draft = steps[a] /\ new[a].corr = m
                         /\ new[a].cause = IF a = 1 THEN Nil ELSE m + steps[a].cause
                         /\ new[a].key = KeyFor(steps[a], n + a, m)
  <2>1. /\ DOMAIN new = 1..k
        /\ \A a \in 1..k : /\ new[a].draft = steps[a] /\ new[a].corr = m
                           /\ new[a].cause = IF a = 1 THEN Nil ELSE m + steps[a].cause
                           /\ new[a].key = KeyFor(steps[a], m + a - 1, m)
    BY <1>2 DEF AssembledFrom
  <2>2. \A a \in 1..k : m + a - 1 = n + a
    BY <1>1, <1>2
  <2>. QED
    BY <2>1, <2>2
<1>4. new \in Seq(Range(new)) /\ Len(new) = k
  BY <1>2, <1>3 DEF Range, AssembledFrom
<1>5. list \in Seq(Range(list))
  BY DEF StreamSound
<1>6. list \in Seq(S) /\ new \in Seq(S) /\ log = list \o new
  BY <1>4, <1>5
<1> HIDE DEF new, k, m, S
<1>7. /\ log \in Seq(S) /\ Len(log) = n + k /\ DOMAIN log = 1..(n + k)
      /\ \A i \in 1..(n + k) : log[i] = IF i <= n THEN list[i] ELSE new[i - n]
  <2>1. list \o new \in Seq(S)
    BY <1>6
  <2>. QED
    BY <1>4, <1>6, <2>1, ConcatElements
<1> HIDE DEF n
<1>8. log \in Seq(Range(log))
  BY <1>7, OwnRange
<1>9. \A i \in 1..n : i \in DOMAIN log /\ log[i] = list[i]
  BY <1>1, <1>2, <1>7
<1>10. \A a \in 1..k : /\ n + a \in DOMAIN log /\ log[n + a].draft = steps[a] /\ log[n + a].corr = m
                       /\ log[n + a].cause = IF a = 1 THEN Nil ELSE m + steps[a].cause
                       /\ log[n + a].key = KeyFor(steps[a], n + a, m)
  <2> TAKE a \in 1..k
  <2>1. n + a \in 1..(n + k) /\ ~(n + a <= n) /\ (n + a) - n = a
    BY <1>1, <1>2
  <2>2. log[n + a] = new[a]
    BY <1>7, <2>1
  <2>. QED
    BY <1>3, <1>7, <2>1, <2>2
<1>11. \A i \in DOMAIN log : i \in 1..n \/ \E a \in 1..k : i = n + a
  <2> TAKE i \in DOMAIN log
  <2>1. CASE i <= n
    BY <1>1, <1>2, <1>7, <2>1
  <2>2. CASE ~(i <= n)
    <3>1. i - n \in 1..k /\ i = n + (i - n)
      BY <1>1, <1>2, <1>7, <2>2
    <3>. QED
      BY <3>1
  <2>. QED
    BY <2>1, <2>2
<1>12. \A i \in 1..n : list[i].corr \in 1..i /\ list[i].corr < m /\ i \in Nat
  <2> TAKE i \in 1..n
  <2>1. list[i].corr \in 1..i
    BY <1>1 DEF StreamSound
  <2>. QED
    BY <1>1, <2>1
\* each entry
<1>13. ASSUME NEW i \in DOMAIN log
       PROVE  /\ log[i].corr \in 1..i /\ log[i].key = KeyFor(log[i].draft, i, log[i].corr)
              /\ Fit(log[i].draft, log[i].corr)
              /\ \/ log[i].cause = Nil /\ log[i].corr = i
                 \/ log[i].cause \in 1..(i - 1) /\ log[log[i].cause].corr = log[i].corr
  <2>1. CASE i \in 1..n
    <3>1. /\ list[i].corr \in 1..i /\ list[i].key = KeyFor(list[i].draft, i, list[i].corr)
          /\ Fit(list[i].draft, list[i].corr)
          /\ \/ list[i].cause = Nil /\ list[i].corr = i
             \/ list[i].cause \in 1..(i - 1) /\ list[list[i].cause].corr = list[i].corr
      BY <1>1, <2>1 DEF StreamSound
    <3>2. log[i] = list[i]
      BY <1>9, <2>1
    <3>3. \A c \in 1..(i - 1) : log[c] = list[c]
      BY <1>1, <1>9, <2>1
    <3>. QED
      BY <3>1, <3>2, <3>3
  <2>2. ASSUME NEW a \in 1..k, i = n + a
        PROVE  /\ log[i].corr \in 1..i /\ log[i].key = KeyFor(log[i].draft, i, log[i].corr)
               /\ Fit(log[i].draft, log[i].corr)
               /\ \/ log[i].cause = Nil /\ log[i].corr = i
                  \/ log[i].cause \in 1..(i - 1) /\ log[log[i].cause].corr = log[i].corr
    <3>1. /\ log[i].draft = steps[a] /\ log[i].corr = m
          /\ log[i].cause = IF a = 1 THEN Nil ELSE m + steps[a].cause
          /\ log[i].key = KeyFor(steps[a], i, m)
      BY <1>10, <2>2
    <3>2. Fit(steps[a], m) /\ (a # 1 => steps[a].cause \in 0..(a - 2))
      BY <1>2 DEF Good, m, n
    <3>3. m \in 1..i
      BY <1>1, <1>2, <2>2
    <3>4. CASE a = 1
      <4>1. log[i].cause = Nil /\ m = i
        BY <1>1, <2>2, <3>1, <3>4
      <4>. QED
        BY <3>1, <3>2, <3>3, <4>1
    <3>5. CASE a # 1
      <4> DEFINE c == steps[a].cause
                 b == c + 1
      <4>0. c \in 0..(a - 2) /\ a \in Nat /\ a <= k
        BY <1>2, <3>2, <3>5
      <4> HIDE DEF c
      <4>1. b \in 1..k /\ b < a /\ m + c = n + b
        BY <1>1, <1>2, <4>0
      <4> USE DEF c
      <4>2. log[n + b].corr = m
        BY <1>10, <4>1
      <4>3. n + b \in 1..(i - 1)
        BY <1>1, <1>2, <2>2, <4>1
      <4>. QED
        BY <3>1, <3>2, <3>3, <3>5, <4>1, <4>2, <4>3
    <3>. QED
      BY <3>4, <3>5
  <2>. QED
    BY <1>11, <2>1, <2>2
<1>14. ASSUME NEW i \in DOMAIN log, NEW j \in DOMAIN log, i <= j
       PROVE  log[i].corr <= log[j].corr
  <2>1. CASE i \in 1..n /\ j \in 1..n
    BY <1>1, <1>9, <1>14, <2>1 DEF StreamSound
  <2>2. CASE i \in 1..n /\ j \notin 1..n
    <3>1. log[i].corr < m /\ log[i].corr \in Nat
      BY <1>9, <1>12, <2>2
    <3>2. log[j].corr = m
      BY <1>10, <1>11, <2>2
    <3>. QED
      BY <1>1, <3>1, <3>2
  <2>3. CASE i \notin 1..n
    <3>1. j \notin 1..n
      BY <1>1, <1>2, <1>7, <1>14, <2>3
    <3>. QED
      BY <1>1, <1>10, <1>11, <2>3, <3>1
  <2>. QED
    BY <2>1, <2>2, <2>3
\* entries of one saga are both old or both new
<1>15. ASSUME NEW i \in DOMAIN log, NEW j \in DOMAIN log, log[i].corr = log[j].corr
       PROVE  \/ /\ i \in 1..n /\ j \in 1..n /\ log[i] = list[i] /\ log[j] = list[j]
                 /\ list[i].corr = list[j].corr
              \/ \E a, b \in 1..k : i = n + a /\ j = n + b
  <2>1. CASE i \in 1..n /\ j \in 1..n
    BY <1>9, <1>15, <2>1
  <2>2. CASE i \in 1..n /\ j \notin 1..n
    <3>1. log[i].corr < m /\ log[i].corr \in Nat
      BY <1>9, <1>12, <2>2
    <3>2. log[j].corr = m
      BY <1>10, <1>11, <2>2
    <3>. QED
      BY <1>1, <1>15, <3>1, <3>2
  <2>3. CASE i \notin 1..n /\ j \in 1..n
    <3>1. log[j].corr < m /\ log[j].corr \in Nat
      BY <1>9, <1>12, <2>3
    <3>2. log[i].corr = m
      BY <1>10, <1>11, <2>3
    <3>. QED
      BY <1>1, <1>15, <3>1, <3>2
  <2>4. CASE i \notin 1..n /\ j \notin 1..n
    BY <1>11, <2>4
  <2>. QED
    BY <2>1, <2>2, <2>3, <2>4
<1>16. ASSUME NEW i \in DOMAIN log, NEW j \in DOMAIN log, i # j, log[i].corr = log[j].corr
       PROVE  Agree(log[i].draft, log[j].draft)
  <2>1. CASE i \in 1..n /\ j \in 1..n /\ log[i] = list[i] /\ log[j] = list[j]
             /\ list[i].corr = list[j].corr
    BY <1>1, <1>16, <2>1 DEF StreamSound
  <2>2. CASE \E a, b \in 1..k : i = n + a /\ j = n + b
    <3>1. PICK a \in 1..k, b \in 1..k : i = n + a /\ j = n + b
      BY <2>2
    <3>2. a # b
      BY <1>16, <3>1
    <3>3. Agree(steps[a], steps[b])
      BY <1>2, <3>2 DEF Good
    <3>. QED
      BY <1>10, <3>1, <3>3
  <2>. QED
    BY <1>15, <1>16, <2>1, <2>2
<1>17. ASSUME NEW i \in DOMAIN log, NEW j \in DOMAIN log, log[i].corr = log[j].corr,
              Provided(log[i].draft, log[j].draft)
       PROVE  log[j].cause # Nil /\ Approved(log[i].draft, log[log[j].cause].draft, log[j].draft)
  <2>1. CASE i \in 1..n /\ j \in 1..n /\ log[i] = list[i] /\ log[j] = list[j]
             /\ list[i].corr = list[j].corr
    <3>1. /\ list[j].cause # Nil
          /\ Approved(list[i].draft, list[list[j].cause].draft, list[j].draft)
      BY <1>1, <1>17, <2>1 DEF StreamSound
    <3>2. list[j].cause = Nil \/ list[j].cause \in 1..(j - 1)
      BY <1>1, <2>1 DEF StreamSound
    <3>3. \A c \in 1..(j - 1) : log[c] = list[c]
      BY <1>1, <1>9, <2>1
    <3>. QED
      BY <2>1, <3>1, <3>2, <3>3
  <2>2. CASE \E a, b \in 1..k : i = n + a /\ j = n + b
    <3>1. PICK a \in 1..k, b \in 1..k : i = n + a /\ j = n + b
      BY <2>2
    <3>2. log[i].draft = steps[a] /\ log[j].draft = steps[b]
      BY <1>10, <3>1
    <3>3. b # 1 /\ Approved(steps[a], steps[steps[b].cause + 1], steps[b])
      BY <1>2, <1>17, <3>2 DEF Good
    <3>4. steps[b].cause \in 0..(b - 2)
      BY <1>2, <3>3 DEF Good
    <3> DEFINE c == steps[b].cause + 1
    <3>5. c \in 1..k /\ m + steps[b].cause = n + c /\ n + c \in Nat
      <4> DEFINE d == steps[b].cause
      <4>1. d \in 0..(b - 2) /\ b \in 1..k /\ b # 1 /\ k \in Nat /\ n \in Nat /\ m = n + 1
        BY <1>1, <1>2, <3>3, <3>4
      <4> HIDE DEF d
      <4>2. d + 1 \in 1..k /\ m + d = n + (d + 1) /\ n + (d + 1) \in Nat
        BY <4>1
      <4>. QED
        BY <4>2 DEF d
    <3>6. log[j].cause = n + c
      BY <1>10, <3>1, <3>3, <3>5
    <3>7. log[n + c].draft = steps[c]
      BY <1>10, <3>5
    <3>8. n + c # Nil
      BY <3>5 DEF StreamAssumption
    <3>. QED
      BY <3>2, <3>3, <3>6, <3>7, <3>8
  <2>. QED
    BY <1>15, <1>17, <2>1, <2>2
<1>18. StreamSound(log)
  BY <1>8, <1>13, <1>14, <1>16, <1>17 DEF StreamSound
<1>19. Len(log) \in Nat /\ n < Len(log)
  BY <1>1, <1>2, <1>7
<1>. QED
  BY <1>18, <1>19 DEF n

-----------------------------------------------------------------------------
(* Stream: what the builders say *)

\* The operations the proofs tell apart.
LEMMA OperationsOf ==
  /\ \A kind \in {"access.provision", "firefighter.grant", "breakglass"} :
       Mutating(kind) /\ OperationOf(kind) = "grant"
  /\ \A kind \in {"access.revoke", "firefighter.revoke"} : Mutating(kind) /\ OperationOf(kind) = "revoke"
  /\ Mutating("account.lockout") /\ OperationOf("account.lockout") = "deactivate"
  /\ Mutating("password.reset") /\ OperationOf("password.reset") = "patch"
  /\ Mutating("namecollision") /\ OperationOf("namecollision") = "patch"
  /\ \A kind \in {"joiner.hire", "contractor.convert", "mover.transfer", "mover.promotion",
                  "mover.manager_change", "leaver.termination", "leaver.resignation", "leaver.loa",
                  "contract.expiry", "rehire"} :
       Mutating(kind) /\ OperationOf(kind) \notin {"grant", "revoke"}
BY DEF Mutating, OperationOf

Notifying == {"mfa.challenge", "mfa.success", "mfa.failure", "session.start", "session.end",
          "sso.federation", "stepup", "login.success", "login.failure", "impossible.travel",
          "access.request", "access.approve", "access.deny", "recertification", "sod.violation",
          "orphan.detected", "dormant.detected", "payment.sepa", "payment.swift", "card.txn",
          "trade.book", "wire.approval", "limit.breach", "highvalue.alert", "gdpr.request",
          "audit.pull", "duplicate.identity", "nhi.activity"}
LEMMA QuietKinds == \A kind \in Notifying : ~Mutating(kind) /\ OperationOf(kind) = "notify"
BY DEF Notifying, Mutating, OperationOf

\* A primary event and its follow-ons.
Leads(t, p, f) ==
  /\ t \in Seq(Range(t)) /\ t # <<>> /\ Len(f) \in Nat
  /\ DOMAIN t = 1..(Len(f) + 1) /\ t[1] = p
  /\ \A i \in 1..Len(f) : t[i + 1] = f[i]
LEMMA Led ==
  ASSUME NEW S, NEW p \in S, NEW f \in Seq(S)
  PROVE  Leads(<<p>> \o f, p, f)
<1> DEFINE one == <<p>>
           t == one \o f
           n == Len(f)
<1>1. one \in Seq(S) /\ Len(one) = 1 /\ one[1] = p
  OBVIOUS
<1> HIDE DEF one, n
<1>2. /\ n \in Nat /\ t \in Seq(S) /\ DOMAIN t = 1..(1 + n)
      /\ \A i \in 1..(1 + n) : t[i] = IF i <= 1 THEN one[i] ELSE f[i - 1]
  <2>1. t \in Seq(S)
    BY <1>1
  <2>2. n \in Nat
    BY DEF n
  <2>3. /\ DOMAIN (one \o f) = 1..(Len(one) + n)
        /\ \A i \in 1..(Len(one) + n) : (one \o f)[i] = IF i <= Len(one) THEN one[i] ELSE f[i - Len(one)]
    BY <1>1, ConcatElements DEF n
  <2>. QED
    BY <1>1, <2>1, <2>2, <2>3
<1> HIDE DEF t
<1>3. t[1] = p
  BY <1>1, <1>2
<1>4. \A i \in 1..n : t[i + 1] = f[i]
  <2> TAKE i \in 1..n
  <2>1. i + 1 \in 1..(1 + n) /\ ~(i + 1 <= 1) /\ (i + 1) - 1 = i
    BY <1>2
  <2>. QED
    BY <1>2, <2>1
<1>5. t \in Seq(Range(t))
  BY <1>2, OwnRange
<1>6. t # <<>>
  <2>1. 1 \in DOMAIN t
    BY <1>2
  <2>. QED
    BY <2>1
<1>7. 1 + n = n + 1
  BY <1>2
<1>. QED
  BY <1>2, <1>3, <1>4, <1>5, <1>6, <1>7 DEF Leads, t, one, n

\* One step alone, then two, then more: what has to be shown of each.
LEMMA GoodOne ==
  ASSUME NEW m, NEW p, Fit(p, m)
  PROVE  Good(<<p>>, m) /\ Good(<<p>> \o <<>>, m)
<1>1. ASSUME NEW steps, DOMAIN steps = {1}, steps[1] = p, steps # <<>>, steps \in Seq(Range(steps))
      PROVE  Good(steps, m)
  <2>1. ~Provided(p, p)
    BY DEF Provided
  <2>. QED
    BY <1>1, <2>1 DEF Good
<1>2. Good(<<p>>, m)
  <2> DEFINE steps == <<p>>
  <2>1. DOMAIN steps = {1} /\ steps[1] = p /\ steps # <<>> /\ steps \in Seq(Range(steps))
    BY DEF Range
  <2> HIDE DEF steps
  <2>2. Good(steps, m)
    BY <1>1, <2>1
  <2>. QED
    BY <2>2 DEF steps
<1>3. Good(<<p>> \o <<>>, m)
  <2> DEFINE f == <<>>
             steps == <<p>> \o f
  <2>1. f \in Seq({p}) /\ Len(f) = 0
    OBVIOUS
  <2> HIDE DEF f
  <2>2. Leads(steps, p, f)
    BY <2>1, Led
  <2>3. 1..(0 + 1) = {1}
    OBVIOUS
  <2> HIDE DEF steps
  <2>4. DOMAIN steps = {1} /\ steps[1] = p /\ steps # <<>> /\ steps \in Seq(Range(steps))
    BY <2>1, <2>2, <2>3 DEF Leads
  <2>5. Good(steps, m)
    BY <1>1, <2>4
  <2>. QED
    BY <2>5 DEF steps, f
<1>. QED
  BY <1>2, <1>3

LEMMA GoodTwo ==
  ASSUME NEW m, NEW p, NEW q, Fit(p, m), Fit(q, m), q.cause = 0, Agree(p, q), Agree(q, p),
         ~Provided(p, q), ~Provided(q, p)
  PROVE  Good(<<p>> \o <<q>>, m)
<1> DEFINE steps == <<p>> \o <<q>>
<1>1. /\ DOMAIN steps = {1, 2} /\ steps[1] = p /\ steps[2] = q
      /\ steps # <<>> /\ steps \in Seq(Range(steps))
  <2> DEFINE f == <<q>>
  <2>1. f \in Seq({p, q}) /\ Len(f) = 1 /\ f[1] = q
    OBVIOUS
  <2> HIDE DEF f
  <2>2. Leads(<<p>> \o f, p, f)
    BY <2>1, Led
  <2>3. 1..(1 + 1) = {1, 2} /\ 1 \in 1..1 /\ 1 + 1 = 2
    OBVIOUS
  <2>. QED
    BY <2>1, <2>2, <2>3 DEF f, Leads
<1> HIDE DEF steps
<1>2. ~Provided(p, p) /\ ~Provided(q, q)
  BY DEF Provided
<1>3. Good(steps, m)
  BY <1>1, <1>2 DEF Good
<1>. QED
  BY <1>3 DEF steps

LEMMA GoodThree ==
  ASSUME NEW m, NEW p, NEW q, NEW r, Fit(p, m), Fit(q, m), Fit(r, m), q.cause = 0, r.cause \in 0..1,
         Agree(p, q), Agree(q, p), Agree(p, r), Agree(r, p), Agree(q, r), Agree(r, q),
         ~Provided(p, q), ~Provided(q, p), ~Provided(q, r), ~Provided(r, p), ~Provided(r, q),
         Provided(p, r) => r.cause = 1 /\ Approved(p, q, r)
  PROVE  Good(<<p>> \o <<q, r>>, m)
<1> DEFINE steps == <<p>> \o <<q, r>>
<1>1. /\ DOMAIN steps = {1, 2, 3} /\ steps[1] = p /\ steps[2] = q /\ steps[3] = r
      /\ steps # <<>> /\ steps \in Seq(Range(steps))
  <2> DEFINE f == <<q, r>>
  <2>1. f \in Seq({p, q, r}) /\ Len(f) = 2 /\ f[1] = q /\ f[2] = r
    OBVIOUS
  <2> HIDE DEF f
  <2>2. Leads(<<p>> \o f, p, f)
    BY <2>1, Led
  <2>3. 1..(2 + 1) = {1, 2, 3} /\ 1 \in 1..2 /\ 2 \in 1..2 /\ 1 + 1 = 2 /\ 2 + 1 = 3
    OBVIOUS
  <2>. QED
    BY <2>1, <2>2, <2>3 DEF f, Leads
<1> HIDE DEF steps
<1>2. ~Provided(p, p) /\ ~Provided(q, q) /\ ~Provided(r, r)
  BY DEF Provided
<1>3. Good(steps, m)
  <2>1. \A a \in DOMAIN steps : Fit(steps[a], m) /\ (a # 1 => steps[a].cause \in 0..(a - 2))
    BY <1>1
  <2>2. \A a, b \in DOMAIN steps : a # b => Agree(steps[a], steps[b])
    BY <1>1
  <2>3. \A a, b \in DOMAIN steps : Provided(steps[a], steps[b]) =>
          b # 1 /\ Approved(steps[a], steps[steps[b].cause + 1], steps[b])
    BY <1>1, <1>2
  <2>. QED
    BY <1>1, <2>1, <2>2, <2>3 DEF Good
<1>. QED
  BY <1>3 DEF steps

\* What only notifies never contradicts another step, unless it is a failed factor.
LEMMA QuietAgrees ==
  ASSUME NEW s, NEW t, s.kind \in Notifying, ~(s.kind = "mfa.failure" /\ t.kind = "session.start"),
         ~(t.kind = "mfa.failure" /\ s.kind = "session.start")
  PROVE  Agree(s, t) /\ Agree(t, s) /\ \A m : Fit(s, m)
<1>1. ~Mutating(s.kind) /\ OperationOf(s.kind) = "notify"
  BY QuietKinds
<1>. QED
  BY <1>1 DEF Agree, Fit

\* Follow-ons that only notify.
LEMMA GoodQuiet ==
  ASSUME NEW m, NEW p, Fit(p, m), p.kind \notin {"mfa.failure", "session.start", "access.provision"},
         NEW S, NEW f \in Seq(S),
         \A i \in 1..Len(f) : f[i].kind \in Notifying /\ f[i].cause \in 0..(i - 1),
         \A i, j \in 1..Len(f) : ~(f[i].kind = "mfa.failure" /\ f[j].kind = "session.start")
  PROVE  Good(<<p>> \o f, m)
<1> DEFINE steps == <<p>> \o f
           n == Len(f)
<1>1. f \in Seq(S \cup {p}) /\ p \in S \cup {p}
  OBVIOUS
<1>2. Leads(steps, p, f)
  BY <1>1, Led
<1> HIDE DEF steps
<1>3. /\ steps \in Seq(Range(steps)) /\ steps # <<>> /\ n \in Nat
      /\ DOMAIN steps = 1..(n + 1) /\ steps[1] = p
      /\ \A i \in 1..n : steps[i + 1] = f[i]
  BY <1>2 DEF Leads
<1> HIDE DEF n
<1>4. ASSUME NEW a \in DOMAIN steps, a # 1
      PROVE  /\ steps[a].kind \in Notifying /\ steps[a].cause \in 0..(a - 2)
             /\ a - 1 \in 1..n /\ steps[a] = f[a - 1]
  <2>1. a - 1 \in 1..n /\ (a - 1) + 1 = a
    BY <1>3, <1>4
  <2>2. steps[a] = f[a - 1]
    BY <1>3, <2>1
  <2>3. f[a - 1].kind \in Notifying /\ f[a - 1].cause \in 0..((a - 1) - 1)
    BY <2>1 DEF n
  <2>. QED
    BY <2>1, <2>2, <2>3
<1>5. ASSUME NEW a \in DOMAIN steps
      PROVE  Fit(steps[a], m) /\ (a # 1 => steps[a].cause \in 0..(a - 2))
  <2>1. CASE a = 1
    BY <1>3, <2>1
  <2>2. CASE a # 1
    <3>1. ~Mutating(steps[a].kind)
      BY <1>4, <2>2, QuietKinds
    <3>. QED
      BY <1>4, <2>2, <3>1 DEF Fit
  <2>. QED
    BY <2>1, <2>2
<1>6. ASSUME NEW a \in DOMAIN steps, NEW b \in DOMAIN steps
      PROVE  ~(steps[a].kind = "mfa.failure" /\ steps[b].kind = "session.start")
  <2>1. CASE a = 1 \/ b = 1
    BY <1>3, <2>1
  <2>2. CASE a # 1 /\ b # 1
    BY <1>4, <2>2 DEF n
  <2>. QED
    BY <2>1, <2>2
<1>7. ASSUME NEW a \in DOMAIN steps, NEW b \in DOMAIN steps, a # b
      PROVE  Agree(steps[a], steps[b])
  <2>1. steps[a].kind \in Notifying \/ steps[b].kind \in Notifying
    BY <1>4, <1>7
  <2>. QED
    BY <1>6, <2>1, QuietAgrees
<1>8. ASSUME NEW a \in DOMAIN steps
      PROVE  steps[a].kind # "access.provision"
  <2>1. CASE a = 1
    BY <1>3, <2>1
  <2>2. CASE a # 1
    BY <1>4, <2>2 DEF Notifying
  <2>. QED
    BY <2>1, <2>2
<1>9. Good(steps, m)
  BY <1>3, <1>5, <1>7, <1>8 DEF Good, Provided
<1>. QED
  BY <1>9 DEF steps

\* The pool's people are people.
LEMMA PoolNames ==
  ASSUME StreamInv
  PROVE  /\ ActiveHumans \subseteq DOMAIN pool /\ DOMAIN pool \subseteq People
         /\ \A i \in People : i # Nil
         /\ Seniors \subseteq ActiveHumans /\ Managers \subseteq ActiveHumans
         /\ Minted \in Nat /\ Minted = Len(stream) + 1
BY DEF StreamInv, PoolSound, StreamSound, StreamAssumption, ActiveHumans, Seniors, Managers, Minted

\* A step about a person of the pool is about a person.
LEMMA StepNames ==
  ASSUME StreamInv, NEW kind, NEW i \in People, NEW a, NEW o, NEW c, NEW e
  PROVE  /\ Affected(Draft(kind, i, Nil, c, e, o)) = i
         /\ Affected(Draft(kind, a, i, c, e, o)) = i
<1>1. i # Nil
  BY PoolNames
<1>. QED
  BY <1>1 DEF Affected, Draft

\* A step about a person that names no entitlement fits.
LEMMA PersonFits ==
  ASSUME StreamInv, NEW kind, NEW i \in People, NEW a, NEW o, NEW c, NEW m
  PROVE  Fit(Draft(kind, i, Nil, c, Nil, o), m) /\ Fit(Draft(kind, a, i, c, Nil, o), m)
<1>1. /\ Affected(Draft(kind, i, Nil, c, Nil, o)) = i /\ Affected(Draft(kind, a, i, c, Nil, o)) = i
  BY StepNames
<1>2. Draft(kind, i, Nil, c, Nil, o).ent = Nil /\ Draft(kind, a, i, c, Nil, o).ent = Nil
  BY DEF Draft
<1>. QED
  BY <1>1, <1>2 DEF Fit

\* What is known stays known.
LEMMA KnownLater ==
  ASSUME NEW e, NEW m \in Nat, NEW n \in Nat, m <= n, Known(e, m)
  PROVE  Known(e, n)
<1>1. \A c \in 0..m : c \in 0..n
  OBVIOUS
<1>. QED
  BY <1>1 DEF Known

\* What a person of the pool holds was there or was minted before.
LEMMA HeldKnown ==
  ASSUME StreamInv, NEW i \in DOMAIN pool, NEW e \in pool[i].held
  PROVE  Known(e, Minted) /\ Known(e, Len(stream)) /\ e # Nil
<1>1. Known(e, Len(stream)) /\ StreamAssumption
  BY DEF StreamInv, PoolSound
<1>2. Len(stream) \in Nat /\ Minted \in Nat /\ Len(stream) <= Minted
  BY DEF StreamInv, StreamSound, Minted
<1>3. e # Nil
  BY <1>1, <1>2, NamesDiffer
<1>. QED
  BY <1>1, <1>2, <1>3, KnownLater

LEMMA AuthFits ==
  ASSUME StreamInv, NEW p \in AuthPrimaries
  PROVE  /\ Fit(p, Minted)
         /\ p.kind = "login.failure" => p.actor \in People
         /\ p.kind = "impossible.travel" => p.subject \in People
<1>1. \A i \in ActiveHumans : i \in People
  BY PoolNames
<1>2. ASSUME NEW kind, NEW i \in ActiveHumans, NEW o, p = By(kind, i, o)
      PROVE  Fit(p, Minted) /\ p.actor = i /\ p.kind = kind
  BY <1>1, <1>2, PersonFits DEF By, Draft
<1>3. ASSUME NEW kind, NEW i \in ActiveHumans, p = About(kind, System, i, Nil)
      PROVE  Fit(p, Minted) /\ p.subject = i /\ p.kind = kind
  BY <1>1, <1>3, PersonFits DEF About, Draft
<1>4. CASE \E i \in ActiveHumans, kind \in
             {"mfa.challenge", "mfa.success", "mfa.failure", "password.reset", "session.start",
              "session.end", "sso.federation", "stepup", "login.success"} : p = By(kind, i, Nil)
  BY <1>1, <1>2, <1>4
<1>5. CASE \E i \in ActiveHumans, o \in {"few", "streak"} : p = By("login.failure", i, o)
  BY <1>1, <1>2, <1>5
<1>6. CASE \E i \in ActiveHumans, kind \in {"account.lockout", "impossible.travel"} :
             p = About(kind, System, i, Nil)
  BY <1>1, <1>3, <1>6
<1>. QED
  BY <1>4, <1>5, <1>6 DEF AuthPrimaries

\* A lockout follows a notification.
LEMMA GoodLockout ==
  ASSUME StreamInv, NEW p, p.kind \in {"login.failure", "impossible.travel"}, NEW i \in People
  PROVE  Good(<<p>> \o <<Lockout(i)>>, Minted)
<1> DEFINE q == Lockout(i)
<1>1. q = Draft("account.lockout", System, i, 0, Nil, Nil)
  BY DEF Lockout, Then
<1>2. Fit(q, Minted) /\ q.kind = "account.lockout" /\ q.cause = 0
  <2>1. Fit(Draft("account.lockout", System, i, 0, Nil, Nil), Minted)
    BY PersonFits
  <2>2. q.kind = "account.lockout" /\ q.cause = 0
    BY <1>1 DEF Draft
  <2>. QED
    BY <1>1, <2>1, <2>2
<1> HIDE DEF q
<1>3. p.kind \in Notifying /\ p.kind \notin {"mfa.failure", "session.start", "access.request", "access.provision"}
  BY DEF Notifying
<1>4. Agree(p, q) /\ Agree(q, p) /\ Fit(p, Minted)
  BY <1>2, <1>3, QuietAgrees
<1>5. ~Provided(p, q) /\ ~Provided(q, p)
  BY <1>2, <1>3 DEF Provided
<1>. QED
  BY <1>2, <1>4, <1>5, GoodTwo DEF q

LEMMA GoodLogin ==
  ASSUME NEW p, NEW m, Fit(p, m), p.kind = "login.success", NEW f \in LoginSaga(p)
  PROVE  Good(<<p>> \o f, m)
<1> DEFINE challenge == Then("mfa.challenge", p.actor, Nil, 0)
           success == Then("mfa.success", p.actor, Nil, 1)
           failure == Then("mfa.failure", p.actor, Nil, 1)
           session(cause) == Then("session.start", p.actor, Nil, cause)
           first == session(0)
           last == session(2)
           S == {challenge, success, failure, first, last}
<1>1. /\ challenge.kind = "mfa.challenge" /\ challenge.cause = 0
      /\ success.kind = "mfa.success" /\ success.cause = 1
      /\ failure.kind = "mfa.failure" /\ failure.cause = 1
      /\ first.kind = "session.start" /\ first.cause = 0
      /\ last.kind = "session.start" /\ last.cause = 2
  BY DEF Then, Draft
<1>2. f \in {<<>>, <<first>>, <<challenge, success>>, <<challenge, success, last>>, <<challenge, failure>>}
  BY DEF LoginSaga
<1>3. {"mfa.challenge", "mfa.success", "mfa.failure", "session.start"} \subseteq Notifying
  BY DEF Notifying
<1> HIDE DEF challenge, success, failure, first, last
<1>4. CASE f = <<>>
  BY <1>4, GoodOne
<1>5. CASE f = <<first>>
  <2>1. f \in Seq(S) /\ Len(f) = 1 /\ f[1] = first
    BY <1>5
  <2>2. \A i \in 1..Len(f) : f[i].kind = "session.start" /\ f[i].cause \in 0..(i - 1)
    BY <1>1, <2>1
  <2>. QED
    BY <1>3, <2>1, <2>2, GoodQuiet
<1>6. CASE f = <<challenge, success>>
  <2>1. f \in Seq(S) /\ Len(f) = 2 /\ f[1] = challenge /\ f[2] = success
    BY <1>6
  <2>2. \A i \in 1..Len(f) : f[i].kind \in {"mfa.challenge", "mfa.success"} /\ f[i].cause \in 0..(i - 1)
    BY <1>1, <2>1
  <2>. QED
    BY <1>3, <2>1, <2>2, GoodQuiet
<1>7. CASE f = <<challenge, success, last>>
  <2>1. f \in Seq(S) /\ Len(f) = 3 /\ f[1] = challenge /\ f[2] = success /\ f[3] = last
    BY <1>7
  <2>2. \A i \in 1..Len(f) : /\ f[i].kind \in {"mfa.challenge", "mfa.success", "session.start"}
                             /\ f[i].cause \in 0..(i - 1)
    BY <1>1, <2>1
  <2>. QED
    BY <1>3, <2>1, <2>2, GoodQuiet
<1>8. CASE f = <<challenge, failure>>
  <2>1. f \in Seq(S) /\ Len(f) = 2 /\ f[1] = challenge /\ f[2] = failure
    BY <1>8
  <2>2. \A i \in 1..Len(f) : f[i].kind \in {"mfa.challenge", "mfa.failure"} /\ f[i].cause \in 0..(i - 1)
    BY <1>1, <2>1
  <2>. QED
    BY <1>3, <2>1, <2>2, GoodQuiet
<1>. QED
  BY <1>2, <1>4, <1>5, <1>6, <1>7, <1>8

LEMMA AuthGood ==
  ASSUME StreamInv, NEW p \in AuthPrimaries, NEW f \in AuthSaga(p)
  PROVE  Good(<<p>> \o f, Minted)
<1>1. Fit(p, Minted)
  BY AuthFits
<1>2. CASE p.kind = "login.success"
  BY <1>1, <1>2, GoodLogin DEF AuthSaga
<1>3. CASE p.kind = "login.failure"
  <2>1. f = <<Lockout(p.actor)>> \/ f = <<>>
    BY <1>3 DEF AuthSaga
  <2>2. p.actor \in People
    BY <1>3, AuthFits
  <2>3. Good(<<p>> \o <<>>, Minted)
    BY <1>1, GoodOne
  <2>4. Good(<<p>> \o <<Lockout(p.actor)>>, Minted)
    BY <1>3, <2>2, GoodLockout
  <2>. QED
    BY <2>1, <2>3, <2>4
<1>4. CASE p.kind = "impossible.travel"
  <2>1. f = <<Lockout(p.subject)>> \/ f = <<>>
    BY <1>4 DEF AuthSaga
  <2>2. p.subject \in People
    BY <1>4, AuthFits
  <2>3. Good(<<p>> \o <<>>, Minted)
    BY <1>1, GoodOne
  <2>4. Good(<<p>> \o <<Lockout(p.subject)>>, Minted)
    BY <1>4, <2>2, GoodLockout
  <2>. QED
    BY <2>1, <2>3, <2>4
<1>5. CASE p.kind \notin {"login.success", "login.failure", "impossible.travel"}
  <2>1. f = <<>>
    BY <1>5 DEF AuthSaga
  <2>. QED
    BY <1>1, <2>1, GoodOne
<1>. QED
  BY <1>2, <1>3, <1>4, <1>5

LEMMA QuietFits == ASSUME NEW p, p.kind \in Notifying PROVE \A m : Fit(p, m)
BY QuietKinds DEF Fit

\* An entitlement minted with the saga, and the revocation of a known one.
LEMMA MintedFits ==
  ASSUME StreamInv, NEW kind, OperationOf(kind) = "grant", NEW i \in People, NEW a, NEW o, NEW c,
         NEW m, NEW n \in Nat
  PROVE  Fit(Draft(kind, a, i, c, <<m, n>>, o), m)
<1> DEFINE s == Draft(kind, a, i, c, <<m, n>>, o)
<1>1. s.kind = kind /\ s.ent = <<m, n>>
  BY DEF Draft
<1>2. Affected(s) = i
  BY StepNames
<1> HIDE DEF s
<1>3. Fit(s, m)
  BY <1>1, <1>2 DEF Fit
<1>. QED
  BY <1>3 DEF s

LEMMA RevokeFits ==
  ASSUME StreamInv, NEW i \in People, NEW a, NEW o, NEW c, NEW m, NEW e, Known(e, m)
  PROVE  Fit(Draft("access.revoke", a, i, c, e, o), m)
<1> DEFINE s == Draft("access.revoke", a, i, c, e, o)
<1>1. s.kind = "access.revoke" /\ s.ent = e
  BY DEF Draft
<1>2. Affected(s) = i
  BY StepNames
<1>3. OperationOf("access.revoke") = "revoke"
  BY OperationsOf
<1> HIDE DEF s
<1>4. Fit(s, m)
  BY <1>1, <1>2, <1>3 DEF Fit
<1>. QED
  BY <1>4 DEF s

LEMMA RequestFacts ==
  ASSUME StreamInv, NEW p \in AccessRequests
  PROVE  p.kind = "access.request" /\ Affected(p) \in People /\ p.ent = <<Minted, 0>>
<1>1. \A i \in ActiveHumans : i \in People
  BY PoolNames
<1>2. ASSUME NEW o, NEW i \in ActiveHumans, NEW a,
             p = RequestBy(i, Nil, o) \/ p = RequestBy(a, i, o)
      PROVE  p.kind = "access.request" /\ Affected(p) \in People /\ p.ent = <<Minted, 0>>
  <2>1. i \in People
    BY <1>1
  <2>2. /\ Affected(Draft("access.request", i, Nil, 0, MintedGrant, o)) = i
        /\ Affected(Draft("access.request", a, i, 0, MintedGrant, o)) = i
    BY <2>1, StepNames
  <2>3. CASE p = RequestBy(i, Nil, o)
    <3>1. p = Draft("access.request", i, Nil, 0, MintedGrant, o)
      BY <2>3 DEF RequestBy
    <3>. QED
      BY <2>1, <2>2, <3>1 DEF Draft, MintedGrant
  <2>4. CASE p = RequestBy(a, i, o)
    <3>1. p = Draft("access.request", a, i, 0, MintedGrant, o)
      BY <2>4 DEF RequestBy
    <3>. QED
      BY <2>1, <2>2, <3>1 DEF Draft, MintedGrant
  <2>. QED
    BY <1>2, <2>3, <2>4
<1>3. \E o, a, i : i \in ActiveHumans /\ (p = RequestBy(i, Nil, o) \/ p = RequestBy(a, i, o))
  BY DEF AccessRequests
<1>. QED
  BY <1>2, <1>3

LEMMA MintedKnown ==
  ASSUME StreamInv
  PROVE  Known(MintedGrant, Minted) /\ MintedGrant # Nil /\ MintedGrant = <<Minted, 0>>
<1>1. Minted \in Nat /\ StreamAssumption
  BY PoolNames DEF StreamInv
<1>2. Known(MintedGrant, Minted)
  BY <1>1 DEF Known, MintedGrant
<1>. QED
  BY <1>1, <1>2, NamesDiffer DEF MintedGrant

\* What the builder of a primary access event says.
AccessSaid(p) ==
  /\ Fit(p, Minted)
  /\ p.kind = "access.request" => Affected(p) \in People /\ p.ent = <<Minted, 0>>
  /\ p.kind = "recertification" => p.subject \in People /\ (p.ent # Nil => Known(p.ent, Minted))
  /\ p.kind = "firefighter.grant" => p.actor \in People /\ p.subject = Nil /\ p.ent = Nil

LEMMA AccessFacts ==
  ASSUME StreamInv, NEW p \in AccessPrimaries \cup DetectorPrimaries
  PROVE  AccessSaid(p)
<1>1. \A i \in ActiveHumans : i \in People /\ i \in DOMAIN pool
  BY PoolNames
<1>2. CASE p \in AccessRequests
  <2>1. p.kind = "access.request" /\ Affected(p) \in People /\ p.ent = <<Minted, 0>>
    BY <1>2, RequestFacts
  <2>2. Fit(p, Minted)
    BY <2>1, QuietFits DEF Notifying
  <2>. QED
    BY <2>1, <2>2 DEF AccessSaid
<1>3. ASSUME NEW kind \in {"access.approve", "access.deny", "sod.violation", "orphan.detected",
                           "dormant.detected"}, NEW a, NEW i, p = About(kind, a, i, Nil)
      PROVE  AccessSaid(p)
  <2>1. p.kind = kind
    BY <1>3 DEF About, Draft
  <2>2. Fit(p, Minted)
    BY <2>1, QuietFits DEF Notifying
  <2>. QED
    BY <2>1, <2>2 DEF AccessSaid
<1>4. ASSUME NEW i \in ActiveHumans, p = Draft("access.provision", System, i, 0, MintedGrant, Nil)
      PROVE  AccessSaid(p)
  <2>1. p.kind = "access.provision"
    BY <1>4 DEF Draft
  <2>2. Fit(Draft("access.provision", System, i, 0, <<Minted, 0>>, Nil), Minted)
    <3>1. i \in People /\ OperationOf("access.provision") = "grant"
      BY <1>1, OperationsOf
    <3>. QED
      BY <3>1, MintedFits
  <2>3. Fit(p, Minted)
    BY <1>4, <2>2 DEF MintedGrant
  <2>. QED
    BY <2>1, <2>3 DEF AccessSaid
<1>5. ASSUME NEW i \in ActiveHumans, NEW e \in IF pool[i].held = {} THEN {MintedGrant} ELSE pool[i].held,
             p = Draft("access.revoke", System, i, 0, e, Nil)
      PROVE  AccessSaid(p)
  <2>1. p.kind = "access.revoke"
    BY <1>5 DEF Draft
  <2>2. Known(e, Minted)
    BY <1>1, HeldKnown, MintedKnown
  <2>3. Fit(p, Minted)
    BY <1>1, <1>5, <2>2, RevokeFits
  <2>. QED
    BY <2>1, <2>3 DEF AccessSaid
<1>6. ASSUME NEW i \in ActiveHumans, NEW e \in IF pool[i].held = {} THEN {Nil} ELSE pool[i].held,
             NEW decision, p = Draft("recertification", System, i, 0, e, decision)
      PROVE  AccessSaid(p)
  <2>1. p.kind = "recertification" /\ p.subject = i /\ p.ent = e
    BY <1>6 DEF Draft
  <2>2. e # Nil => Known(e, Minted)
    BY <1>1, HeldKnown
  <2>3. Fit(p, Minted)
    BY <2>1, QuietFits DEF Notifying
  <2>. QED
    BY <1>1, <2>1, <2>2, <2>3 DEF AccessSaid
<1>7. ASSUME NEW i \in ActiveHumans, NEW kind \in {"firefighter.grant", "firefighter.revoke"},
             p = By(kind, i, Nil)
      PROVE  AccessSaid(p)
  <2>1. p.kind = kind /\ p.actor = i /\ p.subject = Nil /\ p.ent = Nil
    BY <1>7 DEF By, Draft
  <2>2. Fit(Draft(kind, i, Nil, 0, Nil, Nil), Minted)
    BY <1>1, PersonFits
  <2>3. Fit(p, Minted)
    BY <1>7, <2>2 DEF By
  <2>. QED
    BY <1>1, <2>1, <2>3 DEF AccessSaid
<1>8. CASE p \in DetectorPrimaries
  <2>1. \E kind \in {"sod.violation", "orphan.detected", "dormant.detected"} : \E i : p = About(kind, System, i, Nil)
    BY <1>8 DEF DetectorPrimaries
  <2>. QED
    BY <1>3, <2>1
<1>9. CASE p \in AccessPrimaries
  <2> DEFINE R == AccessRequests
             A == {About(kind, a, i, Nil) : kind \in {"access.approve", "access.deny"}, a \in Seniors,
                                            i \in ActiveHumans}
             B == {Draft("access.provision", System, i, 0, MintedGrant, Nil) : i \in ActiveHumans}
             C == UNION {{Draft("access.revoke", System, i, 0, e, Nil) :
                            e \in IF pool[i].held = {} THEN {MintedGrant} ELSE pool[i].held} :
                         i \in ActiveHumans}
             D == UNION {{Draft("recertification", System, i, 0, e, decision) :
                            e \in IF pool[i].held = {} THEN {Nil} ELSE pool[i].held,
                            decision \in {"revoke", "certify"}} :
                         i \in {j \in ActiveHumans : Seniors # {}}}
             E == {By("firefighter.grant", i, Nil) : i \in {j \in ActiveHumans : Seniors # {}}}
             F == {By("firefighter.revoke", i, Nil) : i \in ActiveHumans}
  <2>1. p \in A => AccessSaid(p)
    BY <1>3
  <2>2. p \in B => AccessSaid(p)
    BY <1>4
  <2>3. ASSUME p \in C PROVE AccessSaid(p)
    <3>1. PICK i \in ActiveHumans :
                p \in {Draft("access.revoke", System, i, 0, e, Nil) :
                       e \in IF pool[i].held = {} THEN {MintedGrant} ELSE pool[i].held}
      BY <2>3
    <3>2. PICK e \in IF pool[i].held = {} THEN {MintedGrant} ELSE pool[i].held :
                p = Draft("access.revoke", System, i, 0, e, Nil)
      BY <3>1
    <3>. QED
      BY <1>5, <3>2
  <2>4. ASSUME p \in D PROVE AccessSaid(p)
    <3>1. PICK i \in {j \in ActiveHumans : Seniors # {}} :
                p \in {Draft("recertification", System, i, 0, e, decision) :
                       e \in IF pool[i].held = {} THEN {Nil} ELSE pool[i].held,
                       decision \in {"revoke", "certify"}}
      BY <2>4
    <3>2. PICK e \in IF pool[i].held = {} THEN {Nil} ELSE pool[i].held, decision \in {"revoke", "certify"} :
                p = Draft("recertification", System, i, 0, e, decision)
      BY <3>1
    <3>. QED
      BY <1>6, <3>2
  <2>5. p \in E => AccessSaid(p)
    BY <1>7
  <2>6. p \in F => AccessSaid(p)
    BY <1>7
  <2>7. AccessPrimaries = R \cup A \cup B \cup C \cup D \cup E \cup F
    BY DEF AccessPrimaries
  <2> HIDE DEF R, A, B, C, D, E, F
  <2>8. p \in R => AccessSaid(p)
    BY <1>2 DEF R
  <2>. QED
    BY <1>9, <2>1, <2>2, <2>3, <2>4, <2>5, <2>6, <2>7, <2>8
<1>. QED
  BY <1>8, <1>9

\* A request is decided, and what is approved is provisioned.
LEMMA RequestGood ==
  ASSUME StreamInv, NEW p, AccessSaid(p), p.kind = "access.request", NEW f \in RequestSaga(p)
  PROVE  Good(<<p>> \o f, Minted)
<1> DEFINE q(kind, a) == Then(kind, a, Affected(p), 0)
           r == Provision(Affected(p), p.ent, 1)
<1>1. Fit(p, Minted) /\ Affected(p) \in People /\ p.ent = <<Minted, 0>> /\ p.kind \in Notifying
  BY DEF AccessSaid, Notifying
<1>2. ASSUME NEW kind \in {"access.deny", "access.approve"}, NEW a
      PROVE  /\ q(kind, a).kind = kind /\ q(kind, a).cause = 0 /\ Affected(q(kind, a)) = Affected(p)
             /\ kind \in Notifying
  <2>1. q(kind, a) = Draft(kind, a, Affected(p), 0, Nil, Nil)
    BY DEF Then
  <2>2. Affected(Draft(kind, a, Affected(p), 0, Nil, Nil)) = Affected(p)
    BY <1>1, StepNames
  <2>3. q(kind, a).kind = kind /\ q(kind, a).cause = 0
    BY <2>1 DEF Draft
  <2>. QED
    BY <2>1, <2>2, <2>3 DEF Notifying
<1>3. r.kind = "access.provision" /\ r.cause = 1 /\ r.ent = p.ent /\ Affected(r) = Affected(p) /\ Fit(r, Minted)
  <2>1. r = Draft("access.provision", System, Affected(p), 1, p.ent, Nil)
    BY DEF Provision
  <2>2. Affected(Draft("access.provision", System, Affected(p), 1, p.ent, Nil)) = Affected(p)
    BY <1>1, StepNames
  <2>3. OperationOf("access.provision") = "grant"
    BY OperationsOf
  <2>4. Fit(Draft("access.provision", System, Affected(p), 1, <<Minted, 0>>, Nil), Minted)
    BY <1>1, <2>3, MintedFits
  <2>5. r.kind = "access.provision" /\ r.cause = 1 /\ r.ent = p.ent
    BY <2>1 DEF Draft
  <2>. QED
    BY <1>1, <2>1, <2>2, <2>4, <2>5
<1>4. f = <<>> \/ \E a : \/ f = <<q("access.deny", a)>> \/ f = <<q("access.approve", a)>>
                          \/ f = <<q("access.approve", a), r>>
  BY DEF RequestSaga
<1> HIDE DEF q, r
<1>5. ASSUME NEW kind \in {"access.deny", "access.approve"}, NEW a
      PROVE  Good(<<p>> \o <<q(kind, a)>>, Minted)
  <2> DEFINE s == q(kind, a)
  <2>1. s.kind = kind /\ s.cause = 0 /\ kind \in Notifying
    BY <1>2
  <2> HIDE DEF s
  <2>2. Agree(p, s) /\ Agree(s, p) /\ Fit(s, Minted)
    BY <1>1, <2>1, QuietAgrees
  <2>3. ~Provided(p, s) /\ ~Provided(s, p)
    BY <2>1 DEF Provided
  <2>. QED
    BY <1>1, <2>1, <2>2, <2>3, GoodTwo DEF s
<1>6. ASSUME NEW a
      PROVE  Good(<<p>> \o <<q("access.approve", a), r>>, Minted)
  <2> DEFINE s == q("access.approve", a)
  <2>1. s.kind = "access.approve" /\ s.cause = 0 /\ s.kind \in Notifying /\ Affected(s) = Affected(p)
    BY <1>2
  <2> HIDE DEF s
  <2>2. Agree(p, s) /\ Agree(s, p) /\ Fit(s, Minted)
    BY <1>1, <2>1, QuietAgrees
  <2>3. Agree(p, r) /\ Agree(r, p)
    BY <1>1, <1>3, QuietAgrees
  <2>4. Agree(s, r) /\ Agree(r, s)
    BY <1>3, <2>1, QuietAgrees
  <2>5. ~Provided(p, s) /\ ~Provided(s, p) /\ ~Provided(s, r) /\ ~Provided(r, p) /\ ~Provided(r, s)
    BY <1>3, <2>1 DEF Provided
  <2>6. Approved(p, s, r)
    BY <1>3, <2>1 DEF Approved
  <2>7. s.cause = 0 /\ r.cause \in 0..1
    BY <1>3, <2>1
  <2>8. Good(<<p>> \o <<s, r>>, Minted)
    BY <1>1, <1>3, <2>2, <2>3, <2>4, <2>5, <2>6, <2>7, GoodThree
  <2>. QED
    BY <2>8 DEF s
<1>7. CASE f = <<>>
  BY <1>1, <1>7, GoodOne
<1>. QED
  BY <1>4, <1>5, <1>6, <1>7

LEMMA AccessGood ==
  ASSUME StreamInv, NEW p \in AccessPrimaries \cup DetectorPrimaries, NEW f \in AccessSaga(p)
  PROVE  Good(<<p>> \o f, Minted)
<1>1. AccessSaid(p) /\ Fit(p, Minted)
  BY AccessFacts DEF AccessSaid
<1>2. CASE f = <<>>
  BY <1>1, <1>2, GoodOne
<1>3. CASE p.kind = "access.request"
  <2>1. f \in RequestSaga(p)
    BY <1>3 DEF AccessSaga
  <2>. QED
    BY <1>1, <1>3, <2>1, RequestGood
<1>4. CASE p.kind = "recertification" /\ p.ent # Nil /\ f = <<Revoke(p.subject, p.ent)>>
  <2> DEFINE q == Revoke(p.subject, p.ent)
  <2>1. p.subject \in People /\ Known(p.ent, Minted) /\ p.kind \in Notifying
    BY <1>1, <1>4 DEF AccessSaid, Notifying
  <2>2. q = Draft("access.revoke", System, p.subject, 0, p.ent, Nil)
    BY DEF Revoke
  <2>3. Fit(Draft("access.revoke", System, p.subject, 0, p.ent, Nil), Minted)
    BY <2>1, RevokeFits
  <2>4. q.kind = "access.revoke" /\ q.cause = 0
    BY <2>2 DEF Draft
  <2>5. Fit(q, Minted)
    BY <2>2, <2>3
  <2> HIDE DEF q
  <2>6. Agree(p, q) /\ Agree(q, p)
    BY <1>4, <2>1, <2>4, QuietAgrees
  <2>7. ~Provided(p, q) /\ ~Provided(q, p)
    BY <1>4, <2>4 DEF Provided
  <2>8. Good(<<p>> \o <<q>>, Minted)
    BY <1>1, <2>4, <2>5, <2>6, <2>7, GoodTwo
  <2>. QED
    BY <1>4, <2>8 DEF q
<1>5. CASE p.kind = "firefighter.grant" /\ f = <<Then("firefighter.revoke", p.actor, Nil, 0)>>
  <2> DEFINE q == Then("firefighter.revoke", p.actor, Nil, 0)
  <2>1. p.actor \in People /\ p.ent = Nil
    BY <1>1, <1>5 DEF AccessSaid
  <2>2. q = Draft("firefighter.revoke", p.actor, Nil, 0, Nil, Nil)
    BY DEF Then
  <2>3. Fit(Draft("firefighter.revoke", p.actor, Nil, 0, Nil, Nil), Minted)
    BY <2>1, PersonFits
  <2>4. q.kind = "firefighter.revoke" /\ q.cause = 0 /\ q.ent = Nil
    BY <2>2 DEF Draft
  <2>5. Fit(q, Minted)
    BY <2>2, <2>3
  <2> HIDE DEF q
  <2>6. /\ OperationOf("firefighter.grant") = "grant" /\ OperationOf("firefighter.revoke") = "revoke"
    BY OperationsOf
  <2>7. Agree(p, q) /\ Agree(q, p)
    BY <1>5, <2>1, <2>4, <2>6 DEF Agree
  <2>8. ~Provided(p, q) /\ ~Provided(q, p)
    BY <1>5, <2>4 DEF Provided
  <2>9. Good(<<p>> \o <<q>>, Minted)
    BY <1>1, <2>4, <2>5, <2>7, <2>8, GoodTwo
  <2>. QED
    BY <1>5, <2>9 DEF q
<1>6. \/ f = <<>> \/ p.kind = "access.request"
      \/ p.kind = "recertification" /\ p.ent # Nil /\ f = <<Revoke(p.subject, p.ent)>>
      \/ p.kind = "firefighter.grant" /\ f = <<Then("firefighter.revoke", p.actor, Nil, 0)>>
  BY DEF AccessSaga
<1>. QED
  BY <1>2, <1>3, <1>4, <1>5, <1>6

\* The kinds of a transaction are notifications.
LEMMA TxnFacts ==
  ASSUME NEW p \in TxnPrimaries
  PROVE  /\ p.kind \in Notifying \ {"mfa.failure", "session.start"}
         /\ \A m : Fit(p, m)
<1>1. \E kind \in {"payment.sepa", "payment.swift", "card.txn", "trade.book", "wire.approval",
                   "limit.breach", "highvalue.alert"} : \E i, o :
        p = By(kind, i, o) \/ p = About(kind, System, i, o)
  BY DEF TxnPrimaries
<1>2. \A kind, i, o : By(kind, i, o).kind = kind /\ About(kind, System, i, o).kind = kind
  BY DEF By, About, Draft
<1>3. p.kind \in Notifying \ {"mfa.failure", "session.start"}
  BY <1>1, <1>2 DEF Notifying
<1>. QED
  BY <1>3, QuietFits

LEMMA TxnGood ==
  ASSUME NEW p \in TxnPrimaries, NEW f \in TxnSaga(p), NEW m
  PROVE  Good(<<p>> \o f, m)
<1> DEFINE alert == Then("highvalue.alert", System, p.actor, 0)
           wire(a) == Then("wire.approval", a, Nil, 1)
<1>1. Fit(p, m) /\ p.kind \notin {"mfa.failure", "session.start", "access.provision"}
  BY TxnFacts DEF Notifying
<1>2. f = <<>> \/ f = <<alert>> \/ \E a : f = <<alert, wire(a)>>
  BY DEF TxnSaga
<1>3. alert.kind = "highvalue.alert" /\ alert.cause = 0
  BY DEF Then, Draft
<1>4. \A a : wire(a).kind = "wire.approval" /\ wire(a).cause = 1
  BY DEF Then, Draft
<1>5. {"highvalue.alert", "wire.approval"} \subseteq Notifying
  BY DEF Notifying
<1> HIDE DEF alert, wire
<1>6. CASE f = <<>>
  BY <1>1, <1>6, GoodOne
<1>7. CASE f = <<alert>>
  <2>1. f \in Seq({alert}) /\ Len(f) = 1 /\ f[1] = alert
    BY <1>7
  <2>2. \A i \in 1..Len(f) : f[i].kind = "highvalue.alert" /\ f[i].cause \in 0..(i - 1)
    BY <1>3, <2>1
  <2>. QED
    BY <1>1, <1>5, <2>1, <2>2, GoodQuiet
<1>8. ASSUME NEW a, f = <<alert, wire(a)>> PROVE Good(<<p>> \o f, m)
  <2> DEFINE w == wire(a)
  <2>0. w.kind = "wire.approval" /\ w.cause = 1
    BY <1>4
  <2> HIDE DEF w
  <2>1. f \in Seq({alert, w}) /\ Len(f) = 2 /\ f[1] = alert /\ f[2] = w
    BY <1>8 DEF w
  <2>2. \A i \in 1..Len(f) : f[i].kind \in {"highvalue.alert", "wire.approval"} /\ f[i].cause \in 0..(i - 1)
    BY <1>3, <2>0, <2>1
  <2>. QED
    BY <1>1, <1>5, <2>1, <2>2, GoodQuiet
<1>. QED
  BY <1>2, <1>6, <1>7, <1>8

LEMMA ComplianceFits ==
  ASSUME StreamInv, NEW p \in CompliancePrimaries
  PROVE  Fit(p, Minted)
<1>1. \A i \in DOMAIN pool : i \in People
  BY PoolNames
<1>2. ASSUME NEW i, NEW o, NEW kind \in {"gdpr.request", "audit.pull", "duplicate.identity", "nhi.activity"},
             p = About(kind, System, i, o) \/ p = By(kind, i, o)
      PROVE  Fit(p, Minted)
  <2>1. p.kind = kind
    BY <1>2 DEF About, By, Draft
  <2>. QED
    BY <2>1, QuietFits DEF Notifying
<1>3. ASSUME NEW i \in DOMAIN pool, p = About("namecollision", System, i, Nil) PROVE Fit(p, Minted)
  <2>1. Fit(Draft("namecollision", System, i, 0, Nil, Nil), Minted)
    BY <1>1, PersonFits
  <2>. QED
    BY <1>3, <2>1 DEF About
<1>4. ASSUME NEW i \in Managers, p = By("breakglass", i, Nil) PROVE Fit(p, Minted)
  <2>1. i \in People
    BY PoolNames
  <2>2. Fit(Draft("breakglass", i, Nil, 0, Nil, Nil), Minted)
    BY <2>1, PersonFits
  <2>. QED
    BY <1>4, <2>2 DEF By
<1>5. \/ \E kind \in {"gdpr.request", "audit.pull", "duplicate.identity", "nhi.activity"} : \E i, o :
           p = About(kind, System, i, o) \/ p = By(kind, i, o)
      \/ \E i \in DOMAIN pool : p = About("namecollision", System, i, Nil)
      \/ \E i \in Managers : p = By("breakglass", i, Nil)
  <2>1. \/ \E i, o : p = About("gdpr.request", System, i, o)
        \/ \E kind \in {"audit.pull", "duplicate.identity"} : \E i : p = About(kind, System, i, Nil)
        \/ \E i \in DOMAIN pool : p = About("namecollision", System, i, Nil)
        \/ \E i : p = By("nhi.activity", i, Nil)
        \/ \E i \in Managers : p = By("breakglass", i, Nil)
    BY DEF CompliancePrimaries
  <2>. QED
    BY <2>1
<1>. QED
  BY <1>2, <1>3, <1>4, <1>5

LEMMA ComplianceGood ==
  ASSUME StreamInv, NEW p \in CompliancePrimaries, NEW f \in ComplianceSaga(p)
  PROVE  Good(<<p>> \o f, Minted)
<1> DEFINE q == Then("audit.pull", System, p.subject, 0)
<1>1. Fit(p, Minted)
  BY ComplianceFits
<1>2. f = <<>> \/ (p.kind = "gdpr.request" /\ f = <<q>>)
  <2>1. CASE p.kind = "gdpr.request" /\ p.outcome = "retrieval"
    BY <2>1 DEF ComplianceSaga
  <2>2. CASE ~(p.kind = "gdpr.request" /\ p.outcome = "retrieval")
    BY <2>2 DEF ComplianceSaga
  <2>. QED
    BY <2>1, <2>2
<1>3. q.kind = "audit.pull" /\ q.cause = 0 /\ q.kind \in Notifying
  BY DEF Then, Draft, Notifying
<1> HIDE DEF q
<1>4. CASE f = <<>>
  BY <1>1, <1>4, GoodOne
<1>5. CASE p.kind = "gdpr.request" /\ f = <<q>>
  <2>1. Agree(p, q) /\ Agree(q, p) /\ Fit(q, Minted)
    BY <1>3, <1>5, QuietAgrees
  <2>2. ~Provided(p, q) /\ ~Provided(q, p)
    BY <1>3, <1>5 DEF Provided
  <2>. QED
    BY <1>1, <1>3, <1>5, <2>1, <2>2, GoodTwo
<1>. QED
  BY <1>2, <1>4, <1>5

\* An event turned on a victim is what one about the victim would be.
LEMMA Turned ==
  ASSUME NEW kind, NEW a, NEW i, NEW e, NEW o, NEW v, NEW n, ~Mutating(kind)
  PROVE  <<OnVictim(AssembledFrom(n, <<Draft(kind, a, i, 0, e, o)>>)[1], v)>>
           = AssembledFrom(n, <<Draft(kind, v, Nil, 0, e, o)>>)
<1> DEFINE p == Draft(kind, a, i, 0, e, o)
           d == Draft(kind, v, Nil, 0, e, o)
           id == n + 1 - 1
           entry(s) == [draft |-> s, run |-> runs, corr |-> n, cause |-> Nil, key |-> KeyFor(s, id, n)]
           x == entry(d)
<1>1. \A s : AssembledFrom(n, <<s>>) = <<entry(s)>>
  <2> TAKE s
  <2>1. DOMAIN <<s>> = 1..1 /\ <<s>>[1] = s
    OBVIOUS
  <2>2. AssembledFrom(n, <<s>>) = [j \in 1..1 |-> entry(s)]
    BY <2>1 DEF AssembledFrom
  <2> HIDE DEF entry
  <2>. QED
    BY <2>2
<1> HIDE DEF id
<1>2. KeyFor(p, id, n) = <<id>> /\ KeyFor(d, id, n) = <<id>>
  BY DEF KeyFor, Draft
<1>3. OnVictim(entry(p), v) = x
  <2> DEFINE t == Draft(kind, v, i, 0, e, o)
  <2>1. [p EXCEPT !.actor = v] = t
    BY DEF Draft
  <2>2. [t EXCEPT !.subject = Nil] = d
    BY DEF Draft
  <2> HIDE DEF p, d, t
  <2>3. [entry(p) EXCEPT !.draft.actor = v] =
          [draft |-> t, run |-> runs, corr |-> n, cause |-> Nil, key |-> <<id>>]
    BY <1>2, <2>1
  <2>4. [[draft |-> t, run |-> runs, corr |-> n, cause |-> Nil, key |-> <<id>>]
           EXCEPT !.draft.subject = Nil] = x
    BY <1>2, <2>2
  <2>. QED
    BY <2>3, <2>4 DEF OnVictim
<1>4. AssembledFrom(n, <<p>>)[1] = entry(p) /\ AssembledFrom(n, <<d>>) = <<x>>
  BY <1>1
<1> HIDE DEF p, d, entry, x
<1>. QED
  BY <1>3, <1>4 DEF p, d

LEMMA Drafted ==
  ASSUME NEW p \in AuthPrimaries \cup AccessRequests \cup CompliancePrimaries
  PROVE  \E kind, a, i, e, o : p = Draft(kind, a, i, 0, e, o) /\ p.kind = kind
<1>1. \A kind, a, i, e, o : Draft(kind, a, i, 0, e, o).kind = kind
  BY DEF Draft
<1>2. CASE p \in AuthPrimaries
  BY <1>1, <1>2 DEF AuthPrimaries, By, About
<1>3. CASE p \in AccessRequests
  BY <1>1, <1>3 DEF AccessRequests, RequestBy
<1>4. CASE p \in CompliancePrimaries
  BY <1>1, <1>4 DEF CompliancePrimaries, By, About
<1>. QED
  BY <1>2, <1>3, <1>4

\* A primary event whose follow-ons are its own consequences, each of its own.
LEMMA GoodMany ==
  ASSUME NEW m, NEW p, Fit(p, m), ~Provided(p, p), p.kind \notin {"access.request", "access.provision"},
         NEW S, NEW f \in Seq(S),
         \A i \in 1..Len(f) : /\ Fit(f[i], m) /\ f[i].cause = 0 /\ f[i].kind # "access.request"
                              /\ Agree(p, f[i]) /\ Agree(f[i], p),
         \A i, j \in 1..Len(f) : i # j => Agree(f[i], f[j])
  PROVE  Good(<<p>> \o f, m)
<1> DEFINE steps == <<p>> \o f
           n == Len(f)
<1>1. f \in Seq(S \cup {p}) /\ p \in S \cup {p}
  OBVIOUS
<1>2. Leads(steps, p, f)
  BY <1>1, Led
<1> HIDE DEF steps
<1>3. /\ steps \in Seq(Range(steps)) /\ steps # <<>> /\ n \in Nat
      /\ DOMAIN steps = 1..(n + 1) /\ steps[1] = p
      /\ \A i \in 1..n : steps[i + 1] = f[i]
  BY <1>2 DEF Leads
<1> HIDE DEF n
<1>4. ASSUME NEW a \in DOMAIN steps, a # 1
      PROVE  a - 1 \in 1..n /\ steps[a] = f[a - 1] /\ a \in Nat /\ a >= 2
  <2>0. a \in 1..(n + 1) /\ n \in Nat
    BY <1>3
  <2>1. a - 1 \in 1..n /\ (a - 1) + 1 = a /\ a \in Nat /\ a >= 2
    BY <1>4, <2>0
  <2>2. steps[a] = f[a - 1]
    BY <1>3, <2>1
  <2>. QED
    BY <2>1, <2>2
<1>5. ASSUME NEW a \in DOMAIN steps
      PROVE  Fit(steps[a], m) /\ (a # 1 => steps[a].cause \in 0..(a - 2)) /\ steps[a].kind # "access.request"
  <2>1. CASE a = 1
    BY <1>3, <2>1
  <2>2. CASE a # 1
    <3>1. Fit(steps[a], m) /\ steps[a].cause = 0 /\ steps[a].kind # "access.request"
      BY <1>4, <2>2 DEF n
    <3>2. 0 \in 0..(a - 2)
      BY <1>4, <2>2
    <3>. QED
      BY <3>1, <3>2
  <2>. QED
    BY <2>1, <2>2
<1>6. ASSUME NEW a \in DOMAIN steps, NEW b \in DOMAIN steps, a # b
      PROVE  Agree(steps[a], steps[b])
  <2>1. CASE a = 1
    BY <1>3, <1>4, <1>6, <2>1 DEF n
  <2>2. CASE b = 1
    BY <1>3, <1>4, <1>6, <2>2 DEF n
  <2>3. CASE a # 1 /\ b # 1
    <3>1. a - 1 # b - 1
      BY <1>4, <1>6, <2>3
    <3>. QED
      BY <1>4, <2>3, <3>1 DEF n
  <2>. QED
    BY <2>1, <2>2, <2>3
<1>7. Good(steps, m)
  BY <1>3, <1>5, <1>6 DEF Good, Provided
<1>. QED
  BY <1>7 DEF steps

\* A prefix of two lists one after the other.
LEMMA Truncated ==
  ASSUME NEW S, NEW s \in Seq(S), NEW k \in 0..Len(s)
  PROVE  /\ SubSeq(s, 1, k) \in Seq(S) /\ Len(SubSeq(s, 1, k)) = k
         /\ \A i \in 1..k : SubSeq(s, 1, k)[i] = s[i]
OBVIOUS

\* The primary events of joiners, movers and leavers.
JmlKind(kind) == kind \in {"joiner.hire", "contractor.convert", "mover.transfer", "mover.promotion",
                          "mover.manager_change", "leaver.termination", "leaver.resignation", "leaver.loa",
                          "contract.expiry", "rehire"}

\* What is revoked was known before, what is granted is minted now.
LEMMA JmlGood ==
  ASSUME StreamInv, NEW kind, JmlKind(kind), NEW id \in People, NEW S, NEW revoked \in Seq(S),
         \A e \in S : Known(e, Len(stream)),
         NEW G, NEW granted \in Seq(G), \A i \in 1..Len(granted) : granted[i] = <<Minted, i>>
  PROVE  Good(<<About(kind, System, id, Nil)>> \o JmlSaga(About(kind, System, id, Nil), revoked, granted), Minted)
<1> DEFINE p == About(kind, System, id, Nil)
           A == [i \in DOMAIN revoked |-> Revoke(p.subject, revoked[i])]
           B == [i \in DOMAIN granted |-> Provision(p.subject, granted[i], 0)]
           all == A \o B
           T == Range(A) \cup Range(B)
           k == IF Len(all) < MaxFanout THEN Len(all) ELSE MaxFanout
           f == SubSeq(all, 1, k)
           n == Len(revoked)
           l == Len(granted)
<1>1. n \in Nat /\ l \in Nat /\ Minted \in Nat /\ Len(stream) \in Nat /\ Minted = Len(stream) + 1
      /\ DOMAIN revoked = 1..n /\ DOMAIN granted = 1..l /\ StreamAssumption /\ MaxFanout \in Nat
  BY PoolNames DEF StreamInv, StreamSound, StreamAssumption
<1>2. p.kind = kind /\ p.subject = id /\ p.ent = Nil /\ p.cause = 0
  BY DEF About, Draft
<1>3. Fit(p, Minted)
  <2>1. Fit(Draft(kind, System, id, 0, Nil, Nil), Minted)
    BY PersonFits
  <2>. QED
    BY <2>1 DEF About
<1>4. Mutating(kind) /\ OperationOf(kind) \notin {"grant", "revoke"}
      /\ kind \notin {"access.request", "access.provision", "mfa.failure", "session.start"}
  BY OperationsOf DEF JmlKind
<1> HIDE DEF p, n, l
<1>5. A \in Seq(T) /\ Len(A) = n /\ DOMAIN A = 1..n
  BY <1>1 DEF Range
<1>6. B \in Seq(T) /\ Len(B) = l /\ DOMAIN B = 1..l
  BY <1>1 DEF Range
<1>7. \A i \in 1..n : A[i] = Revoke(id, revoked[i])
  BY <1>1, <1>2
<1>8. \A i \in 1..l : B[i] = Provision(id, granted[i], 0)
  BY <1>1, <1>2
<1> HIDE DEF A, B, T
<1>9. /\ all \in Seq(T) /\ Len(all) = n + l
      /\ \A i \in 1..(n + l) : all[i] = IF i <= n THEN A[i] ELSE B[i - n]
  <2>1. all \in Seq(T)
    BY <1>5, <1>6
  <2>. QED
    BY <1>5, <1>6, <2>1, ConcatElements
<1> HIDE DEF all
<1>10. k \in 0..Len(all)
  <2>1. Len(all) \in Nat /\ MaxFanout \in Nat
    BY <1>1, <1>9
  <2>2. CASE Len(all) < MaxFanout
    BY <2>1, <2>2
  <2>3. CASE ~(Len(all) < MaxFanout)
    BY <2>1, <2>3
  <2>. QED
    BY <2>2, <2>3
<1> HIDE DEF k
<1>11. f \in Seq(T) /\ Len(f) = k /\ \A i \in 1..k : f[i] = all[i]
  BY <1>9, <1>10, Truncated
<1> HIDE DEF f
<1>12. ASSUME NEW i \in 1..Len(f)
       PROVE  \/ /\ f[i].kind = "access.revoke" /\ f[i].cause = 0
                 /\ Known(f[i].ent, Len(stream)) /\ Fit(f[i], Minted)
              \/ /\ f[i].kind = "access.provision" /\ f[i].cause = 0
                 /\ i - n \in 1..l /\ f[i].ent = <<Minted, i - n>> /\ Fit(f[i], Minted)
  <2>1. i \in 1..(n + l) /\ f[i] = all[i] /\ i \in Nat
    BY <1>1, <1>9, <1>10, <1>11
  <2>2. CASE i <= n
    <3>1. i \in 1..n /\ f[i] = Revoke(id, revoked[i])
      BY <1>7, <1>9, <2>1, <2>2
    <3> DEFINE e == revoked[i]
    <3>2. Known(e, Len(stream))
      BY <1>1, <3>1
    <3> HIDE DEF e
    <3>3. Known(e, Minted)
      BY <1>1, <3>2, KnownLater
    <3>4. f[i] = Draft("access.revoke", System, id, 0, e, Nil)
      BY <3>1 DEF Revoke, e
    <3>5. Fit(Draft("access.revoke", System, id, 0, e, Nil), Minted)
      BY <3>3, RevokeFits
    <3>. QED
      BY <3>2, <3>4, <3>5 DEF Draft
  <2>3. CASE ~(i <= n)
    <3>1. i - n \in 1..l
      BY <1>1, <2>1, <2>3
    <3>2. f[i] = Provision(id, granted[i - n], 0)
      BY <1>8, <1>9, <2>1, <2>3, <3>1
    <3>3. granted[i - n] = <<Minted, i - n>> /\ i - n \in Nat
      BY <3>1 DEF l
    <3> DEFINE e == <<Minted, i - n>>
               j == i - n
    <3>4. f[i] = Draft("access.provision", System, id, 0, <<Minted, j>>, Nil)
      BY <3>2, <3>3 DEF Provision
    <3>5. Fit(Draft("access.provision", System, id, 0, <<Minted, j>>, Nil), Minted)
      <4>1. OperationOf("access.provision") = "grant" /\ j \in Nat
        BY <3>3, OperationsOf
      <4> HIDE DEF j
      <4>. QED
        BY <4>1, MintedFits
    <3>. QED
      BY <3>1, <3>4, <3>5 DEF Draft
  <2>. QED
    BY <2>2, <2>3
<1>13. /\ OperationOf("access.revoke") = "revoke" /\ OperationOf("access.provision") = "grant"
  BY OperationsOf
<1>14. ASSUME NEW i \in 1..Len(f)
       PROVE  f[i].ent # Nil /\ f[i].kind \in {"access.revoke", "access.provision"}
              /\ OperationOf(f[i].kind) \in {"revoke", "grant"}
  <2>1. \A j \in Nat : <<Minted, j>> # Nil
    BY <1>1, NamesDiffer
  <2>2. \A e : Known(e, Len(stream)) => e # Nil
    BY <1>1, NamesDiffer
  <2>3. i - n \in 1..l => i - n \in Nat
    OBVIOUS
  <2>. QED
    BY <1>12, <1>13, <2>1, <2>2, <2>3
<1>15. ASSUME NEW e, Known(e, Len(stream)), NEW j \in Nat
       PROVE  e # <<Minted, j>>
  <2> SUFFICES ASSUME e = <<Minted, j>> PROVE FALSE
    OBVIOUS
  <2>1. e \notin Seeded
    BY <1>1, NamesDiffer
  <2>2. PICK c \in 0..Len(stream), d \in Nat : e = <<c, d>>
    BY <1>15, <2>1 DEF Known
  <2>3. <<c, d>> = <<Minted, j>>
    BY <2>2
  <2>4. c = Minted
    BY <2>3, SamePair
  <2>. QED
    BY <1>1, <2>2, <2>4
<1>16. ASSUME NEW i \in 1..Len(f), NEW j \in 1..Len(f), i # j
       PROVE  Agree(f[i], f[j])
  <2>1. ~(f[i].kind = "mfa.failure" /\ f[j].kind = "session.start") /\ f[i].ent # Nil
    BY <1>14
  <2>2. ASSUME OperationOf(f[j].kind) = "grant" PROVE f[i].ent # f[j].ent
    <3>1. f[j].kind = "access.provision" /\ j - n \in 1..l /\ f[j].ent = <<Minted, j - n>>
      BY <1>12, <1>13, <2>2
    <3>2. CASE Known(f[i].ent, Len(stream))
      <4>1. j - n \in Nat
        BY <3>1
      <4>. QED
        BY <1>15, <3>1, <3>2, <4>1
    <3>3. CASE f[i].ent = <<Minted, i - n>>
      <4>1. i - n # j - n
        BY <1>1, <1>16, <1>11, <1>9, <1>10
      <4>. QED
        BY <3>1, <3>3, <4>1, SamePair
    <3>. QED
      BY <1>12, <3>2, <3>3
  <2>. QED
    BY <2>1, <2>2 DEF Agree
<1>17. ASSUME NEW i \in 1..Len(f)
       PROVE  Agree(p, f[i]) /\ Agree(f[i], p) /\ f[i].kind # "access.request" /\ Fit(f[i], Minted) /\ f[i].cause = 0
  <2>1. f[i].ent # Nil /\ f[i].kind \in {"access.revoke", "access.provision"}
    BY <1>14
  <2>2. Agree(p, f[i]) /\ Agree(f[i], p)
    BY <1>2, <1>4, <2>1 DEF Agree
  <2>. QED
    BY <1>12, <2>1, <2>2
<1>18. p.kind \notin {"access.request", "access.provision"} /\ ~Provided(p, p)
  BY <1>2, <1>4 DEF Provided
<1>19. Good(<<p>> \o f, Minted)
  <2>1. \A i \in 1..Len(f) : /\ Fit(f[i], Minted) /\ f[i].cause = 0 /\ f[i].kind # "access.request"
                             /\ Agree(p, f[i]) /\ Agree(f[i], p)
    BY <1>17
  <2>2. \A i, j \in 1..Len(f) : i # j => Agree(f[i], f[j])
    BY <1>16
  <2>3. f \in Seq(T)
    BY <1>11
  <2>. QED
    BY <1>3, <1>18, <2>1, <2>2, <2>3, GoodMany, Zenon
<1>20. f = JmlSaga(p, revoked, granted)
  BY DEF f, k, all, A, B, JmlSaga
<1>. QED
  BY <1>19, <1>20 DEF p

-----------------------------------------------------------------------------
(* Stream: the pool *)

\* A set put in some order.
LEMMA SomeOrder ==
  ASSUME NEW S, IsFiniteSet(S)
  PROVE  SetToSeq(S) \in Seq(S)
<1> DEFINE k == Cardinality(S)
<1>1. k \in Nat /\ Bijection(1..k, S) # {}
  BY FS_CardinalityType DEF ExistsBijection
<1>2. PICK g : g \in Bijection(1..k, S)
  BY <1>1
<1>3. g \in [1..k -> S] /\ IsInjective(g)
  BY <1>2 DEF Bijection, Injection
<1>4. SetToSeq(S) \in [1..k -> S]
  BY <1>3 DEF SetToSeq
<1> HIDE DEF k
<1>5. \A f \in [1..k -> S] : f \in Seq(S)
  BY <1>1
<1>. QED
  BY <1>4, <1>5

\* What is granted with the saga of that number: minted with it, one by one.
Fresh(granted, m) ==
  /\ granted \in Seq(Range(granted))
  /\ \A i \in 1..Len(granted) : granted[i] = <<m, i>>

LEMMA FreshGrants ==
  ASSUME StreamInv
  PROVE  /\ Fresh(<<>>, Minted)
         /\ \A granted \in NewGrants : Fresh(granted, Minted)
<1>1. MaxGrants \in Nat
  BY DEF StreamInv, StreamAssumption
<1>2. Fresh(<<>>, Minted)
  BY DEF Fresh
<1>3. ASSUME NEW granted \in NewGrants PROVE Fresh(granted, Minted)
  <2> DEFINE all == [i \in 1..MaxGrants |-> <<Minted, i>>]
             G == Range(all)
  <2>1. all \in Seq(G) /\ Len(all) = MaxGrants /\ \A i \in 1..MaxGrants : all[i] = <<Minted, i>>
    BY <1>1 DEF Range
  <2>2. PICK n \in 0..MaxGrants : granted = SubSeq(all, 1, n)
    BY DEF NewGrants
  <2> HIDE DEF all, G
  <2>3. granted \in Seq(G) /\ Len(granted) = n /\ \A i \in 1..n : granted[i] = all[i]
    BY <2>1, <2>2, Truncated
  <2>4. granted \in Seq(Range(granted))
    BY <2>3, OwnRange
  <2>5. \A i \in 1..n : i \in 1..MaxGrants
    BY <1>1
  <2>. QED
    BY <2>1, <2>3, <2>4, <2>5 DEF Fresh
<1>. QED
  BY <1>2, <1>3

LEMMA FreshKnown ==
  ASSUME StreamInv, NEW granted, Fresh(granted, Minted)
  PROVE  IsFiniteSet(Range(granted)) /\ \A e \in Range(granted) : Known(e, Minted)
<1> DEFINE l == Len(granted)
<1>1. l \in Nat /\ DOMAIN granted = 1..l /\ Minted \in Nat
  BY PoolNames DEF Fresh
<1>2. granted \in [1..l -> Range(granted)]
  BY <1>1 DEF Range, Fresh
<1>3. granted \in Surjection(1..l, Range(granted))
  BY <1>1, <1>2 DEF Surjection, Range
<1>4. IsFiniteSet(1..l)
  <2>1. 1 \in Int /\ l \in Int
    BY <1>1
  <2> HIDE DEF l
  <2>. QED
    BY <2>1, FS_Interval
<1>5. IsFiniteSet(Range(granted))
  BY <1>3, <1>4, FS_Surjection
<1>6. ASSUME NEW e \in Range(granted) PROVE Known(e, Minted)
  <2>1. PICK i \in 1..l : e = granted[i]
    BY <1>1 DEF Range
  <2>2. e = <<Minted, i>> /\ i \in Nat /\ Minted \in 0..Minted
    BY <1>1, <2>1 DEF Fresh
  <2>. QED
    BY <2>2 DEF Known
<1>. QED
  BY <1>5, <1>6

\* The pool stays sound as the stream grows,
LEMMA PoolLater ==
  ASSUME NEW p, NEW m \in Nat, NEW n \in Nat, m <= n, PoolSound(p, m)
  PROVE  PoolSound(p, n)
BY KnownLater DEF PoolSound

\* and as one person changes or comes.
LEMMA PoolUpdated ==
  ASSUME NEW p, NEW n, PoolSound(p, n), NEW id \in People, NEW r, Identity(r), IsFiniteSet(r.held),
         \A e \in r.held : Known(e, n)
  PROVE  PoolSound(With(p, id, r), n)
<1> DEFINE q == With(p, id, r)
<1>1. /\ q = [i \in DOMAIN p \cup {id} |-> IF i = id THEN r ELSE p[i]]
      /\ DOMAIN q = DOMAIN p \cup {id} /\ q[id] = r
      /\ \A i \in DOMAIN p \ {id} : q[i] = p[i]
  BY DEF With
<1>2. q = [i \in DOMAIN q |-> q[i]]
  BY DEF With
<1> HIDE DEF q
<1>3. DOMAIN q \subseteq People
  BY <1>1 DEF PoolSound
<1>4. ASSUME NEW i \in DOMAIN q
      PROVE  Identity(q[i]) /\ IsFiniteSet(q[i].held) /\ \A e \in q[i].held : Known(e, n)
  <2>1. CASE i = id
    BY <1>1, <2>1
  <2>2. CASE i # id
    BY <1>1, <2>2 DEF PoolSound
  <2>. QED
    BY <2>1, <2>2
<1>5. PoolSound(q, n)
  BY <1>2, <1>3, <1>4 DEF PoolSound
<1>. QED
  BY <1>5 DEF q

LEMMA Changed ==
  ASSUME StreamInv, NEW id \in DOMAIN pool, NEW state, NEW grade, NEW held
  PROVE  /\ [pool EXCEPT ![id].status = state, ![id].held = held]
              = With(pool, id, [human |-> pool[id].human, grade |-> pool[id].grade, status |-> state, held |-> held])
         /\ [pool EXCEPT ![id].grade = grade, ![id].held = held]
              = With(pool, id, [human |-> pool[id].human, grade |-> grade, status |-> pool[id].status, held |-> held])
<1> DEFINE r == pool[id]
           gone == [human |-> r.human, grade |-> r.grade, status |-> state, held |-> held]
           risen == [human |-> r.human, grade |-> grade, status |-> r.status, held |-> held]
<1>1. pool = [i \in DOMAIN pool |-> pool[i]] /\ DOMAIN pool \cup {id} = DOMAIN pool
  BY DEF StreamInv, PoolSound
<1>2. r = [human |-> r.human, grade |-> r.grade, status |-> r.status, held |-> r.held]
  BY DEF StreamInv, PoolSound, Identity
<1>3. [r EXCEPT !.status = state, !.held = held] = gone /\ [r EXCEPT !.grade = grade, !.held = held] = risen
  <2>1. PICK h, g, s, d : r = [human |-> h, grade |-> g, status |-> s, held |-> d]
    BY <1>2
  <2> HIDE DEF r
  <2>2. r.human = h /\ r.grade = g /\ r.status = s
    BY <2>1
  <2> HIDE DEF gone, risen
  <2>3. /\ gone = [human |-> h, grade |-> g, status |-> state, held |-> held]
        /\ risen = [human |-> h, grade |-> grade, status |-> s, held |-> held]
    BY <2>2 DEF gone, risen
  <2>4. [r EXCEPT !.status = state, !.held = held] = [human |-> h, grade |-> g, status |-> state, held |-> held]
    <3>1. [r EXCEPT !.status = state] = [human |-> h, grade |-> g, status |-> state, held |-> d]
      BY <2>1
    <3>2. [[human |-> h, grade |-> g, status |-> state, held |-> d] EXCEPT !.held = held]
            = [human |-> h, grade |-> g, status |-> state, held |-> held]
      OBVIOUS
    <3>3. [r EXCEPT !.status = state, !.held = held] = [[r EXCEPT !.status = state] EXCEPT !.held = held]
      OBVIOUS
    <3>. QED
      BY <3>1, <3>2, <3>3
  <2>5. [r EXCEPT !.grade = grade, !.held = held] = [human |-> h, grade |-> grade, status |-> s, held |-> held]
    <3>1. [r EXCEPT !.grade = grade] = [human |-> h, grade |-> grade, status |-> s, held |-> d]
      BY <2>1
    <3>2. [[human |-> h, grade |-> grade, status |-> s, held |-> d] EXCEPT !.held = held]
            = [human |-> h, grade |-> grade, status |-> s, held |-> held]
      OBVIOUS
    <3>3. [r EXCEPT !.grade = grade, !.held = held] = [[r EXCEPT !.grade = grade] EXCEPT !.held = held]
      OBVIOUS
    <3>. QED
      BY <3>1, <3>2, <3>3
  <2>. QED
    BY <2>3, <2>4, <2>5
<1>4. /\ [pool EXCEPT ![id].status = state, ![id].held = held]
            = [pool EXCEPT ![id] = [r EXCEPT !.status = state, !.held = held]]
      /\ [pool EXCEPT ![id].grade = grade, ![id].held = held]
            = [pool EXCEPT ![id] = [r EXCEPT !.grade = grade, !.held = held]]
  BY <1>1
<1> HIDE DEF gone, risen
<1>5. \A x : [pool EXCEPT ![id] = x] = With(pool, id, x)
  BY <1>1 DEF With
<1>. QED
  BY <1>3, <1>4, <1>5 DEF gone, risen

\* What is held later: what was kept and what was granted.
LEMMA KeptHeld ==
  ASSUME StreamInv, NEW id \in DOMAIN pool, NEW revoked, NEW granted, Fresh(granted, Minted),
         NEW n \in Nat, Minted <= n
  PROVE  /\ IsFiniteSet((pool[id].held \ revoked) \cup Range(granted))
         /\ \A e \in (pool[id].held \ revoked) \cup Range(granted) : Known(e, n)
         /\ IsFiniteSet(pool[id].held) /\ IsFiniteSet(Range(granted))
         /\ \A e \in pool[id].held \cup Range(granted) : Known(e, n)
<1>1. IsFiniteSet(pool[id].held) /\ \A e \in pool[id].held : Known(e, Minted)
  <2>1. IsFiniteSet(pool[id].held)
    BY DEF StreamInv, PoolSound
  <2>. QED
    BY <2>1, HeldKnown
<1>2. IsFiniteSet(Range(granted)) /\ \A e \in Range(granted) : Known(e, Minted)
  BY FreshKnown
<1>3. IsFiniteSet(pool[id].held \cup Range(granted))
  BY <1>1, <1>2, FS_Union
<1>4. (pool[id].held \ revoked) \cup Range(granted) \subseteq pool[id].held \cup Range(granted)
  OBVIOUS
<1>5. Minted \in Nat
  BY PoolNames
<1>6. \A e : Known(e, Minted) => Known(e, n)
  BY <1>5, KnownLater
<1>7. IsFiniteSet((pool[id].held \ revoked) \cup Range(granted))
  BY <1>3, <1>4, FS_Subset
<1>. QED
  BY <1>1, <1>2, <1>6, <1>7

LEMMA Emitting ==
  ASSUME StreamInv, NEW steps, Good(steps, Minted), Emit(steps)
  PROVE  /\ StreamAssumption /\ StreamSound(stream')
         /\ Len(stream') \in Nat /\ Minted <= Len(stream') /\ PoolSound(pool, Len(stream'))
<1>1. stream' = stream \o Assembled(steps) /\ StreamAssumption /\ StreamSound(stream)
  BY DEF Emit, StreamInv
<1>2. StreamSound(stream') /\ Len(stream') \in Nat /\ Len(stream) < Len(stream')
  BY <1>1, PublishingKeepsStream DEF Assembled, Minted
<1>3. Len(stream) \in Nat /\ Minted = Len(stream) + 1
  BY <1>1 DEF StreamSound, Minted
<1>4. Minted <= Len(stream') /\ Len(stream) <= Len(stream')
  BY <1>2, <1>3
<1>5. PoolSound(pool, Len(stream'))
  BY <1>2, <1>3, <1>4, PoolLater DEF StreamInv
<1>. QED
  BY <1>1, <1>2, <1>4, <1>5

LEMMA ArrivalKeeps ==
  ASSUME StreamInv, NEW steps, Good(steps, Minted), Emit(steps), UNCHANGED pool
  PROVE  StreamInv'
BY Emitting DEF StreamInv

LEMMA JmlEmits ==
  ASSUME StreamInv, NEW kind, JmlKind(kind), NEW id \in People, NEW revoked, revoked \in Seq(Range(revoked)),
         \A e \in Range(revoked) : Known(e, Len(stream)),
         NEW granted, Fresh(granted, Minted), Jml(kind, id, revoked, granted)
  PROVE  /\ StreamAssumption /\ StreamSound(stream')
         /\ Len(stream') \in Nat /\ Minted <= Len(stream') /\ PoolSound(pool, Len(stream'))
<1> DEFINE p == About(kind, System, id, Nil)
           steps == <<p>> \o JmlSaga(p, revoked, granted)
<1>1. granted \in Seq(Range(granted)) /\ \A i \in 1..Len(granted) : granted[i] = <<Minted, i>>
  BY DEF Fresh
<1>2. Good(steps, Minted)
  BY <1>1, JmlGood
<1>3. Emit(steps)
  BY DEF Jml
<1> HIDE DEF steps
<1>. QED
  BY <1>2, <1>3, Emitting

\* A person's access in some order, and nobody's.
LEMMA RevokedKnown ==
  ASSUME StreamInv, NEW id \in DOMAIN pool, NEW revoked \in SUBSET pool[id].held
  PROVE  /\ SetToSeq(revoked) \in Seq(Range(SetToSeq(revoked)))
         /\ \A e \in Range(SetToSeq(revoked)) : Known(e, Len(stream))
<1>1. IsFiniteSet(pool[id].held)
  BY DEF StreamInv, PoolSound
<1>2. IsFiniteSet(revoked)
  BY <1>1, FS_Subset
<1>3. SetToSeq(revoked) \in Seq(revoked)
  BY <1>2, SomeOrder
<1>4. Range(SetToSeq(revoked)) \subseteq revoked
  BY <1>3 DEF Range
<1>5. \A e \in revoked : Known(e, Len(stream))
  BY HeldKnown
<1>. QED
  BY <1>3, <1>4, <1>5, OwnRange

LEMMA NothingRevoked ==
  <<>> \in Seq(Range(<<>>)) /\ \A n : \A e \in Range(<<>>) : Known(e, n)
BY DEF Range

LEMMA LifecycleKeeps ==
  ASSUME StreamInv, NEW kind, JmlKind(kind), NEW id \in DOMAIN pool, NEW state,
         NEW revoked \in SUBSET pool[id].held, NEW granted, Fresh(granted, Minted),
         Lifecycle(kind, id, state, revoked, granted)
  PROVE  StreamInv'
<1> DEFINE held == (pool[id].held \ revoked) \cup Range(granted)
           r == [human |-> pool[id].human, grade |-> pool[id].grade, status |-> state, held |-> held]
<1>1. id \in People
  BY PoolNames
<1>2. /\ StreamAssumption /\ StreamSound(stream')
      /\ Len(stream') \in Nat /\ Minted <= Len(stream') /\ PoolSound(pool, Len(stream'))
  <2>1. Jml(kind, id, SetToSeq(revoked), granted)
    BY DEF Lifecycle
  <2>2. /\ SetToSeq(revoked) \in Seq(Range(SetToSeq(revoked)))
        /\ \A e \in Range(SetToSeq(revoked)) : Known(e, Len(stream))
    BY RevokedKnown
  <2>. QED
    BY <1>1, <2>1, <2>2, JmlEmits
<1>3. pool' = [pool EXCEPT ![id].status = state, ![id].held = held]
  <2>1. pool' = [pool EXCEPT ![id].status = state, ![id].held = (@ \ revoked) \cup Range(granted)]
    BY DEF Lifecycle
  <2>2. pool = [i \in DOMAIN pool |-> pool[i]] /\ Identity(pool[id])
    BY DEF StreamInv, PoolSound
  <2>. QED
    BY <2>1, <2>2 DEF Identity
<1>4. pool' = With(pool, id, r)
  BY <1>3, Changed
<1>5. IsFiniteSet(held) /\ \A e \in held : Known(e, Len(stream'))
  BY <1>2, KeptHeld
<1>6. Identity(r) /\ r.held = held
  BY DEF Identity
<1> HIDE DEF r, held
<1>7. PoolSound(pool', Len(stream'))
  BY <1>1, <1>2, <1>4, <1>5, <1>6, PoolUpdated
<1>. QED
  BY <1>2, <1>7 DEF StreamInv

LEMMA HiredSound ==
  ASSUME StreamInv, NEW human, NEW state, NEW granted, Fresh(granted, Minted), NEW n \in Nat, Minted <= n
  PROVE  /\ Identity(Hired(human, state, granted)) /\ IsFiniteSet(Hired(human, state, granted).held)
         /\ \A e \in Hired(human, state, granted).held : Known(e, n)
<1> DEFINE r == Hired(human, state, granted)
<1>1. Identity(r) /\ r.held = Range(granted)
  BY DEF Hired, Identity
<1>2. IsFiniteSet(Range(granted)) /\ \A e \in Range(granted) : Known(e, Minted)
  BY FreshKnown
<1>3. Minted \in Nat
  BY PoolNames
<1> HIDE DEF r
<1>. QED
  BY <1>1, <1>2, <1>3, KnownLater DEF r

\* What goes with a person's access.
LEMMA GoneSound ==
  ASSUME StreamInv, NEW id \in DOMAIN pool, NEW state, NEW n \in Nat, PoolSound(pool, n)
  PROVE  PoolSound([pool EXCEPT ![id].status = state, ![id].held = {}], n)
<1> DEFINE r == [human |-> pool[id].human, grade |-> pool[id].grade, status |-> state, held |-> {}]
<1>1. [pool EXCEPT ![id].status = state, ![id].held = {}] = With(pool, id, r)
  BY Changed
<1>2. Identity(r) /\ r.held = {}
  BY DEF Identity
<1>3. id \in People
  BY PoolNames
<1> HIDE DEF r
<1>4. IsFiniteSet(r.held) /\ \A e \in r.held : Known(e, n)
  BY <1>2, FS_EmptySet
<1>5. PoolSound(With(pool, id, r), n)
  BY <1>2, <1>3, <1>4, PoolUpdated
<1>. QED
  BY <1>1, <1>5

LEMMA JoinKeeps == StreamInv /\ Join => StreamInv'
<1> SUFFICES ASSUME StreamInv, Join PROVE StreamInv'
  OBVIOUS
<1>1. PICK id \in Recruits \ DOMAIN pool, human \in BOOLEAN, granted \in NewGrants :
        Jml("joiner.hire", id, <<>>, granted) /\ pool' = With(pool, id, Hired(human, "active", granted))
  BY DEF Join
<1>2. id \in People /\ JmlKind("joiner.hire") /\ Fresh(granted, Minted)
  BY FreshGrants DEF People, JmlKind
<1>3. /\ StreamAssumption /\ StreamSound(stream')
      /\ Len(stream') \in Nat /\ Minted <= Len(stream') /\ PoolSound(pool, Len(stream'))
  BY <1>1, <1>2, NothingRevoked, JmlEmits
<1> DEFINE r == Hired(human, "active", granted)
<1>4. Identity(r) /\ IsFiniteSet(r.held) /\ \A e \in r.held : Known(e, Len(stream'))
  BY <1>2, <1>3, HiredSound
<1> HIDE DEF r
<1>5. PoolSound(With(pool, id, r), Len(stream'))
  BY <1>2, <1>3, <1>4, PoolUpdated
<1>. QED
  BY <1>1, <1>3, <1>5 DEF StreamInv, r

LEMMA PromotionKeeps ==
  ASSUME StreamInv, NEW id \in DOMAIN pool, NEW grade, NEW revoked \in SUBSET pool[id].held,
         NEW granted, Fresh(granted, Minted),
         Jml("mover.promotion", id, SetToSeq(revoked), granted),
         pool' = [pool EXCEPT ![id].grade = grade, ![id].held = (@ \ revoked) \cup Range(granted)]
  PROVE  StreamInv'
<1> DEFINE held == (pool[id].held \ revoked) \cup Range(granted)
           r == [human |-> pool[id].human, grade |-> grade, status |-> pool[id].status, held |-> held]
<1>1. id \in People /\ JmlKind("mover.promotion")
  BY PoolNames DEF JmlKind
<1>2. /\ StreamAssumption /\ StreamSound(stream')
      /\ Len(stream') \in Nat /\ Minted <= Len(stream') /\ PoolSound(pool, Len(stream'))
  <2>1. /\ SetToSeq(revoked) \in Seq(Range(SetToSeq(revoked)))
        /\ \A e \in Range(SetToSeq(revoked)) : Known(e, Len(stream))
    BY RevokedKnown
  <2>. QED
    BY <1>1, <2>1, JmlEmits
<1>3. pool' = [pool EXCEPT ![id].grade = grade, ![id].held = held]
  <2>1. pool = [i \in DOMAIN pool |-> pool[i]] /\ Identity(pool[id])
    BY DEF StreamInv, PoolSound
  <2>. QED
    BY <2>1 DEF Identity
<1>4. pool' = With(pool, id, r)
  BY <1>3, Changed
<1>5. IsFiniteSet(held) /\ \A e \in held : Known(e, Len(stream'))
  BY <1>2, KeptHeld
<1>6. Identity(r) /\ r.held = held
  BY DEF Identity
<1> HIDE DEF r, held
<1>7. PoolSound(With(pool, id, r), Len(stream'))
  BY <1>1, <1>2, <1>5, <1>6, PoolUpdated
<1>. QED
  BY <1>2, <1>4, <1>7 DEF StreamInv

LEMMA PeopleOf ==
  \A statuses : Humans(statuses) \subseteq DOMAIN pool /\ In(statuses) \subseteq DOMAIN pool
BY DEF Humans, In

LEMMA MoveKeeps == StreamInv /\ Move => StreamInv'
<1> SUFFICES ASSUME StreamInv, Move PROVE StreamInv'
  OBVIOUS
<1>1. Fresh(<<>>, Minted) /\ \A granted \in NewGrants : Fresh(granted, Minted)
  BY FreshGrants
<1>2. JmlKind("mover.transfer") /\ JmlKind("mover.manager_change") /\ JmlKind("mover.promotion")
  BY DEF JmlKind
<1>3. ASSUME NEW id \in Humans(ActiveLike \cup {"suspended", "dormant"}), NEW granted \in NewGrants,
             NEW revoked \in SUBSET pool[id].held,
             Lifecycle("mover.transfer", id, pool[id].status, revoked, granted)
      PROVE  StreamInv'
  <2>1. id \in DOMAIN pool
    BY PeopleOf
  <2>. QED
    BY <1>1, <1>2, <1>3, <2>1, LifecycleKeeps
<1>4. ASSUME NEW id \in Humans(ActiveLike), NEW granted \in NewGrants, NEW grade,
             NEW revoked \in SUBSET pool[id].held,
             Jml("mover.promotion", id, SetToSeq(revoked), granted),
             pool' = [pool EXCEPT ![id].grade = grade, ![id].held = (@ \ revoked) \cup Range(granted)]
      PROVE  StreamInv'
  <2>1. id \in DOMAIN pool
    BY PeopleOf
  <2>. QED
    BY <1>1, <1>4, <2>1, PromotionKeeps
<1>5. ASSUME NEW id \in Humans(ActiveLike), Lifecycle("mover.manager_change", id, pool[id].status, {}, <<>>)
      PROVE  StreamInv'
  <2>1. id \in DOMAIN pool /\ {} \in SUBSET pool[id].held
    BY PeopleOf
  <2>. QED
    BY <1>1, <1>2, <1>5, <2>1, LifecycleKeeps
<1>. QED
  BY <1>3, <1>4, <1>5 DEF Move

LEMMA LeaveKeeps == StreamInv /\ Leave => StreamInv'
<1> SUFFICES ASSUME StreamInv, Leave PROVE StreamInv'
  OBVIOUS
<1>1. Fresh(<<>>, Minted)
  BY FreshGrants
<1>2. ASSUME NEW kind \in {"leaver.termination", "leaver.resignation", "leaver.loa", "contract.expiry"},
             NEW id \in DOMAIN pool, NEW state, NEW revoked \in {{}, pool[id].held},
             Lifecycle(kind, id, state, revoked, <<>>)
      PROVE  StreamInv'
  <2>1. JmlKind(kind) /\ revoked \in SUBSET pool[id].held
    BY DEF JmlKind
  <2>. QED
    BY <1>1, <1>2, <2>1, LifecycleKeeps
<1>3. ActiveHumans \subseteq DOMAIN pool
  BY PoolNames
<1>. QED
  BY <1>2, <1>3, PeopleOf DEF Leave

LEMMA ReturnKeeps == StreamInv /\ Return => StreamInv'
<1> SUFFICES ASSUME StreamInv, Return PROVE StreamInv'
  OBVIOUS
<1>1. Fresh(<<>>, Minted) /\ \A granted \in NewGrants : Fresh(granted, Minted)
  BY FreshGrants
<1>2. JmlKind("rehire") /\ JmlKind("contractor.convert")
  BY DEF JmlKind
<1>3. ASSUME NEW id \in In({"terminated"}), NEW granted \in NewGrants,
             Lifecycle("rehire", id, "active", {}, granted)
      PROVE  StreamInv'
  <2>1. id \in DOMAIN pool /\ {} \in SUBSET pool[id].held
    BY PeopleOf
  <2>. QED
    BY <1>1, <1>2, <1>3, <2>1, LifecycleKeeps
<1>4. ASSUME NEW old \in Humans(ActiveLike), NEW new \in Recruits \ DOMAIN pool, NEW granted \in NewGrants,
             Jml("contractor.convert", new, <<>>, granted),
             pool' = With([pool EXCEPT ![old].status = "disabled", ![old].held = {}],
                          new, Hired(TRUE, "onboarding", granted))
      PROVE  StreamInv'
  <2>1. old \in DOMAIN pool /\ new \in People /\ Fresh(granted, Minted)
    BY <1>1, PeopleOf DEF People
  <2>2. /\ StreamAssumption /\ StreamSound(stream')
        /\ Len(stream') \in Nat /\ Minted <= Len(stream') /\ PoolSound(pool, Len(stream'))
    BY <1>2, <1>4, <2>1, NothingRevoked, JmlEmits
  <2> DEFINE r == Hired(TRUE, "onboarding", granted)
             p == [pool EXCEPT ![old].status = "disabled", ![old].held = {}]
  <2>3. Identity(r) /\ IsFiniteSet(r.held) /\ \A e \in r.held : Known(e, Len(stream'))
    BY <2>1, <2>2, HiredSound
  <2>4. PoolSound(p, Len(stream'))
    BY <2>1, <2>2, GoneSound
  <2> HIDE DEF r, p
  <2>5. PoolSound(With(p, new, r), Len(stream'))
    BY <2>1, <2>3, <2>4, PoolUpdated
  <2>. QED
    BY <1>4, <2>2, <2>5 DEF StreamInv, r, p
<1>. QED
  BY <1>3, <1>4 DEF Return

LEMMA ReorgKeeps == StreamInv /\ InjectReorg => StreamInv'
<1> SUFFICES ASSUME StreamInv, InjectReorg PROVE StreamInv'
  OBVIOUS
<1>1. ASSUME NEW kind, NEW id \in DOMAIN pool, Emit(<<About(kind, System, id, Nil)>>)
      PROVE  /\ StreamAssumption /\ StreamSound(stream')
             /\ Len(stream') \in Nat /\ PoolSound(pool, Len(stream'))
  <2>1. id \in People
    BY PoolNames
  <2>2. Fit(Draft(kind, System, id, 0, Nil, Nil), Minted)
    BY <2>1, PersonFits
  <2>3. Good(<<About(kind, System, id, Nil)>>, Minted)
    BY <2>2, GoodOne DEF About
  <2>. QED
    BY <1>1, <2>3, Emitting
<1>2. ASSUME NEW id \in Humans(ActiveLike \cup {"suspended", "dormant"}), NEW state,
             Emit(<<About("leaver.termination", System, id, Nil)>>),
             pool' = [pool EXCEPT ![id].status = state, ![id].held = {}]
      PROVE  StreamInv'
  <2>1. id \in DOMAIN pool
    BY PeopleOf
  <2>2. PoolSound(pool', Len(stream'))
    BY <1>1, <1>2, <2>1, GoneSound
  <2>. QED
    BY <1>1, <1>2, <2>1, <2>2 DEF StreamInv
<1>3. ASSUME NEW id \in Humans(ActiveLike),
             Emit(<<About("mover.manager_change", System, id, Nil)>>), UNCHANGED pool
      PROVE  StreamInv'
  <2>1. id \in DOMAIN pool
    BY PeopleOf
  <2>. QED
    BY <1>1, <1>3, <2>1 DEF StreamInv
<1>. QED
  BY <1>2, <1>3 DEF InjectReorg

LEMMA InjectKeeps == StreamInv /\ Inject => StreamInv'
<1> SUFFICES ASSUME StreamInv, Inject PROVE StreamInv'
  OBVIOUS
<1>1. ASSUME NEW p \in AuthPrimaries \cup TxnPrimaries \cup CompliancePrimaries, Emit(<<p>>), UNCHANGED pool
      PROVE  StreamInv'
  <2>1. Fit(p, Minted)
    BY AuthFits, TxnFacts, ComplianceFits
  <2>2. Good(<<p>>, Minted)
    BY <2>1, GoodOne
  <2>. QED
    BY <1>1, <2>2, ArrivalKeeps
<1>. QED
  BY <1>1 DEF Inject

\* One event of an insider threat.
TurnKinds == {"login.success", "session.start", "stepup", "access.request", "nhi.activity", "audit.pull"}

LEMMA TurningKeepsStream ==
  ASSUME StreamAssumption, NEW list, StreamSound(list), NEW v,
         NEW p \in AuthPrimaries \cup AccessRequests \cup CompliancePrimaries, p.kind \in TurnKinds,
         NEW log, log = list \o <<OnVictim(AssembledFrom(Len(list) + 1, <<p>>)[1], v)>>
  PROVE  StreamSound(log) /\ Len(log) \in Nat /\ Len(list) < Len(log)
<1>1. PICK kind, a, i, e, o : p = Draft(kind, a, i, 0, e, o) /\ p.kind = kind
  BY Drafted
<1> DEFINE d == Draft(kind, v, Nil, 0, e, o)
           n == Len(list) + 1
<1>2. kind \in Notifying /\ ~Mutating(kind) /\ d.kind = kind
  BY <1>1, QuietKinds DEF Notifying, Draft, TurnKinds
<1>3. <<OnVictim(AssembledFrom(n, <<Draft(kind, a, i, 0, e, o)>>)[1], v)>> = AssembledFrom(n, <<d>>)
  BY <1>2, Turned
<1>4. log = list \o AssembledFrom(n, <<d>>)
  BY <1>1, <1>3
<1> HIDE DEF d
<1>5. Good(<<d>>, n)
  BY <1>2, QuietFits, GoodOne
<1>. QED
  BY <1>4, <1>5, PublishingKeepsStream

\* Two events one by one.
LEMMA OneByOne ==
  ASSUME NEW S, NEW s \in Seq(S), NEW x \in S, NEW y \in S
  PROVE  s \o <<x, y>> = (s \o <<x>>) \o <<y>> /\ Len(s \o <<x>>) = Len(s) + 1
<1> DEFINE a == s \o <<x>>
           b == a \o <<y>>
           c == s \o <<x, y>>
           n == Len(s)
<1>1. /\ n \in Nat /\ a \in Seq(S) /\ Len(a) = n + 1 /\ a[n + 1] = x
      /\ \A i \in 1..n : a[i] = s[i]
  OBVIOUS
<1>2. /\ c \in Seq(S) /\ Len(c) = n + 2 /\ c[n + 1] = x /\ c[n + 2] = y
      /\ \A i \in 1..n : c[i] = s[i]
  <2> DEFINE both == <<x, y>>
  <2>1. both \in Seq(S) /\ Len(both) = 2 /\ both[1] = x /\ both[2] = y
    OBVIOUS
  <2> HIDE DEF both
  <2>2. s \o both \in Seq(S)
    BY <2>1
  <2>3. /\ n \in Nat /\ Len(s \o both) = n + 2
        /\ \A i \in 1..(n + 2) : (s \o both)[i] = IF i <= n THEN s[i] ELSE both[i - n]
    BY <2>1, ConcatElements
  <2>4. (n + 1) - n = 1 /\ (n + 2) - n = 2 /\ ~(n + 1 <= n) /\ ~(n + 2 <= n)
        /\ n + 1 \in 1..(n + 2) /\ n + 2 \in 1..(n + 2)
        /\ \A i \in 1..n : i <= n /\ i \in 1..(n + 2)
    BY <2>3
  <2>. QED
    BY <2>1, <2>2, <2>3, <2>4 DEF both
<1> HIDE DEF a, c
<1>3. b \in Seq(S) /\ Len(b) = n + 2 /\ b[n + 2] = y /\ \A i \in 1..(n + 1) : b[i] = a[i]
  BY <1>1
<1> HIDE DEF b
<1>4. \A i \in 1..(n + 2) : b[i] = c[i]
  <2> TAKE i \in 1..(n + 2)
  <2>1. i \in 1..n \/ i = n + 1 \/ i = n + 2
    BY <1>1
  <2>2. i \in 1..(n + 1) \/ i = n + 2
    BY <1>1
  <2>. QED
    BY <1>1, <1>2, <1>3, <2>1, <2>2
<1>5. b = c
  BY <1>2, <1>3, <1>4
<1>. QED
  BY <1>1, <1>5 DEF a, b, c

\* An insider threat begins with two events in one turn, and goes on with one.
LEMMA ThreatKeeps == StreamInv /\ (Compromise \/ Exfiltrate) => StreamInv'
<1> SUFFICES ASSUME StreamInv, Compromise \/ Exfiltrate PROVE StreamInv'
  OBVIOUS
<1> DEFINE n == Len(stream)
           event(i, p, v) == OnVictim(AssembledFrom(n + i, <<p>>)[1], v)
<1>1. StreamAssumption /\ StreamSound(stream) /\ n \in Nat /\ stream \in Seq(Range(stream))
  BY DEF StreamInv, StreamSound
<1>2. UNCHANGED pool
  BY DEF Compromise, Exfiltrate, Turn
<1>3. CASE Compromise
  <2>1. PICK v \in ActiveHumans, login \in AuthPrimaries, session \in AuthPrimaries :
          /\ login.kind = "login.success" /\ session.kind = "session.start"
          /\ Turn(<<login, session>>, v)
    BY <1>3 DEF Compromise
  <2> DEFINE both == <<login, session>>
             x == event(1, login, v)
             y == event(2, session, v)
             mid == stream \o <<x>>
  <2>2. stream' = stream \o <<x, y>>
    <3>1. DOMAIN both = 1..2 /\ both[1] = login /\ both[2] = session
      OBVIOUS
    <3>2. stream' = stream \o [i \in 1..2 |-> event(i, both[i], v)]
      BY <2>1, <3>1 DEF Turn
    <3> HIDE DEF both, event
    <3>3. [i \in 1..2 |-> event(i, both[i], v)] = <<x, y>>
      BY <3>1
    <3>. QED
      BY <3>2, <3>3
  <2> HIDE DEF x, y
  <2>3. stream' = mid \o <<y>> /\ Len(mid) = n + 1
    <3> DEFINE S == Range(stream) \cup {x, y}
    <3>1. stream \in Seq(S) /\ x \in S /\ y \in S
      BY <1>1
    <3> HIDE DEF S
    <3>. QED
      BY <2>2, <3>1, OneByOne
  <2>4. StreamSound(mid)
    <3>1. mid = stream \o <<OnVictim(AssembledFrom(Len(stream) + 1, <<login>>)[1], v)>>
      BY DEF x
    <3>2. login.kind \in TurnKinds
      BY <2>1 DEF TurnKinds
    <3> HIDE DEF mid
    <3>. QED
      BY <1>1, <3>1, <3>2, TurningKeepsStream
  <2>5. StreamSound(stream') /\ Len(stream') \in Nat /\ Len(mid) < Len(stream')
    <3>1. Len(mid) + 1 = n + 2
      BY <1>1, <2>3
    <3>2. stream' = mid \o <<OnVictim(AssembledFrom(Len(mid) + 1, <<session>>)[1], v)>>
      BY <2>3, <3>1 DEF y
    <3>3. session.kind \in TurnKinds
      BY <2>1 DEF TurnKinds
    <3> HIDE DEF mid
    <3>. QED
      BY <1>1, <2>4, <3>2, <3>3, TurningKeepsStream
  <2>6. Len(stream) <= Len(stream')
    BY <1>1, <2>3, <2>5
  <2>7. PoolSound(pool, Len(stream'))
    BY <1>1, <2>5, <2>6, PoolLater DEF StreamInv
  <2>. QED
    BY <1>1, <1>2, <2>5, <2>7 DEF StreamInv
<1>4. CASE Exfiltrate
  <2>1. PICK v \in Range(victims), p \in AuthPrimaries \cup AccessRequests \cup CompliancePrimaries :
          p.kind \in TurnKinds /\ Turn(<<p>>, v)
    <3>1. PICK v \in Range(victims), p \in AuthPrimaries \cup AccessRequests \cup CompliancePrimaries :
            /\ p.kind \in {"stepup", "access.request", "nhi.activity", "audit.pull"}
            /\ Turn(<<p>>, v)
      BY <1>4 DEF Exfiltrate
    <3>2. p.kind \in TurnKinds
      BY <3>1 DEF TurnKinds
    <3>. QED
      BY <3>1, <3>2
  <2> DEFINE one == <<p>>
             x == event(1, p, v)
  <2>2. stream' = stream \o <<x>>
    <3>1. DOMAIN one = 1..1 /\ one[1] = p
      OBVIOUS
    <3>2. stream' = stream \o [i \in 1..1 |-> event(i, one[i], v)]
      BY <2>1, <3>1 DEF Turn
    <3> HIDE DEF one, event
    <3>3. [i \in 1..1 |-> event(i, one[i], v)] = <<x>>
      BY <3>1
    <3>. QED
      BY <3>2, <3>3
  <2>3. StreamSound(stream') /\ Len(stream') \in Nat /\ Len(stream) < Len(stream')
    <3>1. stream' = stream \o <<OnVictim(AssembledFrom(Len(stream) + 1, <<p>>)[1], v)>>
      BY <2>2
    <3>. QED
      BY <1>1, <2>1, <3>1, TurningKeepsStream
  <2>4. PoolSound(pool, Len(stream'))
    BY <1>1, <2>3, PoolLater DEF StreamInv
  <2>. QED
    BY <1>1, <1>2, <2>3, <2>4 DEF StreamInv
<1>. QED
  BY <1>3, <1>4

LEMMA SeededSound ==
  ASSUME StreamAssumption
  PROVE  PoolSound(Staff, 0)
<1>1. Staff = [i \in DOMAIN Staff |-> Staff[i]] /\ DOMAIN Staff \subseteq People
  BY DEF StreamAssumption, People
<1>2. ASSUME NEW i \in DOMAIN Staff
      PROVE  Identity(Staff[i]) /\ IsFiniteSet(Staff[i].held) /\ \A e \in Staff[i].held : Known(e, 0)
  <2>1. Staff[i] \in [human : BOOLEAN, grade : {"Associate", "AVP", "VP"},
                      status : STRING, held : SUBSET Seeded]
    BY DEF StreamAssumption
  <2>2. IsFiniteSet(Staff[i].held)
    BY DEF StreamAssumption
  <2>3. Identity(Staff[i]) /\ Staff[i].held \subseteq Seeded
    BY <2>1 DEF Identity
  <2>. QED
    BY <2>2, <2>3 DEF Known
<1>. QED
  BY <1>1, <1>2 DEF PoolSound

LEMMA StreamStarts == StreamAssumption /\ StreamInit => StreamInv
<1> SUFFICES ASSUME StreamAssumption, StreamInit PROVE StreamInv
  OBVIOUS
<1>1. stream = <<>> /\ pool = Staff
  BY DEF StreamInit
<1> DEFINE none == <<>>
<1>2. none \in Seq(Range(none)) /\ DOMAIN none = {} /\ Len(none) = 0
  BY DEF Range
<1> HIDE DEF none
<1>3. StreamSound(none)
  BY <1>2 DEF StreamSound
<1>. QED
  BY <1>1, <1>2, <1>3, SeededSound DEF StreamInv, none

LEMMA StreamStep == StreamInv /\ [StreamNext]_generatingVars => StreamInv'
<1> SUFFICES ASSUME StreamInv, [StreamNext]_generatingVars PROVE StreamInv'
  OBVIOUS
<1>1. ASSUME NEW p, NEW follow, Good(<<p>> \o follow, Minted), Arrival(p, follow)
      PROVE  StreamInv'
  BY <1>1, ArrivalKeeps DEF Arrival
<1>2. CASE Auth
  BY <1>1, <1>2, AuthGood DEF Auth
<1>3. CASE Access
  BY <1>1, <1>3, AccessGood DEF Access
<1>4. CASE Txn
  BY <1>1, <1>4, TxnGood DEF Txn
<1>5. CASE Compliance
  BY <1>1, <1>5, ComplianceGood DEF Compliance
<1>6. CASE Reseed
  <2>1. pool' = Staff /\ stream' = stream /\ StreamAssumption /\ StreamSound(stream) /\ Len(stream) \in Nat
    BY <1>6 DEF Reseed, StreamInv, StreamSound
  <2>2. PoolSound(Staff, Len(stream))
    BY <2>1, SeededSound, PoolLater
  <2>. QED
    BY <2>1, <2>2 DEF StreamInv
<1>7. CASE UNCHANGED generatingVars
  BY <1>7 DEF generatingVars, StreamInv
<1>. QED
  BY <1>2, <1>3, <1>4, <1>5, <1>6, <1>7, InjectKeeps, ThreatKeeps, ReorgKeeps, JoinKeeps, MoveKeeps, LeaveKeeps, ReturnKeeps
     DEF StreamNext

\* Every saga a run publishes is chained to one primary event, what is provisioned
\* on a request was approved, a mutating event names the identity it is about, and
\* a receiver that drops a repeated key loses nothing (events/internal.ts:160-220,
\* builders/access.ts:421-452, events/taxonomy.ts:168-180).
THEOREM SagasSoundHolds == StreamAssumption /\ StreamSpec => []SagasSound
<1>1. StreamAssumption /\ StreamInit => StreamInv
  BY StreamStarts
<1>2. StreamInv /\ [StreamNext]_generatingVars => StreamInv'
  BY StreamStep
<1>3. StreamInv => SagasSound
  BY SoundSagas DEF StreamInv
<1>. QED
  BY <1>1, <1>2, <1>3, PTL DEF StreamSpec
=============================================================================
