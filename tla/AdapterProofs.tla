------------------------------ MODULE AdapterProofs ----------------------------
(***************************************************************************)
(* The books of the managed adapter, for every value of the constants.     *)
(* Custody: at every moment an unresolved event is in exactly one of the   *)
(* queue, the batch buffer, the loop's hands and the running jobs, and     *)
(* only that holder can report it; from this follow exactly one result per *)
(* event and the types.  Counters: inFlight counts the items of the        *)
(* running jobs, the semaphore neither leaks nor mints a slot, the loop    *)
(* never sleeps on work or on a free slot, and a half-open breaker always  *)
(* has a probe that will move it on.  Together they bound the backlog.     *)
(***************************************************************************)
EXTENDS DeliveryAdapter, SeqLemmas

\* The type invariant, less the ranges of the two counters, which are
\* theorems about slots and custody and not about types.
Types ==
  /\ BreakerTypeOK
  /\ submitted \in Seq(Events)
  /\ queue \in Seq(Events)
  /\ buffer \in Seq(Events)
  /\ held \in Seq(Events)
  /\ loop \in LoopPoints
  /\ permits \in Int
  /\ inFlight \in Int
  /\ forceFlush \in BOOLEAN
  /\ stopping \in BOOLEAN
  /\ startPc \in StartPoints
  /\ flushPc \in FlushPoints
  /\ stopPc \in StopPoints
  /\ owed \in SUBSET Events
  /\ job \in [Events -> Jobs]
  /\ results \in [Events -> Seq(Outcomes)]

\* What the fields of a job say in each phase.
JobShape ==
  \A k \in Events :
    /\ job[k].phase \in InFlightPhase => k \in job[k].items
    /\ job[k].phase \notin InFlightPhase => job[k].items = {}
    /\ job[k].phase = "done" => results[k] # <<>>
    /\ job[k].phase \in {"throttled", "backoff"} => job[k].attempts <= MaxRetries

\* What the loop holds where it is suspended.
LoopShape ==
  /\ Mode = "single" => buffer = <<>> /\ held = <<>>
  /\ Mode = "batch" => (held # <<>> <=> loop \in {"slotWait", "granted"})
  /\ held # <<>> => buffer = <<>>
  /\ Mode = "single" => loop # "timed"
  /\ Len(buffer) < BatchSize
  /\ loop = "off" <=> startPc # "up"

Distinct == IsInjective(queue) /\ IsInjective(buffer) /\ IsInjective(held)

\* No event has two holders.
PlacesApart ==
  /\ Range(queue) \cap Range(buffer) = {}
  /\ Range(queue) \cap Range(held) = {}
  /\ Range(buffer) \cap Range(held) = {}

JobsApart ==
  /\ \A k \in Events : job[k].items \cap Waiting = {}
  /\ \A j, k \in Events : j # k => job[j].items \cap job[k].items = {}

\* Every held event is unresolved.
Open == Waiting \cup InFlight \subseteq Unresolved

Custody == Distinct /\ PlacesApart /\ JobsApart /\ Open
           /\ NothingLost /\ AtMostOneResult

IInv == Types /\ JobShape /\ LoopShape /\ Custody

-----------------------------------------------------------------------------
(* Effects of the helpers *)

\* finish, finishMany and emitDropped give exactly their items one result.
LEMMA EmitEffect ==
  ASSUME results \in [Events -> Seq(Outcomes)],
         NEW items \in SUBSET Events, NEW outcome \in Outcomes,
         \A e \in items : results[e] = <<>>,
         Emit(items, outcome)
  PROVE  /\ results' \in [Events -> Seq(Outcomes)]
         /\ \A e \in items : results'[e] # <<>> /\ Len(results'[e]) <= 1
         /\ \A e \in Events \ items : results'[e] = results[e]
<1>1. \A e \in Events : results[e] \in Seq(Outcomes)
  OBVIOUS
<1>2. \A e \in Events : Append(results[e], outcome) \in Seq(Outcomes)
  BY <1>1
<1>3. \A e \in items : Append(results[e], outcome) # <<>> /\ Len(Append(results[e], outcome)) = 1
  <2>1. SUFFICES ASSUME NEW e \in items
                 PROVE  /\ Append(results[e], outcome) # <<>>
                        /\ Len(Append(results[e], outcome)) = 1
    OBVIOUS
  <2>2. results[e] \in Seq(Outcomes) /\ Len(results[e]) = 0
    BY <1>1
  <2>. QED
    BY <2>2, AppendDistinct
<1>4. results' = [e \in Events |-> IF e \in items THEN Append(results[e], outcome)
                                                 ELSE results[e]]
  BY DEF Emit
<1>5. \A e \in items : results'[e] = Append(results[e], outcome)
  BY <1>4
<1>6. \A e \in Events \ items : results'[e] = results[e]
  BY <1>4
<1>7. results' \in [Events -> Seq(Outcomes)]
  BY <1>1, <1>2, <1>4
<1>. QED
  BY <1>3, <1>5, <1>6, <1>7

\* enqueue(e): the elements of the queue afterwards.
LEMMA EnqueueEffect ==
  ASSUME queue \in Seq(Events), NEW e \in Events, e \notin Range(queue),
         IsInjective(queue)
  PROVE  /\ Enqueued(queue, e) \in Seq(Events)
         /\ IsInjective(Enqueued(queue, e))
         /\ Casualty(queue, e) \subseteq Range(queue) \cup {e}
         /\ Range(Enqueued(queue, e)) = (Range(queue) \cup {e}) \ Casualty(queue, e)
         /\ queue # <<>> => Enqueued(queue, e) # <<>>
         /\ e \notin Casualty(queue, e) => Enqueued(queue, e) # <<>>
         /\ e \in Casualty(queue, e) => Enqueued(queue, e) = queue
<1>1. CASE ~Full(queue) \/ OverflowPolicy = "block"
  <2>1. Enqueued(queue, e) = Append(queue, e) /\ Casualty(queue, e) = {}
    BY <1>1 DEF Enqueued, Casualty
  <2>. QED
    BY <2>1, AppendDistinct
<1>2. CASE Full(queue) /\ OverflowPolicy = "drop_oldest"
  <2>1. Enqueued(queue, e) = Append(Tail(queue), e) /\ Casualty(queue, e) = {Head(queue)}
    BY <1>2 DEF Enqueued, Casualty
  <2>2. queue # <<>>
    BY <1>2, QueueAssumption DEF Full
  <2> DEFINE rest == Tail(queue)
  <2>3. /\ rest \in Seq(Events) /\ Head(queue) \in Range(queue)
        /\ Range(queue) = Range(rest) \cup {Head(queue)}
        /\ IsInjective(rest) /\ Head(queue) \notin Range(rest)
    BY <2>2, TailDistinct
  <2> HIDE DEF rest
  <2>4. /\ Append(rest, e) \in Seq(Events) /\ Append(rest, e) # <<>>
        /\ Range(Append(rest, e)) = Range(rest) \cup {e}
        /\ IsInjective(Append(rest, e))
    BY <2>3, AppendDistinct
  <2>. QED
    BY <2>1, <2>3, <2>4 DEF rest
<1>3. CASE Full(queue) /\ OverflowPolicy = "drop_new"
  <2>1. Enqueued(queue, e) = queue /\ Casualty(queue, e) = {e}
    BY <1>3 DEF Enqueued, Casualty
  <2>. QED
    BY <2>1
<1>. QED
  BY <1>1, <1>2, <1>3, QueueAssumption

\* The batch loop's pull moves a prefix of the queue to the buffer.
LEMMA PullEffect ==
  ASSUME queue \in Seq(Events), buffer \in Seq(Events),
         IsInjective(queue), IsInjective(buffer),
         Range(queue) \cap Range(buffer) = {}, Len(buffer) < BatchSize
  PROVE  /\ Filled \in Seq(Events) /\ Remaining \in Seq(Events)
         /\ IsInjective(Filled) /\ IsInjective(Remaining)
         /\ Range(Filled) \cap Range(Remaining) = {}
         /\ Range(Filled) \cup Range(Remaining) = Range(queue) \cup Range(buffer)
         /\ Len(Filled) < BatchSize => Remaining = <<>>
<1> DEFINE pulled == SubSeq(queue, 1, PullCount)
<1>1. /\ PullCount \in 0..Len(queue)
      /\ PullCount < BatchSize - Len(buffer) => PullCount = Len(queue)
  BY AdapterAssumption DEF PullCount
<1>2. /\ pulled \in Seq(Events) /\ Remaining \in Seq(Events)
      /\ Len(pulled) = PullCount /\ Len(Remaining) = Len(queue) - PullCount
      /\ Range(queue) = Range(pulled) \cup Range(Remaining)
      /\ IsInjective(pulled) /\ IsInjective(Remaining)
      /\ Range(pulled) \cap Range(Remaining) = {}
  BY <1>1, SplitDistinct DEF Remaining
<1>3. Filled = buffer \o pulled
  BY DEF Filled
<1> HIDE DEF pulled
<1>0. Range(buffer) \cap Range(pulled) = {}
  BY <1>2
<1>4. /\ Filled \in Seq(Events) /\ Len(Filled) = Len(buffer) + PullCount
      /\ Range(Filled) = Range(buffer) \cup Range(pulled)
      /\ IsInjective(Filled)
  <2>1. pulled \in Seq(Events) /\ IsInjective(pulled)
    BY <1>2
  <2>2. /\ buffer \o pulled \in Seq(Events)
        /\ Len(buffer \o pulled) = Len(buffer) + Len(pulled)
        /\ Range(buffer \o pulled) = Range(buffer) \cup Range(pulled)
        /\ IsInjective(buffer \o pulled)
    BY <1>0, <2>1, ConcatDistinct
  <2>. QED
    BY <2>2, <1>2, <1>3
<1>5. Len(Filled) < BatchSize => Remaining = <<>>
  <2>1. Len(Filled) < BatchSize => Len(Remaining) = 0
    BY <1>1, <1>2, <1>4, AdapterAssumption
  <2>. QED
    BY <2>1, <1>2, EmptySeq
<1>. QED
  BY <1>2, <1>4, <1>5

\* The breaker keeps its type through each call.
LEMMA AdmitEffect ==
  ASSUME BreakerTypeOK, NEW probe \in BOOLEAN, Admit(probe)
  PROVE  BreakerTypeOK'
<1>1. \/ UNCHANGED breakerVars
      \/ /\ circuit' = "half_open" /\ cooled' = FALSE /\ probes' = 1
         /\ UNCHANGED failures
      \/ /\ probes < HalfOpenMaxProbes /\ probes' = probes + 1
         /\ UNCHANGED <<circuit, failures, cooled>>
  BY Zenon DEF Admit
<1>2. circuit' \in {"closed", "open", "half_open"} /\ failures' \in 0..FailureThreshold
  BY <1>1 DEF BreakerTypeOK, breakerVars
<1>3. cooled' \in BOOLEAN
  BY <1>1 DEF BreakerTypeOK, breakerVars
<1>4. probes' \in 0..HalfOpenMaxProbes
  BY <1>1, BreakerAssumption DEF BreakerTypeOK, breakerVars
<1>. QED
  BY <1>2, <1>3, <1>4 DEF BreakerTypeOK

LEMMA ReportEffect ==
  ASSUME BreakerTypeOK, OnSuccess \/ OnFailure
  PROVE  BreakerTypeOK'
<1>1. CASE OnSuccess
  <2>1. 0 \in 0..FailureThreshold /\ 0 \in 0..HalfOpenMaxProbes
    BY BreakerAssumption
  <2>. QED
    BY <1>1, <2>1, Zenon DEF OnSuccess, BreakerTypeOK
<1>2. CASE OnFailure
  <2>1. failures' \in 0..FailureThreshold
    BY <1>2, BreakerAssumption DEF OnFailure, MoreFailures, BreakerTypeOK
  <2>2. \/ circuit' = "open" /\ cooled' = FALSE /\ probes' = 0
        \/ UNCHANGED <<circuit, cooled, probes>>
    BY <1>2, Zenon DEF OnFailure
  <2>3. 0 \in 0..HalfOpenMaxProbes
    BY BreakerAssumption
  <2>. QED
    BY <2>1, <2>2, <2>3, Zenon DEF BreakerTypeOK
<1>. QED
  BY <1>1, <1>2

\* A job that passes the breaker waits for the rate limiter with its items.
LEMMA PassEffect ==
  ASSUME job \in [Events -> Jobs], BreakerTypeOK,
         NEW k \in Events, NEW items \in SUBSET Events,
         NEW attempts \in 0..(MaxRetries + 1),
         Pass(k, items, attempts)
  PROVE  /\ BreakerTypeOK'
         /\ job' \in [Events -> Jobs]
         /\ job'[k].phase = "throttled" /\ job'[k].items = items
         /\ job'[k].attempts = attempts
         /\ \A j \in Events \ {k} : job'[j] = job[j]
         /\ results' = results
<1>1. PICK probe \in BOOLEAN :
        /\ Admit(probe)
        /\ job' = [job EXCEPT ![k] = JobIn("throttled", items, attempts, probe)]
  BY DEF Pass
<1>2. BreakerTypeOK'
  BY <1>1, AdmitEffect
<1>3. JobIn("throttled", items, attempts, probe) \in Jobs
  BY DEF JobIn, Jobs, JobPhases
<1>4. /\ job' \in [Events -> Jobs] /\ job'[k] = JobIn("throttled", items, attempts, probe)
      /\ \A j \in Events \ {k} : job'[j] = job[j]
  BY <1>1, <1>3
<1>. QED
  BY <1>2, <1>4 DEF Pass, JobIn

\* A job that has reported its items has none left.
LEMMA FinishEffect ==
  ASSUME Types, NEW k \in Events, NEW items \in SUBSET Events,
         NEW outcome \in Outcomes,
         \A e \in items : results[e] = <<>>,
         Finish(k, items, outcome)
  PROVE  /\ job' \in [Events -> Jobs]
         /\ job'[k].phase = "done" /\ job'[k].items = {} /\ job'[k].attempts = 0
         /\ job'[k].probe = FALSE
         /\ \A j \in Events \ {k} : job'[j] = job[j]
         /\ results' \in [Events -> Seq(Outcomes)]
         /\ \A e \in items : results'[e] # <<>> /\ Len(results'[e]) <= 1
         /\ \A e \in Events \ items : results'[e] = results[e]
<1>1. JobIn("done", {}, 0, FALSE) \in Jobs
  BY AdapterAssumption DEF JobIn, Jobs, JobPhases
<1>2. job' = [job EXCEPT ![k] = JobIn("done", {}, 0, FALSE)]
  BY DEF Finish
<1>4. Emit(items, outcome)
  BY DEF Finish
<1>5. job \in [Events -> Jobs] /\ results \in [Events -> Seq(Outcomes)]
  BY DEF Types
<1>6. /\ job' \in [Events -> Jobs] /\ job'[k] = JobIn("done", {}, 0, FALSE)
      /\ \A j \in Events \ {k} : job'[j] = job[j]
  BY <1>1, <1>2, <1>5
<1>7. /\ job'[k].phase = "done" /\ job'[k].items = {} /\ job'[k].attempts = 0
      /\ job'[k].probe = FALSE
  BY <1>6 DEF JobIn
<1>8. /\ results' \in [Events -> Seq(Outcomes)]
      /\ \A e \in items : results'[e] # <<>> /\ Len(results'[e]) <= 1
      /\ \A e \in Events \ items : results'[e] = results[e]
  BY <1>4, <1>5, EmitEffect
<1>. QED
  BY <1>6, <1>7, <1>8

-----------------------------------------------------------------------------
(* Custody moves with the events *)

\* Nothing that custody depends on changes.
LEMMA CustodyStill ==
  ASSUME Custody,
         UNCHANGED <<submitted, queue, buffer, held, results>>,
         \A k \in Events : job'[k].items = job[k].items
  PROVE  Custody'
<1>1. Waiting' = Waiting /\ InFlight' = InFlight /\ Unresolved' = Unresolved
  BY DEF Waiting, InFlight, Unresolved
<1>. QED
  BY <1>1 DEF Custody, Distinct, PlacesApart, JobsApart, Open, NothingLost,
              AtMostOneResult

\* A job reports all of its items.
LEMMA CustodyFinish ==
  ASSUME Types, Custody, NEW k \in Events, NEW outcome \in Outcomes,
         Finish(k, job[k].items, outcome),
         UNCHANGED <<submitted, queue, buffer, held>>
  PROVE  Custody'
<1> DEFINE items == job[k].items
<1>1. items \in SUBSET Events /\ items \subseteq Unresolved
  BY DEF Types, Jobs, Custody, Open, InFlight
<1>2. \A e \in items : results[e] = <<>>
  BY <1>1 DEF Unresolved
<1>3. /\ job'[k].items = {} /\ \A j \in Events \ {k} : job'[j] = job[j]
      /\ \A e \in items : results'[e] # <<>> /\ Len(results'[e]) <= 1
      /\ \A e \in Events \ items : results'[e] = results[e]
  BY <1>1, <1>2, FinishEffect
<1> HIDE DEF items
<1>4. Waiting' = Waiting
  BY DEF Waiting
<1>5. InFlight' = InFlight \ items
  BY <1>3 DEF InFlight, Custody, JobsApart, items
<1>6. Unresolved' = Unresolved \ items
  <2>1. Range(submitted) \subseteq Events
    BY DEF Types, Range
  <2>. QED
    BY <2>1, <1>3 DEF Unresolved
<1>7. items \cap Waiting = {}
  BY DEF Custody, JobsApart, items
<1>8. AtMostOneResult'
  <2>1. \A e \in items : e \in Range(submitted)
    BY <1>1 DEF Unresolved
  <2>2. \A e \in Events : results'[e] # <<>> => e \in Range(submitted)
    BY <2>1, <1>3 DEF AtMostOneResult, Custody
  <2>3. \A e \in Events : Len(results'[e]) <= 1
    BY <1>3 DEF AtMostOneResult, Custody
  <2>. QED
    BY <2>2, <2>3 DEF AtMostOneResult
<1>9. JobsApart'
  BY <1>3, <1>4 DEF JobsApart, Custody
<1>. QED
  BY <1>4, <1>5, <1>6, <1>7, <1>8, <1>9
     DEF Custody, Distinct, PlacesApart, Open, NothingLost

\* Events move between the queue, the buffer and the loop's hands.
LEMMA CustodyMove ==
  ASSUME Custody, UNCHANGED <<submitted, job, results>>,
         Distinct', PlacesApart', Waiting' = Waiting
  PROVE  Custody'
<1>1. InFlight' = InFlight /\ Unresolved' = Unresolved
  BY DEF InFlight, Unresolved
<1>. QED
  BY <1>1 DEF Custody, JobsApart, Open, NothingLost, AtMostOneResult

\* A dispatched job is in flight with its items, or was shed at once.
Starts(items) ==
  /\ BusyJobs' = BusyJobs \cup {Head(items)} /\ Head(items) \in Events \ BusyJobs
  /\ Range(items) \cap InFlight = {}
  /\ \/ InFlight' = InFlight \cup Range(items) /\ inFlight' = inFlight + Len(items)
     \/ InFlight' = InFlight /\ inFlight' = inFlight
  /\ \A e \in Events : results[e] # <<>> => results'[e] # <<>>

\* The loop takes items out of a waiting place and starts a job with them.
LEMMA CustodyDispatch ==
  ASSUME Types, JobShape, Custody,
         NEW items \in Seq(Events), items # <<>>, IsInjective(items),
         Range(items) \subseteq Waiting,
         Waiting' = Waiting \ Range(items),
         Distinct', PlacesApart', UNCHANGED submitted,
         Dispatch(items)
  PROVE  /\ Head(items) \in Range(items) /\ job[Head(items)].phase = "none"
         /\ BreakerTypeOK' /\ job' \in [Events -> Jobs]
         /\ results' \in [Events -> Seq(Outcomes)]
         /\ JobShape' /\ Custody' /\ Starts(items)
<1> DEFINE taken == Range(items)
           first == Head(items)
<1>1. first \in taken /\ taken \subseteq Events /\ first \in Events
  <2>1. first \in taken
    BY TailDistinct
  <2>. QED
    BY <2>1 DEF Range
<1>2. taken \subseteq Unresolved /\ \A e \in taken : results[e] = <<>>
  BY DEF Custody, Open, Unresolved
<1>3. \A k \in Events : job[k].items \cap taken = {}
  BY DEF Custody, JobsApart
<1>4. job[first].phase = "none" /\ job[first].items = {}
  <2>1. job[first].phase \in JobPhases
    BY <1>1 DEF Types, Jobs
  <2>. QED
    BY <2>1, <1>1, <1>2, <1>3 DEF JobShape, JobPhases, InFlightPhase
<1>5. Range(submitted) \subseteq Events
  BY DEF Types, Range
<1>0. taken \cap InFlight = {}
  BY <1>3 DEF InFlight
<1> HIDE DEF taken, first
<1>6. CASE Pass(first, taken, 0) /\ inFlight' = inFlight + Len(items)
  <2>1. 0 \in 0..(MaxRetries + 1) /\ 0 <= MaxRetries
    BY AdapterAssumption
  <2>2. /\ BreakerTypeOK' /\ job' \in [Events -> Jobs] /\ results' = results
        /\ job'[first].phase = "throttled" /\ job'[first].items = taken
        /\ job'[first].attempts = 0
        /\ \A j \in Events \ {first} : job'[j] = job[j]
    BY <1>1, <1>6, <2>1, PassEffect DEF Types
  <2>3. InFlight' = InFlight \cup taken
    BY <2>2, <1>1, <1>4 DEF InFlight
  <2>4. Unresolved' = Unresolved
    BY <2>2 DEF Unresolved
  <2>5. JobShape'
    BY <2>1, <2>2, <1>1 DEF JobShape, InFlightPhase
  <2>6. JobsApart'
    BY <2>2, <1>1, <1>3 DEF JobsApart, Custody, taken
  <2>7. AtMostOneResult'
    BY <2>2 DEF AtMostOneResult, Custody
  <2>8. BusyJobs' = BusyJobs \cup {first} /\ first \notin BusyJobs
    BY <1>1, <1>4, <2>2 DEF BusyJobs
  <2>9. Starts(items)
    BY <1>0, <1>1, <1>6, <2>2, <2>3, <2>8 DEF Starts, taken, first
  <2>10. Custody'
    <3>1. Open' /\ NothingLost'
      BY <1>2, <2>3, <2>4 DEF Custody, Open, NothingLost, taken
    <3>. QED
      BY <3>1, <2>6, <2>7 DEF Custody
  <2>. QED
    BY <1>1, <1>4, <2>2, <2>5, <2>9, <2>10 DEF Types, taken, first
<1>7. CASE Shed(first, taken) /\ UNCHANGED inFlight
  <2>1. Finish(first, taken, "circuit_open") /\ "circuit_open" \in Outcomes
    BY <1>7 DEF Shed, Outcomes
  <2>2. /\ job' \in [Events -> Jobs] /\ results' \in [Events -> Seq(Outcomes)]
        /\ job'[first].phase = "done" /\ job'[first].items = {}
        /\ job'[first].attempts = 0
        /\ \A j \in Events \ {first} : job'[j] = job[j]
        /\ \A e \in taken : results'[e] # <<>> /\ Len(results'[e]) <= 1
        /\ \A e \in Events \ taken : results'[e] = results[e]
    BY <2>1, <1>1, <1>2, FinishEffect
  <2>3. InFlight' = InFlight
    <3>1. \A j \in Events : job'[j].items = job[j].items
      BY <2>2, <1>1, <1>4
    <3>. QED
      BY <3>1 DEF InFlight
  <2>4. Unresolved' = Unresolved \ taken
    BY <2>2, <1>5 DEF Unresolved
  <2>5. JobShape'
    <3>1. \A e \in Events : results[e] # <<>> => results'[e] # <<>>
      BY <2>2
    <3>2. results'[first] # <<>>
      BY <2>2, <1>1
    <3>. QED
      BY <2>2, <3>1, <3>2 DEF JobShape, InFlightPhase
  <2>6. JobsApart'
    BY <2>2, <1>1, <1>3 DEF JobsApart, Custody, taken
  <2>7. AtMostOneResult'
    <3>1. \A e \in taken : e \in Range(submitted)
      BY <1>2 DEF Unresolved
    <3>2. \A e \in Events : results'[e] # <<>> => e \in Range(submitted)
      BY <2>2, <3>1 DEF AtMostOneResult, Custody
    <3>3. ASSUME NEW e \in Events PROVE Len(results'[e]) <= 1
      <4>1. CASE e \in taken
        BY <4>1, <2>2
      <4>2. CASE e \notin taken
        BY <4>2, <2>2 DEF AtMostOneResult, Custody
      <4>. QED
        BY <4>1, <4>2
    <3>. QED
      BY <3>2, <3>3 DEF AtMostOneResult
  <2>8. BreakerTypeOK'
    BY <1>7 DEF Shed, Deny, Types, BreakerTypeOK, breakerVars
  <2>9. BusyJobs' = BusyJobs \cup {first} /\ first \notin BusyJobs
    BY <1>1, <1>4, <2>2 DEF BusyJobs
  <2>10. \A e \in Events : results[e] # <<>> => results'[e] # <<>>
    BY <2>2
  <2>11. Starts(items)
    BY <1>0, <1>1, <1>7, <2>3, <2>9, <2>10 DEF Starts, taken, first
  <2>12. Custody'
    BY <1>0, <1>1, <1>2, <1>4, <2>2, <2>3, <2>4, <2>6, <2>7
       DEF Custody, Open, NothingLost, taken
  <2>. QED
    BY <1>1, <1>4, <2>2, <2>5, <2>8, <2>11, <2>12 DEF taken, first
<1>. QED
  BY <1>6, <1>7 DEF Dispatch, taken, first

-----------------------------------------------------------------------------
(* The actions *)

LEMMA SubmitStep ==
  ASSUME IInv, NEW e \in Events, Submit(e)
  PROVE  IInv'
<1> USE DEF IInv
<1>1. /\ e \notin Range(submitted)
      /\ submitted' = Append(submitted, e)
      /\ submitted' \in Seq(Events)
      /\ Range(submitted') = Range(submitted) \cup {e}
  BY AppendDistinct DEF Submit, Types
<1>2. /\ results[e] = <<>> /\ e \notin Waiting /\ e \notin InFlight
      /\ e \notin Range(queue)
  BY <1>1 DEF Custody, Open, Unresolved, AtMostOneResult, Waiting
<1>3. /\ UNCHANGED <<buffer, held, permits, inFlight, forceFlush, stopping,
                     startPc, flushPc, stopPc, owed, job>>
      /\ UNCHANGED <<circuit, failures, cooled, probes>>
  BY DEF Submit, breakerVars
<1>6. InFlight' = InFlight
  BY <1>3 DEF InFlight
<1>7. Range(submitted) \subseteq Events
  BY DEF Types, Range
<1>8. BreakerTypeOK'
  BY <1>3 DEF Types, BreakerTypeOK
<1>4. CASE stopping /\ Emit({e}, "dropped") /\ UNCHANGED <<queue, loop>>
  <2>1. /\ results' \in [Events -> Seq(Outcomes)]
        /\ results'[e] # <<>> /\ Len(results'[e]) <= 1
        /\ \A x \in Events \ {e} : results'[x] = results[x]
    <3>1. "dropped" \in Outcomes /\ {e} \in SUBSET Events
      BY DEF Outcomes
    <3>2. \A x \in {e} : results[x] = <<>>
      BY <1>2
    <3>3. Emit({e}, "dropped") /\ results \in [Events -> Seq(Outcomes)]
      BY <1>4 DEF Types
    <3>. QED
      BY <3>1, <3>2, <3>3, EmitEffect
  <2>2. Unresolved' = Unresolved
    BY <1>1, <1>7, <2>1 DEF Unresolved
  <2>7. Waiting' = Waiting
    BY <1>3, <1>4 DEF Waiting
  <2>3. Types'
    BY <1>1, <1>3, <1>4, <1>8, <2>1 DEF Types
  <2>4. JobShape' /\ LoopShape'
    BY <1>3, <1>4, <2>1 DEF JobShape, LoopShape
  <2>5. AtMostOneResult'
    BY <1>1, <2>1 DEF AtMostOneResult, Custody
  <2>6. Distinct' /\ PlacesApart' /\ JobsApart'
    BY <1>3, <1>4, <2>7 DEF Custody, Distinct, PlacesApart, JobsApart
  <2>. QED
    BY <1>6, <2>2, <2>7, <2>3, <2>4, <2>5, <2>6 DEF Custody, Open, NothingLost
<1>5. CASE /\ ~stopping
           /\ queue' = Enqueued(queue, e)
           /\ Emit(Casualty(queue, e), "dropped")
           /\ IF e \in Casualty(queue, e) THEN UNCHANGED loop ELSE NotifyWork
  <2> DEFINE victim == Casualty(queue, e)
  <2>1. /\ queue' \in Seq(Events) /\ IsInjective(queue')
        /\ victim \subseteq Range(queue) \cup {e}
        /\ Range(queue') = (Range(queue) \cup {e}) \ victim
    BY <1>2, <1>5, EnqueueEffect DEF Types, Custody, Distinct
  <2>2. /\ victim \subseteq Events /\ \A x \in victim : results[x] = <<>>
    <3>1. Range(queue) \subseteq Events
      BY DEF Types, Range
    <3>2. \A x \in Range(queue) : results[x] = <<>>
      BY DEF Custody, Open, Waiting, Unresolved
    <3>. QED
      BY <3>1, <3>2, <1>2, <2>1
  <2>3. Emit(victim, "dropped") /\ "dropped" \in Outcomes
    BY <1>5 DEF Outcomes
  <2> HIDE DEF victim
  <2>4. /\ results' \in [Events -> Seq(Outcomes)]
        /\ \A x \in victim : results'[x] # <<>> /\ Len(results'[x]) <= 1
        /\ \A x \in Events \ victim : results'[x] = results[x]
    BY <2>2, <2>3, EmitEffect DEF Types
  <2>5. Unresolved' = (Unresolved \cup {e}) \ victim
    BY <1>1, <1>2, <1>7, <2>4 DEF Unresolved
  <2>6. Waiting' = (Waiting \cup {e}) \ victim
    BY <1>2, <1>3, <2>1 DEF Waiting, Custody, PlacesApart
  <2>7. loop' \in LoopPoints /\ (loop' = loop \/ (loop \in {"waiting", "timed"} /\ loop' = "ready"))
    BY <1>5 DEF NotifyWork, LoopPoints, Types
  <2>8. Types'
    BY <1>1, <1>3, <1>8, <2>1, <2>4, <2>7 DEF Types
  <2>9. JobShape' /\ LoopShape'
    BY <1>3, <2>4, <2>7 DEF JobShape, LoopShape
  <2>10. AtMostOneResult'
    <3>1. victim \subseteq Range(submitted')
      BY <1>1, <2>1 DEF Custody, Open, Waiting, Unresolved
    <3>. QED
      BY <1>1, <2>4, <3>1 DEF AtMostOneResult, Custody
  <2>11. Distinct' /\ PlacesApart'
    BY <1>2, <1>3, <2>1 DEF Custody, Distinct, PlacesApart, Waiting
  <2>12. JobsApart'
    BY <1>2, <1>3, <2>6 DEF Custody, JobsApart, InFlight
  <2>13. victim \cap InFlight = {}
    BY <1>2, <2>1 DEF Custody, JobsApart, InFlight, Waiting
  <2>. QED
    BY <1>6, <2>5, <2>6, <2>8, <2>9, <2>10, <2>11, <2>12, <2>13
       DEF Custody, Open, NothingLost
<1>. QED
  BY <1>4, <1>5 DEF Submit

\* What the calls of start(), flush() and stop() and their continuations do.
LEMMA QuietFrame ==
  ASSUME IInv,
         UNCHANGED <<submitted, queue, buffer, held, permits, inFlight, job, results>>,
         BreakerTypeOK', forceFlush' \in BOOLEAN, stopping' \in BOOLEAN,
         owed' \in SUBSET Events, startPc' \in StartPoints,
         flushPc' \in FlushPoints, stopPc' \in StopPoints,
         \/ loop' = loop /\ (startPc' = "up" <=> startPc = "up")
         \/ loop' = "ready" /\ loop \in {"waiting", "timed"} /\ startPc' = startPc
         \/ loop' = "ready" /\ loop = "off" /\ startPc' = "up"
  PROVE  IInv'
<1> USE DEF IInv
<1>1. Types'
  BY DEF Types, LoopPoints
<1>2. JobShape'
  BY DEF JobShape
<1>3. LoopShape'
  BY DEF LoopShape
<1>4. Custody'
  BY CustodyStill
<1>. QED
  BY <1>1, <1>2, <1>3, <1>4

\* start(), flush(), stop(), their continuations and the clock leave every
\* event where it is.
LEMMA QuietStep ==
  ASSUME IInv,
         \/ CallStart \/ CallFlush \/ CallStop \/ Promises
         \/ TimePasses \/ Terminated \/ UNCHANGED vars
  PROVE  IInv'
<1> USE DEF IInv
<1>1. startPc \in StartPoints /\ flushPc \in FlushPoints /\ stopPc \in StopPoints
  BY DEF Types
<1>2. /\ forceFlush \in BOOLEAN /\ stopping \in BOOLEAN /\ owed \in SUBSET Events
      /\ BreakerTypeOK /\ Unresolved \in SUBSET Events
  BY DEF Types, Unresolved, Range
<1>3. UNCHANGED breakerVars => BreakerTypeOK'
  BY <1>2 DEF breakerVars, BreakerTypeOK
<1>4. startPc \in {"idle", "pending"} => loop = "off"
  BY DEF LoopShape
<1>5. NotifyWork => \/ loop' = loop
                    \/ loop' = "ready" /\ loop \in {"waiting", "timed"}
  BY DEF NotifyWork
<1>6. CASE CallStart
  BY <1>1, <1>2, <1>3, <1>6, QuietFrame DEF CallStart, StartPoints
<1>7. CASE SenderStarts
  BY <1>1, <1>2, <1>3, <1>4, <1>7, QuietFrame DEF SenderStarts, StartPoints
<1>8. CASE SenderStartFails
  BY <1>1, <1>2, <1>3, <1>8, QuietFrame DEF SenderStartFails, StartPoints
<1>9. CASE CallFlush
  BY <1>1, <1>2, <1>3, <1>5, <1>9, QuietFrame DEF CallFlush, StartPoints, FlushPoints
<1>10. CASE ResumeFlush
  BY <1>1, <1>2, <1>3, <1>5, <1>10, QuietFrame DEF ResumeFlush, FlushPoints
<1>11. CASE CallStop
  BY <1>1, <1>2, <1>3, <1>4, <1>5, <1>11, QuietFrame DEF CallStop, StartPoints, StopPoints
<1>12. CASE ResumeStop
  BY <1>1, <1>2, <1>3, <1>5, <1>12, QuietFrame DEF ResumeStop, StopPoints
<1>13. CASE CloseSender
  BY <1>1, <1>2, <1>3, <1>13, QuietFrame DEF CloseSender, StopPoints
<1>14. CASE TimePasses
  <2>1. BreakerTypeOK'
    BY <1>2, <1>14 DEF TimePasses, CoolDown, BreakerTypeOK
  <2>. QED
    BY <1>1, <1>2, <2>1, <1>14, QuietFrame DEF TimePasses, adapterVars
<1>15. CASE Terminated \/ UNCHANGED vars
  BY <1>1, <1>2, <1>3, <1>15, QuietFrame DEF Terminated, vars, adapterVars
<1>. QED
  BY <1>6, <1>7, <1>8, <1>9, <1>10, <1>11, <1>12, <1>13, <1>14, <1>15 DEF Promises

\* What a send that ends, or a shed attempt, reports.
Answers == {"delivered", "failed", "circuit_open"}

\* A step of a job keeps its items in flight, reports them, or frees its slot.
OnlyJob(k) ==
  /\ job' \in [Events -> Jobs]
  /\ \A j \in Events \ {k} : job'[j] = job[j]
Keeps(k) ==
  /\ OnlyJob(k) /\ UNCHANGED <<jobFrame, inFlight, results>>
  /\ job[k].phase \in InFlightPhase /\ job'[k].phase \in InFlightPhase
  /\ job'[k].items = job[k].items
Reports(k) ==
  /\ OnlyJob(k) /\ UNCHANGED jobFrame
  /\ job[k].phase \in InFlightPhase /\ job'[k].phase = "done"
  /\ job'[k].items = {}
  /\ inFlight' = inFlight - Cardinality(job[k].items)
  /\ \E outcome \in Answers : Emit(job[k].items, outcome)
  /\ \A e \in Events : results[e] # <<>> => results'[e] # <<>>
Frees(k) ==
  /\ OnlyJob(k) /\ Release(k)
  /\ job[k].phase = "done" /\ job'[k].phase = "none"
  /\ job[k].items = {} /\ job'[k].items = {}

\* The retry loop of one job.
LEMMA JobStep ==
  ASSUME IInv, NEW k \in Events, Job(k)
  PROVE  IInv' /\ (Keeps(k) \/ Reports(k) \/ Frees(k))
<1> USE DEF IInv
<1>1. /\ job \in [Events -> Jobs] /\ job[k] \in Jobs
      /\ job[k].items \in SUBSET Events /\ job[k].attempts \in 0..(MaxRetries + 1)
      /\ BreakerTypeOK /\ results \in [Events -> Seq(Outcomes)]
      /\ job[k].phase \in InFlightPhase => k \in job[k].items
      /\ \A e \in job[k].items : results[e] = <<>>
  BY DEF Types, Jobs, JobShape, Custody, Open, InFlight, Unresolved
<1>2. Cardinality(job[k].items) \in Int
  BY <1>1, AdapterAssumption, FS_Subset, FS_CardinalityType
<1>3. inFlight - Cardinality(job[k].items) \in Int
  BY <1>2 DEF Types
<1>4. ASSUME UNCHANGED jobFrame, BreakerTypeOK', inFlight' \in Int,
             job' \in [Events -> Jobs], results' \in [Events -> Seq(Outcomes)]
      PROVE  Types' /\ LoopShape'
  BY <1>4 DEF jobFrame, Types, LoopShape
<1>5. ASSUME NEW outcome \in Answers, Finish(k, job[k].items, outcome),
             job[k].phase \in InFlightPhase, UNCHANGED jobFrame,
             inFlight' = inFlight - Cardinality(job[k].items)
      PROVE  /\ job' \in [Events -> Jobs] /\ results' \in [Events -> Seq(Outcomes)]
             /\ JobShape' /\ Custody' /\ Reports(k)
  <2>0. outcome \in Outcomes
    BY DEF Answers, Outcomes
  <2>1. /\ job' \in [Events -> Jobs] /\ results' \in [Events -> Seq(Outcomes)]
        /\ job'[k].phase = "done" /\ job'[k].items = {} /\ job'[k].attempts = 0
        /\ \A j \in Events \ {k} : job'[j] = job[j]
        /\ \A e \in job[k].items : results'[e] # <<>>
        /\ \A e \in Events \ job[k].items : results'[e] = results[e]
    BY <1>1, <1>5, <2>0, FinishEffect
  <2>2. Custody'
    BY <1>5, <2>0, CustodyFinish DEF jobFrame
  <2>3. JobShape'
    <3>1. \A e \in Events : results[e] # <<>> => results'[e] # <<>>
      BY <2>1
    <3>2. results'[k] # <<>>
      BY <1>1, <1>5, <2>1
    <3>. QED
      BY <2>1, <3>1, <3>2 DEF JobShape, InFlightPhase
  <2>4. \A e \in Events : results[e] # <<>> => results'[e] # <<>>
    BY <2>1
  <2>5. Emit(job[k].items, outcome)
    BY <1>5 DEF Finish
  <2>. QED
    BY <1>5, <2>1, <2>2, <2>3, <2>4, <2>5 DEF Reports, OnlyJob
<1>6. ASSUME job[k].phase \in {"throttled", "sending", "backoff"},
             NEW phase \in {"throttled", "sending", "backoff"},
             NEW attempts \in 0..(MaxRetries + 1),
             phase \in {"throttled", "backoff"} => attempts <= MaxRetries,
             job'[k].phase = phase, job'[k].items = job[k].items,
             job'[k].attempts = attempts,
             \A j \in Events \ {k} : job'[j] = job[j],
             results' = results, UNCHANGED jobFrame, UNCHANGED inFlight,
             job' \in [Events -> Jobs]
      PROVE  JobShape' /\ Custody' /\ Keeps(k)
  <2>1. JobShape'
    BY <1>6 DEF JobShape, InFlightPhase
  <2>2. \A j \in Events : job'[j].items = job[j].items
    BY <1>6
  <2>. QED
    BY <1>6, <2>1, <2>2, CustodyStill DEF jobFrame, Keeps, OnlyJob, InFlightPhase
<1>7. CASE LimiterGrants(k)
  <2>1. job[k].attempts <= MaxRetries /\ job[k].attempts + 1 \in 0..(MaxRetries + 1)
    BY <1>1, <1>7, AdapterAssumption DEF LimiterGrants, JobShape
  <2>2. job' = [job EXCEPT ![k] = JobIn("sending", job[k].items, job[k].attempts + 1,
                                        job[k].probe)]
    BY <1>1, <1>7 DEF LimiterGrants
  <2>3. JobIn("sending", job[k].items, job[k].attempts + 1, job[k].probe) \in Jobs
    BY <1>1, <2>1 DEF JobIn, Jobs, JobPhases
  <2>4. /\ job' \in [Events -> Jobs]
        /\ job'[k] = JobIn("sending", job[k].items, job[k].attempts + 1, job[k].probe)
        /\ \A j \in Events \ {k} : job'[j] = job[j]
    BY <1>1, <2>2, <2>3
  <2>5. /\ job'[k].phase = "sending" /\ job'[k].items = job[k].items
        /\ job'[k].attempts = job[k].attempts + 1
    BY <2>4 DEF JobIn
  <2>6. JobShape' /\ Custody' /\ Keeps(k)
    BY <1>6, <1>7, <2>1, <2>4, <2>5 DEF LimiterGrants
  <2>7. BreakerTypeOK' /\ inFlight' \in Int
    BY <1>1, <1>7 DEF LimiterGrants, BreakerTypeOK, breakerVars, Types
  <2>. QED
    BY <1>1, <1>4, <1>7, <2>4, <2>6, <2>7 DEF LimiterGrants
<1>8. CASE SendSucceeds(k)
  <2>1. "delivered" \in Answers /\ job[k].phase \in InFlightPhase
    BY <1>8 DEF Answers, SendSucceeds, InFlightPhase
  <2>2. BreakerTypeOK'
    BY <1>1, <1>8, ReportEffect DEF SendSucceeds
  <2>. QED
    BY <1>3, <1>4, <1>5, <1>8, <2>1, <2>2 DEF SendSucceeds
<1>9. CASE SendFails(k)
  <2>1. "failed" \in Answers /\ job[k].phase \in InFlightPhase
    BY <1>9 DEF Answers, SendFails, InFlightPhase
  <2>2. BreakerTypeOK'
    BY <1>1, <1>9, ReportEffect DEF SendFails
  <2>3. PICK retryable \in BOOLEAN :
          \/ /\ MayRetry(k, retryable)
             /\ job' = [job EXCEPT ![k] = JobIn("backoff", @.items, @.attempts, FALSE)]
             /\ UNCHANGED <<inFlight, results>>
          \/ /\ ~MayRetry(k, retryable)
             /\ Finish(k, job[k].items, "failed")
             /\ inFlight' = inFlight - Cardinality(job[k].items)
    BY <1>9, Zenon DEF SendFails
  <2>4. UNCHANGED jobFrame
    BY <1>9 DEF SendFails
  <2>5. CASE /\ MayRetry(k, retryable)
             /\ job' = [job EXCEPT ![k] = JobIn("backoff", @.items, @.attempts, FALSE)]
             /\ UNCHANGED <<inFlight, results>>
    <3>1. job[k].attempts <= MaxRetries
      BY <2>5 DEF MayRetry
    <3>2. JobIn("backoff", job[k].items, job[k].attempts, FALSE) \in Jobs
      BY <1>1 DEF JobIn, Jobs, JobPhases
    <3>3. /\ job' \in [Events -> Jobs]
          /\ job'[k] = JobIn("backoff", job[k].items, job[k].attempts, FALSE)
          /\ \A j \in Events \ {k} : job'[j] = job[j]
      BY <1>1, <2>5, <3>2
    <3>4. /\ job'[k].phase = "backoff" /\ job'[k].items = job[k].items
          /\ job'[k].attempts = job[k].attempts
      BY <3>3 DEF JobIn
    <3>5. JobShape' /\ Custody' /\ Keeps(k)
      BY <1>1, <1>6, <1>9, <2>4, <2>5, <3>1, <3>3, <3>4 DEF SendFails
    <3>6. inFlight' \in Int /\ results' \in [Events -> Seq(Outcomes)]
      BY <1>1, <2>5 DEF Types
    <3>. QED
      BY <1>4, <2>2, <2>4, <3>3, <3>5, <3>6
  <2>6. CASE /\ Finish(k, job[k].items, "failed")
             /\ inFlight' = inFlight - Cardinality(job[k].items)
    BY <1>3, <1>4, <1>5, <2>1, <2>2, <2>4, <2>6
  <2>. QED
    BY <2>3, <2>5, <2>6
<1>10. CASE BackoffEnds(k)
  <2>0. job[k].phase = "backoff" /\ UNCHANGED jobFrame
    BY <1>10 DEF BackoffEnds
  <2>1. CASE Pass(k, job[k].items, job[k].attempts) /\ UNCHANGED inFlight
    <3>1. /\ BreakerTypeOK' /\ job' \in [Events -> Jobs] /\ results' = results
          /\ job'[k].phase = "throttled" /\ job'[k].items = job[k].items
          /\ job'[k].attempts = job[k].attempts
          /\ \A j \in Events \ {k} : job'[j] = job[j]
      BY <1>1, <2>1, PassEffect
    <3>2. job[k].attempts <= MaxRetries
      BY <2>0 DEF JobShape
    <3>3. JobShape' /\ Custody' /\ Keeps(k)
      BY <1>1, <1>6, <2>0, <2>1, <3>1, <3>2
    <3>4. inFlight' \in Int /\ results' \in [Events -> Seq(Outcomes)]
      BY <1>1, <2>1, <3>1 DEF Types
    <3>. QED
      BY <1>4, <2>0, <3>1, <3>3, <3>4
  <2>2. CASE /\ Shed(k, job[k].items)
             /\ inFlight' = inFlight - Cardinality(job[k].items)
    <3>1. "circuit_open" \in Answers /\ job[k].phase \in InFlightPhase
      BY <2>0 DEF Answers, InFlightPhase
    <3>2. BreakerTypeOK'
      BY <1>1, <2>2 DEF Shed, Deny, BreakerTypeOK, breakerVars
    <3>3. Finish(k, job[k].items, "circuit_open")
      BY <2>2 DEF Shed
    <3>. QED
      BY <1>3, <1>4, <1>5, <2>0, <2>2, <3>1, <3>2, <3>3
  <2>. QED
    BY <1>10, <2>1, <2>2 DEF BackoffEnds
<1>11. CASE Release(k)
  <2>1. /\ job' = [job EXCEPT ![k] = NoJob]
        /\ UNCHANGED <<submitted, queue, buffer, held, inFlight,
                       forceFlush, stopping, startPc, owed, results>>
        /\ UNCHANGED <<circuit, failures, cooled, probes>>
        /\ job[k].phase = "done"
    BY <1>11 DEF Release, breakerVars
  <2>2. NoJob \in Jobs
    BY AdapterAssumption DEF NoJob, JobIn, Jobs, JobPhases
  <2>3. /\ job' \in [Events -> Jobs] /\ job'[k] = NoJob
        /\ \A j \in Events \ {k} : job'[j] = job[j]
    BY <1>1, <2>1, <2>2
  <2>4. /\ job[k].items = {} /\ job'[k].items = {} /\ job'[k].phase = "none"
    BY <2>1, <2>3 DEF NoJob, JobIn, JobShape, InFlightPhase
  <2>5. JobShape'
    BY <2>1, <2>3, <2>4 DEF JobShape, InFlightPhase
  <2>6. \A j \in Events : job'[j].items = job[j].items
    BY <2>3, <2>4
  <2>7. Custody'
    BY <2>1, <2>6, CustodyStill
  <2>8. /\ permits' \in Int
        /\ \/ loop' = loop
           \/ loop = "slotWait" /\ loop' = "granted"
    BY <1>11 DEF Release, Types
  <2>9. flushPc' \in FlushPoints /\ stopPc' \in StopPoints
    BY <1>11 DEF Release, Types, FlushPoints, StopPoints
  <2>10. Types'
    BY <2>1, <2>3, <2>8, <2>9 DEF Types, LoopPoints, BreakerTypeOK
  <2>11. LoopShape'
    BY <2>1, <2>8 DEF LoopShape
  <2>12. Frees(k)
    BY <1>11, <2>1, <2>3, <2>4 DEF Frees, OnlyJob
  <2>. QED
    BY <2>5, <2>7, <2>10, <2>11, <2>12
<1>. QED
  BY <1>7, <1>8, <1>9, <1>10, <1>11 DEF Job

\* One turn of a drain loop.
Launches ==
  \E items \in Seq(Events) : IsInjective(items) /\ Dispatch(items) /\ Starts(items)

LEMMA LoopStep ==
  ASSUME IInv, Loop
  PROVE  IInv' /\ (SingleDispatch \/ BatchDispatch => Launches)
<1> USE DEF IInv
<1>1. /\ queue \in Seq(Events) /\ buffer \in Seq(Events) /\ held \in Seq(Events)
      /\ IsInjective(queue) /\ IsInjective(buffer) /\ IsInjective(held)
      /\ Range(queue) \cap Range(buffer) = {}
      /\ BreakerTypeOK /\ permits \in Int /\ inFlight \in Int
  BY DEF Types, Custody, Distinct, PlacesApart
<1>2. ASSUME AcquireSlot
      PROVE  permits' \in Int /\ loop' \in {"slotWait", "granted"}
  BY <1>1, <1>2 DEF AcquireSlot
<1>3. Range(<<>>) = {} /\ IsInjective(<<>>) /\ <<>> \in Seq(Events) /\ Len(<<>>) = 0
  BY DEF Range, IsInjective
<1>11. SingleDispatch \/ BatchDispatch => loop = "granted"
  BY DEF SingleDispatch, BatchDispatch
<1>4. CASE SingleTurn
  <2>1. permits' \in Int /\ loop' \in {"slotWait", "granted", "exited", "waiting"}
    BY <1>1, <1>2, <1>4 DEF SingleTurn
  <2>2. /\ UNCHANGED <<circuit, failures, cooled, probes>>
        /\ UNCHANGED <<submitted, queue, buffer, held, inFlight, forceFlush,
                       stopping, startPc, flushPc, stopPc, owed, job, results>>
        /\ Mode = "single" /\ loop = "ready"
    BY <1>4 DEF SingleTurn, breakerVars
  <2>3. Types'
    BY <2>1, <2>2 DEF Types, BreakerTypeOK, LoopPoints
  <2>4. JobShape' /\ LoopShape'
    BY <2>1, <2>2 DEF JobShape, LoopShape
  <2>. QED
    BY <2>2, <2>3, <2>4, CustodyStill, <1>11
<1>5. ASSUME NEW items \in Seq(Events), items # <<>>, Dispatch(items)
      PROVE  inFlight' \in Int
  <2>1. inFlight + Len(items) \in Int
    BY <1>1
  <2>. QED
    BY <1>1, <1>5, <2>1 DEF Dispatch
<1>6. CASE SingleDispatch
  <2> DEFINE items == <<Head(queue)>>
  <2>1. /\ queue # <<>> /\ queue' = Tail(queue) /\ Dispatch(items) /\ loop' = "ready"
        /\ UNCHANGED <<submitted, buffer, held, permits, forceFlush, stopping,
                       startPc, flushPc, stopPc, owed>>
        /\ Mode = "single" /\ loop = "granted"
    BY <1>6 DEF SingleDispatch
  <2>2. /\ queue' \in Seq(Events) /\ IsInjective(queue')
        /\ Head(queue) \in Range(queue) /\ Head(queue) \in Events
        /\ Range(queue) = Range(queue') \cup {Head(queue)}
        /\ Head(queue) \notin Range(queue')
    BY <1>1, <2>1, TailDistinct
  <2>3. /\ items \in Seq(Events) /\ items # <<>> /\ IsInjective(items)
        /\ Range(items) = {Head(queue)}
    BY <2>2 DEF IsInjective, Range
  <2> HIDE DEF items
  <2>4. /\ Range(items) \subseteq Waiting /\ Waiting' = Waiting \ Range(items)
        /\ Distinct' /\ PlacesApart'
    BY <1>1, <2>1, <2>2, <2>3 DEF Waiting, Distinct, PlacesApart, Custody
  <2>5. /\ BreakerTypeOK' /\ job' \in [Events -> Jobs]
        /\ results' \in [Events -> Seq(Outcomes)]
        /\ JobShape' /\ Custody' /\ Starts(items)
    BY <2>1, <2>3, <2>4, CustodyDispatch
  <2>6. inFlight' \in Int
    BY <1>5, <2>1, <2>3
  <2>7. Types' /\ LoopShape'
    BY <2>1, <2>2, <2>5, <2>6 DEF Types, LoopShape, LoopPoints
  <2>8. Launches
    BY <2>1, <2>3, <2>5 DEF Launches
  <2>. QED
    BY <2>5, <2>7, <2>8
<1>7. /\ Filled \in Seq(Events) /\ Remaining \in Seq(Events)
      /\ IsInjective(Filled) /\ IsInjective(Remaining)
      /\ Range(Filled) \cap Range(Remaining) = {}
      /\ Range(Filled) \cup Range(Remaining) = Range(queue) \cup Range(buffer)
  BY <1>1, PullEffect DEF LoopShape
<1>8. CASE BatchTake
  <2>1. /\ Filled # <<>> /\ held' = Filled /\ buffer' = <<>> /\ queue' = Remaining
        /\ permits' \in Int /\ loop' \in {"slotWait", "granted"}
        /\ forceFlush' \in BOOLEAN
        /\ UNCHANGED <<circuit, failures, cooled, probes>>
        /\ UNCHANGED <<submitted, inFlight, stopping, startPc, flushPc, stopPc,
                       owed, job, results>>
        /\ Mode = "batch" /\ loop \in {"ready", "timed"}
    BY <1>2, <1>8 DEF BatchTake, breakerVars
  <2>2. held = <<>>
    BY <2>1 DEF LoopShape
  <2>3. Types'
    BY <1>3, <1>7, <2>1 DEF Types, BreakerTypeOK, LoopPoints
  <2>4. JobShape' /\ LoopShape'
    BY <1>3, <2>1, AdapterAssumption DEF JobShape, LoopShape
  <2>5. Distinct' /\ PlacesApart' /\ Waiting' = Waiting
    BY <1>3, <1>7, <2>1, <2>2 DEF Distinct, PlacesApart, Waiting
  <2>. QED
    BY <2>1, <2>3, <2>4, <2>5, CustodyMove, <1>11
<1>9. CASE BatchWait
  <2>1. /\ buffer' = Filled /\ queue' = Remaining
        /\ Len(Filled) < BatchSize
        /\ loop' \in {"timed", "exited", "waiting"}
        /\ UNCHANGED <<circuit, failures, cooled, probes>>
        /\ UNCHANGED <<submitted, held, permits, inFlight, forceFlush, stopping,
                       startPc, flushPc, stopPc, owed, job, results>>
        /\ Mode = "batch" /\ loop = "ready"
    BY <1>9 DEF BatchWait, breakerVars
  <2>2. held = <<>>
    BY <2>1 DEF LoopShape
  <2>3. Types'
    BY <1>7, <2>1 DEF Types, BreakerTypeOK, LoopPoints
  <2>4. JobShape' /\ LoopShape'
    BY <2>1, <2>2 DEF JobShape, LoopShape
  <2>5. Distinct' /\ PlacesApart' /\ Waiting' = Waiting
    BY <1>1, <1>3, <1>7, <2>1, <2>2 DEF Distinct, PlacesApart, Waiting
  <2>. QED
    BY <2>1, <2>3, <2>4, <2>5, CustodyMove, <1>11
<1>10. CASE BatchDispatch
  <2>1. /\ Dispatch(held) /\ held' = <<>> /\ loop' = "ready"
        /\ UNCHANGED <<submitted, queue, buffer, permits, forceFlush, stopping,
                       startPc, flushPc, stopPc, owed>>
        /\ Mode = "batch" /\ loop = "granted"
    BY <1>10 DEF BatchDispatch
  <2>2. held # <<>>
    BY <2>1 DEF LoopShape
  <2>3. /\ Range(held) \subseteq Waiting /\ Waiting' = Waiting \ Range(held)
        /\ Distinct' /\ PlacesApart'
    BY <1>1, <1>3, <2>1 DEF Waiting, Distinct, PlacesApart, Custody
  <2>4. /\ BreakerTypeOK' /\ job' \in [Events -> Jobs]
        /\ results' \in [Events -> Seq(Outcomes)]
        /\ JobShape' /\ Custody' /\ Starts(held)
    BY <1>1, <2>1, <2>2, <2>3, CustodyDispatch
  <2>5. inFlight' \in Int
    BY <1>1, <1>5, <2>1, <2>2
  <2>6. Types' /\ LoopShape'
    BY <1>3, <2>1, <2>4, <2>5 DEF Types, LoopShape, LoopPoints
  <2>7. Launches
    BY <1>1, <2>1, <2>4 DEF Launches
  <2>. QED
    BY <2>4, <2>6, <2>7
<1>. QED
  BY <1>4, <1>6, <1>8, <1>9, <1>10 DEF Loop

-----------------------------------------------------------------------------
\* The inductive invariant holds in every reachable state.
THEOREM CustodyInvariant == Spec => []IInv
<1>1. Init => IInv
  <2>1. SUFFICES ASSUME Init PROVE IInv
    OBVIOUS
  <2>2. Range(<<>>) = {} /\ IsInjective(<<>>) /\ Len(<<>>) = 0
    BY DEF Range, IsInjective
  <2>3. BreakerTypeOK
    <3>1. 0 \in 0..FailureThreshold /\ 0 \in 0..HalfOpenMaxProbes
      BY BreakerAssumption
    <3>. QED
      BY <2>1, <3>1, Zenon DEF Init, BreakerInit, BreakerTypeOK
  <2>4. NoJob \in Jobs /\ NoJob.phase = "none" /\ NoJob.items = {}
    BY AdapterAssumption DEF NoJob, JobIn, Jobs, JobPhases
  <2>5. Types
    <3>1. <<>> \in Seq(Events) /\ <<>> \in Seq(Outcomes)
      OBVIOUS
    <3>2. job \in [Events -> Jobs] /\ results \in [Events -> Seq(Outcomes)]
      BY <2>1, <2>4, <3>1 DEF Init
    <3>3. forceFlush \in BOOLEAN /\ stopping \in BOOLEAN
      BY <2>1 DEF Init
    <3>. QED
      BY <2>1, <2>3, <3>1, <3>2, <3>3, AdapterAssumption
       DEF Init, Types, LoopPoints, StartPoints, FlushPoints, StopPoints
  <2>6. JobShape
    BY <2>1, <2>4 DEF Init, JobShape, InFlightPhase
  <2>7. LoopShape
    BY <2>1, <2>2, AdapterAssumption DEF Init, LoopShape
  <2>8. Waiting = {} /\ InFlight = {} /\ Unresolved = {}
    BY <2>1, <2>2, <2>4 DEF Init, Waiting, InFlight, Unresolved
  <2>9. Custody
    BY <2>1, <2>2, <2>4, <2>8
       DEF Init, Custody, Distinct, PlacesApart, JobsApart, Open, NothingLost,
           AtMostOneResult
  <2>. QED
    BY <2>5, <2>6, <2>7, <2>9 DEF IInv
<1>2. IInv /\ [Next]_vars => IInv'
  BY SubmitStep, QuietStep, JobStep, LoopStep DEF Next, Client
<1>. QED
  BY <1>1, <1>2, PTL DEF Spec

\* No interleaving of overflow, shedding, retries, flush and stop reports an
\* event twice, or one that was never submitted (base-adapter.ts:13).
THEOREM ResultAtMostOnce == Spec => []AtMostOneResult
<1>1. IInv => AtMostOneResult
  BY DEF IInv, Custody
<1>. QED
  BY <1>1, CustodyInvariant, PTL

\* A submitted event without a result always has a holder that will report it.
THEOREM NoEventLost == Spec => []NothingLost
<1>1. IInv => NothingLost
  BY DEF IInv, Custody
<1>. QED
  BY <1>1, CustodyInvariant, PTL

\* Exactly one result per event: at most one, and a holder until there is one.
THEOREM OneResultEach == Spec => []EveryEventOnce
<1>1. AtMostOneResult /\ NothingLost => EveryEventOnce
  BY DEF EveryEventOnce
<1>. QED
  BY <1>1, ResultAtMostOnce, NoEventLost, PTL

-----------------------------------------------------------------------------
(* Finite sets *)

LEMMA EventSetsFinite ==
  \A S \in SUBSET Events : IsFiniteSet(S) /\ Cardinality(S) \in Nat
BY AdapterAssumption, FS_Subset, FS_CardinalityType

\* Adding and removing disjoint parts.
LEMMA CardinalityOfParts ==
  ASSUME NEW S, NEW T, IsFiniteSet(S), IsFiniteSet(T), S \cap T = {}
  PROVE  Cardinality(S \cup T) = Cardinality(S) + Cardinality(T)
<1>1. Cardinality(S) \in Nat /\ Cardinality(T) \in Nat
  BY FS_CardinalityType
<1>2. Cardinality(S \cap T) = 0
  BY FS_EmptySet
<1>3. Cardinality(S \cup T) = Cardinality(S) + Cardinality(T) - Cardinality(S \cap T)
  BY FS_Union
<1>. QED
  BY <1>1, <1>2, <1>3

-----------------------------------------------------------------------------
(* Effects of the actions on the counters *)

\* Calls of start(), flush() and stop(), their continuations and the clock.
LEMMA QuietEffect ==
  ASSUME IInv,
         \/ CallStart \/ CallFlush \/ CallStop \/ Promises
         \/ TimePasses \/ Terminated \/ UNCHANGED vars
  PROVE  /\ UNCHANGED <<submitted, queue, buffer, held, permits, inFlight, job, results>>
         /\ \/ loop' = loop
            \/ loop' = "ready" /\ loop \in {"off", "waiting", "timed"}
<1>1. startPc \in {"idle", "pending"} => loop = "off"
  BY DEF IInv, LoopShape
<1>2. NotifyWork => \/ loop' = loop
                    \/ loop' = "ready" /\ loop \in {"waiting", "timed"}
  BY DEF NotifyWork
<1>3. CASE CallStart \/ SenderStarts \/ SenderStartFails
  BY <1>1, <1>3 DEF CallStart, SenderStarts, SenderStartFails
<1>4. CASE CallFlush \/ CallStop
  BY <1>2, <1>4 DEF CallFlush, CallStop
<1>5. CASE ResumeFlush \/ ResumeStop \/ CloseSender
  BY <1>2, <1>5 DEF ResumeFlush, ResumeStop, CloseSender
<1>6. CASE TimePasses \/ Terminated \/ UNCHANGED vars
  BY <1>6 DEF TimePasses, Terminated, vars, adapterVars
<1>. QED
  BY <1>3, <1>4, <1>5, <1>6 DEF Promises

\* Items of different jobs are disjoint, so a finished job takes exactly its
\* own items away.
LEMMA InFlightEffect ==
  ASSUME IInv, NEW k \in Events, OnlyJob(k)
  PROVE  /\ job'[k].items = job[k].items => InFlight' = InFlight
         /\ job'[k].items = {} =>
              InFlight = InFlight' \cup job[k].items /\ InFlight' \cap job[k].items = {}
<1>1. \A j \in Events \ {k} : job'[j].items = job[j].items
  BY DEF OnlyJob
<1>2. \A j \in Events \ {k} : job[j].items \cap job[k].items = {}
  BY DEF IInv, Custody, JobsApart
<1>3. job'[k].items = job[k].items => InFlight' = InFlight
  BY <1>1 DEF InFlight
<1>4. ASSUME job'[k].items = {}
      PROVE  InFlight = InFlight' \cup job[k].items /\ InFlight' \cap job[k].items = {}
  <2>1. \A e : e \in InFlight <=> \E j \in Events : e \in job[j].items
    BY DEF InFlight
  <2>2. \A e : e \in InFlight' <=> \E j \in Events : e \in job'[j].items
    BY DEF InFlight
  <2>. QED
    BY <1>1, <1>2, <1>4, <2>1, <2>2
<1>. QED
  BY <1>3, <1>4

-----------------------------------------------------------------------------
(* Preservation *)

LEMMA InFlightExactStep ==
  ASSUME IInv, InFlightExact, [Next]_vars, IInv'
  PROVE  InFlightExact'
<1>1. InFlight \in SUBSET Events /\ InFlight' \in SUBSET Events
  BY DEF IInv, Types, Jobs, InFlight
<1>2. /\ IsFiniteSet(InFlight) /\ Cardinality(InFlight) \in Nat
      /\ IsFiniteSet(InFlight') /\ Cardinality(InFlight') \in Nat
  BY <1>1, EventSetsFinite
<1>3. ASSUME inFlight' = inFlight, InFlight' = InFlight
      PROVE  InFlightExact'
  BY <1>3 DEF InFlightExact
<1>4. ASSUME NEW e \in Events, Submit(e)
      PROVE  InFlightExact'
  BY <1>3, <1>4 DEF Submit, InFlight
<1>5. CASE CallStart \/ CallFlush \/ CallStop \/ Promises \/ TimePasses
           \/ Terminated \/ UNCHANGED vars
  BY <1>3, <1>5, QuietEffect DEF InFlight
<1>6. ASSUME NEW k \in Events, Job(k)
      PROVE  InFlightExact'
  <2>1. CASE Keeps(k)
    BY <1>3, <2>1, InFlightEffect DEF Keeps
  <2>2. CASE Reports(k)
    <3>1. job[k].items \in SUBSET Events
      BY DEF IInv, Types, Jobs
    <3>2. /\ IsFiniteSet(job[k].items) /\ Cardinality(job[k].items) \in Nat
      BY <3>1, EventSetsFinite
    <3>3. InFlight = InFlight' \cup job[k].items /\ InFlight' \cap job[k].items = {}
      BY <2>2, InFlightEffect DEF Reports
    <3>4. Cardinality(InFlight) = Cardinality(InFlight') + Cardinality(job[k].items)
      BY <1>2, <3>2, <3>3, CardinalityOfParts
    <3>. QED
      BY <1>2, <2>2, <3>2, <3>4 DEF Reports, InFlightExact
  <2>3. CASE Frees(k)
    BY <1>3, <2>3, InFlightEffect DEF Frees, Release
  <2>. QED
    BY <1>6, <2>1, <2>2, <2>3, JobStep
<1>7. CASE SingleDispatch \/ BatchDispatch
  <2>0. PICK items \in Seq(Events) : IsInjective(items) /\ Starts(items)
    BY <1>7, LoopStep DEF Launches, Loop
  <2>1. IsFiniteSet(Range(items)) /\ Cardinality(Range(items)) = Len(items)
    BY <2>0, LengthIsCardinality
  <2>2. Cardinality(InFlight \cup Range(items)) = Cardinality(InFlight) + Len(items)
    BY <1>2, <2>0, <2>1, CardinalityOfParts DEF Starts
  <2>. QED
    BY <2>0, <2>2 DEF Starts, InFlightExact
<1>8. CASE SingleTurn \/ BatchTake \/ BatchWait
  BY <1>3, <1>8 DEF SingleTurn, BatchTake, BatchWait, InFlight
<1>. QED
  BY <1>4, <1>5, <1>6, <1>7, <1>8 DEF Next, Client, Loop

\* The semaphore: what is inductive about it.
Slots ==
  /\ SlotsConserved
  /\ permits >= 0
  /\ loop = "slotWait" => permits = 0

LEMMA SlotsStep ==
  ASSUME IInv, Slots, [Next]_vars, IInv'
  PROVE  Slots'
<1> DEFINE inHand == IF loop = "granted" THEN 1 ELSE 0
<1>1. BusyJobs \in SUBSET Events /\ IsFiniteSet(BusyJobs) /\ Cardinality(BusyJobs) \in Nat
  BY EventSetsFinite DEF BusyJobs
<1>2. /\ permits \in Int /\ permits >= 0 /\ Concurrency \in Nat
      /\ permits + Cardinality(BusyJobs) + inHand = Concurrency
      /\ loop = "slotWait" => permits = 0
  BY AdapterAssumption DEF Slots, SlotsConserved, IInv, Types
<1>3. ASSUME permits' = permits, BusyJobs' = BusyJobs,
             \/ loop' = loop
             \/ loop # "granted" /\ loop' \notin {"granted", "slotWait"}
      PROVE  Slots'
  BY <1>2, <1>3 DEF Slots, SlotsConserved
<1>4. ASSUME NEW e \in Events, Submit(e)
      PROVE  Slots'
  BY <1>3, <1>4 DEF Submit, BusyJobs, NotifyWork
<1>5. CASE CallStart \/ CallFlush \/ CallStop \/ Promises \/ TimePasses
           \/ Terminated \/ UNCHANGED vars
  BY <1>3, <1>5, QuietEffect DEF BusyJobs
<1>6. ASSUME NEW k \in Events, Job(k)
      PROVE  Slots'
  <2>1. CASE Keeps(k) \/ Reports(k)
    <3>1. BusyJobs' = BusyJobs
      BY <2>1 DEF Keeps, Reports, OnlyJob, BusyJobs, InFlightPhase
    <3>. QED
      BY <1>3, <2>1, <3>1 DEF Keeps, Reports, jobFrame
  <2>2. CASE Frees(k)
    <3>1. BusyJobs' = BusyJobs \ {k} /\ k \in BusyJobs
      BY <2>2 DEF Frees, OnlyJob, BusyJobs
    <3>2. Cardinality(BusyJobs') = Cardinality(BusyJobs) - 1
      BY <1>1, <3>1, FS_RemoveElement
    <3>3. \/ loop = "slotWait" /\ loop' = "granted" /\ permits' = permits
          \/ loop # "slotWait" /\ loop' = loop /\ permits' = permits + 1
      BY <2>2 DEF Frees, Release
    <3>. QED
      BY <1>1, <1>2, <3>2, <3>3 DEF Slots, SlotsConserved
  <2>. QED
    BY <1>6, <2>1, <2>2, JobStep
<1>7. CASE SingleDispatch \/ BatchDispatch
  <2>1. PICK items \in Seq(Events) : IsInjective(items) /\ Starts(items)
    BY <1>7, LoopStep DEF Launches, Loop
  <2>2. Cardinality(BusyJobs') = Cardinality(BusyJobs) + 1
    BY <1>1, <2>1, FS_AddElement DEF Starts
  <2>3. loop = "granted" /\ loop' = "ready" /\ permits' = permits
    BY <1>7 DEF SingleDispatch, BatchDispatch
  <2>. QED
    BY <1>1, <1>2, <2>2, <2>3 DEF Slots, SlotsConserved
<1>8. ASSUME AcquireSlot, loop # "granted", job' = job
      PROVE  Slots'
  <2>1. BusyJobs' = BusyJobs
    BY <1>8 DEF BusyJobs
  <2>2. \/ permits > 0 /\ permits' = permits - 1 /\ loop' = "granted"
        \/ permits = 0 /\ loop' = "slotWait" /\ permits' = permits
    BY <1>8 DEF AcquireSlot
  <2>. QED
    BY <1>1, <1>2, <1>8, <2>1, <2>2 DEF Slots, SlotsConserved
<1>9. CASE SingleTurn
  <2>1. CASE AcquireSlot
    BY <1>8, <1>9, <2>1 DEF SingleTurn
  <2>2. CASE permits' = permits /\ loop' \in {"exited", "waiting"}
    BY <1>3, <1>9, <2>2 DEF SingleTurn, BusyJobs
  <2>. QED
    BY <1>9, <2>1, <2>2 DEF SingleTurn
<1>10. CASE BatchTake
  BY <1>8, <1>10 DEF BatchTake
<1>11. CASE BatchWait
  BY <1>3, <1>11 DEF BatchWait, BusyJobs
<1>. QED
  BY <1>4, <1>5, <1>6, <1>7, <1>9, <1>10, <1>11 DEF Next, Client, Loop

\* The loop neither sleeps on a queued event nor is granted a slot for none.
LEMMA WakeupsStep ==
  ASSUME IInv, Wakeups, [Next]_vars, IInv'
  PROVE  Wakeups'
<1>1. ASSUME queue' = queue,
             \/ loop' = loop
             \/ loop' \in {"ready", "exited"}
             \/ loop = "slotWait" /\ loop' = "granted"
      PROVE  Wakeups'
  BY <1>1 DEF Wakeups, NoMissedWork, GrantedHasWork
<1>2. ASSUME NEW e \in Events, Submit(e)
      PROVE  Wakeups'
  <2>1. CASE UNCHANGED <<queue, loop>>
    BY <1>1, <2>1
  <2>2. CASE /\ queue' = Enqueued(queue, e)
             /\ IF e \in Casualty(queue, e) THEN UNCHANGED loop ELSE NotifyWork
    <3>1. /\ queue \in Seq(Events) /\ IsInjective(queue) /\ e \notin Range(queue)
      BY <1>2 DEF Submit, IInv, Types, Custody, Distinct, Open, Waiting, Unresolved
    <3>2. /\ queue # <<>> => queue' # <<>>
          /\ e \in Casualty(queue, e) => queue' = queue
      BY <2>2, <3>1, EnqueueEffect
    <3>3. CASE e \in Casualty(queue, e)
      BY <1>1, <2>2, <3>2, <3>3
    <3>4. CASE NotifyWork
      BY <3>2, <3>4 DEF NotifyWork, Wakeups, NoMissedWork, GrantedHasWork
    <3>. QED
      BY <2>2, <3>3, <3>4
  <2>. QED
    BY <1>2, <2>1, <2>2 DEF Submit
<1>3. CASE CallStart \/ CallFlush \/ CallStop \/ Promises \/ TimePasses
           \/ Terminated \/ UNCHANGED vars
  BY <1>1, <1>3, QuietEffect
<1>4. ASSUME NEW k \in Events, Job(k)
      PROVE  Wakeups'
  BY <1>1, <1>4, JobStep DEF Keeps, Reports, Frees, Release, jobFrame
<1>5. CASE SingleTurn
  BY <1>5 DEF SingleTurn, AcquireSlot, Wakeups, NoMissedWork, GrantedHasWork
<1>6. CASE SingleDispatch \/ BatchDispatch
  BY <1>6 DEF SingleDispatch, BatchDispatch, Wakeups, NoMissedWork, GrantedHasWork
<1>7. CASE BatchTake
  BY <1>7 DEF BatchTake, AcquireSlot, Wakeups, NoMissedWork, GrantedHasWork
<1>8. CASE BatchWait
  <2>1. Remaining = <<>>
    BY <1>8, PullEffect DEF BatchWait, IInv, Types, Custody, Distinct, PlacesApart, LoopShape
  <2>. QED
    BY <1>8, <2>1, AdapterAssumption DEF BatchWait, Wakeups, NoMissedWork, GrantedHasWork
<1>. QED
  BY <1>2, <1>3, <1>4, <1>5, <1>6, <1>7, <1>8 DEF Next, Client, Loop

-----------------------------------------------------------------------------
(* The breaker *)

\* A job past the breaker is a probe whenever it leaves the breaker half open.
LEMMA PassProbe ==
  ASSUME IInv, ClosedIffBelowThreshold,
         NEW k \in Events, NEW items, NEW attempts, Pass(k, items, attempts)
  PROVE  Breaker'
<1>1. PICK probe \in BOOLEAN :
        /\ Admit(probe)
        /\ job' = [job EXCEPT ![k] = JobIn("throttled", items, attempts, probe)]
  BY DEF Pass
<1>2. circuit' = "half_open" => probe
  BY <1>1, Zenon DEF Admit, breakerVars
<1>3. failures' = failures /\ (circuit' = "closed" <=> circuit = "closed")
  BY <1>1, Zenon DEF Admit, breakerVars
<1>4. job'[k] = JobIn("throttled", items, attempts, probe)
  BY <1>1 DEF IInv, Types
<1>5. job'[k].phase = "throttled" /\ job'[k].probe = probe
  BY <1>4 DEF JobIn
<1>6. HalfOpenHasProbe'
  BY <1>2, <1>5 DEF HalfOpenHasProbe
<1>7. ClosedIffBelowThreshold'
  BY <1>3 DEF ClosedIffBelowThreshold
<1>. QED
  BY <1>6, <1>7 DEF Breaker

\* Steps that leave the breaker's state, and every probe in its place.
LEMMA BreakerStill ==
  ASSUME Breaker, UNCHANGED <<circuit, failures>>,
         NEW k \in Events,
         \A j \in Events \ {k} : job'[j] = job[j],
         \/ job[k].phase \notin {"throttled", "sending"}
         \/ job'[k].probe = job[k].probe /\ job'[k].phase \in {"throttled", "sending"}
  PROVE  Breaker'
<1>1. ClosedIffBelowThreshold'
  BY DEF Breaker, ClosedIffBelowThreshold
<1>2. HalfOpenHasProbe'
  BY DEF Breaker, HalfOpenHasProbe
<1>. QED
  BY <1>1, <1>2 DEF Breaker

LEMMA BreakerReports ==
  ASSUME IInv, Breaker, OnSuccess \/ OnFailure
  PROVE  Breaker'
<1>1. failures \in Nat /\ FailureThreshold \in Nat \ {0}
      /\ circuit \in {"closed", "open", "half_open"}
  BY BreakerAssumption DEF IInv, Types, BreakerTypeOK
<1>2. CASE OnSuccess
  BY <1>1, <1>2 DEF OnSuccess, Breaker, ClosedIffBelowThreshold, HalfOpenHasProbe
<1>3. CASE OnFailure
  <2>1. \/ circuit' = "open" /\ failures' >= FailureThreshold
        \/ circuit' = "closed" /\ failures' < FailureThreshold
    BY <1>1, <1>3 DEF OnFailure, MoreFailures, Breaker, ClosedIffBelowThreshold
  <2>2. failures' \in Nat
    BY <1>1, <1>3 DEF OnFailure, MoreFailures
  <2>. QED
    BY <1>1, <2>1, <2>2 DEF Breaker, ClosedIffBelowThreshold, HalfOpenHasProbe
<1>. QED
  BY <1>2, <1>3

LEMMA BreakerStep ==
  ASSUME IInv, Breaker, [Next]_vars
  PROVE  Breaker'
<1>1. ASSUME UNCHANGED <<circuit, failures, job>>
      PROVE  Breaker'
  BY <1>1 DEF Breaker, ClosedIffBelowThreshold, HalfOpenHasProbe
<1>2. ASSUME NEW e \in Events, Submit(e)
      PROVE  Breaker'
  BY <1>1, <1>2 DEF Submit, breakerVars
<1>3. CASE CallStart \/ CallFlush \/ CallStop \/ Promises \/ TimePasses
           \/ Terminated \/ UNCHANGED vars
  <2>1. CASE CallStart \/ CallFlush \/ CallStop \/ Promises
    BY <1>1, <2>1 DEF CallStart, CallFlush, CallStop, Promises, SenderStarts,
       SenderStartFails, ResumeFlush, ResumeStop, CloseSender, breakerVars
  <2>2. CASE TimePasses \/ Terminated \/ UNCHANGED vars
    BY <1>1, <2>2 DEF TimePasses, CoolDown, Terminated, vars, adapterVars, breakerVars
  <2>. QED
    BY <1>3, <2>1, <2>2
<1>4. ASSUME NEW k \in Events, NEW items, NEW outcome, Deny,
             Finish(k, items, outcome), job[k].phase \notin {"throttled", "sending"}
      PROVE  Breaker'
  BY <1>4, BreakerStill DEF Deny, Finish, breakerVars, IInv, Types
<1>5. ASSUME NEW k \in Events, Job(k)
      PROVE  Breaker'
  <2>1. CASE LimiterGrants(k)
    <3>1. /\ UNCHANGED <<circuit, failures>>
          /\ job'[k] = JobIn("sending", job[k].items, job[k].attempts + 1, job[k].probe)
          /\ \A j \in Events \ {k} : job'[j] = job[j]
      BY <2>1 DEF LimiterGrants, breakerVars, IInv, Types
    <3>2. job'[k].probe = job[k].probe /\ job'[k].phase = "sending"
      BY <3>1 DEF JobIn
    <3>. QED
      BY <3>1, <3>2, BreakerStill
  <2>2. CASE SendSucceeds(k) \/ SendFails(k)
    BY <2>2, BreakerReports DEF SendSucceeds, SendFails
  <2>3. CASE BackoffEnds(k)
    BY <1>4, <2>3, PassProbe DEF BackoffEnds, Shed, Breaker
  <2>4. CASE Release(k)
    BY <2>4, BreakerStill DEF Release, breakerVars, IInv, Types
  <2>. QED
    BY <1>5, <2>1, <2>2, <2>3, <2>4 DEF Job
<1>6. CASE SingleTurn \/ BatchTake \/ BatchWait
  BY <1>1, <1>6 DEF SingleTurn, BatchTake, BatchWait, breakerVars
<1>7. ASSUME NEW items, Dispatch(items), Head(items) \in Events,
             job[Head(items)].phase = "none"
      PROVE  Breaker'
  BY <1>4, <1>7, PassProbe DEF Dispatch, Shed, Breaker
<1>8. CASE SingleDispatch \/ BatchDispatch
  <2>1. PICK items \in Seq(Events) :
          Dispatch(items) /\ Starts(items)
    BY <1>8, LoopStep DEF Launches, Loop
  <2>2. Head(items) \in Events /\ job[Head(items)].phase = "none"
    BY <2>1 DEF Starts, BusyJobs
  <2>. QED
    BY <1>7, <2>1, <2>2
<1>. QED
  BY <1>2, <1>3, <1>5, <1>6, <1>8 DEF Next, Client, Loop

-----------------------------------------------------------------------------
(* The theorems *)

Counted == IInv /\ InFlightExact /\ Slots /\ Wakeups /\ Breaker

THEOREM CountersInvariant == Spec => []Counted
<1>1. Init /\ IInv => Counted
  <2>1. SUFFICES ASSUME Init, IInv PROVE Counted
    OBVIOUS
  <2>2. InFlight = {} /\ BusyJobs = {}
    BY <2>1 DEF Init, InFlight, BusyJobs, NoJob, JobIn
  <2>3. InFlightExact
    BY <2>1, <2>2, FS_EmptySet DEF Init, InFlightExact
  <2>4. Slots
    BY <2>1, <2>2, FS_EmptySet, AdapterAssumption DEF Init, Slots, SlotsConserved
  <2>5. Wakeups
    BY <2>1 DEF Init, Wakeups, NoMissedWork, GrantedHasWork
  <2>6. Breaker
    BY <2>1, BreakerAssumption
       DEF Init, BreakerInit, Breaker, ClosedIffBelowThreshold, HalfOpenHasProbe
  <2>. QED
    BY <2>1, <2>3, <2>4, <2>5, <2>6 DEF Counted
<1>2. Counted /\ IInv' /\ [Next]_vars => Counted'
  BY InFlightExactStep, SlotsStep, WakeupsStep, BreakerStep DEF Counted
<1>. QED
  BY <1>1, <1>2, CustodyInvariant, PTL DEF Spec

\* Every variable keeps its type: the counters never leave their ranges.
THEOREM TypeCorrect == Spec => []TypeOK
<1>1. Counted => TypeOK
  <2>1. SUFFICES ASSUME Counted PROVE TypeOK
    OBVIOUS
  <2>2. /\ BusyJobs \in SUBSET Events /\ Cardinality(BusyJobs) \in Nat
        /\ InFlight \in SUBSET Events /\ Cardinality(InFlight) \in Nat
    <3>1. BusyJobs \in SUBSET Events /\ InFlight \in SUBSET Events
      BY <2>1 DEF Counted, IInv, Types, Jobs, BusyJobs, InFlight
    <3>. QED
      BY <3>1, EventSetsFinite
  <2>3. permits \in 0..Concurrency
    BY <2>1, <2>2, AdapterAssumption DEF Counted, IInv, Types, Slots, SlotsConserved
  <2>4. inFlight \in Nat
    BY <2>1, <2>2 DEF Counted, InFlightExact
  <2>. QED
    BY <2>1, <2>3, <2>4 DEF Counted, IInv, Types, TypeOK
<1>. QED
  BY <1>1, CountersInvariant, PTL

\* The inFlight counter counts the items of the running jobs, no matter in
\* which order sends finish, shed and retry.
THEOREM InFlightCounts == Spec => []InFlightExact
<1>1. Counted => InFlightExact
  BY DEF Counted
<1>. QED
  BY <1>1, CountersInvariant, PTL

\* The semaphore hands out exactly its slots: at most Concurrency jobs run.
THEOREM SlotsAreConserved == Spec => []SlotsConserved
<1>1. Counted => SlotsConserved
  BY DEF Counted, Slots
<1>. QED
  BY <1>1, CountersInvariant, PTL

\* The loop waits for a slot only while all of them are taken by jobs that
\* will release theirs.
THEOREM NoPermitMissed == Spec => []NoMissedPermit
<1>1. Counted => NoMissedPermit
  <2>1. SUFFICES ASSUME Counted, loop = "slotWait" PROVE permits = 0 /\ BusyJobs # {}
    BY DEF NoMissedPermit
  <2>2. permits = 0 /\ Cardinality(BusyJobs) = Concurrency
    <3>1. BusyJobs \in SUBSET Events
      BY DEF BusyJobs
    <3>2. Cardinality(BusyJobs) \in Nat
      BY <3>1, EventSetsFinite
    <3>. QED
      BY <2>1, <3>2, AdapterAssumption DEF Counted, Slots, SlotsConserved
  <2>. QED
    BY <2>2, FS_EmptySet, AdapterAssumption
<1>. QED
  BY <1>1, CountersInvariant, PTL

\* The loop is asleep only while the queue is empty, and the single loop is
\* never granted a slot for an empty queue.
THEOREM WakeupsKept == Spec => []Wakeups
<1>1. Counted => Wakeups
  BY DEF Counted
<1>. QED
  BY <1>1, CountersInvariant, PTL

\* The counter, the slots and the sleeping of the loop agree.
THEOREM SlotsStayExact == Spec => []SlotsExact
<1>1. InFlightExact /\ SlotsConserved /\ NoMissedPermit /\ Wakeups => SlotsExact
  BY DEF SlotsExact
<1>. QED
  BY <1>1, InFlightCounts, SlotsAreConserved, NoPermitMissed, WakeupsKept, PTL

\* Batch mode states the same of its events, less the empty hand of a granted
\* loop, which only single mode rules out.
THEOREM AccountsAgree == Spec => []Accounting
<1>1. EveryEventOnce /\ SlotsExact => Accounting
  BY DEF EveryEventOnce, SlotsExact, Wakeups, Accounting
<1>. QED
  BY <1>1, OneResultEach, SlotsStayExact, PTL

\* The breaker is closed exactly while its failures are below the threshold,
\* and half open only while a probe is outstanding.
THEOREM BreakerCoherent == Spec => []Breaker
<1>1. Counted => Breaker
  BY DEF Counted
<1>. QED
  BY <1>1, CountersInvariant, PTL
=============================================================================
