---------------------------- MODULE DeliveryAdapter ---------------------------
(***************************************************************************)
(* The managed delivery adapter of src/delivery/base-adapter.ts: a bounded *)
(* queue, one drain loop (single or batch mode), a semaphore, concurrent   *)
(* send jobs with retry and a shared circuit breaker, and the flush() and  *)
(* stop() promises.                                                        *)
(*                                                                         *)
(* The program is single threaded, so one action is the code that runs     *)
(* between two awaits; "ready" and "granted" are continuations that are    *)
(* scheduled and have not run yet.  The end of one loop iteration and the  *)
(* start of the next are separate actions although no await divides them.  *)
(***************************************************************************)
EXTENDS CircuitBreaker, BoundedQueue, FiniteSets, Functions

CONSTANTS
  Events,        \* the events the runtime may submit
  Mode,          \* "single" or "batch": sender.mode
  BatchSize,     \* sender.batchSize
  Concurrency,   \* target.concurrency
  MaxRetries     \* target.retry.maxRetries

ASSUME AdapterAssumption ==
  /\ IsFiniteSet(Events)
  /\ Mode \in {"single", "batch"}
  /\ BatchSize \in Nat \ {0}
  /\ Concurrency \in Nat \ {0}
  /\ MaxRetries \in Nat

VARIABLES
  submitted,    \* history: the arguments of submit(), in call order
  queue,        \* the bounded queue
  buffer,       \* batchBuffer
  held,         \* batch loop: items spliced off the buffer, not yet in flight
  loop,         \* where the drain loop is suspended
  permits,      \* Semaphore.permits
  inFlight,     \* the inFlight counter
  forceFlush,   \* the forceFlush flag
  stopping,     \* the stopping flag
  startPc,      \* progress of start(); started is startPc # "idle"
  flushPc,      \* progress of one external flush() call
  stopPc,       \* progress of stop()
  owed,         \* history: unresolved events when flush() was called
  job,          \* running processSingle/processBatch calls, by first event
  results       \* history: the outcomes emitted for each event

adapterVars == <<submitted, queue, buffer, held, loop, permits, inFlight,
                 forceFlush, stopping, startPc, flushPc, stopPc, owed, job,
                 results>>
vars == <<breakerVars, adapterVars>>

Outcomes == {"delivered", "failed", "dropped", "circuit_open"}
JobPhases == {"none", "throttled", "sending", "backoff", "done"}
Jobs == [phase: JobPhases, items: SUBSET Events,
         attempts: 0..(MaxRetries + 1), probe: BOOLEAN]
JobIn(phase, items, attempts, probe) ==
  [phase |-> phase, items |-> items, attempts |-> attempts, probe |-> probe]
NoJob == JobIn("none", {}, 0, FALSE)

LoopPoints == {"off", "ready", "waiting", "timed", "slotWait", "granted", "exited"}
StartPoints == {"idle", "pending", "up", "failed"}
FlushPoints == {"idle", "starting", "waiting", "done", "rejected"}
StopPoints == {"idle", "starting", "draining", "joining", "closed"}

TypeOK ==
  /\ BreakerTypeOK
  /\ submitted \in Seq(Events)
  /\ queue \in Seq(Events)
  /\ buffer \in Seq(Events)
  /\ held \in Seq(Events)
  /\ loop \in LoopPoints
  /\ permits \in 0..Concurrency
  /\ inFlight \in Nat
  /\ forceFlush \in BOOLEAN
  /\ stopping \in BOOLEAN
  /\ startPc \in StartPoints
  /\ flushPc \in FlushPoints
  /\ stopPc \in StopPoints
  /\ owed \in SUBSET Events
  /\ job \in [Events -> Jobs]
  /\ results \in [Events -> Seq(Outcomes)]

Init ==
  /\ BreakerInit
  /\ submitted = <<>> /\ queue = <<>> /\ buffer = <<>> /\ held = <<>>
  /\ loop = "off"
  /\ permits = Concurrency
  /\ inFlight = 0
  /\ forceFlush = FALSE /\ stopping = FALSE
  /\ startPc = "idle" /\ flushPc = "idle" /\ stopPc = "idle"
  /\ owed = {}
  /\ job = [e \in Events |-> NoJob]
  /\ results = [e \in Events |-> <<>>]

-----------------------------------------------------------------------------
(* Helpers *)

\* finish, finishMany and emitDropped: one result for every item.
Emit(items, outcome) ==
  results' = [e \in Events |-> IF e \in items THEN Append(results[e], outcome)
                                              ELSE results[e]]

NotifyWork == loop' = IF loop \in {"waiting", "timed"} THEN "ready" ELSE loop

\* Mutant: running sends are overlooked.
IsIdleQueueOnly == queue = <<>> /\ buffer = <<>>

IsIdle == queue = <<>> /\ buffer = <<>> /\ inFlight = 0

Unresolved == {e \in Range(submitted) : results[e] = <<>>}

\* A job is in flight from its dispatch to the emission of its results.
InFlightPhase == {"throttled", "sending", "backoff"}
ActiveJobs == {k \in Events : job[k].phase \in InFlightPhase}

-----------------------------------------------------------------------------
(* The client's calls *)

\* submit(event)
Submit(e) ==
  /\ e \notin Range(submitted)
  /\ submitted' = Append(submitted, e)
  /\ \/ /\ stopping
        /\ Emit({e}, "dropped")
        /\ UNCHANGED <<queue, loop>>
     \/ /\ ~stopping
        /\ queue' = Enqueued(queue, e)
        /\ Emit(Casualty(queue, e), "dropped")
        /\ IF e \in Casualty(queue, e) THEN UNCHANGED loop ELSE NotifyWork
  /\ UNCHANGED <<breakerVars, buffer, held, permits, inFlight, forceFlush,
                 stopping, startPc, flushPc, stopPc, owed, job>>

\* start(), up to the await of sender.start(); later calls return at once.
CallStart ==
  /\ startPc = "idle"
  /\ startPc' = "pending"
  /\ UNCHANGED <<breakerVars, submitted, queue, buffer, held, loop, permits,
                 inFlight, forceFlush, stopping, flushPc, stopPc, owed, job, results>>

\* sender.start() resolves and the drain loop is spawned, or it rejects.
SenderStarts ==
  /\ startPc = "pending"
  /\ startPc' = "up"
  /\ loop' = "ready"
  /\ UNCHANGED <<breakerVars, submitted, queue, buffer, held, permits,
                 inFlight, forceFlush, stopping, flushPc, stopPc, owed, job, results>>

SenderStartFails ==
  /\ startPc = "pending"
  /\ startPc' = "failed"
  /\ UNCHANGED <<breakerVars, submitted, queue, buffer, held, loop, permits,
                 inFlight, forceFlush, stopping, flushPc, stopPc, owed, job, results>>

\* flush(), up to its first await.
CallFlush ==
  /\ flushPc = "idle"
  /\ owed' = Unresolved
  /\ \/ /\ startPc = "idle"
        /\ startPc' = "pending"
        /\ flushPc' = "starting"
        /\ UNCHANGED <<forceFlush, loop>>
     \/ /\ startPc # "idle"
        /\ forceFlush' = TRUE
        /\ NotifyWork
        /\ flushPc' = IF IsIdle THEN "done" ELSE "waiting"
        /\ UNCHANGED startPc
  /\ UNCHANGED <<breakerVars, submitted, queue, buffer, held, permits,
                 inFlight, stopping, stopPc, job, results>>

\* flush() after its own start() settled.
ResumeFlush ==
  /\ flushPc = "starting"
  /\ \/ /\ startPc = "failed"
        /\ flushPc' = "rejected"
        /\ UNCHANGED <<forceFlush, loop>>
     \/ /\ startPc = "up"
        /\ forceFlush' = TRUE
        /\ NotifyWork
        /\ flushPc' = IF IsIdle THEN "done" ELSE "waiting"
  /\ UNCHANGED <<breakerVars, submitted, queue, buffer, held, permits, inFlight,
                 stopping, startPc, stopPc, owed, job, results>>

\* Mutant: stop() does not wait for the drain.
CallStopWithoutDrain ==
  /\ stopPc = "idle"
  /\ stopping' = TRUE
  /\ NotifyWork
  /\ stopPc' = "joining"
  /\ UNCHANGED <<breakerVars, submitted, queue, buffer, held, permits, inFlight,
                 forceFlush, startPc, flushPc, owed, job, results>>

\* stop() and runStop(), through the flush() they call, up to its first await.
CallStop ==
  /\ stopPc = "idle"
  /\ stopping' = TRUE
  /\ NotifyWork
  /\ \/ /\ startPc = "idle"
        /\ startPc' = "pending"
        /\ stopPc' = "starting"
        /\ UNCHANGED forceFlush
     \/ /\ startPc # "idle"
        /\ forceFlush' = TRUE
        /\ stopPc' = IF IsIdle THEN "joining" ELSE "draining"
        /\ UNCHANGED startPc
  /\ UNCHANGED <<breakerVars, submitted, queue, buffer, held, permits, inFlight,
                 flushPc, owed, job, results>>

\* The flush() inside runStop() after its own start() settled; a rejection is
\* logged and swallowed.
ResumeStop ==
  /\ stopPc = "starting"
  /\ \/ /\ startPc = "failed"
        /\ stopPc' = "joining"
        /\ UNCHANGED <<forceFlush, loop>>
     \/ /\ startPc = "up"
        /\ forceFlush' = TRUE
        /\ NotifyWork
        /\ stopPc' = IF IsIdle THEN "joining" ELSE "draining"
  /\ UNCHANGED <<breakerVars, submitted, queue, buffer, held, permits, inFlight,
                 stopping, startPc, flushPc, owed, job, results>>

\* Mutant: the sender is closed without joining the loop.
CloseSenderEarly ==
  /\ stopPc = "joining"
  /\ stopPc' = "closed"
  /\ UNCHANGED <<breakerVars, submitted, queue, buffer, held, loop, permits,
                 inFlight, forceFlush, stopping, startPc, flushPc, owed, job, results>>

\* runStop(): await the loop, if it was ever spawned, then call sender.stop().
CloseSender ==
  /\ stopPc = "joining"
  /\ loop \in {"off", "exited"}
  /\ stopPc' = "closed"
  /\ UNCHANGED <<breakerVars, submitted, queue, buffer, held, loop, permits,
                 inFlight, forceFlush, stopping, startPc, flushPc, owed, job, results>>

-----------------------------------------------------------------------------
(* Jobs: processSingle and processBatch *)

\* The top of the retry loop.  Past the breaker the job waits for the rate
\* limiter; denied, it sheds its items and only the slot is left to release.
Pass(k, items, attempts) ==
  /\ \E probe \in BOOLEAN :
       /\ Admit(probe)
       /\ job' = [job EXCEPT ![k] = JobIn("throttled", items, attempts, probe)]
  /\ UNCHANGED results

\* Mutant: the job ends without reporting.
FinishSilently(k, items, outcome) ==
  /\ job' = [job EXCEPT ![k] = JobIn("done", {}, 0, FALSE)]
  /\ UNCHANGED results

Finish(k, items, outcome) ==
  /\ Emit(items, outcome)
  /\ job' = [job EXCEPT ![k] = JobIn("done", {}, 0, FALSE)]

Shed(k, items) == Deny /\ Finish(k, items, "circuit_open")

\* The loop starts a job: inFlight rises, and falls again at once when shed.
Dispatch(items) ==
  \/ /\ Pass(Head(items), Range(items), 0)
     /\ inFlight' = inFlight + Len(items)
  \/ /\ Shed(Head(items), Range(items))
     /\ UNCHANGED inFlight

jobFrame == <<submitted, queue, buffer, held, loop, permits, forceFlush,
              stopping, startPc, flushPc, stopPc, owed>>

\* limiter.acquire() resolves and the send begins.
LimiterGrants(k) ==
  /\ job[k].phase = "throttled"
  /\ job' = [job EXCEPT ![k] = JobIn("sending", @.items, @.attempts + 1, @.probe)]
  /\ UNCHANGED <<breakerVars, jobFrame, inFlight, results>>

SendSucceeds(k) ==
  /\ job[k].phase = "sending"
  /\ OnSuccess
  /\ Finish(k, job[k].items, "delivered")
  /\ inFlight' = inFlight - Cardinality(job[k].items)
  /\ UNCHANGED jobFrame

\* Mutant: one retry too many.
MayRetryOnceMore(k, retryable) == retryable /\ job[k].attempts <= MaxRetries + 1

\* A retryable failure with retries left backs off; any other is terminal.
MayRetry(k, retryable) == retryable /\ job[k].attempts <= MaxRetries

SendFails(k) ==
  /\ job[k].phase = "sending"
  /\ OnFailure
  /\ \E retryable \in BOOLEAN :
       \/ /\ MayRetry(k, retryable)
          /\ job' = [job EXCEPT ![k] = JobIn("backoff", @.items, @.attempts, FALSE)]
          /\ UNCHANGED <<inFlight, results>>
       \/ /\ ~MayRetry(k, retryable)
          /\ Finish(k, job[k].items, "failed")
          /\ inFlight' = inFlight - Cardinality(job[k].items)
  /\ UNCHANGED jobFrame

BackoffEnds(k) ==
  /\ job[k].phase = "backoff"
  /\ \/ /\ Pass(k, job[k].items, job[k].attempts)
        /\ UNCHANGED inFlight
     \/ /\ Shed(k, job[k].items)
        /\ inFlight' = inFlight - Cardinality(job[k].items)
  /\ UNCHANGED jobFrame

\* Mutants: the slot is handed over and freed as well; the waiting flushes
\* are not woken.
ReleaseTwice(k) ==
  /\ job[k].phase = "done"
  /\ job' = [job EXCEPT ![k] = NoJob]
  /\ permits' = permits + 1
  /\ loop' = IF loop = "slotWait" THEN "granted" ELSE loop
  /\ flushPc' = IF IsIdle /\ flushPc = "waiting" THEN "done" ELSE flushPc
  /\ stopPc' = IF IsIdle /\ stopPc = "draining" THEN "joining" ELSE stopPc
  /\ UNCHANGED <<breakerVars, submitted, queue, buffer, held, inFlight,
                 forceFlush, stopping, startPc, owed, results>>

ReleaseForgettingWaiters(k) ==
  /\ job[k].phase = "done"
  /\ job' = [job EXCEPT ![k] = NoJob]
  /\ IF loop = "slotWait" THEN loop' = "granted" /\ UNCHANGED permits
                          ELSE permits' = permits + 1 /\ UNCHANGED loop
  /\ UNCHANGED <<breakerVars, submitted, queue, buffer, held, inFlight,
                 forceFlush, stopping, startPc, flushPc, stopPc, owed, results>>

\* The job's finally callback: release the slot, to the loop if it is queued
\* for it, and wake the flushes when nothing is left.
Release(k) ==
  /\ job[k].phase = "done"
  /\ job' = [job EXCEPT ![k] = NoJob]
  /\ IF loop = "slotWait" THEN loop' = "granted" /\ UNCHANGED permits
                          ELSE permits' = permits + 1 /\ UNCHANGED loop
  /\ flushPc' = IF IsIdle /\ flushPc = "waiting" THEN "done" ELSE flushPc
  /\ stopPc' = IF IsIdle /\ stopPc = "draining" THEN "joining" ELSE stopPc
  /\ UNCHANGED <<breakerVars, submitted, queue, buffer, held, inFlight,
                 forceFlush, stopping, startPc, owed, results>>

-----------------------------------------------------------------------------
(* The drain loops *)

\* slots.acquire()
AcquireSlot ==
  \/ permits > 0 /\ permits' = permits - 1 /\ loop' = "granted"
  \/ permits = 0 /\ loop' = "slotWait" /\ UNCHANGED permits

\* One turn of runSingleLoop, up to an await or its return.
SingleTurn ==
  /\ Mode = "single" /\ loop = "ready"
  /\ \/ queue # <<>> /\ AcquireSlot
     \/ /\ queue = <<>>
        /\ loop' = IF stopping THEN "exited" ELSE "waiting"
        /\ UNCHANGED permits
  /\ UNCHANGED <<breakerVars, submitted, queue, buffer, held, inFlight, forceFlush,
                 stopping, startPc, flushPc, stopPc, owed, job, results>>

\* The turn resumes with a slot.  The queue cannot have run empty meanwhile
\* (GrantedHasWork), so the branch that hands the slot back is left out.
SingleDispatch ==
  /\ Mode = "single" /\ loop = "granted" /\ queue # <<>>
  /\ queue' = Tail(queue)
  /\ Dispatch(<<Head(queue)>>)
  /\ loop' = "ready"
  /\ UNCHANGED <<submitted, buffer, held, permits, forceFlush, stopping,
                 startPc, flushPc, stopPc, owed>>

\* The batch buffer after pulling from the queue, and the queue after it.
PullCount == IF BatchSize - Len(buffer) < Len(queue) THEN BatchSize - Len(buffer)
                                                     ELSE Len(queue)
Filled == buffer \o SubSeq(queue, 1, PullCount)
\* Mutant: the pull consumes one event more than it buffers.
RemainingSkippingOne == SubSeq(queue, PullCount + 2, Len(queue))

Remaining == SubSeq(queue, PullCount + 1, Len(queue))

\* Mutant: an aged partial buffer is never flushed.
BatchTakeUntimed ==
  /\ Mode = "batch" /\ loop = "ready"
  /\ Filled # <<>>
  /\ Len(Filled) >= BatchSize \/ forceFlush \/ stopping
  /\ held' = Filled
  /\ buffer' = <<>>
  /\ queue' = Remaining
  /\ forceFlush' = (forceFlush /\ Remaining # <<>>)
  /\ AcquireSlot
  /\ UNCHANGED <<breakerVars, submitted, inFlight, stopping, startPc, flushPc,
                 stopPc, owed, job, results>>

\* A full, forced or draining buffer goes out; a partial one may have aged.
\* A loop woken by its timer ("timed") has an aged buffer.
BatchTake ==
  /\ Mode = "batch" /\ loop \in {"ready", "timed"}
  /\ Filled # <<>>
  /\ held' = Filled
  /\ buffer' = <<>>
  /\ queue' = Remaining
  /\ forceFlush' = (forceFlush /\ Remaining # <<>>)
  /\ AcquireSlot
  /\ UNCHANGED <<breakerVars, submitted, inFlight, stopping, startPc, flushPc,
                 stopPc, owed, job, results>>

BatchWait ==
  /\ Mode = "batch" /\ loop = "ready"
  /\ Len(Filled) < BatchSize
  /\ Filled # <<>> => ~forceFlush /\ ~stopping
  /\ buffer' = Filled
  /\ queue' = Remaining
  /\ loop' = IF Filled # <<>> THEN "timed"
             ELSE IF stopping THEN "exited" ELSE "waiting"
  /\ UNCHANGED <<breakerVars, submitted, held, permits, inFlight, forceFlush,
                 stopping, startPc, flushPc, stopPc, owed, job, results>>

BatchDispatch ==
  /\ Mode = "batch" /\ loop = "granted"
  /\ Dispatch(held)
  /\ held' = <<>>
  /\ loop' = "ready"
  /\ UNCHANGED <<submitted, queue, buffer, permits, forceFlush, stopping,
                 startPc, flushPc, stopPc, owed>>

-----------------------------------------------------------------------------
TimePasses == CoolDown /\ UNCHANGED adapterVars

\* stop() has closed the sender and the last jobs are gone.  A failed start
\* may leave a flush or a stop waiting for a loop that never runs.
Ended ==
  /\ Range(submitted) = Events
  /\ flushPc # "idle"
  /\ stopPc = "closed" \/ (startPc = "failed" /\ stopPc # "idle")
  /\ \A k \in Events : job[k].phase = "none"

Terminated == Ended /\ UNCHANGED vars

Client ==
  \/ \E e \in Events : Submit(e)
  \/ CallStart \/ CallFlush \/ CallStop

Loop == SingleTurn \/ SingleDispatch \/ BatchTake \/ BatchWait \/ BatchDispatch

Job(k) ==
  \/ LimiterGrants(k)
  \/ SendSucceeds(k) \/ SendFails(k) \/ BackoffEnds(k)
  \/ Release(k)

Promises ==
  \/ SenderStarts \/ SenderStartFails
  \/ ResumeFlush \/ ResumeStop \/ CloseSender

Next ==
  \/ Client \/ Loop \/ Promises \/ TimePasses
  \/ \E k \in Events : Job(k)
  \/ Terminated

\* The event loop runs every scheduled continuation, timers fire, and the
\* transport settles every send (it has header and body timeouts).
Fairness ==
  /\ WF_vars(Loop)
  /\ WF_vars(Promises)
  /\ \A k \in Events : WF_vars(Job(k))

Spec == Init /\ [][Next]_vars
FairSpec == Spec /\ Fairness

-----------------------------------------------------------------------------
(* Safety *)

Waiting == Range(queue) \cup Range(buffer) \cup Range(held)
InFlight == UNION {job[k].items : k \in Events}

\* base-adapter.ts:13 promises exactly one DeliveryResult per event.  At most
\* one: no interleaving of overflow, shedding, retry and shutdown lets two
\* code paths report the same event, and nothing is reported unsubmitted.
AtMostOneResult ==
  \A e \in Events :
    /\ Len(results[e]) <= 1
    /\ results[e] # <<>> => e \in Range(submitted)

\* At least one: a submitted event without a result is always still held by
\* the queue, the batch buffer, the loop or a job that will report it
\* (base-adapter.ts:177-193, 254-385).
NothingLost == Unresolved \subseteq Waiting \cup InFlight

\* Exactly one DeliveryResult per event: never two, and always a holder left to
\* report it (base-adapter.ts:13).
EveryEventOnce == AtMostOneResult /\ NothingLost

\* The inFlight counter, which flush() and pressure() rely on, counts exactly
\* the items of the running jobs; it moves in six places, some of them in
\* finally blocks of calls that shed at once (base-adapter.ts:268, 296, 348, 383).
InFlightExact == inFlight = Cardinality(InFlight)

\* Slots are neither leaked nor minted: free permits, the slot granted to the
\* loop and the jobs that have not released theirs add up to the target's
\* concurrency, so at most that many sends run at once
\* (base-adapter.ts:49-73, 262-272, 295-300).
BusyJobs == {k \in Events : job[k].phase # "none"}
SlotsConserved ==
  permits + Cardinality(BusyJobs) + (IF loop = "granted" THEN 1 ELSE 0) = Concurrency

\* The loop is suspended for a slot only while no slot is free: a release
\* between the check and the wait cannot be missed (base-adapter.ts:57-73).
NoMissedPermit == loop = "slotWait" => permits = 0 /\ BusyJobs # {}

\* The loop is asleep only while the queue is empty: no submit can slip in
\* between its last look at the queue and its wait; and when the single loop
\* gets its slot the queue still has an event for it, although an overflow may
\* have evicted the one it saw (base-adapter.ts:258-267, 508-516).
NoMissedWork == loop \in {"waiting", "timed"} => queue = <<>>
GrantedHasWork ==
  Mode = "single" /\ loop \in {"granted", "slotWait"} => queue # <<>>
Wakeups == NoMissedWork /\ GrantedHasWork

\* The loop, its slots and the counter flush() relies on agree after every
\* interleaving: nothing leaks, and the loop sleeps only when it has to.
SlotsExact == InFlightExact /\ SlotsConserved /\ NoMissedPermit /\ Wakeups

\* The books of the adapter agree: no event is reported twice or lost, the
\* in-flight counter and the slots are exact and the loop does not sleep on
\* work (base-adapter.ts:177-385).
Accounting ==
  AtMostOneResult /\ NothingLost /\ InFlightExact /\ SlotsConserved /\ NoMissedWork

\* Accepted events that have no result yet are bounded by the queue, the
\* running sends and one batch in the loop's hands, under both drop policies.
BacklogBound ==
  IF Mode = "single" THEN HighWater + Concurrency
                     ELSE HighWater + (Concurrency + 1) * BatchSize
BacklogBounded ==
  OverflowPolicy # "block" => Cardinality(Unresolved) <= BacklogBound

\* With one worker an event is handled only after every earlier one has its
\* result, through retries, batches and evictions: a mover is never applied
\* before the joiner it follows.
InOrder ==
  Concurrency = 1 =>
    \A i, j \in DOMAIN submitted :
      i < j /\ results[submitted[j]] \notin {<<>>, <<"dropped">>}
        => results[submitted[i]] # <<>>

\* A half-open breaker has a probe outstanding whose outcome will move it on,
\* and it is closed exactly while its failures are below the threshold, even
\* though results of older sends may open, close and re-arm it meanwhile
\* (circuit-breaker.ts:65-106).
HalfOpenHasProbe ==
  circuit = "half_open" =>
    \E k \in Events : job[k].probe /\ job[k].phase \in {"throttled", "sending"}
Breaker == ClosedIffBelowThreshold /\ HalfOpenHasProbe

\* contracts/delivery-adapter.ts:50: flush() drains the queue and awaits all
\* in-flight deliveries, so every event submitted before it has its result
\* when it returns.
FlushDrains == flushPc = "done" => \A e \in owed : results[e] # <<>>

\* base-adapter.ts:224, 234: stop() closes the sender only after what was
\* queued and in flight has been delivered or given up.
StopDrains ==
  stopPc = "closed" /\ startPc # "failed" => ActiveJobs = {} /\ Waiting = {}

\* Both drains keep their word (contracts/delivery-adapter.ts:50, base-adapter.ts:224).
Drained == FlushDrains /\ StopDrains

\* Even when a batch is still being sent, nothing is left behind that no job
\* has taken when the sender is closed: the loop is joined first.
StopLeavesNothingQueued ==
  stopPc = "closed" /\ startPc # "failed" => Waiting = {}

-----------------------------------------------------------------------------
(* Liveness, under FairSpec *)

\* Every event submitted to an adapter whose sender starts gets its result.
EverySubmissionSettles ==
  \A e \in Events :
    e \in Range(submitted) /\ startPc # "idle"
      ~> results[e] # <<>> \/ startPc = "failed"

\* flush() and stop() settle, unless the sender failed to start.
FlushSettles ==
  flushPc \in {"starting", "waiting"}
    ~> flushPc \in {"done", "rejected"} \/ startPc = "failed"
StopSettles == stopPc # "idle" ~> stopPc = "closed" \/ startPc = "failed"

\* The breaker never sticks in half open.
HalfOpenEnds == circuit = "half_open" ~> circuit # "half_open"

\* Whatever the adapter starts ends: events, flush(), stop() and half open.
AllSettle == EverySubmissionSettles /\ FlushSettles /\ StopSettles /\ HalfOpenEnds
=============================================================================
