---------------------------- MODULE ScenarioRuntime ---------------------------
(***************************************************************************)
(* The life of runs in src/engine/scenario-runtime.ts: start, the tick,    *)
(* pause, resume, stop and the finalization they share, for several runs   *)
(* one after the other on the one runtime of the process.                  *)
(*                                                                         *)
(* start() and doFinalize() are asynchronous: each is one action per       *)
(* stretch between two awaits.  A stretch whose promise has settled runs   *)
(* as a microtask, before the event loop turns to a client's request, a    *)
(* timer or the network (Quiet).  The delivery adapter of a run is seen through its      *)
(* contract only: start() settles some time, flush() and stop() return     *)
(* once nothing is outstanding (AdapterContract checks that for single     *)
(* mode).  Telemetry frames, rates and chaos injectors are left out.       *)
(***************************************************************************)
EXTENDS Naturals, FiniteSets

CONSTANTS
  Runs,               \* run ids, each started at most once
  Timed,              \* the runs whose scenario has a durationSec
  None,               \* no run
  MaxEvents,          \* bound: events one run may generate
  StopWhileStarting   \* clients call stop() while a start() is under way

ASSUME RuntimeAssumption ==
  /\ IsFiniteSet(Runs)
  /\ Timed \subseteq Runs
  /\ None \notin Runs
  /\ MaxEvents \in Nat
  /\ StopWhileStarting \in BOOLEAN

VARIABLES
  up,           \* the process is running
  active,       \* the active run
  finishing,    \* the run whose finalization promise is kept
  lastSummary,  \* the run whose summary stop() answers with when idle
  status,       \* runState.status
  paused,       \* run.paused
  starter,      \* progress of start()
  finisher,     \* progress of doFinalize()
  verdict,      \* its status argument
  timer,        \* run.interval is set
  wired,        \* run.unsubscribers are subscribed to the bus and the adapter
  expired,      \* elapsedSec >= durationSec
  generated,    \* counters.generated
  accounted,    \* counters.delivered + failed + dropped
  adapterStop,  \* adapter.stop() of the run: "open", "stopping" or "stopped"
  outstanding,  \* events submitted to the run's adapter and not yet reported
  row,          \* the status stored for the run
  summary       \* the summary stored for the run

processVars == <<up, active, finishing, lastSummary>>
lifeVars == <<status, paused, starter, finisher, verdict, timer, wired, expired>>
countVars == <<generated, accounted, outstanding>>
storeVars == <<row, summary>>
vars == <<processVars, lifeVars, adapterStop, countVars, storeVars>>

Verdicts == {"completed", "failed"}
Statuses == {"new", "starting", "running", "paused", "stopping"} \cup Verdicts
StarterPoints == {"idle", "awaiting", "undoing", "returned", "threw"}
FinisherPoints == {"idle", "flushing", "stopping", "done"}
Summaries == [status: Verdicts, generated: 0..MaxEvents, accounted: Nat]
NoSummary == [status |-> "none", generated |-> 0, accounted |-> 0]

TypeOK ==
  /\ up \in BOOLEAN
  /\ active \in Runs \cup {None}
  /\ finishing \in Runs \cup {None}
  /\ lastSummary \in Runs \cup {None}
  /\ status \in [Runs -> Statuses]
  /\ paused \in [Runs -> BOOLEAN]
  /\ starter \in [Runs -> StarterPoints]
  /\ finisher \in [Runs -> FinisherPoints]
  /\ verdict \in [Runs -> Verdicts]
  /\ timer \in [Runs -> BOOLEAN]
  /\ wired \in [Runs -> BOOLEAN]
  /\ expired \in [Runs -> BOOLEAN]
  /\ generated \in [Runs -> 0..MaxEvents]
  /\ accounted \in [Runs -> Nat]
  /\ adapterStop \in [Runs -> {"open", "stopping", "stopped"}]
  /\ outstanding \in [Runs -> Nat]
  /\ row \in [Runs -> {"none", "starting", "running", "paused"} \cup Verdicts]
  /\ summary \in [Runs -> Summaries \cup {NoSummary}]

Init ==
  /\ up = TRUE
  /\ active = None /\ finishing = None /\ lastSummary = None
  /\ status = [r \in Runs |-> "new"]
  /\ paused = [r \in Runs |-> FALSE]
  /\ starter = [r \in Runs |-> "idle"]
  /\ finisher = [r \in Runs |-> "idle"]
  /\ verdict = [r \in Runs |-> "completed"]
  /\ timer = [r \in Runs |-> FALSE]
  /\ wired = [r \in Runs |-> FALSE]
  /\ expired = [r \in Runs |-> FALSE]
  /\ generated = [r \in Runs |-> 0]
  /\ accounted = [r \in Runs |-> 0]
  /\ adapterStop = [r \in Runs |-> "open"]
  /\ outstanding = [r \in Runs |-> 0]
  /\ row = [r \in Runs |-> "none"]
  /\ summary = [r \in Runs |-> NoSummary]

-----------------------------------------------------------------------------
(* Helpers *)

\* persistRunState: the store takes the status, or the write throws.
Saved(r) == row' = [row EXCEPT ![r] = status'[r]]
PersistOrThrow(r) == Saved(r) \/ UNCHANGED row

\* finish(): the first caller starts doFinalize, whose first stretch ends at
\* the await of adapter.flush(); later callers get the same promise.
Finish(r, outcome) ==
  IF finishing = None
  THEN /\ finishing' = r
       /\ timer' = [timer EXCEPT ![r] = FALSE]
       /\ status' = [status EXCEPT ![r] = "stopping"]
       /\ verdict' = [verdict EXCEPT ![r] = outcome]
       /\ finisher' = [finisher EXCEPT ![r] = "flushing"]
  ELSE UNCHANGED <<finishing, timer, status, verdict, finisher>>

\* adapter.stop(): later callers get the promise of the first.
CloseAdapter(r) ==
  adapterStop' = [adapterStop EXCEPT ![r] = IF @ = "open" THEN "stopping" ELSE @]

\* bus.publish() of n events of run r: every subscribed adapter takes them.
Publish(r, n) ==
  /\ generated' = [generated EXCEPT ![r] = @ + n]
  /\ outstanding' = [q \in Runs |-> IF wired[q] THEN outstanding[q] + n
                                                ELSE outstanding[q]]
  /\ UNCHANGED accounted

-----------------------------------------------------------------------------
(* start() *)

\* start(), up to the await of adapter.start(); it is refused while a run is
\* active, and undone when the store does not take the new run.
Start(r) ==
  /\ active = None
  /\ starter[r] = "idle"
  /\ finishing' = None
  /\ status' = [status EXCEPT ![r] = "starting"]
  /\ \/ /\ active' = r
        /\ row' = [row EXCEPT ![r] = "starting"]
        /\ wired' = [wired EXCEPT ![r] = TRUE]
        /\ starter' = [starter EXCEPT ![r] = "awaiting"]
     \/ /\ starter' = [starter EXCEPT ![r] = "threw"]
        /\ UNCHANGED <<active, row, wired>>
  /\ UNCHANGED <<lastSummary, paused, finisher, verdict, timer, expired,
                 adapterStop, countVars, summary>>

\* adapter.start() resolves and generation begins.
StartReturns(r) ==
  /\ starter[r] = "awaiting"
  /\ starter' = [starter EXCEPT ![r] = "returned"]
  /\ status' = [status EXCEPT ![r] = "running"]
  /\ timer' = [timer EXCEPT ![r] = TRUE]
  /\ PersistOrThrow(r)
  /\ UNCHANGED <<active, finishing, lastSummary, paused, finisher, verdict,
                 wired, expired, adapterStop, countVars, summary>>

\* Mutant: the runtime is given free before the adapter has stopped.
StartRejectedAtOnce(r) ==
  /\ starter[r] = "awaiting"
  /\ starter' = [starter EXCEPT ![r] = "undoing"]
  /\ wired' = [wired EXCEPT ![r] = FALSE]
  /\ CloseAdapter(r)
  /\ active' = None
  /\ UNCHANGED <<finishing, lastSummary, status, paused, finisher,
                 verdict, timer, expired, countVars, storeVars>>

\* adapter.start() rejects: the wiring is undone and adapter.stop() awaited.
StartRejected(r) ==
  /\ starter[r] = "awaiting"
  /\ starter' = [starter EXCEPT ![r] = "undoing"]
  /\ wired' = [wired EXCEPT ![r] = FALSE]
  /\ CloseAdapter(r)
  /\ UNCHANGED <<active, finishing, lastSummary, status, paused, finisher,
                 verdict, timer, expired, countVars, storeVars>>

\* Mutant: the failed run stays the active one.
StartThrowsKeepingActive(r) ==
  /\ starter[r] = "undoing" /\ adapterStop[r] = "stopped"
  /\ starter' = [starter EXCEPT ![r] = "threw"]
  /\ status' = [status EXCEPT ![r] = "failed"]
  /\ PersistOrThrow(r)
  /\ UNCHANGED <<active, finishing, lastSummary, paused, finisher, verdict, timer,
                 wired, expired, adapterStop, countVars, summary>>

\* The adapter has stopped and start() rejects.
StartThrows(r) ==
  /\ starter[r] = "undoing" /\ adapterStop[r] = "stopped"
  /\ starter' = [starter EXCEPT ![r] = "threw"]
  /\ status' = [status EXCEPT ![r] = "failed"]
  /\ PersistOrThrow(r)
  /\ active' = None
  /\ UNCHANGED <<finishing, lastSummary, paused, finisher, verdict, timer,
                 wired, expired, adapterStop, countVars, summary>>

-----------------------------------------------------------------------------
(* The tick and the other calls on the active run *)

\* Mutant: the tick of a paused run returns at once.
TickSkippingPaused(r) ==
  /\ timer[r] /\ active = r /\ ~paused[r]
  /\ \E n \in 0..(MaxEvents - generated[r]) : Publish(r, n)
  /\ row' \in {row, [row EXCEPT ![r] = status[r]]}
  /\ \/ expired[r] /\ Finish(r, "completed")
     \/ ~expired[r] /\ UNCHANGED <<finishing, timer, status, verdict, finisher>>
     \/ Finish(r, "failed")
  /\ UNCHANGED <<active, lastSummary, paused, starter, wired, expired, adapterStop, summary>>

\* One tick, which does nothing for a run that is not the active one: it
\* generates unless paused, may write the state back, and finishes a run
\* whose time is up.  Anything in it may throw, which fails the run.
Tick(r) ==
  /\ timer[r] /\ active = r
  /\ \E n \in 0..(IF paused[r] THEN 0 ELSE MaxEvents - generated[r]) : Publish(r, n)
  /\ row' \in {row, [row EXCEPT ![r] = status[r]]}
  /\ \/ expired[r] /\ Finish(r, "completed")
     \/ ~expired[r] /\ UNCHANGED <<finishing, timer, status, verdict, finisher>>
     \/ Finish(r, "failed")
  /\ UNCHANGED <<active, lastSummary, paused, starter, wired, expired, adapterStop, summary>>

\* The result of one event: it is counted for a run that is still wired and
\* active.
Result(r) ==
  /\ outstanding[r] > 0 /\ starter[r] = "returned"
  /\ outstanding' = [outstanding EXCEPT ![r] = @ - 1]
  /\ accounted' = IF wired[r] /\ active = r
                  THEN [accounted EXCEPT ![r] = @ + 1] ELSE accounted
  /\ UNCHANGED <<active, finishing, lastSummary, lifeVars, adapterStop, generated, storeVars>>

Pause(r) ==
  /\ active = r /\ status[r] = "running"
  /\ paused' = [paused EXCEPT ![r] = TRUE]
  /\ status' = [status EXCEPT ![r] = "paused"]
  /\ PersistOrThrow(r)
  /\ UNCHANGED <<active, finishing, lastSummary, starter, finisher, verdict,
                 timer, wired, expired, adapterStop, countVars, summary>>

Resume(r) ==
  /\ active = r /\ status[r] = "paused"
  /\ paused' = [paused EXCEPT ![r] = FALSE]
  /\ status' = [status EXCEPT ![r] = "running"]
  /\ PersistOrThrow(r)
  /\ UNCHANGED <<active, finishing, lastSummary, starter, finisher, verdict,
                 timer, wired, expired, adapterStop, countVars, summary>>

\* Mutant: the intermediate status is written back.
StopSaving(r) ==
  /\ active = r
  /\ StopWhileStarting \/ starter[r] \notin {"awaiting", "undoing"}
  /\ Finish(r, "completed")
  /\ Saved(r)
  /\ UNCHANGED <<active, lastSummary, paused, starter, wired, expired,
                 adapterStop, countVars, summary>>

\* stop() of the active run.  Without one, or while it is being finalized,
\* stop() only hands out a promise or a summary that is there already.
Stop(r) ==
  /\ active = r
  /\ StopWhileStarting \/ starter[r] \notin {"awaiting", "undoing"}
  /\ Finish(r, "completed")
  /\ UNCHANGED <<active, lastSummary, paused, starter, wired, expired,
                 adapterStop, countVars, storeVars>>

-----------------------------------------------------------------------------
(* The rest of doFinalize() *)

\* adapter.flush() returns: the run is unwired and adapter.stop() awaited.
Flushed(r) ==
  /\ finisher[r] = "flushing" /\ outstanding[r] = 0
  /\ finisher' = [finisher EXCEPT ![r] = "stopping"]
  /\ wired' = [wired EXCEPT ![r] = FALSE]
  /\ CloseAdapter(r)
  /\ UNCHANGED <<active, finishing, lastSummary, status, paused, starter,
                 verdict, timer, expired, countVars, storeVars>>

\* buildSummary, reduced to the totals.
SummaryOf(r) == [status |-> verdict[r], generated |-> generated[r],
                 accounted |-> accounted[r]]

\* Mutant: the summary is written first.
StoreOutcomeSummaryFirst(r) ==
  \/ UNCHANGED storeVars
  \/ summary' = [summary EXCEPT ![r] = SummaryOf(r)] /\ UNCHANGED row
  \/ Saved(r) /\ summary' = [summary EXCEPT ![r] = SummaryOf(r)]

\* persistRunState and saveSummary, which one try block covers: either may
\* throw, and then the second is not reached.
StoreOutcome(r) ==
  \/ UNCHANGED storeVars
  \/ Saved(r) /\ UNCHANGED summary
  \/ Saved(r) /\ summary' = [summary EXCEPT ![r] = SummaryOf(r)]

\* adapter.stop() returns.
Finalized(r) ==
  /\ finisher[r] = "stopping" /\ adapterStop[r] = "stopped"
  /\ finisher' = [finisher EXCEPT ![r] = "done"]
  /\ status' = [status EXCEPT ![r] = verdict[r]]
  /\ StoreOutcome(r)
  /\ lastSummary' = r
  /\ active' = None
  /\ finishing' = None
  /\ UNCHANGED <<paused, starter, verdict, timer, wired, expired, adapterStop, countVars>>

-----------------------------------------------------------------------------
\* The adapter has drained and closed its sender: adapter.stop() resolves.
AdapterStops(r) ==
  /\ adapterStop[r] = "stopping" /\ outstanding[r] = 0
  /\ adapterStop' = [adapterStop EXCEPT ![r] = "stopped"]
  /\ UNCHANGED <<active, finishing, lastSummary, lifeVars, countVars, storeVars>>

\* A run of limited duration reaches it.
TimeUp(r) ==
  /\ r \in Timed /\ timer[r] /\ ~expired[r]
  /\ expired' = [expired EXCEPT ![r] = TRUE]
  /\ UNCHANGED <<active, finishing, lastSummary, status, paused, starter,
                 finisher, verdict, timer, wired, adapterStop, countVars, storeVars>>

\* The process dies, possibly between the two writes of a finalization.  The
\* store survives; a new process starts with no run and leaves old rows alone.
Crash ==
  /\ up' = FALSE
  /\ \/ UNCHANGED storeVars
     \/ \E r \in Runs :
          /\ finisher[r] = "stopping" /\ adapterStop[r] = "stopped"
          /\ row' = [row EXCEPT ![r] = verdict[r]]
          /\ UNCHANGED summary
  /\ UNCHANGED <<active, finishing, lastSummary, lifeVars, adapterStop, countVars>>

\* Every run has been started and has ended, or the process is gone.
Ended ==
  \/ ~up
  \/ /\ active = None /\ finishing = None
     /\ \A r \in Runs : starter[r] \in {"returned", "threw"} /\ outstanding[r] = 0

Terminated == Ended /\ UNCHANGED vars

\* The stretches whose awaited promise has settled run before anything else.
Continuation(r) == StartThrows(r) \/ Flushed(r) \/ Finalized(r)
Ready(r) ==
  \/ starter[r] = "undoing" /\ adapterStop[r] = "stopped"
  \/ finisher[r] = "flushing" /\ outstanding[r] = 0
  \/ finisher[r] = "stopping" /\ adapterStop[r] = "stopped"
Quiet == \A r \in Runs : ~Ready(r)

Adapter(r) == StartReturns(r) \/ StartRejected(r) \/ Result(r) \/ AdapterStops(r)
Control(r) == Start(r) \/ Pause(r) \/ Resume(r) \/ Stop(r)

Step(r) ==
  /\ up /\ UNCHANGED up
  /\ \/ Continuation(r)
     \/ Quiet /\ (Adapter(r) \/ Control(r) \/ Tick(r) \/ TimeUp(r))

Next ==
  \/ \E r \in Runs : Step(r)
  \/ up /\ Crash
  \/ Terminated

\* Continuations run, the adapter's promises settle and every outstanding
\* event gets its result (DeliveryAdapter's liveness), the interval fires and
\* time passes.  Clients owe nothing.
Fairness ==
  \A r \in Runs :
    /\ WF_vars(Step(r) /\ Continuation(r))
    /\ WF_vars(Step(r) /\ (StartReturns(r) \/ StartRejected(r)))
    /\ WF_vars(Step(r) /\ Result(r))
    /\ WF_vars(Step(r) /\ AdapterStops(r))
    /\ WF_vars(Step(r) /\ Tick(r))
    /\ WF_vars(Step(r) /\ TimeUp(r))

Spec == Init /\ [][Next]_vars
FairSpec == Spec /\ Fairness

-----------------------------------------------------------------------------
(* Safety.  The runs that check these leave out clients that stop a run    *)
(* whose start() is under way, except where a comment says otherwise.      *)

\* The runtime lets go only of a run that is over: whatever is still attached
\* to the process (a start or a finalization under way, a timer, bus and result
\* subscriptions) belongs to the active run (scenario-runtime.ts:530, 737).
Live(r) ==
  \/ starter[r] \in {"awaiting", "undoing"}
  \/ finisher[r] \in {"flushing", "stopping"}
  \/ timer[r] \/ wired[r]
LiveRunIsActive == \A r \in Runs : Live(r) => active = r

\* scenario-runtime.ts:144: the runtime manages at most one run, so at most one
\* run's adapter and counters listen to the shared bus.
OneRunSubscribed == Cardinality({r \in Runs : wired[r]}) <= 1

\* scenario-runtime.ts:481-483: generation has stopped once a run is being
\* finalized, so nothing new reaches the bus behind the flush.
FinishingHalts == \A r \in Runs : finisher[r] # "idle" => ~timer[r]

\* The finalization promise that stop() hands out is the active run's and
\* never an earlier run's (scenario-runtime.ts:535-541, 763-770).
FinishingIsActive == finishing # None => finishing = active

\* All three: nothing but the active run is attached to the process or handed
\* out, and it generates nothing while it is finalized.
OnlyActive == LiveRunIsActive /\ FinishingIsActive /\ FinishingHalts

\* scenario-runtime.ts:481-483: every event of a run whose summary is stored
\* is counted in it once, as delivered, failed or dropped.
TotalsAdd ==
  \A r \in Runs : summary[r] # NoSummary => summary[r].generated = summary[r].accounted

\* The stored status of a run with a stored summary is the summary's, through
\* failed writes and crashes (scenario-runtime.ts:516-521).
SummaryMatchesRow ==
  \A r \in Runs : summary[r] # NoSummary => row[r] = summary[r].status

\* What is stored of a finished run agrees with itself and with what was sent.
SummariesTrue == TotalsAdd /\ SummaryMatchesRow

\* A row that says completed or failed never says anything else again
\* (scenario-runtime.ts:162-173 is called from five places).
RowsStaySettled ==
  [][\A r \in Runs : row[r] \in Verdicts => row'[r] = row[r]]_vars

-----------------------------------------------------------------------------
(* Liveness, under FairSpec *)

\* A finalization ends and gives the runtime free for the next start, also
\* when the store refuses to take the result.
StoppedRunsRelease ==
  \A r \in Runs : status[r] = "stopping" ~> active # r \/ ~up

\* A run of limited duration ends by itself, also when it is paused.
TimedRunsEnd ==
  \A r \in Timed : active = r ~> active # r \/ ~up

\* No run holds the runtime for ever: neither one that was told to stop nor one
\* whose time is up.
RunsEnd == StoppedRunsRelease /\ TimedRunsEnd
=============================================================================
