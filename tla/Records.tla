-------------------------------- MODULE Records --------------------------------
(***************************************************************************)
(* What the server keeps over restarts: the target, scenario and run       *)
(* tables (infra/target-store.ts, scenario-store.ts, run-store.ts), the    *)
(* routes that edit them (server/routes), what every boot puts into them   *)
(* (server/built-ins.ts) and what a run writes (scenario-runtime.ts).      *)
(*                                                                         *)
(* better-sqlite3 is synchronous and a write is a transaction, so each     *)
(* write is atomic; any of them may fail.  A row is never removed from a   *)
(* table, only marked, and its place is its seq.  Of the detail of targets *)
(* and scenarios only the default target and whether a client edited the   *)
(* row are kept.  The life of a run is ScenarioRuntime's: here it starts,  *)
(* counts, is checkpointed and ends.  As in that module's Runtime run, no  *)
(* client stops a run that is still starting (routes/runs.ts:67-71 lets it,*)
(* and RuntimeOrphan shows what comes of it).                              *)
(***************************************************************************)
EXTENDS Naturals, Sequences, FiniteSets, SequencesExt

CONSTANTS
  Nothing,
  MinInterval,  \* sampleMinIntervalMs, in ticks
  MaxSamples,   \* maxSamplesPerRun
  PruneEvery,   \* pruneEvery
  Budgets       \* bounds of a behaviour: [ticks, count, boots, runs, rows, edits]

RecordsAssumption ==
  /\ {MinInterval, MaxSamples} \subseteq Nat /\ PruneEvery \in Nat \ {0}
  /\ Budgets \subseteq [ticks : Nat, count : Nat, boots : Nat, runs : Nat, rows : Nat,
                 edits : Nat]

VARIABLES
  up,        \* "up", "down", or it could not start: a write of its boot failed
             \* ("refused") or the default scenario's id is taken ("failed")
  ticks,     \* Date.now()
  targets,   \* rows, oldest first: [id, builtIn, edited, deleted]
  scenarios, \* rows: [id, target, deleted]
  rows,      \* the runs: [scenario, target, status, count]
  summaries, \* run -> the summary saved, or Nothing
  samples,   \* run_samples: [run, at, status, count]
  skipped,   \* history: run -> the prunes that failed since the last that did not
  sampled,   \* sampleState: run -> [last, count], while it is kept
  current,   \* the active run's state in memory: [run, status, count], or Nothing
  boots,     \* history: boots so far
  edits,     \* edits by clients so far
  budget     \* the bounds of this behaviour

tableVars == <<targets, scenarios, rows, summaries, samples, skipped>>
recordVars == <<up, ticks, tableVars, sampled, current, boots, edits, budget>>

\* "builtin-receiver", "default-bank-day", and an id that no row has.
BuiltIn == <<"target", 0>>
DefaultScenario == <<"scenario", 0>>
Unknown == <<"unknown", 0>>
Terminal == {"completed", "failed"}

\* get: by id, deleted or not; a row's place is 0 when there is none.
Get(table, id) == SelectInSeq(table, LAMBDA r : r.id = id)
\* The rows update and remove see, and list.
LiveRow(table, id) == SelectInSeq(table, LAMBDA r : r.id = id /\ ~r.deleted)
Listed(table) == {i \in DOMAIN table : ~table[i].deleted}

-----------------------------------------------------------------------------
(* Boot *)

\* ensureBuiltInTarget: created once, and refreshed on every boot.
EnsuredTargets ==
  LET at == Get(targets, BuiltIn)
  IN IF at = 0
       THEN Append(targets, [id |-> BuiltIn, builtIn |-> TRUE, edited |-> FALSE, deleted |-> FALSE])
       ELSE IF targets[at].deleted THEN targets ELSE [targets EXCEPT ![at].edited = FALSE]

\* ensureDefaultScenario: only when no scenario is listed.  Its id may be taken
\* by a deleted row, and then the insert, and the boot, fail.
Seeds == Listed(scenarios) = {}
SeedConflicts == Seeds /\ Get(scenarios, DefaultScenario) # 0

\* The process comes up, or throws at the first write that fails and exits.
Boot ==
  /\ up # "up" /\ boots < budget.boots
  /\ boots' = boots + 1
  /\ \/ /\ targets' = EnsuredTargets
        /\ up' = IF SeedConflicts THEN "failed" ELSE "up"
        /\ scenarios' = IF Seeds /\ ~SeedConflicts
             THEN Append(scenarios, [id |-> DefaultScenario, target |-> BuiltIn, deleted |-> FALSE])
             ELSE scenarios
     \/ /\ targets' = targets \/ (Seeds /\ targets' = EnsuredTargets)
        /\ up' = "refused"
        /\ UNCHANGED scenarios
  /\ UNCHANGED <<ticks, rows, summaries, samples, skipped, sampled, current, edits>>

\* The process dies; what is in memory is gone. The active run's row stays as it was.
Crash ==
  /\ up = "up"
  /\ up' = "down"
  /\ current' = Nothing
  /\ sampled' = <<>>
  /\ UNCHANGED <<ticks, tableVars, boots, edits>>

-----------------------------------------------------------------------------
(* Clients *)

Edit(ids) == up = "up" /\ edits < budget.edits /\ edits' = edits + 1 /\ UNCHANGED ids

CreateTarget ==
  /\ Edit(<<scenarios, rows>>)
  /\ Len(targets) < budget.rows
  /\ targets' = Append(targets, [id |-> <<"target", Len(targets) + 1>>, builtIn |-> FALSE,
                                 edited |-> FALSE, deleted |-> FALSE])
  /\ UNCHANGED <<up, ticks, summaries, samples, skipped, sampled, current, boots>>

\* PUT: of a row that is not deleted; whether it is built in stays.
UpdateTarget ==
  /\ Edit(<<scenarios, rows>>)
  /\ \E at \in DOMAIN targets :
       /\ LiveRow(targets, targets[at].id) = at
       /\ targets' = [targets EXCEPT ![at].edited = TRUE]
  /\ UNCHANGED <<up, ticks, summaries, samples, skipped, sampled, current, boots>>

\* Mutant: remove() does not ask whether the target is built in.
RemovableAny(row) == ~row.deleted

\* remove: never the built-in target.
Removable(row) == ~row.deleted /\ ~row.builtIn

RemoveTarget ==
  /\ Edit(<<scenarios, rows>>)
  /\ \E at \in DOMAIN targets :
       /\ Removable(targets[at])
       /\ targets' = [targets EXCEPT ![at].deleted = TRUE]
  /\ UNCHANGED <<up, ticks, summaries, samples, skipped, sampled, current, boots>>

\* A scenario may name any target, known or not.
ScenarioTargets == {targets[i].id : i \in DOMAIN targets} \cup {Unknown}

CreateScenario ==
  /\ Edit(<<targets, rows>>)
  /\ Len(scenarios) < budget.rows
  /\ \E t \in ScenarioTargets :
       scenarios' = Append(scenarios, [id |-> <<"scenario", Len(scenarios) + 1>>, target |-> t,
                                       deleted |-> FALSE])
  /\ UNCHANGED <<up, ticks, summaries, samples, skipped, sampled, current, boots>>

UpdateScenario ==
  /\ Edit(<<targets, rows>>)
  /\ \E at \in DOMAIN scenarios, t \in ScenarioTargets :
       /\ LiveRow(scenarios, scenarios[at].id) = at
       /\ scenarios' = [scenarios EXCEPT ![at].target = t]
  /\ UNCHANGED <<up, ticks, summaries, samples, skipped, sampled, current, boots>>

RemoveScenario ==
  /\ Edit(<<targets, rows>>)
  /\ \E at \in DOMAIN scenarios :
       /\ LiveRow(scenarios, scenarios[at].id) = at
       /\ scenarios' = [scenarios EXCEPT ![at].deleted = TRUE]
  /\ UNCHANGED <<up, ticks, summaries, samples, skipped, sampled, current, boots>>

-----------------------------------------------------------------------------
(* Runs *)

\* POST /runs: scenario and target are found by id, deleted or not; without a
\* target there is no run.
StartRun ==
  /\ up = "up" /\ current = Nothing /\ Len(rows) < budget.runs
  /\ \E s \in DOMAIN scenarios :
       \E t \in {scenarios[s].target} \cup {targets[i].id : i \in DOMAIN targets} :
         /\ Get(targets, t) # 0
         /\ rows' = Append(rows, [scenario |-> scenarios[s].id, target |-> t,
                                  status |-> "starting", count |-> 0])
  /\ summaries' = Append(summaries, Nothing) /\ skipped' = Append(skipped, 0)
  /\ current' = [run |-> Len(rows) + 1, status |-> "starting", count |-> 0]
  /\ UNCHANGED <<up, ticks, targets, scenarios, samples, sampled, boots, edits>>

\* What prune keeps of a run: its newest MaxSamples samples.
Trimmed(table, run) ==
  LET mine == {i \in DOMAIN table : table[i].run = run}
      kept == {i \in DOMAIN table : table[i].run # run
                  \/ Cardinality({j \in mine : j > i}) < MaxSamples}
  IN [k \in 1..Cardinality(kept) |->
        table[CHOOSE i \in kept : Cardinality({j \in kept : j < i}) = k - 1]]

\* appendSample: throttled unless the run has ended, pruned now and then.
TooSoon(run, status) ==
  status \notin Terminal /\ run \in DOMAIN sampled /\ ticks - sampled[run].last < MinInterval
AppendSample(run, status, count) ==
  LET next == 1 + (IF run \in DOMAIN sampled THEN sampled[run].count ELSE 0)
      all == Append(samples, [run |-> run, at |-> ticks, status |-> status, count |-> count])
      due == MaxSamples > 0 /\ next % PruneEvery = 0
      others == [r \in DOMAIN sampled \ {run} |-> sampled[r]]
  IN IF TooSoon(run, status) THEN UNCHANGED <<samples, skipped, sampled>>
     ELSE /\ \/ /\ samples' = IF due THEN Trimmed(all, run) ELSE all
                /\ skipped' = IF due THEN [skipped EXCEPT ![run] = 0] ELSE skipped
             \/ /\ samples' \in {samples, all}   \* the insert or the prune failed, and is ignored
                /\ skipped' = IF due THEN [skipped EXCEPT ![run] = @ + 1] ELSE skipped
          /\ sampled' = IF status \in Terminal THEN others
                        ELSE [r \in DOMAIN others \cup {run} |->
                                IF r = run THEN [last |-> ticks, count |-> next] ELSE others[r]]

\* persistRunState: the row takes what is in memory, and a sample is appended.
Write(status) ==
  /\ rows' = [rows EXCEPT ![current.run].status = status, ![current.run].count = current.count]
  /\ AppendSample(current.run, status, current.count)

\* A result is counted, in memory only.
CountResult ==
  /\ current # Nothing /\ current.status # "starting" /\ current.count < budget.count
  /\ current' = [current EXCEPT !.count = @ + 1]
  /\ UNCHANGED <<up, ticks, tableVars, sampled, boots, edits>>

\* A tick's checkpoint, or a pause or resumption, which writes at once; the write
\* may fail and is only logged.
Checkpoint(status) ==
  /\ current # Nothing
  /\ (current.status = "starting") => (status = "running")
  /\ current' = [current EXCEPT !.status = status]
  /\ Write(status) \/ UNCHANGED <<rows, samples, skipped, sampled>>
  /\ UNCHANGED <<up, ticks, targets, scenarios, summaries, boots, edits>>

\* doFinalize: the row, then the summary; when a write fails the rest is skipped.
\* A run that is starting is not stopped here (see the top).
Finalize(status) ==
  /\ current # Nothing /\ current.status # "starting"
  /\ \/ Write(status)
        /\ \/ summaries' = [summaries EXCEPT ![current.run] = [status |-> status, count |-> current.count]]
           \/ UNCHANGED summaries
     \/ UNCHANGED <<rows, samples, skipped, sampled, summaries>>
  /\ current' = Nothing
  /\ UNCHANGED <<up, ticks, targets, scenarios, boots, edits>>

\* start() when the adapter does not start: the row fails, without a summary.
FailStart ==
  /\ current # Nothing /\ current.status = "starting"
  /\ Write("failed") \/ UNCHANGED <<rows, samples, skipped, sampled>>
  /\ current' = Nothing
  /\ UNCHANGED <<up, ticks, targets, scenarios, summaries, boots, edits>>

\* A graceful shutdown ends the run before the tables are closed.
Shutdown ==
  /\ up = "up" /\ current = Nothing
  /\ up' = "down"
  /\ sampled' = <<>>
  /\ UNCHANGED <<ticks, tableVars, current, boots, edits>>

Later ==
  /\ ticks < budget.ticks
  /\ ticks' = ticks + 1
  /\ UNCHANGED <<up, tableVars, sampled, current, boots, edits>>

RecordsInit ==
  /\ up = "down" /\ ticks = 0
  /\ targets = <<>> /\ scenarios = <<>> /\ rows = <<>> /\ summaries = <<>> /\ samples = <<>>
  /\ skipped = <<>> /\ sampled = <<>> /\ current = Nothing /\ boots = 0 /\ edits = 0
  /\ budget \in Budgets

RecordsStep ==
  \/ Boot \/ Crash \/ Shutdown \/ Later
  \/ CreateTarget \/ UpdateTarget \/ RemoveTarget
  \/ CreateScenario \/ UpdateScenario \/ RemoveScenario
  \/ StartRun \/ CountResult \/ FailStart
  \/ \E status \in {"running", "paused", "stopping"} : Checkpoint(status)
  \/ \E status \in Terminal : Finalize(status)

RecordsNext == RecordsStep /\ UNCHANGED budget

RecordsSpec == RecordsInit /\ [][RecordsNext]_recordVars

-----------------------------------------------------------------------------
(* Properties *)

\* A server that is up has its built-in target, which no client can remove, and
\* nothing in the tables names a row that is not there: every run's scenario and
\* target can still be looked up (target-store.ts:131-141, scenario-store.ts:86-90).
Resolvable ==
  /\ up = "up" => \E i \in DOMAIN targets :
       /\ targets[i].builtIn /\ ~targets[i].deleted
       /\ \A j \in DOMAIN targets : targets[j].id = BuiltIn <=> j = i
  /\ \A i \in DOMAIN rows : Get(scenarios, rows[i].scenario) # 0 /\ Get(targets, rows[i].target) # 0

\* A boot whose writes are not refused fails only when the default scenario was
\* deleted and no other is left (built-ins.ts:173-188).
BootsUnlessEmptied ==
  up = "failed" =>
    /\ Listed(scenarios) = {}
    /\ \E i \in DOMAIN scenarios : scenarios[i].id = DefaultScenario /\ scenarios[i].deleted

\* A run's samples are in order of time and never count backwards; two are at
\* least MinInterval apart in one life of the server unless the later one is the
\* last; nothing follows the last (run-store.ts:86-126).
SamplesInOrder ==
  \A i, j \in DOMAIN samples : i < j /\ samples[i].run = samples[j].run =>
    /\ samples[i].at <= samples[j].at /\ samples[i].count <= samples[j].count
    /\ samples[i].status \notin Terminal
    /\ samples[j].status \in Terminal \/ samples[j].at - samples[i].at >= MinInterval

\* What is kept of a run is bounded: each prune that fails, or is lost with its
\* insert, lets one more stretch of PruneEvery through (run-store.ts:112-117).
SamplesBounded ==
  MaxSamples > 0 =>
    \A r \in DOMAIN rows :
      Cardinality({i \in DOMAIN samples : samples[i].run = r}) < MaxSamples + PruneEvery * (skipped[r] + 1)

\* A summary agrees with the settled row it was written after, and with the
\* terminal sample (scenario-runtime.ts:515-521).
SummariesAgree ==
  \A r \in DOMAIN rows :
    /\ summaries[r] # Nothing =>
         rows[r].status = summaries[r].status /\ rows[r].count = summaries[r].count
    /\ \A i \in DOMAIN samples : samples[i].run = r /\ samples[i].status \in Terminal =>
         rows[r].status = samples[i].status /\ rows[r].count = samples[i].count

RecordsTrue ==
  Resolvable /\ BootsUnlessEmptied /\ SamplesInOrder /\ SamplesBounded /\ SummariesAgree
=============================================================================
