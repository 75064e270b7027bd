-------------------------------- MODULE Workday --------------------------------
(***************************************************************************)
(* What one run generates while it runs: the tick of engine/               *)
(* scenario-runtime.ts with the chaos injectors (engine/chaos.ts), the     *)
(* threat scheduler (engine/threat-scheduler.ts), the simulated clock and  *)
(* the arrival loop.  The life of the run around it is ScenarioRuntime's.  *)
(*                                                                         *)
(* Times are integers from the start of the run; wall time passes in steps *)
(* of its own, so a tick may come late.  Gaps drawn from the arrival       *)
(* process, intensities and payloads are nondeterministic.                 *)
(***************************************************************************)
EXTENDS Integers, FiniteSets

CONSTANTS
  Planned,         \* the scenario's injectors, numbered: [id, kind, from, to]
  Injections,      \* what a client may inject: [kind, delay, length, live]
  Length,          \* default active window of each kind
  Incidents,       \* kinds with a weight in the threat profile
  Intervals,       \* simulated time between incidents
  MaxConcurrent,   \* threatProfile.maxConcurrent
  MaxLive,         \* MAX_LIVE_INJECTORS
  Burst,           \* bound: events an insider trickles
  Accel,           \* simulated per real time
  MinGap, MaxGap,  \* the period of effMaxRps, the longest gap (MAX_GAP_MS)
  MaxPerTick,      \* arrivals of one tick
  Delays,          \* how late a tick may come
  MaxWall,         \* bound: length of the run
  MaxControls,     \* bound: pauses, resumptions and injections
  None

\* Some only bias the stream; the others also fire events when they activate,
\* and the insider then goes on tick by tick.
AmbientKinds == {"credential_stuffing", "audit_season_surge", "connector_outage"}
BurstKinds   == {"mass_termination_reorg", "ransomware_lateral", "payroll_batch",
                 "mass_password_reset", "insider_threat"}
Kinds        == AmbientKinds \cup BurstKinds

Window(id, kind, from, to, organic, live) ==
  [id |-> id, kind |-> kind, from |-> from, to |-> to, organic |-> organic,
   live |-> live, fired |-> None, left |-> 0]

Injectors ==
  [id : Nat, kind : Kinds, from : Nat, to : Nat, organic : BOOLEAN, live : BOOLEAN,
   fired : Nat \cup {None}, left : 0..Burst]

ASSUME WorkdayAssumption ==
  /\ IsFiniteSet(Planned)
  /\ Planned \subseteq [id : Nat, kind : Kinds, from : Nat, to : Nat]
  /\ \A x, y \in Planned : x.id = y.id => x = y
  /\ \A x \in Planned : x.id < Cardinality(Planned)
  /\ Injections \subseteq [kind : Kinds, delay : Nat, length : Nat, live : BOOLEAN]
  /\ Length \in [Kinds -> Nat \ {0}] /\ Incidents \subseteq Kinds /\ Incidents # {} /\ Intervals \subseteq Nat
  /\ MaxConcurrent \in Nat \ {0} /\ MaxLive \in Nat \ {0} /\ Burst \in Nat
  /\ Accel \in Nat \ {0} /\ MinGap \in Nat \ {0} /\ MaxGap \in Nat /\ MinGap <= MaxGap
  /\ MaxPerTick \in Nat \ {0} /\ Delays \subseteq Nat
  /\ MaxWall \in Nat /\ MaxControls \in Nat /\ None \notin Nat
  /\ \A kinds \in SUBSET Kinds : kinds # None

VARIABLES
  wall,       \* Date.now()
  sim,        \* the simulated clock
  elapsed,    \* runState.elapsedSec: wall time of the last tick
  lastTick,   \* lastTickWall: the same, but for a resumption
  paused,
  injectors,  \* the live list; ids give its order
  spawned,    \* injectors created so far
  incident,   \* nextIncidentSimMs
  biased,     \* the kinds whose bias is in resolvedMix
  keys,       \* lastActiveKeys: a set of kinds, or None for dirty
  due,        \* nextArrivalWall
  arrivals,   \* arrivals of the continuous stream so far
  resumed,    \* resumptions so far
  controls    \* pauses, resumptions and injections so far

chaosVars  == <<injectors, spawned, incident, biased, keys>>
streamVars == <<due, arrivals>>
clockVars  == <<sim, elapsed, lastTick>>
vars == <<wall, clockVars, paused, chaosVars, streamVars, resumed, controls>>

Active(x, t)     == x.live /\ x.from <= t /\ t < x.to
ActiveAt(l, t)   == {x \in l : Active(x, t)}
ActiveKinds(l, t) == {x.kind : x \in ActiveAt(l, t)}

Init ==
  /\ wall = 0 /\ sim = 0 /\ elapsed = 0 /\ lastTick = 0 /\ paused = FALSE
  /\ injectors = {Window(p.id, p.kind, p.from, p.to, FALSE, TRUE) : p \in Planned}
  /\ spawned = Cardinality(Planned)
  /\ incident = None
  /\ biased = {} /\ keys = {}
  /\ due = 0 /\ arrivals = 0 /\ resumed = 0 /\ controls = 0

-----------------------------------------------------------------------------
(* The threat scheduler.                                                   *)

\* Past the cap of the list only the last ones and the active ones stay.
Pruned(l, t) ==
  IF Cardinality(l) <= MaxLive
    THEN l
    ELSE {x \in l : Active(x, t) \/ Cardinality({y \in l : y.id > x.id}) < MaxLive}

\* Mutant: an incident does not wait for a free slot.
MayStrikeAnyway(now, simNow) == ~paused /\ incident # None /\ simNow >= incident

\* An incident that is due while enough injectors are active is held.
MayStrike(now, simNow) ==
  /\ ~paused /\ incident # None /\ simNow >= incident
  /\ Cardinality(ActiveAt(injectors, now)) < MaxConcurrent

\* driveThreatScheduler and due(): at most one incident a call, and none on the
\* first call, which only draws when the first one comes.
Lists(now, simNow) ==
  IF MayStrike(now, simNow)
    THEN {Pruned(injectors \cup {Window(spawned, k, now, now + Length[k], TRUE, TRUE)}, now) :
            k \in Incidents}
    ELSE {injectors}

Schedule(now, simNow) ==
  IF MayStrike(now, simNow) THEN spawned' = spawned + 1 /\ \E gap \in Intervals : incident' = simNow + gap
  ELSE /\ UNCHANGED spawned
       /\ IF ~paused /\ incident = None
            THEN \E gap \in Intervals : incident' = simNow + gap
            ELSE UNCHANGED incident

-----------------------------------------------------------------------------
(* The tick.                                                               *)

Insiders(list) == {x.id : x \in {y \in list : y.kind = "insider_threat"}}

\* What a tick makes of an injector: the first one in its window activates it.
\* The insider then looks for a victim, and its trickle goes on by chance.
Ticked(x, now, found, goes) ==
  IF paused \/ ~Active(x, now) THEN x
  ELSE LET left == IF x.fired = None /\ x.kind = "insider_threat" /\ found THEN Burst ELSE x.left
       IN [x EXCEPT !.fired = IF @ = None THEN now ELSE @,
                    !.left  = IF goes /\ left > 0 THEN left - 1 ELSE left]
AllTicked(list, now, found, goes) ==
  {Ticked(x, now, x.id \in found, x.id \in goes) : x \in list}

\* Mutant: as many active kinds as before are taken for the same ones.
BiasSticky(list, now) ==
  LET active == ActiveKinds(list, now) IN
    /\ keys' = active
    /\ biased' = IF Cardinality(active) = Cardinality(biased) THEN biased ELSE active

\* The mix is resolved again when the set of active kinds has changed, or when
\* an injector was added (lastActiveKeys is dirty).
Bias(list, now) ==
  LET active == ActiveKinds(list, now) IN
    /\ keys' = active
    /\ biased' = IF active # keys \/ spawned' # spawned THEN active ELSE biased

\* Mutant: the gap has no floor.
ArriveBackToBack(now) ==
  \/ due > now /\ UNCHANGED streamVars
  \/ \E n \in 1..MaxPerTick, last \in due..now, gap \in 0..MaxGap :
       /\ n < MaxPerTick => last + gap > now
       /\ arrivals' = arrivals + n
       /\ due' = IF last + gap < now THEN now ELSE last + gap

\* generateDueEvents: n arrivals, the gaps between them from MinGap to MaxGap,
\* the last of them due at `last`.  A tick that stops at its cap while still
\* behind drops the backlog.
Arrive(now) ==
  \/ due > now /\ UNCHANGED streamVars
  \/ \E n \in 1..MaxPerTick, last \in due..now, gap \in MinGap..MaxGap :
       /\ due + (n - 1) * MinGap <= last /\ last <= due + (n - 1) * MaxGap
       /\ n < MaxPerTick => last + gap > now
       /\ arrivals' = arrivals + n
       /\ due' = IF last + gap < now THEN now ELSE last + gap

Stream(now) == IF paused THEN due' = now /\ UNCHANGED arrivals ELSE Arrive(now)

Tick ==
  LET simNow == sim + (wall - lastTick) * Accel IN
    /\ sim' = simNow /\ elapsed' = wall /\ lastTick' = wall
    /\ Schedule(wall, simNow)
    /\ \E list \in Lists(wall, simNow) :
         /\ \E found \in SUBSET Insiders(list) : \E goes \in SUBSET Insiders(list) :
              injectors' = AllTicked(list, wall, found, goes)
         /\ Bias(list, wall)
    /\ Stream(wall)
    /\ UNCHANGED <<wall, paused, resumed, controls>>

-----------------------------------------------------------------------------
(* Time, and the client's calls.                                           *)

TimePasses ==
  /\ \E d \in Delays : wall' = wall + d /\ wall' <= MaxWall
  /\ UNCHANGED <<clockVars, paused, chaosVars, streamVars, resumed, controls>>

Control == controls < MaxControls /\ controls' = controls + 1

Pause ==
  /\ Control /\ ~paused /\ paused' = TRUE
  /\ UNCHANGED <<wall, clockVars, chaosVars, streamVars, resumed>>

\* The pause since the last tick is skipped, and the stream starts at once.
Resume ==
  /\ Control /\ paused /\ paused' = FALSE
  /\ resumed' = resumed + 1
  /\ due' = wall /\ lastTick' = wall
  /\ UNCHANGED <<wall, sim, elapsed, chaosVars, arrivals>>

\* injectChaos: from the last tick's time on; the list is not pruned here.
InjectChaos ==
  /\ Control
  /\ \E c \in Injections :
       injectors' = injectors \cup
         {Window(spawned, c.kind, elapsed + c.delay,
                 elapsed + c.delay + (IF c.length > 0 THEN c.length ELSE Length[c.kind]),
                 FALSE, c.live)}
  /\ spawned' = spawned + 1
  /\ keys' = None
  /\ UNCHANGED <<wall, clockVars, paused, incident, biased, streamVars, resumed>>

Next == Tick \/ TimePasses \/ Pause \/ Resume \/ InjectChaos

Spec == Init /\ [][Next]_vars

-----------------------------------------------------------------------------
(* Properties.                                                             *)

\* Every variable keeps its type, and clocks never run ahead of wall time.
TypeOK ==
  /\ wall \in Nat /\ elapsed \in 0..wall /\ lastTick \in elapsed..wall
  /\ sim \in 0..(lastTick * Accel)
  /\ paused \in BOOLEAN
  /\ IsFiniteSet(injectors) /\ injectors \subseteq Injectors
  /\ spawned \in Nat
  /\ incident \in Nat \cup {None}
  /\ biased \subseteq Kinds /\ (keys = None \/ keys \subseteq Kinds)
  /\ due \in Nat /\ arrivals \in Nat /\ resumed \in Nat /\ controls \in 0..MaxControls

\* The profile's maxConcurrent bounds the incidents the scheduler has active at
\* once, however long one was held, whatever a client injects and the scenario
\* plans meanwhile; and a burst only ever fires inside its own window, once
\* (engine/threat-scheduler.ts:100-108, engine/chaos.ts:399-406).
ChaosBounded ==
  /\ Cardinality({x \in ActiveAt(injectors, elapsed) : x.organic}) <= MaxConcurrent
  /\ \A x \in injectors :
       /\ x.fired # None => x.live /\ x.from <= x.fired /\ x.fired < x.to
       /\ x.left > 0 => x.fired # None
  /\ \A x, y \in injectors : x.id = y.id => x = y

\* After every tick the mix carries the bias of exactly the kinds active then:
\* none stays on after its last injector ended or was pruned, none is missed
\* (engine/scenario-runtime.ts:299-329).
MixFollows ==
  [][elapsed' # elapsed => biased' = ActiveKinds(injectors', elapsed')]_vars

\* "A hard ceiling on the continuous stream" (engine/scenario-runtime.ts:349-356):
\* up to any moment at most one arrival per MinGap, one more at the start and one
\* more for each resumption, however late the ticks come.
RateCeiling == (arrivals - resumed - 1) * MinGap <= wall
=============================================================================
