-------------------------------- MODULE MCParts --------------------------------
(* Small instances of the parts that need no run of their own, side by side:  *)
(* a behaviour is one of one part, chosen at the start, and the others stay   *)
(* at an initial state.  The parts share no state; each is checked with its   *)
(* own bounds:                                                                *)
(*   Workday    one planned injector; a client may inject another of the same *)
(*              kind; two sorts of incidents come;                            *)
(*   Sending    two slots, six targets (see MCTargets), three backlogs;       *)
(*   Stream     a pool of three and one recruit, two turns;                   *)
(*   Telemetry  two runs; or a run, a restart and two sign-ins; or a run and  *)
(*              a broken connection;                                          *)
(*   AdminAuth  two sources and one place in the table of windows;            *)
(*   Metrics    four seconds, a window of two and a reservoir of two;         *)
(*   Records    edits of the tables, a long run, or two runs with a crash.    *)
EXTENDS Workday, Sending, Stream, AdminAuth, Records, Telemetry, Metrics, TLC

CONSTANTS boss, clerk, robot, new1, f1, f2, w1, w2, u1, u2, e1, srcA, srcB

VARIABLE part

MCPlanned    == {[id |-> 0, kind |-> "payroll_batch", from |-> 1, to |-> 3]}
MCInjections == {[kind |-> "payroll_batch", delay |-> 1, length |-> 2, live |-> TRUE],
                 [kind |-> "connector_outage", delay |-> 0, length |-> 0, live |-> FALSE]}
MCLength     == [k \in Kinds |-> IF k = "insider_threat" THEN 3 ELSE 2]
MCIncidents  == {"insider_threat", "credential_stuffing"}

Event(id, op, resource, user, ent) ==
  [id |-> id, op |-> op, resource |-> resource, user |-> user, ent |-> ent, key |-> id]
Hire  == Event("hire", "create", "identity", u1, Absent)
Login == Event("login", "notify", "session", u1, Absent)
Grant == Event("grant", "grant", "entitlement", u1, e1)
Quit  == Event("leave", "deactivate", "identity", u1, Absent)
Hire2 == Event("hire2", "create", "identity", u2, Absent)

Reply(status, after, etag) == [status |-> status, retryAfter |-> after, etag |-> etag]
Good == Reply(200, Absent, FALSE)
Silence == Reply(Absent, Absent, FALSE)
Target(kind, batch, oauth, rps, burst, retries, replies) ==
  [kind |-> kind, batchSize |-> batch, oauth |-> oauth, rps |-> rps, burst |-> burst,
   maxRetries |-> retries, answers |-> replies]
\* Three calls about two users go to a target that tells ETags.
MCTold == Target("scim", 1, FALSE, 0, 0, 0, {Reply(200, Absent, TRUE), Silence})
MCTargets == {
  MCTold,
  Target("scim", 1, TRUE, 0, 0, 1, {Reply(200, Absent, TRUE), Reply(401, Absent, FALSE)}),
  Target("webhook", 1, FALSE, 1, 0, 1, {Good, Reply(429, 2, FALSE), Silence}),
  Target("rest", 2, FALSE, 0, 0, 0, {Good, Reply(302, Absent, FALSE)}),
  Target("scim", 2, FALSE, 0, 0, 1, {Good, Silence, Reply(302, Absent, FALSE)}),
  Target("nats", 1, FALSE, 2, 3, 0, {})}
MCHires == <<Hire, Hire2, Quit>>
MCBacklogs == {<<Hire, Quit>>, <<Login, Grant, Hire2>>, MCHires}

Person(human, grade, entitlements) ==
  [human |-> human, grade |-> grade, status |-> "active", held |-> entitlements]
MCStaff == (boss :> Person(TRUE, "VP", {f1})) @@ (clerk :> Person(TRUE, "Associate", {f2}))
             @@ (robot :> Person(FALSE, "Associate", {}))

Allowed(runsLeft, restarts, signIns, breaks) ==
  [runs |-> runsLeft, restarts |-> restarts, signIns |-> signIns, breaks |-> breaks]
MCAllowances == {Allowed(2, 0, 1, 0), Allowed(1, 1, 2, 0), Allowed(1, 0, 1, 1)}

Edits(t, c, b, r, n, e) ==
  [ticks |-> t, count |-> c, boots |-> b, runs |-> r, rows |-> n, edits |-> e]
MCBudgets == {Edits(0, 0, 2, 1, 2, 3), Edits(4, 2, 1, 1, 1, 0), Edits(0, 1, 2, 2, 1, 0)}

ASSUME TargetsAssumption /\ SendingAssumption /\ StreamAssumption
ASSUME TelemetryAssumption /\ AdminAuthAssumption /\ MetricsAssumption
ASSUME RecordsAssumption

-----------------------------------------------------------------------------
\* One part moves; those that start in several ways rest in one of them.
PartsInit ==
  /\ part \in {"workday", "sending", "stream", "telemetry", "admin", "metrics", "records"}
  /\ Init /\ SendInit /\ StreamInit /\ TelemetryInit /\ AdminInit
  /\ MetricsInit /\ RecordsInit
  /\ (target = MCTold) = (pending = MCHires)
  /\ part # "sending" => target.kind = "nats" /\ Len(pending) = 2
  /\ part # "telemetry" => left.runs = 2
  /\ part # "records" => budget.edits = 3

PartsNext ==
  \/ /\ part = "workday" /\ Next
     /\ UNCHANGED <<part, sendVars, generatingVars, telemetryVars, adminVars,
                    metricVars, recordVars>>
  \/ /\ part = "sending" /\ SendNext
     /\ UNCHANGED <<part, vars, generatingVars, telemetryVars, adminVars,
                    metricVars, recordVars>>
  \/ /\ part = "stream" /\ StreamNext
     /\ UNCHANGED <<part, vars, sendVars, telemetryVars, adminVars,
                    metricVars, recordVars>>
  \/ /\ part = "telemetry" /\ TelemetryNext
     /\ UNCHANGED <<part, vars, sendVars, generatingVars, adminVars,
                    metricVars, recordVars>>
  \/ /\ part = "admin" /\ AdminNext
     /\ UNCHANGED <<part, vars, sendVars, generatingVars, telemetryVars,
                    metricVars, recordVars>>
  \/ /\ part = "metrics" /\ MetricsNext
     /\ UNCHANGED <<part, vars, sendVars, generatingVars, telemetryVars, adminVars,
                    recordVars>>
  \/ /\ part = "records" /\ RecordsNext
     /\ UNCHANGED <<part, vars, sendVars, generatingVars, telemetryVars, adminVars,
                    metricVars>>

PartsSpec ==
  PartsInit /\ [][PartsNext]_<<part, vars, sendVars, generatingVars, telemetryVars,
                               adminVars, metricVars, recordVars>>

Slots == Permutations({w1, w2})
=============================================================================
