---------------------------- MODULE ReceiverEngine ----------------------------
(***************************************************************************)
(* The reference identity manager of src/receiver: admission and routes    *)
(* (plugin.ts), the NATS consumer and the pump (index.ts), plans derived   *)
(* from events and HR rows (ingest.ts) and the engine that applies them    *)
(* (engine.ts) to the SCIM store, the connector lanes, the approval queue  *)
(* and the segregation-of-duties (SoD) record.                             *)
(*                                                                         *)
(* A request is a sequence of messages: a REST batch, the rows of an HR    *)
(* feed, the operations of a SCIM Bulk, or a single one.  It is admitted   *)
(* when its headers arrive and handled when its body has been parsed; in   *)
(* between anything may happen.  The handler and the pump run to their end *)
(* without yielding: current and settling hold where they are, and nothing *)
(* else runs until they are done.  Clients repeat requests: any copy may   *)
(* arrive at any time.                                                     *)
(***************************************************************************)
EXTENDS ScimStore, ConnectorPool, SequencesExt, FiniteSetsExt

CONSTANTS
  None,
  Keys,           \* idempotency keys
  Capacity,       \* seenKeyCapacity
  HighWater,      \* backpressureHighWater
  PrimaryLane,    \* IDENTITY_PRIMARY_CONNECTOR
  MailboxLane,    \* IDENTITY_MAILBOX_CONNECTOR
  DefaultLane,    \* DEFAULT_CONNECTOR
  SystemLane,     \* the connector of each entitlement's system
  Toxic,          \* SoD rules: sets of entitlements nobody may hold together
  Requests,       \* the requests clients may send, sequences of messages
  Streamed,       \* those that are published on NATS instead of posted
  MaxCopies,      \* bound: deliveries of one request
  MaxDeliveries,  \* bound: deliveries in all
  MaxOpen,        \* bound: requests admitted and not handled yet
  MaxResets       \* bound: calls of reset()

Operations == {"create", "update", "patch", "deactivate", "reactivate", "delete",
               "grant", "revoke", "notify"}
UserCalls == {"POST", "PUT", "PATCH", "DELETE"}
GroupCalls == {"group"} \cup GroupChanges

\* SCIM calls name the account, or the group and whom it gains or loses.
Message ==
  {m \in [via: {"scim", "event", "hr"}, op: Operations \cup UserCalls \cup GroupCalls,
          key: Keys \cup {None}, user: Users \cup {None}, ent: Entitlements \cup {None},
          gated: BOOLEAN, switch: Switches, wellFormed: BOOLEAN] :
     /\ m.via = "scim" <=> m.op \in UserCalls \cup GroupCalls
     /\ m.op \in UserCalls \cup {"add", "remove", "replace"} => m.user # None
     /\ m.op \in GroupCalls => m.ent # None}

Task(u, op, e) == [user |-> u, op |-> op, ent |-> e]
TaskSet == [user: Users, op: Operations, ent: Entitlements \cup {None}]

\* The connectors are those of a table (constants.ts:28-36) and the mark is
\* 10 000 unless a test sets another (constants.ts:103).  Only entitlement
\* requests and firefighter grants need approval (events/taxonomy.ts:119-125).
ASSUME ReceiverAssumption ==
  /\ IsFiniteSet(Users) /\ Users # {}
  /\ None \notin Keys \cup Users \cup Entitlements
  /\ Tasks = TaskSet
  /\ IsFiniteSet(Lanes) /\ IsFiniteSet(Requests) /\ Requests # {}
  /\ Capacity \in Nat /\ HighWater \in Nat \ {0}
  /\ {PrimaryLane, MailboxLane, DefaultLane} \subseteq Lanes
  /\ SystemLane \in [Entitlements -> Lanes]
  /\ IsFiniteSet(Toxic) /\ Toxic \subseteq SUBSET Entitlements /\ {} \notin Toxic
  /\ Requests \subseteq Seq(Message) /\ <<>> \notin Requests
  /\ \A q \in Requests : \A m \in Range(q) :
       m.gated => m.via = "event" /\ m.op \in {"grant", "notify"}
  /\ Streamed \subseteq Requests
  /\ {MaxCopies, MaxDeliveries, MaxOpen, MaxResets} \subseteq Nat

VARIABLES
  copies,      \* history: how often each request was delivered
  open,        \* how many copies of each request are admitted, not handled
  current,     \* the messages of the request being handled, still to apply
  settling,    \* approvals due in the pump under way, still to decide
  pumping,     \* the pump has not drained the lanes yet
  seen,        \* BoundedKeySet, oldest first
  applied,     \* history: the keys it accepted since the last reset
  log,         \* history: the messages counted by countIngest; totalIngested is its length
  held,        \* held: the entitlements of each user
  known,       \* those of them whose duties could be classified
  conflicts,   \* seenConflicts
  violations,  \* sodViolations
  approvals,   \* pending approvals, oldest first
  approved,    \* history: those approved; approvalsApproved is the length
  denied,      \* history: those denied; approvalsDenied is the length
  resets       \* history: calls of reset()

clientVars == <<copies, open, resets>>
loopVars == <<current, settling, pumping>>
dedupVars == <<seen, applied, log>>
sodVars == <<held, known, conflicts, violations>>
approvalVars == <<approvals, approved, denied>>
vars == <<storeVars, poolVars, clientVars, loopVars, dedupVars, sodVars, approvalVars>>

Approvals == [task: Tasks, lanes: SUBSET Lanes]

TypeOK ==
  /\ StoreTypeOK
  /\ PoolTypeOK
  /\ copies \in [Requests -> Nat]
  /\ open \in [Requests -> Nat]
  /\ current \in Seq(Message)
  /\ settling \in 0..Len(approvals)
  /\ pumping \in BOOLEAN
  /\ seen \in Seq(Keys) /\ Len(seen) <= Capacity
  /\ applied \in Seq(Keys)
  /\ log \in Seq(Message)
  /\ held \in [Users -> SUBSET Entitlements]
  /\ known \in [Users -> SUBSET Entitlements]
  /\ conflicts \in SUBSET (Users \X Toxic)
  /\ violations \in Nat
  /\ approvals \in Seq(Approvals)
  /\ approved \in Seq(Approvals)
  /\ denied \in Seq(Approvals)
  /\ resets \in Nat

HoldNothing == [u \in Users |-> {}]

Init ==
  /\ StoreEmpty
  /\ PoolEmpty
  /\ copies = [q \in Requests |-> 0]
  /\ open = [q \in Requests |-> 0]
  /\ current = <<>> /\ settling = 0 /\ pumping = FALSE
  /\ seen = <<>> /\ applied = <<>> /\ log = <<>>
  /\ held = HoldNothing /\ known = HoldNothing
  /\ conflicts = {} /\ violations = 0
  /\ approvals = <<>> /\ approved = <<>> /\ denied = <<>>
  /\ resets = 0

-----------------------------------------------------------------------------
(* Deduplication *)

\* Mutant: a key that is seen again is moved to the young end.
RememberRefreshing(m) ==
  /\ log' = Append(log, m)
  /\ IF m.key = None
       THEN UNCHANGED <<seen, applied>>
       ELSE /\ applied' = Append(applied, m.key)
            /\ seen' = IF Len(seen) < Capacity THEN Append(seen, m.key)
                                               ELSE <<m.key>>

\* BoundedKeySet.add answers true; an empty key is never remembered.
Fresh(m) == m.key = None \/ m.key \notin Range(seen)

\* BoundedKeySet.add of a fresh key evicts the oldest past the capacity;
\* countIngest follows in every caller.
Remember(m) ==
  /\ log' = Append(log, m)
  /\ IF m.key = None
       THEN UNCHANGED <<seen, applied>>
       ELSE /\ applied' = Append(applied, m.key)
            /\ seen' = IF Len(seen) < Capacity THEN Append(seen, m.key)
                                               ELSE Tail(Append(seen, m.key))

-----------------------------------------------------------------------------
(* Provisioning *)

IdentityLanes == {PrimaryLane, MailboxLane}

\* submitProvision and enqueue, for tasks with the same route.
Provision(tasks, lanes, gated) ==
  IF gated
    THEN /\ approvals' = approvals \o [i \in DOMAIN tasks |-> [task |-> tasks[i], lanes |-> lanes]]
         /\ UNCHANGED <<poolVars, approved, denied>>
    ELSE Submit(tasks, lanes) /\ UNCHANGED approvalVars

ProvisionNothing == UNCHANGED <<poolVars, approvalVars>>

\* Nothing but the store may change: the key is known, or an exception ended
\* the handler before it looked at the key.
NothingCounted == UNCHANGED <<dedupVars, sodVars, poolVars, approvalVars>>

-----------------------------------------------------------------------------
(* Segregation of duties *)

Violated(u, entitlements) == {<<u, rule>> : rule \in {t \in Toxic : t \subseteq entitlements}}

\* Mutant: conflicts are looked for before the grant is recorded.
RecordLookingFirst(add, drop, e, classified) ==
  LET grown == [u \in Users |->
                  IF u \notin add THEN known[u]
                  ELSE IF classified THEN known[u] \cup {e} ELSE known[u] \ {e}]
      found == UNION {Violated(u, known[u]) : u \in add}
  IN /\ held' = [u \in Users |-> (held[u] \cup (IF u \in add THEN {e} ELSE {}))
                                  \ (IF u \in drop THEN {e} ELSE {})]
     /\ known' = [u \in Users |-> IF u \in drop THEN grown[u] \ {e} ELSE grown[u]]
     /\ conflicts' = conflicts \cup found
     /\ violations' = violations + Cardinality(found \ conflicts)

\* recordGrant with evaluateSod for every user in add, then recordRevoke for
\* every user in drop.  A grant whose duties the name does not tell replaces
\* one that was classified.
Record(add, drop, e, classified) ==
  LET grown == [u \in Users |->
                  IF u \notin add THEN known[u]
                  ELSE IF classified THEN known[u] \cup {e} ELSE known[u] \ {e}]
      found == UNION {Violated(u, grown[u]) : u \in add}
  IN /\ held' = [u \in Users |-> (held[u] \cup (IF u \in add THEN {e} ELSE {}))
                                  \ (IF u \in drop THEN {e} ELSE {})]
     /\ known' = [u \in Users |-> IF u \in drop THEN grown[u] \ {e} ELSE grown[u]]
     /\ conflicts' = conflicts \cup found
     /\ violations' = violations + Cardinality(found \ conflicts)

-----------------------------------------------------------------------------
(* SCIM calls.  The store changes first, whatever the key. *)

\* The tail of the four user calls: count it and provision it once.
AccountProvisioned(m, op) ==
  IF Fresh(m)
    THEN /\ Remember(m)
         /\ Provision(<<Task(m.user, op, None)>>, IdentityLanes, FALSE)
         /\ UNCHANGED sodVars
    ELSE NothingCounted

\* scimCreateUser and scimReplaceUser, which creates an account it does not
\* know.  A body that is refused changes nothing.
ScimPut(m) ==
  /\ m.op \in {"POST", "PUT"}
  /\ UNCHANGED <<groups, members>>
  /\ IF m.wellFormed
       THEN /\ SetAccount(m.user,
                 IF m.op = "PUT" /\ accounts[m.user] \in Live
                   THEN Switched(accounts[m.user], m.switch)
                   ELSE Upserted(accounts[m.user], m.switch))
            /\ AccountProvisioned(m, IF m.op = "PUT" THEN "update" ELSE "create")
       ELSE UNCHANGED accounts /\ NothingCounted

\* scimPatchUser: an account it does not know is created first.  When an
\* operation of the PATCH is refused, those before it have been applied.
ScimPatchUser(m) ==
  LET before == Upserted(accounts[m.user], "on")
      after == Switched(before, m.switch)
  IN /\ m.op = "PATCH"
     /\ UNCHANGED <<groups, members>>
     /\ SetAccount(m.user, after)
     /\ IF m.wellFormed
          THEN AccountProvisioned(m, CASE after = before -> "patch"
                                       [] after # before /\ after = "active" -> "reactivate"
                                       [] after # before /\ after = "inactive" -> "deactivate")
          ELSE NothingCounted

ScimDeleteUser(m) ==
  /\ m.op = "DELETE"
  /\ UNCHANGED <<groups, members>>
  /\ SetAccount(m.user, Removed(accounts[m.user]))
  /\ AccountProvisioned(m, "delete")

\* scimCreateGroup: the members it comes with are neither recorded nor
\* provisioned.
ScimCreateGroup(m) ==
  /\ m.op = "group"
  /\ UNCHANGED accounts
  /\ CreateGroup(m.ent, {m.user} \cap Users)
  /\ IF Fresh(m) THEN Remember(m) /\ UNCHANGED sodVars /\ ProvisionNothing
                 ELSE NothingCounted

\* Mutant: a group whose system is not known is provisioned without a record.
ScimPatchGroupNamedOnly(m) ==
  LET add == Added(m.ent, m.op, m.user)
      drop == Dropped(m.ent, m.op, m.user)
      grants == IF add = {} THEN <<>> ELSE <<Task(m.user, "grant", m.ent)>>
      lanes == {IF groups[m.ent] = "named" THEN SystemLane[m.ent] ELSE DefaultLane}
  IN /\ m.op \in GroupChanges
     /\ UNCHANGED accounts
     /\ PatchGroup(m.ent, m.op, m.user)
     /\ IF m.wellFormed /\ Fresh(m)
          THEN /\ Remember(m)
               /\ IF groups[m.ent] = "named" THEN Record(add, drop, m.ent, TRUE)
                                             ELSE UNCHANGED sodVars
               /\ \E order \in SetToSeqs(drop) :
                    Provision(grants \o [i \in DOMAIN order |->
                                           Task(order[i], "revoke", m.ent)], lanes, FALSE)
          ELSE NothingCounted

\* scimPatchGroup: the additions are recorded and provisioned before the
\* removals.  The system and the duties of an unnamed group are not known.
ScimPatchGroup(m) ==
  LET add == Added(m.ent, m.op, m.user)
      drop == Dropped(m.ent, m.op, m.user)
      grants == IF add = {} THEN <<>> ELSE <<Task(m.user, "grant", m.ent)>>
      lanes == {IF groups[m.ent] = "named" THEN SystemLane[m.ent] ELSE DefaultLane}
  IN /\ m.op \in GroupChanges
     /\ UNCHANGED accounts
     /\ PatchGroup(m.ent, m.op, m.user)
     /\ IF m.wellFormed /\ Fresh(m)
          THEN /\ Remember(m)
               /\ Record(add, drop, m.ent, groups[m.ent] = "named")
               /\ \E order \in SetToSeqs(drop) :
                    Provision(grants \o [i \in DOMAIN order |->
                                           Task(order[i], "revoke", m.ent)], lanes, FALSE)
          ELSE NothingCounted

ScimCall(m) ==
  /\ m.via = "scim"
  /\ \/ ScimPut(m)
     \/ ScimPatchUser(m)
     \/ ScimDeleteUser(m)
     \/ ScimCreateGroup(m)
     \/ ScimPatchGroup(m)


-----------------------------------------------------------------------------
(* Events and HR rows.  A key that is known ends the handler at once. *)

\* create, update and reactivate: ensureUser makes an account of one that is
\* not live and leaves a live one as it is, whatever its active flag.
Joined(m) ==
  /\ m.op \in {"create", "update", "reactivate"}
  /\ SetAccount(m.user, Upserted(accounts[m.user], "on"))
  /\ Provision(<<Task(m.user, m.op, None)>>, IdentityLanes, m.gated)
  /\ UNCHANGED sodVars

Touched(m) ==
  /\ m.op = "patch"
  /\ Provision(<<Task(m.user, "patch", None)>>, IdentityLanes, m.gated)
  /\ UNCHANGED <<accounts, sodVars>>

\* deactivate and delete; an account that is not there is ignored.
Left(m) ==
  /\ m.op \in {"deactivate", "delete"}
  /\ SetAccount(m.user, IF m.op = "delete" THEN Removed(accounts[m.user])
                        ELSE IF accounts[m.user] \in Live THEN "inactive"
                        ELSE accounts[m.user])
  /\ Provision(<<Task(m.user, m.op, None)>>, IdentityLanes, FALSE)
  /\ UNCHANGED sodVars

\* The grant is held from now on, though it may yet be denied.
Granted(m) ==
  /\ m.op = "grant" /\ m.ent # None
  /\ SetAccount(m.user, Upserted(accounts[m.user], "on"))
  /\ Record({m.user}, {}, m.ent, TRUE)
  /\ Provision(<<Task(m.user, "grant", m.ent)>>, {SystemLane[m.ent]}, m.gated)

\* Mutant: a revoke waits for approval as its grant does.
RevokedGated(m) ==
  /\ m.op = "revoke" /\ m.ent # None
  /\ Record({}, {m.user}, m.ent, TRUE)
  /\ Provision(<<Task(m.user, "revoke", m.ent)>>, {SystemLane[m.ent]}, TRUE)
  /\ UNCHANGED accounts

Revoked(m) ==
  /\ m.op = "revoke" /\ m.ent # None
  /\ Record({}, {m.user}, m.ent, TRUE)
  /\ Provision(<<Task(m.user, "revoke", m.ent)>>, {SystemLane[m.ent]}, FALSE)
  /\ UNCHANGED accounts

\* notify, and whatever names nobody or, for a grant or a revoke, nothing.
Noted(m) ==
  /\ \/ m.op = "notify"
     \/ m.user = None
     \/ m.op \in {"grant", "revoke"} /\ m.ent = None
  /\ ProvisionNothing
  /\ UNCHANGED <<accounts, sodVars>>

\* applyEventPlan and ingestHrRow.
Ingest(m) ==
  /\ m.via \in {"event", "hr"}
  /\ UNCHANGED <<groups, members>>
  /\ IF Fresh(m)
       THEN /\ Remember(m)
            /\ \/ m.user # None /\ (Joined(m) \/ Touched(m) \/ Left(m)
                                     \/ Granted(m) \/ Revoked(m))
               \/ Noted(m)
       ELSE UNCHANGED accounts /\ NothingCounted

-----------------------------------------------------------------------------
(* Steps *)

\* backpressureDepth.
Depth == SumFunction([l \in Lanes |-> Len(queue[l]) + inflight[l]]) + Len(approvals)

\* No handler and no pump is under way.
Idle == current = <<>> /\ ~pumping

Delivered(q) ==
  /\ copies[q] < MaxCopies
  /\ SumFunction(copies) < MaxDeliveries
  /\ copies' = [copies EXCEPT ![q] = @ + 1]

EngineUnchanged == UNCHANGED <<storeVars, poolVars, dedupVars, sodVars, approvalVars>>

\* Mutant: a request is let in at the mark as well as below it.
AdmitAtTheMark(q) ==
  /\ Idle
  /\ q \notin Streamed /\ SumFunction(open) < MaxOpen
  /\ Depth <= HighWater
  /\ Delivered(q)
  /\ open' = [open EXCEPT ![q] = @ + 1]
  /\ UNCHANGED <<loopVars, resets>> /\ EngineUnchanged

\* onRequest: below the high-water mark the request is let in.  The rate
\* limiter's refusal is the request not arriving.
Admit(q) ==
  /\ Idle
  /\ q \notin Streamed /\ SumFunction(open) < MaxOpen
  /\ Depth < HighWater
  /\ Delivered(q)
  /\ open' = [open EXCEPT ![q] = @ + 1]
  /\ UNCHANGED <<loopVars, resets>> /\ EngineUnchanged

\* The body has been parsed.
Begin(q) ==
  /\ Idle
  /\ open[q] > 0
  /\ open' = [open EXCEPT ![q] = @ - 1]
  /\ current' = q
  /\ UNCHANGED <<copies, resets, settling, pumping>> /\ EngineUnchanged

\* The client hangs up, the body cannot be parsed or its sender is refused.
Abandon(q) ==
  /\ Idle
  /\ open[q] > 0
  /\ open' = [open EXCEPT ![q] = @ - 1]
  /\ UNCHANGED <<copies, resets, loopVars>> /\ EngineUnchanged

\* A message on NATS is not asked for admission.
Consume(q) ==
  /\ Idle
  /\ q \in Streamed
  /\ Delivered(q)
  /\ current' = q
  /\ UNCHANGED <<open, resets, settling, pumping>> /\ EngineUnchanged

Handle ==
  /\ current # <<>>
  /\ current' = Tail(current)
  /\ ScimCall(Head(current)) \/ Ingest(Head(current))
  /\ UNCHANGED <<clientVars, settling, pumping>>

\* pump, when n approvals are due.  All wait equally long, so the oldest are.
PumpDue(n) ==
  /\ Idle
  /\ settling' = n /\ pumping' = TRUE
  /\ UNCHANGED <<current, clientVars>> /\ EngineUnchanged

\* processApprovals, for one item.
Decide(yes) ==
  LET item == Head(approvals) IN
  /\ settling > 0
  /\ settling' = settling - 1
  /\ approvals' = Tail(approvals)
  /\ IF yes THEN /\ Submit(<<item.task>>, item.lanes)
                 /\ approved' = Append(approved, item) /\ UNCHANGED denied
            ELSE /\ denied' = Append(denied, item) /\ UNCHANGED <<poolVars, approved>>
  /\ UNCHANGED <<storeVars, dedupVars, sodVars, clientVars, current, pumping>>

\* pool.pump, after the approvals that were due, if any.
Drain(kept) ==
  /\ current = <<>> /\ settling = 0
  /\ PumpLanes(kept)
  /\ pumping' = FALSE
  /\ UNCHANGED <<storeVars, dedupVars, sodVars, approvalVars, clientVars, current, settling>>

\* Mutant: the entitlements outlive the reset.
ResetKeepingHeld ==
  /\ Idle
  /\ resets < MaxResets
  /\ resets' = resets + 1
  /\ StoreReset
  /\ PoolReset
  /\ seen' = <<>> /\ applied' = <<>> /\ log' = <<>>
  /\ conflicts' = {} /\ violations' = 0
  /\ approvals' = <<>> /\ approved' = <<>> /\ denied' = <<>>
  /\ UNCHANGED <<copies, open, loopVars, held, known>>

\* reset, from POST /receiver/reset.  Requests on their way are not touched.
Reset ==
  /\ Idle
  /\ resets < MaxResets
  /\ resets' = resets + 1
  /\ StoreReset
  /\ PoolReset
  /\ seen' = <<>> /\ applied' = <<>> /\ log' = <<>>
  /\ held' = HoldNothing /\ known' = HoldNothing
  /\ conflicts' = {} /\ violations' = 0
  /\ approvals' = <<>> /\ approved' = <<>> /\ denied' = <<>>
  /\ UNCHANGED <<copies, open, loopVars>>

Client == \E q \in Requests : Admit(q) \/ Begin(q) \/ Abandon(q) \/ Consume(q)

Pump ==
  \/ \E n \in 1..Len(approvals) : PumpDue(n)
  \/ \E yes \in BOOLEAN : Decide(yes)
  \/ \E kept \in Remainders : Drain(kept)

Next == Client \/ Handle \/ Pump \/ Reset

Spec == Init /\ [][Next]_vars

\* Handlers run to their end; the timer keeps pumping, approvals fall due and
\* latencies are finite: where tasks are in flight, some pump finds one done.
Settle == (\E n \in 1..Len(approvals) : PumpDue(n)) \/ \E yes \in BOOLEAN : Decide(yes)
Complete ==
  \E kept \in Remainders :
    /\ \A l \in Lanes : inflight[l] > 0 => kept[l] < inflight[l]
    /\ Drain(kept)

Fairness == WF_vars(Handle) /\ WF_vars(Settle) /\ WF_vars(Complete)

FairSpec == Spec /\ Fairness

-----------------------------------------------------------------------------
(* Properties *)

\* The lanes a message asks for; one that needs approval, once it is given.
Route(m) ==
  CASE m.op \in {"grant", "revoke"} /\ None \notin {m.user, m.ent} -> {SystemLane[m.ent]}
    [] m.op \in UserCalls \cup (Operations \ {"grant", "revoke", "notify"}) /\ m.user # None
         -> IdentityLanes
    [] OTHER -> {}
Gated(m) == m.gated /\ Route(m) # {}
About(m, u, e) == m.user = u /\ m.ent = e /\ m.op \in {"grant", "revoke"}
Regrouped(e) == \E m \in Range(log) : m.op \in GroupChanges /\ m.ent = e

\* A key is accepted again only after Capacity other keys have pushed it out:
\* a repeat that comes sooner has no effect (engine.ts:109-123).
DedupWindow ==
  \A j \in DOMAIN applied : \A i \in 1..(j - 1) :
    applied[i] = applied[j] => Cardinality({applied[k] : k \in (i + 1)..(j - 1)}) >= Capacity

\* Of an entitlement that no group call touched, a user holds what the last
\* event counted about it granted, through repeats, approvals and resets
\* (engine.ts:520-537).
HeldFollowsEvents ==
  \A u \in Users, e \in Entitlements :
    ~Regrouped(e) =>
      LET last == SelectLastInSeq(log, LAMBDA m : About(m, u, e))
      IN e \in held[u] <=> last > 0 /\ log[last].op = "grant"

\* Every toxic combination somebody holds has been reported, and each was
\* counted once (engine.ts:606-633).
SodComplete ==
  /\ \A u \in Users : Violated(u, known[u]) \subseteq conflicts
  /\ violations = Cardinality(conflicts)

\* Every counted request that needs approval is pending, approved or denied,
\* once, and nothing else reaches a lane but what needed none or was approved
\* (engine.ts:635-688).
GateExact ==
  /\ Cardinality({i \in DOMAIN log : Gated(log[i])})
       = Len(approvals) + Len(approved) + Len(denied)
  /\ (\A e \in Entitlements : ~Regrouped(e)) =>
       \A l \in Lanes :
         Len(submitted[l]) =
           Cardinality({i \in DOMAIN log : ~Gated(log[i]) /\ l \in Route(log[i])})
             + Cardinality({i \in DOMAIN approved : l \in approved[i].lanes})

\* The last task a connector was given about an entitlement that is never
\* gated and no group call touched is a grant exactly when it is held: tasks
\* of one user and entitlement do not overtake each other (engine.ts:523-535).
DownstreamFollowsHeld ==
  \A u \in Users, e \in Entitlements :
    (~Regrouped(e) /\ \A m \in Range(log) : About(m, u, e) => ~m.gated) =>
      LET lane == submitted[SystemLane[e]]
          last == SelectLastInSeq(lane, LAMBDA t : t.user = u /\ t.ent = e)
      IN e \in held[u] <=> last > 0 /\ lane[last].op = "grant"

\* What the connectors were given is what was recorded and passed the gate,
\* each task once and the last word last, and what they were given is queued,
\* in flight or completed.
ProvisionedExactly == GateExact /\ LanesExact /\ DownstreamFollowsHeld

\* Admission keeps the work below the high-water mark but for what the requests
\* let in before it was reached, and the messages on NATS, still bring
\* (engine.ts:220-235, plugin.ts:177-184).
Work(m) == IF m.op \in GroupChanges THEN Cardinality(Users) + 1 ELSE Cardinality(Route(m))
Burden(messages) == SumFunction([i \in DOMAIN messages |-> Work(messages[i])])
DepthBounded ==
  Depth + Burden(current) <=
    HighWater - 1 + MaxOpen * Max({Burden(q) : q \in Requests})
      + SumFunction([q \in Streamed |-> copies[q] * Burden(q)])

\* What the engine says of a PATCH, that each addition is recorded, for every
\* group: a member holds the group's entitlement (engine.ts:341-355).
MembersAreHeld ==
  \A u \in Users, e \in Entitlements : u \in members[e] => e \in held[u]

\* The same for the groups that only complete PATCHes changed, each sent once,
\* and none of which replaced the members.
Plain(m) ==
  /\ m.wellFormed
  /\ \/ m.op \in GroupChanges \ {"replace"}
     \/ m.op = "group" /\ m.user = None
PatchedMembersAreHeld ==
  \A u \in Users, e \in Entitlements :
    /\ \A q \in Requests :
         (copies[q] > 0 /\ \E m \in Range(q) : m.ent = e)
           => copies[q] = 1 /\ \A m \in Range(q) : m.ent = e => Plain(m)
    /\ u \in members[e]
    => e \in held[u]

\* When the clients pause, the pump gets rid of all work: shedding ends
\* (engine.ts:405-407).
Drains == []<>(Depth = 0)
=============================================================================
