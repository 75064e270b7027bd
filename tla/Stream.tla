-------------------------------- MODULE Stream --------------------------------
(***************************************************************************)
(* The stream of events a run publishes (events/generator.ts, internal.ts, *)
(* taxonomy.ts and builders/*.ts): who acts in each kind of event and whom *)
(* it is about, the follow-ons its saga chains to it, and the key by which *)
(* a receiver tells a repeated delivery from a new step.                    *)
(*                                                                         *)
(* A primary event and its saga are generated and published in one turn of *)
(* the event loop, so they are one step.  An event is named by its place   *)
(* in the stream, and so are the correlation, request, session,            *)
(* transaction and entitlement that were minted with it.  Of a payload     *)
(* only what decides a saga is kept (its outcome); whom weights and        *)
(* divisions favour among the eligible is left out.  What an event of the  *)
(* workforce does to the pool is Workforce's: here it moves the status and *)
(* what is held.                                                           *)
(***************************************************************************)
EXTENDS Naturals, Sequences, FiniteSets, SequencesExt

CONSTANTS
  Nil,
  System,     \* a platform actor: an engine, a detector, the HR feed
  Staff,      \* the seeded pool: each identity's human, senior, status and held
  Recruits,   \* the identities hired later
  MaxFanout,  \* MAX_FANOUT
  MaxGrants,  \* bound: grants a recomputed baseline adds
  MaxSagas,   \* bound: turns of a run that generate events, but for the first of a threat
  MaxThreats, \* bound: insider threats of a run
  MaxRuns     \* bound: runs

\* Who may be in the pool, and what is held from the start.
People == DOMAIN Staff \cup Recruits
Seeded == UNION {Staff[i].held : i \in DOMAIN Staff}

\* Each sort of id has a prefix of its own (internal.ts:55): a seeded entitlement is
\* no number minted in a run, nor a person.
StreamAssumption ==
  /\ Staff \in [DOMAIN Staff -> [human : BOOLEAN, grade : {"Associate", "AVP", "VP"},
                                status : STRING, held : SUBSET Seeded]]
  /\ \A i \in DOMAIN Staff : IsFiniteSet(Staff[i].held)
  /\ Nil \notin People \cup Seeded \cup Nat
  /\ \A e \in Seeded \cup {Nil} : e \notin Seq(Nat)
  /\ {MaxFanout, MaxGrants, MaxSagas, MaxThreats, MaxRuns} \subseteq Nat

VARIABLES
  pool,    \* the identities: human, grade, status, the entitlements held
  stream,  \* all events published, oldest first
  victims, \* whom the insider threats of this run picked when they began
  runs,    \* runs started
  sagas    \* turns of this run that generated events, but for the first of a threat

generatingVars == <<pool, stream, victims, runs, sagas>>

-----------------------------------------------------------------------------
(* Kinds of events *)

\* DELIVERY_BASE: what an event asks of the identity manager; all others only
\* notify it.
OperationOf(kind) ==
  CASE kind \in {"joiner.hire", "contractor.convert"} -> "create"
    [] kind \in {"mover.transfer", "mover.promotion"} -> "update"
    [] kind \in {"password.reset", "mover.manager_change", "namecollision"} -> "patch"
    [] kind \in {"account.lockout", "leaver.termination", "leaver.resignation", "leaver.loa",
                 "contract.expiry"} -> "deactivate"
    [] kind = "rehire" -> "reactivate"
    [] kind \in {"access.provision", "firefighter.grant", "breakglass"} -> "grant"
    [] kind \in {"access.revoke", "firefighter.revoke"} -> "revoke"
    [] OTHER -> "notify"
Mutating(kind) == OperationOf(kind) # "notify"

-----------------------------------------------------------------------------
(* Whom the builders pick *)

ActiveHumans == {i \in DOMAIN pool : pool[i].human /\ pool[i].status = "active"}
Seniors == {i \in ActiveHumans : pool[i].grade = "VP"}
Managers == {i \in ActiveHumans : pool[i].grade \in {"AVP", "VP"}}
Services == {i \in DOMAIN pool : ~pool[i].human /\ pool[i].status = "active"}
In(statuses) == {i \in DOMAIN pool : pool[i].status \in statuses}
Humans(statuses) == {i \in In(statuses) : pool[i].human}
ActiveLike == {"active", "onboarding", "on_leave"}
GradeRank == [Associate |-> 1, AVP |-> 2, VP |-> 3]

-----------------------------------------------------------------------------
(* Assembling events *)

\* What a builder says of an event: who acts, whom it is about when that is
\* another, the entitlement it names and the outcome drawn.  The entitlement of
\* a request or an ad-hoc grant is minted with it and held by nobody in the pool.
Draft(kind, actor, subject, cause, ent, outcome) ==
  [kind |-> kind, actor |-> actor, subject |-> subject, cause |-> cause,
   ent |-> ent, outcome |-> outcome]
By(kind, actor, outcome) == Draft(kind, actor, Nil, 0, Nil, outcome)
About(kind, actor, subject, outcome) == Draft(kind, actor, subject, 0, Nil, outcome)
Minted == Len(stream) + 1
MintedGrant == <<Minted, 0>>

\* subject ?? actor
Affected(e) == IF e.subject = Nil THEN e.actor ELSE e.subject

\* deliveryMetaFor: a mutating event is keyed by what it does, to whom, and by
\* its entitlement or else its saga; any other by itself.
KeyFor(s, id, corr) ==
  IF Mutating(s.kind)
    THEN <<OperationOf(s.kind), Affected(s), IF s.ent # Nil THEN s.ent ELSE <<corr>>>>
    ELSE <<id>>

\* assembleEvent for a primary event and its follow-ons, each caused by the
\* primary (cause 0) or by an earlier follow-on.
AssembledFrom(n, steps) ==
  [i \in DOMAIN steps |->
     [draft |-> steps[i], run |-> runs, corr |-> n,
      cause |-> IF i = 1 THEN Nil ELSE n + steps[i].cause,
      key |-> KeyFor(steps[i], n + i - 1, n)]]
Assembled(steps) == AssembledFrom(Minted, steps)

-----------------------------------------------------------------------------
(* The primary events of each category, as sets *)

AuthPrimaries ==
  {By(kind, i, Nil) :
     kind \in {"mfa.challenge", "mfa.success", "mfa.failure", "password.reset", "session.start",
               "session.end", "sso.federation", "stepup", "login.success"}, i \in ActiveHumans}
  \cup {By("login.failure", i, outcome) : i \in ActiveHumans, outcome \in {"few", "streak"}}
  \cup {About(kind, System, i, Nil) : kind \in {"account.lockout", "impossible.travel"}, i \in ActiveHumans}

\* A manager requests for another, an engine for whoever it found.
RequestBy(actor, subject, outcome) == Draft("access.request", actor, subject, 0, MintedGrant, outcome)
AccessRequests ==
  UNION {{RequestBy(i, Nil, o) : i \in ActiveHumans}
         \cup {RequestBy(System, i, o) : i \in ActiveHumans}
         \cup UNION {{RequestBy(m, i, o) : i \in ActiveHumans \ {m}} : m \in Managers} :
         o \in {"clear", "conflict"}}

AccessPrimaries ==
  AccessRequests
  \cup {About(kind, a, i, Nil) : kind \in {"access.approve", "access.deny"}, a \in Seniors, i \in ActiveHumans}
  \cup {Draft("access.provision", System, i, 0, MintedGrant, Nil) : i \in ActiveHumans}
  \cup (UNION {{Draft("access.revoke", System, i, 0, e, Nil) :
                  e \in IF pool[i].held = {} THEN {MintedGrant} ELSE pool[i].held} : i \in ActiveHumans})
  \cup (UNION {{Draft("recertification", System, i, 0, e, decision) :
                  e \in IF pool[i].held = {} THEN {Nil} ELSE pool[i].held,
                  decision \in {"revoke", "certify"}} : i \in {j \in ActiveHumans : Seniors # {}}})
  \cup {By("firefighter.grant", i, Nil) : i \in {j \in ActiveHumans : Seniors # {}}}
  \cup {By("firefighter.revoke", i, Nil) : i \in ActiveHumans}

\* Detectors prefer a real case: a human who holds conflicting access, an
\* identity gone or dormant. Without one they fall back to any active human.
OrFallback(found) == IF found = {} THEN ActiveHumans ELSE found
DetectorPrimaries ==
  {About("sod.violation", System, i, Nil) :
     i \in ActiveHumans \cup {j \in DOMAIN pool : pool[j].human /\ pool[j].held # {}}}
  \cup {About("orphan.detected", System, i, Nil) :
          i \in CASE ActiveHumans = {} -> {}
                 [] In({"terminated", "disabled"}) = {} -> {Nil}
                 [] OTHER -> In({"terminated", "disabled"})}
  \cup {About("dormant.detected", System, i, Nil) : i \in OrFallback(In({"dormant"}))}

TxnPrimaries ==
  {By(kind, i, outcome) : kind \in {"payment.sepa", "payment.swift"}, i \in ActiveHumans,
                          outcome \in {"small", "large"}}
  \cup {By("card.txn", i, outcome) : i \in ActiveHumans, outcome \in {"genuine", "fraud"}}
  \cup {By("trade.book", i, Nil) : i \in ActiveHumans}
  \cup {By("wire.approval", i, Nil) : i \in OrFallback(Seniors)}
  \cup {About(kind, System, i, Nil) : kind \in {"limit.breach", "highvalue.alert"}, i \in ActiveHumans}

CompliancePrimaries ==
  {About("gdpr.request", System, i, outcome) : i \in ActiveHumans, outcome \in {"retrieval", "rectification"}}
  \cup {About(kind, System, i, Nil) :
          kind \in {"audit.pull", "duplicate.identity"}, i \in ActiveHumans}
  \cup {About("namecollision", System, i, Nil) : i \in DOMAIN pool}
  \cup {By("nhi.activity", i, Nil) : i \in Services}
  \cup {By("breakglass", i, Nil) : i \in Managers}

-----------------------------------------------------------------------------
(* The sagas: the follow-ons each primary may have, as a set of sequences *)

Then(kind, actor, subject, cause) == Draft(kind, actor, subject, cause, Nil, Nil)
Lockout(subject) == Then("account.lockout", System, subject, 0)

\* A session opens after the login, unless the second factor failed.
LoginSaga(p) ==
  LET challenge == Then("mfa.challenge", p.actor, Nil, 0)
      success == Then("mfa.success", p.actor, Nil, 1)
      failure == Then("mfa.failure", p.actor, Nil, 1)
      session(cause) == Then("session.start", p.actor, Nil, cause)
  IN {<<>>, <<session(0)>>, <<challenge, success>>, <<challenge, success, session(2)>>,
      <<challenge, failure>>}

AuthSaga(p) ==
  CASE p.kind = "login.success" -> LoginSaga(p)
    [] p.kind = "login.failure" ->
         {<<Lockout(p.actor)>>} \cup (IF p.outcome = "streak" THEN {} ELSE {<<>>})
    [] p.kind = "impossible.travel" -> {<<>>, <<Lockout(p.subject)>>}
    [] OTHER -> {<<>>}

Provision(subject, ent, cause) == Draft("access.provision", System, subject, cause, ent, Nil)
Revoke(subject, ent) == Draft("access.revoke", System, subject, 0, ent, Nil)

\* Mutant: a denied request is provisioned as an approved one is.
RequestSagaWhateverDecided(p) ==
  IF Seniors = {} THEN {<<>>}
  ELSE UNION {LET decide(kind) == Then(kind, a, Affected(p), 0)
                  provision == Provision(Affected(p), p.ent, 1)
              IN {<<decide("access.deny"), provision>>, <<decide("access.approve"), provision>>} :
              a \in Seniors}

\* Some senior decides; what is approved is provisioned as a rule.
RequestSaga(p) ==
  IF Seniors = {} THEN {<<>>}
  ELSE UNION {LET decide(kind) == Then(kind, a, Affected(p), 0)
              IN {<<decide("access.deny")>>, <<decide("access.approve")>>,
                  <<decide("access.approve"), Provision(Affected(p), p.ent, 1)>>} : a \in Seniors}

AccessSaga(p) ==
  CASE p.kind = "access.request" -> RequestSaga(p)
    [] p.kind = "recertification" /\ p.outcome = "revoke" /\ p.ent # Nil -> {<<Revoke(p.subject, p.ent)>>}
    [] p.kind = "firefighter.grant" -> {<<>>, <<Then("firefighter.revoke", p.actor, Nil, 0)>>}
    [] OTHER -> {<<>>}

TxnSaga(p) ==
  LET alert == Then("highvalue.alert", System, p.actor, 0)
  IN CASE p.kind = "payment.swift" /\ p.outcome = "large" ->
            {<<alert>>} \cup {<<alert, Then("wire.approval", a, Nil, 1)>> : a \in Seniors}
       [] p.kind = "payment.sepa" /\ p.outcome = "large" -> {<<>>, <<alert>>}
       [] p.kind = "card.txn" /\ p.outcome = "fraud" -> {<<alert>>}
       [] OTHER -> {<<>>}

ComplianceSaga(p) ==
  IF p.kind = "gdpr.request" /\ p.outcome = "retrieval"
    THEN {<<Then("audit.pull", System, p.subject, 0)>>}
    ELSE {<<>>}

\* Revokes first, then provisions, all caused by the event, MaxFanout at most.
JmlSaga(p, revoked, granted) ==
  LET all == [i \in DOMAIN revoked |-> Revoke(p.subject, revoked[i])]
             \o [i \in DOMAIN granted |-> Provision(p.subject, granted[i], 0)]
  IN SubSeq(all, 1, IF Len(all) < MaxFanout THEN Len(all) ELSE MaxFanout)

-----------------------------------------------------------------------------
(* Actions *)

Emit(steps) ==
  /\ sagas < MaxSagas
  /\ sagas' = sagas + 1
  /\ stream' = stream \o Assembled(steps)
  /\ UNCHANGED <<victims, runs>>

\* generate, then saga, of an arrival; with nobody eligible there is no event.
Arrival(primary, follow) == Emit(<<primary>> \o follow) /\ UNCHANGED pool

Auth       == \E p \in AuthPrimaries : \E follow \in AuthSaga(p) : Arrival(p, follow)
Access     == \E p \in AccessPrimaries \cup DetectorPrimaries :
                \E follow \in AccessSaga(p) : Arrival(p, follow)
Txn        == \E p \in TxnPrimaries : \E follow \in TxnSaga(p) : Arrival(p, follow)
Compliance == \E p \in CompliancePrimaries : \E follow \in ComplianceSaga(p) : Arrival(p, follow)

\* A chaos injector's event has no saga.
Inject ==
  /\ UNCHANGED pool
  /\ \E p \in AuthPrimaries \cup TxnPrimaries \cup CompliancePrimaries :
       /\ p.kind \in {"password.reset", "payment.sepa", "payment.swift", "wire.approval",
                      "breakglass", "nhi.activity"}
       /\ Emit(<<p>>)

\* Events turned on a victim name the victim as actor and nobody else, but keep
\* the key they were given.
OnVictim(event, v) == [event EXCEPT !.draft.actor = v, !.draft.subject = Nil]
Turn(primaries, v) ==
  /\ stream' = stream \o [i \in DOMAIN primaries |->
       OnVictim(AssembledFrom(Len(stream) + i, <<primaries[i]>>)[1], v)]
  /\ UNCHANGED <<pool, runs>>

\* An insider threat begins: a victim is picked and logs in.
Compromise ==
  /\ Len(victims) < MaxThreats
  /\ \E v \in ActiveHumans,
        login \in {p \in AuthPrimaries : p.kind = "login.success"},
        session \in {p \in AuthPrimaries : p.kind = "session.start"} :
       /\ Turn(<<login, session>>, v)
       /\ victims' = Append(victims, v)
  /\ UNCHANGED sagas

\* It goes on with that victim, who may have left since.
Exfiltrate ==
  /\ sagas < MaxSagas
  /\ \E v \in Range(victims), p \in AuthPrimaries \cup AccessRequests \cup CompliancePrimaries :
       /\ p.kind \in {"stepup", "access.request", "nhi.activity", "audit.pull"}
       /\ Turn(<<p>>, v)
  /\ sagas' = sagas + 1
  /\ UNCHANGED victims

\* Joiners, movers and leavers: the baseline a new or moved identity gets is
\* minted with the event, and a leaver's access goes.  The pool numbers what it mints
\* from the start again in every run (pool.ts:292); to tell the grants of one run
\* apart, as the properties of a run do, the place in the stream is as good.
NewGrants == {SubSeq([i \in 1..MaxGrants |-> <<Minted, i>>], 1, n) : n \in 0..MaxGrants}
Jml(kind, id, revoked, granted) ==
  LET p == About(kind, System, id, Nil)
  IN Emit(<<p>> \o JmlSaga(p, revoked, granted))
Lifecycle(kind, id, status, revoked, granted) ==
  /\ Jml(kind, id, SetToSeq(revoked), granted)
  /\ pool' = [pool EXCEPT ![id].status = status, ![id].held = (@ \ revoked) \cup Range(granted)]
Hired(human, status, granted) ==
  [human |-> human, grade |-> "Associate", status |-> status, held |-> Range(granted)]

\* The pool with a newcomer.
With(p, id, newcomer) == [i \in DOMAIN p \cup {id} |-> IF i = id THEN newcomer ELSE p[i]]

Join ==
  \E id \in Recruits \ DOMAIN pool, human \in BOOLEAN, granted \in NewGrants :
    /\ Jml("joiner.hire", id, <<>>, granted)
    /\ pool' = With(pool, id, Hired(human, "active", granted))

Move ==
  \/ \E id \in Humans(ActiveLike \cup {"suspended", "dormant"}), granted \in NewGrants :
       \E revoked \in SUBSET pool[id].held :
         Lifecycle("mover.transfer", id, pool[id].status, revoked, granted)
  \/ \E id \in Humans(ActiveLike), granted \in NewGrants, grade \in {"AVP", "VP"} :
       /\ GradeRank[grade] = GradeRank[pool[id].grade] + 1
       /\ \E revoked \in SUBSET pool[id].held :
            /\ Jml("mover.promotion", id, SetToSeq(revoked), granted)
            /\ pool' = [pool EXCEPT ![id].grade = grade, ![id].held = (@ \ revoked) \cup Range(granted)]
  \/ \E id \in Humans(ActiveLike) :
       /\ \E manager \in ActiveHumans \ {id} : GradeRank[pool[manager].grade] > GradeRank[pool[id].grade]
       /\ Lifecycle("mover.manager_change", id, pool[id].status, {}, <<>>)

Leave ==
  \/ \E id \in Humans(ActiveLike \cup {"suspended", "dormant"}), status \in {"terminated", "disabled"} :
       Lifecycle("leaver.termination", id, status, pool[id].held, <<>>)
  \/ \E id \in Humans({"active", "on_leave", "suspended"}) :
       Lifecycle("leaver.resignation", id, pool[id].status, {}, <<>>)
  \/ \E id \in ActiveHumans : Lifecycle("leaver.loa", id, "on_leave", {}, <<>>)
  \/ \E id \in In({"active", "on_leave", "suspended", "dormant"}) :
       \/ Lifecycle("contract.expiry", id, "disabled", pool[id].held, <<>>)
       \/ Lifecycle("contract.expiry", id, pool[id].status, {}, <<>>)

Return ==
  \/ \E id \in In({"terminated"}), granted \in NewGrants :
       Lifecycle("rehire", id, "active", {}, granted)
  \/ \E old \in Humans(ActiveLike), new \in Recruits \ DOMAIN pool, granted \in NewGrants :
       /\ Jml("contractor.convert", new, <<>>, granted)
       /\ pool' = With([pool EXCEPT ![old].status = "disabled", ![old].held = {}],
                       new, Hired(TRUE, "onboarding", granted))

\* A reorganization injected: leavers and manager changes, without their sagas.
InjectReorg ==
  \/ \E id \in Humans(ActiveLike \cup {"suspended", "dormant"}), status \in {"terminated", "disabled"} :
       /\ Emit(<<About("leaver.termination", System, id, Nil)>>)
       /\ pool' = [pool EXCEPT ![id].status = status, ![id].held = {}]
  \/ \E id \in Humans(ActiveLike) :
       /\ \E manager \in ActiveHumans \ {id} : GradeRank[pool[manager].grade] > GradeRank[pool[id].grade]
       /\ Emit(<<About("mover.manager_change", System, id, Nil)>>)
       /\ UNCHANGED pool

\* start(): the pool is seeded anew, the generator goes on minting.
Reseed ==
  /\ runs < MaxRuns
  /\ runs' = runs + 1
  /\ sagas' = 0
  /\ pool' = Staff
  /\ victims' = <<>>
  /\ UNCHANGED stream

StreamInit == pool = Staff /\ stream = <<>> /\ victims = <<>> /\ runs = 1 /\ sagas = 0

StreamNext ==
  \/ Auth \/ Access \/ Txn \/ Compliance \/ Inject \/ InjectReorg \/ Compromise \/ Exfiltrate
  \/ Join \/ Move \/ Leave \/ Return \/ Reseed

StreamSpec == StreamInit /\ [][StreamNext]_generatingVars

-----------------------------------------------------------------------------
(* Properties *)

Kind(i) == stream[i].draft.kind
SameSaga(i, j) == stream[i].corr = stream[j].corr

\* Every follow-on was caused by an earlier event of its own saga, and every
\* saga has one primary event (events/internal.ts:160-220, saga.test.ts).
Chained ==
  \A i \in DOMAIN stream :
    IF stream[i].cause = Nil THEN stream[i].corr = i
    ELSE stream[i].cause < i /\ SameSaga(stream[i].cause, i)

\* What is provisioned on a request was approved, for the person and the
\* entitlement requested, and not denied; no session opens after a failed
\* second factor (builders/access.ts:421-452, auth.ts:319-375).
Decided ==
  \A i, j \in DOMAIN stream : SameSaga(i, j) =>
    /\ Kind(i) = "access.request" /\ Kind(j) = "access.provision" =>
         LET a == stream[j].cause
         IN /\ Kind(a) = "access.approve" /\ Affected(stream[a].draft) = Affected(stream[i].draft)
            /\ Affected(stream[j].draft) = Affected(stream[i].draft)
            /\ stream[j].draft.ent = stream[i].draft.ent
    /\ ~(Kind(i) = "mfa.failure" /\ Kind(j) = "session.start")

\* A mutating event names the identity it is about, in itself and in its key,
\* although an injector may turn events on another (chaos.ts:164-169).
NamesIdentity ==
  \A i \in DOMAIN stream : Mutating(Kind(i)) =>
    /\ Affected(stream[i].draft) \in People
    /\ stream[i].key[2] = Affected(stream[i].draft)

\* In a run, two events that share a key ask the same of the same identity, and
\* nothing in between undid the first: a receiver that drops the second loses
\* nothing (events/taxonomy.ts:168-180).
Undoes(op) == CASE op = "grant" -> {"revoke"} [] op = "revoke" -> {"grant"}
                [] op = "deactivate" -> {"reactivate"} [] op = "reactivate" -> {"deactivate"}
                [] OTHER -> {}
RepeatsAreIdle ==
  \A i, j \in DOMAIN stream :
    i < j /\ Mutating(Kind(i)) /\ stream[i].key = stream[j].key /\ stream[i].run = stream[j].run =>
      /\ OperationOf(Kind(i)) = OperationOf(Kind(j))
      /\ Affected(stream[i].draft) = Affected(stream[j].draft)
      /\ ~\E k \in (i + 1)..(j - 1) :
            /\ OperationOf(Kind(k)) \in Undoes(OperationOf(Kind(i)))
            /\ Affected(stream[k].draft) = Affected(stream[i].draft)
            /\ stream[k].draft.ent = stream[i].draft.ent

\* What a receiver may rely on in the stream: every saga is chained to its primary
\* event, what was decided is kept, mutating events name whom they are about, and a
\* repeated key repeats nothing that was undone.
SagasSound == Chained /\ Decided /\ NamesIdentity /\ RepeatsAreIdle

\* Two genuinely different steps stay distinct (events/taxonomy.ts:168-173): what
\* a run asks of the workforce seeded for it no event of an earlier run asked.
StepsStayDistinct ==
  \A i, j \in DOMAIN stream :
    Mutating(Kind(i)) /\ stream[i].key = stream[j].key => stream[i].run = stream[j].run
=============================================================================
