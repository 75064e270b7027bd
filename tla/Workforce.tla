------------------------------- MODULE Workforce -------------------------------
(***************************************************************************)
(* The workforce under its event generator (events/builders/jml.ts,        *)
(* events/generator.ts, engine/jml.ts): each joiner, mover and leaver      *)
(* event mutates the pool and is followed by the revokes and provisions    *)
(* its saga emits, at most MaxFanout of them.  The one event that changes  *)
(* access and that a chaos injector generates, a termination, has no saga  *)
(* then.                                                                   *)
(***************************************************************************)
EXTENDS IdentityPool

CONSTANTS
  MaxFanout,  \* follow-ons of one event (MAX_FANOUT)
  MaxEvents   \* bound: events that change the pool

ASSUME WorkforceAssumption == MaxFanout \in Nat /\ MaxEvents \in Nat

VARIABLES
  told,      \* what the follow-ons have told the target of each joiner's grants
  partial,   \* the identities the target was told of only in part, or not at all
  orphans,   \* the seeded leavers that kept access (attributes.edgeCase)
  events     \* events that changed the pool so far

vars == <<emp, bag, meta, told, partial, orphans, events>>

-----------------------------------------------------------------------------
(* The lifecycle the documentation of engine/jml.ts declares.              *)

Transitions ==
  [onboarding |-> {"active", "suspended", "terminated", "disabled"},
   active     |-> {"on_leave", "suspended", "dormant", "terminated", "disabled"},
   on_leave   |-> {"active", "suspended", "terminated", "disabled"},
   suspended  |-> {"active", "on_leave", "terminated", "disabled"},
   dormant    |-> {"active", "suspended", "terminated", "disabled"},
   disabled   |-> {"active", "terminated"},
   terminated |-> {"onboarding", "active"}]
CanTransition(from, to) == from = to \/ to \in Transitions[from]

ActiveLike == {"active", "onboarding", "on_leave", "suspended", "dormant"}
EligibleFrom ==
  [transfer    |-> ActiveLike,
   termination |-> ActiveLike,
   resignation |-> {"active", "on_leave", "suspended"},
   expiry      |-> {"active", "on_leave", "suspended", "dormant"}]
IsActiveLike(status) == status \in {"active", "onboarding", "on_leave"}

NextGrade(grade) ==
  LET i == Seniority(grade) + 1 IN GradeOrder[IF i = 8 THEN 8 ELSE i + 1]

-----------------------------------------------------------------------------
(* The saga of an event.                                                   *)

Prefix(seq, n) == {seq[i] : i \in {j \in DOMAIN seq : j <= n}}
AtMost(n, m)   == IF n <= m THEN n ELSE m

\* Revokes first, then provisions, together at most MaxFanout.
Follow(revoked, granted, known) ==
  LET room == MaxFanout - AtMost(Len(revoked), MaxFanout) IN
    (known \ Prefix(revoked, MaxFanout)) \cup Prefix(granted, room)
Fits(revoked, granted) == Len(revoked) + Len(granted) <= MaxFanout

Lost(before, after) == Selected(before, ToSet(before) \ ToSet(after))

\* The saga of an event whose delta is revoked and granted, about an identity
\* that was there before it.
Tell(id, revoked, granted) ==
  /\ told' = [told EXCEPT ![id] = Follow(revoked, granted, @)]
  /\ partial' = IF Fits(revoked, granted) THEN partial ELSE partial \cup {id}

\* The saga of an event that hired a new identity, when more is untold of others.
TellNew(granted, untold) ==
  /\ told' = Append(told, Follow(<<>>, granted, {}))
  /\ partial' = partial \cup untold \cup (IF Fits(<<>>, granted) THEN {} ELSE {Len(emp) + 1})

Count == events < MaxEvents /\ events' = events + 1 /\ UNCHANGED orphans

-----------------------------------------------------------------------------
(* The JML events.  requireMatch picks any eligible identity; with none    *)
(* eligible the arrival is skipped.                                        *)

JoinerHire ==
  /\ Count
  /\ \E p \in Profiles : \E manager \in HireManagers(p, {}) :
       /\ Hire(p, "active", manager)
       /\ TellNew(Baseline(p), {})

MoverTransfer(id) ==
  /\ Count
  /\ Human(emp[id]) /\ emp[id].status \in EligibleFrom.transfer
  /\ \E division \in Departments \ {emp[id].division}, site \in Sites :
       /\ Transfer(id, division, site)
       /\ Tell(id, Lost(emp[id].held, emp'[id].held), Lost(emp'[id].held, emp[id].held))

MoverPromotion(id) ==
  /\ Count
  /\ Human(emp[id]) /\ IsActiveLike(emp[id].status)
  /\ AtLeast(emp[id].grade, "Analyst") /\ ~AtLeast(emp[id].grade, "MD")
  /\ Promote(id, NextGrade(emp[id].grade))
  /\ Tell(id, Lost(emp[id].held, emp'[id].held), Lost(emp'[id].held, emp[id].held))

MoverManagerChange(id) ==
  /\ Count
  /\ Human(emp[id]) /\ IsActiveLike(emp[id].status) /\ ~AtLeast(emp[id].grade, "MD")
  /\ \E manager \in Ids \ {id} :
       /\ Human(emp[manager]) /\ emp[manager].status = "active"
       /\ Seniority(emp[manager].grade) > Seniority(emp[id].grade)
       /\ ChangeManager(id, manager)
  /\ UNCHANGED <<told, partial>>

\* A mass termination injects this event, and then it has no saga.
LeaverTermination(id, saga) ==
  /\ Count
  /\ Human(emp[id]) /\ emp[id].status \in EligibleFrom.termination
  /\ \E immediate \in BOOLEAN : ApplyTermination(id, immediate)
  /\ IF saga THEN Tell(id, emp[id].held, <<>>)
             ELSE partial' = partial \cup {id} /\ UNCHANGED told

\* A resignation announces the last working day; the pool is not touched.
LeaverResignation(id) ==
  /\ Human(emp[id]) /\ emp[id].status \in EligibleFrom.resignation
  /\ UNCHANGED vars

\* Mutant: a joiner still onboarding may go on leave.
LeaverLoaEarly(id) ==
  /\ Count
  /\ Human(emp[id]) /\ IsActiveLike(emp[id].status)
  /\ ApplyLoa(id)
  /\ UNCHANGED <<told, partial>>

LeaverLoa(id) ==
  /\ Count
  /\ Human(emp[id]) /\ emp[id].status = "active"
  /\ ApplyLoa(id)
  /\ UNCHANGED <<told, partial>>

\* Mutant: the restored grants are looked for among those the rehire left alone.
RehireSilently(id) ==
  /\ Count
  /\ emp[id].status = "terminated"
  /\ ApplyRehire(id)
  /\ Tell(id, <<>>, <<>>)

Rehire(id) ==
  /\ Count
  /\ emp[id].status = "terminated"
  /\ ApplyRehire(id)
  /\ Tell(id, <<>>, Lost(emp'[id].held, emp[id].held))

\* Only the new record's grants are presented to the saga: of the old record's
\* the target is told nothing.
ContractorConvert(id) ==
  /\ Count
  /\ emp[id].type \in {"Contractor", "External"} /\ IsActiveLike(emp[id].status)
  /\ ApplyConversion(id, "FTE")
  /\ TellNew(Last(emp').held, {id})

\* With autoRevoke the account is terminated at once, else it is extended.
ContractExpiry(id) ==
  /\ emp[id].type \in {"Contractor", "Intern", "External", "Service"}
  /\ emp[id].status \in EligibleFrom.expiry
  /\ \/ /\ Count
        /\ ApplyTermination(id, TRUE)
        /\ Tell(id, emp[id].held, <<>>)
     \/ UNCHANGED vars

-----------------------------------------------------------------------------
Init ==
  /\ Seed
  /\ told = [i \in Ids |-> {}]
  /\ partial = Ids
  /\ orphans = {i \in Ids : Leaver(emp[i].status) /\ emp[i].held # <<>>}
  /\ events = 0

Next ==
  \/ JoinerHire
  \/ \E id \in Ids : \/ MoverTransfer(id)
                     \/ MoverPromotion(id)
                     \/ MoverManagerChange(id)
                     \/ \E saga \in BOOLEAN : LeaverTermination(id, saga)
                     \/ LeaverResignation(id)
                     \/ LeaverLoa(id)
                     \/ Rehire(id)
                     \/ ContractorConvert(id)
                     \/ ContractExpiry(id)

Spec == Init /\ [][Next]_vars

-----------------------------------------------------------------------------
(* Properties.                                                             *)

\* The sampling index of each site is a consistent bag of exactly the active
\* humans there, after any sequence of moves between sites and in and out of
\* activity: pickActive never returns an identity that left, and never misses
\* one that came back.
SamplesActive ==
  \A site \in Sites :
    /\ Consistent(bag[site])
    /\ Samples(bag[site]) = ActiveAt(emp, site)

\* The book has an entry for exactly the grants that are held.  A grant without
\* one would be taken for ad-hoc and survive every later move; an entry without
\* a grant is a leak that grows with the churn.
BookExact == meta = UNION {Entries(i, emp[i].held) : i \in Ids}

\* Access follows the profile: whoever has not left holds, as managed grants,
\* each template of the current profile's baseline once, and a conflict of
\* duties never comes from the baseline alone; whoever left holds nothing,
\* unless seeded as an orphan account.
AccessFollowsProfile ==
  \A i \in Ids :
    LET held    == emp[i].held
        managed == Selected(held, {g \in ToSet(held) : g.base})
        stripped == Leaver(emp[i].status) /\ held = <<>>
    IN /\ Leaver(emp[i].status) => stripped \/ i \in orphans
       /\ ~stripped =>
            /\ ToSet(Keys(managed)) = ToSet(BaselineTemplatesFor(ProfileOf(emp[i])))
            /\ IsInjective(held)
            /\ SodConflicts(Keys(managed)) = {}

\* Access never creeps: it follows the profile, and the book tells the managed
\* grants from the others exactly, whatever the sequence of moves.
AccessExact == BookExact /\ AccessFollowsProfile

\* No chain of managers ever closes, although promotions may lift a report
\* above the manager it reports to: no group of identities all report inside it.
Hierarchy ==
  /\ \A i \in Ids : emp[i].manager \in Ids \cup {None}
  /\ \A group \in (SUBSET Ids) \ {{}} : \E i \in group : emp[i].manager \notin group

\* The target the events are delivered to can reconstruct the access of every
\* joiner all of whose changes fitted the cap and had a saga: what it was told
\* is what the joiner holds, through transfers, promotions, leaves and rehires.
TargetFollows ==
  \A i \in Ids \ partial : told[i] = ToSet(emp[i].held)

\* Whatever the order of events, a status only moves along the documented
\* transitions.
LegalMoves ==
  [][\A i \in Ids : CanTransition(emp[i].status, emp'[i].status)]_vars
=============================================================================
