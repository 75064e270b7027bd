----------------------------- MODULE IdentityPool -----------------------------
(***************************************************************************)
(* The mutable workforce (class WorkforceIdentityPool of domain/pool.ts    *)
(* and the lifecycle helpers below it).  Ids are minted in order, so the   *)
(* pool's map and its insertion order are one sequence and an id is a      *)
(* position in it.                                                         *)
(*                                                                         *)
(* A grant is its template's key and whether the baseline planner minted   *)
(* it: no identity ever holds two grants with both the same.  meta is      *)
(* entMeta, the book kept beside the identities from which a recomputation *)
(* tells the grants it manages from the ones it must leave alone.          *)
(***************************************************************************)
EXTENDS Entitlements, IndexedBag, Filters, SequencesExt

CONSTANTS
  MaxEmployees,  \* bound: how many identities the pool may come to hold
  SeedSize,      \* how many the run seeds
  Seeds,         \* what each seeded slot may be drawn as: a profile and a status
  Profiles,      \* what a joiner may be drawn as
  SeededPairs,   \* the toxic pairs the seeding may inject
  None           \* "no manager"

AllProfiles ==
  {p \in [type : Types, division : Divisions, location : Locations,
          family : AllFamilies, grade : Grades] :
     p.family \in FamiliesOf(p.type, p.division) /\ p.grade \in GradesOf(p.type)}

\* A transfer keeps the family and the grade, so an identity can come to have
\* any of these profiles.
Reachable ==
  [type : Types, division : Divisions, location : Locations, family : AllFamilies, grade : Grades]

\* The claim of domain/entitlements.ts:503-513 and 591-601 about the catalogue:
\* the baseline of a profile never breaks a rule, nor repeats a template.
ASSUME CatalogueAssumption ==
  \A p \in Reachable : /\ SodConflicts(BaselineTemplatesFor(p)) = {}
                       /\ IsInjective(BaselineTemplatesFor(p))

ASSUME PoolAssumption ==
  /\ SeedSize \in Nat \ {0} /\ MaxEmployees \in Nat /\ SeedSize <= MaxEmployees
  /\ Seeds \in [1..SeedSize -> SUBSET [profile : AllProfiles, status : Statuses]]
  /\ Profiles \subseteq AllProfiles
  /\ SeededPairs \subseteq ToxicPairs
  /\ None \notin Nat

\* The sites and divisions of the instance.
Drawn == Profiles \cup {s.profile : s \in UNION {Seeds[i] : i \in 1..SeedSize}}
Sites == {p.location : p \in Drawn}
Departments == {p.division : p \in Drawn}

VARIABLES
  emp,    \* byId and order: the identities
  bag,    \* activeHumansByLoc
  meta    \* entMeta: the grants it has an entry for, each with its holder

pool == <<emp, bag, meta>>

Ids      == DOMAIN emp
Leaver(status) == status \in {"terminated", "disabled"}
Human(e) == e.type # "Service"
Keys(held) == [i \in DOMAIN held |-> held[i].key]

ProfileOf(e) == [type |-> e.type, division |-> e.division, location |-> e.location,
                 family |-> e.family, grade |-> e.grade]

Minted(keys)  == [i \in DOMAIN keys |-> [key |-> keys[i], base |-> TRUE]]
Baseline(p)   == Minted(BaselineTemplatesFor(p))
Identity(p, status, manager, held) ==
  [type |-> p.type, division |-> p.division, location |-> p.location, family |-> p.family,
   grade |-> p.grade, status |-> status, manager |-> manager, held |-> held]

Entries(id, held) == {<<id, held[i]>> : i \in DOMAIN held}

-----------------------------------------------------------------------------
(* Seeding.                                                                *)

\* If no human slot drew MD, the first of the most senior becomes one.
Graded(slots) ==
  LET humans == {i \in DOMAIN slots : Human(slots[i].profile)}
      Rank(i) == Seniority(slots[i].profile.grade)
      top == CHOOSE i \in humans : \A j \in humans :
                Rank(i) > Rank(j) \/ (Rank(i) = Rank(j) /\ i <= j)
  IN IF humans = {} \/ \E i \in humans : slots[i].profile.grade = "MD"
       THEN slots
       ELSE [slots EXCEPT ![top].profile.grade = "MD"]

\* The grants a slot may be materialised with: a leaver keeps its baseline only
\* as an orphan, and a human who holds anything may get a toxic pair besides.
SeedGrants(profile, status) ==
  LET kept == IF Leaver(status) THEN {<<>>, Baseline(profile)} ELSE {Baseline(profile)}
      With(held, pair) ==
        LET fresh == Selected(pair, ToSet(pair) \ ToSet(Keys(held)))
        IN held \o [i \in DOMAIN fresh |-> [key |-> fresh[i], base |-> FALSE]]
  IN kept \cup (IF profile.type = "Service" THEN {}
                ELSE {With(held, pair) : held \in kept \ {<<>>}, pair \in SeededPairs})

\* Strictly more senior humans, the own division and the nearest three grades
\* first; a machine account's owner is at least a VP when there is one.
SeedManagers(slots, i) ==
  LET me   == slots[i].profile
      rank == Seniority(me.grade)
      In(lo, hi, divisions) ==
        {j \in DOMAIN slots : /\ Human(slots[j].profile)
                              /\ Seniority(slots[j].profile.grade) \in lo..hi
                              /\ slots[j].profile.division \in divisions}
      First(a, b, c) == IF a # {} THEN a ELSE IF b # {} THEN b ELSE c
  IN IF Human(me)
       THEN First(In(rank + 1, rank + 3, {me.division}), In(rank + 1, 7, {me.division}),
                  In(rank + 1, 7, Divisions))
       ELSE First(In(5, 7, {me.division}), In(5, 7, Divisions), In(rank + 1, 7, Divisions))

\* A few humans are left without a manager on purpose, and whoever has nobody
\* more senior to report to.
ManagerChoices(slots, i) ==
  LET senior == SeedManagers(slots, i) IN
    IF Human(slots[i].profile)
      THEN IF slots[i].profile.grade = "MD" THEN {None} ELSE senior \cup {None}
      ELSE IF senior = {} THEN {None} ELSE senior

ActiveAt(who, site) ==
  {i \in DOMAIN who : Human(who[i]) /\ who[i].status = "active" /\ who[i].location = site}

BagOf(ids) == [items |-> ids, at |-> [x \in ToSet(ids) |-> CHOOSE i \in DOMAIN ids : ids[i] = x]]

Seed ==
  \E slots \in {f \in [1..SeedSize -> UNION {Seeds[i] : i \in 1..SeedSize}] :
                  \A i \in 1..SeedSize : f[i] \in Seeds[i]} :
    LET planned == Graded(slots) IN
      \E held \in [1..SeedSize -> UNION {SeedGrants(planned[i].profile, planned[i].status) :
                                            i \in 1..SeedSize}],
         manager \in [1..SeedSize -> 1..SeedSize \cup {None}] :
        /\ \A i \in 1..SeedSize : /\ held[i] \in SeedGrants(planned[i].profile, planned[i].status)
                                  /\ manager[i] \in ManagerChoices(planned, i)
        /\ emp = [i \in 1..SeedSize |->
                    Identity(planned[i].profile, planned[i].status, manager[i], held[i])]
        /\ bag = [site \in Sites |-> BagOf(Selected([i \in Ids |-> i], ActiveAt(emp, site)))]
        /\ meta = UNION {Entries(i, held[i]) : i \in 1..SeedSize}

-----------------------------------------------------------------------------
(* The pool's mutations, as what they make of one identity, of the bags    *)
(* and of the book.                                                        *)

Managed(id, grant) == <<id, grant>> \in meta /\ grant.base

\* recomputeBaseline: managed grants the new profile lost go, the missing ones
\* are minted at the end, ad-hoc grants stay.
Recomputed(id, profile) ==
  LET keys == BaselineTemplatesFor(profile)
      kept == Selected(emp[id].held,
                       {g \in ToSet(emp[id].held) : Managed(id, g) => g.key \in ToSet(keys)})
      covered == {g.key : g \in {g \in ToSet(kept) : Managed(id, g)}}
  IN kept \o Minted(Selected(keys, ToSet(keys) \ covered))

\* Mutant: the entry of a grant lost in a move stays in the book.
RecomputedBookKept(id, profile) ==
  meta \cup {<<id, g>> : g \in ToSet(Recomputed(id, profile)) \ ToSet(emp[id].held)}

RecomputedBook(id, profile) ==
  LET keys == BaselineTemplatesFor(profile)
      held == emp[id].held
      gone == {g \in ToSet(held) : Managed(id, g) /\ g.key \notin ToSet(keys)}
      new  == ToSet(Recomputed(id, profile)) \ ToSet(held)
  IN (meta \ {<<id, g>> : g \in gone}) \cup {<<id, g>> : g \in new}

\* insert: a human who starts active can be sampled.
Inserted(id, e) ==
  IF Human(e) /\ e.status = "active"
    THEN [bag EXCEPT ![e.location] = BagAdd(@, id)]
    ELSE bag

\* setStatus: into the bag of the site on becoming active, out of it on ceasing.
Restatused(bags, id, status) ==
  LET was == Human(emp[id]) /\ emp[id].status = "active"
      is  == Human(emp[id]) /\ status = "active"
  IN IF was /\ ~is      THEN [bags EXCEPT ![emp[id].location] = BagRemove(@, id)]
     ELSE IF ~was /\ is THEN [bags EXCEPT ![emp[id].location] = BagAdd(@, id)]
     ELSE bags

\* transfer: an active human moves from one site's bag to the other's.
Moved(id, site) ==
  IF site # emp[id].location /\ Human(emp[id]) /\ emp[id].status = "active"
    THEN [bag EXCEPT ![emp[id].location] = BagRemove(@, id), ![site] = BagAdd(@, id)]
    ELSE bag

\* revoke, of every grant in turn: only what is held leaves the book.
Stripped(id) == meta \ Entries(id, emp[id].held)

\* wouldCycle walks up from the manager: the least set that holds the manager
\* and everyone above anyone in it.
Above(manager) ==
  {x \in Ids : \A chain \in SUBSET Ids :
     (/\ manager \in chain
      /\ \A y \in chain : emp[y].manager # None => emp[y].manager \in chain) => x \in chain}
WouldCycle(id, manager) == id \in Above(manager)

\* selectManagerForHire: any active human strictly more senior, but for those
\* who have just been disabled.
HireManagers(p, except) ==
  LET senior == {i \in Ids \ except :
                   /\ Human(emp[i]) /\ emp[i].status = "active"
                   /\ Seniority(emp[i].grade) > Seniority(p.grade)}
  IN IF (p.type # "Service" /\ p.grade = "MD") \/ senior = {} THEN {None} ELSE senior

-----------------------------------------------------------------------------
(* The lifecycle helpers.  Each is the whole of its pool calls, in order.  *)

\* hire, the identity being placed at the end of the order.
Hire(p, status, manager) ==
  /\ Len(emp) < MaxEmployees
  /\ LET id == Len(emp) + 1
         e  == Identity(p, status, manager, Baseline(p))
     IN /\ emp' = Append(emp, e)
        /\ bag' = Inserted(id, e)
        /\ meta' = meta \cup Entries(id, e.held)

Transfer(id, division, site) ==
  LET p == [ProfileOf(emp[id]) EXCEPT !.division = division, !.location = site] IN
    /\ emp' = [emp EXCEPT ![id] = Identity(p, @.status, @.manager, Recomputed(id, p))]
    /\ bag' = Moved(id, site)
    /\ meta' = RecomputedBook(id, p)

Promote(id, grade) ==
  LET p == [ProfileOf(emp[id]) EXCEPT !.grade = grade] IN
    /\ emp' = [emp EXCEPT ![id] = Identity(p, @.status, @.manager, Recomputed(id, p))]
    /\ meta' = RecomputedBook(id, p)
    /\ UNCHANGED bag

\* Mutant: only reporting to oneself is refused.
ChangeManagerUnchecked(id, manager) ==
  /\ emp' = IF manager = id THEN emp ELSE [emp EXCEPT ![id].manager = manager]
  /\ UNCHANGED <<bag, meta>>

ChangeManager(id, manager) ==
  /\ emp' = IF manager = id \/ WouldCycle(id, manager)
              THEN emp
              ELSE [emp EXCEPT ![id].manager = manager]
  /\ UNCHANGED <<bag, meta>>

SetStatus(id, status) ==
  /\ emp' = [emp EXCEPT ![id].status = status]
  /\ bag' = Restatused(bag, id, status)
  /\ UNCHANGED meta

ApplyTermination(id, immediate) ==
  LET status == IF immediate THEN "disabled" ELSE "terminated" IN
    /\ emp' = [emp EXCEPT ![id].held = <<>>, ![id].status = status]
    /\ bag' = Restatused(bag, id, status)
    /\ meta' = Stripped(id)

ApplyLoa(id) == SetStatus(id, "on_leave")

\* Active again, then a transfer to where it already is restores the baseline.
ApplyRehire(id) ==
  LET p == ProfileOf(emp[id]) IN
    /\ emp' = [emp EXCEPT ![id] = Identity(p, "active", @.manager, Recomputed(id, p))]
    /\ bag' = Restatused(bag, id, "active")
    /\ meta' = RecomputedBook(id, p)

\* The old record is stripped and disabled and a new one is hired with its
\* attributes and its manager, or one of its own when it had none; whoever
\* reports to the old record still does.
Converted(old, type) ==
  [ProfileOf(old) EXCEPT
     !.type = type,
     !.grade = IF type = "FTE" /\ @ = "Contractor" THEN "Associate" ELSE @]

ApplyConversion(id, type) ==
  /\ Len(emp) < MaxEmployees
  /\ LET old == emp[id]
         p   == Converted(old, type)
     IN \E manager \in IF old.manager = None THEN HireManagers(p, {id}) ELSE {old.manager} :
          LET new == Identity(p, "onboarding", manager, Baseline(p)) IN
            /\ emp' = Append([emp EXCEPT ![id].held = <<>>, ![id].status = "disabled"], new)
            /\ bag' = Restatused(bag, id, "disabled")
            /\ meta' = Stripped(id) \cup Entries(Len(emp) + 1, new.held)
=============================================================================
