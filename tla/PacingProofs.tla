------------------------------ MODULE PacingProofs ------------------------------
(***************************************************************************)
(* The pace of a run.  The workday's promises for any scenario, any        *)
(* injections and any lateness of the ticks: the ceiling on the continuous *)
(* stream, the bound on concurrent incidents, and the mix that follows the *)
(* active kinds.  Then the pace of an adapter for any target, any number   *)
(* of slots and any answers, and why the token endpoint is asked.          *)
(***************************************************************************)
EXTENDS Workday, Sending, SeqLemmas

-----------------------------------------------------------------------------
(* The workday: the inductive invariant *)

\* While the stream runs, the next arrival is due late enough for all so far.
RateInv ==
  /\ RateCeiling
  /\ ~paused => (arrivals - resumed) * MinGap <= due

\* The kinds last compared are those in the mix, unless they are dirty.
MixInv == keys = None \/ keys = biased

\* A burst fired inside its window, and only a fired one trickles on.
Sound(x) ==
  /\ x.fired # None => x.live /\ x.from <= x.fired /\ x.fired < x.to
  /\ x.left > 0 => x.fired # None

Distinct(l) == \A x, y \in l : x.id = y.id => x = y
Organic(l, t) == {x \in ActiveAt(l, t) : x.organic}

\* An incident starts with the tick that lists it, so those active at a later
\* time were active then.
ListOK(l, n, t) ==
  /\ IsFiniteSet(l) /\ l \subseteq Injectors
  /\ \A x \in l : Sound(x) /\ x.id < n /\ (x.organic => x.from <= t)
  /\ Distinct(l)
  /\ Cardinality(Organic(l, t)) <= MaxConcurrent

IInv == TypeOK /\ RateInv /\ MixInv /\ ListOK(injectors, spawned, elapsed)

-----------------------------------------------------------------------------
(* Finite sets *)

LEMMA ImageBound ==
  ASSUME NEW S, IsFiniteSet(S), NEW T, NEW f \in [S -> T], \A y \in T : \E x \in S : f[x] = y
  PROVE  IsFiniteSet(T) /\ Cardinality(T) <= Cardinality(S)
<1>1. f \in Surjection(S, T)
  BY DEF Surjection
<1> QED BY <1>1, FS_Surjection

LEMMA OrganicFinite ==
  ASSUME NEW l, IsFiniteSet(l), NEW t
  PROVE  IsFiniteSet(Organic(l, t)) /\ Organic(l, t) \subseteq l /\ Cardinality(Organic(l, t)) \in Nat
<1>1. Organic(l, t) \in SUBSET l
  BY DEF Organic, ActiveAt
<1>2. IsFiniteSet(Organic(l, t))
  BY <1>1, FS_Subset
<1> QED BY <1>1, <1>2, FS_CardinalityType

\* A part of a list is as good as the list, also later on.
LEMMA PartOK ==
  ASSUME NEW l, NEW n \in Nat, NEW t \in Nat, ListOK(l, n, t),
         NEW m \in SUBSET l, NEW u \in Nat, t <= u
  PROVE  ListOK(m, n, u)
<1> USE WorkdayAssumption
<1>1. IsFiniteSet(m) /\ m \subseteq Injectors
  BY FS_Subset DEF ListOK
<1>2. ASSUME NEW x \in m PROVE Sound(x) /\ x.id < n /\ (x.organic => x.from <= u)
  <2>1. Sound(x) /\ x.id < n /\ (x.organic => x.from <= t) /\ x \in Injectors
    BY DEF ListOK
  <2>2. x.from \in Nat
    BY <2>1 DEF Injectors
  <2> QED BY <2>1, <2>2
<1>3. Distinct(m)
  BY DEF ListOK, Distinct
<1>4. Cardinality(Organic(m, u)) <= MaxConcurrent
  <2>1. Organic(m, u) \subseteq Organic(l, t)
    <3> SUFFICES ASSUME NEW x \in Organic(m, u) PROVE x \in Organic(l, t)
      OBVIOUS
    <3>1. x \in l /\ x.organic /\ x.live /\ x.from <= u /\ u < x.to
      BY DEF Organic, ActiveAt, Active
    <3>2. x \in Injectors /\ x.from <= t
      BY <3>1 DEF ListOK
    <3>3. x.to \in Nat
      BY <3>2 DEF Injectors
    <3>4. t < x.to
      BY <3>1, <3>3
    <3> QED BY <3>1, <3>2, <3>4 DEF Organic, ActiveAt, Active
  <2>2. IsFiniteSet(Organic(l, t)) /\ Cardinality(Organic(l, t)) \in Nat
    BY OrganicFinite DEF ListOK
  <2>3. IsFiniteSet(Organic(m, u)) /\ Cardinality(Organic(m, u)) \in Nat
    BY <1>1, OrganicFinite
  <2>4. Cardinality(Organic(m, u)) <= Cardinality(Organic(l, t))
    BY <2>1, <2>2, FS_Subset
  <2> QED BY <2>2, <2>3, <2>4 DEF ListOK
<1> QED BY <1>1, <1>2, <1>3, <1>4 DEF ListOK

LEMMA WindowFields ==
  ASSUME NEW n \in Nat, NEW k \in Kinds, NEW a \in Nat, NEW b \in Nat,
         NEW organic \in BOOLEAN, NEW live \in BOOLEAN
  PROVE  LET x == Window(n, k, a, b, organic, live)
         IN /\ x \in Injectors /\ Sound(x)
            /\ x.id = n /\ x.from = a /\ x.organic = organic
  BY WorkdayAssumption DEF Window, Injectors, Sound

\* One more injector, an incident only when there is room for it.
LEMMA OneMoreOK ==
  ASSUME NEW l, NEW n \in Nat, NEW t \in Nat, ListOK(l, n, t),
         NEW k \in Kinds, NEW a \in Nat, NEW b \in Nat, NEW organic \in BOOLEAN, NEW live \in BOOLEAN,
         organic => a <= t /\ Cardinality(Organic(l, t)) < MaxConcurrent
  PROVE  ListOK(l \cup {Window(n, k, a, b, organic, live)}, n + 1, t)
<1> DEFINE new == Window(n, k, a, b, organic, live)
           more == l \cup {new}
<1>1. new \in Injectors /\ Sound(new) /\ new.id = n /\ new.from = a /\ new.organic = organic
  BY WindowFields
<1> HIDE DEF new
<1>2. IsFiniteSet(more) /\ more \subseteq Injectors
  BY <1>1, FS_AddElement DEF ListOK
<1>3. ASSUME NEW x \in l PROVE x.id \in Nat /\ x.id < n
  BY DEF ListOK, Injectors
<1>4. ASSUME NEW x \in more PROVE Sound(x) /\ x.id < n + 1 /\ (x.organic => x.from <= t)
  <2>1. CASE x = new
    BY <1>1, <2>1
  <2>2. CASE x \in l
    <3>1. Sound(x) /\ (x.organic => x.from <= t)
      BY <2>2 DEF ListOK
    <3> QED BY <3>1, <2>2, <1>3
  <2> QED BY <2>1, <2>2
<1>5. Distinct(more)
  BY <1>1, <1>3 DEF ListOK, Distinct
<1>6. Cardinality(Organic(more, t)) <= MaxConcurrent
  <2>1. IsFiniteSet(Organic(l, t)) /\ Cardinality(Organic(l, t)) \in Nat
    BY OrganicFinite DEF ListOK
  <2>2. CASE organic
    <3>1. /\ IsFiniteSet(Organic(l, t) \cup {new})
          /\ Cardinality(Organic(l, t) \cup {new}) <= Cardinality(Organic(l, t)) + 1
      <4> DEFINE before == Organic(l, t)
      <4>1. IsFiniteSet(before) /\ Cardinality(before) \in Nat
        BY <2>1
      <4> HIDE DEF before
      <4>2. /\ IsFiniteSet(before \cup {new})
            /\ Cardinality(before \cup {new})
                 = IF new \in before THEN Cardinality(before) ELSE Cardinality(before) + 1
        BY <4>1, FS_AddElement
      <4>3. IsFiniteSet(before \cup {new}) /\ Cardinality(before \cup {new}) <= Cardinality(before) + 1
        BY <4>1, <4>2
      <4> QED BY <4>3 DEF before
    <3>2. Organic(more, t) \in SUBSET (Organic(l, t) \cup {new})
      BY DEF Organic, ActiveAt
    <3>3. Cardinality(Organic(more, t)) <= Cardinality(Organic(l, t) \cup {new})
      BY <3>1, <3>2, FS_Subset
    <3>4. Cardinality(Organic(l, t) \cup {new}) \in Nat /\ Cardinality(Organic(more, t)) \in Nat
      BY <3>1, <1>2, OrganicFinite, FS_CardinalityType
    <3> QED BY <3>1, <3>3, <3>4, <2>1, <2>2, WorkdayAssumption
  <2>3. CASE ~organic
    <3>1. Organic(more, t) = Organic(l, t)
      BY <1>1, <2>3 DEF Organic, ActiveAt
    <3> QED BY <3>1 DEF ListOK
  <2> QED BY <2>2, <2>3
<1> QED BY <1>2, <1>4, <1>5, <1>6 DEF ListOK, new

-----------------------------------------------------------------------------
(* What a tick makes of an injector, and of the list *)

\* An injector of the same window.
SameWindow(y, x) ==
  /\ y.id = x.id /\ y.kind = x.kind /\ y.from = x.from /\ y.to = x.to
  /\ y.organic = x.organic /\ y.live = x.live

\* The two fields a tick may set.
Moved(x, f, n) == [x EXCEPT !.fired = f, !.left = n]

LEMMA MovedFields ==
  ASSUME NEW x \in Injectors, NEW f \in Nat \cup {None}, NEW n \in 0..Burst
  PROVE  /\ Moved(x, f, n) \in Injectors /\ SameWindow(Moved(x, f, n), x)
         /\ Moved(x, f, n).fired = f /\ Moved(x, f, n).left = n
<1> DEFINE z == [x EXCEPT !.fired = f]
<1>1. z \in Injectors /\ z.fired = f /\ SameWindow(z, x)
  BY DEF Injectors, SameWindow
<1> HIDE DEF z
<1> DEFINE y == [z EXCEPT !.left = n]
<1>2. y \in Injectors /\ y.left = n /\ y.fired = z.fired /\ SameWindow(y, z)
  BY <1>1 DEF Injectors, SameWindow
<1>3. Moved(x, f, n) = y
  BY DEF Moved, z
<1> HIDE DEF y
<1> QED BY <1>1, <1>2, <1>3 DEF SameWindow

\* A tick keeps an injector's window and whatever made it sound.
LEMMA TickedFields ==
  ASSUME NEW x \in Injectors, Sound(x), NEW t \in Nat, NEW found \in BOOLEAN, NEW goes \in BOOLEAN
  PROVE  /\ Ticked(x, t, found, goes) \in Injectors /\ Sound(Ticked(x, t, found, goes))
         /\ SameWindow(Ticked(x, t, found, goes), x)
<1>1. CASE paused \/ ~Active(x, t)
  BY <1>1 DEF Ticked, SameWindow
<1>2. CASE ~paused /\ Active(x, t)
  <2> DEFINE left == IF x.fired = None /\ x.kind = "insider_threat" /\ found THEN Burst ELSE x.left
             f == IF x.fired = None THEN t ELSE x.fired
             n == IF goes /\ left > 0 THEN left - 1 ELSE left
  <2>1. x.left \in 0..Burst /\ x.fired \in Nat \cup {None} /\ Burst \in Nat
    BY WorkdayAssumption DEF Injectors
  <2>2. f \in Nat \cup {None} /\ f # None /\ n \in 0..Burst
    BY <2>1, WorkdayAssumption
  <2>3. Ticked(x, t, found, goes) = Moved(x, f, n)
    BY <1>2 DEF Ticked, Moved
  <2>4. x.live /\ x.from <= f /\ f < x.to
    BY <1>2 DEF Active, Sound
  <2> HIDE DEF f, n
  <2>5. /\ Moved(x, f, n) \in Injectors /\ SameWindow(Moved(x, f, n), x)
        /\ Moved(x, f, n).fired = f /\ Moved(x, f, n).left = n
    BY <2>2, MovedFields
  <2>6. Sound(Moved(x, f, n))
    BY <2>2, <2>4, <2>5 DEF Sound, SameWindow
  <2> QED BY <2>3, <2>5, <2>6
<1> QED BY <1>1, <1>2

\* The list a tick goes on with, before the injectors act.
LEMMA ListsOK ==
  ASSUME IInv, NEW simNow \in Nat, Schedule(wall, simNow), NEW list \in Lists(wall, simNow)
  PROVE  ListOK(list, spawned', wall) /\ spawned' \in Nat
<1>1. ListOK(injectors, spawned, elapsed) /\ spawned \in Nat /\ wall \in Nat /\ elapsed \in Nat
      /\ elapsed <= wall
  BY DEF IInv, TypeOK
<1>2. ListOK(injectors, spawned, wall)
  BY <1>1, PartOK
<1>3. CASE MayStrike(wall, simNow)
  <2>1. spawned' = spawned + 1
    BY <1>3 DEF Schedule
  <2>2. PICK k \in Incidents :
          list = Pruned(injectors \cup {Window(spawned, k, wall, wall + Length[k], TRUE, TRUE)}, wall)
    BY <1>3 DEF Lists
  <2> DEFINE more == injectors \cup {Window(spawned, k, wall, wall + Length[k], TRUE, TRUE)}
  <2>3. k \in Kinds /\ wall + Length[k] \in Nat
    BY <1>1, WorkdayAssumption
  <2>4. Cardinality(Organic(injectors, wall)) < MaxConcurrent
    <3>1. IsFiniteSet(ActiveAt(injectors, wall))
      <4>1. ActiveAt(injectors, wall) \in SUBSET injectors
        BY DEF ActiveAt
      <4> QED BY <4>1, <1>1, FS_Subset DEF ListOK
    <3>2. Organic(injectors, wall) \in SUBSET ActiveAt(injectors, wall)
      BY DEF Organic
    <3>3. Cardinality(Organic(injectors, wall)) <= Cardinality(ActiveAt(injectors, wall))
      BY <3>1, <3>2, FS_Subset
    <3>4. Cardinality(Organic(injectors, wall)) \in Nat /\ Cardinality(ActiveAt(injectors, wall)) \in Nat
      BY <3>1, <1>1, OrganicFinite, FS_CardinalityType DEF ListOK
    <3> QED BY <1>3, <3>3, <3>4, WorkdayAssumption DEF MayStrike
  <2>5. ListOK(more, spawned + 1, wall)
    <3> DEFINE yes == TRUE
               until == wall + Length[k]
    <3>1. yes \in BOOLEAN /\ (yes => wall <= wall /\ Cardinality(Organic(injectors, wall)) < MaxConcurrent)
      BY <1>1, <2>4
    <3>2. until \in Nat
      BY <2>3
    <3> HIDE DEF yes, until
    <3>3. ListOK(injectors \cup {Window(spawned, k, wall, until, yes, yes)}, spawned + 1, wall)
      BY <1>1, <1>2, <2>3, <3>1, <3>2, OneMoreOK
    <3> QED BY <3>3 DEF yes, until
  <2>6. list \in SUBSET more
    BY <2>2 DEF Pruned
  <2> HIDE DEF more
  <2> QED BY <1>1, <2>1, <2>5, <2>6, PartOK
<1>4. CASE ~MayStrike(wall, simNow)
  BY <1>1, <1>2, <1>4 DEF Lists, Schedule
<1> QED BY <1>3, <1>4

\* The injectors after their turn are as good, and as active, as before.
LEMMA TickedList ==
  ASSUME NEW l, NEW n \in Nat, NEW t \in Nat, ListOK(l, n, t), NEW found, NEW goes
  PROVE  /\ ListOK(AllTicked(l, t, found, goes), n, t)
         /\ ActiveKinds(AllTicked(l, t, found, goes), t) = ActiveKinds(l, t)
<1> DEFINE after == AllTicked(l, t, found, goes)
<1> DEFINE f == [x \in l |-> Ticked(x, t, x.id \in found, x.id \in goes)]
<1>1. ASSUME NEW x \in l
      PROVE  /\ f[x] \in Injectors /\ Sound(f[x]) /\ f[x] \in after
             /\ SameWindow(f[x], x)
  <2> DEFINE a == x.id \in found
             b == x.id \in goes
  <2>1. x \in Injectors /\ Sound(x) /\ a \in BOOLEAN /\ b \in BOOLEAN
    BY DEF ListOK
  <2>2. f[x] = Ticked(x, t, a, b) /\ Ticked(x, t, a, b) \in after
    BY DEF AllTicked
  <2> HIDE DEF f, a, b
  <2>3. /\ Ticked(x, t, a, b) \in Injectors /\ Sound(Ticked(x, t, a, b))
        /\ SameWindow(Ticked(x, t, a, b), x)
    BY <2>1, TickedFields
  <2> QED BY <2>2, <2>3
<1>2. f \in [l -> after] /\ \A y \in after : \E x \in l : f[x] = y
  BY DEF AllTicked
<1> HIDE DEF f, after
<1>3. IsFiniteSet(after) /\ after \subseteq Injectors
  <2>1. IsFiniteSet(after)
    BY <1>2, ImageBound DEF ListOK
  <2> QED BY <2>1, <1>1, <1>2
<1>4. ASSUME NEW y \in after PROVE Sound(y) /\ y.id < n /\ (y.organic => y.from <= t)
  <2>1. PICK x \in l : f[x] = y
    BY <1>2
  <2> QED BY <2>1, <1>1 DEF ListOK, SameWindow
<1>5. Distinct(after)
  <2> SUFFICES ASSUME NEW y \in after, NEW z \in after, y.id = z.id PROVE y = z
    BY DEF Distinct
  <2>1. PICK a \in l, b \in l : f[a] = y /\ f[b] = z
    BY <1>2
  <2> QED BY <2>1, <1>1 DEF ListOK, Distinct, SameWindow
<1>6. ASSUME NEW x \in l PROVE Active(f[x], t) = Active(x, t)
  <2>1. f[x].from = x.from /\ f[x].to = x.to /\ f[x].live = x.live
    BY <1>1 DEF SameWindow
  <2> QED BY <2>1 DEF Active
<1>7. Cardinality(Organic(after, t)) <= MaxConcurrent
  <2> DEFINE g == [x \in Organic(l, t) |-> f[x]]
  <2>1. ASSUME NEW x \in Organic(l, t) PROVE f[x] \in Organic(after, t)
    <3>1. x \in l /\ x.organic /\ Active(x, t)
      BY DEF Organic, ActiveAt
    <3> QED BY <3>1, <1>1, <1>6 DEF Organic, ActiveAt, SameWindow
  <2>2. ASSUME NEW y \in Organic(after, t) PROVE \E x \in Organic(l, t) : g[x] = y
    <3>1. y \in after /\ y.organic /\ Active(y, t)
      BY DEF Organic, ActiveAt
    <3>2. PICK x \in l : f[x] = y
      BY <3>1, <1>2
    <3>3. x \in Organic(l, t)
      BY <3>1, <3>2, <1>1, <1>6 DEF Organic, ActiveAt, SameWindow
    <3> QED BY <3>2, <3>3
  <2>3. g \in [Organic(l, t) -> Organic(after, t)]
    BY <2>1
  <2>4. IsFiniteSet(Organic(l, t)) /\ Cardinality(Organic(l, t)) \in Nat
    BY OrganicFinite DEF ListOK
  <2> HIDE DEF g
  <2>5. IsFiniteSet(Organic(after, t)) /\ Cardinality(Organic(after, t)) <= Cardinality(Organic(l, t))
    BY <2>2, <2>3, <2>4, ImageBound
  <2>6. Cardinality(Organic(after, t)) \in Nat
    BY <2>5, FS_CardinalityType
  <2> QED BY <2>4, <2>5, <2>6, WorkdayAssumption DEF ListOK
<1>8. ActiveKinds(after, t) = ActiveKinds(l, t)
  <2>1. ASSUME NEW k \in ActiveKinds(after, t) PROVE k \in ActiveKinds(l, t)
    <3>1. PICK y \in after : Active(y, t) /\ y.kind = k
      BY DEF ActiveKinds, ActiveAt
    <3>2. PICK x \in l : f[x] = y
      BY <1>2
    <3>3. x.kind = k /\ Active(x, t)
      BY <3>1, <3>2, <1>1, <1>6 DEF SameWindow
    <3> QED BY <3>3 DEF ActiveKinds, ActiveAt
  <2>2. ASSUME NEW k \in ActiveKinds(l, t) PROVE k \in ActiveKinds(after, t)
    <3>1. PICK x \in l : Active(x, t) /\ x.kind = k
      BY DEF ActiveKinds, ActiveAt
    <3>2. f[x].kind = k /\ Active(f[x], t) /\ f[x] \in after
      BY <3>1, <1>1, <1>6 DEF SameWindow
    <3> QED BY <3>2 DEF ActiveKinds, ActiveAt
  <2> QED BY <2>1, <2>2
<1> QED BY <1>3, <1>4, <1>5, <1>7, <1>8 DEF ListOK, after

-----------------------------------------------------------------------------
(* The steps *)

LEMMA InitIInv == Init => IInv
<1> SUFFICES ASSUME Init PROVE IInv
  OBVIOUS
<1> USE WorkdayAssumption
<1> DEFINE f == [p \in Planned |-> Window(p.id, p.kind, p.from, p.to, FALSE, TRUE)]
<1>1. IsFiniteSet(Planned) /\ Cardinality(Planned) \in Nat
  BY FS_CardinalityType
<1>2. ASSUME NEW p \in Planned
      PROVE  /\ f[p] \in Injectors /\ Sound(f[p]) /\ f[p].id = p.id /\ ~f[p].organic
             /\ p.id \in Nat /\ p.id < Cardinality(Planned)
  <2>1. p.id \in Nat /\ p.kind \in Kinds /\ p.from \in Nat /\ p.to \in Nat
    OBVIOUS
  <2>2. f[p] = [id |-> p.id, kind |-> p.kind, from |-> p.from, to |-> p.to, organic |-> FALSE,
                live |-> TRUE, fired |-> None, left |-> 0]
    BY DEF Window
  <2> HIDE DEF f
  <2>3. f[p] \in Injectors
    BY <2>1, <2>2 DEF Injectors
  <2>4. Sound(f[p]) /\ f[p].id = p.id /\ ~f[p].organic
    BY <2>2 DEF Sound
  <2> QED BY <2>1, <2>3, <2>4
<1>3. f \in [Planned -> injectors] /\ \A x \in injectors : \E p \in Planned : f[p] = x
  BY DEF Init
<1> HIDE DEF f
<1>4. IsFiniteSet(injectors)
  BY <1>1, <1>3, ImageBound
<1>5. injectors \subseteq Injectors
  BY <1>2, <1>3
<1>6. ASSUME NEW x \in injectors PROVE Sound(x) /\ x.id < Cardinality(Planned) /\ ~x.organic
  BY <1>2, <1>3
<1>7. Distinct(injectors)
  <2> SUFFICES ASSUME NEW x \in injectors, NEW y \in injectors, x.id = y.id PROVE x = y
    BY DEF Distinct
  <2>1. PICK p \in Planned, q \in Planned : f[p] = x /\ f[q] = y
    BY <1>3
  <2>2. p.id = q.id
    BY <2>1, <1>2
  <2>3. p = q
    BY <2>2
  <2> QED BY <2>1, <2>3
<1>8. Cardinality(Organic(injectors, 0)) <= MaxConcurrent
  <2>1. Organic(injectors, 0) = {}
    BY <1>6 DEF Organic, ActiveAt
  <2>2. Cardinality({}) = 0
    BY FS_EmptySet
  <2>3. 0 <= MaxConcurrent
    OBVIOUS
  <2> QED BY <2>1, <2>2, <2>3
<1>9. ListOK(injectors, spawned, elapsed)
  BY <1>4, <1>5, <1>6, <1>7, <1>8 DEF ListOK, Init
<1>10. TypeOK
  <2>1. IsFiniteSet(injectors) /\ injectors \subseteq Injectors /\ spawned \in Nat
    BY <1>1, <1>4, <1>5 DEF Init
  <2>2. wall \in Nat /\ elapsed \in 0..wall /\ lastTick \in elapsed..wall /\ sim \in 0..(lastTick * Accel)
    <3>1. 0 * Accel = 0
      OBVIOUS
    <3> QED BY <3>1 DEF Init
  <2>3. incident \in Nat \cup {None} /\ biased \subseteq Kinds /\ keys \subseteq Kinds
    BY DEF Init
  <2>4. due \in Nat /\ arrivals \in Nat /\ resumed \in Nat /\ controls \in 0..MaxControls
    BY DEF Init
  <2>5. paused \in BOOLEAN
    BY DEF Init
  <2> QED BY <2>1, <2>2, <2>3, <2>4, <2>5 DEF TypeOK
<1>11. RateInv /\ MixInv
  BY DEF Init, RateInv, RateCeiling, MixInv
<1> QED BY <1>9, <1>10, <1>11 DEF IInv

LEMMA Distributes ==
  ASSUME NEW a \in Int, NEW b \in Int, NEW g \in Int
  PROVE  (a + b) * g = a * g + b * g
  OBVIOUS

\* What is later is later by some time.
LEMMA Later ==
  ASSUME NEW a \in Nat, NEW b \in Int, b >= a
  PROVE  \E d \in Nat : b = a + d
<1>1. b - a \in Nat /\ b = a + (b - a)
  OBVIOUS
<1> QED BY <1>1

\* The stream, however late the tick comes.
LEMMA StreamStep ==
  ASSUME IInv, Stream(wall), UNCHANGED <<wall, paused, resumed>>
  PROVE  due' \in Nat /\ arrivals' \in Nat /\ RateInv'
<1>1. /\ wall \in Nat /\ due \in Nat /\ arrivals \in Nat /\ resumed \in Nat
      /\ MinGap \in Nat /\ MaxGap \in Nat /\ MaxPerTick \in Nat
  BY WorkdayAssumption DEF IInv, TypeOK
<1>2. CASE paused
  BY <1>1, <1>2 DEF Stream, IInv, RateInv, RateCeiling
<1>3. CASE ~paused /\ due > wall /\ UNCHANGED streamVars
  BY <1>1, <1>3 DEF streamVars, IInv, RateInv, RateCeiling
<1>4. CASE ~paused /\ ~(due > wall /\ UNCHANGED streamVars)
  <2>1. PICK n \in 1..MaxPerTick, last \in due..wall, gap \in MinGap..MaxGap :
          /\ due + (n - 1) * MinGap <= last
          /\ arrivals' = arrivals + n
          /\ due' = IF last + gap < wall THEN wall ELSE last + gap
    BY <1>4 DEF Stream, Arrive
  <2>2. n \in Nat /\ n >= 1 /\ last \in Nat /\ gap \in Nat /\ last <= wall /\ gap >= MinGap
    BY <2>1, <1>1
  <2>3. due' \in Nat /\ arrivals' \in Nat /\ due' >= last + gap
    BY <2>1, <2>2, <1>1
  <2> DEFINE sofar == (arrivals - resumed) * MinGap
             more == (n - 1) * MinGap
  <2>4. sofar \in Int /\ more \in Int /\ sofar <= due /\ due + more <= last
    BY <2>1, <2>2, <1>1, <1>4 DEF IInv, RateInv
  <2>5. (arrivals' - resumed - 1) * MinGap = sofar + more
    <3>1. arrivals' - resumed - 1 = (arrivals - resumed) + (n - 1)
      BY <2>1, <2>2, <1>1
    <3> QED BY <3>1, <2>2, <1>1, Distributes
  <2>6. (arrivals' - resumed) * MinGap = sofar + more + MinGap
    <3>1. arrivals' - resumed = (arrivals - resumed) + ((n - 1) + 1)
      BY <2>1, <2>2, <1>1
    <3>2. (arrivals' - resumed) * MinGap = sofar + ((n - 1) + 1) * MinGap
      BY <3>1, <2>2, <1>1, Distributes
    <3>3. ((n - 1) + 1) * MinGap = more + 1 * MinGap
      BY <2>2, <1>1, Distributes
    <3> QED BY <3>2, <3>3, <1>1
  <2> HIDE DEF sofar, more
  <2>7. sofar + more <= wall /\ sofar + more + MinGap <= due'
    BY <2>2, <2>3, <2>4, <1>1
  <2> QED BY <2>3, <2>5, <2>6, <2>7 DEF RateInv, RateCeiling
<1> QED BY <1>2, <1>3, <1>4

\* The simulated clock and the scheduler's draw.
LEMMA ClockStep ==
  ASSUME IInv, Tick
  PROVE  /\ sim + (wall - lastTick) * Accel \in 0..(wall * Accel)
         /\ incident' \in Nat \cup {None}
<1> USE WorkdayAssumption
<1> DEFINE simNow == sim + (wall - lastTick) * Accel
<1>1. sim \in Nat /\ wall \in Nat /\ lastTick \in Nat /\ lastTick <= wall /\ sim <= lastTick * Accel
      /\ Accel \in Nat
  BY DEF IInv, TypeOK
<1>2. wall * Accel = lastTick * Accel + (wall - lastTick) * Accel
  BY <1>1, Distributes
<1> DEFINE past == (wall - lastTick) * Accel
<1>3. past \in Nat /\ lastTick * Accel \in Nat /\ wall * Accel \in Nat
  BY <1>1
<1>4. simNow \in 0..(wall * Accel) /\ simNow \in Nat
  <2> HIDE DEF past
  <2>1. sim + past \in Nat /\ sim + past <= lastTick * Accel + past
    BY <1>1, <1>3
  <2> QED BY <2>1, <1>2, <1>3 DEF past
<1>5. incident' \in Nat \cup {None}
  <2>1. Schedule(wall, simNow)
    BY DEF Tick
  <2> HIDE DEF simNow
  <2>2. UNCHANGED incident \/ \E gap \in Intervals : incident' = simNow + gap
    BY <2>1 DEF Schedule
  <2> QED BY <2>2, <1>4 DEF IInv, TypeOK
<1> QED BY <1>4, <1>5

\* After a tick the list is good, and the mix has the bias of its active kinds.
LEMMA InjectorStep ==
  ASSUME IInv, Tick
  PROVE  /\ ListOK(injectors', spawned', wall) /\ spawned' \in Nat
         /\ biased' = ActiveKinds(injectors', wall) /\ keys' = biased'
         /\ biased' \subseteq Kinds
<1> DEFINE simNow == sim + (wall - lastTick) * Accel
<1>1. simNow \in Nat /\ wall \in Nat /\ Schedule(wall, simNow)
  <2>1. simNow \in 0..(wall * Accel) /\ wall \in Nat
    BY ClockStep DEF IInv, TypeOK
  <2> QED BY <2>1 DEF Tick
<1>2. PICK list \in Lists(wall, simNow) :
        /\ \E found \in SUBSET Insiders(list) : \E goes \in SUBSET Insiders(list) :
             injectors' = AllTicked(list, wall, found, goes)
        /\ Bias(list, wall)
  BY DEF Tick
<1>3. PICK found, goes : injectors' = AllTicked(list, wall, found, goes)
  BY <1>2
<1> HIDE DEF simNow
<1>4. ListOK(list, spawned', wall) /\ spawned' \in Nat
  BY <1>1, ListsOK
<1>5. ListOK(injectors', spawned', wall) /\ ActiveKinds(injectors', wall) = ActiveKinds(list, wall)
  BY <1>1, <1>3, <1>4, TickedList
<1>6. ActiveKinds(list, wall) \subseteq Kinds
  BY <1>4 DEF ListOK, ActiveKinds, ActiveAt, Injectors
<1>7. keys' = ActiveKinds(list, wall)
  BY <1>2 DEF Bias
<1>8. biased' = ActiveKinds(list, wall)
  <2>1. CASE ActiveKinds(list, wall) # keys
    BY <1>2, <2>1 DEF Bias
  <2>2. CASE ActiveKinds(list, wall) = keys
    <3>1. keys # None
      BY <1>6, <2>2, WorkdayAssumption
    <3>2. biased = keys
      BY <3>1 DEF IInv, MixInv
    <3> QED BY <1>2, <2>2, <3>2 DEF Bias
  <2> QED BY <2>1, <2>2
<1> QED BY <1>4, <1>5, <1>6, <1>7, <1>8

LEMMA TickStep == ASSUME IInv, Tick PROVE IInv'
<1>1. /\ sim' = sim + (wall - lastTick) * Accel /\ elapsed' = wall /\ lastTick' = wall
      /\ Stream(wall) /\ UNCHANGED <<wall, paused, resumed, controls>>
  BY DEF Tick
<1>2. due' \in Nat /\ arrivals' \in Nat /\ RateInv'
  BY <1>1, StreamStep
<1>3. sim' \in 0..(wall * Accel) /\ incident' \in Nat \cup {None}
  BY <1>1, ClockStep
<1>4. /\ ListOK(injectors', spawned', wall) /\ spawned' \in Nat
      /\ keys' = biased' /\ biased' \subseteq Kinds
  BY InjectorStep
<1>5. IsFiniteSet(injectors') /\ injectors' \subseteq Injectors
  BY <1>4 DEF ListOK
<1>6. TypeOK'
  BY <1>1, <1>2, <1>3, <1>4, <1>5 DEF IInv, TypeOK
<1>7. MixInv'
  BY <1>4 DEF MixInv
<1>8. ListOK(injectors, spawned, elapsed)'
  BY <1>1, <1>4 DEF ListOK, Organic, ActiveAt, Distinct
<1> QED BY <1>2, <1>6, <1>7, <1>8 DEF IInv

\* Time passing, a pause and a resumption leave the injectors alone.
LEMMA ControlStep == ASSUME IInv, TimePasses \/ Pause \/ Resume \/ UNCHANGED vars PROVE IInv'
<1> USE DEF chaosVars, clockVars, streamVars, vars
<1>1. UNCHANGED <<injectors, spawned, incident, biased, keys, sim, elapsed, arrivals>>
  BY DEF TimePasses, Pause, Resume
<1>2. wall \in Nat /\ sim \in Nat /\ lastTick \in Nat /\ Accel \in Nat /\ lastTick <= wall
      /\ elapsed \in Nat /\ arrivals \in Nat /\ resumed \in Nat /\ due \in Nat /\ MinGap \in Nat
  BY WorkdayAssumption DEF IInv, TypeOK
<1>3. wall' \in Nat /\ wall <= wall'
  BY <1>2, WorkdayAssumption DEF TimePasses, Pause, Resume
<1>4. \/ UNCHANGED <<lastTick, due, resumed>> /\ (paused' = paused \/ paused')
      \/ wall' = wall /\ lastTick' = wall /\ due' = wall /\ resumed' = resumed + 1 /\ ~paused'
  BY DEF TimePasses, Pause, Resume
<1>5. controls' \in 0..MaxControls /\ paused' \in BOOLEAN
  <2>1. controls \in 0..MaxControls /\ MaxControls \in Nat /\ paused \in BOOLEAN
    BY WorkdayAssumption DEF IInv, TypeOK
  <2>2. controls' = controls \/ (controls < MaxControls /\ controls' = controls + 1)
    BY DEF TimePasses, Pause, Resume, Control
  <2>3. paused' \in {paused, TRUE, FALSE}
    BY DEF TimePasses, Pause, Resume
  <2>4. controls' \in 0..MaxControls
    BY <2>1, <2>2
  <2>5. paused' \in BOOLEAN
    BY <2>1, <2>3, Zenon
  <2> QED BY <2>4, <2>5
<1>6. lastTick' \in elapsed..wall' /\ lastTick' >= lastTick
  BY <1>2, <1>3, <1>4 DEF IInv, TypeOK
<1>7. sim' \in 0..(lastTick' * Accel)
  <2>1. PICK d \in Nat : lastTick' = lastTick + d
    <3>1. lastTick' \in Int
      BY <1>2, <1>3, <1>6
    <3>2. lastTick' >= lastTick /\ lastTick \in Nat
      BY <1>2, <1>6
    <3> QED BY <3>1, <3>2, Later, Zenon
  <2>2. lastTick' * Accel = lastTick * Accel + d * Accel
    BY <2>1, <1>2, Distributes
  <2>3. d * Accel \in Nat /\ lastTick * Accel \in Nat
    BY <2>1, <1>2
  <2> QED BY <2>2, <2>3, <1>1 DEF IInv, TypeOK
<1>8. TypeOK'
  <2>1. elapsed' \in 0..wall' /\ lastTick' \in elapsed'..wall' /\ due' \in Nat /\ resumed' \in Nat
    BY <1>1, <1>2, <1>3, <1>4, <1>6
  <2>2. /\ IsFiniteSet(injectors') /\ injectors' \subseteq Injectors /\ spawned' \in Nat
        /\ incident' \in Nat \cup {None} /\ biased' \subseteq Kinds
        /\ (keys' = None \/ keys' \subseteq Kinds) /\ arrivals' \in Nat
    BY <1>1 DEF IInv, TypeOK
  <2> QED BY <1>3, <1>5, <1>7, <2>1, <2>2 DEF TypeOK
<1>9. RateInv'
  <2> DEFINE p == (arrivals - resumed) * MinGap
             q == (arrivals - resumed - 1) * MinGap
  <2>1. p \in Int /\ q \in Int /\ q <= wall
    BY <1>2 DEF IInv, RateInv, RateCeiling
  <2>2. CASE UNCHANGED <<lastTick, due, resumed>> /\ (paused' = paused \/ paused')
    <3>1. RateCeiling' = (q <= wall')
      BY <2>2, <1>1 DEF RateCeiling
    <3>2. ~paused' => (arrivals' - resumed') * MinGap <= due'
      BY <2>2, <1>1 DEF IInv, RateInv
    <3>3. q <= wall'
      <4> HIDE DEF p, q
      <4> QED BY <2>1, <1>2, <1>3
    <3> QED BY <3>1, <3>2, <3>3 DEF RateInv
  <2>3. CASE wall' = wall /\ due' = wall /\ resumed' = resumed + 1
    <3> DEFINE r == (arrivals - resumed - 1 - 1) * MinGap
    <3>1. q = r + 1 * MinGap
      <4>1. (arrivals - resumed - 1) = (arrivals - resumed - 1 - 1) + 1
        BY <1>2
      <4> QED BY <4>1, <1>2, Distributes
    <3>2. r \in Int
      BY <1>2
    <3>3. (arrivals' - resumed') * MinGap = q /\ (arrivals' - resumed' - 1) * MinGap = r
      <4>1. arrivals' - resumed' = arrivals - resumed - 1
        BY <2>3, <1>1, <1>2
      <4> QED BY <4>1
    <3> HIDE DEF p, q, r
    <3>4. r <= wall
      BY <3>1, <3>2, <2>1, <1>2
    <3> QED BY <3>3, <3>4, <2>1, <2>3 DEF RateInv, RateCeiling
  <2> QED BY <2>2, <2>3, <1>4
<1>10. ListOK(injectors, spawned, elapsed)' = ListOK(injectors, spawned, elapsed)
  BY <1>1 DEF ListOK, Organic, ActiveAt, Distinct
<1>11. MixInv'
  BY <1>1 DEF IInv, MixInv
<1> QED BY <1>8, <1>9, <1>10, <1>11 DEF IInv

LEMMA InjectStep == ASSUME IInv, InjectChaos PROVE IInv'
<1> USE DEF chaosVars, clockVars, streamVars
<1>1. PICK c \in Injections :
        injectors' = injectors \cup
          {Window(spawned, c.kind, elapsed + c.delay,
                  elapsed + c.delay + (IF c.length > 0 THEN c.length ELSE Length[c.kind]),
                  FALSE, c.live)}
  BY DEF InjectChaos
<1>2. c.kind \in Kinds /\ c.delay \in Nat /\ c.length \in Nat /\ c.live \in BOOLEAN
      /\ Length[c.kind] \in Nat
  BY WorkdayAssumption
<1> DEFINE from == elapsed + c.delay
           to == from + (IF c.length > 0 THEN c.length ELSE Length[c.kind])
           no == FALSE
<1>3. from \in Nat /\ to \in Nat /\ elapsed \in Nat /\ spawned \in Nat /\ no \in BOOLEAN /\ ~no
  BY <1>2 DEF IInv, TypeOK
<1>4. injectors' = injectors \cup {Window(spawned, c.kind, from, to, no, c.live)}
  BY <1>1
<1> HIDE DEF from, to, no
<1>5. ListOK(injectors', spawned + 1, elapsed)
  BY <1>2, <1>3, <1>4, OneMoreOK DEF IInv
<1>6. spawned' = spawned + 1 /\ keys' = None
      /\ UNCHANGED <<wall, sim, elapsed, lastTick, paused, incident, biased, due, arrivals, resumed>>
  BY DEF InjectChaos
<1>7. controls' \in 0..MaxControls
  BY WorkdayAssumption DEF InjectChaos, Control, IInv, TypeOK
<1>8. IsFiniteSet(injectors') /\ injectors' \subseteq Injectors
  BY <1>5 DEF ListOK
<1>9. TypeOK'
  BY <1>3, <1>6, <1>7, <1>8 DEF IInv, TypeOK
<1>10. RateInv' /\ MixInv'
  BY <1>6 DEF IInv, RateInv, RateCeiling, MixInv
<1>11. ListOK(injectors, spawned, elapsed)'
  BY <1>5, <1>6 DEF ListOK, Organic, ActiveAt, Distinct
<1> QED BY <1>9, <1>10, <1>11 DEF IInv

LEMMA NextStep == ASSUME IInv, [Next]_vars PROVE IInv'
  BY TickStep, ControlStep, InjectStep DEF Next

-----------------------------------------------------------------------------
(* The theorems *)

\* Every variable keeps its type (engine/scenario-runtime.ts).
THEOREM WorkdayTypes == Spec => []TypeOK
<1>1. IInv => TypeOK
  BY DEF IInv
<1> QED BY InitIInv, NextStep, <1>1, PTL DEF Spec

\* The ceiling on the continuous stream holds for every period, gap and cap,
\* and however late ticks come (engine/scenario-runtime.ts:349-399).
THEOREM RateCeilingHolds == Spec => []RateCeiling
<1>1. IInv => RateCeiling
  BY DEF IInv, RateInv
<1> QED BY InitIInv, NextStep, <1>1, PTL DEF Spec

\* The scheduler never has more than maxConcurrent incidents active, whatever
\* is planned and injected, and bursts keep to their windows
\* (engine/threat-scheduler.ts:100-145, engine/chaos.ts:399-424).
THEOREM ChaosBoundedHolds == Spec => []ChaosBounded
<1>1. IInv => ChaosBounded
  <2> SUFFICES ASSUME IInv PROVE ChaosBounded
    OBVIOUS
  <2>1. ListOK(injectors, spawned, elapsed)
    BY DEF IInv
  <2>2. {x \in ActiveAt(injectors, elapsed) : x.organic} = Organic(injectors, elapsed)
    BY DEF Organic
  <2>3. \A x \in injectors : Sound(x)
    BY <2>1 DEF ListOK
  <2>4. Distinct(injectors)
    BY <2>1 DEF ListOK
  <2> QED BY <2>1, <2>2, <2>3, <2>4 DEF ListOK, ChaosBounded, Sound, Distinct
<1> QED BY InitIInv, NextStep, <1>1, PTL DEF Spec

\* A tick leaves the bias of exactly the active kinds in the mix, whatever was
\* injected, pruned or has ended since the last (engine/scenario-runtime.ts:299-329).
THEOREM MixFollowsHolds == Spec => MixFollows
<1>1. ASSUME IInv, [Next]_vars
      PROVE  [elapsed' # elapsed => biased' = ActiveKinds(injectors', elapsed')]_vars
  <2>1. CASE Tick
    <3>1. elapsed' = wall
      BY <2>1 DEF Tick
    <3>2. biased' = ActiveKinds(injectors', wall)
      BY <1>1, <2>1, InjectorStep
    <3> QED BY <3>1, <3>2
  <2>2. CASE TimePasses \/ Pause \/ Resume \/ InjectChaos \/ UNCHANGED vars
    BY <2>2 DEF TimePasses, Pause, Resume, InjectChaos, clockVars, vars
  <2> QED BY <1>1, <2>1, <2>2 DEF Next
<1> QED BY InitIInv, NextStep, <1>1, PTL DEF Spec, MixFollows

-----------------------------------------------------------------------------
(* The bucket's inductive invariant *)

\* Product to sum: what a stretch of time refills is what its parts refill.
LEMMA StretchSplits ==
  ASSUME NEW r \in Nat, NEW a \in Int, NEW b \in Int, NEW c \in Int
  PROVE  r * (c - a) = r * (b - a) + r * (c - b)
  OBVIOUS

LEMMA ProductType == ASSUME NEW r \in Nat, NEW d \in Int PROVE r * d \in Int
  OBVIOUS

\* The tokens taken since grant i, and the units left, are paid by the bucket's
\* capacity and by what was refilled since.
PaidSince(i) ==
  TicksPerSecond * (Len(grants) - i + 1) + tokens
    <= CapacityOf(target) + target.rps * (refilled - grants[i])

BucketTypeOK ==
  /\ target \in Targets
  /\ now \in Nat /\ penalty \in Nat
  /\ tokens \in 0..CapacityOf(target) /\ refilled \in 0..now
  /\ grants \in Seq(Nat)
  /\ penalties \subseteq [after : Nat, until : Nat]

BucketInv ==
  /\ TargetsAssumption /\ SendingAssumption
  /\ BucketTypeOK
  /\ ~Unlimited => \A i \in DOMAIN grants : grants[i] <= refilled /\ PaidSince(i)
  /\ \A p \in penalties : p.after <= Len(grants) /\ p.until <= penalty
  /\ Paced

LEMMA CapacityType ==
  ASSUME TargetsAssumption, SendingAssumption, NEW t \in Targets
  PROVE  /\ TicksPerSecond \in Nat /\ TicksPerSecond > 0 /\ t.rps \in Nat
         /\ CapacityOf(t) \in Nat /\ CapacityOf(t) >= TicksPerSecond
<1>1. TicksPerSecond \in Nat /\ TicksPerSecond > 0 /\ t.rps \in Nat /\ t.burst \in Nat
  BY DEF TargetsAssumption, SendingAssumption
<1> DEFINE size == Larger(1, IF t.burst > 0 THEN t.burst ELSE t.rps)
<1>2. size \in Nat /\ size >= 1
  BY <1>1 DEF Larger
<1>3. TicksPerSecond * size \in Nat /\ TicksPerSecond * size >= TicksPerSecond
  <2> HIDE DEF size
  <2>1. PICK extra \in Nat : size = extra + 1
    BY <1>2
  <2>2. TicksPerSecond * size = TicksPerSecond * extra + TicksPerSecond
    BY <2>1, <1>1
  <2>3. TicksPerSecond * extra \in Nat
    BY <2>1, <1>1
  <2> QED BY <2>2, <2>3, <1>1
<1> QED BY <1>1, <1>3 DEF CapacityOf

\* What refill() finds is within the bucket, and no more than what it held and
\* what the time since then refilled.
LEMMA RefilledType ==
  ASSUME BucketInv
  PROVE  /\ Refilled \in 0..CapacityOf(target)
         /\ Refilled <= tokens + target.rps * (now - refilled)
<1>1. target.rps \in Nat /\ CapacityOf(target) \in Nat
  BY CapacityType DEF BucketInv, BucketTypeOK
<1>2. now - refilled \in Nat /\ tokens \in Nat /\ tokens <= CapacityOf(target)
  BY <1>1 DEF BucketInv, BucketTypeOK
<1>3. (now - refilled) * target.rps \in Nat /\ (now - refilled) * target.rps = target.rps * (now - refilled)
  BY <1>1, <1>2
<1> QED BY <1>1, <1>2, <1>3 DEF Refilled, Smaller

LEMMA InitBucket == TargetsAssumption /\ SendingAssumption /\ SendInit => BucketInv
<1> SUFFICES ASSUME TargetsAssumption, SendingAssumption, SendInit PROVE BucketInv
  OBVIOUS
<1>1. target \in Targets /\ CapacityOf(target) \in Nat
  BY CapacityType DEF SendInit
<1>2. grants = <<>> /\ penalties = {} /\ tokens = CapacityOf(target) /\ now = 0 /\ refilled = 0 /\ penalty = 0
  BY DEF SendInit
<1>3. BucketTypeOK
  BY <1>1, <1>2 DEF BucketTypeOK
<1> QED BY <1>2, <1>3 DEF BucketInv, Paced

-----------------------------------------------------------------------------
(* A step either leaves the bucket alone, or slows it, or is a turn of     *)
(* acquire().                                                              *)

BucketRests ==
  /\ UNCHANGED <<target, tokens, refilled, penalty, grants, penalties>>
  /\ now' \in {now, now + 1}

BucketSlows ==
  /\ UNCHANGED <<target, now, tokens, refilled, grants>>
  /\ \E ticks \in Nat : Penalize(ticks)

LEMMA RestingKeepsBucket == ASSUME BucketInv, BucketRests PROVE BucketInv'
<1>1. BucketTypeOK'
  BY DEF BucketInv, BucketTypeOK, BucketRests, CapacityOf, Larger
<1>2. Paced'
  BY DEF BucketInv, BucketRests, Paced, Unlimited, CapacityOf
<1>3. (\A p \in penalties : p.after <= Len(grants) /\ p.until <= penalty)'
  BY DEF BucketInv, BucketRests
<1>4. (~Unlimited => \A i \in DOMAIN grants : grants[i] <= refilled /\ PaidSince(i))'
  BY DEF BucketInv, BucketRests, PaidSince, Unlimited, CapacityOf
<1> QED BY <1>1, <1>2, <1>3, <1>4 DEF BucketInv, TargetsAssumption, SendingAssumption

LEMMA SlowingKeepsBucket == ASSUME BucketInv, BucketSlows PROVE BucketInv'
<1>0. PICK ticks \in Nat : Penalize(ticks)
  BY DEF BucketSlows
<1>1. now \in Nat /\ penalty \in Nat /\ Len(grants) \in Nat
  BY DEF BucketInv, BucketTypeOK
<1>2. penalty' \in Nat /\ penalty' >= penalty /\ penalty' >= now + ticks
  BY <1>0, <1>1 DEF Penalize, Larger
<1> DEFINE new == [after |-> Len(grants), until |-> now + ticks]
<1>3. penalties' = penalties \cup {new} /\ new \in [after : Nat, until : Nat]
  BY <1>0, <1>1 DEF Penalize
<1>4. BucketTypeOK'
  BY <1>2, <1>3 DEF BucketInv, BucketTypeOK, BucketSlows, CapacityOf, Larger
<1>5. (\A p \in penalties : p.after <= Len(grants) /\ p.until <= penalty)'
  <2> SUFFICES ASSUME NEW p \in penalties' PROVE p.after <= Len(grants) /\ p.until <= penalty'
    BY DEF BucketSlows
  <2>1. CASE p = new
    BY <2>1, <1>1, <1>2
  <2>2. CASE p \in penalties
    <3>1. p.after <= Len(grants) /\ p.until <= penalty /\ p.until \in Nat
      BY <2>2 DEF BucketInv, BucketTypeOK
    <3> QED BY <3>1, <1>1, <1>2
  <2> QED BY <2>1, <2>2, <1>3
<1>6. (~Unlimited => \A i \in DOMAIN grants : grants[i] <= refilled /\ PaidSince(i))'
  BY DEF BucketInv, BucketSlows, PaidSince, Unlimited, CapacityOf
<1>7. Paced'
  <2>1. \A p \in penalties' : \A i \in DOMAIN grants : i > p.after => grants[i] >= p.until
    <3> SUFFICES ASSUME NEW p \in penalties', NEW i \in DOMAIN grants, i > p.after
                 PROVE  grants[i] >= p.until
      OBVIOUS
    <3>1. p # new
      BY DEF BucketInv, BucketTypeOK
    <3> QED BY <3>1, <1>3 DEF BucketInv, Paced
  <2> QED BY <2>1 DEF BucketInv, BucketSlows, Paced, Unlimited, CapacityOf
<1> QED BY <1>4, <1>5, <1>6, <1>7 DEF BucketInv, TargetsAssumption, SendingAssumption

\* A turn that takes no token only refills.
LEMMA RefillKeepsBucket ==
  ASSUME BucketInv, ~Unlimited, refilled' = now, tokens' = Refilled,
         UNCHANGED <<target, now, penalty, grants, penalties>>
  PROVE  BucketInv'
<1>1. target.rps \in Nat /\ TicksPerSecond \in Nat /\ CapacityOf(target) \in Nat
  BY CapacityType DEF BucketInv, BucketTypeOK
<1>2. now \in Nat /\ refilled \in Nat /\ tokens \in Nat
  BY <1>1 DEF BucketInv, BucketTypeOK
<1>3. BucketTypeOK'
  BY RefilledType, <1>2 DEF BucketInv, BucketTypeOK, CapacityOf, Larger
<1>4. ASSUME NEW i \in DOMAIN grants' PROVE grants'[i] <= refilled' /\ PaidSince(i)'
  <2>1. i \in Nat /\ grants[i] \in Nat /\ Len(grants) \in Nat /\ grants[i] <= refilled /\ PaidSince(i)
    BY DEF BucketInv, BucketTypeOK
  <2>2. refilled <= now
    BY <1>2 DEF BucketInv, BucketTypeOK
  <2>3. target.rps * (now - grants[i]) = target.rps * (refilled - grants[i]) + target.rps * (now - refilled)
    BY <1>1, <1>2, <2>1, StretchSplits
  <2> DEFINE spent == TicksPerSecond * (Len(grants) - i + 1)
             before == target.rps * (refilled - grants[i])
             since == target.rps * (now - refilled)
  <2>4. spent \in Int /\ before \in Int /\ since \in Int /\ Refilled \in Int
    <3>1. Len(grants) - i + 1 \in Int /\ refilled - grants[i] \in Int /\ now - refilled \in Int
      BY <1>2, <2>1
    <3>2. spent \in Int
      BY <3>1, <1>1, ProductType
    <3>3. before \in Int
      BY <3>1, <1>1, ProductType
    <3>4. since \in Int
      BY <3>1, <1>1, ProductType
    <3>5. Refilled \in Int
      BY <1>1, RefilledType
    <3> QED BY <3>2, <3>3, <3>4, <3>5
  <2>5. spent + tokens <= CapacityOf(target) + before
    BY <2>1 DEF PaidSince
  <2>6. Refilled <= tokens + since
    BY RefilledType
  <2> HIDE DEF spent, before, since
  <2>7. spent + Refilled <= CapacityOf(target) + (before + since)
    BY <2>4, <2>5, <2>6, <1>1, <1>2
  <2>8. PaidSince(i)' = (spent + Refilled <= CapacityOf(target) + target.rps * (now - grants[i]))
    BY DEF PaidSince, spent, CapacityOf
  <2>9. PaidSince(i)'
    BY <2>3, <2>7, <2>8 DEF before, since
  <2>10. grants'[i] <= refilled'
    <3> HIDE DEF Refilled
    <3> QED BY <2>1, <2>2, <1>2
  <2> QED BY <2>9, <2>10
<1>5. Paced'
  BY DEF BucketInv, Paced, Unlimited, CapacityOf
<1>6. (\A p \in penalties : p.after <= Len(grants) /\ p.until <= penalty)'
  BY DEF BucketInv
<1> QED BY <1>3, <1>4, <1>5, <1>6 DEF BucketInv, TargetsAssumption, SendingAssumption

\* What tryAcquire() does when it finds a token.
TokenTaken ==
  /\ TryAcquire
  /\ grants' = Append(grants, now)
  /\ UNCHANGED <<target, now, penalty, penalties>>
  /\ IF Unlimited THEN UNCHANGED <<tokens, refilled>>
     ELSE refilled' = now /\ tokens' = Refilled - TicksPerSecond

LEMMA TakingKeepsBucket == ASSUME BucketInv, TokenTaken PROVE BucketInv'
<1>1. target.rps \in Nat /\ TicksPerSecond \in Nat /\ TicksPerSecond > 0 /\ CapacityOf(target) \in Nat
  BY CapacityType DEF BucketInv, BucketTypeOK
<1>2. now \in Nat /\ refilled \in Nat /\ tokens \in Nat /\ refilled <= now /\ grants \in Seq(Nat)
      /\ penalty \in Nat /\ now >= penalty
  BY <1>1 DEF BucketInv, BucketTypeOK, TokenTaken, TryAcquire
<1> DEFINE n == Len(grants)
<1>3. /\ n \in Nat /\ grants' \in Seq(Nat) /\ Len(grants') = n + 1 /\ grants'[n + 1] = now
      /\ DOMAIN grants' = 1..(n + 1) /\ DOMAIN grants = 1..n
      /\ \A i \in 1..n : grants'[i] = grants[i] /\ grants[i] \in Nat
  BY <1>2 DEF TokenTaken
<1>4. ~Unlimited => Refilled - TicksPerSecond \in 0..CapacityOf(target)
  BY RefilledType, <1>1 DEF TokenTaken, TryAcquire
<1>5. BucketTypeOK'
  BY <1>2, <1>3, <1>4 DEF BucketInv, BucketTypeOK, TokenTaken, CapacityOf, Larger
<1>6. (~Unlimited => \A i \in DOMAIN grants : grants[i] <= refilled /\ PaidSince(i))'
  <2> SUFFICES ASSUME ~Unlimited, NEW i \in 1..(n + 1)
               PROVE  grants'[i] <= refilled' /\ PaidSince(i)'
    BY <1>3 DEF TokenTaken, Unlimited
  <2>0. refilled' = now /\ tokens' = Refilled - TicksPerSecond /\ Refilled \in Nat
    BY RefilledType, <1>1 DEF TokenTaken
  <2>1. CASE i = n + 1
    <3>1. PaidSince(i)' = (TicksPerSecond * 1 + (Refilled - TicksPerSecond)
                             <= CapacityOf(target) + target.rps * (now - now))
      BY <2>0, <2>1, <1>2, <1>3 DEF PaidSince, CapacityOf, TokenTaken
    <3>2. target.rps * (now - now) = 0 /\ TicksPerSecond * 1 = TicksPerSecond
      BY <1>1, <1>2
    <3>3. Refilled <= CapacityOf(target)
      BY RefilledType, <1>1
    <3>4. PaidSince(i)'
      <4>1. TicksPerSecond * 1 + (Refilled - TicksPerSecond) <= CapacityOf(target) + target.rps * (now - now)
        BY <3>2, <3>3, <2>0, <1>1
      <4> QED BY <4>1, <3>1
    <3>5. grants'[i] = now
      BY <2>1, <1>3
    <3>6. grants'[i] <= refilled'
      BY <3>5, <2>0, <1>2
    <3> QED BY <3>4, <3>6
  <2>2. CASE i \in 1..n
    <3>1. grants[i] <= refilled /\ PaidSince(i) /\ grants[i] \in Nat /\ grants'[i] = grants[i]
      BY <2>2, <1>3 DEF BucketInv
    <3>2. target.rps * (now - grants[i]) = target.rps * (refilled - grants[i]) + target.rps * (now - refilled)
      <4>1. target.rps \in Nat /\ grants[i] \in Int /\ refilled \in Int /\ now \in Int
        BY <1>1, <1>2, <3>1
      <4> QED BY <4>1, StretchSplits
    <3> DEFINE spent == TicksPerSecond * (n - i + 1)
               before == target.rps * (refilled - grants[i])
               since == target.rps * (now - refilled)
    <3>3. spent \in Int /\ before \in Int /\ since \in Int
      <4>1. n - i + 1 \in Int /\ refilled - grants[i] \in Int /\ now - refilled \in Int
        BY <1>2, <1>3, <3>1
      <4>2. spent \in Int
        BY <4>1, <1>1, ProductType
      <4>3. before \in Int
        BY <4>1, <1>1, ProductType
      <4>4. since \in Int
        BY <4>1, <1>1, ProductType
      <4> QED BY <4>2, <4>3, <4>4
    <3>4. spent + tokens <= CapacityOf(target) + before
      BY <3>1 DEF PaidSince
    <3>5. Refilled <= tokens + since
      BY RefilledType
    <3>6. TicksPerSecond * ((n + 1) - i + 1) = spent + TicksPerSecond
      BY <1>1, <1>3
    <3> HIDE DEF spent, before, since
    <3>7. spent + TicksPerSecond + (Refilled - TicksPerSecond) <= CapacityOf(target) + (before + since)
      BY <3>3, <3>4, <3>5, <2>0, <1>1, <1>2
    <3>8. PaidSince(i)' = (TicksPerSecond * ((n + 1) - i + 1) + (Refilled - TicksPerSecond)
                             <= CapacityOf(target) + target.rps * (now - grants[i]))
      BY <2>0, <3>1, <1>3 DEF PaidSince, CapacityOf, TokenTaken
    <3>9. PaidSince(i)'
      BY <3>2, <3>6, <3>7, <3>8 DEF before, since
    <3> QED BY <3>1, <3>9, <2>0, <1>2
  <2> QED BY <2>1, <2>2, <1>3
<1>7. (\A p \in penalties : p.after <= Len(grants) /\ p.until <= penalty)'
  BY <1>3 DEF BucketInv, BucketTypeOK, TokenTaken
<1>8. Paced'
  <2>1. ASSUME ~Unlimited, NEW i \in 1..(n + 1), NEW j \in 1..(n + 1), i <= j
        PROVE  TicksPerSecond * (j - i + 1) <= CapacityOf(target) + target.rps * (grants'[j] - grants'[i])
    <3>1. CASE j = n + 1
      <4>1. PaidSince(i)' /\ tokens' \in Nat
        <5>1. ~Unlimited' /\ i \in DOMAIN grants'
          BY <2>1, <1>3 DEF TokenTaken, Unlimited
        <5>2. PaidSince(i)'
          BY <5>1, <1>6
        <5>3. tokens' \in Nat
          BY <1>4, <1>1, <2>1 DEF TokenTaken
        <5> QED BY <5>2, <5>3
      <4>2. refilled' = now /\ grants'[i] \in Nat
        BY <1>3, <2>1 DEF TokenTaken
      <4> DEFINE spent == TicksPerSecond * ((n + 1) - i + 1)
                 paid == target.rps * (now - grants'[i])
      <4>3. spent \in Int /\ paid \in Int
        <5>1. (n + 1) - i + 1 \in Int /\ now - grants'[i] \in Int
          BY <1>2, <1>3, <4>2, <2>1
        <5>2. spent \in Int
          BY <5>1, <1>1, ProductType
        <5>3. paid \in Int
          BY <5>1, <1>1, ProductType
        <5> QED BY <5>2, <5>3
      <4>4. spent + tokens' <= CapacityOf(target) + paid
        BY <4>1, <4>2, <1>3 DEF PaidSince, TokenTaken, CapacityOf
      <4> HIDE DEF spent, paid
      <4>5. spent <= CapacityOf(target) + paid
        BY <4>1, <4>3, <4>4, <1>1
      <4>6. grants'[j] = now
        BY <3>1, <1>3
      <4>7. TicksPerSecond * (j - i + 1) <= CapacityOf(target) + target.rps * (now - grants'[i])
        <5>1. spent = TicksPerSecond * (j - i + 1)
          BY <3>1 DEF spent
        <5> QED BY <5>1, <4>5 DEF paid
      <4> QED BY <4>6, <4>7
    <3>2. CASE j \in 1..n
      <4>1. i \in DOMAIN grants /\ j \in DOMAIN grants
        BY <3>2, <2>1, <1>3
      <4>2. TicksPerSecond * (j - i + 1) <= CapacityOf(target) + target.rps * (grants[j] - grants[i])
        <5>1. Paced
          BY DEF BucketInv
        <5> QED BY <4>1, <2>1, <5>1, ZenonT(30) DEF Paced
      <4>3. grants'[i] = grants[i] /\ grants'[j] = grants[j]
        BY <4>1, <1>3
      <4> QED BY <4>2, <4>3
    <3> QED BY <3>1, <3>2, <1>3
  <2>2. ASSUME NEW p \in penalties', NEW i \in 1..(n + 1), i > p.after PROVE grants'[i] >= p.until
    <3>1. p \in penalties /\ p.until <= penalty /\ p.until \in Nat
      BY DEF BucketInv, BucketTypeOK, TokenTaken
    <3>2. CASE i = n + 1
      BY <3>1, <3>2, <1>2, <1>3
    <3>3. CASE i \in 1..n
      BY <3>1, <3>3, <2>2, <1>3 DEF BucketInv, Paced
    <3> QED BY <3>2, <3>3, <1>3
  <2> QED BY <2>1, <2>2, <1>3 DEF Paced, Unlimited, CapacityOf, TokenTaken
<1> QED BY <1>5, <1>6, <1>7, <1>8 DEF BucketInv, TargetsAssumption, SendingAssumption

-----------------------------------------------------------------------------
(* The steps of the adapter *)

LEMMA AcquireStep == ASSUME BucketInv, NEW w \in Workers, Acquire(w) PROVE BucketInv'
<1>1. CASE TryAcquire
  <2>1. TokenTaken
    BY <1>1 DEF Acquire, TokenTaken
  <2> QED BY <2>1, TakingKeepsBucket
<1>2. CASE ~TryAcquire /\ Unlimited
  <2>1. BucketRests
    BY <1>2 DEF Acquire, BucketRests, BucketInv, BucketTypeOK
  <2> QED BY <2>1, RestingKeepsBucket
<1>3. CASE ~TryAcquire /\ ~Unlimited
  BY <1>3, RefillKeepsBucket DEF Acquire
<1> QED BY <1>1, <1>2, <1>3

\* handleFailure leaves the bucket alone or penalizes it.
LEMMA FailStep ==
  ASSUME NEW w \in Workers, NEW status, NEW retryAfter \in Nat \cup {Absent},
         Fail(w, status, retryAfter), UNCHANGED <<target, now>>
  PROVE  BucketRests \/ BucketSlows
<1>1. CASE status = 429 /\ retryAfter # Absent /\ retryAfter > 0
  BY <1>1 DEF Fail, BucketSlows
<1>2. CASE ~(status = 429 /\ retryAfter # Absent /\ retryAfter > 0)
  BY <1>2 DEF Fail, BucketRests
<1> QED BY <1>1, <1>2

LEMMA SendStep == ASSUME BucketInv, [SendNext]_sendVars PROVE BucketInv'
<1> USE DEF limiterVars
<1>1. ASSUME NEW w \in Workers, Acquire(w) PROVE BucketInv'
  BY <1>1, AcquireStep
<1>2. ASSUME NEW w \in Workers,
             Take(w) \/ Wake(w) \/ Pass(w) \/ SendNothing(w) \/ Authenticate(w)
      PROVE  BucketRests
  BY <1>2 DEF Take, Wake, Pass, SendNothing, Authenticate, BucketRests
<1>3. ASSUME NEW w \in Workers, Publish(w) PROVE BucketRests \/ BucketSlows
  <2>1. CASE Fail(w, Absent, Absent)
    BY <1>3, <2>1, FailStep DEF Publish
  <2>2. CASE UNCHANGED limiterVars
    BY <1>3, <2>2 DEF Publish, BucketRests
  <2> QED BY <1>3, <2>1, <2>2 DEF Publish
<1>4. ASSUME NEW w \in Workers, Refused(w) PROVE BucketRests \/ BucketSlows
  BY <1>4, FailStep DEF Refused
<1>5. ASSUME NEW w \in Workers, NEW a \in target.answers, Answer(w, a)
      PROVE  BucketRests \/ BucketSlows
  <2>1. a.retryAfter \in Nat \cup {Absent} /\ UNCHANGED <<target, now>>
    BY <1>5 DEF Answer, BucketInv, BucketTypeOK, TargetsAssumption
  <2>2. CASE Accepted(w, a)
    BY <2>1, <2>2 DEF Accepted, BucketRests
  <2>3. CASE Declined(w, a)
    BY <2>1, <2>3, FailStep DEF Declined
  <2>4. CASE Unanswered(w, a)
    BY <2>1, <2>4, FailStep DEF Unanswered
  <2> QED BY <1>5, <2>2, <2>3, <2>4 DEF Answer
<1>6. ASSUME (\E ttl \in TokenTtls : TokenArrives(ttl)) \/ TokenFails \/ ClockTicks \/ UNCHANGED sendVars
      PROVE  BucketRests
  BY <1>6 DEF TokenArrives, TokenFails, ClockTicks, sendVars, BucketRests
<1> QED BY <1>1, <1>2, <1>3, <1>4, <1>5, <1>6, RestingKeepsBucket, SlowingKeepsBucket DEF SendNext

\* However many slots share the bucket, no stretch of time sees more attempts
\* than the bucket holds and refills, and none is made before the end of a wait
\* a 429 asked for (rate-limiter.ts:46-57, 91-116).
THEOREM PacedHolds == TargetsAssumption /\ SendingAssumption /\ SendSpec => []Paced
<1>1. BucketInv => Paced
  BY DEF BucketInv
<1> QED BY InitBucket, SendStep, <1>1, PTL DEF SendSpec

-----------------------------------------------------------------------------
(* The token endpoint *)

FetchRecords == [started : Nat, ended : Nat \cup {Absent}, expires : Int, refusals : 0..1]

\* A refresh asked for now would be explained: the last one was refused or its
\* token has expired, unless the token cached is the one it brought.
Stale(f) ==
  /\ f.ended # Absent
  /\ \/ f.refusals > 0
     \/ f.expires <= now
     \/ cached # Absent /\ cached.expires = f.expires

FetchInv ==
  /\ SendingAssumption
  /\ now \in Nat
  /\ fetches \in Seq(FetchRecords)
  /\ cached # Absent => cached.expires \in Int
  /\ inFlight # Absent => inFlight = Len(fetches) /\ Len(fetches) > 0
  /\ inFlight # Absent => fetches[inFlight].ended = Absent
  /\ \A i \in 1..Len(fetches) : fetches[i].ended # Absent \/ inFlight = i
  /\ inFlight = Absent /\ Len(fetches) > 0 => Stale(fetches[Len(fetches)])
  /\ FetchesExplained

LEMMA InitFetch == SendingAssumption /\ SendInit => FetchInv
  BY DEF SendInit, FetchInv, FetchesExplained

\* Time passing makes no last refresh less stale.
FetchRests == UNCHANGED authVars /\ now' \in {now, now + 1}

LEMMA RestingKeepsFetch == ASSUME FetchInv, FetchRests PROVE FetchInv'
<1>1. fetches' = fetches /\ cached' = cached /\ inFlight' = inFlight /\ now' \in Nat /\ now <= now'
  BY DEF FetchInv, FetchRests, authVars
<1>2. FetchesExplained'
  BY <1>1 DEF FetchInv, FetchesExplained
<1>3. (inFlight = Absent /\ Len(fetches) > 0 => Stale(fetches[Len(fetches)]))'
  <2> SUFFICES ASSUME inFlight = Absent, Len(fetches) > 0 PROVE Stale(fetches[Len(fetches)])'
    BY <1>1
  <2>1. Stale(fetches[Len(fetches)]) /\ fetches[Len(fetches)] \in FetchRecords
    BY DEF FetchInv
  <2>2. fetches[Len(fetches)].expires \in Int /\ now \in Nat
    BY <2>1 DEF FetchRecords, FetchInv
  <2> QED BY <1>1, <2>1, <2>2 DEF Stale
<1> QED BY <1>1, <1>2, <1>3 DEF FetchInv, SendingAssumption

\* A slot that finds no token and no refresh asks for one.
FetchStarts ==
  /\ ~CachedLives /\ inFlight = Absent
  /\ fetches' = Append(fetches, [started |-> now, ended |-> Absent, expires |-> 0, refusals |-> 0])
  /\ inFlight' = Len(fetches) + 1
  /\ UNCHANGED <<cached, now>>

LEMMA StartingKeepsFetch == ASSUME FetchInv, FetchStarts PROVE FetchInv'
<1> DEFINE n == Len(fetches)
           new == [started |-> now, ended |-> Absent, expires |-> 0, refusals |-> 0]
<1>1. n \in Nat /\ now \in Nat /\ new \in FetchRecords /\ new.ended = Absent
  BY DEF FetchInv, FetchRecords
<1>2. /\ fetches' \in Seq(FetchRecords) /\ Len(fetches') = n + 1 /\ fetches'[n + 1] = new
      /\ \A i \in 1..n : fetches'[i] = fetches[i]
      /\ DOMAIN fetches' = 1..(n + 1) /\ DOMAIN fetches = 1..n
  <2>1. fetches' = Append(fetches, new) /\ fetches \in Seq(FetchRecords)
    BY DEF FetchInv, FetchStarts
  <2> HIDE DEF new
  <2> QED BY <2>1, <1>1
<1>3. inFlight' = n + 1 /\ inFlight' # Absent
  BY <1>1 DEF FetchStarts, FetchInv, SendingAssumption
<1>4. ASSUME NEW i \in 1..(n + 1) PROVE fetches'[i].ended # Absent \/ inFlight' = i
  <2>1. i \in 1..n => fetches[i].ended # Absent
    <3>1. inFlight = Absent /\ Absent \notin Int
      BY DEF FetchStarts, FetchInv, SendingAssumption
    <3> QED BY <3>1 DEF FetchInv
  <2> QED BY <2>1, <1>1, <1>2, <1>3
<1>5. FetchesExplained'
  <2> SUFFICES ASSUME NEW f \in 1..(n + 1), f > 1
               PROVE  /\ fetches'[f - 1].ended # Absent
                      /\ fetches'[f - 1].refusals > 0 \/ fetches'[f].started >= fetches'[f - 1].expires
    BY <1>2 DEF FetchesExplained
  <2>1. f - 1 \in 1..n /\ fetches'[f - 1] = fetches[f - 1]
    BY <1>1, <1>2
  <2>2. CASE f = n + 1
    <3>1. Stale(fetches[f - 1])
      BY <2>1, <2>2, <1>1 DEF FetchInv, FetchStarts
    <3>2. fetches'[f].started = now /\ fetches[f - 1].expires \in Int
      <4>1. fetches'[f].started = now
        BY <1>2, <2>2
      <4>2. fetches[f - 1] \in FetchRecords
        BY <2>1 DEF FetchInv
      <4> QED BY <4>1, <4>2 DEF FetchRecords
    <3>3. cached # Absent => cached.expires <= now
      BY <1>1 DEF FetchStarts, CachedLives, FetchInv
    <3> QED BY <3>1, <3>2, <3>3, <2>1, <1>1 DEF Stale
  <2>3. CASE f \in 1..n
    BY <2>1, <2>3, <1>2 DEF FetchInv, FetchesExplained
  <2> QED BY <2>2, <2>3, <1>1
<1> QED BY <1>1, <1>2, <1>3, <1>4, <1>5 DEF FetchInv, FetchStarts, SendingAssumption

\* The refresh under way ends, with a token or without one.
FetchEnds(expires) ==
  /\ inFlight # Absent /\ inFlight' = Absent
  /\ fetches' = [fetches EXCEPT ![inFlight].ended = now, ![inFlight].expires = expires]
  /\ UNCHANGED now
  /\ \/ expires = now /\ UNCHANGED cached
     \/ cached' = [id |-> inFlight, expires |-> expires]

Ended(f, end, e) == [f EXCEPT !.ended = end, !.expires = e]

LEMMA EndedFetch ==
  ASSUME NEW f \in FetchRecords, NEW end \in Nat, NEW e \in Int
  PROVE  /\ Ended(f, end, e) \in FetchRecords
         /\ Ended(f, end, e).ended = end /\ Ended(f, end, e).expires = e
         /\ Ended(f, end, e).refusals = f.refusals /\ Ended(f, end, e).started = f.started
<1> DEFINE ended == [f EXCEPT !.ended = end]
<1>1. /\ ended \in FetchRecords /\ ended.ended = end
      /\ ended.refusals = f.refusals /\ ended.started = f.started
  BY DEF FetchRecords
<1> HIDE DEF ended
<1> DEFINE last == [ended EXCEPT !.expires = e]
<1>2. /\ last \in FetchRecords /\ last.ended = ended.ended /\ last.expires = e
      /\ last.refusals = ended.refusals /\ last.started = ended.started
  BY <1>1 DEF FetchRecords
<1> QED BY <1>1, <1>2 DEF ended, Ended

LEMMA EndingKeepsFetch == ASSUME FetchInv, NEW e \in Int, FetchEnds(e) PROVE FetchInv'
<1> DEFINE n == Len(fetches)
<1>1. n \in Nat /\ n > 0 /\ inFlight = n /\ now \in Nat /\ fetches \in Seq(FetchRecords)
  BY DEF FetchInv, FetchEnds
<1> DEFINE last == Ended(fetches[n], now, e)
<1>2. fetches' = [fetches EXCEPT ![n] = last]
  BY <1>1 DEF FetchEnds, Ended
<1>3. /\ last \in FetchRecords /\ last.ended = now
      /\ last.expires = e /\ last.refusals = fetches[n].refusals /\ last.started = fetches[n].started
  <2>1. fetches[n] \in FetchRecords
    BY <1>1
  <2>2. now \in Nat
    BY <1>1
  <2>3. e \in Int
    OBVIOUS
  <2> DEFINE f == fetches[n]
  <2> HIDE DEF n, f
  <2>4. /\ Ended(f, now, e) \in FetchRecords /\ Ended(f, now, e).ended = now
        /\ Ended(f, now, e).expires = e /\ Ended(f, now, e).refusals = f.refusals
        /\ Ended(f, now, e).started = f.started
    <3>1. f \in FetchRecords
      BY <2>1 DEF f
    <3> QED BY <3>1, <2>2, <2>3, EndedFetch
  <2> QED BY <2>4 DEF last, f
<1> HIDE DEF last
<1>4. /\ fetches' \in Seq(FetchRecords) /\ Len(fetches') = n /\ fetches'[n] = last
      /\ \A i \in 1..n : i # n => fetches'[i] = fetches[i]
      /\ DOMAIN fetches' = 1..n /\ DOMAIN fetches = 1..n
  BY <1>1, <1>2, <1>3
<1>5. inFlight' = Absent /\ now' = now /\ now # Absent
  BY <1>1 DEF FetchEnds, FetchInv, SendingAssumption
<1>6. cached' # Absent => cached'.expires \in Int
  BY DEF FetchEnds, FetchInv
<1>7. ASSUME NEW i \in 1..n PROVE fetches'[i].ended # Absent
  BY <1>1, <1>3, <1>4, <1>5 DEF FetchInv
<1>8. (inFlight = Absent /\ Len(fetches) > 0 => Stale(fetches[Len(fetches)]))'
  <2>1. fetches'[Len(fetches')] = last
    BY <1>4
  <2>2. last.ended # Absent /\ (e = now \/ (cached' # Absent /\ cached'.expires = e))
    <3>1. e = now \/ cached' = [id |-> inFlight, expires |-> e]
      BY DEF FetchEnds
    <3>2. [id |-> inFlight, expires |-> e] # Absent
      <4>1. [id |-> inFlight, expires |-> e] \in [id : Nat, expires : Int]
        BY <1>1
      <4> QED BY <4>1 DEF FetchInv, SendingAssumption
    <3>3. last.ended # Absent
      BY <1>3, <1>5
    <3> QED BY <3>1, <3>2, <3>3
  <2> QED BY <2>1, <2>2, <1>1, <1>3, <1>5 DEF Stale
<1>9. FetchesExplained'
  <2> SUFFICES ASSUME NEW f \in 1..n, f > 1
               PROVE  /\ fetches'[f - 1].ended # Absent
                      /\ fetches'[f - 1].refusals > 0 \/ fetches'[f].started >= fetches'[f - 1].expires
    BY <1>4 DEF FetchesExplained
  <2>1. f - 1 \in 1..n /\ f - 1 # n
    BY <1>1
  <2>2. fetches'[f - 1] = fetches[f - 1] /\ fetches'[f].started = fetches[f].started
    BY <2>1, <1>3, <1>4
  <2> QED BY <2>1, <2>2, <1>4 DEF FetchInv, FetchesExplained
<1> QED BY <1>1, <1>4, <1>5, <1>6, <1>7, <1>8, <1>9 DEF FetchInv, SendingAssumption

\* A 401 marks every token so far as refused and drops the cached one.
TokensRefused ==
  /\ cached' = Absent
  /\ fetches' = [f \in DOMAIN fetches |->
       [fetches[f] EXCEPT !.refusals = IF fetches[f].ended = Absent THEN @ ELSE 1]]
  /\ UNCHANGED <<inFlight, now>>

LEMMA RefusingKeepsFetch == ASSUME FetchInv, TokensRefused PROVE FetchInv'
<1> DEFINE n == Len(fetches)
<1>1. n \in Nat /\ fetches \in Seq(FetchRecords) /\ DOMAIN fetches = 1..n
  BY DEF FetchInv
<1> DEFINE marked(f) == [fetches[f] EXCEPT !.refusals = IF fetches[f].ended = Absent THEN @ ELSE 1]
<1>2. ASSUME NEW f \in 1..n
      PROVE  /\ marked(f) \in FetchRecords
             /\ marked(f).ended = fetches[f].ended /\ marked(f).expires = fetches[f].expires
             /\ marked(f).started = fetches[f].started
             /\ marked(f).refusals = IF fetches[f].ended = Absent THEN fetches[f].refusals ELSE 1
  <2>1. fetches[f] \in FetchRecords
    BY <1>1
  <2> QED BY <2>1 DEF FetchRecords
<1>3. fetches' = [f \in 1..n |-> marked(f)]
  BY <1>1 DEF TokensRefused
<1> HIDE DEF marked
<1>4. /\ fetches' \in Seq(FetchRecords) /\ Len(fetches') = n /\ DOMAIN fetches' = 1..n
      /\ \A i \in 1..n : fetches'[i] = marked(i)
  BY <1>1, <1>2, <1>3
<1>5. ASSUME NEW i \in 1..n PROVE fetches'[i].ended # Absent \/ inFlight' = i
  BY <1>2, <1>4 DEF FetchInv, TokensRefused
<1>6. (inFlight = Absent /\ Len(fetches) > 0 => Stale(fetches[Len(fetches)]))'
  <2> SUFFICES ASSUME inFlight = Absent, n > 0 PROVE Stale(fetches[n])'
    BY <1>4 DEF TokensRefused
  <2>1. fetches[n].ended # Absent
    BY <1>1 DEF FetchInv, Stale
  <2> QED BY <2>1, <1>1, <1>2, <1>4 DEF Stale
<1>7. FetchesExplained'
  <2> SUFFICES ASSUME NEW f \in 1..n, f > 1
               PROVE  /\ fetches'[f - 1].ended # Absent
                      /\ fetches'[f - 1].refusals > 0 \/ fetches'[f].started >= fetches'[f - 1].expires
    BY <1>4 DEF FetchesExplained
  <2>1. f - 1 \in 1..n
    BY <1>1
  <2>2. fetches[f - 1].ended # Absent
    BY <2>1, <1>1 DEF FetchInv, FetchesExplained
  <2> QED BY <2>1, <2>2, <1>2, <1>4
<1> QED BY <1>1, <1>4, <1>5, <1>6, <1>7 DEF FetchInv, TokensRefused, SendingAssumption

LEMMA FetchStep == ASSUME FetchInv, [SendNext]_sendVars PROVE FetchInv'
<1> USE DEF authVars
<1>1. ASSUME NEW w \in Workers,
             Take(w) \/ Wake(w) \/ Pass(w) \/ Acquire(w) \/ SendNothing(w) \/ Publish(w) \/ Refused(w)
      PROVE  FetchRests
  BY <1>1 DEF Take, Wake, Pass, Acquire, SendNothing, Publish, Refused, FetchRests
<1>2. ASSUME NEW w \in Workers, Authenticate(w) PROVE FetchRests \/ FetchStarts
  BY <1>2 DEF Authenticate, Joins, FetchRests, FetchStarts
<1>3. ASSUME NEW w \in Workers, NEW a, Answer(w, a) PROVE FetchRests \/ TokensRefused
  BY <1>3 DEF Answer, Accepted, Declined, Unanswered, FetchRests, TokensRefused
<1>4. ASSUME NEW ttl \in TokenTtls, TokenArrives(ttl)
      PROVE  \E e \in Int : FetchEnds(e)
  <2>1. now + Lifetime(ttl) \in Int
    <3> DEFINE span == (IF ttl = Absent THEN DefaultTtl ELSE ttl) - ExpirySkew
    <3>1. span \in Int /\ TicksPerSecond \in Nat /\ now \in Nat
      BY DEF FetchInv, SendingAssumption
    <3>2. Larger(1, span) \in Int
      BY <3>1 DEF Larger
    <3> QED BY <3>1, <3>2 DEF Lifetime
  <2>2. FetchEnds(now + Lifetime(ttl))
    BY <1>4 DEF TokenArrives, FetchEnds
  <2> QED BY <2>1, <2>2
<1>5. ASSUME TokenFails PROVE \E e \in Int : FetchEnds(e)
  <2>1. FetchEnds(now) /\ now \in Int
    BY <1>5 DEF TokenFails, FetchEnds, FetchInv
  <2> QED BY <2>1
<1>6. ASSUME ClockTicks \/ UNCHANGED sendVars PROVE FetchRests
  BY <1>6 DEF ClockTicks, sendVars, FetchRests
<1> QED BY <1>1, <1>2, <1>3, <1>4, <1>5, <1>6, RestingKeepsFetch, StartingKeepsFetch,
           EndingKeepsFetch, RefusingKeepsFetch DEF SendNext

\* However the refreshes and the 401s of many slots interleave, the token
\* endpoint is never asked while an answer of it is awaited, and asked again only
\* when the last token was refused, had expired or never came (auth.ts:142-158).
THEOREM FetchesExplainedHolds == SendingAssumption /\ SendSpec => []FetchesExplained
<1>1. FetchInv => FetchesExplained
  BY DEF FetchInv
<1> QED BY InitFetch, FetchStep, <1>1, PTL DEF SendSpec

-----------------------------------------------------------------------------
(* Sending: the ring of dead letters *)

\* The numbered letters sit at their number modulo the capacity; the newest ones
\* are there, as many as fit.
RingInv ==
  /\ LetterCapacity \in Nat \ {0}
  /\ letters \in Seq({e.id : e \in Events})
  /\ ringAt = Len(letters) % LetterCapacity
  /\ ringCount = Smaller(LetterCapacity, Len(letters))
  /\ \A k \in 1..Len(letters) :
       k + LetterCapacity > Len(letters) => ring[(k - 1) % LetterCapacity] = letters[k]

\* A position moved on by some steps, or back by at most a round.
LEMMA SlotMoves ==
  ASSUME NEW w \in Nat \ {0}, NEW a \in Nat, NEW d \in Nat
  PROVE  /\ ((a % w) + d) % w = (a + d) % w
         /\ d <= a /\ d <= w => ((a % w) - d + w) % w = (a - d) % w
<1> DEFINE q == a \div w
           m == a % w
<1>1. q \in Nat /\ m \in 0..(w - 1) /\ a = w * q + m
  BY SMTT(60)
<1> HIDE DEF q, m
<1>2. ASSUME NEW b \in Int, NEW c \in Int, NEW k \in Int, b = c + w * k
      PROVE  b % w = c % w
  <2> DEFINE x == b \div w
             u == b % w
             y == c \div w
             v == c % w
  <2>1. /\ x \in Int /\ u \in 0..(w - 1) /\ b = w * x + u
        /\ y \in Int /\ v \in 0..(w - 1) /\ c = w * y + v
    BY SMTT(60)
  <2> HIDE DEF x, u, y, v
  <2>2. u - v = w * (y + k - x)
    BY <1>2, <2>1, SMTT(60)
  <2> DEFINE z == y + k - x
  <2>3. z \in Int
    BY <2>1
  <2> HIDE DEF z
  <2>4. CASE z = 0
    BY <2>1, <2>2, <2>4, SMTT(60) DEF u, v, z
  <2>5. CASE z >= 1
    <3>1. w * z >= w
      BY <2>3, <2>5, SMTT(60)
    <3>. QED
      BY <2>1, <2>2, <3>1 DEF z
  <2>6. CASE z <= -1
    <3>1. w * z <= -w
      BY <2>3, <2>6, SMTT(60)
    <3>. QED
      BY <2>1, <2>2, <3>1 DEF z
  <2>. QED
    BY <2>3, <2>4, <2>5, <2>6
<1>3. (m + d) % w = (a + d) % w
  <2>1. a + d = (m + d) + w * q
    BY <1>1
  <2>2. a + d \in Int /\ m + d \in Int /\ q \in Int
    BY <1>1
  <2>. QED
    BY <1>2, <2>1, <2>2
<1>4. ASSUME d <= a, d <= w
      PROVE  (m - d + w) % w = (a - d) % w
  <2>1. m - d + w = (a - d) + w * (1 - q)
    BY <1>1, SMTT(60)
  <2>2. m - d + w \in Int /\ a - d \in Int /\ 1 - q \in Int
    BY <1>1
  <2>. QED
    BY <1>2, <2>1, <2>2
<1>. QED
  BY <1>3, <1>4 DEF m

\* add() of several letters: each ends up at its number, unless a later one takes its place.
LEMMA AddingKeepsRing ==
  ASSUME RingInv, NEW es \in Seq(Events), AddLetters(es)
  PROVE  RingInv'
<1> DEFINE C == LetterCapacity
           L == Len(letters)
           n == Len(es)
           Ids == {e.id : e \in Events}
           more == [i \in DOMAIN es |-> es[i].id]
           mine(s) == {i \in 1..n : (ringAt + i - 1) % C = s}
<1>1. /\ C \in Nat \ {0} /\ L \in Nat /\ n \in Nat /\ letters \in Seq(Ids)
      /\ ringAt = L % C /\ ringCount = Smaller(C, L)
      /\ \A k \in 1..L : k + C > L => ring[(k - 1) % C] = letters[k]
  BY DEF RingInv
<1>2. /\ ring' = [s \in 0..(C - 1) |->
                    IF mine(s) = {} THEN ring[s]
                    ELSE es[CHOOSE i \in mine(s) : \A k \in mine(s) : k <= i].id]
      /\ ringAt' = (ringAt + n) % C
      /\ ringCount' = Smaller(C, ringCount + n)
      /\ letters' = letters \o more
  BY DEF AddLetters
<1>3. more \in Seq(Ids) /\ Len(more) = n /\ \A i \in 1..n : more[i] = es[i].id
  OBVIOUS
<1>4. /\ letters' \in Seq(Ids) /\ Len(letters') = L + n
      /\ \A k \in 1..L : letters'[k] = letters[k]
      /\ \A i \in 1..n : letters'[L + i] = es[i].id
  <2>1. letters' = letters \o more /\ more \in Seq(Ids) /\ letters \in Seq(Ids)
    BY <1>1, <1>2, <1>3
  <2> HIDE DEF more, Ids
  <2>2. letters \o more \in Seq(Ids)
    BY <2>1
  <2>3. /\ Len(letters \o more) = L + n
        /\ \A i \in 1..(L + n) :
             (letters \o more)[i] = IF i <= L THEN letters[i] ELSE more[i - L]
    BY <1>3, <2>1, ConcatElements
  <2> HIDE DEF L, n
  <2>4. \A k \in 1..L : letters'[k] = letters[k]
    BY <1>1, <2>1, <2>3
  <2>5. \A i \in 1..n : letters'[L + i] = more[i]
    <3> TAKE i \in 1..n
    <3> DEFINE j == L + i
    <3>2. j \in 1..(L + n) /\ ~(j <= L) /\ j - L = i
      BY <1>1
    <3> HIDE DEF j
    <3>3. (letters \o more)[j] = more[i]
      BY <2>3, <3>2
    <3>. QED
      BY <2>1, <3>3 DEF j
  <2>. QED
    BY <1>3, <2>1, <2>2, <2>3, <2>4, <2>5
<1> HIDE DEF C, L, n, more, Ids
<1>5. \A i \in 1..n : (ringAt + i - 1) % C = (L + i - 1) % C
  <2> TAKE i \in 1..n
  <2> DEFINE m == L % C
             d == i - 1
  <2>1. m \in 0..(C - 1)
    BY <1>1, SlotExists
  <2>2. d \in Nat
    BY <1>1
  <2>3. (m + d) % C = (L + d) % C
    BY <1>1, <2>2, SlotMoves
  <2> HIDE DEF m
  <2>4. m + d = m + i - 1 /\ L + d = L + i - 1
    BY <1>1, <2>1
  <2>. QED
    BY <1>1, <2>3, <2>4 DEF m
<1>6. ASSUME NEW k \in 1..(L + n), k + C > L + n
      PROVE  ring'[(k - 1) % C] = letters'[k]
  <2> DEFINE s == (k - 1) % C
  <2>0. k - 1 \in Nat
    BY <1>1
  <2>1. s \in 0..(C - 1) /\ k - 1 \in Nat
    BY <1>1, <2>0, SlotExists
  <2>2. \A i \in 1..n : L + i - 1 \in Nat /\ L + i - 1 < (k - 1) + C
    BY <1>1, <1>6
  <2>3. CASE k > L
    <3> DEFINE i == k - L
    <3>1. i \in 1..n /\ k - 1 = L + i - 1
      BY <1>1, <2>3
    <3>2. i \in mine(s)
      BY <1>5, <3>1
    <3>3. \A j \in mine(s) : j <= i
      <4>0. i \in Int /\ \A j \in mine(s) : j \in Int
        BY <3>1
      <4> HIDE DEF mine, i
      <4> SUFFICES ASSUME NEW j \in mine(s), j > i PROVE FALSE
        BY <4>0
      <4> USE DEF mine, i
      <4>1. (L + j - 1) % C = (k - 1) % C
        BY <1>5
      <4>2. k - 1 < L + j - 1
        BY <1>1, <3>1
      <4>. QED
        BY <1>1, <2>1, <2>2, <4>1, <4>2, SlotsApart
    <3> HIDE DEF i, s
    <3>4. \A j \in mine(s) : j \in 1..n
      OBVIOUS
    <3>5. (CHOOSE j \in mine(s) : \A x \in mine(s) : x <= j) = i
      <4> DEFINE c == CHOOSE j \in mine(s) : \A x \in mine(s) : x <= j
      <4>1. c \in mine(s) /\ \A x \in mine(s) : x <= c
        BY <3>2, <3>3
      <4> HIDE DEF c
      <4>2. c <= i /\ i <= c /\ c \in 1..n
        BY <3>2, <3>3, <3>4, <4>1
      <4>3. c = i
        BY <1>1, <3>1, <4>2
      <4>. QED
        BY <4>3 DEF c
    <3>6. ring'[s] = es[i].id
      <4> HIDE DEF mine
      <4>. QED
        BY <1>2, <2>1, <3>2, <3>5
    <3>7. k = L + i
      BY <1>1, <3>1 DEF i
    <3>. QED
      BY <1>4, <3>1, <3>6, <3>7 DEF s
  <2>4. CASE k <= L
    <3>1. mine(s) = {}
      <4> SUFFICES ASSUME NEW i \in mine(s) PROVE FALSE
        OBVIOUS
      <4>1. (L + i - 1) % C = (k - 1) % C /\ i \in 1..n
        BY <1>5
      <4>2. k - 1 < L + i - 1
        BY <1>1, <2>4, <4>1
      <4>. QED
        BY <1>1, <2>1, <2>2, <4>1, <4>2, SlotsApart
    <3>2. ring'[s] = ring[s]
      BY <1>2, <2>1, <3>1
    <3>3. k \in 1..L /\ k + C > L
      BY <1>1, <1>6, <2>4
    <3>. QED
      BY <1>1, <1>4, <3>2, <3>3
  <2>. QED
    BY <1>1, <2>3, <2>4
<1>7. ringAt' = (L + n) % C
  BY <1>1, <1>2, SlotMoves
<1>8. ringCount' = Smaller(C, L + n)
  BY <1>1, <1>2 DEF Smaller
<1>. QED
  BY <1>1, <1>4, <1>6, <1>7, <1>8 DEF RingInv, C, Ids

\* What the ring lists are the newest letters, newest first.
LEMMA RingTells == RingInv => LettersKept
<1> SUFFICES ASSUME RingInv PROVE LettersKept
  OBVIOUS
<1> DEFINE C == LetterCapacity
           L == Len(letters)
<1>1. /\ C \in Nat \ {0} /\ L \in Nat /\ ringAt = L % C
      /\ ringCount = Smaller(L, C)
      /\ \A k \in 1..L : k + C > L => ring[(k - 1) % C] = letters[k]
  <2>1. /\ C \in Nat \ {0} /\ L \in Nat /\ ringAt = L % C /\ ringCount = Smaller(C, L)
        /\ \A k \in 1..L : k + C > L => ring[(k - 1) % C] = letters[k]
    BY DEF RingInv
  <2> HIDE DEF C, L
  <2>2. Smaller(C, L) = Smaller(L, C)
    BY <2>1 DEF Smaller
  <2>. QED
    BY <2>1, <2>2
<1> HIDE DEF C, L
<1>2. ASSUME NEW i \in 1..ringCount
      PROVE  ring[(ringAt - i + C) % C] = letters[L - i + 1]
  <2>1. i \in Nat /\ i <= L /\ i <= C
    BY <1>1 DEF Smaller
  <2>2. (ringAt - i + C) % C = (L - i) % C
    BY <1>1, <2>1, SlotMoves
  <2> DEFINE k == L - i + 1
  <2>3. k \in 1..L /\ k + C > L /\ k - 1 = L - i
    BY <1>1, <1>2, <2>1
  <2>. QED
    BY <1>1, <2>2, <2>3
<1>3. List = [i \in 1..ringCount |-> ring[(ringAt - i + C) % C]]
  BY DEF List, C
<1>. QED
  BY <1>1, <1>2, <1>3 DEF LettersKept, C, L

-----------------------------------------------------------------------------
(* Sending: which requests a job has made, and who holds which event *)

Places == {"idle", "pass", "acquire", "send", "starved", "asleep", "token", "wire", "refused"}

\* An attempt was begun whose request is not answered yet.
Calling == {"send", "token", "wire", "refused"}

\* The requests of a list that carried an event.
Numbered(list, id) == {i \in DOMAIN list : \E e \in list[i].events : e.id = id}

SlotTypes ==
  /\ target \in Targets /\ pending \in Seq(Events)
  /\ pc \in [Workers -> Places] /\ job \in [Workers -> Seq(Events)] /\ attempt \in [Workers -> Nat]
  /\ sent \in Seq(Range(sent))

\* An event waits, is worked on by one slot or has its result, and never twice.
Apart ==
  /\ IsInjective(pending)
  /\ \A e \in Range(pending) : /\ e.id \notin DOMAIN results /\ Numbered(sent, e.id) = {}
                               /\ \A w \in Workers : e \notin Range(job[w])
  /\ \A w \in Workers : \A e \in Range(job[w]) : e.id \notin DOMAIN results
  /\ \A v, w \in Workers : v # w => Range(job[v]) \cap Range(job[w]) = {}

\* The attempts of a job cover its requests, which repeat its key.
MadeBy(place, n) == IF place \in Calling THEN n - 1 ELSE n
Tries(place, n) ==
  IF place \in Calling THEN n \in 1..(target.maxRetries + 1) ELSE n \in 0..target.maxRetries
JobHolds(place, es, n, list) ==
  /\ IF place = "idle" THEN es = <<>> /\ n = 0 ELSE es # <<>>
  /\ Tries(place, n)
  /\ place \in {"token", "wire"} => Wired(es) # <<>>
  /\ Len(es) <= JobSize
  /\ \A e \in Range(es) :
       /\ Cardinality(Numbered(list, e.id)) <= MadeBy(place, n)
       /\ \A i \in Numbered(list, e.id) : list[i].key = KeyOf(es)
JobSound(w) == JobHolds(pc[w], job[w], attempt[w], sent)

\* What a result says of the requests that carried its event.
Told(list, r, e) ==
  /\ r.outcome = "delivered" =>
       (\E i \in Numbered(list, e.id) : list[i].status \in 200..299) \/ Wired(<<e>>) = <<>>
  /\ r.outcome = "failed" =>
       \/ r.attempts = target.maxRetries + 1
       \/ \E i \in DOMAIN list :
            /\ e \in list[i].job
            /\ list[i].status # Absent /\ list[i].status \notin Retryable \cup (200..299)
  /\ Cardinality(Numbered(list, e.id)) <= r.attempts
  /\ \A i, j \in Numbered(list, e.id) : list[i].key = list[j].key
ResultsTell ==
  /\ DOMAIN results \subseteq {e.id : e \in Events}
  /\ \A e \in Events : e.id \in DOMAIN results => Told(sent, results[e.id], e)

SentInv ==
  /\ TargetsAssumption /\ SendingAssumption
  /\ SlotTypes /\ Apart /\ (\A w \in Workers : JobSound(w)) /\ ResultsTell

LEMMA ResultsHold == SentInv => DeliveredMeansAccepted
<1> SUFFICES ASSUME SentInv, NEW id \in DOMAIN results
             PROVE  LET mine == Carrying(id)
                        e == CHOOSE x \in Events : x.id = id
                    IN /\ results[id].outcome = "delivered" =>
                            (\E i \in mine : sent[i].status \in 200..299) \/ Wired(<<e>>) = <<>>
                       /\ results[id].outcome = "failed" =>
                            \/ results[id].attempts = target.maxRetries + 1
                            \/ \E i \in DOMAIN sent :
                                 /\ e \in sent[i].job
                                 /\ sent[i].status # Absent /\ sent[i].status \notin Retryable \cup (200..299)
                       /\ Cardinality(mine) <= results[id].attempts
                       /\ \A i, j \in mine : sent[i].key = sent[j].key
  BY DEF DeliveredMeansAccepted
<1> DEFINE e == CHOOSE x \in Events : x.id = id
<1>1. \E x \in Events : x.id = id
  BY DEF SentInv, ResultsTell
<1>2. e \in Events /\ e.id = id
  BY <1>1
<1> HIDE DEF e
<1>3. Told(sent, results[id], e)
  BY <1>2 DEF SentInv, ResultsTell
<1>4. Carrying(id) = Numbered(sent, id)
  BY DEF Carrying, Numbered
<1>5. /\ results[id].outcome = "delivered" =>
           (\E i \in Carrying(id) : sent[i].status \in 200..299) \/ Wired(<<e>>) = <<>>
      /\ results[id].outcome = "failed" =>
           \/ results[id].attempts = target.maxRetries + 1
           \/ \E i \in DOMAIN sent :
                /\ e \in sent[i].job
                /\ sent[i].status # Absent /\ sent[i].status \notin Retryable \cup (200..299)
      /\ Cardinality(Carrying(id)) <= results[id].attempts
      /\ \A i, j \in Carrying(id) : sent[i].key = sent[j].key
  BY <1>2, <1>3, <1>4 DEF Told
<1>. QED
  BY <1>5, Zenon DEF e

\* What goes over the wire for a job is of the job; an event left out has nothing to send.
LEMMA WiredTells ==
  ASSUME NEW es \in Seq(Events)
  PROVE  /\ Wired(es) \in Seq(Events) /\ Range(Wired(es)) \subseteq Range(es)
         /\ \A e \in Range(es) : e \notin Range(Wired(es)) => Wired(<<e>>) = <<>>
<1>1. CASE target.kind # "scim"
  BY <1>1 DEF Wired
<1>2. CASE target.kind = "scim"
  <2>1. /\ Wired(es) \in Seq(Events)
        /\ ToSet(Wired(es)) = ToSet(es) \cap Called
    BY <1>2, SelectedElements DEF Wired
  <2>2. Range(Wired(es)) = Range(es) \cap Called
    BY <2>1 DEF ToSet, Range
  <2>3. ASSUME NEW e \in Range(es), e \notin Called
        PROVE  Wired(<<e>>) = <<>>
    <3> DEFINE one == <<e>>
    <3>1. e \in Events
      BY DEF Range
    <3>2. one \in Seq(Events) /\ ToSet(one) = {e}
      BY <3>1 DEF ToSet
    <3> HIDE DEF one
    <3>3. /\ Selected(one, Called) \in Seq(Events)
          /\ ToSet(Selected(one, Called)) = ToSet(one) \cap Called
      BY <3>2, SelectedElements
    <3>4. Range(Selected(one, Called)) = {}
      BY <2>3, <3>2, <3>3 DEF ToSet, Range
    <3>5. Selected(one, Called) = <<>>
      BY <3>3, <3>4, EmptyRange
    <3>. QED
      BY <1>2, <3>5 DEF Wired, one
  <2>. QED
    BY <2>1, <2>2, <2>3
<1>. QED
  BY <1>1, <1>2

\* The targets' settings are numbers, and events are told apart by their ids.
LEMMA SettingsCount ==
  ASSUME SentInv
  PROVE  /\ target.maxRetries \in Nat /\ target.batchSize \in Nat \ {0} /\ JobSize \in Nat \ {0}
         /\ \A e, f \in Events : e.id = f.id => e = f
         /\ \A w \in Workers : /\ pc[w] \in Places /\ attempt[w] \in Nat
                               /\ job[w] \in Seq(Events) /\ Range(job[w]) \subseteq Events
         /\ Range(pending) \subseteq Events
<1>1. target.maxRetries \in Nat /\ target.batchSize \in Nat \ {0}
  BY DEF SentInv, SlotTypes, TargetsAssumption
<1>2. JobSize \in Nat \ {0}
  BY <1>1 DEF JobSize
<1>3. \A e, f \in Events : e.id = f.id => e = f
  BY DEF SentInv, SendingAssumption
<1>4. /\ \A w \in Workers : /\ pc[w] \in Places /\ attempt[w] \in Nat
                            /\ job[w] \in Seq(Events) /\ Range(job[w]) \subseteq Events
      /\ Range(pending) \subseteq Events
  BY DEF SentInv, SlotTypes, Range
<1>. QED
  BY <1>1, <1>2, <1>3, <1>4

-----------------------------------------------------------------------------
(* Sending: the requests after one more *)

\* The requests there are now are kept; those of other events are the same, those
\* of the job are no more than its attempts and repeat its key.
SentOn(w) ==
  /\ sent' \in Seq(Range(sent'))
  /\ DOMAIN sent \subseteq DOMAIN sent' /\ \A i \in DOMAIN sent : sent'[i] = sent[i]
  /\ \A e \in Events : e \notin Range(job[w]) => Numbered(sent', e.id) = Numbered(sent, e.id)
  /\ \A e \in Range(job[w]) :
       /\ Cardinality(Numbered(sent', e.id)) <= attempt[w]
       /\ \A i \in Numbered(sent', e.id) : sent'[i].key = KeyOf(job[w])

\* The requests that carried an event are counted.
LEMMA RequestsCount ==
  ASSUME SentInv, NEW id
  PROVE  IsFiniteSet(Numbered(sent, id)) /\ Cardinality(Numbered(sent, id)) \in Nat
<1> DEFINE n == Len(sent)
<1>1. n \in Nat /\ DOMAIN sent = 1..n
  BY DEF SentInv, SlotTypes
<1> HIDE DEF n
<1>2. 1 \in Int /\ n \in Int
  BY <1>1
<1>3. IsFiniteSet(1..n)
  BY <1>2, FS_Interval
<1>4. Numbered(sent, id) \in SUBSET (1..n)
  BY <1>1 DEF Numbered
<1>. QED
  BY <1>3, <1>4, FS_Subset, FS_CardinalityType

\* Without a request the job's attempts cover what there is.
LEMMA UnsentTells ==
  ASSUME SentInv, NEW w \in Workers, sent' = sent
  PROVE  SentOn(w)
<1>1. \A e \in Range(job[w]) :
        /\ Cardinality(Numbered(sent, e.id)) <= attempt[w]
        /\ \A i \in Numbered(sent, e.id) : sent[i].key = KeyOf(job[w])
  <2> TAKE e \in Range(job[w])
  <2>1. /\ Cardinality(Numbered(sent, e.id)) <= MadeBy(pc[w], attempt[w])
        /\ \A i \in Numbered(sent, e.id) : sent[i].key = KeyOf(job[w])
    BY DEF SentInv, JobSound, JobHolds
  <2>2. Cardinality(Numbered(sent, e.id)) \in Nat
    BY RequestsCount
  <2>3. attempt[w] \in Nat
    BY SettingsCount
  <2>. QED
    BY <2>1, <2>2, <2>3 DEF MadeBy
<1>2. sent \in Seq(Range(sent))
  BY DEF SentInv, SlotTypes
<1>. QED
  BY <1>1, <1>2 DEF SentOn

\* A request is one more of the wired events of its job, under the job's key.
LEMMA AskedTells ==
  ASSUME SentInv, NEW w \in Workers, pc[w] \in Calling, NEW status, NEW tells,
         sent' = Append(sent, Request(w, status, tells))
  PROVE  /\ SentOn(w)
         /\ \E n \in DOMAIN sent' :
              /\ sent'[n].job = Range(job[w]) /\ sent'[n].status = status
              /\ \A e \in Range(Wired(job[w])) : n \in Numbered(sent', e.id)
<1> DEFINE x == Request(w, status, tells)
           n == Len(sent) + 1
           W == Range(Wired(job[w]))
<1>1. /\ x.job = Range(job[w]) /\ x.events = W /\ x.key = KeyOf(job[w]) /\ x.status = status
  BY DEF Request
<1>2. W \subseteq Range(job[w]) /\ Range(job[w]) \subseteq Events
  BY SettingsCount, WiredTells
<1> HIDE DEF x, W
<1>3. /\ Len(sent) \in Nat /\ DOMAIN sent = 1..Len(sent) /\ sent' = Append(sent, x)
      /\ DOMAIN sent' = 1..n /\ sent'[n] = x /\ \A i \in DOMAIN sent : sent'[i] = sent[i]
      /\ sent' \in Seq(Range(sent'))
  <2>1. sent \in Seq(Range(sent)) /\ sent' = Append(sent, x)
    BY DEF SentInv, SlotTypes, x
  <2>2. /\ Len(sent) \in Nat /\ DOMAIN sent = 1..Len(sent)
        /\ DOMAIN sent' = 1..n /\ sent'[n] = x /\ \A i \in DOMAIN sent : sent'[i] = sent[i]
        /\ sent' \in Seq(Range(sent) \cup {x})
    BY <2>1
  <2>3. Range(sent') = Range(sent) \cup {x}
    <3>1. \A i \in 1..n : i \in 1..Len(sent) \/ i = n
      BY <2>2
    <3>. QED
      BY <2>2, <3>1 DEF Range
  <2>. QED
    BY <2>1, <2>2, <2>3
<1>4. n \in DOMAIN sent' /\ n \notin DOMAIN sent /\ DOMAIN sent' = DOMAIN sent \cup {n}
  BY <1>3
<1> HIDE DEF n
<1>5. ASSUME NEW e \in Events
      PROVE  Numbered(sent', e.id) = Numbered(sent, e.id) \cup (IF e \in W THEN {n} ELSE {})
  <2>1. (\E f \in x.events : f.id = e.id) <=> e \in W
    BY <1>1, <1>2, SettingsCount
  <2>. QED
    BY <1>3, <1>4, <2>1 DEF Numbered
<1>6. ASSUME NEW e \in Range(job[w])
      PROVE  /\ Cardinality(Numbered(sent', e.id)) <= attempt[w]
             /\ \A i \in Numbered(sent', e.id) : sent'[i].key = KeyOf(job[w])
  <2>1. /\ Cardinality(Numbered(sent, e.id)) <= attempt[w] - 1
        /\ \A i \in Numbered(sent, e.id) : sent[i].key = KeyOf(job[w])
    BY DEF SentInv, JobSound, JobHolds, MadeBy
  <2>2. /\ IsFiniteSet(Numbered(sent, e.id)) /\ Cardinality(Numbered(sent, e.id)) \in Nat
        /\ n \notin Numbered(sent, e.id)
    BY <1>4, RequestsCount DEF Numbered
  <2>3. Cardinality(Numbered(sent, e.id) \cup {n}) = Cardinality(Numbered(sent, e.id)) + 1
    BY <2>2, FS_AddElement
  <2>4. attempt[w] \in Nat
    BY SettingsCount
  <2>5. \/ Numbered(sent', e.id) = Numbered(sent, e.id)
        \/ Numbered(sent', e.id) = Numbered(sent, e.id) \cup {n}
    BY <1>2, <1>5
  <2>6. Cardinality(Numbered(sent', e.id)) <= attempt[w]
    <3> DEFINE c == Cardinality(Numbered(sent, e.id))
    <3>1. c \in Nat /\ c <= attempt[w] - 1
      BY <2>1, <2>2
    <3>2. Cardinality(Numbered(sent', e.id)) = c \/ Cardinality(Numbered(sent', e.id)) = c + 1
      BY <2>3, <2>5
    <3> HIDE DEF c
    <3>. QED
      BY <2>4, <3>1, <3>2
  <2>7. \A i \in Numbered(sent, e.id) : i \in DOMAIN sent
    BY DEF Numbered
  <2>. QED
    BY <1>1, <1>3, <2>1, <2>5, <2>6, <2>7
<1>7. SentOn(w)
  BY <1>2, <1>3, <1>4, <1>5, <1>6 DEF SentOn
<1>8. \A e \in W : n \in Numbered(sent', e.id)
  BY <1>2, <1>5
<1>. QED
  BY <1>1, <1>3, <1>4, <1>7, <1>8 DEF W

-----------------------------------------------------------------------------
(* Sending: each step keeps the requests and the results in order *)

\* The target's settings never change.
LEMMA SameTarget ==
  ASSUME target' = target, SlotTypes', Apart',
         \A w \in Workers : JobHolds(pc'[w], job'[w], attempt'[w], sent'),
         DOMAIN results' \subseteq {e.id : e \in Events},
         \A e \in Events : e.id \in DOMAIN results' => Told(sent', results'[e.id], e),
         SentInv
  PROVE  SentInv'
<1>1. ASSUME NEW w \in Workers PROVE JobSound(w)'
  <2>1. Wired(job[w])' = Wired(job'[w])
    BY DEF Wired
  <2>2. KeyOf(job[w])' = KeyOf(job'[w])
    BY DEF KeyOf, Bulk, Batches
  <2>3. Tries(pc[w], attempt[w])' <=> Tries(pc'[w], attempt'[w])
    BY DEF Tries
  <2>4. JobSize' = JobSize
    BY DEF JobSize, Batches
  <2>5. JobHolds(pc'[w], job'[w], attempt'[w], sent')
    OBVIOUS
  <2>. QED
    BY <2>1, <2>2, <2>3, <2>4, <2>5 DEF JobSound, JobHolds, MadeBy, Numbered
<1>2. ResultsTell'
  BY DEF ResultsTell, Told, Wired, Numbered
<1>3. TargetsAssumption /\ SendingAssumption
  BY DEF SentInv
<1>. QED
  BY <1>1, <1>2, <1>3 DEF SentInv

\* What one slot asked leaves the other slots' jobs, the results and the queue alone.
LEMMA OthersKept ==
  ASSUME SentInv, NEW w \in Workers, SentOn(w)
  PROVE  /\ \A v \in Workers \ {w} : JobHolds(pc[v], job[v], attempt[v], sent')
         /\ \A e \in Events : e.id \in DOMAIN results => Told(sent', results[e.id], e)
         /\ \A e \in Range(pending) : Numbered(sent', e.id) = {}
<1>1. ASSUME NEW e \in Events, e \notin Range(job[w])
      PROVE  /\ Numbered(sent', e.id) = Numbered(sent, e.id)
             /\ \A i \in Numbered(sent', e.id) : i \in DOMAIN sent /\ sent'[i] = sent[i]
  BY <1>1 DEF SentOn, Numbered
<1>2. ASSUME NEW v \in Workers \ {w}
      PROVE  JobHolds(pc[v], job[v], attempt[v], sent')
  <2>1. JobHolds(pc[v], job[v], attempt[v], sent)
    BY DEF SentInv, JobSound
  <2>2. \A e \in Range(job[v]) : e \in Events /\ e \notin Range(job[w])
    BY SettingsCount DEF SentInv, Apart
  <2>3. \A e \in Range(job[v]) :
          /\ Cardinality(Numbered(sent', e.id)) <= MadeBy(pc[v], attempt[v])
          /\ \A i \in Numbered(sent', e.id) : sent'[i].key = KeyOf(job[v])
    BY <1>1, <2>1, <2>2 DEF JobHolds
  <2>. QED
    BY <2>1, <2>3 DEF JobHolds
<1>3. ASSUME NEW e \in Events, e.id \in DOMAIN results
      PROVE  Told(sent', results[e.id], e)
  <2>1. Told(sent, results[e.id], e)
    BY <1>3 DEF SentInv, ResultsTell
  <2>2. e \notin Range(job[w])
    BY <1>3 DEF SentInv, Apart
  <2>3. \A i \in DOMAIN sent : i \in DOMAIN sent' /\ sent'[i] = sent[i]
    BY DEF SentOn
  <2>4. /\ Numbered(sent', e.id) = Numbered(sent, e.id)
        /\ \A i \in Numbered(sent', e.id) : i \in DOMAIN sent /\ sent'[i] = sent[i]
    BY <1>1, <2>2
  <2> DEFINE r == results[e.id]
             final(a) == a # Absent /\ a \notin Retryable \cup (200..299)
  <2> HIDE DEF r, final
  <2>5. /\ r.outcome = "delivered" =>
             (\E i \in Numbered(sent, e.id) : sent[i].status \in 200..299) \/ Wired(<<e>>) = <<>>
        /\ r.outcome = "failed" =>
             \/ r.attempts = target.maxRetries + 1
             \/ \E i \in DOMAIN sent : e \in sent[i].job /\ final(sent[i].status)
        /\ Cardinality(Numbered(sent, e.id)) <= r.attempts
        /\ \A i, j \in Numbered(sent, e.id) : sent[i].key = sent[j].key
    BY <2>1 DEF Told, r, final
  <2>6. /\ r.outcome = "delivered" =>
             (\E i \in Numbered(sent', e.id) : sent'[i].status \in 200..299) \/ Wired(<<e>>) = <<>>
        /\ Cardinality(Numbered(sent', e.id)) <= r.attempts
        /\ \A i, j \in Numbered(sent', e.id) : sent'[i].key = sent'[j].key
    BY <2>4, <2>5
  <2>7. r.outcome = "failed" =>
             \/ r.attempts = target.maxRetries + 1
             \/ \E i \in DOMAIN sent' : e \in sent'[i].job /\ final(sent'[i].status)
    BY <2>3, <2>5
  <2>. QED
    BY <2>6, <2>7 DEF Told, r, final
<1>4. ASSUME NEW e \in Range(pending)
      PROVE  Numbered(sent', e.id) = {}
  <2>1. e \in Events /\ e \notin Range(job[w]) /\ Numbered(sent, e.id) = {}
    BY SettingsCount DEF SentInv, Apart
  <2>. QED
    BY <1>1, <2>1
<1>. QED
  BY <1>2, <1>3, <1>4

\* Slots move while requests and results stay.
LEMMA MovingKeepsSent ==
  ASSUME SentInv, UNCHANGED <<target, pending, job, sent, results>>,
         pc' \in [Workers -> Places], attempt' \in [Workers -> Nat],
         \A w \in Workers : JobHolds(pc'[w], job[w], attempt'[w], sent)
  PROVE  SentInv'
<1>1. SlotTypes'
  BY DEF SentInv, SlotTypes
<1>2. Apart'
  BY DEF SentInv, Apart, Numbered
<1>3. \A e \in Events : e.id \in DOMAIN results' => Told(sent', results'[e.id], e)
  BY DEF SentInv, ResultsTell
<1>4. DOMAIN results' \subseteq {e.id : e \in Events}
  BY DEF SentInv, ResultsTell
<1>. QED
  BY <1>1, <1>2, <1>3, <1>4, SameTarget

\* One slot moves to a place, with so many attempts.
LEMMA SlotMovesOn ==
  ASSUME SentInv, UNCHANGED <<target, pending, job, sent, results>>,
         NEW w \in Workers, NEW place \in Places, NEW n \in Nat,
         pc' = [pc EXCEPT ![w] = place], attempt' = [attempt EXCEPT ![w] = n],
         JobHolds(place, job[w], n, sent)
  PROVE  SentInv'
<1>1. pc \in [Workers -> Places] /\ attempt \in [Workers -> Nat]
  BY DEF SentInv, SlotTypes
<1>2. pc' \in [Workers -> Places] /\ attempt' \in [Workers -> Nat]
  BY <1>1
<1>3. \A v \in Workers : JobHolds(pc'[v], job[v], attempt'[v], sent)
  <2> TAKE v \in Workers
  <2>1. CASE v = w
    BY <1>1, <2>1
  <2>2. CASE v # w
    BY <1>1, <2>2 DEF SentInv, JobSound
  <2>. QED
    BY <2>1, <2>2
<1>. QED
  BY <1>2, <1>3, MovingKeepsSent

\* A slot that failed with attempts left waits for its next one.
LEMMA ResumingKeepsSent ==
  ASSUME SentInv, NEW w \in Workers, SentOn(w), job[w] # <<>>, pc[w] # "idle",
         attempt[w] <= target.maxRetries,
         UNCHANGED <<target, pending, job, attempt, results>>, pc' = [pc EXCEPT ![w] = "asleep"]
  PROVE  SentInv'
<1>1. /\ pc \in [Workers -> Places] /\ attempt \in [Workers -> Nat]
      /\ job \in [Workers -> Seq(Events)] /\ target.maxRetries \in Nat
  BY SettingsCount DEF SentInv, SlotTypes
<1>2. SlotTypes'
  <2>1. sent' \in Seq(Range(sent'))
    BY DEF SentOn
  <2>2. pc' \in [Workers -> Places]
    BY <1>1 DEF Places
  <2>. QED
    BY <2>1, <2>2 DEF SentInv, SlotTypes
<1>3. Apart'
  <2>1. \A e \in Range(pending) : Numbered(sent', e.id) = {}
    BY OthersKept
  <2>. QED
    BY <2>1 DEF SentInv, Apart, Numbered
<1>4. \A v \in Workers : JobHolds(pc'[v], job'[v], attempt'[v], sent')
  <2> TAKE v \in Workers
  <2>1. CASE v = w
    <3>1. JobHolds(pc[w], job[w], attempt[w], sent)
      BY DEF SentInv, JobSound
    <3>2. pc'[v] = "asleep" /\ job'[v] = job[w] /\ attempt'[v] = attempt[w]
      BY <1>1, <2>1
    <3>3. JobHolds("asleep", job[w], attempt[w], sent')
      BY <1>1, <3>1 DEF JobHolds, SentOn, MadeBy, Tries, Calling
    <3>. QED
      BY <3>2, <3>3
  <2>2. CASE v # w
    BY <1>1, <2>2, OthersKept
  <2>. QED
    BY <2>1, <2>2
<1>5. \A e \in Events : e.id \in DOMAIN results' => Told(sent', results'[e.id], e)
  BY OthersKept
<1>6. DOMAIN results' \subseteq {e.id : e \in Events}
  BY DEF SentInv, ResultsTell
<1>. QED
  BY <1>2, <1>3, <1>4, <1>5, <1>6, SameTarget

\* Why a job may end as it did.
Evidence(list, outcome, n, e) ==
  /\ outcome = "delivered" =>
       (\E i \in Numbered(list, e.id) : list[i].status \in 200..299) \/ Wired(<<e>>) = <<>>
  /\ outcome = "failed" =>
       \/ n = target.maxRetries + 1
       \/ \E i \in DOMAIN list :
            /\ e \in list[i].job
            /\ list[i].status # Absent /\ list[i].status \notin Retryable \cup (200..299)

\* finish: each event of the job gets its result, and the slot is free.
LEMMA EndingKeepsSent ==
  ASSUME SentInv, NEW w \in Workers, SentOn(w), NEW outcome, Finish(w, outcome),
         UNCHANGED <<target, pending>>,
         \A e \in Range(job[w]) : Evidence(sent', outcome, attempt[w], e)
  PROVE  SentInv'
<1> DEFINE Ids == {e.id : e \in Range(job[w])}
           r == [outcome |-> outcome, attempts |-> attempt[w]]
<1>1. /\ pc \in [Workers -> Places] /\ attempt \in [Workers -> Nat]
      /\ job \in [Workers -> Seq(Events)] /\ target.maxRetries \in Nat
      /\ \A v \in Workers : Range(job[v]) \subseteq Events
      /\ Range(pending) \subseteq Events
      /\ \A e, f \in Events : e.id = f.id => e = f
  BY SettingsCount DEF SentInv, SlotTypes
<1>2. /\ pc' = [pc EXCEPT ![w] = "idle"] /\ job' = [job EXCEPT ![w] = <<>>]
      /\ attempt' = [attempt EXCEPT ![w] = 0]
      /\ results' = [id \in DOMAIN results \cup Ids |-> IF id \in Ids THEN r ELSE results[id]]
  BY DEF Finish
<1>3. /\ DOMAIN results' = DOMAIN results \cup Ids
      /\ \A id \in DOMAIN results : id \notin Ids => results'[id] = results[id]
      /\ \A id \in Ids : results'[id] = r
  <2> HIDE DEF Ids, r
  <2>. QED
    BY <1>2
<1>4. SlotTypes'
  <2>1. sent' \in Seq(Range(sent'))
    BY DEF SentOn
  <2>2. /\ pc' \in [Workers -> Places] /\ attempt' \in [Workers -> Nat]
        /\ job' \in [Workers -> Seq(Events)]
    BY <1>1, <1>2 DEF Places
  <2>. QED
    BY <2>1, <2>2 DEF SentInv, SlotTypes
<1>5. Apart'
  <2>1. \A e \in Range(pending) : Numbered(sent', e.id) = {}
    BY OthersKept
  <2>2. Range(job'[w]) = {} /\ \A v \in Workers \ {w} : job'[v] = job[v]
    BY <1>1, <1>2 DEF Range
  <2>3. \A v \in Workers \ {w} : Range(job[v]) \cap Range(job[w]) = {}
    BY DEF SentInv, Apart
  <2>4. \A e \in Range(pending) : e.id \notin DOMAIN results'
    BY <1>1, <1>3 DEF SentInv, Apart
  <2>5. \A v \in Workers \ {w} : \A e \in Range(job[v]) : e.id \notin DOMAIN results'
    BY <1>1, <1>3, <2>3 DEF SentInv, Apart
  <2>6. IsInjective(pending')
    BY DEF SentInv, Apart
  <2>7. \A e \in Range(pending) : \A v \in Workers : e \notin Range(job'[v])
    BY <2>2 DEF SentInv, Apart
  <2>8. \A v \in Workers : \A e \in Range(job'[v]) : e.id \notin DOMAIN results'
    BY <2>2, <2>5
  <2>9. \A u, v \in Workers : u # v => Range(job'[u]) \cap Range(job'[v]) = {}
    BY <2>2 DEF SentInv, Apart
  <2>. QED
    BY <2>1, <2>4, <2>6, <2>7, <2>8, <2>9 DEF Apart, Numbered
<1>6. \A v \in Workers : JobHolds(pc'[v], job'[v], attempt'[v], sent')
  <2> TAKE v \in Workers
  <2>1. CASE v = w
    <3>1. pc'[v] = "idle" /\ job'[v] = <<>> /\ attempt'[v] = 0
      BY <1>1, <1>2, <2>1
    <3>2. Range(<<>>) = {} /\ Len(<<>>) = 0 /\ JobSize \in Nat
      BY SettingsCount DEF Range
    <3>3. JobHolds("idle", <<>>, 0, sent')
      BY <1>1, <3>2 DEF JobHolds, Tries, Calling
    <3>. QED
      BY <3>1, <3>3
  <2>2. CASE v # w
    BY <1>1, <1>2, <2>2, OthersKept
  <2>. QED
    BY <2>1, <2>2
<1>7. ASSUME NEW e \in Events, e.id \in DOMAIN results'
      PROVE  Told(sent', results'[e.id], e)
  <2>1. CASE e.id \notin Ids
    BY <1>3, <1>7, <2>1, OthersKept
  <2>2. CASE e.id \in Ids
    <3>1. e \in Range(job[w]) /\ results'[e.id] = r
      BY <1>1, <1>3, <2>2
    <3>2. /\ Cardinality(Numbered(sent', e.id)) <= attempt[w]
          /\ \A i \in Numbered(sent', e.id) : sent'[i].key = KeyOf(job[w])
      BY <3>1 DEF SentOn
    <3>3. r.outcome = outcome /\ r.attempts = attempt[w]
      OBVIOUS
    <3>4. Evidence(sent', outcome, attempt[w], e)
      BY <3>1
    <3> HIDE DEF r
    <3>5. Told(sent', r, e)
      BY <3>2, <3>3, <3>4 DEF Told, Evidence
    <3>. QED
      BY <3>1, <3>5
  <2>. QED
    BY <2>1, <2>2
<1>8. DOMAIN results' \subseteq {e.id : e \in Events}
  BY <1>1, <1>3 DEF SentInv, ResultsTell
<1>. QED
  BY <1>4, <1>5, <1>6, <1>7, <1>8, SameTarget

\* A slot that calls has a job and an attempt to answer for.
LEMMA CallsCount ==
  ASSUME SentInv, NEW w \in Workers, pc[w] \in Calling
  PROVE  /\ job[w] # <<>> /\ pc[w] # "idle"
         /\ attempt[w] \in Nat /\ attempt[w] <= target.maxRetries + 1
         /\ target.maxRetries \in Nat
<1>1. JobHolds(pc[w], job[w], attempt[w], sent)
  BY DEF SentInv, JobSound
<1>2. pc[w] # "idle"
  BY DEF Calling
<1>3. target.maxRetries \in Nat /\ attempt[w] \in Nat
  BY SettingsCount
<1>. QED
  BY <1>1, <1>2, <1>3 DEF JobHolds, Tries

\* handleFailure keeps the requests explained, whether it retries or gives up.
LEMMA FailingKeepsSent ==
  ASSUME SentInv, NEW w \in Workers, pc[w] \in Calling, SentOn(w), UNCHANGED <<target, pending>>,
         NEW status, NEW after, Fail(w, status, after),
         status # Absent =>
           /\ status \notin 200..299
           /\ \E i \in DOMAIN sent' : sent'[i].job = Range(job[w]) /\ sent'[i].status = status
  PROVE  SentInv'
<1> DEFINE retry == (status = Absent \/ status \in Retryable) /\ ~Exhausted(w)
<1>1. /\ job[w] # <<>> /\ pc[w] # "idle" /\ target.maxRetries \in Nat
      /\ attempt[w] \in Nat /\ attempt[w] <= target.maxRetries + 1
  BY CallsCount
<1>2. CASE retry
  <2>1. UNCHANGED <<job, attempt, results>> /\ pc' = [pc EXCEPT ![w] = "asleep"]
    BY <1>2 DEF Fail, endVars
  <2>2. attempt[w] <= target.maxRetries
    BY <1>1, <1>2 DEF Exhausted
  <2>. QED
    BY <1>1, <2>1, <2>2, ResumingKeepsSent
<1>3. CASE ~retry
  <2>1. Finish(w, "failed")
    BY <1>3 DEF Fail
  <2>2. ASSUME NEW e \in Range(job[w])
        PROVE  Evidence(sent', "failed", attempt[w], e)
    <3>1. CASE Exhausted(w)
      <4>1. attempt[w] = target.maxRetries + 1
        BY <1>1, <3>1 DEF Exhausted
      <4>. QED
        BY <4>1 DEF Evidence
    <3>2. CASE ~Exhausted(w)
      <4>1. status # Absent /\ status \notin Retryable \cup (200..299)
        BY <1>3, <3>2
      <4>. QED
        BY <4>1 DEF Evidence
    <3>. QED
      BY <3>1, <3>2
  <2>. QED
    BY <2>1, <2>2, EndingKeepsSent
<1>. QED
  BY <1>2, <1>3

\* An accepted request delivers each event of its job, or the event had nothing to send.
LEMMA AcceptingKeepsSent ==
  ASSUME SentInv, NEW w \in Workers, pc[w] \in Calling, UNCHANGED <<target, pending>>,
         NEW status \in 200..299, NEW tells, sent' = Append(sent, Request(w, status, tells)),
         Finish(w, "delivered")
  PROVE  SentInv'
<1>1. /\ SentOn(w)
      /\ \E n \in DOMAIN sent' :
           /\ sent'[n].job = Range(job[w]) /\ sent'[n].status = status
           /\ \A e \in Range(Wired(job[w])) : n \in Numbered(sent', e.id)
  BY AskedTells
<1>2. job[w] \in Seq(Events)
  BY SettingsCount
<1>3. ASSUME NEW e \in Range(job[w])
      PROVE  Evidence(sent', "delivered", attempt[w], e)
  <2>1. CASE e \in Range(Wired(job[w]))
    BY <1>1, <2>1 DEF Evidence
  <2>2. CASE e \notin Range(Wired(job[w]))
    BY <1>2, <2>2, WiredTells DEF Evidence
  <2>. QED
    BY <2>1, <2>2
<1>. QED
  BY <1>1, <1>3, EndingKeepsSent

LEMMA InitSent == TargetsAssumption /\ SendingAssumption /\ SendInit => SentInv
<1> SUFFICES ASSUME TargetsAssumption, SendingAssumption, SendInit PROVE SentInv
  OBVIOUS
<1>1. /\ target \in Targets /\ pending \in Backlogs /\ sent = <<>> /\ results = <<>>
      /\ pc = [w \in Workers |-> "idle"] /\ job = [w \in Workers |-> <<>>]
      /\ attempt = [w \in Workers |-> 0]
  BY DEF SendInit
<1>2. pending \in Seq(Events) /\ IsInjective(pending)
  BY <1>1 DEF SendingAssumption
<1>3. Range(<<>>) = {} /\ DOMAIN <<>> = {} /\ Len(<<>>) = 0
  BY DEF Range
<1>4. \A id : Numbered(sent, id) = {}
  BY <1>1, <1>3 DEF Numbered
<1>5. SlotTypes
  BY <1>1, <1>2 DEF SlotTypes, Places
<1>6. Apart
  BY <1>1, <1>2, <1>3, <1>4 DEF Apart
<1>7. ASSUME NEW w \in Workers
      PROVE  JobSound(w)
  <2>1. target.maxRetries \in Nat /\ target.batchSize \in Nat \ {0}
    BY <1>1 DEF TargetsAssumption
  <2>2. JobSize \in Nat
    BY <2>1 DEF JobSize
  <2>. QED
    BY <1>1, <1>3, <2>1, <2>2 DEF JobSound, JobHolds, Tries, Calling
<1>8. ResultsTell
  BY <1>1, <1>3 DEF ResultsTell
<1>. QED
  BY <1>5, <1>6, <1>7, <1>8 DEF SentInv

\* A slot takes events that only waited.
LEMMA TakingKeepsSent == ASSUME SentInv, NEW w \in Workers, Take(w) PROVE SentInv'
<1>1. /\ pc[w] = "idle" /\ UNCHANGED <<target, attempt, sent, results>>
      /\ pc' = [pc EXCEPT ![w] = "pass"]
  BY DEF Take, endVars
<1>2. PICK n \in 1..Smaller(JobSize, Len(pending)) :
        /\ job' = [job EXCEPT ![w] = SubSeq(pending, 1, n)]
        /\ pending' = SubSeq(pending, n + 1, Len(pending))
  BY DEF Take
<1> DEFINE front == SubSeq(pending, 1, n)
           back  == SubSeq(pending, n + 1, Len(pending))
<1>3. /\ pending \in Seq(Events) /\ IsInjective(pending) /\ Len(pending) \in Nat
      /\ pc \in [Workers -> Places] /\ attempt \in [Workers -> Nat]
      /\ job \in [Workers -> Seq(Events)] /\ JobSize \in Nat /\ target.maxRetries \in Nat
  <2>1. IsInjective(pending)
    BY DEF SentInv, Apart
  <2>2. /\ pending \in Seq(Events) /\ pc \in [Workers -> Places]
        /\ attempt \in [Workers -> Nat] /\ job \in [Workers -> Seq(Events)]
    BY DEF SentInv, SlotTypes
  <2>3. JobSize \in Nat /\ target.maxRetries \in Nat
    BY SettingsCount
  <2>. QED
    BY <2>1, <2>2, <2>3
<1>4. n \in 0..Len(pending) /\ n # 0 /\ n <= JobSize
  BY <1>2, <1>3 DEF Smaller
<1>5. /\ front \in Seq(Events) /\ back \in Seq(Events) /\ Len(front) = n
      /\ Range(pending) = Range(front) \cup Range(back)
      /\ IsInjective(back) /\ Range(front) \cap Range(back) = {}
  BY <1>3, <1>4, SplitDistinct
<1>6. job'[w] = front /\ pending' = back /\ \A v \in Workers \ {w} : job'[v] = job[v]
  BY <1>2, <1>3
<1>7. front # <<>>
  BY <1>4, <1>5
<1> HIDE DEF front, back
<1>8. SlotTypes'
  <2>1. pc' \in [Workers -> Places] /\ job' \in [Workers -> Seq(Events)]
    BY <1>1, <1>2, <1>3, <1>5 DEF Places, front
  <2>. QED
    BY <1>1, <1>5, <1>6, <2>1 DEF SentInv, SlotTypes
<1>9. Apart'
  <2>0. \A e \in Range(pending) : /\ e.id \notin DOMAIN results /\ Numbered(sent, e.id) = {}
                                  /\ \A v \in Workers : e \notin Range(job[v])
    BY DEF SentInv, Apart
  <2>1. \A e \in Range(pending') : /\ e.id \notin DOMAIN results' /\ Numbered(sent', e.id) = {}
                                   /\ \A v \in Workers : e \notin Range(job'[v])
    <3> TAKE e \in Range(pending')
    <3>1. e \in Range(pending) /\ e \notin Range(front)
      BY <1>5, <1>6
    <3>. QED
      BY <1>1, <1>6, <2>0, <3>1
  <2>2. \A v \in Workers : \A e \in Range(job'[v]) : e.id \notin DOMAIN results'
    <3> TAKE v \in Workers
    <3>1. CASE v = w
      BY <1>1, <1>5, <1>6, <2>0, <3>1
    <3>2. CASE v # w
      BY <1>1, <1>6, <3>2 DEF SentInv, Apart
    <3>. QED
      BY <3>1, <3>2
  <2>3. \A u, v \in Workers : u # v => Range(job'[u]) \cap Range(job'[v]) = {}
    <3> TAKE u, v \in Workers
    <3>1. CASE u = w /\ v # w
      BY <1>5, <1>6, <2>0, <3>1
    <3>2. CASE v = w /\ u # w
      BY <1>5, <1>6, <2>0, <3>2
    <3>3. CASE u # w /\ v # w
      BY <1>6, <3>3 DEF SentInv, Apart
    <3>. QED
      BY <3>1, <3>2, <3>3
  <2>. QED
    BY <1>5, <1>6, <2>1, <2>2, <2>3 DEF Apart, Numbered
<1>10. \A v \in Workers : JobHolds(pc'[v], job'[v], attempt'[v], sent')
  <2> TAKE v \in Workers
  <2>1. CASE v = w
    <3>1. attempt[w] = 0
      BY <1>1 DEF SentInv, JobSound, JobHolds
    <3>2. pc'[v] = "pass" /\ job'[v] = front /\ attempt'[v] = 0
      BY <1>1, <1>3, <1>6, <2>1, <3>1
    <3>3. \A e \in Range(front) : Numbered(sent', e.id) = {}
      BY <1>1, <1>5 DEF SentInv, Apart
    <3>4. Cardinality({}) = 0
      BY FS_EmptySet
    <3>5. JobHolds("pass", front, 0, sent')
      <4>1. Tries("pass", 0) /\ MadeBy("pass", 0) = 0
        BY <1>3 DEF Tries, MadeBy, Calling
      <4>2. Len(front) <= JobSize
        BY <1>4, <1>5
      <4>3. \A e \in Range(front) : /\ Cardinality(Numbered(sent', e.id)) <= MadeBy("pass", 0)
                                    /\ \A i \in Numbered(sent', e.id) : sent'[i].key = KeyOf(front)
        <5> TAKE e \in Range(front)
        <5>1. Numbered(sent', e.id) = {}
          BY <3>3
        <5>2. Cardinality(Numbered(sent', e.id)) = 0
          BY <3>4, <5>1
        <5>3. Cardinality(Numbered(sent', e.id)) <= MadeBy("pass", 0)
          BY <4>1, <5>2
        <5>. QED
          BY <5>1, <5>3
      <4>. QED
        BY <1>7, <4>1, <4>2, <4>3 DEF JobHolds
    <3>. QED
      BY <3>2, <3>5
  <2>2. CASE v # w
    <3>1. JobHolds(pc[v], job[v], attempt[v], sent)
      BY DEF SentInv, JobSound
    <3>2. pc'[v] = pc[v] /\ job'[v] = job[v] /\ attempt'[v] = attempt[v] /\ sent' = sent
      BY <1>1, <1>3, <1>6, <2>2
    <3>. QED
      BY <3>1, <3>2
  <2>. QED
    BY <2>1, <2>2
<1>11. \A e \in Events : e.id \in DOMAIN results' => Told(sent', results'[e.id], e)
  BY <1>1 DEF SentInv, ResultsTell
<1>12. DOMAIN results' \subseteq {e.id : e \in Events}
  BY <1>1 DEF SentInv, ResultsTell
<1>. QED
  BY <1>1, <1>8, <1>9, <1>10, <1>11, <1>12, SameTarget

\* Timers, the breaker and the bucket move a slot on with its job.
LEMMA WakingKeepsSent == ASSUME SentInv, NEW w \in Workers, Wake(w) PROVE SentInv'
<1> DEFINE place == IF pc[w] = "asleep" THEN "pass" ELSE "acquire"
<1>1. /\ UNCHANGED <<target, pending, job, sent, results, attempt>>
      /\ pc[w] \in {"asleep", "starved"} /\ pc' = [pc EXCEPT ![w] = place]
  BY DEF Wake, endVars
<1>2. attempt[w] \in Nat /\ attempt' = [attempt EXCEPT ![w] = attempt[w]]
  BY <1>1, SettingsCount DEF SentInv, SlotTypes
<1>3. JobHolds(place, job[w], attempt[w], sent)
  BY <1>1 DEF SentInv, JobSound, JobHolds, Tries, MadeBy, Calling
<1>4. place \in Places
  BY DEF Places
<1> HIDE DEF place
<1>. QED
  BY <1>1, <1>2, <1>3, <1>4, SlotMovesOn

LEMMA PassingKeepsSent == ASSUME SentInv, NEW w \in Workers, Pass(w) PROVE SentInv'
<1>1. pc[w] = "pass" /\ UNCHANGED <<target, pending, sent>>
  BY DEF Pass
<1>2. CASE pc' = [pc EXCEPT ![w] = "acquire"] /\ UNCHANGED <<job, attempt, wake, endVars>>
  <2>1. attempt[w] \in Nat /\ attempt' = [attempt EXCEPT ![w] = attempt[w]]
    BY <1>2, SettingsCount DEF SentInv, SlotTypes
  <2>2. JobHolds("acquire", job[w], attempt[w], sent)
    BY <1>1 DEF SentInv, JobSound, JobHolds, Tries, MadeBy, Calling
  <2>. QED
    BY <1>1, <1>2, <2>1, <2>2, SlotMovesOn DEF Places, endVars
<1>3. CASE Finish(w, "circuit_open")
  <2>1. \A e \in Range(job[w]) : Evidence(sent', "circuit_open", attempt[w], e)
    BY DEF Evidence
  <2>. QED
    BY <1>1, <1>3, <2>1, UnsentTells, EndingKeepsSent
<1>. QED
  BY <1>2, <1>3 DEF Pass

LEMMA AcquiringKeepsSent == ASSUME SentInv, NEW w \in Workers, Acquire(w) PROVE SentInv'
<1>1. pc[w] = "acquire" /\ UNCHANGED <<target, pending, job, sent, results>>
  BY DEF Acquire, endVars
<1>2. JobHolds("acquire", job[w], attempt[w], sent) /\ attempt[w] \in Nat /\ target.maxRetries \in Nat
  BY <1>1, SettingsCount DEF SentInv, JobSound
<1>3. CASE pc' = [pc EXCEPT ![w] = "send"] /\ attempt' = [attempt EXCEPT ![w] = @ + 1]
  <2> DEFINE n == attempt[w] + 1
  <2>1. n \in Nat /\ attempt' = [attempt EXCEPT ![w] = n] /\ n - 1 = attempt[w]
    BY <1>2, <1>3
  <2>2. JobHolds("send", job[w], n, sent)
    BY <1>2 DEF JobHolds, Tries, MadeBy, Calling
  <2> HIDE DEF n
  <2>. QED
    BY <1>1, <1>3, <2>1, <2>2, SlotMovesOn DEF Places
<1>4. CASE pc' = [pc EXCEPT ![w] = "starved"] /\ UNCHANGED attempt
  <2>1. attempt' = [attempt EXCEPT ![w] = attempt[w]]
    BY <1>4 DEF SentInv, SlotTypes
  <2>2. JobHolds("starved", job[w], attempt[w], sent)
    BY <1>2 DEF JobHolds, Tries, MadeBy, Calling
  <2>. QED
    BY <1>1, <1>2, <1>4, <2>1, <2>2, SlotMovesOn DEF Places
<1>. QED
  BY <1>3, <1>4 DEF Acquire

LEMMA AuthenticatingKeepsSent == ASSUME SentInv, NEW w \in Workers, Authenticate(w) PROVE SentInv'
<1>1. /\ pc[w] = "send" /\ Wired(job[w]) # <<>>
      /\ UNCHANGED <<target, pending, job, sent, results, attempt>>
  BY DEF Authenticate, Http, endVars
<1>2. PICK place \in {"wire", "token"} : pc' = [pc EXCEPT ![w] = place]
  BY DEF Authenticate
<1>3. attempt[w] \in Nat /\ attempt' = [attempt EXCEPT ![w] = attempt[w]]
  BY <1>1, SettingsCount DEF SentInv, SlotTypes
<1>4. JobHolds(place, job[w], attempt[w], sent)
  BY <1>1 DEF SentInv, JobSound, JobHolds, Tries, MadeBy, Calling
<1>5. place \in Places
  BY DEF Places
<1>. QED
  BY <1>1, <1>2, <1>3, <1>4, <1>5, SlotMovesOn

\* The end of a refresh moves all who wait for it.
LEMMA RefreshingKeepsSent ==
  ASSUME SentInv, NEW place \in {"wire", "refused"},
         pc' = [w \in Workers |-> IF pc[w] = "token" THEN place ELSE pc[w]],
         UNCHANGED <<target, pending, job, sent, results, attempt>>
  PROVE  SentInv'
<1>1. pc \in [Workers -> Places] /\ attempt' \in [Workers -> Nat]
  BY DEF SentInv, SlotTypes
<1>2. pc' \in [Workers -> Places]
  BY <1>1 DEF Places
<1>3. ASSUME NEW w \in Workers
      PROVE  JobHolds(pc'[w], job[w], attempt'[w], sent)
  <2>1. JobHolds(pc[w], job[w], attempt[w], sent)
    BY DEF SentInv, JobSound
  <2>2. CASE pc[w] = "token"
    <3>1. JobHolds(place, job[w], attempt[w], sent)
      BY <2>1, <2>2 DEF JobHolds, Tries, MadeBy, Calling
    <3>. QED
      BY <2>2, <3>1
  <2>3. CASE pc[w] # "token"
    BY <2>1, <2>3
  <2>. QED
    BY <2>2, <2>3
<1>. QED
  BY <1>1, <1>2, <1>3, MovingKeepsSent

LEMMA AnsweringKeepsSent ==
  ASSUME SentInv, NEW w \in Workers, NEW a \in target.answers, Answer(w, a)
  PROVE  SentInv'
<1>1. /\ pc[w] \in Calling /\ UNCHANGED <<target, pending>>
      /\ \E tells : sent' = Append(sent, Request(w, a.status, tells))
  <2>1. pc[w] \in Calling /\ UNCHANGED <<target, pending>>
    BY DEF Answer, Calling
  <2>2. \E tells : sent' = Append(sent, Request(w, a.status, tells))
    BY DEF Answer, Accepted, Declined, Unanswered
  <2>. QED
    BY <2>1, <2>2
<1>2. /\ SentOn(w)
      /\ \E n \in DOMAIN sent' : sent'[n].job = Range(job[w]) /\ sent'[n].status = a.status
  BY <1>1, AskedTells
<1>3. a.status \in (100..599) \cup {Absent}
  BY DEF SentInv, SlotTypes, TargetsAssumption
<1>4. CASE Accepted(w, a)
  <2>1. Finish(w, "delivered") /\ a.status # Absent /\ Success(a.status)
    BY <1>4 DEF Accepted
  <2>2. a.status \in 200..299
    BY <1>3, <2>1 DEF Success
  <2>. QED
    BY <1>1, <2>1, <2>2, AcceptingKeepsSent
<1>5. CASE Declined(w, a)
  <2>1. Fail(w, a.status, a.retryAfter) /\ a.status # Absent /\ ~Success(a.status)
    BY <1>5 DEF Declined
  <2>2. a.status \notin 200..299
    BY <1>3, <2>1 DEF Success
  <2>. QED
    BY <1>1, <1>2, <2>1, <2>2, FailingKeepsSent
<1>6. CASE Unanswered(w, a)
  <2>1. Fail(w, Absent, Absent)
    BY <1>6 DEF Unanswered
  <2>. QED
    BY <1>1, <1>2, <2>1, FailingKeepsSent
<1>. QED
  BY <1>4, <1>5, <1>6 DEF Answer

LEMMA SentStep == ASSUME SentInv, [SendNext]_sendVars PROVE SentInv'
<1>1. ASSUME NEW w \in Workers, SendNothing(w) PROVE SentInv'
  <2>1. /\ Wired(job[w]) = <<>> /\ Finish(w, "delivered") /\ UNCHANGED <<target, pending, sent>>
    BY <1>1 DEF SendNothing
  <2>2. job[w] \in Seq(Events) /\ Range(<<>>) = {}
    BY SettingsCount DEF Range
  <2>3. \A e \in Range(job[w]) : Evidence(sent', "delivered", attempt[w], e)
    BY <2>1, <2>2, WiredTells DEF Evidence
  <2>. QED
    BY <2>1, <2>3, UnsentTells, EndingKeepsSent
<1>2. ASSUME NEW w \in Workers, Publish(w) PROVE SentInv'
  <2>1. pc[w] \in Calling /\ UNCHANGED <<target, pending>>
    BY <1>2 DEF Publish, Calling
  <2>2. CASE Finish(w, "delivered") /\ sent' = Append(sent, Request(w, 200, Absent))
    BY <2>1, <2>2, AcceptingKeepsSent
  <2>3. CASE Fail(w, Absent, Absent) /\ UNCHANGED sent
    BY <2>1, <2>3, UnsentTells, FailingKeepsSent
  <2>. QED
    BY <1>2, <2>2, <2>3 DEF Publish
<1>3. ASSUME NEW w \in Workers, Refused(w) PROVE SentInv'
  <2>1. /\ pc[w] \in Calling /\ UNCHANGED <<target, pending, sent>> /\ Fail(w, Absent, Absent)
    BY <1>3 DEF Refused, Calling
  <2>. QED
    BY <2>1, UnsentTells, FailingKeepsSent
<1>4. ASSUME NEW ttl, TokenArrives(ttl) PROVE SentInv'
  <2>1. /\ pc' = [w \in Workers |-> IF pc[w] = "token" THEN "wire" ELSE pc[w]]
        /\ UNCHANGED <<target, pending, job, sent, results, attempt>>
    BY <1>4 DEF TokenArrives, endVars
  <2>. QED
    BY <2>1, RefreshingKeepsSent
<1>5. ASSUME TokenFails PROVE SentInv'
  <2>1. /\ pc' = [w \in Workers |-> IF pc[w] = "token" THEN "refused" ELSE pc[w]]
        /\ UNCHANGED <<target, pending, job, sent, results, attempt>>
    BY <1>5 DEF TokenFails, endVars
  <2>. QED
    BY <2>1, RefreshingKeepsSent
<1>6. ASSUME ClockTicks \/ UNCHANGED sendVars PROVE SentInv'
  <2>1. UNCHANGED <<target, pending, pc, job, attempt, sent, results>>
    BY <1>6 DEF ClockTicks, sendVars, slotVars, endVars
  <2>2. pc' \in [Workers -> Places] /\ attempt' \in [Workers -> Nat]
    BY <2>1 DEF SentInv, SlotTypes
  <2>3. \A w \in Workers : JobHolds(pc'[w], job[w], attempt'[w], sent)
    BY <2>1 DEF SentInv, JobSound
  <2>. QED
    BY <2>1, <2>2, <2>3, MovingKeepsSent
<1>. QED
  BY <1>1, <1>2, <1>3, <1>4, <1>5, <1>6, TakingKeepsSent, WakingKeepsSent, PassingKeepsSent,
     AcquiringKeepsSent, AuthenticatingKeepsSent, AnsweringKeepsSent DEF SendNext

-----------------------------------------------------------------------------
(* Sending: the dead letters and the ETags *)

LEMMA FinishKeepsRing ==
  ASSUME RingInv, SentInv, NEW w \in Workers, NEW outcome, Finish(w, outcome)
  PROVE  RingInv'
<1>1. CASE UNCHANGED <<ring, ringAt, ringCount, letters>>
  BY <1>1 DEF RingInv
<1>2. CASE AddLetters(job[w])
  <2>1. job[w] \in Seq(Events)
    BY SettingsCount
  <2>. QED
    BY <1>2, <2>1, AddingKeepsRing
<1>. QED
  BY <1>1, <1>2 DEF Finish

LEMMA InitRing == TargetsAssumption /\ SendingAssumption /\ SendInit => RingInv
<1> SUFFICES ASSUME SendingAssumption, SendInit PROVE RingInv
  OBVIOUS
<1> DEFINE C == LetterCapacity
<1>1. C \in Nat \ {0} /\ letters = <<>> /\ ringAt = 0 /\ ringCount = 0
  BY DEF SendingAssumption, SendInit
<1>2. 0 % C = 0
  BY <1>1, SMTT(30)
<1>. QED
  BY <1>1, <1>2 DEF RingInv, Smaller

LEMMA RingStep == ASSUME RingInv, SentInv, [SendNext]_sendVars PROVE RingInv'
<1> DEFINE Rest == UNCHANGED <<ring, ringAt, ringCount, letters>>
<1>1. ASSUME NEW w \in Workers, Take(w) \/ Wake(w) \/ Acquire(w) \/ Authenticate(w) PROVE Rest
  BY <1>1 DEF Take, Wake, Acquire, Authenticate, endVars
<1>2. ASSUME NEW w \in Workers, NEW status, NEW after, Fail(w, status, after)
      PROVE  Rest \/ \E outcome : Finish(w, outcome)
  BY <1>2 DEF Fail, endVars
<1>3. ASSUME NEW w \in Workers,
             \/ Pass(w) \/ SendNothing(w) \/ Publish(w) \/ Refused(w)
             \/ \E a \in target.answers : Answer(w, a)
      PROVE  Rest \/ \E outcome : Finish(w, outcome)
  <2>1. CASE Pass(w) \/ SendNothing(w)
    BY <2>1 DEF Pass, SendNothing, endVars
  <2>2. CASE Publish(w) \/ Refused(w)
    BY <1>2, <2>2 DEF Publish, Refused
  <2>3. ASSUME NEW a \in target.answers, Answer(w, a)
        PROVE  Rest \/ \E outcome : Finish(w, outcome)
    <3>1. Accepted(w, a) \/ Declined(w, a) \/ Unanswered(w, a)
      BY <2>3 DEF Answer
    <3>2. CASE Accepted(w, a)
      BY <3>2 DEF Accepted
    <3>3. CASE Declined(w, a)
      BY <1>2, <3>3 DEF Declined
    <3>4. CASE Unanswered(w, a)
      BY <1>2, <3>4 DEF Unanswered
    <3>. QED
      BY <3>1, <3>2, <3>3, <3>4
  <2>. QED
    BY <1>3, <2>1, <2>2, <2>3
<1>4. ASSUME (\E ttl \in TokenTtls : TokenArrives(ttl)) \/ TokenFails \/ ClockTicks \/ UNCHANGED sendVars
      PROVE  Rest
  BY <1>4 DEF TokenArrives, TokenFails, ClockTicks, sendVars, endVars
<1>5. Rest => RingInv'
  BY DEF RingInv
<1>. QED
  BY <1>1, <1>3, <1>4, <1>5, FinishKeepsRing DEF SendNext

\* What was the newest ETag of a user when a list of requests was this long.
Newest(list, u, tag, until) ==
  /\ tag \in 1..until /\ list[tag].tells = u
  /\ \A k \in (tag + 1)..until : list[k].tells # u
TagsSound(list, tags) ==
  \A t \in Range(tags) : t.user # Absent /\ Newest(list, t.user, t.etag, Len(list))

\* What the request of a slot demands, and what each request made demanded.
Waits == {"token", "wire"}
HeaderSound(list, h, place, es) ==
  h # Absent =>
    /\ h.asOf \in 0..Len(list) /\ Newest(list, h.user, h.etag, h.asOf)
    /\ place \in Waits => h.user \in {e.user : e \in Range(es)}
ToldSound(list) ==
  \A i \in DOMAIN list :
    LET match == list[i].ifMatch
    IN match # Absent =>
         /\ match.asOf \in 0..(i - 1) /\ match.user \in {e.user : e \in list[i].job}
         /\ Newest(list, match.user, match.etag, match.asOf)

\* The cache holds as many users as it may; its tags and the demands are sound.
EtagsInv ==
  /\ SendingAssumption
  /\ etags \in Seq(Range(etags)) /\ Len(etags) <= EtagLimit /\ TagsSound(sent, etags)
  /\ header = [w \in Workers |-> header[w]]
  /\ \A w \in Workers : header[w] # Absent => target.kind = "scim"
  /\ \A w \in Workers : HeaderSound(sent, header[w], pc[w], job[w])
  /\ ToldSound(sent)

LEMMA EtagsTell == EtagsInv /\ SentInv => EtagsKept /\ ConditionsTold
<1> SUFFICES ASSUME EtagsInv, SentInv PROVE EtagsKept /\ ConditionsTold
  OBVIOUS
<1>1. EtagsKept
  BY DEF EtagsInv, TagsSound, Newest, EtagsKept, NewestTag
<1>2. ASSUME NEW i \in DOMAIN sent, sent[i].ifMatch # Absent
      PROVE  /\ sent[i].ifMatch.asOf < i /\ sent[i].ifMatch.user \in {e.user : e \in sent[i].job}
             /\ NewestTag(sent[i].ifMatch.user, sent[i].ifMatch.etag, sent[i].ifMatch.asOf)
  <2>1. /\ sent[i].ifMatch.asOf \in 0..(i - 1)
        /\ sent[i].ifMatch.user \in {e.user : e \in sent[i].job}
        /\ Newest(sent, sent[i].ifMatch.user, sent[i].ifMatch.etag, sent[i].ifMatch.asOf)
    BY <1>2 DEF EtagsInv, ToldSound
  <2>2. i \in Int
    BY DEF SentInv, SlotTypes
  <2>. QED
    BY <2>1, <2>2 DEF Newest, NewestTag
<1>3. ConditionsTold
  BY <1>2, Zenon DEF ConditionsTold
<1>. QED
  BY <1>1, <1>3

\* One request more leaves what was newest before, and tells at most one user a new tag.
Longer(list, x, more) ==
  /\ Len(list) \in Nat /\ DOMAIN list = 1..Len(list)
  /\ Len(more) = Len(list) + 1 /\ DOMAIN more = 1..Len(more)
  /\ more[Len(more)] = x /\ \A i \in 1..Len(list) : more[i] = list[i]

LEMMA NewestStays ==
  ASSUME NEW list, NEW x, NEW more, Longer(list, x, more),
         NEW u, NEW tag, NEW n \in 0..Len(list), Newest(list, u, tag, n)
  PROVE  Newest(more, u, tag, n)
<1>1. tag \in 1..n /\ \A k \in 1..n : more[k] = list[k]
  BY DEF Longer, Newest
<1>2. \A k \in (tag + 1)..n : k \in 1..n
  BY <1>1
<1>. QED
  BY <1>1, <1>2 DEF Newest

LEMMA NewestKept ==
  ASSUME NEW list, NEW x, NEW more, Longer(list, x, more),
         NEW u, NEW tag, Newest(list, u, tag, Len(list)), x.tells # u
  PROVE  Newest(more, u, tag, Len(more))
<1>1. Newest(more, u, tag, Len(list))
  <2>1. Len(list) \in 0..Len(list)
    BY DEF Longer
  <2>. QED
    BY <2>1, NewestStays
<1>2. tag \in 1..Len(list) /\ Len(list) \in Nat /\ Len(more) = Len(list) + 1
  BY DEF Longer, Newest
<1>3. \A k \in (tag + 1)..Len(more) : k \in (tag + 1)..Len(list) \/ k = Len(more)
  BY <1>2
<1>. QED
  BY <1>1, <1>2, <1>3 DEF Newest, Longer

LEMMA NewestNow ==
  ASSUME NEW list, NEW x, NEW more, Longer(list, x, more)
  PROVE  Newest(more, x.tells, Len(list) + 1, Len(more))
<1>1. Len(list) \in Nat /\ Len(more) = Len(list) + 1 /\ more[Len(more)] = x
  BY DEF Longer
<1>2. (Len(more) + 1)..Len(more) = {}
  BY <1>1
<1>. QED
  BY <1>1, <1>2 DEF Newest

\* A single call about a user is about the user of the one event of its job.
LEMMA PlanNames ==
  ASSUME SendingAssumption, NEW e \in Called, Plan(e).group = Absent
  PROVE  e \in Events /\ Plan(e).user = e.user
<1>1. e \in Events /\ Plan(e) # Absent /\ e.op \in Operations
  BY DEF Called, SendingAssumption
<1>2. CASE e.op = "create" /\ e.resource = "group"
  BY <1>1, <1>2 DEF Plan, GroupCall
<1>3. CASE e.op \in {"grant", "revoke"}
  BY <1>1, <1>3 DEF Plan, GroupCall
<1>4. CASE ~(e.op = "create" /\ e.resource = "group") /\ e.op \notin {"grant", "revoke"}
  <2>1. Plan(e) = UserPlan(e) /\ e.op \notin {"notify", "noop"}
    BY <1>1, <1>4 DEF Plan
  <2>2. UserPlan(e).user = e.user
    BY <1>1, <1>4, <2>1 DEF Operations, UserPlan, UserCall
  <2>. QED
    BY <1>1, <2>1, <2>2
<1>. QED
  BY <1>1, <1>2, <1>3, <1>4

LEMMA ConditionNames ==
  ASSUME SentInv, NEW w \in Workers, pc[w] = "send", Wired(job[w]) # <<>>, Conditional(job[w])
  PROVE  Plan(job[w][1]).user \in {e.user : e \in Range(job[w])}
<1> DEFINE e == job[w][1]
<1>1. target.kind = "scim" /\ ~Bulk /\ Plan(e).group = Absent
  BY DEF Conditional
<1>2. /\ job[w] # <<>> /\ Len(job[w]) <= JobSize
      /\ job[w] \in Seq(Events) /\ target.batchSize \in Nat \ {0}
  BY SettingsCount DEF SentInv, JobSound, JobHolds
<1>3. JobSize = 1
  BY <1>1, <1>2 DEF JobSize, Batches, Bulk
<1>4. Len(job[w]) = 1
  <2> DEFINE n == Len(job[w])
  <2>1. n \in Nat /\ n <= 1
    BY <1>2, <1>3
  <2>2. n # 0
    BY <1>2, EmptySeq
  <2> HIDE DEF n
  <2>3. n = 1
    BY <2>1, <2>2
  <2>. QED
    BY <2>3 DEF n
<1>5. Wired(job[w]) = Selected(job[w], Called)
  BY <1>1 DEF Wired
<1>6. /\ Selected(job[w], Called) \in Seq(Events)
      /\ ToSet(Selected(job[w], Called)) = ToSet(job[w]) \cap Called
  BY <1>2, SelectedElements
<1>7. Range(Selected(job[w], Called)) # {}
  BY <1>5, <1>6, EmptyRange
<1>8. \E x \in Called : x \in ToSet(job[w])
  BY <1>6, <1>7 DEF ToSet, Range
<1>9. e \in Called /\ e \in Range(job[w])
  BY <1>2, <1>4, <1>8 DEF ToSet, Range
<1>10. SendingAssumption
  BY DEF SentInv
<1> HIDE DEF e
<1>11. Plan(e).user = e.user
  BY <1>1, <1>9, <1>10, PlanNames
<1>. QED
  BY <1>9, <1>11 DEF e

\* Remembering the tag an answer brought.
LEMMA RememberingKeepsTags ==
  ASSUME EtagsInv, NEW x, Longer(sent, x, sent'), x.tells # Absent,
         RememberEtag(x.tells, Len(sent) + 1)
  PROVE  /\ etags' \in Seq(Range(etags')) /\ Len(etags') <= EtagLimit
         /\ TagsSound(sent', etags')
<1> DEFINE u == x.tells
           kept == IF Len(etags) >= EtagLimit THEN Tail(etags) ELSE etags
           told == [user |-> u, etag |-> Len(sent) + 1]
           S == Range(etags)
<1>1. /\ EtagLimit \in Nat \ {0} /\ etags \in Seq(S) /\ Len(etags) <= EtagLimit
      /\ \A t \in S : t.user # Absent /\ Newest(sent, t.user, t.etag, Len(sent))
  BY DEF EtagsInv, SendingAssumption, TagsSound
<1>2. etags' = IF \A i \in DOMAIN kept : kept[i].user # u THEN Append(kept, told)
               ELSE [i \in DOMAIN kept |-> IF kept[i].user = u THEN told ELSE kept[i]]
  BY DEF RememberEtag
<1>3. told.user # Absent /\ Newest(sent', told.user, told.etag, Len(sent'))
  BY NewestNow
<1> HIDE DEF S, told
<1>4. kept \in Seq(S) /\ Len(kept) \in Nat /\ Len(kept) + 1 <= EtagLimit
  <2>1. CASE Len(etags) >= EtagLimit
    <3>1. etags # <<>> /\ Len(etags) = EtagLimit
      BY <1>1, <2>1
    <3>2. Tail(etags) \in Seq(S) /\ Len(Tail(etags)) = Len(etags) - 1
      BY <1>1, <3>1
    <3>. QED
      BY <1>1, <2>1, <3>1, <3>2
  <2>2. CASE ~(Len(etags) >= EtagLimit)
    BY <1>1, <2>2
  <2>. QED
    BY <2>1, <2>2
<1> HIDE DEF kept
<1> DEFINE T == {t \in S : t.user # u} \cup {told}
<1>5. etags' \in Seq(T) /\ Len(etags') <= EtagLimit
  <2>1. CASE \A i \in DOMAIN kept : kept[i].user # u
    <3>1. etags' = Append(kept, told)
      BY <1>2, <2>1
    <3>2. kept \in Seq(T)
      BY <1>4, <2>1
    <3>3. told \in T
      OBVIOUS
    <3> HIDE DEF T
    <3>. QED
      BY <1>1, <1>4, <3>1, <3>2, <3>3
  <2>2. CASE ~(\A i \in DOMAIN kept : kept[i].user # u)
    <3>1. etags' = [i \in DOMAIN kept |-> IF kept[i].user = u THEN told ELSE kept[i]]
      BY <1>2, <2>2
    <3>2. DOMAIN kept = 1..Len(kept) /\ \A i \in 1..Len(kept) : kept[i] \in S
      BY <1>4
    <3>3. \A i \in 1..Len(kept) : (IF kept[i].user = u THEN told ELSE kept[i]) \in T
      BY <3>2
    <3> HIDE DEF T
    <3>4. etags' \in [1..Len(kept) -> T]
      BY <3>1, <3>2, <3>3
    <3>5. etags' \in Seq(T) /\ Len(etags') = Len(kept)
      BY <1>4, <3>4
    <3>. QED
      BY <1>1, <1>4, <3>5
  <2>. QED
    BY <2>1, <2>2
<1>6. ASSUME NEW t \in T PROVE t.user # Absent /\ Newest(sent', t.user, t.etag, Len(sent'))
  <2>1. CASE t = told
    BY <1>3, <2>1
  <2>2. CASE t \in S /\ t.user # u
    BY <1>1, <2>2, NewestKept
  <2>. QED
    BY <2>1, <2>2
<1> HIDE DEF T
<1>7. \A i \in DOMAIN etags' : etags'[i] \in T
  BY <1>5
<1>8. etags' \in Seq(Range(etags')) /\ Range(etags') \subseteq T
  BY <1>5, <1>7 DEF Range
<1>. QED
  BY <1>5, <1>6, <1>8 DEF TagsSound

LEMMA InitEtags == TargetsAssumption /\ SendingAssumption /\ SendInit => EtagsInv
<1> SUFFICES ASSUME SendingAssumption, SendInit PROVE EtagsInv
  OBVIOUS
<1>1. /\ etags = <<>> /\ sent = <<>> /\ header = [w \in Workers |-> Absent]
      /\ EtagLimit \in Nat
  BY DEF SendInit, SendingAssumption
<1>2. TagsSound(sent, etags) /\ ToldSound(sent) /\ etags \in Seq(Range(etags))
  BY <1>1 DEF TagsSound, ToldSound, Range
<1>3. \A w \in Workers : HeaderSound(sent, header[w], pc[w], job[w])
  BY <1>1 DEF HeaderSound
<1>. QED
  BY <1>1, <1>2, <1>3 DEF EtagsInv

\* Nobody's request in flight is about another job than it was.
Stands == \A v \in Workers : pc'[v] \in Waits => pc[v] \in Waits /\ job'[v] = job[v]

LEMMA RestingKeepsTags ==
  ASSUME EtagsInv, Stands, UNCHANGED <<target, etags, header, sent>>
  PROVE  EtagsInv'
<1>1. ASSUME NEW v \in Workers
      PROVE  HeaderSound(sent, header[v], pc'[v], job'[v])
  <2>1. HeaderSound(sent, header[v], pc[v], job[v])
    BY DEF EtagsInv
  <2>2. pc'[v] \in Waits => pc[v] \in Waits /\ job'[v] = job[v]
    BY DEF Stands
  <2>. QED
    BY <2>1, <2>2 DEF HeaderSound
<1>. QED
  BY <1>1 DEF EtagsInv, SendingAssumption

\* A slot leaves the wire with a request on record.
LEMMA AskingKeepsTags ==
  ASSUME EtagsInv, SentInv, Stands, UNCHANGED <<target, header>>,
         NEW w \in Workers, pc[w] = "wire" \/ target.kind # "scim",
         NEW status, NEW tells, sent' = Append(sent, Request(w, status, tells)),
         \/ tells = Absent /\ UNCHANGED etags
         \/ tells # Absent /\ RememberEtag(tells, Len(sent) + 1)
  PROVE  EtagsInv'
<1> DEFINE x == Request(w, status, tells)
           n == Len(sent)
<1>1. x.tells = tells /\ x.ifMatch = header[w] /\ x.job = Range(job[w])
  BY DEF Request
<1> HIDE DEF x
<1>2. Longer(sent, x, sent')
  <2>1. sent \in Seq(Range(sent)) /\ sent' = Append(sent, x)
    BY DEF SentInv, SlotTypes, x
  <2>. QED
    BY <2>1 DEF Longer
<1>3. n \in Nat /\ Len(sent') = n + 1 /\ DOMAIN sent = 1..n /\ DOMAIN sent' = 1..(n + 1)
  BY <1>2 DEF Longer
<1>4. /\ etags' \in Seq(Range(etags')) /\ Len(etags') <= EtagLimit
      /\ TagsSound(sent', etags')
  <2>1. CASE tells # Absent /\ RememberEtag(tells, Len(sent) + 1)
    BY <1>1, <1>2, <2>1, RememberingKeepsTags
  <2>2. CASE tells = Absent /\ UNCHANGED etags
    <3>1. ASSUME NEW t \in Range(etags)
          PROVE  t.user # Absent /\ Newest(sent', t.user, t.etag, Len(sent'))
      <4>1. t.user # Absent /\ Newest(sent, t.user, t.etag, Len(sent))
        BY DEF EtagsInv, TagsSound
      <4>. QED
        BY <1>1, <1>2, <2>2, <4>1, NewestKept
    <3>. QED
      BY <2>2, <3>1 DEF EtagsInv, TagsSound
  <2>. QED
    BY <2>1, <2>2
<1>5. ASSUME NEW v \in Workers
      PROVE  HeaderSound(sent', header[v], pc'[v], job'[v])
  <2> SUFFICES ASSUME header[v] # Absent
               PROVE  /\ header[v].asOf \in 0..Len(sent')
                      /\ Newest(sent', header[v].user, header[v].etag, header[v].asOf)
                      /\ pc'[v] \in Waits => header[v].user \in {e.user : e \in Range(job'[v])}
    BY DEF HeaderSound
  <2>1. /\ header[v].asOf \in 0..n /\ Newest(sent, header[v].user, header[v].etag, header[v].asOf)
        /\ pc[v] \in Waits => header[v].user \in {e.user : e \in Range(job[v])}
    BY DEF EtagsInv, HeaderSound
  <2>2. Newest(sent', header[v].user, header[v].etag, header[v].asOf)
    BY <1>2, <2>1, NewestStays
  <2>3. pc'[v] \in Waits => pc[v] \in Waits /\ job'[v] = job[v]
    BY DEF Stands
  <2>. QED
    BY <1>3, <2>1, <2>2, <2>3
<1>6. ASSUME NEW i \in DOMAIN sent', sent'[i].ifMatch # Absent
      PROVE  /\ sent'[i].ifMatch.asOf \in 0..(i - 1)
             /\ sent'[i].ifMatch.user \in {e.user : e \in sent'[i].job}
             /\ Newest(sent', sent'[i].ifMatch.user, sent'[i].ifMatch.etag, sent'[i].ifMatch.asOf)
  <2>1. CASE i \in 1..n
    <3>1. sent'[i] = sent[i] /\ i \in DOMAIN sent
      BY <1>2, <1>3, <2>1 DEF Longer
    <3> DEFINE h == sent[i].ifMatch
    <3>2. /\ h.asOf \in 0..(i - 1) /\ h.user \in {e.user : e \in sent[i].job}
          /\ Newest(sent, h.user, h.etag, h.asOf)
      BY <1>6, <3>1 DEF EtagsInv, ToldSound
    <3>3. h.asOf \in 0..Len(sent)
      BY <1>3, <2>1, <3>2
    <3>4. Newest(sent', h.user, h.etag, h.asOf)
      BY <1>2, <3>2, <3>3, NewestStays
    <3>. QED
      BY <3>1, <3>2, <3>4
  <2>2. CASE i = n + 1
    <3>1. sent'[i] = x /\ header[w] # Absent
      BY <1>1, <1>2, <1>3, <1>6, <2>2 DEF Longer
    <3>2. target.kind = "scim"
      BY <3>1 DEF EtagsInv
    <3>3. pc[w] \in Waits
      BY <3>2 DEF Waits
    <3>4. /\ header[w].asOf \in 0..n /\ Newest(sent, header[w].user, header[w].etag, header[w].asOf)
          /\ header[w].user \in {e.user : e \in Range(job[w])}
      BY <3>1, <3>3 DEF EtagsInv, HeaderSound
    <3>5. Newest(sent', header[w].user, header[w].etag, header[w].asOf)
      BY <1>2, <3>4, NewestStays
    <3>6. n = i - 1
      BY <1>3, <2>2
    <3>. QED
      BY <1>1, <3>1, <3>4, <3>5, <3>6
  <2>. QED
    BY <1>3, <2>1, <2>2
<1>7. ToldSound(sent')
  BY <1>6, Zenon DEF ToldSound
<1>8. SendingAssumption /\ header' = header /\ target' = target
  BY DEF EtagsInv
<1>. QED
  BY <1>4, <1>5, <1>7, <1>8 DEF EtagsInv

\* A request is made with the tag remembered now.
LEMMA AuthenticatingKeepsTags ==
  ASSUME EtagsInv, SentInv, NEW w \in Workers, Authenticate(w)
  PROVE  EtagsInv'
<1> DEFINE h == IfMatch(job[w])
<1>1. /\ pc[w] = "send" /\ Wired(job[w]) # <<>> /\ UNCHANGED <<target, job, etags, sent>>
      /\ header' = [header EXCEPT ![w] = h]
      /\ pc' = [pc EXCEPT ![w] = "wire"] \/ pc' = [pc EXCEPT ![w] = "token"]
  BY DEF Authenticate, Http
<1>2. pc \in [Workers -> Places] /\ Len(sent) \in Nat
  BY DEF SentInv, SlotTypes
<1>3. /\ header' = [v \in Workers |-> header'[v]] /\ header'[w] = h
      /\ \A v \in Workers \ {w} : header'[v] = header[v] /\ pc'[v] = pc[v]
  BY <1>1, <1>2 DEF EtagsInv
<1>4. ASSUME h # Absent
      PROVE  /\ target.kind = "scim"
             /\ h.asOf \in 0..Len(sent) /\ Newest(sent, h.user, h.etag, h.asOf)
             /\ h.user \in {e.user : e \in Range(job[w])}
  <2> DEFINE u == Plan(job[w][1]).user
             told == {t \in Range(etags) : t.user = u}
             tag == CHOOSE t \in told : TRUE
  <2>1. /\ Conditional(job[w]) /\ told # {}
        /\ h = [user |-> u, etag |-> tag.etag, asOf |-> Len(sent)]
    BY <1>4 DEF IfMatch
  <2>2. h.user = u /\ h.etag = tag.etag /\ h.asOf = Len(sent)
    BY <2>1
  <2>3. tag \in Range(etags) /\ tag.user = u
    BY <2>1
  <2> HIDE DEF tag, told, h
  <2>4. Newest(sent, tag.user, tag.etag, Len(sent))
    BY <2>3 DEF EtagsInv, TagsSound
  <2>5. u \in {e.user : e \in Range(job[w])}
    BY <1>1, <2>1, ConditionNames
  <2>6. target.kind = "scim"
    BY <2>1 DEF Conditional
  <2> HIDE DEF u
  <2>. QED
    BY <1>2, <2>2, <2>3, <2>4, <2>5, <2>6
<1> HIDE DEF h
<1>5. HeaderSound(sent, h, pc'[w], job[w])
  BY <1>4 DEF HeaderSound
<1>6. ASSUME NEW v \in Workers
      PROVE  /\ HeaderSound(sent, header'[v], pc'[v], job[v])
             /\ header'[v] # Absent => target.kind = "scim"
  <2>1. CASE v = w
    BY <1>3, <1>4, <1>5, <2>1
  <2>2. CASE v # w
    BY <1>3, <2>2 DEF EtagsInv
  <2>. QED
    BY <2>1, <2>2
<1>. QED
  BY <1>1, <1>3, <1>6 DEF EtagsInv, SendingAssumption

\* The end of an attempt stands nobody up.
LEMMA EndingStands ==
  ASSUME SentInv, NEW w \in Workers,
         (\E outcome : Finish(w, outcome)) \/ (\E status, after : Fail(w, status, after))
  PROVE  Stands
<1>1. pc \in [Workers -> Places] /\ job \in [Workers -> Seq(Events)]
  BY DEF SentInv, SlotTypes
<1>2. \/ pc' = [pc EXCEPT ![w] = "idle"] /\ job' = [job EXCEPT ![w] = <<>>]
      \/ pc' = [pc EXCEPT ![w] = "asleep"] /\ job' = job
  BY DEF Fail, Finish
<1>3. "idle" \notin Waits /\ "asleep" \notin Waits
  BY DEF Waits
<1>. QED
  BY <1>1, <1>2, <1>3 DEF Stands

LEMMA EtagsStep == ASSUME EtagsInv, SentInv, [SendNext]_sendVars PROVE EtagsInv'
<1>1. pc \in [Workers -> Places] /\ job \in [Workers -> Seq(Events)]
  BY DEF SentInv, SlotTypes
<1>2. ASSUME NEW w \in Workers, Take(w) \/ Wake(w) \/ Acquire(w)
      PROVE  EtagsInv'
  <2>1. UNCHANGED <<target, etags, header, sent>>
    BY <1>2 DEF Take, Wake, Acquire, etagVars
  <2>2. \/ Take(w)
        \/ job' = job /\ \E place \in {"pass", "acquire", "send", "starved"} : pc' = [pc EXCEPT ![w] = place]
    BY <1>2 DEF Wake, Acquire
  <2>3. CASE Take(w)
    <3>1. /\ \E es : job' = [job EXCEPT ![w] = es]
          /\ pc' = [pc EXCEPT ![w] = "pass"]
      BY <2>3 DEF Take
    <3>2. Stands
      BY <1>1, <3>1 DEF Stands, Waits
    <3>. QED
      BY <2>1, <3>2, RestingKeepsTags
  <2>4. CASE job' = job /\ \E place \in {"pass", "acquire", "send", "starved"} : pc' = [pc EXCEPT ![w] = place]
    <3>1. Stands
      BY <1>1, <2>4 DEF Stands, Waits
    <3>. QED
      BY <2>1, <3>1, RestingKeepsTags
  <2>. QED
    BY <2>2, <2>3, <2>4
<1>3. ASSUME NEW w \in Workers, Pass(w) \/ SendNothing(w) \/ Refused(w)
      PROVE  EtagsInv'
  <2>1. UNCHANGED <<target, etags, header, sent>>
    BY <1>3 DEF Pass, SendNothing, Refused, etagVars
  <2>2. \/ job' = job /\ pc' = [pc EXCEPT ![w] = "acquire"]
        \/ \E outcome : Finish(w, outcome)
        \/ \E status, after : Fail(w, status, after)
    BY <1>3 DEF Pass, SendNothing, Refused
  <2>3. Stands
    <3>1. CASE job' = job /\ pc' = [pc EXCEPT ![w] = "acquire"]
      BY <1>1, <3>1 DEF Stands, Waits
    <3>2. CASE (\E outcome : Finish(w, outcome)) \/ \E status, after : Fail(w, status, after)
      BY <3>2, EndingStands
    <3>. QED
      BY <2>2, <3>1, <3>2
  <2>. QED
    BY <2>1, <2>3, RestingKeepsTags
<1>4. ASSUME NEW w \in Workers, Publish(w) PROVE EtagsInv'
  <2>1. UNCHANGED <<target, etags, header>> /\ target.kind # "scim"
    BY <1>4 DEF Publish, etagVars
  <2>2. CASE Finish(w, "delivered") /\ sent' = Append(sent, Request(w, 200, Absent))
    <3>1. Stands
      BY <2>2, EndingStands
    <3>. QED
      BY <2>1, <2>2, <3>1, AskingKeepsTags
  <2>3. CASE Fail(w, Absent, Absent) /\ UNCHANGED sent
    <3>1. Stands
      BY <2>3, EndingStands
    <3>. QED
      BY <2>1, <2>3, <3>1, RestingKeepsTags
  <2>. QED
    BY <1>4, <2>2, <2>3 DEF Publish
<1>5. ASSUME NEW w \in Workers, NEW a \in target.answers, Answer(w, a) PROVE EtagsInv'
  <2>1. /\ pc[w] = "wire" /\ UNCHANGED <<target, header>>
        /\ Accepted(w, a) \/ Declined(w, a) \/ Unanswered(w, a)
    BY <1>5 DEF Answer
  <2>2. Stands
    BY <2>1, EndingStands DEF Accepted, Declined, Unanswered
  <2>3. CASE Accepted(w, a)
    <3> DEFINE tells == Tells(w, a)
    <3>1. /\ sent' = Append(sent, Request(w, a.status, tells))
          /\ \/ tells = Absent /\ UNCHANGED etags
             \/ tells # Absent /\ RememberEtag(tells, Len(sent) + 1)
      BY <2>3 DEF Accepted
    <3> HIDE DEF tells
    <3>. QED
      BY <2>1, <2>2, <3>1, AskingKeepsTags
  <2>4. CASE Declined(w, a) \/ Unanswered(w, a)
    <3>1. UNCHANGED etags /\ \E status : sent' = Append(sent, Request(w, status, Absent))
      BY <2>4 DEF Declined, Unanswered
    <3>. QED
      BY <2>1, <2>2, <3>1, AskingKeepsTags
  <2>. QED
    BY <2>1, <2>3, <2>4
<1>6. ASSUME (\E ttl \in TokenTtls : TokenArrives(ttl)) \/ TokenFails \/ ClockTicks \/ UNCHANGED sendVars
      PROVE  EtagsInv'
  <2>1. UNCHANGED <<target, etags, header, sent, job>>
    BY <1>6 DEF TokenArrives, TokenFails, ClockTicks, sendVars, etagVars, slotVars
  <2>2. \/ \E place : pc' = [v \in Workers |-> IF pc[v] = "token" THEN place ELSE pc[v]]
        \/ pc' = pc
    BY <1>6 DEF TokenArrives, TokenFails, ClockTicks, sendVars, slotVars
  <2>3. Stands
    BY <2>1, <2>2 DEF Stands, Waits
  <2>. QED
    BY <2>1, <2>3, RestingKeepsTags
<1>. QED
  BY <1>2, <1>3, <1>4, <1>5, <1>6, AuthenticatingKeepsTags DEF SendNext

-----------------------------------------------------------------------------
(* Sending: who waits for a token *)

AwaitInv == \A w \in Workers : pc[w] = "token" => inFlight # Absent

LEMMA InitAwait == TargetsAssumption /\ SendingAssumption /\ SendInit => AwaitInv
  BY DEF SendInit, AwaitInv

\* Nobody starts to wait while the refresh under way stays so.
AwaitRests ==
  /\ UNCHANGED inFlight
  /\ \A v \in Workers : pc'[v] = "token" => pc[v] = "token"

LEMMA EndingAwaits ==
  ASSUME SentInv, NEW w \in Workers, UNCHANGED inFlight,
         (\E outcome : Finish(w, outcome)) \/ (\E status, after : Fail(w, status, after))
  PROVE  AwaitRests
<1>1. pc \in [Workers -> Places]
  BY DEF SentInv, SlotTypes
<1>2. pc' = [pc EXCEPT ![w] = "idle"] \/ pc' = [pc EXCEPT ![w] = "asleep"]
  BY DEF Fail, Finish
<1>. QED
  BY <1>1, <1>2 DEF AwaitRests

LEMMA AwaitStep == ASSUME AwaitInv, SentInv, FetchInv, [SendNext]_sendVars PROVE AwaitInv'
<1>1. pc \in [Workers -> Places]
  BY DEF SentInv, SlotTypes
<1>2. ASSUME NEW w \in Workers, Take(w) \/ Wake(w) \/ Acquire(w) PROVE AwaitRests
  <2>1. /\ UNCHANGED inFlight
        /\ \E place \in {"pass", "acquire", "send", "starved"} : pc' = [pc EXCEPT ![w] = place]
    BY <1>2 DEF Take, Wake, Acquire, authVars
  <2>. QED
    BY <1>1, <2>1 DEF AwaitRests
<1>3. ASSUME NEW w \in Workers, Pass(w) \/ SendNothing(w) \/ Publish(w) \/ Refused(w)
      PROVE  AwaitRests
  <2>1. UNCHANGED inFlight
    BY <1>3 DEF Pass, SendNothing, Publish, Refused, authVars
  <2>2. \/ pc' = [pc EXCEPT ![w] = "acquire"]
        \/ \E outcome : Finish(w, outcome)
        \/ \E status, after : Fail(w, status, after)
    BY <1>3 DEF Pass, SendNothing, Publish, Refused
  <2>3. CASE pc' = [pc EXCEPT ![w] = "acquire"]
    BY <1>1, <2>1, <2>3 DEF AwaitRests
  <2>. QED
    BY <2>1, <2>2, <2>3, EndingAwaits
<1>4. ASSUME NEW w \in Workers, NEW a \in target.answers, Answer(w, a) PROVE AwaitRests
  <2>1. UNCHANGED inFlight
    BY <1>4 DEF Answer, Accepted, Declined, Unanswered, authVars
  <2>2. (\E outcome : Finish(w, outcome)) \/ \E status, after : Fail(w, status, after)
    BY <1>4 DEF Answer, Accepted, Declined, Unanswered
  <2>. QED
    BY <2>1, <2>2, EndingAwaits
<1>5. ASSUME NEW w \in Workers, Authenticate(w) PROVE AwaitInv'
  <2>1. CASE pc' = [pc EXCEPT ![w] = "wire"] /\ UNCHANGED authVars
    BY <1>1, <2>1 DEF AwaitInv, authVars
  <2>2. CASE pc' = [pc EXCEPT ![w] = "token"] /\ Joins /\ UNCHANGED authVars
    BY <1>1, <2>2 DEF AwaitInv, Joins, authVars
  <2>3. CASE inFlight' = Len(fetches) + 1
    <3>1. Len(fetches) + 1 \in Int /\ Absent \notin Int
      BY DEF FetchInv, SendingAssumption
    <3>. QED
      BY <2>3, <3>1 DEF AwaitInv
  <2>. QED
    BY <1>5, <2>1, <2>2, <2>3 DEF Authenticate
<1>6. ASSUME (\E ttl \in TokenTtls : TokenArrives(ttl)) \/ TokenFails PROVE AwaitInv'
  <2>1. \E place \in {"wire", "refused"} : pc' = [v \in Workers |-> IF pc[v] = "token" THEN place ELSE pc[v]]
    BY <1>6 DEF TokenArrives, TokenFails
  <2>. QED
    BY <2>1 DEF AwaitInv
<1>7. ASSUME ClockTicks \/ UNCHANGED sendVars PROVE AwaitRests
  BY <1>7 DEF ClockTicks, sendVars, slotVars, authVars, AwaitRests
<1>8. AwaitRests => AwaitInv'
  BY DEF AwaitInv, AwaitRests
<1>. QED
  BY <1>2, <1>3, <1>4, <1>5, <1>6, <1>7, <1>8 DEF SendNext

\* An event counts as delivered only when a request that carried it was accepted
\* (or it had nothing to send), as failed only when its attempts are used up or
\* its job met an answer that no retry would change, and its retries repeat its
\* key; the ring lists the newest dead letters, newest first; an ETag is the newest
\* the target told of its user, and so was the one a request demands, when it was
\* made; who waits for a token waits for a refresh under way (wire.ts:80-96,
\* base-adapter.ts:385-410, dead-letter.ts:25-57, sender-scim.ts:304-337,
\* auth.ts:142-158).
THEOREM SentTrulyHolds == TargetsAssumption /\ SendingAssumption /\ SendSpec => []SentTruly
<1> DEFINE I == SentInv /\ RingInv /\ EtagsInv /\ FetchInv /\ AwaitInv
<1>1. TargetsAssumption /\ SendingAssumption /\ SendInit => I
  BY InitSent, InitRing, InitEtags, InitFetch, InitAwait
<1>2. I /\ [SendNext]_sendVars => I'
  BY SentStep, RingStep, EtagsStep, FetchStep, AwaitStep
<1>3. I => SentTruly
  BY ResultsHold, RingTells, EtagsTell
     DEF SentTruly, FetchInv, AwaitInv, RefreshAwaited
<1> HIDE DEF I
<1>. QED
  BY <1>1, <1>2, <1>3, PTL DEF SendSpec
=============================================================================
