---------------------------- MODULE ReceiverProofs -----------------------------
(***************************************************************************)
(* The receiver's safety for any requests, users, entitlements, connectors *)
(* and capacities.  Each handler is first summed up by what it may do to   *)
(* the dedup keys, the SoD record and the connector lanes; the invariants  *)
(* on them follow from the summaries.  What users hold and what connectors *)
(* are told follows from what the last event and the last task said of     *)
(* each user and entitlement, and from where the messages that need        *)
(* approval are.  What the members of a group hold needs that a key stands *)
(* for one message: then the first copy of a message finds its key fresh.  *)
(***************************************************************************)
EXTENDS ReceiverEngine, SeqLemmas

-----------------------------------------------------------------------------
(* The inductive invariant *)

\* The keys remembered are the last ones accepted, and all different.
Windowed ==
  /\ Len(seen) <= Len(applied)
  /\ Len(seen) = Capacity \/ Len(seen) = Len(applied)
  /\ \A i \in 1..Len(seen) : seen[i] = applied[Len(applied) - Len(seen) + i]
  /\ IsInjective(seen)

\* Approvals fall due within a pump only.
PumpUnderWay == settling > 0 => pumping

IInv == TypeOK /\ LanesExact /\ SodComplete /\ Windowed /\ DedupWindow /\ PumpUnderWay

-----------------------------------------------------------------------------
(* What a handler may do *)

Remembers == UNCHANGED dedupVars \/ \E m \in Message : Fresh(m) /\ Remember(m)

Records ==
  \/ UNCHANGED sodVars
  \/ \E add, drop \in SUBSET Users, e \in Entitlements, classified \in BOOLEAN :
       Record(add, drop, e, classified)

Provides ==
  \/ ProvisionNothing
  \/ \E tasks \in Seq(Tasks), lanes \in SUBSET Lanes, gated \in BOOLEAN :
       Provision(tasks, lanes, gated)

Effects == Remembers /\ Records /\ Provides /\ StoreTypeOK'

LEMMA OneTask ==
  ASSUME NEW u \in Users, NEW op \in Operations, NEW e \in Entitlements \cup {None},
         NEW lanes \in SUBSET Lanes, NEW gated \in BOOLEAN,
         Provision(<<Task(u, op, e)>>, lanes, gated)
  PROVE  Provides
<1>1. Task(u, op, e) \in Tasks
  BY ReceiverAssumption DEF TaskSet, Task
<1>2. <<Task(u, op, e)>> \in Seq(Tasks)
  BY <1>1
<1> QED BY <1>2 DEF Provides

LEMMA AccountEffects ==
  ASSUME NEW m \in Message, m.user \in Users, NEW op \in Operations,
         AccountProvisioned(m, op) \/ NothingCounted
  PROVE  Remembers /\ Records /\ Provides
<1>1. CASE NothingCounted
  BY <1>1 DEF NothingCounted, Remembers, Records, Provides, ProvisionNothing
<1>2. CASE Fresh(m) /\ Remember(m) /\ UNCHANGED sodVars
           /\ Provision(<<Task(m.user, op, None)>>, IdentityLanes, FALSE)
  <2>1. IdentityLanes \in SUBSET Lanes
    BY ReceiverAssumption DEF IdentityLanes
  <2> QED BY <1>2, <2>1, OneTask DEF Remembers, Records
<1> QED BY <1>1, <1>2 DEF AccountProvisioned

LEMMA UserCallEffects ==
  ASSUME StoreTypeOK, NEW m \in Message, m.via = "scim",
         ScimPut(m) \/ ScimPatchUser(m) \/ ScimDeleteUser(m)
  PROVE  Effects
<1>1. m.op \in UserCalls /\ m.user \in Users /\ m.switch \in Switches
  BY DEF ScimPut, ScimPatchUser, ScimDeleteUser, Message, UserCalls
<1>2. \A a \in Accounts : /\ Switched(a, m.switch) \in Accounts
                          /\ \A s \in Switches : Upserted(a, s) \in Accounts
                          /\ Removed(a) \in Accounts
  BY <1>1 DEF Switched, Upserted, Removed, Accounts, Live, Switches
<1>3. accounts[m.user] \in Accounts
  BY <1>1 DEF StoreTypeOK
<1>4. \A a \in Accounts : SetAccount(m.user, a) /\ UNCHANGED <<groups, members>> => StoreTypeOK'
  BY <1>1 DEF StoreTypeOK, SetAccount
<1>5. UNCHANGED storeVars => StoreTypeOK'
  BY DEF StoreTypeOK, storeVars
<1>6. CASE ScimPut(m)
  <2>1. StoreTypeOK'
    BY <1>1, <1>2, <1>3, <1>4, <1>5, <1>6 DEF ScimPut, storeVars
  <2>2. (IF m.op = "PUT" THEN "update" ELSE "create") \in Operations
    BY DEF Operations
  <2>3. Remembers /\ Records /\ Provides
    BY <1>1, <1>6, <2>2, AccountEffects DEF ScimPut
  <2> QED BY <2>1, <2>3 DEF Effects
<1>7. CASE ScimPatchUser(m)
  <2> DEFINE before == Upserted(accounts[m.user], "on")
             after == Switched(before, m.switch)
             op == CASE after = before -> "patch"
                     [] after # before /\ after = "active" -> "reactivate"
                     [] after # before /\ after = "inactive" -> "deactivate"
  <2>1. before \in Accounts /\ after \in Accounts
    BY <1>2, <1>3 DEF Switches
  <2>2. after = before \/ after \in {"active", "inactive"}
    BY <1>1 DEF Switched, Switches
  <2>3. op \in Operations
    BY <2>2 DEF Operations
  <2>4. StoreTypeOK'
    BY <1>4, <1>7, <2>1 DEF ScimPatchUser
  <2>5. AccountProvisioned(m, op) \/ NothingCounted
    BY <1>7 DEF ScimPatchUser
  <2> HIDE DEF op
  <2>6. Remembers /\ Records /\ Provides
    BY <1>1, <2>3, <2>5, AccountEffects
  <2> QED BY <2>4, <2>6 DEF Effects
<1>8. CASE ScimDeleteUser(m)
  <2>1. StoreTypeOK'
    BY <1>2, <1>3, <1>4, <1>8 DEF ScimDeleteUser
  <2>2. "delete" \in Operations
    BY DEF Operations
  <2>3. Remembers /\ Records /\ Provides
    BY <1>1, <1>8, <2>2, AccountEffects DEF ScimDeleteUser
  <2> QED BY <2>1, <2>3 DEF Effects
<1> QED BY <1>6, <1>7, <1>8

LEMMA GroupCallEffects ==
  ASSUME StoreTypeOK, NEW m \in Message, m.via = "scim",
         ScimCreateGroup(m) \/ ScimPatchGroup(m)
  PROVE  Effects
<1>1. m.op \in GroupCalls /\ m.ent \in Entitlements
  BY DEF ScimCreateGroup, ScimPatchGroup, Message, GroupCalls
<1>2. CASE ScimCreateGroup(m)
  <2>1. StoreTypeOK'
    BY <1>1, <1>2 DEF ScimCreateGroup, CreateGroup, StoreTypeOK
  <2>2. Remembers /\ Records /\ Provides
    BY <1>2 DEF ScimCreateGroup, NothingCounted, Remembers, Records, Provides, ProvisionNothing
  <2> QED BY <2>1, <2>2 DEF Effects
<1>3. CASE ScimPatchGroup(m)
  <2> DEFINE add == Added(m.ent, m.op, m.user)
             drop == Dropped(m.ent, m.op, m.user)
             grants == IF add = {} THEN <<>> ELSE <<Task(m.user, "grant", m.ent)>>
             lanes == {IF groups[m.ent] = "named" THEN SystemLane[m.ent] ELSE DefaultLane}
  <2>1. add \in SUBSET Users /\ drop \in SUBSET Users
    <3>1. members[m.ent] \in SUBSET Users
      BY <1>1 DEF StoreTypeOK
    <3>2. m.op \in GroupChanges /\ (m.op \in {"add", "replace"} => m.user \in Users)
      BY <1>3 DEF ScimPatchGroup, Message
    <3>3. add \in SUBSET Users
      BY <3>2 DEF Added
    <3>4. drop \in SUBSET Users
      BY <3>1, <3>2 DEF Dropped, GroupChanges
    <3> QED BY <3>3, <3>4
  <2>2. StoreTypeOK'
    <3>1. groups' \in [Entitlements -> {"absent", "unnamed", "named"}]
      BY <1>1, <1>3 DEF ScimPatchGroup, PatchGroup, StoreTypeOK
    <3>2. members' \in [Entitlements -> SUBSET Users]
      BY <1>1, <1>3, <2>1 DEF ScimPatchGroup, PatchGroup, StoreTypeOK
    <3> QED BY <1>3, <3>1, <3>2 DEF ScimPatchGroup, StoreTypeOK
  <2>3. CASE NothingCounted
    BY <2>2, <2>3 DEF NothingCounted, Effects, Remembers, Records, Provides, ProvisionNothing
  <2>4. CASE Fresh(m) /\ Remember(m) /\ Record(add, drop, m.ent, groups[m.ent] = "named")
               /\ \E order \in SetToSeqs(drop) :
                    Provision(grants \o [i \in DOMAIN order |->
                                           Task(order[i], "revoke", m.ent)], lanes, FALSE)
    <3>1. PICK order \in SetToSeqs(drop) :
            Provision(grants \o [i \in DOMAIN order |->
                                   Task(order[i], "revoke", m.ent)], lanes, FALSE)
      BY <2>4
    <3> DEFINE revokes == [i \in DOMAIN order |-> Task(order[i], "revoke", m.ent)]
    <3>2. Cardinality(drop) \in Nat
      BY <2>1, FS_Subset, FS_CardinalityType, ReceiverAssumption
    <3>3. order \in [1..Cardinality(drop) -> drop]
      BY <3>1 DEF SetToSeqs
    <3>4. \A i \in DOMAIN order : Task(order[i], "revoke", m.ent) \in Tasks
      BY <1>1, <2>1, <3>3, ReceiverAssumption DEF Task, TaskSet, Operations
    <3>5. revokes \in Seq(Tasks)
      <4>1. revokes \in [1..Cardinality(drop) -> Tasks]
        BY <3>3, <3>4
      <4> QED BY <3>2, <4>1
    <3>6. grants \in Seq(Tasks)
      <4>1. add # {} => m.user \in Users
        BY <2>1 DEF Added
      <4>2. add # {} => Task(m.user, "grant", m.ent) \in Tasks
        BY <1>1, <4>1, ReceiverAssumption DEF Task, TaskSet, Operations
      <4> QED BY <4>2
    <3>7. grants \o revokes \in Seq(Tasks)
      BY <3>5, <3>6
    <3>8. lanes \in SUBSET Lanes
      BY <1>1, ReceiverAssumption
    <3>9. Provides
      BY <3>1, <3>7, <3>8 DEF Provides
    <3>10. Records
      BY <1>1, <2>1, <2>4 DEF Records
    <3>11. Remembers
      BY <2>4 DEF Remembers
    <3> QED BY <2>2, <3>9, <3>10, <3>11 DEF Effects
  <2> QED BY <1>3, <2>3, <2>4 DEF ScimPatchGroup
<1> QED BY <1>2, <1>3

LEMMA IngestEffects ==
  ASSUME StoreTypeOK, NEW m \in Message, Ingest(m)
  PROVE  Effects
<1>1. CASE ~Fresh(m)
  <2>1. UNCHANGED storeVars /\ NothingCounted
    BY <1>1 DEF Ingest, storeVars
  <2> QED BY <2>1 DEF NothingCounted, storeVars, StoreTypeOK, Effects, Remembers, Records,
                      Provides, ProvisionNothing
<1>2. CASE Fresh(m)
  <2>1. Remembers /\ UNCHANGED <<groups, members>>
    BY <1>2 DEF Ingest, Remembers
  <2>2. m.gated \in BOOLEAN /\ IdentityLanes \in SUBSET Lanes
    BY ReceiverAssumption DEF Message, IdentityLanes
  <2>3. ASSUME NEW u \in Users, NEW a \in Accounts, SetAccount(u, a)
        PROVE  StoreTypeOK'
    BY <2>1, <2>3 DEF StoreTypeOK, SetAccount
  <2>4. \A a \in Accounts : Upserted(a, "on") \in Accounts /\ Removed(a) \in Accounts
    BY DEF Upserted, Removed, Switched, Accounts, Live
  <2>5. CASE Noted(m)
    BY <2>1, <2>5 DEF Noted, sodVars, Effects, Records, Provides, StoreTypeOK
  <2>6. CASE m.user # None /\ (Joined(m) \/ Touched(m) \/ Left(m))
    <3>1. m.user \in Users /\ accounts[m.user] \in Accounts
      BY <2>6 DEF Message, StoreTypeOK
    <3>2. CASE Joined(m)
      <4>1. StoreTypeOK'
        BY <2>3, <2>4, <3>1, <3>2 DEF Joined
      <4>2. m.op \in Operations /\ Records
        BY <3>2 DEF Joined, Operations, Records
      <4>3. Provides
        BY <2>2, <3>1, <3>2, <4>2, OneTask DEF Joined
      <4> QED BY <2>1, <4>1, <4>2, <4>3 DEF Effects
    <3>3. CASE Touched(m)
      <4>1. StoreTypeOK' /\ Records
        BY <2>1, <3>3 DEF Touched, StoreTypeOK, Records
      <4>2. "patch" \in Operations
        BY DEF Operations
      <4>3. Provides
        BY <2>2, <3>1, <3>3, <4>2, OneTask DEF Touched
      <4> QED BY <2>1, <4>1, <4>3 DEF Effects
    <3>4. CASE Left(m)
      <4>1. StoreTypeOK'
        BY <2>3, <2>4, <3>1, <3>4 DEF Left, Accounts, Live
      <4>2. m.op \in Operations /\ Records
        BY <3>4 DEF Left, Operations, Records
      <4>3. Provides
        BY <2>2, <3>1, <3>4, <4>2, OneTask DEF Left
      <4> QED BY <2>1, <4>1, <4>2, <4>3 DEF Effects
    <3> QED BY <2>6, <3>2, <3>3, <3>4
  <2>7. CASE m.user # None /\ (Granted(m) \/ Revoked(m))
    <3>1. /\ m.user \in Users /\ accounts[m.user] \in Accounts
          /\ m.ent \in Entitlements /\ {SystemLane[m.ent]} \in SUBSET Lanes
          /\ "grant" \in Operations /\ "revoke" \in Operations
      <4>1. m.user \in Users /\ accounts[m.user] \in Accounts
        BY <2>7 DEF Message, StoreTypeOK
      <4>2. m.ent \in Entitlements
        BY <2>7 DEF Message, Granted, Revoked
      <4>3. SystemLane[m.ent] \in Lanes
        BY <4>2, ReceiverAssumption
      <4>4. "grant" \in Operations /\ "revoke" \in Operations
        BY DEF Operations
      <4> QED BY <4>1, <4>2, <4>3, <4>4
    <3>2. StoreTypeOK'
      BY <2>1, <2>3, <2>4, <2>7, <3>1 DEF Granted, Revoked, StoreTypeOK
    <3>3. Records
      BY <2>7, <3>1 DEF Granted, Revoked, Records
    <3>4. Provides
      BY <2>2, <2>7, <3>1, OneTask DEF Granted, Revoked
    <3> QED BY <2>1, <3>2, <3>3, <3>4 DEF Effects
  <2> QED BY <1>2, <2>5, <2>6, <2>7 DEF Ingest
<1> QED BY <1>1, <1>2

\* Every handler does to the shared state what Effects allows.
LEMMA HandlerEffects ==
  ASSUME StoreTypeOK, NEW m \in Message, ScimCall(m) \/ Ingest(m)
  PROVE  Effects
BY UserCallEffects, GroupCallEffects, IngestEffects DEF ScimCall

-----------------------------------------------------------------------------
(* The dedup keys *)

\* The keys between two places of a sequence.
LEMMA WindowFinite ==
  ASSUME NEW s, NEW a \in Nat, NEW b \in Nat, NEW T,
         \A k \in a..b : s[k] \in T,
         \A x \in T : \E k \in a..b : s[k] = x
  PROVE  IsFiniteSet(T)
<1> DEFINE f == [k \in a..b |-> s[k]]
<1>1. IsFiniteSet(a..b)
  BY FS_Interval
<1>2. f \in Surjection(a..b, T)
  BY DEF Surjection
<1> QED BY <1>1, <1>2, FS_Surjection

LEMMA RememberWindow ==
  ASSUME TypeOK, Windowed, DedupWindow, NEW m \in Message, Fresh(m), Remember(m)
  PROVE  /\ seen' \in Seq(Keys) /\ Len(seen') <= Capacity /\ applied' \in Seq(Keys)
         /\ Windowed' /\ DedupWindow'
<1>1. CASE m.key = None
  <2>1. seen' = seen /\ applied' = applied
    BY <1>1 DEF Remember
  <2>2. Windowed'
    BY <2>1 DEF Windowed
  <2>3. DedupWindow'
    BY <2>1 DEF DedupWindow
  <2> QED BY <2>1, <2>2, <2>3 DEF TypeOK
<1>2. CASE m.key # None
  <2> DEFINE k == m.key
             n == Len(applied)
             grown == Append(seen, k)
  <2>1. k \in Keys /\ k \notin Range(seen) /\ Capacity \in Nat
    BY <1>2, ReceiverAssumption DEF Message, Fresh
  <2>2. seen \in Seq(Keys) /\ applied \in Seq(Keys) /\ n \in Nat /\ Len(seen) \in Nat
        /\ Len(seen) <= Capacity /\ Len(seen) <= n
    BY DEF TypeOK, Windowed
  <2>3. applied' = Append(applied, k)
        /\ seen' = IF Len(seen) < Capacity THEN grown ELSE Tail(grown)
    BY <1>2 DEF Remember
  <2>4. grown \in Seq(Keys) /\ grown # <<>> /\ Len(grown) = Len(seen) + 1 /\ IsInjective(grown)
    BY <2>1, <2>2, AppendDistinct DEF Windowed
  <2>5. Tail(grown) \in Seq(Keys) /\ Len(Tail(grown)) = Len(seen) /\ IsInjective(Tail(grown))
    <3> HIDE DEF grown
    <3>1. Tail(grown) \in Seq(Keys) /\ IsInjective(Tail(grown))
      BY <2>4, TailDistinct
    <3>2. Len(Tail(grown)) = Len(grown) - 1
      BY <2>4
    <3> QED BY <2>2, <2>4, <3>1, <3>2
  <2>6. /\ seen' \in Seq(Keys) /\ Len(seen') <= Capacity
        /\ applied' \in Seq(Keys) /\ Len(applied') = n + 1
        /\ IsInjective(seen')
    BY <2>1, <2>2, <2>3, <2>4, <2>5
  <2>7. \A i \in 1..Len(grown) : grown[i] = applied'[(n + 1) - Len(grown) + i]
    <3>1. \A i \in 1..Len(seen) : grown[i] = seen[i]
      BY <2>2
    <3>2. \A i \in 1..n : applied'[i] = applied[i]
      BY <2>2, <2>3
    <3>3. grown[Len(seen) + 1] = k /\ applied'[n + 1] = k
      BY <2>2, <2>3
    <3>4. ASSUME NEW i \in 1..Len(seen) PROVE grown[i] = applied'[(n + 1) - Len(grown) + i]
      <4>1. n - Len(seen) + i \in 1..n
        BY <2>2
      <4>2. seen[i] = applied[n - Len(seen) + i]
        BY DEF Windowed
      <4> QED BY <2>2, <2>4, <3>1, <3>2, <4>1, <4>2
    <3> HIDE DEF grown
    <3> QED BY <2>2, <2>4, <3>3, <3>4
  <2>8. Windowed'
    <3>1. CASE Len(seen) < Capacity
      <4>1. Len(seen) = n
        BY <3>1, <2>2 DEF Windowed
      <4>2. seen' = grown
        BY <2>3, <3>1
      <4>3. Len(seen') = Len(applied')
        BY <2>2, <2>4, <2>6, <4>1, <4>2
      <4>4. \A i \in 1..Len(seen') : seen'[i] = applied'[Len(applied') - Len(seen') + i]
        BY <2>6, <2>7, <4>2
      <4> QED BY <2>2, <2>6, <4>3, <4>4 DEF Windowed
    <3>2. CASE ~(Len(seen) < Capacity)
      <4>1. seen' = Tail(grown) /\ Len(seen') = Capacity
        BY <2>1, <2>2, <2>3, <2>5, <3>2
      <4>2. \A i \in 1..Len(seen') : seen'[i] = grown[i + 1]
        BY <2>4, <4>1
      <4>3. \A i \in 1..Len(seen') : seen'[i] = applied'[Len(applied') - Len(seen') + i]
        <5> HIDE DEF grown
        <5>1. TAKE i \in 1..Len(seen')
        <5>2. i + 1 \in 1..Len(grown) /\ Len(seen') = Len(seen)
          BY <2>2, <2>4, <2>5, <4>1
        <5>3. grown[i + 1] = applied'[(n + 1) - Len(grown) + (i + 1)]
          BY <2>7, <5>2
        <5>4. (n + 1) - Len(grown) + (i + 1) = Len(applied') - Len(seen') + i
          BY <2>2, <2>4, <2>6, <5>2
        <5> QED BY <4>2, <5>3, <5>4
      <4>4. Len(seen') <= Len(applied')
        BY <2>2, <2>5, <2>6, <4>1
      <4> QED BY <2>6, <4>1, <4>3, <4>4 DEF Windowed
    <3> QED BY <3>1, <3>2
  <2>9. DedupWindow'
    <3>1. SUFFICES ASSUME NEW j \in 1..(n + 1), NEW i \in 1..(j - 1), applied'[i] = applied'[j]
                   PROVE  Cardinality({applied'[x] : x \in (i + 1)..(j - 1)}) >= Capacity
      BY <2>6 DEF DedupWindow
    <3>2. \A x \in 1..n : applied'[x] = applied[x]
      BY <2>2, <2>3
    <3>3. {applied'[x] : x \in (i + 1)..(j - 1)} = {applied[x] : x \in (i + 1)..(j - 1)}
      BY <2>2, <3>2
    <3>4. CASE j <= n
      <4>1. j \in DOMAIN applied /\ i \in 1..n
        BY <2>2, <3>4
      <4>2. applied[i] = applied[j]
        BY <3>1, <3>2, <4>1
      <4>3. Cardinality({applied[x] : x \in (i + 1)..(j - 1)}) >= Capacity
        BY <4>1, <4>2 DEF DedupWindow
      <4> QED BY <3>3, <4>3
    <3>5. CASE j = n + 1
      <4> DEFINE window == {applied[x] : x \in (i + 1)..n}
      <4>1. applied[i] = k /\ i \in 1..n
        BY <2>2, <2>3, <3>1, <3>2, <3>5
      <4>2. i <= n - Len(seen)
        <5>1. SUFFICES ASSUME i > n - Len(seen) PROVE FALSE
          BY <2>2
        <5> DEFINE y == i - (n - Len(seen))
        <5>2. y \in 1..Len(seen) /\ n - Len(seen) + y = i
          BY <2>2, <4>1, <5>1
        <5>3. seen[y] = k
          BY <4>1, <5>2 DEF Windowed
        <5> QED BY <2>1, <2>2, <5>2, <5>3 DEF Range
      <4>3. Len(seen) = Capacity
        BY <2>2, <4>1, <4>2 DEF Windowed
      <4>4. Range(seen) \subseteq window
        <5>1. SUFFICES ASSUME NEW y \in 1..Len(seen) PROVE seen[y] \in window
          BY <2>2 DEF Range
        <5>2. n - Len(seen) + y \in (i + 1)..n
          BY <2>2, <4>1, <4>2
        <5> QED BY <5>2 DEF Windowed
      <4>5. IsFiniteSet(window)
        <5>1. i + 1 \in Nat /\ n \in Nat
          BY <2>2
        <5>2. \A x \in (i + 1)..n : applied[x] \in window
          OBVIOUS
        <5>3. \A z \in window : \E x \in (i + 1)..n : applied[x] = z
          OBVIOUS
        <5> HIDE DEF window
        <5> QED BY <5>1, <5>2, <5>3, WindowFinite
      <4>6. Cardinality(Range(seen)) = Capacity
        BY <2>2, <4>3, LengthIsCardinality DEF Windowed
      <4>7. Cardinality(window) \in Nat /\ Cardinality(Range(seen)) <= Cardinality(window)
        BY <4>4, <4>5, FS_Subset, FS_CardinalityType
      <4>8. {applied[x] : x \in (i + 1)..(j - 1)} = window
        BY <2>2, <3>5
      <4> QED BY <2>1, <3>3, <4>6, <4>7, <4>8
    <3> QED BY <2>2, <3>4, <3>5
  <2> QED BY <2>6, <2>8, <2>9
<1> QED BY <1>1, <1>2
LEMMA DedupStill ==
  ASSUME Windowed, DedupWindow, UNCHANGED dedupVars
  PROVE  Windowed' /\ DedupWindow'
<1>1. seen' = seen /\ applied' = applied
  BY DEF dedupVars
<1>2. Windowed'
  BY <1>1 DEF Windowed
<1>3. DedupWindow'
  BY <1>1 DEF DedupWindow
<1> QED BY <1>2, <1>3

\* Whatever a handler does to the keys, they stay a window on those accepted.
LEMMA RememberKept ==
  ASSUME TypeOK, Windowed, DedupWindow, Remembers
  PROVE  /\ seen' \in Seq(Keys) /\ Len(seen') <= Capacity /\ applied' \in Seq(Keys)
         /\ log' \in Seq(Message)
         /\ Windowed' /\ DedupWindow'
<1>1. CASE UNCHANGED dedupVars
  <2>1. seen' = seen /\ applied' = applied /\ log' = log
    BY <1>1 DEF dedupVars
  <2> QED BY <1>1, <2>1, DedupStill DEF TypeOK
<1>2. CASE \E m \in Message : Fresh(m) /\ Remember(m)
  <2>1. PICK m \in Message : Fresh(m) /\ Remember(m)
    BY <1>2
  <2>2. log' \in Seq(Message)
    BY <2>1 DEF Remember, TypeOK
  <2> QED BY <2>1, <2>2, RememberWindow
<1> QED BY <1>1, <1>2 DEF Remembers

-----------------------------------------------------------------------------
(* Segregation of duties *)

\* Holding less breaks no further rule.
LEMMA ViolatedGrows ==
  ASSUME NEW u, NEW more, NEW less \in SUBSET more
  PROVE  Violated(u, less) \subseteq Violated(u, more)
BY DEF Violated

\* Who holds nothing breaks no rule: every rule names an entitlement.
LEMMA NothingViolated ==
  ASSUME NEW u
  PROVE  Violated(u, {}) = {}
<1>1. ASSUME NEW rule \in Toxic, rule \subseteq {}
      PROVE  FALSE
  <2>1. rule = {}
    BY <1>1
  <2> QED BY <2>1, ReceiverAssumption
<1>2. {rule \in Toxic : rule \subseteq {}} = {}
  BY <1>1
<1> QED BY <1>2 DEF Violated

\* There are finitely many conflicts to report.
LEMMA ConflictsFinite ==
  ASSUME NEW some \in SUBSET (Users \X Toxic)
  PROVE  IsFiniteSet(some)
<1>1. IsFiniteSet(Users \X Toxic)
  BY FS_Product, ReceiverAssumption
<1> QED BY <1>1, FS_Subset

LEMMA RecordKept ==
  ASSUME TypeOK, SodComplete, Records
  PROVE  /\ held' \in [Users -> SUBSET Entitlements]
         /\ known' \in [Users -> SUBSET Entitlements]
         /\ conflicts' \in SUBSET (Users \X Toxic)
         /\ violations' \in Nat
         /\ SodComplete'
<1>1. CASE UNCHANGED sodVars
  <2>1. /\ held' = held /\ known' = known
        /\ conflicts' = conflicts /\ violations' = violations
    BY <1>1 DEF sodVars
  <2> QED BY <2>1 DEF TypeOK, SodComplete
<1>2. CASE \E add, drop \in SUBSET Users, e \in Entitlements, classified \in BOOLEAN :
             Record(add, drop, e, classified)
  <2>1. PICK add \in SUBSET Users, drop \in SUBSET Users, e \in Entitlements,
             classified \in BOOLEAN : Record(add, drop, e, classified)
    BY <1>2
  <2> DEFINE grown == [u \in Users |->
                         IF u \notin add THEN known[u]
                         ELSE IF classified THEN known[u] \cup {e} ELSE known[u] \ {e}]
             found == UNION {Violated(u, grown[u]) : u \in add}
  <2>2. /\ held' = [u \in Users |-> (held[u] \cup (IF u \in add THEN {e} ELSE {}))
                                       \ (IF u \in drop THEN {e} ELSE {})]
        /\ known' = [u \in Users |-> IF u \in drop THEN grown[u] \ {e} ELSE grown[u]]
        /\ conflicts' = conflicts \cup found
        /\ violations' = violations + Cardinality(found \ conflicts)
    BY <2>1 DEF Record
  <2>3. held' \in [Users -> SUBSET Entitlements]
    BY <2>2 DEF TypeOK
  <2>4. grown \in [Users -> SUBSET Entitlements]
    BY DEF TypeOK
  <2>5. \A u \in Users : u \notin add => grown[u] = known[u]
    OBVIOUS
  <2>6. \A u \in add : Violated(u, grown[u]) \subseteq found
    OBVIOUS
  <2> HIDE DEF grown
  <2>7. known' \in [Users -> SUBSET Entitlements]
    BY <2>2, <2>4
  <2>8. found \in SUBSET (Users \X Toxic)
    BY DEF Violated
  <2> HIDE DEF found
  <2>9. conflicts' \in SUBSET (Users \X Toxic)
    BY <2>2, <2>8 DEF TypeOK
  <2>10. \A u \in Users : Violated(u, known'[u]) \subseteq conflicts'
    <3>1. TAKE u \in Users
    <3>2. known'[u] \in SUBSET grown[u]
      BY <2>2
    <3>3. Violated(u, known'[u]) \subseteq Violated(u, grown[u])
      BY <3>2, ViolatedGrows
    <3>4. CASE u \in add
      BY <2>2, <2>6, <3>3, <3>4
    <3>5. CASE u \notin add
      BY <2>2, <2>5, <3>3, <3>5 DEF SodComplete
    <3> QED BY <3>4, <3>5
  <2>11. /\ violations' = Cardinality(conflicts')
         /\ violations' \in Nat
    <3>1. IsFiniteSet(conflicts) /\ IsFiniteSet(found \ conflicts)
      BY <2>8, ConflictsFinite DEF TypeOK
    <3>2. conflicts \cup (found \ conflicts) = conflicts'
          /\ conflicts \cap (found \ conflicts) = {}
      BY <2>2
    <3>3. Cardinality(conflicts \cap (found \ conflicts)) = 0
      BY <3>2, FS_EmptySet
    <3>4. Cardinality(conflicts) \in Nat /\ Cardinality(found \ conflicts) \in Nat
      BY <3>1, FS_CardinalityType
    <3>5. Cardinality(conflicts') = Cardinality(conflicts) + Cardinality(found \ conflicts)
                                      - Cardinality(conflicts \cap (found \ conflicts))
      BY <3>1, <3>2, FS_Union
    <3> QED BY <2>2, <3>3, <3>4, <3>5 DEF SodComplete
  <2> QED BY <2>3, <2>7, <2>9, <2>10, <2>11 DEF SodComplete
<1> QED BY <1>1, <1>2 DEF Records

-----------------------------------------------------------------------------
(* The connector lanes *)

LEMMA SubmitKept ==
  ASSUME PoolTypeOK, LanesExact, NEW tasks \in Seq(Tasks), NEW lanes \in SUBSET Lanes,
         Submit(tasks, lanes)
  PROVE  PoolTypeOK' /\ LanesExact'
<1>1. inflight' = inflight /\ completed' = completed
  BY DEF Submit
<1>2. queue' = [l \in Lanes |-> IF l \in lanes THEN queue[l] \o tasks ELSE queue[l]]
      /\ submitted' = [l \in Lanes |-> IF l \in lanes THEN submitted[l] \o tasks
                                                        ELSE submitted[l]]
  BY DEF Submit
<1>3. \A l \in Lanes : /\ queue[l] \in Seq(Tasks) /\ submitted[l] \in Seq(Tasks)
                       /\ inflight[l] \in Nat /\ completed[l] \in Nat
  BY DEF PoolTypeOK
<1>4. \A l \in Lanes : queue[l] \o tasks \in Seq(Tasks) /\ submitted[l] \o tasks \in Seq(Tasks)
  BY <1>3
<1>5. PoolTypeOK'
  BY <1>1, <1>2, <1>3, <1>4 DEF PoolTypeOK
<1>6. LanesExact'
  <2>1. SUFFICES ASSUME NEW l \in Lanes
                 PROVE  /\ Len(submitted'[l]) = inflight[l] + completed[l] + Len(queue'[l])
                        /\ \A i \in DOMAIN queue'[l] :
                             queue'[l][i] = submitted'[l][inflight[l] + completed[l] + i]
    BY <1>1 DEF LanesExact
  <2> DEFINE q == queue[l]
             s == submitted[l]
             gone == inflight[l] + completed[l]
  <2>2. /\ q \in Seq(Tasks) /\ s \in Seq(Tasks) /\ gone \in Nat
        /\ Len(s) = gone + Len(q)
        /\ \A i \in 1..Len(q) : q[i] = s[gone + i]
    BY <1>3 DEF LanesExact
  <2>3. CASE l \notin lanes
    BY <1>2, <2>3 DEF LanesExact
  <2>4. CASE l \in lanes
    <3>1. queue'[l] = q \o tasks /\ submitted'[l] = s \o tasks
      BY <1>2, <2>4
    <3> HIDE DEF q, s, gone
    <3>2. Len(s \o tasks) = gone + Len(q \o tasks)
      <4>1. Len(s \o tasks) = Len(s) + Len(tasks) /\ Len(q \o tasks) = Len(q) + Len(tasks)
        BY <2>2, ConcatDistinct
      <4>2. Len(q) \in Nat /\ Len(tasks) \in Nat
        BY <2>2
      <4> QED BY <2>2, <4>1, <4>2
    <3>3. \A i \in 1..Len(q \o tasks) : (q \o tasks)[i] = (s \o tasks)[gone + i]
      <4>1. TAKE i \in 1..Len(q \o tasks)
      <4>2. CASE i <= Len(q)
        <5>1. (q \o tasks)[i] = q[i] /\ (s \o tasks)[gone + i] = s[gone + i]
          BY <2>2, <4>2
        <5> QED BY <2>2, <4>2, <5>1
      <4>3. CASE i > Len(q)
        <5>1. (q \o tasks)[i] = tasks[i - Len(q)]
          BY <2>2, <4>3
        <5>2. (s \o tasks)[gone + i] = tasks[gone + i - Len(s)]
          BY <2>2, <4>3
        <5> QED BY <2>2, <5>1, <5>2
      <4> QED BY <2>2, <4>2, <4>3
    <3>4. DOMAIN (q \o tasks) = 1..Len(q \o tasks)
      BY <2>2
    <3> QED BY <3>1, <3>2, <3>3, <3>4 DEF gone
  <2> QED BY <2>3, <2>4
<1> QED BY <1>5, <1>6

LEMMA PumpKept ==
  ASSUME PoolTypeOK, LanesExact, NEW kept \in Remainders, PumpLanes(kept)
  PROVE  PoolTypeOK' /\ LanesExact'
<1> DEFINE started(l) == Startable(l, kept[l])
<1>1. ASSUME NEW l \in Lanes
      PROVE  /\ queue[l] \in Seq(Tasks) /\ submitted[l] \in Seq(Tasks)
             /\ inflight[l] \in Nat /\ completed[l] \in Nat /\ LaneConcurrency[l] \in Nat
             /\ inflight[l] <= LaneConcurrency[l]
             /\ kept[l] \in Nat /\ kept[l] <= inflight[l]
  <2>1. kept[l] \in UNION {0..LaneConcurrency[k] : k \in Lanes} /\ kept[l] <= inflight[l]
    BY DEF Remainders
  <2>2. kept[l] \in Nat
    BY <2>1, PoolAssumption
  <2> QED BY <2>1, <2>2, PoolAssumption DEF PoolTypeOK
<1>2. ASSUME NEW l \in Lanes
      PROVE  /\ started(l) \in 0..Len(queue[l])
             /\ SimulateLatency => kept[l] + started(l) <= LaneConcurrency[l]
  BY <1>1 DEF Startable
<1>3. /\ queue' = [l \in Lanes |-> SubSeq(queue[l], started(l) + 1, Len(queue[l]))]
      /\ inflight' = [l \in Lanes |-> IF SimulateLatency THEN kept[l] + started(l) ELSE kept[l]]
      /\ completed' = [l \in Lanes |-> completed[l] + (inflight[l] - kept[l])
                                         + (IF SimulateLatency THEN 0 ELSE started(l))]
      /\ submitted' = submitted
  BY DEF PumpLanes
<1> HIDE DEF started
<1>4. ASSUME NEW l \in Lanes
      PROVE  /\ inflight'[l] \in Nat /\ inflight'[l] <= LaneConcurrency[l]
             /\ completed'[l] \in Nat
             /\ inflight'[l] + completed'[l] = inflight[l] + completed[l] + started(l)
  <2>1. Len(queue[l]) \in Nat /\ started(l) \in Nat
    BY <1>1, <1>2
  <2>2. CASE SimulateLatency
    <3>1. /\ inflight'[l] = kept[l] + started(l)
          /\ completed'[l] = completed[l] + (inflight[l] - kept[l]) + 0
      BY <1>3, <2>2
    <3>2. kept[l] + started(l) <= LaneConcurrency[l]
      BY <1>2, <2>2
    <3> QED BY <1>1, <2>1, <3>1, <3>2, SMTT(30)
  <2>3. CASE ~SimulateLatency
    <3>1. /\ inflight'[l] = kept[l]
          /\ completed'[l] = completed[l] + (inflight[l] - kept[l]) + started(l)
      BY <1>3, <2>3
    <3> QED BY <1>1, <2>1, <3>1, SMTT(30)
  <2> QED BY <2>2, <2>3
<1>5. ASSUME NEW l \in Lanes
      PROVE  /\ queue'[l] \in Seq(Tasks) /\ Len(queue'[l]) = Len(queue[l]) - started(l)
             /\ \A i \in 1..Len(queue'[l]) : queue'[l][i] = queue[l][started(l) + i]
  <2>1. queue'[l] = SubSeq(queue[l], started(l) + 1, Len(queue[l]))
    BY <1>3
  <2>2. queue[l] \in Seq(Tasks) /\ started(l) \in 0..Len(queue[l])
    BY <1>1, <1>2
  <2>3. LET rest == SubSeq(queue[l], started(l) + 1, Len(queue[l]))
        IN  /\ rest \in Seq(Tasks) /\ Len(rest) = Len(queue[l]) - started(l)
            /\ \A i \in 1..(Len(queue[l]) - started(l)) : rest[i] = queue[l][started(l) + i]
    BY <2>2, SplitElements, SMTT(30)
  <2> QED BY <2>1, <2>3
<1>6. PoolTypeOK'
  <2>1. queue' \in [Lanes -> Seq(Tasks)]
    BY <1>3, <1>5
  <2>2. inflight' \in [Lanes -> Nat]
    BY <1>3, <1>4
  <2>3. completed' \in [Lanes -> Nat]
    BY <1>3, <1>4
  <2> QED BY <1>3, <1>4, <2>1, <2>2, <2>3 DEF PoolTypeOK
<1>7. LanesExact'
  <2>1. SUFFICES ASSUME NEW l \in Lanes
                 PROVE  /\ Len(submitted[l]) = inflight'[l] + completed'[l] + Len(queue'[l])
                        /\ \A i \in DOMAIN queue'[l] :
                             queue'[l][i] = submitted[l][inflight'[l] + completed'[l] + i]
    BY <1>3 DEF LanesExact
  <2>2. /\ Len(submitted[l]) = inflight[l] + completed[l] + Len(queue[l])
        /\ \A i \in 1..Len(queue[l]) :
             queue[l][i] = submitted[l][inflight[l] + completed[l] + i]
    BY <1>1 DEF LanesExact
  <2>3. Len(queue[l]) \in Nat /\ started(l) \in 0..Len(queue[l])
    BY <1>1, <1>2
  <2>4. Len(submitted[l]) = inflight'[l] + completed'[l] + Len(queue'[l])
    BY <1>1, <1>4, <1>5, <2>2, <2>3
  <2>5. ASSUME NEW i \in 1..Len(queue'[l])
        PROVE  queue'[l][i] = submitted[l][inflight'[l] + completed'[l] + i]
    <3>1. started(l) + i \in 1..Len(queue[l])
      BY <1>5, <2>3
    <3>2. queue'[l][i] = submitted[l][inflight[l] + completed[l] + (started(l) + i)]
      BY <1>5, <2>2, <3>1
    <3>3. inflight[l] + completed[l] + (started(l) + i) = inflight'[l] + completed'[l] + i
      BY <1>1, <1>4, <2>3
    <3> QED BY <3>2, <3>3
  <2> QED BY <1>5, <2>4, <2>5
<1> QED BY <1>6, <1>7

LEMMA ProvideKept ==
  ASSUME TypeOK, LanesExact, Provides
  PROVE  /\ PoolTypeOK' /\ LanesExact'
         /\ approvals' \in Seq(Approvals) /\ Len(approvals') >= Len(approvals)
         /\ approved' = approved /\ denied' = denied
<1>1. PoolTypeOK /\ approvals \in Seq(Approvals)
  BY DEF TypeOK
<1>2. UNCHANGED poolVars => PoolTypeOK' /\ LanesExact'
  BY <1>1 DEF PoolTypeOK, LanesExact, poolVars
<1>3. CASE ProvisionNothing
  BY <1>1, <1>2, <1>3 DEF ProvisionNothing, approvalVars
<1>4. CASE \E tasks \in Seq(Tasks), lanes \in SUBSET Lanes, gated \in BOOLEAN :
             Provision(tasks, lanes, gated)
  <2>1. PICK tasks \in Seq(Tasks), lanes \in SUBSET Lanes, gated \in BOOLEAN :
               Provision(tasks, lanes, gated)
    BY <1>4
  <2>2. CASE gated
    <3> DEFINE items == [i \in DOMAIN tasks |-> [task |-> tasks[i], lanes |-> lanes]]
    <3>1. /\ approvals' = approvals \o items
          /\ UNCHANGED <<poolVars, approved, denied>>
      BY <2>1, <2>2 DEF Provision
    <3>2. items \in [1..Len(tasks) -> Approvals]
      BY DEF Approvals
    <3> HIDE DEF items
    <3>3. items \in Seq(Approvals)
      BY <3>2
    <3>4. approvals \o items \in Seq(Approvals) /\ Len(approvals \o items) >= Len(approvals)
      BY <1>1, <3>3
    <3> QED BY <1>2, <3>1, <3>4
  <2>3. CASE ~gated
    BY <1>1, <2>1, <2>3, SubmitKept DEF Provision, approvalVars
  <2> QED BY <2>2, <2>3
<1> QED BY <1>3, <1>4 DEF Provides

-----------------------------------------------------------------------------
(* The steps *)

\* What every step but the handler's and the pump's leaves alone.
LEMMA EngineStill ==
  ASSUME IInv, EngineUnchanged
  PROVE  /\ StoreTypeOK' /\ PoolTypeOK' /\ LanesExact' /\ SodComplete'
         /\ Windowed' /\ DedupWindow'
<1>1. StoreTypeOK'
  BY DEF EngineUnchanged, storeVars, StoreTypeOK, IInv, TypeOK
<1>2. PoolTypeOK' /\ LanesExact'
  BY DEF EngineUnchanged, poolVars, PoolTypeOK, LanesExact, IInv, TypeOK
<1>3. SodComplete'
  BY DEF EngineUnchanged, sodVars, SodComplete, IInv
<1>4. Windowed' /\ DedupWindow'
  BY DedupStill DEF EngineUnchanged, IInv
<1> QED BY <1>1, <1>2, <1>3, <1>4

LEMMA ClientStep ==
  ASSUME IInv, NEW q \in Requests, Admit(q) \/ Begin(q) \/ Abandon(q) \/ Consume(q)
  PROVE  IInv'
<1>1. EngineUnchanged /\ UNCHANGED <<settling, pumping, resets>>
  BY DEF Admit, Begin, Abandon, Consume, loopVars
<1>2. copies' \in [Requests -> Nat]
  BY SMTT(30) DEF Admit, Begin, Abandon, Consume, Delivered, IInv, TypeOK
<1>3. open' \in [Requests -> Nat]
  <2>1. open[q] \in Nat
    BY DEF IInv, TypeOK
  <2>2. CASE Admit(q)
    BY <2>1, <2>2 DEF Admit, IInv, TypeOK
  <2>3. CASE Begin(q)
    BY <2>1, <2>3 DEF Begin, IInv, TypeOK
  <2>4. CASE Abandon(q)
    BY <2>1, <2>4 DEF Abandon, IInv, TypeOK
  <2>5. CASE Consume(q)
    BY <2>5 DEF Consume, IInv, TypeOK
  <2> QED BY <2>2, <2>3, <2>4, <2>5
<1>4. current' \in Seq(Message)
  BY ReceiverAssumption DEF Admit, Begin, Abandon, Consume, loopVars, IInv, TypeOK
<1>5. TypeOK'
  BY <1>1, <1>2, <1>3, <1>4, EngineStill
  DEF EngineUnchanged, dedupVars, sodVars, approvalVars, IInv, TypeOK
<1> QED BY <1>1, <1>5, EngineStill DEF IInv, PumpUnderWay

LEMMA HandleStep ==
  ASSUME IInv, Handle
  PROVE  IInv'
<1> DEFINE m == Head(current)
<1>1. m \in Message /\ current' \in Seq(Message)
  BY DEF Handle, IInv, TypeOK
<1>2. /\ UNCHANGED <<copies, open, resets, settling, pumping>>
      /\ ScimCall(m) \/ Ingest(m)
  BY DEF Handle, clientVars
<1> HIDE DEF m
<1>3. Effects
  BY <1>1, <1>2, HandlerEffects DEF IInv, TypeOK
<1>4. /\ seen' \in Seq(Keys) /\ Len(seen') <= Capacity /\ applied' \in Seq(Keys)
      /\ log' \in Seq(Message) /\ Windowed' /\ DedupWindow'
  BY <1>3, RememberKept DEF Effects, IInv
<1>5. /\ held' \in [Users -> SUBSET Entitlements]
      /\ known' \in [Users -> SUBSET Entitlements]
      /\ conflicts' \in SUBSET (Users \X Toxic) /\ violations' \in Nat /\ SodComplete'
  BY <1>3, RecordKept DEF Effects, IInv
<1>6. /\ PoolTypeOK' /\ LanesExact'
      /\ approvals' \in Seq(Approvals) /\ Len(approvals') >= Len(approvals)
      /\ approved' = approved /\ denied' = denied
  BY <1>3, ProvideKept DEF Effects, IInv
<1>7. settling' \in 0..Len(approvals')
  <2>1. settling \in 0..Len(approvals) /\ Len(approvals) \in Nat
    BY DEF IInv, TypeOK
  <2>2. Len(approvals') \in Nat
    BY <1>6
  <2> QED BY <1>2, <1>6, <2>1, <2>2
<1>8. TypeOK'
  BY <1>1, <1>2, <1>3, <1>4, <1>5, <1>6, <1>7 DEF Effects, IInv, TypeOK
<1> QED BY <1>2, <1>4, <1>5, <1>6, <1>8 DEF IInv, PumpUnderWay

LEMMA PumpStep ==
  ASSUME IInv, Pump
  PROVE  IInv'
<1>1. ASSUME NEW n \in 1..Len(approvals), PumpDue(n)
      PROVE  IInv'
  <2>1. /\ EngineUnchanged /\ settling' = n /\ pumping' = TRUE
        /\ UNCHANGED <<current, copies, open, resets>>
    BY <1>1 DEF PumpDue, clientVars
  <2>2. TypeOK'
    BY <2>1, EngineStill, SMTT(30) DEF EngineUnchanged, dedupVars, sodVars, approvalVars, IInv, TypeOK
  <2> QED BY <2>1, <2>2, EngineStill DEF IInv, PumpUnderWay
<1>2. ASSUME NEW yes \in BOOLEAN, Decide(yes)
      PROVE  IInv'
  <2> DEFINE item == Head(approvals)
  <2>1. /\ settling > 0 /\ settling' = settling - 1 /\ approvals' = Tail(approvals)
        /\ UNCHANGED <<storeVars, dedupVars, sodVars, clientVars, current, pumping>>
        /\ \/ /\ Submit(<<item.task>>, item.lanes)
              /\ approved' = Append(approved, item) /\ denied' = denied
           \/ /\ denied' = Append(denied, item) /\ approved' = approved
              /\ UNCHANGED poolVars
    BY <1>2 DEF Decide
  <2>2. approvals \in Seq(Approvals) /\ Len(approvals) \in Nat /\ settling \in 0..Len(approvals)
    BY DEF IInv, TypeOK
  <2>3. /\ item \in Approvals /\ approvals' \in Seq(Approvals)
        /\ settling' \in 0..Len(approvals')
    BY <2>1, <2>2
  <2>4. item.task \in Tasks /\ item.lanes \in SUBSET Lanes
    BY <2>3 DEF Approvals
  <2> HIDE DEF item
  <2>5. PoolTypeOK' /\ LanesExact'
    <3>1. PoolTypeOK /\ LanesExact
      BY DEF IInv, TypeOK
    <3>2. CASE Submit(<<item.task>>, item.lanes)
      <4>1. <<item.task>> \in Seq(Tasks)
        BY <2>4
      <4> QED BY <2>4, <3>1, <3>2, <4>1, SubmitKept
    <3>3. CASE UNCHANGED poolVars
      BY <3>1, <3>3 DEF PoolTypeOK, LanesExact, poolVars
    <3> QED BY <2>1, <3>2, <3>3
  <2>6. approved' \in Seq(Approvals) /\ denied' \in Seq(Approvals)
    <3>1. approved \in Seq(Approvals) /\ denied \in Seq(Approvals)
      BY DEF IInv, TypeOK
    <3>2. Append(approved, item) \in Seq(Approvals) /\ Append(denied, item) \in Seq(Approvals)
      BY <2>3, <3>1
    <3> QED BY <2>1, <3>1, <3>2
  <2>7. StoreTypeOK' /\ SodComplete' /\ Windowed' /\ DedupWindow'
    <3>1. StoreTypeOK'
      BY <2>1 DEF IInv, TypeOK, StoreTypeOK, storeVars
    <3>2. SodComplete'
      BY <2>1 DEF IInv, SodComplete, sodVars
    <3>3. Windowed' /\ DedupWindow'
      BY <2>1, DedupStill DEF IInv
    <3> QED BY <3>1, <3>2, <3>3
  <2>8. TypeOK'
    BY <2>1, <2>3, <2>5, <2>6, <2>7 DEF dedupVars, sodVars, clientVars, IInv, TypeOK
  <2>9. PumpUnderWay'
    BY <2>1, <2>2 DEF IInv, PumpUnderWay
  <2> QED BY <2>5, <2>7, <2>8, <2>9 DEF IInv
<1>3. ASSUME NEW kept \in Remainders, Drain(kept)
      PROVE  IInv'
  <2>1. /\ settling = 0 /\ pumping' = FALSE /\ PumpLanes(kept)
        /\ UNCHANGED <<storeVars, dedupVars, sodVars, approvalVars, clientVars,
                       current, settling>>
    BY <1>3 DEF Drain
  <2>2. PoolTypeOK' /\ LanesExact'
    BY <2>1, PumpKept DEF IInv, TypeOK
  <2>3. StoreTypeOK' /\ SodComplete' /\ Windowed' /\ DedupWindow'
    <3>1. StoreTypeOK'
      BY <2>1 DEF IInv, TypeOK, StoreTypeOK, storeVars
    <3>2. SodComplete'
      BY <2>1 DEF IInv, SodComplete, sodVars
    <3>3. Windowed' /\ DedupWindow'
      BY <2>1, DedupStill DEF IInv
    <3> QED BY <3>1, <3>2, <3>3
  <2>4. TypeOK'
    BY <2>1, <2>2, <2>3 DEF dedupVars, sodVars, approvalVars, clientVars, IInv, TypeOK
  <2> QED BY <2>1, <2>2, <2>3, <2>4 DEF IInv, PumpUnderWay
<1> QED BY <1>1, <1>2, <1>3 DEF Pump

\* What the initial state and a reset leave: no work, no keys, no conflicts.
LEMMA NothingIsFine ==
  /\ StoreEmpty => StoreTypeOK
  /\ PoolEmpty => PoolTypeOK /\ LanesExact
  /\ known = HoldNothing /\ conflicts = {} /\ violations = 0 => SodComplete
  /\ seen = <<>> /\ applied = <<>> => Windowed /\ DedupWindow
<1>1. StoreEmpty => StoreTypeOK
  BY DEF StoreEmpty, StoreTypeOK, NoAccounts, NoGroups, NoMembers, Accounts
<1>2. PoolEmpty => PoolTypeOK /\ LanesExact
  BY PoolAssumption DEF PoolEmpty, PoolTypeOK, LanesExact, NoTasks, NoCount
<1>3. known = HoldNothing /\ conflicts = {} /\ violations = 0 => SodComplete
  <2>1. Cardinality({}) = 0
    BY FS_EmptySet
  <2>2. \A u \in Users : Violated(u, {}) = {}
    BY NothingViolated
  <2> QED BY <2>1, <2>2 DEF HoldNothing, SodComplete
<1>4. seen = <<>> /\ applied = <<>> => Windowed /\ DedupWindow
  BY ReceiverAssumption DEF Windowed, DedupWindow, IsInjective
<1> QED BY <1>1, <1>2, <1>3, <1>4

LEMMA InitIInv ==
  ASSUME Init
  PROVE  IInv
<1>1. TypeOK
  <2>1. StoreTypeOK /\ PoolTypeOK
    BY NothingIsFine DEF Init
  <2>2. /\ copies \in [Requests -> Nat] /\ open \in [Requests -> Nat] /\ resets \in Nat
    BY DEF Init
  <2>3. /\ approvals \in Seq(Approvals) /\ approved \in Seq(Approvals)
        /\ denied \in Seq(Approvals) /\ settling \in 0..Len(approvals)
    BY DEF Init
  <2>4. /\ seen \in Seq(Keys) /\ Len(seen) <= Capacity
        /\ applied \in Seq(Keys) /\ log \in Seq(Message)
    BY ReceiverAssumption DEF Init
  <2>5. /\ held \in [Users -> SUBSET Entitlements] /\ known \in [Users -> SUBSET Entitlements]
        /\ conflicts \in SUBSET (Users \X Toxic) /\ violations \in Nat
    BY DEF Init, HoldNothing
  <2>6. current \in Seq(Message)
    BY DEF Init
  <2>7. pumping \in BOOLEAN
    BY DEF Init
  <2> QED BY <2>1, <2>2, <2>3, <2>4, <2>5, <2>6, <2>7 DEF TypeOK
<1> QED BY <1>1, NothingIsFine DEF Init, IInv, PumpUnderWay

LEMMA ResetStep ==
  ASSUME IInv, Reset
  PROVE  IInv'
<1>1. StoreTypeOK' /\ PoolTypeOK' /\ LanesExact' /\ SodComplete' /\ Windowed' /\ DedupWindow'
  <2>1. StoreTypeOK'
    BY DEF Reset, StoreReset, StoreTypeOK, NoAccounts, NoGroups, NoMembers, Accounts
  <2>2. PoolTypeOK' /\ LanesExact'
    BY PoolAssumption DEF Reset, PoolReset, PoolTypeOK, LanesExact, NoTasks, NoCount
  <2>3. SodComplete'
    <3>1. Cardinality({}) = 0
      BY FS_EmptySet
    <3>2. \A u \in Users : Violated(u, {}) = {}
      BY NothingViolated
    <3> QED BY <3>1, <3>2 DEF Reset, HoldNothing, SodComplete
  <2>4. Windowed' /\ DedupWindow'
    BY ReceiverAssumption DEF Reset, Windowed, DedupWindow, IsInjective
  <2> QED BY <2>1, <2>2, <2>3, <2>4
<1>2. settling = 0 /\ settling' = settling /\ pumping' = pumping
  BY DEF Reset, Idle, loopVars, IInv, TypeOK, PumpUnderWay
<1>3. TypeOK'
  <2>1. Capacity \in Nat
    BY ReceiverAssumption
  <2>2. resets' \in Nat
    BY DEF Reset, IInv, TypeOK
  <2> QED BY <1>1, <1>2, <2>1, <2>2 DEF Reset, HoldNothing, loopVars, IInv, TypeOK
<1> QED BY <1>1, <1>2, <1>3 DEF IInv, PumpUnderWay

LEMMA StepIInv ==
  ASSUME IInv, [Next]_vars
  PROVE  IInv'
<1>1. CASE UNCHANGED vars
  <2>1. EngineUnchanged /\ UNCHANGED <<copies, open, resets, current, settling, pumping>>
    BY <1>1 DEF vars, clientVars, loopVars, EngineUnchanged
  <2>2. TypeOK'
    BY <2>1, EngineStill DEF EngineUnchanged, dedupVars, sodVars, approvalVars, IInv, TypeOK
  <2> QED BY <2>1, <2>2, EngineStill DEF IInv, PumpUnderWay
<1> QED BY <1>1, ClientStep, HandleStep, PumpStep, ResetStep DEF Next, Client

-----------------------------------------------------------------------------
(* Types, dedup, conflicts and lanes *)

\* IInv is an inductive invariant of the receiver.
THEOREM ReceiverInvariant == Spec => []IInv
BY InitIInv, StepIInv, PTL DEF Spec

\* The store, the lanes, the queues and the counters have their types in every
\* reachable state; in particular no lane has more in flight than its
\* connector's concurrency, and a pump never looks for an approval that is not
\* there.
THEOREM TypeCorrect == Spec => []TypeOK
<1>1. IInv => TypeOK
  BY DEF IInv
<1> QED BY <1>1, ReceiverInvariant, PTL

\* A key is accepted again only after Capacity other keys: for any capacity,
\* any mix of SCIM calls, events, HR rows and messages, and any resets.
THEOREM DedupSound == Spec => []DedupWindow
<1>1. IInv => DedupWindow
  BY DEF IInv
<1> QED BY <1>1, ReceiverInvariant, PTL

\* Every toxic combination somebody holds, of any number of entitlements, has
\* been reported, and every report was counted once.
THEOREM SodSound == Spec => []SodComplete
<1>1. IInv => SodComplete
  BY DEF IInv
<1> QED BY <1>1, ReceiverInvariant, PTL

\* No connector loses, repeats or reorders a task, whatever its concurrency and
\* however latencies fall.
THEOREM LanesSound == Spec => []LanesExact
<1>1. IInv => LanesExact
  BY DEF IInv
<1> QED BY <1>1, ReceiverInvariant, PTL

-----------------------------------------------------------------------------
(* What the events said last *)

\* The last element of s that is in S is a grant; there is none or it is not.
EndsGranting(s, S) ==
  \E i \in DOMAIN s : /\ s[i] \in S /\ s[i].op = "grant"
                      /\ \A j \in DOMAIN s : i < j => s[j] \notin S
EndsOtherwise(s, S) ==
  \/ \A i \in DOMAIN s : s[i] \notin S
  \/ \E i \in DOMAIN s : /\ s[i] \in S /\ s[i].op # "grant"
                         /\ \A j \in DOMAIN s : i < j => s[j] \notin S

WordsAbout(u, e) == {m \in Message : About(m, u, e)}
TasksAbout(u, e) == {t \in Tasks : t.user = u /\ t.ent = e}

\* Where no group call meddled, the last word about an entitlement decides
\* whether it is held, and the last task says so downstream.
EventsTell ==
  \A u \in Users, e \in Entitlements :
    ~Regrouped(e) => IF e \in held[u] THEN EndsGranting(log, WordsAbout(u, e))
                                      ELSE EndsOtherwise(log, WordsAbout(u, e))
Ungated(u, e) == \A m \in Range(log) : About(m, u, e) => ~m.gated
LanesTell ==
  \A u \in Users, e \in Entitlements :
    ~Regrouped(e) /\ Ungated(u, e) =>
      IF e \in held[u] THEN EndsGranting(submitted[SystemLane[e]], TasksAbout(u, e))
                       ELSE EndsOtherwise(submitted[SystemLane[e]], TasksAbout(u, e))

\* A task about an entitlement waits for approval only if a message about it
\* needs one.
PendingGated ==
  \A i \in DOMAIN approvals :
    LET t == approvals[i].task IN
    t.ent \in Entitlements => \E m \in Range(log) : About(m, t.user, t.ent) /\ m.gated

\* The messages still to be applied come from a request.
Lawful(m) == m.gated => m.via = "event" /\ m.op \in {"grant", "notify"}
FromRequest == \A i \in DOMAIN current : Lawful(current[i])

\* GateExact, by the places of the messages and approvals of a kind.
GatedMessages == {m \in Message : Gated(m)}
Immediate(l) == {m \in Message : ~Gated(m) /\ l \in Route(m)}
ApprovedFor(l) == {item \in Approvals : l \in item.lanes}
GateCounts ==
  /\ Cardinality(Among(log, GatedMessages)) = Len(approvals) + Len(approved) + Len(denied)
  /\ (\A e \in Entitlements : ~Regrouped(e)) =>
       \A l \in Lanes :
         Len(submitted[l]) = Cardinality(Among(log, Immediate(l)))
                               + Cardinality(Among(approved, ApprovedFor(l)))

\* What the events and the gate promise, with the facts that make it inductive.
Gate == EventsTell /\ LanesTell /\ PendingGated /\ FromRequest /\ GateCounts


\* Elements that are not in S change nothing.
LEMMA TellConcat ==
  ASSUME NEW M, NEW s \in Seq(M), NEW more \in Seq(M), NEW S,
         \A i \in DOMAIN more : more[i] \notin S
  PROVE  /\ EndsGranting(s, S) => EndsGranting(s \o more, S)
         /\ EndsOtherwise(s, S) => EndsOtherwise(s \o more, S)
<1> DEFINE all == s \o more
<1>1. /\ Len(s) \in Nat /\ DOMAIN s = 1..Len(s)
      /\ Len(more) \in Nat /\ DOMAIN more = 1..Len(more)
      /\ DOMAIN all = 1..(Len(s) + Len(more))
      /\ \A i \in 1..(Len(s) + Len(more)) :
           all[i] = IF i <= Len(s) THEN s[i] ELSE more[i - Len(s)]
  OBVIOUS
<1> HIDE DEF all
<1>2. \A i \in DOMAIN s : i \in DOMAIN all /\ all[i] = s[i]
  BY <1>1
<1>3. \A i \in DOMAIN all : i \notin DOMAIN s => all[i] \notin S
  <2>1. TAKE i \in DOMAIN all
  <2>2. HAVE i \notin DOMAIN s
  <2>3. i - Len(s) \in DOMAIN more /\ all[i] = more[i - Len(s)]
    BY <1>1, <2>2
  <2> QED BY <2>3
<1>4. ASSUME NEW i \in DOMAIN s, \A j \in DOMAIN s : i < j => s[j] \notin S
      PROVE  \A j \in DOMAIN all : i < j => all[j] \notin S
  BY <1>2, <1>3, <1>4
<1>5. EndsGranting(s, S) => EndsGranting(all, S)
  BY <1>2, <1>4 DEF EndsGranting
<1>6. EndsOtherwise(s, S) => EndsOtherwise(all, S)
  BY <1>2, <1>3, <1>4 DEF EndsOtherwise
<1> QED BY <1>5, <1>6 DEF all

\* An element that is in S has the last word.
LEMMA TellLast ==
  ASSUME NEW M, NEW s \in Seq(M), NEW x \in M, NEW S, x \in S
  PROVE  /\ x.op = "grant" => EndsGranting(s \o <<x>>, S)
         /\ x.op # "grant" => EndsOtherwise(s \o <<x>>, S)
<1> DEFINE all == s \o <<x>>
<1>1. /\ Len(s) \in Nat /\ DOMAIN all = 1..(Len(s) + 1) /\ all[Len(s) + 1] = x
  OBVIOUS
<1> HIDE DEF all
<1>2. Len(s) + 1 \in DOMAIN all /\ \A j \in DOMAIN all : ~(Len(s) + 1 < j)
  BY <1>1
<1>3. x.op = "grant" => EndsGranting(all, S)
  BY <1>1, <1>2 DEF EndsGranting
<1>4. x.op # "grant" => EndsOtherwise(all, S)
  BY <1>1, <1>2 DEF EndsOtherwise
<1> QED BY <1>3, <1>4 DEF all

\* Where the last element in S is, by the place of the last one.
LEMMA TellMax ==
  ASSUME NEW M, NEW s \in Seq(M), NEW S
  PROVE  LET I == {i \in 1..Len(s) : s[i] \in S}
             last == IF I # {} THEN Max(I) ELSE 0
         IN /\ EndsGranting(s, S) => last > 0 /\ s[last].op = "grant"
            /\ EndsOtherwise(s, S) => ~(last > 0 /\ s[last].op = "grant")
<1> DEFINE I == {i \in 1..Len(s) : s[i] \in S}
           last == IF I # {} THEN Max(I) ELSE 0
<1>1. Len(s) \in Nat /\ DOMAIN s = 1..Len(s)
  OBVIOUS
<1>2. ASSUME NEW i \in DOMAIN s, s[i] \in S, \A j \in DOMAIN s : i < j => s[j] \notin S
      PROVE  last = i
  <2>1. i \in I /\ I \subseteq Nat /\ \A j \in I : i >= j
    BY <1>1, <1>2
  <2>2. \A x \in I : (\A y \in I : x >= y) => x = i
    BY <2>1
  <2> HIDE DEF I
  <2>3. Max(I) = i
    BY <2>1, <2>2 DEF Max
  <2> QED BY <2>1, <2>3
<1>3. (\A i \in DOMAIN s : s[i] \notin S) => last = 0
  BY <1>1
<1> HIDE DEF last
<1>4. EndsGranting(s, S) => last > 0 /\ s[last].op = "grant"
  BY <1>1, <1>2 DEF EndsGranting
<1>5. EndsOtherwise(s, S) => ~(last > 0 /\ s[last].op = "grant")
  BY <1>1, <1>2, <1>3 DEF EndsOtherwise
<1> QED BY <1>4, <1>5 DEF last

LEMMA EventsDecide ==
  ASSUME TypeOK, EventsTell
  PROVE  HeldFollowsEvents
<1>1. SUFFICES ASSUME NEW u \in Users, NEW e \in Entitlements, ~Regrouped(e)
               PROVE  LET last == SelectLastInSeq(log, LAMBDA m : About(m, u, e))
                      IN e \in held[u] <=> last > 0 /\ log[last].op = "grant"
  BY DEF HeldFollowsEvents
<1> DEFINE S == WordsAbout(u, e)
           I == {i \in 1..Len(log) : log[i] \in S}
           last == SelectLastInSeq(log, LAMBDA m : About(m, u, e))
<1>2. log \in Seq(Message)
  BY DEF TypeOK
<1>3. {i \in 1..Len(log) : About(log[i], u, e)} = I
  BY <1>2 DEF WordsAbout
<1>4. last = IF I # {} THEN Max(I) ELSE 0
  BY <1>3 DEF SelectLastInSeq
<1> HIDE DEF S, last
<1>5. /\ EndsGranting(log, S) => last > 0 /\ log[last].op = "grant"
      /\ EndsOtherwise(log, S) => ~(last > 0 /\ log[last].op = "grant")
  BY <1>2, <1>4, TellMax
<1>6. IF e \in held[u] THEN EndsGranting(log, S) ELSE EndsOtherwise(log, S)
  BY <1>1 DEF EventsTell, S
<1>7. e \in held[u] <=> last > 0 /\ log[last].op = "grant"
  BY <1>5, <1>6
<1> QED BY <1>7 DEF last

LEMMA LanesDecide ==
  ASSUME TypeOK, LanesTell
  PROVE  DownstreamFollowsHeld
<1>1. SUFFICES ASSUME NEW u \in Users, NEW e \in Entitlements, ~Regrouped(e), Ungated(u, e)
               PROVE  LET lane == submitted[SystemLane[e]]
                          last == SelectLastInSeq(lane, LAMBDA t : t.user = u /\ t.ent = e)
                      IN e \in held[u] <=> last > 0 /\ lane[last].op = "grant"
  BY DEF DownstreamFollowsHeld, Ungated
<1> DEFINE S == TasksAbout(u, e)
           lane == submitted[SystemLane[e]]
           I == {i \in 1..Len(lane) : lane[i] \in S}
           last == SelectLastInSeq(lane, LAMBDA t : t.user = u /\ t.ent = e)
<1>2. lane \in Seq(Tasks)
  BY ReceiverAssumption DEF TypeOK, PoolTypeOK
<1>3. {i \in 1..Len(lane) : lane[i].user = u /\ lane[i].ent = e} = I
  BY <1>2 DEF TasksAbout
<1>4. last = IF I # {} THEN Max(I) ELSE 0
  BY <1>3 DEF SelectLastInSeq
<1> HIDE DEF S, last, lane
<1>5. /\ EndsGranting(lane, S) => last > 0 /\ lane[last].op = "grant"
      /\ EndsOtherwise(lane, S) => ~(last > 0 /\ lane[last].op = "grant")
  BY <1>2, <1>4, TellMax
<1>6. IF e \in held[u] THEN EndsGranting(lane, S) ELSE EndsOtherwise(lane, S)
  BY <1>1 DEF LanesTell, S, lane
<1>7. e \in held[u] <=> last > 0 /\ lane[last].op = "grant"
  BY <1>5, <1>6
<1> QED BY <1>7 DEF last, lane

-----------------------------------------------------------------------------
(* What a handler makes of a message *)

\* Nothing: its key is known or it is refused.
Ignored(m) == UNCHANGED <<log, held, poolVars, approvalVars>>

\* It is counted and asks for nothing.
Silent(m) ==
  /\ log' = Append(log, m) /\ UNCHANGED <<held, poolVars, approvalVars>>
  /\ Route(m) = {} /\ m.op \notin GroupChanges
  /\ \A u \in Users, e \in Entitlements : ~About(m, u, e)

\* It changes an account.
OfAccount(m) ==
  /\ log' = Append(log, m) /\ UNCHANGED <<held, approvalVars>>
  /\ Route(m) = IdentityLanes /\ ~m.gated /\ m.op \notin GroupChanges
  /\ \A u \in Users, e \in Entitlements : ~About(m, u, e)
  /\ \E t \in Tasks : t.ent = None /\ Submit(<<t>>, IdentityLanes)

\* It changes the members of a group.
OfGroup(m) ==
  /\ log' = Append(log, m) /\ UNCHANGED approvalVars
  /\ m.op \in GroupChanges /\ m.ent \in Entitlements /\ Route(m) = {}
  /\ \A u \in Users, e \in Entitlements :
       e # m.ent => (e \in held'[u] <=> e \in held[u])
  /\ \E tasks \in Seq(Tasks), lane \in Lanes :
       /\ \A i \in DOMAIN tasks : tasks[i].ent = m.ent
       /\ Len(tasks) <= Cardinality(Users) + 1
       /\ Submit(tasks, {lane})

\* It grants or revokes an entitlement.
OfEntitlement(m) ==
  /\ log' = Append(log, m)
  /\ m.op \in {"grant", "revoke"} /\ m.user \in Users /\ m.ent \in Entitlements
  /\ Route(m) = {SystemLane[m.ent]}
  /\ \A u \in Users, e \in Entitlements :
       e \in held'[u] <=> IF u = m.user /\ e = m.ent THEN m.op = "grant" ELSE e \in held[u]
  /\ Provision(<<Task(m.user, m.op, m.ent)>>, {SystemLane[m.ent]}, m.gated)

Said(m) == Ignored(m) \/ Silent(m) \/ OfAccount(m) \/ OfGroup(m) \/ OfEntitlement(m)

LEMMA CountedNothing ==
  ASSUME NEW m, NothingCounted
  PROVE  Said(m)
BY DEF NothingCounted, dedupVars, sodVars, poolVars, approvalVars, Said, Ignored

\* What the kinds of messages ask for.
LEMMA Routes ==
  ASSUME NEW m \in Message
  PROVE  /\ m.op \in GroupCalls \cup {"notify"} \/ m.user = None \/
              (m.op \in {"grant", "revoke"} /\ m.ent = None)
              => Route(m) = {} /\ \A u \in Users, e \in Entitlements : ~About(m, u, e)
         /\ m.op \in UserCalls \cup (Operations \ {"grant", "revoke", "notify"}) /\ m.user # None
              => /\ Route(m) = IdentityLanes /\ m.op \notin GroupChanges
                 /\ \A u \in Users, e \in Entitlements : ~About(m, u, e)
         /\ m.op \in {"grant", "revoke"} /\ m.user # None /\ m.ent # None
              => Route(m) = {SystemLane[m.ent]}
<1>1. None \notin Users /\ None \notin Entitlements
  BY ReceiverAssumption
<1>2. CASE m.op \in GroupCalls \cup {"notify"}
  <2>1. m.op \notin {"grant", "revoke"} /\ m.op \notin UserCalls \cup (Operations \ {"grant", "revoke", "notify"})
    BY <1>2 DEF GroupCalls, GroupChanges, UserCalls, Operations
  <2> QED BY <1>2, <2>1 DEF Route, About
<1>3. CASE m.op \in UserCalls \cup (Operations \ {"grant", "revoke", "notify"})
  <2>1. m.op \notin {"grant", "revoke", "notify"} /\ m.op \notin GroupCalls \cup GroupChanges
    BY <1>3 DEF GroupCalls, GroupChanges, UserCalls, Operations
  <2> QED BY <1>1, <1>3, <2>1 DEF Route, About
<1>4. CASE m.op \in {"grant", "revoke"}
  <2>1. m.op \notin UserCalls \cup (Operations \ {"grant", "revoke", "notify"}) \cup GroupCalls \cup {"notify"}
    BY <1>4 DEF GroupCalls, GroupChanges, UserCalls, Operations
  <2> QED BY <1>1, <1>4, <2>1 DEF Route, About
<1>5. m.op \in Operations \cup UserCalls \cup GroupCalls
  BY DEF Message
<1> QED BY <1>2, <1>3, <1>4, <1>5

LEMMA AccountSaid ==
  ASSUME NEW m \in Message, m.user \in Users, ~m.gated, NEW op \in Operations,
         m.op \in UserCalls \cup (Operations \ {"grant", "revoke", "notify"}),
         Remember(m), UNCHANGED sodVars,
         Provision(<<Task(m.user, op, None)>>, IdentityLanes, FALSE)
  PROVE  Said(m)
<1>1. m.user # None
  BY ReceiverAssumption
<1>2. Task(m.user, op, None) \in Tasks /\ Task(m.user, op, None).ent = None
  BY ReceiverAssumption DEF TaskSet, Task
<1>3. Submit(<<Task(m.user, op, None)>>, IdentityLanes) /\ UNCHANGED approvalVars
  BY DEF Provision
<1>4. log' = Append(log, m) /\ held' = held
  BY DEF Remember, sodVars
<1>5. OfAccount(m)
  BY <1>1, <1>2, <1>3, <1>4, Routes DEF OfAccount
<1> QED BY <1>5 DEF Said

LEMMA ScimSaid ==
  ASSUME TypeOK, NEW m \in Message, Lawful(m), ScimCall(m)
  PROVE  Said(m)
<1>1. ~m.gated /\ m.op \in UserCalls \cup GroupCalls
  <2>1. m.via = "scim" /\ m.gated \in BOOLEAN
    BY DEF ScimCall, Message
  <2> QED BY <2>1 DEF Lawful, Message
<1>2. ASSUME NEW op \in Operations, m.op \in UserCalls, AccountProvisioned(m, op)
      PROVE  Said(m)
  <2>1. m.user \in Users
    BY <1>2 DEF Message
  <2> QED BY <1>1, <1>2, <2>1, AccountSaid, CountedNothing DEF AccountProvisioned
<1>3. CASE ScimPut(m)
  <2>1. m.op \in UserCalls
    BY <1>3 DEF ScimPut, UserCalls
  <2>2. "update" \in Operations /\ "create" \in Operations
    BY DEF Operations
  <2>3. (IF m.op = "PUT" THEN "update" ELSE "create") \in Operations
    BY <2>2
  <2> QED BY <1>2, <1>3, <2>1, <2>3, CountedNothing DEF ScimPut
<1>4. CASE ScimPatchUser(m)
  <2> DEFINE before == Upserted(accounts[m.user], "on")
             after == Switched(before, m.switch)
             op == CASE after = before -> "patch"
                     [] after # before /\ after = "active" -> "reactivate"
                     [] after # before /\ after = "inactive" -> "deactivate"
  <2>1. m.op \in UserCalls /\ m.switch \in Switches
    BY <1>4 DEF ScimPatchUser, UserCalls, Message
  <2>2. after = before \/ after \in {"active", "inactive"}
    BY <2>1 DEF Switched, Switches
  <2>3. op \in Operations
    BY <2>2 DEF Operations
  <2>4. AccountProvisioned(m, op) \/ NothingCounted
    BY <1>4 DEF ScimPatchUser
  <2> HIDE DEF op
  <2> QED BY <1>2, <2>1, <2>3, <2>4, CountedNothing
<1>5. CASE ScimDeleteUser(m)
  <2>1. m.op \in UserCalls /\ "delete" \in Operations
    BY <1>5 DEF ScimDeleteUser, UserCalls, Operations
  <2> QED BY <1>2, <1>5, <2>1 DEF ScimDeleteUser
<1>6. CASE ScimCreateGroup(m)
  <2>1. m.op \in GroupCalls /\ m.op \notin GroupChanges
    BY <1>6 DEF ScimCreateGroup, GroupCalls, GroupChanges
  <2>2. CASE Remember(m) /\ UNCHANGED sodVars /\ ProvisionNothing
    <3>1. Silent(m)
      BY <2>1, <2>2, Routes DEF Silent, Remember, sodVars, ProvisionNothing, poolVars
    <3> QED BY <3>1 DEF Said
  <2> QED BY <1>6, <2>2, CountedNothing DEF ScimCreateGroup
<1>7. CASE ScimPatchGroup(m)
  <2> DEFINE add == Added(m.ent, m.op, m.user)
             drop == Dropped(m.ent, m.op, m.user)
             grants == IF add = {} THEN <<>> ELSE <<Task(m.user, "grant", m.ent)>>
             lane == IF groups[m.ent] = "named" THEN SystemLane[m.ent] ELSE DefaultLane
  <2>1. /\ m.op \in GroupChanges /\ m.op \in GroupCalls /\ m.ent \in Entitlements
        /\ m.op \in {"add", "replace"} => m.user \in Users
    BY <1>7 DEF ScimPatchGroup, Message, GroupCalls
  <2>2. add \in SUBSET Users /\ drop \in SUBSET Users
    <3>1. members[m.ent] \in SUBSET Users
      BY <2>1 DEF TypeOK, StoreTypeOK
    <3>2. add \in SUBSET Users
      BY <2>1 DEF Added
    <3>3. drop \in SUBSET Users
      BY <2>1, <3>1 DEF Dropped, GroupChanges
    <3> QED BY <3>2, <3>3
  <2>3. CASE Remember(m) /\ Record(add, drop, m.ent, groups[m.ent] = "named")
               /\ \E order \in SetToSeqs(drop) :
                    Provision(grants \o [i \in DOMAIN order |->
                                           Task(order[i], "revoke", m.ent)], {lane}, FALSE)
    <3>1. PICK order \in SetToSeqs(drop) :
            Provision(grants \o [i \in DOMAIN order |->
                                   Task(order[i], "revoke", m.ent)], {lane}, FALSE)
      BY <2>3
    <3> DEFINE revokes == [i \in DOMAIN order |-> Task(order[i], "revoke", m.ent)]
               tasks == grants \o revokes
               There == {t \in Tasks : t.ent = m.ent}
    <3>2. Cardinality(drop) \in Nat
      BY <2>2, FS_Subset, FS_CardinalityType, ReceiverAssumption
    <3>3. order \in [1..Cardinality(drop) -> drop]
      BY <3>1 DEF SetToSeqs
    <3>4. \A v \in Users, op \in {"grant", "revoke"} : Task(v, op, m.ent) \in There
      BY <2>1, ReceiverAssumption DEF Task, TaskSet, Operations
    <3>5. revokes \in [1..Cardinality(drop) -> There]
      BY <2>2, <3>3, <3>4
    <3>6. revokes \in Seq(There)
      BY <3>2, <3>5
    <3>7. grants \in Seq(There)
      <4>1. add # {} => m.user \in Users
        BY <2>2 DEF Added
      <4>2. add # {} => Task(m.user, "grant", m.ent) \in There
        BY <3>4, <4>1
      <4> HIDE DEF There, add
      <4> QED BY <4>2
    <3>14. Len(revokes) = Cardinality(drop) /\ Cardinality(drop) <= Cardinality(Users)
      BY <2>2, <3>2, <3>5, FS_Subset, ReceiverAssumption
    <3>15. Len(grants) \in {0, 1}
      OBVIOUS
    <3> HIDE DEF grants, revokes, There
    <3>8. tasks \in Seq(There) /\ Len(tasks) = Len(grants) + Len(revokes)
      BY <3>6, <3>7
    <3> HIDE DEF tasks, drop
    <3>16. Len(tasks) <= Cardinality(Users) + 1
      <4>1. Cardinality(Users) \in Nat
        BY FS_CardinalityType, ReceiverAssumption
      <4> DEFINE a == Len(grants)
                 b == Len(revokes)
                 c == Cardinality(Users)
      <4>2. a \in {0, 1} /\ b \in Nat /\ b <= c /\ c \in Nat /\ Len(tasks) = a + b
        BY <3>2, <3>8, <3>14, <3>15, <4>1
      <4> HIDE DEF a, b, c
      <4>3. Len(tasks) <= c + 1
        BY <4>2
      <4> QED BY <4>3 DEF c
    <3>9. tasks \in Seq(Tasks) /\ \A i \in DOMAIN tasks : tasks[i].ent = m.ent
      <4>1. \A i \in DOMAIN tasks : tasks[i] \in There
        BY <3>8
      <4>2. tasks \in Seq(Tasks)
        BY <3>8 DEF There
      <4> QED BY <4>1, <4>2 DEF There
    <3>10. lane \in Lanes
      BY <2>1, ReceiverAssumption
    <3>11. Submit(tasks, {lane}) /\ UNCHANGED approvalVars
      BY <3>1 DEF Provision, tasks, revokes, grants
    <3>12. \A u \in Users, e \in Entitlements :
             e # m.ent => (e \in held'[u] <=> e \in held[u])
      BY <2>3 DEF Record
    <3>13. OfGroup(m)
      BY <2>1, <2>3, <3>9, <3>10, <3>11, <3>12, <3>16, Routes DEF OfGroup, Remember
    <3> QED BY <3>13 DEF Said
  <2> QED BY <1>7, <2>3, CountedNothing DEF ScimPatchGroup
<1> QED BY <1>3, <1>4, <1>5, <1>6, <1>7 DEF ScimCall

LEMMA IngestSaid ==
  ASSUME TypeOK, NEW m \in Message, Lawful(m), Ingest(m)
  PROVE  Said(m)
<1>1. CASE ~Fresh(m)
  BY <1>1, CountedNothing DEF Ingest
<1>2. CASE Remember(m) /\ m.user # None /\ (Joined(m) \/ Touched(m) \/ Left(m))
  <2>1. m.user \in Users /\ m.op \in Operations \ {"grant", "revoke", "notify"} /\ ~m.gated
    BY <1>2 DEF Message, Joined, Touched, Left, Operations, Lawful
  <2>2. UNCHANGED sodVars /\ Provision(<<Task(m.user, m.op, None)>>, IdentityLanes, FALSE)
    BY <1>2, <2>1 DEF Joined, Touched, Left, Provision
  <2> QED BY <1>2, <2>1, <2>2, AccountSaid
<1>3. CASE Remember(m) /\ m.user # None /\ (Granted(m) \/ Revoked(m))
  <2>1. /\ m.user \in Users /\ m.ent \in Entitlements /\ m.ent # None
        /\ m.op \in {"grant", "revoke"}
    BY <1>3 DEF Message, Granted, Revoked
  <2>2. Provision(<<Task(m.user, m.op, m.ent)>>, {SystemLane[m.ent]}, m.gated)
    BY <1>3 DEF Granted, Revoked, Lawful, Provision
  <2>3. \A u \in Users, e \in Entitlements :
          e \in held'[u] <=> IF u = m.user /\ e = m.ent THEN m.op = "grant" ELSE e \in held[u]
    <3>1. CASE Granted(m)
      BY <3>1, <2>1 DEF Granted, Record
    <3>2. CASE Revoked(m)
      BY <3>2, <2>1 DEF Revoked, Record
    <3> QED BY <1>3, <3>1, <3>2
  <2>4. OfEntitlement(m)
    BY <1>3, <2>1, <2>2, <2>3, Routes DEF OfEntitlement, Remember
  <2> QED BY <2>4 DEF Said
<1>4. CASE Remember(m) /\ Noted(m)
  <2>1. /\ Route(m) = {}
        /\ \A u \in Users, e \in Entitlements : ~About(m, u, e)
    BY <1>4, Routes DEF Noted
  <2>2. m.op \notin GroupChanges
    BY DEF Ingest, Message, Operations, GroupChanges, GroupCalls, UserCalls
  <2>3. Silent(m)
    BY <1>4, <2>1, <2>2 DEF Silent, Remember, Noted, sodVars, ProvisionNothing, poolVars
  <2> QED BY <2>3 DEF Said
<1> QED BY <1>1, <1>2, <1>3, <1>4 DEF Ingest

-----------------------------------------------------------------------------
(* The handlers keep what the events promise *)

\* The log grows by a message.
LEMMA LogGrows ==
  ASSUME TypeOK, NEW m \in Message, log' = Append(log, m)
  PROVE  /\ log' = log \o <<m>> /\ <<m>> \in Seq(Message) /\ log \in Seq(Message)
         /\ Range(log') = Range(log) \cup {m}
         /\ \A e : Regrouped(e)' <=> Regrouped(e) \/ (m.op \in GroupChanges /\ m.ent = e)
         /\ \A u, e : Ungated(u, e)' <=> Ungated(u, e) /\ (About(m, u, e) => ~m.gated)
<1>1. log \in Seq(Message) /\ <<m>> \in Seq(Message) /\ log' = log \o <<m>>
  BY DEF TypeOK
<1>2. Range(log') = Range(log) \cup {m}
  <2>1. \A s \in Seq(Message) : Range(Append(s, m)) = Range(s) \cup {m}
    BY AppendDistinct
  <2> QED BY <1>1, <2>1
<1>3. \A e : Regrouped(e)' <=> Regrouped(e) \/ (m.op \in GroupChanges /\ m.ent = e)
  BY <1>2 DEF Regrouped
<1>4. \A u, e : Ungated(u, e)' <=> Ungated(u, e) /\ (About(m, u, e) => ~m.gated)
  BY <1>2 DEF Ungated, About
<1> QED BY <1>1, <1>2, <1>3, <1>4

LEMMA EventsTellKept ==
  ASSUME TypeOK, EventsTell, NEW m \in Message, Said(m)
  PROVE  EventsTell'
<1>1. CASE Ignored(m)
  BY <1>1 DEF Ignored, EventsTell, Regrouped
<1>2. CASE ~Ignored(m)
  <2>1. log' = Append(log, m)
    BY <1>2 DEF Said, Silent, OfAccount, OfGroup, OfEntitlement
  <2>2. SUFFICES ASSUME NEW u \in Users, NEW e \in Entitlements, ~Regrouped(e)'
                 PROVE  IF e \in held'[u] THEN EndsGranting(log', WordsAbout(u, e))
                                          ELSE EndsOtherwise(log', WordsAbout(u, e))
    BY DEF EventsTell
  <2> DEFINE S == WordsAbout(u, e)
  <2>3. /\ log' = log \o <<m>> /\ log \in Seq(Message) /\ <<m>> \in Seq(Message)
        /\ ~Regrouped(e) /\ ~(m.op \in GroupChanges /\ m.ent = e)
    BY <2>1, <2>2, LogGrows
  <2>4. IF e \in held[u] THEN EndsGranting(log, S) ELSE EndsOtherwise(log, S)
    BY <2>3 DEF EventsTell
  <2>5. CASE ~About(m, u, e) /\ (e \in held'[u] <=> e \in held[u])
    <3>1. \A i \in DOMAIN <<m>> : <<m>>[i] \notin S
      BY <2>5 DEF WordsAbout
    <3> HIDE DEF S
    <3>2. /\ EndsGranting(log, S) => EndsGranting(log \o <<m>>, S)
          /\ EndsOtherwise(log, S) => EndsOtherwise(log \o <<m>>, S)
      BY <2>3, <3>1, TellConcat
    <3>3. IF e \in held'[u] THEN EndsGranting(log', S) ELSE EndsOtherwise(log', S)
      BY <2>3, <2>4, <2>5, <3>2
    <3> QED BY <3>3 DEF S
  <2>6. CASE About(m, u, e) /\ (e \in held'[u] <=> m.op = "grant")
    <3>1. m \in S
      BY <2>6 DEF WordsAbout
    <3> HIDE DEF S
    <3>2. /\ m.op = "grant" => EndsGranting(log \o <<m>>, S)
          /\ m.op # "grant" => EndsOtherwise(log \o <<m>>, S)
      BY <2>3, <3>1, TellLast
    <3>3. IF e \in held'[u] THEN EndsGranting(log', S) ELSE EndsOtherwise(log', S)
      BY <2>3, <2>6, <3>2
    <3> QED BY <3>3 DEF S
  <2>7. CASE Silent(m)
    BY <2>5, <2>7 DEF Silent
  <2>8. CASE OfAccount(m)
    BY <2>5, <2>8 DEF OfAccount
  <2>9. CASE OfGroup(m)
    <3>1. ~About(m, u, e)
      BY <2>9 DEF OfGroup, About, GroupChanges
    <3>2. e # m.ent
      BY <2>3, <2>9 DEF OfGroup
    <3> QED BY <2>5, <2>9, <3>1, <3>2 DEF OfGroup
  <2>10. CASE OfEntitlement(m)
    <3>1. /\ About(m, u, e) <=> (u = m.user /\ e = m.ent)
          /\ e \in held'[u] <=> IF u = m.user /\ e = m.ent THEN m.op = "grant"
                                                           ELSE e \in held[u]
      BY <2>10 DEF OfEntitlement, About
    <3> QED BY <2>5, <2>6, <3>1
  <2> QED BY <1>2, <2>7, <2>8, <2>9, <2>10 DEF Said
<1> QED BY <1>1, <1>2

\* What tasks given to some lanes leave of the last word in a lane.
LEMMA SubmitTells ==
  ASSUME TypeOK, NEW tasks \in Seq(Tasks), NEW lanes, Submit(tasks, lanes),
         NEW l \in Lanes, NEW S, \A i \in DOMAIN tasks : tasks[i] \notin S
  PROVE  /\ EndsGranting(submitted[l], S) => EndsGranting(submitted'[l], S)
         /\ EndsOtherwise(submitted[l], S) => EndsOtherwise(submitted'[l], S)
<1>1. submitted[l] \in Seq(Tasks)
  BY DEF TypeOK, PoolTypeOK
<1>2. submitted'[l] = IF l \in lanes THEN submitted[l] \o tasks ELSE submitted[l]
  BY DEF Submit
<1>3. /\ EndsGranting(submitted[l], S) => EndsGranting(submitted[l] \o tasks, S)
      /\ EndsOtherwise(submitted[l], S) => EndsOtherwise(submitted[l] \o tasks, S)
  BY <1>1, TellConcat
<1> QED BY <1>2, <1>3

\* What a grant or a revoke asks a connector for.
LEMMA EntitlementTask ==
  ASSUME NEW m \in Message, OfEntitlement(m)
  PROVE  Task(m.user, m.op, m.ent) \in Tasks /\ {SystemLane[m.ent]} \in SUBSET Lanes
<1>1. /\ m.user \in Users /\ m.ent \in Entitlements
      /\ m.op \in {"grant", "revoke"} /\ m.op \in Operations
  BY DEF OfEntitlement, Operations
<1>2. Task(m.user, m.op, m.ent) \in Tasks
  BY <1>1, ReceiverAssumption DEF Task, TaskSet
<1>3. SystemLane[m.ent] \in Lanes
  BY <1>1, ReceiverAssumption
<1> QED BY <1>2, <1>3

LEMMA LanesTellKept ==
  ASSUME TypeOK, LanesTell, NEW m \in Message, Said(m)
  PROVE  LanesTell'
<1>1. CASE Ignored(m)
  BY <1>1 DEF Ignored, poolVars, LanesTell, Regrouped, Ungated
<1>2. CASE ~Ignored(m)
  <2>1. log' = Append(log, m)
    BY <1>2 DEF Said, Silent, OfAccount, OfGroup, OfEntitlement
  <2>2. SUFFICES ASSUME NEW u \in Users, NEW e \in Entitlements,
                        ~Regrouped(e)', Ungated(u, e)'
                 PROVE  IF e \in held'[u]
                          THEN EndsGranting(submitted'[SystemLane[e]], TasksAbout(u, e))
                          ELSE EndsOtherwise(submitted'[SystemLane[e]], TasksAbout(u, e))
    BY DEF LanesTell
  <2> DEFINE S == TasksAbout(u, e)
             l == SystemLane[e]
  <2>3. /\ ~Regrouped(e) /\ ~(m.op \in GroupChanges /\ m.ent = e)
        /\ Ungated(u, e) /\ (About(m, u, e) => ~m.gated)
    BY <2>1, <2>2, LogGrows
  <2>4. IF e \in held[u] THEN EndsGranting(submitted[l], S) ELSE EndsOtherwise(submitted[l], S)
    BY <2>3 DEF LanesTell
  <2>5. l \in Lanes /\ submitted[l] \in Seq(Tasks)
    BY ReceiverAssumption DEF TypeOK, PoolTypeOK
  <2>6. ASSUME NEW tasks \in Seq(Tasks), NEW lanes, Submit(tasks, lanes),
               \A i \in DOMAIN tasks : tasks[i] \notin S,
               e \in held'[u] <=> e \in held[u]
        PROVE  IF e \in held'[u] THEN EndsGranting(submitted'[l], S)
                                 ELSE EndsOtherwise(submitted'[l], S)
    <3> HIDE DEF S, l
    <3> QED BY <2>4, <2>5, <2>6, SubmitTells
  <2>7. CASE Silent(m)
    BY <2>4, <2>7 DEF Silent, poolVars
  <2>8. CASE OfAccount(m)
    <3>1. PICK t \in Tasks : t.ent = None /\ Submit(<<t>>, IdentityLanes)
      BY <2>8 DEF OfAccount
    <3>2. t \notin S
      BY <3>1, ReceiverAssumption DEF TasksAbout
    <3>3. <<t>> \in Seq(Tasks) /\ \A i \in DOMAIN <<t>> : <<t>>[i] \notin S
      BY <3>2
    <3> QED BY <2>6, <2>8, <3>1, <3>3 DEF OfAccount
  <2>9. CASE OfGroup(m)
    <3>1. PICK tasks \in Seq(Tasks), lane \in Lanes :
            (\A i \in DOMAIN tasks : tasks[i].ent = m.ent) /\ Submit(tasks, {lane})
      BY <2>9 DEF OfGroup
    <3>2. e # m.ent
      BY <2>3, <2>9 DEF OfGroup
    <3>3. \A i \in DOMAIN tasks : tasks[i] \notin S
      BY <3>1, <3>2 DEF TasksAbout
    <3> QED BY <2>6, <2>9, <3>1, <3>2, <3>3 DEF OfGroup
  <2>10. CASE OfEntitlement(m)
    <3> DEFINE t == Task(m.user, m.op, m.ent)
    <3>1. /\ About(m, u, e) <=> (u = m.user /\ e = m.ent)
          /\ e \in held'[u] <=> IF u = m.user /\ e = m.ent THEN m.op = "grant"
                                                           ELSE e \in held[u]
      BY <2>10 DEF OfEntitlement, About
    <3>2. /\ t \in Tasks /\ t.op = m.op /\ <<t>> \in Seq(Tasks)
          /\ t \in S <=> (u = m.user /\ e = m.ent)
      <4>1. t \in Tasks
        BY <2>10, EntitlementTask
      <4> QED BY <4>1 DEF Task, TasksAbout
    <3> HIDE DEF t
    <3>3. CASE m.gated
      <4>1. submitted' = submitted
        BY <2>10, <3>3 DEF OfEntitlement, Provision, poolVars
      <4>2. e \in held'[u] <=> e \in held[u]
        BY <2>3, <3>1, <3>3
      <4> QED BY <2>4, <4>1, <4>2
    <3>4. CASE ~m.gated
      <4>1. Submit(<<t>>, {SystemLane[m.ent]})
        BY <2>10, <3>4 DEF OfEntitlement, Provision, t
      <4>2. CASE u = m.user /\ e = m.ent
        <5>1. submitted'[l] = submitted[l] \o <<t>>
          BY <2>5, <4>1, <4>2 DEF Submit
        <5> HIDE DEF S, l
        <5>2. /\ t.op = "grant" => EndsGranting(submitted[l] \o <<t>>, S)
              /\ t.op # "grant" => EndsOtherwise(submitted[l] \o <<t>>, S)
          BY <2>5, <3>2, <4>2, TellLast
        <5> QED BY <3>1, <3>2, <4>2, <5>1, <5>2 DEF S, l
      <4>3. CASE ~(u = m.user /\ e = m.ent)
        <5>1. \A i \in DOMAIN <<t>> : <<t>>[i] \notin S
          BY <3>2, <4>3
        <5> QED BY <2>6, <3>1, <3>2, <4>1, <4>3, <5>1
      <4> QED BY <4>2, <4>3
    <3>5. m.gated \in BOOLEAN
      BY DEF Message
    <3> QED BY <3>3, <3>4, <3>5
  <2> QED BY <1>2, <2>7, <2>8, <2>9, <2>10 DEF Said
<1> QED BY <1>1, <1>2

LEMMA PendingKept ==
  ASSUME TypeOK, PendingGated, NEW m \in Message, Said(m)
  PROVE  PendingGated'
<1>1. CASE Ignored(m)
  BY <1>1 DEF Ignored, approvalVars, PendingGated
<1>2. CASE log' = Append(log, m) /\ UNCHANGED approvalVars
  <2>1. Range(log) \subseteq Range(log')
    BY <1>2, LogGrows
  <2> QED BY <1>2, <2>1 DEF approvalVars, PendingGated
<1>3. CASE OfEntitlement(m) /\ m.gated
  <2> DEFINE t == Task(m.user, m.op, m.ent)
             lanes == {SystemLane[m.ent]}
             items == [i \in DOMAIN <<t>> |-> [task |-> <<t>>[i], lanes |-> lanes]]
  <2>1. approvals' = approvals \o items
    BY <1>3 DEF OfEntitlement, Provision
  <2>2. DOMAIN items = 1..1 /\ items[1].task = t
    OBVIOUS
  <2>3. log' = Append(log, m) /\ About(m, t.user, t.ent)
    BY <1>3 DEF OfEntitlement, About, Task
  <2>4. m \in Range(log') /\ Range(log) \subseteq Range(log')
    BY <2>3, LogGrows
  <2>5. approvals \in Seq(Approvals) /\ items \in Seq(Approvals) /\ Len(items) = 1
    <3>1. t \in Tasks /\ lanes \in SUBSET Lanes
      BY <1>3, EntitlementTask
    <3>2. items \in [1..1 -> Approvals]
      BY <3>1 DEF Approvals
    <3>3. items \in Seq(Approvals) /\ Len(items) = 1
      BY <2>2, <3>2
    <3> QED BY <3>3 DEF TypeOK
  <2> HIDE DEF items, t
  <2>6. ASSUME NEW i \in DOMAIN approvals'
        PROVE  \/ i \in DOMAIN approvals /\ approvals'[i] = approvals[i]
               \/ approvals'[i].task = t
    <3>0. /\ Len(approvals) \in Nat /\ DOMAIN approvals = 1..Len(approvals)
          /\ DOMAIN (approvals \o items) = 1..(Len(approvals) + Len(items))
          /\ \A j \in 1..(Len(approvals) + Len(items)) :
               (approvals \o items)[j] = IF j <= Len(approvals) THEN approvals[j]
                                         ELSE items[j - Len(approvals)]
      BY <2>5, ConcatElements
    <3>1. i \in 1..(Len(approvals) + 1)
      BY <2>1, <2>5, <3>0
    <3>2. CASE i <= Len(approvals)
      BY <2>1, <2>5, <3>0, <3>1, <3>2
    <3>3. CASE ~(i <= Len(approvals))
      <4>1. i - Len(approvals) = 1
        BY <3>0, <3>1, <3>3
      <4>2. approvals'[i] = items[1]
        BY <2>1, <2>5, <3>0, <3>1, <3>3, <4>1
      <4> QED BY <2>2, <4>2
    <3> QED BY <3>2, <3>3
  <2>7. SUFFICES ASSUME NEW i \in DOMAIN approvals', approvals'[i].task.ent \in Entitlements
                 PROVE  \E x \in Range(log') :
                          About(x, approvals'[i].task.user, approvals'[i].task.ent) /\ x.gated
    BY DEF PendingGated, About
  <2> QED BY <1>3, <2>3, <2>4, <2>6, <2>7 DEF PendingGated
<1>4. CASE OfEntitlement(m) /\ ~m.gated
  BY <1>2, <1>4 DEF OfEntitlement, Provision
<1>5. m.gated \in BOOLEAN
  BY DEF Message
<1> QED BY <1>1, <1>2, <1>3, <1>4, <1>5 DEF Said, Silent, OfAccount, OfGroup

\* How much longer the lanes get.
LEMMA SubmitLengths ==
  ASSUME TypeOK, NEW tasks \in Seq(Tasks), NEW lanes, Submit(tasks, lanes), NEW l \in Lanes
  PROVE  /\ Len(submitted[l]) \in Nat
         /\ Len(submitted'[l]) = Len(submitted[l]) + (IF l \in lanes THEN Len(tasks) ELSE 0)
<1>1. submitted[l] \in Seq(Tasks)
  BY DEF TypeOK, PoolTypeOK
<1>2. submitted'[l] = IF l \in lanes THEN submitted[l] \o tasks ELSE submitted[l]
  BY DEF Submit
<1>3. Len(submitted[l] \o tasks) = Len(submitted[l]) + Len(tasks) /\ Len(submitted[l]) \in Nat
  BY <1>1
<1>4. CASE l \in lanes
  BY <1>2, <1>3, <1>4
<1>5. CASE l \notin lanes
  BY <1>2, <1>3, <1>5
<1> QED BY <1>4, <1>5

LEMMA CountsKept ==
  ASSUME TypeOK, GateCounts, NEW m \in Message, Said(m)
  PROVE  GateCounts'
<1> DEFINE gated == Cardinality(Among(log, GatedMessages))
           waiting == Len(approvals) + Len(approved) + Len(denied)
           free(l) == Cardinality(Among(log, Immediate(l)))
           passed(l) == Cardinality(Among(approved, ApprovedFor(l)))
<1>1. CASE Ignored(m)
  <2>1. UNCHANGED <<log, submitted, approvals, approved, denied>>
    BY <1>1 DEF Ignored, approvalVars, poolVars
  <2> QED BY <2>1 DEF GateCounts, Regrouped
<1>2. CASE ~Ignored(m)
  <2>1. log' = Append(log, m) /\ log \in Seq(Message) /\ approved' = approved /\ denied' = denied
    BY <1>2 DEF Said, Silent, OfAccount, OfGroup, OfEntitlement, approvalVars, Provision, TypeOK
  <2>2. /\ gated \in Nat
        /\ Cardinality(Among(log', GatedMessages)) =
             gated + (IF m \in GatedMessages THEN 1 ELSE 0)
        /\ \A l : /\ free(l) \in Nat
                  /\ Cardinality(Among(log', Immediate(l))) =
                       free(l) + (IF m \in Immediate(l) THEN 1 ELSE 0)
    BY <2>1, CountAppend
  <2>3. m.gated \in BOOLEAN /\ approvals \in Seq(Approvals)
        /\ Len(approvals) \in Nat /\ Len(approved) \in Nat /\ Len(denied) \in Nat
    BY DEF Message, TypeOK
  <2>4. Len(approvals') = Len(approvals) + (IF m \in GatedMessages THEN 1 ELSE 0)
    <3>1. CASE UNCHANGED approvalVars /\ (Route(m) = {} \/ ~m.gated)
      <4>1. m \notin GatedMessages
        BY <3>1 DEF GatedMessages, Gated
      <4> QED BY <2>3, <3>1, <4>1 DEF approvalVars
    <3>2. CASE OfEntitlement(m) /\ m.gated
      <4> DEFINE t == Task(m.user, m.op, m.ent)
                 items == [i \in DOMAIN <<t>> |->
                             [task |-> <<t>>[i], lanes |-> {SystemLane[m.ent]}]]
      <4>1. approvals' = approvals \o items
        BY <3>2 DEF OfEntitlement, Provision
      <4>2. m \in GatedMessages
        BY <3>2 DEF OfEntitlement, GatedMessages, Gated
      <4>3. items \in Seq(Approvals) /\ Len(items) = 1
        <5>1. t \in Tasks /\ {SystemLane[m.ent]} \in SUBSET Lanes
          BY <3>2, EntitlementTask
        <5>2. items \in [1..1 -> Approvals] /\ DOMAIN items = 1..1
          BY <5>1 DEF Approvals
        <5> QED BY <5>2
      <4> HIDE DEF items
      <4>4. Len(approvals \o items) = Len(approvals) + Len(items)
        BY <2>3, <4>3, ConcatElements
      <4> QED BY <4>1, <4>2, <4>3, <4>4
    <3>3. CASE OfEntitlement(m) /\ ~m.gated
      BY <3>1, <3>3 DEF OfEntitlement, Provision
    <3> QED BY <1>2, <2>3, <3>1, <3>2, <3>3 DEF Said, Silent, OfAccount, OfGroup
  <2>5. ASSUME \A e \in Entitlements : ~Regrouped(e)', NEW l \in Lanes
        PROVE  Len(submitted'[l]) = Cardinality(Among(log', Immediate(l)))
                                      + Cardinality(Among(approved', ApprovedFor(l)))
    <3>1. (\A e \in Entitlements : ~Regrouped(e)) /\ ~OfGroup(m)
      BY <2>1, <2>5, LogGrows DEF OfGroup
    <3>2. Len(submitted[l]) = free(l) + passed(l)
      BY <3>1 DEF GateCounts
    <3>3. passed(l) \in Nat
      <4>1. approved \in Seq(Approvals)
        BY DEF TypeOK
      <4>2. CASE approved = <<>>
        <5>1. Among(approved, ApprovedFor(l)) = {}
          BY <4>2 DEF Among
        <5> QED BY <5>1, FS_EmptySet
      <4>3. CASE approved # <<>>
        <5>1. Head(approved) \in Approvals
          BY <4>1, <4>3
        <5> QED BY <4>1, <5>1, CountAppend
      <4> QED BY <4>2, <4>3
    <3>4. Len(submitted'[l]) = Len(submitted[l]) + (IF m \in Immediate(l) THEN 1 ELSE 0)
      <4>1. Len(submitted[l]) \in Nat
        BY DEF TypeOK, PoolTypeOK
      <4>2. CASE submitted' = submitted /\ (Route(m) = {} \/ m.gated)
        <5>1. m \notin Immediate(l)
          BY <4>2 DEF Immediate, Gated
        <5> QED BY <4>1, <4>2, <5>1
      <4>3. ASSUME NEW t \in Tasks, Submit(<<t>>, Route(m)), ~m.gated
            PROVE  Len(submitted'[l]) = Len(submitted[l]) + (IF m \in Immediate(l) THEN 1 ELSE 0)
        <5> DEFINE tasks == <<t>>
        <5>1. tasks \in Seq(Tasks) /\ Len(tasks) = 1 /\ Submit(tasks, Route(m))
          BY <4>3
        <5>2. m \in Immediate(l) <=> l \in Route(m)
          BY <4>3 DEF Immediate, Gated
        <5> HIDE DEF tasks
        <5>3. Len(submitted'[l]) = Len(submitted[l]) + (IF l \in Route(m) THEN Len(tasks) ELSE 0)
          BY <5>1, SubmitLengths
        <5> QED BY <4>1, <5>1, <5>2, <5>3
      <4>4. CASE OfEntitlement(m)
        <5>1. Task(m.user, m.op, m.ent) \in Tasks
          BY <4>4, EntitlementTask
        <5>2. CASE m.gated
          BY <4>2, <4>4, <5>2 DEF OfEntitlement, Provision, poolVars
        <5>3. CASE ~m.gated
          BY <4>3, <4>4, <5>1, <5>3 DEF OfEntitlement, Provision
        <5> QED BY <2>3, <5>2, <5>3
      <4>5. CASE OfAccount(m)
        BY <4>3, <4>5 DEF OfAccount
      <4>6. CASE Silent(m)
        BY <4>2, <4>6 DEF Silent, poolVars
      <4> QED BY <1>2, <3>1, <4>4, <4>5, <4>6 DEF Said
    <3> QED BY <2>1, <2>2, <3>2, <3>3, <3>4
  <2>6. gated = waiting
    BY DEF GateCounts
  <2>7. Cardinality(Among(log', GatedMessages))
          = Len(approvals') + Len(approved') + Len(denied')
    BY <2>1, <2>2, <2>3, <2>4, <2>6
  <2> QED BY <2>5, <2>7 DEF GateCounts
<1> QED BY <1>1, <1>2

-----------------------------------------------------------------------------
(* The steps keep the gate *)

\* What leaves the log, the record and the work alone.
LEMMA GateStill ==
  ASSUME Gate, UNCHANGED <<log, held, submitted, approvals, approved, denied>>,
         FromRequest'
  PROVE  Gate'
<1>1. EventsTell' /\ LanesTell'
  BY DEF Gate, EventsTell, LanesTell, Regrouped, Ungated
<1>2. PendingGated' /\ GateCounts'
  BY DEF Gate, PendingGated, GateCounts, Regrouped
<1> QED BY <1>1, <1>2 DEF Gate

LEMMA GateClient ==
  ASSUME IInv, Gate, Client
  PROVE  Gate'
<1>1. UNCHANGED <<log, held, submitted, approvals, approved, denied>>
  BY DEF Client, Admit, Begin, Abandon, Consume, EngineUnchanged, dedupVars, sodVars,
         poolVars, approvalVars
<1>2. ASSUME NEW q \in Requests
      PROVE  \A i \in DOMAIN q : Lawful(q[i])
  BY ReceiverAssumption DEF Range, Lawful
<1>3. current' = current \/ current' \in Requests
  BY DEF Client, Admit, Begin, Abandon, Consume, loopVars
<1>4. FromRequest'
  BY <1>2, <1>3 DEF Gate, FromRequest, Lawful
<1> QED BY <1>1, <1>4, GateStill

LEMMA GateHandle ==
  ASSUME IInv, Gate, Handle
  PROVE  Gate'
<1> DEFINE m == Head(current)
<1>1. current # <<>> /\ current \in Seq(Message) /\ current' = Tail(current)
  BY DEF Handle, IInv, TypeOK
<1>2. m \in Message /\ m = current[1] /\ 1 \in DOMAIN current
  BY <1>1
<1>3. Lawful(m)
  BY <1>2 DEF Gate, FromRequest
<1>4. FromRequest'
  <2>1. \A i \in DOMAIN Tail(current) :
          i + 1 \in DOMAIN current /\ Tail(current)[i] = current[i + 1]
    BY <1>1
  <2> QED BY <1>1, <2>1 DEF Gate, FromRequest, Lawful
<1>5. ScimCall(m) \/ Ingest(m)
  BY DEF Handle
<1> HIDE DEF m
<1>6. Said(m) /\ TypeOK
  BY <1>2, <1>3, <1>5, ScimSaid, IngestSaid DEF IInv
<1> QED BY <1>2, <1>4, <1>6, EventsTellKept, LanesTellKept, PendingKept, CountsKept DEF Gate

LEMMA GateDecide ==
  ASSUME IInv, Gate, NEW yes \in BOOLEAN, Decide(yes)
  PROVE  Gate'
<1> DEFINE item == Head(approvals)
           t == item.task
<1>1. /\ approvals \in Seq(Approvals) /\ approved \in Seq(Approvals)
      /\ denied \in Seq(Approvals) /\ approvals # <<>> /\ approvals' = Tail(approvals)
  <2>1. settling > 0 /\ settling \in 0..Len(approvals)
    BY DEF Decide, IInv, TypeOK
  <2>2. approvals # <<>>
    BY <2>1
  <2> QED BY <2>2 DEF Decide, IInv, TypeOK
<1>2. /\ item \in Approvals /\ item = approvals[1] /\ 1 \in DOMAIN approvals
      /\ Len(approvals') = Len(approvals) - 1 /\ Len(approvals) \in Nat \ {0}
      /\ \A i \in DOMAIN approvals' : i + 1 \in DOMAIN approvals /\ approvals'[i] = approvals[i + 1]
  BY <1>1
<1>3. t \in Tasks /\ item.lanes \in SUBSET Lanes
  BY <1>2 DEF Approvals
<1>4. UNCHANGED <<log, held, known, current>>
  BY DEF Decide, dedupVars, sodVars
<1>5. \/ /\ Submit(<<t>>, item.lanes) /\ approved' = Append(approved, item) /\ denied' = denied
      \/ /\ submitted' = submitted /\ approved' = approved /\ denied' = Append(denied, item)
  BY DEF Decide, poolVars
<1>6. t.ent \in Entitlements => \E x \in Range(log) : About(x, t.user, t.ent) /\ x.gated
  BY <1>2 DEF Gate, PendingGated
<1> HIDE DEF item, t
<1>7. EventsTell' /\ PendingGated' /\ FromRequest'
  <2>1. EventsTell' /\ FromRequest'
    BY <1>4 DEF Gate, EventsTell, FromRequest, Regrouped
  <2>2. PendingGated'
    BY <1>2, <1>4 DEF Gate, PendingGated
  <2> QED BY <2>1, <2>2
<1>8. LanesTell'
  <2>1. SUFFICES ASSUME NEW u \in Users, NEW e \in Entitlements, ~Regrouped(e), Ungated(u, e)
                 PROVE  IF e \in held[u]
                          THEN EndsGranting(submitted'[SystemLane[e]], TasksAbout(u, e))
                          ELSE EndsOtherwise(submitted'[SystemLane[e]], TasksAbout(u, e))
    BY <1>4 DEF LanesTell, Regrouped, Ungated
  <2> DEFINE S == TasksAbout(u, e)
             l == SystemLane[e]
  <2>2. IF e \in held[u] THEN EndsGranting(submitted[l], S) ELSE EndsOtherwise(submitted[l], S)
    BY <2>1 DEF Gate, LanesTell
  <2>3. CASE Submit(<<t>>, item.lanes)
    <3>1. t \notin S
      BY <1>6, <2>1 DEF TasksAbout, Ungated
    <3>2. <<t>> \in Seq(Tasks) /\ \A i \in DOMAIN <<t>> : <<t>>[i] \notin S
      BY <1>3, <3>1
    <3>3. l \in Lanes /\ TypeOK
      BY ReceiverAssumption DEF IInv
    <3> DEFINE tasks == <<t>>
    <3> HIDE DEF S, l, tasks
    <3>4. /\ EndsGranting(submitted[l], S) => EndsGranting(submitted'[l], S)
          /\ EndsOtherwise(submitted[l], S) => EndsOtherwise(submitted'[l], S)
      BY <2>3, <3>2, <3>3, SubmitTells DEF tasks
    <3> QED BY <2>2, <3>4 DEF S, l
  <2>4. CASE submitted' = submitted
    BY <2>2, <2>4
  <2> QED BY <1>5, <2>3, <2>4
<1>9. GateCounts'
  <2>1. Cardinality(Among(log, GatedMessages)) = Len(approvals) + Len(approved) + Len(denied)
    BY DEF Gate, GateCounts
  <2>2. /\ Len(Append(approved, item)) = Len(approved) + 1 /\ Len(approved) \in Nat
        /\ Len(Append(denied, item)) = Len(denied) + 1 /\ Len(denied) \in Nat
    BY <1>1, <1>2
  <2>3. Len(approvals') + Len(approved') + Len(denied')
          = Len(approvals) + Len(approved) + Len(denied)
    <3>1. CASE approved' = Append(approved, item) /\ denied' = denied
      BY <1>2, <2>2, <3>1
    <3>2. CASE approved' = approved /\ denied' = Append(denied, item)
      BY <1>2, <2>2, <3>2
    <3> QED BY <1>5, <3>1, <3>2
  <2>4. ASSUME \A e \in Entitlements : ~Regrouped(e), NEW l \in Lanes
        PROVE  Len(submitted'[l]) = Cardinality(Among(log, Immediate(l)))
                                      + Cardinality(Among(approved', ApprovedFor(l)))
    <3> DEFINE free == Cardinality(Among(log, Immediate(l)))
               passed == Cardinality(Among(approved, ApprovedFor(l)))
    <3>1. Len(submitted[l]) = free + passed
      BY <2>4 DEF Gate, GateCounts
    <3>2. CASE submitted' = submitted /\ approved' = approved
      BY <3>1, <3>2
    <3>3. CASE Submit(<<t>>, item.lanes) /\ approved' = Append(approved, item)
      <4> DEFINE tasks == <<t>>
      <4>1. tasks \in Seq(Tasks) /\ Len(tasks) = 1 /\ Submit(tasks, item.lanes) /\ TypeOK
        BY <1>3, <3>3 DEF IInv
      <4> HIDE DEF tasks
      <4>0. \A lanes : Submit(tasks, lanes) =>
              /\ Len(submitted[l]) \in Nat
              /\ Len(submitted'[l]) = Len(submitted[l]) + (IF l \in lanes THEN Len(tasks) ELSE 0)
        BY <4>1, SubmitLengths
      <4>2. /\ Len(submitted[l]) \in Nat
            /\ Len(submitted'[l]) = Len(submitted[l])
                                      + (IF l \in item.lanes THEN Len(tasks) ELSE 0)
        BY <4>0, <4>1
      <4>3. /\ passed \in Nat
            /\ Cardinality(Among(Append(approved, item), ApprovedFor(l))) =
                 passed + (IF item \in ApprovedFor(l) THEN 1 ELSE 0)
        BY <1>1, <1>2, CountAppend
      <4>4. item \in ApprovedFor(l) <=> l \in item.lanes
        BY <1>2 DEF ApprovedFor
      <4>5. free \in Nat
        <5>1. log \in Seq(Message)
          BY DEF IInv, TypeOK
        <5>2. CASE log = <<>>
          <6>1. Among(log, Immediate(l)) = {}
            BY <5>2 DEF Among
          <6> QED BY <6>1, FS_EmptySet
        <5>3. CASE log # <<>>
          <6>1. Head(log) \in Message
            BY <5>1, <5>3
          <6> QED BY <5>1, <6>1, CountAppend
        <5> QED BY <5>2, <5>3
      <4> HIDE DEF free, passed
      <4>6. CASE l \in item.lanes
        BY <3>1, <3>3, <4>1, <4>2, <4>3, <4>4, <4>5, <4>6 DEF passed, free
      <4>7. CASE l \notin item.lanes
        BY <3>1, <3>3, <4>1, <4>2, <4>3, <4>4, <4>5, <4>7 DEF passed, free
      <4> QED BY <4>6, <4>7
    <3> QED BY <1>5, <3>2, <3>3
  <2> QED BY <1>4, <2>1, <2>3, <2>4 DEF GateCounts, Regrouped
<1> QED BY <1>7, <1>8, <1>9 DEF Gate

\* Where nothing was said yet, as at the start and after a reset.
NothingSaid ==
  /\ held = HoldNothing /\ log = <<>> /\ submitted = NoTasks
  /\ approvals = <<>> /\ approved = <<>> /\ denied = <<>> /\ FromRequest

LEMMA GateEmpty == NothingSaid => Gate
<1> SUFFICES ASSUME held = HoldNothing, log = <<>>, submitted = NoTasks, approvals = <<>>,
                    approved = <<>>, denied = <<>>, FromRequest
             PROVE  Gate
  BY DEF NothingSaid
<1>1. EventsTell
  BY DEF EventsTell, EndsOtherwise, HoldNothing
<1>2. LanesTell
  BY ReceiverAssumption DEF LanesTell, EndsOtherwise, HoldNothing, NoTasks
<1>3. PendingGated
  BY DEF PendingGated
<1>4. GateCounts
  <2>1. ASSUME NEW s, s = <<>>, NEW T
        PROVE  Cardinality(Among(s, T)) = 0
    <3>1. Among(s, T) = {}
      BY <2>1 DEF Among
    <3> QED BY <3>1, FS_EmptySet
  <2>2. /\ Cardinality(Among(log, GatedMessages)) = 0
        /\ \A l : /\ Cardinality(Among(log, Immediate(l))) = 0
                  /\ Cardinality(Among(approved, ApprovedFor(l))) = 0
    BY <2>1
  <2>3. Len(approvals) = 0 /\ Len(approved) = 0 /\ Len(denied) = 0
        /\ \A l \in Lanes : Len(submitted[l]) = 0
    BY DEF NoTasks
  <2>4. Cardinality(Among(log, GatedMessages)) = Len(approvals) + Len(approved) + Len(denied)
    BY <2>2, <2>3
  <2>5. ASSUME NEW l \in Lanes
        PROVE  Len(submitted[l]) = Cardinality(Among(log, Immediate(l)))
                                     + Cardinality(Among(approved, ApprovedFor(l)))
    BY <2>2, <2>3
  <2> QED BY <2>4, <2>5 DEF GateCounts
<1> QED BY <1>1, <1>2, <1>3, <1>4 DEF Gate

LEMMA GateEmptied == NothingSaid' => Gate'
BY GateEmpty, PTL

LEMMA StepGate ==
  ASSUME IInv, Gate, [Next]_vars
  PROVE  Gate'
<1>1. CASE UNCHANGED vars
  <2>1. UNCHANGED <<log, held, submitted, approvals, approved, denied, current>>
    BY <1>1 DEF vars, dedupVars, sodVars, poolVars, approvalVars, loopVars
  <2>2. FromRequest'
    BY <2>1 DEF Gate, FromRequest
  <2> QED BY <2>1, <2>2, GateStill
<1>2. ASSUME UNCHANGED <<log, held, submitted, approvals, approved, denied, current>>
      PROVE  Gate'
  <2>1. FromRequest'
    BY <1>2 DEF Gate, FromRequest
  <2> QED BY <1>2, <2>1, GateStill
<1>3. CASE \E n \in 1..Len(approvals) : PumpDue(n)
  BY <1>2, <1>3 DEF PumpDue, EngineUnchanged, dedupVars, sodVars, poolVars, approvalVars
<1>4. CASE \E kept \in Remainders : Drain(kept)
  BY <1>2, <1>4 DEF Drain, PumpLanes, dedupVars, sodVars, approvalVars
<1>5. CASE Reset
  <2>1. FromRequest'
    BY <1>5 DEF Reset, loopVars, Gate, FromRequest
  <2>2. NothingSaid'
    BY <1>5, <2>1 DEF Reset, PoolReset, HoldNothing, NoTasks, NothingSaid
  <2> QED BY <2>2, GateEmptied
<1>6. CASE \E yes \in BOOLEAN : Decide(yes)
  BY <1>6, GateDecide
<1> QED BY <1>1, <1>3, <1>4, <1>5, <1>6, GateClient, GateHandle DEF Next, Pump

LEMMA InitGate ==
  ASSUME Init
  PROVE  Gate
<1>1. FromRequest
  BY DEF Init, FromRequest
<1>2. NothingSaid
  BY <1>1 DEF Init, PoolEmpty, NothingSaid
<1> QED BY <1>2, GateEmpty

\* The places of the gated messages, of the others and of the approvals.
LEMMA CountsAreExact ==
  ASSUME TypeOK, GateCounts
  PROVE  GateExact
<1>1. log \in Seq(Message) /\ approved \in Seq(Approvals)
  BY DEF TypeOK
<1>2. {i \in DOMAIN log : Gated(log[i])} = Among(log, GatedMessages)
  BY <1>1 DEF Among, GatedMessages
<1>3. \A l : {i \in DOMAIN log : ~Gated(log[i]) /\ l \in Route(log[i])} = Among(log, Immediate(l))
  BY <1>1 DEF Among, Immediate
<1>4. \A l : {i \in DOMAIN approved : l \in approved[i].lanes} = Among(approved, ApprovedFor(l))
  BY <1>1 DEF Among, ApprovedFor
<1> QED BY <1>2, <1>3, <1>4 DEF GateCounts, GateExact

-----------------------------------------------------------------------------
(* Holdings and provisioning *)

\* Gate is an invariant of the receiver, and inductive relative to IInv.
THEOREM GateInvariant == Spec => []Gate
<1>1. IInv /\ Gate /\ [Next]_vars => Gate'
  BY StepGate
<1>2. Init => Gate
  BY InitGate
<1> QED BY <1>1, <1>2, ReceiverInvariant, PTL DEF Spec

\* What a user holds is what the last event about it said, for any events, HR
\* rows and SCIM calls, repeated, reordered, gated or cut off by a reset.
THEOREM HeldSound == Spec => []HeldFollowsEvents
<1>1. IInv /\ Gate => HeldFollowsEvents
  BY EventsDecide DEF IInv, Gate
<1> QED BY <1>1, ReceiverInvariant, GateInvariant, PTL

\* Nothing reaches a connector but what passed the gate, once, and the last
\* task about an ungated entitlement says what is held.
THEOREM ProvisioningSound == Spec => []ProvisionedExactly
<1>1. IInv /\ Gate => ProvisionedExactly
  BY LanesDecide, CountsAreExact DEF IInv, Gate, ProvisionedExactly
<1> QED BY <1>1, ReceiverInvariant, GateInvariant, PTL

-----------------------------------------------------------------------------
(* Groups that plain PATCHes made, when keys tell messages apart *)

\* A key stands for one message of one request, as a client that draws fresh keys
\* has it; else a message is taken for the repeat of another and dropped.
DistinctKeys ==
  \A q, r \in Requests : \A i \in DOMAIN q, j \in DOMAIN r :
    q[i].key # None /\ q[i].key = r[j].key => q = r /\ i = j

\* Of a request delivered once no copy is left and no message with the key k
\* is still to be applied.
UsedUp(q, k) ==
  /\ copies[q] > 0
  /\ copies[q] = 1 => open[q] = 0 /\ \A i \in DOMAIN current : current[i].key # k

\* A key that was accepted has been used up.
AcceptedOnce ==
  \A k \in Range(applied), q \in Requests :
    (\E j \in DOMAIN q : q[j].key = k) => UsedUp(q, k)

\* The messages being applied come from a request that was delivered, and
\* their keys come once.
Underway ==
  /\ \A i \in DOMAIN current : \E q \in Requests : copies[q] > 0 /\ current[i] \in Range(q)
  /\ \A i \in DOMAIN current : current[i].key # None =>
       /\ \A j \in DOMAIN current : current[j].key = current[i].key => i = j
       /\ \A q \in Requests : \A j \in DOMAIN q :
            q[j].key = current[i].key => copies[q] > 0 /\ (copies[q] = 1 => open[q] = 0)

OpenCopies == \A q \in Requests : open[q] <= copies[q]

Once == AcceptedOnce /\ Underway /\ OpenCopies

\* The groups PatchedMembersAreHeld is about.
PlainGroup(e) ==
  \A q \in Requests :
    (copies[q] > 0 /\ \E m \in Range(q) : m.ent = e)
      => copies[q] = 1 /\ \A m \in Range(q) : m.ent = e => Plain(m)

\* A message is counted as itself or not at all.
LEMMA CountsItself ==
  ASSUME NEW m \in Message, ScimCall(m) \/ Ingest(m)
  PROVE  UNCHANGED dedupVars \/ (Fresh(m) /\ Remember(m))
<1>1. CASE Ingest(m)
  BY <1>1 DEF Ingest, NothingCounted
<1>2. CASE ScimPut(m) \/ ScimPatchUser(m) \/ ScimDeleteUser(m)
  BY <1>2 DEF ScimPut, ScimPatchUser, ScimDeleteUser, AccountProvisioned, NothingCounted
<1>3. CASE ScimCreateGroup(m) \/ ScimPatchGroup(m)
  BY <1>3 DEF ScimCreateGroup, ScimPatchGroup, NothingCounted
<1> QED BY <1>1, <1>2, <1>3 DEF ScimCall

LEMMA OnceStill ==
  ASSUME Once, UNCHANGED <<copies, open, current>>, applied' = applied \/ applied' = <<>>
  PROVE  Once'
<1>1. Range(applied') \subseteq Range(applied)
  BY DEF Range
<1>2. AcceptedOnce'
  BY <1>1 DEF Once, AcceptedOnce, UsedUp
<1>3. Underway' /\ OpenCopies'
  BY DEF Once, Underway, OpenCopies
<1> QED BY <1>2, <1>3 DEF Once

LEMMA OnceClient ==
  ASSUME DistinctKeys, IInv, Once, NEW q \in Requests,
         Admit(q) \/ Begin(q) \/ Abandon(q) \/ Consume(q)
  PROVE  Once'
<1>1. /\ copies \in [Requests -> Nat] /\ open \in [Requests -> Nat]
      /\ applied \in Seq(Keys) /\ Requests \subseteq Seq(Message)
  BY ReceiverAssumption DEF IInv, TypeOK
<1>2. applied' = applied /\ current = <<>>
  BY DEF Admit, Begin, Abandon, Consume, EngineUnchanged, dedupVars, Idle
<1>3. /\ \A r \in Requests \ {q} : copies'[r] = copies[r] /\ open'[r] = open[r]
      /\ \/ copies'[q] = copies[q] + 1 /\ open'[q] = open[q] + 1 /\ current' = <<>>
         \/ copies'[q] = copies[q] /\ open[q] > 0 /\ open'[q] = open[q] - 1
              /\ current' \in {<<>>, q}
         \/ copies'[q] = copies[q] + 1 /\ open'[q] = open[q] /\ current' = q
  <2>1. CASE Admit(q)
    BY <1>1, <1>2, <2>1 DEF Admit, Delivered, loopVars
  <2>2. CASE Begin(q)
    BY <1>1, <2>2 DEF Begin
  <2>3. CASE Abandon(q)
    BY <1>1, <1>2, <2>3 DEF Abandon, loopVars
  <2>4. CASE Consume(q)
    BY <1>1, <2>4 DEF Consume, Delivered
  <2> QED BY <2>1, <2>2, <2>3, <2>4
<1>4. copies[q] \in Nat /\ open[q] \in Nat /\ open[q] <= copies[q]
  BY <1>1 DEF Once, OpenCopies
<1>5. OpenCopies'
  <2>1. open'[q] <= copies'[q]
    BY <1>3, <1>4
  <2> QED BY <1>3, <2>1 DEF Once, OpenCopies
<1>6. \/ current' = <<>>
      \/ current' = q /\ copies'[q] > 0 /\ (copies'[q] = 1 => open'[q] = 0)
  <2>1. CASE copies'[q] = copies[q] /\ open[q] > 0 /\ open'[q] = open[q] - 1
    <3>1. copies'[q] > 0 /\ (copies'[q] = 1 => open'[q] = 0)
      BY <1>4, <2>1
    <3> QED BY <1>3, <3>1
  <2>2. CASE copies'[q] = copies[q] + 1 /\ open'[q] = open[q] /\ current' = q
    <3>1. copies'[q] > 0 /\ (copies'[q] = 1 => open'[q] = 0)
      BY <1>4, <2>2
    <3> QED BY <2>2, <3>1
  <2>3. CASE current' = <<>>
    BY <2>3
  <2> QED BY <1>3, <2>1, <2>2, <2>3
<1>7. AcceptedOnce'
  <2>1. SUFFICES ASSUME NEW k \in Range(applied), NEW r \in Requests,
                        NEW j \in DOMAIN r, r[j].key = k
                 PROVE  UsedUp(r, k)'
    BY <1>2 DEF AcceptedOnce
  <2>2. UsedUp(r, k)
    BY <2>1 DEF Once, AcceptedOnce
  <2>3. k # None
    <3>1. k \in Keys
      BY <1>1 DEF Range
    <3> QED BY <3>1, ReceiverAssumption
  <2>4. CASE r = q
    <3>1. copies[q] > 0 /\ (copies[q] = 1 => open[q] = 0)
      BY <2>2, <2>4 DEF UsedUp
    <3>2. copies'[q] > 0 /\ copies'[q] # 1
      BY <1>3, <1>4, <3>1
    <3> QED BY <2>4, <3>2 DEF UsedUp
  <2>5. CASE r # q
    <3>1. copies'[r] = copies[r] /\ open'[r] = open[r]
      BY <1>3, <2>5
    <3>2. \A i \in DOMAIN q : q[i].key # k
      BY <2>1, <2>3, <2>5 DEF DistinctKeys
    <3>3. \A i \in DOMAIN current' : current'[i].key # k
      BY <1>6, <3>2
    <3> QED BY <2>2, <3>1, <3>3 DEF UsedUp
  <2> QED BY <2>4, <2>5
<1>8. Underway'
  <2>1. CASE current' = <<>>
    BY <2>1 DEF Underway
  <2>2. CASE current' = q
    <3>1. copies'[q] > 0 /\ (copies'[q] = 1 => open'[q] = 0)
      <4>1. q # <<>>
        BY ReceiverAssumption
      <4> QED BY <1>6, <2>2, <4>1
    <3>2. \A i \in DOMAIN q : q[i] \in Range(q)
      BY DEF Range
    <3>3. \A i \in DOMAIN q : q[i].key # None =>
            /\ \A j \in DOMAIN q : q[j].key = q[i].key => i = j
            /\ \A r \in Requests : \A j \in DOMAIN r : r[j].key = q[i].key => r = q
      BY DEF DistinctKeys
    <3> QED BY <2>2, <3>1, <3>2, <3>3 DEF Underway
  <2> QED BY <1>6, <2>1, <2>2
<1> QED BY <1>5, <1>7, <1>8 DEF Once

LEMMA OnceHandle ==
  ASSUME IInv, Once, Handle
  PROVE  Once'
<1> DEFINE m == Head(current)
<1>1. /\ current # <<>> /\ current \in Seq(Message) /\ current' = Tail(current)
      /\ UNCHANGED <<copies, open>> /\ (ScimCall(m) \/ Ingest(m))
  BY DEF Handle, clientVars, IInv, TypeOK
<1>2. /\ m \in Message /\ m = current[1] /\ 1 \in DOMAIN current
      /\ \A i \in DOMAIN current' :
           i + 1 \in DOMAIN current /\ i + 1 # 1 /\ current'[i] = current[i + 1]
      /\ \A i, j \in DOMAIN current' : i + 1 = j + 1 => i = j
  BY <1>1
<1>3. UNCHANGED dedupVars \/ (Fresh(m) /\ Remember(m))
  BY <1>1, <1>2, CountsItself
<1> HIDE DEF m
<1>4. \A k \in Range(applied') : k \in Range(applied) \/ (k # None /\ k = m.key)
  <2>1. CASE UNCHANGED dedupVars
    BY <2>1 DEF dedupVars
  <2>2. CASE Remember(m) /\ m.key = None
    BY <2>2 DEF Remember
  <2>3. CASE Remember(m) /\ m.key # None
    <3>1. applied' = Append(applied, m.key) /\ applied \in Seq(Keys) /\ m.key \in Keys
      BY <1>2, <2>3 DEF Remember, Message, IInv, TypeOK
    <3>2. \A s \in Seq(Keys), k \in Keys : Range(Append(s, k)) = Range(s) \cup {k}
      BY AppendDistinct
    <3> QED BY <2>3, <3>1, <3>2
  <2> QED BY <1>3, <2>1, <2>2, <2>3
<1>5. AcceptedOnce'
  <2>1. SUFFICES ASSUME NEW k \in Range(applied'), NEW q \in Requests,
                        NEW j \in DOMAIN q, q[j].key = k
                 PROVE  UsedUp(q, k)'
    BY DEF AcceptedOnce
  <2>2. CASE k \in Range(applied)
    <3>1. UsedUp(q, k)
      BY <2>1, <2>2 DEF Once, AcceptedOnce
    <3> QED BY <1>1, <1>2, <3>1 DEF UsedUp
  <2>3. CASE k # None /\ k = m.key
    <3>1. copies[q] > 0 /\ (copies[q] = 1 => open[q] = 0)
      BY <1>2, <2>1, <2>3 DEF Once, Underway
    <3>2. \A i \in DOMAIN current : current[i].key = k => i = 1
      BY <1>2, <2>3 DEF Once, Underway
    <3>3. \A i \in DOMAIN current' : current'[i].key # k
      BY <1>2, <3>2
    <3> QED BY <1>1, <3>1, <3>3 DEF UsedUp
  <2> QED BY <1>4, <2>2, <2>3
<1>6. Underway'
  BY <1>1, <1>2 DEF Once, Underway
<1>7. OpenCopies'
  BY <1>1 DEF Once, OpenCopies
<1> QED BY <1>5, <1>6, <1>7 DEF Once

LEMMA StepOnce ==
  ASSUME DistinctKeys, IInv, Once, [Next]_vars
  PROVE  Once'
<1>1. CASE UNCHANGED vars
  <2>1. UNCHANGED <<copies, open, current, applied>>
    BY <1>1 DEF vars, clientVars, loopVars, dedupVars
  <2> QED BY <2>1, OnceStill
<1>2. CASE Pump
  <2>1. UNCHANGED <<copies, open, current, applied>>
    BY <1>2 DEF Pump, PumpDue, Decide, Drain, EngineUnchanged, clientVars, dedupVars
  <2> QED BY <2>1, OnceStill
<1>3. CASE Reset
  BY <1>3, OnceStill DEF Reset, loopVars
<1> QED BY <1>1, <1>2, <1>3, OnceClient, OnceHandle DEF Next, Client

LEMMA InitOnce ==
  ASSUME Init
  PROVE  Once
BY DEF Init, Once, AcceptedOnce, Underway, OpenCopies, Range

\* The first delivery of a message finds its key fresh.
LEMMA HeadFresh ==
  ASSUME IInv, Once, current # <<>>, NEW q \in Requests, Head(current) \in Range(q),
         copies[q] = 1
  PROVE  Fresh(Head(current))
<1> DEFINE m == Head(current)
<1>1. m = current[1] /\ 1 \in DOMAIN current
  BY DEF IInv, TypeOK
<1>2. SUFFICES ASSUME m.key \in Range(seen) PROVE FALSE
  BY DEF Fresh
<1>3. seen \in Seq(Keys) /\ applied \in Seq(Keys)
  BY DEF IInv, TypeOK
<1>4. PICK i \in 1..Len(seen) : seen[i] = m.key
  BY <1>2, <1>3 DEF Range
<1>5. m.key \in Range(applied)
  <2>1. /\ Len(seen) \in Nat /\ Len(applied) \in Nat /\ Len(seen) <= Len(applied)
        /\ seen[i] = applied[Len(applied) - Len(seen) + i]
    BY <1>3 DEF IInv, Windowed
  <2>2. Len(applied) - Len(seen) + i \in 1..Len(applied)
    BY <2>1
  <2> QED BY <1>3, <1>4, <2>1, <2>2 DEF Range
<1>6. \E j \in DOMAIN q : q[j].key = m.key
  BY DEF Range
<1>7. UsedUp(q, m.key)
  BY <1>5, <1>6 DEF Once, AcceptedOnce
<1> QED BY <1>1, <1>7 DEF UsedUp

\* A message leaves the other entitlements alone.
LEMMA ElsewhereStill ==
  ASSUME TypeOK, NEW m \in Message, ScimCall(m) \/ Ingest(m),
         NEW u \in Users, NEW e \in Entitlements, e # m.ent
  PROVE  members'[e] = members[e] /\ (e \in held'[u] <=> e \in held[u])
<1>1. \A add, drop, classified :
        Record(add, drop, m.ent, classified) => (e \in held'[u] <=> e \in held[u])
  BY DEF Record
<1>2. UNCHANGED sodVars => (e \in held'[u] <=> e \in held[u])
  BY DEF sodVars
<1>3. NothingCounted => (e \in held'[u] <=> e \in held[u])
  BY DEF NothingCounted, sodVars
<1>4. CASE Ingest(m)
  <2>1. members'[e] = members[e]
    BY <1>4 DEF Ingest
  <2>2. e \in held'[u] <=> e \in held[u]
    BY <1>1, <1>2, <1>3, <1>4
    DEF Ingest, Joined, Touched, Left, Granted, Revoked, Noted, sodVars
  <2> QED BY <2>1, <2>2
<1>5. CASE ScimPut(m) \/ ScimPatchUser(m) \/ ScimDeleteUser(m)
  BY <1>2, <1>3, <1>5 DEF ScimPut, ScimPatchUser, ScimDeleteUser, AccountProvisioned
<1>6. CASE ScimCreateGroup(m)
  BY <1>2, <1>3, <1>6 DEF ScimCreateGroup, CreateGroup, TypeOK, StoreTypeOK
<1>7. CASE ScimPatchGroup(m)
  BY <1>1, <1>3, <1>7 DEF ScimPatchGroup, PatchGroup, TypeOK, StoreTypeOK
<1> QED BY <1>4, <1>5, <1>6, <1>7 DEF ScimCall

LEMMA MembersHandle ==
  ASSUME DistinctKeys, IInv, Once, PatchedMembersAreHeld, Handle
  PROVE  PatchedMembersAreHeld'
<1> DEFINE m == Head(current)
<1>1. /\ current # <<>> /\ current \in Seq(Message) /\ copies' = copies
      /\ (ScimCall(m) \/ Ingest(m)) /\ TypeOK
  BY DEF Handle, clientVars, IInv, TypeOK
<1>2. m \in Message /\ m = current[1] /\ 1 \in DOMAIN current
  BY <1>1
<1>3. PICK q \in Requests : copies[q] > 0 /\ m \in Range(q)
  BY <1>2 DEF Once, Underway
<1>4. copies[q] = 1 => Fresh(m)
  BY <1>1, <1>3, HeadFresh
<1> HIDE DEF m
<1>5. SUFFICES ASSUME NEW u \in Users, NEW e \in Entitlements, PlainGroup(e),
                      u \in members'[e]
               PROVE  e \in held'[u]
  BY <1>1 DEF PatchedMembersAreHeld, PlainGroup
<1>6. u \in members[e] => e \in held[u]
  BY <1>5 DEF PatchedMembersAreHeld, PlainGroup
<1>7. CASE m.ent # e
  BY <1>1, <1>2, <1>5, <1>6, <1>7, ElsewhereStill
<1>8. CASE m.ent = e
  <2>1. Plain(m) /\ Fresh(m)
    BY <1>3, <1>4, <1>5, <1>8 DEF PlainGroup
  <2>2. m.op \in GroupCalls /\ m.via = "scim"
    <3>1. m.op \in GroupCalls
      BY <2>1 DEF Plain, GroupCalls
    <3> QED BY <1>2, <3>1 DEF Message
  <2>3. \/ m.op = "group" /\ ScimCreateGroup(m)
        \/ m.op \in GroupChanges /\ ScimPatchGroup(m)
    <3>1. ScimCall(m) /\ m.op \notin UserCalls
      BY <1>1, <2>2 DEF Ingest, GroupCalls, GroupChanges, UserCalls
    <3> QED BY <3>1 DEF ScimCall, ScimPut, ScimPatchUser, ScimDeleteUser, ScimCreateGroup,
                        ScimPatchGroup, UserCalls
  <2>4. CASE m.op = "group" /\ ScimCreateGroup(m)
    <3>1. m.user = None /\ {m.user} \cap Users = {}
      BY <2>1, <2>4, ReceiverAssumption DEF Plain, GroupChanges
    <3>2. members'[e] \subseteq members[e]
      BY <1>1, <1>8, <2>4, <3>1 DEF ScimCreateGroup, CreateGroup, TypeOK, StoreTypeOK
    <3>3. held' = held
      BY <2>4 DEF ScimCreateGroup, NothingCounted, sodVars
    <3> QED BY <1>5, <1>6, <3>2, <3>3
  <2>5. CASE m.op \in GroupChanges /\ ScimPatchGroup(m)
    <3> DEFINE add == Added(e, m.op, m.user)
               drop == Dropped(e, m.op, m.user)
    <3>1. members'[e] = (members[e] \ drop) \cup add
      BY <1>1, <1>8, <2>5 DEF ScimPatchGroup, PatchGroup, TypeOK, StoreTypeOK
    <3>2. Record(add, drop, e, groups[e] = "named") /\ m.op # "replace" /\ m.op # "group"
      BY <1>8, <2>1, <2>5 DEF ScimPatchGroup, Plain, GroupChanges
    <3>3. e \in held'[u] <=> (e \in held[u] \/ u \in add) /\ u \notin drop
      BY <3>2 DEF Record
    <3>4. add = {} \/ drop = {}
      BY <3>2 DEF Added, Dropped
    <3> QED BY <1>5, <1>6, <3>1, <3>3, <3>4
  <2> QED BY <2>3, <2>4, <2>5
<1> QED BY <1>7, <1>8

LEMMA StepMembers ==
  ASSUME DistinctKeys, IInv, Once, PatchedMembersAreHeld, [Next]_vars
  PROVE  PatchedMembersAreHeld'
<1>1. ASSUME UNCHANGED <<members, held>>,
             \A q \in Requests : copies'[q] = copies[q] \/ copies'[q] = copies[q] + 1
      PROVE  PatchedMembersAreHeld'
  <2>1. \A q \in Requests : copies[q] \in Nat
    BY DEF IInv, TypeOK
  <2>2. \A q \in Requests : copies[q] > 0 => copies'[q] > 0 /\ (copies'[q] = 1 => copies[q] = 1)
    BY <1>1, <2>1
  <2>3. \A e : PlainGroup(e)' => PlainGroup(e)
    BY <2>2 DEF PlainGroup, Plain
  <2>4. SUFFICES ASSUME NEW u \in Users, NEW e \in Entitlements, PlainGroup(e)', u \in members[e]
                 PROVE  e \in held[u]
    BY <1>1 DEF PatchedMembersAreHeld, PlainGroup
  <2>5. PlainGroup(e)
    BY <2>3, <2>4
  <2> QED BY <2>4, <2>5 DEF PatchedMembersAreHeld, PlainGroup
<1>2. CASE UNCHANGED vars
  BY <1>1, <1>2 DEF vars, storeVars, sodVars, clientVars
<1>3. CASE Client
  <2>1. UNCHANGED <<members, held>>
    BY <1>3 DEF Client, Admit, Begin, Abandon, Consume, EngineUnchanged, storeVars, sodVars
  <2>2. \A q \in Requests : copies'[q] = copies[q] \/ copies'[q] = copies[q] + 1
    <3>1. copies \in [Requests -> Nat]
      BY DEF IInv, TypeOK
    <3>2. copies' = copies \/ \E q \in Requests : copies' = [copies EXCEPT ![q] = @ + 1]
      BY <1>3 DEF Client, Admit, Begin, Abandon, Consume, Delivered
    <3> QED BY <3>1, <3>2
  <2> QED BY <1>1, <2>1, <2>2
<1>4. CASE Pump
  BY <1>1, <1>4 DEF Pump, PumpDue, Decide, Drain, EngineUnchanged, storeVars, sodVars, clientVars
<1>5. CASE Reset
  BY <1>5 DEF Reset, StoreReset, NoMembers, PatchedMembersAreHeld
<1> QED BY <1>2, <1>3, <1>4, <1>5, MembersHandle DEF Next

\* A member of a group that only plain PATCHes made holds its entitlement, for
\* any requests with keys of their own.
THEOREM MembersSound == DistinctKeys => (Spec => []PatchedMembersAreHeld)
<1> SUFFICES ASSUME DistinctKeys
             PROVE  Spec => []PatchedMembersAreHeld
  OBVIOUS
<1>1. Init => Once /\ PatchedMembersAreHeld
  <2>1. Init => PatchedMembersAreHeld
    BY DEF Init, StoreEmpty, NoMembers, PatchedMembersAreHeld
  <2> QED BY <2>1, InitOnce
<1>2. IInv /\ Once /\ PatchedMembersAreHeld /\ [Next]_vars => (Once /\ PatchedMembersAreHeld)'
  BY StepOnce, StepMembers
<1> QED BY <1>1, <1>2, ReceiverInvariant, PTL DEF Spec

-----------------------------------------------------------------------------
(* The depth.  Room says what the requests that were let in may still add;  *)
(* every step leaves room for the rest.                                    *)

Load == [l \in Lanes |-> Len(queue[l]) + inflight[l]]
LargestBurden == Max({Burden(q) : q \in Requests})
StreamedWork == SumFunction([q \in Streamed |-> copies[q] * Burden(q)])

\* An approval is for one connector.
OneLaneEach == \A i \in DOMAIN approvals : \E l \in Lanes : approvals[i].lanes = {l}
Room ==
  /\ OneLaneEach
  /\ SumFunction(open) <= MaxOpen
  /\ Depth + Burden(current) + SumFunction(open) * LargestBurden
       <= HighWater - 1 + MaxOpen * LargestBurden + StreamedWork

\* What a message brings is a number, as is what a request brings; no request
\* brings more than the largest.
LEMMA WorkNat ==
  ASSUME NEW m \in Message
  PROVE  Work(m) \in Nat
<1>1. Cardinality(Users) + 1 \in Nat
  BY ReceiverAssumption, FS_CardinalityType
<1>2. IsFiniteSet({}) /\ IsFiniteSet(IdentityLanes) /\ \A l : IsFiniteSet({l})
  <2>1. IdentityLanes = {PrimaryLane} \cup {MailboxLane}
    BY DEF IdentityLanes
  <2> QED BY <2>1, FS_EmptySet, FS_Singleton, FS_Union
<1>3. IsFiniteSet(Route(m))
  <2>1. Route(m) = {} \/ Route(m) = IdentityLanes \/ Route(m) = {SystemLane[m.ent]}
    BY DEF Route
  <2> QED BY <1>2, <2>1
<1> QED BY <1>1, <1>3, FS_CardinalityType DEF Work

LEMMA BurdenSteps ==
  ASSUME NEW s \in Seq(Message)
  PROVE  /\ Burden(s) \in Nat
         /\ s # <<>> => Burden(s) = Work(Head(s)) + Burden(Tail(s))
<1> DEFINE f == [i \in DOMAIN s |-> Work(s[i])]
           g == [i \in DOMAIN Tail(s) |-> Work(Tail(s)[i])]
           n == Len(s)
<1>1. n \in Nat /\ DOMAIN s = 1..n /\ \A i \in 1..n : s[i] \in Message
  OBVIOUS
<1>2. f \in [1..n -> Nat]
  BY <1>1, WorkNat
<1>3. IsFiniteSet(1..n)
  BY <1>1, FS_Interval
<1>4. Burden(s) \in Nat
  <2>1. SumFunction(f) \in Nat
    <3> HIDE DEF f, n
    <3> QED BY <1>2, <1>3, SumNat
  <2> QED BY <2>1 DEF Burden
<1>5. ASSUME s # <<>>
      PROVE  Burden(s) = Work(Head(s)) + Burden(Tail(s))
  <2>1. /\ n \in Nat \ {0} /\ Head(s) = s[1] /\ DOMAIN Tail(s) = 1..(n - 1)
        /\ \A i \in 1..(n - 1) : Tail(s)[i] = s[i + 1] /\ i + 1 \in 1..n
    BY <1>1, <1>5
  <2>2. g \in [1..(n - 1) -> Nat]
    BY <1>1, <2>1, WorkNat
  <2>3. (\A i \in 1..(n - 1) : g[i] = f[i + 1]) /\ f[1] = Work(Head(s))
    BY <1>1, <2>1
  <2>4. SumFunction(f) = f[1] + SumFunction(g)
    <3> HIDE DEF f, g, n
    <3> QED BY <1>2, <2>1, <2>2, <2>3, SumTail
  <2> QED BY <2>3, <2>4 DEF Burden
<1> QED BY <1>4, <1>5

LEMMA LargestIsLargest ==
  /\ LargestBurden \in Nat
  /\ \A q \in Requests : Burden(q) \in Nat /\ Burden(q) <= LargestBurden
<1> DEFINE f == [q \in Requests |-> Burden(q)]
           B == {Burden(q) : q \in Requests}
<1>1. \A q \in Requests : q \in Seq(Message) /\ Burden(q) \in Nat
  BY BurdenSteps, ReceiverAssumption
<1>2. f \in [Requests -> Nat]
  BY <1>1
<1>3. PICK q \in Requests : \A r \in Requests : f[r] <= f[q]
  <2> HIDE DEF f
  <2> QED BY <1>2, Largest, ReceiverAssumption, ZenonT(30)
<1>4. Burden(q) \in B /\ \A k \in B : k <= Burden(q) /\ k \in Nat /\ Burden(q) >= k
  BY <1>1, <1>3
<1>5. LargestBurden \in B /\ \A k \in B : LargestBurden >= k
  <2> HIDE DEF B
  <2>1. \E x \in B : \A y \in B : x >= y
    BY <1>4
  <2>2. Max(B) \in B /\ \A y \in B : Max(B) >= y
    BY <2>1 DEF Max
  <2> QED BY <2>2 DEF LargestBurden, B
<1> QED BY <1>1, <1>5

\* The depth is a number: what is in the lanes and what waits for approval.
LEMMA LoadNat ==
  ASSUME TypeOK
  PROVE  /\ Load \in [Lanes -> Nat] /\ SumFunction(Load) \in Nat /\ Len(approvals) \in Nat
         /\ Depth = SumFunction(Load) + Len(approvals) /\ Depth \in Nat
<1>1. \A l \in Lanes : Len(queue[l]) \in Nat /\ inflight[l] \in Nat
  BY DEF TypeOK, PoolTypeOK
<1>2. Load \in [Lanes -> Nat]
  BY <1>1 DEF Load
<1>3. SumFunction(Load) \in Nat
  BY <1>2, SumNat, ReceiverAssumption
<1>4. Len(approvals) \in Nat
  BY DEF TypeOK
<1>5. Depth = SumFunction(Load) + Len(approvals)
  BY DEF Depth, Load
<1> QED BY <1>2, <1>3, <1>4, <1>5

LEMMA LoadNatNext == TypeOK' =>
  /\ Load' \in [Lanes -> Nat] /\ SumFunction(Load') \in Nat /\ Len(approvals') \in Nat
  /\ Depth' = SumFunction(Load') + Len(approvals') /\ Depth' \in Nat
<1>1. TypeOK =>
        /\ Load \in [Lanes -> Nat] /\ SumFunction(Load) \in Nat /\ Len(approvals) \in Nat
        /\ Depth = SumFunction(Load) + Len(approvals) /\ Depth \in Nat
  BY LoadNat
<1>2. TypeOK' =>
        (/\ Load \in [Lanes -> Nat] /\ SumFunction(Load) \in Nat /\ Len(approvals) \in Nat
         /\ Depth = SumFunction(Load) + Len(approvals) /\ Depth \in Nat)'
  BY <1>1, PTL
<1> QED BY <1>2

\* Tasks submitted to a lane add their number to its load.
LEMMA SubmitLoads ==
  ASSUME TypeOK, TypeOK', NEW tasks \in Seq(Tasks), NEW lanes, Submit(tasks, lanes)
  PROVE  \A l \in Lanes : Load'[l] = Load[l] + (IF l \in lanes THEN Len(tasks) ELSE 0)
<1> TAKE l \in Lanes
<1>1. queue[l] \in Seq(Tasks) /\ inflight[l] \in Nat
  BY DEF TypeOK, PoolTypeOK
<1>2. queue'[l] = (IF l \in lanes THEN queue[l] \o tasks ELSE queue[l]) /\ inflight' = inflight
  BY DEF Submit
<1>3. Len(queue[l] \o tasks) = Len(queue[l]) + Len(tasks) /\ Len(queue[l]) \in Nat /\ Len(tasks) \in Nat
  BY <1>1
<1>4. Load'[l] = Len(queue'[l]) + inflight'[l] /\ Load[l] = Len(queue[l]) + inflight[l]
  BY DEF Load
<1>5. CASE l \in lanes
  BY <1>1, <1>2, <1>3, <1>4, <1>5
<1>6. CASE l \notin lanes
  BY <1>1, <1>2, <1>3, <1>4, <1>6
<1> QED BY <1>5, <1>6

LEMMA OneLane ==
  ASSUME TypeOK, TypeOK', NEW tasks \in Seq(Tasks), NEW a \in Lanes, Submit(tasks, {a})
  PROVE  SumFunction(Load') = SumFunction(Load) + Len(tasks)
<1> DEFINE f == Load
           g == Load'
<1>1. \A l \in Lanes : g[l] = f[l] + (IF l \in {a} THEN Len(tasks) ELSE 0)
  BY SubmitLoads
<1>2. /\ f \in [Lanes -> Nat] /\ SumFunction(f) \in Nat
      /\ g \in [Lanes -> Nat] /\ SumFunction(g) \in Nat /\ Len(tasks) \in Nat
  BY LoadNat, LoadNatNext
<1> HIDE DEF f, g
<1>3. (\A l \in Lanes \ {a} : g[l] = f[l]) /\ g[a] = f[a] + Len(tasks) /\ f[a] \in Nat
  BY <1>1, <1>2
<1>4. IsFiniteSet(Lanes)
  BY ReceiverAssumption
<1>5. SumFunction(g) + f[a] = SumFunction(f) + g[a]
  <2>1. f \in [Lanes -> Nat] /\ g \in [Lanes -> Nat]
    BY <1>2
  <2>2. \A l \in Lanes \ {a} : g[l] = f[l]
    BY <1>3
  <2> QED BY <1>4, <2>1, <2>2, SumChange, SMTT(30)
<1>6. SumFunction(g) = SumFunction(f) + Len(tasks)
  <2> DEFINE n == Len(tasks)
             x == f[a]
             before == SumFunction(f)
             after == SumFunction(g)
  <2>1. /\ x \in Nat /\ n \in Nat /\ before \in Nat /\ after \in Nat
        /\ after + x = before + (x + n)
    BY <1>2, <1>3, <1>5
  <2> HIDE DEF n, x, before, after
  <2>2. after = before + n
    BY <2>1
  <2> QED BY <2>2 DEF n, before, after
<1> QED BY <1>6 DEF f, g

LEMMA IdentityLoad ==
  ASSUME TypeOK, TypeOK', NEW t \in Tasks, Submit(<<t>>, IdentityLanes)
  PROVE  SumFunction(Load') = SumFunction(Load) + Cardinality(IdentityLanes)
<1> DEFINE a == PrimaryLane
           b == MailboxLane
           tasks == <<t>>
<1>1. a \in Lanes /\ b \in Lanes /\ IdentityLanes = {a, b} /\ tasks \in Seq(Tasks) /\ Len(tasks) = 1
  BY ReceiverAssumption DEF IdentityLanes
<1>2. CASE a = b
  <2>1. IdentityLanes = {a} /\ Cardinality(IdentityLanes) = 1
    BY <1>1, <1>2, FS_Singleton
  <2>2. Submit(tasks, {a})
    BY <2>1
  <2> HIDE DEF a, tasks
  <2> QED BY <1>1, <2>1, <2>2, OneLane
<1>3. CASE a # b
  <2>1. Cardinality(IdentityLanes) = 2
    <3>1. IsFiniteSet({a}) /\ Cardinality({a}) = 1 /\ {a, b} = {a} \cup {b} /\ b \notin {a}
      BY <1>3, FS_Singleton
    <3>2. Cardinality({a} \cup {b}) = Cardinality({a}) + 1
      BY <3>1, FS_AddElement
    <3> QED BY <1>1, <3>1, <3>2
  <2> DEFINE f == Load
             g == Load'
             h == [Load EXCEPT ![a] = @ + 1]
  <2>2. \A l \in Lanes : g[l] = f[l] + (IF l \in {a, b} THEN 1 ELSE 0)
    <3>1. \A l \in Lanes : g[l] = f[l] + (IF l \in IdentityLanes THEN Len(tasks) ELSE 0)
      <4> HIDE DEF tasks, f, g
      <4>1. Submit(tasks, IdentityLanes)
        BY DEF tasks
      <4> QED BY <1>1, <4>1, SubmitLoads, ZenonT(30) DEF f, g
    <3> HIDE DEF f, g
    <3> QED BY <1>1, <3>1
  <2>3. /\ f \in [Lanes -> Nat] /\ SumFunction(f) \in Nat
        /\ g \in [Lanes -> Nat] /\ SumFunction(g) \in Nat
    BY LoadNat, LoadNatNext
  <2>4. h = [f EXCEPT ![a] = @ + 1]
    OBVIOUS
  <2> HIDE DEF f, g, h, a, b
  <2>5. h \in [Lanes -> Nat] /\ h[a] = f[a] + 1 /\ \A l \in Lanes \ {a} : h[l] = f[l]
    BY <1>1, <2>3, <2>4
  <2>6. g[b] = h[b] + 1 /\ (\A l \in Lanes \ {b} : g[l] = h[l]) /\ f[a] \in Nat /\ h[b] \in Nat
    BY <1>1, <1>3, <2>2, <2>3, <2>5
  <2>0. IsFiniteSet(Lanes)
    BY ReceiverAssumption
  <2>7. SumFunction(h) + f[a] = SumFunction(f) + h[a] /\ SumFunction(h) \in Nat
    <3>1. SumFunction(h) \in Nat
      BY <2>0, <2>5, SumNat
    <3>2. SumFunction(h) + f[a] = SumFunction(f) + h[a]
      BY <1>1, <2>0, <2>3, <2>5, SumChange
    <3> QED BY <3>1, <3>2
  <2>8. SumFunction(g) + h[b] = SumFunction(h) + g[b]
    BY <1>1, <2>0, <2>3, <2>5, <2>6, SumChange
  <2>9. SumFunction(g) = SumFunction(f) + 2
    BY <2>3, <2>5, <2>6, <2>7, <2>8
  <2> QED BY <2>1, <2>9 DEF f, g
<1> QED BY <1>2, <1>3

\* What a message adds to the depth is no more than its work, and whatever it
\* leaves for approval is for one connector.
LEMMA MessageDepth ==
  ASSUME TypeOK, TypeOK', OneLaneEach, NEW m \in Message, Said(m)
  PROVE  Depth' <= Depth + Work(m) /\ OneLaneEach'
<1>0. Work(m) \in Nat /\ Depth \in Nat /\ Depth' \in Nat
  BY WorkNat, LoadNat, LoadNatNext
<1>1. ASSUME UNCHANGED approvalVars
      PROVE  /\ OneLaneEach' /\ Len(approvals') = Len(approvals)
             /\ \A n \in Nat : n <= Work(m) /\ SumFunction(Load') = SumFunction(Load) + n
                  => Depth' <= Depth + Work(m)
  <2>1. approvals' = approvals
    BY <1>1 DEF approvalVars
  <2>2. OneLaneEach'
    BY <2>1 DEF OneLaneEach
  <2>3. /\ Depth = SumFunction(Load) + Len(approvals)
        /\ Depth' = SumFunction(Load') + Len(approvals')
        /\ SumFunction(Load) \in Nat /\ Len(approvals) \in Nat
    BY LoadNat, LoadNatNext
  <2>4. Len(approvals') = Len(approvals)
    BY <2>1
  <2> DEFINE a == Len(approvals)
             f == SumFunction(Load)
             g == SumFunction(Load')
             d == Depth'
  <2>5. /\ Depth = f + a /\ d = g + a /\ f \in Nat /\ a \in Nat
    BY <2>3, <2>4
  <2>6. \A n \in Nat : n <= Work(m) /\ g = f + n => d <= Depth + Work(m)
    <3> HIDE DEF a, f, g, d
    <3> QED BY <1>0, <2>5
  <2> QED BY <2>2, <2>4, <2>6 DEF d, f, g
<1>2. CASE UNCHANGED <<poolVars, approvalVars>>
  <2>1. Load' = Load
    BY <1>2 DEF Load, poolVars
  <2>2. SumFunction(Load') = SumFunction(Load) + 0
    BY <2>1, LoadNat
  <2>3. 0 \in Nat /\ 0 <= Work(m)
    BY <1>0
  <2> QED BY <1>1, <1>2, <2>2, <2>3
<1>3. CASE OfAccount(m)
  <2>1. UNCHANGED approvalVars /\ Route(m) = IdentityLanes /\ m.op \notin GroupChanges
    BY <1>3 DEF OfAccount
  <2>2. Work(m) = Cardinality(IdentityLanes)
    BY <2>1 DEF Work
  <2>3. SumFunction(Load') = SumFunction(Load) + Work(m)
    BY <1>3, <2>2, IdentityLoad DEF OfAccount
  <2> QED BY <1>0, <1>1, <2>1, <2>3
<1>4. CASE OfGroup(m)
  <2>1. PICK tasks \in Seq(Tasks), lane \in Lanes :
          Len(tasks) <= Cardinality(Users) + 1 /\ Submit(tasks, {lane})
    BY <1>4 DEF OfGroup
  <2>2. m.op \in GroupChanges /\ UNCHANGED approvalVars
    BY <1>4 DEF OfGroup
  <2>3. Work(m) = Cardinality(Users) + 1
    BY <2>2 DEF Work
  <2>4. SumFunction(Load') = SumFunction(Load) + Len(tasks)
    BY <2>1, OneLane
  <2> QED BY <1>1, <2>1, <2>2, <2>3, <2>4
<1>5. CASE OfEntitlement(m)
  <2> DEFINE t == Task(m.user, m.op, m.ent)
             lane == SystemLane[m.ent]
             tasks == <<t>>
  <2>1. t \in Tasks /\ lane \in Lanes /\ tasks \in Seq(Tasks) /\ Len(tasks) = 1
    BY <1>5, EntitlementTask, ReceiverAssumption DEF OfEntitlement
  <2>2. Work(m) = 1
    <3>1. Route(m) = {lane} /\ m.op \notin GroupChanges
      BY <1>5 DEF OfEntitlement, GroupChanges
    <3> QED BY <3>1, FS_Singleton DEF Work
  <2>3. CASE m.gated
    <3> DEFINE items == [i \in DOMAIN tasks |-> [task |-> tasks[i], lanes |-> {lane}]]
    <3>1. approvals' = approvals \o items /\ UNCHANGED poolVars
      BY <1>5, <2>3 DEF OfEntitlement, Provision
    <3>2. items \in Seq(Approvals) /\ Len(items) = 1 /\ items[1].lanes = {lane}
      <4>1. [task |-> t, lanes |-> {lane}] \in Approvals
        BY <2>1 DEF Approvals
      <4>2. items \in [1..1 -> Approvals] /\ items[1].lanes = {lane} /\ DOMAIN items = 1..1
        BY <4>1
      <4>3. items \in Seq(Approvals)
        BY <4>2
      <4> HIDE DEF items
      <4>4. Len(items) = 1
        BY <4>2, <4>3
      <4> QED BY <4>2, <4>3, <4>4
    <3>3. approvals \in Seq(Approvals)
      BY DEF TypeOK
    <3> HIDE DEF items
    <3>4. /\ Len(approvals') = Len(approvals) + 1 /\ Len(approvals) \in Nat
          /\ \A i \in DOMAIN approvals' : \/ i \in DOMAIN approvals /\ approvals'[i] = approvals[i]
                                         \/ approvals'[i] = items[1]
      <4>0. /\ Len(approvals) \in Nat /\ DOMAIN approvals = 1..Len(approvals)
            /\ Len(approvals \o items) = Len(approvals) + Len(items)
            /\ DOMAIN (approvals \o items) = 1..(Len(approvals) + Len(items))
            /\ \A j \in 1..(Len(approvals) + Len(items)) :
                 (approvals \o items)[j] = IF j <= Len(approvals) THEN approvals[j]
                                            ELSE items[j - Len(approvals)]
        <5>1. approvals \in Seq(Approvals) /\ items \in Seq(Approvals)
          BY <3>2, <3>3
        <5> QED BY <5>1, ConcatElements
      <4>1. /\ Len(approvals) \in Nat /\ DOMAIN approvals = 1..Len(approvals)
            /\ Len(approvals') = Len(approvals) + 1
            /\ DOMAIN approvals' = 1..(Len(approvals) + 1)
            /\ \A j \in 1..(Len(approvals) + 1) :
                 approvals'[j] = IF j <= Len(approvals) THEN approvals[j]
                                 ELSE items[j - Len(approvals)]
        BY <3>1, <3>2, <4>0
      <4>2. Len(approvals') = Len(approvals) + 1
        BY <4>1
      <4>3. ASSUME NEW i \in DOMAIN approvals'
            PROVE  \/ i \in DOMAIN approvals /\ approvals'[i] = approvals[i]
                   \/ approvals'[i] = items[1]
        <5>1. i \in 1..Len(approvals) \/ (i = Len(approvals) + 1 /\ ~(i <= Len(approvals)))
          BY <4>1
        <5>2. i = Len(approvals) + 1 => i - Len(approvals) = 1
          BY <4>1
        <5> QED BY <4>1, <5>1, <5>2
      <4> QED BY <4>1, <4>2, <4>3
    <3>5. OneLaneEach'
      BY <2>1, <3>2, <3>4 DEF OneLaneEach
    <3>6. SumFunction(Load') = SumFunction(Load)
      BY <3>1 DEF Load, poolVars
    <3>7. Depth' = Depth + 1
      BY <3>4, <3>6, LoadNat, LoadNatNext
    <3> QED BY <1>0, <2>2, <3>5, <3>7
  <2>4. CASE ~m.gated
    <3>1. Submit(tasks, {lane}) /\ UNCHANGED approvalVars
      BY <1>5, <2>4 DEF OfEntitlement, Provision
    <3> HIDE DEF tasks, lane
    <3>2. SumFunction(Load') = SumFunction(Load) + Len(tasks)
      BY <2>1, <3>1, OneLane
    <3>3. Len(tasks) \in Nat /\ Len(tasks) <= Work(m)
      BY <2>1, <2>2
    <3> QED BY <1>1, <3>1, <3>2, <3>3
  <2> QED BY <2>3, <2>4
<1> QED BY <1>2, <1>3, <1>4, <1>5 DEF Said, Ignored, Silent

\* Deciding moves an approval into a lane or out; pumping only takes off.
LEMMA DecideDepth ==
  ASSUME TypeOK, TypeOK', OneLaneEach, NEW yes \in BOOLEAN, Decide(yes)
  PROVE  Depth' <= Depth /\ OneLaneEach'
<1> DEFINE item == Head(approvals)
           tasks == <<item.task>>
<1>1. approvals \in Seq(Approvals) /\ approvals # <<>> /\ approvals' = Tail(approvals)
  <2>1. settling > 0 /\ settling \in 0..Len(approvals)
    BY DEF Decide, TypeOK
  <2>2. approvals # <<>>
    BY <2>1
  <2> QED BY <2>2 DEF Decide, TypeOK
<1>2. /\ item \in Approvals /\ item = approvals[1] /\ 1 \in DOMAIN approvals
      /\ Len(approvals') = Len(approvals) - 1 /\ Len(approvals) \in Nat \ {0}
      /\ \A i \in DOMAIN approvals' : i + 1 \in DOMAIN approvals /\ approvals'[i] = approvals[i + 1]
  BY <1>1
<1>3. OneLaneEach'
  BY <1>2 DEF OneLaneEach
<1>4. PICK lane \in Lanes : item.lanes = {lane}
  BY <1>2 DEF OneLaneEach
<1>5. tasks \in Seq(Tasks) /\ Len(tasks) = 1
  BY <1>2 DEF Approvals
<1>6. Submit(tasks, {lane}) \/ UNCHANGED poolVars
  BY <1>4 DEF Decide
<1> HIDE DEF tasks, item
<1>7. SumFunction(Load') = SumFunction(Load) + 1 \/ SumFunction(Load') = SumFunction(Load)
  <2>1. CASE Submit(tasks, {lane})
    BY <1>5, <2>1, OneLane
  <2>2. CASE UNCHANGED poolVars
    BY <2>2 DEF Load, poolVars
  <2> QED BY <1>6, <2>1, <2>2
<1>8. Depth' <= Depth
  BY <1>2, <1>7, LoadNat, LoadNatNext
<1> QED BY <1>3, <1>8

LEMMA DrainDepth ==
  ASSUME IInv, IInv', NEW kept \in Remainders, Drain(kept)
  PROVE  Depth' <= Depth
<1>0. TypeOK /\ TypeOK' /\ LanesExact /\ LanesExact' /\ PoolTypeOK /\ PoolTypeOK'
  BY DEF IInv, TypeOK
<1>1. ASSUME NEW l \in Lanes
      PROVE  Load'[l] <= Load[l]
  <2>1. /\ Len(queue[l]) \in Nat /\ inflight[l] \in Nat /\ completed[l] \in Nat
        /\ Len(queue'[l]) \in Nat /\ inflight'[l] \in Nat /\ completed'[l] \in Nat
        /\ LaneConcurrency[l] \in Nat
    BY <1>0, PoolAssumption DEF PoolTypeOK
  <2>2. /\ Len(submitted[l]) = inflight[l] + completed[l] + Len(queue[l])
        /\ Len(submitted'[l]) = inflight'[l] + completed'[l] + Len(queue'[l])
    BY <1>0 DEF LanesExact
  <2>3. submitted' = submitted
    BY DEF Drain, PumpLanes
  <2>4. completed[l] <= completed'[l]
    <3>1. kept[l] \in Nat /\ kept[l] <= inflight[l]
      <4>1. kept[l] \in UNION {0..LaneConcurrency[k] : k \in Lanes} /\ kept[l] <= inflight[l]
        BY DEF Remainders
      <4> QED BY <4>1, PoolAssumption
    <3>2. Startable(l, kept[l]) \in Nat
      <4>1. kept[l] <= LaneConcurrency[l]
        BY <1>0, <2>1, <3>1 DEF PoolTypeOK
      <4>2. LaneConcurrency[l] - kept[l] \in Nat
        BY <2>1, <3>1, <4>1
      <4> QED BY <2>1, <4>2 DEF Startable
    <3>3. completed'[l] = completed[l] + (inflight[l] - kept[l])
                            + (IF SimulateLatency THEN 0 ELSE Startable(l, kept[l]))
      BY DEF Drain, PumpLanes
    <3>4. (IF SimulateLatency THEN 0 ELSE Startable(l, kept[l])) \in Nat
      BY <3>2
    <3> QED BY <2>1, <3>1, <3>3, <3>4
  <2>5. Load'[l] = Len(queue'[l]) + inflight'[l] /\ Load[l] = Len(queue[l]) + inflight[l]
    BY DEF Load
  <2>6. inflight'[l] + completed'[l] + Len(queue'[l]) = inflight[l] + completed[l] + Len(queue[l])
    BY <2>2, <2>3
  <2>7. Len(queue'[l]) + inflight'[l] <= Len(queue[l]) + inflight[l]
    <3> DEFINE i == inflight[l]
               c == completed[l]
               n == Len(queue[l])
               i1 == inflight'[l]
               c1 == completed'[l]
               n1 == Len(queue'[l])
    <3>1. /\ i \in Nat /\ c \in Nat /\ n \in Nat /\ i1 \in Nat /\ c1 \in Nat /\ n1 \in Nat
          /\ c <= c1 /\ i1 + c1 + n1 = i + c + n
      BY <2>1, <2>4, <2>6
    <3> HIDE DEF i, c, n, i1, c1, n1
    <3>2. n1 + i1 <= n + i
      BY <3>1
    <3> QED BY <3>2 DEF i, n, i1, n1
  <2> QED BY <2>5, <2>7
<1> DEFINE f == Load
           g == Load'
<1>2. f \in [Lanes -> Nat] /\ g \in [Lanes -> Nat] /\ \A l \in Lanes : g[l] <= f[l]
  BY <1>0, <1>1, LoadNat, LoadNatNext
<1>3. IsFiniteSet(Lanes)
  BY ReceiverAssumption
<1>4. SumFunction(g) <= SumFunction(f)
  <2> HIDE DEF f, g
  <2> QED BY <1>2, <1>3, SumSmaller
<1>5. approvals' = approvals
  BY DEF Drain, approvalVars
<1> QED BY <1>0, <1>4, <1>5, LoadNat, LoadNatNext

\* Room of the next state, by its parts.
RoomIn(depth, burden, letIn, streamed) ==
  depth + burden + letIn * LargestBurden <= HighWater - 1 + MaxOpen * LargestBurden + streamed

LEMMA RoomTypes ==
  ASSUME TypeOK
  PROVE  /\ Depth \in Nat /\ Burden(current) \in Nat /\ SumFunction(open) \in Nat
         /\ StreamedWork \in Nat /\ MaxOpen \in Nat /\ HighWater \in Nat \ {0}
<1>1. Depth \in Nat
  BY LoadNat
<1>2. Burden(current) \in Nat
  BY BurdenSteps DEF TypeOK
<1>3. SumFunction(open) \in Nat
  BY SumNat, ReceiverAssumption DEF TypeOK
<1>4. StreamedWork \in Nat
  <2> DEFINE f == [q \in Streamed |-> copies[q] * Burden(q)]
  <2>1. IsFiniteSet(Streamed) /\ Streamed \subseteq Requests
    BY ReceiverAssumption, FS_Subset
  <2>2. f \in [Streamed -> Nat]
    <3>1. \A q \in Streamed : copies[q] \in Nat /\ Burden(q) \in Nat
      BY <2>1, LargestIsLargest DEF TypeOK
    <3> QED BY <3>1
  <2>3. SumFunction(f) \in Nat
    <3> HIDE DEF f
    <3> QED BY <2>1, <2>2, SumNat
  <2> QED BY <2>3 DEF StreamedWork
<1>5. MaxOpen \in Nat /\ HighWater \in Nat \ {0}
  BY ReceiverAssumption
<1> QED BY <1>1, <1>2, <1>3, <1>4, <1>5

LEMMA RoomTypesNext == TypeOK' =>
  /\ Depth' \in Nat /\ Burden(current)' \in Nat /\ SumFunction(open') \in Nat
  /\ StreamedWork' \in Nat
<1>1. TypeOK => /\ Depth \in Nat /\ Burden(current) \in Nat /\ SumFunction(open) \in Nat
                /\ StreamedWork \in Nat
  BY RoomTypes
<1>2. TypeOK' => (/\ Depth \in Nat /\ Burden(current) \in Nat /\ SumFunction(open) \in Nat
                  /\ StreamedWork \in Nat)'
  BY <1>1, PTL
<1> QED BY <1>2

\* One copy more or less of a request that is let in.
LEMMA OpenChanges ==
  ASSUME TypeOK, TypeOK', NEW q \in Requests
  PROVE  /\ open' = [open EXCEPT ![q] = @ + 1] => SumFunction(open') = SumFunction(open) + 1
         /\ open[q] > 0 /\ open' = [open EXCEPT ![q] = @ - 1]
              => SumFunction(open') + 1 = SumFunction(open)
<1> DEFINE f == open
           g == open'
<1>1. /\ f \in [Requests -> Nat] /\ g \in [Requests -> Nat] /\ IsFiniteSet(Requests)
      /\ SumFunction(f) \in Nat /\ SumFunction(g) \in Nat
  BY SumNat, ReceiverAssumption DEF TypeOK
<1>2. ASSUME \A r \in Requests \ {q} : g[r] = f[r]
      PROVE  SumFunction(g) + f[q] = SumFunction(f) + g[q]
  <2> HIDE DEF f, g
  <2> QED BY <1>1, <1>2, SumChange
<1>3. ASSUME g = [f EXCEPT ![q] = @ + 1]
      PROVE  SumFunction(g) = SumFunction(f) + 1
  <2>1. (\A r \in Requests \ {q} : g[r] = f[r]) /\ g[q] = f[q] + 1 /\ f[q] \in Nat
    BY <1>1, <1>3
  <2>2. SumFunction(g) + f[q] = SumFunction(f) + g[q]
    BY <1>2, <2>1
  <2> HIDE DEF f, g
  <2> QED BY <1>1, <2>1, <2>2
<1>4. ASSUME f[q] > 0, g = [f EXCEPT ![q] = @ - 1]
      PROVE  SumFunction(g) + 1 = SumFunction(f)
  <2>1. (\A r \in Requests \ {q} : g[r] = f[r]) /\ g[q] + 1 = f[q] /\ g[q] \in Nat /\ f[q] \in Nat
    BY <1>1, <1>4
  <2>2. SumFunction(g) + f[q] = SumFunction(f) + g[q]
    BY <1>2, <2>1
  <2> HIDE DEF f, g
  <2> QED BY <1>1, <2>1, <2>2
<1> QED BY <1>3, <1>4

\* A delivery over NATS makes room for what it brings; one over HTTP does not.
LEMMA DeliveryMakesRoom ==
  ASSUME TypeOK, TypeOK', NEW q \in Requests, Delivered(q)
  PROVE  /\ q \in Streamed => StreamedWork' = StreamedWork + Burden(q)
         /\ q \notin Streamed => StreamedWork' = StreamedWork
<1> DEFINE f == [r \in Streamed |-> copies[r] * Burden(r)]
           g == [r \in Streamed |-> copies'[r] * Burden(r)]
<1>1. copies' = [copies EXCEPT ![q] = @ + 1] /\ copies \in [Requests -> Nat]
  BY DEF Delivered, TypeOK
<1>2. IsFiniteSet(Streamed) /\ Streamed \subseteq Requests
  BY ReceiverAssumption, FS_Subset
<1>3. \A r \in Streamed : /\ copies[r] \in Nat /\ Burden(r) \in Nat /\ copies'[r] \in Nat
                          /\ r # q => copies'[r] = copies[r]
                          /\ r = q => copies'[r] = copies[r] + 1
  BY <1>1, <1>2, LargestIsLargest
<1>4. f \in [Streamed -> Nat] /\ g \in [Streamed -> Nat]
  BY <1>3
<1>5. SumFunction(f) = StreamedWork /\ SumFunction(g) = StreamedWork'
  BY DEF StreamedWork
<1>6. \A r \in Streamed \ {q} : g[r] = f[r]
  BY <1>3
<1>7. ASSUME q \notin Streamed
      PROVE  StreamedWork' = StreamedWork
  <2>1. g = f
    BY <1>6, <1>7
  <2> QED BY <1>5, <2>1
<1>8. ASSUME q \in Streamed
      PROVE  StreamedWork' = StreamedWork + Burden(q)
  <2>1. \A a, b \in Nat : (a + 1) * b = a * b + b
    OBVIOUS
  <2>2. f[q] = copies[q] * Burden(q) /\ g[q] = (copies[q] + 1) * Burden(q) /\ f[q] \in Nat /\ Burden(q) \in Nat
    BY <1>3, <1>4, <1>8
  <2>3. g[q] = f[q] + Burden(q)
    BY <1>3, <1>8, <2>1, <2>2
  <2> HIDE DEF f, g
  <2>4. SumFunction(g) + f[q] = SumFunction(f) + g[q] /\ SumFunction(f) \in Nat /\ SumFunction(g) \in Nat
    BY <1>2, <1>4, <1>6, <1>8, SumChange, SumNat
  <2>5. SumFunction(g) = SumFunction(f) + Burden(q)
    BY <2>2, <2>3, <2>4
  <2> QED BY <1>5, <2>5
<1> QED BY <1>7, <1>8

\* The arithmetic of the room: where it stays, where a request takes its share
\* of it, and where one is let in below the mark.
LEMMA RoomStays ==
  ASSUME NEW d \in Nat, NEW b \in Nat, NEW o \in Nat, NEW w \in Nat, RoomIn(d, b, o, w),
         NEW d1 \in Nat, NEW b1 \in Nat, NEW w1 \in Nat, d1 + b1 + w <= d + b + w1
  PROVE  RoomIn(d1, b1, o, w1)
<1> DEFINE x == o * LargestBurden
           y == MaxOpen * LargestBurden
<1>1. x \in Nat /\ y \in Nat /\ HighWater \in Nat
  <2>1. HighWater \in Nat /\ MaxOpen \in Nat
    BY ReceiverAssumption
  <2>2. \A c, n \in Nat : c * n \in Nat
    OBVIOUS
  <2> QED BY <2>1, <2>2, LargestIsLargest
<1> HIDE DEF x, y
<1> QED BY <1>1 DEF RoomIn, x, y

LEMMA RoomTaken ==
  ASSUME NEW d \in Nat, NEW o \in Nat, NEW w \in Nat, RoomIn(d, 0, o + 1, w),
         NEW b \in Nat, b <= LargestBurden
  PROVE  RoomIn(d, b, o, w)
<1> DEFINE x == o * LargestBurden
           y == MaxOpen * LargestBurden
<1>1. x \in Nat /\ y \in Nat /\ HighWater \in Nat /\ LargestBurden \in Nat
  BY LargestIsLargest, ReceiverAssumption, SMTT(30)
<1>2. (o + 1) * LargestBurden = x + LargestBurden
  BY <1>1
<1> HIDE DEF x, y
<1> QED BY <1>1, <1>2 DEF RoomIn, x, y

LEMMA RoomBelowMark ==
  ASSUME NEW d \in Nat, d < HighWater, NEW o \in Nat, o <= MaxOpen, NEW w \in Nat
  PROVE  RoomIn(d, 0, o, w)
<1>1. HighWater \in Nat /\ MaxOpen \in Nat /\ LargestBurden \in Nat
  <2>1. HighWater \in Nat /\ MaxOpen \in Nat
    BY ReceiverAssumption
  <2> QED BY <2>1, LargestIsLargest
<1>2. o * LargestBurden <= MaxOpen * LargestBurden
  <2>1. \A c, n \in Nat : c * n \in Nat
    OBVIOUS
  <2>2. PICK k \in Nat : MaxOpen = o + k
    <3>1. MaxOpen - o \in Nat /\ MaxOpen = o + (MaxOpen - o)
      BY <1>1
    <3> QED BY <3>1
  <2>3. \A a, c, n \in Nat : (a + c) * n = a * n + c * n
    OBVIOUS
  <2>4. MaxOpen * LargestBurden = o * LargestBurden + k * LargestBurden
    BY <1>1, <2>2, <2>3
  <2>5. o * LargestBurden \in Nat /\ k * LargestBurden \in Nat
    BY <1>1, <2>1
  <2> QED BY <2>4, <2>5
<1> DEFINE x == o * LargestBurden
           y == MaxOpen * LargestBurden
<1>3. x \in Nat /\ y \in Nat /\ x <= y
  BY <1>1, <1>2
<1> HIDE DEF x, y
<1> QED BY <1>1, <1>3 DEF RoomIn, x, y

\* Room, by its parts.
LEMMA RoomParts ==
  /\ Room <=> /\ OneLaneEach /\ SumFunction(open) <= MaxOpen
              /\ RoomIn(Depth, Burden(current), SumFunction(open), StreamedWork)
  /\ Room' <=> /\ OneLaneEach' /\ SumFunction(open') <= MaxOpen
               /\ RoomIn(Depth', Burden(current'), SumFunction(open'), StreamedWork')
<1>1. Burden(current)' = Burden(current')
  BY DEF Burden, Work, Route
<1>2. LargestBurden' = LargestBurden
  BY DEF LargestBurden, Burden, Work, Route
<1>3. Room <=> /\ OneLaneEach /\ SumFunction(open) <= MaxOpen
               /\ RoomIn(Depth, Burden(current), SumFunction(open), StreamedWork)
  BY DEF Room, RoomIn
<1>4. Room' <=> /\ OneLaneEach' /\ SumFunction(open') <= MaxOpen
                /\ RoomIn(Depth', Burden(current'), SumFunction(open'), StreamedWork')
  BY DEF Room, RoomIn
<1> QED BY <1>3, <1>4

LEMMA NoBurden == Burden(<<>>) = 0
<1> DEFINE s == <<>>
<1>1. [i \in DOMAIN s |-> Work(s[i])] = [i \in {} |-> 0]
  OBVIOUS
<1>2. SumFunction([i \in {} |-> 0]) = 0
  BY SumZero, FS_EmptySet
<1> QED BY <1>1, <1>2 DEF Burden

LEMMA StepRoom ==
  ASSUME IInv, IInv', Gate, Room, [Next]_vars
  PROVE  Room'
<1> DEFINE d == Depth
           b == Burden(current)
           o == SumFunction(open)
           w == StreamedWork
           d1 == Depth'
           b1 == Burden(current')
           o1 == SumFunction(open')
           w1 == StreamedWork'
<1>0. TypeOK /\ TypeOK'
  BY DEF IInv
<1>1. /\ d \in Nat /\ b \in Nat /\ o \in Nat /\ w \in Nat
      /\ d1 \in Nat /\ b1 \in Nat /\ o1 \in Nat /\ w1 \in Nat
      /\ MaxOpen \in Nat /\ HighWater \in Nat \ {0}
  <2>1. b1 \in Nat
    BY <1>0, BurdenSteps DEF TypeOK
  <2> QED BY <1>0, <2>1, RoomTypes, RoomTypesNext
<1>2. OneLaneEach /\ o <= MaxOpen /\ RoomIn(d, b, o, w)
  BY RoomParts
<1>3. SUFFICES OneLaneEach' /\ o1 <= MaxOpen /\ RoomIn(d1, b1, o1, w1)
  BY RoomParts
<1>4. UNCHANGED approvals => OneLaneEach'
  BY <1>2 DEF OneLaneEach
<1>5. UNCHANGED copies => w1 = w
  BY DEF StreamedWork
<1>6. UNCHANGED <<queue, inflight, approvals>> => d1 = d
  BY DEF Depth
<1>7. Idle => b = 0
  BY NoBurden DEF Idle
<1>8. UNCHANGED open => o1 = o
  OBVIOUS
<1>9. UNCHANGED current => b1 = b
  OBVIOUS
<1> DEFINE Kept == UNCHANGED <<queue, inflight, approvals>>
<1>10. EngineUnchanged => Kept
  BY DEF EngineUnchanged, poolVars, approvalVars
<1>20. CASE UNCHANGED vars
  <2>1. Kept /\ UNCHANGED <<copies, open, current>>
    BY <1>20 DEF vars, poolVars, approvalVars, clientVars, loopVars
  <2>2. d1 = d /\ b1 = b /\ o1 = o /\ w1 = w /\ OneLaneEach'
    BY <2>1, <1>4, <1>5, <1>6, <1>8, <1>9
  <2> HIDE DEF d, b, o, w, d1, b1, o1, w1
  <2> QED BY <1>2, <2>2
<1>21. ASSUME NEW q \in Requests, Admit(q)
       PROVE  OneLaneEach' /\ o1 <= MaxOpen /\ RoomIn(d1, b1, o1, w1)
  <2>1. /\ Kept /\ Idle /\ current' = current /\ o < MaxOpen /\ d < HighWater
        /\ open' = [open EXCEPT ![q] = @ + 1]
    BY <1>10, <1>21 DEF Admit, loopVars
  <2>2. o1 = o + 1 /\ d1 = d /\ b1 = 0 /\ OneLaneEach'
    BY <2>1, <1>0, <1>4, <1>6, <1>7, <1>9, OpenChanges
  <2> HIDE DEF d, b, o, w, d1, b1, o1, w1
  <2>3. o1 <= MaxOpen
    BY <1>1, <2>1, <2>2
  <2> QED BY <1>1, <2>1, <2>2, <2>3, RoomBelowMark
<1>22. ASSUME NEW q \in Requests, Begin(q)
       PROVE  OneLaneEach' /\ o1 <= MaxOpen /\ RoomIn(d1, b1, o1, w1)
  <2>1. /\ Kept /\ Idle /\ current' = q /\ copies' = copies /\ open[q] > 0
        /\ open' = [open EXCEPT ![q] = @ - 1]
    BY <1>10, <1>22 DEF Begin
  <2>2. o1 + 1 = o /\ d1 = d /\ b = 0 /\ w1 = w /\ OneLaneEach'
    BY <2>1, <1>0, <1>4, <1>5, <1>6, <1>7, OpenChanges
  <2>3. b1 <= LargestBurden
    BY <2>1, LargestIsLargest
  <2> HIDE DEF d, b, o, w, d1, b1, o1, w1
  <2>4. RoomIn(d1, 0, o1 + 1, w1)
    BY <1>2, <2>2
  <2>5. o1 <= MaxOpen
    BY <1>1, <1>2, <2>2
  <2> QED BY <1>1, <2>2, <2>3, <2>4, <2>5, RoomTaken
<1>23. ASSUME NEW q \in Requests, Abandon(q)
       PROVE  OneLaneEach' /\ o1 <= MaxOpen /\ RoomIn(d1, b1, o1, w1)
  <2>1. /\ Kept /\ Idle /\ current' = current /\ copies' = copies /\ open[q] > 0
        /\ open' = [open EXCEPT ![q] = @ - 1]
    BY <1>10, <1>23 DEF Abandon, loopVars
  <2>2. o1 + 1 = o /\ d1 = d /\ b = 0 /\ b1 = 0 /\ w1 = w /\ OneLaneEach'
    BY <2>1, <1>0, <1>4, <1>5, <1>6, <1>7, <1>9, OpenChanges
  <2> HIDE DEF d, b, o, w, d1, b1, o1, w1
  <2>3. RoomIn(d1, 0, o1 + 1, w1) /\ 0 <= LargestBurden
    BY <1>2, <2>2, LargestIsLargest
  <2>4. o1 <= MaxOpen
    BY <1>1, <1>2, <2>2
  <2> QED BY <1>1, <2>2, <2>3, <2>4, RoomTaken
<1>24. ASSUME NEW q \in Requests, Consume(q)
       PROVE  OneLaneEach' /\ o1 <= MaxOpen /\ RoomIn(d1, b1, o1, w1)
  <2>1. Kept /\ Idle /\ current' = q /\ open' = open /\ q \in Streamed /\ Delivered(q)
    BY <1>10, <1>24 DEF Consume
  <2>2. w1 = w + b1
    BY <1>0, <2>1, DeliveryMakesRoom
  <2>3. o1 = o /\ d1 = d /\ b = 0 /\ OneLaneEach'
    BY <2>1, <1>4, <1>6, <1>7, <1>8
  <2> HIDE DEF d, b, o, w, d1, b1, o1, w1
  <2>4. d1 + b1 + w <= d + b + w1
    BY <1>1, <2>2, <2>3
  <2>5. RoomIn(d1, b1, o, w1)
    BY <1>1, <1>2, <2>4, RoomStays
  <2> QED BY <1>2, <2>3, <2>5
<1>25. CASE Handle
  <2> DEFINE m == Head(current)
  <2>1. /\ current # <<>> /\ current \in Seq(Message) /\ current' = Tail(current)
        /\ UNCHANGED <<copies, open>>
    BY <1>0, <1>25 DEF Handle, TypeOK, clientVars
  <2>2. m \in Message /\ m = current[1] /\ 1 \in DOMAIN current
    BY <2>1
  <2>3. Lawful(m)
    BY <2>2 DEF Gate, FromRequest
  <2>4. ScimCall(m) \/ Ingest(m)
    BY <1>25 DEF Handle
  <2>5. b = Work(m) + b1 /\ Work(m) \in Nat
    BY <2>1, <2>2, BurdenSteps, WorkNat
  <2> HIDE DEF m
  <2>6. Said(m)
    BY <1>0, <2>2, <2>3, <2>4, ScimSaid, IngestSaid
  <2>7. d1 <= d + Work(m) /\ OneLaneEach'
    BY <1>0, <1>2, <2>2, <2>6, MessageDepth
  <2>8. o1 = o /\ w1 = w
    BY <2>1, <1>5, <1>8
  <2> HIDE DEF d, b, o, w, d1, b1, o1, w1
  <2>9. d1 + b1 + w <= d + b + w1
    BY <1>1, <2>5, <2>7, <2>8
  <2>10. RoomIn(d1, b1, o, w1)
    BY <1>1, <1>2, <2>9, RoomStays
  <2> QED BY <1>2, <2>7, <2>8, <2>10
<1>26. ASSUME d1 <= d, b1 = b, UNCHANGED <<copies, open>>, OneLaneEach'
       PROVE  OneLaneEach' /\ o1 <= MaxOpen /\ RoomIn(d1, b1, o1, w1)
  <2>1. o1 = o /\ w1 = w
    BY <1>26, <1>5, <1>8
  <2> HIDE DEF d, b, o, w, d1, b1, o1, w1
  <2>2. d1 + b1 + w <= d + b + w1
    BY <1>1, <1>26, <2>1
  <2>3. RoomIn(d1, b1, o, w1)
    BY <1>1, <1>2, <2>2, RoomStays
  <2> QED BY <1>2, <1>26, <2>1, <2>3
<1>27. CASE \E n \in 1..Len(approvals) : PumpDue(n)
  <2>1. Kept /\ UNCHANGED <<copies, open, current>>
    BY <1>10, <1>27 DEF PumpDue, clientVars
  <2>2. d1 = d /\ b1 = b /\ OneLaneEach'
    BY <2>1, <1>4, <1>6, <1>9
  <2>3. d1 <= d
    <3> HIDE DEF d, d1
    <3> QED BY <1>1, <2>2
  <2> QED BY <1>26, <2>1, <2>2, <2>3
<1>28. CASE \E yes \in BOOLEAN : Decide(yes)
  <2>1. d1 <= d /\ OneLaneEach'
    BY <1>0, <1>2, <1>28, DecideDepth
  <2>2. UNCHANGED <<copies, open, current>>
    BY <1>28 DEF Decide, clientVars
  <2> QED BY <1>9, <1>26, <2>1, <2>2
<1>29. CASE \E kept \in Remainders : Drain(kept)
  <2>1. d1 <= d
    BY <1>29, DrainDepth
  <2>2. UNCHANGED <<copies, open, current, approvals>>
    BY <1>29 DEF Drain, clientVars, approvalVars
  <2> QED BY <1>4, <1>9, <1>26, <2>1, <2>2
<1>30. CASE Reset
  <2>1. /\ UNCHANGED <<copies, open, current>> /\ approvals' = <<>>
        /\ queue' = NoTasks /\ inflight' = NoCount
    BY <1>30 DEF Reset, PoolReset, loopVars
  <2>2. OneLaneEach'
    BY <2>1 DEF OneLaneEach
  <2>3. d1 = 0
    <3>1. [l \in Lanes |-> Len(queue'[l]) + inflight'[l]] = [l \in Lanes |-> 0]
      BY <2>1 DEF NoTasks, NoCount
    <3>2. SumFunction([l \in Lanes |-> Len(queue'[l]) + inflight'[l]]) = 0
      BY <3>1, SumZero, ReceiverAssumption
    <3>3. Len(approvals') = 0
      BY <2>1
    <3> QED BY <3>2, <3>3 DEF Depth
  <2>4. d1 <= d
    <3> HIDE DEF d, d1
    <3> QED BY <1>1, <2>3
  <2> QED BY <1>9, <1>26, <2>1, <2>2, <2>4
<1>31. CASE Client
  BY <1>21, <1>22, <1>23, <1>24, <1>31 DEF Client
<1> HIDE DEF d, b, o, w, d1, b1, o1, w1
<1> QED BY <1>20, <1>25, <1>27, <1>28, <1>29, <1>30, <1>31 DEF Next, Pump

LEMMA InitRoom ==
  ASSUME Init
  PROVE  Room
<1>1. /\ copies = [q \in Requests |-> 0] /\ open = [q \in Requests |-> 0]
      /\ current = <<>> /\ approvals = <<>> /\ queue = NoTasks /\ inflight = NoCount
  BY DEF Init, PoolEmpty
<1>2. OneLaneEach
  BY <1>1 DEF OneLaneEach
<1>3. SumFunction(open) = 0
  BY <1>1, SumZero, ReceiverAssumption
<1>4. Depth = 0
  <2>1. [l \in Lanes |-> Len(queue[l]) + inflight[l]] = [l \in Lanes |-> 0]
    BY <1>1 DEF NoTasks, NoCount
  <2>2. SumFunction([l \in Lanes |-> Len(queue[l]) + inflight[l]]) = 0
    BY <2>1, SumZero, ReceiverAssumption
  <2>3. Len(approvals) = 0
    BY <1>1
  <2> QED BY <2>2, <2>3 DEF Depth
<1>5. Burden(current) = 0
  BY <1>1, NoBurden
<1>6. TypeOK
  BY InitIInv DEF IInv
<1>7. StreamedWork \in Nat /\ MaxOpen \in Nat /\ HighWater \in Nat \ {0}
  BY <1>6, RoomTypes
<1>8. RoomIn(0, 0, 0, StreamedWork)
  BY <1>7, RoomBelowMark
<1> QED BY <1>2, <1>3, <1>4, <1>5, <1>7, <1>8, RoomParts

\* Room is an invariant of the receiver.
THEOREM RoomInvariant == Spec => []Room
<1>1. IInv /\ IInv' /\ Gate /\ Room /\ [Next]_vars => Room'
  BY StepRoom
<1>2. Init => Room
  BY InitRoom
<1> QED BY <1>1, <1>2, ReceiverInvariant, GateInvariant, PTL DEF Spec

\* However requests, NATS messages, approvals, pumps and resets are ordered, the
\* depth stays below the mark but for what was let in before it was reached and
\* what NATS brings.
THEOREM DepthSound == Spec => []DepthBounded
<1>1. IInv /\ Room => DepthBounded
  <2> SUFFICES ASSUME TypeOK, Room
               PROVE  DepthBounded
    BY DEF IInv
  <2> DEFINE x == SumFunction(open) * LargestBurden
             y == Depth + Burden(current)
             z == HighWater - 1 + MaxOpen * LargestBurden + StreamedWork
  <2>1. x \in Nat /\ y \in Nat /\ z \in Int
    BY RoomTypes, LargestIsLargest
  <2>2. y + x <= z
    BY DEF Room
  <2>3. y <= z
    <3> HIDE DEF x, y, z
    <3> QED BY <2>1, <2>2
  <2> QED BY <2>3 DEF DepthBounded, LargestBurden, StreamedWork
<1> QED BY <1>1, ReceiverInvariant, RoomInvariant, PTL

=============================================================================
