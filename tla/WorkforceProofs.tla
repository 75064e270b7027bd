---------------------------- MODULE WorkforceProofs ----------------------------
(***************************************************************************)
(* The workforce's safety for any seeding, profiles, bounds and cap on the *)
(* follow-ons.  The inductive invariant says of each identity that its     *)
(* managed grants are the baseline of its profile (Equipped), of the book  *)
(* that it lists exactly what is held, of the bags that they sample who is *)
(* present, of the target that it knows what the untroubled identities     *)
(* hold, and of the managers that they close no chain.  The parts lean on  *)
(* each other: a recomputation restores the baseline only under a true     *)
(* book, and a rehire is told in full only of who left with nothing.       *)
(*                                                                         *)
(* The filters of the pool are recursive functions; what they keep is      *)
(* proved in SeqLemmas, by induction on the length of the list.            *)
(***************************************************************************)
EXTENDS Workforce, SeqLemmas

-----------------------------------------------------------------------------
(* The sampling bag.                                                       *)

IsBag(b) == b.items \in Seq(Nat) /\ Consistent(b)

\* In a consistent bag, what can be sampled is what the map knows.
LEMMA SamplesAreHeld ==
  ASSUME NEW b, IsBag(b)
  PROVE  \A id \in Nat : Holds(b, id) <=> id \in Samples(b)
<1>1. Len(b.items) \in Nat
  BY DEF IsBag
<1>. QED BY <1>1 DEF IsBag, Consistent, Samples, Places, Holds

\* add puts one more identity in a bag, or leaves one that is there.
LEMMA BagAddAdds ==
  ASSUME NEW b, IsBag(b), NEW id \in Nat
  PROVE  /\ IsBag(BagAdd(b, id))
         /\ Samples(BagAdd(b, id)) = Samples(b) \cup {id}
<1>1. CASE Holds(b, id)
  BY <1>1, SamplesAreHeld DEF BagAdd
<1>2. CASE ~Holds(b, id)
  <2> DEFINE n == Len(b.items)
             a == BagAdd(b, id)
  <2>1. /\ b.items \in Seq(Nat) /\ n \in Nat
        /\ id \notin DOMAIN b.at
        /\ \A i \in 1..n : b.items[i] \in DOMAIN b.at /\ b.at[b.items[i]] = i
        /\ \A x \in DOMAIN b.at : b.at[x] \in 1..n /\ b.items[b.at[x]] = x
    BY <1>2 DEF IsBag, Consistent, Places, Holds
  <2>2. /\ a.items = Append(b.items, id)
        /\ a.at = [x \in DOMAIN b.at \cup {id} |-> IF x = id THEN n + 1 ELSE b.at[x]]
    BY <1>2 DEF BagAdd
  <2> HIDE DEF a
  <2>3. /\ a.items \in Seq(Nat) /\ Len(a.items) = n + 1
        /\ \A i \in 1..n : a.items[i] = b.items[i]
        /\ a.items[n + 1] = id
    BY <2>1, <2>2
  <2>4. /\ DOMAIN a.at = DOMAIN b.at \cup {id}
        /\ a.at[id] = n + 1
        /\ \A x \in DOMAIN b.at : a.at[x] = b.at[x]
    BY <2>1, <2>2
  <2> HIDE DEF n
  <2>5. ASSUME NEW i \in 1..(n + 1)
        PROVE  a.items[i] \in DOMAIN a.at /\ a.at[a.items[i]] = i
    <3>1. i \in 1..n \/ i = n + 1
      BY <2>1
    <3>2. CASE i \in 1..n
      <4>1. a.items[i] = b.items[i] /\ b.items[i] \in DOMAIN b.at /\ b.at[b.items[i]] = i
        BY <3>2, <2>1, <2>3
      <4>. QED BY <4>1, <2>4
    <3>3. CASE i = n + 1
      BY <3>3, <2>3, <2>4
    <3>. QED BY <3>1, <3>2, <3>3
  <2>6. ASSUME NEW x \in DOMAIN a.at
        PROVE  a.at[x] \in 1..(n + 1) /\ a.items[a.at[x]] = x
    <3>1. CASE x = id
      BY <3>1, <2>1, <2>3, <2>4
    <3>2. CASE x \in DOMAIN b.at
      <4>1. a.at[x] \in 1..n /\ b.items[a.at[x]] = x
        BY <3>2, <2>1, <2>4
      <4>. QED BY <4>1, <2>1, <2>3, SMTT(30)
    <3>. QED BY <3>1, <3>2, <2>4
  <2>7. IsBag(a)
    BY <2>3, <2>5, <2>6 DEF IsBag, Consistent, Places
  <2>8. Samples(a) = Samples(b) \cup {id}
    <3>1. 1..(n + 1) = 1..n \cup {n + 1}
      BY <2>1
    <3>. QED BY <3>1, <2>3, SMTT(30) DEF Samples, Places, n
  <2>. QED BY <2>7, <2>8 DEF a
<1>. QED BY <1>1, <1>2

\* remove takes it out: the last of the list moves into its place.
LEMMA BagRemoveRemoves ==
  ASSUME NEW b, IsBag(b), NEW id \in Nat
  PROVE  /\ IsBag(BagRemove(b, id))
         /\ Samples(BagRemove(b, id)) = Samples(b) \ {id}
<1>1. CASE ~Holds(b, id)
  BY <1>1, SamplesAreHeld DEF BagRemove
<1>2. CASE Holds(b, id)
  <2> DEFINE n == Len(b.items)
             a == BagRemove(b, id)
             hole == b.at[id]
             last == b.items[n]
  <2>1. /\ b.items \in Seq(Nat) /\ n \in Nat
        /\ id \in DOMAIN b.at
        /\ \A i \in 1..n : b.items[i] \in Nat
        /\ \A i \in 1..n : b.items[i] \in DOMAIN b.at /\ b.at[b.items[i]] = i
        /\ \A x \in DOMAIN b.at : b.at[x] \in 1..n /\ b.items[b.at[x]] = x
    BY <1>2, SMTT(30) DEF IsBag, Consistent, Places, Holds
  <2>2. /\ hole \in 1..n /\ b.items[hole] = id /\ n \in 1..n
        /\ last \in DOMAIN b.at /\ b.at[last] = n /\ last \in Nat
    <3>1. hole \in 1..n /\ b.items[hole] = id
      BY <2>1
    <3>2. n \in 1..n
      <4> HIDE DEF n, hole
      <4>. QED BY <3>1, <2>1
    <3>3. last \in DOMAIN b.at /\ b.at[last] = n /\ last \in Nat
      <4> HIDE DEF n
      <4>. QED BY <3>2, <2>1
    <3>. QED BY <3>1, <3>2, <3>3
  <2>3. /\ a.items = [i \in 1..(n - 1) |-> IF i = hole THEN last ELSE b.items[i]]
        /\ a.at = [x \in DOMAIN b.at \ {id} |-> IF x = last THEN hole ELSE b.at[x]]
    BY <1>2 DEF BagRemove
  <2> HIDE DEF a, hole, last, n
  <2>4. /\ a.items \in Seq(Nat) /\ Len(a.items) = n - 1
        /\ \A i \in 1..(n - 1) : a.items[i] = IF i = hole THEN last ELSE b.items[i]
    <3>1. n - 1 \in Nat
      BY <2>1, <2>2
    <3>2. \A i \in 1..(n - 1) : (IF i = hole THEN last ELSE b.items[i]) \in Nat
      BY <2>1, <2>2
    <3>. QED BY <2>3, <3>1, <3>2
  <2>5. /\ DOMAIN a.at = DOMAIN b.at \ {id}
        /\ \A x \in DOMAIN b.at \ {id} : a.at[x] = IF x = last THEN hole ELSE b.at[x]
    BY <2>3
  <2>6. \A i \in 1..n : b.items[i] = id => i = hole
    BY <2>1 DEF hole
  <2>7. \A i \in 1..n : b.items[i] = last => i = n
    BY <2>1, <2>2
  <2>8. ASSUME NEW i \in 1..(n - 1)
        PROVE  a.items[i] \in DOMAIN a.at /\ a.at[a.items[i]] = i
    <3>1. i \in 1..n /\ i # n
      BY <2>1
    <3>2. CASE i = hole
      <4>1. last # id
        BY <3>1, <3>2, <2>6, <2>2 DEF last
      <4>. QED BY <4>1, <3>2, <2>4, <2>5, <2>2
    <3>3. CASE i # hole
      <4>1. b.items[i] # id /\ b.items[i] # last
        BY <3>1, <3>3, <2>6, <2>7
      <4>. QED BY <4>1, <3>1, <3>3, <2>1, <2>4, <2>5
    <3>. QED BY <3>2, <3>3
  <2>9. ASSUME NEW x \in DOMAIN a.at
        PROVE  a.at[x] \in 1..(n - 1) /\ a.items[a.at[x]] = x
    <3>1. x \in DOMAIN b.at /\ x # id
      BY <2>5
    <3>2. CASE x = last
      <4>1. hole # n
        BY <3>1, <3>2, <2>2 DEF last
      <4>2. hole \in 1..(n - 1)
        BY <4>1, <2>1, <2>2
      <4>. QED BY <4>2, <3>1, <3>2, <2>4, <2>5
    <3>3. CASE x # last
      <4>1. b.at[x] \in 1..n /\ b.items[b.at[x]] = x
        BY <3>1, <2>1
      <4>2. b.at[x] # n /\ b.at[x] # hole
        BY <4>1, <3>1, <3>3, <2>2 DEF last
      <4>3. b.at[x] \in 1..(n - 1)
        BY <4>1, <4>2, <2>1, SMTT(30)
      <4>. QED BY <4>1, <4>2, <4>3, <3>1, <3>3, <2>4, <2>5
    <3>. QED BY <3>2, <3>3
  <2>10. IsBag(a)
    BY <2>4, <2>8, <2>9 DEF IsBag, Consistent, Places
  <2>11. \A x \in Nat : x \in Samples(a) <=> x \in Samples(b) /\ x # id
    <3>1. \A x \in Nat : x \in Samples(a) <=> x \in DOMAIN a.at
      BY <2>10, SamplesAreHeld DEF Holds
    <3>2. \A x \in Nat : x \in Samples(b) <=> x \in DOMAIN b.at
      BY SamplesAreHeld DEF Holds
    <3>. QED BY <3>1, <3>2, <2>5
  <2>12. Samples(a) \subseteq Nat /\ Samples(b) \subseteq Nat
    <3>1. \A i \in 1..(n - 1) : a.items[i] \in Nat
      BY <2>4
    <3>2. Samples(a) \subseteq Nat
      BY <3>1, <2>4 DEF Samples, Places
    <3>3. Samples(b) \subseteq Nat
      BY <2>1 DEF Samples, Places, n
    <3>. QED BY <3>2, <3>3
  <2>. QED BY <2>10, <2>11, <2>12 DEF a
<1>. QED BY <1>1, <1>2

-----------------------------------------------------------------------------
(* The baseline of a profile.                                              *)

Templates ==
  {"AD-ALL-STAFF", "MAILBOX", "SSO", "VPN", "BLOOMBERG", "MUREX-VIEW", "MUREX-TRADER",
   "MUREX-APPROVER", "ALADDIN", "SAP-PAY-POST", "SAP-PAY-RELEASE", "SWIFT-OPERATOR",
   "SETTLEMENTS", "WIRE-APPROVER", "AVALOQ", "SAP-GL-RECON", "SAP-GL-POST", "GITHUB", "CICD",
   "AWS-DEV", "SIEM", "CYBERARK-UNIX", "CYBERARK-WIN", "RISK-ENGINE", "ACTIMIZE",
   "AUDIT-REVIEW", "SAP-HCM", "IGA-APPROVER", "SAP-VENDOR", "SVC-API-KEY", "SVC-ROLE",
   "SVC-CERT", "AD-PRIV-ADMIN"}
Key == Templates \cup {LocationGroup(l) : l \in Locations}
                 \cup {DivisionGroup(d) : d \in Divisions}

\* Short lists of elements of a set.
LEMMA ShortLists ==
  ASSUME NEW S
  PROVE  /\ <<>> \in Seq(S)
         /\ \A a \in S : <<a>> \in Seq(S)
         /\ \A a, b \in S : <<a, b>> \in Seq(S)
         /\ \A a, b, c \in S : <<a, b, c>> \in Seq(S)
         /\ \A a, b, c, d, e \in S : <<a, b, c, d, e>> \in Seq(S)
         /\ \A s, t \in Seq(S) : s \o t \in Seq(S)
OBVIOUS

\* The baseline of a profile is a list of templates.
LEMMA BaselineTyped ==
  ASSUME NEW p \in Reachable
  PROVE  BaselineTemplatesFor(p) \in Seq(Key)
<1>0. /\ p.type \in Types /\ p.division \in Divisions /\ p.location \in Locations
  BY DEF Reachable
<1> DEFINE K == Seq(Key)
<1>1. DivisionGroup(p.division) \in Key /\ LocationGroup(p.location) \in Key
  BY <1>0 DEF Key
<1>6. /\ <<>> \in K
      /\ \A a \in Key : <<a>> \in K
      /\ \A a, b \in Key : <<a, b>> \in K
      /\ \A a, b, c \in Key : <<a, b, c>> \in K
      /\ \A a, b, c, d, e \in Key : <<a, b, c, d, e>> \in K
      /\ \A s, t \in K : s \o t \in K
      /\ \A c : \A list \in K : When(c, list) \in K
  BY ShortLists DEF When
<1>7. Templates \subseteq Key
  BY DEF Key
<1> HIDE DEF K
<1>2. ServiceTemplates(p) \in K
  <2>1. {"SSO", "SVC-API-KEY", "SVC-ROLE", "SVC-CERT", "SWIFT-OPERATOR"} \subseteq Key
    BY <1>7 DEF Templates
  <2>. QED BY <1>1, <1>6, <2>1 DEF ServiceTemplates
<1>3. BirthrightTemplates(p) \in K
  <2>1. {"AD-ALL-STAFF", "MAILBOX", "SSO", "VPN"} \subseteq Key
    BY <1>7 DEF Templates
  <2>. QED BY <1>1, <1>6, <2>1 DEF BirthrightTemplates
<1>4. GradePrivilegeTemplates(p) \in K
  <2>1. {"IGA-APPROVER", "SAP-VENDOR", "MUREX-APPROVER", "WIRE-APPROVER",
         "SAP-PAY-RELEASE"} \subseteq Key
    BY <1>7 DEF Templates
  <2>2. ApprovalOf(p) \in K
    BY <1>6, <2>1 DEF ApprovalOf
  <2>. QED BY <1>6, <2>1, <2>2 DEF GradePrivilegeTemplates
<1>5. DivisionBaselineTemplates(p) \in K
  <2>1. CASE p.division = "IB"
    <3>1. {"BLOOMBERG", "MUREX-VIEW", "MUREX-TRADER"} \subseteq Key
      BY <1>7 DEF Templates
    <3>. QED BY <2>1, <1>6, <3>1 DEF DivisionBaselineTemplates
  <2>2. CASE p.division = "AM"
    <3>1. {"ALADDIN", "BLOOMBERG"} \subseteq Key
      BY <1>7 DEF Templates
    <3>. QED BY <2>2, <1>6, <3>1 DEF DivisionBaselineTemplates
  <2>3. CASE p.division = "CB"
    <3>1. {"BLOOMBERG", "SAP-PAY-POST", "SWIFT-OPERATOR", "SETTLEMENTS"} \subseteq Key
      BY <1>7 DEF Templates
    <3>. QED BY <2>3, <1>6, <3>1 DEF DivisionBaselineTemplates
  <2>4. CASE p.division = "PB"
    <3>1. {"AVALOQ"} \subseteq Key
      BY <1>7 DEF Templates
    <3>. QED BY <2>4, <1>6, <3>1 DEF DivisionBaselineTemplates
  <2>5. CASE p.division = "OPS"
    <3>1. {"SAP-PAY-POST", "SWIFT-OPERATOR", "SETTLEMENTS", "SAP-GL-RECON"} \subseteq Key
      BY <1>7 DEF Templates
    <3>. QED BY <2>5, <1>6, <3>1 DEF DivisionBaselineTemplates
  <2>6. CASE p.division = "TDI"
    <3>1. {"GITHUB", "CICD", "AWS-DEV", "SIEM", "CYBERARK-UNIX", "CYBERARK-WIN"} \subseteq Key
      BY <1>7 DEF Templates
    <3>. QED BY <2>6, <1>6, <3>1 DEF DivisionBaselineTemplates
  <2>7. CASE p.division = "RSK"
    <3>1. {"RISK-ENGINE", "MUREX-VIEW"} \subseteq Key
      BY <1>7 DEF Templates
    <3>. QED BY <2>7, <1>6, <3>1 DEF DivisionBaselineTemplates
  <2>8. CASE p.division = "CMP"
    <3>1. {"ACTIMIZE", "AUDIT-REVIEW"} \subseteq Key
      BY <1>7 DEF Templates
    <3>. QED BY <2>8, <1>6, <3>1 DEF DivisionBaselineTemplates
  <2>9. CASE p.division = "FIN"
    <3>1. {"SAP-GL-POST", "AUDIT-REVIEW"} \subseteq Key
      BY <1>7 DEF Templates
    <3>. QED BY <2>9, <1>6, <3>1 DEF DivisionBaselineTemplates
  <2>10. CASE p.division = "HR"
    <3>1. {"SAP-HCM"} \subseteq Key
      BY <1>7 DEF Templates
    <3>. QED BY <2>10, <1>6, <3>1 DEF DivisionBaselineTemplates
  <2>. QED BY <1>0, <2>1, <2>2, <2>3, <2>4, <2>5, <2>6, <2>7, <2>8, <2>9, <2>10 DEF Divisions
<1>. QED BY <1>2, <1>3, <1>4, <1>5, <1>6 DEF BaselineTemplatesFor, K

-----------------------------------------------------------------------------
(* The grants of an identity.                                              *)

Grant    == [key : Key, base : BOOLEAN]
Mint(k)  == [key |-> k, base |-> TRUE]
Employee == [type : Types, division : Divisions, location : Sites, family : AllFamilies,
             grade : Grades, status : Statuses, manager : Nat \cup {None}, held : Seq(Grant)]

\* The templates the planner's grants among the held ones are for.
ManagedKeys(held) == {g.key : g \in {h \in ToSet(held) : h.base}}

\* What an identity holds, on its own: no grant twice, and unless it left with
\* nothing its managed grants are for the templates of its profile.
Equipped(e) ==
  /\ e \in Employee
  /\ IsInjective(e.held)
  /\ ~(Leaver(e.status) /\ e.held = <<>>) =>
       ManagedKeys(e.held) = ToSet(BaselineTemplatesFor(ProfileOf(e)))

\* Minting a list of templates gives a grant for each of them, in order.
LEMMA MintedGrants ==
  ASSUME NEW keys \in Seq(Key)
  PROVE  /\ Minted(keys) \in Seq(Grant)
         /\ ToSet(Minted(keys)) = {Mint(k) : k \in ToSet(keys)}
         /\ IsInjective(keys) => IsInjective(Minted(keys))
<1>1. /\ Len(keys) \in Nat /\ DOMAIN keys = 1..Len(keys)
      /\ \A i \in DOMAIN keys : keys[i] \in Key
  OBVIOUS
<1>2. /\ DOMAIN Minted(keys) = DOMAIN keys
      /\ \A i \in DOMAIN keys : Minted(keys)[i] = Mint(keys[i])
  BY DEF Minted, Mint
<1>3. \A k \in Key : Mint(k) \in Grant /\ Mint(k).key = k /\ Mint(k).base = TRUE
  BY DEF Mint, Grant
<1>4. Minted(keys) \in Seq(Grant)
  <2>1. Minted(keys) = [i \in 1..Len(keys) |-> Mint(keys[i])]
    BY <1>1 DEF Minted, Mint
  <2>2. \A i \in 1..Len(keys) : Mint(keys[i]) \in Grant
    BY <1>1, <1>3
  <2>. QED BY <1>1, <2>1, <2>2
<1>5. ToSet(Minted(keys)) = {Mint(k) : k \in ToSet(keys)}
  BY <1>2 DEF ToSet
<1>6. IsInjective(keys) => IsInjective(Minted(keys))
  <2>1. \A i, j \in DOMAIN keys : Minted(keys)[i] = Minted(keys)[j] => keys[i] = keys[j]
    BY <1>1, <1>2, <1>3
  <2>. QED BY <1>2, <2>1 DEF IsInjective
<1>. QED BY <1>4, <1>5, <1>6

\* The baseline of a profile, as grants.
LEMMA BaselineGrants ==
  ASSUME NEW p \in Reachable
  PROVE  /\ Baseline(p) \in Seq(Grant)
         /\ IsInjective(Baseline(p))
         /\ ToSet(Baseline(p)) = {Mint(k) : k \in ToSet(BaselineTemplatesFor(p))}
         /\ ManagedKeys(Baseline(p)) = ToSet(BaselineTemplatesFor(p))
         /\ \A g \in ToSet(Baseline(p)) : g.base
<1> DEFINE keys == BaselineTemplatesFor(p)
<1>1. keys \in Seq(Key) /\ IsInjective(keys)
  BY BaselineTyped, CatalogueAssumption
<1> HIDE DEF keys
<1>2. /\ Minted(keys) \in Seq(Grant) /\ IsInjective(Minted(keys))
      /\ ToSet(Minted(keys)) = {Mint(k) : k \in ToSet(keys)}
  BY <1>1, MintedGrants
<1>3. \A k : Mint(k).key = k /\ Mint(k).base = TRUE
  BY DEF Mint
<1> DEFINE m == Minted(keys)
           K == ToSet(keys)
<1> HIDE DEF m, K
<1>4. ManagedKeys(m) = K
  <2>1. ToSet(m) = {Mint(k) : k \in K}
    BY <1>2 DEF m, K
  <2>2. ManagedKeys(m) \subseteq K
    BY <2>1, <1>3 DEF ManagedKeys
  <2>3. \A k \in K : Mint(k) \in ToSet(m) /\ Mint(k).base /\ Mint(k).key = k
    BY <2>1, <1>3
  <2>4. K \subseteq ManagedKeys(m)
    BY <2>3 DEF ManagedKeys
  <2>. QED BY <2>2, <2>4
<1>. QED BY <1>2, <1>3, <1>4 DEF Baseline, keys, m, K

\* Putting grants that are not there at the end of what is held.
LEMMA ConcatGrants ==
  ASSUME NEW S, NEW s \in Seq(S), NEW t \in Seq(S)
  PROVE  /\ s \o t \in Seq(S)
         /\ ToSet(s \o t) = ToSet(s) \cup ToSet(t)
         /\ IsInjective(s) /\ IsInjective(t) /\ ToSet(s) \cap ToSet(t) = {} => IsInjective(s \o t)
<1>1. \A q : ToSet(q) = Range(q)
  BY DEF ToSet, Range
<1>. QED BY <1>1, ConcatDistinct

\* recomputeBaseline: what the profile still implies stays, what it newly
\* implies is minted, and what is not in the book as managed is left alone.
LEMMA RecomputedGrants ==
  ASSUME NEW id, NEW p \in Reachable,
         emp[id].held \in Seq(Grant), IsInjective(emp[id].held),
         \A g \in ToSet(emp[id].held) : <<id, g>> \in meta
  PROVE  LET held == emp[id].held
             keys == ToSet(BaselineTemplatesFor(p))
             r    == Recomputed(id, p)
         IN  /\ r \in Seq(Grant) /\ IsInjective(r)
             /\ ToSet(r) = {g \in ToSet(held) : ~g.base} \cup {Mint(k) : k \in keys}
             /\ ManagedKeys(r) = keys
<1> DEFINE held == emp[id].held
           keys == BaselineTemplatesFor(p)
           stay == {g \in ToSet(held) : Managed(id, g) => g.key \in ToSet(keys)}
           kept == Selected(held, stay)
           covered == {g.key : g \in {g \in ToSet(kept) : Managed(id, g)}}
           new == Selected(keys, ToSet(keys) \ covered)
<1>0. keys \in Seq(Key) /\ IsInjective(keys)
  BY BaselineTyped, CatalogueAssumption
<1>1. Recomputed(id, p) = kept \o Minted(new)
  BY DEF Recomputed
<1>2. held \in Seq(Grant) /\ IsInjective(held) /\ ToSet(held) \subseteq Grant
  BY DEF ToSet
<1>3. \A g \in ToSet(held) : Managed(id, g) <=> g.base
  BY <1>2 DEF Managed, Grant
<1> HIDE DEF held, keys
<1>4. stay = {g \in ToSet(held) : g.base => g.key \in ToSet(keys)}
  BY <1>3
<1> HIDE DEF stay
<1>5. kept \in Seq(Grant) /\ IsInjective(kept) /\ ToSet(kept) = ToSet(held) \cap stay
  BY <1>2, SelectedElements
<1> HIDE DEF kept
<1>6. covered = {g.key : g \in {g \in ToSet(held) : g.base /\ g.key \in ToSet(keys)}}
  BY <1>3, <1>4, <1>5
<1> HIDE DEF covered
<1>7. new \in Seq(Key) /\ IsInjective(new) /\ ToSet(new) = ToSet(keys) \ covered
  BY <1>0, SelectedElements
<1> HIDE DEF new
<1>8. /\ Minted(new) \in Seq(Grant) /\ IsInjective(Minted(new))
      /\ ToSet(Minted(new)) = {Mint(k) : k \in ToSet(keys) \ covered}
  BY <1>7, MintedGrants
<1>9. \A k : Mint(k).key = k /\ Mint(k).base = TRUE
  BY DEF Mint
<1>10. \A g \in Grant : g.base => g = Mint(g.key)
  BY DEF Grant, Mint
<1>11. ToSet(kept) \cap ToSet(Minted(new)) = {}
  BY <1>4, <1>5, <1>6, <1>8, <1>9
<1>12. /\ kept \o Minted(new) \in Seq(Grant) /\ IsInjective(kept \o Minted(new))
       /\ ToSet(kept \o Minted(new)) = ToSet(kept) \cup ToSet(Minted(new))
  BY <1>5, <1>8, <1>11, ConcatGrants
<1> DEFINE r == kept \o Minted(new)
<1> HIDE DEF r
<1>13. ToSet(r) = {g \in ToSet(held) : ~g.base} \cup {Mint(k) : k \in ToSet(keys)}
  <2>1. ASSUME NEW g \in ToSet(kept)
        PROVE  g \in {h \in ToSet(held) : ~h.base} \cup {Mint(k) : k \in ToSet(keys)}
    <3>1. g \in ToSet(held) /\ g \in Grant /\ (g.base => g.key \in ToSet(keys))
      BY <1>2, <1>4, <1>5
    <3>. QED BY <3>1, <1>10
  <2>2. ASSUME NEW g \in ToSet(held), ~g.base
        PROVE  g \in ToSet(kept)
    BY <2>2, <1>4, <1>5
  <2>3. ASSUME NEW k \in ToSet(keys)
        PROVE  Mint(k) \in ToSet(kept) \cup ToSet(Minted(new))
    <3>1. CASE k \in covered
      <4>1. PICK g \in ToSet(held) : g.base /\ g.key = k
        BY <3>1, <1>6
      <4>2. g = Mint(k) /\ g \in ToSet(kept)
        BY <4>1, <1>2, <1>4, <1>5, <1>10
      <4>. QED BY <4>2
    <3>2. CASE k \notin covered
      BY <3>2, <1>8
    <3>. QED BY <3>1, <3>2
  <2>. QED BY <2>1, <2>2, <2>3, <1>8, <1>12 DEF r
<1>14. ManagedKeys(r) = ToSet(keys)
  BY <1>9, <1>13 DEF ManagedKeys
<1>. QED BY <1>1, <1>12, <1>13, <1>14 DEF r, held, keys

-----------------------------------------------------------------------------
(* The bags of the sites.                                                  *)

Present(e) == Human(e) /\ e.status = "active"

\* The bags b sample exactly the active humans of who, each at its site.
BagsFollow(b, who) ==
  /\ b = [site \in Sites |-> b[site]]
  /\ \A site \in Sites : IsBag(b[site]) /\ Samples(b[site]) = ActiveAt(who, site)

\* The bag of a list without repetitions samples its elements.
LEMMA BagOfList ==
  ASSUME NEW ids \in Seq(Nat), IsInjective(ids)
  PROVE  IsBag(BagOf(ids)) /\ Samples(BagOf(ids)) = ToSet(ids)
<1> DEFINE b == BagOf(ids)
<1>1. /\ b.items = ids
      /\ DOMAIN b.at = ToSet(ids)
      /\ \A x \in ToSet(ids) : b.at[x] = CHOOSE i \in DOMAIN ids : ids[i] = x
  BY DEF BagOf
<1>2. \A x \in ToSet(ids) : b.at[x] \in DOMAIN ids /\ ids[b.at[x]] = x
  BY <1>1 DEF ToSet
<1>3. \A i \in DOMAIN ids : ids[i] \in ToSet(ids) /\ b.at[ids[i]] = i
  BY <1>2 DEF ToSet, IsInjective
<1>4. DOMAIN ids = 1..Len(ids)
  OBVIOUS
<1> HIDE DEF b
<1>. QED BY <1>1, <1>2, <1>3, <1>4 DEF IsBag, Consistent, Samples, Places, ToSet, b

\* setStatus keeps the bags true: of all the identities only id changes, in its
\* status, and whoever joins meanwhile is not active.
LEMMA RestatusFollows ==
  ASSUME BagsFollow(bag, emp), NEW id \in Ids, id \in Nat, emp[id].location \in Sites,
         NEW status, NEW who, Ids \subseteq DOMAIN who,
         \A i \in Ids \ {id} : who[i] = emp[i],
         \A i \in DOMAIN who \ Ids : ~Present(who[i]),
         who[id].type = emp[id].type, who[id].location = emp[id].location,
         who[id].status = status
  PROVE  BagsFollow(Restatused(bag, id, status), who)
<1> DEFINE home == emp[id].location
           was == Human(emp[id]) /\ emp[id].status = "active"
           is  == Human(emp[id]) /\ status = "active"
           new == Restatused(bag, id, status)
<1>1. \A site \in Sites : \A i : i \in ActiveAt(who, site) <=>
         \/ i \in Ids \ {id} /\ i \in ActiveAt(emp, site)
         \/ i = id /\ is /\ site = home
  BY DEF ActiveAt, Present, Human, Ids
<1>2. \A site \in Sites : \A i : i \in ActiveAt(emp, site) =>
         i \in Ids /\ (i = id => was /\ site = home)
  BY DEF ActiveAt, Ids
<1>3. was => id \in ActiveAt(emp, home)
  BY DEF ActiveAt, Ids
<1>4. /\ bag = [site \in Sites |-> bag[site]]
      /\ \A site \in Sites : IsBag(bag[site]) /\ Samples(bag[site]) = ActiveAt(emp, site)
  BY DEF BagsFollow
<1>5. CASE was /\ ~is
  <2>1. new = [bag EXCEPT ![home] = BagRemove(bag[home], id)]
    BY <1>5 DEF Restatused
  <2>2. /\ new = [site \in Sites |-> new[site]]
        /\ new[home] = BagRemove(bag[home], id)
        /\ \A site \in Sites \ {home} : new[site] = bag[site]
    BY <1>4, <2>1
  <2>3. IsBag(new[home]) /\ Samples(new[home]) = ActiveAt(emp, home) \ {id}
    BY <1>4, <2>2, BagRemoveRemoves
  <2> HIDE DEF new, is, was, home
  <2>4. ActiveAt(who, home) = ActiveAt(emp, home) \ {id} /\ home \in Sites
    BY <1>1, <1>2, <1>5 DEF home
  <2>5. \A site \in Sites \ {home} : ActiveAt(who, site) = ActiveAt(emp, site)
    BY <1>1, <1>2
  <2>. QED BY <2>2, <2>3, <2>4, <2>5, <1>4 DEF BagsFollow, new
<1>6. CASE ~was /\ is
  <2>1. new = [bag EXCEPT ![home] = BagAdd(bag[home], id)]
    BY <1>6 DEF Restatused
  <2>2. /\ new = [site \in Sites |-> new[site]]
        /\ new[home] = BagAdd(bag[home], id)
        /\ \A site \in Sites \ {home} : new[site] = bag[site]
    BY <1>4, <2>1
  <2>3. IsBag(new[home]) /\ Samples(new[home]) = ActiveAt(emp, home) \cup {id}
    BY <1>4, <2>2, BagAddAdds
  <2> HIDE DEF new, is, was, home
  <2>4. ActiveAt(who, home) = ActiveAt(emp, home) \cup {id} /\ home \in Sites
    BY <1>1, <1>2, <1>6 DEF home
  <2>5. \A site \in Sites \ {home} : ActiveAt(who, site) = ActiveAt(emp, site)
    BY <1>1, <1>2
  <2>. QED BY <2>2, <2>3, <2>4, <2>5, <1>4 DEF BagsFollow, new
<1>7. CASE was <=> is
  <2>1. new = bag
    BY <1>7 DEF Restatused
  <2> HIDE DEF new, is, was, home
  <2>2. \A site \in Sites : ActiveAt(who, site) = ActiveAt(emp, site)
    BY <1>1, <1>2, <1>3, <1>7
  <2>. QED BY <2>1, <2>2, <1>4 DEF BagsFollow, new
<1>. QED BY <1>5, <1>6, <1>7

\* transfer keeps the bags true: of all the identities only id changes, in its site.
LEMMA MoveFollows ==
  ASSUME BagsFollow(bag, emp), NEW id \in Ids, id \in Nat, emp[id].location \in Sites,
         NEW site \in Sites, NEW who, DOMAIN who = Ids,
         \A i \in Ids \ {id} : who[i] = emp[i],
         who[id].type = emp[id].type, who[id].status = emp[id].status,
         who[id].location = site
  PROVE  BagsFollow(Moved(id, site), who)
<1> DEFINE home == emp[id].location
           moves == site # home /\ Human(emp[id]) /\ emp[id].status = "active"
           is == Human(emp[id]) /\ emp[id].status = "active"
           new == Moved(id, site)
<1>1. \A at \in Sites : \A i : i \in ActiveAt(who, at) <=>
         \/ i \in Ids \ {id} /\ i \in ActiveAt(emp, at)
         \/ i = id /\ is /\ at = site
  BY DEF ActiveAt, Human, Ids
<1>2. \A at \in Sites : \A i : i \in ActiveAt(emp, at) =>
         i \in Ids /\ (i = id => is /\ at = home)
  BY DEF ActiveAt, Ids
<1>3. is => id \in ActiveAt(emp, home)
  BY DEF ActiveAt, Ids
<1>4. /\ bag = [at \in Sites |-> bag[at]]
      /\ \A at \in Sites : IsBag(bag[at]) /\ Samples(bag[at]) = ActiveAt(emp, at)
  BY DEF BagsFollow
<1>5. CASE moves
  <2>1. new = [bag EXCEPT ![home] = BagRemove(bag[home], id), ![site] = BagAdd(bag[site], id)]
    BY <1>5 DEF Moved
  <2>2. /\ new = [at \in Sites |-> new[at]]
        /\ new[home] = BagRemove(bag[home], id)
        /\ new[site] = BagAdd(bag[site], id)
        /\ \A at \in Sites \ {home, site} : new[at] = bag[at]
    BY <1>4, <1>5, <2>1
  <2>3. /\ IsBag(new[home]) /\ Samples(new[home]) = ActiveAt(emp, home) \ {id}
        /\ IsBag(new[site]) /\ Samples(new[site]) = ActiveAt(emp, site) \cup {id}
    BY <1>4, <2>2, BagRemoveRemoves, BagAddAdds
  <2>0. is /\ site # home /\ home \in Sites
    BY <1>5
  <2> HIDE DEF new, is, home
  <2>4. ActiveAt(who, home) = ActiveAt(emp, home) \ {id}
    BY <1>1, <1>2, <2>0
  <2>5. ActiveAt(who, site) = ActiveAt(emp, site) \cup {id}
    BY <1>1, <1>2, <2>0
  <2>6. \A at \in Sites \ {home, site} : ActiveAt(who, at) = ActiveAt(emp, at)
    BY <1>1, <1>2
  <2>. QED BY <2>2, <2>3, <2>4, <2>5, <2>6, <1>4 DEF BagsFollow, new
<1>6. CASE ~moves
  <2>1. new = bag /\ (is => site = home)
    BY <1>6 DEF Moved
  <2> HIDE DEF new, is, home
  <2>2. ASSUME NEW at \in Sites
        PROVE  ActiveAt(who, at) = ActiveAt(emp, at)
    <3>1. id \in ActiveAt(emp, at) <=> is /\ at = home
      BY <1>2, <1>3
    <3>2. \A i : i \in ActiveAt(who, at) <=> i \in ActiveAt(emp, at)
      <4> TAKE i
      <4>1. CASE i = id
        BY <4>1, <3>1, <1>1, <2>1
      <4>2. CASE i # id
        BY <4>2, <1>1, <1>2
      <4>. QED BY <4>1, <4>2
    <3>. QED BY <3>2
  <2>. QED BY <2>1, <2>2, <1>4 DEF BagsFollow, new
<1>. QED BY <1>5, <1>6

\* insert keeps the bags true: whoever joins active is sampled at its site.
LEMMA InsertFollows ==
  ASSUME BagsFollow(bag, emp), NEW id, id \in Nat, id \notin Ids, NEW e, e.location \in Sites,
         NEW who, DOMAIN who = Ids \cup {id}, \A i \in Ids : who[i] = emp[i], who[id] = e
  PROVE  BagsFollow(Inserted(id, e), who)
<1> DEFINE home == e.location
           is == Human(e) /\ e.status = "active"
           new == Inserted(id, e)
<1>1. \A at \in Sites : \A i : i \in ActiveAt(who, at) <=>
         i \in ActiveAt(emp, at) \/ (i = id /\ is /\ at = home)
  BY DEF ActiveAt, Human, Ids
<1>4. /\ bag = [at \in Sites |-> bag[at]]
      /\ \A at \in Sites : IsBag(bag[at]) /\ Samples(bag[at]) = ActiveAt(emp, at)
  BY DEF BagsFollow
<1>5. CASE is
  <2>1. new = [bag EXCEPT ![home] = BagAdd(bag[home], id)]
    BY <1>5 DEF Inserted
  <2>2. /\ new = [at \in Sites |-> new[at]]
        /\ new[home] = BagAdd(bag[home], id)
        /\ \A at \in Sites \ {home} : new[at] = bag[at]
    BY <1>4, <2>1
  <2>3. IsBag(new[home]) /\ Samples(new[home]) = ActiveAt(emp, home) \cup {id}
    BY <1>4, <2>2, BagAddAdds
  <2>0. home \in Sites
    OBVIOUS
  <2> HIDE DEF new, is, home
  <2>4. ActiveAt(who, home) = ActiveAt(emp, home) \cup {id}
    BY <1>1, <1>5, <2>0
  <2>5. \A at \in Sites \ {home} : ActiveAt(who, at) = ActiveAt(emp, at)
    BY <1>1
  <2>. QED BY <2>2, <2>3, <2>4, <2>5, <1>4 DEF BagsFollow, new
<1>6. CASE ~is
  <2>1. new = bag
    BY <1>6 DEF Inserted
  <2> HIDE DEF new, is, home
  <2>2. \A at \in Sites : ActiveAt(who, at) = ActiveAt(emp, at)
    BY <1>1, <1>6
  <2>. QED BY <2>1, <2>2, <1>4 DEF BagsFollow, new
<1>. QED BY <1>5, <1>6

-----------------------------------------------------------------------------
(* The hierarchy.                                                          *)

\* What Hierarchy says of the identities, of any list of them.
Acyclic(who) ==
  /\ \A i \in DOMAIN who : who[i].manager \in DOMAIN who \cup {None}
  /\ \A group \in (SUBSET DOMAIN who) \ {{}} : \E i \in group : who[i].manager \notin group

\* An identity that joins under one who was there closes no chain.
LEMMA JoinAcyclic ==
  ASSUME NEW who, Acyclic(who), NEW id, id \notin DOMAIN who, id # None, None \notin DOMAIN who,
         NEW next, DOMAIN next = DOMAIN who \cup {id},
         \A i \in DOMAIN who : next[i].manager = who[i].manager,
         next[id].manager \in DOMAIN who \cup {None}
  PROVE  Acyclic(next)
<1>1. ASSUME NEW group \in SUBSET DOMAIN next, group # {},
             \A i \in group : next[i].manager \in group
      PROVE  FALSE
  <2> DEFINE old == group \ {id}
  <2>1. old \in SUBSET DOMAIN who /\ \A i \in old : who[i].manager \in group
    BY <1>1
  <2>2. \A i \in old : who[i].manager \in old
    BY <2>1 DEF Acyclic
  <2>3. old # {}
    BY <1>1
  <2>. QED BY <2>1, <2>2, <2>3 DEF Acyclic
<1>2. \A i \in DOMAIN next : next[i].manager \in DOMAIN next \cup {None}
  BY DEF Acyclic
<1>. QED BY <1>1, <1>2 DEF Acyclic

\* A change that leaves the managers alone closes none either.
LEMMA SameAcyclic ==
  ASSUME NEW who, Acyclic(who), NEW next, DOMAIN next = DOMAIN who,
         \A i \in DOMAIN who : next[i].manager = who[i].manager
  PROVE  Acyclic(next)
BY DEF Acyclic

\* Nor does a report given to a manager it is not above: were a group closed
\* after the change, the part of it above the new manager was closed before.
LEMMA ReportAcyclic ==
  ASSUME Acyclic(emp), NEW id \in Ids, NEW manager \in Ids, None \notin Ids,
         ~WouldCycle(id, manager),
         NEW next, DOMAIN next = Ids, next[id].manager = manager,
         \A i \in Ids \ {id} : next[i].manager = emp[i].manager
  PROVE  Acyclic(next)
<1>1. PICK chain \in SUBSET Ids : /\ manager \in chain /\ id \notin chain
                                  /\ \A y \in chain : emp[y].manager # None => emp[y].manager \in chain
  BY DEF WouldCycle, Above
<1>2. ASSUME NEW group \in SUBSET Ids, group # {}, \A i \in group : next[i].manager \in group
      PROVE  FALSE
  <2> DEFINE above == group \cap chain
  <2>1. CASE id \notin group
    <3>1. \A i \in group : emp[i].manager \in group
      BY <1>2, <2>1
    <3>. QED BY <3>1, <1>2 DEF Acyclic, Ids
  <2>2. CASE id \in group
    <3>1. manager \in above
      BY <1>1, <1>2, <2>2
    <3>2. \A i \in above : emp[i].manager \in group /\ emp[i].manager # None
      BY <1>1, <1>2
    <3>3. \A i \in above : emp[i].manager \in above
      BY <1>1, <3>2
    <3>. QED BY <3>1, <3>3 DEF Acyclic, Ids
  <2>. QED BY <2>1, <2>2
<1>3. \A i \in Ids : next[i].manager \in Ids \cup {None}
  BY DEF Acyclic, Ids
<1>. QED BY <1>2, <1>3 DEF Acyclic

-----------------------------------------------------------------------------
(* The identities and the book.                                            *)

PeopleEquipped(who) == who \in Seq(Employee) /\ \A i \in DOMAIN who : Equipped(who[i])

\* What BookExact says of the book and the identities, of any of them.
Booked(book, who) == book = UNION {Entries(i, who[i].held) : i \in DOMAIN who}

\* An identity can be drawn only at a site and in a department of the instance.
LEMMA DrawnFromOrganisation ==
  /\ Sites \subseteq Locations /\ Departments \subseteq Divisions
  /\ \A p \in Profiles : p \in Reachable /\ p.location \in Sites
  /\ \A i \in 1..SeedSize : \A s \in Seeds[i] :
       s.profile \in Reachable /\ s.profile.location \in Sites /\ s.status \in Statuses
<1>1. AllProfiles \subseteq Reachable
  BY DEF AllProfiles, Reachable
<1>2. Drawn \subseteq AllProfiles
  BY PoolAssumption DEF Drawn
<1>3. \A i \in 1..SeedSize : \A s \in Seeds[i] : s.profile \in Drawn /\ s.status \in Statuses
  BY PoolAssumption DEF Drawn
<1>4. \A p \in Drawn : p \in Reachable /\ p.location \in Sites
  BY <1>1, <1>2 DEF Sites
<1>5. Profiles \subseteq Drawn
  BY DEF Drawn
<1>6. Sites \subseteq Locations /\ Departments \subseteq Divisions
  BY <1>1, <1>2 DEF Sites, Departments, Reachable
<1>. QED BY <1>3, <1>4, <1>5, <1>6

\* An identity with a profile, and the profile it has.
LEMMA IdentityOf ==
  ASSUME NEW p \in Reachable, p.location \in Sites, NEW status \in Statuses,
         NEW manager \in Nat \cup {None}, NEW held \in Seq(Grant)
  PROVE  LET e == Identity(p, status, manager, held)
         IN  /\ e \in Employee /\ ProfileOf(e) = p
             /\ e.status = status /\ e.manager = manager /\ e.held = held
             /\ e.location = p.location /\ e.type = p.type
<1> DEFINE e == Identity(p, status, manager, held)
<1>1. p = [type |-> p.type, division |-> p.division, location |-> p.location,
           family |-> p.family, grade |-> p.grade]
  BY DEF Reachable
<1>2. /\ e.type = p.type /\ e.division = p.division /\ e.location = p.location
      /\ e.family = p.family /\ e.grade = p.grade
      /\ e.status = status /\ e.manager = manager /\ e.held = held
  BY DEF Identity
<1>3. e \in Employee
  BY DEF Identity, Employee, Reachable
<1>4. ProfileOf(e) = p
  BY <1>1, <1>2 DEF ProfileOf
<1>. QED BY <1>2, <1>3, <1>4

\* The profile of an identity is one it can have.
LEMMA ProfileReachable ==
  ASSUME NEW e \in Employee
  PROVE  /\ ProfileOf(e) \in Reachable
         /\ ProfileOf(e).location = e.location /\ ProfileOf(e).type = e.type
         /\ ProfileOf(e).division = e.division /\ ProfileOf(e).family = e.family
         /\ ProfileOf(e).grade = e.grade
<1>1. e.location \in Locations
  BY DrawnFromOrganisation DEF Employee
<1>. QED BY <1>1 DEF ProfileOf, Reachable, Employee

\* Who holds the baseline of its profile is equipped, and so is who left with nothing.
LEMMA EquippedByBaseline ==
  ASSUME NEW p \in Reachable, p.location \in Sites, NEW status \in Statuses,
         NEW manager \in Nat \cup {None}
  PROVE  Equipped(Identity(p, status, manager, Baseline(p)))
<1>1. /\ Baseline(p) \in Seq(Grant) /\ IsInjective(Baseline(p))
      /\ ManagedKeys(Baseline(p)) = ToSet(BaselineTemplatesFor(p))
  BY BaselineGrants
<1> DEFINE e == Identity(p, status, manager, Baseline(p))
<1>2. e \in Employee /\ ProfileOf(e) = p /\ e.held = Baseline(p)
  BY <1>1, IdentityOf
<1> HIDE DEF e
<1>3. Equipped(e)
  BY <1>1, <1>2 DEF Equipped
<1>. QED BY <1>3 DEF e

\* An identity that is stripped and leaves.
Gone(e, status) == [e EXCEPT !.held = <<>>, !.status = status]

\* Who is stripped and leaves is equipped with nothing.
LEMMA EquippedStripped ==
  ASSUME NEW e, Equipped(e), NEW status \in {"terminated", "disabled"}
  PROVE  LET f == Gone(e, status)
         IN  /\ Equipped(f) /\ f.held = <<>> /\ f.status = status
             /\ f.manager = e.manager /\ f.type = e.type /\ f.location = e.location
<1> DEFINE f == Gone(e, status)
<1>1. e \in Employee /\ status \in Statuses
  BY DEF Equipped, Statuses
<1>2. <<>> \in Seq(Grant) /\ IsInjective(<<>>)
  BY DEF IsInjective
<1>3. /\ f \in Employee /\ f.held = <<>> /\ f.status = status
      /\ f.manager = e.manager /\ f.type = e.type /\ f.location = e.location
  BY <1>1, <1>2 DEF Employee, Gone
<1> HIDE DEF f
<1>4. IsInjective(f.held)
  BY <1>2, <1>3, Zenon
<1>5. Leaver(f.status)
  BY <1>3 DEF Leaver
<1>6. Equipped(f)
  BY <1>3, <1>4, <1>5 DEF Equipped
<1>. QED BY <1>3, <1>6 DEF f

\* One identity becomes another, equipped one.
LEMMA ReplaceEquipped ==
  ASSUME NEW who, PeopleEquipped(who), NEW id \in DOMAIN who, NEW e, Equipped(e)
  PROVE  LET next == [who EXCEPT ![id] = e]
         IN  /\ PeopleEquipped(next) /\ DOMAIN next = DOMAIN who /\ Len(next) = Len(who)
             /\ next[id] = e /\ \A i \in DOMAIN who \ {id} : next[i] = who[i]
<1> DEFINE next == [who EXCEPT ![id] = e]
<1>1. who \in Seq(Employee) /\ e \in Employee
  BY DEF PeopleEquipped, Equipped
<1>2. next \in Seq(Employee) /\ DOMAIN next = DOMAIN who /\ Len(next) = Len(who)
  BY <1>1
<1>3. next[id] = e /\ \A i \in DOMAIN who \ {id} : next[i] = who[i]
  BY <1>1
<1> HIDE DEF next
<1>4. \A i \in DOMAIN next : Equipped(next[i])
  BY <1>2, <1>3 DEF PeopleEquipped
<1>. QED BY <1>2, <1>3, <1>4 DEF PeopleEquipped, next

\* One equipped identity joins.
LEMMA JoinEquipped ==
  ASSUME NEW who, PeopleEquipped(who), NEW e, Equipped(e)
  PROVE  LET next == Append(who, e)
         IN  /\ PeopleEquipped(next) /\ Len(who) \in Nat /\ Len(next) = Len(who) + 1
             /\ DOMAIN who = 1..Len(who) /\ DOMAIN next = DOMAIN who \cup {Len(who) + 1}
             /\ Len(who) + 1 \notin DOMAIN who
             /\ next[Len(who) + 1] = e /\ \A i \in DOMAIN who : next[i] = who[i]
<1> DEFINE next == Append(who, e)
<1>1. who \in Seq(Employee) /\ e \in Employee
  BY DEF PeopleEquipped, Equipped
<1>2. /\ next \in Seq(Employee) /\ Len(who) \in Nat /\ Len(next) = Len(who) + 1
      /\ DOMAIN who = 1..Len(who) /\ DOMAIN next = 1..(Len(who) + 1)
  BY <1>1
<1>3. next[Len(who) + 1] = e /\ \A i \in DOMAIN who : next[i] = who[i]
  BY <1>1
<1> HIDE DEF next
<1>4. DOMAIN next = DOMAIN who \cup {Len(who) + 1} /\ Len(who) + 1 \notin DOMAIN who
  BY <1>2
<1>5. \A i \in DOMAIN next : Equipped(next[i])
  BY <1>3, <1>4 DEF PeopleEquipped
<1>. QED BY <1>2, <1>3, <1>4, <1>5 DEF PeopleEquipped, next

\* The book's entries of one identity.
LEMMA EntriesOf ==
  ASSUME NEW id, NEW held
  PROVE  /\ \A i, g : <<i, g>> \in Entries(id, held) <=> i = id /\ g \in ToSet(held)
         /\ Entries(id, held) = {<<id, g>> : g \in ToSet(held)}
BY DEF Entries, ToSet

\* The book of the others stays when one identity's entries are made those of
\* what it now holds.
LEMMA ReplaceBooked ==
  ASSUME NEW book, NEW who, Booked(book, who), NEW id \in DOMAIN who,
         NEW next, DOMAIN next = DOMAIN who, \A i \in DOMAIN who \ {id} : next[i] = who[i],
         NEW now, now = (book \ Entries(id, who[id].held)) \cup Entries(id, next[id].held)
  PROVE  Booked(now, next)
<1> DEFINE Of(i) == Entries(i, who[i].held)
           New(i) == Entries(i, next[i].held)
<1>1. \A i \in DOMAIN who \ {id} : New(i) = Of(i)
  OBVIOUS
<1>2. \A i \in DOMAIN who \ {id} : \A x \in Of(i) : x \notin Of(id)
  BY DEF Entries
<1> HIDE DEF Of, New
<1>3. book = UNION {Of(i) : i \in DOMAIN who}
  BY DEF Booked, Of
<1>4. now = (book \ Of(id)) \cup New(id)
  BY DEF Of, New
<1>5. now = UNION {New(i) : i \in DOMAIN who}
  BY <1>1, <1>2, <1>3, <1>4
<1>. QED BY <1>5 DEF Booked, New

\* A joiner's grants are added to it.
LEMMA JoinBooked ==
  ASSUME NEW book, NEW who, Booked(book, who), NEW id, id \notin DOMAIN who,
         NEW next, DOMAIN next = DOMAIN who \cup {id}, \A i \in DOMAIN who : next[i] = who[i],
         NEW now, now = book \cup Entries(id, next[id].held)
  PROVE  Booked(now, next)
<1> DEFINE Of(i) == Entries(i, who[i].held)
           New(i) == Entries(i, next[i].held)
<1>1. \A i \in DOMAIN who : New(i) = Of(i)
  OBVIOUS
<1> HIDE DEF Of, New
<1>3. book = UNION {Of(i) : i \in DOMAIN who} /\ now = book \cup New(id)
  BY DEF Booked, Of, New
<1>5. now = UNION {New(i) : i \in DOMAIN who \cup {id}}
  BY <1>1, <1>3
<1>. QED BY <1>5 DEF Booked, New

\* recomputeBaseline on an equipped identity with a true book: what it comes to
\* hold, and the book with its entries made those.
LEMMA RecomputedEquipped ==
  ASSUME PeopleEquipped(emp), Booked(meta, emp), NEW id \in Ids,
         NEW p \in Reachable, p.location \in Sites, NEW status \in Statuses,
         NEW manager \in Nat \cup {None}
  PROVE  LET held == Recomputed(id, p)
         IN  /\ held \in Seq(Grant)
             /\ Equipped(Identity(p, status, manager, held))
             /\ RecomputedBook(id, p) = (meta \ Entries(id, emp[id].held)) \cup Entries(id, held)
<1> DEFINE held == emp[id].held
           keys == ToSet(BaselineTemplatesFor(p))
           r    == Recomputed(id, p)
<1>1. emp[id] \in Employee /\ held \in Seq(Grant) /\ IsInjective(held)
  BY DEF PeopleEquipped, Equipped, Employee, Ids
<1>2. \A g : <<id, g>> \in meta <=> g \in ToSet(held)
  BY EntriesOf DEF Booked, Ids
<1>3. /\ r \in Seq(Grant) /\ IsInjective(r) /\ ManagedKeys(r) = keys
      /\ ToSet(r) = {g \in ToSet(held) : ~g.base} \cup {Mint(k) : k \in keys}
  BY <1>1, <1>2, RecomputedGrants
<1>4. Equipped(Identity(p, status, manager, r))
  <2> HIDE DEF r
  <2> DEFINE e == Identity(p, status, manager, r)
  <2>0. r \in Seq(Grant)
    BY <1>3
  <2>1. e \in Employee /\ ProfileOf(e) = p /\ e.held = r
    BY <2>0, IdentityOf
  <2> HIDE DEF e
  <2>2. Equipped(e)
    BY <2>1, <1>3 DEF Equipped
  <2>. QED BY <2>2 DEF e
<1> DEFINE gone == {g \in ToSet(held) : Managed(id, g) /\ g.key \notin keys}
           new  == ToSet(r) \ ToSet(held)
<1>5. RecomputedBook(id, p) = (meta \ {<<id, g>> : g \in gone}) \cup {<<id, g>> : g \in new}
  BY DEF RecomputedBook
<1>6. \A g \in ToSet(held) : g \in Grant
  BY <1>1 DEF ToSet
<1>7. \A g \in ToSet(held) : Managed(id, g) <=> g.base
  BY <1>2, <1>6 DEF Managed, Grant
<1>8. gone = {g \in ToSet(held) : g.base /\ g.key \notin keys}
  BY <1>7
<1>9. \A k : Mint(k).key = k /\ Mint(k).base = TRUE
  BY DEF Mint
<1>10. \A g \in Grant : g.base => g = Mint(g.key)
  BY DEF Grant, Mint
<1> HIDE DEF gone, held, r, keys
<1>11. ToSet(r) \cap ToSet(held) = ToSet(held) \ gone
  BY <1>3, <1>6, <1>8, <1>9, <1>10
<1>12. ToSet(r) = (ToSet(held) \ gone) \cup new /\ gone \subseteq ToSet(held)
  BY <1>8, <1>11
<1> DEFINE At(gs) == {<<id, g>> : g \in gs}
<1>13. Entries(id, held) = At(ToSet(held)) /\ Entries(id, r) = At(ToSet(r))
  BY EntriesOf
<1>14. RecomputedBook(id, p) = (meta \ At(gone)) \cup At(new)
  BY <1>5
<1>15. At(ToSet(held)) \subseteq meta
  BY <1>2 DEF held
<1>16. /\ \A gs, hs : At(gs \cup hs) = At(gs) \cup At(hs)
       /\ \A gs, hs : At(gs \ hs) = At(gs) \ At(hs)
  OBVIOUS
<1>17. At(ToSet(r)) = (At(ToSet(held)) \ At(gone)) \cup At(new) /\ At(gone) \subseteq At(ToSet(held))
  BY <1>12, <1>16
<1> HIDE DEF At, new
<1>18. (meta \ At(gone)) \cup At(new) = (meta \ At(ToSet(held))) \cup At(ToSet(r))
  BY <1>15, <1>17
<1>. QED BY <1>3, <1>4, <1>13, <1>14, <1>18 DEF held, r

\* Revoking everything takes the entries of the identity out of the book.
LEMMA StrippedEntries ==
  ASSUME NEW id, NEW next, next = <<>>
  PROVE  Stripped(id) = (meta \ Entries(id, emp[id].held)) \cup Entries(id, next)
<1>1. Entries(id, <<>>) = {}
  BY DEF Entries
<1>2. Entries(id, next) = {}
  BY <1>1, Zenon
<1>. QED BY <1>2 DEF Stripped

-----------------------------------------------------------------------------
(* What the target is told.                                                *)

\* The target, who was told by the follow-ons, knows what every identity holds
\* that is not partial.
Followed(t, who, except) ==
  /\ t \in Seq(SUBSET Grant) /\ Len(t) = Len(who)
  /\ \A i \in DOMAIN who \ except : t[i] = ToSet(who[i].held)

\* The first grants of a list, all of them when the list is no longer.
LEMMA PrefixGrants ==
  ASSUME NEW seq \in Seq(Grant), NEW n \in Nat
  PROVE  /\ Prefix(seq, n) \subseteq ToSet(seq) /\ ToSet(seq) \subseteq Grant
         /\ Len(seq) <= n => Prefix(seq, n) = ToSet(seq)
<1>1. Len(seq) \in Nat /\ DOMAIN seq = 1..Len(seq) /\ \A i \in 1..Len(seq) : seq[i] \in Grant
  OBVIOUS
<1>2. Len(seq) <= n => \A i \in DOMAIN seq : i <= n
  BY <1>1
<1>. QED BY <1>1, <1>2 DEF Prefix, ToSet

\* A saga that fits the cap is emitted whole.
LEMMA FollowFits ==
  ASSUME NEW revoked \in Seq(Grant), NEW granted \in Seq(Grant), NEW known \in SUBSET Grant
  PROVE  /\ Follow(revoked, granted, known) \in SUBSET Grant
         /\ Fits(revoked, granted) =>
              Follow(revoked, granted, known) = (known \ ToSet(revoked)) \cup ToSet(granted)
<1> DEFINE room == MaxFanout - AtMost(Len(revoked), MaxFanout)
<1>1. MaxFanout \in Nat /\ Len(revoked) \in Nat /\ Len(granted) \in Nat
  BY WorkforceAssumption
<1>2. room \in Nat
  BY <1>1 DEF AtMost
<1>3. Fits(revoked, granted) => Len(revoked) <= MaxFanout /\ Len(granted) <= room
  BY <1>1 DEF Fits, AtMost
<1>4. Follow(revoked, granted, known) = (known \ Prefix(revoked, MaxFanout)) \cup Prefix(granted, room)
  BY DEF Follow
<1> HIDE DEF room
<1>5. /\ Prefix(granted, room) \subseteq ToSet(granted) /\ ToSet(granted) \subseteq Grant
      /\ Len(granted) <= room => Prefix(granted, room) = ToSet(granted)
  BY <1>2, PrefixGrants
<1>6. Len(revoked) <= MaxFanout => Prefix(revoked, MaxFanout) = ToSet(revoked)
  BY <1>1, PrefixGrants
<1>. QED BY <1>3, <1>4, <1>5, <1>6

\* What was lost and what was gained, told in full, take the one list of grants
\* to the other.
LEMMA LostAndGained ==
  ASSUME NEW before \in Seq(Grant), NEW after \in Seq(Grant)
  PROVE  /\ Lost(before, after) \in Seq(Grant)
         /\ ToSet(Lost(before, after)) = ToSet(before) \ ToSet(after)
         /\ (ToSet(before) \ ToSet(Lost(before, after))) \cup ToSet(Lost(after, before))
              = ToSet(after)
<1>1. \A s, t \in Seq(Grant) : /\ Lost(s, t) \in Seq(Grant)
                               /\ ToSet(Lost(s, t)) = ToSet(s) \ ToSet(t)
  BY SelectedElements DEF Lost
<1>. QED BY <1>1

\* The saga of a change of one identity leaves what the target knows true.
LEMMA TellFollows ==
  ASSUME Followed(told, emp, partial), PeopleEquipped(emp), NEW id \in Ids,
         NEW revoked \in Seq(Grant), NEW granted \in Seq(Grant),
         NEW next, next \in Seq(Employee), Len(next) = Len(emp), DOMAIN next = Ids,
         \A i \in Ids \ {id} : next[i] = emp[i],
         id \notin partial =>
           ToSet(next[id].held) = (ToSet(emp[id].held) \ ToSet(revoked)) \cup ToSet(granted),
         NEW t, t = [told EXCEPT ![id] = Follow(revoked, granted, @)],
         NEW except, except = IF Fits(revoked, granted) THEN partial ELSE partial \cup {id}
  PROVE  Followed(t, next, except)
<1>1. told \in Seq(SUBSET Grant) /\ Len(told) = Len(emp) /\ id \in DOMAIN told
      /\ DOMAIN told = Ids
  BY DEF Followed, PeopleEquipped, Ids
<1>2. told[id] \in SUBSET Grant
  BY <1>1
<1>3. /\ Follow(revoked, granted, told[id]) \in SUBSET Grant
      /\ Fits(revoked, granted) =>
           Follow(revoked, granted, told[id]) = (told[id] \ ToSet(revoked)) \cup ToSet(granted)
  BY <1>2, FollowFits
<1> DEFINE new == Follow(revoked, granted, told[id])
<1>4. t = [told EXCEPT ![id] = new]
  OBVIOUS
<1> HIDE DEF new
<1>5. /\ t \in Seq(SUBSET Grant) /\ Len(t) = Len(told)
      /\ t[id] = new /\ \A i \in Ids \ {id} : t[i] = told[i]
  BY <1>1, <1>3, <1>4 DEF new
<1>6. ASSUME NEW i \in Ids \ except
      PROVE  t[i] = ToSet(next[i].held)
  <2>1. i \notin partial /\ told[i] = ToSet(emp[i].held)
    BY DEF Followed, Ids
  <2>2. CASE i # id
    BY <2>1, <2>2, <1>5
  <2>3. CASE i = id
    <3>1. Fits(revoked, granted)
      BY <2>3
    <3>. QED BY <3>1, <2>1, <2>3, <1>3, <1>5 DEF new
  <2>. QED BY <2>2, <2>3
<1>. QED BY <1>1, <1>5, <1>6 DEF Followed

\* The saga of a hire tells of the new identity; of those in untold it tells nothing.
LEMMA TellNewFollows ==
  ASSUME Followed(told, emp, partial), NEW granted \in Seq(Grant), NEW untold,
         NEW next, next \in Seq(Employee), Len(emp) \in Nat, Len(next) = Len(emp) + 1,
         Ids = 1..Len(emp), DOMAIN next = Ids \cup {Len(emp) + 1}, Len(emp) + 1 \notin Ids,
         next[Len(emp) + 1].held = granted,
         \A i \in Ids \ untold : next[i] = emp[i],
         NEW t, t = Append(told, Follow(<<>>, granted, {})),
         NEW except, except = partial \cup untold
                                \cup (IF Fits(<<>>, granted) THEN {} ELSE {Len(emp) + 1})
  PROVE  Followed(t, next, except)
<1> DEFINE n == Len(emp)
           new == Follow(<<>>, granted, {})
<1>1. told \in Seq(SUBSET Grant) /\ Len(told) = n
  BY DEF Followed
<1>2. <<>> \in Seq(Grant) /\ {} \in SUBSET Grant /\ ToSet(<<>>) = {}
  BY DEF ToSet
<1>3. /\ new \in SUBSET Grant
      /\ Fits(<<>>, granted) => new = ({} \ ToSet(<<>>)) \cup ToSet(granted)
  <2> DEFINE none == <<>>
             nothing == {}
  <2>1. none \in Seq(Grant) /\ nothing \in SUBSET Grant
    BY <1>2
  <2> HIDE DEF none, nothing
  <2>2. /\ Follow(none, granted, nothing) \in SUBSET Grant
        /\ Fits(none, granted) =>
             Follow(none, granted, nothing) = (nothing \ ToSet(none)) \cup ToSet(granted)
    BY <2>1, FollowFits
  <2>. QED BY <2>2, Zenon DEF none, nothing
<1>4. Fits(<<>>, granted) => new = ToSet(granted)
  BY <1>2, <1>3
<1> HIDE DEF new
<1>5. t = Append(told, new)
  BY DEF new
<1>6. /\ t \in Seq(SUBSET Grant) /\ Len(t) = n + 1 /\ t[n + 1] = new
      /\ \A i \in 1..n : t[i] = told[i]
  BY <1>1, <1>3, <1>5
<1>7. ASSUME NEW i \in DOMAIN next \ except
      PROVE  t[i] = ToSet(next[i].held)
  <2>1. CASE i \in Ids
    <3>1. next[i] = emp[i] /\ told[i] = ToSet(emp[i].held) /\ t[i] = told[i]
      BY <2>1, <1>6 DEF Followed, Ids
    <3>. QED BY <3>1
  <2>2. CASE i = n + 1
    <3>1. Fits(<<>>, granted)
      BY <2>2
    <3>. QED BY <3>1, <2>2, <1>4, <1>6
  <2>. QED BY <2>1, <2>2
<1>. QED BY <1>6, <1>7 DEF Followed

-----------------------------------------------------------------------------
(* Access.                                                                 *)

\* Segregation of duties is about which templates are held, not in what order.
LEMMA OrderBreaksNothing ==
  ASSUME NEW keys \in Seq(Key), SodConflicts(keys) = {},
         NEW other \in Seq(Key), IsInjective(other), ToSet(other) = ToSet(keys)
  PROVE  SodConflicts(other) = {}
<1> DEFINE charged(ks) == {i \in DOMAIN ks : Duties(ks[i]) # {}}
           Sides(ks, rule, i, j) == /\ Duties(ks[i]) \cap rule.a # {}
                                    /\ Duties(ks[j]) \cap rule.b # {}
<1>0. /\ DOMAIN keys \subseteq Int /\ DOMAIN other \subseteq Int
  OBVIOUS
<1>1. \A ks : SodConflicts(ks) =
        {c \in SodRules \X charged(ks) \X charged(ks) :
           c[2] < c[3] /\ (Sides(ks, c[1], c[2], c[3]) \/ Sides(ks, c[1], c[3], c[2]))}
  BY Zenon DEF SodConflicts
<1>2. SUFFICES ASSUME NEW rule \in SodRules, NEW i \in charged(other), NEW j \in charged(other),
                      i < j, Sides(other, rule, i, j) \/ Sides(other, rule, j, i)
               PROVE  FALSE
  <2> HIDE DEF Sides
  <2>. QED BY <1>1
<1>3. other[i] # other[j]
  BY <1>0, <1>2 DEF IsInjective
<1>4. PICK k \in DOMAIN keys : keys[k] = other[i]
  BY DEF ToSet
<1>5. PICK l \in DOMAIN keys : keys[l] = other[j]
  BY DEF ToSet
<1>6. k \in charged(keys) /\ l \in charged(keys) /\ (k < l \/ l < k)
  BY <1>0, <1>3, <1>4, <1>5
<1>7. /\ Sides(keys, rule, k, l) \/ Sides(keys, rule, l, k)
  BY <1>2, <1>4, <1>5
<1>8. \A m, n \in charged(keys) :
        m < n => ~(Sides(keys, rule, m, n) \/ Sides(keys, rule, n, m))
  <2> HIDE DEF Sides
  <2>1. ASSUME NEW m \in charged(keys), NEW n \in charged(keys), m < n,
               Sides(keys, rule, m, n) \/ Sides(keys, rule, n, m)
        PROVE  FALSE
    <3>1. <<rule, m, n>> \in SodConflicts(keys)
      BY <1>1, <2>1
    <3>. QED BY <3>1
  <2>. QED BY <2>1
<1>. QED BY <1>6, <1>7, <1>8

\* The managed grants of an equipped identity: the templates of its profile,
\* each once, and no two of them in conflict.
LEMMA EquippedAccess ==
  ASSUME NEW e, Equipped(e), ~(Leaver(e.status) /\ e.held = <<>>)
  PROVE  LET keys == Keys(Selected(e.held, {g \in ToSet(e.held) : g.base}))
         IN  /\ ToSet(keys) = ToSet(BaselineTemplatesFor(ProfileOf(e)))
             /\ SodConflicts(keys) = {}
<1> DEFINE managed == Selected(e.held, {g \in ToSet(e.held) : g.base})
           keys == Keys(managed)
           own  == BaselineTemplatesFor(ProfileOf(e))
<1>1. /\ e \in Employee /\ e.held \in Seq(Grant) /\ IsInjective(e.held)
      /\ ManagedKeys(e.held) = ToSet(own)
  BY DEF Equipped, Employee
<1>2. /\ managed \in Seq(Grant) /\ IsInjective(managed)
      /\ ToSet(managed) = {g \in ToSet(e.held) : g.base}
  <2> DEFINE base == {g \in ToSet(e.held) : g.base}
  <2>1. ToSet(e.held) \cap base = base
    OBVIOUS
  <2> HIDE DEF base
  <2>2. /\ Selected(e.held, base) \in Seq(Grant) /\ IsInjective(Selected(e.held, base))
        /\ ToSet(Selected(e.held, base)) = ToSet(e.held) \cap base
    BY <1>1, SelectedElements
  <2>. QED BY <2>1, <2>2 DEF base
<1>3. ProfileOf(e) \in Reachable
  BY <1>1, ProfileReachable
<1>4. own \in Seq(Key) /\ SodConflicts(own) = {}
  BY <1>3, BaselineTyped, CatalogueAssumption
<1>5. \A i \in DOMAIN managed : managed[i] \in Grant /\ managed[i].base = TRUE
  <2>1. \A i \in DOMAIN managed : managed[i] \in {g \in ToSet(e.held) : g.base}
    <3> HIDE DEF managed
    <3>. QED BY <1>2 DEF ToSet
  <2>2. ToSet(e.held) \subseteq Grant
    BY <1>1 DEF ToSet
  <2>. QED BY <2>1, <2>2 DEF Grant
<1> HIDE DEF managed, own
<1>6. DOMAIN keys = DOMAIN managed /\ \A i \in DOMAIN managed : keys[i] = managed[i].key
  BY DEF Keys
<1>7. keys \in Seq(Key)
  <2>1. DOMAIN managed = 1..Len(managed) /\ Len(managed) \in Nat
    BY <1>2
  <2>2. \A i \in 1..Len(managed) : managed[i].key \in Key
    BY <1>5, <2>1 DEF Grant
  <2>3. keys = [i \in 1..Len(managed) |-> managed[i].key]
    BY <2>1 DEF Keys
  <2>. QED BY <2>1, <2>2, <2>3
<1>8. IsInjective(keys)
  <2>1. \A g, h \in Grant : g.base = TRUE /\ h.base = TRUE /\ g.key = h.key => g = h
    BY DEF Grant
  <2>. QED BY <1>2, <1>5, <1>6, <2>1 DEF IsInjective
<1>9. ToSet(keys) = ToSet(own)
  <2>1. ToSet(keys) = {g.key : g \in ToSet(managed)}
    BY <1>6 DEF ToSet
  <2>. QED BY <1>1, <1>2, <2>1 DEF ManagedKeys
<1> HIDE DEF keys
<1>10. SodConflicts(keys) = {}
  BY <1>4, <1>7, <1>8, <1>9, OrderBreaksNothing
<1>. QED BY <1>9, <1>10 DEF keys, managed, own

-----------------------------------------------------------------------------
(* The seed.                                                               *)

\* The rank of a grade.
LEMMA SeniorityBounds ==
  ASSUME NEW g \in Grades
  PROVE  Seniority(g) \in 0..7
<1>1. \E i \in 1..8 : GradeOrder[i] = g
  BY DEF Grades
<1>2. (CHOOSE i \in 1..8 : GradeOrder[i] = g) \in 1..8
  BY <1>1
<1>. QED BY <1>2 DEF Seniority

\* A toxic pair is two different templates.
LEMMA ToxicPairLists ==
  ASSUME NEW pair \in ToxicPairs
  PROVE  pair \in Seq(Key) /\ IsInjective(pair)
<1>1. Templates \subseteq Key
  BY DEF Key
<1>2. {"SAP-PAY-POST", "SAP-PAY-RELEASE", "WIRE-APPROVER", "MUREX-TRADER", "SETTLEMENTS",
       "SAP-VENDOR", "AD-PRIV-ADMIN", "AUDIT-REVIEW", "SAP-GL-POST", "SAP-GL-RECON"} \subseteq Key
  BY <1>1 DEF Templates
<1>3. \A a, b \in Key : <<a, b>> \in Seq(Key)
  BY ShortLists
<1>4. pair \in Seq(Key)
  BY <1>2, <1>3 DEF ToxicPairs
<1>5. Len(pair) = 2 /\ pair[1] # pair[2]
  BY DEF ToxicPairs
<1>6. DOMAIN pair = {1, 2}
  BY <1>4, <1>5
<1>. QED BY <1>4, <1>5, <1>6 DEF IsInjective

\* Whatever a slot is materialised with equips it.
LEMMA SeedEquipped ==
  ASSUME NEW p \in Reachable, p.location \in Sites, NEW status \in Statuses,
         NEW manager \in Nat \cup {None}, NEW held \in SeedGrants(p, status)
  PROVE  Equipped(Identity(p, status, manager, held))
<1> DEFINE base == Baseline(p)
           Adhoc(pair) ==
             LET fresh == Selected(pair, ToSet(pair) \ ToSet(Keys(base)))
             IN [i \in DOMAIN fresh |-> [key |-> fresh[i], base |-> FALSE]]
<1>1. /\ base \in Seq(Grant) /\ IsInjective(base)
      /\ ManagedKeys(base) = ToSet(BaselineTemplatesFor(p))
      /\ \A g \in ToSet(base) : g.base = TRUE
  BY BaselineGrants DEF Grant, ToSet
<1>2. SeededPairs \subseteq ToxicPairs
  BY PoolAssumption
<1>3. \/ held = <<>> /\ Leaver(status)
      \/ held = base
      \/ \E pair \in SeededPairs : held = base \o Adhoc(pair)
  <2> DEFINE kept == IF Leaver(status) THEN {<<>>, base} ELSE {base}
             With(h, pair) ==
               LET fresh == Selected(pair, ToSet(pair) \ ToSet(Keys(h)))
               IN h \o [i \in DOMAIN fresh |-> [key |-> fresh[i], base |-> FALSE]]
  <2>1. SeedGrants(p, status) =
          kept \cup (IF p.type = "Service" THEN {}
                    ELSE {With(h, pair) : h \in kept \ {<<>>}, pair \in SeededPairs})
    BY DEF SeedGrants
  <2>2. kept \ {<<>>} \subseteq {base}
    OBVIOUS
  <2>3. \A pair : With(base, pair) = base \o Adhoc(pair)
    OBVIOUS
  <2>4. held \in kept => held = base \/ (held = <<>> /\ Leaver(status))
    OBVIOUS
  <2>5. held \in kept \/ \E h \in kept \ {<<>>}, pair \in SeededPairs : held = With(h, pair)
    <3> HIDE DEF kept, With
    <3>. QED BY <2>1
  <2> HIDE DEF kept, With, base, Adhoc
  <2>. QED BY <2>2, <2>3, <2>4, <2>5
<1>4. CASE held = <<>> /\ Leaver(status)
  <2>1. <<>> \in Seq(Grant) /\ IsInjective(<<>>)
    BY DEF IsInjective
  <2>2. held \in Seq(Grant) /\ IsInjective(held)
    BY <1>4, <2>1, Zenon
  <2> DEFINE e == Identity(p, status, manager, held)
  <2>3. e \in Employee /\ e.held = held /\ e.status = status
    BY <2>2, IdentityOf
  <2> HIDE DEF e
  <2>4. IsInjective(e.held) /\ e.held = <<>> /\ Leaver(e.status)
    BY <1>4, <2>2, <2>3, Zenon
  <2>5. Equipped(e)
    BY <2>3, <2>4, Zenon DEF Equipped
  <2>. QED BY <2>5 DEF e
<1>5. ASSUME held \in Seq(Grant), IsInjective(held),
             ManagedKeys(held) = ToSet(BaselineTemplatesFor(p))
      PROVE  Equipped(Identity(p, status, manager, held))
  <2> DEFINE e == Identity(p, status, manager, held)
  <2>1. e \in Employee /\ e.held = held /\ ProfileOf(e) = p
    BY <1>5, IdentityOf
  <2> HIDE DEF e
  <2>2. Equipped(e)
    BY <2>1, <1>5 DEF Equipped
  <2>. QED BY <2>2 DEF e
<1>6. CASE held = base
  BY <1>1, <1>5, <1>6
<1>7. ASSUME NEW pair \in SeededPairs, held = base \o Adhoc(pair)
      PROVE  Equipped(Identity(p, status, manager, held))
  <2> DEFINE fresh == Selected(pair, ToSet(pair) \ ToSet(Keys(base)))
             extra == [i \in DOMAIN fresh |-> [key |-> fresh[i], base |-> FALSE]]
  <2>1. pair \in Seq(Key) /\ IsInjective(pair)
    BY <1>2, ToxicPairLists
  <2>2. fresh \in Seq(Key) /\ IsInjective(fresh)
    BY <2>1, SelectedElements
  <2> HIDE DEF fresh
  <2>3. Len(fresh) \in Nat /\ DOMAIN fresh = 1..Len(fresh) /\ \A i \in DOMAIN fresh : fresh[i] \in Key
    BY <2>2
  <2>4. \A k \in Key : [key |-> k, base |-> FALSE] \in Grant
    BY DEF Grant
  <2>5. extra \in Seq(Grant)
    <3>1. extra = [i \in 1..Len(fresh) |-> [key |-> fresh[i], base |-> FALSE]]
      BY <2>3
    <3>2. \A i \in 1..Len(fresh) : [key |-> fresh[i], base |-> FALSE] \in Grant
      BY <2>3, <2>4
    <3>. QED BY <2>3, <3>1, <3>2
  <2>6. /\ DOMAIN extra = DOMAIN fresh
        /\ \A i \in DOMAIN fresh : extra[i].key = fresh[i] /\ extra[i].base = FALSE
    OBVIOUS
  <2>7. held = base \o extra
    BY <1>7 DEF fresh
  <2> HIDE DEF extra, base
  <2>8. IsInjective(extra)
    BY <2>2, <2>6 DEF IsInjective
  <2>9. \A g \in ToSet(extra) : g.base = FALSE
    BY <2>6 DEF ToSet
  <2>10. ToSet(base) \cap ToSet(extra) = {}
    BY <1>1, <2>9
  <2>11. /\ base \o extra \in Seq(Grant) /\ IsInjective(base \o extra)
         /\ ToSet(base \o extra) = ToSet(base) \cup ToSet(extra)
    BY <1>1, <2>5, <2>8, <2>10, ConcatGrants
  <2>12. held \in Seq(Grant) /\ IsInjective(held) /\ ToSet(held) = ToSet(base) \cup ToSet(extra)
    BY <2>7, <2>11, Zenon
  <2>13. {h \in ToSet(held) : h.base} = {h \in ToSet(base) : h.base}
    BY <2>9, <2>12
  <2>14. ManagedKeys(held) = ManagedKeys(base)
    BY <2>13, Zenon DEF ManagedKeys
  <2>15. ManagedKeys(held) = ToSet(BaselineTemplatesFor(p))
    BY <2>14, <1>1, Zenon
  <2>. QED BY <2>12, <2>15, <1>5
<1>. QED BY <1>3, <1>4, <1>6, <1>7

\* A slot that is drawn, and what the promotion of a head makes of it.
LEMMA GradedSlots ==
  ASSUME NEW slots, DOMAIN slots = 1..SeedSize,
         \A i \in 1..SeedSize : slots[i] \in Seeds[i]
  PROVE  /\ DOMAIN Graded(slots) = 1..SeedSize
         /\ \A i \in 1..SeedSize : LET s == Graded(slots)[i]
                                   IN  /\ s.profile \in Reachable /\ s.profile.location \in Sites
                                       /\ s.status \in Statuses
<1>1. \A i \in 1..SeedSize : /\ slots[i] \in [profile : AllProfiles, status : Statuses]
                             /\ slots[i].profile \in Reachable
                             /\ slots[i].profile.location \in Sites
                             /\ slots[i].status \in Statuses
  BY DrawnFromOrganisation, PoolAssumption
<1>2. PICK top : Graded(slots) = slots \/ Graded(slots) = [slots EXCEPT ![top].profile.grade = "MD"]
  BY Zenon DEF Graded
<1>3. CASE Graded(slots) = slots
  BY <1>1, <1>3
<1>4. CASE Graded(slots) = [slots EXCEPT ![top].profile.grade = "MD"]
  <2> DEFINE next == [slots EXCEPT ![top].profile.grade = "MD"]
  <2>1. DOMAIN next = 1..SeedSize
    OBVIOUS
  <2>2. "MD" \in Grades
    <3>1. GradeOrder[8] = "MD"
      BY DEF GradeOrder
    <3>. QED BY <3>1 DEF Grades
  <2>3. ASSUME NEW i \in 1..SeedSize
        PROVE  /\ next[i].profile \in Reachable /\ next[i].profile.location \in Sites
               /\ next[i].status \in Statuses
    <3>1. CASE i # top
      BY <3>1, <1>1
    <3>2. CASE i = top
      <4> DEFINE s == slots[i]
                 p == s.profile
                 q == [p EXCEPT !.grade = "MD"]
      <4>1. next[i] = [s EXCEPT !.profile.grade = "MD"]
        BY <3>2
      <4>2. s \in [profile : AllProfiles, status : Statuses] /\ p \in Reachable
            /\ p.location \in Sites /\ s.status \in Statuses
        BY <1>1
      <4> HIDE DEF s
      <4>3. next[i].profile = q /\ next[i].status = s.status
        BY <4>1, <4>2
      <4> HIDE DEF p
      <4>4. q \in Reachable /\ q.location = p.location
        BY <4>2, <2>2 DEF Reachable
      <4>. QED BY <4>2, <4>3, <4>4
    <3>. QED BY <3>1, <3>2
  <2>. QED BY <1>4, <2>1, <2>3
<1>. QED BY <1>2, <1>3, <1>4

\* Seeded managers are humans, and of a human strictly more senior ones.
LEMMA SeededUnderSeniors ==
  ASSUME NEW slots, DOMAIN slots = 1..SeedSize, NEW i \in 1..SeedSize,
         slots[i].profile.grade \in Grades,
         NEW m \in ManagerChoices(slots, i), m # None
  PROVE  /\ m \in 1..SeedSize /\ Human(slots[m].profile)
         /\ Human(slots[i].profile) =>
              Seniority(slots[m].profile.grade) > Seniority(slots[i].profile.grade)
<1> DEFINE me   == slots[i].profile
           rank == Seniority(me.grade)
           In(lo, hi, divisions) ==
             {j \in DOMAIN slots : /\ Human(slots[j].profile)
                                   /\ Seniority(slots[j].profile.grade) \in lo..hi
                                   /\ slots[j].profile.division \in divisions}
<1>1. m \in SeedManagers(slots, i)
  BY DEF ManagerChoices
<1>2. Human(me) => \E hi, divisions : m \in In(rank + 1, hi, divisions)
  <2>1. Human(me) => \/ m \in In(rank + 1, rank + 3, {me.division})
                     \/ m \in In(rank + 1, 7, {me.division})
                     \/ m \in In(rank + 1, 7, Divisions)
    BY <1>1 DEF SeedManagers
  <2> HIDE DEF In
  <2>. QED BY <2>1
<1>3. ~Human(me) => \E lo, hi, divisions : m \in In(lo, hi, divisions)
  <2>1. ~Human(me) => \/ m \in In(5, 7, {me.division})
                      \/ m \in In(5, 7, Divisions)
                      \/ m \in In(rank + 1, 7, Divisions)
    BY <1>1 DEF SeedManagers
  <2> HIDE DEF In
  <2>. QED BY <2>1
<1>4. rank \in 0..7
  BY SeniorityBounds
<1>5. \A lo, hi, divisions : \A j \in In(lo, hi, divisions) :
        j \in 1..SeedSize /\ Human(slots[j].profile) /\ Seniority(slots[j].profile.grade) \in lo..hi
  OBVIOUS
<1> HIDE DEF In, rank
<1>6. m \in 1..SeedSize /\ Human(slots[m].profile)
  BY <1>2, <1>3, <1>5
<1>7. ASSUME Human(me)
      PROVE  Seniority(slots[m].profile.grade) > rank
  <2>1. PICK hi : Seniority(slots[m].profile.grade) \in (rank + 1)..hi
    BY <1>2, <1>5, <1>7
  <2>. QED BY <2>1, <1>4
<1>. QED BY <1>6, <1>7 DEF rank

\* So in a group whose members all report inside it, there would be a most
\* senior human, who reports to one more senior still.
LEMMA SeededAcyclic ==
  ASSUME NEW slots, DOMAIN slots = 1..SeedSize,
         \A i \in 1..SeedSize : slots[i].profile.grade \in Grades,
         NEW manager, \A i \in 1..SeedSize : manager[i] \in ManagerChoices(slots, i),
         NEW group \in SUBSET 1..SeedSize, group # {}, \A i \in group : manager[i] \in group
  PROVE  FALSE
<1> DEFINE human(i) == Human(slots[i].profile)
           sen(i) == Seniority(slots[i].profile.grade)
<1>0. None \notin 1..SeedSize
  BY PoolAssumption
<1>1. \A i \in group : /\ manager[i] \in group /\ human(manager[i])
                       /\ human(i) => sen(manager[i]) > sen(i)
  <2> TAKE i \in group
  <2>1. i \in 1..SeedSize /\ manager[i] # None /\ manager[i] \in ManagerChoices(slots, i)
    BY <1>0
  <2>. QED BY <2>1, SeededUnderSeniors
<1>2. \A i \in group : sen(i) \in 0..7
  BY SeniorityBounds
<1> HIDE DEF human, sen
<1> DEFINE T == {7 - sen(i) : i \in {j \in group : human(j)}}
<1>3. T # {} /\ T \in SUBSET Nat
  <2>1. PICK i \in group : TRUE
    OBVIOUS
  <2>2. manager[i] \in group /\ human(manager[i])
    BY <1>1
  <2>3. 7 - sen(manager[i]) \in T
    BY <2>2
  <2>4. \A j \in group : 7 - sen(j) \in Nat
    BY <1>2
  <2>. QED BY <2>3, <2>4
<1>4. PICK x \in T : \A y \in T : x <= y
  <2> HIDE DEF T
  <2>. QED BY <1>3, LeastNat
<1>5. PICK top \in group : human(top) /\ x = 7 - sen(top)
  OBVIOUS
<1>6. 7 - sen(manager[top]) \in T
  BY <1>1, <1>5
<1>7. x <= 7 - sen(manager[top])
  BY <1>4, <1>6
<1>8. sen(manager[top]) > sen(top) /\ sen(top) \in 0..7 /\ sen(manager[top]) \in 0..7
  BY <1>1, <1>2, <1>5
<1>. QED BY <1>5, <1>7, <1>8

-----------------------------------------------------------------------------
(* The inductive invariant.                                                *)

\* Whoever left and still holds something was seeded so, and of those the
\* target was never told.
OrphansKnown(who, left, untold) ==
  /\ \A i \in DOMAIN who : Leaver(who[i].status) /\ who[i].held # <<>> => i \in left
  /\ left \subseteq untold

Inv ==
  /\ PeopleEquipped(emp)
  /\ Booked(meta, emp)
  /\ OrphansKnown(emp, orphans, partial)
  /\ Followed(told, emp, partial)
  /\ BagsFollow(bag, emp)
  /\ Acyclic(emp)

\* The seeding establishes the invariant.
LEMMA InitInv == Init => Inv
<1> SUFFICES ASSUME Init PROVE Inv
  OBVIOUS
<1> DEFINE n == SeedSize
<1>0. n \in Nat \ {0}
  BY PoolAssumption
<1>1. PICK slots \in {f \in [1..n -> UNION {Seeds[i] : i \in 1..n}] :
                        \A i \in 1..n : f[i] \in Seeds[i]} :
        LET planned == Graded(slots) IN
          \E held \in [1..n -> UNION {SeedGrants(planned[i].profile, planned[i].status) :
                                        i \in 1..n}],
             manager \in [1..n -> 1..n \cup {None}] :
            /\ \A i \in 1..n : /\ held[i] \in SeedGrants(planned[i].profile, planned[i].status)
                               /\ manager[i] \in ManagerChoices(planned, i)
            /\ emp = [i \in 1..n |->
                        Identity(planned[i].profile, planned[i].status, manager[i], held[i])]
            /\ bag = [site \in Sites |-> BagOf(Selected([i \in Ids |-> i], ActiveAt(emp, site)))]
            /\ meta = UNION {Entries(i, held[i]) : i \in 1..n}
  BY DEF Init, Seed
<1> DEFINE planned == Graded(slots)
           Made(m, h, i) == Identity(planned[i].profile, planned[i].status, m[i], h[i])
<1>2. /\ DOMAIN planned = 1..n
      /\ \A i \in 1..n : /\ planned[i].profile \in Reachable
                         /\ planned[i].profile.location \in Sites
                         /\ planned[i].status \in Statuses
  <2>1. DOMAIN slots = 1..n /\ \A i \in 1..n : slots[i] \in Seeds[i]
    BY <1>1
  <2>. QED BY <2>1, GradedSlots
<1> HIDE DEF planned
<1>3. PICK held, manager :
        /\ \A i \in 1..n : /\ held[i] \in SeedGrants(planned[i].profile, planned[i].status)
                           /\ manager[i] \in ManagerChoices(planned, i)
                           /\ manager[i] \in 1..n \cup {None}
        /\ emp = [i \in 1..n |-> Made(manager, held, i)]
        /\ bag = [site \in Sites |-> BagOf(Selected([i \in Ids |-> i], ActiveAt(emp, site)))]
        /\ meta = UNION {Entries(i, held[i]) : i \in 1..n}
  BY <1>1 DEF planned
<1>4. Ids = 1..n /\ \A i \in 1..n : emp[i] = Made(manager, held, i)
  BY <1>3 DEF Ids
<1>5. \A i \in 1..n : Equipped(emp[i])
  <2> TAKE i \in 1..n
  <2>1. /\ planned[i].profile \in Reachable /\ planned[i].profile.location \in Sites
        /\ planned[i].status \in Statuses /\ manager[i] \in Nat \cup {None}
        /\ held[i] \in SeedGrants(planned[i].profile, planned[i].status)
    <3>1. manager[i] \in 1..n \cup {None}
      BY <1>3
    <3>2. manager[i] \in Nat \cup {None}
      <4> HIDE DEF n
      <4>. QED BY <3>1, <1>0
    <3>. QED BY <3>2, <1>2, <1>3
  <2>2. Equipped(Identity(planned[i].profile, planned[i].status, manager[i], held[i]))
    BY <2>1, SeedEquipped
  <2>. QED BY <2>2, <1>4
<1>6. \A i \in 1..n : emp[i].held = held[i] /\ emp[i].manager = manager[i]
  <2> TAKE i \in 1..n
  <2>1. emp[i] = Identity(planned[i].profile, planned[i].status, manager[i], held[i])
    BY <1>4
  <2>2. \A p, st, m, h : Identity(p, st, m, h).held = h /\ Identity(p, st, m, h).manager = m
    BY DEF Identity
  <2>. QED BY <2>1, <2>2
<1> HIDE DEF n, Made
<1>7. PeopleEquipped(emp)
  <2>1. \A i \in 1..n : emp[i] \in Employee
    BY <1>5 DEF Equipped
  <2>2. emp = [i \in 1..n |-> emp[i]]
    BY <1>3, <1>4
  <2>3. emp \in Seq(Employee)
    BY <1>0, <2>1, <2>2, SMTT(30)
  <2>. QED BY <2>3, <1>4, <1>5 DEF PeopleEquipped, Ids
<1>8. Booked(meta, emp)
  <2>1. \A i \in 1..n : Entries(i, emp[i].held) = Entries(i, held[i])
    BY <1>6
  <2>2. {Entries(i, emp[i].held) : i \in 1..n} = {Entries(i, held[i]) : i \in 1..n}
    BY <2>1
  <2>. QED BY <2>2, <1>3, <1>4 DEF Booked, Ids
<1>9. OrphansKnown(emp, orphans, partial)
  BY DEF Init, OrphansKnown, Ids
<1>10. Followed(told, emp, partial)
  <2>1. told = [i \in 1..n |-> {}] /\ partial = 1..n
    BY <1>4 DEF Init
  <2>2. told \in Seq(SUBSET Grant) /\ Len(told) = n
    BY <2>1, <1>0
  <2>3. Len(emp) = n /\ DOMAIN emp = 1..n
    BY <1>0, <1>4, <1>7 DEF PeopleEquipped, Ids
  <2>. QED BY <2>1, <2>2, <2>3 DEF Followed
<1>11. BagsFollow(bag, emp)
  <2> DEFINE list == [i \in 1..n |-> i]
  <2>1. list \in Seq(Nat) /\ IsInjective(list) /\ ToSet(list) = 1..n
    BY <1>0 DEF IsInjective, ToSet
  <2> HIDE DEF list
  <2>2. bag = [site \in Sites |-> BagOf(Selected(list, ActiveAt(emp, site)))]
    BY <1>3, <1>4 DEF list
  <2>3. ASSUME NEW site \in Sites
        PROVE  IsBag(bag[site]) /\ Samples(bag[site]) = ActiveAt(emp, site)
    <3> DEFINE here == Selected(list, ActiveAt(emp, site))
    <3>1. ActiveAt(emp, site) \subseteq 1..n
      BY <1>4 DEF ActiveAt, Ids
    <3>2. here \in Seq(Nat) /\ IsInjective(here) /\ ToSet(here) = ToSet(list) \cap ActiveAt(emp, site)
      BY <2>1, SelectedElements
    <3>3. bag[site] = BagOf(here)
      BY <2>2
    <3> HIDE DEF here
    <3>4. IsBag(BagOf(here)) /\ Samples(BagOf(here)) = ToSet(here)
      BY <3>2, BagOfList
    <3>. QED BY <3>1, <3>2, <3>3, <3>4, <2>1
  <2>. QED BY <2>2, <2>3 DEF BagsFollow
<1>12. Acyclic(emp)
  <2>1. ASSUME NEW group \in SUBSET Ids, group # {}, \A i \in group : emp[i].manager \in group
        PROVE  FALSE
    <3>1. group \in SUBSET 1..n /\ \A i \in group : manager[i] \in group
      BY <2>1, <1>4, <1>6
    <3>2. \A i \in 1..n : planned[i].profile.grade \in Grades
      BY <1>2 DEF Reachable
    <3>. QED BY <3>1, <3>2, <2>1, <1>2, <1>3, SeededAcyclic DEF n
  <2>2. \A i \in Ids : emp[i].manager \in Ids \cup {None}
    BY <1>3, <1>4, <1>6
  <2>3. \A group \in (SUBSET Ids) \ {{}} : \E i \in group : emp[i].manager \notin group
    <3> TAKE group \in (SUBSET Ids) \ {{}}
    <3>. QED BY <2>1
  <2>. QED BY <2>2, <2>3, Zenon DEF Acyclic, Ids
<1>. QED BY <1>7, <1>8, <1>9, <1>10, <1>11, <1>12 DEF Inv

-----------------------------------------------------------------------------
(* The mutations of the pool keep the invariant.                           *)

\* An identity of the pool.
LEMMA OneOfThem ==
  ASSUME Inv, NEW id \in Ids
  PROVE  /\ Equipped(emp[id]) /\ emp[id] \in Employee /\ emp[id].held \in Seq(Grant)
         /\ id \in Nat /\ None \notin Ids /\ emp[id].location \in Sites
         /\ emp[id].status \in Statuses /\ emp[id].manager \in Nat \cup {None}
         /\ Ids = 1..Len(emp) /\ Len(emp) \in Nat
<1>1. emp \in Seq(Employee) /\ Equipped(emp[id])
  BY DEF Inv, PeopleEquipped, Ids
<1>2. Ids = 1..Len(emp) /\ Len(emp) \in Nat
  BY <1>1 DEF Ids
<1>3. emp[id] \in Employee
  BY <1>1 DEF Equipped
<1>4. id \in Nat /\ None \notin Ids
  BY <1>2, PoolAssumption
<1>. QED BY <1>1, <1>2, <1>3, <1>4 DEF Employee

\* A recomputation: a transfer, a promotion and a rehire.
LEMMA RecomputeStep ==
  ASSUME Inv, NEW id \in Ids, NEW p \in Reachable, p.location \in Sites, NEW status \in Statuses
  PROVE  LET next == [emp EXCEPT ![id] =
                        Identity(p, status, emp[id].manager, Recomputed(id, p))]
         IN  /\ PeopleEquipped(next) /\ DOMAIN next = Ids /\ Len(next) = Len(emp)
             /\ \A i \in Ids \ {id} : next[i] = emp[i]
             /\ next[id].held \in Seq(Grant) /\ next[id].status = status
             /\ next[id].type = p.type /\ next[id].location = p.location
             /\ Booked(RecomputedBook(id, p), next) /\ Acyclic(next)
<1> DEFINE held == Recomputed(id, p)
           m    == emp[id].manager
           e    == Identity(p, status, m, held)
           next == [emp EXCEPT ![id] = e]
<1>1. /\ PeopleEquipped(emp) /\ Booked(meta, emp) /\ Acyclic(emp)
      /\ m \in Nat \cup {None}
  BY OneOfThem DEF Inv
<1> HIDE DEF m
<1>2. /\ held \in Seq(Grant) /\ Equipped(e)
      /\ RecomputedBook(id, p) = (meta \ Entries(id, emp[id].held)) \cup Entries(id, held)
  BY <1>1, RecomputedEquipped
<1> HIDE DEF held
<1>3. /\ e.held = held /\ e.status = status /\ e.type = p.type /\ e.location = p.location
      /\ e.manager = m
  BY DEF Identity
<1> HIDE DEF e
<1>5. /\ PeopleEquipped(next) /\ DOMAIN next = Ids /\ Len(next) = Len(emp)
      /\ next[id] = e /\ \A i \in Ids \ {id} : next[i] = emp[i]
  <2>1. id \in DOMAIN emp /\ PeopleEquipped(emp) /\ Equipped(e)
    BY <1>1, <1>2 DEF Ids
  <2>. QED BY <2>1, ReplaceEquipped DEF Ids
<1> HIDE DEF next
<1>6. RecomputedBook(id, p) = (meta \ Entries(id, emp[id].held)) \cup Entries(id, next[id].held)
  BY <1>2, <1>3, <1>5
<1>7. Booked(RecomputedBook(id, p), next)
  BY <1>1, <1>5, <1>6, ReplaceBooked DEF Ids
<1>8. Acyclic(next)
  <2>1. \A i \in Ids : next[i].manager = emp[i].manager
    BY <1>3, <1>5 DEF m
  <2>. QED BY <2>1, <1>1, <1>5, SameAcyclic DEF Ids
<1>9. next[id].held \in Seq(Grant)
  BY <1>2, <1>3, <1>5
<1>. QED BY <1>3, <1>5, <1>7, <1>8, <1>9 DEF next, e, held, m

\* A strip: every grant is revoked and the identity leaves.
StripGives(next, id, status) ==
  /\ PeopleEquipped(next) /\ DOMAIN next = Ids /\ Len(next) = Len(emp)
  /\ \A i \in Ids \ {id} : next[i] = emp[i]
  /\ next[id].held = <<>> /\ next[id].status = status
  /\ next[id].manager = emp[id].manager
  /\ next[id].type = emp[id].type /\ next[id].location = emp[id].location
  /\ BagsFollow(Restatused(bag, id, status), next)
  /\ Booked(Stripped(id), next) /\ Acyclic(next)

LEMMA StripStep ==
  ASSUME Inv, NEW id \in Ids, NEW status \in {"terminated", "disabled"}
  PROVE  StripGives([emp EXCEPT ![id] = Gone(emp[id], status)], id, status)
<1> DEFINE old == emp[id]
           e == Gone(old, status)
           next == [emp EXCEPT ![id] = e]
<1>1. /\ PeopleEquipped(emp) /\ Booked(meta, emp) /\ Acyclic(emp) /\ BagsFollow(bag, emp)
      /\ Equipped(old) /\ id \in Nat /\ emp[id].location \in Sites
  BY OneOfThem DEF Inv
<1>2. /\ Equipped(e) /\ e.held = <<>> /\ e.status = status /\ e.manager = old.manager
      /\ e.type = old.type /\ e.location = old.location
  BY <1>1, EquippedStripped
<1> HIDE DEF old, e
<1>4. /\ PeopleEquipped(next) /\ DOMAIN next = Ids /\ Len(next) = Len(emp)
      /\ next[id] = e /\ \A i \in Ids \ {id} : next[i] = emp[i]
  <2>1. id \in DOMAIN emp /\ PeopleEquipped(emp) /\ Equipped(e)
    BY <1>1, <1>2 DEF Ids
  <2>. QED BY <2>1, ReplaceEquipped DEF Ids
<1> HIDE DEF next
<1>5. next[id].held = <<>> /\ next[id].status = status /\ next[id].manager = emp[id].manager
      /\ next[id].type = emp[id].type /\ next[id].location = emp[id].location
  BY <1>2, <1>4 DEF old
<1>6. Stripped(id) = (meta \ Entries(id, emp[id].held)) \cup Entries(id, next[id].held)
  BY <1>5, StrippedEntries
<1>7. Booked(Stripped(id), next)
  BY <1>1, <1>4, <1>6, ReplaceBooked DEF Ids
<1>8. Acyclic(next)
  <2>1. \A i \in Ids : next[i].manager = emp[i].manager
    BY <1>4, <1>5
  <2>. QED BY <2>1, <1>1, <1>4, SameAcyclic DEF Ids
<1>9. BagsFollow(Restatused(bag, id, status), next)
  BY <1>1, <1>4, <1>5, RestatusFollows
<1>10. StripGives(next, id, status)
  BY <1>4, <1>5, <1>7, <1>8, <1>9 DEF StripGives
<1>. QED BY <1>10 DEF next, e, old

\* The two changes of a strip are one.
LEMMA StripIsGone ==
  ASSUME Inv, NEW id \in Ids, NEW status
  PROVE  [emp EXCEPT ![id].held = <<>>, ![id].status = status]
           = [emp EXCEPT ![id] = Gone(emp[id], status)]
BY DEF Inv, PeopleEquipped, Gone

\* A change of one identity that leaves nobody who left with something to hold.
LEMMA OrphansStay ==
  ASSUME Inv, NEW id \in Ids, NEW next, DOMAIN next = Ids,
         \A i \in Ids \ {id} : next[i] = emp[i],
         Leaver(next[id].status) => next[id].held = <<>>,
         NEW untold, partial \subseteq untold
  PROVE  OrphansKnown(next, orphans, untold)
BY DEF Inv, OrphansKnown, Ids

\* The saga of a change of one identity whose difference it is told.
LEMMA DifferenceTold ==
  ASSUME Inv, NEW id \in Ids, PeopleEquipped(emp'), DOMAIN emp' = Ids, Len(emp') = Len(emp),
         \A i \in Ids \ {id} : emp'[i] = emp[i], emp'[id].held \in Seq(Grant),
         Tell(id, Lost(emp[id].held, emp'[id].held), Lost(emp'[id].held, emp[id].held))
  PROVE  Followed(told', emp', partial') /\ partial \subseteq partial'
<1> DEFINE before == emp[id].held
           after  == emp'[id].held
           revoked == Lost(before, after)
           granted == Lost(after, before)
<1>1. /\ before \in Seq(Grant) /\ after \in Seq(Grant)
      /\ Followed(told, emp, partial) /\ PeopleEquipped(emp) /\ emp' \in Seq(Employee)
  BY OneOfThem DEF Inv, PeopleEquipped
<1>2. /\ revoked \in Seq(Grant) /\ granted \in Seq(Grant)
      /\ (ToSet(before) \ ToSet(revoked)) \cup ToSet(granted) = ToSet(after)
  BY <1>1, LostAndGained
<1>3. /\ told' = [told EXCEPT ![id] = Follow(revoked, granted, @)]
      /\ partial' = IF Fits(revoked, granted) THEN partial ELSE partial \cup {id}
  BY DEF Tell
<1> HIDE DEF revoked, granted
<1>4. Followed(told', emp', partial')
  <2> DEFINE next == emp'
             t == told'
             except == partial'
  <2>1. /\ next \in Seq(Employee) /\ Len(next) = Len(emp) /\ DOMAIN next = Ids
        /\ \A i \in Ids \ {id} : next[i] = emp[i]
        /\ ToSet(next[id].held) = (ToSet(emp[id].held) \ ToSet(revoked)) \cup ToSet(granted)
        /\ t = [told EXCEPT ![id] = Follow(revoked, granted, @)]
        /\ except = IF Fits(revoked, granted) THEN partial ELSE partial \cup {id}
    BY <1>1, <1>2, <1>3
  <2> HIDE DEF next, t, except
  <2>2. Followed(t, next, except)
    BY <1>1, <1>2, <2>1, TellFollows
  <2>. QED BY <2>2 DEF next, t, except
<1>. QED BY <1>3, <1>4

\* The saga of an identity that left with nothing.
LEMMA StripTold ==
  ASSUME Inv, NEW id \in Ids, PeopleEquipped(emp'), DOMAIN emp' = Ids, Len(emp') = Len(emp),
         \A i \in Ids \ {id} : emp'[i] = emp[i], emp'[id].held = <<>>,
         Tell(id, emp[id].held, <<>>)
  PROVE  Followed(told', emp', partial') /\ partial \subseteq partial'
<1> DEFINE before == emp[id].held
           nothing == <<>>
<1>1. /\ before \in Seq(Grant)
      /\ Followed(told, emp, partial) /\ PeopleEquipped(emp) /\ emp' \in Seq(Employee)
  BY OneOfThem DEF Inv, PeopleEquipped
<1>2. nothing \in Seq(Grant) /\ ToSet(nothing) = {}
  BY DEF ToSet
<1>3. /\ told' = [told EXCEPT ![id] = Follow(before, nothing, @)]
      /\ partial' = IF Fits(before, nothing) THEN partial ELSE partial \cup {id}
  BY DEF Tell
<1>4. emp'[id].held = nothing
  OBVIOUS
<1> HIDE DEF nothing
<1>5. ToSet(emp'[id].held) = (ToSet(emp[id].held) \ ToSet(before)) \cup ToSet(nothing)
  BY <1>2, <1>4
<1>6. Followed(told', emp', partial')
  <2> DEFINE next == emp'
             t == told'
             except == partial'
  <2>1. /\ next \in Seq(Employee) /\ Len(next) = Len(emp) /\ DOMAIN next = Ids
        /\ \A i \in Ids \ {id} : next[i] = emp[i]
        /\ ToSet(next[id].held) = (ToSet(emp[id].held) \ ToSet(before)) \cup ToSet(nothing)
        /\ t = [told EXCEPT ![id] = Follow(before, nothing, @)]
        /\ except = IF Fits(before, nothing) THEN partial ELSE partial \cup {id}
    BY <1>1, <1>3, <1>5
  <2> HIDE DEF next, t, except
  <2>2. Followed(t, next, except)
    BY <1>1, <1>2, <2>1, TellFollows
  <2>. QED BY <2>2 DEF next, t, except
<1>. QED BY <1>3, <1>6

-----------------------------------------------------------------------------
(* The events keep the invariant.                                          *)

\* A transfer: another division, maybe another site, and the baseline of both.
LEMMA TransferKeeps ==
  ASSUME Inv, NEW id \in Ids, MoverTransfer(id)
  PROVE  Inv'
<1>1. PICK division \in Departments \ {emp[id].division}, site \in Sites :
        /\ Transfer(id, division, site)
        /\ Tell(id, Lost(emp[id].held, emp'[id].held), Lost(emp'[id].held, emp[id].held))
  BY DEF MoverTransfer
<1> DEFINE p == [ProfileOf(emp[id]) EXCEPT !.division = division, !.location = site]
           st == emp[id].status
           next == [emp EXCEPT ![id] = Identity(p, st, emp[id].manager, Recomputed(id, p))]
<1>2. st \in ActiveLike /\ orphans' = orphans
  BY DEF MoverTransfer, EligibleFrom, Count
<1>3. /\ emp[id] \in Employee /\ emp[id].location \in Sites /\ st \in Statuses /\ id \in Nat
      /\ BagsFollow(bag, emp)
  BY OneOfThem DEF Inv
<1>4. p \in Reachable /\ p.location = site /\ p.type = emp[id].type
  <2> DEFINE own == ProfileOf(emp[id])
  <2>1. own \in Reachable /\ own.type = emp[id].type
    BY <1>3, ProfileReachable
  <2>2. division \in Divisions /\ site \in Locations
    BY DrawnFromOrganisation
  <2> HIDE DEF own
  <2>3. /\ [own EXCEPT !.division = division, !.location = site] \in Reachable
        /\ [own EXCEPT !.division = division, !.location = site].location = site
        /\ [own EXCEPT !.division = division, !.location = site].type = own.type
    BY <2>1, <2>2 DEF Reachable
  <2>. QED BY <2>1, <2>3 DEF own
<1>5. emp' = next /\ bag' = Moved(id, site) /\ meta' = RecomputedBook(id, p)
  BY <1>1 DEF Transfer
<1> HIDE DEF p, st
<1>6. /\ PeopleEquipped(next) /\ DOMAIN next = Ids /\ Len(next) = Len(emp)
      /\ \A i \in Ids \ {id} : next[i] = emp[i]
      /\ next[id].held \in Seq(Grant) /\ next[id].status = st
      /\ next[id].type = p.type /\ next[id].location = p.location
      /\ Booked(RecomputedBook(id, p), next) /\ Acyclic(next)
  BY <1>3, <1>4, RecomputeStep
<1> HIDE DEF next
<1>7. BagsFollow(Moved(id, site), next)
  BY <1>3, <1>4, <1>6, MoveFollows DEF st
<1>8. Followed(told', emp', partial') /\ partial \subseteq partial'
  BY <1>1, <1>5, <1>6, DifferenceTold
<1>9. ~Leaver(next[id].status)
  BY <1>2, <1>6 DEF ActiveLike, Leaver
<1>10. OrphansKnown(next, orphans, partial')
  BY <1>6, <1>8, <1>9, OrphansStay
<1>. QED BY <1>2, <1>5, <1>6, <1>7, <1>8, <1>10 DEF Inv

\* A change that leaves each identity's type, status and site alone.
LEMMA BagsStay ==
  ASSUME BagsFollow(bag, emp), NEW who, DOMAIN who = Ids,
         \A i \in Ids : /\ who[i].type = emp[i].type /\ who[i].status = emp[i].status
                        /\ who[i].location = emp[i].location
  PROVE  BagsFollow(bag, who)
<1>1. \A site \in Sites : ActiveAt(who, site) = ActiveAt(emp, site)
  BY DEF ActiveAt, Human, Ids
<1>. QED BY <1>1 DEF BagsFollow

\* A promotion: the next grade, which may bring and take templates.
LEMMA PromotionKeeps ==
  ASSUME Inv, NEW id \in Ids, MoverPromotion(id)
  PROVE  Inv'
<1> DEFINE grade == NextGrade(emp[id].grade)
           p == [ProfileOf(emp[id]) EXCEPT !.grade = grade]
           st == emp[id].status
           next == [emp EXCEPT ![id] = Identity(p, st, emp[id].manager, Recomputed(id, p))]
<1>1. /\ Promote(id, grade)
      /\ Tell(id, Lost(emp[id].held, emp'[id].held), Lost(emp'[id].held, emp[id].held))
  BY DEF MoverPromotion
<1>2. IsActiveLike(st) /\ orphans' = orphans
  BY DEF MoverPromotion, Count
<1>3. /\ emp[id] \in Employee /\ emp[id].location \in Sites /\ st \in Statuses /\ id \in Nat
      /\ BagsFollow(bag, emp)
  BY OneOfThem DEF Inv
<1>4. p \in Reachable /\ p.location = emp[id].location /\ p.type = emp[id].type
  <2> DEFINE own == ProfileOf(emp[id])
  <2>1. own \in Reachable /\ own.type = emp[id].type /\ own.location = emp[id].location
    BY <1>3, ProfileReachable
  <2>2. grade \in Grades
    <3>1. emp[id].grade \in Grades
      BY <1>3 DEF Employee
    <3>2. Seniority(emp[id].grade) + 1 \in 1..8
      BY <3>1, SeniorityBounds
    <3>3. \A i \in 1..8 : GradeOrder[IF i = 8 THEN 8 ELSE i + 1] \in Grades
      <4>1. \A i \in 1..8 : (IF i = 8 THEN 8 ELSE i + 1) \in 1..8
        OBVIOUS
      <4>. QED BY <4>1 DEF Grades
    <3>. QED BY <3>2, <3>3 DEF NextGrade
  <2> HIDE DEF own, grade
  <2>3. /\ [own EXCEPT !.grade = grade] \in Reachable
        /\ [own EXCEPT !.grade = grade].location = own.location
        /\ [own EXCEPT !.grade = grade].type = own.type
    BY <2>1, <2>2 DEF Reachable
  <2>. QED BY <2>1, <2>3 DEF own
<1>5. emp' = next /\ bag' = bag /\ meta' = RecomputedBook(id, p)
  BY <1>1 DEF Promote
<1> HIDE DEF p, st
<1>6. /\ PeopleEquipped(next) /\ DOMAIN next = Ids /\ Len(next) = Len(emp)
      /\ \A i \in Ids \ {id} : next[i] = emp[i]
      /\ next[id].held \in Seq(Grant) /\ next[id].status = st
      /\ next[id].type = p.type /\ next[id].location = p.location
      /\ Booked(RecomputedBook(id, p), next) /\ Acyclic(next)
  BY <1>3, <1>4, RecomputeStep
<1> HIDE DEF next
<1>7. BagsFollow(bag, next)
  <2>1. \A i \in Ids : /\ next[i].type = emp[i].type /\ next[i].status = emp[i].status
                       /\ next[i].location = emp[i].location
    BY <1>4, <1>6 DEF st
  <2>. QED BY <2>1, <1>3, <1>6, BagsStay
<1>8. Followed(told', emp', partial') /\ partial \subseteq partial'
  BY <1>1, <1>5, <1>6, DifferenceTold
<1>9. ~Leaver(next[id].status)
  BY <1>2, <1>6 DEF IsActiveLike, Leaver
<1>10. OrphansKnown(next, orphans, partial')
  BY <1>6, <1>8, <1>9, OrphansStay
<1>. QED BY <1>2, <1>5, <1>6, <1>7, <1>8, <1>10 DEF Inv

\* A new manager, unless the identity is above it.
LEMMA ManagerChangeKeeps ==
  ASSUME Inv, NEW id \in Ids, MoverManagerChange(id)
  PROVE  Inv'
<1>1. PICK manager \in Ids \ {id} : ChangeManager(id, manager)
  BY DEF MoverManagerChange
<1>2. /\ UNCHANGED <<bag, meta, told, partial, orphans>>
  BY <1>1 DEF MoverManagerChange, ChangeManager, Count
<1>3. CASE WouldCycle(id, manager)
  <2>1. emp' = emp
    BY <1>1, <1>3 DEF ChangeManager
  <2>. QED BY <2>1, <1>2 DEF Inv
<1>4. CASE ~WouldCycle(id, manager)
  <2> DEFINE old == emp[id]
             e == [old EXCEPT !.manager = manager]
             next == [emp EXCEPT ![id] = e]
  <2>1. emp' = next
    BY <1>1, <1>4 DEF ChangeManager
  <2>2. /\ old \in Employee /\ Equipped(old) /\ manager \in Nat /\ None \notin Ids
        /\ PeopleEquipped(emp) /\ BagsFollow(bag, emp) /\ Booked(meta, emp) /\ Acyclic(emp)
        /\ Followed(told, emp, partial)
    BY OneOfThem DEF Inv
  <2> HIDE DEF old
  <2>3. /\ e \in Employee /\ e.manager = manager /\ e.held = old.held /\ e.status = old.status
        /\ e.type = old.type /\ e.location = old.location
        /\ ProfileOf(e) = ProfileOf(old)
    BY <2>2 DEF Employee, ProfileOf
  <2> HIDE DEF e
  <2>4. Equipped(e)
    BY <2>2, <2>3 DEF Equipped
  <2>5. /\ PeopleEquipped(next) /\ DOMAIN next = Ids /\ Len(next) = Len(emp)
        /\ next[id] = e /\ \A i \in Ids \ {id} : next[i] = emp[i]
    <3>1. id \in DOMAIN emp
      BY DEF Ids
    <3>. QED BY <3>1, <2>2, <2>4, ReplaceEquipped DEF Ids
  <2> HIDE DEF next
  <2>6. \A i \in Ids : /\ next[i].held = emp[i].held /\ next[i].status = emp[i].status
                       /\ next[i].type = emp[i].type /\ next[i].location = emp[i].location
    BY <2>3, <2>5 DEF old
  <2>7. BagsFollow(bag, next)
    BY <2>2, <2>5, <2>6, BagsStay
  <2>8. Booked(meta, next)
    <3>1. {Entries(i, next[i].held) : i \in Ids} = {Entries(i, emp[i].held) : i \in Ids}
      BY <2>6
    <3>. QED BY <3>1, <2>2, <2>5 DEF Booked, Ids
  <2>9. Followed(told, next, partial)
    BY <2>2, <2>5, <2>6 DEF Followed, Ids
  <2>10. OrphansKnown(next, orphans, partial)
    BY <2>5, <2>6 DEF Inv, OrphansKnown, Ids
  <2>11. Acyclic(next)
    <3>1. next[id].manager = manager /\ \A i \in Ids \ {id} : next[i].manager = emp[i].manager
      BY <2>3, <2>5
    <3>2. manager \in Ids
      BY <1>1
    <3>. QED BY <3>1, <3>2, <1>4, <2>2, <2>5, ReportAcyclic
  <2>. QED BY <1>2, <2>1, <2>5, <2>7, <2>8, <2>9, <2>10, <2>11 DEF Inv
<1>. QED BY <1>3, <1>4

\* A leave: out of the bag, the grants stay.
LEMMA LoaKeeps ==
  ASSUME Inv, NEW id \in Ids, LeaverLoa(id)
  PROVE  Inv'
<1> DEFINE old == emp[id]
           away == "on_leave"
           e == [old EXCEPT !.status = away]
           next == [emp EXCEPT ![id] = e]
<1>1. /\ emp' = next /\ bag' = Restatused(bag, id, away) /\ old.status = "active"
      /\ UNCHANGED <<meta, told, partial, orphans>>
  BY DEF LeaverLoa, ApplyLoa, SetStatus, Count
<1>2. /\ old \in Employee /\ Equipped(old) /\ away \in Statuses /\ id \in Nat
      /\ PeopleEquipped(emp) /\ BagsFollow(bag, emp) /\ Booked(meta, emp) /\ Acyclic(emp)
      /\ Followed(told, emp, partial) /\ emp[id].location \in Sites
  BY OneOfThem DEF Inv, Statuses
<1> HIDE DEF old, away
<1>3. /\ e \in Employee /\ e.manager = old.manager /\ e.held = old.held /\ e.status = away
      /\ e.type = old.type /\ e.location = old.location
      /\ ProfileOf(e) = ProfileOf(old)
  BY <1>2 DEF Employee, ProfileOf
<1>0. ~Leaver(away) /\ ~Leaver(old.status)
  BY <1>1 DEF Leaver, away
<1> HIDE DEF e
<1>4. Equipped(e)
  BY <1>0, <1>2, <1>3 DEF Equipped
<1>5. /\ PeopleEquipped(next) /\ DOMAIN next = Ids /\ Len(next) = Len(emp)
      /\ next[id] = e /\ \A i \in Ids \ {id} : next[i] = emp[i]
  <2>1. id \in DOMAIN emp
    BY DEF Ids
  <2>. QED BY <2>1, <1>2, <1>4, ReplaceEquipped DEF Ids
<1> HIDE DEF next
<1>6. \A i \in Ids : next[i].held = emp[i].held /\ next[i].manager = emp[i].manager
  BY <1>3, <1>5 DEF old
<1>7. BagsFollow(Restatused(bag, id, away), next)
  <2>1. /\ next[id].type = emp[id].type /\ next[id].location = emp[id].location
        /\ next[id].status = away
    BY <1>3, <1>5 DEF old
  <2>. QED BY <2>1, <1>2, <1>5, RestatusFollows
<1>8. Booked(meta, next)
  <2>1. {Entries(i, next[i].held) : i \in Ids} = {Entries(i, emp[i].held) : i \in Ids}
    BY <1>6
  <2>. QED BY <2>1, <1>2, <1>5 DEF Booked, Ids
<1>9. Followed(told, next, partial)
  BY <1>2, <1>5, <1>6 DEF Followed, Ids
<1>10. OrphansKnown(next, orphans, partial)
  BY <1>0, <1>3, <1>5 DEF Inv, OrphansKnown, Ids
<1>11. Acyclic(next)
  BY <1>2, <1>5, <1>6, SameAcyclic DEF Ids
<1>. QED BY <1>1, <1>5, <1>7, <1>8, <1>9, <1>10, <1>11 DEF Inv

\* A termination, with a saga or by an injector without one, and an expiry.
LEMMA TerminationKeeps ==
  ASSUME Inv, NEW id \in Ids, NEW immediate \in BOOLEAN, ApplyTermination(id, immediate),
         \/ Tell(id, emp[id].held, <<>>)
         \/ partial' = partial \cup {id} /\ UNCHANGED told,
         UNCHANGED orphans
  PROVE  Inv'
<1> DEFINE status == IF immediate THEN "disabled" ELSE "terminated"
           next == [emp EXCEPT ![id] = Gone(emp[id], status)]
<1>1. emp' = next /\ bag' = Restatused(bag, id, status) /\ meta' = Stripped(id)
  BY StripIsGone DEF ApplyTermination
<1>2. status \in {"terminated", "disabled"}
  OBVIOUS
<1> HIDE DEF status
<1>0. StripGives(next, id, status)
  BY <1>2, StripStep
<1> HIDE DEF next
<1>3. /\ PeopleEquipped(next) /\ DOMAIN next = Ids /\ Len(next) = Len(emp)
      /\ \A i \in Ids \ {id} : next[i] = emp[i]
      /\ next[id].held = <<>> /\ next[id].status = status
      /\ BagsFollow(Restatused(bag, id, status), next)
      /\ Booked(Stripped(id), next) /\ Acyclic(next)
  BY <1>0 DEF StripGives
<1>4. Followed(told', emp', partial') /\ partial \subseteq partial'
  <2>1. CASE Tell(id, emp[id].held, <<>>)
    BY <2>1, <1>1, <1>3, StripTold
  <2>2. CASE partial' = partial \cup {id} /\ UNCHANGED told
    <3>1. Followed(told, emp, partial)
      BY DEF Inv
    <3>. QED BY <2>2, <3>1, <1>1, <1>3 DEF Followed, Ids
  <2>. QED BY <2>1, <2>2
<1>5. OrphansKnown(next, orphans, partial')
  BY <1>3, <1>4, OrphansStay
<1>. QED BY <1>1, <1>3, <1>4, <1>5 DEF Inv

\* A rehire: the target is told what is restored, and whoever it knows of had
\* nothing left.
LEMMA RehireKeeps ==
  ASSUME Inv, NEW id \in Ids, Rehire(id)
  PROVE  Inv'
<1> DEFINE p == ProfileOf(emp[id])
           back == "active"
           next == [emp EXCEPT ![id] = Identity(p, back, emp[id].manager, Recomputed(id, p))]
           before == emp[id].held
           after  == next[id].held
           revoked == <<>>
           granted == Lost(after, before)
<1>1. /\ emp' = next /\ bag' = Restatused(bag, id, back) /\ meta' = RecomputedBook(id, p)
      /\ orphans' = orphans /\ emp[id].status = "terminated"
      /\ Tell(id, <<>>, Lost(emp'[id].held, emp[id].held))
  BY DEF Rehire, ApplyRehire, Count
<1>2. /\ emp[id] \in Employee /\ emp[id].location \in Sites /\ id \in Nat /\ back \in Statuses
      /\ before \in Seq(Grant) /\ PeopleEquipped(emp) /\ BagsFollow(bag, emp)
      /\ Followed(told, emp, partial) /\ OrphansKnown(emp, orphans, partial)
  BY OneOfThem DEF Inv, Statuses
<1>3. p \in Reachable /\ p.location = emp[id].location /\ p.type = emp[id].type
  BY <1>2, ProfileReachable
<1>4. ~Leaver(back)
  BY DEF Leaver
<1> HIDE DEF p, back
<1>6. /\ PeopleEquipped(next) /\ DOMAIN next = Ids /\ Len(next) = Len(emp)
      /\ \A i \in Ids \ {id} : next[i] = emp[i]
      /\ next[id].held \in Seq(Grant) /\ next[id].status = back
      /\ next[id].type = p.type /\ next[id].location = p.location
      /\ Booked(RecomputedBook(id, p), next) /\ Acyclic(next)
  BY <1>2, <1>3, RecomputeStep
<1>5. Tell(id, revoked, granted)
  BY <1>1
<1> HIDE DEF next
<1>7. BagsFollow(Restatused(bag, id, back), next)
  BY <1>2, <1>3, <1>6, RestatusFollows
<1>8. revoked \in Seq(Grant) /\ ToSet(revoked) = {} /\ granted \in Seq(Grant)
      /\ ToSet(granted) = ToSet(after) \ ToSet(before)
  <2>1. /\ Lost(after, before) \in Seq(Grant)
        /\ ToSet(Lost(after, before)) = ToSet(after) \ ToSet(before)
    BY <1>2, <1>6, LostAndGained
  <2>2. <<>> \in Seq(Grant) /\ ToSet(<<>>) = {}
    BY DEF ToSet
  <2>. QED BY <2>1, <2>2, Zenon
<1> HIDE DEF revoked, granted
<1>9. id \notin partial => ToSet(after) = (ToSet(before) \ ToSet(revoked)) \cup ToSet(granted)
  <2> SUFFICES ASSUME id \notin partial
               PROVE  ToSet(after) = (ToSet(before) \ ToSet(revoked)) \cup ToSet(granted)
    OBVIOUS
  <2>1. before = <<>>
    BY <1>1, <1>2 DEF OrphansKnown, Leaver, Ids
  <2>2. ToSet(before) = {}
    BY <2>1 DEF ToSet
  <2>. QED BY <2>2, <1>8
<1>10. Followed(told', next, partial') /\ partial \subseteq partial'
  <2> DEFINE t == told'
             except == partial'
  <2>1. /\ t = [told EXCEPT ![id] = Follow(revoked, granted, @)]
        /\ except = IF Fits(revoked, granted) THEN partial ELSE partial \cup {id}
    BY <1>5 DEF Tell
  <2>2. next \in Seq(Employee)
    BY <1>6 DEF PeopleEquipped
  <2> HIDE DEF t, except
  <2>3. Followed(t, next, except)
    BY <1>2, <1>6, <1>8, <1>9, <2>1, <2>2, TellFollows
  <2>. QED BY <2>1, <2>3 DEF t, except
<1>11. OrphansKnown(next, orphans, partial')
  BY <1>4, <1>6, <1>10, OrphansStay
<1>. QED BY <1>1, <1>6, <1>7, <1>10, <1>11 DEF Inv

\* A hire: all that the newcomer holds is told at once.
LEMMA HireKeeps ==
  ASSUME Inv, JoinerHire
  PROVE  Inv'
<1>1. PICK p \in Profiles : \E manager \in HireManagers(p, {}) :
        Hire(p, "active", manager) /\ TellNew(Baseline(p), {})
  BY DEF JoinerHire
<1>0. PICK manager \in HireManagers(p, {}) :
        Hire(p, "active", manager) /\ TellNew(Baseline(p), {})
  BY <1>1
<1> DEFINE id == Len(emp) + 1
           status == "active"
           held == Baseline(p)
           e == Identity(p, status, manager, held)
           next == Append(emp, e)
<1>2. /\ orphans' = orphans /\ emp' = next /\ bag' = Inserted(id, e)
      /\ meta' = meta \cup Entries(id, e.held)
  BY <1>0 DEF JoinerHire, Count, Hire
<1>3. /\ PeopleEquipped(emp) /\ BagsFollow(bag, emp) /\ Booked(meta, emp) /\ Acyclic(emp)
      /\ Followed(told, emp, partial) /\ OrphansKnown(emp, orphans, partial)
  BY DEF Inv
<1>4. /\ p \in Reachable /\ p.location \in Sites /\ status \in Statuses /\ ~Leaver(status)
  BY DrawnFromOrganisation DEF Statuses, Leaver
<1>5. emp \in Seq(Employee) /\ Ids = 1..Len(emp) /\ Len(emp) \in Nat
  BY <1>3 DEF PeopleEquipped, Ids
<1>6. manager \in Ids \cup {None} /\ manager \in Nat \cup {None} /\ None \notin Ids /\ id # None
  <2>1. manager \in Ids \cup {None}
    BY DEF HireManagers
  <2>. QED BY <2>1, <1>5, PoolAssumption
<1>7. held \in Seq(Grant)
  BY <1>4, BaselineGrants
<1>8. Equipped(e)
  BY <1>4, <1>6, EquippedByBaseline
<1> HIDE DEF held, status
<1>9. e.held = held /\ e.manager = manager /\ e.location = p.location /\ e.status = status
  BY DEF Identity
<1> HIDE DEF e
<1>10. /\ PeopleEquipped(next) /\ Len(next) = Len(emp) + 1
       /\ DOMAIN next = Ids \cup {id} /\ id \notin Ids /\ id \in Nat
       /\ next[id] = e /\ \A i \in Ids : next[i] = emp[i]
  <2>2. /\ PeopleEquipped(next) /\ Len(next) = Len(emp) + 1
        /\ DOMAIN next = DOMAIN emp \cup {Len(emp) + 1} /\ Len(emp) + 1 \notin DOMAIN emp
        /\ next[Len(emp) + 1] = e /\ \A i \in DOMAIN emp : next[i] = emp[i]
    BY <1>3, <1>8, JoinEquipped
  <2>3. Len(emp) + 1 \in Nat
    BY <1>5
  <2>. QED BY <2>2, <2>3 DEF Ids
<1> HIDE DEF next
<1>11. BagsFollow(Inserted(id, e), next)
  <2> HIDE DEF id
  <2>. QED BY <1>3, <1>4, <1>9, <1>10, InsertFollows
<1>12. Booked(meta \cup Entries(id, e.held), next)
  BY <1>3, <1>10, JoinBooked DEF Ids
<1>13. Acyclic(next)
  <2> HIDE DEF id
  <2>. QED BY <1>3, <1>6, <1>9, <1>10, JoinAcyclic DEF Ids
<1>14. Followed(told', next, partial') /\ partial \subseteq partial'
  <2> DEFINE t == told'
             except == partial'
             untold == {}
  <2>1. /\ t = Append(told, Follow(<<>>, held, {}))
        /\ except = partial \cup untold \cup (IF Fits(<<>>, held) THEN {} ELSE {Len(emp) + 1})
    BY <1>0 DEF TellNew, held
  <2>2. next \in Seq(Employee) /\ next[Len(emp) + 1].held = held
    BY <1>9, <1>10 DEF PeopleEquipped
  <2>3. \A i \in Ids \ untold : next[i] = emp[i]
    BY <1>10
  <2> HIDE DEF t, except, untold
  <2>4. Followed(t, next, except)
    BY <1>3, <1>5, <1>7, <1>10, <2>1, <2>2, <2>3, TellNewFollows
  <2>. QED BY <2>1, <2>4 DEF t, except
<1>15. OrphansKnown(next, orphans, partial')
  BY <1>3, <1>4, <1>9, <1>10, <1>14 DEF OrphansKnown, Ids
<1>. QED BY <1>2, <1>10, <1>11, <1>12, <1>13, <1>14, <1>15 DEF Inv

\* A conversion: the old record is stripped, the new one joins under its manager.
LEMMA ConversionKeeps ==
  ASSUME Inv, NEW id \in Ids, ContractorConvert(id)
  PROVE  Inv'
<1> DEFINE old == emp[id]
           n == Len(emp) + 1
           p == Converted(old, "FTE")
           gone == "disabled"
           starts == "onboarding"
           stripped == [emp EXCEPT ![id] = Gone(emp[id], gone)]
<1>1. PICK manager \in IF old.manager = None THEN HireManagers(p, {id}) ELSE {old.manager} :
        LET new == Identity(p, starts, manager, Baseline(p)) IN
          /\ emp' = Append([emp EXCEPT ![id].held = <<>>, ![id].status = gone], new)
          /\ bag' = Restatused(bag, id, gone)
          /\ meta' = Stripped(id) \cup Entries(n, new.held)
  BY DEF ContractorConvert, ApplyConversion
<1> DEFINE held == Baseline(p)
           new == Identity(p, starts, manager, held)
           next == Append(stripped, new)
<1>2. /\ emp' = next /\ bag' = Restatused(bag, id, gone)
      /\ meta' = Stripped(id) \cup Entries(n, new.held)
  BY <1>1, StripIsGone
<1>3. orphans' = orphans /\ TellNew(Last(emp').held, {id})
  BY DEF ContractorConvert, Count
<1>4. /\ old \in Employee /\ id \in Nat /\ old.location \in Sites /\ old.manager \in Nat \cup {None}
      /\ PeopleEquipped(emp) /\ BagsFollow(bag, emp) /\ Acyclic(emp)
      /\ Followed(told, emp, partial) /\ OrphansKnown(emp, orphans, partial)
      /\ Ids = 1..Len(emp) /\ Len(emp) \in Nat /\ None \notin Ids
  BY OneOfThem DEF Inv
<1>5. p \in Reachable /\ p.location = old.location
  <2> DEFINE own == ProfileOf(old)
             type == "FTE"
             grade == IF type = "FTE" /\ own.grade = "Contractor" THEN "Associate" ELSE own.grade
  <2>1. own \in Reachable /\ own.location = old.location
    BY <1>4, ProfileReachable
  <2>2. type \in Types
    BY DEF Types
  <2>3. grade \in Grades
    <3>1. "Associate" \in Grades
      BY DEF Grades, GradeOrder
    <3>2. own.grade \in Grades
      BY <2>1 DEF Reachable
    <3>. QED BY <3>1, <3>2
  <2>4. p = [own EXCEPT !.type = type, !.grade = grade]
    BY <2>1 DEF Converted, Reachable
  <2> HIDE DEF own, type, grade, p
  <2>5. /\ [own EXCEPT !.type = type, !.grade = grade] \in Reachable
        /\ [own EXCEPT !.type = type, !.grade = grade].location = own.location
    BY <2>1, <2>2, <2>3 DEF Reachable
  <2>. QED BY <2>1, <2>4, <2>5
<1>6. /\ gone \in {"terminated", "disabled"} /\ starts \in Statuses
      /\ ~Leaver(starts) /\ starts # "active"
  BY DEF Statuses, Leaver
<1> HIDE DEF p, gone, starts
<1>7. manager \in Ids \cup {None} /\ manager \in Nat \cup {None}
  <2>1. old.manager \in Ids \cup {None}
    BY <1>4 DEF Acyclic, Ids
  <2>2. HireManagers(p, {id}) \subseteq Ids \cup {None}
    BY DEF HireManagers
  <2>3. manager \in Ids \cup {None}
    BY <2>1, <2>2
  <2>. QED BY <2>3, <1>4
<1>8. held \in Seq(Grant) /\ Equipped(new)
  BY <1>4, <1>5, <1>6, <1>7, BaselineGrants, EquippedByBaseline
<1> HIDE DEF held
<1>9. /\ new.held = held /\ new.manager = manager /\ new.location = p.location
      /\ new.status = starts
  BY DEF Identity
<1> HIDE DEF new
<1>10. StripGives(stripped, id, gone)
  BY <1>6, StripStep
<1> HIDE DEF stripped
<1>11. /\ PeopleEquipped(stripped) /\ DOMAIN stripped = Ids /\ Len(stripped) = Len(emp)
       /\ \A i \in Ids \ {id} : stripped[i] = emp[i]
       /\ stripped[id].held = <<>> /\ stripped[id].status = gone
       /\ stripped[id].type = emp[id].type /\ stripped[id].location = emp[id].location
       /\ Booked(Stripped(id), stripped) /\ Acyclic(stripped)
  BY <1>10 DEF StripGives
<1>12. /\ PeopleEquipped(next) /\ Len(next) = Len(emp) + 1
       /\ DOMAIN next = Ids \cup {n} /\ n \notin Ids /\ n \in Nat /\ n # None
       /\ next[n] = new /\ \A i \in Ids : next[i] = stripped[i]
  <2>2. /\ PeopleEquipped(next) /\ Len(next) = Len(stripped) + 1
        /\ DOMAIN next = DOMAIN stripped \cup {Len(stripped) + 1}
        /\ Len(stripped) + 1 \notin DOMAIN stripped
        /\ next[Len(stripped) + 1] = new
        /\ \A i \in DOMAIN stripped : next[i] = stripped[i]
    BY <1>8, <1>11, JoinEquipped
  <2>3. n \in Nat
    BY <1>4
  <2>. QED BY <2>2, <2>3, <1>11, PoolAssumption
<1> HIDE DEF next, n
<1>13. BagsFollow(Restatused(bag, id, gone), next)
  <2>1. \A i \in DOMAIN next \ Ids : ~Present(next[i])
    BY <1>6, <1>9, <1>12 DEF Present
  <2>2. /\ Ids \subseteq DOMAIN next /\ \A i \in Ids \ {id} : next[i] = emp[i]
        /\ next[id].type = emp[id].type /\ next[id].location = emp[id].location
        /\ next[id].status = gone
    BY <1>11, <1>12
  <2>. QED BY <1>4, <2>1, <2>2, RestatusFollows DEF old
<1>14. Booked(Stripped(id) \cup Entries(n, new.held), next)
  BY <1>11, <1>12, JoinBooked
<1>15. Acyclic(next)
  <2>1. /\ n \notin DOMAIN stripped /\ n # None /\ None \notin DOMAIN stripped
        /\ DOMAIN next = DOMAIN stripped \cup {n}
        /\ next[n].manager \in DOMAIN stripped \cup {None}
        /\ \A i \in DOMAIN stripped : next[i].manager = stripped[i].manager
    BY <1>4, <1>7, <1>9, <1>11, <1>12
  <2>. QED BY <2>1, <1>11, JoinAcyclic
<1>16. Last(next).held = held
  BY <1>9, <1>12 DEF Last, n
<1>17. Followed(told', next, partial') /\ partial \subseteq partial'
  <2> DEFINE t == told'
             except == partial'
             untold == {id}
  <2>1. TellNew(held, {id})
    BY <1>2, <1>3, <1>16
  <2>2. /\ t = Append(told, Follow(<<>>, held, {}))
        /\ except = partial \cup untold \cup (IF Fits(<<>>, held) THEN {} ELSE {Len(emp) + 1})
    BY <2>1 DEF TellNew
  <2>3. /\ next \in Seq(Employee) /\ next[Len(emp) + 1].held = held
        /\ DOMAIN next = Ids \cup {Len(emp) + 1} /\ Len(emp) + 1 \notin Ids
    BY <1>9, <1>12 DEF PeopleEquipped, n
  <2>4. \A i \in Ids \ untold : next[i] = emp[i]
    BY <1>11, <1>12
  <2> HIDE DEF t, except, untold
  <2>5. Followed(t, next, except)
    BY <1>4, <1>8, <1>12, <2>2, <2>3, <2>4, TellNewFollows
  <2>. QED BY <2>2, <2>5 DEF t, except
<1>18. OrphansKnown(next, orphans, partial')
  BY <1>4, <1>6, <1>9, <1>11, <1>12, <1>17 DEF OrphansKnown, Ids
<1>. QED BY <1>2, <1>3, <1>12, <1>13, <1>14, <1>15, <1>17, <1>18 DEF Inv

\* Every step keeps the invariant.
LEMMA NextKeeps == Inv /\ [Next]_vars => Inv'
<1> SUFFICES ASSUME Inv, [Next]_vars PROVE Inv'
  OBVIOUS
<1>1. CASE JoinerHire
  BY <1>1, HireKeeps
<1>2. ASSUME NEW id \in Ids,
             \/ MoverTransfer(id) \/ MoverPromotion(id) \/ MoverManagerChange(id)
             \/ LeaverLoa(id) \/ Rehire(id) \/ ContractorConvert(id)
      PROVE  Inv'
  BY <1>2, TransferKeeps, PromotionKeeps, ManagerChangeKeeps, LoaKeeps, RehireKeeps,
     ConversionKeeps
<1>3. ASSUME NEW id \in Ids, NEW saga \in BOOLEAN, LeaverTermination(id, saga)
      PROVE  Inv'
  <2>1. PICK immediate \in BOOLEAN : ApplyTermination(id, immediate)
    BY <1>3 DEF LeaverTermination
  <2>2. /\ \/ Tell(id, emp[id].held, <<>>)
           \/ partial' = partial \cup {id} /\ UNCHANGED told
        /\ UNCHANGED orphans
    BY <1>3 DEF LeaverTermination, Count
  <2>. QED BY <2>1, <2>2, TerminationKeeps
<1>4. ASSUME NEW id \in Ids, ContractExpiry(id), ~UNCHANGED vars
      PROVE  Inv'
  <2>1. /\ ApplyTermination(id, TRUE) /\ Tell(id, emp[id].held, <<>>) /\ UNCHANGED orphans
    BY <1>4 DEF ContractExpiry, Count
  <2>. QED BY <2>1, TerminationKeeps
<1>5. CASE UNCHANGED vars
  BY <1>5 DEF Inv, vars
<1>6. ASSUME NEW id \in Ids, LeaverResignation(id)
      PROVE  UNCHANGED vars
  BY <1>6 DEF LeaverResignation
<1>. QED BY <1>1, <1>2, <1>3, <1>4, <1>5, <1>6 DEF Next

\* The inductive invariant holds of every reachable state.
THEOREM WorkforceInvariant == Spec => []Inv
BY InitInv, NextKeeps, PTL DEF Spec

-----------------------------------------------------------------------------
(* What the invariant gives.                                               *)

\* pickActive samples exactly the active humans of each site: the bags stay
\* consistent through hires, moves, departures and rehires.
THEOREM SamplingExact == Spec => []SamplesActive
<1>1. Inv => SamplesActive
  BY DEF Inv, BagsFollow, IsBag, SamplesActive
<1>. QED BY <1>1, WorkforceInvariant, PTL

\* No chain of managers closes, whatever promotions and new managers do.
THEOREM NoManagerCycle == Spec => []Hierarchy
<1>1. Inv => Hierarchy
  BY DEF Inv, Acyclic, Hierarchy, Ids
<1>. QED BY <1>1, WorkforceInvariant, PTL

\* What the follow-ons told the target is what a joiner holds.
THEOREM TargetKnows == Spec => []TargetFollows
<1>1. Inv => TargetFollows
  BY DEF Inv, Followed, TargetFollows, Ids
<1>. QED BY <1>1, WorkforceInvariant, PTL

\* The book has an entry for exactly the grants held, whoever has not left
\* holds the baseline of the current profile, and whoever left holds nothing
\* but as a seeded orphan.
THEOREM AccessNeverCreeps == Spec => []AccessExact
<1>1. ASSUME Inv PROVE AccessFollowsProfile
  <2> SUFFICES ASSUME NEW i \in Ids
               PROVE  LET held    == emp[i].held
                          managed == Selected(held, {g \in ToSet(held) : g.base})
                          stripped == Leaver(emp[i].status) /\ held = <<>>
                      IN /\ Leaver(emp[i].status) => stripped \/ i \in orphans
                         /\ ~stripped =>
                              /\ ToSet(Keys(managed)) = ToSet(BaselineTemplatesFor(ProfileOf(emp[i])))
                              /\ IsInjective(held)
                              /\ SodConflicts(Keys(managed)) = {}
    BY DEF AccessFollowsProfile
  <2> DEFINE keys == Keys(Selected(emp[i].held, {g \in ToSet(emp[i].held) : g.base}))
             stripped == Leaver(emp[i].status) /\ emp[i].held = <<>>
  <2>1. Equipped(emp[i])
    BY <1>1, OneOfThem
  <2>2. Leaver(emp[i].status) => stripped \/ i \in orphans
    BY <1>1 DEF Inv, OrphansKnown, Ids
  <2>3. IsInjective(emp[i].held)
    BY <2>1 DEF Equipped
  <2>4. ~stripped => /\ ToSet(keys) = ToSet(BaselineTemplatesFor(ProfileOf(emp[i])))
                     /\ SodConflicts(keys) = {}
    BY <2>1, EquippedAccess, Zenon
  <2>. QED BY <2>2, <2>3, <2>4, Zenon
<1>2. Inv => BookExact
  BY DEF Inv, Booked, BookExact, Ids
<1>3. Inv => AccessExact
  BY <1>1, <1>2 DEF AccessExact
<1>. QED BY <1>3, WorkforceInvariant, PTL

-----------------------------------------------------------------------------
(* The lifecycle.                                                          *)

\* Of the other identities nothing changes when one is replaced.
LEMMA OneMoves ==
  ASSUME Inv, NEW id \in Ids, NEW e, emp' = [emp EXCEPT ![id] = e],
         CanTransition(emp[id].status, e.status)
  PROVE  \A i \in Ids : CanTransition(emp[i].status, emp'[i].status)
<1> TAKE i \in Ids
<1>1. CASE i = id
  BY <1>1 DEF Inv, PeopleEquipped, Ids
<1>2. CASE i # id
  <2>1. emp'[i] = emp[i]
    BY <1>2 DEF Inv, PeopleEquipped, Ids
  <2>. QED BY <2>1 DEF CanTransition
<1>. QED BY <1>1, <1>2

\* Whoever is stripped and leaves was in a status it may leave from.
LEMMA LeavingMoves ==
  ASSUME NEW from \in ActiveLike \cup {"active", "on_leave"}, NEW to \in {"terminated", "disabled"}
  PROVE  CanTransition(from, to)
BY DEF ActiveLike, CanTransition, Transitions

\* A strip moves one identity to its end.
LEMMA StripMoves ==
  ASSUME Inv, NEW id \in Ids, NEW status \in {"terminated", "disabled"}, emp[id].status \in ActiveLike
  PROVE  LET next == [emp EXCEPT ![id].held = <<>>, ![id].status = status]
         IN  \A i \in Ids : CanTransition(emp[i].status, next[i].status)
<1> DEFINE next == [emp EXCEPT ![id] = Gone(emp[id], status)]
<1>1. CanTransition(emp[id].status, status)
  BY LeavingMoves
<1>2. next[id].status = status /\ \A i \in Ids \ {id} : next[i] = emp[i]
  BY StripStep, ZenonT(30) DEF StripGives
<1> HIDE DEF next
<1>3. \A i \in Ids : CanTransition(emp[i].status, next[i].status)
  <2> TAKE i \in Ids
  <2>1. CASE i = id
    BY <2>1, <1>1, <1>2
  <2>2. CASE i # id
    BY <2>2, <1>2 DEF CanTransition
  <2>. QED BY <2>1, <2>2
<1>4. [emp EXCEPT ![id].held = <<>>, ![id].status = status] = next
  BY StripIsGone DEF next
<1>. QED BY <1>3, <1>4, Zenon

\* Every step moves each status along the documented transitions.
LEMMA NextMoves ==
  Inv /\ [Next]_vars => [\A i \in Ids : CanTransition(emp[i].status, emp'[i].status)]_vars
<1> DEFINE Legal == \A i \in Ids : CanTransition(emp[i].status, emp'[i].status)
<1> SUFFICES ASSUME Inv, Next, ~UNCHANGED vars PROVE Legal
  OBVIOUS
<1>0. emp \in Seq(Employee) /\ Ids = 1..Len(emp) /\ Len(emp) \in Nat
  BY DEF Inv, PeopleEquipped, Ids
<1>1. \A p, st, m, h : Identity(p, st, m, h).status = st
  BY DEF Identity
<1>2. CASE JoinerHire
  <2>1. PICK e : emp' = Append(emp, e)
    BY <1>2 DEF JoinerHire, Hire
  <2>2. \A i \in Ids : emp'[i] = emp[i]
    BY <1>0, <2>1
  <2>. QED BY <2>2 DEF CanTransition
<1>3. ASSUME NEW id \in Ids, MoverTransfer(id) \/ MoverPromotion(id)
      PROVE  Legal
  <2>1. PICK p : emp' = [emp EXCEPT ![id] =
                           Identity(p, emp[id].status, emp[id].manager, Recomputed(id, p))]
    BY <1>3 DEF MoverTransfer, MoverPromotion, Transfer, Promote
  <2> DEFINE e == Identity(p, emp[id].status, emp[id].manager, Recomputed(id, p))
  <2>2. e.status = emp[id].status
    BY <1>1
  <2>3. emp' = [emp EXCEPT ![id] = e]
    BY <2>1
  <2> HIDE DEF e
  <2>4. CanTransition(emp[id].status, e.status)
    BY <2>2 DEF CanTransition
  <2>. QED BY <2>3, <2>4, OneMoves
<1>4. ASSUME NEW id \in Ids, MoverManagerChange(id)
      PROVE  Legal
  <2>1. PICK manager : \/ emp' = emp
                       \/ emp' = [emp EXCEPT ![id].manager = manager]
    BY <1>4 DEF MoverManagerChange, ChangeManager
  <2>2. CASE emp' = emp
    BY <2>2 DEF CanTransition
  <2>3. CASE emp' = [emp EXCEPT ![id].manager = manager]
    <3> DEFINE e == [emp[id] EXCEPT !.manager = manager]
    <3>1. e.status = emp[id].status
      BY OneOfThem DEF Employee
    <3>2. emp' = [emp EXCEPT ![id] = e]
      BY <2>3
    <3> HIDE DEF e
    <3>. QED BY <3>1, <3>2, OneMoves DEF CanTransition
  <2>. QED BY <2>1, <2>2, <2>3
<1>5. ASSUME NEW id \in Ids, LeaverLoa(id)
      PROVE  Legal
  <2> DEFINE away == "on_leave"
             e == [emp[id] EXCEPT !.status = away]
  <2>1. e.status = away
    BY OneOfThem DEF Employee
  <2>2. emp' = [emp EXCEPT ![id] = e] /\ emp[id].status = "active"
    BY <1>5 DEF LeaverLoa, ApplyLoa, SetStatus
  <2>3. CanTransition("active", away)
    BY DEF CanTransition, Transitions
  <2> HIDE DEF e, away
  <2>. QED BY <2>1, <2>2, <2>3, OneMoves
<1>6. ASSUME NEW id \in Ids, Rehire(id)
      PROVE  Legal
  <2> DEFINE back == "active"
             e == Identity(ProfileOf(emp[id]), back, emp[id].manager, Recomputed(id, ProfileOf(emp[id])))
  <2>1. e.status = back
    BY <1>1
  <2>2. emp' = [emp EXCEPT ![id] = e] /\ emp[id].status = "terminated"
    BY <1>6 DEF Rehire, ApplyRehire
  <2>3. CanTransition("terminated", back)
    BY DEF CanTransition, Transitions
  <2> HIDE DEF e, back
  <2>. QED BY <2>1, <2>2, <2>3, OneMoves
<1>7. ASSUME NEW id \in Ids, NEW immediate \in BOOLEAN, ApplyTermination(id, immediate),
             emp[id].status \in ActiveLike
      PROVE  Legal
  <2> DEFINE status == IF immediate THEN "disabled" ELSE "terminated"
             next == [emp EXCEPT ![id].held = <<>>, ![id].status = status]
  <2>1. emp' = next
    BY <1>7 DEF ApplyTermination
  <2>2. status \in {"terminated", "disabled"}
    OBVIOUS
  <2> HIDE DEF status
  <2>3. \A i \in Ids : CanTransition(emp[i].status, next[i].status)
    BY <1>7, <2>2, StripMoves
  <2> HIDE DEF next
  <2>. QED BY <2>1, <2>3
<1>8. ASSUME NEW id \in Ids, NEW saga \in BOOLEAN, LeaverTermination(id, saga)
      PROVE  Legal
  BY <1>7, <1>8 DEF LeaverTermination, EligibleFrom
<1>9. ASSUME NEW id \in Ids, ContractExpiry(id)
      PROVE  Legal
  BY <1>7, <1>9 DEF ContractExpiry, EligibleFrom, ActiveLike
<1>10. ASSUME NEW id \in Ids, ContractorConvert(id)
       PROVE  Legal
  <2> DEFINE gone == "disabled"
             next == [emp EXCEPT ![id].held = <<>>, ![id].status = gone]
  <2>1. PICK e : emp' = Append(next, e)
    BY <1>10 DEF ContractorConvert, ApplyConversion
  <2>2. gone \in {"terminated", "disabled"} /\ emp[id].status \in ActiveLike
    BY <1>10 DEF ContractorConvert, IsActiveLike, ActiveLike
  <2> HIDE DEF gone
  <2>3. \A i \in Ids : CanTransition(emp[i].status, next[i].status)
    BY <2>2, StripMoves
  <2>4. next = [emp EXCEPT ![id] = Gone(emp[id], gone)]
    BY StripIsGone
  <2> HIDE DEF next
  <2>5. StripGives(next, id, gone)
    BY <2>2, <2>4, StripStep
  <2>6. next \in Seq(Employee) /\ DOMAIN next = Ids /\ Len(next) = Len(emp)
    BY <2>5 DEF StripGives, PeopleEquipped
  <2>7. \A i \in Ids : emp'[i] = next[i]
    BY <1>0, <2>1, <2>6
  <2>. QED BY <2>3, <2>7
<1>11. ASSUME NEW id \in Ids, LeaverResignation(id)
       PROVE  Legal
  BY <1>11 DEF LeaverResignation
<1>. QED BY <1>2, <1>3, <1>4, <1>5, <1>6, <1>8, <1>9, <1>10, <1>11 DEF Next

\* A status only moves along the documented transitions, whatever the order
\* of the events.
THEOREM LifecycleFollowed == Spec => LegalMoves
BY WorkforceInvariant, NextMoves, PTL DEF Spec, LegalMoves

=============================================================================
