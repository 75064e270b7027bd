------------------------------ MODULE ServerProofs ------------------------------
(***************************************************************************)
(* What the server promises beside its runs, for any clients: whom the     *)
(* guard of the API sheds, for any sources, threshold, window and table;   *)
(* that its tables tell the truth over boots, crashes, failed writes and   *)
(* clients' edits, for any throttle, limit of samples and prune interval;  *)
(* and that a dashboard which has caught up shows the truth, for any ring  *)
(* of recent events, ticker and backlog.                                   *)
(***************************************************************************)
EXTENDS AdminAuth, Records, Telemetry, SeqLemmas

-----------------------------------------------------------------------------
(* Sequences *)

\* The least of some places.
LEMMA LeastPlace ==
  ASSUME NEW I \in SUBSET Nat, I # {}
  PROVE  Min(I) \in I /\ \A m \in I : Min(I) <= m
<1>1. \E n \in I : \A m \in I : n <= m
  BY LeastNat
<1>. QED BY <1>1 DEF Min

\* Taking an element out closes the gap.
LEMMA TakenOut ==
  ASSUME NEW S, NEW s \in Seq(S), NEW p \in 1..Len(s)
  PROVE  /\ RemoveAt(s, p) \in Seq(S)
         /\ Len(RemoveAt(s, p)) = Len(s) - 1
         /\ \A i \in 1..(Len(s) - 1) : RemoveAt(s, p)[i] = IF i < p THEN s[i] ELSE s[i + 1]
<1> DEFINE a == SubSeq(s, 1, p - 1)
           b == SubSeq(s, p + 1, Len(s))
<1>1. a \in Seq(S) /\ Len(a) = p - 1 /\ \A i \in 1..(p - 1) : a[i] = s[i]
  BY SMTT(30)
<1>2. b \in Seq(S) /\ Len(b) = Len(s) - p /\ \A i \in 1..(Len(s) - p) : b[i] = s[p + i]
  BY SMTT(30)
<1>3. RemoveAt(s, p) = a \o b
  BY DEF RemoveAt
<1>0. Len(s) \in Nat
  OBVIOUS
<1> HIDE DEF a, b
<1>4. a \o b \in Seq(S) /\ Len(a \o b) = Len(s) - 1
  <2>1. a \o b \in Seq(S) /\ Len(a \o b) = Len(a) + Len(b)
    BY <1>1, <1>2, ConcatProperties
  <2>. QED BY <1>0, <1>1, <1>2, <2>1
<1>5. ASSUME NEW i \in 1..(Len(s) - 1)
      PROVE  (a \o b)[i] = IF i < p THEN s[i] ELSE s[i + 1]
  <2>1. (a \o b)[i] = IF i <= Len(a) THEN a[i] ELSE b[i - Len(a)]
    BY <1>0, <1>1, <1>2
  <2>2. CASE i < p
    BY <1>0, <1>1, <2>1, <2>2
  <2>3. CASE i >= p
    <3>1. i - Len(a) \in 1..(Len(s) - p) /\ p + (i - Len(a)) = i + 1
      BY <1>0, <1>1, <2>3
    <3>. QED BY <1>0, <1>1, <1>2, <2>1, <2>3, <3>1
  <2>4. i < p \/ i >= p
    BY <1>0
  <2>. QED BY <2>2, <2>3, <2>4
<1>. QED BY <1>3, <1>4, <1>5

-----------------------------------------------------------------------------
(* The guard: what the calls up to some moment tell of a source *)

Given == [ip : Sources, right : BOOLEAN, status : {200, 401, 429}, at : Nat,
         forgot : SUBSET Sources]
Window == [ip : Sources, count : Nat \ {0}, start : Nat]

\* FailuresOf and Remembered, of any history of calls.
Fails(past, ip, from, to) == {i \in from..to : past[i].ip = ip /\ past[i].status = 401}
Kept(past, ip, from, to) == \A i \in from..to : ip \notin past[i].forgot

\* One call that was a failure of the source; and calls in order of time.
FailureOf(a, ip) == a.ip = ip /\ a.status = 401
InTime(past) == \A i, j \in DOMAIN past : i <= j => past[i].at <= past[j].at

\* The call j opened the window w: every failure of the source since then is
\* counted in it, and in the last stretch of a window before it there were
\* fewer than Threshold.
Opened(past, w, j) ==
  /\ j \in DOMAIN past /\ past[j].ip = w.ip /\ past[j].status = 401 /\ past[j].at = w.start
  /\ Kept(past, w.ip, j, Len(past))
  /\ Cardinality(Fails(past, w.ip, j, Len(past))) = w.count
  /\ w.count <= Threshold
  /\ \A k \in 1..j : w.start - past[k].at <= FailureWindow /\ Kept(past, w.ip, k, j) =>
       Cardinality(Fails(past, w.ip, k, j - 1)) < Threshold

\* No failure of the source is left of which nothing was forgotten since.
Clean(past, ip) == \A k \in 1..Len(past) : Kept(past, ip, k, Len(past)) => Fails(past, ip, k, Len(past)) = {}

AdminTypes ==
  /\ clock \in Nat /\ windows \in Seq(Window) /\ answers \in Seq(Given)
  /\ \A i, j \in DOMAIN windows : windows[i].ip = windows[j].ip => i = j
  /\ \A i \in DOMAIN answers : answers[i].at <= clock
  /\ InTime(answers)
WindowsTell == \A i \in DOMAIN windows : \E j \in DOMAIN answers : Opened(answers, windows[i], j)
OthersClean ==
  \A ip \in Sources : (\A i \in DOMAIN windows : windows[i].ip # ip) => Clean(answers, ip)

\* The table of windows tells the failures that are not forgotten.
AdminInv == AdminTypes /\ WindowsTell /\ OthersClean /\ ShedsRightly

LEMMA FailsFinite ==
  ASSUME NEW past, NEW ip, NEW from \in Int, NEW to \in Int
  PROVE  /\ IsFiniteSet(Fails(past, ip, from, to))
         /\ Cardinality(Fails(past, ip, from, to)) \in Nat
<1>1. IsFiniteSet(from..to)
  BY FS_Interval
<1>2. Fails(past, ip, from, to) \in SUBSET (from..to)
  BY DEF Fails
<1>. QED BY <1>1, <1>2, FS_Subset, FS_CardinalityType

\* Fewer calls, fewer failures.
LEMMA FailsWithin ==
  ASSUME NEW past, NEW ip, NEW from \in Int, NEW to \in Int, NEW more \in Int, more >= from
  PROVE  Cardinality(Fails(past, ip, more, to)) <= Cardinality(Fails(past, ip, from, to))
<1>1. Fails(past, ip, more, to) \in SUBSET Fails(past, ip, from, to)
  BY DEF Fails
<1>. QED BY <1>1, FailsFinite, FS_Subset

\* After the call that opened a window there is one failure less.
LEMMA FailsAfter ==
  ASSUME NEW past, NEW ip, NEW from \in Int, NEW to \in Int, NEW more \in Int, more > from,
         from <= to, past[from].ip = ip, past[from].status = 401
  PROVE  Cardinality(Fails(past, ip, more, to)) < Cardinality(Fails(past, ip, from, to))
<1> DEFINE A == Fails(past, ip, more, to)
           B == Fails(past, ip, from, to)
<1>1. A \in SUBSET B /\ from \in B /\ from \notin A
  BY DEF Fails
<1>2. IsFiniteSet(B) /\ Cardinality(A) \in Nat /\ Cardinality(B) \in Nat
  BY FailsFinite
<1> HIDE DEF A, B
<1>3. Cardinality(A) <= Cardinality(B) /\ Cardinality(B) # Cardinality(A)
  BY <1>1, <1>2, FS_Subset
<1>4. Cardinality(A) < Cardinality(B)
  BY <1>2, <1>3
<1>. QED BY <1>4 DEF A, B

\* The failures of a stretch are those of its two parts.
LEMMA FailsSplit ==
  ASSUME NEW past, NEW ip, NEW from \in Int, NEW mid \in Int, NEW to \in Int,
         from <= mid, mid <= to
  PROVE  Cardinality(Fails(past, ip, from, to))
           <= Cardinality(Fails(past, ip, from, mid - 1)) + Cardinality(Fails(past, ip, mid, to))
<1> DEFINE A == Fails(past, ip, from, mid - 1)
           B == Fails(past, ip, mid, to)
<1>1. Fails(past, ip, from, to) = A \cup B
  BY DEF Fails
<1>2. /\ IsFiniteSet(A) /\ IsFiniteSet(B) /\ mid - 1 \in Int
      /\ Cardinality(A) \in Nat /\ Cardinality(B) \in Nat
  BY FailsFinite
<1> HIDE DEF A, B
<1>3. /\ Cardinality(A \cup B) = Cardinality(A) + Cardinality(B) - Cardinality(A \cap B)
  BY <1>2, FS_Union
<1>4. Cardinality(A \cap B) \in Nat
  BY <1>2, FS_Intersection, FS_CardinalityType
<1>5. Cardinality(A \cup B) <= Cardinality(A) + Cardinality(B)
  BY <1>2, <1>3, <1>4
<1>. QED BY <1>1, <1>5 DEF A, B

\* In no stretch of a window there are failures of a source with an open window
\* beyond those before it and those it counts.
LEMMA Stretch ==
  ASSUME NEW past \in Seq(Given), InTime(past), NEW w \in Window, NEW j \in DOMAIN past,
         Opened(past, w, j), Threshold \in Nat \ {0}, FailureWindow \in Nat,
         NEW now \in Nat, w.start <= now,
         NEW k \in DOMAIN past, now - past[k].at <= FailureWindow, Kept(past, w.ip, k, Len(past))
  PROVE  Cardinality(Fails(past, w.ip, k, Len(past))) < Threshold + w.count
<1> DEFINE n == Len(past)
<1>1. n \in Nat /\ DOMAIN past = 1..n /\ j \in 1..n /\ k \in 1..n
  OBVIOUS
<1>2. w.start \in Nat /\ w.count \in Nat /\ past[k].at \in Nat
  <2>1. past[k] \in Given
    OBVIOUS
  <2>. QED BY <2>1 DEF Window, Given
<1>3. Cardinality(Fails(past, w.ip, j, n)) = w.count
  BY DEF Opened
<1>4. CASE k > j
  <2>1. Cardinality(Fails(past, w.ip, k, n)) <= Cardinality(Fails(past, w.ip, j, n))
    BY <1>1, <1>4, FailsWithin
  <2>2. Cardinality(Fails(past, w.ip, k, n)) \in Nat
    BY <1>1, FailsFinite
  <2>. QED BY <1>2, <1>3, <2>1, <2>2
<1>5. CASE k <= j
  <2>1. w.start - past[k].at <= FailureWindow
    BY <1>2
  <2>2. Kept(past, w.ip, k, j)
    BY <1>1 DEF Kept
  <2>3. Cardinality(Fails(past, w.ip, k, j - 1)) < Threshold
    BY <1>1, <1>5, <2>1, <2>2 DEF Opened
  <2>4. Cardinality(Fails(past, w.ip, k, n))
          <= Cardinality(Fails(past, w.ip, k, j - 1)) + Cardinality(Fails(past, w.ip, j, n))
    BY <1>1, <1>5, FailsSplit
  <2>5. /\ Cardinality(Fails(past, w.ip, k, n)) \in Nat
        /\ Cardinality(Fails(past, w.ip, k, j - 1)) \in Nat
    BY <1>1, FailsFinite
  <2>. QED BY <1>2, <1>3, <2>3, <2>4, <2>5
<1>. QED BY <1>1, <1>4, <1>5

\* What another call makes of the past and the present.
LEMMA OneMore ==
  ASSUME NEW past \in Seq(Given), NEW a \in Given, NEW ip
  PROVE  LET all == Append(past, a) n == Len(past) IN
    /\ all \in Seq(Given) /\ Len(all) = n + 1 /\ DOMAIN all = 1..(n + 1) /\ all[n + 1] = a
    /\ n \in Nat /\ DOMAIN past = 1..n /\ \A i \in 1..n : all[i] = past[i]
    /\ \A from \in 1..(n + 1), to \in 0..n :
         /\ Fails(all, ip, from, to) = Fails(past, ip, from, to)
         /\ Kept(all, ip, from, to) <=> Kept(past, ip, from, to)
    /\ \A from \in 1..(n + 1) :
         /\ Fails(all, ip, from, n + 1) =
              Fails(past, ip, from, n) \cup (IF FailureOf(a, ip) THEN {n + 1} ELSE {})
         /\ Kept(all, ip, from, n + 1) <=> Kept(past, ip, from, n) /\ ip \notin a.forgot
<1> DEFINE all == Append(past, a)
           n == Len(past)
<1>1. /\ all \in Seq(Given) /\ Len(all) = n + 1 /\ DOMAIN all = 1..(n + 1) /\ all[n + 1] = a
      /\ n \in Nat /\ DOMAIN past = 1..n /\ \A i \in 1..n : all[i] = past[i]
  OBVIOUS
<1> HIDE DEF all, n
<1>2. ASSUME NEW from \in 1..(n + 1), NEW to \in 0..n
      PROVE  /\ Fails(all, ip, from, to) = Fails(past, ip, from, to)
             /\ Kept(all, ip, from, to) <=> Kept(past, ip, from, to)
  <2>1. \A i \in from..to : all[i] = past[i]
    BY <1>1
  <2>. QED BY <2>1 DEF Fails, Kept
<1>3. ASSUME NEW from \in 1..(n + 1)
      PROVE  /\ Fails(all, ip, from, n + 1) =
                  Fails(past, ip, from, n) \cup (IF FailureOf(a, ip) THEN {n + 1} ELSE {})
             /\ Kept(all, ip, from, n + 1) <=> Kept(past, ip, from, n) /\ ip \notin a.forgot
  <2>1. from..(n + 1) = (from..n) \cup {n + 1} /\ \A i \in from..n : all[i] = past[i]
    BY <1>1
  <2>2. Fails(all, ip, from, n + 1) =
          {i \in from..n : all[i].ip = ip /\ all[i].status = 401}
            \cup {i \in {n + 1} : all[i].ip = ip /\ all[i].status = 401}
    BY <2>1 DEF Fails
  <2>3. {i \in from..n : all[i].ip = ip /\ all[i].status = 401} = Fails(past, ip, from, n)
    BY <2>1 DEF Fails
  <2>4. {i \in {n + 1} : all[i].ip = ip /\ all[i].status = 401}
          = IF FailureOf(a, ip) THEN {n + 1} ELSE {}
    BY <1>1 DEF FailureOf
  <2>5. Kept(all, ip, from, n + 1) <=> Kept(past, ip, from, n) /\ ip \notin a.forgot
    BY <1>1, <2>1 DEF Kept
  <2>. QED BY <2>2, <2>3, <2>4, <2>5
<1>. QED BY <1>1, <1>2, <1>3 DEF all, n

LEMMA UpToNow ==
  ASSUME NEW past \in Seq(Given), NEW a \in Given, NEW ip, NEW from \in 1..(Len(past) + 1)
  PROVE  /\ Fails(Append(past, a), ip, from, Len(past) + 1) = Fails(past, ip, from, Len(past))
               \cup (IF FailureOf(a, ip) THEN {Len(past) + 1} ELSE {})
         /\ Kept(Append(past, a), ip, from, Len(past) + 1)
               <=> Kept(past, ip, from, Len(past)) /\ ip \notin a.forgot
BY OneMore, Zenon

\* A call that is no failure of the source and forgets nothing of it keeps its
\* window.
LEMMA KeepsOpen ==
  ASSUME NEW past \in Seq(Given), NEW a \in Given, NEW w \in Window, NEW j \in DOMAIN past,
         Opened(past, w, j), w.ip \notin a.forgot, ~FailureOf(a, w.ip)
  PROVE  j \in DOMAIN Append(past, a) /\ Opened(Append(past, a), w, j)
<1> DEFINE all == Append(past, a)
           n == Len(past)
<1>1. /\ Len(all) = n + 1 /\ DOMAIN all = 1..(n + 1) /\ n \in Nat /\ DOMAIN past = 1..n
      /\ \A i \in 1..n : all[i] = past[i]
  BY OneMore
<1>2. /\ Kept(all, w.ip, j, n + 1)
      /\ Fails(all, w.ip, j, n + 1) = Fails(past, w.ip, j, n)
  <2>1. j \in 1..(n + 1)
    BY <1>1
  <2>2. Kept(past, w.ip, j, n)
    BY DEF Opened
  <2>3. /\ Fails(all, w.ip, j, n + 1) = Fails(past, w.ip, j, n)
               \cup (IF FailureOf(a, w.ip) THEN {n + 1} ELSE {})
        /\ Kept(all, w.ip, j, n + 1) <=> Kept(past, w.ip, j, n) /\ w.ip \notin a.forgot
    BY <2>1, UpToNow, Zenon
  <2>. QED BY <2>2, <2>3
<1>3. ASSUME NEW k \in 1..j, w.start - all[k].at <= FailureWindow, Kept(all, w.ip, k, j)
      PROVE  Cardinality(Fails(all, w.ip, k, j - 1)) < Threshold
  <2>1. k \in 1..(n + 1) /\ j \in 0..n /\ j - 1 \in 0..n /\ all[k] = past[k]
    BY <1>1
  <2>2. /\ Fails(all, w.ip, k, j - 1) = Fails(past, w.ip, k, j - 1)
        /\ Kept(past, w.ip, k, j)
    BY <1>3, <2>1, OneMore
  <2>. QED BY <1>3, <2>1, <2>2 DEF Opened
<1> HIDE DEF all, n
<1>4. all[j] = past[j] /\ j \in 1..(n + 1)
  BY <1>1
<1>. QED BY <1>1, <1>2, <1>3, <1>4 DEF Opened, all, n

\* A failure of the source that forgets nothing of it is counted in its window.
LEMMA CountsOpen ==
  ASSUME NEW past \in Seq(Given), NEW a \in Given, NEW w \in Window, NEW j \in DOMAIN past,
         Opened(past, w, j), w.ip \notin a.forgot, FailureOf(a, w.ip),
         w.count < Threshold, Threshold \in Nat
  PROVE  /\ j \in DOMAIN Append(past, a)
         /\ Opened(Append(past, a), [w EXCEPT !.count = @ + 1], j)
<1> DEFINE all == Append(past, a)
           n == Len(past)
           v == [w EXCEPT !.count = @ + 1]
<1>0. v.ip = w.ip /\ v.start = w.start /\ v.count = w.count + 1 /\ w.count \in Nat
  BY DEF Window
<1>1. /\ Len(all) = n + 1 /\ DOMAIN all = 1..(n + 1) /\ n \in Nat /\ DOMAIN past = 1..n
      /\ \A i \in 1..n : all[i] = past[i]
  BY OneMore
<1>2. /\ Kept(all, w.ip, j, n + 1)
      /\ Fails(all, w.ip, j, n + 1) = Fails(past, w.ip, j, n) \cup {n + 1}
  <2>1. j \in 1..(n + 1)
    BY <1>1
  <2>2. Kept(past, w.ip, j, n)
    BY DEF Opened
  <2>3. /\ Fails(all, w.ip, j, n + 1) = Fails(past, w.ip, j, n)
               \cup (IF FailureOf(a, w.ip) THEN {n + 1} ELSE {})
        /\ Kept(all, w.ip, j, n + 1) <=> Kept(past, w.ip, j, n) /\ w.ip \notin a.forgot
    BY <2>1, UpToNow, Zenon
  <2>. QED BY <2>2, <2>3
<1>3. ASSUME NEW k \in 1..j, w.start - all[k].at <= FailureWindow, Kept(all, w.ip, k, j)
      PROVE  Cardinality(Fails(all, w.ip, k, j - 1)) < Threshold
  <2>1. k \in 1..(n + 1) /\ j \in 0..n /\ j - 1 \in 0..n /\ all[k] = past[k]
    BY <1>1
  <2>2. /\ Fails(all, w.ip, k, j - 1) = Fails(past, w.ip, k, j - 1)
        /\ Kept(past, w.ip, k, j)
    BY <1>3, <2>1, OneMore
  <2>. QED BY <1>3, <2>1, <2>2 DEF Opened
<1>4. all[j] = past[j] /\ j \in 1..(n + 1)
  BY <1>1
<1>5. Cardinality(Fails(past, w.ip, j, n) \cup {n + 1}) = w.count + 1
  <2>1. n + 1 \notin Fails(past, w.ip, j, n)
    BY <1>1 DEF Fails
  <2>2. IsFiniteSet(Fails(past, w.ip, j, n)) /\ Cardinality(Fails(past, w.ip, j, n)) = w.count
    BY <1>1, FailsFinite DEF Opened
  <2> DEFINE F == Fails(past, w.ip, j, n)
  <2> HIDE DEF F, n
  <2>3. n + 1 \notin F /\ IsFiniteSet(F) /\ Cardinality(F) = w.count
    BY <2>1, <2>2 DEF F
  <2>4. Cardinality(F \cup {n + 1}) = Cardinality(F) + 1
    BY <2>3, FS_AddElement
  <2>. QED BY <2>3, <2>4 DEF F
<1> HIDE DEF all, n, v
<1>6. /\ all[j].ip = v.ip /\ all[j].status = 401 /\ all[j].at = v.start
      /\ Kept(all, v.ip, j, Len(all)) /\ Cardinality(Fails(all, v.ip, j, Len(all))) = v.count
      /\ v.count <= Threshold
  <2>1. /\ past[j].ip = w.ip /\ past[j].status = 401 /\ past[j].at = w.start
    BY DEF Opened
  <2>2. Kept(all, v.ip, j, Len(all))
    BY <1>0, <1>1, <1>2
  <2>3. Cardinality(Fails(all, v.ip, j, Len(all))) = v.count
    BY <1>0, <1>1, <1>2, <1>5
  <2>. QED BY <1>0, <1>4, <2>1, <2>2, <2>3
<1>7. \A k \in 1..j : v.start - all[k].at <= FailureWindow /\ Kept(all, v.ip, k, j) =>
        Cardinality(Fails(all, v.ip, k, j - 1)) < Threshold
  BY <1>0, <1>3
<1>8. Opened(all, v, j)
  BY <1>1, <1>4, <1>6, <1>7 DEF Opened
<1>. QED BY <1>1, <1>4, <1>8 DEF all, v

\* A failure opens a window where the source has none, or one that has lapsed.
LEMMA OpensNew ==
  ASSUME NEW past \in Seq(Given), InTime(past), NEW a \in Given, FailureOf(a, a.ip),
         a.ip \notin a.forgot, Threshold \in Nat \ {0}, FailureWindow \in Nat,
         \/ Clean(past, a.ip)
         \/ \E w \in Window : \E j \in DOMAIN past :
              w.ip = a.ip /\ Opened(past, w, j) /\ a.at - w.start > FailureWindow
  PROVE  /\ Len(past) + 1 \in DOMAIN Append(past, a)
         /\ Opened(Append(past, a), [ip |-> a.ip, count |-> 1, start |-> a.at], Len(past) + 1)
<1> DEFINE all == Append(past, a)
           n == Len(past)
           w == [ip |-> a.ip, count |-> 1, start |-> a.at]
<1>1. /\ Len(all) = n + 1 /\ DOMAIN all = 1..(n + 1) /\ n \in Nat /\ DOMAIN past = 1..n
      /\ all[n + 1] = a /\ \A i \in 1..n : all[i] = past[i]
  BY OneMore
<1>2. n + 1 \in 1..(n + 1) /\ n \in 0..n
  BY <1>1
<1>3. Fails(past, a.ip, n + 1, n) = {} /\ Kept(past, a.ip, n + 1, n)
  BY <1>1 DEF Fails, Kept
<1>4. Kept(all, a.ip, n + 1, n + 1) /\ Fails(all, a.ip, n + 1, n + 1) = {n + 1}
  <2>1. /\ Fails(all, a.ip, n + 1, n + 1) = Fails(past, a.ip, n + 1, n)
               \cup (IF FailureOf(a, a.ip) THEN {n + 1} ELSE {})
        /\ Kept(all, a.ip, n + 1, n + 1) <=> Kept(past, a.ip, n + 1, n) /\ a.ip \notin a.forgot
    BY <1>2, UpToNow, Zenon
  <2>. QED BY <1>3, <2>1
<1>5. ASSUME NEW k \in 1..(n + 1), a.at - all[k].at <= FailureWindow, Kept(all, a.ip, k, n + 1)
      PROVE  Cardinality(Fails(all, a.ip, k, n)) < Threshold
  <2>1. Fails(all, a.ip, k, n) = Fails(past, a.ip, k, n) /\ Kept(past, a.ip, k, n)
    BY <1>2, <1>5, OneMore
  <2>2. CASE k = n + 1
    <3>1. Fails(all, a.ip, k, n) = {}
      BY <1>3, <2>1, <2>2
    <3>. QED BY <3>1, FS_EmptySet
  <2>3. CASE k # n + 1 /\ Clean(past, a.ip)
    <3>1. k \in 1..n
      BY <1>1, <2>3
    <3>2. Fails(past, a.ip, k, n) = {}
      BY <2>1, <2>3, <3>1 DEF Clean
    <3>. QED BY <2>1, <3>2, FS_EmptySet
  <2>4. ASSUME k # n + 1, NEW v \in Window, NEW j \in DOMAIN past, v.ip = a.ip,
               Opened(past, v, j), a.at - v.start > FailureWindow
        PROVE  Cardinality(Fails(all, a.ip, k, n)) < Threshold
    <3>1. k \in 1..n /\ j \in 1..n /\ all[k] = past[k]
      BY <1>1, <2>4
    <3>2. past[k].at \in Nat /\ past[j].at = v.start /\ v.start \in Nat /\ a.at \in Nat
      <4>1. past[k] \in Given
        BY <1>1, <3>1
      <4>. QED BY <4>1, <2>4 DEF Given, Window, Opened
    <3>3. past[k].at > past[j].at
      BY <1>5, <2>4, <3>1, <3>2
    <3>4. k > j
      BY <1>1, <3>1, <3>2, <3>3 DEF InTime
    <3>5. Cardinality(Fails(past, a.ip, k, n)) < Cardinality(Fails(past, a.ip, j, n))
      BY <1>1, <2>4, <3>1, <3>4, FailsAfter DEF Opened
    <3>6. Cardinality(Fails(past, a.ip, j, n)) <= Threshold
      BY <2>4 DEF Opened
    <3>7. /\ Cardinality(Fails(past, a.ip, j, n)) \in Nat
          /\ Cardinality(Fails(past, a.ip, k, n)) \in Nat
      BY <1>1, FailsFinite
    <3>. QED BY <2>1, <3>5, <3>6, <3>7
  <2>. QED BY <2>2, <2>3, <2>4
<1> HIDE DEF all, n
<1>6. w.ip = a.ip /\ w.count = 1 /\ w.start = a.at
  OBVIOUS
<1> HIDE DEF w
<1>7. Cardinality(Fails(all, w.ip, n + 1, n + 1)) = 1 /\ 1 <= Threshold
  <2>1. Cardinality({n + 1}) = 1
    BY FS_Singleton
  <2>2. Fails(all, w.ip, n + 1, n + 1) = {n + 1}
    BY <1>4, <1>6
  <2>3. 1 <= Threshold
    OBVIOUS
  <2>. QED BY <2>1, <2>2, <2>3, Zenon
<1>8. n + 1 - 1 = n
  BY <1>1
<1>9. Opened(all, w, n + 1)
  <2>1. all[n + 1].ip = w.ip /\ all[n + 1].status = 401 /\ all[n + 1].at = w.start
    BY <1>1, <1>6 DEF FailureOf
  <2>2. /\ Kept(all, w.ip, n + 1, Len(all)) /\ w.count <= Threshold
        /\ Cardinality(Fails(all, w.ip, n + 1, Len(all))) = w.count
    BY <1>1, <1>4, <1>6, <1>7
  <2>3. \A k \in 1..(n + 1) :
          w.start - all[k].at <= FailureWindow /\ Kept(all, w.ip, k, n + 1) =>
            Cardinality(Fails(all, w.ip, k, n + 1 - 1)) < Threshold
    BY <1>5, <1>6, <1>8
  <2>. QED BY <1>1, <1>2, <2>1, <2>2, <2>3 DEF Opened
<1>. QED BY <1>1, <1>2, <1>9 DEF all, n, w

-----------------------------------------------------------------------------
(* The guard: the table *)

\* A source is tracked when it has an entry.
LEMMA TrackedEntry ==
  ASSUME AdminTypes, NEW ip
  PROVE  /\ ~Tracked(ip) => \A i \in DOMAIN windows : windows[i].ip # ip
         /\ Tracked(ip) => /\ Place(ip) \in DOMAIN windows /\ Entry(ip) \in Window
                           /\ Entry(ip).ip = ip
<1> DEFINE I == {i \in 1..Len(windows) : windows[i].ip = ip}
<1>1. Len(windows) \in Nat /\ DOMAIN windows = 1..Len(windows)
  BY DEF AdminTypes
<1>2. Place(ip) = IF I # {} THEN Min(I) ELSE 0
  BY DEF Place, SelectInSeq
<1>3. CASE I = {}
  BY <1>1, <1>2, <1>3 DEF Tracked
<1>4. CASE I # {}
  <2>1. Min(I) \in I
    BY <1>1, <1>4, LeastPlace
  <2>2. Place(ip) \in I /\ Place(ip) \in 1..Len(windows) /\ Place(ip) # 0
    BY <1>1, <1>2, <1>4, <2>1
  <2>. QED BY <1>1, <2>2 DEF Tracked, Entry, AdminTypes
<1>. QED BY <1>3, <1>4

\* The entries but one, each once.
Others(table, ip) ==
  /\ table \in Seq(Window)
  /\ \A i, j \in DOMAIN table : table[i].ip = table[j].ip => i = j
  /\ \A i \in DOMAIN table : table[i].ip # ip /\ \E j \in DOMAIN windows : table[i] = windows[j]
  /\ \A j \in DOMAIN windows :
       windows[j].ip # ip => \E i \in DOMAIN table : table[i] = windows[j]

LEMMA WithoutOne ==
  ASSUME AdminTypes, NEW ip
  PROVE  Others(Without(ip), ip)
<1>1. CASE ~Tracked(ip)
  BY <1>1, TrackedEntry DEF Without, Others, AdminTypes
<1>2. CASE Tracked(ip)
  <2> DEFINE p == Place(ip)
             n == Len(windows)
             t == RemoveAt(windows, p)
  <2>1. /\ windows \in Seq(Window) /\ n \in Nat /\ DOMAIN windows = 1..n /\ p \in 1..n
        /\ windows[p].ip = ip /\ Without(ip) = t
    BY <1>2, TrackedEntry DEF Without, Entry, AdminTypes
  <2>2. /\ t \in Seq(Window) /\ Len(t) = n - 1
        /\ \A i \in 1..(n - 1) : t[i] = IF i < p THEN windows[i] ELSE windows[i + 1]
    BY <2>1, TakenOut
  <2>3. DOMAIN t = 1..(n - 1)
    BY <2>2
  <2> HIDE DEF p, n, t
  <2> DEFINE from(i) == IF i < p THEN i ELSE i + 1
  <2>4. /\ \A i \in 1..(n - 1) : from(i) \in 1..n /\ from(i) # p /\ t[i] = windows[from(i)]
        /\ \A i, j \in 1..(n - 1) : from(i) = from(j) => i = j
        /\ \A k \in 1..n : k # p => \E i \in 1..(n - 1) : from(i) = k
    <3>1. \A i \in 1..(n - 1) : from(i) \in 1..n /\ from(i) # p /\ t[i] = windows[from(i)]
      BY <2>1, <2>2
    <3>2. \A i, j \in 1..(n - 1) : from(i) = from(j) => i = j
      BY <2>1
    <3>3. ASSUME NEW k \in 1..n, k # p PROVE \E i \in 1..(n - 1) : from(i) = k
      <4>1. CASE k < p
        <5>1. k \in 1..(n - 1) /\ from(k) = k
          BY <2>1, <4>1
        <5>. QED BY <5>1
      <4>2. CASE k > p
        <5>1. k - 1 \in 1..(n - 1) /\ from(k - 1) = k
          BY <2>1, <4>2
        <5>. QED BY <5>1
      <4>. QED BY <2>1, <3>3, <4>1, <4>2
    <3>. QED BY <3>1, <3>2, <3>3
  <2> HIDE DEF from
  <2>5. \A i, j \in 1..n : windows[i].ip = windows[j].ip => i = j
    BY <2>1 DEF AdminTypes
  <2>6. \A i, j \in 1..(n - 1) : t[i].ip = t[j].ip => i = j
    BY <2>4, <2>5
  <2>7. ASSUME NEW i \in 1..(n - 1)
        PROVE  t[i].ip # ip /\ \E j \in 1..n : t[i] = windows[j]
    BY <2>1, <2>4, <2>5
  <2>8. ASSUME NEW j \in 1..n, windows[j].ip # ip
        PROVE  \E i \in 1..(n - 1) : t[i] = windows[j]
    <3>1. PICK i \in 1..(n - 1) : from(i) = j
      BY <2>1, <2>4, <2>8
    <3>. QED BY <2>4, <3>1
  <2>9. Others(t, ip)
    <3>1. t \in Seq(Window) /\ DOMAIN windows = 1..n
      BY <2>1, <2>2
    <3>. QED BY <2>3, <2>6, <2>7, <2>8, <3>1 DEF Others
  <2>. QED BY <2>1, <2>9
<1>. QED BY <1>1, <1>2

Evicted(w, next, forgot) ==
  LET all == Append(Without(w.ip), w)
      extra == IF Len(all) > MaxKeys THEN Len(all) - MaxKeys ELSE 0
  IN /\ next = SubSeq(all, extra + 1, Len(all))
     /\ forgot = {all[i].ip : i \in 1..extra}

\* What recordFailure makes of the table: the entry is counted, the oldest go.
LEMMA TableAfterFailure ==
  ASSUME AdminTypes, MaxKeys \in Nat \ {0}, NEW w \in Window,
         NEW forgot, NEW next, Evicted(w, next, forgot)
  PROVE  /\ next \in Seq(Window)
         /\ \A i, j \in DOMAIN next : next[i].ip = next[j].ip => i = j
         /\ \E i \in DOMAIN next : next[i] = w
         /\ \A i \in DOMAIN next :
              /\ next[i].ip \notin forgot
              /\ next[i] = w \/ (next[i].ip # w.ip /\ \E j \in DOMAIN windows : next[i] = windows[j])
         /\ \A j \in DOMAIN windows :
              windows[j].ip # w.ip /\ windows[j].ip \notin forgot =>
                \E i \in DOMAIN next : next[i] = windows[j]
<1> DEFINE old == Without(w.ip)
           all == Append(old, w)
           n == Len(old)
           extra == IF n + 1 > MaxKeys THEN n + 1 - MaxKeys ELSE 0
<1>1. /\ old \in Seq(Window) /\ n \in Nat /\ DOMAIN old = 1..n
      /\ \A i, j \in 1..n : old[i].ip = old[j].ip => i = j
      /\ \A i \in 1..n : old[i].ip # w.ip /\ \E j \in DOMAIN windows : old[i] = windows[j]
      /\ \A j \in DOMAIN windows : windows[j].ip # w.ip => \E i \in 1..n : old[i] = windows[j]
  BY WithoutOne DEF Others
<1>2. /\ all \in Seq(Window) /\ Len(all) = n + 1 /\ all[n + 1] = w
      /\ \A i \in 1..n : all[i] = old[i]
  BY <1>1
<1>3. next = SubSeq(all, extra + 1, n + 1) /\ forgot = {all[i].ip : i \in 1..extra}
  BY <1>2 DEF Evicted
<1>4. extra \in 0..n
  BY <1>1
<1>5. \A i, j \in 1..(n + 1) : all[i].ip = all[j].ip => i = j
  BY <1>1, <1>2
<1> HIDE DEF old, all, n, extra
<1>6. /\ next \in Seq(Window) /\ Len(next) = n + 1 - extra /\ DOMAIN next = 1..(n + 1 - extra)
      /\ \A i \in 1..(n + 1 - extra) : next[i] = all[extra + i]
  BY <1>1, <1>2, <1>3, <1>4, SMTT(30)
<1>7. \A i \in DOMAIN next : extra + i \in 1..(n + 1) /\ extra + i > extra
  BY <1>1, <1>4, <1>6
<1>8. \A k \in 1..(n + 1) : k > extra => k - extra \in DOMAIN next /\ next[k - extra] = all[k]
  BY <1>1, <1>4, <1>6
<1>9. \A i, j \in DOMAIN next : next[i].ip = next[j].ip => i = j
  BY <1>1, <1>4, <1>5, <1>6, <1>7
<1>10. \E i \in DOMAIN next : next[i] = w
  BY <1>1, <1>2, <1>4, <1>8
<1>11. ASSUME NEW i \in DOMAIN next
       PROVE  /\ next[i].ip \notin forgot
              /\ next[i] = w \/ (next[i].ip # w.ip /\ \E j \in DOMAIN windows : next[i] = windows[j])
  <2>1. next[i] = all[extra + i] /\ extra + i \in 1..(n + 1) /\ extra + i > extra
    BY <1>6, <1>7
  <2>2. \A k \in 1..extra : k \in 1..(n + 1) /\ k # extra + i
    BY <1>1, <1>4, <2>1
  <2>3. next[i].ip \notin forgot
    BY <1>3, <1>5, <2>1, <2>2
  <2>4. extra + i = n + 1 \/ extra + i \in 1..n
    BY <1>1, <2>1
  <2>5. CASE extra + i = n + 1
    <3>1. next[i] = w
      BY <1>2, <2>1, <2>5
    <3>. QED BY <2>3, <3>1
  <2>6. CASE extra + i \in 1..n
    BY <1>1, <1>2, <2>1, <2>3, <2>6
  <2>. QED BY <2>4, <2>5, <2>6
<1>12. ASSUME NEW j \in DOMAIN windows, windows[j].ip # w.ip, windows[j].ip \notin forgot
       PROVE  \E i \in DOMAIN next : next[i] = windows[j]
  <2>1. PICK k \in 1..n : old[k] = windows[j]
    BY <1>1, <1>12
  <2>2. all[k] = windows[j] /\ k \in 1..(n + 1)
    BY <1>1, <1>2, <2>1
  <2>3. k > extra
    BY <1>1, <1>3, <1>4, <1>12, <2>1, <2>2
  <2>. QED BY <1>8, <2>2, <2>3
<1>. QED BY <1>6, <1>9, <1>10, <1>11, <1>12

-----------------------------------------------------------------------------
(* The guard: the steps *)

\* ShedsRightly, of any history of calls.
Sound(past) ==
  \A i \in DOMAIN past : LET ip == past[i].ip IN
    /\ past[i].status = 429 =>
         \E j \in 1..(i - 1) :
           /\ past[i].at - past[j].at <= FailureWindow
           /\ Cardinality(Fails(past, ip, j, i - 1)) = Threshold
           /\ Kept(past, ip, j, i - 1)
    /\ \A j \in 1..i :
         past[i].at - past[j].at <= FailureWindow /\ Kept(past, ip, j, i) =>
           Cardinality(Fails(past, ip, j, i)) < 2 * Threshold

LEMMA SoundIsIt == (ShedsRightly <=> Sound(answers)) /\ (ShedsRightly' <=> Sound(answers'))
BY Zenon DEF ShedsRightly, Sound, FailuresOf, Remembered, Fails, Kept

\* What makes the history with one more call sound.
LastSound(past, a) ==
  LET all == Append(past, a) n == Len(past) IN
    /\ a.status = 429 =>
         \E j \in 1..n :
           /\ a.at - past[j].at <= FailureWindow
           /\ Cardinality(Fails(past, a.ip, j, n)) = Threshold
           /\ Kept(past, a.ip, j, n)
    /\ \A j \in 1..(n + 1) :
         a.at - all[j].at <= FailureWindow /\ Kept(all, a.ip, j, n + 1) =>
           Cardinality(Fails(all, a.ip, j, n + 1)) < 2 * Threshold

LEMMA SoundAppend ==
  ASSUME NEW past \in Seq(Given), Sound(past), NEW a \in Given, LastSound(past, a)
  PROVE  Sound(Append(past, a))
<1> DEFINE all == Append(past, a)
           n == Len(past)
<1>1. /\ Len(all) = n + 1 /\ DOMAIN all = 1..(n + 1) /\ n \in Nat /\ DOMAIN past = 1..n
      /\ all[n + 1] = a /\ \A i \in 1..n : all[i] = past[i]
  BY OneMore
<1>2. ASSUME NEW ip, NEW from \in 1..(n + 1), NEW to \in 0..n
      PROVE  /\ Fails(all, ip, from, to) = Fails(past, ip, from, to)
             /\ Kept(all, ip, from, to) <=> Kept(past, ip, from, to)
  BY <1>2, OneMore
<1>3. ASSUME NEW i \in 1..(n + 1)
      PROVE  /\ all[i].status = 429 =>
                  \E j \in 1..(i - 1) :
                    /\ all[i].at - all[j].at <= FailureWindow
                    /\ Cardinality(Fails(all, all[i].ip, j, i - 1)) = Threshold
                    /\ Kept(all, all[i].ip, j, i - 1)
             /\ \A j \in 1..i :
                  all[i].at - all[j].at <= FailureWindow /\ Kept(all, all[i].ip, j, i) =>
                    Cardinality(Fails(all, all[i].ip, j, i)) < 2 * Threshold
  <2>1. CASE i = n + 1
    <3>1. i - 1 = n /\ n \in 0..n /\ \A j \in 1..n : j \in 1..(n + 1) /\ all[j] = past[j]
      BY <1>1, <2>1
    <3>2. /\ a.status = 429 =>
                \E j \in 1..n :
                  /\ a.at - past[j].at <= FailureWindow
                  /\ Cardinality(Fails(past, a.ip, j, n)) = Threshold
                  /\ Kept(past, a.ip, j, n)
          /\ \A j \in 1..(n + 1) :
                a.at - all[j].at <= FailureWindow /\ Kept(all, a.ip, j, n + 1) =>
                  Cardinality(Fails(all, a.ip, j, n + 1)) < 2 * Threshold
      BY DEF LastSound
    <3> HIDE DEF all, n
    <3>. QED BY <1>1, <1>2, <2>1, <3>1, <3>2
  <2>2. CASE i # n + 1
    <3>1. i \in 1..n /\ i \in 0..n /\ i - 1 \in 0..n
      BY <1>1, <2>2
    <3>2. \A j \in 1..i : j \in 1..(n + 1) /\ j \in 1..n /\ all[j] = past[j]
      BY <1>1, <3>1
    <3>3. 1..(i - 1) \subseteq 1..i /\ i \in 1..i
      BY <1>1, <3>1
    <3>4. /\ past[i].status = 429 =>
                \E j \in 1..(i - 1) :
                  /\ past[i].at - past[j].at <= FailureWindow
                  /\ Cardinality(Fails(past, past[i].ip, j, i - 1)) = Threshold
                  /\ Kept(past, past[i].ip, j, i - 1)
          /\ \A j \in 1..i :
                past[i].at - past[j].at <= FailureWindow /\ Kept(past, past[i].ip, j, i) =>
                  Cardinality(Fails(past, past[i].ip, j, i)) < 2 * Threshold
      BY <1>1, <3>1 DEF Sound
    <3> HIDE DEF all, n
    <3>. QED BY <1>2, <3>1, <3>2, <3>3, <3>4
  <2>. QED BY <2>1, <2>2
<1> HIDE DEF all, n
<1>4. Sound(all)
  BY <1>1, <1>3 DEF Sound
<1>. QED BY <1>4 DEF all

Now(a) == a.at = clock

\* The history stays in order.
LEMMA InTimeAppend ==
  ASSUME AdminTypes, NEW a \in Given, Now(a)
  PROVE  InTime(Append(answers, a)) /\ \A i \in DOMAIN Append(answers, a) :
                                        Append(answers, a)[i].at <= clock
<1> DEFINE all == Append(answers, a)
           n == Len(answers)
<1>1. /\ Len(all) = n + 1 /\ DOMAIN all = 1..(n + 1) /\ n \in Nat /\ DOMAIN answers = 1..n
      /\ all[n + 1] = a /\ \A i \in 1..n : all[i] = answers[i]
  BY DEF AdminTypes
<1>2. \A i \in 1..n : answers[i].at <= clock /\ \A j \in 1..n : i <= j => answers[i].at <= answers[j].at
  BY <1>1 DEF AdminTypes, InTime
<1>3. clock \in Nat /\ a.at = clock
  BY DEF AdminTypes, Now
<1> HIDE DEF all, n
<1>4. \A i \in 1..(n + 1) : i = n + 1 \/ i \in 1..n
  BY <1>1
<1>5. \A i \in 1..(n + 1) : all[i].at <= clock
  BY <1>1, <1>2, <1>3, <1>4
<1>6. ASSUME NEW i \in 1..(n + 1), NEW j \in 1..(n + 1), i <= j
      PROVE  all[i].at <= all[j].at
  <2>1. CASE j = n + 1
    BY <1>1, <1>3, <1>5, <2>1
  <2>2. CASE j \in 1..n
    <3>1. i \in 1..n
      BY <1>1, <1>6, <2>2
    <3>. QED BY <1>1, <1>2, <1>6, <2>2, <3>1
  <2>. QED BY <1>4, <2>1, <2>2
<1>. QED BY <1>1, <1>5, <1>6 DEF InTime, all

\* The parts of the invariant after another call.
Recorded(a) == a \in Given /\ Now(a) /\ answers' = Append(answers, a) /\ clock' = clock
TableNext ==
  /\ windows' \in Seq(Window)
  /\ \A i, j \in DOMAIN windows' : windows'[i].ip = windows'[j].ip => i = j

LEMMA AfterCall ==
  ASSUME AdminInv, NEW a, Recorded(a), TableNext, WindowsTell', OthersClean',
         LastSound(answers, a)
  PROVE  AdminInv'
<1>1. a \in Given /\ Now(a) /\ answers' = Append(answers, a) /\ clock' = clock
  BY DEF Recorded
<1>2. AdminTypes /\ Sound(answers) /\ answers \in Seq(Given) /\ clock \in Nat
  BY SoundIsIt DEF AdminInv, AdminTypes
<1>3. Sound(answers') /\ answers' \in Seq(Given)
  BY <1>1, <1>2, SoundAppend
<1>4. InTime(answers') /\ \A i \in DOMAIN answers' : answers'[i].at <= clock
  BY <1>1, <1>2, InTimeAppend
<1>5. AdminTypes'
  <2>1. answers' \in Seq(Given) /\ clock' \in Nat
    BY <1>1, <1>2, <1>3
  <2>2. InTime(answers)'
    BY <1>4
  <2>3. \A i \in DOMAIN answers' : answers'[i].at <= clock'
    BY <1>1, <1>4
  <2>. QED BY <2>1, <2>2, <2>3 DEF AdminTypes, TableNext
<1>6. ShedsRightly'
  BY <1>3, SoundIsIt
<1>. QED BY <1>5, <1>6 DEF AdminInv

\* A source without failures that are not forgotten has none after a call that
\* is no failure of it; one that is forgotten has none either.
LEMMA StaysClean ==
  ASSUME NEW past \in Seq(Given), NEW a \in Given, NEW s, ~FailureOf(a, s),
         Clean(past, s) \/ s \in a.forgot
  PROVE  Clean(Append(past, a), s)
<1> DEFINE all == Append(past, a)
           n == Len(past)
<1>1. Len(all) = n + 1 /\ n \in Nat
  BY OneMore
<1>2. ASSUME NEW k \in 1..(n + 1), Kept(all, s, k, n + 1)
      PROVE  Fails(all, s, k, n + 1) = {}
  <2>1. /\ Fails(all, s, k, n + 1) = Fails(past, s, k, n)
        /\ Kept(past, s, k, n) /\ s \notin a.forgot
    <3>1. /\ Fails(all, s, k, n + 1) = Fails(past, s, k, n)
                 \cup (IF FailureOf(a, s) THEN {n + 1} ELSE {})
          /\ Kept(all, s, k, n + 1) <=> Kept(past, s, k, n) /\ s \notin a.forgot
      BY UpToNow, Zenon
    <3>. QED BY <1>2, <3>1
  <2>2. CASE k \in 1..n
    BY <2>1, <2>2 DEF Clean
  <2>3. CASE k = n + 1
    <3>1. k..n = {}
      BY <1>1, <2>3
    <3>. QED BY <2>1, <3>1 DEF Fails
  <2>. QED BY <1>1, <2>2, <2>3
<1> HIDE DEF all, n
<1>3. Clean(all, s)
  BY <1>1, <1>2 DEF Clean
<1>. QED BY <1>3 DEF all

\* The caller's own window bounds its failures up to the call.
LEMMA WindowBounds ==
  ASSUME AdminAuthAssumption, AdminInv, NEW a, Recorded(a),
         NEW w \in Window, w.ip = a.ip, w.start <= clock,
         NEW j \in DOMAIN Append(answers, a), Opened(Append(answers, a), w, j)
  PROVE  \A k \in 1..(Len(answers) + 1) :
           a.at - Append(answers, a)[k].at <= FailureWindow
             /\ Kept(Append(answers, a), a.ip, k, Len(answers) + 1) =>
               Cardinality(Fails(Append(answers, a), a.ip, k, Len(answers) + 1)) < 2 * Threshold
<1> DEFINE all == Append(answers, a)
           n == Len(answers)
<1>1. /\ a \in Given /\ Now(a) /\ AdminTypes /\ answers \in Seq(Given) /\ clock \in Nat
      /\ a.at = clock
  BY DEF AdminInv, AdminTypes, Recorded, Now
<1>2. all \in Seq(Given) /\ Len(all) = n + 1 /\ DOMAIN all = 1..(n + 1) /\ n \in Nat /\ InTime(all)
  BY <1>1, OneMore, InTimeAppend
<1>3. Threshold \in Nat \ {0} /\ FailureWindow \in Nat /\ w.count \in Nat /\ w.count <= Threshold
  BY DEF AdminAuthAssumption, Window, Opened
<1>4. j \in DOMAIN all /\ Opened(all, w, j)
  OBVIOUS
<1> HIDE DEF all, n
<1>5. ASSUME NEW k \in 1..(n + 1), a.at - all[k].at <= FailureWindow, Kept(all, a.ip, k, n + 1)
      PROVE  Cardinality(Fails(all, a.ip, k, n + 1)) < 2 * Threshold
  <2>1. Kept(all, w.ip, k, Len(all)) /\ clock - all[k].at <= FailureWindow /\ k \in DOMAIN all
    BY <1>1, <1>2, <1>5
  <2>2. Cardinality(Fails(all, w.ip, k, Len(all))) < Threshold + w.count
    BY <1>1, <1>2, <1>3, <1>4, <2>1, Stretch
  <2>3. Cardinality(Fails(all, w.ip, k, Len(all))) \in Nat
    BY <1>2, FailsFinite
  <2>4. Cardinality(Fails(all, w.ip, k, Len(all))) < 2 * Threshold
    BY <1>3, <2>2, <2>3
  <2>. QED BY <1>2, <2>4
<1>. QED BY <1>5 DEF all, n

\* The record of a call.
TheCall(ip, right, status, forgot) ==
  [ip |-> ip, right |-> right, status |-> status, at |-> clock, forgot |-> forgot]

\* A call as the history holds it.
LEMMA CallRecorded ==
  ASSUME AdminTypes, NEW ip \in Sources, NEW right \in BOOLEAN, NEW status \in {200, 401, 429},
         NEW forgot \in SUBSET Sources, Answered(ip, right, status, forgot), clock' = clock
  PROVE  /\ Recorded(TheCall(ip, right, status, forgot))
         /\ TheCall(ip, right, status, forgot).ip = ip
         /\ TheCall(ip, right, status, forgot).status = status
         /\ TheCall(ip, right, status, forgot).at = clock
         /\ TheCall(ip, right, status, forgot).forgot = forgot
BY DEF AdminTypes, Answered, TheCall, Recorded, Given, Now

\* A call that was admitted, and one that was refused, as the history holds it.
LEMMA AdmittedRecorded ==
  ASSUME AdminTypes, NEW ip \in Sources, Answered(ip, TRUE, 200, {ip}), clock' = clock
  PROVE  /\ Recorded(TheCall(ip, TRUE, 200, {ip}))
         /\ TheCall(ip, TRUE, 200, {ip}).ip = ip
         /\ TheCall(ip, TRUE, 200, {ip}).status = 200
         /\ TheCall(ip, TRUE, 200, {ip}).at = clock
         /\ TheCall(ip, TRUE, 200, {ip}).forgot = {ip}
<1>1. /\ TheCall(ip, TRUE, 200, {ip}).ip = ip
      /\ TheCall(ip, TRUE, 200, {ip}).status = 200
      /\ TheCall(ip, TRUE, 200, {ip}).at = clock
      /\ TheCall(ip, TRUE, 200, {ip}).forgot = {ip}
  BY DEF TheCall
<1>2. TheCall(ip, TRUE, 200, {ip}) \in Given
  BY DEF TheCall, Given, AdminTypes
<1>3. answers' = Append(answers, TheCall(ip, TRUE, 200, {ip}))
  BY DEF TheCall, Answered
<1>. QED BY <1>1, <1>2, <1>3 DEF Recorded, Now

TheRefusal(ip, forgot) == TheCall(ip, FALSE, 401, forgot)
Refused(ip, forgot) == Answered(ip, FALSE, 401, forgot)

LEMMA RefusedRecorded ==
  ASSUME AdminTypes, NEW ip \in Sources, NEW forgot \in SUBSET Sources,
         Refused(ip, forgot), clock' = clock
  PROVE  /\ Recorded(TheRefusal(ip, forgot))
         /\ TheRefusal(ip, forgot).ip = ip
         /\ TheRefusal(ip, forgot).status = 401
         /\ TheRefusal(ip, forgot).at = clock
         /\ TheRefusal(ip, forgot).forgot = forgot
<1>1. /\ TheRefusal(ip, forgot).ip = ip
      /\ TheRefusal(ip, forgot).status = 401
      /\ TheRefusal(ip, forgot).at = clock
      /\ TheRefusal(ip, forgot).forgot = forgot
  BY DEF TheRefusal, TheCall
<1>2. TheRefusal(ip, forgot) \in Given
  BY DEF TheRefusal, TheCall, Given, AdminTypes
<1>3. answers' = Append(answers, TheRefusal(ip, forgot))
  BY DEF TheRefusal, TheCall, Refused, Answered
<1>. QED BY <1>1, <1>2, <1>3 DEF Recorded, Now

\* A source is blocked by Threshold failures in its window.
LEMMA ShedStep ==
  ASSUME AdminAuthAssumption, AdminInv, NEW ip \in Sources, NEW right \in BOOLEAN,
         Shed(ip, right), clock' = clock
  PROVE  AdminInv'
<1> DEFINE a == TheCall(ip, right, 429, {})
           all == Append(answers, a)
           n == Len(answers)
           w == Entry(ip)
<1>1. /\ AdminTypes /\ windows' = windows /\ IsBlocked(ip) /\ answers \in Seq(Given)
      /\ clock \in Nat /\ n \in Nat /\ DOMAIN answers = 1..n
  BY DEF AdminInv, AdminTypes, Shed
<1>2. Recorded(a) /\ a.ip = ip /\ a.status = 429 /\ a.at = clock /\ a.forgot = {}
  BY <1>1, CallRecorded DEF Shed
<1> HIDE DEF a
<1>3. answers' = all /\ a \in Given /\ \A s : ~FailureOf(a, s)
  BY <1>2 DEF Recorded, FailureOf
<1>4. PICK p \in DOMAIN windows : windows[p] = w /\ w \in Window /\ w.ip = ip
  BY <1>1, TrackedEntry DEF IsBlocked, Entry
<1>5. PICK j \in DOMAIN answers : Opened(answers, w, j)
  BY <1>4 DEF AdminInv, WindowsTell
<1>6. j \in DOMAIN all /\ Opened(all, w, j)
  BY <1>1, <1>2, <1>3, <1>4, <1>5, KeepsOpen
<1>7. /\ w.count = Threshold /\ clock - w.start <= FailureWindow
  BY <1>1, <1>4, <1>5 DEF IsBlocked, Lapsed, AdminAuthAssumption, Opened, Window
<1>8. w.start <= clock
  BY <1>1, <1>5 DEF Opened, AdminTypes
<1>9. LastSound(answers, a)
  <2>1. \A k \in 1..(n + 1) :
          a.at - all[k].at <= FailureWindow /\ Kept(all, a.ip, k, n + 1) =>
            Cardinality(Fails(all, a.ip, k, n + 1)) < 2 * Threshold
    BY <1>2, <1>4, <1>6, <1>8, WindowBounds
  <2>2. /\ a.at - answers[j].at <= FailureWindow
        /\ Cardinality(Fails(answers, a.ip, j, n)) = Threshold
        /\ Kept(answers, a.ip, j, n) /\ j \in 1..n
    BY <1>1, <1>2, <1>4, <1>5, <1>7 DEF Opened
  <2>. QED BY <2>1, <2>2 DEF LastSound
<1>10. WindowsTell'
  <2>1. ASSUME NEW i \in DOMAIN windows
        PROVE  \E k \in DOMAIN all : Opened(all, windows[i], k)
    <3>1. PICK k \in DOMAIN answers : Opened(answers, windows[i], k)
      BY DEF AdminInv, WindowsTell
    <3>2. windows[i] \in Window
      BY <1>1 DEF AdminTypes
    <3>. QED BY <1>1, <1>2, <1>3, <3>1, <3>2, KeepsOpen
  <2>. QED BY <1>1, <1>3, <2>1 DEF WindowsTell
<1>11. OthersClean'
  <2>1. ASSUME NEW s \in Sources, \A i \in DOMAIN windows : windows[i].ip # s
        PROVE  Clean(all, s)
    BY <1>1, <1>3, <2>1, StaysClean DEF AdminInv, OthersClean
  <2>. QED BY <1>1, <1>3, <2>1 DEF OthersClean
<1>12. TableNext
  BY <1>1 DEF AdminTypes, TableNext
<1>. QED BY <1>2, <1>9, <1>10, <1>11, <1>12, AfterCall

\* A right token forgives the failures of its source.
LEMMA AdmitStep ==
  ASSUME AdminAuthAssumption, AdminInv, NEW ip \in Sources, Admit(ip), clock' = clock
  PROVE  AdminInv'
<1> DEFINE a == TheCall(ip, TRUE, 200, {ip})
           all == Append(answers, a)
           n == Len(answers)
<1>1. /\ AdminTypes /\ windows' = Without(ip) /\ answers \in Seq(Given)
      /\ n \in Nat /\ DOMAIN answers = 1..n
  BY DEF AdminInv, AdminTypes, Admit
<1>2. Recorded(a) /\ a.ip = ip /\ a.status = 200 /\ a.forgot = {ip}
  BY <1>1, AdmittedRecorded DEF Admit
<1> HIDE DEF a
<1>3. answers' = all /\ a \in Given /\ \A s : ~FailureOf(a, s)
  BY <1>2 DEF Recorded, FailureOf
<1>4. Others(windows', ip)
  BY <1>1, WithoutOne
<1>5. LastSound(answers, a)
  <2>1. \A k \in 1..(n + 1) : ~Kept(all, a.ip, k, n + 1)
    <3>1. \A k \in 1..(n + 1) :
            Kept(all, a.ip, k, n + 1) <=> Kept(answers, a.ip, k, n) /\ a.ip \notin a.forgot
      BY <1>1, <1>3, UpToNow, Zenon
    <3>. QED BY <1>2, <3>1
  <2>. QED BY <1>2, <2>1 DEF LastSound
<1>6. WindowsTell'
  <2>1. ASSUME NEW i \in DOMAIN windows'
        PROVE  \E k \in DOMAIN all : Opened(all, windows'[i], k)
    <3>1. PICK l \in DOMAIN windows : windows'[i] = windows[l] /\ windows[l].ip # ip
      BY <1>4 DEF Others
    <3>2. PICK k \in DOMAIN answers : Opened(answers, windows[l], k)
      BY DEF AdminInv, WindowsTell
    <3>3. windows[l] \in Window
      BY <1>1 DEF AdminTypes
    <3>4. k \in DOMAIN all /\ Opened(all, windows[l], k)
      BY <1>1, <1>2, <1>3, <3>1, <3>2, <3>3, KeepsOpen
    <3>. QED BY <3>1, <3>4
  <2>. QED BY <1>3, <2>1 DEF WindowsTell
<1>7. OthersClean'
  <2>1. ASSUME NEW s \in Sources, \A i \in DOMAIN windows' : windows'[i].ip # s
        PROVE  Clean(all, s)
    <3>1. CASE s = ip
      BY <1>1, <1>2, <1>3, <3>1, StaysClean
    <3>2. CASE s # ip
      <4>1. \A i \in DOMAIN windows : windows[i].ip # s
        BY <1>4, <2>1, <3>2 DEF Others
      <4>. QED BY <1>1, <1>3, <4>1, StaysClean DEF AdminInv, OthersClean
    <3>. QED BY <3>1, <3>2
  <2>. QED BY <1>3, <2>1 DEF OthersClean
<1>8. TableNext
  BY <1>4 DEF Others, TableNext
<1>. QED BY <1>2, <1>5, <1>6, <1>7, <1>8, AfterCall

\* A wrong token is counted in the open window of its source, or opens one.
LEMMA RefuseStep ==
  ASSUME AdminAuthAssumption, AdminInv, NEW ip \in Sources, Refuse(ip), clock' = clock
  PROVE  AdminInv'
<1> DEFINE w == Counted(ip)
           n == Len(answers)
<1>1. /\ AdminTypes /\ answers \in Seq(Given) /\ n \in Nat /\ DOMAIN answers = 1..n
      /\ clock \in Nat /\ ~IsBlocked(ip) /\ InTime(answers)
      /\ Threshold \in Nat \ {0} /\ MaxKeys \in Nat \ {0} /\ FailureWindow \in Nat
  BY DEF AdminInv, AdminTypes, Refuse, AdminAuthAssumption
\* The entry: of an open window, or a new one.
<1>2. /\ w \in Window /\ w.ip = ip
      /\ \/ /\ Entry(ip) \in Window /\ Entry(ip).ip = ip /\ Place(ip) \in DOMAIN windows
            /\ Entry(ip).count < Threshold /\ w = [Entry(ip) EXCEPT !.count = @ + 1]
         \/ /\ w = [ip |-> ip, count |-> 1, start |-> clock]
            /\ \/ \A i \in DOMAIN windows : windows[i].ip # ip
               \/ /\ Entry(ip) \in Window /\ Entry(ip).ip = ip /\ Place(ip) \in DOMAIN windows
                  /\ clock - Entry(ip).start > FailureWindow
  <2>1. CASE Tracked(ip) /\ ~Lapsed(Entry(ip))
    <3>1. /\ Entry(ip) \in Window /\ Entry(ip).ip = ip /\ Place(ip) \in DOMAIN windows
      BY <1>1, <2>1, TrackedEntry
    <3>2. w = [Entry(ip) EXCEPT !.count = @ + 1]
      BY <2>1 DEF Counted
    <3>3. Entry(ip).count < Threshold
      BY <1>1, <2>1, <3>1 DEF IsBlocked, Window
    <3>4. w \in Window /\ w.ip = ip
      BY <3>1, <3>2 DEF Window
    <3>. QED BY <3>1, <3>2, <3>3, <3>4
  <2>2. CASE ~(Tracked(ip) /\ ~Lapsed(Entry(ip)))
    <3>1. w = [ip |-> ip, count |-> 1, start |-> clock]
      BY <2>2 DEF Counted
    <3>2. w \in Window /\ w.ip = ip
      BY <1>1, <3>1 DEF Window
    <3>3. \/ \A i \in DOMAIN windows : windows[i].ip # ip
          \/ /\ Entry(ip) \in Window /\ Entry(ip).ip = ip /\ Place(ip) \in DOMAIN windows
             /\ clock - Entry(ip).start > FailureWindow
      BY <1>1, <2>2, TrackedEntry DEF Lapsed
    <3>. QED BY <3>1, <3>2, <3>3
  <2>. QED BY <2>1, <2>2
<1> HIDE DEF w
<1>3. PICK forgot \in SUBSET Sources : /\ Evicted(w, windows', forgot) /\ Refused(ip, forgot)
  <2> DEFINE every == Append(Without(ip), w)
             extra == IF Len(every) > MaxKeys THEN Len(every) - MaxKeys ELSE 0
             gone == {every[i].ip : i \in 1..extra}
  <2>1. /\ windows' = SubSeq(every, extra + 1, Len(every))
        /\ Refused(ip, gone)
    BY DEF Refuse, Refused, w
  <2>2. Evicted(w, windows', gone)
    BY <1>2, <2>1 DEF Evicted
  <2>3. gone \in SUBSET Sources
    <3>1. Without(ip) \in Seq(Window)
      BY <1>1, WithoutOne DEF Others
    <3>2. every \in Seq(Window) /\ Len(every) \in Nat /\ DOMAIN every = 1..Len(every)
      BY <1>2, <3>1
    <3>3. \A i \in 1..extra : i \in 1..Len(every)
      BY <1>1, <3>2
    <3>4. \A i \in 1..Len(every) : every[i] \in Window
      BY <3>2
    <3> HIDE DEF every, extra
    <3>. QED BY <3>3, <3>4 DEF Window
  <2> HIDE DEF gone
  <2>. QED BY <2>1, <2>2, <2>3
<1>4. /\ TableNext /\ \E i \in DOMAIN windows' : windows'[i] = w
      /\ \A i \in DOMAIN windows' :
           /\ windows'[i].ip \notin forgot
           /\ windows'[i] = w
                \/ (windows'[i].ip # w.ip /\ \E j \in DOMAIN windows : windows'[i] = windows[j])
      /\ \A j \in DOMAIN windows :
           windows[j].ip # w.ip /\ windows[j].ip \notin forgot =>
             \E i \in DOMAIN windows' : windows'[i] = windows[j]
  BY <1>1, <1>2, <1>3, TableAfterFailure DEF TableNext
<1> DEFINE a == TheRefusal(ip, forgot)
           all == Append(answers, a)
<1>5. Recorded(a) /\ a.ip = ip /\ a.status = 401 /\ a.at = clock /\ a.forgot = forgot
  <2>1. AdminTypes /\ Refused(ip, forgot)
    BY <1>1, <1>3
  <2>. QED BY <2>1, RefusedRecorded
<1> HIDE DEF a
<1>6. /\ answers' = all /\ a \in Given /\ FailureOf(a, a.ip) /\ w.ip \notin a.forgot
      /\ \A s : s # ip => ~FailureOf(a, s)
  BY <1>2, <1>4, <1>5 DEF Recorded, FailureOf
<1>7. PICK j \in DOMAIN all : Opened(all, w, j)
  <2>1. CASE /\ Entry(ip) \in Window /\ Entry(ip).ip = ip /\ Place(ip) \in DOMAIN windows
             /\ Entry(ip).count < Threshold /\ w = [Entry(ip) EXCEPT !.count = @ + 1]
    <3> DEFINE v == Entry(ip)
    <3>1. PICK k \in DOMAIN answers : Opened(answers, v, k)
      BY <2>1 DEF AdminInv, WindowsTell, Entry
    <3>2. FailureOf(a, v.ip) /\ v.ip \notin a.forgot /\ v \in Window /\ v.count < Threshold
      BY <1>2, <1>5, <1>6, <2>1
    <3>3. w = [v EXCEPT !.count = @ + 1]
      BY <2>1
    <3> HIDE DEF v, all
    <3>4. k \in DOMAIN Append(answers, a) /\ Opened(Append(answers, a), [v EXCEPT !.count = @ + 1], k)
      BY <1>1, <1>6, <3>1, <3>2, CountsOpen
    <3>. QED BY <3>3, <3>4 DEF all
  <2>2. CASE /\ w = [ip |-> ip, count |-> 1, start |-> clock]
             /\ \/ \A i \in DOMAIN windows : windows[i].ip # ip
                \/ /\ Entry(ip) \in Window /\ Entry(ip).ip = ip /\ Place(ip) \in DOMAIN windows
                   /\ clock - Entry(ip).start > FailureWindow
    <3>1. \/ Clean(answers, a.ip)
          \/ \E v \in Window : \E k \in DOMAIN answers :
               v.ip = a.ip /\ Opened(answers, v, k) /\ a.at - v.start > FailureWindow
      <4>1. CASE \A i \in DOMAIN windows : windows[i].ip # ip
        BY <1>5, <4>1 DEF AdminInv, OthersClean
      <4>2. CASE /\ Entry(ip) \in Window /\ Entry(ip).ip = ip /\ Place(ip) \in DOMAIN windows
                 /\ clock - Entry(ip).start > FailureWindow
        <5>1. PICK k \in DOMAIN answers : Opened(answers, Entry(ip), k)
          BY <4>2 DEF AdminInv, WindowsTell, Entry
        <5>. QED BY <1>5, <4>2, <5>1
      <4>. QED BY <2>2, <4>1, <4>2
    <3>2. /\ Len(answers) + 1 \in DOMAIN all
          /\ Opened(all, [ip |-> a.ip, count |-> 1, start |-> a.at], Len(answers) + 1)
      BY <1>1, <1>2, <1>5, <1>6, <3>1, OpensNew
    <3>3. w = [ip |-> a.ip, count |-> 1, start |-> a.at]
      BY <1>5, <2>2
    <3>. QED BY <3>2, <3>3
  <2>. QED BY <1>2, <2>1, <2>2
<1>8. w.start <= clock
  <2>1. all[j].at = w.start /\ j \in DOMAIN all
    BY <1>7 DEF Opened
  <2>. QED BY <1>1, <1>5, <1>6, <2>1, InTimeAppend DEF Recorded
<1>9. LastSound(answers, a)
  <2>1. w.ip = a.ip
    BY <1>2, <1>5
  <2>. QED BY <1>2, <1>5, <1>7, <1>8, <2>1, WindowBounds DEF LastSound
<1>10. WindowsTell'
  <2>1. ASSUME NEW i \in DOMAIN windows'
        PROVE  \E k \in DOMAIN all : Opened(all, windows'[i], k)
    <3>1. CASE windows'[i] = w
      BY <1>7, <3>1
    <3>2. CASE windows'[i].ip # w.ip /\ \E l \in DOMAIN windows : windows'[i] = windows[l]
      <4>1. PICK l \in DOMAIN windows : windows'[i] = windows[l]
        BY <3>2
      <4>2. PICK k \in DOMAIN answers : Opened(answers, windows[l], k)
        BY DEF AdminInv, WindowsTell
      <4>3. /\ windows[l] \in Window /\ windows[l].ip \notin a.forgot
            /\ ~FailureOf(a, windows[l].ip)
        BY <1>1, <1>2, <1>4, <1>5, <1>6, <3>2, <4>1 DEF AdminTypes
      <4>4. k \in DOMAIN all /\ Opened(all, windows[l], k)
        BY <1>1, <1>6, <4>2, <4>3, KeepsOpen
      <4>. QED BY <4>1, <4>4
    <3>. QED BY <1>4, <3>1, <3>2
  <2>. QED BY <1>6, <2>1 DEF WindowsTell
<1>11. OthersClean'
  <2>1. ASSUME NEW s \in Sources, \A i \in DOMAIN windows' : windows'[i].ip # s
        PROVE  Clean(all, s)
    <3>1. s # ip
      BY <1>2, <1>4, <2>1
    <3>2. CASE \A i \in DOMAIN windows : windows[i].ip # s
      BY <1>1, <1>6, <3>1, <3>2, StaysClean DEF AdminInv, OthersClean
    <3>3. CASE \E i \in DOMAIN windows : windows[i].ip = s
      <4>1. s \in a.forgot
        BY <1>2, <1>4, <1>5, <2>1, <3>1, <3>3
      <4>. QED BY <1>1, <1>6, <3>1, <4>1, StaysClean
    <3>. QED BY <3>2, <3>3
  <2>. QED BY <1>6, <2>1 DEF OthersClean
<1>. QED BY <1>4, <1>5, <1>9, <1>10, <1>11, AfterCall

-----------------------------------------------------------------------------
(* The guard: the theorem *)

LEMMA AdminInitially == AdminInit => AdminInv
<1> SUFFICES ASSUME AdminInit PROVE AdminInv
  OBVIOUS
<1>1. clock = 0 /\ windows = <<>> /\ answers = <<>>
  BY DEF AdminInit
<1>2. AdminTypes /\ WindowsTell /\ ShedsRightly
  BY <1>1 DEF AdminTypes, InTime, WindowsTell, ShedsRightly
<1>3. OthersClean
  BY <1>1 DEF OthersClean, Clean
<1>. QED BY <1>2, <1>3 DEF AdminInv

LEMMA AdminStep == AdminAuthAssumption /\ AdminInv /\ [AdminNext]_adminVars => AdminInv'
<1> SUFFICES ASSUME AdminAuthAssumption, AdminInv, [AdminNext]_adminVars PROVE AdminInv'
  OBVIOUS
<1>1. ASSUME NEW ip \in Sources, CallApi(ip) PROVE AdminInv'
  <2>1. clock' = clock
    BY <1>1 DEF CallApi
  <2>. QED BY <1>1, <2>1, ShedStep, AdmitStep, RefuseStep DEF CallApi
<1>2. CASE Elapse
  <2>1. UNCHANGED <<windows, answers>> /\ clock' = clock + 1 /\ clock \in Nat
    BY <1>2 DEF Elapse, AdminInv, AdminTypes
  <2>2. \A i \in DOMAIN answers : answers[i].at \in Nat /\ answers[i].at <= clock
    <3>1. \A i \in DOMAIN answers : answers[i] \in Given
      BY DEF AdminInv, AdminTypes
    <3>. QED BY <3>1 DEF AdminInv, AdminTypes, Given
  <2>3. AdminTypes'
    BY <2>1, <2>2 DEF AdminInv, AdminTypes
  <2>4. ShedsRightly'
    BY <2>1, SoundIsIt DEF AdminInv
  <2>5. WindowsTell' /\ OthersClean'
    BY <2>1 DEF AdminInv, WindowsTell, OthersClean
  <2>. QED BY <2>3, <2>4, <2>5 DEF AdminInv
<1>3. CASE UNCHANGED adminVars
  <2>1. UNCHANGED <<clock, windows, answers>>
    BY <1>3 DEF adminVars
  <2>2. ShedsRightly'
    BY <2>1, SoundIsIt DEF AdminInv
  <2>. QED BY <2>1, <2>2 DEF AdminInv, AdminTypes, WindowsTell, OthersClean
<1>. QED BY <1>1, <1>2, <1>3 DEF AdminNext

\* A source is shed only for as many failures of its own within a window as the
\* threshold asks, none forgotten, and no stretch of a window sees more than
\* twice as many, less one, for any sources, calls, threshold, window and table
\* (server/auth.ts:59-97).
THEOREM ShedsRightlyHolds == AdminAuthAssumption /\ AdminSpec => []ShedsRightly
<1> SUFFICES ASSUME AdminAuthAssumption PROVE AdminSpec => []ShedsRightly
  OBVIOUS
<1>1. AdminInit => AdminInv
  BY AdminInitially
<1>2. AdminInv /\ [AdminNext]_adminVars => AdminInv'
  BY AdminStep
<1>3. AdminInv => ShedsRightly
  BY DEF AdminInv
<1>. QED BY <1>1, <1>2, <1>3, PTL DEF AdminSpec
-----------------------------------------------------------------------------
(* Sets of places in order *)

Below(A, i) == {j \in A : j < i}
Above(A, i) == {j \in A : j > i}

\* Of the places of a set, a later one has more before it and fewer after it.
LEMMA Ranks ==
  ASSUME NEW A \in SUBSET Nat, IsFiniteSet(A), NEW i \in A
  PROVE  /\ IsFiniteSet(Below(A, i)) /\ IsFiniteSet(Above(A, i))
         /\ Cardinality(Below(A, i)) \in 0..(Cardinality(A) - 1)
         /\ Cardinality(Above(A, i)) \in Nat
         /\ \A k \in A : i < k => /\ Cardinality(Below(A, i)) < Cardinality(Below(A, k))
                                  /\ Cardinality(Above(A, k)) < Cardinality(Above(A, i))
<1>1. ASSUME NEW B \in SUBSET A, NEW C \in SUBSET B, NEW x \in B, x \notin C
      PROVE  /\ IsFiniteSet(B) /\ IsFiniteSet(C)
             /\ Cardinality(C) < Cardinality(B) /\ Cardinality(C) \in Nat /\ Cardinality(B) \in Nat
  <2>1. IsFiniteSet(B) /\ IsFiniteSet(C)
    BY FS_Subset
  <2>2. /\ Cardinality(C) <= Cardinality(B) /\ Cardinality(C) # Cardinality(B)
        /\ Cardinality(B) \in Nat /\ Cardinality(C) \in Nat
    BY <1>1, <2>1, FS_Subset, FS_CardinalityType
  <2>. QED BY <2>1, <2>2
<1>2. /\ Below(A, i) \in SUBSET A /\ i \notin Below(A, i) /\ Above(A, i) \in SUBSET A
      /\ i \notin Above(A, i)
  BY DEF Below, Above
<1>3. /\ IsFiniteSet(Below(A, i)) /\ IsFiniteSet(Above(A, i)) /\ Cardinality(A) \in Nat
      /\ Cardinality(Below(A, i)) < Cardinality(A) /\ Cardinality(Below(A, i)) \in Nat
      /\ Cardinality(Above(A, i)) \in Nat
  BY <1>1, <1>2
<1>4. ASSUME NEW k \in A, i < k
      PROVE  /\ Cardinality(Below(A, i)) < Cardinality(Below(A, k))
             /\ Cardinality(Above(A, k)) < Cardinality(Above(A, i))
  <2>1. /\ Below(A, k) \in SUBSET A /\ Below(A, i) \in SUBSET Below(A, k)
        /\ i \in Below(A, k) /\ i \notin Below(A, i)
        /\ Above(A, i) \in SUBSET A /\ Above(A, k) \in SUBSET Above(A, i)
        /\ k \in Above(A, i) /\ k \notin Above(A, k)
    <3>1. \A j \in A : (j < i => j < k) /\ (j > k => j > i) /\ j \in Nat /\ ~(j < j) /\ ~(j > j)
      BY <1>4
    <3>. QED BY <1>4, <3>1 DEF Below, Above
  <2>. QED BY <1>1, <2>1
<1>. QED BY <1>3, <1>4

\* The k-th place.
LEMMA Ranked ==
  ASSUME NEW A \in SUBSET Nat, IsFiniteSet(A), NEW k \in 1..Cardinality(A)
  PROVE  \E i \in A : Cardinality(Below(A, i)) = k - 1
<1> DEFINE n == Cardinality(A)
           R == 0..(n - 1)
           f == [i \in A |-> Cardinality(Below(A, i))]
<1>1. n \in Nat /\ IsFiniteSet(R) /\ Cardinality(R) = n
  <2>1. n \in Nat /\ 0 \in Int /\ n - 1 \in Int
    BY FS_CardinalityType
  <2>2. IsFiniteSet(0..(n - 1)) /\ Cardinality(0..(n - 1)) = IF 0 > n - 1 THEN 0 ELSE (n - 1) - 0 + 1
    BY <2>1, FS_Interval
  <2>. QED BY <2>1, <2>2
<1>2. f \in [A -> R]
  BY Ranks
<1>3. \A i, j \in A : f[i] = f[j] => i = j
  <2>1. ASSUME NEW i \in A, NEW j \in A, i < j PROVE f[i] # f[j]
    BY <2>1, Ranks
  <2>2. \A i, j \in A : i < j \/ j < i \/ i = j
    OBVIOUS
  <2>. QED BY <2>1, <2>2
<1> HIDE DEF R, f
<1>4. f \in Injection(A, R)
  BY <1>2, <1>3 DEF Injection, IsInjective
<1>5. f \in Surjection(A, R)
  BY <1>1, <1>4, FS_Injection DEF n
<1>6. \A r \in R : \E i \in A : f[i] = r
  BY <1>5 DEF Surjection
<1>7. k - 1 \in R
  BY <1>1 DEF R, n
<1>. QED BY <1>6, <1>7 DEF f

\* The places with fewer than m after them are at most m.
LEMMA Newest ==
  ASSUME NEW A \in SUBSET Nat, IsFiniteSet(A), NEW m \in Nat
  PROVE  Cardinality({i \in A : Cardinality(Above(A, i)) < m}) <= m
<1> DEFINE B == {i \in A : Cardinality(Above(A, i)) < m}
           f == [i \in B |-> Cardinality(Above(A, i))]
           R == 0..(m - 1)
<1>1. IsFiniteSet(R) /\ Cardinality(R) = m
  <2>1. IsFiniteSet(0..(m - 1)) /\ Cardinality(0..(m - 1)) = IF 0 > m - 1 THEN 0 ELSE (m - 1) - 0 + 1
    BY FS_Interval
  <2>. QED BY <2>1
<1>2. f \in [B -> R]
  <2>1. \A i \in B : Cardinality(Above(A, i)) \in Nat /\ Cardinality(Above(A, i)) < m
    BY Ranks
  <2>2. \A i \in B : Cardinality(Above(A, i)) \in R
    BY <2>1
  <2> HIDE DEF R, B
  <2>. QED BY <2>2
<1>3. \A i, j \in B : f[i] = f[j] => i = j
  <2>1. ASSUME NEW i \in B, NEW j \in B, i < j PROVE f[i] # f[j]
    <3>1. i \in A /\ j \in A
      OBVIOUS
    <3>2. Cardinality(Above(A, j)) < Cardinality(Above(A, i))
      BY <2>1, <3>1, Ranks
    <3>3. Cardinality(Above(A, j)) \in Nat /\ Cardinality(Above(A, i)) \in Nat
      BY <3>1, Ranks
    <3>. QED BY <3>2, <3>3
  <2>2. \A i, j \in B : i < j \/ j < i \/ i = j
    OBVIOUS
  <2>. QED BY <2>1, <2>2
<1> HIDE DEF R, f, B
<1>4. f \in Injection(B, R)
  BY <1>2, <1>3 DEF Injection, IsInjective
<1>5. Cardinality(B) <= Cardinality(R)
  BY <1>1, <1>4, FS_Injection
<1>. QED BY <1>1, <1>5 DEF B

-----------------------------------------------------------------------------
(* The tables: what prune leaves *)

\* Some of the rows, in their order: at the places f.
Part(some, table, f) ==
  /\ f \in [DOMAIN some -> DOMAIN table]
  /\ \A k \in DOMAIN some : some[k] = table[f[k]]
  /\ \A k, l \in DOMAIN some : k < l => f[k] < f[l]

OfRun(table, r) == {i \in DOMAIN table : table[i].run = r}

\* A run's samples are finitely many.
LEMMA OfRunFinite ==
  ASSUME NEW S, NEW table \in Seq(S), NEW r
  PROVE  /\ IsFiniteSet(OfRun(table, r)) /\ Cardinality(OfRun(table, r)) \in Nat
         /\ OfRun(table, r) \in SUBSET (1..Len(table)) /\ OfRun(table, r) \in SUBSET Nat
<1>1. Len(table) \in Nat /\ DOMAIN table = 1..Len(table)
  OBVIOUS
<1>2. OfRun(table, r) \in SUBSET (1..Len(table)) /\ IsFiniteSet(1..Len(table))
  BY <1>1, FS_Interval DEF OfRun
<1>3. IsFiniteSet(OfRun(table, r)) /\ Cardinality(OfRun(table, r)) \in Nat
  BY <1>2, FS_Subset, FS_CardinalityType
<1>. QED BY <1>1, <1>2, <1>3

\* A part has no more rows of a run, at places of the table.
LEMMA PartFewer ==
  ASSUME NEW S, NEW table \in Seq(S), NEW some \in Seq(S), NEW f, Part(some, table, f),
         NEW r, NEW B \in SUBSET OfRun(table, r), \A k \in OfRun(some, r) : f[k] \in B
  PROVE  Cardinality(OfRun(some, r)) <= Cardinality(B)
<1> DEFINE C == OfRun(some, r)
           g == [k \in C |-> f[k]]
<1>1. IsFiniteSet(B)
  BY OfRunFinite, FS_Subset
<1>2. C \in SUBSET DOMAIN some /\ DOMAIN some = 1..Len(some) /\ Len(some) \in Nat
      /\ DOMAIN table = 1..Len(table) /\ Len(table) \in Nat
  BY DEF OfRun
<1>3. g \in [C -> B]
  OBVIOUS
<1>4. ASSUME NEW k \in C, NEW l \in C, g[k] = g[l] PROVE k = l
  <2>1. f[k] = f[l] /\ f[k] \in Nat /\ k \in Nat /\ l \in Nat
    BY <1>2, <1>4 DEF Part
  <2>2. (k < l => f[k] < f[l]) /\ (l < k => f[l] < f[k])
    BY <1>2 DEF Part
  <2>. QED BY <2>1, <2>2
<1> HIDE DEF C, g
<1>5. g \in Injection(C, B)
  BY <1>3, <1>4 DEF Injection, IsInjective
<1>. QED BY <1>1, <1>5, FS_Injection DEF C

\* prune keeps the samples it keeps in their order, and at most MaxSamples of the
\* run (run-store.ts:78-84).
LEMMA TrimmedPart ==
  ASSUME NEW S, NEW table \in Seq(S), NEW rid, MaxSamples \in Nat
  PROVE  /\ Trimmed(table, rid) \in Seq(S)
         /\ \E f : Part(Trimmed(table, rid), table, f)
         /\ Cardinality(OfRun(Trimmed(table, rid), rid)) <= MaxSamples
         /\ \A r : Cardinality(OfRun(Trimmed(table, rid), r)) <= Cardinality(OfRun(table, r))
<1> DEFINE mine == OfRun(table, rid)
           last == {i \in mine : Cardinality(Above(mine, i)) < MaxSamples}
           kept == {i \in DOMAIN table : table[i].run # rid \/ Cardinality(Above(mine, i)) < MaxSamples}
           n == Cardinality(kept)
           f == [k \in 1..n |-> CHOOSE i \in kept : Cardinality(Below(kept, i)) = k - 1]
           t == Trimmed(table, rid)
<1>1. t = [k \in 1..n |-> table[f[k]]]
  BY DEF Trimmed, OfRun, Above, Below
<1>2. Len(table) \in Nat /\ DOMAIN table = 1..Len(table) /\ \A i \in DOMAIN table : table[i] \in S
  OBVIOUS
<1>3. kept \in SUBSET Nat /\ IsFiniteSet(kept) /\ n \in Nat /\ kept \in SUBSET DOMAIN table
  <2>1. kept \in SUBSET (1..Len(table)) /\ IsFiniteSet(1..Len(table))
    BY <1>2, FS_Interval
  <2>. QED BY <1>2, <2>1, FS_Subset, FS_CardinalityType
<1>4. \A k \in 1..n : f[k] \in kept /\ Cardinality(Below(kept, f[k])) = k - 1
  <2> SUFFICES ASSUME NEW k \in 1..n PROVE f[k] \in kept /\ Cardinality(Below(kept, f[k])) = k - 1
    OBVIOUS
  <2>1. \E i \in kept : Cardinality(Below(kept, i)) = k - 1
    BY <1>3, Ranked
  <2>. QED BY <2>1
<1> HIDE DEF kept, f, t
<1>5. \A k, l \in 1..n : k < l => f[k] < f[l]
  <2> SUFFICES ASSUME NEW k \in 1..n, NEW l \in 1..n, k < l, ~(f[k] < f[l]) PROVE FALSE
    OBVIOUS
  <2>1. f[k] \in kept /\ f[l] \in kept /\ f[k] \in Nat /\ f[l] \in Nat
    BY <1>3, <1>4
  <2>2. Cardinality(Below(kept, f[k])) = k - 1 /\ Cardinality(Below(kept, f[l])) = l - 1
    BY <1>4
  <2>3. CASE f[l] < f[k]
    <3>1. Cardinality(Below(kept, f[l])) < Cardinality(Below(kept, f[k]))
      BY <1>3, <2>1, <2>3, Ranks
    <3>. QED BY <1>3, <2>2, <3>1
  <2>4. CASE f[l] = f[k]
    BY <1>3, <2>2, <2>4
  <2>. QED BY <2>1, <2>3, <2>4
<1>6. t \in Seq(S) /\ DOMAIN t = 1..n /\ \A k \in 1..n : t[k] = table[f[k]] /\ f[k] \in DOMAIN table
  <2>1. \A k \in 1..n : f[k] \in DOMAIN table /\ table[f[k]] \in S
    BY <1>2, <1>3, <1>4
  <2>2. DOMAIN t = 1..n /\ \A k \in 1..n : t[k] = table[f[k]]
    BY <1>1
  <2> HIDE DEF n
  <2>3. t \in [1..n -> S]
    BY <1>1, <2>1
  <2>4. t \in Seq(S)
    BY <1>3, <2>3
  <2>. QED BY <2>1, <2>2, <2>4
<1>7. Part(t, table, f)
  <2>1. f \in [1..n -> DOMAIN table]
    BY <1>6 DEF f
  <2>. QED BY <1>5, <1>6, <2>1 DEF Part
<1>8. ASSUME NEW r PROVE Cardinality(OfRun(t, r)) <= Cardinality(OfRun(table, r))
  <2>1. \A k \in OfRun(t, r) : f[k] \in OfRun(table, r)
    BY <1>6 DEF OfRun
  <2>. QED BY <1>6, <1>7, <2>1, PartFewer
<1>9. Cardinality(OfRun(t, rid)) <= MaxSamples
  <2>1. last \in SUBSET mine /\ mine \in SUBSET Nat /\ IsFiniteSet(mine)
    BY OfRunFinite
  <2>2. \A k \in OfRun(t, rid) : f[k] \in last
    <3>1. \A k \in OfRun(t, rid) : f[k] \in OfRun(table, rid) /\ f[k] \in kept /\ table[f[k]].run = rid
      BY <1>4, <1>6 DEF OfRun
    <3>. QED BY <3>1 DEF kept
  <2> HIDE DEF mine
  <2>3. Cardinality(last) <= MaxSamples
    BY <2>1, Newest
  <2> HIDE DEF last
  <2>4. Cardinality(OfRun(t, rid)) <= Cardinality(last)
    BY <1>6, <1>7, <2>1, <2>2, PartFewer DEF mine
  <2>5. Cardinality(OfRun(t, rid)) \in Nat /\ IsFiniteSet(last) /\ Cardinality(last) \in Nat
    BY <1>6, <2>1, OfRunFinite, FS_Subset, FS_CardinalityType
  <2>. QED BY <2>3, <2>4, <2>5
<1>. QED BY <1>6, <1>7, <1>8, <1>9 DEF t
-----------------------------------------------------------------------------
(* The tables: targets, scenarios, and what runs name *)

\* get: a row is found when there is one.
LEMMA Found ==
  ASSUME NEW S, NEW table \in Seq(S), NEW id
  PROVE  /\ Get(table, id) = 0 <=> \A i \in DOMAIN table : table[i].id # id
         /\ Get(table, id) # 0 => /\ Get(table, id) \in DOMAIN table
                                  /\ table[Get(table, id)].id = id
<1> DEFINE I == {i \in 1..Len(table) : table[i].id = id}
<1>1. Len(table) \in Nat /\ DOMAIN table = 1..Len(table)
  OBVIOUS
<1>2. Get(table, id) = IF I # {} THEN Min(I) ELSE 0
  BY DEF Get, SelectInSeq
<1>3. CASE I = {}
  BY <1>1, <1>2, <1>3
<1>4. CASE I # {}
  <2>0. I \in SUBSET Nat
    BY <1>1
  <2>1. Min(I) \in I
    BY <1>4, <2>0, LeastPlace
  <2>2. Get(table, id) \in I /\ Get(table, id) \in 1..Len(table) /\ Get(table, id) # 0
    BY <1>1, <1>2, <1>4, <2>1
  <2>. QED BY <1>1, <2>2
<1>. QED BY <1>3, <1>4

\* A row is rewritten.
LEMMA Rewritten ==
  ASSUME NEW S, NEW table \in Seq(S), NEW at \in DOMAIN table, NEW row \in S
  PROVE  /\ [table EXCEPT ![at] = row] \in Seq(S)
         /\ DOMAIN [table EXCEPT ![at] = row] = DOMAIN table
         /\ [table EXCEPT ![at] = row][at] = row
         /\ \A i \in DOMAIN table : i # at => [table EXCEPT ![at] = row][i] = table[i]
OBVIOUS

\* Ids are not reused: the built-in rows have the first.
Numbered(word) == {word} \X Nat
TargetIds == Numbered("target") \cup Numbered("unknown")

TargetRow == [id : Numbered("target"), builtIn : BOOLEAN, edited : BOOLEAN, deleted : BOOLEAN]
ScenarioRow == [id : Numbered("scenario"), target : TargetIds, deleted : BOOLEAN]
Stages == {"starting", "running", "paused", "stopping"}
RunRow == [scenario : Numbered("scenario"), target : TargetIds, status : Stages \cup Terminal,
           count : Nat]

\* There is one built-in target once a boot was tried, and it is not deleted.
TargetsOK ==
  /\ targets \in Seq(TargetRow)
  /\ \A i \in DOMAIN targets : /\ targets[i].builtIn <=> targets[i].id = BuiltIn
                               /\ targets[i].builtIn => ~targets[i].deleted
  /\ \A i, j \in DOMAIN targets : targets[i].id = BuiltIn /\ targets[j].id = BuiltIn => i = j
  /\ up \in {"up", "failed"} => \E i \in DOMAIN targets : targets[i].id = BuiltIn

ScenariosOK ==
  /\ scenarios \in Seq(ScenarioRow)
  /\ up = "failed" => Seeds /\ \E i \in DOMAIN scenarios : scenarios[i].id = DefaultScenario

NamesOK ==
  /\ rows \in Seq(RunRow)
  /\ \A i \in DOMAIN rows :
       /\ \E j \in DOMAIN scenarios : scenarios[j].id = rows[i].scenario
       /\ \E j \in DOMAIN targets : targets[j].id = rows[i].target

TablesInv == TargetsOK /\ ScenariosOK /\ NamesOK

\* What is known of the tables says that names resolve and boots do not fail.
LEMMA TablesResolve == TablesInv => Resolvable /\ BootsUnlessEmptied
<1> SUFFICES ASSUME TablesInv PROVE Resolvable /\ BootsUnlessEmptied
  OBVIOUS
<1>1. /\ targets \in Seq(TargetRow) /\ scenarios \in Seq(ScenarioRow)
  BY DEF TablesInv, TargetsOK, ScenariosOK
<1>2. up = "up" => \E i \in DOMAIN targets :
        /\ targets[i].builtIn /\ ~targets[i].deleted
        /\ \A j \in DOMAIN targets : targets[j].id = BuiltIn <=> j = i
  <2> SUFFICES ASSUME up = "up" PROVE \E i \in DOMAIN targets :
        /\ targets[i].builtIn /\ ~targets[i].deleted
        /\ \A j \in DOMAIN targets : targets[j].id = BuiltIn <=> j = i
    OBVIOUS
  <2>1. PICK i \in DOMAIN targets : targets[i].id = BuiltIn
    BY DEF TablesInv, TargetsOK
  <2>2. targets[i].builtIn /\ ~targets[i].deleted
    BY <2>1 DEF TablesInv, TargetsOK
  <2>3. \A j \in DOMAIN targets : targets[j].id = BuiltIn <=> j = i
    BY <2>1 DEF TablesInv, TargetsOK
  <2>. QED BY <2>2, <2>3
<1>3. \A i \in DOMAIN rows : Get(scenarios, rows[i].scenario) # 0 /\ Get(targets, rows[i].target) # 0
  BY <1>1, Found DEF TablesInv, NamesOK
<1>4. BootsUnlessEmptied
  BY DEF TablesInv, ScenariosOK, BootsUnlessEmptied, Seeds, Listed
<1>. QED BY <1>2, <1>3, <1>4 DEF Resolvable

\* A table keeps its rows and their ids.
Grows(old, new) == \A i \in DOMAIN old : i \in DOMAIN new /\ new[i].id = old[i].id

\* What a run names stays there while no table loses a row.
LEMMA NamesKept ==
  ASSUME NamesOK, Grows(targets, targets'), Grows(scenarios, scenarios'), rows' \in Seq(RunRow),
         DOMAIN rows' = DOMAIN rows,
         \A i \in DOMAIN rows : rows'[i].scenario = rows[i].scenario /\ rows'[i].target = rows[i].target
  PROVE  NamesOK'
<1>1. ASSUME NEW i \in DOMAIN rows
      PROVE  /\ \E j \in DOMAIN scenarios' : scenarios'[j].id = rows'[i].scenario
             /\ \E j \in DOMAIN targets' : targets'[j].id = rows'[i].target
  BY DEF NamesOK, Grows
<1>. QED BY <1>1 DEF NamesOK

\* A boot makes the built-in target once, and refreshes it.
LEMMA EnsuredTables == TablesInv /\ Boot /\ targets' = EnsuredTargets => TablesInv'
<1> SUFFICES ASSUME TablesInv, Boot, targets' = EnsuredTargets PROVE TablesInv'
  OBVIOUS
<1> DEFINE new == [id |-> BuiltIn, builtIn |-> TRUE, edited |-> FALSE, deleted |-> FALSE]
           at == Get(targets, BuiltIn)
           seed == [id |-> DefaultScenario, target |-> BuiltIn, deleted |-> FALSE]
<1>1. /\ targets \in Seq(TargetRow) /\ scenarios \in Seq(ScenarioRow)
      /\ targets' = EnsuredTargets /\ rows' = rows
      /\ Len(targets) \in Nat /\ DOMAIN targets = 1..Len(targets)
      /\ Len(scenarios) \in Nat /\ DOMAIN scenarios = 1..Len(scenarios)
  BY DEF TablesInv, TargetsOK, ScenariosOK, Boot
<1>2. BuiltIn \in Numbered("target") /\ DefaultScenario \in Numbered("scenario") /\ BuiltIn \in TargetIds
  BY DEF BuiltIn, DefaultScenario, Numbered, TargetIds
<1>3. /\ TargetsOK' /\ Grows(targets, targets')
  <2>1. CASE at = 0
    <3>1. new \in TargetRow /\ new.id = BuiltIn /\ new.builtIn /\ ~new.deleted
      BY <1>2 DEF TargetRow
    <3> HIDE DEF new
    <3>2. targets' = Append(targets, new)
      BY <1>1, <2>1 DEF EnsuredTargets, new
    <3>3. \A i \in DOMAIN targets : targets[i].id # BuiltIn
      BY <1>1, <2>1, Found
    <3>4. /\ targets' \in Seq(TargetRow) /\ DOMAIN targets' = 1..(Len(targets) + 1)
          /\ targets'[Len(targets) + 1] = new /\ \A i \in DOMAIN targets : targets'[i] = targets[i]
      BY <1>1, <3>1, <3>2
    <3>5. \A i \in DOMAIN targets' : i \in DOMAIN targets \/ i = Len(targets) + 1
      BY <1>1, <3>4
    <3>6. Grows(targets, targets')
      BY <1>1, <3>4 DEF Grows
    <3>7. \E i \in DOMAIN targets' : targets'[i].id = BuiltIn
      BY <1>1, <3>1, <3>4
    <3>8. /\ \A i \in DOMAIN targets' : /\ targets'[i].builtIn <=> targets'[i].id = BuiltIn
                                        /\ targets'[i].builtIn => ~targets'[i].deleted
          /\ \A i, j \in DOMAIN targets' :
               targets'[i].id = BuiltIn /\ targets'[j].id = BuiltIn => i = j
      BY <3>1, <3>3, <3>4, <3>5 DEF TablesInv, TargetsOK
    <3>. QED BY <3>4, <3>6, <3>7, <3>8 DEF TargetsOK
  <2>2. CASE at # 0
    <3>1. at \in DOMAIN targets /\ targets[at].id = BuiltIn /\ targets[at] \in TargetRow
      BY <1>1, <2>2, Found
    <3>2. targets' = [targets EXCEPT ![at].edited = FALSE]
      BY <1>1, <2>2, <3>1 DEF EnsuredTargets, TablesInv, TargetsOK
    <3> DEFINE row == [targets[at] EXCEPT !.edited = FALSE]
    <3>4. /\ row \in TargetRow /\ row.id = targets[at].id /\ row.builtIn = targets[at].builtIn
          /\ row.deleted = targets[at].deleted
      BY <3>1 DEF TargetRow
    <3>5. targets' = [targets EXCEPT ![at] = row]
      BY <3>2
    <3> HIDE DEF row, at
    <3>3. /\ targets' \in Seq(TargetRow) /\ DOMAIN targets' = DOMAIN targets
          /\ \A i \in DOMAIN targets : /\ targets'[i].id = targets[i].id
                                       /\ targets'[i].builtIn = targets[i].builtIn
                                       /\ targets'[i].deleted = targets[i].deleted
      BY <1>1, <3>1, <3>4, <3>5, Rewritten
    <3>. QED BY <3>1, <3>3 DEF TablesInv, TargetsOK, Grows
  <2>. QED BY <2>1, <2>2
<1>4. ScenariosOK' /\ Grows(scenarios, scenarios')
  <2>3. CASE up' = "refused"
    <3>1. scenarios' = scenarios
      BY <2>3 DEF Boot
    <3>. QED BY <1>1, <2>3, <3>1 DEF ScenariosOK, Grows
  <2>1. CASE up' # "refused" /\ Seeds /\ ~SeedConflicts
    <3>1. /\ scenarios' = Append(scenarios, seed) /\ up' = "up" /\ seed \in ScenarioRow
      BY <1>1, <1>2, <2>1 DEF Boot, ScenarioRow
    <3> HIDE DEF seed
    <3>2. /\ scenarios' \in Seq(ScenarioRow) /\ \A i \in DOMAIN scenarios : i \in DOMAIN scenarios' /\ scenarios'[i] = scenarios[i]
      BY <1>1, <3>1
    <3>. QED BY <3>1, <3>2 DEF ScenariosOK, Grows
  <2>2. CASE up' # "refused" /\ ~(Seeds /\ ~SeedConflicts)
    <3>1. scenarios' = scenarios
      BY <2>2 DEF Boot
    <3>2. up' = "failed" => Seeds /\ \E i \in DOMAIN scenarios : scenarios[i].id = DefaultScenario
      BY <1>1, Found DEF Boot, SeedConflicts
    <3>3. Seeds' <=> Seeds
      BY <3>1 DEF Seeds, Listed
    <3>. QED BY <1>1, <3>1, <3>2, <3>3 DEF ScenariosOK, Grows
  <2>. QED BY <2>1, <2>2, <2>3
<1>5. NamesOK'
  BY <1>1, <1>3, <1>4, NamesKept DEF TablesInv, NamesOK
<1>. QED BY <1>3, <1>4, <1>5 DEF TablesInv

\* A boot that a write refuses leaves the tables as they were, or has only ensured the target.
LEMMA BootTables == TablesInv /\ Boot => TablesInv'
<1> SUFFICES ASSUME TablesInv, Boot PROVE TablesInv'
  OBVIOUS
<1>1. \/ targets' = EnsuredTargets
      \/ targets' = targets /\ scenarios' = scenarios /\ up' = "refused" /\ rows' = rows
  BY DEF Boot
<1>2. CASE targets' = EnsuredTargets
  BY <1>2, EnsuredTables
<1>3. CASE targets' = targets /\ scenarios' = scenarios /\ up' = "refused" /\ rows' = rows
  BY <1>3 DEF TablesInv, TargetsOK, ScenariosOK, NamesOK
<1>. QED BY <1>1, <1>2, <1>3

\* No client removes the built-in target or takes its id.
LEMMA EditTables ==
  ASSUME TablesInv, UpdateTarget \/ RemoveTarget \/ CreateTarget \/ UpdateScenario
                      \/ RemoveScenario \/ CreateScenario
  PROVE  TablesInv' /\ UNCHANGED <<up, rows>>
<1>1. /\ targets \in Seq(TargetRow) /\ scenarios \in Seq(ScenarioRow)
      /\ Len(targets) \in Nat /\ DOMAIN targets = 1..Len(targets)
      /\ Len(scenarios) \in Nat /\ DOMAIN scenarios = 1..Len(scenarios)
      /\ rows \in Seq(RunRow)
  BY DEF TablesInv, TargetsOK, ScenariosOK, NamesOK
<1>2. up = "up" /\ UNCHANGED <<up, rows>>
  BY DEF UpdateTarget, RemoveTarget, CreateTarget, UpdateScenario, RemoveScenario, CreateScenario, Edit
<1>3. \A t \in ScenarioTargets : t \in TargetIds
  <2>0. \A i \in DOMAIN targets : targets[i] \in TargetRow
    BY <1>1
  <2>1. \A i \in DOMAIN targets : targets[i].id \in TargetIds
    BY <2>0 DEF TargetRow, TargetIds
  <2>2. Unknown \in TargetIds
    BY DEF Unknown, TargetIds, Numbered
  <2>. QED BY <2>1, <2>2 DEF ScenarioTargets
<1>4. SUFFICES /\ TargetsOK' /\ Grows(targets, targets')
               /\ scenarios' \in Seq(ScenarioRow) /\ Grows(scenarios, scenarios')
  BY <1>1, <1>2, NamesKept DEF TablesInv, ScenariosOK, NamesOK
<1>5. CASE UpdateTarget
  <2>1. PICK at \in DOMAIN targets : targets' = [targets EXCEPT ![at].edited = TRUE]
    BY <1>5 DEF UpdateTarget
  <2> DEFINE row == [targets[at] EXCEPT !.edited = TRUE]
  <2>4. /\ row \in TargetRow /\ row.id = targets[at].id /\ row.builtIn = targets[at].builtIn
        /\ row.deleted = targets[at].deleted
    <3>1. targets[at] \in TargetRow
      BY <1>1
    <3>. QED BY <3>1 DEF TargetRow
  <2>5. targets' = [targets EXCEPT ![at] = row]
    BY <2>1
  <2> HIDE DEF row
  <2>2. /\ targets' \in Seq(TargetRow) /\ DOMAIN targets' = DOMAIN targets
        /\ \A i \in DOMAIN targets : /\ targets'[i].id = targets[i].id
                                     /\ targets'[i].builtIn = targets[i].builtIn
                                     /\ targets'[i].deleted = targets[i].deleted
    BY <1>1, <2>4, <2>5, Rewritten
  <2>3. scenarios' = scenarios
    BY <1>5 DEF UpdateTarget, Edit
  <2>. QED BY <1>1, <1>2, <2>2, <2>3 DEF TablesInv, TargetsOK, Grows
<1>6. CASE RemoveTarget
  <2>1. PICK at \in DOMAIN targets : /\ targets' = [targets EXCEPT ![at].deleted = TRUE]
                                     /\ ~targets[at].builtIn
    BY <1>6 DEF RemoveTarget, Removable
  <2> DEFINE row == [targets[at] EXCEPT !.deleted = TRUE]
  <2>4. /\ row \in TargetRow /\ row.id = targets[at].id /\ row.builtIn = targets[at].builtIn
    <3>1. targets[at] \in TargetRow
      BY <1>1
    <3>. QED BY <3>1 DEF TargetRow
  <2>5. targets' = [targets EXCEPT ![at] = row]
    BY <2>1
  <2> HIDE DEF row
  <2>2. /\ targets' \in Seq(TargetRow) /\ DOMAIN targets' = DOMAIN targets
        /\ \A i \in DOMAIN targets : /\ targets'[i].id = targets[i].id
                                     /\ targets'[i].builtIn = targets[i].builtIn
                                     /\ i # at => targets'[i].deleted = targets[i].deleted
    BY <1>1, <2>4, <2>5, Rewritten
  <2>3. scenarios' = scenarios
    BY <1>6 DEF RemoveTarget, Edit
  <2>. QED BY <1>1, <1>2, <2>1, <2>2, <2>3 DEF TablesInv, TargetsOK, Grows
<1>7. CASE CreateTarget
  <2> DEFINE new == [id |-> <<"target", Len(targets) + 1>>, builtIn |-> FALSE,
                     edited |-> FALSE, deleted |-> FALSE]
  <2>1. new \in TargetRow /\ new.id # BuiltIn /\ ~new.builtIn /\ ~new.deleted
    BY <1>1 DEF TargetRow, Numbered, BuiltIn
  <2>2. targets' = Append(targets, new) /\ scenarios' = scenarios
    BY <1>7 DEF CreateTarget, Edit
  <2> HIDE DEF new
  <2>3. /\ targets' \in Seq(TargetRow) /\ DOMAIN targets' = 1..(Len(targets) + 1)
        /\ targets'[Len(targets) + 1] = new /\ \A i \in DOMAIN targets : targets'[i] = targets[i]
    BY <1>1, <2>1, <2>2
  <2>4. \A i \in DOMAIN targets' : i \in DOMAIN targets \/ i = Len(targets) + 1
    BY <1>1, <2>3
  <2>5. \A i \in DOMAIN targets : i \in DOMAIN targets'
    BY <1>1, <2>3
  <2>. QED BY <1>1, <1>2, <2>1, <2>2, <2>3, <2>4, <2>5 DEF TablesInv, TargetsOK, Grows
<1>8. CASE UpdateScenario
  <2>1. PICK at \in DOMAIN scenarios, t \in ScenarioTargets :
          scenarios' = [scenarios EXCEPT ![at].target = t]
    BY <1>8 DEF UpdateScenario
  <2> DEFINE row == [scenarios[at] EXCEPT !.target = t]
  <2>4. /\ row \in ScenarioRow /\ row.id = scenarios[at].id
    <3>1. scenarios[at] \in ScenarioRow
      BY <1>1
    <3>. QED BY <1>3, <3>1 DEF ScenarioRow
  <2>5. scenarios' = [scenarios EXCEPT ![at] = row]
    BY <2>1
  <2> HIDE DEF row
  <2>2. /\ scenarios' \in Seq(ScenarioRow) /\ DOMAIN scenarios' = DOMAIN scenarios
        /\ \A i \in DOMAIN scenarios : scenarios'[i].id = scenarios[i].id
    BY <1>1, <2>4, <2>5, Rewritten
  <2>3. targets' = targets
    BY <1>8 DEF UpdateScenario, Edit
  <2>. QED BY <1>1, <1>2, <2>2, <2>3 DEF TablesInv, TargetsOK, Grows
<1>9. CASE RemoveScenario
  <2>1. PICK at \in DOMAIN scenarios : scenarios' = [scenarios EXCEPT ![at].deleted = TRUE]
    BY <1>9 DEF RemoveScenario
  <2> DEFINE row == [scenarios[at] EXCEPT !.deleted = TRUE]
  <2>4. /\ row \in ScenarioRow /\ row.id = scenarios[at].id
    <3>1. scenarios[at] \in ScenarioRow
      BY <1>1
    <3>. QED BY <3>1 DEF ScenarioRow
  <2>5. scenarios' = [scenarios EXCEPT ![at] = row]
    BY <2>1
  <2> HIDE DEF row
  <2>2. /\ scenarios' \in Seq(ScenarioRow) /\ DOMAIN scenarios' = DOMAIN scenarios
        /\ \A i \in DOMAIN scenarios : scenarios'[i].id = scenarios[i].id
    BY <1>1, <2>4, <2>5, Rewritten
  <2>3. targets' = targets
    BY <1>9 DEF RemoveScenario, Edit
  <2>. QED BY <1>1, <1>2, <2>2, <2>3 DEF TablesInv, TargetsOK, Grows
<1>10. CASE CreateScenario
  <2>1. PICK t \in ScenarioTargets :
          scenarios' = Append(scenarios, [id |-> <<"scenario", Len(scenarios) + 1>>, target |-> t,
                                          deleted |-> FALSE])
    BY <1>10 DEF CreateScenario
  <2> DEFINE new == [id |-> <<"scenario", Len(scenarios) + 1>>, target |-> t, deleted |-> FALSE]
  <2>2. new \in ScenarioRow
    BY <1>1, <1>3 DEF ScenarioRow, Numbered
  <2>3. scenarios' = Append(scenarios, new)
    BY <2>1
  <2> HIDE DEF new
  <2>4. /\ scenarios' \in Seq(ScenarioRow)
        /\ \A i \in DOMAIN scenarios : i \in DOMAIN scenarios' /\ scenarios'[i] = scenarios[i]
    BY <1>1, <2>2, <2>3
  <2>5. targets' = targets
    BY <1>10 DEF CreateScenario, Edit
  <2>. QED BY <1>1, <1>2, <2>4, <2>5 DEF TablesInv, TargetsOK, Grows
<1>. QED BY <1>5, <1>6, <1>7, <1>8, <1>9, <1>10

\* Whatever leaves the tables as they are but for what rows say of a run.
LEMMA SameTables ==
  ASSUME TablesInv, targets' = targets, scenarios' = scenarios, up' = up \/ up' = "down",
         rows' \in Seq(RunRow), DOMAIN rows' = DOMAIN rows,
         \A i \in DOMAIN rows : rows'[i].scenario = rows[i].scenario /\ rows'[i].target = rows[i].target
  PROVE  TablesInv'
<1>1. TargetsOK' /\ Grows(targets, targets') /\ Grows(scenarios, scenarios')
  BY DEF TablesInv, TargetsOK, Grows
<1>2. ScenariosOK'
  BY DEF TablesInv, ScenariosOK, Seeds, Listed
<1>. QED BY <1>1, <1>2, NamesKept DEF TablesInv

\* A run starts only with a target that is found.
LEMMA StartTables == TablesInv /\ StartRun => TablesInv'
<1> SUFFICES ASSUME TablesInv, StartRun PROVE TablesInv'
  OBVIOUS
<1>1. PICK s \in DOMAIN scenarios :
        \E t \in {scenarios[s].target} \cup {targets[i].id : i \in DOMAIN targets} :
          /\ Get(targets, t) # 0
          /\ rows' = Append(rows, [scenario |-> scenarios[s].id, target |-> t,
                                   status |-> "starting", count |-> 0])
  BY DEF StartRun
<1>2. PICK t \in {scenarios[s].target} \cup {targets[i].id : i \in DOMAIN targets} :
          /\ Get(targets, t) # 0
          /\ rows' = Append(rows, [scenario |-> scenarios[s].id, target |-> t,
                                   status |-> "starting", count |-> 0])
  BY <1>1
<1> DEFINE new == [scenario |-> scenarios[s].id, target |-> t, status |-> "starting", count |-> 0]
<1>3. /\ targets \in Seq(TargetRow) /\ scenarios[s] \in ScenarioRow /\ rows \in Seq(RunRow)
      /\ \A i \in DOMAIN targets : targets[i] \in TargetRow
      /\ UNCHANGED <<targets, scenarios, up>>
  BY DEF TablesInv, TargetsOK, ScenariosOK, NamesOK, StartRun
<1>4. t \in TargetIds /\ \E j \in DOMAIN targets : targets[j].id = t
  BY <1>2, <1>3, Found DEF TargetRow, ScenarioRow, TargetIds
<1>5. new \in RunRow /\ new.scenario = scenarios[s].id /\ new.target = t
  BY <1>3, <1>4 DEF RunRow, ScenarioRow, Stages
<1>6. rows' = Append(rows, new)
  BY <1>2
<1> HIDE DEF new
<1>7. /\ rows' \in Seq(RunRow)
      /\ \A i \in DOMAIN rows' : (i \in DOMAIN rows /\ rows'[i] = rows[i]) \/ rows'[i] = new
  BY <1>3, <1>5, <1>6
<1>8. NamesOK'
  BY <1>3, <1>4, <1>5, <1>7 DEF TablesInv, NamesOK
<1>. QED BY <1>3, <1>8 DEF TablesInv, TargetsOK, ScenariosOK, Seeds, Listed

-----------------------------------------------------------------------------
(* The tables: runs, their samples and summaries *)

Statuses == Stages \cup Terminal
Sample == [run : Nat, at : Nat, status : Statuses, count : Nat]
Memory == [run : Nat, status : Stages, count : Nat]
Mark == [last : Nat, count : Nat]

SamplesOK ==
  /\ samples \in Seq(Sample)
  /\ \A i \in DOMAIN samples : samples[i].run \in DOMAIN rows /\ samples[i].at <= ticks
  /\ sampled \in [DOMAIN sampled -> Mark] /\ DOMAIN sampled \subseteq DOMAIN rows

RunsOK ==
  /\ ticks \in Nat
  /\ summaries \in Seq({Nothing} \cup [status : Terminal, count : Nat])
  /\ skipped \in Seq(Nat)
  /\ rows \in Seq(RunRow) /\ Len(summaries) = Len(rows) /\ Len(skipped) = Len(rows)
  /\ current # Nothing => current \in Memory /\ current.run \in DOMAIN rows

\* The active run has no verdict yet, and its samples are older than its mark.
LiveOK ==
  current # Nothing =>
    /\ summaries[current.run] = Nothing
    /\ \A i \in OfRun(samples, current.run) :
         /\ samples[i].status \notin Terminal /\ samples[i].count <= current.count
         /\ current.run \in DOMAIN sampled /\ samples[i].at <= sampled[current.run].last

\* What was appended since the last prune that was due.
Count(rid) == IF rid \in DOMAIN sampled THEN sampled[rid].count ELSE 0
Filled ==
  MaxSamples > 0 /\ current # Nothing =>
    Cardinality(OfRun(samples, current.run))
      <= MaxSamples + PruneEvery * skipped[current.run] + (Count(current.run) % PruneEvery)

RunsInv == SamplesOK /\ RunsOK /\ LiveOK /\ Filled /\ SamplesInOrder /\ SamplesBounded /\ SummariesAgree
RecordsInv == TablesInv /\ RunsInv

\* SamplesInOrder, of any table of samples.
InOrder(table) ==
  \A i, j \in DOMAIN table : i < j /\ table[i].run = table[j].run =>
    /\ table[i].at <= table[j].at /\ table[i].count <= table[j].count
    /\ table[i].status \notin Terminal
    /\ table[j].status \in Terminal \/ table[j].at - table[i].at >= MinInterval

\* A part of a table in order is in order.
LEMMA PartInOrder ==
  ASSUME NEW table, NEW some, NEW f, Part(some, table, f), InOrder(table)
  PROVE  InOrder(some)
<1>1. ASSUME NEW i \in DOMAIN some, NEW j \in DOMAIN some, i < j, some[i].run = some[j].run
      PROVE  /\ some[i].at <= some[j].at /\ some[i].count <= some[j].count
             /\ some[i].status \notin Terminal
             /\ some[j].status \in Terminal \/ some[j].at - some[i].at >= MinInterval
  <2>1. /\ f[i] \in DOMAIN table /\ f[j] \in DOMAIN table /\ f[i] < f[j]
        /\ some[i] = table[f[i]] /\ some[j] = table[f[j]]
    BY <1>1 DEF Part
  <2>. QED BY <1>1, <2>1 DEF InOrder
<1>. QED BY <1>1 DEF InOrder

\* Division by a constant: the next number goes one up or is a multiple.
LEMMA NextPhase ==
  ASSUME NEW p \in Nat \ {0}, NEW c \in Nat
  PROVE  /\ c % p \in 0..(p - 1)
         /\ (c + 1) % p = 0 \/ (c + 1) % p = (c % p) + 1
<1> DEFINE q == c \div p
           m == c % p
           k == (c + 1) \div p
           l == (c + 1) % p
<1>1. /\ q \in Int /\ m \in 0..(p - 1) /\ c = p * q + m
      /\ k \in Int /\ l \in 0..(p - 1) /\ c + 1 = p * k + l
  BY SMTT(60)
<1> HIDE DEF q, m, k, l
<1>2. \A d \in Nat : d >= 1 => p * d >= p
  BY SMTT(60)
<1>3. p * k - p * q = p * (k - q) /\ p * q - p * k = p * (q - k)
  BY <1>1, SMTT(60)
<1>4. CASE k <= q - 1
  BY <1>1, <1>2, <1>3, <1>4, SMTT(60)
<1>5. CASE k = q
  BY <1>1, <1>5
<1>6. CASE k = q + 1
  <2>1. p * k = p * q + p
    BY <1>1, <1>6, SMTT(60)
  <2>. QED BY <1>1, <2>1
<1>7. CASE k >= q + 2
  <2>1. p * (k - q - 1) >= p /\ p * (k - q - 1) = p * (k - q) - p
    BY <1>1, <1>2, <1>7, SMTT(60)
  <2>. QED BY <1>1, <1>3, <2>1
<1>8. k <= q - 1 \/ k = q \/ k = q + 1 \/ k >= q + 2
  BY <1>1
<1>. QED BY <1>1, <1>4, <1>5, <1>6, <1>7, <1>8 DEF m, l

\* One more prune that failed makes room for one more stretch.
LEMMA OneMoreStretch ==
  ASSUME NEW p \in Nat, NEW n \in Nat
  PROVE  p * (n + 1) = p * n + p /\ p * n \in Nat
BY SMTT(60)

-----------------------------------------------------------------------------
(* The tables: another sample *)

TheSample(status) == [run |-> current.run, at |-> ticks, status |-> status, count |-> current.count]
AllSamples(status) == Append(samples, TheSample(status))

\* The sample appended, and the table with it.
LEMMA SampleMade ==
  ASSUME RunsInv, current # Nothing, NEW status \in Statuses
  PROVE  /\ TheSample(status) \in Sample
         /\ TheSample(status).run = current.run /\ TheSample(status).at = ticks
         /\ TheSample(status).status = status /\ TheSample(status).count = current.count
         /\ AllSamples(status) \in Seq(Sample)
         /\ Len(samples) \in Nat /\ DOMAIN samples = 1..Len(samples)
         /\ DOMAIN AllSamples(status) = 1..(Len(samples) + 1)
         /\ AllSamples(status)[Len(samples) + 1] = TheSample(status)
         /\ \A i \in DOMAIN samples : AllSamples(status)[i] = samples[i]
<1>1. current \in Memory /\ ticks \in Nat /\ samples \in Seq(Sample)
  BY DEF RunsInv, RunsOK, SamplesOK
<1>2. /\ TheSample(status) \in Sample
      /\ TheSample(status).run = current.run /\ TheSample(status).at = ticks
      /\ TheSample(status).status = status /\ TheSample(status).count = current.count
  BY <1>1 DEF TheSample, Sample, Memory
<1>. QED BY <1>1, <1>2 DEF AllSamples

\* The rows of a run among one row more.
LEMMA OfRunMore ==
  ASSUME RunsInv, current # Nothing, NEW status \in Statuses, NEW r
  PROVE  Cardinality(OfRun(AllSamples(status), r)) =
           Cardinality(OfRun(samples, r)) + (IF r = current.run THEN 1 ELSE 0)
<1> DEFINE n == Len(samples)
           here == OfRun(samples, r)
<1>1. OfRun(AllSamples(status), r) = here \cup (IF r = current.run THEN {n + 1} ELSE {})
  <2>1. DOMAIN AllSamples(status) = (DOMAIN samples) \cup {n + 1}
    <3>1. /\ Len(samples) \in Nat /\ DOMAIN samples = 1..Len(samples)
          /\ DOMAIN AllSamples(status) = 1..(Len(samples) + 1)
      BY SampleMade, Zenon
    <3>. QED BY <3>1
  <2>2. /\ \A i \in DOMAIN samples : AllSamples(status)[i] = samples[i]
        /\ AllSamples(status)[n + 1].run = current.run
    <3>1. /\ AllSamples(status)[Len(samples) + 1] = TheSample(status)
          /\ TheSample(status).run = current.run
          /\ \A i \in DOMAIN samples : AllSamples(status)[i] = samples[i]
      BY SampleMade, Zenon
    <3>. QED BY <3>1
  <2>. QED BY <2>1, <2>2 DEF OfRun
<1>2. IsFiniteSet(here) /\ Cardinality(here) \in Nat /\ n + 1 \notin here /\ here \cup {} = here
  <2>1. samples \in Seq(Sample) /\ n \in Nat
    BY DEF RunsInv, SamplesOK
  <2>. QED BY <2>1, OfRunFinite
<1> HIDE DEF n, here
<1>3. Cardinality(here \cup {n + 1}) = Cardinality(here) + 1
  BY <1>2, FS_AddElement
<1>4. CASE r = current.run
  BY <1>1, <1>3, <1>4 DEF here
<1>5. CASE r # current.run
  <2>1. OfRun(AllSamples(status), r) = here
    BY <1>1, <1>2, <1>5
  <2>. QED BY <1>2, <1>5, <2>1 DEF here
<1>. QED BY <1>4, <1>5

\* The table with the new sample and the one without are parts of it.
LEMMA WholeParts ==
  ASSUME RunsInv, current # Nothing, NEW status \in Statuses
  PROVE  /\ \E f : Part(AllSamples(status), AllSamples(status), f)
         /\ \E f : Part(samples, AllSamples(status), f)
<1>1. Part(AllSamples(status), AllSamples(status), [i \in DOMAIN AllSamples(status) |-> i])
  BY DEF Part
<1>2. \A i \in DOMAIN samples : i \in DOMAIN AllSamples(status)
  BY SampleMade
<1>3. Part(samples, AllSamples(status), [i \in DOMAIN samples |-> i])
  BY <1>2, SampleMade DEF Part
<1>. QED BY <1>1, <1>3

\* What appendSample does when it is not too soon.
Appended(status) ==
  /\ samples' \in Seq(Sample) /\ \E f : Part(samples', AllSamples(status), f)
  /\ skipped' \in Seq(Nat) /\ Len(skipped') = Len(skipped)
  /\ \A r \in DOMAIN rows : r # current.run =>
       /\ skipped'[r] = skipped[r]
       /\ Cardinality(OfRun(samples', r)) <= Cardinality(OfRun(samples, r))
  /\ sampled' \in [DOMAIN sampled' -> Mark] /\ DOMAIN sampled' \subseteq DOMAIN rows
  /\ status \notin Terminal => /\ current.run \in DOMAIN sampled'
                               /\ sampled'[current.run].last = ticks
                               /\ sampled'[current.run].count = Count(current.run) + 1
  /\ MaxSamples > 0 =>
       Cardinality(OfRun(samples', current.run))
         <= MaxSamples + PruneEvery * skipped'[current.run] + ((Count(current.run) + 1) % PruneEvery)

\* It does, whether the insert and the prune succeed or fail.
LEMMA AppendEffect ==
  ASSUME RecordsAssumption, RunsInv, current # Nothing, NEW status \in Statuses,
         AppendSample(current.run, status, current.count), ~TooSoon(current.run, status)
  PROVE  Appended(status)
<1> DEFINE rid == current.run
           all == AllSamples(status)
           next == 1 + (IF rid \in DOMAIN sampled THEN sampled[rid].count ELSE 0)
           due == MaxSamples > 0 /\ next % PruneEvery = 0
           others == [r \in DOMAIN sampled \ {rid} |-> sampled[r]]
           n == Cardinality(OfRun(samples, rid))
           m == Cardinality(OfRun(samples', rid))
           phase == Count(rid) % PruneEvery
<1>1. /\ rows \in Seq(RunRow) /\ rid \in DOMAIN rows /\ rid \in Nat /\ ticks \in Nat
      /\ skipped \in Seq(Nat) /\ Len(skipped) = Len(rows) /\ samples \in Seq(Sample)
      /\ sampled \in [DOMAIN sampled -> Mark] /\ DOMAIN sampled \subseteq DOMAIN rows
      /\ MaxSamples \in Nat /\ PruneEvery \in Nat \ {0}
  BY DEF RunsInv, RunsOK, SamplesOK, Memory, RecordsAssumption
<1>2. Count(rid) \in Nat /\ next = Count(rid) + 1
  BY <1>1 DEF Count, Mark
<1>3. /\ \/ /\ samples' = IF due THEN Trimmed(all, rid) ELSE all
            /\ skipped' = IF due THEN [skipped EXCEPT ![rid] = 0] ELSE skipped
         \/ /\ samples' \in {samples, all}
            /\ skipped' = IF due THEN [skipped EXCEPT ![rid] = @ + 1] ELSE skipped
      /\ sampled' = IF status \in Terminal THEN others
                    ELSE [r \in DOMAIN others \cup {rid} |->
                            IF r = rid THEN [last |-> ticks, count |-> next] ELSE others[r]]
  BY DEF AppendSample, AllSamples, TheSample
<1>4. all \in Seq(Sample)
  BY SampleMade
<1>5. /\ sampled' \in [DOMAIN sampled' -> Mark] /\ DOMAIN sampled' \subseteq DOMAIN rows
      /\ status \notin Terminal => /\ rid \in DOMAIN sampled'
                                   /\ sampled'[rid].last = ticks
                                   /\ sampled'[rid].count = Count(rid) + 1
  <2>1. others \in [DOMAIN others -> Mark] /\ DOMAIN others \subseteq DOMAIN rows
    BY <1>1
  <2>2. CASE status \in Terminal
    BY <1>3, <2>1, <2>2
  <2>3. CASE status \notin Terminal
    <3> DEFINE mark == [last |-> ticks, count |-> next]
    <3>1. mark \in Mark /\ mark.last = ticks /\ mark.count = Count(rid) + 1
      BY <1>1, <1>2 DEF Mark
    <3> HIDE DEF mark, others, next
    <3>2. sampled' = [r \in DOMAIN others \cup {rid} |-> IF r = rid THEN mark ELSE others[r]]
      BY <1>3, <2>3 DEF mark
    <3>. QED BY <1>1, <2>1, <3>1, <3>2
  <2>. QED BY <2>2, <2>3
<1>6. samples' \in {samples, all, Trimmed(all, rid)}
  BY <1>3
<1>7. samples' \in Seq(Sample) /\ \E f : Part(samples', all, f)
  <2>1. CASE samples' = samples
    BY <1>1, <2>1, WholeParts
  <2>2. CASE samples' = all
    BY <1>4, <2>2, WholeParts
  <2>3. CASE samples' = Trimmed(all, rid)
    BY <1>1, <1>4, <2>3, TrimmedPart
  <2>. QED BY <1>6, <2>1, <2>2, <2>3
<1>8. \A r : Cardinality(OfRun(samples, r)) \in Nat /\ Cardinality(OfRun(samples', r)) \in Nat
  BY <1>1, <1>7, OfRunFinite
<1>9. ASSUME NEW r \in DOMAIN rows, r # rid
      PROVE  Cardinality(OfRun(samples', r)) <= Cardinality(OfRun(samples, r))
  <2>1. Cardinality(OfRun(all, r)) = Cardinality(OfRun(samples, r))
    BY <1>8, <1>9, OfRunMore
  <2>2. Cardinality(OfRun(Trimmed(all, rid), r)) <= Cardinality(OfRun(all, r))
    BY <1>1, <1>4, TrimmedPart
  <2> HIDE DEF all, rid
  <2>. QED BY <1>6, <1>8, <2>1, <2>2
<1>10. /\ skipped' \in Seq(Nat) /\ Len(skipped') = Len(skipped)
       /\ \A r \in DOMAIN rows : r # rid => skipped'[r] = skipped[r]
       /\ skipped[rid] \in Nat /\ skipped'[rid] \in Nat
  <2>1. rid \in DOMAIN skipped
    <3>. QED BY <1>1
  <2>2. skipped' = skipped \/ skipped' = [skipped EXCEPT ![rid] = 0]
          \/ skipped' = [skipped EXCEPT ![rid] = skipped[rid] + 1]
    BY <1>3
  <2>3. skipped[rid] \in Nat /\ skipped[rid] + 1 \in Nat /\ 0 \in Nat
    BY <1>1, <2>1
  <2> HIDE DEF rid
  <2>4. CASE skipped' = skipped
    BY <1>1, <2>3, <2>4
  <2>5. ASSUME NEW v \in Nat, skipped' = [skipped EXCEPT ![rid] = v]
        PROVE  /\ skipped' \in Seq(Nat) /\ Len(skipped') = Len(skipped)
               /\ \A r \in DOMAIN skipped : r # rid => skipped'[r] = skipped[r]
               /\ skipped'[rid] \in Nat
    BY <1>1, <2>1, <2>5
  <2>6. DOMAIN skipped = DOMAIN rows
    BY <1>1
  <2>. QED BY <2>2, <2>3, <2>4, <2>5, <2>6
<1>11. n \in Nat /\ m \in Nat /\ (MaxSamples > 0 => n <= MaxSamples + PruneEvery * skipped[rid] + phase)
  <2>1. MaxSamples > 0 => n <= MaxSamples + PruneEvery * skipped[rid] + phase
    BY Zenon DEF RunsInv, Filled
  <2>. QED BY <1>8, <2>1
<1>12. /\ phase \in 0..(PruneEvery - 1)
       /\ next % PruneEvery = 0 \/ next % PruneEvery = phase + 1
  BY <1>1, <1>2, NextPhase
<1>13. m <= n + 1 /\ (due /\ samples' = Trimmed(all, rid) => m <= MaxSamples)
  <2>1. Cardinality(OfRun(all, rid)) = n + 1
    BY OfRunMore
  <2>2. /\ Cardinality(OfRun(Trimmed(all, rid), rid)) <= MaxSamples
        /\ Cardinality(OfRun(Trimmed(all, rid), rid)) <= Cardinality(OfRun(all, rid))
    BY <1>1, <1>4, TrimmedPart
  <2> HIDE DEF all, rid, next
  <2>. QED BY <1>6, <1>8, <2>1, <2>2
<1>14. MaxSamples > 0 => m <= MaxSamples + PruneEvery * skipped'[rid] + ((Count(rid) + 1) % PruneEvery)
  <2> DEFINE s == PruneEvery * skipped[rid]
             t == PruneEvery * skipped'[rid]
             l == next % PruneEvery
  <2>0. SUFFICES ASSUME MaxSamples > 0 PROVE m <= MaxSamples + t + l
    BY <1>2
  <2>1. /\ s \in Nat /\ t \in Nat
        /\ skipped'[rid] = skipped[rid] => t = s
        /\ skipped'[rid] = skipped[rid] + 1 => t = s + PruneEvery
    BY <1>1, <1>10, OneMoreStretch
  <2>2. n <= MaxSamples + s + phase /\ n \in Nat /\ m \in Nat /\ m <= n + 1
    BY <1>11, <1>13, <2>0
  <2>3. rid \in DOMAIN skipped
    BY <1>1
  <2>4. CASE ~due
    <3>1. skipped' = skipped /\ l = phase + 1
      BY <1>3, <1>12, <2>0, <2>4
    <3>2. t = s
      BY <2>1, <3>1
    <3> HIDE DEF n, m, s, t, l, phase, rid, next
    <3>. QED BY <1>1, <1>12, <2>1, <2>2, <3>1, <3>2
  <2>5. CASE due
    <3>1. l = 0
      BY <2>5
    <3>2. CASE samples' = Trimmed(all, rid) /\ skipped' = [skipped EXCEPT ![rid] = 0]
      <4>1. skipped'[rid] = 0 /\ m <= MaxSamples
        BY <1>1, <1>13, <2>3, <2>5, <3>2
      <4> HIDE DEF n, m, s, t, l, phase, rid, next
      <4>. QED BY <1>1, <2>1, <2>2, <3>1, <4>1
    <3>3. CASE skipped' = [skipped EXCEPT ![rid] = @ + 1]
      <4>1. skipped'[rid] = skipped[rid] + 1
        BY <1>1, <2>3, <3>3
      <4> HIDE DEF n, m, s, t, l, phase, rid, next
      <4>2. t = s + PruneEvery
        BY <2>1, <4>1
      <4>. QED BY <1>1, <1>12, <2>1, <2>2, <3>1, <4>2
    <3>. QED BY <1>3, <2>5, <3>2, <3>3
  <2>. QED BY <2>4, <2>5
<1>. QED BY <1>5, <1>7, <1>9, <1>10, <1>14 DEF Appended

-----------------------------------------------------------------------------
(* The tables: what a write leaves *)

LEMMA WriteRow ==
  ASSUME RunsInv, current # Nothing, NEW status \in Statuses, Write(status)
  PROVE  /\ rows' \in Seq(RunRow) /\ DOMAIN rows' = DOMAIN rows /\ Len(rows') = Len(rows)
         /\ rows'[current.run].status = status /\ rows'[current.run].count = current.count
         /\ \A r \in DOMAIN rows : /\ r # current.run => rows'[r] = rows[r]
                                   /\ rows'[r].scenario = rows[r].scenario
                                   /\ rows'[r].target = rows[r].target
<1> DEFINE rid == current.run
           row == [[rows[rid] EXCEPT !.status = status] EXCEPT !.count = current.count]
<1>1. /\ rows \in Seq(RunRow) /\ rid \in DOMAIN rows /\ current.count \in Nat /\ rows[rid] \in RunRow
  BY DEF RunsInv, RunsOK, Memory
<1>2. /\ row \in RunRow /\ row.status = status /\ row.count = current.count
      /\ row.scenario = rows[rid].scenario /\ row.target = rows[rid].target
  BY <1>1 DEF RunRow, Statuses
<1>3. rows' = [rows EXCEPT ![rid] = row]
  BY <1>1 DEF Write
<1> HIDE DEF rid, row
<1>4. /\ rows' \in Seq(RunRow) /\ DOMAIN rows' = DOMAIN rows /\ rows'[rid] = row
      /\ \A r \in DOMAIN rows : r # rid => rows'[r] = rows[r]
  BY <1>1, <1>2, <1>3, Rewritten
<1>5. Len(rows') = Len(rows)
  BY <1>1, <1>4
<1>. QED BY <1>2, <1>4, <1>5 DEF rid

\* A write appends a sample unless it is too soon.
LEMMA WriteSamples ==
  ASSUME RecordsAssumption, RunsInv, current # Nothing, NEW status \in Statuses, Write(status)
  PROVE  \/ TooSoon(current.run, status) /\ UNCHANGED <<samples, skipped, sampled>>
         \/ ~TooSoon(current.run, status) /\ Appended(status)
<1>1. AppendSample(current.run, status, current.count)
  BY DEF Write
<1>2. CASE TooSoon(current.run, status)
  BY <1>1, <1>2 DEF AppendSample
<1>. QED BY <1>1, <1>2, AppendEffect

\* Every sample left is an old one or the new one.
LEMMA Told ==
  ASSUME RunsInv, current # Nothing, NEW status \in Statuses, Appended(status)
  PROVE  \A i \in DOMAIN samples' :
           samples'[i] = TheSample(status) \/ \E j \in DOMAIN samples : samples'[i] = samples[j]
<1>1. PICK f : Part(samples', AllSamples(status), f)
  BY DEF Appended
<1> SUFFICES ASSUME NEW i \in DOMAIN samples'
             PROVE  samples'[i] = TheSample(status) \/ \E j \in DOMAIN samples : samples'[i] = samples[j]
  OBVIOUS
<1>2. f[i] \in DOMAIN AllSamples(status) /\ samples'[i] = AllSamples(status)[f[i]]
  BY <1>1 DEF Part
<1>3. /\ Len(samples) \in Nat /\ DOMAIN samples = 1..Len(samples)
      /\ DOMAIN AllSamples(status) = 1..(Len(samples) + 1)
      /\ AllSamples(status)[Len(samples) + 1] = TheSample(status)
      /\ \A j \in DOMAIN samples : AllSamples(status)[j] = samples[j]
  BY SampleMade, Zenon
<1>4. f[i] = Len(samples) + 1 \/ f[i] \in DOMAIN samples
  BY <1>2, <1>3
<1>. QED BY <1>2, <1>3, <1>4

\* The new sample is not before, nor counts less than, what the run has; no sample
\* it has is its last; and it is far enough from its mark.
LEMMA AllInOrder ==
  ASSUME RecordsAssumption, RunsInv, current # Nothing, NEW status \in Statuses,
         ~TooSoon(current.run, status)
  PROVE  InOrder(AllSamples(status))
<1> DEFINE all == AllSamples(status)
           n == Len(samples)
           a == TheSample(status)
<1>1. /\ n \in Nat /\ DOMAIN samples = 1..n /\ DOMAIN all = 1..(n + 1) /\ all[n + 1] = a
      /\ \A i \in DOMAIN samples : all[i] = samples[i]
      /\ a.run = current.run /\ a.at = ticks /\ a.status = status /\ a.count = current.count
  BY SampleMade, Zenon
<1>2. ASSUME NEW i \in DOMAIN samples, samples[i].run = current.run
      PROVE  /\ samples[i].at <= ticks /\ samples[i].count <= current.count
             /\ samples[i].status \notin Terminal
             /\ status \in Terminal \/ ticks - samples[i].at >= MinInterval
  <2>1. /\ samples[i].status \notin Terminal /\ samples[i].count <= current.count
        /\ current.run \in DOMAIN sampled /\ samples[i].at <= sampled[current.run].last
        /\ samples[i].at <= ticks
    BY <1>2 DEF RunsInv, LiveOK, OfRun, SamplesOK
  <2>2. sampled[current.run] \in Mark /\ samples[i] \in Sample /\ ticks \in Nat /\ MinInterval \in Nat
    BY <2>1 DEF RunsInv, SamplesOK, RunsOK, RecordsAssumption
  <2>3. sampled[current.run].last \in Nat /\ samples[i].at \in Nat
    BY <2>2 DEF Mark, Sample
  <2>4. status \in Terminal \/ ~(ticks - sampled[current.run].last < MinInterval)
    BY <2>1 DEF TooSoon
  <2>. QED BY <2>1, <2>2, <2>3, <2>4
<1> HIDE DEF all, n, a
<1>3. ASSUME NEW i \in DOMAIN all, NEW j \in DOMAIN all, i < j, all[i].run = all[j].run
      PROVE  /\ all[i].at <= all[j].at /\ all[i].count <= all[j].count
             /\ all[i].status \notin Terminal
             /\ all[j].status \in Terminal \/ all[j].at - all[i].at >= MinInterval
  <2>1. i \in DOMAIN samples /\ all[i] = samples[i] /\ (j \in DOMAIN samples \/ j = n + 1)
    BY <1>1, <1>3
  <2>2. CASE j \in DOMAIN samples
    BY <1>1, <1>3, <2>1, <2>2 DEF RunsInv, SamplesInOrder
  <2>3. CASE j = n + 1
    BY <1>1, <1>2, <1>3, <2>1, <2>3
  <2>. QED BY <2>1, <2>2, <2>3
<1>. QED BY <1>3 DEF InOrder, all

\* A write keeps the order of the samples...
LEMMA WriteOrder ==
  ASSUME RecordsAssumption, RunsInv, current # Nothing, NEW status \in Statuses, Write(status)
  PROVE  SamplesInOrder'
<1>1. CASE UNCHANGED <<samples, skipped, sampled>>
  BY <1>1 DEF RunsInv, SamplesInOrder
<1>2. CASE ~TooSoon(current.run, status) /\ Appended(status)
  <2>1. PICK f : Part(samples', AllSamples(status), f)
    BY <1>2 DEF Appended
  <2>2. InOrder(samples')
    BY <1>2, <2>1, AllInOrder, PartInOrder
  <2>. QED BY <2>2 DEF SamplesInOrder, InOrder
<1>. QED BY <1>1, <1>2, WriteSamples

\* ... their bound: fewer than PruneEvery since the last prune that was due ...
LEMMA WriteBounded ==
  ASSUME RecordsAssumption, RunsInv, current # Nothing, NEW status \in Statuses, Write(status)
  PROVE  SamplesBounded'
<1>1. DOMAIN rows' = DOMAIN rows
  BY WriteRow
<1>2. CASE UNCHANGED <<samples, skipped, sampled>>
  BY <1>1, <1>2 DEF RunsInv, SamplesBounded
<1>3. CASE Appended(status)
  <2> SUFFICES ASSUME MaxSamples > 0, NEW r \in DOMAIN rows
               PROVE  Cardinality(OfRun(samples', r)) < MaxSamples + PruneEvery * (skipped'[r] + 1)
    BY <1>1 DEF SamplesBounded, OfRun
  <2>1. /\ samples \in Seq(Sample) /\ samples' \in Seq(Sample) /\ PruneEvery \in Nat \ {0}
        /\ MaxSamples \in Nat /\ skipped' \in Seq(Nat) /\ r \in DOMAIN skipped'
        /\ rows \in Seq(RunRow) /\ current.run \in DOMAIN rows
    BY <1>3 DEF Appended, RunsInv, SamplesOK, RunsOK, RecordsAssumption
  <2>2. Cardinality(OfRun(samples, r)) \in Nat /\ Cardinality(OfRun(samples', r)) \in Nat
    BY <2>1, OfRunFinite
  <2>3. CASE r # current.run
    <3>1. Cardinality(OfRun(samples, r)) < MaxSamples + PruneEvery * (skipped[r] + 1)
      BY DEF RunsInv, SamplesBounded, OfRun
    <3>2. /\ skipped'[r] = skipped[r]
          /\ Cardinality(OfRun(samples', r)) <= Cardinality(OfRun(samples, r))
      BY <1>3, <2>3 DEF Appended
    <3> DEFINE m == Cardinality(OfRun(samples', r))
               n == Cardinality(OfRun(samples, r))
               b == PruneEvery * (skipped[r] + 1)
    <3>3. m \in Nat /\ n \in Nat /\ n < MaxSamples + b /\ m <= n /\ b \in Nat
      <4>1. skipped'[r] \in Nat
        BY <2>1
      <4>2. skipped[r] \in Nat /\ PruneEvery \in Nat
        BY <2>1, <3>2, <4>1
      <4>3. b = PruneEvery * skipped[r] + PruneEvery /\ PruneEvery * skipped[r] \in Nat
        BY <4>2, OneMoreStretch
      <4>4. b \in Nat
        BY <4>2, <4>3
      <4>. QED BY <2>2, <3>1, <3>2, <4>4
    <3>4. m < MaxSamples + b
      <4> HIDE DEF m, n, b
      <4>. QED BY <2>1, <3>3
    <3>. QED BY <3>2, <3>4
  <2>4. CASE r = current.run
    <3> DEFINE m == Cardinality(OfRun(samples', r))
               b == PruneEvery * skipped'[r]
               l == (Count(r) + 1) % PruneEvery
    <3>1. m <= MaxSamples + b + l
      BY <1>3, <2>4, Zenon DEF Appended
    <3>2. l \in 0..(PruneEvery - 1)
      <4>1. Count(r) + 1 \in Nat
        BY DEF RunsInv, SamplesOK, Count, Mark
      <4>. QED BY <2>1, <4>1, NextPhase
    <3>3. b \in Nat /\ PruneEvery * (skipped'[r] + 1) = b + PruneEvery
      BY <2>1, OneMoreStretch
    <3>4. m < MaxSamples + (b + PruneEvery)
      <4> HIDE DEF m, b, l
      <4>. QED BY <2>1, <2>2, <3>1, <3>2, <3>3 DEF m
    <3>. QED BY <3>3, <3>4
  <2>. QED BY <2>3, <2>4
<1>. QED BY <1>2, <1>3, WriteSamples

\* ... what rows, summaries and last samples say of each other ...
LEMMA WriteAgrees ==
  ASSUME RecordsAssumption, RunsInv, current # Nothing, NEW status \in Statuses, Write(status),
         \/ summaries' = summaries
         \/ /\ status \in Terminal
            /\ summaries' = [summaries EXCEPT ![current.run] = [status |-> status, count |-> current.count]]
  PROVE  SummariesAgree'
<1> DEFINE rid == current.run
<1>1. /\ DOMAIN rows' = DOMAIN rows /\ rid \in DOMAIN rows
      /\ rows'[rid].status = status /\ rows'[rid].count = current.count
      /\ \A r \in DOMAIN rows : r # rid => rows'[r] = rows[r]
  BY WriteRow DEF RunsInv, RunsOK
<1>2. DOMAIN summaries = DOMAIN rows /\ summaries[rid] = Nothing
  <2>1. /\ summaries \in Seq({Nothing} \cup [status : Terminal, count : Nat]) /\ rows \in Seq(RunRow)
        /\ Len(summaries) = Len(rows)
    BY DEF RunsInv, RunsOK
  <2>2. DOMAIN summaries = 1..Len(summaries) /\ DOMAIN rows = 1..Len(rows)
    BY <2>1
  <2>. QED BY <2>1, <2>2 DEF RunsInv, LiveOK
<1>3. \A i \in DOMAIN samples' :
        \/ \E j \in DOMAIN samples : samples'[i] = samples[j]
        \/ samples'[i].run = rid /\ samples'[i].status = status /\ samples'[i].count = current.count
  <2>1. CASE UNCHANGED <<samples, skipped, sampled>>
    BY <2>1
  <2>2. CASE Appended(status)
    BY <2>2, Told, SampleMade
  <2>. QED BY <2>1, <2>2, WriteSamples
<1>4. \A j \in DOMAIN samples : samples[j].run = rid => samples[j].status \notin Terminal
  BY DEF RunsInv, LiveOK, OfRun
<1>5. ASSUME NEW r \in DOMAIN rows
      PROVE  /\ summaries'[r] # Nothing =>
                  rows'[r].status = summaries'[r].status /\ rows'[r].count = summaries'[r].count
             /\ \A i \in DOMAIN samples' : samples'[i].run = r /\ samples'[i].status \in Terminal =>
                  rows'[r].status = samples'[i].status /\ rows'[r].count = samples'[i].count
  <2>1. CASE r = rid
    <3>1. summaries'[r] # Nothing =>
             rows'[r].status = summaries'[r].status /\ rows'[r].count = summaries'[r].count
      BY <1>1, <1>2, <2>1
    <3>2. \A i \in DOMAIN samples' : samples'[i].run = r /\ samples'[i].status \in Terminal =>
                  rows'[r].status = samples'[i].status /\ rows'[r].count = samples'[i].count
      BY <1>1, <1>3, <1>4, <2>1
    <3>. QED BY <3>1, <3>2
  <2>2. CASE r # rid
    <3>0. \/ summaries' = summaries
          \/ summaries' = [summaries EXCEPT ![rid] = [status |-> status, count |-> current.count]]
      OBVIOUS
    <3>1. summaries'[r] = summaries[r] /\ rows'[r] = rows[r]
      BY <1>1, <1>2, <2>2, <3>0
    <3>2. \A i \in DOMAIN samples' : samples'[i].run = r =>
            \E j \in DOMAIN samples : samples'[i] = samples[j]
      BY <1>3, <2>2
    <3>. QED BY <3>1, <3>2 DEF RunsInv, SummariesAgree
  <2>. QED BY <2>1, <2>2
<1>. QED BY <1>1, <1>5 DEF SummariesAgree

\* ... and what they are.
LEMMA WriteTyped ==
  ASSUME RecordsAssumption, RunsInv, current # Nothing, NEW status \in Statuses, Write(status),
         ticks' = ticks
  PROVE  SamplesOK'
<1>1. DOMAIN rows' = DOMAIN rows
  BY WriteRow
<1>2. CASE UNCHANGED <<samples, skipped, sampled>>
  BY <1>1, <1>2 DEF RunsInv, SamplesOK
<1>3. CASE Appended(status)
  <2>1. \A i \in DOMAIN samples' :
           samples'[i] = TheSample(status) \/ \E j \in DOMAIN samples : samples'[i] = samples[j]
    BY <1>3, Told
  <2>2. TheSample(status).run = current.run /\ TheSample(status).at = ticks
    BY SampleMade
  <2>3. current.run \in DOMAIN rows /\ ticks \in Nat
    BY DEF RunsInv, RunsOK
  <2>4. \A i \in DOMAIN samples' : samples'[i].run \in DOMAIN rows /\ samples'[i].at <= ticks
    BY <2>1, <2>2, <2>3 DEF RunsInv, SamplesOK
  <2>. QED BY <1>1, <1>3, <2>4 DEF Appended, SamplesOK
<1>. QED BY <1>2, <1>3, WriteSamples

\* A write while the run goes on.
LEMMA WriteOn ==
  ASSUME RecordsAssumption, RunsInv, current # Nothing, NEW status \in Stages, Write(status),
         current' = [current EXCEPT !.status = status], UNCHANGED <<ticks, summaries>>
  PROVE  RunsInv'
<1> DEFINE rid == current.run
<1>0. status \in Statuses /\ status \notin Terminal
  BY DEF Statuses, Stages, Terminal
<1>1. /\ rows' \in Seq(RunRow) /\ DOMAIN rows' = DOMAIN rows /\ Len(rows') = Len(rows)
  BY <1>0, WriteRow
<1>2. /\ current' \in Memory /\ current'.run = rid /\ current'.count = current.count
      /\ rid \in DOMAIN rows /\ ticks \in Nat /\ current.count \in Nat
  BY DEF RunsInv, RunsOK, Memory
<1>3. RunsOK'
  <2>1. skipped' \in Seq(Nat) /\ Len(skipped') = Len(skipped)
    BY <1>0, WriteSamples DEF Appended, RunsInv, RunsOK
  <2>. QED BY <1>1, <1>2, <2>1 DEF RunsInv, RunsOK
<1>4. ASSUME UNCHANGED <<samples, skipped, sampled>>
      PROVE  LiveOK' /\ Filled'
  <2>1. LiveOK'
    BY <1>2, <1>4 DEF RunsInv, LiveOK, OfRun
  <2>2. Filled'
    BY <1>2, <1>4 DEF RunsInv, Filled, OfRun, Count
  <2>. QED BY <2>1, <2>2
<1>5. ASSUME Appended(status)
      PROVE  LiveOK' /\ Filled'
  <2>1. rid \in DOMAIN sampled' /\ sampled'[rid].last = ticks /\ sampled'[rid].count = Count(rid) + 1
    BY <1>0, <1>5 DEF Appended
  <2>2. LiveOK'
    <3>1. summaries'[current'.run] = Nothing
      BY <1>2 DEF RunsInv, LiveOK
    <3>2. ASSUME NEW i \in DOMAIN samples', samples'[i].run = rid
          PROVE  /\ samples'[i].status \notin Terminal /\ samples'[i].count <= current.count
                 /\ samples'[i].at <= ticks
      <4>1. samples'[i] = TheSample(status) \/ \E j \in DOMAIN samples : samples'[i] = samples[j]
        BY <1>0, <1>5, Told
      <4>2. CASE samples'[i] = TheSample(status)
        <5>1. /\ TheSample(status).at = ticks /\ TheSample(status).status = status
              /\ TheSample(status).count = current.count
          BY <1>0, SampleMade
        <5>. QED BY <1>0, <1>2, <4>2, <5>1
      <4>3. CASE \E j \in DOMAIN samples : samples'[i] = samples[j]
        BY <3>2, <4>3 DEF RunsInv, LiveOK, OfRun, SamplesOK
      <4>. QED BY <4>1, <4>2, <4>3
    <3>. QED BY <1>2, <2>1, <3>1, <3>2 DEF LiveOK, OfRun
  <2>3. Filled'
    <3>1. Count(rid)' = Count(rid) + 1
      BY <2>1 DEF Count
    <3>2. MaxSamples > 0 =>
            Cardinality(OfRun(samples', rid))
              <= MaxSamples + PruneEvery * skipped'[rid] + ((Count(rid) + 1) % PruneEvery)
      BY <1>5, Zenon DEF Appended
    <3>. QED BY <1>2, <3>2, <2>1 DEF Filled, Count
  <2>. QED BY <2>2, <2>3
<1>6. LiveOK' /\ Filled'
  BY <1>0, <1>4, <1>5, WriteSamples
<1>. QED BY <1>0, <1>3, <1>6, WriteTyped, WriteOrder, WriteBounded, WriteAgrees DEF RunsInv

\* A write that ends the run.
LEMMA WriteLast ==
  ASSUME RecordsAssumption, RunsInv, current # Nothing, NEW status \in Terminal, Write(status),
         current' = Nothing, ticks' = ticks,
         summaries' \in {summaries, [summaries EXCEPT ![current.run] =
                                       [status |-> status, count |-> current.count]]}
  PROVE  RunsInv'
<1>0. status \in Statuses
  BY DEF Statuses
<1>1. /\ rows' \in Seq(RunRow) /\ Len(rows') = Len(rows)
  BY <1>0, WriteRow
<1>2. skipped' \in Seq(Nat) /\ Len(skipped') = Len(skipped)
  BY <1>0, WriteSamples DEF Appended, RunsInv, RunsOK
<1>3. /\ summaries' \in Seq({Nothing} \cup [status : Terminal, count : Nat])
      /\ Len(summaries') = Len(summaries)
  <2> DEFINE v == [status |-> status, count |-> current.count]
             V == {Nothing} \cup [status : Terminal, count : Nat]
  <2>1. summaries \in Seq(V) /\ current.run \in DOMAIN summaries /\ v \in V
    BY DEF RunsInv, RunsOK, Memory
  <2>2. summaries' \in {summaries, [summaries EXCEPT ![current.run] = v]}
    OBVIOUS
  <2> HIDE DEF v, V
  <2>3. [summaries EXCEPT ![current.run] = v] \in Seq(V)
        /\ Len([summaries EXCEPT ![current.run] = v]) = Len(summaries)
    BY <2>1
  <2>. QED BY <2>1, <2>2, <2>3 DEF V
<1>4. RunsOK'
  BY <1>1, <1>2, <1>3 DEF RunsInv, RunsOK
<1>5. LiveOK' /\ Filled'
  BY DEF LiveOK, Filled
<1>. QED BY <1>0, <1>4, <1>5, WriteTyped, WriteOrder, WriteBounded, WriteAgrees DEF RunsInv

\* Time passes, clients edit, the server boots, stops or dies.
LEMMA Elsewhere ==
  ASSUME RunsInv, UNCHANGED <<rows, summaries, samples, skipped>>,
         ticks' \in Nat, ticks' >= ticks,
         UNCHANGED <<sampled, current>> \/ (sampled' = <<>> /\ current' = Nothing)
  PROVE  RunsInv'
<1>1. RunsOK' /\ SamplesInOrder' /\ SamplesBounded' /\ SummariesAgree'
  BY DEF RunsInv, RunsOK, SamplesInOrder, SamplesBounded, SummariesAgree
<1>2. SamplesOK'
  <2>1. /\ samples' = samples /\ rows' = rows /\ samples \in Seq(Sample) /\ ticks \in Nat
        /\ \A i \in DOMAIN samples : /\ samples[i].run \in DOMAIN rows /\ samples[i].at <= ticks
                                     /\ samples[i].at \in Nat
    <3>1. samples \in Seq(Sample) /\ \A i \in DOMAIN samples : samples[i] \in Sample
      BY DEF RunsInv, SamplesOK
    <3>. QED BY <3>1 DEF RunsInv, SamplesOK, RunsOK, Sample
  <2>2. sampled' \in [DOMAIN sampled' -> Mark] /\ DOMAIN sampled' \subseteq DOMAIN rows
    <3>1. DOMAIN << >> = {} /\ << >> \in [{} -> Mark]
      OBVIOUS
    <3>2. CASE sampled' = << >>
      BY <3>1, <3>2
    <3>3. CASE sampled' = sampled
      BY <3>3 DEF RunsInv, SamplesOK
    <3>. QED BY <3>2, <3>3
  <2>. QED BY <2>1, <2>2 DEF SamplesOK
<1>3. LiveOK' /\ Filled'
  BY DEF RunsInv, LiveOK, Filled, OfRun, Count
<1>. QED BY <1>1, <1>2, <1>3 DEF RunsInv

\* The active run counts, changes its status or ends, and nothing is written.
LEMMA NotWritten ==
  ASSUME RunsInv, UNCHANGED <<ticks, rows, summaries, samples, skipped, sampled>>,
         \/ current' = Nothing
         \/ /\ current # Nothing /\ current' \in Memory
            /\ current'.run = current.run /\ current'.count >= current.count
  PROVE  RunsInv'
<1>1. SamplesOK' /\ SamplesInOrder' /\ SamplesBounded' /\ SummariesAgree'
  BY DEF RunsInv, SamplesOK, SamplesInOrder, SamplesBounded, SummariesAgree
<1>2. CASE current' = Nothing
  BY <1>1, <1>2 DEF RunsInv, RunsOK, LiveOK, Filled
<1>3. CASE /\ current # Nothing /\ current' \in Memory
           /\ current'.run = current.run /\ current'.count >= current.count
  <2>1. RunsOK' /\ Filled'
    BY <1>3 DEF RunsInv, RunsOK, Filled, OfRun, Count
  <2>2. LiveOK'
    <3>1. \A i \in OfRun(samples, current.run) :
            samples[i].count \in Nat /\ samples[i].count <= current.count
      <4>1. \A i \in DOMAIN samples : samples[i] \in Sample
        BY DEF RunsInv, SamplesOK
      <4>2. \A i \in OfRun(samples, current.run) : i \in DOMAIN samples /\ samples[i].count \in Nat
        BY <4>1 DEF OfRun, Sample
      <4>. QED BY <1>3, <4>2 DEF RunsInv, LiveOK
    <3>2. current.count \in Nat /\ current'.count \in Nat
      BY <1>3 DEF RunsInv, RunsOK, Memory
    <3>3. \A i \in OfRun(samples, current.run) : samples[i].count <= current'.count
      BY <1>3, <3>1, <3>2
    <3>. QED BY <1>3, <3>3 DEF RunsInv, LiveOK, OfRun
  <2>. QED BY <1>1, <2>1, <2>2 DEF RunsInv
<1>. QED BY <1>2, <1>3

\* A new run has no sample, no summary and no mark.
LEMMA StartRuns == RecordsAssumption /\ TablesInv /\ RunsInv /\ StartRun => RunsInv'
<1> SUFFICES ASSUME RecordsAssumption, TablesInv, RunsInv, StartRun PROVE RunsInv'
  OBVIOUS
<1> DEFINE n == Len(rows)
           V == {Nothing} \cup [status : Terminal, count : Nat]
<1>1. rows' \in Seq(RunRow)
  BY StartTables DEF TablesInv, NamesOK
<1>2. /\ \E row : rows' = Append(rows, row)
      /\ summaries' = Append(summaries, Nothing) /\ skipped' = Append(skipped, 0)
      /\ current' = [run |-> n + 1, status |-> "starting", count |-> 0]
      /\ UNCHANGED <<ticks, samples, sampled>>
  BY DEF StartRun
<1>3. /\ rows \in Seq(RunRow) /\ summaries \in Seq(V) /\ skipped \in Seq(Nat)
      /\ n \in Nat /\ Len(summaries) = n /\ Len(skipped) = n
      /\ DOMAIN rows = 1..n /\ DOMAIN summaries = 1..n /\ DOMAIN skipped = 1..n
  BY DEF RunsInv, RunsOK
<1>4. /\ Len(rows') = n + 1 /\ DOMAIN rows' = 1..(n + 1)
      /\ \A r \in 1..n : rows'[r] = rows[r]
  BY <1>2, <1>3
<1>5. /\ summaries' \in Seq(V) /\ Len(summaries') = n + 1 /\ summaries'[n + 1] = Nothing
      /\ \A r \in 1..n : summaries'[r] = summaries[r]
  <2>1. Nothing \in V
    OBVIOUS
  <2> HIDE DEF V
  <2>. QED BY <1>2, <1>3, <2>1
<1>6. /\ skipped' \in Seq(Nat) /\ Len(skipped') = n + 1 /\ skipped'[n + 1] = 0
      /\ \A r \in 1..n : skipped'[r] = skipped[r]
  BY <1>2, <1>3
<1>7. /\ current' \in Memory /\ current'.run = n + 1 /\ current'.count = 0
  BY <1>2, <1>3 DEF Memory, Stages
<1>8. \A r \in 1..(n + 1) : r \in 1..n \/ r = n + 1
  BY <1>3
<1>9. \A i \in DOMAIN samples : samples[i].run \in 1..n
  BY <1>3 DEF RunsInv, SamplesOK
<1>10. n + 1 \notin 1..n /\ (1..n) \subseteq 1..(n + 1)
  BY <1>3
<1>11. OfRun(samples, n + 1) = {} /\ Cardinality(OfRun(samples, n + 1)) = 0
  <2>1. OfRun(samples, n + 1) = {}
    BY <1>9, <1>10 DEF OfRun
  <2>. QED BY <2>1, FS_EmptySet
<1> HIDE DEF V, n
<1>12. RunsOK'
  BY <1>1, <1>2, <1>3, <1>4, <1>5, <1>6, <1>7 DEF RunsInv, RunsOK, V
<1>13. SamplesOK'
  BY <1>2, <1>3, <1>4, <1>10 DEF RunsInv, SamplesOK
<1>14. LiveOK'
  BY <1>2, <1>5, <1>7, <1>11 DEF LiveOK
<1>15. Filled'
  <2>1. MaxSamples \in Nat /\ PruneEvery \in Nat \ {0}
    BY DEF RecordsAssumption
  <2>2. Count(n + 1) = 0
    BY <1>3, <1>10 DEF RunsInv, SamplesOK, Count
  <2>3. PruneEvery * 0 = 0 /\ (0 % PruneEvery) \in Nat
    BY <2>1
  <2>4. (IF n + 1 \in DOMAIN sampled' THEN sampled'[n + 1].count ELSE 0) = 0
    BY <1>2, <2>2 DEF Count
  <2>5. Cardinality(OfRun(samples', n + 1)) = 0
    BY <1>2, <1>11
  <2>6. 0 <= MaxSamples + PruneEvery * 0 + (0 % PruneEvery)
    BY <2>1, <2>3
  <2>. QED BY <1>6, <1>7, <2>4, <2>5, <2>6 DEF Filled, Count
<1>16. SamplesInOrder'
  BY <1>2 DEF RunsInv, SamplesInOrder
<1>17. SamplesBounded'
  <2> SUFFICES ASSUME MaxSamples > 0, NEW r \in 1..(n + 1)
               PROVE  Cardinality(OfRun(samples, r)) < MaxSamples + PruneEvery * (skipped'[r] + 1)
    BY <1>2, <1>4 DEF SamplesBounded, OfRun
  <2>1. CASE r \in 1..n
    BY <1>3, <1>6, <2>1 DEF RunsInv, SamplesBounded, OfRun
  <2>2. CASE r = n + 1
    <3>1. PruneEvery * (0 + 1) = PruneEvery /\ MaxSamples \in Nat /\ PruneEvery \in Nat
      BY DEF RecordsAssumption
    <3>. QED BY <1>6, <1>11, <2>2, <3>1
  <2>. QED BY <1>8, <2>1, <2>2
<1>18. SummariesAgree'
  <2> SUFFICES ASSUME NEW r \in 1..(n + 1)
      PROVE  /\ summaries'[r] # Nothing =>
                  rows'[r].status = summaries'[r].status /\ rows'[r].count = summaries'[r].count
             /\ \A i \in DOMAIN samples : samples[i].run = r /\ samples[i].status \in Terminal =>
                  rows'[r].status = samples[i].status /\ rows'[r].count = samples[i].count
    BY <1>2, <1>4 DEF SummariesAgree
  <2>1. CASE r \in 1..n
    <3>1. rows'[r] = rows[r] /\ summaries'[r] = summaries[r] /\ r \in DOMAIN rows
      BY <1>3, <1>4, <1>5, <2>1
    <3>2. /\ summaries[r] # Nothing =>
               rows[r].status = summaries[r].status /\ rows[r].count = summaries[r].count
          /\ \A i \in DOMAIN samples : samples[i].run = r /\ samples[i].status \in Terminal =>
               rows[r].status = samples[i].status /\ rows[r].count = samples[i].count
      BY <3>1, Zenon DEF RunsInv, SummariesAgree
    <3>. QED BY <3>1, <3>2
  <2>2. CASE r = n + 1
    BY <1>5, <1>9, <1>10, <2>2
  <2>. QED BY <1>8, <2>1, <2>2
<1>. QED BY <1>12, <1>13, <1>14, <1>15, <1>16, <1>17, <1>18 DEF RunsInv

-----------------------------------------------------------------------------
(* The tables: every step *)

\* Empty tables are true.
LEMMA RecordsInitially == RecordsAssumption /\ RecordsInit => RecordsInv
<1> SUFFICES ASSUME RecordsAssumption, RecordsInit PROVE RecordsInv
  OBVIOUS
<1>1. /\ up = "down" /\ ticks = 0 /\ targets = <<>> /\ scenarios = <<>> /\ rows = <<>>
      /\ summaries = <<>> /\ samples = <<>> /\ skipped = <<>> /\ sampled = <<>> /\ current = Nothing
  BY DEF RecordsInit
<1>2. TablesInv
  BY <1>1 DEF TablesInv, TargetsOK, ScenariosOK, NamesOK
<1>3. SamplesOK /\ RunsOK
  BY <1>1 DEF SamplesOK, RunsOK
<1>4. LiveOK /\ Filled /\ SamplesInOrder /\ SamplesBounded /\ SummariesAgree
  BY <1>1 DEF LiveOK, Filled, SamplesInOrder, SamplesBounded, SummariesAgree
<1>. QED BY <1>2, <1>3, <1>4 DEF RecordsInv, RunsInv

\* Every step keeps them true.
LEMMA RecordsKept == RecordsAssumption /\ RecordsInv /\ [RecordsNext]_recordVars => RecordsInv'
<1> SUFFICES ASSUME RecordsAssumption, TablesInv, RunsInv, [RecordsNext]_recordVars
             PROVE  TablesInv' /\ RunsInv'
  BY DEF RecordsInv
<1>0. /\ ticks \in Nat /\ rows \in Seq(RunRow)
      /\ current # Nothing => current \in Memory
  BY DEF RunsInv, RunsOK
<1>1. CASE UNCHANGED recordVars
  <2>1. UNCHANGED <<up, ticks, targets, scenarios, rows, summaries, samples, skipped, sampled, current>>
    BY <1>1 DEF recordVars, tableVars
  <2>. QED BY <1>0, <2>1, SameTables, Elsewhere
<1>2. CASE Boot
  <2>1. UNCHANGED <<ticks, rows, summaries, samples, skipped, sampled, current>>
    BY <1>2 DEF Boot
  <2>. QED BY <1>0, <1>2, <2>1, BootTables, Elsewhere
<1>3. CASE Crash
  <2>1. /\ UNCHANGED <<ticks, targets, scenarios, rows, summaries, samples, skipped>>
        /\ up' = "down" /\ current' = Nothing /\ sampled' = <<>>
    BY <1>3 DEF Crash, tableVars
  <2>. QED BY <1>0, <2>1, SameTables, Elsewhere
<1>4. CASE Shutdown
  <2>1. /\ UNCHANGED <<ticks, targets, scenarios, rows, summaries, samples, skipped>>
        /\ up' = "down" /\ current' = Nothing /\ sampled' = <<>>
    BY <1>4 DEF Shutdown, tableVars
  <2>. QED BY <1>0, <2>1, SameTables, Elsewhere
<1>5. CASE Later
  <2>1. /\ UNCHANGED <<up, targets, scenarios, rows, summaries, samples, skipped, sampled, current>>
        /\ ticks' = ticks + 1
    BY <1>5 DEF Later, tableVars
  <2>. QED BY <1>0, <2>1, SameTables, Elsewhere
<1>6. CASE UpdateTarget \/ RemoveTarget \/ CreateTarget \/ UpdateScenario
             \/ RemoveScenario \/ CreateScenario
  <2>1. UNCHANGED <<ticks, rows, summaries, samples, skipped, sampled, current>>
    BY <1>6 DEF UpdateTarget, RemoveTarget, CreateTarget, UpdateScenario, RemoveScenario,
                CreateScenario, Edit
  <2>. QED BY <1>0, <1>6, <2>1, EditTables, Elsewhere
<1>7. CASE StartRun
  BY <1>7, StartTables, StartRuns
<1>8. CASE CountResult
  <2>1. /\ UNCHANGED <<up, ticks, targets, scenarios, rows, summaries, samples, skipped, sampled>>
        /\ current # Nothing /\ current' = [current EXCEPT !.count = @ + 1]
    BY <1>8 DEF CountResult, tableVars
  <2>2. current' \in Memory /\ current'.run = current.run /\ current'.count >= current.count
    BY <1>0, <2>1 DEF Memory
  <2>. QED BY <1>0, <2>1, <2>2, SameTables, NotWritten
<1>9. ASSUME NEW status \in Statuses, current # Nothing, Write(status), UNCHANGED <<up, targets, scenarios>>
      PROVE  TablesInv'
  <2>1. /\ rows' \in Seq(RunRow) /\ DOMAIN rows' = DOMAIN rows
        /\ \A r \in DOMAIN rows : rows'[r].scenario = rows[r].scenario /\ rows'[r].target = rows[r].target
    BY <1>9, WriteRow
  <2>. QED BY <1>9, <2>1, SameTables
<1>10. ASSUME UNCHANGED <<up, targets, scenarios, rows>>
       PROVE  TablesInv'
  BY <1>0, <1>10, SameTables
<1>11. Stages \subseteq Statuses /\ Terminal \subseteq Statuses /\ "failed" \in Terminal
  BY DEF Statuses, Terminal
<1>12. CASE \E status \in {"running", "paused", "stopping"} : Checkpoint(status)
  <2>1. PICK status \in {"running", "paused", "stopping"} : Checkpoint(status)
    BY <1>12
  <2>2. /\ status \in Stages /\ current # Nothing /\ current' = [current EXCEPT !.status = status]
        /\ UNCHANGED <<up, ticks, targets, scenarios, summaries>>
        /\ Write(status) \/ UNCHANGED <<rows, samples, skipped, sampled>>
    BY <2>1 DEF Checkpoint, Stages
  <2>3. CASE Write(status)
    BY <1>9, <1>11, <2>2, <2>3, WriteOn
  <2>4. CASE UNCHANGED <<rows, samples, skipped, sampled>>
    <3>1. current' \in Memory /\ current'.run = current.run /\ current'.count >= current.count
      BY <1>0, <2>2 DEF Memory
    <3>. QED BY <1>10, <2>2, <2>4, <3>1, NotWritten
  <2>. QED BY <2>2, <2>3, <2>4
<1>13. CASE \E status \in Terminal : Finalize(status)
  <2>1. PICK status \in Terminal : Finalize(status)
    BY <1>13
  <2>2. /\ current # Nothing /\ current' = Nothing
        /\ UNCHANGED <<up, ticks, targets, scenarios>>
        /\ \/ /\ Write(status)
              /\ summaries' \in {summaries, [summaries EXCEPT ![current.run] =
                                               [status |-> status, count |-> current.count]]}
           \/ UNCHANGED <<rows, samples, skipped, sampled, summaries>>
    BY <2>1 DEF Finalize
  <2>3. CASE Write(status) /\ summaries' \in {summaries, [summaries EXCEPT ![current.run] =
                                                [status |-> status, count |-> current.count]]}
    BY <1>9, <1>11, <2>2, <2>3, WriteLast
  <2>4. CASE UNCHANGED <<rows, samples, skipped, sampled, summaries>>
    BY <1>10, <2>2, <2>4, NotWritten
  <2>. QED BY <2>2, <2>3, <2>4
<1>14. CASE FailStart
  <2>1. /\ current # Nothing /\ current' = Nothing
        /\ UNCHANGED <<up, ticks, targets, scenarios, summaries>>
        /\ Write("failed") \/ UNCHANGED <<rows, samples, skipped, sampled>>
    BY <1>14 DEF FailStart
  <2>2. CASE Write("failed")
    BY <1>9, <1>11, <2>1, <2>2, WriteLast
  <2>3. CASE UNCHANGED <<rows, samples, skipped, sampled>>
    BY <1>10, <2>1, <2>3, NotWritten
  <2>. QED BY <2>1, <2>2, <2>3
<1>. QED BY <1>1, <1>2, <1>3, <1>4, <1>5, <1>6, <1>7, <1>8, <1>12, <1>13, <1>14
         DEF RecordsNext, RecordsStep

\* Over any sequence of boots, edits, runs, failed writes and crashes, what the tables
\* say is true: see the five properties of Records (target-store.ts, scenario-store.ts,
\* run-store.ts, built-ins.ts and persistRunState of scenario-runtime.ts).
THEOREM RecordsTrueHolds == RecordsAssumption /\ RecordsSpec => []RecordsTrue
<1> SUFFICES ASSUME RecordsAssumption PROVE RecordsSpec => []RecordsTrue
  OBVIOUS
<1>1. RecordsInit => RecordsInv
  BY RecordsInitially
<1>2. RecordsInv /\ [RecordsNext]_recordVars => RecordsInv'
  BY RecordsKept
<1>3. RecordsInv => RecordsTrue
  BY TablesResolve DEF RecordsInv, RunsInv, RecordsTrue
<1>. QED BY <1>1, <1>2, <1>3, PTL DEF RecordsSpec

-----------------------------------------------------------------------------
(* The dashboard: what is on its way, and what it shows *)

TheRun == [id : Nat, status : {"none", "running", "paused", "completed"}]
TheEvent == [run : Nat, seq : Nat]
TheFrame == [run : TheRun, recent : Seq(TheEvent)]
Message ==
  [type : {"hello", "pong"}] \cup [type : {"run"}, run : TheRun]
    \cup [type : {"event"}, event : TheEvent] \cup [type : {"frame"}, frame : TheFrame]
Codes == {Null, 4401}
Channels == {"hello", "pong", "frame", "event", "run"}
Connection ==
  [at : {"opening", "open", "closing"}, token : Nat, channels : SUBSET Channels,
   down : Seq(Message), up : Seq({"subscribe", "ping"}), code : Codes, greeted : BOOLEAN]

SessionTypes ==
  /\ auth \in {"locked", "checking", "authed", "error", "expired"} /\ attempts \in {0, 1}
  /\ reconnect \in BOOLEAN /\ ping \in BOOLEAN /\ pong \in BOOLEAN
  /\ held \in {Null} \cup Nat

TelemetryTypes ==
  /\ run \in TheRun /\ seq \in Nat /\ secret \in Nat /\ latest \in TheFrame
  /\ link \in {NoLink} \cup Connection
  /\ SessionTypes
  /\ shown \in TheRun /\ ticker \in Seq(TheEvent)

\* The run that a message puts on screen, if it does.
Tells(m) == m.type \in {"run", "frame"}
RunTold(m) == IF m.type = "run" THEN m.run ELSE m.frame.run

\* What the screen will show when all that is on its way has come.
WillShow(down, now, r) ==
  /\ (\A i \in DOMAIN down : ~Tells(down[i])) => now = r
  /\ \A i \in DOMAIN down :
       Tells(down[i]) /\ (\A j \in DOMAIN down : j > i => ~Tells(down[j])) => RunTold(down[i]) = r

HubInv ==
  /\ told = latest.run
  /\ link # NoLink /\ link.at = "open" =>
       "run" \in link.channels /\ (latest # NoFrame => WillShow(link.down, shown, latest.run))

\* The newest RecentSize of n events of a run.
Latest(id, n) ==
  [i \in 1..(IF n < RecentSize THEN n ELSE RecentSize) |-> [run |-> id, seq |-> n + 1 - i]]
Top(events) == IF events = <<>> THEN 0 ELSE events[1].seq
Genuine(f) == f.recent = Latest(f.run.id, Top(f.recent))
Before(f, g) == f.run.id < g.run.id \/ (f.run.id = g.run.id /\ Top(f.recent) <= Top(g.recent))

\* The events on screen are no newer than a frame's.
NoNewer(events, f) ==
  events # <<>> => events[1].run < f.run.id \/ (events[1].run = f.run.id /\ events[1].seq <= Top(f.recent))

\* A ticker is in order, and starts with the newest events of the run of its first.
Ordered(events) == \A i, j \in DOMAIN events : i < j => Newer(events[i], events[j])
Leading(events) ==
  events # <<>> =>
    \A i \in DOMAIN Latest(events[1].run, events[1].seq) :
      i \in DOMAIN events /\ events[i] = Latest(events[1].run, events[1].seq)[i]

\* Frames on their way are genuine and in order, none older than the events on screen
\* and none newer than the hub's last frame.
Ahead(down, events, last) ==
  \A i \in DOMAIN down : down[i].type = "frame" =>
    /\ Genuine(down[i].frame) /\ Before(down[i].frame, last) /\ NoNewer(events, down[i].frame)
    /\ \A j \in DOMAIN down : j > i /\ down[j].type = "frame" => Before(down[i].frame, down[j].frame)

\* Frames come in order, from the screen over the link and the hub to the run.
FramesInv ==
  /\ Genuine(latest) /\ latest.run.id <= run.id
  /\ run.status \in Live => Before(latest, FrameOf(run)) /\ NoNewer(ticker, FrameOf(run))
  /\ ticker # <<>> => ticker[1].run <= run.id
  /\ latest # NoFrame => NoNewer(ticker, latest)
  /\ link # NoLink => Ahead(link.down, ticker, latest)
  /\ Ordered(ticker) /\ Leading(ticker)

\* StreamFollowsSession, spelt out.
Streaming ==
  IF auth = "authed"
    THEN /\ held # Null /\ sock \in {"connecting", "open", "reconnecting"}
         /\ reconnect = (IF link = NoLink THEN TRUE ELSE FALSE)
    ELSE /\ link = NoLink /\ reconnect = FALSE /\ ping = FALSE /\ pong = FALSE
         /\ IF auth = "checking" THEN held # Null ELSE held = Null

TelemetryInv ==
  /\ TelemetryTypes /\ recent = Latest(run.id, seq) /\ HubInv /\ Streaming
  /\ RecentSize <= TickerSize => FramesInv

-----------------------------------------------------------------------------
(* What the ticker shows *)

\* The newest events of a run are a sequence of events, newest first.
LEMMA NewestElements ==
  ASSUME RecentSize \in Nat, NEW id \in Nat, NEW n \in Nat
  PROVE  /\ Latest(id, n) \in Seq(TheEvent)
         /\ Len(Latest(id, n)) = (IF n < RecentSize THEN n ELSE RecentSize)
         /\ DOMAIN Latest(id, n) = 1..Len(Latest(id, n))
         /\ \A i \in 1..Len(Latest(id, n)) : Latest(id, n)[i] = [run |-> id, seq |-> n + 1 - i]
         /\ Top(Latest(id, n)) = (IF RecentSize = 0 THEN 0 ELSE n)
<1> DEFINE size == IF n < RecentSize THEN n ELSE RecentSize
           w == [i \in 1..size |-> [run |-> id, seq |-> n + 1 - i]]
<1>1. size \in Nat /\ \A i \in 1..size : n + 1 - i \in Nat
  OBVIOUS
<1>2. \A i \in 1..size : [run |-> id, seq |-> n + 1 - i] \in TheEvent
  BY <1>1 DEF TheEvent
<1>3. w \in Seq(TheEvent) /\ Len(w) = size /\ DOMAIN w = 1..size
  <2> HIDE DEF size
  <2>. QED
    BY <1>1, <1>2
<1>4. \A i \in 1..size : w[i] = [run |-> id, seq |-> n + 1 - i]
  OBVIOUS
<1>5. Top(w) = (IF RecentSize = 0 THEN 0 ELSE n)
  <2>1. CASE size = 0
    <3>1. w = <<>> /\ (RecentSize = 0 \/ n = 0)
      BY <2>1, <1>3
    <3>. QED
      BY <3>1 DEF Top
  <2>2. CASE size # 0
    <3>1. w # <<>> /\ 1 \in 1..size /\ RecentSize # 0
      BY <2>2, <1>1, <1>3
    <3>2. w[1].seq = n
      BY <3>1, <1>4
    <3>. QED
      BY <3>1, <3>2 DEF Top
  <2>. QED
    BY <2>1, <2>2
<1>6. Latest(id, n) = w
  BY DEF Latest
<1>. QED
  BY <1>3, <1>4, <1>5, <1>6

\* A recorded event goes on top of the ring, and the oldest falls off.
LEMMA NewestRecorded ==
  ASSUME RecentSize \in Nat, NEW id \in Nat, NEW n \in Nat
  PROVE  LET window == Latest(id, n)
         IN  Latest(id, n + 1) =
               SubSeq(<<[run |-> id, seq |-> n + 1]>> \o window, 1,
                      IF Len(window) < RecentSize THEN Len(window) + 1 ELSE RecentSize)
<1> DEFINE e == [run |-> id, seq |-> n + 1]
           w == Latest(id, n)
           v == Latest(id, n + 1)
           k == IF Len(w) < RecentSize THEN Len(w) + 1 ELSE RecentSize
           all == <<e>> \o w
<1>1. n + 1 \in Nat
  OBVIOUS
<1>2. /\ w \in Seq(TheEvent) /\ Len(w) = (IF n < RecentSize THEN n ELSE RecentSize)
      /\ \A i \in 1..Len(w) : w[i] = [run |-> id, seq |-> n + 1 - i]
  BY NewestElements
<1>3. /\ v \in Seq(TheEvent) /\ Len(v) = (IF n + 1 < RecentSize THEN n + 1 ELSE RecentSize)
      /\ \A i \in 1..Len(v) : v[i] = [run |-> id, seq |-> (n + 1) + 1 - i]
  BY <1>1, NewestElements
<1>4. e \in TheEvent
  BY <1>1 DEF TheEvent
<1> HIDE DEF e, w, v
<1>5. <<e>> \in Seq(TheEvent) /\ Len(<<e>>) = 1 /\ <<e>>[1] = e
  BY <1>4
<1>6. /\ all \in Seq(TheEvent) /\ Len(all) = 1 + Len(w)
      /\ \A i \in 1..(1 + Len(w)) : all[i] = IF i <= 1 THEN <<e>>[i] ELSE w[i - 1]
  BY <1>2, <1>5, ConcatElements
<1> HIDE DEF all
<1>7. k \in 0..Len(all) /\ k = Len(v)
  BY <1>2, <1>3, <1>6
<1>8. /\ SubSeq(all, 1, k) \in Seq(TheEvent) /\ Len(SubSeq(all, 1, k)) = k
      /\ \A i \in 1..k : SubSeq(all, 1, k)[i] = all[i]
  BY <1>6, <1>7, SplitElements
<1>9. \A i \in 1..k : all[i] = v[i]
  <2> TAKE i \in 1..k
  <2>0. i \in 1..Len(v) /\ i \in 1..(1 + Len(w))
    BY <1>2, <1>6, <1>7
  <2>1. CASE i = 1
    <3>1. v[i] = [run |-> id, seq |-> n + 1]
      BY <2>0, <2>1, <1>3
    <3>. QED
      BY <3>1, <2>0, <2>1, <1>5, <1>6 DEF e
  <2>2. CASE i # 1
    <3>1. i - 1 \in 1..Len(w) /\ all[i] = w[i - 1]
      BY <2>0, <2>2, <1>2, <1>6
    <3>2. w[i - 1] = [run |-> id, seq |-> n + 1 - (i - 1)]
      BY <3>1, <1>2
    <3>3. v[i] = [run |-> id, seq |-> (n + 1) + 1 - i]
      BY <2>0, <1>3
    <3>4. n + 1 - (i - 1) = (n + 1) + 1 - i
      BY <2>0
    <3>. QED
      BY <3>1, <3>2, <3>3, <3>4
  <2>. QED
    BY <2>1, <2>2
<1>10. SubSeq(all, 1, k) = v
  <2> HIDE DEF k
  <2>. QED
    BY <1>3, <1>7, <1>8, <1>9, SeqEqual
<1>. QED
  BY <1>10 DEF e, w, v, all, k

\* Of the events of a frame the first m are new to a ticker, and newer than all on it;
\* the others lead it.
OnTop(w, events, m) ==
  /\ \A i \in 1..Len(w) : w[i] \in Range(w) \ Range(events) <=> i <= m
  /\ \A i \in 1..m, j \in 1..Len(events) : Newer(w[i], events[j])
  /\ \A i \in (m + 1)..Len(w) : i - m \in 1..Len(events) /\ events[i - m] = w[i]
LEMMA FreshOnTop ==
  ASSUME RecentSize \in Nat, NEW id \in Nat, NEW t \in Nat, NEW events \in Seq(TheEvent),
         Ordered(events), Leading(events), RecentSize # 0,
         events # <<>> => events[1].run < id \/ (events[1].run = id /\ events[1].seq <= t)
  PROVE  \E m \in 0..Len(Latest(id, t)) : OnTop(Latest(id, t), events, m)
<1> DEFINE w == Latest(id, t)
<1>1. /\ w \in Seq(TheEvent) /\ Len(w) = (IF t < RecentSize THEN t ELSE RecentSize)
      /\ DOMAIN w = 1..Len(w)
      /\ \A i \in 1..Len(w) : w[i] = [run |-> id, seq |-> t + 1 - i]
  BY NewestElements
<1>2. /\ Len(events) \in Nat /\ DOMAIN events = 1..Len(events)
      /\ \A j \in 1..Len(events) : events[j] \in TheEvent
  OBVIOUS
<1>3. \A j \in 1..Len(events) : events[j].run \in Nat /\ events[j].seq \in Nat
  BY <1>2 DEF TheEvent
<1>4. \A j \in 1..Len(events) :
         1 \in 1..Len(events) /\ (j = 1 \/ Newer(events[1], events[j]))
  <2> TAKE j \in 1..Len(events)
  <2>1. 1 \in 1..Len(events) /\ (j = 1 \/ 1 < j)
    BY <1>2
  <2>. QED
    BY <2>1, <1>2 DEF Ordered
<1>5. \A i \in 1..Len(w) : w[i] \in Range(w)
  BY <1>1 DEF Range
<1>6. \A e : e \in Range(events) <=> \E j \in 1..Len(events) : events[j] = e
  BY <1>2 DEF Range
<1>7. \A i \in 1..Len(w) : w[i].run = id /\ w[i].seq = t + 1 - i /\ t + 1 - i \in Nat
  <2> TAKE i \in 1..Len(w)
  <2>1. w[i] = [run |-> id, seq |-> t + 1 - i]
    BY <1>1
  <2>2. t + 1 - i \in Nat
    <3> HIDE DEF w
    <3>. QED
      BY <1>1
  <2>. QED
    BY <2>1, <2>2
<1>8. CASE events = <<>> \/ events[1].run < id
  <2>1. \A j \in 1..Len(events) : events[j].run < id
    <3> TAKE j \in 1..Len(events)
    <3>1. events # <<>> /\ events[1].run < id
      BY <1>2, <1>8, <1>4
    <3>2. CASE j = 1
      BY <3>1, <3>2
    <3>3. CASE Newer(events[1], events[j])
      BY <3>1, <3>3, <1>3, <1>4 DEF Newer
    <3>. QED
      BY <3>2, <3>3, <1>4
  <2>2. \A i \in 1..Len(w), j \in 1..Len(events) : Newer(w[i], events[j])
    BY <2>1, <1>7, <1>3 DEF Newer
  <2>3. \A i \in 1..Len(w) : w[i] \notin Range(events)
    <3>1. \A i \in 1..Len(w), j \in 1..Len(events) : w[i] # events[j]
      BY <2>1, <1>7, <1>3
    <3>. QED
      BY <3>1, <1>6
  <2>4. Len(w) \in 0..Len(w) /\ \A i \in (Len(w) + 1)..Len(w) : FALSE
    <3>1. Len(w) \in Nat
      BY <1>1
    <3> HIDE DEF w
    <3>. QED
      BY <3>1
  <2> HIDE DEF w
  <2>5. \A i \in 1..Len(w) : w[i] \in Range(w) \ Range(events) <=> i <= Len(w)
    BY <2>3, <1>5, <1>1
  <2>. QED
    BY <2>2, <2>4, <2>5 DEF w, OnTop
<1>9. CASE events # <<>> /\ events[1].run = id /\ events[1].seq <= t
  <2> DEFINE n == events[1].seq
             m == IF t - n <= Len(w) THEN t - n ELSE Len(w)
  <2>1. 1 \in 1..Len(events) /\ n \in Nat /\ n <= t
    <3>1. Len(events) # 0
      BY <1>9, <1>2
    <3>. QED
      BY <3>1, <1>2, <1>3, <1>9
  <2>2. \A j \in 1..Len(events) : events[j].run < id \/ (events[j].run = id /\ events[j].seq <= n)
    <3> TAKE j \in 1..Len(events)
    <3>1. CASE j = 1
      BY <3>1, <1>9, <1>3, <2>1
    <3>2. CASE Newer(events[1], events[j])
      BY <3>2, <1>9, <1>3, <2>1 DEF Newer
    <3>. QED
      BY <3>1, <3>2, <1>4
  <2>3. m \in 0..Len(w)
    BY <2>1, <1>1
  <2>4. \A i \in 1..m : i \in 1..Len(w) /\ t + 1 - i > n
    BY <2>1, <1>1
  <2>5. \A i \in 1..m, j \in 1..Len(events) : Newer(w[i], events[j])
    <3> TAKE i \in 1..m, j \in 1..Len(events)
    <3>1. w[i].run = id /\ w[i].seq = t + 1 - i /\ t + 1 - i > n /\ t + 1 - i \in Nat
      BY <2>4, <1>7
    <3> HIDE DEF w, m, n
    <3>. QED
      BY <3>1, <2>1, <2>2, <1>3 DEF Newer
  <2>6. \A i \in (m + 1)..Len(w) : i - m \in 1..Len(events) /\ events[i - m] = w[i]
    <3> TAKE i \in (m + 1)..Len(w)
    <3>1. m = t - n /\ i - m \in 1..n /\ i \in 1..Len(w) /\ i - m <= RecentSize
      BY <2>1, <1>1
    <3> DEFINE v == Latest(id, n)
    <3>2. /\ Len(v) = (IF n < RecentSize THEN n ELSE RecentSize) /\ DOMAIN v = 1..Len(v)
          /\ \A k \in 1..Len(v) : v[k] = [run |-> id, seq |-> n + 1 - k]
      BY <2>1, NewestElements
    <3>3. \A k \in DOMAIN v : k \in DOMAIN events /\ events[k] = v[k]
      BY <1>9 DEF Leading
    <3>4. i - m \in DOMAIN v
      <4> HIDE DEF v, w, m, n
      <4>. QED
        BY <3>1, <3>2, <2>1
    <3>5. i - m \in 1..Len(events) /\ events[i - m] = [run |-> id, seq |-> n + 1 - (i - m)]
      BY <3>2, <3>3, <3>4, <1>2
    <3>6. n + 1 - (i - m) = t + 1 - i
      <4>1. m = t - n /\ i \in Int /\ n \in Int
        BY <3>1, <2>1
      <4> HIDE DEF m, n, w, v
      <4>. QED
        BY <4>1
    <3>7. w[i] = [run |-> id, seq |-> t + 1 - i]
      BY <3>1, <1>1
    <3>. QED
      BY <3>5, <3>6, <3>7
  <2>7. \A i \in 1..Len(w) : w[i] \in Range(w) \ Range(events) <=> i <= m
    <3> TAKE i \in 1..Len(w)
    <3>1. CASE i <= m
      <4>1. i \in 1..m
        <5> HIDE DEF m, w
        <5>. QED
          BY <3>1, <2>3
      <4>2. \A j \in 1..Len(events) : w[i] # events[j]
        <5>1. \A j \in 1..Len(events) : Newer(w[i], events[j])
          BY <2>5, <4>1
        <5>2. w[i].run \in Nat /\ w[i].seq \in Nat
          BY <1>7
        <5> HIDE DEF w, m
        <5>. QED
          BY <5>1, <5>2, <1>3 DEF Newer
      <4>3. w[i] \notin Range(events)
        BY <4>2, <1>6
      <4>. QED
        BY <3>1, <4>3, <1>5
    <3>2. CASE ~(i <= m)
      <4>1. i \in (m + 1)..Len(w)
        BY <3>2, <2>3, <1>1
      <4>2. i - m \in 1..Len(events) /\ events[i - m] = w[i]
        BY <2>6, <4>1
      <4>3. w[i] \in Range(events)
        BY <4>2, <1>6
      <4>. QED
        BY <3>2, <4>3
    <3>. QED
      BY <3>1, <3>2
  <2> HIDE DEF w, m
  <2>. QED
    BY <2>3, <2>5, <2>6, <2>7 DEF w, OnTop
<1>. QED
  BY <1>8, <1>9

\* Cutting a ticker off at its size leaves it in order, with its first events.
LEMMA CutTicker ==
  ASSUME RecentSize \in Nat, TickerSize \in Nat, RecentSize <= TickerSize,
         NEW all \in Seq(TheEvent), Ordered(all), Leading(all)
  PROVE  LET cut == SubSeq(all, 1, IF Len(all) < TickerSize THEN Len(all) ELSE TickerSize)
         IN  /\ cut \in Seq(TheEvent) /\ Ordered(cut) /\ Leading(cut)
             /\ cut # <<>> => all # <<>> /\ cut[1] = all[1]
<1> DEFINE k == IF Len(all) < TickerSize THEN Len(all) ELSE TickerSize
           cut == SubSeq(all, 1, k)
<1>1. Len(all) \in Nat /\ DOMAIN all = 1..Len(all) /\ \A i \in 1..Len(all) : all[i] \in TheEvent
  OBVIOUS
<1>2. k \in 0..Len(all)
  BY <1>1
<1>3. /\ cut \in Seq(TheEvent) /\ Len(cut) = k /\ DOMAIN cut = 1..k
      /\ \A i \in 1..k : cut[i] = all[i]
  <2> HIDE DEF k
  <2>. QED
    BY <1>2, SplitElements
<1>4. \A i \in 1..k : i \in DOMAIN all
  BY <1>1, <1>2
<1> HIDE DEF cut
<1>5. Ordered(cut)
  BY <1>3, <1>4 DEF Ordered
<1>6. cut # <<>> => all # <<>> /\ cut[1] = all[1] /\ k # 0
  BY <1>1, <1>2, <1>3
<1>7. Leading(cut)
  <2>1. SUFFICES ASSUME cut # <<>>, NEW i \in DOMAIN Latest(cut[1].run, cut[1].seq)
                 PROVE  i \in DOMAIN cut /\ cut[i] = Latest(cut[1].run, cut[1].seq)[i]
    BY DEF Leading
  <2>2. all # <<>> /\ cut[1] = all[1] /\ all[1] \in TheEvent
    <3>1. all # <<>> /\ cut[1] = all[1] /\ 1 \in 1..Len(all)
      BY <2>1, <1>6, <1>1
    <3>. QED
      BY <3>1, <1>1
  <2>3. i \in DOMAIN all /\ all[i] = Latest(cut[1].run, cut[1].seq)[i]
    BY <2>1, <2>2 DEF Leading
  <2>4. cut[1].run \in Nat /\ cut[1].seq \in Nat
    BY <2>2 DEF TheEvent
  <2>5. i \in 1..RecentSize
    <3> DEFINE w == Latest(cut[1].run, cut[1].seq)
    <3>1. /\ Len(w) = (IF cut[1].seq < RecentSize THEN cut[1].seq ELSE RecentSize)
          /\ DOMAIN w = 1..Len(w) /\ i \in DOMAIN w
      BY <2>1, <2>4, NewestElements
    <3> HIDE DEF w
    <3>. QED
      BY <3>1, <2>4
  <2>6. i \in 1..k
    BY <2>3, <2>5, <1>1
  <2>. QED
    BY <2>3, <2>6, <1>3
<1>. QED
  BY <1>3, <1>5, <1>6, <1>7 DEF cut

\* A genuine frame, shown on a ticker that is no newer, leaves it so.
LEMMA FrameShown ==
  ASSUME RecentSize \in Nat, TickerSize \in Nat, RecentSize <= TickerSize,
         NEW f \in TheFrame, Genuine(f), NEW events \in Seq(TheEvent),
         Ordered(events), Leading(events), NoNewer(events, f)
  PROVE  LET fresh == Selected(f.recent, Range(f.recent) \ Range(events))
             all   == fresh \o events
             shows == SubSeq(all, 1, IF Len(all) < TickerSize THEN Len(all) ELSE TickerSize)
         IN  shows \in Seq(TheEvent) /\ Ordered(shows) /\ Leading(shows) /\ NoNewer(shows, f)
<1> DEFINE w == f.recent
           id == f.run.id
           t == Top(w)
           fresh == Selected(w, Range(w) \ Range(events))
           all == fresh \o events
           shows == SubSeq(all, 1, IF Len(all) < TickerSize THEN Len(all) ELSE TickerSize)
<1>1. w \in Seq(TheEvent) /\ id \in Nat
  BY DEF TheFrame, TheRun
<1>2. t \in Nat
  <2>1. w # <<>> => w[1] \in TheEvent
    <3> HIDE DEF w
    <3>. QED
      BY <1>1
  <2>. QED
    BY <2>1 DEF Top, TheEvent
<1>3. w = Latest(id, t)
  BY DEF Genuine
<1> HIDE DEF w, id, t
<1>4. /\ Len(w) \in Nat /\ Len(w) = (IF t < RecentSize THEN t ELSE RecentSize)
      /\ \A i \in 1..Len(w) : w[i] = [run |-> id, seq |-> t + 1 - i]
  BY <1>2, <1>1, <1>3, NewestElements
<1>5. Len(events) \in Nat /\ DOMAIN events = 1..Len(events)
  OBVIOUS
<1>6. /\ all \in Seq(TheEvent) /\ Ordered(all) /\ Leading(all)
      /\ all # <<>> => all[1] = [run |-> id, seq |-> t] \/ (events # <<>> /\ all[1] = events[1])
  <2>1. CASE RecentSize = 0
    <3>1. w = <<>>
      BY <2>1, <1>1, <1>2, <1>4, EmptySeq
    <3>2. \A i \in 1..Len(w) : w[i] \in Range(w) \ Range(events) <=> i <= 0
      BY <3>1
    <3>3. fresh \in Seq(TheEvent) /\ Len(fresh) = 0
      <4>1. 0 \in 0..Len(w)
        BY <1>4
      <4>. QED
        BY <3>2, <4>1, <1>1, SelectedPrefix, Zenon
    <3> HIDE DEF fresh
    <3>4. fresh = <<>>
      BY <3>3, EmptySeq
    <3>5. all = events
      BY <3>4
    <3>. QED
      BY <3>5
  <2>2. CASE RecentSize # 0
    <3>0. events # <<>> => events[1].run < id \/ (events[1].run = id /\ events[1].seq <= t)
      BY DEF NoNewer, id, t, w
    <3>00. \E m \in 0..Len(w) : OnTop(w, events, m)
      BY <2>2, <3>0, <1>1, <1>2, <1>3, FreshOnTop
    <3>1. PICK m \in 0..Len(w) :
             /\ \A i \in 1..Len(w) : w[i] \in Range(w) \ Range(events) <=> i <= m
             /\ \A i \in 1..m, j \in 1..Len(events) : Newer(w[i], events[j])
             /\ \A i \in (m + 1)..Len(w) : i - m \in 1..Len(events) /\ events[i - m] = w[i]
      BY <3>00 DEF OnTop
    <3>2. fresh \in Seq(TheEvent) /\ Len(fresh) = m /\ \A i \in 1..m : fresh[i] = w[i]
      BY <3>1, <1>1, SelectedPrefix
    <3> HIDE DEF fresh
    <3>3. all \in Seq(TheEvent)
      BY <3>2
    <3>4. /\ DOMAIN all = 1..(m + Len(events))
          /\ \A i \in 1..(m + Len(events)) : all[i] = IF i <= m THEN w[i] ELSE events[i - m]
      <4>1. /\ DOMAIN all = 1..(m + Len(events))
            /\ \A i \in 1..(m + Len(events)) : all[i] = IF i <= m THEN fresh[i] ELSE events[i - m]
        BY <3>2, ConcatElements
      <4>. QED
        BY <4>1, <3>1, <3>2
    <3> HIDE DEF all
    <3>5. \A i \in 1..m : all[i] = w[i] /\ i \in 1..Len(w) /\ i \in DOMAIN all
      BY <3>1, <3>4, <1>4, <1>5
    <3>6. \A i \in DOMAIN all : i \in 1..m
             \/ (i > m /\ i - m \in 1..Len(events) /\ all[i] = events[i - m])
      BY <3>1, <3>4, <1>4, <1>5
    <3>7. Ordered(all)
      <4>1. SUFFICES ASSUME NEW i \in DOMAIN all, NEW j \in DOMAIN all, i < j
                     PROVE  Newer(all[i], all[j])
        BY DEF Ordered
      <4>0. i \in Nat /\ j \in Nat /\ m \in Nat
        BY <3>1, <3>4, <1>4, <1>5
      <4>2. CASE i \in 1..m /\ j \in 1..m
        <5>1. all[i] = [run |-> id, seq |-> t + 1 - i] /\ all[j] = [run |-> id, seq |-> t + 1 - j]
          BY <4>2, <3>5, <1>4
        <5>2. t + 1 - i > t + 1 - j
          BY <4>0, <4>1, <1>2
        <5>. QED
          BY <5>1, <5>2 DEF Newer
      <4>3. CASE i \in 1..m /\ j \notin 1..m
        BY <4>3, <3>1, <3>5, <3>6
      <4>4. CASE i \notin 1..m /\ j \in 1..m
        BY <4>4, <4>0, <4>1, <3>4
      <4>5. CASE i \notin 1..m /\ j \notin 1..m
        <5>1. i - m < j - m
          BY <4>0, <4>1
        <5>. QED
          BY <5>1, <4>5, <3>6, <1>5 DEF Ordered
      <4>. QED
        BY <4>2, <4>3, <4>4, <4>5
    <3>8. all # <<>> => all[1] = [run |-> id, seq |-> t] \/ (events # <<>> /\ all[1] = events[1])
      <4>1. ASSUME all # <<>>
            PROVE  1 \in DOMAIN all
        BY <4>1, <3>3
      <4>2. CASE m = 0
        BY <4>1, <4>2, <3>6, <1>5
      <4>3. CASE m # 0
        <5>1. 1 \in 1..m
          BY <4>3, <3>1
        <5>2. all[1] = [run |-> id, seq |-> t + 1 - 1]
          BY <5>1, <3>5, <1>4
        <5>. QED
          BY <5>2, <1>2
      <4>. QED
        BY <4>2, <4>3
    <3>9. Leading(all)
      <4>1. CASE m = 0
        <5>1. fresh = <<>>
          BY <4>1, <3>2, EmptySeq
        <5>2. all = events
          BY <5>1 DEF all
        <5>. QED
          BY <5>2
      <4>2. CASE m # 0
        <5>1. 1 \in 1..m
          BY <4>2, <3>1
        <5>2. all[1] = [run |-> id, seq |-> t + 1 - 1]
          BY <5>1, <3>5, <1>4
        <5>3. Latest(all[1].run, all[1].seq) = w
          BY <5>2, <1>2, <1>3
        <5>4. DOMAIN w = 1..Len(w)
          BY <1>1
        <5>5. ASSUME NEW i \in 1..Len(w)
              PROVE  i \in DOMAIN all /\ all[i] = w[i]
          <6>1. CASE i <= m
            BY <6>1, <3>1, <3>5
          <6>2. CASE ~(i <= m)
            <7>1. i \in (m + 1)..Len(w) /\ i \in Nat /\ m \in Nat
              BY <6>2, <3>1, <1>4
            <7>2. i - m \in 1..Len(events) /\ events[i - m] = w[i]
              BY <7>1, <3>1
            <7>3. i \in 1..(m + Len(events))
              BY <7>1, <7>2, <1>5
            <7>. QED
              BY <6>2, <7>2, <7>3, <3>4
          <6>. QED
            BY <6>1, <6>2
        <5>. QED
          BY <5>3, <5>4, <5>5 DEF Leading
      <4>. QED
        BY <4>1, <4>2
    <3>. QED
      BY <3>3, <3>7, <3>8, <3>9
  <2>. QED
    BY <2>1, <2>2
<1> HIDE DEF all, fresh
<1>7. /\ shows \in Seq(TheEvent) /\ Ordered(shows) /\ Leading(shows)
      /\ shows # <<>> => all # <<>> /\ shows[1] = all[1]
  BY <1>6, CutTicker
<1> HIDE DEF shows
<1>8. NoNewer(shows, f)
  <2>1. SUFFICES ASSUME shows # <<>>
                 PROVE  shows[1].run < id \/ (shows[1].run = id /\ shows[1].seq <= t)
    BY DEF NoNewer, id, t, w
  <2>2. CASE shows[1] = [run |-> id, seq |-> t]
    BY <2>2, <1>2
  <2>3. CASE events # <<>> /\ shows[1] = events[1]
    BY <2>3 DEF NoNewer, id, t, w
  <2>. QED
    BY <2>1, <2>2, <2>3, <1>6, <1>7
<1>. QED
  BY <1>7, <1>8 DEF shows, all, fresh, w

-----------------------------------------------------------------------------
(* What is on its way to the dashboard *)

\* A message is of one of five types, and carries what its type says.
LEMMA MessageKinds ==
  ASSUME NEW m \in Message
  PROVE  /\ m.type \in Channels
         /\ m.type = "frame" => m.frame \in TheFrame
         /\ m.type = "run" => m.run \in TheRun
         /\ Tells(m) => RunTold(m) \in TheRun
<1>1. m.type \in Channels
  BY DEF Message, Channels
<1>2. m.type = "frame" => m.frame \in TheFrame
  BY DEF Message
<1>3. m.type = "run" => m.run \in TheRun
  BY DEF Message
<1>4. \A f \in TheFrame : f.run \in TheRun
  BY DEF TheFrame
<1>. QED
  BY <1>1, <1>2, <1>3, <1>4 DEF Tells, RunTold

\* The messages the hub and the socket make.
LEMMA MessagesMade ==
  /\ Hello \in Message /\ ~Tells(Hello) /\ Hello.type = "hello"
  /\ [type |-> "pong"] \in Message /\ ~Tells([type |-> "pong"])
  /\ \A r \in TheRun : /\ RunMessage(r) \in Message /\ RunMessage(r).type = "run"
                       /\ Tells(RunMessage(r)) /\ RunTold(RunMessage(r)) = r
  /\ \A e \in TheEvent : /\ EventMessage(e) \in Message /\ EventMessage(e).type = "event"
                         /\ ~Tells(EventMessage(e))
  /\ \A f \in TheFrame : /\ FrameMessage(f) \in Message /\ FrameMessage(f).type = "frame"
                         /\ FrameMessage(f).frame = f
                         /\ Tells(FrameMessage(f)) /\ RunTold(FrameMessage(f)) = f.run
BY DEF Message, Hello, RunMessage, EventMessage, FrameMessage, Tells, RunTold

\* A connection, put together from its fields.
LEMMA FieldsMakeIt ==
  ASSUME NEW A, NEW B, NEW C, NEW D, NEW E, NEW F, NEW G,
         NEW a \in A, NEW b \in B, NEW c \in C, NEW d \in D, NEW e \in E, NEW f \in F, NEW g \in G
  PROVE  [at |-> a, token |-> b, channels |-> c, down |-> d, up |-> e, code |-> f, greeted |-> g]
           \in [at : A, token : B, channels : C, down : D, up : E, code : F, greeted : G]
OBVIOUS

\* A connection with the given fields, and with one field changed.
Has(o, at, channels, down, sent, code) ==
  /\ o \in Connection
  /\ o.at = at /\ o.channels = channels /\ o.down = down /\ o.up = sent /\ o.code = code

\* The fields of a connection.
LEMMA Fields ==
  ASSUME NEW l \in Connection
  PROVE  /\ l.at \in {"opening", "open", "closing"} /\ l.channels \in SUBSET Channels
         /\ l.down \in Seq(Message) /\ l.up \in Seq({"subscribe", "ping"})
         /\ l.code \in Codes /\ l.token \in Nat /\ l.greeted \in BOOLEAN
         /\ Has(l, l.at, l.channels, l.down, l.up, l.code)
BY DEF Connection, Has

LEMMA AtSet ==
  ASSUME NEW l \in Connection, NEW a \in {"opening", "open", "closing"}, NEW o, o = [l EXCEPT !.at = a]
  PROVE  Has(o, a, l.channels, l.down, l.up, l.code)
<1> DEFINE row == [at |-> a, token |-> l.token, channels |-> l.channels, down |-> l.down,
                   up |-> l.up, code |-> l.code, greeted |-> l.greeted]
<1>1. o = row
  BY DEF Connection
<1>2. row \in Connection
  BY Fields, FieldsMakeIt DEF Connection
<1>3. row.at = a /\ row.channels = l.channels /\ row.down = l.down /\ row.up = l.up /\ row.code = l.code
  OBVIOUS
<1> HIDE DEF row
<1>. QED
  BY <1>1, <1>2, <1>3 DEF Has

LEMMA ChannelsSet ==
  ASSUME NEW l \in Connection, NEW c \in SUBSET Channels, NEW o, o = [l EXCEPT !.channels = c]
  PROVE  Has(o, l.at, c, l.down, l.up, l.code)
<1> DEFINE row == [at |-> l.at, token |-> l.token, channels |-> c, down |-> l.down,
                   up |-> l.up, code |-> l.code, greeted |-> l.greeted]
<1>1. o = row
  BY DEF Connection
<1>2. row \in Connection
  BY Fields, FieldsMakeIt DEF Connection
<1>3. row.at = l.at /\ row.channels = c /\ row.down = l.down /\ row.up = l.up /\ row.code = l.code
  OBVIOUS
<1> HIDE DEF row
<1>. QED
  BY <1>1, <1>2, <1>3 DEF Has

LEMMA DownSet ==
  ASSUME NEW l \in Connection, NEW d \in Seq(Message), NEW o, o = [l EXCEPT !.down = d]
  PROVE  Has(o, l.at, l.channels, d, l.up, l.code)
<1> DEFINE row == [at |-> l.at, token |-> l.token, channels |-> l.channels, down |-> d,
                   up |-> l.up, code |-> l.code, greeted |-> l.greeted]
<1>1. o = row
  BY DEF Connection
<1>2. row \in Connection
  BY Fields, FieldsMakeIt DEF Connection
<1>3. row.at = l.at /\ row.channels = l.channels /\ row.down = d /\ row.up = l.up /\ row.code = l.code
  OBVIOUS
<1> HIDE DEF row
<1>. QED
  BY <1>1, <1>2, <1>3 DEF Has

LEMMA UpSet ==
  ASSUME NEW l \in Connection, NEW u \in Seq({"subscribe", "ping"}), NEW o, o = [l EXCEPT !.up = u]
  PROVE  Has(o, l.at, l.channels, l.down, u, l.code)
<1> DEFINE row == [at |-> l.at, token |-> l.token, channels |-> l.channels, down |-> l.down,
                   up |-> u, code |-> l.code, greeted |-> l.greeted]
<1>1. o = row
  BY DEF Connection
<1>2. row \in Connection
  BY Fields, FieldsMakeIt DEF Connection
<1>3. row.at = l.at /\ row.channels = l.channels /\ row.down = l.down /\ row.up = u /\ row.code = l.code
  OBVIOUS
<1> HIDE DEF row
<1>. QED
  BY <1>1, <1>2, <1>3 DEF Has

LEMMA CodeSet ==
  ASSUME NEW l \in Connection, NEW k \in Codes, NEW o, o = [l EXCEPT !.code = k]
  PROVE  Has(o, l.at, l.channels, l.down, l.up, k)
<1> DEFINE row == [at |-> l.at, token |-> l.token, channels |-> l.channels, down |-> l.down,
                   up |-> l.up, code |-> k, greeted |-> l.greeted]
<1>1. o = row
  BY DEF Connection
<1>2. row \in Connection
  BY Fields, FieldsMakeIt DEF Connection
<1>3. row.at = l.at /\ row.channels = l.channels /\ row.down = l.down /\ row.up = l.up /\ row.code = k
  OBVIOUS
<1> HIDE DEF row
<1>. QED
  BY <1>1, <1>2, <1>3 DEF Has

LEMMA GreetedSet ==
  ASSUME NEW l \in Connection, NEW g \in BOOLEAN, NEW o, o = [l EXCEPT !.greeted = g]
  PROVE  Has(o, l.at, l.channels, l.down, l.up, l.code)
<1> DEFINE row == [at |-> l.at, token |-> l.token, channels |-> l.channels, down |-> l.down,
                   up |-> l.up, code |-> l.code, greeted |-> g]
<1>1. o = row
  BY DEF Connection
<1>2. row \in Connection
  BY Fields, FieldsMakeIt DEF Connection
<1>3. row.at = l.at /\ row.channels = l.channels /\ row.down = l.down /\ row.up = l.up /\ row.code = l.code
  OBVIOUS
<1> HIDE DEF row
<1>. QED
  BY <1>1, <1>2, <1>3 DEF Has

\* A connection to which something is appended.
LEMMA ForOpen ==
  ASSUME NEW l \in Connection, NEW m \in Message
  PROVE  LET o == [l EXCEPT !.down = Append(@, m)]
         IN  o \in Connection /\ Has(o, l.at, l.channels, Append(l.down, m), l.up, l.code)
<1> DEFINE d == Append(l.down, m)
           o == [l EXCEPT !.down = d]
<1>1. d \in Seq(Message)
  <2>1. l.down \in Seq(Message)
    BY Fields
  <2>. QED
    BY <2>1
<1>2. [l EXCEPT !.down = Append(@, m)] = o
  OBVIOUS
<1> HIDE DEF d, o
<1>3. Has(o, l.at, l.channels, d, l.up, l.code)
  BY <1>1, DownSet DEF o
<1>. QED
  BY <1>2, <1>3 DEF Has, d

\* The recursion of Offered has a solution, step by step: each prefix has one.
LEMMA OfferedUnfolds ==
  ASSUME NEW l, NEW messages \in Seq(Message)
  PROVE  \E after : /\ Offered(l, messages) = after[Len(messages)]
                    /\ after[0] = l
                    /\ \A n \in 0..(Len(messages) - 1) :
                         after[n + 1] = Offer(after[n], messages[n + 1])
<1> DEFINE Step(g, k) == IF k = 0 THEN l ELSE Offer(g[k - 1], messages[k])
           A == {n \in 0..Len(messages) : \E g : g = [k \in 0..n |-> Step(g, k)]}
           after == CHOOSE g : g = [k \in 0..Len(messages) |-> Step(g, k)]
<1>0. Len(messages) \in Nat
  OBVIOUS
<1>1. 0 \in A
  <2>1. [k \in 0..0 |-> l] = [k \in 0..0 |-> Step([j \in 0..0 |-> l], k)]
    OBVIOUS
  <2>2. \E g : g = [k \in 0..0 |-> Step(g, k)]
    <3> HIDE DEF Step
    <3>. QED BY <2>1
  <2>. QED BY <2>2, <1>0
<1>2. ASSUME NEW n \in 0..(Len(messages) - 1), n \in A
      PROVE  n + 1 \in A
  <2>1. PICK g : g = [k \in 0..n |-> Step(g, k)]
    BY <1>2
  <2> DEFINE h == [k \in 0..(n + 1) |-> IF k <= n THEN g[k] ELSE Step(g, n + 1)]
  <2>2. h = [k \in 0..(n + 1) |-> Step(h, k)]
    <3>1. \A k \in 0..(n + 1) : h[k] = Step(h, k)
      <4> TAKE k \in 0..(n + 1)
      <4>1. CASE k = 0
        BY <4>1, <2>1
      <4>2. CASE k \in 1..n
        <5>1. h[k] = g[k] /\ h[k - 1] = g[k - 1]
          BY <4>2
        <5>2. g[k] = Step(g, k)
          <6>1. k \in 0..n
            BY <4>2
          <6> HIDE DEF Step
          <6>. QED BY <2>1, <6>1
        <5>. QED BY <5>1, <5>2, <4>2
      <4>3. CASE k = n + 1
        <5>1. h[k] = Step(g, k) /\ h[k - 1] = g[k - 1] /\ k # 0
          BY <4>3
        <5>. QED BY <5>1
      <4>. QED BY <4>1, <4>2, <4>3
    <3>. QED BY <3>1
  <2>3. n + 1 \in 0..Len(messages)
    BY <1>0
  <2>. QED BY <2>2, <2>3
<1>3. \E g : g = [k \in 0..Len(messages) |-> Step(g, k)]
  <2> HIDE DEF Step
  <2>1. Len(messages) \in A
    <3> HIDE DEF A
    <3>1. \A k \in 0..Len(messages) : k \in A
      BY <1>0, <1>1, <1>2, Induction
    <3>. QED BY <3>1, <1>0
  <2>. QED BY <2>1
<1>4. after = [k \in 0..Len(messages) |-> Step(after, k)]
  <2> HIDE DEF Step
  <2>. QED BY <1>3
<1>5. Offered(l, messages) = after[Len(messages)]
  BY DEF Offered
<1> HIDE DEF after
<1>6. after[0] = l
  BY <1>0, <1>4
<1>7. ASSUME NEW n \in 0..(Len(messages) - 1)
      PROVE  after[n + 1] = Offer(after[n], messages[n + 1])
  <2>1. n + 1 \in 0..Len(messages) /\ n + 1 # 0 /\ (n + 1) - 1 = n
    BY <1>0
  <2>2. after[n + 1] = Step(after, n + 1)
    <3> HIDE DEF Step
    <3>. QED BY <1>4, <2>1
  <2>. QED BY <2>1, <2>2
<1>. QED BY <1>5, <1>6, <1>7

\* A connection o is l with some of the first n of the messages on their way as well; a
\* run message that comes first is among them.
Sent(l, o, messages, n) ==
  /\ o \in Connection /\ o.at = l.at /\ o.channels = l.channels
  /\ Len(o.down) >= Len(l.down)
  /\ \A i \in 1..Len(l.down) : o.down[i] = l.down[i]
  /\ \A i \in (Len(l.down) + 1)..Len(o.down) : \E k \in 1..n : o.down[i] = messages[k]
  /\ n > 0 /\ messages[1].type = "run" /\ "run" \in l.channels =>
       Len(o.down) > Len(l.down) /\ o.down[Len(l.down) + 1] = messages[1]

LEMMA OneOffered ==
  ASSUME NEW l \in Connection, NEW messages \in Seq(Message), NEW n \in 0..(Len(messages) - 1),
         NEW o, Sent(l, o, messages, n)
  PROVE  Sent(l, Offer(o, messages[n + 1]), messages, n + 1)
<1> DEFINE m == messages[n + 1]
           d == Append(o.down, m)
           p == [o EXCEPT !.down = Append(@, m)]
<1>0. n \in Nat /\ n + 1 \in 1..Len(messages) /\ m \in Message
  <2>1. Len(messages) \in Nat
    OBVIOUS
  <2>2. n \in Nat /\ n + 1 \in 1..Len(messages)
    BY <2>1
  <2>. QED
    BY <2>2
<1>1. o \in Connection /\ o.down \in Seq(Message) /\ l.down \in Seq(Message)
  BY DEF Sent, Connection
<1>2. Len(o.down) \in Nat /\ Len(l.down) \in Nat /\ Len(o.down) >= Len(l.down)
  BY <1>1 DEF Sent
<1> HIDE DEF m
<1>3. CASE Offer(o, m) = o
  <2>1. \A i \in (Len(l.down) + 1)..Len(o.down) : \E k \in 1..(n + 1) : o.down[i] = messages[k]
    <3>1. \A k \in 1..n : k \in 1..(n + 1)
      BY <1>0
    <3>. QED
      BY <3>1 DEF Sent
  <2>2. ASSUME messages[1].type = "run", "run" \in l.channels
        PROVE  Len(o.down) > Len(l.down) /\ o.down[Len(l.down) + 1] = messages[1]
    <3>1. CASE n = 0
      <4>1. m = messages[1] /\ m.type \in o.channels /\ ~Droppable(m)
        BY <3>1, <2>2 DEF m, Sent, Droppable
      <4>2. o = p
        BY <4>1, <1>3 DEF Offer
      <4>3. o.down = Append(o.down, m)
        BY <4>2, <1>0, <1>1, ForOpen DEF Has
      <4>. QED
        BY <4>3, <1>0, <1>1
    <3>2. CASE n # 0
      BY <3>2, <2>2, <1>0 DEF Sent
    <3>. QED
      BY <3>1, <3>2
  <2>. QED
    BY <1>3, <2>1, <2>2 DEF Sent, m
<1>4. CASE Offer(o, m) = p
  <2>1. p \in Connection /\ p.at = o.at /\ p.channels = o.channels /\ p.down = d
    BY <1>0, <1>1, ForOpen DEF Has
  <2> HIDE DEF p
  <2>2. /\ Len(d) = Len(o.down) + 1 /\ \A i \in 1..Len(o.down) : d[i] = o.down[i]
        /\ d[Len(o.down) + 1] = m
    BY <1>0, <1>1
  <2> HIDE DEF d
  <2>3. \A i \in 1..Len(l.down) : d[i] = l.down[i]
    BY <2>2, <1>2 DEF Sent
  <2>4. \A i \in (Len(l.down) + 1)..Len(d) : \E k \in 1..(n + 1) : d[i] = messages[k]
    <3> TAKE i \in (Len(l.down) + 1)..Len(d)
    <3>1. CASE i = Len(o.down) + 1
      <4>1. d[i] = messages[n + 1] /\ n + 1 \in 1..(n + 1)
        BY <3>1, <2>2, <1>0 DEF m
      <4>. QED
        BY <4>1
    <3>2. CASE i # Len(o.down) + 1
      <4>1. i \in (Len(l.down) + 1)..Len(o.down) /\ d[i] = o.down[i]
        BY <3>2, <2>2, <1>2
      <4>2. PICK k \in 1..n : o.down[i] = messages[k]
        BY <4>1 DEF Sent
      <4>3. k \in 1..(n + 1)
        BY <1>0
      <4>. QED
        BY <4>1, <4>2, <4>3
    <3>. QED
      BY <3>1, <3>2
  <2>5. ASSUME messages[1].type = "run", "run" \in l.channels
        PROVE  Len(d) > Len(l.down) /\ d[Len(l.down) + 1] = messages[1]
    <3>1. Len(d) > Len(l.down)
      BY <2>2, <1>2
    <3>2. CASE n = 0
      <4>1. \A i \in (Len(l.down) + 1)..Len(o.down) : FALSE
        BY <3>2 DEF Sent
      <4>2. Len(o.down) = Len(l.down)
        BY <4>1, <1>2
      <4>. QED
        BY <3>1, <3>2, <4>2, <2>2 DEF m
    <3>3. CASE n # 0
      <4>1. Len(o.down) > Len(l.down) /\ o.down[Len(l.down) + 1] = messages[1]
        BY <3>3, <2>5, <1>0 DEF Sent
      <4>2. Len(l.down) + 1 \in 1..Len(o.down)
        BY <4>1, <1>2
      <4>. QED
        BY <3>1, <4>1, <4>2, <2>2
    <3>. QED
      BY <3>2, <3>3
  <2>6. p.at = l.at /\ p.channels = l.channels /\ Len(d) >= Len(l.down)
    BY <2>1, <2>2, <1>2 DEF Sent
  <2>. QED
    BY <1>4, <2>1, <2>3, <2>4, <2>5, <2>6 DEF Sent, m
<1>5. Offer(o, m) \in {o, p}
  BY DEF Offer
<1>. QED
  BY <1>3, <1>4, <1>5 DEF m

LEMMA AllOffered ==
  ASSUME NEW l \in Connection, NEW messages \in Seq(Message)
  PROVE  Sent(l, Offered(l, messages), messages, Len(messages))
<1>0. Len(messages) \in Nat
  OBVIOUS
<1>1. PICK after : /\ Offered(l, messages) = after[Len(messages)]
                   /\ after[0] = l
                   /\ \A n \in 0..(Len(messages) - 1) :
                        after[n + 1] = Offer(after[n], messages[n + 1])
  BY OfferedUnfolds
<1> DEFINE A == {n \in 0..Len(messages) : Sent(l, after[n], messages, n)}
<1>2. 0 \in A
  <2>1. Sent(l, l, messages, 0)
    <3>1. Len(l.down) \in Nat
      BY DEF Connection
    <3>. QED
      BY <3>1 DEF Sent
  <2>. QED
    BY <2>1, <1>0, <1>1
<1>3. ASSUME NEW n \in 0..(Len(messages) - 1), n \in A
      PROVE  n + 1 \in A
  <2>1. n + 1 \in 0..Len(messages) /\ after[n + 1] = Offer(after[n], messages[n + 1])
    BY <1>0, <1>1
  <2>2. Sent(l, after[n], messages, n)
    BY <1>3
  <2>3. Sent(l, Offer(after[n], messages[n + 1]), messages, n + 1)
    BY <2>2, OneOffered
  <2>. QED
    BY <2>1, <2>3
<1>4. Len(messages) \in A
  <2> HIDE DEF A
  <2>1. \A k \in 0..Len(messages) : k \in A
    BY <1>0, <1>2, <1>3, Induction
  <2>. QED
    BY <2>1, <1>0
<1>. QED
  BY <1>1, <1>4

\* More on its way, all of it telling of the run r: the screen will show r if it would
\* before, or if it is told of it.
LEMMA WillShowMore ==
  ASSUME NEW old \in Seq(Message), NEW new \in Seq(Message), NEW now, NEW r,
         Len(new) >= Len(old), \A i \in 1..Len(old) : new[i] = old[i],
         \A i \in (Len(old) + 1)..Len(new) : Tells(new[i]) => RunTold(new[i]) = r,
         WillShow(old, now, r) \/ \E i \in (Len(old) + 1)..Len(new) : Tells(new[i])
  PROVE  WillShow(new, now, r)
<1>1. /\ Len(old) \in Nat /\ Len(new) \in Nat
      /\ DOMAIN old = 1..Len(old) /\ DOMAIN new = 1..Len(new)
  OBVIOUS
<1>2. \A i \in 1..Len(new) : i \in 1..Len(old) \/ i \in (Len(old) + 1)..Len(new)
  BY <1>1
<1>3. \A i \in 1..Len(old) : i \in 1..Len(new) /\ i < Len(old) + 1
  BY <1>1
<1>4. \A i \in (Len(old) + 1)..Len(new) : i \in 1..Len(new)
  BY <1>1
<1>5. ASSUME \A i \in 1..Len(new) : ~Tells(new[i])
      PROVE  now = r
  <2>1. \A i \in 1..Len(old) : ~Tells(old[i])
    BY <1>3, <1>5
  <2>2. WillShow(old, now, r)
    BY <1>4, <1>5
  <2>. QED
    BY <2>1, <2>2, <1>1 DEF WillShow
<1>6. ASSUME NEW i \in 1..Len(new), Tells(new[i]), \A j \in 1..Len(new) : j > i => ~Tells(new[j])
      PROVE  RunTold(new[i]) = r
  <2>1. CASE i \in 1..Len(old)
    <3>1. \A j \in (Len(old) + 1)..Len(new) : j > i
      BY <2>1, <1>1
    <3>2. WillShow(old, now, r)
      BY <3>1, <1>4, <1>6
    <3>3. Tells(old[i]) /\ \A j \in 1..Len(old) : j > i => ~Tells(old[j])
      BY <2>1, <1>3, <1>6
    <3>4. RunTold(old[i]) = r
      BY <2>1, <3>2, <3>3, <1>1 DEF WillShow
    <3>. QED
      BY <2>1, <3>4
  <2>2. CASE i \in (Len(old) + 1)..Len(new)
    BY <2>2, <1>6
  <2>. QED
    BY <2>1, <2>2, <1>2
<1>. QED
  BY <1>1, <1>5, <1>6 DEF WillShow

\* The first message comes: the screen shows what it tells of.
LEMMA WillShowTail ==
  ASSUME NEW down \in Seq(Message), down # <<>>, NEW now, NEW r, WillShow(down, now, r)
  PROVE  WillShow(Tail(down), IF Tells(down[1]) THEN RunTold(down[1]) ELSE now, r)
<1> DEFINE t == Tail(down)
           shows == IF Tells(down[1]) THEN RunTold(down[1]) ELSE now
<1>1. /\ Len(down) \in Nat /\ Len(down) > 0 /\ DOMAIN down = 1..Len(down)
      /\ DOMAIN t = 1..(Len(down) - 1)
      /\ \A i \in 1..(Len(down) - 1) : t[i] = down[i + 1]
  OBVIOUS
<1> HIDE DEF t
<1>2. \A i \in 1..Len(down) : i = 1 \/ (i - 1 \in 1..(Len(down) - 1) /\ (i - 1) + 1 = i)
  BY <1>1
<1>3. \A i \in 1..(Len(down) - 1) : i + 1 \in 1..Len(down) /\ i \in Nat
  BY <1>1
<1>4. ASSUME \A i \in 1..(Len(down) - 1) : ~Tells(t[i])
      PROVE  shows = r
  <2>1. \A i \in 1..Len(down) : i > 1 => ~Tells(down[i])
    <3> TAKE i \in 1..Len(down)
    <3>1. CASE i = 1
      BY <3>1
    <3>2. CASE i # 1
      <4>1. i - 1 \in 1..(Len(down) - 1) /\ (i - 1) + 1 = i
        BY <3>2, <1>2
      <4>2. down[i] = t[i - 1]
        BY <4>1, <1>1
      <4>. QED
        BY <4>1, <4>2, <1>4
    <3>. QED
      BY <3>1, <3>2
  <2>2. 1 \in 1..Len(down)
    BY <1>1
  <2>3. CASE Tells(down[1])
    <3>1. RunTold(down[1]) = r
      BY <2>1, <2>2, <2>3, <1>1 DEF WillShow
    <3>. QED
      BY <2>3, <3>1
  <2>4. CASE ~Tells(down[1])
    <3>1. \A i \in 1..Len(down) : ~Tells(down[i])
      <4> TAKE i \in 1..Len(down)
      <4>1. i = 1 \/ i > 1
        BY <1>1
      <4>. QED
        BY <4>1, <2>1, <2>4
    <3>2. now = r
      BY <3>1, <1>1 DEF WillShow
    <3>. QED
      BY <2>4, <3>2
  <2>. QED
    BY <2>3, <2>4
<1>5. ASSUME NEW i \in 1..(Len(down) - 1), Tells(t[i]),
             \A j \in 1..(Len(down) - 1) : j > i => ~Tells(t[j])
      PROVE  RunTold(t[i]) = r
  <2>1. i + 1 \in 1..Len(down) /\ t[i] = down[i + 1]
    BY <1>1, <1>3
  <2>2. \A j \in 1..Len(down) : j > i + 1 => ~Tells(down[j])
    <3> TAKE j \in 1..Len(down)
    <3>1. SUFFICES ASSUME j > i + 1 PROVE ~Tells(down[j])
      OBVIOUS
    <3>2. j - 1 \in 1..(Len(down) - 1) /\ (j - 1) + 1 = j /\ j - 1 > i
      BY <3>1, <1>1, <1>3
    <3>3. down[j] = t[j - 1]
      BY <3>2, <1>1
    <3>. QED
      BY <3>2, <3>3, <1>5
  <2>3. RunTold(down[i + 1]) = r
    BY <2>1, <2>2, <1>1, <1>5 DEF WillShow
  <2>. QED
    BY <2>1, <2>3
<1>6. WillShow(t, shows, r)
  <2> HIDE DEF shows
  <2>. QED
    BY <1>1, <1>4, <1>5 DEF WillShow
<1>. QED
  BY <1>6 DEF t

\* What a frame is made of; the order of frames.
LEMMA FrameParts ==
  ASSUME NEW f \in TheFrame
  PROVE  /\ f.run \in TheRun /\ f.run.id \in Nat /\ f.recent \in Seq(TheEvent)
         /\ Top(f.recent) \in Nat /\ Before(f, f)
<1>1. f.run \in TheRun /\ f.recent \in Seq(TheEvent)
  BY DEF TheFrame
<1>2. f.run.id \in Nat
  BY <1>1 DEF TheRun
<1>3. f.recent # <<>> => f.recent[1] \in TheEvent
  BY <1>1
<1>4. Top(f.recent) \in Nat
  BY <1>3 DEF Top, TheEvent
<1>. QED
  BY <1>1, <1>2, <1>4 DEF Before

LEMMA BeforeOrders ==
  ASSUME NEW f \in TheFrame, NEW g \in TheFrame, NEW h \in TheFrame,
         NEW events \in Seq(TheEvent), Before(f, g)
  PROVE  /\ Before(g, h) => Before(f, h)
         /\ NoNewer(events, f) => NoNewer(events, g)
<1>1. /\ f.run.id \in Nat /\ g.run.id \in Nat /\ h.run.id \in Nat
      /\ Top(f.recent) \in Nat /\ Top(g.recent) \in Nat /\ Top(h.recent) \in Nat
  BY FrameParts
<1>2. Before(g, h) => Before(f, h)
  BY <1>1 DEF Before
<1>3. ASSUME NoNewer(events, f)
      PROVE  NoNewer(events, g)
  <2>1. SUFFICES ASSUME events # <<>>
                 PROVE  events[1].run < g.run.id
                          \/ (events[1].run = g.run.id /\ events[1].seq <= Top(g.recent))
    BY DEF NoNewer
  <2>2. events[1] \in TheEvent
    BY <2>1
  <2>3. events[1].run \in Nat /\ events[1].seq \in Nat
    BY <2>2 DEF TheEvent
  <2>. QED
    BY <2>1, <2>3, <1>1, <1>3 DEF NoNewer, Before
<1>. QED
  BY <1>2, <1>3

\* Frames on their way, and one more that is the newest.
LEMMA AheadMore ==
  ASSUME NEW old \in Seq(Message), NEW new \in Seq(Message), NEW events \in Seq(TheEvent),
         NEW last \in TheFrame, NEW f \in TheFrame,
         Len(new) >= Len(old), \A i \in 1..Len(old) : new[i] = old[i],
         \A i \in (Len(old) + 1)..Len(new) :
           new[i].type = "frame" => new[i].frame = f /\ Genuine(f) /\ NoNewer(events, f),
         Ahead(old, events, last), Before(last, f)
  PROVE  Ahead(new, events, f)
<1>1. /\ Len(old) \in Nat /\ Len(new) \in Nat
      /\ DOMAIN old = 1..Len(old) /\ DOMAIN new = 1..Len(new)
  OBVIOUS
<1>2. \A i \in 1..Len(new) : i \in 1..Len(old) \/ i \in (Len(old) + 1)..Len(new)
  BY <1>1
<1>3. ASSUME NEW i \in 1..Len(old), old[i].type = "frame"
      PROVE  /\ old[i].frame \in TheFrame
             /\ Genuine(old[i].frame) /\ NoNewer(events, old[i].frame) /\ Before(old[i].frame, f)
  <2>1. old[i] \in Message
    BY <1>1
  <2>2. old[i].frame \in TheFrame
    BY <2>1, <1>3, MessageKinds
  <2>3. Genuine(old[i].frame) /\ NoNewer(events, old[i].frame) /\ Before(old[i].frame, last)
    BY <1>1, <1>3 DEF Ahead
  <2>. QED
    BY <2>2, <2>3, BeforeOrders
<1>4. Before(f, f)
  BY FrameParts
<1>5. ASSUME NEW i \in 1..Len(new), new[i].type = "frame"
      PROVE  Genuine(new[i].frame) /\ Before(new[i].frame, f) /\ NoNewer(events, new[i].frame)
  <2>1. CASE i \in 1..Len(old)
    BY <2>1, <1>3, <1>5
  <2>2. CASE i \in (Len(old) + 1)..Len(new)
    BY <2>2, <1>4, <1>5
  <2>. QED
    BY <2>1, <2>2, <1>2
<1>6. ASSUME NEW i \in 1..Len(new), new[i].type = "frame",
             NEW j \in 1..Len(new), j > i, new[j].type = "frame"
      PROVE  Before(new[i].frame, new[j].frame)
  <2>1. CASE j \in 1..Len(old)
    <3>1. i \in 1..Len(old)
      BY <2>1, <1>1, <1>6
    <3>. QED
      BY <2>1, <3>1, <1>1, <1>6 DEF Ahead
  <2>2. CASE j \in (Len(old) + 1)..Len(new)
    <3>1. new[j].frame = f
      BY <2>2, <1>6
    <3>. QED
      BY <3>1, <1>5, <1>6
  <2>. QED
    BY <2>1, <2>2, <1>2
<1>. QED
  BY <1>1, <1>5, <1>6 DEF Ahead

\* The first message comes; if it is a frame, the events on screen are then no newer.
LEMMA AheadTail ==
  ASSUME NEW down \in Seq(Message), down # <<>>, NEW before \in Seq(TheEvent),
         NEW events \in Seq(TheEvent), NEW last \in TheFrame, Ahead(down, before, last),
         events = before \/ (down[1].type = "frame" /\ NoNewer(events, down[1].frame))
  PROVE  Ahead(Tail(down), events, last)
<1> DEFINE t == Tail(down)
<1>1. /\ Len(down) \in Nat /\ Len(down) > 0 /\ DOMAIN down = 1..Len(down)
      /\ DOMAIN t = 1..(Len(down) - 1)
      /\ \A i \in 1..(Len(down) - 1) : t[i] = down[i + 1]
  OBVIOUS
<1> HIDE DEF t
<1>2. \A i \in 1..(Len(down) - 1) : /\ i + 1 \in 1..Len(down) /\ i + 1 > 1 /\ down[i + 1] \in Message
                                    /\ \A j \in 1..(Len(down) - 1) : j > i => j + 1 > i + 1
  BY <1>1
<1>3. 1 \in 1..Len(down)
  BY <1>1
<1>4. ASSUME NEW i \in 1..(Len(down) - 1), t[i].type = "frame"
      PROVE  Genuine(t[i].frame) /\ Before(t[i].frame, last) /\ NoNewer(events, t[i].frame)
  <2>1. t[i] = down[i + 1] /\ i + 1 \in DOMAIN down /\ down[i + 1] \in Message
    BY <1>1, <1>2
  <2>2. Genuine(t[i].frame) /\ Before(t[i].frame, last) /\ NoNewer(before, t[i].frame)
    BY <2>1, <1>4 DEF Ahead
  <2>3. ASSUME down[1].type = "frame", NoNewer(events, down[1].frame)
        PROVE  NoNewer(events, t[i].frame)
    <3>1. Before(down[1].frame, t[i].frame)
      BY <2>1, <2>3, <1>1, <1>2, <1>3, <1>4 DEF Ahead
    <3>2. down[1] \in Message
      BY <1>3
    <3>3. down[1].frame \in TheFrame /\ t[i].frame \in TheFrame
      BY <2>1, <2>3, <3>2, <1>4, MessageKinds
    <3>. QED
      BY <3>1, <3>3, <2>3, BeforeOrders
  <2>. QED
    BY <2>2, <2>3
<1>5. ASSUME NEW i \in 1..(Len(down) - 1), t[i].type = "frame",
             NEW j \in 1..(Len(down) - 1), j > i, t[j].type = "frame"
      PROVE  Before(t[i].frame, t[j].frame)
  <2>1. t[i] = down[i + 1] /\ i + 1 \in DOMAIN down /\ t[j] = down[j + 1] /\ j + 1 \in DOMAIN down
    BY <1>1, <1>2
  <2>2. j + 1 > i + 1
    BY <1>2, <1>5
  <2>. QED
    BY <2>1, <2>2, <1>5 DEF Ahead
<1>6. Ahead(t, events, last)
  BY <1>1, <1>4, <1>5 DEF Ahead
<1>. QED
  BY <1>6 DEF t

\* What a message of a frame's broadcast says.
Says(m, f) == (Tells(m) => RunTold(m) = f.run) /\ (m.type = "frame" => m.frame = f)

LEMMA FrameMessages ==
  ASSUME NEW f \in TheFrame, NEW T, NEW transition \in {<<>>, <<RunMessage(f.run)>>}
  PROVE  LET fresh    == Selected(f.recent, T)
             events   == [i \in DOMAIN fresh |-> EventMessage(Reverse(fresh)[i])]
             messages == transition \o events \o <<FrameMessage(f)>>
         IN  /\ messages \in Seq(Message) /\ Len(messages) > 0
             /\ \A k \in 1..Len(messages) : Says(messages[k], f)
             /\ transition # <<>> => messages[1] = RunMessage(f.run)
<1> DEFINE fresh == Selected(f.recent, T)
           events == [i \in DOMAIN fresh |-> EventMessage(Reverse(fresh)[i])]
           start == transition \o events
           end == <<FrameMessage(f)>>
           messages == start \o end
<1>1. f.run \in TheRun /\ f.recent \in Seq(TheEvent)
  BY FrameParts
<1>2. fresh \in Seq(TheEvent)
  BY <1>1, SelectedElements
<1> HIDE DEF fresh
<1>3. Len(fresh) \in Nat /\ DOMAIN fresh = 1..Len(fresh)
  BY <1>2
<1>4. \A i \in 1..Len(fresh) : Reverse(fresh)[i] \in TheEvent
  <2> TAKE i \in 1..Len(fresh)
  <2>1. Len(fresh) - i + 1 \in 1..Len(fresh)
    BY <1>3
  <2>2. Reverse(fresh)[i] = fresh[Len(fresh) - i + 1]
    BY <1>3 DEF Reverse
  <2>. QED
    BY <1>2, <2>1, <2>2
<1>5. /\ events \in Seq(Message) /\ DOMAIN events = 1..Len(events)
      /\ \A i \in 1..Len(events) : Says(events[i], f)
  <2>1. \A i \in 1..Len(fresh) : EventMessage(Reverse(fresh)[i]) \in Message
    BY <1>4, MessagesMade
  <2>2. events \in Seq(Message) /\ Len(events) = Len(fresh) /\ DOMAIN events = 1..Len(fresh)
    BY <1>3, <2>1
  <2>3. \A i \in 1..Len(fresh) : Says(events[i], f)
    <3> TAKE i \in 1..Len(fresh)
    <3>1. events[i] = EventMessage(Reverse(fresh)[i])
      BY <1>3
    <3>2. ~Tells(EventMessage(Reverse(fresh)[i])) /\ EventMessage(Reverse(fresh)[i]).type = "event"
      BY <1>4, MessagesMade
    <3>. QED
      BY <3>1, <3>2 DEF Says
  <2>. QED
    BY <2>2, <2>3
<1> HIDE DEF events
<1>6. /\ RunMessage(f.run) \in Message /\ Says(RunMessage(f.run), f)
      /\ FrameMessage(f) \in Message /\ Says(FrameMessage(f), f)
  BY <1>1, MessagesMade DEF Says
<1>7. /\ transition \in Seq(Message)
      /\ \A i \in 1..Len(transition) : Says(transition[i], f)
      /\ transition # <<>> => Len(transition) = 1 /\ transition[1] = RunMessage(f.run)
  <2>1. CASE transition = <<>>
    BY <2>1
  <2>2. CASE transition = <<RunMessage(f.run)>>
    <3>1. Len(transition) = 1 /\ transition[1] = RunMessage(f.run) /\ transition \in Seq(Message)
      BY <2>2, <1>6
    <3>2. \A i \in 1..Len(transition) : i = 1
      BY <3>1
    <3>. QED
      BY <3>1, <3>2, <1>6
  <2>. QED
    BY <2>1, <2>2
<1>8. end \in Seq(Message) /\ Len(end) = 1 /\ end[1] = FrameMessage(f)
  BY <1>6
<1>9. /\ start \in Seq(Message) /\ Len(start) = Len(transition) + Len(events)
      /\ Len(transition) \in Nat /\ Len(events) \in Nat
      /\ \A i \in 1..(Len(transition) + Len(events)) :
           start[i] = IF i <= Len(transition) THEN transition[i] ELSE events[i - Len(transition)]
  BY <1>5, <1>7, ConcatElements
<1> HIDE DEF start, end
<1>10. /\ messages \in Seq(Message) /\ Len(messages) = Len(start) + 1
       /\ \A i \in 1..(Len(start) + 1) :
            messages[i] = IF i <= Len(start) THEN start[i] ELSE end[i - Len(start)]
  <2>1. /\ Len(messages) = Len(start) + Len(end)
        /\ \A i \in 1..(Len(start) + Len(end)) :
             messages[i] = IF i <= Len(start) THEN start[i] ELSE end[i - Len(start)]
    BY <1>8, <1>9, ConcatElements
  <2>2. messages \in Seq(Message)
    BY <1>8, <1>9
  <2>. QED
    BY <2>1, <2>2, <1>8
<1> HIDE DEF messages
<1>11. \A i \in 1..Len(start) : Says(start[i], f)
  <2> TAKE i \in 1..Len(start)
  <2>1. CASE i <= Len(transition)
    BY <2>1, <1>7, <1>9
  <2>2. CASE ~(i <= Len(transition))
    <3>1. i - Len(transition) \in 1..Len(events) /\ start[i] = events[i - Len(transition)]
      BY <2>2, <1>9
    <3>. QED
      BY <3>1, <1>5
  <2>. QED
    BY <2>1, <2>2
<1>12. \A k \in 1..Len(messages) : Says(messages[k], f)
  <2> TAKE k \in 1..Len(messages)
  <2>1. CASE k <= Len(start)
    BY <2>1, <1>9, <1>10, <1>11
  <2>2. CASE ~(k <= Len(start))
    <3>1. k - Len(start) = 1 /\ messages[k] = end[k - Len(start)]
      BY <2>2, <1>9, <1>10
    <3>2. messages[k] = end[1]
      BY <3>1
    <3>. QED
      BY <3>2, <1>6, <1>8
  <2>. QED
    BY <2>1, <2>2
<1>13. transition # <<>> => messages[1] = RunMessage(f.run)
  BY <1>7, <1>9, <1>10
<1>14. Len(messages) > 0
  BY <1>9, <1>10
<1>. QED
  BY <1>10, <1>12, <1>13, <1>14 DEF messages, start, events, fresh, end

\* A connection is not NoLink.
LEMMA LinkParts ==
  ASSUME NEW l \in {NoLink} \cup Connection
  PROVE  /\ l # NoLink => l \in Connection
         /\ l.at = "open" => l # NoLink
         /\ \A o \in Connection : /\ o # NoLink /\ o.down \in Seq(Message)
                                  /\ o.up \in Seq({"subscribe", "ping"})
<1>1. NoLink.at = "none"
  BY DEF NoLink
<1>2. \A o \in Connection : o.at \in {"opening", "open", "closing"}
  BY DEF Connection
<1>3. \A o \in Connection : o.down \in Seq(Message) /\ o.up \in Seq({"subscribe", "ping"})
  BY DEF Connection
<1>. QED
  BY <1>1, <1>2, <1>3

\* The hub takes a frame: of an open connection, what is on its way is followed by
\* messages that say what the frame says; when its run is news, by one that tells of it.
Follows(old, new, f) ==
  /\ new \in Connection /\ new.at = old.at /\ ("run" \in old.channels => "run" \in new.channels)
  /\ Len(new.down) >= Len(old.down)
  /\ \A i \in 1..Len(old.down) : new.down[i] = old.down[i]
  /\ \A i \in (Len(old.down) + 1)..Len(new.down) : Says(new.down[i], f)

LEMMA Ingested ==
  ASSUME TelemetryTypes, NEW f \in TheFrame, IngestFrame(f)
  PROVE  /\ latest' = f /\ told' = f.run
         /\ link.at # "open" => link' = link
         /\ link.at = "open" =>
              /\ link # NoLink /\ Follows(link, link', f)
              /\ f.run # told /\ "run" \in link.channels =>
                   \E i \in (Len(link.down) + 1)..Len(link'.down) : Tells(link'.down[i])
<1> DEFINE above == IF f.run.id = told.id THEN watermark ELSE 0
           T == {e \in Range(f.recent) : e.seq > above}
           fresh == Selected(f.recent, T)
           transition == IF f.run = told THEN <<>> ELSE <<RunMessage(f.run)>>
           events == [i \in DOMAIN fresh |-> EventMessage(Reverse(fresh)[i])]
           messages == transition \o events \o <<FrameMessage(f)>>
<1>1. /\ latest' = f /\ told' = f.run
      /\ link' = IF link.at = "open" THEN Offered(link, messages) ELSE link
  BY DEF IngestFrame, Broadcast
<1>2. transition \in {<<>>, <<RunMessage(f.run)>>}
  OBVIOUS
<1>3. /\ messages \in Seq(Message) /\ Len(messages) > 0
      /\ \A k \in 1..Len(messages) : Says(messages[k], f)
      /\ transition # <<>> => messages[1] = RunMessage(f.run)
  <2> HIDE DEF T, transition
  <2>. QED
    BY <1>2, FrameMessages
<1>4. f.run # told => transition = <<RunMessage(f.run)>> /\ transition # <<>>
  OBVIOUS
<1> HIDE DEF messages, transition
<1>5. ASSUME link.at = "open"
      PROVE  /\ link # NoLink /\ Follows(link, link', f)
             /\ f.run # told /\ "run" \in link.channels =>
                  \E i \in (Len(link.down) + 1)..Len(link'.down) : Tells(link'.down[i])
  <2>1. link \in Connection /\ link # NoLink
    BY <1>5, LinkParts DEF TelemetryTypes
  <2>2. link' = Offered(link, messages)
    BY <1>1, <1>5
  <2>3. Sent(link, link', messages, Len(messages))
    BY <2>1, <2>2, <1>3, AllOffered
  <2>4. Follows(link, link', f)
    BY <2>3, <1>3 DEF Sent, Follows
  <2>5. ASSUME f.run # told, "run" \in link.channels
        PROVE  \E i \in (Len(link.down) + 1)..Len(link'.down) : Tells(link'.down[i])
    <3>1. messages[1] = RunMessage(f.run) /\ f.run \in TheRun
      BY <2>5, <1>3, <1>4, FrameParts
    <3>2. messages[1].type = "run" /\ Tells(messages[1])
      BY <3>1, MessagesMade
    <3>3. Len(link'.down) > Len(link.down) /\ link'.down[Len(link.down) + 1] = messages[1]
      BY <3>2, <2>3, <2>5, <1>3 DEF Sent
    <3>4. link.down \in Seq(Message) /\ link'.down \in Seq(Message)
      BY <2>1, <2>3, LinkParts DEF Sent
    <3>5. Len(link.down) + 1 \in (Len(link.down) + 1)..Len(link'.down)
      BY <3>3, <3>4
    <3>. QED
      BY <3>2, <3>3, <3>5
  <2>. QED
    BY <2>1, <2>4, <2>5
<1>. QED
  BY <1>1, <1>5

\* What the server and the client do to the dashboard's connection.
LEMMA Upgraded ==
  ASSUME NEW l \in Connection, NEW d \in Seq(Message)
  PROVE  LET o == [l EXCEPT !.at = "open", !.channels = {"hello", "pong", "frame", "event", "run"},
                            !.down = d]
         IN  o \in Connection /\ o.at = "open" /\ "run" \in o.channels /\ o.down = d
<1> DEFINE c == {"hello", "pong", "frame", "event", "run"}
           p == [l EXCEPT !.at = "open"]
           q == [p EXCEPT !.channels = c]
           r == [q EXCEPT !.down = d]
<1>1. c \in SUBSET Channels /\ "run" \in c
  BY DEF Channels
<1>2. [l EXCEPT !.at = "open", !.channels = c, !.down = d] = r
  BY DEF Connection
<1> HIDE DEF c, p, q, r
<1>3. Has(p, "open", l.channels, l.down, l.up, l.code)
  BY AtSet DEF p
<1>4. Has(q, "open", c, l.down, l.up, l.code)
  <2>1. p \in Connection /\ q = [p EXCEPT !.channels = c]
    BY <1>3 DEF q, Has
  <2>2. Has(q, p.at, c, p.down, p.up, p.code)
    BY <2>1, <1>1, ChannelsSet
  <2>. QED
    BY <2>2, <1>3 DEF Has
<1>5. Has(r, "open", c, d, l.up, l.code)
  BY <1>4, DownSet DEF r, Has
<1>. QED
  BY <1>1, <1>2, <1>5 DEF Has, c

LEMMA Rejected ==
  ASSUME NEW l \in Connection, NEW k \in Codes, NEW o,
         o = [l EXCEPT !.at = "closing", !.code = k]
  PROVE  Has(o, "closing", l.channels, l.down, l.up, k)
<1> DEFINE p == [l EXCEPT !.at = "closing"]
<1>1. o = [p EXCEPT !.code = k]
  BY DEF Connection
<1> HIDE DEF p
<1>2. Has(p, "closing", l.channels, l.down, l.up, l.code)
  BY AtSet DEF p
<1>3. p \in Connection
  BY <1>2 DEF Has
<1>4. Has(o, p.at, p.channels, p.down, p.up, k)
  BY <1>1, <1>3, CodeSet
<1>. QED
  BY <1>2, <1>4 DEF Has

LEMMA Ended ==
  ASSUME NEW l \in Connection, NEW k \in Codes, NEW d \in Seq(Message), NEW o,
         o = [l EXCEPT !.at = "closing", !.code = k, !.down = d]
  PROVE  Has(o, "closing", l.channels, d, l.up, k)
<1> DEFINE q == [l EXCEPT !.at = "closing", !.code = k]
<1>1. o = [q EXCEPT !.down = d]
  BY DEF Connection
<1> HIDE DEF q
<1>2. Has(q, "closing", l.channels, l.down, l.up, k)
  BY Rejected DEF q
<1>3. q \in Connection
  BY <1>2 DEF Has
<1>4. Has(o, q.at, q.channels, d, q.up, q.code)
  BY <1>1, <1>3, DownSet
<1>. QED
  BY <1>2, <1>4 DEF Has

\* The steps that leave a connection as it is, but for what is said over it.
LEMMA Subscribed ==
  ASSUME NEW l \in Connection, l.up # <<>>
  PROVE  LET o == [[l EXCEPT !.channels = {"hello", "pong", "frame", "run"}] EXCEPT !.up = Tail(@)]
         IN  o \in Connection /\ o.at = l.at /\ "run" \in o.channels /\ o.down = l.down
<1> DEFINE c == {"hello", "pong", "frame", "run"}
           p == [l EXCEPT !.channels = c]
           u == Tail(l.up)
           q == [p EXCEPT !.up = u]
<1>1. c \in SUBSET Channels /\ "run" \in c
  BY DEF Channels
<1>2. u \in Seq({"subscribe", "ping"})
  BY Fields
<1>3. [[l EXCEPT !.channels = c] EXCEPT !.up = Tail(@)] = q
  BY DEF Connection
<1> HIDE DEF c, p, q, u
<1>4. Has(p, l.at, c, l.down, l.up, l.code)
  BY <1>1, ChannelsSet DEF p
<1>5. Has(q, l.at, c, l.down, u, l.code)
  BY <1>2, <1>4, UpSet DEF q, Has
<1>. QED
  BY <1>1, <1>3, <1>5 DEF Has, c

LEMMA Heard ==
  ASSUME NEW l \in Connection, l.up # <<>>
  PROVE  LET o == [l EXCEPT !.up = Tail(@)]
         IN  o \in Connection /\ o.at = l.at /\ o.channels = l.channels /\ o.down = l.down
<1>1. Tail(l.up) \in Seq({"subscribe", "ping"})
  BY Fields
<1> DEFINE p == [l EXCEPT !.up = Tail(l.up)]
<1>2. [l EXCEPT !.up = Tail(@)] = p
  OBVIOUS
<1> HIDE DEF p
<1>3. Has(p, l.at, l.channels, l.down, Tail(l.up), l.code)
  BY <1>1, UpSet DEF p
<1>. QED
  BY <1>2, <1>3 DEF Has

LEMMA Pinged ==
  ASSUME NEW l \in Connection
  PROVE  LET o == [l EXCEPT !.up = Append(@, "ping")]
         IN  o \in Connection /\ o.at = l.at /\ o.channels = l.channels /\ o.down = l.down
<1> DEFINE u == Append(l.up, "ping")
           p == [l EXCEPT !.up = u]
<1>1. u \in Seq({"subscribe", "ping"})
  <2>1. l.up \in Seq({"subscribe", "ping"}) /\ "ping" \in {"subscribe", "ping"}
    BY Fields
  <2>. QED
    BY <2>1
<1>2. [l EXCEPT !.up = Append(@, "ping")] = p
  OBVIOUS
<1> HIDE DEF u, p
<1>3. Has(p, l.at, l.channels, l.down, u, l.code)
  BY <1>1, UpSet DEF p
<1>. QED
  BY <1>2, <1>3 DEF Has

LEMMA MessageTaken ==
  ASSUME NEW l \in Connection, l.down # <<>>
  PROVE  LET o == [l EXCEPT !.down = Tail(@)]
         IN  o \in Connection /\ o.at = l.at /\ o.channels = l.channels /\ o.down = Tail(l.down)
<1> DEFINE d == Tail(l.down)
           p == [l EXCEPT !.down = d]
<1>1. d \in Seq(Message)
  BY Fields
<1>2. [l EXCEPT !.down = Tail(@)] = p
  OBVIOUS
<1> HIDE DEF d, p
<1>3. Has(p, l.at, l.channels, d, l.up, l.code)
  BY <1>1, DownSet DEF p
<1>. QED
  BY <1>2, <1>3 DEF Has, d

LEMMA GreetingTaken ==
  ASSUME NEW l \in Connection, l.down # <<>>
  PROVE  LET o == [l EXCEPT !.down = Tail(@), !.up = Append(@, "subscribe"), !.greeted = TRUE]
         IN  o \in Connection /\ o.at = l.at /\ o.channels = l.channels /\ o.down = Tail(l.down)
<1> DEFINE d == Tail(l.down)
           u == Append(l.up, "subscribe")
           p == [l EXCEPT !.down = d]
           q == [p EXCEPT !.up = u]
           r == [q EXCEPT !.greeted = TRUE]
<1>1. d \in Seq(Message)
  BY Fields
<1>2. u \in Seq({"subscribe", "ping"})
  <2>1. l.up \in Seq({"subscribe", "ping"}) /\ "subscribe" \in {"subscribe", "ping"}
    BY Fields
  <2>. QED
    BY <2>1
<1>3. [l EXCEPT !.down = Tail(@), !.up = Append(@, "subscribe"), !.greeted = TRUE] = r
  BY DEF Connection
<1> HIDE DEF d, u, p, q, r
<1>4. Has(p, l.at, l.channels, d, l.up, l.code)
  BY <1>1, DownSet DEF p
<1>5. Has(q, l.at, l.channels, d, u, l.code)
  BY <1>2, <1>4, UpSet DEF q, Has
<1>6. Has(r, l.at, l.channels, d, u, l.code)
  <2>1. q \in Connection /\ r = [q EXCEPT !.greeted = TRUE] /\ TRUE \in BOOLEAN
    BY <1>5 DEF r, Has
  <2>2. Has(r, q.at, q.channels, q.down, q.up, q.code)
    BY <2>1, GreetedSet
  <2>. QED
    BY <2>2, <1>5 DEF Has
<1>. QED
  BY <1>3, <1>6 DEF Has, d

-----------------------------------------------------------------------------
(* The dashboard's connection, step by step *)

SameLink ==
  /\ link' \in Connection /\ link'.at = link.at /\ link'.channels = link.channels
  /\ link'.down = link.down

LEMMA AcceptLink ==
  ASSUME TelemetryTypes, Accept
  PROVE  /\ link \in Connection /\ link # NoLink /\ link' \in Connection
         /\ \/ /\ link'.at = "open" /\ "run" \in link'.channels
               /\ link'.down = IF latest = NoFrame THEN <<Hello>> ELSE <<Hello, FrameMessage(latest)>>
            \/ link'.at = "closing" /\ link'.down = link.down
<1> DEFINE d == IF latest = NoFrame THEN <<Hello>> ELSE <<Hello, FrameMessage(latest)>>
<1>1. link \in Connection /\ link # NoLink
  BY LinkParts DEF Accept, TelemetryTypes
<1>2. Hello \in Message /\ FrameMessage(latest) \in Message
  BY MessagesMade DEF TelemetryTypes
<1>3. d \in Seq(Message)
  BY <1>2
<1> HIDE DEF d
<1>4. CASE link' = [link EXCEPT !.at = "open", !.channels = {"hello", "pong", "frame", "event", "run"},
                                !.down = d]
  <2>1. link' \in Connection /\ link'.at = "open" /\ "run" \in link'.channels /\ link'.down = d
    BY <1>1, <1>3, <1>4, Upgraded
  <2>. QED
    BY <1>1, <2>1 DEF d
<1>5. CASE link' = [link EXCEPT !.at = "closing", !.code = 4401]
  <2> DEFINE k == 4401
  <2>0. k \in Codes /\ link' = [link EXCEPT !.at = "closing", !.code = k]
    BY <1>5 DEF Codes
  <2> HIDE DEF k
  <2>1. Has(link', "closing", link.channels, link.down, link.up, k)
    BY <1>1, <2>0, Rejected
  <2>. QED
    BY <1>1, <2>1 DEF Has
<1>. QED
  BY <1>4, <1>5 DEF Accept, d

LEMMA ServerReceivesLink ==
  ASSUME TelemetryTypes, ServerReceives
  PROVE  /\ link \in Connection /\ link # NoLink /\ Follows(link, link', latest)
         /\ \A i \in (Len(link.down) + 1)..Len(link'.down) : link'.down[i].type = "pong"
<1> DEFINE m == [type |-> "pong"]
<1>1. link \in Connection /\ link # NoLink /\ link.up # <<>> /\ link.at = "open"
  BY LinkParts DEF ServerReceives, TelemetryTypes
<1>2. m \in Message /\ m.type = "pong" /\ ~Tells(m)
  BY MessagesMade
<1>3. Says(m, latest)
  BY <1>2 DEF Says
<1>4. link.down \in Seq(Message)
  BY <1>1, Fields
<1> HIDE DEF m
<1>5. CASE link' = [[link EXCEPT !.channels = {"hello", "pong", "frame", "run"}] EXCEPT !.up = Tail(@)]
  <2>1. link' \in Connection /\ link'.at = link.at /\ "run" \in link'.channels /\ link'.down = link.down
    BY <1>1, <1>5, Subscribed
  <2>2. \A i \in (Len(link.down) + 1)..Len(link'.down) : FALSE
    BY <2>1, <1>4
  <2>3. Len(link.down) >= Len(link.down)
    BY <1>4
  <2>. QED
    BY <1>1, <2>1, <2>2, <2>3 DEF Follows
<1>6. CASE link' = [Offer(link, m) EXCEPT !.up = Tail(@)]
  <2> DEFINE p == [link EXCEPT !.down = Append(@, m)]
             o == Offer(link, m)
  <2>1. o \in {link, p}
    BY DEF Offer
  <2>2. /\ p \in Connection /\ p.at = link.at /\ p.channels = link.channels
        /\ p.down = Append(link.down, m)
    BY <1>1, <1>2, ForOpen DEF Has
  <2>3. p.up = link.up
    BY <1>1, <1>2, ForOpen DEF Has
  <2> HIDE DEF o, p
  <2>4. CASE o = link
    <3>1. link' = [link EXCEPT !.up = Tail(@)]
      BY <2>4, <1>6 DEF o
    <3>2. link' \in Connection /\ link'.at = link.at /\ link'.channels = link.channels /\ link'.down = link.down
      BY <3>1, <1>1, Heard
    <3>3. \A i \in (Len(link.down) + 1)..Len(link'.down) : FALSE
      BY <3>2, <1>4
    <3>4. Len(link.down) >= Len(link.down)
      BY <1>4
    <3>. QED
      BY <1>1, <3>2, <3>3, <3>4 DEF Follows
  <2>5. CASE o = p
    <3>1. link' = [p EXCEPT !.up = Tail(@)]
      BY <2>5, <1>6 DEF o
    <3>2. /\ link' \in Connection /\ link'.at = link.at /\ link'.channels = link.channels
          /\ link'.down = Append(link.down, m)
      BY <3>1, <2>2, <2>3, <1>1, Heard
    <3> DEFINE d == Append(link.down, m)
    <3>3. /\ Len(d) = Len(link.down) + 1 /\ d[Len(link.down) + 1] = m /\ Len(link.down) \in Nat
          /\ \A i \in 1..Len(link.down) : d[i] = link.down[i]
      BY <1>4, <1>2
    <3> HIDE DEF d
    <3>4. \A i \in (Len(link.down) + 1)..Len(d) : i = Len(link.down) + 1
      BY <3>3
    <3>5. link'.down = d
      BY <3>2 DEF d
    <3>6. Len(d) >= Len(link.down)
      BY <3>3
    <3>. QED
      BY <1>1, <1>2, <1>3, <3>2, <3>3, <3>4, <3>5, <3>6 DEF Follows
  <2>. QED
    BY <2>1, <2>4, <2>5
<1>. QED
  BY <1>5, <1>6 DEF ServerReceives, m

LEMMA LostLink ==
  ASSUME TelemetryTypes, link' = Lost
  PROVE  \/ link = NoLink /\ link' = NoLink
         \/ link # NoLink /\ link' \in Connection /\ link'.at = "closing" /\ link'.down = <<>>
<1>1. CASE link = NoLink
  BY <1>1 DEF Lost
<1>2. CASE link # NoLink
  <2>1. link \in Connection
    BY <1>2, LinkParts DEF TelemetryTypes
  <2> DEFINE d == <<>>
  <2>2. /\ link' = [link EXCEPT !.at = "closing", !.code = Null, !.down = d]
        /\ d \in Seq(Message) /\ Null \in Codes
    BY <1>2 DEF Lost, Codes
  <2> HIDE DEF d
  <2>3. Has(link', "closing", link.channels, d, link.up, Null)
    BY <2>1, <2>2, Ended
  <2>. QED
    BY <1>2, <2>3 DEF Has, d
<1>. QED
  BY <1>1, <1>2

LEMMA ConnectLink ==
  ASSUME TelemetryTypes, Connect
  PROVE  \/ link' = NoLink
         \/ held # Null /\ link' \in Connection /\ link'.at = "opening" /\ link'.down = <<>>
<1> DEFINE row == [at |-> "opening", token |-> held, channels |-> {}, down |-> <<>>,
                   up |-> <<>>, code |-> Null, greeted |-> FALSE]
<1>1. SUFFICES ASSUME held # Null, link' = row
               PROVE  link' \in Connection /\ link'.at = "opening" /\ link'.down = <<>>
  BY DEF Connect
<1>2. /\ held \in Nat /\ {} \in SUBSET Channels /\ <<>> \in Seq(Message)
      /\ <<>> \in Seq({"subscribe", "ping"}) /\ Null \in Codes
      /\ "opening" \in {"opening", "open", "closing"} /\ FALSE \in BOOLEAN
  BY <1>1 DEF TelemetryTypes, SessionTypes, Codes
<1>3. row \in Connection
  BY <1>2, FieldsMakeIt DEF Connection
<1>4. row.at = "opening" /\ row.down = <<>>
  OBVIOUS
<1>. QED
  BY <1>1, <1>3, <1>4

LEMMA ClientReceivesLink ==
  ASSUME TelemetryTypes, ClientReceives
  PROVE  /\ link \in Connection /\ link # NoLink /\ link.down # <<>>
         /\ link' \in Connection /\ link'.at = link.at /\ link'.channels = link.channels
         /\ link'.down = Tail(link.down)
<1>1. link \in Connection /\ link # NoLink /\ link.down # <<>>
  BY LinkParts DEF ClientReceives, TelemetryTypes
<1>2. CASE link' = [link EXCEPT !.down = Tail(@), !.up = Append(@, "subscribe"), !.greeted = TRUE]
  BY <1>1, <1>2, GreetingTaken
<1>3. CASE link' = [link EXCEPT !.down = Tail(@)]
  BY <1>1, <1>3, MessageTaken
<1>. QED
  BY <1>2, <1>3 DEF ClientReceives, Greeted, Shown

LEMMA PingLink ==
  ASSUME TelemetryTypes, PingFires
  PROVE  link' = link \/ (link \in Connection /\ link # NoLink /\ SameLink)
<1>1. SUFFICES ASSUME link # NoLink, link' = [link EXCEPT !.up = Append(@, "ping")]
               PROVE  link \in Connection /\ link # NoLink /\ SameLink
  BY DEF PingFires
<1>2. link \in Connection
  BY <1>1, LinkParts DEF TelemetryTypes
<1>. QED
  BY <1>1, <1>2, Pinged DEF SameLink

-----------------------------------------------------------------------------
(* The session and its stream, step by step *)

\* A step that leaves the session alone, and keeps the connection or its absence.
LEMMA StreamKept ==
  ASSUME SessionTypes, Streaming, (link' = NoLink) <=> (link = NoLink),
         UNCHANGED <<attempts, reconnect, ping, auth, held>>, pong' \in {pong, FALSE},
         sock' = sock \/ (link # NoLink /\ sock' = "open")
  PROVE  SessionTypes' /\ Streaming'
<1>1. SessionTypes'
  BY DEF SessionTypes
<1>2. Streaming'
  <2>1. CASE auth = "authed"
    BY <2>1 DEF Streaming
  <2>2. CASE auth # "authed"
    BY <2>2 DEF Streaming
  <2>. QED
    BY <2>1, <2>2
<1>. QED
  BY <1>1, <1>2

\* Without a session there is no stream.
LEMMA StreamClosed ==
  ASSUME SessionTypes, link' = NoLink, reconnect' = FALSE, ping' = FALSE, pong' = FALSE,
         auth' \in {"locked", "checking", "error", "expired"}, attempts' \in {0, 1},
         (auth' = "checking" /\ held' = held /\ held # Null) \/ (auth' # "checking" /\ held' = Null)
  PROVE  SessionTypes' /\ Streaming'
<1>1. SessionTypes'
  BY DEF SessionTypes
<1>2. Streaming'
  BY DEF Streaming
<1>. QED
  BY <1>1, <1>2

\* A session connects, or its timer will.
LEMMA StreamOpened ==
  ASSUME SessionTypes, Connect, TelemetryTypes, UNCHANGED held, held # Null, auth' = "authed"
  PROVE  SessionTypes' /\ Streaming'
<1>1. CASE link' = NoLink /\ ScheduleReconnect
  <2>1. SessionTypes'
    BY <1>1 DEF SessionTypes, Connect, ScheduleReconnect
  <2>2. Streaming'
    BY <1>1 DEF Streaming, ScheduleReconnect
  <2>. QED
    BY <2>1, <2>2
<1>2. CASE ~(link' = NoLink /\ ScheduleReconnect)
  <2>1. /\ sock' \in {"connecting", "reconnecting"} /\ reconnect' = FALSE
        /\ UNCHANGED <<attempts, ping, pong>>
        /\ link' = [at |-> "opening", token |-> held, channels |-> {}, down |-> <<>>,
                    up |-> <<>>, code |-> Null, greeted |-> FALSE]
    BY <1>2 DEF Connect
  <2>2. link'.at = "opening" /\ NoLink.at = "none"
    BY <2>1 DEF NoLink
  <2>3. link' # NoLink
    BY <2>2
  <2>4. SessionTypes'
    BY <2>1 DEF SessionTypes
  <2>5. Streaming'
    BY <2>1, <2>3 DEF Streaming
  <2>. QED
    BY <2>4, <2>5
<1>. QED
  BY <1>1, <1>2

LEMMA ExpireStep ==
  ASSUME SessionTypes, Streaming, Expire
  PROVE  SessionTypes' /\ Streaming'
<1>1. CASE auth = "authed"
  <2>1. /\ link' = NoLink /\ reconnect' = FALSE /\ ping' = FALSE /\ pong' = FALSE
        /\ auth' = "expired" /\ held' = Null /\ attempts' = attempts
    BY <1>1 DEF Expire, Close
  <2>. QED
    BY <2>1, StreamClosed DEF SessionTypes
<1>2. CASE auth # "authed"
  BY <1>2, StreamKept DEF Expire, sockVars
<1>. QED
  BY <1>1, <1>2

\* The frame of a tick, and the last one.
LEMMA FrameTaken ==
  ASSUME TelemetryAssumption, TelemetryTypes, recent = Latest(run.id, seq), Frame \/ FinalFrame
  PROVE  /\ run' \in TheRun /\ run'.id = run.id /\ run'.status # "none" /\ run.status \in Live
         /\ UNCHANGED <<seq, recent, secret>>
         /\ FrameOf(run) \in TheFrame
         /\ \E f \in TheFrame : /\ IngestFrame(f) /\ f.run = run' /\ f.recent = recent
                                /\ f.run.status # "none"
<1>1. RecentSize \in Nat /\ run.id \in Nat /\ seq \in Nat /\ run \in TheRun
  BY DEF TelemetryAssumption, TelemetryTypes, TheRun
<1>2. recent \in Seq(TheEvent)
  BY <1>1, NewestElements
<1>3. \A r \in TheRun : FrameOf(r) \in TheFrame /\ FrameOf(r).run = r /\ FrameOf(r).recent = recent
  BY <1>2 DEF FrameOf, TheFrame
<1>4. CASE Frame
  <2>1. run' = run /\ IngestFrame(FrameOf(run)) /\ UNCHANGED <<seq, recent, secret>>
        /\ run.status # "none" /\ run.status \in Live
    BY <1>4 DEF Frame, runVars, Live
  <2>2. /\ IngestFrame(FrameOf(run)) /\ FrameOf(run).run = run' /\ FrameOf(run).recent = recent
        /\ FrameOf(run).run.status # "none" /\ FrameOf(run) \in TheFrame
    BY <1>1, <1>3, <2>1
  <2>. QED
    BY <1>1, <2>1, <2>2
<1>5. CASE FinalFrame
  <2> DEFINE r == [run EXCEPT !.status = "completed"]
  <2>1. r \in TheRun /\ r.id = run.id /\ r.status = "completed"
    BY <1>1 DEF TheRun
  <2>2. run' = r /\ IngestFrame(FrameOf(r)) /\ UNCHANGED <<seq, recent, secret>> /\ run.status \in Live
    BY <1>5 DEF FinalFrame
  <2> HIDE DEF r
  <2>3. /\ IngestFrame(FrameOf(r)) /\ FrameOf(r).run = run' /\ FrameOf(r).recent = recent
        /\ FrameOf(r).run.status # "none" /\ FrameOf(r) \in TheFrame
    BY <2>1, <2>2, <1>3
  <2>. QED
    BY <1>1, <1>3, <2>1, <2>2, <2>3
<1>. QED
  BY <1>4, <1>5

LEMMA SessionStep ==
  ASSUME TelemetryAssumption, TelemetryTypes, recent = Latest(run.id, seq), Streaming,
         TelemetryNext
  PROVE  SessionTypes' /\ Streaming'
<1>0. SessionTypes /\ Null \notin Nat /\ secret \in Nat
  BY DEF TelemetryTypes, TelemetryAssumption
<1>00. \A o \in Connection : o # NoLink
  BY LinkParts
<1>1. CASE Start \/ PauseOrResume \/ Generate \/ Call
  BY <1>1, <1>0, StreamKept DEF Start, PauseOrResume, Generate, Call, sockVars, sessionVars
<1>2. CASE Frame \/ FinalFrame
  <2>1. link' = NoLink <=> link = NoLink
    <3>1. PICK f \in TheFrame : IngestFrame(f)
      BY <1>2, FrameTaken
    <3>2. link' = link \/ (link # NoLink /\ link' \in Connection)
      BY <3>1, Ingested DEF Follows
    <3>. QED
      BY <3>2, <1>00
  <2>. QED
    BY <1>2, <1>0, <2>1, StreamKept DEF Frame, FinalFrame, sockVars, sessionVars
<1>3. CASE Accept
  <2>1. link # NoLink /\ link' # NoLink
    BY <1>3, <1>00, AcceptLink
  <2>. QED
    BY <1>3, <1>0, <2>1, StreamKept DEF Accept, sessionVars
<1>4. CASE ServerReceives
  <2>1. link # NoLink /\ link' # NoLink
    BY <1>4, <1>00, ServerReceivesLink DEF Follows
  <2>. QED
    BY <1>4, <1>0, <2>1, StreamKept DEF ServerReceives, sockVars, sessionVars
<1>5. CASE Break \/ Restart
  <2>1. link' = NoLink <=> link = NoLink
    BY <1>5, <1>00, LostLink DEF Break, Restart
  <2>. QED
    BY <1>5, <1>0, <2>1, StreamKept DEF Break, Restart, sockVars, sessionVars
<1>6. CASE ReconnectFires
  <2>1. auth = "authed" /\ held # Null /\ Connect /\ auth' = auth /\ held' = held
    BY <1>6, <1>0 DEF ReconnectFires, Streaming, sessionVars, SessionTypes
  <2>. QED
    BY <1>0, <2>1, StreamOpened
<1>7. CASE ClientReceives
  <2>1. link # NoLink /\ link' # NoLink
    BY <1>7, <1>00, ClientReceivesLink
  <2>2. auth = "authed" /\ held # Null /\ reconnect = FALSE
    BY <2>1 DEF Streaming
  <2>3. /\ UNCHANGED <<reconnect, auth, held>> /\ pong' = FALSE
        /\ (attempts' = 0 /\ sock' = "open" /\ ping' = TRUE) \/ UNCHANGED <<sock, attempts, ping>>
    BY <1>7 DEF ClientReceives, Greeted, Shown, sessionVars
  <2>4. SessionTypes'
    BY <1>0, <2>3 DEF SessionTypes
  <2>5. Streaming'
    BY <2>1, <2>2, <2>3 DEF Streaming
  <2>. QED
    BY <2>4, <2>5
<1>8. CASE ClientCloses
  <2>1. link # NoLink
    BY <1>8 DEF ClientCloses
  <2>2. auth = "authed" /\ held # Null
    BY <2>1 DEF Streaming
  <2>3. CASE link.code = 4401
    <3>1. Expire \/ (link.code = Null /\ link' = NoLink /\ ping' = FALSE /\ pong' = FALSE
                       /\ ScheduleReconnect /\ UNCHANGED <<auth, held>>)
      BY <1>8, <2>2 DEF ClientCloses
    <3>2. CASE Expire
      BY <1>0, <3>2, ExpireStep
    <3>3. CASE link' = NoLink /\ ping' = FALSE /\ pong' = FALSE
                 /\ ScheduleReconnect /\ UNCHANGED <<auth, held>>
      <4>1. SessionTypes'
        BY <1>0, <3>3 DEF SessionTypes, ScheduleReconnect
      <4>2. Streaming'
        BY <2>2, <3>3 DEF Streaming, ScheduleReconnect
      <4>. QED
        BY <4>1, <4>2
    <3>. QED
      BY <3>1, <3>2, <3>3
  <2>4. CASE link.code # 4401
    <3>1. link' = NoLink /\ ping' = FALSE /\ pong' = FALSE
            /\ ScheduleReconnect /\ UNCHANGED <<auth, held>>
      BY <1>8, <2>4 DEF ClientCloses
    <3>2. SessionTypes'
      BY <1>0, <3>1 DEF SessionTypes, ScheduleReconnect
    <3>3. Streaming'
      BY <2>2, <3>1 DEF Streaming, ScheduleReconnect
    <3>. QED
      BY <3>2, <3>3
  <2>. QED
    BY <2>3, <2>4
<1>9. CASE PingFires
  <2>1. link' = NoLink <=> link = NoLink
    BY <1>9, <1>00, PingLink DEF SameLink
  <2>2. auth = "authed" /\ held # Null
    BY <1>9, <1>0 DEF PingFires, Streaming, SessionTypes
  <2>3. UNCHANGED <<sock, attempts, reconnect, ping, auth, held>> /\ pong' = TRUE
    BY <1>9 DEF PingFires, sessionVars
  <2>4. SessionTypes'
    BY <1>0, <2>3 DEF SessionTypes
  <2>5. Streaming'
    BY <2>1, <2>2, <2>3 DEF Streaming
  <2>. QED
    BY <2>4, <2>5
<1>10. CASE PongFires
  <2>1. auth = "authed" /\ held # Null
    BY <1>10, <1>0 DEF PongFires, Streaming, SessionTypes
  <2>2. /\ link' = NoLink /\ pong' = FALSE /\ UNCHANGED <<ping, auth, held>>
        /\ ScheduleReconnect
    BY <1>10 DEF PongFires, sessionVars
  <2>3. SessionTypes'
    BY <1>0, <2>2 DEF SessionTypes, ScheduleReconnect
  <2>4. Streaming'
    BY <2>1, <2>2 DEF Streaming, ScheduleReconnect
  <2>. QED
    BY <2>3, <2>4
<1>11. CASE SignIn
  <2>1. /\ auth \in {"locked", "error", "expired"} /\ auth' = "checking"
        /\ UNCHANGED <<link, sock, attempts, reconnect, ping, pong>>
        /\ held' \in 0..secret
    BY <1>11 DEF SignIn, sockVars
  <2>2. held' \in Nat /\ held' # Null
    BY <1>0, <2>1
  <2>3. link = NoLink /\ reconnect = FALSE /\ ping = FALSE /\ pong = FALSE
    BY <2>1 DEF Streaming
  <2>4. SessionTypes'
    BY <1>0, <2>1, <2>2 DEF SessionTypes
  <2>5. Streaming'
    BY <2>1, <2>2, <2>3 DEF Streaming
  <2>. QED
    BY <2>4, <2>5
<1>12. CASE Checked
  <2>1. auth = "checking" /\ held # Null
    BY <1>12 DEF Checked, Streaming
  <2>2. CASE held = secret /\ auth' = "authed" /\ Connect /\ UNCHANGED held
    BY <1>0, <2>1, <2>2, StreamOpened
  <2>3. CASE auth' = "error" /\ held' = Null /\ Close
    BY <1>0, <2>3, StreamClosed DEF Close, SessionTypes
  <2>. QED
    BY <1>12, <2>2, <2>3 DEF Checked
<1>13. CASE CallAnswered
  <2>1. UNCHANGED <<link, sockVars, auth, held>> \/ Expire
    BY <1>13 DEF CallAnswered
  <2>2. CASE UNCHANGED <<link, sockVars, auth, held>>
    BY <1>0, <2>2, StreamKept DEF sockVars
  <2>. QED
    BY <1>0, <2>1, <2>2, ExpireStep
<1>14. CASE SignOut
  BY <1>14, <1>0, StreamClosed DEF SignOut, SessionTypes
<1>15. CASE Reload
  <2>1. held # Null
    BY <1>15 DEF Reload, Streaming
  <2>. QED
    BY <1>15, <1>0, <2>1, StreamClosed DEF Reload
<1>. QED
  BY <1>1, <1>2, <1>3, <1>4, <1>5, <1>6, <1>7, <1>8, <1>9, <1>10, <1>11, <1>12, <1>13, <1>14, <1>15
     DEF TelemetryNext

-----------------------------------------------------------------------------
(* The screen, the hub and the frames between them, step by step *)

\* What a message does to the screen.
LEMMA ClientShows ==
  ASSUME TelemetryAssumption, TelemetryTypes, ClientReceives
  PROVE  /\ link.down[1] \in Message
         /\ shown' = IF Tells(link.down[1]) THEN RunTold(link.down[1]) ELSE shown
         /\ ticker' = ticker \/ (link.down[1].type = "frame" /\ ShowFrame(link.down[1].frame))
         /\ shown' \in TheRun /\ ticker' \in Seq(TheEvent)
         /\ UNCHANGED <<run, seq, recent, secret, latest, told>>
<1> DEFINE m == link.down[1]
<1>1. link \in Connection /\ link.down # <<>>
  BY ClientReceivesLink
<1>2. m \in Message
  <2>1. link.down \in Seq(Message)
    BY <1>1, Fields
  <2>. QED
    BY <2>1, <1>1
<1> HIDE DEF m
<1>3. /\ m.type = "frame" => m.frame \in TheFrame
      /\ Tells(m) => RunTold(m) \in TheRun
  BY <1>2, MessageKinds
<1>4. shown \in TheRun /\ ticker \in Seq(TheEvent) /\ TickerSize \in Nat
  BY DEF TelemetryTypes, TelemetryAssumption
<1>5. UNCHANGED <<run, seq, recent, secret, latest, told>>
  BY DEF ClientReceives, runVars, hubVars
<1>6. CASE m.type = "frame" /\ ShowFrame(m.frame)
  <2> DEFINE fresh == Selected(m.frame.recent, Range(m.frame.recent) \ Range(ticker))
             all == fresh \o ticker
             k == IF Len(all) < TickerSize THEN Len(all) ELSE TickerSize
  <2>1. shown' = m.frame.run /\ ticker' = SubSeq(all, 1, k)
    BY <1>6 DEF ShowFrame
  <2>2. m.frame.recent \in Seq(TheEvent)
    BY <1>3, <1>6, FrameParts
  <2>3. fresh \in Seq(TheEvent)
    BY <2>2, SelectedElements
  <2> HIDE DEF fresh
  <2>4. all \in Seq(TheEvent)
    BY <2>3, <1>4
  <2> HIDE DEF all
  <2>5. k \in 0..Len(all)
    BY <2>4, <1>4
  <2> HIDE DEF k
  <2>6. SubSeq(all, 1, k) \in Seq(TheEvent)
    BY <2>4, <2>5, SplitElements
  <2>7. Tells(m) /\ RunTold(m) = m.frame.run
    BY <1>6 DEF Tells, RunTold
  <2>. QED
    BY <1>2, <1>3, <1>5, <1>6, <2>1, <2>6, <2>7 DEF m
<1>7. CASE m.type = "run" /\ shown' = m.run /\ UNCHANGED ticker
  <2>1. Tells(m) /\ RunTold(m) = m.run
    BY <1>7 DEF Tells, RunTold
  <2>. QED
    BY <1>2, <1>3, <1>4, <1>5, <1>7, <2>1 DEF m
<1>8. CASE m.type \notin {"frame", "run"} /\ UNCHANGED viewVars
  <2>1. ~Tells(m)
    BY <1>8 DEF Tells
  <2>. QED
    BY <1>2, <1>4, <1>5, <1>8, <2>1 DEF m, viewVars
<1>. QED
  BY <1>6, <1>7, <1>8 DEF ClientReceives, Greeted, Shown, m

LEMMA TypesStep ==
  ASSUME TelemetryAssumption, TelemetryTypes, recent = Latest(run.id, seq), SessionTypes',
         TelemetryNext
  PROVE  TelemetryTypes' /\ recent' = Latest(run'.id, seq')
<1>1. /\ run \in TheRun /\ seq \in Nat /\ secret \in Nat /\ latest \in TheFrame
      /\ link \in {NoLink} \cup Connection
      /\ shown \in TheRun /\ ticker \in Seq(TheEvent) /\ RecentSize \in Nat
  BY DEF TelemetryTypes, TelemetryAssumption
<1>2. NoRun \in TheRun /\ NoFrame \in TheFrame /\ <<>> \in Seq(TheEvent) /\ run.id \in Nat
  <2>1. NoRun \in TheRun /\ run.id \in Nat
    BY <1>1 DEF NoRun, TheRun
  <2>2. <<>> \in Seq(TheEvent)
    OBVIOUS
  <2>. QED
    BY <2>1, <2>2 DEF NoFrame, TheFrame
<1>3. \A id \in Nat : Latest(id, 0) = <<>>
  <2> TAKE id \in Nat
  <2>1. /\ Latest(id, 0) \in Seq(TheEvent)
        /\ Len(Latest(id, 0)) = (IF 0 < RecentSize THEN 0 ELSE RecentSize)
    BY <1>1, NewestElements
  <2>2. Len(Latest(id, 0)) = 0
    BY <1>1, <2>1
  <2>. QED
    BY <2>1, <2>2, EmptySeq
<1>4. CASE Start
  <2>1. /\ run' \in TheRun /\ run'.id \in Nat /\ seq' = 0 /\ recent' = <<>>
        /\ UNCHANGED <<secret, latest, link, shown, ticker>>
    <3>1. [id |-> run.id + 1, status |-> "running"] \in TheRun
      BY <1>2 DEF TheRun
    <3>. QED
      BY <1>4, <1>2, <3>1 DEF Start, hubVars, viewVars
  <2>. QED
    BY <1>1, <1>3, <2>1 DEF TelemetryTypes
<1>5. CASE PauseOrResume
  <2>1. /\ run' \in TheRun /\ run'.id = run.id
        /\ UNCHANGED <<seq, recent, secret, latest, link, shown, ticker>>
    <3>1. \A s \in {"running", "paused"} :
             [run EXCEPT !.status = s] \in TheRun /\ [run EXCEPT !.status = s].id = run.id
      BY <1>1 DEF TheRun
    <3>2. \E s \in {"running", "paused"} : run' = [run EXCEPT !.status = s]
      BY <1>5 DEF PauseOrResume
    <3>. QED
      BY <1>5, <3>1, <3>2 DEF PauseOrResume, hubVars, viewVars
  <2>. QED
    BY <1>1, <2>1 DEF TelemetryTypes
<1>6. CASE Generate
  <2>1. /\ seq' = seq + 1 /\ UNCHANGED <<run, secret, latest, link, shown, ticker>>
        /\ recent' = SubSeq(<<[run |-> run.id, seq |-> seq + 1]>> \o recent, 1,
                            IF Len(recent) < RecentSize THEN Len(recent) + 1 ELSE RecentSize)
    BY <1>6 DEF Generate, hubVars, viewVars
  <2>2. recent' = Latest(run.id, seq + 1)
    BY <1>1, <1>2, <2>1, NewestRecorded
  <2>. QED
    BY <1>1, <2>1, <2>2 DEF TelemetryTypes
<1>7. CASE Frame \/ FinalFrame
  <2>1. /\ run' \in TheRun /\ run'.id = run.id /\ UNCHANGED <<seq, recent, secret>>
    BY <1>7, FrameTaken
  <2>2. PICK f \in TheFrame : IngestFrame(f)
    BY <1>7, FrameTaken
  <2>3. latest' = f /\ (link' = link \/ link' \in Connection)
    BY <2>2, Ingested DEF Follows
  <2>4. UNCHANGED <<shown, ticker>>
    BY <1>7 DEF Frame, FinalFrame, viewVars
  <2>. QED
    BY <1>1, <2>1, <2>3, <2>4 DEF TelemetryTypes
<1>8. CASE Accept
  BY <1>8, <1>1, AcceptLink DEF TelemetryTypes, Accept, runVars, hubVars, viewVars
<1>9. CASE ServerReceives
  BY <1>9, <1>1, ServerReceivesLink DEF TelemetryTypes, Follows, ServerReceives, runVars, hubVars, viewVars
<1>10. CASE Break
  <2>1. link' \in {NoLink} \cup Connection
    BY <1>10, LostLink DEF Break
  <2>. QED
    BY <1>10, <1>1, <2>1 DEF TelemetryTypes, Break, hubVars, viewVars
<1>11. CASE Restart
  <2>1. link' \in {NoLink} \cup Connection
    BY <1>11, LostLink DEF Restart
  <2>2. [run EXCEPT !.status = "none"] \in TheRun /\ [run EXCEPT !.status = "none"].id = run.id
    BY <1>1 DEF TheRun
  <2>3. /\ run' \in TheRun /\ run'.id = run.id /\ seq' = 0 /\ recent' = <<>>
        /\ secret' \in {secret, secret + 1} /\ latest' = NoFrame /\ UNCHANGED <<shown, ticker>>
    BY <1>11, <2>2 DEF Restart, viewVars
  <2>. QED
    BY <1>1, <1>2, <1>3, <2>1, <2>3 DEF TelemetryTypes
<1>12. CASE ClientReceives
  BY <1>12, <1>1, ClientReceivesLink, ClientShows DEF TelemetryTypes
<1>13. CASE PingFires
  BY <1>13, <1>1, PingLink DEF TelemetryTypes, SameLink, PingFires, runVars, hubVars, viewVars
<1>14. CASE ReconnectFires \/ Checked
  <2>1. link' \in {NoLink} \cup Connection
    BY <1>14, ConnectLink DEF ReconnectFires, Checked, Close
  <2>. QED
    BY <1>14, <1>1, <2>1 DEF TelemetryTypes, ReconnectFires, Checked, runVars, hubVars, viewVars
<1>15. CASE ClientCloses \/ PongFires \/ SignIn \/ Call \/ CallAnswered
  <2>1. link' = link \/ link' = NoLink
    BY <1>15 DEF ClientCloses, PongFires, SignIn, Call, CallAnswered, Expire, Close
  <2>2. UNCHANGED <<run, seq, recent, secret, latest, shown, ticker>>
    BY <1>15 DEF ClientCloses, PongFires, SignIn, Call, CallAnswered, runVars, hubVars, viewVars
  <2>. QED
    BY <1>1, <2>1, <2>2 DEF TelemetryTypes
<1>16. CASE SignOut \/ Reload
  <2>1. link' = NoLink /\ shown' = NoRun /\ ticker' = <<>>
    BY <1>16 DEF SignOut, Reload
  <2>2. UNCHANGED <<run, seq, recent, secret, latest>>
    BY <1>16 DEF SignOut, Reload, runVars, hubVars
  <2>. QED
    BY <1>1, <1>2, <2>1, <2>2 DEF TelemetryTypes
<1>. QED
  BY <1>4, <1>5, <1>6, <1>7, <1>8, <1>9, <1>10, <1>11, <1>12, <1>13, <1>14, <1>15, <1>16
     DEF TelemetryNext

\* A connection that ends, or is not open, promises nothing.
LEMMA HubGone ==
  ASSUME told' = latest'.run, link' = NoLink \/ link'.at # "open"
  PROVE  HubInv'
BY DEF HubInv

LEMMA HubStep ==
  ASSUME TelemetryAssumption, TelemetryTypes, recent = Latest(run.id, seq), HubInv, TelemetryNext
  PROVE  HubInv'
<1>1. /\ latest \in TheFrame /\ latest.run \in TheRun
      /\ link # NoLink => link \in Connection /\ link.down \in Seq(Message)
  BY LinkParts, FrameParts DEF TelemetryTypes
<1>2. told = latest.run
  BY DEF HubInv
<1>3. ASSUME UNCHANGED <<latest, told, link, shown>>
      PROVE  HubInv'
  BY <1>3 DEF HubInv
<1>4. CASE Start \/ PauseOrResume \/ Generate \/ SignIn \/ Call
  BY <1>3, <1>4 DEF Start, PauseOrResume, Generate, SignIn, Call, hubVars, viewVars
<1>5. CASE Frame \/ FinalFrame
  <2>1. PICK f \in TheFrame : IngestFrame(f) /\ f.run.status # "none"
    BY <1>5, FrameTaken
  <2>2. UNCHANGED shown
    BY <1>5 DEF Frame, FinalFrame, viewVars
  <2>3. latest' = f /\ told' = f.run
    BY <2>1, Ingested
  <2>4. CASE link.at # "open"
    <3>1. link' = link
      BY <2>1, <2>4, Ingested
    <3>. QED
      BY <2>3, <2>4, <3>1, HubGone
  <2>5. CASE link.at = "open"
    <3>1. /\ link # NoLink /\ Follows(link, link', f)
          /\ f.run # told /\ "run" \in link.channels =>
               \E i \in (Len(link.down) + 1)..Len(link'.down) : Tells(link'.down[i])
      BY <2>1, <2>5, Ingested
    <3>2. "run" \in link.channels /\ (latest # NoFrame => WillShow(link.down, shown, latest.run))
      BY <2>5, <3>1 DEF HubInv
    <3>3. WillShow(link.down, shown, f.run)
            \/ \E i \in (Len(link.down) + 1)..Len(link'.down) : Tells(link'.down[i])
      <4>1. CASE f.run = told
        <5>1. latest # NoFrame
          BY <1>2, <2>1, <4>1 DEF NoFrame, NoRun
        <5>. QED
          BY <1>2, <3>2, <4>1, <5>1
      <4>2. CASE f.run # told
        BY <3>1, <3>2, <4>2
      <4>. QED
        BY <4>1, <4>2
    <3>4. link'.down \in Seq(Message) /\ link' \in Connection
      BY <3>1, Fields DEF Follows
    <3>5. \A i \in (Len(link.down) + 1)..Len(link'.down) :
             Tells(link'.down[i]) => RunTold(link'.down[i]) = f.run
      BY <3>1 DEF Follows, Says
    <3>6. WillShow(link'.down, shown, f.run)
      <4>1. link.down \in Seq(Message)
        BY <1>1, <3>1
      <4>2. /\ Len(link'.down) >= Len(link.down)
            /\ \A i \in 1..Len(link.down) : link'.down[i] = link.down[i]
        BY <3>1 DEF Follows
      <4>. QED
        BY <3>3, <3>4, <3>5, <4>1, <4>2, WillShowMore
    <3>7. "run" \in link'.channels
      BY <3>1, <3>2 DEF Follows
    <3>. QED
      BY <2>2, <2>3, <3>6, <3>7 DEF HubInv
  <2>. QED
    BY <2>4, <2>5
<1>6. CASE Accept
  <2>1. UNCHANGED <<latest, told, shown>>
    BY <1>6 DEF Accept, hubVars, viewVars
  <2>2. CASE link'.at # "open"
    BY <1>2, <2>1, <2>2, HubGone
  <2>3. CASE link'.at = "open"
    <3>1. /\ "run" \in link'.channels
          /\ link'.down = IF latest = NoFrame THEN <<Hello>> ELSE <<Hello, FrameMessage(latest)>>
      BY <1>6, <2>3, AcceptLink
    <3>2. ASSUME latest # NoFrame
          PROVE  WillShow(link'.down, shown, latest.run)
      <4> DEFINE d == <<Hello, FrameMessage(latest)>>
      <4>1. /\ Tells(FrameMessage(latest)) /\ RunTold(FrameMessage(latest)) = latest.run
            /\ ~Tells(Hello)
        BY <1>1, MessagesMade
      <4>2. DOMAIN d = {1, 2} /\ d[1] = Hello /\ d[2] = FrameMessage(latest)
        OBVIOUS
      <4> HIDE DEF d
      <4>3. link'.down = d
        BY <3>1, <3>2 DEF d
      <4>4. WillShow(d, shown, latest.run)
        BY <4>1, <4>2 DEF WillShow
      <4>. QED
        BY <4>3, <4>4
    <3>. QED
      BY <1>2, <2>1, <3>1, <3>2 DEF HubInv
  <2>. QED
    BY <2>2, <2>3
<1>7. CASE ServerReceives
  <2>1. UNCHANGED <<latest, told, shown>> /\ link.at = "open" /\ link # NoLink
    BY <1>7 DEF ServerReceives, hubVars, viewVars
  <2>2. /\ Follows(link, link', latest)
        /\ \A i \in (Len(link.down) + 1)..Len(link'.down) : link'.down[i].type = "pong"
    BY <1>7, ServerReceivesLink
  <2>3. "run" \in link.channels /\ (latest # NoFrame => WillShow(link.down, shown, latest.run))
    BY <2>1 DEF HubInv
  <2>4. ASSUME latest # NoFrame
        PROVE  WillShow(link'.down, shown, latest.run)
    <3>1. link.down \in Seq(Message) /\ link'.down \in Seq(Message)
      BY <1>1, <2>1, <2>2, Fields DEF Follows
    <3>2. /\ Len(link'.down) >= Len(link.down)
          /\ \A i \in 1..Len(link.down) : link'.down[i] = link.down[i]
          /\ \A i \in (Len(link.down) + 1)..Len(link'.down) :
               Tells(link'.down[i]) => RunTold(link'.down[i]) = latest.run
      BY <2>2 DEF Follows, Says
    <3>3. WillShow(link.down, shown, latest.run)
      BY <2>3, <2>4
    <3>. QED
      BY <3>1, <3>2, <3>3, WillShowMore
  <2>5. "run" \in link'.channels
    BY <2>2, <2>3 DEF Follows
  <2>. QED
    BY <1>2, <2>1, <2>4, <2>5 DEF HubInv
<1>8. CASE Break
  <2>1. link' = NoLink \/ link'.at # "open"
    BY <1>8, LostLink DEF Break
  <2>2. UNCHANGED <<latest, told>>
    BY <1>8 DEF Break, hubVars
  <2>. QED
    BY <1>2, <2>1, <2>2, HubGone
<1>9. CASE Restart
  <2>1. link' = NoLink \/ link'.at # "open"
    BY <1>9, LostLink DEF Restart
  <2>2. told' = NoRun /\ latest' = NoFrame
    BY <1>9 DEF Restart
  <2>3. told' = latest'.run
    BY <2>2 DEF NoFrame
  <2>. QED
    BY <2>1, <2>3, HubGone
<1>10. CASE ClientReceives
  <2>1. /\ link # NoLink /\ link.down # <<>> /\ link' \in Connection /\ link'.at = link.at
        /\ link'.channels = link.channels /\ link'.down = Tail(link.down)
    BY <1>10, ClientReceivesLink
  <2>2. /\ shown' = IF Tells(link.down[1]) THEN RunTold(link.down[1]) ELSE shown
        /\ UNCHANGED <<latest, told>>
    BY <1>10, ClientShows
  <2>3. CASE link.at # "open"
    BY <1>2, <2>1, <2>2, <2>3, HubGone
  <2>4. CASE link.at = "open"
    <3>1. "run" \in link.channels /\ (latest # NoFrame => WillShow(link.down, shown, latest.run))
      BY <2>1, <2>4 DEF HubInv
    <3>2. ASSUME latest # NoFrame
          PROVE  WillShow(link'.down, shown', latest.run)
      <4>1. link.down \in Seq(Message) /\ link.down # <<>> /\ WillShow(link.down, shown, latest.run)
        BY <1>1, <2>1, <3>1, <3>2
      <4>2. WillShow(Tail(link.down), IF Tells(link.down[1]) THEN RunTold(link.down[1]) ELSE shown,
                     latest.run)
        BY <4>1, WillShowTail
      <4>. QED
        BY <2>1, <2>2, <4>2
    <3>. QED
      BY <1>2, <2>1, <2>2, <3>1, <3>2 DEF HubInv
  <2>. QED
    BY <2>3, <2>4
<1>11. CASE PingFires
  <2>1. UNCHANGED <<latest, told, shown>>
    BY <1>11 DEF PingFires, hubVars, viewVars
  <2>2. CASE link' = link
    BY <1>3, <2>1, <2>2
  <2>3. CASE link # NoLink /\ SameLink
    BY <2>1, <2>3 DEF HubInv, SameLink
  <2>. QED
    BY <1>11, <2>2, <2>3, PingLink
<1>12. CASE ReconnectFires \/ Checked
  <2>1. link' = NoLink \/ link'.at # "open"
    BY <1>12, ConnectLink DEF ReconnectFires, Checked, Close
  <2>2. UNCHANGED <<latest, told>>
    BY <1>12 DEF ReconnectFires, Checked, hubVars
  <2>. QED
    BY <1>2, <2>1, <2>2, HubGone
<1>13. CASE ClientCloses \/ PongFires \/ CallAnswered
  <2>1. link' = link \/ link' = NoLink
    BY <1>13 DEF ClientCloses, PongFires, CallAnswered, Expire, Close
  <2>2. UNCHANGED <<latest, told, shown>>
    BY <1>13 DEF ClientCloses, PongFires, CallAnswered, hubVars, viewVars
  <2>. QED
    BY <1>2, <1>3, <2>1, <2>2, HubGone
<1>14. CASE SignOut \/ Reload
  <2>1. link' = NoLink /\ UNCHANGED <<latest, told>>
    BY <1>14 DEF SignOut, Reload, hubVars
  <2>. QED
    BY <1>2, <2>1, HubGone
<1>. QED
  BY <1>4, <1>5, <1>6, <1>7, <1>8, <1>9, <1>10, <1>11, <1>12, <1>13, <1>14 DEF TelemetryNext

\* The run, the hub and the screen stay: only the connection may change.
LEMMA FramesSame ==
  ASSUME FramesInv, UNCHANGED <<run, recent, latest, ticker>>,
         link' # NoLink => Ahead(link'.down, ticker, latest)
  PROVE  FramesInv'
BY DEF FramesInv, FrameOf

\* The recent events of a run make a genuine frame.
LEMMA NewestGenuine ==
  ASSUME RecentSize \in Nat, NEW f \in TheFrame, NEW n \in Nat, f.recent = Latest(f.run.id, n)
  PROVE  Genuine(f)
<1>1. f.run.id \in Nat
  BY FrameParts
<1>2. CASE RecentSize = 0
  <2>1. \A k \in Nat : Latest(f.run.id, k) \in Seq(TheEvent) /\ Len(Latest(f.run.id, k)) = 0
    <3> TAKE k \in Nat
    <3>1. /\ Latest(f.run.id, k) \in Seq(TheEvent)
          /\ Len(Latest(f.run.id, k)) = (IF k < RecentSize THEN k ELSE RecentSize)
      BY <1>1, NewestElements
    <3>. QED
      BY <1>2, <3>1
  <2>2. \A k \in Nat : Latest(f.run.id, k) = <<>>
    BY <2>1, EmptySeq
  <2>3. Top(f.recent) \in Nat
    BY FrameParts
  <2>. QED
    BY <2>2, <2>3 DEF Genuine
<1>3. CASE RecentSize # 0
  <2>1. Top(Latest(f.run.id, n)) = n
    BY <1>1, <1>3, NewestElements
  <2>. QED
    BY <2>1 DEF Genuine
<1>. QED
  BY <1>2, <1>3

\* Nothing on the way.
LEMMA NothingAhead ==
  ASSUME NEW events, NEW last
  PROVE  Ahead(<<>>, events, last)
BY DEF Ahead

LEMMA FramesStep ==
  ASSUME TelemetryAssumption, TelemetryTypes, recent = Latest(run.id, seq), RecentSize <= TickerSize,
         TelemetryTypes', recent' = Latest(run'.id, seq'), FramesInv, TelemetryNext
  PROVE  FramesInv'
<1>1. /\ RecentSize \in Nat /\ TickerSize \in Nat
      /\ run \in TheRun /\ run.id \in Nat /\ seq \in Nat /\ recent \in Seq(TheEvent)
      /\ latest \in TheFrame /\ latest.run.id \in Nat /\ Top(latest.recent) \in Nat
      /\ ticker \in Seq(TheEvent) /\ FrameOf(run) \in TheFrame
      /\ link # NoLink => link \in Connection /\ link.down \in Seq(Message)
  <2>1. /\ RecentSize \in Nat /\ TickerSize \in Nat
        /\ run \in TheRun /\ run.id \in Nat /\ seq \in Nat
        /\ latest \in TheFrame /\ ticker \in Seq(TheEvent)
    BY DEF TelemetryAssumption, TelemetryTypes, TheRun
  <2>2. recent \in Seq(TheEvent)
    BY <2>1, NewestElements
  <2>3. FrameOf(run) \in TheFrame
    BY <2>1, <2>2 DEF FrameOf, TheFrame
  <2>. QED
    BY <2>1, <2>2, <2>3, FrameParts, LinkParts DEF TelemetryTypes
<1>2. /\ FrameOf(run).run = run /\ FrameOf(run).recent = recent
      /\ Top(recent) \in Nat
  BY <1>1, FrameParts DEF FrameOf
<1>3. ticker # <<>> => ticker[1].run \in Nat /\ ticker[1].seq \in Nat
  <2>1. ticker # <<>> => ticker[1] \in TheEvent
    BY <1>1
  <2>. QED
    BY <2>1 DEF TheEvent
<1>4. \A events \in Seq(TheEvent) : \A f, g \in TheFrame :
         Before(f, g) /\ NoNewer(events, f) => NoNewer(events, g)
  BY BeforeOrders
<1>5. CASE Start
  <2>1. /\ run'.id = run.id + 1 /\ recent' = <<>> /\ UNCHANGED <<latest, link, ticker>>
    BY <1>5 DEF Start, hubVars, viewVars
  <2>2. Before(latest, FrameOf(run)')
    BY <1>1, <2>1 DEF Before, FrameOf, FramesInv
  <2>3. NoNewer(ticker, FrameOf(run)')
    BY <1>1, <1>3, <2>1 DEF NoNewer, FrameOf, FramesInv
  <2>4. latest.run.id <= run.id + 1 /\ (ticker # <<>> => ticker[1].run <= run.id + 1)
    BY <1>1, <1>3 DEF FramesInv
  <2>. QED
    BY <2>1, <2>2, <2>3, <2>4 DEF FramesInv
<1>6. CASE PauseOrResume
  <2>1. /\ run'.id = run.id /\ run.status \in Live /\ UNCHANGED <<recent, latest, link, ticker>>
    BY <1>6, <1>1 DEF PauseOrResume, hubVars, viewVars, TheRun
  <2>2. Before(latest, FrameOf(run)') /\ NoNewer(ticker, FrameOf(run)')
    BY <2>1 DEF Before, NoNewer, FrameOf, FramesInv
  <2>. QED
    BY <2>1, <2>2 DEF FramesInv
<1>7. CASE Generate
  <2>1. /\ run.status \in Live /\ seq' = seq + 1 /\ UNCHANGED <<run, latest, link, ticker>>
    BY <1>7 DEF Generate, hubVars, viewVars, Live
  <2>2. recent' = Latest(run.id, seq + 1)
    BY <2>1
  <2>3. Top(recent) <= Top(recent') /\ Top(recent') \in Nat
    <3>1. Top(recent) = (IF RecentSize = 0 THEN 0 ELSE seq)
      BY <1>1, NewestElements
    <3>2. Top(Latest(run.id, seq + 1)) = (IF RecentSize = 0 THEN 0 ELSE seq + 1)
      <4>1. seq + 1 \in Nat
        BY <1>1
      <4>. QED
        BY <1>1, <4>1, NewestElements
    <3>. QED
      BY <1>1, <2>2, <3>1, <3>2
  <2>4. Before(latest, FrameOf(run)) /\ NoNewer(ticker, FrameOf(run))
    BY <2>1 DEF FramesInv
  <2>5. Before(latest, FrameOf(run)')
    BY <1>1, <1>2, <2>1, <2>3, <2>4 DEF Before, FrameOf
  <2>6. NoNewer(ticker, FrameOf(run)')
    BY <1>1, <1>2, <1>3, <2>1, <2>3, <2>4 DEF NoNewer, FrameOf
  <2>. QED
    BY <2>1, <2>5, <2>6 DEF FramesInv
<1>8. CASE Frame \/ FinalFrame
  <2>1. /\ run' \in TheRun /\ run'.id = run.id /\ run.status \in Live /\ UNCHANGED recent
    BY <1>8, FrameTaken
  <2>2. PICK f \in TheFrame : IngestFrame(f) /\ f.run = run' /\ f.recent = recent
    BY <1>8, FrameTaken
  <2>3. /\ latest' = f /\ UNCHANGED ticker
        /\ link.at # "open" => link' = link
        /\ link.at = "open" => link # NoLink /\ Follows(link, link', f)
    BY <1>8, <2>2, Ingested DEF Frame, FinalFrame, viewVars
  <2>4. Genuine(f)
    BY <1>1, <2>1, <2>2, NewestGenuine
  <2>5. Before(latest, f) /\ NoNewer(ticker, f)
    BY <1>2, <2>1, <2>2 DEF Before, NoNewer, FramesInv
  <2>6. Before(f, FrameOf(run)') /\ NoNewer(ticker, FrameOf(run)')
    <3>1. Before(f, f)
      BY FrameParts
    <3>. QED
      BY <3>1, <2>1, <2>2, <2>5 DEF Before, NoNewer, FrameOf
  <2>7. ASSUME link' # NoLink
        PROVE  Ahead(link'.down, ticker, f)
    <3>1. CASE link.at = "open"
      <4>1. link # NoLink /\ Follows(link, link', f)
        BY <2>3, <3>1
      <4>2. link.down \in Seq(Message) /\ link'.down \in Seq(Message) /\ Ahead(link.down, ticker, latest)
        BY <1>1, <4>1, Fields DEF Follows, FramesInv
      <4>3. /\ Len(link'.down) >= Len(link.down)
            /\ \A i \in 1..Len(link.down) : link'.down[i] = link.down[i]
            /\ \A i \in (Len(link.down) + 1)..Len(link'.down) :
                 link'.down[i].type = "frame" =>
                   link'.down[i].frame = f /\ Genuine(f) /\ NoNewer(ticker, f)
        BY <2>4, <2>5, <4>1 DEF Follows, Says
      <4>. QED
        BY <1>1, <2>5, <4>2, <4>3, AheadMore
    <3>2. CASE link.at # "open"
      <4>1. link' = link /\ Ahead(link.down, ticker, latest) /\ link.down \in Seq(Message)
        BY <1>1, <2>3, <2>7, <3>2 DEF FramesInv
      <4>2. \A i \in (Len(link.down) + 1)..Len(link.down) : FALSE
        BY <4>1
      <4>3. Len(link.down) >= Len(link.down)
        BY <4>1
      <4>4. Ahead(link.down, ticker, f)
        BY <1>1, <2>5, <4>1, <4>2, <4>3, AheadMore
      <4>. QED
        BY <4>1, <4>4
    <3>. QED
      BY <3>1, <3>2
  <2>8. /\ latest'.run.id <= run'.id
        /\ ticker # <<>> => ticker[1].run <= run'.id
        /\ Ordered(ticker) /\ Leading(ticker)
    BY <1>1, <2>1, <2>2, <2>3 DEF FramesInv
  <2>. QED
    BY <2>3, <2>4, <2>5, <2>6, <2>7, <2>8 DEF FramesInv
<1>9. CASE Accept
  <2>1. UNCHANGED <<run, recent, latest, ticker>>
    BY <1>9 DEF Accept, runVars, hubVars, viewVars
  <2>2. /\ link # NoLink
        /\ \/ link'.down = IF latest = NoFrame THEN <<Hello>> ELSE <<Hello, FrameMessage(latest)>>
           \/ link'.down = link.down
    BY <1>9, AcceptLink
  <2>3. Hello.type # "frame"
    BY DEF Hello
  <2>4. Ahead(<<Hello>>, ticker, latest)
    BY <2>3 DEF Ahead
  <2>5. ASSUME latest # NoFrame
        PROVE  Ahead(<<Hello, FrameMessage(latest)>>, ticker, latest)
    <3> DEFINE d == <<Hello, FrameMessage(latest)>>
    <3>1. DOMAIN d = {1, 2} /\ d[1] = Hello /\ d[2] = FrameMessage(latest)
      OBVIOUS
    <3>2. FrameMessage(latest).frame = latest
      BY DEF FrameMessage
    <3>3. Genuine(latest) /\ Before(latest, latest) /\ NoNewer(ticker, latest)
      BY <1>1, <2>5, FrameParts DEF FramesInv
    <3> HIDE DEF d
    <3>4. Ahead(d, ticker, latest)
      BY <2>3, <3>1, <3>2, <3>3 DEF Ahead
    <3>. QED
      BY <3>4 DEF d
  <2>6. Ahead(link'.down, ticker, latest)
    BY <2>2, <2>4, <2>5 DEF FramesInv
  <2>. QED
    BY <2>1, <2>6, FramesSame
<1>10. CASE ServerReceives
  <2>1. UNCHANGED <<run, recent, latest, ticker>>
    BY <1>10 DEF ServerReceives, runVars, hubVars, viewVars
  <2>2. /\ link # NoLink /\ Follows(link, link', latest)
        /\ \A i \in (Len(link.down) + 1)..Len(link'.down) : link'.down[i].type = "pong"
    BY <1>10, ServerReceivesLink
  <2>3. link.down \in Seq(Message) /\ link'.down \in Seq(Message) /\ Ahead(link.down, ticker, latest)
    BY <1>1, <2>2, Fields DEF Follows, FramesInv
  <2>4. /\ Len(link'.down) >= Len(link.down)
        /\ \A i \in 1..Len(link.down) : link'.down[i] = link.down[i]
        /\ \A i \in (Len(link.down) + 1)..Len(link'.down) : link'.down[i].type # "frame"
    BY <2>2 DEF Follows
  <2>5. Before(latest, latest)
    BY <1>1, FrameParts
  <2>6. Ahead(link'.down, ticker, latest)
    BY <1>1, <2>3, <2>4, <2>5, AheadMore
  <2>. QED
    BY <2>1, <2>6, FramesSame
<1>11. CASE Break
  <2>1. UNCHANGED <<run, recent, latest, ticker>>
    BY <1>11 DEF Break, hubVars, viewVars
  <2>2. link' # NoLink => Ahead(link'.down, ticker, latest)
    BY <1>11, LostLink, NothingAhead DEF Break
  <2>. QED
    BY <2>1, <2>2, FramesSame
<1>12. CASE Restart
  <2>1. /\ run'.id = run.id /\ run'.status = "none" /\ latest' = NoFrame /\ UNCHANGED ticker
    BY <1>12, <1>1 DEF Restart, viewVars, TheRun
  <2>2. link' # NoLink => Ahead(link'.down, ticker, latest')
    BY <1>12, LostLink, NothingAhead DEF Restart
  <2>3. run'.status \notin Live
    BY <2>1 DEF Live
  <2>4. NoFrame \in TheFrame /\ NoFrame.run.id = 0 /\ NoFrame.recent = <<>>
    BY <2>1 DEF TelemetryTypes, NoFrame, NoRun
  <2>5. Genuine(NoFrame)
    <3>1. PICK z \in Nat : z = 0
      OBVIOUS
    <3>2. /\ Latest(z, z) \in Seq(TheEvent)
          /\ Len(Latest(z, z)) = (IF z < RecentSize THEN z ELSE RecentSize)
      BY <1>1, NewestElements
    <3>3. Len(Latest(z, z)) = 0
      BY <1>1, <3>1, <3>2
    <3>4. NoFrame.recent = Latest(NoFrame.run.id, 0)
      BY <2>4, <3>1, <3>2, <3>3, EmptySeq
    <3>. QED
      BY <1>1, <2>4, <3>4, NewestGenuine
  <2>6. NoFrame.run.id <= run.id
    BY <1>1, <2>4
  <2>. QED
    BY <2>1, <2>2, <2>3, <2>5, <2>6 DEF FramesInv
<1>13. CASE ClientReceives
  <2> DEFINE m == link.down[1]
  <2>1. /\ link # NoLink /\ link.down # <<>> /\ link'.down = Tail(link.down)
        /\ link.down \in Seq(Message) /\ Ahead(link.down, ticker, latest)
    BY <1>13, <1>1, ClientReceivesLink DEF FramesInv
  <2>2. /\ m \in Message /\ UNCHANGED <<run, recent, latest>>
        /\ ticker' = ticker \/ (m.type = "frame" /\ ShowFrame(m.frame))
        /\ ticker' \in Seq(TheEvent)
    BY <1>13, ClientShows
  <2>3. CASE ticker' = ticker
    <3>1. Ahead(Tail(link.down), ticker, latest)
      BY <1>1, <2>1, AheadTail
    <3>. QED
      BY <2>1, <2>2, <2>3, <3>1, FramesSame
  <2>4. CASE m.type = "frame" /\ ShowFrame(m.frame)
    <3> DEFINE f == m.frame
    <3>1. f \in TheFrame
      BY <2>2, <2>4, MessageKinds
    <3>2. Genuine(f) /\ Before(f, latest) /\ NoNewer(ticker, f)
      <4>1. 1 \in DOMAIN link.down
        BY <2>1
      <4>. QED
        BY <2>1, <2>4, <4>1 DEF Ahead
    <3>3. Ordered(ticker) /\ Leading(ticker)
      BY DEF FramesInv
    <3> HIDE DEF f
    <3>4. Ordered(ticker') /\ Leading(ticker') /\ NoNewer(ticker', f)
      <4> DEFINE all == Selected(f.recent, Range(f.recent) \ Range(ticker)) \o ticker
                 shows == SubSeq(all, 1, IF Len(all) < TickerSize THEN Len(all) ELSE TickerSize)
      <4>1. ticker' = shows
        BY <2>4 DEF ShowFrame, f
      <4>2. Ordered(shows) /\ Leading(shows) /\ NoNewer(shows, f)
        BY <1>1, <3>1, <3>2, <3>3, FrameShown
      <4> HIDE DEF shows
      <4>. QED
        BY <4>1, <4>2
    <3>5. NoNewer(ticker', latest)
      BY <1>1, <1>4, <2>2, <3>1, <3>2, <3>4
    <3>6. run.status \in Live => NoNewer(ticker', FrameOf(run)) /\ Before(latest, FrameOf(run))
      BY <1>1, <1>4, <2>2, <3>5 DEF FramesInv
    <3>7. Ahead(Tail(link.down), ticker', latest)
      BY <1>1, <2>1, <2>2, <2>4, <3>4, AheadTail DEF f
    <3>8. ticker' # <<>> => ticker'[1].run <= run.id
      <4>1. SUFFICES ASSUME ticker' # <<>> PROVE ticker'[1].run <= run.id
        OBVIOUS
      <4>2. ticker'[1] \in TheEvent
        BY <2>2, <4>1
      <4>3. ticker'[1].run \in Nat
        BY <4>2 DEF TheEvent
      <4>4. ticker'[1].run <= latest.run.id
        BY <1>1, <3>5, <4>1, <4>3 DEF NoNewer
      <4>5. latest.run.id <= run.id
        BY DEF FramesInv
      <4>. QED
        BY <1>1, <4>3, <4>4, <4>5
    <3>. QED
      BY <2>1, <2>2, <3>4, <3>5, <3>6, <3>7, <3>8 DEF FramesInv, FrameOf
  <2>. QED
    BY <2>2, <2>3, <2>4
<1>14. CASE PingFires
  <2>1. UNCHANGED <<run, recent, latest, ticker>>
    BY <1>14 DEF PingFires, runVars, hubVars, viewVars
  <2>2. link' # NoLink => Ahead(link'.down, ticker, latest)
    BY <1>14, PingLink DEF SameLink, FramesInv
  <2>. QED
    BY <2>1, <2>2, FramesSame
<1>15. CASE ReconnectFires \/ Checked
  <2>1. UNCHANGED <<run, recent, latest, ticker>>
    BY <1>15 DEF ReconnectFires, Checked, runVars, hubVars, viewVars
  <2>2. link' = NoLink \/ link'.down = <<>>
    BY <1>15, ConnectLink DEF ReconnectFires, Checked, Close
  <2>. QED
    BY <2>1, <2>2, FramesSame, NothingAhead
<1>16. CASE ClientCloses \/ PongFires \/ SignIn \/ Call \/ CallAnswered
  <2>1. link' = link \/ link' = NoLink
    BY <1>16 DEF ClientCloses, PongFires, SignIn, Call, CallAnswered, Expire, Close
  <2>2. UNCHANGED <<run, recent, latest, ticker>>
    BY <1>16 DEF ClientCloses, PongFires, SignIn, Call, CallAnswered, runVars, hubVars, viewVars
  <2>3. link' # NoLink => Ahead(link'.down, ticker, latest)
    BY <2>1 DEF FramesInv
  <2>. QED
    BY <2>2, <2>3, FramesSame
<1>17. CASE SignOut \/ Reload
  <2>1. link' = NoLink /\ ticker' = <<>> /\ UNCHANGED <<run, recent, latest>>
    BY <1>17 DEF SignOut, Reload, runVars, hubVars
  <2>2. Ordered(<<>>) /\ Leading(<<>>) /\ \A f : NoNewer(<<>>, f)
    BY DEF Ordered, Leading, NoNewer
  <2>. QED
    BY <2>1, <2>2 DEF FramesInv, FrameOf
<1>. QED
  BY <1>5, <1>6, <1>7, <1>8, <1>9, <1>10, <1>11, <1>12, <1>13, <1>14, <1>15, <1>16, <1>17
     DEF TelemetryNext

-----------------------------------------------------------------------------
(* What the dashboard shows *)

LEMMA TelemetryInitial ==
  ASSUME TelemetryAssumption, TelemetryInit
  PROVE  TelemetryInv
<1>1. RecentSize \in Nat
  BY DEF TelemetryAssumption
<1>2. /\ run = NoRun /\ seq = 0 /\ recent = <<>> /\ secret = 1 /\ latest = NoFrame /\ told = NoRun
      /\ link = NoLink /\ attempts = 0 /\ reconnect = FALSE /\ ping = FALSE /\ pong = FALSE
      /\ auth = "locked" /\ held = Null /\ shown = NoRun /\ ticker = <<>>
  BY DEF TelemetryInit
<1>3. /\ NoRun \in TheRun /\ NoRun.id = 0 /\ NoRun.status = "none"
      /\ NoFrame.run = NoRun /\ NoFrame.recent = <<>> /\ <<>> \in Seq(TheEvent)
  BY DEF NoRun, NoFrame, TheRun
<1>4. NoFrame \in TheFrame
  <2>1. <<>> \in Seq(TheEvent)
    OBVIOUS
  <2>. QED
    BY <1>3, <2>1 DEF NoFrame, TheFrame
<1>5. recent = Latest(run.id, seq)
  <2>1. PICK z \in Nat : z = 0
    OBVIOUS
  <2>2. /\ Latest(z, z) \in Seq(TheEvent)
        /\ Len(Latest(z, z)) = (IF z < RecentSize THEN z ELSE RecentSize)
    BY <1>1, NewestElements
  <2>3. Len(Latest(z, z)) = 0
    BY <1>1, <2>1, <2>2
  <2>. QED
    BY <1>2, <1>3, <2>1, <2>2, <2>3, EmptySeq
<1>6. SessionTypes
  BY <1>2 DEF SessionTypes
<1>7. TelemetryTypes
  BY <1>2, <1>3, <1>4, <1>6 DEF TelemetryTypes
<1>8. HubInv
  BY <1>2, <1>3 DEF HubInv
<1>9. Streaming
  BY <1>2 DEF Streaming
<1>10. FramesInv
  <2>1. Genuine(latest)
    <3>1. latest.recent = Latest(latest.run.id, seq)
      BY <1>2, <1>3, <1>5
    <3>. QED
      BY <1>1, <1>2, <1>4, <3>1, NewestGenuine
  <2>2. Ordered(<<>>) /\ Leading(<<>>)
    BY DEF Ordered, Leading
  <2>3. run.status \notin Live
    BY <1>2, <1>3 DEF Live
  <2>4. latest.run.id <= run.id
    BY <1>2, <1>3
  <2>. QED
    BY <1>2, <2>1, <2>2, <2>3, <2>4 DEF FramesInv
<1>. QED
  BY <1>5, <1>7, <1>8, <1>9, <1>10 DEF TelemetryInv

LEMMA TelemetryStep ==
  ASSUME TelemetryAssumption, TelemetryInv, [TelemetryNext]_telemetryVars
  PROVE  TelemetryInv'
<1>1. CASE TelemetryNext
  <2>1. /\ TelemetryTypes /\ recent = Latest(run.id, seq) /\ HubInv /\ Streaming
        /\ RecentSize <= TickerSize => FramesInv
    BY DEF TelemetryInv
  <2>2. SessionTypes' /\ Streaming'
    BY <1>1, <2>1, SessionStep
  <2>3. TelemetryTypes' /\ recent' = Latest(run'.id, seq')
    BY <1>1, <2>1, <2>2, TypesStep
  <2>4. HubInv'
    BY <1>1, <2>1, HubStep
  <2>5. RecentSize <= TickerSize => FramesInv'
    BY <1>1, <2>1, <2>3, FramesStep
  <2>. QED
    BY <2>2, <2>3, <2>4, <2>5 DEF TelemetryInv
<1>2. CASE UNCHANGED telemetryVars
  <2>1. UNCHANGED <<run, seq, recent, secret, latest, told, link, sock, attempts, reconnect, ping, pong,
                    auth, held, shown, ticker>>
    BY <1>2 DEF telemetryVars, runVars, hubVars, sockVars, sessionVars, viewVars
  <2>2. TelemetryTypes' <=> TelemetryTypes
    BY <2>1 DEF TelemetryTypes, SessionTypes
  <2>3. HubInv' <=> HubInv
    BY <2>1 DEF HubInv
  <2>4. Streaming' <=> Streaming
    BY <2>1 DEF Streaming
  <2>5. FramesInv => FramesInv'
    BY <2>1, FramesSame DEF FramesInv
  <2>. QED
    BY <2>1, <2>2, <2>3, <2>4, <2>5 DEF TelemetryInv
<1>. QED
  BY <1>1, <1>2

LEMMA TelemetryShows ==
  ASSUME TelemetryAssumption, TelemetryInv
  PROVE  ShowsTruth
<1>1. ShowsRun
  <2>1. SUFFICES ASSUME link # NoLink, link.at = "open", link.down = <<>>, latest # NoFrame
                 PROVE  shown = latest.run
    BY DEF ShowsRun
  <2>2. WillShow(<<>>, shown, latest.run)
    BY <2>1 DEF TelemetryInv, HubInv
  <2>. QED
    BY <2>2 DEF WillShow
<1>2. TickerOrdered
  BY DEF TelemetryInv, FramesInv, Ordered, TickerOrdered
<1>3. StreamFollowsSession
  <2>1. reconnect \in BOOLEAN /\ ping \in BOOLEAN /\ pong \in BOOLEAN /\ Streaming
    BY DEF TelemetryInv, TelemetryTypes, SessionTypes
  <2>2. CASE auth = "authed"
    <3>1. held # Null /\ sock \in {"connecting", "open", "reconnecting"}
      BY <2>1, <2>2 DEF Streaming
    <3>2. (link # NoLink) # reconnect
      <4>1. reconnect = (IF link = NoLink THEN TRUE ELSE FALSE)
        BY <2>1, <2>2 DEF Streaming
      <4>2. CASE link = NoLink
        BY <4>1, <4>2
      <4>3. CASE link # NoLink
        BY <4>1, <4>3
      <4>. QED
        BY <4>2, <4>3
    <3>. QED
      BY <2>2, <3>1, <3>2 DEF StreamFollowsSession
  <2>3. CASE auth # "authed"
    <3>1. link = NoLink /\ reconnect = FALSE /\ ping = FALSE /\ pong = FALSE
      BY <2>1, <2>3 DEF Streaming
    <3>2. (held # Null) = (auth = "checking")
      BY <2>1, <2>3 DEF Streaming
    <3>3. ~reconnect /\ ~ping /\ ~pong
      BY <3>1
    <3>. QED
      BY <2>3, <3>1, <3>2, <3>3 DEF StreamFollowsSession
  <2>. QED
    BY <2>2, <2>3
<1>. QED
  BY <1>1, <1>2, <1>3 DEF ShowsTruth

\* Whatever the server sheds, however often it restarts, the connection breaks or the
\* operator signs in and out: a dashboard that has caught up shows the run and the status
\* the hub last told of, its ticker is in order without repetition, and it has a stream or
\* a timer that brings it back if and only if it has a session (telemetry-hub.ts:45-107,
\* ws-client.ts:83-270, telemetry-store.ts:66-104).
THEOREM ShowsTruthHolds == TelemetryAssumption /\ TelemetrySpec => []ShowsTruth
<1>1. SUFFICES ASSUME TelemetryAssumption PROVE TelemetrySpec => []ShowsTruth
  OBVIOUS
<1>2. TelemetryInit => TelemetryInv
  BY <1>1, TelemetryInitial
<1>3. TelemetryInv /\ [TelemetryNext]_telemetryVars => TelemetryInv'
  BY <1>1, TelemetryStep
<1>4. TelemetryInv => ShowsTruth
  BY <1>1, TelemetryShows
<1>. QED
  BY <1>2, <1>3, <1>4, PTL DEF TelemetrySpec
================================================================================
