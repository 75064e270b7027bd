------------------------------- MODULE SeqLemmas ------------------------------
(***************************************************************************)
(* Facts about duplicate-free sequences and their elements, used by the    *)
(* proofs about the components that queue, batch and log events; the       *)
(* induction up to a bound and over subsets that the proofs about          *)
(* recursive functions use; the sums of the community modules; what a      *)
(* filter keeps; and slots, kinds and ascending order.                     *)
(***************************************************************************)
EXTENDS Filters, SequencesExt, SequenceTheorems, FiniteSetTheorems, WellFoundedInduction, TLAPS

\* Appending a new element keeps a sequence duplicate free.
LEMMA AppendDistinct ==
  ASSUME NEW S, NEW s \in Seq(S), NEW e \in S
  PROVE  /\ Append(s, e) \in Seq(S) /\ Append(s, e) # <<>>
         /\ Len(Append(s, e)) = Len(s) + 1
         /\ Range(Append(s, e)) = Range(s) \cup {e}
         /\ IsInjective(s) /\ e \notin Range(s) => IsInjective(Append(s, e))
<1>1. Append(s, e) \in Seq(S) /\ Len(Append(s, e)) = Len(s) + 1
  OBVIOUS
<1>0. Append(s, e) # <<>>
  <2>1. Len(Append(s, e)) # 0
    BY <1>1
  <2>. QED
    BY <2>1, EmptySeq
<1>2. \A i \in 1..Len(s) : Append(s, e)[i] = s[i]
  OBVIOUS
<1>3. Append(s, e)[Len(s) + 1] = e
  OBVIOUS
<1>4. DOMAIN s = 1..Len(s) /\ DOMAIN Append(s, e) = 1..(Len(s) + 1)
  OBVIOUS
<1>5. Range(Append(s, e)) = Range(s) \cup {e}
  BY <1>2, <1>3, <1>4 DEF Range
<1>6. IsInjective(s) /\ e \notin Range(s) => IsInjective(Append(s, e))
  BY <1>2, <1>3, <1>4 DEF Range, IsInjective
<1>. QED
  BY <1>0, <1>1, <1>5, <1>6

\* Taking the head off removes exactly that element.
LEMMA TailDistinct ==
  ASSUME NEW S, NEW s \in Seq(S), s # <<>>
  PROVE  /\ Tail(s) \in Seq(S)
         /\ Head(s) \in Range(s)
         /\ Range(s) = Range(Tail(s)) \cup {Head(s)}
         /\ IsInjective(s) => /\ IsInjective(Tail(s))
                              /\ Head(s) \notin Range(Tail(s))
<1>1. /\ Tail(s) \in Seq(S) /\ Len(Tail(s)) = Len(s) - 1
      /\ Len(s) \in Nat \ {0} /\ Head(s) = s[1]
  OBVIOUS
<1>2. \A i \in 1..(Len(s) - 1) : Tail(s)[i] = s[i + 1]
  OBVIOUS
<1>3. DOMAIN s = 1..Len(s) /\ DOMAIN Tail(s) = 1..(Len(s) - 1)
  BY <1>1
<1>4. Range(s) = Range(Tail(s)) \cup {Head(s)}
  <2>1. ASSUME NEW i \in 1..Len(s)
        PROVE  s[i] \in Range(Tail(s)) \cup {Head(s)}
    <3>1. CASE i = 1
      BY <3>1, <1>1
    <3>2. CASE i # 1
      <4>1. i - 1 \in 1..(Len(s) - 1) /\ Tail(s)[i - 1] = s[i]
        BY <3>2, <1>1, <1>2
      <4>. QED
        BY <4>1, <1>3 DEF Range
    <3>. QED
      BY <3>1, <3>2
  <2>2. \A i \in 1..(Len(s) - 1) : i + 1 \in 1..Len(s)
    BY <1>1
  <2>. QED
    BY <2>1, <2>2, <1>1, <1>2, <1>3 DEF Range
<1>5. IsInjective(s) => IsInjective(Tail(s)) /\ Head(s) \notin Range(Tail(s))
  BY <1>1, <1>2, <1>3 DEF Range, IsInjective
<1>. QED
  BY <1>1, <1>4, <1>5 DEF Range

\* The two parts of a sequence cut after its first n elements.
LEMMA SplitElements ==
  ASSUME NEW S, NEW s \in Seq(S), NEW n \in 0..Len(s)
  PROVE  LET front == SubSeq(s, 1, n)
             back  == SubSeq(s, n + 1, Len(s))
         IN  /\ front \in Seq(S) /\ Len(front) = n /\ DOMAIN front = 1..n
             /\ \A i \in 1..n : front[i] = s[i]
             /\ back \in Seq(S) /\ Len(back) = Len(s) - n
             /\ DOMAIN back = 1..(Len(s) - n)
             /\ \A i \in 1..(Len(s) - n) : back[i] = s[n + i]
<1> DEFINE front == SubSeq(s, 1, n)
           back  == SubSeq(s, n + 1, Len(s))
<1>0. Len(s) \in Nat /\ DOMAIN s = 1..Len(s)
  OBVIOUS
<1>00. n + 1 <= Len(s) \/ n = Len(s)
  OBVIOUS
<1>1. /\ front \in Seq(S) /\ Len(front) = n /\ DOMAIN front = 1..n
      /\ \A i \in 1..n : front[i] = s[i]
  BY <1>0
<1>2. /\ back \in Seq(S) /\ Len(back) = Len(s) - n /\ DOMAIN back = 1..(Len(s) - n)
      /\ \A i \in 1..(Len(s) - n) : back[i] = s[n + i]
  <2>1. n + 1 \in Int /\ Len(s) \in Int /\ \A i \in (n + 1)..Len(s) : s[i] \in S
    BY <1>0
  <2>2. /\ back \in Seq(S)
        /\ Len(back) = IF n + 1 <= Len(s) THEN Len(s) - (n + 1) + 1 ELSE 0
        /\ \A i \in 1..(Len(s) - (n + 1) + 1) : back[i] = s[(n + 1) + i - 1]
    BY <2>1, SubSeqProperties
  <2> HIDE DEF back
  <2>3. Len(back) = Len(s) - n
    <3>1. CASE n + 1 <= Len(s)
      BY <3>1, <2>2, <1>0
    <3>2. CASE n = Len(s)
      BY <3>2, <2>2, <1>0
    <3>. QED
      BY <3>1, <3>2, <1>00
  <2>4. ASSUME NEW i \in 1..(Len(s) - n)
        PROVE  back[i] = s[n + i]
    <3>1. i \in 1..(Len(s) - (n + 1) + 1) /\ (n + 1) + i - 1 = n + i
      BY <1>0
    <3>. QED
      BY <3>1, <2>2
  <2>. QED
    BY <2>2, <2>3, <2>4
<1>. QED
  BY <1>1, <1>2 DEF front, back

\* A sequence that is neither empty nor longer than one element.
LEMMA OneElement ==
  ASSUME NEW S, NEW s \in Seq(S), s # <<>>, Len(s) <= 1
  PROVE  Len(s) = 1 /\ s[1] \in S
<1>1. Len(s) \in Nat \ {0}
  BY EmptySeq
<1>2. Len(s) = 1
  BY <1>1
<1>. QED
  BY <1>2, ElementOfSeq

\* Cutting a sequence in two distributes its elements.
LEMMA SplitDistinct ==
  ASSUME NEW S, NEW s \in Seq(S), NEW n \in 0..Len(s)
  PROVE  LET front == SubSeq(s, 1, n)
             back  == SubSeq(s, n + 1, Len(s))
         IN  /\ front \in Seq(S) /\ back \in Seq(S)
             /\ Len(front) = n /\ Len(back) = Len(s) - n
             /\ Range(s) = Range(front) \cup Range(back)
             /\ IsInjective(s) => /\ IsInjective(front) /\ IsInjective(back)
                                  /\ Range(front) \cap Range(back) = {}
<1> DEFINE front == SubSeq(s, 1, n)
           back  == SubSeq(s, n + 1, Len(s))
<1>0. Len(s) \in Nat /\ DOMAIN s = 1..Len(s)
  OBVIOUS
<1>1. /\ front \in Seq(S) /\ Len(front) = n /\ DOMAIN front = 1..n
      /\ \A i \in 1..n : front[i] = s[i]
  BY SplitElements
<1>2. /\ back \in Seq(S) /\ Len(back) = Len(s) - n /\ DOMAIN back = 1..(Len(s) - n)
      /\ \A i \in 1..(Len(s) - n) : back[i] = s[n + i]
  BY SplitElements
<1> HIDE DEF front, back
<1>3. Range(s) \subseteq Range(front) \cup Range(back)
  <2>1. ASSUME NEW i \in 1..Len(s)
        PROVE  s[i] \in Range(front) \cup Range(back)
    <3>1. CASE i <= n
      BY <3>1, <1>1 DEF Range
    <3>2. CASE i > n
      <4>1. i - n \in 1..(Len(s) - n) /\ back[i - n] = s[i]
        BY <3>2, <1>0, <1>2
      <4>. QED
        BY <4>1, <1>2 DEF Range
    <3>. QED
      BY <3>1, <3>2, <1>0
  <2>. QED
    BY <2>1, <1>0 DEF Range
<1>4. Range(front) \subseteq Range(s)
  BY <1>0, <1>1 DEF Range
<1>5. Range(back) \subseteq Range(s)
  <2>1. \A i \in 1..(Len(s) - n) : n + i \in 1..Len(s)
    BY <1>0
  <2>. QED
    BY <2>1, <1>0, <1>2 DEF Range
<1>6. ASSUME IsInjective(s)
      PROVE  IsInjective(front) /\ IsInjective(back) /\ Range(front) \cap Range(back) = {}
  <2>1. IsInjective(front)
    BY <1>6, <1>0, <1>1 DEF IsInjective
  <2>2. \A i \in 1..(Len(s) - n) : n + i \in 1..Len(s)
    BY <1>0
  <2>3. IsInjective(back)
    <3>1. \A i, j \in 1..(Len(s) - n) : back[i] = back[j] => n + i = n + j
      BY <2>2, <1>6, <1>0, <1>2 DEF IsInjective
    <3>. QED
      BY <3>1, <1>0, <1>2 DEF IsInjective
  <2>4. \A i \in 1..n, j \in 1..(Len(s) - n) : front[i] # back[j]
    <3>1. \A i \in 1..n, j \in 1..(Len(s) - n) : i \in 1..Len(s) /\ i # n + j
      BY <1>0
    <3>. QED
      <4>1. SUFFICES ASSUME NEW i \in 1..n, NEW j \in 1..(Len(s) - n)
                     PROVE  s[i] # s[n + j]
        BY <1>1, <1>2, SMTT(30)
      <4>. QED
        BY <3>1, <2>2, <1>6, <1>0 DEF IsInjective
  <2>. QED
    BY <2>1, <2>3, <2>4, <1>1, <1>2 DEF Range
<1>. QED
  BY <1>1, <1>2, <1>3, <1>4, <1>5, <1>6 DEF front, back

\* The places of a concatenation.
LEMMA ConcatElements ==
  ASSUME NEW S, NEW s \in Seq(S), NEW t \in Seq(S)
  PROVE  /\ Len(s) \in Nat /\ DOMAIN s = 1..Len(s)
         /\ Len(s \o t) = Len(s) + Len(t) /\ DOMAIN (s \o t) = 1..(Len(s) + Len(t))
         /\ \A i \in 1..(Len(s) + Len(t)) :
              (s \o t)[i] = IF i <= Len(s) THEN s[i] ELSE t[i - Len(s)]
OBVIOUS

\* Joining two sequences without a common element.
LEMMA ConcatDistinct ==
  ASSUME NEW S, NEW s \in Seq(S), NEW t \in Seq(S)
  PROVE  /\ s \o t \in Seq(S) /\ Len(s \o t) = Len(s) + Len(t)
         /\ Range(s \o t) = Range(s) \cup Range(t)
         /\ IsInjective(s) /\ IsInjective(t) /\ Range(s) \cap Range(t) = {}
              => IsInjective(s \o t)
<1>0. /\ Len(s) \in Nat /\ DOMAIN s = 1..Len(s)
      /\ Len(t) \in Nat /\ DOMAIN t = 1..Len(t)
  OBVIOUS
<1>1. /\ s \o t \in Seq(S) /\ Len(s \o t) = Len(s) + Len(t)
      /\ DOMAIN (s \o t) = 1..(Len(s) + Len(t))
  OBVIOUS
<1>2. \A i \in 1..(Len(s) + Len(t)) :
         (s \o t)[i] = IF i <= Len(s) THEN s[i] ELSE t[i - Len(s)]
  OBVIOUS
<1> DEFINE st == s \o t
<1> HIDE DEF st
<1>3. \A i \in 1..Len(s) : i \in DOMAIN st /\ st[i] = s[i]
  BY <1>0, <1>1, <1>2 DEF st
<1>4. \A i \in 1..Len(t) : Len(s) + i \in DOMAIN st /\ st[Len(s) + i] = t[i]
  BY <1>0, <1>1, <1>2 DEF st
<1>5. \A i \in DOMAIN st :
         \/ i \in 1..Len(s)
         \/ i - Len(s) \in 1..Len(t) /\ Len(s) + (i - Len(s)) = i
  BY <1>0, <1>1 DEF st
<1>6. Range(st) = Range(s) \cup Range(t)
  BY <1>0, <1>3, <1>4, <1>5 DEF Range
<1>7. ASSUME IsInjective(s), IsInjective(t), Range(s) \cap Range(t) = {}
      PROVE  IsInjective(st)
  <2>1. \A i \in 1..Len(s), j \in 1..Len(t) : s[i] # t[j]
    BY <1>7, <1>0 DEF Range
  <2>2. SUFFICES ASSUME NEW a \in DOMAIN st, NEW b \in DOMAIN st, st[a] = st[b]
                 PROVE  a = b
    BY DEF IsInjective
  <2>3. CASE a \in 1..Len(s) /\ b \in 1..Len(s)
    BY <2>2, <2>3, <1>0, <1>3, <1>7 DEF IsInjective
  <2>4. CASE a \in 1..Len(s) /\ b \notin 1..Len(s)
    BY <2>1, <2>2, <2>4, <1>3, <1>4, <1>5
  <2>5. CASE a \notin 1..Len(s) /\ b \in 1..Len(s)
    BY <2>1, <2>2, <2>5, <1>3, <1>4, <1>5
  <2>6. CASE a \notin 1..Len(s) /\ b \notin 1..Len(s)
    <3>1. t[a - Len(s)] = t[b - Len(s)]
      BY <2>2, <2>6, <1>4, <1>5
    <3>2. a - Len(s) = b - Len(s)
      BY <3>1, <2>6, <1>0, <1>5, <1>7 DEF IsInjective
    <3>. QED
      BY <3>2, <1>0, <1>1 DEF st
  <2>. QED
    BY <2>3, <2>4, <2>5, <2>6
<1>. QED
  BY <1>1, <1>6, <1>7 DEF st

\* A sequence without elements is empty.
LEMMA EmptyRange ==
  ASSUME NEW S, NEW s \in Seq(S), Range(s) = {}
  PROVE  s = <<>>
<1>1. SUFFICES ASSUME s # <<>> PROVE FALSE
  OBVIOUS
<1>2. Head(s) \in Range(s)
  BY <1>1, TailDistinct
<1>. QED
  BY <1>2

\* A duplicate-free sequence has as many elements as positions.
LEMMA LengthIsCardinality ==
  ASSUME NEW S, NEW s \in Seq(S), IsInjective(s)
  PROVE  IsFiniteSet(Range(s)) /\ Cardinality(Range(s)) = Len(s)
<1>1. Len(s) \in Nat /\ DOMAIN s = 1..Len(s)
  OBVIOUS
<1>2. IsFiniteSet(1..Len(s)) /\ Cardinality(1..Len(s)) = Len(s)
  BY <1>1, FS_Interval, SMTT(30)
<1>3. s \in Bijection(1..Len(s), Range(s))
  BY <1>1 DEF Bijection, Injection, Surjection, IsInjective, Range
<1>4. ExistsBijection(1..Len(s), Range(s))
  BY <1>3 DEF ExistsBijection
<1>. QED
  BY <1>2, <1>4, FS_Bijection
-----------------------------------------------------------------------------
(* Sequences that follow an order R, given as a set of pairs *)

SortedBy(R, s) == \A i, j \in DOMAIN s : i < j => <<s[i], s[j]>> \in R

\* An element that follows all others goes to the end.
LEMMA SortedAppend ==
  ASSUME NEW S, NEW R, NEW s \in Seq(S), NEW e \in S, SortedBy(R, s),
         \A x \in Range(s) : <<x, e>> \in R
  PROVE  SortedBy(R, Append(s, e))
<1>1. /\ Len(s) \in Nat /\ DOMAIN s = 1..Len(s) /\ DOMAIN Append(s, e) = 1..(Len(s) + 1)
      /\ \A i \in 1..Len(s) : Append(s, e)[i] = s[i]
      /\ Append(s, e)[Len(s) + 1] = e
  OBVIOUS
<1>2. \A i \in 1..Len(s) : <<s[i], e>> \in R
  BY <1>1 DEF Range
<1>. QED
  BY <1>1, <1>2 DEF SortedBy

\* The head precedes the rest, which is in order.
LEMMA SortedTail ==
  ASSUME NEW S, NEW R, NEW s \in Seq(S), s # <<>>, SortedBy(R, s)
  PROVE  SortedBy(R, Tail(s)) /\ \A x \in Range(Tail(s)) : <<Head(s), x>> \in R
<1>1. /\ Len(s) \in Nat \ {0} /\ DOMAIN s = 1..Len(s) /\ Head(s) = s[1]
      /\ DOMAIN Tail(s) = 1..(Len(s) - 1)
      /\ \A i \in 1..(Len(s) - 1) : Tail(s)[i] = s[i + 1]
  OBVIOUS
<1>2. \A i \in 1..(Len(s) - 1) : i + 1 \in DOMAIN s /\ 1 \in DOMAIN s /\ 1 < i + 1
  BY <1>1
<1>3. \A i, j \in 1..(Len(s) - 1) : i < j => i + 1 < j + 1
  BY <1>1
<1>4. \A i \in 1..(Len(s) - 1) : <<s[1], s[i + 1]>> \in R
  BY <1>2 DEF SortedBy
<1>5. \A i, j \in 1..(Len(s) - 1) : i < j => <<s[i + 1], s[j + 1]>> \in R
  BY <1>2, <1>3 DEF SortedBy
<1>6. SortedBy(R, Tail(s))
  BY <1>1, <1>5 DEF SortedBy
<1>. QED
  BY <1>1, <1>4, <1>6 DEF Range

\* Both parts of a cut are in order, and the first precedes the second.
LEMMA SortedSplit ==
  ASSUME NEW S, NEW R, NEW s \in Seq(S), NEW n \in 0..Len(s), SortedBy(R, s)
  PROVE  LET front == SubSeq(s, 1, n)
             back  == SubSeq(s, n + 1, Len(s))
         IN  /\ SortedBy(R, front) /\ SortedBy(R, back)
             /\ \A x \in Range(front), y \in Range(back) : <<x, y>> \in R
<1> DEFINE front == SubSeq(s, 1, n)
           back  == SubSeq(s, n + 1, Len(s))
<1>1. /\ Len(s) \in Nat /\ DOMAIN s = 1..Len(s)
      /\ DOMAIN front = 1..n /\ \A i \in 1..n : front[i] = s[i]
      /\ DOMAIN back = 1..(Len(s) - n) /\ \A i \in 1..(Len(s) - n) : back[i] = s[n + i]
  BY SplitElements
<1> HIDE DEF front, back
<1>2. \A i \in 1..n : i \in DOMAIN s
  BY <1>1
<1>3. \A j \in 1..(Len(s) - n) : n + j \in DOMAIN s /\ \A i \in 1..n : i < n + j
  BY <1>1
<1>4. \A i, j \in 1..(Len(s) - n) : i < j => n + i < n + j
  BY <1>1
<1>5. SortedBy(R, front)
  BY <1>1, <1>2 DEF SortedBy
<1>6. SortedBy(R, back)
  BY <1>1, <1>3, <1>4 DEF SortedBy
<1>7. \A i \in 1..n, j \in 1..(Len(s) - n) : <<s[i], s[n + j]>> \in R
  BY <1>2, <1>3 DEF SortedBy
<1>8. \A x \in Range(front), y \in Range(back) : <<x, y>> \in R
  BY <1>1, <1>7, ZenonT(30) DEF Range
<1>. QED
  BY <1>5, <1>6, <1>8 DEF front, back

\* Sequences one of which precedes the other are joined in order.
LEMMA SortedConcat ==
  ASSUME NEW S, NEW R, NEW s \in Seq(S), NEW t \in Seq(S), SortedBy(R, s), SortedBy(R, t),
         \A x \in Range(s), y \in Range(t) : <<x, y>> \in R
  PROVE  SortedBy(R, s \o t)
<1> DEFINE st == s \o t
<1>1. /\ Len(s) \in Nat /\ DOMAIN s = 1..Len(s) /\ Len(t) \in Nat /\ DOMAIN t = 1..Len(t)
      /\ DOMAIN st = 1..(Len(s) + Len(t))
      /\ \A i \in 1..(Len(s) + Len(t)) :
           st[i] = IF i <= Len(s) THEN s[i] ELSE t[i - Len(s)]
  OBVIOUS
<1> HIDE DEF st
<1>2. ASSUME NEW i \in DOMAIN st
      PROVE  \/ i \in DOMAIN s /\ st[i] = s[i]
             \/ i - Len(s) \in DOMAIN t /\ st[i] = t[i - Len(s)] /\ i \notin DOMAIN s
  <2>1. i \in 1..(Len(s) + Len(t))
    BY <1>1, <1>2
  <2>2. CASE i <= Len(s)
    BY <1>1, <2>1, <2>2
  <2>3. CASE ~(i <= Len(s))
    <3>1. i - Len(s) \in 1..Len(t) /\ i \notin 1..Len(s) /\ st[i] = t[i - Len(s)]
      BY <1>1, <2>1, <2>3
    <3>. QED
      BY <1>1, <3>1
  <2>. QED
    BY <2>2, <2>3
<1>3. SUFFICES ASSUME NEW i \in DOMAIN st, NEW j \in DOMAIN st, i < j
               PROVE  <<st[i], st[j]>> \in R
  BY DEF SortedBy, st
<1>4. CASE j \in DOMAIN s
  <2>1. i \in DOMAIN s
    BY <1>1, <1>3, <1>4
  <2>. QED
    BY <1>2, <1>3, <1>4, <2>1, <1>1 DEF SortedBy
<1>5. CASE i \in DOMAIN s /\ j \notin DOMAIN s
  <2>1. st[i] \in Range(s) /\ st[j] \in Range(t)
    BY <1>1, <1>2, <1>5 DEF Range
  <2>. QED
    BY <2>1
<1>6. CASE i \notin DOMAIN s /\ j \notin DOMAIN s
  <2>1. i - Len(s) < j - Len(s)
    BY <1>1, <1>3
  <2>. QED
    BY <1>2, <1>6, <2>1 DEF SortedBy
<1>. QED
  BY <1>4, <1>5, <1>6, <1>1, <1>3

-----------------------------------------------------------------------------
(* The places of the elements of a kind *)

Among(s, T) == {i \in DOMAIN s : s[i] \in T}

\* An element more is a place more, if it is of the kind.
LEMMA CountAppend ==
  ASSUME NEW S, NEW s \in Seq(S), NEW x \in S, NEW T
  PROVE  /\ Cardinality(Among(s, T)) \in Nat
         /\ Cardinality(Among(Append(s, x), T)) =
              Cardinality(Among(s, T)) + (IF x \in T THEN 1 ELSE 0)
<1> DEFINE here == Among(s, T)
           more == Among(Append(s, x), T)
           n == Len(s) + 1
<1>1. /\ Len(s) \in Nat /\ DOMAIN s = 1..Len(s) /\ DOMAIN Append(s, x) = 1..n
      /\ \A i \in 1..Len(s) : Append(s, x)[i] = s[i]
      /\ Append(s, x)[n] = x
  OBVIOUS
<1>2. IsFiniteSet(here) /\ Cardinality(here) \in Nat
  <2>1. here \subseteq 1..Len(s) /\ IsFiniteSet(1..Len(s))
    BY <1>1, FS_Interval DEF Among
  <2> QED BY <2>1, FS_Subset, FS_CardinalityType
<1>3. n \notin here
  BY <1>1 DEF Among
<1>4. more = IF x \in T THEN here \cup {n} ELSE here
  BY <1>1 DEF Among
<1> HIDE DEF here, more, n
<1>5. Cardinality(here \cup {n}) = Cardinality(here) + 1
  BY <1>2, <1>3, FS_AddElement
<1>6. Cardinality(more) = Cardinality(here) + (IF x \in T THEN 1 ELSE 0)
  BY <1>2, <1>4, <1>5
<1> QED BY <1>2, <1>6 DEF here, more
-----------------------------------------------------------------------------
(* Induction.  The library's rules take the predicate as an operator, which *)
(* the provers cannot instantiate; its theorem that a well-founded relation *)
(* has minimal elements takes sets, and from it induction over the set of  *)
(* what has been shown follows.                                            *)

\* Every nonempty set of naturals has a least element.
LEMMA LeastNat ==
  ASSUME NEW T \in SUBSET Nat, T # {}
  PROVE \E x \in T : \A y \in T : x <= y
<1> DEFINE R == {ss \in Nat \X Nat : ss[1] < ss[2]}
<1>0. IsWellFoundedOn(R, Nat)
  <2>1. R = OpToRel(<, Nat)
    BY Zenon DEF OpToRel
  <2> QED BY <2>1, NatLessThanWellFounded, Zenon
<1>2. \A x, y \in Nat : y < x => <<y, x>> \in R
  OBVIOUS
<1> HIDE DEF R
<1>1. \E x \in T : \A y \in T : ~ (<<y, x>> \in R)
  BY WFMin, <1>0
<1>3. PICK x \in T : \A y \in T : ~ (<<y, x>> \in R)
  BY <1>1
<1>4. \A y \in T : x \in Nat /\ y \in Nat /\ ~(y < x)
  BY <1>2, <1>3
<1>5. \A y \in T : x <= y
  BY <1>4
<1> QED BY <1>5

\* Induction up to a bound, with the set of which it holds as a parameter.
LEMMA Induction ==
  ASSUME NEW n \in Nat, NEW A, 0 \in A, \A k \in 0..(n - 1) : k \in A => k + 1 \in A
  PROVE  \A k \in 0..n : k \in A
<1> DEFINE T == {k \in 0..n : k \notin A}
<1>1. SUFFICES ASSUME T # {} PROVE FALSE
  OBVIOUS
<1>2. T \in SUBSET Nat
  OBVIOUS
<1>3. PICK x \in T : \A y \in T : x <= y
  <2> HIDE DEF T
  <2> QED BY <1>1, <1>2, LeastNat
<1>4. x \in 0..n /\ x \notin A /\ x # 0
  OBVIOUS
<1>5. x - 1 \in 0..(n - 1) /\ x - 1 + 1 = x /\ x - 1 \in 0..n
  BY <1>4
<1>6. x - 1 \notin T
  BY <1>3, <1>4
<1>7. x - 1 \in A
  BY <1>5, <1>6
<1> QED BY <1>4, <1>5, <1>7

-----------------------------------------------------------------------------
(* Sums.  SumFunction adds the elements in an order it does not say; these  *)
(* facts hold whatever the order.                                          *)

\* Induction over the subsets of a finite set, with the set of those for which
\* it holds as a parameter.
LEMMA SubsetInduction ==
  ASSUME NEW S, IsFiniteSet(S), NEW A, {} \in A,
         \A T \in SUBSET S : \A x \in S \ T : T \in A => T \cup {x} \in A
  PROVE  \A T \in SUBSET S : T \in A
<1> DEFINE n == Cardinality(S)
           B == {k \in 0..n : \A T \in SUBSET S : Cardinality(T) = k => T \in A}
<1>1. n \in Nat /\ \A T \in SUBSET S : IsFiniteSet(T) /\ Cardinality(T) \in 0..n
  <2>1. \A T \in SUBSET S : IsFiniteSet(T) /\ Cardinality(T) <= n
    BY FS_Subset
  <2> QED BY <2>1, FS_CardinalityType
<1>2. 0 \in B
  <2>1. \A T \in SUBSET S : Cardinality(T) = 0 => T = {}
    BY <1>1, FS_EmptySet
  <2>2. 0 \in 0..n
    BY <1>1
  <2>3. \A T \in SUBSET S : Cardinality(T) = 0 => T \in A
    BY <2>1
  <2> HIDE DEF n
  <2> QED BY <2>2, <2>3
<1>3. ASSUME NEW k \in 0..(n - 1), k \in B
      PROVE  k + 1 \in B
  <2>1. k + 1 \in 0..n /\ k + 1 # 0
    BY <1>1
  <2>2. ASSUME NEW T \in SUBSET S, Cardinality(T) = k + 1
        PROVE  T \in A
    <3>1. T # {}
      BY <2>1, <2>2, FS_EmptySet
    <3>2. PICK x \in T : TRUE
      BY <3>1
    <3>3. Cardinality(T \ {x}) = k
      <4>1. Cardinality(T \ {x}) = Cardinality(T) - 1
        BY <1>1, FS_RemoveElement
      <4> QED BY <2>2, <4>1
    <3>4. T \ {x} \in SUBSET S /\ T \ {x} \in A
      BY <1>3, <3>3
    <3>5. x \in S \ (T \ {x}) /\ (T \ {x}) \cup {x} = T
      OBVIOUS
    <3> QED BY <3>4, <3>5
  <2> QED BY <2>1, <2>2
<1>4. \A k \in 0..n : k \in B
  <2> HIDE DEF B, n
  <2> QED BY <1>1, <1>2, <1>3, Induction
<1> QED BY <1>1, <1>4

\* The recursion by which a sum is defined, an element per step.
Recursion(sum, f, S) ==
  /\ SumFunctionOnSet(f, S) = sum[S] /\ sum[{}] = 0
  /\ \A T \in SUBSET S : T # {} => \E x \in T : sum[T] = f[x] + sum[T \ {x}]

LEMMA SumSteps ==
  ASSUME NEW S, IsFiniteSet(S), NEW f
  PROVE  \E sum : Recursion(sum, f, S)
<1> DEFINE pick(T) == CHOOSE x \in T : TRUE
           Step(g, T) == IF T = {} THEN 0 ELSE f[pick(T)] + g[T \ {pick(T)}]
           sum == CHOOSE g : g = [T \in SUBSET S |-> Step(g, T)]
           n == Cardinality(S)
           Small(k) == {T \in SUBSET S : Cardinality(T) <= k}
           A == {k \in 0..n : \E g : g = [T \in Small(k) |-> Step(g, T)]}
<1>1. SumFunctionOnSet(f, S) = sum[S]
  BY DEF SumFunctionOnSet, FoldFunctionOnSet, MapThenFoldSet
<1>2. /\ n \in Nat
      /\ \A T \in SUBSET S : IsFiniteSet(T) /\ Cardinality(T) \in 0..n
  <2>1. \A T \in SUBSET S : IsFiniteSet(T) /\ Cardinality(T) <= n
    BY FS_Subset
  <2> QED BY <2>1, FS_CardinalityType
<1>3. \A T \in SUBSET S : T # {} =>
        /\ pick(T) \in T /\ T \ {pick(T)} \in SUBSET S
        /\ Cardinality(T) \in Nat /\ Cardinality(T \ {pick(T)}) = Cardinality(T) - 1
  <2>1. \A T \in SUBSET S : T # {} => pick(T) \in T
    OBVIOUS
  <2> HIDE DEF pick
  <2> QED BY <1>2, <2>1, FS_RemoveElement
<1> HIDE DEF pick
<1>4. 0 \in A
  <2> DEFINE g == [T \in Small(0) |-> 0]
  <2>1. \A T \in Small(0) : T = {}
    BY <1>2, FS_EmptySet
  <2>2. \A T \in Small(0) : Step(g, T) = 0
    BY <2>1
  <2>3. g = [T \in Small(0) |-> Step(g, T)]
    <3> HIDE DEF Step, Small
    <3> QED BY <2>2
  <2> HIDE DEF g, Step, Small
  <2> QED BY <1>2, <2>3
<1>5. ASSUME NEW k \in 0..(n - 1), k \in A
      PROVE  k + 1 \in A
  <2>1. PICK g : g = [T \in Small(k) |-> Step(g, T)]
    BY <1>5
  <2> DEFINE h == [T \in Small(k + 1) |-> IF T \in Small(k) THEN g[T] ELSE Step(g, T)]
  <2>2. k \in Nat /\ k + 1 \in 0..n
    BY <1>2
  <2>3. \A T \in Small(k + 1) : T # {} => T \ {pick(T)} \in Small(k)
    BY <1>3, <2>2
  <2>4. Small(k) \subseteq Small(k + 1)
    BY <1>2, <2>2
  <2>5. \A T \in Small(k) : g[T] = Step(g, T)
    <3> HIDE DEF Step, Small
    <3> QED BY <2>1
  <2>6. \A T \in Small(k + 1) : h[T] = Step(g, T)
    <3> HIDE DEF Step, Small
    <3> QED BY <2>5
  <2>7. \A T \in Small(k + 1) : Step(h, T) = Step(g, T)
    <3> HIDE DEF Small
    <3>1. \A T \in Small(k) : h[T] = g[T]
      BY <2>4
    <3> HIDE DEF h
    <3> QED BY <2>3, <3>1
  <2>8. h = [T \in Small(k + 1) |-> Step(h, T)]
    <3>1. h = [T \in Small(k + 1) |-> h[T]]
      <4> HIDE DEF Step, Small
      <4> QED OBVIOUS
    <3> HIDE DEF Step, Small, h
    <3>2. \A T \in Small(k + 1) : h[T] = Step(h, T)
      BY <2>6, <2>7
    <3> QED BY <3>1, <3>2
  <2> HIDE DEF Step, Small, h
  <2> QED BY <2>2, <2>8
<1>6. \E g : g = [T \in SUBSET S |-> Step(g, T)]
  <2>1. \A k \in 0..n : k \in A
    <3> HIDE DEF A
    <3> QED BY <1>2, <1>4, <1>5, Induction
  <2>2. n \in A
    BY <1>2, <2>1
  <2>3. Small(n) = SUBSET S
    BY <1>2
  <2> HIDE DEF Step, Small
  <2> QED BY <2>2, <2>3
<1>7. sum = [T \in SUBSET S |-> Step(sum, T)]
  <2> HIDE DEF Step
  <2> QED BY <1>6
<1> HIDE DEF sum
<1>8. \A T \in SUBSET S : sum[T] = Step(sum, T)
  <2> HIDE DEF Step
  <2> QED BY <1>7
<1>9. sum[{}] = 0
  BY <1>8
<1>10. \A T \in SUBSET S : T # {} => \E x \in T : sum[T] = f[x] + sum[T \ {x}]
  BY <1>3, <1>8
<1> QED BY <1>1, <1>9, <1>10 DEF Recursion

\* A sum of naturals, and each of its parts: an element more adds its value.
Adds(sum, f, S) ==
  /\ SumFunctionOnSet(f, S) = sum[S] /\ sum[{}] = 0
  /\ \A T \in SUBSET S : sum[T] \in Nat
  /\ \A T \in SUBSET S : \A x \in T : sum[T] = f[x] + sum[T \ {x}]

LEMMA Sums ==
  ASSUME NEW S, IsFiniteSet(S), NEW f \in [S -> Nat]
  PROVE  \E sum : Adds(sum, f, S)
<1>0. PICK sum : Recursion(sum, f, S)
  BY SumSteps
<1>1. /\ SumFunctionOnSet(f, S) = sum[S] /\ sum[{}] = 0
      /\ \A T \in SUBSET S : T # {} => \E x \in T : sum[T] = f[x] + sum[T \ {x}]
  BY <1>0 DEF Recursion
<1> DEFINE n == Cardinality(S)
           Good(T) == /\ sum[T] \in Nat
                      /\ \A x \in T : sum[T] = f[x] + sum[T \ {x}]
           A == {k \in 0..n : \A T \in SUBSET S : Cardinality(T) <= k => Good(T)}
<1>2. /\ n \in Nat
      /\ \A T \in SUBSET S : IsFiniteSet(T) /\ Cardinality(T) \in 0..n
  <2>1. \A T \in SUBSET S : IsFiniteSet(T) /\ Cardinality(T) <= n
    BY FS_Subset
  <2> QED BY <2>1, FS_CardinalityType
<1>3. 0 \in A
  <2>1. \A T \in SUBSET S : Cardinality(T) <= 0 => T = {}
    BY <1>2, FS_EmptySet
  <2>2. Good({})
    BY <1>1
  <2>3. 0 \in 0..n
    BY <1>2
  <2> HIDE DEF Good, n
  <2> QED BY <2>1, <2>2, <2>3
<1>4. ASSUME NEW k \in 0..(n - 1), k \in A
      PROVE  k + 1 \in A
  <2>1. k + 1 \in 0..n /\ k \in Nat /\ k + 1 # 0
    BY <1>2
  <2>2. ASSUME NEW T \in SUBSET S, Cardinality(T) = k + 1
        PROVE  Good(T)
    <3>1. T # {}
      BY <2>1, <2>2, FS_EmptySet
    <3>2. PICK y \in T : sum[T] = f[y] + sum[T \ {y}]
      BY <1>1, <3>1
    <3>3. ASSUME NEW x \in T
          PROVE  /\ T \ {x} \in SUBSET S /\ Cardinality(T \ {x}) = k
                 /\ f[x] \in Nat
      <4>1. Cardinality(T \ {x}) = Cardinality(T) - 1
        BY <1>2, FS_RemoveElement
      <4> QED BY <2>1, <2>2, <4>1
    <3>4. \A x \in T : Good(T \ {x})
      <4> HIDE DEF Good
      <4> QED BY <1>4, <3>3
    <3>5. \A x \in T : f[x] \in Nat /\ sum[T \ {x}] \in Nat
      BY <3>3, <3>4
    <3>6. sum[T] \in Nat
      <4>1. f[y] \in Nat /\ sum[T \ {y}] \in Nat
        BY <3>5
      <4> DEFINE rest == T \ {y}
      <4> HIDE DEF rest
      <4> QED BY <3>2, <4>1 DEF rest
    <3>7. ASSUME NEW x \in T
          PROVE  sum[T] = f[x] + sum[T \ {x}]
      <4>1. CASE x = y
        BY <3>2, <4>1
      <4>2. CASE x # y
        <5> DEFINE rest == (T \ {x}) \ {y}
        <5>1. rest = (T \ {y}) \ {x} /\ x \in T \ {y} /\ y \in T \ {x}
          BY <4>2
        <5>2. sum[T \ {y}] = f[x] + sum[(T \ {y}) \ {x}]
          BY <3>4, <5>1
        <5>3. sum[T \ {x}] = f[y] + sum[(T \ {x}) \ {y}]
          BY <3>4, <5>1
        <5>4. rest \in SUBSET S /\ Cardinality(rest) <= k
          <6>1. T \ {x} \in SUBSET S /\ Cardinality(T \ {x}) <= k
            BY <3>3
          <6>2. Cardinality(rest) <= Cardinality(T \ {x})
            BY <1>2, <6>1, FS_Subset
          <6> QED BY <1>2, <2>1, <6>1, <6>2
        <5>5. sum[rest] \in Nat
          BY <1>4, <5>4
        <5>6. f[x] \in Nat /\ f[y] \in Nat
          BY <3>5
        <5> DEFINE a == sum[T \ {x}]
                   b == sum[T \ {y}]
                   c == sum[rest]
        <5>7. /\ a = f[y] + c /\ b = f[x] + c /\ c \in Nat /\ sum[T] = f[y] + b
          BY <3>2, <5>1, <5>2, <5>3, <5>5
        <5> HIDE DEF a, b, c
        <5>8. sum[T] = f[x] + a
          BY <5>6, <5>7
        <5> QED BY <5>8 DEF a
      <4> QED BY <4>1, <4>2
    <3> QED BY <3>6, <3>7
  <2>3. \A T \in SUBSET S : Cardinality(T) <= k + 1 => Cardinality(T) <= k \/ Cardinality(T) = k + 1
    BY <1>2, <2>1
  <2> HIDE DEF Good
  <2> QED BY <1>4, <2>1, <2>2, <2>3
<1>5. \A k \in 0..n : k \in A
  <2> HIDE DEF A, n
  <2> QED BY <1>2, <1>3, <1>4, Induction
<1>6. \A T \in SUBSET S : Good(T)
  <2> HIDE DEF Good
  <2> QED BY <1>2, <1>5
<1> QED BY <1>1, <1>6 DEF Adds

\* The sum of a function of naturals is a natural, at least each of its values.
LEMMA SumNat ==
  ASSUME NEW S, IsFiniteSet(S), NEW f \in [S -> Nat]
  PROVE  /\ SumFunction(f) \in Nat
         /\ \A x \in S : f[x] <= SumFunction(f)
<1>1. PICK sum : Adds(sum, f, S)
  BY Sums
<1>2. SumFunction(f) = sum[S] /\ sum[S] \in Nat
  BY <1>1 DEF Adds, SumFunction
<1>3. ASSUME NEW x \in S
      PROVE  f[x] <= sum[S]
  <2>1. f[x] \in Nat /\ sum[S \ {x}] \in Nat /\ sum[S] = f[x] + sum[S \ {x}]
    BY <1>1 DEF Adds
  <2> QED BY <2>1
<1> QED BY <1>2, <1>3

\* Nothing adds up to nothing.
LEMMA SumZero ==
  ASSUME NEW S, IsFiniteSet(S)
  PROVE  SumFunction([x \in S |-> 0]) = 0
<1> DEFINE f == [x \in S |-> 0]
<1>1. f \in [S -> Nat] /\ DOMAIN f = S /\ \A x \in S : f[x] = 0
  OBVIOUS
<1> HIDE DEF f
<1>2. PICK sum : Adds(sum, f, S)
  BY <1>1, Sums
<1> DEFINE A == {T \in SUBSET S : sum[T] = 0}
<1>3. \A T \in SUBSET S : \A x \in S \ T : T \in A => T \cup {x} \in A
  <2> TAKE T \in SUBSET S
  <2> TAKE x \in S \ T
  <2>1. T \cup {x} \in SUBSET S /\ x \in T \cup {x} /\ (T \cup {x}) \ {x} = T
    OBVIOUS
  <2>2. sum[T \cup {x}] = f[x] + sum[(T \cup {x}) \ {x}]
    BY <1>2, <2>1 DEF Adds
  <2> QED BY <1>1, <2>1, <2>2
<1>4. {} \in A
  BY <1>2 DEF Adds
<1>5. S \in A
  <2> HIDE DEF A
  <2> QED BY <1>3, <1>4, SubsetInduction
<1>6. SumFunction(f) = sum[S]
  BY <1>1, <1>2 DEF Adds, SumFunction
<1> QED BY <1>5, <1>6 DEF f

\* Smaller values, smaller sum.
LEMMA SumSmaller ==
  ASSUME NEW S, IsFiniteSet(S), NEW f \in [S -> Nat], NEW g \in [S -> Nat],
         \A x \in S : f[x] <= g[x]
  PROVE  SumFunction(f) <= SumFunction(g)
<1>1. PICK sf : Adds(sf, f, S)
  BY Sums
<1>2. PICK sg : Adds(sg, g, S)
  BY Sums
<1> DEFINE A == {T \in SUBSET S : sf[T] <= sg[T]}
<1>3. \A T \in SUBSET S : \A x \in S \ T : T \in A => T \cup {x} \in A
  <2> SUFFICES ASSUME NEW T \in SUBSET S, NEW x \in S \ T, T \in A
               PROVE  T \cup {x} \in A
    OBVIOUS
  <2> DEFINE U == T \cup {x}
  <2>1. U \in SUBSET S /\ x \in U /\ U \ {x} = T
    OBVIOUS
  <2>0. T \in SUBSET S
    OBVIOUS
  <2> HIDE DEF U
  <2>2. sf[U] = f[x] + sf[T] /\ sf[T] \in Nat
    BY <1>1, <2>0, <2>1 DEF Adds
  <2>3. sg[U] = g[x] + sg[T] /\ sg[T] \in Nat
    BY <1>2, <2>0, <2>1 DEF Adds
  <2>4. f[x] \in Nat /\ g[x] \in Nat /\ f[x] <= g[x] /\ sf[T] <= sg[T]
    OBVIOUS
  <2>5. sf[U] <= sg[U]
    BY <2>2, <2>3, <2>4
  <2> QED BY <2>1, <2>5 DEF U
<1>4. {} \in A
  BY <1>1, <1>2 DEF Adds
<1>5. S \in A
  <2> HIDE DEF A
  <2> QED BY <1>3, <1>4, SubsetInduction
<1>6. SumFunction(f) = sf[S] /\ SumFunction(g) = sg[S]
  BY <1>1, <1>2 DEF Adds, SumFunction
<1> QED BY <1>5, <1>6

\* When one value changes the sum changes by as much.
LEMMA SumChange ==
  ASSUME NEW S, IsFiniteSet(S), NEW f \in [S -> Nat], NEW g \in [S -> Nat],
         NEW a \in S, \A x \in S \ {a} : g[x] = f[x]
  PROVE  SumFunction(g) + f[a] = SumFunction(f) + g[a]
<1>1. PICK sf : Adds(sf, f, S)
  BY Sums
<1>2. PICK sg : Adds(sg, g, S)
  BY Sums
<1> DEFINE A == {T \in SUBSET (S \ {a}) : sf[T] = sg[T]}
<1>3. \A T \in SUBSET (S \ {a}) : \A x \in (S \ {a}) \ T : T \in A => T \cup {x} \in A
  <2> SUFFICES ASSUME NEW T \in SUBSET (S \ {a}), NEW x \in (S \ {a}) \ T, T \in A
               PROVE  T \cup {x} \in A
    OBVIOUS
  <2> DEFINE U == T \cup {x}
  <2>1. U \in SUBSET (S \ {a}) /\ U \in SUBSET S /\ x \in U /\ U \ {x} = T
    OBVIOUS
  <2>0. T \in SUBSET S
    OBVIOUS
  <2> HIDE DEF U
  <2>2. sf[U] = f[x] + sf[T]
    BY <1>1, <2>0, <2>1 DEF Adds
  <2>3. sg[U] = g[x] + sg[T]
    BY <1>2, <2>0, <2>1 DEF Adds
  <2>4. sf[U] = sg[U]
    BY <2>2, <2>3
  <2> QED BY <2>1, <2>4 DEF U
<1>4. {} \in A
  BY <1>1, <1>2 DEF Adds
<1>5. S \ {a} \in A
  <2>1. IsFiniteSet(S \ {a})
    BY FS_RemoveElement
  <2> DEFINE R == S \ {a}
  <2>2. \A T \in SUBSET R : T \in A
    <3> HIDE DEF A, R
    <3>1. IsFiniteSet(R) /\ {} \in A /\ \A T \in SUBSET R : \A x \in R \ T : T \in A => T \cup {x} \in A
      BY <1>3, <1>4, <2>1 DEF R
    <3> QED BY <3>1, SubsetInduction
  <2> HIDE DEF A
  <2> QED BY <2>2
<1> DEFINE R == S \ {a}
<1>6. /\ SumFunction(f) = sf[S] /\ SumFunction(g) = sg[S] /\ sf[R] = sg[R]
  BY <1>1, <1>2, <1>5 DEF Adds, SumFunction
<1>7. sf[S] = f[a] + sf[R] /\ sf[R] \in Nat
  BY <1>1 DEF Adds
<1>8. sg[S] = g[a] + sg[R]
  BY <1>2 DEF Adds
<1>9. f[a] \in Nat /\ g[a] \in Nat
  OBVIOUS
<1> HIDE DEF R
<1> QED BY <1>6, <1>7, <1>8, <1>9

\* Taking the first element off takes its value off the sum.
LEMMA SumTail ==
  ASSUME NEW n \in Nat \ {0}, NEW f \in [1..n -> Nat], NEW g \in [1..(n - 1) -> Nat],
         \A i \in 1..(n - 1) : g[i] = f[i + 1]
  PROVE  SumFunction(f) = f[1] + SumFunction(g)
<1> DEFINE S == 1..n
           R == 1..(n - 1)
<1>0. IsFiniteSet(S) /\ IsFiniteSet(R) /\ n \in Nat /\ n - 1 \in Nat
  BY FS_Interval
<1>01. ASSUME NEW j \in Nat
       PROVE  (1..(j + 1)) \ {j + 1} = 1..j
  OBVIOUS
<1>1. PICK sf : Adds(sf, f, S)
  BY <1>0, Sums
<1>2. PICK sg : Adds(sg, g, R)
  BY <1>0, Sums
<1> DEFINE A == {k \in 0..(n - 1) : sf[1..(k + 1)] = f[1] + sg[1..k]}
<1>3. 0 \in A
  <2>1. 1..1 \in SUBSET S /\ 1 \in 1..1 /\ (1..1) \ {1} = {} /\ 1..0 = {} /\ 0 \in 0..(n - 1)
    BY <1>0
  <2> DEFINE U == 1..1
             V == 1..0
  <2>2. U \in SUBSET S /\ 1 \in U /\ U \ {1} = {} /\ V = {}
    BY <2>1
  <2> HIDE DEF U, V, S
  <2>3. sf[U] = f[1] + sf[{}] /\ sf[{}] = 0 /\ sg[V] = 0
    BY <1>1, <1>2, <2>2 DEF Adds
  <2>4. sf[U] = f[1] + sg[V]
    BY <2>3
  <2> QED BY <2>1, <2>4 DEF U, V
<1>4. ASSUME NEW k \in 0..((n - 1) - 1), k \in A
      PROVE  k + 1 \in A
  <2> DEFINE U == 1..((k + 1) + 1)
             U0 == 1..(k + 1)
             a == (k + 1) + 1
             b == k + 1
             V0 == 1..k
  <2>1. /\ k \in Nat /\ b \in 0..(n - 1) /\ b \in R /\ b + 1 = a
        /\ U \in SUBSET S /\ a \in U /\ U \ {a} = U0
        /\ U0 \in SUBSET R /\ b \in U0 /\ U0 \ {b} = V0
        /\ U0 \in SUBSET S /\ V0 \in SUBSET R
    <3>1. k \in Nat /\ k + 2 <= n
      BY <1>0
    <3>2. U \in SUBSET S /\ U0 \in SUBSET S /\ U0 \in SUBSET R /\ V0 \in SUBSET R
      BY <1>0, <3>1
    <3>3. U \ {a} = U0 /\ U0 \ {b} = V0
      BY <1>01, <3>1
    <3>5. b \in 0..(n - 1) /\ b \in R /\ b + 1 = a /\ a \in U /\ b \in U0
      BY <1>0, <3>1
    <3> QED BY <3>1, <3>2, <3>3, <3>5
  <2>2. f[a] \in Nat /\ f[1] \in Nat /\ g[b] = f[a]
    BY <2>1
  <2>3. sf[U0] = f[1] + sg[V0]
    BY <1>4
  <2>4. /\ U \in SUBSET S /\ a \in U /\ U \ {a} = U0
        /\ U0 \in SUBSET R /\ b \in U0 /\ U0 \ {b} = V0
        /\ U0 \in SUBSET S /\ V0 \in SUBSET R
    BY <2>1
  <2> HIDE DEF U, U0, V0, S, R, a, b
  <2>5. sf[U] = f[a] + sf[U0] /\ sf[U0] \in Nat
    BY <1>1, <2>4 DEF Adds
  <2>6. sg[U0] = g[b] + sg[V0] /\ sg[V0] \in Nat
    BY <1>2, <2>4 DEF Adds
  <2>7. sf[U] = f[1] + sg[U0]
    BY <2>2, <2>3, <2>5, <2>6
  <2> QED BY <2>1, <2>7 DEF U, U0, b
<1>5. n - 1 \in A
  <2>1. \A k \in 0..(n - 1) : k \in A
    <3> HIDE DEF A
    <3> QED BY <1>0, <1>3, <1>4, Induction
  <2> QED BY <1>0, <2>1
<1>6. sf[1..n] = f[1] + sg[1..(n - 1)]
  <2>1. (n - 1) + 1 = n
    BY <1>0
  <2> QED BY <1>5, <2>1
<1>7. SumFunction(f) = sf[1..n] /\ SumFunction(g) = sg[1..(n - 1)]
  BY <1>1, <1>2 DEF Adds, SumFunction
<1> QED BY <1>6, <1>7

\* The values of a function of naturals on a finite set have a largest one.
LEMMA Largest ==
  ASSUME NEW S, IsFiniteSet(S), S # {}, NEW f \in [S -> Nat]
  PROVE  \E x \in S : \A y \in S : f[y] <= f[x]
<1> DEFINE T == {k \in Nat : \A x \in S : f[x] <= k}
<1>1. T # {} /\ T \in SUBSET Nat
  <2>1. SumFunction(f) \in T
    BY SumNat
  <2> QED BY <2>1
<1>2. PICK k \in T : \A j \in T : k <= j
  <2> HIDE DEF T
  <2> QED BY <1>1, LeastNat
<1>3. k \in Nat /\ \A x \in S : f[x] \in Nat /\ f[x] <= k
  OBVIOUS
<1>4. ASSUME \A x \in S : f[x] # k
      PROVE  FALSE
  <2>1. \A x \in S : f[x] <= k - 1
    BY <1>3, <1>4
  <2>2. k - 1 \in Nat
    <3>1. PICK x \in S : TRUE
      OBVIOUS
    <3> QED BY <1>3, <2>1, <3>1
  <2>3. k - 1 \in T
    BY <2>1, <2>2
  <2> QED BY <1>2, <1>3, <2>3
<1> QED BY <1>3, <1>4

-----------------------------------------------------------------------------
(* What a filter keeps *)

\* The recursion of Selected has a solution, step by step: each prefix has one.
LEMMA SelectedUnfolds ==
  ASSUME NEW S, NEW s \in Seq(S), NEW T
  PROVE  \E pick : /\ Selected(s, T) = pick[Len(s)]
                   /\ pick[0] = <<>>
                   /\ \A n \in 0..(Len(s) - 1) :
                        pick[n + 1] = IF s[n + 1] \in T THEN Append(pick[n], s[n + 1]) ELSE pick[n]
<1> DEFINE Step(g, k) == IF k = 0 THEN <<>>
                         ELSE IF s[k] \in T THEN Append(g[k - 1], s[k]) ELSE g[k - 1]
           A == {n \in 0..Len(s) : \E g : g = [k \in 0..n |-> Step(g, k)]}
           pick == CHOOSE g : g = [k \in 0..Len(s) |-> Step(g, k)]
<1>0. Len(s) \in Nat
  OBVIOUS
<1>1. 0 \in A
  <2>1. [k \in 0..0 |-> <<>>] = [k \in 0..0 |-> Step([j \in 0..0 |-> <<>>], k)]
    OBVIOUS
  <2>2. \E g : g = [k \in 0..0 |-> Step(g, k)]
    <3> HIDE DEF Step
    <3>. QED BY <2>1
  <2>. QED BY <2>2, <1>0
<1>2. ASSUME NEW n \in 0..(Len(s) - 1), n \in A
      PROVE  n + 1 \in A
  <2>1. PICK g : g = [k \in 0..n |-> Step(g, k)]
    BY <1>2
  <2> DEFINE h == [k \in 0..(n + 1) |-> IF k <= n THEN g[k] ELSE Step(g, n + 1)]
  <2>2. h = [k \in 0..(n + 1) |-> Step(h, k)]
    <3>1. \A k \in 0..(n + 1) : h[k] = Step(h, k)
      <4> TAKE k \in 0..(n + 1)
      <4>1. CASE k = 0
        BY <4>1, <2>1
      <4>2. CASE k \in 1..n
        <5>1. h[k] = g[k] /\ h[k - 1] = g[k - 1]
          BY <4>2
        <5>2. g[k] = Step(g, k)
          <6>1. k \in 0..n
            BY <4>2
          <6> HIDE DEF Step
          <6>. QED BY <2>1, <6>1
        <5>. QED BY <5>1, <5>2, <4>2
      <4>3. CASE k = n + 1
        <5>1. h[k] = Step(g, k) /\ h[k - 1] = g[k - 1] /\ k # 0
          BY <4>3
        <5>. QED BY <5>1
      <4>. QED BY <4>1, <4>2, <4>3
    <3> QED BY <3>1
  <2>3. n + 1 \in 0..Len(s)
    BY <1>0
  <2>. QED BY <2>2, <2>3
<1>3. \E g : g = [k \in 0..Len(s) |-> Step(g, k)]
  <2> HIDE DEF Step
  <2>1. Len(s) \in A
    <3> HIDE DEF A
    <3>1. \A k \in 0..Len(s) : k \in A
      BY <1>0, <1>1, <1>2, Induction
    <3> QED BY <3>1, <1>0
  <2> QED BY <2>1
<1>4. pick = [k \in 0..Len(s) |-> Step(pick, k)]
  <2> HIDE DEF Step
  <2>. QED BY <1>3
<1>5. Selected(s, T) = pick[Len(s)]
  BY DEF Selected
<1> HIDE DEF pick
<1>6. pick[0] = <<>>
  BY <1>0, <1>4
<1>7. ASSUME NEW n \in 0..(Len(s) - 1)
      PROVE  pick[n + 1] = IF s[n + 1] \in T THEN Append(pick[n], s[n + 1]) ELSE pick[n]
  <2>1. n + 1 \in 0..Len(s) /\ n + 1 # 0 /\ (n + 1) - 1 = n
    BY <1>0
  <2>2. pick[n + 1] = Step(pick, n + 1)
    <3> HIDE DEF Step
    <3>. QED BY <1>4, <2>1
  <2>. QED BY <2>1, <2>2
<1> QED BY <1>5, <1>6, <1>7

\* What Selected keeps.
LEMMA SelectedElements ==
  ASSUME NEW S, NEW s \in Seq(S), NEW T
  PROVE  /\ Selected(s, T) \in Seq(S)
         /\ ToSet(Selected(s, T)) = ToSet(s) \cap T
         /\ IsInjective(s) => IsInjective(Selected(s, T))
<1>0. Len(s) \in Nat /\ DOMAIN s = 1..Len(s) /\ \A i \in 1..Len(s) : s[i] \in S
  OBVIOUS
<1>1. PICK pick : /\ Selected(s, T) = pick[Len(s)]
                  /\ pick[0] = <<>>
                  /\ \A n \in 0..(Len(s) - 1) :
                       pick[n + 1] = IF s[n + 1] \in T THEN Append(pick[n], s[n + 1]) ELSE pick[n]
  BY SelectedUnfolds
<1> DEFINE A == {n \in 0..Len(s) : /\ pick[n] \in Seq(S)
                                   /\ ToSet(pick[n]) = {s[i] : i \in 1..n} \cap T
                                   /\ IsInjective(s) => IsInjective(pick[n])}
<1>2. 0 \in A
  <2>1. <<>> \in Seq(S) /\ ToSet(<<>>) = {} /\ IsInjective(<<>>)
    BY DEF ToSet, IsInjective
  <2>2. {s[i] : i \in 1..0} = {} /\ 0 \in 0..Len(s)
    BY <1>0
  <2>3. /\ pick[0] \in Seq(S) /\ ToSet(pick[0]) = {}
        /\ IsInjective(pick[0])
    BY <1>1, <2>1, Zenon
  <2>. QED BY <2>2, <2>3
<1>3. ASSUME NEW n \in 0..(Len(s) - 1), n \in A
      PROVE  n + 1 \in A
  <2> DEFINE p == pick[n]
  <2>1. /\ n \in Nat /\ n + 1 \in 1..Len(s) /\ n + 1 \in 0..Len(s) /\ s[n + 1] \in S
        /\ 1..(n + 1) = 1..n \cup {n + 1}
    BY <1>0
  <2>2. {s[i] : i \in 1..(n + 1)} = {s[i] : i \in 1..n} \cup {s[n + 1]}
    BY <2>1
  <2>3. p \in Seq(S) /\ ToSet(p) = {s[i] : i \in 1..n} \cap T /\ (IsInjective(s) => IsInjective(p))
    BY <1>3
  <2>4. CASE s[n + 1] \in T
    <3>1. pick[n + 1] = Append(p, s[n + 1])
      BY <2>4, <1>1
    <3>2. IsInjective(s) => s[n + 1] \notin {s[i] : i \in 1..n}
      BY <1>0, <2>1 DEF IsInjective
    <3> HIDE DEF p
    <3>3. /\ Append(p, s[n + 1]) \in Seq(S)
          /\ ToSet(Append(p, s[n + 1])) = ToSet(p) \cup {s[n + 1]}
          /\ IsInjective(p) /\ s[n + 1] \notin ToSet(p) => IsInjective(Append(p, s[n + 1]))
      <4>1. \A q : ToSet(q) = Range(q)
        BY DEF ToSet, Range
      <4>2. p \in Seq(S) /\ s[n + 1] \in S
        BY <2>1, <2>3
      <4>. QED BY <4>1, <4>2, AppendDistinct
    <3>. QED BY <3>1, <3>2, <3>3, <2>1, <2>2, <2>3, <2>4, ZenonT(30)
  <2>5. CASE s[n + 1] \notin T
    <3>1. pick[n + 1] = p
      BY <2>5, <1>1
    <3> HIDE DEF p
    <3>. QED BY <3>1, <2>1, <2>2, <2>3, <2>5
  <2>. QED BY <2>4, <2>5
<1>4. Len(s) \in A
  <2> HIDE DEF A
  <2>1. \A k \in 0..Len(s) : k \in A
    BY <1>0, <1>2, <1>3, Induction
  <2>. QED BY <2>1, <1>0
<1>5. ToSet(s) = {s[i] : i \in 1..Len(s)}
  BY <1>0 DEF ToSet
<1>. QED BY <1>1, <1>4, <1>5

\* When exactly the first m elements are wanted, those are what is kept.
LEMMA SelectedPrefix ==
  ASSUME NEW S, NEW s \in Seq(S), NEW T, NEW m \in 0..Len(s),
         \A i \in 1..Len(s) : s[i] \in T <=> i <= m
  PROVE  /\ Selected(s, T) \in Seq(S) /\ Len(Selected(s, T)) = m
         /\ \A i \in 1..m : Selected(s, T)[i] = s[i]
<1>0. Len(s) \in Nat /\ \A i \in 1..Len(s) : s[i] \in S
  OBVIOUS
<1>1. PICK pick : /\ Selected(s, T) = pick[Len(s)]
                  /\ pick[0] = <<>>
                  /\ \A n \in 0..(Len(s) - 1) :
                       pick[n + 1] = IF s[n + 1] \in T THEN Append(pick[n], s[n + 1]) ELSE pick[n]
  BY SelectedUnfolds
<1> DEFINE Kept(n) == IF n <= m THEN n ELSE m
           A == {n \in 0..Len(s) : /\ pick[n] \in Seq(S) /\ Len(pick[n]) = Kept(n)
                                   /\ \A i \in 1..Kept(n) : pick[n][i] = s[i]}
<1>2. 0 \in A
  <2>1. <<>> \in Seq(S) /\ Len(<<>>) = 0 /\ Kept(0) = 0 /\ 0 \in 0..Len(s)
    BY <1>0
  <2>2. \A i \in 1..Kept(0) : FALSE
    BY <2>1
  <2>. QED
    BY <1>1, <2>1, <2>2
<1>3. ASSUME NEW n \in 0..(Len(s) - 1), n \in A
      PROVE  n + 1 \in A
  <2> DEFINE p == pick[n]
  <2>1. n \in Nat /\ n + 1 \in 1..Len(s) /\ n + 1 \in 0..Len(s) /\ s[n + 1] \in S
    BY <1>0
  <2>2. p \in Seq(S) /\ Len(p) = Kept(n) /\ \A i \in 1..Kept(n) : p[i] = s[i]
    BY <1>3
  <2>3. CASE n + 1 <= m
    <3>0. Kept(n) = n /\ Kept(n + 1) = n + 1 /\ s[n + 1] \in T
      BY <2>1, <2>3
    <3>1. pick[n + 1] = Append(p, s[n + 1]) /\ Kept(n) = n /\ Kept(n + 1) = n + 1
      BY <1>1, <3>0
    <3> HIDE DEF p
    <3>2. Append(p, s[n + 1]) \in Seq(S) /\ Len(Append(p, s[n + 1])) = n + 1
      BY <2>1, <2>2, <3>1
    <3>3. \A i \in 1..(n + 1) : Append(p, s[n + 1])[i] = s[i]
      BY <2>1, <2>2, <3>1
    <3>. QED
      BY <2>1, <3>1, <3>2, <3>3
  <2>4. CASE ~(n + 1 <= m)
    <3>1. pick[n + 1] = p /\ Kept(n + 1) = Kept(n)
      BY <1>1, <2>1, <2>4
    <3>. QED
      BY <2>1, <2>2, <3>1
  <2>. QED
    BY <2>3, <2>4
<1>4. Len(s) \in A
  <2> HIDE DEF A
  <2>1. \A k \in 0..Len(s) : k \in A
    BY <1>0, <1>2, <1>3, Induction
  <2>. QED
    BY <2>1, <1>0
<1>5. Kept(Len(s)) = m
  BY <1>0
<1>. QED
  BY <1>1, <1>4, <1>5
-----------------------------------------------------------------------------
(* Numbers, counts and order *)

\* Within a window's length no two seconds share a slot.
LEMMA SlotsApart ==
  ASSUME NEW w \in Nat \ {0}, NEW a \in Nat, NEW b \in Nat, a < b, b < a + w
  PROVE  a % w # b % w
<1> DEFINE q == a \div w
           m == a % w
           k == b \div w
           l == b % w
<1>1. /\ q \in Int /\ m \in 0..(w - 1) /\ a = w * q + m
      /\ k \in Int /\ l \in 0..(w - 1) /\ b = w * k + l
  BY SMTT(60)
<1> HIDE DEF q, m, k, l
<1>2. w * k - w * q = w * (k - q) /\ \A d \in Nat : d >= 1 => w * d >= w
  BY <1>1, SMTT(60)
<1>3. CASE k <= q
  <2>1. w * q - w * k = w * (q - k) /\ w * (q - k) >= 0
    BY <1>1, <1>3, SMTT(60)
  <2>. QED
    BY <1>1, <2>1
<1>4. CASE k >= q + 1
  <2>1. w * (k - q) >= w
    BY <1>1, <1>2, <1>4
  <2>. QED
    BY <1>1, <1>2, <2>1
<1>. QED
  BY <1>1, <1>3, <1>4 DEF m, l

\* A slot is one of the window's.
LEMMA SlotExists ==
  ASSUME NEW w \in Nat \ {0}, NEW a \in Nat
  PROVE  a % w \in 0..(w - 1)
BY SMTT(30)

\* What is counted by kinds adds up to all of it.
LEMMA CountByKinds ==
  ASSUME NEW S, IsFiniteSet(S), NEW D, IsFiniteSet(D), NEW g \in [S -> D]
  PROVE  SumFunction([s \in D |-> Cardinality({x \in S : g[x] = s})]) = Cardinality(S)
<1> DEFINE f(T) == [s \in D |-> Cardinality({x \in T : g[x] = s})]
           A == {T \in SUBSET S : SumFunction(f(T)) = Cardinality(T)}
<1>1. {} \in A
  <2>1. f({}) = [s \in D |-> 0]
    <3>1. \A s \in D : {x \in {} : g[x] = s} = {}
      OBVIOUS
    <3>. QED
      BY <3>1, FS_EmptySet
  <2>2. SumFunction([s \in D |-> 0]) = 0
    BY SumZero
  <2> HIDE DEF f
  <2>. QED
    BY <2>1, <2>2, FS_EmptySet
<1>2. ASSUME NEW T \in SUBSET S, NEW x \in S \ T, T \in A
      PROVE  T \cup {x} \in A
  <2>0. IsFiniteSet(T) /\ Cardinality(T) \in Nat /\ Cardinality(T \cup {x}) = Cardinality(T) + 1
    BY FS_Subset, FS_AddElement, FS_CardinalityType
  <2>1. ASSUME NEW U \in SUBSET S PROVE f(U) \in [D -> Nat]
    <3>1. \A s \in D : Cardinality({y \in U : g[y] = s}) \in Nat
      <4> TAKE s \in D
      <4>1. {y \in U : g[y] = s} \in SUBSET S
        OBVIOUS
      <4>. QED
        BY <4>1, FS_Subset, FS_CardinalityType
    <3>. QED
      BY <3>1
  <2>2. T \cup {x} \in SUBSET S /\ g[x] \in D
    OBVIOUS
  <2>3. \A s \in D \ {g[x]} : f(T \cup {x})[s] = f(T)[s]
    <3> TAKE s \in D \ {g[x]}
    <3>1. {y \in T \cup {x} : g[y] = s} = {y \in T : g[y] = s}
      OBVIOUS
    <3>. QED
      BY <3>1
  <2>4. f(T \cup {x})[g[x]] = f(T)[g[x]] + 1
    <3> DEFINE U == {y \in T : g[y] = g[x]}
    <3>1. {y \in T \cup {x} : g[y] = g[x]} = U \cup {x} /\ x \notin U /\ U \in SUBSET T
      OBVIOUS
    <3>2. IsFiniteSet(U)
      BY <2>0, <3>1, FS_Subset
    <3>3. Cardinality(U \cup {x}) = Cardinality(U) + 1
      BY <3>1, <3>2, FS_AddElement
    <3>. QED
      BY <2>2, <3>1, <3>3
  <2>5. f(T) \in [D -> Nat] /\ f(T \cup {x}) \in [D -> Nat]
    BY <2>1, <2>2
  <2>6. SumFunction(f(T)) = Cardinality(T)
    BY <1>2
  <2> HIDE DEF f
  <2>7. SumFunction(f(T \cup {x})) + f(T)[g[x]] = SumFunction(f(T)) + f(T \cup {x})[g[x]]
    BY <2>2, <2>3, <2>5, SumChange
  <2>8. SumFunction(f(T \cup {x})) \in Nat /\ f(T)[g[x]] \in Nat
    BY <2>2, <2>5, SumNat
  <2>9. SumFunction(f(T \cup {x})) = Cardinality(T \cup {x})
    BY <2>0, <2>4, <2>6, <2>7, <2>8
  <2>. QED
    BY <2>2, <2>9
<1>3. S \in A
  <2> HIDE DEF A
  <2>1. \A T \in SUBSET S : T \in A
    BY <1>1, <1>2, SubsetInduction
  <2>. QED
    BY <2>1
<1>. QED
  BY <1>3

\* What a filter keeps of a list with one element more.
LEMMA SelectedAppend ==
  ASSUME NEW S, NEW s \in Seq(S), NEW x \in S, NEW T
  PROVE  Selected(Append(s, x), T) = IF x \in T THEN Append(Selected(s, T), x) ELSE Selected(s, T)
<1> DEFINE t == Append(s, x)
           n == Len(s)
<1>0. /\ n \in Nat /\ t \in Seq(S) /\ Len(t) = n + 1 /\ t[n + 1] = x
      /\ \A i \in 1..n : t[i] = s[i]
  OBVIOUS
<1> HIDE DEF t
<1> DEFINE Unfolds(list, p) ==
             /\ Selected(list, T) = p[Len(list)]
             /\ p[0] = <<>>
             /\ \A k \in 0..(Len(list) - 1) :
                  p[k + 1] = IF list[k + 1] \in T THEN Append(p[k], list[k + 1]) ELSE p[k]
<1>U. \A list \in Seq(S) : \E p : Unfolds(list, p)
  BY SelectedUnfolds
<1> HIDE DEF Unfolds
<1>1. PICK p : Unfolds(s, p)
  BY <1>U
<1>2. PICK q : Unfolds(t, q)
  BY <1>0, <1>U
<1> USE DEF Unfolds
<1> HIDE DEF n
<1> DEFINE A == {k \in 0..n : q[k] = p[k]}
<1>3. 0 \in A
  BY <1>0, <1>1, <1>2
<1>4. ASSUME NEW k \in 0..(n - 1), k \in A
      PROVE  k + 1 \in A
  <2>1. k + 1 \in 1..n /\ k \in 0..(Len(t) - 1) /\ t[k + 1] = s[k + 1] /\ q[k] = p[k]
    BY <1>0, <1>4
  <2>2. p[k + 1] = IF s[k + 1] \in T THEN Append(p[k], s[k + 1]) ELSE p[k]
    BY <1>1 DEF n
  <2>3. q[k + 1] = IF t[k + 1] \in T THEN Append(q[k], t[k + 1]) ELSE q[k]
    BY <1>2, <2>1
  <2>. QED
    BY <1>0, <2>1, <2>2, <2>3
<1>5. q[n] = p[n]
  <2> HIDE DEF A
  <2>1. \A k \in 0..n : k \in A
    BY <1>0, <1>3, <1>4, Induction
  <2>2. n \in A
    BY <1>0, <2>1
  <2>. QED
    BY <2>2 DEF A
<1>6. q[n + 1] = IF t[n + 1] \in T THEN Append(q[n], t[n + 1]) ELSE q[n]
  <2>1. n \in 0..(Len(t) - 1)
    BY <1>0
  <2>. QED
    BY <1>2, <2>1
<1>. QED
  BY <1>0, <1>1, <1>2, <1>5, <1>6 DEF t

\* Finitely many places of a list of numbers can be put in ascending order.
LEMMA Arranged ==
  ASSUME NEW s \in Seq(Nat), NEW I \in SUBSET DOMAIN s
  PROVE  \E p \in Bijection(1..Cardinality(I), I) :
           \A i, j \in DOMAIN p : i < j => s[p[i]] <= s[p[j]]
<1> DEFINE In(p) == \A i, j \in DOMAIN p : i < j => s[p[i]] <= s[p[j]]
           A == {n \in Nat : \A J \in SUBSET DOMAIN s :
                   Cardinality(J) = n => \E p \in Bijection(1..n, J) : In(p)}
<1>0. Len(s) \in Nat /\ DOMAIN s = 1..Len(s) /\ IsFiniteSet(DOMAIN s)
  BY FS_Interval
<1>1. ASSUME NEW J \in SUBSET DOMAIN s
      PROVE  IsFiniteSet(J) /\ Cardinality(J) \in Nat
  BY <1>0, FS_Subset, FS_CardinalityType
<1>2. 0 \in A
  <2> SUFFICES ASSUME NEW J \in SUBSET DOMAIN s, Cardinality(J) = 0
               PROVE  \E p \in Bijection(1..0, J) : In(p)
    OBVIOUS
  <2>1. J = {} /\ 1..0 = {}
    BY <1>1, FS_EmptySet
  <2>2. [i \in 1..0 |-> i] \in Bijection(1..0, J)
    BY <2>1 DEF Bijection, Injection, Surjection, IsInjective
  <2>3. In([i \in 1..0 |-> i])
    BY <2>1
  <2>. QED
    BY <2>2, <2>3
<1>3. ASSUME NEW n \in Nat, n \in A
      PROVE  n + 1 \in A
  <2> SUFFICES ASSUME NEW J \in SUBSET DOMAIN s, Cardinality(J) = n + 1
               PROVE  \E p \in Bijection(1..(n + 1), J) : In(p)
    OBVIOUS
  <2>1. IsFiniteSet(J) /\ J # {}
    BY <1>1, FS_EmptySet
  <2> DEFINE f == [j \in J |-> s[j]]
  <2>2. f \in [J -> Nat]
    BY <1>0
  <2>3. PICK m \in J : \A j \in J : f[j] <= f[m]
    <3> HIDE DEF f
    <3>. QED
      BY <2>1, <2>2, Largest
  <2> DEFINE K == J \ {m}
  <2>4. K \in SUBSET DOMAIN s /\ Cardinality(K) = n
    <3>1. Cardinality(K) = Cardinality(J) - 1
      BY <2>1, FS_RemoveElement
    <3>. QED
      BY <3>1
  <2>5. PICK p \in Bijection(1..n, K) : In(p)
    BY <1>3, <2>4
  <2>6. /\ p \in [1..n -> K] /\ \A i, j \in 1..n : p[i] = p[j] => i = j
        /\ \A k \in K : \E i \in 1..n : p[i] = k
    BY <2>5 DEF Bijection, Injection, Surjection, IsInjective
  <2> DEFINE q == [i \in 1..(n + 1) |-> IF i <= n THEN p[i] ELSE m]
  <2>7. /\ DOMAIN q = 1..(n + 1) /\ q[n + 1] = m
        /\ \A i \in 1..n : q[i] = p[i] /\ q[i] \in K
        /\ \A i \in 1..(n + 1) : i \in 1..n \/ i = n + 1
    BY <2>6
  <2>8. q \in [1..(n + 1) -> J]
    BY <2>6
  <2> HIDE DEF q
  <2>9. \A i, j \in 1..(n + 1) : q[i] = q[j] => i = j
    BY <2>6, <2>7
  <2>10. \A k \in J : \E i \in 1..(n + 1) : q[i] = k
    <3> TAKE k \in J
    <3>1. CASE k = m
      BY <2>7, <3>1
    <3>2. CASE k \in K
      <4>1. PICK i \in 1..n : p[i] = k
        BY <2>6, <3>2
      <4>. QED
        BY <2>7, <4>1
    <3>. QED
      BY <3>1, <3>2
  <2>11. q \in Bijection(1..(n + 1), J)
    BY <2>8, <2>9, <2>10 DEF Bijection, Injection, Surjection, IsInjective
  <2>12. In(q)
    <3> SUFFICES ASSUME NEW i \in 1..(n + 1), NEW j \in 1..(n + 1), i < j
                 PROVE  s[q[i]] <= s[q[j]]
      BY <2>7
    <3>1. i \in 1..n
      OBVIOUS
    <3>2. CASE j \in 1..n
      BY <2>5, <2>6, <2>7, <3>1, <3>2
    <3>3. CASE j = n + 1
      BY <2>3, <2>7, <3>1, <3>3
    <3>. QED
      BY <2>7, <3>2, <3>3
  <2>. QED
    BY <2>11, <2>12
<1>4. Cardinality(I) \in A
  <2> DEFINE n == Cardinality(I)
  <2>1. n \in Nat
    BY <1>1
  <2> HIDE DEF A, n
  <2>2. \A k \in 0..(n - 1) : k \in A => k + 1 \in A
    BY <1>3, <2>1
  <2>3. \A k \in 0..n : k \in A
    BY <1>2, <2>1, <2>2, Induction
  <2>4. n \in 0..n
    BY <2>1
  <2>. QED
    BY <2>3, <2>4 DEF n
<1>. QED
  BY <1>4
=============================================================================
