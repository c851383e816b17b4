---------------------------- MODULE SequenceFacts ----------------------------
(***************************************************************************)
(* Facts about sequences that the proofs about RaftNode and RpcProvider    *)
(* need: the queues of the system are appended to, lose their first        *)
(* element, or one somewhere in between, or all beyond some element.       *)
(***************************************************************************)
EXTENDS Integers, SequencesExt, SequenceTheorems, FiniteSetTheorems, TLAPS

-----------------------------------------------------------------------------
(* What is in a sequence. *)

LEMMA ElementsType ==
  ASSUME NEW S, NEW s \in Seq(S)
  PROVE  /\ ToSet(s) \subseteq S
         /\ \A e : e \in ToSet(s) <=> \E n \in 1..Len(s) : s[n] = e
BY LenProperties, ElementOfSeq DEF ToSet

\* A sequence is the function of its elements.
LEMMA SequenceIsItsElements ==
  ASSUME NEW S, NEW s \in Seq(S), NEW D, DOMAIN s = D
  PROVE  s = [n \in D |-> s[n]]
<1>1. s \in [1..Len(s) -> S]
  BY LenProperties
<1> QED
  BY <1>1

LEMMA AppendElements ==
  ASSUME NEW S, NEW s \in Seq(S), NEW e \in S
  PROVE  /\ Append(s, e) \in Seq(S)
         /\ ToSet(Append(s, e)) = ToSet(s) \union {e}
<1>1. /\ Append(s, e) \in Seq(S)
      /\ Len(s) \in Nat /\ Len(Append(s, e)) = Len(s) + 1
      /\ \A n \in 1..Len(s) : Append(s, e)[n] = s[n]
      /\ Append(s, e)[Len(s) + 1] = e
  BY AppendProperties, LenProperties
<1>2. \A x : x \in ToSet(Append(s, e)) <=> \E n \in 1..(Len(s) + 1) : Append(s, e)[n] = x
  <2>1. DOMAIN Append(s, e) = 1..(Len(s) + 1)
    BY <1>1, LenProperties
  <2> QED
    BY <2>1 DEF ToSet
<1>3. \A x : x \in ToSet(s) <=> \E n \in 1..Len(s) : s[n] = x
  BY ElementsType
<1>4. ASSUME NEW x PROVE x \in ToSet(Append(s, e)) <=> x \in ToSet(s) \union {e}
  <2> DEFINE longer == Append(s, e)
  <2>1. ASSUME NEW n \in 1..(Len(s) + 1), longer[n] = x PROVE x \in ToSet(s) \union {e}
    <3>1. n \in 1..Len(s) \/ n = Len(s) + 1
      BY <1>1
    <3> QED
      BY <1>1, <1>3, <2>1, <3>1
  <2>2. ASSUME NEW n \in 1..Len(s), s[n] = x PROVE longer[n] = x /\ n \in 1..(Len(s) + 1)
    BY <1>1, <2>2
  <2>3. longer[Len(s) + 1] = e /\ Len(s) + 1 \in 1..(Len(s) + 1)
    BY <1>1
  <2> HIDE DEF longer
  <2> QED
    BY <1>2, <1>3, <2>1, <2>2, <2>3 DEF longer
<1> QED
  BY <1>1, <1>4

LEMMA AppendDistinct ==
  ASSUME NEW S, NEW s \in Seq(S), NEW e \in S, IsInjective(s), e \notin ToSet(s)
  PROVE  IsInjective(Append(s, e))
<1>1. /\ Append(s, e) \in Seq(S)
      /\ Len(s) \in Nat /\ Len(Append(s, e)) = Len(s) + 1
      /\ \A n \in 1..Len(s) : Append(s, e)[n] = s[n]
      /\ Append(s, e)[Len(s) + 1] = e
  BY AppendProperties, LenProperties
<1>2. DOMAIN Append(s, e) = 1..(Len(s) + 1) /\ DOMAIN s = 1..Len(s)
  BY <1>1, LenProperties
<1>3. \A n \in 1..Len(s) : s[n] # e
  BY ElementsType
<1> QED
  BY <1>1, <1>2, <1>3 DEF IsInjective

LEMMA TailElements ==
  ASSUME NEW S, NEW s \in Seq(S), s # <<>>
  PROVE  /\ Head(s) \in S /\ Tail(s) \in Seq(S)
         /\ Head(s) \in ToSet(s)
         /\ ToSet(Tail(s)) \subseteq ToSet(s)
         /\ IsInjective(s) => IsInjective(Tail(s)) /\ Head(s) \notin ToSet(Tail(s))
<1>1. /\ Head(s) \in S /\ Tail(s) \in Seq(S)
      /\ Len(Tail(s)) = Len(s) - 1
      /\ \A n \in 1..Len(Tail(s)) : Tail(s)[n] = s[n + 1]
  BY HeadTailProperties
<1>2. Len(s) \in Nat \ {0} /\ DOMAIN s = 1..Len(s) /\ DOMAIN Tail(s) = 1..(Len(s) - 1)
  BY <1>1, EmptySeq, LenProperties
<1>3. Head(s) = s[1]
  BY <1>2
<1>4. \A x : x \in ToSet(Tail(s)) <=> \E n \in 1..(Len(s) - 1) : s[n + 1] = x
  BY <1>1, <1>2 DEF ToSet
<1>5. \A x : x \in ToSet(s) <=> \E n \in 1..Len(s) : s[n] = x
  BY ElementsType
<1>6. ToSet(Tail(s)) \subseteq ToSet(s)
  BY <1>2, <1>4, <1>5
<1>7. IsInjective(s) => IsInjective(Tail(s))
  BY <1>1, <1>2 DEF IsInjective
<1>8. IsInjective(s) => Head(s) \notin ToSet(Tail(s))
  BY <1>2, <1>3, <1>4 DEF IsInjective
<1> QED
  BY <1>1, <1>2, <1>3, <1>5, <1>6, <1>7, <1>8

LEMMA PrefixElements ==
  ASSUME NEW S, NEW s \in Seq(S), NEW n \in 0..Len(s)
  PROVE  /\ SubSeq(s, 1, n) \in Seq(S)
         /\ ToSet(SubSeq(s, 1, n)) \subseteq ToSet(s)
         /\ IsInjective(s) => IsInjective(SubSeq(s, 1, n))
<1>1. Len(s) \in Nat /\ DOMAIN s = 1..Len(s) /\ \A k \in 1..n : s[k] \in S
  BY LenProperties, ElementOfSeq
<1>2. /\ SubSeq(s, 1, n) \in Seq(S)
      /\ Len(SubSeq(s, 1, n)) = n
      /\ \A k \in 1..n : SubSeq(s, 1, n)[k] = s[k]
  BY <1>1, SubSeqProperties
<1>3. DOMAIN SubSeq(s, 1, n) = 1..n
  BY <1>2, LenProperties
<1> QED
  BY <1>1, <1>2, <1>3 DEF ToSet, IsInjective

\* An element of a sequence without repetition is at one position.
LEMMA DistinctCount ==
  ASSUME NEW S, NEW s \in Seq(S), IsInjective(s), NEW e
  PROVE  Cardinality({n \in DOMAIN s : s[n] = e}) = IF e \in ToSet(s) THEN 1 ELSE 0
<1>1. CASE e \in ToSet(s)
  <2>1. PICK n \in DOMAIN s : s[n] = e
    BY <1>1 DEF ToSet
  <2>2. {k \in DOMAIN s : s[k] = e} = {n}
    BY <2>1 DEF IsInjective
  <2> QED
    BY <1>1, <2>2, FS_Singleton
<1>2. CASE e \notin ToSet(s)
  <2>1. {k \in DOMAIN s : s[k] = e} = {}
    BY <1>2 DEF ToSet
  <2> QED
    BY <1>2, <2>1, FS_EmptySet
<1> QED
  BY <1>1, <1>2

LEMMA SubSeqElements ==
  ASSUME NEW S, NEW s \in Seq(S), NEW m \in Nat \ {0}, NEW n \in Nat, n <= Len(s)
  PROVE  /\ SubSeq(s, m, n) \in Seq(S)
         /\ ToSet(SubSeq(s, m, n)) \subseteq ToSet(s)
<1>1. Len(s) \in Nat /\ DOMAIN s = 1..Len(s) /\ \A k \in m..n : s[k] \in S
  BY LenProperties, ElementOfSeq
<1>2. /\ SubSeq(s, m, n) \in Seq(S)
      /\ Len(SubSeq(s, m, n)) = IF m <= n THEN n - m + 1 ELSE 0
      /\ \A k \in 1..(n - m + 1) : SubSeq(s, m, n)[k] = s[m + k - 1]
  BY <1>1, SubSeqProperties
<1>3. \A k \in DOMAIN SubSeq(s, m, n) : k \in 1..(n - m + 1)
  BY <1>1, <1>2, LenProperties
<1>4. \A k \in 1..(n - m + 1) : m + k - 1 \in DOMAIN s
  BY <1>1
<1> QED
  BY <1>2, <1>3, <1>4 DEF ToSet

LEMMA ConcatElements ==
  ASSUME NEW S, NEW s \in Seq(S), NEW u \in Seq(S)
  PROVE  /\ s \o u \in Seq(S)
         /\ ToSet(s \o u) = ToSet(s) \union ToSet(u)
<1>1. /\ s \o u \in Seq(S) /\ Len(s \o u) = Len(s) + Len(u)
      /\ \A p \in 1..(Len(s) + Len(u)) :
           (s \o u)[p] = IF p <= Len(s) THEN s[p] ELSE u[p - Len(s)]
  BY ConcatProperties
<1>2. /\ Len(s) \in Nat /\ Len(u) \in Nat
      /\ DOMAIN s = 1..Len(s) /\ DOMAIN u = 1..Len(u)
      /\ DOMAIN (s \o u) = 1..(Len(s) + Len(u))
  BY <1>1, LenProperties
<1> DEFINE both == s \o u
<1>3. ASSUME NEW p \in DOMAIN both
      PROVE  both[p] \in ToSet(s) \union ToSet(u)
  <2>1. CASE p <= Len(s)
    BY <1>1, <1>2, <2>1 DEF ToSet
  <2>2. CASE p > Len(s)
    <3>1. p - Len(s) \in DOMAIN u /\ both[p] = u[p - Len(s)]
      BY <1>1, <1>2, <2>2
    <3> QED
      BY <3>1 DEF ToSet
  <2> QED
    BY <1>2, <2>1, <2>2
<1>4. ASSUME NEW p \in DOMAIN s
      PROVE  p \in DOMAIN both /\ both[p] = s[p]
  BY <1>1, <1>2
<1>5. ASSUME NEW p \in DOMAIN u
      PROVE  Len(s) + p \in DOMAIN both /\ both[Len(s) + p] = u[p]
  BY <1>1, <1>2
<1> HIDE DEF both
<1>6. ToSet(both) \subseteq ToSet(s) \union ToSet(u)
  BY <1>3 DEF ToSet
<1>7. ToSet(s) \subseteq ToSet(both)
  BY <1>4 DEF ToSet
<1>8. ToSet(u) \subseteq ToSet(both)
  BY <1>5 DEF ToSet
<1> QED
  BY <1>1, <1>6, <1>7, <1>8 DEF both

\* Where an element of a concatenation comes from.
LEMMA ConcatIndex ==
  ASSUME NEW S, NEW s \in Seq(S), NEW u \in Seq(S), NEW n \in DOMAIN (s \o u)
  PROVE  \/ n \in DOMAIN s /\ (s \o u)[n] = s[n]
         \/ n - Len(s) \in DOMAIN u /\ (s \o u)[n] = u[n - Len(s)]
<1>1. /\ s \o u \in Seq(S) /\ Len(s \o u) = Len(s) + Len(u)
      /\ \A p \in 1..(Len(s) + Len(u)) :
           (s \o u)[p] = IF p <= Len(s) THEN s[p] ELSE u[p - Len(s)]
  BY ConcatProperties
<1>2. /\ Len(s) \in Nat /\ Len(u) \in Nat
      /\ DOMAIN s = 1..Len(s) /\ DOMAIN u = 1..Len(u)
      /\ n \in 1..(Len(s) + Len(u))
  BY <1>1, LenProperties
<1> QED
  BY <1>1, <1>2

\* What is left when one element is taken out of a sequence.
LEMMA RemoveAtElements ==
  ASSUME NEW S, NEW s \in Seq(S), NEW k \in DOMAIN s
  PROVE  /\ RemoveAt(s, k) \in Seq(S)
         /\ Len(RemoveAt(s, k)) = Len(s) - 1
         /\ \A n \in 1..(Len(s) - 1) : RemoveAt(s, k)[n] = s[IF n < k THEN n ELSE n + 1]
<1> DEFINE front == SubSeq(s, 1, k - 1)
           back == SubSeq(s, k + 1, Len(s))
<1>1. Len(s) \in Nat /\ k \in 1..Len(s) /\ \A p \in 1..Len(s) : s[p] \in S
  BY LenProperties, ElementOfSeq
<1>2. /\ front \in Seq(S) /\ Len(front) = k - 1
      /\ \A p \in 1..(k - 1) : front[p] = s[p]
  BY <1>1, SubSeqProperties
<1>3. /\ back \in Seq(S) /\ Len(back) = Len(s) - k
      /\ \A p \in 1..(Len(s) - k) : back[p] = s[k + p]
  BY <1>1, SubSeqProperties
<1>4. RemoveAt(s, k) = front \o back
  BY DEF RemoveAt
<1> HIDE DEF front, back
<1>5. /\ front \o back \in Seq(S)
      /\ Len(front \o back) = Len(front) + Len(back)
      /\ \A n \in 1..(Len(front) + Len(back)) :
           (front \o back)[n] = IF n <= Len(front) THEN front[n] ELSE back[n - Len(front)]
  <2>1. front \in Seq(S) /\ back \in Seq(S)
    BY <1>2, <1>3
  <2> QED
    BY <2>1, ConcatProperties
<1>6. Len(front) + Len(back) = Len(s) - 1
  BY <1>1, <1>2, <1>3
<1>7. ASSUME NEW n \in 1..(Len(s) - 1)
      PROVE  (front \o back)[n] = s[IF n < k THEN n ELSE n + 1]
  <2>1. CASE n < k
    BY <1>1, <1>2, <1>5, <1>6, <2>1
  <2>2. CASE ~(n < k)
    <3>1. (front \o back)[n] = back[n - (k - 1)]
      <4>1. n \in 1..(Len(front) + Len(back)) /\ ~(n <= Len(front)) /\ Len(front) = k - 1
        BY <1>1, <1>2, <1>6, <2>2
      <4> QED
        BY <1>5, <4>1
    <3>2. n - (k - 1) \in 1..(Len(s) - k) /\ k + (n - (k - 1)) = n + 1
      BY <1>1, <2>2
    <3> QED
      BY <1>3, <2>2, <3>1, <3>2
  <2> QED
    BY <2>1, <2>2
<1> QED
  BY <1>4, <1>5, <1>6, <1>7

=============================================================================
