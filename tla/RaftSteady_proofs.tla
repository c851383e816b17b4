-------------------------- MODULE RaftSteady_proofs --------------------------
(***************************************************************************)
(* What a cluster guarantees while only one election has been won: proofs. *)
(*                                                                         *)
(* The winner's log is the measure of everything: whatever entry is held   *)
(* in a log, on a disk or in a request is the winner's entry of its index. *)
(* A log that holds its entries at their indexes is therefore a prefix of  *)
(* the winner's, and one that does not holds an entry twice.               *)
(***************************************************************************)
EXTENDS RaftNode_proofs

\* Each entry stands at the position its index says.
Straight(s) == \A k \in DOMAIN s : s[k].index = k

AtItsIndex(l, e) == e.index \in DOMAIN l /\ l[e.index] = e

NoCallsToSelf == \A i \in Node : calls[i][i] = <<>>

\* Before the first election is won there is nothing to replicate.
NothingYet ==
  /\ \A i \in Node : /\ ~down[i] /\ log[i] = <<>> /\ disk[i].last = 0
                     /\ commitIndex[i] = 0 /\ lastApplied[i] = 0
                     /\ tasks[i] = <<>> /\ executed[i] = <<>>
  /\ \A i, j \in Node : nextIndex[i][j] = 0
  /\ \A i, j \in Node : \A k \in DOMAIN answers[i][j] : answers[i][j][k].type # "append"

WinnerHolds(w) == ~down[w] /\ Straight(log[w]) /\ \A e \in Held : AtItsIndex(log[w], e)

IsStraightCall(m) ==
  m.type = "append" =>
    /\ \A n \in DOMAIN m.entries : m.entries[n].index = m.prevIndex + n
    /\ m.prevTerm = IF m.prevIndex = 0 THEN 0 ELSE m.term

WireIsStraight ==
  \A i, j \in Node : \A k \in DOMAIN calls[i][j] : IsStraightCall(calls[i][j][k])

FollowsOrRepeats(l) == Straight(l) \/ ~IsInjective(l)

LogsFollowOrRepeat == \A i \in Node : FollowsOrRepeats(log[i])

\* The disk d has a log that stands straight.
Stores(d, l) == Straight(l) => d.last = Len(l) /\ ToSet(l) \subseteq d.entries

DisksFollow == \A i \in Node : ~down[i] => Stores(disk[i], log[i])

NobodyAhead(w) ==
  \A i \in Node : /\ lastApplied[i] <= commitIndex[i]
                  /\ down[i] => ~Recoverable(disk[i])
                  /\ i # w => commitIndex[i] <= Len(log[i])

LeaderExecutes(w) == role[w] = "leader" => Commands(log[w]) = executed[w] \o Commands(tasks[w])

FollowersExecute(w) ==
  faults.restarts = 0 =>
    \A i \in Node \ {w} :
      Straight(log[i]) => executed[i] = Commands(SubSeq(log[i], 1, lastApplied[i]))

IsAppend(m) == m.type = "append"

\* The entries between two positions are on their way, each in a request of its own, in
\* their order.
Piped(s, from, to) ==
  /\ \A k \in DOMAIN s :
       IsAppend(s[k]) => Len(s[k].entries) = 1 /\ s[k].prevIndex >= from /\ s[k].prevIndex < to
  /\ \A k, n \in DOMAIN s :
       IsAppend(s[k]) /\ IsAppend(s[n]) /\ k < n => s[k].prevIndex < s[n].prevIndex
  /\ \A q \in Nat :
       q >= from /\ q < to => \E k \in DOMAIN s : IsAppend(s[k]) /\ s[k].prevIndex = q

\* No answer makes the leader of term t send an entry again.
NoRefusal(s, t) ==
  \A k \in DOMAIN s : s[k].type = "append" /\ s[k].term = t => s[k].success

NothingMissing(w, t) ==
  Undisturbed =>
    /\ \A i \in Node : Straight(log[i])
    /\ \A j \in Node \ {w} :
         /\ nextIndex[w][j] = 0
         /\ NoRefusal(answers[w][j], t)
         /\ currentTerm[j] <= t => Piped(calls[w][j], Len(log[j]), Len(log[w]))

WithWinner(w, t) ==
  /\ WinnerHolds(w) /\ WireIsStraight /\ LogsFollowOrRepeat /\ DisksFollow /\ NobodyAhead(w)
  /\ LeaderExecutes(w) /\ FollowersExecute(w) /\ NothingMissing(w, t)

\* The inductive invariant.
SteadyInv ==
  /\ EntryInv /\ NoCallsToSelf
  /\ elected = {} => NothingYet
  /\ \A w \in Node, t \in Nat : elected = {<<w, t>>} => WithWinner(w, t)

-----------------------------------------------------------------------------
(* Logs that stand straight. *)

LEMMA ConcatStraight ==
  ASSUME NEW l \in Seq(Entry), NEW u \in Seq(Entry), u # <<>>,
         NEW p \in Nat, p <= Len(l), \A n \in DOMAIN u : u[n].index = p + n
  PROVE  /\ Straight(l \o u) <=> Straight(l) /\ p = Len(l)
         /\ ~IsInjective(l) => ~IsInjective(l \o u)
         /\ Straight(l) /\ p < Len(l) /\ l[p + 1] = u[1] => ~IsInjective(l \o u)
<1> DEFINE both == l \o u
<1>1. /\ Len(l) \in Nat /\ Len(u) \in Nat \ {0}
      /\ DOMAIN l = 1..Len(l) /\ DOMAIN u = 1..Len(u)
  BY LenProperties, EmptySeq
<1>2. /\ both \in Seq(Entry) /\ Len(both) = Len(l) + Len(u)
      /\ DOMAIN both = 1..(Len(l) + Len(u))
  BY ConcatProperties, LenProperties
<1>3. \A n \in 1..Len(l) : both[n] = l[n]
  BY <1>1, ConcatProperties
<1>4. \A n \in 1..Len(u) : both[Len(l) + n] = u[n]
  <2> SUFFICES ASSUME NEW n \in 1..Len(u) PROVE both[Len(l) + n] = u[n]
    OBVIOUS
  <2>1. Len(l) + n \in 1..(Len(l) + Len(u)) /\ ~(Len(l) + n <= Len(l))
        /\ Len(l) + n - Len(l) = n
    BY <1>1
  <2> QED
    BY <2>1, ConcatProperties
<1> HIDE DEF both
<1>5. Straight(both) => Straight(l) /\ p = Len(l)
  <2> SUFFICES ASSUME Straight(both) PROVE Straight(l) /\ p = Len(l)
    OBVIOUS
  <2>1. Straight(l)
    BY <1>1, <1>2, <1>3 DEF Straight
  <2>2. both[Len(l) + 1].index - 1 = Len(l)
    <3> DEFINE x == Len(l) + 1
    <3>1. x \in DOMAIN both /\ x - 1 = Len(l)
      BY <1>1, <1>2
    <3> HIDE DEF x
    <3>2. both[x].index = x
      BY <3>1 DEF Straight
    <3>3. both[x].index - 1 = Len(l)
      BY <3>1, <3>2
    <3> QED
      BY <3>3 DEF x
  <2>3. both[Len(l) + 1] = u[1] /\ u[1].index - 1 = p
    BY <1>1, <1>4
  <2> QED
    BY <2>1, <2>2, <2>3
<1>6. Straight(l) /\ p = Len(l) => Straight(both)
  <2> SUFFICES ASSUME Straight(l), p = Len(l), NEW k \in DOMAIN both PROVE both[k].index = k
    BY DEF Straight
  <2>1. CASE k <= Len(l)
    BY <1>1, <1>2, <1>3, <2>1 DEF Straight
  <2>2. CASE k > Len(l)
    <3>1. k - Len(l) \in 1..Len(u) /\ Len(l) + (k - Len(l)) = k
      BY <1>1, <1>2, <2>2
    <3>2. both[k] = u[k - Len(l)] /\ u[k - Len(l)].index = p + (k - Len(l))
      BY <1>1, <1>4, <3>1
    <3> QED
      BY <3>1, <3>2
  <2> QED
    BY <1>1, <1>2, <2>1, <2>2
<1>7. ~IsInjective(l) => ~IsInjective(both)
  <2> SUFFICES ASSUME IsInjective(both) PROVE IsInjective(l)
    OBVIOUS
  <2> QED
    BY <1>1, <1>2, <1>3 DEF IsInjective
<1>8. Straight(l) /\ p < Len(l) /\ l[p + 1] = u[1] => ~IsInjective(both)
  <2> SUFFICES ASSUME p < Len(l), l[p + 1] = u[1] PROVE ~IsInjective(both)
    OBVIOUS
  <2>1. /\ p + 1 \in DOMAIN both /\ Len(l) + 1 \in DOMAIN both /\ p + 1 # Len(l) + 1
        /\ both[p + 1] = l[p + 1] /\ both[Len(l) + 1] = u[1]
    BY <1>1, <1>2, <1>3, <1>4
  <2> QED
    BY <2>1 DEF IsInjective
<1> QED
  BY <1>5, <1>6, <1>7, <1>8 DEF both

LEMMA CommandsConcat ==
  ASSUME NEW S, \A e \in S : e.command \in Command, NEW l \in Seq(S), NEW u \in Seq(S)
  PROVE  Commands(l \o u) = Commands(l) \o Commands(u)
<1> DEFINE both == l \o u
           cl == Commands(l)
           cu == Commands(u)
           cb == Commands(both)
<1>1. /\ Len(l) \in Nat /\ Len(u) \in Nat
      /\ DOMAIN l = 1..Len(l) /\ DOMAIN u = 1..Len(u)
  BY LenProperties
<1>2. /\ both \in Seq(S) /\ Len(both) = Len(l) + Len(u)
      /\ DOMAIN both = 1..(Len(l) + Len(u))
      /\ \A n \in 1..(Len(l) + Len(u)) : both[n] = IF n <= Len(l) THEN l[n] ELSE u[n - Len(l)]
  BY ConcatProperties, LenProperties
<1> HIDE DEF both
<1>3. cl \in Seq(Command) /\ cu \in Seq(Command) /\ cb \in Seq(Command)
  BY <1>2, CommandsType
<1>4. /\ DOMAIN cl = 1..Len(l) /\ \A n \in 1..Len(l) : cl[n] = l[n].command
      /\ DOMAIN cu = 1..Len(u) /\ \A n \in 1..Len(u) : cu[n] = u[n].command
      /\ DOMAIN cb = 1..(Len(l) + Len(u))
      /\ \A n \in 1..(Len(l) + Len(u)) : cb[n] = both[n].command
  BY <1>1, <1>2 DEF Commands
<1> HIDE DEF cl, cu, cb
<1>5. Len(cl) = Len(l) /\ Len(cu) = Len(u) /\ Len(cb) = Len(l) + Len(u)
  BY <1>1, <1>3, <1>4, LenProperties
<1>6. /\ cl \o cu \in Seq(Command) /\ Len(cl \o cu) = Len(l) + Len(u)
      /\ \A n \in 1..(Len(l) + Len(u)) :
           (cl \o cu)[n] = IF n <= Len(l) THEN cl[n] ELSE cu[n - Len(l)]
  <2>1. /\ cl \o cu \in Seq(Command) /\ Len(cl \o cu) = Len(cl) + Len(cu)
        /\ \A n \in 1..Len(cl) + Len(cu) :
             (cl \o cu)[n] = IF n <= Len(cl) THEN cl[n] ELSE cu[n - Len(cl)]
    BY <1>3, ConcatProperties
  <2> QED
    BY <1>5, <2>1
<1>7. \A n \in 1..Len(cb) : cb[n] = (cl \o cu)[n]
  <2> SUFFICES ASSUME NEW n \in 1..(Len(l) + Len(u)) PROVE cb[n] = (cl \o cu)[n]
    BY <1>5
  <2> DEFINE joined == cl \o cu
  <2>1. /\ joined[n] = IF n <= Len(l) THEN cl[n] ELSE cu[n - Len(l)]
        /\ both[n] = IF n <= Len(l) THEN l[n] ELSE u[n - Len(l)]
        /\ cb[n] = both[n].command
    BY <1>2, <1>4, <1>6
  <2> HIDE DEF joined
  <2>2. n <= Len(l) => n \in 1..Len(l)
    BY <1>1
  <2>3. ~(n <= Len(l)) => n - Len(l) \in 1..Len(u)
    BY <1>1
  <2>4. cb[n] = joined[n]
    BY <1>4, <2>1, <2>2, <2>3
  <2> QED
    BY <2>4 DEF joined
<1>8. cb = cl \o cu
  BY <1>3, <1>5, <1>6, <1>7, SeqEqual
<1> QED
  BY <1>8 DEF cb, cl, cu, both

LEMMA JoinTwice ==
  ASSUME NEW S, NEW a \in Seq(S), NEW b \in Seq(S), NEW c \in Seq(S)
  PROVE  (a \o b) \o c = a \o (b \o c)
BY ConcatAssociative

\* The beginning of a log stays what it is when entries are added.
LEMMA BeginningStays ==
  ASSUME NEW l \in Seq(Entry), NEW u \in Seq(Entry), NEW n \in Nat, n <= Len(l)
  PROVE  SubSeq(l \o u, 1, n) = SubSeq(l, 1, n)
<1>1. CASE n = 0
  BY <1>1, SubSeqEmpty
<1>2. CASE n # 0
  <2>1. 1 \in 1..Len(l) /\ n \in 1..Len(l)
    BY <1>2, LenProperties
  <2> QED
    BY <2>1, SubSeqOfConcat1
<1> QED
  BY <1>1, <1>2

-----------------------------------------------------------------------------
(* Requests on their way. *)

LEMMA PipedMore ==
  ASSUME NEW s \in Seq(Call), NEW u \in Seq(Call), NEW from \in Nat, NEW to \in Nat,
         Piped(s, from, to), \A n \in DOMAIN u : ~IsAppend(u[n])
  PROVE  Piped(s \o u, from, to)
<1> DEFINE both == s \o u
<1>1. /\ Len(s) \in Nat /\ DOMAIN s = 1..Len(s)
      /\ \A n \in DOMAIN s : n \in DOMAIN both /\ both[n] = s[n]
  <2>1. Len(s) \in Nat /\ Len(u) \in Nat /\ DOMAIN s = 1..Len(s)
        /\ DOMAIN both = 1..(Len(s) + Len(u))
    BY ConcatProperties, LenProperties
  <2>2. \A n \in 1..Len(s) : both[n] = s[n]
    BY <2>1, ConcatProperties
  <2> QED
    BY <2>1, <2>2
<1>2. \A n \in DOMAIN both : IsAppend(both[n]) => n \in DOMAIN s /\ both[n] = s[n]
  BY ConcatIndex
<1> HIDE DEF both
<1>3. Piped(both, from, to)
  <2>1. \A k \in DOMAIN both : IsAppend(both[k]) =>
          Len(both[k].entries) = 1 /\ both[k].prevIndex >= from /\ both[k].prevIndex < to
    BY <1>2 DEF Piped
  <2>2. \A k, n \in DOMAIN both : IsAppend(both[k]) /\ IsAppend(both[n]) /\ k < n
                                    => both[k].prevIndex < both[n].prevIndex
    BY <1>2 DEF Piped
  <2>3. \A q \in Nat : q >= from /\ q < to =>
          \E k \in DOMAIN both : IsAppend(both[k]) /\ both[k].prevIndex = q
    BY <1>1 DEF Piped
  <2> QED
    BY <2>1, <2>2, <2>3 DEF Piped
<1> QED
  BY <1>3 DEF both

LEMMA PipedNext ==
  ASSUME NEW s \in Seq(Call), NEW m \in AppendCall, NEW from \in Nat, NEW to \in Nat,
         Piped(s, from, to), from <= to, Len(m.entries) = 1, m.prevIndex = to
  PROVE  Piped(s \o <<m>>, from, to + 1)
<1> DEFINE both == s \o <<m>>
           last == Len(s) + 1
<1>1. /\ \A n \in DOMAIN s : n \in DOMAIN both /\ both[n] = s[n] /\ n < last
      /\ last \in DOMAIN both /\ both[last] = m
      /\ \A n \in DOMAIN both : n \in DOMAIN s \/ n = last
  <2>1. m \in Call /\ <<m>> \in Seq(Call) /\ Len(<<m>>) = 1 /\ <<m>>[1] = m
    BY DEF Call
  <2>2. Len(s) \in Nat /\ DOMAIN s = 1..Len(s) /\ DOMAIN both = 1..(Len(s) + 1)
    BY <2>1, ConcatProperties, LenProperties
  <2>3. \A n \in 1..(Len(s) + 1) : both[n] = IF n <= Len(s) THEN s[n] ELSE <<m>>[n - Len(s)]
    BY <2>1, ConcatProperties
  <2>4. both[last] = m
    <3>1. last \in 1..(Len(s) + 1) /\ ~(last <= Len(s)) /\ last - Len(s) = 1
      BY <2>2
    <3> QED
      BY <2>1, <2>3, <3>1
  <2> QED
    BY <2>2, <2>3, <2>4
<1>2. IsAppend(m) /\ m.prevIndex \in Nat
  BY DEF IsAppend, AppendCall
<1>3. \A n \in DOMAIN s : s[n] \in Call
  BY LenProperties, ElementOfSeq
<1>4. \A n \in DOMAIN s : IsAppend(s[n]) => s[n].prevIndex \in Nat
  BY <1>3, AppendCallType DEF IsAppend, AppendCall
<1> HIDE DEF both, last
<1>5. \A k \in DOMAIN both : IsAppend(both[k]) =>
        Len(both[k].entries) = 1 /\ both[k].prevIndex >= from /\ both[k].prevIndex < to + 1
  <2> SUFFICES ASSUME NEW k \in DOMAIN both, IsAppend(both[k])
               PROVE  /\ Len(both[k].entries) = 1
                      /\ both[k].prevIndex >= from /\ both[k].prevIndex < to + 1
    OBVIOUS
  <2>1. CASE k \in DOMAIN s
    <3>1. both[k] = s[k] /\ IsAppend(s[k])
      BY <1>1, <2>1
    <3>2. Len(s[k].entries) = 1 /\ s[k].prevIndex >= from /\ s[k].prevIndex < to
      BY <2>1, <3>1 DEF Piped
    <3>3. s[k].prevIndex \in Nat
      BY <1>4, <2>1, <3>1
    <3> QED
      BY <3>1, <3>2, <3>3
  <2>2. CASE k = last
    BY <1>1, <1>2, <2>2
  <2> QED
    BY <1>1, <2>1, <2>2
<1>6. \A k, n \in DOMAIN both : IsAppend(both[k]) /\ IsAppend(both[n]) /\ k < n
                                  => both[k].prevIndex < both[n].prevIndex
  <2> SUFFICES ASSUME NEW k \in DOMAIN both, NEW n \in DOMAIN both,
                      IsAppend(both[k]), IsAppend(both[n]), k < n
               PROVE  both[k].prevIndex < both[n].prevIndex
    OBVIOUS
  <2>1. CASE k \in DOMAIN s /\ n \in DOMAIN s
    BY <1>1, <2>1 DEF Piped
  <2>2. CASE k \in DOMAIN s /\ n = last
    BY <1>1, <2>2 DEF Piped
  <2>3. CASE k = last
    <3>1. last \in Nat /\ \A p \in DOMAIN s : p \in Nat
      BY LenProperties DEF last
    <3>2. ~(last < n)
      <4>1. CASE n \in DOMAIN s
        BY <1>1, <3>1, <4>1
      <4>2. CASE n = last
        BY <3>1, <4>2
      <4> QED
        BY <1>1, <4>1, <4>2
    <3> QED
      BY <2>3, <3>2
  <2> QED
    BY <1>1, <2>1, <2>2, <2>3
<1>7. \A q \in Nat : q >= from /\ q < to + 1 =>
        \E k \in DOMAIN both : IsAppend(both[k]) /\ both[k].prevIndex = q
  <2> SUFFICES ASSUME NEW q \in Nat, q >= from, q < to + 1
               PROVE  \E k \in DOMAIN both : IsAppend(both[k]) /\ both[k].prevIndex = q
    OBVIOUS
  <2>1. CASE q < to
    BY <1>1, <2>1 DEF Piped
  <2>2. CASE q = to
    BY <1>1, <1>2, <2>2
  <2> QED
    BY <2>1, <2>2
<1>8. Piped(both, from, to + 1)
  BY <1>5, <1>6, <1>7 DEF Piped
<1> QED
  BY <1>8 DEF both

\* The first request of a pipe is the next one the follower can take.
LEMMA PipedFirst ==
  ASSUME NEW s \in Seq(Call), s # <<>>, NEW from \in Nat, NEW to \in Nat, Piped(s, from, to)
  PROVE  /\ ~IsAppend(s[1]) => Piped(RemoveAt(s, 1), from, to)
         /\ IsAppend(s[1]) => /\ s[1].prevIndex = from
                              /\ Len(s[1].entries) = 1
                              /\ Piped(RemoveAt(s, 1), from + 1, to)
<1> DEFINE rest == RemoveAt(s, 1)
<1>1. /\ Len(s) \in Nat \ {0} /\ DOMAIN s = 1..Len(s) /\ 1 \in DOMAIN s
      /\ DOMAIN rest = 1..(Len(s) - 1)
      /\ \A n \in 1..(Len(s) - 1) : rest[n] = s[n + 1]
  <2>1. Len(s) \in Nat \ {0} /\ DOMAIN s = 1..Len(s) /\ 1 \in DOMAIN s
    <3>1. Len(s) \in Nat /\ DOMAIN s = 1..Len(s)
      BY LenProperties
    <3>2. Len(s) # 0
      BY EmptySeq
    <3> QED
      BY <3>1, <3>2
  <2>2. /\ rest \in Seq(Call) /\ Len(rest) = Len(s) - 1
        /\ \A n \in 1..(Len(s) - 1) : rest[n] = s[IF n < 1 THEN n ELSE n + 1]
    BY <2>1, RemoveAtElements
  <2> QED
    BY <2>1, <2>2, LenProperties
<1>2. \A n \in DOMAIN s : IsAppend(s[n]) => s[n].prevIndex \in Nat
  <2>1. \A n \in DOMAIN s : s[n] \in Call
    BY LenProperties, ElementOfSeq
  <2> QED
    BY <2>1, AppendCallType DEF IsAppend, AppendCall
<1>3. \A n \in DOMAIN rest :
        n + 1 \in DOMAIN s /\ rest[n] = s[n + 1] /\ n \in Nat /\ 1 < n + 1
  BY <1>1
<1>4. ASSUME NEW k \in DOMAIN s, k # 1
      PROVE  k - 1 \in DOMAIN rest /\ rest[k - 1] = s[k] /\ 1 < k
  <2>1. k - 1 \in 1..(Len(s) - 1) /\ 1 < k /\ (k - 1) + 1 = k
    BY <1>1, <1>4
  <2> QED
    BY <1>1, <2>1
<1> HIDE DEF rest
<1>5. \A k \in DOMAIN rest : IsAppend(rest[k]) =>
        Len(rest[k].entries) = 1 /\ rest[k].prevIndex >= from /\ rest[k].prevIndex < to
  BY <1>3 DEF Piped
<1>6. \A k, n \in DOMAIN rest : IsAppend(rest[k]) /\ IsAppend(rest[n]) /\ k < n
                                  => rest[k].prevIndex < rest[n].prevIndex
  <2> SUFFICES ASSUME NEW k \in DOMAIN rest, NEW n \in DOMAIN rest,
                      IsAppend(rest[k]), IsAppend(rest[n]), k < n
               PROVE  rest[k].prevIndex < rest[n].prevIndex
    OBVIOUS
  <2>1. k + 1 < n + 1
    BY <1>3
  <2> QED
    BY <1>3, <2>1 DEF Piped
<1>7. CASE ~IsAppend(s[1])
  <2>1. \A q \in Nat : q >= from /\ q < to =>
          \E k \in DOMAIN rest : IsAppend(rest[k]) /\ rest[k].prevIndex = q
    BY <1>4, <1>7 DEF Piped
  <2>2. Piped(rest, from, to)
    BY <1>5, <1>6, <2>1 DEF Piped
  <2> QED
    BY <1>7, <2>2 DEF rest
<1>8. CASE IsAppend(s[1])
  <2>1. /\ Len(s[1].entries) = 1 /\ s[1].prevIndex \in Nat
        /\ s[1].prevIndex >= from /\ s[1].prevIndex < to
    BY <1>1, <1>2, <1>8 DEF Piped
  <2>2. PICK k \in DOMAIN s : IsAppend(s[k]) /\ s[k].prevIndex = from
    BY <2>1 DEF Piped
  <2>3. k # 1 => s[1].prevIndex < s[k].prevIndex
    BY <1>1, <1>4, <1>8, <2>2 DEF Piped
  <2>4. s[1].prevIndex = from
    BY <2>1, <2>2, <2>3
  <2>5. \A n \in DOMAIN rest : IsAppend(rest[n]) => rest[n].prevIndex >= from + 1
    <3> SUFFICES ASSUME NEW n \in DOMAIN rest, IsAppend(rest[n])
                 PROVE  rest[n].prevIndex >= from + 1
      OBVIOUS
    <3>1. n + 1 \in DOMAIN s /\ rest[n] = s[n + 1] /\ 1 < n + 1
      BY <1>3
    <3>2. s[1].prevIndex < s[n + 1].prevIndex /\ s[n + 1].prevIndex \in Nat
      BY <1>1, <1>2, <1>8, <3>1 DEF Piped
    <3> QED
      BY <2>4, <3>1, <3>2
  <2>6. \A q \in Nat : q >= from + 1 /\ q < to =>
          \E n \in DOMAIN rest : IsAppend(rest[n]) /\ rest[n].prevIndex = q
    <3> SUFFICES ASSUME NEW q \in Nat, q >= from + 1, q < to
                 PROVE  \E n \in DOMAIN rest : IsAppend(rest[n]) /\ rest[n].prevIndex = q
      OBVIOUS
    <3>1. PICK n \in DOMAIN s : IsAppend(s[n]) /\ s[n].prevIndex = q
      BY DEF Piped
    <3>2. n # 1
      BY <2>4, <3>1
    <3> QED
      BY <1>4, <3>1, <3>2
  <2>7. Piped(rest, from + 1, to)
    BY <1>5, <1>6, <2>5, <2>6 DEF Piped
  <2> QED
    BY <1>8, <2>1, <2>4, <2>7 DEF rest
<1> QED
  BY <1>7, <1>8

-----------------------------------------------------------------------------
(* Nobody calls itself. *)

LEMMA RemovalIsToOthers ==
  ASSUME TypeOK, NoCallsToSelf, NEW i \in Node, NEW j \in Node, NEW k \in Arrived(j, i),
         calls' = [calls EXCEPT ![j][i] = RemoveAt(@, k)]
  PROVE  NoCallsToSelf'
<1>1. k \in DOMAIN calls[j][i]
  BY ArrivedType DEF TypeOK
<1>2. j # i
  BY <1>1 DEF NoCallsToSelf
<1>3. \A n \in Node : calls'[n][n] = calls[n][n]
  BY <1>2 DEF TypeOK, NetTypeOK
<1> QED
  BY <1>3 DEF NoCallsToSelf

LEMMA CutToOthers ==
  ASSUME TypeOK, NoCallsToSelf, NEW i \in Node, NEW j \in Node, Cut(i, j)
  PROVE  NoCallsToSelf'
<1>1. PICK n \in 0..Len(calls[i][j]) :
        calls' = [calls EXCEPT ![i][j] = [k \in 1..n |-> [@[k] EXCEPT !.live = FALSE]]]
  BY DEF Cut
<1>2. CASE i = j
  <2>1. calls[i][j] = <<>> /\ n = 0
    BY <1>2 DEF NoCallsToSelf
  <2>2. [k \in 1..n |-> [calls[i][j][k] EXCEPT !.live = FALSE]] = <<>>
    BY <2>1
  <2>3. \A m \in Node : calls'[m][m] = IF m = i THEN <<>> ELSE calls[m][m]
    BY <1>1, <1>2, <2>2 DEF TypeOK, NetTypeOK
  <2> QED
    BY <2>3 DEF NoCallsToSelf
<1>3. CASE i # j
  <2>1. \A m \in Node : calls'[m][m] = calls[m][m]
    BY <1>1, <1>3 DEF TypeOK, NetTypeOK
  <2> QED
    BY <2>1 DEF NoCallsToSelf
<1> QED
  BY <1>2, <1>3

LEMMA NextCallsOthers ==
  ASSUME TypeOK, NoCallsToSelf, [Next]_vars
  PROVE  NoCallsToSelf'
<1>1. CASE calls' = calls
  BY <1>1 DEF NoCallsToSelf
<1>2. ASSUME NEW i \in Node, NEW batch, Broadcast(i, batch)
      PROVE  NoCallsToSelf'
  <2>1. \A n \in Node : calls'[n][n] = calls[n][n]
    BY <1>2 DEF Broadcast, TypeOK, NetTypeOK
  <2> QED
    BY <2>1 DEF NoCallsToSelf
<1>3. ASSUME NEW i \in Node, ElectionTimeout(i) \/ HeartbeatTick(i) \/ Restart(i)
      PROVE  NoCallsToSelf'
  <2>1. CASE ElectionTimeout(i)
    BY <1>2, <2>1 DEF ElectionTimeout
  <2>2. CASE HeartbeatTick(i)
    BY <1>2, <2>2 DEF HeartbeatTick
  <2>3. CASE Restart(i)
    BY <2>3 DEF Restart, NoCallsToSelf
  <2> QED
    BY <1>3, <2>1, <2>2, <2>3
<1>4. ASSUME NEW i \in Node, NEW j \in Node, HandleCall(i, j) \/ FailAppend(i, j)
      PROVE  NoCallsToSelf'
  <2>1. CASE AcceptHeartbeat(i, j) \/ AcceptEntries(i, j)
    <3>1. PICK k \in Arrived(j, i) : \E a : RespondIfAlive(i, j, k, a)
      BY <2>1 DEF AcceptHeartbeat, AcceptEntries
    <3>2. calls' = [calls EXCEPT ![j][i] = RemoveAt(@, k)]
      BY <3>1, RespondIfAliveRemoves
    <3> QED
      BY <3>2, RemovalIsToOthers
  <2>2. CASE ~(AcceptHeartbeat(i, j) \/ AcceptEntries(i, j))
    <3>1. PICK k \in Arrived(j, i) : calls' = [calls EXCEPT ![j][i] = RemoveAt(@, k)]
      BY <1>4, <2>2 DEF HandleCall, RefuseStaleVote, AnswerVote, RefuseStaleAppend, RefuseGap,
        FailAppend, Respond
    <3> QED
      BY <3>1, RemovalIsToOthers
  <2> QED
    BY <2>1, <2>2
<1>5. ASSUME NEW i \in Node, NEW j \in Node, HandleAnswer(i, j)
      PROVE  calls' = calls
  BY <1>5 DEF HandleAnswer, IgnoreAnswer, StepDown, CountVote, BecomeLeader, NoteConflict,
    NoteMatch
<1>6. ASSUME NEW i \in Node, NEW c \in Command, Client(i, c) \/ FailPropose(i, c)
      PROVE  NoCallsToSelf'
  <2>1. CASE Propose(i, c)
    <3>1. \E batch : Broadcast(i, batch)
      BY <2>1 DEF Propose
    <3> QED
      BY <1>2, <3>1
  <2>2. CASE Redirect(i, c) \/ FailPropose(i, c)
    BY <1>1, <2>2 DEF Redirect, FailPropose, netVars
  <2> QED
    BY <1>6, <2>1, <2>2 DEF Client
<1>7. ASSUME NEW c \in Command, LoseClient(c)
      PROVE  calls' = calls
  BY <1>7 DEF LoseClient, netVars
<1>8. CASE UNCHANGED vars
  BY <1>1, <1>8 DEF vars, netVars
<1> QED
  BY <1>1, <1>3, <1>4, <1>5, <1>6, <1>7, <1>8, CutToOthers DEF Next, Fault

-----------------------------------------------------------------------------
(* What the winner's log says of everything else. *)

LEMMA WinnerFacts ==
  ASSUME EntryInv, NoCallsToSelf, NEW w \in Node, NEW t \in Nat, elected = {<<w, t>>}
  PROVE  /\ \A i \in Node : role[i] = "leader" => i = w /\ currentTerm[i] = t
         /\ \A e \in Held : e.term = t
         /\ \A i, j \in Node : \A k \in DOMAIN calls[i][j] :
              calls[i][j][k].type # "vote" => i = w /\ j # w /\ calls[i][j][k].term = t
<1>1. \A i \in Node : role[i] = "leader" => i = w /\ currentTerm[i] = t
  BY DEF EntryInv, ElectionInv, RolesMatchWins
<1>2. \A e \in Held : e.term = t
  BY DEF EntryInv, HeldAreGenuine
<1>3. ASSUME NEW i \in Node, NEW j \in Node, NEW k \in DOMAIN calls[i][j],
             calls[i][j][k].type # "vote"
      PROVE  i = w /\ j # w /\ calls[i][j][k].term = t
  <2>1. <<i, calls[i][j][k].term>> \in elected
    BY <1>3 DEF EntryInv, ElectionInv, AppendsComeFromElected
  <2>2. i # j
    BY DEF NoCallsToSelf
  <2> QED
    BY <2>1, <2>2
<1> QED
  BY <1>1, <1>2, <1>3

LEMMA StraightIsPrefix ==
  ASSUME TypeOK, NEW w \in Node, WinnerHolds(w), NEW i \in Node, Straight(log[i])
  PROVE  /\ Len(log[i]) <= Len(log[w])
         /\ \A k \in DOMAIN log[i] : k \in DOMAIN log[w] /\ log[w][k] = log[i][k]
<1>1. /\ Len(log[i]) \in Nat /\ DOMAIN log[i] = 1..Len(log[i])
      /\ Len(log[w]) \in Nat /\ DOMAIN log[w] = 1..Len(log[w])
  BY LenProperties DEF TypeOK, LogTypeOK
<1>2. \A k \in DOMAIN log[i] : log[i][k] \in Held
  BY HeldEntries DEF ToSet
<1>3. \A k \in DOMAIN log[i] : k \in DOMAIN log[w] /\ log[w][k] = log[i][k]
  BY <1>2 DEF WinnerHolds, AtItsIndex, Straight
<1>4. Len(log[i]) <= Len(log[w])
  <2>1. CASE Len(log[i]) = 0
    BY <1>1, <2>1
  <2>2. CASE Len(log[i]) # 0
    <3>1. Len(log[i]) \in DOMAIN log[i]
      BY <1>1, <2>2
    <3>2. Len(log[i]) \in 1..Len(log[w])
      BY <1>1, <1>3, <3>1
    <3> QED
      BY <1>1, <3>2
  <2> QED
    BY <2>1, <2>2
<1> QED
  BY <1>3, <1>4

\* Steps that leave logs and what is executed as they are.
QuietLogs ==
  /\ UNCHANGED <<log, down, tasks, executed, commitIndex, lastApplied>>
  /\ \A n \in Node : disk'[n].last = disk[n].last /\ disk'[n].entries = disk[n].entries
  /\ faults'.restarts >= faults.restarts

LEMMA QuietWinner ==
  ASSUME EntryInv, EntryInv', NEW w \in Node, NEW t \in Nat, WithWinner(w, t), QuietLogs,
         Held' \subseteq Held, role'[w] = "leader" => role[w] = "leader",
         WireIsStraight', NothingMissing(w, t)'
  PROVE  WithWinner(w, t)'
<1> USE DEF WithWinner, QuietLogs
<1>1. WinnerHolds(w)'
  BY DEF WinnerHolds
<1>2. LogsFollowOrRepeat'
  BY DEF LogsFollowOrRepeat
<1>3. DisksFollow'
  BY DEF DisksFollow, Stores
<1>4. NobodyAhead(w)'
  BY DEF NobodyAhead, Recoverable
<1>5. LeaderExecutes(w)'
  BY DEF LeaderExecutes
<1>6. FollowersExecute(w)'
  <2>1. faults'.restarts = 0 => faults.restarts = 0
    BY DEF EntryInv, ElectionInv, TypeOK, FaultTypeOK
  <2> QED
    BY <2>1 DEF FollowersExecute
<1> QED
  BY <1>1, <1>2, <1>3, <1>4, <1>5, <1>6

-----------------------------------------------------------------------------
(* Requests stay straight. *)

LEMMA RemovedStraight ==
  ASSUME TypeOK, WireIsStraight, NEW i \in Node, NEW j \in Node, NEW k \in Arrived(j, i),
         calls' = [calls EXCEPT ![j][i] = RemoveAt(@, k)]
  PROVE  WireIsStraight'
<1> SUFFICES ASSUME NEW a \in Node, NEW b \in Node, NEW n \in DOMAIN calls'[a][b]
             PROVE  \E p \in DOMAIN calls[a][b] : calls'[a][b][n] = calls[a][b][p]
  BY DEF WireIsStraight
<1>1. k \in DOMAIN calls[j][i] /\ calls[j][i] \in Seq(Call)
  BY ArrivedType DEF TypeOK, NetTypeOK
<1>2. CASE a = j /\ b = i
  <2>1. calls'[a][b] = RemoveAt(calls[j][i], k)
    BY <1>2 DEF TypeOK, NetTypeOK
  <2> QED
    BY <1>1, <1>2, <2>1, RemoveAtElement
<1>3. CASE ~(a = j /\ b = i)
  <2>1. calls'[a][b] = calls[a][b]
    BY <1>3 DEF TypeOK, NetTypeOK
  <2> QED
    BY <2>1
<1> QED
  BY <1>2, <1>3

LEMMA BroadcastStraight ==
  ASSUME TypeOK, WireIsStraight, NEW i \in Node, NEW batch, Broadcast(i, batch),
         \A b \in Node \ {i} : batch[b] \in Seq(Call)
                                 /\ \A n \in DOMAIN batch[b] : IsStraightCall(batch[b][n])
  PROVE  WireIsStraight'
<1> SUFFICES ASSUME NEW a \in Node, NEW b \in Node, NEW k \in DOMAIN calls'[a][b]
             PROVE  IsStraightCall(calls'[a][b][k])
  BY DEF WireIsStraight
<1>1. \/ \E n \in DOMAIN calls[a][b] : calls'[a][b][k] = calls[a][b][n]
      \/ a = i /\ b # i /\ \E n \in DOMAIN batch[b] : calls'[a][b][k] = batch[b][n]
  BY BroadcastAdds DEF TypeOK
<1> QED
  BY <1>1 DEF WireIsStraight

LEMMA DeadStraight ==
  ASSUME NEW m \in Call, IsStraightCall(m)
  PROVE  IsStraightCall([m EXCEPT !.live = FALSE])
BY DEF IsStraightCall, Call, VoteCall, AppendCall, HeartbeatCall

LEMMA CutStraight ==
  ASSUME TypeOK, WireIsStraight, NEW i \in Node, NEW j \in Node, Cut(i, j)
  PROVE  WireIsStraight'
<1>1. PICK n \in 0..Len(calls[i][j]) :
        calls' = [calls EXCEPT ![i][j] = [k \in 1..n |-> [@[k] EXCEPT !.live = FALSE]]]
  BY DEF Cut
<1> SUFFICES ASSUME NEW a \in Node, NEW b \in Node, NEW k \in DOMAIN calls'[a][b]
             PROVE  IsStraightCall(calls'[a][b][k])
  BY DEF WireIsStraight
<1>2. CASE a = i /\ b = j
  <2>1. calls[i][j] \in Seq(Call)
    BY DEF TypeOK, NetTypeOK
  <2>2. calls'[a][b] = [p \in 1..n |-> [calls[i][j][p] EXCEPT !.live = FALSE]]
    BY <1>1, <1>2 DEF TypeOK, NetTypeOK
  <2>3. k \in 1..n /\ k \in DOMAIN calls[i][j]
    BY <2>1, <2>2, LenProperties
  <2>4. calls[i][j][k] \in Call
    BY <2>1, <2>3, LenProperties, ElementOfSeq
  <2>5. calls'[a][b][k] = [calls[i][j][k] EXCEPT !.live = FALSE]
    BY <2>2, <2>3
  <2> QED
    BY <2>3, <2>4, <2>5, DeadStraight DEF WireIsStraight
<1>3. CASE ~(a = i /\ b = j)
  <2>1. calls'[a][b] = calls[a][b]
    BY <1>1, <1>3 DEF TypeOK, NetTypeOK
  <2> QED
    BY <2>1 DEF WireIsStraight
<1> QED
  BY <1>2, <1>3

LEMMA RestartStraight ==
  ASSUME TypeOK, WireIsStraight, NEW i \in Node, Restart(i)
  PROVE  WireIsStraight'
<1> SUFFICES ASSUME NEW a \in Node, NEW b \in Node, NEW k \in DOMAIN calls'[a][b]
             PROVE  IsStraightCall(calls'[a][b][k])
  BY DEF WireIsStraight
<1> DEFINE old == calls[a][b]
<1>1. calls'[a][b] = IF b = i THEN <<>>
                     ELSE IF a = i THEN [p \in DOMAIN old |-> [old[p] EXCEPT !.live = FALSE]]
                     ELSE old
  BY DEF Restart
<1>2. b # i
  BY <1>1
<1>3. CASE a = i
  <2>1. k \in DOMAIN old /\ old \in Seq(Call)
    BY <1>1, <1>2, <1>3 DEF TypeOK, NetTypeOK
  <2>2. old[k] \in Call
    BY <2>1, LenProperties, ElementOfSeq
  <2>3. calls'[a][b][k] = [old[k] EXCEPT !.live = FALSE]
    BY <1>1, <1>2, <1>3, <2>1
  <2> QED
    BY <2>1, <2>2, <2>3, DeadStraight DEF WireIsStraight
<1>4. CASE a # i
  BY <1>1, <1>2, <1>4 DEF WireIsStraight
<1> QED
  BY <1>3, <1>4

-----------------------------------------------------------------------------
(* Steps that only take requests and answers, or add requests without entries. *)

Before(w, t) == EntryInv /\ NoCallsToSelf /\ elected = {<<w, t>>} /\ WithWinner(w, t)

TermsStay == \A n \in Node : currentTerm'[n] >= currentTerm[n]

LEMMA PipesStand ==
  ASSUME TypeOK, TypeOK', NEW w \in Node, NEW t \in Nat, NothingMissing(w, t),
         UNCHANGED <<log, elected, faults>>, TermsStay,
         Undisturbed => \A j \in Node \ {w} : nextIndex'[w][j] = nextIndex[w][j],
         Undisturbed => \A j \in Node \ {w} :
           NoRefusal(answers[w][j], t) => NoRefusal(answers'[w][j], t),
         Undisturbed => \A j \in Node \ {w} :
           currentTerm'[j] <= t /\ Piped(calls[w][j], Len(log[j]), Len(log[w]))
             => Piped(calls'[w][j], Len(log[j]), Len(log[w]))
  PROVE  NothingMissing(w, t)'
<1> SUFFICES ASSUME Undisturbed'
             PROVE  /\ \A i \in Node : Straight(log'[i])
                    /\ \A j \in Node \ {w} :
                         /\ nextIndex'[w][j] = 0
                         /\ NoRefusal(answers'[w][j], t)
                         /\ currentTerm'[j] <= t => Piped(calls'[w][j], Len(log'[j]), Len(log'[w]))
  BY DEF NothingMissing
<1>1. Undisturbed
  BY DEF Undisturbed, OneWin
<1>2. \A i \in Node : Straight(log[i])
  BY <1>1 DEF NothingMissing
<1>3. ASSUME NEW j \in Node \ {w}
      PROVE  /\ nextIndex'[w][j] = 0
             /\ NoRefusal(answers'[w][j], t)
             /\ currentTerm'[j] <= t => Piped(calls'[w][j], Len(log[j]), Len(log[w]))
  <2>1. /\ nextIndex[w][j] = 0 /\ NoRefusal(answers[w][j], t)
        /\ currentTerm[j] <= t => Piped(calls[w][j], Len(log[j]), Len(log[w]))
    BY <1>1 DEF NothingMissing
  <2>2. currentTerm'[j] <= t => currentTerm[j] <= t
    BY DEF TermsStay, TypeOK, RaftTypeOK
  <2> QED
    BY <1>1, <2>1, <2>2
<1> QED
  BY <1>2, <1>3

LEMMA AnsweredStand ==
  ASSUME NetTypeOK, NEW w \in Node, NEW t \in Nat, NEW i \in Node, NEW j \in Node, NEW a \in Answer,
         answers' = answers \/ answers' = [answers EXCEPT ![j][i] = Append(@, a)],
         j = w /\ a.type = "append" /\ a.term = t => a.success,
         NEW n \in Node, NoRefusal(answers[w][n], t)
  PROVE  NoRefusal(answers'[w][n], t)
<1>0. answers[j][i] \in Seq(Answer)
  BY DEF NetTypeOK
<1>1. CASE answers' = [answers EXCEPT ![j][i] = Append(@, a)] /\ j = w /\ n = i
  <2>1. answers'[w][n] = Append(answers[j][i], a)
    BY <1>1 DEF NetTypeOK
  <2>2. \A p \in DOMAIN Append(answers[j][i], a) :
          \/ p \in DOMAIN answers[j][i] /\ Append(answers[j][i], a)[p] = answers[j][i][p]
          \/ Append(answers[j][i], a)[p] = a
    <3>1. /\ Len(answers[j][i]) \in Nat /\ DOMAIN answers[j][i] = 1..Len(answers[j][i])
          /\ DOMAIN Append(answers[j][i], a) = 1..(Len(answers[j][i]) + 1)
          /\ \A p \in 1..Len(answers[j][i]) :
               Append(answers[j][i], a)[p] = answers[j][i][p]
          /\ Append(answers[j][i], a)[Len(answers[j][i]) + 1] = a
      BY <1>0, AppendProperties, LenProperties
    <3> QED
      BY <3>1
  <2> QED
    BY <1>1, <2>1, <2>2 DEF NoRefusal
<1>2. CASE answers' = [answers EXCEPT ![j][i] = Append(@, a)] /\ ~(j = w /\ n = i)
  <2>1. answers'[w][n] = answers[w][n]
    BY <1>2 DEF NetTypeOK
  <2> QED
    BY <2>1
<1>3. CASE answers' = answers
  BY <1>3
<1> QED
  BY <1>1, <1>2, <1>3

LEMMA HandledPipes ==
  ASSUME NEW w \in Node, NEW t \in Nat, Before(w, t), EntryInv',
         NEW i \in Node, NEW j \in Node, NEW k \in Arrived(j, i), NEW a \in Answer,
         calls' = [calls EXCEPT ![j][i] = RemoveAt(@, k)],
         answers' = answers \/ answers' = [answers EXCEPT ![j][i] = Append(@, a)],
         UNCHANGED <<log, nextIndex, faults, elected>>, TermsStay,
         j = w /\ Undisturbed /\ a.type = "append" /\ a.term = t => a.success,
         j = w /\ Undisturbed /\ currentTerm'[i] <= t => ~IsAppend(calls[w][i][k])
  PROVE  NothingMissing(w, t)'
<1>1. TypeOK /\ TypeOK' /\ NothingMissing(w, t)
  BY DEF Before, EntryInv, ElectionInv, WithWinner
<1>2. k \in DOMAIN calls[j][i] /\ calls[j][i] \in Seq(Call) /\ answers[j][i] \in Seq(Answer)
  <2>1. k \in DOMAIN calls[j][i]
    BY <1>1, ArrivedType DEF TypeOK
  <2>2. calls[j][i] \in Seq(Call) /\ answers[j][i] \in Seq(Answer)
    BY <1>1 DEF TypeOK, NetTypeOK
  <2> QED
    BY <2>1, <2>2
<1>3. ASSUME Undisturbed, NEW n \in Node \ {w}, NoRefusal(answers[w][n], t)
      PROVE  NoRefusal(answers'[w][n], t)
  BY <1>1, <1>3, AnsweredStand DEF TypeOK
<1>4. ASSUME Undisturbed, NEW n \in Node \ {w}, currentTerm'[n] <= t,
             Piped(calls[w][n], Len(log[n]), Len(log[w]))
      PROVE  Piped(calls'[w][n], Len(log[n]), Len(log[w]))
  <2>1. CASE j = w /\ n = i
    <3>1. k = 1 /\ calls[w][i] # <<>>
      BY <1>2, <1>4, <2>1 DEF Undisturbed, Arrived
    <3>2. calls'[w][n] = RemoveAt(calls[w][i], 1)
      BY <1>1, <2>1, <3>1 DEF TypeOK, NetTypeOK
    <3>3. ~IsAppend(calls[w][i][1])
      BY <1>4, <2>1, <3>1
    <3>4. Len(log[n]) \in Nat /\ Len(log[w]) \in Nat
      BY <1>1, LenProperties DEF TypeOK, LogTypeOK
    <3> QED
      BY <1>2, <1>4, <2>1, <3>1, <3>2, <3>3, <3>4, PipedFirst
  <2>2. CASE ~(j = w /\ n = i)
    <3>1. calls'[w][n] = calls[w][n]
      BY <1>1, <2>2 DEF TypeOK, NetTypeOK
    <3> QED
      BY <1>4, <3>1
  <2> QED
    BY <2>1, <2>2
<1> QED
  BY <1>1, <1>3, <1>4, PipesStand

\* A step of a running node while w, in term t, is the only winner.
Calm(w, t) ==
  /\ Before(w, t) /\ EntryInv' /\ elected' = elected /\ TermsStay
  /\ \A n \in Node : role'[n] = "leader" => role[n] = "leader"

LEMMA QuietHeld ==
  ASSUME TypeOK, QuietLogs, WireFromHeld
  PROVE  Held' \subseteq Held
<1>1. LogsFromHeld
  BY SameHeld DEF QuietLogs
<1>2. DisksFromHeld
  BY HeldEntries DEF QuietLogs, DisksFromHeld
<1> QED
  BY <1>1, <1>2, FromHeld

\* Nothing is left to show about what is missing once there was a disturbance.
LEMMA DisturbedSteady ==
  ASSUME ~Undisturbed', NEW w, NEW t
  PROVE  NothingMissing(w, t)'
BY DEF NothingMissing

LEMMA ElsewhereSteady ==
  ASSUME NEW w \in Node, NEW t \in Nat, Calm(w, t), QuietLogs,
         UNCHANGED <<calls, answers, nextIndex>>, faults' = faults \/ ~Undisturbed'
  PROVE  WithWinner(w, t)'
<1>1. TypeOK /\ TypeOK' /\ EntryInv /\ EntryInv' /\ WithWinner(w, t)
  BY DEF Calm, Before, EntryInv, ElectionInv
<1>2. Held' \subseteq Held
  BY <1>1, SameHeld, QuietHeld
<1>3. WireIsStraight'
  BY <1>1 DEF WireIsStraight, WithWinner
<1>4. NothingMissing(w, t)'
  <2>1. CASE faults' = faults
    BY <1>1, <2>1, PipesStand DEF Calm, WithWinner, QuietLogs
  <2>2. CASE ~Undisturbed'
    BY <2>2, DisturbedSteady
  <2> QED
    BY <2>1, <2>2
<1> QED
  BY <1>1, <1>2, <1>3, <1>4, QuietWinner DEF Calm

LEMMA ConsumedStand ==
  ASSUME NetTypeOK, NEW w \in Node, NEW t \in Nat, NEW i \in Node, NEW j \in Node,
         answers[i][j] # <<>>, Consume(i, j), NEW n \in Node, NoRefusal(answers[w][n], t)
  PROVE  NoRefusal(answers'[w][n], t)
<1>1. CASE w = i /\ n = j
  <2>1. answers'[w][n] = Tail(answers[i][j])
    BY <1>1 DEF Consume, NetTypeOK
  <2>2. answers[i][j] \in Seq(Answer)
    BY DEF NetTypeOK
  <2>3. \A k \in DOMAIN Tail(answers[i][j]) :
          k + 1 \in DOMAIN answers[i][j] /\ Tail(answers[i][j])[k] = answers[i][j][k + 1]
    BY <2>2, HeadTailProperties, EmptySeq, LenProperties
  <2> QED
    BY <1>1, <2>1, <2>3 DEF NoRefusal
<1>2. CASE ~(w = i /\ n = j)
  <2>1. answers'[w][n] = answers[w][n]
    BY <1>2 DEF Consume, NetTypeOK
  <2> QED
    BY <2>1
<1> QED
  BY <1>1, <1>2

LEMMA ConsumedSteady ==
  ASSUME NEW w \in Node, NEW t \in Nat, Calm(w, t), QuietLogs,
         NEW i \in Node, NEW j \in Node, answers[i][j] # <<>>, Consume(i, j),
         UNCHANGED <<calls, faults>>,
         Undisturbed => \A n \in Node \ {w} : nextIndex'[w][n] = nextIndex[w][n]
  PROVE  WithWinner(w, t)'
<1>1. TypeOK /\ TypeOK' /\ EntryInv /\ EntryInv' /\ WithWinner(w, t)
  BY DEF Calm, Before, EntryInv, ElectionInv
<1>2. Held' \subseteq Held
  BY <1>1, SameHeld, QuietHeld
<1>3. WireIsStraight'
  BY <1>1 DEF WireIsStraight, WithWinner
<1>4. \A n \in Node \ {w} : NoRefusal(answers[w][n], t) => NoRefusal(answers'[w][n], t)
  BY <1>1, ConsumedStand DEF TypeOK
<1>5. NothingMissing(w, t)'
  BY <1>1, <1>4, PipesStand DEF Calm, WithWinner, QuietLogs
<1> QED
  BY <1>1, <1>2, <1>3, <1>5, QuietWinner DEF Calm

LEMMA PersistStateKeeps ==
  ASSUME NEW d \in Disk, NEW term, NEW vote
  PROVE  PersistState(d, term, vote).last = d.last /\ PersistState(d, term, vote).entries = d.entries
BY DEF PersistState, Disk

\* The disk of one node keeps its entries.
LEMMA OneDiskQuiet ==
  ASSUME TypeOK, NEW i \in Node, NEW d, d.last = disk[i].last, d.entries = disk[i].entries,
         disk' = [disk EXCEPT ![i] = d]
  PROVE  \A n \in Node : disk'[n].last = disk[n].last /\ disk'[n].entries = disk[n].entries
<1>1. \A n \in Node : disk'[n] = IF n = i THEN d ELSE disk[n]
  BY DEF TypeOK, LogTypeOK
<1> QED
  BY <1>1

LEMMA SameFaults ==
  ASSUME TypeOK, faults' = faults
  PROVE  faults'.restarts >= faults.restarts
BY DEF TypeOK, FaultTypeOK

LEMMA AnswerSteady ==
  ASSUME NEW w \in Node, NEW t \in Nat, Calm(w, t), NEW i \in Node, NEW j \in Node,
         IgnoreAnswer(i, j) \/ StepDown(i, j) \/ CountVote(i, j) \/ NoteConflict(i, j)
  PROVE  WithWinner(w, t)'
<1>1. TypeOK /\ TypeOK' /\ EntryInv /\ NoCallsToSelf /\ WithWinner(w, t) /\ elected = {<<w, t>>}
  BY DEF Calm, Before, EntryInv, ElectionInv
<1>2. /\ Consume(i, j) /\ answers[i][j] # <<>>
      /\ UNCHANGED <<calls, faults, log, down, tasks, executed, commitIndex, lastApplied>>
  BY DEF IgnoreAnswer, StepDown, CountVote, NoteConflict, logVars, applyVars
<1>3. QuietLogs
  <2>1. \A n \in Node : disk'[n].last = disk[n].last /\ disk'[n].entries = disk[n].entries
    <3>1. CASE StepDown(i, j)
      <4>1. PICK term : disk' = [disk EXCEPT ![i] = PersistState(disk[i], term, Nil)]
        BY <3>1 DEF StepDown
      <4>2. disk[i] \in Disk
        BY <1>1 DEF TypeOK, LogTypeOK
      <4> QED
        BY <1>1, <4>1, <4>2, PersistStateKeeps, OneDiskQuiet
    <3>2. CASE ~StepDown(i, j)
      BY <3>2 DEF IgnoreAnswer, CountVote, NoteConflict, logVars
    <3> QED
      BY <3>1, <3>2
  <2> QED
    BY <1>1, <1>2, <2>1, SameFaults DEF QuietLogs
<1>4. ASSUME Undisturbed, NEW n \in Node \ {w}
      PROVE  nextIndex'[w][n] = nextIndex[w][n]
  <2>1. CASE NoteConflict(i, j)
    <3> DEFINE a == Head(answers[i][j])
    <3>1. /\ role[i] = "leader" /\ a.type = "append" /\ ~a.success /\ a.term = currentTerm[i]
          /\ nextIndex' = [nextIndex EXCEPT ![i][j] = a.conflict]
      BY <2>1 DEF NoteConflict
    <3>2. i = w /\ a.term = t
      BY <1>1, <3>1, WinnerFacts
    <3>3. \E k \in DOMAIN answers[i][j] : answers[i][j][k] = a
      <4>1. answers[i][j] \in Seq(Answer)
        BY <1>1 DEF TypeOK, NetTypeOK
      <4> QED
        BY <1>2, <4>1, TailElements DEF ToSet
    <3>4. j \in Node \ {w} => NoRefusal(answers[w][j], t)
      BY <1>1, <1>4 DEF WithWinner, NothingMissing
    <3>5. j = w
      BY <3>1, <3>2, <3>3, <3>4 DEF NoRefusal
    <3> QED
      BY <1>1, <3>1, <3>2, <3>5 DEF TypeOK, LeaderTypeOK
  <2>2. CASE ~NoteConflict(i, j)
    BY <2>2 DEF IgnoreAnswer, StepDown, CountVote, leaderVars
  <2> QED
    BY <2>1, <2>2
<1> QED
  BY <1>2, <1>3, <1>4, ConsumedSteady

LEMMA CutSteady ==
  ASSUME NEW w \in Node, NEW t \in Nat, Calm(w, t), NEW i \in Node, NEW j \in Node, Cut(i, j)
  PROVE  WithWinner(w, t)'
<1>1. TypeOK /\ EntryInv /\ EntryInv' /\ WithWinner(w, t)
  BY DEF Calm, Before, EntryInv, ElectionInv
<1>2. /\ UNCHANGED <<log, disk, down, tasks, executed, commitIndex, lastApplied>>
      /\ faults' = [faults EXCEPT !.cuts = @ + 1]
  BY DEF Cut, logVars, applyVars
<1>3. QuietLogs
  BY <1>1, <1>2 DEF QuietLogs, TypeOK, FaultTypeOK
<1>4. ~Undisturbed'
  BY <1>1, <1>2 DEF Undisturbed, TypeOK, FaultTypeOK
<1>5. Held' \subseteq Held /\ WireIsStraight'
  BY <1>1, CutHeld, CutStraight DEF WithWinner
<1> QED
  BY <1>1, <1>3, <1>4, <1>5, DisturbedSteady, QuietWinner DEF Calm

LEMMA ClientSteady ==
  ASSUME NEW w \in Node, NEW t \in Nat, Calm(w, t), NEW c \in Command,
         LoseClient(c) \/ \E i \in Node : Redirect(i, c) \/ FailPropose(i, c)
  PROVE  WithWinner(w, t)'
<1>1. TypeOK
  BY DEF Calm, Before, EntryInv, ElectionInv
<1>2. /\ UNCHANGED <<log, disk, down, tasks, executed, commitIndex, lastApplied>>
      /\ UNCHANGED <<calls, answers, nextIndex>>
  BY DEF LoseClient, Redirect, FailPropose, logVars, applyVars, netVars, leaderVars
<1>3. faults' = faults \/ faults' = [faults EXCEPT !.writeErrors = @ + 1]
  BY DEF LoseClient, Redirect, FailPropose
<1>4. QuietLogs
  BY <1>1, <1>2, <1>3 DEF QuietLogs, TypeOK, FaultTypeOK
<1>5. faults' = faults \/ ~Undisturbed'
  BY <1>1, <1>3 DEF Undisturbed, TypeOK, FaultTypeOK
<1> QED
  BY <1>2, <1>4, <1>5, ElsewhereSteady

-----------------------------------------------------------------------------
(* Timers. *)

LEMMA ElectionTimeoutSteady ==
  ASSUME NEW w \in Node, NEW t \in Nat, Calm(w, t), NEW i \in Node, ElectionTimeout(i)
  PROVE  WithWinner(w, t)'
<1> DEFINE m == [type |-> "vote", term |-> currentTerm[i] + 1, lastIndex |-> LastIndex(log[i]),
                 lastTerm |-> LastTerm(log[i]), live |-> TRUE]
           batch == [n \in Node |-> <<m>>]
<1>1. TypeOK /\ TypeOK' /\ EntryInv /\ EntryInv' /\ WithWinner(w, t)
  BY DEF Calm, Before, EntryInv, ElectionInv
<1>2. /\ UNCHANGED <<log, disk, down, tasks, executed, commitIndex, lastApplied>>
      /\ UNCHANGED <<answers, nextIndex, faults>>
      /\ Broadcast(i, batch)
  BY DEF ElectionTimeout, logVars, applyVars, leaderVars
<1>3. m \in Call /\ m.type = "vote"
  <2>1. LastIndex(log[i]) \in Nat /\ LastTerm(log[i]) \in Nat
    BY <1>1, LogTermTypes DEF TypeOK, LogTypeOK
  <2> QED
    BY <1>1, <2>1 DEF Call, VoteCall, TypeOK, RaftTypeOK
<1> HIDE DEF m
<1>4. \A b \in Node : batch[b] = <<m>> /\ batch[b] \in Seq(Call) /\ batch[b][1] = m
                        /\ \A n \in DOMAIN batch[b] : batch[b][n] = m
  BY <1>3
<1> HIDE DEF batch
<1>5. QuietLogs
  BY <1>1, <1>2, SameFaults DEF QuietLogs
<1>6. Held' \subseteq Held
  BY <1>1, ElectionTimeoutHeld
<1>7. WireIsStraight'
  BY <1>1, <1>2, <1>3, <1>4, BroadcastStraight DEF IsStraightCall, WithWinner
<1>8. ASSUME NEW j \in Node \ {w}, Piped(calls[w][j], Len(log[j]), Len(log[w]))
      PROVE  Piped(calls'[w][j], Len(log[j]), Len(log[w]))
  <2>1. CASE i = w
    <3>1. calls'[w][j] = calls[w][j] \o batch[j]
      BY <1>1, <1>2, <2>1 DEF Broadcast, TypeOK, NetTypeOK
    <3>2. /\ calls[w][j] \in Seq(Call)
          /\ Len(log[j]) \in Nat /\ Len(log[w]) \in Nat
      BY <1>1, LenProperties DEF TypeOK, NetTypeOK, LogTypeOK
    <3>3. \A n \in DOMAIN batch[j] : ~IsAppend(batch[j][n])
      BY <1>3, <1>4 DEF IsAppend
    <3> QED
      BY <1>4, <1>8, <3>1, <3>2, <3>3, PipedMore
  <2>2. CASE i # w
    <3>1. calls'[w][j] = calls[w][j]
      BY <1>1, <1>2, <2>2 DEF Broadcast, TypeOK, NetTypeOK
    <3> QED
      BY <1>8, <3>1
  <2> QED
    BY <2>1, <2>2
<1>9. NothingMissing(w, t)'
  BY <1>1, <1>2, <1>8, PipesStand DEF Calm, WithWinner
<1> QED
  BY <1>1, <1>5, <1>6, <1>7, <1>9, QuietWinner DEF Calm

\* What is sent again stands straight as well.
LEMMA ReissueStraight ==
  ASSUME NEW w \in Node, NEW t \in Nat, Before(w, t), role[w] = "leader",
         NEW j \in Node, MustReissue(w, j)
  PROVE  IsStraightCall(ReissueCall(w, j))
<1> DEFINE l == log[w]
           p == nextIndex[w][j]
           m == ReissueCall(w, j)
<1>1. TypeOK /\ EntryInv /\ NoCallsToSelf /\ elected = {<<w, t>>} /\ WinnerHolds(w)
  BY DEF Before, EntryInv, ElectionInv, WithWinner
<1>2. l \in Seq(Entry) /\ Len(l) \in Nat /\ DOMAIN l = 1..Len(l) /\ p \in 1..Len(l)
  BY <1>1, LenProperties DEF TypeOK, LogTypeOK, MustReissue, LastIndex
<1>3. \A n \in DOMAIN l : l[n].index = n /\ l[n].term = t
  BY <1>1, HeldEntries, WinnerFacts DEF WinnerHolds, Straight, ToSet
<1>4. currentTerm[w] = t
  BY <1>1, WinnerFacts
<1>5. /\ m.prevIndex = p - 1 /\ m.term = t /\ m.prevTerm = TermAt(l, p - 1)
      /\ m.entries = SubSeq(l, p, Len(l))
  BY <1>4 DEF ReissueCall, LastIndex
<1> HIDE DEF l, p, m
<1>6. \A n \in DOMAIN m.entries : m.entries[n].index = m.prevIndex + n
  <2>1. \A n \in p..Len(l) : l[n] \in Entry
    BY <1>2, ElementOfSeq
  <2>2. /\ DOMAIN m.entries = 1..(Len(l) - p + 1)
        /\ \A n \in 1..(Len(l) - p + 1) : m.entries[n] = l[p + n - 1]
    <3>1. /\ SubSeq(l, p, Len(l)) \in Seq(Entry)
          /\ Len(SubSeq(l, p, Len(l))) = Len(l) - p + 1
          /\ \A n \in 1..(Len(l) - p + 1) : SubSeq(l, p, Len(l))[n] = l[p + n - 1]
      BY <1>2, <2>1, SubSeqProperties
    <3> QED
      BY <1>5, <3>1, LenProperties
  <2>3. \A n \in 1..(Len(l) - p + 1) : p + n - 1 \in DOMAIN l /\ p + n - 1 = p - 1 + n
    BY <1>2
  <2> QED
    BY <1>3, <1>5, <2>2, <2>3
<1>7. m.prevTerm = IF m.prevIndex = 0 THEN 0 ELSE m.term
  <2>1. p - 1 # 0 => p - 1 \in 1..Len(l)
    BY <1>2
  <2>2. 0 \notin 1..Len(l)
    OBVIOUS
  <2> QED
    BY <1>2, <1>3, <1>5, <2>1, <2>2 DEF TermAt
<1>8. IsStraightCall(m)
  BY <1>6, <1>7 DEF IsStraightCall
<1> QED
  BY <1>8 DEF m

LEMMA HeartbeatTickSteady ==
  ASSUME NEW w \in Node, NEW t \in Nat, Calm(w, t), NEW i \in Node, HeartbeatTick(i)
  PROVE  WithWinner(w, t)'
<1> DEFINE h == HeartbeatCallOf(i)
           batch == [j \in Node |-> IF MustReissue(i, j) THEN <<ReissueCall(i, j), h>> ELSE <<h>>]
<1>1. TypeOK /\ TypeOK' /\ EntryInv /\ EntryInv' /\ WithWinner(w, t) /\ Before(w, t)
        /\ NoCallsToSelf /\ elected = {<<w, t>>}
  BY DEF Calm, Before, EntryInv, ElectionInv
<1>2. /\ UNCHANGED <<log, disk, down, tasks, executed, commitIndex, lastApplied>>
      /\ UNCHANGED <<answers, faults>>
      /\ Broadcast(i, batch)
      /\ role[i] = "leader"
      /\ nextIndex' = [nextIndex EXCEPT ![i] =
                         [j \in Node |-> IF MustReissue(i, j) THEN LastIndex(log[i]) + 1 ELSE @[j]]]
  BY DEF HeartbeatTick, logVars, applyVars, leaderVars
<1>3. i = w
  BY <1>1, <1>2, WinnerFacts
<1>4. h \in Call /\ h.type = "heartbeat"
  BY <1>1 DEF HeartbeatCallOf, Call, HeartbeatCall, TypeOK, RaftTypeOK, ApplyTypeOK
<1>5. ASSUME NEW b \in Node
      PROVE  /\ batch[b] \in Seq(Call)
             /\ \A n \in DOMAIN batch[b] : IsStraightCall(batch[b][n])
             /\ ~MustReissue(i, b) => \A n \in DOMAIN batch[b] : ~IsAppend(batch[b][n])
  <2> HIDE DEF h
  <2>1. IsStraightCall(h) /\ ~IsAppend(h)
    BY <1>4 DEF IsStraightCall, IsAppend
  <2>2. CASE MustReissue(i, b)
    <3>1. ReissueCall(i, b) \in Call /\ IsStraightCall(ReissueCall(i, b))
      BY <1>1, <1>2, <1>3, <2>2, ReissueCallType, ReissueStraight
    <3> QED
      BY <1>4, <2>1, <2>2, <3>1
  <2>3. CASE ~MustReissue(i, b)
    BY <1>4, <2>1, <2>3
  <2> QED
    BY <2>2, <2>3
<1> HIDE DEF batch, h
<1>6. QuietLogs
  BY <1>1, <1>2, SameFaults DEF QuietLogs
<1>7. Held' \subseteq Held
  BY <1>1, HeartbeatTickHeld
<1>8. WireIsStraight'
  BY <1>1, <1>2, <1>5, BroadcastStraight DEF WithWinner
<1>9. ASSUME Undisturbed, NEW j \in Node \ {w}
      PROVE  ~MustReissue(i, j) /\ nextIndex'[w][j] = nextIndex[w][j]
  <2>1. nextIndex[w][j] = 0
    BY <1>1, <1>9 DEF WithWinner, NothingMissing
  <2>2. ~MustReissue(i, j)
    BY <1>3, <2>1 DEF MustReissue
  <2> QED
    BY <1>1, <1>2, <1>3, <2>2 DEF TypeOK, LeaderTypeOK
<1>10. ASSUME Undisturbed, NEW j \in Node \ {w}, Piped(calls[w][j], Len(log[j]), Len(log[w]))
       PROVE  Piped(calls'[w][j], Len(log[j]), Len(log[w]))
  <2>1. calls'[w][j] = calls[w][j] \o batch[j]
    BY <1>1, <1>2, <1>3 DEF Broadcast, TypeOK, NetTypeOK
  <2>2. /\ calls[w][j] \in Seq(Call)
        /\ Len(log[j]) \in Nat /\ Len(log[w]) \in Nat
    BY <1>1, LenProperties DEF TypeOK, NetTypeOK, LogTypeOK
  <2>3. \A n \in DOMAIN batch[j] : ~IsAppend(batch[j][n])
    BY <1>5, <1>9, <1>10
  <2> QED
    BY <1>5, <1>10, <2>1, <2>2, <2>3, PipedMore
<1>11. NothingMissing(w, t)'
  BY <1>1, <1>2, <1>9, <1>10, PipesStand DEF Calm, WithWinner
<1> QED
  BY <1>1, <1>6, <1>7, <1>8, <1>11, QuietWinner DEF Calm

-----------------------------------------------------------------------------
(* Requests that change no log. *)

LEMMA HandledSteady ==
  ASSUME NEW w \in Node, NEW t \in Nat, Calm(w, t), QuietLogs,
         NEW i \in Node, NEW j \in Node, NEW k \in Arrived(j, i), NEW a \in Answer,
         Respond(i, j, k, a), UNCHANGED <<nextIndex, faults>>,
         j = w /\ Undisturbed /\ a.type = "append" /\ a.term = t => a.success,
         j = w /\ Undisturbed /\ currentTerm'[i] <= t => ~IsAppend(calls[w][i][k])
  PROVE  WithWinner(w, t)'
<1>1. TypeOK /\ EntryInv /\ EntryInv' /\ WithWinner(w, t) /\ Before(w, t)
  BY DEF Calm, Before, EntryInv, ElectionInv
<1>2. /\ calls' = [calls EXCEPT ![j][i] = RemoveAt(@, k)]
      /\ answers' = answers \/ answers' = [answers EXCEPT ![j][i] = Append(@, a)]
  BY DEF Respond
<1>3. Held' \subseteq Held
  BY <1>1, <1>2, RemovedHeld, QuietHeld
<1>4. WireIsStraight'
  BY <1>1, <1>2, RemovedStraight DEF WithWinner
<1>5. NothingMissing(w, t)'
  BY <1>1, <1>2, HandledPipes DEF Calm, QuietLogs
<1> QED
  BY <1>1, <1>3, <1>4, <1>5, QuietWinner DEF Calm

LEMMA DiskAtTermKeeps ==
  ASSUME TypeOK, NEW i \in Node, NEW term
  PROVE  DiskAtTerm(i, term).last = disk[i].last /\ DiskAtTerm(i, term).entries = disk[i].entries
<1>1. disk[i] \in Disk
  BY DEF TypeOK, LogTypeOK
<1> QED
  BY <1>1, PersistStateKeeps DEF DiskAtTerm

LEMMA VoteCallSteady ==
  ASSUME NEW w \in Node, NEW t \in Nat, Calm(w, t), NEW i \in Node, NEW j \in Node,
         RefuseStaleVote(i, j) \/ AnswerVote(i, j)
  PROVE  WithWinner(w, t)'
<1>1. TypeOK
  BY DEF Calm, Before, EntryInv, ElectionInv
<1>2. PICK k \in Arrived(j, i) :
        /\ calls[j][i][k].type = "vote"
        /\ \/ disk' = disk
           \/ disk' = [disk EXCEPT ![i] = DiskAtTerm(i, calls[j][i][k].term)]
        /\ \E term \in Nat, g \in BOOLEAN :
             Respond(i, j, k, [type |-> "vote", term |-> term, granted |-> g])
  <2>1. CASE RefuseStaleVote(i, j)
    <3>1. currentTerm[i] \in Nat
      BY <1>1 DEF TypeOK, RaftTypeOK
    <3> QED
      BY <2>1, <3>1 DEF RefuseStaleVote, logVars
  <2>2. CASE AnswerVote(i, j)
    <3>1. PICK k \in Arrived(j, i) :
            LET m == calls[j][i][k] IN
            /\ m.type = "vote"
            /\ disk' = [disk EXCEPT ![i] = DiskAtTerm(i, m.term)]
            /\ Respond(i, j, k, [type |-> "vote", term |-> m.term, granted |-> GrantsVote(i, j, m)])
      BY <2>2 DEF AnswerVote
    <3>2. calls[j][i][k].term \in Nat
      BY <1>1, ArrivedType, CallTermType DEF TypeOK
    <3>3. GrantsVote(i, j, calls[j][i][k]) \in BOOLEAN
      BY DEF GrantsVote
    <3> QED
      BY <3>1, <3>2, <3>3
  <2> QED
    BY <2>1, <2>2
<1>3. PICK term \in Nat, g \in BOOLEAN :
        Respond(i, j, k, [type |-> "vote", term |-> term, granted |-> g])
  BY <1>2
<1> DEFINE a == [type |-> "vote", term |-> term, granted |-> g]
<1>4. a \in Answer /\ a.type = "vote" /\ Respond(i, j, k, a)
  BY <1>3 DEF Answer, VoteAnswer
<1> HIDE DEF a
<1>5. UNCHANGED <<log, down, tasks, executed, commitIndex, lastApplied, nextIndex, faults>>
  BY DEF RefuseStaleVote, AnswerVote, logVars, applyVars, leaderVars
<1>6. QuietLogs
  <2>1. \A n \in Node : disk'[n].last = disk[n].last /\ disk'[n].entries = disk[n].entries
    BY <1>1, <1>2, DiskAtTermKeeps, OneDiskQuiet
  <2> QED
    BY <1>1, <1>5, <2>1, SameFaults DEF QuietLogs
<1>7. j = w => ~IsAppend(calls[w][i][k])
  BY <1>2 DEF IsAppend
<1> QED
  BY <1>4, <1>5, <1>6, <1>7, HandledSteady

LEMMA RefuseStaleAppendSteady ==
  ASSUME NEW w \in Node, NEW t \in Nat, Calm(w, t), NEW i \in Node, NEW j \in Node,
         RefuseStaleAppend(i, j)
  PROVE  WithWinner(w, t)'
<1>1. TypeOK /\ EntryInv /\ NoCallsToSelf /\ elected = {<<w, t>>}
  BY DEF Calm, Before, EntryInv, ElectionInv
<1>2. PICK k \in Arrived(j, i) :
        LET m == calls[j][i][k] IN
        /\ m.type # "vote"
        /\ m.term < currentTerm[i]
        /\ Respond(i, j, k, IF m.type = "heartbeat"
                            THEN [type |-> "heartbeat", term |-> currentTerm[i]]
                            ELSE AppendRefused(currentTerm[i], LastIndex(log[i])))
  BY DEF RefuseStaleAppend
<1>3. UNCHANGED <<log, disk, down, tasks, executed, commitIndex, lastApplied, nextIndex, faults,
                  currentTerm>>
  BY DEF RefuseStaleAppend, raftVars, logVars, applyVars, leaderVars
<1>4. QuietLogs
  BY <1>1, <1>3, SameFaults DEF QuietLogs
<1>5. calls[j][i][k].term = t /\ j = w
  <2>1. k \in DOMAIN calls[j][i]
    BY <1>1, ArrivedType DEF TypeOK
  <2> QED
    BY <1>1, <1>2, <2>1, WinnerFacts
<1>6. currentTerm[i] \in Nat /\ currentTerm[i] > t /\ currentTerm'[i] > t
  BY <1>1, <1>2, <1>3, <1>5 DEF TypeOK, RaftTypeOK
<1>7. PICK a \in Answer : Respond(i, j, k, a) /\ a.term = currentTerm[i]
  <2> DEFINE len == LastIndex(log[i])
  <2>1. len \in Nat
    BY <1>1, LastIndexType
  <2>2. [type |-> "heartbeat", term |-> currentTerm[i]] \in Answer
    BY <1>6 DEF Answer, HeartbeatAnswer
  <2>3. AppendRefused(currentTerm[i], len) \in Answer
    BY <1>6, <2>1 DEF AppendRefused, Answer, AppendAnswer
  <2>4. AppendRefused(currentTerm[i], len).term = currentTerm[i]
    BY DEF AppendRefused
  <2> HIDE DEF len
  <2> QED
    BY <1>2, <2>2, <2>3, <2>4 DEF len
<1>8. a.term # t
  BY <1>6, <1>7
<1>9. ~(currentTerm'[i] <= t)
  BY <1>3, <1>6
<1> QED
  BY <1>3, <1>4, <1>7, <1>8, <1>9, HandledSteady

\* A request for entries that finds nothing disturbed is the next one of its follower.
LEMMA NextRequest ==
  ASSUME NEW w \in Node, NEW t \in Nat, Calm(w, t), Undisturbed, NEW i \in Node,
         NEW k \in Arrived(w, i), IsAppend(calls[w][i][k]), calls[w][i][k].term >= currentTerm[i]
  PROVE  /\ i # w /\ k = 1 /\ calls[w][i] # <<>>
         /\ calls[w][i][k].prevIndex = Len(log[i])
         /\ Len(calls[w][i][k].entries) = 1
         /\ Piped(RemoveAt(calls[w][i], k), Len(log[i]) + 1, Len(log[w]))
<1>1. TypeOK /\ EntryInv /\ NoCallsToSelf /\ elected = {<<w, t>>} /\ NothingMissing(w, t)
  BY DEF Calm, Before, EntryInv, ElectionInv, WithWinner
<1>2. k \in DOMAIN calls[w][i] /\ calls[w][i] \in Seq(Call)
  <2>1. k \in DOMAIN calls[w][i]
    BY <1>1, ArrivedType DEF TypeOK
  <2> QED
    BY <1>1, <2>1 DEF TypeOK, NetTypeOK
<1>3. k = 1 /\ calls[w][i] # <<>>
  BY <1>2 DEF Undisturbed, Arrived
<1>4. i # w /\ calls[w][i][k].term = t
  BY <1>1, <1>2, WinnerFacts DEF IsAppend
<1>5. Piped(calls[w][i], Len(log[i]), Len(log[w]))
  BY <1>1, <1>4 DEF NothingMissing, TypeOK, RaftTypeOK
<1>6. Len(log[i]) \in Nat /\ Len(log[w]) \in Nat
  BY <1>1, LenProperties DEF TypeOK, LogTypeOK
<1> QED
  BY <1>2, <1>3, <1>4, <1>5, <1>6, PipedFirst

LEMMA RefuseGapSteady ==
  ASSUME NEW w \in Node, NEW t \in Nat, Calm(w, t), NEW i \in Node, NEW j \in Node,
         RefuseGap(i, j)
  PROVE  WithWinner(w, t)'
<1>1. TypeOK /\ EntryInv /\ NoCallsToSelf /\ elected = {<<w, t>>}
  BY DEF Calm, Before, EntryInv, ElectionInv
<1>2. PICK k \in Arrived(j, i) :
        LET m == calls[j][i][k] IN
        /\ m.type = "append" /\ m.term >= currentTerm[i]
        /\ m.prevIndex > Len(log[i])
        /\ disk' = [disk EXCEPT ![i] = DiskAtTerm(i, m.term)]
        /\ Respond(i, j, k, AppendRefused(m.term, LastIndex(log[i])))
  BY DEF RefuseGap, AcceptLeader, HasGap, LastIndex
<1>3. UNCHANGED <<log, down, tasks, executed, commitIndex, lastApplied, nextIndex, faults>>
  BY DEF RefuseGap, applyVars, leaderVars
<1>4. QuietLogs
  BY <1>1, <1>2, <1>3, SameFaults, DiskAtTermKeeps, OneDiskQuiet DEF QuietLogs
<1>5. j = w
  BY <1>1, <1>2, ArrivedType, WinnerFacts DEF TypeOK
<1>6. ~Undisturbed
  <2> SUFFICES ASSUME Undisturbed PROVE FALSE
    OBVIOUS
  <2>1. calls[w][i][k].prevIndex = Len(log[i])
    BY <1>2, <1>5, NextRequest DEF IsAppend
  <2>2. Len(log[i]) \in Nat
    BY <1>1, LenProperties DEF TypeOK, LogTypeOK
  <2> QED
    BY <1>2, <1>5, <2>1, <2>2
<1>7. AppendRefused(calls[j][i][k].term, LastIndex(log[i])) \in Answer
  <2>1. LastIndex(log[i]) \in Nat
    BY <1>1, LastIndexType
  <2>2. calls[j][i][k].term \in Nat
    BY <1>1, ArrivedType, CallTermType DEF TypeOK
  <2> QED
    BY <2>1, <2>2 DEF AppendRefused, Answer, AppendAnswer
<1> QED
  BY <1>2, <1>3, <1>4, <1>6, <1>7, HandledSteady

-----------------------------------------------------------------------------
(* Requests of the winner that a follower accepts. *)

\* An accepted request finds the log as it is: every entry is of the winner's term.
LEMMA NothingCutOff ==
  ASSUME NEW w \in Node, NEW t \in Nat, Before(w, t), NEW i \in Node, NEW j \in Node,
         NEW k \in Arrived(j, i), IsAppend(calls[j][i][k]), ~HasGap(i, calls[j][i][k])
  PROVE  /\ j = w /\ i # w
         /\ calls[j][i][k] \in AppendCall /\ calls[j][i][k].term = t
         /\ Matched(i, calls[j][i][k]) = log[i]
<1> DEFINE m == calls[j][i][k]
<1>1. /\ TypeOK /\ EntryInv /\ NoCallsToSelf /\ elected = {<<w, t>>}
      /\ WinnerHolds(w) /\ WireIsStraight
  BY DEF Before, EntryInv, ElectionInv, WithWinner
<1>2. k \in DOMAIN calls[j][i] /\ m \in Call
  BY <1>1, ArrivedType DEF TypeOK
<1>3. m \in AppendCall
  BY <1>2, AppendCallType DEF IsAppend
<1>4. j = w /\ i # w /\ m.term = t
  BY <1>1, <1>2, WinnerFacts DEF IsAppend
<1>5. m.prevTerm = IF m.prevIndex = 0 THEN 0 ELSE t
  BY <1>1, <1>2, <1>4 DEF WireIsStraight, IsStraightCall, IsAppend
<1>6. /\ Len(log[i]) \in Nat /\ DOMAIN log[i] = 1..Len(log[i])
      /\ m.prevIndex \in 0..Len(log[i])
  <2>1. log[i] \in Seq(Entry)
    BY <1>1 DEF TypeOK, LogTypeOK
  <2>2. Len(log[i]) \in Nat /\ DOMAIN log[i] = 1..Len(log[i])
    BY <2>1, LenProperties
  <2>3. m.prevIndex \in Nat
    BY <1>3 DEF AppendCall
  <2>4. ~(m.prevIndex > Len(log[i]))
    BY DEF HasGap, LastIndex
  <2> HIDE DEF m
  <2> QED
    BY <2>2, <2>3, <2>4
<1>7. \A n \in DOMAIN log[i] : log[i][n].term = t
  BY <1>1, HeldEntries, WinnerFacts DEF ToSet
<1>8. TermAt(log[i], m.prevIndex) = m.prevTerm
  <2>1. CASE m.prevIndex = 0
    BY <1>5, <1>6, <2>1 DEF TermAt
  <2>2. CASE m.prevIndex # 0
    <3>1. m.prevIndex \in 1..Len(log[i])
      BY <1>6, <2>2
    <3> QED
      BY <1>5, <1>6, <1>7, <2>2, <3>1 DEF TermAt
  <2> QED
    BY <2>1, <2>2
<1> QED
  BY <1>3, <1>4, <1>8 DEF Matched

LEMMA FailAppendSteady ==
  ASSUME NEW w \in Node, NEW t \in Nat, Calm(w, t), NEW i \in Node, NEW j \in Node,
         FailAppend(i, j)
  PROVE  WithWinner(w, t)'
<1>1. TypeOK /\ EntryInv /\ EntryInv' /\ WithWinner(w, t) /\ Before(w, t)
  BY DEF Calm, Before, EntryInv, ElectionInv
<1>2. PICK k \in Arrived(j, i) :
        LET m == calls[j][i][k] IN
        /\ m.type = "append" /\ ~HasGap(i, m)
        /\ log' = [log EXCEPT ![i] = Matched(i, m)]
        /\ disk' = [disk EXCEPT ![i] = DiskAtTerm(i, m.term)]
        /\ calls' = [calls EXCEPT ![j][i] = RemoveAt(@, k)]
  BY DEF FailAppend, TruncateBatch, Respond
<1>3. UNCHANGED <<down, tasks, executed, commitIndex, lastApplied>>
  BY DEF FailAppend, applyVars
<1>4. log' = log
  <2>1. Matched(i, calls[j][i][k]) = log[i]
    BY <1>1, <1>2, NothingCutOff DEF IsAppend
  <2> QED
    BY <1>1, <1>2, <2>1 DEF TypeOK, LogTypeOK
<1>5. faults' = [faults EXCEPT !.writeErrors = @ + 1]
  BY DEF FailAppend
<1>6. QuietLogs
  <2>1. \A n \in Node : disk'[n].last = disk[n].last /\ disk'[n].entries = disk[n].entries
    BY <1>1, <1>2, DiskAtTermKeeps, OneDiskQuiet
  <2>2. faults'.restarts >= faults.restarts
    BY <1>1, <1>5 DEF TypeOK, FaultTypeOK
  <2> QED
    BY <1>3, <1>4, <2>1, <2>2 DEF QuietLogs
<1>7. ~Undisturbed'
  BY <1>1, <1>5 DEF Undisturbed, TypeOK, FaultTypeOK
<1>8. Held' \subseteq Held
  BY <1>1, FollowHeld
<1>9. WireIsStraight'
  BY <1>1, <1>2, RemovedStraight DEF WithWinner
<1> QED
  BY <1>1, <1>6, <1>7, <1>8, <1>9, DisturbedSteady, QuietWinner DEF Calm

\* A view that does not wrap around brings what was executed up to its end.
LEMMA ViewExecutes ==
  ASSUME TypeOK, NEW i \in Node, NEW l \in Seq(Entry), NEW commit \in Nat,
         lastApplied[i] <= commit, commit <= Len(l), ~down[i], ApplyView(i, l, commit)
  PROVE  /\ down' = down
         /\ lastApplied' = [lastApplied EXCEPT ![i] = commit]
         /\ \A n \in Node \ {i} : executed'[n] = executed[n]
         /\ executed[i] = Commands(SubSeq(l, 1, lastApplied[i]))
              => executed'[i] = Commands(SubSeq(l, 1, commit))
<1> DEFINE la == lastApplied[i]
<1>1. /\ la \in Nat /\ Len(l) \in Nat /\ \A e \in Entry : e.command \in Command
      /\ down \in [Node -> BOOLEAN] /\ lastApplied \in [Node -> Nat]
      /\ executed \in [Node -> Seq(Command)]
  BY LenProperties DEF TypeOK, ApplyTypeOK, Entry
<1>2. ~ViewIsWild(l, la + 1, commit)
  BY <1>1 DEF ViewIsWild
<1>3. down' = down
  <2>1. down' = [down EXCEPT ![i] = ViewIsWild(l, la + 1, commit)]
    BY DEF ApplyView
  <2>2. ViewIsWild(l, la + 1, commit) = FALSE
    BY <1>2 DEF ViewIsWild
  <2>3. down[i] = FALSE
    BY <1>1
  <2>4. down' = [down EXCEPT ![i] = down[i]]
    BY <2>1, <2>2, <2>3
  <2> QED
    BY <1>1, <2>4
<1>4. CASE la < Len(l)
  <2> DEFINE more == Commands(SubSeq(l, la + 1, commit))
  <2>1. ViewIsGiven(l, la + 1, commit)
    BY <1>1, <1>4 DEF ViewIsGiven
  <2>2. /\ executed' = [executed EXCEPT ![i] = @ \o more]
        /\ lastApplied' = [lastApplied EXCEPT ![i] = commit]
    BY <1>2, <2>1 DEF ApplyView
  <2>3. SubSeq(l, 1, la) \o SubSeq(l, la + 1, commit) = SubSeq(l, 1, commit)
    <3>1. 1 \in 1..Len(l) + 1 /\ la \in 1 - 1..Len(l) /\ commit \in la..Len(l)
      BY <1>1
    <3> QED
      BY <3>1, ConcatAdjacentSubSeq
  <2>4. SubSeq(l, 1, la) \in Seq(Entry) /\ SubSeq(l, la + 1, commit) \in Seq(Entry)
    <3>1. la + 1 \in Nat \ {0} /\ 1 \in Nat \ {0} /\ la <= Len(l)
      BY <1>1
    <3> QED
      BY <1>1, <3>1, SubSeqElements
  <2>5. Commands(SubSeq(l, 1, commit)) = Commands(SubSeq(l, 1, la)) \o more
    BY <1>1, <2>3, <2>4, CommandsConcat
  <2>6. executed'[i] = executed[i] \o more /\ \A n \in Node \ {i} : executed'[n] = executed[n]
    BY <1>1, <2>2
  <2> QED
    BY <1>3, <2>2, <2>5, <2>6
<1>5. CASE ~(la < Len(l))
  <2>1. ~ViewIsGiven(l, la + 1, commit)
    BY <1>1, <1>5 DEF ViewIsGiven
  <2>2. executed' = executed /\ lastApplied' = lastApplied
    BY <1>2, <2>1 DEF ApplyView
  <2>3. commit = la
    BY <1>1, <1>5
  <2> QED
    BY <1>1, <1>3, <2>2, <2>3
<1> QED
  BY <1>4, <1>5

\* A follower has taken a request of the winner.
LEMMA FollowerSteady ==
  ASSUME NEW w \in Node, NEW t \in Nat, Calm(w, t), NEW i \in Node, i # w,
         NEW l \in Seq(Entry), log' = [log EXCEPT ![i] = l],
         NEW d \in Disk, disk' = [disk EXCEPT ![i] = d],
         Held' \subseteq Held, FollowsOrRepeats(l), Stores(d, l), ~down[i],
         UNCHANGED <<down, tasks, faults>>,
         \A n \in Node \ {i} : /\ commitIndex'[n] = commitIndex[n]
                               /\ lastApplied'[n] = lastApplied[n]
                               /\ executed'[n] = executed[n],
         lastApplied'[i] <= commitIndex'[i], commitIndex'[i] <= Len(l),
         faults.restarts = 0 /\ Straight(l)
           => executed'[i] = Commands(SubSeq(l, 1, lastApplied'[i])),
         WireIsStraight', NothingMissing(w, t)'
  PROVE  WithWinner(w, t)'
<1>1. TypeOK /\ WithWinner(w, t)
  BY DEF Calm, Before, EntryInv, ElectionInv
<1>2. \A n \in Node : log'[n] = (IF n = i THEN l ELSE log[n])
                      /\ disk'[n] = (IF n = i THEN d ELSE disk[n])
  BY <1>1 DEF TypeOK, LogTypeOK
<1>3. WinnerHolds(w)'
  BY <1>1, <1>2 DEF WithWinner, WinnerHolds
<1>4. LogsFollowOrRepeat'
  BY <1>1, <1>2 DEF WithWinner, LogsFollowOrRepeat
<1>5. DisksFollow'
  BY <1>1, <1>2 DEF WithWinner, DisksFollow
<1>6. NobodyAhead(w)'
  <2> SUFFICES ASSUME NEW n \in Node
               PROVE  /\ lastApplied'[n] <= commitIndex'[n]
                      /\ down'[n] => ~Recoverable(disk'[n])
                      /\ n # w => commitIndex'[n] <= Len(log'[n])
    BY DEF NobodyAhead
  <2>1. CASE n = i
    BY <1>2, <2>1
  <2>2. CASE n # i
    BY <1>1, <1>2, <2>2 DEF WithWinner, NobodyAhead
  <2> QED
    BY <2>1, <2>2
<1>7. LeaderExecutes(w)'
  BY <1>1, <1>2 DEF WithWinner, LeaderExecutes, Calm
<1>8. FollowersExecute(w)'
  <2> SUFFICES ASSUME faults.restarts = 0, NEW n \in Node \ {w}, Straight(log'[n])
               PROVE  executed'[n] = Commands(SubSeq(log'[n], 1, lastApplied'[n]))
    BY DEF FollowersExecute
  <2>1. CASE n = i
    BY <1>2, <2>1
  <2>2. CASE n # i
    BY <1>1, <1>2, <2>2 DEF WithWinner, FollowersExecute
  <2> QED
    BY <2>1, <2>2
<1> QED
  BY <1>3, <1>4, <1>5, <1>6, <1>7, <1>8 DEF WithWinner

\* min(last_log_index, leader_commit) stays between the old commit index and the log's end.
LEMMA CommitAfterBounds ==
  ASSUME TypeOK, NEW i \in Node, NEW l \in Seq(Entry), NEW commit \in Nat,
         commitIndex[i] <= Len(l)
  PROVE  /\ CommitAfter(i, l, commit) \in Nat
         /\ commitIndex[i] <= CommitAfter(i, l, commit)
         /\ CommitAfter(i, l, commit) <= Len(l)
         /\ commit <= commitIndex[i] => CommitAfter(i, l, commit) = commitIndex[i]
<1>1. commitIndex[i] \in Nat /\ Len(l) \in Nat
  BY LenProperties DEF TypeOK, ApplyTypeOK
<1> QED
  BY <1>1 DEF CommitAfter

LEMMA AcceptHeartbeatSteady ==
  ASSUME NEW w \in Node, NEW t \in Nat, Calm(w, t), NEW i \in Node, NEW j \in Node,
         AcceptHeartbeat(i, j)
  PROVE  WithWinner(w, t)'
<1>1. /\ TypeOK /\ EntryInv /\ EntryInv' /\ NoCallsToSelf /\ elected = {<<w, t>>}
      /\ WithWinner(w, t) /\ Before(w, t)
  BY DEF Calm, Before, EntryInv, ElectionInv
<1>2. PICK k \in Arrived(j, i) :
        LET m == calls[j][i][k]
            commit == CommitAfter(i, log[i], m.commit)
        IN  /\ m.type = "heartbeat"
            /\ commitIndex' = [commitIndex EXCEPT ![i] = commit]
            /\ ApplyView(i, log[i], commit)
            /\ disk' = [disk EXCEPT ![i] = DiskAtTerm(i, m.term)]
            /\ RespondIfAlive(i, j, k, [type |-> "heartbeat", term |-> m.term])
  BY DEF AcceptHeartbeat
<1>3. /\ UNCHANGED <<log, tasks, nextIndex, faults>>
      /\ ~down[i]
  BY DEF AcceptHeartbeat, leaderVars
<1> DEFINE m == calls[j][i][k]
           l == log[i]
           commit == CommitAfter(i, l, m.commit)
           d == DiskAtTerm(i, m.term)
           a == [type |-> "heartbeat", term |-> m.term]
<1>4. k \in DOMAIN calls[j][i] /\ m \in Call /\ m.commit \in Nat /\ m.term \in Nat
  <2>1. k \in DOMAIN calls[j][i] /\ m \in Call
    BY <1>1, ArrivedType DEF TypeOK
  <2> QED
    BY <1>2, <2>1, HeartbeatCallType DEF HeartbeatCall
<1>5. j = w /\ i # w
  BY <1>1, <1>2, <1>4, WinnerFacts
<1>6. l \in Seq(Entry) /\ Len(l) \in Nat /\ log' = [log EXCEPT ![i] = l]
  BY <1>1, <1>3, LenProperties DEF TypeOK, LogTypeOK
<1>7. lastApplied[i] <= commitIndex[i] /\ commitIndex[i] <= Len(l)
        /\ lastApplied[i] \in Nat /\ commitIndex[i] \in Nat
  BY <1>1, <1>5 DEF WithWinner, NobodyAhead, TypeOK, ApplyTypeOK
<1>8. commit \in Nat /\ commitIndex[i] <= commit /\ commit <= Len(l)
  BY <1>1, <1>4, <1>6, <1>7, CommitAfterBounds
<1>9. d \in Disk /\ d.last = disk[i].last /\ d.entries = disk[i].entries
  BY <1>1, <1>4, DiskAtTermType, DiskAtTermKeeps DEF TypeOK
<1>10. a \in Answer /\ a.type = "heartbeat"
  BY <1>4 DEF Answer, HeartbeatAnswer
<1>11. /\ commitIndex' = [commitIndex EXCEPT ![i] = commit]
       /\ ApplyView(i, l, commit)
       /\ disk' = [disk EXCEPT ![i] = d]
       /\ RespondIfAlive(i, j, k, a)
       /\ ~IsAppend(m)
  BY <1>2 DEF IsAppend
<1> HIDE DEF commit, d, a, l
<1>12. /\ down' = down
       /\ lastApplied' = [lastApplied EXCEPT ![i] = commit]
       /\ \A n \in Node \ {i} : executed'[n] = executed[n]
       /\ executed[i] = Commands(SubSeq(l, 1, lastApplied[i]))
            => executed'[i] = Commands(SubSeq(l, 1, commit))
  <2>1. lastApplied[i] <= commit
    BY <1>7, <1>8
  <2> QED
    BY <1>1, <1>3, <1>6, <1>8, <1>11, <2>1, ViewExecutes
<1>13. Respond(i, j, k, a)
  BY <1>3, <1>11, <1>12 DEF RespondIfAlive
<1>14. /\ calls' = [calls EXCEPT ![j][i] = RemoveAt(@, k)]
       /\ answers' = answers \/ answers' = [answers EXCEPT ![j][i] = Append(@, a)]
  BY <1>13 DEF Respond
<1>15. Held' \subseteq Held
  BY <1>1, FollowHeld
<1>16. WireIsStraight'
  BY <1>1, <1>14, RemovedStraight DEF WithWinner
<1>17. NothingMissing(w, t)'
  <2>1. j = w /\ Undisturbed /\ a.type = "append" /\ a.term = t => a.success
    BY <1>10
  <2>2. j = w /\ Undisturbed /\ currentTerm'[i] <= t => ~IsAppend(calls[w][i][k])
    BY <1>11
  <2> QED
    BY <1>1, <1>3, <1>10, <1>14, <2>1, <2>2, HandledPipes DEF Calm
<1>18. FollowsOrRepeats(l) /\ Stores(d, l)
  <2>1. FollowsOrRepeats(l)
    BY <1>1 DEF WithWinner, LogsFollowOrRepeat, l
  <2>2. Stores(disk[i], l)
    BY <1>1, <1>3 DEF WithWinner, DisksFollow, l
  <2> QED
    BY <1>9, <2>1, <2>2 DEF Stores
<1>19. /\ commitIndex'[i] = commit /\ lastApplied'[i] = commit
       /\ \A n \in Node \ {i} : commitIndex'[n] = commitIndex[n] /\ lastApplied'[n] = lastApplied[n]
  BY <1>1, <1>11, <1>12 DEF TypeOK, ApplyTypeOK
<1>20. faults.restarts = 0 /\ Straight(l)
         => executed'[i] = Commands(SubSeq(l, 1, lastApplied'[i]))
  <2>1. faults.restarts = 0 /\ Straight(l) => executed[i] = Commands(SubSeq(l, 1, lastApplied[i]))
    BY <1>1, <1>5 DEF WithWinner, FollowersExecute, l
  <2> QED
    BY <1>12, <1>19, <2>1
<1>21. lastApplied'[i] <= commitIndex'[i] /\ commitIndex'[i] <= Len(l)
  BY <1>8, <1>19
<1> QED
  BY <1>3, <1>5, <1>6, <1>9, <1>11, <1>12, <1>15, <1>16, <1>17, <1>18, <1>19, <1>20, <1>21,
    FollowerSteady

\* Entries that follow one another find their places on disk, and overwrite none before them.
LEMMA BatchIsStored ==
  ASSUME NEW d \in Disk, NEW u \in Seq(Entry), u # <<>>,
         NEW p \in Nat, \A n \in DOMAIN u : u[n].index = p + n
  PROVE  /\ PersistBatch(d, u).last = p + Len(u)
         /\ ToSet(u) \subseteq PersistBatch(d, u).entries
         /\ \A e \in d.entries : e.index <= p => e \in PersistBatch(d, u).entries
<1>1. /\ Len(u) \in Nat \ {0} /\ DOMAIN u = 1..Len(u)
      /\ \A e \in d.entries : e.index \in Nat
  BY LenProperties, EmptySeq DEF Disk, Entry
<1>2. /\ PersistBatch(d, u).last = u[Len(u)].index
      /\ PersistBatch(d, u).entries
           = {e \in d.entries : e.index \notin {u[k].index : k \in DOMAIN u}} \union BatchValues(u)
  BY DEF PersistBatch, Disk
<1>3. Len(u) \in DOMAIN u
  BY <1>1
<1>4. PersistBatch(d, u).last = p + Len(u)
  BY <1>2, <1>3
<1>5. ToSet(u) \subseteq BatchValues(u)
  <2>1. \A n, m \in DOMAIN u : m > n => u[m].index # u[n].index
    BY <1>1
  <2> QED
    BY <2>1 DEF ToSet, BatchValues
<1>6. \A e \in d.entries : e.index <= p => e.index \notin {u[k].index : k \in DOMAIN u}
  BY <1>1
<1> QED
  BY <1>2, <1>4, <1>5, <1>6

\* What a request of the winner makes of a log, whatever the log was.
LEMMA ExtendedFollows ==
  ASSUME NEW w \in Node, NEW t \in Nat, Before(w, t), NEW i \in Node, ~down[i],
         NEW k \in DOMAIN calls[w][i], IsAppend(calls[w][i][k]),
         calls[w][i][k].prevIndex <= Len(log[i]), Matched(i, calls[w][i][k]) = log[i]
  PROVE  LET m == calls[w][i][k]
             l == log[i] \o m.entries
         IN  /\ Extended(i, m) = l
             /\ FollowsOrRepeats(l)
             /\ Stores(DiskExtended(i, m), l)
             /\ Straight(l) => Straight(log[i])
             /\ Straight(log[i]) /\ m.prevIndex = Len(log[i]) => Straight(l)
<1> DEFINE m == calls[w][i][k]
           old == log[i]
           u == m.entries
           p == m.prevIndex
           l == old \o u
           d == DiskAtTerm(i, m.term)
<1>1. /\ TypeOK /\ EntryInv /\ WithWinner(w, t)
  BY DEF Before, EntryInv, ElectionInv
<1>2. m \in Call /\ m \in AppendCall
  <2>1. m \in Call
    BY <1>1, LenProperties, ElementOfSeq DEF TypeOK, NetTypeOK
  <2> QED
    BY <2>1, AppendCallType DEF IsAppend
<1>3. u \in Seq(Entry) /\ u # <<>> /\ p \in Nat /\ old \in Seq(Entry) /\ p <= Len(old)
        /\ Len(old) \in Nat /\ DOMAIN old = 1..Len(old) /\ m.term \in Nat
  BY <1>1, <1>2, LenProperties DEF AppendCall, TypeOK, LogTypeOK
<1>4. \A n \in DOMAIN u : u[n].index = p + n
  BY <1>1 DEF WithWinner, WireIsStraight, IsStraightCall, IsAppend
<1>5. ToSet(u) \subseteq Held
  BY <1>1, HeldEntries DEF CallEntries, IsAppend
<1>6. d \in Disk /\ d.last = disk[i].last /\ d.entries = disk[i].entries
  BY <1>1, <1>3, DiskAtTermType, DiskAtTermKeeps DEF TypeOK
<1>7. Extended(i, m) = l /\ DiskExtended(i, m) = PersistBatch(d, u)
  BY DEF Extended, DiskExtended, TruncateBatch
<1> HIDE DEF d
<1>8. 1 \in DOMAIN u /\ Len(u) \in Nat
  BY <1>3, LenProperties, EmptySeq
<1>9. Straight(old) /\ p < Len(old) => old[p + 1] = u[1]
  <2> SUFFICES ASSUME Straight(old), p < Len(old) PROVE old[p + 1] = u[1]
    OBVIOUS
  <2> DEFINE q == p + 1
  <2>1. u[1].index = q /\ u[1] \in Held
    BY <1>4, <1>5, <1>8 DEF ToSet
  <2>2. q \in DOMAIN old
    BY <1>3
  <2> HIDE DEF q
  <2>3. log[w][q] = u[1]
    BY <1>1, <2>1 DEF WithWinner, WinnerHolds, AtItsIndex
  <2>4. log[w][q] = old[q]
    BY <1>1, <2>2, StraightIsPrefix DEF WithWinner
  <2> QED
    BY <2>3, <2>4 DEF q
<1>10. FollowsOrRepeats(old) /\ Stores(disk[i], old)
  <2>1. LogsFollowOrRepeat /\ DisksFollow
    BY <1>1 DEF WithWinner
  <2> QED
    BY <2>1, Zenon DEF LogsFollowOrRepeat, DisksFollow
<1> HIDE DEF old, u, p
<1>11. /\ Straight(l) <=> Straight(old) /\ p = Len(old)
       /\ ~IsInjective(old) => ~IsInjective(l)
       /\ Straight(old) /\ p < Len(old) /\ old[p + 1] = u[1] => ~IsInjective(l)
  BY <1>3, <1>4, ConcatStraight
<1>12. FollowsOrRepeats(l)
  <2>0. p \in Nat /\ Len(old) \in Nat /\ p <= Len(old)
    BY <1>3
  <2>1. p = Len(old) \/ p < Len(old)
    BY <2>0
  <2> HIDE DEF l
  <2>2. Straight(l) \/ ~IsInjective(l)
    BY <1>9, <1>10, <1>11, <2>1 DEF FollowsOrRepeats
  <2> QED
    BY <2>2 DEF FollowsOrRepeats
<1>13. Stores(PersistBatch(d, u), l)
  <2> SUFFICES ASSUME Straight(old), p = Len(old)
               PROVE  /\ PersistBatch(d, u).last = Len(l)
                      /\ ToSet(l) \subseteq PersistBatch(d, u).entries
    BY <1>11 DEF Stores
  <2>1. /\ PersistBatch(d, u).last = p + Len(u)
        /\ ToSet(u) \subseteq PersistBatch(d, u).entries
        /\ \A e \in d.entries : e.index <= p => e \in PersistBatch(d, u).entries
    BY <1>3, <1>4, <1>6, BatchIsStored
  <2>2. Len(l) = Len(old) + Len(u) /\ ToSet(l) = ToSet(old) \union ToSet(u)
    BY <1>3, ConcatProperties, ConcatElements
  <2>3. \A e \in ToSet(old) : e \in d.entries /\ e.index <= p
    BY <1>3, <1>6, <1>10 DEF Stores, Straight, ToSet
  <2> QED
    BY <2>1, <2>2, <2>3
<1> QED
  BY <1>7, <1>11, <1>12, <1>13 DEF old, u, p

LEMMA AcceptEntriesSteady ==
  ASSUME NEW w \in Node, NEW t \in Nat, Calm(w, t), NEW i \in Node, NEW j \in Node,
         AcceptEntries(i, j)
  PROVE  WithWinner(w, t)'
<1>1. /\ TypeOK /\ TypeOK' /\ EntryInv /\ EntryInv' /\ NoCallsToSelf /\ elected = {<<w, t>>}
      /\ WithWinner(w, t) /\ Before(w, t)
  BY DEF Calm, Before, EntryInv, ElectionInv
<1>2. PICK k \in Arrived(j, i) :
        LET m == calls[j][i][k]
            commit == CommitAfter(i, Extended(i, m), m.commit)
        IN  /\ m.type = "append" /\ m.term >= currentTerm[i] /\ ~HasGap(i, m)
            /\ log' = [log EXCEPT ![i] = Extended(i, m)]
            /\ disk' = [disk EXCEPT ![i] = DiskExtended(i, m)]
            /\ commitIndex' = [commitIndex EXCEPT ![i] = commit]
            /\ IF m.commit > commitIndex[i]
               THEN ApplyView(i, Extended(i, m), commit)
               ELSE UNCHANGED <<executed, lastApplied, down>>
            /\ RespondIfAlive(i, j, k, AppendDone(m.term, Len(Extended(i, m))))
  BY DEF AcceptEntries, AcceptLeader
<1>3. /\ UNCHANGED <<tasks, nextIndex, faults>>
      /\ ~down[i]
  BY DEF AcceptEntries, leaderVars
<1> DEFINE m == calls[j][i][k]
           old == log[i]
           u == m.entries
           l == old \o u
           d == DiskExtended(i, m)
           commit == CommitAfter(i, l, m.commit)
           a == AppendDone(m.term, Len(l))
<1>4. k \in DOMAIN calls[j][i] /\ calls[j][i] \in Seq(Call)
  <2>1. k \in DOMAIN calls[j][i]
    BY <1>1, ArrivedType DEF TypeOK
  <2> QED
    BY <1>1, <2>1 DEF TypeOK, NetTypeOK
<1>5. j = w /\ i # w /\ m \in AppendCall /\ m.term = t /\ Matched(i, m) = old
  BY <1>1, <1>2, NothingCutOff DEF IsAppend
<1>6. m.prevIndex <= Len(old)
  BY <1>1, <1>2, <1>5, LenProperties DEF HasGap, LastIndex, AppendCall, TypeOK, LogTypeOK
<1>7. /\ u \in Seq(Entry) /\ old \in Seq(Entry) /\ l \in Seq(Entry)
      /\ Len(old) \in Nat /\ Len(u) \in Nat /\ Len(l) = Len(old) + Len(u)
      /\ m.commit \in Nat /\ d \in Disk
  <2>1. u \in Seq(Entry) /\ old \in Seq(Entry)
    BY <1>1, <1>5 DEF AppendCall, TypeOK, LogTypeOK
  <2>2. d \in Disk
    BY <1>1, <1>5, ExtendedType
  <2> QED
    BY <1>5, <2>1, <2>2, ConcatProperties, LenProperties DEF AppendCall
<1>8. /\ Extended(i, m) = l
      /\ FollowsOrRepeats(l)
      /\ Stores(d, l)
      /\ Straight(l) => Straight(old)
      /\ Straight(old) /\ m.prevIndex = Len(old) => Straight(l)
  BY <1>1, <1>2, <1>3, <1>4, <1>5, <1>6, ExtendedFollows DEF IsAppend
<1>9. /\ log' = [log EXCEPT ![i] = l]
      /\ disk' = [disk EXCEPT ![i] = d]
      /\ commitIndex' = [commitIndex EXCEPT ![i] = commit]
      /\ m.commit > commitIndex[i] => ApplyView(i, l, commit)
      /\ ~(m.commit > commitIndex[i]) => UNCHANGED <<executed, lastApplied, down>>
      /\ RespondIfAlive(i, j, k, a)
  BY <1>2, <1>8
<1>10. a \in Answer /\ a.success
  <2>1. m.term \in Nat
    BY <1>5
  <2>2. Len(l) \in Nat
    BY <1>7, LenProperties
  <2> HIDE DEF l, m
  <2> QED
    BY <2>1, <2>2 DEF AppendDone, Answer, AppendAnswer
<1>11. lastApplied[i] <= commitIndex[i] /\ commitIndex[i] <= Len(old)
         /\ lastApplied[i] \in Nat /\ commitIndex[i] \in Nat
  BY <1>1, <1>5 DEF WithWinner, NobodyAhead, TypeOK, ApplyTypeOK
<1>12. /\ commit \in Nat /\ commitIndex[i] <= commit /\ commit <= Len(l)
       /\ m.commit <= commitIndex[i] => commit = commitIndex[i]
  <2>1. commitIndex[i] <= Len(l)
    <3> HIDE DEF l, old, u
    <3>1. /\ Len(l) = Len(old) + Len(u) /\ Len(old) \in Nat /\ Len(u) \in Nat
          /\ commitIndex[i] \in Nat /\ commitIndex[i] <= Len(old)
      BY <1>7, <1>11
    <3> QED
      BY <3>1
  <2> QED
    BY <1>1, <1>7, <2>1, CommitAfterBounds
<1> HIDE DEF commit, d, a, l, u, old, m
<1>13. faults.restarts = 0 /\ Straight(l) => executed[i] = Commands(SubSeq(l, 1, lastApplied[i]))
  <2> SUFFICES ASSUME faults.restarts = 0, Straight(l)
               PROVE  executed[i] = Commands(SubSeq(l, 1, lastApplied[i]))
    OBVIOUS
  <2>1. executed[i] = Commands(SubSeq(old, 1, lastApplied[i]))
    BY <1>1, <1>5, <1>8 DEF WithWinner, FollowersExecute, old
  <2>2. lastApplied[i] <= Len(old)
    BY <1>7, <1>11
  <2>3. SubSeq(l, 1, lastApplied[i]) = SubSeq(old, 1, lastApplied[i])
    BY <1>7, <1>11, <2>2, BeginningStays DEF l
  <2> QED
    BY <2>1, <2>3
<1>14. /\ down' = down
       /\ lastApplied'[i] <= commit
       /\ \A n \in Node \ {i} : executed'[n] = executed[n] /\ lastApplied'[n] = lastApplied[n]
       /\ faults.restarts = 0 /\ Straight(l)
            => executed'[i] = Commands(SubSeq(l, 1, lastApplied'[i]))
  <2>1. CASE m.commit > commitIndex[i]
    <3>1. lastApplied[i] <= commit
      BY <1>11, <1>12
    <3>2. /\ down' = down
          /\ lastApplied' = [lastApplied EXCEPT ![i] = commit]
          /\ \A n \in Node \ {i} : executed'[n] = executed[n]
          /\ executed[i] = Commands(SubSeq(l, 1, lastApplied[i]))
               => executed'[i] = Commands(SubSeq(l, 1, commit))
      BY <1>1, <1>3, <1>7, <1>9, <1>12, <2>1, <3>1, ViewExecutes
    <3>3. lastApplied'[i] = commit /\ \A n \in Node \ {i} : lastApplied'[n] = lastApplied[n]
      BY <1>1, <3>2 DEF TypeOK, ApplyTypeOK
    <3> QED
      BY <1>12, <1>13, <3>2, <3>3
  <2>2. CASE ~(m.commit > commitIndex[i])
    <3>1. lastApplied[i] <= commit
      BY <1>11, <1>12
    <3> QED
      BY <1>9, <1>13, <2>2, <3>1
  <2> QED
    BY <2>1, <2>2
<1>15. Respond(i, j, k, a)
  BY <1>3, <1>9, <1>14 DEF RespondIfAlive
<1>16. /\ calls' = [calls EXCEPT ![j][i] = RemoveAt(@, k)]
       /\ answers' = answers \/ answers' = [answers EXCEPT ![j][i] = Append(@, a)]
  BY <1>15 DEF Respond
<1>17. Held' \subseteq Held
  BY <1>1, FollowHeld
<1>18. WireIsStraight'
  BY <1>1, <1>16, RemovedStraight DEF WithWinner
<1>19. \A n \in Node : log'[n] = IF n = i THEN l ELSE log[n]
  BY <1>1, <1>9 DEF TypeOK, LogTypeOK
<1>20. NothingMissing(w, t)'
  <2> SUFFICES ASSUME Undisturbed'
               PROVE  /\ \A n \in Node : Straight(log'[n])
                      /\ \A n \in Node \ {w} :
                           /\ nextIndex'[w][n] = 0
                           /\ NoRefusal(answers'[w][n], t)
                           /\ currentTerm'[n] <= t
                                => Piped(calls'[w][n], Len(log'[n]), Len(log'[w]))
    BY DEF NothingMissing
  <2>1. Undisturbed
    BY <1>3 DEF Undisturbed, OneWin, Calm
  <2>2. /\ \A n \in Node : Straight(log[n])
        /\ \A n \in Node \ {w} :
             /\ nextIndex[w][n] = 0
             /\ NoRefusal(answers[w][n], t)
             /\ currentTerm[n] <= t => Piped(calls[w][n], Len(log[n]), Len(log[w]))
    BY <1>1, <2>1 DEF WithWinner, NothingMissing
  <2>3. /\ k = 1 /\ m.prevIndex = Len(old) /\ Len(u) = 1
        /\ Piped(RemoveAt(calls[w][i], k), Len(old) + 1, Len(log[w]))
    BY <1>2, <1>5, <2>1, NextRequest DEF IsAppend, m, old, u
  <2>4. \A n \in Node : Straight(log'[n])
    BY <1>8, <1>19, <2>2, <2>3 DEF old
  <2>5. \A n \in Node \ {w} : nextIndex'[w][n] = 0 /\ NoRefusal(answers'[w][n], t)
    BY <1>1, <1>3, <1>10, <1>16, <2>2, AnsweredStand DEF TypeOK
  <2>6. ASSUME NEW n \in Node \ {w}, currentTerm'[n] <= t
        PROVE  Piped(calls'[w][n], Len(log'[n]), Len(log'[w]))
    <3>1. log'[w] = log[w]
      BY <1>5, <1>19
    <3>2. CASE n = i
      <4>1. calls'[w][n] = RemoveAt(calls[w][i], k)
        BY <1>1, <1>5, <1>16, <3>2 DEF TypeOK, NetTypeOK
      <4>2. Len(log'[n]) = Len(old) + 1
        BY <1>7, <1>19, <2>3, <3>2
      <4> QED
        BY <2>3, <3>1, <4>1, <4>2
    <3>3. CASE n # i
      <4>1. calls'[w][n] = calls[w][n] /\ log'[n] = log[n]
        BY <1>1, <1>16, <1>19, <3>3 DEF TypeOK, NetTypeOK
      <4>2. currentTerm[n] <= t
        BY <1>1, <2>6 DEF Calm, TermsStay, TypeOK, RaftTypeOK
      <4> QED
        BY <2>2, <3>1, <4>1, <4>2
    <3> QED
      BY <3>2, <3>3
  <2> QED
    BY <2>4, <2>5, <2>6
<1>21. /\ commitIndex'[i] = commit
       /\ \A n \in Node \ {i} : commitIndex'[n] = commitIndex[n]
  BY <1>1, <1>9 DEF TypeOK, ApplyTypeOK
<1>22. Calm(w, t) /\ i # w /\ ~down[i] /\ UNCHANGED <<down, tasks, faults>>
  BY <1>3, <1>5, <1>14
<1>23. /\ l \in Seq(Entry) /\ log' = [log EXCEPT ![i] = l] /\ FollowsOrRepeats(l)
       /\ d \in Disk /\ disk' = [disk EXCEPT ![i] = d] /\ Stores(d, l)
       /\ Held' \subseteq Held /\ WireIsStraight' /\ NothingMissing(w, t)'
  BY <1>7, <1>8, <1>9, <1>17, <1>18, <1>20
<1>24. /\ \A n \in Node \ {i} : /\ commitIndex'[n] = commitIndex[n]
                                /\ lastApplied'[n] = lastApplied[n]
                                /\ executed'[n] = executed[n]
       /\ lastApplied'[i] <= commitIndex'[i] /\ commitIndex'[i] <= Len(l)
       /\ faults.restarts = 0 /\ Straight(l)
            => executed'[i] = Commands(SubSeq(l, 1, lastApplied'[i]))
  BY <1>12, <1>14, <1>21
<1> QED
  BY <1>22, <1>23, <1>24, FollowerSteady

-----------------------------------------------------------------------------
(* The winner's own log and what it executes. *)

LEMMA LogGrows ==
  ASSUME NEW l \in Seq(Entry), Straight(l), NEW e \in Entry, e.index - 1 = Len(l)
  PROVE  /\ Append(l, e) = l \o <<e>>
         /\ Append(l, e) \in Seq(Entry) /\ Len(Append(l, e)) = Len(l) + 1
         /\ Straight(Append(l, e))
         /\ AtItsIndex(Append(l, e), e)
         /\ \A f : AtItsIndex(l, f) => AtItsIndex(Append(l, e), f)
<1> DEFINE new == Append(l, e)
<1>1. /\ new \in Seq(Entry) /\ Len(new) = Len(l) + 1 /\ Len(l) \in Nat
      /\ DOMAIN l = 1..Len(l) /\ DOMAIN new = 1..(Len(l) + 1)
      /\ \A n \in 1..Len(l) : new[n] = l[n]
      /\ new[Len(l) + 1] = e
  BY AppendProperties, LenProperties
<1>2. new = l \o <<e>>
  BY AppendIsConcat
<1> HIDE DEF new
<1>3. e.index \in DOMAIN new /\ new[e.index] = e
  <2>1. e.index \in Nat
    BY DEF Entry
  <2>2. e.index = Len(l) + 1
    BY <1>1, <2>1
  <2> QED
    BY <1>1, <2>2
<1>4. \A n \in DOMAIN new : n \in DOMAIN l \/ n = e.index
  <2>1. e.index \in Nat
    BY DEF Entry
  <2> QED
    BY <1>1, <2>1
<1>5. Straight(new)
  BY <1>1, <1>3, <1>4 DEF Straight
<1>6. AtItsIndex(new, e) /\ \A f : AtItsIndex(l, f) => AtItsIndex(new, f)
  BY <1>1, <1>3 DEF AtItsIndex
<1> QED
  BY <1>1, <1>2, <1>5, <1>6 DEF new

LEMMA ProposeSteady ==
  ASSUME NEW w \in Node, NEW t \in Nat, Calm(w, t), NEW i \in Node, NEW c \in Command,
         Propose(i, c)
  PROVE  WithWinner(w, t)'
<1> DEFINE l == log[i]
           index == LastIndex(l) + 1
           e == [term |-> currentTerm[i], index |-> index, command |-> c]
           new == Append(l, e)
           task == [index |-> index, command |-> c]
           m == [type |-> "append", term |-> currentTerm[i], prevIndex |-> PrevIndex(new),
                 prevTerm |-> PrevTerm(new), entries |-> <<e>>,
                 commit |-> commitIndex[i], live |-> TRUE]
           batch == [j \in Node |-> <<m>>]
<1>1. /\ TypeOK /\ TypeOK' /\ EntryInv /\ NoCallsToSelf /\ elected = {<<w, t>>}
      /\ WithWinner(w, t) /\ Before(w, t)
  BY DEF Calm, Before, EntryInv, ElectionInv
<1>2. /\ role[i] = "leader"
      /\ log' = [log EXCEPT ![i] = new]
      /\ disk' = [disk EXCEPT ![i] = PersistBatch(@, <<e>>)]
      /\ nextIndex' = [nextIndex EXCEPT ![i][i] = index + 1]
      /\ tasks' = [tasks EXCEPT ![i] = Append(@, task)]
      /\ Broadcast(i, batch)
      /\ UNCHANGED <<commitIndex, lastApplied, executed, down, answers, faults>>
  BY DEF Propose
<1>3. i = w /\ currentTerm[i] = t
  BY <1>1, <1>2, WinnerFacts
<1>4. l \in Seq(Entry) /\ Len(l) \in Nat /\ DOMAIN l = 1..Len(l) /\ index = Len(l) + 1
  BY <1>1, LenProperties DEF TypeOK, LogTypeOK, LastIndex
<1>5. /\ e \in Entry /\ e.index - 1 = Len(l) /\ e.term = t /\ e.command = c
      /\ e.index = Len(l) + 1
  BY <1>1, <1>3, <1>4 DEF Entry, TypeOK, RaftTypeOK
<1>6. task \in Task /\ task.command = c
  BY <1>4 DEF Task
<1>7. Held' \subseteq Held \union {e}
  BY <1>1, <1>2, ProposeHeld
<1>8. m \in Call
  BY <1>1, ProposedCallType
<1>9. /\ m.type = "append" /\ m.term = t /\ m.entries = <<e>>
      /\ m.prevIndex = PrevIndex(new) /\ m.prevTerm = PrevTerm(new)
  BY <1>3
<1>10. \A b \in Node : batch[b] = <<m>>
  OBVIOUS
<1> HIDE DEF e, task, m, batch, index
<1>11. Straight(l) /\ ~down[w] /\ \A f \in Held : AtItsIndex(l, f)
  BY <1>1, <1>3 DEF WithWinner, WinnerHolds
<1>12. /\ new = l \o <<e>>
       /\ new \in Seq(Entry) /\ Len(new) = Len(l) + 1
       /\ Straight(new)
       /\ AtItsIndex(new, e)
       /\ \A f : AtItsIndex(l, f) => AtItsIndex(new, f)
  BY <1>4, <1>5, <1>11, LogGrows
<1>13. m.prevIndex = Len(l) /\ m.prevTerm = IF Len(l) = 0 THEN 0 ELSE t
  <2>1. \A n \in DOMAIN l : l[n].term = t /\ new[n] = l[n]
    <3>1. \A n \in DOMAIN l : l[n].term = t
      BY <1>1, <1>3, HeldEntries, WinnerFacts DEF ToSet
    <3>2. \A n \in DOMAIN l : new[n] = l[n]
      BY <1>4, <1>5, AppendProperties
    <3> QED
      BY <3>1, <3>2
  <2>2. new # <<>>
    BY <1>4, <1>12
  <2> HIDE DEF new
  <2>3. PrevIndex(new) = Len(l)
    BY <1>4, <1>12, <2>2 DEF PrevIndex
  <2>4. CASE Len(l) = 0
    BY <1>9, <1>12, <2>3, <2>4 DEF PrevTerm
  <2>5. CASE Len(l) # 0
    <3>1. ~(Len(new) < 2) /\ Len(new) - 1 = Len(l) /\ Len(l) \in DOMAIN l
      BY <1>4, <1>12, <2>5
    <3> QED
      BY <1>9, <2>1, <2>3, <2>5, <3>1 DEF PrevTerm
  <2> QED
    BY <2>4, <2>5
<1> HIDE DEF new
<1>14. IsStraightCall(m)
  <2>1. DOMAIN <<e>> = {1} /\ <<e>>[1] = e
    OBVIOUS
  <2> QED
    BY <1>4, <1>5, <1>9, <1>13, <2>1 DEF IsStraightCall
<1>15. /\ \A n \in Node : log'[n] = IF n = w THEN new ELSE log[n]
       /\ \A n \in Node : disk'[n] = IF n = w THEN PersistBatch(disk[w], <<e>>) ELSE disk[n]
       /\ tasks'[w] = Append(tasks[w], task)
  BY <1>1, <1>2, <1>3 DEF TypeOK, LogTypeOK, ApplyTypeOK
<1>16. WinnerHolds(w)'
  BY <1>2, <1>7, <1>11, <1>12, <1>15 DEF WinnerHolds
<1>17. WireIsStraight'
  <2>1. \A b \in Node \ {i} : /\ batch[b] \in Seq(Call)
                             /\ \A n \in DOMAIN batch[b] : IsStraightCall(batch[b][n])
    <3>1. <<m>> \in Seq(Call) /\ \A n \in DOMAIN <<m>> : <<m>>[n] = m
      BY <1>8
    <3> QED
      BY <1>10, <1>14, <3>1
  <2> QED
    BY <1>1, <1>2, <2>1, BroadcastStraight DEF WithWinner
<1>18. LogsFollowOrRepeat'
  BY <1>1, <1>12, <1>15 DEF WithWinner, LogsFollowOrRepeat, FollowsOrRepeats
<1>19. DisksFollow'
  <2>1. Stores(PersistBatch(disk[w], <<e>>), new)
    <3> DEFINE d == PersistBatch(disk[w], <<e>>)
    <3>1. /\ <<e>> \in Seq(Entry) /\ <<e>> # <<>> /\ Len(<<e>>) = 1 /\ ToSet(<<e>>) = {e}
          /\ \A n \in DOMAIN <<e>> : <<e>>[n].index = Len(l) + n
      BY <1>5 DEF ToSet
    <3>2. disk[w] \in Disk
      BY <1>1 DEF TypeOK, LogTypeOK
    <3>3. /\ d.last = Len(l) + 1 /\ e \in d.entries
          /\ \A f \in disk[w].entries : f.index <= Len(l) => f \in d.entries
      BY <1>4, <3>1, <3>2, BatchIsStored
    <3> HIDE DEF d
    <3>4. Stores(disk[w], l)
      BY <1>1, <1>3, <1>11 DEF WithWinner, DisksFollow
    <3>5. \A f \in ToSet(l) : f \in disk[w].entries /\ f.index <= Len(l)
      BY <1>4, <1>11, <3>4 DEF Stores, Straight, ToSet
    <3>6. ToSet(new) = ToSet(l) \union {e}
      BY <1>4, <1>5, AppendElements DEF new
    <3> QED
      BY <1>12, <3>3, <3>5, <3>6 DEF Stores, d
  <2> QED
    BY <1>1, <1>2, <1>15, <2>1 DEF WithWinner, DisksFollow
<1>20. NobodyAhead(w)'
  BY <1>1, <1>2, <1>11, <1>15 DEF WithWinner, NobodyAhead
<1>21. LeaderExecutes(w)'
  <2>1. Commands(l) = executed[w] \o Commands(tasks[w])
    BY <1>1, <1>2, <1>3 DEF WithWinner, LeaderExecutes
  <2>2. \A x \in Entry \union Task : x.command \in Command
    BY DEF Entry, Task
  <2>3. tasks[w] \in Seq(Task) /\ executed[w] \in Seq(Command)
    BY <1>1 DEF TypeOK, ApplyTypeOK
  <2>4. Commands(<<e>>) = <<c>> /\ Commands(<<task>>) = <<c>>
    BY <1>5, <1>6 DEF Commands
  <2>5. Commands(new) = Commands(l) \o <<c>>
    <3>1. <<e>> \in Seq(Entry)
      BY <1>5
    <3> QED
      BY <1>4, <1>12, <2>2, <2>4, <3>1, CommandsConcat
  <2>6. Commands(tasks'[w]) = Commands(tasks[w]) \o <<c>>
    <3>1. <<task>> \in Seq(Task)
      BY <1>6
    <3>2. tasks'[w] = tasks[w] \o <<task>>
      BY <1>6, <1>15, <2>3, AppendIsConcat
    <3> QED
      BY <2>2, <2>3, <2>4, <3>1, <3>2, CommandsConcat
  <2>7. Commands(tasks[w]) \in Seq(Command) /\ <<c>> \in Seq(Command)
    BY <2>2, <2>3, CommandsType
  <2>8. Commands(new) = executed[w] \o Commands(tasks'[w])
    <3> DEFINE done == executed[w]
               waiting == Commands(tasks[w])
    <3>1. done \in Seq(Command) /\ waiting \in Seq(Command) /\ <<c>> \in Seq(Command)
      BY <2>3, <2>7
    <3>2. Commands(l) = done \o waiting /\ Commands(tasks'[w]) = waiting \o <<c>>
      BY <2>1, <2>6
    <3> HIDE DEF done, waiting
    <3>3. (done \o waiting) \o <<c>> = done \o (waiting \o <<c>>)
      BY <3>1, JoinTwice
    <3>4. Commands(new) = done \o Commands(tasks'[w])
      BY <2>5, <3>2, <3>3
    <3> QED
      BY <3>4 DEF done
  <2> QED
    BY <1>2, <1>15, <2>8 DEF LeaderExecutes
<1>22. FollowersExecute(w)'
  BY <1>1, <1>2, <1>15 DEF WithWinner, FollowersExecute
<1>23. NothingMissing(w, t)'
  <2> SUFFICES ASSUME Undisturbed'
               PROVE  /\ \A n \in Node : Straight(log'[n])
                      /\ \A n \in Node \ {w} :
                           /\ nextIndex'[w][n] = 0
                           /\ NoRefusal(answers'[w][n], t)
                           /\ currentTerm'[n] <= t
                                => Piped(calls'[w][n], Len(log'[n]), Len(log'[w]))
    BY DEF NothingMissing
  <2>1. Undisturbed
    BY <1>2 DEF Undisturbed, OneWin, Calm
  <2>2. /\ \A n \in Node : Straight(log[n])
        /\ \A n \in Node \ {w} :
             /\ nextIndex[w][n] = 0
             /\ NoRefusal(answers[w][n], t)
             /\ currentTerm[n] <= t => Piped(calls[w][n], Len(log[n]), Len(log[w]))
    BY <1>1, <2>1 DEF WithWinner, NothingMissing
  <2>3. \A n \in Node : Straight(log'[n])
    BY <1>12, <1>15, <2>2
  <2>4. \A n \in Node \ {w} : nextIndex'[w][n] = 0 /\ NoRefusal(answers'[w][n], t)
    BY <1>1, <1>2, <1>3, <2>2 DEF TypeOK, LeaderTypeOK
  <2>5. ASSUME NEW n \in Node \ {w}, currentTerm'[n] <= t
        PROVE  Piped(calls'[w][n], Len(log'[n]), Len(log'[w]))
    <3>1. currentTerm' = currentTerm
      BY DEF Propose, raftVars
    <3>2. Piped(calls[w][n], Len(log[n]), Len(l))
      BY <1>3, <2>2, <2>5, <3>1
    <3>3. calls'[w][n] = calls[w][n] \o <<m>>
      BY <1>1, <1>2, <1>3, <1>10 DEF Broadcast, TypeOK, NetTypeOK
    <3>4. Len(log[n]) <= Len(l)
      BY <1>1, <1>3, <2>2, StraightIsPrefix DEF WithWinner
    <3>5. m \in AppendCall /\ Len(m.entries) = 1
      BY <1>8, <1>9, AppendCallType
    <3>6. calls[w][n] \in Seq(Call) /\ Len(log[n]) \in Nat
      BY <1>1, LenProperties DEF TypeOK, NetTypeOK, LogTypeOK
    <3>7. Piped(calls[w][n] \o <<m>>, Len(log[n]), Len(l) + 1)
      BY <1>4, <1>13, <3>2, <3>4, <3>5, <3>6, PipedNext
    <3> QED
      BY <1>12, <1>15, <3>3, <3>7
  <2> QED
    BY <2>3, <2>4, <2>5
<1> QED
  BY <1>16, <1>17, <1>18, <1>19, <1>20, <1>21, <1>22, <1>23 DEF WithWinner

LEMMA NoteMatchSteady ==
  ASSUME NEW w \in Node, NEW t \in Nat, Calm(w, t), NEW i \in Node, NEW j \in Node,
         NoteMatch(i, j)
  PROVE  WithWinner(w, t)'
<1>1. /\ TypeOK /\ TypeOK' /\ EntryInv /\ EntryInv' /\ NoCallsToSelf /\ elected = {<<w, t>>}
      /\ WithWinner(w, t)
  BY DEF Calm, Before, EntryInv, ElectionInv
<1>2. /\ role[i] = "leader" /\ answers[i][j] # <<>> /\ Consume(i, j)
      /\ UNCHANGED <<log, disk, down, nextIndex, calls, faults>>
      /\ UNCHANGED role
  BY DEF NoteMatch, raftVars, logVars
<1>3. i = w
  BY <1>1, <1>2, WinnerFacts
<1>4. PICK c \in Nat, n \in 0..Len(tasks[i]) :
        /\ commitIndex' = [commitIndex EXCEPT ![i] = c]
        /\ lastApplied' = [lastApplied EXCEPT ![i] = c]
        /\ executed' = [executed EXCEPT ![i] = @ \o Commands(SubSeq(tasks[i], 1, n))]
        /\ tasks' = [tasks EXCEPT ![i] = Remaining(@, n)]
  <2> DEFINE a == Head(answers[i][j])
             match == [matchIndex[i] EXCEPT ![j] = a.last]
  <2>1. a \in Answer /\ a.type = "append"
    BY <1>1, <1>2, ConsumeType DEF NoteMatch, TypeOK
  <2>2. a.last \in Nat
    BY <2>1, AppendAnswerType DEF AppendAnswer
  <2> HIDE DEF a
  <2>3. \A n \in Node : match[n] \in Nat
    BY <1>1, <2>2 DEF TypeOK, LeaderTypeOK
  <2>4. PICK c \in {match[n] : n \in Node}, n \in 0..Len(tasks[i]) :
          /\ commitIndex' = [commitIndex EXCEPT ![i] = c]
          /\ lastApplied' = [lastApplied EXCEPT ![i] = c]
          /\ executed' = [executed EXCEPT ![i] = @ \o Commands(SubSeq(tasks[i], 1, n))]
          /\ tasks' = [tasks EXCEPT ![i] = Remaining(@, n)]
    BY DEF NoteMatch, a
  <2>5. c \in Nat
    BY <2>3
  <2> QED
    BY <2>4, <2>5
<1>5. /\ commitIndex'[w] = c /\ lastApplied'[w] = c
      /\ executed'[w] = executed[w] \o Commands(SubSeq(tasks[w], 1, n))
      /\ tasks'[w] = Remaining(tasks[w], n)
      /\ \A x \in Node \ {w} : /\ commitIndex'[x] = commitIndex[x]
                               /\ lastApplied'[x] = lastApplied[x]
                               /\ executed'[x] = executed[x]
  BY <1>1, <1>3, <1>4 DEF TypeOK, ApplyTypeOK
<1>6. Held' \subseteq Held
  BY <1>1, <1>2, SameHeld, FromHeld
<1>7. WinnerHolds(w)'
  BY <1>1, <1>2, <1>6 DEF WithWinner, WinnerHolds
<1>8. WireIsStraight' /\ LogsFollowOrRepeat' /\ DisksFollow'
  BY <1>1, <1>2 DEF WithWinner, WireIsStraight, LogsFollowOrRepeat, DisksFollow
<1>9. NobodyAhead(w)'
  BY <1>1, <1>2, <1>5 DEF WithWinner, NobodyAhead
<1>10. LeaderExecutes(w)'
  <2> DEFINE q == tasks[w]
             first == SubSeq(q, 1, n)
             rest == Remaining(q, n)
  <2>1. Commands(log[w]) = executed[w] \o Commands(q)
    BY <1>1, <1>2, <1>3 DEF WithWinner, LeaderExecutes
  <2>2. /\ q \in Seq(Task) /\ executed[w] \in Seq(Command) /\ Len(q) \in Nat /\ n \in 0..Len(q)
        /\ \A x \in Task : x.command \in Command
    BY <1>1, <1>3, LenProperties DEF TypeOK, ApplyTypeOK, Task
  <2>3. first \in Seq(Task) /\ rest \in Seq(Task)
    <3>1. n + 1 \in Nat \ {0} /\ 1 \in Nat \ {0} /\ n \in Nat /\ n <= Len(q)
      BY <2>2
    <3> QED
      BY <2>2, <3>1, SubSeqElements DEF Remaining
  <2>4. first \o rest = q
    <3>1. 1 \in 1..Len(q) + 1 /\ n \in 1 - 1..Len(q) /\ Len(q) \in n..Len(q)
      BY <2>2
    <3>2. SubSeq(q, 1, n) \o SubSeq(q, n + 1, Len(q)) = SubSeq(q, 1, Len(q))
      BY <2>2, <3>1, ConcatAdjacentSubSeq
    <3>3. SubSeq(q, 1, Len(q)) = q
      BY <2>2, SubSeqFull
    <3> QED
      BY <3>2, <3>3 DEF Remaining
  <2>5. executed'[w] = executed[w] \o Commands(first) /\ tasks'[w] = rest
    BY <1>5
  <2> HIDE DEF q, first, rest
  <2>6. Commands(q) = Commands(first) \o Commands(rest)
    BY <2>2, <2>3, <2>4, CommandsConcat
  <2>7. Commands(first) \in Seq(Command) /\ Commands(rest) \in Seq(Command)
    BY <2>2, <2>3, CommandsType
  <2>8. (executed[w] \o Commands(first)) \o Commands(rest)
          = executed[w] \o (Commands(first) \o Commands(rest))
    <3> DEFINE done == executed[w]
               now == Commands(first)
               later == Commands(rest)
    <3>1. done \in Seq(Command) /\ now \in Seq(Command) /\ later \in Seq(Command)
      BY <2>2, <2>7
    <3> HIDE DEF done, now, later
    <3>2. (done \o now) \o later = done \o (now \o later)
      BY <3>1, JoinTwice
    <3> QED
      BY <3>2 DEF done, now, later
  <2> QED
    BY <1>2, <2>1, <2>5, <2>6, <2>8 DEF LeaderExecutes
<1>11. FollowersExecute(w)'
  BY <1>1, <1>2, <1>5 DEF WithWinner, FollowersExecute
<1>12. NothingMissing(w, t)'
  <2>1. \A x \in Node \ {w} : NoRefusal(answers[w][x], t) => NoRefusal(answers'[w][x], t)
    BY <1>1, <1>2, ConsumedStand DEF TypeOK
  <2> QED
    BY <1>1, <1>2, <2>1, PipesStand DEF Calm, WithWinner
<1> QED
  BY <1>7, <1>8, <1>9, <1>10, <1>11, <1>12 DEF WithWinner

-----------------------------------------------------------------------------
(* Restarts. *)

LEMMA RecoveredStraight ==
  ASSUME NEW d \in Disk, Recoverable(d)
  PROVE  /\ RecoverEntries(d) \in Seq(Entry) /\ Len(RecoverEntries(d)) = d.last
         /\ Straight(RecoverEntries(d))
         /\ ToSet(RecoverEntries(d)) \subseteq d.entries
<1> DEFINE r == RecoverEntries(d)
<1>1. r \in Seq(Entry) /\ ToSet(r) \subseteq d.entries
  BY RecoveredType, RecoveredEntries
<1>2. d.last \in Nat /\ DOMAIN r = 1..d.last
  BY DEF RecoverEntries, Disk
<1>3. \A k \in 1..d.last : r[k].index = k
  <2> SUFFICES ASSUME NEW k \in 1..d.last PROVE r[k].index = k
    OBVIOUS
  <2>1. \E e \in d.entries : e.index = k
    BY DEF Recoverable
  <2>2. r[k] = CHOOSE e \in d.entries : e.index = k
    BY DEF RecoverEntries
  <2> QED
    BY <2>1, <2>2
<1> HIDE DEF r
<1>4. Len(r) = d.last
  BY <1>1, <1>2, LenProperties
<1>5. Straight(r)
  BY <1>2, <1>3 DEF Straight
<1> QED
  BY <1>1, <1>4, <1>5 DEF r

\* What a node finds on its disk is the log it has in memory.
LEMMA DiskGivesLog ==
  ASSUME TypeOK, NEW w \in Node, WinnerHolds(w), DisksFollow,
         NEW i \in Node, ~down[i], Straight(log[i])
  PROVE  Recoverable(disk[i]) /\ RecoverEntries(disk[i]) = log[i]
<1> DEFINE d == disk[i]
           l == log[i]
           r == RecoverEntries(d)
<1>1. d \in Disk /\ l \in Seq(Entry) /\ Len(l) \in Nat /\ DOMAIN l = 1..Len(l)
  BY LenProperties DEF TypeOK, LogTypeOK
<1>2. d.last = Len(l) /\ ToSet(l) \subseteq d.entries
  BY DEF DisksFollow, Stores
<1>3. Recoverable(d)
  <2>1. \A k \in 1..d.last : l[k] \in d.entries /\ l[k].index = k
    BY <1>1, <1>2 DEF Straight, ToSet
  <2> QED
    BY <2>1 DEF Recoverable
<1>4. /\ r \in Seq(Entry) /\ Len(r) = Len(l) /\ DOMAIN r = 1..Len(l)
      /\ Straight(r) /\ ToSet(r) \subseteq d.entries
  BY <1>1, <1>2, <1>3, RecoveredStraight, LenProperties
<1>5. d.entries \subseteq Held
  BY HeldEntries
<1> HIDE DEF r, d
<1>6. \A k \in 1..Len(l) : r[k] = l[k]
  <2> SUFFICES ASSUME NEW k \in 1..Len(l) PROVE r[k] = l[k]
    OBVIOUS
  <2>1. r[k] \in Held /\ r[k].index = k
    BY <1>4, <1>5 DEF Straight, ToSet
  <2>2. log[w][k] = r[k]
    BY <2>1 DEF WinnerHolds, AtItsIndex
  <2>3. log[w][k] = l[k]
    BY <1>1, StraightIsPrefix
  <2> QED
    BY <2>2, <2>3
<1>7. r = l
  BY <1>1, <1>4, <1>6, SeqEqual
<1> QED
  BY <1>3, <1>7 DEF r, d

LEMMA RestartSteady ==
  ASSUME NEW w \in Node, NEW t \in Nat, Before(w, t), NEW i \in Node, Restart(i)
  PROVE  WithWinner(w, t)'
<1> DEFINE d == disk[i]
           l == IF Recoverable(d) THEN RecoverEntries(d) ELSE <<>>
<1>1. TypeOK /\ WithWinner(w, t)
  BY DEF Before, EntryInv, ElectionInv
<1>2. /\ faults' = [faults EXCEPT !.restarts = @ + 1]
      /\ role' = [role EXCEPT ![i] = "follower"]
      /\ log' = [log EXCEPT ![i] = l]
      /\ down' = [down EXCEPT ![i] = ~Recoverable(d)]
      /\ commitIndex' = [commitIndex EXCEPT ![i] = 0]
      /\ lastApplied' = [lastApplied EXCEPT ![i] = 0]
      /\ tasks' = [tasks EXCEPT ![i] = <<>>]
      /\ UNCHANGED <<disk, executed>>
  BY DEF Restart
<1>3. faults'.restarts # 0 /\ ~Undisturbed'
  BY <1>1, <1>2 DEF Undisturbed, TypeOK, FaultTypeOK
<1>4. d \in Disk
  BY <1>1 DEF TypeOK, LogTypeOK
<1>5. l \in Seq(Entry) /\ Straight(l) /\ (Recoverable(d) => Stores(d, l))
  <2>1. CASE Recoverable(d)
    BY <1>4, <2>1, RecoveredStraight DEF Stores
  <2>2. CASE ~Recoverable(d)
    BY <2>2 DEF Straight
  <2> QED
    BY <2>1, <2>2
<1>6. i = w => l = log[w] /\ Recoverable(d)
  BY <1>1, DiskGivesLog DEF WithWinner, WinnerHolds
<1> HIDE DEF l
<1>7. \A n \in Node : /\ log'[n] = IF n = i THEN l ELSE log[n]
                      /\ down'[n] = IF n = i THEN ~Recoverable(d) ELSE down[n]
                      /\ commitIndex'[n] = IF n = i THEN 0 ELSE commitIndex[n]
                      /\ lastApplied'[n] = IF n = i THEN 0 ELSE lastApplied[n]
  BY <1>1, <1>2 DEF TypeOK, LogTypeOK, ApplyTypeOK
<1>8. Held' \subseteq Held /\ WireIsStraight'
  BY <1>1, RestartHeld, RestartStraight DEF WithWinner
<1>9. WinnerHolds(w)'
  BY <1>1, <1>6, <1>7, <1>8 DEF WithWinner, WinnerHolds
<1>10. LogsFollowOrRepeat'
  BY <1>1, <1>5, <1>7 DEF WithWinner, LogsFollowOrRepeat, FollowsOrRepeats
<1>11. DisksFollow'
  BY <1>1, <1>2, <1>5, <1>7 DEF WithWinner, DisksFollow
<1>12. NobodyAhead(w)'
  <2>1. Len(l) \in Nat
    BY <1>5, LenProperties
  <2> SUFFICES ASSUME NEW n \in Node
               PROVE  /\ lastApplied'[n] <= commitIndex'[n]
                      /\ down'[n] => ~Recoverable(disk'[n])
                      /\ n # w => commitIndex'[n] <= Len(log'[n])
    BY DEF NobodyAhead
  <2>2. CASE n = i
    <3>1. lastApplied'[n] = 0 /\ commitIndex'[n] = 0 /\ log'[n] = l
      BY <1>7, <2>2
    <3>2. down'[n] => ~Recoverable(disk'[n])
      BY <1>2, <1>7, <2>2
    <3> QED
      BY <2>1, <3>1, <3>2
  <2>3. CASE n # i
    <3>1. /\ lastApplied'[n] = lastApplied[n] /\ commitIndex'[n] = commitIndex[n]
          /\ log'[n] = log[n] /\ down'[n] = down[n] /\ disk'[n] = disk[n]
      BY <1>2, <1>7, <2>3
    <3> QED
      BY <1>1, <3>1 DEF WithWinner, NobodyAhead
  <2> QED
    BY <2>2, <2>3
<1>13. LeaderExecutes(w)'
  <2>1. CASE w = i
    BY <1>1, <1>2, <2>1 DEF LeaderExecutes, TypeOK, RaftTypeOK
  <2>2. CASE w # i
    <3>1. role'[w] = role[w] /\ log'[w] = log[w] /\ tasks'[w] = tasks[w]
      BY <1>1, <1>2, <1>7, <2>2 DEF TypeOK, RaftTypeOK, ApplyTypeOK
    <3> QED
      BY <1>1, <1>2, <3>1 DEF WithWinner, LeaderExecutes
  <2> QED
    BY <2>1, <2>2
<1>14. FollowersExecute(w)' /\ NothingMissing(w, t)'
  BY <1>3, DisturbedSteady DEF FollowersExecute
<1> QED
  BY <1>8, <1>9, <1>10, <1>11, <1>12, <1>13, <1>14 DEF WithWinner

-----------------------------------------------------------------------------
(* Steps that leave the winner the only one. *)

LEMMA WinIsNew ==
  ASSUME ElectionInv, NEW i \in Node, NEW j \in Node, BecomeLeader(i, j)
  PROVE  <<i, currentTerm[i]>> \notin elected /\ elected' = elected \union {<<i, currentTerm[i]>>}
BY DEF BecomeLeader, ElectionInv, RolesMatchWins

LEMMA RunningSteady ==
  ASSUME NEW w \in Node, NEW t \in Nat, Calm(w, t), [Next]_vars, \A i \in Node : ~Restart(i)
  PROVE  WithWinner(w, t)'
<1>0. ElectionInv /\ elected' = elected
  BY DEF Calm, Before, EntryInv
<1>1. ASSUME NEW i \in Node, ElectionTimeout(i) \/ HeartbeatTick(i)
      PROVE  WithWinner(w, t)'
  BY <1>1, ElectionTimeoutSteady, HeartbeatTickSteady
<1>2. ASSUME NEW i \in Node, NEW j \in Node, HandleCall(i, j)
      PROVE  WithWinner(w, t)'
  BY <1>2, VoteCallSteady, RefuseStaleAppendSteady, AcceptHeartbeatSteady, RefuseGapSteady,
    AcceptEntriesSteady DEF HandleCall
<1>3. ASSUME NEW i \in Node, NEW j \in Node, HandleAnswer(i, j)
      PROVE  WithWinner(w, t)'
  <2>1. ~BecomeLeader(i, j)
    BY <1>0, WinIsNew
  <2> QED
    BY <1>3, <2>1, AnswerSteady, NoteMatchSteady DEF HandleAnswer
<1>4. ASSUME NEW i \in Node, NEW j \in Node, Fault(i, j)
      PROVE  WithWinner(w, t)'
  BY <1>4, CutSteady, FailAppendSteady DEF Fault
<1>5. ASSUME NEW i \in Node, NEW c \in Command, Client(i, c) \/ FailPropose(i, c)
      PROVE  WithWinner(w, t)'
  BY <1>5, ProposeSteady, ClientSteady DEF Client
<1>6. ASSUME NEW c \in Command, LoseClient(c)
      PROVE  WithWinner(w, t)'
  BY <1>6, ClientSteady
<1>7. ASSUME UNCHANGED vars
      PROVE  WithWinner(w, t)'
  <2>1. QuietLogs /\ UNCHANGED <<calls, answers, nextIndex, faults>>
    <3>1. TypeOK
      BY <1>0 DEF ElectionInv
    <3> QED
      BY <1>7, <3>1, SameFaults DEF vars, logVars, applyVars, leaderVars, netVars, QuietLogs
  <2> QED
    BY <2>1, ElsewhereSteady
<1> QED
  BY <1>1, <1>2, <1>3, <1>4, <1>5, <1>6, <1>7 DEF Next

LEMMA SameWinner ==
  ASSUME NEW w \in Node, NEW t \in Nat, Before(w, t), [Next]_vars, elected' = elected
  PROVE  WithWinner(w, t)'
<1>1. EntryInv /\ EntryInv' /\ TypeOK /\ ElectionInv
  BY NextEntryInv DEF Before, EntryInv, ElectionInv
<1>2. CASE \E i \in Node : Restart(i)
  BY <1>2, RestartSteady
<1>3. CASE \A i \in Node : ~Restart(i)
  <2>1. CASE UNCHANGED vars
    <3>1. UNCHANGED <<currentTerm, role>>
      BY <2>1 DEF vars, raftVars
    <3>2. TermsStay /\ \A n \in Node : role'[n] = "leader" => role[n] = "leader"
      BY <1>1, <3>1 DEF TermsStay, TypeOK, RaftTypeOK
    <3> QED
      BY <1>1, <1>3, <3>2, RunningSteady DEF Calm
  <2>2. CASE Next
    <3>1. TermsStay
      BY <1>1, <1>3, <2>2, RoleStep DEF TermsStay
    <3>2. \A n \in Node : role'[n] = "leader" => role[n] = "leader"
      <4> SUFFICES ASSUME NEW n \in Node, role'[n] = "leader", role[n] # "leader" PROVE FALSE
        OBVIOUS
      <4>1. PICK j \in Node : BecomeLeader(n, j)
        BY <1>1, <2>2, RoleStep
      <4> QED
        BY <1>1, <4>1, WinIsNew
    <3> QED
      BY <1>1, <1>3, <3>1, <3>2, RunningSteady DEF Calm
  <2> QED
    BY <2>1, <2>2
<1> QED
  BY <1>2, <1>3

-----------------------------------------------------------------------------
(* Before anybody has won. *)

LEMMA NoWinnerFacts ==
  ASSUME EntryInv, elected = {}
  PROVE  /\ \A i \in Node : role[i] # "leader"
         /\ Held = {}
         /\ \A i, j \in Node : \A k \in DOMAIN calls[i][j] : calls[i][j][k].type = "vote"
BY DEF EntryInv, ElectionInv, RolesMatchWins, HeldAreGenuine, AppendsComeFromElected

NoAppends(s) == \A k \in DOMAIN s : s[k].type # "append"

LEMMA NothingYetStays ==
  ASSUME NothingYet, UNCHANGED <<log, tasks, executed, commitIndex, lastApplied, down, nextIndex>>,
         \A n \in Node : disk'[n].last = disk[n].last,
         \A i, j \in Node : NoAppends(answers[i][j]) => NoAppends(answers'[i][j])
  PROVE  NothingYet'
BY DEF NothingYet, NoAppends

LEMMA OneDiskSameLast ==
  ASSUME TypeOK, NEW i \in Node, NEW d, d.last = disk[i].last, disk' = [disk EXCEPT ![i] = d]
  PROVE  \A n \in Node : disk'[n].last = disk[n].last
<1>1. \A n \in Node : disk'[n] = IF n = i THEN d ELSE disk[n]
  BY DEF TypeOK, LogTypeOK
<1> QED
  BY <1>1

LEMMA ConsumedNoAppends ==
  ASSUME TypeOK, NEW i \in Node, NEW j \in Node, answers[i][j] # <<>>, Consume(i, j),
         NEW a \in Node, NEW b \in Node, NoAppends(answers[a][b])
  PROVE  NoAppends(answers'[a][b])
<1> DEFINE s == answers[i][j]
<1>1. s \in Seq(Answer) /\ answers'[a][b] = IF a = i /\ b = j THEN Tail(s) ELSE answers[a][b]
  BY DEF TypeOK, NetTypeOK, Consume
<1>2. \A k \in DOMAIN Tail(s) : k + 1 \in DOMAIN s /\ Tail(s)[k] = s[k + 1]
  BY <1>1, HeadTailProperties, EmptySeq, LenProperties
<1> HIDE DEF s
<1>3. NoAppends(s) => NoAppends(Tail(s))
  BY <1>2 DEF NoAppends
<1> QED
  BY <1>1, <1>3 DEF s

LEMMA AnsweredNoAppends ==
  ASSUME TypeOK, NEW i \in Node, NEW j \in Node, NEW k \in Arrived(j, i), NEW x \in Answer,
         x.type # "append", Respond(i, j, k, x),
         NEW a \in Node, NEW b \in Node, NoAppends(answers[a][b])
  PROVE  NoAppends(answers'[a][b])
<1> DEFINE s == answers[j][i]
<1>1. /\ s \in Seq(Answer)
      /\ \/ answers'[a][b] = answers[a][b]
         \/ a = j /\ b = i /\ answers'[a][b] = Append(s, x)
  BY DEF TypeOK, NetTypeOK, Respond
<1>2. /\ Len(s) \in Nat /\ DOMAIN s = 1..Len(s)
      /\ DOMAIN Append(s, x) = 1..(Len(s) + 1)
      /\ \A n \in 1..Len(s) : Append(s, x)[n] = s[n]
      /\ Append(s, x)[Len(s) + 1] = x
  BY <1>1, AppendProperties, LenProperties
<1> HIDE DEF s
<1>3. NoAppends(s) => NoAppends(Append(s, x))
  <2> SUFFICES ASSUME NoAppends(s), NEW n \in 1..(Len(s) + 1) PROVE Append(s, x)[n].type # "append"
    BY <1>2 DEF NoAppends
  <2> QED
    BY <1>2 DEF NoAppends
<1> QED
  BY <1>1, <1>3 DEF s

LEMMA RestartYet ==
  ASSUME TypeOK, NothingYet, NEW i \in Node, Restart(i)
  PROVE  NothingYet'
<1>1. disk[i].last = 0
  BY DEF NothingYet
<1>2. Recoverable(disk[i]) /\ RecoverEntries(disk[i]) = <<>>
  BY <1>1 DEF Recoverable, RecoverEntries
<1>3. /\ log' = [log EXCEPT ![i] = <<>>]
      /\ down' = [down EXCEPT ![i] = FALSE]
      /\ commitIndex' = [commitIndex EXCEPT ![i] = 0]
      /\ lastApplied' = [lastApplied EXCEPT ![i] = 0]
      /\ nextIndex' = [nextIndex EXCEPT ![i] = [j \in Node |-> 0]]
      /\ tasks' = [tasks EXCEPT ![i] = <<>>]
      /\ answers' = [answers EXCEPT ![i] = [j \in Node |-> <<>>]]
      /\ UNCHANGED <<disk, executed>>
  BY <1>2 DEF Restart
<1>4. \A n \in Node : /\ log'[n] = <<>> /\ ~down'[n] /\ commitIndex'[n] = 0
                      /\ lastApplied'[n] = 0 /\ tasks'[n] = <<>>
  BY <1>3 DEF NothingYet, TypeOK, LogTypeOK, ApplyTypeOK
<1>5. \A n, j \in Node : nextIndex'[n][j] = 0
  BY <1>3 DEF NothingYet, TypeOK, LeaderTypeOK
<1>6. \A n, j \in Node : answers'[n][j] = answers[n][j] \/ answers'[n][j] = <<>>
  BY <1>3 DEF TypeOK, NetTypeOK
<1> QED
  BY <1>3, <1>4, <1>5, <1>6 DEF NothingYet

LEMMA StillNothingYet ==
  ASSUME EntryInv, NothingYet, elected = {}, elected' = {}, [Next]_vars
  PROVE  NothingYet'
<1>1. TypeOK /\ ElectionInv
  BY DEF EntryInv, ElectionInv
<1> DEFINE Quiet == UNCHANGED <<log, tasks, executed, commitIndex, lastApplied, down, nextIndex>>
<1>2. ASSUME Quiet, disk' = disk, answers' = answers
      PROVE  NothingYet'
  BY <1>2, NothingYetStays
<1>3. ASSUME NEW i \in Node, ElectionTimeout(i) \/ HeartbeatTick(i) \/ Restart(i)
      PROVE  NothingYet'
  <2>1. ~HeartbeatTick(i)
    BY NoWinnerFacts DEF HeartbeatTick
  <2>2. CASE ElectionTimeout(i)
    BY <1>2, <2>2 DEF ElectionTimeout, logVars, applyVars, leaderVars
  <2> QED
    BY <1>1, <1>3, <2>1, <2>2, RestartYet
<1>4. ASSUME NEW i \in Node, NEW j \in Node, HandleCall(i, j) \/ FailAppend(i, j)
      PROVE  NothingYet'
  <2>1. \A k \in Arrived(j, i) : calls[j][i][k].type = "vote" /\ calls[j][i][k] \in Call
    BY <1>1, NoWinnerFacts, ArrivedType DEF TypeOK
  <2>2. CASE RefuseStaleVote(i, j)
    <3>1. PICK k \in Arrived(j, i) :
            Respond(i, j, k, [type |-> "vote", term |-> currentTerm[i], granted |-> FALSE])
      BY <2>2 DEF RefuseStaleVote
    <3>2. [type |-> "vote", term |-> currentTerm[i], granted |-> FALSE] \in Answer
      BY <1>1 DEF Answer, VoteAnswer, TypeOK, RaftTypeOK
    <3>3. Quiet /\ disk' = disk
      BY <2>2 DEF RefuseStaleVote, logVars, applyVars, leaderVars
    <3> QED
      BY <1>1, <3>1, <3>2, <3>3, AnsweredNoAppends, NothingYetStays
  <2>3. CASE AnswerVote(i, j)
    <3>1. PICK k \in Arrived(j, i) :
            LET m == calls[j][i][k] IN
            /\ disk' = [disk EXCEPT ![i] = DiskAtTerm(i, m.term)]
            /\ Respond(i, j, k, [type |-> "vote", term |-> m.term,
                                 granted |-> GrantsVote(i, j, m)])
      BY <2>3 DEF AnswerVote
    <3> DEFINE m == calls[j][i][k]
               x == [type |-> "vote", term |-> m.term, granted |-> GrantsVote(i, j, m)]
    <3>2. m.term \in Nat
      BY <2>1, CallTermType
    <3>3. x \in Answer /\ x.type # "append"
      BY <3>2 DEF Answer, VoteAnswer, GrantsVote
    <3>4. DiskAtTerm(i, m.term).last = disk[i].last
      BY <1>1, DiskAtTermKeeps
    <3>5. \A n \in Node : disk'[n].last = disk[n].last
      BY <1>1, <3>1, <3>4, OneDiskSameLast
    <3>6. Quiet
      BY <2>3 DEF AnswerVote, applyVars, leaderVars
    <3>7. Respond(i, j, k, x)
      BY <3>1
    <3> HIDE DEF x
    <3> QED
      BY <1>1, <3>3, <3>5, <3>6, <3>7, AnsweredNoAppends, NothingYetStays
  <2> QED
    BY <1>4, <2>1, <2>2, <2>3 DEF HandleCall, RefuseStaleAppend, AcceptHeartbeat, RefuseGap,
      AcceptEntries, FailAppend
<1>5. ASSUME NEW i \in Node, NEW j \in Node, HandleAnswer(i, j)
      PROVE  NothingYet'
  <2>1. ~BecomeLeader(i, j) /\ ~NoteConflict(i, j) /\ ~NoteMatch(i, j)
    BY <1>1, NoWinnerFacts, WinIsNew DEF NoteConflict, NoteMatch
  <2>2. /\ IgnoreAnswer(i, j) \/ StepDown(i, j) \/ CountVote(i, j)
        /\ answers[i][j] # <<>> /\ Consume(i, j) /\ Quiet
    BY <1>5, <2>1 DEF HandleAnswer, IgnoreAnswer, StepDown, CountVote, logVars, applyVars,
      leaderVars
  <2>3. \A n \in Node : disk'[n].last = disk[n].last
    <3>1. CASE StepDown(i, j)
      <4>1. \E term, vote : disk' = [disk EXCEPT ![i] = PersistState(@, term, vote)]
        BY <3>1 DEF StepDown
      <4>2. disk[i] \in Disk
        BY <1>1 DEF TypeOK, LogTypeOK
      <4> QED
        BY <1>1, <4>1, <4>2, PersistStateKeeps, OneDiskSameLast
    <3>2. CASE IgnoreAnswer(i, j) \/ CountVote(i, j)
      BY <3>2 DEF IgnoreAnswer, CountVote, logVars
    <3> QED
      BY <2>2, <3>1, <3>2
  <2> QED
    BY <1>1, <2>2, <2>3, ConsumedNoAppends, NothingYetStays
<1>6. ASSUME NEW i \in Node, NEW j \in Node, Cut(i, j)
      PROVE  NothingYet'
  <2>1. Quiet /\ disk' = disk /\ answers' = [answers EXCEPT ![i][j] = <<>>]
    BY <1>6 DEF Cut, logVars, applyVars, leaderVars
  <2>2. \A a, b \in Node : answers'[a][b] = answers[a][b] \/ answers'[a][b] = <<>>
    BY <1>1, <2>1 DEF TypeOK, NetTypeOK
  <2>3. \A a, b \in Node : NoAppends(answers[a][b]) => NoAppends(answers'[a][b])
    BY <2>2 DEF NoAppends
  <2> QED
    BY <2>1, <2>3, NothingYetStays
<1>7. ASSUME NEW i \in Node, NEW c \in Command, Client(i, c) \/ FailPropose(i, c)
      PROVE  NothingYet'
  <2>1. ~Propose(i, c) /\ ~FailPropose(i, c)
    BY NoWinnerFacts DEF Propose, FailPropose
  <2> QED
    BY <1>2, <1>7, <2>1 DEF Client, Redirect, logVars, applyVars, leaderVars, netVars
<1>8. ASSUME NEW c \in Command, LoseClient(c)
      PROVE  NothingYet'
  BY <1>2, <1>8 DEF LoseClient, logVars, applyVars, leaderVars, netVars
<1>9. CASE UNCHANGED vars
  BY <1>2, <1>9 DEF vars, logVars, applyVars, leaderVars, netVars
<1> QED
  BY <1>3, <1>4, <1>5, <1>6, <1>7, <1>8, <1>9 DEF Next, Fault

LEMMA FirstWinner ==
  ASSUME EntryInv, NothingYet, elected = {}, NEW w \in Node, NEW j \in Node, BecomeLeader(w, j)
  PROVE  WithWinner(w, currentTerm[w])'
<1>1. TypeOK /\ Held = {}
  BY NoWinnerFacts DEF EntryInv, ElectionInv
<1>2. /\ UNCHANGED <<log, tasks, executed, commitIndex, lastApplied, down, calls, currentTerm>>
      /\ nextIndex' = [nextIndex EXCEPT ![w] =
                         [n \in Node |-> IF @[n] = 0 THEN 0 ELSE LastIndex(log[w]) + 1]]
      /\ disk' = [disk EXCEPT ![w] = PersistState(@, currentTerm[w], Nil)]
      /\ answers[w][j] # <<>> /\ Consume(w, j)
  BY DEF BecomeLeader, applyVars
<1>3. \A n \in Node : disk'[n].last = disk[n].last /\ disk'[n].entries = disk[n].entries
  <2>1. disk[w] \in Disk
    BY <1>1 DEF TypeOK, LogTypeOK
  <2> QED
    BY <1>1, <1>2, <2>1, PersistStateKeeps, OneDiskQuiet
<1>4. Held' = {}
  <2>1. DisksFromHeld
    BY <1>1, <1>3, HeldEntries DEF DisksFromHeld
  <2> QED
    BY <1>1, <1>2, <2>1, SameHeld, FromHeld
<1>5. /\ \A n \in Node : /\ ~down'[n] /\ log'[n] = <<>> /\ disk'[n].last = 0
                         /\ commitIndex'[n] = 0 /\ lastApplied'[n] = 0
                         /\ tasks'[n] = <<>> /\ executed'[n] = <<>>
      /\ \A n \in Node : NoAppends(answers'[w][n])
  <2>1. \A n \in Node : NoAppends(answers[w][n])
    BY DEF NothingYet, NoAppends
  <2> QED
    BY <1>1, <1>2, <1>3, <2>1, ConsumedNoAppends DEF NothingYet
<1>6. Straight(<<>>) /\ ToSet(<<>>) = {} /\ Commands(<<>>) = <<>> /\ Len(<<>>) = 0
  BY DEF Straight, ToSet, Commands
<1>7. WinnerHolds(w)'
  BY <1>4, <1>5, <1>6 DEF WinnerHolds
<1>8. \A a, b \in Node : \A k \in DOMAIN calls'[a][b] : calls'[a][b][k].type = "vote"
  BY <1>2, NoWinnerFacts
<1>9. WireIsStraight'
  BY <1>8 DEF WireIsStraight, IsStraightCall
<1>10. LogsFollowOrRepeat'
  BY <1>5, <1>6 DEF LogsFollowOrRepeat, FollowsOrRepeats
<1>11. DisksFollow'
  BY <1>5, <1>6 DEF DisksFollow, Stores
<1>12. NobodyAhead(w)'
  BY <1>5, <1>6 DEF NobodyAhead
<1>13. LeaderExecutes(w)'
  <2>1. <<>> = <<>> \o <<>>
    OBVIOUS
  <2> QED
    BY <1>5, <1>6, <2>1 DEF LeaderExecutes
<1>14. FollowersExecute(w)'
  <2>1. SubSeq(<<>>, 1, 0) = <<>>
    OBVIOUS
  <2> QED
    BY <1>5, <1>6, <2>1 DEF FollowersExecute
<1>15. NothingMissing(w, currentTerm[w])'
  <2>1. \A n \in Node : nextIndex'[w][n] = 0
    BY <1>1, <1>2 DEF NothingYet, TypeOK, LeaderTypeOK
  <2>2. \A n \in Node : Piped(calls'[w][n], 0, 0)
    BY <1>8 DEF Piped, IsAppend
  <2>3. \A n \in Node : NoRefusal(answers'[w][n], currentTerm'[w])
    BY <1>5 DEF NoAppends, NoRefusal
  <2> QED
    BY <1>5, <1>6, <2>1, <2>2, <2>3 DEF NothingMissing
<1> QED
  BY <1>7, <1>9, <1>10, <1>11, <1>12, <1>13, <1>14, <1>15 DEF WithWinner

-----------------------------------------------------------------------------
(* Every step. *)

\* A win is never forgotten, and only become_leader adds one.
LEMMA WinsOnlyGrow ==
  ASSUME [Next]_vars
  PROVE  elected' = elected \/ \E i, j \in Node : BecomeLeader(i, j)
<1>1. ASSUME NEW i \in Node, ElectionTimeout(i) \/ HeartbeatTick(i) \/ Restart(i)
      PROVE  elected' = elected
  BY <1>1 DEF ElectionTimeout, HeartbeatTick, Restart, historyVars
<1>2. ASSUME NEW i \in Node, NEW j \in Node, HandleCall(i, j) \/ Fault(i, j)
      PROVE  elected' = elected
  BY <1>2 DEF HandleCall, RefuseStaleVote, AnswerVote, RefuseStaleAppend, AcceptHeartbeat,
    RefuseGap, AcceptEntries, Fault, FailAppend, Cut, historyVars
<1>3. ASSUME NEW i \in Node, NEW j \in Node, HandleAnswer(i, j), ~BecomeLeader(i, j)
      PROVE  elected' = elected
  BY <1>3 DEF HandleAnswer, IgnoreAnswer, StepDown, CountVote, NoteConflict, NoteMatch,
    historyVars
<1>4. ASSUME NEW c \in Command,
             (\E i \in Node : Client(i, c) \/ FailPropose(i, c)) \/ LoseClient(c)
      PROVE  elected' = elected
  BY <1>4 DEF Client, Redirect, Propose, FailPropose, LoseClient, historyVars
<1>5. UNCHANGED vars => elected' = elected
  BY DEF vars, historyVars
<1> QED
  BY <1>1, <1>2, <1>3, <1>4, <1>5 DEF Next

LEMMA NextSteadyInv == SteadyInv /\ [Next]_vars => SteadyInv'
<1> SUFFICES ASSUME SteadyInv, [Next]_vars PROVE SteadyInv'
  OBVIOUS
<1>1. EntryInv /\ EntryInv' /\ TypeOK /\ ElectionInv /\ NoCallsToSelf
  BY NextEntryInv DEF SteadyInv, EntryInv, ElectionInv
<1>2. NoCallsToSelf'
  BY <1>1, NextCallsOthers
<1>3. elected \subseteq elected'
  BY <1>1, WinsOnlyGrow, WinIsNew
<1>4. elected' = {} => NothingYet'
  BY <1>1, <1>3, StillNothingYet DEF SteadyInv
<1>5. ASSUME NEW w \in Node, NEW t \in Nat, elected' = {<<w, t>>}
      PROVE  WithWinner(w, t)'
  <2>1. CASE elected' = elected
    <3>1. Before(w, t)
      BY <1>1, <1>5, <2>1 DEF Before, SteadyInv
    <3> QED
      BY <2>1, <3>1, SameWinner
  <2>2. CASE elected' # elected
    <3>1. PICK i, j \in Node : BecomeLeader(i, j)
      BY <1>1, <2>2, WinsOnlyGrow
    <3>2. /\ <<i, currentTerm[i]>> \notin elected
          /\ elected' = elected \union {<<i, currentTerm[i]>>}
      BY <1>1, <3>1, WinIsNew
    <3>3. elected = {} /\ i = w /\ currentTerm[i] = t
      BY <1>5, <3>2
    <3>4. currentTerm' = currentTerm
      BY <3>1 DEF BecomeLeader
    <3>5. NothingYet
      BY <3>3 DEF SteadyInv
    <3>6. WithWinner(w, currentTerm[w])'
      BY <1>1, <3>1, <3>3, <3>5, FirstWinner
    <3> QED
      BY <3>3, <3>4, <3>6
  <2> QED
    BY <2>1, <2>2
<1> QED
  BY <1>1, <1>2, <1>4, <1>5 DEF SteadyInv

LEMMA InitSteadyInv == Init => SteadyInv
<1> SUFFICES ASSUME Init PROVE SteadyInv
  OBVIOUS
<1>1. EntryInv
  BY InitEntryInv
<1>2. NoCallsToSelf /\ elected = {}
  BY DEF Init, NoCallsToSelf
<1>3. NothingYet
  BY DEF Init, NothingYet, EmptyDisk
<1> QED
  BY <1>1, <1>2, <1>3 DEF SteadyInv

-----------------------------------------------------------------------------
(* The theorems. *)

\* Every behaviour keeps the invariant of the winner: from the first election that is won
\* to the second one, all logs, disks and requests hold the winner's entries
\* (raft_node.cpp:444-520, raft_log.cpp:69-124, persister.cpp:174-190).
THEOREM SteadyInvariant == Spec => []SteadyInv
BY InitSteadyInv, NextSteadyInv, PTL DEF Spec

\* While only one election was won, a winner is all there is, or nothing yet.
LEMMA OneWinMeans ==
  ASSUME SteadyInv, OneWin
  PROVE  \/ elected = {} /\ NothingYet /\ Leaders = {}
         \/ \E w \in Node, t \in Nat : Before(w, t) /\ Leaders \subseteq {w}
<1>1. EntryInv /\ ElectionInv /\ TypeOK /\ NoCallsToSelf
  BY DEF SteadyInv, EntryInv, ElectionInv
<1>2. CASE elected = {}
  BY <1>1, <1>2, NoWinnerFacts DEF SteadyInv, Leaders
<1>3. CASE elected # {}
  <2>1. PICK e \in elected : TRUE
    BY <1>3
  <2>2. elected = {e} /\ e \in Node \X Nat
    BY <1>1, <2>1 DEF OneWin, TypeOK, HistoryTypeOK
  <2>3. e[1] \in Node /\ e[2] \in Nat /\ elected = {<<e[1], e[2]>>}
    BY <2>2
  <2>4. Before(e[1], e[2])
    BY <1>1, <2>3 DEF SteadyInv, Before
  <2>5. Leaders \subseteq {e[1]}
    BY <1>1, <2>3, WinnerFacts DEF Leaders
  <2> QED
    BY <2>3, <2>4, <2>5
<1> QED
  BY <1>2, <1>3

\* A log in which no entry stands twice holds each one at its index.
LEMMA DistinctIsStraight ==
  ASSUME SteadyInv, OneWin, NEW i \in Node, IsInjective(log[i])
  PROVE  Straight(log[i])
<1>1. CASE NothingYet
  BY <1>1 DEF NothingYet, Straight
<1>2. ASSUME NEW w \in Node, NEW t \in Nat, Before(w, t)
      PROVE  Straight(log[i])
  BY <1>2 DEF Before, WithWinner, LogsFollowOrRepeat, FollowsOrRepeats
<1> QED
  BY <1>1, <1>2, OneWinMeans

LEMMA PrefixByElements ==
  ASSUME NEW S, NEW s \in Seq(S), NEW u \in Seq(S), Len(s) <= Len(u),
         \A k \in DOMAIN s : u[k] = s[k]
  PROVE  IsPrefix(s, u)
<1>1. Len(s) \in Nat /\ Len(u) \in Nat /\ DOMAIN s = 1..Len(s) /\ DOMAIN u = 1..Len(u)
  BY LenProperties
<1>2. CASE Len(s) = 0
  <2>1. SubSeq(s, 1, Len(s)) = <<>> /\ SubSeq(u, 1, Len(s)) = <<>>
    BY <1>2, SubSeqEmpty
  <2> QED
    BY <2>1 DEF IsPrefix
<1>3. CASE Len(s) # 0
  <2>1. /\ 1 \in 1..Len(s) + 1 /\ Len(s) \in 1 - 1..Len(s)
        /\ 1 \in 1..Len(u) + 1 /\ Len(s) \in 1 - 1..Len(u)
    BY <1>1
  <2>2. /\ \A k \in 1..Len(s) : SubSeq(u, 1, Len(s))[k] = u[k]
        /\ Len(SubSeq(u, 1, Len(s))) = Len(s)
        /\ SubSeq(u, 1, Len(s)) \in Seq(S)
    <3>1. /\ SubSeq(u, 1, Len(s)) \in Seq(S)
          /\ Len(SubSeq(u, 1, Len(s))) = IF 1 <= Len(s) THEN Len(s) - 1 + 1 ELSE 0
          /\ \A k \in 1..Len(s) - 1 + 1 : SubSeq(u, 1, Len(s))[k] = u[1 + k - 1]
      BY <1>1, <2>1, SubSeqProperties
    <3>2. Len(s) - 1 + 1 = Len(s) /\ \A k \in 1..Len(s) : 1 + k - 1 = k
      BY <1>1
    <3> QED
      BY <1>1, <1>3, <3>1, <3>2
  <2>3. SubSeq(u, 1, Len(s)) = s
    BY <1>1, <2>2, SeqEqual
  <2>4. SubSeq(s, 1, Len(s)) = s
    BY SubSeqFull
  <2> QED
    BY <2>3, <2>4 DEF IsPrefix
<1> QED
  BY <1>2, <1>3

\* No member applies beyond its commit index, so no view wraps around, and a member is down
\* only because its disk cannot be read (raft_node.cpp:382 and 478, raft_log.cpp:69-91).
THEOREM NobodyEverAppliesAhead == Spec => []NobodyAppliesAhead
<1>1. SteadyInv => NobodyAppliesAhead
  <2> SUFFICES ASSUME SteadyInv, OneWin, NEW i \in Node
               PROVE  lastApplied[i] <= commitIndex[i] /\ (down[i] => ~Recoverable(disk[i]))
    BY DEF NobodyAppliesAhead
  <2>1. CASE NothingYet
    BY <2>1 DEF NothingYet
  <2>2. ASSUME NEW w \in Node, NEW t \in Nat, Before(w, t)
        PROVE  lastApplied[i] <= commitIndex[i] /\ (down[i] => ~Recoverable(disk[i]))
    BY <2>2 DEF Before, WithWinner, NobodyAhead
  <2> QED
    BY <2>1, <2>2, OneWinMeans
<1> QED
  BY <1>1, SteadyInvariant, PTL

\* A log without repetitions is a prefix of the leader's, whatever was lost, refused, sent
\* again, overtaken or restarted (raft_node.cpp:467-502, raft_log.cpp:93-124).
THEOREM LogsStayPrefixes == Spec => []LogsArePrefixes
<1>1. SteadyInv => LogsArePrefixes
  <2> SUFFICES ASSUME SteadyInv, OneWin, NEW i \in Leaders, NEW j \in Node, IsInjective(log[j])
               PROVE  IsPrefix(log[j], log[i])
    BY DEF LogsArePrefixes
  <2>1. PICK w \in Node, t \in Nat : Before(w, t) /\ i = w
    BY OneWinMeans
  <2>2. TypeOK /\ WinnerHolds(w)
    BY <2>1 DEF Before, EntryInv, ElectionInv, WithWinner
  <2>3. log[j] \in Seq(Entry) /\ log[w] \in Seq(Entry)
    BY <2>2 DEF TypeOK, LogTypeOK
  <2>4. Len(log[j]) <= Len(log[w]) /\ \A k \in DOMAIN log[j] : log[w][k] = log[j][k]
    BY <2>2, DistinctIsStraight, StraightIsPrefix
  <2> QED
    BY <2>1, <2>3, <2>4, PrefixByElements
<1> QED
  BY <1>1, SteadyInvariant, PTL

\* A process that restarts with such a log finds it again, although memory is ordered by
\* position and the disk by index (persister.cpp:174-190).
THEOREM DisksMatchMemories == Spec => []DiskMatchesMemory
<1>1. SteadyInv => DiskMatchesMemory
  <2> SUFFICES ASSUME SteadyInv, OneWin, NEW i \in Node, ~down[i], IsInjective(log[i])
               PROVE  Recoverable(disk[i]) /\ RecoverEntries(disk[i]) = log[i]
    BY DEF DiskMatchesMemory
  <2>1. CASE NothingYet
    <3>1. disk[i].last = 0 /\ log[i] = <<>>
      BY <2>1 DEF NothingYet
    <3> QED
      BY <3>1 DEF Recoverable, RecoverEntries
  <2>2. ASSUME NEW w \in Node, NEW t \in Nat, Before(w, t)
        PROVE  Recoverable(disk[i]) /\ RecoverEntries(disk[i]) = log[i]
    <3>1. TypeOK /\ WinnerHolds(w) /\ DisksFollow
      BY <2>2 DEF Before, EntryInv, ElectionInv, WithWinner
    <3> QED
      BY <3>1, DistinctIsStraight, DiskGivesLog
  <2> QED
    BY <2>1, <2>2, OneWinMeans
<1> QED
  BY <1>1, SteadyInvariant, PTL

\* As long as nothing is lost, refused, restarted or overtaken, no log holds an entry twice
\* (raft_node.cpp:483-502).
THEOREM NothingIsRepeated == Spec => []NothingRepeats
<1>1. SteadyInv => NothingRepeats
  <2> SUFFICES ASSUME SteadyInv, Undisturbed, NEW i \in Node PROVE IsInjective(log[i])
    BY DEF NothingRepeats
  <2>0. OneWin
    BY DEF Undisturbed
  <2>1. Straight(log[i])
    <3>1. CASE NothingYet
      BY <3>1 DEF NothingYet, Straight
    <3>2. ASSUME NEW w \in Node, NEW t \in Nat, Before(w, t)
          PROVE  Straight(log[i])
      BY <3>2 DEF Before, WithWinner, NothingMissing
    <3> QED
      BY <2>0, <3>1, <3>2, OneWinMeans
  <2> QED
    BY <2>1 DEF Straight, IsInjective
<1> QED
  BY <1>1, SteadyInvariant, PTL

\* The leader executes the commands of its log once and in order, whoever answers first
\* (raft_node.cpp:600-622, state_machine.cpp:34-73).
THEOREM LeaderKeepsOrder == Spec => []LeaderAppliesInOrder
<1>1. SteadyInv => LeaderAppliesInOrder
  <2> SUFFICES ASSUME SteadyInv, OneWin, NEW i \in Leaders
               PROVE  Commands(log[i]) = executed[i] \o Commands(tasks[i])
    BY DEF LeaderAppliesInOrder
  <2>1. PICK w \in Node, t \in Nat : Before(w, t) /\ i = w
    BY OneWinMeans
  <2>2. role[w] = "leader"
    BY <2>1 DEF Leaders
  <2> QED
    BY <2>1, <2>2 DEF Before, WithWinner, LeaderExecutes
<1> QED
  BY <1>1, SteadyInvariant, PTL

LEMMA PrefixOfCommands ==
  ASSUME NEW l \in Seq(Entry), NEW u \in Seq(Entry), NEW n \in Nat, n <= Len(l),
         Len(l) <= Len(u), \A k \in DOMAIN l : u[k] = l[k]
  PROVE  IsPrefix(Commands(SubSeq(l, 1, n)), Commands(u))
<1> DEFINE s == SubSeq(l, 1, n)
           a == Commands(s)
           b == Commands(u)
<1>1. \A e \in Entry : e.command \in Command
  BY DEF Entry
<1>2. /\ Len(l) \in Nat /\ Len(u) \in Nat /\ DOMAIN l = 1..Len(l) /\ DOMAIN u = 1..Len(u)
  BY LenProperties
<1>3. /\ s \in Seq(Entry) /\ Len(s) = n /\ \A k \in 1..n : s[k] = l[k]
  <2>1. CASE n = 0
    BY <2>1, SubSeqEmpty
  <2>2. CASE n # 0
    <3>1. 1 \in 1..Len(l) + 1 /\ n \in 1 - 1..Len(l)
      BY <1>2
    <3>2. /\ s \in Seq(Entry)
          /\ Len(s) = IF 1 <= n THEN n - 1 + 1 ELSE 0
          /\ \A k \in 1..n - 1 + 1 : s[k] = l[1 + k - 1]
      BY <1>2, <3>1, SubSeqProperties
    <3>3. n - 1 + 1 = n /\ 1 <= n /\ \A k \in 1..n : 1 + k - 1 = k
      BY <2>2
    <3> HIDE DEF s
    <3> QED
      BY <3>2, <3>3
  <2> QED
    BY <2>1, <2>2
<1> HIDE DEF s
<1>4. a \in Seq(Command) /\ b \in Seq(Command)
  BY <1>1, <1>3, CommandsType
<1>5. /\ DOMAIN s = 1..n
      /\ DOMAIN a = 1..n /\ \A k \in 1..n : a[k] = s[k].command
      /\ DOMAIN b = 1..Len(u) /\ \A k \in 1..Len(u) : b[k] = u[k].command
  BY <1>2, <1>3, LenProperties DEF Commands
<1> HIDE DEF a, b
<1>6. Len(a) = n /\ Len(b) = Len(u)
  BY <1>2, <1>4, <1>5, LenProperties
<1>7. \A k \in DOMAIN a : b[k] = a[k]
  <2> SUFFICES ASSUME NEW k \in 1..n PROVE b[k] = a[k]
    BY <1>5
  <2>1. k \in 1..Len(l) /\ k \in 1..Len(u)
    BY <1>2
  <2>2. a[k] = s[k].command /\ b[k] = u[k].command
    BY <1>5, <2>1
  <2>3. s[k] = l[k] /\ u[k] = l[k]
    BY <1>2, <1>3, <2>1
  <2> QED
    BY <2>2, <2>3
<1>8. Len(a) <= Len(b)
  BY <1>2, <1>6
<1> QED
  BY <1>4, <1>7, <1>8, PrefixByElements DEF a, b, s

\* Such a member has executed the leader's commands in the leader's order and skipped none,
\* as long as nobody restarts (raft_node.cpp:478-482 and 503-509, state_machine.cpp:75-115).
THEOREM FollowersNeverSkip == Spec => []FollowersSkipNothing
<1>1. SteadyInv => FollowersSkipNothing
  <2> SUFFICES ASSUME SteadyInv, OneWin, faults.restarts = 0,
                      NEW i \in Leaders, NEW j \in Node, IsInjective(log[j])
               PROVE  IsPrefix(executed[j], Commands(log[i]))
    BY DEF FollowersSkipNothing
  <2>1. PICK w \in Node, t \in Nat : Before(w, t) /\ i = w
    BY OneWinMeans
  <2>2. TypeOK /\ WithWinner(w, t) /\ role[w] = "leader"
    BY <2>1 DEF Before, EntryInv, ElectionInv, Leaders
  <2>3. CASE j = w
    <3> DEFINE x == executed[w]
               y == Commands(tasks[w])
               both == Commands(log[w])
    <3>1. both = x \o y
      BY <2>2 DEF WithWinner, LeaderExecutes
    <3>2. x \in Seq(Command) /\ y \in Seq(Command)
      <4>1. \A e \in Task : e.command \in Command
        BY DEF Task
      <4> QED
        BY <2>2, <4>1, CommandsType DEF TypeOK, ApplyTypeOK
    <3> HIDE DEF x, y, both
    <3>3. /\ both \in Seq(Command) /\ Len(both) = Len(x) + Len(y)
          /\ \A k \in 1..Len(x) + Len(y) : both[k] = IF k <= Len(x) THEN x[k] ELSE y[k - Len(x)]
      BY <3>1, <3>2, ConcatProperties
    <3>4. Len(x) \in Nat /\ Len(y) \in Nat /\ DOMAIN x = 1..Len(x)
      BY <3>2, LenProperties
    <3>5. Len(x) <= Len(both)
      BY <3>3, <3>4
    <3>6. \A k \in DOMAIN x : both[k] = x[k]
      BY <3>3, <3>4
    <3>7. IsPrefix(x, both)
      BY <3>2, <3>3, <3>5, <3>6, PrefixByElements
    <3> QED
      BY <2>1, <2>3, <3>7 DEF x, both
  <2>4. CASE j # w
    <3>1. Straight(log[j]) /\ WinnerHolds(w)
      BY <2>2, DistinctIsStraight DEF WithWinner
    <3>2. executed[j] = Commands(SubSeq(log[j], 1, lastApplied[j]))
      BY <2>2, <2>4, <3>1 DEF WithWinner, FollowersExecute
    <3>3. lastApplied[j] <= commitIndex[j] /\ commitIndex[j] <= Len(log[j])
      BY <2>2, <2>4 DEF WithWinner, NobodyAhead
    <3>4. /\ log[j] \in Seq(Entry) /\ log[w] \in Seq(Entry)
          /\ lastApplied[j] \in Nat /\ commitIndex[j] \in Nat
      BY <2>2 DEF TypeOK, LogTypeOK, ApplyTypeOK
    <3>5. lastApplied[j] <= Len(log[j])
      BY <3>3, <3>4, LenProperties
    <3>6. Len(log[j]) <= Len(log[w]) /\ \A k \in DOMAIN log[j] : log[w][k] = log[j][k]
      BY <2>2, <3>1, StraightIsPrefix
    <3>7. IsPrefix(Commands(SubSeq(log[j], 1, lastApplied[j])), Commands(log[w]))
      BY <3>4, <3>5, <3>6, PrefixOfCommands
    <3> QED
      BY <2>1, <3>2, <3>7
  <2> QED
    BY <2>3, <2>4
<1> QED
  BY <1>1, SteadyInvariant, PTL

-----------------------------------------------------------------------------
(* What was executed is not lost. *)

\* The winner's log holds every command that any member has executed.
ExecutedHeldBy(w) == \A n \in Node : ToSet(executed[n]) \subseteq ToSet(Commands(log[w]))

DurableInv ==
  SteadyInv /\ \A w \in Node, t \in Nat : elected = {<<w, t>>} => ExecutedHeldBy(w)

LEMMA CommandElements ==
  ASSUME NEW l, NEW u, ToSet(l) \subseteq ToSet(u)
  PROVE  ToSet(Commands(l)) \subseteq ToSet(Commands(u))
<1> SUFFICES ASSUME NEW k \in DOMAIN l
             PROVE  \E n \in DOMAIN u : u[n].command = l[k].command
  BY DEF ToSet, Commands
<1>1. l[k] \in ToSet(u)
  BY DEF ToSet
<1>2. \E n \in DOMAIN u : u[n] = l[k]
  BY <1>1 DEF ToSet
<1> QED
  BY <1>2

\* Wild or not, a view shows nothing but entries of the log.
LEMMA ViewIsOfLog ==
  ASSUME TypeOK, NEW i \in Node, NEW l \in Seq(Entry), NEW commit \in Nat,
         ApplyView(i, l, commit)
  PROVE  \A n \in Node :
           ToSet(executed'[n])
             \subseteq ToSet(executed[n]) \union (IF n = i THEN ToSet(Commands(l)) ELSE {})
<1> DEFINE start == lastApplied[i] + 1
           wild == ViewIsWild(l, start, commit)
           end == IF wild THEN Len(l) ELSE commit
           shown == SubSeq(l, start, end)
<1>1. Len(l) \in Nat /\ start \in Nat \ {0}
  BY LenProperties DEF TypeOK, ApplyTypeOK
<1>2. CASE ViewIsGiven(l, start, commit)
  <2>1. end \in Nat /\ end <= Len(l)
    BY <1>1, <1>2 DEF ViewIsGiven
  <2> HIDE DEF start, end
  <2>2. shown \in Seq(Entry) /\ ToSet(shown) \subseteq ToSet(l)
    BY <1>1, <2>1, SubSeqElements
  <2> HIDE DEF shown
  <2>3. ToSet(Commands(shown)) \subseteq ToSet(Commands(l))
    BY <2>2, CommandElements
  <2>4. Commands(shown) \in Seq(Command) /\ executed[i] \in Seq(Command)
    BY <2>2, CommandsType DEF Entry, TypeOK, ApplyTypeOK
  <2>5. ToSet(executed[i] \o Commands(shown)) = ToSet(executed[i]) \union ToSet(Commands(shown))
    BY <2>4, ConcatElements
  <2> DEFINE longer == executed[i] \o Commands(shown)
  <2>6. executed' = [executed EXCEPT ![i] = longer]
    BY <1>2 DEF ApplyView, shown, start, end
  <2> HIDE DEF longer
  <2>7. \A n \in Node : executed'[n] = IF n = i THEN longer ELSE executed[n]
    BY <2>6 DEF TypeOK, ApplyTypeOK
  <2> QED
    BY <2>3, <2>5, <2>7 DEF longer
<1>3. CASE ~ViewIsGiven(l, start, commit)
  BY <1>3 DEF ApplyView
<1> QED
  BY <1>2, <1>3

\* A member that is not the leader executes entries of its log.
LEMMA FollowerExecutesLog ==
  ASSUME TypeOK, NEW i \in Node, NEW j \in Node, AcceptHeartbeat(i, j) \/ AcceptEntries(i, j)
  PROVE  \A n \in Node :
           ToSet(executed'[n]) \subseteq ToSet(executed[n]) \union ToSet(Commands(log'[n]))
<1>1. CASE AcceptHeartbeat(i, j)
  <2>1. PICK k \in Arrived(j, i) :
          LET m == calls[j][i][k] IN
          m.type = "heartbeat" /\ ApplyView(i, log[i], CommitAfter(i, log[i], m.commit))
    BY <1>1 DEF AcceptHeartbeat
  <2>2. log' = log
    BY <1>1 DEF AcceptHeartbeat
  <2>3. calls[j][i][k].commit \in Nat /\ log[i] \in Seq(Entry)
    BY <2>1, ArrivedType, HeartbeatCallType DEF TypeOK, LogTypeOK, HeartbeatCall
  <2>4. CommitAfter(i, log[i], calls[j][i][k].commit) \in Nat
    BY <2>3, CommitAfterType
  <2> QED
    BY <2>1, <2>2, <2>3, <2>4, ViewIsOfLog
<1>2. CASE AcceptEntries(i, j)
  <2>1. PICK k \in Arrived(j, i) :
          LET m == calls[j][i][k] IN
          /\ m.type = "append"
          /\ log' = [log EXCEPT ![i] = Extended(i, m)]
          /\ \/ ApplyView(i, Extended(i, m), CommitAfter(i, Extended(i, m), m.commit))
             \/ executed' = executed
    BY <1>2 DEF AcceptEntries
  <2> DEFINE m == calls[j][i][k]
             l == Extended(i, m)
  <2>2. m \in AppendCall
    BY <2>1, ArrivedType, AppendCallType DEF TypeOK
  <2>3. l \in Seq(Entry) /\ m.commit \in Nat
    BY <2>2, ExtendedType DEF AppendCall
  <2>4. CommitAfter(i, l, m.commit) \in Nat
    BY <2>3, CommitAfterType
  <2>5. log'[i] = l
    BY <2>1 DEF TypeOK, LogTypeOK
  <2>6. CASE executed' = executed
    BY <2>6
  <2>7. CASE ApplyView(i, l, CommitAfter(i, l, m.commit))
    <3> HIDE DEF l, m
    <3> QED
      BY <2>3, <2>4, <2>5, <2>7, ViewIsOfLog
  <2> QED
    BY <2>1, <2>6, <2>7
<1> QED
  BY <1>1, <1>2

\* A leader executes commands that wait in its tasks_.
LEMMA LeaderExecutesTasks ==
  ASSUME TypeOK, NEW i \in Node, NEW j \in Node, NoteMatch(i, j)
  PROVE  \A n \in Node :
           ToSet(executed'[n])
             \subseteq ToSet(executed[n]) \union (IF n = i THEN ToSet(Commands(tasks[i])) ELSE {})
<1>1. PICK n \in 0..Len(tasks[i]) :
        executed' = [executed EXCEPT ![i] = @ \o Commands(SubSeq(tasks[i], 1, n))]
  BY DEF NoteMatch
<1> DEFINE q == tasks[i]
           done == SubSeq(q, 1, n)
           longer == executed[i] \o Commands(done)
<1>2. q \in Seq(Task) /\ executed[i] \in Seq(Command) /\ Len(q) \in Nat
  BY LenProperties DEF TypeOK, ApplyTypeOK
<1>3. done \in Seq(Task) /\ ToSet(done) \subseteq ToSet(q)
  <2>1. 1 \in Nat \ {0} /\ n \in Nat /\ n <= Len(q)
    BY <1>2
  <2> QED
    BY <1>2, <2>1, SubSeqElements
<1>4. executed' = [executed EXCEPT ![i] = longer]
  BY <1>1
<1> HIDE DEF q, done
<1>5. Commands(done) \in Seq(Command) /\ ToSet(Commands(done)) \subseteq ToSet(Commands(q))
  BY <1>3, CommandsType, CommandElements DEF Task
<1>6. ToSet(longer) = ToSet(executed[i]) \union ToSet(Commands(done))
  BY <1>2, <1>5, ConcatElements
<1> HIDE DEF longer
<1>7. \A x \in Node : executed'[x] = IF x = i THEN longer ELSE executed[x]
  BY <1>4 DEF TypeOK, ApplyTypeOK
<1> QED
  BY <1>5, <1>6, <1>7 DEF q

\* No other step executes anything.
LEMMA OthersExecuteNothing ==
  ASSUME [Next]_vars, \A i, j \in Node : ~AcceptHeartbeat(i, j) /\ ~AcceptEntries(i, j)
                                           /\ ~NoteMatch(i, j)
  PROVE  executed' = executed
<1>1. ASSUME NEW i \in Node, ElectionTimeout(i) \/ HeartbeatTick(i) \/ Restart(i)
      PROVE  executed' = executed
  BY <1>1 DEF ElectionTimeout, HeartbeatTick, Restart, applyVars
<1>2. ASSUME NEW i \in Node, NEW j \in Node, HandleCall(i, j) \/ Fault(i, j)
      PROVE  executed' = executed
  BY <1>2 DEF HandleCall, RefuseStaleVote, AnswerVote, RefuseStaleAppend, RefuseGap, Fault,
    FailAppend, Cut, applyVars
<1>3. ASSUME NEW i \in Node, NEW j \in Node, HandleAnswer(i, j)
      PROVE  executed' = executed
  BY <1>3 DEF HandleAnswer, IgnoreAnswer, StepDown, CountVote, BecomeLeader, NoteConflict,
    applyVars
<1>4. ASSUME NEW c \in Command,
             (\E i \in Node : Client(i, c) \/ FailPropose(i, c)) \/ LoseClient(c)
      PROVE  executed' = executed
  BY <1>4 DEF Client, Redirect, Propose, FailPropose, LoseClient, applyVars
<1>5. UNCHANGED vars => executed' = executed
  BY DEF vars, applyVars
<1> QED
  BY <1>1, <1>2, <1>3, <1>4, <1>5 DEF Next

\* The winner's log loses no entry: it takes no request with entries, and a restart finds
\* it on disk.
LEMMA WinnerKeepsLog ==
  ASSUME NEW w \in Node, NEW t \in Nat, Before(w, t), [Next]_vars
  PROVE  ToSet(log[w]) \subseteq ToSet(log'[w])
<1>1. TypeOK /\ WinnerHolds(w) /\ DisksFollow /\ log[w] \in Seq(Entry)
  BY DEF Before, EntryInv, ElectionInv, WithWinner, TypeOK, LogTypeOK
<1>2. ASSUME NEW i \in Node, ElectionTimeout(i) \/ HeartbeatTick(i)
      PROVE  log' = log
  BY <1>2 DEF ElectionTimeout, HeartbeatTick, logVars
<1>3. ASSUME NEW i \in Node, Restart(i)
      PROVE  log'[w] = log[w]
  <2>1. i = w => Recoverable(disk[i]) /\ RecoverEntries(disk[i]) = log[w]
    BY <1>1, DiskGivesLog DEF WinnerHolds
  <2> QED
    BY <1>1, <1>3, <2>1 DEF Restart, TypeOK, LogTypeOK
<1>4. ASSUME NEW i \in Node, NEW j \in Node, AcceptEntries(i, j) \/ FailAppend(i, j)
      PROVE  log'[w] = log[w]
  <2>1. PICK k \in Arrived(j, i) : IsAppend(calls[j][i][k]) /\ ~HasGap(i, calls[j][i][k])
    BY <1>4 DEF AcceptEntries, FailAppend, IsAppend
  <2>2. i # w
    BY <2>1, NothingCutOff
  <2>3. \E l : log' = [log EXCEPT ![i] = l]
    <3>1. CASE AcceptEntries(i, j)
      BY <3>1 DEF AcceptEntries
    <3>2. CASE FailAppend(i, j)
      BY <3>2 DEF FailAppend
    <3> QED
      BY <1>4, <3>1, <3>2
  <2> QED
    BY <1>1, <2>2, <2>3 DEF TypeOK, LogTypeOK
<1>5. ASSUME NEW i \in Node, NEW j \in Node,
             HandleCall(i, j) \/ Fault(i, j), ~AcceptEntries(i, j), ~FailAppend(i, j)
      PROVE  log' = log
  BY <1>5 DEF HandleCall, RefuseStaleVote, AnswerVote, RefuseStaleAppend, AcceptHeartbeat,
    RefuseGap, Fault, Cut, logVars
<1>6. ASSUME NEW i \in Node, NEW j \in Node, HandleAnswer(i, j)
      PROVE  log' = log
  BY <1>6 DEF HandleAnswer, IgnoreAnswer, StepDown, CountVote, BecomeLeader, NoteConflict,
    NoteMatch, logVars
<1>7. ASSUME NEW i \in Node, NEW c \in Command, Propose(i, c)
      PROVE  ToSet(log[w]) \subseteq ToSet(log'[w])
  <2> DEFINE e == [term |-> currentTerm[i], index |-> LastIndex(log[i]) + 1, command |-> c]
  <2>1. e \in Entry
    BY <1>1, <1>7, ProposeHeld
  <2>2. log' = [log EXCEPT ![i] = Append(log[i], e)]
    BY <1>7 DEF Propose
  <2> HIDE DEF e
  <2>3. log'[w] = log[w] \/ log'[w] = Append(log[w], e)
    BY <1>1, <2>2 DEF TypeOK, LogTypeOK
  <2>4. ToSet(log[w]) \subseteq ToSet(Append(log[w], e))
    BY <1>1, <2>1, AppendElements
  <2> QED
    BY <2>3, <2>4
<1>8. ASSUME NEW c \in Command,
             (\E i \in Node : Redirect(i, c) \/ FailPropose(i, c)) \/ LoseClient(c)
      PROVE  log' = log
  BY <1>8 DEF Redirect, FailPropose, LoseClient, logVars
<1>9. UNCHANGED vars => log' = log
  BY DEF vars, logVars
<1> QED
  BY <1>2, <1>3, <1>4, <1>5, <1>6, <1>7, <1>8, <1>9 DEF Next, Client

LEMMA SameWinnerDurable ==
  ASSUME NEW w \in Node, NEW t \in Nat, Before(w, t), WithWinner(w, t)', TypeOK', [Next]_vars,
         ExecutedHeldBy(w)
  PROVE  ExecutedHeldBy(w)'
<1>1. TypeOK /\ EntryInv /\ NoCallsToSelf /\ elected = {<<w, t>>} /\ WithWinner(w, t)
  BY DEF Before, EntryInv, ElectionInv
<1>2. ToSet(Commands(log[w])) \subseteq ToSet(Commands(log'[w]))
  BY WinnerKeepsLog, CommandElements
<1>3. \A n \in Node : ToSet(executed[n]) \subseteq ToSet(Commands(log'[w]))
  BY <1>2 DEF ExecutedHeldBy
<1>4. \A n \in Node : ToSet(Commands(log'[n])) \subseteq ToSet(Commands(log'[w]))
  <2> SUFFICES ASSUME NEW n \in Node PROVE ToSet(log'[n]) \subseteq ToSet(log'[w])
    BY CommandElements
  <2>1. ToSet(log'[n]) \subseteq Held'
    <3>1. ToSet(log'[n]) \subseteq Entry
      BY ElementsType DEF TypeOK, LogTypeOK
    <3> QED
      BY <3>1 DEF Held, InLog
  <2>2. \A e \in Held' : e.index \in DOMAIN log'[w] /\ log'[w][e.index] = e
    BY DEF WithWinner, WinnerHolds, AtItsIndex
  <2> QED
    BY <2>1, <2>2 DEF ToSet
<1>5. ASSUME NEW i \in Node, NEW j \in Node, AcceptHeartbeat(i, j) \/ AcceptEntries(i, j)
      PROVE  ExecutedHeldBy(w)'
  BY <1>1, <1>3, <1>4, <1>5, FollowerExecutesLog DEF ExecutedHeldBy
<1>6. ASSUME NEW i \in Node, NEW j \in Node, NoteMatch(i, j)
      PROVE  ExecutedHeldBy(w)'
  <2>1. role[i] = "leader" /\ i = w
    BY <1>1, <1>6, WinnerFacts DEF NoteMatch
  <2>2. Commands(log[w]) = executed[w] \o Commands(tasks[w])
    BY <1>1, <2>1 DEF WithWinner, LeaderExecutes
  <2>3. executed[w] \in Seq(Command) /\ Commands(tasks[w]) \in Seq(Command)
    BY <1>1, CommandsType DEF TypeOK, ApplyTypeOK, Task
  <2>4. ToSet(Commands(tasks[w])) \subseteq ToSet(Commands(log[w]))
    BY <2>2, <2>3, ConcatElements
  <2> QED
    BY <1>1, <1>2, <1>3, <1>6, <2>1, <2>4, LeaderExecutesTasks DEF ExecutedHeldBy
<1>7. CASE executed' = executed
  BY <1>3, <1>7 DEF ExecutedHeldBy
<1> QED
  BY <1>5, <1>6, <1>7, OthersExecuteNothing

LEMMA NextDurableInv == DurableInv /\ [Next]_vars => DurableInv'
<1> SUFFICES ASSUME DurableInv, [Next]_vars PROVE DurableInv'
  OBVIOUS
<1>1. SteadyInv /\ SteadyInv'
  BY NextSteadyInv DEF DurableInv
<1>2. EntryInv /\ ElectionInv /\ TypeOK /\ TypeOK' /\ NoCallsToSelf
  BY <1>1 DEF SteadyInv, EntryInv, ElectionInv
<1>3. ASSUME NEW w \in Node, NEW t \in Nat, elected' = {<<w, t>>}
      PROVE  ExecutedHeldBy(w)'
  <2>1. WithWinner(w, t)'
    BY <1>1, <1>3 DEF SteadyInv
  <2>2. CASE elected' = elected
    <3>1. Before(w, t) /\ ExecutedHeldBy(w)
      BY <1>1, <1>2, <1>3, <2>2 DEF Before, SteadyInv, DurableInv
    <3> QED
      BY <1>2, <2>1, <3>1, SameWinnerDurable
  <2>3. CASE elected' # elected
    <3>1. PICK i, j \in Node : BecomeLeader(i, j)
      BY <2>3, WinsOnlyGrow
    <3>2. /\ <<i, currentTerm[i]>> \notin elected
          /\ elected' = elected \union {<<i, currentTerm[i]>>}
      BY <1>2, <3>1, WinIsNew
    <3>3. elected = {}
      BY <1>3, <3>2
    <3>4. \A n \in Node : executed[n] = <<>>
      BY <1>1, <3>3 DEF SteadyInv, NothingYet
    <3>5. executed' = executed
      BY <3>1 DEF BecomeLeader, applyVars
    <3> QED
      BY <3>4, <3>5 DEF ExecutedHeldBy, ToSet
  <2> QED
    BY <2>2, <2>3
<1> QED
  BY <1>1, <1>3 DEF DurableInv

LEMMA InitDurableInv == Init => DurableInv
BY InitSteadyInv DEF DurableInv, ExecutedHeldBy, Init, ToSet

\* What any member has executed, and so whatever a client was told is applied, is on the
\* leader's disk at every moment, whichever members die and start again
\* (raft_node.cpp:600-622 and 478-509, persister.cpp:43-72 and 162-192).
THEOREM ExecutedStaysOnDisk == Spec => []ExecutedIsDurable
<1>1. DurableInv => ExecutedIsDurable
  <2> SUFFICES ASSUME DurableInv, OneWin, NEW i \in Node, NEW c \in ToSet(executed[i]),
                      NEW e \in elected
               PROVE  /\ Recoverable(disk[e[1]])
                      /\ c \in ToSet(Commands(RecoverEntries(disk[e[1]])))
    BY DEF ExecutedIsDurable
  <2>1. SteadyInv /\ EntryInv /\ TypeOK
    BY DEF DurableInv, SteadyInv, EntryInv, ElectionInv
  <2>2. elected = {e} /\ e \in Node \X Nat
    BY <2>1 DEF OneWin, TypeOK, HistoryTypeOK
  <2>3. e[1] \in Node /\ e[2] \in Nat /\ elected = {<<e[1], e[2]>>}
    BY <2>2
  <2>4. WithWinner(e[1], e[2]) /\ ExecutedHeldBy(e[1])
    BY <2>1, <2>3 DEF SteadyInv, DurableInv
  <2>5. Recoverable(disk[e[1]]) /\ RecoverEntries(disk[e[1]]) = log[e[1]]
    BY <2>1, <2>3, <2>4, DiskGivesLog DEF WithWinner, WinnerHolds
  <2> QED
    BY <2>4, <2>5 DEF ExecutedHeldBy
<1>2. Spec => []DurableInv
  BY InitDurableInv, NextDurableInv, PTL DEF Spec
<1> QED
  BY <1>1, <1>2, PTL

=============================================================================
