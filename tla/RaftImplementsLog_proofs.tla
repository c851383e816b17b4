---------------------- MODULE RaftImplementsLog_proofs ----------------------
(***************************************************************************)
(* A cluster to which nothing happens but one leader is a ReplicatedLog:   *)
(* proofs.                                                                 *)
(*                                                                         *)
(* The leader is ahead of everybody: what it has executed and what waits   *)
(* in its queue are its log, and no member commits, or is told to commit,  *)
(* more than the leader has executed.                                      *)
(***************************************************************************)
EXTENDS RaftSteady_proofs, RaftImplementsLog

\* A request that lets its receiver commit at most n entries.
Tells(m, n) == m.type # "vote" => m.commit <= n

\* An answer that acknowledges at most n entries.
Acknowledges(a, n) == a.type = "append" /\ a.success => a.last <= n

QueueIsInOrder(w) == \A k \in DOMAIN tasks[w] : tasks[w][k].index = Len(executed[w]) + k

LogIsExecuted(w) == Commands(log[w]) = executed[w] \o Commands(tasks[w])

NobodyCommitsMore(w) ==
  /\ \A i \in Node : commitIndex[i] <= Len(executed[w])
  /\ \A i, j \in Node : \A k \in DOMAIN calls[i][j] : Tells(calls[i][j][k], Len(executed[w]))

NobodyStoresMore(w) ==
  /\ \A j \in Node : matchIndex[w][j] <= Len(log[w])
  /\ \A j \in Node : \A k \in DOMAIN answers[w][j] : Acknowledges(answers[w][j][k], Len(log[w]))

Leads(w) ==
  QueueIsInOrder(w) /\ LogIsExecuted(w) /\ NobodyCommitsMore(w) /\ NobodyStoresMore(w)

NobodyMatches == \A i, j \in Node : matchIndex[i][j] = 0

\* The inductive invariant.
LeadInv ==
  /\ SteadyInv /\ gone \subseteq issued
  /\ elected = {} => NobodyMatches
  /\ Undisturbed => \A w \in Node, t \in Nat : elected = {<<w, t>>} => Leads(w)

-----------------------------------------------------------------------------
(* Requests and answers that are handled or added. *)

NoNewCalls ==
  \A a, b \in Node : \A n \in DOMAIN calls'[a][b] :
    \E p \in DOMAIN calls[a][b] : calls'[a][b][n] = calls[a][b][p]

NoNewAnswersBut(j, i, x) ==
  \A a, b \in Node : \A n \in DOMAIN answers'[a][b] :
    \/ \E p \in DOMAIN answers[a][b] : answers'[a][b][n] = answers[a][b][p]
    \/ a = j /\ b = i /\ answers'[a][b][n] = x

LEMMA RemovedCalls ==
  ASSUME TypeOK, NEW i \in Node, NEW j \in Node, NEW k \in Arrived(j, i),
         calls' = [calls EXCEPT ![j][i] = RemoveAt(@, k)]
  PROVE  NoNewCalls
<1> SUFFICES ASSUME NEW a \in Node, NEW b \in Node, NEW n \in DOMAIN calls'[a][b]
             PROVE  \E p \in DOMAIN calls[a][b] : calls'[a][b][n] = calls[a][b][p]
  BY DEF NoNewCalls
<1>1. k \in DOMAIN calls[j][i] /\ calls[j][i] \in Seq(Call)
  BY ArrivedType DEF TypeOK, NetTypeOK
<1>2. CASE a = j /\ b = i
  <2>1. calls'[a][b] = RemoveAt(calls[j][i], k)
    BY <1>2 DEF TypeOK, NetTypeOK
  <2> QED
    BY <1>1, <1>2, <2>1, RemoveAtElement
<1>3. CASE ~(a = j /\ b = i)
  <2>1. calls'[a][b] = calls[a][b]
    BY <1>3 DEF TypeOK, NetTypeOK
  <2> QED
    BY <2>1
<1> QED
  BY <1>2, <1>3

LEMMA AddedAnswers ==
  ASSUME TypeOK, NEW i \in Node, NEW j \in Node, NEW x,
         answers' = answers \/ answers' = [answers EXCEPT ![j][i] = Append(@, x)]
  PROVE  NoNewAnswersBut(j, i, x)
<1> SUFFICES ASSUME NEW a \in Node, NEW b \in Node, NEW n \in DOMAIN answers'[a][b]
             PROVE  \/ \E p \in DOMAIN answers[a][b] : answers'[a][b][n] = answers[a][b][p]
                    \/ a = j /\ b = i /\ answers'[a][b][n] = x
  BY DEF NoNewAnswersBut
<1> DEFINE s == answers[j][i]
           S == Answer \union {x}
<1>1. s \in Seq(S) /\ x \in S
  <2>1. s \in Seq(Answer)
    BY DEF TypeOK, NetTypeOK
  <2> HIDE DEF s
  <2>2. Len(s) \in Nat /\ s \in [1..Len(s) -> Answer]
    BY <2>1, LenProperties
  <2>3. s \in [1..Len(s) -> S]
    BY <2>2
  <2> QED
    BY <2>2, <2>3, SeqDef
<1> HIDE DEF S
<1>2. /\ Len(s) \in Nat /\ DOMAIN s = 1..Len(s) /\ DOMAIN Append(s, x) = 1..(Len(s) + 1)
      /\ \A p \in 1..Len(s) : Append(s, x)[p] = s[p]
      /\ Append(s, x)[Len(s) + 1] = x
  BY <1>1, AppendProperties, LenProperties
<1>3. \/ answers'[a][b] = answers[a][b]
      \/ a = j /\ b = i /\ answers'[a][b] = Append(s, x)
  <2> DEFINE longer == Append(s, x)
  <2>1. answers' = answers \/ answers' = [answers EXCEPT ![j][i] = longer]
    OBVIOUS
  <2> HIDE DEF longer
  <2>2. answers \in [Node -> [Node -> Seq(Answer)]]
    BY DEF TypeOK, NetTypeOK
  <2>3. answers'[a][b] = answers[a][b] \/ (a = j /\ b = i /\ answers'[a][b] = longer)
    <3>1. CASE answers' = [answers EXCEPT ![j][i] = longer]
      BY <2>2, <3>1
    <3> QED
      BY <2>1, <3>1
  <2> QED
    BY <2>3 DEF longer
<1>4. CASE answers'[a][b] = answers[a][b]
  BY <1>4
<1>5. CASE a = j /\ b = i /\ answers'[a][b] = Append(s, x)
  <2> HIDE DEF s
  <2>1. \/ n \in 1..Len(s) /\ Append(s, x)[n] = s[n]
        \/ Append(s, x)[n] = x
    BY <1>2, <1>5
  <2> QED
    BY <1>2, <1>5, <2>1 DEF s
<1> QED
  BY <1>3, <1>4, <1>5

LEMMA ConsumedAnswers ==
  ASSUME TypeOK, NEW i \in Node, NEW j \in Node, answers[i][j] # <<>>, Consume(i, j),
         NEW w \in Node, NEW n, \A b \in Node : \A k \in DOMAIN answers[w][b] :
                                   Acknowledges(answers[w][b][k], n)
  PROVE  \A b \in Node : \A k \in DOMAIN answers'[w][b] : Acknowledges(answers'[w][b][k], n)
<1> DEFINE s == answers[i][j]
<1>1. s \in Seq(Answer)
      /\ \A b \in Node : answers'[w][b] = IF w = i /\ b = j THEN Tail(s) ELSE answers[w][b]
  BY DEF TypeOK, NetTypeOK, Consume
<1>2. \A k \in DOMAIN Tail(s) : k + 1 \in DOMAIN s /\ Tail(s)[k] = s[k + 1]
  BY <1>1, HeadTailProperties, EmptySeq, LenProperties
<1> QED
  BY <1>1, <1>2

-----------------------------------------------------------------------------
(* Steps of a cluster with a winner. *)

\* The logs of an undisturbed cluster are no longer than the winner's.
NobodyLonger ==
  Undisturbed => \A w \in Node, t \in Nat :
    elected = {<<w, t>>} => \A i \in Node : Len(log[i]) <= Len(log[w])

LEMMA NobodyIsLonger == SteadyInv => NobodyLonger
<1> SUFFICES ASSUME SteadyInv, Undisturbed,
                    NEW w \in Node, NEW t \in Nat, elected = {<<w, t>>}, NEW i \in Node
             PROVE  Len(log[i]) <= Len(log[w])
  BY DEF NobodyLonger
<1>1. TypeOK /\ WinnerHolds(w) /\ Straight(log[i])
  BY DEF SteadyInv, WithWinner, NothingMissing, EntryInv, ElectionInv
<1> QED
  BY <1>1, StraightIsPrefix

\* An undisturbed step while w, in term t, is the only winner.
Going(w, t) ==
  /\ Before(w, t) /\ SteadyInv /\ SteadyInv' /\ elected' = elected
  /\ Undisturbed /\ Undisturbed' /\ Leads(w)

LEMMA GoingFacts ==
  ASSUME NEW w \in Node, NEW t \in Nat, Going(w, t)
  PROVE  /\ TypeOK /\ TypeOK' /\ EntryInv /\ EntryInv' /\ NoCallsToSelf /\ elected = {<<w, t>>}
         /\ faults' = faults /\ WithWinner(w, t) /\ WithWinner(w, t)'
         /\ \A i \in Node : Straight(log[i])
         /\ \A i \in Node : Len(log'[i]) <= Len(log'[w])
<1>1. NobodyLonger'
  <2>1. SteadyInv'
    BY DEF Going
  <2> QED
    BY <2>1, NobodyIsLonger, PTL
<1>2. \A i \in Node : Len(log'[i]) <= Len(log'[w])
  BY <1>1 DEF Going, Before, NobodyLonger
<1> QED
  BY <1>2 DEF Going, Before, SteadyInv, EntryInv, ElectionInv, Undisturbed, WithWinner,
    NothingMissing

\* As many commands as entries.
LEMMA CommandsLength ==
  ASSUME NEW S, \A e \in S : e.command \in Command, NEW s \in Seq(S)
  PROVE  Commands(s) \in Seq(Command) /\ Len(Commands(s)) = Len(s)
<1>1. Commands(s) \in Seq(Command)
  BY CommandsType
<1>2. /\ Len(s) \in Nat /\ DOMAIN s = 1..Len(s)
      /\ Len(Commands(s)) \in Nat /\ DOMAIN Commands(s) = 1..Len(Commands(s))
  BY <1>1, LenProperties
<1>3. DOMAIN Commands(s) = DOMAIN s
  BY DEF Commands
<1>4. Len(Commands(s)) = Len(s)
  <2> DEFINE n == Len(Commands(s))
             m == Len(s)
  <2>1. n \in Nat /\ m \in Nat /\ 1..n = 1..m
    BY <1>2, <1>3
  <2> HIDE DEF n, m
  <2>2. n = m
    BY <2>1
  <2> QED
    BY <2>2 DEF n, m
<1> QED
  BY <1>1, <1>4

LEMMA FirstTasks ==
  ASSUME NEW S, NEW q \in Seq(S), NEW n \in 0..Len(q)
  PROVE  /\ SubSeq(q, 1, n) \in Seq(S) /\ Len(SubSeq(q, 1, n)) = n
         /\ \A k \in 1..n : SubSeq(q, 1, n)[k] = q[k]
<1>1. Len(q) \in Nat /\ \A k \in 1..n : q[k] \in S
  BY LenProperties, ElementOfSeq
<1> QED
  BY <1>1, SubSeqProperties

LEMMA LogIsCounted ==
  ASSUME TypeOK, NEW w \in Node, Leads(w)
  PROVE  Len(log[w]) = Len(executed[w]) + Len(tasks[w])
<1>1. log[w] \in Seq(Entry) /\ executed[w] \in Seq(Command) /\ tasks[w] \in Seq(Task)
  BY DEF TypeOK, LogTypeOK, ApplyTypeOK
<1>2. Len(Commands(log[w])) = Len(log[w])
  BY <1>1, CommandsLength DEF Entry
<1>3. Commands(tasks[w]) \in Seq(Command) /\ Len(Commands(tasks[w])) = Len(tasks[w])
  BY <1>1, CommandsLength DEF Task
<1>4. Len(executed[w] \o Commands(tasks[w])) = Len(executed[w]) + Len(Commands(tasks[w]))
  BY <1>1, <1>3, ConcatProperties
<1> QED
  BY <1>2, <1>3, <1>4 DEF Leads, LogIsExecuted

LEMMA LeadsOn ==
  ASSUME NEW w \in Node, Leads(w), tasks'[w] = tasks[w], executed'[w] = executed[w],
         log'[w] = log[w], \A j \in Node : matchIndex'[w][j] = matchIndex[w][j],
         \A i \in Node : commitIndex'[i] <= Len(executed[w]),
         \A i, j \in Node : \A k \in DOMAIN calls'[i][j] : Tells(calls'[i][j][k], Len(executed[w])),
         \A j \in Node : \A k \in DOMAIN answers'[w][j] :
           Acknowledges(answers'[w][j][k], Len(log[w]))
  PROVE  Leads(w)'
BY DEF Leads, QueueIsInOrder, LogIsExecuted, NobodyCommitsMore, NobodyStoresMore

\* A request of j was handled by i.
LEMMA HandledLeads ==
  ASSUME NEW w \in Node, NEW t \in Nat, Going(w, t),
         NEW i \in Node, NEW j \in Node, NEW k \in Arrived(j, i), NEW x,
         Respond(i, j, k, x) \/ RespondIfAlive(i, j, k, x),
         j = w => Acknowledges(x, Len(log[w])),
         UNCHANGED <<tasks, matchIndex>>, log'[w] = log[w], executed'[w] = executed[w],
         \A n \in Node : commitIndex'[n] <= Len(executed[w])
  PROVE  Leads(w)'
<1>1. TypeOK /\ Leads(w)
  BY GoingFacts DEF Going
<1>2. calls' = [calls EXCEPT ![j][i] = RemoveAt(@, k)]
  BY RespondIfAliveRemoves DEF Respond
<1>3. answers' = answers \/ answers' = [answers EXCEPT ![j][i] = Append(@, x)]
  BY Zenon DEF Respond, RespondIfAlive
<1>4. NoNewCalls /\ NoNewAnswersBut(j, i, x)
  BY <1>1, <1>2, <1>3, RemovedCalls, AddedAnswers
<1>5. \A a, b \in Node : \A n \in DOMAIN calls'[a][b] : Tells(calls'[a][b][n], Len(executed[w]))
  BY <1>1, <1>4 DEF Leads, NobodyCommitsMore, NoNewCalls
<1>6. \A b \in Node : \A n \in DOMAIN answers'[w][b] : Acknowledges(answers'[w][b][n], Len(log[w]))
  BY <1>1, <1>4 DEF Leads, NobodyStoresMore, NoNewAnswersBut
<1> QED
  BY <1>1, <1>5, <1>6, LeadsOn DEF Leads, NobodyStoresMore

\* Requests that are refused, and requests for a vote.
LEMMA RequestLeads ==
  ASSUME NEW w \in Node, NEW t \in Nat, Going(w, t), NEW i \in Node, NEW j \in Node,
         RefuseStaleVote(i, j) \/ AnswerVote(i, j) \/ RefuseStaleAppend(i, j) \/ RefuseGap(i, j)
  PROVE  Leads(w)'
<1>1. Leads(w)
  BY DEF Going
<1>2. UNCHANGED <<log, tasks, executed, commitIndex, matchIndex>>
  BY DEF RefuseStaleVote, AnswerVote, RefuseStaleAppend, RefuseGap, logVars, applyVars, leaderVars
<1>3. PICK k \in Arrived(j, i) : \E x :
        Respond(i, j, k, x) /\ (x.type = "append" => ~x.success)
  <2>1. CASE RefuseStaleVote(i, j)
    <3>1. PICK k \in Arrived(j, i) :
            Respond(i, j, k, [type |-> "vote", term |-> currentTerm[i], granted |-> FALSE])
      BY <2>1 DEF RefuseStaleVote
    <3> QED
      BY <3>1
  <2>2. CASE AnswerVote(i, j)
    <3>1. PICK k \in Arrived(j, i) : \E term, g :
            Respond(i, j, k, [type |-> "vote", term |-> term, granted |-> g])
      BY <2>2 DEF AnswerVote
    <3> QED
      BY <3>1
  <2>3. CASE RefuseStaleAppend(i, j)
    <3>1. PICK k \in Arrived(j, i) :
            Respond(i, j, k, IF calls[j][i][k].type = "heartbeat"
                             THEN [type |-> "heartbeat", term |-> currentTerm[i]]
                             ELSE AppendRefused(currentTerm[i], LastIndex(log[i])))
      BY <2>3 DEF RefuseStaleAppend
    <3> QED
      BY <3>1 DEF AppendRefused
  <2>4. CASE RefuseGap(i, j)
    <3>1. PICK k \in Arrived(j, i) : \E term, len : Respond(i, j, k, AppendRefused(term, len))
      BY <2>4 DEF RefuseGap
    <3> QED
      BY <3>1 DEF AppendRefused
  <2> QED
    BY <2>1, <2>2, <2>3, <2>4
<1>4. PICK x : Respond(i, j, k, x) /\ (x.type = "append" => ~x.success)
  BY <1>3
<1>5. \A n \in Node : commitIndex'[n] <= Len(executed[w])
  BY <1>1, <1>2 DEF Leads, NobodyCommitsMore
<1> QED
  BY <1>2, <1>4, <1>5, HandledLeads DEF Acknowledges

\* What a follower executes starts where it stopped.
LEMMA ViewGoesOn ==
  ASSUME TypeOK, NEW i \in Node, NEW l \in Seq(Entry), NEW commit \in Nat,
         ApplyView(i, l, commit)
  PROVE  /\ \A n \in Node \ {i} : executed'[n] = executed[n]
         /\ lastApplied'[i] >= lastApplied[i]
<1> DEFINE la == lastApplied[i]
           wild == ViewIsWild(l, la + 1, commit)
           end == IF wild THEN Len(l) ELSE commit
<1>1. la \in Nat /\ Len(l) \in Nat
  BY LenProperties DEF TypeOK, ApplyTypeOK
<1>2. CASE ViewIsGiven(l, la + 1, commit)
  <2>1. /\ \E more : executed' = [executed EXCEPT ![i] = more]
        /\ lastApplied' = [lastApplied EXCEPT ![i] = end]
    BY <1>2 DEF ApplyView
  <2>2. end >= la
    BY <1>1, <1>2 DEF ViewIsGiven, ViewIsWild
  <2> QED
    BY <2>1, <2>2 DEF TypeOK, ApplyTypeOK
<1>3. CASE ~ViewIsGiven(l, la + 1, commit)
  BY <1>1, <1>3 DEF ApplyView
<1> QED
  BY <1>2, <1>3

LEMMA CommitWithin ==
  ASSUME NEW i \in Node, NEW l \in Seq(Entry), NEW commit \in Nat, NEW n \in Nat,
         commitIndex[i] \in Nat, commitIndex[i] <= n, commit <= n
  PROVE  CommitAfter(i, l, commit) \in Nat /\ CommitAfter(i, l, commit) <= n
<1>1. Len(l) \in Nat
  BY LenProperties
<1> QED
  BY <1>1 DEF CommitAfter

\* What a follower that takes a request of the leader leaves alone.
LEMMA FollowerMoves ==
  ASSUME NEW w \in Node, NEW t \in Nat, Going(w, t), NEW i \in Node, NEW j \in Node,
         AcceptHeartbeat(i, j) \/ AcceptEntries(i, j)
  PROVE  /\ i # w /\ log'[w] = log[w]
         /\ \A n \in Node \ {i} : executed'[n] = executed[n]
         /\ lastApplied'[i] >= lastApplied[i]
         /\ \A n \in Node : commitIndex'[n] <= Len(executed[w])
         /\ \E k \in Arrived(j, i) : \E x :
              /\ RespondIfAlive(i, j, k, x)
              /\ x.type = "append" /\ x.success => x.last = Len(log'[i])
         /\ UNCHANGED <<tasks, matchIndex, issued, gone, replies>>
<1>1. /\ TypeOK /\ EntryInv /\ NoCallsToSelf /\ elected = {<<w, t>>}
      /\ Leads(w) /\ Len(executed[w]) \in Nat
  <2>1. TypeOK
    BY GoingFacts
  <2>2. Len(executed[w]) \in Nat
    BY <2>1, LenProperties DEF TypeOK, ApplyTypeOK
  <2> QED
    BY <2>1, <2>2, GoingFacts DEF Going
<1>2. UNCHANGED <<tasks, matchIndex, issued, gone, replies>>
  BY DEF AcceptHeartbeat, AcceptEntries, leaderVars, clientVars
<1>3. ASSUME NEW k \in Arrived(j, i), calls[j][i][k].type # "vote"
      PROVE  /\ i # w /\ calls[j][i][k] \in Call
             /\ calls[j][i][k].commit \in Nat /\ calls[j][i][k].commit <= Len(executed[w])
  <2>1. k \in DOMAIN calls[j][i] /\ calls[j][i][k] \in Call
    BY <1>1, ArrivedType DEF TypeOK
  <2>2. i # w
    BY <1>1, <1>3, <2>1, WinnerFacts
  <2>3. calls[j][i][k].commit \in Nat
    BY <1>3, <2>1 DEF Call, VoteCall, AppendCall, HeartbeatCall
  <2>4. calls[j][i][k].commit <= Len(executed[w])
    BY <1>1, <1>3, <2>1 DEF Leads, NobodyCommitsMore, Tells
  <2> QED
    BY <2>1, <2>2, <2>3, <2>4
<1>4. ASSUME NEW l \in Seq(Entry), NEW commit \in Nat, commit <= Len(executed[w]),
             commitIndex' = [commitIndex EXCEPT ![i] = CommitAfter(i, l, commit)]
      PROVE  /\ \A n \in Node : commitIndex'[n] <= Len(executed[w])
             /\ CommitAfter(i, l, commit) \in Nat
  <2>1. \A n \in Node : commitIndex[n] \in Nat /\ commitIndex[n] <= Len(executed[w])
    BY <1>1 DEF Leads, NobodyCommitsMore, TypeOK, ApplyTypeOK
  <2>2. CommitAfter(i, l, commit) \in Nat /\ CommitAfter(i, l, commit) <= Len(executed[w])
    BY <1>1, <1>4, <2>1, CommitWithin
  <2>3. \A n \in Node : commitIndex'[n]
                          = IF n = i THEN CommitAfter(i, l, commit) ELSE commitIndex[n]
    BY <1>1, <1>4 DEF TypeOK, ApplyTypeOK
  <2> QED
    BY <2>1, <2>2, <2>3
<1>5. CASE AcceptHeartbeat(i, j)
  <2>1. PICK k \in Arrived(j, i) :
          LET m == calls[j][i][k]
              commit == CommitAfter(i, log[i], m.commit)
          IN  /\ m.type = "heartbeat"
              /\ commitIndex' = [commitIndex EXCEPT ![i] = commit]
              /\ ApplyView(i, log[i], commit)
              /\ RespondIfAlive(i, j, k, [type |-> "heartbeat", term |-> m.term])
    BY <1>5 DEF AcceptHeartbeat
  <2>2. log' = log /\ log[i] \in Seq(Entry)
    BY <1>1, <1>5 DEF AcceptHeartbeat, TypeOK, LogTypeOK
  <2>3. /\ i # w /\ \A n \in Node : commitIndex'[n] <= Len(executed[w])
        /\ CommitAfter(i, log[i], calls[j][i][k].commit) \in Nat
    BY <1>3, <1>4, <2>1, <2>2
  <2>4. (\A n \in Node \ {i} : executed'[n] = executed[n]) /\ lastApplied'[i] >= lastApplied[i]
    BY <1>1, <2>1, <2>2, <2>3, ViewGoesOn
  <2>5. \E x : /\ RespondIfAlive(i, j, k, x)
               /\ x.type = "append" /\ x.success => x.last = Len(log'[i])
    BY <2>1
  <2> QED
    BY <1>2, <2>2, <2>3, <2>4, <2>5
<1>6. CASE AcceptEntries(i, j)
  <2>1. PICK k \in Arrived(j, i) :
          LET m == calls[j][i][k]
              commit == CommitAfter(i, Extended(i, m), m.commit)
          IN  /\ m.type = "append"
              /\ log' = [log EXCEPT ![i] = Extended(i, m)]
              /\ commitIndex' = [commitIndex EXCEPT ![i] = commit]
              /\ IF m.commit > commitIndex[i]
                 THEN ApplyView(i, Extended(i, m), commit)
                 ELSE UNCHANGED <<executed, lastApplied, down>>
              /\ RespondIfAlive(i, j, k, AppendDone(m.term, Len(Extended(i, m))))
    BY <1>6 DEF AcceptEntries
  <2> DEFINE m == calls[j][i][k]
             l == Extended(i, m)
             commit == CommitAfter(i, l, m.commit)
  <2>2. log' \in [Node -> Seq(Entry)]
    BY GoingFacts DEF TypeOK, LogTypeOK
  <2>3. log \in [Node -> Seq(Entry)]
    BY <1>1 DEF TypeOK, LogTypeOK
  <2>4. log' = [log EXCEPT ![i] = l]
    BY <2>1
  <2>5. m.type = "append" /\ commitIndex' = [commitIndex EXCEPT ![i] = commit]
    BY <2>1
  <2>6. IF m.commit > commitIndex[i] THEN ApplyView(i, l, commit)
        ELSE UNCHANGED <<executed, lastApplied, down>>
    BY <2>1
  <2>7. RespondIfAlive(i, j, k, AppendDone(m.term, Len(l)))
    BY <2>1
  <2>8. i # w /\ m.commit \in Nat /\ m.commit <= Len(executed[w])
    BY <1>3, <2>5
  <2> HIDE DEF m, l, commit
  <2>9. l \in Seq(Entry) /\ log'[i] = l /\ log'[w] = log[w]
    BY <2>2, <2>3, <2>4, <2>8
  <2>10. commit \in Nat /\ \A n \in Node : commitIndex'[n] <= Len(executed[w])
    BY <1>4, <2>5, <2>8, <2>9 DEF commit
  <2>11. (\A n \in Node \ {i} : executed'[n] = executed[n]) /\ lastApplied'[i] >= lastApplied[i]
    <3>1. CASE m.commit > commitIndex[i]
      BY <1>1, <2>6, <2>9, <2>10, <3>1, ViewGoesOn
    <3>2. CASE ~(m.commit > commitIndex[i])
      BY <1>1, <2>6, <3>2 DEF TypeOK, ApplyTypeOK
    <3> QED
      BY <3>1, <3>2
  <2>12. \E x : /\ RespondIfAlive(i, j, k, x)
                /\ x.type = "append" /\ x.success => x.last = Len(log'[i])
    BY <2>7, <2>9 DEF AppendDone
  <2> QED
    BY <1>2, <2>8, <2>9, <2>10, <2>11, <2>12, ZenonT(60)
<1> QED
  BY <1>5, <1>6

LEMMA FollowerLeads ==
  ASSUME NEW w \in Node, NEW t \in Nat, Going(w, t), NEW i \in Node, NEW j \in Node,
         AcceptHeartbeat(i, j) \/ AcceptEntries(i, j)
  PROVE  Leads(w)'
<1>0. PICK k \in Arrived(j, i) : \E x :
        /\ RespondIfAlive(i, j, k, x)
        /\ x.type = "append" /\ x.success => x.last = Len(log'[i])
  BY FollowerMoves
<1>1. PICK x :
        /\ RespondIfAlive(i, j, k, x)
        /\ x.type = "append" /\ x.success => x.last = Len(log'[i])
  BY <1>0
<1>2. /\ i # w /\ log'[w] = log[w]
      /\ \A n \in Node \ {i} : executed'[n] = executed[n]
      /\ \A n \in Node : commitIndex'[n] <= Len(executed[w])
      /\ UNCHANGED <<tasks, matchIndex>>
  BY FollowerMoves
<1>3. Len(log'[i]) <= Len(log[w])
  BY <1>2, GoingFacts
<1>4. Acknowledges(x, Len(log[w]))
  BY <1>1, <1>3 DEF Acknowledges
<1>5. executed'[w] = executed[w]
  BY <1>2
<1> QED
  BY <1>1, <1>2, <1>4, <1>5, HandledLeads

-----------------------------------------------------------------------------
(* Steps of a member that handles no request. *)

LEMMA AnswerLeads ==
  ASSUME NEW w \in Node, NEW t \in Nat, Going(w, t), NEW i \in Node, NEW j \in Node,
         IgnoreAnswer(i, j) \/ StepDown(i, j) \/ CountVote(i, j) \/ NoteConflict(i, j)
  PROVE  Leads(w)'
<1>1. TypeOK /\ Leads(w)
  BY GoingFacts DEF Going
<1>2. /\ UNCHANGED <<log, tasks, executed, commitIndex, matchIndex, calls>>
      /\ answers[i][j] # <<>> /\ Consume(i, j)
  BY DEF IgnoreAnswer, StepDown, CountVote, NoteConflict, logVars, applyVars, leaderVars
<1>3. \A b \in Node : \A k \in DOMAIN answers'[w][b] : Acknowledges(answers'[w][b][k], Len(log[w]))
  BY <1>1, <1>2, ConsumedAnswers DEF Leads, NobodyStoresMore
<1> QED
  BY <1>1, <1>2, <1>3, LeadsOn DEF Leads, NobodyCommitsMore, NobodyStoresMore

\* Requests that tell no more than the sender has executed.
LEMMA BroadcastLeads ==
  ASSUME TypeOK, NEW n, NEW i \in Node, NEW batch, Broadcast(i, batch),
         \A a, b \in Node : \A k \in DOMAIN calls[a][b] : Tells(calls[a][b][k], n),
         \A b \in Node : batch[b] \in Seq(Call)
                           /\ \A k \in DOMAIN batch[b] : Tells(batch[b][k], n)
  PROVE  \A a, b \in Node : \A k \in DOMAIN calls'[a][b] : Tells(calls'[a][b][k], n)
<1> SUFFICES ASSUME NEW a \in Node, NEW b \in Node, NEW k \in DOMAIN calls'[a][b]
             PROVE  Tells(calls'[a][b][k], n)
  OBVIOUS
<1>1. \/ \E p \in DOMAIN calls[a][b] : calls'[a][b][k] = calls[a][b][p]
      \/ a = i /\ b # i /\ \E p \in DOMAIN batch[b] : calls'[a][b][k] = batch[b][p]
  BY BroadcastAdds DEF TypeOK
<1> QED
  BY <1>1

LEMMA ElectionTimeoutLeads ==
  ASSUME NEW w \in Node, NEW t \in Nat, Going(w, t), NEW i \in Node, ElectionTimeout(i)
  PROVE  Leads(w)'
<1> DEFINE m == [type |-> "vote", term |-> currentTerm[i] + 1, lastIndex |-> LastIndex(log[i]),
                 lastTerm |-> LastTerm(log[i]), live |-> TRUE]
           batch == [j \in Node |-> <<m>>]
<1>1. TypeOK /\ Leads(w)
  BY GoingFacts DEF Going
<1>2. /\ UNCHANGED <<log, tasks, executed, commitIndex, matchIndex, answers>>
      /\ Broadcast(i, batch)
  BY DEF ElectionTimeout, logVars, applyVars, leaderVars
<1>3. m \in Call /\ m.type = "vote"
  <2>1. LastIndex(log[i]) \in Nat /\ LastTerm(log[i]) \in Nat
    BY <1>1, LogTermTypes DEF TypeOK, LogTypeOK
  <2> QED
    BY <1>1, <2>1 DEF Call, VoteCall, TypeOK, RaftTypeOK
<1>4. \A b \in Node : batch[b] \in Seq(Call)
                        /\ \A k \in DOMAIN batch[b] : Tells(batch[b][k], Len(executed[w]))
  <2> HIDE DEF m
  <2> QED
    BY <1>3 DEF Tells
<1> HIDE DEF batch
<1>5. \A a, b \in Node : \A k \in DOMAIN calls'[a][b] : Tells(calls'[a][b][k], Len(executed[w]))
  BY <1>1, <1>2, <1>4, BroadcastLeads DEF Leads, NobodyCommitsMore
<1> QED
  BY <1>1, <1>2, <1>5, LeadsOn DEF Leads, NobodyCommitsMore, NobodyStoresMore

LEMMA HeartbeatTickLeads ==
  ASSUME NEW w \in Node, NEW t \in Nat, Going(w, t), NEW i \in Node, HeartbeatTick(i)
  PROVE  Leads(w)'
<1> DEFINE h == HeartbeatCallOf(i)
           r(j) == ReissueCall(i, j)
           batch == [j \in Node |-> IF MustReissue(i, j) THEN <<r(j), h>> ELSE <<h>>]
<1>1. TypeOK /\ EntryInv /\ NoCallsToSelf /\ elected = {<<w, t>>} /\ Leads(w)
  BY GoingFacts DEF Going
<1>2. /\ UNCHANGED <<log, tasks, executed, commitIndex, matchIndex, answers>>
      /\ Broadcast(i, batch) /\ role[i] = "leader"
  BY DEF HeartbeatTick, logVars, applyVars, leaderVars
<1>3. commitIndex[i] <= Len(executed[w])
  BY <1>1 DEF Leads, NobodyCommitsMore
<1>4. h \in Call /\ h.commit = commitIndex[i]
  BY <1>1 DEF HeartbeatCallOf, Call, HeartbeatCall, TypeOK, RaftTypeOK, ApplyTypeOK
<1>5. \A j \in Node : MustReissue(i, j) => r(j) \in Call /\ r(j).commit = commitIndex[i]
  <2>1. \A j \in Node : MustReissue(i, j) => r(j) \in Call
    BY <1>1, ReissueCallType
  <2>2. \A j \in Node : r(j).commit = commitIndex[i]
    BY DEF ReissueCall
  <2> QED
    BY <2>1, <2>2
<1>6. ASSUME NEW b \in Node
      PROVE  batch[b] \in Seq(Call)
               /\ \A k \in DOMAIN batch[b] : Tells(batch[b][k], Len(executed[w]))
  <2> HIDE DEF h, r
  <2>1. CASE MustReissue(i, b)
    BY <1>3, <1>4, <1>5, <2>1 DEF Tells
  <2>2. CASE ~MustReissue(i, b)
    BY <1>3, <1>4, <2>2 DEF Tells
  <2> QED
    BY <2>1, <2>2
<1> HIDE DEF batch
<1>7. \A a, b \in Node : \A k \in DOMAIN calls'[a][b] : Tells(calls'[a][b][k], Len(executed[w]))
  BY <1>1, <1>2, <1>6, BroadcastLeads DEF Leads, NobodyCommitsMore
<1> QED
  BY <1>1, <1>2, <1>7, LeadsOn DEF Leads, NobodyCommitsMore, NobodyStoresMore

-----------------------------------------------------------------------------
(* Steps of the leader and its clients. *)

\* What the leader does with an answer that acknowledges more than it knew of.
LEMMA MatchMoves ==
  ASSUME NEW w \in Node, NEW t \in Nat, Going(w, t), NEW i \in Node, NEW j \in Node,
         NoteMatch(i, j)
  PROVE  /\ i = w
         /\ \A b \in Node : matchIndex'[w][b] <= Len(log[w])
         /\ \E c \in Nat, n \in 0..Len(tasks[w]) :
              /\ c <= Len(log[w])
              /\ ReadyTasks(tasks[w], c, n)
              /\ commitIndex' = [commitIndex EXCEPT ![w] = c]
              /\ executed' = [executed EXCEPT ![w] = @ \o Commands(SubSeq(tasks[w], 1, n))]
              /\ tasks' = [tasks EXCEPT ![w] = Remaining(@, n)]
              /\ replies' = RepliesAfter(SubSeq(tasks[w], 1, n))
<1>1. /\ TypeOK /\ EntryInv /\ NoCallsToSelf /\ elected = {<<w, t>>}
      /\ Leads(w)
  BY GoingFacts DEF Going
<1>2. role[i] = "leader" /\ answers[i][j] # <<>>
  BY DEF NoteMatch
<1>3. i = w
  BY <1>1, <1>2, WinnerFacts
<1> DEFINE a == Head(answers[w][j])
           match == [matchIndex[w] EXCEPT ![j] = a.last]
<1>4. a \in Answer /\ a.type = "append" /\ a.success /\ a = answers[w][j][1]
      /\ 1 \in DOMAIN answers[w][j]
  <2>1. a \in Answer
    BY <1>1, <1>2, <1>3, ConsumeType DEF NoteMatch, TypeOK
  <2>2. a.type = "append" /\ a.success
    BY <1>3 DEF NoteMatch
  <2>3. answers[w][j] \in Seq(Answer)
    BY <1>1 DEF TypeOK, NetTypeOK
  <2>4. 1 \in DOMAIN answers[w][j] /\ a = answers[w][j][1]
    BY <1>2, <1>3, <2>3, EmptySeq, LenProperties
  <2> QED
    BY <2>1, <2>2, <2>4
<1>5. a.last \in Nat
  BY <1>4, AppendAnswerType DEF AppendAnswer
<1>6. a.last <= Len(log[w])
  BY <1>1, <1>4 DEF Leads, NobodyStoresMore, Acknowledges
<1>7. /\ matchIndex' = [matchIndex EXCEPT ![w] = match]
      /\ \E c \in {match[n] : n \in Node}, n \in 0..Len(tasks[w]) :
           /\ ReadyTasks(tasks[w], c, n)
           /\ commitIndex' = [commitIndex EXCEPT ![w] = c]
           /\ executed' = [executed EXCEPT ![w] = @ \o Commands(SubSeq(tasks[w], 1, n))]
           /\ tasks' = [tasks EXCEPT ![w] = Remaining(@, n)]
           /\ replies' = RepliesAfter(SubSeq(tasks[w], 1, n))
  <2>1. NoteMatch(w, j)
    BY <1>3
  <2> HIDE <1>3
  <2> QED
    BY <2>1, ZenonT(60) DEF NoteMatch
<1> HIDE DEF a
<1>8. \A b \in Node : match[b] \in Nat /\ match[b] <= Len(log[w])
  BY <1>1, <1>5, <1>6 DEF Leads, NobodyStoresMore, TypeOK, LeaderTypeOK
<1> HIDE DEF match
<1>9. matchIndex'[w] = match
  BY <1>1, <1>7 DEF TypeOK, LeaderTypeOK
<1>10. \A c \in {match[n] : n \in Node} : c \in Nat /\ c <= Len(log[w])
  BY <1>8
<1> QED
  BY <1>3, <1>7, <1>8, <1>9, <1>10

\* The commands that become ready are those up to the commit index.
LEMMA NoteMatchLeads ==
  ASSUME NEW w \in Node, NEW t \in Nat, Going(w, t), NEW i \in Node, NEW j \in Node,
         NoteMatch(i, j)
  PROVE  Leads(w)'
<1>1. /\ TypeOK /\ EntryInv /\ NoCallsToSelf /\ elected = {<<w, t>>}
      /\ Leads(w) /\ WithWinner(w, t)'
  BY GoingFacts DEF Going
<1>2. /\ i = w /\ role'[w] = "leader" /\ log' = log /\ calls' = calls
      /\ answers[i][j] # <<>> /\ Consume(i, j)
  BY MatchMoves DEF NoteMatch, raftVars, logVars
<1>3. PICK c \in Nat, n \in 0..Len(tasks[w]) :
        /\ c <= Len(log[w])
        /\ ReadyTasks(tasks[w], c, n)
        /\ commitIndex' = [commitIndex EXCEPT ![w] = c]
        /\ executed' = [executed EXCEPT ![w] = @ \o Commands(SubSeq(tasks[w], 1, n))]
        /\ tasks' = [tasks EXCEPT ![w] = Remaining(@, n)]
  BY MatchMoves
<1> DEFINE q == tasks[w]
           done == Commands(SubSeq(q, 1, n))
           rest == Remaining(q, n)
<1>4. /\ q \in Seq(Task) /\ Len(q) \in Nat /\ DOMAIN q = 1..Len(q)
      /\ executed[w] \in Seq(Command) /\ Len(executed[w]) \in Nat
      /\ log[w] \in Seq(Entry) /\ Len(log[w]) \in Nat
  BY <1>1, LenProperties DEF TypeOK, ApplyTypeOK, LogTypeOK
<1>5. done \in Seq(Command) /\ Len(done) = n /\ n \in Nat
  <2> DEFINE u == SubSeq(q, 1, n)
  <2>1. u \in Seq(Task) /\ Len(u) = n
    BY <1>4, FirstTasks
  <2> HIDE DEF u
  <2>2. Commands(u) \in Seq(Command) /\ Len(Commands(u)) = Len(u)
    BY <2>1, CommandsLength DEF Task
  <2> QED
    BY <1>4, <2>1, <2>2 DEF u
<1>6. executed'[w] = executed[w] \o done /\ tasks'[w] = rest
  BY <1>1, <1>3 DEF TypeOK, ApplyTypeOK
<1> HIDE DEF done
<1>7. Len(executed'[w]) = Len(executed[w]) + n
  <2>1. Len(executed[w] \o done) = Len(executed[w]) + Len(done)
    BY <1>4, <1>5, ConcatProperties
  <2> QED
    BY <1>5, <1>6, <2>1
<1>8. Len(log[w]) = Len(executed[w]) + Len(q)
  BY <1>1, LogIsCounted
<1>9. QueueIsInOrder(w)'
  <2>1. \A k \in DOMAIN rest : n + k \in DOMAIN q /\ rest[k] = q[n + k] /\ k \in Nat \ {0}
    BY <1>4, TaskSplit
  <2>2. ASSUME NEW k \in DOMAIN rest PROVE rest[k].index = Len(executed[w]) + n + k
    <3>1. q[n + k].index = Len(executed[w]) + (n + k)
      BY <1>1, <2>1 DEF Leads, QueueIsInOrder
    <3>2. Len(executed[w]) + (n + k) = Len(executed[w]) + n + k
      BY <1>4, <1>5, <2>1
    <3> QED
      BY <2>1, <3>1, <3>2
  <2> HIDE DEF rest
  <2> QED
    BY <1>6, <1>7, <2>2 DEF QueueIsInOrder
<1>10. LogIsExecuted(w)'
  BY <1>1, <1>2 DEF WithWinner, LeaderExecutes, LogIsExecuted
<1>11. c <= Len(executed[w]) + n
  <2>1. CASE n < Len(q)
    <3>1. q[n + 1].index > c
      BY <1>3, <2>1 DEF ReadyTasks
    <3>2. n + 1 \in DOMAIN q
      BY <1>4, <1>5, <2>1
    <3>3. q[n + 1].index = Len(executed[w]) + (n + 1)
      BY <1>1, <3>2 DEF Leads, QueueIsInOrder
    <3> QED
      <4> DEFINE x == Len(executed[w])
      <4>1. x \in Nat /\ x + (n + 1) > c
        BY <1>4, <3>1, <3>3
      <4> HIDE DEF x
      <4>2. c <= x + n
        BY <1>5, <4>1
      <4> QED
        BY <4>2 DEF x
  <2>2. CASE ~(n < Len(q))
    <3> DEFINE x == Len(executed[w])
               y == Len(q)
               z == Len(log[w])
    <3>1. y \in Nat /\ x \in Nat /\ n \in 0..y /\ ~(n < y) /\ z = x + y /\ c <= z /\ c \in Nat
      BY <1>3, <1>4, <1>8, <2>2
    <3> HIDE DEF x, y, z
    <3>2. c <= x + n
      BY <3>1
    <3> QED
      BY <3>2 DEF x
  <2> HIDE DEF q
  <2> QED
    BY <2>1, <2>2
<1>12. NobodyCommitsMore(w)'
  <2>1. \A x \in Node : commitIndex'[x] <= Len(executed'[w])
    <3>1. \A x \in Node : commitIndex'[x] = IF x = w THEN c ELSE commitIndex[x]
      BY <1>1, <1>3 DEF TypeOK, ApplyTypeOK
    <3>2. \A x \in Node : commitIndex[x] \in Nat /\ commitIndex[x] <= Len(executed[w])
      BY <1>1 DEF Leads, NobodyCommitsMore, TypeOK, ApplyTypeOK
    <3>3. /\ Len(executed[w]) <= Len(executed'[w]) /\ c <= Len(executed'[w])
          /\ Len(executed[w]) \in Nat /\ Len(executed'[w]) \in Nat
      BY <1>4, <1>5, <1>7, <1>11
    <3> QED
      BY <3>1, <3>2, <3>3
  <2>2. \A a, b \in Node : \A k \in DOMAIN calls[a][b] : Tells(calls[a][b][k], Len(executed'[w]))
    <3> SUFFICES ASSUME NEW a \in Node, NEW b \in Node, NEW k \in DOMAIN calls[a][b],
                        calls[a][b][k].type # "vote"
                 PROVE  calls[a][b][k].commit <= Len(executed'[w])
      BY DEF Tells
    <3>1. calls[a][b][k].commit <= Len(executed[w])
      BY <1>1 DEF Leads, NobodyCommitsMore, Tells
    <3>2. calls[a][b][k] \in Call
      <4>1. calls[a][b] \in Seq(Call)
        BY <1>1 DEF TypeOK, NetTypeOK
      <4> QED
        BY <4>1, LenProperties, ElementOfSeq
    <3>3. calls[a][b][k].commit \in Nat
      BY <3>2 DEF Call, VoteCall, AppendCall, HeartbeatCall
    <3>4. /\ Len(executed[w]) \in Nat /\ Len(executed'[w]) \in Nat
          /\ Len(executed[w]) <= Len(executed'[w])
      BY <1>4, <1>5, <1>7
    <3> QED
      BY <3>1, <3>3, <3>4
  <2> QED
    BY <1>2, <2>1, <2>2 DEF NobodyCommitsMore
<1>13. NobodyStoresMore(w)'
  <2>1. \A b \in Node : matchIndex'[w][b] <= Len(log[w])
    BY MatchMoves
  <2>2. \A b \in Node : \A k \in DOMAIN answers'[w][b] :
          Acknowledges(answers'[w][b][k], Len(log[w]))
    BY <1>1, <1>2, ConsumedAnswers DEF Leads, NobodyStoresMore
  <2> QED
    BY <1>2, <2>1, <2>2 DEF NobodyStoresMore
<1> QED
  BY <1>9, <1>10, <1>12, <1>13 DEF Leads

LEMMA ProposeLeads ==
  ASSUME NEW w \in Node, NEW t \in Nat, Going(w, t), NEW i \in Node, NEW c \in Command,
         Propose(i, c)
  PROVE  Leads(w)'
<1> DEFINE l == log[i]
           index == LastIndex(l) + 1
           e == [term |-> currentTerm[i], index |-> index, command |-> c]
           new == Append(l, e)
           task == [index |-> index, command |-> c]
           m == [type |-> "append", term |-> currentTerm[i], prevIndex |-> PrevIndex(new),
                 prevTerm |-> PrevTerm(new), entries |-> <<e>>,
                 commit |-> commitIndex[i], live |-> TRUE]
           batch == [j \in Node |-> <<m>>]
<1>1. /\ TypeOK /\ EntryInv /\ NoCallsToSelf /\ elected = {<<w, t>>}
      /\ Leads(w) /\ WithWinner(w, t)'
  BY GoingFacts DEF Going
<1>2. /\ role[i] = "leader" /\ role' = role
      /\ log' = [log EXCEPT ![i] = new]
      /\ matchIndex' = [matchIndex EXCEPT ![i][i] = index]
      /\ tasks' = [tasks EXCEPT ![i] = Append(@, task)]
      /\ Broadcast(i, batch)
      /\ UNCHANGED <<commitIndex, executed, answers>>
  BY DEF Propose, raftVars
<1>3. i = w
  BY <1>1, <1>2, WinnerFacts
<1>4. l \in Seq(Entry) /\ Len(l) \in Nat /\ index = Len(l) + 1
  BY <1>1, LenProperties DEF TypeOK, LogTypeOK, LastIndex
<1>5. e \in Entry /\ task \in Task /\ task.index = Len(l) + 1
  BY <1>1, <1>4 DEF Entry, Task, TypeOK, RaftTypeOK
<1>6. m \in Call /\ m.commit = commitIndex[w]
  BY <1>1, <1>3, ProposedCallType
<1> HIDE DEF e, task, m
<1>7. log'[w] = new /\ Len(new) = Len(l) + 1
  BY <1>1, <1>2, <1>3, <1>4, <1>5, AppendProperties DEF TypeOK, LogTypeOK
<1> HIDE DEF new, index
<1>8. commitIndex[w] <= Len(executed[w])
  BY <1>1 DEF Leads, NobodyCommitsMore
<1>9. /\ tasks[w] \in Seq(Task) /\ Len(tasks[w]) \in Nat /\ DOMAIN tasks[w] = 1..Len(tasks[w])
      /\ executed[w] \in Seq(Command) /\ Len(executed[w]) \in Nat
  BY <1>1, LenProperties DEF TypeOK, ApplyTypeOK
<1>10. Len(l) = Len(executed[w]) + Len(tasks[w])
  BY <1>1, <1>3, LogIsCounted
<1>11. QueueIsInOrder(w)'
  <2>1. tasks'[w] = Append(tasks[w], task)
    BY <1>1, <1>2, <1>3 DEF TypeOK, ApplyTypeOK
  <2> DEFINE longer == Append(tasks[w], task)
  <2>2. /\ DOMAIN longer = 1..(Len(tasks[w]) + 1)
        /\ \A k \in 1..Len(tasks[w]) : longer[k] = tasks[w][k]
        /\ longer[Len(tasks[w]) + 1] = task
    BY <1>5, <1>9, AppendProperties, LenProperties
  <2> HIDE DEF longer
  <2>3. ASSUME NEW k \in DOMAIN longer PROVE longer[k].index = Len(executed[w]) + k
    <3>1. CASE k \in 1..Len(tasks[w])
      <4>1. k \in DOMAIN tasks[w] /\ longer[k] = tasks[w][k]
        BY <1>9, <2>2, <3>1
      <4>2. tasks[w][k].index = Len(executed[w]) + k
        BY <1>1, <4>1 DEF Leads, QueueIsInOrder
      <4> QED
        BY <4>1, <4>2
    <3>2. CASE k = Len(tasks[w]) + 1
      <4>1. longer[k] = task
        BY <2>2, <3>2
      <4>2. Len(l) + 1 = Len(executed[w]) + k
        <5> DEFINE x == Len(l)
                   y == Len(executed[w])
                   z == Len(tasks[w])
        <5>1. y \in Nat /\ z \in Nat /\ x = y + z /\ k = z + 1
          BY <1>9, <1>10, <3>2
        <5> HIDE DEF x, y, z
        <5>2. x + 1 = y + k
          BY <5>1
        <5> QED
          BY <5>2 DEF x, y
      <4> QED
        BY <1>5, <4>1, <4>2
    <3> QED
      BY <1>9, <2>2, <3>1, <3>2
  <2> QED
    BY <1>2, <2>1, <2>3 DEF QueueIsInOrder, longer
<1>12. LogIsExecuted(w)'
  BY <1>1, <1>2, <1>3 DEF WithWinner, LeaderExecutes, LogIsExecuted
<1>13. NobodyCommitsMore(w)'
  <2>1. \A b \in Node : batch[b] \in Seq(Call)
                          /\ \A k \in DOMAIN batch[b] : Tells(batch[b][k], Len(executed[w]))
    BY <1>6, <1>8 DEF Tells
  <2> HIDE DEF batch
  <2>2. \A a, b \in Node : \A k \in DOMAIN calls'[a][b] : Tells(calls'[a][b][k], Len(executed[w]))
    BY <1>1, <1>2, <2>1, BroadcastLeads DEF Leads, NobodyCommitsMore
  <2> QED
    BY <1>1, <1>2, <2>2 DEF Leads, NobodyCommitsMore
<1>14. NobodyStoresMore(w)'
  <2>1. \A b \in Node : matchIndex[w][b] \in Nat /\ matchIndex[w][b] <= Len(l)
    BY <1>1, <1>3 DEF Leads, NobodyStoresMore, TypeOK, LeaderTypeOK
  <2>2. \A b \in Node : matchIndex'[w][b] = IF b = w THEN Len(l) + 1 ELSE matchIndex[w][b]
    BY <1>1, <1>2, <1>3, <1>4 DEF TypeOK, LeaderTypeOK
  <2>3. \A b \in Node : matchIndex'[w][b] <= Len(log'[w])
    BY <1>4, <1>7, <2>1, <2>2
  <2>4. ASSUME NEW b \in Node, NEW k \in DOMAIN answers[w][b]
        PROVE  Acknowledges(answers[w][b][k], Len(log'[w]))
    <3> SUFFICES ASSUME answers[w][b][k].type = "append", answers[w][b][k].success
                 PROVE  answers[w][b][k].last <= Len(log'[w])
      BY DEF Acknowledges
    <3>1. answers[w][b][k].last <= Len(l)
      BY <1>1, <1>3 DEF Leads, NobodyStoresMore, Acknowledges
    <3>2. answers[w][b][k] \in Answer
      <4>1. answers[w][b] \in Seq(Answer)
        BY <1>1 DEF TypeOK, NetTypeOK
      <4> QED
        BY <4>1, LenProperties, ElementOfSeq
    <3>3. answers[w][b][k].last \in Nat
      BY <3>2, AppendAnswerType DEF AppendAnswer
    <3> QED
      BY <1>4, <1>7, <3>1, <3>3
  <2> QED
    BY <1>2, <2>3, <2>4 DEF NobodyStoresMore
<1> QED
  BY <1>11, <1>12, <1>13, <1>14 DEF Leads

LEMMA ClientLeads ==
  ASSUME NEW w \in Node, NEW t \in Nat, Going(w, t), NEW c \in Command,
         (\E i \in Node : Redirect(i, c)) \/ LoseClient(c) \/ UNCHANGED vars
  PROVE  Leads(w)'
<1>1. Leads(w)
  BY DEF Going
<1>2. UNCHANGED <<log, tasks, executed, commitIndex, matchIndex, calls, answers>>
  BY DEF Redirect, LoseClient, vars, logVars, applyVars, leaderVars, netVars
<1> QED
  BY <1>1, <1>2, LeadsOn DEF Leads, NobodyCommitsMore, NobodyStoresMore

-----------------------------------------------------------------------------
(* The inductive invariant. *)

\* A step into an undisturbed state is no disturbance.
LEMMA NoFaults ==
  ASSUME TypeOK, Undisturbed', NEW i \in Node
  PROVE  ~Restart(i) /\ (\A j \in Node : ~Fault(i, j)) /\ \A c \in Command : ~FailPropose(i, c)
<1>1. /\ faults \in [cuts : Nat, restarts : Nat, writeErrors : Nat]
      /\ faults'.restarts = 0 /\ faults'.cuts = 0 /\ faults'.writeErrors = 0
  BY DEF TypeOK, FaultTypeOK, Undisturbed
<1>2. ~Restart(i)
  BY <1>1 DEF Restart
<1>3. \A j \in Node : ~Fault(i, j)
  BY <1>1 DEF Fault, Cut, FailAppend
<1>4. \A c \in Command : ~FailPropose(i, c)
  BY <1>1 DEF FailPropose
<1> QED
  BY <1>2, <1>3, <1>4

LEMMA OnlyFaultsCount ==
  ASSUME TypeOK, Undisturbed', [Next]_vars
  PROVE  faults' = faults
<1>1. ASSUME NEW i \in Node, ElectionTimeout(i) \/ HeartbeatTick(i)
      PROVE  faults' = faults
  BY <1>1 DEF ElectionTimeout, HeartbeatTick
<1>2. ASSUME NEW i \in Node, NEW j \in Node, HandleCall(i, j)
      PROVE  faults' = faults
  BY <1>2 DEF HandleCall, RefuseStaleVote, AnswerVote, RefuseStaleAppend, AcceptHeartbeat,
    RefuseGap, AcceptEntries
<1>3. ASSUME NEW i \in Node, NEW j \in Node, HandleAnswer(i, j)
      PROVE  faults' = faults
  BY <1>3 DEF HandleAnswer, IgnoreAnswer, StepDown, CountVote, BecomeLeader, NoteConflict,
    NoteMatch
<1>4. ASSUME NEW c \in Command, (\E i \in Node : Client(i, c)) \/ LoseClient(c)
      PROVE  faults' = faults
  BY <1>4 DEF Client, Redirect, Propose, LoseClient
<1>5. UNCHANGED vars => faults' = faults
  BY DEF vars
<1> QED
  BY <1>1, <1>2, <1>3, <1>4, <1>5, NoFaults DEF Next

LEMMA WasUndisturbed ==
  ASSUME EntryInv, Undisturbed', [Next]_vars
  PROVE  Undisturbed /\ elected \subseteq elected'
<1>1. TypeOK /\ ElectionInv
  BY DEF EntryInv, ElectionInv
<1>2. faults' = faults
  BY <1>1, OnlyFaultsCount
<1>3. elected \subseteq elected'
  BY <1>1, WinsOnlyGrow, WinIsNew
<1> QED
  BY <1>2, <1>3 DEF Undisturbed, OneWin

LEMMA GoingLeads ==
  ASSUME NEW w \in Node, NEW t \in Nat, Going(w, t), [Next]_vars
  PROVE  Leads(w)'
<1>1. TypeOK /\ ElectionInv /\ Undisturbed' /\ elected' = elected
  BY GoingFacts DEF Going, EntryInv
<1>2. ASSUME NEW i \in Node, ElectionTimeout(i) \/ HeartbeatTick(i)
      PROVE  Leads(w)'
  BY <1>2, ElectionTimeoutLeads, HeartbeatTickLeads
<1>3. ASSUME NEW i \in Node, NEW j \in Node, HandleCall(i, j)
      PROVE  Leads(w)'
  BY <1>3, RequestLeads, FollowerLeads DEF HandleCall
<1>4. ASSUME NEW i \in Node, NEW j \in Node, HandleAnswer(i, j)
      PROVE  Leads(w)'
  <2>1. ~BecomeLeader(i, j)
    BY <1>1, WinIsNew
  <2> QED
    BY <1>4, <2>1, AnswerLeads, NoteMatchLeads DEF HandleAnswer
<1>5. ASSUME NEW i \in Node, NEW c \in Command, Client(i, c)
      PROVE  Leads(w)'
  BY <1>5, ProposeLeads, ClientLeads DEF Client
<1>6. ASSUME NEW c \in Command, LoseClient(c)
      PROVE  Leads(w)'
  BY <1>6, ClientLeads
<1>7. ASSUME UNCHANGED vars
      PROVE  Leads(w)'
  <2>1. UNCHANGED <<log, tasks, executed, commitIndex, matchIndex, calls, answers>>
    BY <1>7 DEF vars, logVars, applyVars, leaderVars, netVars
  <2> QED
    BY <2>1, LeadsOn DEF Going, Leads, NobodyCommitsMore, NobodyStoresMore
<1> QED
  BY <1>1, <1>2, <1>3, <1>4, <1>5, <1>6, <1>7, NoFaults DEF Next

\* The first leader finds empty logs, and nobody has acknowledged anything.
LEMMA FirstLeads ==
  ASSUME EntryInv, NothingYet, NobodyMatches, elected = {},
         NEW w \in Node, NEW j \in Node, BecomeLeader(w, j)
  PROVE  Leads(w)'
<1>1. TypeOK
  BY DEF EntryInv, ElectionInv
<1>2. /\ UNCHANGED <<log, tasks, executed, commitIndex, calls, matchIndex>>
      /\ answers[w][j] # <<>> /\ Consume(w, j)
  BY DEF BecomeLeader, applyVars
<1>3. /\ \A n \in Node : commitIndex'[n] = 0 /\ matchIndex'[w][n] = 0
      /\ log'[w] = <<>> /\ tasks'[w] = <<>> /\ executed'[w] = <<>>
  BY <1>2 DEF NothingYet, NobodyMatches
<1>4. \A n \in Node : NoAppends(answers'[w][n])
  <2>1. \A n \in Node : NoAppends(answers[w][n])
    BY DEF NothingYet, NoAppends
  <2> QED
    BY <1>1, <1>2, <2>1, ConsumedNoAppends
<1>5. \A a, b \in Node : \A k \in DOMAIN calls'[a][b] : calls'[a][b][k].type = "vote"
  BY <1>2, NoWinnerFacts
<1>6. /\ Commands(<<>>) = <<>> /\ Len(<<>>) = 0 /\ DOMAIN <<>> = {}
      /\ <<>> = <<>> \o <<>>
  BY DEF Commands
<1>7. QueueIsInOrder(w)' /\ LogIsExecuted(w)'
  BY <1>3, <1>6 DEF QueueIsInOrder, LogIsExecuted
<1>8. NobodyCommitsMore(w)'
  BY <1>3, <1>5, <1>6 DEF NobodyCommitsMore, Tells
<1>9. NobodyStoresMore(w)'
  BY <1>3, <1>4, <1>6 DEF NobodyStoresMore, Acknowledges, NoAppends
<1> QED
  BY <1>7, <1>8, <1>9 DEF Leads

LEMMA StillNobodyMatches ==
  ASSUME EntryInv, NobodyMatches, elected = {}, [Next]_vars
  PROVE  NobodyMatches'
<1>1. TypeOK
  BY DEF EntryInv, ElectionInv
<1>2. ASSUME NEW i \in Node, ElectionTimeout(i) \/ HeartbeatTick(i) \/ Restart(i)
      PROVE  NobodyMatches'
  <2>1. \/ matchIndex' = matchIndex
        \/ matchIndex' = [matchIndex EXCEPT ![i] = [j \in Node |-> 0]]
    BY <1>2 DEF ElectionTimeout, HeartbeatTick, Restart, leaderVars
  <2>2. matchIndex \in [Node -> [Node -> Nat]]
    BY <1>1 DEF TypeOK, LeaderTypeOK
  <2>3. \A a, b \in Node : matchIndex'[a][b] = 0
    BY <2>1, <2>2 DEF NobodyMatches
  <2> QED
    BY <2>3 DEF NobodyMatches
<1>3. ASSUME NEW i \in Node, NEW j \in Node, HandleCall(i, j) \/ Fault(i, j)
      PROVE  matchIndex' = matchIndex
  BY <1>3 DEF HandleCall, RefuseStaleVote, AnswerVote, RefuseStaleAppend, AcceptHeartbeat,
    RefuseGap, AcceptEntries, Fault, Cut, FailAppend, leaderVars
<1>4. ASSUME NEW i \in Node, NEW j \in Node, HandleAnswer(i, j)
      PROVE  matchIndex' = matchIndex
  BY <1>4, NoWinnerFacts DEF HandleAnswer, IgnoreAnswer, StepDown, CountVote, BecomeLeader,
    NoteConflict, NoteMatch, leaderVars
<1>5. ASSUME NEW i \in Node, NEW c \in Command, Client(i, c) \/ FailPropose(i, c)
      PROVE  matchIndex' = matchIndex
  BY <1>5, NoWinnerFacts DEF Client, Redirect, Propose, FailPropose, leaderVars
<1>6. ASSUME NEW c \in Command, LoseClient(c)
      PROVE  matchIndex' = matchIndex
  BY <1>6 DEF LoseClient, leaderVars
<1>7. UNCHANGED vars => matchIndex' = matchIndex
  BY DEF vars, leaderVars
<1>8. matchIndex' = matchIndex => NobodyMatches'
  BY DEF NobodyMatches
<1> QED
  BY <1>2, <1>3, <1>4, <1>5, <1>6, <1>7, <1>8 DEF Next

\* Only a client that sent a command leaves, and only clients send.
LEMMA ClientsMove ==
  ASSUME [Next]_vars
  PROVE  \/ UNCHANGED <<issued, gone>>
         \/ \E c \in Command : /\ issued' = issued \union {c} /\ gone' = gone
                               /\ \E i \in Node : Client(i, c) \/ FailPropose(i, c)
         \/ \E c \in issued : /\ issued' = issued /\ gone' = gone \union {c}
                              /\ LoseClient(c)
<1>1. ASSUME NEW i \in Node, ElectionTimeout(i) \/ HeartbeatTick(i) \/ Restart(i)
      PROVE  UNCHANGED <<issued, gone>>
  BY <1>1 DEF ElectionTimeout, HeartbeatTick, Restart, clientVars
<1>2. ASSUME NEW i \in Node, NEW j \in Node, HandleCall(i, j) \/ Fault(i, j)
      PROVE  UNCHANGED <<issued, gone>>
  BY <1>2 DEF HandleCall, RefuseStaleVote, AnswerVote, RefuseStaleAppend, AcceptHeartbeat,
    RefuseGap, AcceptEntries, Fault, Cut, FailAppend, clientVars
<1>3. ASSUME NEW i \in Node, NEW j \in Node, HandleAnswer(i, j)
      PROVE  UNCHANGED <<issued, gone>>
  BY <1>3 DEF HandleAnswer, IgnoreAnswer, StepDown, CountVote, BecomeLeader, NoteConflict,
    NoteMatch, clientVars
<1>4. ASSUME NEW i \in Node, NEW c \in Command, Client(i, c) \/ FailPropose(i, c)
      PROVE  issued' = issued \union {c} /\ gone' = gone
  BY <1>4 DEF Client, Redirect, Propose, FailPropose
<1>5. ASSUME NEW c \in Command, LoseClient(c)
      PROVE  c \in issued /\ issued' = issued /\ gone' = gone \union {c}
  BY <1>5 DEF LoseClient
<1>6. UNCHANGED vars => UNCHANGED <<issued, gone>>
  BY DEF vars, clientVars
<1> QED
  BY <1>1, <1>2, <1>3, <1>4, <1>5, <1>6 DEF Next

LEMMA NextLeadInv == LeadInv /\ [Next]_vars => LeadInv'
<1> SUFFICES ASSUME LeadInv, [Next]_vars PROVE LeadInv'
  OBVIOUS
<1>1. SteadyInv /\ SteadyInv' /\ EntryInv /\ ElectionInv /\ NoCallsToSelf
  BY NextSteadyInv DEF LeadInv, SteadyInv, EntryInv
<1>2. gone' \subseteq issued'
  BY ClientsMove DEF LeadInv
<1>3. elected \subseteq elected'
  BY <1>1, WinsOnlyGrow, WinIsNew
<1>4. elected' = {} => NobodyMatches'
  BY <1>1, <1>3, StillNobodyMatches DEF LeadInv
<1>5. ASSUME Undisturbed', NEW w \in Node, NEW t \in Nat, elected' = {<<w, t>>}
      PROVE  Leads(w)'
  <2>1. Undisturbed
    BY <1>1, <1>5, WasUndisturbed
  <2>2. CASE elected' = elected
    <3>1. Before(w, t) /\ Leads(w)
      BY <1>1, <1>5, <2>1, <2>2 DEF Before, SteadyInv, LeadInv
    <3> QED
      BY <1>1, <1>5, <2>1, <2>2, <3>1, GoingLeads DEF Going
  <2>3. CASE elected' # elected
    <3>1. PICK i, j \in Node : BecomeLeader(i, j)
      BY <2>3, WinsOnlyGrow
    <3>2. /\ <<i, currentTerm[i]>> \notin elected
          /\ elected' = elected \union {<<i, currentTerm[i]>>}
      BY <1>1, <3>1, WinIsNew
    <3>3. elected = {} /\ i = w
      BY <1>5, <3>2
    <3> QED
      BY <1>1, <3>1, <3>3, FirstLeads DEF SteadyInv, LeadInv
  <2> QED
    BY <2>2, <2>3
<1> QED
  BY <1>1, <1>2, <1>4, <1>5 DEF LeadInv

LEMMA InitLeadInv == Init => LeadInv
<1> SUFFICES ASSUME Init PROVE LeadInv
  OBVIOUS
<1>1. SteadyInv
  BY InitSteadyInv
<1>2. elected = {} /\ gone = {} /\ NobodyMatches
  BY DEF Init, NobodyMatches
<1> QED
  BY <1>1, <1>2 DEF LeadInv

\* As long as nothing is lost, refused, restarted or overtaken, the one leader is ahead: what
\* it has executed and what waits in tasks_ are its log, and no member commits, or is told to
\* commit, more than the leader has executed (raft_node.cpp:600-622, state_machine.cpp:34-73).
THEOREM LeaderIsAhead == Spec => []LeadInv
BY InitLeadInv, NextLeadInv, PTL DEF Spec

-----------------------------------------------------------------------------
(* The order of the cluster is the order of its leader. *)

\* The leader has executed all there is, the others begin like it.
OrderedBy(w) ==
  /\ Order = executed[w]
  /\ \A i \in Node \ {w} : /\ lastApplied[i] \in 0..Len(executed[w])
                           /\ Len(executed[i]) = lastApplied[i]
                           /\ executed[i] = SubSeq(executed[w], 1, lastApplied[i])

NothingOrdered == Order = <<>> /\ \A i \in Node : executed[i] = <<>>

HasOrder ==
  /\ elected = {} => NothingOrdered
  /\ Undisturbed => \A w \in Node, t \in Nat : elected = {<<w, t>>} => OrderedBy(w)

LEMMA FollowersBegin ==
  ASSUME LeadInv, Undisturbed, NEW w \in Node, NEW t \in Nat, elected = {<<w, t>>},
         NEW i \in Node \ {w}
  PROVE  /\ lastApplied[i] \in 0..Len(executed[w])
         /\ Len(executed[i]) = lastApplied[i]
         /\ executed[i] = SubSeq(executed[w], 1, lastApplied[i])
<1> DEFINE n == lastApplied[i]
           l == log[i]
           u == log[w]
           a == executed[i]
           b == executed[w]
           s == SubSeq(l, 1, n)
<1>1. /\ TypeOK /\ WinnerHolds(w) /\ Straight(l) /\ NobodyAhead(w) /\ FollowersExecute(w)
      /\ LogIsExecuted(w) /\ NobodyCommitsMore(w) /\ faults.restarts = 0
  BY DEF LeadInv, SteadyInv, EntryInv, ElectionInv, WithWinner, NothingMissing, Leads,
    Undisturbed
<1>2. /\ l \in Seq(Entry) /\ u \in Seq(Entry) /\ a \in Seq(Command) /\ b \in Seq(Command)
      /\ n \in Nat /\ tasks[w] \in Seq(Task) /\ commitIndex[i] \in Nat
  BY <1>1 DEF TypeOK, LogTypeOK, ApplyTypeOK
<1>3. Len(l) \in Nat /\ Len(b) \in Nat /\ DOMAIN l = 1..Len(l) /\ DOMAIN b = 1..Len(b)
  BY <1>2, LenProperties
<1>4. n <= Len(l) /\ n <= Len(b)
  <2>1. n <= commitIndex[i] /\ commitIndex[i] <= Len(l)
    BY <1>1 DEF NobodyAhead
  <2>2. commitIndex[i] <= Len(b)
    BY <1>1 DEF NobodyCommitsMore
  <2> HIDE DEF l, b, n
  <2> QED
    BY <1>2, <1>3, <2>1, <2>2
<1>5. a = Commands(s)
  BY <1>1 DEF FollowersExecute
<1>6. \A k \in DOMAIN l : u[k] = l[k] /\ k \in DOMAIN u
  BY <1>1, StraightIsPrefix
<1>7. Commands(u) = b \o Commands(tasks[w])
  BY <1>1 DEF LogIsExecuted
<1>8. Commands(tasks[w]) \in Seq(Command) /\ \A e \in Entry : e.command \in Command
  BY <1>2, CommandsLength DEF Task, Entry
<1> HIDE DEF n, l, u, a, b
<1>9. n \in 0..Len(l) /\ n \in 0..Len(b)
  BY <1>2, <1>3, <1>4
<1>10. s \in Seq(Entry) /\ Len(s) = n /\ \A k \in 1..n : s[k] = l[k]
  BY <1>2, <1>9, FirstTasks
<1> HIDE DEF s
<1>11. Len(a) = n
  BY <1>5, <1>8, <1>10, CommandsLength
<1>12. \A k \in 1..n : a[k] = b[k]
  <2> SUFFICES ASSUME NEW k \in 1..n PROVE a[k] = b[k]
    OBVIOUS
  <2>1. k \in DOMAIN s /\ k \in DOMAIN l /\ k \in 1..Len(b)
    BY <1>2, <1>3, <1>9, <1>10, LenProperties
  <2>2. a[k] = l[k].command
    BY <1>5, <1>10, <2>1 DEF Commands
  <2>3. u[k] = l[k] /\ k \in DOMAIN u
    BY <1>6, <2>1
  <2>4. Commands(u)[k] = u[k].command
    BY <2>3 DEF Commands
  <2>5. (b \o Commands(tasks[w]))[k] = b[k]
    <3> DEFINE v == Commands(tasks[w])
    <3>1. v \in Seq(Command) /\ Len(v) \in Nat
      BY <1>8, LenProperties
    <3> HIDE DEF v
    <3>2. k \in 1..(Len(b) + Len(v)) /\ k <= Len(b)
      BY <1>3, <2>1, <3>1
    <3>3. (b \o v)[k] = b[k]
      BY <1>2, <3>1, <3>2, ConcatProperties
    <3> QED
      BY <3>3 DEF v
  <2> QED
    BY <1>7, <2>2, <2>3, <2>4, <2>5
<1>13. /\ SubSeq(b, 1, n) \in Seq(Command) /\ Len(SubSeq(b, 1, n)) = n
       /\ \A k \in 1..n : SubSeq(b, 1, n)[k] = b[k]
  BY <1>2, <1>9, FirstTasks
<1>14. a = SubSeq(b, 1, n)
  BY <1>2, <1>11, <1>12, <1>13, SeqEqual
<1> QED
  BY <1>9, <1>11, <1>14 DEF n, a, b

LEMMA ClusterHasOrder == LeadInv => HasOrder
<1> SUFFICES ASSUME LeadInv PROVE HasOrder
  OBVIOUS
<1>1. ASSUME elected = {} PROVE NothingOrdered
  <2>1. \A i \in Node : executed[i] = <<>>
    BY <1>1 DEF LeadInv, SteadyInv, NothingYet
  <2>2. Order = <<>>
    <3>1. \A i, j \in Node : Len(executed[j]) <= Len(executed[i])
      BY <2>1
    <3> QED
      BY <2>1, <3>1, NodeExists DEF Order
  <2> QED
    BY <2>1, <2>2 DEF NothingOrdered
<1>2. ASSUME Undisturbed, NEW w \in Node, NEW t \in Nat, elected = {<<w, t>>}
      PROVE  OrderedBy(w)
  <2> DEFINE Longest(i) == \A j \in Node : Len(executed[j]) <= Len(executed[i])
  <2>1. \A i \in Node \ {w} : /\ lastApplied[i] \in 0..Len(executed[w])
                              /\ Len(executed[i]) = lastApplied[i]
                              /\ executed[i] = SubSeq(executed[w], 1, lastApplied[i])
    BY <1>2, FollowersBegin
  <2>2. executed[w] \in Seq(Command) /\ Len(executed[w]) \in Nat
    BY LenProperties DEF LeadInv, SteadyInv, EntryInv, ElectionInv, TypeOK, ApplyTypeOK
  <2>3. Longest(w)
    BY <2>1, <2>2
  <2>4. ASSUME NEW i \in Node, Longest(i) PROVE executed[i] = executed[w]
    <3>1. CASE i # w
      <4>1. lastApplied[i] = Len(executed[w])
        BY <2>1, <2>2, <2>4, <3>1
      <4> QED
        BY <2>1, <2>2, <3>1, <4>1, SubSeqFull
    <3> QED
      BY <3>1
  <2>5. Order = executed[CHOOSE i \in Node : Longest(i)]
    BY DEF Order
  <2> HIDE DEF Longest
  <2>6. Order = executed[w]
    BY <2>3, <2>4, <2>5
  <2> QED
    BY <2>1, <2>6 DEF OrderedBy
<1> QED
  BY <1>1, <1>2 DEF HasOrder

\* A sequence without repetitions is one of the permutations.
LEMMA DistinctIsPermutation ==
  ASSUME NEW S, NEW s \in Seq(S), IsInjective(s)
  PROVE  s \in SetToAllKPermutations(S)
<1> DEFINE T == ToSet(s)
           n == Len(s)
<1>1. n \in Nat /\ DOMAIN s = 1..n /\ T \subseteq S /\ s \in [1..n -> T]
  BY ElementsType, LenProperties DEF ToSet
<1>2. s \in Bijection(1..n, T)
  BY <1>1 DEF Bijection, Injection, Surjection, IsInjective, ToSet
<1>3. Cardinality(T) = n
  <2>1. ExistsBijection(1..n, T)
    BY <1>2 DEF ExistsBijection
  <2> HIDE DEF n, T
  <2> QED
    BY <1>1, <2>1, FS_CountingElements
<1>4. s \in SetToSeqs(T)
  <2>1. \A i, j \in 1..n : i # j => s[i] # s[j]
    BY <1>1 DEF IsInjective
  <2> QED
    BY <1>1, <1>3, <2>1 DEF SetToSeqs
<1> QED
  BY <1>1, <1>4 DEF SetToAllKPermutations

-----------------------------------------------------------------------------
(* Steps of the cluster are steps of the replicated log. *)

\* A step that executes nothing leaves the order alone.
LEMMA OrderStays ==
  ASSUME LeadInv, LeadInv', [Next]_vars, Undisturbed', executed' = executed
  PROVE  Order' = Order
<1>1. HasOrder /\ HasOrder'
  <2>1. LeadInv'
    OBVIOUS
  <2> QED
    BY <2>1, ClusterHasOrder, PTL
<1>2. Undisturbed /\ elected \subseteq elected' /\ OneWin' /\ elected' \subseteq Node \X Nat
  BY WasUndisturbed DEF LeadInv, SteadyInv, EntryInv, ElectionInv, TypeOK, HistoryTypeOK,
    Undisturbed
<1>3. CASE elected' = {}
  BY <1>1, <1>2, <1>3 DEF HasOrder, NothingOrdered
<1>4. CASE elected' # {}
  <2>1. PICK w \in Node, t \in Nat : elected' = {<<w, t>>}
    <3>1. PICK e \in elected' : e \in Node \X Nat
      BY <1>2, <1>4
    <3>2. elected' = {e}
      BY <1>2, <3>1 DEF OneWin
    <3> QED
      BY <3>1, <3>2
  <2>2. Order' = executed'[w]
    BY <1>1, <2>1 DEF HasOrder, OrderedBy
  <2>3. Order = executed[w]
    <3>1. CASE elected = {}
      BY <1>1, <3>1 DEF HasOrder, NothingOrdered
    <3>2. CASE elected # {}
      <4>1. elected = {<<w, t>>}
        BY <1>2, <2>1, <3>2
      <4> QED
        BY <1>1, <1>2, <4>1 DEF HasOrder, OrderedBy
    <3> QED
      BY <3>1, <3>2
  <2> QED
    BY <2>2, <2>3
<1> QED
  BY <1>3, <1>4

\* Clients of which nothing is known that was not known before.
SameClients == UNCHANGED <<issued, gone, replies>>

LEMMA SilentStep ==
  ASSUME LeadInv, LeadInv', [Next]_vars, Undisturbed', executed' = executed, SameClients
  PROVE  [Promised!Next]_(Promised!vars)
<1>1. Order' = Order
  BY OrderStays
<1>2. \A c \in Command : ClientOf(c)' = ClientOf(c)
  BY DEF SameClients, ClientOf
<1> QED
  BY <1>1, <1>2 DEF Promised!vars

\* A client is told at once where the leader is, or its command waits, or it leaves.
LEMMA ClientStep ==
  ASSUME LeadInv, LeadInv', [Next]_vars, Undisturbed', NEW c \in Command,
         (\E i \in Node : Client(i, c)) \/ LoseClient(c)
  PROVE  [Promised!Next]_(Promised!vars)
<1>1. TypeOK /\ EntryInv /\ gone \subseteq issued
  BY DEF LeadInv, SteadyInv, EntryInv, ElectionInv
<1>2. executed' = executed
  BY DEF Client, Redirect, Propose, LoseClient, applyVars
<1>3. Order' = Order
  BY <1>2, OrderStays
<1>4. replies \in [Command -> Seq(Reply)]
  BY <1>1 DEF TypeOK, ClientTypeOK
<1> DEFINE client == [d \in Command |-> ClientOf(d)]
<1>5. ASSUME NEW i \in Node, Redirect(i, c)
      PROVE  Promised!Refuse(c)
  <2> DEFINE r == [kind |-> "redirect", to |-> leaderId[i]]
  <2>1. /\ c \notin issued /\ issued' = issued \union {c} /\ gone' = gone
        /\ replies' = [replies EXCEPT ![c] = Append(@, r)]
    BY <1>5 DEF Redirect, IsNext, ReplyTo
  <2>2. replies[c] = <<>>
    BY <1>1, <2>1 DEF EntryInv, RepliesAreHonest
  <2>3. replies'[c] # <<>> /\ Last(replies'[c]).kind # "applied"
    <3> HIDE DEF r
    <3>1. replies'[c] = <<r>>
      BY <1>4, <2>1, <2>2
    <3> QED
      BY <3>1 DEF Last, r
  <2>4. ClientOf(c) = "idle" /\ ClientOf(c)' = "refused"
    BY <2>1, <2>3 DEF ClientOf
  <2>5. \A d \in Command \ {c} : ClientOf(d)' = ClientOf(d)
    BY <1>4, <2>1 DEF ClientOf
  <2> QED
    BY <1>2, <1>3, <2>4, <2>5 DEF Promised!Refuse
<1>6. ASSUME NEW i \in Node, Propose(i, c)
      PROVE  Promised!Submit(c)
  <2>1. /\ c \notin issued /\ issued' = issued \union {c} /\ gone' = gone
        /\ replies' = replies
    BY <1>6 DEF Propose, IsNext
  <2>2. replies[c] = <<>> /\ c \notin gone
    BY <1>1, <2>1 DEF EntryInv, RepliesAreHonest
  <2>3. ClientOf(c) = "idle" /\ ClientOf(c)' = "waiting"
    BY <2>1, <2>2 DEF ClientOf
  <2>4. \A d \in Command \ {c} : ClientOf(d)' = ClientOf(d)
    BY <2>1 DEF ClientOf
  <2> QED
    BY <1>2, <1>3, <2>3, <2>4 DEF Promised!Submit
<1>7. ASSUME LoseClient(c)
      PROVE  Promised!Leave(c)
  <2>1. /\ c \in issued \ gone /\ replies[c] = <<>>
        /\ issued' = issued /\ gone' = gone \union {c} /\ replies' = replies
    BY <1>7 DEF LoseClient
  <2>2. ClientOf(c) = "waiting" /\ ClientOf(c)' = "gone"
    BY <2>1 DEF ClientOf
  <2>3. \A d \in Command \ {c} : ClientOf(d)' = ClientOf(d)
    BY <2>1 DEF ClientOf
  <2> QED
    BY <1>2, <1>3, <2>2, <2>3 DEF Promised!Leave
<1> QED
  BY <1>5, <1>6, <1>7 DEF Client, Promised!Next

\* Before anybody leads there are only requests for votes.
LEMMA NoLeaderStep ==
  ASSUME LeadInv, elected = {}, NEW i \in Node, NEW j \in Node
  PROVE  ~AcceptHeartbeat(i, j) /\ ~AcceptEntries(i, j) /\ ~NoteMatch(i, j)
<1>1. /\ role[i] # "leader"
      /\ \A k \in DOMAIN calls[j][i] : calls[j][i][k].type = "vote"
  BY NoWinnerFacts DEF LeadInv, SteadyInv
<1>2. \A k \in Arrived(j, i) : calls[j][i][k].type = "vote"
  BY <1>1 DEF Arrived
<1> QED
  BY <1>1, <1>2 DEF AcceptHeartbeat, AcceptEntries, NoteMatch

\* The one leader, and what the steps into an undisturbed state do to it.
LEMMA OneLeader ==
  ASSUME LeadInv, LeadInv', Undisturbed', [Next]_vars, elected # {}, elected' = elected
  PROVE  \E w \in Node, t \in Nat : Going(w, t) /\ OrderedBy(w) /\ OrderedBy(w)'
<1>1. HasOrder /\ HasOrder'
  <2>1. LeadInv'
    OBVIOUS
  <2> QED
    BY <2>1, ClusterHasOrder, PTL
<1>2. /\ SteadyInv /\ SteadyInv' /\ EntryInv /\ NoCallsToSelf /\ Undisturbed
      /\ OneWin /\ elected \subseteq Node \X Nat
  BY WasUndisturbed DEF LeadInv, SteadyInv, EntryInv, ElectionInv, TypeOK, HistoryTypeOK,
    Undisturbed
<1>3. PICK w \in Node, t \in Nat : elected = {<<w, t>>}
  <2>1. PICK e \in elected : e \in Node \X Nat
    BY <1>2
  <2>2. elected = {e}
    BY <1>2, <2>1 DEF OneWin
  <2> QED
    BY <2>1, <2>2
<1>4. Going(w, t)
  BY <1>2, <1>3 DEF Going, Before, SteadyInv, LeadInv
<1>5. OrderedBy(w) /\ OrderedBy(w)'
  BY <1>1, <1>2, <1>3 DEF HasOrder
<1> QED
  BY <1>4, <1>5

\* A follower that takes a request executes what the leader has executed before it.
LEMMA FollowStep ==
  ASSUME LeadInv, LeadInv', [Next]_vars, Undisturbed', elected' = elected,
         NEW i \in Node, NEW j \in Node, AcceptHeartbeat(i, j) \/ AcceptEntries(i, j)
  PROVE  [Promised!Next]_(Promised!vars)
<1>1. PICK w \in Node, t \in Nat : Going(w, t) /\ OrderedBy(w) /\ OrderedBy(w)'
  BY NoLeaderStep, OneLeader
<1>2. /\ i # w /\ lastApplied'[i] >= lastApplied[i]
      /\ \A n \in Node \ {i} : executed'[n] = executed[n]
      /\ SameClients
  BY <1>1, FollowerMoves DEF SameClients
<1>3. /\ executed \in [Node -> Seq(Command)] /\ executed' \in [Node -> Seq(Command)]
      /\ lastApplied[i] \in Nat
  BY <1>1, GoingFacts DEF TypeOK, ApplyTypeOK
<1>4. Order = executed[w] /\ Order' = executed[w]
  BY <1>1, <1>2 DEF OrderedBy
<1> DEFINE n == lastApplied'[i]
<1>5. /\ Len(executed[i]) = lastApplied[i] /\ executed[i] = SubSeq(Order, 1, lastApplied[i])
      /\ n \in 0..Len(Order) /\ executed'[i] = SubSeq(Order, 1, n)
  BY <1>1, <1>2, <1>4 DEF OrderedBy
<1>6. \A c \in Command : ClientOf(c)' = ClientOf(c)
  BY <1>2 DEF SameClients, ClientOf
<1> HIDE DEF n
<1>7. CASE n = lastApplied[i]
  <2>1. executed'[i] = executed[i]
    BY <1>5, <1>7
  <2>2. executed' = executed
    BY <1>2, <1>3, <2>1
  <2> QED
    BY <1>2, <2>2, SilentStep
<1>8. CASE n # lastApplied[i]
  <2>1. Len(Order) \in Nat
    BY <1>3, <1>4, LenProperties
  <2>2. n \in Len(executed[i]) + 1..Len(Order)
    <3> DEFINE x == Len(Order)
               y == Len(executed[i])
    <3>1. x \in Nat /\ y \in Nat /\ n \in 0..x /\ n >= y /\ n # y
      BY <1>2, <1>3, <1>5, <1>8, <2>1 DEF n
    <3> HIDE DEF x, y
    <3>2. n \in y + 1..x
      BY <3>1
    <3> QED
      BY <3>2 DEF x, y
  <2>3. executed' = [executed EXCEPT ![i] = SubSeq(Order, 1, n)]
    BY <1>2, <1>3, <1>5
  <2>4. Promised!Follow(i)
    BY <1>4, <1>6, <2>2, <2>3 DEF Promised!Follow
  <2> QED
    BY <2>4 DEF Promised!Next
<1> QED
  BY <1>7, <1>8

\* The commands of the leader's log, and so the ones it has executed and the ones that wait,
\* are different.
LEMMA LeaderCommands ==
  ASSUME TypeOK, EntryInv, NEW w \in Node, Straight(log[w]), LogIsExecuted(w)
  PROVE  \A k \in DOMAIN tasks[w] : tasks[w][k].command \notin ToSet(executed[w])
<1> DEFINE l == log[w]
           a == executed[w]
           q == tasks[w]
           b == Commands(q)
<1>1. l \in Seq(Entry) /\ a \in Seq(Command) /\ q \in Seq(Task)
  BY DEF TypeOK, LogTypeOK, ApplyTypeOK
<1>2. b \in Seq(Command) /\ Len(b) = Len(q)
  BY <1>1, CommandsLength DEF Task
<1>3. /\ Len(a) \in Nat /\ DOMAIN a = 1..Len(a) /\ Len(q) \in Nat /\ DOMAIN q = 1..Len(q)
  BY <1>1, LenProperties
<1>4. \A k \in DOMAIN q : b[k] = q[k].command
  BY DEF Commands
<1>5. Commands(l) = a \o b
  BY DEF LogIsExecuted
<1>6. \A m, n \in DOMAIN l : l[m].command = l[n].command => m = n
  <2>1. \A k \in DOMAIN l : l[k] \in Held /\ l[k].index = k
    BY HeldEntries DEF ToSet, Straight
  <2> HIDE DEF l
  <2> QED
    BY <2>1 DEF EntryInv, HeldAreGenuine
<1> HIDE DEF l, a, q, b
<1>7. DOMAIN l = 1..(Len(a) + Len(q)) /\ \A k \in DOMAIN l : l[k].command = (a \o b)[k]
  <2>1. DOMAIN (a \o b) = 1..(Len(a) + Len(b))
    BY <1>1, <1>2, ConcatProperties, LenProperties
  <2>2. DOMAIN l = DOMAIN (a \o b) /\ \A k \in DOMAIN l : l[k].command = (a \o b)[k]
    BY <1>5 DEF Commands
  <2> QED
    BY <1>2, <2>1, <2>2
<1> SUFFICES ASSUME NEW k \in DOMAIN q, NEW p \in DOMAIN a, a[p] = q[k].command
             PROVE  FALSE
  BY DEF ToSet, a, q
<1>8. /\ p \in 1..(Len(a) + Len(b)) /\ p <= Len(a)
      /\ Len(a) + k \in 1..(Len(a) + Len(b)) /\ ~(Len(a) + k <= Len(a))
      /\ Len(a) + k - Len(a) = k /\ p # Len(a) + k
  <2> DEFINE x == Len(a)
             y == Len(b)
  <2>1. x \in Nat /\ y \in Nat /\ p \in 1..x /\ k \in 1..y
    BY <1>2, <1>3
  <2> HIDE DEF x, y
  <2>2. /\ p \in 1..(x + y) /\ p <= x
        /\ x + k \in 1..(x + y) /\ ~(x + k <= x) /\ x + k - x = k /\ p # x + k
    BY <2>1
  <2> QED
    BY <2>2 DEF x, y
<1>9. (a \o b)[p] = a[p] /\ (a \o b)[Len(a) + k] = b[k]
  BY <1>1, <1>2, <1>8, ConcatProperties
<1>10. l[p].command = l[Len(a) + k].command
  BY <1>2, <1>4, <1>7, <1>8, <1>9
<1> QED
  BY <1>2, <1>6, <1>7, <1>8, <1>10

\* What apply does to the clients of the commands it takes from the queue.
LEMMA RepliesGiven ==
  ASSUME TypeOK, EntryInv, NEW w \in Node, NEW n \in 0..Len(tasks[w]),
         replies' = RepliesAfter(SubSeq(tasks[w], 1, n)), UNCHANGED <<issued, gone>>
  PROVE  LET batch == Commands(SubSeq(tasks[w], 1, n)) IN
         /\ \A c \in ToSet(batch) : ClientOf(c) \in {"waiting", "gone"}
         /\ \A c \in Command :
              ClientOf(c)' = IF c \in ToSet(batch) /\ ClientOf(c) = "waiting"
                             THEN "answered" ELSE ClientOf(c)
         /\ IsInjective(batch)
<1> DEFINE q == tasks[w]
           u == SubSeq(q, 1, n)
           batch == Commands(u)
           r == [kind |-> "applied"]
<1>1. q \in Seq(Task) /\ replies \in [Command -> Seq(Reply)]
  BY DEF TypeOK, ApplyTypeOK, ClientTypeOK
<1>2. \A k \in DOMAIN u : k \in DOMAIN q /\ u[k] = q[k]
  BY <1>1, TaskSplit
<1>3. DOMAIN batch = DOMAIN u /\ \A k \in DOMAIN u : batch[k] = u[k].command
  BY DEF Commands
<1>4. \A c : c \in ToSet(batch) <=> \E k \in DOMAIN u : u[k].command = c
  BY <1>3 DEF ToSet
<1>5. \A c \in ToSet(batch) : c \in issued /\ replies[c] = <<>>
  BY <1>2, <1>4 DEF EntryInv, TasksAreOpen
<1>6. IsInjective(batch)
  <2>1. \A k, m \in DOMAIN u : u[k].command = u[m].command => k = m
    BY <1>2 DEF EntryInv, TasksAreOpen
  <2> HIDE DEF u
  <2> QED
    BY <1>3, <2>1 DEF IsInjective
<1> HIDE DEF u, batch
<1>7. \A c \in Command : replies'[c] = IF c \notin gone /\ c \in ToSet(batch)
                                       THEN Append(replies[c], r) ELSE replies[c]
  BY <1>4 DEF RepliesAfter, u
<1>8. \A c \in ToSet(batch) : ClientOf(c) = IF c \in gone THEN "gone" ELSE "waiting"
  BY <1>5 DEF ClientOf
<1>9. ASSUME NEW c \in Command
      PROVE  ClientOf(c)' = IF c \in ToSet(batch) /\ ClientOf(c) = "waiting"
                            THEN "answered" ELSE ClientOf(c)
  <2>1. CASE c \in ToSet(batch) /\ c \notin gone
    <3> HIDE DEF r
    <3>1. replies'[c] = <<r>>
      <4>1. replies'[c] = Append(<<>>, r)
        BY <1>5, <1>7, <2>1
      <4>2. Append(<<>>, r) = <<r>>
        OBVIOUS
      <4> QED
        BY <4>1, <4>2
    <3>2. <<r>> # <<>> /\ Last(<<r>>).kind = "applied"
      BY DEF Last, r
    <3>3. ClientOf(c)' = "answered"
      BY <1>5, <2>1, <3>1, <3>2 DEF ClientOf
    <3> QED
      BY <1>8, <2>1, <3>3
  <2>2. CASE ~(c \in ToSet(batch) /\ c \notin gone)
    <3>1. replies'[c] = replies[c]
      BY <1>7, <2>2
    <3>2. ClientOf(c)' = ClientOf(c)
      BY <3>1 DEF ClientOf
    <3> QED
      BY <1>8, <2>2, <3>2
  <2> QED
    BY <2>1, <2>2
<1>10. \A c \in ToSet(batch) : ClientOf(c) \in {"waiting", "gone"}
  BY <1>8
<1> QED
  BY <1>6, <1>9, <1>10 DEF batch, u, q

\* What the leader executes was not executed anywhere.
LEMMA MatchStep ==
  ASSUME LeadInv, LeadInv', [Next]_vars, Undisturbed', elected' = elected,
         NEW i \in Node, NEW j \in Node, NoteMatch(i, j)
  PROVE  [Promised!Next]_(Promised!vars)
<1>1. PICK w \in Node, t \in Nat : Going(w, t) /\ OrderedBy(w) /\ OrderedBy(w)'
  BY NoLeaderStep, OneLeader
<1>2. TypeOK /\ EntryInv /\ Straight(log[w]) /\ LogIsExecuted(w)
  BY <1>1, GoingFacts DEF Going, Leads
<1>3. PICK n \in 0..Len(tasks[w]) :
        /\ executed' = [executed EXCEPT ![w] = @ \o Commands(SubSeq(tasks[w], 1, n))]
        /\ replies' = RepliesAfter(SubSeq(tasks[w], 1, n))
  BY <1>1, MatchMoves
<1>4. UNCHANGED <<issued, gone>>
  BY DEF NoteMatch
<1> DEFINE u == SubSeq(tasks[w], 1, n)
           batch == Commands(u)
<1>5. /\ tasks[w] \in Seq(Task) /\ executed \in [Node -> Seq(Command)]
      /\ replies \in [Command -> Seq(Reply)]
  BY <1>2 DEF TypeOK, ApplyTypeOK, ClientTypeOK
<1>6. u \in Seq(Task) /\ Len(u) = n
  BY <1>5, FirstTasks
<1>7. batch \in Seq(Command) /\ Len(batch) = n
  <2> HIDE DEF u
  <2> QED
    BY <1>6, CommandsLength DEF Task
<1>8. /\ \A c \in ToSet(batch) : ClientOf(c) \in {"waiting", "gone"}
      /\ \A c \in Command :
           ClientOf(c)' = IF c \in ToSet(batch) /\ ClientOf(c) = "waiting"
                          THEN "answered" ELSE ClientOf(c)
      /\ IsInjective(batch)
  BY <1>2, <1>3, <1>4, RepliesGiven
<1>9. Order = executed[w] /\ Order' = executed'[w]
  BY <1>1 DEF OrderedBy
<1>10. \A c \in ToSet(batch) : c \in Command /\ c \notin ToSet(Order)
  <2>1. \A k \in DOMAIN tasks[w] : tasks[w][k].command \notin ToSet(executed[w])
    BY <1>2, LeaderCommands
  <2>2. \A k \in DOMAIN batch : k \in DOMAIN tasks[w] /\ batch[k] = tasks[w][k].command
    BY <1>5, TaskSplit DEF Commands
  <2>3. ToSet(batch) \subseteq Command
    BY <1>7, ElementsType
  <2> QED
    BY <1>9, <2>1, <2>2, <2>3 DEF ToSet
<1> HIDE DEF batch
<1>11. executed' = [executed EXCEPT ![w] = @ \o batch]
  BY <1>3 DEF batch
<1>12. Order' = Order \o batch /\ executed' = [executed EXCEPT ![w] = Order']
  BY <1>5, <1>9, <1>11
<1>13. CASE n = 0
  <2>1. batch = <<>>
    BY <1>7, <1>13, EmptySeq
  <2>2. executed[w] \o <<>> = executed[w]
    BY <1>5, ConcatProperties
  <2>3. executed' = executed
    BY <1>5, <1>11, <2>1, <2>2
  <2>4. \A c \in Command : ClientOf(c)' = ClientOf(c)
    BY <1>8, <2>1 DEF ToSet
  <2>5. Order' = Order
    BY <2>3, OrderStays
  <2> QED
    BY <2>3, <2>4, <2>5 DEF Promised!vars
<1>14. CASE n # 0
  <2>1. batch # <<>>
    BY <1>7, <1>14, EmptySeq
  <2> DEFINE open == {c \in Command : /\ ClientOf(c) \in {"waiting", "gone"}
                                      /\ c \notin ToSet(Order)}
  <2>2. batch \in Seq(open)
    <3>1. \A k \in 1..Len(batch) : batch[k] \in open
      BY <1>7, <1>8, <1>10, ElementsType
    <3> HIDE DEF open
    <3> QED
      BY <1>7, <3>1, FunctionIsSeq, LenProperties
  <2>3. batch \in SetToAllKPermutations(open)
    <3> HIDE DEF open
    <3> QED
      BY <1>8, <2>2, DistinctIsPermutation
  <2>4. /\ \A s : Promised!ToSet(s) = ToSet(s)
        /\ \A S : Promised!SetToAllKPermutations(S) = SetToAllKPermutations(S)
    <3>1. \A s : Promised!ToSet(s) = ToSet(s)
      BY DEF Promised!ToSet, ToSet
    <3>2. \A S : Promised!Cardinality(S) = Cardinality(S)
      BY DEF Promised!Cardinality, Cardinality
    <3>3. \A S : Promised!SetToSeqs(S) = SetToSeqs(S)
      BY <3>2 DEF Promised!SetToSeqs, SetToSeqs
    <3>4. \A S : Promised!SetToAllKPermutations(S) = SetToAllKPermutations(S)
      BY <3>3 DEF Promised!SetToAllKPermutations, SetToAllKPermutations
    <3> QED
      BY <3>1, <3>4
  <2>5. Promised!Unordered = open
    BY <2>4 DEF Promised!Unordered
  <2>6. batch \in Promised!SetToAllKPermutations(Promised!Unordered)
    BY <2>3, <2>4, <2>5
  <2> DEFINE client == [c \in Command |-> ClientOf(c)]
  <2>7. client' = [c \in Command |-> IF c \in Promised!ToSet(batch) /\ client[c] = "waiting"
                                     THEN "answered" ELSE client[c]]
    BY <1>8, <2>4
  <2>8. Promised!Execute(w)
    BY <1>12, <2>1, <2>6, <2>7, ZenonT(60) DEF Promised!Execute
  <2> QED
    BY <2>8 DEF Promised!Next
<1> QED
  BY <1>13, <1>14

LEMMA WinnerIsKept ==
  ASSUME NEW i \in Node, NEW j \in Node,
         NoteMatch(i, j) \/ AcceptHeartbeat(i, j) \/ AcceptEntries(i, j)
  PROVE  elected' = elected
BY DEF NoteMatch, AcceptHeartbeat, AcceptEntries, historyVars

LEMMA StepIsPromised ==
  LeadInv /\ LeadInv' /\ [Next]_vars => (Undisturbed' => [Promised!Next]_(Promised!vars))
<1> SUFFICES ASSUME LeadInv, LeadInv', [Next]_vars, Undisturbed'
             PROVE  [Promised!Next]_(Promised!vars)
  OBVIOUS
<1>1. TypeOK
  BY DEF LeadInv, SteadyInv, EntryInv, ElectionInv
<1>2. ASSUME executed' = executed, SameClients
      PROVE  [Promised!Next]_(Promised!vars)
  BY <1>2, SilentStep
<1>3. ASSUME NEW i \in Node, ElectionTimeout(i) \/ HeartbeatTick(i)
      PROVE  [Promised!Next]_(Promised!vars)
  BY <1>2, <1>3 DEF ElectionTimeout, HeartbeatTick, applyVars, clientVars, SameClients
<1>4. ASSUME NEW i \in Node, NEW j \in Node, HandleCall(i, j)
      PROVE  [Promised!Next]_(Promised!vars)
  <2>1. CASE AcceptHeartbeat(i, j) \/ AcceptEntries(i, j)
    BY <2>1, WinnerIsKept, FollowStep
  <2>2. CASE \/ RefuseStaleVote(i, j) \/ AnswerVote(i, j) \/ RefuseStaleAppend(i, j)
             \/ RefuseGap(i, j)
    BY <1>2, <2>2 DEF RefuseStaleVote, AnswerVote, RefuseStaleAppend, RefuseGap, applyVars,
      clientVars, SameClients
  <2> QED
    BY <1>4, <2>1, <2>2 DEF HandleCall
<1>5. ASSUME NEW i \in Node, NEW j \in Node, HandleAnswer(i, j)
      PROVE  [Promised!Next]_(Promised!vars)
  <2>1. CASE NoteMatch(i, j)
    BY <2>1, WinnerIsKept, MatchStep
  <2>2. CASE \/ IgnoreAnswer(i, j) \/ StepDown(i, j) \/ CountVote(i, j)
             \/ BecomeLeader(i, j) \/ NoteConflict(i, j)
    BY <1>2, <2>2 DEF IgnoreAnswer, StepDown, CountVote, BecomeLeader, NoteConflict, applyVars,
      clientVars, SameClients
  <2> QED
    BY <1>5, <2>1, <2>2 DEF HandleAnswer
<1>6. ASSUME NEW c \in Command, (\E i \in Node : Client(i, c)) \/ LoseClient(c)
      PROVE  [Promised!Next]_(Promised!vars)
  BY <1>6, ClientStep
<1>7. ASSUME UNCHANGED vars
      PROVE  [Promised!Next]_(Promised!vars)
  BY <1>2, <1>7 DEF vars, applyVars, clientVars, SameClients
<1> QED
  BY <1>1, <1>3, <1>4, <1>5, <1>6, <1>7, NoFaults DEF Next

LEMMA InitIsPromised == Init => Promised!Init
<1> SUFFICES ASSUME Init PROVE Promised!Init
  OBVIOUS
<1>1. Order = <<>>
  <2>1. LeadInv /\ elected = {}
    BY InitLeadInv DEF Init
  <2> QED
    BY <2>1, ClusterHasOrder DEF HasOrder, NothingOrdered
<1>2. executed = [i \in Node |-> <<>>]
  BY DEF Init
<1>3. [c \in Command |-> ClientOf(c)] = [c \in Command |-> "idle"]
  BY DEF Init, ClientOf
<1> QED
  BY <1>1, <1>2, <1>3 DEF Promised!Init

\* A cluster starts as a ReplicatedLog does, and as long as nothing is lost, refused,
\* restarted or overtaken and one leader is all there was, each of its steps is one of its
\* steps or none: every command is executed once, in one order by all members, and answered
\* after its execution (raft_node.cpp:444-520 and 552-773, state_machine.cpp:34-115).
THEOREM StepsKeepPromises ==
  Spec => Promised!Init /\ [][Undisturbed' => [Promised!Next]_(Promised!vars)]_vars
BY InitIsPromised, StepIsPromised, LeaderIsAhead, PTL DEF Spec

\* A cluster that is never disturbed implements the log.
THEOREM ImplementsReplicatedLog ==
  Spec /\ []Undisturbed => Promised!Init /\ [][Promised!Next]_(Promised!vars)
BY InitIsPromised, StepIsPromised, LeaderIsAhead, PTL DEF Spec

=============================================================================
