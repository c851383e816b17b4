--------------------------- MODULE RaftNode_proofs ---------------------------
(***************************************************************************)
(* A cluster of RaftNodes: proofs about types, elections and votes, and    *)
(* about entries, the commands in them and the answers to them.            *)
(***************************************************************************)
EXTENDS RaftNode, SequenceFacts

\* A function on 1..n is a sequence.
LEMMA FunctionIsSeq ==
  ASSUME NEW S, NEW n \in Nat, NEW f \in [1..n -> S]
  PROVE  f \in Seq(S)
BY SMT

\* Commands takes the commands of entries and of waiting tasks alike.
LEMMA CommandsType ==
  ASSUME NEW S, \A e \in S : e.command \in Command, NEW s \in Seq(S)
  PROVE  Commands(s) \in Seq(Command)
<1>1. Commands(s) \in [1..Len(s) -> Command]
  BY LenProperties DEF Commands
<1>2. Len(s) \in Nat
  BY LenProperties
<1> QED
  BY <1>1, <1>2, FunctionIsSeq

-----------------------------------------------------------------------------
(* The operators on one log and one disk. *)

LEMMA RemoveAtType ==
  ASSUME NEW S, NEW s \in Seq(S), NEW k \in DOMAIN s
  PROVE  RemoveAt(s, k) \in Seq(S)
<1>1. Len(s) \in Nat /\ DOMAIN s = 1..Len(s) /\ \A n \in 1..Len(s) : s[n] \in S
  BY LenProperties, ElementOfSeq
<1>2. SubSeq(s, 1, k - 1) \in Seq(S)
  BY <1>1, SubSeqProperties
<1>3. SubSeq(s, k + 1, Len(s)) \in Seq(S)
  BY <1>1, SubSeqProperties
<1> QED
  BY <1>2, <1>3, ConcatProperties DEF RemoveAt

LEMMA SubSeqType ==
  ASSUME NEW S, NEW s \in Seq(S), NEW m \in Nat \ {0}, NEW n \in Nat, n <= Len(s)
  PROVE  SubSeq(s, m, n) \in Seq(S)
<1>1. \A k \in m..n : s[k] \in S
  BY LenProperties, ElementOfSeq
<1> QED
  BY <1>1, SubSeqProperties

LEMMA LogTermTypes ==
  ASSUME NEW l \in Seq(Entry)
  PROVE  /\ LastIndex(l) \in Nat
         /\ LastTerm(l) \in Nat
         /\ PrevTerm(l) \in Nat
         /\ \A n \in Nat : TermAt(l, n) \in Nat
<1>0. Len(l) \in Nat /\ \A n \in 1..Len(l) : l[n] \in Entry
  BY LenProperties, ElementOfSeq
<1>1. Len(l) \in Nat /\ \A n \in 1..Len(l) : l[n].term \in Nat
  BY <1>0 DEF Entry
<1>2. l # <<>> => Len(l) \in 1..Len(l)
  BY EmptySeq, LenProperties
<1> QED
  BY <1>1, <1>2 DEF LastIndex, LastTerm, PrevTerm, TermAt

LEMMA PersistStateType ==
  ASSUME NEW d \in Disk, NEW term \in Nat, NEW vote \in Node \union {Nil}
  PROVE  PersistState(d, term, vote) \in Disk
BY DEF PersistState, Disk

LEMMA PersistBatchType ==
  ASSUME NEW d \in Disk, NEW batch \in Seq(Entry) \ {<<>>}
  PROVE  PersistBatch(d, batch) \in Disk
<1>1. \A n \in DOMAIN batch : batch[n] \in Entry
  BY LenProperties, ElementOfSeq
<1>2. BatchValues(batch) \subseteq Entry
  BY <1>1 DEF BatchValues
<1>3. batch[Len(batch)].index \in Nat
  <2>1. Len(batch) \in DOMAIN batch
    BY EmptySeq, LenProperties
  <2> QED
    BY <1>1, <2>1 DEF Entry
<1> QED
  BY <1>2, <1>3 DEF PersistBatch, Disk

LEMMA RecoveredType ==
  ASSUME NEW d \in Disk, Recoverable(d)
  PROVE  RecoverEntries(d) \in Seq(Entry)
<1>1. d.last \in Nat /\ d.entries \subseteq Entry
  BY DEF Disk
<1>2. \A k \in 1..d.last : (CHOOSE e \in d.entries : e.index = k) \in Entry
  BY <1>1 DEF Recoverable
<1>3. RecoverEntries(d) \in [1..d.last -> Entry]
  BY <1>2 DEF RecoverEntries
<1> QED
  BY <1>1, <1>3, FunctionIsSeq

-----------------------------------------------------------------------------
(* Messages and terms. *)

LEMMA BroadcastType ==
  ASSUME NetTypeOK, NEW i \in Node, NEW batch,
         \A j \in Node \ {i} : batch[j] \in Seq(Call),
         Broadcast(i, batch)
  PROVE  calls' \in [Node -> [Node -> Seq(Call)]]
<1>1. \A j \in Node \ {i} : calls[i][j] \o batch[j] \in Seq(Call)
  BY ConcatProperties DEF NetTypeOK
<1> QED
  BY <1>1 DEF Broadcast, NetTypeOK

LEMMA ArrivedType ==
  ASSUME NetTypeOK, NEW i \in Node, NEW j \in Node, NEW k \in Arrived(j, i)
  PROVE  k \in DOMAIN calls[j][i] /\ calls[j][i][k] \in Call
<1>1. k \in DOMAIN calls[j][i] /\ calls[j][i] \in Seq(Call)
  BY InOrderIsBoolean DEF Arrived, NetTypeOK
<1> QED
  BY <1>1, LenProperties, ElementOfSeq

LEMMA RespondType ==
  ASSUME NetTypeOK, NEW i \in Node, NEW j \in Node, NEW k \in Arrived(j, i),
         NEW a \in Answer, Respond(i, j, k, a)
  PROVE  NetTypeOK'
<1>1. RemoveAt(calls[j][i], k) \in Seq(Call)
  BY ArrivedType, RemoveAtType DEF NetTypeOK
<1>2. calls' \in [Node -> [Node -> Seq(Call)]]
  BY <1>1 DEF Respond, NetTypeOK
<1>3. answers' \in [Node -> [Node -> Seq(Answer)]]
  BY DEF Respond, NetTypeOK
<1> QED
  BY <1>2, <1>3 DEF NetTypeOK

LEMMA RespondIfAliveType ==
  ASSUME NetTypeOK, NEW i \in Node, NEW j \in Node, NEW k \in Arrived(j, i),
         NEW a \in Answer, RespondIfAlive(i, j, k, a)
  PROVE  NetTypeOK'
<1>1. RemoveAt(calls[j][i], k) \in Seq(Call)
  BY ArrivedType, RemoveAtType DEF NetTypeOK
<1>2. CASE down'[i]
  <2>1. calls' = [calls EXCEPT ![j][i] = RemoveAt(@, k)] /\ answers' = answers
    BY <1>2, Zenon DEF RespondIfAlive
  <2> QED
    BY <1>1, <2>1 DEF NetTypeOK
<1>3. CASE ~down'[i]
  BY <1>3, RespondType DEF RespondIfAlive
<1> QED
  BY <1>2, <1>3

LEMMA ConsumeType ==
  ASSUME NetTypeOK, NEW i \in Node, NEW j \in Node, answers[i][j] # <<>>, Consume(i, j)
  PROVE  /\ answers' \in [Node -> [Node -> Seq(Answer)]]
         /\ Head(answers[i][j]) \in Answer
<1>1. answers[i][j] \in Seq(Answer)
  BY DEF NetTypeOK
<1>2. Head(answers[i][j]) \in Answer /\ Tail(answers[i][j]) \in Seq(Answer)
  BY <1>1, HeadTailProperties
<1> QED
  BY <1>2 DEF Consume, NetTypeOK

LEMMA StepUpType ==
  ASSUME RaftTypeOK, NEW i \in Node, NEW term \in Nat, StepUp(i, term), leaderId' = leaderId
  PROVE  RaftTypeOK'
BY DEF StepUp, RaftTypeOK

LEMMA AcceptLeaderType ==
  ASSUME RaftTypeOK, NEW i \in Node, NEW j \in Node, NEW m, m.term \in Nat, AcceptLeader(i, j, m)
  PROVE  RaftTypeOK'
BY DEF AcceptLeader, StepUp, RaftTypeOK

LEMMA DiskAtTermType ==
  ASSUME LogTypeOK, NEW i \in Node, NEW term \in Nat
  PROVE  DiskAtTerm(i, term) \in Disk
BY PersistStateType DEF DiskAtTerm, LogTypeOK

LEMMA CallTermType ==
  ASSUME NEW m \in Call
  PROVE  m.term \in Nat
BY DEF Call, VoteCall, AppendCall, HeartbeatCall

LEMMA AnswerTermType ==
  ASSUME NEW a \in Answer
  PROVE  a.term \in Nat
BY DEF Answer, VoteAnswer, AppendAnswer, HeartbeatAnswer

LEMMA AppendCallType ==
  ASSUME NEW m \in Call, m.type = "append"
  PROVE  m \in AppendCall
BY DEF Call, VoteCall, AppendCall, HeartbeatCall

LEMMA HeartbeatCallType ==
  ASSUME NEW m \in Call, m.type = "heartbeat"
  PROVE  m \in HeartbeatCall
BY DEF Call, VoteCall, AppendCall, HeartbeatCall

LEMMA LastIndexType ==
  ASSUME TypeOK, NEW i \in Node
  PROVE  LastIndex(log[i]) \in Nat
<1>1. log[i] \in Seq(Entry)
  BY DEF TypeOK, LogTypeOK
<1> QED
  BY <1>1, LogTermTypes

\* A request that lost its connection is still a request.
LEMMA DeadCallType ==
  ASSUME NEW m \in Call
  PROVE  [m EXCEPT !.live = FALSE] \in Call
BY DEF Call, VoteCall, AppendCall, HeartbeatCall

LEMMA DeadPrefixType ==
  ASSUME NEW s \in Seq(Call), NEW n \in 0..Len(s)
  PROVE  [k \in 1..n |-> [s[k] EXCEPT !.live = FALSE]] \in Seq(Call)
<1>1. n \in Nat /\ \A k \in 1..n : s[k] \in Call
  BY LenProperties, ElementOfSeq
<1>2. [k \in 1..n |-> [s[k] EXCEPT !.live = FALSE]] \in [1..n -> Call]
  BY <1>1, DeadCallType
<1> QED
  BY <1>1, <1>2, FunctionIsSeq

LEMMA DeadType ==
  ASSUME NEW s \in Seq(Call)
  PROVE  [k \in DOMAIN s |-> [s[k] EXCEPT !.live = FALSE]] \in Seq(Call)
<1>1. Len(s) \in 0..Len(s) /\ DOMAIN s = 1..Len(s)
  BY LenProperties
<1> QED
  BY <1>1, DeadPrefixType

-----------------------------------------------------------------------------
(* Every action keeps the types. *)

LEMMA InitTypeOK == Init => TypeOK
<1> SUFFICES ASSUME Init PROVE TypeOK
  OBVIOUS
<1> USE NilIsNoNode DEF Init
<1>1. RaftTypeOK /\ ApplyTypeOK /\ LeaderTypeOK
  BY DEF RaftTypeOK, ApplyTypeOK, LeaderTypeOK
<1>2. LogTypeOK
  BY DEF LogTypeOK, EmptyDisk, Disk
<1>3. NetTypeOK
  BY DEF NetTypeOK
<1>4. ClientTypeOK /\ FaultTypeOK /\ HistoryTypeOK
  BY DEF ClientTypeOK, FaultTypeOK, HistoryTypeOK
<1> QED
  BY <1>1, <1>2, <1>3, <1>4 DEF TypeOK

LEMMA RestartType ==
  ASSUME TypeOK, NEW i \in Node, Restart(i)
  PROVE  TypeOK'
<1>1. disk[i] \in Disk
  BY DEF TypeOK, LogTypeOK
<1>2. RaftTypeOK'
  BY <1>1 DEF Restart, TypeOK, RaftTypeOK, Disk
<1>3. LogTypeOK'
  <2>1. log' \in [Node -> Seq(Entry)]
    BY <1>1, RecoveredType DEF Restart, TypeOK, LogTypeOK
  <2> QED
    BY <2>1 DEF Restart, TypeOK, LogTypeOK
<1>4. ApplyTypeOK' /\ LeaderTypeOK'
  BY DEF Restart, TypeOK, ApplyTypeOK, LeaderTypeOK
<1>5. NetTypeOK'
  <2>1. \A a, b \in Node :
          [k \in DOMAIN calls[a][b] |-> [calls[a][b][k] EXCEPT !.live = FALSE]] \in Seq(Call)
    BY DeadType DEF TypeOK, NetTypeOK
  <2> DEFINE new(a, b) ==
        IF b = i THEN <<>>
        ELSE IF a = i
        THEN [k \in DOMAIN calls[a][b] |-> [calls[a][b][k] EXCEPT !.live = FALSE]]
        ELSE calls[a][b]
  <2>2. \A a, b \in Node : new(a, b) \in Seq(Call)
    BY <2>1, EmptySeq DEF TypeOK, NetTypeOK
  <2>3. calls' = [a \in Node |-> [b \in Node |-> new(a, b)]]
    BY DEF Restart
  <2>4. calls' \in [Node -> [Node -> Seq(Call)]]
    <3> HIDE DEF new
    <3> QED
      BY <2>2, <2>3
  <2>5. answers' \in [Node -> [Node -> Seq(Answer)]]
    BY DEF Restart, TypeOK, NetTypeOK
  <2> QED
    BY <2>4, <2>5 DEF NetTypeOK
<1>6. ClientTypeOK' /\ HistoryTypeOK'
  BY DEF Restart, TypeOK, ClientTypeOK, HistoryTypeOK, clientVars, historyVars
<1>7. FaultTypeOK'
  <2>1. faults' = [faults EXCEPT !.restarts = @ + 1]
    BY DEF Restart
  <2> QED
    BY <2>1 DEF TypeOK, FaultTypeOK
<1> QED
  BY <1>2, <1>3, <1>4, <1>5, <1>6, <1>7 DEF TypeOK

LEMMA CutType ==
  ASSUME TypeOK, NEW i \in Node, NEW j \in Node, Cut(i, j)
  PROVE  TypeOK'
<1>1. NetTypeOK'
  <2>1. PICK n \in 0..Len(calls[i][j]) :
          calls' = [calls EXCEPT ![i][j] = [k \in 1..n |-> [@[k] EXCEPT !.live = FALSE]]]
    BY DEF Cut
  <2>2. [k \in 1..n |-> [calls[i][j][k] EXCEPT !.live = FALSE]] \in Seq(Call)
    BY DeadPrefixType DEF TypeOK, NetTypeOK
  <2>3. calls' \in [Node -> [Node -> Seq(Call)]]
    BY <2>1, <2>2 DEF TypeOK, NetTypeOK
  <2>4. answers' \in [Node -> [Node -> Seq(Answer)]]
    BY DEF Cut, TypeOK, NetTypeOK
  <2> QED
    BY <2>3, <2>4 DEF NetTypeOK
<1>2. FaultTypeOK'
  BY DEF Cut, TypeOK, FaultTypeOK
<1> QED
  BY <1>1, <1>2 DEF Cut, TypeOK, RaftTypeOK, LogTypeOK, ApplyTypeOK, LeaderTypeOK,
    ClientTypeOK, HistoryTypeOK, raftVars, logVars, applyVars, leaderVars, clientVars,
    historyVars

LEMMA ElectionTimeoutType ==
  ASSUME TypeOK, NEW i \in Node, ElectionTimeout(i)
  PROVE  TypeOK'
<1>1. RaftTypeOK'
  BY DEF ElectionTimeout, TypeOK, RaftTypeOK
<1>2. NetTypeOK'
  <2> DEFINE m == [type |-> "vote", term |-> currentTerm[i] + 1,
                   lastIndex |-> LastIndex(log[i]), lastTerm |-> LastTerm(log[i]), live |-> TRUE]
  <2>1. LastIndex(log[i]) \in Nat /\ LastTerm(log[i]) \in Nat
    BY LogTermTypes DEF TypeOK, LogTypeOK
  <2>2. m \in Call
    BY <2>1 DEF Call, VoteCall, TypeOK, RaftTypeOK
  <2>3. \A j \in Node \ {i} : [n \in Node |-> <<m>>][j] \in Seq(Call)
    BY <2>2
  <2>4. Broadcast(i, [n \in Node |-> <<m>>])
    BY DEF ElectionTimeout
  <2>5. calls' \in [Node -> [Node -> Seq(Call)]]
    BY <2>3, <2>4, BroadcastType DEF TypeOK
  <2> QED
    BY <2>5 DEF ElectionTimeout, TypeOK, NetTypeOK
<1> QED
  BY <1>1, <1>2 DEF ElectionTimeout, TypeOK, LogTypeOK, ApplyTypeOK, LeaderTypeOK,
    ClientTypeOK, FaultTypeOK, HistoryTypeOK, logVars, applyVars, leaderVars, clientVars,
    historyVars

LEMMA RefuseStaleVoteType ==
  ASSUME TypeOK, NEW i \in Node, NEW j \in Node, RefuseStaleVote(i, j)
  PROVE  TypeOK'
<1>1. NetTypeOK'
  <2>1. PICK k \in Arrived(j, i) :
          Respond(i, j, k, [type |-> "vote", term |-> currentTerm[i], granted |-> FALSE])
    BY DEF RefuseStaleVote
  <2>2. [type |-> "vote", term |-> currentTerm[i], granted |-> FALSE] \in Answer
    BY DEF Answer, VoteAnswer, TypeOK, RaftTypeOK
  <2> QED
    BY <2>1, <2>2, RespondType DEF TypeOK
<1> QED
  BY <1>1 DEF RefuseStaleVote, TypeOK, RaftTypeOK, LogTypeOK, ApplyTypeOK, LeaderTypeOK,
    ClientTypeOK, FaultTypeOK, HistoryTypeOK, raftVars, logVars, applyVars, leaderVars,
    clientVars, historyVars

LEMMA AnswerVoteType ==
  ASSUME TypeOK, NEW i \in Node, NEW j \in Node, AnswerVote(i, j)
  PROVE  TypeOK'
<1>1. PICK k \in Arrived(j, i) :
        LET m == calls[j][i][k] IN
        /\ StepUp(i, m.term)
        /\ disk' = [disk EXCEPT ![i] = DiskAtTerm(i, m.term)]
        /\ Respond(i, j, k, [type |-> "vote", term |-> m.term, granted |-> GrantsVote(i, j, m)])
        /\ granted' = IF GrantsVote(i, j, m) THEN granted \union {<<i, j, m.term>>} ELSE granted
  BY DEF AnswerVote
<1> DEFINE m == calls[j][i][k]
<1>2. m.term \in Nat
  BY ArrivedType, CallTermType DEF TypeOK
<1>3. RaftTypeOK'
  BY <1>1, <1>2, StepUpType DEF AnswerVote, TypeOK
<1>4. LogTypeOK'
  BY <1>1, <1>2, DiskAtTermType DEF AnswerVote, TypeOK, LogTypeOK
<1>5. NetTypeOK'
  <2>1. GrantsVote(i, j, m) \in BOOLEAN
    BY DEF GrantsVote
  <2>2. [type |-> "vote", term |-> m.term, granted |-> GrantsVote(i, j, m)] \in Answer
    BY <1>2, <2>1 DEF Answer, VoteAnswer
  <2> QED
    BY <1>1, <2>2, RespondType DEF TypeOK
<1>6. HistoryTypeOK'
  BY <1>1, <1>2 DEF AnswerVote, TypeOK, HistoryTypeOK
<1> QED
  BY <1>3, <1>4, <1>5, <1>6 DEF AnswerVote, TypeOK, ApplyTypeOK, LeaderTypeOK, ClientTypeOK,
    FaultTypeOK, applyVars, leaderVars, clientVars

LEMMA IgnoreAnswerType ==
  ASSUME TypeOK, NEW i \in Node, NEW j \in Node, IgnoreAnswer(i, j)
  PROVE  TypeOK'
<1>1. NetTypeOK'
  BY ConsumeType DEF IgnoreAnswer, TypeOK, NetTypeOK
<1> QED
  BY <1>1 DEF IgnoreAnswer, TypeOK, RaftTypeOK, LogTypeOK, ApplyTypeOK, LeaderTypeOK,
    ClientTypeOK, FaultTypeOK, HistoryTypeOK, raftVars, logVars, applyVars, leaderVars,
    clientVars, historyVars

LEMMA StepDownType ==
  ASSUME TypeOK, NEW i \in Node, NEW j \in Node, StepDown(i, j)
  PROVE  TypeOK'
<1> DEFINE a == Head(answers[i][j])
<1>1. NetTypeOK' /\ a \in Answer
  BY ConsumeType DEF StepDown, TypeOK, NetTypeOK
<1>2. a.term \in Nat
  BY <1>1, AnswerTermType
<1>3. RaftTypeOK'
  BY <1>2, StepUpType DEF StepDown, TypeOK
<1>4. LogTypeOK'
  <2> DEFINE term == IF a.type = "vote" THEN currentTerm[i] ELSE a.term
  <2>1. term \in Nat
    BY <1>2 DEF TypeOK, RaftTypeOK
  <2>2. disk' = [disk EXCEPT ![i] = PersistState(@, term, Nil)]
    BY DEF StepDown
  <2>3. PersistState(disk[i], term, Nil) \in Disk
    BY <2>1, PersistStateType DEF TypeOK, LogTypeOK
  <2> QED
    BY <2>2, <2>3 DEF StepDown, TypeOK, LogTypeOK
<1> QED
  BY <1>1, <1>3, <1>4 DEF StepDown, TypeOK, ApplyTypeOK, LeaderTypeOK, ClientTypeOK,
    FaultTypeOK, HistoryTypeOK, applyVars, leaderVars, clientVars, historyVars

LEMMA CountVoteType ==
  ASSUME TypeOK, NEW i \in Node, NEW j \in Node, CountVote(i, j)
  PROVE  TypeOK'
<1>1. NetTypeOK'
  BY ConsumeType DEF CountVote, TypeOK, NetTypeOK
<1>2. RaftTypeOK'
  BY DEF CountVote, TypeOK, RaftTypeOK
<1> QED
  BY <1>1, <1>2 DEF CountVote, TypeOK, LogTypeOK, ApplyTypeOK, LeaderTypeOK, ClientTypeOK,
    FaultTypeOK, HistoryTypeOK, logVars, applyVars, leaderVars, clientVars, historyVars

LEMMA BecomeLeaderType ==
  ASSUME TypeOK, NEW i \in Node, NEW j \in Node, BecomeLeader(i, j)
  PROVE  TypeOK'
<1>1. NetTypeOK'
  BY ConsumeType DEF BecomeLeader, TypeOK, NetTypeOK
<1>2. RaftTypeOK'
  BY DEF BecomeLeader, TypeOK, RaftTypeOK
<1>3. LogTypeOK'
  BY PersistStateType DEF BecomeLeader, TypeOK, LogTypeOK, RaftTypeOK
<1>4. LeaderTypeOK'
  <2>1. LastIndex(log[i]) + 1 \in Nat
    BY LastIndexType
  <2>2. nextIndex' \in [Node -> [Node -> Nat]]
    BY <2>1 DEF BecomeLeader, TypeOK, LeaderTypeOK
  <2> QED
    BY <2>2 DEF BecomeLeader, TypeOK, LeaderTypeOK
<1>5. HistoryTypeOK'
  BY DEF BecomeLeader, TypeOK, HistoryTypeOK, RaftTypeOK
<1> QED
  BY <1>1, <1>2, <1>3, <1>4, <1>5 DEF BecomeLeader, TypeOK, ApplyTypeOK, ClientTypeOK,
    FaultTypeOK, applyVars, clientVars

-----------------------------------------------------------------------------
(* AppendEntries. *)

LEMMA MatchedType ==
  ASSUME TypeOK, NEW i \in Node, NEW m, m.prevIndex \in Nat
  PROVE  Matched(i, m) \in Seq(Entry)
<1>1. log[i] \in Seq(Entry)
  BY DEF TypeOK, LogTypeOK
<1>2. Truncated(log[i], m.prevIndex) \in Seq(Entry)
  <2>1. CASE m.prevIndex \in 1..Len(log[i])
    <3>1. Len(log[i]) \in Nat
      BY <1>1, LenProperties
    <3>2. m.prevIndex - 1 \in Nat /\ m.prevIndex - 1 <= Len(log[i])
      BY <2>1, <3>1
    <3> QED
      BY <1>1, <2>1, <3>2, SubSeqType DEF Truncated
  <2>2. CASE m.prevIndex \notin 1..Len(log[i])
    BY <1>1, <2>2 DEF Truncated
  <2> QED
    BY <2>1, <2>2
<1> QED
  BY <1>1, <1>2 DEF Matched

LEMMA ExtendedType ==
  ASSUME TypeOK, NEW i \in Node, NEW m \in AppendCall
  PROVE  /\ Extended(i, m) \in Seq(Entry)
         /\ DiskExtended(i, m) \in Disk
<1>1. m.prevIndex \in Nat /\ m.term \in Nat /\ m.entries \in Seq(Entry) \ {<<>>}
  BY DEF AppendCall
<1>2. Extended(i, m) \in Seq(Entry)
  BY <1>1, MatchedType, ConcatProperties DEF Extended
<1>3. DiskExtended(i, m) \in Disk
  BY <1>1, DiskAtTermType, PersistBatchType DEF DiskExtended, TruncateBatch, TypeOK
<1> QED
  BY <1>2, <1>3

LEMMA CommitAfterType ==
  ASSUME TypeOK, NEW i \in Node, NEW l \in Seq(Entry), NEW commit \in Nat
  PROVE  CommitAfter(i, l, commit) \in Nat
BY LenProperties DEF CommitAfter, TypeOK, ApplyTypeOK

LEMMA ApplyViewType ==
  ASSUME TypeOK, NEW i \in Node, NEW l \in Seq(Entry), NEW commit \in Nat,
         ApplyView(i, l, commit)
  PROVE  /\ executed' \in [Node -> Seq(Command)]
         /\ lastApplied' \in [Node -> Nat]
         /\ down' \in [Node -> BOOLEAN]
<1> DEFINE start == lastApplied[i] + 1
           wild == ViewIsWild(l, start, commit)
           end == IF wild THEN Len(l) ELSE commit
<1>1. Len(l) \in Nat /\ start \in Nat \ {0}
  BY LenProperties DEF TypeOK, ApplyTypeOK
<1>2. down' \in [Node -> BOOLEAN]
  BY DEF ApplyView, ViewIsWild, ViewIsGiven, TypeOK, ApplyTypeOK
<1>3. CASE ViewIsGiven(l, start, commit)
  <2>1. end \in Nat /\ end <= Len(l)
    BY <1>1, <1>3 DEF ViewIsGiven
  <2>2. SubSeq(l, start, end) \in Seq(Entry)
    BY <1>1, <2>1, SubSeqType
  <2>3. Commands(SubSeq(l, start, end)) \in Seq(Command)
    BY <2>2, CommandsType DEF Entry
  <2>4. executed[i] \o Commands(SubSeq(l, start, end)) \in Seq(Command)
    BY <2>3, ConcatProperties DEF TypeOK, ApplyTypeOK
  <2>5. /\ executed' = [executed EXCEPT ![i] = @ \o Commands(SubSeq(l, start, end))]
        /\ lastApplied' = [lastApplied EXCEPT ![i] = end]
    BY <1>3 DEF ApplyView
  <2> QED
    BY <1>2, <2>1, <2>4, <2>5 DEF TypeOK, ApplyTypeOK
<1>4. CASE ~ViewIsGiven(l, start, commit)
  BY <1>2, <1>4 DEF ApplyView, TypeOK, ApplyTypeOK
<1> QED
  BY <1>3, <1>4

LEMMA RefuseStaleAppendType ==
  ASSUME TypeOK, NEW i \in Node, NEW j \in Node, RefuseStaleAppend(i, j)
  PROVE  TypeOK'
<1>1. NetTypeOK'
  <2>1. PICK k \in Arrived(j, i) :
          Respond(i, j, k, IF calls[j][i][k].type = "heartbeat"
                           THEN [type |-> "heartbeat", term |-> currentTerm[i]]
                           ELSE AppendRefused(currentTerm[i], LastIndex(log[i])))
    BY DEF RefuseStaleAppend
  <2>2. [type |-> "heartbeat", term |-> currentTerm[i]] \in Answer
    BY DEF Answer, HeartbeatAnswer, TypeOK, RaftTypeOK
  <2>3. AppendRefused(currentTerm[i], LastIndex(log[i])) \in Answer
    BY LastIndexType DEF AppendRefused, Answer, AppendAnswer, TypeOK, RaftTypeOK
  <2> QED
    BY <2>1, <2>2, <2>3, RespondType DEF TypeOK
<1> QED
  BY <1>1 DEF RefuseStaleAppend, TypeOK, RaftTypeOK, LogTypeOK, ApplyTypeOK, LeaderTypeOK,
    ClientTypeOK, FaultTypeOK, HistoryTypeOK, raftVars, logVars, applyVars, leaderVars,
    clientVars, historyVars

LEMMA AcceptHeartbeatType ==
  ASSUME TypeOK, NEW i \in Node, NEW j \in Node, AcceptHeartbeat(i, j)
  PROVE  TypeOK'
<1>1. PICK k \in Arrived(j, i) :
        LET m == calls[j][i][k]
            commit == CommitAfter(i, log[i], m.commit)
        IN  /\ m.type = "heartbeat"
            /\ AcceptLeader(i, j, m)
            /\ commitIndex' = [commitIndex EXCEPT ![i] = commit]
            /\ ApplyView(i, log[i], commit)
            /\ disk' = [disk EXCEPT ![i] = DiskAtTerm(i, m.term)]
            /\ RespondIfAlive(i, j, k, [type |-> "heartbeat", term |-> m.term])
  BY DEF AcceptHeartbeat
<1> DEFINE m == calls[j][i][k]
           commit == CommitAfter(i, log[i], m.commit)
<1>2. m \in HeartbeatCall
  BY <1>1, ArrivedType, HeartbeatCallType DEF TypeOK
<1>3. m.term \in Nat /\ m.commit \in Nat
  BY <1>2 DEF HeartbeatCall
<1>4. commit \in Nat /\ log[i] \in Seq(Entry)
  BY <1>3, CommitAfterType DEF TypeOK, LogTypeOK
<1>5. RaftTypeOK'
  BY <1>1, <1>3, AcceptLeaderType DEF TypeOK
<1>6. LogTypeOK'
  BY <1>1, <1>3, DiskAtTermType DEF AcceptHeartbeat, TypeOK, LogTypeOK
<1>7. ApplyTypeOK'
  <2>1. /\ executed' \in [Node -> Seq(Command)]
        /\ lastApplied' \in [Node -> Nat]
        /\ down' \in [Node -> BOOLEAN]
    BY <1>1, <1>4, ApplyViewType
  <2>2. commitIndex' \in [Node -> Nat] /\ tasks' = tasks
    BY <1>1, <1>4 DEF AcceptHeartbeat, TypeOK, ApplyTypeOK
  <2> QED
    BY <2>1, <2>2 DEF TypeOK, ApplyTypeOK
<1>8. NetTypeOK'
  <2>1. [type |-> "heartbeat", term |-> m.term] \in Answer
    BY <1>3 DEF Answer, HeartbeatAnswer
  <2> QED
    BY <1>1, <2>1, RespondIfAliveType DEF TypeOK
<1> QED
  BY <1>5, <1>6, <1>7, <1>8 DEF AcceptHeartbeat, TypeOK, LeaderTypeOK, ClientTypeOK,
    FaultTypeOK, HistoryTypeOK, leaderVars, clientVars, historyVars

LEMMA RefuseGapType ==
  ASSUME TypeOK, NEW i \in Node, NEW j \in Node, RefuseGap(i, j)
  PROVE  TypeOK'
<1>1. PICK k \in Arrived(j, i) :
        LET m == calls[j][i][k] IN
        /\ AcceptLeader(i, j, m)
        /\ disk' = [disk EXCEPT ![i] = DiskAtTerm(i, m.term)]
        /\ Respond(i, j, k, AppendRefused(m.term, LastIndex(log[i])))
  BY DEF RefuseGap
<1> DEFINE m == calls[j][i][k]
<1>2. m.term \in Nat
  BY ArrivedType, CallTermType DEF TypeOK
<1>3. RaftTypeOK'
  BY <1>1, <1>2, AcceptLeaderType DEF TypeOK
<1>4. LogTypeOK'
  BY <1>1, <1>2, DiskAtTermType DEF RefuseGap, TypeOK, LogTypeOK
<1>5. NetTypeOK'
  <2>1. AppendRefused(m.term, LastIndex(log[i])) \in Answer
    BY <1>2, LastIndexType DEF AppendRefused, Answer, AppendAnswer
  <2> QED
    BY <1>1, <2>1, RespondType DEF TypeOK
<1> QED
  BY <1>3, <1>4, <1>5 DEF RefuseGap, TypeOK, ApplyTypeOK, LeaderTypeOK, ClientTypeOK,
    FaultTypeOK, HistoryTypeOK, applyVars, leaderVars, clientVars, historyVars

LEMMA FailAppendType ==
  ASSUME TypeOK, NEW i \in Node, NEW j \in Node, FailAppend(i, j)
  PROVE  TypeOK'
<1>1. PICK k \in Arrived(j, i) :
        LET m == calls[j][i][k] IN
        /\ m.type = "append"
        /\ AcceptLeader(i, j, m)
        /\ log' = [log EXCEPT ![i] = Matched(i, m)]
        /\ disk' = [disk EXCEPT ![i] = TruncateBatch(DiskAtTerm(i, m.term))]
        /\ Respond(i, j, k, AppendRefused(m.term, Len(Matched(i, m))))
  BY DEF FailAppend
<1> DEFINE m == calls[j][i][k]
<1>2. m \in AppendCall
  BY <1>1, ArrivedType, AppendCallType DEF TypeOK
<1>3. m.term \in Nat /\ Matched(i, m) \in Seq(Entry)
  BY <1>2, MatchedType DEF AppendCall
<1>4. RaftTypeOK'
  BY <1>1, <1>3, AcceptLeaderType DEF TypeOK
<1>5. LogTypeOK'
  BY <1>1, <1>3, DiskAtTermType DEF TruncateBatch, TypeOK, LogTypeOK
<1>6. NetTypeOK'
  <2>1. Len(Matched(i, m)) \in Nat
    BY <1>3, LenProperties
  <2>2. AppendRefused(m.term, Len(Matched(i, m))) \in Answer
    BY <1>3, <2>1 DEF AppendRefused, Answer, AppendAnswer
  <2> QED
    BY <1>1, <2>2, RespondType DEF TypeOK
<1>7. FaultTypeOK'
  <2>1. faults' = [faults EXCEPT !.writeErrors = @ + 1]
    BY DEF FailAppend
  <2> QED
    BY <2>1 DEF TypeOK, FaultTypeOK
<1> QED
  BY <1>4, <1>5, <1>6, <1>7 DEF FailAppend, TypeOK, ApplyTypeOK, LeaderTypeOK, ClientTypeOK,
    HistoryTypeOK, applyVars, leaderVars, clientVars, historyVars

LEMMA AcceptEntriesType ==
  ASSUME TypeOK, NEW i \in Node, NEW j \in Node, AcceptEntries(i, j)
  PROVE  TypeOK'
<1>1. PICK k \in Arrived(j, i) :
        LET m == calls[j][i][k]
            commit == CommitAfter(i, Extended(i, m), m.commit)
        IN  /\ m.type = "append"
            /\ AcceptLeader(i, j, m)
            /\ log' = [log EXCEPT ![i] = Extended(i, m)]
            /\ disk' = [disk EXCEPT ![i] = DiskExtended(i, m)]
            /\ commitIndex' = [commitIndex EXCEPT ![i] = commit]
            /\ IF m.commit > commitIndex[i]
               THEN ApplyView(i, Extended(i, m), commit)
               ELSE UNCHANGED <<executed, lastApplied, down>>
            /\ RespondIfAlive(i, j, k, AppendDone(m.term, Len(Extended(i, m))))
  BY DEF AcceptEntries
<1> DEFINE m == calls[j][i][k]
           commit == CommitAfter(i, Extended(i, m), m.commit)
<1>2. m \in AppendCall
  BY <1>1, ArrivedType, AppendCallType DEF TypeOK
<1>3. m.term \in Nat /\ m.commit \in Nat
  BY <1>2 DEF AppendCall
<1>4. Extended(i, m) \in Seq(Entry) /\ DiskExtended(i, m) \in Disk
  BY <1>2, ExtendedType
<1>5. commit \in Nat
  BY <1>3, <1>4, CommitAfterType
<1>6. RaftTypeOK'
  BY <1>1, <1>3, AcceptLeaderType DEF TypeOK
<1>7. LogTypeOK'
  BY <1>1, <1>4 DEF TypeOK, LogTypeOK
<1>8. ApplyTypeOK'
  <2>1. /\ executed' \in [Node -> Seq(Command)]
        /\ lastApplied' \in [Node -> Nat]
        /\ down' \in [Node -> BOOLEAN]
    <3>1. CASE m.commit > commitIndex[i]
      BY <1>1, <1>4, <1>5, <3>1, ApplyViewType
    <3>2. CASE ~(m.commit > commitIndex[i])
      BY <1>1, <3>2 DEF TypeOK, ApplyTypeOK
    <3> QED
      BY <3>1, <3>2
  <2>2. commitIndex' \in [Node -> Nat] /\ tasks' = tasks
    BY <1>1, <1>5 DEF AcceptEntries, TypeOK, ApplyTypeOK
  <2> QED
    BY <2>1, <2>2 DEF TypeOK, ApplyTypeOK
<1>9. NetTypeOK'
  <2>1. Len(Extended(i, m)) \in Nat
    BY <1>4, LenProperties
  <2>2. AppendDone(m.term, Len(Extended(i, m))) \in Answer
    BY <1>3, <2>1 DEF AppendDone, Answer, AppendAnswer
  <2> QED
    BY <1>1, <2>2, RespondIfAliveType DEF TypeOK
<1> QED
  BY <1>6, <1>7, <1>8, <1>9 DEF AcceptEntries, TypeOK, LeaderTypeOK, ClientTypeOK,
    FaultTypeOK, HistoryTypeOK, leaderVars, clientVars, historyVars

-----------------------------------------------------------------------------
(* The leader and its clients. *)

LEMMA ReissueCallType ==
  ASSUME TypeOK, NEW i \in Node, NEW j \in Node, MustReissue(i, j)
  PROVE  ReissueCall(i, j) \in Call
<1> DEFINE next == nextIndex[i][j]
<1>1. log[i] \in Seq(Entry) /\ Len(log[i]) \in Nat
  BY LenProperties DEF TypeOK, LogTypeOK
<1>2. next \in Nat \ {0} /\ next <= Len(log[i]) /\ next - 1 \in Nat
  BY <1>1 DEF MustReissue, LastIndex, TypeOK, LeaderTypeOK
<1>3. TermAt(log[i], next - 1) \in Nat
  BY <1>1, <1>2, LogTermTypes
<1>4. SubSeq(log[i], next, Len(log[i])) \in Seq(Entry) \ {<<>>}
  <2>1. SubSeq(log[i], next, Len(log[i])) \in Seq(Entry)
    BY <1>1, <1>2, SubSeqType
  <2>2. \A k \in next..Len(log[i]) : log[i][k] \in Entry
    BY <1>1, <1>2, ElementOfSeq
  <2>3. Len(SubSeq(log[i], next, Len(log[i]))) = Len(log[i]) - next + 1
    BY <1>1, <1>2, <2>2, SubSeqProperties
  <2>4. Len(SubSeq(log[i], next, Len(log[i]))) # 0
    <3> HIDE DEF next
    <3> QED
      BY <1>1, <1>2, <2>3
  <2>5. Len(<<>>) = 0
    OBVIOUS
  <2>6. SubSeq(log[i], next, Len(log[i])) # <<>>
    BY <2>4, <2>5, Zenon
  <2> QED
    BY <2>1, <2>6
<1> QED
  BY <1>2, <1>3, <1>4 DEF ReissueCall, LastIndex, Call, AppendCall, TypeOK, RaftTypeOK, ApplyTypeOK

LEMMA HeartbeatTickType ==
  ASSUME TypeOK, NEW i \in Node, HeartbeatTick(i)
  PROVE  TypeOK'
<1> DEFINE batch == [j \in Node |-> IF MustReissue(i, j)
                                    THEN <<ReissueCall(i, j), HeartbeatCallOf(i)>>
                                    ELSE <<HeartbeatCallOf(i)>>]
<1>1. HeartbeatCallOf(i) \in Call
  BY DEF HeartbeatCallOf, Call, HeartbeatCall, TypeOK, RaftTypeOK, ApplyTypeOK
<1>2. \A j \in Node : batch[j] \in Seq(Call)
  <2> SUFFICES ASSUME NEW j \in Node PROVE batch[j] \in Seq(Call)
    OBVIOUS
  <2>1. CASE MustReissue(i, j)
    <3>1. ReissueCall(i, j) \in Call
      BY <2>1, ReissueCallType
    <3> QED
      BY <1>1, <2>1, <3>1
  <2>2. CASE ~MustReissue(i, j)
    BY <1>1, <2>2
  <2> QED
    BY <2>1, <2>2
<1>3. NetTypeOK'
  <2>1. Broadcast(i, batch) /\ answers' = answers
    BY DEF HeartbeatTick
  <2>2. calls' \in [Node -> [Node -> Seq(Call)]]
    <3> HIDE DEF batch
    <3> QED
      BY <1>2, <2>1, BroadcastType DEF TypeOK
  <2> QED
    BY <2>1, <2>2 DEF TypeOK, NetTypeOK
<1>4. LeaderTypeOK'
  <2>1. LastIndex(log[i]) + 1 \in Nat
    BY LastIndexType
  <2>2. nextIndex' \in [Node -> [Node -> Nat]]
    BY <2>1 DEF HeartbeatTick, TypeOK, LeaderTypeOK
  <2> QED
    BY <2>2 DEF HeartbeatTick, TypeOK, LeaderTypeOK
<1> QED
  BY <1>3, <1>4 DEF HeartbeatTick, TypeOK, RaftTypeOK, LogTypeOK, ApplyTypeOK, ClientTypeOK,
    FaultTypeOK, HistoryTypeOK, raftVars, logVars, applyVars, clientVars, historyVars

LEMMA AppendAnswerType ==
  ASSUME NEW a \in Answer, a.type = "append"
  PROVE  a \in AppendAnswer
BY DEF Answer, VoteAnswer, AppendAnswer, HeartbeatAnswer

LEMMA NoteConflictType ==
  ASSUME TypeOK, NEW i \in Node, NEW j \in Node, NoteConflict(i, j)
  PROVE  TypeOK'
<1> DEFINE a == Head(answers[i][j])
<1>1. NetTypeOK' /\ a \in Answer
  BY ConsumeType DEF NoteConflict, TypeOK, NetTypeOK
<1>2. a.conflict \in Nat
  BY <1>1, AppendAnswerType DEF NoteConflict, AppendAnswer
<1>3. LeaderTypeOK'
  BY <1>2 DEF NoteConflict, TypeOK, LeaderTypeOK
<1> QED
  BY <1>1, <1>3 DEF NoteConflict, TypeOK, RaftTypeOK, LogTypeOK, ApplyTypeOK, ClientTypeOK,
    FaultTypeOK, HistoryTypeOK, raftVars, logVars, applyVars, clientVars, historyVars

LEMMA TakenTasksType ==
  ASSUME TypeOK, NEW i \in Node, NEW n \in 0..Len(tasks[i])
  PROVE  /\ Remaining(tasks[i], n) \in Seq(Task)
         /\ Commands(SubSeq(tasks[i], 1, n)) \in Seq(Command)
<1>1. tasks[i] \in Seq(Task) /\ Len(tasks[i]) \in Nat
  BY LenProperties DEF TypeOK, ApplyTypeOK
<1>2. SubSeq(tasks[i], 1, n) \in Seq(Task)
  BY <1>1, SubSeqType
<1>3. SubSeq(tasks[i], n + 1, Len(tasks[i])) \in Seq(Task)
  BY <1>1, SubSeqType
<1>4. Commands(SubSeq(tasks[i], 1, n)) \in Seq(Command)
  BY <1>2, CommandsType DEF Task
<1> QED
  BY <1>3, <1>4 DEF Remaining

LEMMA RepliesAfterType ==
  ASSUME TypeOK, NEW done
  PROVE  RepliesAfter(done) \in [Command -> Seq(Reply)]
<1>1. [kind |-> "applied"] \in Reply
  BY DEF Reply
<1>2. \A c \in Command : replies[c] \in Seq(Reply)
  BY DEF TypeOK, ClientTypeOK
<1>3. \A c \in Command : Append(replies[c], [kind |-> "applied"]) \in Seq(Reply)
  BY <1>1, <1>2, AppendProperties
<1> QED
  BY <1>2, <1>3 DEF RepliesAfter

LEMMA NoteMatchType ==
  ASSUME TypeOK, NEW i \in Node, NEW j \in Node, NoteMatch(i, j)
  PROVE  TypeOK'
<1> DEFINE a == Head(answers[i][j])
           match == [matchIndex[i] EXCEPT ![j] = a.last]
<1>1. NetTypeOK' /\ a \in Answer
  BY ConsumeType DEF NoteMatch, TypeOK, NetTypeOK
<1>2. a.last \in Nat
  BY <1>1, AppendAnswerType DEF NoteMatch, AppendAnswer
<1>3. match \in [Node -> Nat]
  BY <1>2 DEF TypeOK, LeaderTypeOK
<1>4. LeaderTypeOK'
  <2>1. matchIndex' = [matchIndex EXCEPT ![i] = match] /\ nextIndex' = nextIndex
    BY DEF NoteMatch
  <2> HIDE DEF match
  <2> QED
    BY <1>3, <2>1 DEF TypeOK, LeaderTypeOK
<1>5. PICK c \in {match[n] : n \in Node}, n \in 0..Len(tasks[i]) :
        /\ commitIndex' = [commitIndex EXCEPT ![i] = c]
        /\ lastApplied' = [lastApplied EXCEPT ![i] = c]
        /\ executed' = [executed EXCEPT ![i] = @ \o Commands(SubSeq(tasks[i], 1, n))]
        /\ tasks' = [tasks EXCEPT ![i] = Remaining(@, n)]
        /\ replies' = RepliesAfter(SubSeq(tasks[i], 1, n))
  BY DEF NoteMatch
<1>6. ApplyTypeOK'
  <2>1. c \in Nat
    BY <1>3
  <2>2. executed[i] \o Commands(SubSeq(tasks[i], 1, n)) \in Seq(Command)
    BY TakenTasksType, ConcatProperties DEF TypeOK, ApplyTypeOK
  <2>3. Remaining(tasks[i], n) \in Seq(Task)
    BY TakenTasksType
  <2>4. down' = down
    BY DEF NoteMatch
  <2>5. commitIndex' \in [Node -> Nat] /\ lastApplied' \in [Node -> Nat]
    BY <1>5, <2>1 DEF TypeOK, ApplyTypeOK
  <2>6. executed' \in [Node -> Seq(Command)] /\ tasks' \in [Node -> Seq(Task)]
    BY <1>5, <2>2, <2>3 DEF TypeOK, ApplyTypeOK
  <2> QED
    BY <2>4, <2>5, <2>6 DEF TypeOK, ApplyTypeOK
<1>7. ClientTypeOK'
  BY <1>5, RepliesAfterType DEF NoteMatch, TypeOK, ClientTypeOK
<1> QED
  BY <1>1, <1>4, <1>6, <1>7 DEF NoteMatch, TypeOK, RaftTypeOK, LogTypeOK, FaultTypeOK,
    HistoryTypeOK, raftVars, logVars, historyVars

LEMMA ReplyToType ==
  ASSUME TypeOK, NEW c \in Command, NEW r \in Reply, ReplyTo(c, r),
         issued' = issued \union {c}, gone' = gone
  PROVE  ClientTypeOK'
<1>1. Append(replies[c], r) \in Seq(Reply)
  BY AppendProperties DEF TypeOK, ClientTypeOK
<1> QED
  BY <1>1 DEF ReplyTo, TypeOK, ClientTypeOK

LEMMA RedirectType ==
  ASSUME TypeOK, NEW i \in Node, NEW c \in Command, Redirect(i, c)
  PROVE  TypeOK'
<1>1. [kind |-> "redirect", to |-> leaderId[i]] \in Reply
  BY DEF Reply, TypeOK, RaftTypeOK
<1>2. ClientTypeOK'
  BY <1>1, ReplyToType DEF Redirect
<1> QED
  BY <1>2 DEF Redirect, TypeOK, RaftTypeOK, LogTypeOK, ApplyTypeOK, LeaderTypeOK, NetTypeOK,
    FaultTypeOK, HistoryTypeOK, raftVars, logVars, applyVars, leaderVars, netVars, historyVars

LEMMA FailProposeType ==
  ASSUME TypeOK, NEW i \in Node, NEW c \in Command, FailPropose(i, c)
  PROVE  TypeOK'
<1>1. [kind |-> "failed"] \in Reply
  BY DEF Reply
<1>2. ClientTypeOK'
  BY <1>1, ReplyToType DEF FailPropose
<1>3. FaultTypeOK'
  <2>1. faults' = [faults EXCEPT !.writeErrors = @ + 1]
    BY DEF FailPropose
  <2> QED
    BY <2>1 DEF TypeOK, FaultTypeOK
<1> QED
  BY <1>2, <1>3 DEF FailPropose, TypeOK, RaftTypeOK, LogTypeOK, ApplyTypeOK, LeaderTypeOK,
    NetTypeOK, HistoryTypeOK, raftVars, logVars, applyVars, leaderVars, netVars, historyVars

LEMMA ProposedCallType ==
  ASSUME TypeOK, NEW i \in Node, NEW c \in Command
  PROVE  LET entry == [term |-> currentTerm[i], index |-> LastIndex(log[i]) + 1, command |-> c]
             newLog == Append(log[i], entry)
         IN  [type |-> "append", term |-> currentTerm[i], prevIndex |-> PrevIndex(newLog),
              prevTerm |-> PrevTerm(newLog), entries |-> <<entry>>,
              commit |-> commitIndex[i], live |-> TRUE] \in Call
<1> DEFINE entry == [term |-> currentTerm[i], index |-> LastIndex(log[i]) + 1, command |-> c]
           newLog == Append(log[i], entry)
<1>1. entry \in Entry
  BY LastIndexType DEF Entry, TypeOK, RaftTypeOK
<1>2. log[i] \in Seq(Entry) /\ Len(log[i]) \in Nat
  BY LenProperties DEF TypeOK, LogTypeOK
<1> HIDE DEF entry
<1>3. newLog \in Seq(Entry) /\ Len(newLog) = Len(log[i]) + 1 /\ newLog # <<>>
  BY <1>1, <1>2, AppendProperties
<1>4. <<entry>> \in Seq(Entry) \ {<<>>}
  BY <1>1
<1> HIDE DEF newLog
<1>5. PrevIndex(newLog) \in Nat /\ PrevTerm(newLog) \in Nat
  BY <1>2, <1>3, LogTermTypes DEF PrevIndex
<1>6. [type |-> "append", term |-> currentTerm[i], prevIndex |-> PrevIndex(newLog),
       prevTerm |-> PrevTerm(newLog), entries |-> <<entry>>,
       commit |-> commitIndex[i], live |-> TRUE] \in Call
  BY <1>4, <1>5 DEF Call, AppendCall, TypeOK, RaftTypeOK, ApplyTypeOK
<1> QED
  BY <1>6 DEF entry, newLog

LEMMA ProposeType ==
  ASSUME TypeOK, NEW i \in Node, NEW c \in Command, Propose(i, c)
  PROVE  TypeOK'
<1> DEFINE index == LastIndex(log[i]) + 1
           entry == [term |-> currentTerm[i], index |-> index, command |-> c]
           newLog == Append(log[i], entry)
           m == [type |-> "append", term |-> currentTerm[i], prevIndex |-> PrevIndex(newLog),
                 prevTerm |-> PrevTerm(newLog), entries |-> <<entry>>,
                 commit |-> commitIndex[i], live |-> TRUE]
<1>0. /\ issued' = issued \union {c}
      /\ log' = [log EXCEPT ![i] = newLog]
      /\ disk' = [disk EXCEPT ![i] = PersistBatch(@, <<entry>>)]
      /\ matchIndex' = [matchIndex EXCEPT ![i][i] = index]
      /\ nextIndex' = [nextIndex EXCEPT ![i][i] = index + 1]
      /\ tasks' = [tasks EXCEPT ![i] = Append(@, [index |-> index, command |-> c])]
      /\ Broadcast(i, [j \in Node |-> <<m>>])
      /\ UNCHANGED <<raftVars, commitIndex, lastApplied, executed, down, answers, gone,
                     replies, faults, historyVars>>
  BY DEF Propose
<1>1. index \in Nat
  BY LastIndexType
<1>2. entry \in Entry
  BY <1>1 DEF Entry, TypeOK, RaftTypeOK
<1>3. newLog \in Seq(Entry) /\ Len(newLog) = Len(log[i]) + 1 /\ newLog # <<>>
  <2>1. log[i] \in Seq(Entry)
    BY DEF TypeOK, LogTypeOK
  <2> HIDE DEF entry
  <2> QED
    BY <1>2, <2>1, AppendProperties
<1>4. <<entry>> \in Seq(Entry) \ {<<>>}
  <2> HIDE DEF entry
  <2> QED
    BY <1>2
<1>5. LogTypeOK'
  <2>1. PersistBatch(disk[i], <<entry>>) \in Disk
    BY <1>4, PersistBatchType DEF TypeOK, LogTypeOK
  <2> HIDE DEF entry, newLog
  <2> QED
    BY <1>0, <1>3, <2>1 DEF TypeOK, LogTypeOK
<1>6. LeaderTypeOK'
  <2> HIDE DEF index
  <2> QED
    BY <1>0, <1>1 DEF TypeOK, LeaderTypeOK
<1>7. ApplyTypeOK'
  <2>1. Append(tasks[i], [index |-> index, command |-> c]) \in Seq(Task)
    BY <1>1, AppendProperties DEF Task, TypeOK, ApplyTypeOK
  <2> HIDE DEF index
  <2> QED
    BY <1>0, <2>1 DEF TypeOK, ApplyTypeOK
<1>8. NetTypeOK'
  <2>3. m \in Call
    BY ProposedCallType
  <2>4. calls' \in [Node -> [Node -> Seq(Call)]]
    <3> HIDE DEF m
    <3>1. \A j \in Node \ {i} : [n \in Node |-> <<m>>][j] \in Seq(Call)
      BY <2>3
    <3> QED
      BY <1>0, <3>1, BroadcastType DEF TypeOK
  <2> QED
    BY <1>0, <2>4 DEF TypeOK, NetTypeOK
<1> QED
  BY <1>0, <1>5, <1>6, <1>7, <1>8 DEF TypeOK, RaftTypeOK, ClientTypeOK, FaultTypeOK,
    HistoryTypeOK, raftVars, historyVars

LEMMA LoseClientType ==
  ASSUME TypeOK, NEW c \in Command, LoseClient(c)
  PROVE  TypeOK'
BY DEF LoseClient, TypeOK, RaftTypeOK, LogTypeOK, ApplyTypeOK, LeaderTypeOK, NetTypeOK,
  ClientTypeOK, FaultTypeOK, HistoryTypeOK, raftVars, logVars, applyVars, leaderVars, netVars,
  historyVars

LEMMA StutterType == TypeOK /\ UNCHANGED vars => TypeOK'
BY DEF TypeOK, RaftTypeOK, LogTypeOK, ApplyTypeOK, LeaderTypeOK, NetTypeOK, ClientTypeOK,
  FaultTypeOK, HistoryTypeOK, vars, raftVars, logVars, applyVars, leaderVars, netVars,
  clientVars, historyVars

LEMMA NextTypeOK == TypeOK /\ [Next]_vars => TypeOK'
<1> SUFFICES ASSUME TypeOK, [Next]_vars PROVE TypeOK'
  OBVIOUS
<1>1. ASSUME NEW i \in Node, ElectionTimeout(i) \/ HeartbeatTick(i) \/ Restart(i)
      PROVE  TypeOK'
  BY <1>1, ElectionTimeoutType, HeartbeatTickType, RestartType
<1>2. ASSUME NEW i \in Node, NEW j \in Node, HandleCall(i, j)
      PROVE  TypeOK'
  BY <1>2, RefuseStaleVoteType, AnswerVoteType, RefuseStaleAppendType, AcceptHeartbeatType,
    RefuseGapType, AcceptEntriesType DEF HandleCall
<1>3. ASSUME NEW i \in Node, NEW j \in Node, HandleAnswer(i, j)
      PROVE  TypeOK'
  BY <1>3, IgnoreAnswerType, StepDownType, CountVoteType, BecomeLeaderType, NoteConflictType,
    NoteMatchType DEF HandleAnswer
<1>4. ASSUME NEW i \in Node, NEW j \in Node, Fault(i, j)
      PROVE  TypeOK'
  BY <1>4, CutType, FailAppendType DEF Fault
<1>5. ASSUME NEW i \in Node, NEW c \in Command, Client(i, c) \/ FailPropose(i, c)
      PROVE  TypeOK'
  BY <1>5, RedirectType, ProposeType, FailProposeType DEF Client
<1>6. ASSUME NEW c \in Command, LoseClient(c)
      PROVE  TypeOK'
  BY <1>6, LoseClientType
<1>7. CASE UNCHANGED vars
  BY <1>7, StutterType
<1> QED
  BY <1>1, <1>2, <1>3, <1>4, <1>5, <1>6, <1>7 DEF Next

\* Every variable stays within what its field can hold, for every cluster, every set of
\* commands and every number of faults.
THEOREM TypeCorrect == Spec => []TypeOK
BY InitTypeOK, NextTypeOK, PTL DEF Spec

-----------------------------------------------------------------------------
(* Where the requests on the wire come from. *)

\* Every request from a to b after the step has the type and term of one before it.
CallsKept(a, b) ==
  \A k \in DOMAIN calls'[a][b] : \E n \in DOMAIN calls[a][b] :
    /\ calls'[a][b][k].type = calls[a][b][n].type
    /\ calls'[a][b][k].term = calls[a][b][n].term

LEMMA RemoveAtElement ==
  ASSUME NEW S, NEW s \in Seq(S), NEW k \in DOMAIN s, NEW n \in DOMAIN RemoveAt(s, k)
  PROVE  \E p \in DOMAIN s : RemoveAt(s, k)[n] = s[p]
<1> DEFINE front == SubSeq(s, 1, k - 1)
           back == SubSeq(s, k + 1, Len(s))
<1>1. Len(s) \in Nat /\ DOMAIN s = 1..Len(s) /\ k \in 1..Len(s) /\ \A p \in 1..Len(s) : s[p] \in S
  BY LenProperties, ElementOfSeq
<1>2. /\ front \in Seq(S) /\ Len(front) = k - 1
      /\ \A p \in 1..(k - 1) : front[p] = s[p]
  BY <1>1, SubSeqProperties
<1>3. /\ back \in Seq(S) /\ Len(back) = Len(s) - k
      /\ \A p \in 1..(Len(s) - k) : back[p] = s[k + p]
  BY <1>1, SubSeqProperties
<1>4. RemoveAt(s, k) = front \o back
  BY DEF RemoveAt
<1> HIDE DEF front, back
<1>5. Len(front \o back) = Len(s) - 1 /\ front \o back \in Seq(S)
  <2>1. front \o back \in Seq(S) /\ Len(front \o back) = Len(front) + Len(back)
    BY <1>2, <1>3, ConcatProperties
  <2>2. k - 1 + (Len(s) - k) = Len(s) - 1
    BY <1>1
  <2> QED
    BY <1>2, <1>3, <2>1, <2>2
<1>6. n \in 1..(Len(s) - 1)
  BY <1>4, <1>5, LenProperties
<1>7. CASE n <= k - 1
  <2>1. (front \o back)[n] = s[n]
    BY <1>1, <1>2, <1>3, <1>6, <1>7, ConcatProperties
  <2> QED
    BY <1>1, <1>4, <1>6, <2>1
<1>8. CASE n > k - 1
  <2>1. (front \o back)[n] = back[n - (k - 1)]
    BY <1>1, <1>2, <1>3, <1>6, <1>8, ConcatProperties
  <2>2. n - (k - 1) \in 1..(Len(s) - k) /\ k + (n - (k - 1)) = n + 1
    BY <1>1, <1>6, <1>8
  <2>3. back[n - (k - 1)] = s[n + 1]
    BY <1>3, <2>2
  <2> QED
    BY <1>1, <1>4, <1>6, <2>1, <2>3
<1> QED
  BY <1>1, <1>6, <1>7, <1>8

LEMMA RemovedCallsKept ==
  ASSUME NetTypeOK, NEW i \in Node, NEW j \in Node, NEW k \in Arrived(j, i),
         calls' = [calls EXCEPT ![j][i] = RemoveAt(@, k)]
  PROVE  \A a, b \in Node : CallsKept(a, b)
<1> SUFFICES ASSUME NEW a \in Node, NEW b \in Node, NEW n \in DOMAIN calls'[a][b]
             PROVE  \E p \in DOMAIN calls[a][b] : calls'[a][b][n] = calls[a][b][p]
  BY DEF CallsKept
<1>1. k \in DOMAIN calls[j][i] /\ calls[j][i] \in Seq(Call)
  BY ArrivedType DEF NetTypeOK
<1>2. CASE a = j /\ b = i
  <2>1. calls'[a][b] = RemoveAt(calls[j][i], k)
    BY <1>2 DEF NetTypeOK
  <2> QED
    BY <1>1, <1>2, <2>1, RemoveAtElement
<1>3. CASE ~(a = j /\ b = i)
  <2>1. calls'[a][b] = calls[a][b]
    BY <1>3 DEF NetTypeOK
  <2> QED
    BY <2>1
<1> QED
  BY <1>2, <1>3

LEMMA RespondIfAliveRemoves ==
  ASSUME NEW i, NEW j, NEW k, NEW a, RespondIfAlive(i, j, k, a)
  PROVE  calls' = [calls EXCEPT ![j][i] = RemoveAt(@, k)]
<1>1. CASE down'[i]
  BY <1>1, Zenon DEF RespondIfAlive
<1>2. CASE ~down'[i]
  BY <1>2, Zenon DEF RespondIfAlive, Respond
<1> QED
  BY <1>1, <1>2

LEMMA BroadcastAdds ==
  ASSUME NetTypeOK, NEW i \in Node, NEW batch,
         \A j \in Node \ {i} : batch[j] \in Seq(Call),
         Broadcast(i, batch),
         NEW a \in Node, NEW b \in Node, NEW k \in DOMAIN calls'[a][b]
  PROVE  \/ \E n \in DOMAIN calls[a][b] : calls'[a][b][k] = calls[a][b][n]
         \/ a = i /\ b # i /\ \E n \in DOMAIN batch[b] : calls'[a][b][k] = batch[b][n]
<1>1. CASE a = i /\ b # i
  <2>1. calls'[a][b] = calls[i][b] \o batch[b]
    BY <1>1 DEF Broadcast, NetTypeOK
  <2>2. calls[i][b] \in Seq(Call) /\ batch[b] \in Seq(Call)
    BY <1>1 DEF NetTypeOK
  <2> DEFINE old == calls[i][b]
             new == batch[b]
  <2>3. Len(old) \in Nat /\ Len(new) \in Nat /\ DOMAIN old = 1..Len(old) /\ DOMAIN new = 1..Len(new)
    BY <2>2, LenProperties
  <2>4. /\ old \o new \in Seq(Call) /\ Len(old \o new) = Len(old) + Len(new)
        /\ \A n \in 1..(Len(old) + Len(new)) :
             (old \o new)[n] = IF n <= Len(old) THEN old[n] ELSE new[n - Len(old)]
    BY <2>2, ConcatProperties
  <2>5. k \in 1..(Len(old) + Len(new)) /\ calls'[a][b][k] = (old \o new)[k]
    BY <2>1, <2>4, LenProperties
  <2> HIDE DEF old, new
  <2>6. CASE k <= Len(old)
    <3>1. k \in DOMAIN old /\ calls'[a][b][k] = old[k]
      BY <2>3, <2>4, <2>5, <2>6
    <3> QED
      BY <1>1, <3>1 DEF old
  <2>7. CASE k > Len(old)
    <3>1. k - Len(old) \in DOMAIN new /\ calls'[a][b][k] = new[k - Len(old)]
      BY <2>3, <2>4, <2>5, <2>7
    <3> QED
      BY <1>1, <3>1 DEF new
  <2> QED
    BY <2>3, <2>5, <2>6, <2>7
<1>2. CASE ~(a = i /\ b # i)
  <2>1. calls'[a][b] = calls[a][b]
    BY <1>2 DEF Broadcast, NetTypeOK
  <2> QED
    BY <2>1
<1> QED
  BY <1>1, <1>2

LEMMA KeptCallsInv ==
  ASSUME AppendsComeFromElected, \A a, b \in Node : CallsKept(a, b), elected \subseteq elected'
  PROVE  AppendsComeFromElected'
BY DEF AppendsComeFromElected, CallsKept

-----------------------------------------------------------------------------
(* The ways a step changes terms, roles and leaders. *)

\* A step that leaves all of them alone.
LEMMA SameTermsInv ==
  ASSUME ElectionInv, UNCHANGED <<role, leaderId, currentTerm, elected>>,
         \A n \in Node : disk'[n].term = disk[n].term
  PROVE  WinsAreOnDisk' /\ RolesMatchWins' /\ RedirectTargetWasLeader'
<1>1. \A e \in elected : e[1] \in Node
  BY DEF ElectionInv, TypeOK, HistoryTypeOK
<1> QED
  BY <1>1 DEF ElectionInv, WinsAreOnDisk, RolesMatchWins, RedirectTargetWasLeader

\* A request or response moves i to its term, and the disk of i follows.
LEMMA StepUpInv ==
  ASSUME ElectionInv, NEW i \in Node, NEW term \in Nat,
         StepUp(i, term), elected' = elected,
         NEW d \in Disk, disk' = [disk EXCEPT ![i] = d],
         disk[i].term <= d.term, d.term <= currentTerm[i] \/ d.term <= term
  PROVE  WinsAreOnDisk' /\ RolesMatchWins'
<1>1. /\ \A e \in elected : e[1] \in Node /\ e[2] \in Nat
      /\ \A n \in Node : disk[n].term \in Nat /\ currentTerm[n] \in Nat
      /\ d.term \in Nat
  BY DEF ElectionInv, TypeOK, HistoryTypeOK, LogTypeOK, RaftTypeOK, Disk
<1>2. \A n \in Node : disk'[n].term = IF n = i THEN d.term ELSE disk[n].term
  BY DEF ElectionInv, TypeOK, LogTypeOK
<1>3. \A n \in Node : /\ currentTerm'[n] >= currentTerm[n]
                      /\ currentTerm'[n] # currentTerm[n] => role'[n] = "follower"
                      /\ currentTerm'[n] = currentTerm[n] => role'[n] = role[n]
  BY <1>1 DEF StepUp, IsHigher, ElectionInv, TypeOK, RaftTypeOK
<1>4. d.term <= currentTerm'[i]
  BY <1>1, <1>3 DEF StepUp, IsHigher, ElectionInv, TypeOK, RaftTypeOK
<1>5. WinsAreOnDisk'
  <2>1. \A n \in Node : currentTerm'[n] \in Nat
    BY <1>1 DEF StepUp, ElectionInv, TypeOK, RaftTypeOK
  <2>2. \A n \in Node : disk'[n].term <= currentTerm'[n]
    BY <1>1, <1>2, <1>3, <1>4, <2>1 DEF ElectionInv, WinsAreOnDisk
  <2>3. \A e \in elected : e[2] <= disk'[e[1]].term
    BY <1>1, <1>2 DEF ElectionInv, WinsAreOnDisk
  <2> QED
    BY <2>2, <2>3 DEF WinsAreOnDisk
<1>6. RolesMatchWins'
  BY <1>3 DEF ElectionInv, RolesMatchWins
<1> QED
  BY <1>5, <1>6

\* No known leader is forgotten while the term does not fall.
LEMMA SameLeadersInv ==
  ASSUME ElectionInv, leaderId' = leaderId, elected \subseteq elected',
         \A n \in Node : currentTerm'[n] \in Nat /\ currentTerm'[n] >= currentTerm[n]
  PROVE  RedirectTargetWasLeader'
<1> SUFFICES ASSUME NEW n \in Node, leaderId[n] # Nil
             PROVE  \E t \in 0..currentTerm'[n] : <<leaderId[n], t>> \in elected'
  BY DEF RedirectTargetWasLeader
<1>1. PICK t \in 0..currentTerm[n] : <<leaderId[n], t>> \in elected
  BY DEF ElectionInv, RedirectTargetWasLeader
<1>2. t \in 0..currentTerm'[n]
  BY DEF ElectionInv, TypeOK, RaftTypeOK
<1> QED
  BY <1>1, <1>2

\* The disk of a member whose request handler runs.
LEMMA DiskAtTermTerm ==
  ASSUME TypeOK, WinsAreOnDisk, NEW i \in Node, NEW term \in Nat
  PROVE  /\ DiskAtTerm(i, term) \in Disk
         /\ disk[i].term <= DiskAtTerm(i, term).term
         /\ \/ DiskAtTerm(i, term).term <= currentTerm[i]
            \/ DiskAtTerm(i, term).term <= term
<1>1. disk[i] \in Disk /\ disk[i].term \in Nat /\ currentTerm[i] \in Nat
  BY DEF TypeOK, LogTypeOK, RaftTypeOK, Disk
<1>2. DiskAtTerm(i, term) \in Disk
  BY DiskAtTermType DEF TypeOK
<1>3. CASE IsHigher(i, term)
  <2>1. DiskAtTerm(i, term).term = term
    BY <1>1, <1>3 DEF DiskAtTerm, PersistState, Disk
  <2> QED
    BY <1>1, <1>2, <1>3, <2>1 DEF IsHigher, WinsAreOnDisk
<1>4. CASE ~IsHigher(i, term)
  BY <1>1, <1>2, <1>4 DEF DiskAtTerm, WinsAreOnDisk
<1> QED
  BY <1>3, <1>4

LEMMA PersistBatchTerm ==
  ASSUME NEW d \in Disk, NEW batch
  PROVE  PersistBatch(d, batch).term = d.term
BY DEF PersistBatch, Disk

\* handle_append_entries_request from its leader_id_ on.
LEMMA AcceptLeaderInv ==
  ASSUME ElectionInv, NEW i \in Node, NEW j \in Node, NEW m, NEW term \in Nat,
         m.term = term, <<j, term>> \in elected, AcceptLeader(i, j, m), elected' = elected,
         NEW d \in Disk, d.term = DiskAtTerm(i, term).term, disk' = [disk EXCEPT ![i] = d]
  PROVE  WinsAreOnDisk' /\ RolesMatchWins' /\ RedirectTargetWasLeader'
<1>1. StepUp(i, term) /\ term >= currentTerm[i] /\ leaderId' = [leaderId EXCEPT ![i] = j]
  BY DEF AcceptLeader
<1>2. WinsAreOnDisk' /\ RolesMatchWins'
  <2>1. /\ disk[i].term <= DiskAtTerm(i, term).term
        /\ \/ DiskAtTerm(i, term).term <= currentTerm[i]
           \/ DiskAtTerm(i, term).term <= term
    BY DiskAtTermTerm DEF ElectionInv
  <2>2. /\ disk[i].term <= d.term
        /\ d.term <= currentTerm[i] \/ d.term <= term
    BY <2>1
  <2> QED
    BY <1>1, <2>2, StepUpInv
<1>3. currentTerm' = [currentTerm EXCEPT ![i] = term]
  <2>1. CASE IsHigher(i, term)
    BY <1>1, <2>1 DEF StepUp
  <2>2. CASE ~IsHigher(i, term)
    BY <1>1, <2>2 DEF StepUp, IsHigher, ElectionInv, TypeOK, RaftTypeOK
  <2> QED
    BY <2>1, <2>2
<1>4. RedirectTargetWasLeader'
  <2>1. currentTerm'[i] = term /\ leaderId'[i] = j
    BY <1>1, <1>3 DEF ElectionInv, TypeOK, RaftTypeOK
  <2>2. \A n \in Node \ {i} : currentTerm'[n] = currentTerm[n] /\ leaderId'[n] = leaderId[n]
    BY <1>1, <1>3 DEF ElectionInv, TypeOK, RaftTypeOK
  <2>3. \E t \in 0..currentTerm'[i] : <<leaderId'[i], t>> \in elected
    BY <2>1
  <2> QED
    BY <2>2, <2>3 DEF ElectionInv, RedirectTargetWasLeader
<1> QED
  BY <1>2, <1>4

-----------------------------------------------------------------------------
(* Every step keeps the invariant of elections. *)

LEMMA QuietInv ==
  ASSUME ElectionInv, UNCHANGED <<role, leaderId, currentTerm, elected, disk, calls>>
  PROVE  WinsAreOnDisk' /\ RolesMatchWins' /\ RedirectTargetWasLeader' /\ AppendsComeFromElected'
<1>1. AppendsComeFromElected'
  BY DEF ElectionInv, AppendsComeFromElected
<1> QED
  BY <1>1, SameTermsInv

LEMMA RefusalInv ==
  ASSUME ElectionInv, NEW i \in Node, NEW j \in Node,
         RefuseStaleVote(i, j) \/ RefuseStaleAppend(i, j)
  PROVE  WinsAreOnDisk' /\ RolesMatchWins' /\ RedirectTargetWasLeader' /\ AppendsComeFromElected'
<1>1. PICK k \in Arrived(j, i) : calls' = [calls EXCEPT ![j][i] = RemoveAt(@, k)]
  BY DEF RefuseStaleVote, RefuseStaleAppend, Respond
<1>2. UNCHANGED <<role, leaderId, currentTerm, elected, disk>>
  BY DEF RefuseStaleVote, RefuseStaleAppend, raftVars, historyVars, logVars
<1>3. AppendsComeFromElected'
  BY <1>1, <1>2, RemovedCallsKept, KeptCallsInv DEF ElectionInv, TypeOK
<1> QED
  BY <1>2, <1>3, SameTermsInv

LEMMA CutInv ==
  ASSUME ElectionInv, NEW i \in Node, NEW j \in Node, Cut(i, j)
  PROVE  WinsAreOnDisk' /\ RolesMatchWins' /\ RedirectTargetWasLeader' /\ AppendsComeFromElected'
<1>1. PICK n \in 0..Len(calls[i][j]) :
        calls' = [calls EXCEPT ![i][j] = [k \in 1..n |-> [@[k] EXCEPT !.live = FALSE]]]
  BY DEF Cut
<1>2. UNCHANGED <<role, leaderId, currentTerm, elected, disk>>
  BY DEF Cut, raftVars, historyVars, logVars
<1>3. \A a, b \in Node : CallsKept(a, b)
  <2> SUFFICES ASSUME NEW a \in Node, NEW b \in Node, NEW k \in DOMAIN calls'[a][b]
               PROVE  \E p \in DOMAIN calls[a][b] :
                        /\ calls'[a][b][k].type = calls[a][b][p].type
                        /\ calls'[a][b][k].term = calls[a][b][p].term
    BY DEF CallsKept
  <2>1. CASE a = i /\ b = j
    <3>1. calls[i][j] \in Seq(Call) /\ DOMAIN calls[i][j] = 1..Len(calls[i][j])
      BY LenProperties DEF ElectionInv, TypeOK, NetTypeOK
    <3>2. calls'[a][b] = [p \in 1..n |-> [calls[i][j][p] EXCEPT !.live = FALSE]]
      BY <1>1, <2>1 DEF ElectionInv, TypeOK, NetTypeOK
    <3>3. k \in 1..n /\ k \in DOMAIN calls[i][j]
      BY <3>1, <3>2, LenProperties
    <3>4. calls[i][j][k] \in Call
      BY <3>1, <3>3, ElementOfSeq
    <3> DEFINE m == calls[i][j][k]
    <3>5. calls'[a][b][k] = [m EXCEPT !.live = FALSE]
      BY <3>2, <3>3
    <3>6. [m EXCEPT !.live = FALSE].type = m.type /\ [m EXCEPT !.live = FALSE].term = m.term
      BY <3>4 DEF Call, VoteCall, AppendCall, HeartbeatCall
    <3> QED
      BY <2>1, <3>3, <3>5, <3>6
  <2>2. CASE ~(a = i /\ b = j)
    <3>1. calls'[a][b] = calls[a][b]
      BY <1>1, <2>2 DEF ElectionInv, TypeOK, NetTypeOK
    <3> QED
      BY <3>1
  <2> QED
    BY <2>1, <2>2
<1>4. AppendsComeFromElected'
  BY <1>2, <1>3, KeptCallsInv DEF ElectionInv
<1> QED
  BY <1>2, <1>4, SameTermsInv

LEMMA RestartInv ==
  ASSUME ElectionInv, NEW i \in Node, Restart(i)
  PROVE  WinsAreOnDisk' /\ RolesMatchWins' /\ RedirectTargetWasLeader' /\ AppendsComeFromElected'
<1>1. /\ currentTerm' = [currentTerm EXCEPT ![i] = disk[i].term]
      /\ role' = [role EXCEPT ![i] = "follower"]
      /\ leaderId' = [leaderId EXCEPT ![i] = Nil]
      /\ disk' = disk /\ elected' = elected
  BY DEF Restart, historyVars
<1>2. \A n \in Node : disk[n].term \in Nat
  BY DEF ElectionInv, TypeOK, LogTypeOK, Disk
<1>3. WinsAreOnDisk'
  BY <1>1, <1>2 DEF ElectionInv, WinsAreOnDisk, TypeOK, RaftTypeOK
<1>4. RolesMatchWins'
  BY <1>1 DEF ElectionInv, RolesMatchWins, TypeOK, RaftTypeOK
<1>5. RedirectTargetWasLeader'
  BY <1>1 DEF ElectionInv, RedirectTargetWasLeader, TypeOK, RaftTypeOK
<1>6. \A a, b \in Node : CallsKept(a, b)
  <2> SUFFICES ASSUME NEW a \in Node, NEW b \in Node, NEW k \in DOMAIN calls'[a][b]
               PROVE  /\ k \in DOMAIN calls[a][b]
                      /\ calls'[a][b][k].type = calls[a][b][k].type
                      /\ calls'[a][b][k].term = calls[a][b][k].term
    BY DEF CallsKept
  <2> DEFINE old == calls[a][b]
  <2>1. calls'[a][b] = IF b = i THEN <<>>
                       ELSE IF a = i THEN [p \in DOMAIN old |-> [old[p] EXCEPT !.live = FALSE]]
                       ELSE old
    BY DEF Restart
  <2>2. b # i
    BY <2>1
  <2>3. CASE a = i
    <3>1. k \in DOMAIN old /\ old \in Seq(Call)
      BY <2>1, <2>2, <2>3 DEF ElectionInv, TypeOK, NetTypeOK
    <3>2. old[k] \in Call
      BY <3>1, LenProperties, ElementOfSeq
    <3> DEFINE m == old[k]
    <3>3. calls'[a][b][k] = [m EXCEPT !.live = FALSE]
      BY <2>1, <2>2, <2>3, <3>1
    <3>4. [m EXCEPT !.live = FALSE].type = m.type /\ [m EXCEPT !.live = FALSE].term = m.term
      BY <3>2 DEF Call, VoteCall, AppendCall, HeartbeatCall
    <3> QED
      BY <3>1, <3>3, <3>4
  <2>4. CASE a # i
    BY <2>1, <2>2, <2>4
  <2> QED
    BY <2>3, <2>4
<1>7. AppendsComeFromElected'
  BY <1>1, <1>6, KeptCallsInv DEF ElectionInv
<1> QED
  BY <1>3, <1>4, <1>5, <1>7

LEMMA ElectionTimeoutInv ==
  ASSUME ElectionInv, NEW i \in Node, ElectionTimeout(i)
  PROVE  WinsAreOnDisk' /\ RolesMatchWins' /\ RedirectTargetWasLeader' /\ AppendsComeFromElected'
<1>1. /\ currentTerm' = [currentTerm EXCEPT ![i] = @ + 1]
      /\ role' = [role EXCEPT ![i] = "candidate"]
      /\ leaderId' = leaderId /\ disk' = disk /\ elected' = elected
  BY DEF ElectionTimeout, logVars, historyVars
<1>2. \A n \in Node : disk[n].term \in Nat /\ currentTerm[n] \in Nat
  BY DEF ElectionInv, TypeOK, RaftTypeOK, LogTypeOK, Disk
<1>3. \A n \in Node : currentTerm'[n] = IF n = i THEN currentTerm[n] + 1 ELSE currentTerm[n]
  BY <1>1 DEF ElectionInv, TypeOK, RaftTypeOK
<1>4. WinsAreOnDisk'
  BY <1>1, <1>2, <1>3 DEF ElectionInv, WinsAreOnDisk
<1>5. RolesMatchWins'
  <2>1. <<i, currentTerm[i] + 1>> \notin elected
    BY <1>2 DEF ElectionInv, WinsAreOnDisk
  <2> QED
    BY <1>1, <1>3, <2>1 DEF ElectionInv, RolesMatchWins, TypeOK, RaftTypeOK
<1>6. RedirectTargetWasLeader'
  BY <1>1, <1>2, <1>3, SameLeadersInv
<1>7. AppendsComeFromElected'
  <2> DEFINE m == [type |-> "vote", term |-> currentTerm[i] + 1,
                   lastIndex |-> LastIndex(log[i]), lastTerm |-> LastTerm(log[i]), live |-> TRUE]
             batch == [n \in Node |-> <<m>>]
  <2>1. LastIndex(log[i]) \in Nat /\ LastTerm(log[i]) \in Nat
    BY LogTermTypes DEF ElectionInv, TypeOK, LogTypeOK
  <2>2. m \in Call
    BY <1>2, <2>1 DEF Call, VoteCall
  <2>3. Broadcast(i, batch)
    BY DEF ElectionTimeout
  <2>4. m.type = "vote"
    OBVIOUS
  <2> HIDE DEF m
  <2>5. \A b \in Node : batch[b] \in Seq(Call) /\ \A n \in DOMAIN batch[b] : batch[b][n] = m
    BY <2>2
  <2> HIDE DEF batch
  <2> SUFFICES ASSUME NEW a \in Node, NEW b \in Node, NEW k \in DOMAIN calls'[a][b],
                      calls'[a][b][k].type # "vote"
               PROVE  <<a, calls'[a][b][k].term>> \in elected
    BY <1>1 DEF AppendsComeFromElected
  <2>6. \E n \in DOMAIN calls[a][b] : calls'[a][b][k] = calls[a][b][n]
    BY <2>3, <2>4, <2>5, BroadcastAdds DEF ElectionInv, TypeOK
  <2> QED
    BY <2>6 DEF ElectionInv, AppendsComeFromElected
<1> QED
  BY <1>4, <1>5, <1>6, <1>7

LEMMA AnswerVoteInv ==
  ASSUME ElectionInv, NEW i \in Node, NEW j \in Node, AnswerVote(i, j)
  PROVE  WinsAreOnDisk' /\ RolesMatchWins' /\ RedirectTargetWasLeader' /\ AppendsComeFromElected'
<1>1. PICK k \in Arrived(j, i) :
        /\ StepUp(i, calls[j][i][k].term)
        /\ disk' = [disk EXCEPT ![i] = DiskAtTerm(i, calls[j][i][k].term)]
        /\ calls' = [calls EXCEPT ![j][i] = RemoveAt(@, k)]
  BY DEF AnswerVote, Respond
<1>2. leaderId' = leaderId /\ elected' = elected
  BY DEF AnswerVote
<1>3. calls[j][i][k].term \in Nat
  BY ArrivedType, CallTermType DEF ElectionInv, TypeOK
<1>4. WinsAreOnDisk' /\ RolesMatchWins'
  BY <1>1, <1>2, <1>3, DiskAtTermTerm, StepUpInv DEF ElectionInv
<1>5. RedirectTargetWasLeader'
  <2>1. \A n \in Node : currentTerm'[n] \in Nat /\ currentTerm'[n] >= currentTerm[n]
    BY <1>1, <1>3 DEF StepUp, IsHigher, ElectionInv, TypeOK, RaftTypeOK
  <2> QED
    BY <1>2, <2>1, SameLeadersInv
<1>6. AppendsComeFromElected'
  BY <1>1, <1>2, RemovedCallsKept, KeptCallsInv DEF ElectionInv, TypeOK
<1> QED
  BY <1>4, <1>5, <1>6

LEMMA StepDownInv ==
  ASSUME ElectionInv, NEW i \in Node, NEW j \in Node, StepDown(i, j)
  PROVE  WinsAreOnDisk' /\ RolesMatchWins' /\ RedirectTargetWasLeader' /\ AppendsComeFromElected'
<1>1. PICK term \in Nat, kept \in Nat :
        /\ StepUp(i, term)
        /\ disk' = [disk EXCEPT ![i] = PersistState(@, kept, Nil)]
        /\ kept = currentTerm[i] \/ kept = term
        /\ IsHigher(i, term)
  <2> DEFINE a == Head(answers[i][j])
             kept == IF a.type = "vote" THEN currentTerm[i] ELSE a.term
  <2>1. a.term \in Nat
    BY ConsumeType, AnswerTermType DEF StepDown, ElectionInv, TypeOK
  <2>2. kept \in Nat /\ (kept = currentTerm[i] \/ kept = a.term)
    BY <2>1 DEF ElectionInv, TypeOK, RaftTypeOK
  <2>3. StepUp(i, a.term) /\ disk' = [disk EXCEPT ![i] = PersistState(@, kept, Nil)]
    BY DEF StepDown
  <2>4. IsHigher(i, a.term)
    BY DEF StepDown
  <2> QED
    BY <2>1, <2>2, <2>3, <2>4
<1>2. leaderId' = leaderId /\ elected' = elected /\ calls' = calls
  BY DEF StepDown, historyVars
<1>3. disk[i] \in Disk /\ disk[i].term \in Nat /\ currentTerm[i] \in Nat
  BY DEF ElectionInv, TypeOK, LogTypeOK, RaftTypeOK, Disk
<1>4. PersistState(disk[i], kept, Nil) \in Disk /\ PersistState(disk[i], kept, Nil).term = kept
  BY <1>3, PersistStateType DEF PersistState, Disk
<1>5. disk[i].term <= kept
  BY <1>1, <1>3 DEF IsHigher, ElectionInv, WinsAreOnDisk
<1>6. WinsAreOnDisk' /\ RolesMatchWins'
  <2> DEFINE d == PersistState(disk[i], kept, Nil)
  <2>1. d \in Disk /\ disk' = [disk EXCEPT ![i] = d]
    BY <1>1, <1>4
  <2>2. disk[i].term <= d.term /\ (d.term <= currentTerm[i] \/ d.term <= term)
    BY <1>1, <1>3, <1>4, <1>5
  <2>3. StepUp(i, term) /\ elected' = elected
    BY <1>1, <1>2
  <2> HIDE DEF d
  <2> QED
    BY <2>1, <2>2, <2>3, StepUpInv
<1>7. RedirectTargetWasLeader'
  <2>1. \A n \in Node : currentTerm'[n] \in Nat /\ currentTerm'[n] >= currentTerm[n]
    BY <1>1 DEF StepUp, IsHigher, ElectionInv, TypeOK, RaftTypeOK
  <2> QED
    BY <1>2, <2>1, SameLeadersInv
<1>8. AppendsComeFromElected'
  BY <1>2 DEF ElectionInv, AppendsComeFromElected
<1> QED
  BY <1>6, <1>7, <1>8

LEMMA BecomeLeaderInv ==
  ASSUME ElectionInv, NEW i \in Node, NEW j \in Node, BecomeLeader(i, j)
  PROVE  WinsAreOnDisk' /\ RolesMatchWins' /\ RedirectTargetWasLeader' /\ AppendsComeFromElected'
<1>1. /\ role' = [role EXCEPT ![i] = "leader"]
      /\ disk' = [disk EXCEPT ![i] = PersistState(@, currentTerm[i], Nil)]
      /\ elected' = elected \union {<<i, currentTerm[i]>>}
      /\ UNCHANGED <<leaderId, currentTerm, calls>>
  BY DEF BecomeLeader
<1>2. \A n \in Node : disk[n] \in Disk /\ disk[n].term \in Nat /\ currentTerm[n] \in Nat
  BY DEF ElectionInv, TypeOK, LogTypeOK, RaftTypeOK, Disk
<1>3. \A n \in Node : disk'[n].term = IF n = i THEN currentTerm[i] ELSE disk[n].term
  BY <1>1, <1>2 DEF PersistState, Disk, ElectionInv, TypeOK, LogTypeOK
<1>4. WinsAreOnDisk'
  <2>1. \A e \in elected : e[1] \in Node /\ e[2] \in Nat
    BY DEF ElectionInv, TypeOK, HistoryTypeOK
  <2>2. \A n \in Node : disk'[n].term <= currentTerm'[n]
    BY <1>1, <1>2, <1>3 DEF ElectionInv, WinsAreOnDisk
  <2>3. \A e \in elected : e[2] <= disk'[e[1]].term
    BY <1>2, <1>3, <2>1 DEF ElectionInv, WinsAreOnDisk
  <2>4. \A e \in elected' : e[2] <= disk'[e[1]].term
    BY <1>1, <1>2, <1>3, <2>3
  <2> QED
    BY <2>2, <2>4 DEF WinsAreOnDisk
<1>5. RolesMatchWins'
  BY <1>1 DEF ElectionInv, RolesMatchWins, TypeOK, RaftTypeOK
<1>6. RedirectTargetWasLeader'
  BY <1>1, <1>2, SameLeadersInv
<1>7. AppendsComeFromElected'
  BY <1>1 DEF ElectionInv, AppendsComeFromElected
<1> QED
  BY <1>4, <1>5, <1>6, <1>7

LEMMA FollowInv ==
  ASSUME ElectionInv, NEW i \in Node, NEW j \in Node,
         \/ AcceptHeartbeat(i, j) \/ RefuseGap(i, j)
         \/ FailAppend(i, j) \/ AcceptEntries(i, j)
  PROVE  WinsAreOnDisk' /\ RolesMatchWins' /\ RedirectTargetWasLeader' /\ AppendsComeFromElected'
<1>1. PICK k \in Arrived(j, i), d \in Disk :
        LET m == calls[j][i][k] IN
        /\ m.type # "vote"
        /\ AcceptLeader(i, j, m)
        /\ d.term = DiskAtTerm(i, m.term).term
        /\ disk' = [disk EXCEPT ![i] = d]
        /\ calls' = [calls EXCEPT ![j][i] = RemoveAt(@, k)]
  <2>1. \A k \in Arrived(j, i) : /\ calls[j][i][k] \in Call
                                 /\ DiskAtTerm(i, calls[j][i][k].term) \in Disk
    BY ArrivedType, CallTermType, DiskAtTermType DEF ElectionInv, TypeOK
  <2>2. CASE AcceptHeartbeat(i, j)
    <3>1. PICK k \in Arrived(j, i) :
            LET m == calls[j][i][k] IN
            /\ m.type = "heartbeat"
            /\ AcceptLeader(i, j, m)
            /\ disk' = [disk EXCEPT ![i] = DiskAtTerm(i, m.term)]
            /\ \E a : RespondIfAlive(i, j, k, a)
      BY <2>2 DEF AcceptHeartbeat
    <3>2. calls' = [calls EXCEPT ![j][i] = RemoveAt(@, k)]
      BY <3>1, RespondIfAliveRemoves
    <3>3. DiskAtTerm(i, calls[j][i][k].term) \in Disk
      BY <2>1
    <3> QED
      BY <3>1, <3>2, <3>3
  <2>3. CASE RefuseGap(i, j)
    <3>1. PICK k \in Arrived(j, i) :
            LET m == calls[j][i][k] IN
            /\ m.type = "append"
            /\ AcceptLeader(i, j, m)
            /\ disk' = [disk EXCEPT ![i] = DiskAtTerm(i, m.term)]
            /\ calls' = [calls EXCEPT ![j][i] = RemoveAt(@, k)]
      BY <2>3 DEF RefuseGap, Respond
    <3> QED
      BY <2>1, <3>1
  <2>4. CASE FailAppend(i, j)
    <3>1. PICK k \in Arrived(j, i) :
            LET m == calls[j][i][k] IN
            /\ m.type = "append"
            /\ AcceptLeader(i, j, m)
            /\ disk' = [disk EXCEPT ![i] = DiskAtTerm(i, m.term)]
            /\ calls' = [calls EXCEPT ![j][i] = RemoveAt(@, k)]
      BY <2>4 DEF FailAppend, TruncateBatch, Respond
    <3> QED
      BY <2>1, <3>1
  <2>5. CASE AcceptEntries(i, j)
    <3>1. PICK k \in Arrived(j, i) :
            LET m == calls[j][i][k] IN
            /\ m.type = "append"
            /\ AcceptLeader(i, j, m)
            /\ disk' = [disk EXCEPT ![i] = DiskExtended(i, m)]
            /\ \E a : RespondIfAlive(i, j, k, a)
      BY <2>5 DEF AcceptEntries
    <3> DEFINE m == calls[j][i][k]
    <3>2. m \in AppendCall
      BY <2>1, <3>1, AppendCallType
    <3>3. DiskExtended(i, m) \in Disk
      BY <3>2, ExtendedType DEF ElectionInv
    <3>4. DiskExtended(i, m).term = DiskAtTerm(i, m.term).term
      BY <2>1, PersistBatchTerm DEF DiskExtended, TruncateBatch
    <3>5. calls' = [calls EXCEPT ![j][i] = RemoveAt(@, k)]
      BY <3>1, RespondIfAliveRemoves
    <3> QED
      BY <3>1, <3>3, <3>4, <3>5
  <2> QED
    BY <2>2, <2>3, <2>4, <2>5
<1>2. elected' = elected
  BY DEF AcceptHeartbeat, RefuseGap, FailAppend, AcceptEntries, historyVars
<1>3. /\ k \in DOMAIN calls[j][i]
      /\ calls[j][i][k].term \in Nat
      /\ <<j, calls[j][i][k].term>> \in elected
  BY <1>1, ArrivedType, CallTermType DEF ElectionInv, TypeOK, AppendsComeFromElected
<1>4. WinsAreOnDisk' /\ RolesMatchWins' /\ RedirectTargetWasLeader'
  BY <1>1, <1>2, <1>3, AcceptLeaderInv
<1>5. AppendsComeFromElected'
  BY <1>1, <1>2, RemovedCallsKept, KeptCallsInv DEF ElectionInv, TypeOK
<1> QED
  BY <1>4, <1>5

\* What a leader sends carries the term it has won.
LEMMA LeaderBroadcastInv ==
  ASSUME ElectionInv, NEW i \in Node, role[i] = "leader", elected' = elected,
         NEW batch,
         \A b \in Node : batch[b] \in Seq(Call)
                           /\ \A n \in DOMAIN batch[b] : batch[b][n].term = currentTerm[i],
         Broadcast(i, batch)
  PROVE  AppendsComeFromElected'
<1> SUFFICES ASSUME NEW a \in Node, NEW b \in Node, NEW k \in DOMAIN calls'[a][b],
                    calls'[a][b][k].type # "vote"
             PROVE  <<a, calls'[a][b][k].term>> \in elected
  BY DEF AppendsComeFromElected
<1>1. CASE \E n \in DOMAIN calls[a][b] : calls'[a][b][k] = calls[a][b][n]
  BY <1>1 DEF ElectionInv, AppendsComeFromElected
<1>2. CASE a = i /\ \E n \in DOMAIN batch[b] : calls'[a][b][k] = batch[b][n]
  BY <1>2 DEF ElectionInv, RolesMatchWins
<1> QED
  BY <1>1, <1>2, BroadcastAdds DEF ElectionInv, TypeOK

LEMMA HeartbeatTickInv ==
  ASSUME ElectionInv, NEW i \in Node, HeartbeatTick(i)
  PROVE  WinsAreOnDisk' /\ RolesMatchWins' /\ RedirectTargetWasLeader' /\ AppendsComeFromElected'
<1> DEFINE batch == [j \in Node |-> IF MustReissue(i, j)
                                    THEN <<ReissueCall(i, j), HeartbeatCallOf(i)>>
                                    ELSE <<HeartbeatCallOf(i)>>]
<1>1. /\ UNCHANGED <<role, leaderId, currentTerm, elected, disk>>
      /\ role[i] = "leader"
      /\ Broadcast(i, batch)
  BY DEF HeartbeatTick, raftVars, logVars, historyVars
<1>2. HeartbeatCallOf(i) \in Call /\ HeartbeatCallOf(i).term = currentTerm[i]
  BY DEF HeartbeatCallOf, Call, HeartbeatCall, ElectionInv, TypeOK, RaftTypeOK, ApplyTypeOK
<1>3. \A b \in Node : batch[b] \in Seq(Call)
                        /\ \A n \in DOMAIN batch[b] : batch[b][n].term = currentTerm[i]
  <2> SUFFICES ASSUME NEW b \in Node
               PROVE  /\ batch[b] \in Seq(Call)
                      /\ \A n \in DOMAIN batch[b] : batch[b][n].term = currentTerm[i]
    OBVIOUS
  <2>1. CASE MustReissue(i, b)
    <3>1. ReissueCall(i, b) \in Call
      BY <2>1, ReissueCallType DEF ElectionInv
    <3>2. ReissueCall(i, b).term = currentTerm[i]
      BY DEF ReissueCall
    <3> QED
      BY <1>2, <2>1, <3>1, <3>2
  <2>2. CASE ~MustReissue(i, b)
    BY <1>2, <2>2
  <2> QED
    BY <2>1, <2>2
<1>4. AppendsComeFromElected'
  <2> HIDE DEF batch
  <2> QED
    BY <1>1, <1>3, LeaderBroadcastInv
<1> QED
  BY <1>1, <1>4, SameTermsInv

LEMMA ProposeInv ==
  ASSUME ElectionInv, NEW i \in Node, NEW c \in Command, Propose(i, c)
  PROVE  WinsAreOnDisk' /\ RolesMatchWins' /\ RedirectTargetWasLeader' /\ AppendsComeFromElected'
<1>1. PICK entry, m :
        /\ disk' = [disk EXCEPT ![i] = PersistBatch(@, <<entry>>)]
        /\ m.term = currentTerm[i]
        /\ Broadcast(i, [j \in Node |-> <<m>>])
        /\ m \in Call
  <2> DEFINE entry == [term |-> currentTerm[i], index |-> LastIndex(log[i]) + 1, command |-> c]
             newLog == Append(log[i], entry)
             m == [type |-> "append", term |-> currentTerm[i], prevIndex |-> PrevIndex(newLog),
                   prevTerm |-> PrevTerm(newLog), entries |-> <<entry>>,
                   commit |-> commitIndex[i], live |-> TRUE]
  <2>1. disk' = [disk EXCEPT ![i] = PersistBatch(@, <<entry>>)]
    BY DEF Propose
  <2>2. Broadcast(i, [j \in Node |-> <<m>>])
    BY DEF Propose
  <2>3. m \in Call
    BY ProposedCallType DEF ElectionInv
  <2>4. m.term = currentTerm[i]
    OBVIOUS
  <2> QED
    BY <2>1, <2>2, <2>3, <2>4
<1>2. UNCHANGED <<role, leaderId, currentTerm, elected>> /\ role[i] = "leader"
  BY DEF Propose, raftVars, historyVars
<1>3. \A n \in Node : disk'[n].term = disk[n].term
  BY <1>1, PersistBatchTerm DEF ElectionInv, TypeOK, LogTypeOK
<1>4. AppendsComeFromElected'
  <2> DEFINE batch == [j \in Node |-> <<m>>]
  <2>1. \A b \in Node : batch[b] \in Seq(Call)
                          /\ \A n \in DOMAIN batch[b] : batch[b][n].term = currentTerm[i]
    BY <1>1
  <2>2. Broadcast(i, batch)
    BY <1>1
  <2> HIDE DEF batch
  <2> QED
    BY <1>2, <2>1, <2>2, LeaderBroadcastInv
<1> QED
  BY <1>2, <1>3, <1>4, SameTermsInv

LEMMA NextElectionInv == ElectionInv /\ [Next]_vars => ElectionInv'
<1> SUFFICES ASSUME ElectionInv, [Next]_vars PROVE ElectionInv'
  OBVIOUS
<1> DEFINE Kept == /\ WinsAreOnDisk' /\ RolesMatchWins'
                   /\ RedirectTargetWasLeader' /\ AppendsComeFromElected'
<1>1. ASSUME NEW i \in Node, ElectionTimeout(i) \/ HeartbeatTick(i) \/ Restart(i)
      PROVE  Kept
  BY <1>1, ElectionTimeoutInv, HeartbeatTickInv, RestartInv
<1>2. ASSUME NEW i \in Node, NEW j \in Node, HandleCall(i, j)
      PROVE  Kept
  BY <1>2, RefusalInv, AnswerVoteInv, FollowInv DEF HandleCall
<1>3. ASSUME NEW i \in Node, NEW j \in Node, HandleAnswer(i, j)
      PROVE  Kept
  <2>1. CASE StepDown(i, j) \/ BecomeLeader(i, j)
    BY <2>1, StepDownInv, BecomeLeaderInv
  <2>2. CASE IgnoreAnswer(i, j) \/ CountVote(i, j) \/ NoteConflict(i, j) \/ NoteMatch(i, j)
    <3>1. UNCHANGED <<role, leaderId, currentTerm, elected, disk, calls>>
      BY <2>2 DEF IgnoreAnswer, CountVote, NoteConflict, NoteMatch, raftVars, logVars,
        historyVars
    <3> QED
      BY <3>1, QuietInv
  <2> QED
    BY <1>3, <2>1, <2>2 DEF HandleAnswer
<1>4. ASSUME NEW i \in Node, NEW j \in Node, Fault(i, j)
      PROVE  Kept
  BY <1>4, CutInv, FollowInv DEF Fault
<1>5. ASSUME NEW i \in Node, NEW c \in Command, Client(i, c) \/ FailPropose(i, c)
      PROVE  Kept
  <2>1. CASE Redirect(i, c) \/ FailPropose(i, c)
    <3>1. UNCHANGED <<role, leaderId, currentTerm, elected, disk, calls>>
      BY <2>1 DEF Redirect, FailPropose, raftVars, logVars, netVars, historyVars
    <3> QED
      BY <3>1, QuietInv
  <2> QED
    BY <1>5, <2>1, ProposeInv DEF Client
<1>6. ASSUME NEW c \in Command, LoseClient(c)
      PROVE  Kept
  <2>1. UNCHANGED <<role, leaderId, currentTerm, elected, disk, calls>>
    BY <1>6 DEF LoseClient, raftVars, logVars, netVars, historyVars
  <2> QED
    BY <2>1, QuietInv
<1>7. ASSUME UNCHANGED vars
      PROVE  Kept
  BY <1>7, QuietInv DEF vars, raftVars, logVars, netVars, historyVars
<1>8. TypeOK'
  <2>1. TypeOK
    BY DEF ElectionInv
  <2> QED
    BY <2>1, NextTypeOK
<1>9. Kept
  <2> HIDE DEF Kept
  <2> QED
    BY <1>1, <1>2, <1>3, <1>4, <1>5, <1>6, <1>7 DEF Next
<1> QED
  BY <1>8, <1>9 DEF ElectionInv

LEMMA InitElectionInv == Init => ElectionInv
<1> SUFFICES ASSUME Init PROVE ElectionInv
  OBVIOUS
<1>1. WinsAreOnDisk /\ RolesMatchWins /\ AppendsComeFromElected /\ RedirectTargetWasLeader
  BY DEF Init, EmptyDisk, WinsAreOnDisk, RolesMatchWins, AppendsComeFromElected,
    RedirectTargetWasLeader
<1> QED
  BY <1>1, InitTypeOK DEF ElectionInv

\* The inductive invariant of elections: terms on disk, roles, requests on the wire and known
\* leaders agree with the elections won.
THEOREM ElectionsInvariant == Spec => []ElectionInv
BY InitElectionInv, NextElectionInv, PTL DEF Spec

\* Every term a node has won is on its disk, and its disk is not ahead of it, after any
\* number of crashes: become_leader persists the term before anything carries it.
THEOREM WinsStayOnDisk == Spec => []WinsAreOnDisk
<1>1. ElectionInv => WinsAreOnDisk
  BY DEF ElectionInv
<1> QED
  BY <1>1, ElectionsInvariant, PTL

\* A leader has won the term it is in; a candidate has not, even after a restart.
THEOREM RolesAgreeWithWins == Spec => []RolesMatchWins
<1>1. ElectionInv => RolesMatchWins
  BY DEF ElectionInv
<1> QED
  BY <1>1, ElectionsInvariant, PTL

\* Entries and heartbeats on the wire, also those of dead processes, carry a term that
\* their sender has won.
THEOREM AppendsAreFromElected == Spec => []AppendsComeFromElected
<1>1. ElectionInv => AppendsComeFromElected
  BY DEF ElectionInv
<1> QED
  BY <1>1, ElectionsInvariant, PTL

\* A redirect names a node that has won an election, in no later term than the one the
\* redirecting node is in.
THEOREM RedirectsNameLeaders == Spec => []RedirectTargetWasLeader
<1>1. ElectionInv => RedirectTargetWasLeader
  BY DEF ElectionInv
<1> QED
  BY <1>1, ElectionsInvariant, PTL

-----------------------------------------------------------------------------
(* What a step may never do. *)

\* Only become_leader makes a leader, and only a restart lowers a term.
LEMMA RoleStep ==
  ASSUME TypeOK, Next, NEW n \in Node
  PROVE  /\ currentTerm'[n] >= currentTerm[n] \/ Restart(n)
         /\ role[n] # "leader" /\ role'[n] = "leader" => \E j \in Node : BecomeLeader(n, j)
<1> DEFINE Kept == /\ currentTerm'[n] >= currentTerm[n] \/ Restart(n)
                   /\ role[n] # "leader" /\ role'[n] = "leader"
                        => \E j \in Node : BecomeLeader(n, j)
<1>0. role \in [Node -> {"follower", "candidate", "leader"}] /\ currentTerm \in [Node -> Nat]
  BY DEF TypeOK, RaftTypeOK
<1>1. CASE UNCHANGED <<role, currentTerm>>
  BY <1>0, <1>1
<1>2. ASSUME NEW i \in Node, NEW term \in Nat, StepUp(i, term)
      PROVE  Kept
  <2>1. CASE IsHigher(i, term)
    <3>1. /\ currentTerm' = [currentTerm EXCEPT ![i] = term]
          /\ role' = [role EXCEPT ![i] = "follower"]
      BY <1>2, <2>1 DEF StepUp
    <3>2. currentTerm'[n] >= currentTerm[n]
      BY <1>0, <2>1, <3>1 DEF IsHigher
    <3>3. role[n] # "leader" => role'[n] # "leader"
      BY <1>0, <3>1
    <3> QED
      BY <3>2, <3>3
  <2>2. CASE ~IsHigher(i, term)
    BY <1>1, <1>2, <2>2 DEF StepUp
  <2> QED
    BY <2>1, <2>2
<1>3. ASSUME NEW i \in Node, ElectionTimeout(i) \/ HeartbeatTick(i) \/ Restart(i)
      PROVE  Kept
  <2>1. CASE ElectionTimeout(i)
    BY <1>0, <2>1 DEF ElectionTimeout
  <2>2. CASE HeartbeatTick(i)
    BY <1>1, <2>2 DEF HeartbeatTick, raftVars
  <2>3. CASE Restart(i)
    <3>1. /\ currentTerm' = [currentTerm EXCEPT ![i] = disk[i].term]
          /\ role' = [role EXCEPT ![i] = "follower"]
      BY <2>3 DEF Restart
    <3>2. n # i => currentTerm'[n] >= currentTerm[n]
      BY <1>0, <3>1
    <3>3. role[n] # "leader" => role'[n] # "leader"
      BY <1>0, <3>1
    <3> QED
      BY <2>3, <3>2, <3>3
  <2> QED
    BY <1>3, <2>1, <2>2, <2>3
<1>4. ASSUME NEW i \in Node, NEW j \in Node, HandleCall(i, j) \/ FailAppend(i, j)
      PROVE  Kept
  <2>1. CASE RefuseStaleVote(i, j) \/ RefuseStaleAppend(i, j)
    BY <1>1, <2>1 DEF RefuseStaleVote, RefuseStaleAppend, raftVars
  <2>2. CASE ~(RefuseStaleVote(i, j) \/ RefuseStaleAppend(i, j))
    <3>1. \E k \in Arrived(j, i) : StepUp(i, calls[j][i][k].term)
      BY <1>4, <2>2 DEF HandleCall, AnswerVote, AcceptHeartbeat, RefuseGap, FailAppend,
        AcceptEntries, AcceptLeader
    <3>2. \A k \in Arrived(j, i) : calls[j][i][k].term \in Nat
      BY ArrivedType, CallTermType DEF TypeOK
    <3>3. \E term \in Nat : StepUp(i, term)
      BY <3>1, <3>2
    <3> QED
      BY <1>2, <3>3
  <2> QED
    BY <2>1, <2>2
<1>5. ASSUME NEW i \in Node, NEW j \in Node, HandleAnswer(i, j)
      PROVE  Kept
  <2>1. CASE StepDown(i, j)
    <3>1. \E term \in Nat : StepUp(i, term)
      BY <2>1, ConsumeType, AnswerTermType DEF StepDown, TypeOK
    <3> QED
      BY <1>2, <3>1
  <2>2. CASE BecomeLeader(i, j)
    <3>1. currentTerm' = currentTerm /\ role' = [role EXCEPT ![i] = "leader"]
      BY <2>2 DEF BecomeLeader
    <3>2. currentTerm'[n] >= currentTerm[n]
      BY <1>0, <3>1
    <3>3. role'[n] = "leader" /\ role[n] # "leader" => n = i
      BY <1>0, <3>1
    <3> QED
      BY <2>2, <3>2, <3>3
  <2>3. CASE ~(StepDown(i, j) \/ BecomeLeader(i, j))
    <3>1. UNCHANGED <<role, currentTerm>>
      BY <1>5, <2>3 DEF HandleAnswer, IgnoreAnswer, CountVote, NoteConflict, NoteMatch, raftVars
    <3> QED
      BY <1>1, <3>1
  <2> QED
    BY <2>1, <2>2, <2>3
<1>6. ASSUME NEW i \in Node, NEW j \in Node, Cut(i, j)
      PROVE  Kept
  BY <1>1, <1>6 DEF Cut, raftVars
<1>7. ASSUME NEW c \in Command,
             (\E i \in Node : Client(i, c) \/ FailPropose(i, c)) \/ LoseClient(c)
      PROVE  Kept
  BY <1>1, <1>7 DEF Client, Redirect, Propose, FailPropose, LoseClient, raftVars
<1> QED
  BY <1>3, <1>4, <1>5, <1>6, <1>7 DEF Next, Fault

\* No message takes a running node back to an earlier term, for any cluster and any
\* reordering of the requests.
THEOREM TermsAreMonotonic == Spec => TermsNeverGoBack
<1>1. TypeOK /\ [Next]_vars
        => [\A i \in Node : currentTerm'[i] >= currentTerm[i] \/ Restart(i)]_vars
  BY RoleStep
<1> QED
  BY <1>1, TypeCorrect, PTL DEF Spec, TermsNeverGoBack

\* No node wins the same term twice, whatever it forgets in a crash.
THEOREM ElectedAtMostOncePerTerm == Spec => ElectedOncePerTerm
<1>1. ElectionInv /\ [Next]_vars
        => [\A i \in Node : role[i] # "leader" /\ role'[i] = "leader"
                              => <<i, currentTerm'[i]>> \notin elected]_vars
  <2> SUFFICES ASSUME ElectionInv, Next, NEW i \in Node, role[i] # "leader", role'[i] = "leader"
               PROVE  <<i, currentTerm'[i]>> \notin elected
    OBVIOUS
  <2>1. PICK j \in Node : BecomeLeader(i, j)
    BY RoleStep DEF ElectionInv
  <2>2. role[i] = "candidate" /\ currentTerm' = currentTerm
    BY <2>1 DEF BecomeLeader
  <2> QED
    BY <2>2 DEF ElectionInv, RolesMatchWins
<1> QED
  BY <1>1, ElectionsInvariant, PTL DEF Spec, ElectedOncePerTerm

-----------------------------------------------------------------------------
(***************************************************************************)
(* Whoever leads was granted its term by a majority.                       *)
(*                                                                         *)
(* What a step has to know is how far each request for a vote has come.    *)
(* Of every candidate, member and term there is at most one request that   *)
(* can still be answered or one answer that grants it, and what a          *)
(* candidate has counted it can count no second time.                      *)
(***************************************************************************)

IsAsk(m, t) == m.type = "vote" /\ m.live /\ m.term = t

IsGrant(a, t) == a.type = "vote" /\ a.granted /\ a.term = t

NoAsk(s, t) == \A k \in DOMAIN s : ~IsAsk(s[k], t)

OneAsk(s, t) == \A k, l \in DOMAIN s : IsAsk(s[k], t) /\ IsAsk(s[l], t) => k = l

NoGrant(s, t) == \A k \in DOMAIN s : ~IsGrant(s[k], t)

OneGrant(s, t) == \A k, l \in DOMAIN s : IsGrant(s[k], t) /\ IsGrant(s[l], t) => k = l

\* No vote of j for i in term t can come any more.
Settled(i, j, t) == NoAsk(calls[i][j], t) /\ NoGrant(answers[i][j], t)

\* Between candidate i and member j: one vote at most, granted, and none in terms to come.
Flow(i, j, t) ==
  /\ OneAsk(calls[i][j], t) /\ OneGrant(answers[i][j], t)
  /\ NoAsk(calls[i][j], t) \/ NoGrant(answers[i][j], t)
  /\ NoGrant(answers[i][j], t) \/ <<j, i, t>> \in granted
  /\ t > currentTerm[i] \/ i = j => Settled(i, j, t)

\* The votes of i are its own and those of other members that have granted theirs and
\* whose answers are gone.
Counted(i) ==
  \E S \in SUBSET (Node \ {i}) :
    /\ Cardinality(S) + 1 = votes[i]
    /\ \A v \in S : <<v, i, currentTerm[i]>> \in granted /\ Settled(i, v, currentTerm[i])

AllFlow == \A i, j \in Node, t \in Nat : Flow(i, j, t)

AllCounted == \A i \in Node : role[i] = "candidate" => Counted(i)

\* The inductive invariant.
VoteInv == TypeOK /\ AllFlow /\ AllCounted /\ LeaderWonMajority

-----------------------------------------------------------------------------
(* Requests and answers in a queue that changes. *)

\* Where there was no request, there is none; where there was one, there are no two.
AsksThin(new, old) ==
  \A t \in Nat : (NoAsk(old, t) => NoAsk(new, t)) /\ (OneAsk(old, t) => OneAsk(new, t))

GrantsThin(new, old) ==
  \A t \in Nat : (NoGrant(old, t) => NoGrant(new, t)) /\ (OneGrant(old, t) => OneGrant(new, t))

LEMMA RemoveThin ==
  ASSUME NEW s \in Seq(Call), NEW k \in DOMAIN s
  PROVE  /\ AsksThin(RemoveAt(s, k), s)
         /\ \A t \in Nat : OneAsk(s, t) /\ IsAsk(s[k], t) => NoAsk(RemoveAt(s, k), t)
<1> DEFINE r == RemoveAt(s, k)
           from(n) == IF n < k THEN n ELSE n + 1
<1>1. /\ DOMAIN s = 1..Len(s) /\ Len(s) \in Nat /\ k \in 1..Len(s)
      /\ DOMAIN r = 1..(Len(s) - 1)
      /\ \A n \in DOMAIN r : r[n] = s[from(n)]
  <2>1. DOMAIN s = 1..Len(s) /\ Len(s) \in Nat
    BY LenProperties
  <2>2. /\ r \in Seq(Call) /\ Len(r) = Len(s) - 1
        /\ \A n \in 1..(Len(s) - 1) : r[n] = s[from(n)]
    BY RemoveAtElements
  <2>3. DOMAIN r = 1..(Len(s) - 1)
    BY <2>2, LenProperties
  <2> QED
    BY <2>1, <2>2, <2>3
<1>2. /\ \A n \in DOMAIN r : from(n) \in DOMAIN s /\ from(n) # k
      /\ \A n, p \in DOMAIN r : from(n) = from(p) => n = p
  BY <1>1
<1> HIDE DEF r, from
<1>3. \A n \in DOMAIN r, t \in Nat : IsAsk(r[n], t) = IsAsk(s[from(n)], t)
  BY <1>1
<1>4. AsksThin(r, s)
  BY <1>2, <1>3 DEF AsksThin, NoAsk, OneAsk
<1>5. \A t \in Nat : OneAsk(s, t) /\ IsAsk(s[k], t) => NoAsk(r, t)
  BY <1>2, <1>3 DEF NoAsk, OneAsk
<1> QED
  BY <1>4, <1>5 DEF r

LEMMA NoNewAsk ==
  ASSUME NEW s \in Seq(Call), NEW u \in Seq(Call), \A n \in DOMAIN u : u[n].type # "vote"
  PROVE  AsksThin(s \o u, s)
<1> SUFFICES ASSUME NEW n \in DOMAIN (s \o u), NEW t \in Nat, IsAsk((s \o u)[n], t)
             PROVE  n \in DOMAIN s /\ IsAsk(s[n], t)
  BY DEF AsksThin, NoAsk, OneAsk
<1> QED
  BY ConcatIndex DEF IsAsk

LEMMA OneNewAsk ==
  ASSUME NEW s \in Seq(Call), NEW m \in Call, NEW t \in Nat
  PROVE  /\ m.term # t /\ NoAsk(s, t) => NoAsk(s \o <<m>>, t)
         /\ m.term # t /\ OneAsk(s, t) => OneAsk(s \o <<m>>, t)
         /\ NoAsk(s, t) => OneAsk(s \o <<m>>, t)
<1> DEFINE new == s \o <<m>>
<1>1. ASSUME NEW n \in DOMAIN new
      PROVE  (n \in DOMAIN s /\ new[n] = s[n]) \/ (n = Len(s) + 1 /\ new[n] = m)
  <2>1. <<m>> \in Seq(Call) /\ DOMAIN <<m>> = {1} /\ <<m>>[1] = m
    OBVIOUS
  <2>2. \/ n \in DOMAIN s /\ new[n] = s[n]
        \/ n - Len(s) \in DOMAIN <<m>> /\ new[n] = <<m>>[n - Len(s)]
    BY <2>1, ConcatIndex
  <2>3. Len(s) \in Nat /\ n \in Nat
    <3>1. new \in Seq(Call)
      BY <2>1, ConcatProperties
    <3> QED
      BY <3>1, LenProperties
  <2> QED
    BY <2>1, <2>2, <2>3
<1> HIDE DEF new
<1>2. m.term # t => ~IsAsk(m, t)
  BY DEF IsAsk
<1>3. m.term # t /\ NoAsk(s, t) => NoAsk(new, t)
  BY <1>1, <1>2 DEF NoAsk
<1>4. m.term # t /\ OneAsk(s, t) => OneAsk(new, t)
  BY <1>1, <1>2 DEF OneAsk
<1>5. NoAsk(s, t) => OneAsk(new, t)
  BY <1>1 DEF OneAsk, NoAsk
<1> QED
  BY <1>3, <1>4, <1>5 DEF new

LEMMA TailThin ==
  ASSUME NEW s \in Seq(Answer), s # <<>>
  PROVE  /\ GrantsThin(Tail(s), s)
         /\ \A t \in Nat : OneGrant(s, t) /\ IsGrant(Head(s), t) => NoGrant(Tail(s), t)
<1> DEFINE r == Tail(s)
<1>1. /\ DOMAIN s = 1..Len(s) /\ Len(s) \in Nat \ {0}
      /\ DOMAIN r = 1..(Len(s) - 1)
      /\ \A n \in DOMAIN r : r[n] = s[n + 1]
      /\ Head(s) = s[1]
  BY HeadTailProperties, EmptySeq, LenProperties
<1>2. \A n \in DOMAIN r : n + 1 \in DOMAIN s /\ n + 1 # 1 /\ n \in Nat
  BY <1>1
<1>3. 1 \in DOMAIN s
  BY <1>1
<1> HIDE DEF r
<1>4. GrantsThin(r, s)
  <2> SUFFICES ASSUME NEW t \in Nat
               PROVE  (NoGrant(s, t) => NoGrant(r, t)) /\ (OneGrant(s, t) => OneGrant(r, t))
    BY DEF GrantsThin
  <2>1. NoGrant(s, t) => NoGrant(r, t)
    BY <1>1, <1>2 DEF NoGrant
  <2>2. ASSUME OneGrant(s, t), NEW n \in DOMAIN r, NEW p \in DOMAIN r,
               IsGrant(r[n], t), IsGrant(r[p], t)
        PROVE  n = p
    <3>1. n + 1 = p + 1
      BY <1>1, <1>2, <2>2 DEF OneGrant
    <3> QED
      BY <1>2, <3>1
  <2> QED
    BY <2>1, <2>2 DEF OneGrant
<1>5. \A t \in Nat : OneGrant(s, t) /\ IsGrant(Head(s), t) => NoGrant(r, t)
  BY <1>1, <1>2, <1>3 DEF NoGrant, OneGrant
<1> QED
  BY <1>4, <1>5 DEF r

LEMMA AppendGrant ==
  ASSUME NEW s \in Seq(Answer), NEW a \in Answer, NEW t \in Nat
  PROVE  /\ ~IsGrant(a, t) /\ NoGrant(s, t) => NoGrant(Append(s, a), t)
         /\ ~IsGrant(a, t) /\ OneGrant(s, t) => OneGrant(Append(s, a), t)
         /\ NoGrant(s, t) => OneGrant(Append(s, a), t)
<1> DEFINE new == Append(s, a)
<1>1. ASSUME NEW n \in DOMAIN new
      PROVE  (n \in DOMAIN s /\ new[n] = s[n]) \/ (n = Len(s) + 1 /\ new[n] = a)
  BY AppendProperties, LenProperties
<1> HIDE DEF new
<1>2. ~IsGrant(a, t) /\ NoGrant(s, t) => NoGrant(new, t)
  BY <1>1 DEF NoGrant
<1>3. ~IsGrant(a, t) /\ OneGrant(s, t) => OneGrant(new, t)
  BY <1>1 DEF OneGrant
<1>4. NoGrant(s, t) => OneGrant(new, t)
  BY <1>1 DEF OneGrant, NoGrant
<1> QED
  BY <1>2, <1>3, <1>4 DEF new

-----------------------------------------------------------------------------
(* Steps that bring no vote and no request for one. *)

ChannelsThin ==
  \A a, b \in Node :
      AsksThin(calls'[a][b], calls[a][b]) /\ GrantsThin(answers'[a][b], answers[a][b])

SettledStays == \A a, b \in Node, t \in Nat : Settled(a, b, t) => Settled(a, b, t)'

\* No member starts or continues a candidacy anew.
CandidatesStay ==
  \A a \in Node : role'[a] = "candidate" =>
    role[a] = "candidate" /\ currentTerm'[a] = currentTerm[a] /\ votes'[a] = votes[a]

TermsAscend ==
  \A a \in Node : currentTerm[a] \in Nat /\ currentTerm'[a] \in Nat /\ currentTerm'[a] >= currentTerm[a]

LEMMA SettledStaysThin ==
  ASSUME ChannelsThin
  PROVE  SettledStays
BY DEF ChannelsThin, AsksThin, GrantsThin, SettledStays, Settled

LEMMA FlowStaysThin ==
  ASSUME AllFlow, ChannelsThin, granted \subseteq granted', TermsAscend
  PROVE  AllFlow'
<1> SUFFICES ASSUME NEW a \in Node, NEW b \in Node, NEW t \in Nat
             PROVE  Flow(a, b, t)'
  BY DEF AllFlow
<1>1. Flow(a, b, t)
  BY DEF AllFlow
<1>2. /\ NoAsk(calls[a][b], t) => NoAsk(calls'[a][b], t)
      /\ OneAsk(calls[a][b], t) => OneAsk(calls'[a][b], t)
      /\ NoGrant(answers[a][b], t) => NoGrant(answers'[a][b], t)
      /\ OneGrant(answers[a][b], t) => OneGrant(answers'[a][b], t)
  BY DEF ChannelsThin, AsksThin, GrantsThin
<1>3. t > currentTerm'[a] => t > currentTerm[a]
  BY DEF TermsAscend
<1> QED
  BY <1>1, <1>2, <1>3 DEF Flow, Settled

LEMMA CountedStays ==
  ASSUME AllCounted, SettledStays, CandidatesStay, granted \subseteq granted', TermsAscend
  PROVE  AllCounted'
<1> SUFFICES ASSUME NEW a \in Node, role'[a] = "candidate"
             PROVE  Counted(a)'
  BY DEF AllCounted
<1>1. role[a] = "candidate" /\ currentTerm'[a] = currentTerm[a] /\ votes'[a] = votes[a]
  BY DEF CandidatesStay
<1>2. PICK S \in SUBSET (Node \ {a}) :
        /\ Cardinality(S) + 1 = votes[a]
        /\ \A v \in S : <<v, a, currentTerm[a]>> \in granted /\ Settled(a, v, currentTerm[a])
  BY <1>1 DEF AllCounted, Counted
<1>3. PICK t \in Nat : t = currentTerm[a] /\ t = currentTerm'[a]
  BY <1>1 DEF TermsAscend
<1>4. \A v \in S : <<v, a, t>> \in granted' /\ Settled(a, v, t)'
  BY <1>2, <1>3 DEF SettledStays
<1>5. Cardinality(S) + 1 = votes'[a]
  BY <1>1, <1>2
<1>6. \A v \in S : <<v, a, currentTerm'[a]>> \in granted' /\ Settled(a, v, currentTerm[a])'
  BY <1>3, <1>4 DEF Settled
<1> QED
  BY <1>5, <1>6 DEF Counted

LEMMA WonStays ==
  ASSUME TypeOK, LeaderWonMajority, granted \subseteq granted', elected' = elected
  PROVE  LeaderWonMajority'
<1> SUFFICES ASSUME NEW e \in elected
             PROVE  2 * Cardinality({v \in Node : <<v, e[1], e[2]>> \in granted'} \union {e[1]})
                      > Cardinality(Node)
  BY DEF LeaderWonMajority
<1> DEFINE before == {v \in Node : <<v, e[1], e[2]>> \in granted} \union {e[1]}
           after == {v \in Node : <<v, e[1], e[2]>> \in granted'} \union {e[1]}
<1>1. e[1] \in Node
  BY DEF TypeOK, HistoryTypeOK
<1>2. before \subseteq after /\ after \subseteq Node
  BY <1>1
<1>3. IsFiniteSet(after)
  BY <1>2, NodesAreFinite, FS_Subset
<1>4. /\ IsFiniteSet(before) /\ Cardinality(before) <= Cardinality(after)
      /\ Cardinality(before) \in Nat /\ Cardinality(after) \in Nat
      /\ Cardinality(Node) \in Nat
  BY <1>2, <1>3, NodesAreFinite, FS_Subset, FS_CardinalityType
<1>5. 2 * Cardinality(before) > Cardinality(Node)
  BY DEF LeaderWonMajority
<1> HIDE DEF before, after
<1>6. 2 * Cardinality(after) > Cardinality(Node)
  BY <1>4, <1>5
<1> QED
  BY <1>6 DEF after

LEMMA QuietVotes ==
  ASSUME VoteInv, TypeOK', ChannelsThin, CandidatesStay, TermsAscend,
         granted' = granted, elected' = elected
  PROVE  VoteInv'
BY SettledStaysThin, FlowStaysThin, CountedStays, WonStays DEF VoteInv

LEMMA SameThin ==
  ASSUME UNCHANGED <<calls, answers>>
  PROVE  ChannelsThin
BY DEF ChannelsThin, AsksThin, GrantsThin

LEMMA AnsweredThin ==
  ASSUME TypeOK, NEW i \in Node, NEW j \in Node, NEW k \in Arrived(j, i), NEW a \in Answer,
         ~(a.type = "vote" /\ a.granted),
         Respond(i, j, k, a) \/ RespondIfAlive(i, j, k, a)
  PROVE  ChannelsThin
<1>1. /\ calls' = [calls EXCEPT ![j][i] = RemoveAt(@, k)]
      /\ answers' = answers \/ answers' = [answers EXCEPT ![j][i] = Append(@, a)]
  <2>1. Respond(i, j, k, a) \/ (calls' = [calls EXCEPT ![j][i] = RemoveAt(@, k)] /\ answers' = answers)
    <3>1. CASE RespondIfAlive(i, j, k, a)
      <4>1. CASE down'[i]
        BY <3>1, <4>1, Zenon DEF RespondIfAlive
      <4>2. CASE ~down'[i]
        BY <3>1, <4>2, Zenon DEF RespondIfAlive
      <4> QED
        BY <4>1, <4>2
    <3> QED
      BY <3>1
  <2> QED
    BY <2>1, Zenon DEF Respond
<1>2. k \in DOMAIN calls[j][i]
  BY ArrivedType DEF TypeOK
<1> SUFFICES ASSUME NEW x \in Node, NEW y \in Node
             PROVE  AsksThin(calls'[x][y], calls[x][y]) /\ GrantsThin(answers'[x][y], answers[x][y])
  BY DEF ChannelsThin
<1>3. calls[x][y] \in Seq(Call) /\ answers[x][y] \in Seq(Answer)
  BY DEF TypeOK, NetTypeOK
<1>4. AsksThin(calls'[x][y], calls[x][y])
  <2>1. CASE x = j /\ y = i
    <3>1. calls'[x][y] = RemoveAt(calls[x][y], k)
      BY <1>1, <2>1 DEF TypeOK, NetTypeOK
    <3> QED
      BY <1>2, <1>3, <2>1, <3>1, RemoveThin
  <2>2. CASE ~(x = j /\ y = i)
    <3>1. calls'[x][y] = calls[x][y]
      BY <1>1, <2>2 DEF TypeOK, NetTypeOK
    <3> QED
      BY <3>1 DEF AsksThin
  <2> QED
    BY <2>1, <2>2
<1>5. GrantsThin(answers'[x][y], answers[x][y])
  <2>1. answers'[x][y] = answers[x][y] \/ answers'[x][y] = Append(answers[x][y], a)
    <3>1. CASE answers' = [answers EXCEPT ![j][i] = Append(@, a)]
      BY <3>1 DEF TypeOK, NetTypeOK
    <3> QED
      BY <1>1, <3>1
  <2>2. \A t \in Nat : ~IsGrant(a, t)
    BY DEF IsGrant
  <2> QED
    BY <1>3, <2>1, <2>2, AppendGrant DEF GrantsThin
<1> QED
  BY <1>4, <1>5

LEMMA ConsumedThin ==
  ASSUME TypeOK, NEW i \in Node, NEW j \in Node, answers[i][j] # <<>>, Consume(i, j), calls' = calls
  PROVE  ChannelsThin
<1> SUFFICES ASSUME NEW x \in Node, NEW y \in Node
             PROVE  GrantsThin(answers'[x][y], answers[x][y])
  BY DEF ChannelsThin, AsksThin
<1>1. CASE x = i /\ y = j
  <2>1. answers'[x][y] = Tail(answers[x][y]) /\ answers[x][y] \in Seq(Answer)
    BY <1>1 DEF Consume, TypeOK, NetTypeOK
  <2> QED
    BY <1>1, <2>1, TailThin
<1>2. CASE ~(x = i /\ y = j)
  <2>1. answers'[x][y] = answers[x][y]
    BY <1>2 DEF Consume, TypeOK, NetTypeOK
  <2> QED
    BY <2>1 DEF GrantsThin
<1> QED
  BY <1>1, <1>2

LEMMA BroadcastThin ==
  ASSUME TypeOK, NEW i \in Node, NEW batch, Broadcast(i, batch), answers' = answers,
         \A b \in Node : batch[b] \in Seq(Call)
                           /\ \A n \in DOMAIN batch[b] : batch[b][n].type # "vote"
  PROVE  ChannelsThin
<1> SUFFICES ASSUME NEW x \in Node, NEW y \in Node
             PROVE  AsksThin(calls'[x][y], calls[x][y])
  BY DEF ChannelsThin, GrantsThin
<1>1. CASE x = i /\ y # i
  <2>1. calls'[x][y] = calls[x][y] \o batch[y] /\ calls[x][y] \in Seq(Call)
    BY <1>1 DEF Broadcast, TypeOK, NetTypeOK
  <2> QED
    BY <2>1, NoNewAsk
<1>2. CASE ~(x = i /\ y # i)
  <2>1. calls'[x][y] = calls[x][y]
    BY <1>2 DEF Broadcast, TypeOK, NetTypeOK
  <2> QED
    BY <2>1 DEF AsksThin
<1> QED
  BY <1>1, <1>2

LEMMA DeadNoAsk ==
  ASSUME NEW s \in Seq(Call), NEW D, D \subseteq DOMAIN s, NEW t
  PROVE  NoAsk([k \in D |-> [s[k] EXCEPT !.live = FALSE]], t)
<1>1. \A k \in D : s[k] \in Call
  BY LenProperties, ElementOfSeq
<1>2. \A m \in Call : [m EXCEPT !.live = FALSE].live = FALSE
  BY DEF Call, VoteCall, AppendCall, HeartbeatCall
<1>3. \A k \in D : ~IsAsk([s[k] EXCEPT !.live = FALSE], t)
  BY <1>1, <1>2, Zenon DEF IsAsk
<1> QED
  BY <1>3 DEF NoAsk

LEMMA NoneThin ==
  ASSUME NEW new, NEW old
  PROVE  /\ (\A t \in Nat : NoAsk(new, t)) => AsksThin(new, old)
         /\ (\A t \in Nat : NoGrant(new, t)) => GrantsThin(new, old)
BY DEF AsksThin, GrantsThin, NoAsk, OneAsk, NoGrant, OneGrant

LEMMA CutThin ==
  ASSUME TypeOK, NEW i \in Node, NEW j \in Node, Cut(i, j)
  PROVE  ChannelsThin
<1>1. PICK n \in 0..Len(calls[i][j]) :
        calls' = [calls EXCEPT ![i][j] = [k \in 1..n |-> [@[k] EXCEPT !.live = FALSE]]]
  BY DEF Cut
<1>2. answers' = [answers EXCEPT ![i][j] = <<>>]
  BY DEF Cut
<1> SUFFICES ASSUME NEW x \in Node, NEW y \in Node
             PROVE  AsksThin(calls'[x][y], calls[x][y]) /\ GrantsThin(answers'[x][y], answers[x][y])
  BY DEF ChannelsThin
<1>3. CASE x = i /\ y = j
  <2>1. /\ calls'[x][y] = [k \in 1..n |-> [calls[i][j][k] EXCEPT !.live = FALSE]]
        /\ answers'[x][y] = <<>>
    BY <1>1, <1>2, <1>3 DEF TypeOK, NetTypeOK
  <2>2. calls[i][j] \in Seq(Call)
    BY DEF TypeOK, NetTypeOK
  <2>3. \A t \in Nat : NoAsk(calls'[x][y], t)
    <3> DEFINE s == calls[i][j]
               D == 1..n
    <3>1. s \in Seq(Call) /\ D \subseteq DOMAIN s
      BY <2>2, LenProperties
    <3>2. calls'[x][y] = [k \in D |-> [s[k] EXCEPT !.live = FALSE]]
      BY <2>1
    <3> HIDE DEF s, D
    <3>3. \A t \in Nat : NoAsk([k \in D |-> [s[k] EXCEPT !.live = FALSE]], t)
      BY <3>1, DeadNoAsk
    <3> QED
      BY <3>2, <3>3
  <2>4. \A t \in Nat : NoGrant(answers'[x][y], t)
    BY <2>1 DEF NoGrant
  <2> QED
    BY <2>3, <2>4, NoneThin
<1>4. CASE ~(x = i /\ y = j)
  <2>1. calls'[x][y] = calls[x][y] /\ answers'[x][y] = answers[x][y]
    BY <1>1, <1>2, <1>4 DEF TypeOK, NetTypeOK
  <2> QED
    BY <2>1 DEF AsksThin, GrantsThin
<1> QED
  BY <1>3, <1>4

\* A request or response of a higher term makes a follower.
LEMMA StepUpStays ==
  ASSUME TypeOK, NEW i \in Node, NEW term \in Nat, StepUp(i, term)
  PROVE  CandidatesStay /\ TermsAscend
<1>1. CASE IsHigher(i, term)
  BY <1>1 DEF StepUp, IsHigher, CandidatesStay, TermsAscend, TypeOK, RaftTypeOK
<1>2. CASE ~IsHigher(i, term)
  BY <1>2 DEF StepUp, CandidatesStay, TermsAscend, TypeOK, RaftTypeOK
<1> QED
  BY <1>1, <1>2

LEMMA SameStays ==
  ASSUME TypeOK, UNCHANGED <<role, currentTerm, votes>>
  PROVE  CandidatesStay /\ TermsAscend
BY DEF CandidatesStay, TermsAscend, TypeOK, RaftTypeOK

-----------------------------------------------------------------------------
(* The steps of elections. *)

LEMMA RestartVotes ==
  ASSUME VoteInv, TypeOK', NEW i \in Node, Restart(i)
  PROVE  VoteInv'
<1>1. /\ currentTerm' = [currentTerm EXCEPT ![i] = disk[i].term]
      /\ role' = [role EXCEPT ![i] = "follower"]
      /\ votes' = [votes EXCEPT ![i] = 0]
      /\ granted' = granted /\ elected' = elected
      /\ answers' = [answers EXCEPT ![i] = [j \in Node |-> <<>>]]
  BY DEF Restart, historyVars
<1>2. \A y \in Node, t \in Nat : Settled(i, y, t)'
  <2> TAKE y \in Node, t \in Nat
  <2>1. NoGrant(answers'[i][y], t)
    BY <1>1 DEF NoGrant, VoteInv, TypeOK, NetTypeOK
  <2>2. NoAsk(calls'[i][y], t)
    <3>1. CASE y = i
      <4>1. calls'[i][y] = <<>>
        BY <3>1 DEF Restart
      <4> QED
        BY <4>1 DEF NoAsk
    <3>2. CASE y # i
      <4> DEFINE s == calls[i][y]
                 D == DOMAIN s
      <4>1. calls'[i][y] = [k \in D |-> [s[k] EXCEPT !.live = FALSE]]
        BY <3>2 DEF Restart
      <4>2. s \in Seq(Call) /\ D \subseteq DOMAIN s
        BY DEF VoteInv, TypeOK, NetTypeOK
      <4> HIDE DEF s, D
      <4>3. NoAsk([k \in D |-> [s[k] EXCEPT !.live = FALSE]], t)
        BY <4>2, DeadNoAsk
      <4> QED
        BY <4>1, <4>3
    <3> QED
      BY <3>1, <3>2
  <2> QED
    BY <2>1, <2>2 DEF Settled
<1>3. \A x, y \in Node :
        x # i => /\ calls'[x][y] = <<>> \/ calls'[x][y] = calls[x][y]
                 /\ answers'[x][y] = answers[x][y]
  BY <1>1 DEF Restart, VoteInv, TypeOK, NetTypeOK
<1>4. \A x, y \in Node, t \in Nat :
        x # i => /\ NoAsk(calls[x][y], t) => NoAsk(calls'[x][y], t)
                 /\ OneAsk(calls[x][y], t) => OneAsk(calls'[x][y], t)
  BY <1>3 DEF NoAsk, OneAsk
<1>5. \A x \in Node : x # i => currentTerm'[x] = currentTerm[x] /\ role'[x] = role[x] /\ votes'[x] = votes[x]
  BY <1>1 DEF VoteInv, TypeOK, RaftTypeOK
<1>6. AllFlow'
  <2> SUFFICES ASSUME NEW x \in Node, NEW y \in Node, NEW t \in Nat
               PROVE  Flow(x, y, t)'
    BY DEF AllFlow
  <2>1. CASE x = i
    BY <1>2, <2>1 DEF Flow, Settled, NoAsk, OneAsk, NoGrant, OneGrant
  <2>2. CASE x # i
    <3>1. Flow(x, y, t)
      BY DEF VoteInv, AllFlow
    <3> QED
      BY <1>1, <1>3, <1>4, <1>5, <2>2, <3>1 DEF Flow, Settled
  <2> QED
    BY <2>1, <2>2
<1>7. AllCounted'
  <2>1. role'[i] = "follower"
    BY <1>1 DEF VoteInv, TypeOK, RaftTypeOK
  <2>2. SettledStays
    BY <1>2, <1>3, <1>4 DEF SettledStays, Settled
  <2>3. ASSUME NEW x \in Node, role'[x] = "candidate"
        PROVE  Counted(x)'
    <3>1. x # i
      BY <2>1, <2>3
    <3>2. PICK t \in Nat : t = currentTerm[x] /\ t = currentTerm'[x]
      BY <1>5, <3>1 DEF VoteInv, TypeOK, RaftTypeOK
    <3>3. PICK S \in SUBSET (Node \ {x}) :
            /\ Cardinality(S) + 1 = votes[x]
            /\ \A v \in S : <<v, x, t>> \in granted /\ Settled(x, v, t)
      BY <1>5, <2>3, <3>1, <3>2 DEF VoteInv, AllCounted, Counted
    <3>4. \A v \in S : <<v, x, t>> \in granted' /\ Settled(x, v, t)'
      BY <1>1, <2>2, <3>3 DEF SettledStays
    <3>5. \A v \in S : <<v, x, currentTerm'[x]>> \in granted' /\ Settled(x, v, currentTerm[x])'
      BY <3>2, <3>4 DEF Settled
    <3>6. Cardinality(S) + 1 = votes'[x]
      BY <1>5, <3>1, <3>3
    <3> QED
      BY <3>5, <3>6 DEF Counted
  <2> QED
    BY <2>3 DEF AllCounted
<1> QED
  BY <1>1, <1>6, <1>7, WonStays DEF VoteInv

LEMMA ElectionTimeoutVotes ==
  ASSUME VoteInv, TypeOK', NEW i \in Node, ElectionTimeout(i)
  PROVE  VoteInv'
<1> DEFINE T == currentTerm[i] + 1
           m == [type |-> "vote", term |-> T, lastIndex |-> LastIndex(log[i]),
                 lastTerm |-> LastTerm(log[i]), live |-> TRUE]
           batch == [n \in Node |-> <<m>>]
<1>1. /\ currentTerm' = [currentTerm EXCEPT ![i] = @ + 1]
      /\ role' = [role EXCEPT ![i] = "candidate"]
      /\ votes' = [votes EXCEPT ![i] = 1]
      /\ Broadcast(i, batch)
      /\ UNCHANGED <<answers, granted, elected>>
  BY DEF ElectionTimeout, historyVars
<1>2. m \in Call /\ m.term = T
  <2>1. LastIndex(log[i]) \in Nat /\ LastTerm(log[i]) \in Nat
    BY LogTermTypes DEF VoteInv, TypeOK, LogTypeOK
  <2> QED
    BY <2>1 DEF Call, VoteCall, VoteInv, TypeOK, RaftTypeOK
<1>3. /\ \A y \in Node : y # i => calls'[i][y] = calls[i][y] \o <<m>>
      /\ \A x, y \in Node : x # i \/ y = i => calls'[x][y] = calls[x][y]
  BY <1>1 DEF Broadcast, VoteInv, TypeOK, NetTypeOK
<1>4. T \in Nat /\ T > currentTerm[i]
  BY DEF VoteInv, TypeOK, RaftTypeOK
<1>5. \A x \in Node : currentTerm'[x] = IF x = i THEN T ELSE currentTerm[x]
  BY <1>1 DEF VoteInv, TypeOK, RaftTypeOK
<1> HIDE DEF T, m, batch
<1>6. ASSUME NEW x \in Node, NEW y \in Node, NEW t \in Nat, x # i \/ y = i \/ t # T
      PROVE  /\ NoAsk(calls[x][y], t) => NoAsk(calls'[x][y], t)
             /\ OneAsk(calls[x][y], t) => OneAsk(calls'[x][y], t)
  <2>1. CASE x = i /\ y # i
    <3>1. calls[i][y] \in Seq(Call)
      BY DEF VoteInv, TypeOK, NetTypeOK
    <3> QED
      BY <1>2, <1>3, <1>6, <2>1, <3>1, OneNewAsk
  <2>2. CASE ~(x = i /\ y # i)
    BY <1>3, <2>2
  <2> QED
    BY <2>1, <2>2
<1>7. AllFlow'
  <2> SUFFICES ASSUME NEW x \in Node, NEW y \in Node, NEW t \in Nat
               PROVE  Flow(x, y, t)'
    BY DEF AllFlow
  <2>0. Flow(x, y, t)
    BY DEF VoteInv, AllFlow
  <2>1. CASE x = i /\ y # i /\ t = T
    <3>1. Settled(i, y, T)
      BY <1>4, <2>0, <2>1 DEF Flow
    <3>2. calls[i][y] \in Seq(Call)
      BY DEF VoteInv, TypeOK, NetTypeOK
    <3>3. OneAsk(calls'[i][y], T)
      BY <1>2, <1>3, <1>4, <2>1, <3>1, <3>2, OneNewAsk DEF Settled
    <3>4. ~(t > currentTerm'[x])
      BY <1>4, <1>5, <2>1
    <3>5. NoGrant(answers'[i][y], T) /\ OneGrant(answers'[i][y], T)
      BY <1>1, <3>1 DEF Settled, NoGrant, OneGrant
    <3> QED
      BY <2>1, <3>3, <3>4, <3>5 DEF Flow
  <2>2. CASE ~(x = i /\ y # i /\ t = T)
    <3>1. t > currentTerm'[x] => t > currentTerm[x]
      BY <1>4, <1>5 DEF VoteInv, TypeOK, RaftTypeOK
    <3> QED
      BY <1>1, <1>6, <2>0, <2>2, <3>1 DEF Flow, Settled
  <2> QED
    BY <2>1, <2>2
<1>8. AllCounted'
  <2> SUFFICES ASSUME NEW x \in Node, role'[x] = "candidate"
               PROVE  Counted(x)'
    BY DEF AllCounted
  <2>1. CASE x = i
    <3>1. votes'[x] = 1
      BY <1>1, <2>1 DEF VoteInv, TypeOK, RaftTypeOK
    <3>2. {} \in SUBSET (Node \ {x}) /\ Cardinality({}) + 1 = votes'[x]
      BY <3>1, FS_EmptySet
    <3> QED
      BY <3>2 DEF Counted
  <2>2. CASE x # i
    <3>1. /\ role[x] = "candidate" /\ currentTerm'[x] = currentTerm[x] /\ votes'[x] = votes[x]
          /\ currentTerm[x] \in Nat
      BY <1>1, <2>2 DEF VoteInv, TypeOK, RaftTypeOK
    <3>2. PICK S \in SUBSET (Node \ {x}) :
            /\ Cardinality(S) + 1 = votes[x]
            /\ \A v \in S : <<v, x, currentTerm[x]>> \in granted /\ Settled(x, v, currentTerm[x])
      BY <3>1 DEF VoteInv, AllCounted, Counted
    <3>3. \A v \in S : calls'[x][v] = calls[x][v]
      BY <1>3, <2>2, <3>2
    <3>4. \A v \in S : <<v, x, currentTerm'[x]>> \in granted' /\ Settled(x, v, currentTerm[x])'
      BY <1>1, <3>1, <3>2, <3>3 DEF Settled
    <3>5. Cardinality(S) + 1 = votes'[x]
      BY <3>1, <3>2
    <3> QED
      BY <3>4, <3>5 DEF Counted
  <2> QED
    BY <2>1, <2>2
<1> QED
  BY <1>1, <1>7, <1>8, WonStays DEF VoteInv

LEMMA AnswerVoteVotes ==
  ASSUME VoteInv, TypeOK', NEW i \in Node, NEW j \in Node, AnswerVote(i, j)
  PROVE  VoteInv'
<1>1. PICK k \in Arrived(j, i) :
        /\ calls[j][i][k].type = "vote"
        /\ StepUp(i, calls[j][i][k].term)
        /\ LET m == calls[j][i][k] IN
           /\ Respond(i, j, k, [type |-> "vote", term |-> m.term, granted |-> GrantsVote(i, j, m)])
           /\ granted' = IF GrantsVote(i, j, m) THEN granted \union {<<i, j, m.term>>} ELSE granted
  BY DEF AnswerVote
<1> DEFINE m == calls[j][i][k]
           T == m.term
           a == [type |-> "vote", term |-> T, granted |-> GrantsVote(i, j, m)]
<1>2. elected' = elected
  BY DEF AnswerVote
<1>3. k \in DOMAIN calls[j][i] /\ m \in Call /\ T \in Nat /\ calls[j][i] \in Seq(Call)
  BY ArrivedType, CallTermType DEF VoteInv, TypeOK, NetTypeOK
<1>4. a \in Answer
  BY <1>3 DEF Answer, VoteAnswer, GrantsVote
<1>5. CandidatesStay /\ TermsAscend
  BY <1>1, <1>3, StepUpStays DEF VoteInv
<1>6. granted \subseteq granted' /\ (IsGrant(a, T) => <<i, j, T>> \in granted')
  BY <1>1 DEF IsGrant
<1>7. /\ calls' = [calls EXCEPT ![j][i] = RemoveAt(@, k)]
      /\ answers' = IF m.live THEN [answers EXCEPT ![j][i] = Append(@, a)] ELSE answers
  BY <1>1 DEF Respond
<1>8. /\ calls'[j][i] = RemoveAt(calls[j][i], k)
      /\ \A x, y \in Node : x # j \/ y # i => calls'[x][y] = calls[x][y]
  BY <1>7 DEF VoteInv, TypeOK, NetTypeOK
<1>9. /\ m.live => answers'[j][i] = Append(answers[j][i], a)
      /\ ~m.live => answers'[j][i] = answers[j][i]
      /\ \A x, y \in Node : x # j \/ y # i => answers'[x][y] = answers[x][y]
      /\ answers[j][i] \in Seq(Answer)
  <2>1. CASE m.live
    BY <1>7, <2>1 DEF VoteInv, TypeOK, NetTypeOK
  <2>2. CASE ~m.live
    BY <1>7, <2>2 DEF VoteInv, TypeOK, NetTypeOK
  <2> QED
    BY <2>1, <2>2
<1>10. \A t \in Nat : IsGrant(a, t) => t = T
  BY DEF IsGrant
<1>11. m.live => IsAsk(m, T)
  BY <1>1 DEF IsAsk
<1>12. /\ AsksThin(calls'[j][i], calls[j][i])
       /\ \A t \in Nat : OneAsk(calls[j][i], t) /\ IsAsk(m, t) => NoAsk(calls'[j][i], t)
  BY <1>3, <1>8, RemoveThin
<1> HIDE DEF m, T, a
\* Where a request is answered with a vote, there was no other request or vote.
<1>13. ASSUME NEW t \in Nat
       PROVE  /\ Settled(j, i, t) => Settled(j, i, t)'
              /\ Flow(j, i, t)'
  <2>1. Flow(j, i, t)
    BY DEF VoteInv, AllFlow
  <2>2. t > currentTerm'[j] => t > currentTerm[j]
    BY <1>5 DEF TermsAscend
  <2>3. CASE m.live /\ IsGrant(a, t)
    <3>1. t = T /\ IsAsk(m, t) /\ k \in DOMAIN calls[j][i] /\ m = calls[j][i][k]
      BY <1>3, <1>10, <1>11, <2>3 DEF m
    <3>2. ~NoAsk(calls[j][i], t) /\ NoGrant(answers[j][i], t)
      BY <2>1, <3>1 DEF NoAsk, Flow
    <3>3. NoAsk(calls'[j][i], t) /\ OneAsk(calls'[j][i], t)
      BY <1>12, <2>1, <3>1 DEF Flow, AsksThin
    <3>4. OneGrant(answers'[j][i], t)
      BY <1>4, <1>9, <2>3, <3>2, AppendGrant
    <3>5. <<i, j, t>> \in granted'
      BY <1>6, <2>3, <3>1
    <3>6. ~Settled(j, i, t) /\ ~(t > currentTerm[j] \/ j = i)
      BY <2>1, <3>2 DEF Settled, Flow
    <3> QED
      BY <2>2, <3>3, <3>4, <3>5, <3>6 DEF Flow
  <2>4. CASE ~(m.live /\ IsGrant(a, t))
    <3>1. /\ NoGrant(answers[j][i], t) => NoGrant(answers'[j][i], t)
          /\ OneGrant(answers[j][i], t) => OneGrant(answers'[j][i], t)
      BY <1>4, <1>9, <2>4, AppendGrant
    <3>2. /\ NoAsk(calls[j][i], t) => NoAsk(calls'[j][i], t)
          /\ OneAsk(calls[j][i], t) => OneAsk(calls'[j][i], t)
      BY <1>12 DEF AsksThin
    <3>3. Settled(j, i, t) => Settled(j, i, t)'
      BY <3>1, <3>2 DEF Settled
    <3> QED
      BY <1>6, <2>1, <2>2, <3>1, <3>2, <3>3 DEF Flow
  <2> QED
    BY <2>3, <2>4
<1>14. ASSUME NEW x \in Node, NEW y \in Node, NEW t \in Nat
       PROVE  (Settled(x, y, t) => Settled(x, y, t)') /\ Flow(x, y, t)'
  <2>1. CASE x = j /\ y = i
    BY <1>13, <2>1
  <2>2. CASE ~(x = j /\ y = i)
    <3>1. Flow(x, y, t)
      BY DEF VoteInv, AllFlow
    <3>2. t > currentTerm'[x] => t > currentTerm[x]
      BY <1>5 DEF TermsAscend
    <3> QED
      BY <1>6, <1>8, <1>9, <2>2, <3>1, <3>2 DEF Flow, Settled
  <2> QED
    BY <2>1, <2>2
<1>15. AllFlow' /\ SettledStays
  BY <1>14 DEF AllFlow, SettledStays
<1> QED
  BY <1>2, <1>5, <1>6, <1>15, CountedStays, WonStays DEF VoteInv

\* A vote that is counted was granted, and was not counted before.
LEMMA VoteIsNew ==
  ASSUME VoteInv, NEW i \in Node, NEW j \in Node, answers[i][j] # <<>>,
         IsVote(i, Head(answers[i][j])), role[i] = "candidate"
  PROVE  \E t \in Nat, S \in SUBSET (Node \ {i}) :
           /\ t = currentTerm[i] /\ IsGrant(Head(answers[i][j]), t)
           /\ j \in Node \ {i} /\ j \notin S
           /\ <<j, i, t>> \in granted
           /\ Cardinality(S) + 1 = votes[i]
           /\ \A v \in S : <<v, i, t>> \in granted /\ Settled(i, v, t)
           /\ NoAsk(calls[i][j], t) /\ OneGrant(answers[i][j], t)
<1>1. PICK S \in SUBSET (Node \ {i}) :
        /\ Cardinality(S) + 1 = votes[i]
        /\ \A v \in S : <<v, i, currentTerm[i]>> \in granted /\ Settled(i, v, currentTerm[i])
  BY DEF VoteInv, AllCounted, Counted
<1>2. PICK t \in Nat : t = currentTerm[i]
  BY DEF VoteInv, TypeOK, RaftTypeOK
<1>3. Head(answers[i][j]) \in Answer /\ answers[i][j] \in Seq(Answer)
  BY ConsumeType DEF VoteInv, TypeOK, NetTypeOK
<1>4. IsGrant(Head(answers[i][j]), t)
  <2>1. Head(answers[i][j]).term \in Nat
    BY <1>3, AnswerTermType
  <2> QED
    BY <1>2, <2>1 DEF IsVote, IsStale, IsHigher, IsGrant
<1>5. ~NoGrant(answers[i][j], t)
  <2>1. 1 \in DOMAIN answers[i][j] /\ Head(answers[i][j]) = answers[i][j][1]
    BY <1>3, EmptySeq, LenProperties
  <2> QED
    BY <1>4, <2>1 DEF NoGrant
<1>6. Flow(i, j, t)
  BY DEF VoteInv, AllFlow
<1>7. j # i /\ j \notin S
  BY <1>1, <1>2, <1>5, <1>6 DEF Flow, Settled
<1> QED
  BY <1>1, <1>2, <1>4, <1>5, <1>6, <1>7 DEF Flow

LEMMA CountVoteVotes ==
  ASSUME VoteInv, TypeOK', NEW i \in Node, NEW j \in Node, CountVote(i, j)
  PROVE  VoteInv'
<1>1. /\ answers[i][j] # <<>> /\ IsVote(i, Head(answers[i][j])) /\ role[i] # "leader"
      /\ Consume(i, j)
      /\ votes' = [votes EXCEPT ![i] = @ + 1]
      /\ UNCHANGED <<role, currentTerm, calls, granted, elected>>
  BY DEF CountVote, historyVars
<1>2. ChannelsThin
  BY <1>1, ConsumedThin DEF VoteInv
<1>3. TermsAscend
  BY <1>1 DEF TermsAscend, VoteInv, TypeOK, RaftTypeOK
<1>4. AllFlow' /\ SettledStays
  BY <1>1, <1>2, <1>3, FlowStaysThin, SettledStaysThin DEF VoteInv
<1>5. AllCounted'
  <2> SUFFICES ASSUME NEW x \in Node, role[x] = "candidate"
               PROVE  Counted(x)'
    BY <1>1 DEF AllCounted
  <2>1. CASE x = i
    <3>1. PICK t \in Nat, S \in SUBSET (Node \ {i}) :
            /\ t = currentTerm[i] /\ IsGrant(Head(answers[i][j]), t)
            /\ j \in Node \ {i} /\ j \notin S
            /\ <<j, i, t>> \in granted
            /\ Cardinality(S) + 1 = votes[i]
            /\ \A v \in S : <<v, i, t>> \in granted /\ Settled(i, v, t)
            /\ NoAsk(calls[i][j], t) /\ OneGrant(answers[i][j], t)
      BY <1>1, <2>1, VoteIsNew
    <3>2. Settled(i, j, t)'
      <4>1. answers'[i][j] = Tail(answers[i][j]) /\ answers[i][j] \in Seq(Answer)
        BY <1>1 DEF Consume, VoteInv, TypeOK, NetTypeOK
      <4>2. NoGrant(answers'[i][j], t)
        BY <1>1, <3>1, <4>1, TailThin
      <4> QED
        BY <1>1, <3>1, <4>2 DEF Settled
    <3> DEFINE SS == S \union {j}
    <3>3. \A v \in SS : <<v, i, t>> \in granted' /\ Settled(i, v, t)'
      BY <1>1, <1>4, <3>1, <3>2 DEF SettledStays
    <3>4. Cardinality(SS) + 1 = votes'[i] /\ SS \in SUBSET (Node \ {i})
      <4>1. IsFiniteSet(S)
        BY <3>1, NodesAreFinite, FS_Subset
      <4>2. Cardinality(SS) = Cardinality(S) + 1
        BY <3>1, <4>1, FS_AddElement
      <4>3. votes'[i] = votes[i] + 1
        BY <1>1 DEF VoteInv, TypeOK, RaftTypeOK
      <4> QED
        BY <3>1, <4>2, <4>3
    <3>5. \A v \in SS : <<v, i, currentTerm'[i]>> \in granted' /\ Settled(i, v, currentTerm[i])'
      BY <1>1, <3>1, <3>3 DEF Settled
    <3> HIDE DEF SS
    <3> QED
      BY <2>1, <3>4, <3>5 DEF Counted
  <2>2. CASE x # i
    <3>1. votes'[x] = votes[x]
      BY <1>1, <2>2 DEF VoteInv, TypeOK, RaftTypeOK
    <3>2. PICK t \in Nat : t = currentTerm[x]
      BY DEF VoteInv, TypeOK, RaftTypeOK
    <3>3. PICK S \in SUBSET (Node \ {x}) :
            /\ Cardinality(S) + 1 = votes[x]
            /\ \A v \in S : <<v, x, t>> \in granted /\ Settled(x, v, t)
      BY <3>2 DEF VoteInv, AllCounted, Counted
    <3>4. \A v \in S : <<v, x, t>> \in granted' /\ Settled(x, v, t)'
      BY <1>1, <1>4, <3>3 DEF SettledStays
    <3>5. \A v \in S : <<v, x, currentTerm'[x]>> \in granted' /\ Settled(x, v, currentTerm[x])'
      BY <1>1, <3>2, <3>4 DEF Settled
    <3> QED
      BY <3>1, <3>3, <3>5 DEF Counted
  <2> QED
    BY <2>1, <2>2
<1> QED
  BY <1>1, <1>4, <1>5, WonStays DEF VoteInv

LEMMA BecomeLeaderVotes ==
  ASSUME VoteInv, TypeOK', NEW i \in Node, NEW j \in Node, BecomeLeader(i, j)
  PROVE  VoteInv'
<1>1. /\ answers[i][j] # <<>> /\ IsVote(i, Head(answers[i][j])) /\ role[i] = "candidate"
      /\ WinsWith(votes[i] + 1)
      /\ Consume(i, j)
      /\ role' = [role EXCEPT ![i] = "leader"]
      /\ votes' = [votes EXCEPT ![i] = 0]
      /\ elected' = elected \union {<<i, currentTerm[i]>>}
      /\ UNCHANGED <<currentTerm, calls, granted>>
  BY DEF BecomeLeader
<1>2. ChannelsThin
  BY <1>1, ConsumedThin DEF VoteInv
<1>3. CandidatesStay /\ TermsAscend
  BY <1>1 DEF CandidatesStay, TermsAscend, VoteInv, TypeOK, RaftTypeOK
<1>4. AllFlow' /\ AllCounted'
  BY <1>1, <1>2, <1>3, FlowStaysThin, SettledStaysThin, CountedStays DEF VoteInv
<1>5. 2 * Cardinality({v \in Node : <<v, i, currentTerm[i]>> \in granted} \union {i})
        > Cardinality(Node)
  <2>1. PICK t \in Nat, S \in SUBSET (Node \ {i}) :
          /\ t = currentTerm[i] /\ IsGrant(Head(answers[i][j]), t)
          /\ j \in Node \ {i} /\ j \notin S
          /\ <<j, i, t>> \in granted
          /\ Cardinality(S) + 1 = votes[i]
          /\ \A v \in S : <<v, i, t>> \in granted /\ Settled(i, v, t)
          /\ NoAsk(calls[i][j], t) /\ OneGrant(answers[i][j], t)
    BY <1>1, VoteIsNew
  <2> DEFINE SS == S \union {j}
             all == {v \in Node : <<v, i, currentTerm[i]>> \in granted} \union {i}
  <2>2. IsFiniteSet(S) /\ IsFiniteSet(SS) /\ Cardinality(SS) = Cardinality(S) + 1
    <3>1. IsFiniteSet(S)
      BY <2>1, NodesAreFinite, FS_Subset
    <3> QED
      BY <2>1, <3>1, FS_AddElement
  <2>3. i \notin SS /\ SS \union {i} \subseteq all /\ all \subseteq Node
    BY <2>1
  <2>4. Cardinality(SS \union {i}) = Cardinality(SS) + 1
    BY <2>2, <2>3, FS_AddElement
  <2>5. IsFiniteSet(all)
    BY <2>3, NodesAreFinite, FS_Subset
  <2>6. Cardinality(SS \union {i}) <= Cardinality(all)
    BY <2>3, <2>5, FS_Subset
  <2>7. Cardinality(S) \in Nat /\ Cardinality(all) \in Nat /\ Cardinality(Node) \in Nat
    BY <2>2, <2>5, NodesAreFinite, FS_CardinalityType
  <2>8. Cardinality(all) >= votes[i] + 1
    BY <2>1, <2>2, <2>4, <2>6, <2>7
  <2>9. votes[i] + 1 > Cardinality(Node) \div 2 /\ votes[i] \in Nat
    BY <1>1 DEF WinsWith, VoteInv, TypeOK, RaftTypeOK
  <2> HIDE DEF all
  <2>10. 2 * Cardinality(all) > Cardinality(Node)
    BY <2>7, <2>8, <2>9
  <2> QED
    BY <2>10 DEF all
<1>6. LeaderWonMajority'
  <2> SUFFICES ASSUME NEW e \in elected'
               PROVE  2 * Cardinality({v \in Node : <<v, e[1], e[2]>> \in granted} \union {e[1]})
                        > Cardinality(Node)
    BY <1>1 DEF LeaderWonMajority
  <2>1. CASE e \in elected
    BY <2>1 DEF VoteInv, LeaderWonMajority
  <2>2. CASE e = <<i, currentTerm[i]>>
    BY <1>5, <2>2
  <2> QED
    BY <1>1, <2>1, <2>2
<1> QED
  BY <1>4, <1>6 DEF VoteInv

-----------------------------------------------------------------------------
(* The other steps. *)

LEMMA RefusalVotes ==
  ASSUME VoteInv, TypeOK', NEW i \in Node, NEW j \in Node,
         RefuseStaleVote(i, j) \/ RefuseStaleAppend(i, j)
  PROVE  VoteInv'
<1>1. PICK k \in Arrived(j, i), a \in Answer :
        /\ ~(a.type = "vote" /\ a.granted)
        /\ Respond(i, j, k, a)
  <2>1. currentTerm[i] \in Nat /\ LastIndex(log[i]) \in Nat
    BY LogTermTypes DEF VoteInv, TypeOK, RaftTypeOK, LogTypeOK
  <2>2. CASE RefuseStaleVote(i, j)
    <3> DEFINE a == [type |-> "vote", term |-> currentTerm[i], granted |-> FALSE]
    <3>1. a \in Answer /\ ~a.granted
      BY <2>1 DEF Answer, VoteAnswer
    <3>2. \E k \in Arrived(j, i) : Respond(i, j, k, a)
      BY <2>2 DEF RefuseStaleVote
    <3> QED
      BY <3>1, <3>2
  <2>3. CASE RefuseStaleAppend(i, j)
    <3> DEFINE h == [type |-> "heartbeat", term |-> currentTerm[i]]
               r == AppendRefused(currentTerm[i], LastIndex(log[i]))
    <3>1. h \in Answer /\ h.type # "vote" /\ r \in Answer /\ r.type # "vote"
      BY <2>1 DEF Answer, HeartbeatAnswer, AppendAnswer, AppendRefused
    <3>2. \E k \in Arrived(j, i) : Respond(i, j, k, h) \/ Respond(i, j, k, r)
      BY <2>3 DEF RefuseStaleAppend
    <3> QED
      BY <3>1, <3>2
  <2> QED
    BY <2>2, <2>3
<1>2. ChannelsThin
  BY <1>1, AnsweredThin DEF VoteInv
<1>3. UNCHANGED <<role, currentTerm, votes, granted, elected>>
  BY DEF RefuseStaleVote, RefuseStaleAppend, raftVars, historyVars
<1> QED
  BY <1>2, <1>3, SameStays, QuietVotes DEF VoteInv

LEMMA FollowVotes ==
  ASSUME VoteInv, TypeOK', NEW i \in Node, NEW j \in Node,
         \/ AcceptHeartbeat(i, j) \/ RefuseGap(i, j)
         \/ FailAppend(i, j) \/ AcceptEntries(i, j)
  PROVE  VoteInv'
<1>0. PICK k \in Arrived(j, i) :
        LET m == calls[j][i][k] IN
        /\ StepUp(i, m.term)
        /\ \E a : /\ Respond(i, j, k, a) \/ RespondIfAlive(i, j, k, a)
                  /\ \/ a = [type |-> "heartbeat", term |-> m.term]
                     \/ \E len \in Nat : \/ a = AppendRefused(m.term, len)
                                         \/ a = AppendDone(m.term, len)
  <2>1. CASE AcceptHeartbeat(i, j)
    BY <2>1 DEF AcceptHeartbeat, AcceptLeader
  <2>2. CASE RefuseGap(i, j)
    <3>1. LastIndex(log[i]) \in Nat
      BY LogTermTypes DEF VoteInv, TypeOK, LogTypeOK
    <3> QED
      BY <2>2, <3>1 DEF RefuseGap, AcceptLeader
  <2>3. CASE FailAppend(i, j)
    <3>1. PICK k \in Arrived(j, i) :
            LET m == calls[j][i][k] IN
            /\ m.type = "append" /\ AcceptLeader(i, j, m)
            /\ Respond(i, j, k, AppendRefused(m.term, Len(Matched(i, m))))
      BY <2>3 DEF FailAppend
    <3>2. calls[j][i][k] \in AppendCall
      BY <3>1, ArrivedType, AppendCallType DEF VoteInv, TypeOK
    <3>3. Matched(i, calls[j][i][k]) \in Seq(Entry)
      BY <3>2, MatchedType DEF VoteInv, AppendCall
    <3>4. Len(Matched(i, calls[j][i][k])) \in Nat
      BY <3>3, LenProperties
    <3> QED
      BY <3>1, <3>4 DEF AcceptLeader
  <2>4. CASE AcceptEntries(i, j)
    <3>1. PICK k \in Arrived(j, i) :
            LET m == calls[j][i][k] IN
            /\ m.type = "append" /\ AcceptLeader(i, j, m)
            /\ RespondIfAlive(i, j, k, AppendDone(m.term, Len(Extended(i, m))))
      BY <2>4 DEF AcceptEntries
    <3>2. calls[j][i][k] \in AppendCall
      BY <3>1, ArrivedType, AppendCallType DEF VoteInv, TypeOK
    <3>3. Extended(i, calls[j][i][k]) \in Seq(Entry)
      BY <3>2, ExtendedType DEF VoteInv, TypeOK
    <3>4. Len(Extended(i, calls[j][i][k])) \in Nat
      BY <3>3, LenProperties
    <3> QED
      BY <3>1, <3>4 DEF AcceptLeader
  <2> QED
    BY <2>1, <2>2, <2>3, <2>4
<1>1. PICK a :
        LET m == calls[j][i][k] IN
        /\ Respond(i, j, k, a) \/ RespondIfAlive(i, j, k, a)
        /\ \/ a = [type |-> "heartbeat", term |-> m.term]
           \/ \E len \in Nat : a = AppendRefused(m.term, len) \/ a = AppendDone(m.term, len)
  BY <1>0
<1>2. calls[j][i][k].term \in Nat
  BY ArrivedType, CallTermType DEF VoteInv, TypeOK
<1>3. a \in Answer /\ a.type # "vote"
  <2>1. \A t, len \in Nat :
           /\ AppendRefused(t, len) \in Answer /\ AppendRefused(t, len).type = "append"
           /\ AppendDone(t, len) \in Answer /\ AppendDone(t, len).type = "append"
    BY DEF Answer, AppendAnswer, AppendRefused, AppendDone
  <2>2. \A t \in Nat : [type |-> "heartbeat", term |-> t] \in Answer
    BY DEF Answer, HeartbeatAnswer
  <2> QED
    BY <1>1, <1>2, <2>1, <2>2
<1>4. ChannelsThin
  BY <1>1, <1>3, AnsweredThin DEF VoteInv
<1>5. CandidatesStay /\ TermsAscend
  <2>1. StepUp(i, calls[j][i][k].term)
    BY <1>0
  <2> QED
    BY <1>2, <2>1, StepUpStays DEF VoteInv
<1>6. granted' = granted /\ elected' = elected
  BY DEF AcceptHeartbeat, RefuseGap, FailAppend, AcceptEntries, historyVars
<1> QED
  BY <1>4, <1>5, <1>6, QuietVotes

LEMMA AnswerHandledVotes ==
  ASSUME VoteInv, TypeOK', NEW i \in Node, NEW j \in Node,
         IgnoreAnswer(i, j) \/ StepDown(i, j) \/ NoteConflict(i, j) \/ NoteMatch(i, j)
  PROVE  VoteInv'
<1>1. /\ answers[i][j] # <<>> /\ Consume(i, j)
      /\ UNCHANGED <<calls, granted, elected>>
  BY DEF IgnoreAnswer, StepDown, NoteConflict, NoteMatch, historyVars
<1>2. ChannelsThin
  BY <1>1, ConsumedThin DEF VoteInv
<1>3. CandidatesStay /\ TermsAscend
  <2>1. CASE StepDown(i, j)
    <3>1. Head(answers[i][j]).term \in Nat
      BY <1>1, ConsumeType, AnswerTermType DEF VoteInv, TypeOK
    <3> QED
      BY <2>1, <3>1, StepUpStays DEF StepDown, VoteInv
  <2>2. CASE IgnoreAnswer(i, j) \/ NoteConflict(i, j) \/ NoteMatch(i, j)
    BY <2>2, SameStays DEF IgnoreAnswer, NoteConflict, NoteMatch, raftVars, VoteInv
  <2> QED
    BY <2>1, <2>2
<1> QED
  BY <1>1, <1>2, <1>3, QuietVotes

LEMMA LeaderVotes ==
  ASSUME VoteInv, TypeOK', NEW i \in Node,
         HeartbeatTick(i) \/ \E c \in Command : Propose(i, c)
  PROVE  VoteInv'
<1>1. PICK batch :
        /\ Broadcast(i, batch)
        /\ \A b \in Node : batch[b] \in Seq(Call)
                             /\ \A n \in DOMAIN batch[b] : batch[b][n].type # "vote"
  <2>1. CASE HeartbeatTick(i)
    <3> DEFINE batch == [j \in Node |-> IF MustReissue(i, j)
                                        THEN <<ReissueCall(i, j), HeartbeatCallOf(i)>>
                                        ELSE <<HeartbeatCallOf(i)>>]
    <3>1. HeartbeatCallOf(i) \in Call /\ HeartbeatCallOf(i).type # "vote"
      BY DEF HeartbeatCallOf, Call, HeartbeatCall, VoteInv, TypeOK, RaftTypeOK, ApplyTypeOK
    <3>2. ASSUME NEW b \in Node
          PROVE  batch[b] \in Seq(Call) /\ \A n \in DOMAIN batch[b] : batch[b][n].type # "vote"
      <4>1. CASE MustReissue(i, b)
        <5>1. ReissueCall(i, b) \in Call
          BY <4>1, ReissueCallType DEF VoteInv
        <5>2. ReissueCall(i, b).type # "vote"
          BY DEF ReissueCall
        <5> QED
          BY <3>1, <4>1, <5>1, <5>2
      <4>2. CASE ~MustReissue(i, b)
        BY <3>1, <4>2
      <4> QED
        BY <4>1, <4>2
    <3>3. Broadcast(i, batch)
      BY <2>1 DEF HeartbeatTick
    <3> HIDE DEF batch
    <3> QED
      BY <3>2, <3>3
  <2>2. CASE \E c \in Command : Propose(i, c)
    <3>1. PICK c \in Command : Propose(i, c)
      BY <2>2
    <3> DEFINE entry == [term |-> currentTerm[i], index |-> LastIndex(log[i]) + 1, command |-> c]
               newLog == Append(log[i], entry)
               m == [type |-> "append", term |-> currentTerm[i], prevIndex |-> PrevIndex(newLog),
                     prevTerm |-> PrevTerm(newLog), entries |-> <<entry>>,
                     commit |-> commitIndex[i], live |-> TRUE]
               batch == [j \in Node |-> <<m>>]
    <3>2. m \in Call
      BY ProposedCallType DEF VoteInv
    <3>3. m.type # "vote"
      OBVIOUS
    <3>4. Broadcast(i, batch)
      BY <3>1 DEF Propose
    <3> HIDE DEF m
    <3>5. \A b \in Node : batch[b] \in Seq(Call) /\ \A n \in DOMAIN batch[b] :
              batch[b][n].type # "vote"
      BY <3>2, <3>3
    <3> HIDE DEF batch
    <3> QED
      BY <3>4, <3>5
  <2> QED
    BY <2>1, <2>2
<1>2. UNCHANGED <<role, currentTerm, votes, answers, granted, elected>>
  BY DEF HeartbeatTick, Propose, raftVars, historyVars
<1>3. ChannelsThin
  BY <1>1, <1>2, BroadcastThin DEF VoteInv
<1> QED
  BY <1>2, <1>3, SameStays, QuietVotes DEF VoteInv

LEMMA CutVotes ==
  ASSUME VoteInv, TypeOK', NEW i \in Node, NEW j \in Node, Cut(i, j)
  PROVE  VoteInv'
<1>1. UNCHANGED <<role, currentTerm, votes, granted, elected>>
  BY DEF Cut, raftVars, historyVars
<1> QED
  BY <1>1, CutThin, SameStays, QuietVotes DEF VoteInv

LEMMA ElsewhereVotes ==
  ASSUME VoteInv, TypeOK', UNCHANGED <<role, currentTerm, votes, calls, answers, granted, elected>>
  PROVE  VoteInv'
BY SameThin, SameStays, QuietVotes DEF VoteInv

LEMMA NextVoteInv == VoteInv /\ [Next]_vars => VoteInv'
<1> SUFFICES ASSUME VoteInv, [Next]_vars PROVE VoteInv'
  OBVIOUS
<1>0. TypeOK'
  BY NextTypeOK DEF VoteInv
<1>1. ASSUME NEW i \in Node, ElectionTimeout(i) \/ HeartbeatTick(i) \/ Restart(i)
      PROVE  VoteInv'
  BY <1>0, <1>1, ElectionTimeoutVotes, LeaderVotes, RestartVotes
<1>2. ASSUME NEW i \in Node, NEW j \in Node, HandleCall(i, j)
      PROVE  VoteInv'
  BY <1>0, <1>2, RefusalVotes, AnswerVoteVotes, FollowVotes DEF HandleCall
<1>3. ASSUME NEW i \in Node, NEW j \in Node, HandleAnswer(i, j)
      PROVE  VoteInv'
  BY <1>0, <1>3, AnswerHandledVotes, CountVoteVotes, BecomeLeaderVotes DEF HandleAnswer
<1>4. ASSUME NEW i \in Node, NEW j \in Node, Fault(i, j)
      PROVE  VoteInv'
  BY <1>0, <1>4, CutVotes, FollowVotes DEF Fault
<1>5. ASSUME NEW i \in Node, NEW c \in Command, Client(i, c) \/ FailPropose(i, c)
      PROVE  VoteInv'
  <2>1. CASE Redirect(i, c) \/ FailPropose(i, c)
    BY <1>0, <2>1, ElsewhereVotes DEF Redirect, FailPropose, raftVars, netVars, historyVars
  <2> QED
    BY <1>0, <1>5, <2>1, LeaderVotes DEF Client
<1>6. ASSUME NEW c \in Command, LoseClient(c)
      PROVE  VoteInv'
  BY <1>0, <1>6, ElsewhereVotes DEF LoseClient, raftVars, netVars, historyVars
<1>7. ASSUME UNCHANGED vars
      PROVE  VoteInv'
  BY <1>0, <1>7, ElsewhereVotes DEF vars, raftVars, netVars, historyVars
<1> QED
  BY <1>1, <1>2, <1>3, <1>4, <1>5, <1>6, <1>7 DEF Next

LEMMA InitVoteInv == Init => VoteInv
<1> SUFFICES ASSUME Init PROVE VoteInv
  OBVIOUS
<1>1. TypeOK
  BY InitTypeOK
<1>2. AllFlow
  BY DEF Init, AllFlow, Flow, Settled, NoAsk, OneAsk, NoGrant, OneGrant
<1>3. AllCounted /\ LeaderWonMajority
  BY DEF Init, AllCounted, LeaderWonMajority
<1> QED
  BY <1>1, <1>2, <1>3 DEF VoteInv

LEMMA CountedWereGranted == VoteInv => VotesWereGranted
<1> SUFFICES ASSUME VoteInv, NEW i \in Node, role[i] = "candidate"
             PROVE  votes[i] <=
                       Cardinality({v \in Node : <<v, i, currentTerm[i]>> \in granted} \union {i})
  BY DEF VotesWereGranted
<1> DEFINE all == {v \in Node : <<v, i, currentTerm[i]>> \in granted} \union {i}
<1>1. PICK S \in SUBSET (Node \ {i}) :
        /\ Cardinality(S) + 1 = votes[i]
        /\ \A v \in S : <<v, i, currentTerm[i]>> \in granted
  BY DEF VoteInv, AllCounted, Counted
<1>2. IsFiniteSet(S)
  BY NodesAreFinite, FS_Subset
<1>3. Cardinality(S \union {i}) = Cardinality(S) + 1
  BY <1>1, <1>2, FS_AddElement
<1>4. S \union {i} \subseteq all /\ all \subseteq Node
  BY <1>1
<1>5. IsFiniteSet(all) /\ Cardinality(S \union {i}) <= Cardinality(all)
  BY <1>4, NodesAreFinite, FS_Subset
<1> QED
  BY <1>1, <1>3, <1>5

-----------------------------------------------------------------------------
(* The theorems. *)

\* Every behaviour keeps the invariant of votes: one vote of a member for a candidate and
\* term is on its way at most, and what is counted cannot be counted again
\* (handle_request_vote_request and _response, raft_node.cpp:402-442 and 244-290).
THEOREM VotesInvariant == Spec => []VoteInv
<1> QED
  BY InitVoteInv, NextVoteInv, PTL DEF Spec

\* Whoever became leader of a term was granted that very term by a majority of all
\* members, however votes are delayed, lost or out of date (raft_node.cpp:262-283).
THEOREM LeadersWonMajorities == Spec => []LeaderWonMajority
<1>1. VoteInv => LeaderWonMajority
  BY DEF VoteInv
<1> QED
  BY <1>1, VotesInvariant, PTL

\* A candidate never counts more votes than members have granted it in its term.
THEOREM CountedVotesWereGranted == Spec => []VotesWereGranted
<1> QED
  BY CountedWereGranted, VotesInvariant, PTL

-----------------------------------------------------------------------------
(* No entry without a leader that made it and a client that asked for it,  *)
(* and no answer that the entries contradict.                              *)
(*                                                                         *)
(* Entries are copied from logs to requests, from there to other logs and  *)
(* disks, and back from a disk into a log.  What is true of the entries of *)
(* all these places together stays true whatever is cut off, repeated or   *)
(* put at the wrong position on the way.                                   *)

CallEntries(m) == IF m.type = "append" THEN ToSet(m.entries) ELSE {}

InLog(e, i) == e \in ToSet(log[i])

OnDisk(e, i) == e \in disk[i].entries

OnWire(e, i, j) == \E k \in DOMAIN calls[i][j] : e \in CallEntries(calls[i][j][k])

\* The entries of all logs, disks and requests.
Held ==
  {e \in Entry : \/ \E i \in Node : InLog(e, i) \/ OnDisk(e, i)
                 \/ \E i, j \in Node : OnWire(e, i, j)}

HeldAreGenuine ==
  \A e \in Held :
    /\ \E n \in Node : <<n, e.term>> \in elected
    /\ e.command \in issued
    /\ \A f \in Held : e.command = f.command => e = f

\* A command that waits has no answer and waits at one place.
TasksAreOpen ==
  \A i \in Node : \A k \in DOMAIN tasks[i] :
    /\ tasks[i][k].command \in issued
    /\ replies[tasks[i][k].command] = <<>>
    /\ \A j \in Node : \A n \in DOMAIN tasks[j] :
         tasks[i][k].command = tasks[j][n].command => i = j /\ k = n

RepliesAreHonest ==
  \A c \in Command :
    /\ c \notin issued => replies[c] = <<>>
    /\ Len(replies[c]) <= 1
    /\ \A k \in DOMAIN replies[c] :
         IF replies[c][k].kind = "applied"
         THEN \E i \in Node : c \in ToSet(executed[i])
         ELSE \A e \in Held : e.command # c

\* The inductive invariant.
EntryInv == ElectionInv /\ HeldAreGenuine /\ TasksAreOpen /\ RepliesAreHonest

-----------------------------------------------------------------------------
(* No step but Propose makes an entry. *)

LEMMA HeldEntries ==
  ASSUME TypeOK, NEW i \in Node
  PROVE  /\ ToSet(log[i]) \subseteq Held
         /\ disk[i].entries \subseteq Held
         /\ \A j \in Node : \A k \in DOMAIN calls[i][j] : CallEntries(calls[i][j][k]) \subseteq Held
<1>1. ToSet(log[i]) \subseteq Entry
  BY ElementsType DEF TypeOK, LogTypeOK
<1>2. disk[i].entries \subseteq Entry
  BY DEF TypeOK, LogTypeOK, Disk
<1>3. ASSUME NEW j \in Node, NEW k \in DOMAIN calls[i][j]
      PROVE  CallEntries(calls[i][j][k]) \subseteq Entry
  <2>1. calls[i][j][k] \in Call
    BY LenProperties, ElementOfSeq DEF TypeOK, NetTypeOK
  <2>2. CASE calls[i][j][k].type = "append"
    <3>1. calls[i][j][k].entries \in Seq(Entry)
      BY <2>1, <2>2, AppendCallType DEF AppendCall
    <3> QED
      BY <2>2, <3>1, ElementsType DEF CallEntries
  <2>3. CASE calls[i][j][k].type # "append"
    BY <2>3 DEF CallEntries
  <2> QED
    BY <2>2, <2>3
<1> QED
  BY <1>1, <1>2, <1>3 DEF Held, InLog, OnDisk, OnWire

LogsFromHeld == \A n \in Node : ToSet(log'[n]) \subseteq Held

DisksFromHeld == \A n \in Node : disk'[n].entries \subseteq Held

WireFromHeld ==
  \A a, b \in Node : \A k \in DOMAIN calls'[a][b] : CallEntries(calls'[a][b][k]) \subseteq Held

LEMMA FromHeld ==
  ASSUME LogsFromHeld, DisksFromHeld, WireFromHeld
  PROVE  Held' \subseteq Held
BY DEF Held, LogsFromHeld, DisksFromHeld, WireFromHeld, InLog, OnDisk, OnWire

LEMMA SameHeld ==
  ASSUME TypeOK
  PROVE  /\ log' = log => LogsFromHeld
         /\ disk' = disk => DisksFromHeld
         /\ calls' = calls => WireFromHeld
<1>1. log' = log => LogsFromHeld
  BY HeldEntries DEF LogsFromHeld
<1>2. disk' = disk => DisksFromHeld
  BY HeldEntries DEF DisksFromHeld
<1>3. calls' = calls => WireFromHeld
  BY HeldEntries DEF WireFromHeld
<1> QED
  BY <1>1, <1>2, <1>3

\* A step that changes one log, or one disk.
LEMMA OneLogHeld ==
  ASSUME TypeOK, NEW i \in Node, NEW l, ToSet(l) \subseteq Held, log' = [log EXCEPT ![i] = l]
  PROVE  LogsFromHeld
<1>1. \A n \in Node : log'[n] = IF n = i THEN l ELSE log[n]
  BY DEF TypeOK, LogTypeOK
<1> QED
  BY <1>1, HeldEntries DEF LogsFromHeld

LEMMA OneDiskHeld ==
  ASSUME TypeOK, NEW i \in Node, NEW d, d.entries \subseteq Held, disk' = [disk EXCEPT ![i] = d]
  PROVE  DisksFromHeld
<1>1. \A n \in Node : disk'[n] = IF n = i THEN d ELSE disk[n]
  BY DEF TypeOK, LogTypeOK
<1> QED
  BY <1>1, HeldEntries DEF DisksFromHeld

LEMMA DiskAtTermEntries ==
  ASSUME TypeOK, NEW i \in Node, NEW term
  PROVE  DiskAtTerm(i, term).entries = disk[i].entries
BY DEF DiskAtTerm, PersistState, TypeOK, LogTypeOK, Disk

LEMMA PersistBatchEntries ==
  ASSUME NEW d \in Disk, NEW batch
  PROVE  PersistBatch(d, batch).entries \subseteq d.entries \union ToSet(batch)
<1>1. BatchValues(batch) \subseteq ToSet(batch)
  BY DEF BatchValues, ToSet
<1>2. PersistBatch(d, batch).entries
        = {e \in d.entries : e.index \notin {batch[k].index : k \in DOMAIN batch}}
            \union BatchValues(batch)
  BY DEF PersistBatch, Disk
<1> QED
  BY <1>1, <1>2

LEMMA RecoveredEntries ==
  ASSUME NEW d \in Disk, Recoverable(d)
  PROVE  ToSet(RecoverEntries(d)) \subseteq d.entries
<1>1. \A k \in 1..d.last : (CHOOSE e \in d.entries : e.index = k) \in d.entries
  BY DEF Recoverable
<1>2. /\ DOMAIN RecoverEntries(d) = 1..d.last
      /\ \A k \in 1..d.last : RecoverEntries(d)[k] = (CHOOSE e \in d.entries : e.index = k)
  BY DEF RecoverEntries
<1>3. \A k \in DOMAIN RecoverEntries(d) : RecoverEntries(d)[k] \in d.entries
  BY <1>1, <1>2
<1> QED
  BY <1>3 DEF ToSet

LEMMA MatchedEntries ==
  ASSUME TypeOK, NEW i \in Node, NEW m \in AppendCall
  PROVE  Matched(i, m) \in Seq(Entry) /\ ToSet(Matched(i, m)) \subseteq ToSet(log[i])
<1>1. log[i] \in Seq(Entry) /\ m.prevIndex \in Nat
  BY DEF TypeOK, LogTypeOK, AppendCall
<1>2. Len(log[i]) \in Nat
  BY <1>1, LenProperties
<1>3. Truncated(log[i], m.prevIndex) \in Seq(Entry)
        /\ ToSet(Truncated(log[i], m.prevIndex)) \subseteq ToSet(log[i])
  <2>1. CASE m.prevIndex \in 1..Len(log[i])
    <3>1. m.prevIndex - 1 \in 0..Len(log[i])
      BY <1>2, <2>1
    <3> QED
      BY <1>1, <2>1, <3>1, PrefixElements DEF Truncated
  <2>2. CASE m.prevIndex \notin 1..Len(log[i])
    BY <1>1, <2>2 DEF Truncated
  <2> QED
    BY <2>1, <2>2
<1> QED
  BY <1>1, <1>3 DEF Matched

LEMMA RemovedHeld ==
  ASSUME TypeOK, NEW i \in Node, NEW j \in Node, NEW k \in Arrived(j, i),
         calls' = [calls EXCEPT ![j][i] = RemoveAt(@, k)]
  PROVE  WireFromHeld
<1> SUFFICES ASSUME NEW a \in Node, NEW b \in Node, NEW n \in DOMAIN calls'[a][b]
             PROVE  \E p \in DOMAIN calls[a][b] : calls'[a][b][n] = calls[a][b][p]
  BY HeldEntries DEF WireFromHeld
<1>1. k \in DOMAIN calls[j][i] /\ calls[j][i] \in Seq(Call)
  BY ArrivedType DEF TypeOK, NetTypeOK
<1>2. CASE a = j /\ b = i
  <2>1. calls'[a][b] = RemoveAt(calls[j][i], k)
    BY <1>2 DEF TypeOK, NetTypeOK
  <2> QED
    BY <1>1, <1>2, <2>1, RemoveAtElement
<1>3. CASE ~(a = j /\ b = i)
  <2>1. calls'[a][b] = calls[a][b]
    BY <1>3 DEF TypeOK, NetTypeOK
  <2> QED
    BY <2>1
<1> QED
  BY <1>2, <1>3

LEMMA BroadcastHeld ==
  ASSUME TypeOK, NEW i \in Node, NEW batch, NEW allowed, Broadcast(i, batch),
         \A b \in Node \ {i} : batch[b] \in Seq(Call)
           /\ \A n \in DOMAIN batch[b] : CallEntries(batch[b][n]) \subseteq allowed,
         NEW a \in Node, NEW b \in Node, NEW k \in DOMAIN calls'[a][b]
  PROVE  CallEntries(calls'[a][b][k]) \subseteq Held \union allowed
<1>1. \/ \E n \in DOMAIN calls[a][b] : calls'[a][b][k] = calls[a][b][n]
      \/ a = i /\ b # i /\ \E n \in DOMAIN batch[b] : calls'[a][b][k] = batch[b][n]
  BY BroadcastAdds DEF TypeOK
<1> QED
  BY <1>1, HeldEntries

LEMMA DeadEntries ==
  ASSUME NEW m \in Call
  PROVE  CallEntries([m EXCEPT !.live = FALSE]) = CallEntries(m)
BY DEF CallEntries, Call, VoteCall, AppendCall, HeartbeatCall

LEMMA RestartHeld ==
  ASSUME TypeOK, NEW i \in Node, Restart(i)
  PROVE  Held' \subseteq Held
<1>1. DisksFromHeld
  BY SameHeld DEF Restart
<1>2. LogsFromHeld
  <2> DEFINE l == IF Recoverable(disk[i]) THEN RecoverEntries(disk[i]) ELSE <<>>
  <2>1. ToSet(l) \subseteq Held
    <3>1. CASE Recoverable(disk[i])
      <4>1. ToSet(RecoverEntries(disk[i])) \subseteq disk[i].entries
        BY <3>1, RecoveredEntries DEF TypeOK, LogTypeOK
      <4> QED
        BY <3>1, <4>1, HeldEntries
    <3>2. CASE ~Recoverable(disk[i])
      BY <3>2 DEF ToSet
    <3> QED
      BY <3>1, <3>2
  <2>2. log' = [log EXCEPT ![i] = l]
    BY DEF Restart
  <2> HIDE DEF l
  <2> QED
    BY <2>1, <2>2, OneLogHeld
<1>3. WireFromHeld
  <2> SUFFICES ASSUME NEW a \in Node, NEW b \in Node, NEW k \in DOMAIN calls'[a][b]
               PROVE  /\ k \in DOMAIN calls[a][b]
                      /\ CallEntries(calls'[a][b][k]) = CallEntries(calls[a][b][k])
    BY HeldEntries DEF WireFromHeld
  <2> DEFINE old == calls[a][b]
  <2>1. calls'[a][b] = IF b = i THEN <<>>
                       ELSE IF a = i THEN [p \in DOMAIN old |-> [old[p] EXCEPT !.live = FALSE]]
                       ELSE old
    BY DEF Restart
  <2>2. b # i
    BY <2>1
  <2>3. CASE a = i
    <3>1. k \in DOMAIN old /\ old \in Seq(Call)
      BY <2>1, <2>2, <2>3 DEF TypeOK, NetTypeOK
    <3>2. old[k] \in Call
      BY <3>1, LenProperties, ElementOfSeq
    <3>3. calls'[a][b][k] = [old[k] EXCEPT !.live = FALSE]
      BY <2>1, <2>2, <2>3, <3>1
    <3> QED
      BY <3>1, <3>2, <3>3, DeadEntries
  <2>4. CASE a # i
    BY <2>1, <2>2, <2>4
  <2> QED
    BY <2>3, <2>4
<1> QED
  BY <1>1, <1>2, <1>3, FromHeld

LEMMA CutHeld ==
  ASSUME TypeOK, NEW i \in Node, NEW j \in Node, Cut(i, j)
  PROVE  Held' \subseteq Held
<1>1. PICK n \in 0..Len(calls[i][j]) :
        calls' = [calls EXCEPT ![i][j] = [k \in 1..n |-> [@[k] EXCEPT !.live = FALSE]]]
  BY DEF Cut
<1>2. LogsFromHeld /\ DisksFromHeld
  BY SameHeld DEF Cut, logVars
<1>3. WireFromHeld
  <2> SUFFICES ASSUME NEW a \in Node, NEW b \in Node, NEW k \in DOMAIN calls'[a][b]
               PROVE  /\ k \in DOMAIN calls[a][b]
                      /\ CallEntries(calls'[a][b][k]) = CallEntries(calls[a][b][k])
    BY HeldEntries DEF WireFromHeld
  <2>1. CASE a = i /\ b = j
    <3>1. calls[i][j] \in Seq(Call)
      BY DEF TypeOK, NetTypeOK
    <3>2. calls'[a][b] = [p \in 1..n |-> [calls[i][j][p] EXCEPT !.live = FALSE]]
      BY <1>1, <2>1 DEF TypeOK, NetTypeOK
    <3>3. k \in 1..n /\ k \in DOMAIN calls[i][j]
      BY <3>1, <3>2, LenProperties
    <3>4. calls[i][j][k] \in Call
      BY <3>1, <3>3, LenProperties, ElementOfSeq
    <3>5. calls'[a][b][k] = [calls[i][j][k] EXCEPT !.live = FALSE]
      BY <3>2, <3>3
    <3> QED
      BY <2>1, <3>3, <3>4, <3>5, DeadEntries
  <2>2. CASE ~(a = i /\ b = j)
    <3>1. calls'[a][b] = calls[a][b]
      BY <1>1, <2>2 DEF TypeOK, NetTypeOK
    <3> QED
      BY <3>1
  <2> QED
    BY <2>1, <2>2
<1> QED
  BY <1>2, <1>3, FromHeld

LEMMA ElectionTimeoutHeld ==
  ASSUME TypeOK, NEW i \in Node, ElectionTimeout(i)
  PROVE  Held' \subseteq Held
<1> DEFINE m == [type |-> "vote", term |-> currentTerm[i] + 1, lastIndex |-> LastIndex(log[i]),
                 lastTerm |-> LastTerm(log[i]), live |-> TRUE]
           batch == [n \in Node |-> <<m>>]
<1>1. Broadcast(i, batch) /\ log' = log /\ disk' = disk
  BY DEF ElectionTimeout, logVars
<1>2. m \in Call /\ CallEntries(m) = {}
  <2>1. LastIndex(log[i]) \in Nat /\ LastTerm(log[i]) \in Nat
    BY LogTermTypes DEF TypeOK, LogTypeOK
  <2> QED
    BY <2>1 DEF Call, VoteCall, CallEntries, TypeOK, RaftTypeOK
<1> HIDE DEF m
<1>3. \A b \in Node : batch[b] \in Seq(Call) /\ \A n \in DOMAIN batch[b] :
           CallEntries(batch[b][n]) \subseteq {}
  BY <1>2
<1> HIDE DEF batch
<1>4. WireFromHeld
  BY <1>1, <1>3, BroadcastHeld DEF WireFromHeld
<1> QED
  BY <1>1, <1>4, SameHeld, FromHeld

LEMMA HeartbeatTickHeld ==
  ASSUME TypeOK, NEW i \in Node, HeartbeatTick(i)
  PROVE  Held' \subseteq Held
<1> DEFINE batch == [j \in Node |-> IF MustReissue(i, j)
                                    THEN <<ReissueCall(i, j), HeartbeatCallOf(i)>>
                                    ELSE <<HeartbeatCallOf(i)>>]
<1>1. Broadcast(i, batch) /\ log' = log /\ disk' = disk
  BY DEF HeartbeatTick, logVars
<1>2. HeartbeatCallOf(i) \in Call /\ CallEntries(HeartbeatCallOf(i)) = {}
  BY DEF HeartbeatCallOf, Call, HeartbeatCall, CallEntries, TypeOK, RaftTypeOK, ApplyTypeOK
<1>3. ASSUME NEW b \in Node
      PROVE  batch[b] \in Seq(Call) /\ \A n \in DOMAIN batch[b] :
                CallEntries(batch[b][n]) \subseteq ToSet(log[i])
  <2>1. CASE MustReissue(i, b)
    <3>1. ReissueCall(i, b) \in Call
      BY <2>1, ReissueCallType
    <3>2. CallEntries(ReissueCall(i, b)) \subseteq ToSet(log[i])
      <4>1. log[i] \in Seq(Entry) /\ Len(log[i]) \in Nat /\ nextIndex[i][b] \in Nat \ {0}
        BY <2>1, LenProperties DEF TypeOK, LogTypeOK, LeaderTypeOK, MustReissue, LastIndex
      <4> QED
        BY <4>1, SubSeqElements DEF ReissueCall, CallEntries, LastIndex
    <3> QED
      BY <1>2, <2>1, <3>1, <3>2
  <2>2. CASE ~MustReissue(i, b)
    BY <1>2, <2>2
  <2> QED
    BY <2>1, <2>2
<1> HIDE DEF batch
<1>4. WireFromHeld
  BY <1>1, <1>3, BroadcastHeld, HeldEntries DEF WireFromHeld
<1> QED
  BY <1>1, <1>4, SameHeld, FromHeld

\* The answer to a request leaves the log and the disk as they are, or takes the entries
\* of the request into them.
LEMMA FollowHeld ==
  ASSUME TypeOK, NEW i \in Node, NEW j \in Node,
         \/ AcceptHeartbeat(i, j) \/ RefuseGap(i, j) \/ AnswerVote(i, j)
         \/ FailAppend(i, j) \/ AcceptEntries(i, j)
  PROVE  Held' \subseteq Held
<1>1. PICK k \in Arrived(j, i) :
        LET m == calls[j][i][k] IN
        /\ calls' = [calls EXCEPT ![j][i] = RemoveAt(@, k)]
        /\ \/ log' = log /\ disk' = [disk EXCEPT ![i] = DiskAtTerm(i, m.term)]
           \/ /\ m.type = "append"
              /\ log' = [log EXCEPT ![i] = Matched(i, m)]
              /\ disk' = [disk EXCEPT ![i] = DiskAtTerm(i, m.term)]
           \/ /\ m.type = "append"
              /\ log' = [log EXCEPT ![i] = Extended(i, m)]
              /\ disk' = [disk EXCEPT ![i] = DiskExtended(i, m)]
  <2>1. CASE AcceptHeartbeat(i, j)
    <3>1. PICK k \in Arrived(j, i) :
            /\ \E a : RespondIfAlive(i, j, k, a)
            /\ log' = log /\ disk' = [disk EXCEPT ![i] = DiskAtTerm(i, calls[j][i][k].term)]
      BY <2>1 DEF AcceptHeartbeat
    <3>2. calls' = [calls EXCEPT ![j][i] = RemoveAt(@, k)]
      BY <3>1, RespondIfAliveRemoves
    <3> QED
      BY <3>1, <3>2
  <2>2. CASE RefuseGap(i, j)
    BY <2>2 DEF RefuseGap, Respond
  <2>3. CASE AnswerVote(i, j)
    BY <2>3 DEF AnswerVote, Respond
  <2>4. CASE FailAppend(i, j)
    BY <2>4 DEF FailAppend, Respond, TruncateBatch
  <2>5. CASE AcceptEntries(i, j)
    <3>1. PICK k \in Arrived(j, i) :
            LET m == calls[j][i][k] IN
            /\ m.type = "append"
            /\ log' = [log EXCEPT ![i] = Extended(i, m)]
            /\ disk' = [disk EXCEPT ![i] = DiskExtended(i, m)]
            /\ \E a : RespondIfAlive(i, j, k, a)
      BY <2>5 DEF AcceptEntries
    <3>2. calls' = [calls EXCEPT ![j][i] = RemoveAt(@, k)]
      BY <3>1, RespondIfAliveRemoves
    <3> QED
      BY <3>1, <3>2
  <2> QED
    BY <2>1, <2>2, <2>3, <2>4, <2>5
<1> DEFINE m == calls[j][i][k]
<1>2. WireFromHeld
  BY <1>1, RemovedHeld
<1>3. DiskAtTerm(i, m.term).entries \subseteq Held
  BY DiskAtTermEntries, HeldEntries
<1>4. CASE m.type = "append"
  <2>1. m \in AppendCall /\ k \in DOMAIN calls[j][i]
    BY <1>4, ArrivedType, AppendCallType DEF TypeOK
  <2>2. ToSet(m.entries) \subseteq Held /\ m.entries \in Seq(Entry) /\ m.term \in Nat
    <3>1. CallEntries(m) \subseteq Held
      BY <2>1, HeldEntries
    <3> QED
      BY <1>4, <2>1, <3>1 DEF CallEntries, AppendCall
  <2>3. Matched(i, m) \in Seq(Entry) /\ ToSet(Matched(i, m)) \subseteq Held
    BY <2>1, MatchedEntries, HeldEntries
  <2>4. ToSet(Extended(i, m)) \subseteq Held
    BY <2>2, <2>3, ConcatElements DEF Extended
  <2>5. DiskExtended(i, m).entries \subseteq Held
    <3>1. DiskAtTerm(i, m.term) \in Disk
      BY <2>2, DiskAtTermType DEF TypeOK
    <3> QED
      BY <1>3, <2>2, <3>1, PersistBatchEntries DEF DiskExtended, TruncateBatch
  <2> HIDE DEF m
  <2>6. LogsFromHeld
    BY <1>1, <2>3, <2>4, SameHeld, OneLogHeld DEF m
  <2>7. DisksFromHeld
    BY <1>1, <1>3, <2>5, OneDiskHeld DEF m
  <2> QED
    BY <1>2, <2>6, <2>7, FromHeld
<1>5. CASE m.type # "append"
  <2>1. LogsFromHeld
    BY <1>1, <1>5, SameHeld
  <2>2. DisksFromHeld
    BY <1>1, <1>3, <1>5, OneDiskHeld
  <2> QED
    BY <1>2, <2>1, <2>2, FromHeld
<1> QED
  BY <1>4, <1>5

LEMMA RefusalHeld ==
  ASSUME TypeOK, NEW i \in Node, NEW j \in Node,
         RefuseStaleVote(i, j) \/ RefuseStaleAppend(i, j)
  PROVE  Held' \subseteq Held
<1>1. PICK k \in Arrived(j, i) : calls' = [calls EXCEPT ![j][i] = RemoveAt(@, k)]
  BY DEF RefuseStaleVote, RefuseStaleAppend, Respond
<1>2. log' = log /\ disk' = disk
  BY DEF RefuseStaleVote, RefuseStaleAppend, logVars
<1> QED
  BY <1>1, <1>2, RemovedHeld, SameHeld, FromHeld

LEMMA AnswerHandledHeld ==
  ASSUME TypeOK, NEW i \in Node, NEW j \in Node, HandleAnswer(i, j)
  PROVE  Held' \subseteq Held
<1>1. calls' = calls /\ log' = log
  BY DEF HandleAnswer, IgnoreAnswer, StepDown, CountVote, BecomeLeader, NoteConflict, NoteMatch,
    logVars
<1>2. disk' = disk \/ \E t, v : disk' = [disk EXCEPT ![i] = PersistState(@, t, v)]
  BY DEF HandleAnswer, IgnoreAnswer, StepDown, CountVote, BecomeLeader, NoteConflict, NoteMatch,
    logVars
<1>3. DisksFromHeld
  <2>1. CASE disk' = disk
    BY <2>1, SameHeld
  <2>2. ASSUME NEW t, NEW v, disk' = [disk EXCEPT ![i] = PersistState(@, t, v)]
        PROVE  DisksFromHeld
    <3>1. PersistState(disk[i], t, v).entries = disk[i].entries
      BY DEF PersistState, TypeOK, LogTypeOK, Disk
    <3> QED
      BY <2>2, <3>1, OneDiskHeld, HeldEntries
  <2> QED
    BY <1>2, <2>1, <2>2
<1> QED
  BY <1>1, <1>3, SameHeld, FromHeld

-----------------------------------------------------------------------------
(* Tasks and replies. *)

\* What a member has executed stays executed.
ExecutedGrows == \A n \in Node : ToSet(executed[n]) \subseteq ToSet(executed'[n])

LEMMA ApplyViewGrows ==
  ASSUME TypeOK, NEW i \in Node, NEW l \in Seq(Entry), NEW commit \in Nat,
         ApplyView(i, l, commit)
  PROVE  ExecutedGrows
<1> DEFINE start == lastApplied[i] + 1
           wild == ViewIsWild(l, start, commit)
           end == IF wild THEN Len(l) ELSE commit
<1>1. Len(l) \in Nat /\ start \in Nat \ {0}
  BY LenProperties DEF TypeOK, ApplyTypeOK
<1>2. CASE ViewIsGiven(l, start, commit)
  <2>1. end \in Nat /\ end <= Len(l)
    BY <1>1, <1>2 DEF ViewIsGiven
  <2>2. SubSeq(l, start, end) \in Seq(Entry)
    BY <1>1, <2>1, SubSeqType
  <2>3. Commands(SubSeq(l, start, end)) \in Seq(Command) /\ executed[i] \in Seq(Command)
    BY <2>2, CommandsType DEF Entry, TypeOK, ApplyTypeOK
  <2> DEFINE longer == executed[i] \o Commands(SubSeq(l, start, end))
  <2>4. executed' = [executed EXCEPT ![i] = longer]
    BY <1>2 DEF ApplyView
  <2>5. ToSet(executed[i]) \subseteq ToSet(longer)
    BY <2>3, ConcatElements
  <2> HIDE DEF longer
  <2> QED
    BY <2>4, <2>5 DEF ExecutedGrows, TypeOK, ApplyTypeOK
<1>3. CASE ~ViewIsGiven(l, start, commit)
  BY <1>3 DEF ApplyView, ExecutedGrows
<1> QED
  BY <1>2, <1>3

LEMMA HeldStaysGenuine ==
  ASSUME HeldAreGenuine, Held' \subseteq Held, elected \subseteq elected', issued \subseteq issued'
  PROVE  HeldAreGenuine'
BY DEF HeldAreGenuine

\* Steps in which no client is answered, no command sent and none executed by a leader.
LEMMA QuietEntries ==
  ASSUME EntryInv, ElectionInv', Held' \subseteq Held, elected \subseteq elected',
         UNCHANGED <<issued, replies>>, ExecutedGrows,
         \A n \in Node : tasks'[n] = tasks[n] \/ tasks'[n] = <<>>
  PROVE  EntryInv'
<1>1. HeldAreGenuine'
  BY HeldStaysGenuine DEF EntryInv
<1>2. TasksAreOpen'
  <2>1. \A n \in Node : \A k \in DOMAIN tasks'[n] :
            k \in DOMAIN tasks[n] /\ tasks'[n][k] = tasks[n][k]
    OBVIOUS
  <2> QED
    BY <2>1 DEF EntryInv, TasksAreOpen
<1>3. RepliesAreHonest'
  BY DEF EntryInv, RepliesAreHonest, ExecutedGrows
<1> QED
  BY <1>1, <1>2, <1>3 DEF EntryInv

LEMMA OwnerEntries ==
  ASSUME EntryInv, ElectionInv', NEW i \in Node,
         ElectionTimeout(i) \/ HeartbeatTick(i) \/ Restart(i)
  PROVE  EntryInv'
<1>1. Held' \subseteq Held
  BY ElectionTimeoutHeld, HeartbeatTickHeld, RestartHeld DEF EntryInv, ElectionInv
<1>2. UNCHANGED <<issued, replies, executed, elected>>
  BY DEF ElectionTimeout, HeartbeatTick, Restart, clientVars, applyVars, historyVars
<1>3. \A n \in Node : tasks'[n] = tasks[n] \/ tasks'[n] = <<>>
  BY DEF ElectionTimeout, HeartbeatTick, Restart, applyVars, EntryInv, ElectionInv, TypeOK,
    ApplyTypeOK
<1> QED
  BY <1>1, <1>2, <1>3, QuietEntries DEF ExecutedGrows

LEMMA CallEntriesInv ==
  ASSUME EntryInv, ElectionInv', NEW i \in Node, NEW j \in Node,
         HandleCall(i, j) \/ Fault(i, j)
  PROVE  EntryInv'
<1>1. Held' \subseteq Held
  BY FollowHeld, RefusalHeld, CutHeld DEF EntryInv, ElectionInv, HandleCall, Fault
<1>2. UNCHANGED <<issued, replies, tasks, elected>>
  BY DEF HandleCall, Fault, RefuseStaleVote, AnswerVote, RefuseStaleAppend, AcceptHeartbeat,
    RefuseGap, AcceptEntries, Cut, FailAppend, clientVars, applyVars, historyVars
<1>3. ExecutedGrows
  <2>1. CASE AcceptHeartbeat(i, j)
    <3>1. PICK k \in Arrived(j, i) :
            LET m == calls[j][i][k] IN
            m.type = "heartbeat" /\ ApplyView(i, log[i], CommitAfter(i, log[i], m.commit))
      BY <2>1 DEF AcceptHeartbeat
    <3>2. calls[j][i][k].commit \in Nat /\ log[i] \in Seq(Entry)
      BY <3>1, ArrivedType, HeartbeatCallType DEF EntryInv, ElectionInv, TypeOK, LogTypeOK,
        HeartbeatCall
    <3>3. CommitAfter(i, log[i], calls[j][i][k].commit) \in Nat
      BY <3>2, CommitAfterType DEF EntryInv, ElectionInv
    <3> QED
      BY <3>1, <3>2, <3>3, ApplyViewGrows DEF EntryInv, ElectionInv
  <2>2. CASE AcceptEntries(i, j)
    <3>1. PICK k \in Arrived(j, i) :
            LET m == calls[j][i][k] IN
            /\ m.type = "append"
            /\ \/ ApplyView(i, Extended(i, m), CommitAfter(i, Extended(i, m), m.commit))
               \/ executed' = executed
      BY <2>2 DEF AcceptEntries
    <3>2. calls[j][i][k] \in AppendCall
      BY <3>1, ArrivedType, AppendCallType DEF EntryInv, ElectionInv, TypeOK
    <3>3. Extended(i, calls[j][i][k]) \in Seq(Entry) /\ calls[j][i][k].commit \in Nat
      BY <3>2, ExtendedType DEF EntryInv, ElectionInv, AppendCall
    <3>4. CommitAfter(i, Extended(i, calls[j][i][k]), calls[j][i][k].commit) \in Nat
      BY <3>3, CommitAfterType DEF EntryInv, ElectionInv
    <3>5. CASE executed' = executed
      BY <3>5 DEF ExecutedGrows
    <3> QED
      BY <3>1, <3>3, <3>4, <3>5, ApplyViewGrows DEF EntryInv, ElectionInv
  <2>3. CASE ~AcceptHeartbeat(i, j) /\ ~AcceptEntries(i, j)
    <3>1. executed' = executed
      BY <2>3 DEF HandleCall, Fault, RefuseStaleVote, AnswerVote, RefuseStaleAppend,
        RefuseGap, Cut, FailAppend, applyVars
    <3> QED
      BY <3>1 DEF ExecutedGrows
  <2> QED
    BY <2>1, <2>2, <2>3
<1> QED
  BY <1>1, <1>2, <1>3, QuietEntries

LEMMA AnswerEntriesInv ==
  ASSUME EntryInv, ElectionInv', NEW i \in Node, NEW j \in Node,
         HandleAnswer(i, j), ~NoteMatch(i, j)
  PROVE  EntryInv'
<1>1. Held' \subseteq Held
  BY AnswerHandledHeld DEF EntryInv, ElectionInv
<1>2. UNCHANGED <<issued, replies, tasks, executed>> /\ elected \subseteq elected'
  BY DEF HandleAnswer, IgnoreAnswer, StepDown, CountVote, BecomeLeader, NoteConflict,
    clientVars, applyVars, historyVars
<1> QED
  BY <1>1, <1>2, QuietEntries DEF ExecutedGrows

LEMMA NoEntriesInv ==
  ASSUME EntryInv, ElectionInv', UNCHANGED <<log, disk, calls, issued, replies,
                              tasks, executed, elected>>
  PROVE  EntryInv'
<1>1. Held' \subseteq Held
  BY SameHeld, FromHeld DEF EntryInv, ElectionInv
<1> QED
  BY <1>1, QuietEntries DEF ExecutedGrows

LEMMA TaskSplit ==
  ASSUME NEW q \in Seq(Task), NEW n \in 0..Len(q)
  PROVE  /\ \A k \in DOMAIN SubSeq(q, 1, n) :
              k \in DOMAIN q /\ k <= n /\ SubSeq(q, 1, n)[k] = q[k]
         /\ \A k \in DOMAIN Remaining(q, n) :
              n + k \in DOMAIN q /\ Remaining(q, n)[k] = q[n + k] /\ k \in Nat \ {0}
         /\ SubSeq(q, 1, n) \in Seq(Task)
<1>1. Len(q) \in Nat /\ DOMAIN q = 1..Len(q) /\ \A k \in 1..Len(q) : q[k] \in Task
  BY LenProperties, ElementOfSeq
<1>2. /\ SubSeq(q, 1, n) \in Seq(Task) /\ Len(SubSeq(q, 1, n)) = n
      /\ \A k \in 1..n : SubSeq(q, 1, n)[k] = q[k]
  BY <1>1, SubSeqProperties
<1>3. DOMAIN SubSeq(q, 1, n) = 1..n
  BY <1>2, LenProperties
<1> DEFINE m == n + 1
           rest == SubSeq(q, m, Len(q))
<1>4. m \in Nat \ {0} /\ \A k \in m..Len(q) : q[k] \in Task
  BY <1>1
<1> HIDE DEF m
<1>5. /\ rest \in Seq(Task)
      /\ Len(rest) = IF m <= Len(q) THEN Len(q) - m + 1 ELSE 0
      /\ \A k \in 1..(Len(q) - m + 1) : rest[k] = q[m + k - 1]
  BY <1>1, <1>4, SubSeqProperties
<1>6. \A k \in DOMAIN rest : k \in 1..(Len(q) - m + 1)
  BY <1>1, <1>4, <1>5, LenProperties
<1>7. \A k \in 1..(Len(q) - m + 1) : m + k - 1 = n + k /\ n + k \in DOMAIN q
  BY <1>1 DEF m
<1>8. rest = Remaining(q, n)
  BY DEF m, Remaining
<1> HIDE DEF rest
<1>9. \A k \in DOMAIN rest : n + k \in DOMAIN q /\ rest[k] = q[n + k] /\ k \in Nat \ {0}
  BY <1>5, <1>6, <1>7
<1>10. \A k \in DOMAIN SubSeq(q, 1, n) : k \in DOMAIN q /\ k <= n /\ SubSeq(q, 1, n)[k] = q[k]
  BY <1>1, <1>2, <1>3
<1> QED
  BY <1>2, <1>8, <1>9, <1>10

LEMMA NoteMatchEntries ==
  ASSUME EntryInv, ElectionInv', NEW i \in Node, NEW j \in Node, NoteMatch(i, j)
  PROVE  EntryInv'
<1>1. PICK n \in 0..Len(tasks[i]) :
        /\ executed' = [executed EXCEPT ![i] = @ \o Commands(SubSeq(tasks[i], 1, n))]
        /\ tasks' = [tasks EXCEPT ![i] = Remaining(@, n)]
        /\ replies' = RepliesAfter(SubSeq(tasks[i], 1, n))
  BY DEF NoteMatch
<1> DEFINE q == tasks[i]
           done == SubSeq(q, 1, n)
           rest == Remaining(q, n)
<1>2. UNCHANGED <<issued, gone, elected>>
  BY DEF NoteMatch, historyVars
<1>3. q \in Seq(Task) /\ executed[i] \in Seq(Command)
  BY DEF EntryInv, ElectionInv, TypeOK, ApplyTypeOK
<1>4. /\ \A k \in DOMAIN done : k \in DOMAIN q /\ k <= n /\ done[k] = q[k]
      /\ \A k \in DOMAIN rest : n + k \in DOMAIN q /\ rest[k] = q[n + k] /\ k \in Nat \ {0}
      /\ done \in Seq(Task)
  BY <1>3, TaskSplit
<1>5. \A x \in Node : tasks'[x] = IF x = i THEN rest ELSE tasks[x]
  BY <1>1 DEF EntryInv, ElectionInv, TypeOK, ApplyTypeOK
<1>6. \A c \in Command :
        replies'[c] = IF c \notin gone /\ \E k \in DOMAIN done : done[k].command = c
                      THEN Append(replies[c], [kind |-> "applied"]) ELSE replies[c]
  BY <1>1 DEF RepliesAfter
<1>7. /\ ExecutedGrows
      /\ \A k \in DOMAIN done : done[k].command \in ToSet(executed'[i])
  <2> DEFINE longer == executed[i] \o Commands(done)
  <2>1. Commands(done) \in Seq(Command)
    BY <1>4, CommandsType DEF Task
  <2>2. ToSet(longer) = ToSet(executed[i]) \union ToSet(Commands(done))
    BY <1>3, <2>1, ConcatElements
  <2>3. \A k \in DOMAIN done : done[k].command \in ToSet(Commands(done))
    BY DEF Commands, ToSet
  <2>4. executed' = [executed EXCEPT ![i] = longer]
    BY <1>1
  <2> HIDE DEF longer, done
  <2>5. \A x \in Node : executed'[x] = IF x = i THEN longer ELSE executed[x]
    BY <2>4 DEF EntryInv, ElectionInv, TypeOK, ApplyTypeOK
  <2> QED
    BY <2>2, <2>3, <2>5 DEF ExecutedGrows
<1> HIDE DEF q, done, rest
<1>8. Held' \subseteq Held
  BY AnswerHandledHeld DEF EntryInv, ElectionInv, HandleAnswer
<1>9. HeldAreGenuine'
  BY <1>2, <1>8, HeldStaysGenuine DEF EntryInv
\* No command that is done waits anywhere else.
<1>10. \A k \in DOMAIN done : \A x \in Node : \A p \in DOMAIN tasks[x] :
         tasks[x][p].command = done[k].command => x = i /\ p = k
  BY <1>4 DEF EntryInv, TasksAreOpen, q
<1>11. \A x \in Node : \A p \in DOMAIN tasks'[x] :
         \E r \in DOMAIN tasks[x] :
           /\ tasks'[x][p] = tasks[x][r]
           /\ IF x = i THEN r = n + p /\ p \in Nat \ {0} ELSE r = p
  BY <1>4, <1>5 DEF q
<1>12. TasksAreOpen'
  <2> SUFFICES ASSUME NEW x \in Node, NEW p \in DOMAIN tasks'[x]
               PROVE  /\ tasks'[x][p].command \in issued
                      /\ replies'[tasks'[x][p].command] = <<>>
                      /\ \A y \in Node : \A s \in DOMAIN tasks'[y] :
                           tasks'[x][p].command = tasks'[y][s].command => x = y /\ p = s
    BY <1>2 DEF TasksAreOpen
  <2>1. PICK r \in DOMAIN tasks[x] :
          /\ tasks'[x][p] = tasks[x][r]
          /\ IF x = i THEN r = n + p /\ p \in Nat \ {0} ELSE r = p
    BY <1>11
  <2>2. tasks[x][r].command \in issued /\ replies[tasks[x][r].command] = <<>>
    BY DEF EntryInv, TasksAreOpen
  <2>3. ~ \E k \in DOMAIN done : done[k].command = tasks[x][r].command
    <3> SUFFICES ASSUME NEW k \in DOMAIN done, done[k].command = tasks[x][r].command
                 PROVE  FALSE
      OBVIOUS
    <3>1. x = i /\ r = k /\ k <= n
      BY <1>4, <1>10
    <3> QED
      BY <2>1, <3>1
  <2>4. replies'[tasks'[x][p].command] = <<>>
    <3>1. tasks[x][r].command \in Command
      BY <2>2 DEF EntryInv, ElectionInv, TypeOK, ClientTypeOK
    <3> QED
      BY <1>6, <2>1, <2>2, <2>3, <3>1
  <2>5. ASSUME NEW y \in Node, NEW s \in DOMAIN tasks'[y],
               tasks'[x][p].command = tasks'[y][s].command
        PROVE  x = y /\ p = s
    <3>1. PICK t \in DOMAIN tasks[y] :
            /\ tasks'[y][s] = tasks[y][t]
            /\ IF y = i THEN t = n + s /\ s \in Nat \ {0} ELSE t = s
      BY <1>11
    <3>2. x = y /\ r = t
      BY <2>1, <2>5, <3>1 DEF EntryInv, TasksAreOpen
    <3> QED
      BY <2>1, <3>1, <3>2
  <2> QED
    BY <2>1, <2>2, <2>4, <2>5
<1>13. RepliesAreHonest'
  <2> SUFFICES ASSUME NEW c \in Command
               PROVE  /\ c \notin issued => replies'[c] = <<>>
                      /\ Len(replies'[c]) <= 1
                      /\ \A k \in DOMAIN replies'[c] :
                           IF replies'[c][k].kind = "applied"
                           THEN \E x \in Node : c \in ToSet(executed'[x])
                           ELSE \A e \in Held' : e.command # c
    BY <1>2 DEF RepliesAreHonest
  <2>1. CASE c \notin gone /\ \E k \in DOMAIN done : done[k].command = c
    <3>1. PICK k \in DOMAIN done : done[k].command = c
      BY <2>1
    <3>2. replies[c] = <<>> /\ c \in issued
      BY <1>4, <3>1 DEF EntryInv, TasksAreOpen, q
    <3>3. replies'[c] = <<[kind |-> "applied"]>>
      <4>1. replies'[c] = Append(<<>>, [kind |-> "applied"])
        BY <1>6, <2>1, <3>2
      <4> QED
        BY <4>1
    <3>4. c \in ToSet(executed'[i])
      BY <1>7, <3>1
    <3> QED
      BY <3>2, <3>3, <3>4
  <2>2. CASE ~(c \notin gone /\ \E k \in DOMAIN done : done[k].command = c)
    <3>1. replies'[c] = replies[c]
      BY <1>6, <2>2
    <3> QED
      BY <1>7, <1>8, <3>1 DEF EntryInv, RepliesAreHonest, ExecutedGrows
  <2> QED
    BY <2>1, <2>2
<1> QED
  BY <1>9, <1>12, <1>13 DEF EntryInv

\* A command that was not sent is in no entry, and waits nowhere.
LEMMA RefusedEntries ==
  ASSUME EntryInv, ElectionInv', NEW c \in Command, c \notin issued, NEW r \in Reply,
         r.kind # "applied", ReplyTo(c, r), issued' = issued \union {c},
         UNCHANGED <<log, disk, calls, tasks, executed, elected>>
  PROVE  EntryInv'
<1>1. Held' \subseteq Held
  BY SameHeld, FromHeld DEF EntryInv, ElectionInv
<1>2. HeldAreGenuine'
  BY <1>1, HeldStaysGenuine DEF EntryInv
<1>3. replies[c] = <<>>
  BY DEF EntryInv, RepliesAreHonest
<1>4. \A d \in Command : replies'[d] = IF d = c THEN <<r>> ELSE replies[d]
  BY <1>3 DEF ReplyTo, EntryInv, ElectionInv, TypeOK, ClientTypeOK
<1>5. TasksAreOpen'
  <2>1. \A i \in Node : \A k \in DOMAIN tasks[i] :
          tasks[i][k].command \in Command /\ tasks[i][k].command # c
    BY DEF EntryInv, TasksAreOpen, ElectionInv, TypeOK, ClientTypeOK
  <2> QED
    BY <1>4, <2>1 DEF EntryInv, TasksAreOpen
<1>6. RepliesAreHonest'
  <2> SUFFICES ASSUME NEW d \in Command
               PROVE  /\ d \notin issued' => replies'[d] = <<>>
                      /\ Len(replies'[d]) <= 1
                      /\ \A k \in DOMAIN replies'[d] :
                           IF replies'[d][k].kind = "applied"
                           THEN \E x \in Node : d \in ToSet(executed'[x])
                           ELSE \A e \in Held' : e.command # d
    BY DEF RepliesAreHonest
  <2>1. CASE d = c
    <3>1. replies'[d] = <<r>>
      BY <1>4, <2>1
    <3>2. \A e \in Held' : e.command # d
      BY <1>1, <2>1 DEF EntryInv, HeldAreGenuine
    <3> QED
      BY <2>1, <3>1, <3>2
  <2>2. CASE d # c
    BY <1>1, <1>4, <2>2 DEF EntryInv, RepliesAreHonest
  <2> QED
    BY <2>1, <2>2
<1> QED
  BY <1>2, <1>5, <1>6 DEF EntryInv

LEMMA ProposeHeld ==
  ASSUME TypeOK, NEW i \in Node, NEW c \in Command, Propose(i, c)
  PROVE  LET e == [term |-> currentTerm[i], index |-> LastIndex(log[i]) + 1, command |-> c]
         IN  e \in Entry /\ Held' \subseteq Held \union {e}
<1> DEFINE e == [term |-> currentTerm[i], index |-> LastIndex(log[i]) + 1, command |-> c]
           newLog == Append(log[i], e)
           m == [type |-> "append", term |-> currentTerm[i], prevIndex |-> PrevIndex(newLog),
                 prevTerm |-> PrevTerm(newLog), entries |-> <<e>>,
                 commit |-> commitIndex[i], live |-> TRUE]
           batch == [j \in Node |-> <<m>>]
<1>1. /\ log' = [log EXCEPT ![i] = newLog]
      /\ disk' = [disk EXCEPT ![i] = PersistBatch(@, <<e>>)]
      /\ Broadcast(i, batch)
  BY DEF Propose
<1>2. e \in Entry
  <2>1. LastIndex(log[i]) \in Nat /\ currentTerm[i] \in Nat
    BY LogTermTypes DEF TypeOK, RaftTypeOK, LogTypeOK
  <2> QED
    BY <2>1 DEF Entry
<1>3. m \in Call
  BY ProposedCallType
<1>4. CallEntries(m) = {e}
  BY DEF CallEntries, ToSet
<1> HIDE DEF m
<1>5. \A b \in Node : batch[b] \in Seq(Call) /\ \A n \in DOMAIN batch[b] :
           CallEntries(batch[b][n]) \subseteq {e}
  BY <1>3, <1>4
<1> HIDE DEF batch, e
<1>6. \A a, b \in Node : \A k \in DOMAIN calls'[a][b] :
           CallEntries(calls'[a][b][k]) \subseteq Held \union {e}
  BY <1>1, <1>5, BroadcastHeld
<1>7. \A n \in Node : ToSet(log'[n]) \subseteq Held \union {e}
  <2>1. ToSet(newLog) = ToSet(log[i]) \union {e}
    BY <1>2, AppendElements DEF TypeOK, LogTypeOK
  <2>2. \A n \in Node : log'[n] = IF n = i THEN newLog ELSE log[n]
    BY <1>1 DEF TypeOK, LogTypeOK
  <2> QED
    BY <2>1, <2>2, HeldEntries
<1>8. \A n \in Node : disk'[n].entries \subseteq Held \union {e}
  <2>1. PersistBatch(disk[i], <<e>>).entries \subseteq disk[i].entries \union ToSet(<<e>>)
    BY PersistBatchEntries DEF TypeOK, LogTypeOK
  <2>2. ToSet(<<e>>) = {e}
    BY DEF ToSet
  <2>3. \A n \in Node : disk'[n] = IF n = i THEN PersistBatch(disk[i], <<e>>) ELSE disk[n]
    BY <1>1 DEF TypeOK, LogTypeOK
  <2> QED
    BY <2>1, <2>2, <2>3, HeldEntries
<1>9. Held' \subseteq Held \union {e}
  BY <1>6, <1>7, <1>8 DEF Held, InLog, OnDisk, OnWire
<1> QED
  BY <1>2, <1>9 DEF e

LEMMA ProposeEntries ==
  ASSUME EntryInv, ElectionInv', NEW i \in Node, NEW c \in Command, Propose(i, c)
  PROVE  EntryInv'
<1> DEFINE e == [term |-> currentTerm[i], index |-> LastIndex(log[i]) + 1, command |-> c]
           task == [index |-> LastIndex(log[i]) + 1, command |-> c]
<1>1. e \in Entry /\ Held' \subseteq Held \union {e}
  BY ProposeHeld DEF EntryInv, ElectionInv
<1>2. c \notin issued /\ issued' = issued \union {c} /\ replies' = replies /\ executed' = executed
        /\ elected' = elected
  BY DEF Propose, IsNext, historyVars
<1>3. e.command = c /\ e.term = currentTerm[i]
  OBVIOUS
<1>4. \E n \in Node : <<n, e.term>> \in elected
  BY <1>3 DEF Propose, EntryInv, ElectionInv, RolesMatchWins
<1>5. \A f \in Held : f.command \in issued /\ f.command # c
  BY <1>2 DEF EntryInv, HeldAreGenuine
<1>6. task \in Task /\ task.command = c
  <2>1. LastIndex(log[i]) \in Nat
    BY LogTermTypes DEF EntryInv, ElectionInv, TypeOK, LogTypeOK
  <2> QED
    BY <2>1 DEF Task
<1>7. tasks' = [tasks EXCEPT ![i] = Append(@, task)]
  BY DEF Propose
<1> HIDE DEF e, task
<1>8. HeldAreGenuine'
  <2> SUFFICES ASSUME NEW f \in Held'
               PROVE  /\ \E n \in Node : <<n, f.term>> \in elected'
                      /\ f.command \in issued'
                      /\ \A g \in Held' : f.command = g.command => f = g
    BY DEF HeldAreGenuine
  <2>1. CASE f \in Held
    BY <1>1, <1>2, <1>3, <1>5, <2>1 DEF EntryInv, HeldAreGenuine
  <2>2. CASE f = e
    BY <1>1, <1>2, <1>3, <1>4, <1>5, <2>2
  <2> QED
    BY <1>1, <2>1, <2>2
<1>9. ASSUME NEW x \in Node, NEW k \in DOMAIN tasks'[x]
      PROVE  \/ k \in DOMAIN tasks[x] /\ tasks'[x][k] = tasks[x][k]
             \/ x = i /\ k = Len(tasks[i]) + 1 /\ tasks'[x][k] = task
  <2>1. tasks[i] \in Seq(Task)
    BY DEF EntryInv, ElectionInv, TypeOK, ApplyTypeOK
  <2>2. tasks'[x] = IF x = i THEN Append(tasks[i], task) ELSE tasks[x]
    BY <1>7 DEF EntryInv, ElectionInv, TypeOK, ApplyTypeOK
  <2>3. /\ Len(Append(tasks[i], task)) = Len(tasks[i]) + 1
        /\ DOMAIN Append(tasks[i], task) = 1..(Len(tasks[i]) + 1)
        /\ DOMAIN tasks[i] = 1..Len(tasks[i]) /\ Len(tasks[i]) \in Nat
        /\ \A p \in 1..Len(tasks[i]) : Append(tasks[i], task)[p] = tasks[i][p]
        /\ Append(tasks[i], task)[Len(tasks[i]) + 1] = task
    BY <1>6, <2>1, AppendProperties, LenProperties
  <2> QED
    BY <2>2, <2>3
<1>10. \A x \in Node : \A k \in DOMAIN tasks[x] : tasks[x][k].command \in issued
  BY DEF EntryInv, TasksAreOpen
<1>11. TasksAreOpen'
  <2> SUFFICES ASSUME NEW x \in Node, NEW k \in DOMAIN tasks'[x]
               PROVE  /\ tasks'[x][k].command \in issued'
                      /\ replies'[tasks'[x][k].command] = <<>>
                      /\ \A y \in Node : \A n \in DOMAIN tasks'[y] :
                           tasks'[x][k].command = tasks'[y][n].command => x = y /\ k = n
    BY DEF TasksAreOpen
  <2>1. replies[c] = <<>>
    BY <1>2 DEF EntryInv, RepliesAreHonest
  <2>2. CASE k \in DOMAIN tasks[x] /\ tasks'[x][k] = tasks[x][k]
    <3>1. tasks[x][k].command \in issued /\ replies[tasks[x][k].command] = <<>>
      BY <2>2 DEF EntryInv, TasksAreOpen
    <3>2. ASSUME NEW y \in Node, NEW n \in DOMAIN tasks'[y],
                 tasks'[x][k].command = tasks'[y][n].command
          PROVE  x = y /\ k = n
      <4>1. n \in DOMAIN tasks[y] /\ tasks'[y][n] = tasks[y][n]
        BY <1>2, <1>6, <1>9, <2>2, <3>1, <3>2
      <4> QED
        BY <2>2, <3>2, <4>1 DEF EntryInv, TasksAreOpen
    <3> QED
      BY <1>2, <2>2, <3>1, <3>2
  <2>3. CASE x = i /\ k = Len(tasks[i]) + 1 /\ tasks'[x][k] = task
    <3>1. ASSUME NEW y \in Node, NEW n \in DOMAIN tasks'[y],
                 tasks'[x][k].command = tasks'[y][n].command
          PROVE  x = y /\ k = n
      BY <1>2, <1>6, <1>9, <1>10, <2>3, <3>1
    <3> QED
      BY <1>2, <1>6, <2>1, <2>3, <3>1
  <2> QED
    BY <1>9, <2>2, <2>3
<1>12. RepliesAreHonest'
  <2> SUFFICES ASSUME NEW d \in Command
               PROVE  /\ d \notin issued' => replies[d] = <<>>
                      /\ Len(replies[d]) <= 1
                      /\ \A k \in DOMAIN replies[d] :
                           IF replies[d][k].kind = "applied"
                           THEN \E x \in Node : d \in ToSet(executed[x])
                           ELSE \A f \in Held' : f.command # d
    BY <1>2 DEF RepliesAreHonest
  <2>1. replies[c] = <<>>
    BY <1>2 DEF EntryInv, RepliesAreHonest
  <2>2. \A f \in Held' : f \in Held \/ f.command = c
    BY <1>1, <1>3
  <2>3. CASE d = c
    BY <1>2, <2>1, <2>3
  <2>4. CASE d # c
    BY <1>2, <2>2, <2>4 DEF EntryInv, RepliesAreHonest
  <2> QED
    BY <2>3, <2>4
<1> QED
  BY <1>8, <1>11, <1>12 DEF EntryInv

-----------------------------------------------------------------------------
(* Every step. *)

LEMMA NextEntryInv == EntryInv /\ [Next]_vars => EntryInv'
<1> SUFFICES ASSUME EntryInv, [Next]_vars PROVE EntryInv'
  OBVIOUS
<1>0. ElectionInv'
  BY NextElectionInv DEF EntryInv
<1>1. ASSUME NEW i \in Node, ElectionTimeout(i) \/ HeartbeatTick(i) \/ Restart(i)
      PROVE  EntryInv'
  BY <1>0, <1>1, OwnerEntries
<1>2. ASSUME NEW i \in Node, NEW j \in Node, HandleCall(i, j) \/ Fault(i, j)
      PROVE  EntryInv'
  BY <1>0, <1>2, CallEntriesInv
<1>3. ASSUME NEW i \in Node, NEW j \in Node, HandleAnswer(i, j)
      PROVE  EntryInv'
  BY <1>0, <1>3, NoteMatchEntries, AnswerEntriesInv
<1>4. ASSUME NEW i \in Node, NEW c \in Command, Client(i, c) \/ FailPropose(i, c)
      PROVE  EntryInv'
  <2>1. CASE Redirect(i, c)
    <3> DEFINE r == [kind |-> "redirect", to |-> leaderId[i]]
    <3>1. r \in Reply /\ r.kind # "applied"
      BY DEF Reply, EntryInv, ElectionInv, TypeOK, RaftTypeOK
    <3>2. ReplyTo(c, r) /\ c \notin issued /\ issued' = issued \union {c}
      BY <2>1 DEF Redirect, IsNext
    <3>3. UNCHANGED <<log, disk, calls, tasks, executed, elected>>
      BY <2>1 DEF Redirect, logVars, applyVars, netVars, historyVars
    <3> HIDE DEF r
    <3> QED
      BY <1>0, <3>1, <3>2, <3>3, RefusedEntries
  <2>2. CASE FailPropose(i, c)
    <3> DEFINE r == [kind |-> "failed"]
    <3>1. r \in Reply /\ r.kind # "applied"
      BY DEF Reply
    <3>2. ReplyTo(c, r) /\ c \notin issued /\ issued' = issued \union {c}
      BY <2>2 DEF FailPropose, IsNext
    <3>3. UNCHANGED <<log, disk, calls, tasks, executed, elected>>
      BY <2>2 DEF FailPropose, logVars, applyVars, netVars, historyVars
    <3> HIDE DEF r
    <3> QED
      BY <1>0, <3>1, <3>2, <3>3, RefusedEntries
  <2> QED
    BY <1>0, <1>4, <2>1, <2>2, ProposeEntries DEF Client
<1>5. ASSUME NEW c \in Command, LoseClient(c)
      PROVE  EntryInv'
  BY <1>0, <1>5, NoEntriesInv DEF LoseClient, logVars, applyVars, netVars, historyVars
<1>6. ASSUME UNCHANGED vars
      PROVE  EntryInv'
  BY <1>0, <1>6, NoEntriesInv DEF vars, logVars, applyVars, netVars, clientVars, historyVars
<1> QED
  BY <1>1, <1>2, <1>3, <1>4, <1>5, <1>6 DEF Next

LEMMA InitEntryInv == Init => EntryInv
<1> SUFFICES ASSUME Init PROVE EntryInv
  OBVIOUS
<1>1. ElectionInv
  BY InitElectionInv
<1>2. Held = {}
  BY DEF Init, Held, InLog, OnDisk, OnWire, EmptyDisk, ToSet
<1>3. HeldAreGenuine /\ TasksAreOpen /\ RepliesAreHonest
  BY <1>2 DEF Init, HeldAreGenuine, TasksAreOpen, RepliesAreHonest
<1> QED
  BY <1>1, <1>3 DEF EntryInv

-----------------------------------------------------------------------------
(* The theorems. *)

\* Every behaviour keeps the invariant of entries: what is in logs, on disks and on the
\* wire, and what waits in tasks_, agrees with the answers (raft_node.cpp:444-520 and
\* 552-773, state_machine.cpp:34-115).
THEOREM EntriesInvariant == Spec => []EntryInv
<1> QED
  BY InitEntryInv, NextEntryInv, PTL DEF Spec

\* No log holds an entry that no leader made and no client asked for, and no two logs hold
\* different entries for one command (raft_log.cpp:93-124, persister.cpp:174-190).
THEOREM LogsAreGenuine == Spec => []EntriesAreGenuine
<1>1. EntryInv => EntriesAreGenuine
  <2> SUFFICES ASSUME EntryInv, NEW i \in Node, NEW j \in Node,
                      NEW e \in ToSet(log[i]), NEW f \in ToSet(log[j])
               PROVE  /\ \E n \in Node : <<n, e.term>> \in elected
                      /\ e.command \in issued
                      /\ e.command = f.command => e = f
    BY DEF EntriesAreGenuine
  <2>1. e \in Held /\ f \in Held
    BY HeldEntries DEF EntryInv, ElectionInv
  <2> QED
    BY <2>1 DEF EntryInv, HeldAreGenuine
<1> QED
  BY <1>1, EntriesInvariant, PTL

\* A client gets one answer at most, "applied" only to a command that some member has
\* executed, and any other only to a command that no log will ever hold
\* (state_machine.cpp:38-73, raft_node.cpp:552-773).
THEOREM ClientsGetHonestAnswers == Spec => []AnswersAreHonest
<1>1. EntryInv => AnswersAreHonest
  <2> SUFFICES ASSUME EntryInv, NEW c \in Command
               PROVE  /\ Len(replies[c]) <= 1
                      /\ \A r \in ToSet(replies[c]) :
                           IF r.kind = "applied"
                           THEN \E i \in Node : c \in ToSet(executed[i])
                           ELSE \A i \in Node : c \notin ToSet(Commands(log[i]))
    BY DEF AnswersAreHonest
  <2>1. Len(replies[c]) <= 1
    BY DEF EntryInv, RepliesAreHonest
  <2>2. ASSUME NEW k \in DOMAIN replies[c], replies[c][k].kind # "applied", NEW i \in Node
        PROVE  c \notin ToSet(Commands(log[i]))
    <3>1. \A e \in Held : e.command # c
      BY <2>2 DEF EntryInv, RepliesAreHonest
    <3>2. \A n \in DOMAIN log[i] : log[i][n] \in Held
      <4>1. ToSet(log[i]) \subseteq Held
        BY HeldEntries DEF EntryInv, ElectionInv
      <4> QED
        BY <4>1 DEF ToSet
    <3> QED
      BY <3>1, <3>2 DEF Commands, ToSet
  <2>3. \A k \in DOMAIN replies[c] :
          replies[c][k].kind = "applied" => \E i \in Node : c \in ToSet(executed[i])
    BY DEF EntryInv, RepliesAreHonest
  <2> QED
    BY <2>1, <2>2, <2>3 DEF ToSet
<1> QED
  BY <1>1, EntriesInvariant, PTL

=============================================================================
