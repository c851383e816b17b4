------------------------------ MODULE RaftNode ------------------------------
(***************************************************************************)
(* A cluster of RaftNodes: elections, replication of the log, the          *)
(* execution of committed commands and the KV calls of the clients.        *)
(*                                                                         *)
(* Every handler and timer of RaftNode runs under mutex_ from its first    *)
(* change of state to its last one (handle_append_entries_response awaits  *)
(* StateMachine::apply with the mutex held), and what it read before the   *)
(* lock it checks again: one action is one handler.                        *)
(*                                                                         *)
(* A member calls another one over one TCP connection.  calls[i][j] are    *)
(* the requests i has sent to j that j has not handled, answers[i][j] the  *)
(* responses of j that i has not handled.  The RPC layer is taken at its   *)
(* word here: a response reaches the callback of its own request or none.  *)
(***************************************************************************)
EXTENDS RaftLog, FiniteSets, SequencesExt

CONSTANTS
  Electable,        \* the members whose election timer may expire
  InOrder,          \* TRUE: requests to a member are handled in the order of their sending
  \* Bounds on what is otherwise without limit, each a conjunct of a guard.
  MaxTerm,          \* no election starts from this term on
  MaxQueue,         \* no heartbeat while so many requests to a member are unanswered
  MaxCuts, MaxRestarts, MaxWriteErrors, MaxGone

ASSUME NodesAreFinite == IsFiniteSet(Node)
ASSUME ElectableAreNodes == Electable \subseteq Node
ASSUME InOrderIsBoolean == InOrder \in BOOLEAN
ASSUME BoundsAreNumbers ==
  /\ MaxTerm \in Nat
  /\ MaxQueue \in Nat
  /\ MaxCuts \in Nat
  /\ MaxRestarts \in Nat
  /\ MaxWriteErrors \in Nat
  /\ MaxGone \in Nat

VARIABLES
  role, votes, leaderId,         \* role_, votes_, leader_id_
  currentTerm, votedFor,         \* current_term_, voted_for_
  log,                           \* logs_.entries_
  commitIndex, lastApplied,      \* commit_index_, last_applied_
  nextIndex, matchIndex,         \* the two maps; 0 stands for an absent key
  tasks,                         \* state_machine_.tasks_: commands waiting for commit
  down,                          \* the process has died and does not come back by itself
  disk,                          \* the raft log database
  executed,                      \* the commands run against the user database, in order
  calls, answers,                \* requests and responses between members
  issued, gone, replies,         \* the clients: commands sent, sessions closed, answers
  faults,                        \* how many faults of each kind have happened
  granted,                       \* history: <<voter, candidate, term>> of every granted vote
  elected                        \* history: <<node, term>> of every election won

raftVars == <<role, votes, leaderId, currentTerm, votedFor>>
logVars == <<log, disk>>
applyVars == <<commitIndex, lastApplied, tasks, executed, down>>
leaderVars == <<nextIndex, matchIndex>>
netVars == <<calls, answers>>
clientVars == <<issued, gone, replies>>
historyVars == <<granted, elected>>
vars == <<raftVars, logVars, applyVars, leaderVars, netVars, clientVars, faults, historyVars>>

-----------------------------------------------------------------------------
(* Messages.  A call is live while the connection it came over can carry   *)
(* its answer.  A heartbeat is an AppendEntries request without entries:   *)
(* its receiver does not look at its previous index.                       *)

VoteCall ==
  [type : {"vote"}, term : Nat, lastIndex : Nat, lastTerm : Nat, live : BOOLEAN]
AppendCall ==
  [type : {"append"}, term : Nat, prevIndex : Nat, prevTerm : Nat,
   entries : Seq(Entry) \ {<<>>}, commit : Nat, live : BOOLEAN]
HeartbeatCall == [type : {"heartbeat"}, term : Nat, commit : Nat, live : BOOLEAN]
Call == VoteCall \union AppendCall \union HeartbeatCall

VoteAnswer == [type : {"vote"}, term : Nat, granted : BOOLEAN]
AppendAnswer ==
  [type : {"append"}, term : Nat, success : BOOLEAN, last : Nat, conflict : Nat]
HeartbeatAnswer == [type : {"heartbeat"}, term : Nat]
Answer == VoteAnswer \union AppendAnswer \union HeartbeatAnswer

Reply == [kind : {"redirect"}, to : Node \union {Nil}] \union [kind : {"failed", "applied"}]

\* The positions of calls[i][j] that may be handled next: spawned broadcasts and
\* single sends wait for each other at the connections of other members, so one may
\* overtake another.
Arrived(i, j) == IF InOrder THEN {1} \intersect DOMAIN calls[i][j] ELSE DOMAIN calls[i][j]

BroadcastToAll(i, batch) ==
  calls' = [calls EXCEPT ![i] = [j \in Node |-> calls[i][j] \o batch[j]]]

\* One or more requests from i to each other member.
Broadcast(i, batch) ==
  calls' = [calls EXCEPT ![i] =
              [j \in Node |-> IF j = i THEN calls[i][j] ELSE calls[i][j] \o batch[j]]]

\* i has handled the k-th request of j and answers a.
Respond(i, j, k, a) ==
  /\ calls' = [calls EXCEPT ![j][i] = RemoveAt(@, k)]
  /\ answers' = IF calls[j][i][k].live
                THEN [answers EXCEPT ![j][i] = Append(@, a)]
                ELSE answers

\* i has taken the first response of j off its connection.
Consume(i, j) == answers' = [answers EXCEPT ![i][j] = Tail(@)]

-----------------------------------------------------------------------------
(* What a member holds: first start, and start from its databases. *)

Init ==
  /\ role = [i \in Node |-> "follower"]
  /\ votes = [i \in Node |-> 0]
  /\ leaderId = [i \in Node |-> Nil]
  /\ currentTerm = [i \in Node |-> 0]
  /\ votedFor = [i \in Node |-> Nil]
  /\ log = [i \in Node |-> <<>>]
  /\ commitIndex = [i \in Node |-> 0]
  /\ lastApplied = [i \in Node |-> 0]
  /\ nextIndex = [i \in Node |-> [j \in Node |-> 0]]
  /\ matchIndex = [i \in Node |-> [j \in Node |-> 0]]
  /\ tasks = [i \in Node |-> <<>>]
  /\ down = [i \in Node |-> FALSE]
  /\ disk = [i \in Node |-> EmptyDisk]
  /\ executed = [i \in Node |-> <<>>]
  /\ calls = [i \in Node |-> [j \in Node |-> <<>>]]
  /\ answers = [i \in Node |-> [j \in Node |-> <<>>]]
  /\ issued = {}
  /\ gone = {}
  /\ replies = [c \in Command |-> <<>>]
  /\ faults = [cuts |-> 0, restarts |-> 0, writeErrors |-> 0]
  /\ granted = {}
  /\ elected = {}

\* The requests of a dead process stay on the wire, their answers reach nobody;
\* requests to it are lost.  Its log and state come from disk, the user database keeps
\* what was executed.  Without a readable log RaftNode::create fails.
Restart(i) ==
  /\ faults.restarts < MaxRestarts
  /\ faults' = [faults EXCEPT !.restarts = @ + 1]
  /\ role' = [role EXCEPT ![i] = "follower"]
  /\ votes' = [votes EXCEPT ![i] = 0]
  /\ leaderId' = [leaderId EXCEPT ![i] = Nil]
  /\ currentTerm' = [currentTerm EXCEPT ![i] = disk[i].term]
  /\ votedFor' = [votedFor EXCEPT ![i] = disk[i].vote]
  /\ log' = [log EXCEPT ![i] = IF Recoverable(disk[i]) THEN RecoverEntries(disk[i]) ELSE <<>>]
  /\ down' = [down EXCEPT ![i] = ~Recoverable(disk[i])]
  /\ commitIndex' = [commitIndex EXCEPT ![i] = 0]
  /\ lastApplied' = [lastApplied EXCEPT ![i] = 0]
  /\ nextIndex' = [nextIndex EXCEPT ![i] = [j \in Node |-> 0]]
  /\ matchIndex' = [matchIndex EXCEPT ![i] = [j \in Node |-> 0]]
  /\ tasks' = [tasks EXCEPT ![i] = <<>>]
  /\ calls' = [a \in Node |-> [b \in Node |->
                 IF b = i THEN <<>>
                 ELSE IF a = i
                 THEN [k \in DOMAIN calls[a][b] |-> [calls[a][b][k] EXCEPT !.live = FALSE]]
                 ELSE calls[a][b]]]
  /\ answers' = [answers EXCEPT ![i] = [j \in Node |-> <<>>]]
  /\ UNCHANGED <<disk, executed, clientVars, historyVars>>

\* The connection from i to j breaks: the last requests on it are lost, the others are
\* still handled, and no answer comes back.
Cut(i, j) ==
  /\ faults.cuts < MaxCuts
  /\ calls[i][j] # <<>> \/ answers[i][j] # <<>>
  /\ faults' = [faults EXCEPT !.cuts = @ + 1]
  /\ \E n \in 0..Len(calls[i][j]) :
       calls' = [calls EXCEPT ![i][j] = [k \in 1..n |-> [@[k] EXCEPT !.live = FALSE]]]
  /\ answers' = [answers EXCEPT ![i][j] = <<>>]
  /\ UNCHANGED <<raftVars, logVars, applyVars, leaderVars, clientVars, historyVars>>

-----------------------------------------------------------------------------
(* Terms and roles. *)

IsOtherTerm(i, term) == term # currentTerm[i]

IsHigher(i, term) == term > currentTerm[i]

StepUpKeepingRole(i, term) ==
  IF IsHigher(i, term)
  THEN /\ currentTerm' = [currentTerm EXCEPT ![i] = term]
       /\ votedFor' = [votedFor EXCEPT ![i] = Nil]
       /\ votes' = [votes EXCEPT ![i] = 0]
       /\ UNCHANGED role
  ELSE UNCHANGED <<currentTerm, votedFor, votes, role>>

\* A request or response of a higher term: increase_term_to and the role.
StepUp(i, term) ==
  IF IsHigher(i, term)
  THEN /\ currentTerm' = [currentTerm EXCEPT ![i] = term]
       /\ votedFor' = [votedFor EXCEPT ![i] = Nil]
       /\ votes' = [votes EXCEPT ![i] = 0]
       /\ role' = [role EXCEPT ![i] = "follower"]
  ELSE UNCHANGED <<currentTerm, votedFor, votes, role>>

\* What persist(current_term, voted_for_) leaves on disk in a request's handler.
DiskAtTerm(i, term) ==
  IF IsHigher(i, term) THEN PersistState(disk[i], term, Nil) ELSE disk[i]

\* start_election_timeout and start_election: nothing is persisted.
ElectionTimeout(i) ==
  /\ ~down[i]
  /\ i \in Electable
  /\ role[i] # "leader"
  /\ currentTerm[i] < MaxTerm
  /\ currentTerm' = [currentTerm EXCEPT ![i] = @ + 1]
  /\ votedFor' = [votedFor EXCEPT ![i] = i]
  /\ votes' = [votes EXCEPT ![i] = 1]
  /\ role' = [role EXCEPT ![i] = "candidate"]
  /\ Broadcast(i, [j \in Node |->
       <<[type |-> "vote", term |-> currentTerm[i] + 1, lastIndex |-> LastIndex(log[i]),
          lastTerm |-> LastTerm(log[i]), live |-> TRUE]>>])
  /\ UNCHANGED <<leaderId, logVars, applyVars, leaderVars, answers, clientVars, faults,
                 historyVars>>

\* can_vote and up_to_date_log, after the request's term was adopted.
GrantsVote(i, j, m) ==
  /\ IsHigher(i, m.term) \/ votedFor[i] \in {Nil, j}
  /\ \/ m.lastIndex > LastIndex(log[i])
     \/ m.lastIndex = LastIndex(log[i]) /\ m.lastTerm = LastTerm(log[i])

\* handle_request_vote_request, from a past term.
RefuseStaleVote(i, j) ==
  /\ ~down[i]
  /\ \E k \in Arrived(j, i) :
       /\ calls[j][i][k].type = "vote"
       /\ calls[j][i][k].term < currentTerm[i]
       /\ Respond(i, j, k, [type |-> "vote", term |-> currentTerm[i], granted |-> FALSE])
  /\ UNCHANGED <<raftVars, logVars, applyVars, leaderVars, clientVars, faults, historyVars>>

\* handle_request_vote_request otherwise: granting a vote leaves voted_for_ as it was.
AnswerVote(i, j) ==
  /\ ~down[i]
  /\ \E k \in Arrived(j, i) :
       LET m == calls[j][i][k] IN
       /\ m.type = "vote"
       /\ m.term >= currentTerm[i]
       /\ StepUp(i, m.term)
       /\ disk' = [disk EXCEPT ![i] = DiskAtTerm(i, m.term)]
       /\ Respond(i, j, k, [type |-> "vote", term |-> m.term, granted |-> GrantsVote(i, j, m)])
       /\ granted' = IF GrantsVote(i, j, m) THEN granted \union {<<i, j, m.term>>} ELSE granted
  /\ UNCHANGED <<leaderId, log, applyVars, leaderVars, clientVars, faults, elected>>

-----------------------------------------------------------------------------
(* The three response handlers. *)

IsNeverStale(i, a) == FALSE

IsStale(i, a) == a.term < currentTerm[i]

\* The early returns, and the responses that change nothing.
IsIdle(i, j, a) ==
  \/ IsStale(i, a)
  \/ a.type # "vote" /\ role[i] # "leader"
  \/ /\ a.term = currentTerm[i]
     /\ \/ a.type = "heartbeat"
        \/ a.type = "vote" /\ (role[i] = "leader" \/ ~a.granted)
        \/ a.type = "append" /\ a.success /\ a.last <= matchIndex[i][j]

IgnoreAnswer(i, j) ==
  /\ ~down[i]
  /\ answers[i][j] # <<>>
  /\ IsIdle(i, j, Head(answers[i][j]))
  /\ Consume(i, j)
  /\ UNCHANGED <<raftVars, logVars, applyVars, leaderVars, calls, clientVars, faults,
                 historyVars>>

\* A response of a higher term.  handle_request_vote_response persists the term it
\* leaves, the two others the term they enter.
StepDown(i, j) ==
  /\ ~down[i]
  /\ answers[i][j] # <<>>
  /\ LET a == Head(answers[i][j]) IN
     /\ IsHigher(i, a.term)
     /\ a.type = "vote" \/ role[i] = "leader"
     /\ StepUp(i, a.term)
     /\ disk' = [disk EXCEPT ![i] = PersistState(@,
                   IF a.type = "vote" THEN currentTerm[i] ELSE a.term, Nil)]
  /\ Consume(i, j)
  /\ UNCHANGED <<leaderId, log, applyVars, leaderVars, calls, clientVars, faults, historyVars>>

WinsWithHalf(count) == count >= Cardinality(Node) \div 2

\* peer_count() counts the member itself.
WinsWith(count) == count > Cardinality(Node) \div 2

IsVote(i, a) ==
  a.type = "vote" /\ a.granted /\ ~IsStale(i, a) /\ ~IsHigher(i, a.term)

\* handle_request_vote_response, one more vote.
CountVote(i, j) ==
  /\ ~down[i]
  /\ answers[i][j] # <<>>
  /\ IsVote(i, Head(answers[i][j]))
  /\ role[i] # "leader"
  /\ ~(WinsWith(votes[i] + 1) /\ role[i] = "candidate")
  /\ votes' = [votes EXCEPT ![i] = @ + 1]
  /\ Consume(i, j)
  /\ UNCHANGED <<role, leaderId, currentTerm, votedFor, logVars, applyVars, leaderVars, calls,
                 clientVars, faults, historyVars>>

\* The vote that makes a majority, and become_leader: the keys of next_index_ are
\* reset, match_index_ and the waiting commands are not.
BecomeLeader(i, j) ==
  /\ ~down[i]
  /\ answers[i][j] # <<>>
  /\ IsVote(i, Head(answers[i][j]))
  /\ role[i] = "candidate"
  /\ WinsWith(votes[i] + 1)
  /\ role' = [role EXCEPT ![i] = "leader"]
  /\ votes' = [votes EXCEPT ![i] = 0]
  /\ votedFor' = [votedFor EXCEPT ![i] = Nil]
  /\ nextIndex' = [nextIndex EXCEPT ![i] =
                     [n \in Node |-> IF @[n] = 0 THEN 0 ELSE LastIndex(log[i]) + 1]]
  /\ disk' = [disk EXCEPT ![i] = PersistState(@, currentTerm[i], Nil)]
  /\ elected' = elected \union {<<i, currentTerm[i]>>}
  /\ Consume(i, j)
  /\ UNCHANGED <<leaderId, currentTerm, log, applyVars, matchIndex, calls, clientVars, faults,
                 granted>>

-----------------------------------------------------------------------------
(* handle_append_entries_request. *)

AppendRefused(term, len) ==
  [type |-> "append", term |-> term, success |-> FALSE, last |-> len, conflict |-> len + 1]

AppendDone(term, len) ==
  [type |-> "append", term |-> term, success |-> TRUE, last |-> len, conflict |-> 1]

\* From a past term.
RefuseStaleAppend(i, j) ==
  /\ ~down[i]
  /\ \E k \in Arrived(j, i) :
       LET m == calls[j][i][k] IN
       /\ m.type # "vote"
       /\ m.term < currentTerm[i]
       /\ Respond(i, j, k, IF m.type = "heartbeat"
                           THEN [type |-> "heartbeat", term |-> currentTerm[i]]
                           ELSE AppendRefused(currentTerm[i], LastIndex(log[i])))
  /\ UNCHANGED <<raftVars, logVars, applyVars, leaderVars, clientVars, faults, historyVars>>

AcceptTerm(i, j, m) ==
  /\ m.term >= currentTerm[i]
  /\ StepUp(i, m.term)
  /\ leaderId' = [leaderId EXCEPT ![i] = m.term]

AcceptSelf(i, j, m) ==
  /\ m.term >= currentTerm[i]
  /\ StepUp(i, m.term)
  /\ leaderId' = [leaderId EXCEPT ![i] = i]

\* What any other sender is: the leader of its term.  A candidate or leader of the same
\* term keeps its role.
AcceptLeader(i, j, m) ==
  /\ m.term >= currentTerm[i]
  /\ StepUp(i, m.term)
  /\ leaderId' = [leaderId EXCEPT ![i] = j]

\* leader_commit > commit_index_ ? min(last_log_index, leader_commit) : commit_index_
CommitAfter(i, newLog, commit) ==
  IF commit <= commitIndex[i] THEN commitIndex[i]
  ELSE IF commit < Len(newLog) THEN commit ELSE Len(newLog)

Commands(entries) == [k \in DOMAIN entries |-> entries[k].command]

ApplyViewToLast(i, newLog, commit) ==
  /\ executed' = [executed EXCEPT ![i] = @ \o Commands(SubSeq(newLog, lastApplied[i] + 1, commit))]
  /\ lastApplied' = [lastApplied EXCEPT ![i] = Len(newLog)]
  /\ UNCHANGED down

\* StateMachine::apply(entries_view(last_applied_ + 1, commit_index_)).  A wild view
\* executes the rest of the log; then the process reads beyond the vector and dies.
ApplyView(i, newLog, commit) ==
  LET start == lastApplied[i] + 1
      wild == ViewIsWild(newLog, start, commit)
      end == IF wild THEN Len(newLog) ELSE commit
  IN  /\ down' = [down EXCEPT ![i] = wild]
      /\ IF ViewIsGiven(newLog, start, commit)
         THEN /\ executed' = [executed EXCEPT ![i] = @ \o Commands(SubSeq(newLog, start, end))]
              /\ lastApplied' = [lastApplied EXCEPT ![i] = end]
         ELSE UNCHANGED <<executed, lastApplied>>

\* No answer comes from a process that died applying.
RespondIfAlive(i, j, k, a) ==
  IF down'[i] THEN calls' = [calls EXCEPT ![j][i] = RemoveAt(@, k)] /\ UNCHANGED answers
  ELSE Respond(i, j, k, a)

AcceptHeartbeat(i, j) ==
  /\ ~down[i]
  /\ \E k \in Arrived(j, i) :
       LET m == calls[j][i][k]
           commit == CommitAfter(i, log[i], m.commit)
       IN /\ m.type = "heartbeat"
          /\ AcceptLeader(i, j, m)
          /\ commitIndex' = [commitIndex EXCEPT ![i] = commit]
          /\ ApplyView(i, log[i], commit)
          /\ disk' = [disk EXCEPT ![i] = DiskAtTerm(i, m.term)]
          /\ RespondIfAlive(i, j, k, [type |-> "heartbeat", term |-> m.term])
  /\ UNCHANGED <<log, tasks, leaderVars, clientVars, faults, historyVars>>

HasWideGap(i, m) == m.prevIndex > LastIndex(log[i]) + 1

\* The log ends before prev_log_index.
HasGap(i, m) == m.prevIndex > LastIndex(log[i])

RefuseGap(i, j) ==
  /\ ~down[i]
  /\ \E k \in Arrived(j, i) :
       LET m == calls[j][i][k] IN
       /\ m.type = "append"
       /\ AcceptLeader(i, j, m)
       /\ HasGap(i, m)
       /\ disk' = [disk EXCEPT ![i] = DiskAtTerm(i, m.term)]
       /\ Respond(i, j, k, AppendRefused(m.term, LastIndex(log[i])))
  /\ UNCHANGED <<log, applyVars, leaderVars, clientVars, faults, historyVars>>

MatchedAnyTerm(i, m) == Truncated(log[i], m.prevIndex)

\* A log whose term at prev_log_index is another one loses that entry too.
Matched(i, m) ==
  IF TermAt(log[i], m.prevIndex) # m.prevTerm THEN Truncated(log[i], m.prevIndex) ELSE log[i]

\* RocksDB refuses the batch: the log stays truncated.
FailAppend(i, j) ==
  /\ ~down[i]
  /\ faults.writeErrors < MaxWriteErrors
  /\ \E k \in Arrived(j, i) :
       LET m == calls[j][i][k] IN
       /\ m.type = "append"
       /\ AcceptLeader(i, j, m)
       /\ ~HasGap(i, m)
       /\ log' = [log EXCEPT ![i] = Matched(i, m)]
       /\ disk' = [disk EXCEPT ![i] = TruncateBatch(DiskAtTerm(i, m.term))]
       /\ Respond(i, j, k, AppendRefused(m.term, Len(Matched(i, m))))
  /\ faults' = [faults EXCEPT !.writeErrors = @ + 1]
  /\ UNCHANGED <<applyVars, leaderVars, clientVars, historyVars>>

\* The entries go to the end of the log, wherever prev_log_index points to.
Extended(i, m) == Matched(i, m) \o m.entries

DiskExtended(i, m) == PersistBatch(TruncateBatch(DiskAtTerm(i, m.term)), m.entries)

AcceptEntries(i, j) ==
  /\ ~down[i]
  /\ \E k \in Arrived(j, i) :
       LET m == calls[j][i][k]
           commit == CommitAfter(i, Extended(i, m), m.commit)
       IN /\ m.type = "append"
          /\ AcceptLeader(i, j, m)
          /\ ~HasGap(i, m)
          /\ log' = [log EXCEPT ![i] = Extended(i, m)]
          /\ disk' = [disk EXCEPT ![i] = DiskExtended(i, m)]
          /\ commitIndex' = [commitIndex EXCEPT ![i] = commit]
          /\ IF m.commit > commitIndex[i]
             THEN ApplyView(i, Extended(i, m), commit)
             ELSE UNCHANGED <<executed, lastApplied, down>>
          /\ RespondIfAlive(i, j, k, AppendDone(m.term, Len(Extended(i, m))))
  /\ UNCHANGED <<tasks, leaderVars, clientVars, faults, historyVars>>

-----------------------------------------------------------------------------
(* The leader. *)

HeartbeatCallOf(i) ==
  [type |-> "heartbeat", term |-> currentTerm[i], commit |-> commitIndex[i], live |-> TRUE]

MustReissue(i, j) == nextIndex[i][j] \in 1..LastIndex(log[i])

\* The entries from next_index_ on.
ReissueCall(i, j) ==
  [type |-> "append", term |-> currentTerm[i], prevIndex |-> nextIndex[i][j] - 1,
   prevTerm |-> TermAt(log[i], nextIndex[i][j] - 1),
   entries |-> SubSeq(log[i], nextIndex[i][j], LastIndex(log[i])),
   commit |-> commitIndex[i], live |-> TRUE]

\* start_heartbeat_timeout: the reissued entries move next_index_ to the end at once.
HeartbeatTick(i) ==
  /\ ~down[i]
  /\ role[i] = "leader"
  /\ \A j \in Node : Len(calls[i][j]) + Len(answers[i][j]) < MaxQueue
  /\ nextIndex' = [nextIndex EXCEPT ![i] =
                     [j \in Node |-> IF MustReissue(i, j) THEN LastIndex(log[i]) + 1 ELSE @[j]]]
  /\ Broadcast(i, [j \in Node |-> IF MustReissue(i, j)
                                   THEN <<ReissueCall(i, j), HeartbeatCallOf(i)>>
                                   ELSE <<HeartbeatCallOf(i)>>])
  /\ UNCHANGED <<raftVars, logVars, applyVars, matchIndex, answers, clientVars, faults,
                 historyVars>>

\* handle_append_entries_response, success() is false.
NoteConflict(i, j) ==
  /\ ~down[i]
  /\ role[i] = "leader"
  /\ answers[i][j] # <<>>
  /\ LET a == Head(answers[i][j]) IN
     /\ a.type = "append" /\ ~a.success
     /\ a.term = currentTerm[i]
     /\ nextIndex' = [nextIndex EXCEPT ![i][j] = a.conflict]
  /\ Consume(i, j)
  /\ UNCHANGED <<raftVars, logVars, applyVars, matchIndex, calls, clientVars, faults,
                 historyVars>>

\* The value at position size / 2 of the sorted values of match_index_.
IsMiddle(match, c) ==
  LET present == {j \in DOMAIN match : match[j] # 0}
      half == Cardinality(present) \div 2
  IN  /\ c \in {match[j] : j \in present}
      /\ Cardinality({j \in present : match[j] < c}) <= half
      /\ half < Cardinality({j \in present : match[j] <= c})

\* The number of commands StateMachine::apply(transport, commit_index) takes.
ReadyTasks(queue, commit, n) ==
  /\ \A k \in 1..n : queue[k].index <= commit
  /\ n < Len(queue) => queue[n + 1].index > commit

RemainingWithLast(queue, n) ==
  IF n = 0 THEN queue ELSE SubSeq(queue, n, Len(queue))

Remaining(queue, n) == SubSeq(queue, n + 1, Len(queue))

\* apply pushes an answer to the session of the command if it is still there.
RepliesAfter(done) ==
  [c \in Command |-> IF c \notin gone /\ \E k \in DOMAIN done : done[k].command = c
                     THEN Append(replies[c], [kind |-> "applied"]) ELSE replies[c]]

\* success() is true and the follower's log is longer than match_index_ says.
NoteMatch(i, j) ==
  /\ ~down[i]
  /\ role[i] = "leader"
  /\ answers[i][j] # <<>>
  /\ LET a == Head(answers[i][j])
         match == [matchIndex[i] EXCEPT ![j] = a.last]
     IN /\ a.type = "append" /\ a.success
        /\ a.term = currentTerm[i]
        /\ matchIndex[i][j] < a.last
        /\ matchIndex' = [matchIndex EXCEPT ![i] = match]
        /\ \E c \in {match[n] : n \in Node}, n \in 0..Len(tasks[i]) :
             /\ IsMiddle(match, c)
             /\ ReadyTasks(tasks[i], c, n)
             /\ commitIndex' = [commitIndex EXCEPT ![i] = c]
             /\ lastApplied' = [lastApplied EXCEPT ![i] = c]
             /\ executed' = [executed EXCEPT ![i] = @ \o Commands(SubSeq(tasks[i], 1, n))]
             /\ tasks' = [tasks EXCEPT ![i] = Remaining(@, n)]
             /\ replies' = RepliesAfter(SubSeq(tasks[i], 1, n))
  /\ Consume(i, j)
  /\ UNCHANGED <<raftVars, logVars, down, nextIndex, calls, issued, gone, faults, historyVars>>

-----------------------------------------------------------------------------
(* The KV calls: put, get and delete go the same way. *)

\* Commands are numbered in the order of their sending.
IsNext(c) == c \in Command \ issued /\ \A d \in Command \ issued : c <= d

ReplyTo(c, r) == replies' = [replies EXCEPT ![c] = Append(@, r)]

Redirect(i, c) ==
  /\ ~down[i]
  /\ IsNext(c)
  /\ role[i] # "leader"
  /\ issued' = issued \union {c}
  /\ ReplyTo(c, [kind |-> "redirect", to |-> leaderId[i]])
  /\ UNCHANGED <<raftVars, logVars, applyVars, leaderVars, netVars, gone, faults, historyVars>>

\* append_entry fails.
FailPropose(i, c) ==
  /\ ~down[i]
  /\ IsNext(c)
  /\ role[i] = "leader"
  /\ faults.writeErrors < MaxWriteErrors
  /\ faults' = [faults EXCEPT !.writeErrors = @ + 1]
  /\ issued' = issued \union {c}
  /\ ReplyTo(c, [kind |-> "failed"])
  /\ UNCHANGED <<raftVars, logVars, applyVars, leaderVars, netVars, gone, historyVars>>

\* The command is logged, waits in tasks_ for its commit and is broadcast.
Propose(i, c) ==
  /\ ~down[i]
  /\ IsNext(c)
  /\ role[i] = "leader"
  /\ issued' = issued \union {c}
  /\ LET index == LastIndex(log[i]) + 1
         entry == [term |-> currentTerm[i], index |-> index, command |-> c]
         newLog == Append(log[i], entry)
     IN /\ log' = [log EXCEPT ![i] = newLog]
        /\ disk' = [disk EXCEPT ![i] = PersistBatch(@, <<entry>>)]
        /\ matchIndex' = [matchIndex EXCEPT ![i][i] = index]
        /\ nextIndex' = [nextIndex EXCEPT ![i][i] = index + 1]
        /\ tasks' = [tasks EXCEPT ![i] = Append(@, [index |-> index, command |-> c])]
        /\ Broadcast(i, [j \in Node |->
             <<[type |-> "append", term |-> currentTerm[i], prevIndex |-> PrevIndex(newLog),
                prevTerm |-> PrevTerm(newLog), entries |-> <<entry>>,
                commit |-> commitIndex[i], live |-> TRUE]>>])
  /\ UNCHANGED <<raftVars, commitIndex, lastApplied, executed, down, answers, gone, replies,
                 faults, historyVars>>

\* The client of a waiting command closes its connection: session_at finds no session.
LoseClient(c) ==
  /\ Cardinality(gone) < MaxGone
  /\ c \in issued \ gone
  /\ replies[c] = <<>>
  /\ gone' = gone \union {c}
  /\ UNCHANGED <<raftVars, logVars, applyVars, leaderVars, netVars, issued, replies, faults,
                 historyVars>>

-----------------------------------------------------------------------------
HandleCall(i, j) ==
  \/ RefuseStaleVote(i, j) \/ AnswerVote(i, j)
  \/ RefuseStaleAppend(i, j) \/ AcceptHeartbeat(i, j) \/ RefuseGap(i, j) \/ AcceptEntries(i, j)

HandleAnswer(i, j) ==
  \/ IgnoreAnswer(i, j) \/ StepDown(i, j) \/ CountVote(i, j) \/ BecomeLeader(i, j)
  \/ NoteConflict(i, j) \/ NoteMatch(i, j)

Client(i, c) == Redirect(i, c) \/ Propose(i, c)

Fault(i, j) == Cut(i, j) \/ FailAppend(i, j)

Next ==
  \/ \E i \in Node : ElectionTimeout(i) \/ HeartbeatTick(i) \/ Restart(i)
  \/ \E i, j \in Node : HandleCall(i, j) \/ HandleAnswer(i, j) \/ Fault(i, j)
  \/ \E i \in Node, c \in Command : Client(i, c) \/ FailPropose(i, c)
  \/ \E c \in Command : LoseClient(c)

Spec == Init /\ [][Next]_vars

\* The timers fire again and again, and the coroutines that read and handle messages are
\* resumed while there is something to read.
Fairness ==
  /\ \A i \in Node : WF_vars(ElectionTimeout(i)) /\ WF_vars(HeartbeatTick(i))
  /\ \A i, j \in Node : WF_vars(HandleCall(i, j)) /\ WF_vars(HandleAnswer(i, j))

FairSpec == Spec /\ Fairness

-----------------------------------------------------------------------------
(* Properties of every cluster. *)

Task == [index : Nat, command : Command]

RaftTypeOK ==
  /\ role \in [Node -> {"follower", "candidate", "leader"}]
  /\ votes \in [Node -> Nat]
  /\ leaderId \in [Node -> Node \union {Nil}]
  /\ currentTerm \in [Node -> Nat]
  /\ votedFor \in [Node -> Node \union {Nil}]

LogTypeOK == log \in [Node -> Seq(Entry)] /\ disk \in [Node -> Disk]

ApplyTypeOK ==
  /\ commitIndex \in [Node -> Nat]
  /\ lastApplied \in [Node -> Nat]
  /\ tasks \in [Node -> Seq(Task)]
  /\ executed \in [Node -> Seq(Command)]
  /\ down \in [Node -> BOOLEAN]

LeaderTypeOK ==
  /\ nextIndex \in [Node -> [Node -> Nat]]
  /\ matchIndex \in [Node -> [Node -> Nat]]

NetTypeOK ==
  /\ calls \in [Node -> [Node -> Seq(Call)]]
  /\ answers \in [Node -> [Node -> Seq(Answer)]]

ClientTypeOK ==
  /\ issued \subseteq Command
  /\ gone \subseteq Command
  /\ replies \in [Command -> Seq(Reply)]

FaultTypeOK == faults \in [cuts : Nat, restarts : Nat, writeErrors : Nat]

HistoryTypeOK == granted \subseteq Node \X Node \X Nat /\ elected \subseteq Node \X Nat

\* Every variable stays within what the code's field can hold.
TypeOK ==
  /\ RaftTypeOK /\ LogTypeOK /\ ApplyTypeOK /\ LeaderTypeOK
  /\ NetTypeOK /\ ClientTypeOK /\ FaultTypeOK /\ HistoryTypeOK

\* Whoever became leader of a term was granted that very term by a majority, itself
\* included: votes of earlier terms, repeated ones and late ones are not counted.
LeaderWonMajority ==
  \A e \in elected :
    2 * Cardinality({v \in Node : <<v, e[1], e[2]>> \in granted} \union {e[1]})
      > Cardinality(Node)

\* A candidate counts no more votes than members have granted it in its current term,
\* its own included: however late votes arrive and whatever terms they are from.
VotesWereGranted ==
  \A i \in Node :
    role[i] = "candidate" =>
      votes[i] <= Cardinality({v \in Node : <<v, i, currentTerm[i]>> \in granted} \union {i})

\* Entries and heartbeats, the delayed ones of dead processes included, come from a node
\* that won the term they carry.
AppendsComeFromElected ==
  \A i, j \in Node : \A k \in DOMAIN calls[i][j] :
    calls[i][j][k].type # "vote" => <<i, calls[i][j][k].term>> \in elected

\* A client is redirected only to a node that has won an election, in a term that the
\* redirecting node knows of.
RedirectTargetWasLeader ==
  \A i \in Node :
    leaderId[i] # Nil => \E t \in 0..currentTerm[i] : <<leaderId[i], t>> \in elected

\* The disk of a node knows of every election it has won, and of no term that the node
\* itself has not reached: a leader that dies cannot come back before its own term.
WinsAreOnDisk ==
  /\ \A e \in elected : e[2] <= disk[e[1]].term
  /\ \A i \in Node : disk[i].term <= currentTerm[i]

\* A leader has won its term; a candidate has not won it yet.
RolesMatchWins ==
  \A i \in Node :
    /\ role[i] = "leader" => <<i, currentTerm[i]>> \in elected
    /\ role[i] = "candidate" => <<i, currentTerm[i]>> \notin elected

Leaders == {i \in Node : role[i] = "leader"}

\* However often the leader changes and members restart, a client gets at most one answer
\* to a command: "applied" only after some member has executed it, and any other only if
\* it is in no log.  A command that waits in tasks_ when its leader is deposed is still
\* there when that node leads again (raft_node.cpp:612, state_machine.cpp:38-73).
AnswersAreHonest ==
  \A c \in Command :
    /\ Len(replies[c]) <= 1
    /\ \A r \in ToSet(replies[c]) :
         IF r.kind = "applied"
         THEN \E i \in Node : c \in ToSet(executed[i])
         ELSE \A i \in Node : c \notin ToSet(Commands(log[i]))

\* However entries are sent again, cut off, put at the wrong place and recovered, no log
\* holds one that no leader made: a node won its term, a client sent its command, and
\* wherever the command is, it is in this very entry (raft_log.cpp:100-104,
\* raft_node.cpp:490 and 158-166, persister.cpp:174-190).
EntriesAreGenuine ==
  \A i, j \in Node : \A e \in ToSet(log[i]), f \in ToSet(log[j]) :
    /\ \E n \in Node : <<n, e.term>> \in elected
    /\ e.command \in issued
    /\ e.command = f.command => e = f

\* What a step needs to know about elections: the inductive invariant of the proofs.
ElectionInv ==
  /\ TypeOK
  /\ WinsAreOnDisk
  /\ RolesMatchWins
  /\ AppendsComeFromElected
  /\ RedirectTargetWasLeader

\* No node wins the same term twice, not even when it restarts in between: become_leader
\* persists the term.
ElectedOncePerTerm ==
  [][\A i \in Node : role[i] # "leader" /\ role'[i] = "leader"
                        => <<i, currentTerm'[i]>> \notin elected]_vars

\* No message, however old, takes a running node back to an earlier term.
TermsNeverGoBack ==
  [][\A i \in Node : currentTerm'[i] >= currentTerm[i] \/ Restart(i)]_vars

-----------------------------------------------------------------------------
(* Properties of a cluster that has kept its leader: only one election was ever won; with  *)
(* a second one none of them need hold.  Of a log with the same entry twice most of them   *)
(* say nothing: a late failure makes the leader send again what the follower has.          *)

OneWin == \A e, f \in elected : e = f

\* While one leader is all there ever was, no member applies beyond its commit index, not
\* after a restart either, so the view it applies never wraps around: the only way to die
\* is a restart that finds no readable log (raft_node.cpp:382 and 478, raft_log.cpp:69-91).
NobodyAppliesAhead ==
  OneWin => \A i \in Node : /\ lastApplied[i] <= commitIndex[i]
                            /\ down[i] => ~Recoverable(disk[i])

\* Whatever is lost, reordered, refused or sent again, and whichever follower restarts: a
\* log that has no entry twice is a prefix of the leader's log.
LogsArePrefixes ==
  OneWin => \A i \in Leaders, j \in Node : IsInjective(log[j]) => IsPrefix(log[j], log[i])

\* Such a follower has executed the leader's commands in their order and skipped none,
\* however the entries arrived.
FollowersSkipNothing ==
  OneWin /\ faults.restarts = 0 =>
    \A i \in Leaders, j \in Node :
      IsInjective(log[j]) => IsPrefix(executed[j], Commands(log[i]))

\* A process with such a log that restarts now finds on disk the log it has in memory,
\* although the one is found by position and the other by index (persister.cpp:174-190).
DiskMatchesMemory ==
  OneWin => \A i \in Node :
    ~down[i] /\ IsInjective(log[i]) => Recoverable(disk[i]) /\ RecoverEntries(disk[i]) = log[i]

\* What any member has executed, and so whatever a client was told is applied, is on the
\* disk of the leader at every moment: a leader that dies and starts again has lost none of
\* it (raft_node.cpp:600-622 and 478-509, persister.cpp:43-72 and 162-192).
ExecutedIsDurable ==
  OneWin => \A i \in Node : \A c \in ToSet(executed[i]), e \in elected :
    Recoverable(disk[e[1]]) /\ c \in ToSet(Commands(RecoverEntries(disk[e[1]])))

\* Nothing was lost, refused, restarted or overtaken.
Undisturbed ==
  InOrder /\ OneWin /\ faults = [cuts |-> 0, restarts |-> 0, writeErrors |-> 0]

\* Only a disturbance puts an entry into a log twice.
NothingRepeats == Undisturbed => \A i \in Node : IsInjective(log[i])

\* What the leader has executed, followed by the commands that wait in tasks_, is its log:
\* it executes every command once and in the order of the log, whoever answers first and
\* whether or not the client is still there.
LeaderAppliesInOrder ==
  OneWin => \A i \in Leaders : Commands(log[i]) = executed[i] \o Commands(tasks[i])

\* A command that one member executes is executed by all of them.
EveryoneExecutes ==
  \A c \in Command : (\E i \in Node : c \in ToSet(executed[i]))
                       ~> \A i \in Node : c \in ToSet(executed[i])

-----------------------------------------------------------------------------
(* What the comments of the code claim and the code does not do. *)

\* "RaftState from https://raft.github.io/raft.pdf" (raft_node.hpp): at most one leader per
\* term.  A vote is granted without being recorded in voted_for_.
OneLeaderPerTerm == \A e, f \in elected : e[2] = f[2] => e = f

\* The same comment: what a leader regards as committed is stored by a majority.  The
\* middle of match_index_ is taken among the members that have answered so far.
CommittedOnMajority ==
  \A i \in Leaders : \A k \in 1..commitIndex[i] :
    2 * Cardinality({j \in Node : k \in DOMAIN log[j] /\ log[j][k] = log[i][k]})
      > Cardinality(Node)

=============================================================================
