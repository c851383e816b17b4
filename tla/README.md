# A TLA+ model of FosKV

FosKV is a replicated key-value store in C++23: RaftNodes on io_uring coroutines,
an RPC layer of its own, RocksDB below. This project models the cluster, the RPC layer
on both sides, the file of members and the messages down to their bytes, checks the
models with TLC and proves part of them with TLAPS. Paths are relative to the repository;
`raft_node.cpp` is `src/foskv/raft/raft_node.cpp`, and so on.

## 1. Inventory

| part | state | operations | interacts with |
|---|---|---|---|
| **RaftNode** (`raft_node.cpp/.hpp`) | role, votes, leader id, term, vote, log, commit and applied index, next and match index per member | two timers; handlers of RequestVote and AppendEntries requests and of three kinds of responses; put, get, delete; create, run, shutdown | Transport (calls), RpcProvider (handlers), RaftLog, StateMachine |
| **RaftLog**, **Persister** | the vector of entries; in RocksDB the state, the entries under their index and the last index | accessors by position, append, append batch, truncate, view; persist, recover | RaftNode, under its mutex |
| **StateMachine** | queue of commands that wait for their commit; the user database | push a task; apply up to a commit index and answer; apply a view of the log | RpcProvider's sessions |
| **Transport**, **Peer** | one RpcConsumer per member | broadcasts, single send | RpcConsumer |
| **RpcConsumer** (`rpc/consumer.cpp`) | stream, request id, callbacks by id, running flag | call, connect, reader loop, shutdown | the callbacks of RaftNode and KVClient |
| **RpcProvider**, **SessionManager**, **SPSCQueue** | sessions by id; per session a stream and a queue of tasks | accept, reader, writer, register, shutdown | the handlers of RaftNode |
| **KVClient** | its consumer | put, get, delete, redirect, close | RpcConsumer |
| **RaftConfig** | members and the JSON document | save, load, add and remove a peer | Peer, files |
| **Messages** (`rpc/proto/*.proto`, `rpc/pb/`) | fields with and without presence | set, measure, write, read | everything that sends or stores |

Not part of the system's logic: the storage wrapper, tables of error texts,
`Proposer` (its only use is commented out), `KVCommand` and
`Snapshotter` (unused, empty), `backup/`, the test and example programs (they have
no assertions).

What is hard here:

* **Interleavings.** Handlers take `mutex_`, but requests, responses and timers of
  different members come in any order, and what a handler read before the lock may
  be stale when it has it (it checks again).
* **Failure.** Connections break with requests and answers on them; processes die
  between an election and its persistence; RocksDB refuses a batch; a client goes
  away while its command waits.
* **Two numberings.** An entry is stored on disk under its own index and in memory
  at its position. They agree as long as appends and truncations are right.
* **Late answers.** A KV call is answered when its command is committed, by another
  coroutine, through a session that may have ended by then.
* **Sizes.** The RPC layer closes a session on a request beyond 4 MB and drops an answer
  beyond it, the leader serializes an entry into 128 bytes and an answer into 4 MB without
  looking, and a payload of 0 bytes means "later".
* **What comes next** depends on answers: `match_index_` and `next_index_` are maps
  that only answers fill.

Correctness: an election is won with the votes of a majority for that very term;
terms only grow; whoever sends entries has been elected; logs are prefixes of the
leader's log; every member executes the log in order, once; a client gets at most
one answer, over the connection it asked on, and "applied" only when it is; a node can
always recover; every command is in the end answered and executed everywhere; a session
that loses its client ends; what is read is what was written; a change of the members is
in the file entirely or not at all.

## 2. Modules

| module | models | status |
|---|---|---|
| `RaftLog` | RaftLog and Persister: operators on the vector and on the database | done |
| `RaftNode` | a cluster: RaftNode, StateMachine's queue, the connections of Transport and Peer, clients | done |
| `ReplicatedLog` | what a cluster promises its clients: one order, executed by all, answered once | done |
| `RaftImplementsLog` | RaftNode as a ReplicatedLog: the refinement mapping | done |
| `MCRaftNode` | RaftNode and RaftImplementsLog, for TLC | done |
| `RaftNode_proofs` | theorems about RaftNode: types, elections, votes and majorities, entries, commands and answers to clients | done |
| `RaftSteady_proofs` | what holds until a second election is won: logs, disks, execution | done |
| `RaftImplementsLog_proofs` | an undisturbed cluster is a ReplicatedLog: every step | safety done |
| `SequenceFacts` | facts about sequences, bags and majorities that the proofs share | done |
| `RpcConsumer` | one RpcConsumer, its calls and its connections | done |
| `MCRpcConsumer` | RpcConsumer, for TLC, with the symmetry of its calls | done |
| `RpcConsumer_proofs` | theorems about RpcConsumer | safety done |
| `RpcProvider` | RpcProvider, SessionManager and SPSCQueue: sessions, late answers, shutdown | done |
| `RpcProvider_proofs` | theorems about RpcProvider | safety done |
| `RaftConfig` | RaftConfig: the members in memory and in the file | done |
| `RaftConfig_proofs` | theorems about RaftConfig | safety done |
| `Wire` | the messages of the three .proto files: set, size, write, read | done |
| `Messages` | the way of messages between processes and to disk, with the limits on their size | done |
| `MCMessages` | Messages, for TLC: numbers and texts on both sides of every limit | done |
| `Messages_proofs` | theorems about Messages: round trips, sizes, the way of a command | done |

Three compositions: `RaftNode` is RaftLog, Transport's connections, StateMachine and all
members together; `RpcProvider` is provider, session table, queue and StateMachine's
answers; `Messages` takes a command through client, provider, leader, disk, follower and
back. Each takes over what another one shows: RaftNode that a response reaches the
callback of its own request or none (RpcConsumer) and that messages are read as written
(Messages), RpcProvider that StateMachine answers at some time (RaftNode).

Every safety property of the runs that pass is proved for all values of the constants, and
so is the step part of `KeepsPromises`; liveness stays with TLC (section 6).

### RaftLog

`log` is `entries_`; `first_index_` is always 1 (recovery starts at a key that no
code moves), so an index and a position are the same number until something goes
wrong, which is why `Entry` has its own `index`. `Disk` has the persisted term and
vote, `LAST_INDEX_KEY` and the set of stored entries. `PersistBatch` is one
WriteBatch: the last write of a key wins and the last index follows the batch.
`TruncateBatch` leaves the disk as it is: `truncate_entries` shortens the vector
first and then passes `last_log_index()`, now `start - 1`, as the end of the range.
`Recoverable` and `RecoverEntries` are `recover_entries`.

### RaftNode

Variables carry the fields' names (`currentTerm` is `current_term_`); a missing key
of `next_index_` or `match_index_` is 0. `tasks` and `executed` are the
StateMachine, `calls` and `answers` the connections, `issued`, `gone` and `replies`
the clients, `faults` counts what went wrong, `granted` and `elected` are history:
no action reads them.

One action is one handler, from its first change of state to its last one. That
is what `mutex_` makes of it: `handle_append_entries_response` even awaits
`StateMachine::apply` while it holds the mutex. The unlocked checks before the
lock are repeated under it, so they add no behaviour. The response handlers are
split by outcome, so that each way through them is an action that TLC must fire:

| code | actions |
|---|---|
| `start_election_timeout`, `start_election` | `ElectionTimeout` |
| `start_heartbeat_timeout` | `HeartbeatTick` (reissues, then the broadcast) |
| `handle_request_vote_request` | `RefuseStaleVote`, `AnswerVote` |
| `handle_append_entries_request` | `RefuseStaleAppend`, `AcceptHeartbeat`, `RefuseGap`, `FailAppend`, `AcceptEntries` |
| `handle_request_vote_response`, `become_leader` | `IgnoreAnswer`, `StepDown`, `CountVote`, `BecomeLeader` |
| `handle_heartbeat_response` | `IgnoreAnswer`, `StepDown` |
| `handle_append_entries_response`, `StateMachine::apply` | `IgnoreAnswer`, `StepDown`, `NoteConflict`, `NoteMatch` |
| `handle_kv_put/get/delete_request` | `Redirect`, `FailPropose`, `Propose` |
| `RaftNode::create` after a crash | `Restart` |
| a connection that breaks, a session that closes | `Cut`, `LoseClient` |

Two decisions need a word.

* `entries_view` does not compare its bounds. When the view ends before it starts,
  its size wraps around and iterating it leaves the vector. `ApplyView` executes
  the rest of the log then and the process goes `down`. What comes in
  never leads there as long as one election has been won (`NobodyAppliesAhead`); a second
  winner's commit index may lie before what a member has applied.
* The middle of `match_index_` is nondeterministic only in form: `IsMiddle` describes
  the element at position `size / 2` of the sorted values without sorting them.

Assumed, and not modelled: a response reaches the callback of its own request or
none (`RpcConsumer` says when that is so); LOG_FATAL after a failed write of the term is taken not to
happen; the set of members does not change (no code of RaftNode changes it). The stub of
InstallSnapshot is left out: nothing calls it.

### RpcConsumer

`call` holds `mutex_` from its first line to its last and awaits twice in between, in
`connect` and in `write_vectored`; `consume_callbacks` runs meanwhile without the mutex.
So an action here is what happens between two awaits, and `busy` says who holds the
mutex and where it waits:

| code | actions |
|---|---|
| `call`, over a stream that is valid or taken for it | `Register`, then `Write` or `FailWrite` |
| `call`, connecting first (`connect`, `run`) | `StartConnect`, then `Connect` or `FailConnect`, then as above |
| `consume_callbacks` | `RunCallback`, `FinishCallback`, `EndReader`, `LosePayload` |
| `shutdown` | `Shutdown`, then `CancelRead` as often as a cancel finds a read, `EndCancels`, `Close`, `FinishShutdown` |
| the other end and the network | `Answer`, `Break` |

Connections are numbered, so that a message and a reader know theirs although ids start
at 0 again on each. `wrote` and `ran` are history: who wrote to which connection, and
which callback ran with whose answer. A callback itself is its call's name; what it does
is RaftNode's part.

Each await of `shutdown` is a state of its own, `busy` says which, and the reader runs in
between. A read that was cancelled is `cut`. The reader may be in a callback while the last
cancel is under way, and read again before `close`: then nothing in the code ends that read.
What kosio's `close` does to it is not in this repository, so `Close` has both outcomes: the
connection ends and the read with it, or the read goes on, and `shutdown` polls `is_running_`
with the mutex held for as long as the other end is silent. In both the stream is taken to be
invalid afterwards. `ShutdownReturns` names the two moments at which the cancels miss
something (`MissesReader`, `LateRead`) and promises a return without them.

This is where RaftNode's assumption comes from: within a connection a callback gets its
own answer (`AnswersWithinConnection`), once (`RunsOnce`), with a single reader
(`OneReader`); all three are proved. After a reconnect it may not hold:
`emplace` leaves the callback of an earlier call under an id that is given again, so the
new call's answer runs the old callback (`stale_callback`).

### ReplicatedLog and RaftImplementsLog

`ReplicatedLog` knows no terms, logs or messages: `order` is the sequence of the commands
that were executed anywhere, a member executes along it, and a client waits until some
member executes its command (`Execute`), which answers it in the same step. A client
that leaves gets no answer; its command is executed all the same.

`RaftImplementsLog` maps a cluster to it: `Order` is what the member that is furthest has
executed, `ClientOf` tells from `issued`, `replies` and `gone` how far a call is.
`KeepsPromises` is the whole specification, fairness included: `HeartbeatTick`,
`AcceptEntries` and so on are stutters or `Follow`, `NoteMatch` with new tasks is `Execute`,
the KV handlers are `Submit` or `Refuse`. It holds for a cluster that keeps its leader and its
connections. Once either is lost, the code promises less (see "What does not hold"). Without
its fairness it is a theorem, `ImplementsReplicatedLog`.

### RpcProvider

Each session has two coroutines, which share its queue and both remove it from the table:

| code | actions |
|---|---|
| `run` | `Run`, `Accept` (with `assign`, and the start of both coroutines), `FailAccept` |
| `produce_invoke_tasks` | `Read`, `PassOver`, `ReadTooLarge`, `FailRead`, then `RemoveByReader` |
| `consume_invoke_tasks`, `SPSCQueue::pop` | `Pop`, `Wait`, `Wake`, `PopNothing`, then `Respond`, `FailRespond`, `HandleInVain`, `HandleLater` |
| `StateMachine::apply`, `session_at` | `FindSession`, `PushAnswer` |
| `shutdown` | `StartShutdown`, `CloseSession`, `FinishClose`, `ClearSessions`, `CloseListener` |
| the client and the network | `Send`, `HangUp` |

* A wait of `pop` goes on only when it is notified: `woken` is the notification, which
  a push or a shutdown gives to a writer that waits. After a wait a queue that was shut
  counts as empty although an element came with it (`spsc_queue.hpp:25`): `PopNothing`.
* Ids start at 0 and are never given twice; this is what lets an answer that waits in
  StateMachine name its session by id (`AnswersAreOwed`; its mutant gives a free id again).
* `shutdown` iterates over the table and awaits a close in the body of the loop. When
  the session of that close is erased meanwhile, the iterator is invalid: the process may
  die or the loop end anywhere (`astray`, `died`). A session accepted during the walk
  may be missed; it is not closed then, only removed. `ShutdownClosesSessions` says what
  remains.

### RaftConfig

Calls on a RaftConfig follow one another, as in `raft_config_test.cpp`; every await may
fail or be the last thing the process does (the operating system survives: nothing is
fsynced, and a power failure is not modelled).

| code | actions |
|---|---|
| static `save` | `StartCreating`, `Create`, `FailCreating` |
| `load` | `Load` |
| `add_peer`, both `remove_peer` | `AddPeer`; `RemovePeer`, `ErasePeer` |
| `save` | `OpenTemp`, `WriteTemp`, `Rename`, `FailSaving` |

The document is the number of times it names each member, `versions` the lists the file
may have: that of the last success or load, and those of the calls that failed since. A
failed call leaves memory changed, and the next save writes its change too. Two
exceptions are part of the properties, since the code has them: the static `save`
truncates the file it replaces (the example programs call it at each start), and a member
added twice is listed twice, which `load` refuses and which `remove_peer` removes once.

### Wire and Messages

`Wire` translates the generated code by what it does: a schema is the list of a message's
fields, `SerializeWith` and `ParseWith` are written once over all schemas. What is written is
a function from the numbers of the fields that are there to their tokens. No message of the
.proto files is more than three deep, so `Serialize` is `SerializeWith` over itself, three
times, instead of a recursion. Tokens have sizes, so that the real limits (4 MB, 128 bytes)
are used although no byte is put down: a number is the sequence of its 7-bit groups, a text
is one token. No writer of this program writes a field twice or bytes that are no message,
so that a reader merges the former and refuses the latter is left out. The generated code
keeps the fields a reader does not know and writes them again; here they are passed over, and
the one case in which that matters, a failed delete written as a PutResponse, has none.

`Messages` has two parts. Any message is created, filled by its setters, written and read.
Or a client's command goes its way: request, entry in memory and on disk (`Propose`), the
request to a follower, its log and execution, the leader's own execution, and the answer. The
leader executes and answers whether or not a follower has accepted anything, since what is
committed may be what it alone has stored (`minority_commit`). A get may therefore find every
value whose put was not refused as a request (`IsAccepted`).

Two buffers are written without a look at their size: Persister's `buffer_` of 128 bytes by
any longer record (`persister.cpp:45`), and the session's buffer of 4 MB by an answer that is
longer, which is only then found too large and dropped (`util.hpp:98`, `provider.cpp:148`;
`DropAnswer`). `overrun` says which it was. Foreign memory is any memory: the process dies, or
goes on with each of entry, record, request to the follower and reply either as it should be
or `Spoilt`, a value of which nothing is known, and what a follower or a restart makes of a
spoilt payload is spoilt again. So `CommandsArrive` speaks of commands without an overrun, and
`ShortCommandsFit` and `ShortAnswersAreSent` say for which commands and answers there is none.
One command is on its way at a time: what an overrun does to later commands, and to what is in
the database already, is left out.

## 3. Runs

RaftNode runs with three nodes where nothing else is said. Every bound is a constant that a guard names.

| run | instance | shows |
|---|---|---|
| `elections` | two nodes that depose each other, terms 1 to 3, two commands, a crash at any moment | a term is won by a node at most once, restarts included; disks know of every win; entries, heartbeats and redirects come from and lead to elected nodes; terms grow between restarts; every entry was made by the winner of its term, from a command that is in no other entry; a client gets one answer, "applied" only for what was executed; with one winner nobody executes beyond its commit index, and what was executed is on the winner's disk |
| `four_nodes` | four nodes, two electors, terms 1 and 2, no heartbeats | in an even cluster half of the votes do not win; no vote is counted twice or for another term |
| `steady` | one elector, three commands at any moment, a client that leaves, two requests at most per heartbeat queue | nothing gets into a log twice; the leader executes its log in order; the cluster is a ReplicatedLog, liveness included |
| `lossy` | one elector, two commands, requests overtake each other, a cut, a refused write, a client that leaves | types; a log is a prefix of the leader's or repeats an entry; disks have what memory has; followers skip nothing |
| `connections` | three calls, three connections, two reconnects, breaks and a shutdown at any moment | callbacks get their own answers within a connection, once; one reader; shutdown returns unless the reader reads again after the cancels; a first connection that does not break serves every call |
| `sessions` | two sessions and a request, or one and two, one request not served, a connection that breaks and a shutdown at any moment | answers go to who asked, once; nothing is duplicated between queue, writer and StateMachine; shutdown closes what there is; no wakeup is lost; sessions end |
| `membership` | three members, each named twice at most, two failed calls in a row, a crash anywhere | the file is whole, and before or after the change; memory and document agree; the node can start again |
| `messages` | all 19 messages, numbers of 1, 2 and 10 groups; keys and values on both sides of 128 bytes and of 4 MB; overruns that kill, spoil or do nothing | every message survives, as does every command on its way if no buffer is overrun; what fits where, and which answers are sent |

Runs that violate, each a disagreement of the code with its own comments:

| run | property | what happens |
|---|---|---|
| `two_leaders` | `OneLeaderPerTerm` | a granted vote is not recorded in `voted_for_`; two candidates of a term win it (`raft_node.cpp:423`) |
| `minority_commit` | `CommittedOnMajority` | the middle of `match_index_` ignores members that never answered (`raft_node.cpp:377`) |
| `lost_entry` | `EveryoneExecutes` | a lost request is sent again only after a failed response (`raft_node.cpp:156`) |
| `stale_callback` | `OwnAnswers` | an answer after a reconnect runs the callback of a call of an earlier connection (`consumer.cpp:36`) |

**What does not hold.** The passing runs are stated for what each setting really
guarantees. TLC finds the following false, and nothing in the code claims them:

* With two electors a term may have two winners (`two_leaders`). `start_election` does not
  persist the raised term (`raft_node.cpp:217`), so a candidate may come back in an
  earlier one; what is true all the same is `WinsAreOnDisk` and `ElectedOncePerTerm`.
* With leader changes and commands, memory and disk part (entries stand at other
  positions than their index says), terms in a log need not ascend, keys on disk get gaps
  that recovery refuses (`persister.cpp:174`) without any fault, commands are executed
  again, and commit index and last applied index move back, past each other too. So
  log prefixes, the match of memory and disk, the order of execution, the durability of what
  was executed (`ExecutedIsDurable`) and `NobodyAppliesAhead` are stated under `OneWin`: one election was won, and not more.
* With faults a follower may execute a command twice: a late failure moves `next_index_`
  back (`raft_node.cpp:363`), and the next reissue repeats what the follower has, at
  later positions. `FollowersSkipNothing` is what remains; `NothingRepeats` needs a cluster
  that is also `Undisturbed`.
* A leader does not always keep what it accepts: a command of more than 98 bytes of key and
  value may overrun `buffer_` (`persister.cpp:45`), and then its entry, its record and what it
  sends to the followers may be anything.
* Not every get is answered: a key and a value within the last 10 bytes of 4 MB fit a put,
  and the answer to their get is too large. It overruns the session's buffer and is dropped;
  the client's callback is never called.
* `RpcConsumer::shutdown` does not always return: see `LateRead`.

**Bounds.** Three nodes are the least with a majority that is not all, and with a
third node that hears of two others; there the first vote a candidate receives wins, so
`four_nodes` adds the vote that is counted and does not win yet. `elections` needs none of
that (a winner is all it asks for), so two nodes leave room for a third term and for
commands: leadership moves there and back, and a log has entries of more than one term.
One restart suffices for each place to crash in.
In `steady` three commands are what a reissue of several entries behind an unacknowledged one
takes. `MaxQueue` bounds heartbeats only: a heartbeat waits until less than so many
requests and answers are under way, and each of them is handled anyway, so a
further one in the queue would find what the first one found. Votes and entries
are bounded by `MaxTerm` and `Command`.

In `sessions` three arrivals are two requests over one session, one of which may
overtake the other, or a request whose session ends before another one is accepted. One connection that breaks is
enough: a session meets another one only in the table and in the walk of shutdown, and one that
leaves during the walk is what that can go wrong about. In
`membership` a member named twice is what `load` refuses; a third time adds nothing. In
`messages` sizes are taken at each limit: 1, 127 and 128 bytes of text, 98 and 99 bytes
of key and value, and what is just below and just above 4 MB with each wrapping: a put request
that is refused or not, a request to a follower that is, and, with the empty key and the key of
49 bytes, a get's answer that is dropped although the put was accepted.

A run that may stop at its bounds says CHECK_DEADLOCK FALSE: votes, calls, sessions and
exchanges all come to an end. In `steady` heartbeats never end, and in `membership` there
is always a next call; deadlock is checked there.

**Fairness** (`FairSpec`): the two timers of a node fire again and again (each is an
endless loop around a sleep), and handlers of requests and responses run while
there are any (io_uring completes the reads, the scheduler resumes the coroutines).
Nothing is assumed of clients or faults. ReplicatedLog's own fairness (waiting commands are
executed, by every member) is not assumed but implied: `KeepsPromises` checks it. One elector is no assumption about timers:
it stands for a cluster in which the others hear heartbeats in time, which is what
`last_reset_time_` is for.

In `RpcConsumer` the calls make one request each, so that three of them are two that
share an id over two connections and one more that finds the map as they left it; `MaxId`
leaves room for each id they can be given, and a third connection lets the second one break too.
`CallStep` is strongly fair: a call waits for a mutex that serves its waiters in turn,
and others may take it again and again; no attempt to connect is promised to succeed. Reader, the steps of shutdown
and answers need only weak fairness, as nothing takes their turn away. Nobody is made to
call shutdown, and no connection to break.

In `RpcProvider` reader, writer, `apply` and `shutdown` are weakly fair: each is a coroutine
that is resumed when its await is done. A read that waits is promised to fail only when
the client is gone; whether kosio's close of a stream ends a read under way is not
visible in this repository, so nothing is promised of sessions that shutdown closes.
Requests that are not served are not promised to occur. `RaftConfig` and `Messages` have
safety properties only.

## 4. Properties

They are at the end of each module, each under a comment that says what it means;
`KeepsPromises` is in RaftImplementsLog.tla. TypeOK is
the one type invariant of a module. PROJECT.json pairs each with a change of the model that
breaks it (`PersistVote` forgets the term, `HasWideGap` is off by one, ...), stated
next to the definition it changes, and lists the hazards each answers.

## 5. Proofs

`RaftNode_proofs` proves for every set of nodes and commands and for all bounds, any
number of terms, crashes and losses, and messages in any order:

* `TypeCorrect`: `Spec => []TypeOK`;
* `ElectionsInvariant`: `Spec => []ElectionInv`, and from it `WinsStayOnDisk`,
  `RolesAgreeWithWins`, `AppendsAreFromElected`, `RedirectsNameLeaders`;
* `TermsAreMonotonic` and `ElectedAtMostOncePerTerm`, properties of steps;
* `LeadersWonMajorities` and `CountedVotesWereGranted`: `Spec => []LeaderWonMajority` and
  `Spec => []VotesWereGranted`, from `VotesInvariant`;
* `LogsAreGenuine` and `ClientsGetHonestAnswers`: `Spec => []EntriesAreGenuine` and
  `Spec => []AnswersAreHonest`, from `EntriesInvariant`, elected nodes that depose each other
  included.

`RaftSteady_proofs`, for the same clusters, from `SteadyInvariant`: the properties
of a cluster in which at most one election was won, whoever else tries to win one.

* `LogsStayPrefixes`, `FollowersNeverSkip`, `DisksMatchMemories`, `NobodyEverAppliesAhead`
  and `LeaderKeepsOrder`: `Spec => []P` for `LogsArePrefixes`, `FollowersSkipNothing`,
  `DiskMatchesMemory`, `NobodyAppliesAhead` and `LeaderAppliesInOrder`;
* `ExecutedStaysOnDisk`: `Spec => []ExecutedIsDurable`: no member has executed, and no client
  was told of, what the winner would not find on its disk, restarts included;
* `NothingIsRepeated`: `Spec => []NothingRepeats`, with nothing lost or overtaken.

`RaftImplementsLog_proofs`, for any members and commands, from `LeaderIsAhead`:

* `StepsKeepPromises`: a cluster starts as a ReplicatedLog, and each step into a state that is
  `Undisturbed` is a step of the ReplicatedLog or none;
* `ImplementsReplicatedLog`: if it stays `Undisturbed`, it is one, fairness left aside.

`RpcConsumer_proofs` proves, for any number of calls, connections and ids:

* `TypeCorrect`: `Spec => []TypeOK`;
* `OneReaderAtATime`: `Spec => OneReader`;
* `CallbacksGetTheirAnswers` and `CallbacksRunOnce`: `Spec => []AnswersWithinConnection`
  and `Spec => []RunsOnce`, from `ConsumerInvariant`.

`RpcProvider_proofs` proves, for any number of sessions, requests and late answers:

* `TypeCorrect`: `Spec => []TypeOK`, proved by groups of variables (`TypeParts`): a group that
  an action leaves alone keeps its type (`PartsStay`), and only what it changes is left to show;
* `AnswersGoHome` and `EachInOnePlace`: `Spec => []AnswersAreOwed` and
  `Spec => []InOnePlace`, from `PlacesInvariant`;
* `ShutdownCloses`: `Spec => []ShutdownClosesSessions`.

`RaftConfig_proofs` proves, for any set of members, any number of failures and a crash
anywhere, `TypeCorrect`, `FileIsWhole`, `DocumentListsPeers` and `FileCanBeLoaded`, the
invariants of `membership`, from `ConfigInvariant`.

`Messages_proofs` proves, for any numbers of up to ten groups and texts of any size, from
`MessagesInvariant`:

* `WhatIsReadWasWritten`: `Spec => []ReadAsWritten`, for each of the 19 messages however it
  is filled;
* `CommandsDoArrive`: `Spec => []CommandsArrive`, for every command with which the leader
  overruns no buffer: by `TheBufferHoldsShortCommands` and `EveryShortAnswerIsSent` it overruns
  none at least with a put or a delete of up to 98 bytes of key and value;
* `ResultsAreWhatWasAnswered` and `EveryShortAnswerIsSent`: `Spec => []ResultsAreUnderstood`
  and `Spec => []ShortAnswersAreSent`;
* `TheBufferHoldsShortCommands` and `AppendsAddLittle`: `Spec => []ShortCommandsFit` and
  `Spec => []SlackForAppends`, the 30 and the 92 bytes of the comments there for every size
  of key and value, where the run has the sizes next to the limits.

Assumptions: the ASSUMEs of the modules only (commands are numbers; Nil and NoList are
none of the values they stand beside; Node is finite, and not empty where the refinement
needs a member to name; bounds are natural numbers). `Messages` assumes limits of the code's
order, `Limit` below 2^28 (it is 2^22) and `Buffer` at most 128, as a larger one would change
how many bytes the length of a length takes; that 1 is a number and some text there is; that
`Spoilt` is none of the values it may stand in for; and that the host of a redirect is at least 21 bytes shorter than `Limit`, for it is the
configuration's. TLC evaluates them in every run.

**Why the invariants look as they do.** "No node wins a term twice" is not inductive:
a step needs to know that a candidate has not won its current term, which is half
of `RolesMatchWins`. A restart may take a node back to the term on its disk; that it
cannot become a candidate of a term it has won needs `WinsAreOnDisk`: every win is
at most the disk's term, so a new candidacy is above all of them. That an append
names an elected sender needs the other half of `RolesMatchWins` (a leader has won
its term), and a redirect names the sender of an append. These four with TypeOK are
inductive together: `ElectionInv`.

A count of votes says nothing of whose they are. `Counted` gives each counted vote, but the
candidate's own, to a member that granted it; that the next answer comes from none of
these needs `Settled` (a counted member has no request or answer of this term left), and
that it was granted needs `Flow`: between two nodes there is, per term, one live request
or one granting answer at most, and none of a term the candidate has not reached. So a
duplicate, an old answer and an answer after a restart all fall into one case.

Entries are copied from logs to requests, to other logs, to disks and back. `Held` is
all of them together, and `HeldAreGenuine` speaks of this set: truncation,
repetition and recovery only shrink it, and one action, `Propose`, adds to it. `AnswersAreHonest`
also needs to know that a command that still waits has no answer and waits
at one place (`TasksAreOpen`), as `NoteMatch` answers whatever its queue holds.

`SteadyInv` says nothing until an election is won, but that there is nothing
(`NothingYet`). From then on it measures everything against the winner's log:
`WinnerHolds` says that each entry of `Held` stands in it at its own index. A log whose
entries are where their index says (`Straight`) is then a prefix of the winner's; one that is
not straight holds an entry twice (`FollowsOrRepeats`), since a follower adds a request whose
previous index it has: if that is not its end, it has the request's first entry already. This
also needs that nothing is ever cut off, as the previous term a request names is that of the
only winner (`IsStraightCall`). A straight log is on disk (`Stores`), so a winner that restarts
still has the log it measures by. A follower's commit index stays within its log
(`NobodyAhead`), so what it executes is a prefix of a prefix. Even where a log is not straight,
what a view shows is in `Held` and what the leader executes waits in its `tasks_`, so all of it
is in the winner's log (`ExecutedHeldBy`, in `DurableInv`), which only grows. That nothing is repeated needs to
know what is under way: from where a follower's log ends to where the winner's ends, each
entry is in one request, in order (`Piped`), and no refusal of this term makes the winner send
again.

That a cluster is a ReplicatedLog takes a leader that is ahead of everybody. `Leads` says
so: the leader's queue is what its log has beyond what it has executed, at the indexes that
follow (`QueueIsInOrder`, `LogIsExecuted`); no commit index, and none that a request carries,
exceeds what the leader has executed (`NobodyCommitsMore`); no acknowledgement exceeds its log
(`NobodyStoresMore`). The first keeps the third: the middle of `match_index_` is within the log,
and `NoteMatch` executes up to it. So `Order` is what the leader has executed and every other
member has executed a beginning of it (`OrderedBy`). `NoteMatch` is then an `Execute`, whose
commands are open (`TasksAreOpen`), different and not executed before, as the commands of a
straight log are different; a follower's handler is a `Follow`; the rest leaves the mapped
variables alone, the first election included, before which nothing was executed.

`AnswersWithinConnection` speaks of what ran; that it stays true depends on what may run
next. `AnswersMatch` says it of every message under way. A write keeps that because its id
is above all that are under way over this stream or belong to a call that wrote to it
(`IdsAreBehind`), and because the writer's callback, if it is in the map at all, is under
that id (`CallbacksAreOfReturned`). `RunsOnce` needs that a call's callback is under one
id (`OneIdPerCallback`) and, once it has run, under none but the one the reader is to
erase (`RanIsForgotten`). That `connect` may forget who the last reader was is
`ReaderRuns`: `is_running_` is set exactly while there is one.

In RpcProvider a request moves between stations: wire, queue, writer, StateMachine's
two, the client, or refused. `Apart` (two stations never both have it) and
`Distinct` (none has it twice) give `InOnePlace`, which counts, only at the end. A new
request has an id above all that were sent (`WasSent`); a new session has a number that
nothing anywhere refers to (`AcceptedInOrder`). `ShutdownClosesSessions` needs that a session
that is missing from the table before shutdown clears it has left by itself (`GoneHaveLeft`) and
that a walk that went astray has ended (`WalkIsStraight`).

What a message is on the wire is proved level by level. `WhatIsRead` says of one level that a
reader finds the fields that were written, at their numbers and with their wire types, and of a
oneof the one that is set; `FlatRoundTrip`, `NestedRoundTrip` and `DeepRoundTrip` add what
becomes of the values, each from the level below. `Fits` is what a message must be for that: a
value for each field, and one member of the oneof at most, which `Set` keeps (`SetFits`). Of
that, what was written and what was read, `ExchangeInv` speaks, one conjunct each.

A size is a fold, which is a CHOOSE of a function on all sets of indices. That this function
exists takes a witness, the sums of the parts, for a message has seven fields at most
(`TotalUnfolds`). From there on `ByteSize` is a sum of seven terms, and a message has the sizes
of its fields at each level. `ResponseInv` keeps that a response's header takes bytes, empty or
not, so that none is taken for an answer that comes later. `JourneyInv` says of each payload on
a command's way what its sender had in memory: the request is what was called, and there is one
entry of which the leader's memory and disk, the request to a follower and the follower's memory
and disk each have a copy, or something spoilt, but that only after an overrun (`Copies`). An
overrun is one of a record longer than `Buffer` or of an answer longer than `Limit`, and nothing
is dropped but for that. The bounds are then arithmetic on the sizes of two, three and six
fields (`SmallEntries`, `LargeAppends`, `AcceptedSizes`, `RedirectHeaders`).

In RaftConfig the file after a rename is the temporary file; that this is the document in
memory, and not that of an earlier save that failed, is `TempIsDocument`.

**How the proof is laid out.** Lemmas about operators first (a batch leaves a disk a
disk, a broadcast keeps queues well typed, a response adds one answer), then one
lemma per action, for types and again for the election conjuncts, and last the
theorems, which only combine them with PTL.

## 6. Only model-checked

* The liveness part of `KeepsPromises`: that waiting commands are executed, by every member.
* All other liveness (`ShutdownReturns`, `FirstConnectionServes`, `RequestsAreAnswered`,
  `SessionsEnd`), which is out of the prover's reach.

## 7. Not modelled

* `KVClient::RedirectTo` destroys the consumer whose reader is running the callback
  that redirects: what the reader does next is undefined, and a property of redirected
  calls would only say so. Requests and answers of KVClient are in `Messages`.
* `RaftNode::shutdown`: the timers' end and the provider's shutdown are the latter in
  `RpcProvider`; it does not call the consumers' shutdown, which is in `RpcConsumer`. The
  two are not composed.
* InstallSnapshot: the request handler is an unfinished stub that falls off its end, and
  nothing calls it. `Snapshotter` is an empty class.
* The user database: what put, get and delete do there is RocksDB's affair; executed
  commands are recorded in their order. The storage wrapper passes calls on.
* The size of a reissue, the whole tail of the log in one request (`raft_node.cpp:158`): `Messages`
  has one entry per request, and a log of 4 MB is out of reach of `RaftNode`.
* Generated code beyond fields: reflection, arenas, swapping, unknown fields.
* What has no caller: `push_batch`, `pop_all`, `size` and `run` of SPSCQueue, `CallTask`,
  `Proposer`, `KVCommand`, `backup/`. Tables of error texts. Tests and examples.
