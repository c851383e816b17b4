----------------------------- MODULE RpcProvider -----------------------------
(***************************************************************************)
(* RpcProvider: the sessions of a server.                                  *)
(*                                                                         *)
(* Each accepted connection is a session with two coroutines.  The reader  *)
(* (produce_invoke_tasks) takes requests off the connection and pushes     *)
(* them into the session's queue; the writer (consume_invoke_tasks) pops   *)
(* them, runs their handler and sends the answer.  The handler of a KV     *)
(* call answers nothing: StateMachine::apply pushes the answer into the    *)
(* queue when the command is committed, if it still finds the session.     *)
(*                                                                         *)
(* A step runs from one effect another coroutine can see to the next.  The *)
(* queue is SPSCQueue: its mutex makes a push, a pop and a shutdown one    *)
(* step each, but for the wait of a pop.                                   *)
(***************************************************************************)
EXTENDS Naturals, Sequences, FiniteSets, SequencesExt

CONSTANTS
  Nil,
  MaxSessions,      \* connections that are accepted
  MaxArrivals,      \* connections that are accepted and requests that are sent, together
  MaxRefused,       \* requests that are not served
  MaxLost           \* connections that break or are closed by the client

ASSUME BoundsAreNumbers ==
  MaxSessions \in Nat /\ MaxArrivals \in Nat /\ MaxRefused \in Nat /\ MaxLost \in Nat

Session == 0..(MaxSessions - 1)

RequestId == 1..(MaxArrivals - 1)

InvokeTask == [id : Nat, isAnswer : BOOLEAN]

\* A command that waits for its commit, with the session and the request it came by.
ApplyTask == [session : Session, id : Nat]

ASSUME NilIsNothingElse == Nil \notin Session /\ Nil \notin InvokeTask /\ Nil \notin ApplyTask

VARIABLES
  acceptor,         \* RpcProvider::run: "new", "running", "ended"
  listening,        \* listener_
  isShutdown,       \* is_shutdown_
  stopper,          \* RpcProvider::shutdown: "idle", "walking", "closing", "done"
  walk,             \* the session whose close shutdown awaits
  visited,          \* the sessions it has closed
  early,            \* history: the sessions accepted before shutdown began
  astray,           \* the walk's session was erased under it
  died,             \* and the process has not survived that
  nextId, sessions, \* session_id_, the keys of sessions_
  stream,           \* "none", "open", "lost" (by the client), "closed" (by shutdown)
  sent,             \* requests the client has sent
  inbound,          \* their ids on the connection
  outbound,         \* the ids of the answers the client gets: <<session, id>>
  reader,           \* "none", "reading", "removing", "done"
  queue, queueShut, \* queue_, is_shutdown_ of SPSCQueue
  writer, woken,    \* "none", "popping", "waiting", "handling", "done"
  task,             \* the task the writer has popped
  waiting,          \* the commands in StateMachine::tasks_
  applying,         \* the command whose answer apply is pushing
  refused           \* history: the requests that get no answer

listenVars == <<acceptor, listening, isShutdown>>
stopVars == <<stopper, walk, visited, early, astray, died>>
tableVars == <<nextId, sessions>>
netVars == <<stream, sent, inbound, outbound>>
queueVars == <<queue, queueShut, woken>>
writerVars == <<writer, task>>
applyVars == <<waiting, applying>>
vars == <<listenVars, stopVars, tableVars, netVars, reader, queueVars, writerVars, applyVars,
          refused>>

Init ==
  /\ acceptor = "new" /\ listening = TRUE /\ isShutdown = FALSE
  /\ stopper = "idle" /\ walk = Nil /\ visited = {} /\ early = {}
  /\ astray = FALSE /\ died = FALSE
  /\ nextId = 0 /\ sessions = {}
  /\ stream = [s \in Session |-> "none"]
  /\ sent = [s \in Session |-> 0]
  /\ inbound = [s \in Session |-> <<>>]
  /\ outbound = [s \in Session |-> <<>>]
  /\ reader = [s \in Session |-> "none"]
  /\ queue = [s \in Session |-> <<>>]
  /\ queueShut = [s \in Session |-> FALSE]
  /\ writer = [s \in Session |-> "none"]
  /\ woken = [s \in Session |-> FALSE]
  /\ task = [s \in Session |-> Nil]
  /\ waiting = <<>> /\ applying = Nil
  /\ refused = {}

-----------------------------------------------------------------------------
(* Accepting. *)

Run ==
  /\ acceptor = "new"
  /\ acceptor' = IF isShutdown THEN "ended" ELSE "running"
  /\ UNCHANGED <<listening, isShutdown, stopVars, tableVars, netVars, reader, queueVars,
                 writerVars, applyVars, refused>>

MayArrive == nextId + SumFunction(sent) < MaxArrivals

FreeId == CHOOSE id \in Session \ sessions : \A other \in Session \ sessions : id <= other

IdAfterNext == nextId + 1

\* session_id_++
IdToAssign == nextId

Accept ==
  /\ acceptor = "running" /\ listening
  /\ nextId < MaxSessions /\ MayArrive
  /\ LET s == IdToAssign IN
     /\ nextId' = nextId + 1
     /\ sessions' = sessions \union {s}
     /\ stream' = [stream EXCEPT ![s] = "open"]
     /\ sent' = [sent EXCEPT ![s] = 0]
     /\ outbound' = [outbound EXCEPT ![s] = <<>>]
     /\ reader' = [reader EXCEPT ![s] = "reading"]
     /\ writer' = [writer EXCEPT ![s] = "popping"]
  /\ early' = IF stopper = "idle" THEN early \union {IdToAssign} ELSE early
  /\ UNCHANGED <<listenVars, stopper, walk, visited, astray, died, inbound, queueVars, task,
                 applyVars, refused>>

FailAccept ==
  /\ acceptor = "running" /\ ~listening
  /\ acceptor' = "ended"
  /\ UNCHANGED <<listening, isShutdown, stopVars, tableVars, netVars, reader, queueVars,
                 writerVars, applyVars, refused>>

-----------------------------------------------------------------------------
(* The client's end of a connection. *)

HasEnded(s) == reader[s] = "done" /\ writer[s] = "done"

Send(s) ==
  /\ stream[s] = "open" /\ ~HasEnded(s)
  /\ MayArrive
  /\ sent' = [sent EXCEPT ![s] = @ + 1]
  /\ inbound' = [inbound EXCEPT ![s] = Append(@, sent[s] + 1)]
  /\ UNCHANGED <<listenVars, stopVars, tableVars, stream, outbound, reader, queueVars,
                 writerVars, applyVars, refused>>

\* The connection breaks or is closed: some of the requests on it may still be read.
HangUp(s) ==
  /\ stream[s] = "open"
  /\ Cardinality({other \in Session : stream[other] = "lost"}) < MaxLost
  /\ stream' = [stream EXCEPT ![s] = "lost"]
  /\ \E n \in 0..Len(inbound[s]) : inbound' = [inbound EXCEPT ![s] = SubSeq(@, 1, n)]
  /\ UNCHANGED <<listenVars, stopVars, tableVars, sent, outbound, reader, queueVars,
                 writerVars, applyVars, refused>>

-----------------------------------------------------------------------------
(* SPSCQueue. *)

PushSilently(s, t) == queue' = [queue EXCEPT ![s] = Append(@, t)] /\ UNCHANGED woken

\* push: notify_one reaches a writer that waits.
Push(s, t) ==
  /\ queue' = [queue EXCEPT ![s] = Append(@, t)]
  /\ woken' = [woken EXCEPT ![s] = @ \/ writer[s] = "waiting"]

LeaveOpen(s) == UNCHANGED <<queueShut, woken>>

ShutQueue(s) ==
  /\ queueShut' = [queueShut EXCEPT ![s] = TRUE]
  /\ woken' = [woken EXCEPT ![s] = @ \/ writer[s] = "waiting"]

-----------------------------------------------------------------------------
(* The reader. *)

\* produce_invoke_tasks reads a request and pushes it.
Read(s) ==
  /\ reader[s] = "reading" /\ inbound[s] # <<>>
  /\ inbound' = [inbound EXCEPT ![s] = Tail(@)]
  /\ Push(s, [id |-> Head(inbound[s]), isAnswer |-> FALSE])
  /\ UNCHANGED <<listenVars, stopVars, tableVars, stream, sent, outbound, reader, queueShut,
                 writerVars, applyVars, refused>>

Refuse(s, id) ==
  /\ Cardinality(refused) < MaxRefused
  /\ refused' = refused \union {<<s, id>>}

\* No service or method of that name: the request is passed over.
PassOver(s) ==
  /\ reader[s] = "reading" /\ inbound[s] # <<>>
  /\ Refuse(s, Head(inbound[s]))
  /\ inbound' = [inbound EXCEPT ![s] = Tail(@)]
  /\ UNCHANGED <<listenVars, stopVars, tableVars, stream, sent, outbound, reader, queueVars,
                 writerVars, applyVars>>

EndReading(s) ==
  /\ ShutQueue(s)
  /\ reader' = [reader EXCEPT ![s] = "removing"]

\* A request beyond MAX_RPC_MESSAGE_SIZE ends the session.
ReadTooLarge(s) ==
  /\ reader[s] = "reading" /\ inbound[s] # <<>>
  /\ Refuse(s, Head(inbound[s]))
  /\ inbound' = [inbound EXCEPT ![s] = Tail(@)]
  /\ EndReading(s)
  /\ UNCHANGED <<listenVars, stopVars, tableVars, stream, sent, outbound, queue, writerVars,
                 applyVars>>

FailRead(s) ==
  /\ reader[s] = "reading" /\ inbound[s] = <<>> /\ stream[s] # "open"
  /\ EndReading(s)
  /\ UNCHANGED <<listenVars, stopVars, tableVars, netVars, queue, writerVars, applyVars,
                 refused>>

RemoveByReader(s) ==
  /\ reader[s] = "removing"
  /\ sessions' = sessions \ {s}
  /\ reader' = [reader EXCEPT ![s] = "done"]
  /\ UNCHANGED <<listenVars, stopVars, nextId, netVars, queueVars, writerVars, applyVars,
                 refused>>

-----------------------------------------------------------------------------
(* The writer. *)

WholeQueue(s) == queue[s]

Rest(s) == Tail(queue[s])

TakeTask(s) ==
  /\ task' = [task EXCEPT ![s] = Head(queue[s])]
  /\ queue' = [queue EXCEPT ![s] = Rest(s)]
  /\ writer' = [writer EXCEPT ![s] = "handling"]

EndWriting(s) ==
  /\ sessions' = sessions \ {s}
  /\ writer' = [writer EXCEPT ![s] = "done"]

Pop(s) ==
  /\ writer[s] = "popping" /\ queue[s] # <<>>
  /\ TakeTask(s)
  /\ UNCHANGED <<listenVars, stopVars, tableVars, netVars, reader, queueShut, woken, applyVars,
                 refused>>

\* cv_.wait
Wait(s) ==
  /\ writer[s] = "popping" /\ queue[s] = <<>> /\ ~queueShut[s]
  /\ writer' = [writer EXCEPT ![s] = "waiting"]
  /\ woken' = [woken EXCEPT ![s] = FALSE]
  /\ UNCHANGED <<listenVars, stopVars, tableVars, netVars, reader, queue, queueShut, task,
                 applyVars, refused>>

Wake(s) ==
  /\ writer[s] = "waiting" /\ woken[s]
  /\ queue[s] # <<>> /\ ~queueShut[s]
  /\ TakeTask(s)
  /\ woken' = [woken EXCEPT ![s] = FALSE]
  /\ UNCHANGED <<listenVars, stopVars, tableVars, netVars, reader, queueShut, applyVars,
                 refused>>

\* After a wait a shut queue counts as empty, whatever is in it.
PopNothing(s) ==
  /\ queueShut[s]
  /\ \/ writer[s] = "popping" /\ queue[s] = <<>>
     \/ writer[s] = "waiting" /\ woken[s]
  /\ EndWriting(s)
  /\ woken' = [woken EXCEPT ![s] = FALSE]
  /\ UNCHANGED <<listenVars, stopVars, nextId, netVars, reader, queue, queueShut, task, applyVars,
                 refused>>

EndTask(s) ==
  /\ writer' = [writer EXCEPT ![s] = "popping"]
  /\ task' = [task EXCEPT ![s] = Nil]

\* A handler with an answer.  What is written to a broken connection may seem to be sent.
Respond(s) ==
  /\ writer[s] = "handling"
  /\ stream[s] # "closed"
  /\ outbound' = IF stream[s] = "lost" THEN outbound
                 ELSE [outbound EXCEPT ![s] = Append(@, <<s, task[s].id>>)]
  /\ EndTask(s)
  /\ UNCHANGED <<listenVars, stopVars, tableVars, stream, sent, inbound, reader, queueVars,
                 applyVars, refused>>

FailRespond(s) ==
  /\ writer[s] = "handling" /\ stream[s] # "open"
  /\ EndWriting(s)
  /\ task' = [task EXCEPT ![s] = Nil]
  /\ UNCHANGED <<listenVars, stopVars, nextId, netVars, reader, queueVars, applyVars,
                 refused>>

\* A handler that fails, or whose answer is too large.
HandleInVain(s) ==
  /\ writer[s] = "handling" /\ ~task[s].isAnswer
  /\ Refuse(s, task[s].id)
  /\ EndTask(s)
  /\ UNCHANGED <<listenVars, stopVars, tableVars, netVars, reader, queueVars, applyVars>>

\* The leader's handler of a KV call returns 0 bytes.
HandleLater(s) ==
  /\ writer[s] = "handling" /\ ~task[s].isAnswer
  /\ waiting' = Append(waiting, [session |-> s, id |-> task[s].id])
  /\ EndTask(s)
  /\ UNCHANGED <<listenVars, stopVars, tableVars, netVars, reader, queueVars, applying,
                 refused>>

-----------------------------------------------------------------------------
(* StateMachine::apply: session_at, then the push. *)

FindSession ==
  /\ applying = Nil /\ waiting # <<>>
  /\ waiting' = Tail(waiting)
  /\ applying' = IF Head(waiting).session \in sessions THEN Head(waiting) ELSE Nil
  /\ UNCHANGED <<listenVars, stopVars, tableVars, netVars, reader, queueVars, writerVars,
                 refused>>

PushAnswer ==
  /\ applying # Nil
  /\ Push(applying.session, [id |-> applying.id, isAnswer |-> TRUE])
  /\ applying' = Nil
  /\ UNCHANGED <<listenVars, stopVars, tableVars, netVars, reader, queueShut, writerVars,
                 waiting, refused>>

-----------------------------------------------------------------------------
(* RpcProvider::shutdown. *)

StartShutdown ==
  /\ stopper = "idle"
  /\ stopper' = "walking"
  /\ UNCHANGED <<listenVars, walk, visited, early, astray, died, tableVars, netVars, reader,
                 queueVars, writerVars, applyVars, refused>>

\* The loop over sessions_ awaits the close of one after the other.
CloseSession(s) ==
  /\ stopper = "walking" /\ walk = Nil /\ ~astray
  /\ s \in sessions \ visited
  /\ walk' = s
  /\ UNCHANGED <<listenVars, stopper, visited, early, astray, died, tableVars, netVars,
                 reader, queueVars, writerVars, applyVars, refused>>

\* The iterator stands on the session that was closed.  When that was erased during the
\* await, the process may die, or the loop may end anywhere.
FinishClose ==
  /\ walk # Nil
  /\ stream' = [stream EXCEPT ![walk] = IF @ = "lost" THEN @ ELSE "closed"]
  /\ inbound' = [inbound EXCEPT ![walk] = <<>>]
  /\ visited' = visited \union {walk}
  /\ astray' = (walk \notin sessions)
  /\ died' \in {FALSE, astray'}
  /\ walk' = Nil
  /\ UNCHANGED <<listenVars, stopper, early, tableVars, sent, outbound, reader, queueVars,
                 writerVars, applyVars, refused>>

IsWalkedOnce == astray \/ visited # {} \/ sessions = {}

IsWalked == astray \/ sessions \intersect early \subseteq visited

\* The loop may miss a session that is accepted meanwhile; clear removes it all the same.
ClearSessions ==
  /\ stopper = "walking" /\ walk = Nil
  /\ IsWalked
  /\ sessions' = {}
  /\ stopper' = "closing"
  /\ UNCHANGED <<listenVars, walk, visited, early, astray, died, nextId, netVars, reader,
                 queueVars, writerVars, applyVars, refused>>

CloseListener ==
  /\ stopper = "closing"
  /\ listening' = FALSE
  /\ isShutdown' = TRUE
  /\ stopper' = "done"
  /\ UNCHANGED <<acceptor, walk, visited, early, astray, died, tableVars, netVars, reader,
                 queueVars, writerVars, applyVars, refused>>

-----------------------------------------------------------------------------
ReaderStep(s) == Read(s) \/ RemoveByReader(s)

WriterStep(s) ==
  \/ Pop(s) \/ Wait(s) \/ Wake(s) \/ PopNothing(s)
  \/ Respond(s) \/ FailRespond(s) \/ HandleLater(s)

Apply == FindSession \/ PushAnswer

Stop == (\E s \in Session : CloseSession(s)) \/ FinishClose \/ ClearSessions \/ CloseListener

Next ==
  /\ ~died
  /\ \/ Run \/ Accept \/ FailAccept
     \/ \E s \in Session :
          \/ Send(s) \/ HangUp(s)
          \/ ReaderStep(s) \/ FailRead(s) \/ PassOver(s) \/ ReadTooLarge(s)
          \/ WriterStep(s) \/ HandleInVain(s)
     \/ Apply
     \/ StartShutdown \/ Stop

Spec == Init /\ [][Next]_vars

\* A coroutine that can go on is resumed, and a read fails when the client is gone; whether
\* the close of a stream ends a read that is under way is kosio's affair.
Fairness ==
  /\ \A s \in Session :
       /\ WF_vars(~died /\ (ReaderStep(s) \/ (stream[s] = "lost" /\ FailRead(s))))
       /\ WF_vars(~died /\ WriterStep(s))
  /\ WF_vars(~died /\ Apply)
  /\ WF_vars(~died /\ Stop)
  /\ WF_vars(~died /\ FailAccept)

FairSpec == Spec /\ Fairness

-----------------------------------------------------------------------------
(* Properties. *)

TypeOK ==
  /\ acceptor \in {"new", "running", "ended"} /\ listening \in BOOLEAN /\ isShutdown \in BOOLEAN
  /\ stopper \in {"idle", "walking", "closing", "done"}
  /\ walk \in Session \union {Nil}
  /\ visited \subseteq Session /\ early \subseteq Session
  /\ astray \in BOOLEAN /\ died \in BOOLEAN
  /\ nextId \in Nat /\ sessions \subseteq Session
  /\ stream \in [Session -> {"none", "open", "lost", "closed"}]
  /\ sent \in [Session -> Nat] /\ inbound \in [Session -> Seq(Nat)]
  /\ outbound \in [Session -> Seq(Session \X Nat)]
  /\ reader \in [Session -> {"none", "reading", "removing", "done"}]
  /\ queue \in [Session -> Seq(InvokeTask)]
  /\ queueShut \in [Session -> BOOLEAN]
  /\ writer \in [Session -> {"none", "popping", "waiting", "handling", "done"}]
  /\ woken \in [Session -> BOOLEAN]
  /\ task \in [Session -> InvokeTask \union {Nil}]
  /\ waiting \in Seq(ApplyTask)
  /\ applying \in ApplyTask \union {Nil}
  /\ refused \subseteq Session \X Nat

\* What a client gets on a connection are answers to requests it sent over that very
\* connection, none of them twice and none to a request that was refused: an answer that
\* waits in StateMachine finds its way by session id (state_machine.cpp:43, provider.cpp:60),
\* and its session may be gone, with others accepted since.
AnswersAreOwed ==
  \A s \in Session :
    /\ IsInjective(outbound[s])
    /\ \A i \in DOMAIN outbound[s] :
         outbound[s][i][1] = s /\ outbound[s][i][2] <= sent[s] /\ outbound[s][i] \notin refused

\* A request is in one place at most of all those it passes through: on the connection, in
\* the queue, with the writer, in StateMachine, with apply or answered.
Places(s, id) ==
  LET In(seq) == {i \in DOMAIN seq : seq[i] = id}
      Queued == {i \in DOMAIN queue[s] : queue[s][i].id = id}
      Waits == {i \in DOMAIN waiting : waiting[i] = [session |-> s, id |-> id]}
      Has(b) == IF b THEN 1 ELSE 0
  IN Cardinality(In(inbound[s])) + Cardinality(Queued) + Cardinality(Waits)
     + Cardinality({i \in DOMAIN outbound[s] : outbound[s][i] = <<s, id>>})
     + Has(task[s] # Nil /\ task[s].id = id)
     + Has(applying = [session |-> s, id |-> id]) + Has(<<s, id>> \in refused)

InOnePlace == \A s \in Session : \A id \in RequestId : Places(s, id) <= 1

\* When shutdown has walked over the sessions, each that was there before has been closed or
\* has ended by itself, unless the walk went astray on a session that ended during the
\* await of its close (session_manager.cpp:18-23).
ShutdownClosesSessions ==
  stopper \in {"closing", "done"} /\ ~astray =>
    \A s \in early : stream[s] # "open" \/ "done" \in {reader[s], writer[s]}

\* A request over a connection that stays up is answered, unless its handler fails or the
\* reader gives up on the connection: no wakeup of the queue is lost, and StateMachine's
\* answer reaches a session whose writer waits (spsc_queue.hpp:10-35, state_machine.cpp:56-73).
RequestsAreAnswered ==
  \A s \in Session : \A id \in RequestId :
    sent[s] >= id ~>
      \/ \E i \in DOMAIN outbound[s] : outbound[s][i] = <<s, id>>
      \/ <<s, id>> \in refused
      \/ stream[s] # "open" \/ reader[s] \in {"removing", "done"}
      \/ stopper # "idle" \/ died

\* When the client has gone both coroutines end and the session leaves the table, also when
\* the writer waits in pop: it is the reader that shuts the queue (provider.cpp:119).
SessionsEnd ==
  \A s \in Session : stream[s] = "lost" ~> (HasEnded(s) /\ s \notin sessions) \/ died

=============================================================================
