---------------------------- MODULE RpcConsumer ----------------------------
(***************************************************************************)
(* One RpcConsumer: the calls made through it, the coroutine that reads    *)
(* responses and runs callbacks, reconnecting and shutdown.                *)
(*                                                                         *)
(* call holds mutex_ from its first line to its last one and awaits twice  *)
(* in between, in connect and in write_vectored; the reader does not take  *)
(* mutex_ and runs at any await.  An action is what happens between two    *)
(* awaits.  Connections are numbered in the order they are made; the other *)
(* end of one answers every request at most once, in any order.            *)
(***************************************************************************)
EXTENDS Integers, Sequences

CONSTANTS Call,             \* the calls made, one callback each
          Nil,              \* no stream, no callback, nobody
          MaxConnections,   \* bound: no connection is made beyond this number
          MaxId             \* bound: no request id beyond this number is given to a call

ASSUME BoundsAreNumbers == MaxConnections \in Nat /\ MaxId \in Nat

VARIABLES
  stream,        \* stream_: a connection, or Nil when it is not valid
  running,       \* is_running_
  requestId,     \* request_id_
  callbacks,     \* callbacks_: the call whose callback an id has, or Nil
  busy,          \* who holds mutex_: <<call, where it waits>>, <<Nil, where shutdown waits>>
                 \* or Nil
  reader,        \* the coroutine consume_callbacks, or Nil
  outcome,       \* what a call returned: "none" before, then "ok" or "failed"
  made,          \* the connections made so far
  requests, responses,  \* per connection, under way: requests, and the answers to them
  broken,        \* the connections that carry nothing any more
  stopped,       \* is_shutdown_
  wrote, ran     \* history: <<call, connection>> written; <<call, request, connection>>:
                 \* the callback of "call" ran with the answer to "request"

connVars == <<made, requests, responses, broken>>
vars == <<stream, running, requestId, callbacks, busy, reader, outcome, connVars, stopped,
          wrote, ran>>

Connection == 1..MaxConnections
Id == 0..MaxId
Message == [id : Id, of : Call]

\* The stream it reads from, the callback it runs, and whether its read was cancelled.
Reader == [on : Connection \union {Nil}, runs : Id \union {Nil}, cut : BOOLEAN]

\* Where shutdown waits: for a cancel, for the close, and for the reader to leave.
Stopping == {<<Nil, "cancelling">>, <<Nil, "closing">>, <<Nil, "stopping">>}

Holder == (Call \X {"connecting", "writing"}) \union Stopping

ASSUME NilIsNothing == Nil \notin Call \union Connection \union Id \union Reader \union Holder

-----------------------------------------------------------------------------
Init ==
  /\ stream = Nil
  /\ running = FALSE
  /\ requestId = 0
  /\ callbacks = [n \in Id |-> Nil]
  /\ busy = Nil
  /\ reader = Nil
  /\ outcome = [c \in Call |-> "none"]
  /\ made = 0
  /\ requests = [k \in Connection |-> {}]
  /\ responses = [k \in Connection |-> <<>>]
  /\ broken = {}
  /\ stopped = FALSE
  /\ wrote = {}
  /\ ran = {}

-----------------------------------------------------------------------------
(* call. *)

\* concurrent_hash_map::emplace leaves a key that is there as it is.
Emplace(c, id) == callbacks' = [callbacks EXCEPT ![id] = IF @ = Nil THEN c ELSE @]

MustConnectAlways == stream = Nil

\* connect returns success without connecting while the old reader is still there.
MustConnect == stream = Nil /\ ~running

Waits(c) == outcome[c] = "none" /\ busy = Nil

\* From the lock to write_vectored, over a stream that is valid or taken for it.
Register(c) ==
  /\ Waits(c)
  /\ ~MustConnect
  /\ requestId \in Id
  /\ Emplace(c, requestId)
  /\ requestId' = requestId + 1
  /\ busy' = <<c, "writing">>
  /\ UNCHANGED <<stream, running, reader, outcome, connVars, stopped, wrote, ran>>

StartConnect(c) ==
  /\ Waits(c)
  /\ MustConnect
  /\ requestId' = 0
  /\ busy' = <<c, "connecting">>
  /\ UNCHANGED <<stream, running, callbacks, reader, outcome, connVars, stopped, wrote, ran>>

Return(c, result) ==
  /\ outcome' = [outcome EXCEPT ![c] = result]
  /\ busy' = Nil

FailConnect(c) ==
  /\ busy = <<c, "connecting">>
  /\ Return(c, "failed")
  /\ UNCHANGED <<stream, running, requestId, callbacks, reader, connVars, stopped, wrote, ran>>

\* connect and run, then the call goes on to write_vectored.
Connect(c) ==
  /\ busy = <<c, "connecting">>
  /\ made < MaxConnections
  /\ requestId \in Id
  /\ made' = made + 1
  /\ stream' = made + 1
  /\ running' = TRUE
  /\ reader' = [on |-> made + 1, runs |-> Nil, cut |-> FALSE]
  /\ Emplace(c, requestId)
  /\ requestId' = requestId + 1
  /\ busy' = <<c, "writing">>
  /\ UNCHANGED <<outcome, requests, responses, broken, stopped, wrote, ran>>

IdOfNext == requestId

IdOfPrevious == IF requestId < 2 THEN 0 ELSE requestId - 2

\* The id a call was given: request_id_ has moved past it.
IdOfWriter == requestId - 1

\* A connection that has just broken may still take a request.
Write(c) ==
  /\ busy = <<c, "writing">>
  /\ stream # Nil
  /\ requests' = IF stream \in broken THEN requests
                 ELSE [requests EXCEPT ![stream] = @ \union {[id |-> IdOfWriter, of |-> c]}]
  /\ wrote' = wrote \union {<<c, stream>>}
  /\ Return(c, "ok")
  /\ UNCHANGED <<stream, running, requestId, callbacks, reader, made, responses, broken, stopped,
                 ran>>

\* write_vectored fails: the stream is closed and the callback stays where it is.
FailWrite(c) ==
  /\ busy = <<c, "writing">>
  /\ stream = Nil \/ stream \in broken
  /\ stream' = Nil
  /\ Return(c, "failed")
  /\ UNCHANGED <<running, requestId, callbacks, reader, connVars, stopped, wrote, ran>>

-----------------------------------------------------------------------------
(* consume_callbacks. *)

Reads == reader # Nil /\ reader.runs = Nil

HasResponse == Reads /\ reader.on # Nil /\ responses[reader.on] # <<>>

Take == responses' = [responses EXCEPT ![reader.on] = Tail(@)]

\* A whole response, and the callback of its id if there is one.
RunCallback ==
  /\ HasResponse
  /\ ~reader.cut
  /\ stream = reader.on
  /\ LET m == Head(responses[reader.on])
         c == callbacks[m.id]
     IN IF c = Nil
        THEN UNCHANGED <<reader, ran>>
        ELSE reader' = [reader EXCEPT !.runs = m.id] /\ ran' = ran \union {<<c, m.of, reader.on>>}
  /\ Take
  /\ UNCHANGED <<stream, running, requestId, callbacks, busy, outcome, made, requests, broken,
                 stopped, wrote>>

ForgetNothing(id) == UNCHANGED callbacks

Forget(id) == callbacks' = [callbacks EXCEPT ![id] = Nil]

\* The callback returns; the next read is from stream_ as it is now.
FinishCallback ==
  /\ reader # Nil /\ reader.runs # Nil
  /\ Forget(reader.runs)
  /\ reader' = [on |-> stream, runs |-> Nil, cut |-> FALSE]
  /\ UNCHANGED <<stream, running, requestId, busy, outcome, connVars, stopped, wrote, ran>>

Closed(k) == k = Nil \/ k \in broken

StopReading == reader' = Nil /\ running' = FALSE

\* The read of a header fails.
EndReader ==
  /\ Reads
  /\ reader.cut \/ Closed(reader.on)
  /\ StopReading
  /\ UNCHANGED <<stream, requestId, callbacks, busy, outcome, connVars, stopped, wrote, ran>>

\* A header arrives and its payload does not.
LosePayload ==
  /\ HasResponse
  /\ reader.cut \/ Closed(reader.on) \/ stream # reader.on
  /\ Forget(Head(responses[reader.on]).id)
  /\ Take
  /\ StopReading
  /\ UNCHANGED <<stream, requestId, busy, outcome, made, requests, broken, stopped, wrote, ran>>

-----------------------------------------------------------------------------
(* shutdown. *)

\* A second shutdown returns at once and changes nothing.
Shutdown ==
  /\ busy = Nil
  /\ ~stopped
  /\ stopped' = TRUE
  /\ busy' = <<Nil, IF stream = Nil THEN "stopping" ELSE "cancelling">>
  /\ UNCHANGED <<stream, running, requestId, callbacks, reader, outcome, connVars, wrote, ran>>

\* A read waits on stream_, and nothing has ended it yet.
ReadPending ==
  /\ Reads /\ ~reader.cut
  /\ stream # Nil /\ reader.on = stream /\ stream \notin broken

\* A cancel finds a read and ends it; shutdown cancels again.
CancelRead ==
  /\ busy = <<Nil, "cancelling">>
  /\ ReadPending
  /\ reader' = [reader EXCEPT !.cut = TRUE]
  /\ UNCHANGED <<stream, running, requestId, callbacks, busy, outcome, connVars, stopped, wrote,
                 ran>>

EndCancelsAtOnce ==
  /\ busy = <<Nil, "cancelling">>
  /\ busy' = <<Nil, "closing">>
  /\ UNCHANGED <<stream, running, requestId, callbacks, reader, outcome, connVars, stopped, wrote,
                 ran>>

\* A cancel finds no read, or one that already has its response.
EndCancels ==
  /\ busy = <<Nil, "cancelling">>
  /\ ReadPending => HasResponse
  /\ busy' = <<Nil, "closing">>
  /\ UNCHANGED <<stream, running, requestId, callbacks, reader, outcome, connVars, stopped, wrote,
                 ran>>

CloseNothing ==
  /\ busy = <<Nil, "closing">>
  /\ busy' = <<Nil, "stopping">>
  /\ UNCHANGED <<stream, running, requestId, callbacks, reader, outcome, connVars, stopped, wrote,
                 ran>>

\* close invalidates the stream.  A read begun since the last cancel may keep the connection
\* open underneath: nothing in the code says that close ends it.
Close ==
  /\ busy = <<Nil, "closing">>
  /\ busy' = <<Nil, "stopping">>
  /\ stream' = Nil
  /\ \/ broken' = broken \union {stream}
     \/ ReadPending /\ UNCHANGED broken
  /\ UNCHANGED <<running, requestId, callbacks, reader, outcome, made, requests, responses, stopped,
                 wrote, ran>>

\* shutdown keeps mutex_ until the reader has left.
FinishShutdown ==
  /\ busy = <<Nil, "stopping">>
  /\ ~running
  /\ busy' = Nil
  /\ UNCHANGED <<stream, running, requestId, callbacks, reader, outcome, connVars, stopped, wrote,
                 ran>>

-----------------------------------------------------------------------------
(* The other end. *)

Answer(k) ==
  /\ k \notin broken
  /\ \E m \in requests[k] :
       /\ requests' = [requests EXCEPT ![k] = @ \ {m}]
       /\ responses' = [responses EXCEPT ![k] = Append(@, m)]
  /\ UNCHANGED <<stream, running, requestId, callbacks, busy, reader, outcome, made, broken,
                 stopped, wrote, ran>>

\* Some of the responses may have arrived already.
Break(k) ==
  /\ k <= made
  /\ k \notin broken
  /\ broken' = broken \union {k}
  /\ requests' = [requests EXCEPT ![k] = {}]
  /\ \E n \in 0..Len(responses[k]) : responses' = [responses EXCEPT ![k] = SubSeq(@, 1, n)]
  /\ UNCHANGED <<stream, running, requestId, callbacks, busy, reader, outcome, made, stopped,
                 wrote, ran>>

-----------------------------------------------------------------------------
CallStep(c) ==
  Register(c) \/ StartConnect(c) \/ FailConnect(c) \/ Connect(c) \/ Write(c) \/ FailWrite(c)

ShutdownStep == CancelRead \/ EndCancels \/ Close \/ FinishShutdown

ReaderStep == RunCallback \/ FinishCallback \/ EndReader \/ LosePayload

Next ==
  \/ \E c \in Call : CallStep(c)
  \/ ReaderStep \/ Shutdown \/ ShutdownStep
  \/ \E k \in Connection : Answer(k) \/ Break(k)

Spec == Init /\ [][Next]_vars

\* Coroutines are resumed when what they await is there; the mutex serves its waiters.
Fairness ==
  /\ \A c \in Call : SF_vars(CallStep(c))
  /\ WF_vars(ReaderStep)
  /\ WF_vars(ShutdownStep)
  /\ \A k \in Connection : WF_vars(Answer(k))

FairSpec == Spec /\ Fairness

-----------------------------------------------------------------------------
(* Properties. *)

\* Every variable stays within what the code's field can hold; the id of a
\* request on its way is one that was given out.
TypeOK ==
  /\ stream \in Connection \union {Nil}
  /\ running \in BOOLEAN
  /\ requestId \in 0..(MaxId + 1)
  /\ callbacks \in [Id -> Call \union {Nil}]
  /\ busy \in Holder \union {Nil}
  /\ reader \in Reader \union {Nil}
  /\ outcome \in [Call -> {"none", "ok", "failed"}]
  /\ made \in 0..MaxConnections
  /\ requests \in [Connection -> SUBSET Message]
  /\ responses \in [Connection -> Seq(Message)]
  /\ broken \subseteq Connection
  /\ stopped \in BOOLEAN
  /\ wrote \subseteq Call \X Connection
  /\ ran \subseteq Call \X Call \X Connection

\* A callback that runs over the connection its request was written to gets the answer to
\* that very request, whatever order the answers come in and whatever is left in the map
\* from earlier connections.
AnswersWithinConnection ==
  \A r \in ran : <<r[1], r[3]>> \in wrote => r[1] = r[2]

\* No callback runs twice, not even when its id is given out again after a reconnect.
RunsOnce == \A r, s \in ran : r[1] = s[1] => r = s

\* While the coroutine of the last connection reads or runs a callback no other one is
\* started on the same stream_, though calls close and replace the stream meanwhile.
OneReader == [][stream' \notin {stream, Nil} => reader = Nil]_vars

\* The cancels are over while the reader runs a callback or is about to.
MissesReader ==
  /\ busy = <<Nil, "closing">>
  /\ reader # Nil
  /\ reader.runs # Nil \/ (HasResponse /\ ~reader.cut)

\* The reader is back from a callback and reads what is not closed yet.
LateRead == busy = <<Nil, "closing">> /\ ReadPending /\ ~HasResponse

\* shutdown returns, whatever the reader and the calls are doing when it begins, unless its
\* cancels miss a reader with a callback to run, and unless that reader is back and reads
\* again before the close: then nothing is shown to end the read, and shutdown may poll
\* with the mutex held for ever.
ShutdownReturns ==
  /\ []~MissesReader => (stopped ~> busy \notin Stopping)
  /\ []~LateRead => (stopped ~> busy \notin Stopping)

\* A request written to the first connection is answered to its own callback unless the
\* connection breaks or shutdown begins.
FirstConnectionServes ==
  \A c \in Call : <<c, 1>> \in wrote ~> <<c, c, 1>> \in ran \/ 1 \in broken \/ stopped

\* "The callback where receive response" (consumer.hpp): a callback only gets the answer to
\* its own request.  After a reconnect the ids start at 0 again and the callbacks that
\* were never answered are still in the map.
OwnAnswers == \A r \in ran : r[1] = r[2]
=============================================================================
