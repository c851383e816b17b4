------------------------- MODULE RpcConsumer_proofs -------------------------
(***************************************************************************)
(* What RpcConsumer guarantees for any number of calls and connections.    *)
(***************************************************************************)
EXTENDS RpcConsumer, SequenceTheorems, TLAPS

(* The inductive invariant. *)

\* Requests on their way over a connection, and answers to them.
Underway(k) == requests[k] \union {responses[k][n] : n \in DOMAIN responses[k]}

\* The callback of id n belongs to a call that has written to k.
Served(n, k) == <<callbacks[n], k>> \in wrote

Writing == \E c \in Call : busy = <<c, "writing">>

\* The ids from here on have not been written to the present stream.
Fresh == IF Writing THEN requestId - 1 ELSE requestId

\* A call that writes was given an id.
WritersHaveIds == Writing => requestId # 0

\* shutdown cancels and closes only a stream that is there.
ClosesAStream == busy \in {<<Nil, "cancelling">>, <<Nil, "closing">>} => stream # Nil

TypeInv == TypeOK /\ WritersHaveIds /\ ClosesAStream

\* is_running_ is set while there is a reader, and nobody connects then.
ReaderRuns ==
  /\ running = (reader # Nil)
  /\ \A c \in Call : busy = <<c, "connecting">> => reader = Nil

\* The call that holds the mutex has not returned.
HolderWaits ==
  \A c \in Call : busy \in {<<c, "connecting">>, <<c, "writing">>} => outcome[c] = "none"

\* Only the call that writes has a callback before it returns, under the last id.
CallbacksAreOfReturned ==
  \A n \in Id, c \in Call :
    callbacks[n] = c /\ outcome[c] = "none" => busy = <<c, "writing">> /\ n = requestId - 1

OneIdPerCallback ==
  \A n, p \in Id : callbacks[n] = callbacks[p] /\ callbacks[n] # Nil => n = p

WritersReturned == \A w \in wrote : outcome[w[1]] # "none" /\ w[2] <= made

NothingAhead == \A k \in Connection : k > made => Underway(k) = {}

\* Over the present stream nothing has a fresh id.
IdsAreBehind ==
  stream # Nil =>
    /\ stream <= made
    /\ \A m \in Underway(stream) : m.id < Fresh
    /\ \A n \in Id : Served(n, stream) => n < Fresh

AnswersMatch ==
  \A k \in Connection : \A m \in Underway(k) : Served(m.id, k) => callbacks[m.id] = m.of

\* A callback that has run is in the map only while it runs.
RanIsForgotten ==
  \A r \in ran :
    /\ outcome[r[1]] # "none"
    /\ \A n \in Id : callbacks[n] = r[1] => reader # Nil /\ reader.runs = n

CallInv ==
  /\ HolderWaits
  /\ CallbacksAreOfReturned
  /\ OneIdPerCallback
  /\ WritersReturned
  /\ NothingAhead
  /\ IdsAreBehind
  /\ AnswersMatch
  /\ RanIsForgotten

-----------------------------------------------------------------------------
(* Types. *)

LEMMA CallStepType ==
  ASSUME TypeInv, NEW c \in Call, CallStep(c)
  PROVE  TypeOK'
<1> USE BoundsAreNumbers DEF TypeInv, TypeOK, Id, Connection
<1>1. CASE Register(c)
  <2>1. callbacks' \in [Id -> Call \union {Nil}] /\ requestId' \in 0..(MaxId + 1)
    BY <1>1 DEF Register, Emplace
  <2>2. busy' \in Holder
    BY <1>1 DEF Register, Holder
  <2> QED
    BY <1>1, <2>1, <2>2 DEF Register, connVars
<1>2. CASE StartConnect(c)
  BY <1>2 DEF StartConnect, Holder, Stopping, connVars
<1>3. CASE FailConnect(c)
  BY <1>3 DEF FailConnect, Return, connVars
<1>4. CASE Connect(c)
  <2>1. reader' \in Reader /\ stream' \in Connection /\ made' \in 0..MaxConnections
    BY <1>4 DEF Connect, Reader
  <2>2. callbacks' \in [Id -> Call \union {Nil}] /\ requestId' \in 0..(MaxId + 1)
    BY <1>4 DEF Connect, Emplace
  <2>3. busy' \in Holder
    BY <1>4 DEF Connect, Holder
  <2> QED
    BY <1>4, <2>1, <2>2, <2>3 DEF Connect
<1>5. CASE Write(c)
  <2>1. stream \in Connection /\ wrote' \subseteq Call \X Connection
    BY <1>5 DEF Write
  <2>2. requests' \in [Connection -> SUBSET Message]
    <3>1. CASE stream \in broken
      BY <1>5, <3>1 DEF Write
    <3>2. CASE stream \notin broken
      <4>1. SUFFICES IdOfWriter \in Id
        BY <1>5, <2>1, <3>2, <4>1 DEF Write, Message
      <4> QED
        BY <1>5 DEF Write, IdOfWriter, WritersHaveIds, Writing
    <3> QED
      BY <3>1, <3>2
  <2> QED
    BY <1>5, <2>1, <2>2 DEF Write, Return
<1>6. CASE FailWrite(c)
  BY <1>6 DEF FailWrite, Return, connVars
<1> QED
  BY <1>1, <1>2, <1>3, <1>4, <1>5, <1>6 DEF CallStep

\* The first response of a connection that has one.
LEMMA FirstResponse ==
  ASSUME TypeOK, HasResponse
  PROVE  /\ reader.on \in Connection
         /\ responses[reader.on] # <<>>
         /\ responses[reader.on] \in Seq(Message)
         /\ Head(responses[reader.on]) \in Message
         /\ Tail(responses[reader.on]) \in Seq(Message)
<1>1. reader.on \in Connection /\ responses[reader.on] # <<>>
  BY DEF TypeOK, HasResponse, Reads, Reader
<1>2. responses[reader.on] \in Seq(Message)
  BY <1>1 DEF TypeOK
<1> QED
  BY <1>1, <1>2, HeadTailProperties

LEMMA ReaderStepType ==
  ASSUME TypeOK, ReaderStep
  PROVE  TypeOK'
<1> USE DEF TypeOK
<1>1. CASE RunCallback
  <2> DEFINE m == Head(responses[reader.on])
             c == callbacks[m.id]
  <2>1. HasResponse
    BY <1>1 DEF RunCallback
  <2>2. reader.on \in Connection /\ m \in Message /\ Tail(responses[reader.on]) \in Seq(Message)
    BY <2>1, FirstResponse
  <2>3. responses' \in [Connection -> Seq(Message)]
    BY <1>1, <2>2 DEF RunCallback, Take
  <2>4. m.id \in Id /\ m.of \in Call /\ c \in Call \union {Nil}
    BY <2>2 DEF Message
  <2>5. reader \in Reader
    BY <2>1 DEF HasResponse, Reads
  <2>6. reader' \in Reader \union {Nil} /\ ran' \subseteq Call \X Call \X Connection
    <3>1. CASE c = Nil
      BY <1>1, <2>5, <3>1 DEF RunCallback
    <3>2. CASE c # Nil
      <4>1. reader' = [reader EXCEPT !.runs = m.id] /\ ran' = ran \union {<<c, m.of, reader.on>>}
        BY <1>1, <3>2 DEF RunCallback
      <4>2. reader' \in Reader
        BY <2>4, <2>5, <4>1 DEF Reader
      <4>3. ran' \subseteq Call \X Call \X Connection
        BY <2>2, <2>4, <3>2, <4>1
      <4> QED
        BY <4>2, <4>3
    <3> QED
      BY <3>1, <3>2
  <2> QED
    BY <1>1, <2>3, <2>6 DEF RunCallback
<1>2. CASE FinishCallback
  <2>1. reader.runs \in Id
    BY <1>2 DEF FinishCallback, Reader
  <2> QED
    BY <1>2, <2>1 DEF FinishCallback, Forget, Reader, connVars
<1>3. CASE EndReader
  BY <1>3 DEF EndReader, StopReading, connVars
<1>4. CASE LosePayload
  <2>1. HasResponse
    BY <1>4 DEF LosePayload
  <2>2. /\ reader.on \in Connection
        /\ Head(responses[reader.on]).id \in Id
        /\ Tail(responses[reader.on]) \in Seq(Message)
    BY <2>1, FirstResponse DEF Message
  <2> QED
    BY <1>4, <2>2 DEF LosePayload, Take, Forget, StopReading
<1> QED
  BY <1>1, <1>2, <1>3, <1>4 DEF ReaderStep

LEMMA OtherEndType ==
  ASSUME TypeOK, NEW k \in Connection, Answer(k) \/ Break(k)
  PROVE  TypeOK'
<1> USE DEF TypeOK
<1>1. CASE Answer(k)
  <2>1. PICK m \in requests[k] :
          /\ requests' = [requests EXCEPT ![k] = @ \ {m}]
          /\ responses' = [responses EXCEPT ![k] = Append(@, m)]
    BY <1>1 DEF Answer
  <2>2. Append(responses[k], m) \in Seq(Message)
    BY AppendProperties
  <2> QED
    BY <1>1, <2>1, <2>2 DEF Answer
<1>2. CASE Break(k)
  <2>1. PICK n \in 0..Len(responses[k]) :
          responses' = [responses EXCEPT ![k] = SubSeq(@, 1, n)]
    BY <1>2 DEF Break
  <2>2. SubSeq(responses[k], 1, n) \in Seq(Message)
    BY LenProperties, ElementOfSeq, SubSeqProperties
  <2> QED
    BY <1>2, <2>1, <2>2 DEF Break
<1> QED
  BY <1>1, <1>2

LEMMA StopType ==
  ASSUME TypeInv, Shutdown \/ ShutdownStep
  PROVE  TypeOK'
<1> USE DEF TypeInv, TypeOK, connVars
<1>1. CASE Shutdown
  BY <1>1 DEF Shutdown, Holder, Stopping
<1>2. CASE CancelRead
  <2>1. reader \in Reader
    BY <1>2 DEF CancelRead, ReadPending, Reads
  <2>2. reader' \in Reader
    BY <1>2, <2>1 DEF CancelRead, Reader
  <2> QED
    BY <1>2, <2>2 DEF CancelRead
<1>3. CASE EndCancels \/ FinishShutdown
  BY <1>3 DEF EndCancels, FinishShutdown, Holder, Stopping
<1>4. CASE Close
  <2>1. stream \in Connection
    BY <1>4 DEF Close, ClosesAStream
  <2>2. broken' \subseteq Connection
    BY <1>4, <2>1 DEF Close
  <2>3. busy' \in Holder
    BY <1>4 DEF Close, Holder, Stopping
  <2> QED
    BY <1>4, <2>2, <2>3 DEF Close
<1> QED
  BY <1>1, <1>2, <1>3, <1>4 DEF ShutdownStep

\* Who holds the mutex is not nobody, and shutdown is not a call that writes.
LEMMA Holders ==
  /\ Nil \notin Holder
  /\ \A c \in Call : <<c, "connecting">> \in Holder /\ <<c, "writing">> \in Holder
  /\ \A c, d \in Call : <<c, "connecting">> # <<d, "writing">>
  /\ \A c \in Call : \A h \in Stopping : h # <<c, "writing">>
<1>1. Nil \notin Holder
  BY NilIsNothing
<1>2. \A c \in Call : <<c, "connecting">> \in Holder /\ <<c, "writing">> \in Holder
  BY DEF Holder
<1> QED
  BY <1>1, <1>2 DEF Stopping

\* A call that writes has just been given an id and nothing else changes request_id_.
LEMMA WritersKeepIds ==
  ASSUME TypeInv, [Next]_vars
  PROVE  WritersHaveIds'
<1> USE DEF TypeInv, TypeOK, WritersHaveIds, Writing, Id
<1>1. ASSUME NEW c \in Call, CallStep(c)
      PROVE  WritersHaveIds'
  <2>1. CASE Register(c) \/ Connect(c)
    BY <1>1, <2>1, BoundsAreNumbers DEF Register, Connect
  <2>2. CASE StartConnect(c)
    BY <1>1, <2>2, Holders DEF StartConnect
  <2>3. CASE FailConnect(c) \/ Write(c) \/ FailWrite(c)
    <3>1. busy' = Nil
      BY <2>3 DEF FailConnect, Write, FailWrite, Return
    <3> QED
      BY <3>1, Holders
  <2> QED
    BY <1>1, <2>1, <2>2, <2>3 DEF CallStep
<1>2. CASE UNCHANGED <<busy, requestId>>
  BY <1>2
<1>3. CASE Shutdown \/ ShutdownStep
  BY <1>3, Holders
     DEF Shutdown, ShutdownStep, CancelRead, EndCancels, Close, FinishShutdown, Stopping
<1>4. ReaderStep => UNCHANGED <<busy, requestId>>
  BY DEF ReaderStep, RunCallback, FinishCallback, EndReader, LosePayload
<1>5. ASSUME NEW k \in Connection, Answer(k) \/ Break(k)
      PROVE  UNCHANGED <<busy, requestId>>
  BY <1>5 DEF Answer, Break
<1> QED
  BY <1>1, <1>2, <1>3, <1>4, <1>5 DEF Next, vars

LEMMA StreamsAreClosed ==
  ASSUME TypeInv, [Next]_vars
  PROVE  ClosesAStream'
<1> USE DEF TypeInv, ClosesAStream
<1>1. ASSUME NEW c \in Call, CallStep(c)
      PROVE  ClosesAStream'
  <2>1. busy' \in {Nil} \union (Call \X {"connecting", "writing"})
    BY <1>1 DEF CallStep, Register, StartConnect, FailConnect, Connect, Write, FailWrite, Return
  <2> QED
    BY <2>1, Holders, NilIsNothing DEF Stopping, Holder
<1>2. CASE Shutdown \/ EndCancels
  BY <1>2 DEF Shutdown, EndCancels
<1>3. CASE Close \/ FinishShutdown
  <2>1. busy' = Nil \/ busy' = <<Nil, "stopping">>
    BY <1>3 DEF Close, FinishShutdown
  <2> QED
    BY <2>1, Holders DEF Holder, Stopping
<1>4. CASE CancelRead \/ ReaderStep \/ UNCHANGED vars
  BY <1>4 DEF CancelRead, ReaderStep, RunCallback, FinishCallback, EndReader, LosePayload, vars
<1>5. ASSUME NEW k \in Connection, Answer(k) \/ Break(k)
      PROVE  ClosesAStream'
  BY <1>5 DEF Answer, Break
<1> QED
  BY <1>1, <1>2, <1>3, <1>4, <1>5 DEF Next, ShutdownStep

LEMMA TypeInit ==
  Init => TypeInv
<1> SUFFICES ASSUME Init PROVE TypeInv
  OBVIOUS
<1>1. ~Writing
  BY Holders DEF Init, Writing
<1>2. TypeOK
  <2>1. 0 \in 0..(MaxId + 1) /\ 0 \in 0..MaxConnections /\ <<>> \in Seq(Message)
    BY BoundsAreNumbers
  <2> QED
    BY <2>1 DEF Init, TypeOK
<1>3. ClosesAStream
  <2>1. busy \notin Stopping
    BY Holders DEF Init, Holder
  <2> QED
    BY <2>1 DEF ClosesAStream, Stopping
<1> QED
  BY <1>1, <1>2, <1>3 DEF TypeInv, WritersHaveIds

LEMMA TypeStep ==
  ASSUME TypeInv, [Next]_vars
  PROVE  TypeOK'
<1>1. CASE UNCHANGED vars
  BY <1>1 DEF TypeInv, TypeOK, vars, connVars
<1> QED
  BY <1>1, CallStepType, ReaderStepType, OtherEndType, StopType DEF TypeInv, Next

\* Whatever the calls, the other end and the connections do, every field stays
\* within its range: every id read from a response is one that was given out, and
\* the reader is on a connection that was made.
THEOREM TypeCorrect == Spec => []TypeOK
<1>1. Init => TypeInv
  BY TypeInit
<1>2. TypeInv /\ [Next]_vars => TypeInv'
  BY TypeStep, WritersKeepIds, StreamsAreClosed DEF TypeInv
<1>3. TypeInv => TypeOK
  BY DEF TypeInv
<1> QED
  BY <1>1, <1>2, <1>3, PTL DEF Spec

-----------------------------------------------------------------------------
(* One reader. *)

LEMMA ReaderRunsStep ==
  ASSUME TypeInv, ReaderRuns, [Next]_vars
  PROVE  ReaderRuns'
<1> USE NilIsNothing DEF TypeInv, TypeOK, ReaderRuns, Holder, Stopping
<1>1. ASSUME NEW c \in Call, CallStep(c)
      PROVE  ReaderRuns'
  <2>1. CASE Register(c)
    BY <2>1 DEF Register
  <2>2. CASE StartConnect(c)
    BY <2>2 DEF StartConnect, MustConnect
  <2>3. CASE FailConnect(c) \/ Write(c) \/ FailWrite(c)
    BY <2>3 DEF FailConnect, Write, FailWrite, Return
  <2>4. CASE Connect(c)
    <3>1. reader' \in Reader
      BY <2>4, BoundsAreNumbers DEF Connect, Reader, Connection
    <3> QED
      BY <2>4, <3>1 DEF Connect
  <2> QED
    BY <1>1, <2>1, <2>2, <2>3, <2>4 DEF CallStep
<1>2. CASE ReaderStep
  <2>1. CASE RunCallback
    <3>1. reader' \in Reader /\ reader \in Reader
      <4>1. reader \in Reader /\ HasResponse
        BY <2>1 DEF RunCallback, HasResponse, Reads
      <4>2. Head(responses[reader.on]).id \in Id
        BY <4>1, FirstResponse DEF Message
      <4>3. reader' = reader \/ reader' = [reader EXCEPT !.runs = Head(responses[reader.on]).id]
        BY <2>1, Zenon DEF RunCallback
      <4> QED
        BY <4>1, <4>2, <4>3 DEF Reader
    <3> QED
      BY <2>1, <3>1 DEF RunCallback
  <2>2. CASE FinishCallback
    <3>1. reader' \in Reader
      BY <2>2 DEF FinishCallback, Reader
    <3> QED
      BY <2>2, <3>1 DEF FinishCallback
  <2>3. CASE EndReader \/ LosePayload
    BY <2>3 DEF EndReader, LosePayload, StopReading
  <2> QED
    BY <1>2, <2>1, <2>2, <2>3 DEF ReaderStep
<1>3. CASE Shutdown \/ ShutdownStep
  <2>1. CASE CancelRead
    <3>1. reader \in Reader /\ reader # Nil
      BY <2>1 DEF CancelRead, ReadPending, Reads
    <3>2. reader' \in Reader
      BY <2>1, <3>1 DEF CancelRead, Reader
    <3> QED
      BY <2>1, <3>1, <3>2 DEF CancelRead
  <2> QED
    BY <1>3, <2>1 DEF Shutdown, ShutdownStep, EndCancels, Close, FinishShutdown
<1>4. ASSUME NEW k \in Connection, Answer(k) \/ Break(k)
      PROVE  UNCHANGED <<running, busy, reader>>
  BY <1>4 DEF Answer, Break
<1>5. CASE UNCHANGED vars
  BY <1>5 DEF vars
<1> QED
  BY <1>1, <1>2, <1>3, <1>4, <1>5 DEF Next

\* Only connect gives a value to stream_.
LEMMA NewStreamIsConnect ==
  ASSUME Next, stream' \notin {stream, Nil}
  PROVE  \E c \in Call : Connect(c)
BY DEF Next, CallStep, Register, StartConnect, FailConnect, Write, FailWrite, ReaderStep,
       RunCallback, FinishCallback, EndReader, LosePayload, Shutdown, ShutdownStep, CancelRead,
       EndCancels, Close, FinishShutdown, Answer, Break

\* However calls, failures and shutdown interleave, no call replaces stream_ by a new
\* connection while a reader of the last one is left: the new reader is the only one.
THEOREM OneReaderAtATime == Spec => OneReader
<1>1. Init => TypeInv /\ ReaderRuns
  BY TypeInit, NilIsNothing DEF Init, ReaderRuns, Holder, Stopping
<1>2. TypeInv /\ ReaderRuns /\ [Next]_vars => (TypeInv /\ ReaderRuns)'
  BY TypeStep, WritersKeepIds, StreamsAreClosed, ReaderRunsStep DEF TypeInv
<1>3. ReaderRuns /\ [Next]_vars => [stream' \notin {stream, Nil} => reader = Nil]_vars
  <2> SUFFICES ASSUME ReaderRuns, Next, stream' \notin {stream, Nil}
               PROVE  reader = Nil
    OBVIOUS
  <2>1. PICK c \in Call : Connect(c)
    BY NewStreamIsConnect
  <2> QED
    BY <2>1 DEF Connect, ReaderRuns
<1> QED
  BY <1>1, <1>2, <1>3, PTL DEF Spec, OneReader

-----------------------------------------------------------------------------
(* A callback gets its own answer, once. *)

\* What is under way over a connection after a step.
LEMMA UnderwayAfter ==
  ASSUME TypeOK, [Next]_vars, NEW k \in Connection, NEW m \in Underway(k)'
  PROVE  \/ m \in Underway(k)
         \/ \E c \in Call : Write(c) /\ k = stream /\ m = [id |-> IdOfWriter, of |-> c]
<1> USE DEF TypeOK, Underway
<1>1. CASE UNCHANGED <<requests, responses>>
  BY <1>1
<1>2. ASSUME NEW c \in Call, Write(c)
      PROVE  \/ m \in Underway(k)
             \/ Write(c) /\ k = stream /\ m = [id |-> IdOfWriter, of |-> c]
  BY <1>2 DEF Write
<1>3. CASE Take /\ HasResponse /\ UNCHANGED requests
  <2>1. reader.on \in Connection /\ responses[reader.on] \in Seq(Message)
        /\ responses[reader.on] # <<>>
    BY <1>3, FirstResponse
  <2>2. CASE k = reader.on
    <3>1. responses'[k] = Tail(responses[k])
      BY <1>3, <2>1, <2>2 DEF Take
    <3>2. \A n \in DOMAIN Tail(responses[k]) :
             n + 1 \in DOMAIN responses[k] /\ Tail(responses[k])[n] = responses[k][n + 1]
      BY <2>1, <2>2, HeadTailProperties, LenProperties
    <3> QED
      BY <1>3, <3>1, <3>2
  <2>3. CASE k # reader.on
    BY <1>3, <2>3 DEF Take
  <2> QED
    BY <2>2, <2>3
<1>4. ASSUME NEW p \in Connection, Answer(p)
      PROVE  m \in Underway(k)
  <2>1. PICK a \in requests[p] :
          /\ requests' = [requests EXCEPT ![p] = @ \ {a}]
          /\ responses' = [responses EXCEPT ![p] = Append(@, a)]
    BY <1>4 DEF Answer
  <2>2. CASE k = p
    <3>1. responses'[k] = Append(responses[k], a) /\ responses[k] \in Seq(Message)
      BY <2>1, <2>2
    <3>2. \A n \in DOMAIN Append(responses[k], a) :
             \/ n \in DOMAIN responses[k] /\ Append(responses[k], a)[n] = responses[k][n]
             \/ Append(responses[k], a)[n] = a
      BY <2>1, <2>2, <3>1, AppendProperties, LenProperties
    <3> QED
      BY <2>1, <2>2, <3>1, <3>2
  <2>3. CASE k # p
    BY <2>1, <2>3
  <2> QED
    BY <2>2, <2>3
<1>5. ASSUME NEW p \in Connection, Break(p)
      PROVE  m \in Underway(k)
  <2>1. PICK n \in 0..Len(responses[p]) :
          responses' = [responses EXCEPT ![p] = SubSeq(@, 1, n)]
    BY <1>5 DEF Break
  <2>2. CASE k = p
    <3>1. responses'[k] = SubSeq(responses[k], 1, n) /\ requests'[k] = {}
      BY <1>5, <2>1, <2>2 DEF Break
    <3>2. Len(responses[k]) \in Nat /\ DOMAIN responses[k] = 1..Len(responses[k])
      BY LenProperties
    <3>3. \A i \in DOMAIN SubSeq(responses[k], 1, n) :
             i \in DOMAIN responses[k] /\ SubSeq(responses[k], 1, n)[i] = responses[k][i]
      BY <2>2, <3>2, SubSeqProperties, LenProperties
    <3> QED
      BY <3>1, <3>3
  <2>3. CASE k # p
    BY <1>5, <2>1, <2>3 DEF Break
  <2> QED
    BY <2>2, <2>3
<1>6. ASSUME NEW c \in Call, CallStep(c), ~Write(c)
      PROVE  UNCHANGED <<requests, responses>>
  BY <1>6 DEF CallStep, Register, StartConnect, FailConnect, Connect, FailWrite, connVars
<1>7. CASE ReaderStep
  BY <1>1, <1>3, <1>7 DEF ReaderStep, RunCallback, FinishCallback, EndReader, LosePayload, connVars
<1>8. CASE Shutdown \/ ShutdownStep \/ UNCHANGED vars
  BY <1>1, <1>8 DEF Shutdown, ShutdownStep, CancelRead, EndCancels, Close, FinishShutdown, connVars,
     vars
<1> QED
  BY <1>1, <1>2, <1>4, <1>5, <1>6, <1>7, <1>8 DEF Next

\* A step that writes nothing puts nothing new on a connection.
LEMMA NothingNewUnderway ==
  ASSUME TypeOK, [Next]_vars, wrote' = wrote, \A c \in Call : ~Write(c), NEW k \in Connection
  PROVE  Underway(k)' \subseteq Underway(k)
BY UnderwayAfter

LEMMA UnderwayType ==
  ASSUME TypeOK, NEW k \in Connection, NEW m \in Underway(k)
  PROVE  m \in Message /\ m.id \in Id /\ m.of \in Call
<1>1. \A n \in DOMAIN responses[k] : responses[k][n] \in Message
  BY ElementOfSeq, LenProperties DEF TypeOK
<1> QED
  BY <1>1 DEF Underway, TypeOK, Message

\* A call that has not returned and does not write has no callback.
LEMMA NewCallHasNoCallback ==
  ASSUME TypeOK, CallbacksAreOfReturned, ~Writing,
         NEW c \in Call, outcome[c] = "none", NEW n \in Id
  PROVE  callbacks[n] # c
BY DEF CallbacksAreOfReturned, Writing

\* The parts of the invariant that giving an id to a call could disturb.
LEMMA EmplaceKeeps ==
  ASSUME TypeInv, CallInv, ~Writing, NEW c \in Call, outcome[c] = "none",
         requestId \in Id, Emplace(c, requestId), requestId' = requestId + 1,
         busy' = <<c, "writing">>, made' \in {made, made + 1},
         UNCHANGED <<outcome, wrote, ran, requests, responses>>,
         reader' = reader \/ reader = Nil
  PROVE  /\ HolderWaits' /\ CallbacksAreOfReturned' /\ OneIdPerCallback'
         /\ WritersReturned' /\ AnswersMatch' /\ RanIsForgotten'
         /\ Fresh' = requestId /\ Fresh = requestId
         /\ \A n \in Id, k \in Connection : Served(n, k)' => Served(n, k)
<1> USE NilIsNothing DEF TypeInv, TypeOK, CallInv
<1>1. /\ \A n \in Id : callbacks'[n] \in {callbacks[n], c}
      /\ \A n \in Id : n # requestId => callbacks'[n] = callbacks[n]
      /\ \A n \in Id : callbacks'[n] # callbacks[n] => callbacks[n] = Nil
  BY DEF Emplace
<1>2. \A n \in Id : callbacks[n] # c
  BY NewCallHasNoCallback
<1>3. \A k \in Connection : <<c, k>> \notin wrote
  BY DEF WritersReturned
<1>4. \A n \in Id, k \in Connection : Served(n, k)' => Served(n, k) /\ callbacks'[n] = callbacks[n]
  BY <1>1, <1>3 DEF Served
<1>5. HolderWaits'
  BY DEF HolderWaits
<1>6. CallbacksAreOfReturned'
  <2> SUFFICES ASSUME NEW n \in Id, NEW d \in Call, callbacks'[n] = d, outcome[d] = "none"
               PROVE  d = c /\ n = requestId
    BY DEF CallbacksAreOfReturned, Id
  <2>1. callbacks[n] # d
    BY NewCallHasNoCallback
  <2> QED
    BY <1>1, <2>1
<1>7. OneIdPerCallback'
  BY <1>1, <1>2 DEF OneIdPerCallback
<1>8. WritersReturned'
  BY BoundsAreNumbers DEF WritersReturned, Connection
<1>9. AnswersMatch'
  <2> SUFFICES ASSUME NEW k \in Connection, NEW m \in Underway(k), Served(m.id, k)'
               PROVE  callbacks'[m.id] = m.of
    BY DEF AnswersMatch, Underway
  <2> QED
    BY <1>4, UnderwayType DEF AnswersMatch
<1>10. RanIsForgotten'
  BY <1>1 DEF RanIsForgotten
<1>11. Fresh' = requestId /\ Fresh = requestId
  BY DEF Fresh, Writing, Id
<1> QED
  BY <1>4, <1>5, <1>6, <1>7, <1>8, <1>9, <1>10, <1>11

LEMMA RegisterKeeps ==
  ASSUME TypeInv, CallInv, NEW c \in Call, Register(c)
  PROVE  CallInv'
<1> USE NilIsNothing DEF TypeInv, CallInv
<1>1. ~Writing /\ outcome[c] = "none" /\ UNCHANGED <<requests, responses, stream, made>>
  BY DEF Register, Waits, Writing, Holder, Stopping, connVars
<1>2. /\ HolderWaits' /\ CallbacksAreOfReturned' /\ OneIdPerCallback'
      /\ WritersReturned' /\ AnswersMatch' /\ RanIsForgotten'
      /\ Fresh' = Fresh
      /\ \A n \in Id, k \in Connection : Served(n, k)' => Served(n, k)
  BY <1>1, EmplaceKeeps DEF Register
<1>3. NothingAhead'
  BY <1>1 DEF NothingAhead, Underway
<1>4. IdsAreBehind'
  BY <1>1, <1>2 DEF IdsAreBehind, Underway, TypeOK
<1> QED
  BY <1>2, <1>3, <1>4

LEMMA ConnectKeeps ==
  ASSUME TypeInv, ReaderRuns, CallInv, NEW c \in Call, Connect(c)
  PROVE  CallInv'
<1> USE NilIsNothing DEF TypeInv, CallInv
<1>1. /\ ~Writing /\ outcome[c] = "none" /\ reader = Nil
      /\ stream' = made + 1 /\ stream' \in Connection /\ made' = made + 1
      /\ UNCHANGED <<requests, responses>>
  BY BoundsAreNumbers DEF Connect, Writing, HolderWaits, ReaderRuns, TypeOK, Connection
<1>2. /\ HolderWaits' /\ CallbacksAreOfReturned' /\ OneIdPerCallback'
      /\ WritersReturned' /\ AnswersMatch' /\ RanIsForgotten'
      /\ Fresh' = requestId
      /\ \A n \in Id, k \in Connection : Served(n, k)' => Served(n, k)
  BY <1>1, EmplaceKeeps DEF Connect
<1>3. made \in Nat /\ \A k \in Connection : k \in Nat
  BY BoundsAreNumbers DEF Connection, TypeOK
<1>4. \A k \in Connection : Underway(k)' = Underway(k)
  BY <1>1 DEF Underway
<1>5. NothingAhead'
  BY <1>1, <1>3, <1>4 DEF NothingAhead
<1>6. IdsAreBehind'
  <2>1. Underway(stream') = {} /\ Underway(stream)' = Underway(stream')
    BY <1>1, <1>3 DEF NothingAhead, Underway
  <2>2. \A n \in Id : ~Served(n, stream')
    BY <1>1, <1>3 DEF WritersReturned, Served
  <2>3. \A n \in Id : ~Served(n, stream)'
    BY <1>1, <1>2, <2>2 DEF Served
  <2> QED
    BY <1>1, <1>3, <2>1, <2>3 DEF IdsAreBehind
<1> QED
  BY <1>2, <1>5, <1>6

\* What is under way, and who has written, where nothing is sent, taken or forgotten.
LEMMA SameUnderway ==
  ASSUME UNCHANGED <<requests, responses>>
  PROVE  \A k : Underway(k)' = Underway(k)
BY DEF Underway

LEMMA SameServed ==
  ASSUME UNCHANGED <<callbacks, wrote>>
  PROVE  \A n, k : Served(n, k)' <=> Served(n, k)
BY DEF Served

LEMMA StartConnectKeeps ==
  ASSUME TypeInv, CallInv, NEW c \in Call, StartConnect(c)
  PROVE  CallInv'
<1> USE NilIsNothing DEF TypeInv, TypeOK, CallInv
<1>1. /\ ~Writing /\ outcome[c] = "none" /\ stream' = Nil /\ busy' = <<c, "connecting">>
      /\ UNCHANGED <<outcome, callbacks, wrote, made, requests, responses, reader, ran>>
  BY DEF StartConnect, MustConnect, Waits, Writing, Holder, Stopping, connVars
<1>2. HolderWaits'
  BY <1>1 DEF HolderWaits
<1>3. CallbacksAreOfReturned'
  BY <1>1, NewCallHasNoCallback DEF CallbacksAreOfReturned
<1>4. OneIdPerCallback' /\ WritersReturned' /\ RanIsForgotten'
  BY <1>1 DEF OneIdPerCallback, WritersReturned, RanIsForgotten
<1>5. NothingAhead' /\ AnswersMatch' /\ IdsAreBehind'
  BY <1>1, SameUnderway, SameServed DEF NothingAhead, AnswersMatch, IdsAreBehind
<1> QED
  BY <1>2, <1>3, <1>4, <1>5

LEMMA FailKeeps ==
  ASSUME TypeInv, CallInv, NEW c \in Call, FailConnect(c) \/ FailWrite(c)
  PROVE  CallInv'
<1> USE NilIsNothing DEF TypeInv, TypeOK, CallInv
<1>1. /\ outcome[c] = "none" /\ outcome' = [outcome EXCEPT ![c] = "failed"]
      /\ busy \in {<<c, "connecting">>, <<c, "writing">>} /\ busy' = Nil
      /\ UNCHANGED <<callbacks, wrote, made, requests, responses, reader, ran, requestId>>
      /\ stream' = Nil \/ (FailConnect(c) /\ stream' = stream)
  <2>1. CASE FailConnect(c)
    BY <2>1 DEF FailConnect, Return, HolderWaits, connVars
  <2>2. CASE FailWrite(c)
    <3>1. outcome[c] = "none"
      BY <2>2 DEF FailWrite, HolderWaits
    <3> QED
      BY <2>2, <3>1 DEF FailWrite, Return, connVars
  <2> QED
    BY <2>1, <2>2
<1>2. HolderWaits'
  BY <1>1 DEF HolderWaits, Holder, Stopping
<1>3. CallbacksAreOfReturned'
  BY <1>1 DEF CallbacksAreOfReturned
<1>4. OneIdPerCallback' /\ WritersReturned' /\ RanIsForgotten'
  BY <1>1 DEF OneIdPerCallback, WritersReturned, RanIsForgotten
<1>5. NothingAhead' /\ AnswersMatch'
  BY <1>1, SameUnderway, SameServed DEF NothingAhead, AnswersMatch
<1>6. IdsAreBehind'
  <2>1. CASE stream' = Nil
    BY <2>1 DEF IdsAreBehind
  <2>2. CASE FailConnect(c) /\ stream' = stream
    <3>1. ~Writing /\ ~Writing'
      BY <1>1, <2>2 DEF FailConnect, Writing, Holder, Stopping
    <3> QED
      BY <1>1, <2>2, <3>1 DEF IdsAreBehind, Fresh, Underway, Served
  <2> QED
    BY <1>1, <2>1, <2>2
<1> QED
  BY <1>2, <1>3, <1>4, <1>5, <1>6

LEMMA WriteKeeps ==
  ASSUME TypeInv, CallInv, NEW c \in Call, Write(c)
  PROVE  CallInv'
<1> USE NilIsNothing DEF TypeInv, CallInv
<1>1. /\ outcome[c] = "none" /\ outcome' = [outcome EXCEPT ![c] = "ok"]
      /\ busy = <<c, "writing">> /\ busy' = Nil
      /\ stream \in Connection /\ stream' = stream /\ wrote' = wrote \union {<<c, stream>>}
      /\ UNCHANGED <<callbacks, made, responses, reader, ran, requestId>>
  BY DEF Write, Return, HolderWaits, TypeOK
<1>2. Writing /\ ~Writing' /\ Fresh = IdOfWriter /\ Fresh' = Fresh + 1 /\ Fresh \in Id
  BY <1>1, BoundsAreNumbers DEF Writing, Fresh, IdOfWriter, Holder, Stopping, Id,
                                 WritersHaveIds, TypeOK
<1>3. \A k \in Connection : \A m \in Underway(k)' :
        m \in Underway(k) \/ (k = stream /\ m = [id |-> Fresh, of |-> c])
  <2>1. \/ requests' = requests
        \/ requests' = [requests EXCEPT ![stream] = @ \union {[id |-> Fresh, of |-> c]}]
    BY <1>2 DEF Write
  <2> SUFFICES ASSUME NEW k \in Connection, NEW m \in Underway(k)', m \notin Underway(k)
               PROVE  k = stream /\ m = [id |-> Fresh, of |-> c]
    OBVIOUS
  <2>2. m \in requests'[k] /\ m \notin requests[k]
    BY <1>1 DEF Underway
  <2> QED
    BY <1>1, <2>1, <2>2 DEF TypeOK
<1>4. \A n \in Id : callbacks[n] = c => n = Fresh
  BY <1>1, <1>2 DEF CallbacksAreOfReturned, IdOfWriter
<1>5. \A n \in Id : Served(n, stream) => n < Fresh
  BY <1>1 DEF IdsAreBehind
<1>6. \A n \in Id, k \in Connection :
        Served(n, k)' => Served(n, k) \/ (callbacks[n] = c /\ k = stream)
  BY ONLY <1>1 DEF Served
<1>7. HolderWaits' /\ OneIdPerCallback' /\ CallbacksAreOfReturned'
  BY <1>1 DEF HolderWaits, OneIdPerCallback, CallbacksAreOfReturned, Holder, Stopping, TypeOK
<1>8. WritersReturned' /\ RanIsForgotten'
  BY <1>1 DEF WritersReturned, RanIsForgotten, IdsAreBehind, TypeOK
<1>9. NothingAhead'
  <2>1. stream <= made
    BY <1>1 DEF IdsAreBehind
  <2> SUFFICES ASSUME NEW k \in Connection, k > made, Underway(k)' # {}
               PROVE  FALSE
    BY <1>1 DEF NothingAhead
  <2>2. k = stream
    BY <1>3 DEF NothingAhead
  <2> QED
    BY <2>1, <2>2 DEF TypeOK, Connection
<1>10. IdsAreBehind'
  <2>1. \A m \in Underway(stream)' : m.id < Fresh + 1
    BY <1>1, <1>2, <1>3, UnderwayType DEF IdsAreBehind, Id, Underway
  <2>2. \A n \in Id : Served(n, stream)' => n < Fresh + 1
    BY <1>1, <1>2, <1>4, <1>5, <1>6 DEF Id, Served
  <2> QED
    BY <1>1, <1>2, <2>1, <2>2 DEF IdsAreBehind
<1>11. AnswersMatch'
  <2> SUFFICES ASSUME NEW k \in Connection, NEW m \in Underway(k)', Served(m.id, k)'
               PROVE  callbacks[m.id] = m.of
    BY <1>1 DEF AnswersMatch
  <2>1. CASE m \in Underway(k)
    <3>1. m.id \in Id
      BY <2>1, UnderwayType
    <3>2. k = stream => m.id < Fresh
      BY <1>1, <2>1 DEF IdsAreBehind
    <3>3. Served(m.id, k)
      BY <1>2, <1>4, <1>6, <3>1, <3>2 DEF Id
    <3> QED
      BY <2>1, <3>3 DEF AnswersMatch
  <2>2. CASE k = stream /\ m = [id |-> Fresh, of |-> c]
    BY <1>2, <1>5, <1>6, <2>2 DEF Id
  <2> QED
    BY <1>3, <2>1, <2>2
<1> QED
  BY <1>7, <1>8, <1>9, <1>10, <1>11

\* A step of no call that only takes messages away, and forgets at most callbacks, keeps
\* the invariant, as long as a callback that has run is still forgotten.
LEMMA QuietKeeps ==
  ASSUME TypeInv, CallInv, RanIsForgotten',
         UNCHANGED <<outcome, requestId, wrote, made>>,
         \A c \in Call : busy' = <<c, "writing">> <=> busy = <<c, "writing">>,
         \A c \in Call : busy' = <<c, "connecting">> <=> busy = <<c, "connecting">>,
         stream' \in {stream, Nil},
         \A n \in Id : callbacks'[n] \in {callbacks[n], Nil},
         \A k \in Connection : Underway(k)' \subseteq Underway(k)
  PROVE  CallInv'
<1> USE NilIsNothing DEF TypeInv, CallInv
<1>1. Writing' = Writing /\ Fresh' = Fresh
  BY DEF Writing, Fresh
<1>2. \A n \in Id : \A k : Served(n, k)' => Served(n, k) /\ callbacks'[n] = callbacks[n]
  <2>1. \A n, k : Served(n, k)' => callbacks'[n] \in Call
    BY DEF Served, TypeOK
  <2>2. \A n \in Id : callbacks'[n] \in Call => callbacks'[n] = callbacks[n]
    OBVIOUS
  <2> QED
    BY <2>1, <2>2 DEF Served
<1>3. HolderWaits'
  BY DEF HolderWaits
<1>4. CallbacksAreOfReturned' /\ OneIdPerCallback'
  BY DEF CallbacksAreOfReturned, OneIdPerCallback
<1>5. WritersReturned' /\ NothingAhead'
  BY DEF WritersReturned, NothingAhead
<1>6. IdsAreBehind'
  BY <1>1, <1>2 DEF IdsAreBehind, TypeOK
<1>7. AnswersMatch'
  BY <1>2, UnderwayType DEF AnswersMatch
<1> QED
  BY <1>3, <1>4, <1>5, <1>6, <1>7

LEMMA ReaderKeeps ==
  ASSUME TypeInv, CallInv, ReaderStep
  PROVE  CallInv'
<1> DEFINE Kept == /\ UNCHANGED <<outcome, requestId, wrote, made, busy, stream>>
                   /\ \A n \in Id : callbacks'[n] \in {callbacks[n], Nil}
<1> USE NilIsNothing DEF TypeInv, CallInv
<1>1. \A k \in Connection : Underway(k)' \subseteq Underway(k)
  <2>1. UNCHANGED <<wrote, busy>>
    BY DEF ReaderStep, RunCallback, FinishCallback, EndReader, LosePayload
  <2>2. [Next]_vars /\ \A c \in Call : ~Write(c)
    BY <2>1 DEF Next, Write, Return, Holder, Stopping
  <2> QED
    BY <2>1, <2>2, NothingNewUnderway
<1>2. CASE RunCallback
  <2> DEFINE m == Head(responses[reader.on])
             c == callbacks[m.id]
  <2>1. HasResponse /\ reader.on \in Connection /\ m \in Underway(reader.on) /\ m.id \in Id
    <3>1. HasResponse
      BY <1>2 DEF RunCallback
    <3>2. reader.on \in Connection /\ m \in Message /\ responses[reader.on] \in Seq(Message)
      BY <3>1, FirstResponse
    <3>3. m = responses[reader.on][1] /\ 1 \in DOMAIN responses[reader.on]
      BY <3>1, <3>2, FirstResponse, HeadTailProperties, EmptySeq, LenProperties
    <3> QED
      BY <3>1, <3>2, <3>3 DEF Underway, Message
  <2>2. Kept /\ UNCHANGED callbacks
    BY <1>2 DEF RunCallback, TypeOK
  <2>3. RanIsForgotten'
    <3>1. CASE c = Nil
      BY <1>2, <2>2, <3>1 DEF RunCallback, RanIsForgotten
    <3>2. CASE c # Nil
      <4>1. /\ reader' = [reader EXCEPT !.runs = m.id]
            /\ ran' = ran \union {<<c, m.of, reader.on>>}
        BY <1>2, <3>2 DEF RunCallback
      <4>2. c \in Call /\ reader \in Reader /\ reader.runs = Nil
        BY <2>1, <3>2 DEF TypeOK, HasResponse, Reads
      <4>3. outcome[c] # "none"
        <5>1. stream = reader.on /\ stream # Nil
          BY <1>2, <2>1 DEF RunCallback, HasResponse
        <5>2. m.id < Fresh
          BY <2>1, <5>1 DEF IdsAreBehind
        <5>3. outcome[c] = "none" => busy = <<c, "writing">> /\ m.id = requestId - 1
          BY <2>1, <4>2 DEF CallbacksAreOfReturned
        <5>4. busy = <<c, "writing">> => Fresh = requestId - 1
          BY <4>2 DEF Fresh, Writing
        <5> QED
          BY <2>1, <5>2, <5>3, <5>4 DEF Id, TypeOK
      <4>4. \A r \in ran : outcome[r[1]] # "none" /\ \A n \in Id : callbacks[n] # r[1]
        BY <4>2 DEF RanIsForgotten, Id
      <4>5. \A n \in Id : callbacks[n] = c => n = m.id
        BY <2>1, <3>2 DEF OneIdPerCallback
      <4>6. reader' # Nil /\ reader'.runs = m.id
        BY <2>1, <4>1, <4>2 DEF Reader
      <4> QED
        BY <2>2, <4>1, <4>3, <4>4, <4>5, <4>6 DEF RanIsForgotten
    <3> QED
      BY <3>1, <3>2
  <2> QED
    BY <1>1, <2>2, <2>3, QuietKeeps
<1>3. CASE FinishCallback
  <2>1. reader.runs \in Id /\ callbacks' = [callbacks EXCEPT ![reader.runs] = Nil]
    BY <1>3 DEF FinishCallback, Forget, Reader, TypeOK
  <2>2. Kept /\ UNCHANGED ran
    BY <1>3, <2>1 DEF FinishCallback, TypeOK, connVars
  <2>3. RanIsForgotten'
    <3>1. \A r \in ran : r[1] \in Call
      BY DEF TypeOK
    <3>2. \A r \in ran, n \in Id : callbacks'[n] # r[1]
      BY <2>1, <3>1 DEF RanIsForgotten, TypeOK
    <3> QED
      BY <2>2, <3>2 DEF RanIsForgotten
  <2> QED
    BY <1>1, <2>2, <2>3, QuietKeeps
<1>4. CASE EndReader \/ LosePayload
  <2>1. Kept /\ UNCHANGED ran /\ reader.runs = Nil
    <3>1. CASE EndReader
      BY <3>1 DEF EndReader, Reads, connVars, TypeOK
    <3>2. CASE LosePayload
      BY <3>2 DEF LosePayload, HasResponse, Reads, Forget, TypeOK
    <3> QED
      BY <1>4, <3>1, <3>2
  <2>2. RanIsForgotten'
    <3>1. \A r \in ran : r[1] \in Call /\ \A n \in Id : callbacks[n] # r[1]
      BY <2>1 DEF RanIsForgotten, TypeOK, Id
    <3>2. \A r \in ran, n \in Id : callbacks'[n] # r[1]
      BY <2>1, <3>1
    <3> QED
      BY <2>1, <3>2 DEF RanIsForgotten
  <2> QED
    BY <1>1, <2>1, <2>2, QuietKeeps
<1> QED
  BY <1>2, <1>3, <1>4 DEF ReaderStep

LEMMA StopKeeps ==
  ASSUME TypeInv, CallInv, Shutdown \/ ShutdownStep
  PROVE  CallInv'
<1> USE NilIsNothing DEF TypeInv, CallInv
<1>1. /\ UNCHANGED <<outcome, requestId, wrote, made, callbacks, requests, responses, ran>>
      /\ busy \in Stopping \union {Nil} /\ busy' \in Stopping \union {Nil}
      /\ stream' \in {stream, Nil}
  BY DEF Shutdown, ShutdownStep, CancelRead, EndCancels, Close, FinishShutdown, Stopping, connVars
<1>2. \A c \in Call :
        /\ busy \notin {<<c, "connecting">>, <<c, "writing">>}
        /\ busy' \notin {<<c, "connecting">>, <<c, "writing">>}
  BY <1>1 DEF Holder, Stopping
<1>3. reader # Nil => reader' # Nil /\ reader'.runs = reader.runs
  <2>1. CASE CancelRead
    <3>1. reader \in Reader /\ reader' = [reader EXCEPT !.cut = TRUE]
      BY <2>1 DEF CancelRead, ReadPending, Reads, TypeOK
    <3>2. reader' \in Reader /\ reader'.runs = reader.runs
      BY <3>1 DEF Reader
    <3> QED
      BY <3>2
  <2>2. CASE UNCHANGED reader
    BY <2>2
  <2> QED
    BY <2>1, <2>2 DEF Shutdown, ShutdownStep, EndCancels, Close, FinishShutdown
<1>4. RanIsForgotten'
  BY <1>1, <1>3 DEF RanIsForgotten
<1> QED
  BY <1>1, <1>2, <1>4, SameUnderway, QuietKeeps

LEMMA OtherEndKeeps ==
  ASSUME TypeInv, CallInv, NEW k \in Connection, Answer(k) \/ Break(k)
  PROVE  CallInv'
<1> USE DEF TypeInv, CallInv
<1>1. UNCHANGED <<outcome, requestId, wrote, made, callbacks, ran, reader, busy, stream>>
  BY DEF Answer, Break
<1>2. \A p \in Connection : Underway(p)' \subseteq Underway(p)
  <2>1. [Next]_vars /\ \A c \in Call : ~Write(c)
    BY NilIsNothing DEF Next, Answer, Break, Write, Return, Holder, Stopping
  <2> QED
    BY <1>1, <2>1, NothingNewUnderway
<1>3. RanIsForgotten'
  BY <1>1 DEF RanIsForgotten
<1> QED
  BY <1>1, <1>2, <1>3, QuietKeeps

LEMMA CallInvStep ==
  ASSUME TypeInv, ReaderRuns, CallInv, [Next]_vars
  PROVE  CallInv'
<1>1. ASSUME NEW c \in Call, CallStep(c)
      PROVE  CallInv'
  BY <1>1, RegisterKeeps, StartConnectKeeps, FailKeeps, ConnectKeeps, WriteKeeps DEF CallStep
<1>2. CASE UNCHANGED vars
  <2>1. /\ UNCHANGED <<outcome, requestId, wrote, made, callbacks, ran, reader, busy, stream>>
        /\ UNCHANGED <<requests, responses>>
    BY <1>2 DEF vars, connVars
  <2>2. RanIsForgotten'
    BY <2>1 DEF CallInv, RanIsForgotten
  <2> QED
    BY <2>1, <2>2, SameUnderway, QuietKeeps
<1> QED
  BY <1>1, <1>2, ReaderKeeps, StopKeeps, OtherEndKeeps DEF Next

\* Neither the answer a step hands to a callback nor the request it writes breaks the
\* agreement of the callbacks that ran with the requests on their connection.
LEMMA AnswersStep ==
  ASSUME TypeInv, ReaderRuns, CallInv, AnswersWithinConnection, [Next]_vars
  PROVE  AnswersWithinConnection'
<1> USE NilIsNothing DEF TypeInv, CallInv
<1>1. CASE RunCallback
  <2> DEFINE m == Head(responses[reader.on])
             c == callbacks[m.id]
  <2>1. HasResponse /\ wrote' = wrote
    BY <1>1 DEF RunCallback
  <2>2. reader.on \in Connection /\ m \in Underway(reader.on)
    <3>1. m = responses[reader.on][1] /\ 1 \in DOMAIN responses[reader.on]
      BY <2>1, FirstResponse, HeadTailProperties, EmptySeq, LenProperties
    <3> QED
      BY <2>1, <3>1, FirstResponse DEF Underway
  <2>3. <<c, reader.on>> \in wrote => c = m.of
    BY <2>2 DEF AnswersMatch, Served
  <2>4. ran' = ran \/ ran' = ran \union {<<c, m.of, reader.on>>}
    BY <1>1 DEF RunCallback
  <2> QED
    BY <2>1, <2>3, <2>4 DEF AnswersWithinConnection
<1>2. ASSUME NEW c \in Call, Write(c)
      PROVE  AnswersWithinConnection'
  <2>1. ran' = ran /\ wrote' = wrote \union {<<c, stream>>} /\ outcome[c] = "none"
    BY <1>2 DEF Write, HolderWaits
  <2>2. \A r \in ran : r[1] # c
    BY <2>1 DEF RanIsForgotten
  <2> QED
    BY <2>1, <2>2 DEF AnswersWithinConnection
<1>3. CASE UNCHANGED <<ran, wrote>>
  BY <1>3 DEF AnswersWithinConnection
<1> QED
  BY <1>1, <1>2, <1>3 DEF Next, CallStep, Register, StartConnect, FailConnect, Connect, FailWrite,
     ReaderStep, FinishCallback, EndReader, LosePayload, Shutdown, ShutdownStep, CancelRead,
     EndCancels, Close, FinishShutdown, Answer, Break, vars

\* A callback that has run is not in the map when the next one is looked up.
LEMMA RunsOnceStep ==
  ASSUME TypeInv, ReaderRuns, CallInv, RunsOnce, [Next]_vars
  PROVE  RunsOnce'
<1> USE NilIsNothing DEF TypeInv, CallInv
<1>1. CASE RunCallback
  <2> DEFINE m == Head(responses[reader.on])
             c == callbacks[m.id]
  <2>1. HasResponse /\ m.id \in Id /\ reader.runs = Nil
    BY <1>1, FirstResponse DEF RunCallback, HasResponse, Reads, Message
  <2>2. \A r \in ran : r[1] # c
    BY <2>1 DEF RanIsForgotten, Id
  <2>3. ran' = ran \/ ran' = ran \union {<<c, m.of, reader.on>>}
    BY <1>1 DEF RunCallback
  <2> QED
    BY <2>2, <2>3 DEF RunsOnce
<1>2. CASE UNCHANGED ran
  BY <1>2 DEF RunsOnce
<1> QED
  BY <1>1, <1>2 DEF Next, CallStep, Register, StartConnect, FailConnect, Connect, Write, FailWrite,
     ReaderStep, FinishCallback, EndReader, LosePayload, Shutdown, ShutdownStep, CancelRead,
     EndCancels, Close, FinishShutdown, Answer, Break, vars

\* Everything above, together inductive.
ConsumerInv == TypeInv /\ ReaderRuns /\ CallInv /\ AnswersWithinConnection /\ RunsOnce

LEMMA CallInvInit ==
  Init => ReaderRuns /\ CallInv
<1> SUFFICES ASSUME Init
             PROVE  ReaderRuns /\ CallInv
  OBVIOUS
<1> USE NilIsNothing DEF Init
<1>1. \A k \in Connection : Underway(k) = {}
  BY EmptySeq DEF Underway
<1>2. ReaderRuns /\ HolderWaits
  BY DEF ReaderRuns, HolderWaits, Holder, Stopping
<1>3. CallbacksAreOfReturned /\ OneIdPerCallback
  BY DEF CallbacksAreOfReturned, OneIdPerCallback
<1>4. WritersReturned /\ NothingAhead /\ IdsAreBehind /\ AnswersMatch /\ RanIsForgotten
  BY <1>1 DEF WritersReturned, NothingAhead, IdsAreBehind, AnswersMatch, RanIsForgotten
<1> QED
  BY <1>2, <1>3, <1>4 DEF CallInv

\* The inductive invariant behind the two results on callbacks.
THEOREM ConsumerInvariant == Spec => []ConsumerInv
<1>1. Init => ConsumerInv
  BY TypeInit, CallInvInit DEF Init, ConsumerInv, AnswersWithinConnection, RunsOnce
<1>2. ConsumerInv /\ [Next]_vars => ConsumerInv'
  BY TypeStep, WritersKeepIds, StreamsAreClosed, ReaderRunsStep, CallInvStep, AnswersStep,
     RunsOnceStep
     DEF ConsumerInv, TypeInv
<1> QED
  BY <1>1, <1>2, PTL DEF Spec

\* Over the connection it was written to, a request is answered to its own callback or to
\* none: whatever the order of the answers, the failures and the callbacks left in the map.
THEOREM CallbacksGetTheirAnswers == Spec => []AnswersWithinConnection
<1>1. ConsumerInv => AnswersWithinConnection
  BY DEF ConsumerInv
<1> QED
  BY <1>1, ConsumerInvariant, PTL

\* No callback runs twice, though ids are given again after every reconnect and a callback
\* stays in the map while it runs.
THEOREM CallbacksRunOnce == Spec => []RunsOnce
<1>1. ConsumerInv => RunsOnce
  BY DEF ConsumerInv
<1> QED
  BY <1>1, ConsumerInvariant, PTL

=============================================================================
