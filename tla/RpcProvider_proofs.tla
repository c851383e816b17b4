-------------------------- MODULE RpcProvider_proofs --------------------------
(***************************************************************************)
(* What RpcProvider guarantees for any number of sessions and requests.    *)
(***************************************************************************)
EXTENDS RpcProvider, SequenceFacts

\* The writer has a task exactly while it handles it.
WriterHasTask == \A s \in Session : task[s] # Nil <=> writer[s] = "handling"

\* A session that is not accepted yet has no writer.
WriterComesLater == \A s \in Session : s >= nextId => writer[s] = "none"

TypeInv == TypeOK /\ WriterHasTask /\ WriterComesLater

-----------------------------------------------------------------------------
(* Types. *)

LEMMA InitType == Init => TypeInv
<1> SUFFICES ASSUME Init PROVE TypeInv
  OBVIOUS
<1>1. <<>> \in Seq(Nat) /\ <<>> \in Seq(Session \X Nat) /\ <<>> \in Seq(InvokeTask)
      /\ <<>> \in Seq(ApplyTask)
  BY EmptySeq
<1>2. /\ acceptor \in {"new", "running", "ended"} /\ listening \in BOOLEAN /\ isShutdown \in BOOLEAN
      /\ stopper \in {"idle", "walking", "closing", "done"}
      /\ walk \in Session \union {Nil} /\ visited \subseteq Session /\ early \subseteq Session
      /\ astray \in BOOLEAN /\ died \in BOOLEAN
      /\ nextId \in Nat /\ sessions \subseteq Session /\ refused \subseteq Session \X Nat
  <2>1. {} \subseteq Session \X Nat /\ 0 \in Nat
    OBVIOUS
  <2> QED
    BY <2>1, Zenon DEF Init
<1>3. /\ stream \in [Session -> {"none", "open", "lost", "closed"}]
      /\ sent \in [Session -> Nat]
      /\ reader \in [Session -> {"none", "reading", "removing", "done"}]
      /\ writer \in [Session -> {"none", "popping", "waiting", "handling", "done"}]
      /\ queueShut \in [Session -> BOOLEAN] /\ woken \in [Session -> BOOLEAN]
  BY DEF Init
<1>4. /\ inbound \in [Session -> Seq(Nat)] /\ outbound \in [Session -> Seq(Session \X Nat)]
      /\ queue \in [Session -> Seq(InvokeTask)]
  BY <1>1 DEF Init
<1>5. /\ task \in [Session -> InvokeTask \union {Nil}]
      /\ waiting \in Seq(ApplyTask) /\ applying \in ApplyTask \union {Nil}
  BY <1>1 DEF Init
<1>6. TypeOK
  BY <1>2, <1>3, <1>4, <1>5 DEF TypeOK
<1> QED
  BY <1>6 DEF Init, TypeInv, WriterHasTask, WriterComesLater

\* The type invariant in parts, one for each group of variables that actions leave alone.
ListenOK ==
  acceptor \in {"new", "running", "ended"} /\ listening \in BOOLEAN /\ isShutdown \in BOOLEAN

StopOK ==
  /\ stopper \in {"idle", "walking", "closing", "done"}
  /\ walk \in Session \union {Nil}
  /\ visited \subseteq Session /\ early \subseteq Session
  /\ astray \in BOOLEAN /\ died \in BOOLEAN

TableOK == nextId \in Nat /\ sessions \subseteq Session

NetOK ==
  /\ stream \in [Session -> {"none", "open", "lost", "closed"}]
  /\ sent \in [Session -> Nat] /\ inbound \in [Session -> Seq(Nat)]
  /\ outbound \in [Session -> Seq(Session \X Nat)]

ReaderOK == reader \in [Session -> {"none", "reading", "removing", "done"}]

QueueOK ==
  /\ queue \in [Session -> Seq(InvokeTask)]
  /\ queueShut \in [Session -> BOOLEAN] /\ woken \in [Session -> BOOLEAN]

WriterOK ==
  /\ writer \in [Session -> {"none", "popping", "waiting", "handling", "done"}]
  /\ task \in [Session -> InvokeTask \union {Nil}]
  /\ WriterHasTask

ApplyOK == waiting \in Seq(ApplyTask) /\ applying \in ApplyTask \union {Nil}

RefusedOK == refused \subseteq Session \X Nat

LEMMA TypeParts ==
  /\ TypeInv <=> /\ ListenOK /\ StopOK /\ TableOK /\ NetOK /\ ReaderOK
                 /\ QueueOK /\ WriterOK /\ ApplyOK /\ RefusedOK /\ WriterComesLater
  /\ TypeInv' <=> /\ ListenOK' /\ StopOK' /\ TableOK' /\ NetOK' /\ ReaderOK'
                  /\ QueueOK' /\ WriterOK' /\ ApplyOK' /\ RefusedOK' /\ WriterComesLater'
BY DEF TypeInv, TypeOK, ListenOK, StopOK, TableOK, NetOK, ReaderOK, QueueOK, WriterOK, ApplyOK,
   RefusedOK

\* What an action leaves alone keeps its type.
LEMMA PartsStay ==
  ASSUME TypeInv
  PROVE  /\ UNCHANGED listenVars => ListenOK'
         /\ UNCHANGED stopVars => StopOK'
         /\ UNCHANGED tableVars => TableOK'
         /\ UNCHANGED netVars => NetOK'
         /\ UNCHANGED reader => ReaderOK'
         /\ UNCHANGED queueVars => QueueOK'
         /\ UNCHANGED writerVars => WriterOK'
         /\ UNCHANGED applyVars => ApplyOK'
         /\ UNCHANGED refused => RefusedOK'
         /\ UNCHANGED tableVars /\ UNCHANGED writerVars => WriterComesLater'
         /\ UNCHANGED nextId /\ UNCHANGED writerVars => WriterComesLater'
<1> USE TypeParts
<1>1. (UNCHANGED listenVars => ListenOK') /\ (UNCHANGED stopVars => StopOK')
  BY DEF ListenOK, StopOK, listenVars, stopVars
<1>2. (UNCHANGED tableVars => TableOK') /\ (UNCHANGED netVars => NetOK')
  BY DEF TableOK, NetOK, tableVars, netVars
<1>3. (UNCHANGED reader => ReaderOK') /\ (UNCHANGED queueVars => QueueOK')
  BY DEF ReaderOK, QueueOK, queueVars
<1>4. UNCHANGED writerVars => WriterOK'
  BY DEF WriterOK, WriterHasTask, writerVars
<1>5. (UNCHANGED applyVars => ApplyOK') /\ (UNCHANGED refused => RefusedOK')
  BY DEF ApplyOK, RefusedOK, applyVars
<1>6. /\ UNCHANGED tableVars /\ UNCHANGED writerVars => WriterComesLater'
      /\ UNCHANGED nextId /\ UNCHANGED writerVars => WriterComesLater'
  BY DEF WriterComesLater, tableVars, writerVars
<1> QED
  BY <1>1, <1>2, <1>3, <1>4, <1>5, <1>6

\* What a step of a writer that has begun does to what is said about writers.
LEMMA WriterMoves ==
  ASSUME TypeInv, NEW s \in Session, writer[s] # "none",
         NEW w \in {"popping", "waiting", "handling", "done"},
         writer' = [writer EXCEPT ![s] = w]
  PROVE  /\ UNCHANGED nextId => WriterComesLater'
         /\ UNCHANGED tableVars => WriterComesLater'
         /\ w # "handling" /\ task' = [task EXCEPT ![s] = Nil] => WriterOK'
         /\ w # "handling" /\ writer[s] # "handling" /\ UNCHANGED task => WriterOK'
<1>1. /\ writer \in [Session -> {"none", "popping", "waiting", "handling", "done"}]
      /\ task \in [Session -> InvokeTask \union {Nil}]
      /\ WriterHasTask /\ WriterComesLater
  BY DEF TypeInv, TypeOK
<1>2. /\ writer' \in [Session -> {"none", "popping", "waiting", "handling", "done"}]
      /\ writer'[s] = w /\ \A r \in Session : r # s => writer'[r] = writer[r]
  BY <1>1
<1>3. (UNCHANGED nextId => WriterComesLater') /\ (UNCHANGED tableVars => WriterComesLater')
  BY <1>1, <1>2 DEF WriterComesLater, tableVars
<1>4. ASSUME w # "handling", task' = [task EXCEPT ![s] = Nil] PROVE WriterOK'
  <2>1. /\ task' \in [Session -> InvokeTask \union {Nil}]
        /\ task'[s] = Nil /\ \A r \in Session : r # s => task'[r] = task[r]
    BY <1>1, <1>4
  <2>2. WriterHasTask'
    BY <1>1, <1>2, <1>4, <2>1 DEF WriterHasTask
  <2> QED
    BY <1>2, <2>1, <2>2 DEF WriterOK
<1>5. ASSUME w # "handling", writer[s] # "handling", UNCHANGED task PROVE WriterOK'
  <2>1. WriterHasTask'
    BY <1>1, <1>2, <1>5 DEF WriterHasTask
  <2> QED
    BY <1>1, <1>2, <1>5, <2>1 DEF WriterOK
<1> QED
  BY <1>3, <1>4, <1>5

\* Every action on a queue that takes or adds a task.
LEMMA PushType ==
  ASSUME TypeInv, NEW s \in Session, NEW t \in InvokeTask, Push(s, t), UNCHANGED queueShut
  PROVE  QueueOK'
<1>1. Append(queue[s], t) \in Seq(InvokeTask)
  BY TypeParts, AppendProperties DEF QueueOK
<1> QED
  BY <1>1, TypeParts DEF QueueOK, Push

LEMMA TakeTaskType ==
  ASSUME TypeInv, NEW s \in Session, queue[s] # <<>>, TakeTask(s)
  PROVE  /\ queue' \in [Session -> Seq(InvokeTask)]
         /\ writer' = [writer EXCEPT ![s] = "handling"]
         /\ WriterOK'
<1>1. /\ queue \in [Session -> Seq(InvokeTask)]
      /\ writer \in [Session -> {"none", "popping", "waiting", "handling", "done"}]
      /\ task \in [Session -> InvokeTask \union {Nil}] /\ WriterHasTask
  BY TypeParts DEF QueueOK, WriterOK
<1>2. Head(queue[s]) \in InvokeTask /\ Tail(queue[s]) \in Seq(InvokeTask)
  BY <1>1, HeadTailProperties
<1>3. /\ queue' \in [Session -> Seq(InvokeTask)]
      /\ task' \in [Session -> InvokeTask \union {Nil}]
      /\ writer' \in [Session -> {"none", "popping", "waiting", "handling", "done"}]
      /\ writer' = [writer EXCEPT ![s] = "handling"]
  BY <1>1, <1>2 DEF TakeTask, Rest
<1>4. WriterHasTask'
  BY <1>1, <1>2, NilIsNothingElse DEF TakeTask, WriterHasTask
<1> QED
  BY <1>3, <1>4 DEF WriterOK

LEMMA ShutType ==
  ASSUME TypeInv, NEW s \in Session, ShutQueue(s), UNCHANGED queue
  PROVE  QueueOK'
BY TypeParts DEF QueueOK, ShutQueue

\* One request less on the wire.
LEMMA ReadType ==
  ASSUME TypeInv, NEW s \in Session, inbound[s] # <<>>,
         inbound' = [inbound EXCEPT ![s] = Tail(@)], UNCHANGED <<stream, sent, outbound>>
  PROVE  Head(inbound[s]) \in Nat /\ NetOK'
<1>1. inbound[s] \in Seq(Nat)
  BY TypeParts DEF NetOK
<1>2. Head(inbound[s]) \in Nat /\ Tail(inbound[s]) \in Seq(Nat)
  BY <1>1, HeadTailProperties
<1> QED
  BY <1>2, TypeParts DEF NetOK

LEMMA RefuseType ==
  ASSUME TypeInv, NEW s \in Session, NEW id \in Nat, Refuse(s, id)
  PROVE  RefusedOK'
BY TypeParts DEF RefusedOK, Refuse

LEMMA AcceptorType ==
  ASSUME TypeInv, Run \/ Accept \/ FailAccept
  PROVE  TypeInv'
<1> USE TypeParts, PartsStay
<1>1. CASE Run
  <2>1. ListenOK'
    BY <1>1 DEF Run, ListenOK
  <2> QED
    BY <1>1, <2>1 DEF Run
<1>2. CASE Accept
  <2>1. nextId \in Session
    BY <1>2, BoundsAreNumbers DEF Accept, Session, TableOK
  <2>2. StopOK'
    BY <1>2, <2>1 DEF Accept, IdToAssign, StopOK
  <2>3. TableOK'
    BY <1>2, <2>1 DEF Accept, IdToAssign, TableOK
  <2>4. NetOK'
    BY <1>2, <2>1, EmptySeq DEF Accept, IdToAssign, NetOK
  <2>5. ReaderOK'
    BY <1>2, <2>1 DEF Accept, IdToAssign, ReaderOK
  <2>6. WriterOK' /\ WriterComesLater'
    <3>1. writer[nextId] = "none" /\ task[nextId] = Nil
      BY <2>1 DEF WriterComesLater, WriterOK, WriterHasTask, TableOK
    <3>2. writer' = [writer EXCEPT ![nextId] = "popping"] /\ task' = task /\ nextId' = nextId + 1
      BY <1>2 DEF Accept, IdToAssign
    <3>3. \A s \in Session : s \in Nat
      BY DEF Session
    <3>4. WriterOK'
      BY <2>1, <3>1, <3>2 DEF WriterOK, WriterHasTask
    <3>5. WriterComesLater'
      BY <2>1, <3>2, <3>3 DEF WriterOK, WriterComesLater
    <3> QED
      BY <3>4, <3>5
  <2> QED
    BY <1>2, <2>2, <2>3, <2>4, <2>5, <2>6 DEF Accept
<1>3. CASE FailAccept
  <2>1. ListenOK'
    BY <1>3 DEF FailAccept, ListenOK
  <2> QED
    BY <1>3, <2>1 DEF FailAccept
<1> QED
  BY <1>1, <1>2, <1>3

LEMMA ClientType ==
  ASSUME TypeInv, NEW s \in Session, Send(s) \/ HangUp(s)
  PROVE  TypeInv'
<1> USE TypeParts, PartsStay
<1>1. CASE Send(s)
  <2>1. sent[s] \in Nat /\ inbound[s] \in Seq(Nat)
    BY DEF NetOK
  <2>2. Append(inbound[s], sent[s] + 1) \in Seq(Nat)
    BY <2>1, AppendProperties
  <2>3. NetOK'
    BY <1>1, <2>1, <2>2 DEF Send, NetOK
  <2> QED
    BY <1>1, <2>3 DEF Send
<1>2. CASE HangUp(s)
  <2>1. PICK n \in 0..Len(inbound[s]) : inbound' = [inbound EXCEPT ![s] = SubSeq(@, 1, n)]
    BY <1>2 DEF HangUp
  <2>2. SubSeq(inbound[s], 1, n) \in Seq(Nat)
    BY PrefixElements DEF NetOK
  <2>3. NetOK'
    BY <1>2, <2>1, <2>2 DEF HangUp, NetOK
  <2> QED
    BY <1>2, <2>3 DEF HangUp
<1> QED
  BY <1>1, <1>2

LEMMA ReaderType ==
  ASSUME TypeInv, NEW s \in Session,
         Read(s) \/ PassOver(s) \/ ReadTooLarge(s) \/ FailRead(s) \/ RemoveByReader(s)
  PROVE  TypeInv'
<1> USE TypeParts, PartsStay
<1>1. CASE Read(s)
  <2>1. Head(inbound[s]) \in Nat /\ NetOK'
    BY <1>1, ReadType DEF Read
  <2>2. [id |-> Head(inbound[s]), isAnswer |-> FALSE] \in InvokeTask
    BY <2>1 DEF InvokeTask
  <2>3. QueueOK'
    BY <1>1, <2>2, PushType DEF Read
  <2> QED
    BY <1>1, <2>1, <2>3 DEF Read
<1>2. CASE PassOver(s)
  <2>1. Head(inbound[s]) \in Nat /\ NetOK'
    BY <1>2, ReadType DEF PassOver
  <2>2. RefusedOK'
    BY <1>2, <2>1, RefuseType DEF PassOver
  <2> QED
    BY <1>2, <2>1, <2>2 DEF PassOver
<1>3. CASE ReadTooLarge(s)
  <2>1. Head(inbound[s]) \in Nat /\ NetOK'
    BY <1>3, ReadType DEF ReadTooLarge
  <2>2. RefusedOK' /\ QueueOK'
    BY <1>3, <2>1, RefuseType, ShutType DEF ReadTooLarge, EndReading
  <2>3. ReaderOK'
    BY <1>3 DEF ReadTooLarge, EndReading, ReaderOK
  <2> QED
    BY <1>3, <2>1, <2>2, <2>3 DEF ReadTooLarge
<1>4. CASE FailRead(s)
  <2>1. QueueOK'
    BY <1>4, ShutType DEF FailRead, EndReading
  <2>2. ReaderOK'
    BY <1>4 DEF FailRead, EndReading, ReaderOK
  <2> QED
    BY <1>4, <2>1, <2>2 DEF FailRead
<1>5. CASE RemoveByReader(s)
  <2>1. TableOK' /\ ReaderOK'
    BY <1>5 DEF RemoveByReader, TableOK, ReaderOK
  <2> QED
    BY <1>5, <2>1 DEF RemoveByReader
<1> QED
  BY <1>1, <1>2, <1>3, <1>4, <1>5

LEMMA WriterTakesType ==
  ASSUME TypeInv, NEW s \in Session, Pop(s) \/ Wait(s) \/ Wake(s) \/ PopNothing(s)
  PROVE  TypeInv'
<1> USE TypeParts, PartsStay
<1>1. CASE Pop(s)
  <2>1. QueueOK' /\ WriterOK' /\ writer' = [writer EXCEPT ![s] = "handling"]
    BY <1>1, TakeTaskType DEF Pop, QueueOK
  <2>2. WriterComesLater'
    BY <1>1, <2>1, WriterMoves DEF Pop
  <2> QED
    BY <1>1, <2>1, <2>2 DEF Pop
<1>2. CASE Wait(s)
  <2>1. QueueOK'
    BY <1>2 DEF Wait, QueueOK
  <2>2. WriterOK' /\ WriterComesLater'
    BY <1>2, WriterMoves DEF Wait
  <2> QED
    BY <1>2, <2>1, <2>2 DEF Wait
<1>3. CASE Wake(s)
  <2>1. QueueOK' /\ WriterOK' /\ writer' = [writer EXCEPT ![s] = "handling"]
    BY <1>3, TakeTaskType DEF Wake, QueueOK
  <2>2. WriterComesLater'
    BY <1>3, <2>1, WriterMoves DEF Wake
  <2> QED
    BY <1>3, <2>1, <2>2 DEF Wake
<1>4. CASE PopNothing(s)
  <2>1. QueueOK' /\ TableOK'
    BY <1>4 DEF PopNothing, EndWriting, QueueOK, TableOK
  <2>2. WriterOK' /\ WriterComesLater'
    BY <1>4, WriterMoves DEF PopNothing, EndWriting
  <2> QED
    BY <1>4, <2>1, <2>2 DEF PopNothing
<1> QED
  BY <1>1, <1>2, <1>3, <1>4

LEMMA WriterHandlesType ==
  ASSUME TypeInv, NEW s \in Session,
         Respond(s) \/ FailRespond(s) \/ HandleInVain(s) \/ HandleLater(s)
  PROVE  TypeInv'
<1> USE TypeParts, PartsStay
<1>1. writer[s] = "handling"
  BY DEF Respond, FailRespond, HandleInVain, HandleLater
<1>2. task[s].id \in Nat
  BY <1>1 DEF WriterOK, WriterHasTask, InvokeTask
<1>3. CASE Respond(s)
  <2>1. Append(outbound[s], <<s, task[s].id>>) \in Seq(Session \X Nat)
    BY <1>2, AppendProperties DEF NetOK
  <2>2. NetOK'
    BY <1>3, <2>1 DEF Respond, NetOK
  <2>3. WriterOK' /\ WriterComesLater'
    BY <1>1, <1>3, WriterMoves DEF Respond, EndTask
  <2> QED
    BY <1>3, <2>2, <2>3 DEF Respond
<1>4. CASE FailRespond(s)
  <2>1. WriterOK' /\ WriterComesLater'
    BY <1>1, <1>4, WriterMoves DEF FailRespond, EndWriting
  <2>2. TableOK'
    BY <1>4 DEF FailRespond, EndWriting, TableOK
  <2> QED
    BY <1>4, <2>1, <2>2 DEF FailRespond
<1>5. CASE HandleInVain(s)
  <2>1. RefusedOK'
    BY <1>2, <1>5, RefuseType DEF HandleInVain
  <2>2. WriterOK' /\ WriterComesLater'
    BY <1>1, <1>5, WriterMoves DEF HandleInVain, EndTask
  <2> QED
    BY <1>5, <2>1, <2>2 DEF HandleInVain
<1>6. CASE HandleLater(s)
  <2>1. Append(waiting, [session |-> s, id |-> task[s].id]) \in Seq(ApplyTask)
    BY <1>2, AppendProperties DEF ApplyOK, ApplyTask
  <2>2. ApplyOK'
    BY <1>6, <2>1 DEF HandleLater, ApplyOK
  <2>3. WriterOK' /\ WriterComesLater'
    BY <1>1, <1>6, WriterMoves DEF HandleLater, EndTask
  <2> QED
    BY <1>6, <2>2, <2>3 DEF HandleLater
<1> QED
  BY <1>3, <1>4, <1>5, <1>6

LEMMA ApplyType ==
  ASSUME TypeInv, Apply
  PROVE  TypeInv'
<1> USE TypeParts, PartsStay
<1>1. CASE FindSession
  <2>1. Head(waiting) \in ApplyTask /\ Tail(waiting) \in Seq(ApplyTask)
    BY <1>1, HeadTailProperties DEF FindSession, ApplyOK
  <2>2. ApplyOK'
    BY <1>1, <2>1 DEF FindSession, ApplyOK
  <2> QED
    BY <1>1, <2>2 DEF FindSession
<1>2. CASE PushAnswer
  <2>1. applying.session \in Session /\ [id |-> applying.id, isAnswer |-> TRUE] \in InvokeTask
    BY <1>2 DEF PushAnswer, ApplyOK, ApplyTask, InvokeTask
  <2>2. QueueOK'
    BY <1>2, <2>1, PushType DEF PushAnswer
  <2>3. ApplyOK'
    BY <1>2 DEF PushAnswer, ApplyOK
  <2> QED
    BY <1>2, <2>2, <2>3 DEF PushAnswer
<1> QED
  BY <1>1, <1>2 DEF Apply

LEMMA StopType ==
  ASSUME TypeInv, StartShutdown \/ Stop
  PROVE  TypeInv'
<1> USE TypeParts, PartsStay
<1>1. CASE StartShutdown
  <2>1. StopOK'
    BY <1>1 DEF StartShutdown, StopOK
  <2> QED
    BY <1>1, <2>1 DEF StartShutdown
<1>2. ASSUME NEW s \in Session, CloseSession(s) PROVE TypeInv'
  <2>1. StopOK'
    BY <1>2 DEF CloseSession, StopOK
  <2> QED
    BY <1>2, <2>1 DEF CloseSession
<1>3. CASE FinishClose
  <2>1. walk \in Session
    BY <1>3 DEF FinishClose, StopOK
  <2>2. StopOK'
    BY <1>3, <2>1 DEF FinishClose, StopOK
  <2>3. NetOK'
    BY <1>3, <2>1, EmptySeq DEF FinishClose, NetOK
  <2> QED
    BY <1>3, <2>2, <2>3 DEF FinishClose
<1>4. CASE ClearSessions
  <2>1. StopOK' /\ TableOK'
    BY <1>4 DEF ClearSessions, StopOK, TableOK
  <2> QED
    BY <1>4, <2>1 DEF ClearSessions
<1>5. CASE CloseListener
  <2>1. ListenOK' /\ StopOK'
    BY <1>5 DEF CloseListener, ListenOK, StopOK
  <2> QED
    BY <1>5, <2>1 DEF CloseListener
<1> QED
  BY <1>1, <1>2, <1>3, <1>4, <1>5 DEF Stop

LEMMA NextType == TypeInv /\ [Next]_vars => TypeInv'
<1> SUFFICES ASSUME TypeInv, [Next]_vars PROVE TypeInv'
  OBVIOUS
<1>1. CASE UNCHANGED vars
  BY <1>1, TypeParts, PartsStay DEF vars
<1>2. CASE Next
  BY <1>2, AcceptorType, ClientType, ReaderType, WriterTakesType, WriterHandlesType, ApplyType,
     StopType DEF Next, ReaderStep, WriterStep
<1> QED
  BY <1>1, <1>2

\* Every variable is what the program can hold; above all, the writer handles a task it has.
THEOREM TypeCorrect == Spec => []TypeOK
<1>1. TypeInv => TypeOK
  BY DEF TypeInv
<1> QED
  BY <1>1, InitType, NextType, PTL DEF Spec

-----------------------------------------------------------------------------
(* Where a request is. *)

Station == {"wire", "queue", "writer", "commit", "apply", "client", "refused"}

Ids(tasks) == [n \in DOMAIN tasks |-> tasks[n].id]

IsAt(p, s, id) ==
  \/ p = "wire" /\ id \in ToSet(inbound[s])
  \/ p = "queue" /\ id \in ToSet(Ids(queue[s]))
  \/ p = "writer" /\ task[s] # Nil /\ id = task[s].id
  \/ p = "commit" /\ [session |-> s, id |-> id] \in ToSet(waiting)
  \/ p = "apply" /\ applying = [session |-> s, id |-> id]
  \/ p = "client" /\ <<s, id>> \in ToSet(outbound[s])
  \/ p = "refused" /\ <<s, id>> \in refused

Apart ==
  \A s \in Session, id \in Nat, p, q \in Station : IsAt(p, s, id) /\ IsAt(q, s, id) => p = q

\* A request that is anywhere was sent over its connection.
WasSent ==
  \A s \in Session, id \in Nat, p \in Station : IsAt(p, s, id) => id \in 1..sent[s]

\* No station has a request twice.
Distinct ==
  /\ \A s \in Session :
       IsInjective(inbound[s]) /\ IsInjective(Ids(queue[s])) /\ IsInjective(outbound[s])
  /\ IsInjective(waiting)

AnswersStay == \A s \in Session : outbound[s] \in Seq({s} \X Nat)

\* Nothing has happened to a connection that is not accepted yet.
AcceptedInOrder ==
  /\ \A s \in Session : s >= nextId => stream[s] = "none" /\ sent[s] = 0
  /\ \A s \in sessions : s < nextId
  /\ walk # Nil => walk < nextId

Placed == Apart /\ WasSent /\ Distinct /\ AnswersStay

PlaceInv == TypeInv /\ Placed /\ AcceptedInOrder

LEMMA IdsProperties ==
  ASSUME NEW q \in Seq(InvokeTask)
  PROVE  /\ Ids(q) \in Seq(Nat)
         /\ \A t \in InvokeTask : Ids(Append(q, t)) = Append(Ids(q), t.id)
         /\ q # <<>> => /\ Ids(Tail(q)) = Tail(Ids(q))
                        /\ Head(q).id = Head(Ids(q))
                        /\ Ids(q) # <<>>
<1>1. /\ DOMAIN q = 1..Len(q) /\ Len(q) \in Nat
      /\ \A n \in 1..Len(q) : q[n] \in InvokeTask /\ q[n].id \in Nat
  <2>1. DOMAIN q = 1..Len(q) /\ Len(q) \in Nat
    BY LenProperties
  <2>2. \A n \in 1..Len(q) : q[n] \in InvokeTask
    BY ElementOfSeq
  <2>3. \A t \in InvokeTask : t.id \in Nat
    BY DEF InvokeTask
  <2> QED
    BY <2>1, <2>2, <2>3
<1>2. Ids(q) \in Seq(Nat) /\ Len(Ids(q)) = Len(q)
  <2>1. Ids(q) \in [1..Len(q) -> Nat]
    BY <1>1 DEF Ids
  <2>2. Ids(q) \in Seq(Nat)
    BY <1>1, <2>1, SeqDef
  <2> QED
    BY <1>1, <2>1, <2>2, LenProperties
<1>3. ASSUME NEW t \in InvokeTask PROVE Ids(Append(q, t)) = Append(Ids(q), t.id)
  <2>1. t.id \in Nat
    BY DEF InvokeTask
  <2>2. /\ Append(q, t) \in Seq(InvokeTask) /\ Len(Append(q, t)) = Len(q) + 1
        /\ \A n \in 1..Len(q) : Append(q, t)[n] = q[n]
        /\ Append(q, t)[Len(q) + 1] = t
        /\ DOMAIN Append(q, t) = 1..(Len(q) + 1)
    BY AppendProperties, LenProperties
  <2>3. /\ DOMAIN Append(Ids(q), t.id) = 1..(Len(q) + 1)
        /\ \A n \in 1..Len(q) : Append(Ids(q), t.id)[n] = q[n].id
        /\ Append(Ids(q), t.id)[Len(q) + 1] = t.id
    BY <1>1, <1>2, <2>1, AppendProperties, LenProperties DEF Ids
  <2>4. \A n \in 1..(Len(q) + 1) : Append(q, t)[n].id = Append(Ids(q), t.id)[n]
    <3>1. \A n \in 1..(Len(q) + 1) : n \in 1..Len(q) \/ n = Len(q) + 1
      BY <1>1
    <3> QED
      BY <2>2, <2>3, <3>1
  <2>5. Append(Ids(q), t.id) \in Seq(Nat)
    BY <1>2, <2>1, AppendProperties
  <2>6. Ids(Append(q, t)) = [n \in 1..(Len(q) + 1) |-> Append(Ids(q), t.id)[n]]
    BY <2>2, <2>4 DEF Ids
  <2>7. Append(Ids(q), t.id) = [n \in 1..(Len(q) + 1) |-> Append(Ids(q), t.id)[n]]
    BY <2>3, <2>5, SequenceIsItsElements
  <2> QED
    BY <2>6, <2>7
<1>4. ASSUME q # <<>>
      PROVE  Ids(Tail(q)) = Tail(Ids(q)) /\ Head(q).id = Head(Ids(q)) /\ Ids(q) # <<>>
  <2>1. Len(q) \in Nat \ {0} /\ Ids(q) # <<>>
    BY <1>1, <1>2, <1>4, EmptySeq
  <2>2. /\ Tail(q) \in Seq(InvokeTask) /\ Len(Tail(q)) = Len(q) - 1
        /\ \A n \in 1..(Len(q) - 1) : Tail(q)[n] = q[n + 1]
        /\ DOMAIN Tail(q) = 1..(Len(q) - 1)
    BY <1>4, <2>1, HeadTailProperties, LenProperties
  <2>3. /\ Tail(Ids(q)) \in Seq(Nat) /\ DOMAIN Tail(Ids(q)) = 1..(Len(q) - 1)
        /\ \A n \in 1..(Len(q) - 1) : Tail(Ids(q))[n] = Ids(q)[n + 1]
    BY <1>2, <2>1, HeadTailProperties, LenProperties
  <2>4. \A n \in 1..(Len(q) - 1) : Tail(q)[n].id = Tail(Ids(q))[n]
    BY <1>1, <2>1, <2>2, <2>3 DEF Ids
  <2>5. Ids(Tail(q)) = [n \in 1..(Len(q) - 1) |-> Tail(Ids(q))[n]]
    BY <2>2, <2>4 DEF Ids
  <2>6. Tail(Ids(q)) = [n \in 1..(Len(q) - 1) |-> Tail(Ids(q))[n]]
    BY <2>3, SequenceIsItsElements
  <2>7. Head(q).id = Head(Ids(q))
    BY <1>1, <2>1, <1>2 DEF Ids
  <2> QED
    BY <2>1, <2>5, <2>6, <2>7
<1> QED
  BY <1>2, <1>3, <1>4

\* What only loses requests keeps them apart.
LEMMA LossKeeps ==
  ASSUME Apart, WasSent, sent \in [Session -> Nat], sent' \in [Session -> Nat],
         \A s \in Session : sent[s] <= sent'[s],
         \A s \in Session, id \in Nat, p \in Station : IsAt(p, s, id)' => IsAt(p, s, id)
  PROVE  Apart' /\ WasSent'
BY DEF Apart, WasSent

\* A request that was not there before may turn up at one station.
LEMMA ArrivalKeeps ==
  ASSUME Apart, WasSent, sent \in [Session -> Nat], sent' \in [Session -> Nat],
         \A r \in Session : sent[r] <= sent'[r],
         NEW s \in Session, NEW id \in Nat, NEW to \in Station,
         id \in 1..sent'[s],
         \A r \in Session, n \in Nat, p \in Station :
           IsAt(p, r, n)' => IsAt(p, r, n) \/ (r = s /\ n = id /\ p = to),
         \A p \in Station : IsAt(p, s, id)' => p = to
  PROVE  Apart' /\ WasSent'
<1>1. Apart'
  <2> SUFFICES ASSUME NEW r \in Session, NEW n \in Nat, NEW p \in Station, NEW q \in Station,
                      IsAt(p, r, n)', IsAt(q, r, n)'
               PROVE  p = q
    BY DEF Apart
  <2> QED
    BY DEF Apart
<1>2. WasSent'
  <2> SUFFICES ASSUME NEW r \in Session, NEW n \in Nat, NEW p \in Station, IsAt(p, r, n)'
               PROVE  n \in 1..sent'[r]
    BY DEF WasSent
  <2> QED
    BY DEF WasSent
<1> QED
  BY <1>1, <1>2

\* A request may go from one station to another.
LEMMA MoveKeeps ==
  ASSUME Apart, WasSent, sent \in [Session -> Nat], sent' = sent,
         NEW s \in Session, NEW id \in Nat, NEW from \in Station, NEW to \in Station,
         IsAt(from, s, id), from # to => ~IsAt(from, s, id)',
         \A r \in Session, n \in Nat, p \in Station :
           IsAt(p, r, n)' => IsAt(p, r, n) \/ (r = s /\ n = id /\ p = to)
  PROVE  Apart' /\ WasSent'
<1>1. id \in 1..sent'[s]
  BY DEF WasSent
<1>2. \A p \in Station : IsAt(p, s, id)' => p = to
  BY DEF Apart
<1> QED
  BY <1>1, <1>2, ArrivalKeeps

LEMMA InitPlaces == Init => PlaceInv
<1> SUFFICES ASSUME Init PROVE PlaceInv
  OBVIOUS
<1>1. \A s \in Session, id \in Nat, p \in Station : ~IsAt(p, s, id)
  BY NilIsNothingElse DEF Init, IsAt, ToSet, Ids, ApplyTask
<1>2. Distinct
  BY DEF Init, Distinct, IsInjective, Ids
<1>3. AnswersStay
  BY EmptySeq DEF Init, AnswersStay
<1>4. AcceptedInOrder
  BY DEF Init, AcceptedInOrder
<1> QED
  BY <1>1, <1>2, <1>3, <1>4, InitType DEF PlaceInv, Placed, Apart, WasSent

\* What an action leaves alone: the requests at all stations, and that they are distinct.
LEMMA PlacesStand ==
  ASSUME PlaceInv,
         inbound' = inbound, queue' = queue, task' = task, waiting' = waiting,
         applying' = applying, outbound' = outbound, refused' = refused, sent' = sent
  PROVE  Placed'
<1>1. \A s \in Session, id \in Nat, p \in Station : IsAt(p, s, id)' <=> IsAt(p, s, id)
  BY DEF IsAt
<1> QED
  BY <1>1 DEF PlaceInv, Placed, Apart, WasSent, Distinct, AnswersStay

LEMMA OrderKeeps ==
  ASSUME PlaceInv, [Next]_vars
  PROVE  AcceptedInOrder'
<1> USE DEF PlaceInv, TypeInv, TypeOK, AcceptedInOrder
<1>1. nextId \in Nat /\ \A s \in Session : s \in Nat
  BY DEF Session
<1>2. CASE UNCHANGED vars
  BY <1>2 DEF vars, stopVars, tableVars, netVars
<1>3. CASE Run \/ FailAccept
  BY <1>3 DEF Run, FailAccept, stopVars, tableVars, netVars
<1>4. CASE Accept
  <2>1. nextId \in Session
    BY <1>4, BoundsAreNumbers DEF Accept, Session
  <2>2. \A s \in Session : s >= nextId' => s # nextId /\ s >= nextId
    BY <1>1, <1>4 DEF Accept, IdToAssign
  <2>3. \A s \in Session : s >= nextId' => stream'[s] = stream[s] /\ sent'[s] = sent[s]
    BY <1>4, <2>1, <2>2 DEF Accept, IdToAssign
  <2>4. \A s \in sessions' : s < nextId'
    BY <1>1, <1>4, <2>1 DEF Accept, IdToAssign
  <2>5. walk' # Nil => walk' < nextId'
    BY <1>1, <1>4 DEF Accept, IdToAssign
  <2>6. \A s \in Session : s >= nextId' => stream'[s] = "none" /\ sent'[s] = 0
    BY <2>2, <2>3
  <2> QED
    BY <2>4, <2>5, <2>6
<1>5. ASSUME NEW s \in Session, Send(s) \/ HangUp(s)
      PROVE  AcceptedInOrder'
  BY <1>1, <1>5 DEF Send, HangUp, stopVars, tableVars
<1>6. ASSUME NEW s \in Session, ReaderStep(s) \/ FailRead(s) \/ PassOver(s) \/ ReadTooLarge(s)
      PROVE  AcceptedInOrder'
  BY <1>6 DEF ReaderStep, Read, RemoveByReader, FailRead, PassOver, ReadTooLarge, stopVars,
     tableVars, netVars
<1>7. ASSUME NEW s \in Session, Pop(s) \/ Wait(s) \/ Wake(s) \/ PopNothing(s)
      PROVE  AcceptedInOrder'
  BY <1>7 DEF Pop, Wait, Wake, PopNothing, EndWriting, stopVars, tableVars, netVars
<1>8. ASSUME NEW s \in Session, Respond(s) \/ FailRespond(s) \/ HandleLater(s) \/ HandleInVain(s)
      PROVE  AcceptedInOrder'
  BY <1>8 DEF Respond, FailRespond, HandleLater, HandleInVain, EndWriting, stopVars, tableVars,
     netVars
<1>9. CASE Apply \/ StartShutdown
  BY <1>9 DEF Apply, FindSession, PushAnswer, StartShutdown, stopVars, tableVars, netVars
<1>10. CASE Stop
  <2>1. ASSUME NEW s \in Session, CloseSession(s) PROVE AcceptedInOrder'
    BY <2>1 DEF CloseSession, tableVars, netVars
  <2>2. CASE FinishClose
    BY <1>1, <2>2 DEF FinishClose, tableVars
  <2>3. CASE ClearSessions \/ CloseListener
    BY <2>3 DEF ClearSessions, CloseListener, tableVars, netVars
  <2> QED
    BY <1>10, <2>1, <2>2, <2>3 DEF Stop
<1> QED
  BY <1>2, <1>3, <1>4, <1>5, <1>6, <1>7, <1>8, <1>9, <1>10 DEF Next, WriterStep

\* What is taken off the connection is its first request.
LEMMA TakeFromWire ==
  ASSUME PlaceInv, NEW s \in Session, NEW id, inbound[s] # <<>>, id = Head(inbound[s]),
         inbound' = [inbound EXCEPT ![s] = Tail(@)]
  PROVE  /\ id \in Nat
         /\ IsAt("wire", s, id) /\ ~IsAt("wire", s, id)'
         /\ \A r \in Session, n \in Nat : IsAt("wire", r, n)' => IsAt("wire", r, n)
         /\ \A r \in Session : IsInjective(inbound'[r])
<1>1. inbound \in [Session -> Seq(Nat)] /\ \A r \in Session : IsInjective(inbound[r])
  BY DEF PlaceInv, Placed, Distinct, TypeInv, TypeOK
<1>2. /\ id \in Nat /\ id \in ToSet(inbound[s])
      /\ ToSet(Tail(inbound[s])) \subseteq ToSet(inbound[s])
      /\ IsInjective(Tail(inbound[s])) /\ id \notin ToSet(Tail(inbound[s]))
  BY <1>1, TailElements
<1>3. inbound'[s] = Tail(inbound[s]) /\ \A r \in Session \ {s} : inbound'[r] = inbound[r]
  BY <1>1
<1>4. IsAt("wire", s, id) /\ ~IsAt("wire", s, id)'
  BY <1>2, <1>3 DEF IsAt
<1>5. ASSUME NEW r \in Session, NEW n \in Nat, IsAt("wire", r, n)' PROVE IsAt("wire", r, n)
  <2>1. n \in ToSet(inbound'[r])
    BY <1>5 DEF IsAt
  <2>2. n \in ToSet(inbound[r])
    BY <1>2, <1>3, <2>1
  <2> QED
    BY <2>2 DEF IsAt
<1>6. \A r \in Session : IsInjective(inbound'[r])
  BY <1>1, <1>2, <1>3
<1> QED
  BY <1>2, <1>4, <1>5, <1>6

\* What is pushed is a request that was not in the queue.
LEMMA PushOntoQueue ==
  ASSUME PlaceInv, NEW s \in Session, NEW t \in InvokeTask, ~IsAt("queue", s, t.id), Push(s, t)
  PROVE  /\ \A r \in Session, n \in Nat :
              IsAt("queue", r, n)' => IsAt("queue", r, n) \/ (r = s /\ n = t.id)
         /\ \A r \in Session : IsInjective(Ids(queue'[r]))
<1>1. queue \in [Session -> Seq(InvokeTask)] /\ \A r \in Session : IsInjective(Ids(queue[r]))
  BY DEF PlaceInv, Placed, Distinct, TypeInv, TypeOK
<1>2. t.id \in Nat /\ t.id \notin ToSet(Ids(queue[s]))
  BY DEF InvokeTask, IsAt
<1>3. Ids(queue[s]) \in Seq(Nat) /\ Ids(Append(queue[s], t)) = Append(Ids(queue[s]), t.id)
  BY <1>1, IdsProperties
<1>4. /\ ToSet(Append(Ids(queue[s]), t.id)) = ToSet(Ids(queue[s])) \union {t.id}
      /\ IsInjective(Append(Ids(queue[s]), t.id))
  BY <1>1, <1>2, <1>3, AppendElements, AppendDistinct
<1>5. queue'[s] = Append(queue[s], t) /\ \A r \in Session \ {s} : queue'[r] = queue[r]
  BY <1>1 DEF Push
<1> QED
  BY <1>1, <1>3, <1>4, <1>5 DEF IsAt

LEMMA TakeFromQueue ==
  ASSUME PlaceInv, NEW s \in Session, NEW id, queue[s] # <<>>, id = Head(queue[s]).id,
         TakeTask(s)
  PROVE  /\ id \in Nat
         /\ IsAt("queue", s, id) /\ ~IsAt("queue", s, id)'
         /\ \A r \in Session, n \in Nat : IsAt("queue", r, n)' => IsAt("queue", r, n)
         /\ \A r \in Session, n \in Nat :
              IsAt("writer", r, n)' => IsAt("writer", r, n) \/ (r = s /\ n = id)
         /\ \A r \in Session : IsInjective(Ids(queue'[r]))
<1>1. queue \in [Session -> Seq(InvokeTask)] /\ \A r \in Session : IsInjective(Ids(queue[r]))
  BY DEF PlaceInv, Placed, Distinct, TypeInv, TypeOK
<1>2. /\ Ids(queue[s]) \in Seq(Nat) /\ Ids(Tail(queue[s])) = Tail(Ids(queue[s]))
      /\ id = Head(Ids(queue[s])) /\ Ids(queue[s]) # <<>>
  BY <1>1, IdsProperties
<1> DEFINE ids == Ids(queue[s])
<1>3. /\ id \in Nat /\ id \in ToSet(ids)
      /\ ToSet(Tail(ids)) \subseteq ToSet(ids)
      /\ IsInjective(Tail(ids)) /\ id \notin ToSet(Tail(ids))
  BY <1>1, <1>2, TailElements
<1>4. queue'[s] = Tail(queue[s]) /\ \A r \in Session \ {s} : queue'[r] = queue[r]
  BY <1>1 DEF TakeTask, Rest
<1>5. \A r \in Session : task'[r] = IF r = s THEN Head(queue[s]) ELSE task[r]
  BY DEF TakeTask, PlaceInv, TypeInv, TypeOK
<1>6. \A r \in Session, n \in Nat :
        IsAt("writer", r, n)' => IsAt("writer", r, n) \/ (r = s /\ n = id)
  BY <1>5 DEF IsAt
<1>7. IsAt("queue", s, id) /\ ~IsAt("queue", s, id)'
  BY <1>2, <1>3, <1>4 DEF IsAt
<1>8. \A r \in Session, n \in Nat : IsAt("queue", r, n)' => IsAt("queue", r, n)
  BY <1>2, <1>3, <1>4 DEF IsAt
<1>9. \A r \in Session : IsInjective(Ids(queue'[r]))
  BY <1>1, <1>2, <1>3, <1>4
<1> QED
  BY <1>2, <1>3, <1>6, <1>7, <1>8, <1>9

LEMMA ClientPlaces ==
  ASSUME PlaceInv, NEW s \in Session, Send(s) \/ HangUp(s)
  PROVE  Placed'
<1>1. /\ inbound \in [Session -> Seq(Nat)] /\ \A r \in Session : IsInjective(inbound[r])
      /\ sent \in [Session -> Nat]
  BY DEF PlaceInv, Placed, Distinct, TypeInv, TypeOK
<1>2. /\ queue' = queue /\ task' = task /\ waiting' = waiting /\ applying' = applying
      /\ outbound' = outbound /\ refused' = refused
  BY DEF Send, HangUp, queueVars, writerVars, applyVars
<1>3. CASE Send(s)
  <2>1. PICK id \in Nat : id = sent[s] + 1
    BY <1>1
  <2>2. id \notin ToSet(inbound[s]) /\ \A p \in Station : ~IsAt(p, s, id)
    <3>1. \A p \in Station : ~IsAt(p, s, id)
      BY <1>1, <2>1 DEF PlaceInv, Placed, WasSent
    <3> QED
      BY <3>1 DEF IsAt, Station
  <2>3. /\ ToSet(Append(inbound[s], id)) = ToSet(inbound[s]) \union {id}
        /\ IsInjective(Append(inbound[s], id))
    BY <1>1, <2>1, <2>2, AppendElements, AppendDistinct
  <2>4. /\ inbound' = [inbound EXCEPT ![s] = Append(@, id)]
        /\ sent' = [sent EXCEPT ![s] = @ + 1]
    BY <1>3, <2>1 DEF Send
  <2>5. \A r \in Session, n \in Nat, p \in Station :
          IsAt(p, r, n)' => IsAt(p, r, n) \/ (r = s /\ n = id /\ p = "wire")
    <3>1. \A r \in Session : ToSet(inbound'[r]) =
            ToSet(inbound[r]) \union (IF r = s THEN {id} ELSE {})
      BY <1>1, <2>3, <2>4
    <3> QED
      BY <1>2, <3>1 DEF IsAt
  <2>6. /\ sent' \in [Session -> Nat] /\ \A r \in Session : sent[r] <= sent'[r]
        /\ id \in 1..sent'[s]
    BY <1>1, <2>1, <2>4
  <2>7. \A p \in Station : IsAt(p, s, id)' => p = "wire"
    BY <2>1, <2>2, <2>5
  <2>8. Apart' /\ WasSent'
    BY <1>1, <2>1, <2>5, <2>6, <2>7, ArrivalKeeps DEF PlaceInv, Placed, Station
  <2>9. \A r \in Session : IsInjective(inbound'[r])
    BY <1>1, <2>3, <2>4
  <2> QED
    BY <1>2, <2>8, <2>9 DEF PlaceInv, Placed, Distinct, AnswersStay
<1>4. CASE HangUp(s)
  <2>1. PICK n \in 0..Len(inbound[s]) : inbound' = [inbound EXCEPT ![s] = SubSeq(@, 1, n)]
    BY <1>4 DEF HangUp
  <2>2. /\ ToSet(SubSeq(inbound[s], 1, n)) \subseteq ToSet(inbound[s])
        /\ IsInjective(SubSeq(inbound[s], 1, n))
    BY <1>1, PrefixElements
  <2>3. \A r \in Session : ToSet(inbound'[r]) \subseteq ToSet(inbound[r])
    BY <1>1, <2>1, <2>2
  <2>4. \A r \in Session, id \in Nat, p \in Station : IsAt(p, r, id)' => IsAt(p, r, id)
    BY <1>2, <2>3 DEF IsAt
  <2>5. sent' = sent
    BY <1>4 DEF HangUp
  <2>6. Apart' /\ WasSent'
    BY <1>1, <2>4, <2>5, LossKeeps DEF PlaceInv, Placed
  <2>7. \A r \in Session : IsInjective(inbound'[r])
    BY <1>1, <2>1, <2>2
  <2> QED
    BY <1>2, <2>6, <2>7 DEF PlaceInv, Placed, Distinct, AnswersStay
<1> QED
  BY <1>3, <1>4

\* A request is refused that the reader has taken off the connection.
LEMMA RefuseFromWire ==
  ASSUME PlaceInv, NEW s \in Session, inbound[s] # <<>>, Refuse(s, Head(inbound[s])),
         inbound' = [inbound EXCEPT ![s] = Tail(@)],
         UNCHANGED <<sent, outbound, queue, task, waiting, applying>>
  PROVE  Placed'
<1>1. PICK id : id = Head(inbound[s])
  OBVIOUS
<1>2. /\ id \in Nat
      /\ IsAt("wire", s, id) /\ ~IsAt("wire", s, id)'
      /\ \A r \in Session, n \in Nat : IsAt("wire", r, n)' => IsAt("wire", r, n)
      /\ \A r \in Session : IsInjective(inbound'[r])
  BY <1>1, TakeFromWire
<1>3. ASSUME NEW r \in Session, NEW n \in Nat, NEW p \in Station, IsAt(p, r, n)'
      PROVE  IsAt(p, r, n) \/ (r = s /\ n = id /\ p = "refused")
  <2>1. CASE p = "wire"
    BY <1>2, <1>3, <2>1
  <2>2. CASE p = "refused"
    BY <1>1, <1>3, <2>2 DEF IsAt, Refuse
  <2>3. CASE p \notin {"wire", "refused"}
    BY <1>3, <2>3 DEF IsAt
  <2> QED
    BY <2>1, <2>2, <2>3
<1>4. Apart' /\ WasSent'
  BY <1>2, <1>3, MoveKeeps DEF PlaceInv, Placed, TypeInv, TypeOK, Station
<1> QED
  BY <1>2, <1>4 DEF PlaceInv, Placed, Distinct, AnswersStay

LEMMA ReadPlaces ==
  ASSUME PlaceInv, NEW s \in Session, Read(s)
  PROVE  Placed'
<1>1. PICK id : id = Head(inbound[s])
  OBVIOUS
<1>2. /\ id \in Nat
      /\ IsAt("wire", s, id) /\ ~IsAt("wire", s, id)'
      /\ \A r \in Session, n \in Nat : IsAt("wire", r, n)' => IsAt("wire", r, n)
      /\ \A r \in Session : IsInjective(inbound'[r])
  BY <1>1, TakeFromWire DEF Read
<1>3. PICK t \in InvokeTask : t = [id |-> id, isAnswer |-> FALSE]
  BY <1>2 DEF InvokeTask
<1>4. ~IsAt("queue", s, id)
  BY <1>2 DEF PlaceInv, Placed, Apart, Station
<1>5. /\ \A r \in Session, n \in Nat :
           IsAt("queue", r, n)' => IsAt("queue", r, n) \/ (r = s /\ n = id)
      /\ \A r \in Session : IsInjective(Ids(queue'[r]))
  <2>1. t.id = id /\ Push(s, t)
    BY <1>1, <1>3 DEF Read
  <2> QED
    BY <1>4, <2>1, PushOntoQueue
<1>6. UNCHANGED <<sent, outbound, task, waiting, applying, refused>>
  BY DEF Read, writerVars, applyVars
<1>7. ASSUME NEW r \in Session, NEW n \in Nat, NEW p \in Station, IsAt(p, r, n)'
      PROVE  IsAt(p, r, n) \/ (r = s /\ n = id /\ p = "queue")
  <2>1. CASE p = "wire" \/ p = "queue"
    BY <1>2, <1>5, <1>7, <2>1
  <2>2. CASE p \notin {"wire", "queue"}
    BY <1>6, <1>7, <2>2 DEF IsAt
  <2> QED
    BY <2>1, <2>2
<1>8. Apart' /\ WasSent'
  BY <1>2, <1>6, <1>7, MoveKeeps DEF PlaceInv, Placed, TypeInv, TypeOK, Station
<1> QED
  BY <1>2, <1>5, <1>6, <1>8 DEF PlaceInv, Placed, Distinct, AnswersStay

LEMMA ReaderPlaces ==
  ASSUME PlaceInv, NEW s \in Session,
         ReaderStep(s) \/ FailRead(s) \/ PassOver(s) \/ ReadTooLarge(s)
  PROVE  Placed'
<1>1. CASE Read(s)
  BY <1>1, ReadPlaces
<1>2. CASE RemoveByReader(s) \/ FailRead(s)
  BY <1>2, PlacesStand DEF RemoveByReader, FailRead, netVars, queueVars, writerVars, applyVars
<1>3. CASE PassOver(s)
  BY <1>3, RefuseFromWire DEF PassOver, queueVars, writerVars, applyVars
<1>4. CASE ReadTooLarge(s)
  BY <1>4, RefuseFromWire DEF ReadTooLarge, writerVars, applyVars
<1> QED
  BY <1>1, <1>2, <1>3, <1>4 DEF ReaderStep

LEMMA WriterTakesPlaces ==
  ASSUME PlaceInv, NEW s \in Session, Pop(s) \/ Wait(s) \/ Wake(s) \/ PopNothing(s)
  PROVE  Placed'
<1>1. CASE Pop(s) \/ Wake(s)
  <2>1. /\ queue[s] # <<>> /\ TakeTask(s)
        /\ UNCHANGED <<sent, inbound, outbound, waiting, applying, refused>>
    BY <1>1 DEF Pop, Wake, netVars, applyVars
  <2>2. PICK id : id = Head(queue[s]).id
    OBVIOUS
  <2>3. /\ id \in Nat
        /\ IsAt("queue", s, id) /\ ~IsAt("queue", s, id)'
        /\ \A r \in Session, n \in Nat : IsAt("queue", r, n)' => IsAt("queue", r, n)
        /\ \A r \in Session, n \in Nat :
             IsAt("writer", r, n)' => IsAt("writer", r, n) \/ (r = s /\ n = id)
        /\ \A r \in Session : IsInjective(Ids(queue'[r]))
    BY <2>1, <2>2, TakeFromQueue
  <2>4. ASSUME NEW r \in Session, NEW n \in Nat, NEW p \in Station, IsAt(p, r, n)'
        PROVE  IsAt(p, r, n) \/ (r = s /\ n = id /\ p = "writer")
    <3>1. CASE p = "queue" \/ p = "writer"
      BY <2>3, <2>4, <3>1
    <3>2. CASE p \notin {"queue", "writer"}
      BY <2>1, <2>4, <3>2 DEF IsAt
    <3> QED
      BY <3>1, <3>2
  <2>5. Apart' /\ WasSent'
    BY <2>1, <2>3, <2>4, MoveKeeps DEF PlaceInv, Placed, TypeInv, TypeOK, Station
  <2> QED
    BY <2>1, <2>3, <2>5 DEF PlaceInv, Placed, Distinct, AnswersStay
<1>2. CASE Wait(s) \/ PopNothing(s)
  BY <1>2, PlacesStand DEF Wait, PopNothing, EndWriting, netVars, applyVars
<1> QED
  BY <1>1, <1>2

\* The writer has handled its task: the request is at no station, or at a later one.
LEMMA TaskEnds ==
  ASSUME PlaceInv, NEW s \in Session, NEW id, writer[s] = "handling", id = task[s].id,
         task' = [task EXCEPT ![s] = Nil]
  PROVE  /\ id \in Nat /\ IsAt("writer", s, id) /\ ~IsAt("writer", s, id)'
         /\ \A p \in Station \ {"writer"} : ~IsAt(p, s, id)
         /\ \A r \in Session, n \in Nat : IsAt("writer", r, n)' => IsAt("writer", r, n)
<1>1. task[s] # Nil /\ task[s] \in InvokeTask /\ id \in Nat
  BY DEF PlaceInv, TypeInv, TypeOK, WriterHasTask, InvokeTask
<1>2. \A r \in Session : task'[r] = IF r = s THEN Nil ELSE task[r]
  BY DEF PlaceInv, TypeInv, TypeOK
<1>3. IsAt("writer", s, id) /\ ~IsAt("writer", s, id)'
  BY <1>1, <1>2 DEF IsAt
<1>4. \A p \in Station \ {"writer"} : ~IsAt(p, s, id)
  BY <1>1, <1>3 DEF PlaceInv, Placed, Apart, Station
<1> QED
  BY <1>1, <1>2, <1>3, <1>4 DEF IsAt

LEMMA RespondPlaces ==
  ASSUME PlaceInv, NEW s \in Session, Respond(s)
  PROVE  Placed'
<1>1. PICK id : id = task[s].id
  OBVIOUS
<1>2. /\ id \in Nat /\ IsAt("writer", s, id) /\ ~IsAt("writer", s, id)'
      /\ \A p \in Station \ {"writer"} : ~IsAt(p, s, id)
      /\ \A r \in Session, n \in Nat : IsAt("writer", r, n)' => IsAt("writer", r, n)
  BY <1>1, TaskEnds DEF Respond, EndTask
<1>3. UNCHANGED <<sent, inbound, queue, waiting, applying, refused>>
  BY DEF Respond, queueVars, applyVars
<1>4. /\ \A r \in Session : outbound[r] \in Seq({r} \X Nat) /\ IsInjective(outbound[r])
      /\ outbound \in [Session -> Seq(Session \X Nat)]
  BY DEF PlaceInv, Placed, AnswersStay, Distinct, TypeInv, TypeOK
<1>5. <<s, id>> \notin ToSet(outbound[s])
  BY <1>2 DEF IsAt, Station
<1>6. /\ Append(outbound[s], <<s, id>>) \in Seq({s} \X Nat)
      /\ ToSet(Append(outbound[s], <<s, id>>)) = ToSet(outbound[s]) \union {<<s, id>>}
      /\ IsInjective(Append(outbound[s], <<s, id>>))
  <2> DEFINE answers == outbound[s]
             answer == <<s, id>>
             Answer == {s} \X Nat
  <2>1. answer \in Answer /\ answers \in Seq(Answer) /\ IsInjective(answers)
    BY <1>2, <1>4
  <2>2. answer \notin ToSet(answers)
    BY <1>5
  <2> HIDE DEF answers, answer, Answer
  <2>3. /\ Append(answers, answer) \in Seq(Answer)
        /\ ToSet(Append(answers, answer)) = ToSet(answers) \union {answer}
        /\ IsInjective(Append(answers, answer))
    BY <2>1, <2>2, AppendElements, AppendDistinct
  <2> QED
    BY <2>3 DEF answers, answer, Answer
<1>7. \/ outbound' = outbound
      \/ outbound' = [outbound EXCEPT ![s] = Append(@, <<s, id>>)]
  BY <1>1 DEF Respond
<1>8. \A r \in Session :
        /\ outbound'[r] \in Seq({r} \X Nat) /\ IsInjective(outbound'[r])
        /\ ToSet(outbound'[r]) \subseteq
             ToSet(outbound[r]) \union (IF r = s THEN {<<s, id>>} ELSE {})
  BY <1>4, <1>6, <1>7
<1>9. ASSUME NEW r \in Session, NEW n \in Nat, NEW p \in Station, IsAt(p, r, n)'
      PROVE  IsAt(p, r, n) \/ (r = s /\ n = id /\ p = "client")
  <2>1. CASE p = "writer"
    BY <1>2, <1>9, <2>1
  <2>2. CASE p = "client"
    BY <1>8, <1>9, <2>2 DEF IsAt
  <2>3. CASE p \notin {"writer", "client"}
    BY <1>3, <1>9, <2>3 DEF IsAt
  <2> QED
    BY <2>1, <2>2, <2>3
<1>10. Apart' /\ WasSent'
  BY <1>2, <1>3, <1>9, MoveKeeps DEF PlaceInv, Placed, TypeInv, TypeOK, Station
<1> QED
  BY <1>3, <1>8, <1>10 DEF PlaceInv, Placed, Distinct, AnswersStay

LEMMA HandlePlaces ==
  ASSUME PlaceInv, NEW s \in Session, FailRespond(s) \/ HandleInVain(s) \/ HandleLater(s)
  PROVE  Placed'
<1>1. PICK id : id = task[s].id
  OBVIOUS
<1>2. /\ id \in Nat /\ IsAt("writer", s, id) /\ ~IsAt("writer", s, id)'
      /\ \A p \in Station \ {"writer"} : ~IsAt(p, s, id)
      /\ \A r \in Session, n \in Nat : IsAt("writer", r, n)' => IsAt("writer", r, n)
  BY <1>1, TaskEnds DEF FailRespond, HandleInVain, HandleLater, EndTask
<1>3. UNCHANGED <<sent, inbound, queue, applying, outbound>>
  BY DEF FailRespond, HandleInVain, HandleLater, netVars, queueVars, applyVars
<1>4. CASE FailRespond(s)
  <2>1. UNCHANGED <<waiting, refused>>
    BY <1>4 DEF FailRespond, applyVars
  <2>2. ASSUME NEW r \in Session, NEW n \in Nat, NEW p \in Station, IsAt(p, r, n)'
        PROVE  IsAt(p, r, n)
    <3>1. CASE p = "writer"
      BY <1>2, <2>2, <3>1
    <3>2. CASE p # "writer"
      BY <1>3, <2>1, <2>2, <3>2 DEF IsAt
    <3> QED
      BY <3>1, <3>2
  <2>3. Apart' /\ WasSent'
    BY <1>3, <2>2, LossKeeps DEF PlaceInv, Placed, TypeInv, TypeOK
  <2> QED
    BY <1>3, <2>1, <2>3 DEF PlaceInv, Placed, Distinct, AnswersStay
<1>5. CASE HandleInVain(s)
  <2>1. waiting' = waiting /\ refused' = refused \union {<<s, id>>}
    BY <1>1, <1>5 DEF HandleInVain, Refuse, applyVars
  <2>2. ASSUME NEW r \in Session, NEW n \in Nat, NEW p \in Station, IsAt(p, r, n)'
        PROVE  IsAt(p, r, n) \/ (r = s /\ n = id /\ p = "refused")
    <3>1. CASE p = "writer"
      BY <1>2, <2>2, <3>1
    <3>2. CASE p = "refused"
      BY <2>1, <2>2, <3>2 DEF IsAt
    <3>3. CASE p \notin {"writer", "refused"}
      BY <1>3, <2>1, <2>2, <3>3 DEF IsAt
    <3> QED
      BY <3>1, <3>2, <3>3
  <2>3. Apart' /\ WasSent'
    BY <1>2, <1>3, <2>2, MoveKeeps DEF PlaceInv, Placed, TypeInv, TypeOK, Station
  <2> QED
    BY <1>3, <2>1, <2>3 DEF PlaceInv, Placed, Distinct, AnswersStay
<1>6. CASE HandleLater(s)
  <2>1. /\ refused' = refused
        /\ waiting' = Append(waiting, [session |-> s, id |-> id])
    BY <1>1, <1>6 DEF HandleLater
  <2>2. [session |-> s, id |-> id] \notin ToSet(waiting)
    BY <1>2 DEF IsAt, Station
  <2>3. /\ ToSet(waiting') = ToSet(waiting) \union {[session |-> s, id |-> id]}
        /\ IsInjective(waiting')
    <3>1. [session |-> s, id |-> id] \in ApplyTask
      BY <1>2 DEF ApplyTask
    <3>2. waiting \in Seq(ApplyTask) /\ IsInjective(waiting)
      BY DEF PlaceInv, Placed, Distinct, TypeInv, TypeOK
    <3> QED
      BY <2>1, <2>2, <3>1, <3>2, AppendElements, AppendDistinct
  <2>4. ASSUME NEW r \in Session, NEW n \in Nat, NEW p \in Station, IsAt(p, r, n)'
        PROVE  IsAt(p, r, n) \/ (r = s /\ n = id /\ p = "commit")
    <3>1. CASE p = "writer"
      BY <1>2, <2>4, <3>1
    <3>2. CASE p = "commit"
      BY <2>3, <2>4, <3>2 DEF IsAt
    <3>3. CASE p \notin {"writer", "commit"}
      BY <1>3, <2>1, <2>4, <3>3 DEF IsAt
    <3> QED
      BY <3>1, <3>2, <3>3
  <2>5. Apart' /\ WasSent'
    BY <1>2, <1>3, <2>4, MoveKeeps DEF PlaceInv, Placed, TypeInv, TypeOK, Station
  <2> QED
    BY <1>3, <2>3, <2>5 DEF PlaceInv, Placed, Distinct, AnswersStay
<1> QED
  BY <1>4, <1>5, <1>6

LEMMA FindSessionPlaces ==
  ASSUME PlaceInv, FindSession
  PROVE  Placed'
<1>1. waiting \in Seq(ApplyTask) /\ IsInjective(waiting) /\ waiting # <<>>
  BY DEF PlaceInv, Placed, Distinct, TypeInv, TypeOK, FindSession
<1>2. /\ Head(waiting) \in ApplyTask /\ Head(waiting) \in ToSet(waiting)
      /\ ToSet(Tail(waiting)) \subseteq ToSet(waiting)
      /\ IsInjective(Tail(waiting)) /\ Head(waiting) \notin ToSet(Tail(waiting))
  BY <1>1, TailElements
<1>3. PICK s \in Session, id \in Nat : Head(waiting) = [session |-> s, id |-> id]
  BY <1>2 DEF ApplyTask
<1>4. /\ waiting' = Tail(waiting)
      /\ applying' \in {Nil, [session |-> s, id |-> id]}
      /\ UNCHANGED <<sent, inbound, outbound, queue, task, refused>>
  BY <1>3 DEF FindSession, netVars, queueVars, writerVars
<1>5. /\ IsAt("commit", s, id) /\ ~IsAt("commit", s, id)'
      /\ \A r \in Session, n \in Nat : IsAt("commit", r, n)' => IsAt("commit", r, n)
  BY <1>2, <1>3, <1>4 DEF IsAt
<1>6. ASSUME NEW r \in Session, NEW n \in Nat, NEW p \in Station, IsAt(p, r, n)'
      PROVE  IsAt(p, r, n) \/ (r = s /\ n = id /\ p = "apply")
  <2>1. CASE p = "commit"
    BY <1>5, <1>6, <2>1
  <2>2. CASE p = "apply"
    <3>1. [session |-> r, id |-> n] \in ApplyTask /\ applying' = [session |-> r, id |-> n]
      BY <1>6, <2>2 DEF IsAt, ApplyTask
    <3>2. [session |-> s, id |-> id] = [session |-> r, id |-> n]
      BY <1>4, <3>1, NilIsNothingElse
    <3>3. r = s /\ n = id
      BY <3>2
    <3> QED
      BY <2>2, <3>3
  <2>3. CASE p \notin {"commit", "apply"}
    BY <1>4, <1>6, <2>3 DEF IsAt
  <2> QED
    BY <2>1, <2>2, <2>3
<1>7. Apart' /\ WasSent'
  BY <1>4, <1>5, <1>6, MoveKeeps DEF PlaceInv, Placed, TypeInv, TypeOK, Station
<1> QED
  BY <1>2, <1>4, <1>7 DEF PlaceInv, Placed, Distinct, AnswersStay

LEMMA PushAnswerPlaces ==
  ASSUME PlaceInv, PushAnswer
  PROVE  Placed'
<1>1. PICK s \in Session, id \in Nat : applying = [session |-> s, id |-> id]
  BY DEF PushAnswer, PlaceInv, TypeInv, TypeOK, ApplyTask
<1>2. PICK t \in InvokeTask : t = [id |-> id, isAnswer |-> TRUE]
  BY DEF InvokeTask
<1>3. /\ t.id = id /\ Push(s, t) /\ applying' = Nil
      /\ UNCHANGED <<sent, inbound, outbound, task, waiting, refused>>
  BY <1>1, <1>2 DEF PushAnswer, netVars, writerVars
<1>4. /\ IsAt("apply", s, id)
      /\ \A r \in Session, n \in Nat : ~IsAt("apply", r, n)'
  <2>1. \A r \in Session, n \in Nat : [session |-> r, id |-> n] # Nil
    BY NilIsNothingElse DEF ApplyTask
  <2> QED
    BY <1>1, <1>3, <2>1 DEF IsAt
<1>5. ~IsAt("queue", s, id)
  BY <1>4 DEF PlaceInv, Placed, Apart, Station
<1>6. /\ \A r \in Session, n \in Nat :
           IsAt("queue", r, n)' => IsAt("queue", r, n) \/ (r = s /\ n = id)
      /\ \A r \in Session : IsInjective(Ids(queue'[r]))
  BY <1>3, <1>5, PushOntoQueue
<1>7. ASSUME NEW r \in Session, NEW n \in Nat, NEW p \in Station, IsAt(p, r, n)'
      PROVE  IsAt(p, r, n) \/ (r = s /\ n = id /\ p = "queue")
  <2>1. CASE p = "queue" \/ p = "apply"
    BY <1>4, <1>6, <1>7, <2>1
  <2>2. CASE p \notin {"queue", "apply"}
    BY <1>3, <1>7, <2>2 DEF IsAt
  <2> QED
    BY <2>1, <2>2
<1>8. Apart' /\ WasSent'
  BY <1>3, <1>4, <1>7, MoveKeeps DEF PlaceInv, Placed, TypeInv, TypeOK, Station
<1> QED
  BY <1>3, <1>6, <1>8 DEF PlaceInv, Placed, Distinct, AnswersStay

LEMMA AcceptPlaces ==
  ASSUME PlaceInv, Accept
  PROVE  Placed'
<1>1. nextId \in Session
  BY BoundsAreNumbers DEF Accept, Session, PlaceInv, TypeInv, TypeOK
<1>2. UNCHANGED <<sent, inbound, queue, task, waiting, applying, refused>>
  BY <1>1 DEF Accept, IdToAssign, queueVars, applyVars, PlaceInv, AcceptedInOrder, TypeInv, TypeOK
<1>3. \A r \in Session : outbound'[r] = IF r = nextId THEN <<>> ELSE outbound[r]
  BY <1>1 DEF Accept, IdToAssign, PlaceInv, TypeInv, TypeOK
<1>4. ASSUME NEW r \in Session, NEW n \in Nat, NEW p \in Station, IsAt(p, r, n)'
      PROVE  IsAt(p, r, n)
  <2>1. ToSet(<<>>) = {}
    BY DEF ToSet
  <2> QED
    BY <1>2, <1>3, <1>4, <2>1 DEF IsAt
<1>5. Apart' /\ WasSent'
  BY <1>2, <1>4, LossKeeps DEF PlaceInv, Placed, TypeInv, TypeOK
<1>6. \A r \in Session : outbound'[r] \in Seq({r} \X Nat) /\ IsInjective(outbound'[r])
  <2>1. \A r \in Session : <<>> \in Seq({r} \X Nat) /\ IsInjective(<<>>)
    BY EmptySeq DEF IsInjective
  <2> QED
    BY <1>3, <2>1 DEF PlaceInv, Placed, Distinct, AnswersStay
<1> QED
  BY <1>2, <1>5, <1>6 DEF PlaceInv, Placed, Distinct, AnswersStay

LEMMA StopPlaces ==
  ASSUME PlaceInv, StartShutdown \/ Stop
  PROVE  Placed'
<1>1. CASE StartShutdown \/ ClearSessions \/ CloseListener
  BY <1>1, PlacesStand DEF StartShutdown, ClearSessions, CloseListener, netVars, queueVars,
     writerVars, applyVars
<1>2. ASSUME NEW s \in Session, CloseSession(s) PROVE Placed'
  BY <1>2, PlacesStand DEF CloseSession, netVars, queueVars, writerVars, applyVars
<1>3. CASE FinishClose
  <2>1. /\ UNCHANGED <<sent, outbound, queue, task, waiting, applying, refused>>
        /\ \A r \in Session : inbound'[r] = inbound[r] \/ inbound'[r] = <<>>
    BY <1>3 DEF FinishClose, queueVars, writerVars, applyVars, PlaceInv, TypeInv, TypeOK
  <2>2. ASSUME NEW r \in Session, NEW n \in Nat, NEW p \in Station, IsAt(p, r, n)'
        PROVE  IsAt(p, r, n)
    <3>1. ToSet(<<>>) = {}
      BY DEF ToSet
    <3> QED
      BY <2>1, <2>2, <3>1 DEF IsAt
  <2>3. Apart' /\ WasSent'
    BY <2>1, <2>2, LossKeeps DEF PlaceInv, Placed, TypeInv, TypeOK
  <2>4. IsInjective(<<>>)
    BY DEF IsInjective
  <2> QED
    BY <2>1, <2>3, <2>4 DEF PlaceInv, Placed, Distinct, AnswersStay
<1> QED
  BY <1>1, <1>2, <1>3 DEF Stop

LEMMA NextPlaces == PlaceInv /\ [Next]_vars => PlaceInv'
<1> SUFFICES ASSUME PlaceInv, [Next]_vars PROVE PlaceInv'
  OBVIOUS
<1>1. TypeInv' /\ AcceptedInOrder'
  BY NextType, OrderKeeps DEF PlaceInv
<1>2. ASSUME UNCHANGED vars PROVE Placed'
  BY <1>2, PlacesStand DEF vars, netVars, queueVars, writerVars, applyVars
<1>3. ASSUME Run \/ FailAccept PROVE Placed'
  BY <1>3, PlacesStand DEF Run, FailAccept, netVars, queueVars, writerVars, applyVars
<1>4. ASSUME Next PROVE Placed'
  BY <1>3, <1>4, AcceptPlaces, ClientPlaces, ReaderPlaces, WriterTakesPlaces, RespondPlaces,
     HandlePlaces, FindSessionPlaces, PushAnswerPlaces, StopPlaces DEF Next, WriterStep, Apply
<1> QED
  BY <1>1, <1>2, <1>4 DEF PlaceInv

\* A request is at one place, was sent over its connection, and its answer stays with it:
\* what accept, the coroutines of a session, apply and shutdown keep true together.
THEOREM PlacesInvariant == Spec => []PlaceInv
BY InitPlaces, NextPlaces, PTL DEF Spec

\* No answer goes to a connection that did not ask for it, twice over one, or to a refused
\* request, however many sessions come and go while commands wait for their commit.
THEOREM AnswersGoHome == Spec => []AnswersAreOwed
<1>1. PlaceInv => AnswersAreOwed
  <2> SUFFICES ASSUME PlaceInv, NEW s \in Session
               PROVE  /\ IsInjective(outbound[s])
                      /\ \A i \in DOMAIN outbound[s] :
                           /\ outbound[s][i][1] = s
                           /\ outbound[s][i][2] <= sent[s]
                           /\ outbound[s][i] \notin refused
    BY DEF AnswersAreOwed
  <2>1. outbound[s] \in Seq({s} \X Nat) /\ IsInjective(outbound[s]) /\ sent[s] \in Nat
    BY DEF PlaceInv, Placed, Distinct, AnswersStay, TypeInv, TypeOK
  <2>2. ASSUME NEW i \in DOMAIN outbound[s]
        PROVE  /\ outbound[s][i][1] = s
               /\ outbound[s][i][2] <= sent[s]
               /\ outbound[s][i] \notin refused
    <3>1. PICK id \in Nat : outbound[s][i] = <<s, id>>
      BY <2>1, ElementsType DEF ToSet
    <3>2. IsAt("client", s, id)
      BY <3>1 DEF IsAt, ToSet
    <3>3. id \in 1..sent[s] /\ ~IsAt("refused", s, id)
      BY <3>2 DEF PlaceInv, Placed, WasSent, Apart, Station
    <3> QED
      BY <2>1, <3>1, <3>3 DEF IsAt
  <2> QED
    BY <2>1, <2>2
<1> QED
  BY <1>1, PlacesInvariant, PTL

\* No request is lost to two of the coroutines, or handled twice: it is in one place at most.
THEOREM EachInOnePlace == Spec => []InOnePlace
<1>1. PlaceInv => InOnePlace
  <2> SUFFICES ASSUME PlaceInv, NEW s \in Session, NEW id \in RequestId
               PROVE  Places(s, id) <= 1
    BY DEF InOnePlace
  <2>1. id \in Nat
    BY BoundsAreNumbers DEF RequestId
  <2> DEFINE Has(b) == IF b THEN 1 ELSE 0
             answer == <<s, id>>
             command == [session |-> s, id |-> id]
  <2>2. /\ inbound[s] \in Seq(Nat) /\ IsInjective(inbound[s])
        /\ queue[s] \in Seq(InvokeTask) /\ IsInjective(Ids(queue[s]))
        /\ outbound[s] \in Seq(Session \X Nat) /\ IsInjective(outbound[s])
        /\ waiting \in Seq(ApplyTask) /\ IsInjective(waiting)
    BY DEF PlaceInv, Placed, Distinct, TypeInv, TypeOK
  <2>3. Cardinality({i \in DOMAIN inbound[s] : inbound[s][i] = id}) = Has(IsAt("wire", s, id))
    BY <2>2, DistinctCount DEF IsAt
  <2>4. Cardinality({i \in DOMAIN queue[s] : queue[s][i].id = id}) = Has(IsAt("queue", s, id))
    <3>1. {i \in DOMAIN queue[s] : queue[s][i].id = id}
          = {i \in DOMAIN Ids(queue[s]) : Ids(queue[s])[i] = id}
      BY DEF Ids
    <3>2. Ids(queue[s]) \in Seq(Nat)
      BY <2>2, IdsProperties
    <3>3. Cardinality({i \in DOMAIN Ids(queue[s]) : Ids(queue[s])[i] = id})
          = IF id \in ToSet(Ids(queue[s])) THEN 1 ELSE 0
      BY <2>2, <3>2, DistinctCount
    <3> QED
      BY <3>1, <3>3 DEF IsAt
  <2>5. Cardinality({i \in DOMAIN waiting : waiting[i] = command}) = Has(IsAt("commit", s, id))
    BY <2>2, DistinctCount DEF IsAt
  <2>6. Cardinality({i \in DOMAIN outbound[s] : outbound[s][i] = answer})
        = Has(IsAt("client", s, id))
    BY <2>2, DistinctCount DEF IsAt
  <2>7. /\ Has(task[s] # Nil /\ task[s].id = id) = Has(IsAt("writer", s, id))
        /\ Has(applying = command) = Has(IsAt("apply", s, id))
        /\ Has(answer \in refused) = Has(IsAt("refused", s, id))
    BY DEF IsAt
  <2>8. \A p, q \in Station : IsAt(p, s, id) /\ IsAt(q, s, id) => p = q
    BY <2>1 DEF PlaceInv, Placed, Apart
  <2>9. Places(s, id) = Has(IsAt("wire", s, id)) + Has(IsAt("queue", s, id))
                        + Has(IsAt("commit", s, id)) + Has(IsAt("client", s, id))
                        + Has(IsAt("writer", s, id)) + Has(IsAt("apply", s, id))
                        + Has(IsAt("refused", s, id))
    BY <2>3, <2>4, <2>5, <2>6, <2>7 DEF Places
  <2> QED
    BY <2>8, <2>9 DEF Station
<1> QED
  BY <1>1, PlacesInvariant, PTL

-----------------------------------------------------------------------------
(* Shutdown. *)

HasLeft(s) == reader[s] = "done" \/ writer[s] = "done"

\* A session that shutdown has closed has no open connection.
VisitedAreClosed == \A s \in visited : stream[s] \in {"lost", "closed"}

\* What is not in the table before shutdown clears it has left it by itself.
GoneHaveLeft ==
  stopper \in {"idle", "walking"} =>
    \A s \in Session : s < nextId /\ s \notin sessions => HasLeft(s)

\* The walk ends before the table is cleared, and does not go on once it is astray.
WalkIsStraight == walk # Nil => stopper = "walking" /\ ~astray

KnownSessions == \A s \in early \union visited : s < nextId

StopInv ==
  /\ PlaceInv /\ VisitedAreClosed /\ GoneHaveLeft /\ WalkIsStraight /\ KnownSessions
  /\ ShutdownClosesSessions

LEMMA InitStop == Init => StopInv
<1> SUFFICES ASSUME Init PROVE StopInv
  OBVIOUS
<1>1. \A s \in Session : ~(s < nextId)
  BY DEF Init, Session
<1> QED
  BY <1>1, InitPlaces DEF Init, StopInv, VisitedAreClosed, GoneHaveLeft, WalkIsStraight,
     KnownSessions, ShutdownClosesSessions

\* Neither the end of a coroutine nor that of a connection is taken back: an action that
\* leaves shutdown and the ids alone only has to account for the sessions it removes.
LEMMA EndsStand ==
  ASSUME StopInv, UNCHANGED <<stopVars, nextId>>,
         \A s \in Session :
           /\ s \in sessions /\ s \notin sessions' => HasLeft(s)'
           /\ HasLeft(s) => HasLeft(s)'
           /\ stream[s] \in {"lost", "closed"} => stream'[s] \in {"lost", "closed"}
           /\ stream[s] # "open" => stream'[s] # "open"
  PROVE  VisitedAreClosed' /\ GoneHaveLeft' /\ WalkIsStraight' /\ KnownSessions'
         /\ ShutdownClosesSessions'
<1> USE DEF StopInv, PlaceInv, TypeInv, TypeOK, stopVars
<1>1. VisitedAreClosed' /\ WalkIsStraight' /\ KnownSessions'
  BY DEF VisitedAreClosed, WalkIsStraight, KnownSessions
<1>2. GoneHaveLeft'
  BY DEF GoneHaveLeft
<1>3. ShutdownClosesSessions'
  BY DEF ShutdownClosesSessions, HasLeft
<1> QED
  BY <1>1, <1>2, <1>3

LEMMA AcceptStop ==
  ASSUME StopInv, Accept
  PROVE  VisitedAreClosed' /\ GoneHaveLeft' /\ WalkIsStraight' /\ KnownSessions'
         /\ ShutdownClosesSessions'
<1> USE DEF StopInv, PlaceInv, TypeInv, TypeOK
<1>1. nextId \in Session /\ nextId' = nextId + 1 /\ sessions' = sessions \union {nextId}
  BY BoundsAreNumbers DEF Accept, Session, IdToAssign
<1>2. /\ \A s \in Session : s < nextId' <=> s < nextId \/ s = nextId
      /\ \A s \in Session : s < nextId => s # nextId
  BY <1>1 DEF Session
<1>3. /\ UNCHANGED <<stopper, walk, visited, astray>>
      /\ early' = IF stopper = "idle" THEN early \union {nextId} ELSE early
      /\ \A s \in Session : s < nextId => stream'[s] = stream[s] /\ HasLeft(s)' = HasLeft(s)
  BY <1>1, <1>2 DEF Accept, IdToAssign, HasLeft
<1>4. VisitedAreClosed' /\ WalkIsStraight' /\ KnownSessions'
  BY <1>1, <1>2, <1>3 DEF VisitedAreClosed, WalkIsStraight, KnownSessions
<1>5. GoneHaveLeft'
  BY <1>1, <1>2, <1>3 DEF GoneHaveLeft
<1>6. ShutdownClosesSessions'
  BY <1>2, <1>3 DEF ShutdownClosesSessions, KnownSessions, HasLeft
<1> QED
  BY <1>4, <1>5, <1>6

LEMMA SessionStop ==
  ASSUME StopInv, NEW s \in Session,
         \/ Send(s) \/ HangUp(s)
         \/ ReaderStep(s) \/ FailRead(s) \/ PassOver(s) \/ ReadTooLarge(s)
         \/ WriterStep(s) \/ HandleInVain(s)
  PROVE  VisitedAreClosed' /\ GoneHaveLeft' /\ WalkIsStraight' /\ KnownSessions'
         /\ ShutdownClosesSessions'
<1> USE DEF StopInv, PlaceInv, TypeInv, TypeOK
<1>1. CASE Send(s) \/ HangUp(s)
  BY <1>1, EndsStand DEF Send, HangUp, HasLeft, tableVars, writerVars
<1>2. CASE Read(s) \/ FailRead(s) \/ PassOver(s) \/ ReadTooLarge(s)
  BY <1>2, EndsStand DEF Read, FailRead, PassOver, ReadTooLarge, EndReading, HasLeft, tableVars,
     netVars, writerVars
<1>3. CASE RemoveByReader(s)
  BY <1>3, EndsStand DEF RemoveByReader, HasLeft, netVars, writerVars
<1>4. CASE Pop(s) \/ Wait(s) \/ Wake(s)
  <2>1. CASE Pop(s)
    BY <2>1, EndsStand DEF Pop, TakeTask, HasLeft, tableVars, netVars
  <2>2. CASE Wait(s)
    BY <2>2, EndsStand DEF Wait, HasLeft, tableVars, netVars
  <2>3. CASE Wake(s)
    BY <2>3, EndsStand DEF Wake, TakeTask, HasLeft, tableVars, netVars
  <2> QED
    BY <1>4, <2>1, <2>2, <2>3
<1>5. CASE PopNothing(s) \/ FailRespond(s)
  BY <1>5, EndsStand DEF PopNothing, FailRespond, EndWriting, HasLeft, netVars
<1>6. CASE Respond(s) \/ HandleLater(s) \/ HandleInVain(s)
  BY <1>6, EndsStand DEF Respond, HandleLater, HandleInVain, EndTask, HasLeft, tableVars, netVars
<1> QED
  BY <1>1, <1>2, <1>3, <1>4, <1>5, <1>6 DEF ReaderStep, WriterStep

LEMMA StopStop ==
  ASSUME StopInv, StartShutdown \/ Stop
  PROVE  VisitedAreClosed' /\ GoneHaveLeft' /\ WalkIsStraight' /\ KnownSessions'
         /\ ShutdownClosesSessions'
<1> USE DEF StopInv, PlaceInv, TypeInv, TypeOK, VisitedAreClosed, GoneHaveLeft, WalkIsStraight,
            KnownSessions, ShutdownClosesSessions, HasLeft
<1>1. CASE StartShutdown
  BY <1>1 DEF StartShutdown, tableVars, netVars, writerVars
<1>2. ASSUME NEW s \in Session, CloseSession(s)
      PROVE  VisitedAreClosed' /\ GoneHaveLeft' /\ WalkIsStraight' /\ KnownSessions'
             /\ ShutdownClosesSessions'
  BY <1>2 DEF CloseSession, tableVars, netVars, writerVars
<1>3. CASE FinishClose
  <2>1. /\ walk \in Session /\ walk < nextId
        /\ UNCHANGED <<stopper, early, nextId, sessions, reader, writer>>
        /\ visited' = visited \union {walk} /\ walk' = Nil
        /\ stream' = [stream EXCEPT ![walk] = IF @ = "lost" THEN @ ELSE "closed"]
    BY <1>3 DEF FinishClose, tableVars, writerVars, AcceptedInOrder
  <2>2. stopper = "walking"
    BY <1>3 DEF FinishClose
  <2> QED
    BY <2>1, <2>2
<1>4. CASE ClearSessions
  <2>1. ~astray => \A s \in early : stream[s] # "open" \/ HasLeft(s)
    BY <1>4 DEF ClearSessions, IsWalked
  <2> QED
    BY <1>4, <2>1 DEF ClearSessions, netVars, writerVars
<1>5. CASE CloseListener
  BY <1>5 DEF CloseListener, tableVars, netVars, writerVars
<1> QED
  BY <1>1, <1>2, <1>3, <1>4, <1>5 DEF Stop

LEMMA NextStop == StopInv /\ [Next]_vars => StopInv'
<1> SUFFICES ASSUME StopInv, [Next]_vars
             PROVE  VisitedAreClosed' /\ GoneHaveLeft' /\ WalkIsStraight' /\ KnownSessions'
                    /\ ShutdownClosesSessions'
  BY NextPlaces DEF StopInv
<1>1. CASE UNCHANGED vars
  BY <1>1, EndsStand DEF vars, HasLeft, tableVars, netVars, writerVars
<1>2. CASE Run \/ FailAccept \/ Apply
  BY <1>2, EndsStand DEF Run, FailAccept, Apply, FindSession, PushAnswer, HasLeft, tableVars,
     netVars, writerVars
<1>3. CASE Accept
  BY <1>3, AcceptStop
<1>4. CASE \E s \in Session : \/ Send(s) \/ HangUp(s)
                              \/ ReaderStep(s) \/ FailRead(s) \/ PassOver(s) \/ ReadTooLarge(s)
                              \/ WriterStep(s) \/ HandleInVain(s)
  BY <1>4, SessionStop
<1>5. CASE StartShutdown \/ Stop
  BY <1>5, StopStop
<1> QED
  BY <1>1, <1>2, <1>3, <1>4, <1>5 DEF Next

\* Unless it goes astray, shutdown leaves no session of before it running on an open connection.
THEOREM ShutdownCloses == Spec => []ShutdownClosesSessions
<1>1. StopInv => ShutdownClosesSessions
  BY DEF StopInv
<1> QED
  BY <1>1, InitStop, NextStop, PTL DEF Spec

=============================================================================
