------------------------------ MODULE Messages ------------------------------
(***************************************************************************)
(* The way of messages between processes and to disk, byte sizes included. *)
(*                                                                         *)
(* Two things can happen, one at a time.  Some process fills any message   *)
(* with its setters, writes it, and another one (or the same one after a   *)
(* restart) reads it.  Or a client sends a command: it is a request, then  *)
(* wrapped in the entry of a log, on disk and inside the request to a      *)
(* follower, and comes back as an answer.                                  *)
(*                                                                         *)
(* Two buffers of the leader are written without a look at their size: a   *)
(* record longer than Persister's, and an answer longer than the           *)
(* session's, run over memory that may be anyone's.  The process dies of   *)
(* it or goes on, and what it then has may be spoilt: nothing is known of  *)
(* its contents.                                                           *)
(***************************************************************************)
EXTENDS Wire

CONSTANTS
  Limit,            \* MAX_RPC_MESSAGE_SIZE
  Buffer,           \* the size of Persister's buffer_
  Numbers,          \* numbers other than 0
  Texts,            \* texts for fields of bytes
  Keys, Values,     \* the keys and values of commands
  Spoilt            \* what memory that was run over may hold, and what comes of it

ASSUME SizesAreNumbers == Limit \in Nat /\ Limit < 268435456 /\ Buffer \in 0..128
ASSUME NumbersAreGroups ==
  /\ One \in Numbers
  /\ \A v \in Numbers : v \in Seq(0..127) /\ Len(v) \in 1..10 /\ v[Len(v)] # 0
ASSUME TextsHaveSizes ==
  /\ Texts # {}
  /\ \A text \in Keys \union Values : ByteSize(text) \in Nat
  /\ \A text \in Texts : ByteSize(text) \in Nat /\ ByteSize(text) + 21 <= Limit

VARIABLES
  type, message,        \* a message that is being filled, and which one
  written, read,        \* what it becomes on the wire and where it is read
  command,              \* what a client wants: [op, key, value]
  request,              \* the payload of its request, on the way to the leader
  closed,               \* sessions closed because a request is too large
  entry, stored,        \* the leader's entry, in memory and on disk
  overrun, died,        \* the leader's buffers that were too small, for its "record" or its
                        \* "answer"; it did not survive that
  append,               \* the payload of the request to a follower
  peerEntry, peerStored,
  ran,                  \* what a follower has executed
  recovered,            \* the leader's entry after a restart
  reply,                \* what the leader has to say: a response message
  answer,               \* its payload on the way to the client
  dropped,              \* the provider has not sent the answer
  result                \* what the client has read

exchangeVars == <<type, message, written, read>>
leaderVars == <<entry, stored, overrun, died, recovered>>
peerVars == <<peerEntry, peerStored, ran>>
answerVars == <<reply, answer, dropped, result>>
vars == <<exchangeVars, command, request, closed, leaderVars, append, peerVars, answerVars>>

Init ==
  /\ type = Nil /\ message = Nil /\ written = Nil /\ read = Nil
  /\ command = Nil /\ request = Nil /\ closed = {}
  /\ entry = Nil /\ stored = Nil /\ overrun = {} /\ died = FALSE /\ recovered = Nil
  /\ append = Nil /\ peerEntry = Nil /\ peerStored = Nil /\ ran = Nil
  /\ reply = Nil /\ answer = Nil /\ dropped = FALSE /\ result = Nil

-----------------------------------------------------------------------------
(* Any message. *)

Types ==
  {RpcRedirect, RpcResponseHeader, KeyValue, PutRequest, PutResponse, GetRequest, GetResponse,
   DeleteRequest, DeleteResponse, ResponseHeader, PersistState, RequestVoteRequest,
   RequestVoteResponse, LogEntry, AppendEntriesRequest, AppendEntriesResponse,
   InstallSnapshotRequest, InstallSnapshotResponse, InternalRaftRequest}

Responses ==
  {PutResponse, GetResponse, DeleteResponse, RequestVoteResponse, AppendEntriesResponse,
   InstallSnapshotResponse}

\* A number fits a field of so many bits.
IsWithin(v, bits) == IF bits = 1 THEN v = One ELSE 7 * Len(v) < bits + 7

\* A message with every field set.
FullWith(Inner(_), schema) ==
  [name \in Names(schema) |->
     LET f == FieldNamed(schema, name) IN
     CASE f.kind \in {"number", "optional"} -> CHOOSE v \in Numbers : IsWithin(v, f.bits)
       [] f.kind = "bytes" -> CHOOSE text \in Texts : TRUE
       [] f.kind \in {"message", "oneof"} -> Inner(f.type)
       [] f.kind = "repeated" -> <<Inner(f.type), Inner(f.type)>>]

FullFlat(schema) == FullWith(Default, schema)

Full(schema) == FullWith(FullFlat, schema)

\* Values for a field: its default and others; of a message within a message, the empty
\* one and one with every field set.
SomeValues(f) ==
  CASE f.kind \in {"number", "optional"} ->
         {v \in Numbers : IsWithin(v, f.bits)} \union {Zero, DefaultOf(f)}
    [] f.kind = "bytes" -> Texts \union {<<>>}
    [] f.kind \in {"message", "oneof"} -> {Nil, Default(f.type), Full(f.type)}
    [] f.kind = "repeated" ->
         {<<>>} \union {<<a, b>> : a, b \in {Default(f.type), Full(f.type)}}

\* A response is filled from produce_*_response: its header is there.
Create(schema) ==
  /\ type = Nil /\ command = Nil
  /\ type' = schema
  /\ message' = IF schema \in Responses
                THEN [Default(schema) EXCEPT !.header = Default(schema[1].type)]
                ELSE Default(schema)
  /\ UNCHANGED <<written, read, command, request, closed, leaderVars, append, peerVars,
                 answerVars>>

Fill(f) ==
  /\ type # Nil /\ written = Nil
  /\ f \in ToSet(type)
  /\ f.kind = "oneof" \/ message[f.name] = DefaultOf(f) \/ f.name = "header"
  /\ \E v \in SomeValues(f) \ {DefaultOf(f)} : message' = Set(message, type, f, v)
  /\ UNCHANGED <<type, written, read, command, request, closed, leaderVars, append, peerVars,
                 answerVars>>

Write ==
  /\ type # Nil /\ written = Nil
  /\ written' = Serialize(message, type)
  /\ UNCHANGED <<type, message, read, command, request, closed, leaderVars, append, peerVars,
                 answerVars>>

Read ==
  /\ written # Nil /\ read = Nil
  /\ read' = Parse(written, type)
  /\ UNCHANGED <<type, message, written, command, request, closed, leaderVars, append, peerVars,
                 answerVars>>

-----------------------------------------------------------------------------
(* A command. *)

Command == [op : {"put"}, key : Keys, value : Values] \union [op : {"get", "delete"}, key : Keys]

\* KVClient's requests; InternalRaftRequest takes them over as they are.
RequestType(c) ==
  CASE c.op = "put" -> PutRequest [] c.op = "get" -> GetRequest [] c.op = "delete" -> DeleteRequest

RequestOf(c) ==
  IF c.op = "put" THEN [key |-> c.key, value |-> c.value] ELSE [key |-> c.key]

FieldOfReader(c) ==
  FieldNamed(InternalRaftRequest, IF c.op = "put" THEN "kv_put" ELSE "kv_get")

FieldOf(c) ==
  FieldNamed(InternalRaftRequest,
    CASE c.op = "put" -> "kv_put" [] c.op = "get" -> "kv_get" [] c.op = "delete" -> "kv_delete")

InternalRequestOf(c, r) ==
  Set(Default(InternalRaftRequest), InternalRaftRequest, FieldOf(c), r)

EntryOf(c, r, term, index) ==
  [term |-> term, index |-> index,
   command |-> Serialize(InternalRequestOf(c, r), InternalRaftRequest)]

Call(c) ==
  /\ type = Nil /\ command = Nil
  /\ command' = c
  /\ request' = Serialize(RequestOf(c), RequestType(c))
  /\ UNCHANGED <<exchangeVars, closed, leaderVars, append, peerVars, answerVars>>

TooLarge(payload) == ByteSize(payload) > Limit

\* produce_invoke_tasks: the session is closed on a large request.
RefuseRequest ==
  /\ request # Nil /\ TooLarge(request) /\ closed = {}
  /\ closed' = {"client"}
  /\ UNCHANGED <<exchangeVars, command, request, leaderVars, append, peerVars, answerVars>>

RefuseAppend ==
  /\ append # Nil /\ closed = {}
  /\ append # Spoilt => TooLarge(append)
  /\ closed' = {"follower"}
  /\ UNCHANGED <<exchangeVars, command, request, leaderVars, append, peerVars, answerVars>>

IsHandled == request # Nil /\ ~TooLarge(request) /\ entry = Nil /\ reply = Nil

ResponseType(c) ==
  CASE c.op = "put" -> PutResponse
    [] c.op = "get" -> GetResponse
    [] c.op = "delete" -> DeleteResponse

\* A response is a message and the schema it is written with.
Response(schema, header, kv) ==
  [schema |-> schema,
   message |-> IF schema = GetResponse THEN [header |-> header, kv |-> kv] ELSE [header |-> header]]

\* RpcError's codes.
NoError == <<1>>
LogEntryAppendOrPersistFailed == <<2>>
NeedRedirect == <<3>>
KVPutFailed == <<4>>
KVGetFailed == <<5>>

Header(success, code, redirect) ==
  [success |-> success, error_code |-> code, redirect |-> redirect]

Failure(code) == Header(Zero, code, Nil)

Success == Header(One, NoError, Nil)

Redirects == {Nil} \union [host : Texts, port : {v \in Numbers : IsWithin(v, 16)}]

ASSUME NilIsNothingElse ==
  /\ \A schema \in Types : Nil # Default(schema)
  /\ \A c \in Command : Nil # c /\ Nil # RequestOf(c)
  /\ \A c \in Command, term, index \in Numbers : Nil # EntryOf(c, RequestOf(c), term, index)
  /\ \A success \in {Zero, One}, redirect \in Redirects,
        code \in {NoError, LogEntryAppendOrPersistFailed, NeedRedirect, KVPutFailed, KVGetFailed} :
       Nil # Header(success, code, redirect)

\* Not the leader: where to go, if that is known.
Redirect ==
  /\ IsHandled
  /\ \E r \in Redirects :
       reply' = Response(ResponseType(command), Header(Zero, NeedRedirect, r), Nil)
  /\ UNCHANGED <<exchangeVars, command, request, closed, leaderVars, append, peerVars, answer,
                 dropped, result>>

FailPropose ==
  /\ IsHandled
  /\ reply' = Response(ResponseType(command), Failure(LogEntryAppendOrPersistFailed), Nil)
  /\ UNCHANGED <<exchangeVars, command, request, closed, leaderVars, append, peerVars, answer,
                 dropped, result>>

AppendTwice(e, prevIndex, prevTerm, leader, commit) ==
  [term |-> e.term, leader_id |-> leader, prev_log_index |-> prevIndex,
   prev_log_term |-> prevTerm, entries |-> <<e, e>>, leader_commit |-> commit]

AppendOf(e, prevIndex, prevTerm, leader, commit) ==
  [term |-> e.term, leader_id |-> leader, prev_log_index |-> prevIndex,
   prev_log_term |-> prevTerm, entries |-> <<e>>, leader_commit |-> commit]

OverrunsFull(payload) == ByteSize(payload) >= Buffer

Overruns(payload) == ByteSize(payload) > Buffer

ASSUME SpoiltIsNothingElse ==
  /\ Spoilt # Nil
  /\ \A c \in Command, term, index \in Numbers :
       LET e == EntryOf(c, RequestOf(c), term, index) IN
       /\ Spoilt \notin {e, Serialize(e, LogEntry)}
       /\ \A prev, leader \in Numbers \union {Zero} :
            Spoilt # Serialize(AppendOf(e, prev, prev, leader, prev), AppendEntriesRequest)

\* What may be where v should be, once some buffers have been overrun.
Remains(v, buffers) == IF v = Nil \/ buffers = {} THEN {v} ELSE {v, Spoilt}

\* The leader puts the entry in its log, writes the record from buffer_ and makes the append.
Propose ==
  /\ IsHandled
  /\ \E term, index \in Numbers, prev, leader \in Numbers \union {Zero} :
       LET e == EntryOf(command, Parse(request, RequestType(command)), term, index)
           record == Serialize(e, LogEntry)
           message_ == Serialize(AppendOf(e, prev, prev, leader, prev), AppendEntriesRequest)
       IN
       /\ overrun' = IF Overruns(record) THEN {"record"} ELSE {}
       /\ died' \in {FALSE, overrun' # {}}
       /\ entry' \in Remains(e, overrun')
       /\ stored' \in Remains(record, overrun') \union IF died' THEN {Nil} ELSE {}
       /\ append' \in IF died' THEN {Nil} ELSE Remains(message_, overrun')
  /\ UNCHANGED <<exchangeVars, command, request, closed, recovered, peerVars, answerVars>>

\* A follower appends the entry and stores it with SerializeAsString.
AcceptAppend ==
  /\ append # Nil /\ peerEntry = Nil
  /\ IF append = Spoilt
     THEN peerEntry' = Spoilt /\ peerStored' = Spoilt
     ELSE /\ ~TooLarge(append)
          /\ peerEntry' = Head(Parse(append, AppendEntriesRequest).entries)
          /\ peerStored' = Serialize(peerEntry', LogEntry)
  /\ UNCHANGED <<exchangeVars, command, request, closed, leaderVars, append, ran, answerVars>>

ApplyEntry ==
  /\ peerEntry # Nil /\ ran = Nil
  /\ ran' = IF peerEntry = Spoilt THEN Spoilt ELSE Parse(peerEntry.command, InternalRaftRequest)
  /\ UNCHANGED <<exchangeVars, command, request, closed, leaderVars, append, peerEntry,
                 peerStored, answerVars>>

\* The process reads its record when it is started again.
Recover ==
  /\ stored # Nil /\ recovered = Nil
  /\ recovered' = IF stored = Spoilt THEN Spoilt ELSE Parse(stored, LogEntry)
  /\ UNCHANGED <<exchangeVars, command, request, closed, entry, stored, overrun, died, append,
                 peerVars, answerVars>>

\* A value that may be in the database: the request that put it there was not refused.
IsAccepted(key, value) == ~TooLarge(Serialize([key |-> key, value |-> value], PutRequest))

\* apply_kv_put, apply_kv_get, apply_kv_delete: a delete that fails is answered with a
\* PutResponse.
Outcomes(c) ==
  CASE c.op = "put" ->
         {Response(PutResponse, h, Nil) : h \in {Success, Failure(KVPutFailed)}}
    [] c.op = "get" ->
         {Response(GetResponse, Failure(KVGetFailed), Nil)} \union
         {Response(GetResponse, Success, [key |-> c.key, value |-> v]) :
            v \in {v \in Values : IsAccepted(c.key, v)}}
    [] c.op = "delete" ->
         {Response(DeleteResponse, Success, Nil),
          Response(PutResponse, Failure(KVPutFailed), Nil)}

\* The leader executes what is committed, which may be what it alone has stored
\* (raft_node.cpp:377).  Its copy of the command may be spoilt, too: what is executed and
\* answered then may be anything.
Apply ==
  /\ ~died /\ entry # Nil /\ reply = Nil
  /\ \E r \in Outcomes(command) : reply' \in Remains(r, overrun)
  /\ UNCHANGED <<exchangeVars, command, request, closed, leaderVars, append, peerVars, answer,
                 dropped, result>>

ReplyBytes == Serialize(reply.message, reply.schema)

IsSentBelow(payload) == ByteSize(payload) > 0 /\ ByteSize(payload) < Limit

IsSent(payload) == ByteSize(payload) > 0 /\ ByteSize(payload) <= Limit

\* consume_invoke_tasks: an answer of no bytes is one that comes later, and one that is too
\* large is not sent.
Respond ==
  /\ reply \notin {Nil, Spoilt} /\ answer = Nil /\ ~dropped /\ ~died
  /\ IsSent(ReplyBytes)
  /\ answer' = ReplyBytes
  /\ UNCHANGED <<exchangeVars, command, request, closed, leaderVars, append, peerVars, reply,
                 dropped, result>>

\* The handler has written it into the session's buffer of Limit bytes all the same.
DropAnswer ==
  /\ reply \notin {Nil, Spoilt} /\ answer = Nil /\ ~dropped /\ ~died
  /\ ~IsSent(ReplyBytes)
  /\ overrun' = overrun \union IF TooLarge(ReplyBytes) THEN {"answer"} ELSE {}
  /\ died' \in {FALSE, TooLarge(ReplyBytes)}
  /\ dropped' = ~died'
  /\ entry' \in Remains(entry, overrun')
  /\ append' \in Remains(append, overrun')
  /\ UNCHANGED <<exchangeVars, command, request, closed, stored, recovered, peerVars, reply, answer,
                 result>>

\* The client's callback.
ReadAnswer ==
  /\ answer # Nil /\ result = Nil
  /\ result' = Parse(answer, ResponseType(command))
  /\ UNCHANGED <<exchangeVars, command, request, closed, leaderVars, append, peerVars, reply,
                 answer, dropped>>

-----------------------------------------------------------------------------
Exchange ==
  \/ \E schema \in Types : Create(schema)
  \/ \E f \in UNION {ToSet(schema) : schema \in Types} : Fill(f)
  \/ Write
  \/ Read

Journey ==
  \/ \E c \in Command : Call(c)
  \/ RefuseRequest \/ Redirect \/ FailPropose \/ Propose
  \/ RefuseAppend \/ AcceptAppend \/ ApplyEntry
  \/ Recover
  \/ Apply \/ Respond \/ DropAnswer \/ ReadAnswer

Next == Exchange \/ Journey

Spec == Init /\ [][Next]_vars

-----------------------------------------------------------------------------
(* Properties. *)

\* What is read is what was written, whatever is left out on the wire: defaults, an absent
\* vote as opposed to a vote for member 0, empty messages within messages.
ReadAsWritten == read # Nil => read = message

CommandIn(r) ==
  CASE r.kv_put # Nil -> [op |-> "put", key |-> r.kv_put.key, value |-> r.kv_put.value]
    [] r.kv_get # Nil -> [op |-> "get", key |-> r.kv_get.key]
    [] r.kv_delete # Nil -> [op |-> "delete", key |-> r.kv_delete.key]

\* A command is three messages deep in the request to a follower and in the entry on disk:
\* the follower executes, and a restarted leader finds, what the client has asked for, as
\* long as no buffer of the leader was overrun.
CommandsArrive ==
  overrun = {} =>
    /\ ran # Nil => CommandIn(ran) = command
    /\ recovered # Nil => recovered = entry /\ peerStored \in {Nil, stored}

\* The client reads the outcome and the redirect it was given, although a failed delete is
\* written as another message than it is read as.
ResultsAreUnderstood == result # Nil => result = reply.message

SizeOf(c) == ByteSize(c.key) + IF c.op = "put" THEN ByteSize(c.value) ELSE 0

\* The leader's buffer of 128 bytes is large enough for commands with up to 98 bytes of key
\* and value, whatever term and index are.
ShortCommandsFit == "record" \in overrun => SizeOf(command) > Buffer - 30

\* What the leader accepts it can replicate, up to 92 bytes below the limit, as long as the
\* request to the follower was not spoilt.
SlackForAppends ==
  "follower" \in closed /\ append # Spoilt => ByteSize(request) > Limit - 92

\* A key and a value that are in the database are within the last 10 bytes of the limit.
IsLongGet(r) ==
  /\ r.schema = GetResponse
  /\ r.message.kv # Nil
  /\ ByteSize(Serialize(r.message.kv, KeyValue)) > Limit - 11

\* Every answer is sent, and fits the buffer it is written to, but that to a get of a key and
\* a value so long that they fit a put request and no response: no other one is too large,
\* and none is of 0 bytes, which means that it comes later (provider.cpp:146-150).
ShortAnswersAreSent ==
  /\ written # Nil /\ type \in Responses => ByteSize(written) > 0
  /\ dropped \/ "answer" \in overrun => IsLongGet(reply)

=============================================================================
