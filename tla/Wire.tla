-------------------------------- MODULE Wire --------------------------------
(***************************************************************************)
(* The messages of rpc.proto, kv.proto and raft.proto as the generated     *)
(* code writes and reads them.                                             *)
(*                                                                         *)
(* A schema lists the fields of a message in the order of their numbers.   *)
(* What is written is a function: to the number of each field that is      *)
(* there, the token it becomes, with the bytes this takes.  Every field    *)
(* number is below 16, so that a tag is one byte; none is above 7.         *)
(*                                                                         *)
(* A number is the sequence of its groups of 7 bits, the least significant *)
(* one first and no zero on top: <<>> is 0, and a uint64 has up to 10 of   *)
(* them.  A bool is the number 0 or 1.  Bytes are either what was written  *)
(* before, or a text nobody looks into, which is a single token; no bytes  *)
(* are <<>>, the function without arguments.                               *)
(*                                                                         *)
(* A writer writes no field twice and none out of order, and every reader  *)
(* of this program reads what such a writer has written: that a reader     *)
(* merges a message that comes twice, and fails on bytes that are none, is *)
(* left out.                                                               *)
(***************************************************************************)
EXTENDS Naturals, Sequences, SequencesExt

CONSTANT Nil

Zero == <<>>
One == <<1>>

Text(text, n) == IF n = 0 THEN <<>> ELSE <<[text |-> text, size |-> n]>>

-----------------------------------------------------------------------------
(* Fields. *)

Number(num, name) == [num |-> num, name |-> name, kind |-> "number", bits |-> 64]

Number32(num, name) == [num |-> num, name |-> name, kind |-> "number", bits |-> 32]

Flag(num, name) == [num |-> num, name |-> name, kind |-> "number", bits |-> 1]

Optional(num, name) == [num |-> num, name |-> name, kind |-> "optional", bits |-> 64]

Bytes(num, name) == [num |-> num, name |-> name, kind |-> "bytes"]

Message(num, name, type) == [num |-> num, name |-> name, kind |-> "message", type |-> type]

Repeated(num, name, type) == [num |-> num, name |-> name, kind |-> "repeated", type |-> type]

OneOf(num, name, type) == [num |-> num, name |-> name, kind |-> "oneof", type |-> type]

-----------------------------------------------------------------------------
(* rpc.proto *)

RpcRedirect == <<Bytes(1, "host"), Number32(2, "port")>>

RpcResponseHeader ==
  <<Flag(1, "success"), Number32(2, "error_code"), Message(3, "redirect", RpcRedirect)>>

(* kv.proto *)

KeyValue == <<Bytes(1, "key"), Bytes(2, "value")>>

PutRequest == <<Bytes(1, "key"), Bytes(2, "value")>>

PutResponseMovingHeader == <<Message(2, "header", RpcResponseHeader)>>

PutResponse == <<Message(1, "header", RpcResponseHeader)>>

GetRequest == <<Bytes(1, "key")>>

GetResponse == <<Message(1, "header", RpcResponseHeader), Message(2, "kv", KeyValue)>>

DeleteRequest == <<Bytes(1, "key")>>

DeleteResponse == <<Message(1, "header", RpcResponseHeader)>>

(* raft.proto *)

ResponseHeader == <<Number(1, "cluster_id"), Number(2, "member_id"), Number(3, "term")>>

PersistState == <<Number(1, "current_term"), Optional(2, "voted_for")>>

RequestVoteRequest ==
  <<Number(1, "term"), Number(2, "candidate_id"), Number(3, "last_log_index"),
    Number(4, "last_log_term")>>

RequestVoteResponse == <<Message(1, "header", ResponseHeader), Flag(2, "vote_granted")>>

LogEntry == <<Number(1, "term"), Number(2, "index"), Bytes(3, "command")>>

AppendEntriesRequest ==
  <<Number(1, "term"), Number(2, "leader_id"), Number(3, "prev_log_index"),
    Number(4, "prev_log_term"), Repeated(5, "entries", LogEntry), Number(6, "leader_commit")>>

AppendEntriesResponse ==
  <<Message(1, "header", ResponseHeader), Flag(2, "success"), Number(3, "last_log_index"),
    Number(4, "conflict_index")>>

InstallSnapshotRequest ==
  <<Number(1, "term"), Number(2, "leader_id"), Number(3, "last_included_index"),
    Number(4, "last_included_term"), Number(5, "offset"), Bytes(6, "data"), Flag(7, "done")>>

InstallSnapshotResponse == <<Message(1, "header", ResponseHeader)>>

InternalRaftRequest ==
  <<OneOf(1, "kv_put", PutRequest), OneOf(2, "kv_get", GetRequest),
    OneOf(3, "kv_delete", DeleteRequest)>>

-----------------------------------------------------------------------------
(* Messages in memory. *)

HasPresence(f) == f.kind \in {"optional", "message", "oneof"}

HasMessages(f) == f.kind \in {"message", "oneof", "repeated"}

DefaultOf(f) == IF HasPresence(f) THEN Nil ELSE <<>>

Names(schema) == {f.name : f \in ToSet(schema)}

FieldNamed(schema, name) == CHOOSE f \in ToSet(schema) : f.name = name

FieldNumbered(schema, num) == CHOOSE f \in ToSet(schema) : f.num = num

Default(schema) == [name \in Names(schema) |-> DefaultOf(FieldNamed(schema, name))]

\* A setter.  Setting one member of the oneof clears the others.
Set(m, schema, f, v) ==
  [name \in Names(schema) |->
     IF name = f.name THEN v
     ELSE IF f.kind = "oneof" /\ FieldNamed(schema, name).kind = "oneof" THEN Nil
     ELSE m[name]]

-----------------------------------------------------------------------------
(* Sizes. *)

Total(sizes) == FoldLeft(LAMBDA n, size : n + size, 0, sizes)

ByteSize(payload) ==
  Total([num \in 1..7 |-> IF num \in DOMAIN payload THEN payload[num].size ELSE 0])

\* The bytes of a length as a varint: seven bits each.
LengthSize(n) ==
  IF n < 128 THEN 1
  ELSE IF n < 16384 THEN 2
  ELSE IF n < 2097152 THEN 3
  ELSE IF n < 268435456 THEN 4
  ELSE 5

NumberSize(v) == IF v = Zero THEN 1 ELSE Len(v)

\* The bytes of a field that says how long it is, its tag included.
FieldSize(payload) == 1 + LengthSize(ByteSize(payload)) + ByteSize(payload)

-----------------------------------------------------------------------------
(* Writing: a field without presence is written unless it is 0 or empty,   *)
(* a field with presence if it is there, be it empty.  No message is more  *)
(* than three deep: PutResponse, RpcResponseHeader, Redirect.              *)

NumberToken(v) == [wire |-> "varint", body |-> v, size |-> 1 + NumberSize(v)]

LengthToken(payload) == [wire |-> "length", body |-> payload, size |-> FieldSize(payload)]

RepeatedToken(payloads) ==
  [wire |-> "length", body |-> payloads,
   size |-> Total([k \in DOMAIN payloads |-> FieldSize(payloads[k])])]

IsWrittenUnlessZero(f, v) == v # DefaultOf(f) /\ (f.kind = "optional" => v # Zero)

IsWrittenUnlessEmpty(f, v) ==
  v # DefaultOf(f) /\ (f.kind = "message" => v # Default(f.type))

IsWritten(f, v) == v # DefaultOf(f)

Token(Inner(_, _), f, v) ==
  CASE f.kind \in {"number", "optional"} -> NumberToken(v)
    [] f.kind = "bytes" -> LengthToken(v)
    [] f.kind \in {"message", "oneof"} -> LengthToken(Inner(v, f.type))
    [] f.kind = "repeated" -> RepeatedToken([k \in DOMAIN v |-> Inner(v[k], f.type)])

WrittenFields(m, schema) == {f \in ToSet(schema) : IsWritten(f, m[f.name])}

SerializeWith(Inner(_, _), m, schema) ==
  [num \in {f.num : f \in WrittenFields(m, schema)} |->
     LET f == FieldNumbered(schema, num) IN Token(Inner, f, m[f.name])]

NoMessage(m, schema) == <<>>

SerializeFlat(m, schema) == SerializeWith(NoMessage, m, schema)

SerializeNested(m, schema) == SerializeWith(SerializeFlat, m, schema)

Serialize(m, schema) == SerializeWith(SerializeNested, m, schema)

-----------------------------------------------------------------------------
(* Reading: a field is what its number and wire type say; of the oneof the *)
(* last member counts.                                                     *)

Expects(f, token) ==
  token.wire = IF f.kind \in {"number", "optional"} THEN "varint" ELSE "length"

IsRead(f, payload, schema) ==
  /\ f.num \in DOMAIN payload
  /\ Expects(f, payload[f.num])
  /\ f.kind = "oneof" =>
       \A g \in ToSet(schema) :
         g.kind = "oneof" /\ g.num > f.num => g.num \notin DOMAIN payload

ValueRead(Inner(_, _), f, body) ==
  CASE f.kind \in {"number", "optional", "bytes"} -> body
    [] f.kind \in {"message", "oneof"} -> Inner(body, f.type)
    [] f.kind = "repeated" -> [k \in DOMAIN body |-> Inner(body[k], f.type)]

ParseWith(Inner(_, _), payload, schema) ==
  [name \in Names(schema) |->
     LET f == FieldNamed(schema, name) IN
     IF IsRead(f, payload, schema) THEN ValueRead(Inner, f, payload[f.num].body)
     ELSE DefaultOf(f)]

ParseFlat(payload, schema) == ParseWith(NoMessage, payload, schema)

ParseNested(payload, schema) == ParseWith(ParseFlat, payload, schema)

Parse(payload, schema) == ParseWith(ParseNested, payload, schema)

=============================================================================
