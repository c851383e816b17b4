-------------------------- MODULE Messages_proofs --------------------------
(***************************************************************************)
(* What is written is read, and what it takes fits: proofs about messages. *)
(*                                                                         *)
(* A message holds messages that hold messages, three deep at most.  Both  *)
(* the round trip and the size are proved level by level, from flat        *)
(* messages of numbers and bytes up to responses with a redirect.  On this *)
(* rest three invariants: of a message that is filled, written and read,   *)
(* of the size of a response, and of a command on its way to a follower    *)
(* and of its answer on the way back.                                      *)
(***************************************************************************)
EXTENDS Messages, TLAPS

-----------------------------------------------------------------------------
(* Levels.                                                                 *)

\* The numbers of fields fit the ladder of ByteSize, and no two fields share number or name.
WellFormed(schema) ==
  /\ \A f \in ToSet(schema) :
       /\ f.num \in 1..7
       /\ f.kind \in {"number", "optional"} => f.bits \in {1, 32, 64}
  /\ \A f, g \in ToSet(schema) : f.num = g.num \/ f.name = g.name => f = g

\* Levels of nesting: no message within, flat messages within, nested messages within.
IsFlat(schema) ==
  /\ WellFormed(schema)
  /\ \A f \in ToSet(schema) : f.kind \in {"number", "optional", "bytes"}

IsNested(schema) ==
  /\ WellFormed(schema)
  /\ \A f \in ToSet(schema) :
       \/ f.kind \in {"number", "optional", "bytes"}
       \/ f.kind = "message" /\ IsFlat(f.type)

IsDeep(schema) ==
  /\ WellFormed(schema)
  /\ \A f \in ToSet(schema) :
       \/ f.kind \in {"number", "optional", "bytes"}
       \/ f.kind \in {"message", "oneof", "repeated"} /\ IsNested(f.type)

\* A message has a value for each of its fields.
IsFilled(m, schema) == m = [name \in Names(schema) |-> m[name]]

\* A message whose messages have all their fields, one level below or two.
FitsNested(m, schema) ==
  /\ IsFilled(m, schema)
  /\ \A f \in WrittenFields(m, schema) : HasMessages(f) => IsFilled(m[f.name], f.type)

Fits(m, schema) ==
  /\ IsFilled(m, schema)
  /\ \A f \in WrittenFields(m, schema) :
       /\ f.kind \in {"message", "oneof"} => FitsNested(m[f.name], f.type)
       /\ f.kind = "repeated" =>
            /\ m[f.name] = [k \in DOMAIN m[f.name] |-> m[f.name][k]]
            /\ \A k \in DOMAIN m[f.name] : FitsNested(m[f.name][k], f.type)
  /\ \A f, g \in WrittenFields(m, schema) : f.kind = "oneof" /\ g.kind = "oneof" => f = g

\* What a field becomes, and what becomes of it, at each level.
TokenFlat(f, v) == Token(NoMessage, f, v)
TokenNested(f, v) == Token(SerializeFlat, f, v)
TokenDeep(f, v) == Token(SerializeNested, f, v)

ValueFlat(f, body) == ValueRead(NoMessage, f, body)
ValueNested(f, body) == ValueRead(ParseFlat, f, body)
ValueDeep(f, body) == ValueRead(ParseNested, f, body)

\* Fields are found by their names and by their numbers.
LEMMA Named ==
  ASSUME NEW schema, WellFormed(schema)
  PROVE  /\ \A f \in ToSet(schema) : FieldNamed(schema, f.name) = f /\ f.name \in Names(schema)
         /\ \A name \in Names(schema) :
              FieldNamed(schema, name) \in ToSet(schema) /\ FieldNamed(schema, name).name = name
         /\ \A f \in ToSet(schema) : FieldNumbered(schema, f.num) = f
BY DEF WellFormed, FieldNamed, FieldNumbered, Names

\* A reader finds the fields that were written, and no other.
LEMMA WhatIsRead ==
  ASSUME NEW schema, NEW m, NEW payload, NEW tok,
         WellFormed(schema),
         payload = [num \in {f.num : f \in WrittenFields(m, schema)} |->
                      tok[FieldNumbered(schema, num)]],
         \A f \in WrittenFields(m, schema) : Expects(f, tok[f]),
         \A f, g \in WrittenFields(m, schema) : f.kind = "oneof" /\ g.kind = "oneof" => f = g
  PROVE  \A f \in ToSet(schema) :
           /\ IsRead(f, payload, schema) <=> f \in WrittenFields(m, schema)
           /\ f \in WrittenFields(m, schema) => payload[f.num] = tok[f]
<1> DEFINE W == WrittenFields(m, schema)
<1>1. W \subseteq ToSet(schema)
  BY DEF WrittenFields
<1>2. \A f \in ToSet(schema) : f.num \in DOMAIN payload <=> f \in W
  BY <1>1 DEF WellFormed
<1>3. \A f \in W : payload[f.num] = tok[f]
  BY <1>1, Named
<1> HIDE DEF W
<1>4. ASSUME NEW f \in ToSet(schema), f \in W
      PROVE  IsRead(f, payload, schema)
  <2>1. \A g \in ToSet(schema) :
          f.kind = "oneof" /\ g.kind = "oneof" /\ g.num > f.num => g.num \notin DOMAIN payload
    <3> SUFFICES ASSUME NEW g \in ToSet(schema), f.kind = "oneof", g.kind = "oneof", g.num > f.num,
                        g \in W
                 PROVE  FALSE
      BY <1>2
    <3>1. f = g
      BY <1>4 DEF W
    <3>2. f.num > f.num
      BY <3>1
    <3> QED
      BY <3>2 DEF WellFormed
  <2> QED
    BY <1>2, <1>3, <1>4, <2>1 DEF IsRead, W
<1>5. ASSUME NEW f \in ToSet(schema), IsRead(f, payload, schema)
      PROVE  f \in W
  BY <1>2, <1>5 DEF IsRead
<1> QED
  BY <1>3, <1>4, <1>5 DEF W

\* What is written is read: level by level.
LEMMA FlatRoundTrip ==
  ASSUME NEW schema, NEW m, IsFlat(schema), IsFilled(m, schema)
  PROVE  ParseFlat(SerializeFlat(m, schema), schema) = m
<1> DEFINE W == WrittenFields(m, schema)
           tok == [f \in ToSet(schema) |-> TokenFlat(f, m[f.name])]
           payload == SerializeFlat(m, schema)
<1>1. WellFormed(schema) /\ \A f \in ToSet(schema) : f.kind \in {"number", "optional", "bytes"}
  BY DEF IsFlat
<1>2. W \subseteq ToSet(schema) /\ \A f \in ToSet(schema) \ W : m[f.name] = DefaultOf(f)
  BY DEF WrittenFields, IsWritten
<1>3. payload = [num \in {f.num : f \in W} |-> tok[FieldNumbered(schema, num)]]
  <2>1. payload = [num \in {f.num : f \in W} |->
                     TokenFlat(FieldNumbered(schema, num), m[FieldNumbered(schema, num).name])]
    BY DEF SerializeFlat, SerializeWith, TokenFlat
  <2>2. \A num \in {f.num : f \in W} : FieldNumbered(schema, num) \in ToSet(schema)
    BY <1>1, <1>2, Named
  <2> HIDE DEF payload
  <2> QED
    BY <2>1, <2>2
<1>4. \A f \in ToSet(schema) : Expects(f, tok[f]) /\ ValueFlat(f, tok[f].body) = m[f.name]
  BY <1>1 DEF Expects, TokenFlat, Token, NumberToken, LengthToken, ValueFlat, ValueRead
<1>5. \A f \in ToSet(schema) : f.kind # "oneof"
  BY <1>1
<1> HIDE DEF payload, tok
<1>6. \A f \in ToSet(schema) :
        /\ IsRead(f, payload, schema) <=> f \in W
        /\ f \in W => payload[f.num] = tok[f]
  BY <1>1, <1>2, <1>3, <1>4, <1>5, WhatIsRead
<1>7. ParseFlat(payload, schema) =
        [name \in Names(schema) |->
           LET f == FieldNamed(schema, name) IN
           IF IsRead(f, payload, schema) THEN ValueFlat(f, payload[f.num].body) ELSE DefaultOf(f)]
  BY DEF ParseFlat, ParseWith, ValueFlat
<1> HIDE DEF W
<1>8. ASSUME NEW name \in Names(schema)
      PROVE  LET f == FieldNamed(schema, name) IN
             (IF IsRead(f, payload, schema) THEN ValueFlat(f, payload[f.num].body)
              ELSE DefaultOf(f)) = m[name]
  BY <1>1, <1>2, <1>4, <1>6, Named
<1> QED
  BY <1>7, <1>8 DEF IsFilled, payload

LEMMA NestedRoundTrip ==
  ASSUME NEW schema, NEW m, IsNested(schema), FitsNested(m, schema)
  PROVE  ParseNested(SerializeNested(m, schema), schema) = m
<1> DEFINE W == WrittenFields(m, schema)
           tok == [f \in ToSet(schema) |-> TokenNested(f, m[f.name])]
           payload == SerializeNested(m, schema)
<1>1. WellFormed(schema) /\ IsFilled(m, schema)
  BY DEF IsNested, FitsNested
<1>2. W \subseteq ToSet(schema) /\ \A f \in ToSet(schema) \ W : m[f.name] = DefaultOf(f)
  BY DEF WrittenFields, IsWritten
<1>3. payload = [num \in {f.num : f \in W} |-> tok[FieldNumbered(schema, num)]]
  <2>1. payload = [num \in {f.num : f \in W} |->
                     TokenNested(FieldNumbered(schema, num), m[FieldNumbered(schema, num).name])]
    BY DEF SerializeNested, SerializeWith, TokenNested
  <2>2. \A num \in {f.num : f \in W} : FieldNumbered(schema, num) \in ToSet(schema)
    BY <1>1, <1>2, Named
  <2> HIDE DEF payload
  <2> QED
    BY <2>1, <2>2
<1>4. ASSUME NEW f \in W
      PROVE  Expects(f, tok[f]) /\ ValueNested(f, tok[f].body) = m[f.name]
  <2>1. f \in ToSet(schema) /\ tok[f] = TokenNested(f, m[f.name])
    BY <1>2
  <2> HIDE DEF tok
  <2>2. CASE f.kind \in {"number", "optional", "bytes"}
    BY <2>1, <2>2
       DEF Expects, TokenNested, Token, NumberToken, LengthToken, ValueNested, ValueRead
  <2>3. CASE f.kind = "message" /\ IsFlat(f.type)
    <3>1. IsFilled(m[f.name], f.type)
      BY <2>3 DEF FitsNested, HasMessages
    <3>2. ParseFlat(SerializeFlat(m[f.name], f.type), f.type) = m[f.name]
      BY <2>3, <3>1, FlatRoundTrip
    <3>3. tok[f].wire = "length" /\ tok[f].body = SerializeFlat(m[f.name], f.type)
      BY <2>1, <2>3 DEF TokenNested, Token, LengthToken
    <3>4. ValueNested(f, tok[f].body) = ParseFlat(tok[f].body, f.type)
      BY <2>3 DEF ValueNested, ValueRead
    <3> QED
      BY <2>3, <3>2, <3>3, <3>4 DEF Expects
  <2> QED
    BY <2>1, <2>2, <2>3 DEF IsNested
<1>5. \A f \in W : f.kind # "oneof"
  BY <1>2 DEF IsNested
<1> HIDE DEF payload, tok
<1>6. \A f \in ToSet(schema) :
        /\ IsRead(f, payload, schema) <=> f \in W
        /\ f \in W => payload[f.num] = tok[f]
  BY <1>1, <1>2, <1>3, <1>4, <1>5, WhatIsRead
<1>7. ParseNested(payload, schema) =
        [name \in Names(schema) |->
           LET f == FieldNamed(schema, name) IN
           IF IsRead(f, payload, schema) THEN ValueNested(f, payload[f.num].body) ELSE DefaultOf(f)]
  BY DEF ParseNested, ParseWith, ValueNested
<1> HIDE DEF W
<1>8. ASSUME NEW name \in Names(schema)
      PROVE  LET f == FieldNamed(schema, name) IN
             (IF IsRead(f, payload, schema) THEN ValueNested(f, payload[f.num].body)
              ELSE DefaultOf(f)) = m[name]
  BY <1>1, <1>2, <1>4, <1>6, Named
<1> QED
  BY <1>1, <1>7, <1>8 DEF IsFilled, payload
LEMMA DeepRoundTrip ==
  ASSUME NEW schema, NEW m, IsDeep(schema), Fits(m, schema)
  PROVE  Parse(Serialize(m, schema), schema) = m
<1> DEFINE W == WrittenFields(m, schema)
           tok == [f \in ToSet(schema) |-> TokenDeep(f, m[f.name])]
           payload == Serialize(m, schema)
<1>1. WellFormed(schema) /\ IsFilled(m, schema)
  BY DEF IsDeep, Fits
<1>2. W \subseteq ToSet(schema) /\ \A f \in ToSet(schema) \ W : m[f.name] = DefaultOf(f)
  BY DEF WrittenFields, IsWritten
<1>3. payload = [num \in {f.num : f \in W} |-> tok[FieldNumbered(schema, num)]]
  <2>1. payload = [num \in {f.num : f \in W} |->
                     TokenDeep(FieldNumbered(schema, num), m[FieldNumbered(schema, num).name])]
    BY DEF Serialize, SerializeWith, TokenDeep
  <2>2. \A num \in {f.num : f \in W} : FieldNumbered(schema, num) \in ToSet(schema)
    BY <1>1, <1>2, Named
  <2> HIDE DEF payload
  <2> QED
    BY <2>1, <2>2
<1>4. ASSUME NEW f \in W
      PROVE  Expects(f, tok[f]) /\ ValueDeep(f, tok[f].body) = m[f.name]
  <2>1. f \in ToSet(schema) /\ tok[f] = TokenDeep(f, m[f.name])
    BY <1>2
  <2> HIDE DEF tok
  <2>2. CASE f.kind \in {"number", "optional", "bytes"}
    BY <2>1, <2>2
       DEF Expects, TokenDeep, Token, NumberToken, LengthToken, ValueDeep, ValueRead
  <2>3. CASE f.kind \in {"message", "oneof"} /\ IsNested(f.type)
    <3>1. FitsNested(m[f.name], f.type)
      BY <2>3 DEF Fits
    <3>2. ParseNested(SerializeNested(m[f.name], f.type), f.type) = m[f.name]
      BY <2>3, <3>1, NestedRoundTrip
    <3>3. tok[f].wire = "length" /\ tok[f].body = SerializeNested(m[f.name], f.type)
      BY <2>1, <2>3 DEF TokenDeep, Token, LengthToken
    <3>4. ValueDeep(f, tok[f].body) = ParseNested(tok[f].body, f.type)
      BY <2>3 DEF ValueDeep, ValueRead
    <3> QED
      BY <2>3, <3>2, <3>3, <3>4 DEF Expects
  <2>4. CASE f.kind = "repeated" /\ IsNested(f.type)
    <3> DEFINE v == m[f.name]
               bodies == [k \in DOMAIN v |-> SerializeNested(v[k], f.type)]
    <3>1. v = [k \in DOMAIN v |-> v[k]] /\ \A k \in DOMAIN v : FitsNested(v[k], f.type)
      BY <2>4 DEF Fits
    <3>2. \A k \in DOMAIN v : ParseNested(bodies[k], f.type) = v[k]
      BY <2>4, <3>1, NestedRoundTrip
    <3>3. tok[f].wire = "length" /\ tok[f].body = bodies
      BY <2>1, <2>4 DEF TokenDeep, Token, RepeatedToken
    <3>4. ValueDeep(f, bodies) = [k \in DOMAIN bodies |-> ParseNested(bodies[k], f.type)]
      BY <2>4 DEF ValueDeep, ValueRead
    <3>5. DOMAIN bodies = DOMAIN v
      OBVIOUS
    <3> HIDE DEF bodies
    <3>6. [k \in DOMAIN bodies |-> ParseNested(bodies[k], f.type)] = [k \in DOMAIN v |-> v[k]]
      BY <3>2, <3>5
    <3> QED
      BY <2>4, <3>1, <3>3, <3>4, <3>6 DEF Expects
  <2> QED
    BY <2>1, <2>2, <2>3, <2>4 DEF IsDeep
<1>5. \A f, g \in W : f.kind = "oneof" /\ g.kind = "oneof" => f = g
  BY DEF Fits
<1> HIDE DEF payload, tok
<1>6. \A f \in ToSet(schema) :
        /\ IsRead(f, payload, schema) <=> f \in W
        /\ f \in W => payload[f.num] = tok[f]
  BY <1>1, <1>2, <1>3, <1>4, <1>5, WhatIsRead
<1>7. Parse(payload, schema) =
        [name \in Names(schema) |->
           LET f == FieldNamed(schema, name) IN
           IF IsRead(f, payload, schema) THEN ValueDeep(f, payload[f.num].body) ELSE DefaultOf(f)]
  BY DEF Parse, ParseWith, ValueDeep
<1> HIDE DEF W
<1>8. ASSUME NEW name \in Names(schema)
      PROVE  LET f == FieldNamed(schema, name) IN
             (IF IsRead(f, payload, schema) THEN ValueDeep(f, payload[f.num].body)
              ELSE DefaultOf(f)) = m[name]
  BY <1>1, <1>2, <1>4, <1>6, Named
<1> QED
  BY <1>1, <1>7, <1>8 DEF IsFilled, payload

-----------------------------------------------------------------------------
(* The types of the .proto files.                                          *)

LEMMA Set1 == ASSUME NEW a PROVE ToSet(<<a>>) = {a}
BY DEF ToSet
LEMMA Set2 == ASSUME NEW a, NEW b PROVE ToSet(<<a, b>>) = {a, b}
BY DEF ToSet
LEMMA Set3 == ASSUME NEW a, NEW b, NEW c PROVE ToSet(<<a, b, c>>) = {a, b, c}
BY DEF ToSet
LEMMA Set4 == ASSUME NEW a, NEW b, NEW c, NEW d PROVE ToSet(<<a, b, c, d>>) = {a, b, c, d}
BY DEF ToSet
LEMMA Set6 ==
  ASSUME NEW a, NEW b, NEW c, NEW d, NEW e, NEW f
  PROVE  ToSet(<<a, b, c, d, e, f>>) = {a, b, c, d, e, f}
BY DEF ToSet
LEMMA Set7 ==
  ASSUME NEW a, NEW b, NEW c, NEW d, NEW e, NEW f, NEW g
  PROVE  ToSet(<<a, b, c, d, e, f, g>>) = {a, b, c, d, e, f, g}
BY DEF ToSet

\* What the constructors of fields say of kinds.
LEMMA ScalarFields ==
  ASSUME NEW num, NEW name
  PROVE  /\ Number(num, name).num = num /\ Number(num, name).name = name
         /\ Number(num, name).kind = "number" /\ Number(num, name).bits = 64
         /\ Number32(num, name).num = num /\ Number32(num, name).name = name
         /\ Number32(num, name).kind = "number" /\ Number32(num, name).bits = 32
         /\ Flag(num, name).num = num /\ Flag(num, name).name = name
         /\ Flag(num, name).kind = "number" /\ Flag(num, name).bits = 1
         /\ Optional(num, name).num = num /\ Optional(num, name).name = name
         /\ Optional(num, name).kind = "optional" /\ Optional(num, name).bits = 64
         /\ Bytes(num, name).num = num /\ Bytes(num, name).name = name
         /\ Bytes(num, name).kind = "bytes"
BY DEF Number, Number32, Flag, Optional, Bytes

LEMMA MessageFields ==
  ASSUME NEW num, NEW name, NEW ty
  PROVE  /\ Message(num, name, ty).num = num /\ Message(num, name, ty).name = name
         /\ Message(num, name, ty).kind = "message" /\ Message(num, name, ty).type = ty
         /\ OneOf(num, name, ty).num = num /\ OneOf(num, name, ty).name = name
         /\ OneOf(num, name, ty).kind = "oneof" /\ OneOf(num, name, ty).type = ty
         /\ Repeated(num, name, ty).num = num /\ Repeated(num, name, ty).name = name
         /\ Repeated(num, name, ty).kind = "repeated" /\ Repeated(num, name, ty).type = ty
BY DEF Message, OneOf, Repeated

LEMMA FlatIsNested == ASSUME NEW s, IsFlat(s) PROVE IsNested(s)
BY DEF IsFlat, IsNested
LEMMA NestedIsDeep == ASSUME NEW s, IsNested(s) PROVE IsDeep(s)
<1>1. ASSUME NEW f, IsFlat(f) PROVE IsNested(f)
  BY <1>1, FlatIsNested
<1> QED
  BY <1>1 DEF IsNested, IsDeep

\* Each type of message is of one of the three levels.
LEMMA FlatTypes ==
  /\ IsFlat(RpcRedirect) /\ IsFlat(KeyValue) /\ IsFlat(PutRequest) /\ IsFlat(GetRequest)
  /\ IsFlat(DeleteRequest) /\ IsFlat(ResponseHeader) /\ IsFlat(PersistState)
  /\ IsFlat(RequestVoteRequest) /\ IsFlat(LogEntry) /\ IsFlat(InstallSnapshotRequest)
<1>1. IsFlat(RpcRedirect)
  BY Set2, ScalarFields DEF IsFlat, WellFormed, RpcRedirect
<1>2. IsFlat(KeyValue) /\ IsFlat(PutRequest)
  BY Set2, ScalarFields DEF IsFlat, WellFormed, KeyValue, PutRequest
<1>3. IsFlat(GetRequest) /\ IsFlat(DeleteRequest)
  BY Set1, ScalarFields DEF IsFlat, WellFormed, GetRequest, DeleteRequest
<1>4. IsFlat(ResponseHeader)
  BY Set3, ScalarFields DEF IsFlat, WellFormed, ResponseHeader
<1>5. IsFlat(PersistState)
  BY Set2, ScalarFields DEF IsFlat, WellFormed, PersistState
<1>6. IsFlat(RequestVoteRequest)
  BY Set4, ScalarFields DEF IsFlat, WellFormed, RequestVoteRequest
<1>7. IsFlat(LogEntry)
  BY Set3, ScalarFields DEF IsFlat, WellFormed, LogEntry
<1>8. IsFlat(InstallSnapshotRequest)
  BY Set7, ScalarFields DEF IsFlat, WellFormed, InstallSnapshotRequest
<1> QED
  BY <1>1, <1>2, <1>3, <1>4, <1>5, <1>6, <1>7, <1>8

LEMMA NestedTypes ==
  /\ IsNested(RpcResponseHeader) /\ IsNested(RequestVoteResponse)
  /\ IsNested(AppendEntriesResponse) /\ IsNested(InstallSnapshotResponse)
<1>1. IsNested(RpcResponseHeader)
  BY Set3, ScalarFields, MessageFields, FlatTypes DEF IsNested, WellFormed, RpcResponseHeader
<1>2. IsNested(RequestVoteResponse)
  BY Set2, ScalarFields, MessageFields, FlatTypes DEF IsNested, WellFormed, RequestVoteResponse
<1>3. IsNested(AppendEntriesResponse)
  BY Set4, ScalarFields, MessageFields, FlatTypes DEF IsNested, WellFormed, AppendEntriesResponse
<1>4. IsNested(InstallSnapshotResponse)
  BY Set1, MessageFields, FlatTypes DEF IsNested, WellFormed, InstallSnapshotResponse
<1> QED
  BY <1>1, <1>2, <1>3, <1>4

LEMMA DeepTypes == \A s \in Types : IsDeep(s)
<1>1. IsDeep(PutResponse) /\ IsDeep(DeleteResponse)
  BY Set1, MessageFields, NestedTypes DEF IsDeep, WellFormed, PutResponse, DeleteResponse
<1>2. IsDeep(GetResponse)
  BY Set2, MessageFields, NestedTypes, FlatTypes, FlatIsNested DEF IsDeep, WellFormed, GetResponse
<1>3. IsDeep(AppendEntriesRequest)
  BY Set6, ScalarFields, MessageFields, FlatTypes, FlatIsNested
     DEF IsDeep, WellFormed, AppendEntriesRequest
<1>4. IsDeep(InternalRaftRequest)
  BY Set3, MessageFields, FlatTypes, FlatIsNested DEF IsDeep, WellFormed, InternalRaftRequest
<1> QED
  BY <1>1, <1>2, <1>3, <1>4, FlatTypes, NestedTypes, FlatIsNested, NestedIsDeep DEF Types

-----------------------------------------------------------------------------
(* A message that is filled, written and read.                             *)

\* A value for one field of a message that fits.
FitsField(f, v) ==
  v # DefaultOf(f) =>
    /\ f.kind \in {"message", "oneof"} => FitsNested(v, f.type)
    /\ f.kind = "repeated" =>
         v = [k \in DOMAIN v |-> v[k]] /\ \A k \in DOMAIN v : FitsNested(v[k], f.type)

\* Empty messages and full ones fit, and setters keep it so.
LEMMA DefaultFits ==
  ASSUME NEW schema, WellFormed(schema)
  PROVE  FitsNested(Default(schema), schema) /\ Fits(Default(schema), schema)
<1>1. IsFilled(Default(schema), schema)
  BY DEF IsFilled, Default
<1>2. \A f \in ToSet(schema) : Default(schema)[f.name] = DefaultOf(f)
  BY Named DEF Default
<1>3. WrittenFields(Default(schema), schema) = {}
  BY <1>2 DEF WrittenFields, IsWritten
<1> QED
  BY <1>1, <1>3 DEF FitsNested, Fits

LEMMA FullFits ==
  ASSUME NEW schema, IsNested(schema)
  PROVE  FitsNested(Full(schema), schema)
<1>1. WellFormed(schema)
  BY DEF IsNested
<1>2. IsFilled(Full(schema), schema)
  <2> DEFINE Value(name) ==
               LET f == FieldNamed(schema, name) IN
               CASE f.kind \in {"number", "optional"} -> CHOOSE v \in Numbers : IsWithin(v, f.bits)
                 [] f.kind = "bytes" -> CHOOSE text \in Texts : TRUE
                 [] f.kind \in {"message", "oneof"} -> FullFlat(f.type)
                 [] f.kind = "repeated" -> <<FullFlat(f.type), FullFlat(f.type)>>
  <2>1. Full(schema) = [name \in Names(schema) |-> Value(name)]
    BY DEF Full, FullWith
  <2> HIDE DEF Value
  <2> QED
    BY <2>1 DEF IsFilled
<1>3. ASSUME NEW f \in ToSet(schema), HasMessages(f)
      PROVE  IsFilled(Full(schema)[f.name], f.type)
  <2>1. f.kind = "message"
    BY <1>3 DEF IsNested, HasMessages
  <2>2. f.name \in Names(schema) /\ FieldNamed(schema, f.name) = f
    BY <1>1, Named
  <2>3. Full(schema)[f.name] = FullFlat(f.type)
    BY <2>1, <2>2 DEF Full, FullWith
  <2> QED
    BY <2>3 DEF IsFilled, FullFlat, FullWith
<1> QED
  BY <1>2, <1>3 DEF FitsNested, WrittenFields

LEMMA SomeValuesFit ==
  ASSUME NEW schema, IsDeep(schema), NEW f \in ToSet(schema), NEW v \in SomeValues(f)
  PROVE  FitsField(f, v)
<1>1. CASE f.kind \in {"number", "optional", "bytes"}
  BY <1>1 DEF FitsField
<1>2. CASE f.kind \in {"message", "oneof", "repeated"} /\ IsNested(f.type)
  <2>1. FitsNested(Default(f.type), f.type) /\ FitsNested(Full(f.type), f.type)
    BY <1>2, DefaultFits, FullFits DEF IsNested
  <2>2. CASE f.kind \in {"message", "oneof"}
    <3>1. v \in {Nil, Default(f.type), Full(f.type)} /\ DefaultOf(f) = Nil
      BY <2>2 DEF SomeValues, DefaultOf, HasPresence
    <3> QED
      BY <2>1, <2>2, <3>1 DEF FitsField
  <2>3. CASE f.kind = "repeated"
    <3>1. v \in {<<>>} \union {<<a, b>> : a, b \in {Default(f.type), Full(f.type)}}
      BY <2>3 DEF SomeValues
    <3>2. DefaultOf(f) = <<>>
      BY <2>3 DEF DefaultOf, HasPresence
    <3>3. ASSUME NEW a \in {Default(f.type), Full(f.type)},
                 NEW b \in {Default(f.type), Full(f.type)},
                 v = <<a, b>>
          PROVE  FitsField(f, v)
      <4>1. DOMAIN v = {1, 2} /\ v[1] = a /\ v[2] = b
        BY <3>3
      <4>2. \A k \in DOMAIN v : FitsNested(v[k], f.type)
        BY <2>1, <4>1
      <4>3. v = [k \in DOMAIN v |-> v[k]]
        BY <3>3
      <4> QED
        BY <2>3, <4>2, <4>3 DEF FitsField
    <3> QED
      BY <3>1, <3>2, <3>3 DEF FitsField
  <2> QED
    BY <1>2, <2>2, <2>3
<1> QED
  BY <1>1, <1>2 DEF IsDeep

LEMMA SetFits ==
  ASSUME NEW schema, IsDeep(schema), NEW m, Fits(m, schema), NEW f \in ToSet(schema), NEW v,
         FitsField(f, v)
  PROVE  Fits(Set(m, schema, f, v), schema)
<1> DEFINE s == Set(m, schema, f, v)
<1>1. WellFormed(schema)
  BY DEF IsDeep
<1>2. IsFilled(s, schema)
  BY DEF IsFilled, Set
<1>3. s[f.name] = v
  BY <1>1, Named DEF Set
<1>4. ASSUME NEW g \in ToSet(schema), g # f
      PROVE  s[g.name] = IF f.kind = "oneof" /\ g.kind = "oneof" THEN Nil ELSE m[g.name]
  BY <1>1, <1>4, Named DEF Set, WellFormed
<1> HIDE DEF s
<1>5. ASSUME NEW g \in WrittenFields(s, schema), g # f
      PROVE  /\ g \in WrittenFields(m, schema) /\ s[g.name] = m[g.name]
             /\ ~ (f.kind = "oneof" /\ g.kind = "oneof")
  BY <1>4, <1>5 DEF WrittenFields, IsWritten, DefaultOf, HasPresence
<1>6. ASSUME f \in WrittenFields(s, schema)
      PROVE  v # DefaultOf(f)
  BY <1>3, <1>6 DEF WrittenFields, IsWritten
<1>7. ASSUME NEW g \in WrittenFields(s, schema)
      PROVE  /\ g.kind \in {"message", "oneof"} => FitsNested(s[g.name], g.type)
             /\ g.kind = "repeated" =>
                  /\ s[g.name] = [k \in DOMAIN s[g.name] |-> s[g.name][k]]
                  /\ \A k \in DOMAIN s[g.name] : FitsNested(s[g.name][k], g.type)
  <2>1. CASE g = f
    BY <1>3, <1>6, <1>7, <2>1 DEF FitsField
  <2>2. CASE g # f
    BY <1>5, <1>7, <2>2 DEF Fits
  <2> QED
    BY <2>1, <2>2
<1>8. ASSUME NEW g \in WrittenFields(s, schema), NEW h \in WrittenFields(s, schema),
             g.kind = "oneof", h.kind = "oneof"
      PROVE  g = h
  BY <1>5, <1>8 DEF Fits
<1> QED
  BY <1>2, <1>7, <1>8 DEF Fits, s

\* A message fits its type however far it is filled; on the wire is what was filled last,
\* and what was read is what was written.
ExchangeInv ==
  /\ type = Nil \/ (type \in Types /\ Fits(message, type))
  /\ written # Nil => type # Nil /\ written = Serialize(message, type)
  /\ read # Nil => written # Nil /\ read = message

\* A response as produce_*_response makes it: with an empty header.
LEMMA HeaderFits ==
  ASSUME NEW schema \in Responses
  PROVE  Fits([Default(schema) EXCEPT !.header = Default(schema[1].type)], schema)
<1> DEFINE t == schema[1].type
           m == [Default(schema) EXCEPT !.header = Default(t)]
<1>1. IsDeep(schema) /\ WellFormed(schema) /\ schema \in Types
  BY DeepTypes DEF Responses, Types, IsDeep
<1>2. IsFilled(m, schema)
  BY DEF IsFilled, Default
<1>3. \A f \in ToSet(schema) : 
        f.name = "header" => f.kind = "message" /\ f = schema[1] /\ IsNested(f.type)
  <2>1. CASE schema = PutResponse \/ schema = DeleteResponse
    BY <2>1, Set1, MessageFields, NestedTypes DEF PutResponse, DeleteResponse
  <2>2. CASE schema = GetResponse
    BY <2>2, Set2, MessageFields, NestedTypes DEF GetResponse
  <2>3. CASE schema = RequestVoteResponse
    BY <2>3, Set2, MessageFields, ScalarFields, FlatTypes, FlatIsNested DEF RequestVoteResponse
  <2>4. CASE schema = AppendEntriesResponse
    BY <2>4, Set4, MessageFields, ScalarFields, FlatTypes, FlatIsNested DEF AppendEntriesResponse
  <2>5. CASE schema = InstallSnapshotResponse
    BY <2>5, Set1, MessageFields, FlatTypes, FlatIsNested DEF InstallSnapshotResponse
  <2> QED
    BY <2>1, <2>2, <2>3, <2>4, <2>5 DEF Responses
<1>4. \A f \in ToSet(schema) : m[f.name] = IF f.name = "header" THEN Default(t) ELSE DefaultOf(f)
  BY <1>1, Named DEF Default
<1>5. \A f \in WrittenFields(m, schema) : f \in ToSet(schema) /\ f.name = "header"
  BY <1>4 DEF WrittenFields, IsWritten
<1> HIDE DEF m, t
<1>6. \A f \in WrittenFields(m, schema) : f.kind = "message" /\ FitsNested(m[f.name], f.type)
  BY <1>3, <1>4, <1>5, DefaultFits DEF IsNested, t
<1> QED
  BY <1>2, <1>6 DEF Fits, m, t

LEMMA ExchangeInitially == Init => ExchangeInv
BY DEF Init, ExchangeInv

LEMMA ExchangeStep == ExchangeInv /\ [Next]_vars => ExchangeInv'
<1> SUFFICES ASSUME ExchangeInv, [Next]_vars PROVE ExchangeInv'
  OBVIOUS
<1>1. ASSUME NEW schema \in Types, Create(schema)
      PROVE  ExchangeInv'
  <2>1. IsDeep(schema) /\ WellFormed(schema)
    BY DeepTypes DEF IsDeep
  <2>2. type' = schema /\ UNCHANGED <<written, read>> /\ type = Nil
    BY <1>1 DEF Create
  <2>3. Fits(message', schema)
    <3>1. CASE schema \in Responses
      BY <1>1, <3>1, HeaderFits DEF Create
    <3>2. CASE schema \notin Responses
      BY <1>1, <2>1, <3>2, DefaultFits DEF Create
    <3> QED
      BY <3>1, <3>2
  <2> QED
    BY <2>2, <2>3 DEF ExchangeInv
<1>2. ASSUME NEW f, Fill(f)
      PROVE  ExchangeInv'
  <2>1. type # Nil /\ written = Nil /\ f \in ToSet(type) /\ UNCHANGED <<type, written, read>>
    BY <1>2 DEF Fill
  <2>2. PICK v \in SomeValues(f) : message' = Set(message, type, f, v)
    BY <1>2 DEF Fill
  <2>3. type \in Types /\ Fits(message, type) /\ IsDeep(type)
    BY <2>1, DeepTypes DEF ExchangeInv
  <2>4. Fits(message', type)
    BY <2>1, <2>2, <2>3, SetFits, SomeValuesFit
  <2> QED
    BY <2>1, <2>3, <2>4 DEF ExchangeInv
<1>3. CASE Write
  BY <1>3 DEF Write, ExchangeInv
<1>4. CASE Read
  <2>1. type \in Types /\ Fits(message, type) /\ written = Serialize(message, type)
    BY <1>4 DEF Read, ExchangeInv
  <2>2. Parse(written, type) = message
    BY <2>1, DeepTypes, DeepRoundTrip
  <2> QED
    BY <1>4, <2>1, <2>2 DEF Read, ExchangeInv
<1>5. CASE UNCHANGED exchangeVars
  BY <1>5 DEF ExchangeInv, exchangeVars
<1>6. ASSUME Journey PROVE UNCHANGED exchangeVars
  BY <1>6 DEF Journey, Call, RefuseRequest, Redirect, FailPropose, Propose, RefuseAppend,
              AcceptAppend, ApplyEntry, Recover, Apply, Respond, DropAnswer, ReadAnswer
<1>7. ASSUME UNCHANGED vars PROVE UNCHANGED exchangeVars
  BY <1>7 DEF vars
<1> QED
  BY <1>1, <1>2, <1>3, <1>4, <1>5, <1>6, <1>7 DEF Next, Exchange

\* Whatever SerializeToString leaves out, ParseFromString fills in: defaults, votes that are
\* absent, empty messages within messages.
THEOREM WhatIsReadWasWritten == Spec => []ReadAsWritten
<1>1. ExchangeInv => ReadAsWritten
  BY DEF ExchangeInv, ReadAsWritten
<1> QED
  BY <1>1, ExchangeInitially, ExchangeStep, PTL DEF Spec

-----------------------------------------------------------------------------
(* Sums.                                                                   *)

\* FoldLeft adds up from the last element down, by the CHOOSE of a function on all sets of
\* indices.  That there is such a function is what takes a witness: the sums of the parts.
LEMMA MaxOfRange ==
  ASSUME NEW n \in Nat \ {0}
  PROVE  Max(1..n) = n
BY DEF Max

LEMMA MaxIsThere ==
  ASSUME NEW T \in SUBSET (1..7), T # {}
  PROVE  Max(T) \in T
<1>1. \E x \in T : \A y \in T : x >= y
  <2>1. CASE 7 \in T
    BY <2>1
  <2>2. CASE 7 \notin T /\ 6 \in T
    BY <2>2
  <2>3. CASE 7 \notin T /\ 6 \notin T /\ 5 \in T
    BY <2>3
  <2>4. CASE 7 \notin T /\ 6 \notin T /\ 5 \notin T /\ 4 \in T
    BY <2>4
  <2>5. CASE 7 \notin T /\ 6 \notin T /\ 5 \notin T /\ 4 \notin T /\ 3 \in T
    BY <2>5
  <2>6. CASE 7 \notin T /\ 6 \notin T /\ 5 \notin T /\ 4 \notin T /\ 3 \notin T /\ 2 \in T
    BY <2>6
  <2>7. CASE 7 \notin T /\ 6 \notin T /\ 5 \notin T /\ 4 \notin T /\ 3 \notin T /\ 2 \notin T
    <3>1. \A k \in T : k = 1
      BY <2>7
    <3>2. PICK k \in T : TRUE
      OBVIOUS
    <3>3. \A y \in T : k >= y
      BY <3>1
    <3> QED
      BY <3>3
  <2> QED
    BY <2>1, <2>2, <2>3, <2>4, <2>5, <2>6, <2>7
<1> QED
  BY <1>1 DEF Max

\* A sum over the seven numbers that a field may have.
Seven(a) == a[1] + a[2] + a[3] + a[4] + a[5] + a[6] + a[7]

LEMMA SumWithout ==
  ASSUME NEW a \in [1..7 -> Nat], NEW b \in [1..7 -> Nat], NEW m \in 1..7,
         \A k \in 1..7 : k # m => b[k] = a[k],
         b[m] = 0
  PROVE  Seven(a) = Seven(b) + a[m]
<1>1. m = 1 \/ m = 2 \/ m = 3 \/ m = 4 \/ m = 5 \/ m = 6 \/ m = 7
  OBVIOUS
<1>2. /\ a[1] \in Nat /\ a[2] \in Nat /\ a[3] \in Nat /\ a[4] \in Nat
      /\ a[5] \in Nat /\ a[6] \in Nat /\ a[7] \in Nat
  OBVIOUS
<1>3. /\ 1 # m => b[1] = a[1]
      /\ 2 # m => b[2] = a[2]
      /\ 3 # m => b[3] = a[3]
      /\ 4 # m => b[4] = a[4]
      /\ 5 # m => b[5] = a[5]
      /\ 6 # m => b[6] = a[6]
      /\ 7 # m => b[7] = a[7]
  OBVIOUS
<1> QED
  BY <1>1, <1>2, <1>3 DEF Seven

\* The fold is the sum.
LEMMA TotalUnfolds ==
  ASSUME NEW n \in 1..7, NEW s \in [1..n -> Nat]
  PROVE  LET at(k) == IF k <= n THEN s[k] ELSE 0
         IN  Total(s) = at(1) + at(2) + at(3) + at(4) + at(5) + at(6) + at(7)
<1> DEFINE at(k) == IF k <= n THEN s[k] ELSE 0
           part(T) == [k \in 1..7 |-> IF k \in T THEN s[k] ELSE 0]
           Step(f, T) == IF T = {} THEN 0 ELSE f[T \ {Max(T)}] + s[Max(T)]
           F(f) == [T \in SUBSET (1..n) |-> Step(f, T)]
           g == [T \in SUBSET (1..n) |-> Seven(part(T))]
           iter == CHOOSE f : f = F(f)
<1>1. Total(s) = iter[1..n]
  BY DEF Total, FoldLeft, MapThenFoldSet
<1>2. g = F(g)
  <2>1. ASSUME NEW T \in SUBSET (1..n)
        PROVE  g[T] = Step(g, T)
    <3>1. CASE T = {}
      BY <3>1 DEF Seven
    <3>2. CASE T # {}
      <4> DEFINE m == Max(T)
                 R == T \ {m}
      <4>1. m \in T /\ m \in 1..7 /\ m \in 1..n
        <5>1. T \in SUBSET (1..7)
          OBVIOUS
        <5>2. m \in T
          BY <3>2, <5>1, MaxIsThere
        <5> QED
          BY <5>1, <5>2
      <4>2. /\ part(T) \in [1..7 -> Nat] /\ part(R) \in [1..7 -> Nat]
            /\ \A k \in 1..7 : k # m => part(R)[k] = part(T)[k]
            /\ part(R)[m] = 0 /\ part(T)[m] = s[m]
        BY <4>1
      <4>3. g[R] = Seven(part(R)) /\ g[T] = Seven(part(T))
        OBVIOUS
      <4>4. Seven(part(T)) = Seven(part(R)) + s[m]
        <5> DEFINE a == part(T)
                   b == part(R)
        <5>1. /\ a \in [1..7 -> Nat] /\ b \in [1..7 -> Nat] /\ m \in 1..7
              /\ \A k \in 1..7 : k # m => b[k] = a[k]
              /\ b[m] = 0 /\ a[m] = s[m]
          BY <4>1, <4>2
        <5> HIDE DEF a, b, m, R, part, Step, F, g, iter
        <5>2. Seven(a) = Seven(b) + a[m]
          BY <5>1, SumWithout, ZenonT(30)
        <5>3. Seven(a) = Seven(b) + s[m]
          BY <5>1, <5>2
        <5> QED
          BY <5>3 DEF a, b
      <4> QED
        BY <3>2, <4>3, <4>4
    <3> QED
      BY <3>1, <3>2
  <2> HIDE DEF Step
  <2>2. \A T \in SUBSET (1..n) : g[T] = Step(g, T)
    BY <2>1
  <2> HIDE DEF g
  <2>3. g = [T \in SUBSET (1..n) |-> g[T]]
    BY DEF g
  <2> QED
    BY <2>2, <2>3
<1>3. iter = F(iter)
  <2> HIDE DEF F
  <2> QED
    BY <1>2
<1>4. \A T \in SUBSET (1..n) : iter[T] = Step(iter, T)
  <2> HIDE DEF iter
  <2> QED
    BY <1>3
<1>5. iter[{}] = 0
  BY <1>4
<1> HIDE DEF iter
<1>6. \A k \in 1..n : iter[1..k] = iter[1..(k - 1)] + s[k]
  <2> SUFFICES ASSUME NEW k \in 1..n PROVE iter[1..k] = iter[1..(k - 1)] + s[k]
    OBVIOUS
  <2>1. Max(1..k) = k /\ 1..k # {} /\ (1..k) \ {k} = 1..(k - 1) /\ 1..k \in SUBSET (1..n)
    BY MaxOfRange
  <2> QED
    BY <1>4, <2>1
<1>7. \A k \in 1..7 : k <= n => iter[1..k] = iter[1..(k - 1)] + s[k]
  BY <1>6
<1>8. iter[1..0] = 0
  <2>1. 1..0 = {}
    OBVIOUS
  <2> QED
    BY <1>5, <2>1
<1> QED
  <2> DEFINE h(k) == iter[1..k]
  <2>1. /\ h(0) = 0
        /\ 1 <= n => h(1) = h(0) + s[1]
        /\ 2 <= n => h(2) = h(1) + s[2]
        /\ 3 <= n => h(3) = h(2) + s[3]
        /\ 4 <= n => h(4) = h(3) + s[4]
        /\ 5 <= n => h(5) = h(4) + s[5]
        /\ 6 <= n => h(6) = h(5) + s[6]
        /\ 7 <= n => h(7) = h(6) + s[7]
    <3>1. ASSUME NEW k \in 1..7, k <= n PROVE h(k) = h(k - 1) + s[k]
      BY <1>7, <3>1
    <3>2. 1 - 1 = 0 /\ 2 - 1 = 1 /\ 3 - 1 = 2 /\ 4 - 1 = 3 /\ 5 - 1 = 4 /\ 6 - 1 = 5 /\ 7 - 1 = 6
      OBVIOUS
    <3> HIDE DEF h
    <3> QED
      BY <1>8, <3>1, <3>2 DEF h
  <2>2. Total(s) = h(n)
    BY <1>1
  <2>3. \A k \in 1..n : s[k] \in Nat
    OBVIOUS
  <2>4. n = 1 \/ n = 2 \/ n = 3 \/ n = 4 \/ n = 5 \/ n = 6 \/ n = 7
    OBVIOUS
  <2> HIDE DEF h
  <2> QED
    BY <2>1, <2>2, <2>3, <2>4

-----------------------------------------------------------------------------
(* Sizes of messages.                                                      *)

\* The bytes that each field takes, 0 for those that are not there.
SizesOf(payload) == [num \in 1..7 |-> IF num \in DOMAIN payload THEN payload[num].size ELSE 0]

LEMMA ByteSizeIsSum ==
  ASSUME NEW payload, SizesOf(payload) \in [1..7 -> Nat]
  PROVE  ByteSize(payload) = Seven(SizesOf(payload))
<1> DEFINE s == SizesOf(payload)
<1>1. ByteSize(payload) = Total(s)
  BY DEF ByteSize, SizesOf
<1> HIDE DEF s
<1>2. Total(s) = Seven(s)
  BY TotalUnfolds DEF Seven, s
<1> QED
  BY <1>1, <1>2 DEF s

\* No part is larger than the sum.
LEMMA PartsOfSum ==
  ASSUME NEW s \in [1..7 -> Nat]
  PROVE  Seven(s) \in Nat /\ \A num \in 1..7 : Seven(s) >= s[num]
<1>1. /\ s[1] \in Nat /\ s[2] \in Nat /\ s[3] \in Nat /\ s[4] \in Nat
      /\ s[5] \in Nat /\ s[6] \in Nat /\ s[7] \in Nat
  OBVIOUS
<1>2. /\ Seven(s) >= s[1] /\ Seven(s) >= s[2] /\ Seven(s) >= s[3] /\ Seven(s) >= s[4]
      /\ Seven(s) >= s[5] /\ Seven(s) >= s[6] /\ Seven(s) >= s[7]
  BY <1>1 DEF Seven
<1>3. \A num \in 1..7 : num = 1 \/ num = 2 \/ num = 3 \/ num = 4 \/ num = 5 \/ num = 6 \/ num = 7
  OBVIOUS
<1>4. Seven(s) \in Nat
  BY <1>1 DEF Seven
<1> QED
  BY <1>2, <1>3, <1>4

\* A length below this takes four bytes at most.
FourGroups == 268435456

LEMMA Lengths ==
  ASSUME NEW n \in Nat
  PROVE  /\ LengthSize(n) \in 1..5
         /\ n < 128 => LengthSize(n) = 1
         /\ n < FourGroups => LengthSize(n) <= 4
BY SMTT(60) DEF LengthSize, FourGroups

LEMMA Bounds ==
  Limit \in Nat /\ Limit < FourGroups /\ FourGroups \in Nat /\ Buffer \in 0..128 /\ 128 < FourGroups
BY SizesAreNumbers, SMTT(60) DEF FourGroups

LEMMA FieldSizes ==
  ASSUME NEW payload, ByteSize(payload) \in Nat
  PROVE  FieldSize(payload) \in Nat /\ FieldSize(payload) >= 2 + ByteSize(payload)
BY Lengths DEF FieldSize

\* The bytes of a field by its value, at each level.
ScalarSize(f, v) ==
  IF v = DefaultOf(f) THEN 0 ELSE IF f.kind = "bytes" THEN FieldSize(v) ELSE 1 + NumberSize(v)

NestedSize(f, v) ==
  IF v # DefaultOf(f) /\ f.kind = "message" THEN FieldSize(SerializeFlat(v, f.type))
  ELSE ScalarSize(f, v)

DeepSize(f, v) ==
  IF v # DefaultOf(f) /\ f.kind \in {"message", "oneof"} THEN FieldSize(SerializeNested(v, f.type))
  ELSE IF v # DefaultOf(f) /\ f.kind = "repeated"
    THEN Total([k \in DOMAIN v |-> FieldSize(SerializeNested(v[k], f.type))])
  ELSE ScalarSize(f, v)

\* A token has the size of its field.
LEMMA SizesOfTokens ==
  ASSUME NEW schema, NEW m, NEW payload, NEW tok, NEW part \in [1..7 -> Nat],
         WellFormed(schema),
         payload = [num \in {f.num : f \in WrittenFields(m, schema)} |->
                      tok[FieldNumbered(schema, num)]],
         \A f \in ToSet(schema) :
           part[f.num] = IF m[f.name] = DefaultOf(f) THEN 0 ELSE tok[f].size,
         \A num \in 1..7 : num \notin {f.num : f \in ToSet(schema)} => part[num] = 0
  PROVE  ByteSize(payload) = Seven(part)
<1> DEFINE W == WrittenFields(m, schema)
<1>1. W \subseteq ToSet(schema) /\ \A f \in ToSet(schema) : f \in W <=> m[f.name] # DefaultOf(f)
  BY DEF WrittenFields, IsWritten
<1>2. \A f \in ToSet(schema) : f.num \in DOMAIN payload <=> f \in W
  BY <1>1 DEF WellFormed
<1>3. \A f \in W : payload[f.num] = tok[f]
  BY <1>1, Named
<1>4. DOMAIN payload = {f.num : f \in W}
  OBVIOUS
<1> HIDE DEF W
<1>5. ASSUME NEW num \in 1..7
      PROVE  SizesOf(payload)[num] = part[num]
  <2>1. CASE num \in {f.num : f \in ToSet(schema)}
    <3>1. PICK f \in ToSet(schema) : f.num = num
      BY <2>1
    <3> QED
      BY <1>1, <1>2, <1>3, <3>1 DEF SizesOf
  <2>2. CASE num \notin {f.num : f \in ToSet(schema)}
    <3>1. num \notin DOMAIN payload
      BY <1>1, <1>4, <2>2
    <3> QED
      BY <2>2, <3>1 DEF SizesOf
  <2> QED
    BY <2>1, <2>2
<1>6. SizesOf(payload) = part
  <2>1. SizesOf(payload) = [num \in 1..7 |-> SizesOf(payload)[num]]
    BY DEF SizesOf
  <2>2. part = [num \in 1..7 |-> part[num]]
    OBVIOUS
  <2> QED
    BY <1>5, <2>1, <2>2
<1> QED
  BY <1>6, ByteSizeIsSum

\* A message has the size of its fields.
LEMMA FlatMessageSize ==
  ASSUME NEW schema, IsFlat(schema), NEW m, NEW part \in [1..7 -> Nat],
         \A f \in ToSet(schema) : part[f.num] = ScalarSize(f, m[f.name]),
         \A num \in 1..7 : num \notin {f.num : f \in ToSet(schema)} => part[num] = 0
  PROVE  ByteSize(SerializeFlat(m, schema)) = Seven(part)
<1> DEFINE W == WrittenFields(m, schema)
           tok == [f \in ToSet(schema) |-> TokenFlat(f, m[f.name])]
           payload == SerializeFlat(m, schema)
<1>1. WellFormed(schema) /\ W \subseteq ToSet(schema)
  BY DEF IsFlat, WrittenFields
<1>2. payload = [num \in {f.num : f \in W} |-> tok[FieldNumbered(schema, num)]]
  <2>1. payload = [num \in {f.num : f \in W} |->
                     TokenFlat(FieldNumbered(schema, num), m[FieldNumbered(schema, num).name])]
    BY DEF SerializeFlat, SerializeWith, TokenFlat
  <2>2. \A num \in {f.num : f \in W} : FieldNumbered(schema, num) \in ToSet(schema)
    BY <1>1, Named
  <2> HIDE DEF payload
  <2> QED
    BY <2>1, <2>2
<1>3. \A f \in ToSet(schema) :
        part[f.num] = IF m[f.name] = DefaultOf(f) THEN 0 ELSE tok[f].size
  BY DEF ScalarSize, TokenFlat, Token, NumberToken, LengthToken, IsFlat
<1> HIDE DEF tok, payload, W
<1> QED
  BY <1>1, <1>2, <1>3, SizesOfTokens DEF payload, W

LEMMA NestedMessageSize ==
  ASSUME NEW schema, IsNested(schema), NEW m, NEW part \in [1..7 -> Nat],
         \A f \in ToSet(schema) : part[f.num] = NestedSize(f, m[f.name]),
         \A num \in 1..7 : num \notin {f.num : f \in ToSet(schema)} => part[num] = 0
  PROVE  ByteSize(SerializeNested(m, schema)) = Seven(part)
<1> DEFINE W == WrittenFields(m, schema)
           tok == [f \in ToSet(schema) |-> TokenNested(f, m[f.name])]
           payload == SerializeNested(m, schema)
<1>1. WellFormed(schema) /\ W \subseteq ToSet(schema)
  BY DEF IsNested, WrittenFields
<1>2. payload = [num \in {f.num : f \in W} |-> tok[FieldNumbered(schema, num)]]
  <2>1. payload = [num \in {f.num : f \in W} |->
                     TokenNested(FieldNumbered(schema, num), m[FieldNumbered(schema, num).name])]
    BY DEF SerializeNested, SerializeWith, TokenNested
  <2>2. \A num \in {f.num : f \in W} : FieldNumbered(schema, num) \in ToSet(schema)
    BY <1>1, Named
  <2> HIDE DEF payload
  <2> QED
    BY <2>1, <2>2
<1>3. \A f \in ToSet(schema) :
        part[f.num] = IF m[f.name] = DefaultOf(f) THEN 0 ELSE tok[f].size
  BY DEF NestedSize, ScalarSize, TokenNested, Token, NumberToken, LengthToken, IsNested
<1> HIDE DEF tok, payload, W
<1> QED
  BY <1>1, <1>2, <1>3, SizesOfTokens DEF payload, W
LEMMA DeepMessageSize ==
  ASSUME NEW schema, IsDeep(schema), NEW m, NEW part \in [1..7 -> Nat],
         \A f \in ToSet(schema) : part[f.num] = DeepSize(f, m[f.name]),
         \A num \in 1..7 : num \notin {f.num : f \in ToSet(schema)} => part[num] = 0
  PROVE  ByteSize(Serialize(m, schema)) = Seven(part)
<1> DEFINE W == WrittenFields(m, schema)
           tok == [f \in ToSet(schema) |-> TokenDeep(f, m[f.name])]
           payload == Serialize(m, schema)
<1>1. WellFormed(schema) /\ W \subseteq ToSet(schema)
  BY DEF IsDeep, WrittenFields
<1>2. payload = [num \in {f.num : f \in W} |-> tok[FieldNumbered(schema, num)]]
  <2>1. payload = [num \in {f.num : f \in W} |->
                     TokenDeep(FieldNumbered(schema, num), m[FieldNumbered(schema, num).name])]
    BY DEF Serialize, SerializeWith, TokenDeep
  <2>2. \A num \in {f.num : f \in W} : FieldNumbered(schema, num) \in ToSet(schema)
    BY <1>1, Named
  <2> HIDE DEF payload
  <2> QED
    BY <2>1, <2>2
<1>3. \A f \in ToSet(schema) :
        part[f.num] = IF m[f.name] = DefaultOf(f) THEN 0 ELSE tok[f].size
  BY DEF DeepSize, ScalarSize, TokenDeep, Token, NumberToken, LengthToken, RepeatedToken, IsDeep,
         DefaultOf, HasPresence
<1> HIDE DEF tok, payload, W
<1> QED
  BY <1>1, <1>2, <1>3, SizesOfTokens DEF payload, W

\* The part of each field in a message.
LEMMA PartsOfMessage ==
  ASSUME NEW schema, WellFormed(schema), NEW size,
         \A f \in ToSet(schema) : size[f] \in Nat
  PROVE  \E part \in [1..7 -> Nat] :
           /\ \A f \in ToSet(schema) : part[f.num] = size[f]
           /\ \A num \in 1..7 : num \notin {f.num : f \in ToSet(schema)} => part[num] = 0
<1> DEFINE nums == {f.num : f \in ToSet(schema)}
           part == [num \in 1..7 |-> IF num \in nums THEN size[FieldNumbered(schema, num)] ELSE 0]
<1>1. \A f \in ToSet(schema) : f.num \in nums /\ f.num \in 1..7 /\ FieldNumbered(schema, f.num) = f
  BY Named DEF WellFormed
<1>2. ASSUME NEW num \in nums PROVE size[FieldNumbered(schema, num)] \in Nat
  BY <1>1
<1>3. part \in [1..7 -> Nat]
  BY <1>2
<1>4. \A f \in ToSet(schema) : part[f.num] = size[f]
  BY <1>1
<1> QED
  BY <1>3, <1>4

\* Sizes are numbers if those of the fields are.
LEMMA FlatHasSize ==
  ASSUME NEW schema, IsFlat(schema), NEW m,
         \A f \in ToSet(schema) : ScalarSize(f, m[f.name]) \in Nat
  PROVE  ByteSize(SerializeFlat(m, schema)) \in Nat
<1> DEFINE size == [f \in ToSet(schema) |-> ScalarSize(f, m[f.name])]
<1>1. WellFormed(schema) /\ \A f \in ToSet(schema) : size[f] \in Nat
  BY DEF IsFlat
<1>2. PICK part \in [1..7 -> Nat] :
        /\ \A f \in ToSet(schema) : part[f.num] = size[f]
        /\ \A num \in 1..7 : num \notin {f.num : f \in ToSet(schema)} => part[num] = 0
  <2> HIDE DEF size
  <2> QED
    BY <1>1, PartsOfMessage
<1>3. ByteSize(SerializeFlat(m, schema)) = Seven(part)
  BY <1>2, FlatMessageSize
<1> QED
  BY <1>3, PartsOfSum

LEMMA NestedHasSize ==
  ASSUME NEW schema, IsNested(schema), NEW m,
         \A f \in ToSet(schema) : NestedSize(f, m[f.name]) \in Nat
  PROVE  ByteSize(SerializeNested(m, schema)) \in Nat
<1> DEFINE size == [f \in ToSet(schema) |-> NestedSize(f, m[f.name])]
<1>1. WellFormed(schema) /\ \A f \in ToSet(schema) : size[f] \in Nat
  BY DEF IsNested
<1>2. PICK part \in [1..7 -> Nat] :
        /\ \A f \in ToSet(schema) : part[f.num] = size[f]
        /\ \A num \in 1..7 : num \notin {f.num : f \in ToSet(schema)} => part[num] = 0
  <2> HIDE DEF size
  <2> QED
    BY <1>1, PartsOfMessage
<1>3. ByteSize(SerializeNested(m, schema)) = Seven(part)
  BY <1>2, NestedMessageSize
<1> QED
  BY <1>3, PartsOfSum

LEMMA DeepHasSize ==
  ASSUME NEW schema, IsDeep(schema), NEW m,
         \A f \in ToSet(schema) : DeepSize(f, m[f.name]) \in Nat
  PROVE  /\ ByteSize(Serialize(m, schema)) \in Nat
         /\ \A f \in ToSet(schema) : ByteSize(Serialize(m, schema)) >= DeepSize(f, m[f.name])
<1> DEFINE size == [f \in ToSet(schema) |-> DeepSize(f, m[f.name])]
<1>1. WellFormed(schema) /\ \A f \in ToSet(schema) : size[f] \in Nat
  BY DEF IsDeep
<1>2. PICK part \in [1..7 -> Nat] :
        /\ \A f \in ToSet(schema) : part[f.num] = size[f]
        /\ \A num \in 1..7 : num \notin {f.num : f \in ToSet(schema)} => part[num] = 0
  <2> HIDE DEF size
  <2> QED
    BY <1>1, PartsOfMessage
<1>3. ByteSize(Serialize(m, schema)) = Seven(part)
  BY <1>2, DeepMessageSize
<1>4. \A f \in ToSet(schema) : f.num \in 1..7
  BY <1>1 DEF WellFormed
<1> QED
  BY <1>2, <1>3, <1>4, PartsOfSum

-----------------------------------------------------------------------------
(* Sizes of what a message is filled with.                                 *)

\* A number takes its tag and up to ten groups.
LEMMA NumberSizes ==
  ASSUME NEW v \in Numbers \union {Zero}
  PROVE  1 + NumberSize(v) \in 2..11
<1>1. CASE v = Zero
  BY <1>1 DEF NumberSize
<1>2. CASE v \in Numbers
  <2> DEFINE n == Len(v)
             size == NumberSize(v)
  <2>1. n \in 1..10
    BY <1>2, NumbersAreGroups
  <2>2. size = 1 \/ size = n
    BY DEF NumberSize
  <2> HIDE DEF n, size
  <2>3. 1 + size \in 2..11
    BY <2>1, <2>2
  <2> QED
    BY <2>3 DEF size
<1> QED
  BY <1>1, <1>2

\* The fields of full and of empty messages have sizes.
LEMMA FullScalars ==
  ASSUME NEW schema, WellFormed(schema), NEW f \in ToSet(schema), 
         f.kind \in {"number", "optional"}
  PROVE  (CHOOSE v \in Numbers : IsWithin(v, f.bits)) \in Numbers
<1>1. Len(One) = 1
  BY DEF One
<1>2. IsWithin(One, f.bits) /\ One \in Numbers
  BY <1>1, NumbersAreGroups DEF IsWithin, WellFormed
<1> QED
  BY <1>2

LEMMA DefaultScalars ==
  ASSUME NEW schema, WellFormed(schema), NEW f \in ToSet(schema)
  PROVE  Default(schema)[f.name] = DefaultOf(f)
BY Named DEF Default

LEMMA FullFlatScalars ==
  ASSUME NEW schema, IsFlat(schema), NEW f \in ToSet(schema)
  PROVE  ScalarSize(f, FullFlat(schema)[f.name]) \in Nat
<1>1. f.name \in Names(schema) /\ FieldNamed(schema, f.name) = f /\ WellFormed(schema)
  BY Named DEF IsFlat
<1>2. CASE f.kind \in {"number", "optional"}
  <2>1. FullFlat(schema)[f.name] = CHOOSE v \in Numbers : IsWithin(v, f.bits)
    BY <1>1, <1>2 DEF FullFlat, FullWith
  <2>2. FullFlat(schema)[f.name] \in Numbers
    BY <1>1, <1>2, <2>1, FullScalars
  <2> QED
    BY <1>2, <2>2, NumberSizes DEF ScalarSize
<1>3. CASE f.kind = "bytes"
  <2>1. FullFlat(schema)[f.name] = CHOOSE text \in Texts : TRUE
    BY <1>1, <1>3 DEF FullFlat, FullWith
  <2>2. FullFlat(schema)[f.name] \in Texts
    BY <2>1, TextsHaveSizes
  <2> QED
    BY <1>3, <2>2, TextsHaveSizes, FieldSizes DEF ScalarSize
<1> QED
  BY <1>2, <1>3 DEF IsFlat

LEMMA FullNestedFields ==
  ASSUME NEW schema, IsNested(schema), NEW f \in ToSet(schema)
  PROVE  NestedSize(f, Full(schema)[f.name]) \in Nat
<1>1. f.name \in Names(schema) /\ FieldNamed(schema, f.name) = f /\ WellFormed(schema)
  BY Named DEF IsNested
<1>2. CASE f.kind \in {"number", "optional"}
  <2>1. Full(schema)[f.name] = CHOOSE v \in Numbers : IsWithin(v, f.bits)
    BY <1>1, <1>2 DEF Full, FullWith
  <2>2. Full(schema)[f.name] \in Numbers
    BY <1>1, <1>2, <2>1, FullScalars
  <2> QED
    BY <1>2, <2>2, NumberSizes DEF NestedSize, ScalarSize
<1>3. CASE f.kind = "bytes"
  <2>1. Full(schema)[f.name] = CHOOSE text \in Texts : TRUE
    BY <1>1, <1>3 DEF Full, FullWith
  <2>2. Full(schema)[f.name] \in Texts
    BY <2>1, TextsHaveSizes
  <2> QED
    BY <1>3, <2>2, TextsHaveSizes, FieldSizes DEF NestedSize, ScalarSize
<1>4. CASE f.kind = "message" /\ IsFlat(f.type)
  <2>1. Full(schema)[f.name] = FullFlat(f.type)
    BY <1>1, <1>4 DEF Full, FullWith
  <2>2. ByteSize(SerializeFlat(FullFlat(f.type), f.type)) \in Nat
    BY <1>4, FlatHasSize, FullFlatScalars
  <2>3. FieldSize(SerializeFlat(FullFlat(f.type), f.type)) \in Nat
    BY <2>2, FieldSizes
  <2> QED
    BY <1>4, <2>1, <2>3 DEF NestedSize, ScalarSize
<1> QED
  BY <1>2, <1>3, <1>4 DEF IsNested

\* A value for a field of a response.
LEMMA SizesOfSomeValues ==
  ASSUME NEW schema, IsDeep(schema), NEW f \in ToSet(schema), f.kind \in {"number", "message"},
         NEW v \in SomeValues(f)
  PROVE  DeepSize(f, v) \in Nat /\ (v # DefaultOf(f) => DeepSize(f, v) > 0)
<1>1. CASE f.kind = "number"
  <2>1. v \in Numbers \union {Zero, DefaultOf(f)}
    BY <1>1 DEF SomeValues
  <2> QED
    BY <1>1, <2>1, NumberSizes DEF DeepSize, ScalarSize
<1>2. CASE f.kind = "message" /\ IsNested(f.type)
  <2> DEFINE t == f.type
  <2>1. v \in {Nil, Default(t), Full(t)} /\ DefaultOf(f) = Nil
    BY <1>2 DEF SomeValues, DefaultOf, HasPresence
  <2>2. \A g \in ToSet(t) : NestedSize(g, Default(t)[g.name]) = 0
    BY <1>2, DefaultScalars DEF NestedSize, ScalarSize, IsNested
  <2>3. \A g \in ToSet(t) : NestedSize(g, Full(t)[g.name]) \in Nat
    BY <1>2, FullNestedFields
  <2> HIDE DEF t
  <2>4. /\ ByteSize(SerializeNested(Default(t), t)) \in Nat
        /\ ByteSize(SerializeNested(Full(t), t)) \in Nat
    BY <1>2, <2>2, <2>3, NestedHasSize DEF t
  <2>5. v # Nil => FieldSize(SerializeNested(v, t)) \in Nat \ {0}
    BY <2>1, <2>4, FieldSizes
  <2> QED
    BY <1>2, <2>1, <2>5 DEF DeepSize, ScalarSize, t
<1> QED
  BY <1>1, <1>2 DEF IsDeep

\* Responses start with a header; no field of them is repeated.
LEMMA FieldsOfResponses ==
  ASSUME NEW schema \in Responses
  PROVE  /\ \A f \in ToSet(schema) :
              f.kind \in {"number", "message"} /\ (f.name = "header" => f = schema[1])
         /\ schema[1] \in ToSet(schema) /\ schema[1].name = "header" /\ schema[1].kind = "message"
         /\ IsNested(schema[1].type)
<1>1. CASE schema = PutResponse \/ schema = DeleteResponse
  BY <1>1, Set1, MessageFields, NestedTypes DEF PutResponse, DeleteResponse
<1>2. CASE schema = GetResponse
  BY <1>2, Set2, MessageFields, NestedTypes DEF GetResponse
<1>3. CASE schema = RequestVoteResponse
  BY <1>3, Set2, MessageFields, ScalarFields, FlatTypes, FlatIsNested DEF RequestVoteResponse
<1>4. CASE schema = AppendEntriesResponse
  BY <1>4, Set4, MessageFields, ScalarFields, FlatTypes, FlatIsNested DEF AppendEntriesResponse
<1>5. CASE schema = InstallSnapshotResponse
  BY <1>5, Set1, MessageFields, FlatTypes, FlatIsNested DEF InstallSnapshotResponse
<1> QED
  BY <1>1, <1>2, <1>3, <1>4, <1>5 DEF Responses

-----------------------------------------------------------------------------
(* Responses.                                                              *)

\* Every field of a response has a size, and the header takes some bytes even if it is empty.
ResponseInv ==
  type # Nil /\ type \in Responses =>
    /\ \A f \in ToSet(type) : DeepSize(f, message[f.name]) \in Nat
    /\ DeepSize(type[1], message.header) > 0

LEMMA ResponseInitially == Init => ResponseInv
BY DEF Init, ResponseInv

LEMMA ResponseStep == ExchangeInv /\ ResponseInv /\ [Next]_vars => ResponseInv'
<1> SUFFICES ASSUME ExchangeInv, ResponseInv, [Next]_vars PROVE ResponseInv'
  OBVIOUS
<1>1. ASSUME NEW schema \in Responses, Create(schema)
      PROVE  ResponseInv'
  <2> DEFINE h == schema[1]
             t == h.type
  <2>1. IsDeep(schema) /\ WellFormed(schema) /\ IsNested(t)
    BY FieldsOfResponses, DeepTypes DEF Responses, Types, IsDeep
  <2>2. h \in ToSet(schema) /\ h.name = "header" /\ h.kind = "message"
    BY FieldsOfResponses
  <2>3. type' = schema /\ message' = [Default(schema) EXCEPT !.header = Default(t)]
    BY <1>1 DEF Create
  <2>4. t \in {RpcResponseHeader, ResponseHeader}
    BY MessageFields
       DEF Responses, PutResponse, GetResponse, DeleteResponse, RequestVoteResponse,
           AppendEntriesResponse, InstallSnapshotResponse
  <2>5. Default(t) # Nil
    BY <2>4, NilIsNothingElse DEF Types
  <2>6. message'.header = Default(t)
    BY <2>1, <2>2, <2>3, Named DEF Default
  <2>7. ASSUME NEW f \in ToSet(schema), f # h
        PROVE  message'[f.name] = DefaultOf(f)
    <3>1. f.name # "header"
      BY <2>1, <2>2, <2>7 DEF WellFormed
    <3> QED
      BY <2>1, <2>3, <3>1, DefaultScalars, Named DEF Default
  <2>8. Default(t) \in SomeValues(h) /\ DefaultOf(h) = Nil
    BY <2>2 DEF SomeValues, DefaultOf, HasPresence
  <2>9. DeepSize(h, message'.header) \in Nat /\ DeepSize(h, message'.header) > 0
    BY <2>1, <2>2, <2>5, <2>6, <2>8, SizesOfSomeValues
  <2>10. ASSUME NEW f \in ToSet(schema)
         PROVE  DeepSize(f, message'[f.name]) \in Nat
    <3>1. CASE f = h
      BY <2>2, <2>9, <3>1
    <3>2. CASE f # h
      BY <2>7, <3>2 DEF DeepSize, ScalarSize
    <3> QED
      BY <3>1, <3>2
  <2> QED
    BY <2>3, <2>9, <2>10 DEF ResponseInv
<1>2. ASSUME NEW schema \in Types \ Responses, Create(schema)
      PROVE  ResponseInv'
  BY <1>2 DEF Create, ResponseInv
<1>3. ASSUME NEW f, Fill(f), type \in Responses
      PROVE  ResponseInv'
  <2>1. type # Nil /\ f \in ToSet(type) /\ UNCHANGED type
    BY <1>3 DEF Fill
  <2>2. PICK v \in SomeValues(f) \ {DefaultOf(f)} : message' = Set(message, type, f, v)
    BY <1>3 DEF Fill
  <2>3. IsDeep(type) /\ WellFormed(type)
    BY <1>3, DeepTypes DEF Responses, Types, IsDeep
  <2>4. \A g \in ToSet(type) : g.kind \in {"number", "message"}
    BY <1>3, FieldsOfResponses
  <2>5. DeepSize(f, v) \in Nat /\ DeepSize(f, v) > 0
    BY <2>1, <2>2, <2>3, <2>4, SizesOfSomeValues
  <2>6. \A g \in ToSet(type) : message'[g.name] = IF g = f THEN v ELSE message[g.name]
    BY <2>1, <2>2, <2>3, <2>4, Named DEF Set, WellFormed
  <2>7. type[1] \in ToSet(type) /\ type[1].name = "header"
    BY <1>3, FieldsOfResponses
  <2>8. \A g \in ToSet(type) : DeepSize(g, message'[g.name]) \in Nat
    BY <1>3, <2>1, <2>5, <2>6 DEF ResponseInv
  <2>9. DeepSize(type[1], message'.header) > 0
    BY <1>3, <2>1, <2>5, <2>6, <2>7 DEF ResponseInv
  <2> QED
    BY <2>1, <2>8, <2>9 DEF ResponseInv
<1>4. ASSUME NEW f, Fill(f), type \notin Responses
      PROVE  ResponseInv'
  BY <1>4 DEF Fill, ResponseInv
<1>5. CASE Write \/ Read \/ UNCHANGED exchangeVars
  BY <1>5 DEF Write, Read, ResponseInv, exchangeVars
<1>6. ASSUME Journey PROVE UNCHANGED exchangeVars
  BY <1>6 DEF Journey, Call, RefuseRequest, Redirect, FailPropose, Propose, RefuseAppend,
              AcceptAppend, ApplyEntry, Recover, Apply, Respond, DropAnswer, ReadAnswer
<1>7. ASSUME UNCHANGED vars PROVE UNCHANGED exchangeVars
  BY <1>7 DEF vars
<1> QED
  BY <1>1, <1>2, <1>3, <1>4, <1>5, <1>6, <1>7 DEF Next, Exchange

\* produce_*_response makes a header, so that no response is empty on the wire.
LEMMA ResponsesHaveBytes ==
  ASSUME ExchangeInv, ResponseInv, written # Nil, type \in Responses
  PROVE  ByteSize(written) > 0
<1>1. type # Nil /\ written = Serialize(message, type)
  BY DEF ExchangeInv
<1>2. IsDeep(type) /\ type[1] \in ToSet(type) /\ type[1].name = "header"
  BY FieldsOfResponses, DeepTypes DEF Responses, Types
<1>3. /\ \A f \in ToSet(type) : DeepSize(f, message[f.name]) \in Nat
      /\ DeepSize(type[1], message[type[1].name]) > 0
  BY <1>1, <1>2 DEF ResponseInv
<1>4. /\ ByteSize(Serialize(message, type)) \in Nat
      /\ ByteSize(Serialize(message, type)) >= DeepSize(type[1], message[type[1].name])
  BY <1>2, <1>3, DeepHasSize
<1> QED
  BY <1>1, <1>2, <1>3, <1>4

-----------------------------------------------------------------------------
(* Sizes of short messages.                                                *)

\* A flat message is written alike at every level.
LEMMA EveryLevel ==
  ASSUME NEW schema, IsFlat(schema), NEW m
  PROVE  /\ Serialize(m, schema) = SerializeFlat(m, schema)
         /\ SerializeNested(m, schema) = SerializeFlat(m, schema)
<1> DEFINE W == WrittenFields(m, schema)
           nums == {f.num : f \in W}
           At(num) == FieldNumbered(schema, num)
<1>1. WellFormed(schema) /\ W \subseteq ToSet(schema)
  BY DEF IsFlat, WrittenFields
<1>2. \A num \in nums : At(num) \in ToSet(schema)
  BY <1>1, Named
<1>3. ASSUME NEW f \in ToSet(schema), NEW v
      PROVE  TokenDeep(f, v) = TokenFlat(f, v) /\ TokenNested(f, v) = TokenFlat(f, v)
  BY DEF IsFlat, TokenDeep, TokenNested, TokenFlat, Token
<1>4. Serialize(m, schema) = [num \in nums |-> TokenDeep(At(num), m[At(num).name])]
  BY DEF Serialize, SerializeWith, TokenDeep
<1>5. SerializeNested(m, schema) = [num \in nums |-> TokenNested(At(num), m[At(num).name])]
  BY DEF SerializeNested, SerializeWith, TokenNested
<1>6. SerializeFlat(m, schema) = [num \in nums |-> TokenFlat(At(num), m[At(num).name])]
  BY DEF SerializeFlat, SerializeWith, TokenFlat
<1> HIDE DEF nums, At
<1> QED
  BY <1>2, <1>3, <1>4, <1>5, <1>6

\* The bytes of a text and of a number as fields, none if they are left out.
BytesSize(v) == IF v = <<>> THEN 0 ELSE FieldSize(v)
NumSize(v) == IF v = Zero THEN 0 ELSE 1 + NumberSize(v)

LEMMA NumSizes ==
  ASSUME NEW v \in Numbers \union {Zero}
  PROVE  NumSize(v) \in 0..11
BY NumberSizes DEF NumSize

LEMMA BytesSizes ==
  ASSUME NEW v, ByteSize(v) \in Nat
  PROVE  /\ BytesSize(v) \in Nat
         /\ BytesSize(v) <= 1 + LengthSize(ByteSize(v)) + ByteSize(v)
         /\ LengthSize(ByteSize(v)) \in Nat
BY Lengths DEF BytesSize, FieldSize

LEMMA SizesOfFields ==
  ASSUME NEW num, NEW name, NEW v
  PROVE  /\ ScalarSize(Number(num, name), v) = NumSize(v)
         /\ ScalarSize(Number32(num, name), v) = NumSize(v)
         /\ ScalarSize(Flag(num, name), v) = NumSize(v)
         /\ ScalarSize(Bytes(num, name), v) = BytesSize(v)
BY ScalarFields DEF ScalarSize, NumSize, BytesSize, DefaultOf, HasPresence, Zero

\* Messages of one, two and three fields.
LEMMA PairSize ==
  ASSUME NEW k, NEW v, BytesSize(k) \in Nat, BytesSize(v) \in Nat,
         NEW schema \in {PutRequest, KeyValue}
  PROVE  ByteSize(SerializeFlat([key |-> k, value |-> v], schema)) = BytesSize(k) + BytesSize(v)
<1> DEFINE m == [key |-> k, value |-> v]
           part == <<BytesSize(k), BytesSize(v), 0, 0, 0, 0, 0>>
<1>1. part \in [1..7 -> Nat]
  OBVIOUS
<1>2. ToSet(schema) = {Bytes(1, "key"), Bytes(2, "value")} /\ IsFlat(schema)
  BY Set2, FlatTypes DEF PutRequest, KeyValue
<1>3. \A f \in ToSet(schema) : part[f.num] = ScalarSize(f, m[f.name])
  BY <1>2, SizesOfFields, ScalarFields
<1>4. \A num \in 1..7 : num \notin {f.num : f \in ToSet(schema)} => part[num] = 0
  BY <1>2, ScalarFields
<1>5. Seven(part) = BytesSize(k) + BytesSize(v)
  BY DEF Seven
<1> HIDE DEF part
<1> QED
  BY <1>1, <1>2, <1>3, <1>4, <1>5, FlatMessageSize

LEMMA SingleSize ==
  ASSUME NEW k, BytesSize(k) \in Nat, NEW schema \in {GetRequest, DeleteRequest}
  PROVE  ByteSize(SerializeFlat([key |-> k], schema)) = BytesSize(k)
<1> DEFINE m == [key |-> k]
           part == <<BytesSize(k), 0, 0, 0, 0, 0, 0>>
<1>1. part \in [1..7 -> Nat]
  OBVIOUS
<1>2. ToSet(schema) = {Bytes(1, "key")} /\ IsFlat(schema)
  BY Set1, FlatTypes DEF GetRequest, DeleteRequest
<1>3. \A f \in ToSet(schema) : part[f.num] = ScalarSize(f, m[f.name])
  BY <1>2, SizesOfFields, ScalarFields
<1>4. \A num \in 1..7 : num \notin {f.num : f \in ToSet(schema)} => part[num] = 0
  BY <1>2, ScalarFields
<1>5. Seven(part) = BytesSize(k)
  BY DEF Seven
<1> HIDE DEF part
<1> QED
  BY <1>1, <1>2, <1>3, <1>4, <1>5, FlatMessageSize

LEMMA EntrySize ==
  ASSUME NEW term \in Numbers, NEW index \in Numbers, NEW x, BytesSize(x) \in Nat
  PROVE  ByteSize(SerializeFlat([term |-> term, index |-> index, command |-> x], LogEntry))
           = NumSize(term) + NumSize(index) + BytesSize(x)
<1> DEFINE m == [term |-> term, index |-> index, command |-> x]
           part == <<NumSize(term), NumSize(index), BytesSize(x), 0, 0, 0, 0>>
<1>1. part \in [1..7 -> Nat] /\ NumSize(term) \in Nat /\ NumSize(index) \in Nat
  BY NumSizes
<1>2. /\ ToSet(LogEntry) = {Number(1, "term"), Number(2, "index"), Bytes(3, "command")}
      /\ IsFlat(LogEntry)
  BY Set3, FlatTypes DEF LogEntry
<1>3. \A f \in ToSet(LogEntry) : part[f.num] = ScalarSize(f, m[f.name])
  BY <1>2, SizesOfFields, ScalarFields
<1>4. \A num \in 1..7 : num \notin {f.num : f \in ToSet(LogEntry)} => part[num] = 0
  BY <1>2, ScalarFields
<1>5. Seven(part) = NumSize(term) + NumSize(index) + BytesSize(x)
  BY <1>1 DEF Seven
<1> HIDE DEF part
<1> QED
  BY <1>1, <1>2, <1>3, <1>4, <1>5, FlatMessageSize

-----------------------------------------------------------------------------
(* Sizes of commands.                                                      *)

\* What the requests of the three operations are, as types and as fields.
LEMMA Requests ==
  ASSUME NEW c \in Command
  PROVE  /\ RequestType(c) \in {PutRequest, GetRequest, DeleteRequest}
         /\ RequestType(c) \in Types /\ IsFlat(RequestType(c))
         /\ FieldOf(c) \in ToSet(InternalRaftRequest)
         /\ FieldOf(c).kind = "oneof" /\ FieldOf(c).type = RequestType(c)
         /\ RequestOf(c) # Nil
<1>1. /\ ToSet(InternalRaftRequest) =
           {OneOf(1, "kv_put", PutRequest), OneOf(2, "kv_get", GetRequest),
            OneOf(3, "kv_delete", DeleteRequest)}
      /\ WellFormed(InternalRaftRequest)
  BY Set3, DeepTypes DEF InternalRaftRequest, Types, IsDeep
<1>2. /\ FieldNamed(InternalRaftRequest, "kv_put") = OneOf(1, "kv_put", PutRequest)
      /\ FieldNamed(InternalRaftRequest, "kv_get") = OneOf(2, "kv_get", GetRequest)
      /\ FieldNamed(InternalRaftRequest, "kv_delete") = OneOf(3, "kv_delete", DeleteRequest)
  BY <1>1, Named, MessageFields
<1>3. c.op \in {"put", "get", "delete"}
  BY DEF Command
<1>4. RequestOf(c) # Nil
  BY NilIsNothingElse
<1>5. CASE c.op = "put"
  BY <1>1, <1>2, <1>4, <1>5, FlatTypes, MessageFields DEF RequestType, FieldOf, Types
<1>6. CASE c.op = "get"
  BY <1>1, <1>2, <1>4, <1>6, FlatTypes, MessageFields DEF RequestType, FieldOf, Types
<1>7. CASE c.op = "delete"
  BY <1>1, <1>2, <1>4, <1>7, FlatTypes, MessageFields DEF RequestType, FieldOf, Types
<1> QED
  BY <1>3, <1>5, <1>6, <1>7

LEMMA Commands ==
  ASSUME NEW c \in Command
  PROVE  /\ ByteSize(c.key) \in Nat
         /\ c.op = "put" => ByteSize(c.value) \in Nat
         /\ c.op \in {"put", "get", "delete"}
BY TextsHaveSizes DEF Command

\* The bytes of a request.
RequestSize(c) == BytesSize(c.key) + IF c.op = "put" THEN BytesSize(c.value) ELSE 0

LEMMA RequestHasSize ==
  ASSUME NEW c \in Command
  PROVE  /\ ByteSize(SerializeFlat(RequestOf(c), RequestType(c))) = RequestSize(c)
         /\ Serialize(RequestOf(c), RequestType(c)) = SerializeFlat(RequestOf(c), RequestType(c))
         /\ SerializeNested(RequestOf(c), RequestType(c))
              = SerializeFlat(RequestOf(c), RequestType(c))
         /\ RequestSize(c) \in Nat
<1>1. IsFlat(RequestType(c))
  BY Requests
<1>2. BytesSize(c.key) \in Nat /\ (c.op = "put" => BytesSize(c.value) \in Nat)
  BY Commands, BytesSizes
<1>3. ByteSize(SerializeFlat(RequestOf(c), RequestType(c))) = RequestSize(c)
  <2>1. CASE c.op = "put"
    BY <1>2, <2>1, PairSize DEF RequestOf, RequestType, RequestSize
  <2>2. CASE c.op = "get" \/ c.op = "delete"
    <3>1. RequestSize(c) = BytesSize(c.key)
      BY <1>2, <2>2 DEF RequestSize
    <3>2. RequestOf(c) = [key |-> c.key] /\ RequestType(c) \in {GetRequest, DeleteRequest}
      BY <2>2 DEF RequestOf, RequestType
    <3> QED
      BY <1>2, <3>1, <3>2, SingleSize
  <2> QED
    BY <2>1, <2>2, Commands
<1>4. RequestSize(c) \in Nat
  BY <1>2 DEF RequestSize
<1> QED
  BY <1>1, <1>3, <1>4, EveryLevel

\* A request inside of InternalRaftRequest, as it is proposed.
Wrapped(c) == Serialize(InternalRequestOf(c, RequestOf(c)), InternalRaftRequest)

LEMMA InternalRequestFields ==
  ASSUME NEW c \in Command, NEW f \in ToSet(InternalRaftRequest)
  PROVE  InternalRequestOf(c, RequestOf(c))[f.name] = IF f = FieldOf(c) THEN RequestOf(c) ELSE Nil
<1>1. /\ ToSet(InternalRaftRequest) =
           {OneOf(1, "kv_put", PutRequest), OneOf(2, "kv_get", GetRequest),
            OneOf(3, "kv_delete", DeleteRequest)}
      /\ WellFormed(InternalRaftRequest)
  BY Set3, DeepTypes DEF InternalRaftRequest, Types, IsDeep
<1>2. f.kind = "oneof" /\ f.name \in Names(InternalRaftRequest)
  BY <1>1, MessageFields, Named
<1>3. FieldNamed(InternalRaftRequest, f.name) = f
  BY <1>1, Named
<1>4. f = FieldOf(c) <=> f.name = FieldOf(c).name
  BY <1>1, Requests DEF WellFormed
<1> QED
  BY <1>2, <1>3, <1>4, Requests DEF InternalRequestOf, Set

LEMMA WrappedSize ==
  ASSUME NEW c \in Command
  PROVE  ByteSize(Wrapped(c)) = 1 + LengthSize(RequestSize(c)) + RequestSize(c)
<1> DEFINE m == InternalRequestOf(c, RequestOf(c))
           size == 1 + LengthSize(RequestSize(c)) + RequestSize(c)
           own == FieldOf(c)
           part == [num \in 1..7 |-> IF num = own.num THEN size ELSE 0]
<1>1. IsDeep(InternalRaftRequest) /\ WellFormed(InternalRaftRequest)
  BY DeepTypes DEF Types, IsDeep
<1>2. size \in Nat /\ own.num \in 1..7 /\ own \in ToSet(InternalRaftRequest)
  BY <1>1, Requests, RequestHasSize, Lengths DEF WellFormed
<1>3. part \in [1..7 -> Nat]
  BY <1>2
<1>4. DeepSize(own, RequestOf(c)) = size
  BY RequestHasSize, Requests DEF DeepSize, FieldSize, DefaultOf, HasPresence
<1>5. ASSUME NEW f \in ToSet(InternalRaftRequest)
      PROVE  part[f.num] = DeepSize(f, m[f.name])
  <2>1. f.num \in 1..7 /\ (f.num = own.num => f = own) /\ f.kind = "oneof"
    <3>1. f.kind = "oneof"
      BY Set3, MessageFields DEF InternalRaftRequest
    <3> QED
      BY <1>1, <1>2, <3>1 DEF WellFormed
  <2>2. m[f.name] = IF f = own THEN RequestOf(c) ELSE Nil
    BY InternalRequestFields
  <2>3. DeepSize(f, Nil) = 0
    BY <2>1 DEF DeepSize, ScalarSize, DefaultOf, HasPresence
  <2> HIDE DEF m, size, own
  <2> QED
    BY <1>4, <2>1, <2>2, <2>3
<1>6. \A num \in 1..7 : num \notin {f.num : f \in ToSet(InternalRaftRequest)} => part[num] = 0
  BY <1>2
<1>7. Seven(part) = size
  <2> HIDE DEF size
  <2>1. own.num = 1 \/ own.num = 2 \/ own.num = 3
    BY <1>2, Set3, MessageFields DEF InternalRaftRequest
  <2> QED
    BY <1>2, <2>1 DEF Seven
<1> HIDE DEF part, m, size
<1>8. ByteSize(Serialize(m, InternalRaftRequest)) = Seven(part)
  BY <1>1, <1>3, <1>5, <1>6, DeepMessageSize
<1> QED
  BY <1>7, <1>8 DEF Wrapped, m, size

\* A request to a follower with one entry.
LEMMA AppendSize ==
  ASSUME NEW e, NEW prev \in Numbers \union {Zero}, NEW leader \in Numbers \union {Zero},
         e.term \in Numbers, ByteSize(SerializeFlat(e, LogEntry)) \in Nat
  PROVE  ByteSize(Serialize(AppendOf(e, prev, prev, leader, prev), AppendEntriesRequest)) =
           NumSize(e.term) + NumSize(leader) + NumSize(prev) + NumSize(prev)
             + FieldSize(SerializeFlat(e, LogEntry)) + NumSize(prev)
<1> DEFINE m == AppendOf(e, prev, prev, leader, prev)
           size == FieldSize(SerializeFlat(e, LogEntry))
           part == <<NumSize(e.term), NumSize(leader), NumSize(prev), NumSize(prev), size,
                     NumSize(prev), 0>>
<1>1. NumSize(e.term) \in Nat /\ NumSize(leader) \in Nat /\ NumSize(prev) \in Nat /\ size \in Nat
  BY NumSizes, FieldSizes
<1>2. part \in [1..7 -> Nat]
  BY <1>1
<1>3. /\ ToSet(AppendEntriesRequest) =
           {Number(1, "term"), Number(2, "leader_id"), Number(3, "prev_log_index"),
            Number(4, "prev_log_term"), Repeated(5, "entries", LogEntry),
            Number(6, "leader_commit")}
      /\ IsDeep(AppendEntriesRequest)
  BY Set6, DeepTypes DEF AppendEntriesRequest, Types
<1>4. ASSUME NEW num, NEW name, NEW v
      PROVE  DeepSize(Number(num, name), v) = NumSize(v)
  BY SizesOfFields, ScalarFields DEF DeepSize
<1>5. DeepSize(Repeated(5, "entries", LogEntry), <<e>>) = size
  <2> DEFINE s == [k \in DOMAIN <<e>> |-> FieldSize(SerializeNested(<<e>>[k], LogEntry))]
  <2>1. DeepSize(Repeated(5, "entries", LogEntry), <<e>>) = Total(s)
    BY MessageFields DEF DeepSize, DefaultOf, HasPresence
  <2>2. SerializeNested(e, LogEntry) = SerializeFlat(e, LogEntry)
    BY EveryLevel, FlatTypes
  <2>3. s = [k \in 1..1 |-> size]
    BY <2>2
  <2> HIDE DEF size
  <2>4. s \in [1..1 -> Nat]
    BY <1>1, <2>3
  <2>5. s[1] = size
    BY <2>3
  <2> HIDE DEF s
  <2>6. Total(s) = s[1]
    BY <2>4, TotalUnfolds
  <2> QED
    BY <2>1, <2>5, <2>6
<1>6. ASSUME NEW f \in ToSet(AppendEntriesRequest)
      PROVE  part[f.num] = DeepSize(f, m[f.name])
  <2> HIDE DEF size
  <2>1. CASE f = Repeated(5, "entries", LogEntry)
    BY <1>5, <2>1, MessageFields DEF AppendOf
  <2>2. CASE f = Number(1, "term") \/ f = Number(2, "leader_id")
    BY <1>4, <2>2, ScalarFields DEF AppendOf
  <2>3. CASE f = Number(3, "prev_log_index") \/ f = Number(4, "prev_log_term")
    BY <1>4, <2>3, ScalarFields DEF AppendOf
  <2>4. CASE f = Number(6, "leader_commit")
    BY <1>4, <2>4, ScalarFields DEF AppendOf
  <2> QED
    BY <1>3, <2>1, <2>2, <2>3, <2>4
<1>7. \A num \in 1..7 : num \notin {f.num : f \in ToSet(AppendEntriesRequest)} => part[num] = 0
  <2>1. {f.num : f \in ToSet(AppendEntriesRequest)} = {1, 2, 3, 4, 5, 6}
    BY <1>3, ScalarFields, MessageFields
  <2> QED
    BY <2>1
<1>8. Seven(part) = NumSize(e.term) + NumSize(leader) + NumSize(prev) + NumSize(prev) + size
                      + NumSize(prev)
  <2> HIDE DEF size
  <2> QED
    BY <1>1 DEF Seven
<1> HIDE DEF part, m
<1>9. ByteSize(Serialize(m, AppendEntriesRequest)) = Seven(part)
  BY <1>2, <1>3, <1>6, <1>7, DeepMessageSize
<1> QED
  BY <1>8, <1>9 DEF m

-----------------------------------------------------------------------------
(* Sizes of responses.                                                     *)

\* The bytes of a message as a field, none if it is not there.
MessageSize(v, schema) == IF v = Nil THEN 0 ELSE FieldSize(SerializeNested(v, schema))

LEMMA RedirectSize ==
  ASSUME NEW r \in [host : Texts, port : Numbers]
  PROVE  ByteSize(SerializeFlat(r, RpcRedirect)) = BytesSize(r.host) + NumSize(r.port)
<1> DEFINE part == <<BytesSize(r.host), NumSize(r.port), 0, 0, 0, 0, 0>>
<1>1. BytesSize(r.host) \in Nat /\ NumSize(r.port) \in Nat
  BY NumSizes, BytesSizes, TextsHaveSizes
<1>2. part \in [1..7 -> Nat]
  BY <1>1
<1>3. ToSet(RpcRedirect) = {Bytes(1, "host"), Number32(2, "port")} /\ IsFlat(RpcRedirect)
  BY Set2, FlatTypes DEF RpcRedirect
<1>4. \A f \in ToSet(RpcRedirect) : part[f.num] = ScalarSize(f, r[f.name])
  BY <1>3, SizesOfFields, ScalarFields
<1>5. \A num \in 1..7 : num \notin {f.num : f \in ToSet(RpcRedirect)} => part[num] = 0
  BY <1>3, ScalarFields
<1>6. Seven(part) = BytesSize(r.host) + NumSize(r.port)
  BY <1>1 DEF Seven
<1> HIDE DEF part
<1> QED
  BY <1>2, <1>3, <1>4, <1>5, <1>6, FlatMessageSize

RedirectField(r) == IF r = Nil THEN 0 ELSE FieldSize(SerializeFlat(r, RpcRedirect))

\* The bytes of a header and of the responses.
LEMMA HeaderSize ==
  ASSUME NEW h, NumSize(h.success) \in Nat, NumSize(h.error_code) \in Nat,
         RedirectField(h.redirect) \in Nat
  PROVE  ByteSize(SerializeNested(h, RpcResponseHeader)) =
           NumSize(h.success) + NumSize(h.error_code) + RedirectField(h.redirect)
<1> DEFINE part == <<NumSize(h.success), NumSize(h.error_code), RedirectField(h.redirect), 0, 0, 0,
                     0>>
<1>1. part \in [1..7 -> Nat]
  OBVIOUS
<1>2. /\ ToSet(RpcResponseHeader) =
           {Flag(1, "success"), Number32(2, "error_code"), Message(3, "redirect", RpcRedirect)}
      /\ IsNested(RpcResponseHeader)
  BY Set3, NestedTypes DEF RpcResponseHeader
<1>3. ASSUME NEW num, NEW name, NEW v
      PROVE  /\ NestedSize(Flag(num, name), v) = NumSize(v)
             /\ NestedSize(Number32(num, name), v) = NumSize(v)
             /\ NestedSize(Message(num, name, RpcRedirect), v) = RedirectField(v)
  <2>1. /\ NestedSize(Flag(num, name), v) = NumSize(v)
        /\ NestedSize(Number32(num, name), v) = NumSize(v)
    BY SizesOfFields, ScalarFields DEF NestedSize
  <2>2. NestedSize(Message(num, name, RpcRedirect), v) = RedirectField(v)
    BY MessageFields DEF NestedSize, ScalarSize, RedirectField, DefaultOf, HasPresence
  <2> QED
    BY <2>1, <2>2
<1>4. \A f \in ToSet(RpcResponseHeader) : part[f.num] = NestedSize(f, h[f.name])
  BY <1>2, <1>3, ScalarFields, MessageFields
<1>5. \A num \in 1..7 : num \notin {f.num : f \in ToSet(RpcResponseHeader)} => part[num] = 0
  BY <1>2, ScalarFields, MessageFields
<1>6. Seven(part) = NumSize(h.success) + NumSize(h.error_code) + RedirectField(h.redirect)
  BY DEF Seven
<1> HIDE DEF part
<1> QED
  BY <1>1, <1>2, <1>4, <1>5, <1>6, NestedMessageSize

LEMMA ShortResponseSize ==
  ASSUME NEW h, MessageSize(h, RpcResponseHeader) \in Nat,
         NEW schema \in {PutResponse, DeleteResponse}
  PROVE  ByteSize(Serialize([header |-> h], schema)) = MessageSize(h, RpcResponseHeader)
<1> DEFINE m == [header |-> h]
           part == <<MessageSize(h, RpcResponseHeader), 0, 0, 0, 0, 0, 0>>
<1>1. part \in [1..7 -> Nat]
  OBVIOUS
<1>2. ToSet(schema) = {Message(1, "header", RpcResponseHeader)} /\ IsDeep(schema)
  BY Set1, DeepTypes DEF PutResponse, DeleteResponse, Types
<1>3. \A f \in ToSet(schema) : part[f.num] = DeepSize(f, m[f.name])
  BY <1>2, MessageFields DEF DeepSize, ScalarSize, MessageSize, DefaultOf, HasPresence
<1>4. \A num \in 1..7 : num \notin {f.num : f \in ToSet(schema)} => part[num] = 0
  BY <1>2, MessageFields
<1>5. Seven(part) = MessageSize(h, RpcResponseHeader)
  BY DEF Seven
<1> HIDE DEF part
<1> QED
  BY <1>1, <1>2, <1>3, <1>4, <1>5, DeepMessageSize

LEMMA GetResponseSize ==
  ASSUME NEW h, NEW kv, MessageSize(h, RpcResponseHeader) \in Nat, MessageSize(kv, KeyValue) \in Nat
  PROVE  ByteSize(Serialize([header |-> h, kv |-> kv], GetResponse)) =
           MessageSize(h, RpcResponseHeader) + MessageSize(kv, KeyValue)
<1> DEFINE m == [header |-> h, kv |-> kv]
           part == <<MessageSize(h, RpcResponseHeader), MessageSize(kv, KeyValue), 0, 0, 0, 0, 0>>
<1>1. part \in [1..7 -> Nat]
  OBVIOUS
<1>2. /\ ToSet(GetResponse) = {Message(1, "header", RpcResponseHeader), Message(2, "kv", KeyValue)}
      /\ IsDeep(GetResponse)
  BY Set2, DeepTypes DEF GetResponse, Types
<1>3. \A f \in ToSet(GetResponse) : part[f.num] = DeepSize(f, m[f.name])
  BY <1>2, MessageFields DEF DeepSize, ScalarSize, MessageSize, DefaultOf, HasPresence
<1>4. \A num \in 1..7 : num \notin {f.num : f \in ToSet(GetResponse)} => part[num] = 0
  BY <1>2, MessageFields
<1>5. Seven(part) = MessageSize(h, RpcResponseHeader) + MessageSize(kv, KeyValue)
  BY DEF Seven
<1> HIDE DEF part
<1> QED
  BY <1>1, <1>2, <1>3, <1>4, <1>5, DeepMessageSize

\* The headers that the handlers produce.
LEMMA SmallHeaders ==
  /\ \A code \in {LogEntryAppendOrPersistFailed, KVPutFailed, KVGetFailed} :
       MessageSize(Failure(code), RpcResponseHeader) = 4
  /\ MessageSize(Success, RpcResponseHeader) = 6
<1>1. /\ NumSize(One) = 2 /\ NumSize(Zero) = 0 /\ NumSize(NoError) = 2
      /\ \A code \in {LogEntryAppendOrPersistFailed, KVPutFailed, KVGetFailed} : NumSize(code) = 2
  BY DEF NumSize, NumberSize, One, Zero, NoError, LogEntryAppendOrPersistFailed, KVPutFailed,
         KVGetFailed
<1>2. RedirectField(Nil) = 0
  BY DEF RedirectField
<1>3. ASSUME NEW s \in {0, 2}, NEW h,
             NumSize(h.success) = s, NumSize(h.error_code) = 2, h.redirect = Nil, h # Nil
      PROVE  MessageSize(h, RpcResponseHeader) = s + 4
  <2>1. ByteSize(SerializeNested(h, RpcResponseHeader)) = s + 2
    BY <1>2, <1>3, HeaderSize
  <2> QED
    BY <1>3, <2>1, Lengths DEF MessageSize, FieldSize
<1>4. ASSUME NEW code \in {LogEntryAppendOrPersistFailed, KVPutFailed, KVGetFailed}
      PROVE  MessageSize(Failure(code), RpcResponseHeader) = 4
  <2>1. Failure(code) # Nil
    BY NilIsNothingElse DEF Failure, Redirects
  <2>2. /\ Failure(code).success = Zero /\ Failure(code).error_code = code
        /\ Failure(code).redirect = Nil
    BY DEF Failure, Header
  <2>3. MessageSize(Failure(code), RpcResponseHeader) = 0 + 4
    BY <1>1, <1>3, <2>1, <2>2
  <2> QED
    BY <2>3
<1>5. MessageSize(Success, RpcResponseHeader) = 6
  <2>1. Success # Nil
    BY NilIsNothingElse DEF Success, Redirects
  <2>2. Success.success = One /\ Success.error_code = NoError /\ Success.redirect = Nil
    BY DEF Success, Header
  <2>3. MessageSize(Success, RpcResponseHeader) = 2 + 4
    BY <1>1, <1>3, <2>1, <2>2
  <2> QED
    BY <2>3
<1> QED
  BY <1>4, <1>5

-----------------------------------------------------------------------------
(* Entries and requests to followers.                                      *)

LEMMA NoBytes == ByteSize(<<>>) = 0
<1>1. SizesOf(<<>>) \in [1..7 -> Nat] /\ \A num \in 1..7 : SizesOf(<<>>)[num] = 0
  BY DEF SizesOf
<1> QED
  BY <1>1, ByteSizeIsSum DEF Seven

\* The entry of a command.
EntryFor(c, term, index) == EntryOf(c, RequestOf(c), term, index)

EntryBytes(c, term, index) == ByteSize(SerializeFlat(EntryFor(c, term, index), LogEntry))

\* What the envelopes of a command add to it, at least and at most.
LEMMA WrappedBounds ==
  ASSUME NEW c \in Command
  PROVE  /\ RequestSize(c) \in Nat /\ ByteSize(Wrapped(c)) \in Nat /\ Wrapped(c) # <<>>
         /\ ByteSize(Wrapped(c)) = 1 + LengthSize(RequestSize(c)) + RequestSize(c)
         /\ LengthSize(RequestSize(c)) \in 1..5
<1>1. RequestSize(c) \in Nat /\ LengthSize(RequestSize(c)) \in 1..5
  BY RequestHasSize, Lengths
<1>2. ByteSize(Wrapped(c)) = 1 + LengthSize(RequestSize(c)) + RequestSize(c)
  BY WrappedSize
<1>3. ByteSize(Wrapped(c)) \in Nat /\ ByteSize(Wrapped(c)) > 0
  BY <1>1, <1>2
<1> QED
  BY <1>1, <1>2, <1>3, NoBytes

LEMMA EntryBounds ==
  ASSUME NEW c \in Command, NEW term \in Numbers, NEW index \in Numbers
  PROVE  /\ EntryBytes(c, term, index) \in Nat
         /\ EntryBytes(c, term, index) =
              NumSize(term) + NumSize(index)
                + (1 + LengthSize(ByteSize(Wrapped(c))) + ByteSize(Wrapped(c)))
         /\ NumSize(term) \in 0..11 /\ NumSize(index) \in 0..11
         /\ LengthSize(ByteSize(Wrapped(c))) \in 1..5
<1> DEFINE w == Wrapped(c)
<1>1. w # <<>> /\ ByteSize(w) \in Nat
  BY WrappedBounds
<1>2. LengthSize(ByteSize(w)) \in 1..5
  BY <1>1, Lengths
<1>3. EntryFor(c, term, index) = [term |-> term, index |-> index, command |-> w]
  BY DEF EntryFor, EntryOf, Wrapped
<1> HIDE DEF w
<1>4. BytesSize(w) = 1 + LengthSize(ByteSize(w)) + ByteSize(w) /\ BytesSize(w) \in Nat
  BY <1>1, <1>2 DEF BytesSize, FieldSize
<1>5. EntryBytes(c, term, index) = NumSize(term) + NumSize(index) + BytesSize(w)
  BY <1>3, <1>4, EntrySize DEF EntryBytes
<1>6. NumSize(term) \in 0..11 /\ NumSize(index) \in 0..11
  BY NumSizes
<1> DEFINE E == EntryBytes(c, term, index)
<1>7. E = NumSize(term) + NumSize(index) + (1 + LengthSize(ByteSize(w)) + ByteSize(w))
  BY <1>4, <1>5
<1>8. E \in Nat
  BY <1>4, <1>5, <1>6
<1> QED
  BY <1>2, <1>6, <1>7, <1>8 DEF w

\* The bytes of a request to a follower.
AppendBytes(e, prev, leader) ==
  ByteSize(Serialize(AppendOf(e, prev, prev, leader, prev), AppendEntriesRequest))

LEMMA AppendBounds ==
  ASSUME NEW c \in Command, NEW term \in Numbers, NEW index \in Numbers,
         NEW prev \in Numbers \union {Zero}, NEW leader \in Numbers \union {Zero}
  PROVE  LET E == EntryBytes(c, term, index)
             A == AppendBytes(EntryFor(c, term, index), prev, leader)
         IN  /\ A \in Nat
             /\ A >= E
             /\ A <= 56 + LengthSize(E) + E
             /\ LengthSize(E) \in 1..5
<1> DEFINE e == EntryFor(c, term, index)
           E == EntryBytes(c, term, index)
           A == AppendBytes(e, prev, leader)
<1>1. E \in Nat /\ LengthSize(E) \in 1..5
  BY EntryBounds, Lengths
<1>2. e.term = term
  BY DEF EntryFor, EntryOf
<1>3. A = NumSize(term) + NumSize(leader) + NumSize(prev) + NumSize(prev)
            + (1 + LengthSize(E) + E) + NumSize(prev)
  <2>1. FieldSize(SerializeFlat(e, LogEntry)) = 1 + LengthSize(E) + E
    BY DEF FieldSize, EntryBytes
  <2>2. e.term \in Numbers /\ ByteSize(SerializeFlat(e, LogEntry)) \in Nat
    BY <1>1, <1>2 DEF EntryBytes
  <2>3. A = NumSize(e.term) + NumSize(leader) + NumSize(prev) + NumSize(prev)
              + FieldSize(SerializeFlat(e, LogEntry)) + NumSize(prev)
    <3> HIDE DEF e
    <3> QED
      BY <2>2, AppendSize DEF AppendBytes
  <2> HIDE DEF A, E
  <2> QED
    BY <1>2, <2>1, <2>3
<1>4. NumSize(term) \in 0..11 /\ NumSize(leader) \in 0..11 /\ NumSize(prev) \in 0..11
  BY NumSizes
<1> HIDE DEF E, A
<1>5. A \in Nat /\ A >= E /\ A <= 56 + LengthSize(E) + E
  BY <1>1, <1>3, <1>4
<1> QED
  BY <1>1, <1>5 DEF A, E

\* The record of an entry adds 30 bytes at most to a key and a value that are short.
LEMMA SmallEntries ==
  ASSUME NEW c \in Command, NEW term \in Numbers, NEW index \in Numbers,
         EntryBytes(c, term, index) > Buffer
  PROVE  SizeOf(c) > Buffer - 30
<1> DEFINE k == ByteSize(c.key)
           v == IF c.op = "put" THEN ByteSize(c.value) ELSE 0
           q == RequestSize(c)
           w == ByteSize(Wrapped(c))
<1>1. k \in Nat /\ v \in Nat /\ SizeOf(c) = k + v
  BY Commands DEF SizeOf
<1> SUFFICES ASSUME k + v <= Buffer - 30 PROVE FALSE
  BY <1>1, Bounds
<1>2. k <= 98 /\ v <= 98 /\ Buffer \in Nat
  BY <1>1, Bounds
<1>3. LengthSize(k) = 1 /\ (c.op = "put" => LengthSize(ByteSize(c.value)) = 1)
  BY <1>1, <1>2, Lengths
<1>4. q \in Nat /\ q <= 4 + k + v
  <2>1. BytesSize(c.key) \in Nat /\ BytesSize(c.key) <= 2 + k
    BY <1>1, <1>3, BytesSizes
  <2>2. CASE c.op = "put"
    <3>1. BytesSize(c.value) \in Nat /\ BytesSize(c.value) <= 2 + v
      BY <1>1, <1>3, <2>2, BytesSizes
    <3>2. q = BytesSize(c.key) + BytesSize(c.value)
      BY <2>2 DEF RequestSize
    <3> HIDE DEF k, v, q
    <3> QED
      BY <1>1, <2>1, <3>1, <3>2
  <2>3. CASE c.op # "put"
    <3>1. q = BytesSize(c.key) + 0 /\ v = 0
      BY <2>3 DEF RequestSize
    <3> HIDE DEF k, v, q
    <3> QED
      BY <1>1, <2>1, <3>1
  <2> QED
    BY <2>2, <2>3
<1> HIDE DEF k, v, q
<1>5. LengthSize(q) = 1
  BY <1>1, <1>2, <1>4, Lengths, Bounds
<1>6. w = 2 + q
  BY <1>4, <1>5, WrappedBounds DEF q
<1> HIDE DEF w
<1>7. LengthSize(w) = 1
  BY <1>1, <1>2, <1>4, <1>6, Lengths, Bounds
<1>8. EntryBytes(c, term, index) <= 22 + 2 + w
  <2>1. EntryBytes(c, term, index) = NumSize(term) + NumSize(index) + (1 + LengthSize(w) + w)
    BY EntryBounds DEF w
  <2>2. NumSize(term) \in 0..11 /\ NumSize(index) \in 0..11
    BY NumSizes
  <2> QED
    BY <1>4, <1>6, <1>7, <2>1, <2>2
<1>9. EntryBytes(c, term, index) \in Nat
  BY EntryBounds
<1> QED
  BY <1>1, <1>2, <1>4, <1>6, <1>8, <1>9, Bounds

\* A request to a follower adds 92 bytes at most to a request of a client.
LEMMA LargeAppends ==
  ASSUME NEW c \in Command, NEW term \in Numbers, NEW index \in Numbers,
         NEW prev \in Numbers \union {Zero}, NEW leader \in Numbers \union {Zero},
         AppendBytes(EntryFor(c, term, index), prev, leader) > Limit
  PROVE  RequestSize(c) > Limit - 92
<1> DEFINE q == RequestSize(c)
           w == ByteSize(Wrapped(c))
           E == EntryBytes(c, term, index)
           A == AppendBytes(EntryFor(c, term, index), prev, leader)
<1>1. /\ q \in Nat /\ w \in Nat /\ w = 1 + LengthSize(q) + q
  BY WrappedBounds
<1>2. E \in Nat /\ E <= 23 + LengthSize(w) + w
  <2>1. /\ E = NumSize(term) + NumSize(index) + (1 + LengthSize(w) + w)
        /\ NumSize(term) \in 0..11 /\ NumSize(index) \in 0..11
        /\ LengthSize(w) \in 1..5 /\ E \in Nat
    BY EntryBounds
  <2> HIDE DEF E, w
  <2> QED
    BY <1>1, <2>1
<1>3. A \in Nat /\ A <= 56 + LengthSize(E) + E
  BY AppendBounds
<1>4. Limit \in Nat /\ Limit < FourGroups /\ FourGroups \in Nat /\ A > Limit
  BY Bounds
<1> HIDE DEF q, w, E, A
<1> SUFFICES ASSUME q <= Limit - 92 PROVE FALSE
  BY <1>1, <1>4 DEF q
<1>5. LengthSize(q) <= 4 /\ LengthSize(q) \in Nat
  BY <1>1, <1>4, Lengths
<1>6. w <= q + 5
  BY <1>1, <1>5
<1>7. LengthSize(w) <= 4 /\ LengthSize(w) \in Nat
  <2>1. w < FourGroups
    BY <1>1, <1>4, <1>6
  <2> QED
    BY <1>1, <2>1, Lengths
<1>8. E <= q + 32
  BY <1>1, <1>2, <1>6, <1>7
<1>9. LengthSize(E) <= 4 /\ LengthSize(E) \in Nat
  <2>1. E < FourGroups
    BY <1>1, <1>2, <1>4, <1>8
  <2> QED
    BY <1>2, <2>1, Lengths
<1> QED
  BY <1>1, <1>2, <1>3, <1>4, <1>8, <1>9

-----------------------------------------------------------------------------
(* Answers.                                                                *)

\* A key and a value that were accepted are too large for a response only if they are within
\* 10 bytes of the limit.
LEMMA AcceptedSizes ==
  ASSUME NEW key \in Keys, NEW value \in Values, IsAccepted(key, value)
  PROVE  LET kv == [key |-> key, value |-> value]
             size == MessageSize(kv, KeyValue)
         IN  /\ size \in Nat /\ size > 0
             /\ 6 + size > Limit => ByteSize(Serialize(kv, KeyValue)) > Limit - 11
<1> DEFINE c == [op |-> "put", key |-> key, value |-> value]
           kv == [key |-> key, value |-> value]
           q == BytesSize(key) + BytesSize(value)
<1>1. BytesSize(key) \in Nat /\ BytesSize(value) \in Nat
  BY BytesSizes, TextsHaveSizes
<1>2. \A schema \in {PutRequest, KeyValue} :
        ByteSize(SerializeFlat(kv, schema)) = q
  BY <1>1, PairSize
<1>3. \A schema \in {PutRequest, KeyValue} :
        /\ SerializeNested(kv, schema) = SerializeFlat(kv, schema)
        /\ Serialize(kv, schema) = SerializeFlat(kv, schema)
  BY EveryLevel, FlatTypes
<1>4. kv # Nil
  <2>1. c \in Command /\ kv = RequestOf(c)
    BY DEF Command, RequestOf
  <2> QED
    BY <2>1, NilIsNothingElse
<1>5. ByteSize(Serialize(kv, PutRequest)) = q /\ ByteSize(Serialize(kv, KeyValue)) = q
  BY <1>2, <1>3
<1>6. MessageSize(kv, KeyValue) = 1 + LengthSize(q) + q
  BY <1>2, <1>3, <1>4 DEF MessageSize, FieldSize
<1>7. q \in Nat /\ q <= Limit
  BY <1>1, <1>5, Bounds DEF IsAccepted, TooLarge
<1> HIDE DEF kv, q
<1>8. LengthSize(q) \in 1..4
  BY <1>7, Bounds, Lengths
<1>9. 6 + MessageSize(kv, KeyValue) > Limit => q > Limit - 11
  BY <1>6, <1>7, <1>8, Bounds
<1> QED
  BY <1>5, <1>6, <1>7, <1>8, <1>9 DEF kv

\* The host of a redirect leaves room for its header.
LEMMA RedirectHeaders ==
  ASSUME NEW r \in Redirects
  PROVE  LET size == MessageSize(Header(Zero, NeedRedirect, r), RpcResponseHeader)
         IN  size \in Nat /\ size > 0 /\ size <= Limit
<1> DEFINE h == Header(Zero, NeedRedirect, r)
           size == MessageSize(h, RpcResponseHeader)
           field == RedirectField(r)
<1>1. h # Nil
  BY NilIsNothingElse
<1>2. NumSize(h.success) = 0 /\ NumSize(h.error_code) = 2 /\ h.redirect = r
  BY DEF Header, NumSize, NumberSize, Zero, NeedRedirect
<1>3. field \in Nat => ByteSize(SerializeNested(h, RpcResponseHeader)) = 0 + 2 + field
  BY <1>2, HeaderSize
<1>4. field \in Nat => size = 1 + LengthSize(2 + field) + (2 + field)
  BY <1>1, <1>3 DEF MessageSize, FieldSize
<1>5. PICK text \in Texts : TRUE
  BY TextsHaveSizes
<1>6. Limit >= 21
  BY <1>5, TextsHaveSizes, Bounds
<1>7. CASE r = Nil
  <2>1. field = 0
    BY <1>7 DEF RedirectField
  <2> QED
    BY <1>4, <1>6, <2>1, Lengths, Bounds
<1>8. CASE r # Nil
  <2> DEFINE host == ByteSize(r.host)
             body == ByteSize(SerializeFlat(r, RpcRedirect))
  <2>1. r \in [host : Texts, port : Numbers] /\ IsWithin(r.port, 16)
    BY <1>8 DEF Redirects
  <2>2. host \in Nat /\ host + 21 <= Limit
    BY <2>1, TextsHaveSizes
  <2>3. NumSize(r.port) \in 0..4
    <3> DEFINE p == r.port
               n == Len(p)
    <3>1. p \in Numbers /\ n \in 1..10 /\ 7 * n < 23
      BY <2>1, NumbersAreGroups DEF IsWithin
    <3>2. NumSize(p) = 0 \/ NumSize(p) = 1 + n \/ NumSize(p) = 2
      BY DEF NumSize, NumberSize
    <3> HIDE DEF p, n
    <3>3. NumSize(p) \in 0..4
      BY <3>1, <3>2
    <3> QED
      BY <3>3 DEF p
  <2>4. BytesSize(r.host) \in Nat /\ BytesSize(r.host) <= 1 + LengthSize(host) + host
    BY <2>2, BytesSizes
  <2>5. body = BytesSize(r.host) + NumSize(r.port)
    BY <2>1, RedirectSize
  <2>6. field = 1 + LengthSize(body) + body
    BY <1>8 DEF RedirectField, FieldSize
  <2> HIDE DEF host, body, size, field
  <2>7. LengthSize(host) \in 1..4
    <3>1. host < FourGroups
      BY <2>2, Bounds
    <3> QED
      BY <2>2, <3>1, Lengths
  <2>8. body \in Nat /\ body <= host + 9
    BY <2>2, <2>3, <2>4, <2>5, <2>7
  <2>9. LengthSize(body) \in 1..4
    <3>1. body < FourGroups
      BY <2>2, <2>8, Bounds
    <3> QED
      BY <2>8, <3>1, Lengths
  <2>10. field \in Nat /\ field <= host + 14
    BY <2>2, <2>6, <2>8, <2>9
  <2>11. LengthSize(2 + field) \in 1..4
    <3>1. 2 + field < FourGroups /\ 2 + field \in Nat
      BY <2>2, <2>10, Bounds
    <3> QED
      BY <3>1, Lengths
  <2> QED
    BY <1>4, <2>2, <2>10, <2>11, Bounds DEF size
<1> QED
  BY <1>7, <1>8

\* The answers that the handlers give.
IsReply(r, c) ==
  /\ r.schema = ResponseType(c)
  /\ Fits(r.message, r.schema)
  /\ LET size == ByteSize(Serialize(r.message, r.schema)) IN
     size \in Nat /\ size > 0 /\ (size > Limit => IsLongGet(r))

-----------------------------------------------------------------------------
(* A command on its way.                                                   *)

\* What should be right is right, or there is nothing yet, or a buffer was overrun and took
\* it along.
IsCopy(v, right) == v \in {Nil, right} \/ (v = Spoilt /\ overrun # {})

\* What the leader and the follower have of an entry, in memory, on disk and on the wire.
Copies(e) ==
  /\ IsCopy(entry, e)
  /\ IsCopy(stored, Serialize(e, LogEntry))
  /\ overrun = {} => stored = Serialize(e, LogEntry)
  /\ "record" \in overrun => Overruns(Serialize(e, LogEntry))
  /\ \E prev, leader \in Numbers \union {Zero} :
       IsCopy(append, Serialize(AppendOf(e, prev, prev, leader, prev), AppendEntriesRequest))
  /\ IsCopy(peerEntry, e)
  /\ IsCopy(peerStored, Serialize(e, LogEntry))
  /\ IsCopy(ran, InternalRequestOf(command, RequestOf(command)))
  /\ IsCopy(recovered, e)

\* Every payload of a command is what its sender had in memory: the request what was called,
\* the record on disk the entry, the append a request with that entry; what a reader got is
\* what was written.  What comes from the leader after its record or its answer has run over
\* other memory may be spoilt, and nothing else may be.
JourneyInv ==
  /\ command = Nil =>
       request = Nil /\ closed = {} /\ entry = Nil /\ overrun = {} /\ reply = Nil
  /\ command # Nil =>
       command \in Command /\ request = Serialize(RequestOf(command), RequestType(command))
  /\ entry = Nil =>
       /\ stored = Nil /\ append = Nil /\ "record" \notin overrun
       /\ peerEntry = Nil /\ peerStored = Nil /\ ran = Nil /\ recovered = Nil
  /\ entry # Nil => \E term, index \in Numbers : Copies(EntryFor(command, term, index))
  /\ "follower" \in closed => append # Nil /\ (append # Spoilt => TooLarge(append))
  /\ reply \in {Nil, Spoilt} =>
       answer = Nil /\ result = Nil /\ ~dropped /\ "answer" \notin overrun
  /\ reply \notin {Nil, Spoilt} => IsReply(reply, command)
  /\ answer # Nil => answer = Serialize(reply.message, reply.schema)
  /\ result # Nil => result = reply.message
  /\ dropped \/ "answer" \in overrun => IsLongGet(reply)

\* The messages of a command fit their types, so that they are read as written.
LEMMA FlatFits ==
  ASSUME NEW schema, IsFlat(schema), NEW m, IsFilled(m, schema)
  PROVE  Fits(m, schema) /\ FitsNested(m, schema) /\ IsDeep(schema)
<1>1. \A f \in WrittenFields(m, schema) : f.kind \in {"number", "optional", "bytes"}
  BY DEF IsFlat, WrittenFields
<1> QED
  BY <1>1, FlatIsNested, NestedIsDeep DEF Fits, FitsNested, HasMessages

LEMMA Records ==
  /\ \A k, v : IsFilled([key |-> k, value |-> v], PutRequest)
  /\ \A k, v : IsFilled([key |-> k, value |-> v], KeyValue)
  /\ \A k : IsFilled([key |-> k], GetRequest)
  /\ \A k : IsFilled([key |-> k], DeleteRequest)
  /\ \A t, i, x : IsFilled([term |-> t, index |-> i, command |-> x], LogEntry)
  /\ \A h, p : IsFilled([host |-> h, port |-> p], RpcRedirect)
  /\ \A s, e, r : IsFilled(Header(s, e, r), RpcResponseHeader)
  /\ \A h : IsFilled([header |-> h], PutResponse) /\ IsFilled([header |-> h], DeleteResponse)
  /\ \A h, kv : IsFilled([header |-> h, kv |-> kv], GetResponse)
  /\ \A e, p, t, l, c : IsFilled(AppendOf(e, p, t, l, c), AppendEntriesRequest)
<1>1. /\ Names(PutRequest) = {"key", "value"} /\ Names(KeyValue) = {"key", "value"}
      /\ Names(RpcRedirect) = {"host", "port"}
  BY Set2, ScalarFields DEF Names, PutRequest, KeyValue, RpcRedirect
<1>2. /\ Names(GetRequest) = {"key"} /\ Names(DeleteRequest) = {"key"}
      /\ Names(PutResponse) = {"header"} /\ Names(DeleteResponse) = {"header"}
  BY Set1, ScalarFields, MessageFields
     DEF Names, GetRequest, DeleteRequest, PutResponse, DeleteResponse
<1>3. Names(GetResponse) = {"header", "kv"}
  BY Set2, MessageFields DEF Names, GetResponse
<1>4. /\ Names(LogEntry) = {"term", "index", "command"}
      /\ Names(RpcResponseHeader) = {"success", "error_code", "redirect"}
  BY Set3, ScalarFields, MessageFields DEF Names, LogEntry, RpcResponseHeader
<1>5. Names(AppendEntriesRequest) =
        {"term", "leader_id", "prev_log_index", "prev_log_term", "entries", "leader_commit"}
  BY Set6, ScalarFields, MessageFields DEF Names, AppendEntriesRequest
<1>6. /\ \A k, v : IsFilled([key |-> k, value |-> v], PutRequest)
      /\ \A k, v : IsFilled([key |-> k, value |-> v], KeyValue)
      /\ \A h, p : IsFilled([host |-> h, port |-> p], RpcRedirect)
  BY <1>1 DEF IsFilled
<1>7. /\ \A k : IsFilled([key |-> k], GetRequest)
      /\ \A k : IsFilled([key |-> k], DeleteRequest)
      /\ \A h : IsFilled([header |-> h], PutResponse) /\ IsFilled([header |-> h], DeleteResponse)
  BY <1>2 DEF IsFilled
<1>8. \A h, kv : IsFilled([header |-> h, kv |-> kv], GetResponse)
  BY <1>3 DEF IsFilled
<1>9. /\ \A t, i, x : IsFilled([term |-> t, index |-> i, command |-> x], LogEntry)
      /\ \A s, e, r : IsFilled(Header(s, e, r), RpcResponseHeader)
  BY <1>4 DEF IsFilled, Header
<1>10. \A e, p, t, l, c : IsFilled(AppendOf(e, p, t, l, c), AppendEntriesRequest)
  BY <1>5 DEF IsFilled, AppendOf
<1> QED
  BY <1>6, <1>7, <1>8, <1>9, <1>10

\* Each payload is read as it was written.
LEMMA RequestsArrive ==
  ASSUME NEW c \in Command
  PROVE  /\ Parse(Serialize(RequestOf(c), RequestType(c)), RequestType(c)) = RequestOf(c)
         /\ FitsNested(RequestOf(c), RequestType(c))
<1>1. IsFlat(RequestType(c))
  BY Requests
<1>2. IsFilled(RequestOf(c), RequestType(c))
  <2>1. CASE c.op = "put"
    BY <2>1, Records DEF RequestOf, RequestType
  <2>2. CASE c.op = "get" \/ c.op = "delete"
    <3>1. RequestOf(c) = [key |-> c.key] /\ RequestType(c) \in {GetRequest, DeleteRequest}
      BY <2>2 DEF RequestOf, RequestType
    <3> QED
      BY <3>1, Records
  <2> QED
    BY <2>1, <2>2, Commands
<1> QED
  BY <1>1, <1>2, FlatFits, DeepRoundTrip

LEMMA InternalRequestsArrive ==
  ASSUME NEW c \in Command
  PROVE  Parse(Wrapped(c), InternalRaftRequest) = InternalRequestOf(c, RequestOf(c))
<1>1. IsDeep(InternalRaftRequest) /\ WellFormed(InternalRaftRequest)
  BY DeepTypes DEF Types, IsDeep
<1>2. FitsField(FieldOf(c), RequestOf(c))
  BY Requests, RequestsArrive DEF FitsField
<1>3. Fits(InternalRequestOf(c, RequestOf(c)), InternalRaftRequest)
  BY <1>1, <1>2, Requests, DefaultFits, SetFits DEF InternalRequestOf
<1> QED
  BY <1>1, <1>3, DeepRoundTrip DEF Wrapped

LEMMA EntriesArrive ==
  ASSUME NEW c, NEW term, NEW index
  PROVE  LET e == EntryFor(c, term, index) IN
         /\ Parse(Serialize(e, LogEntry), LogEntry) = e
         /\ FitsNested(e, LogEntry)
<1>1. IsFilled(EntryFor(c, term, index), LogEntry)
  BY Records DEF EntryFor, EntryOf
<1> QED
  BY <1>1, FlatTypes, FlatFits, DeepRoundTrip

LEMMA AppendsArrive ==
  ASSUME NEW e, FitsNested(e, LogEntry), NEW prev, NEW leader
  PROVE  LET m == AppendOf(e, prev, prev, leader, prev) IN
         Head(Parse(Serialize(m, AppendEntriesRequest), AppendEntriesRequest).entries) = e
<1> DEFINE m == AppendOf(e, prev, prev, leader, prev)
<1>1. m.entries = <<e>>
  BY DEF AppendOf
<1>2. /\ ToSet(AppendEntriesRequest) =
           {Number(1, "term"), Number(2, "leader_id"), Number(3, "prev_log_index"),
            Number(4, "prev_log_term"), Repeated(5, "entries", LogEntry),
            Number(6, "leader_commit")}
      /\ IsDeep(AppendEntriesRequest)
  BY Set6, DeepTypes DEF AppendEntriesRequest, Types
<1>3. \A f \in ToSet(AppendEntriesRequest) :
        f.kind = "number" \/ (f.kind = "repeated" /\ f.name = "entries" /\ f.type = LogEntry)
  BY <1>2, ScalarFields, MessageFields
<1>4. /\ m.entries = [k \in DOMAIN m.entries |-> m.entries[k]]
      /\ \A k \in DOMAIN m.entries : FitsNested(m.entries[k], LogEntry)
  <2>1. DOMAIN <<e>> = {1} /\ <<e>>[1] = e
    OBVIOUS
  <2>2. <<e>> = [k \in DOMAIN <<e>> |-> <<e>>[k]]
    OBVIOUS
  <2> QED
    BY <1>1, <2>1, <2>2
<1>5. IsFilled(m, AppendEntriesRequest)
  BY Records
<1> HIDE DEF m
<1>6. Fits(m, AppendEntriesRequest)
  BY <1>3, <1>4, <1>5 DEF Fits, WrittenFields
<1>7. Parse(Serialize(m, AppendEntriesRequest), AppendEntriesRequest) = m
  BY <1>2, <1>6, DeepRoundTrip
<1>8. Head(<<e>>) = e
  OBVIOUS
<1> QED
  BY <1>1, <1>7, <1>8 DEF m

\* The messages of an answer fit their types and the limit.
LEMMA HeadersFit ==
  ASSUME NEW success, NEW code, NEW r \in Redirects
  PROVE  FitsNested(Header(success, code, r), RpcResponseHeader)
<1> DEFINE h == Header(success, code, r)
<1>1. ToSet(RpcResponseHeader) =
        {Flag(1, "success"), Number32(2, "error_code"), Message(3, "redirect", RpcRedirect)}
  BY Set3 DEF RpcResponseHeader
<1>2. \A f \in ToSet(RpcResponseHeader) :
        HasMessages(f) => f.name = "redirect" /\ f.type = RpcRedirect /\ f.kind = "message"
  BY <1>1, ScalarFields, MessageFields DEF HasMessages
<1>3. h.redirect = r
  BY DEF Header
<1>4. r # Nil => IsFilled(r, RpcRedirect)
  <2> SUFFICES ASSUME r # Nil PROVE IsFilled(r, RpcRedirect)
    OBVIOUS
  <2>1. r = [host |-> r.host, port |-> r.port]
    BY DEF Redirects
  <2> QED
    BY <2>1, Records
<1> HIDE DEF h
<1>5. \A f \in WrittenFields(h, RpcResponseHeader) :
        HasMessages(f) => IsFilled(h[f.name], f.type)
  BY <1>2, <1>3, <1>4 DEF WrittenFields, IsWritten, DefaultOf, HasPresence
<1> QED
  BY <1>5, Records DEF FitsNested, h

LEMMA ResponsesFit ==
  ASSUME NEW h, FitsNested(h, RpcResponseHeader)
  PROVE  /\ Fits([header |-> h], PutResponse) /\ Fits([header |-> h], DeleteResponse)
         /\ \A kv : FitsNested(kv, KeyValue) \/ kv = Nil =>
              Fits([header |-> h, kv |-> kv], GetResponse)
<1>1. ASSUME NEW schema \in {PutResponse, DeleteResponse}
      PROVE  Fits([header |-> h], schema)
  <2>1. ToSet(schema) = {Message(1, "header", RpcResponseHeader)}
    BY Set1 DEF PutResponse, DeleteResponse
  <2>2. \A f \in ToSet(schema) :
          f.kind = "message" /\ f.name = "header" /\ f.type = RpcResponseHeader
    BY <2>1, MessageFields
  <2>3. IsFilled([header |-> h], schema)
    BY Records
  <2> QED
    BY <2>2, <2>3 DEF Fits, WrittenFields
<1>2. ASSUME NEW kv, FitsNested(kv, KeyValue) \/ kv = Nil
      PROVE  Fits([header |-> h, kv |-> kv], GetResponse)
  <2> DEFINE m == [header |-> h, kv |-> kv]
  <2>1. ToSet(GetResponse) =
          {Message(1, "header", RpcResponseHeader), Message(2, "kv", KeyValue)}
    BY Set2 DEF GetResponse
  <2>2. \A f \in ToSet(GetResponse) :
          /\ f.kind = "message"
          /\ \/ f.name = "header" /\ f.type = RpcResponseHeader
             \/ f.name = "kv" /\ f.type = KeyValue
    BY <2>1, MessageFields
  <2>3. IsFilled(m, GetResponse) /\ m.header = h /\ m.kv = kv
    BY Records
  <2> HIDE DEF m
  <2>4. \A f \in WrittenFields(m, GetResponse) : FitsNested(m[f.name], f.type)
    BY <1>2, <2>2, <2>3 DEF WrittenFields, IsWritten, DefaultOf, HasPresence
  <2> QED
    BY <2>2, <2>3, <2>4 DEF Fits, WrittenFields, m
<1> QED
  BY <1>1, <1>2

\* A delete that fails is answered with a PutResponse: written alike, and told from a
\* GetResponse by its fields.
LEMMA DistinctResponses == PutResponse # GetResponse /\ DeleteResponse # GetResponse
  /\ PutResponse = DeleteResponse
<1>1. Len(PutResponse) = 1 /\ Len(DeleteResponse) = 1 /\ Len(GetResponse) = 2
  BY DEF PutResponse, DeleteResponse, GetResponse
<1> QED
  BY <1>1 DEF PutResponse, DeleteResponse

LEMMA ShortReplies ==
  ASSUME NEW c \in Command, NEW success, NEW code, NEW r \in Redirects,
         LET size == MessageSize(Header(success, code, r), RpcResponseHeader)
         IN  size \in Nat /\ size > 0 /\ size <= Limit,
         NEW schema, schema = ResponseType(c)
  PROVE  IsReply(Response(schema, Header(success, code, r), Nil), c)
<1> DEFINE h == Header(success, code, r)
           reply_ == Response(schema, h, Nil)
<1>1. FitsNested(h, RpcResponseHeader)
  BY HeadersFit
<1>2. MessageSize(h, RpcResponseHeader) \in 1..Limit
  BY Bounds
<1>3. schema \in {PutResponse, GetResponse, DeleteResponse}
  BY Commands DEF ResponseType
<1>4. MessageSize(Nil, KeyValue) = 0
  BY DEF MessageSize
<1> HIDE DEF h
<1>5. CASE schema = GetResponse
  <2>1. reply_.message = [header |-> h, kv |-> Nil] /\ reply_.schema = GetResponse
    BY <1>5 DEF Response
  <2>2. Fits([header |-> h, kv |-> Nil], GetResponse)
    BY <1>1, ResponsesFit
  <2>3. ByteSize(Serialize([header |-> h, kv |-> Nil], GetResponse)) \in 1..Limit
    BY <1>2, <1>4, GetResponseSize, Bounds
  <2> QED
    BY <1>5, <2>1, <2>2, <2>3, Bounds DEF IsReply, h
<1>6. CASE schema \in {PutResponse, DeleteResponse}
  <2>1. reply_.message = [header |-> h] /\ reply_.schema = schema
    BY <1>6, DistinctResponses DEF Response
  <2>2. Fits([header |-> h], schema)
    BY <1>1, <1>6, ResponsesFit
  <2>3. ByteSize(Serialize([header |-> h], schema)) \in 1..Limit
    BY <1>2, <1>6, ShortResponseSize, Bounds
  <2> QED
    BY <2>1, <2>2, <2>3, Bounds DEF IsReply, h
<1> QED
  BY <1>3, <1>5, <1>6

LEMMA LimitIsAtLeast == Limit >= 21
<1>1. PICK text \in Texts : TRUE
  BY TextsHaveSizes
<1> QED
  BY <1>1, TextsHaveSizes, Bounds

\* The command that a key and a value come from.
PutOf(kv) == [op |-> "put", key |-> kv.key, value |-> kv.value]

\* Whatever the handlers answer, it is a reply that can be sent, or a long get's.
LEMMA OutcomesAreReplies ==
  ASSUME NEW c \in Command, NEW r \in Outcomes(c)
  PROVE  IsReply(r, c)
<1>1. Nil \in Redirects
  BY DEF Redirects
<1>2. /\ MessageSize(Success, RpcResponseHeader) = 6
      /\ MessageSize(Failure(KVPutFailed), RpcResponseHeader) = 4
      /\ MessageSize(Failure(KVGetFailed), RpcResponseHeader) = 4
  BY SmallHeaders
<1>3. ASSUME NEW schema, schema = ResponseType(c)
      PROVE  /\ IsReply(Response(schema, Success, Nil), c)
             /\ IsReply(Response(schema, Failure(KVPutFailed), Nil), c)
             /\ IsReply(Response(schema, Failure(KVGetFailed), Nil), c)
  BY <1>1, <1>2, <1>3, ShortReplies, LimitIsAtLeast, Bounds DEF Success, Failure
<1>4. CASE c.op = "put"
  BY <1>3, <1>4 DEF Outcomes, ResponseType
<1>5. CASE c.op = "delete"
  BY <1>3, <1>5, DistinctResponses DEF Outcomes, ResponseType
<1>6. CASE c.op = "get"
  <2>1. ResponseType(c) = GetResponse
    BY <1>6 DEF ResponseType
  <2>2. ASSUME NEW v \in Values, IsAccepted(c.key, v)
        PROVE  IsReply(Response(GetResponse, Success, [key |-> c.key, value |-> v]), c)
    <3> DEFINE kv == [key |-> c.key, value |-> v]
               m == [header |-> Success, kv |-> kv]
    <3>1. c.key \in Keys
      BY DEF Command
    <3>2. /\ MessageSize(kv, KeyValue) \in Nat
          /\ 6 + MessageSize(kv, KeyValue) > Limit => ByteSize(Serialize(kv, KeyValue)) > Limit - 11
      BY <2>2, <3>1, AcceptedSizes
    <3>3. FitsNested(kv, KeyValue)
      BY Records, FlatTypes, FlatFits
    <3>4. FitsNested(Success, RpcResponseHeader)
      BY <1>1, HeadersFit DEF Success
    <3>5. kv # Nil
      <4>1. PutOf(kv) \in Command /\ kv = RequestOf(PutOf(kv))
        BY <2>2, <3>1 DEF PutOf, Command, RequestOf
      <4> QED
        BY <4>1, NilIsNothingElse
    <3> HIDE DEF kv
    <3>6. Fits(m, GetResponse)
      BY <3>3, <3>4, ResponsesFit
    <3>7. ByteSize(Serialize(m, GetResponse)) = 6 + MessageSize(kv, KeyValue)
      BY <1>2, <3>2, GetResponseSize
    <3>8. LET size == ByteSize(Serialize(m, GetResponse)) IN
          /\ size \in Nat /\ size > 0
          /\ size > Limit => ByteSize(Serialize(kv, KeyValue)) > Limit - 11
      BY <3>2, <3>7
    <3>9. m.kv = kv /\ Response(GetResponse, Success, kv) = [schema |-> GetResponse, message |-> m]
      BY DEF Response
    <3> HIDE DEF m
    <3> QED
      BY <2>1, <3>5, <3>6, <3>8, <3>9 DEF IsReply, IsLongGet, kv
  <2>3. IsReply(Response(GetResponse, Failure(KVGetFailed), Nil), c)
    BY <1>3, <2>1
  <2> QED
    BY <1>6, <2>2, <2>3 DEF Outcomes
<1> QED
  BY <1>4, <1>5, <1>6, Commands

\* What a command's journey consists of.
journeyVars == <<command, request, closed, leaderVars, append, peerVars, answerVars>>

LEMMA JourneyInitially == Init => JourneyInv
BY SpoiltIsNothingElse DEF Init, JourneyInv

\* What is unchanged is still a copy.
LEMMA CopiesStay ==
  ASSUME entry # Nil => \E term, index \in Numbers : Copies(EntryFor(command, term, index)),
         UNCHANGED <<command, entry, stored, overrun, append, peerEntry, peerStored, ran,
                     recovered>>
  PROVE  (entry # Nil => \E term, index \in Numbers : Copies(EntryFor(command, term, index)))'
<1> SUFFICES ASSUME entry # Nil
             PROVE  (\E term, index \in Numbers : Copies(EntryFor(command, term, index)))'
  OBVIOUS
<1>1. PICK term \in Numbers, index \in Numbers : Copies(EntryFor(command, term, index))
  OBVIOUS
<1>2. Copies(EntryFor(command, term, index))'
  BY <1>1 DEF Copies, IsCopy, EntryFor, EntryOf
<1> QED
  BY <1>2

LEMMA JourneyUntouched ==
  ASSUME JourneyInv, UNCHANGED journeyVars
  PROVE  JourneyInv'
<1>1. UNCHANGED <<command, request, closed, entry, stored, overrun, recovered, append, peerEntry,
                  peerStored, ran, reply, answer, dropped, result>>
  BY DEF journeyVars, leaderVars, peerVars, answerVars
<1>2. (entry # Nil => \E term, index \in Numbers : Copies(EntryFor(command, term, index)))'
  BY <1>1, CopiesStay DEF JourneyInv
<1> QED
  BY <1>1, <1>2 DEF JourneyInv, IsReply, IsLongGet, TooLarge

\* One lemma for the actions of one party.
LEMMA CallKeeps ==
  ASSUME JourneyInv, NEW c \in Command, Call(c)
  PROVE  JourneyInv'
<1>1. command = Nil /\ command' = c /\ c # Nil
  BY NilIsNothingElse DEF Call
<1>2. request' = Serialize(RequestOf(command'), RequestType(command'))
  BY DEF Call
<1>3. UNCHANGED <<closed, entry, stored, overrun, died, recovered, append, peerEntry, peerStored,
                  ran, reply, answer, dropped, result>>
  BY DEF Call, leaderVars, peerVars, answerVars
<1>4. /\ closed = {} /\ entry = Nil /\ stored = Nil /\ overrun = {} /\ append = Nil
      /\ reply = Nil /\ answer = Nil /\ result = Nil /\ peerEntry = Nil /\ recovered = Nil
      /\ peerStored = Nil /\ ran = Nil /\ ~dropped
  BY <1>1 DEF JourneyInv
<1> QED
  BY <1>1, <1>2, <1>3, <1>4 DEF JourneyInv

LEMMA RefusalsKeep ==
  ASSUME JourneyInv, RefuseRequest \/ RefuseAppend
  PROVE  JourneyInv'
<1>1. UNCHANGED <<command, request, entry, stored, overrun, died, recovered, append, peerEntry,
                  peerStored, ran, reply, answer, dropped, result>>
  BY DEF RefuseRequest, RefuseAppend, leaderVars, peerVars, answerVars
<1>2. request # Nil \/ append # Nil
  BY DEF RefuseRequest, RefuseAppend
<1>3. command # Nil
  BY <1>2 DEF JourneyInv
<1>4. "follower" \in closed' => append # Nil /\ (append # Spoilt => TooLarge(append))
  BY DEF RefuseRequest, RefuseAppend
<1>5. (entry # Nil => \E term, index \in Numbers : Copies(EntryFor(command, term, index)))'
  BY <1>1, CopiesStay DEF JourneyInv
<1> QED
  BY <1>1, <1>3, <1>4, <1>5 DEF JourneyInv, IsReply, IsLongGet, TooLarge

LEMMA ReplyKeeps ==
  ASSUME JourneyInv, command # Nil, reply = Nil,
         reply' = Spoilt \/ IsReply(reply', command),
         UNCHANGED <<command, request, closed, leaderVars, append, peerVars, answer, dropped,
                     result>>
  PROVE  JourneyInv'
<1>1. UNCHANGED <<command, request, closed, entry, stored, overrun, died, recovered, append,
                  peerEntry, peerStored, ran, answer, dropped, result>>
  BY DEF leaderVars, peerVars
<1>2. answer = Nil /\ result = Nil /\ ~dropped /\ "answer" \notin overrun
  BY DEF JourneyInv
<1>3. reply' # Spoilt => IsReply(reply', command')
  BY <1>1
<1>4. (entry # Nil => \E term, index \in Numbers : Copies(EntryFor(command, term, index)))'
  BY <1>1, CopiesStay DEF JourneyInv
<1> QED
  BY <1>1, <1>2, <1>3, <1>4 DEF JourneyInv, TooLarge

LEMMA HandlersKeep ==
  ASSUME JourneyInv, Redirect \/ FailPropose \/ Apply
  PROVE  JourneyInv'
<1>1. command # Nil /\ command \in Command /\ reply = Nil
  <2>1. request # Nil \/ entry # Nil
    BY DEF Redirect, FailPropose, Apply, IsHandled
  <2> QED
    BY <2>1 DEF JourneyInv, Redirect, FailPropose, Apply, IsHandled
<1>2. UNCHANGED <<command, request, closed, leaderVars, append, peerVars, answer, dropped, result>>
  BY DEF Redirect, FailPropose, Apply
<1>3. CASE Redirect
  <2>1. PICK r \in Redirects :
          reply' = Response(ResponseType(command), Header(Zero, NeedRedirect, r), Nil)
    BY <1>3 DEF Redirect
  <2>2. IsReply(reply', command)
    BY <1>1, <2>1, RedirectHeaders, ShortReplies
  <2> QED
    BY <1>1, <1>2, <2>2, ReplyKeeps
<1>4. CASE FailPropose
  <2>1. reply' = Response(ResponseType(command), Failure(LogEntryAppendOrPersistFailed), Nil)
    BY <1>4 DEF FailPropose
  <2>2. IsReply(reply', command)
    <3>1. Nil \in Redirects
      BY DEF Redirects
    <3>2. MessageSize(Header(Zero, LogEntryAppendOrPersistFailed, Nil), RpcResponseHeader) = 4
      BY SmallHeaders DEF Failure
    <3> QED
      BY <1>1, <2>1, <3>1, <3>2, ShortReplies, LimitIsAtLeast, Bounds DEF Failure
  <2> QED
    BY <1>1, <1>2, <2>2, ReplyKeeps
<1>5. CASE Apply
  <2>1. PICK r \in Outcomes(command) : reply' \in Remains(r, overrun)
    BY <1>5 DEF Apply
  <2>2. reply' = Spoilt \/ reply' = r
    BY <2>1 DEF Remains
  <2>3. IsReply(r, command)
    BY <1>1, OutcomesAreReplies
  <2> QED
    BY <1>1, <1>2, <2>2, <2>3, ReplyKeeps
<1> QED
  BY <1>3, <1>4, <1>5

LEMMA ProposeKeeps ==
  ASSUME JourneyInv, Propose
  PROVE  JourneyInv'
<1>1. command # Nil /\ command \in Command /\ entry = Nil /\ reply = Nil
      /\ request = Serialize(RequestOf(command), RequestType(command))
  BY DEF JourneyInv, Propose, IsHandled
<1>2. PICK term \in Numbers, index \in Numbers, prev \in Numbers \union {Zero},
           leader \in Numbers \union {Zero} :
        LET e == EntryOf(command, Parse(request, RequestType(command)), term, index)
            record == Serialize(e, LogEntry)
            message_ == Serialize(AppendOf(e, prev, prev, leader, prev), AppendEntriesRequest)
        IN
        /\ overrun' = IF Overruns(record) THEN {"record"} ELSE {}
        /\ died' \in {FALSE, overrun' # {}}
        /\ entry' \in Remains(e, overrun')
        /\ stored' \in Remains(record, overrun') \union IF died' THEN {Nil} ELSE {}
        /\ append' \in IF died' THEN {Nil} ELSE Remains(message_, overrun')
  BY DEF Propose
<1>3. PICK e : e = EntryFor(command, term, index)
  OBVIOUS
<1> DEFINE record == Serialize(e, LogEntry)
           message_ == Serialize(AppendOf(e, prev, prev, leader, prev), AppendEntriesRequest)
<1>4. UNCHANGED <<command, request, closed, recovered, peerEntry, peerStored, ran, reply, answer,
                  dropped, result>>
  BY DEF Propose, peerVars, answerVars
<1>5. e = EntryOf(command, Parse(request, RequestType(command)), term, index) /\ e # Nil
  BY <1>1, <1>3, RequestsArrive, NilIsNothingElse DEF EntryFor
<1>6. /\ overrun' = IF Overruns(record) THEN {"record"} ELSE {}
      /\ died' \in {FALSE, overrun' # {}}
      /\ entry' \in Remains(e, overrun')
      /\ stored' \in Remains(record, overrun') \union IF died' THEN {Nil} ELSE {}
      /\ append' \in IF died' THEN {Nil} ELSE Remains(message_, overrun')
  BY <1>2, <1>5
<1>7. /\ append = Nil /\ "follower" \notin closed /\ peerEntry = Nil /\ recovered = Nil
      /\ peerStored = Nil /\ ran = Nil /\ answer = Nil /\ result = Nil /\ ~dropped
  BY <1>1 DEF JourneyInv
<1>8. Spoilt # Nil
  BY SpoiltIsNothingElse
<1>9. command' = command /\ e = EntryFor(command', term, index)
  BY <1>3, <1>4
<1> HIDE DEF record, message_
<1>10. /\ entry' = e \/ (entry' = Spoilt /\ overrun' # {})
       /\ stored' \in {Nil, record} \/ (stored' = Spoilt /\ overrun' # {})
       /\ append' \in {Nil, message_} \/ (append' = Spoilt /\ overrun' # {})
  BY <1>6 DEF Remains
<1>11. entry' # Nil
  <2>1. entry' = e \/ entry' = Spoilt
    BY <1>10
  <2>2. e # Nil
    BY <1>5
  <2> QED
    BY <1>8, <2>1, <2>2
<1>12. overrun' = {} => stored' = record
  BY <1>6 DEF Remains
<1>13. "record" \in overrun' => Overruns(record)
  BY <1>6
<1>14. Copies(e)'
  <2>1. IsCopy(entry, e)' /\ IsCopy(stored, Serialize(e, LogEntry))'
    BY <1>10 DEF IsCopy, record
  <2>2. IsCopy(append, Serialize(AppendOf(e, prev, prev, leader, prev), AppendEntriesRequest))'
    BY <1>10 DEF IsCopy, message_
  <2>3. /\ IsCopy(peerEntry, e)' /\ IsCopy(peerStored, Serialize(e, LogEntry))'
        /\ IsCopy(ran, InternalRequestOf(command, RequestOf(command)))' /\ IsCopy(recovered, e)'
    BY <1>4, <1>7 DEF IsCopy
  <2>4. /\ overrun' = {} => stored' = Serialize(e, LogEntry)
        /\ "record" \in overrun' => Overruns(Serialize(e, LogEntry))
    BY <1>12, <1>13 DEF record
  <2> QED
    BY <2>1, <2>2, <2>3, <2>4 DEF Copies
<1>15. "answer" \notin overrun'
  BY <1>6
<1>16. \E t, i \in Numbers : Copies(EntryFor(command, t, i))'
  BY <1>9, <1>14
<1> QED
  BY <1>1, <1>4, <1>7, <1>8, <1>11, <1>15, <1>16 DEF JourneyInv

\* With an entry there is a command, and what there is of the entry are copies of it.
LEMMA WithEntry ==
  ASSUME JourneyInv, entry # Nil
  PROVE  /\ command # Nil /\ command \in Command
         /\ \E term, index \in Numbers : Copies(EntryFor(command, term, index))
BY DEF JourneyInv

\* Nothing of an entry is taken for a spoilt one.
LEMMA NotSpoilt ==
  ASSUME NEW c \in Command, NEW term \in Numbers, NEW index \in Numbers
  PROVE  LET e == EntryFor(c, term, index) IN
         /\ e # Spoilt /\ e # Nil /\ Serialize(e, LogEntry) # Spoilt
         /\ \A prev, leader \in Numbers \union {Zero} :
              Serialize(AppendOf(e, prev, prev, leader, prev), AppendEntriesRequest) # Spoilt
BY SpoiltIsNothingElse, NilIsNothingElse DEF EntryFor

LEMMA PeersKeep ==
  ASSUME JourneyInv, AcceptAppend \/ ApplyEntry \/ Recover
  PROVE  JourneyInv'
<1>1. entry # Nil
  BY DEF JourneyInv, AcceptAppend, ApplyEntry, Recover
<1>2. command # Nil /\ command \in Command
  BY <1>1, WithEntry
<1>3. PICK term \in Numbers, index \in Numbers : Copies(EntryFor(command, term, index))
  BY <1>1, WithEntry
<1>4. UNCHANGED <<command, request, closed, entry, stored, overrun, died, append, reply, answer,
                  dropped, result>>
  BY DEF AcceptAppend, ApplyEntry, Recover, leaderVars, answerVars
<1> PICK e : e = EntryFor(command, term, index)
  OBVIOUS
<1>5. /\ e # Spoilt /\ e # Nil /\ Serialize(e, LogEntry) # Spoilt
      /\ \A prev, leader \in Numbers \union {Zero} :
           Serialize(AppendOf(e, prev, prev, leader, prev), AppendEntriesRequest) # Spoilt
  BY <1>2, NotSpoilt
<1>6. FitsNested(e, LogEntry) /\ Parse(Serialize(e, LogEntry), LogEntry) = e
  BY EntriesArrive
<1>7. e.command = Wrapped(command)
  BY DEF EntryFor, EntryOf, Wrapped
<1>8. e = EntryFor(command', term, index)
  BY <1>4
<1>9. Copies(e)
  BY <1>3
<1>10. Copies(e)'
  <2>1. CASE AcceptAppend
    <3>1. UNCHANGED <<ran, recovered>> /\ append # Nil
      BY <2>1 DEF AcceptAppend, leaderVars
    <3>2. PICK prev \in Numbers \union {Zero}, leader \in Numbers \union {Zero} :
            IsCopy(append, Serialize(AppendOf(e, prev, prev, leader, prev), AppendEntriesRequest))
      BY <1>9 DEF Copies
    <3>3. CASE append = Spoilt
      <4>1. overrun # {}
        BY <1>5, <3>1, <3>2, <3>3 DEF IsCopy
      <4>2. peerEntry' = Spoilt /\ peerStored' = Spoilt
        BY <2>1, <3>3 DEF AcceptAppend
      <4> QED
        BY <1>4, <1>9, <3>1, <4>1, <4>2 DEF Copies, IsCopy
    <3>4. CASE append # Spoilt
      <4>1. append = Serialize(AppendOf(e, prev, prev, leader, prev), AppendEntriesRequest)
        BY <3>1, <3>2, <3>4 DEF IsCopy
      <4>2. peerEntry' = e
        BY <1>6, <2>1, <3>4, <4>1, AppendsArrive DEF AcceptAppend
      <4>3. peerStored' = Serialize(e, LogEntry)
        BY <2>1, <3>4, <4>2 DEF AcceptAppend
      <4> QED
        BY <1>4, <1>9, <3>1, <4>2, <4>3 DEF Copies, IsCopy
    <3> QED
      BY <3>3, <3>4
  <2>2. CASE ApplyEntry
    <3>1. UNCHANGED <<peerEntry, peerStored, recovered>> /\ peerEntry # Nil
      BY <2>2 DEF ApplyEntry, leaderVars
    <3>2. CASE peerEntry = Spoilt
      <4>1. overrun # {} /\ ran' = Spoilt
        BY <1>5, <1>9, <2>2, <3>1, <3>2 DEF Copies, IsCopy, ApplyEntry
      <4> QED
        BY <1>4, <1>9, <3>1, <4>1 DEF Copies, IsCopy
    <3>3. CASE peerEntry # Spoilt
      <4>1. peerEntry = e
        BY <1>9, <3>1, <3>3 DEF Copies, IsCopy
      <4>2. ran' = InternalRequestOf(command, RequestOf(command))
        BY <1>2, <1>7, <2>2, <3>3, <4>1, InternalRequestsArrive DEF ApplyEntry
      <4> QED
        BY <1>4, <1>9, <3>1, <4>2 DEF Copies, IsCopy
    <3> QED
      BY <3>2, <3>3
  <2>3. CASE Recover
    <3>1. UNCHANGED <<peerEntry, peerStored, ran>> /\ stored # Nil
      BY <2>3 DEF Recover, peerVars
    <3>2. CASE stored = Spoilt
      <4>1. overrun # {} /\ recovered' = Spoilt
        BY <1>5, <1>9, <2>3, <3>1, <3>2 DEF Copies, IsCopy, Recover
      <4> QED
        BY <1>4, <1>9, <3>1, <4>1 DEF Copies, IsCopy
    <3>3. CASE stored # Spoilt
      <4>1. stored = Serialize(e, LogEntry)
        BY <1>9, <3>1, <3>3 DEF Copies, IsCopy
      <4>2. recovered' = e
        BY <1>6, <2>3, <3>3, <4>1 DEF Recover
      <4> QED
        BY <1>4, <1>9, <3>1, <4>2 DEF Copies, IsCopy
    <3> QED
      BY <3>2, <3>3
  <2> QED
    BY <2>1, <2>2, <2>3
<1>11. \E t, i \in Numbers : Copies(EntryFor(command, t, i))'
  BY <1>8, <1>10
<1> QED
  BY <1>1, <1>2, <1>4, <1>11 DEF JourneyInv, IsReply, IsLongGet, TooLarge

\* An answer is sent, or does not fit its buffer, which may take the entry and the append along.
LEMMA AnswersKeep ==
  ASSUME JourneyInv, Respond \/ DropAnswer
  PROVE  JourneyInv'
<1>1. reply \notin {Nil, Spoilt} /\ IsReply(reply, command) /\ answer = Nil
  BY DEF JourneyInv, Respond, DropAnswer
<1>2. command # Nil
  BY <1>1 DEF JourneyInv
<1>3. UNCHANGED <<command, request, closed, stored, recovered, peerEntry, peerStored, ran, reply,
                  result>>
  BY DEF Respond, DropAnswer, leaderVars, peerVars
<1>4. /\ ByteSize(ReplyBytes) \in Nat /\ ByteSize(ReplyBytes) > 0
      /\ ByteSize(ReplyBytes) > Limit => IsLongGet(reply)
  BY <1>1 DEF IsReply, ReplyBytes
<1>5. CASE Respond
  <2>1. UNCHANGED <<entry, overrun, append, dropped>>
    BY <1>5 DEF Respond, leaderVars
  <2>2. answer' = Serialize(reply.message, reply.schema)
    BY <1>5 DEF Respond, ReplyBytes
  <2>3. (entry # Nil => \E term, index \in Numbers : Copies(EntryFor(command, term, index)))'
    BY <1>3, <2>1, CopiesStay DEF JourneyInv
  <2> QED
    BY <1>1, <1>2, <1>3, <2>1, <2>2, <2>3 DEF JourneyInv, IsReply, IsLongGet, TooLarge
<1>6. CASE DropAnswer
  <2>1. IsLongGet(reply) /\ overrun' = overrun \union {"answer"}
    <3>1. ~IsSent(ReplyBytes)
      BY <1>6 DEF DropAnswer
    <3>2. ByteSize(ReplyBytes) > Limit
      BY <1>4, <3>1, Bounds DEF IsSent
    <3> QED
      BY <1>4, <1>6, <3>2 DEF DropAnswer, TooLarge
  <2>2. /\ entry' \in Remains(entry, overrun') /\ append' \in Remains(append, overrun')
        /\ answer' = answer
    BY <1>6 DEF DropAnswer
  <2>3. /\ entry = Nil <=> entry' = Nil
        /\ append = Nil => append' = Nil
        /\ entry' \in {entry, Spoilt} /\ append' \in {append, Spoilt}
        /\ append # Nil => append' # Nil
    BY <2>2, SpoiltIsNothingElse DEF Remains
  <2>4. (entry # Nil => \E term, index \in Numbers : Copies(EntryFor(command, term, index)))'
    <3> SUFFICES ASSUME entry' # Nil
                 PROVE  (\E term, index \in Numbers : Copies(EntryFor(command, term, index)))'
      OBVIOUS
    <3>1. entry # Nil
      BY <2>3
    <3>2. PICK term \in Numbers, index \in Numbers : Copies(EntryFor(command, term, index))
      BY <3>1, WithEntry
    <3> PICK e : e = EntryFor(command, term, index)
      OBVIOUS
    <3>3. e = EntryFor(command', term, index)
      BY <1>3
    <3>4. Copies(e)
      BY <3>2
    <3>5. overrun' # {} /\ ("record" \in overrun' => "record" \in overrun)
      BY <2>1
    <3>6. Copies(e)'
      <4>1. PICK prev \in Numbers \union {Zero}, leader \in Numbers \union {Zero} :
              IsCopy(append, Serialize(AppendOf(e, prev, prev, leader, prev), AppendEntriesRequest))
        BY <3>4 DEF Copies
      <4>2. IsCopy(append, Serialize(AppendOf(e, prev, prev, leader, prev), AppendEntriesRequest))'
        BY <2>3, <3>5, <4>1 DEF IsCopy
      <4> QED
        BY <1>3, <2>3, <3>4, <3>5, <4>2 DEF Copies, IsCopy
    <3> QED
      BY <3>3, <3>6
  <2>5. "follower" \in closed' => append' # Nil /\ (append' # Spoilt => TooLarge(append'))
    BY <1>3, <2>3 DEF JourneyInv
  <2>6. "record" \in overrun' => "record" \in overrun
    BY <2>1
  <2>7. IsLongGet(reply') /\ IsReply(reply', command')
    BY <1>1, <1>3, <2>1 DEF IsReply, IsLongGet
  <2> QED
    BY <1>1, <1>2, <1>3, <2>2, <2>3, <2>4, <2>5, <2>6, <2>7 DEF JourneyInv
<1> QED
  BY <1>5, <1>6

LEMMA ReadsKeep ==
  ASSUME JourneyInv, ReadAnswer
  PROVE  JourneyInv'
<1>1. reply \notin {Nil, Spoilt} /\ IsReply(reply, command)
  BY DEF JourneyInv, ReadAnswer
<1>2. command # Nil /\ command \in Command
  BY <1>1 DEF JourneyInv
<1>3. UNCHANGED <<command, request, closed, entry, stored, overrun, died, recovered, append,
                  peerEntry, peerStored, ran, reply, answer, dropped>>
  BY DEF ReadAnswer, leaderVars, peerVars
<1>4. answer = Serialize(reply.message, ResponseType(command))
  BY <1>1 DEF JourneyInv, ReadAnswer, IsReply
<1>5. ResponseType(command) \in Types
  BY <1>2, Commands DEF ResponseType, Types
<1>6. result' = reply.message
  BY <1>1, <1>4, <1>5, DeepTypes, DeepRoundTrip DEF ReadAnswer, IsReply
<1>7. (entry # Nil => \E term, index \in Numbers : Copies(EntryFor(command, term, index)))'
  BY <1>3, CopiesStay DEF JourneyInv
<1> QED
  BY <1>1, <1>2, <1>3, <1>6, <1>7 DEF JourneyInv, IsReply, IsLongGet, TooLarge

LEMMA JourneyStep == JourneyInv /\ [Next]_vars => JourneyInv'
<1> SUFFICES ASSUME JourneyInv, [Next]_vars PROVE JourneyInv'
  OBVIOUS
<1>1. CASE Exchange \/ UNCHANGED vars
  <2>1. UNCHANGED journeyVars
    BY <1>1 DEF Exchange, Create, Fill, Write, Read, journeyVars, vars, leaderVars, peerVars,
                answerVars
  <2> QED
    BY <2>1, JourneyUntouched
<1>2. CASE Journey
  BY <1>2, CallKeeps, RefusalsKeep, HandlersKeep, ProposeKeeps, PeersKeep, AnswersKeep, ReadsKeep
     DEF Journey
<1> QED
  BY <1>1, <1>2 DEF Next

\* The three invariants hold in every state: of a command, everything that comes from the
\* leader is a copy of what it should be, or there is a buffer of the leader that was overrun.
THEOREM MessagesInvariant == Spec => [](ExchangeInv /\ ResponseInv /\ JourneyInv)
<1>1. ExchangeInv /\ ResponseInv /\ JourneyInv /\ [Next]_vars
        => (ExchangeInv /\ ResponseInv /\ JourneyInv)'
  BY ExchangeStep, ResponseStep, JourneyStep
<1> QED
  BY <1>1, ExchangeInitially, ResponseInitially, JourneyInitially, PTL DEF Spec

\* As long as the leader has written within its buffers, the follower executes what the client
\* has asked for, and a restarted leader finds what it had stored: no field is lost in one of
\* three messages within each other.  After an overrun nothing is claimed.
THEOREM CommandsDoArrive == Spec => []CommandsArrive
<1>1. JourneyInv => CommandsArrive
  <2> SUFFICES ASSUME JourneyInv, overrun = {}
               PROVE  /\ ran # Nil => CommandIn(ran) = command
                      /\ recovered # Nil => recovered = entry /\ peerStored \in {Nil, stored}
    BY DEF CommandsArrive
  <2>1. ASSUME ran # Nil PROVE CommandIn(ran) = command
    <3> DEFINE c == command
               r == RequestOf(c)
    <3>1. c \in Command /\ ran = InternalRequestOf(c, r)
      <4>1. entry # Nil
        BY <2>1 DEF JourneyInv
      <4> QED
        BY <2>1, <4>1, WithEntry DEF Copies, IsCopy
    <3>2. c.op \in {"put", "get", "delete"} /\ r # Nil
      BY <3>1, Commands, Requests
    <3>3. /\ ToSet(InternalRaftRequest) =
               {OneOf(1, "kv_put", PutRequest), OneOf(2, "kv_get", GetRequest),
                OneOf(3, "kv_delete", DeleteRequest)}
          /\ WellFormed(InternalRaftRequest)
      BY Set3, DeepTypes DEF InternalRaftRequest, Types, IsDeep
    <3>4. /\ FieldNamed(InternalRaftRequest, "kv_put") = OneOf(1, "kv_put", PutRequest)
          /\ FieldNamed(InternalRaftRequest, "kv_get") = OneOf(2, "kv_get", GetRequest)
          /\ FieldNamed(InternalRaftRequest, "kv_delete") = OneOf(3, "kv_delete", DeleteRequest)
      BY <3>3, Named, MessageFields
    <3>5. /\ ran.kv_put = IF OneOf(1, "kv_put", PutRequest) = FieldOf(c) THEN r ELSE Nil
          /\ ran.kv_get = IF OneOf(2, "kv_get", GetRequest) = FieldOf(c) THEN r ELSE Nil
          /\ ran.kv_delete = IF OneOf(3, "kv_delete", DeleteRequest) = FieldOf(c) THEN r ELSE Nil
      BY <3>1, <3>3, InternalRequestFields, MessageFields
    <3>6. CASE c.op = "put"
      <4>1. FieldOf(c) = OneOf(1, "kv_put", PutRequest)
        BY <3>4, <3>6 DEF FieldOf
      <4>2. ran.kv_put = r
        BY <3>5, <4>1
      <4>3. CommandIn(ran) = [op |-> "put", key |-> r.key, value |-> r.value]
        <5>1. ran.kv_get = Nil /\ ran.kv_delete = Nil
          BY <3>5, <4>1, MessageFields
        <5> QED
          BY <3>2, <4>2, <5>1 DEF CommandIn
      <4>4. r.key = c.key /\ r.value = c.value
        BY <3>6 DEF RequestOf
      <4> QED
        BY <3>1, <3>6, <4>3, <4>4 DEF Command
    <3>7. CASE c.op = "get"
      <4>1. FieldOf(c) = OneOf(2, "kv_get", GetRequest)
        BY <3>4, <3>7 DEF FieldOf
      <4>2. ran.kv_get = r /\ ran.kv_put = Nil /\ ran.kv_delete = Nil
        BY <3>5, <4>1, MessageFields
      <4>3. CommandIn(ran) = [op |-> "get", key |-> r.key]
        BY <3>2, <4>2 DEF CommandIn
      <4>4. r.key = c.key
        BY <3>7 DEF RequestOf
      <4> QED
        BY <3>1, <3>7, <4>3, <4>4 DEF Command
    <3>8. CASE c.op = "delete"
      <4>1. FieldOf(c) = OneOf(3, "kv_delete", DeleteRequest)
        BY <3>4, <3>8 DEF FieldOf
      <4>2. ran.kv_delete = r /\ ran.kv_put = Nil /\ ran.kv_get = Nil
        BY <3>5, <4>1, MessageFields
      <4>3. CommandIn(ran) = [op |-> "delete", key |-> r.key]
        BY <3>2, <4>2 DEF CommandIn
      <4>4. r.key = c.key
        BY <3>8 DEF RequestOf
      <4> QED
        BY <3>1, <3>8, <4>3, <4>4 DEF Command
    <3> QED
      BY <3>2, <3>6, <3>7, <3>8
  <2>2. ASSUME recovered # Nil PROVE recovered = entry /\ peerStored \in {Nil, stored}
    <3>1. entry # Nil
      BY <2>2 DEF JourneyInv
    <3> QED
      BY <2>2, <3>1, WithEntry DEF Copies, IsCopy
  <2> QED
    BY <2>1, <2>2
<1> QED
  BY <1>1, MessagesInvariant, PTL

\* A client reads what its leader has answered, be it a PutResponse in answer to a delete.
THEOREM ResultsAreWhatWasAnswered == Spec => []ResultsAreUnderstood
<1>1. JourneyInv => ResultsAreUnderstood
  BY DEF JourneyInv, ResultsAreUnderstood
<1> QED
  BY <1>1, MessagesInvariant, PTL

\* No response is of 0 bytes, which consume_invoke_tasks takes for one that comes later, and
\* none of a command is larger than what it sends and what its buffer holds, but that to a get
\* of a key and a value within 10 bytes of the limit.
THEOREM EveryShortAnswerIsSent == Spec => []ShortAnswersAreSent
<1>1. ExchangeInv /\ ResponseInv /\ JourneyInv => ShortAnswersAreSent
  BY ResponsesHaveBytes DEF JourneyInv, ShortAnswersAreSent
<1> QED
  BY <1>1, MessagesInvariant, PTL

\* Keys and values of Buffer - 30 bytes are written within buffer_ by put_log_entry, whatever
\* the term and the index are.
THEOREM TheBufferHoldsShortCommands == Spec => []ShortCommandsFit
<1>1. JourneyInv => ShortCommandsFit
  <2> SUFFICES ASSUME JourneyInv, "record" \in overrun PROVE SizeOf(command) > Buffer - 30
    BY DEF ShortCommandsFit
  <2>1. entry # Nil
    BY DEF JourneyInv
  <2>2. PICK term \in Numbers, index \in Numbers : Copies(EntryFor(command, term, index))
    BY <2>1, WithEntry
  <2>3. Overruns(Serialize(EntryFor(command, term, index), LogEntry))
    BY <2>2 DEF Copies
  <2>4. Serialize(EntryFor(command, term, index), LogEntry)
          = SerializeFlat(EntryFor(command, term, index), LogEntry)
    <3>1. IsFilled(EntryFor(command, term, index), LogEntry)
      BY Records DEF EntryFor, EntryOf
    <3> QED
      BY <3>1, EveryLevel, FlatTypes
  <2>5. EntryBytes(command, term, index) > Buffer
    BY <2>3, <2>4 DEF Overruns, EntryBytes
  <2> QED
    BY <2>1, <2>5, WithEntry, SmallEntries
<1> QED
  BY <1>1, MessagesInvariant, PTL

\* A command that is refused by a follower was within 92 bytes of the limit when it came to
\* the leader, as long as the append is what the leader has made of it.
THEOREM AppendsAddLittle == Spec => []SlackForAppends
<1>1. JourneyInv => SlackForAppends
  <2> SUFFICES ASSUME JourneyInv, "follower" \in closed, append # Spoilt
               PROVE  ByteSize(request) > Limit - 92
    BY DEF SlackForAppends
  <2>1. append # Nil /\ TooLarge(append) /\ entry # Nil
    BY DEF JourneyInv
  <2>2. PICK term \in Numbers, index \in Numbers : Copies(EntryFor(command, term, index))
    BY <2>1, WithEntry
  <2> DEFINE e == EntryFor(command, term, index)
  <2>3. PICK prev \in Numbers \union {Zero}, leader \in Numbers \union {Zero} :
          IsCopy(append, Serialize(AppendOf(e, prev, prev, leader, prev), AppendEntriesRequest))
    BY <2>2 DEF Copies
  <2>4. AppendBytes(e, prev, leader) > Limit
    BY <2>1, <2>3 DEF IsCopy, TooLarge, AppendBytes
  <2>5. RequestSize(command) > Limit - 92
    BY <2>1, <2>4, WithEntry, LargeAppends
  <2>6. ByteSize(request) = RequestSize(command)
    BY <2>1, WithEntry, RequestHasSize DEF JourneyInv
  <2> QED
    BY <2>5, <2>6
<1> QED
  BY <1>1, MessagesInvariant, PTL

=============================================================================
