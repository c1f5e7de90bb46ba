-------------------------------- MODULE Grpc --------------------------------
(***************************************************************************)
(* The gRPC module of the Lua API: the calls of GrpcClient, which VUs make *)
(* concurrently on shared clients, and one call of invoke followed through *)
(* with its data: from the Lua request to bytes, to a server that echoes   *)
(* the message, and back to the Lua table that invoke returns.             *)
(*                                                                         *)
(* A client keeps no data of a request, and a request does not look at the *)
(* other calls: the two are explored side by side, by the initial mode.    *)
(***************************************************************************)
EXTENDS GrpcClient, GrpcWire

CONSTANT Requests  \* [msg, lua]: the message type of a method and a Lua request

VARIABLES
    mode,  \* "calls" or "data"
    call   \* the call that is followed

allVars == <<vars, mode, call>>

Quiet == [at |-> "none"]

GrpcInit ==
    /\ Init
    /\ mode \in {"calls", "data"}
    /\ call = Quiet

ClientStep == mode = "calls" /\ ClientNext /\ UNCHANGED <<mode, call>>

-----------------------------------------------------------------------------

\* What method() builds once for a type.
Metas == [m \in DOMAIN Schema |-> BuildMessageMeta(m, {})]

\* encode_unary_request: the bytes of a Lua value.
EncodeUnary(fields, value, flip) == UNION {EncodeMessage(fields, x, flip) : x \in value}

\* method() refuses a type whose metadata cannot be built.  A string is taken for bytes
\* that encode returned; all else is converted.
Invoke(r, flip) ==
    LET meta == Metas[r.msg]
        value == IF r.lua.t = "string" THEN {} ELSE LuaToValue(r.lua, MaxDepth)
        bytes == IF r.lua.t = "string" THEN {r.lua.v}
                 ELSE UNION {EncodeUnary(fields, value, flip) : fields \in meta}
    IN
    /\ call.at = "none"
    /\ call' = IF meta = {} THEN [at |-> "refused", kind |-> "not_loaded", msg |-> r.msg]
               ELSE IF bytes = {} THEN [at |-> "refused", kind |-> "encode", msg |-> r.msg]
               ELSE [at |-> "sent", msg |-> r.msg, lua |-> r.lua, value |-> value,
                     req |-> CHOOSE s \in bytes : TRUE]

\* The single field of the types whose messages have a list.
FieldOf(msg) == CHOOSE f \in Range(CHOOSE m \in Metas[msg] : TRUE) : f.n = 1

\* The list of a request: its elements' bytes.
Elements(c) ==
    LET xs == CHOOSE x \in Range((CHOOSE x \in c.value : TRUE).v) : x.t = "array"
    IN [i \in DOMAIN xs.v |-> CHOOSE s \in EncodeScalar(FieldOf(c.msg), xs.v[i], FALSE) : TRUE]

\* It has a list of numbers and nothing else.
HasList(c) ==
    /\ \E x \in c.value : Cardinality(DOMAIN x.v) = 1 /\ \E y \in Range(x.v) : y.t = "array"
    /\ FieldOf(c.msg).label = "list" /\ WireTypeForKind(FieldOf(c.msg).kind) # LenDelimited

\* The parts of its first entry, if the request has a map of numbers and nothing else.
EntryParts(c) ==
    LET field == FieldOf(c.msg)
        maps == UNION {Range(x.v) : x \in c.value}
        Key(m, k) == IF m.t = "object" THEN Str(k) ELSE k
    IN IF field.label # "map" \/ field.kind = "message" THEN {}
       ELSE UNION {LET k == Head(SetToSeq(DOMAIN m.v))
                   IN EncodeMapKey(field.key, Key(m, k)) \union EncodeScalarField(2, field, m.v[k], FALSE) :
                     m \in {m \in maps : DOMAIN m.v # {}}}

\* An unknown field of a wire type.
UnknownField(wireType) ==
    WriteTag(3, wireType) \o
    (CASE wireType = Varint -> WriteVariant(Group)
       [] wireType = SixtyFourBit -> PutFixed(Group, Len64)
       [] wireType = ThirtyTwoBit -> PutFixed(1, Len32)
       [] wireType = LenDelimited -> WriteLenDelimited(WriteTag(1, Varint)))

\* The server's answers: the message as it came; every field of it twice; its first
\* elements packed; with a field that the client's schema does not know; with an entry
\* of the map that has no value or no key; cut off.
Answers(c) ==
    {[how |-> "echo", reply |-> c.req], [how |-> "twice", reply |-> c.req \o c.req]}
    \union {[how |-> "partial", reply |-> c.req \o WriteTag(1, LenDelimited) \o WriteLenDelimited(s)] :
              s \in EntryParts(c)}
    \union {[how |-> "unknown", reply |-> s] :
              s \in UNION {{UnknownField(w) \o c.req, c.req \o UnknownField(w)} : w \in WireTypes}}
    \union {[how |-> "cut", reply |-> SubSeq(c.req, 1, k)] : k \in 0..Len(c.req) - 1}
    \union (IF ~HasList(c) THEN {}
            ELSE {[how |-> "packed", reply |->
                      WriteTag(1, LenDelimited) \o WriteLenDelimited(FlattenSeq(SubSeq(Elements(c), 1, k)))
                        \o FlattenSeq([i \in 1..Len(Elements(c)) - k |->
                               WriteTag(1, WireTypeForKind(FieldOf(c.msg).kind)) \o Elements(c)[k + i]])] :
                    k \in 1..Len(Elements(c))})

\* decode_value_for_method.
Decoded(msg, reply) == UNION {DecodeMessage(fields, reply, <<>>) : fields \in Metas[msg]}

\* unary_inner with the server's answer: no body is no message to tonic, an error status
\* whose response is nil; what cannot be decoded is an error of kind decode.  A message
\* that is too deep for a table raises an error in the script, after the request was
\* recorded as ok.
Respond(a, asString) ==
    LET decoded == Decoded(call.msg, a.reply)
        end(kind, value) == [at |-> "done", msg |-> call.msg, lua |-> call.lua, value |-> call.value,
                             req |-> call.req, how |-> a.how, kind |-> kind, decoded |-> value,
                             asString |-> asString,
                             response |-> IF kind # "ok" THEN LuaNil
                                          ELSE ValueToLua(CHOOSE x \in value : TRUE, asString)]
    IN
    /\ call.at = "sent"
    /\ call' = IF a.reply = <<>> THEN end("status", {})
               ELSE IF decoded = {} THEN end("decode", {})
               ELSE IF \E x \in decoded : TooDeep(x) THEN end("lua_error", decoded)
               ELSE end("ok", decoded)

Done == call.at \in {"refused", "done"} /\ call' = Quiet

DataStep ==
    /\ mode = "data"
    /\ \/ \E r \in Requests, flip \in BOOLEAN : Invoke(r, flip)
       \/ call.at = "sent" /\ \E a \in Answers(call), asString \in BOOLEAN : Respond(a, asString)
       \/ Done
    /\ UNCHANGED <<vars, mode>>

GrpcNext == ClientStep \/ DataStep

\* The fairness of ClientSpec.
GrpcSpec ==
    /\ GrpcInit /\ [][GrpcNext]_allVars
    /\ \A v \in Vus :
          /\ WF_allVars(mode = "calls" /\ CallStep(v) /\ UNCHANGED <<mode, call>>)
          /\ SF_allVars(mode = "calls" /\ Acquire(v) /\ UNCHANGED <<mode, call>>)

-----------------------------------------------------------------------------
(* Properties of the data.  They say what a message means, not how it is built. *)

\* y is what a message's field of this kind holds when x, converted from Lua, was put
\* into it: x itself, where the field can hold it, and otherwise what coerce.rs makes
\* of it (a negative number in an unsigned field, a float in an integer field).
RECURSIVE SameFields(_, _, _)
SameScalar(field, x, y) ==
    CASE field.kind = "bool"   -> y = Bool(ToBool(x))
      [] field.kind = "string" -> y = Str(ToStringLossy(x))
      [] field.kind = "bytes"  -> y = Bytes(ToBytesLossy(x))
      [] field.kind = "enum"   -> (EnumNumber(y) - EnumNumber(x)) % Half = 0
      [] field.kind = "message" -> SameFields(field.meta, x, y)
      [] field.kind \in {"int32", "int64", "sint32", "sint64", "sfixed64"} ->
            y.t = "i64" /\ y.v \in ToI64(x)
      [] field.kind \in {"uint32", "uint64", "fixed64"} -> y.t = "u64" /\ y.v \in ToU64(x)
      [] field.kind = "fixed32" ->
            y.t = "u64" /\ y.v \in 0..Half - 1 /\ \E n \in ToU64(x) : (y.v - n) % Half = 0
      [] field.kind = "sfixed32" ->
            y.t = "i64" /\ 2 * y.v \in -Half..Half - 1 /\ \E n \in ToI64(x) : (y.v - n) % Half = 0
      [] field.kind = "double" -> y.t = "f64" /\ y.v \in ToF64(x)
      [] field.kind = "float"  -> y.t = "f64" /\ \E h \in ToF64(x) : y.v % Half = 0 /\ h - y.v \in 0..Half - 1

SameMapKey(kind, k, l) ==
    CASE kind \in {"string", "bool"} -> k = l
      [] kind \in {"uint32", "fixed32", "uint64", "fixed64"} -> l.t = "u64" /\ l.v \in MapKeyToU64(k)
      [] OTHER -> l.t = "i64" /\ l.v \in MapKeyToI64(k)

SameField(field, x, y) ==
    CASE field.label = "scalar" -> SameScalar(field, x, y)
      [] field.label = "list"   -> /\ y.t = "array" /\ Len(x.v) = Len(y.v)
                                   /\ \A i \in DOMAIN x.v : SameScalar(field, x.v[i], y.v[i])
      [] field.label = "map"    ->
            LET Key(k) == IF x.t = "object" THEN Str(k) ELSE k
            IN /\ y.t = "map"
               /\ \A k \in DOMAIN x.v : \E l \in DOMAIN y.v : SameMapKey(field.key, Key(k), l)
               /\ \A l \in DOMAIN y.v : \E k \in DOMAIN x.v :
                     SameMapKey(field.key, Key(k), l) /\ SameScalar(field, x.v[k], y.v[l])

\* A field that is not repeated, or has an element.
Present(field, x) == field.label = "scalar" \/ x.v # <<>>

SameFields(fields, x, y) ==
    LET Name(k) == IF x.t = "object" THEN k ELSE k.v
        sent == {k \in DOMAIN x.v : Present(fields[Name(k)], x.v[k])}
    IN /\ y.t = "object"
       /\ DOMAIN y.v = {Name(k) : k \in sent}
       /\ \A k \in sent : SameField(fields[Name(k)], x.v[k], y.v[Name(k)])

\* The script got an answer to a request that it gave as a table.
Answered(how) == call.at = "done" /\ call.how = how /\ call.value # {}

\* A message that the server echoes is decoded to the values that it was encoded from,
\* coerced to the kinds of their fields: for every kind, label and key, nested or not,
\* at every boundary of the numbers, in whatever order the maps are iterated.  (A
\* message without a byte is an error.)  Of what lua_to_value made of the script's
\* table, and what the script gets, ScriptFaithful speaks.
EchoFaithful ==
    Answered("echo") =>
        /\ call.kind = "ok" \/ (call.kind = "status" /\ call.req = <<>>)
        /\ \A fields \in Metas[call.msg], x \in call.value, y \in call.decoded : SameFields(fields, x, y)

\* A list that the server packs, in whole or in part, has the elements of one that it
\* does not.  (Of an enum it has the numbers, where the other has names.)
PackedFaithful ==
    Answered("packed") =>
        \A whole \in Decoded(call.msg, call.req) : \E y \in call.decoded : \A f \in DOMAIN whole.v :
           \/ y.v[f] = whole.v[f]
           \/ /\ FieldOf(call.msg).kind = "enum"
              /\ Len(y.v[f].v) = Len(whole.v[f].v)
              /\ \A i \in DOMAIN y.v[f].v :
                    (EnumNumber(y.v[f].v[i]) - EnumNumber(whole.v[f].v[i])) % Half = 0

\* Fields that the schema does not know are skipped, whatever their wire type, and cost
\* the message nothing.
UnknownSkipped == Answered("unknown") => call.decoded = Decoded(call.msg, call.req)

\* When a server sends a field twice, a list goes on, an entry of a map is replaced by
\* the later one with its key, and the later value counts, of an embedded message, too:
\* it replaces the earlier one whole, where protobuf merges the two.
RepeatedFields ==
    Answered("twice") =>
        \A whole \in Decoded(call.msg, call.req), y \in call.decoded :
           /\ DOMAIN y.v = DOMAIN whole.v
           /\ \A f \in DOMAIN y.v :
                 y.v[f] = IF whole.v[f].t = "array" THEN Array(whole.v[f].v \o whole.v[f].v) ELSE whole.v[f]

\* A map's entry without a key or without a value, which stands for the default in
\* protobuf, is refused, and with it the whole reply.
PartialRefused == Answered("partial") => call.kind = "decode" /\ call.response = LuaNil

\* A reply that is cut off anywhere is an error, or a message of whole elements that were
\* sent: no value ever comes back altered.
CutNeverAlters ==
    Answered("cut") =>
        \A whole \in Decoded(call.msg, call.req), y \in call.decoded : \A f \in DOMAIN y.v :
           /\ f \in DOMAIN whole.v
           /\ CASE y.v[f].t = "array" -> IsPrefix(y.v[f].v, whole.v[f].v)
                [] y.v[f].t = "map"   -> \A k \in DOMAIN y.v[f].v : y.v[f].v[k] = whole.v[f].v[k]
                [] OTHER              -> y.v[f] = whole.v[f]

\* The number that a varint stands for.
NumberOf(s) == FoldLeftDomain(LAMBDA u, i : u + (s[i] % Group) * Group ^ (i - 1), 0, s)

IsVarint(s) ==
    /\ s # <<>> /\ Last(s) < Group
    /\ \A i \in 1..Len(s) - 1 : s[i] >= Group
    /\ Len(s) > 1 => Last(s) # 0

LittleEndian(s) == FoldLeftDomain(LAMBDA u, i : u + s[i] * Byte ^ (i - 1), 0, s)

\* The integers that protobuf allows in a field of this kind.
Allowed(kind) ==
    CASE kind \in {"int32", "sint32", "sfixed32", "enum"} -> -(Half \div 2) .. (Half \div 2 - 1)
      [] kind \in {"uint32", "fixed32"}           -> 0 .. Half - 1
      [] kind \in {"int64", "sint64", "sfixed64"} -> Signed
      [] kind \in {"uint64", "fixed64"}           -> Unsigned
      [] OTHER -> {}

\* The integer that a Lua value stands for, itself or as a numeral.
LuaInteger(x) ==
    CASE x.t = "integer" -> {x.v}
      [] x.t = "string"  -> {n \in Signed \union Unsigned : Numerals[n] = x.v}
      [] OTHER -> {}

\* The integer that a script means by x in a field of this kind, if the field can hold it.
Meant(kind, x) ==
    IF kind = "enum" /\ x.t = "string" THEN {n \in DOMAIN EnumNames : EnumNames[n] = x.v}
    ELSE LuaInteger(x) \intersect Allowed(kind)

\* The word that protobuf has for what the script means.
WordFor(kind, x) ==
    IF kind = "bool" THEN {IF y.v THEN 1 ELSE 0 : y \in {y \in {x} : y.t = "boolean"}}
    ELSE {CASE kind \in {"sint32", "sint64"} -> IF n >= 0 THEN 2 * n ELSE -2 * n - 1
            [] kind \in {"fixed32", "sfixed32"} -> n % Half
            [] OTHER -> n % Word : n \in Meant(kind, x)}

\* s is a number's field: its tag in a varint and its word in a shortest varint or in
\* little-endian bytes.
IsNumberField(s, number, kind, u) ==
    \E k \in DOMAIN s :
        LET tag == SubSeq(s, 1, k)
            word == SubSeq(s, k + 1, Len(s))
        IN /\ IsVarint(tag)
           /\ CASE kind \in {"fixed32", "sfixed32"} ->
                     NumberOf(tag) = 8 * number + 5 /\ Len(word) = Len32 /\ LittleEndian(word) = u
                [] kind \in {"fixed64", "sfixed64"} ->
                     NumberOf(tag) = 8 * number + 1 /\ Len(word) = Len64 /\ LittleEndian(word) = u
                [] OTHER -> NumberOf(tag) = 8 * number /\ IsVarint(word) /\ NumberOf(word) = u

\* s is a field that holds the bytes of an entry with this key and value.
IsEntry(s, number, keyKind, key, kind, u) ==
    \E i, j \in DOMAIN s : \E k \in j + 1 .. Len(s) :
        /\ i < j
        /\ IsVarint(SubSeq(s, 1, i)) /\ NumberOf(SubSeq(s, 1, i)) = 8 * number + 2
        /\ IsVarint(SubSeq(s, i + 1, j)) /\ NumberOf(SubSeq(s, i + 1, j)) = Len(s) - j
        /\ IsNumberField(SubSeq(s, j + 1, k), 1, keyKind, key)
        /\ IsNumberField(SubSeq(s, k + 1, Len(s)), 2, kind, u)

\* The kind by which a map's key is written.  Protobuf writes it by its own kind; the
\* code writes zigzag and fixed-width kinds as plain varints, which only servers that
\* do the same can read.
WrittenAs(kind) ==
    CASE kind \in {"sint32", "sfixed32"}  -> "int32"
      [] kind \in {"sint64", "sfixed64"}  -> "int64"
      [] kind = "fixed32" -> "uint32"
      [] kind = "fixed64" -> "uint64"
      [] OTHER -> kind

\* Servers of other makers read it: a request with one integer or boolean, or with a map
\* that has one entry of them, is the bytes that protobuf says, for values in the range
\* of the field's kind.  Map keys of zigzag and fixed-width kinds are the exception.
NumbersCanonical ==
    (call.at = "sent" /\ call.lua.t = "table" /\ Len(call.lua.v) = 1) =>
        \A fields \in Metas[call.msg] : \A name \in DOMAIN fields :
           LET field == fields[name]
               x == call.lua.v[1][2]
           IN call.lua.v[1][1] = LuaStr(name) =>
                /\ field.label = "scalar" =>
                      \A u \in WordFor(field.kind, x) : IsNumberField(call.req, field.n, field.kind, u)
                /\ field.label = "map" /\ Len(x.v) = 1 =>
                      \A k \in WordFor(WrittenAs(field.key), x.v[1][1]), u \in WordFor(field.kind, x.v[1][2]) :
                         IsEntry(call.req, field.n, WrittenAs(field.key), k, field.kind, u)

\* What a table has at a key.
At(table, k) == {p[2] : p \in {p \in Range(table.v) : p[1] = k}}

\* y is what a script should get back for x from a field of this kind, wherever the
\* field can hold x: the same number, in a string if the script asked for that or no
\* integer is so large; the name of an enum value; the same string, boolean or float.
RECURSIVE SameTable(_, _, _, _)
SameInLua(field, x, y, asString) ==
    /\ \A n \in Meant(field.kind, x) :
          IF field.kind = "enum" /\ n \in DOMAIN EnumNames THEN y = LuaStr(EnumNames[n])
          ELSE LuaInteger(y) = {n} /\ (y.t = "string" <=> asString \/ n \notin Signed)
    /\ field.kind \in {"string", "bytes"} /\ x.t = "string" /\ IsUtf8(x.v) => y = x
    /\ field.kind = "bool" /\ x.t = "boolean" => y = x
    /\ field.kind = "double" /\ x.t = "number" => y = x
    /\ field.kind = "double" /\ x.t = "integer" /\ 2 * x.v \in Signed => y = LuaNum(2 * x.v)
    /\ field.kind = "message" => SameTable(field.meta, x, y, asString)

\* The table sent has come back, its lists in their order and its maps with their keys.
SameTable(fields, sent, got, asString) ==
    \A name \in DOMAIN fields : \A x \in At(sent, LuaStr(name)) :
       LET field == fields[name]
           Same(a, b) == SameInLua(field, a, b, asString)
           SameKey(k, l) == SameInLua([kind |-> field.key], k, l, asString)
       IN IF field.label = "scalar" \/ x.v # <<>>
          THEN \E y \in At(got, LuaStr(name)) :
             CASE field.label = "scalar" -> Same(x, y)
               [] field.label = "list" ->
                    /\ Len(y.v) = Len(x.v)
                    /\ \A i \in DOMAIN x.v : \E a \in At(x, LuaInt(i)), b \in At(y, LuaInt(i)) : Same(a, b)
               [] field.label = "map" ->
                    \A p \in Range(x.v) : \E q \in Range(y.v) : SameKey(p[1], q[1]) /\ Same(p[2], q[2])
          ELSE At(got, LuaStr(name)) = {}

\* What a script sends to a server that echoes is what it gets: numbers at every boundary
\* of their kinds, beyond i64, too, text, booleans, floats, names of enum values, in
\* lists, under the keys of maps and in messages.  Left out are values that a field
\* cannot hold, and bytes that are no UTF-8, which lua_to_value replaces even where the
\* field is of kind bytes.
ScriptFaithful ==
    (Answered("echo") /\ call.kind = "ok") =>
        \A fields \in Metas[call.msg] : SameTable(fields, call.lua, call.response, call.asString)

\* What the Lua table cannot tell: a map with positive integers for keys from a list, the
\* number of an unknown enum value in a string from a name.
Ambiguous(field, y, asString) ==
    \/ /\ field.label = "map" /\ ~asString
       /\ \A k \in DOMAIN y.v : k.t \in {"i64", "u64"} /\ k.v \in 1..Word \div 2 - 1
    \/ /\ field.kind = "enum" /\ asString
       /\ \E x \in (IF field.label = "list" THEN Range(y.v) ELSE {y}) : x.t = "i64"

\* A script may send back what it received: the table, converted and encoded again, is
\* received as the same values, unless it is ambiguous.
EchoStable ==
    (Answered("echo") /\ call.kind = "ok") =>
        \A fields \in Metas[call.msg], y \in call.decoded, flip \in BOOLEAN :
           \/ \E f \in DOMAIN y.v : Ambiguous(fields[f], y.v[f], call.asString)
           \/ UNION {DecodeMessage(fields, s, <<>>) :
                        s \in EncodeUnary(fields, LuaToValue(call.response, MaxDepth), flip)} = {y}

\* The types of fields of types in S, and the types within types in S.
Parts(S) == {f.of : f \in UNION {{f \in Range(Schema[m]) : f.kind = "message"} : m \in S}}

RECURSIVE Within(_)
Within(S) == IF Parts(S) \subseteq S THEN S ELSE Within(S \union Parts(S))

\* A message type is refused exactly if it contains itself, directly, through others or
\* in a message that it contains; types that merely occur twice are not.
RecursionRefused ==
    call.at \in {"sent", "refused"} =>
        ((call.at = "refused" /\ call.kind = "not_loaded")
            <=> \E m \in Within({call.msg}) : m \in Within(Parts({m})))

\* The method that a call uses is of the schema that was loaded, and is refused only if
\* its types are recursive.
SchemaSound == MethodsOfSchema /\ RecursionRefused

\* A table of values that a server echoes comes back as these values; packed lists,
\* repeated and unknown fields are read as described above, entries that lack a part
\* are refused; numbers and booleans are written as protobuf says, but for some kinds
\* of map keys; and what a script received it can send.
RoundTrip ==
    /\ EchoFaithful /\ EchoStable
    /\ PackedFaithful /\ UnknownSkipped /\ RepeatedFields /\ PartialRefused
    /\ NumbersCanonical

\* What comes back is what was sent, or an error, also when the reply is cut off.  This
\* holds of the values that lua_to_value makes, and of the forms of a message named above.
WireFaithful == RoundTrip /\ CutNeverAlters
=============================================================================
