------------------------------ MODULE GrpcWire ------------------------------
(***************************************************************************)
(* Requests and responses on their way between Lua tables and protobuf     *)
(* bytes: value_util.rs of wrkr-lua, proto.rs and wire/ of wrkr-grpc.      *)
(* Numbers become bytes in WirePrimitives.  Strings are sequences of       *)
(* bytes; the numeral system is scaled with the words (see Show).          *)
(*                                                                         *)
(* A step that may fail returns the set of its results: {} is Err(..).     *)
(***************************************************************************)
EXTENDS WirePrimitives

CONSTANTS
    MaxDepth,   \* how deep a Lua value may be: 64
    Schema,     \* message type -> field name -> descriptor of the field
    EnumNames   \* the values of the enum type: number -> name

ASSUME WireAssumption == MaxDepth \in Nat

-----------------------------------------------------------------------------
(* wrkr_value::Value. *)

Null == [t |-> "null", v |-> <<>>]
Bool(b) == [t |-> "bool", v |-> b]
I64(n) == [t |-> "i64", v |-> n]
U64(n) == [t |-> "u64", v |-> n]
F64(h) == [t |-> "f64", v |-> h]      \* the number h/2
Str(s) == [t |-> "string", v |-> s]
Bytes(s) == [t |-> "bytes", v |-> s]
Array(s) == [t |-> "array", v |-> s]
Object(f) == [t |-> "object", v |-> f]
Map(f) == [t |-> "map", v |-> f]

\* Characters: digits 0..5 of numerals of base 6, the sign, the point (and letter),
\* and two bytes that are no UTF-8 by themselves; the replacement character.
Base == 6
Minus == 6
Point == 7
Lossy == 7
IsUtf8(s) == \A i \in DOMAIN s : s[i] <= Point

ToUtf8(s) == [i \in DOMAIN s |-> IF s[i] <= Point THEN s[i] ELSE Lossy]

RECURSIVE Digits(_)
Digits(n) == IF n < Base THEN <<n>> ELSE Append(Digits(n \div Base), n % Base)

Magnitude(n) == IF n < 0 THEN -n ELSE n

\* i64 and u64 to_string; f64 to_string, of h/2.
Show(n) == (IF n < 0 THEN <<Minus>> ELSE <<>>) \o Digits(Magnitude(n))
ShowHalf(h) ==
    (IF h < 0 THEN <<Minus>> ELSE <<>>) \o Digits(Magnitude(h) \div 2)
        \o (IF h % 2 = 1 THEN <<Point, Base \div 2>> ELSE <<>>)
ShowBool(b) == IF b THEN <<Point>> ELSE <<Point, Point>>

\* Numerals of integers, with Word for one that is beyond every type, and of halves.
Numerals == [n \in Signed \union Unsigned \union {Word} |-> Show(n)]
HalfNumerals == [h \in Signed |-> ShowHalf(h)]

\* The float nearest to a number of halves.
NearestHalf(h) ==
    IF h > Word \div 2 - 1 THEN Word \div 2 - 1 ELSE IF h < -(Word \div 2) THEN -(Word \div 2) ELSE h

\* parse: the inverse of to_string; an integer is a float, too, as near as there is one.
Parse(range, s) == {n \in range : Numerals[n] = s}
ParseFloat(s) ==
    {h \in Signed : HalfNumerals[h] = s} \union {NearestHalf(2 * n) : n \in Parse(DOMAIN Numerals, s)}

\* f as i64, f as u64: towards zero, and saturating.
TruncHalf(h) == IF h < 0 THEN -((-h) \div 2) ELSE h \div 2

-----------------------------------------------------------------------------
(* value_util.rs.  A Lua value is tagged, too; a table is the sequence of its *)
(* pairs in the order of iteration.                                          *)

LuaNil == [t |-> "nil", v |-> <<>>]
LuaBool(b) == [t |-> "boolean", v |-> b]
LuaInt(n) == [t |-> "integer", v |-> n]
LuaNum(h) == [t |-> "number", v |-> h]
LuaStr(s) == [t |-> "string", v |-> s]
LuaTable(pairs) == [t |-> "table", v |-> pairs]
LuaOther == [t |-> "function", v |-> <<>>]

Positive(k) == k.t = "integer" /\ k.v >= 1
Supported(k) == k.t \in {"integer", "string", "boolean"}

ToMapKey(k) ==
    CASE k.t = "string"  -> Str(ToUtf8(k.v))
      [] k.t = "boolean" -> Bool(k.v)
      [] k.t = "integer" -> IF k.v >= 0 THEN U64(k.v) ELSE I64(k.v)

\* What table_to_value makes of keys and converted values: a map as soon as a key asks
\* for one, keeping what came before; keys of other types hide all if none does.
TableToValue(keys, vals) ==
    LET ks == Range(keys)
        upgraded ==
            \/ \E k \in ks : k.t = "boolean" \/ (k.t = "integer" /\ k.v < 1)
            \/ (\E k \in ks : Positive(k)) /\ (\E k \in ks : k.t = "string")
            \/ \E i, j \in DOMAIN keys : i < j /\ ~Supported(keys[i]) /\ Positive(keys[j])
        kept == {i \in DOMAIN keys : Supported(keys[i])}
        At(k) == vals[CHOOSE i \in kept : ToMapKey(keys[i]) = k]
        n == Len(keys)
    IN CASE upgraded -> {Map([k \in {ToMapKey(keys[i]) : i \in kept} |-> At(k)])}
         [] ~upgraded /\ \A k \in ks : Positive(k) ->
               IF {k.v : k \in ks} = 1..n
               THEN {Array([i \in 1..n |-> At(U64(i))])}
               ELSE {}
         [] ~upgraded /\ n > 0 /\ \A k \in ks : k.t = "string" ->
               {Object([k \in {ToUtf8(k.v) : k \in ks} |-> At(Str(k))])}
         [] OTHER -> {Map(<<>>)}

\* The sequence of the elements that the sets of a sequence hold, if all hold one.
Collect(sets) ==
    IF \E i \in DOMAIN sets : sets[i] = {} THEN {}
    ELSE {[i \in DOMAIN sets |-> CHOOSE x \in sets[i] : TRUE]}

RECURSIVE LuaToValue(_, _)
LuaToValue(x, depth) ==
    IF depth = 0 THEN {}
    ELSE CASE x.t = "nil"     -> {Null}
           [] x.t = "boolean" -> {Bool(x.v)}
           [] x.t = "integer" -> {I64(x.v)}
           [] x.t = "number"  -> {F64(x.v)}
           [] x.t = "string"  -> {Str(ToUtf8(x.v))}
           [] x.t = "table"   ->
                IF depth = 1 THEN {}
                ELSE LET keys == [i \in DOMAIN x.v |-> x.v[i][1]]
                         vals == [i \in DOMAIN x.v |-> LuaToValue(x.v[i][2], depth - 2)]
                     IN UNION {TableToValue(keys, vs) : vs \in Collect(vals)}
           [] OTHER -> {}

\* Mutant of IntToLua: an unsigned number beyond i64 is cast.
IntToLuaCast(n, asString) ==
    IF asString THEN LuaStr(Show(n)) ELSE LuaInt(AsI64(n))

\* I64 and U64, by Int64Repr: an unsigned number beyond i64 is a string anyway.
IntToLua(n, asString) ==
    IF asString \/ n >= Word \div 2 THEN LuaStr(Show(n)) ELSE LuaInt(n)

RECURSIVE Levels(_)
Levels(x) ==
    IF x.t \in {"array", "object", "map"} /\ DOMAIN x.v # {}
    THEN 1 + Max({Levels(y) : y \in Range(x.v)})
    ELSE 1

\* value_to_lua's error: build counts down from 64 and fails at 0.
TooDeep(x) == Levels(x) > MaxDepth

RECURSIVE ValueToLua(_, _)
ValueToLua(x, asString) ==
    LET Pairs(f, Key(_)) ==
            LET ks == SetToSeq(DOMAIN f)
            IN LuaTable([i \in DOMAIN ks |-> <<Key(ks[i]), ValueToLua(f[ks[i]], asString)>>])
        MapKey(k) == CASE k.t = "string" -> LuaStr(k.v)
                       [] k.t = "bool"   -> LuaBool(k.v)
                       [] OTHER          -> IntToLua(k.v, asString)
    IN CASE x.t = "null" -> LuaNil
         [] x.t = "bool" -> LuaBool(x.v)
         [] x.t \in {"i64", "u64"} -> IntToLua(x.v, asString)
         [] x.t = "f64" -> LuaNum(x.v)
         [] x.t \in {"string", "bytes"} -> LuaStr(x.v)
         [] x.t = "array"  -> Pairs(x.v, LuaInt)
         [] x.t = "object" -> Pairs(x.v, LuaStr)
         [] x.t = "map"    -> Pairs(x.v, MapKey)

-----------------------------------------------------------------------------
(* wire/coerce.rs. *)

ToBool(x) ==
    CASE x.t = "bool"   -> x.v
      [] x.t = "string" -> x.v \in {ShowBool(TRUE), Show(1)}
      [] x.t \in {"i64", "u64"} -> x.v # 0
      [] OTHER -> FALSE

ToStringLossy(x) ==
    CASE x.t = "string" -> x.v
      [] x.t \in {"i64", "u64"} -> Show(x.v)
      [] x.t = "f64"  -> ShowHalf(x.v)
      [] x.t = "bool" -> ShowBool(x.v)
      [] OTHER -> <<>>

ToBytesLossy(x) == IF x.t \in {"bytes", "string"} THEN x.v ELSE <<>>

ToI64(x) ==
    CASE x.t = "i64" -> {x.v}
      [] x.t = "u64" -> {AsI64(x.v)}
      [] x.t = "f64" -> {TruncHalf(x.v)}
      [] x.t = "string" -> Parse(Signed, x.v)
      [] OTHER -> {}

ToU64(x) ==
    CASE x.t = "u64" -> {x.v}
      [] x.t = "i64" -> {AsU64(x.v)}
      [] x.t = "f64" -> {IF x.v < 0 THEN 0 ELSE TruncHalf(x.v)}
      [] x.t = "string" -> Parse(Unsigned, x.v)
      [] OTHER -> {}

\* In halves; an integer beyond them becomes the nearest.
ToF64(x) ==
    CASE x.t = "f64" -> {x.v}
      [] x.t \in {"i64", "u64"} -> {NearestHalf(2 * x.v)}
      [] x.t = "string" -> ParseFloat(x.v)
      [] OTHER -> {}

MapKeyToI64(k) ==
    CASE k.t = "i64" -> {k.v}
      [] k.t = "u64" -> {AsI64(k.v)}
      [] k.t = "string" -> Parse(Signed, k.v)
      [] OTHER -> {}

MapKeyToU64(k) ==
    CASE k.t = "u64" -> {k.v}
      [] k.t = "i64" -> {k.v} \intersect Nat
      [] k.t = "string" -> Parse(Unsigned, k.v)
      [] OTHER -> {}

\* The bits of a double are a bijection; a float keeps the upper half of them.
DoubleBits(h) == AsU64(h)
DoubleOf(u) == AsI64(u)
FloatBits(h) == DoubleBits(h) \div Half
FloatOf(u) == AsI64(u * Half)

-----------------------------------------------------------------------------
(* proto.rs: the metadata of a method's messages. *)

\* build_message_meta, build_shape, build_kind: {} if a message contains itself.  The
\* cache of finished messages only saves time: it holds what would be built again.
RECURSIVE BuildMessageMeta(_, _)
BuildMessageMeta(msg, inProgress) ==
    IF msg \in inProgress THEN {}
    ELSE LET fields == Schema[msg]
             meta(f) == IF fields[f].kind = "message"
                        THEN BuildMessageMeta(fields[f].of, inProgress \union {msg})
                        ELSE {<<>>}
         IN IF \E f \in DOMAIN fields : meta(f) = {} THEN {}
            ELSE {[f \in DOMAIN fields |->
                     [n |-> fields[f].n, label |-> fields[f].label, key |-> fields[f].key,
                      kind |-> fields[f].kind, meta |-> CHOOSE x \in meta(f) : TRUE]]}

WireTypeForKind(kind) ==
    CASE kind \in {"bool", "int32", "sint32", "int64", "sint64", "uint32", "uint64", "enum"} -> Varint
      [] kind \in {"fixed32", "sfixed32", "float"}  -> ThirtyTwoBit
      [] kind \in {"fixed64", "sfixed64", "double"} -> SixtyFourBit
      [] kind \in {"string", "bytes", "message"}    -> LenDelimited

-----------------------------------------------------------------------------
(* wire/encode.rs, wire/scalar.rs, wire/map.rs.  Maps are iterated in any order: *)
(* the sequences have at most two elements, and flip swaps them.                 *)

Iterate(S, flip) == IF flip THEN Reverse(SetToSeq(S)) ELSE SetToSeq(S)

EnumNumber(x) ==
    CASE x.t = "string" -> (LET ns == {n \in DOMAIN EnumNames : EnumNames[n] = x.v}
                            IN IF ns = {} THEN 0 ELSE CHOOSE n \in ns : TRUE)
      [] x.t = "i64" -> x.v
      [] x.t = "u64" -> AsI64(x.v)
      [] OTHER -> 0

\* Integer keys are varints whatever their kind.
MapKeyBytes(kind, k) ==
    CASE kind = "string" -> {WriteLenDelimited(x.v) : x \in {x \in {k} : x.t = "string"}}
      [] kind = "bool"   -> {WriteVariant(IF x.v THEN 1 ELSE 0) : x \in {x \in {k} : x.t = "bool"}}
      [] kind \in {"int32", "sint32", "sfixed32", "int64", "sint64", "sfixed64"} ->
            {WriteVariant(AsU64(n)) : n \in MapKeyToI64(k)}
      [] kind \in {"uint32", "fixed32", "uint64", "fixed64"} -> {WriteVariant(n) : n \in MapKeyToU64(k)}
      [] OTHER -> {}

EncodeMapKey(kind, k) ==
    {WriteTag(1, IF kind = "string" THEN LenDelimited ELSE Varint) \o s : s \in MapKeyBytes(kind, k)}

RECURSIVE EncodeMessage(_, _, _)

\* encode_scalar_field without the tag.
EncodeScalar(field, x, flip) ==
    CASE field.kind = "bool"   -> {WriteVariant(IF ToBool(x) THEN 1 ELSE 0)}
      [] field.kind = "string" -> {WriteLenDelimited(ToStringLossy(x))}
      [] field.kind = "bytes"  -> {WriteLenDelimited(ToBytesLossy(x))}
      [] field.kind \in {"int32", "int64"}   -> {WriteVariant(AsU64(n)) : n \in ToI64(x)}
      [] field.kind \in {"uint32", "uint64"} -> {WriteVariant(n) : n \in ToU64(x)}
      [] field.kind \in {"sint32", "sint64"} -> {WriteVariant(EncodeZigzag64(n)) : n \in ToI64(x)}
      [] field.kind = "fixed32"  -> {PutFixed(AsU32(n), Len32) : n \in ToU64(x)}
      [] field.kind = "sfixed32" -> {PutFixed(AsU32(n), Len32) : n \in ToI64(x)}
      [] field.kind = "float"    -> {PutFixed(FloatBits(h), Len32) : h \in ToF64(x)}
      [] field.kind = "fixed64"  -> {PutFixed(n, Len64) : n \in ToU64(x)}
      [] field.kind = "sfixed64" -> {PutFixed(AsU64(n), Len64) : n \in ToI64(x)}
      [] field.kind = "double"   -> {PutFixed(DoubleBits(h), Len64) : h \in ToF64(x)}
      [] field.kind = "enum"     -> {WriteVariant(AsU64(EnumNumber(x)))}
      [] field.kind = "message"  -> {WriteLenDelimited(s) : s \in EncodeMessage(field.meta, x, flip)}

EncodeScalarField(number, field, x, flip) ==
    {WriteTag(number, WireTypeForKind(field.kind)) \o s : s \in EncodeScalar(field, x, flip)}

EncodeMapEntry(field, k, x, flip) ==
    UNION {{WriteTag(field.n, LenDelimited) \o WriteLenDelimited(key \o s) :
               s \in EncodeScalarField(2, field, x, flip)} :
              key \in EncodeMapKey(field.key, k)}

\* The concatenation of what the sets of a sequence hold.
Concat(sets) == {FlattenSeq(ss) : ss \in Collect(sets)}

EncodeField(field, x, flip) ==
    CASE field.label = "scalar" -> EncodeScalarField(field.n, field, x, flip)
      [] field.label = "list" ->
            IF x.t # "array" THEN {}
            ELSE Concat([i \in DOMAIN x.v |-> EncodeScalarField(field.n, field, x.v[i], flip)])
      [] field.label = "map" ->
            IF x.t \notin {"object", "map"} THEN {}
            ELSE LET ks == Iterate(DOMAIN x.v, flip)
                     Key(k) == IF x.t = "object" THEN Str(k) ELSE k
                 IN Concat([i \in DOMAIN ks |-> EncodeMapEntry(field, Key(ks[i]), x.v[ks[i]], flip)])

\* Field names of an object or of a map with string keys.
EncodeMessage(fields, x, flip) ==
    IF x.t \notin {"object", "map"} THEN {}
    ELSE LET ks == Iterate(DOMAIN x.v, flip)
             known(k) == IF x.t = "object" THEN k \in DOMAIN fields
                         ELSE k.t = "string" /\ k.v \in DOMAIN fields
             field(k) == IF x.t = "object" THEN fields[k] ELSE fields[k.v]
         IN IF \E k \in DOMAIN x.v : ~known(k) THEN {}
            ELSE Concat([i \in DOMAIN ks |-> EncodeField(field(ks[i]), x.v[ks[i]], flip)])

-----------------------------------------------------------------------------
(* wire/decode.rs, wire/scalar.rs, wire/packed.rs, wire/map.rs. *)

\* The fields of a message after the tag: number and wire type, or {}.
ReadTag(src) ==
    {[number |-> AsU32(r.v \div 8), wireType |-> r.v % 8, rest |-> r.rest] :
        r \in {r \in ReadVariant(src) : r.v # 0 /\ r.v % 8 \in WireTypes}}

\* The kinds of numbers, packed or not.
Number(kind, raw) ==
    CASE kind = "bool" -> Bool(raw # 0)
      [] kind \in {"int32", "int64", "enum"} -> I64(AsI64(raw))
      [] kind \in {"uint32", "uint64", "fixed32", "fixed64"} -> U64(raw)
      [] kind \in {"sint32", "sint64"} -> I64(DecodeZigzag64(raw))
      [] kind = "sfixed32" -> I64(AsI32(raw))
      [] kind = "sfixed64" -> I64(AsI64(raw))
      [] kind = "float"    -> F64(FloatOf(raw))
      [] kind = "double"   -> F64(DoubleOf(raw))

KindIsPackable(kind) == kind \notin {"string", "bytes", "message"}

RECURSIVE DecodePackedValues(_, _)
DecodePackedValues(kind, src) ==
    IF src = <<>> THEN {<<>>}
    ELSE UNION {{<<Number(kind, r.v)>> \o s : s \in DecodePackedValues(kind, r.rest)} :
                   r \in ReadRaw(WireTypeForKind(kind), src)}

RECURSIVE DecodeMessage(_, _, _)

\* decode_scalar_value, once the bytes are read.
Interpret(field, raw) ==
    CASE field.kind = "string"  -> {Str(IF IsUtf8(raw) THEN raw ELSE <<>>)}
      [] field.kind = "bytes"   -> {Bytes(raw)}
      [] field.kind = "enum"    -> {IF AsI32(raw) \in DOMAIN EnumNames
                                    THEN Str(EnumNames[AsI32(raw)]) ELSE I64(AsI32(raw))}
      [] field.kind = "message" -> DecodeMessage(field.meta, raw, <<>>)
      [] OTHER -> {Number(field.kind, raw)}

DecodeScalarValue(field, wireType, src) ==
    IF wireType # WireTypeForKind(field.kind) THEN {}
    ELSE UNION {{[v |-> x, rest |-> r.rest] : x \in Interpret(field, r.v)} : r \in ReadRaw(wireType, src)}

\* decode_list; an element alone is an array of one.
DecodeList(field, wireType, src) ==
    IF wireType = LenDelimited /\ KindIsPackable(field.kind)
    THEN UNION {{[v |-> xs, rest |-> r.rest] : xs \in DecodePackedValues(field.kind, r.v)} :
                   r \in ReadLenDelimited(src)}
    ELSE {[v |-> <<r.v>>, rest |-> r.rest] : r \in DecodeScalarValue(field, wireType, src)}

DecodeMapKey(kind, wireType, src) ==
    LET expected == IF kind = "string" THEN LenDelimited ELSE Varint
        Key(raw) == CASE kind = "string" -> {Str(s) : s \in {s \in {raw} : IsUtf8(s)}}
                      [] kind = "bool"   -> {Bool(raw # 0)}
                      [] kind \in {"uint32", "fixed32", "uint64", "fixed64"} -> {U64(raw)}
                      [] kind \in {"int32", "sint32", "sfixed32", "int64", "sint64", "sfixed64"} ->
                            {I64(AsI64(raw))}
                      [] OTHER -> {}
    IN IF wireType # expected THEN {}
       ELSE UNION {{[v |-> k, rest |-> r.rest] : k \in Key(r.v)} : r \in ReadRaw(wireType, src)}

\* decode_map_entry: keys and values seen so far are sequences, the last one counts.
RECURSIVE DecodeMapEntry(_, _, _, _)
DecodeMapEntry(field, src, keys, vals) ==
    IF src = <<>>
    THEN IF keys = <<>> \/ vals = <<>> THEN {} ELSE {<<Last(keys), Last(vals)>>}
    ELSE UNION {CASE tag.number = 1 ->
                        UNION {DecodeMapEntry(field, r.rest, Append(keys, r.v), vals) :
                                  r \in DecodeMapKey(field.key, tag.wireType, tag.rest)}
                  [] tag.number = 2 ->
                        UNION {DecodeMapEntry(field, r.rest, keys, Append(vals, r.v)) :
                                  r \in DecodeScalarValue(field, tag.wireType, tag.rest)}
                  [] OTHER ->
                        UNION {DecodeMapEntry(field, rest, keys, vals) :
                                  rest \in SkipValue(tag.wireType, tag.rest)} :
                   tag \in ReadTag(src)}

\* merge_decoded_field and decode_map_entry_into_object: old is the field's value so far, if any.
Merge(field, old, new) ==
    CASE field.label = "scalar" -> new
      [] field.label = "list"   -> Array((IF old = <<>> THEN <<>> ELSE old[1].v) \o new)
      [] field.label = "map"    ->
            Map([k \in {new[1]} \union (IF old = <<>> THEN {} ELSE DOMAIN old[1].v) |->
                    IF k = new[1] THEN new[2] ELSE old[1].v[k]])

\* decode_field_value, or a map's entry.
DecodeField(field, wireType, src) ==
    CASE field.label = "scalar" -> DecodeScalarValue(field, wireType, src)
      [] field.label = "list"   -> DecodeList(field, wireType, src)
      [] field.label = "map"    ->
            IF wireType # LenDelimited THEN {}
            ELSE UNION {{[v |-> e, rest |-> r.rest] : e \in DecodeMapEntry(field, r.v, <<>>, <<>>)} :
                           r \in ReadLenDelimited(src)}

DecodeMessage(fields, src, out) ==
    IF src = <<>> THEN {Object(out)}
    ELSE UNION {
        LET named == {f \in DOMAIN fields : fields[f].n = tag.number}
        IN IF named = {}
           THEN UNION {DecodeMessage(fields, rest, out) : rest \in SkipValue(tag.wireType, tag.rest)}
           ELSE LET name == CHOOSE f \in named : TRUE
                    old == IF name \in DOMAIN out THEN <<out[name]>> ELSE <<>>
                IN UNION {DecodeMessage(fields, r.rest,
                             [f \in DOMAIN out \union {name} |->
                                IF f = name THEN Merge(fields[name], old, r.v) ELSE out[f]]) :
                             r \in DecodeField(fields[name], tag.wireType, tag.rest)} :
        tag \in ReadTag(src)}
=============================================================================
