------------------------------- MODULE MCGrpc -------------------------------
(***************************************************************************)
(* An instance of Grpc: VUs that share a client with a pool of two         *)
(* channels, and messages with a field of every kind and label, nested and *)
(* recursive ones, with requests at the boundaries of their numbers.       *)
(***************************************************************************)
EXTENDS Grpc

MCMethodsOf == [f \in Files |-> IF f = "f1" THEN Methods ELSE {"m1"}]

Numbers ==
    {"bool", "int32", "int64", "uint32", "uint64", "sint32", "sint64",
     "fixed32", "fixed64", "sfixed32", "sfixed64", "float", "double", "enum"}
Kinds == Numbers \union {"string", "bytes"}
KeyKinds == (Kinds \ {"float", "double", "enum", "bytes"})

\* Field names.
X == <<7, 1>>
Y == <<7, 2>>

Field(n, label, kind, of) == [n |-> n, label |-> label, key |-> "string", kind |-> kind, of |-> of]
MapField(key, kind, of) == [n |-> 1, label |-> "map", key |-> key, kind |-> kind, of |-> of]
Of(field) == [f \in {X} |-> field]
Both(x, y) == [f \in {X, Y} |-> IF f = X THEN x ELSE y]
NoType == <<"", "">>
Leaf == <<"message", "leaf">>

Plain == {"scalar", "list"} \X Kinds
Maps == {"map"} \X KeyKinds

\* Types that contain one another, as many as there are levels in a Lua value.
Chain == <<"c1", "c2", "c3", "c4", "c5", "c6", "c7", "c8">>
Chained == {<<"message", c>> : c \in Range(Chain)}

Nested ==
    Chained \union {"message"} \X {"leaf", "pair", "list", "map", "self", "p", "q", "via"}

MCSchema ==
    [m \in Plain \union Maps \union Nested |->
        CASE m \in Plain -> Both(Field(1, m[1], m[2], NoType), Field(2, "scalar", "sint32", NoType))
          [] m \in Maps  -> Of(MapField(m[2], "sint64", NoType))
          [] m = Leaf    -> Both(Field(1, "scalar", "int64", NoType), Field(4, "list", "string", NoType))
          [] m = <<"message", "pair">> -> Both(Field(1, "scalar", "message", Leaf), Field(2, "scalar", "message", Leaf))
          [] m = <<"message", "list">> -> Of(Field(1, "list", "message", Leaf))
          [] m = <<"message", "map">>  -> Of(MapField("string", "message", Leaf))
          [] m = <<"message", "self">> -> Of(Field(1, "list", "message", m))
          [] m = <<"message", "p">>    -> Of(Field(1, "scalar", "message", <<"message", "q">>))
          [] m = <<"message", "q">>    -> Of(MapField("string", "message", <<"message", "p">>))
          [] m \in Chained -> LET k == CHOOSE k \in DOMAIN Chain : Chain[k] = m[2]
                             IN Of(IF k = Len(Chain) THEN Field(1, "scalar", "int64", NoType)
                                   ELSE Field(1, "scalar", "message", <<"message", Chain[k + 1]>>))
          [] m = <<"message", "via">>  -> Both(Field(1, "scalar", "message", Leaf),
                                               Field(2, "scalar", "message", <<"message", "q">>))]

MCEnumNames == [n \in {0, 1, -2} |-> <<7, IF n = -2 THEN 3 ELSE n>>]

-----------------------------------------------------------------------------

Top == Word \div 2 - 1
Ints == {-Top - 1, -Half - 1, -Half, -1, 0, 1, Half - 1, Half, Top}
Scalars ==
    {LuaInt(n) : n \in Ints}
    \union {LuaNum(h) : h \in {-5, -1, 1, 2 * Half + 1, Top}}
    \union {LuaStr(Show(n)) : n \in {-Top - 1, 1, Top + 1, Word - 1, Word}}
    \union {LuaStr(s) : s \in {<<>>, ShowBool(TRUE), ShowHalf(3), <<7, 3>>, <<8, 1>>}}
    \union {LuaBool(TRUE), LuaBool(FALSE), LuaOther}

Some == {LuaInt(-1), LuaInt(Half), LuaNum(3), LuaStr(Show(Word - 1)), LuaStr(<<7, 3>>), LuaBool(TRUE)}

Tab(pairs) == LuaTable(pairs)
Obj(x) == Tab(<< <<LuaStr(X), x>> >>)
Obj2(x, y) == Tab(<< <<LuaStr(X), x>>, <<LuaStr(Y), y>> >>)
List(xs) == Tab([i \in DOMAIN xs |-> <<LuaInt(i), xs[i]>>])

MapKeys ==
    {LuaInt(n) : n \in {-Top - 1, -1, 0, 1, Top}}
    \union {LuaStr(s) : s \in {Show(1), Show(-1), Show(Word - 1), <<7, 3>>, <<8>>}}
    \union {LuaBool(TRUE), LuaNum(1)}

Leaves ==
    {Obj(LuaInt(-1)), Obj2(LuaInt(Half), List(<<LuaStr(<<7>>), LuaStr(<<>>)>>)), Tab(<<>>)}

RECURSIVE Deep(_)
Deep(n) == IF n = 0 THEN LuaInt(1) ELSE List(<<Deep(n - 1)>>)

\* The bytes of n messages within one another.
RECURSIVE Wrapped(_)
Wrapped(n) ==
    IF n = 1 THEN WriteTag(1, Varint) \o <<1>>
    ELSE WriteTag(1, LenDelimited) \o WriteLenDelimited(Wrapped(n - 1))

MCRequests ==
    [msg : {"scalar"} \X Kinds, lua : {Obj(x) : x \in Scalars} \union {Obj2(x, LuaInt(-1)) : x \in Some}]
    \union [msg : {"list"} \X Kinds, lua : {Obj(List(<<x, y>>)) : x \in Some, y \in Some}
                                       \union {Obj2(List(<<x>>), LuaInt(2)) : x \in Some}
                                       \union {Obj(Tab(<<>>))}]
    \union [msg : Maps, lua : {Obj(Tab(<< <<k, LuaInt(1)>> >>)) : k \in MapKeys}
                          \union {Obj(Tab(<< <<k, LuaInt(1)>>, <<l, LuaInt(-2)>> >>)) :
                                     k \in {LuaInt(1), LuaStr(Show(2))}, l \in {LuaInt(-1), LuaStr(Show(3)), LuaBool(FALSE)}}]
    \union [msg : {Leaf}, lua : Leaves \union {LuaNil, LuaInt(1), LuaStr(WriteTag(1, Varint) \o <<1>>), LuaOther}
                             \union {Tab(<< <<LuaInt(1), LuaInt(1)>>, <<LuaStr(X), LuaInt(2)>> >>),
                                     Tab(<< <<LuaStr(<<7, 0>>), LuaInt(1)>> >>),
                                     Tab(<< <<LuaInt(2), LuaInt(1)>> >>),
                                     Tab(<< <<LuaNum(1), LuaInt(1)>> >>)}]
    \union {[msg |-> <<"message", Chain[k]>>, lua |-> LuaStr(Wrapped(Len(Chain) + 1 - k))] : k \in {1, 2}}
    \union [msg : {<<"message", "pair">>, <<"message", "via">>}, lua : {Obj2(x, y) : x \in Leaves, y \in Leaves}]
    \union [msg : {<<"message", "list">>}, lua : {Obj(List(<<x, y>>)) : x \in Leaves, y \in Leaves}
                                                    \union {Obj(Deep(n)) : n \in 0..MaxDepth}]
    \union [msg : {<<"message", m>> : m \in {"map", "p", "q", "self"}},
            lua : {Obj(Tab(<< <<LuaStr(X), x>>, <<LuaStr(Y), y>> >>)) : x \in Leaves, y \in Leaves}]
=============================================================================
